----------------------------- MODULE MCMembership -----------------------------
(* An instance of Membership for TLC.                                        *)
EXTENDS Membership
===============================================================================
