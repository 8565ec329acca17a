------------------------------ MODULE MCRealtime ------------------------------
(* An instance of Realtime for TLC.                                          *)
EXTENDS Realtime
===============================================================================
