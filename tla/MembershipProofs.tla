---------------------------- MODULE MembershipProofs ----------------------------
(* Type correctness of Membership, that the owner stays an ADMIN, that a cache  *)
(* is stale by a race only and that a settled invitation stays settled, for any *)
(* number of users, processes and overlapping requests.                         *)
EXTENDS Membership, TLAPS

-----------------------------------------------------------------------------
(* The records of the model.                                                *)

\* A request that goes on with other values of its fields stays a request.
LEMMA ActiveType ==
  ASSUME NEW q \in ActiveState
  PROVE  \A pc \in {"get", "find", "set", "handle", "select", "write", "invalidate", "commit"} :
            [q EXCEPT !.pc = pc] \in ActiveState /\ [q EXCEPT !.pc = pc].pc = pc
  BY DEF ActiveState

\* The fields of a request.
LEMMA ActiveFields ==
  ASSUME NEW q \in ActiveState
  PROVE  /\ q.proc \in Processes /\ q.caller \in Users /\ q.user \in Users
         /\ q.role \in RoleOrNone /\ q.seen \in RoleOrNone /\ q.current \in BOOLEAN
         /\ q.row \in MemberRow /\ q.inv \in Invitations \cup {None} /\ q.op \in Op
         /\ q.status \in {"none", "ACCEPTED", "EXPIRED", "REVOKED"}
         /\ q.op \in {"revoke", "accept"} => q.inv \in Invitations
  BY DEF ActiveState

\* A request whose read is known to be out of date is otherwise unchanged.
LEMMA StaleType ==
  ASSUME NEW q \in ActiveState
  PROVE  LET p == [q EXCEPT !.current = FALSE] IN
           /\ p \in ActiveState
           /\ p.pc = q.pc /\ p.seen = q.seen /\ p.caller = q.caller
           /\ p.op = q.op /\ p.user = q.user
  BY DEF ActiveState

\* A cache entry stays one when it is known to be out of date.
LEMMA EntryType ==
  ASSUME NEW e \in Entry
  PROVE  [e EXCEPT !.current = FALSE] \in Entry
  BY DEF Entry

\* Only an idle request has the program counter "idle".
LEMMA PcIsActive ==
  ASSUME TypeOK, NEW r \in Requests, req[r].pc # "idle"
  PROVE  req[r] \in ActiveState
  BY DEF TypeOK, RequestState, Idle

\* What TypeOK says of one request.
ReqOK(q) == q \in RequestState /\ (q.pc = "set" => q.seen \in Role)

LEMMA IdleOK == ReqOK(Idle)
  BY DEF ReqOK, RequestState, Idle

\* The types of requests are kept when one of them is replaced.
LEMMA ReqStep ==
  ASSUME TypeOK, NEW r \in Requests, NEW q, ReqOK(q), req' = [req EXCEPT ![r] = q]
  PROVE  /\ req' \in [Requests -> RequestState]
         /\ \A s \in Requests : req'[s].pc = "set" => req'[s].seen \in Role
  BY DEF TypeOK, ReqOK

\* The same for the moves Goto and End make.
LEMMA MoveStep ==
  ASSUME TypeOK, NEW r \in Requests
  PROVE  /\ \A pc \in {"get", "find", "handle", "select", "write", "invalidate", "commit"} :
              req[r].pc # "idle" /\ Goto(r, pc) =>
                /\ req' \in [Requests -> RequestState]
                /\ \A s \in Requests : req'[s].pc = "set" => req'[s].seen \in Role
         /\ End(r) =>
                /\ req' \in [Requests -> RequestState]
                /\ \A s \in Requests : req'[s].pc = "set" => req'[s].seen \in Role
<1>1. ASSUME NEW pc \in {"get", "find", "handle", "select", "write", "invalidate", "commit"},
             req[r].pc # "idle", Goto(r, pc)
      PROVE  /\ req' \in [Requests -> RequestState]
             /\ \A s \in Requests : req'[s].pc = "set" => req'[s].seen \in Role
  <2>1. req[r] \in ActiveState
    BY <1>1, PcIsActive
  <2>2. ReqOK([req[r] EXCEPT !.pc = pc])
    BY <2>1, ActiveType DEF ReqOK, RequestState
  <2>3. req' = [req EXCEPT ![r] = [req[r] EXCEPT !.pc = pc]]
    BY <1>1 DEF Goto, TypeOK
  <2> QED
    BY <2>2, <2>3, ReqStep
<1>2. ASSUME End(r)
      PROVE  /\ req' \in [Requests -> RequestState]
             /\ \A s \in Requests : req'[s].pc = "set" => req'[s].seen \in Role
  BY <1>2, IdleOK, ReqStep DEF End
<1> QED
  BY <1>1, <1>2

\* A write of a member row keeps every type.
LEMMA WriteMemberType ==
  ASSUME TypeOK, NEW r \in Requests, NEW u \in Users, NEW row \in MemberRow, NEW q, ReqOK(q),
         WriteMember(r, u, row, q)
  PROVE  /\ members' \in [Users -> MemberRow]
         /\ cache' \in [Processes -> [Users -> Entry]]
         /\ req' \in [Requests -> RequestState]
         /\ \A s \in Requests : req'[s].pc = "set" => req'[s].seen \in Role
<1>1. members' \in [Users -> MemberRow]
  BY DEF WriteMember, TypeOK
<1>2. cache' \in [Processes -> [Users -> Entry]]
  <2>1. ASSUME NEW p \in Processes
        PROVE  [cache[p] EXCEPT ![u].current = FALSE] \in [Users -> Entry]
    <3>1. cache[p] \in [Users -> Entry] /\ cache[p][u] \in Entry
      BY <2>1 DEF TypeOK
    <3>2. [cache[p][u] EXCEPT !.current = FALSE] \in Entry
      BY <3>1, EntryType
    <3>3. [cache[p] EXCEPT ![u].current = FALSE]
            = [cache[p] EXCEPT ![u] = [cache[p][u] EXCEPT !.current = FALSE]]
      OBVIOUS
    <3> QED
      BY <3>1, <3>2, <3>3
  <2> QED
    BY <2>1 DEF WriteMember, TypeOK
<1>3. ASSUME NEW s \in Requests
      PROVE  ReqOK(req'[s])
  <2>1. CASE s # r /\ req[s].pc = "set" /\ req[s].caller = u
    <3>1. req[s] \in ActiveState
      BY <2>1, PcIsActive
    <3>2. req'[s] = [req[s] EXCEPT !.current = FALSE]
      BY <2>1 DEF WriteMember
    <3>3. req'[s] \in ActiveState /\ req'[s].pc = req[s].pc /\ req'[s].seen = req[s].seen
      BY <3>1, <3>2, StaleType
    <3> QED
      BY <2>1, <3>3 DEF ReqOK, RequestState, TypeOK
  <2>2. CASE ~(s # r /\ req[s].pc = "set" /\ req[s].caller = u)
    BY <2>2 DEF WriteMember, TypeOK, ReqOK
  <2> QED
    BY <2>1, <2>2
<1>4. req' = [s \in Requests |-> req'[s]]
  BY DEF WriteMember
<1> QED
  BY <1>1, <1>2, <1>3, <1>4 DEF ReqOK

-----------------------------------------------------------------------------
(* Type correctness.                                                        *)

\* What TypeOK says of all requests.
ReqsOK ==
  /\ req \in [Requests -> RequestState]
  /\ \A s \in Requests : req[s].pc = "set" => req[s].seen \in Role

\* A step that moves requests and leaves the tables and the caches alone.
LEMMA OnlyRequests ==
  ASSUME TypeOK, ReqsOK', UNCHANGED <<cache, served>>, UnchangedTables
  PROVE  TypeOK'
  BY DEF TypeOK, ReqsOK, UnchangedTables

\* The guards move a request to its handler or end it.
LEMMA GuardedStep ==
  ASSUME TypeOK, NEW r \in Requests, NEW role, req[r].pc # "idle", Guarded(r, role)
  PROVE  ReqsOK'
  BY MoveStep DEF Guarded, ReqsOK

\* The guards' steps keep the types.
LEMMA GuardType ==
  ASSUME TypeOK, NEW r \in Requests, CacheGet(r) \/ FindMembership(r) \/ CacheSet(r)
  PROVE  TypeOK'
<1>1. CASE CacheGet(r)
  <2>1. ReqsOK'
    BY <1>1, MoveStep, GuardedStep DEF CacheGet, ReqsOK
  <2> QED
    BY <1>1, <2>1, OnlyRequests DEF CacheGet
<1>2. CASE FindMembership(r)
  <2> DEFINE q == [req[r] EXCEPT !.pc = "set", !.seen = members[req[r].caller].role]
  <2>1. req[r] \in ActiveState
    BY <1>2, PcIsActive DEF FindMembership
  <2>2. CASE members[req[r].caller].role = None
    <3>1. ReqsOK'
      BY <1>2, <2>2, MoveStep DEF FindMembership, ReqsOK
    <3> QED
      BY <1>2, <3>1, OnlyRequests DEF FindMembership
  <2>3. CASE members[req[r].caller].role # None
    <3>a. req[r].caller \in Users
      BY <2>1, ActiveFields
    <3>1. members[req[r].caller].role \in Role
      BY <3>a, <2>3 DEF TypeOK, MemberRow, RoleOrNone
    <3>2. q \in ActiveState /\ q.seen \in Role
      BY <2>1, <3>1 DEF ActiveState, RoleOrNone
    <3>3. req' = [req EXCEPT ![r] = q]
      BY <1>2, <2>3 DEF FindMembership, TypeOK
    <3>4. ReqsOK'
      BY <3>2, <3>3, ReqStep DEF ReqOK, RequestState, ReqsOK
    <3> QED
      BY <1>2, <3>4, OnlyRequests DEF FindMembership
  <2> QED
    BY <2>2, <2>3
<1>3. CASE CacheSet(r)
  <2>1. req[r] \in ActiveState
    BY <1>3, PcIsActive DEF CacheSet
  <2>2. [role |-> req[r].seen, current |-> req[r].current] \in Entry
    BY <2>1, ActiveFields DEF Entry
  <2>a. req[r].proc \in Processes /\ req[r].caller \in Users
    BY <2>1, ActiveFields
  <2>3. cache' \in [Processes -> [Users -> Entry]]
    BY <1>3, <2>a, <2>2 DEF CacheSet, TypeOK
  <2>4. ReqsOK'
    BY <1>3, GuardedStep DEF CacheSet
  <2> QED
    BY <1>3, <2>3, <2>4 DEF CacheSet, TypeOK, ReqsOK, UnchangedTables
<1> QED
  BY <1>1, <1>2, <1>3

\* updateMemberRole and removeMember keep the types.
LEMMA MemberType ==
  ASSUME TypeOK, NEW r \in Requests,
         LoadMember(r) \/ SelectMember(r) \/ WriteRole(r) \/ DeleteMember(r) \/ Invalidate(r)
  PROVE  TypeOK'
<1>1. CASE LoadMember(r)
  <2> DEFINE q == [req[r] EXCEPT !.pc = IF req[r].op = "remove" THEN "write" ELSE "select",
                                 !.row = members[req[r].user]]
  <2>1. req[r] \in ActiveState
    BY <1>1, PcIsActive DEF LoadMember
  <2>a. req[r].user \in Users
    BY <2>1, ActiveFields
  <2>2. members[req[r].user] \in MemberRow
    BY <2>a DEF TypeOK
  <2>3. q \in ActiveState /\ q.pc # "set"
    BY <2>1, <2>2 DEF ActiveState
  <2>4. End(r) \/ req' = [req EXCEPT ![r] = q]
    BY <1>1 DEF LoadMember, TypeOK
  <2> HIDE DEF q
  <2>5. ReqOK(q)
    BY <2>3 DEF ReqOK, RequestState
  <2>6. ReqsOK'
    BY <2>4, <2>5, ReqStep, MoveStep DEF ReqsOK
  <2> QED
    BY <1>1, <2>6, OnlyRequests DEF LoadMember
<1>2. CASE SelectMember(r)
  <2>1. req[r] \in ActiveState
    BY <1>2, PcIsActive DEF SelectMember
  <2>2. PICK sql \in {"none", "insert", "update"} :
          req' = [req EXCEPT ![r] = [req[r] EXCEPT !.pc = "write", !.sql = sql]]
    BY <1>2 DEF SelectMember, TypeOK
  <2>3. ReqOK([req[r] EXCEPT !.pc = "write", !.sql = sql])
    BY <2>1 DEF ActiveState, ReqOK, RequestState
  <2>4. ReqsOK'
    BY <2>2, <2>3, ReqStep DEF ReqsOK
  <2> QED
    BY <1>2, <2>4, OnlyRequests DEF SelectMember
<1>3. CASE WriteRole(r)
  <2> DEFINE new == [role |-> req[r].role, id |-> req[r].row.id]
             q == [req[r] EXCEPT !.pc = "invalidate"]
  <2>1. req[r] \in ActiveState
    BY <1>3, PcIsActive DEF WriteRole
  <2>2. new \in MemberRow /\ req[r].user \in Users
    BY <2>1, ActiveFields DEF MemberRow
  <2>3. ReqOK(q)
    BY <2>1, ActiveType DEF ReqOK, RequestState
  <2>4. \/ (End(r) \/ Goto(r, "invalidate")) /\ UNCHANGED <<members, cache>>
        \/ WriteMember(r, req[r].user, new, q)
    BY <1>3 DEF WriteRole
  <2>5. CASE (End(r) \/ Goto(r, "invalidate")) /\ UNCHANGED <<members, cache>>
    <3>1. ReqsOK'
      BY <1>3, <2>5, MoveStep DEF WriteRole, ReqsOK
    <3> QED
      BY <1>3, <2>5, <3>1, OnlyRequests DEF WriteRole, UnchangedTables
  <2>6. CASE WriteMember(r, req[r].user, new, q)
    <3> HIDE DEF new, q
    <3> QED
      BY <1>3, <2>2, <2>3, <2>6, WriteMemberType DEF WriteRole, TypeOK
  <2> QED
    BY <2>4, <2>5, <2>6
<1>4. CASE DeleteMember(r)
  <2> DEFINE q == [req[r] EXCEPT !.pc = "invalidate"]
  <2>1. req[r] \in ActiveState
    BY <1>4, PcIsActive DEF DeleteMember
  <2>2. NoMember \in MemberRow /\ req[r].user \in Users
    BY <2>1, ActiveFields DEF MemberRow, NoMember, RoleOrNone
  <2>3. ReqOK(q)
    BY <2>1, ActiveType DEF ReqOK, RequestState
  <2>4. CASE Goto(r, "invalidate") /\ UNCHANGED <<members, cache>>
    <3>1. ReqsOK'
      BY <1>4, <2>4, MoveStep DEF DeleteMember, ReqsOK
    <3> QED
      BY <1>4, <2>4, <3>1, OnlyRequests DEF DeleteMember, UnchangedTables
  <2>5. CASE WriteMember(r, req[r].user, NoMember, q)
    <3> HIDE DEF q
    <3> QED
      BY <1>4, <2>2, <2>3, <2>5, WriteMemberType DEF DeleteMember, TypeOK
  <2> QED
    BY <1>4, <2>4, <2>5 DEF DeleteMember
<1>5. CASE Invalidate(r)
  <2>1. req[r] \in ActiveState
    BY <1>5, PcIsActive DEF Invalidate
  <2>a. req[r].proc \in Processes /\ req[r].user \in Users
    BY <2>1, ActiveFields
  <2>2. NoEntry \in Entry
    BY DEF NoEntry, Entry, RoleOrNone
  <2>3. cache' \in [Processes -> [Users -> Entry]]
    BY <1>5, <2>a, <2>2 DEF Invalidate, TypeOK
  <2>4. ReqsOK'
    BY <1>5, MoveStep DEF Invalidate, ReqsOK
  <2> QED
    BY <1>5, <2>3, <2>4 DEF Invalidate, TypeOK, ReqsOK, UnchangedTables
<1> QED
  BY <1>1, <1>2, <1>3, <1>4, <1>5

\* An invitation with another status is an invitation.
LEMMA InvitationStatus ==
  ASSUME NEW f \in [Invitations -> Invitation], NEW i,
         NEW st \in {"none", "PENDING", "ACCEPTED", "EXPIRED", "REVOKED"}
  PROVE  [f EXCEPT ![i].status = st] \in [Invitations -> Invitation]
<1>1. CASE i \in Invitations
  <2>1. f[i] \in Invitation
    BY <1>1
  <2>2. [f[i] EXCEPT !.status = st] \in Invitation
    BY <2>1 DEF Invitation
  <2>3. [f EXCEPT ![i].status = st] = [f EXCEPT ![i] = [f[i] EXCEPT !.status = st]]
    OBVIOUS
  <2> QED
    BY <1>1, <2>2, <2>3
<1>2. CASE i \notin Invitations
  <2>1. [f EXCEPT ![i].status = st] = f
    BY <1>2
  <2> QED
    BY <2>1
<1> QED
  BY <1>1, <1>2

\* The invitations keep the types.
LEMMA InvitationType ==
  ASSUME TypeOK, NEW r \in Requests,
         \/ CheckInvite(r) \/ InsertInvitation(r)
         \/ LoadInvitation(r) \/ SelectInvitation(r) \/ WriteInvitation(r)
         \/ FindMemberToAccept(r) \/ CommitAccept(r)
  PROVE  TypeOK'
<1>1. CASE CheckInvite(r)
  <2>1. ReqsOK'
    BY <1>1, MoveStep DEF CheckInvite, ReqsOK
  <2> QED
    BY <1>1, <2>1, OnlyRequests DEF CheckInvite
<1>2. CASE InsertInvitation(r)
  <2>1. req[r] \in ActiveState
    BY <1>2, PcIsActive DEF InsertInvitation
  <2>2. req[r].user \in Users /\ req[r].role \in RoleOrNone
    BY <2>1, ActiveFields
  <2>3. invs' \in [Invitations -> Invitation]
    <3>1. [status |-> "PENDING", email |-> req[r].user, role |-> req[r].role, expired |-> FALSE]
            \in Invitation
      BY <2>2 DEF Invitation
    <3> QED
      BY <1>2, <3>1 DEF InsertInvitation, TypeOK
  <2>4. ReqsOK'
    BY <1>2, MoveStep DEF InsertInvitation, ReqsOK
  <2> QED
    BY <1>2, <2>3, <2>4 DEF InsertInvitation, TypeOK, ReqsOK
<1>3. CASE LoadInvitation(r)
  <2>1. req[r] \in ActiveState
    BY <1>3, PcIsActive DEF LoadInvitation
  <2>2. CASE End(r)
    <3>1. ReqsOK'
      BY <2>2, MoveStep DEF ReqsOK
    <3> QED
      BY <1>3, <3>1, OnlyRequests DEF LoadInvitation
  <2>3. CASE \E st \in {"REVOKED", "EXPIRED"} :
               req' = [req EXCEPT ![r] = [req[r] EXCEPT !.pc = "select", !.status = st]]
    <3>1. PICK st \in {"REVOKED", "EXPIRED"} :
            req' = [req EXCEPT ![r] = [req[r] EXCEPT !.pc = "select", !.status = st]]
      BY <2>3
    <3>2. ReqOK([req[r] EXCEPT !.pc = "select", !.status = st])
      BY <2>1 DEF ActiveState, ReqOK, RequestState
    <3>3. ReqsOK'
      BY <3>1, <3>2, ReqStep DEF ReqsOK
    <3> QED
      BY <1>3, <3>3, OnlyRequests DEF LoadInvitation
  <2>4. CASE /\ invs[req[r].inv].status = "PENDING" /\ invs[req[r].inv].email = req[r].caller
             /\ req' = [req EXCEPT ![r] = [req[r] EXCEPT !.pc = "select", !.status = "ACCEPTED",
                                                        !.role = invs[req[r].inv].role]]
    <3>1. req[r].inv \in Invitations
      BY <1>3, <2>1, ActiveFields DEF LoadInvitation
    <3>2. invs[req[r].inv].role \in RoleOrNone
      BY <3>1 DEF TypeOK, Invitation
    <3>3. ReqOK([req[r] EXCEPT !.pc = "select", !.status = "ACCEPTED",
                               !.role = invs[req[r].inv].role])
      BY <2>1, <3>2 DEF ActiveState, ReqOK, RequestState
    <3>4. ReqsOK'
      BY <2>4, <3>3, ReqStep DEF ReqsOK
    <3> QED
      BY <1>3, <3>4, OnlyRequests DEF LoadInvitation
  <2> QED
    BY <1>3, <2>2, <2>3, <2>4 DEF LoadInvitation, TypeOK
<1>4. CASE SelectInvitation(r)
  <2>1. req[r] \in ActiveState
    BY <1>4, PcIsActive DEF SelectInvitation
  <2>2. PICK sql \in {"none", "update"} :
          req' = [req EXCEPT ![r] = [req[r] EXCEPT !.pc = "write", !.sql = sql]]
    BY <1>4 DEF SelectInvitation, TypeOK
  <2>3. ReqOK([req[r] EXCEPT !.pc = "write", !.sql = sql])
    BY <2>1 DEF ActiveState, ReqOK, RequestState
  <2>4. ReqsOK'
    BY <2>2, <2>3, ReqStep DEF ReqsOK
  <2> QED
    BY <1>4, <2>4, OnlyRequests DEF SelectInvitation
<1>5. CASE WriteInvitation(r)
  <2>1. req[r] \in ActiveState
    BY <1>5, PcIsActive DEF WriteInvitation
  <2>2. req[r].status \in {"none", "ACCEPTED", "EXPIRED", "REVOKED"}
    BY <2>1, ActiveFields
  <2>3. invs' \in [Invitations -> Invitation]
    BY <1>5, <2>2, InvitationStatus DEF WriteInvitation, TypeOK
  <2>4. ReqsOK'
    BY <1>5, MoveStep DEF WriteInvitation, ReqsOK
  <2> QED
    BY <1>5, <2>3, <2>4 DEF WriteInvitation, TypeOK, ReqsOK
<1>6. CASE FindMemberToAccept(r)
  <2>1. req[r] \in ActiveState
    BY <1>6, PcIsActive DEF FindMemberToAccept
  <2>2. req[r].caller \in Users
    BY <2>1, ActiveFields
  <2>3. members[req[r].caller] \in MemberRow
    BY <2>2 DEF TypeOK
  <2>4. ReqOK([req[r] EXCEPT !.pc = "commit", !.row = members[req[r].caller]])
    BY <2>1, <2>3 DEF ActiveState, ReqOK, RequestState
  <2>5. req' = [req EXCEPT ![r] = [req[r] EXCEPT !.pc = "commit", !.row = members[req[r].caller]]]
    BY <1>6 DEF FindMemberToAccept, TypeOK
  <2>6. ReqsOK'
    BY <2>4, <2>5, ReqStep DEF ReqsOK
  <2> QED
    BY <1>6, <2>6, OnlyRequests DEF FindMemberToAccept
<1>7. CASE CommitAccept(r)
  <2> DEFINE new == [role |-> req[r].role, id |-> inserts + 1]
             u == req[r].caller
  <2>1. req[r] \in ActiveState
    BY <1>7, PcIsActive DEF CommitAccept
  <2>2. u \in Users /\ new \in MemberRow
    BY <2>1, ActiveFields DEF MemberRow, TypeOK
  <2>3. [invs EXCEPT ![req[r].inv].status = "ACCEPTED"] \in [Invitations -> Invitation]
    BY InvitationStatus DEF TypeOK
  <2>4. CASE End(r) /\ UNCHANGED <<members, inserts, cache>>
    <3>1. ReqsOK'
      BY <2>4, MoveStep DEF ReqsOK
    <3> QED
      BY <1>7, <2>3, <2>4, <3>1 DEF CommitAccept, TypeOK, ReqsOK
  <2>5. CASE /\ WriteMember(r, u, new, Idle) /\ inserts' = inserts + 1
             /\ invs' = [invs EXCEPT ![req[r].inv].status = "ACCEPTED"]
    <3> HIDE DEF u, new
    <3> QED
      BY <1>7, <2>2, <2>3, <2>5, WriteMemberType, IdleOK DEF CommitAccept, TypeOK
  <2> QED
    BY <1>7, <2>4, <2>5 DEF CommitAccept
<1> QED
  BY <1>1, <1>2, <1>3, <1>4, <1>5, <1>6, <1>7

\* Everything but a step of a request in progress keeps the types.
LEMMA OutsideType ==
  /\ Init => TypeOK
  /\ TypeOK /\ (\E u \in Users : Create(u)) => TypeOK'
  /\ TypeOK /\ (\E r \in Requests : Arrive(r)) => TypeOK'
  /\ TypeOK /\ (\E p \in Processes, u \in Users : Expire(p, u)) => TypeOK'
  /\ TypeOK /\ (\E i \in Invitations : InvitationExpires(i)) => TypeOK'
<1>1. Init => TypeOK
  <2> SUFFICES ASSUME Init PROVE TypeOK
    OBVIOUS
  <2>1. NoMember \in MemberRow /\ NoEntry \in Entry
    BY DEF NoMember, MemberRow, NoEntry, Entry, RoleOrNone
  <2>2. /\ owner \in Users \cup {None} /\ inserts \in Nat
        /\ members \in [Users -> MemberRow]
    <3>1. CASE NoWorkspace
      BY <2>1, <3>1 DEF NoWorkspace
    <3>2. CASE Established
      BY <2>1, <3>2 DEF Established, MemberRow, RoleOrNone, Role
    <3>3. CASE Invited
      BY <2>1, <3>3 DEF Invited, MemberRow, RoleOrNone, Role
    <3> QED
      BY <3>1, <3>2, <3>3 DEF Init
  <2>3. invs \in [Invitations -> Invitation]
    <3>1. NoInvitation \in Invitation
      BY DEF NoInvitation, Invitation, RoleOrNone
    <3>2. CASE NoWorkspace
      BY <3>1, <3>2 DEF NoWorkspace
    <3>3. CASE Established
      BY <3>1, <3>3 DEF Established
    <3>4. CASE Invited
      <4>1. ASSUME NEW u \in Users, NEW role \in Role
            PROVE  [NoInvitation EXCEPT !.status = "PENDING", !.email = u, !.role = role]
                     \in Invitation
        BY <4>1 DEF NoInvitation, Invitation, RoleOrNone
      <4> QED
        BY <3>1, <3>4, <4>1 DEF Invited
    <3> QED
      BY <3>2, <3>3, <3>4 DEF Init
  <2>4. cache \in [Processes -> [Users -> Entry]] /\ served \in Nat
    BY <2>1 DEF Init
  <2>5. /\ req \in [Requests -> RequestState]
        /\ \A r \in Requests : req[r].pc = "set" => req[r].seen \in Role
    BY IdleOK DEF Init, ReqOK
  <2> QED
    BY <2>2, <2>3, <2>4, <2>5 DEF TypeOK
<1>2. ASSUME TypeOK, NEW u \in Users, Create(u) PROVE TypeOK'
  <2>1. [role |-> "ADMIN", id |-> inserts + 1] \in MemberRow
    BY <1>2 DEF TypeOK, MemberRow, RoleOrNone, Role
  <2> QED
    BY <1>2, <2>1 DEF Create, TypeOK
<1>3. ASSUME TypeOK, NEW r \in Requests, Arrive(r) PROVE TypeOK'
  <2>1. PICK op \in Op, p \in Processes, c \in Users, u \in Users,
             i \in Invitations \cup {None}, role \in RoleOrNone :
          Begin(r, op, p, c, u, i, role) /\ (op \in {"revoke", "accept"} => i # None)
    BY <1>3, ConstantsAssumption DEF Arrive, Op, RoleOrNone
  <2> DEFINE q == [pc |-> IF op = "accept" THEN "handle" ELSE "get",
                   op |-> op, proc |-> p, caller |-> c, user |-> u, inv |-> i, role |-> role,
                   seen |-> None, current |-> TRUE, row |-> NoMember, status |-> "none",
                   sql |-> "none"]
  <2>2. NoMember \in MemberRow
    BY DEF NoMember, MemberRow, RoleOrNone
  <2>3. q \in ActiveState /\ q.pc # "set"
    BY <2>1, <2>2 DEF ActiveState, RoleOrNone
  <2>4. req' = [req EXCEPT ![r] = q] /\ served' = served + 1
    BY <2>1 DEF Begin
  <2> HIDE DEF q
  <2>5. ReqOK(q)
    BY <2>3 DEF ReqOK, RequestState
  <2>6. ReqsOK'
    BY <1>3, <2>4, <2>5, ReqStep DEF ReqsOK
  <2> QED
    BY <1>3, <2>1, <2>4, <2>6 DEF Begin, TypeOK, ReqsOK, UnchangedTables
<1>4. ASSUME TypeOK, NEW p \in Processes, NEW u \in Users, Expire(p, u) PROVE TypeOK'
  <2>1. NoEntry \in Entry
    BY DEF NoEntry, Entry, RoleOrNone
  <2>2. cache' \in [Processes -> [Users -> Entry]]
    BY <1>4, <2>1 DEF Expire, TypeOK
  <2> QED
    BY <1>4, <2>2 DEF Expire, TypeOK, UnchangedTables
<1>5. ASSUME TypeOK, NEW i \in Invitations, InvitationExpires(i) PROVE TypeOK'
  <2>1. invs' \in [Invitations -> Invitation]
    <3>1. invs[i] \in Invitation
      BY <1>5 DEF TypeOK
    <3>2. [invs[i] EXCEPT !.expired = TRUE] \in Invitation
      BY <3>1 DEF Invitation
    <3>3. invs' = [invs EXCEPT ![i] = [invs[i] EXCEPT !.expired = TRUE]]
      BY <1>5 DEF InvitationExpires, TypeOK
    <3> QED
      BY <1>5, <3>2, <3>3 DEF TypeOK
  <2> QED
    BY <1>5, <2>1 DEF InvitationExpires, TypeOK
<1> QED
  BY <1>1, <1>2, <1>3, <1>4, <1>5

LEMMA TypeStep == TypeOK /\ [Next]_vars => TypeOK'
<1>1. ASSUME TypeOK, NEW r \in Requests, Step(r) PROVE TypeOK'
  BY <1>1, GuardType, MemberType, InvitationType DEF Step
<1>2. TypeOK /\ UNCHANGED vars => TypeOK'
  BY DEF vars, TypeOK
<1> QED
  BY <1>1, <1>2, OutsideType DEF Next

\* The table, the caches and the requests over them keep their shape: the
\* guards cache a membership only when there is one.
THEOREM TypeCorrect == Spec => []TypeOK
  BY OutsideType, TypeStep, PTL DEF Spec

-----------------------------------------------------------------------------
(* The owner.  OwnerIsAdmin speaks of the table and the caches; what keeps it *)
(* is what the requests in progress hold: a role read for the owner is ADMIN, *)
(* and no handler that has loaded a member has loaded the owner.              *)

OwnerSafe(q) ==
  /\ q.pc = "set" /\ q.caller = owner => q.seen = "ADMIN"
  /\ q.pc \in {"select", "write"} /\ q.op \in {"updateRole", "remove"} => q.user # owner

CachesOwner == \A p \in Processes : cache[p][owner].role \in {None, "ADMIN"}

OwnerInv ==
  /\ owner = None =>
       /\ \A r \in Requests : req[r] = Idle
       /\ \A p \in Processes, u \in Users : cache[p][u].role = None
  /\ owner # None =>
       /\ owner \in Users
       /\ members[owner].role = "ADMIN"
       /\ CachesOwner
       /\ \A r \in Requests : OwnerSafe(req[r])

\* A request in progress has a workspace.
LEMMA ActiveHasOwner ==
  ASSUME OwnerInv, NEW r \in Requests, req[r].pc # "idle"
  PROVE  owner # None /\ owner \in Users
  BY DEF OwnerInv, Idle

LEMMA IdleSafe == OwnerSafe(Idle)
  BY DEF OwnerSafe, Idle

\* One request moves, and the owner's row and cache entries stay as they have
\* to be.
LEMMA OwnerFrame ==
  ASSUME TypeOK, OwnerInv, owner # None, owner' = owner,
         members'[owner].role = "ADMIN", CachesOwner',
         NEW r \in Requests, NEW q, OwnerSafe(q), req' = [req EXCEPT ![r] = q]
  PROVE  OwnerInv'
  BY DEF TypeOK, OwnerInv, OwnerSafe

\* The same for the moves Goto and End make.
LEMMA OwnerMove ==
  ASSUME TypeOK, OwnerInv, owner # None, owner' = owner,
         members'[owner].role = "ADMIN", CachesOwner',
         NEW r \in Requests, req[r].pc # "idle",
         End(r) \/ Goto(r, "find") \/ Goto(r, "handle") \/ Goto(r, "invalidate")
           \/ (Goto(r, "write") /\ req[r].op = "invite")
  PROVE  OwnerInv'
<1>1. CASE End(r)
  BY <1>1, IdleSafe, OwnerFrame DEF End
<1>2. ASSUME NEW pc \in {"find", "handle", "invalidate", "write"}, Goto(r, pc),
             pc = "write" => req[r].op = "invite"
      PROVE  OwnerInv'
  <2> DEFINE q == [req[r] EXCEPT !.pc = pc]
  <2>1. req[r] \in ActiveState
    BY PcIsActive
  <2>2. q.pc = pc /\ q.op = req[r].op
    BY <2>1 DEF ActiveState
  <2>3. req' = [req EXCEPT ![r] = q]
    BY <1>2 DEF Goto, TypeOK
  <2>4. OwnerSafe(q)
    BY <1>2, <2>2 DEF OwnerSafe
  <2> HIDE DEF q
  <2> QED
    BY <2>3, <2>4, OwnerFrame
<1> QED
  BY <1>1, <1>2

\* A write of somebody else's row does not touch the owner.
LEMMA OwnerWrite ==
  ASSUME TypeOK, OwnerInv, owner # None, owner' = owner, NEW r \in Requests,
         NEW u \in Users \ {owner}, NEW row, NEW q, OwnerSafe(q), WriteMember(r, u, row, q)
  PROVE  OwnerInv'
<1>1. members'[owner].role = "ADMIN"
  BY DEF WriteMember, OwnerInv, TypeOK
<1>2. \A p \in Processes : cache'[p][owner].role = cache[p][owner].role
  BY DEF WriteMember, OwnerInv, TypeOK
<1>3. CachesOwner'
  BY <1>2 DEF CachesOwner, OwnerInv
<1>4. ASSUME NEW s \in Requests
      PROVE  OwnerSafe(req[s])'
  <2>1. CASE s = r
    BY <2>1 DEF WriteMember, OwnerSafe
  <2>2. CASE s # r /\ req[s].pc = "set" /\ req[s].caller = u
    <3>1. req[s] \in ActiveState
      BY <2>2, PcIsActive
    <3>2. req'[s] = [req[s] EXCEPT !.current = FALSE]
      BY <2>2 DEF WriteMember
    <3>3. req'[s].pc = "set" /\ req'[s].caller = u
      BY <2>2, <3>1, <3>2, StaleType
    <3> QED
      BY <3>3 DEF OwnerSafe
  <2>3. CASE s # r /\ ~(req[s].pc = "set" /\ req[s].caller = u)
    BY <2>3 DEF WriteMember, OwnerSafe, OwnerInv
  <2> QED
    BY <2>1, <2>2, <2>3
<1> QED
  BY <1>1, <1>3, <1>4 DEF OwnerInv

\* The steps of a request in progress keep the owner's invariant.
LEMMA StepOwner ==
  ASSUME TypeOK, OwnerInv, NEW r \in Requests, Step(r)
  PROVE  OwnerInv'
<1>1. req[r].pc # "idle"
  BY DEF Step, CacheGet, FindMembership, CacheSet, LoadMember, SelectMember, WriteRole,
         DeleteMember, Invalidate, CheckInvite, InsertInvitation, LoadInvitation,
         SelectInvitation, WriteInvitation, FindMemberToAccept, CommitAccept
<1>2. req[r] \in ActiveState /\ owner # None /\ owner \in Users
  BY <1>1, PcIsActive, ActiveHasOwner
<1>3. /\ members[owner].role = "ADMIN" /\ CachesOwner /\ OwnerSafe(req[r])
      /\ req[r].proc \in Processes /\ req[r].caller \in Users /\ req[r].user \in Users
  BY <1>2, ActiveFields DEF OwnerInv
<1>4. ASSUME UNCHANGED <<owner, members, cache>>
      PROVE  owner' = owner /\ members'[owner].role = "ADMIN" /\ CachesOwner'
  BY <1>3, <1>4 DEF CachesOwner
<1>5. CASE CacheGet(r)
  BY <1>1, <1>2, <1>4, <1>5, OwnerMove DEF CacheGet, Guarded, UnchangedTables
<1>6. CASE FindMembership(r)
  <2> DEFINE q == [req[r] EXCEPT !.pc = "set", !.seen = members[req[r].caller].role]
  <2>1. owner' = owner /\ members'[owner].role = "ADMIN" /\ CachesOwner'
    BY <1>4, <1>6 DEF FindMembership, UnchangedTables
  <2>2. End(r) \/ req' = [req EXCEPT ![r] = q]
    BY <1>6 DEF FindMembership, TypeOK
  <2>3. q.pc = "set" /\ q.caller = req[r].caller /\ q.seen = members[req[r].caller].role
    BY <1>2 DEF ActiveState
  <2>4. OwnerSafe(q)
    BY <1>3, <2>3 DEF OwnerSafe
  <2> HIDE DEF q
  <2> QED
    BY <1>1, <1>2, <2>1, <2>2, <2>4, OwnerMove, OwnerFrame
<1>7. CASE CacheSet(r)
  <2>1. CachesOwner'
    <3>1. req[r].caller = owner => req[r].seen = "ADMIN"
      BY <1>3, <1>7 DEF CacheSet, OwnerSafe
    <3>2. ASSUME NEW p \in Processes
          PROVE  cache'[p][owner].role \in {None, "ADMIN"}
      BY <1>2, <1>3, <1>7, <3>1 DEF CacheSet, CachesOwner, TypeOK
    <3> QED
      BY <1>7, <3>2 DEF CacheSet, CachesOwner, UnchangedTables
  <2> QED
    BY <1>1, <1>2, <1>3, <1>7, <2>1, OwnerMove DEF CacheSet, Guarded, UnchangedTables
<1>8. CASE LoadMember(r)
  <2> DEFINE q == [req[r] EXCEPT !.pc = IF req[r].op = "remove" THEN "write" ELSE "select",
                                 !.row = members[req[r].user]]
  <2>1. owner' = owner /\ members'[owner].role = "ADMIN" /\ CachesOwner'
    BY <1>4, <1>8 DEF LoadMember, UnchangedTables
  <2>2. End(r) \/ (req[r].user # owner /\ req' = [req EXCEPT ![r] = q])
    BY <1>8 DEF LoadMember, TypeOK
  <2>3. q.pc # "set" /\ q.user = req[r].user
    BY <1>2 DEF ActiveState
  <2>4. req[r].user # owner => OwnerSafe(q)
    BY <2>3 DEF OwnerSafe
  <2> HIDE DEF q
  <2> QED
    BY <1>1, <1>2, <2>1, <2>2, <2>4, OwnerMove, OwnerFrame
<1>9. CASE SelectMember(r)
  <2>1. owner' = owner /\ members'[owner].role = "ADMIN" /\ CachesOwner'
    BY <1>4, <1>9 DEF SelectMember, UnchangedTables
  <2>2. PICK sql \in {"none", "insert", "update"} :
          req' = [req EXCEPT ![r] = [req[r] EXCEPT !.pc = "write", !.sql = sql]]
    BY <1>9 DEF SelectMember, TypeOK
  <2> DEFINE q == [req[r] EXCEPT !.pc = "write", !.sql = sql]
  <2>3. q.pc = "write" /\ q.user = req[r].user
    BY <1>2 DEF ActiveState
  <2>4. OwnerSafe(q)
    BY <1>3, <1>9, <2>3 DEF OwnerSafe, SelectMember
  <2>5. req' = [req EXCEPT ![r] = q]
    BY <2>2
  <2> HIDE DEF q
  <2> QED
    BY <1>2, <2>1, <2>4, <2>5, OwnerFrame
<1>10. CASE WriteRole(r)
  <2> DEFINE new == [role |-> req[r].role, id |-> req[r].row.id]
             q == [req[r] EXCEPT !.pc = "invalidate"]
  <2>1. q.pc = "invalidate" /\ req[r].user \in Users \ {owner}
    BY <1>2, <1>3, <1>10 DEF ActiveState, OwnerSafe, WriteRole
  <2>2. OwnerSafe(q)
    BY <2>1 DEF OwnerSafe
  <2>3. \/ (End(r) \/ Goto(r, "invalidate")) /\ UNCHANGED <<members, cache>>
        \/ WriteMember(r, req[r].user, new, q)
    BY <1>10 DEF WriteRole
  <2>4. owner' = owner
    BY <1>10 DEF WriteRole
  <2> HIDE DEF q, new
  <2> QED
    BY <1>1, <1>2, <1>4, <2>1, <2>2, <2>3, <2>4, OwnerMove, OwnerWrite
<1>11. CASE DeleteMember(r)
  <2> DEFINE q == [req[r] EXCEPT !.pc = "invalidate"]
  <2>1. q.pc = "invalidate" /\ req[r].user \in Users \ {owner}
    BY <1>2, <1>3, <1>11 DEF ActiveState, OwnerSafe, DeleteMember
  <2>2. OwnerSafe(q)
    BY <2>1 DEF OwnerSafe
  <2>3. \/ Goto(r, "invalidate") /\ UNCHANGED <<members, cache>>
        \/ WriteMember(r, req[r].user, NoMember, q)
    BY <1>11 DEF DeleteMember
  <2>4. owner' = owner
    BY <1>11 DEF DeleteMember
  <2> HIDE DEF q
  <2> QED
    BY <1>1, <1>2, <1>4, <2>1, <2>2, <2>3, <2>4, OwnerMove, OwnerWrite
<1>12. CASE Invalidate(r)
  <2>1. ASSUME NEW p \in Processes
        PROVE  cache'[p][owner].role \in {None, "ADMIN"}
    BY <1>2, <1>3, <1>12 DEF Invalidate, CachesOwner, TypeOK, NoEntry
  <2>2. CachesOwner'
    BY <1>12, <2>1 DEF Invalidate, CachesOwner, UnchangedTables
  <2> QED
    BY <1>1, <1>2, <1>3, <1>12, <2>2, OwnerMove DEF Invalidate, UnchangedTables
<1>13. CASE CheckInvite(r)
  BY <1>1, <1>2, <1>4, <1>13, OwnerMove DEF CheckInvite, UnchangedTables
<1>14. CASE InsertInvitation(r)
  BY <1>1, <1>2, <1>4, <1>14, OwnerMove DEF InsertInvitation
<1>15. CASE WriteInvitation(r)
  BY <1>1, <1>2, <1>4, <1>15, OwnerMove DEF WriteInvitation
<1>16. CASE LoadInvitation(r) \/ SelectInvitation(r) \/ FindMemberToAccept(r)
  <2>1. owner' = owner /\ members'[owner].role = "ADMIN" /\ CachesOwner'
    BY <1>4, <1>16 DEF LoadInvitation, SelectInvitation, FindMemberToAccept, UnchangedTables
  <2>2. req[r].op \notin {"updateRole", "remove"}
    BY <1>16 DEF LoadInvitation, SelectInvitation, FindMemberToAccept
  <2>3. ASSUME NEW q, q.pc # "set", q.op = req[r].op, req' = [req EXCEPT ![r] = q]
        PROVE  OwnerInv'
    <3>1. OwnerSafe(q)
      BY <2>2, <2>3 DEF OwnerSafe
    <3> QED
      BY <1>2, <2>1, <2>3, <3>1, OwnerFrame
  <2>4. CASE LoadInvitation(r)
    <3>1. CASE End(r)
      BY <1>1, <1>2, <2>1, <3>1, OwnerMove
    <3>2. CASE \E st \in {"REVOKED", "EXPIRED"} :
                 req' = [req EXCEPT ![r] = [req[r] EXCEPT !.pc = "select", !.status = st]]
      <4>1. PICK st : req' = [req EXCEPT ![r] = [req[r] EXCEPT !.pc = "select", !.status = st]]
        BY <3>2
      <4> DEFINE q == [req[r] EXCEPT !.pc = "select", !.status = st]
      <4>2. q.pc # "set" /\ q.op = req[r].op
        BY <1>2 DEF ActiveState
      <4> HIDE DEF q
      <4> QED
        BY <2>3, <4>1, <4>2 DEF q
    <3>3. CASE req' = [req EXCEPT ![r] = [req[r] EXCEPT !.pc = "select", !.status = "ACCEPTED",
                                                        !.role = invs[req[r].inv].role]]
      <4> DEFINE q == [req[r] EXCEPT !.pc = "select", !.status = "ACCEPTED",
                                     !.role = invs[req[r].inv].role]
      <4>1. q.pc # "set" /\ q.op = req[r].op
        BY <1>2 DEF ActiveState
      <4> QED
        BY <2>3, <3>3, <4>1
    <3> QED
      BY <2>4, <3>1, <3>2, <3>3 DEF LoadInvitation, TypeOK
  <2>5. CASE SelectInvitation(r)
    <3>1. PICK sql : req' = [req EXCEPT ![r] = [req[r] EXCEPT !.pc = "write", !.sql = sql]]
      BY <2>5 DEF SelectInvitation, TypeOK
    <3> DEFINE q == [req[r] EXCEPT !.pc = "write", !.sql = sql]
    <3>2. q.pc # "set" /\ q.op = req[r].op
      BY <1>2 DEF ActiveState
    <3> QED
      BY <2>3, <3>1, <3>2
  <2>6. CASE FindMemberToAccept(r)
    <3> DEFINE q == [req[r] EXCEPT !.pc = "commit", !.row = members[req[r].caller]]
    <3>1. q.pc # "set" /\ q.op = req[r].op
      BY <1>2 DEF ActiveState
    <3>2. req' = [req EXCEPT ![r] = q]
      BY <2>6 DEF FindMemberToAccept, TypeOK
    <3> QED
      BY <2>3, <3>1, <3>2
  <2> QED
    BY <1>16, <2>4, <2>5, <2>6
<1>17. CASE CommitAccept(r)
  <2> DEFINE new == [role |-> req[r].role, id |-> inserts + 1]
  <2>1. CASE End(r) /\ UNCHANGED <<members, cache>>
    BY <1>1, <1>2, <1>4, <1>17, <2>1, OwnerMove DEF CommitAccept
  <2>2. CASE members[req[r].caller].role = None /\ WriteMember(r, req[r].caller, new, Idle)
    <3>1. req[r].caller \in Users \ {owner}
      BY <1>3, <2>2, ConstantsAssumption DEF Role
    <3> HIDE DEF new
    <3> QED
      BY <1>2, <1>17, <2>2, <3>1, IdleSafe, OwnerWrite DEF CommitAccept
  <2> QED
    BY <1>17, <2>1, <2>2 DEF CommitAccept
<1> QED
  BY <1>5, <1>6, <1>7, <1>8, <1>9, <1>10, <1>11, <1>12, <1>13, <1>14, <1>15, <1>16, <1>17 DEF Step

\* Everything else keeps it too.
LEMMA OwnerStep == TypeOK /\ OwnerInv /\ [Next]_vars => OwnerInv'
<1> SUFFICES ASSUME TypeOK, OwnerInv, [Next]_vars PROVE OwnerInv'
  OBVIOUS
<1>1. ASSUME NEW u \in Users, Create(u) PROVE OwnerInv'
  <2>1. owner' = u /\ u # None /\ members'[u].role = "ADMIN"
    BY <1>1, ConstantsAssumption DEF Create, TypeOK
  <2>2. \A p \in Processes : cache'[p][u].role = None
    BY <1>1 DEF Create, OwnerInv
  <2>3. \A r \in Requests : req'[r] = Idle
    BY <1>1 DEF Create, OwnerInv
  <2> QED
    BY <2>1, <2>2, <2>3 DEF OwnerInv, CachesOwner, OwnerSafe, Idle
<1>2. ASSUME NEW r \in Requests, Arrive(r) PROVE OwnerInv'
  <2>1. PICK op, p, c, u, i, role : Begin(r, op, p, c, u, i, role)
    BY <1>2 DEF Arrive
  <2> DEFINE q == [pc |-> IF op = "accept" THEN "handle" ELSE "get",
                   op |-> op, proc |-> p, caller |-> c, user |-> u, inv |-> i, role |-> role,
                   seen |-> None, current |-> TRUE, row |-> NoMember, status |-> "none",
                   sql |-> "none"]
  <2>2. req' = [req EXCEPT ![r] = q] /\ owner # None /\ UNCHANGED <<owner, members, cache>>
    BY <2>1 DEF Begin, UnchangedTables
  <2>3. q.pc \notin {"set", "select", "write"}
    OBVIOUS
  <2> HIDE DEF q
  <2>4. OwnerSafe(q)
    BY <2>3 DEF OwnerSafe
  <2>5. members'[owner].role = "ADMIN" /\ CachesOwner'
    BY <2>2 DEF OwnerInv, CachesOwner
  <2> QED
    BY <2>2, <2>4, <2>5, OwnerFrame
<1>3. ASSUME NEW p \in Processes, NEW u \in Users, Expire(p, u) PROVE OwnerInv'
  <2>1. \A s \in Processes, v \in Users : cache'[s][v].role \in {None, cache[s][v].role}
    BY <1>3 DEF Expire, TypeOK, NoEntry
  <2>2. UNCHANGED <<owner, members, req>>
    BY <1>3 DEF Expire, UnchangedTables
  <2> QED
    BY <2>1, <2>2 DEF OwnerInv, CachesOwner, OwnerSafe
<1>4. ASSUME NEW i \in Invitations, InvitationExpires(i) PROVE OwnerInv'
  BY <1>4 DEF InvitationExpires, OwnerInv, CachesOwner, OwnerSafe
<1>5. CASE UNCHANGED vars
  BY <1>5 DEF vars, OwnerInv, CachesOwner, OwnerSafe
<1> QED
  BY <1>1, <1>2, <1>3, <1>4, <1>5, StepOwner DEF Next

LEMMA InitOwner == Init => OwnerInv
<1> SUFFICES ASSUME Init PROVE OwnerInv
  OBVIOUS
<1>1. /\ \A r \in Requests : req[r] = Idle
      /\ \A p \in Processes, u \in Users : cache[p][u].role = None
  BY DEF Init, NoEntry
<1>2. owner # None => owner \in Users /\ members[owner].role = "ADMIN"
  <2>1. CASE NoWorkspace
    BY <2>1 DEF NoWorkspace
  <2>2. CASE Established
    BY <2>2 DEF Established
  <2>3. CASE Invited
    BY <2>3 DEF Invited
  <2> QED
    BY <2>1, <2>2, <2>3 DEF Init
<1> QED
  BY <1>1, <1>2 DEF OwnerInv, CachesOwner, OwnerSafe, Idle

\* However role changes, removals, invitations and cached reads overlap, in any
\* number of processes, the owner of a workspace is an ADMIN in the table and
\* in every cache (updateMemberRole, removeMember, accept, getMembership).
THEOREM OwnerIsAdminCorrect == Spec => []OwnerIsAdmin
<1>1. OwnerInv => OwnerIsAdmin
  BY DEF OwnerInv, OwnerIsAdmin, CachesOwner
<1> QED
  BY <1>1, InitOwner, OwnerStep, TypeCorrect, PTL DEF Spec
-----------------------------------------------------------------------------
(* What the caches hold.  A read in progress that is still current agrees with *)
(* the table, so that what it caches is stale only after a later write, whose  *)
(* request has the cache of its own process still to clear.                    *)

Clearing(p, u) ==
  \E r \in Requests : req[r].pc = "invalidate" /\ req[r].proc = p /\ req[r].user = u

ReadsAgree ==
  \A r \in Requests :
    req[r].pc = "set" /\ req[r].current => req[r].seen = members[req[r].caller].role

CacheInv == StaleOnlyByRace /\ ReadsAgree

\* A step of one request that writes no member row and caches nothing.
LEMMA CacheFrame ==
  ASSUME CacheInv, NEW r \in Requests, req[r].pc # "invalidate",
         \A s \in Requests : s # r => req'[s] = req[s],
         UNCHANGED members,
         \A p \in Processes, u \in Users : cache'[p][u] = cache[p][u],
         req'[r].pc = "set" /\ req'[r].current => req'[r].seen = members[req'[r].caller].role
  PROVE  CacheInv'
<1>1. \A p \in Processes, u \in Users : Clearing(p, u) => Clearing(p, u)'
  BY DEF Clearing
<1>2. StaleOnlyByRace'
  BY <1>1 DEF CacheInv, StaleOnlyByRace, Clearing
<1>3. ReadsAgree'
  BY DEF CacheInv, ReadsAgree
<1> QED
  BY <1>2, <1>3 DEF CacheInv

\* A write of the member row of u, by a request that clears the cache next or
\* that inserts a row where there was none.
LEMMA CacheWrite ==
  ASSUME TypeOK, CacheInv, NEW r \in Requests, req[r].pc \in {"write", "commit"},
         NEW u \in Users, NEW row, NEW q, WriteMember(r, u, row, q), q.pc # "set",
         \/ q.pc = "invalidate" /\ q.proc = req[r].proc /\ q.user = u
         \/ members[u].role = None
  PROVE  CacheInv'
<1>1. /\ members'[u] = row
      /\ \A v \in Users : v # u => members'[v] = members[v]
  BY DEF WriteMember, TypeOK
<1>2. req'[r] = q
  BY DEF WriteMember
<1>3. ASSUME NEW s \in Requests, s # r
      PROVE  /\ req[s].pc = "invalidate" =>
                  req'[s].pc = "invalidate" /\ req'[s].proc = req[s].proc /\ req'[s].user = req[s].user
             /\ req'[s].pc = "set" /\ req'[s].current =>
                  req'[s] = req[s] /\ req[s].caller # u
  <2>1. CASE req[s].pc = "set" /\ req[s].caller = u
    <3>1. req'[s] = [req[s] EXCEPT !.current = FALSE]
      BY <1>3, <2>1 DEF WriteMember
    <3>2. req[s] \in ActiveState
      BY <2>1, PcIsActive
    <3>3. req'[s].current = FALSE
      BY <3>1, <3>2 DEF ActiveState
    <3> QED
      BY <2>1, <3>3
  <2>2. CASE ~(req[s].pc = "set" /\ req[s].caller = u)
    <3>1. req'[s] = req[s]
      BY <1>3, <2>2 DEF WriteMember
    <3> QED
      BY <2>2, <3>1
  <2> QED
    BY <2>1, <2>2
<1>4. \A p \in Processes, v \in Users : Clearing(p, v) => Clearing(p, v)'
  BY <1>3 DEF Clearing
<1>5. ReadsAgree'
  <2> SUFFICES ASSUME NEW s \in Requests, req'[s].pc = "set", req'[s].current
               PROVE  req'[s].seen = members'[req'[s].caller].role
    BY DEF ReadsAgree
  <2>1. s # r /\ req'[s] = req[s] /\ req[s].caller # u
    BY <1>2, <1>3
  <2>2. req[s].caller \in Users
    BY <2>1, PcIsActive, ActiveFields
  <2> QED
    BY <1>1, <2>1, <2>2 DEF CacheInv, ReadsAgree
<1>6. ASSUME NEW p \in Processes, NEW v \in Users,
             cache'[p][v].role \notin {None, members'[v].role}, cache'[p][v].current
      PROVE  Clearing(p, v)'
  <2>1. CASE v # u
    <3>1. cache'[p][v] = cache[p][v]
      BY <2>1 DEF WriteMember, TypeOK
    <3> QED
      BY <1>1, <1>4, <1>6, <2>1, <3>1 DEF CacheInv, StaleOnlyByRace, Clearing
  <2>2. CASE v = u
    <3>1. cache'[p][u] = cache[p][u] /\ (p = req[r].proc \/ cache[p][u].role = None)
      BY <1>6, <2>2 DEF WriteMember, TypeOK, Entry
    <3>2. p = req[r].proc
      BY <1>6, <2>2, <3>1
    <3>3. CASE q.pc = "invalidate" /\ q.proc = req[r].proc /\ q.user = u
      BY <1>2, <2>2, <3>2, <3>3 DEF Clearing
    <3>4. CASE members[u].role = None
      <4>1. Clearing(p, u)
        BY <1>6, <2>2, <3>1, <3>4 DEF CacheInv, StaleOnlyByRace, Clearing
      <4> QED
        BY <1>4, <2>2, <4>1
    <3> QED
      BY <3>3, <3>4
  <2> QED
    BY <2>1, <2>2
<1>7. StaleOnlyByRace'
  BY <1>6 DEF StaleOnlyByRace, Clearing
<1> QED
  BY <1>5, <1>7 DEF CacheInv

\* The steps that leave the member rows and the caches alone, and read no row to
\* be cached.
LEMMA QuietMove ==
  ASSUME TypeOK, NEW r \in Requests, req[r] \in ActiveState,
         \/ CacheGet(r) \/ LoadMember(r) \/ SelectMember(r)
         \/ CheckInvite(r) \/ InsertInvitation(r)
         \/ LoadInvitation(r) \/ SelectInvitation(r) \/ WriteInvitation(r)
         \/ FindMemberToAccept(r)
  PROVE  /\ UNCHANGED <<members, cache>> /\ req[r].pc # "invalidate"
         /\ \A s \in Requests : s # r => req'[s] = req[s]
         /\ req'[r].pc # "set"
<1>1. UNCHANGED <<members, cache>> /\ req[r].pc # "invalidate"
  BY DEF CacheGet, LoadMember, SelectMember, CheckInvite, InsertInvitation, LoadInvitation,
         SelectInvitation, WriteInvitation, FindMemberToAccept, UnchangedTables
<1>2. ASSUME NEW q, q.pc # "set", req' = [req EXCEPT ![r] = q]
      PROVE  /\ \A s \in Requests : s # r => req'[s] = req[s]
             /\ req'[r].pc # "set"
  BY <1>2 DEF TypeOK
<1>3. ASSUME End(r) \/ \E pc \in {"find", "handle", "write"} : Goto(r, pc)
      PROVE  \E q : q.pc # "set" /\ req' = [req EXCEPT ![r] = q]
  <2>1. CASE End(r)
    BY <2>1 DEF End, Idle
  <2>2. ASSUME NEW pc \in {"find", "handle", "write"}, Goto(r, pc)
        PROVE  \E q : q.pc # "set" /\ req' = [req EXCEPT ![r] = q]
    <3>1. req' = [req EXCEPT ![r] = [req[r] EXCEPT !.pc = pc]]
      BY <2>2 DEF Goto, TypeOK
    <3>2. [req[r] EXCEPT !.pc = pc].pc # "set"
      BY ActiveType
    <3> QED
      BY <3>1, <3>2
  <2> QED
    BY <1>3, <2>1, <2>2
<1>4. CASE CacheGet(r) \/ CheckInvite(r) \/ InsertInvitation(r) \/ WriteInvitation(r)
  <2>1. End(r) \/ \E pc \in {"find", "handle", "write"} : Goto(r, pc)
    BY <1>4 DEF CacheGet, Guarded, CheckInvite, InsertInvitation, WriteInvitation
  <2> QED
    BY <1>1, <1>2, <1>3, <2>1
<1>5. CASE LoadMember(r)
  <2> DEFINE q == [req[r] EXCEPT !.pc = IF req[r].op = "remove" THEN "write" ELSE "select",
                                 !.row = members[req[r].user]]
  <2>1. q.pc # "set"
    BY DEF ActiveState
  <2>2. End(r) \/ req' = [req EXCEPT ![r] = q]
    BY <1>5 DEF LoadMember, TypeOK
  <2> HIDE DEF q
  <2> QED
    BY <1>1, <1>2, <1>3, <2>1, <2>2
<1>6. CASE SelectMember(r) \/ SelectInvitation(r)
  <2>1. PICK sql : req' = [req EXCEPT ![r] = [req[r] EXCEPT !.pc = "write", !.sql = sql]]
    BY <1>6 DEF SelectMember, SelectInvitation, TypeOK
  <2> DEFINE q == [req[r] EXCEPT !.pc = "write", !.sql = sql]
  <2>2. q.pc # "set"
    BY DEF ActiveState
  <2> HIDE DEF q
  <2> QED
    BY <1>1, <1>2, <2>1, <2>2 DEF q
<1>7. CASE FindMemberToAccept(r)
  <2> DEFINE q == [req[r] EXCEPT !.pc = "commit", !.row = members[req[r].caller]]
  <2>1. q.pc # "set"
    BY DEF ActiveState
  <2>2. req' = [req EXCEPT ![r] = q]
    BY <1>7 DEF FindMemberToAccept, TypeOK
  <2> HIDE DEF q
  <2> QED
    BY <1>1, <1>2, <2>1, <2>2
<1>8. CASE LoadInvitation(r)
  <2>1. CASE End(r)
    BY <1>1, <1>2, <1>3, <2>1
  <2>2. ASSUME NEW st,
               req' = [req EXCEPT ![r] = [req[r] EXCEPT !.pc = "select", !.status = st]]
        PROVE  \E q : q.pc # "set" /\ req' = [req EXCEPT ![r] = q]
    <3> DEFINE q == [req[r] EXCEPT !.pc = "select", !.status = st]
    <3>1. q.pc # "set"
      BY DEF ActiveState
    <3>2. req' = [req EXCEPT ![r] = q]
      BY <2>2
    <3> HIDE DEF q
    <3> QED
      BY <3>1, <3>2
  <2>3. CASE req' = [req EXCEPT ![r] = [req[r] EXCEPT !.pc = "select", !.status = "ACCEPTED",
                                                      !.role = invs[req[r].inv].role]]
    <3> DEFINE q == [req[r] EXCEPT !.pc = "select", !.status = "ACCEPTED",
                                   !.role = invs[req[r].inv].role]
    <3>1. q.pc # "set"
      BY DEF ActiveState
    <3>2. req' = [req EXCEPT ![r] = q]
      BY <2>3
    <3> HIDE DEF q
    <3> QED
      BY <1>1, <1>2, <3>1, <3>2
  <2>4. End(r) \/ (\E st : req' = [req EXCEPT ![r] = [req[r] EXCEPT !.pc = "select", !.status = st]])
        \/ req' = [req EXCEPT ![r] = [req[r] EXCEPT !.pc = "select", !.status = "ACCEPTED",
                                                    !.role = invs[req[r].inv].role]]
    BY <1>8 DEF LoadInvitation, TypeOK
  <2> QED
    BY <1>1, <1>2, <2>1, <2>2, <2>3, <2>4
<1> QED
  BY <1>4, <1>5, <1>6, <1>7, <1>8

LEMMA CacheStep ==
  ASSUME TypeOK, CacheInv, NEW r \in Requests, Step(r)
  PROVE  CacheInv'
<1>1. req[r].pc # "idle"
  BY DEF Step, CacheGet, FindMembership, CacheSet, LoadMember, SelectMember, WriteRole,
         DeleteMember, Invalidate, CheckInvite, InsertInvitation, LoadInvitation,
         SelectInvitation, WriteInvitation, FindMemberToAccept, CommitAccept
<1>2. req[r] \in ActiveState
  BY <1>1, PcIsActive
<1>3. /\ req[r].proc \in Processes /\ req[r].caller \in Users /\ req[r].user \in Users
      /\ req[r].row \in MemberRow
  BY <1>2, ActiveFields
<1>4. ASSUME End(r) \/ Goto(r, "invalidate") \/ Goto(r, "handle")
      PROVE  /\ \A s \in Requests : s # r => req'[s] = req[s]
             /\ req'[r].pc # "set"
  <2>1. Idle.pc # "set" /\ \A pc \in {"invalidate", "handle"} : [req[r] EXCEPT !.pc = pc].pc # "set"
    BY <1>2, ActiveType DEF Idle
  <2> QED
    BY <1>4, <2>1 DEF End, Goto, TypeOK
<1>5. ASSUME End(r) \/ Goto(r, "invalidate") \/ Goto(r, "handle"), UNCHANGED <<members, cache>>,
             req[r].pc # "invalidate"
      PROVE  CacheInv'
  BY <1>4, <1>5, CacheFrame
<1>6. CASE \/ CacheGet(r) \/ LoadMember(r) \/ SelectMember(r)
           \/ CheckInvite(r) \/ InsertInvitation(r)
           \/ LoadInvitation(r) \/ SelectInvitation(r) \/ WriteInvitation(r)
           \/ FindMemberToAccept(r)
  BY <1>2, <1>6, QuietMove, CacheFrame
<1>7. CASE FindMembership(r)
  <2> DEFINE q == [req[r] EXCEPT !.pc = "set", !.seen = members[req[r].caller].role]
  <2>1. req[r].pc = "find" /\ UNCHANGED <<members, cache>>
    BY <1>7 DEF FindMembership, UnchangedTables
  <2>2. End(r) \/ req' = [req EXCEPT ![r] = q]
    BY <1>7 DEF FindMembership, TypeOK
  <2>3. q.caller = req[r].caller /\ q.seen = members[req[r].caller].role
    BY <1>2 DEF ActiveState
  <2> HIDE DEF q
  <2>4. CASE req' = [req EXCEPT ![r] = q]
    <3>1. req'[r] = q /\ \A s \in Requests : s # r => req'[s] = req[s]
      BY <2>4 DEF TypeOK
    <3> QED
      BY <2>1, <2>3, <3>1, CacheFrame
  <2> QED
    BY <1>5, <2>1, <2>2, <2>4
<1>8. CASE CacheSet(r)
  <2> DEFINE q == req[r]
  <2>1. /\ q.pc = "set" /\ UNCHANGED members
        /\ cache' = [cache EXCEPT ![q.proc][q.caller] = [role |-> q.seen, current |-> q.current]]
        /\ End(r) \/ Goto(r, "handle")
    BY <1>8 DEF CacheSet, Guarded, UnchangedTables
  <2>2. /\ \A s \in Requests : s # r => req'[s] = req[s]
        /\ req'[r].pc # "set"
    BY <1>4, <2>1
  <2>3. ReadsAgree'
    BY <2>1, <2>2 DEF CacheInv, ReadsAgree
  <2>4. \A p \in Processes, v \in Users : Clearing(p, v) => Clearing(p, v)'
    BY <2>1, <2>2 DEF Clearing
  <2>5. /\ cache'[q.proc][q.caller] = [role |-> q.seen, current |-> q.current]
        /\ \A p \in Processes, v \in Users :
             ~(p = q.proc /\ v = q.caller) => cache'[p][v] = cache[p][v]
    BY <1>3, <2>1 DEF TypeOK
  <2>6. ASSUME NEW p \in Processes, NEW v \in Users,
               cache'[p][v].role \notin {None, members'[v].role}, cache'[p][v].current
        PROVE  Clearing(p, v)'
    <3>1. ~(p = q.proc /\ v = q.caller)
      BY <2>1, <2>5, <2>6 DEF CacheInv, ReadsAgree
    <3> QED
      BY <2>1, <2>4, <2>5, <2>6, <3>1 DEF CacheInv, StaleOnlyByRace, Clearing
  <2> QED
    BY <2>3, <2>6 DEF CacheInv, StaleOnlyByRace, Clearing
<1>9. CASE WriteRole(r)
  <2> DEFINE new == [role |-> req[r].role, id |-> req[r].row.id]
             q == [req[r] EXCEPT !.pc = "invalidate"]
  <2>1. q.pc = "invalidate" /\ q.proc = req[r].proc /\ q.user = req[r].user
    BY <1>2 DEF ActiveState
  <2>2. \/ (End(r) \/ Goto(r, "invalidate")) /\ UNCHANGED <<members, cache>>
        \/ WriteMember(r, req[r].user, new, q)
    BY <1>9 DEF WriteRole
  <2>3. req[r].pc = "write"
    BY <1>9 DEF WriteRole
  <2> HIDE DEF q, new
  <2> QED
    BY <1>3, <1>5, <2>1, <2>2, <2>3, CacheWrite
<1>10. CASE DeleteMember(r)
  <2> DEFINE q == [req[r] EXCEPT !.pc = "invalidate"]
  <2>1. q.pc = "invalidate" /\ q.proc = req[r].proc /\ q.user = req[r].user
    BY <1>2 DEF ActiveState
  <2>2. \/ Goto(r, "invalidate") /\ UNCHANGED <<members, cache>>
        \/ WriteMember(r, req[r].user, NoMember, q)
    BY <1>10 DEF DeleteMember
  <2>3. req[r].pc = "write"
    BY <1>10 DEF DeleteMember
  <2> HIDE DEF q
  <2> QED
    BY <1>3, <1>5, <2>1, <2>2, <2>3, CacheWrite
<1>11. CASE Invalidate(r)
  <2> DEFINE q == req[r]
  <2>1. /\ q.pc = "invalidate" /\ UNCHANGED members /\ End(r)
        /\ cache' = [cache EXCEPT ![q.proc][q.user] = NoEntry]
    BY <1>11 DEF Invalidate, UnchangedTables
  <2>2. /\ \A s \in Requests : s # r => req'[s] = req[s]
        /\ req'[r].pc # "set"
    BY <1>4, <2>1
  <2>3. ReadsAgree'
    BY <2>1, <2>2 DEF CacheInv, ReadsAgree
  <2>4. /\ cache'[q.proc][q.user].role = None
        /\ \A p \in Processes, v \in Users :
             ~(p = q.proc /\ v = q.user) => cache'[p][v] = cache[p][v]
    BY <1>3, <2>1 DEF TypeOK, NoEntry
  <2>5. ASSUME NEW p \in Processes, NEW v \in Users,
               cache'[p][v].role \notin {None, members'[v].role}, cache'[p][v].current
        PROVE  Clearing(p, v)'
    <3>1. ~(p = q.proc /\ v = q.user) /\ cache'[p][v] = cache[p][v]
      BY <2>4, <2>5
    <3>2. Clearing(p, v)
      BY <2>1, <2>5, <3>1 DEF CacheInv, StaleOnlyByRace, Clearing
    <3> QED
      BY <2>2, <3>1, <3>2 DEF Clearing
  <2> QED
    BY <2>3, <2>5 DEF CacheInv, StaleOnlyByRace, Clearing
<1>12. CASE CommitAccept(r)
  <2> DEFINE new == [role |-> req[r].role, id |-> inserts + 1]
  <2>1. req[r].pc = "commit" /\ Idle.pc # "set"
    BY <1>12 DEF CommitAccept, Idle
  <2>2. \/ End(r) /\ UNCHANGED <<members, cache>>
        \/ members[req[r].caller].role = None /\ WriteMember(r, req[r].caller, new, Idle)
    BY <1>12 DEF CommitAccept
  <2> HIDE DEF new
  <2> QED
    BY <1>3, <1>5, <2>1, <2>2, CacheWrite
<1> QED
  BY <1>6, <1>7, <1>8, <1>9, <1>10, <1>11, <1>12 DEF Step

LEMMA CacheInvStep == TypeOK /\ OwnerInv /\ CacheInv /\ [Next]_vars => CacheInv'
<1> SUFFICES ASSUME TypeOK, OwnerInv, CacheInv, [Next]_vars PROVE CacheInv'
  OBVIOUS
<1>1. ASSUME NEW u \in Users, Create(u) PROVE CacheInv'
  <2>1. \A p \in Processes, v \in Users : cache'[p][v].role = None
    BY <1>1 DEF Create, OwnerInv
  <2>2. \A r \in Requests : req'[r].pc # "set"
    BY <1>1 DEF Create, OwnerInv, Idle
  <2> QED
    BY <2>1, <2>2 DEF CacheInv, StaleOnlyByRace, ReadsAgree
<1>2. ASSUME NEW r \in Requests, Arrive(r) PROVE CacheInv'
  <2>1. PICK op, p, c, u, i, role : Begin(r, op, p, c, u, i, role)
    BY <1>2 DEF Arrive
  <2> DEFINE q == [pc |-> IF op = "accept" THEN "handle" ELSE "get",
                   op |-> op, proc |-> p, caller |-> c, user |-> u, inv |-> i, role |-> role,
                   seen |-> None, current |-> TRUE, row |-> NoMember, status |-> "none",
                   sql |-> "none"]
  <2>2. req' = [req EXCEPT ![r] = q] /\ UNCHANGED <<members, cache>> /\ req[r].pc = "idle"
    BY <2>1 DEF Begin, UnchangedTables
  <2>3. q.pc # "set"
    OBVIOUS
  <2> HIDE DEF q
  <2>4. req'[r].pc # "set" /\ \A s \in Requests : s # r => req'[s] = req[s]
    BY <2>2, <2>3 DEF TypeOK
  <2> QED
    BY <2>2, <2>4, CacheFrame
<1>3. ASSUME NEW p \in Processes, NEW u \in Users, Expire(p, u) PROVE CacheInv'
  <2>1. \A s \in Processes, v \in Users : cache'[s][v] \in {cache[s][v], NoEntry}
    BY <1>3 DEF Expire, TypeOK
  <2>2. UNCHANGED <<members, req>> /\ NoEntry.role = None
    BY <1>3 DEF Expire, UnchangedTables, NoEntry
  <2>3. ReadsAgree'
    BY <2>2 DEF CacheInv, ReadsAgree
  <2>4. StaleOnlyByRace'
    BY <2>1, <2>2 DEF CacheInv, StaleOnlyByRace
  <2> QED
    BY <2>3, <2>4 DEF CacheInv
<1>4. CASE UNCHANGED <<members, cache, req>>
  BY <1>4 DEF CacheInv, StaleOnlyByRace, ReadsAgree
<1>5. (\E i \in Invitations : InvitationExpires(i)) \/ UNCHANGED vars
        => UNCHANGED <<members, cache, req>>
  BY DEF InvitationExpires, vars
<1> QED
  BY <1>1, <1>2, <1>3, <1>4, <1>5, CacheStep DEF Next

\* A cached role that differs from the table is one a request of the same process
\* is about to clear, one another process has made stale, or one whose read
\* overlapped the write, in any number of processes and requests
\* (getMembership, updateMemberRole, removeMember, accept).
THEOREM StaleOnlyByRaceCorrect == Spec => []StaleOnlyByRace
<1>1. Init => CacheInv
  BY DEF Init, CacheInv, StaleOnlyByRace, ReadsAgree, NoEntry, Idle
<1>2. CacheInv => StaleOnlyByRace
  BY DEF CacheInv
<1> QED
  BY <1>1, <1>2, InitOwner, OwnerStep, CacheInvStep, TypeCorrect, PTL DEF Spec

-----------------------------------------------------------------------------
(* Settled invitations.                                                      *)

\* Request q has found invitation i pending and is still to save it.
Holds(q, i) ==
  q.pc \in {"select", "write", "commit"} /\ q.op \in {"revoke", "accept"} /\ q.inv = i

CommitsAccept == \A r \in Requests : req[r].pc = "commit" => req[r].op = "accept"

\* A step of a request leaves what the others hold alone.
LEMMA OthersHold ==
  ASSUME TypeOK, NEW r \in Requests, Step(r), NEW s \in Requests, s # r
  PROVE  req'[s].pc = req[s].pc /\ req'[s].op = req[s].op /\ req'[s].inv = req[s].inv
<1>1. ASSUME NEW q, req' = [req EXCEPT ![r] = q]
      PROVE  req'[s] = req[s]
  BY <1>1 DEF TypeOK
<1>2. ASSUME NEW u, NEW row, NEW q, WriteMember(r, u, row, q)
      PROVE  req'[s].pc = req[s].pc /\ req'[s].op = req[s].op /\ req'[s].inv = req[s].inv
  <2>1. CASE req'[s] = req[s]
    BY <2>1
  <2>2. CASE req[s].pc = "set" /\ req'[s] = [req[s] EXCEPT !.current = FALSE]
    <3>1. req[s] \in ActiveState
      BY <2>2, PcIsActive
    <3> QED
      BY <2>2, <3>1 DEF ActiveState
  <2> QED
    BY <1>2, <2>1, <2>2 DEF WriteMember
<1>3. CASE \/ CacheGet(r) \/ FindMembership(r) \/ CacheSet(r) \/ LoadMember(r) \/ SelectMember(r)
           \/ Invalidate(r) \/ CheckInvite(r) \/ InsertInvitation(r)
  <2>1. \E q : req' = [req EXCEPT ![r] = q]
    BY <1>3 DEF CacheGet, FindMembership, CacheSet, LoadMember, SelectMember, Invalidate,
                CheckInvite, InsertInvitation, Guarded, End, Goto
  <2> QED
    BY <1>1, <2>1
<1>4. CASE LoadInvitation(r) \/ SelectInvitation(r) \/ WriteInvitation(r) \/ FindMemberToAccept(r)
  <2>1. \E q : req' = [req EXCEPT ![r] = q]
    BY <1>4 DEF LoadInvitation, SelectInvitation, WriteInvitation, FindMemberToAccept, End
  <2> QED
    BY <1>1, <2>1
<1>5. CASE WriteRole(r) \/ DeleteMember(r) \/ CommitAccept(r)
  <2>1. (\E q : req' = [req EXCEPT ![r] = q]) \/ \E u, row, q : WriteMember(r, u, row, q)
    BY <1>5 DEF WriteRole, DeleteMember, CommitAccept, End, Goto
  <2> QED
    BY <1>1, <1>2, <2>1
<1> QED
  BY <1>3, <1>4, <1>5 DEF Step

\* A request only comes to hold an invitation that is pending.
LEMMA HoldsOnlyPending ==
  ASSUME TypeOK, NEW r \in Requests, Step(r), NEW i
  PROVE  /\ invs[i].status # "PENDING" /\ ~Holds(req[r], i) => ~Holds(req'[r], i)
         /\ req'[r].pc = "commit" => req'[r].op = "accept"
<1> DEFINE Good(q) == /\ invs[i].status # "PENDING" /\ ~Holds(req[r], i) => ~Holds(q, i)
                      /\ q.pc = "commit" => q.op = "accept"
<1>1. req[r].pc # "idle"
  BY DEF Step, CacheGet, FindMembership, CacheSet, LoadMember, SelectMember, WriteRole,
         DeleteMember, Invalidate, CheckInvite, InsertInvitation, LoadInvitation,
         SelectInvitation, WriteInvitation, FindMemberToAccept, CommitAccept
<1>2. req[r] \in ActiveState
  BY <1>1, PcIsActive
<1>3. ASSUME NEW q, req' = [req EXCEPT ![r] = q]
      PROVE  req'[r] = q
  BY <1>3 DEF TypeOK
<1>4. ASSUME End(r) \/ Goto(r, "find") \/ Goto(r, "handle") \/ Goto(r, "invalidate")
      PROVE  req'[r].pc \in {"idle", "find", "handle", "invalidate"}
  <2>1. Idle.pc = "idle" /\ \A pc \in {"find", "handle", "invalidate"} : [req[r] EXCEPT !.pc = pc].pc = pc
    BY <1>2, ActiveType DEF Idle
  <2> QED
    BY <1>4, <2>1 DEF End, Goto, TypeOK
<1>5. ASSUME req'[r].pc \in {"idle", "find", "handle", "invalidate", "set"}
      PROVE  Good(req'[r])
  BY <1>5 DEF Holds
<1>6. CASE CacheGet(r) \/ CacheSet(r) \/ Invalidate(r) \/ InsertInvitation(r) \/ WriteInvitation(r)
  BY <1>4, <1>5, <1>6 DEF CacheGet, CacheSet, Guarded, Invalidate, InsertInvitation, WriteInvitation
<1>7. CASE FindMembership(r)
  <2> DEFINE q == [req[r] EXCEPT !.pc = "set", !.seen = members[req[r].caller].role]
  <2>1. q.pc = "set"
    BY <1>2 DEF ActiveState
  <2>2. End(r) \/ req' = [req EXCEPT ![r] = q]
    BY <1>7 DEF FindMembership, TypeOK
  <2> HIDE DEF q
  <2> QED
    BY <1>3, <1>4, <1>5, <2>1, <2>2
<1>8. CASE CheckInvite(r)
  <2>1. [req[r] EXCEPT !.pc = "write"].op = "invite" /\ [req[r] EXCEPT !.pc = "write"].pc = "write"
    BY <1>2, <1>8 DEF ActiveState, CheckInvite
  <2>2. End(r) \/ req' = [req EXCEPT ![r] = [req[r] EXCEPT !.pc = "write"]]
    BY <1>8 DEF CheckInvite, Goto, TypeOK
  <2>3. Good([req[r] EXCEPT !.pc = "write"])
    BY <2>1 DEF Holds
  <2> QED
    BY <1>3, <1>4, <1>5, <2>2, <2>3
<1>9. CASE LoadMember(r)
  <2> DEFINE q == [req[r] EXCEPT !.pc = IF req[r].op = "remove" THEN "write" ELSE "select",
                                 !.row = members[req[r].user]]
  <2>1. q.op \in {"updateRole", "remove"} /\ q.pc # "commit"
    BY <1>2, <1>9 DEF ActiveState, LoadMember
  <2>2. End(r) \/ req' = [req EXCEPT ![r] = q]
    BY <1>9 DEF LoadMember, TypeOK
  <2> HIDE DEF q
  <2>3. Good(q)
    BY <2>1 DEF Holds
  <2> QED
    BY <1>3, <1>4, <1>5, <2>2, <2>3
<1>10. CASE SelectMember(r) \/ SelectInvitation(r)
  <2>1. PICK sql : req' = [req EXCEPT ![r] = [req[r] EXCEPT !.pc = "write", !.sql = sql]]
    BY <1>10 DEF SelectMember, SelectInvitation, TypeOK
  <2> DEFINE q == [req[r] EXCEPT !.pc = "write", !.sql = sql]
  <2>2. q.pc = "write" /\ q.op = req[r].op /\ q.inv = req[r].inv
    BY <1>2 DEF ActiveState
  <2>3. req' = [req EXCEPT ![r] = q] /\ req[r].pc = "select"
    BY <1>10, <2>1 DEF SelectMember, SelectInvitation
  <2> HIDE DEF q
  <2>4. Good(q)
    BY <2>2, <2>3 DEF Holds
  <2> QED
    BY <1>3, <2>3, <2>4
<1>11. CASE FindMemberToAccept(r)
  <2> DEFINE q == [req[r] EXCEPT !.pc = "commit", !.row = members[req[r].caller]]
  <2>1. q.pc = "commit" /\ q.op = req[r].op /\ q.inv = req[r].inv
    BY <1>2 DEF ActiveState
  <2>2. req' = [req EXCEPT ![r] = q] /\ req[r].pc = "select" /\ req[r].op = "accept"
    BY <1>11 DEF FindMemberToAccept, TypeOK
  <2> HIDE DEF q
  <2>3. Good(q)
    BY <2>1, <2>2 DEF Holds
  <2> QED
    BY <1>3, <2>2, <2>3
<1>12. CASE LoadInvitation(r)
  <2>1. ASSUME NEW q, req' = [req EXCEPT ![r] = q], q.pc = "select", q.inv = req[r].inv,
               invs[req[r].inv].status = "PENDING"
        PROVE  Good(req'[r])
    BY <1>3, <2>1 DEF Holds
  <2>2. ASSUME NEW st, req' = [req EXCEPT ![r] = [req[r] EXCEPT !.pc = "select", !.status = st]],
               invs[req[r].inv].status = "PENDING"
        PROVE  Good(req'[r])
    <3> DEFINE q == [req[r] EXCEPT !.pc = "select", !.status = st]
    <3>1. q.pc = "select" /\ q.inv = req[r].inv
      BY <1>2 DEF ActiveState
    <3>2. req' = [req EXCEPT ![r] = q]
      BY <2>2
    <3> HIDE DEF q, Good
    <3> QED
      BY <2>1, <2>2, <3>1, <3>2
  <2>3. ASSUME req' = [req EXCEPT ![r] = [req[r] EXCEPT !.pc = "select", !.status = "ACCEPTED",
                                                        !.role = invs[req[r].inv].role]],
               invs[req[r].inv].status = "PENDING"
        PROVE  Good(req'[r])
    <3> DEFINE q == [req[r] EXCEPT !.pc = "select", !.status = "ACCEPTED",
                                   !.role = invs[req[r].inv].role]
    <3>1. q.pc = "select" /\ q.inv = req[r].inv
      BY <1>2 DEF ActiveState
    <3>2. req' = [req EXCEPT ![r] = q]
      BY <2>3
    <3> HIDE DEF q, Good
    <3> QED
      BY <2>1, <2>3, <3>1, <3>2
  <2>4. \/ End(r)
        \/ /\ invs[req[r].inv].status = "PENDING"
           /\ \/ \E st : req' = [req EXCEPT ![r] = [req[r] EXCEPT !.pc = "select", !.status = st]]
              \/ req' = [req EXCEPT ![r] = [req[r] EXCEPT !.pc = "select", !.status = "ACCEPTED",
                                                          !.role = invs[req[r].inv].role]]
    BY <1>12 DEF LoadInvitation, TypeOK
  <2> HIDE DEF Good
  <2>5. Good(req'[r])
    BY <1>4, <1>5, <2>2, <2>3, <2>4
  <2> QED
    BY <2>5 DEF Good
<1>13. CASE WriteRole(r) \/ DeleteMember(r)
  <2>1. [req[r] EXCEPT !.pc = "invalidate"].pc = "invalidate"
    BY <1>2, ActiveType
  <2>2. End(r) \/ Goto(r, "invalidate") \/ req'[r] = [req[r] EXCEPT !.pc = "invalidate"]
    BY <1>13 DEF WriteRole, DeleteMember, WriteMember
  <2> QED
    BY <1>4, <1>5, <2>1, <2>2
<1>14. CASE CommitAccept(r)
  <2>1. End(r) \/ req'[r] = Idle
    BY <1>14 DEF CommitAccept, WriteMember
  <2> QED
    BY <1>4, <1>5, <2>1 DEF Idle
<1> QED
  BY <1>6, <1>7, <1>8, <1>9, <1>10, <1>11, <1>12, <1>13, <1>14 DEF Step

\* A new request has loaded nothing.
LEMMA ArrivalHoldsNothing ==
  ASSUME TypeOK, NEW r \in Requests, Arrive(r)
  PROVE  /\ UNCHANGED invs
         /\ req'[r].pc \in {"get", "handle"}
         /\ \A s \in Requests : s # r => req'[s] = req[s]
<1>1. PICK op, p, c, u, i, role : Begin(r, op, p, c, u, i, role)
  BY DEF Arrive
<1> DEFINE q == [pc |-> IF op = "accept" THEN "handle" ELSE "get",
                 op |-> op, proc |-> p, caller |-> c, user |-> u, inv |-> i, role |-> role,
                 seen |-> None, current |-> TRUE, row |-> NoMember, status |-> "none",
                 sql |-> "none"]
<1>2. req' = [req EXCEPT ![r] = q] /\ UNCHANGED invs
  BY <1>1 DEF Begin, UnchangedTables
<1>3. q.pc \in {"get", "handle"}
  OBVIOUS
<1> HIDE DEF q
<1> QED
  BY <1>2, <1>3 DEF TypeOK

LEMMA CommitsAcceptStep == TypeOK /\ CommitsAccept /\ [Next]_vars => CommitsAccept'
<1> SUFFICES ASSUME TypeOK, CommitsAccept, [Next]_vars, NEW s \in Requests,
                    req'[s].pc = "commit"
             PROVE  req'[s].op = "accept"
  BY DEF CommitsAccept
<1>1. ASSUME NEW r \in Requests, Step(r) PROVE req'[s].op = "accept"
  <2>1. CASE s = r
    BY <1>1, <2>1, HoldsOnlyPending
  <2>2. CASE s # r
    BY <1>1, <2>2, OthersHold DEF CommitsAccept
  <2> QED
    BY <2>1, <2>2
<1>2. ASSUME NEW r \in Requests, Arrive(r) PROVE req'[s].op = "accept"
  BY <1>2, ArrivalHoldsNothing DEF CommitsAccept
<1>3. CASE UNCHANGED req
  BY <1>3 DEF CommitsAccept
<1> QED
  BY <1>1, <1>2, <1>3 DEF Next, Create, Expire, InvitationExpires, vars

\* What a step does to the table of invitations.
LEMMA SettledKeepsStatus ==
  ASSUME TypeOK, CommitsAccept, [Next]_vars, NEW i \in Invitations, Settled(i)
  PROVE  invs'[i] = invs[i]
<1>1. \A r \in Requests : ~Holds(req[r], i)
  BY DEF Settled, Holds
<1>2. invs[i].status \notin {"none", "PENDING"}
  BY DEF Settled
<1>3. ASSUME NEW r \in Requests, Step(r) PROVE invs'[i] = invs[i]
  <2>1. CASE UNCHANGED invs
    BY <2>1
  <2>2. CASE InsertInvitation(r)
    BY <1>2, <2>2 DEF InsertInvitation, TypeOK
  <2>3. CASE WriteInvitation(r)
    <3>1. req[r].inv # i
      BY <1>1, <2>3 DEF Holds, WriteInvitation
    <3> QED
      BY <2>3, <3>1 DEF WriteInvitation, TypeOK
  <2>4. CASE CommitAccept(r)
    <3>1. req[r].inv # i
      BY <1>1, <2>4 DEF Holds, CommitAccept, CommitsAccept
    <3>2. invs' \in {invs, [invs EXCEPT ![req[r].inv].status = "ACCEPTED"]}
      BY <2>4 DEF CommitAccept
    <3> QED
      BY <3>1, <3>2 DEF TypeOK
  <2> QED
    BY <1>3, <2>1, <2>2, <2>3, <2>4
    DEF Step, CacheGet, FindMembership, CacheSet, LoadMember, SelectMember, WriteRole,
        DeleteMember, Invalidate, CheckInvite, LoadInvitation, SelectInvitation,
        FindMemberToAccept, UnchangedTables
<1>4. ASSUME NEW j \in Invitations, InvitationExpires(j) PROVE invs'[i] = invs[i]
  BY <1>2, <1>4 DEF InvitationExpires, TypeOK
<1> QED
  BY <1>3, <1>4, ArrivalHoldsNothing DEF Next, Create, Expire, UnchangedTables, vars

LEMMA SettledStep ==
  ASSUME TypeOK, CommitsAccept, [Next]_vars, NEW i \in Invitations, Settled(i)
  PROVE  Settled(i)' /\ invs'[i] = invs[i]
<1>1. invs'[i] = invs[i]
  BY SettledKeepsStatus
<1>2. \A r \in Requests : ~Holds(req[r], i)
  BY DEF Settled, Holds
<1>3. invs[i].status \notin {"none", "PENDING"}
  BY DEF Settled
<1>4. ASSUME NEW s \in Requests PROVE ~Holds(req'[s], i)
  <2>1. ASSUME NEW r \in Requests, Step(r) PROVE ~Holds(req'[s], i)
    <3>1. CASE s = r
      BY <1>2, <1>3, <2>1, <3>1, HoldsOnlyPending
    <3>2. CASE s # r
      BY <1>2, <2>1, <3>2, OthersHold DEF Holds
    <3> QED
      BY <3>1, <3>2
  <2>2. ASSUME NEW r \in Requests, Arrive(r) PROVE ~Holds(req'[s], i)
    BY <1>2, <2>2, ArrivalHoldsNothing DEF Holds
  <2>3. CASE UNCHANGED req
    BY <1>2, <2>3 DEF Holds
  <2> QED
    BY <2>1, <2>2, <2>3 DEF Next, Create, Expire, InvitationExpires, vars
<1> QED
  BY <1>1, <1>3, <1>4 DEF Settled, Holds

\* An invitation that is accepted, revoked or expired, and that no request that
\* found it pending is still to save, keeps its status and its row for good
\* (accept and revoke).
THEOREM SettledIsFinalCorrect == Spec => SettledIsFinal
<1>1. Init => CommitsAccept
  BY DEF Init, CommitsAccept, Idle
<1>2. TypeOK /\ CommitsAccept /\ [Next]_vars
        => [\A i \in Invitations : Settled(i) => Settled(i)' /\ invs'[i] = invs[i]]_vars
  BY SettledStep
<1> QED
  BY <1>1, <1>2, CommitsAcceptStep, TypeCorrect, PTL DEF Spec, SettledIsFinal

=============================================================================
