------------------------------ MODULE Membership ------------------------------
(***************************************************************************)
(* The members of a workspace: WorkspacesService (create, getMembership,   *)
(* updateMemberRole, removeMember), InvitationsService (invite, accept,    *)
(* revoke) and the guards in front of them.  Every API process keeps its   *)
(* own in-memory cache of memberships (CacheModule.register), filled on a  *)
(* miss, cleared by the process that serves a change, and expiring.        *)
(*                                                                         *)
(* A request first passes WorkspaceMemberGuard and RolesGuard and then     *)
(* runs its handler, one step per statement; it runs in one process.       *)
(***************************************************************************)
EXTENDS Integers, FiniteSets

CONSTANTS
  Users,
  Invitations,  \* invitation ids and tokens
  Processes,    \* API processes, each with its cache
  Requests,     \* requests that may be in progress at once
  MaxRequests,  \* bound on the requests of a behaviour
  None

Role == {"ADMIN", "MEMBER"}

ASSUME ConstantsAssumption ==
  /\ MaxRequests \in Nat
  /\ None \notin Users \cup Invitations \cup Processes \cup Role

RoleOrNone == Role \cup {None}

VARIABLES
  owner,     \* workspaces.owner_id, None before the workspace is created
  members,   \* workspace_members, by user (its unique key)
  inserts,   \* member rows inserted so far: the last row id
  invs,      \* workspace_invitations
  cache,     \* the cached memberships of each process
  req,       \* the requests in progress
  served     \* requests begun so far

vars == <<owner, members, inserts, invs, cache, req, served>>

\* A member row; id tells a row from one inserted after its removal.
MemberRow == [role : RoleOrNone, id : Nat]

NoMember == [role |-> None, id |-> 0]

Invitation == [status : {"none", "PENDING", "ACCEPTED", "EXPIRED", "REVOKED"},
               email : Users \cup {None}, role : RoleOrNone, expired : BOOLEAN]

\* A cached membership.  current is history: no row of the user was written
\* between the read that filled the entry and its set, nor, since then, by
\* another process.
Entry == [role : RoleOrNone, current : BOOLEAN]

NoEntry == [role |-> None, current |-> TRUE]

Op == {"get", "updateRole", "remove", "invite", "revoke", "accept"}

\* A request: who calls what, where; the target user or invitation; the role
\* of its dto; the role the guard has read (current as in Entry); the member
\* row its handler has loaded; what its save will do.
ActiveState ==
  {q \in [pc : {"get", "find", "set", "handle", "select", "write", "invalidate", "commit"},
          op : Op, proc : Processes, caller : Users, user : Users, inv : Invitations \cup {None},
          role : RoleOrNone, seen : RoleOrNone, current : BOOLEAN, row : MemberRow,
          status : {"none", "ACCEPTED", "EXPIRED", "REVOKED"}, sql : {"none", "insert", "update"}] :
     q.op \in {"revoke", "accept"} => q.inv # None}

Idle == [pc |-> "idle"]

RequestState == {Idle} \cup ActiveState

NoInvitation == [status |-> "none", email |-> None, role |-> None, expired |-> FALSE]

\* Nothing exists yet, or a workspace at rest whose owner has one member or has
\* invited one.
NoWorkspace ==
  /\ owner = None
  /\ members = [u \in Users |-> NoMember]
  /\ inserts = 0
  /\ invs = [i \in Invitations |-> NoInvitation]

Established ==
  \E u \in Users, role \in Role :
    /\ owner \in Users \ {u}
    /\ members = [v \in Users |-> IF v = owner THEN [role |-> "ADMIN", id |-> 1]
                                  ELSE IF v = u THEN [role |-> role, id |-> 2] ELSE NoMember]
    /\ inserts = 2
    /\ invs = [i \in Invitations |-> NoInvitation]

Invited ==
  \E u \in Users, role \in Role, i \in Invitations :
    /\ owner \in Users \ {u}
    /\ members = [v \in Users |-> IF v = owner THEN [role |-> "ADMIN", id |-> 1] ELSE NoMember]
    /\ inserts = 1
    /\ invs = [j \in Invitations |->
                 IF j = i THEN [NoInvitation EXCEPT !.status = "PENDING", !.email = u,
                                                    !.role = role]
                 ELSE NoInvitation]

Init ==
  /\ NoWorkspace \/ Established \/ Invited
  /\ cache = [p \in Processes |-> [u \in Users |-> NoEntry]]
  /\ req = [r \in Requests |-> Idle]
  /\ served = 0

-----------------------------------------------------------------------------
(* Requests and rows.                                                      *)

Goto(r, pc) == req' = [req EXCEPT ![r].pc = pc]

End(r) == req' = [req EXCEPT ![r] = Idle]

UnchangedTables == UNCHANGED <<owner, members, inserts, invs>>

\* Member rows of u are written by request r, which goes on as q: reads of u
\* in progress and what other processes have cached are out of date.
WriteMember(r, u, row, q) ==
  /\ members' = [members EXCEPT ![u] = row]
  /\ req' = [s \in Requests |->
               IF s = r THEN q
               ELSE IF req[s].pc = "set" /\ req[s].caller = u THEN [req[s] EXCEPT !.current = FALSE]
               ELSE req[s]]
  /\ cache' = [p \in Processes |->
                 IF p = req[r].proc \/ cache[p][u].role = None THEN cache[p]
                 ELSE [cache[p] EXCEPT ![u].current = FALSE]]

\* WorkspacesService.create: the workspace and its owner, in a transaction.
Create(u) ==
  /\ owner = None
  /\ owner' = u
  /\ inserts' = inserts + 1
  /\ members' = [members EXCEPT ![u] = [role |-> "ADMIN", id |-> inserts + 1]]
  /\ UNCHANGED <<invs, cache, req, served>>

\* A request arrives.  accept is not a route of a workspace: it has no guard.
Begin(r, op, p, caller, user, inv, role) ==
  /\ req[r].pc = "idle"
  /\ owner # None
  /\ served < MaxRequests
  /\ served' = served + 1
  /\ req' = [req EXCEPT ![r] =
       [pc |-> IF op = "accept" THEN "handle" ELSE "get",
        op |-> op, proc |-> p, caller |-> caller, user |-> user, inv |-> inv, role |-> role,
        seen |-> None, current |-> TRUE, row |-> NoMember, status |-> "none", sql |-> "none"]]
  /\ UNCHANGED cache /\ UnchangedTables

-----------------------------------------------------------------------------
(* The guards.                                                             *)

\* RolesGuard: every operation here but reading is for ADMIN.
Admitted(op, role) == role # None /\ (op # "get" => role = "ADMIN")

\* canActivate is done with the membership it got; a read ends here.
Guarded(r, role) ==
  IF Admitted(req[r].op, role) /\ req[r].op # "get"
    THEN Goto(r, "handle") ELSE End(r)

\* getMembership: cache.get.
CacheGet(r) ==
  LET hit == cache[req[r].proc][req[r].caller].role IN
  /\ req[r].pc = "get"
  /\ IF hit # None THEN Guarded(r, hit) ELSE Goto(r, "find")
  /\ UNCHANGED <<cache, served>> /\ UnchangedTables

FindMembershipUnchecked(r) ==
  /\ req[r].pc = "find"
  /\ req' = [req EXCEPT ![r].pc = "set", ![r].seen = members[req[r].caller].role]
  /\ UNCHANGED <<cache, served>> /\ UnchangedTables

\* getMembership: the query.
FindMembership(r) ==
  LET role == members[req[r].caller].role IN
  /\ req[r].pc = "find"
  /\ IF role = None THEN End(r)
     ELSE req' = [req EXCEPT ![r].pc = "set", ![r].seen = role]
  /\ UNCHANGED <<cache, served>> /\ UnchangedTables

\* getMembership: cache.set, and the guards go on with what was read.
CacheSet(r) ==
  LET q == req[r] IN
  /\ q.pc = "set"
  /\ cache' = [cache EXCEPT ![q.proc][q.caller] = [role |-> q.seen, current |-> q.current]]
  /\ Guarded(r, q.seen)
  /\ UNCHANGED served /\ UnchangedTables

ExpireNever(p, u) == FALSE /\ UNCHANGED vars

\* MEMBERSHIP_TTL_MS is over.
Expire(p, u) ==
  /\ cache[p][u].role # None
  /\ cache' = [cache EXCEPT ![p][u] = NoEntry]
  /\ UNCHANGED <<req, served>> /\ UnchangedTables

-----------------------------------------------------------------------------
(* updateMemberRole and removeMember.                                      *)

LoadMemberWithoutOwnerCheck(r) ==
  LET q == req[r] IN
  /\ q.pc = "handle" /\ q.op \in {"updateRole", "remove"}
  /\ IF members[q.user].role = None THEN End(r)
     ELSE req' = [req EXCEPT ![r].pc = IF q.op = "remove" THEN "write" ELSE "select",
                             ![r].row = members[q.user]]
  /\ UNCHANGED <<cache, served>> /\ UnchangedTables

\* Both refuse the owner, then load the member.
LoadMember(r) ==
  LET q == req[r] IN
  /\ q.pc = "handle" /\ q.op \in {"updateRole", "remove"}
  /\ IF q.user = owner \/ members[q.user].role = None THEN End(r)
     ELSE req' = [req EXCEPT ![r].pc = IF q.op = "remove" THEN "write" ELSE "select",
                             ![r].row = members[q.user]]
  /\ UNCHANGED <<cache, served>> /\ UnchangedTables

\* save(membership), its SELECT by id: an INSERT will follow if the row is
\* gone, an UPDATE if its role differs, else nothing.
SelectMember(r) ==
  LET q == req[r] IN
  /\ q.pc = "select" /\ q.op = "updateRole"
  /\ req' = [req EXCEPT ![r].pc = "write",
                        ![r].sql = IF members[q.user].id # q.row.id THEN "insert"
                                   ELSE IF members[q.user].role # q.role THEN "update"
                                   ELSE "none"]
  /\ UNCHANGED <<cache, served>> /\ UnchangedTables

\* save(membership), its write.  The INSERT fails on the unique key when the
\* user has another row by now; the UPDATE misses a row that is gone.
WriteRole(r) ==
  LET q == req[r]  u == q.user  new == [role |-> q.role, id |-> q.row.id] IN
  /\ q.pc = "write" /\ q.op = "updateRole"
  /\ IF q.sql = "insert" /\ members[u].role # None
       THEN End(r) /\ UNCHANGED <<members, cache>>
       ELSE IF q.sql = "insert" \/ (q.sql = "update" /\ members[u].id = q.row.id)
              THEN WriteMember(r, u, new, [q EXCEPT !.pc = "invalidate"])
              ELSE Goto(r, "invalidate") /\ UNCHANGED <<members, cache>>
  /\ UNCHANGED <<owner, inserts, invs, served>>

DeleteMemberAndReturn(r) ==
  LET q == req[r]  u == q.user IN
  /\ q.pc = "write" /\ q.op = "remove"
  /\ IF members[u].id = q.row.id
       THEN WriteMember(r, u, NoMember, Idle)
       ELSE End(r) /\ UNCHANGED <<members, cache>>
  /\ UNCHANGED <<owner, inserts, invs, served>>

\* remove(membership): a DELETE by id.
DeleteMember(r) ==
  LET q == req[r]  u == q.user IN
  /\ q.pc = "write" /\ q.op = "remove"
  /\ IF members[u].id = q.row.id
       THEN WriteMember(r, u, NoMember, [q EXCEPT !.pc = "invalidate"])
       ELSE Goto(r, "invalidate") /\ UNCHANGED <<members, cache>>
  /\ UNCHANGED <<owner, inserts, invs, served>>

\* invalidateMembership: cache.del, in the process of the request.
Invalidate(r) ==
  LET q == req[r] IN
  /\ q.pc = "invalidate"
  /\ cache' = [cache EXCEPT ![q.proc][q.user] = NoEntry]
  /\ End(r)
  /\ UNCHANGED served /\ UnchangedTables

-----------------------------------------------------------------------------
(* Invitations.                                                            *)

PendingFor(u) == {i \in Invitations : invs[i].status = "PENDING" /\ invs[i].email = u}

\* invite: the invitee is no member and has no pending invitation.
CheckInvite(r) ==
  LET q == req[r] IN
  /\ q.pc = "handle" /\ q.op = "invite"
  /\ IF members[q.user].role # None \/ PendingFor(q.user) # {} THEN End(r) ELSE Goto(r, "write")
  /\ UNCHANGED <<cache, served>> /\ UnchangedTables

\* invite: the INSERT, which the partial unique index may refuse.
InsertInvitation(r) ==
  LET q == req[r] IN
  /\ q.pc = "write" /\ q.op = "invite"
  /\ IF PendingFor(q.user) # {} THEN UNCHANGED invs
     ELSE \E i \in {j \in Invitations : invs[j].status = "none"} :
            invs' = [invs EXCEPT ![i] = [status |-> "PENDING", email |-> q.user,
                                         role |-> q.role, expired |-> FALSE]]
  /\ End(r)
  /\ UNCHANGED <<owner, members, inserts, cache, served>>

\* INVITE_TTL_MS is over.
InvitationExpires(i) ==
  /\ invs[i].status = "PENDING" /\ ~invs[i].expired
  /\ invs' = [invs EXCEPT ![i].expired = TRUE]
  /\ UNCHANGED <<owner, members, inserts, cache, req, served>>

LoadInvitationOfAnyStatus(r) ==
  LET q == req[r] IN
  /\ q.pc = "handle" /\ q.op \in {"revoke", "accept"}
  /\ req' = [req EXCEPT ![r].pc = "select", ![r].role = invs[q.inv].role,
                        ![r].status = IF q.op = "revoke" THEN "REVOKED" ELSE "ACCEPTED"]
  /\ UNCHANGED <<cache, served>> /\ UnchangedTables

\* revoke and accept load the invitation and check it.
LoadInvitation(r) ==
  LET q == req[r]  i == invs[q.inv]
      Save(status) == req' = [req EXCEPT ![r].pc = "select", ![r].status = status]
  IN
  /\ q.pc = "handle" /\ q.op \in {"revoke", "accept"}
  /\ IF i.status # "PENDING" THEN End(r)
     ELSE IF q.op = "revoke" THEN Save("REVOKED")
     ELSE IF i.expired THEN Save("EXPIRED")
     ELSE IF i.email # q.caller THEN End(r)
     ELSE req' = [req EXCEPT ![r].pc = "select", ![r].status = "ACCEPTED", ![r].role = i.role]
  /\ UNCHANGED <<cache, served>> /\ UnchangedTables

\* save(invitation) of revoke and of an expired accept: SELECT ...
SelectInvitation(r) ==
  LET q == req[r] IN
  /\ q.pc = "select" /\ q.op \in {"revoke", "accept"} /\ q.status # "ACCEPTED"
  /\ req' = [req EXCEPT ![r].pc = "write",
                        ![r].sql = IF invs[q.inv].status # q.status THEN "update" ELSE "none"]
  /\ UNCHANGED <<cache, served>> /\ UnchangedTables

\* ... and UPDATE, whatever the status is by now.
WriteInvitation(r) ==
  LET q == req[r] IN
  /\ q.pc = "write" /\ q.op \in {"revoke", "accept"}
  /\ invs' = IF q.sql = "update" THEN [invs EXCEPT ![q.inv].status = q.status] ELSE invs
  /\ End(r)
  /\ UNCHANGED <<owner, members, inserts, cache, served>>

\* accept, its transaction: looks for a membership of the caller ...
FindMemberToAccept(r) ==
  LET q == req[r] IN
  /\ q.pc = "select" /\ q.op = "accept" /\ q.status = "ACCEPTED"
  /\ req' = [req EXCEPT ![r].pc = "commit", ![r].row = members[q.caller]]
  /\ UNCHANGED <<cache, served>> /\ UnchangedTables

\* ... inserts one if there was none, and saves the invitation.  The unique
\* key fails the whole transaction when the caller has become a member.
CommitAccept(r) ==
  LET q == req[r]  u == q.caller
      accepted == [invs EXCEPT ![q.inv].status = "ACCEPTED"]
  IN
  /\ q.pc = "commit"
  /\ IF q.row.role # None
       THEN invs' = accepted /\ End(r) /\ UNCHANGED <<members, inserts, cache>>
     ELSE IF members[u].role # None
       THEN End(r) /\ UNCHANGED <<members, inserts, invs, cache>>
     ELSE /\ WriteMember(r, u, [role |-> q.role, id |-> inserts + 1], Idle)
          /\ inserts' = inserts + 1
          /\ invs' = accepted
  /\ UNCHANGED <<owner, served>>

-----------------------------------------------------------------------------

Arrive(r) ==
  \E p \in Processes, c \in Users :
    \/ Begin(r, "get", p, c, c, None, None)
    \/ \E u \in Users : Begin(r, "remove", p, c, u, None, None)
    \/ \E u \in Users, role \in Role, op \in {"updateRole", "invite"} :
         Begin(r, op, p, c, u, None, role)
    \/ \E i \in Invitations, op \in {"revoke", "accept"} : Begin(r, op, p, c, c, i, None)

Step(r) ==
  \/ CacheGet(r) \/ FindMembership(r) \/ CacheSet(r)
  \/ LoadMember(r) \/ SelectMember(r) \/ WriteRole(r) \/ DeleteMember(r) \/ Invalidate(r)
  \/ CheckInvite(r) \/ InsertInvitation(r)
  \/ LoadInvitation(r) \/ SelectInvitation(r) \/ WriteInvitation(r)
  \/ FindMemberToAccept(r) \/ CommitAccept(r)

Next ==
  \/ \E u \in Users : Create(u)
  \/ \E r \in Requests : Arrive(r) \/ Step(r)
  \/ \E p \in Processes, u \in Users : Expire(p, u)
  \/ \E i \in Invitations : InvitationExpires(i)

Spec == Init /\ [][Next]_vars

\* Requests in progress are served and cache entries expire; no request has to
\* arrive.
FairSpec ==
  /\ Spec
  /\ \A r \in Requests : WF_vars(Step(r))
  /\ \A p \in Processes, u \in Users : WF_vars(Expire(p, u))

-----------------------------------------------------------------------------
(* Properties.                                                             *)

TypeOK ==
  /\ owner \in Users \cup {None}
  /\ members \in [Users -> MemberRow]
  /\ inserts \in Nat /\ served \in Nat
  /\ invs \in [Invitations -> Invitation]
  /\ cache \in [Processes -> [Users -> Entry]]
  /\ req \in [Requests -> RequestState]
  /\ \A r \in Requests : req[r].pc = "set" => req[r].seen \in Role

\* The owner is an ADMIN of the workspace for good, and no process ever takes
\* the owner for less: updateMemberRole and removeMember refuse the owner, and
\* accepting an invitation keeps the role a member has.
OwnerIsAdmin ==
  owner # None =>
    /\ members[owner].role = "ADMIN"
    /\ \A p \in Processes : cache[p][owner].role \in {None, "ADMIN"}

\* A cached role differs from the table only while a request of the same
\* process is about to clear it, or if another process wrote the row, or if the
\* read that filled the cache overlapped the write (getMembership against
\* updateMemberRole, removeMember and accept).
StaleOnlyByRace ==
  \A p \in Processes, u \in Users :
    LET e == cache[p][u] IN
    e.role \notin {None, members[u].role} /\ e.current =>
      \E r \in Requests : req[r].pc = "invalidate" /\ req[r].proc = p /\ req[r].user = u

\* An invitation that has been accepted, revoked or found expired keeps that
\* status, once no request that loaded it while it was pending is still to write
\* (accept and revoke check the status and save in separate statements).
Settled(i) ==
  /\ invs[i].status \notin {"none", "PENDING"}
  /\ \A r \in Requests : req[r].pc \in {"select", "write", "commit"} /\ req[r].op \in {"revoke", "accept"}
                         => req[r].inv # i

SettledIsFinal ==
  [][\A i \in Invitations : Settled(i) => Settled(i)' /\ invs'[i] = invs[i]]_vars

\* A user who is removed for good is forgotten for good by every process, also
\* one that served none of it and one that read the row before its removal:
\* the time to live of the cache.
RemovedIsForgotten ==
  \A u \in Users :
    <>[](members[u].role = None) => <>[](\A p \in Processes : cache[p][u].role = None)
===============================================================================
