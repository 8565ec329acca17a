---------------------------- MODULE SessionsProofs ----------------------------
(* Proofs about Sessions, for any number of tabs, calls and tokens: its types, *)
(* that a closed session stays closed, that a session has one live token, and  *)
(* that a tab keeps its session.                                               *)
EXTENDS Sessions, FiniteSetTheorems, TLAPS

-----------------------------------------------------------------------------
(* The records of the model.                                                *)

LEMMA ActiveFields ==
  ASSUME NEW q \in ActiveState
  PROVE  /\ q.pc \in ServerStep \cup ClientStep /\ q.pc # "idle"
         /\ q.op \in {"signup", "login", "refresh", "logout"}
         /\ q.tab \in Tabs \cup {None} /\ q.email \in Emails \cup {None}
         /\ q.tok \in TokenOrNone /\ q.new \in TokenOrNone
  BY DEF ActiveState, ServerStep, ClientStep

\* A call that goes on to another step is otherwise unchanged.
LEMMA GotoFields ==
  ASSUME NEW q \in ActiveState, NEW pc \in ServerStep \cup ClientStep
  PROVE  LET p == [q EXCEPT !.pc = pc] IN
           /\ p \in ActiveState /\ p.pc = pc
           /\ p.op = q.op /\ p.tab = q.tab /\ p.tok = q.tok /\ p.new = q.new
  BY DEF ActiveState

\* So is one nobody waits for any more.
LEMMA LeaveFields ==
  ASSUME NEW q \in ActiveState
  PROVE  LET p == [q EXCEPT !.tab = None] IN
           /\ p \in ActiveState /\ p.pc = q.pc
           /\ p.op = q.op /\ p.tok = q.tok /\ p.new = q.new
  BY DEF ActiveState

LEMMA IdleFields == Idle.pc = "idle"
  BY DEF Idle

\* A call is active exactly when its record is that of an active call.
LEMMA ActiveCall ==
  ASSUME TypeOK, NEW c \in Calls
  PROVE  /\ Active(c) => call[c] \in ActiveState
         /\ ~Active(c) => call[c] = Idle
  BY ActiveFields, IdleFields DEF TypeOK, Active

-----------------------------------------------------------------------------
(* What a step does to one call and to the rows, whichever action it is.    *)

Follows == {<<"exists", "create">>, <<"create", "mint">>, <<"load", "mint">>,
            <<"find", "family">>, <<"find", "spend">>, <<"spend", "mint">>, <<"mint", "user">>}

\* The call begins.
Begins(q, p) ==
  /\ q = Idle /\ p \in ActiveState
  /\ \/ p.pc \in {"exists", "load"} /\ p.tok = 0
     \/ p.pc \in {"find", "revoke"} /\ p.tok \in 1..issued
  /\ p.new = 0

\* The call goes on, with the token it was about.
GoesOn(q, p) ==
  /\ q \in ActiveState /\ p \in ActiveState
  /\ p.tok = q.tok
  /\ p.pc = q.pc \/ p.pc \in ClientStep \/ <<q.pc, p.pc>> \in Follows
  /\ p.new = q.new \/ p.new \in 0..issued'

\* It was about to spend a token only if it has found it active, and creates
\* a successor only once it has spent the token.
Checked(q, p) ==
  /\ p.pc = "spend" => q.pc = "spend" \/ ~row[q.tok].revoked
  /\ p.pc = "mint" => q.pc \in {"mint", "create", "load"} \/ row'[q.tok].revoked

Move(q, p) == p = Idle \/ Begins(q, p) \/ (GoesOn(q, p) /\ Checked(q, p))

\* Rows are at most revoked.
Revoking ==
  /\ issued' = issued
  /\ row' \in [Tokens -> Row]
  /\ \A t \in Tokens : row'[t] = row[t] \/ row'[t] = [row[t] EXCEPT !.revoked = TRUE]

NewRow(t, e) ==
  [NoRow EXCEPT !.user = IF t = 0 THEN e ELSE row[t].user,
                !.family = IF t = 0 THEN issued + 1 ELSE row[t].family,
                !.parent = t]

\* A call that was about to has inserted one row, and nothing else happened.
Creating ==
  \E c \in Calls :
    /\ At(c, "mint") /\ issued < MaxTokens
    /\ issued' = issued + 1
    /\ row' = [row EXCEPT ![issued + 1] = NewRow(call[c].tok, call[c].email)]
    /\ ~At(c, "mint")' /\ ~At(c, "spend")'
    /\ \A d \in Calls \ {c} : call'[d] = call[d]

Summary == (\A c \in Calls : Move(call[c], call'[c])) /\ (Revoking \/ Creating)

\* The tokens of a call have been issued; a signup or login has none to send, a
\* refresh or logout has one.
CallOK(q) ==
  q.pc # "idle" =>
    /\ q.tok \in 0..issued /\ q.new \in 0..issued
    /\ q.pc \in {"exists", "create", "load"} => q.tok = 0
    /\ q.pc \in {"find", "family", "spend", "revoke"} => q.tok # 0

TypeInv == TypeOK /\ \A c \in Calls : CallOK(call[c])

StepOK == Summary /\ TypeInv'

LEMMA MoveIsReflexive ==
  ASSUME TypeInv, NEW c \in Calls
  PROVE  Move(call[c], call[c])
<1>1. CASE Active(c)
  BY <1>1, ActiveCall, ActiveFields DEF Move, GoesOn, Checked, TypeInv
<1>2. CASE ~Active(c)
  BY <1>2, ActiveCall DEF Move, TypeInv
<1> QED
  BY <1>1, <1>2

\* The calls keep their types in a step that moves each of them.
LEMMA CallsOK ==
  ASSUME TypeInv, issued' = issued \/ issued' = issued + 1,
         NEW f, call' = [c \in Calls |-> f[c]],
         \A c \in Calls : Move(call[c], call'[c])
  PROVE  /\ call' \in [Calls -> {Idle} \cup ActiveState]
         /\ \A c \in Calls : CallOK(call[c])'
<1>0. issued \in Nat
  BY ConstantsAssumption DEF TypeInv, TypeOK, TokenOrNone
<1>1. ASSUME NEW c \in Calls
      PROVE  /\ call'[c] \in {Idle} \cup ActiveState
             /\ CallOK(call[c])'
  <2>1. CASE call'[c] = Idle
    BY <2>1, IdleFields DEF CallOK
  <2>2. CASE Begins(call[c], call'[c])
    BY <2>2, <1>0 DEF Begins, CallOK
  <2>3. CASE GoesOn(call[c], call'[c])
    <3>1. Active(c)
      BY <2>3, ActiveFields DEF GoesOn, Active
    <3> QED
      BY <2>3, <3>1, <1>0 DEF GoesOn, TypeInv, CallOK, Active, Follows, ClientStep
  <2> QED
    BY <2>1, <2>2, <2>3 DEF Move
<1> QED
  BY <1>1

\* The same where one call moves.
LEMMA OneCallOK ==
  ASSUME TypeInv, issued' = issued \/ issued' = issued + 1,
         NEW c \in Calls, NEW p, call' = [call EXCEPT ![c] = p], Move(call[c], p)
  PROVE  /\ \A d \in Calls : Move(call[d], call'[d])
         /\ call' \in [Calls -> {Idle} \cup ActiveState]
         /\ \A d \in Calls : CallOK(call[d])'
<1>1. call \in [Calls -> {Idle} \cup ActiveState]
  BY DEF TypeInv, TypeOK
<1>2. ASSUME NEW d \in Calls PROVE Move(call[d], call'[d])
  BY <1>1, <1>2, MoveIsReflexive
<1>3. call' = [d \in Calls |-> [call EXCEPT ![c] = p][d]]
  BY <1>1
<1> QED
  BY <1>2, <1>3, CallsOK

\* A call goes to a step it may go to.
LEMMA GotoMoves ==
  ASSUME TypeInv, NEW c \in Calls, Active(c), NEW pc \in ServerStep \cup ClientStep,
         pc \in ClientStep \/ <<call[c].pc, pc>> \in Follows,
         Checked(call[c], [call[c] EXCEPT !.pc = pc])
  PROVE  Move(call[c], [call[c] EXCEPT !.pc = pc])
  BY ActiveCall, GotoFields DEF Move, GoesOn, TypeInv

\* The client's steps need no check.
LEMMA RespondMoves ==
  ASSUME TypeInv, NEW c \in Calls, Active(c), NEW pc \in ClientStep, Respond(c, pc)
  PROVE  \E p : Move(call[c], p) /\ call' = [call EXCEPT ![c] = p]
<1>1. CASE call[c].tab = None
  BY <1>1 DEF Respond, End, Move
<1>2. CASE call[c].tab # None
  <2>1. pc \notin {"spend", "mint"}
    BY DEF ClientStep
  <2>2. Checked(call[c], [call[c] EXCEPT !.pc = pc])
    BY <2>1, ActiveCall, GotoFields DEF Checked, TypeInv
  <2>3. Move(call[c], [call[c] EXCEPT !.pc = pc])
    BY <2>2, GotoMoves
  <2> QED
    BY <1>2, <2>3 DEF Respond, Goto
<1> QED
  BY <1>1, <1>2

\* A step that leaves the tables alone and moves one call.
LEMMA TablesKept ==
  ASSUME TypeInv, UnchangedTables, UNCHANGED mishap \/ mishap' \in BOOLEAN,
         held' \in [Tabs -> 0..issued], stored' \in 0..issued,
         NEW c \in Calls, NEW p, call' = [call EXCEPT ![c] = p], Move(call[c], p)
  PROVE  StepOK
<1>1. issued' = issued /\ row' = row /\ users' = users /\ expired' = expired
  BY DEF UnchangedTables
<1>2. Revoking
  BY <1>1 DEF Revoking, TypeInv, TypeOK
<1>3. /\ \A d \in Calls : Move(call[d], call'[d])
      /\ call' \in [Calls -> {Idle} \cup ActiveState]
      /\ \A d \in Calls : CallOK(call[d])'
  BY <1>1, OneCallOK
<1> QED
  BY <1>1, <1>2, <1>3 DEF StepOK, Summary, TypeInv, TypeOK

-----------------------------------------------------------------------------
(* The actions.                                                             *)

\* The client and the history keep their types where a step leaves them alone.
LEMMA ClientKept ==
  ASSUME TypeInv, UnchangedClient
  PROVE  held' \in [Tabs -> 0..issued] /\ stored' \in 0..issued /\ mishap' = mishap
  BY DEF TypeInv, TypeOK, UnchangedClient

\* The steps of signup and login, and those of refresh that only read.
LEMMA ReadsOK ==
  ASSUME TypeInv, NEW c \in Calls,
         \/ SignupExists(c) \/ LoadUser(c) \/ FindToken(c) \/ RefreshUser(c) \/ Crash(c)
  PROVE  StepOK
<1>1. UnchangedTables /\ UnchangedClient
  BY DEF SignupExists, LoadUser, FindToken, RefreshUser, Crash
<1>2. Active(c)
  BY DEF SignupExists, LoadUser, FindToken, RefreshUser, Crash, Active, At, ServerStep
<1>3. ASSUME NEW p, call' = [call EXCEPT ![c] = p], Move(call[c], p)
      PROVE  StepOK
  BY <1>1, <1>3, ClientKept, TablesKept
<1>4. ASSUME NEW pc \in ClientStep, Respond(c, pc)
      PROVE  StepOK
  BY <1>2, <1>3, <1>4, RespondMoves
<1>5. ASSUME NEW pc \in ServerStep, <<call[c].pc, pc>> \in Follows, Goto(c, pc),
             pc = "spend" => ~row[call[c].tok].revoked,
             pc = "mint" => call[c].pc \in {"create", "load"}
      PROVE  StepOK
  <2>1. Checked(call[c], [call[c] EXCEPT !.pc = pc])
    BY <1>2, <1>5, ActiveCall, GotoFields DEF Checked, TypeInv
  <2>2. Move(call[c], [call[c] EXCEPT !.pc = pc])
    BY <1>2, <1>5, <2>1, GotoMoves
  <2> QED
    BY <1>3, <1>5, <2>2 DEF Goto
<1>6. CASE SignupExists(c)
  <2>1. Respond(c, "reject") \/ (At(c, "exists") /\ Goto(c, "create"))
    BY <1>6 DEF SignupExists
  <2> QED
    BY <2>1, <1>4, <1>5 DEF At, Follows, ServerStep, ClientStep
<1>7. CASE LoadUser(c)
  <2>1. Respond(c, "reject") \/ (At(c, "load") /\ Goto(c, "mint"))
    BY <1>7 DEF LoadUser
  <2> QED
    BY <2>1, <1>4, <1>5 DEF At, Follows, ServerStep, ClientStep
<1>8. CASE FindToken(c)
  <2>1. \/ Respond(c, "reject")
        \/ At(c, "find") /\ Goto(c, "family")
        \/ At(c, "find") /\ Goto(c, "spend") /\ ~row[call[c].tok].revoked
    BY <1>8 DEF FindToken
  <2> QED
    BY <2>1, <1>4, <1>5 DEF At, Follows, ServerStep, ClientStep
<1>9. CASE RefreshUser(c)
  <2>1. PICK pc \in {"answer", "reject"} : Respond(c, pc)
    BY <1>9 DEF RefreshUser
  <2> QED
    BY <2>1, <1>4 DEF ClientStep
<1>10. CASE Crash(c)
  BY <1>4, <1>10 DEF Crash, ClientStep
<1> QED
  BY <1>6, <1>7, <1>8, <1>9, <1>10

LEMMA CreateUserOK ==
  ASSUME TypeInv, NEW c \in Calls, CreateUser(c)
  PROVE  StepOK
<1>1. Active(c) /\ At(c, "create")
  BY DEF CreateUser, At, Active
<1>2. PICK p : Move(call[c], p) /\ call' = [call EXCEPT ![c] = p]
  <2>1. CASE Respond(c, "reject")
    BY <1>1, <2>1, RespondMoves DEF ClientStep
  <2>2. CASE Goto(c, "mint")
    <3>1. Checked(call[c], [call[c] EXCEPT !.pc = "mint"])
      BY <1>1, ActiveCall, GotoFields DEF Checked, TypeInv, At, ServerStep
    <3>2. Move(call[c], [call[c] EXCEPT !.pc = "mint"])
      BY <1>1, <3>1, GotoMoves DEF At, Follows, ServerStep
    <3> QED
      BY <2>2, <3>2 DEF Goto
  <2> QED
    BY <2>1, <2>2 DEF CreateUser
<1>3. issued' = issued /\ row' = row /\ expired' = expired /\ users' \in [Emails -> Account]
  BY DEF CreateUser, TypeInv, TypeOK, Account
<1>4. Revoking
  BY <1>3 DEF Revoking, TypeInv, TypeOK
<1>5. held' \in [Tabs -> 0..issued] /\ stored' \in 0..issued /\ mishap' = mishap
  BY ClientKept DEF CreateUser
<1> QED
  BY <1>2, <1>3, <1>4, <1>5, OneCallOK DEF StepOK, Summary, TypeInv, TypeOK

\* The steps that revoke one token or a family.
LEMMA RevokesOK ==
  ASSUME TypeInv, NEW c \in Calls, RevokeFamily(c) \/ SpendToken(c) \/ RevokeToken(c)
  PROVE  StepOK
<1>1. Active(c)
  BY DEF RevokeFamily, SpendToken, RevokeToken, At, Active
<1>2. Revoking
  <2>1. \A t \in Tokens : row[t] \in Row /\ [row[t] EXCEPT !.revoked = TRUE] \in Row
    BY DEF TypeInv, TypeOK, Row
  <2>2. CASE RevokeFamily(c)
    BY <2>1, <2>2 DEF RevokeFamily, Revoking, TypeInv, TypeOK
  <2>3. CASE row' = [row EXCEPT ![call[c].tok].revoked = TRUE] /\ issued' = issued
    <3>1. row' \in [Tokens -> Row] /\ \A t \in Tokens : row'[t] \in {row[t], [row[t] EXCEPT !.revoked = TRUE]}
      BY <2>1, <2>3 DEF TypeInv, TypeOK
    <3> QED
      BY <2>3, <3>1 DEF Revoking
  <2> QED
    BY <2>2, <2>3 DEF SpendToken, RevokeToken
<1>3. PICK p : Move(call[c], p) /\ call' = [call EXCEPT ![c] = p]
  <2>1. CASE RevokeFamily(c)
    BY <1>1, <2>1, RespondMoves DEF RevokeFamily, ClientStep
  <2>2. CASE RevokeToken(c)
    BY <2>2 DEF RevokeToken, End, Move
  <2>3. CASE SpendToken(c)
    <3>1. call[c].tok \in Tokens => row'[call[c].tok].revoked
      BY <2>3 DEF SpendToken, TypeInv, TypeOK, Row
    <3>2. call[c].tok \in Tokens
      BY <2>3, ActiveCall, ActiveFields, <1>1, ConstantsAssumption
      DEF SpendToken, At, TypeInv, CallOK, Tokens, TokenOrNone
    <3>3. Checked(call[c], [call[c] EXCEPT !.pc = "mint"])
      BY <1>1, <3>1, <3>2, ActiveCall, GotoFields DEF Checked, TypeInv, ServerStep
    <3> QED
      BY <1>1, <2>3, <3>3, GotoMoves DEF SpendToken, Goto, At, Follows, ServerStep
  <2> QED
    BY <2>1, <2>2, <2>3
<1>4. issued' = issued /\ users' = users /\ expired' = expired /\ UnchangedClient
  BY DEF RevokeFamily, SpendToken, RevokeToken
<1>5. held' \in [Tabs -> 0..issued] /\ stored' \in 0..issued /\ mishap' = mishap
  BY <1>4, ClientKept
<1> QED
  BY <1>2, <1>3, <1>4, <1>5, OneCallOK DEF StepOK, Summary, TypeInv, TypeOK, Revoking

LEMMA CreateTokenOK ==
  ASSUME TypeInv, NEW c \in Calls, CreateToken(c)
  PROVE  StepOK
<1> DEFINE n == issued + 1
           q == call[c]
           t == q.tok
           p == IF t = 0 /\ q.tab = None THEN Idle
                ELSE [q EXCEPT !.new = n, !.pc = IF t = 0 THEN "answer" ELSE "user"]
<1> USE ConstantsAssumption
<1>1. q \in ActiveState /\ q.pc = "mint"
  BY ActiveCall DEF CreateToken, At, Active, TypeInv
<1>2. n \in Tokens /\ n \in TokenOrNone /\ issued \in Nat /\ issued < MaxTokens /\ t \in 0..issued
  BY <1>1 DEF CreateToken, TypeInv, TypeOK, Tokens, TokenOrNone, CallOK
<1>3. issued' = n /\ row' = [row EXCEPT ![n] = NewRow(t, q.email)] /\ call' = [call EXCEPT ![c] = p]
  BY DEF CreateToken, NewRow
<1>4. NewRow(t, q.email) \in Row
  <2>1. t # 0 => row[t] \in Row
    BY <1>2 DEF TypeInv, TypeOK, Tokens
  <2> QED
    BY <1>1, <1>2, <2>1, ActiveFields DEF NewRow, NoRow, Row, TokenOrNone
<1>5. row' \in [Tokens -> Row]
  BY <1>2, <1>3, <1>4 DEF TypeInv, TypeOK
<1>6. p = Idle \/ (p \in ActiveState /\ p.pc \in {"answer", "user"} /\ p.tok = t /\ p.new = n)
  BY <1>1, <1>2 DEF ActiveState, ServerStep, ClientStep
<1>7. Move(q, p)
  <2>1. CASE p = Idle
    BY <2>1 DEF Move
  <2>2. CASE p \in ActiveState /\ p.pc \in {"answer", "user"} /\ p.tok = t /\ p.new = n
    <3>1. GoesOn(q, p)
      BY <1>1, <1>2, <1>3, <2>2 DEF GoesOn, Follows, ClientStep
    <3> QED
      BY <2>2, <3>1 DEF Move, Checked
  <2> QED
    BY <1>6, <2>1, <2>2
<1>8. Creating
  <2>1. call'[c] = p /\ \A d \in Calls \ {c} : call'[d] = call[d]
    BY <1>3 DEF TypeInv, TypeOK
  <2>2. p.pc \notin {"mint", "spend"}
    BY <1>6, IdleFields
  <2> QED
    BY <1>1, <1>2, <1>3, <2>1, <2>2 DEF Creating, At
<1>9. held' \in [Tabs -> 0..issued'] /\ stored' \in 0..issued' /\ mishap' = mishap
  <2>1. held \in [Tabs -> 0..n] /\ stored \in 0..n
    BY <1>2 DEF TypeInv, TypeOK
  <2> QED
    BY <1>3, <2>1 DEF CreateToken, UnchangedClient
<1>10. users' = users /\ expired' = expired /\ expired \in 0..n
  BY <1>2 DEF CreateToken, TypeInv, TypeOK
<1>11. /\ \A d \in Calls : Move(call[d], call'[d])
       /\ call' \in [Calls -> {Idle} \cup ActiveState]
       /\ \A d \in Calls : CallOK(call[d])'
  BY <1>3, <1>7, OneCallOK
<1> QED
  BY <1>2, <1>3, <1>5, <1>8, <1>9, <1>10, <1>11 DEF StepOK, Summary, TypeInv, TypeOK

\* What Begin starts.
LEMMA BeginsOK ==
  ASSUME TypeInv, NEW c \in Calls, NEW pc \in {"exists", "load", "find", "revoke"},
         NEW op \in {"signup", "login", "refresh", "logout"}, NEW b \in Tabs \cup {None},
         NEW e \in Emails \cup {None}, NEW t \in 0..issued,
         (t = 0) = (pc \in {"exists", "load"}), Begin(c, pc, op, b, e, t)
  PROVE  \E p : Move(call[c], p) /\ call' = [call EXCEPT ![c] = p]
<1> DEFINE p == [pc |-> pc, op |-> op, tab |-> b, email |-> e, tok |-> t, new |-> 0]
<1>1. call[c] = Idle /\ call' = [call EXCEPT ![c] = p]
  BY ActiveCall DEF Begin, TypeInv
<1>2. issued \in Nat /\ t \in TokenOrNone /\ 0 \in TokenOrNone
  BY ConstantsAssumption DEF TypeInv, TypeOK, TokenOrNone
<1>3. p \in ActiveState
  BY <1>2 DEF ActiveState, ServerStep
<1>4. Begins(call[c], p)
  BY <1>1, <1>2, <1>3 DEF Begins
<1> QED
  BY <1>1, <1>4 DEF Move

LEMMA ClientBeginsOK ==
  ASSUME TypeInv, NEW c \in Calls, NEW b \in Tabs,
         (\E e \in Emails : Submit(c, b, e)) \/ Refresh(c, b) \/ Logout(c, b)
  PROVE  StepOK
<1>1. CASE \E e \in Emails : Submit(c, b, e)
  <2>1. PICK e \in Emails : Submit(c, b, e)
    BY <1>1
  <2>2. 0 \in 0..issued
    BY ConstantsAssumption DEF TypeInv, TypeOK, TokenOrNone
  <2>3. PICK p : Move(call[c], p) /\ call' = [call EXCEPT ![c] = p]
    BY <2>1, <2>2, BeginsOK DEF Submit
  <2> QED
    BY <2>1, <2>3, ClientKept, TablesKept DEF Submit
<1>2. CASE Refresh(c, b)
  <2>1. held[b] \in 0..issued /\ held[b] # 0
    BY <1>2 DEF Refresh, TypeInv, TypeOK
  <2>2. PICK p : Move(call[c], p) /\ call' = [call EXCEPT ![c] = p]
    BY <1>2, <2>1, BeginsOK DEF Refresh
  <2>3. mishap' \in BOOLEAN /\ held' \in [Tabs -> 0..issued] /\ stored' \in 0..issued
    BY <1>2 DEF Refresh, TypeInv, TypeOK
  <2> QED
    BY <1>2, <2>2, <2>3, TablesKept DEF Refresh
<1>3. CASE Logout(c, b)
  <2>1. held[b] \in 0..issued /\ held[b] # 0 /\ 0 \in 0..issued
    BY <1>3, ConstantsAssumption DEF Logout, TypeInv, TypeOK, TokenOrNone
  <2>2. PICK p : Move(call[c], p) /\ call' = [call EXCEPT ![c] = p]
    BY <1>3, <2>1, BeginsOK DEF Logout
  <2>3. held' \in [Tabs -> 0..issued] /\ stored' \in 0..issued
    BY <1>3, <2>1 DEF Logout, HardLogout, TypeInv, TypeOK
  <2> QED
    BY <1>3, <2>2, <2>3, TablesKept DEF Logout
<1> QED
  BY <1>1, <1>2, <1>3

\* The client's side of an answer, and a connection that breaks.
LEMMA ClientEndsOK ==
  ASSUME TypeInv, NEW c \in Calls,
         SetSession(c) \/ Fail(c) \/ RetrySucceeds(c) \/ LoseConnection(c)
  PROVE  StepOK
<1> USE ConstantsAssumption
<1>1. Active(c) /\ call[c] \in ActiveState
  BY ActiveCall DEF SetSession, Fail, RetrySucceeds, LoseConnection, At, Active, ServerStep, TypeInv
<1>2. 0 \in 0..issued /\ call[c].new \in 0..issued
  BY <1>1, ActiveFields DEF TypeInv, TypeOK, CallOK, TokenOrNone
<1>3. \A b : HardLogout(b) => held' \in [Tabs -> 0..issued] /\ stored' \in 0..issued
  BY <1>2 DEF HardLogout, TypeInv, TypeOK
<1>4. held' \in [Tabs -> 0..issued] /\ stored' \in 0..issued
  <2>1. CASE SetSession(c)
    BY <2>1, <1>2 DEF SetSession, TypeInv, TypeOK
  <2>2. CASE Fail(c)
    BY <2>2, <1>3 DEF Fail, TypeInv, TypeOK
  <2>3. CASE RetrySucceeds(c)
    BY <2>3, ClientKept DEF RetrySucceeds
  <2>4. CASE LoseConnection(c)
    BY <2>4, <1>3 DEF LoseConnection, TypeInv, TypeOK
  <2> QED
    BY <2>1, <2>2, <2>3, <2>4
<1>5. UnchangedTables /\ mishap' = mishap
  BY DEF SetSession, Fail, RetrySucceeds, LoseConnection, UnchangedClient
<1>6. PICK p : Move(call[c], p) /\ call' = [call EXCEPT ![c] = p]
  <2>1. CASE End(c)
    BY <2>1 DEF End, Move
  <2>2. CASE SetSession(c) /\ Goto(c, "retry")
    <3>1. Checked(call[c], [call[c] EXCEPT !.pc = "retry"])
      BY <1>1, GotoFields DEF Checked, ClientStep
    <3> QED
      BY <1>1, <2>2, <3>1, GotoMoves DEF Goto, ClientStep
  <2>3. CASE LoseConnection(c)
    <3>1. CASE At(c, "answer")
      BY <2>3, <3>1 DEF LoseConnection, Move
    <3>2. CASE ~At(c, "answer")
      <4>1. call' = [call EXCEPT ![c] = [call[c] EXCEPT !.tab = None]]
        BY <2>3, <3>2 DEF LoseConnection
      <4>2. Move(call[c], [call[c] EXCEPT !.tab = None])
        BY <1>1, LeaveFields DEF Move, GoesOn, Checked
      <4> QED
        BY <4>1, <4>2
    <3> QED
      BY <3>1, <3>2
  <2> QED
    BY <2>1, <2>2, <2>3 DEF SetSession, Fail, RetrySucceeds
<1> QED
  BY <1>4, <1>5, <1>6, TablesKept

LEMMA LoadPageOK ==
  ASSUME TypeInv, NEW b \in Tabs, LoadPage(b)
  PROVE  StepOK
<1> DEFINE f == [c \in Calls |-> IF ~Active(c) \/ call[c].tab # b THEN call[c]
                                 ELSE IF call[c].pc \in ClientStep THEN Idle
                                 ELSE [call[c] EXCEPT !.tab = None]]
<1>1. call' = f
  BY DEF LoadPage
<1>2. ASSUME NEW c \in Calls PROVE Move(call[c], call'[c])
  <2>1. CASE call'[c] = call[c]
    BY <2>1, MoveIsReflexive
  <2>2. CASE call'[c] = Idle
    BY <2>2 DEF Move
  <2>3. CASE Active(c) /\ call'[c] = [call[c] EXCEPT !.tab = None]
    BY <2>3, ActiveCall, LeaveFields DEF Move, GoesOn, Checked, TypeInv
  <2> QED
    BY <1>1, <2>1, <2>2, <2>3
<1>3. issued' = issued /\ row' = row /\ users' = users /\ expired' = expired
  BY DEF LoadPage, UnchangedTables
<1>4. /\ call' \in [Calls -> {Idle} \cup ActiveState]
      /\ \A c \in Calls : CallOK(call[c])'
  <2> HIDE DEF f
  <2>1. call' = [c \in Calls |-> f[c]]
    BY <1>1 DEF f
  <2> QED
    BY <1>2, <1>3, <2>1, CallsOK
<1>5. Revoking
  BY <1>3 DEF Revoking, TypeInv, TypeOK
<1>6. held' \in [Tabs -> 0..issued] /\ stored' \in 0..issued /\ mishap' \in BOOLEAN
  BY DEF LoadPage, TypeInv, TypeOK
<1> QED
  BY <1>2, <1>3, <1>4, <1>5, <1>6 DEF StepOK, Summary, TypeInv, TypeOK

\* Time, the operator, and steps that change nothing.
LEMMA OutsideOK ==
  ASSUME TypeInv, Expire \/ (\E e \in Emails : Deactivate(e)) \/ UNCHANGED vars
  PROVE  StepOK
<1>1. issued' = issued /\ row' = row /\ call' = call /\ UnchangedClient
  BY DEF Expire, Deactivate, vars, UnchangedClient
<1>2. users' \in [Emails -> Account]
  BY DEF Expire, Deactivate, vars, TypeInv, TypeOK, Account
<1>3. expired' \in 0..issued
  BY ConstantsAssumption DEF Expire, Deactivate, vars, TypeInv, TypeOK, TokenOrNone
<1>4. Revoking
  BY <1>1 DEF Revoking, TypeInv, TypeOK
<1>5. \A c \in Calls : Move(call[c], call'[c])
  BY <1>1, MoveIsReflexive
<1> QED
  BY <1>1, <1>2, <1>3, <1>4, <1>5, ClientKept DEF StepOK, Summary, TypeInv, TypeOK, CallOK

LEMMA EveryStep == TypeInv /\ [Next]_vars => StepOK
  BY ReadsOK, CreateUserOK, RevokesOK, CreateTokenOK, ClientBeginsOK, ClientEndsOK, LoadPageOK,
     OutsideOK
  DEF Next, Server, Client

LEMMA TypeInit == Init => TypeInv
<1> SUFFICES ASSUME Init PROVE TypeInv
  OBVIOUS
<1>1. 0 \in TokenOrNone /\ 0 \in 0..0
  BY ConstantsAssumption DEF TokenOrNone
<1>2. NoRow \in Row
  BY <1>1 DEF NoRow, Row
<1> QED
  BY <1>1, <1>2, IdleFields DEF Init, TypeInv, TypeOK, CallOK, Account

LEMMA TypeInvCorrect == Spec => []TypeInv
<1>1. TypeInv /\ [Next]_vars => TypeInv'
  BY EveryStep DEF StepOK
<1> QED
  BY <1>1, TypeInit, PTL DEF Spec

\* The tables, the tokens of the tabs and the calls keep their shape, and every
\* token a tab or a call has was issued (createToken, setSession).
THEOREM TypeCorrect == Spec => []TypeOK
<1>1. TypeInv => TypeOK
  BY DEF TypeInv
<1> QED
  BY <1>1, TypeInvCorrect, PTL

-----------------------------------------------------------------------------
(* The rows.                                                                *)

\* Rows are inserted one after the other; the parent of a row is an earlier
\* one of the same family, and revoked.
RowsOK ==
  /\ \A t \in 1..issued :
       /\ row[t].family \in 1..t /\ row[t].parent \in 0..(t - 1)
       /\ row[t].parent = 0 => row[t].family = t
       /\ row[t].parent # 0 => /\ row[row[t].parent].family = row[t].family
                              /\ row[row[t].parent].revoked
  /\ \A c \in Calls : At(c, "mint") /\ call[c].tok # 0 => row[call[c].tok].revoked

LEMMA Issued ==
  ASSUME TypeInv
  PROVE  /\ issued \in Nat /\ issued <= MaxTokens
         /\ \A t \in 1..issued : t \in Tokens /\ row[t] \in Row
  BY ConstantsAssumption DEF TypeInv, TypeOK, TokenOrNone, Tokens

\* What Revoking leaves of the rows.
LEMMA RevokingRows ==
  ASSUME TypeInv, Revoking
  PROVE  \A t \in Tokens :
           /\ row'[t].user = row[t].user
           /\ row'[t].family = row[t].family /\ row'[t].parent = row[t].parent
           /\ row[t].revoked => row'[t].revoked
<1>1. \A t \in Tokens : row[t] \in Row
  BY DEF TypeInv, TypeOK
<1> QED
  BY <1>1 DEF Revoking, Row

\* What Creating leaves of the rows, and the row it adds.
LEMMA CreatingRows ==
  ASSUME TypeInv, NEW t, NEW e, issued < MaxTokens, issued' = issued + 1,
         row' = [row EXCEPT ![issued + 1] = NewRow(t, e)]
  PROVE  /\ \A u \in 1..issued : row'[u] = row[u]
         /\ row'[issued + 1].family = IF t = 0 THEN issued + 1 ELSE row[t].family
         /\ row'[issued + 1].parent = t
         /\ ~row'[issued + 1].revoked
<1>1. issued + 1 \in Tokens /\ \A u \in 1..issued : u \in Tokens /\ u # issued + 1
  BY Issued, ConstantsAssumption DEF Tokens
<1> QED
  BY <1>1 DEF TypeInv, TypeOK, NewRow, NoRow

\* A call that is about to create a successor already was, or comes from a
\* login, or has just spent its token.
LEMMA Minted ==
  ASSUME TypeInv, NEW c \in Calls, Move(call[c], call'[c]), At(c, "mint")'
  PROVE  /\ call'[c].tok = call[c].tok /\ call[c].tok \in 0..issued
         /\ At(c, "mint") \/ call[c].tok = 0 \/ row'[call[c].tok].revoked
<1>1. GoesOn(call[c], call'[c]) /\ Checked(call[c], call'[c])
  BY IdleFields DEF Move, Begins, At
<1>2. call[c].tok \in 0..issued /\ (call[c].pc \in {"create", "load"} => call[c].tok = 0)
  BY <1>1, ActiveFields DEF GoesOn, TypeInv, CallOK
<1> QED
  BY <1>1, <1>2 DEF GoesOn, Checked, At

LEMMA RowsStep == TypeInv /\ RowsOK /\ [Next]_vars => RowsOK'
<1> SUFFICES ASSUME TypeInv, RowsOK, [Next]_vars PROVE RowsOK'
  OBVIOUS
<1>1. Summary
  BY EveryStep DEF StepOK
<1>2. CASE Revoking
  <2>1. issued' = issued
    BY <1>2 DEF Revoking
  <2>2. ASSUME NEW t \in 1..issued
        PROVE  /\ row'[t].family \in 1..t /\ row'[t].parent \in 0..(t - 1)
               /\ row'[t].parent = 0 => row'[t].family = t
               /\ row'[t].parent # 0 => /\ row'[row'[t].parent].family = row'[t].family
                                       /\ row'[row'[t].parent].revoked
    <3>1. row[t].parent \in 0..(t - 1) /\ issued \in Nat
      BY Issued DEF RowsOK
    <3>2. row[t].parent # 0 => row[t].parent \in 1..issued
      BY <3>1
    <3> QED
      BY <1>2, <3>2, Issued, RevokingRows DEF RowsOK
  <2>3. ASSUME NEW c \in Calls, At(c, "mint")', call'[c].tok # 0
        PROVE  row'[call'[c].tok].revoked
    <3>1. /\ call'[c].tok = call[c].tok /\ call[c].tok \in 1..issued
          /\ At(c, "mint") \/ row'[call[c].tok].revoked
      BY <1>1, <2>3, Minted, Issued DEF Summary
    <3> QED
      BY <1>2, <2>3, <3>1, Issued, RevokingRows DEF RowsOK
  <2> QED
    BY <2>1, <2>2, <2>3 DEF RowsOK
<1>3. CASE Creating
  <2>1. PICK c \in Calls :
          /\ At(c, "mint") /\ issued < MaxTokens /\ issued' = issued + 1
          /\ row' = [row EXCEPT ![issued + 1] = NewRow(call[c].tok, call[c].email)]
          /\ ~At(c, "mint")' /\ \A d \in Calls \ {c} : call'[d] = call[d]
    BY <1>3 DEF Creating
  <2> DEFINE n == issued + 1
             t == call[c].tok
  <2>2. t \in 0..issued /\ issued \in Nat
    BY <2>1, Issued DEF TypeInv, CallOK, At
  <2>3. /\ \A u \in 1..issued : row'[u] = row[u]
        /\ row'[n].family = IF t = 0 THEN n ELSE row[t].family
        /\ row'[n].parent = t
    BY <2>1, CreatingRows
  <2>4. t # 0 => row[t].revoked /\ row[t].family \in 1..t
    BY <2>1, <2>2 DEF RowsOK
  <2>5. ASSUME NEW u \in 1..n
        PROVE  /\ row'[u].family \in 1..u /\ row'[u].parent \in 0..(u - 1)
               /\ row'[u].parent = 0 => row'[u].family = u
               /\ row'[u].parent # 0 => /\ row'[row'[u].parent].family = row'[u].family
                                       /\ row'[row'[u].parent].revoked
    <3>1. CASE u = n
      BY <2>2, <2>3, <2>4, <3>1
    <3>2. CASE u # n
      <4>1. u \in 1..issued /\ row[u].parent \in 0..(u - 1)
        BY <2>2, <3>2 DEF RowsOK
      <4>2. row[u].parent # 0 => row[u].parent \in 1..issued
        BY <2>2, <4>1
      <4> QED
        BY <2>3, <4>1, <4>2 DEF RowsOK
    <3> QED
      BY <3>1, <3>2
  <2>6. ASSUME NEW d \in Calls, At(d, "mint")', call'[d].tok # 0
        PROVE  row'[call'[d].tok].revoked
    <3>1. d # c /\ call'[d] = call[d] /\ At(d, "mint")
      BY <2>1, <2>6 DEF At
    <3>2. call[d].tok \in 1..issued
      BY <2>6, <3>1, <2>2 DEF TypeInv, CallOK, At
    <3> QED
      BY <2>3, <2>6, <3>1, <3>2 DEF RowsOK
  <2> QED
    BY <2>1, <2>5, <2>6 DEF RowsOK
<1> QED
  BY <1>1, <1>2, <1>3 DEF Summary

LEMMA RowsInit == Init => RowsOK
  BY IdleFields DEF Init, RowsOK, At

LEMMA RowsCorrect == Spec => []RowsOK
  BY TypeInvCorrect, RowsInit, RowsStep, PTL DEF Spec

\* Closed is kept by every step.
LEMMA ClosedStep ==
  ASSUME TypeInv, [Next]_vars, NEW f \in Tokens, Closed(f)
  PROVE  Closed(f)'
<1>1. Summary
  BY EveryStep DEF StepOK
<1>2. f \in 1..issued /\ row[f].family = f /\ issued \in Nat
  BY Issued DEF Closed, Family
<1>3. \A t \in 1..issued : row[t].family = f => row[t].revoked
  BY DEF Closed, Live, Family
<1>4. \A t \in 1..issued, c \in Calls :
        row[t].family = f /\ call[c].tok = t => call[c].pc \notin {"spend", "mint"}
  BY DEF Closed, Rotating, Family
\* The family has the same tokens, all of them revoked.
<1>5. /\ f \in 1..issued' /\ row'[f].family = f
      /\ \A t \in 1..issued' : row'[t].family = f =>
           t \in 1..issued /\ row[t].family = f /\ row'[t].revoked
  <2>1. CASE Revoking
    BY <1>2, <1>3, <2>1, Issued, RevokingRows DEF Revoking
  <2>2. CASE Creating
    <3>1. PICK c \in Calls :
            /\ At(c, "mint") /\ issued < MaxTokens /\ issued' = issued + 1
            /\ row' = [row EXCEPT ![issued + 1] = NewRow(call[c].tok, call[c].email)]
      BY <2>2 DEF Creating
    <3>2. call[c].tok \in 0..issued
      BY <3>1 DEF TypeInv, CallOK, At
    <3>3. row'[issued + 1].family # f
      <4>1. row'[issued + 1].family = IF call[c].tok = 0 THEN issued + 1 ELSE row[call[c].tok].family
        BY <3>1, CreatingRows
      <4>2. call[c].pc = "mint"
        BY <3>1 DEF At
      <4> QED
        BY <1>2, <1>4, <3>2, <4>1, <4>2
    <3> QED
      BY <1>2, <1>3, <3>1, <3>3, CreatingRows
  <2> QED
    BY <1>1, <2>1, <2>2 DEF Summary
\* No call begins to rotate one of them, since it would have to be active.
<1>6. ASSUME NEW t \in 1..issued', row'[t].family = f, NEW c \in Calls, call'[c].tok = t
      PROVE  call'[c].pc \notin {"spend", "mint"}
  <2>1. t \in 1..issued /\ row[t].family = f /\ row[t].revoked
    BY <1>3, <1>5, <1>6
  <2>2. SUFFICES ASSUME call'[c].pc \in {"spend", "mint"} PROVE FALSE
    OBVIOUS
  <2>3. GoesOn(call[c], call'[c]) /\ Checked(call[c], call'[c])
    BY <1>1, <2>2, IdleFields DEF Summary, Move, Begins
  <2>4. call[c].tok = t /\ call[c].pc \notin {"spend", "mint"}
    BY <1>4, <1>6, <2>1, <2>3 DEF GoesOn
  <2>5. t # 0 /\ call[c].pc \notin {"create", "load"}
    BY <2>1, <2>3, <2>4, <1>2, ActiveFields DEF GoesOn, TypeInv, CallOK
  <2>6. call'[c].pc = "spend"
    BY <2>2, <2>3, <2>4, <2>5 DEF GoesOn, Follows, ClientStep
  <2> QED
    BY <2>1, <2>3, <2>4, <2>6 DEF Checked
<1> QED
  BY <1>5, <1>6 DEF Closed, Family, Live, Rotating

\* After logout, or once a token that came back has revoked its family, and with
\* no refresh past the check of rotate, no token of the session is ever accepted
\* again (rotate, createToken, revoke, revokeFamily).
THEOREM ClosedStaysClosedCorrect == Spec => ClosedStaysClosed
<1>1. TypeInv /\ [Next]_vars => [\A f \in Tokens : Closed(f) => Closed(f)']_vars
  BY ClosedStep
<1> QED
  BY <1>1, TypeInvCorrect, PTL DEF Spec, ClosedStaysClosed

-----------------------------------------------------------------------------
(* One live token.                                                          *)

\* Two tokens of the family were rotated from the same one.
Siblings(f) ==
  \E m, n \in 1..issued :
    m # n /\ row[m].family = f /\ row[m].parent # 0 /\ row[n].parent = row[m].parent

\* A family without siblings is a chain: only its last token has no successor.
ChainOK ==
  \A f \in 1..issued : ~Siblings(f) =>
    \A t, u \in Family(f) : t < u => Successors(t) # {}

LEMMA ChainStep == TypeInv /\ RowsOK /\ ChainOK /\ [Next]_vars => ChainOK'
<1> SUFFICES ASSUME TypeInv, RowsOK, ChainOK, [Next]_vars,
                    NEW f \in 1..issued', ~Siblings(f)',
                    NEW a \in 1..issued', NEW b \in 1..issued',
                    row'[a].family = f, row'[b].family = f, a < b
             PROVE  \E m \in 1..issued' : row'[m].parent = a
  BY DEF ChainOK, Family, Successors
<1>0. issued \in Nat
  BY Issued
<1>1. Revoking \/ Creating
  BY EveryStep DEF StepOK, Summary
<1>2. CASE Revoking
  <2>1. issued' = issued /\ \A t \in 1..issued : row'[t].family = row[t].family /\ row'[t].parent = row[t].parent
    BY <1>2, Issued, RevokingRows DEF Revoking
  <2>2. ~Siblings(f)
    BY <2>1 DEF Siblings
  <2> QED
    BY <2>1, <2>2 DEF ChainOK, Family, Successors
<1>3. CASE Creating
  <2>1. PICK c \in Calls :
          /\ At(c, "mint") /\ issued < MaxTokens /\ issued' = issued + 1
          /\ row' = [row EXCEPT ![issued + 1] = NewRow(call[c].tok, call[c].email)]
    BY <1>3 DEF Creating
  <2> DEFINE n == issued + 1
             t == call[c].tok
  <2>2. t \in 0..issued
    BY <2>1 DEF TypeInv, CallOK, At
  <2>3. /\ \A u \in 1..issued : row'[u] = row[u]
        /\ row'[n].family = IF t = 0 THEN n ELSE row[t].family
        /\ row'[n].parent = t
    BY <2>1, CreatingRows
  <2>4. \A u \in 1..issued : row[u].family \in 1..u
    BY DEF RowsOK
  \* The family of the new row alone is new.
  <2>5. a \in 1..issued /\ f \in 1..issued /\ row[a].family = f
    <3>1. a \in 1..issued
      BY <1>0, <2>1
    <3> QED
      BY <1>0, <2>3, <2>4, <3>1
  <2>6. ~Siblings(f)
    <3>1. \A m, k \in 1..issued : row[m].family = f /\ row[m].parent # 0 /\ row[k].parent = row[m].parent => m = k
      <4>1. \A m \in 1..issued : m \in 1..issued'
        BY <1>0, <2>1
      <4> QED
        BY <2>3, <4>1 DEF Siblings
    <3> QED
      BY <3>1 DEF Siblings
  <2>7. \A u, v \in 1..issued : row[u].family = f /\ row[v].family = f /\ u < v =>
          \E m \in 1..issued : row[m].parent = u
    BY <2>5, <2>6 DEF ChainOK, Family, Successors
  <2>8. CASE b # n
    <3>1. b \in 1..issued /\ row[b].family = f
      BY <1>0, <2>1, <2>3, <2>8
    <3>2. PICK m \in 1..issued : row[m].parent = a
      BY <2>5, <2>7, <3>1
    <3> QED
      BY <1>0, <2>1, <2>3, <3>2
  <2>9. CASE b = n
    <3>1. t \in 1..issued /\ row[t].family = f
      BY <1>0, <2>2, <2>3, <2>5, <2>9
    <3>2. CASE a = t
      BY <1>0, <2>1, <2>3, <3>2
    <3>3. CASE a < t
      <4>1. PICK m \in 1..issued : row[m].parent = a
        BY <2>5, <2>7, <3>1, <3>3
      <4> QED
        BY <1>0, <2>1, <2>3, <4>1
    <3>4. CASE t < a
      <4>1. PICK m \in 1..issued : row[m].parent = t
        BY <2>5, <2>7, <3>1, <3>4
      <4>2. row[m].family = f
        BY <3>1, <4>1 DEF RowsOK
      <4>3. m \in 1..issued' /\ n \in 1..issued' /\ m # n
        BY <1>0, <2>1
      <4>4. row'[m].family = f /\ row'[m].parent = t /\ row'[n].parent = t
        BY <2>3, <4>1, <4>2
      <4> QED
        BY <3>1, <4>3, <4>4 DEF Siblings
    <3> QED
      BY <1>0, <2>5, <3>1, <3>2, <3>3, <3>4
  <2> QED
    BY <2>8, <2>9
<1> QED
  BY <1>1, <1>2, <1>3

LEMMA ChainCorrect == Spec => []ChainOK
<1>1. Init => ChainOK
  BY DEF Init, ChainOK
<1> QED
  BY <1>1, TypeInvCorrect, RowsCorrect, ChainStep, PTL DEF Spec

\* A finite set whose elements are all equal has at most one.
LEMMA AtMostOne ==
  ASSUME NEW S, IsFiniteSet(S), \A x, y \in S : x = y
  PROVE  Cardinality(S) \in 0..1 /\ (Cardinality(S) = 0 => S = {})
<1>1. CASE S = {}
  BY <1>1, FS_EmptySet
<1>2. CASE S # {}
  <2>1. PICK x \in S : S = {x}
    BY <1>2
  <2> QED
    BY <2>1, FS_Singleton
<1> QED
  BY <1>1, <1>2

\* One with two elements has at least two.
LEMMA AtLeastTwo ==
  ASSUME NEW S, IsFiniteSet(S), NEW x \in S, NEW y \in S, x # y
  PROVE  Cardinality(S) \in Nat /\ Cardinality(S) > 1
<1>1. IsFiniteSet({x}) /\ Cardinality({x}) = 1
  BY FS_Singleton
<1>2. Cardinality({x} \cup {y}) = 2 /\ IsFiniteSet({x} \cup {y})
  BY <1>1, FS_AddElement
<1>3. {x} \cup {y} \subseteq S
  OBVIOUS
<1> QED
  BY <1>2, <1>3, FS_Subset, FS_CardinalityType

LEMMA FiniteSets ==
  ASSUME TypeInv
  PROVE  \A t : /\ IsFiniteSet(Successors(t)) /\ Cardinality(Successors(t)) \in Nat
               /\ IsFiniteSet(Rotating(t)) /\ Cardinality(Rotating(t)) \in Nat
               /\ IsFiniteSet(Live(t)) /\ IsFiniteSet(Minting(t))
<1>1. IsFiniteSet(1..issued)
  BY Issued, FS_Interval
<1>2. IsFiniteSet(Calls)
  BY ConstantsAssumption
<1>3. \A t : Successors(t) \subseteq 1..issued /\ Live(t) \subseteq 1..issued
  BY DEF Successors, Live, Family
<1>4. \A t : Rotating(t) \subseteq Calls /\ Minting(t) \subseteq Calls
  BY DEF Rotating, Minting
<1> QED
  BY <1>1, <1>2, <1>3, <1>4, FS_Subset, FS_CardinalityType

\* In a family that is not forked all live tokens, and all tokens of calls about
\* to create a successor, are the last of the chain.
LEMMA OneLiveTokenOfChain ==
  ASSUME TypeInv, RowsOK, ChainOK, NEW f \in 1..issued, ~Forked(f)
  PROVE  Cardinality(Live(f)) + Cardinality(Minting(f)) <= 1
<1>0. issued \in Nat
  BY Issued
<1>1. \A t \in Family(f) :
        /\ \A m, n \in Successors(t) : m = n
        /\ \A c, d \in Rotating(t) : c = d
        /\ Rotating(t) # {} => Successors(t) = {}
  <2> SUFFICES ASSUME NEW t \in Family(f)
               PROVE  /\ \A m, n \in Successors(t) : m = n
                      /\ \A c, d \in Rotating(t) : c = d
                      /\ Rotating(t) # {} => Successors(t) = {}
    OBVIOUS
  <2>1. /\ IsFiniteSet(Successors(t)) /\ Cardinality(Successors(t)) \in Nat
        /\ IsFiniteSet(Rotating(t)) /\ Cardinality(Rotating(t)) \in Nat
    BY FiniteSets
  <2>2. Cardinality(Successors(t)) + Cardinality(Rotating(t)) <= 1
    BY <2>1 DEF Forked
  <2>3. \A m, n \in Successors(t) : m = n
    <3>1. Cardinality(Successors(t)) <= 1
      BY <2>1, <2>2
    <3> QED
      BY <2>1, <3>1, AtLeastTwo
  <2>4. \A c, d \in Rotating(t) : c = d
    <3>1. Cardinality(Rotating(t)) <= 1
      BY <2>1, <2>2
    <3> QED
      BY <2>1, <3>1, AtLeastTwo
  <2>5. Rotating(t) # {} => Successors(t) = {}
    BY <2>1, <2>2, <2>3, <2>4, AtMostOne
  <2> QED
    BY <2>3, <2>4, <2>5
<1>2. ~Siblings(f)
  <2> SUFFICES ASSUME NEW m \in 1..issued, NEW n \in 1..issued, m # n, row[m].family = f,
                      row[m].parent # 0, row[n].parent = row[m].parent
               PROVE  FALSE
    BY DEF Siblings
  <2>1. row[m].parent \in Family(f)
    BY <1>0 DEF RowsOK, Family
  <2>2. m \in Successors(row[m].parent) /\ n \in Successors(row[m].parent)
    BY DEF Successors
  <2> QED
    BY <1>1, <2>1, <2>2
\* The last token of the family is the only one without a successor.
<1>3. \A t, u \in Family(f) : Successors(t) = {} /\ Successors(u) = {} => t = u
  <2>1. \A t, u \in Family(f) : t < u => Successors(t) # {}
    BY <1>2 DEF ChainOK
  <2>2. \A t \in Family(f) : t \in Nat
    BY DEF Family
  <2>3. \A t, u \in Family(f) : t < u \/ u < t \/ t = u
    BY <2>2
  <2> QED
    BY <2>1, <2>3
<1>4. \A t \in Live(f) : t \in Family(f) /\ Successors(t) = {} /\ ~row[t].revoked
  <2>1. \A n \in 1..issued : row[n].parent # 0 => row[row[n].parent].revoked
    BY DEF RowsOK
  <2> QED
    BY <2>1 DEF Live, Successors, Family
<1>5. \A c \in Minting(f) :
        LET t == call[c].tok IN
        t \in Family(f) /\ c \in Rotating(t) /\ Successors(t) = {} /\ row[t].revoked
  <2> SUFFICES ASSUME NEW c \in Minting(f)
               PROVE  LET t == call[c].tok IN
                      t \in Family(f) /\ c \in Rotating(t) /\ Successors(t) = {} /\ row[t].revoked
    OBVIOUS
  <2>1. c \in Calls /\ At(c, "mint") /\ call[c].tok \in Family(f) /\ call[c].tok # 0
    BY <1>0 DEF Minting, Family
  <2>2. c \in Rotating(call[c].tok)
    BY <2>1 DEF Rotating, At
  <2> QED
    BY <1>1, <2>1, <2>2 DEF RowsOK
<1>6. /\ Cardinality(Live(f)) \in 0..1 /\ (Cardinality(Live(f)) = 0 => Live(f) = {})
      /\ Cardinality(Minting(f)) \in 0..1 /\ (Cardinality(Minting(f)) = 0 => Minting(f) = {})
  <2>1. \A t, u \in Live(f) : t = u
    BY <1>3, <1>4
  <2>2. \A c, d \in Minting(f) : c = d
    BY <1>1, <1>3, <1>5
  <2> QED
    BY <2>1, <2>2, FiniteSets, AtMostOne
<1>7. Live(f) = {} \/ Minting(f) = {}
  BY <1>3, <1>4, <1>5
<1>8. Cardinality({}) = 0
  BY FS_EmptySet
<1> QED
  BY <1>6, <1>7, <1>8

\* Whatever overlaps, crashes or is lost, a session whose tokens were not rotated
\* twice at once has one live token, or none while its successor is being
\* created (rotate, createToken).
THEOREM OneLiveTokenCorrect == Spec => []OneLiveToken
<1>1. TypeInv /\ RowsOK /\ ChainOK => OneLiveToken
  BY OneLiveTokenOfChain DEF OneLiveToken
<1> QED
  BY <1>1, TypeInvCorrect, RowsCorrect, ChainCorrect, PTL

-----------------------------------------------------------------------------
(* A tab keeps its session.                                                 *)

\* The call is a refresh that has not been answered.
Refreshes(q) == q.pc \in (ServerStep \cup ClientStep) \ {"retry"} /\ q.op = "refresh"

\* The call has created a token that no tab has yet.
Offers(q) == q.pc \in {"user", "answer"}

\* The steps each kind of call takes.  What it creates is a token of the session
\* it refreshes, or the first of a session.
Shape(q, r, n) ==
  q.pc # "idle" =>
    /\ q.op \in {"signup", "login"} =>
         q.tok = 0 /\ q.pc \in {"exists", "create", "load", "mint", "answer", "reject"}
    /\ q.op = "refresh" =>
         q.tok \in 1..n /\ q.pc \in {"find", "family", "spend", "mint", "user"} \cup ClientStep
    /\ q.op = "logout" => q.tok \in 1..n /\ q.pc = "revoke" /\ q.tab = None
    /\ q.pc \in ClientStep => q.tab # None
    /\ Offers(q) => /\ q.new \in 1..n /\ q.tok < q.new
                    /\ r[q.new].family = IF q.tok = 0 THEN q.new ELSE r[q.tok].family

ShapeInv == \A c \in Calls : Shape(call[c], row, issued)

\* The call will bring its tab a token of session f.
Of(q, f, r) ==
  \/ Refreshes(q) /\ r[q.tok].family = f
  \/ q.pc = "answer" /\ q.tok = 0 /\ q.new = f

\* What is in localStorage is the token of some tab.
StoredIsHeld == stored # 0 => \E b \in Tabs : held[b] = stored

\* A session is one tab's.
OneTab ==
  \A a, b \in Tabs :
    held[a] # 0 /\ held[b] # 0 /\ row[held[a]].family = row[held[b]].family => a = b

\* While a tab has a token, only its own refresh of that token is about the session.
OwnRefresh ==
  \A c \in Calls, b \in Tabs :
    held[b] # 0 /\ Of(call[c], row[held[b]].family, row) =>
      held[b] = call[c].tok /\ call[c].tab = b

OneRefresh ==
  \A c, d \in Calls, f \in 1..issued : Of(call[c], f, row) /\ Of(call[d], f, row) => c = d

OffersLive == \A c \in Calls : Offers(call[c]) => ~row[call[c].new].revoked

\* A token that is being logged out is no tab's any more.
LogoutLeft ==
  \A d \in Calls : At(d, "revoke") =>
    /\ \A b \in Tabs : held[b] # call[d].tok
    /\ \A c \in Calls : Offers(call[c]) => call[c].new # call[d].tok

KeepsItsSession == \A b \in Tabs : held[b] # 0 /\ row[held[b]].revoked => Using(b, held[b]) # {}

TabInv ==
  /\ StoredIsHeld /\ OneTab /\ OwnRefresh /\ OneRefresh /\ OffersLive /\ LogoutLeft
  /\ KeepsItsSession

\* A new step of the call makes it no refresh, no offer and no logout.
Quiet(q, p) ==
  /\ Refreshes(p) => Refreshes(q) /\ p.tok = q.tok
  /\ Offers(p) => Offers(q) /\ p.tok = q.tok /\ p.new = q.new
  /\ p.pc = "revoke" => q.pc = "revoke" /\ p.tok = q.tok

\* A row is revoked by a refresh of its session or by a logout with its token.
RevokedInTurn ==
  \A t \in 1..issued : ~row[t].revoked /\ row'[t].revoked =>
    \E d \in Calls :
      \/ Refreshes(call[d]) /\ ~Offers(call[d]) /\ row[call[d].tok].family = row[t].family
      \/ At(d, "revoke") /\ call[d].tok = t

\* The sessions of the tokens stay as they are.
SessionsKept == issued' = issued /\ \A t \in 1..issued : row'[t].family = row[t].family

LEMMA UsingFields ==
  ASSUME TypeInv, NEW b, NEW t
  PROVE  Using(b, t) = {c \in Calls : Refreshes(call[c]) /\ call[c].tab = b /\ call[c].tok = t}
<1>1. \A c \in Calls : Active(c) /\ ~At(c, "retry") /\ call[c].op = "refresh" <=> Refreshes(call[c])
  <2> SUFFICES ASSUME NEW c \in Calls
               PROVE  Active(c) /\ ~At(c, "retry") /\ call[c].op = "refresh" <=> Refreshes(call[c])
    OBVIOUS
  <2>1. Active(c) => call[c].pc \in ServerStep \cup ClientStep
    BY ActiveCall, ActiveFields DEF TypeInv
  <2> QED
    BY <2>1 DEF Active, At, Refreshes, ServerStep, ClientStep
<1> QED
  BY <1>1 DEF Using

\* The families and tokens that TabInv speaks of have been issued.
LEMMA TabFacts ==
  ASSUME TypeInv, RowsOK, ShapeInv
  PROVE  /\ issued \in Nat
         /\ \A t \in 1..issued : row[t].family \in 1..issued
         /\ \A b \in Tabs : held[b] \in 0..issued
         /\ \A c \in Calls : Refreshes(call[c]) => call[c].tok \in 1..issued
         /\ \A c \in Calls : Offers(call[c]) =>
              /\ call[c].new \in 1..issued /\ call[c].tok \in 0..issued /\ call[c].tok < call[c].new
              /\ Of(call[c], row[call[c].new].family, row)
<1>1. issued \in Nat /\ \A b \in Tabs : held[b] \in 0..issued
  BY Issued DEF TypeInv, TypeOK
<1>2. \A t \in 1..issued : row[t].family \in 1..issued
  <2>1. \A t \in 1..issued : row[t].family \in 1..t
    BY DEF RowsOK
  <2> QED
    BY <1>1, <2>1
<1>3. \A c \in Calls : Refreshes(call[c]) => call[c].tok \in 1..issued
  BY DEF ShapeInv, Shape, Refreshes, ServerStep, ClientStep
<1>4. ASSUME NEW c \in Calls, Offers(call[c])
      PROVE  /\ call[c].new \in 1..issued /\ call[c].tok \in 0..issued /\ call[c].tok < call[c].new
             /\ Of(call[c], row[call[c].new].family, row)
  <2>1. call[c] \in ActiveState
    BY <1>4, ActiveCall DEF TypeInv, Active, Offers
  <2>2. call[c].tok \in 0..issued
    BY <1>4 DEF TypeInv, CallOK, Offers
  <2>3. /\ call[c].new \in 1..issued /\ call[c].tok < call[c].new
        /\ row[call[c].new].family = IF call[c].tok = 0 THEN call[c].new ELSE row[call[c].tok].family
    BY <1>4 DEF ShapeInv, Shape, Offers
  <2>4. CASE call[c].op = "refresh"
    <3>1. call[c].tok # 0
      BY <1>1, <1>4, <2>4 DEF ShapeInv, Shape, Offers
    <3> QED
      BY <1>4, <2>2, <2>3, <2>4, <3>1 DEF Of, Refreshes, Offers, ServerStep, ClientStep
  <2>5. CASE call[c].op # "refresh"
    <3>1. call[c].tok = 0 /\ call[c].pc = "answer"
      BY <1>4, <2>1, <2>5, ActiveFields DEF ShapeInv, Shape, Offers
    <3> QED
      BY <2>2, <2>3, <3>1 DEF Of
  <2> QED
    BY <2>4, <2>5
<1> QED
  BY <1>1, <1>2, <1>3, <1>4

\* A token on offer is no tab's, and no other call is about it.
LEMMA OfferIsNew ==
  ASSUME TypeInv, RowsOK, ShapeInv, TabInv, NEW c \in Calls, Offers(call[c])
  PROVE  /\ \A b \in Tabs : held[b] # call[c].new
         /\ \A b \in Tabs : held[b] # 0 /\ row[held[b]].family = row[call[c].new].family =>
              call[c].tab = b
         /\ \A d \in Calls : Of(call[d], row[call[c].new].family, row) => d = c
<1>1. /\ issued \in Nat /\ call[c].new \in 1..issued /\ call[c].tok \in 0..issued
      /\ call[c].tok < call[c].new
      /\ Of(call[c], row[call[c].new].family, row) /\ row[call[c].new].family \in 1..issued
  BY TabFacts
<1>2. \A b \in Tabs : held[b] # call[c].new
  <2> SUFFICES ASSUME NEW b \in Tabs, held[b] = call[c].new PROVE FALSE
    OBVIOUS
  <2>1. held[b] = call[c].tok
    BY <1>1 DEF TabInv, OwnRefresh
  <2> QED
    BY <1>1, <2>1
<1> QED
  BY <1>1, <1>2 DEF TabInv, OwnRefresh, OneRefresh

\* A step in which no call becomes one of a session, and each tab that keeps a
\* token keeps its refresh of it.
LEMMA QuietStep ==
  ASSUME TypeInv, RowsOK, ShapeInv, TabInv, TypeInv', SessionsKept, RevokedInTurn,
         \A c \in Calls : Quiet(call[c], call'[c]),
         \A b \in Tabs : held'[b] \in {0, held[b]},
         StoredIsHeld',
         \A b \in Tabs, c \in Calls :
           held'[b] # 0 /\ Refreshes(call[c]) /\ call[c].tab = b /\ call[c].tok = held[b] =>
             Refreshes(call'[c]) /\ call'[c].tab = b /\ call'[c].tok = held[b]
  PROVE  TabInv'
<1>0. issued' = issued /\ issued \in Nat
  BY TabFacts DEF SessionsKept
<1>1. \A b \in Tabs : held'[b] # 0 =>
        /\ held'[b] = held[b] /\ held[b] \in 1..issued
        /\ row'[held[b]].family = row[held[b]].family /\ row[held[b]].family \in 1..issued
  BY TabFacts DEF SessionsKept
<1>2. ASSUME NEW c \in Calls, NEW f, Of(call'[c], f, row')
      PROVE  Of(call[c], f, row) /\ call'[c].tok = call[c].tok
  <2>1. CASE Refreshes(call'[c]) /\ row'[call'[c].tok].family = f
    <3>1. Refreshes(call[c]) /\ call'[c].tok = call[c].tok
      BY <2>1 DEF Quiet
    <3>2. call[c].tok \in 1..issued
      BY <3>1, TabFacts
    <3> QED
      BY <2>1, <3>1, <3>2 DEF Of, SessionsKept
  <2>2. CASE call'[c].pc = "answer" /\ call'[c].tok = 0 /\ call'[c].new = f
    <3>1. Offers(call[c]) /\ call[c].tok = 0 /\ call[c].new = f /\ call'[c].tok = call[c].tok
      BY <2>2 DEF Quiet, Offers
    <3>2. ~Refreshes(call[c])
      BY <1>0, <3>1, TabFacts
    <3>3. Of(call[c], row[call[c].new].family, row)
      BY <3>1, TabFacts
    <3> QED
      BY <3>1, <3>2, <3>3 DEF Of
  <2> QED
    BY <1>2, <2>1, <2>2 DEF Of
<1>3. OneTab'
  BY <1>1 DEF OneTab, TabInv
<1>4. OwnRefresh'
  <2> SUFFICES ASSUME NEW c \in Calls, NEW b \in Tabs, held'[b] # 0,
                      Of(call'[c], row'[held'[b]].family, row')
               PROVE  held'[b] = call'[c].tok /\ call'[c].tab = b
    BY DEF OwnRefresh
  <2>1. Of(call[c], row[held[b]].family, row) /\ call'[c].tok = call[c].tok
    BY <1>1, <1>2
  <2>2. held[b] = call[c].tok /\ call[c].tab = b
    BY <1>1, <2>1 DEF OwnRefresh, TabInv
  <2>3. Refreshes(call[c])
    BY <1>0, <1>1, <2>1, <2>2 DEF Of
  <2> QED
    BY <1>1, <2>2, <2>3
<1>5. OneRefresh'
  BY <1>0, <1>2 DEF OneRefresh, TabInv
<1>6. \A c \in Calls : Offers(call'[c]) =>
        Offers(call[c]) /\ call'[c].new = call[c].new /\ call[c].new \in 1..issued
  BY TabFacts DEF Quiet
<1>7. OffersLive'
  <2> SUFFICES ASSUME NEW c \in Calls, Offers(call'[c]), row'[call'[c].new].revoked
               PROVE  FALSE
    BY DEF OffersLive, Offers
  <2>1. Offers(call[c]) /\ call'[c].new = call[c].new /\ call[c].new \in 1..issued
    BY <1>6
  <2>2. ~row[call[c].new].revoked
    BY <2>1 DEF OffersLive, TabInv
  <2>3. PICK d \in Calls :
          \/ /\ Refreshes(call[d]) /\ ~Offers(call[d])
             /\ row[call[d].tok].family = row[call[c].new].family
          \/ At(d, "revoke") /\ call[d].tok = call[c].new
    BY <2>1, <2>2 DEF RevokedInTurn
  <2>4. CASE Refreshes(call[d]) /\ ~Offers(call[d]) /\ row[call[d].tok].family = row[call[c].new].family
    BY <2>1, <2>4, OfferIsNew DEF Of
  <2>5. CASE At(d, "revoke") /\ call[d].tok = call[c].new
    BY <2>1, <2>5 DEF LogoutLeft, TabInv
  <2> QED
    BY <2>3, <2>4, <2>5
<1>8. LogoutLeft'
  <2> SUFFICES ASSUME NEW d \in Calls, At(d, "revoke")'
               PROVE  /\ \A b \in Tabs : held'[b] # call'[d].tok
                      /\ \A c \in Calls : Offers(call'[c]) => call'[c].new # call'[d].tok
    BY DEF LogoutLeft, Offers
  <2>1. At(d, "revoke") /\ call'[d].tok = call[d].tok
    BY DEF Quiet, At
  <2>2. call[d].tok # 0
    BY <2>1, <1>0 DEF TypeInv, CallOK, At
  <2> QED
    BY <1>6, <2>1, <2>2 DEF LogoutLeft, TabInv
<1>9. KeepsItsSession'
  <2> SUFFICES ASSUME NEW b \in Tabs, held'[b] # 0, row'[held'[b]].revoked
               PROVE  \E c \in Calls : Refreshes(call[c]) /\ call[c].tab = b /\ call[c].tok = held[b]
    BY <1>1, UsingFields DEF KeepsItsSession, Using, Active, At, Refreshes, ServerStep, ClientStep
  <2>1. held'[b] = held[b] /\ held[b] \in 1..issued
    BY <1>1
  <2>2. CASE row[held[b]].revoked
    BY <1>0, <2>1, <2>2, UsingFields DEF KeepsItsSession, TabInv
  <2>3. CASE ~row[held[b]].revoked
    <3>1. PICK d \in Calls :
            \/ Refreshes(call[d]) /\ row[call[d].tok].family = row[held[b]].family
            \/ At(d, "revoke") /\ call[d].tok = held[b]
      BY <2>1, <2>3 DEF RevokedInTurn
    <3>2. CASE Refreshes(call[d]) /\ row[call[d].tok].family = row[held[b]].family
      BY <2>1, <3>2 DEF OwnRefresh, TabInv, Of
    <3>3. CASE At(d, "revoke") /\ call[d].tok = held[b]
      BY <3>3 DEF LogoutLeft, TabInv
    <3> QED
      BY <3>1, <3>2, <3>3
  <2> QED
    BY <2>2, <2>3
<1> QED
  BY <1>3, <1>4, <1>5, <1>7, <1>8, <1>9 DEF TabInv

\* Between the steps of the calls: what each step keeps.
TabsInv == ShapeInv /\ (~mishap => TabInv)

\* The calls keep their shape where one of them moves and no session changes.
LEMMA ShapeOne ==
  ASSUME TypeInv, RowsOK, ShapeInv, issued' \in {issued, issued + 1},
         \A t \in 1..issued : row'[t].family = row[t].family,
         NEW c \in Calls, NEW p, call' = [call EXCEPT ![c] = p], Shape(p, row', issued')
  PROVE  ShapeInv'
<1>1. issued \in Nat
  BY TabFacts
<1>2. \A d \in Calls : call'[d] = IF d = c THEN p ELSE call[d]
  BY DEF TypeInv, TypeOK
<1>3. ASSUME NEW d \in Calls PROVE Shape(call[d], row', issued')
  <2>1. Shape(call[d], row, issued)
    BY DEF ShapeInv
  <2>2. \A t \in 1..issued : t \in 1..issued'
    BY <1>1
  <2>3. Offers(call[d]) =>
          /\ call[d].new \in 1..issued /\ call[d].tok \in 0..issued
          /\ row'[call[d].new].family = row[call[d].new].family
          /\ call[d].tok # 0 => row'[call[d].tok].family = row[call[d].tok].family
    BY <1>1, TabFacts
  <2> QED
    BY <2>1, <2>2, <2>3 DEF Shape
<1>4. \A d \in Calls : Shape(call'[d], row', issued')
  BY <1>2, <1>3
<1> QED
  BY <1>4 DEF ShapeInv, Shape, Offers

\* A step of the server, or one of the client that changes no tab's token.
LEMMA QuietOne ==
  ASSUME TypeInv, RowsOK, TabsInv, TypeInv', SessionsKept, RevokedInTurn, UnchangedClient,
         NEW c \in Calls, NEW p, call' = [call EXCEPT ![c] = p],
         Quiet(call[c], p), Shape(p, row', issued'),
         Refreshes(call[c]) /\ call[c].tab # None =>
           Refreshes(p) /\ p.tab = call[c].tab /\ p.tok = call[c].tok
  PROVE  TabsInv'
<1>1. ShapeInv'
  BY ShapeOne DEF TabsInv, SessionsKept
<1>2. \A d \in Calls : call'[d] = IF d = c THEN p ELSE call[d]
  BY DEF TypeInv, TypeOK
<1>3. \A d \in Calls : Quiet(call[d], call'[d])
  <2>1. \A d \in Calls : Quiet(call[d], call[d])
    BY DEF Quiet
  <2> QED
    BY <1>2, <2>1
<1>4. held' = held /\ stored' = stored /\ mishap' = mishap
  BY DEF UnchangedClient
<1>5. ASSUME NEW b \in Tabs, NEW d \in Calls, Refreshes(call[d]), call[d].tab = b, call[d].tok = held[b]
      PROVE  Refreshes(call'[d]) /\ call'[d].tab = b /\ call'[d].tok = held[b]
  BY <1>2, <1>5, ConstantsAssumption
<1>6. TabInv => StoredIsHeld'
  BY <1>4 DEF TabInv, StoredIsHeld
<1>7. TabInv => TabInv'
  BY <1>3, <1>4, <1>5, <1>6, QuietStep DEF TabsInv
<1> QED
  BY <1>1, <1>4, <1>7 DEF TabsInv

\* The steps that keep what a call is about.
QuietSteps ==
  (Follows \ {<<"mint", "user">>}) \cup {<<"user", "answer">>} \cup {<<s, "reject">> : s \in ServerStep}

LEMMA GotoQuiet ==
  ASSUME TypeInv, RowsOK, TabsInv, TypeInv', SessionsKept, RevokedInTurn, UnchangedClient,
         NEW c \in Calls, Active(c), NEW pc, <<call[c].pc, pc>> \in QuietSteps,
         pc \in ClientStep => call[c].tab # None, Goto(c, pc)
  PROVE  TabsInv'
<1> DEFINE q == call[c]
           p == [call[c] EXCEPT !.pc = pc]
<1>1. q \in ActiveState /\ Shape(q, row, issued) /\ q.op \in {"signup", "login", "refresh", "logout"}
  BY ActiveCall, ActiveFields DEF TypeInv, TabsInv, ShapeInv
<1>2. pc \in (ServerStep \cup ClientStep) \ {"retry", "user", "revoke"}
  BY DEF QuietSteps, Follows, ServerStep, ClientStep
<1>3. p.pc = pc /\ p.op = q.op /\ p.tab = q.tab /\ p.tok = q.tok /\ p.new = q.new
  BY <1>1, <1>2, GotoFields
<1>4. issued \in Nat /\ issued' = issued
  BY TabFacts DEF SessionsKept, TabsInv
<1>5. Offers(p) => Offers(q)
  BY <1>2, <1>3 DEF Offers, QuietSteps, Follows, ServerStep
<1>6. Refreshes(p) <=> Refreshes(q)
  <2>1. q.pc \in ServerStep
    BY DEF QuietSteps, Follows, ServerStep
  <2> QED
    BY <1>2, <1>3, <2>1 DEF Refreshes, ServerStep, ClientStep
<1>7. Offers(p) =>
        /\ q.new \in 1..issued /\ q.tok < q.new
        /\ row'[q.new].family = IF q.tok = 0 THEN q.new ELSE row'[q.tok].family
  <2>1. Offers(q) => /\ q.new \in 1..issued /\ q.tok < q.new /\ q.tok \in 0..issued
                     /\ row[q.new].family = IF q.tok = 0 THEN q.new ELSE row[q.tok].family
    BY <1>1, TabFacts DEF Shape, Offers, TabsInv
  <2> QED
    BY <1>4, <1>5, <2>1 DEF SessionsKept
<1>8. Shape(p, row', issued')
  <2>1. q.pc # "idle"
    BY DEF Active
  <2>2. CASE q.op \in {"signup", "login"}
    <3>1. q.tok = 0 /\ q.pc \in {"exists", "create", "load", "mint", "answer", "reject"}
      BY <1>1, <2>1, <2>2 DEF Shape
    <3>2. pc \in {"exists", "create", "load", "mint", "answer", "reject"}
      BY <3>1 DEF QuietSteps, Follows, ServerStep
    <3> QED
      BY <1>3, <1>4, <1>7, <2>2, <3>1, <3>2 DEF Shape
  <2>3. CASE q.op = "refresh"
    <3>1. q.tok \in 1..issued /\ q.pc \in {"find", "family", "spend", "mint", "user"} \cup ClientStep
      BY <1>1, <2>1, <2>3 DEF Shape
    <3>2. pc \in {"find", "family", "spend", "mint", "user"} \cup ClientStep
      BY <3>1 DEF QuietSteps, Follows, ServerStep, ClientStep
    <3> QED
      BY <1>3, <1>4, <1>7, <2>3, <3>1, <3>2 DEF Shape
  <2>4. CASE q.op = "logout"
    <3>1. q.pc = "revoke" /\ q.tab = None
      BY <1>1, <2>1, <2>4 DEF Shape
    <3> QED
      BY <3>1 DEF QuietSteps, Follows, ServerStep, ClientStep
  <2> QED
    BY <1>1, <2>2, <2>3, <2>4
<1>9. Quiet(q, p)
  BY <1>2, <1>3, <1>5, <1>6 DEF Quiet
<1> QED
  BY <1>3, <1>6, <1>8, <1>9, QuietOne DEF Goto

\* A call ends at the server, with nobody waiting for it, or one that is no refresh.
LEMMA EndQuiet ==
  ASSUME TypeInv, RowsOK, TabsInv, TypeInv', SessionsKept, RevokedInTurn, UnchangedClient,
         NEW c \in Calls, call[c].tab = None \/ ~Refreshes(call[c]), End(c)
  PROVE  TabsInv'
<1>1. Quiet(call[c], Idle) /\ Shape(Idle, row', issued')
  BY IdleFields DEF Quiet, Shape, Refreshes, Offers, ServerStep, ClientStep
<1> QED
  BY <1>1, QuietOne DEF End

LEMMA RespondQuiet ==
  ASSUME TypeInv, RowsOK, TabsInv, TypeInv', SessionsKept, RevokedInTurn, UnchangedClient,
         NEW c \in Calls, call[c].pc \in ServerStep, NEW pc, Respond(c, pc),
         pc = "reject" \/ (pc = "answer" /\ At(c, "user"))
  PROVE  TabsInv'
<1>1. CASE call[c].tab = None
  BY <1>1, EndQuiet DEF Respond
<1>2. CASE call[c].tab # None
  <2>1. <<call[c].pc, pc>> \in QuietSteps /\ Active(c)
    BY DEF QuietSteps, At, Active, ServerStep
  <2> QED
    BY <1>2, <2>1, GotoQuiet DEF Respond
<1> QED
  BY <1>1, <1>2

\* The steps of the server but the creation of a token.
LEMMA ServerQuiet ==
  ASSUME TypeInv, RowsOK, TabsInv, TypeInv', NEW c \in Calls,
         \/ SignupExists(c) \/ CreateUser(c) \/ LoadUser(c) \/ FindToken(c) \/ RefreshUser(c)
         \/ RevokeFamily(c) \/ SpendToken(c) \/ RevokeToken(c) \/ Crash(c)
  PROVE  TabsInv'
<1>1. UnchangedClient /\ issued' = issued
  BY DEF SignupExists, CreateUser, LoadUser, FindToken, RefreshUser, RevokeFamily, SpendToken,
         RevokeToken, Crash, UnchangedTables
<1>2. call[c].pc \in ServerStep /\ Active(c) /\ call[c] \in ActiveState
  BY ActiveCall DEF SignupExists, CreateUser, LoadUser, FindToken, RefreshUser, RevokeFamily, SpendToken,
         RevokeToken, Crash, At, ServerStep, Active, TypeInv
<1>3. At(c, "family") \/ At(c, "spend") => Refreshes(call[c]) /\ ~Offers(call[c])
  <2>1. call[c].op \in {"signup", "login", "refresh", "logout"} /\ Shape(call[c], row, issued)
    BY <1>2, ActiveFields DEF TabsInv, ShapeInv
  <2> QED
    BY <2>1 DEF Shape, At, Refreshes, Offers, ServerStep, ClientStep
<1>4. SessionsKept /\ RevokedInTurn
  <2>1. CASE row' = row
    BY <1>1, <2>1 DEF SessionsKept, RevokedInTurn
  <2>2. CASE RevokeFamily(c)
    <3>1. \A t \in 1..issued : row'[t] = IF row[t].family = row[call[c].tok].family
                                         THEN [row[t] EXCEPT !.revoked = TRUE] ELSE row[t]
      BY <2>2, Issued DEF RevokeFamily
    <3>2. \A t \in 1..issued : row'[t].family = row[t].family
      BY <3>1, Issued DEF Row
    <3> QED
      BY <1>1, <1>3, <2>2, <3>1, <3>2 DEF SessionsKept, RevokedInTurn, RevokeFamily
  <2>3. CASE row' = [row EXCEPT ![call[c].tok].revoked = TRUE] /\ (At(c, "spend") \/ At(c, "revoke"))
    <3>1. \A t \in 1..issued : row'[t] = IF t = call[c].tok
                                         THEN [row[t] EXCEPT !.revoked = TRUE] ELSE row[t]
      BY <2>3, Issued DEF TypeInv, TypeOK
    <3>2. \A t \in 1..issued : row'[t].family = row[t].family
      BY <3>1, Issued DEF Row
    <3>3. \A t \in 1..issued : ~row[t].revoked /\ row'[t].revoked => t = call[c].tok
      BY <3>1
    <3> QED
      BY <1>1, <1>3, <2>3, <3>2, <3>3 DEF SessionsKept, RevokedInTurn
  <2> QED
    BY <2>1, <2>2, <2>3 DEF SignupExists, CreateUser, LoadUser, FindToken, RefreshUser, SpendToken,
         RevokeToken, Crash, UnchangedTables
<1>5. \/ Respond(c, "reject")
      \/ \E pc : Goto(c, pc) /\ <<call[c].pc, pc>> \in Follows \ {<<"mint", "user">>}
      \/ Respond(c, "answer") /\ At(c, "user")
      \/ End(c) /\ At(c, "revoke")
  BY DEF SignupExists, CreateUser, LoadUser, FindToken, RefreshUser, RevokeFamily, SpendToken,
         RevokeToken, Crash, At, Follows
<1>6. CASE Respond(c, "reject") \/ (Respond(c, "answer") /\ At(c, "user"))
  BY <1>1, <1>2, <1>4, <1>6, RespondQuiet
<1>7. CASE \E pc : Goto(c, pc) /\ <<call[c].pc, pc>> \in Follows \ {<<"mint", "user">>}
  <2>1. PICK pc : Goto(c, pc) /\ <<call[c].pc, pc>> \in Follows \ {<<"mint", "user">>}
    BY <1>7
  <2>2. pc \notin ClientStep /\ <<call[c].pc, pc>> \in QuietSteps
    BY <2>1 DEF Follows, ClientStep, QuietSteps
  <2> QED
    BY <1>1, <1>2, <1>4, <2>1, <2>2, GotoQuiet
<1>8. CASE End(c) /\ At(c, "revoke")
  <2>1. ~Refreshes(call[c])
    BY <1>8 DEF TabsInv, ShapeInv, Shape, At, Refreshes, ClientStep
  <2> QED
    BY <1>1, <1>4, <1>8, <2>1, EndQuiet
<1> QED
  BY <1>5, <1>6, <1>7, <1>8

\* A new token is on offer, or nobody waits for it.
LEMMA CreateTokenTabs ==
  ASSUME TypeInv, RowsOK, TabsInv, TypeInv', NEW c \in Calls, CreateToken(c)
  PROVE  TabsInv'
<1> DEFINE n == issued + 1
           q == call[c]
           t == q.tok
           p == IF t = 0 /\ q.tab = None THEN Idle
                ELSE [q EXCEPT !.new = n, !.pc = IF t = 0 THEN "answer" ELSE "user"]
<1>1. /\ q \in ActiveState /\ q.pc = "mint" /\ q.op \in {"signup", "login", "refresh", "logout"}
      /\ Shape(q, row, issued)
  BY ActiveCall, ActiveFields DEF CreateToken, At, Active, TypeInv, TabsInv, ShapeInv
<1>2. issued \in Nat /\ issued < MaxTokens /\ t \in 0..issued /\ ShapeInv
  BY <1>1, TabFacts DEF CreateToken, TypeInv, CallOK, TabsInv
<1>3. issued' = n /\ row' = [row EXCEPT ![n] = NewRow(t, q.email)] /\ call' = [call EXCEPT ![c] = p]
  BY DEF CreateToken, NewRow
<1>4. /\ \A u \in 1..issued : row'[u] = row[u]
      /\ row'[n].family = IF t = 0 THEN n ELSE row[t].family
      /\ ~row'[n].revoked
  BY <1>2, <1>3, CreatingRows
<1>5. \/ p = Idle /\ t = 0
      \/ /\ p.pc = (IF t = 0 THEN "answer" ELSE "user") /\ p.new = n /\ p.op = q.op
         /\ p.tab = q.tab /\ p.tok = t /\ (t = 0 => q.tab # None)
  BY <1>1 DEF ActiveState
<1>6. (t = 0) = (q.op \in {"signup", "login"}) /\ (t # 0) = Refreshes(q) /\ ~Offers(q)
  BY <1>1, <1>2 DEF Shape, Refreshes, Offers, ServerStep, ClientStep
<1>7. Shape(p, row', issued')
  <2>1. CASE p = Idle
    BY <2>1, IdleFields DEF Shape
  <2>2. CASE p # Idle
    BY <1>1, <1>2, <1>3, <1>4, <1>5, <1>6, <2>2 DEF Shape, Refreshes, Offers, ClientStep
  <2> QED
    BY <2>1, <2>2
<1>8. ShapeInv'
  BY <1>2, <1>3, <1>4, <1>7, ShapeOne
<1>9. \A d \in Calls : call'[d] = IF d = c THEN p ELSE call[d]
  BY <1>3 DEF TypeInv, TypeOK
<1>10. held' = held /\ stored' = stored /\ mishap' = mishap
  BY DEF CreateToken, UnchangedClient
<1>11. /\ \A b \in Tabs : held[b] # 0 => held[b] \in 1..issued /\ row'[held[b]] = row[held[b]]
                                        /\ row[held[b]].family \in 1..issued
       /\ \A u \in 1..issued : row[u].family \in 1..issued
  BY <1>2, <1>4, TabFacts
\* Only the call of a new session comes to be of a session, the new one.
<1>12. ASSUME NEW d \in Calls, NEW f, Of(call'[d], f, row')
       PROVE  \/ Of(call[d], f, row) /\ call'[d].tok = call[d].tok /\ call'[d].tab = call[d].tab
                 /\ f \in 1..issued
              \/ d = c /\ f = n
  <2>1. CASE d = c
    <3>1. p # Idle
      BY <1>9, <1>12, <2>1, IdleFields DEF Of, Refreshes, ServerStep, ClientStep
    <3>2. CASE t = 0
      BY <1>2, <1>5, <1>6, <1>9, <1>12, <2>1, <3>1, <3>2 DEF Of, Refreshes
    <3>3. CASE t # 0
      <4>1. t \in 1..issued /\ row'[t] = row[t] /\ row[t].family \in 1..issued
        BY <1>2, <1>4, <1>11, <3>3
      <4>2. row[t].family = f
        BY <1>5, <1>9, <1>12, <2>1, <3>3, <4>1 DEF Of
      <4> QED
        BY <1>5, <1>6, <1>9, <2>1, <3>1, <3>3, <4>1, <4>2 DEF Of
    <3> QED
      BY <3>2, <3>3
  <2>2. CASE d # c
    <3>1. call'[d] = call[d]
      BY <1>9, <2>2
    <3>2. CASE Refreshes(call[d]) /\ row'[call[d].tok].family = f
      <4>1. call[d].tok \in 1..issued
        BY <1>2, <3>2, TabFacts
      <4> QED
        BY <1>4, <1>11, <3>1, <3>2, <4>1 DEF Of
    <3>3. CASE call[d].pc = "answer" /\ call[d].tok = 0 /\ call[d].new = f
      <4>1. f \in 1..issued
        BY <1>2, <3>3, TabFacts DEF Offers
      <4> QED
        BY <3>1, <3>3, <4>1 DEF Of
    <3> QED
      BY <1>12, <3>1, <3>2, <3>3 DEF Of
  <2> QED
    BY <2>1, <2>2
<1>13. n \notin 1..issued
  BY <1>2
<1> SUFFICES ASSUME TabInv PROVE TabInv'
  BY <1>8, <1>10 DEF TabsInv
<1>14. StoredIsHeld' /\ OneTab'
  BY <1>10, <1>11 DEF StoredIsHeld, OneTab, TabInv
<1>15. OwnRefresh'
  <2> SUFFICES ASSUME NEW d \in Calls, NEW b \in Tabs, held[b] # 0,
                      Of(call'[d], row'[held[b]].family, row')
               PROVE  held[b] = call'[d].tok /\ call'[d].tab = b
    BY <1>10 DEF OwnRefresh
  <2> DEFINE f == row[held[b]].family
  <2>1. f \in 1..issued /\ Of(call'[d], f, row')
    BY <1>11
  <2>2. Of(call[d], f, row) /\ call'[d].tok = call[d].tok /\ call'[d].tab = call[d].tab
    <3> HIDE DEF f
    <3> QED
      BY <1>12, <1>13, <2>1
  <2> QED
    BY <2>2 DEF OwnRefresh, TabInv
<1>16. OneRefresh'
  <2> SUFFICES ASSUME NEW d \in Calls, NEW e \in Calls, NEW f,
                      Of(call'[d], f, row'), Of(call'[e], f, row')
               PROVE  d = e
    BY DEF OneRefresh
  <2> QED
    BY <1>12, <1>13 DEF OneRefresh, TabInv
<1>17. \A d \in Calls : Offers(call'[d]) =>
         \/ d # c /\ Offers(call[d]) /\ call'[d] = call[d] /\ call[d].new \in 1..issued
         \/ d = c /\ call'[d].new = n
  <2>1. p = Idle => ~Offers(p)
    BY IdleFields DEF Offers
  <2> QED
    BY <1>2, <1>5, <1>9, <2>1, TabFacts
<1>18. OffersLive'
  <2>1. \A d \in Calls : Offers(call'[d]) => ~row'[call'[d].new].revoked
    BY <1>4, <1>17 DEF OffersLive, TabInv
  <2> QED
    BY <2>1 DEF OffersLive, Offers
<1>19. LogoutLeft'
  <2> SUFFICES ASSUME NEW d \in Calls, At(d, "revoke")'
               PROVE  /\ \A b \in Tabs : held[b] # call'[d].tok
                      /\ \A e \in Calls : Offers(call'[e]) => call'[e].new # call'[d].tok
    BY <1>10 DEF LogoutLeft, Offers
  <2>1. call'[d] = call[d] /\ At(d, "revoke")
    <3>1. p.pc # "revoke"
      BY <1>5, IdleFields
    <3>2. call'[d].pc = "revoke"
      BY DEF At
    <3> HIDE DEF p
    <3> QED
      BY <1>9, <3>1, <3>2 DEF At
  <2>2. call[d].tok \in 0..issued
    BY <2>1 DEF TypeInv, CallOK, At
  <2> QED
    BY <1>2, <1>17, <2>1, <2>2 DEF LogoutLeft, TabInv
<1>20. KeepsItsSession'
  <2> SUFFICES ASSUME NEW b \in Tabs, held[b] # 0, row'[held[b]].revoked
               PROVE  \E d \in Calls : Refreshes(call'[d]) /\ call'[d].tab = b /\ call'[d].tok = held[b]
    BY <1>10 DEF KeepsItsSession, Using, Active, At, Refreshes, ServerStep, ClientStep
  <2>1. PICK d \in Calls : Refreshes(call[d]) /\ call[d].tab = b /\ call[d].tok = held[b]
    BY <1>11, UsingFields DEF KeepsItsSession, TabInv
  <2>2. CASE d = c
    <3>1. t # 0
      BY <1>6, <2>1, <2>2
    <3>2. p.pc = "user" /\ p.op = q.op /\ p.tab = q.tab /\ p.tok = t
      BY <1>5, <3>1
    <3>3. q.op = "refresh"
      BY <2>1, <2>2 DEF Refreshes
    <3> HIDE DEF p
    <3> QED
      BY <1>9, <2>1, <2>2, <3>2, <3>3 DEF Refreshes, ServerStep, ClientStep
  <2>3. CASE d # c
    BY <1>9, <2>1, <2>3
  <2> QED
    BY <2>2, <2>3
<1> QED
  BY <1>14, <1>15, <1>16, <1>18, <1>19, <1>20 DEF TabInv

\* What Begin makes of a call.
LEMMA BeginFields ==
  ASSUME TypeInv, NEW c \in Calls, NEW pc, NEW op, NEW b, NEW e, NEW t, Begin(c, pc, op, b, e, t)
  PROVE  /\ call[c] = Idle /\ ~Refreshes(call[c]) /\ ~Offers(call[c])
         /\ \E p : /\ call' = [call EXCEPT ![c] = p]
                   /\ \A d \in Calls : call'[d] = IF d = c THEN p ELSE call[d]
                   /\ p.pc = pc /\ p.op = op /\ p.tab = b /\ p.tok = t
<1>1. call[c] = Idle
  BY ActiveCall DEF Begin, TypeInv
<1>2. ~Refreshes(call[c]) /\ ~Offers(call[c])
  BY <1>1, IdleFields DEF Refreshes, Offers, ServerStep, ClientStep
<1> DEFINE p == [pc |-> pc, op |-> op, tab |-> b, email |-> e, tok |-> t, new |-> 0]
<1>3. call' = [call EXCEPT ![c] = p] /\ \A d \in Calls : call'[d] = IF d = c THEN p ELSE call[d]
  BY DEF Begin, TypeInv, TypeOK
<1>4. p.pc = pc /\ p.op = op /\ p.tab = b /\ p.tok = t
  OBVIOUS
<1> QED
  BY <1>1, <1>2, <1>3, <1>4

LEMMA SubmitTabs ==
  ASSUME TypeInv, RowsOK, TabsInv, TypeInv', NEW c \in Calls, NEW b \in Tabs, NEW e \in Emails,
         Submit(c, b, e)
  PROVE  TabsInv'
<1>1. PICK pc \in {"exists", "load"}, op \in {"signup", "login"} : Begin(c, pc, op, b, e, 0)
  BY DEF Submit
<1>2. PICK p : /\ call' = [call EXCEPT ![c] = p]
               /\ p.pc = pc /\ p.op = op /\ p.tab = b /\ p.tok = 0
  BY <1>1, BeginFields
<1>3. ~Refreshes(call[c])
  BY <1>1, BeginFields
<1>4. SessionsKept /\ RevokedInTurn /\ UnchangedClient
  BY DEF Submit, UnchangedTables, SessionsKept, RevokedInTurn
<1>5. Quiet(call[c], p) /\ Shape(p, row', issued')
  BY <1>1, <1>2 DEF Quiet, Shape, Refreshes, Offers, ClientStep
<1> QED
  BY <1>2, <1>3, <1>4, <1>5, QuietOne

\* A refresh takes up the token of its tab: no other call is about the session,
\* or there is a mishap.
LEMMA RefreshTabs ==
  ASSUME TypeInv, RowsOK, TabsInv, TypeInv', NEW c \in Calls, NEW b \in Tabs, Refresh(c, b)
  PROVE  TabsInv'
<1> DEFINE t == held[b]
<1>1. /\ call[c] = Idle /\ ~Refreshes(call[c]) /\ ~Offers(call[c])
  BY BeginFields DEF Refresh
<1>2. PICK p : /\ call' = [call EXCEPT ![c] = p]
               /\ \A d \in Calls : call'[d] = IF d = c THEN p ELSE call[d]
               /\ p.pc = "find" /\ p.op = "refresh" /\ p.tab = b /\ p.tok = t
  BY BeginFields DEF Refresh
<1>3. /\ row' = row /\ issued' = issued /\ held' = held /\ stored' = stored
      /\ ~mishap' => ~mishap /\ Using(b, t) = {}
  BY DEF Refresh, UnchangedTables
<1>4. issued \in Nat /\ t \in 1..issued /\ row[t].family \in 1..issued /\ ShapeInv
  BY TabFacts DEF Refresh, TabsInv
<1>5. Shape(p, row', issued')
  BY <1>2, <1>3, <1>4 DEF Shape, Offers, ClientStep
<1>6. ShapeInv'
  BY <1>2, <1>3, <1>4, <1>5, ShapeOne
<1> SUFFICES ASSUME TabInv, Using(b, t) = {} PROVE TabInv'
  BY <1>3, <1>6 DEF TabsInv
<1>7. \A d \in Calls : \A f : Of(call'[d], f, row') =>
        IF d = c THEN f = row[t].family ELSE Of(call[d], f, row)
  BY <1>2, <1>3 DEF Of
<1>8. \A d \in Calls : ~Of(call[d], row[t].family, row)
  <2> SUFFICES ASSUME NEW d \in Calls, Of(call[d], row[t].family, row) PROVE FALSE
    OBVIOUS
  <2>1. call[d].tok = t /\ call[d].tab = b
    BY <1>4 DEF OwnRefresh, TabInv
  <2>2. Refreshes(call[d])
    BY <1>4, <2>1 DEF Of
  <2> QED
    BY <2>1, <2>2, UsingFields
<1>9. StoredIsHeld' /\ OneTab'
  BY <1>3 DEF StoredIsHeld, OneTab, TabInv
<1>10. OwnRefresh'
  <2> SUFFICES ASSUME NEW d \in Calls, NEW a \in Tabs, held[a] # 0,
                      Of(call'[d], row[held[a]].family, row')
               PROVE  held[a] = call'[d].tok /\ call'[d].tab = a
    BY <1>3 DEF OwnRefresh
  <2>1. CASE d = c
    <3>1. row[held[a]].family = row[t].family
      BY <1>7, <2>1
    <3>2. a = b
      BY <1>4, <3>1 DEF OneTab, TabInv
    <3> QED
      BY <1>2, <2>1, <3>2
  <2>2. CASE d # c
    BY <1>2, <1>7, <2>2 DEF OwnRefresh, TabInv
  <2> QED
    BY <2>1, <2>2
<1>11. OneRefresh'
  BY <1>3, <1>7, <1>8 DEF OneRefresh, TabInv
<1>12. \A d \in Calls : Offers(call'[d]) \/ call'[d].pc = "revoke" => d # c /\ call'[d] = call[d]
  BY <1>2 DEF Offers
<1>13. OffersLive' /\ LogoutLeft'
  <2>1. \A d \in Calls : Offers(call'[d]) => ~row'[call'[d].new].revoked
    BY <1>3, <1>12 DEF OffersLive, TabInv
  <2>2. \A d \in Calls : call'[d].pc = "revoke" =>
          /\ \A a \in Tabs : held'[a] # call'[d].tok
          /\ \A e \in Calls : Offers(call'[e]) => call'[e].new # call'[d].tok
    BY <1>3, <1>12 DEF LogoutLeft, TabInv, At
  <2> QED
    BY <2>1, <2>2 DEF OffersLive, LogoutLeft, Offers, At
<1>14. KeepsItsSession'
  <2> SUFFICES ASSUME NEW a \in Tabs, held[a] # 0, row[held[a]].revoked
               PROVE  \E d \in Calls : Refreshes(call'[d]) /\ call'[d].tab = a /\ call'[d].tok = held[a]
    BY <1>3 DEF KeepsItsSession, Using, Active, At, Refreshes, ServerStep, ClientStep
  <2>1. PICK d \in Calls : Refreshes(call[d]) /\ call[d].tab = a /\ call[d].tok = held[a]
    BY UsingFields DEF KeepsItsSession, TabInv
  <2> QED
    BY <1>1, <1>2, <2>1
<1> QED
  BY <1>9, <1>10, <1>11, <1>13, <1>14 DEF TabInv

\* A tab that logs out gives up its token before the call for it is under way.
LEMMA LogoutTabs ==
  ASSUME TypeInv, RowsOK, TabsInv, TypeInv', NEW c \in Calls, NEW b \in Tabs, Logout(c, b)
  PROVE  TabsInv'
<1> DEFINE t == held[b]
<1>1. ~Refreshes(call[c]) /\ ~Offers(call[c])
  BY BeginFields DEF Logout
<1>2. PICK p : /\ call' = [call EXCEPT ![c] = p]
               /\ \A d \in Calls : call'[d] = IF d = c THEN p ELSE call[d]
               /\ p.pc = "revoke" /\ p.op = "logout" /\ p.tab = None /\ p.tok = t
  BY BeginFields DEF Logout
<1>3. /\ row' = row /\ issued' = issued /\ stored' = 0 /\ mishap' = mishap
      /\ \A a \in Tabs : held'[a] = IF a = b THEN 0 ELSE held[a]
  BY DEF Logout, HardLogout, UnchangedTables, TypeInv, TypeOK
<1>4. issued \in Nat /\ t \in 1..issued /\ ShapeInv
  BY TabFacts DEF Logout, TabsInv
<1>5. Shape(p, row', issued')
  BY <1>2, <1>3, <1>4 DEF Shape, Offers, ClientStep
<1>6. ShapeInv'
  BY <1>2, <1>3, <1>4, <1>5, ShapeOne
<1> SUFFICES ASSUME TabInv PROVE TabInv'
  BY <1>3, <1>6 DEF TabsInv
<1>7. \A d \in Calls : (Refreshes(call'[d]) \/ Offers(call'[d])) => d # c /\ call'[d] = call[d]
  BY <1>2 DEF Refreshes, Offers
<1>8. \A d \in Calls : \A f : Of(call'[d], f, row') => d # c /\ call'[d] = call[d] /\ Of(call[d], f, row)
  BY <1>2, <1>3 DEF Of, Refreshes
<1>9. StoredIsHeld' /\ OneTab' /\ OneRefresh'
  BY <1>3, <1>8 DEF StoredIsHeld, OneTab, OneRefresh, TabInv
<1>10. OwnRefresh'
  BY <1>3, <1>8 DEF OwnRefresh, TabInv
<1>11. OffersLive'
  <2>1. \A d \in Calls : Offers(call'[d]) => ~row'[call'[d].new].revoked
    BY <1>3, <1>7 DEF OffersLive, TabInv
  <2> QED
    BY <2>1 DEF OffersLive, Offers
<1>12. LogoutLeft'
  <2> SUFFICES ASSUME NEW d \in Calls, call'[d].pc = "revoke"
               PROVE  /\ \A a \in Tabs : held'[a] # call'[d].tok
                      /\ \A e \in Calls : Offers(call'[e]) => call'[e].new # call'[d].tok
    BY DEF LogoutLeft, Offers, At
  <2>1. CASE d = c
    <3>1. \A a \in Tabs : held[a] = t => a = b
      BY <1>4 DEF OneTab, TabInv
    <3>2. \A e \in Calls : Offers(call[e]) => call[e].new # t
      BY OfferIsNew, <1>4
    <3> QED
      BY <1>2, <1>3, <1>4, <1>7, <2>1, <3>1, <3>2
  <2>2. CASE d # c
    <3>1. call'[d] = call[d] /\ At(d, "revoke") /\ call[d].tok # 0
      BY <1>2, <1>4, <2>2 DEF At, TypeInv, CallOK
    <3> QED
      BY <1>3, <1>7, <3>1 DEF LogoutLeft, TabInv
  <2> QED
    BY <2>1, <2>2
<1>13. KeepsItsSession'
  <2> SUFFICES ASSUME NEW a \in Tabs, held'[a] # 0, row[held[a]].revoked, a # b
               PROVE  \E d \in Calls : Refreshes(call'[d]) /\ call'[d].tab = a /\ call'[d].tok = held[a]
    BY <1>3 DEF KeepsItsSession, Using, Active, At, Refreshes, ServerStep, ClientStep
  <2>1. PICK d \in Calls : Refreshes(call[d]) /\ call[d].tab = a /\ call[d].tok = held[a]
    BY <1>3, UsingFields DEF KeepsItsSession, TabInv
  <2> QED
    BY <1>1, <1>2, <2>1
<1> QED
  BY <1>9, <1>10, <1>11, <1>12, <1>13 DEF TabInv

\* The call stays, ends, or goes on at the server with nobody waiting for it.
Leave(q, p) ==
  p = q \/ p = Idle \/ (q.pc \in ServerStep /\ p = [q EXCEPT !.tab = None])

LEMMA Leaving ==
  ASSUME TypeInv, RowsOK, ShapeInv, UnchangedTables, \A d \in Calls : Leave(call[d], call'[d])
  PROVE  /\ ShapeInv' /\ SessionsKept /\ RevokedInTurn
         /\ \A d \in Calls : Quiet(call[d], call'[d])
<1>1. row' = row /\ issued' = issued
  BY DEF UnchangedTables
<1>2. ASSUME NEW d \in Calls
      PROVE  Shape(call'[d], row, issued) /\ Quiet(call[d], call'[d])
  <2>1. Shape(call[d], row, issued)
    BY DEF ShapeInv
  <2>2. CASE call'[d] = call[d]
    BY <2>1, <2>2 DEF Quiet
  <2>3. CASE call'[d] = Idle
    BY <2>3, IdleFields DEF Quiet, Shape, Refreshes, Offers, ServerStep, ClientStep
  <2>4. CASE call[d].pc \in ServerStep /\ call'[d] = [call[d] EXCEPT !.tab = None]
    <3>1. call[d] \in ActiveState
      BY <2>4, ActiveCall DEF TypeInv, Active, ServerStep
    <3>2. /\ call'[d].pc = call[d].pc /\ call'[d].op = call[d].op /\ call'[d].tok = call[d].tok
          /\ call'[d].new = call[d].new /\ call'[d].tab = None
      BY <2>4, <3>1 DEF ActiveState
    <3>3. call[d].pc \notin ClientStep
      BY <2>4 DEF ServerStep, ClientStep
    <3> QED
      BY <2>1, <3>2, <3>3 DEF Quiet, Shape, Refreshes, Offers
  <2> QED
    BY <2>2, <2>3, <2>4 DEF Leave
<1> QED
  BY <1>1, <1>2 DEF ShapeInv, Shape, Offers, SessionsKept, RevokedInTurn

\* A tab whose refresh comes to nothing gives up its token.
LEMMA ClientEndsTabs ==
  ASSUME TypeInv, RowsOK, TabsInv, TypeInv', NEW c \in Calls,
         Fail(c) \/ RetrySucceeds(c) \/ LoseConnection(c)
  PROVE  TabsInv'
<1> DEFINE b == call[c].tab
<1>1. UnchangedTables /\ mishap' = mishap /\ ShapeInv
  BY DEF Fail, RetrySucceeds, LoseConnection, UnchangedClient, TabsInv
<1>2. \A d \in Calls : d # c => call'[d] = call[d]
  BY DEF Fail, RetrySucceeds, LoseConnection, End, TypeInv, TypeOK
<1>3. Leave(call[c], call'[c])
  BY DEF Fail, RetrySucceeds, LoseConnection, End, Leave, At, TypeInv, TypeOK
<1>4. /\ ShapeInv' /\ SessionsKept /\ RevokedInTurn
      /\ \A d \in Calls : Quiet(call[d], call'[d])
  BY <1>1, <1>2, <1>3, Leaving DEF Leave
<1>5. \/ call[c].op = "refresh" /\ HardLogout(b)
      \/ ~Refreshes(call[c]) /\ UNCHANGED <<held, stored>>
  BY DEF Fail, RetrySucceeds, LoseConnection, UnchangedClient, Refreshes, At
<1>6. \A a \in Tabs : held'[a] \in {0, held[a]}
  BY <1>5 DEF HardLogout, TypeInv, TypeOK
<1>7. TabInv => StoredIsHeld'
  BY <1>5 DEF TabInv, StoredIsHeld, HardLogout
<1>8. ASSUME NEW a \in Tabs, NEW d \in Calls, held'[a] # 0, Refreshes(call[d]), call[d].tab = a
      PROVE  call'[d] = call[d]
  <2>1. CASE d = c
    BY <1>5, <1>8, <2>1 DEF HardLogout, TypeInv, TypeOK
  <2> QED
    BY <1>2, <2>1
<1>9. TabInv => TabInv'
  BY <1>1, <1>4, <1>6, <1>7, <1>8, QuietStep
<1> QED
  BY <1>1, <1>4, <1>9 DEF TabsInv

\* Without a mishap a page that is loaded takes the token its tab had, or none.
LEMMA LoadPageTabs ==
  ASSUME TypeInv, RowsOK, TabsInv, TypeInv', NEW b \in Tabs, LoadPage(b)
  PROVE  TabsInv'
<1>1. UnchangedTables /\ stored' = stored /\ ShapeInv
  BY DEF LoadPage, TabsInv
<1>2. \A a \in Tabs : held'[a] = IF a = b THEN stored ELSE held[a]
  BY DEF LoadPage, TypeInv, TypeOK
<1>3. \A d \in Calls : /\ call[d].tab # b => call'[d] = call[d]
                       /\ Leave(call[d], call'[d])
  <2> SUFFICES ASSUME NEW d \in Calls
               PROVE  /\ call[d].tab # b => call'[d] = call[d]
                      /\ Leave(call[d], call'[d])
    OBVIOUS
  <2>1. call'[d] = IF ~Active(d) \/ call[d].tab # b THEN call[d]
                   ELSE IF call[d].pc \in ClientStep THEN Idle
                   ELSE [call[d] EXCEPT !.tab = None]
    BY DEF LoadPage
  <2>2. Active(d) /\ call[d].pc \notin ClientStep => call[d].pc \in ServerStep
    BY ActiveCall, ActiveFields DEF TypeInv
  <2> QED
    BY <2>1, <2>2 DEF Leave
<1>4. /\ ShapeInv' /\ SessionsKept /\ RevokedInTurn
      /\ \A d \in Calls : Quiet(call[d], call'[d])
  BY <1>1, <1>3, Leaving
<1>5. ~mishap' => /\ ~mishap
                  /\ stored # 0 => Using(b, stored) = {} /\ \A d \in Tabs \ {b} : held[d] # stored
  BY DEF LoadPage
<1> SUFFICES ASSUME TabInv, ~mishap' PROVE TabInv'
  BY <1>4, <1>5 DEF TabsInv
<1>6. stored # 0 => held[b] = stored
  BY <1>5 DEF TabInv, StoredIsHeld
<1>7. \A a \in Tabs : held'[a] \in {0, held[a]}
  BY <1>2, <1>6
<1>8. StoredIsHeld'
  BY <1>1, <1>2 DEF StoredIsHeld
<1>9. ASSUME NEW a \in Tabs, NEW d \in Calls, held'[a] # 0, Refreshes(call[d]), call[d].tab = a,
             call[d].tok = held[a]
      PROVE  call'[d] = call[d]
  <2>1. CASE a = b
    <3>1. d \in Using(b, stored) /\ stored # 0
      BY <1>2, <1>6, <1>9, <2>1, UsingFields
    <3> QED
      BY <1>5, <3>1
  <2> QED
    BY <1>3, <1>9, <2>1
<1> QED
  BY <1>1, <1>4, <1>7, <1>8, <1>9, QuietStep

\* A tab that receives a token is the only one of the session.
LEMMA SetSessionTabs ==
  ASSUME TypeInv, RowsOK, TabsInv, TypeInv', NEW c \in Calls, SetSession(c)
  PROVE  TabsInv'
<1> DEFINE q == call[c]
           b == q.tab
           n == q.new
<1>1. /\ q \in ActiveState /\ q.pc = "answer" /\ Offers(q) /\ Shape(q, row, issued) /\ ShapeInv
      /\ q.op \in {"signup", "login", "refresh", "logout"}
  BY ActiveCall, ActiveFields DEF SetSession, At, Active, Offers, TypeInv, TabsInv, ShapeInv
<1>2. b \in Tabs
  BY <1>1, ActiveFields DEF Shape, ClientStep
<1>3. PICK p : /\ call' = [call EXCEPT ![c] = p]
               /\ p = Idle \/ (p = [q EXCEPT !.pc = "retry"] /\ q.op = "refresh")
  BY DEF SetSession, Goto, End
<1>4. p.pc \in {"idle", "retry"} /\ Shape(p, row, issued)
  <2>1. CASE p = Idle
    BY <2>1, IdleFields DEF Shape
  <2>2. CASE p = [q EXCEPT !.pc = "retry"] /\ q.op = "refresh"
    <3>1. p.pc = "retry" /\ p.op = q.op /\ p.tab = q.tab /\ p.tok = q.tok
      BY <1>1, <2>2 DEF ActiveState
    <3> QED
      BY <1>1, <2>2, <3>1 DEF Shape, Offers, ClientStep
  <2> QED
    BY <1>3, <2>1, <2>2
<1>5. /\ row' = row /\ issued' = issued /\ stored' = n /\ mishap' = mishap
      /\ \A a \in Tabs : held'[a] = IF a = b THEN n ELSE held[a]
  BY <1>2 DEF SetSession, UnchangedTables, TypeInv, TypeOK
<1>6. issued \in Nat /\ n \in 1..issued /\ row[n].family \in 1..issued /\ Of(q, row[n].family, row)
  BY <1>1, TabFacts
<1>7. ShapeInv'
  BY <1>1, <1>3, <1>4, <1>5, <1>6, ShapeOne
<1> SUFFICES ASSUME TabInv PROVE TabInv'
  BY <1>5, <1>7 DEF TabsInv
<1>8. \A d \in Calls : call'[d] = IF d = c THEN p ELSE call[d]
  BY <1>3 DEF TypeInv, TypeOK
<1>9. \A d \in Calls : Refreshes(call'[d]) \/ Offers(call'[d]) \/ call'[d].pc = "revoke" =>
        d # c /\ call'[d] = call[d]
  <2>1. "idle" \notin ServerStep \cup ClientStep
    BY DEF ServerStep, ClientStep
  <2> QED
    BY <1>4, <1>8, <2>1 DEF Refreshes, Offers
<1>10. \A d \in Calls : \A f : Of(call'[d], f, row') => d # c /\ call'[d] = call[d] /\ Of(call[d], f, row)
  BY <1>5, <1>9 DEF Of, Offers
\* Nobody else is of the session.
<1>11. /\ \A a \in Tabs : held[a] # 0 /\ row[held[a]].family = row[n].family => a = b
       /\ \A d \in Calls : Of(call[d], row[n].family, row) => d = c
       /\ ~row[n].revoked
  BY <1>1, OfferIsNew DEF TabInv, OffersLive
<1>12. StoredIsHeld' /\ OneTab' /\ OneRefresh'
  BY <1>2, <1>5, <1>10, <1>11 DEF StoredIsHeld, OneTab, OneRefresh, TabInv
<1>13. OwnRefresh'
  BY <1>5, <1>10, <1>11 DEF OwnRefresh, TabInv
<1>14. OffersLive'
  <2>1. \A d \in Calls : Offers(call'[d]) => ~row'[call'[d].new].revoked
    BY <1>5, <1>9 DEF OffersLive, TabInv
  <2> QED
    BY <2>1 DEF OffersLive, Offers
<1>15. LogoutLeft'
  <2> SUFFICES ASSUME NEW d \in Calls, call'[d].pc = "revoke"
               PROVE  /\ \A a \in Tabs : held'[a] # call'[d].tok
                      /\ \A e \in Calls : Offers(call'[e]) => call'[e].new # call'[d].tok
    BY DEF LogoutLeft, Offers, At
  <2> QED
    BY <1>1, <1>5, <1>9 DEF LogoutLeft, TabInv, At
<1>16. KeepsItsSession'
  <2> SUFFICES ASSUME NEW a \in Tabs, held'[a] # 0, row[held'[a]].revoked
               PROVE  \E d \in Calls : Refreshes(call'[d]) /\ call'[d].tab = a /\ call'[d].tok = held'[a]
    BY <1>5 DEF KeepsItsSession, Using, Active, At, Refreshes, ServerStep, ClientStep
  <2>1. a # b /\ held'[a] = held[a]
    BY <1>5, <1>11
  <2>2. PICK d \in Calls : Refreshes(call[d]) /\ call[d].tab = a /\ call[d].tok = held[a]
    BY <2>1, UsingFields DEF KeepsItsSession, TabInv
  <2> QED
    BY <1>8, <2>1, <2>2
<1> QED
  BY <1>12, <1>13, <1>14, <1>15, <1>16 DEF TabInv

\* The token expires, an operator acts, or nothing happens.
LEMMA OutsideTabs ==
  ASSUME TypeInv, RowsOK, TabsInv, TypeInv',
         Expire \/ (\E e \in Emails : Deactivate(e)) \/ UNCHANGED vars
  PROVE  TabsInv'
<1>1. row' = row /\ issued' = issued /\ call' = call /\ held' = held /\ stored' = stored /\ mishap' = mishap
  BY DEF Expire, Deactivate, vars, UnchangedClient
<1> QED
  BY <1>1 DEF TabsInv, ShapeInv, TabInv, StoredIsHeld, OneTab, OwnRefresh, OneRefresh, OffersLive,
              LogoutLeft, KeepsItsSession, Using, Active, At, Offers, Shape

LEMMA TabsStep == TypeInv /\ RowsOK /\ TabsInv /\ [Next]_vars => TabsInv'
<1> SUFFICES ASSUME TypeInv, RowsOK, TabsInv, [Next]_vars PROVE TabsInv'
  OBVIOUS
<1>1. TypeInv'
  BY EveryStep DEF StepOK
<1>2. ASSUME NEW c \in Calls, Server(c) \/ Client(c) \/ Crash(c) \/ LoseConnection(c)
      PROVE  TabsInv'
  BY <1>1, <1>2, ServerQuiet, CreateTokenTabs, SubmitTabs, RefreshTabs, LogoutTabs, SetSessionTabs,
     ClientEndsTabs
  DEF Server, Client
<1> QED
  BY <1>1, <1>2, LoadPageTabs, OutsideTabs DEF Next

LEMMA TabsInit == Init => TabsInv
  BY IdleFields
  DEF Init, TabsInv, ShapeInv, Shape, TabInv, StoredIsHeld, OneTab, OwnRefresh, OneRefresh,
      OffersLive, LogoutLeft, KeepsItsSession, Offers, At, Of, Refreshes, ServerStep, ClientStep

\* Whatever crashes, is lost, expires or overlaps, the token a tab keeps is
\* revoked only while the tab's own refresh of it is under way, unless a token
\* came to be used twice at once or kept by two pages (setSession, rotate,
\* revokeFamily, logout).
THEOREM TabKeepsItsSessionCorrect == Spec => []TabKeepsItsSession
<1>1. TabsInv => TabKeepsItsSession
  BY DEF TabsInv, TabInv, KeepsItsSession, TabKeepsItsSession
<1> QED
  BY <1>1, TypeInvCorrect, RowsCorrect, TabsInit, TabsStep, PTL DEF Spec
===============================================================================
