------------------------------- MODULE Sessions -------------------------------
(***************************************************************************)
(* Accounts and sessions: AuthService, RefreshTokenService and the parts   *)
(* of UsersService they use, with the web client that calls them.  A       *)
(* session is a family of refresh tokens: signup or login creates the      *)
(* first, each refresh revokes the current token and creates its           *)
(* successor, and a revoked token that comes back revokes the family.      *)
(*                                                                         *)
(* The client is public/index.html in the tabs of one browser: each tab    *)
(* keeps a refresh token in memory, all share the one in localStorage.     *)
(* Calls run one step per statement; each may be cut off by a crash of the *)
(* server or by a lost connection.                                         *)
(***************************************************************************)
EXTENDS Integers, FiniteSets

CONSTANTS
  Emails,
  Tabs,       \* the tabs of one browser
  Calls,      \* API calls that may be in progress at once
  MaxTokens,  \* bound on the rows of refresh_tokens
  None

ASSUME ConstantsAssumption ==
  /\ MaxTokens \in Nat /\ IsFiniteSet(Calls)
  /\ None \notin Emails \cup Tabs

Tokens == 1..MaxTokens

TokenOrNone == 0..MaxTokens

VARIABLES
  users,   \* users: the account of each e-mail address
  row,     \* refresh_tokens
  issued,  \* rows inserted so far: the last token id
  expired, \* tokens past their expires_at: they expire in the order of creation
  held,    \* state.refresh of each tab, 0 for null
  stored,  \* tf_refresh in localStorage, 0 for null
  call,    \* the calls in progress
  mishap   \* history: a token was used twice at once, or kept by two pages

vars == <<users, row, issued, expired, held, stored, call, mishap>>

Account == {"none", "active", "inactive"}

\* A token row.  A family is named by its first token.  parent is history: the
\* token it was rotated from, 0 for the first of a family.
Row == [user : Emails \cup {None}, family : TokenOrNone, parent : TokenOrNone,
        revoked : BOOLEAN]

NoRow == [user |-> None, family |-> 0, parent |-> 0, revoked |-> FALSE]

\* The steps of a call at the server, and those its answer takes at the client.
ServerStep == {"exists", "create", "load", "find", "family", "spend", "mint", "user", "revoke"}

ClientStep == {"answer", "reject", "retry"}

\* A call: its tab, None once nobody waits for the answer; the address a signup
\* or login is about; the token a refresh or logout sends; the token it created.
ActiveState == [pc : ServerStep \cup ClientStep, op : {"signup", "login", "refresh", "logout"},
                tab : Tabs \cup {None}, email : Emails \cup {None}, tok : TokenOrNone,
                new : TokenOrNone]

Idle == [pc |-> "idle"]

Init ==
  /\ users \in [Emails -> {"none", "active"}]
  /\ row = [t \in Tokens |-> NoRow]
  /\ issued = 0
  /\ expired = 0
  /\ held = [b \in Tabs |-> 0]
  /\ stored = 0
  /\ call = [c \in Calls |-> Idle]
  /\ mishap = FALSE

-----------------------------------------------------------------------------
(* Calls.                                                                  *)

Active(c) == call[c].pc # "idle"

At(c, pc) == call[c].pc = pc

Goto(c, pc) == call' = [call EXCEPT ![c].pc = pc]

End(c) == call' = [call EXCEPT ![c] = Idle]

\* The server is done with the call: its tab sees the answer, unless the page
\* is gone or the connection broke.
Respond(c, pc) == IF call[c].tab = None THEN End(c) ELSE Goto(c, pc)

Begin(c, pc, op, b, e, t) ==
  /\ ~Active(c)
  /\ call' = [call EXCEPT ![c] = [pc |-> pc, op |-> op, tab |-> b, email |-> e,
                                  tok |-> t, new |-> 0]]

UnchangedTables == UNCHANGED <<users, row, issued, expired>>

UnchangedClient == UNCHANGED <<held, stored, mishap>>

\* Calls of tab b that use token t.
Using(b, t) == {c \in Calls : Active(c) /\ call[c].tab = b /\ call[c].op = "refresh"
                              /\ call[c].tok = t /\ ~At(c, "retry")}

-----------------------------------------------------------------------------
(* AuthService.signup and login.                                           *)

SignupExists(c) ==
  /\ At(c, "exists")
  /\ IF users[call[c].email] # "none" THEN Respond(c, "reject") ELSE Goto(c, "create")
  /\ UnchangedTables /\ UnchangedClient

\* The unique index on e-mail fails the insert of a signup that lost the race.
CreateUser(c) ==
  /\ At(c, "create")
  /\ IF users[call[c].email] # "none"
     THEN Respond(c, "reject") /\ UNCHANGED users
     ELSE Goto(c, "mint") /\ users' = [users EXCEPT ![call[c].email] = "active"]
  /\ UNCHANGED <<row, issued, expired>> /\ UnchangedClient

LoadUser(c) ==
  /\ At(c, "load")
  /\ \/ /\ users[call[c].email] = "active"
        /\ Goto(c, "mint")
     \/ Respond(c, "reject")   \* no such account, inactive, or a wrong password
  /\ UnchangedTables /\ UnchangedClient

-----------------------------------------------------------------------------
(* RefreshTokenService.                                                    *)

FindTokenUnchecked(c) ==
  /\ At(c, "find")
  /\ IF call[c].tok <= expired THEN Respond(c, "reject") ELSE Goto(c, "spend")
  /\ UnchangedTables /\ UnchangedClient

\* rotate reads the row.  No row is ever deleted, so it is there.
FindToken(c) ==
  /\ At(c, "find")
  /\ IF row[call[c].tok].revoked THEN Goto(c, "family")
     ELSE IF call[c].tok <= expired THEN Respond(c, "reject") ELSE Goto(c, "spend")
  /\ UnchangedTables /\ UnchangedClient

RevokeFamily(c) ==
  /\ At(c, "family")
  /\ row' = [t \in Tokens |-> IF row[t].family = row[call[c].tok].family
                              THEN [row[t] EXCEPT !.revoked = TRUE] ELSE row[t]]
  /\ Respond(c, "reject")
  /\ UNCHANGED <<users, issued, expired>> /\ UnchangedClient

SpendTokenInMemory(c) ==
  /\ At(c, "spend")
  /\ Goto(c, "mint")
  /\ UnchangedTables /\ UnchangedClient

\* save(current): the token is revoked whatever became of it since it was read.
SpendToken(c) ==
  /\ At(c, "spend")
  /\ row' = [row EXCEPT ![call[c].tok].revoked = TRUE]
  /\ Goto(c, "mint")
  /\ UNCHANGED <<users, issued, expired>> /\ UnchangedClient

CreateTokenOfNoFamily(c) ==
  /\ At(c, "mint")
  /\ issued < MaxTokens
  /\ row' = [row EXCEPT ![issued + 1] = [NoRow EXCEPT !.family = call[c].tok]]
  /\ call' = [call EXCEPT ![c].new = issued + 1, ![c].pc = "answer"]
  /\ UNCHANGED <<users, issued, expired>> /\ UnchangedClient

\* createToken, for a new session (tok = 0) or for the successor of tok.
CreateToken(c) ==
  /\ At(c, "mint")
  /\ issued < MaxTokens
  /\ LET n == issued + 1
         t == call[c].tok
     IN /\ issued' = n
        /\ row' = [row EXCEPT ![n] = [NoRow EXCEPT !.user = IF t = 0 THEN call[c].email ELSE row[t].user,
                                                   !.family = IF t = 0 THEN n ELSE row[t].family,
                                                   !.parent = t]]
        /\ call' = [call EXCEPT ![c] = IF t = 0 /\ call[c].tab = None THEN Idle
                                       ELSE [call[c] EXCEPT !.new = n,
                                                            !.pc = IF t = 0 THEN "answer" ELSE "user"]]
  /\ UNCHANGED <<users, expired>> /\ UnchangedClient

\* AuthService.refresh looks the user up after the rotation.
RefreshUser(c) ==
  /\ At(c, "user")
  /\ Respond(c, IF users[row[call[c].tok].user] = "active" THEN "answer" ELSE "reject")
  /\ UnchangedTables /\ UnchangedClient

\* logout revokes the token it is given and no other of the family.
RevokeToken(c) ==
  /\ At(c, "revoke")
  /\ row' = [row EXCEPT ![call[c].tok].revoked = TRUE]
  /\ End(c)
  /\ UNCHANGED <<users, issued, expired>> /\ UnchangedClient

-----------------------------------------------------------------------------
(* The web client.                                                         *)

Submit(c, b, e) ==
  /\ held[b] = 0
  /\ \A d \in Calls : Active(d) => ~(call[d].tab = b /\ call[d].op \in {"signup", "login"})
  /\ \/ Begin(c, "exists", "signup", b, e, 0)
     \/ Begin(c, "load", "login", b, e, 0)
  /\ UnchangedTables /\ UnchangedClient

\* A request of the tab came back with 401: api() sends its refresh token,
\* whether or not another request is doing so.
Refresh(c, b) ==
  /\ held[b] # 0
  /\ Begin(c, "find", "refresh", b, None, held[b])
  /\ mishap' = (mishap \/ Using(b, held[b]) # {})
  /\ UnchangedTables /\ UNCHANGED <<held, stored>>

HardLogout(b) == held' = [held EXCEPT ![b] = 0] /\ stored' = 0

\* The page forgets the session at once and waits for no answer.
Logout(c, b) ==
  /\ held[b] # 0
  /\ Begin(c, "revoke", "logout", None, None, held[b])
  /\ HardLogout(b)
  /\ UnchangedTables /\ UNCHANGED mishap

SetSessionOfPage(c) ==
  /\ At(c, "answer")
  /\ held' = [held EXCEPT ![call[c].tab] = call[c].new]
  /\ IF call[c].op = "refresh" THEN Goto(c, "retry") /\ UNCHANGED stored
     ELSE End(c) /\ stored' = call[c].new
  /\ UnchangedTables /\ UNCHANGED mishap

\* setSession.  A refresh goes on to repeat the request that was refused.
SetSession(c) ==
  LET b == call[c].tab IN
  /\ At(c, "answer")
  /\ held' = [held EXCEPT ![b] = call[c].new]
  /\ stored' = call[c].new
  /\ IF call[c].op = "refresh" THEN Goto(c, "retry") ELSE End(c)
  /\ UnchangedTables /\ UNCHANGED mishap

\* The catch of api() covers the refresh and the repeated request: either of
\* them failing logs the tab out.  A failed signup or login shows its error.
Fail(c) ==
  LET b == call[c].tab IN
  /\ call[c].pc \in {"reject", "retry"}
  /\ IF call[c].op = "refresh" THEN HardLogout(b) ELSE UNCHANGED <<held, stored>>
  /\ End(c)
  /\ UnchangedTables /\ UNCHANGED mishap

RetrySucceeds(c) ==
  /\ At(c, "retry")
  /\ End(c)
  /\ UnchangedTables /\ UnchangedClient

\* A page is loaded in tab b, or reloaded: it reads localStorage, and the calls
\* of the page that was there go on at the server only.
LoadPage(b) ==
  /\ held' = [held EXCEPT ![b] = stored]
  /\ call' = [c \in Calls |-> IF ~Active(c) \/ call[c].tab # b THEN call[c]
                              ELSE IF call[c].pc \in ClientStep THEN Idle
                              ELSE [call[c] EXCEPT !.tab = None]]
  /\ mishap' = (mishap \/ (stored # 0 /\ (Using(b, stored) # {}
                                         \/ \E d \in Tabs \ {b} : held[d] = stored)))
  /\ held' # held \/ call' # call
  /\ UnchangedTables /\ UNCHANGED stored

-----------------------------------------------------------------------------
(* Faults and the passing of time.                                         *)

\* The server dies in the middle of the call.
Crash(c) ==
  /\ call[c].pc \in ServerStep
  /\ Respond(c, "reject")
  /\ UnchangedTables /\ UnchangedClient

\* The connection breaks: the client sees a failure, the server goes on.
LoseConnection(c) ==
  /\ call[c].pc \in ServerStep \cup {"answer"} /\ call[c].tab # None
  /\ IF call[c].op = "refresh" THEN HardLogout(call[c].tab) ELSE UNCHANGED <<held, stored>>
  /\ call' = [call EXCEPT ![c] = IF At(c, "answer") THEN Idle ELSE [call[c] EXCEPT !.tab = None]]
  /\ UnchangedTables /\ UNCHANGED mishap

Expire ==
  /\ expired < issued
  /\ expired' = expired + 1
  /\ UNCHANGED <<users, row, issued, call>> /\ UnchangedClient

\* No operation of the program changes is_active; an operator may.
Deactivate(e) ==
  /\ users[e] = "active"
  /\ users' = [users EXCEPT ![e] = "inactive"]
  /\ UNCHANGED <<row, issued, expired, call>> /\ UnchangedClient

Server(c) ==
  \/ SignupExists(c) \/ CreateUser(c) \/ LoadUser(c)
  \/ FindToken(c) \/ RevokeFamily(c) \/ SpendToken(c) \/ CreateToken(c) \/ RefreshUser(c)
  \/ RevokeToken(c)

Client(c) ==
  \/ \E b \in Tabs : (\E e \in Emails : Submit(c, b, e)) \/ Refresh(c, b) \/ Logout(c, b)
  \/ SetSession(c) \/ Fail(c) \/ RetrySucceeds(c)

Next ==
  \/ \E c \in Calls : Server(c) \/ Client(c) \/ Crash(c) \/ LoseConnection(c)
  \/ \E b \in Tabs : LoadPage(b)
  \/ Expire
  \/ \E e \in Emails : Deactivate(e)

Spec == Init /\ [][Next]_vars

-----------------------------------------------------------------------------
(* Properties.                                                             *)

TypeOK ==
  /\ users \in [Emails -> Account]
  /\ row \in [Tokens -> Row]
  /\ issued \in TokenOrNone
  /\ held \in [Tabs -> 0..issued]
  /\ stored \in 0..issued
  /\ call \in [Calls -> {Idle} \cup ActiveState]
  /\ expired \in 0..issued
  /\ mishap \in BOOLEAN

Family(f) == {t \in 1..issued : row[t].family = f}

Live(f) == {t \in Family(f) : ~row[t].revoked}

Successors(t) == {n \in 1..issued : row[n].parent = t}

\* Rotations of token t that have found it active.
Rotating(t) == {c \in Calls : call[c].pc \in {"spend", "mint"} /\ call[c].tok = t}

\* Rotations of tokens of the family that will create a successor.
Minting(f) == {c \in Calls : At(c, "mint") /\ call[c].tok \in Family(f)}

\* Two rotations of one token overlapped: both found it active.
Forked(f) ==
  \E t \in Family(f) : Cardinality(Successors(t)) + Cardinality(Rotating(t)) > 1

\* A session has one live token, or none while its successor is being created,
\* unless two refreshes with the same token overlapped in rotate.
OneLiveToken ==
  \A f \in 1..issued : ~Forked(f) => Cardinality(Live(f)) + Cardinality(Minting(f)) <= 1

\* Once a session has no live token and no refresh past the check of rotate, no
\* token of it is ever accepted again: logout and revokeFamily are final.
Closed(f) == f \in Family(f) /\ Live(f) = {} /\ \A t \in Family(f) : Rotating(t) = {}

ClosedStaysClosed ==
  [][\A f \in Tokens : Closed(f) => Closed(f)']_vars

\* The token a tab keeps is revoked only while the tab's own call is replacing
\* it, unless two requests of the tab refreshed with one token, two tabs took
\* one token from localStorage, or a page was reloaded during its refresh.
TabKeepsItsSession ==
  ~mishap => \A b \in Tabs : held[b] # 0 /\ row[held[b]].revoked => Using(b, held[b]) # {}
===============================================================================
