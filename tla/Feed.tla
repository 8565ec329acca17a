--------------------------------- MODULE Feed ---------------------------------
(***************************************************************************)
(* The paged lists of projects, tasks, comments, activity and              *)
(* notifications: newest first by (created_at, id), a page at a time, the  *)
(* cursor of the next page made from the last row of the page before       *)
(* (pagination.util.ts).  Between two pages rows are inserted, removed, and *)
(* changed so that they no longer match the filter of the list, or match   *)
(* it again.                                                               *)
(*                                                                         *)
(* created_at is the start of the inserting transaction, in microseconds;  *)
(* a JavaScript Date, and so a cursor, keeps milliseconds.                 *)
(***************************************************************************)
EXTENDS Integers, FiniteSets

CONSTANTS
  Ids,       \* uuids, of which only the order matters: numbers here
  Feeds,     \* the lists considered, of List
  Limits,    \* the values of the query parameter limit
  PerMilli,  \* instants in a millisecond
  MaxTime,   \* bound on the clock
  None

List == {"projects", "tasks", "comments", "activity", "notifications"}

ASSUME ConstantsAssumption ==
  /\ Ids \subseteq Nat /\ IsFiniteSet(Ids)
  /\ Feeds \subseteq List
  /\ Limits \subseteq Nat \ {0}
  /\ PerMilli \in Nat \ {0} /\ MaxTime \in Nat
  /\ None \notin [at : Nat, id : Ids]

VARIABLES
  feed,    \* the list being read
  now,     \* the clock of the database
  row,     \* the table
  pc,      \* the reader: no page yet, more pages to come, or all read
  cursor,  \* meta.nextCursor of the last page
  page,    \* the rows of the last page
  got,     \* the rows of the pages before
  stayed,  \* the rows that matched ever since the first page was read
  ends     \* the last rows of the pages followed by another one

vars == <<feed, now, row, pc, cursor, page, got, stayed, ends>>

reader == <<pc, cursor, page, got, ends>>

\* open: the inserting transaction has begun; listed: committed and matching
\* the filter; other: not matching; gone: removed.
Row == [state : {"none", "open", "listed", "other", "gone"}, at : Nat]

Cursor == [at : Nat, id : Ids]

Init ==
  /\ feed \in Feeds
  /\ now = 0
  /\ row = [i \in Ids |-> [state |-> "none", at |-> 0]]
  /\ pc = "idle" /\ cursor = None
  /\ page = {} /\ got = {} /\ stayed = {} /\ ends = {}

-----------------------------------------------------------------------------
(* pagination.util.ts and the query of the lists.                          *)

\* ORDER BY created_at DESC, id DESC
Before(i, j) == row[i].at > row[j].at \/ (row[i].at = row[j].at /\ i > j)

\* LIMIT n
First(n, S) == {i \in S : Cardinality({j \in S : Before(j, i)}) < n}

\* (created_at, id) < (cursor.at, cursor.id)
Beyond(i) == row[i].at < cursor.at \/ (row[i].at = cursor.at /\ i < cursor.id)

\* toISOString of created_at.
Milliseconds(t) == PerMilli * (t \div PerMilli)

EncodeCursorRoundedUp(i) == [at |-> Milliseconds(row[i].at) + PerMilli, id |-> i]

EncodeCursor(i) == [at |-> Milliseconds(row[i].at), id |-> i]

\* hasMore is false: there is no nextCursor.
NoMorePagesKeepingCursor == pc' = "done" /\ UNCHANGED <<cursor, ends>>

NoMorePages == pc' = "done" /\ cursor' = None /\ UNCHANGED ends

\* The last row of the page becomes the cursor.
MorePages(data) ==
  \E e \in data :
    /\ \A j \in data \ {e} : Before(j, e)
    /\ pc' = "more" /\ cursor' = EncodeCursor(e) /\ ends' = ends \cup {e}

\* buildPage of the rows fetched.
BuildPage(fetched, limit) ==
  IF Cardinality(fetched) > limit
    THEN page' = First(limit, fetched) /\ MorePages(First(limit, fetched))
    ELSE page' = fetched /\ NoMorePages

\* A row more than the page holds tells whether there are more.
FetchPageOnly(S, limit) == First(limit, S)

Fetch(S, limit) == First(limit + 1, S)

Listed == {i \in Ids : row[i].state = "listed"}

\* A list without a cursor; the reader starts.
FirstPage(limit) ==
  /\ pc = "idle"
  /\ BuildPage(Fetch(Listed, limit), limit)
  /\ got' = {}
  /\ stayed' = Listed
  /\ UNCHANGED <<feed, now, row>>

\* A list with the cursor of the page before.
NextPage(limit) ==
  /\ pc = "more"
  /\ BuildPage(Fetch({i \in Listed : Beyond(i)}, limit), limit)
  /\ got' = got \cup page
  /\ UNCHANGED <<feed, now, row, stayed>>

-----------------------------------------------------------------------------
(* What happens to the table between the pages.                            *)

Tick ==
  /\ now < MaxTime
  /\ now' = now + 1
  /\ UNCHANGED <<feed, row, stayed>> /\ UNCHANGED reader

\* save of a new entity: BEGIN, where now() is taken for created_at ...
BeginInsert(i) ==
  /\ row[i].state = "none"
  /\ row' = [row EXCEPT ![i] = [state |-> "open", at |-> now]]
  /\ UNCHANGED <<feed, now, stayed>> /\ UNCHANGED reader

\* ... and COMMIT, possibly after that of later transactions.
CommitInsert(i, state) ==
  /\ row[i].state = "open"
  /\ row' = [row EXCEPT ![i].state = state]
  /\ UNCHANGED <<feed, now, stayed>> /\ UNCHANGED reader

SetState(i, state) ==
  /\ row' = [row EXCEPT ![i].state = state]
  /\ stayed' = IF state = "listed" THEN stayed ELSE stayed \ {i}
  /\ UNCHANGED <<feed, now>> /\ UNCHANGED reader

\* update of a project or task: its status, priority or assignee begins or
\* ceases to match the filter.
Update(i) ==
  /\ feed \in {"projects", "tasks"}
  /\ \/ row[i].state = "listed" /\ SetState(i, "other")
     \/ row[i].state = "other" /\ SetState(i, "listed")

\* remove of a project, task or comment.
Remove(i) ==
  /\ feed \in {"projects", "tasks", "comments"}
  /\ row[i].state \in {"listed", "other"}
  /\ SetState(i, "gone")

\* markRead, for the list of what is unread.
MarkRead(i) ==
  /\ feed = "notifications"
  /\ row[i].state = "listed"
  /\ SetState(i, "other")

\* markAllRead: one UPDATE of what is committed.
MarkAllRead ==
  /\ feed = "notifications"
  /\ Listed # {}
  /\ row' = [i \in Ids |-> IF i \in Listed THEN [row[i] EXCEPT !.state = "other"] ELSE row[i]]
  /\ stayed' = {}
  /\ UNCHANGED <<feed, now>> /\ UNCHANGED reader

-----------------------------------------------------------------------------

Read == \E limit \in Limits : FirstPage(limit) \/ NextPage(limit)

Next ==
  \/ Read
  \/ Tick
  \/ \E i \in Ids :
       \/ BeginInsert(i) \/ \E state \in {"listed", "other"} : CommitInsert(i, state)
       \/ Update(i) \/ Remove(i) \/ MarkRead(i)
  \/ MarkAllRead

Spec == Init /\ [][Next]_vars

-----------------------------------------------------------------------------
(* Properties.                                                             *)

TypeOK ==
  /\ feed \in List /\ now \in Nat
  /\ row \in [Ids -> Row]
  /\ pc \in {"idle", "more", "done"}
  /\ cursor \in Cursor \cup {None} /\ (pc = "more") = (cursor # None)
  /\ page \subseteq Ids /\ got \subseteq Ids /\ ends \subseteq page \cup got
  /\ stayed \subseteq Listed

\* The pages go on downwards: a row of a page comes after every row of the
\* pages before, so no row is returned twice, whatever is inserted with an
\* older created_at, removed or changed between the pages (the row comparison
\* of the lists, encodeCursor, buildPage).  Left out: a row that a save inserts
\* again after its removal, with the created_at it had loaded cut to the
\* millisecond, is behind its old place and may be returned twice.
PagesDescend == \A i \in page, j \in got : Before(j, i)

\* A row that matches all the time is returned or still ahead, and when there
\* are no more pages it has been returned -- unless it was created in the same
\* millisecond as the last row of some page and the cursor, cut off to that
\* millisecond, has passed it (encodeCursor, buildPage, hasMore).
SkipsOnlyWithinMillisecond ==
  pc # "idle" =>
    \A i \in stayed \ (page \cup got) :
      \/ pc = "more" /\ Beyond(i)
      \/ \E e \in ends : /\ Milliseconds(row[e].at) = Milliseconds(row[i].at)
                         /\ Milliseconds(row[e].at) # row[e].at
                         /\ Before(e, i)
===============================================================================
