------------------------------ MODULE ClientSync ------------------------------
(***************************************************************************)
(* app/service/sync.py: clients push batches of creates, updates and       *)
(* deletes of one user's activities, sessions, topics and messages         *)
(* (sync_batch) and pull what has changed since a cursor (pull_changes).   *)
(*                                                                         *)
(* Both are def endpoints: they run in threads of the pool, each statement *)
(* sees what is committed when it begins (READ COMMITTED).  updated_at is  *)
(* now() of PostgreSQL, which is the time the transaction began, not the   *)
(* time the row was written.                                               *)
(***************************************************************************)
EXTENDS Integers, FiniteSets

CONSTANTS
  Activities, Sessions, Topics, Messages,  \* rows ever created, by kind
  Before,     \* rows there are from the start, all imported at time 1
  Batches,    \* calls of sync_batch over time
  Clients,    \* clients that pull
  Selections, \* sets of kinds a client may ask for
  Limit,      \* limit of a pull, per kind
  MaxItems,   \* bound: items of all batches together
  MaxClock,   \* bound: times that are told apart
  NoRow, NoValue

Kinds == {"activity", "session", "topic", "message"}
Rows  == Activities \cup Sessions \cup Topics \cup Messages

ASSUME SyncAssumption ==
  /\ Before \subseteq Rows /\ IsFiniteSet(Rows)
  /\ Limit \in Nat \ {0} /\ MaxItems \in Nat /\ MaxClock \in Nat \ {0}
  /\ Selections \subseteq SUBSET Kinds
  /\ NoRow \notin Rows /\ NoValue \notin Int

VARIABLES
  clock,    \* the present time
  record,   \* version, is_deleted and updated_at of each row, version 0 before its life
  step,     \* where a batch is: between two items, or with a row read and not yet written
  stage,    \* the kind of its present item: kinds are processed in order
  left,     \* items that may still come
  begun,    \* when its database transaction began, 0 if there is none
  held,     \* the write its present item is about to make
  dirty,    \* rows its ORM session holds as changed although their item was refused
  wants,    \* kinds a client asks for
  cursor,   \* last_sync_at of its next pull
  turn,     \* the kind its pull comes to next, 0 outside a pull
  count,    \* rows its pull has fetched so far
  newest,   \* the newest updated_at among them
  got,      \* updated_at of the client's copy of each row
  synced,   \* it was told that there is nothing more
  mark,     \* history: updated_at of each row when its round of pulls began
  calm      \* history: no batch was ever under way during its pulls, no page was cut
            \* between rows of the same time

batchVars  == <<step, stage, left, begun, held, dirty>>
clientVars == <<wants, cursor, turn, count, newest, got, synced, mark>>
syncVars   == <<clock, record, batchVars, clientVars, calm>>

Order  == <<"activity", "session", "topic", "message">>
Of(k)  == [activity |-> Activities, session |-> Sessions, topic |-> Topics, message |-> Messages][k]
Time   == 0..MaxClock
Stored == {r \in Rows : record[r].version > 0}
Alive  == {r \in Stored : ~ record[r].deleted}

Nothing == [row |-> NoRow, base |-> 0, delete |-> FALSE]

SyncTypeOK ==
  /\ clock \in Time
  /\ record \in [Rows -> [version : Nat, deleted : BOOLEAN, stamp : Time]]
  /\ step \in [Batches -> {"idle", "between", "write", "over"}]
  /\ stage \in [Batches -> 1..4]
  /\ left \in 0..MaxItems
  /\ begun \in [Batches -> Time]
  /\ held \in [Batches -> [row : Rows \cup {NoRow}, base : Nat, delete : BOOLEAN]]
  /\ dirty \in [Batches -> SUBSET Messages]
  /\ wants \in [Clients -> Selections]
  /\ cursor \in [Clients -> Time]
  /\ turn \in [Clients -> 0..5]
  /\ count \in [Clients -> Nat]
  /\ newest \in [Clients -> Time]
  /\ got \in [Clients -> [Rows -> Time]]
  /\ synced \in [Clients -> BOOLEAN]
  /\ mark \in [Clients -> [Rows -> Time]]
  /\ calm \in [Clients -> BOOLEAN]

SyncInit ==
  /\ clock = 1
  /\ record = [r \in Rows |-> IF r \in Before
                                THEN [version |-> 1, deleted |-> FALSE, stamp |-> 1]
                                ELSE [version |-> 0, deleted |-> FALSE, stamp |-> 0]]
  /\ step = [q \in Batches |-> "idle"]
  /\ stage = [q \in Batches |-> 1]
  /\ left = MaxItems
  /\ begun = [q \in Batches |-> 0]
  /\ held = [q \in Batches |-> Nothing]
  /\ dirty = [q \in Batches |-> {}]
  /\ wants \in [Clients -> Selections]
  /\ cursor = [c \in Clients |-> 0]
  /\ turn = [c \in Clients |-> 0]
  /\ count = [c \in Clients |-> 0]
  /\ newest = [c \in Clients |-> 0]
  /\ got = [c \in Clients |-> [r \in Rows |-> 0]]
  /\ synced = [c \in Clients |-> FALSE]
  /\ mark = [c \in Clients |-> [r \in Rows |-> 0]]
  /\ calm = [c \in Clients |-> TRUE]

-----------------------------------------------------------------------------
(* Batches.                                                                *)
(* Definitions named Faulty... are variants, with a plausible fault, of    *)
(* the one they precede; nothing uses them.                                *)

\* The first statement of a transaction, which gives its now().
Tick == clock < MaxClock /\ clock' = clock + 1

\* The endpoint authenticates the user: its first transaction begins.
Open(q) ==
  /\ step[q] = "idle" /\ Tick
  /\ step' = [step EXCEPT ![q] = "between"]
  /\ begun' = [begun EXCEPT ![q] = clock']
  /\ calm' = [c \in Clients |-> calm[c] /\ turn[c] = 0]
  /\ UNCHANGED <<record, stage, left, held, dirty, clientVars>>

\* The next item, of kind Order[k].
Item(q, k) ==
  /\ step[q] = "between" /\ left > 0 /\ k >= stage[q]
  /\ stage' = [stage EXCEPT ![q] = k]
  /\ left' = left - 1

\* An item that reads a row and finds nothing against writing it.
Hold(q, r, delete) ==
  /\ step' = [step EXCEPT ![q] = "write"]
  /\ held' = [held EXCEPT ![q] = [row |-> r, base |-> record[r].version, delete |-> delete]]
  /\ UNCHANGED <<clock, record, begun, dirty, clientVars, calm>>

\* An item that is refused, with an error or as a conflict.
Refused(q) == UNCHANGED <<clock, record, step, begun, held, dirty, clientVars, calm>>

\* commit(): the ORM session writes the row and all it holds as changed.  The refresh
\* that follows begins the next transaction.
Commit(q, r, new) ==
  /\ Tick
  /\ record' = [x \in Rows |-> IF x = r THEN new
                               ELSE IF x \in dirty[q] THEN [record[x] EXCEPT !.stamp = begun[q]]
                               ELSE record[x]]
  /\ dirty' = [dirty EXCEPT ![q] = {}]
  /\ begun' = [begun EXCEPT ![q] = clock']

Fresh(q) == [version |-> 1, deleted |-> FALSE, stamp |-> begun[q]]

\* A new row without a test of what it refers to.
Create(q, k, r) ==
  /\ r \in Of(Order[k]) \ Stored
  /\ Item(q, k)
  /\ Commit(q, r, Fresh(q))
  /\ UNCHANGED <<step, held, clientVars, calm>>

CreateActivity(q, r) == Create(q, 1, r)
CreateSession(q, r)  == Create(q, 2, r)
CreateTopic(q, r)    == Create(q, 3, r)

\* A new message: its session must be there, and its topic if it has one.
CreateMessage(q, r, s, t) ==
  /\ r \in Messages \ Stored
  /\ Item(q, 4)
  /\ IF s \in Alive /\ t \in Alive \cup {NoRow} THEN Hold(q, r, FALSE) ELSE Refused(q)

\* The version the client gave, or else the time it last saw the row, is not the row's.
Conflict(r, version, seen) ==
  \/ version # NoValue /\ version # record[r].version
  \/ seen # NoValue /\ seen < record[r].stamp

\* Update of a row: a conflict is written only if the client is to win.
Update(q, k, r, version, seen, clientWins) ==
  /\ r \in Of(Order[k])
  /\ Item(q, k)
  /\ IF r \in Alive /\ (clientWins \/ ~ Conflict(r, version, seen))
       THEN Hold(q, r, FALSE)
       ELSE Refused(q)

UpdateActivity(q, r, version, seen, clientWins) == Update(q, 1, r, version, seen, clientWins)
UpdateSession(q, r, version, seen, clientWins)  == Update(q, 2, r, version, seen, clientWins)
UpdateTopic(q, r, version, seen, clientWins)    == Update(q, 3, r, version, seen, clientWins)

\* Update of a message, perhaps to another session s, and then to a topic t: when the
\* session is found and the topic is not, the item is refused and the ORM session keeps
\* the message as changed.
UpdateMessage(q, r, version, seen, clientWins, s, t) ==
  /\ r \in Messages
  /\ Item(q, 4)
  /\ IF \/ r \notin Alive
        \/ ~ clientWins /\ Conflict(r, version, seen)
        \/ s \notin Alive \cup {NoRow}
       THEN Refused(q)
     ELSE IF t \in Alive \cup {NoRow}
       THEN Hold(q, r, FALSE)
       ELSE /\ dirty' = [dirty EXCEPT ![q] = IF s = NoRow THEN @ ELSE @ \cup {r}]
            /\ UNCHANGED <<clock, record, step, begun, held, clientVars, calm>>

\* Deletion, soft: of any row there is, whatever its version, even a second time.
Delete(q, k, r) ==
  /\ r \in Of(Order[k])
  /\ Item(q, k)
  /\ IF r \in Stored THEN Hold(q, r, TRUE) ELSE Refused(q)

DeleteActivity(q, r) == Delete(q, 1, r)
DeleteSession(q, r)  == Delete(q, 2, r)
DeleteTopic(q, r)    == Delete(q, 3, r)
DeleteMessage(q, r)  == Delete(q, 4, r)

\* An UPDATE of all columns, as they were read.
FaultyWritten(q) ==
  [version |-> held[q].base + 1, deleted |-> held[q].delete, stamp |-> begun[q]]

\* The UPDATE names the columns the item has changed; the version is the one read, + 1.
Written(q) ==
  [version |-> held[q].base + 1,
   deleted |-> held[q].delete \/ record[held[q].row].deleted,
   stamp   |-> begun[q]]

\* The second half of an item.  What it tested is not tested again.
Write(q) ==
  /\ step[q] = "write"
  /\ Commit(q, held[q].row, Written(q))
  /\ step' = [step EXCEPT ![q] = "between"]
  /\ held' = [held EXCEPT ![q] = Nothing]
  /\ UNCHANGED <<stage, left, clientVars, calm>>

\* The last item is done, or one whose flush the database refused (a column that may not
\* be null, a foreign key): from then on the ORM session refuses every item of the batch.
Close(q) ==
  /\ step[q] \in {"between", "write"}
  /\ step' = [step EXCEPT ![q] = "over"]
  /\ begun' = [begun EXCEPT ![q] = 0]
  /\ stage' = [stage EXCEPT ![q] = 1]
  /\ held' = [held EXCEPT ![q] = Nothing]
  /\ dirty' = [dirty EXCEPT ![q] = {}]
  /\ UNCHANGED <<clock, record, left, clientVars, calm>>

-----------------------------------------------------------------------------
(* Pulls.                                                                  *)

\* The next kind the client wants, 5 when none is left.
NextKind(c, k) == CHOOSE j \in (k + 1)..5 :
  /\ j = 5 \/ Order[j] \in wants[c]
  /\ \A i \in (k + 1)..(j - 1) : Order[i] \notin wants[c]

\* A client sends a pull; the first one of a round, or the next page.
PullBegin(c) ==
  /\ turn[c] = 0
  /\ turn' = [turn EXCEPT ![c] = NextKind(c, 0)]
  /\ mark' = [mark EXCEPT ![c] = IF synced[c] \/ cursor[c] = 0
                                   THEN [r \in Rows |-> record[r].stamp] ELSE @]
  /\ synced' = [synced EXCEPT ![c] = FALSE]
  /\ calm' = [calm EXCEPT ![c] = @ /\ \A q \in Batches : begun[q] = 0]
  /\ UNCHANGED <<clock, record, batchVars, wants, cursor, count, newest, got>>

\* The rows of a kind changed after the cursor; no cursor, all of them.
Changed(c, k) == {r \in Of(k) \cap Stored : record[r].stamp > cursor[c]}

\* Newest first.
FaultyPages(S) ==
  {P \in SUBSET S :
    /\ Cardinality(P) = IF Cardinality(S) < Limit THEN Cardinality(S) ELSE Limit
    /\ \A p \in P, r \in S \ P : record[p].stamp >= record[r].stamp}

\* ORDER BY updated_at ASC LIMIT: rows of one time come in any order.
Pages(S) ==
  {P \in SUBSET S :
    /\ Cardinality(P) = IF Cardinality(S) < Limit THEN Cardinality(S) ELSE Limit
    /\ \A p \in P, r \in S \ P : record[p].stamp <= record[r].stamp}

\* The query for one kind.
PullKind(c) ==
  LET S == Changed(c, Order[turn[c]]) IN
  /\ \E P \in Pages(S) :
       /\ got' = [got EXCEPT ![c] = [r \in Rows |-> IF r \in P THEN record[r].stamp ELSE @[r]]]
       /\ count' = [count EXCEPT ![c] = @ + Cardinality(P)]
       /\ newest' = [newest EXCEPT ![c] =
            CHOOSE t \in {@} \cup {record[r].stamp : r \in P} :
              \A u \in {@} \cup {record[r].stamp : r \in P} : u <= t]
       /\ calm' = [calm EXCEPT ![c] = @ /\ \A p \in P, r \in S \ P : record[p].stamp # record[r].stamp]
  /\ turn' = [turn EXCEPT ![c] = NextKind(c, @)]
  /\ UNCHANGED <<clock, record, batchVars, wants, cursor, synced, mark>>

Pull(c) == turn[c] \in 1..4 /\ PullKind(c)

\* The response: has_more counts all kinds together.  The client goes on from
\* next_cursor, or, when there is nothing more, from sync_timestamp.
PullEnd(c) ==
  /\ turn[c] = 5
  /\ turn' = [turn EXCEPT ![c] = 0]
  /\ count' = [count EXCEPT ![c] = 0]
  /\ newest' = [newest EXCEPT ![c] = 0]
  /\ IF count[c] >= Limit
       THEN /\ cursor' = [cursor EXCEPT ![c] = newest[c]]
            /\ synced' = synced /\ clock' = clock
       ELSE /\ Tick
            /\ cursor' = [cursor EXCEPT ![c] = clock']
            /\ synced' = [synced EXCEPT ![c] = TRUE]
  /\ UNCHANGED <<record, batchVars, wants, got, mark, calm>>

-----------------------------------------------------------------------------
\* The version and the time a client may give for a row: none, the present, an older one.
Known(r) == {<<NoValue, NoValue>>, <<record[r].version, NoValue>>,
             <<record[r].version - 1, NoValue>>, <<NoValue, record[r].stamp - 1>>}

Updates(q) == \E wins \in BOOLEAN :
  \/ \E r \in Activities : \E g \in Known(r) : UpdateActivity(q, r, g[1], g[2], wins)
  \/ \E r \in Sessions : \E g \in Known(r) : UpdateSession(q, r, g[1], g[2], wins)
  \/ \E r \in Topics : \E g \in Known(r) : UpdateTopic(q, r, g[1], g[2], wins)
  \/ \E r \in Messages, s \in Sessions \cup {NoRow}, t \in Topics \cup {NoRow} :
       \E g \in Known(r) : UpdateMessage(q, r, g[1], g[2], wins, s, t)

Batch(q) ==
  \/ Open(q) \/ Write(q) \/ Close(q) \/ Updates(q)
  \/ \E r \in Activities : CreateActivity(q, r) \/ DeleteActivity(q, r)
  \/ \E r \in Sessions : CreateSession(q, r) \/ DeleteSession(q, r)
  \/ \E r \in Topics : CreateTopic(q, r) \/ DeleteTopic(q, r)
  \/ \E r \in Messages : DeleteMessage(q, r)
  \/ \E r \in Messages, s \in Sessions, t \in Topics \cup {NoRow} : CreateMessage(q, r, s, t)

Client(c) == PullBegin(c) \/ Pull(c) \/ PullEnd(c)

SyncNext ==
  \/ \E q \in Batches : Batch(q)
  \/ \E c \in Clients : Client(c)

SyncSpec == SyncInit /\ [][SyncNext]_syncVars

-----------------------------------------------------------------------------
(* Properties.                                                             *)

\* A deleted row stays deleted: an update that read the row before, in whatever batch,
\* does not bring it back.
DeletedStays == \A r \in Rows : record[r].deleted => record'[r].deleted
TombstonesStay == [][DeletedStays]_syncVars

\* Rows that have not changed since the client's round of pulls began and whose last
\* change it has not got.
Missing(c) ==
  {r \in Stored : /\ \E k \in wants[c] : r \in Of(k)
                  /\ mark[c][r] = record[r].stamp /\ got[c][r] # record[r].stamp}

\* A client that asks for one kind, pulls while no batch is under way and meets no page
\* that is cut between rows of the same time has every change when it is told that there
\* is nothing more, through any number of pages and rounds.
QuietPullComplete ==
  \A c \in Clients : synced[c] /\ calm[c] /\ Cardinality(wants[c]) = 1 => Missing(c) = {}
=============================================================================
