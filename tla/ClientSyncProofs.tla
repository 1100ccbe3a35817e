--------------------------- MODULE ClientSyncProofs ---------------------------
(***************************************************************************)
(* What holds of ClientSync for any rows, batches and clients: a deletion  *)
(* is never taken back, and a client that pulls one kind of row            *)
(* undisturbed has everything when it is told that there is nothing more.  *)
(***************************************************************************)
EXTENDS ClientSync, FiniteSetTheorems, NaturalsInduction, WellFoundedInduction, TLAPS
USE SyncAssumption

\* A row that has no version yet is not deleted.
UnbornLive == \A r \in Rows : record[r].version = 0 => ~ record[r].deleted

\* Nothing is later than the present; what a batch writes it writes with a time.
Clocked ==
  /\ \A r \in Rows : record[r].stamp <= clock /\ (r \in Stored => record[r].stamp > 0)
  /\ \A q \in Batches : begun[q] <= clock /\ (step[q] \in {"between", "write"} => begun[q] > 0)
  /\ \A c \in Clients :
       /\ cursor[c] <= clock /\ newest[c] <= clock
       /\ \A r \in Rows : mark[c][r] <= clock

\* Who was told that there is nothing more has a cursor behind all that was there.
Rounds ==
  \A c \in Clients : synced[c] => turn[c] = 0 /\ \A r \in Rows : mark[c][r] <= cursor[c]

\* Under a calm pull there is no batch, and between calm pulls only one that began since.
Undisturbed ==
  \A c \in Clients, q \in Batches :
    calm[c] => begun[q] = 0 \/ (turn[c] = 0 /\ begun[q] > cursor[c])

\* A client of one kind has what is behind its cursor, and at the end of a page what is
\* behind the next.
OfOneKind(c, k) ==
  /\ turn[c] \in {0, k, 5}
  /\ turn[c] # 5 => count[c] = 0 /\ newest[c] = 0
  /\ \A r \in Of(Order[k]) \cap Stored :
       \/ record[r].stamp <= cursor[c]
       \/ turn[c] = 5 /\ (count[c] < Limit \/ record[r].stamp <= newest[c])
       => got[c][r] = record[r].stamp

GotSoFar ==
  \A c \in Clients, k \in 1..4 : calm[c] /\ wants[c] = {Order[k]} => OfOneKind(c, k)

SyncInv == SyncTypeOK /\ UnbornLive /\ Clocked /\ Rounds /\ Undisturbed /\ GotSoFar

\* The fields of a row, and of an item between its two halves.
RecordType == [version : Nat, deleted : BOOLEAN, stamp : Time]
HeldType   == [row : Rows \cup {NoRow}, base : Nat, delete : BOOLEAN]

\* The types of what only batches have, of the rows with their times, and of the clients.
BatchTypeOK ==
  /\ step \in [Batches -> {"idle", "between", "write", "over"}]
  /\ stage \in [Batches -> 1..4] /\ left \in 0..MaxItems
  /\ held \in [Batches -> HeldType] /\ dirty \in [Batches -> SUBSET Messages]
ClockTypeOK == clock \in Time /\ record \in [Rows -> RecordType] /\ begun \in [Batches -> Time]
ClientTypeOK ==
  /\ wants \in [Clients -> Selections] /\ cursor \in [Clients -> Time]
  /\ turn \in [Clients -> 0..5] /\ count \in [Clients -> Nat] /\ newest \in [Clients -> Time]
  /\ got \in [Clients -> [Rows -> Time]] /\ synced \in [Clients -> BOOLEAN]
  /\ mark \in [Clients -> [Rows -> Time]] /\ calm \in [Clients -> BOOLEAN]

\* They are all the types there are.
LEMMA SyncTypeParts ==
  ASSUME BatchTypeOK', ClockTypeOK', ClientTypeOK'
  PROVE  SyncTypeOK'
  BY DEF SyncTypeOK, BatchTypeOK, ClockTypeOK, ClientTypeOK, RecordType, HeldType

\* An item that writes nothing yet.
Pending(q) ==
  /\ UNCHANGED <<clock, record, begun, clientVars, calm>>
  /\ \A p \in Batches : step'[p] = step[p] \/ (p = q /\ step[q] = "between" /\ step'[q] = "write")

\* A commit: the rows it changes have its time and are not brought back.
Committed(q) ==
  /\ step[q] \in {"between", "write"} /\ step'[q] = "between"
  /\ clock' = clock + 1 /\ clock < MaxClock /\ begun' = [begun EXCEPT ![q] = clock']
  /\ \A p \in Batches \ {q} : step'[p] = step[p]
  /\ record' \in [Rows -> RecordType]
  /\ \A r \in Rows : \/ record'[r] = record[r]
                     \/ /\ record'[r].stamp = begun[q]
                        /\ record[r].deleted => record'[r].deleted
                        /\ record'[r].version = 0 => record[r].version = 0 /\ ~ record'[r].deleted
  /\ UNCHANGED <<clientVars, calm>>

\* An item that was tested is held or refused, and nothing is written.
LEMMA ItemTested ==
  ASSUME SyncInv, NEW q \in Batches, NEW k \in 1..4, Item(q, k), NEW r, NEW delete \in BOOLEAN,
         (r \in Rows /\ Hold(q, r, delete)) \/ Refused(q)
  PROVE  Pending(q) /\ BatchTypeOK'
<1>1. stage' \in [Batches -> 1..4] /\ left' \in 0..MaxItems
  BY DEF SyncInv, SyncTypeOK, Item
<1>2. CASE Refused(q)
  BY <1>1, <1>2 DEF Refused, SyncInv, SyncTypeOK, BatchTypeOK, HeldType, Pending
<1>3. CASE r \in Rows /\ Hold(q, r, delete)
  <2>1. [row |-> r, base |-> record[r].version, delete |-> delete] \in HeldType
    BY <1>3 DEF SyncInv, SyncTypeOK, HeldType
  <2>2. held' \in [Batches -> HeldType]
    BY <1>3, <2>1 DEF Hold, SyncInv, SyncTypeOK, HeldType
  <2>3. step' \in [Batches -> {"idle", "between", "write", "over"}]
    BY <1>3 DEF Hold, SyncInv, SyncTypeOK
  <2>4. Pending(q)
    BY <1>3 DEF Hold, Item, SyncInv, SyncTypeOK, Pending
  <2> QED
    BY <1>1, <1>3, <2>2, <2>3, <2>4 DEF Hold, SyncInv, SyncTypeOK, BatchTypeOK
<1> QED
  BY <1>2, <1>3

\* The first half of each item that reads before it writes: a new message, whose parents are
\* read,
LEMMA CreateMessagePends ==
  ASSUME SyncInv, NEW q \in Batches, NEW r, NEW t, NEW u, CreateMessage(q, r, t, u)
  PROVE  Pending(q) /\ BatchTypeOK'
<1>1. r \in Rows /\ Item(q, 4) /\ (Hold(q, r, FALSE) \/ Refused(q))
  BY DEF CreateMessage, Rows
<1>2. 4 \in 1..4 /\ FALSE \in BOOLEAN
  OBVIOUS
<1> QED
  BY <1>1, <1>2, ItemTested

\* An update of an activity, a session or a topic,
LEMMA UpdatePends ==
  ASSUME SyncInv, NEW q \in Batches, NEW k \in 1..4, NEW r, NEW version, NEW seen, NEW wins,
         Update(q, k, r, version, seen, wins)
  PROVE  Pending(q) /\ BatchTypeOK'
<1>1. Item(q, k) /\ ((r \in Rows /\ Hold(q, r, FALSE)) \/ Refused(q))
  BY DEF Update, Alive, Stored
<1> QED
  BY <1>1, ItemTested

\* and of a message, which may be refused or only marked,
LEMMA UpdateMessagePends ==
  ASSUME SyncInv, NEW q \in Batches, NEW r, NEW version, NEW seen, NEW wins, NEW t, NEW u,
         UpdateMessage(q, r, version, seen, wins, t, u)
  PROVE  Pending(q) /\ BatchTypeOK'
<1>1. r \in Rows /\ r \in Messages /\ Item(q, 4)
  BY DEF UpdateMessage, Rows
<1>2. CASE Refused(q) \/ Hold(q, r, FALSE)
  <2>1. 4 \in 1..4 /\ FALSE \in BOOLEAN
    OBVIOUS
  <2> QED
    BY <1>1, <1>2, <2>1, ItemTested
<1>3. CASE /\ dirty' = [dirty EXCEPT ![q] = IF t = NoRow THEN @ ELSE @ \cup {r}]
           /\ UNCHANGED <<clock, record, step, begun, held, clientVars, calm>>
  <2>1. dirty' \in [Batches -> SUBSET Messages]
    BY <1>1, <1>3 DEF SyncInv, SyncTypeOK
  <2> QED
    BY <1>1, <1>3, <2>1 DEF Item, SyncInv, SyncTypeOK, BatchTypeOK, HeldType, Pending
<1> QED
  BY <1>2, <1>3 DEF UpdateMessage

\* and a deletion.
LEMMA DeletePends ==
  ASSUME SyncInv, NEW q \in Batches, NEW k \in 1..4, NEW r, Delete(q, k, r)
  PROVE  Pending(q) /\ BatchTypeOK'
<1>1. Item(q, k) /\ ((r \in Rows /\ Hold(q, r, TRUE)) \/ Refused(q))
  BY DEF Delete, Stored
<1> QED
  BY <1>1, ItemTested

\* What commit() does to the rows and the times, given a new value for one row.
LEMMA CommitWrites ==
  ASSUME SyncInv, NEW q \in Batches, NEW r, NEW new, Commit(q, r, new),
         step[q] \in {"between", "write"}, step'[q] = "between",
         \A p \in Batches \ {q} : step'[p] = step[p],
         UNCHANGED <<clientVars, calm>>,
         r \in Rows => new \in RecordType /\ new.version > 0 /\ new.stamp = begun[q]
                         /\ (record[r].deleted => new.deleted)
  PROVE  Committed(q)
<1>1. record' = [x \in Rows |-> IF x = r THEN new
                                ELSE IF x \in dirty[q] THEN [record[x] EXCEPT !.stamp = begun[q]]
                                ELSE record[x]]
  BY DEF Commit
<1>2. \A x \in Rows : [record[x] EXCEPT !.stamp = begun[q]] \in RecordType
  <2>1. begun[q] \in Time /\ \A x \in Rows : record[x] \in RecordType
    BY DEF SyncInv, SyncTypeOK, RecordType
  <2> QED
    BY <2>1 DEF RecordType
<1>3. record' \in [Rows -> RecordType]
  BY <1>1, <1>2 DEF SyncInv, SyncTypeOK, RecordType
<1>4. ASSUME NEW x \in Rows
      PROVE  \/ record'[x] = record[x]
             \/ /\ record'[x].stamp = begun[q]
                /\ record[x].deleted => record'[x].deleted
                /\ record'[x].version = 0 => record[x].version = 0 /\ ~ record'[x].deleted
  <2>1. CASE x = r
    <3>1. record'[x] = new /\ new.version # 0
      BY <1>1, <2>1 DEF RecordType
    <3> QED
      BY <2>1, <3>1
  <2>2. CASE x # r /\ x \in dirty[q]
    <3>1. record'[x] = [record[x] EXCEPT !.stamp = begun[q]]
      BY <1>1, <2>2
    <3>2. /\ record'[x].stamp = begun[q] /\ record'[x].deleted = record[x].deleted
          /\ record'[x].version = record[x].version
      BY <3>1 DEF SyncInv, SyncTypeOK
    <3> QED
      BY <3>2 DEF SyncInv, UnbornLive
  <2>3. CASE x # r /\ x \notin dirty[q]
    BY <1>1, <2>3
  <2> QED
    BY <2>1, <2>2, <2>3
<1> QED
  BY <1>3, <1>4 DEF Commit, Tick, Committed

\* A new row.
LEMMA CreateCommits ==
  ASSUME SyncInv, NEW q \in Batches, NEW k \in 1..4, NEW r, Create(q, k, r)
  PROVE  Committed(q) /\ BatchTypeOK'
<1>1. Fresh(q) \in RecordType /\ Fresh(q).version > 0 /\ Fresh(q).stamp = begun[q]
  BY DEF Fresh, RecordType, SyncInv, SyncTypeOK
<1>2. r \in Rows => ~ record[r].deleted
  BY DEF Create, Stored, SyncInv, SyncTypeOK, UnbornLive
<1>3. Committed(q)
  BY <1>1, <1>2, CommitWrites DEF Create, Item
<1>4. BatchTypeOK'
  BY DEF SyncInv, SyncTypeOK, BatchTypeOK, HeldType, Create, Item, Commit
<1> QED
  BY <1>3, <1>4

\* The second half of an item.
LEMMA WriteCommits ==
  ASSUME SyncInv, NEW q \in Batches, Write(q)
  PROVE  Committed(q) /\ BatchTypeOK'
<1> DEFINE new == Written(q)
<1>1. ASSUME held[q].row \in Rows
      PROVE  /\ new \in RecordType /\ new.version > 0 /\ new.stamp = begun[q]
             /\ record[held[q].row].deleted => new.deleted
  <2>1. /\ held[q].base \in Nat /\ begun[q] \in Time
        /\ held[q].delete \in BOOLEAN /\ record[held[q].row].deleted \in BOOLEAN
    BY <1>1 DEF SyncInv, SyncTypeOK
  <2>2. (held[q].delete \/ record[held[q].row].deleted) \in BOOLEAN
    BY <2>1
  <2> QED
    BY <2>1, <2>2 DEF Written, RecordType
<1>2. Committed(q)
  <2>1. /\ Commit(q, held[q].row, new) /\ step[q] = "write" /\ step' = [step EXCEPT ![q] = "between"]
        /\ UNCHANGED <<clientVars, calm>>
    BY DEF Write
  <2>2. step'[q] = "between" /\ \A p \in Batches \ {q} : step'[p] = step[p]
    BY <2>1 DEF SyncInv, SyncTypeOK
  <2> HIDE DEF new
  <2> QED
    BY <1>1, <2>1, <2>2, CommitWrites
<1>3. BatchTypeOK'
  BY DEF SyncInv, SyncTypeOK, BatchTypeOK, HeldType, Write, Commit, Nothing
<1> QED
  BY <1>2, <1>3

\* A step of a batch opens it, closes it, waits or commits.
LEMMA BatchSteps ==
  ASSUME SyncInv, NEW q \in Batches, Batch(q)
  PROVE  Open(q) \/ Close(q) \/ ((Pending(q) \/ Committed(q)) /\ BatchTypeOK')
<1>0. 1 \in 1..4 /\ 2 \in 1..4 /\ 3 \in 1..4 /\ 4 \in 1..4
  OBVIOUS
<1>1. CASE Write(q)
  BY <1>1, WriteCommits
<1>2. CASE Updates(q)
  <2>1. PICK wins \in BOOLEAN :
          \/ \E r \in Activities : \E g \in Known(r) : Update(q, 1, r, g[1], g[2], wins)
          \/ \E r \in Sessions : \E g \in Known(r) : Update(q, 2, r, g[1], g[2], wins)
          \/ \E r \in Topics : \E g \in Known(r) : Update(q, 3, r, g[1], g[2], wins)
          \/ \E r \in Messages, s \in Sessions \cup {NoRow}, t \in Topics \cup {NoRow} :
               \E g \in Known(r) : UpdateMessage(q, r, g[1], g[2], wins, s, t)
    BY <1>2 DEF Updates, UpdateActivity, UpdateSession, UpdateTopic
  <2>2. ASSUME NEW k \in 1..4, NEW r, NEW g \in Known(r), Update(q, k, r, g[1], g[2], wins)
        PROVE  Pending(q) /\ BatchTypeOK'
    BY <2>2, UpdatePends
  <2>3. ASSUME NEW r, NEW s, NEW t, NEW g \in Known(r), UpdateMessage(q, r, g[1], g[2], wins, s, t)
        PROVE  Pending(q) /\ BatchTypeOK'
    BY <2>3, UpdateMessagePends
  <2> QED
    BY <1>0, <2>1, <2>2, <2>3
<1>3. ASSUME NEW r, CreateActivity(q, r) \/ CreateSession(q, r) \/ CreateTopic(q, r)
      PROVE  Committed(q) /\ BatchTypeOK'
  BY <1>0, <1>3, CreateCommits DEF CreateActivity, CreateSession, CreateTopic
<1>4. ASSUME NEW r, \/ DeleteActivity(q, r) \/ DeleteSession(q, r)
                    \/ DeleteTopic(q, r) \/ DeleteMessage(q, r)
      PROVE  Pending(q) /\ BatchTypeOK'
  BY <1>0, <1>4, DeletePends DEF DeleteActivity, DeleteSession, DeleteTopic, DeleteMessage
<1>5. ASSUME NEW r, NEW s, NEW t, CreateMessage(q, r, s, t)
      PROVE  Pending(q) /\ BatchTypeOK'
  BY <1>5, CreateMessagePends
<1> QED
  BY <1>1, <1>2, <1>3, <1>4, <1>5 DEF Batch

\* What a step of a batch keeps of the rest of the invariant.
LEMMA PendingKeeps ==
  ASSUME SyncInv, NEW q \in Batches, Pending(q), BatchTypeOK'
  PROVE  SyncInv'
<1> USE DEF SyncInv, Pending, clientVars
<1>1. SyncTypeOK'
  BY SyncTypeParts DEF SyncTypeOK, ClockTypeOK, ClientTypeOK, RecordType
<1>2. UnbornLive' /\ Rounds' /\ Undisturbed'
  BY DEF UnbornLive, Rounds, Undisturbed
<1>3. Clocked'
  BY DEF SyncTypeOK, Clocked, Stored
<1>4. GotSoFar'
  BY DEF GotSoFar, OfOneKind, Stored
<1> QED
  BY <1>1, <1>2, <1>3, <1>4

\* A commit gives its rows the time of its batch, which no undisturbed pull is behind.
LEMMA CommittedKeeps ==
  ASSUME SyncInv, NEW q \in Batches, Committed(q), BatchTypeOK'
  PROVE  SyncInv'
<1> USE DEF SyncInv
<1>0. begun[q] \in Nat /\ begun[q] > 0 /\ begun[q] <= clock /\ clock \in Nat /\ clock' = clock + 1
  BY DEF SyncTypeOK, Clocked, Committed, Time
<1>1. SyncTypeOK'
  <2>1. ClockTypeOK'
    BY <1>0 DEF SyncTypeOK, Committed, ClockTypeOK, Time
  <2>2. ClientTypeOK'
    BY DEF SyncTypeOK, Committed, ClientTypeOK, clientVars
  <2> QED
    BY <2>1, <2>2, SyncTypeParts
<1>2. UnbornLive' /\ Rounds'
  BY DEF Committed, UnbornLive, Rounds, clientVars
<1>3. Clocked'
  <2>1. ASSUME NEW r \in Rows PROVE record'[r].stamp <= clock' /\ (r \in Stored' => record'[r].stamp > 0)
    <3>1. CASE record'[r] = record[r]
      BY <1>0, <3>1 DEF Clocked, Stored, SyncTypeOK, Time
    <3>2. CASE record'[r].stamp = begun[q]
      BY <1>0, <3>2
    <3> QED
      BY <3>1, <3>2 DEF Committed
  <2>2. ASSUME NEW p \in Batches
        PROVE  begun'[p] <= clock' /\ (step'[p] \in {"between", "write"} => begun'[p] > 0)
    BY <1>0 DEF Committed, Clocked, SyncTypeOK, Time
  <2>3. ASSUME NEW c \in Clients
        PROVE  /\ cursor'[c] <= clock' /\ newest'[c] <= clock'
               /\ \A r \in Rows : mark'[c][r] <= clock'
    BY <1>0 DEF Committed, Clocked, SyncTypeOK, Time, clientVars
  <2> QED
    BY <2>1, <2>2, <2>3 DEF Clocked
<1>4. Undisturbed'
  BY <1>0 DEF SyncTypeOK, Undisturbed, Clocked, Committed, clientVars, Time
<1>5. GotSoFar'
  <2> SUFFICES ASSUME NEW c \in Clients, NEW k \in 1..4, calm[c], wants[c] = {Order[k]}
               PROVE  OfOneKind(c, k)'
    BY DEF GotSoFar, Committed, clientVars
  <2>1. turn[c] = 0 /\ begun[q] > cursor[c] /\ cursor[c] \in Nat
    BY <1>0 DEF Undisturbed, SyncTypeOK, Time
  <2>a. OfOneKind(c, k)
    BY DEF GotSoFar
  <2>2. ASSUME NEW r \in Rows, r \in Of(Order[k]), r \in Stored', record'[r].stamp <= cursor[c]
        PROVE  got[c][r] = record'[r].stamp
    <3>1. record'[r] = record[r]
      BY <1>0, <2>1, <2>2 DEF Committed
    <3> QED
      BY <2>1, <2>2, <2>a, <3>1 DEF OfOneKind, Stored
  <2> QED
    BY <2>1, <2>2, <2>a DEF OfOneKind, Committed, clientVars, Stored
<1> QED
  BY <1>1, <1>2, <1>3, <1>4, <1>5

\* The beginning of a batch ends the calm of the pulls under way.
LEMMA OpenKeeps ==
  ASSUME SyncInv, NEW q \in Batches, Open(q)
  PROVE  SyncInv'
<1> USE DEF SyncInv
<1>0. clock \in Nat /\ clock' = clock + 1 /\ clock' \in Time /\ begun' = [begun EXCEPT ![q] = clock']
      /\ UNCHANGED clientVars /\ record' = record
      /\ \A c \in Clients : calm'[c] => calm[c] /\ turn[c] = 0
  <2>1. clock \in Nat /\ clock' = clock + 1 /\ clock' \in Time
    BY DEF SyncTypeOK, Open, Tick, Time
  <2>2. \A c \in Clients : calm'[c] => calm[c] /\ turn[c] = 0
    BY DEF Open
  <2> QED
    BY <2>1, <2>2 DEF Open
<1>1. SyncTypeOK'
  <2>1. calm' \in [Clients -> BOOLEAN]
    BY DEF Open, SyncTypeOK
  <2>2. ClientTypeOK'
    BY <1>0, <2>1 DEF SyncTypeOK, ClientTypeOK, clientVars
  <2>3. ClockTypeOK'
    BY <1>0 DEF SyncTypeOK, ClockTypeOK, RecordType
  <2>4. BatchTypeOK'
    BY DEF SyncTypeOK, BatchTypeOK, HeldType, Open
  <2> QED
    BY <2>2, <2>3, <2>4, SyncTypeParts
<1>2. UnbornLive' /\ Rounds'
  BY <1>0 DEF UnbornLive, Rounds, clientVars
<1>3. Clocked'
  BY <1>0 DEF SyncTypeOK, Clocked, Open, clientVars, Stored, Time
<1>4. Undisturbed'
  <2> SUFFICES ASSUME NEW c \in Clients, NEW p \in Batches, calm'[c]
               PROVE  begun'[p] = 0 \/ (turn[c] = 0 /\ begun'[p] > cursor[c])
    BY <1>0 DEF Undisturbed, clientVars
  <2>1. cursor[c] <= clock /\ cursor[c] \in Nat
    BY DEF Clocked, SyncTypeOK, Time
  <2> QED
    BY <1>0, <2>1 DEF Undisturbed, SyncTypeOK
<1>5. GotSoFar'
  <2> SUFFICES ASSUME NEW c \in Clients, NEW k \in 1..4, calm'[c], wants[c] = {Order[k]}
               PROVE  OfOneKind(c, k)'
    BY <1>0 DEF GotSoFar, clientVars
  <2>1. OfOneKind(c, k)
    BY <1>0 DEF GotSoFar
  <2> QED
    BY <1>0, <2>1 DEF OfOneKind, clientVars, Stored
<1> QED
  BY <1>1, <1>2, <1>3, <1>4, <1>5

\* The end of a batch, answered or not.
LEMMA CloseKeeps ==
  ASSUME SyncInv, NEW q \in Batches, Close(q)
  PROVE  SyncInv'
<1> USE DEF SyncInv
<1>1. SyncTypeOK'
  BY DEF SyncTypeOK, Close, clientVars, Nothing, Time
<1>2. UnbornLive' /\ Rounds' /\ Undisturbed'
  BY DEF SyncTypeOK, UnbornLive, Rounds, Undisturbed, Close, clientVars
<1>3. Clocked'
  BY DEF SyncTypeOK, Clocked, Close, clientVars, Stored, Time
<1>4. GotSoFar'
  <2> SUFFICES ASSUME NEW c \in Clients, NEW k \in 1..4, calm[c], wants[c] = {Order[k]}
               PROVE  OfOneKind(c, k)'
    BY DEF GotSoFar, Close, clientVars
  <2>1. OfOneKind(c, k)
    BY DEF GotSoFar
  <2> QED
    BY <2>1 DEF OfOneKind, Close, clientVars, Stored
<1> QED
  BY <1>1, <1>2, <1>3, <1>4

-----------------------------------------------------------------------------
\* A set of natural numbers that is not empty has a least one,
LEMMA LeastOne == ASSUME NEW T, T \subseteq Nat, T # {} PROVE \E x \in T : \A y \in T : x <= y
<1> DEFINE R == OpToRel(<, Nat)
<1>1. IsWellFoundedOn(R, Nat)
  BY NatLessThanWellFounded
<1>2. \A x, y \in Nat : x < y => <<x, y>> \in R
  BY DEF OpToRel
<1> HIDE DEF R
<1>3. PICK x \in T : \A y \in T : ~ (<<y, x>> \in R)
  BY <1>1, WFMin, ZenonT(30)
<1>4. x \in Nat /\ \A y \in T : y \in Nat /\ ~ (y < x)
  BY <1>2, <1>3
<1> QED
  BY <1>4

\* and a greatest one if it is bounded.
LEMMA GreatestOne ==
  ASSUME NEW n \in Nat, NEW T, T \subseteq 0..n, T # {}
  PROVE  \E x \in T : \A y \in T : y <= x
<1> DEFINE D == {n - t : t \in T}
<1>1. D # {}
  OBVIOUS
<1>2. ASSUME NEW d \in D PROVE d \in Nat
  <2>1. PICK t \in T : d = n - t
    OBVIOUS
  <2>2. t \in 0..n
    OBVIOUS
  <2> QED
    BY <2>1, <2>2
<1>3. \A y \in T : n - y \in D /\ y \in 0..n
  OBVIOUS
<1>4. \A d \in D : \E x \in T : d = n - x
  OBVIOUS
<1> HIDE DEF D
<1>5. PICK d \in D : \A e \in D : d <= e
  BY <1>1, <1>2, LeastOne
<1>6. PICK x \in T : d = n - x
  BY <1>4
<1> QED
  BY <1>3, <1>5, <1>6

\* The kind a pull comes to next comes after, is one the client wants or the end, and none
\* between is.
LEMMA NextKindIs ==
  ASSUME NEW c, NEW k \in 0..4
  PROVE  /\ NextKind(c, k) \in (k + 1)..5
         /\ NextKind(c, k) = 5 \/ Order[NextKind(c, k)] \in wants[c]
         /\ \A i \in (k + 1)..(NextKind(c, k) - 1) : Order[i] \notin wants[c]
<1> DEFINE T == {j \in (k + 1)..5 : j = 5 \/ Order[j] \in wants[c]}
<1>1. 5 \in T /\ \A j \in T : j \in Nat
  OBVIOUS
<1>2. PICK j \in T : \A i \in T : j <= i
  BY <1>1, LeastOne
<1>3. \E j_1 \in (k + 1)..5 : /\ j_1 = 5 \/ Order[j_1] \in wants[c]
                              /\ \A i \in (k + 1)..(j_1 - 1) : Order[i] \notin wants[c]
  <2>1. j \in (k + 1)..5 /\ (j = 5 \/ Order[j] \in wants[c])
    OBVIOUS
  <2>2. ASSUME NEW i \in (k + 1)..(j - 1) PROVE Order[i] \notin wants[c]
    BY <1>2, <2>1
  <2> QED
    BY <2>1, <2>2
<1> QED
  BY <1>3 DEF NextKind

\* A client of one kind comes to that, and then to the end.
LEMMA NextOfOneKind ==
  ASSUME NEW c, NEW k \in 1..4, wants[c] = {Order[k]}
  PROVE  NextKind(c, 0) = k /\ NextKind(c, k) = 5
<1>1. \A i, j \in 1..4 : Order[i] = Order[j] => i = j
  BY DEF Order
<1>2. NextKind(c, 0) = k
  <2>1. /\ NextKind(c, 0) \in 1..5
        /\ NextKind(c, 0) = 5 \/ Order[NextKind(c, 0)] \in wants[c]
        /\ \A i \in 1..(NextKind(c, 0) - 1) : Order[i] \notin wants[c]
    BY NextKindIs
  <2> QED
    BY <1>1, <2>1
<1>3. NextKind(c, k) = 5
  <2>1. /\ NextKind(c, k) \in (k + 1)..5
        /\ NextKind(c, k) = 5 \/ Order[NextKind(c, k)] \in wants[c]
    BY NextKindIs
  <2> QED
    BY <1>1, <2>1
<1> QED
  BY <1>2, <1>3

\* A round of pulls, or its next page, begins.
LEMMA PullBeginKeeps ==
  ASSUME SyncInv, NEW c \in Clients, PullBegin(c)
  PROVE  SyncInv'
<1> USE DEF SyncInv
<1>0. /\ UNCHANGED <<clock, record, batchVars, wants, cursor, count, newest, got>> /\ turn[c] = 0
      /\ synced' = [synced EXCEPT ![c] = FALSE] /\ turn' = [turn EXCEPT ![c] = NextKind(c, 0)]
      /\ NextKind(c, 0) \in 1..5
  BY NextKindIs DEF PullBegin
<1>1. mark' \in [Clients -> [Rows -> Time]] /\ \A a \in Clients \ {c} : mark'[a] = mark[a]
  BY DEF PullBegin, SyncTypeOK
<1>2. \A r \in Rows : mark'[c][r] \in {mark[c][r], record[r].stamp}
  BY DEF PullBegin, SyncTypeOK
<1>3. /\ calm' \in [Clients -> BOOLEAN] /\ \A a \in Clients \ {c} : calm'[a] = calm[a]
      /\ calm'[c] => calm[c] /\ \A q \in Batches : begun[q] = 0
  BY DEF PullBegin, SyncTypeOK
<1>4. SyncTypeOK'
  <2>1. turn' \in [Clients -> 0..5] /\ synced' \in [Clients -> BOOLEAN]
    BY <1>0 DEF SyncTypeOK
  <2>a. ClientTypeOK'
    BY <1>0, <1>1, <1>3, <2>1 DEF SyncTypeOK, ClientTypeOK
  <2>2. BatchTypeOK' /\ ClockTypeOK'
    BY <1>0 DEF SyncTypeOK, BatchTypeOK, ClockTypeOK, HeldType, RecordType, batchVars
  <2> QED
    BY <2>a, <2>2, SyncTypeParts
<1>5. UnbornLive'
  BY <1>0 DEF UnbornLive
<1>6. Rounds'
  BY <1>0, <1>1 DEF Rounds, SyncTypeOK
<1>7. Clocked'
  BY <1>0, <1>1, <1>2 DEF SyncTypeOK, Clocked, Stored, batchVars
<1>8. Undisturbed'
  BY <1>0, <1>3 DEF SyncTypeOK, Undisturbed, batchVars
<1>9. GotSoFar'
  <2> SUFFICES ASSUME NEW a \in Clients, NEW k \in 1..4, calm'[a], wants[a] = {Order[k]}
               PROVE  OfOneKind(a, k)'
    BY <1>0 DEF GotSoFar
  <2>1. OfOneKind(a, k)
    BY <1>3 DEF GotSoFar
  <2>2. turn'[a] = turn[a] \/ (turn[a] = 0 /\ turn'[a] = k)
    <3>1. NextKind(a, 0) = k
      BY NextOfOneKind
    <3> QED
      BY <1>0, <3>1 DEF SyncTypeOK
  <2> QED
    BY <1>0, <2>1, <2>2 DEF OfOneKind, Stored
<1> QED
  BY <1>4, <1>5, <1>6, <1>7, <1>8, <1>9

\* The answer of a pull: from now on the client goes on from the newest row it was given, or
\* from the present if there is nothing more.
LEMMA PullEndKeeps ==
  ASSUME SyncInv, NEW c \in Clients, PullEnd(c)
  PROVE  SyncInv'
<1> USE DEF SyncInv
<1>0. /\ UNCHANGED <<record, batchVars, wants, got, mark, calm>> /\ turn[c] = 5
      /\ turn' = [turn EXCEPT ![c] = 0] /\ count' = [count EXCEPT ![c] = 0]
      /\ newest' = [newest EXCEPT ![c] = 0]
      /\ clock \in Nat /\ clock <= clock' /\ clock' \in Time
  BY DEF PullEnd, Tick, SyncTypeOK, Time
<1>1. \/ /\ count[c] >= Limit /\ cursor' = [cursor EXCEPT ![c] = newest[c]] /\ synced' = synced
      \/ /\ ~ (count[c] >= Limit) /\ clock' = clock + 1
         /\ cursor' = [cursor EXCEPT ![c] = clock'] /\ synced' = [synced EXCEPT ![c] = TRUE]
  BY DEF PullEnd, Tick
<1>2. SyncTypeOK'
  <2>1. cursor' \in [Clients -> Time]
    BY <1>0, <1>1 DEF SyncTypeOK
  <2>a. synced' \in [Clients -> BOOLEAN]
    BY <1>1 DEF SyncTypeOK
  <2>b. turn' \in [Clients -> 0..5] /\ count' \in [Clients -> Nat] /\ newest' \in [Clients -> Time]
    BY <1>0 DEF SyncTypeOK, Time
  <2>2. ClientTypeOK'
    BY <1>0, <2>1, <2>a, <2>b DEF SyncTypeOK, ClientTypeOK
  <2>3. BatchTypeOK' /\ ClockTypeOK'
    BY <1>0 DEF SyncTypeOK, BatchTypeOK, ClockTypeOK, HeldType, RecordType, batchVars
  <2> QED
    BY <2>2, <2>3, SyncTypeParts
<1>3. UnbornLive'
  BY <1>0 DEF UnbornLive
<1>4. Rounds'
  BY <1>0, <1>1 DEF Rounds, Clocked, SyncTypeOK, Time
<1>5. Clocked'
  BY <1>0, <1>1 DEF SyncTypeOK, Clocked, Stored, batchVars, Time
<1>6. Undisturbed'
  BY <1>0, <1>1 DEF SyncTypeOK, Undisturbed, batchVars
<1>7. GotSoFar'
  <2> SUFFICES ASSUME NEW a \in Clients, NEW k \in 1..4, calm[a], wants[a] = {Order[k]}
               PROVE  OfOneKind(a, k)'
    BY <1>0 DEF GotSoFar
  <2>1. OfOneKind(a, k)
    BY DEF GotSoFar
  <2>2. CASE a # c
    BY <1>0, <1>1, <2>1, <2>2 DEF OfOneKind, Stored, SyncTypeOK
  <2>3. CASE a = c
    <3>1. turn'[a] = 0 /\ count'[a] = 0 /\ newest'[a] = 0
      BY <1>0, <2>3 DEF SyncTypeOK
    <3>2. ASSUME NEW r \in Of(Order[k]) \cap Stored, record[r].stamp <= cursor'[a]
          PROVE  got[a][r] = record[r].stamp
      <4>1. CASE count[c] >= Limit
        BY <1>0, <1>1, <2>1, <2>3, <3>2, <4>1 DEF OfOneKind, SyncTypeOK
      <4>2. CASE ~ (count[c] >= Limit)
        <5>1. count[c] < Limit
          BY <4>2 DEF SyncTypeOK
        <5> QED
          BY <1>0, <2>1, <2>3, <5>1 DEF OfOneKind
      <4> QED
        BY <4>1, <4>2
    <3> QED
      BY <1>0, <3>1, <3>2 DEF OfOneKind, Stored
  <2> QED
    BY <2>2, <2>3
<1> QED
  BY <1>2, <1>3, <1>4, <1>5, <1>6, <1>7

\* The query for one kind: the page is the older part of what has changed.
LEMMA PullKeeps ==
  ASSUME SyncInv, NEW c \in Clients, Pull(c)
  PROVE  SyncInv'
<1> USE DEF SyncInv
<1> DEFINE S == Changed(c, Order[turn[c]])
<1>1. PICK P \in Pages(S) :
        /\ got' = [got EXCEPT ![c] = [r \in Rows |-> IF r \in P THEN record[r].stamp ELSE @[r]]]
        /\ count' = [count EXCEPT ![c] = @ + Cardinality(P)]
        /\ newest' = [newest EXCEPT ![c] =
             CHOOSE t \in {@} \cup {record[r].stamp : r \in P} :
               \A u \in {@} \cup {record[r].stamp : r \in P} : u <= t]
        /\ calm' = [calm EXCEPT ![c] = @ /\ \A p \in P, r \in S \ P : record[p].stamp # record[r].stamp]
  BY DEF Pull, PullKind
<1>2. /\ turn[c] \in 1..4 /\ turn' = [turn EXCEPT ![c] = NextKind(c, turn[c])]
      /\ UNCHANGED <<clock, record, batchVars, wants, cursor, synced, mark>>
      /\ NextKind(c, turn[c]) \in 1..5
  <2>1. /\ turn[c] \in 1..4 /\ turn' = [turn EXCEPT ![c] = NextKind(c, turn[c])]
        /\ UNCHANGED <<clock, record, batchVars, wants, cursor, synced, mark>>
    BY DEF Pull, PullKind
  <2>2. NextKind(c, turn[c]) \in (turn[c] + 1)..5
    BY <2>1, NextKindIs
  <2> QED
    BY <2>1, <2>2
<1>3. S \subseteq Rows /\ P \subseteq S
  BY DEF Changed, Stored, Pages
<1>4. IsFiniteSet(S) /\ Cardinality(S) \in Nat /\ Cardinality(P) \in Nat
      /\ (Cardinality(S) = Cardinality(P) => S = P)
  <2>1. IsFiniteSet(S) /\ P \in SUBSET S
    BY <1>3, FS_Subset
  <2>2. IsFiniteSet(P) /\ (Cardinality(S) = Cardinality(P) => S = P)
    BY <2>1, FS_Subset
  <2> QED
    BY <2>1, <2>2, FS_CardinalityType
<1> HIDE DEF S
<1> DEFINE M == {newest[c]} \cup {record[r].stamp : r \in P}
<1>5. newest'[c] \in M /\ \A u \in M : u <= newest'[c]
  <2>1. newest'[c] = CHOOSE t \in M : \A u \in M : u <= t
    BY <1>1 DEF SyncTypeOK
  <2>2. MaxClock \in Nat /\ M \subseteq 0..MaxClock /\ M # {}
    BY <1>3 DEF SyncTypeOK, Time
  <2> HIDE DEF M
  <2>3. \E t \in M : \A u \in M : u <= t
    BY <2>2, GreatestOne
  <2> QED
    BY <2>1, <2>3
<1>6. newest'[c] \in Time /\ newest'[c] <= clock
      /\ (newest'[c] = newest[c] \/ \E p \in P : newest'[c] = record[p].stamp)
  BY <1>3, <1>5 DEF SyncTypeOK, Clocked
<1>7. \A a \in Clients \ {c} : /\ newest'[a] = newest[a] /\ got'[a] = got[a] /\ calm'[a] = calm[a]
                               /\ count'[a] = count[a] /\ turn'[a] = turn[a]
  BY <1>1, <1>2 DEF SyncTypeOK
<1>8. SyncTypeOK'
  <2>1. newest' \in [Clients -> Time]
    <3>1. newest' = [newest EXCEPT ![c] = newest'[c]]
      BY <1>1 DEF SyncTypeOK
    <3> QED
      BY <1>6, <3>1 DEF SyncTypeOK
  <2>2. got' \in [Clients -> [Rows -> Time]] /\ count' \in [Clients -> Nat]
    BY <1>1, <1>4 DEF SyncTypeOK
  <2>3. calm' \in [Clients -> BOOLEAN] /\ turn' \in [Clients -> 0..5]
    BY <1>1, <1>2 DEF SyncTypeOK
  <2>4. ClientTypeOK'
    BY <1>2, <2>1, <2>2, <2>3 DEF SyncTypeOK, ClientTypeOK
  <2>5. BatchTypeOK' /\ ClockTypeOK'
    BY <1>2 DEF SyncTypeOK, BatchTypeOK, ClockTypeOK, HeldType, RecordType, batchVars
  <2> QED
    BY <2>4, <2>5, SyncTypeParts
<1>9. UnbornLive'
  BY <1>2 DEF UnbornLive
<1>10. Rounds'
  BY <1>2 DEF Rounds, SyncTypeOK
<1>11. Clocked'
  BY <1>2, <1>6, <1>7 DEF Clocked, Stored, batchVars
<1>12. calm'[c] => calm[c] /\ \A p \in P, r \in S \ P : record[p].stamp # record[r].stamp
  BY <1>1 DEF SyncTypeOK
<1>13. Undisturbed'
  BY <1>2, <1>7, <1>12 DEF SyncTypeOK, Undisturbed, batchVars
<1>14. GotSoFar'
  <2> SUFFICES ASSUME NEW a \in Clients, NEW k \in 1..4, calm'[a], wants[a] = {Order[k]}
               PROVE  OfOneKind(a, k)'
    BY <1>2 DEF GotSoFar
  <2>1. OfOneKind(a, k)
    BY <1>7, <1>12 DEF GotSoFar
  <2>2. CASE a # c
    BY <1>2, <1>7, <2>1, <2>2 DEF OfOneKind, Stored
  <2>3. CASE a = c
    <3>1. turn[c] = k /\ count[c] = 0 /\ newest[c] = 0
      BY <1>2, <2>1, <2>3 DEF OfOneKind
    <3>2. turn'[c] = 5
      <4>1. NextKind(c, k) = 5
        BY <2>3, NextOfOneKind
      <4> QED
        BY <1>2, <3>1, <4>1 DEF SyncTypeOK
    <3>3. count'[c] = Cardinality(P)
      BY <1>1, <1>4, <3>1 DEF SyncTypeOK
    <3>4. ASSUME NEW r \in Of(Order[k]) \cap Stored,
                 record[r].stamp <= cursor[c] \/ count'[c] < Limit \/ record[r].stamp <= newest'[c]
          PROVE  got'[c][r] = record[r].stamp
      <4>1. r \in Rows /\ got'[c][r] = IF r \in P THEN record[r].stamp ELSE got[c][r]
        BY <1>1 DEF SyncTypeOK, Stored
      <4>2. CASE record[r].stamp <= cursor[c]
        BY <2>1, <2>3, <4>1, <4>2 DEF OfOneKind
      <4>3. CASE ~ (record[r].stamp <= cursor[c])
        <5>1. r \in S
          BY <3>1, <4>1, <4>3 DEF S, Changed, SyncTypeOK, Time
        <5>2. CASE count'[c] < Limit
          <6>1. Cardinality(P) = Cardinality(S)
            BY <1>4, <3>3, <5>2 DEF Pages
          <6> QED
            BY <1>4, <4>1, <5>1, <6>1
        <5>3. CASE record[r].stamp <= newest'[c]
          <6>1. record[r].stamp > 0 /\ record[r].stamp \in Nat /\ newest'[c] \in Nat
            BY <1>6, <4>1 DEF Clocked, SyncTypeOK, Time
          <6>2. PICK p \in P : newest'[c] = record[p].stamp
            BY <1>6, <3>1, <5>3, <6>1
          <6>3. r \in P
            <7>1. SUFFICES ASSUME r \in S \ P PROVE FALSE
              BY <5>1
            <7>2. record[p].stamp <= record[r].stamp
              BY <7>1 DEF Pages
            <7>3. record[p].stamp # record[r].stamp
              BY <1>12, <2>3, <7>1
            <7> QED
              BY <5>3, <6>1, <6>2, <7>2, <7>3
          <6> QED
            BY <4>1, <6>3
        <5> QED
          BY <3>4, <4>3, <5>2, <5>3
      <4> QED
        BY <4>2, <4>3
    <3> QED
      BY <1>2, <2>3, <3>2, <3>4 DEF OfOneKind, Stored
  <2> QED
    BY <2>2, <2>3
<1> QED
  BY <1>8, <1>9, <1>10, <1>11, <1>13, <1>14

-----------------------------------------------------------------------------
\* The rows there are at the start, and no batch and no pull.
LEMMA SyncStarts == SyncInit => SyncInv
<1> SUFFICES ASSUME SyncInit PROVE SyncInv
  OBVIOUS
<1> USE DEF SyncInit
<1>1. SyncTypeOK
  BY DEF SyncTypeOK, Time, Nothing
<1>2. UnbornLive /\ Rounds /\ Undisturbed
  BY DEF UnbornLive, Rounds, Undisturbed
<1>3. Clocked
  BY DEF Clocked, Stored
<1>4. GotSoFar
  BY DEF GotSoFar, OfOneKind, Stored
<1> QED
  BY <1>1, <1>2, <1>3, <1>4 DEF SyncInv

-----------------------------------------------------------------------------
\* Every step of a batch and of a client, or none, keeps the invariant.
LEMMA SyncKept == SyncInv /\ [SyncNext]_syncVars => SyncInv'
<1> SUFFICES ASSUME SyncInv, [SyncNext]_syncVars PROVE SyncInv'
  OBVIOUS
<1>1. ASSUME NEW q \in Batches, Batch(q) PROVE SyncInv'
  BY <1>1, BatchSteps, OpenKeeps, CloseKeeps, PendingKeeps, CommittedKeeps
<1>2. ASSUME NEW c \in Clients, Client(c) PROVE SyncInv'
  BY <1>2, PullBeginKeeps, PullKeeps, PullEndKeeps DEF Client
<1>3. CASE UNCHANGED syncVars
  <2> USE <1>3 DEF syncVars, batchVars, clientVars, SyncInv
  <2>1. SyncTypeOK' /\ UnbornLive' /\ Rounds' /\ Undisturbed'
    BY DEF SyncTypeOK, UnbornLive, Rounds, Undisturbed
  <2>2. Clocked' /\ GotSoFar'
    BY DEF Clocked, Stored, GotSoFar, OfOneKind
  <2> QED
    BY <2>1, <2>2
<1> QED
  BY <1>1, <1>2, <1>3 DEF SyncNext

\* What the round began with is behind the cursor.
LEMMA NothingMissing == SyncInv => QuietPullComplete
<1> SUFFICES ASSUME SyncInv, NEW c \in Clients, synced[c], calm[c], Cardinality(wants[c]) = 1,
                    NEW r \in Missing(c)
             PROVE  FALSE
  BY DEF QuietPullComplete
<1> USE DEF SyncInv
<1>1. wants[c] \subseteq Kinds
  BY DEF SyncTypeOK
<1>2. PICK w : wants[c] = {w}
  <2>1. IsFiniteSet(wants[c])
    <3>1. IsFiniteSet(Kinds)
      <4>1. Kinds = {"activity"} \cup {"session"} \cup {"topic"} \cup {"message"}
        BY DEF Kinds
      <4> QED
        BY <4>1, FS_Singleton, FS_Union
    <3> QED
      BY <1>1, <3>1, FS_Subset
  <2> QED
    BY <2>1, FS_Singleton
<1>3. PICK k \in 1..4 : w = Order[k]
  BY <1>1, <1>2 DEF Kinds, Order
<1>4. OfOneKind(c, k)
  BY <1>2, <1>3 DEF GotSoFar
<1>5. /\ r \in Of(Order[k]) \cap Stored /\ r \in Rows
      /\ mark[c][r] = record[r].stamp /\ got[c][r] # record[r].stamp
  BY <1>2, <1>3 DEF Missing, Stored
<1>6. mark[c][r] <= cursor[c]
  BY <1>5 DEF Rounds
<1> QED
  BY <1>4, <1>5, <1>6 DEF OfOneKind

\* The types hold.
THEOREM SyncTypeCorrect == SyncSpec => []SyncTypeOK
<1>1. SyncInv => SyncTypeOK
  BY DEF SyncInv
<1> QED
  BY <1>1, SyncStarts, SyncKept, PTL DEF SyncSpec

\* A client of one kind that pulls undisturbed, in pages that are not cut between rows of
\* one time, has everything when it is told that there is nothing more.
THEOREM QuietPullsAreComplete == SyncSpec => []QuietPullComplete
  BY SyncStarts, SyncKept, NothingMissing, PTL DEF SyncSpec

\* No commit, of whatever batch, takes a deletion back.
LEMMA DeletionKept == SyncInv /\ [SyncNext]_syncVars => [DeletedStays]_syncVars
<1> SUFFICES ASSUME SyncInv, SyncNext PROVE DeletedStays
  OBVIOUS
<1>1. ASSUME NEW q \in Batches, Committed(q) PROVE DeletedStays
  BY <1>1 DEF Committed, DeletedStays
<1>2. ASSUME record' = record PROVE DeletedStays
  BY <1>2 DEF DeletedStays
<1>3. ASSUME NEW q \in Batches, Batch(q) PROVE DeletedStays
  BY <1>1, <1>2, <1>3, BatchSteps DEF Open, Close, Pending
<1>4. ASSUME NEW c \in Clients, Client(c) PROVE DeletedStays
  BY <1>2, <1>4 DEF Client, PullBegin, Pull, PullKind, PullEnd
<1> QED
  BY <1>3, <1>4 DEF SyncNext

\* A deleted row stays deleted.
THEOREM DeletedForGood == SyncSpec => TombstonesStay
  BY SyncStarts, SyncKept, DeletionKept, PTL DEF SyncSpec, TombstonesStay
=============================================================================
