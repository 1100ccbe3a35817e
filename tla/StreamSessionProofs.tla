------------------------- MODULE StreamSessionProofs -------------------------
(***************************************************************************)
(* What holds of StreamSession for any number of runs, clients and events  *)
(* and any size of the buffer and the queues: type correctness, that no    *)
(* live run escapes stop_generation, that every client is given the events *)
(* of its run in order and misses none silently, and, when a queue holds   *)
(* all a run emits, that stream sessions implement EventFeed.              *)
(*                                                                         *)
(* RunsInOrder strengthens the first: runs are created in order, the entry *)
(* is a run that was started, and a run that is stamped - which cleanup    *)
(* may remove - has finished.  FeedInv strengthens the second: what a      *)
(* client has got lies before what it is about to be given, and up to the  *)
(* last id it has got nothing is missing that does not count as lost.      *)
(* GaplessInv relates the positions in the queue to the run's counter.     *)
(***************************************************************************)
EXTENDS StreamSession, SequenceTheorems, FiniteSetTheorems, TLAPS

RunsInOrder ==
  /\ entry <= started
  /\ \A g \in Runs :
       /\ g > started => task[g] = "none"
       /\ stamped[g] => task[g] = "finished"
       /\ task[g] # "finished" => counter[g] <= MaxEvents
  /\ \A c \in Clients : phase[c] \in {"opened", "attached"} => conn[c] \in Runs
  /\ \A c \in Clients : phase[c] # "attached" => replay[c] = <<>> /\ queue[c] = <<>>
  /\ \A c \in Clients : Len(queue[c]) <= QueueSize

RunsInv == TypeOK /\ RunsInOrder /\ LiveRunIsStoppable

USE SizesAssumption DEF RunsInv, Runs, NoRun, Ids, MaxId

\* There is no run in the beginning.
LEMMA RunsInit == Init => RunsInv
  BY DEF Init, TypeOK, RunsInOrder, LiveRunIsStoppable, Alive

\* Emitting n events leaves the clients' variables well typed and no queue too long.
LEMMA EmitTypes ==
  ASSUME TypeOK, RunsInOrder, NEW g \in Runs, NEW n \in 0..2,
         counter[g] + n <= MaxId, Emit(g, n)
  PROVE  /\ counter' \in [Runs -> 0..MaxId]
         /\ queue' \in [Clients -> Seq(Ids)]
         /\ lost' \in [Clients -> SUBSET Ids]
         /\ \A c \in Clients : Len(queue'[c]) <= QueueSize
         /\ \A c \in Clients : phase[c] # "attached" => queue'[c] = queue[c]
<1> DEFINE fresh == [i \in 1..n |-> counter[g] + i]
           part(c) == SubSeq(fresh, 1, Room(c, g, n))
<1>1. counter' = [counter EXCEPT ![g] = @ + n] /\ counter[g] \in Nat
  BY DEF Emit, TypeOK
<1>2. \A i \in 1..n : fresh[i] \in Ids
  BY <1>1
<1>3. ASSUME NEW c \in Clients
      PROVE  /\ Room(c, g, n) \in 0..n
             /\ Room(c, g, n) + Len(queue[c]) <= QueueSize
             /\ phase[c] # "attached" => Room(c, g, n) = 0
  BY SMTT(30) DEF Room, Subscribed, TypeOK, RunsInOrder
<1> HIDE DEF fresh
<1>4. ASSUME NEW c \in Clients
      PROVE  part(c) \in Seq(Ids) /\ Len(part(c)) = Room(c, g, n)
  <2>1. \A i \in 1..Room(c, g, n) : fresh[i] \in Ids
    BY <1>2, <1>3
  <2> QED
    BY <1>3, <2>1, SubSeqProperties, Z3
<1> HIDE DEF part
<1>5. queue' = [c \in Clients |-> queue[c] \o part(c)]
  BY DEF Emit, fresh, part
<1>6. queue' \in [Clients -> Seq(Ids)]
  BY <1>4, <1>5 DEF TypeOK
<1>7. ASSUME NEW c \in Clients
      PROVE  /\ Len(queue'[c]) <= QueueSize
             /\ phase[c] # "attached" => queue'[c] = queue[c]
  <2>1. queue[c] \in Seq(Ids) /\ queue'[c] = queue[c] \o part(c)
    BY <1>5 DEF TypeOK
  <2>2. Len(queue'[c]) = Len(queue[c]) + Room(c, g, n)
    BY <1>4, <2>1, ConcatProperties, ZenonT(30)
  <2>3. phase[c] # "attached" => part(c) = <<>>
    BY <1>3, <1>4
  <2> QED
    BY <1>3, <2>1, <2>2, <2>3
<1>8. lost' \in [Clients -> SUBSET Ids]
  <2>1. lost' = [c \in Clients |->
          lost[c] \cup (IF Subscribed(c, g) THEN {fresh[i] : i \in Room(c, g, n) + 1 .. n} ELSE {})]
    BY DEF Emit, fresh
  <2>2. \A c \in Clients : {fresh[i] : i \in Room(c, g, n) + 1 .. n} \subseteq Ids
    BY <1>2, <1>3
  <2> QED
    BY <2>1, <2>2 DEF TypeOK
<1> QED
  BY <1>1, <1>6, <1>7, <1>8 DEF TypeOK

\* However a run ends, it is finished, stamped and not about to be cancelled again.
LEMMA EndKeeps ==
  ASSUME RunsInv, NEW g \in Runs, NEW n \in 0..2,
         NEW s \in {"completed", "error", "cancelled"},
         task[g] = "running", End(g, s, n)
  PROVE  RunsInv'
<1>1. Emit(g, n) /\ UNCHANGED managerVars
  BY DEF End
<1>2. counter[g] + n <= MaxId
  <2>1. counter[g] <= MaxEvents /\ counter[g] \in Nat
    BY DEF RunsInOrder, TypeOK
  <2> QED
    BY <2>1
<1>3. /\ counter' \in [Runs -> 0..MaxId]
      /\ queue' \in [Clients -> Seq(Ids)]
      /\ lost' \in [Clients -> SUBSET Ids]
      /\ \A c \in Clients : Len(queue'[c]) <= QueueSize
      /\ \A c \in Clients : phase[c] # "attached" => queue'[c] = queue[c]
  BY <1>1, <1>2, EmitTypes
<1>4. /\ UNCHANGED <<phase, conn, cursor, replay, got, base>>
      /\ counter' = [counter EXCEPT ![g] = @ + n]
  BY <1>1 DEF Emit
<1>5. TypeOK'
  BY <1>1, <1>3, <1>4 DEF End, TypeOK, managerVars
<1>6. RunsInOrder'
  BY <1>1, <1>3, <1>4 DEF End, TypeOK, RunsInOrder, managerVars
<1>7. LiveRunIsStoppable'
  BY <1>1 DEF End, TypeOK, LiveRunIsStoppable, Alive, managerVars
<1> QED
  BY <1>5, <1>6, <1>7

\* Opening a connection to a run keeps the clients' variables well typed.
LEMMA OpenTypes ==
  ASSUME TypeOK, RunsInOrder, NEW c \in Clients, NEW g \in Runs, NEW p \in 0..MaxId,
         Open(c, g, p)
  PROVE  /\ phase' \in [Clients -> {"off", "opened", "attached", "ended"}]
         /\ conn' \in [Clients -> Runs \cup {NoRun}]
         /\ cursor' \in [Clients -> 0..MaxId]
         /\ got' \in [Clients -> Seq(Ids)]
         /\ base' \in [Clients -> 0..MaxId]
         /\ lost' \in [Clients -> SUBSET Ids]
         /\ UNCHANGED <<replay, queue>>
         /\ \A d \in Clients : phase'[d] \in {"opened", "attached"} => conn'[d] \in Runs
         /\ \A d \in Clients : phase'[d] # "attached" => replay[d] = <<>> /\ queue[d] = <<>>
  BY DEF Open, TypeOK, RunsInOrder

\* A new run, however it is posted: its predecessor is cancelled.
LEMMA StartKeeps ==
  ASSUME RunsInv, started + 1 \in Runs, StartRun(started + 1)
  PROVE  /\ up' \in BOOLEAN /\ entry' \in Runs /\ started' \in Runs
         /\ status' \in [Runs -> {"pending", "streaming", "completed", "error", "cancelled"}]
         /\ task' \in [Runs -> {"none", "scheduled", "running", "finished"}]
         /\ cancelling' \in [Runs -> BOOLEAN]
         /\ UNCHANGED <<stamped, counter>>
         /\ entry' = started'
         /\ \A g \in Runs : /\ g > started' => task'[g] = "none"
                            /\ stamped[g] => task'[g] = "finished"
                            /\ task'[g] # "finished" => counter[g] <= MaxEvents
         /\ LiveRunIsStoppable'
<1> DEFINE new == started + 1
<1>1. /\ new \in Runs /\ task[new] = "none" /\ entry # new
      /\ task' = [task EXCEPT ![new] = "scheduled"]
      /\ status' = [status EXCEPT ![new] = "streaming"]
      /\ entry' = new /\ started' = new
      /\ UNCHANGED <<up, stamped, counter>>
      /\ Evict
  BY DEF StartRun, TypeOK, RunsInOrder
<1>2. /\ cancelling' \in [Runs -> BOOLEAN]
      /\ \A g \in Runs : cancelling[g] => cancelling'[g]
      /\ entry # NoRun /\ Alive(entry) => cancelling'[entry]
  BY <1>1 DEF Evict, Cancel, TypeOK
<1>3. LiveRunIsStoppable'
  BY <1>1, <1>2 DEF LiveRunIsStoppable, Alive, TypeOK
<1>4. \A g \in Runs : /\ g > new => task'[g] = "none"
                      /\ stamped[g] => task'[g] = "finished"
                      /\ task'[g] # "finished" => counter[g] <= MaxEvents
  BY <1>1 DEF TypeOK, RunsInOrder
<1> QED
  BY <1>1, <1>2, <1>3, <1>4 DEF TypeOK

\* No step of a run, a client or the manager breaks the invariant.
LEMMA RunsStep == RunsInv /\ [Next]_vars => RunsInv'
<1> SUFFICES ASSUME RunsInv, [Next]_vars PROVE RunsInv'
  OBVIOUS
<1> USE DEF managerVars, runVars, clientVars
<1>1. ASSUME NEW g \in Runs, FirstStep(g) PROVE RunsInv'
  BY <1>1 DEF FirstStep, TypeOK, RunsInOrder, LiveRunIsStoppable, Alive
<1>2. ASSUME NEW g \in Runs, NeverStarts(g) PROVE RunsInv'
  BY <1>2 DEF NeverStarts, TypeOK, RunsInOrder, LiveRunIsStoppable, Alive
<1>3. ASSUME NEW g \in Runs, Produce(g) PROVE RunsInv'
  <2>1. Emit(g, 1) /\ counter[g] < MaxEvents /\ counter[g] \in Nat
    BY <1>3 DEF Produce, TypeOK
  <2>2. /\ counter' \in [Runs -> 0..MaxId]
        /\ queue' \in [Clients -> Seq(Ids)]
        /\ lost' \in [Clients -> SUBSET Ids]
        /\ \A c \in Clients : Len(queue'[c]) <= QueueSize
        /\ \A c \in Clients : phase[c] # "attached" => queue'[c] = queue[c]
    BY <2>1, EmitTypes
  <2>3. /\ UNCHANGED <<managerVars, status, task, cancelling, stamped>>
        /\ UNCHANGED <<phase, conn, cursor, replay, got, base>>
        /\ counter' = [counter EXCEPT ![g] = @ + 1]
    BY <1>3 DEF Produce, Emit
  <2>4. TypeOK'
    BY <2>2, <2>3 DEF TypeOK
  <2>5. RunsInOrder'
    BY <2>1, <2>2, <2>3 DEF TypeOK, RunsInOrder
  <2> QED
    BY <2>3, <2>4, <2>5 DEF LiveRunIsStoppable, Alive
<1>4. ASSUME NEW g \in Runs, Complete(g) \/ Fail(g) \/ Cancelled(g) PROVE RunsInv'
  <2>1. /\ task[g] = "running"
        /\ \E s \in {"completed", "error", "cancelled"}, n \in 0..2 : End(g, s, n)
    BY <1>4 DEF Complete, Fail, Cancelled
  <2> QED
    BY <2>1, EndKeeps
<1>5. ASSUME NEW c \in Clients, Chat(c) PROVE RunsInv'
  <2>1. started + 1 \in Runs /\ StartRun(started + 1) /\ Open(c, started + 1, 0)
    BY <1>5 DEF Chat
  <2>2. /\ phase' \in [Clients -> {"off", "opened", "attached", "ended"}]
        /\ conn' \in [Clients -> Runs \cup {NoRun}]
        /\ cursor' \in [Clients -> 0..MaxId]
        /\ got' \in [Clients -> Seq(Ids)]
        /\ base' \in [Clients -> 0..MaxId]
        /\ lost' \in [Clients -> SUBSET Ids]
        /\ UNCHANGED <<replay, queue>>
        /\ \A d \in Clients : phase'[d] \in {"opened", "attached"} => conn'[d] \in Runs
        /\ \A d \in Clients : phase'[d] # "attached" => replay[d] = <<>> /\ queue[d] = <<>>
    <3>1. 0 \in 0..MaxId
      OBVIOUS
    <3> HIDE DEF MaxId
    <3> QED
      BY <2>1, <3>1, OpenTypes
  <2>3. TypeOK'
    BY <2>1, <2>2, StartKeeps DEF TypeOK
  <2>4. /\ entry' \in Runs /\ entry' = started'
        /\ \A g \in Runs : /\ g > started' => task'[g] = "none"
                           /\ stamped'[g] => task'[g] = "finished"
                           /\ task'[g] # "finished" => counter'[g] <= MaxEvents
        /\ LiveRunIsStoppable'
    BY <2>1, StartKeeps
  <2>5. \A d \in Clients : Len(queue'[d]) <= QueueSize
    BY <2>2 DEF RunsInOrder
  <2>6. RunsInOrder'
    BY <2>2, <2>4, <2>5 DEF RunsInOrder
  <2> QED
    BY <2>3, <2>4, <2>6
<1>6. ASSUME ChatElsewhere PROVE RunsInv'
  <2>1. started + 1 \in Runs /\ StartRun(started + 1) /\ UNCHANGED clientVars
    BY <1>6 DEF ChatElsewhere
  <2>2. TypeOK'
    BY <2>1, StartKeeps DEF TypeOK
  <2>3. RunsInOrder'
    BY <2>1, StartKeeps DEF TypeOK, RunsInOrder
  <2> QED
    BY <2>1, <2>2, <2>3, StartKeeps
<1>7. ASSUME NEW c \in Clients, Reconnect(c) PROVE RunsInv'
  <2>1. LastSeen(c) \in 0..MaxId
    BY DEF LastSeen, TypeOK
  <2>2. entry \in Runs /\ Open(c, entry, LastSeen(c)) /\ UNCHANGED <<managerVars, runVars>>
    BY <1>7 DEF Reconnect, TypeOK
  <2>3. TypeOK'
    BY <2>1, <2>2, OpenTypes DEF TypeOK
  <2>4. RunsInOrder'
    BY <2>1, <2>2, OpenTypes DEF TypeOK, RunsInOrder
  <2> QED
    BY <2>2, <2>3, <2>4 DEF LiveRunIsStoppable, Alive
<1>8. ASSUME NEW c \in Clients, Attach(c) PROVE RunsInv'
  <2> DEFINE g == conn[c]
             copied == Replayed(g, cursor[c])
             k == Cardinality(copied)
             copy == [i \in 1..k |-> counter[g] - k + i]
  <2>1. g \in Runs /\ counter[g] \in Nat /\ counter[g] <= MaxId
    BY <1>8 DEF Attach, TypeOK, RunsInOrder
  <2>2. copied \subseteq 1..counter[g]
    BY DEF Replayed, Buffered
  <2>3. k \in 0..counter[g]
    <3> DEFINE n == counter[g]
    <3>1. n \in Nat /\ copied \in SUBSET (1..n)
      BY <2>1, <2>2
    <3> HIDE DEF g, copied, n
    <3>2. IsFiniteSet(1..n) /\ Cardinality(1..n) = n
      BY <3>1, FS_Interval
    <3>3. IsFiniteSet(copied) /\ Cardinality(copied) <= n
      BY <3>1, <3>2, FS_Subset
    <3>4. Cardinality(copied) \in Nat
      BY <3>3, FS_CardinalityType
    <3> QED
      BY <3>1, <3>3, <3>4 DEF n
  <2>4. copy \in Seq(Ids)
    <3> HIDE DEF g, k
    <3>1. \A i \in 1..k : counter[g] - k + i \in Ids
      BY <2>1, <2>3
    <3> QED
      BY <2>3, <3>1
  <2>5. /\ phase[c] = "opened"
        /\ phase' = [phase EXCEPT ![c] = "attached"]
        /\ replay' = [replay EXCEPT ![c] = copy]
        /\ UNCHANGED <<managerVars, runVars, conn, cursor, queue, got, base>>
        /\ lost' = [lost EXCEPT ![c] =
             {i \in @ : i <= cursor[c]} \cup ({i \in 1..counter[g] : i > cursor[c]} \ copied)]
    BY <1>8 DEF Attach
  <2> HIDE DEF copy, copied
  <2>6. lost' \in [Clients -> SUBSET Ids]
    BY <2>1, <2>5 DEF TypeOK
  <2> HIDE DEF g
  <2>7. TypeOK'
    BY <2>4, <2>5, <2>6 DEF TypeOK
  <2>8. RunsInOrder'
    BY <2>1, <2>5 DEF TypeOK, RunsInOrder, g
  <2> QED
    BY <2>5, <2>7, <2>8 DEF LiveRunIsStoppable, Alive
<1>9. ASSUME NEW c \in Clients, Yield(c) PROVE RunsInv'
  <2>1. /\ phase[c] = "attached"
        /\ UNCHANGED <<managerVars, runVars, phase, conn, cursor, base, lost>>
    BY <1>9 DEF Yield
  <2>2. CASE replay[c] # <<>>
    <3>1. replay[c] \in Seq(Ids) /\ Head(replay[c]) \in Ids /\ Tail(replay[c]) \in Seq(Ids)
      BY <2>2, HeadTailProperties DEF TypeOK
    <3>2. /\ got' = [got EXCEPT ![c] = Append(@, Head(replay[c]))]
          /\ replay' = [replay EXCEPT ![c] = Tail(@)]
          /\ queue' = queue
      BY <1>9, <2>2 DEF Yield
    <3>3. Append(got[c], Head(replay[c])) \in Seq(Ids)
      BY <3>1, AppendProperties DEF TypeOK
    <3>4. TypeOK'
      BY <2>1, <3>1, <3>2, <3>3 DEF TypeOK
    <3>5. RunsInOrder'
      BY <2>1, <3>2 DEF TypeOK, RunsInOrder
    <3> QED
      BY <2>1, <3>4, <3>5 DEF LiveRunIsStoppable, Alive
  <2>3. CASE replay[c] = <<>>
    <3>1. queue[c] # <<>>
      BY <1>9, <2>3 DEF Yield
    <3>2. /\ Head(queue[c]) \in Ids /\ Tail(queue[c]) \in Seq(Ids)
          /\ Len(Tail(queue[c])) = Len(queue[c]) - 1 /\ Len(queue[c]) \in Nat
      BY <3>1, HeadTailProperties DEF TypeOK
    <3>3. /\ got' = [got EXCEPT ![c] = Append(@, Head(queue[c]))]
          /\ queue' = [queue EXCEPT ![c] = Tail(@)]
          /\ replay' = replay
      BY <1>9, <2>3 DEF Yield
    <3>4. Append(got[c], Head(queue[c])) \in Seq(Ids)
      BY <3>2, AppendProperties DEF TypeOK
    <3>5. TypeOK'
      BY <2>1, <3>2, <3>3, <3>4 DEF TypeOK
    <3>6. RunsInOrder'
      BY <2>1, <3>2, <3>3 DEF TypeOK, RunsInOrder
    <3> QED
      BY <2>1, <3>5, <3>6 DEF LiveRunIsStoppable, Alive
  <2> QED
    BY <2>2, <2>3
<1>10. ASSUME NEW c \in Clients, Detach(c) PROVE RunsInv'
  BY <1>10 DEF Detach, TypeOK, RunsInOrder, LiveRunIsStoppable, Alive
<1>11. ASSUME NEW c \in Clients, Drop(c) PROVE RunsInv'
  <2>1. TypeOK'
    BY <1>11 DEF Drop, TypeOK
  <2>2. RunsInOrder'
    BY <1>11 DEF Drop, TypeOK, RunsInOrder
  <2> QED
    BY <1>11, <2>1, <2>2 DEF Drop, LiveRunIsStoppable, Alive
<1>12. ASSUME Stop \/ Expire \/ Shutdown PROVE RunsInv'
  <2>1. TypeOK'
    BY <1>12 DEF Stop, Expire, Shutdown, Evict, Cancel, TypeOK
  <2>2. RunsInOrder'
    BY <1>12 DEF Stop, Expire, Shutdown, TypeOK, RunsInOrder
  <2>3. LiveRunIsStoppable'
    BY <1>12 DEF Stop, Expire, Shutdown, Evict, Cancel, TypeOK, RunsInOrder,
                 LiveRunIsStoppable, Alive
  <2> QED
    BY <2>1, <2>2, <2>3
<1>13. CASE UNCHANGED vars
  BY <1>13 DEF vars, TypeOK, RunsInOrder, LiveRunIsStoppable, Alive
<1> QED
  BY <1>1, <1>2, <1>3, <1>4, <1>5, <1>6, <1>7, <1>8, <1>9, <1>10, <1>11, <1>12, <1>13
     DEF Next, Runner, Client

\* Every variable keeps the values the code can give it: in particular an id never
\* exceeds what the run produced, and a closed connection holds no events.
THEOREM StreamTypeCorrect == Spec => []TypeOK
<1>1. RunsInv => TypeOK
  OBVIOUS
<1> QED
  BY <1>1, RunsInit, RunsStep, PTL DEF Spec

\* chat, stop_generation, cleanup and shutdown leave no run of a topic going that
\* stop_generation could not find and that was not cancelled either.
THEOREM NoOrphanRun == Spec => []LiveRunIsStoppable
<1>1. RunsInv => LiveRunIsStoppable
  OBVIOUS
<1> QED
  BY <1>1, RunsInit, RunsStep, PTL DEF Spec

-----------------------------------------------------------------------------
(* Sequences of ids.                                                       *)

USE DEF Increasing, Items

\* What a sequence holds after a concatenation, and when that is increasing.
LEMMA ConcatIncreasing ==
  ASSUME NEW s \in Seq(Int), NEW t \in Seq(Int)
  PROVE  /\ Items(s \o t) = Items(s) \cup Items(t)
         /\ /\ Increasing(s) /\ Increasing(t) /\ \A i \in Items(s), j \in Items(t) : i < j
            => Increasing(s \o t)
<1> DEFINE u == s \o t
<1>1. /\ u \in Seq(Int) /\ Len(u) = Len(s) + Len(t) /\ Len(s) \in Nat /\ Len(t) \in Nat
      /\ DOMAIN s = 1..Len(s) /\ DOMAIN t = 1..Len(t) /\ DOMAIN u = 1..Len(u)
      /\ \A i \in 1..Len(s) : u[i] = s[i]
      /\ \A i \in 1..Len(t) : u[Len(s) + i] = t[i]
  <2>1. /\ u \in Seq(Int) /\ Len(u) = Len(s) + Len(t)
        /\ \A i \in 1 .. Len(s) + Len(t) : u[i] = IF i <= Len(s) THEN s[i] ELSE t[i - Len(s)]
    BY ConcatProperties
  <2>2. Len(s) \in Nat /\ Len(t) \in Nat
    OBVIOUS
  <2> HIDE DEF u
  <2>3. \A i \in 1..Len(s) : u[i] = s[i]
    BY <2>1, <2>2
  <2>4. ASSUME NEW i \in 1..Len(t) PROVE u[Len(s) + i] = t[i]
    <3>1. /\ Len(s) + i \in 1 .. Len(s) + Len(t) /\ ~ (Len(s) + i <= Len(s))
          /\ (Len(s) + i) - Len(s) = i
      BY <2>2
    <3> QED
      BY <2>1, <3>1
  <2> QED
    BY <2>1, <2>2, <2>3, <2>4
<1> HIDE DEF u
<1>2. ASSUME NEW i \in 1..Len(u), i \notin 1..Len(s)
      PROVE  i - Len(s) \in 1..Len(t) /\ u[i] = t[i - Len(s)]
  <2>1. i - Len(s) \in 1..Len(t) /\ Len(s) + (i - Len(s)) = i
    BY <1>1, <1>2
  <2> QED
    BY <1>1, <2>1
<1>3. Items(u) = Items(s) \cup Items(t)
  <2>1. Items(u) \subseteq Items(s) \cup Items(t)
    BY <1>1, <1>2
  <2>2. Items(s) \subseteq Items(u)
    BY <1>1
  <2>3. Items(t) \subseteq Items(u)
    <3> SUFFICES ASSUME NEW i \in 1..Len(t) PROVE t[i] \in Items(u)
      BY <1>1
    <3> QED
      BY <1>1, Len(s) + i \in 1..Len(u)
  <2> QED
    BY <2>1, <2>2, <2>3
<1>4. ASSUME Increasing(s), Increasing(t), \A i \in Items(s), j \in Items(t) : i < j
      PROVE  Increasing(u)
  <2> SUFFICES ASSUME NEW i \in 1..Len(u), NEW j \in 1..Len(u), i < j PROVE u[i] < u[j]
    BY <1>1
  <2>1. CASE j \in 1..Len(s)
    <3>1. i \in 1..Len(s)
      BY <1>1, <2>1
    <3>2. s[i] < s[j]
      BY <1>1, <1>4, <2>1, <3>1
    <3> QED
      BY <1>1, <2>1, <3>1, <3>2
  <2>2. CASE i \in 1..Len(s) /\ j \notin 1..Len(s)
    <3>1. s[i] \in Items(s) /\ u[i] = s[i]
      BY <1>1, <2>2
    <3>2. t[j - Len(s)] \in Items(t) /\ u[j] = t[j - Len(s)]
      BY <1>1, <1>2, <2>2
    <3> HIDE DEF Items
    <3> QED
      BY <1>4, <3>1, <3>2
  <2>3. CASE i \notin 1..Len(s)
    <3>1. i - Len(s) \in 1..Len(t) /\ j - Len(s) \in 1..Len(t) /\ i - Len(s) < j - Len(s)
      BY <1>1, <1>2, <2>3
    <3>2. u[i] = t[i - Len(s)] /\ u[j] = t[j - Len(s)]
      BY <1>1, <1>2, <2>3
    <3> QED
      BY <1>1, <1>4, <3>1, <3>2
  <2> QED
    BY <2>1, <2>2, <2>3
<1> QED
  BY <1>3, <1>4 DEF u

\* The first element of an increasing sequence is its least.
LEMMA HeadIsLeast ==
  ASSUME NEW s \in Seq(Int), s # <<>>
  PROVE  /\ Head(s) \in Int /\ Tail(s) \in Seq(Int)
         /\ Items(s) = {Head(s)} \cup Items(Tail(s))
         /\ Increasing(s) => /\ Increasing(Tail(s))
                             /\ \A i \in Items(Tail(s)) : Head(s) < i
<1>1. /\ Head(s) = s[1] /\ Tail(s) \in Seq(Int) /\ Len(Tail(s)) = Len(s) - 1
      /\ \A i \in 1..Len(Tail(s)) : Tail(s)[i] = s[i + 1]
      /\ Len(s) \in Nat \ {0} /\ DOMAIN s = 1..Len(s) /\ s[1] \in Int
  BY HeadTailProperties
<1>2. DOMAIN Tail(s) = 1..Len(Tail(s))
  BY <1>1
<1> DEFINE t == Tail(s)
<1> HIDE DEF t
<1>3. Items(s) = {s[1]} \cup Items(t)
  <2>1. ASSUME NEW i \in 1..Len(s), i # 1 PROVE s[i] \in Items(t)
    <3>1. i - 1 \in 1..Len(t) /\ (i - 1) + 1 = i
      BY <1>1, <2>1 DEF t
    <3>2. t[i - 1] = s[i]
      BY <1>1, <3>1 DEF t
    <3> QED
      BY <1>2, <3>1, <3>2 DEF t
  <2>2. ASSUME NEW i \in 1..Len(t) PROVE t[i] \in Items(s)
    <3>1. i + 1 \in 1..Len(s) /\ t[i] = s[i + 1]
      BY <1>1 DEF t
    <3> QED
      BY <1>1, <3>1
  <2>3. 1 \in 1..Len(s)
    BY <1>1
  <2> QED
    BY <1>1, <1>2, <2>1, <2>2, <2>3, ZenonT(30) DEF t
<1>4. ASSUME Increasing(s) PROVE Increasing(t) /\ \A i \in Items(t) : s[1] < i
  <2>1. ASSUME NEW i \in 1..Len(t)
        PROVE  i + 1 \in 1..Len(s) /\ t[i] = s[i + 1] /\ s[1] < s[i + 1]
    <3>1. i + 1 \in 1..Len(s) /\ 1 \in 1..Len(s) /\ 1 < i + 1
      BY <1>1 DEF t
    <3> QED
      BY <1>1, <1>4, <3>1 DEF t
  <2>2. ASSUME NEW i \in 1..Len(t), NEW j \in 1..Len(t), i < j PROVE t[i] < t[j]
    <3>1. i + 1 < j + 1
      BY <2>2
    <3> QED
      BY <1>1, <1>4, <2>1, <3>1
  <2> QED
    BY <1>2, <2>1, <2>2 DEF t
<1> QED
  BY <1>1, <1>3, <1>4 DEF t

\* An element greater than all others is appended in order.
LEMMA AppendGreater ==
  ASSUME NEW s \in Seq(Int), NEW e \in Int, \A i \in Items(s) : i < e
  PROVE  /\ Append(s, e) \in Seq(Int) /\ Append(s, e) # <<>>
         /\ Items(Append(s, e)) = Items(s) \cup {e}
         /\ Append(s, e)[Len(Append(s, e))] = e
         /\ Increasing(s) => Increasing(Append(s, e))
<1> DEFINE u == Append(s, e)
<1>1. /\ u \in Seq(Int) /\ Len(u) = Len(s) + 1 /\ u[Len(s) + 1] = e
      /\ \A i \in 1..Len(s) : u[i] = s[i]
      /\ Len(s) \in Nat /\ DOMAIN s = 1..Len(s)
  BY AppendProperties
<1>2. DOMAIN u = 1..Len(u)
  BY <1>1
<1> HIDE DEF u
<1>3. Items(u) = Items(s) \cup {e}
  <2>1. \A i \in 1..Len(u) : i \in 1..Len(s) \/ i = Len(s) + 1
    BY <1>1
  <2>2. \A i \in 1..Len(s) : i \in 1..Len(u)
    BY <1>1
  <2>3. Len(s) + 1 \in 1..Len(u)
    BY <1>1
  <2> QED
    BY <1>1, <1>2, <2>1, <2>2, <2>3
<1>4. Increasing(s) => Increasing(u)
  <2> SUFFICES ASSUME Increasing(s), NEW i \in 1..Len(u), NEW j \in 1..Len(u), i < j
               PROVE  u[i] < u[j]
    BY <1>2
  <2>1. i \in 1..Len(s) /\ s[i] \in Items(s)
    BY <1>1, i \in 1..Len(s)
  <2>2. CASE j \in 1..Len(s)
    BY <1>1, <2>1, <2>2
  <2>3. CASE j = Len(s) + 1
    BY <1>1, <2>1, <2>3
  <2> QED
    BY <1>1, <2>2, <2>3
<1>5. u # <<>> /\ u[Len(u)] = e
  BY <1>1
<1> QED
  BY <1>1, <1>3, <1>4, <1>5 DEF u

\* The copy of the buffer is the newest part of the run.
LEMMA ReplayedIsNewest ==
  ASSUME TypeOK, NEW g \in Runs, NEW p \in Nat
  PROVE  /\ Cardinality(Replayed(g, p)) \in 0..counter[g]
         /\ Replayed(g, p) = (counter[g] - Cardinality(Replayed(g, p)) + 1)..counter[g]
<1> DEFINE n == counter[g]
           old == IF n > BufferSize THEN n - BufferSize ELSE 0
           m == IF p > n THEN n ELSE IF p > old THEN p ELSE old
<1>1. n \in Nat
  BY DEF TypeOK
<1>2. m \in 0..n
  <2>1. old \in 0..n
    BY <1>1
  <2> HIDE DEF old, n
  <2> QED
    BY <1>1, <2>1
<1>3. Replayed(g, p) = (m + 1)..n
  <2>1. Replayed(g, p) = {i \in 1..n : i > n - BufferSize /\ i > p}
    BY DEF Replayed, Buffered
  <2> HIDE DEF n
  <2>2. ASSUME NEW i \in 1..n PROVE (i > n - BufferSize /\ i > p) <=> i >= m + 1
    BY <1>1
  <2> HIDE DEF m
  <2>3. ASSUME NEW i \in (m + 1)..n PROVE i \in 1..n /\ i >= m + 1
    BY <1>1, <1>2
  <2>4. ASSUME NEW i \in 1..n, i >= m + 1 PROVE i \in (m + 1)..n
    BY <1>1, <1>2, <2>4
  <2> QED
    BY <2>1, <2>2, <2>3, <2>4
<1> HIDE DEF m
<1>4. Cardinality((m + 1)..n) = n - m
  <2>1. CASE m = n
    <3>1. (m + 1)..n = {}
      BY <1>1, <2>1
    <3> QED
      BY <1>1, <2>1, <3>1, FS_EmptySet
  <2>2. CASE m < n
    BY <1>1, <1>2, <2>2, FS_Interval
  <2> QED
    BY <1>1, <1>2, <2>1, <2>2
<1>5. n - (n - m) + 1 = m + 1
  BY <1>1, <1>2
<1> QED
  BY <1>1, <1>2, <1>3, <1>4, <1>5

\* Nothing is in the empty sequence.
LEMMA NothingInEmpty == Items(<<>>) = {} /\ Increasing(<<>>)
  OBVIOUS

\* Ids are integers.
LEMMA IdSequence ==
  ASSUME NEW s \in Seq(Ids)
  PROVE  s \in Seq(Int) /\ Items(s) \subseteq Ids /\ Items(s) \subseteq Int
<1>1. DOMAIN s = 1..Len(s) /\ \A i \in 1..Len(s) : s[i] \in Ids
  OBVIOUS
<1>2. Ids \subseteq Int
  OBVIOUS
<1>3. s \in Seq(Int)
  BY <1>1, <1>2, SeqMonotonic
<1> QED
  BY <1>1, <1>2, <1>3

HIDE DEF Items, Increasing

-----------------------------------------------------------------------------
(* Each client is given the events of its run in order, and those it is    *)
(* not given are counted as lost.                                          *)

\* What the client has got comes before what it is about to be given.
Ordered(c) ==
  /\ Increasing(got[c]) /\ Increasing(replay[c]) /\ Increasing(queue[c])
  /\ \A i \in Items(got[c]), j \in Items(replay[c]) \cup Items(queue[c]) : i < j
  /\ \A i \in Items(replay[c]), j \in Items(queue[c]) : i < j

\* All of it is of the run the client last asked for; a connection is opened with the
\* last id it has got, and ends only when that run is over.
OfRun(c) ==
  /\ conn[c] <= started
  /\ conn[c] = NoRun => got[c] = <<>> /\ phase[c] = "off"
  /\ conn[c] \in Runs =>
       \A i \in Items(got[c]) \cup Items(replay[c]) \cup Items(queue[c]) : i <= counter[conn[c]]
  /\ phase[c] = "opened" => cursor[c] = LastSeen(c)
  /\ phase[c] = "ended" => Terminal(conn[c])

\* Up to the last id it has got the client misses no event silently.
SeenOrLost(c) ==
  \A i \in Int : base[c] < i /\ i <= LastSeen(c) => i \in Items(got[c]) \cup lost[c]

\* While it is attached it misses none up to the newest.
InHand(c) ==
  phase[c] = "attached" => \A i \in 1..counter[conn[c]] : i > base[c] => i \in Accounted(c)

\* Nor when its stream has ended by itself.
AllSeen(c) ==
  phase[c] = "ended" =>
    \A i \in 1..counter[conn[c]] : i > base[c] => i \in Items(got[c]) \cup lost[c]

Fed(c) == Ordered(c) /\ OfRun(c) /\ SeenOrLost(c) /\ InHand(c) /\ AllSeen(c)

OverIsFinished == \A g \in Runs : Terminal(g) => task[g] = "finished"

FeedInv == OverIsFinished /\ \A c \in Clients : Fed(c)

\* Before any run there is nothing to miss.
LEMMA FeedInit == Init => FeedInv
<1> SUFFICES ASSUME Init PROVE FeedInv
  OBVIOUS
<1>1. OverIsFinished
  BY DEF Init, OverIsFinished, Terminal
<1>2. ASSUME NEW c \in Clients PROVE Fed(c)
  <2>1. /\ got[c] = <<>> /\ replay[c] = <<>> /\ queue[c] = <<>> /\ phase[c] = "off"
        /\ conn[c] = NoRun /\ started = NoRun /\ base[c] = 0
    BY DEF Init
  <2>2. LastSeen(c) = 0
    BY <2>1 DEF LastSeen
  <2> QED
    BY <2>1, <2>2, NothingInEmpty DEF Fed, Ordered, OfRun, SeenOrLost, InHand, AllSeen
<1> QED
  BY <1>1, <1>2 DEF FeedInv

\* A step leaves the variables of a client as they are.
SameClient(c) ==
  /\ phase'[c] = phase[c] /\ conn'[c] = conn[c] /\ cursor'[c] = cursor[c]
  /\ replay'[c] = replay[c] /\ queue'[c] = queue[c]
  /\ got'[c] = got[c] /\ base'[c] = base[c] /\ lost'[c] = lost[c]

\* A client is fed as before by a step that leaves it and its run alone.
LEMMA Untouched ==
  ASSUME NEW c \in Clients, Fed(c), SameClient(c), conn[c] \in Runs \cup {NoRun},
         started \in Int, started' \in Int, started <= started',
         conn[c] \in Runs => /\ counter'[conn[c]] = counter[conn[c]]
                             /\ status'[conn[c]] = status[conn[c]]
  PROVE  Fed(c)'
<1>1. LastSeen(c)' = LastSeen(c)
  BY DEF LastSeen, SameClient
<1>2. Accounted(c)' = Accounted(c)
  BY DEF Accounted, SameClient
<1>3. Ordered(c)'
  BY DEF Fed, Ordered, SameClient
<1>4. SeenOrLost(c)'
  BY <1>1 DEF Fed, SeenOrLost, SameClient
<1>5. CASE conn[c] \in Runs
  <2>1. Terminal(conn[c])' <=> Terminal(conn[c])
    BY <1>5 DEF Terminal, SameClient
  <2>2. OfRun(c)'
    BY <1>1, <1>5, <2>1 DEF Fed, OfRun, SameClient
  <2>3. InHand(c)' /\ AllSeen(c)'
    BY <1>2, <1>5 DEF Fed, InHand, AllSeen, SameClient
  <2> QED
    BY <1>3, <1>4, <2>2, <2>3 DEF Fed
<1>6. CASE conn[c] = NoRun
  <2>1. phase[c] = "off"
    BY <1>6 DEF Fed, OfRun
  <2>2. OfRun(c)' /\ InHand(c)' /\ AllSeen(c)'
    BY <1>1, <1>6, <2>1 DEF Fed, OfRun, InHand, AllSeen, SameClient
  <2> QED
    BY <1>3, <1>4, <2>2 DEF Fed
<1> QED
  BY <1>5, <1>6

\* The ids of n events emitted after id b.
LEMMA FreshIds ==
  ASSUME NEW b \in Nat, NEW n \in Nat
  PROVE  /\ [i \in 1..n |-> b + i] \in Seq(Int) /\ Len([i \in 1..n |-> b + i]) = n
         /\ \A i \in 1..n : [h \in 1..n |-> b + h][i] = b + i
  OBVIOUS

\* Emitting goes on where the buffer and the queues are; what a full queue refuses is lost.
LEMMA EmitFeeds ==
  ASSUME TypeOK, RunsInOrder, FeedInv, NEW g \in Runs, NEW n \in 0..2,
         counter[g] + n <= MaxId, task[g] = "running", Emit(g, n), started' = started,
         \A h \in Runs \ {g} : status'[h] = status[h],
         NEW c \in Clients
  PROVE  Fed(c)'
<1> DEFINE fresh == [i \in 1..n |-> counter[g] + i]
           r == Room(c, g, n)
           part == SubSeq(fresh, 1, r)
<1>1. /\ counter' = [counter EXCEPT ![g] = @ + n] /\ counter[g] \in Nat
      /\ queue'[c] = queue[c] \o part
      /\ lost'[c] = lost[c] \cup (IF Subscribed(c, g) THEN {fresh[i] : i \in r + 1 .. n} ELSE {})
      /\ UNCHANGED <<phase, conn, cursor, replay, got, base>>
  <2>1. counter[g] \in Nat
    BY DEF TypeOK
  <2> QED
    BY <2>1 DEF Emit
<1>2. /\ got[c] \in Seq(Int) /\ replay[c] \in Seq(Int) /\ queue[c] \in Seq(Int)
      /\ conn[c] \in Runs \cup {NoRun} /\ started \in Int /\ base[c] \in Nat
      /\ Items(got[c]) \subseteq Int /\ Items(replay[c]) \subseteq Int /\ Items(queue[c]) \subseteq Int
  BY IdSequence DEF TypeOK
<1>3. r \in 0..n /\ (~ Subscribed(c, g) => r = 0)
  BY DEF Room, TypeOK, RunsInOrder
<1>4. Fed(c) /\ (Terminal(g) => task[g] = "finished")
  BY DEF FeedInv, OverIsFinished
<1>5. /\ part \in Seq(Int) /\ Increasing(part)
      /\ Items(part) = (counter[g] + 1)..(counter[g] + r)
      /\ {fresh[i] : i \in r + 1 .. n} = (counter[g] + r + 1)..(counter[g] + n)
  <2>1. fresh \in Seq(Int) /\ Len(fresh) = n /\ \A i \in 1..n : fresh[i] = counter[g] + i
    BY <1>1, FreshIds
  <2> HIDE DEF r
  <2>2. /\ part \in Seq(Int) /\ Len(part) = r /\ DOMAIN part = 1..r
        /\ \A i \in 1..r : part[i] = counter[g] + i
    <3> HIDE DEF fresh
    <3>1. \A i \in 1..r : fresh[i] \in Int
      BY <1>3, <2>1
    <3>2. part \in Seq(Int) /\ Len(part) = r /\ \A i \in 1..r : part[i] = fresh[i]
      BY <1>3, <2>1, <3>1, SubSeqProperties, Z3
    <3> QED
      BY <1>3, <2>1, <3>2
  <2> HIDE DEF part, fresh
  <2>3. Increasing(part)
    BY <1>1, <1>3, <2>2, SMTT(30) DEF Increasing
  <2>4. ASSUME NEW j \in (counter[g] + 1)..(counter[g] + r) PROVE j \in Items(part)
    <3>1. j - counter[g] \in 1..r /\ counter[g] + (j - counter[g]) = j
      BY <1>1, <1>3
    <3> QED
      BY <2>2, <3>1 DEF Items
  <2>5. Items(part) \subseteq (counter[g] + 1)..(counter[g] + r)
    BY <1>1, <1>3, <2>2 DEF Items
  <2>6. ASSUME NEW j \in (counter[g] + r + 1)..(counter[g] + n)
        PROVE  j \in {fresh[i] : i \in r + 1 .. n}
    <3>1. j - counter[g] \in r + 1 .. n /\ j - counter[g] \in 1..n /\ counter[g] + (j - counter[g]) = j
      BY <1>1, <1>3
    <3> QED
      BY <2>1, <3>1
  <2>7. ASSUME NEW i \in r + 1 .. n
        PROVE  fresh[i] \in (counter[g] + r + 1)..(counter[g] + n)
    <3>1. i \in 1..n /\ fresh[i] = counter[g] + i
      BY <1>3, <2>1
    <3> QED
      BY <1>1, <1>3, <3>1
  <2> QED
    BY <2>2, <2>3, <2>4, <2>5, <2>6, <2>7, ZenonT(30)
<1> HIDE DEF part, fresh, r
<1>6. CASE conn[c] # g
  <2>1. part = <<>>
    BY <1>3, <1>6, SubSeqEmpty DEF Subscribed, part
  <2>2. queue'[c] = queue[c] /\ lost'[c] = lost[c]
    BY <1>1, <1>2, <1>6, <2>1, ConcatEmptySeq DEF Subscribed
  <2>3. conn[c] \in Runs => counter'[conn[c]] = counter[conn[c]] /\ status'[conn[c]] = status[conn[c]]
    BY <1>1, <1>6 DEF TypeOK
  <2>4. SameClient(c)
    BY <1>1, <2>2 DEF SameClient
  <2> QED
    BY <1>2, <1>4, <2>3, <2>4, Untouched
<1>7. CASE conn[c] = g /\ phase[c] # "attached"
  <2>1. phase[c] # "ended"
    BY <1>4, <1>7 DEF Fed, OfRun
  <2>2. part = <<>> /\ ~ Subscribed(c, g)
    BY <1>3, <1>7, SubSeqEmpty DEF Subscribed, part
  <2>3. queue'[c] = queue[c] /\ lost'[c] = lost[c]
    BY <1>1, <1>2, <2>2, ConcatEmptySeq
  <2>4. LastSeen(c)' = LastSeen(c)
    BY <1>1 DEF LastSeen
  <2>5. OfRun(c)'
    <3>1. counter'[g] = counter[g] + n
      BY <1>1 DEF TypeOK
    <3> QED
      BY <1>1, <1>2, <1>4, <1>7, <2>1, <2>3, <2>4, <3>1 DEF Fed, OfRun
  <2> QED
    BY <1>1, <1>4, <1>7, <2>1, <2>3, <2>4, <2>5 DEF Fed, Ordered, SeenOrLost, InHand, AllSeen
<1>8. CASE conn[c] = g /\ phase[c] = "attached"
  <2>1. Subscribed(c, g) /\ counter'[g] = counter[g] + n
    BY <1>1, <1>8 DEF Subscribed, TypeOK
  <2>2. lost'[c] = lost[c] \cup ((counter[g] + r + 1)..(counter[g] + n))
    BY <1>1, <1>5, <2>1
  <2>3. \A i \in Items(got[c]) \cup Items(replay[c]) \cup Items(queue[c]) : i <= counter[g]
    BY <1>4, <1>8 DEF Fed, OfRun
  <2>4. /\ Items(queue'[c]) = Items(queue[c]) \cup ((counter[g] + 1)..(counter[g] + r))
        /\ Increasing(queue'[c])
    <3>1. \A i \in Items(queue[c]), j \in Items(part) : i < j
      BY <1>1, <1>2, <1>3, <1>5, <2>3
    <3>2. Increasing(queue[c])
      BY <1>4 DEF Fed, Ordered
    <3> QED
      BY <1>1, <1>2, <1>5, <3>1, <3>2, ConcatIncreasing, ZenonT(30)
  <2>5. \A i \in (counter[g] + 1)..(counter[g] + r) : i \in Int /\ i > counter[g] /\ i <= counter[g] + n
    BY <1>1, <1>3
  <2>6. Ordered(c)'
    BY <1>1, <1>2, <1>4, <2>3, <2>4, <2>5, SMTT(30) DEF Fed, Ordered
  <2>7. LastSeen(c)' = LastSeen(c)
    BY <1>1 DEF LastSeen
  <2>8. OfRun(c)'
    BY <1>1, <1>2, <1>4, <1>8, <2>1, <2>3, <2>4, <2>5, <2>7 DEF Fed, OfRun
  <2>9. SeenOrLost(c)'
    BY <1>1, <1>4, <2>2, <2>7 DEF Fed, SeenOrLost
  <2>10. InHand(c)'
    <3> SUFFICES ASSUME NEW i \in 1..(counter[g] + n), i > base[c] PROVE i \in Accounted(c)'
      BY <1>1, <1>8, <2>1 DEF InHand
    <3>1. CASE i \in 1..counter[g]
      <4>1. i \in Accounted(c)
        BY <1>4, <1>8, <3>1 DEF Fed, InHand
      <4> QED
        BY <1>1, <2>2, <2>4, <4>1 DEF Accounted
    <3>2. CASE i \in (counter[g] + 1)..(counter[g] + r)
      BY <2>4, <3>2 DEF Accounted
    <3>3. CASE i \in (counter[g] + r + 1)..(counter[g] + n)
      BY <2>2, <3>3 DEF Accounted
    <3> QED
      BY <1>1, <1>3, <3>1, <3>2, <3>3
  <2> QED
    BY <1>1, <1>8, <2>6, <2>8, <2>9, <2>10 DEF Fed, AllSeen
<1> QED
  BY <1>6, <1>7, <1>8

\* A client that asks for another run starts afresh; one that comes back to its run asks
\* for what follows the last event it has got.
LEMMA OpenFeeds ==
  ASSUME TypeOK, RunsInOrder, NEW c \in Clients, Fed(c), NEW g \in Runs, NEW p \in Nat,
         Open(c, g, p), started' \in Int, g <= started', counter' = counter,
         conn[c] = g => p = LastSeen(c)
  PROVE  Fed(c)'
<1>1. /\ phase[c] \in {"off", "ended"} /\ phase'[c] = "opened" /\ conn'[c] = g /\ cursor'[c] = p
      /\ got'[c] = (IF conn[c] = g THEN got[c] ELSE <<>>)
      /\ lost'[c] = (IF conn[c] = g THEN lost[c] ELSE {})
      /\ base'[c] = (IF conn[c] = g THEN base[c] ELSE p)
      /\ UNCHANGED <<replay, queue>>
  BY DEF Open, TypeOK
<1>2. replay[c] = <<>> /\ queue[c] = <<>>
  BY <1>1 DEF RunsInOrder
<1>3. InHand(c)' /\ AllSeen(c)'
  BY <1>1 DEF InHand, AllSeen
<1>4. CASE conn[c] = g
  <2>1. LastSeen(c)' = LastSeen(c)
    BY <1>1, <1>4 DEF LastSeen
  <2>2. Ordered(c)' /\ SeenOrLost(c)'
    BY <1>1, <1>2, <1>4, <2>1 DEF Fed, Ordered, SeenOrLost
  <2>3. OfRun(c)'
    BY <1>1, <1>2, <1>4, <2>1 DEF Fed, OfRun
  <2> QED
    BY <1>3, <2>2, <2>3 DEF Fed
<1>5. CASE conn[c] # g
  <2>1. got'[c] = <<>> /\ base'[c] = p
    BY <1>1, <1>5
  <2>2. LastSeen(c)' = p
    BY <2>1 DEF LastSeen
  <2>3. Ordered(c)' /\ SeenOrLost(c)'
    BY <1>1, <1>2, <2>1, <2>2, NothingInEmpty DEF Ordered, SeenOrLost
  <2>4. OfRun(c)'
    BY <1>1, <1>2, <2>1, <2>2, NothingInEmpty DEF OfRun
  <2> QED
    BY <1>3, <2>3, <2>4 DEF Fed
<1> QED
  BY <1>4, <1>5

\* subscribe(): what is newer than the cursor is copied, or has left the buffer.
LEMMA AttachFeeds ==
  ASSUME TypeOK, RunsInOrder, NEW c \in Clients, Fed(c), Attach(c)
  PROVE  Fed(c)'
<1> DEFINE g == conn[c]
           n == counter[g]
           k == Cardinality(Replayed(g, cursor[c]))
           copy == [i \in 1..k |-> n - k + i]
<1>1. /\ phase[c] = "opened" /\ phase'[c] = "attached" /\ replay'[c] = copy
      /\ lost'[c] = {i \in lost[c] : i <= cursor[c]}
                     \cup ({i \in 1..n : i > cursor[c]} \ Replayed(g, cursor[c]))
      /\ UNCHANGED <<managerVars, runVars, conn, cursor, queue, got, base>>
  BY DEF Attach, TypeOK
<1>2. g \in Runs /\ n \in Nat /\ cursor[c] \in Nat /\ base[c] \in Nat
  BY <1>1 DEF RunsInOrder, TypeOK
<1>3. k \in 0..n /\ Replayed(g, cursor[c]) = (n - k + 1)..n
  BY <1>2, ReplayedIsNewest
<1>4. \A i \in (n - k + 1)..n : i > cursor[c]
  <2>1. \A i \in Replayed(g, cursor[c]) : i > cursor[c]
    BY DEF Replayed
  <2> QED
    BY <1>3, <2>1
<1>5. cursor[c] = LastSeen(c) /\ \A i \in Items(got[c]) : i <= n
  BY <1>1, <1>2 DEF Fed, OfRun
<1>6. queue[c] = <<>>
  BY <1>1 DEF RunsInOrder
<1>7. Increasing(copy) /\ Items(copy) = (n - k + 1)..n
  <2> HIDE DEF n, k
  <2>1. DOMAIN copy = 1..k /\ \A i \in 1..k : copy[i] = n - k + i
    OBVIOUS
  <2> HIDE DEF copy
  <2>2. Increasing(copy)
    BY <1>2, <1>3, <2>1 DEF Increasing
  <2>3. ASSUME NEW j \in (n - k + 1)..n PROVE j \in Items(copy)
    <3>1. j - (n - k) \in 1..k /\ n - k + (j - (n - k)) = j
      BY <1>2, <1>3
    <3> QED
      BY <2>1, <3>1 DEF Items
  <2>4. Items(copy) \subseteq (n - k + 1)..n
    BY <1>2, <1>3, <2>1 DEF Items
  <2> QED
    BY <2>2, <2>3, <2>4
<1> HIDE DEF copy, k, n, g
<1>8. got[c] \in Seq(Int) /\ Items(got[c]) \subseteq Int
  BY IdSequence DEF TypeOK
<1>9. \A i \in Items(got[c]) : i <= cursor[c]
  <2>1. CASE got[c] = <<>>
    BY <2>1, NothingInEmpty
  <2>2. CASE got[c] # <<>>
    <3>1. LastSeen(c) = got[c][Len(got[c])]
      BY <2>2 DEF LastSeen
    <3>2. Increasing(got[c])
      BY DEF Fed, Ordered
    <3>3. DOMAIN got[c] = 1..Len(got[c]) /\ Len(got[c]) \in Nat \ {0} /\ \A i \in 1..Len(got[c]) : got[c][i] \in Int
      BY <1>8, <2>2
    <3>4. ASSUME NEW i \in 1..Len(got[c]) PROVE got[c][i] <= got[c][Len(got[c])]
      <4>1. CASE i < Len(got[c])
        BY <3>2, <3>3, <4>1 DEF Increasing
      <4>2. CASE i = Len(got[c])
        BY <3>3, <4>2
      <4> QED
        BY <3>3, <4>1, <4>2
    <3> QED
      BY <1>5, <3>1, <3>3, <3>4 DEF Items
  <2> QED
    BY <2>1, <2>2
<1>10. UNCHANGED <<conn, counter, queue, got, base, cursor, started>>
  BY <1>1 DEF managerVars, runVars
<1>11. Ordered(c)'
  <2>1. Increasing(got[c])
    BY DEF Fed, Ordered
  <2>2. \A i \in Items(got[c]), j \in Items(copy) : i < j
    BY <1>2, <1>4, <1>7, <1>8, <1>9
  <2> QED
    BY <1>1, <1>6, <1>7, <1>10, <2>1, <2>2, NothingInEmpty DEF Ordered
<1>12. OfRun(c)'
  <2>1. \A i \in Items(copy) : i <= n
    BY <1>2, <1>7
  <2>2. conn[c] <= started /\ conn[c] # NoRun
    BY <1>1 DEF Fed, OfRun
  <2> QED
    BY <1>1, <1>5, <1>6, <1>10, <2>1, <2>2, NothingInEmpty DEF OfRun, n, g
<1>13. LastSeen(c)' = LastSeen(c)
  BY <1>10 DEF LastSeen
<1>14. SeenOrLost(c)'
  BY <1>1, <1>5, <1>10, <1>13 DEF Fed, SeenOrLost
<1>15. InHand(c)'
  <2> SUFFICES ASSUME NEW i \in 1..n, i > base[c] PROVE i \in Accounted(c)'
    BY <1>10 DEF InHand, n, g
  <2>1. CASE i <= cursor[c]
    <3>1. i \in Items(got[c]) \cup lost[c]
      BY <1>2, <1>5, <2>1 DEF Fed, SeenOrLost
    <3> QED
      BY <1>1, <1>10, <2>1, <3>1 DEF Accounted
  <2>2. CASE i > cursor[c]
    BY <1>1, <1>3, <1>7, <2>2 DEF Accounted
  <2> QED
    BY <1>2, <2>1, <2>2
<1> QED
  BY <1>1, <1>11, <1>12, <1>14, <1>15 DEF Fed, AllSeen

\* The next event the client is given is the least of those it is about to be given.
LEMMA YieldFeeds ==
  ASSUME TypeOK, RunsInOrder, NEW c \in Clients, Fed(c), Yield(c)
  PROVE  Fed(c)'
<1>1. /\ phase[c] = "attached"
      /\ UNCHANGED <<managerVars, runVars, phase, conn, cursor, base, lost>>
  BY DEF Yield
<1>2. /\ got[c] \in Seq(Int) /\ replay[c] \in Seq(Int) /\ queue[c] \in Seq(Int)
      /\ Items(got[c]) \subseteq Int /\ Items(replay[c]) \subseteq Int
      /\ Items(queue[c]) \subseteq Int /\ conn[c] \in Runs /\ base[c] \in Nat
      /\ counter[conn[c]] \in Nat
  BY <1>1, IdSequence DEF TypeOK, RunsInOrder
<1> DEFINE e == IF replay[c] # <<>> THEN Head(replay[c]) ELSE Head(queue[c])
<1>3. /\ got'[c] = Append(got[c], e) /\ e \in Int
      /\ \A i \in Items(got[c]) : i < e
      /\ Items(replay[c]) \cup Items(queue[c]) = {e} \cup Items(replay'[c]) \cup Items(queue'[c])
      /\ \A j \in Items(replay'[c]) \cup Items(queue'[c]) : e < j
      /\ Increasing(replay'[c]) /\ Increasing(queue'[c])
      /\ \A i \in Items(replay'[c]), j \in Items(queue'[c]) : i < j
  <2>1. CASE replay[c] # <<>>
    <3>1. /\ got'[c] = Append(got[c], Head(replay[c])) /\ replay'[c] = Tail(replay[c])
          /\ queue'[c] = queue[c] /\ e = Head(replay[c])
      BY <2>1 DEF Yield, TypeOK
    <3>2. /\ Head(replay[c]) \in Int
          /\ Items(replay[c]) = {Head(replay[c])} \cup Items(Tail(replay[c]))
          /\ Increasing(Tail(replay[c])) /\ \A i \in Items(Tail(replay[c])) : Head(replay[c]) < i
      BY <1>2, <2>1, HeadIsLeast DEF Fed, Ordered
    <3> HIDE DEF e
    <3> QED
      BY <3>1, <3>2 DEF Fed, Ordered
  <2>2. CASE replay[c] = <<>>
    <3>1. /\ queue[c] # <<>> /\ got'[c] = Append(got[c], Head(queue[c]))
          /\ queue'[c] = Tail(queue[c]) /\ replay'[c] = <<>> /\ e = Head(queue[c])
      BY <2>2 DEF Yield, TypeOK
    <3>2. /\ Head(queue[c]) \in Int
          /\ Items(queue[c]) = {Head(queue[c])} \cup Items(Tail(queue[c]))
          /\ Increasing(Tail(queue[c])) /\ \A i \in Items(Tail(queue[c])) : Head(queue[c]) < i
      BY <1>2, <3>1, HeadIsLeast DEF Fed, Ordered
    <3> HIDE DEF e
    <3> QED
      BY <2>2, <3>1, <3>2, NothingInEmpty DEF Fed, Ordered
  <2> QED
    BY <2>1, <2>2
<1> HIDE DEF e
<1>4. /\ Items(got'[c]) = Items(got[c]) \cup {e} /\ Increasing(got'[c]) /\ LastSeen(c)' = e
  <2>1. Increasing(got[c])
    BY DEF Fed, Ordered
  <2>2. /\ Append(got[c], e) # <<>> /\ Append(got[c], e)[Len(Append(got[c], e))] = e
        /\ Items(Append(got[c], e)) = Items(got[c]) \cup {e} /\ Increasing(Append(got[c], e))
    BY <1>2, <1>3, <2>1, AppendGreater
  <2> QED
    BY <1>3, <2>2 DEF LastSeen
<1>5. UNCHANGED <<conn, counter, base, cursor, started, phase, lost>>
  BY <1>1 DEF managerVars, runVars
<1>6. e \in Items(replay[c]) \cup Items(queue[c]) /\ e <= counter[conn[c]]
  BY <1>2, <1>3 DEF Fed, OfRun
<1>7. Ordered(c)'
  <2> SUFFICES ASSUME NEW i \in Items(got'[c]), NEW j \in Items(replay'[c]) \cup Items(queue'[c])
               PROVE  i < j
    BY <1>3, <1>4 DEF Ordered
  <2>1. j \in Int /\ e < j
    BY <1>2, <1>3
  <2>2. i = e \/ (i \in Int /\ i < e)
    BY <1>2, <1>3, <1>4
  <2> QED
    BY <1>3, <2>1, <2>2
<1>8. OfRun(c)'
  <2>1. \A i \in Items(got'[c]) \cup Items(replay'[c]) \cup Items(queue'[c]) : i <= counter[conn[c]]
    BY <1>2, <1>3, <1>4, <1>6 DEF Fed, OfRun
  <2> QED
    BY <1>1, <1>2, <1>5, <2>1 DEF Fed, OfRun
<1>9. SeenOrLost(c)'
  <2> SUFFICES ASSUME NEW i \in Int, base[c] < i, i <= e PROVE i \in Items(got'[c]) \cup lost[c]
    BY <1>4, <1>5 DEF SeenOrLost
  <2>1. i \in Accounted(c)
    BY <1>1, <1>2, <1>3, <1>6 DEF Fed, InHand
  <2>2. i \notin Items(replay'[c]) \cup Items(queue'[c])
    BY <1>3
  <2> QED
    BY <1>3, <1>4, <2>1, <2>2 DEF Accounted
<1>10. InHand(c)'
  <2>1. Accounted(c)' = Accounted(c)
    BY <1>3, <1>4, <1>5 DEF Accounted
  <2> QED
    BY <1>5, <2>1 DEF Fed, InHand
<1> QED
  BY <1>1, <1>7, <1>8, <1>9, <1>10 DEF Fed, AllSeen

\* A stream that ends by itself has given all it had, and a connection that breaks takes
\* with it only what the client has not got.
LEMMA LeaveFeeds ==
  ASSUME TypeOK, RunsInOrder, NEW c \in Clients, Fed(c), Detach(c) \/ Drop(c)
  PROVE  Fed(c)'
<1>1. UNCHANGED <<conn, counter, status, base, cursor, got, lost, started>>
  BY DEF Detach, Drop, managerVars, runVars
<1>2. /\ phase[c] \in {"opened", "attached"} /\ conn[c] \in Runs
      /\ replay'[c] = <<>> /\ queue'[c] = <<>>
      /\ phase'[c] = "off" \/ (phase'[c] = "ended" /\ Detach(c))
  BY DEF Detach, Drop, TypeOK, RunsInOrder
<1>3. LastSeen(c)' = LastSeen(c)
  BY <1>1 DEF LastSeen
<1>4. Ordered(c)' /\ SeenOrLost(c)' /\ InHand(c)'
  BY <1>1, <1>2, <1>3, NothingInEmpty DEF Fed, Ordered, SeenOrLost, InHand
<1>5. OfRun(c)'
  <2>1. phase'[c] = "ended" => Terminal(conn[c])'
    BY <1>1, <1>2 DEF Detach, Terminal
  <2> QED
    BY <1>1, <1>2, <1>3, <2>1, NothingInEmpty DEF Fed, OfRun
<1>6. AllSeen(c)'
  <2>1. CASE Detach(c)
    BY <1>1, <2>1, NothingInEmpty DEF Detach, Fed, InHand, AllSeen, Accounted
  <2>2. CASE phase'[c] = "off"
    BY <2>2 DEF AllSeen
  <2> QED
    BY <1>2, <2>1, <2>2
<1> QED
  BY <1>4, <1>5, <1>6 DEF Fed

\* A step of one client leaves the others as they are.
LEMMA OthersFed ==
  ASSUME RunsInv, FeedInv, NEW c \in Clients, NEW d \in Clients \ {c}, Client(c),
         started' \in Int, started <= started', counter' = counter,
         \A g \in 1..started : status'[g] = status[g]
  PROVE  Fed(d)'
<1>1. SameClient(d)
  BY SMTT(30) DEF Client, Chat, Reconnect, Open, Attach, Yield, Detach, Drop, SameClient, TypeOK, clientVars
<1>2. Fed(d) /\ conn[d] \in Runs \cup {NoRun} /\ started \in Int
  BY DEF FeedInv, TypeOK
<1>3. conn[d] \in Runs => conn[d] \in 1..started
  BY <1>2 DEF Fed, OfRun
<1> QED
  BY <1>1, <1>2, <1>3, Untouched

\* A new run changes no run there is.
LEMMA StartFeeds ==
  ASSUME RunsInv, FeedInv, StartRun(started + 1), started + 1 \in Runs
  PROVE  /\ started' = started + 1 /\ started' \in Int /\ started <= started' /\ counter' = counter
         /\ \A g \in 1..started : status'[g] = status[g]
         /\ OverIsFinished'
<1>1. /\ started' = started + 1 /\ counter' = counter /\ started \in Nat
      /\ status' = [status EXCEPT ![started + 1] = "streaming"]
      /\ task' = [task EXCEPT ![started + 1] = "scheduled"]
  BY DEF StartRun, TypeOK
<1>2. \A g \in Runs : g # started + 1 => status'[g] = status[g] /\ task'[g] = task[g]
  BY <1>1 DEF TypeOK
<1>3. status'[started + 1] = "streaming"
  BY <1>1 DEF TypeOK
<1>4. OverIsFinished'
  BY <1>2, <1>3 DEF FeedInv, OverIsFinished, Terminal
<1>5. \A g \in 1..started : g \in Runs /\ g # started + 1
  BY <1>1
<1> QED
  BY <1>1, <1>2, <1>4, <1>5

\* No step of a run, a client or the manager breaks it.
LEMMA FeedStep == RunsInv /\ FeedInv /\ [Next]_vars => FeedInv'
<1> SUFFICES ASSUME RunsInv, FeedInv, [Next]_vars PROVE FeedInv'
  OBVIOUS
<1>1. started \in Int /\ \A c \in Clients : Fed(c) /\ conn[c] \in Runs \cup {NoRun}
  BY DEF FeedInv, TypeOK
<1>2. ASSUME UNCHANGED <<started, counter, status, clientVars>> PROVE \A c \in Clients : Fed(c)'
  BY <1>1, <1>2, Untouched DEF SameClient, clientVars
<1>3. ASSUME NEW g \in Runs, FirstStep(g) \/ NeverStarts(g) PROVE FeedInv'
  <2>1. UNCHANGED <<started, counter, status, clientVars>>
    BY <1>3 DEF FirstStep, NeverStarts, managerVars
  <2>2. OverIsFinished'
    BY <1>3, <2>1 DEF FirstStep, NeverStarts, FeedInv, OverIsFinished, Terminal, TypeOK
  <2> QED
    BY <1>2, <2>1, <2>2 DEF FeedInv
<1>4. ASSUME NEW g \in Runs, Produce(g) PROVE FeedInv'
  <2>1. /\ Emit(g, 1) /\ counter[g] + 1 <= MaxId /\ task[g] = "running"
        /\ UNCHANGED <<started, status, task>>
    BY <1>4 DEF Produce, TypeOK, managerVars
  <2>2. \A c \in Clients : Fed(c)'
    <3> HIDE DEF MaxId
    <3> QED
      BY <2>1, EmitFeeds
  <2>3. OverIsFinished'
    BY <2>1 DEF FeedInv, OverIsFinished, Terminal
  <2> QED
    BY <2>2, <2>3 DEF FeedInv
<1>5. ASSUME NEW g \in Runs, Complete(g) \/ Fail(g) \/ Cancelled(g) PROVE FeedInv'
  <2>1. PICK s \in {"completed", "error", "cancelled"}, n \in 0..2 : End(g, s, n)
    BY <1>5 DEF Complete, Fail, Cancelled
  <2>2. /\ task[g] = "running" /\ Emit(g, n) /\ started' = started
        /\ status' = [status EXCEPT ![g] = s] /\ task' = [task EXCEPT ![g] = "finished"]
    BY <1>5, <2>1 DEF End, Complete, Fail, Cancelled, managerVars
  <2>3. counter[g] + n <= MaxId
    <3>1. counter[g] <= MaxEvents /\ counter[g] \in Nat
      BY <2>2 DEF RunsInOrder, TypeOK
    <3> QED
      BY <3>1
  <2>4. \A h \in Runs \ {g} : status'[h] = status[h] /\ task'[h] = task[h]
    BY <2>2 DEF TypeOK
  <2>5. \A c \in Clients : Fed(c)'
    <3> HIDE DEF MaxId
    <3> QED
      BY <2>2, <2>3, <2>4, EmitFeeds
  <2>6. OverIsFinished'
    BY <2>2, <2>4 DEF FeedInv, OverIsFinished, Terminal, TypeOK
  <2> QED
    BY <2>5, <2>6 DEF FeedInv
<1>6. ASSUME NEW c \in Clients, Chat(c) PROVE FeedInv'
  <2>1. started + 1 \in Runs /\ StartRun(started + 1) /\ Open(c, started + 1, 0) /\ Client(c)
    BY <1>6 DEF Chat, Client
  <2>2. Fed(c)'
    <3>1. conn[c] # started + 1
      BY <1>1 DEF Fed, OfRun
    <3> QED
      BY <1>1, <2>1, <3>1, StartFeeds, OpenFeeds
  <2>3. \A d \in Clients \ {c} : Fed(d)'
    BY <2>1, StartFeeds, OthersFed
  <2> QED
    BY <2>1, <2>2, <2>3, StartFeeds DEF FeedInv
<1>7. ASSUME ChatElsewhere PROVE FeedInv'
  <2>1. started + 1 \in Runs /\ StartRun(started + 1) /\ UNCHANGED clientVars
    BY <1>7 DEF ChatElsewhere
  <2>2. ASSUME NEW c \in Clients PROVE Fed(c)'
    <3>1. conn[c] \in Runs => conn[c] \in 1..started
      BY <1>1 DEF Fed, OfRun
    <3>2. SameClient(c)
      BY <2>1 DEF SameClient, clientVars
    <3> QED
      BY <1>1, <2>1, <3>1, <3>2, StartFeeds, Untouched
  <2> QED
    BY <2>1, <2>2, StartFeeds DEF FeedInv
<1>8. ASSUME NEW c \in Clients, Reconnect(c) PROVE FeedInv'
  <2>1. /\ entry \in Runs /\ entry <= started /\ Open(c, entry, LastSeen(c))
        /\ UNCHANGED <<started, counter, status, task>> /\ Client(c)
    BY <1>8 DEF Reconnect, RunsInOrder, TypeOK, Client, managerVars, runVars
  <2>2. LastSeen(c) \in Nat
    BY DEF LastSeen, TypeOK
  <2>3. Fed(c)'
    BY <1>1, <2>1, <2>2, OpenFeeds
  <2>4. \A d \in Clients \ {c} : Fed(d)'
    BY <1>1, <2>1, OthersFed
  <2>5. OverIsFinished'
    BY <2>1 DEF FeedInv, OverIsFinished, Terminal
  <2> QED
    BY <2>3, <2>4, <2>5 DEF FeedInv
<1>9. ASSUME NEW c \in Clients, Attach(c) \/ Yield(c) \/ Detach(c) \/ Drop(c) PROVE FeedInv'
  <2>1. UNCHANGED <<started, counter, status, task>> /\ Client(c)
    BY <1>9 DEF Attach, Yield, Detach, Drop, Client, managerVars, runVars
  <2>2. Fed(c)'
    BY <1>1, <1>9, AttachFeeds, YieldFeeds, LeaveFeeds
  <2>3. \A d \in Clients \ {c} : Fed(d)'
    BY <1>1, <2>1, OthersFed
  <2>4. OverIsFinished'
    BY <2>1 DEF FeedInv, OverIsFinished, Terminal
  <2> QED
    BY <2>2, <2>3, <2>4 DEF FeedInv
<1>10. ASSUME Stop \/ Expire \/ Shutdown \/ UNCHANGED vars PROVE FeedInv'
  <2>1. UNCHANGED <<started, counter, status, task, clientVars>>
    BY <1>10 DEF Stop, Expire, Shutdown, vars, managerVars, runVars
  <2>2. OverIsFinished'
    BY <2>1 DEF FeedInv, OverIsFinished, Terminal
  <2> QED
    BY <1>2, <2>1, <2>2 DEF FeedInv
<1> QED
  BY <1>3, <1>4, <1>5, <1>6, <1>7, <1>8, <1>9, <1>10 DEF Next, Runner, Client

\* So the clients are fed in every reachable state.
LEMMA FeedInvariant == Spec => [](RunsInv /\ FeedInv)
  BY RunsInit, RunsStep, FeedInit, FeedStep, PTL DEF Spec

\* Over its first connection and all reconnections, from the replay or live, a client is
\* given the events of a run in the order _emit gave them, and none twice.
THEOREM DeliveredInOrderOnce == Spec => []InOrderOnce
<1>1. RunsInv /\ FeedInv => InOrderOnce
  <2> SUFFICES ASSUME RunsInv, FeedInv, NEW c \in Clients
               PROVE  Increasing(got[c] \o replay[c] \o queue[c])
    BY DEF InOrderOnce
  <2>1. got[c] \in Seq(Int) /\ replay[c] \in Seq(Int) /\ queue[c] \in Seq(Int) /\ Ordered(c)
    BY IdSequence DEF TypeOK, FeedInv, Fed
  <2>2. /\ got[c] \o replay[c] \in Seq(Int) /\ Increasing(got[c] \o replay[c])
        /\ Items(got[c] \o replay[c]) = Items(got[c]) \cup Items(replay[c])
    BY <2>1, ConcatIncreasing, ConcatProperties DEF Ordered
  <2>3. \A i \in Items(got[c] \o replay[c]), j \in Items(queue[c]) : i < j
    BY <2>1, <2>2 DEF Ordered
  <2> QED
    BY <2>1, <2>2, <2>3, ConcatIncreasing DEF Ordered
<1> QED
  BY <1>1, FeedInvariant, PTL

\* While a client is attached each event after the id it first came with has been given,
\* is about to be given, or was overwritten in the buffer or refused by a full queue.
THEOREM NoSilentGap == Spec => []NothingMissedSilently
<1>1. FeedInv => NothingMissedSilently
  BY DEF FeedInv, Fed, InHand, NothingMissedSilently
<1> QED
  BY <1>1, FeedInvariant, PTL

\* A stream that ends by itself has given all its run emits, but what a full buffer or queue
\* gave up, and nothing is emitted after it.
THEOREM EndedStreamGaveAll == Spec => []EndedStreamIsWhole
<1>1. FeedInv => EndedStreamIsWhole
  BY DEF FeedInv, Fed, AllSeen, EndedStreamIsWhole
<1> QED
  BY <1>1, FeedInvariant, PTL

-----------------------------------------------------------------------------
(* A run that emits no more than a queue holds is an EventFeed.            *)

\* What a subscriber is about to be given are the newest events of its run, all of them.
Gapless(c) ==
  phase[c] = "attached" =>
    /\ Len(replay[c]) + Len(queue[c]) <= counter[conn[c]]
    /\ \A i \in 1..Len(replay[c]) :
         replay[c][i] = counter[conn[c]] - Len(queue[c]) - Len(replay[c]) + i
    /\ \A i \in 1..Len(queue[c]) : queue[c][i] = counter[conn[c]] - Len(queue[c]) + i

GaplessInv == \A c \in Clients : Gapless(c)

\* Queues as long as a run is refuse nothing.
LEMMA EmitGapless ==
  ASSUME QueueSize >= MaxId, TypeOK, RunsInOrder, GaplessInv, NEW g \in Runs, NEW n \in 0..2,
         counter[g] + n <= MaxId, Emit(g, n), NEW c \in Clients
  PROVE  /\ Gapless(c)'
         /\ queue'[c] \in Seq(Ids)
         /\ Len(queue'[c]) = Len(queue[c]) + (IF Subscribed(c, g) THEN n ELSE 0)
<1> DEFINE fresh == [i \in 1..n |-> counter[g] + i]
           r == Room(c, g, n)
           part == SubSeq(fresh, 1, r)
<1>1. /\ counter' = [counter EXCEPT ![g] = @ + n] /\ counter[g] \in Nat
      /\ queue'[c] = queue[c] \o part
      /\ UNCHANGED <<phase, conn, cursor, replay, got, base>>
  <2>1. counter[g] \in Nat
    BY DEF TypeOK
  <2> QED
    BY <2>1 DEF Emit
<1>2. queue[c] \in Seq(Ids) /\ replay[c] \in Seq(Ids) /\ Len(queue[c]) \in Nat /\ Len(replay[c]) \in Nat
  BY DEF TypeOK
<1>3. r = IF Subscribed(c, g) THEN n ELSE 0
  <2>0. counter[g] \in Nat /\ counter[g] + n <= MaxId /\ QueueSize >= MaxId /\ QueueSize \in Nat
    BY <1>1
  <2>1. CASE Subscribed(c, g)
    <3>1. phase[c] = "attached" /\ conn[c] = g /\ Gapless(c)
      BY <2>1 DEF GaplessInv, Subscribed
    <3>2. Len(replay[c]) + Len(queue[c]) <= counter[g]
      BY <3>1 DEF Gapless
    <3>3. Room(c, g, n) = IF n < QueueSize - Len(queue[c]) THEN n ELSE QueueSize - Len(queue[c])
      BY <2>1 DEF Room
    <3>4. n <= QueueSize - Len(queue[c])
      <4> DEFINE m == counter[g]
                 q == Len(queue[c])
                 l == Len(replay[c])
      <4>0. MaxId \in Nat
        OBVIOUS
      <4> HIDE DEF MaxId
      <4>1. m \in Nat /\ q \in Nat /\ l \in Nat /\ l + q <= m /\ m + n <= MaxId /\ MaxId \in Nat
        BY <1>2, <2>0, <3>2, <4>0 DEF m, q, l
      <4> HIDE DEF m, q, l, MaxId
      <4> QED
        BY <2>0, <4>1 DEF q
    <3>5. QueueSize - Len(queue[c]) \in Int /\ n \in Int
      BY <1>2
    <3> QED
      BY <2>1, <3>3, <3>4, <3>5
  <2>2. CASE ~ Subscribed(c, g)
    BY <2>2 DEF Room
  <2> QED
    BY <2>1, <2>2
<1>4. part \in Seq(Ids) /\ Len(part) = r /\ \A i \in 1..r : part[i] = counter[g] + i
  <2>1. /\ Len(fresh) = n /\ \A i \in 1..n : fresh[i] = counter[g] + i /\ fresh[i] \in Ids
    BY <1>1
  <2> HIDE DEF fresh, r
  <2>2. r \in 0..n /\ \A i \in 1..r : fresh[i] \in Ids
    BY <1>3, <2>1
  <2>3. part \in Seq(Ids) /\ Len(part) = r /\ \A i \in 1..r : part[i] = fresh[i]
    BY <2>1, <2>2, SubSeqProperties, Z3
  <2> QED
    BY <2>1, <2>2, <2>3
<1> HIDE DEF part, r, fresh
<1>5. /\ queue'[c] \in Seq(Ids) /\ Len(queue'[c]) = Len(queue[c]) + r
      /\ \A i \in 1 .. Len(queue[c]) + r :
           queue'[c][i] = IF i <= Len(queue[c]) THEN queue[c][i] ELSE part[i - Len(queue[c])]
  <2>1. /\ queue[c] \o part \in Seq(Ids) /\ Len(queue[c] \o part) = Len(queue[c]) + Len(part)
        /\ \A i \in 1 .. Len(queue[c]) + Len(part) :
             (queue[c] \o part)[i] = IF i <= Len(queue[c]) THEN queue[c][i] ELSE part[i - Len(queue[c])]
    BY <1>2, <1>4, ConcatProperties, ZenonT(30)
  <2> QED
    BY <1>1, <1>4, <2>1
<1>6. Gapless(c)'
  <2> SUFFICES ASSUME phase[c] = "attached" PROVE Gapless(c)'
    BY <1>1 DEF Gapless
  <2>1. conn[c] \in Runs /\ counter[conn[c]] \in Nat
    BY DEF TypeOK, RunsInOrder
  <2>2. counter'[conn[c]] = counter[conn[c]] + r
    BY <1>1, <1>3, <2>1 DEF Subscribed, TypeOK
  <2>3. /\ Len(replay[c]) + Len(queue[c]) <= counter[conn[c]]
        /\ \A i \in 1..Len(replay[c]) :
             replay[c][i] = counter[conn[c]] - Len(queue[c]) - Len(replay[c]) + i
        /\ \A i \in 1..Len(queue[c]) : queue[c][i] = counter[conn[c]] - Len(queue[c]) + i
    BY DEF GaplessInv, Gapless
  <2>4. r \in 0..2
    BY <1>3
  <2> DEFINE n0 == counter[conn[c]]
             n1 == counter'[conn[c]]
             q0 == Len(queue[c])
             q1 == Len(queue'[c])
             l == Len(replay[c])
  <2>5. /\ n0 \in Nat /\ q0 \in Nat /\ l \in Nat /\ n1 = n0 + r /\ q1 = q0 + r /\ l + q0 <= n0
    BY <1>2, <1>5, <2>1, <2>2, <2>3
  <2>6. \A i \in 1..l : replay[c][i] = n0 - q0 - l + i
    BY <2>3
  <2>7. \A i \in 1..q0 : queue[c][i] = n0 - q0 + i
    BY <2>3
  <2>8. \A i \in 1..q0 + r : queue'[c][i] = IF i <= q0 THEN queue[c][i] ELSE part[i - q0]
    BY <1>5
  <2>9. r > 0 => n0 = counter[g]
    BY <1>3, <2>4 DEF Subscribed
  <2> HIDE DEF n0, n1, q0, q1, l
  <2>10. ASSUME NEW i \in 1..q1 PROVE queue'[c][i] = n1 - q1 + i
    <3>1. CASE i <= q0
      BY <2>4, <2>5, <2>7, <2>8, <3>1
    <3>2. CASE i > q0
      <4>1. i - q0 \in 1..r /\ r > 0
        BY <2>4, <2>5, <3>2
      <4>2. part[i - q0] = n0 + (i - q0)
        BY <1>4, <2>9, <4>1
      <4> QED
        BY <2>4, <2>5, <2>8, <3>2, <4>2
    <3> QED
      BY <2>5, <3>1, <3>2
  <2>11. \A i \in 1..l : replay[c][i] = n1 - q1 - l + i
    BY <2>4, <2>5, <2>6
  <2>12. l + q1 <= n1
    BY <2>4, <2>5
  <2> QED
    BY <1>1, <2>10, <2>11, <2>12 DEF Gapless, n1, q1, l
<1> QED
  BY <1>3, <1>5, <1>6

\* A client's place is as far from the end of the run as there are events it is about to
\* be given.
LEMMA PlaceIsLeft ==
  ASSUME TypeOK, RunsInOrder, NEW c \in Clients, phase[c] = "attached", Gapless(c)
  PROVE  /\ Place(c) = counter[conn[c]] - Len(queue[c]) - Len(replay[c])
         /\ Place(c) \in 0..counter[conn[c]] /\ counter[conn[c]] \in Nat
         /\ Len(queue[c]) \in Nat /\ Len(replay[c]) \in Nat
<1>1. /\ conn[c] \in Runs /\ counter[conn[c]] \in Nat
      /\ queue[c] \in Seq(Ids) /\ replay[c] \in Seq(Ids)
  BY DEF TypeOK, RunsInOrder
<1>2. Len(queue[c]) \in Nat /\ Len(replay[c]) \in Nat
  BY <1>1
<1>3. Len(replay[c]) + Len(queue[c]) <= counter[conn[c]]
  BY DEF Gapless
<1>4. counter[conn[c]] - Len(queue[c]) - Len(replay[c]) \in 0..counter[conn[c]]
  <2> DEFINE n == counter[conn[c]]
             q == Len(queue[c])
             l == Len(replay[c])
  <2>1. n \in Nat /\ q \in Nat /\ l \in Nat /\ l + q <= n
    BY <1>1, <1>2, <1>3
  <2> HIDE DEF n, q, l
  <2>2. n - q - l \in 0..n
    BY <2>1
  <2> QED
    BY <2>2 DEF n, q, l
<1>5. CASE replay[c] # <<>>
  <2>1. 1 \in 1..Len(replay[c]) /\ Head(replay[c]) = replay[c][1]
    BY <1>1, <1>5
  <2>2. replay[c][1] = counter[conn[c]] - Len(queue[c]) - Len(replay[c]) + 1
    BY <2>1 DEF Gapless
  <2>3. Place(c) = replay[c][1] - 1
    BY <1>5, <2>1 DEF Place
  <2>4. Place(c) = counter[conn[c]] - Len(queue[c]) - Len(replay[c])
    <3> DEFINE n == counter[conn[c]]
               q == Len(queue[c])
               l == Len(replay[c])
    <3>1. n \in Nat /\ q \in Nat /\ l \in Nat /\ Place(c) = (n - q - l + 1) - 1
      BY <1>1, <1>2, <2>2, <2>3
    <3> HIDE DEF n, q, l
    <3>2. (n - q - l + 1) - 1 = n - q - l
      BY <3>1
    <3> QED
      BY <3>1, <3>2 DEF n, q, l
  <2> QED
    BY <1>1, <1>2, <1>4, <2>4
<1>6. CASE replay[c] = <<>> /\ queue[c] # <<>>
  <2>1. 1 \in 1..Len(queue[c]) /\ Head(queue[c]) = queue[c][1] /\ Len(replay[c]) = 0
    BY <1>1, <1>6
  <2> QED
    BY <1>1, <1>2, <1>3, <1>6, <2>1 DEF Gapless, Place
<1>7. CASE replay[c] = <<>> /\ queue[c] = <<>>
  <2>1. Len(queue[c]) = 0 /\ Len(replay[c]) = 0
    BY <1>7
  <2> QED
    BY <1>1, <1>7, <2>1 DEF Place
<1> QED
  BY <1>5, <1>6, <1>7

\* The copy of the buffer ends with the newest event.
LEMMA AttachGapless ==
  ASSUME TypeOK, RunsInOrder, NEW c \in Clients, Attach(c)
  PROVE  Gapless(c)'
<1> DEFINE g == conn[c]
           n == counter[g]
           k == Cardinality(Replayed(g, cursor[c]))
           copy == [i \in 1..k |-> n - k + i]
<1>1. /\ phase[c] = "opened" /\ replay'[c] = copy
      /\ UNCHANGED <<managerVars, runVars, conn, cursor, queue, got, base>>
  BY DEF Attach, TypeOK
<1>2. g \in Runs /\ n \in Nat /\ cursor[c] \in Nat
  BY <1>1 DEF RunsInOrder, TypeOK
<1>3. k \in 0..n
  BY <1>2, ReplayedIsNewest
<1>4. queue'[c] = <<>> /\ conn'[c] = g /\ counter'[g] = n
  BY <1>1 DEF RunsInOrder, runVars
<1> HIDE DEF n, k, g
<1>5. Len(copy) = k /\ \A i \in 1..k : copy[i] = n - k + i
  BY <1>3
<1> HIDE DEF copy
<1>6. Len(queue'[c]) = 0
  BY <1>4
<1> QED
  BY <1>1, <1>2, <1>3, <1>4, <1>5, <1>6 DEF Gapless

\* The event yielded is the one after the client's place.
LEMMA YieldGapless ==
  ASSUME TypeOK, RunsInOrder, NEW c \in Clients, Gapless(c), Yield(c)
  PROVE  /\ Gapless(c)' /\ phase'[c] = "attached"
         /\ Len(queue'[c]) + Len(replay'[c]) = Len(queue[c]) + Len(replay[c]) - 1
         /\ got'[c] = Append(got[c], Place(c) + 1)
<1>1. /\ phase[c] = "attached" /\ conn[c] \in Runs /\ counter[conn[c]] \in Nat
      /\ queue[c] \in Seq(Ids) /\ replay[c] \in Seq(Ids)
      /\ UNCHANGED <<phase, conn, counter>>
  BY DEF Yield, TypeOK, RunsInOrder, runVars
<1> DEFINE n == counter[conn[c]]
           q == Len(queue[c])
           l == Len(replay[c])
<1>2. n \in Nat /\ q \in Nat /\ l \in Nat
  BY <1>1
<1>3. /\ l + q <= n
      /\ \A i \in 1..l : replay[c][i] = n - q - l + i
      /\ \A i \in 1..q : queue[c][i] = n - q + i
  BY <1>1 DEF Gapless
<1>4. CASE replay[c] # <<>>
  <2>1. /\ got'[c] = Append(got[c], Head(replay[c])) /\ replay'[c] = Tail(replay[c])
        /\ queue'[c] = queue[c]
    BY <1>4 DEF Yield, TypeOK
  <2>2. /\ Len(Tail(replay[c])) = l - 1 /\ \A i \in 1..(l - 1) : Tail(replay[c])[i] = replay[c][i + 1]
        /\ l > 0 /\ Head(replay[c]) \in Int
    BY <1>1, <1>4, HeadTailProperties
  <2>3. Head(replay[c]) = Place(c) + 1
    BY <1>1, <1>4, <2>2 DEF Place
  <2> HIDE DEF n, q, l
  <2>4. ASSUME NEW i \in 1..(l - 1) PROVE Tail(replay[c])[i] = n - q - (l - 1) + i
    <3>1. i + 1 \in 1..l
      BY <1>2
    <3>2. Tail(replay[c])[i] = n - q - l + (i + 1)
      BY <1>3, <2>2, <3>1
    <3>3. i \in Int /\ n - q - l + (i + 1) = n - q - (l - 1) + i
      BY <1>2
    <3> QED
      BY <3>2, <3>3
  <2>5. (l - 1) + q <= n /\ q + (l - 1) = q + l - 1
    BY <1>2, <1>3
  <2>6. /\ conn'[c] = conn[c] /\ counter'[conn[c]] = n /\ Len(queue'[c]) = q /\ queue'[c] = queue[c]
        /\ replay'[c] = Tail(replay[c]) /\ Len(replay'[c]) = l - 1
    BY <1>1, <2>1, <2>2 DEF n, q
  <2>7. Gapless(c)'
    BY <1>3, <2>4, <2>5, <2>6 DEF Gapless
  <2> QED
    BY <1>1, <2>1, <2>3, <2>5, <2>6, <2>7 DEF q, l
<1>5. CASE replay[c] = <<>>
  <2>1. /\ queue[c] # <<>> /\ got'[c] = Append(got[c], Head(queue[c]))
        /\ queue'[c] = Tail(queue[c]) /\ replay'[c] = <<>> /\ l = 0
    BY <1>5 DEF Yield, TypeOK
  <2>2. /\ Len(Tail(queue[c])) = q - 1 /\ \A i \in 1..(q - 1) : Tail(queue[c])[i] = queue[c][i + 1]
        /\ q > 0 /\ Head(queue[c]) \in Int
    BY <1>1, <2>1, HeadTailProperties, SMTT(30)
  <2>3. Head(queue[c]) = Place(c) + 1
    BY <1>1, <1>5, <2>1, <2>2 DEF Place
  <2>4. Len(replay'[c]) = 0
    BY <2>1
  <2> HIDE DEF n, q, l
  <2>5. ASSUME NEW i \in 1..(q - 1) PROVE Tail(queue[c])[i] = n - (q - 1) + i
    <3>1. i + 1 \in 1..q
      BY <1>2
    <3>2. Tail(queue[c])[i] = n - q + (i + 1)
      BY <1>3, <2>2, <3>1
    <3>3. i \in Int /\ n - q + (i + 1) = n - (q - 1) + i
      BY <1>2
    <3> QED
      BY <3>2, <3>3
  <2>6. l = 0 /\ 0 + (q - 1) <= n /\ (q - 1) + 0 = q + l - 1
    BY <1>2, <1>3, <2>1
  <2>7. /\ conn'[c] = conn[c] /\ counter'[conn[c]] = n /\ queue'[c] = Tail(queue[c])
        /\ Len(queue'[c]) = q - 1 /\ Len(replay'[c]) = 0
    BY <1>1, <2>1, <2>2, <2>4 DEF n
  <2>8. Gapless(c)'
    BY <2>5, <2>6, <2>7 DEF Gapless
  <2> QED
    BY <1>1, <2>1, <2>3, <2>6, <2>7, <2>8 DEF q, l
<1> QED
  BY <1>4, <1>5

\* No step leaves a gap in front of a client.
LEMMA GaplessStep ==
  ASSUME QueueSize >= MaxId, RunsInv, GaplessInv, [Next]_vars
  PROVE  GaplessInv'
<1>1. ASSUME NEW c \in Clients, SameClient(c), counter' = counter PROVE Gapless(c)'
  BY <1>1 DEF GaplessInv, Gapless, SameClient
<1>2. ASSUME NEW c \in Clients, phase'[c] # "attached" PROVE Gapless(c)'
  BY <1>2 DEF Gapless
<1>3. ASSUME UNCHANGED <<counter, clientVars>> PROVE GaplessInv'
  BY <1>1, <1>3 DEF GaplessInv, SameClient, clientVars
<1>4. ASSUME NEW g \in Runs, NEW n \in 0..2, counter[g] + n <= MaxId, Emit(g, n) PROVE GaplessInv'
  <2> SUFFICES ASSUME NEW c \in Clients PROVE Gapless(c)'
    BY DEF GaplessInv
  <2> HIDE DEF MaxId
  <2> QED
    BY <1>4, EmitGapless
<1>5. ASSUME NEW c \in Clients, Client(c) PROVE GaplessInv'
  <2>1. counter' = counter
    BY <1>5 DEF Client, Chat, StartRun, Reconnect, Attach, Yield, Detach, Drop, runVars
  <2>2. ASSUME NEW d \in Clients \ {c} PROVE SameClient(d)
    BY <1>5, SMTT(30) DEF Client, Chat, Reconnect, Open, Attach, Yield, Detach, Drop, SameClient, TypeOK, clientVars
  <2>3. Gapless(c)'
    <3>1. CASE Chat(c) \/ Reconnect(c) \/ Detach(c) \/ Drop(c)
      BY <1>2, <3>1 DEF Chat, Reconnect, Open, Detach, Drop, TypeOK
    <3>2. CASE Attach(c)
      BY <3>2, AttachGapless
    <3>3. CASE Yield(c)
      BY <3>3, YieldGapless DEF GaplessInv
    <3> QED
      BY <1>5, <3>1, <3>2, <3>3 DEF Client
  <2> QED
    BY <1>1, <2>1, <2>2, <2>3 DEF GaplessInv
<1>6. ASSUME NEW g \in Runs, Runner(g) PROVE GaplessInv'
  <2>1. CASE FirstStep(g) \/ NeverStarts(g)
    BY <1>3, <2>1 DEF FirstStep, NeverStarts
  <2>2. CASE Produce(g)
    <3>1. Emit(g, 1) /\ counter[g] + 1 <= MaxId
      BY <2>2 DEF Produce, TypeOK
    <3> HIDE DEF MaxId
    <3> QED
      BY <1>4, <3>1
  <2>3. CASE Complete(g) \/ Fail(g) \/ Cancelled(g)
    <3>1. PICK n \in 0..2 : Emit(g, n)
      BY <2>3 DEF Complete, Fail, Cancelled, End
    <3>2. counter[g] <= MaxEvents /\ counter[g] \in Nat
      BY <2>3 DEF Complete, Fail, Cancelled, RunsInOrder, TypeOK
    <3>3. counter[g] + n <= MaxId
      BY <3>2
    <3> HIDE DEF MaxId
    <3> QED
      BY <1>4, <3>1, <3>3
  <2> QED
    BY <1>6, <2>1, <2>2, <2>3 DEF Runner
<1>7. CASE ChatElsewhere \/ Stop \/ Expire \/ Shutdown \/ UNCHANGED vars
  BY <1>3, <1>7 DEF ChatElsewhere, StartRun, Stop, Expire, Shutdown, vars, runVars
<1> QED
  BY <1>5, <1>6, <1>7 DEF Next

\* At first nobody is attached.
LEMMA GaplessInit == Init => GaplessInv
  BY DEF Init, GaplessInv, Gapless

\* A client that is attached has its place in the run, any other none.
Places ==
  \A c \in Clients :
    /\ phase[c] # "attached" => Place(c) = 0
    /\ phase[c] = "attached" =>
         /\ Place(c) = counter[conn[c]] - Len(queue[c]) - Len(replay[c])
         /\ Place(c) \in 0..counter[conn[c]] /\ counter[conn[c]] \in Nat
         /\ Len(queue[c]) \in Nat /\ Len(replay[c]) \in Nat

\* It follows from the invariants.
LEMMA PlacesKnown == RunsInv /\ GaplessInv => Places
<1> SUFFICES ASSUME RunsInv, GaplessInv, NEW c \in Clients
             PROVE  /\ phase[c] # "attached" => Place(c) = 0
                    /\ phase[c] = "attached" =>
                         /\ Place(c) = counter[conn[c]] - Len(queue[c]) - Len(replay[c])
                         /\ Place(c) \in 0..counter[conn[c]] /\ counter[conn[c]] \in Nat
                         /\ Len(queue[c]) \in Nat /\ Len(replay[c]) \in Nat
  BY DEF Places
<1>1. CASE phase[c] # "attached"
  BY <1>1 DEF Place
<1>2. CASE phase[c] = "attached"
  BY <1>2, PlaceIsLeft DEF GaplessInv
<1> QED
  BY <1>1, <1>2

\* What the steps below start from and end in.
Whole == RunsInv /\ FeedInv /\ GaplessInv /\ Places

\* The feed begins where the stream session does.
LEMMA FeedStarts == Init => Feed!Init
  BY DEF Init, Feed!Init, Place

\* Nothing a reader or a run could tell happens.
LEMMA FeedStutters ==
  ASSUME Whole, UNCHANGED <<counter, clientVars>>,
         \A g \in Runs : task'[g] = "finished" <=> task[g] = "finished"
  PROVE  UNCHANGED Feed!vars
<1>1. \A c \in Clients : Place(c)' = Place(c)
  BY DEF Place, clientVars
<1>2. [g \in Runs |-> task[g] = "finished"]' = [g \in Runs |-> task[g] = "finished"]
  OBVIOUS
<1> QED
  BY <1>1, <1>2 DEF Feed!vars, clientVars

\* A run emits events, the last of which end it.
LEMMA EmitPublishes ==
  ASSUME QueueSize >= MaxId, Whole, Places', NEW g \in Runs, NEW n \in 0..2,
         counter[g] + n <= MaxId, Emit(g, n), NEW end \in BOOLEAN, task[g] # "finished",
         \A h \in Runs : task'[h] = "finished" <=> IF h = g THEN end ELSE task[h] = "finished"
  PROVE  Feed!Publish(g)
<1>1. /\ counter' = [counter EXCEPT ![g] = @ + n]
      /\ UNCHANGED <<phase, conn, replay, got>>
  BY DEF Emit
<1>2. ASSUME NEW c \in Clients PROVE Place(c)' = Place(c)
  <2>1. CASE phase[c] # "attached"
    BY <1>1, <2>1 DEF Place
  <2>2. CASE phase[c] = "attached"
    <3> DEFINE r == IF Subscribed(c, g) THEN n ELSE 0
    <3>1. Len(queue'[c]) = Len(queue[c]) + r
      <4> HIDE DEF MaxId
      <4> QED
        BY EmitGapless DEF Whole
    <3>2. conn[c] \in Runs /\ counter'[conn[c]] = counter[conn[c]] + r
      BY <1>1, <2>2 DEF Whole, TypeOK, RunsInOrder, Subscribed
    <3>3. r \in Int
      OBVIOUS
    <3> HIDE DEF r
    <3>4. /\ Place(c) = counter[conn[c]] - Len(queue[c]) - Len(replay[c])
          /\ counter[conn[c]] \in Nat /\ Len(queue[c]) \in Nat /\ Len(replay[c]) \in Nat
      BY <2>2 DEF Whole, Places
    <3>5. Place(c)' = counter'[conn[c]] - Len(queue'[c]) - Len(replay[c])
      BY <1>1, <2>2 DEF Places
    <3> DEFINE m == counter[conn[c]]
               q == Len(queue[c])
               l == Len(replay[c])
    <3>6. m \in Nat /\ q \in Nat /\ l \in Nat
      BY <3>4
    <3>7. Place(c) = m - q - l /\ Place(c)' = (m + r) - (q + r) - l
      BY <3>1, <3>2, <3>4, <3>5
    <3> HIDE DEF m, q, l
    <3>8. (m + r) - (q + r) - l = m - q - l
      BY <3>3, <3>6
    <3> QED
      BY <3>7, <3>8
  <2> QED
    BY <2>1, <2>2
<1>3. [h \in Runs |-> task[h] = "finished"]' =
        [[h \in Runs |-> task[h] = "finished"] EXCEPT ![g] = end]
  OBVIOUS
<1> QED
  BY <1>1, <1>2, <1>3 DEF Feed!Publish

\* A step of one client leaves the place of every other.
LEMMA PlaceKept ==
  ASSUME NEW c \in Clients, SameClient(c), counter' = counter
  PROVE  Place(c)' = Place(c)
BY DEF Place, SameClient

\* The step of a client is a step of the reader, or none a reader could tell.
LEMMA ClientReads ==
  ASSUME Whole, Whole', NEW c \in Clients, Client(c)
  PROVE  \/ Feed!Turn(c) \/ (\E g \in Runs : Feed!Join(c, g)) \/ Feed!Read(c)
         \/ Feed!Finish(c) \/ Feed!Leave(c) \/ UNCHANGED Feed!vars
<1>0. TypeOK
  BY DEF Whole
<1>1. counter' = counter
  BY DEF Client, Chat, StartRun, Reconnect, Attach, Yield, Detach, Drop, runVars
<1>2. ASSUME NEW d \in Clients \ {c} PROVE SameClient(d) /\ Place(d)' = Place(d)
  <2>1. SameClient(d)
    BY <1>0 DEF Client, Chat, Reconnect, Open, Attach, Yield, Detach, Drop, SameClient, TypeOK, clientVars
  <2> QED
    BY <1>1, <2>1, PlaceKept
<1>3. [g \in Runs |-> task[g] = "finished"]' = [g \in Runs |-> task[g] = "finished"]
  <2>1. \A g \in Runs : task'[g] = "finished" <=> task[g] = "finished"
    <3>1. CASE Chat(c)
      BY <3>1 DEF Chat, StartRun, Whole, TypeOK, RunsInOrder
    <3>2. CASE ~ Chat(c)
      BY <3>2 DEF Client, Reconnect, Attach, Yield, Detach, Drop, runVars
    <3> QED
      BY <3>1, <3>2
  <2> QED
    BY <2>1
<1> DEFINE reading == [d \in Clients |-> IF phase[d] = "attached" THEN conn[d] ELSE NoRun]
           done    == [d \in Clients |-> phase[d] = "ended"]
           place   == [d \in Clients |-> Place(d)]
<1>4. \A d \in Clients \ {c} :
        /\ reading'[d] = reading[d] /\ (phase'[d] = "ended") = (phase[d] = "ended") /\ place'[d] = place[d]
  BY <1>2 DEF SameClient
<1>5. CASE Chat(c) \/ Reconnect(c)
  <2>1. \E g \in Runs, p \in Int : Open(c, g, p)
    <3>1. CASE Chat(c)
      BY <3>1 DEF Chat
    <3>2. CASE Reconnect(c)
      <4>1. entry \in Runs /\ LastSeen(c) \in Int
        BY <1>0, <3>2 DEF Reconnect, TypeOK, LastSeen
      <4> QED
        BY <3>2, <4>1 DEF Reconnect
    <3> QED
      BY <1>5, <3>1, <3>2
  <2> PICK g \in Runs, p \in Int : Open(c, g, p)
    BY <2>1
  <2>2. /\ phase[c] \in {"off", "ended"} /\ phase' = [phase EXCEPT ![c] = "opened"]
        /\ got' = [got EXCEPT ![c] = IF conn[c] = g THEN @ ELSE <<>>]
    BY DEF Open
  <2>3. phase[c] # "attached" /\ phase'[c] = "opened"
    BY <1>0, <2>2 DEF TypeOK
  <2>4. Place(c) = 0 /\ Place(c)' = 0
    BY <2>3 DEF Place
  <2>5. reading' = reading /\ reading[c] = NoRun /\ place' = place
    BY <1>4, <2>3, <2>4
  <2>6. done' = [done EXCEPT ![c] = FALSE]
    BY <1>4, <2>2 DEF Whole, TypeOK
  <2>7. got' = got \/ got' = [got EXCEPT ![c] = <<>>]
    BY <2>2 DEF Whole, TypeOK
  <2>8. Feed!Turn(c)
    BY <1>1, <1>3, <2>5, <2>6, <2>7 DEF Feed!Turn
  <2> QED
    BY <2>8
<1>6. CASE Attach(c)
  <2>1. /\ phase[c] = "opened" /\ phase' = [phase EXCEPT ![c] = "attached"] /\ conn' = conn /\ got' = got
        /\ phase'[c] = "attached" /\ conn[c] \in Runs
    BY <1>6 DEF Attach, Whole, TypeOK, RunsInOrder
  <2>2. reading[c] = NoRun /\ reading' = [reading EXCEPT ![c] = conn[c]]
    BY <1>4, <2>1
  <2>3. done' = done /\ ~ done[c]
    BY <1>4, <2>1
  <2>4. place' = [place EXCEPT ![c] = Place(c)'] /\ Place(c)' \in 0..counter[conn[c]]
    BY <1>1, <1>4, <2>1 DEF Whole, Places
  <2>5. PICK g \in Runs : g = conn[c]
    BY <2>1
  <2>6. Feed!Join(c, g)
    BY <1>1, <1>3, <2>1, <2>2, <2>3, <2>4, <2>5 DEF Feed!Join
  <2> QED
    BY <2>6
<1>7. CASE Yield(c)
  <2>1. /\ phase[c] = "attached" /\ conn[c] \in Runs /\ UNCHANGED <<phase, conn>>
    BY <1>7 DEF Yield, Whole, TypeOK, RunsInOrder
  <2>2. /\ Len(queue'[c]) + Len(replay'[c]) = Len(queue[c]) + Len(replay[c]) - 1
        /\ got'[c] = Append(got[c], Place(c) + 1)
    BY <1>7, YieldGapless DEF Whole, GaplessInv
  <2>3. got' = [got EXCEPT ![c] = Append(@, Place(c) + 1)]
    <3>1. got' = [got EXCEPT ![c] = got'[c]]
      BY <1>7 DEF Yield, Whole, TypeOK
    <3> QED
      BY <2>2, <3>1
  <2>4. Place(c)' = Place(c) + 1 /\ Place(c) < counter[conn[c]]
    <3> DEFINE m == counter[conn[c]]
               q == Len(queue[c])
               l == Len(replay[c])
               q2 == Len(queue'[c])
               l2 == Len(replay'[c])
    <3>1. /\ Place(c) = m - q - l /\ Place(c)' = m - q2 - l2 /\ q2 + l2 = q + l - 1
          /\ m \in Nat /\ q \in Nat /\ l \in Nat /\ q2 \in Nat /\ l2 \in Nat
      BY <1>1, <2>1, <2>2 DEF Whole, Places
    <3> HIDE DEF m, q, l, q2, l2
    <3>2. m - q2 - l2 = m - q - l + 1 /\ m - q - l < m
      BY <3>1
    <3> QED
      BY <3>1, <3>2 DEF m
  <2>5. place' = [place EXCEPT ![c] = @ + 1] /\ reading' = reading /\ done' = done
    BY <1>4, <2>1, <2>4
  <2>6. reading[c] = conn[c] /\ place[c] = Place(c)
    BY <2>1
  <2>7. Feed!Read(c)
    BY <1>1, <1>3, <2>1, <2>3, <2>4, <2>5, <2>6 DEF Feed!Read
  <2> QED
    BY <2>7
<1>8. CASE Detach(c)
  <2>1. /\ phase[c] = "attached" /\ conn[c] \in Runs /\ phase' = [phase EXCEPT ![c] = "ended"]
        /\ conn' = conn /\ got' = got /\ replay[c] = <<>> /\ queue[c] = <<>> /\ Terminal(conn[c])
    BY <1>8 DEF Detach, Whole, TypeOK, RunsInOrder
  <2>2. task[conn[c]] = "finished" /\ Place(c) = counter[conn[c]] /\ Place(c)' = 0 /\ phase'[c] = "ended"
    BY <2>1 DEF Whole, FeedInv, OverIsFinished, Place, TypeOK
  <2>3. reading[c] = conn[c] /\ reading' = [reading EXCEPT ![c] = NoRun]
    BY <1>4, <2>1, <2>2
  <2>4. done' = [done EXCEPT ![c] = TRUE]
    BY <1>4, <2>1, <2>2
  <2>5. place' = [place EXCEPT ![c] = 0] /\ place[c] = counter[conn[c]]
    BY <1>4, <2>2
  <2>6. Feed!Finish(c)
    BY <1>1, <1>3, <2>1, <2>2, <2>3, <2>4, <2>5 DEF Feed!Finish
  <2> QED
    BY <2>6
<1>9. CASE Drop(c)
  <2>1. /\ phase[c] \in {"opened", "attached"} /\ phase' = [phase EXCEPT ![c] = "off"]
        /\ conn' = conn /\ got' = got /\ conn[c] \in Runs /\ phase'[c] = "off"
    BY <1>9 DEF Drop, Whole, TypeOK, RunsInOrder
  <2>2. done' = done
    BY <1>4, <2>1
  <2>3. reading' = [reading EXCEPT ![c] = NoRun] /\ place' = [place EXCEPT ![c] = 0]
    BY <1>4, <2>1 DEF Place
  <2>4. CASE phase[c] = "attached"
    <3>1. reading[c] # NoRun
      BY <2>1, <2>4
    <3>2. Feed!Leave(c)
      BY <1>1, <1>3, <2>1, <2>2, <2>3, <3>1 DEF Feed!Leave
    <3> QED
      BY <3>2
  <2>5. CASE phase[c] = "opened"
    <3>1. reading' = reading /\ place' = place
      BY <2>3, <2>5 DEF Place
    <3>2. UNCHANGED Feed!vars
      BY <1>1, <1>3, <2>1, <2>2, <3>1 DEF Feed!vars
    <3> QED
      BY <3>2
  <2> QED
    BY <2>1, <2>4, <2>5
<1> QED
  BY <1>5, <1>6, <1>7, <1>8, <1>9 DEF Client

\* Every step of the runs, the clients and the manager is a step of the feed or a stutter.
LEMMA FeedFollows ==
  ASSUME QueueSize >= MaxId, Whole, Whole', [Next]_vars
  PROVE  [Feed!Next]_Feed!vars
<1>1. ASSUME NEW g \in Runs, Runner(g) PROVE [Feed!Next]_Feed!vars
  <2>0. TypeOK /\ RunsInOrder /\ Places'
    BY DEF Whole
  <2>1. CASE FirstStep(g)
    <3>1. UNCHANGED <<counter, clientVars>> /\ task' = [task EXCEPT ![g] = "running"] /\ task[g] = "scheduled"
      BY <2>1 DEF FirstStep
    <3>2. \A h \in Runs : task'[h] = "finished" <=> task[h] = "finished"
      BY <2>0, <3>1 DEF TypeOK
    <3> QED
      BY <3>1, <3>2, FeedStutters
  <2>2. CASE NeverStarts(g)
    <3>1. /\ UNCHANGED <<counter, clientVars>> /\ task' = [task EXCEPT ![g] = "finished"]
          /\ task[g] # "finished"
      BY <2>2 DEF NeverStarts
    <3>2. \A c \in Clients : Place(c)' = Place(c)
      BY <3>1 DEF Place, clientVars
    <3>3. [h \in Runs |-> task[h] = "finished"]' =
            [[h \in Runs |-> task[h] = "finished"] EXCEPT ![g] = TRUE]
      BY <2>0, <3>1 DEF TypeOK
    <3>4. counter' = [counter EXCEPT ![g] = @ + 0]
      BY <2>0, <3>1 DEF TypeOK
    <3>5. \E n \in 0..2 : counter' = [counter EXCEPT ![g] = @ + n]
      BY <3>4
    <3>6. UNCHANGED <<[c \in Clients |-> IF phase[c] = "attached" THEN conn[c] ELSE NoRun],
                      [c \in Clients |-> phase[c] = "ended"], [c \in Clients |-> Place(c)], got>>
      BY <3>1, <3>2 DEF clientVars
    <3>7. Feed!Publish(g)
      BY <3>1, <3>3, <3>5, <3>6 DEF Feed!Publish
    <3> QED
      BY <3>7 DEF Feed!Next
  <2>3. CASE Produce(g)
    <3>1. /\ Emit(g, 1) /\ counter[g] + 1 <= MaxId /\ task' = task /\ task[g] = "running"
          /\ 1 \in 0..2
      BY <2>0, <2>3 DEF Produce, TypeOK
    <3>2. \A h \in Runs : task'[h] = "finished" <=> IF h = g THEN FALSE ELSE task[h] = "finished"
      BY <3>1
    <3> HIDE DEF MaxId
    <3>3. Feed!Publish(g)
      BY <2>0, <3>1, <3>2, EmitPublishes
    <3> QED
      BY <3>3 DEF Feed!Next
  <2>4. CASE Complete(g) \/ Fail(g) \/ Cancelled(g)
    <3>1. \E s \in {"completed", "error", "cancelled"}, n \in 0..2 : End(g, s, n)
      BY <2>4 DEF Complete, Fail, Cancelled
    <3>2. PICK n \in 0..2 : Emit(g, n) /\ task' = [task EXCEPT ![g] = "finished"]
      BY <3>1 DEF End
    <3>3. task[g] = "running"
      BY <2>4 DEF Complete, Fail, Cancelled
    <3>4. counter[g] + n <= MaxId
      <4>1. counter[g] <= MaxEvents /\ counter[g] \in Nat
        BY <2>0, <3>3 DEF RunsInOrder, TypeOK
      <4> QED
        BY <4>1
    <3>5. \A h \in Runs : task'[h] = "finished" <=> IF h = g THEN TRUE ELSE task[h] = "finished"
      BY <2>0, <3>2 DEF TypeOK
    <3> HIDE DEF MaxId
    <3>6. Feed!Publish(g)
      BY <2>0, <3>2, <3>3, <3>4, <3>5, EmitPublishes
    <3> QED
      BY <3>6 DEF Feed!Next
  <2> QED
    BY <1>1, <2>1, <2>2, <2>3, <2>4 DEF Runner
<1>2. ASSUME NEW c \in Clients, Client(c) PROVE [Feed!Next]_Feed!vars
  BY <1>2, ClientReads DEF Feed!Next
<1>3. CASE ChatElsewhere
  <2>1. /\ started + 1 \in Runs /\ UNCHANGED <<counter, clientVars>>
        /\ task' = [task EXCEPT ![started + 1] = "scheduled"]
    BY <1>3 DEF ChatElsewhere, StartRun
  <2>2. \A h \in Runs : task'[h] = "finished" <=> task[h] = "finished"
    BY <2>1 DEF Whole, TypeOK, RunsInOrder
  <2> QED
    BY <2>1, <2>2, FeedStutters
<1>4. CASE Stop \/ Expire \/ Shutdown \/ UNCHANGED vars
  <2>1. UNCHANGED <<counter, task, clientVars>>
    BY <1>4 DEF Stop, Expire, Shutdown, vars, runVars
  <2> QED
    BY <2>1, FeedStutters
<1> QED
  BY <1>1, <1>2, <1>3, <1>4 DEF Next

\* When a queue holds all that a run emits, stream sessions are event feeds: whatever the
\* size of the buffer, each subscriber is given the very next event of its run each time,
\* and its stream ends by itself only at the end of a run that is over.
THEOREM ImplementsFeed ==
  ASSUME QueueSize >= MaxId
  PROVE  Spec => IsFeed
<1>1. Init => RunsInv /\ FeedInv /\ GaplessInv
  BY RunsInit, FeedInit, GaplessInit
<1>2. RunsInv /\ FeedInv /\ GaplessInv /\ [Next]_vars => (RunsInv /\ FeedInv /\ GaplessInv)'
  <2> HIDE DEF RunsInv
  <2> QED
    BY RunsStep, FeedStep, GaplessStep
<1>3. RunsInv /\ FeedInv /\ GaplessInv => Whole
  BY PlacesKnown DEF Whole
<1>4. Whole /\ Whole' /\ [Next]_vars => [Feed!Next]_Feed!vars
  BY FeedFollows
<1> QED
  BY <1>1, <1>2, <1>3, <1>4, FeedStarts, PTL DEF Spec, IsFeed, Feed!Spec
=============================================================================
