---------------------------- MODULE StreamSession ----------------------------
(***************************************************************************)
(* app/agent/stream_session.py with its callers in                         *)
(* app/router/v1/agent_chat.py: the runs of the agent for one topic (one   *)
(* task_key), the manager entry that names the current one, and the SSE    *)
(* connections that read a run's events.                                   *)
(*                                                                         *)
(* Events are the ids _emit gives them: 1, 2, ... of their run.  The ring  *)
(* buffer always holds the newest BufferSize ids of the run, so it is a    *)
(* function of _event_counter.  An action is what a coroutine does between *)
(* two suspensions; saving a message to the database does not suspend.     *)
(***************************************************************************)
EXTENDS Integers, Sequences, FiniteSets

CONSTANTS
  MaxRun,      \* bound: runs started for the topic
  Clients,     \* browsers, each with at most one SSE connection at a time
  BufferSize,  \* config.STREAM_BUFFER_SIZE
  QueueSize,   \* maxsize of a subscriber's queue (2000)
  MaxEvents    \* bound: events an agent produces before it ends

ASSUME SizesAssumption ==
  /\ MaxRun \in Nat \ {0}
  /\ BufferSize \in Nat \ {0}
  /\ QueueSize \in Nat \ {0}
  /\ MaxEvents \in Nat

Runs  == 1..MaxRun
NoRun == 0

VARIABLES
  up,         \* the application has not begun to shut down
  entry,      \* manager._sessions[task_key], NoRun if absent
  started,    \* runs created so far
  status,     \* StreamSession.status
  task,       \* the asyncio.Task around _run_wrapper
  cancelling, \* Task.cancel() was called and has not been delivered
  stamped,    \* completed_at is set
  counter,    \* _event_counter
  phase,      \* where a client's connection is
  conn,       \* the run whose events the client last asked for
  cursor,     \* the last_event_id the connection was opened with
  replay,     \* buffered events subscribe() has still to yield
  queue,      \* the subscriber's asyncio.Queue
  got,        \* history: ids of run conn the client has received
  base,       \* history: the cursor with which the client first came to conn
  lost        \* history: ids overwritten or dropped before the client got them

managerVars == <<up, entry, started>>
runVars     == <<status, task, cancelling, stamped, counter>>
clientVars  == <<phase, conn, cursor, replay, queue, got, base, lost>>
vars        == <<managerVars, runVars, clientVars>>

MaxId == MaxEvents + 2
Ids   == 1..MaxId
Items(seq) == {seq[i] : i \in DOMAIN seq}

Alive(g)    == task[g] \in {"scheduled", "running"}              \* is_alive
Buffered(g) == {i \in 1..counter[g] : i > counter[g] - BufferSize}

\* subscribe() registers a queue per subscriber; a closed connection has none.
Subscribed(c, g) == phase[c] = "attached" /\ conn[c] = g

\* Definitions named Faulty... are variants, with a plausible fault, of the one they
\* precede; nothing uses them.  They show that the properties can tell.

\* A run counts as over as soon as cancel() was called.
FaultyTerminal(g) == status[g] \in {"completed", "error", "cancelled"} \/ cancelling[g]

\* A status is left out of the subscriber's test.
FaultyTerminalStatus(g) == status[g] \in {"completed", "error"}

\* The test with which a subscriber's loop ends.
Terminal(g) == status[g] \in {"completed", "error", "cancelled"}

TypeOK ==
  /\ up \in BOOLEAN
  /\ entry \in Runs \cup {NoRun}
  /\ started \in Runs \cup {NoRun}
  /\ status \in [Runs -> {"pending", "streaming", "completed", "error", "cancelled"}]
  /\ task \in [Runs -> {"none", "scheduled", "running", "finished"}]
  /\ cancelling \in [Runs -> BOOLEAN]
  /\ stamped \in [Runs -> BOOLEAN]
  /\ counter \in [Runs -> 0..MaxId]
  /\ phase \in [Clients -> {"off", "opened", "attached", "ended"}]
  /\ conn \in [Clients -> Runs \cup {NoRun}]
  /\ cursor \in [Clients -> 0..MaxId]
  /\ replay \in [Clients -> Seq(Ids)]
  /\ queue \in [Clients -> Seq(Ids)]
  /\ got \in [Clients -> Seq(Ids)]
  /\ base \in [Clients -> 0..MaxId]
  /\ lost \in [Clients -> SUBSET Ids]

Init ==
  /\ up = TRUE
  /\ entry = NoRun
  /\ started = NoRun
  /\ status = [g \in Runs |-> "pending"]
  /\ task = [g \in Runs |-> "none"]
  /\ cancelling = [g \in Runs |-> FALSE]
  /\ stamped = [g \in Runs |-> FALSE]
  /\ counter = [g \in Runs |-> 0]
  /\ phase = [c \in Clients |-> "off"]
  /\ conn = [c \in Clients |-> NoRun]
  /\ cursor = [c \in Clients |-> 0]
  /\ replay = [c \in Clients |-> <<>>]
  /\ queue = [c \in Clients |-> <<>>]
  /\ got = [c \in Clients |-> <<>>]
  /\ base = [c \in Clients |-> 0]
  /\ lost = [c \in Clients |-> {}]

-----------------------------------------------------------------------------
(* The run: _run_wrapper around _run_agent_stream.                         *)

\* A subscriber that is still in the replay is passed over.
FaultyRoom(c, g, n) ==
  IF Subscribed(c, g) /\ replay[c] = <<>> /\ n <= QueueSize - Len(queue[c]) THEN n ELSE 0

\* How many of n new events of run g the queue of client c takes; put_nowait refuses
\* the others.
Room(c, g, n) ==
  IF ~ Subscribed(c, g) THEN 0
  ELSE IF n < QueueSize - Len(queue[c]) THEN n ELSE QueueSize - Len(queue[c])

\* An overflowing subscriber drops its oldest event and takes the new ones.
FaultyEmit(g, n) ==
  LET fresh == [i \in 1..n |-> counter[g] + i] IN
  /\ counter' = [counter EXCEPT ![g] = @ + n]
  /\ queue' = [c \in Clients |->
       IF Subscribed(c, g) /\ n > 0
         THEN LET all == queue[c] \o fresh
                  from == IF Len(all) > QueueSize THEN Len(all) - QueueSize + 1 ELSE 1
              IN  SubSeq(all, from, Len(all))
         ELSE queue[c]]
  /\ UNCHANGED <<phase, conn, cursor, replay, got, base, lost>>

\* _emit of the next n events: each is numbered, buffered and put on the queue of
\* every subscriber, or dropped for a subscriber whose queue is full.
Emit(g, n) ==
  LET fresh == [i \in 1..n |-> counter[g] + i] IN
  /\ counter' = [counter EXCEPT ![g] = @ + n]
  /\ queue' = [c \in Clients |-> queue[c] \o SubSeq(fresh, 1, Room(c, g, n))]
  /\ lost' = [c \in Clients |->
       lost[c] \cup (IF Subscribed(c, g) THEN {fresh[i] : i \in Room(c, g, n) + 1 .. n} ELSE {})]
  /\ UNCHANGED <<phase, conn, cursor, replay, got, base>>

\* The run ends in state s after its last n events, of which the very last is the
\* done or error event; the finally clause of the wrapper stamps completed_at.
End(g, s, n) ==
  /\ Emit(g, n)
  /\ status' = [status EXCEPT ![g] = s]
  /\ task' = [task EXCEPT ![g] = "finished"]
  /\ cancelling' = [cancelling EXCEPT ![g] = FALSE]
  /\ stamped' = [stamped EXCEPT ![g] = TRUE]
  /\ UNCHANGED managerVars

\* The event loop runs the task for the first time.
FirstStep(g) ==
  /\ task[g] = "scheduled" /\ ~ cancelling[g]
  /\ task' = [task EXCEPT ![g] = "running"]
  /\ UNCHANGED <<managerVars, status, cancelling, stamped, counter, clientVars>>

\* The task was cancelled before its first step: asyncio throws CancelledError into
\* a coroutine that has not started, so neither except nor finally of _run_wrapper
\* runs and the session keeps its status.
NeverStarts(g) ==
  /\ task[g] = "scheduled" /\ cancelling[g]
  /\ task' = [task EXCEPT ![g] = "finished"]
  /\ cancelling' = [cancelling EXCEPT ![g] = FALSE]
  /\ UNCHANGED <<managerVars, status, stamped, counter, clientVars>>

\* chat_stream yields an event that is forwarded.
Produce(g) ==
  /\ task[g] = "running" /\ ~ cancelling[g]
  /\ counter[g] < MaxEvents
  /\ Emit(g, 1)
  /\ UNCHANGED <<managerVars, status, task, cancelling, stamped>>

\* chat_stream ends: the message is saved, then a metrics event (only if the agent
\* completed) and done are emitted, without a suspension up to the wrapper's end.
Complete(g) ==
  /\ task[g] = "running" /\ ~ cancelling[g]
  /\ \E n \in {1, 2} : End(g, "completed", n)

\* The agent or the first save raises; saving the partial message may raise again,
\* and then no error event is emitted.
Fail(g) ==
  /\ task[g] = "running" /\ ~ cancelling[g]
  /\ \E n \in {0, 1} : End(g, "error", n)

\* CancelledError is delivered where the run is suspended: the partial message is
\* saved and done is emitted, or the save raises.
Cancelled(g) ==
  /\ task[g] = "running" /\ cancelling[g]
  /\ End(g, "cancelled", 1) \/ End(g, "error", 0)

-----------------------------------------------------------------------------
(* The manager and the endpoints that use it.                              *)

\* Task.cancel() on the run, if it is alive.
Cancel(g) == cancelling' = [cancelling EXCEPT ![g] = @ \/ Alive(g)]

\* create() that leaves the predecessor running.
FaultyEvict == UNCHANGED cancelling

\* The run the manager has for the topic, if any, is cancelled.
Evict == IF entry = NoRun THEN UNCHANGED cancelling ELSE Cancel(entry)

\* The client asks for run g from event id p on; its history starts afresh when it
\* was reading another run.
Open(c, g, p) ==
  /\ phase[c] \in {"off", "ended"}
  /\ phase' = [phase EXCEPT ![c] = "opened"]
  /\ conn' = [conn EXCEPT ![c] = g]
  /\ cursor' = [cursor EXCEPT ![c] = p]
  /\ got' = [got EXCEPT ![c] = IF conn[c] = g THEN @ ELSE <<>>]
  /\ lost' = [lost EXCEPT ![c] = IF conn[c] = g THEN @ ELSE {}]
  /\ base' = [base EXCEPT ![c] = IF conn[c] = g THEN @ ELSE p]
  /\ UNCHANGED <<replay, queue>>

\* chat_with_agent: manager.create() cancels a live predecessor and takes its place,
\* start() schedules the run.
StartRun(g) ==
  /\ up
  /\ started' = g
  /\ entry' = g
  /\ Evict
  /\ status' = [status EXCEPT ![g] = "streaming"]
  /\ task' = [task EXCEPT ![g] = "scheduled"]
  /\ UNCHANGED <<up, stamped, counter>>

\* A client posts a message; the response will subscribe from 0.
Chat(c) == started + 1 \in Runs /\ StartRun(started + 1) /\ Open(c, started + 1, 0)

\* Somebody posts a message and reads nothing, as from another window.
ChatElsewhere == started + 1 \in Runs /\ StartRun(started + 1) /\ UNCHANGED clientVars

\* stop_generation.
Stop ==
  /\ up /\ entry # NoRun
  /\ Cancel(entry)
  /\ UNCHANGED <<managerVars, status, task, stamped, counter, clientVars>>

\* _cleanup_loop finds completed_at older than the TTL.
Expire ==
  /\ up /\ entry # NoRun /\ stamped[entry]
  /\ entry' = NoRun
  /\ UNCHANGED <<up, started, runVars, clientVars>>

\* manager.shutdown().
Shutdown ==
  /\ up
  /\ up' = FALSE
  /\ entry' = NoRun
  /\ Evict
  /\ UNCHANGED <<started, status, task, stamped, counter, clientVars>>

\* stream_reconnect, with the last id the client has seen - of whatever run.
LastSeen(c) == IF got[c] = <<>> THEN base[c] ELSE got[c][Len(got[c])]
Reconnect(c) ==
  /\ up /\ entry # NoRun
  /\ Open(c, entry, LastSeen(c))
  /\ UNCHANGED <<managerVars, runVars>>

\* The whole buffer is replayed, whatever the client has seen.
FaultyReplayed(g, p) == Buffered(g)

\* The buffered events newer than p.
Replayed(g, p) == {i \in Buffered(g) : i > p}

\* subscribe(): the queue is registered and the buffer copied with no suspension in
\* between.  The event loop is first in, first out: the run has been scheduled before
\* the response that subscribes to it, and steps first.
Attach(c) ==
  LET g == conn[c]
      missed == {i \in 1..counter[g] : i > cursor[c]}
      copied == Replayed(g, cursor[c])
  IN
  /\ phase[c] = "opened" /\ task[g] # "scheduled"
  /\ phase' = [phase EXCEPT ![c] = "attached"]
  /\ replay' = [replay EXCEPT ![c] =
       [i \in 1..Cardinality(copied) |-> counter[g] - Cardinality(copied) + i]]
  /\ lost' = [lost EXCEPT ![c] = {i \in @ : i <= cursor[c]} \cup (missed \ copied)]
  /\ UNCHANGED <<managerVars, runVars, conn, cursor, queue, got, base>>

\* The generator yields the next event, from the copy first, then from the queue.
Yield(c) ==
  /\ phase[c] = "attached"
  /\ replay[c] # <<>> \/ queue[c] # <<>>
  /\ IF replay[c] # <<>>
       THEN /\ got' = [got EXCEPT ![c] = Append(@, Head(replay[c]))]
            /\ replay' = [replay EXCEPT ![c] = Tail(@)]
            /\ UNCHANGED queue
       ELSE /\ got' = [got EXCEPT ![c] = Append(@, Head(queue[c]))]
            /\ queue' = [queue EXCEPT ![c] = Tail(@)]
            /\ UNCHANGED replay
  /\ UNCHANGED <<managerVars, runVars, phase, conn, cursor, base, lost>>

\* The generator finds the run over and its queue empty, at the top of its loop.
Detach(c) ==
  /\ phase[c] = "attached"
  /\ replay[c] = <<>> /\ queue[c] = <<>>
  /\ Terminal(conn[c])
  /\ phase' = [phase EXCEPT ![c] = "ended"]
  /\ UNCHANGED <<managerVars, runVars, conn, cursor, replay, queue, got, base, lost>>

\* The connection breaks; what was queued for it goes with it.
Drop(c) ==
  /\ phase[c] \in {"opened", "attached"}
  /\ phase' = [phase EXCEPT ![c] = "off"]
  /\ replay' = [replay EXCEPT ![c] = <<>>]
  /\ queue' = [queue EXCEPT ![c] = <<>>]
  /\ UNCHANGED <<managerVars, runVars, conn, cursor, got, base, lost>>

-----------------------------------------------------------------------------
Runner(g) ==
  FirstStep(g) \/ NeverStarts(g) \/ Produce(g) \/ Complete(g) \/ Fail(g) \/ Cancelled(g)

Client(c) == Chat(c) \/ Reconnect(c) \/ Attach(c) \/ Yield(c) \/ Detach(c) \/ Drop(c)

Next ==
  \/ \E g \in Runs : Runner(g)
  \/ \E c \in Clients : Client(c)
  \/ ChatElsewhere \/ Stop \/ Expire \/ Shutdown

Spec == Init /\ [][Next]_vars

(***************************************************************************)
(* The event loop runs a scheduled task and delivers a cancellation, and a *)
(* subscriber that has something to yield or is due to end goes on.  The   *)
(* agent need not end, the client need not do anything.                    *)
(***************************************************************************)
Fairness ==
  /\ \A g \in Runs : WF_vars(FirstStep(g) \/ NeverStarts(g)) /\ WF_vars(Cancelled(g))
  /\ \A c \in Clients : WF_vars(Attach(c)) /\ WF_vars(Yield(c)) /\ WF_vars(Detach(c))

FairSpec == Spec /\ Fairness

-----------------------------------------------------------------------------
(* Properties.                                                             *)

\* A client receives a run's events in order and none twice, over its first
\* connection and all reconnections, replayed or live.
Increasing(seq) == \A i, j \in DOMAIN seq : i < j => seq[i] < seq[j]
InOrderOnce == \A c \in Clients : Increasing(got[c] \o replay[c] \o queue[c])

\* No event is missed silently: while a client is attached, each event of the run
\* after the id it first came with was received, is about to be replayed or is
\* queued - or was overwritten in the buffer or dropped from a full queue.
Accounted(c) == Items(got[c]) \cup Items(replay[c]) \cup Items(queue[c]) \cup lost[c]
NothingMissedSilently ==
  \A c \in Clients : phase[c] = "attached" =>
    \A i \in 1..counter[conn[c]] : i > base[c] => i \in Accounted(c)

\* A stream that ends by itself has given all its run emits from where the client came in,
\* but what a full buffer or queue gave up, and nothing is emitted after it: done or error is
\* among that if the run emits one.
EndedStreamIsWhole ==
  \A c \in Clients : phase[c] = "ended" =>
    \A i \in 1..counter[conn[c]] : i > base[c] => i \in Items(got[c]) \cup lost[c]

\* At most one run of the topic goes on: every live run is the manager's entry, where
\* stop_generation finds it, or has been cancelled already.
LiveRunIsStoppable ==
  \A g \in Runs : Alive(g) => entry = g \/ cancelling[g]

\* Whoever reads a run whose wrapper has finished is let go, however the run ended.
EndedRunsRelease ==
  \A g \in Runs, c \in Clients :
    (stamped[g] /\ Subscribed(c, g)) ~> ~ Subscribed(c, g)

\* The run as an EventFeed; the client's place is just before the next event it has
\* been handed, or at the end of the run.
Place(c) ==
  IF phase[c] # "attached" THEN 0
  ELSE IF replay[c] # <<>> THEN Head(replay[c]) - 1
  ELSE IF queue[c] # <<>> THEN Head(queue[c]) - 1
  ELSE counter[conn[c]]

Feed == INSTANCE EventFeed WITH
  length  <- counter,
  closed  <- [g \in Runs |-> task[g] = "finished"],
  reading <- [c \in Clients |-> IF phase[c] = "attached" THEN conn[c] ELSE NoRun],
  done    <- [c \in Clients |-> phase[c] = "ended"],
  place   <- [c \in Clients |-> Place(c)],
  history <- got

\* With a buffer and queues that never overflow, subscribers are given exactly the
\* next event each time, and end only at the end of a closed run.
IsFeed == Feed!Spec

\* "streams live events until the session completes": once a run's task is over, a
\* subscriber's stream ends.
SubscribersAreReleased ==
  \A g \in Runs, c \in Clients :
    (up /\ task[g] = "finished" /\ Subscribed(c, g)) ~> ~ (up /\ Subscribed(c, g))
=============================================================================
