----------------------------- MODULE ChatStream -----------------------------
(***************************************************************************)
(* What a chat with an agent shows and what it leaves behind: the agent    *)
(* runs of one topic, started over the routes of router/v1/agent_chat.py   *)
(* ("stream": a message, followed over SSE, "plain": a message answered in *)
(* one response, "resume": the answer to an interrupt, "socket": a message *)
(* over the WebSocket), the translation of the graph's events              *)
(* (agent/runtime/events.py), the collector that folds them into the parts *)
(* of a reply, and the rows of the topic.                                  *)
(*                                                                         *)
(* A run's operations are calls of Tools and Tasks; a task is a subagent,  *)
(* whose own events carry the task as parent.  Text is counted in chunks,  *)
(* none of them blank (a part of blanks alone would be dropped).           *)
(***************************************************************************)
EXTENDS Naturals, SequencesExt

CONSTANTS
  Runs,        \* requests that run the agent
  Tools,       \* ids of tool operations
  Tasks,       \* ids of subagent operations
  MaxChunks,   \* bound: chunks of text a run streams
  MaxEvents,   \* bound: events of all runs together
  NoRun,       \* the manager has no entry for the topic
  NoOp         \* not an operation

ASSUME ChatAssumption ==
  NoRun \notin Runs /\ NoOp \notin Tools \cup Tasks /\ Tools \cap Tasks = {}

VARIABLES
  route,     \* over which route a run was asked for
  phase,     \* where it is, or how it ended
  entry,     \* the run the manager's entry for the topic holds
  started,   \* operations the agent has begun in the run
  going,     \* those of them that have not ended or failed
  active,    \* the translator's tasks
  within,    \* the tasks an operation was begun inside of, the outermost first
  collector, \* what the run has collected
  shown,     \* what its client has been sent, up to an end that stores nothing
  messages   \* the topic's rows: questions and replies, in the order stored

chatVars == <<route, phase, entry, started, going, active, within, collector, shown, messages>>

Operations == Tools \cup Tasks
Routes == {"stream", "plain", "resume", "socket"}
Ended == {"complete", "interrupt", "error", "stopped", "failed", "gone"}
Phases == {"idle", "asked", "running", "stopping"} \cup Ended

Event(kind, n, op, parent) == [kind |-> kind, n |-> n, op |-> op, parent |-> parent]
Part(type, op, body) == [type |-> type, op |-> op, body |-> body]

NothingCollected ==
  [text |-> <<>>, parts |-> <<>>, open |-> <<>>, children |-> [k \in Tasks |-> <<>>],
   thinking |-> FALSE, error |-> FALSE, metrics |-> FALSE]

ChatInit ==
  /\ route = [r \in Runs |-> "none"]
  /\ phase = [r \in Runs |-> "idle"]
  /\ entry = NoRun
  /\ started = [r \in Runs |-> {}]
  /\ going = [r \in Runs |-> {}]
  /\ active = [r \in Runs |-> {}]
  /\ within = [r \in Runs |-> [o \in Operations |-> <<>>]]
  /\ collector = [r \in Runs |-> NothingCollected]
  /\ shown = [r \in Runs |-> {}]
  /\ messages = <<>>

---------------------------------------------------------------------------
(* The collector. *)

\* The text so far becomes a part of its own.
Flush(c) ==
  IF c.text = <<>> THEN c
  ELSE [c EXCEPT !.text = <<>>, !.parts = Append(@, Part("text", NoOp, c.text))]

\* A tool's call is a part at once; a task's only when it ends.
OperationStart(c, o) ==
  LET f == Flush(c)
  IN [f EXCEPT !.open = Append(@, o),
               !.parts = IF o \in Tools THEN Append(@, Part("call", o, <<>>)) ELSE @]

\* (not the code) An end that leaves the operation in the table of open ones.
FaultyOperationEnd(c, o) ==
  IF o \in Tasks
  THEN [c EXCEPT !.children[o] = <<>>, !.parts = Append(@, Part("task", o, c.children[o]))]
  ELSE [c EXCEPT !.parts = Append(@, Part("result", o, <<>>))]

\* The end of an operation; text that came before it stays in the buffer.
OperationEnd(c, o) ==
  IF o \in Tasks
  THEN [c EXCEPT !.open = RemoveFirst(@, o), !.children[o] = <<>>,
                 !.parts = Append(@, Part("task", o, c.children[o]))]
  ELSE [c EXCEPT !.open = RemoveFirst(@, o),
                 !.parts = Append(@, Part("result", o, <<>>))]

\* A stop ends what is still open.
FlushActive(c) == FoldLeft(OperationEnd, c, c.open)

HasContent(c) ==
  c.text # <<>> \/ c.parts # <<>> \/ c.thinking \/ c.error \/ c.metrics

\* (not the code) The text still in the buffer is forgotten.
FaultyToParts(c) == [parts |-> c.parts, thinking |-> c.thinking, error |-> c.error]

\* The parts of a reply in the order they were made; thinking comes first and metrics and
\* errors last.
ToParts(c) == [parts |-> Flush(c).parts, thinking |-> c.thinking, error |-> c.error]

\* One event as the loop of each route handles it.  The WebSocket's does not know of
\* parents, the one of a resumed run does not collect thinking.
Collect(w, c, e) ==
  IF e.parent # NoOp /\ w # "socket" THEN [c EXCEPT !.children[e.parent] = Append(@, e)]
  ELSE CASE e.kind = "message"         -> [c EXCEPT !.text = Append(@, e.n)]
         [] e.kind = "thinking"        -> [c EXCEPT !.thinking = @ \/ w # "resume"]
         [] e.kind = "operation_start" -> OperationStart(c, e.op)
         [] e.kind = "operation_end"   -> OperationEnd(c, e.op)

---------------------------------------------------------------------------
(* Requests. *)

Question(r) == [role |-> "user", run |-> r]
Reply(r, c) == [role |-> "assistant", run |-> r, content |-> ToParts(c)]

Requested(r, w) ==
  /\ phase[r] = "idle"
  /\ phase' = [phase EXCEPT ![r] = "asked"]
  /\ route' = [route EXCEPT ![r] = w]
  /\ UNCHANGED <<entry, started, going, active, within, collector, shown>>

\* A question is stored before the agent is looked up, for which the handler waits.
ChatAsk(r) ==
  \E w \in Routes \ {"resume"} : Requested(r, w) /\ messages' = Append(messages, Question(r))

\* The answer to an interrupt some run's client was told of; it leaves no row of its own.
ResumeAsk(r) ==
  /\ Requested(r, "resume")
  /\ \E q \in Runs : phase[q] = "interrupt"
  /\ UNCHANGED messages

\* The agent could not be made: the question stays without a reply.
TurnAway(r) ==
  /\ phase[r] = "asked"
  /\ phase' = [phase EXCEPT ![r] = "failed"]
  /\ UNCHANGED <<route, entry, started, going, active, within, collector, shown, messages>>

Live(r) == phase[r] \in {"running", "stopping"}

\* The run begins.  A run over SSE takes the manager's entry and cancels the one it finds;
\* the other routes run the agent beside it.
ChatBegin(r) ==
  /\ phase[r] = "asked"
  /\ LET old == IF route[r] = "stream" /\ entry # NoRun /\ Live(entry) THEN {entry} ELSE {}
     IN phase' = [q \in Runs |-> IF q = r THEN "running" ELSE IF q \in old THEN "stopping" ELSE phase[q]]
  /\ entry' = IF route[r] = "stream" THEN r ELSE entry
  /\ UNCHANGED <<route, started, going, active, within, collector, shown, messages>>

\* chat/stop cancels the run the manager knows.
ChatStop(r) ==
  /\ entry = r /\ phase[r] = "running"
  /\ phase' = [phase EXCEPT ![r] = "stopping"]
  /\ UNCHANGED <<route, entry, started, going, active, within, collector, shown, messages>>

---------------------------------------------------------------------------
(* Events of the graph. *)

\* The parent the translator finds for what happens inside the tasks of path.
ParentOf(r, path) ==
  LET i == SelectInSeq(path, LAMBDA k : k \in active[r])
  IN IF i = 0 THEN NoOp ELSE path[i]

\* Where the next event may come from: the graph itself or a task that is going on.
Paths(r) == {<<>>} \cup {Append(within[r][k], k) : k \in going[r] \cap Tasks}

Chunks(r) == {e \in shown[r] : e.kind = "message"}
EventsSent == FoldSet(LAMBDA r, n : n + Cardinality(shown[r]), 0, Runs)

\* The run's loop takes an event: it is collected and sent.
Handled(r, e) ==
  /\ phase[r] = "running" /\ route[r] # "plain" /\ EventsSent < MaxEvents
  /\ collector' = [collector EXCEPT ![r] = Collect(route[r], @, e)]
  /\ shown' = [shown EXCEPT ![r] = @ \cup {e}]
  /\ UNCHANGED <<route, phase, entry, messages>>

Streamed(r) ==
  /\ Cardinality(Chunks(r)) < MaxChunks
  /\ \E path \in Paths(r) :
       Handled(r, Event("message", Cardinality(Chunks(r)) + 1, NoOp, ParentOf(r, path)))
  /\ UNCHANGED <<started, going, active, within>>

Thought(r) ==
  /\ \E path \in Paths(r) :
       LET e == Event("thinking", 0, NoOp, ParentOf(r, path)) IN e \notin shown[r] /\ Handled(r, e)
  /\ UNCHANGED <<started, going, active, within>>

\* on_tool_start.  A task always starts at the top, even inside another one.
OnToolStart(r, o) == \E path \in Paths(r) :
  LET parent == IF o \in Tasks THEN NoOp ELSE ParentOf(r, path)
  IN /\ o \notin started[r]
     /\ Handled(r, Event("operation_start", 0, o, parent))
     /\ started' = [started EXCEPT ![r] = @ \cup {o}]
     /\ going' = [going EXCEPT ![r] = @ \cup {o}]
     /\ active' = [active EXCEPT ![r] = IF o \in Tasks THEN @ \cup {o} ELSE @]
     /\ within' = [within EXCEPT ![r][o] = path]

\* A task ends after what it contains.
Innermost(r, o) == \A p \in going[r] : ~Contains(within[r][p], o)

\* on_tool_end.
OnToolEnd(r, o) ==
  /\ o \in going[r] /\ Innermost(r, o)
  /\ Handled(r, Event("operation_end", 0, o, IF o \in Tasks THEN NoOp ELSE ParentOf(r, within[r][o])))
  /\ going' = [going EXCEPT ![r] = @ \ {o}]
  /\ active' = [active EXCEPT ![r] = @ \ {o}]
  /\ UNCHANGED <<started, within>>

\* on_tool_error, which is not translated: the operation stays open and a task active.
OnToolError(r, o) ==
  /\ phase[r] = "running" /\ o \in going[r] /\ Innermost(r, o)
  /\ going' = [going EXCEPT ![r] = @ \ {o}]
  /\ UNCHANGED <<route, phase, entry, started, active, within, collector, shown, messages>>

---------------------------------------------------------------------------
(* Ends. *)

\* What the run's coroutine held goes with it.
Over(r, how) ==
  /\ phase' = [phase EXCEPT ![r] = how]
  /\ collector' = [collector EXCEPT ![r] = NothingCollected]
  /\ started' = [started EXCEPT ![r] = {}]
  /\ going' = [going EXCEPT ![r] = {}]
  /\ active' = [active EXCEPT ![r] = {}]
  /\ within' = [within EXCEPT ![r] = [o \in Operations |-> <<>>]]
  /\ UNCHANGED <<route, entry>>

\* The run ends as how, leaving the reply that c makes.
Conclude(r, how, c) ==
  /\ Over(r, how)
  /\ messages' = IF HasContent(c) THEN Append(messages, Reply(r, c)) ELSE messages
  /\ UNCHANGED shown

Complete(r) ==
  /\ phase[r] = "running" /\ going[r] = {}
  /\ Conclude(r, "complete", [collector[r] EXCEPT !.metrics = TRUE,
                                                  !.text = IF route[r] = "plain" THEN <<1>> ELSE @])

\* Only a streamed run begun with a message looks for an interrupt.
Interrupt(r) ==
  /\ phase[r] = "running" /\ going[r] = {} /\ route[r] \in {"stream", "socket"}
  /\ Conclude(r, "interrupt", IF route[r] = "stream" THEN Flush(collector[r]) ELSE collector[r])

\* The graph raises: the service sends an error and no done.  A resumed run shows the
\* error without collecting it, a plain one answers with it.
Raise(r) ==
  /\ phase[r] = "running"
  /\ Conclude(r, "error", [collector[r] EXCEPT !.error = @ \/ route[r] \in {"stream", "socket"}])

\* The reply cannot be stored, and storing it with the error fails in the same ORM session.
SaveFails(r) ==
  /\ phase[r] = "running" \/ (phase[r] = "stopping" /\ HasContent(collector[r]))
  /\ Over(r, "failed")
  /\ shown' = [shown EXCEPT ![r] = {}]
  /\ UNCHANGED messages

\* The cancellation reaches the run.
Stopped(r) ==
  /\ phase[r] = "stopping"
  /\ Conclude(r, "stopped", FlushActive(collector[r]))

\* The client of a resumed run or of a WebSocket leaves: its run ends with nothing stored.
Depart(r) ==
  /\ phase[r] = "running" /\ route[r] \in {"resume", "socket"} /\ Over(r, "gone")
  /\ shown' = [shown EXCEPT ![r] = {}]
  /\ UNCHANGED messages

ChatStep(r) ==
  \/ ChatAsk(r) \/ ResumeAsk(r) \/ TurnAway(r) \/ ChatBegin(r) \/ ChatStop(r)
  \/ Streamed(r) \/ Thought(r)
  \/ \E o \in Operations : OnToolStart(r, o) \/ OnToolEnd(r, o) \/ OnToolError(r, o)
  \/ Complete(r) \/ Interrupt(r) \/ Raise(r) \/ SaveFails(r) \/ Stopped(r) \/ Depart(r)

ChatNext == \E r \in Runs : ChatStep(r)

ChatSpec == ChatInit /\ [][ChatNext]_chatVars

---------------------------------------------------------------------------
(* Properties. *)

\* Types of the chat's variables.
ChatTypeOK ==
  /\ route \in [Runs -> Routes \cup {"none"}]
  /\ phase \in [Runs -> Phases]
  /\ entry \in Runs \cup {NoRun}
  /\ started \in [Runs -> SUBSET Operations]
  /\ \A r \in Runs : going[r] \subseteq started[r] /\ active[r] \subseteq Tasks

Parts(r) ==
  LET i == SelectInSeq(messages, LAMBDA m : m.role = "assistant" /\ m.run = r)
  IN IF i = 0 THEN <<>> ELSE messages[i].content.parts

\* A part p of a reply over route w holds an event e.
Holds(w, p, e) ==
  IF e.parent # NoOp /\ w # "socket"
  THEN p.type = "task" /\ p.op = e.parent /\ e \in ToSet(p.body)
  ELSE CASE e.kind = "thinking" -> FALSE
         [] e.kind = "message" -> p.type = "text" /\ e.n \in ToSet(p.body)
         [] e.kind = "operation_start" ->
              p.op = e.op /\ p.type = (IF e.op \in Tools THEN "call" ELSE "task")
         [] e.kind = "operation_end" ->
              p.op = e.op /\ p.type = (IF e.op \in Tools THEN "result" ELSE "task")

\* How often the reply of a run holds an event its client was sent.
Found(r, e) == Cardinality({i \in DOMAIN Parts(r) : Holds(route[r], Parts(r)[i], e)})

\* A task that never ended: it failed, or the graph raised, before a stop could close it.
Unended(r, k) ==
  /\ phase[r] # "stopped"
  /\ Event("operation_end", 0, k, NoOp) \notin shown[r]

\* What a client was shown is in the reply, once, whichever way the run ended, apart from
\* thinking (folded into one part), from tasks that never ended, and from runs whose
\* client left or whose reply could not be stored.  Text, calls, results and the events of
\* subagents take different ways through the collector, and a stop can come between any
\* two of them.
ShownIsKept ==
  \A r \in Runs : phase[r] \in {"complete", "interrupt", "error", "stopped"} =>
    \A e \in shown[r] :
      \/ e.kind = "thinking" /\ (e.parent = NoOp \/ route[r] = "socket")
      \/ e.parent # NoOp /\ Unended(r, e.parent)
      \/ e.op \in Tasks /\ Unended(r, e.op)
      \/ Found(r, e) = 1

PartsOf(r, type, o) == {i \in DOMAIN Parts(r) : Parts(r)[i].type = type /\ Parts(r)[i].op = o}

\* A stored reply never holds two results of one operation, has a result only behind its
\* call, and after a stop a result for every call: the stop closes what the agent left
\* open, and only that.
OperationsClose ==
  \A r \in Runs, o \in Tools :
    /\ Cardinality(PartsOf(r, "result", o)) <= 1
    /\ \A i \in PartsOf(r, "result", o) : \E j \in PartsOf(r, "call", o) : j < i
    /\ phase[r] = "stopped" => Cardinality(PartsOf(r, "call", o)) = Cardinality(PartsOf(r, "result", o))
=============================================================================
