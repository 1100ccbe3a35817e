------------------------------ MODULE EventFeed ------------------------------
(***************************************************************************)
(* What app/agent/stream_session.py promises when neither the ring buffer  *)
(* nor a subscriber's queue overflows: every run is a growing log that is  *)
(* closed once, and a reader that joins it is given the log's events one   *)
(* by one, in order and without a gap, and leaves by itself only at the    *)
(* end of a closed log.                                                    *)
(***************************************************************************)
EXTENDS Integers, Sequences

CONSTANTS Runs, Clients, NoRun

VARIABLES
  length,   \* number of events published by a run
  closed,   \* the run publishes no more
  reading,  \* the run a client is being sent, NoRun if none
  done,     \* the client's last reading went on to the end of the run
  place,    \* the last event of that run the client has consumed or skipped
  history   \* the events it was given by the run it last asked for

vars == <<length, closed, reading, done, place, history>>

Init ==
  /\ length = [g \in Runs |-> 0]
  /\ closed = [g \in Runs |-> FALSE]
  /\ reading = [c \in Clients |-> NoRun]
  /\ done = [c \in Clients |-> FALSE]
  /\ place = [c \in Clients |-> 0]
  /\ history = [c \in Clients |-> <<>>]

\* A run publishes up to two events; the last ones close it.
Publish(g) ==
  /\ ~ closed[g]
  /\ \E n \in 0..2 : length' = [length EXCEPT ![g] = @ + n]
  /\ \E end \in BOOLEAN : closed' = [closed EXCEPT ![g] = end]
  /\ UNCHANGED <<reading, done, place, history>>

\* A client asks for a run anew; what another run gave it is set aside.
Turn(c) ==
  /\ reading[c] = NoRun
  /\ done' = [done EXCEPT ![c] = FALSE]
  /\ history' = history \/ history' = [history EXCEPT ![c] = <<>>]
  /\ UNCHANGED <<length, closed, reading, place>>

\* It starts to read at any event up to the newest.
Join(c, g) ==
  /\ reading[c] = NoRun /\ ~ done[c]
  /\ reading' = [reading EXCEPT ![c] = g]
  /\ \E p \in 0..length[g] : place' = [place EXCEPT ![c] = p]
  /\ UNCHANGED <<length, closed, done, history>>

\* The client is given the very next event.
Read(c) ==
  /\ reading[c] # NoRun
  /\ place[c] < length[reading[c]]
  /\ place' = [place EXCEPT ![c] = @ + 1]
  /\ history' = [history EXCEPT ![c] = Append(@, place[c] + 1)]
  /\ UNCHANGED <<length, closed, reading, done>>

\* It has read a closed run to the end.
Finish(c) ==
  /\ reading[c] # NoRun
  /\ closed[reading[c]] /\ place[c] = length[reading[c]]
  /\ done' = [done EXCEPT ![c] = TRUE]
  /\ reading' = [reading EXCEPT ![c] = NoRun]
  /\ place' = [place EXCEPT ![c] = 0]
  /\ UNCHANGED <<length, closed, history>>

\* Its connection breaks.
Leave(c) ==
  /\ reading[c] # NoRun
  /\ reading' = [reading EXCEPT ![c] = NoRun]
  /\ place' = [place EXCEPT ![c] = 0]
  /\ UNCHANGED <<length, closed, done, history>>

Next ==
  \/ \E g \in Runs : Publish(g)
  \/ \E c \in Clients :
       Turn(c) \/ (\E g \in Runs : Join(c, g)) \/ Read(c) \/ Finish(c) \/ Leave(c)

Spec == Init /\ [][Next]_vars
=============================================================================
