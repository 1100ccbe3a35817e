---------------------------- MODULE SandboxTerminal ----------------------------
(***************************************************************************)
(* app/router/v1/sandbox.py, sandbox_terminal: a WebSocket that proxies a  *)
(* PTY shell in the sandbox of one session.  The row session_sandbox names *)
(* the shell; every call of the sandbox is an await, after which the row   *)
(* may be another than the one the handler has read.                       *)
(*                                                                         *)
(* Every call may fail.  A stop is one step here, since no shell outlives  *)
(* it; a pause goes call by call.  The ORM reads the row again after each  *)
(* commit of a handler and not before: what it holds is what it read then. *)
(***************************************************************************)
EXTENDS FiniteSets

CONSTANTS
  Terminals, \* connections under way
  Shells,    \* shells of one sandbox over time
  NoShell

ASSUME TerminalAssumption == NoShell \notin Shells

VARIABLES
  up,       \* what the sandbox of the row does
  shell,    \* the shell the row names
  lives,    \* shells that live in the sandbox of the row
  attached, \* those a client is attached to
  conn,     \* where each connection is
  pausing,  \* the request under way that pauses the sandbox
  failed,   \* history: those left by a call that failed, or by a process that died
  overwritten, \* history: those whose name was replaced by a handler that had not read it
  single    \* history: connections and pauses have kept out of each other's way

shellVars == <<shell, lives, attached, failed, overwritten>>
terminalVars == <<up, shellVars, conn, pausing, single>>

Away == [step |-> "away", row |-> FALSE, saw |-> NoShell, target |-> NoShell,
         retry |-> FALSE, pty |-> FALSE]

NotPausing == [step |-> "no", saw |-> NoShell]

TerminalTypeOK ==
  /\ up \in {"running", "paused", "stopped", "gone"}
  /\ shell \in Shells \cup {NoShell} /\ lives \subseteq Shells /\ attached \subseteq lives
  /\ conn \in [Terminals -> [
       step : {"away", "clear", "check", "make", "write", "attach", "drop", "attached", "end"},
       row : BOOLEAN, saw : Shells \cup {NoShell}, target : Shells \cup {NoShell},
       retry : BOOLEAN, pty : BOOLEAN]]
  /\ pausing \in [step : {"no", "delete", "pause"}, saw : Shells \cup {NoShell}]
  /\ failed \subseteq lives /\ overwritten \subseteq lives /\ single \in BOOLEAN

TerminalInit ==
  /\ up = "running" /\ shell = NoShell /\ lives = {} /\ attached = {}
  /\ conn = [c \in Terminals |-> Away] /\ pausing = NotPausing
  /\ failed = {} /\ overwritten = {} /\ single = TRUE

-----------------------------------------------------------------------------
Go(c, new) == conn' = [conn EXCEPT ![c] = new]
GiveUp(c)  == Go(c, Away)

\* The row the connection has read is there; a write to one that is not is an error.
SameRow(c) == conn[c].row
\* Its sandbox answers.
Answers(c) == SameRow(c) /\ up = "running"

\* _ensure_terminal_session up to its first await, of a row that names shell p.
Ensure(known, p, reset) ==
  [known EXCEPT !.saw = p, !.target = NoShell,
                !.step = IF p = NoShell THEN "make" ELSE IF reset THEN "clear" ELSE "check"]

Connect(c, reset) ==
  /\ conn[c] = Away /\ up \in {"running", "gone"}
  /\ Go(c, Ensure([Away EXCEPT !.row = TRUE, !.retry = TRUE, !.pty = TRUE], shell, reset))
  /\ single' = (single /\ pausing = NotPausing /\ \A d \in Terminals : conn[d] = Away)
  /\ UNCHANGED <<up, pausing, shellVars>>

\* The shell stays in the sandbox.
FaultyDelete(p) == UNCHANGED <<lives, attached, failed>>

\* delete_pty_session; a shell that is not found is deleted, too.
Delete(p) == lives' = lives \ {p} /\ attached' = attached \ {p} /\ failed' = failed \ {p}

\* It raises an error: the shell is gone all the same, or lives on.
DeleteFails(p) ==
  \/ Delete(p)
  \/ UNCHANGED <<lives, attached>> /\ failed' = failed \cup ({p} \cap lives)

\* A handler that last read the name known writes another, or none, to the row.
Name(p, known) ==
  /\ shell' = p
  /\ overwritten' = (overwritten \cup ({shell} \ {known})) \cap lives'

\* _drop_terminal_session: the shell the handler knows is deleted, and then the row names
\* none, be the deletion a failure or not.
Dropped(c)   == Answers(c) /\ Delete(conn[c].saw) /\ Name(NoShell, conn[c].saw)
DropFails(c) ==
  \/ SameRow(c) /\ DeleteFails(conn[c].saw) /\ Name(NoShell, conn[c].saw)
  \/ ~ SameRow(c) /\ UNCHANGED shellVars

\* It is called for a reset and after a shell was not found; an error ends the connection.
TerminalDrop(c) ==
  /\ conn[c].step \in {"clear", "drop"}
  /\ \/ DropFails(c) /\ GiveUp(c)
     \/ /\ Dropped(c)
        /\ Go(c, Ensure([conn[c] EXCEPT !.retry = @ /\ conn[c].step = "clear"], NoShell, FALSE))
  /\ UNCHANGED <<up, pausing, single>>

\* The status of the shell: one that is there is used, or the one the row names by now.
TerminalCheck(c) ==
  /\ conn[c].step = "check" /\ Answers(c)
  /\ UNCHANGED <<up, lives, attached, failed, pausing, single>>
  /\ IF conn[c].saw \notin lives
       THEN Name(NoShell, conn[c].saw) /\ Go(c, Ensure(conn[c], NoShell, FALSE))
       ELSE /\ UNCHANGED <<shell, overwritten>>
            /\ Go(c, IF shell = NoShell THEN Away
                     ELSE [conn[c] EXCEPT !.step = "attach", !.target = shell, !.saw = shell])

\* A shell not used so far comes to life.
Born(p) ==
  /\ p \notin lives /\ p # shell /\ pausing.saw # p
  /\ \A d \in Terminals : p \notin {conn[d].saw, conn[d].target}
  /\ lives' = lives \cup {p}

\* A shell is created, and then named by the row.
TerminalMake(c, p) ==
  /\ conn[c].step = "make" /\ Answers(c) /\ Born(p)
  /\ Go(c, [conn[c] EXCEPT !.step = "write", !.target = p])
  /\ UNCHANGED <<up, shell, attached, failed, overwritten, pausing, single>>

\* A call fails, and ends the connection: the status, the creation before its effect or
\* after it, the attachment.
TerminalFails(c) ==
  /\ conn[c].step \in {"check", "make", "attach"} /\ GiveUp(c)
  /\ UNCHANGED <<up, shellVars, pausing, single>>

TerminalMakeFails(c, p) ==
  /\ conn[c].step = "make" /\ Answers(c) /\ Born(p) /\ GiveUp(c)
  /\ failed' = failed \cup {p}
  /\ UNCHANGED <<up, shell, attached, overwritten, pausing, single>>

TerminalWrite(c) ==
  /\ conn[c].step = "write"
  /\ UNCHANGED <<up, lives, attached, failed, pausing, single>>
  /\ IF SameRow(c)
       THEN /\ Name(conn[c].target, conn[c].saw)
            /\ Go(c, [conn[c] EXCEPT !.step = "attach", !.saw = conn[c].target])
       ELSE GiveUp(c) /\ UNCHANGED <<shell, overwritten>>

\* A second attempt after every attempt.
FaultyRetries(c) == TRUE

Retries(c) == conn[c].retry

\* The connection to the shell: refused while another client has it; a shell that is not
\* found is dropped and made again, once.
TerminalAttach(c) ==
  LET p == conn[c].target IN
  /\ conn[c].step = "attach" /\ Answers(c)
  /\ IF p \in attached \/ (p \notin lives /\ ~ Retries(c))
       THEN GiveUp(c) /\ UNCHANGED attached
     ELSE IF p \notin lives
       THEN Go(c, [conn[c] EXCEPT !.step = "drop"]) /\ UNCHANGED attached
       ELSE /\ attached' = attached \cup {p}
            /\ Go(c, [conn[c] EXCEPT !.step = "attached", !.retry = TRUE])
  /\ UNCHANGED <<up, shell, lives, failed, overwritten, pausing, single>>

\* The client or the shell ends the connection.
TerminalClose(c) ==
  /\ conn[c].step = "attached"
  /\ attached' = IF SameRow(c) THEN attached \ {conn[c].target} ELSE attached
  /\ GiveUp(c)
  /\ UNCHANGED <<up, shell, lives, failed, overwritten, pausing, single>>

\* The shell cannot start: once more without a PTY, and then it is dropped.
TerminalFallback(c) ==
  /\ conn[c].step = "attached" /\ Answers(c) /\ conn[c].target \in lives
  /\ attached' = attached \ {conn[c].target}
  /\ Go(c, IF conn[c].pty
             THEN Ensure([conn[c] EXCEPT !.pty = FALSE], conn[c].saw, FALSE)
             ELSE [conn[c] EXCEPT !.step = "end"])
  /\ single' = (single /\ pausing = NotPausing)
  /\ UNCHANGED <<up, shell, lives, failed, overwritten, pausing>>

TerminalEnd(c) ==
  /\ conn[c].step = "end" /\ (Dropped(c) \/ DropFails(c)) /\ GiveUp(c)
  /\ UNCHANGED <<up, pausing, single>>

-----------------------------------------------------------------------------
(* The sandbox, as the requests of SandboxLifecycle.tla and its own end    *)
(* leave it.                                                               *)

\* A pause of a sandbox that has ended fails, whatever it does.
Ends == lives' = {} /\ attached' = {} /\ failed' = {} /\ overwritten' = {} /\ pausing' = NotPausing

\* Stop: the sandbox is killed, or forgotten, and the row names nothing any more.
StopBox ==
  /\ up \in {"running", "paused", "gone"}
  /\ up' = "stopped" /\ shell' = NoShell /\ Ends
  /\ UNCHANGED <<conn, single>>

\* Create: a new row, which names no shell, and a new sandbox.  What a connection has read
\* of the old one is of no use any more.
StartBox ==
  /\ up = "stopped" /\ up' = "running" /\ shell' = NoShell
  /\ conn' = [c \in Terminals |-> [Away EXCEPT !.step = conn[c].step]]
  /\ UNCHANGED <<lives, attached, failed, overwritten, pausing, single>>

\* Pause: the row is read; the shell it names is deleted, an error of which is only logged;
\* the sandbox is paused, and a name that was read is taken from the row.
PauseBegin ==
  /\ pausing = NotPausing /\ up = "running"
  /\ pausing' = [step |-> IF shell = NoShell THEN "pause" ELSE "delete", saw |-> shell]
  /\ single' = (single /\ \A c \in Terminals : conn[c].step \in {"away", "attached"})
  /\ UNCHANGED <<up, shellVars, conn>>

PauseDelete ==
  /\ pausing.step = "delete" /\ pausing' = [pausing EXCEPT !.step = "pause"]
  /\ DeleteFails(pausing.saw) /\ overwritten' = overwritten \cap lives'
  /\ UNCHANGED <<up, shell, conn, single>>

PauseEnd ==
  /\ pausing.step = "pause" /\ pausing' = NotPausing /\ up' = "paused"
  /\ UNCHANGED <<lives, attached, conn, failed, single>>
  /\ IF pausing.saw = NoShell THEN UNCHANGED <<shell, overwritten>> ELSE Name(NoShell, pausing.saw)

PauseFails ==
  /\ pausing.step = "pause" /\ pausing' = NotPausing
  /\ UNCHANGED <<up, shellVars, conn, single>>

ResumeBox ==
  /\ up = "paused" /\ up' = "running"
  /\ UNCHANGED <<shellVars, conn, pausing, single>>

\* The sandbox ends on its own; a shell exits.
ExpireBox ==
  /\ up = "running"
  /\ up' = "gone" /\ Ends
  /\ UNCHANGED <<shell, conn, single>>

Exit(p) ==
  /\ p \in lives /\ Delete(p) /\ overwritten' = overwritten \ {p}
  /\ UNCHANGED <<up, shell, conn, pausing, single>>

\* The process dies; a shell it was about to name is left.
TerminalDie ==
  /\ \E c \in Terminals : conn[c] # Away
  /\ conn' = [c \in Terminals |-> Away] /\ pausing' = NotPausing /\ attached' = {}
  /\ failed' = failed \cup (lives \cap {conn[c].target : c \in {d \in Terminals : conn[d].step = "write"}})
  /\ UNCHANGED <<up, shell, lives, overwritten, single>>

\* What the handler does next.
Handle(c) ==
  \/ TerminalDrop(c) \/ TerminalCheck(c) \/ TerminalWrite(c) \/ TerminalAttach(c)
  \/ TerminalEnd(c) \/ TerminalFails(c)
  \/ \E p \in Shells : TerminalMake(c, p) \/ TerminalMakeFails(c, p)

TerminalNext ==
  \/ \E c \in Terminals : \/ \E reset \in BOOLEAN : Connect(c, reset)
                          \/ Handle(c) \/ TerminalClose(c) \/ TerminalFallback(c)
  \/ StopBox \/ StartBox \/ ResumeBox \/ ExpireBox \/ TerminalDie
  \/ PauseBegin \/ PauseDelete \/ PauseEnd \/ PauseFails
  \/ \E p \in Shells : Exit(p)

TerminalFairness == \A c \in Terminals : WF_terminalVars(Handle(c))

TerminalSpec == TerminalInit /\ [][TerminalNext]_terminalVars /\ TerminalFairness

-----------------------------------------------------------------------------
(* Properties.                                                             *)

\* A shell that lives is one the row names, or is about to name: through resets, fallbacks,
\* pauses and restarts of the sandbox, in whatever order the calls of several connections
\* come, none is left running that nobody can reach, unless a call about it failed or a
\* handler replaced a name it had not read.  It takes two of them at once to do that.
NoShellLost ==
  /\ \A p \in lives \ (failed \cup overwritten) :
       p = shell \/ \E c \in Terminals : conn[c].step = "write" /\ conn[c].target = p
  /\ single => overwritten = {}

\* Opening a terminal comes to an end: attached, or refused, even if each shell it makes
\* is gone when it attaches.
TerminalSettles ==
  \A c \in Terminals : conn[c].step # "away" ~> conn[c].step \in {"away", "attached"}
=============================================================================
