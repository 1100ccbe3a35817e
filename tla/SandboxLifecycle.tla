--------------------------- MODULE SandboxLifecycle ---------------------------
(***************************************************************************)
(* app/service/sandbox.py and app/router/v1/sandbox.py: each session has   *)
(* at most one row session_sandbox, which names a sandbox of the remote    *)
(* OpenSandbox service.  The handlers are async: an await of the remote    *)
(* service lets others run between what a handler has read and what it     *)
(* writes.  Its shells are in SandboxTerminal.tla.                         *)
(*                                                                         *)
(* The remote service is external: a call that fails has done nothing, and *)
(* a sandbox may end on its own.  Renewal only moves that end, and files,  *)
(* the browser and image, environment and mounts change no state here.     *)
(***************************************************************************)
EXTENDS Integers, FiniteSets

CONSTANTS
  Boxed,      \* sessions, of one user
  Ops,        \* requests under way
  Remotes,    \* sandboxes ever created
  MaxPerUser, \* max_per_user
  MaxRows,    \* bound: rows a session has over time
  NoRemote

ASSUME SandboxAssumption ==
  /\ MaxPerUser \in Nat \ {0} /\ MaxRows \in Nat
  /\ Boxed # {} /\ IsFiniteSet(Boxed) /\ NoRemote \notin Remotes

VARIABLES
  row,        \* the row of each session; gen tells one row from the next
  remote,     \* state of each sandbox
  op,         \* what each request is doing
  adrift,     \* history: sandboxes given up with an error, or with the process
  overlapped  \* history: a row was stopped under another request for its session

sandboxVars == <<row, remote, op, adrift, overlapped>>

Active  == {"creating", "running", "paused"}
Idle    == [kind |-> "idle", step |-> "none", s |-> CHOOSE s \in Boxed : TRUE, gen |-> 0,
            box |-> NoRemote]
OpKinds == {"idle", "create", "stop", "pause", "resume", "admin"}

SandboxTypeOK ==
  /\ row \in [Boxed -> [gen : 0..MaxRows, box : Remotes \cup {NoRemote},
                        status : Active \cup {"none", "stopped", "error"}]]
  /\ remote \in [Remotes -> {"unused", "live", "paused", "gone"}]
  /\ op \in [Ops -> [kind : OpKinds, step : {"none", "call", "write"}, s : Boxed,
                     gen : 0..MaxRows, box : Remotes \cup {NoRemote}]]
  /\ adrift \subseteq Remotes /\ overlapped \in BOOLEAN

SandboxInit ==
  /\ row = [s \in Boxed |-> [gen |-> 0, box |-> NoRemote, status |-> "none"]]
  /\ remote = [x \in Remotes |-> "unused"]
  /\ op = [o \in Ops |-> Idle]
  /\ adrift = {} /\ overlapped = FALSE

-----------------------------------------------------------------------------
Start(o, kind, step, s, box) ==
  op' = [op EXCEPT ![o] = [Idle EXCEPT !.kind = kind, !.step = step, !.s = s,
                                       !.gen = row'[s].gen, !.box = box]]
Step(o, step) == op' = [op EXCEPT ![o].step = step]
Done(o)       == op' = [op EXCEPT ![o] = Idle]

\* The row this request read is still there.
Same(o) == row[op[o].s].gen = op[o].gen

\* The sandbox is gone, and with it what a request had given up.
Kill(x) ==
  /\ remote' = [remote EXCEPT ![x] = "gone"]
  /\ adrift' = adrift \ {x}

\* Another request is between its read and its write for session s.
Others(o, s) == \E a \in Ops \ {o} : op[a].s = s /\ op[a].kind \in {"create", "pause", "resume"}

-----------------------------------------------------------------------------
\* Config: a placeholder row if there is none; refused while the sandbox is active.
Configure(s) ==
  /\ row[s].status = "none" /\ row[s].gen < MaxRows
  /\ row' = [row EXCEPT ![s] = [gen |-> @.gen + 1, box |-> NoRemote, status |-> "stopped"]]
  /\ UNCHANGED <<remote, op, adrift, overlapped>>

\* The limit, counting only what runs.
FaultyActiveRows == {s \in Boxed : row[s].status = "running"}

ActiveRows == {s \in Boxed : row[s].status \in Active}

\* A row that is stopped or in error is deleted, and a new one inserted: creating.
FaultyNewGen(s) == row[s].gen

NewGen(s) == row[s].gen + 1

CreateBegin(o, s) ==
  /\ op[o].kind = "idle"
  /\ row[s].status \in {"none", "stopped", "error"} /\ row[s].gen < MaxRows
  /\ Cardinality(ActiveRows) < MaxPerUser
  /\ row' = [row EXCEPT ![s] = [gen |-> NewGen(s), box |-> NoRemote, status |-> "creating"]]
  /\ Start(o, "create", "call", s, NoRemote)
  /\ UNCHANGED <<remote, adrift, overlapped>>

CreateRemote(o, x) ==
  /\ op[o].kind = "create" /\ op[o].step = "call" /\ remote[x] = "unused"
  /\ remote' = [remote EXCEPT ![x] = "live"]
  /\ op' = [op EXCEPT ![o].step = "write", ![o].box = x]
  /\ UNCHANGED <<row, adrift, overlapped>>

\* Whatever the status of the row by now; an update of a row that is gone is an error.
CreateWrite(o) ==
  /\ op[o].kind = "create" /\ op[o].step = "write"
  /\ IF Same(o)
       THEN /\ row' = [row EXCEPT ![op[o].s].box = op[o].box, ![op[o].s].status = "running"]
            /\ UNCHANGED adrift
       ELSE adrift' = adrift \cup {op[o].box} /\ UNCHANGED row
  /\ Done(o)
  /\ UNCHANGED <<remote, overlapped>>

CreateFails(o) ==
  /\ op[o].kind = "create" /\ op[o].step = "call"
  /\ row' = IF Same(o) THEN [row EXCEPT ![op[o].s].status = "error"] ELSE row
  /\ Done(o)
  /\ UNCHANGED <<remote, adrift, overlapped>>

\* Stop, of a row that is not stopped.  With no sandbox to kill there is no await.
StopBegin(o, s) ==
  /\ op[o].kind = "idle" /\ row[s].status \notin {"none", "stopped"}
  /\ IF row[s].box = NoRemote
       THEN /\ row' = [row EXCEPT ![s].status = "stopped"]
            /\ overlapped' = (overlapped \/ Others(o, s))
            /\ UNCHANGED op
       ELSE /\ UNCHANGED <<row, overlapped>>
            /\ Start(o, "stop", "call", s, row[s].box)
  /\ UNCHANGED <<remote, adrift>>

\* The kill; if it fails, the stop goes on.
StopKill(o) ==
  /\ op[o].kind = "stop" /\ op[o].step = "call"
  /\ \/ Kill(op[o].box)
     \/ /\ remote[op[o].box] # "gone"
        /\ adrift' = adrift \cup {op[o].box} /\ UNCHANGED remote
  /\ Step(o, "write")
  /\ UNCHANGED <<row, overlapped>>

StopWrite(o) ==
  /\ op[o].kind = "stop" /\ op[o].step = "write"
  /\ IF Same(o)
       THEN /\ row' = [row EXCEPT ![op[o].s].box = NoRemote, ![op[o].s].status = "stopped"]
            /\ overlapped' = (overlapped \/ Others(o, op[o].s))
       ELSE UNCHANGED <<row, overlapped>>
  /\ Done(o)
  /\ UNCHANGED <<remote, adrift>>

\* Pause of a running sandbox: its shell is deleted first (SandboxTerminal.tla).
PauseBegin(o, s) ==
  /\ op[o].kind = "idle" /\ row[s].status = "running" /\ row[s].box # NoRemote
  /\ UNCHANGED row
  /\ Start(o, "pause", "call", s, row[s].box)
  /\ UNCHANGED <<remote, adrift, overlapped>>

PauseRemote(o) ==
  /\ op[o].kind = "pause" /\ op[o].step = "call"
  /\ IF remote[op[o].box] = "live"
       THEN remote' = [remote EXCEPT ![op[o].box] = "paused"] /\ Step(o, "write")
       ELSE UNCHANGED remote /\ Done(o)
  /\ UNCHANGED <<row, adrift, overlapped>>

PauseWrite(o) ==
  /\ op[o].kind = "pause" /\ op[o].step = "write"
  /\ row' = IF Same(o) THEN [row EXCEPT ![op[o].s].status = "paused"] ELSE row
  /\ Done(o)
  /\ UNCHANGED <<remote, adrift, overlapped>>

ResumeBegin(o, s) ==
  /\ op[o].kind = "idle" /\ row[s].status = "paused" /\ row[s].box # NoRemote
  /\ UNCHANGED row
  /\ Start(o, "resume", "call", s, row[s].box)
  /\ UNCHANGED <<remote, adrift, overlapped>>

ResumeRemote(o) ==
  /\ op[o].kind = "resume" /\ op[o].step = "call"
  /\ IF remote[op[o].box] = "paused"
       THEN remote' = [remote EXCEPT ![op[o].box] = "live"] /\ Step(o, "write")
       ELSE UNCHANGED remote /\ Done(o)
  /\ UNCHANGED <<row, adrift, overlapped>>

ResumeWrite(o) ==
  /\ op[o].kind = "resume" /\ op[o].step = "write"
  /\ row' = IF Same(o) THEN [row EXCEPT ![op[o].s].status = "running"] ELSE row
  /\ Done(o)
  /\ UNCHANGED <<remote, adrift, overlapped>>

\* Administration: any sandbox is killed, then the rows that name it are marked stopped.
AdminKill(o, x) ==
  /\ op[o].kind = "idle" /\ remote[x] \in {"live", "paused"}
  /\ Kill(x)
  /\ op' = [op EXCEPT ![o] = [Idle EXCEPT !.kind = "admin", !.step = "write", !.box = x]]
  /\ UNCHANGED <<row, overlapped>>

AdminWrite(o) ==
  /\ op[o].kind = "admin"
  /\ row' = [s \in Boxed |-> IF row[s].box = op[o].box THEN [row[s] EXCEPT !.status = "stopped"]
                                                        ELSE row[s]]
  /\ overlapped' = (overlapped \/ \E s \in Boxed : row[s].box = op[o].box /\ Others(o, s))
  /\ Done(o)
  /\ UNCHANGED <<remote, adrift>>

-----------------------------------------------------------------------------
\* A sandbox ends on its own.
Expire(x) ==
  /\ remote[x] \in {"live", "paused"}
  /\ Kill(x)
  /\ UNCHANGED <<row, op, overlapped>>

\* The process dies with its requests.
Die ==
  /\ op' = [o \in Ops |-> Idle]
  /\ adrift' = adrift \cup {op[o].box : o \in {a \in Ops : op[a].kind = "create" /\ op[a].box # NoRemote}}
  /\ UNCHANGED <<row, remote, overlapped>>

\* What a request does next.
Proceed(o) ==
  \/ \E x \in Remotes : CreateRemote(o, x)
  \/ CreateWrite(o) \/ CreateFails(o) \/ StopKill(o) \/ StopWrite(o)
  \/ PauseRemote(o) \/ PauseWrite(o) \/ ResumeRemote(o) \/ ResumeWrite(o) \/ AdminWrite(o)

Asked(o) ==
  \/ \E s \in Boxed : CreateBegin(o, s) \/ StopBegin(o, s) \/ PauseBegin(o, s) \/ ResumeBegin(o, s)
  \/ \E x \in Remotes : AdminKill(o, x)

SandboxNext ==
  \/ \E o \in Ops : Asked(o) \/ Proceed(o)
  \/ \E s \in Boxed : Configure(s)
  \/ \E x \in Remotes : Expire(x)
  \/ Die

SandboxSpec == SandboxInit /\ [][SandboxNext]_sandboxVars

-----------------------------------------------------------------------------
(* Properties.                                                             *)

\* No sandbox is lost silently: one that lives is named by a row, or its creation is under
\* way, or it was given up with an error that was reported or logged.
NothingForgotten ==
  \A x \in Remotes : remote[x] \in {"live", "paused"} =>
    \/ \E s \in Boxed : row[s].box = x
    \/ \E o \in Ops : op[o].kind = "create" /\ op[o].box = x
    \/ x \in adrift

\* A user has no more than max_per_user active sandboxes, paused ones included, unless a
\* stop overtook another request for the same session.
WithinLimit ==
  Cardinality({s \in Boxed : row[s].status \in {"creating", "running", "paused"}}) <= MaxPerUser
    \/ overlapped
=============================================================================
