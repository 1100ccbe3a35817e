---------------------------- MODULE RecordsProofs ----------------------------
(***************************************************************************)
(* What holds of the parts of MCRecords for any number of requests, rows   *)
(* and deliveries: SandboxLifecycle, KnowledgeTree and MessageIntake, with *)
(* ClientSync from its own proofs.  Each part has an inductive invariant;  *)
(* together they give the type invariant of the composition.               *)
(***************************************************************************)
EXTENDS MCRecords, ClientSyncProofs, FiniteSetTheorems, TLAPS

-----------------------------------------------------------------------------
(* Sandboxes.                                                              *)

\* A sandbox that is gone, or known to be out of control.
Settled(x) == remote[x] = "gone" \/ x \in adrift
\* Requests that act on the row of a session.
OnRow(o) == op[o].kind \in {"create", "stop", "pause", "resume"}

\* A request has read the row that is there or an older one; a creation is alone with its
\* row, which names no sandbox before it does; a stop kills the sandbox the row names, or
\* gives it up, before it writes.
OpsInOrder ==
  \A o \in Ops :
    /\ OnRow(o) => op[o].gen <= row[op[o].s].gen
    /\ op[o].kind = "create" =>
         /\ IF op[o].step = "call" THEN op[o].box = NoRemote ELSE op[o].box \in Remotes
         /\ Same(o) => row[op[o].s].box = NoRemote
         /\ \A p \in Ops \ {o} : OnRow(p) /\ op[p].s = op[o].s => op[p].gen # op[o].gen
    /\ op[o].kind = "stop" =>
         /\ op[o].box \in Remotes
         /\ Same(o) => row[op[o].s].box \in {op[o].box, NoRemote}
         /\ op[o].step = "write" => Settled(op[o].box)
    /\ op[o].kind = "admin" => op[o].box \in Remotes /\ remote[op[o].box] = "gone"

\* A row that is not active names no sandbox that still runs and was not given up.
ClosedRows ==
  \A s \in Boxed : row[s].status \in {"none", "stopped", "error"} /\ row[s].box # NoRemote =>
    Settled(row[s].box)

\* Unless requests for one session overlapped, the row a request is at work on is active,
\* so it was counted.
OpsOnActive ==
  ~ overlapped =>
    \A o \in Ops : op[o].kind \in {"create", "pause", "resume"} /\ Same(o) =>
      row[op[o].s].status \in Active

\* What every step keeps.
SandboxInv == SandboxTypeOK /\ OpsInOrder /\ ClosedRows /\ OpsOnActive /\ NothingForgotten /\ WithinLimit

USE SandboxAssumption

\* The fields of a request and of a row.
OpType == [kind : OpKinds, step : {"none", "call", "write"}, s : Boxed,
           gen : 0..MaxRows, box : Remotes \cup {NoRemote}]

RowType == [gen : 0..MaxRows, box : Remotes \cup {NoRemote},
            status : Active \cup {"none", "stopped", "error"}]

\* A write of box and status leaves the row's generation and the other rows.
LEMMA RowWritten ==
  ASSUME row \in [Boxed -> RowType], NEW s \in Boxed, NEW box \in Remotes \cup {NoRemote},
         NEW status \in Active \cup {"none", "stopped", "error"},
         row' = [row EXCEPT ![s].box = box, ![s].status = status]
  PROVE  /\ row' \in [Boxed -> RowType]
         /\ row'[s] = [gen |-> row[s].gen, box |-> box, status |-> status]
         /\ \A a \in Boxed \ {s} : row'[a] = row[a]
<1>1. row' \in [Boxed -> RowType]
  BY DEF RowType
<1>2. row'[s] = [gen |-> row[s].gen, box |-> box, status |-> status]
  BY DEF RowType
<1> QED
  BY <1>1, <1>2

\* So does a write of the status alone.
LEMMA StatusWritten ==
  ASSUME row \in [Boxed -> RowType], NEW s \in Boxed, NEW o \in Ops, PauseWrite(o) \/ ResumeWrite(o)
  PROVE  /\ row'[s].gen = row[s].gen /\ row'[s].box = row[s].box
         /\ ~ Same(o) \/ s # op[o].s => row'[s] = row[s]
         /\ Same(o) /\ s = op[o].s => row'[s].status \in {"paused", "running"}
<1>1. CASE PauseWrite(o)
  BY <1>1 DEF PauseWrite, RowType
<1>2. CASE ResumeWrite(o)
  BY <1>2 DEF ResumeWrite, RowType
<1> QED
  BY <1>1, <1>2

\* A request that begins has read the row it acts on.
LEMMA Started ==
  ASSUME op \in [Ops -> OpType], NEW o \in Ops, NEW kind \in OpKinds, NEW half \in {"call", "write"},
         NEW s \in Boxed, NEW box \in Remotes \cup {NoRemote}, row'[s].gen \in 0..MaxRows,
         Start(o, kind, half, s, box)
  PROVE  /\ op' \in [Ops -> OpType]
         /\ op'[o].kind = kind /\ op'[o].step = half /\ op'[o].s = s
         /\ op'[o].gen = row'[s].gen /\ op'[o].box = box
         /\ \A a \in Ops \ {o} : op'[a] = op[a]
<1> DEFINE new == [Idle EXCEPT !.kind = kind, !.step = half, !.s = s, !.gen = row'[s].gen, !.box = box]
<1>1. new \in OpType
  BY DEF Idle, OpType
<1>2. new.kind = kind /\ new.step = half /\ new.s = s /\ new.gen = row'[s].gen /\ new.box = box
  BY DEF Idle
<1>3. op' = [op EXCEPT ![o] = new]
  BY DEF Start
<1> HIDE DEF new
<1> QED
  BY <1>1, <1>2, <1>3

\* An administrator's kill names a sandbox and no row.
LEMMA AdminStarted ==
  ASSUME op \in [Ops -> OpType], NEW o \in Ops, NEW x \in Remotes, AdminKill(o, x)
  PROVE  /\ op' \in [Ops -> OpType] /\ op'[o].kind = "admin" /\ op'[o].box = x
         /\ \A a \in Ops \ {o} : op'[a] = op[a]
<1> DEFINE new == [Idle EXCEPT !.kind = "admin", !.step = "write", !.box = x]
<1>1. new \in OpType
  <2>1. Idle \in OpType
    BY DEF Idle, OpType, OpKinds
  <2> QED
    BY <2>1 DEF OpType, OpKinds
<1>2. new.kind = "admin" /\ new.box = x
  BY DEF Idle
<1>3. op' = [op EXCEPT ![o] = new]
  BY DEF AdminKill
<1> HIDE DEF new
<1> QED
  BY <1>1, <1>2, <1>3

\* A request that is over is as it was before it came.
LEMMA Ended ==
  ASSUME op \in [Ops -> OpType], NEW o \in Ops, Done(o)
  PROVE  /\ op' \in [Ops -> OpType] /\ op'[o].kind = "idle"
         /\ \A a \in Ops \ {o} : op'[a] = op[a]
  BY DEF Done, Idle, OpType, OpKinds

\* The rows, the sandboxes and the requests keep their types.
LEMMA SandboxTypes ==
  ASSUME SandboxInv, SandboxNext
  PROVE  SandboxTypeOK'
<1> USE DEF SandboxInv, SandboxTypeOK, Active
<1>0. op \in [Ops -> OpType] /\ row \in [Boxed -> RowType]
  BY DEF OpType, RowType
<1>a. ASSUME op' \in [Ops -> OpType]
      PROVE  op' \in [Ops -> [kind : OpKinds, step : {"none", "call", "write"},
                              s : Boxed, gen : 0..MaxRows, box : Remotes \cup {NoRemote}]]
  BY <1>a DEF OpType
<1>b. ASSUME row' \in [Boxed -> RowType]
      PROVE  row' \in [Boxed -> [gen : 0..MaxRows, box : Remotes \cup {NoRemote},
                                 status : Active \cup {"none", "stopped", "error"}]]
  BY <1>b DEF RowType
<1>1. ASSUME NEW o \in Ops, NEW s \in Boxed, CreateBegin(o, s) PROVE SandboxTypeOK'
  <2>1. row[s].gen \in 0..MaxRows /\ row[s].gen < MaxRows
    BY <1>1 DEF CreateBegin
  <2>2. row' \in [Boxed -> [gen : 0..MaxRows, box : Remotes \cup {NoRemote},
                            status : Active \cup {"none", "stopped", "error"}]]
    BY <1>1, <2>1 DEF CreateBegin, NewGen
  <2>3. row'[s].gen \in 0..MaxRows /\ "create" \in OpKinds
    BY <2>2 DEF OpKinds
  <2>4. op' \in [Ops -> OpType]
    BY <1>0, <1>1, <2>3, Started DEF CreateBegin
  <2> QED
    BY <1>1, <1>a, <2>2, <2>4 DEF CreateBegin
<1>2. ASSUME NEW o \in Ops, NEW s \in Boxed, StopBegin(o, s) \/ PauseBegin(o, s) \/ ResumeBegin(o, s)
      PROVE  SandboxTypeOK'
  <2>1. row' \in [Boxed -> [gen : 0..MaxRows, box : Remotes \cup {NoRemote},
                            status : Active \cup {"none", "stopped", "error"}]]
    BY <1>2 DEF StopBegin, PauseBegin, ResumeBegin
  <2>2. row'[s].gen \in 0..MaxRows /\ "stop" \in OpKinds /\ "pause" \in OpKinds /\ "resume" \in OpKinds
    BY <2>1 DEF OpKinds
  <2>3. op' \in [Ops -> OpType]
    BY <1>0, <1>2, <2>2, Started DEF StopBegin, PauseBegin, ResumeBegin
  <2>4. remote' = remote /\ adrift' = adrift /\ overlapped' \in BOOLEAN
    BY <1>2 DEF StopBegin, PauseBegin, ResumeBegin
  <2> QED
    BY <1>a, <2>1, <2>3, <2>4
<1>3. ASSUME NEW o \in Ops, NEW x \in Remotes, AdminKill(o, x) PROVE SandboxTypeOK'
  BY <1>0, <1>3, <1>a, AdminStarted DEF AdminKill, Kill
<1>4. ASSUME NEW o \in Ops, NEW x \in Remotes, CreateRemote(o, x) PROVE SandboxTypeOK'
  BY <1>4, ZenonT(30) DEF CreateRemote
<1>5. ASSUME NEW o \in Ops, CreateWrite(o) \/ CreateFails(o) PROVE SandboxTypeOK'
  <2>1. op' \in [Ops -> OpType]
    BY <1>0, <1>5, Ended DEF CreateWrite, CreateFails
  <2>2. CASE CreateFails(o)
    BY <1>a, <2>1, <2>2 DEF CreateFails
  <2>3. CASE CreateWrite(o) /\ Same(o)
    <3>1. row' \in [Boxed -> RowType]
      BY <1>0, <2>3, RowWritten DEF CreateWrite
    <3> QED
      BY <1>a, <1>b, <2>1, <2>3, <3>1 DEF CreateWrite
  <2>4. CASE CreateWrite(o) /\ ~ Same(o)
    <3>1. op[o].box \in Remotes
      BY <2>4 DEF CreateWrite, OpsInOrder
    <3> QED
      BY <1>a, <2>1, <2>4, <3>1 DEF CreateWrite
  <2> QED
    BY <1>5, <2>2, <2>3, <2>4
<1>6. ASSUME NEW o \in Ops, StopKill(o) PROVE SandboxTypeOK'
  <2>1. op[o].box \in Remotes
    BY <1>6 DEF StopKill, OpsInOrder
  <2> QED
    BY <1>6, <2>1, ZenonT(30) DEF StopKill, Kill, Step
<1>7. ASSUME NEW o \in Ops, StopWrite(o) PROVE SandboxTypeOK'
  <2>1. op' \in [Ops -> OpType]
    BY <1>0, <1>7, Ended DEF StopWrite
  <2>2. row' \in [Boxed -> RowType]
    BY <1>0, <1>7, RowWritten DEF StopWrite
  <2> QED
    BY <1>7, <1>a, <1>b, <2>1, <2>2 DEF StopWrite
<1>8. ASSUME NEW o \in Ops, PauseRemote(o) \/ ResumeRemote(o) PROVE SandboxTypeOK'
  <2>1. \/ UNCHANGED remote /\ Done(o)
        \/ /\ Step(o, "write")
           /\ \E what \in {"live", "paused"} : remote' = [remote EXCEPT ![op[o].box] = what]
    BY <1>8 DEF PauseRemote, ResumeRemote
  <2>2. UNCHANGED <<row, adrift, overlapped>>
    BY <1>8 DEF PauseRemote, ResumeRemote
  <2>3. remote' \in [Remotes -> {"unused", "live", "paused", "gone"}]
    BY <2>1
  <2>4. op' \in [Ops -> OpType]
    <3>1. CASE Done(o)
      BY <1>0, <3>1, Ended
    <3>2. CASE Step(o, "write")
      BY <1>0, <3>2 DEF Step, OpType
    <3> QED
      BY <2>1, <3>1, <3>2
  <2> QED
    BY <1>a, <2>2, <2>3, <2>4
<1>9. ASSUME NEW o \in Ops, PauseWrite(o) \/ ResumeWrite(o) PROVE SandboxTypeOK'
  <2>1. op' \in [Ops -> OpType]
    BY <1>0, <1>9, Ended DEF PauseWrite, ResumeWrite
  <2>2. CASE PauseWrite(o)
    BY <1>a, <2>1, <2>2 DEF PauseWrite
  <2>3. CASE ResumeWrite(o)
    BY <1>a, <2>1, <2>3 DEF ResumeWrite
  <2> QED
    BY <1>9, <2>2, <2>3
<1>10. ASSUME NEW o \in Ops, AdminWrite(o) PROVE SandboxTypeOK'
  BY <1>0, <1>10, <1>a, Ended DEF AdminWrite
<1>11. ASSUME NEW s \in Boxed, Configure(s) PROVE SandboxTypeOK'
  BY <1>11 DEF Configure
<1>12. ASSUME NEW x \in Remotes, Expire(x) PROVE SandboxTypeOK'
  BY <1>12 DEF Expire, Kill
<1>13. CASE Die
  <2>1. \A o \in {a \in Ops : op[a].kind = "create" /\ op[a].box # NoRemote} : op[o].box \in Remotes
    OBVIOUS
  <2> QED
    BY <1>13, <2>1 DEF Die, Idle, OpKinds
<1> QED
  BY <1>1, <1>2, <1>3, <1>4, <1>5, <1>6, <1>7, <1>8, <1>9, <1>10, <1>11, <1>12, <1>13
     DEF SandboxNext, Asked, Proceed

\* Requests act on the row they read, or on none: its creator alone names a sandbox in it,
\* and its stop has killed the sandbox or given it up.
LEMMA SandboxOrder ==
  ASSUME SandboxInv, SandboxNext
  PROVE  OpsInOrder'
<1> USE DEF SandboxInv
<1>0. op \in [Ops -> OpType] /\ row \in [Boxed -> RowType]
  BY DEF SandboxTypeOK, OpType, RowType
<1>1. ASSUME NEW o \in Ops, NEW s \in Boxed, CreateBegin(o, s) PROVE OpsInOrder'
  BY <1>1 DEF CreateBegin, SandboxTypeOK, OpsInOrder, Start, Idle, Same, OnRow, Settled, NewGen
<1>2. ASSUME NEW o \in Ops, NEW s \in Boxed, StopBegin(o, s) PROVE OpsInOrder'
  <2>1. CASE row[s].box = NoRemote
    BY <1>2, <2>1 DEF StopBegin, SandboxTypeOK, OpsInOrder, Same, OnRow, Settled
  <2>2. CASE row[s].box # NoRemote
    <3>1. row' = row /\ remote' = remote /\ adrift' = adrift /\ row[s].box \in Remotes
      BY <1>2, <2>2 DEF StopBegin, SandboxTypeOK
    <3>2. /\ op'[o].kind = "stop" /\ op'[o].step = "call" /\ op'[o].s = s
          /\ op'[o].gen = row[s].gen /\ op'[o].box = row[s].box
          /\ \A a \in Ops \ {o} : op'[a] = op[a]
      BY <1>0, <1>2, <2>2, <3>1, Started DEF StopBegin, SandboxTypeOK, OpKinds
    <3> QED
      BY <2>2, <3>1, <3>2 DEF SandboxTypeOK, OpsInOrder, Same, OnRow, Settled
  <2> QED
    BY <2>1, <2>2
<1>3. ASSUME NEW o \in Ops, NEW s \in Boxed, PauseBegin(o, s) \/ ResumeBegin(o, s) PROVE OpsInOrder'
  <2>1. row' = row /\ remote' = remote /\ adrift' = adrift /\ row[s].box \in Remotes
    BY <1>3 DEF PauseBegin, ResumeBegin, SandboxTypeOK
  <2>2. /\ op'[o].kind \in {"pause", "resume"} /\ op'[o].step = "call" /\ op'[o].s = s
        /\ op'[o].gen = row[s].gen /\ op'[o].box = row[s].box
        /\ \A a \in Ops \ {o} : op'[a] = op[a]
    BY <1>0, <1>3, <2>1, Started DEF PauseBegin, ResumeBegin, SandboxTypeOK, OpKinds
  <2> QED
    BY <2>1, <2>2 DEF SandboxTypeOK, OpsInOrder, Same, OnRow, Settled
<1>4. ASSUME NEW o \in Ops, NEW x \in Remotes, CreateRemote(o, x) PROVE OpsInOrder'
  BY <1>4 DEF CreateRemote, SandboxTypeOK, OpsInOrder, Same, OnRow, Settled
<1>5. ASSUME NEW o \in Ops, CreateWrite(o) PROVE OpsInOrder'
  <2>1. op'[o].kind = "idle" /\ \A a \in Ops \ {o} : op'[a] = op[a]
    BY <1>0, <1>5, Ended DEF CreateWrite
  <2>2. CASE Same(o)
    <3>1. /\ row'[op[o].s].gen = row[op[o].s].gen
          /\ \A s \in Boxed \ {op[o].s} : row'[s] = row[s]
      BY <1>0, <1>5, <2>2, RowWritten DEF CreateWrite, SandboxTypeOK
    <3> QED
      BY <1>5, <2>1, <2>2, <3>1, SMTT(30) DEF CreateWrite, SandboxTypeOK, OpsInOrder, Same, OnRow, Settled
  <2>3. CASE ~ Same(o)
    BY <1>5, <2>1, <2>3 DEF CreateWrite, SandboxTypeOK, OpsInOrder, Same, OnRow, Settled
  <2> QED
    BY <2>2, <2>3
<1>6. ASSUME NEW o \in Ops, CreateFails(o) PROVE OpsInOrder'
  BY <1>6 DEF CreateFails, Done, Idle, SandboxTypeOK, OpsInOrder, Same, OnRow, Settled
<1>7. ASSUME NEW o \in Ops, StopKill(o) PROVE OpsInOrder'
  BY <1>7 DEF StopKill, Kill, Step, SandboxTypeOK, OpsInOrder, Same, OnRow, Settled
<1>8. ASSUME NEW o \in Ops, StopWrite(o) PROVE OpsInOrder'
  BY <1>8 DEF StopWrite, Done, Idle, SandboxTypeOK, OpsInOrder, Same, OnRow, Settled
<1>9. ASSUME NEW o \in Ops, PauseRemote(o) \/ ResumeRemote(o) PROVE OpsInOrder'
  <2>1. /\ op[o].kind \in {"pause", "resume"} /\ row' = row /\ adrift' = adrift
        /\ \A x \in Remotes : remote[x] = "gone" => remote'[x] = "gone"
    BY <1>9 DEF PauseRemote, ResumeRemote, SandboxTypeOK
  <2>2. \A a \in Ops \ {o} : op'[a] = op[a]
    BY <1>0, <1>9, Ended DEF PauseRemote, ResumeRemote, Step
  <2>3. \/ op'[o].kind = "idle"
        \/ op'[o].kind = op[o].kind /\ op'[o].s = op[o].s /\ op'[o].gen = op[o].gen
    BY <1>0, <1>9, Ended DEF PauseRemote, ResumeRemote, Step, OpType
  <2> QED
    <3>1. CASE op'[o].kind = "idle"
      BY <2>1, <2>2, <3>1 DEF SandboxTypeOK, OpsInOrder, Same, OnRow, Settled
    <3>2. CASE op'[o].kind # "idle"
      BY <2>1, <2>2, <2>3, <3>2 DEF SandboxTypeOK, OpsInOrder, Same, OnRow, Settled
    <3> QED
      BY <3>1, <3>2
<1>10. ASSUME NEW o \in Ops, PauseWrite(o) \/ ResumeWrite(o) PROVE OpsInOrder'
  <2>1. op'[o].kind = "idle" /\ \A a \in Ops \ {o} : op'[a] = op[a]
    BY <1>0, <1>10, Ended DEF PauseWrite, ResumeWrite
  <2>2. /\ UNCHANGED <<remote, adrift>>
        /\ \A s \in Boxed : row'[s].gen = row[s].gen /\ row'[s].box = row[s].box
    BY <1>0, <1>10, StatusWritten DEF PauseWrite, ResumeWrite
  <2> QED
    BY <2>1, <2>2 DEF SandboxTypeOK, OpsInOrder, Same, OnRow, Settled
<1>11. ASSUME NEW o \in Ops, NEW x \in Remotes, AdminKill(o, x) PROVE OpsInOrder'
  <2>1. /\ op'[o].kind = "admin" /\ op'[o].box = x /\ \A a \in Ops \ {o} : op'[a] = op[a]
    BY <1>0, <1>11, AdminStarted
  <2> QED
    BY <1>11, <2>1 DEF AdminKill, Kill, SandboxTypeOK, OpsInOrder, Same, OnRow, Settled
<1>12. ASSUME NEW o \in Ops, AdminWrite(o) PROVE OpsInOrder'
  BY <1>12 DEF AdminWrite, Done, Idle, SandboxTypeOK, OpsInOrder, Same, OnRow, Settled
<1>13. ASSUME NEW s \in Boxed, Configure(s) PROVE OpsInOrder'
  BY <1>13 DEF Configure, SandboxTypeOK, OpsInOrder, Same, OnRow, Settled
<1>14. ASSUME NEW x \in Remotes, Expire(x) PROVE OpsInOrder'
  BY <1>14 DEF Expire, Kill, SandboxTypeOK, OpsInOrder, Same, OnRow, Settled
<1>15. CASE Die
  BY <1>15 DEF Die, Idle, OpsInOrder, OnRow
<1> QED
  BY <1>1, <1>2, <1>3, <1>4, <1>5, <1>6, <1>7, <1>8, <1>9, <1>10, <1>11, <1>12, <1>13, <1>14, <1>15
     DEF SandboxNext, Asked, Proceed

\* The steps below leave every row and what becomes of the sandboxes as they are.
LEMMA RemoteOnly ==
  ASSUME SandboxInv, NEW o \in Ops, PauseRemote(o) \/ ResumeRemote(o)
  PROVE  /\ UNCHANGED <<row, adrift, overlapped>>
         /\ \A x \in Remotes : (remote[x] = "gone" => remote'[x] = "gone")
                /\ (remote'[x] \in {"live", "paused"} => remote[x] \in {"live", "paused"})
         /\ \A a \in Ops \ {o} : op'[a] = op[a]
         /\ op[o].kind \in {"pause", "resume"} /\ op'[o].kind \in {"idle", "pause", "resume"}
         /\ op'[o].kind # "idle" => op'[o].s = op[o].s /\ op'[o].gen = op[o].gen
<1>0. op \in [Ops -> OpType]
  BY DEF SandboxInv, SandboxTypeOK, OpType
<1>1. /\ UNCHANGED <<row, adrift, overlapped>> /\ op[o].kind \in {"pause", "resume"}
      /\ \A x \in Remotes : (remote[x] = "gone" => remote'[x] = "gone")
            /\ (remote'[x] \in {"live", "paused"} => remote[x] \in {"live", "paused"})
  BY DEF PauseRemote, ResumeRemote, SandboxInv, SandboxTypeOK
<1>2. CASE Done(o)
  BY <1>0, <1>1, <1>2, Ended
<1>3. CASE Step(o, "write")
  BY <1>0, <1>1, <1>3 DEF Step, OpType
<1> QED
  BY <1>2, <1>3 DEF PauseRemote, ResumeRemote

\* A row that is not active names a sandbox only if that is gone or was given up.
LEMMA SandboxClosed ==
  ASSUME SandboxInv, SandboxNext
  PROVE  ClosedRows'
<1> USE DEF SandboxInv
<1>0. op \in [Ops -> OpType] /\ row \in [Boxed -> RowType]
  BY DEF SandboxTypeOK, OpType, RowType
<1>r. "running" \in Active
  BY DEF Active
<1>1. ASSUME UNCHANGED <<row, adrift>>, \A x \in Remotes : remote[x] = "gone" => remote'[x] = "gone"
      PROVE  ClosedRows'
  BY <1>1 DEF ClosedRows, Settled, SandboxTypeOK
<1>2. ASSUME NEW o \in Ops, NEW s \in Boxed, CreateBegin(o, s) \/ Configure(s) PROVE ClosedRows'
  BY <1>2 DEF CreateBegin, Configure, ClosedRows, Settled, SandboxTypeOK
<1>3. ASSUME NEW o \in Ops, NEW s \in Boxed, StopBegin(o, s) PROVE ClosedRows'
  BY <1>3 DEF StopBegin, ClosedRows, Settled, SandboxTypeOK
<1>4. ASSUME NEW o \in Ops, NEW s \in Boxed, PauseBegin(o, s) \/ ResumeBegin(o, s) PROVE ClosedRows'
  BY <1>1, <1>4 DEF PauseBegin, ResumeBegin
<1>5. ASSUME NEW o \in Ops, NEW x \in Remotes, CreateRemote(o, x) PROVE ClosedRows'
  BY <1>1, <1>5 DEF CreateRemote, SandboxTypeOK
<1>6. ASSUME NEW o \in Ops, CreateWrite(o) PROVE ClosedRows'
  <2>1. CASE Same(o)
    <3>1. row'[op[o].s].status = "running" /\ \A s \in Boxed \ {op[o].s} : row'[s] = row[s]
      BY <1>0, <1>6, <1>r, <2>1, RowWritten DEF CreateWrite, SandboxTypeOK
    <3> QED
      BY <1>6, <2>1, <3>1 DEF CreateWrite, ClosedRows, Settled
  <2>2. CASE ~ Same(o)
    BY <1>6, <2>2 DEF CreateWrite, ClosedRows, Settled
  <2> QED
    BY <2>1, <2>2
<1>7. ASSUME NEW o \in Ops, CreateFails(o) PROVE ClosedRows'
  BY <1>7 DEF CreateFails, ClosedRows, Settled, SandboxTypeOK, OpsInOrder
<1>8. ASSUME NEW o \in Ops, StopKill(o) PROVE ClosedRows'
  BY <1>8 DEF StopKill, Kill, ClosedRows, Settled, SandboxTypeOK
<1>9. ASSUME NEW o \in Ops, StopWrite(o) PROVE ClosedRows'
  <2>1. CASE Same(o)
    <3>1. /\ row'[op[o].s].box = NoRemote /\ \A s \in Boxed \ {op[o].s} : row'[s] = row[s]
      BY <1>0, <1>9, <2>1, RowWritten DEF StopWrite, SandboxTypeOK
    <3> QED
      BY <1>9, <3>1 DEF StopWrite, ClosedRows, Settled
  <2>2. CASE ~ Same(o)
    BY <1>9, <2>2 DEF StopWrite, ClosedRows, Settled
  <2> QED
    BY <2>1, <2>2
<1>10. ASSUME NEW o \in Ops, PauseRemote(o) \/ ResumeRemote(o) PROVE ClosedRows'
  BY <1>1, <1>10, RemoteOnly
<1>11. ASSUME NEW o \in Ops, PauseWrite(o) \/ ResumeWrite(o) PROVE ClosedRows'
  <2>1. UNCHANGED <<remote, adrift>>
    BY <1>11 DEF PauseWrite, ResumeWrite
  <2>2. \A s \in Boxed : row'[s] = row[s] \/ row'[s].status \in {"paused", "running"}
    BY <1>0, <1>11, StatusWritten
  <2> QED
    BY <2>1, <2>2 DEF ClosedRows, Settled
<1>12. ASSUME NEW o \in Ops, NEW x \in Remotes, AdminKill(o, x) \/ Expire(x) PROVE ClosedRows'
  BY <1>12 DEF AdminKill, Expire, Kill, ClosedRows, Settled, SandboxTypeOK
<1>13. ASSUME NEW o \in Ops, AdminWrite(o) PROVE ClosedRows'
  BY <1>13 DEF AdminWrite, ClosedRows, Settled, SandboxTypeOK, OpsInOrder
<1>14. ASSUME NEW s \in Boxed, Configure(s) PROVE ClosedRows'
  BY <1>14 DEF Configure, ClosedRows, Settled, SandboxTypeOK
<1>15. ASSUME NEW x \in Remotes, Expire(x) PROVE ClosedRows'
  BY <1>15 DEF Expire, Kill, ClosedRows, Settled, SandboxTypeOK
<1>16. CASE Die
  BY <1>16 DEF Die, ClosedRows, Settled
<1> QED
  BY <1>2, <1>3, <1>4, <1>5, <1>6, <1>7, <1>8, <1>9, <1>10, <1>11, <1>12, <1>13, <1>14, <1>15, <1>16
     DEF SandboxNext, Asked, Proceed

\* Unless a stop came between, a request still acts on an active row.
LEMMA SandboxActive ==
  ASSUME SandboxInv, SandboxNext
  PROVE  OpsOnActive'
<1> USE DEF SandboxInv
<1>0. op \in [Ops -> OpType] /\ row \in [Boxed -> RowType]
  BY DEF SandboxTypeOK, OpType, RowType
<1>r. "running" \in Active
  BY DEF Active
<1> DEFINE Acts(o) == op[o].kind \in {"create", "pause", "resume"}
<1>1. ASSUME ~ overlapped' => ~ overlapped,
             \A s \in Boxed : row'[s].gen = row[s].gen /\ (row[s].status \in Active => row'[s].status \in Active),
             \A a \in Ops : Acts(a)' => Acts(a) /\ op'[a].s = op[a].s /\ op'[a].gen = op[a].gen
      PROVE  OpsOnActive'
  BY <1>1 DEF OpsOnActive, Same, SandboxTypeOK
<1>2. ASSUME NEW o \in Ops, NEW s \in Boxed, CreateBegin(o, s) PROVE OpsOnActive'
  <2>1. /\ row'[s].status = "creating" /\ row'[s].gen = row[s].gen + 1 /\ overlapped' = overlapped
        /\ \A a \in Boxed \ {s} : row'[a] = row[a]
    BY <1>2 DEF CreateBegin, NewGen, SandboxTypeOK
  <2>2. op'[o].s = s /\ \A a \in Ops \ {o} : op'[a] = op[a]
    BY <1>2 DEF CreateBegin, Start, Idle, SandboxTypeOK
  <2> QED
    BY <2>1, <2>2 DEF OpsOnActive, OpsInOrder, OnRow, Same, SandboxTypeOK, Active
<1>3. ASSUME NEW o \in Ops, NEW s \in Boxed, StopBegin(o, s) PROVE OpsOnActive'
  <2>1. CASE row[s].box = NoRemote
    <3>1. /\ op' = op /\ op[o].kind = "idle" /\ row' = [row EXCEPT ![s].status = "stopped"]
          /\ ~ overlapped' => ~ overlapped /\ ~ Others(o, s)
      BY <1>3, <2>1 DEF StopBegin, SandboxTypeOK
    <3>2. \A a \in Boxed : row'[a].gen = row[a].gen /\ (a # s => row'[a] = row[a])
      BY <3>1 DEF SandboxTypeOK
    <3> QED
      BY <3>1, <3>2 DEF Others, OpsOnActive, Same, SandboxTypeOK
  <2>2. CASE row[s].box # NoRemote
    <3>1. row' = row /\ overlapped' = overlapped /\ row[s].box \in Remotes
      BY <1>3, <2>2 DEF StopBegin, SandboxTypeOK
    <3>2. op'[o].kind = "stop" /\ \A a \in Ops \ {o} : op'[a] = op[a]
      BY <1>0, <1>3, <2>2, <3>1, Started DEF StopBegin, SandboxTypeOK, OpKinds
    <3> QED
      BY <1>1, <3>1, <3>2
  <2> QED
    BY <2>1, <2>2
<1>4. ASSUME NEW o \in Ops, NEW s \in Boxed, PauseBegin(o, s) \/ ResumeBegin(o, s) PROVE OpsOnActive'
  <2>1. row' = row /\ overlapped' = overlapped /\ row[s].box \in Remotes /\ row[s].status \in Active
    BY <1>4 DEF PauseBegin, ResumeBegin, SandboxTypeOK, Active
  <2>2. op'[o].s = s /\ \A a \in Ops \ {o} : op'[a] = op[a]
    BY <1>0, <1>4, <2>1, Started DEF PauseBegin, ResumeBegin, SandboxTypeOK, OpKinds
  <2> QED
    BY <2>1, <2>2 DEF OpsOnActive, Same
<1>5. ASSUME NEW o \in Ops, NEW x \in Remotes, CreateRemote(o, x) PROVE OpsOnActive'
  BY <1>5 DEF CreateRemote, OpsOnActive, Same, SandboxTypeOK
<1>6. ASSUME NEW o \in Ops, CreateWrite(o) PROVE OpsOnActive'
  <2>1. op'[o].kind = "idle" /\ (\A a \in Ops \ {o} : op'[a] = op[a]) /\ overlapped' = overlapped
    BY <1>0, <1>6, Ended DEF CreateWrite
  <2>2. CASE Same(o)
    <3>1. /\ row'[op[o].s].gen = row[op[o].s].gen /\ row'[op[o].s].status = "running"
          /\ \A s \in Boxed \ {op[o].s} : row'[s] = row[s]
      BY <1>0, <1>6, <1>r, <2>2, RowWritten DEF CreateWrite, SandboxTypeOK
    <3> QED
      BY <1>1, <2>1, <3>1 DEF Active
  <2>3. CASE ~ Same(o)
    BY <1>1, <1>6, <2>1, <2>3 DEF CreateWrite
  <2> QED
    BY <2>2, <2>3
<1>7. ASSUME NEW o \in Ops, CreateFails(o) PROVE OpsOnActive'
  <2>1. op'[o].kind = "idle" /\ (\A a \in Ops \ {o} : op'[a] = op[a]) /\ overlapped' = overlapped
    BY <1>0, <1>7, Ended DEF CreateFails
  <2>2. /\ row' = IF Same(o) THEN [row EXCEPT ![op[o].s].status = "error"] ELSE row
        /\ op[o].kind = "create"
    BY <1>7 DEF CreateFails
  <2>3. \A a \in Ops \ {o} : op[a].s = op[o].s /\ Acts(a) => op[a].gen # op[o].gen
    BY <2>2 DEF OpsInOrder, OnRow
  <2> QED
    BY <2>1, <2>2, <2>3 DEF OpsOnActive, Same, SandboxTypeOK
<1>8. ASSUME NEW o \in Ops, StopKill(o) PROVE OpsOnActive'
  BY <1>8 DEF StopKill, Step, OpsOnActive, Same, SandboxTypeOK
<1>9. ASSUME NEW o \in Ops, StopWrite(o) PROVE OpsOnActive'
  <2>1. op'[o].kind = "idle" /\ \A a \in Ops \ {o} : op'[a] = op[a]
    BY <1>0, <1>9, Ended DEF StopWrite
  <2>2. CASE Same(o)
    <3>1. /\ row'[op[o].s].gen = row[op[o].s].gen
          /\ \A s \in Boxed \ {op[o].s} : row'[s] = row[s]
      BY <1>0, <1>9, <2>2, RowWritten DEF StopWrite, SandboxTypeOK
    <3> QED
      BY <1>9, <2>1, <2>2, <3>1 DEF StopWrite, Others, OpsOnActive, Same, SandboxTypeOK
  <2>3. CASE ~ Same(o)
    BY <1>1, <1>9, <2>1, <2>3 DEF StopWrite
  <2> QED
    BY <2>2, <2>3
<1>10. ASSUME NEW o \in Ops, PauseRemote(o) \/ ResumeRemote(o) PROVE OpsOnActive'
  BY <1>1, <1>10, RemoteOnly
<1>11. ASSUME NEW o \in Ops, PauseWrite(o) \/ ResumeWrite(o) PROVE OpsOnActive'
  <2>1. op'[o].kind = "idle" /\ (\A a \in Ops \ {o} : op'[a] = op[a]) /\ overlapped' = overlapped
    BY <1>0, <1>11, Ended DEF PauseWrite, ResumeWrite
  <2>2. \A s \in Boxed : row'[s].gen = row[s].gen /\ (row'[s] = row[s] \/ row'[s].status \in Active)
    BY <1>0, <1>11, StatusWritten DEF Active
  <2> QED
    BY <1>1, <2>1, <2>2
<1>12. ASSUME NEW o \in Ops, NEW x \in Remotes, AdminKill(o, x) PROVE OpsOnActive'
  <2>1. op'[o].kind = "admin" /\ \A a \in Ops \ {o} : op'[a] = op[a]
    BY <1>0, <1>12, AdminStarted
  <2> QED
    BY <1>1, <1>12, <2>1 DEF AdminKill
<1>13. ASSUME NEW o \in Ops, AdminWrite(o) PROVE OpsOnActive'
  <2>1. op[o].kind = "admin" /\ op'[o].kind = "idle" /\ \A a \in Ops \ {o} : op'[a] = op[a]
    BY <1>0, <1>13, Ended DEF AdminWrite
  <2> QED
    BY <1>13, <2>1, ZenonT(30) DEF AdminWrite, Others, OpsOnActive, Same, SandboxTypeOK
<1>14. ASSUME NEW s \in Boxed, Configure(s) PROVE OpsOnActive'
  BY <1>14 DEF Configure, OpsOnActive, OpsInOrder, OnRow, Same, SandboxTypeOK
<1>15. ASSUME NEW x \in Remotes, Expire(x) PROVE OpsOnActive'
  BY <1>1, <1>15 DEF Expire
<1>16. CASE Die
  BY <1>16 DEF Die, Idle, OpsOnActive
<1> QED
  BY <1>2, <1>3, <1>4, <1>5, <1>6, <1>7, <1>8, <1>9, <1>10, <1>11, <1>12, <1>13, <1>14, <1>15, <1>16
     DEF SandboxNext, Asked, Proceed

\* Stop, pause and resume read a row and, but for a stop with nothing to kill, wait.
LEMMA RowRead ==
  ASSUME SandboxInv, NEW o \in Ops, NEW s \in Boxed,
         StopBegin(o, s) \/ PauseBegin(o, s) \/ ResumeBegin(o, s)
  PROVE  /\ UNCHANGED <<remote, adrift>> /\ op[o].kind = "idle" /\ (overlapped => overlapped')
         /\ \A a \in Ops \ {o} : op'[a] = op[a]
         /\ \A a \in Boxed : row'[a].box = row[a].box
         /\ \A a \in Boxed : row'[a].status \in Active => row[a].status \in Active
<1>1. CASE StopBegin(o, s) /\ row[s].box = NoRemote
  <2>1. row' = [row EXCEPT ![s].status = "stopped"] /\ op' = op
    BY <1>1 DEF StopBegin
  <2>2. \A a \in Boxed : row'[a].box = row[a].box /\ (row'[a] = row[a] \/ row'[a].status = "stopped")
    BY <2>1 DEF SandboxInv, SandboxTypeOK
  <2>3. "stopped" \notin Active
    BY DEF Active
  <2> QED
    BY <1>1, <2>1, <2>2, <2>3 DEF StopBegin
<1>2. CASE StopBegin(o, s) /\ row[s].box # NoRemote
  BY <1>2 DEF StopBegin, Start, SandboxInv, SandboxTypeOK
<1>3. CASE PauseBegin(o, s)
  BY <1>3 DEF PauseBegin, Start, SandboxInv, SandboxTypeOK
<1>4. CASE ResumeBegin(o, s)
  BY <1>4 DEF ResumeBegin, Start, SandboxInv, SandboxTypeOK
<1> QED
  BY <1>1, <1>2, <1>3, <1>4

\* A sandbox is let go of by a row only when it is settled, and by its creator only when a
\* row names it or it is given up.
LEMMA SandboxRemembered ==
  ASSUME SandboxInv, SandboxNext
  PROVE  NothingForgotten'
<1> USE DEF SandboxInv
<1>0. op \in [Ops -> OpType] /\ row \in [Boxed -> RowType]
  BY DEF SandboxTypeOK, OpType, RowType
<1>1. ASSUME \A s \in Boxed : row'[s].box = row[s].box \/ row[s].box = NoRemote \/ Settled(row[s].box),
             \A x \in Remotes :
               /\ remote'[x] \in {"live", "paused"} => remote[x] \in {"live", "paused"}
               /\ remote[x] = "gone" => remote'[x] = "gone"
               /\ x \in adrift /\ remote'[x] \in {"live", "paused"} => x \in adrift',
             \A a \in Ops : op[a].kind = "create" /\ op[a].box # NoRemote =>
               \/ op'[a].kind = "create" /\ op'[a].box = op[a].box
               \/ op[a].box \in adrift'
      PROVE  NothingForgotten'
  <2> SUFFICES ASSUME NEW x \in Remotes, remote'[x] \in {"live", "paused"}
               PROVE  \/ \E s \in Boxed : row'[s].box = x
                      \/ \E o \in Ops : op'[o].kind = "create" /\ op'[o].box = x
                      \/ x \in adrift'
    BY DEF NothingForgotten
  <2>1. remote[x] \in {"live", "paused"} /\ remote[x] # "gone" /\ x # NoRemote
    BY <1>1
  <2>2. Settled(x) => x \in adrift'
    BY <1>1, <2>1 DEF Settled
  <2>3. CASE \E s \in Boxed : row[s].box = x
    BY <1>1, <2>1, <2>2, <2>3
  <2>4. CASE \E o \in Ops : op[o].kind = "create" /\ op[o].box = x
    BY <1>1, <2>1, <2>4
  <2>5. CASE x \in adrift
    BY <2>2, <2>5 DEF Settled
  <2> QED
    BY <2>1, <2>3, <2>4, <2>5 DEF NothingForgotten
<1>2. ASSUME NEW o \in Ops, NEW s \in Boxed, CreateBegin(o, s) PROVE NothingForgotten'
  <2>1. /\ UNCHANGED <<remote, adrift>> /\ op[o].kind = "idle"
        /\ \A a \in Ops \ {o} : op'[a] = op[a]
    BY <1>2 DEF CreateBegin, Start, SandboxTypeOK
  <2>2. \A a \in Boxed : row'[a].box = row[a].box \/ row[a].box = NoRemote \/ Settled(row[a].box)
    BY <1>2 DEF CreateBegin, ClosedRows, SandboxTypeOK
  <2> QED
    BY <1>1, <2>1, <2>2
<1>3. ASSUME NEW o \in Ops, NEW s \in Boxed, StopBegin(o, s) \/ PauseBegin(o, s) \/ ResumeBegin(o, s)
      PROVE  NothingForgotten'
  <2>1. /\ UNCHANGED <<remote, adrift>> /\ op[o].kind = "idle"
        /\ \A a \in Ops \ {o} : op'[a] = op[a]
    BY <1>3, RowRead
  <2>2. \A a \in Boxed : row'[a].box = row[a].box
    BY <1>3, RowRead
  <2> QED
    BY <1>1, <2>1, <2>2
<1>4. ASSUME NEW o \in Ops, NEW x \in Remotes, CreateRemote(o, x) PROVE NothingForgotten'
  <2>1. /\ UNCHANGED <<row, adrift>> /\ remote' = [remote EXCEPT ![x] = "live"]
        /\ op[o].kind = "create" /\ op[o].box = NoRemote
        /\ op'[o].kind = "create" /\ op'[o].box = x /\ \A a \in Ops \ {o} : op'[a] = op[a]
    BY <1>4 DEF CreateRemote, OpsInOrder, SandboxTypeOK
  <2> QED
    BY <2>1 DEF NothingForgotten, SandboxTypeOK
<1>5. ASSUME NEW o \in Ops, CreateWrite(o) PROVE NothingForgotten'
  <2>1. /\ op[o].kind = "create" /\ op[o].box \in Remotes /\ remote' = remote
        /\ \A a \in Ops \ {o} : op'[a] = op[a]
    BY <1>0, <1>5, Ended DEF CreateWrite, OpsInOrder
  <2>2. CASE Same(o)
    <3>1. "running" \in Active
      BY DEF Active
    <3>2. /\ row'[op[o].s].box = op[o].box /\ row[op[o].s].box = NoRemote /\ op[o].s \in Boxed
          /\ \A s \in Boxed \ {op[o].s} : row'[s] = row[s]
      BY <1>0, <1>5, <2>1, <2>2, <3>1, RowWritten DEF CreateWrite, SandboxTypeOK, OpsInOrder
    <3>3. adrift' = adrift
      BY <1>5, <2>2 DEF CreateWrite
    <3> QED
      BY <2>1, <3>2, <3>3 DEF NothingForgotten
  <2>3. CASE ~ Same(o)
    BY <1>1, <1>5, <2>1, <2>3 DEF CreateWrite
  <2> QED
    BY <2>2, <2>3
<1>6. ASSUME NEW o \in Ops, CreateFails(o) PROVE NothingForgotten'
  <2>1. /\ op[o].box = NoRemote /\ UNCHANGED <<remote, adrift>>
        /\ \A a \in Ops \ {o} : op'[a] = op[a]
    BY <1>0, <1>6, Ended DEF CreateFails, OpsInOrder
  <2>2. \A s \in Boxed : row'[s].box = row[s].box
    BY <1>6 DEF CreateFails, SandboxTypeOK
  <2> QED
    BY <1>1, <2>1, <2>2
<1>7. ASSUME NEW o \in Ops, StopKill(o) PROVE NothingForgotten'
  <2>1. /\ row' = row /\ \A a \in Ops : op'[a].kind = op[a].kind /\ op'[a].box = op[a].box
    BY <1>7 DEF StopKill, Step, SandboxTypeOK
  <2>2. \A x \in Remotes :
          /\ remote'[x] \in {"live", "paused"} => remote[x] \in {"live", "paused"}
          /\ remote[x] = "gone" => remote'[x] = "gone"
          /\ x \in adrift /\ remote'[x] \in {"live", "paused"} => x \in adrift'
    BY <1>7 DEF StopKill, Kill, SandboxTypeOK
  <2> QED
    BY <1>1, <2>1, <2>2
<1>8. ASSUME NEW o \in Ops, StopWrite(o) PROVE NothingForgotten'
  <2>1. /\ op[o].kind = "stop" /\ UNCHANGED <<remote, adrift>>
        /\ \A a \in Ops \ {o} : op'[a] = op[a]
    BY <1>0, <1>8, Ended DEF StopWrite
  <2>2. CASE Same(o)
    <3>1. /\ \A s \in Boxed \ {op[o].s} : row'[s] = row[s]
      BY <1>0, <1>8, <2>2, RowWritten DEF StopWrite, SandboxTypeOK
    <3>2. row[op[o].s].box = NoRemote \/ Settled(row[op[o].s].box)
      BY <1>8, <2>2 DEF StopWrite, OpsInOrder
    <3> QED
      BY <1>1, <2>1, <3>1, <3>2
  <2>3. CASE ~ Same(o)
    BY <1>1, <1>8, <2>1, <2>3 DEF StopWrite
  <2> QED
    BY <2>2, <2>3
<1>9. ASSUME NEW o \in Ops, PauseRemote(o) \/ ResumeRemote(o) PROVE NothingForgotten'
  BY <1>1, <1>9, RemoteOnly
<1>10. ASSUME NEW o \in Ops, PauseWrite(o) \/ ResumeWrite(o) PROVE NothingForgotten'
  <2>1. /\ op[o].kind # "create" /\ UNCHANGED <<remote, adrift>>
        /\ \A a \in Ops \ {o} : op'[a] = op[a]
    BY <1>0, <1>10, Ended DEF PauseWrite, ResumeWrite
  <2>2. \A s \in Boxed : row'[s].box = row[s].box
    BY <1>0, <1>10, StatusWritten
  <2> QED
    BY <1>1, <2>1, <2>2
<1>11. ASSUME NEW o \in Ops, NEW x \in Remotes, AdminKill(o, x) PROVE NothingForgotten'
  <2>1. op[o].kind = "idle" /\ row' = row /\ \A a \in Ops \ {o} : op'[a] = op[a]
    BY <1>0, <1>11, AdminStarted DEF AdminKill
  <2> QED
    BY <1>1, <1>11, <2>1 DEF AdminKill, Kill, SandboxTypeOK
<1>12. ASSUME NEW o \in Ops, AdminWrite(o) PROVE NothingForgotten'
  <2>1. /\ op[o].kind = "admin" /\ UNCHANGED <<remote, adrift>>
        /\ \A a \in Ops \ {o} : op'[a] = op[a]
    BY <1>0, <1>12, Ended DEF AdminWrite
  <2>2. \A s \in Boxed : row'[s].box = row[s].box
    BY <1>12 DEF AdminWrite, SandboxTypeOK
  <2> QED
    BY <1>1, <2>1, <2>2
<1>13. ASSUME NEW s \in Boxed, Configure(s) PROVE NothingForgotten'
  <2>1. \A a \in Boxed : row'[a].box = row[a].box \/ row[a].box = NoRemote \/ Settled(row[a].box)
    BY <1>13 DEF Configure, ClosedRows, SandboxTypeOK
  <2> QED
    BY <1>1, <1>13, <2>1 DEF Configure
<1>14. ASSUME NEW x \in Remotes, Expire(x) PROVE NothingForgotten'
  BY <1>1, <1>14 DEF Expire, Kill, SandboxTypeOK
<1>15. CASE Die
  <2>1. \A a \in Ops : op[a].kind = "create" /\ op[a].box # NoRemote => op[a].box \in adrift'
    BY <1>15 DEF Die
  <2> QED
    BY <1>1, <1>15, <2>1 DEF Die
<1> QED
  BY <1>2, <1>3, <1>4, <1>5, <1>6, <1>7, <1>8, <1>9, <1>10, <1>11, <1>12, <1>13, <1>14, <1>15
     DEF SandboxNext, Asked, Proceed

\* Only a creation, which counts first, makes one more row active.
LEMMA SandboxLimited ==
  ASSUME SandboxInv, SandboxNext
  PROVE  WithinLimit'
<1> USE DEF SandboxInv
<1>0. op \in [Ops -> OpType] /\ row \in [Boxed -> RowType]
  BY DEF SandboxTypeOK, OpType, RowType
<1>1. /\ IsFiniteSet(ActiveRows) /\ Cardinality(ActiveRows) \in Nat
      /\ WithinLimit <=> Cardinality(ActiveRows) <= MaxPerUser \/ overlapped
      /\ WithinLimit' <=> Cardinality(ActiveRows') <= MaxPerUser \/ overlapped'
  <2>1. ActiveRows = {s \in Boxed : row[s].status \in {"creating", "running", "paused"}}
    BY DEF ActiveRows, Active
  <2>2. ActiveRows' = {s \in Boxed : row[s].status \in {"creating", "running", "paused"}}'
    BY DEF ActiveRows, Active
  <2>3. IsFiniteSet(ActiveRows) /\ Cardinality(ActiveRows) \in Nat
    BY FS_Subset, FS_CardinalityType DEF ActiveRows
  <2> QED
    BY <2>1, <2>2, <2>3 DEF WithinLimit
<1>2. ASSUME overlapped => overlapped',
             ~ overlapped' => \A s \in Boxed : row'[s].status \in Active => row[s].status \in Active
      PROVE  WithinLimit'
  <2>1. CASE ~ overlapped'
    <3>1. ActiveRows' \subseteq ActiveRows
      BY <1>2, <2>1 DEF ActiveRows
    <3>2. Cardinality(ActiveRows') <= Cardinality(ActiveRows) /\ Cardinality(ActiveRows') \in Nat
      BY <1>1, <3>1, FS_Subset, FS_CardinalityType
    <3>3. Cardinality(ActiveRows) <= MaxPerUser
      BY <1>1, <1>2, <2>1
    <3> QED
      BY <1>1, <3>2, <3>3
  <2> QED
    BY <1>1, <2>1
<1>3. ASSUME NEW o \in Ops, NEW s \in Boxed, CreateBegin(o, s) PROVE WithinLimit'
  <2>1. Cardinality(ActiveRows) < MaxPerUser /\ \A a \in Boxed \ {s} : row'[a] = row[a]
    BY <1>3 DEF CreateBegin, SandboxTypeOK
  <2>2. ActiveRows' \subseteq ActiveRows \cup {s}
    BY <2>1 DEF ActiveRows
  <2>3. IsFiniteSet(ActiveRows \cup {s}) /\ Cardinality(ActiveRows \cup {s}) <= Cardinality(ActiveRows) + 1
    <3>1. /\ IsFiniteSet(ActiveRows \cup {s})
          /\ \/ Cardinality(ActiveRows \cup {s}) = Cardinality(ActiveRows)
             \/ Cardinality(ActiveRows \cup {s}) = Cardinality(ActiveRows) + 1
      BY <1>1, FS_AddElement, Zenon
    <3> QED
      BY <1>1, <3>1
  <2>4. Cardinality(ActiveRows') <= Cardinality(ActiveRows \cup {s}) /\ Cardinality(ActiveRows') \in Nat
        /\ Cardinality(ActiveRows \cup {s}) \in Nat
    BY <2>2, <2>3, FS_Subset, FS_CardinalityType
  <2> QED
    BY <1>1, <2>1, <2>3, <2>4
<1>4. ASSUME NEW o \in Ops, NEW s \in Boxed, StopBegin(o, s) \/ PauseBegin(o, s) \/ ResumeBegin(o, s)
      PROVE  WithinLimit'
  BY <1>2, <1>4, RowRead
<1>5. ASSUME NEW o \in Ops, NEW x \in Remotes, CreateRemote(o, x) PROVE WithinLimit'
  BY <1>2, <1>5 DEF CreateRemote
<1>6. ASSUME NEW o \in Ops, CreateWrite(o) PROVE WithinLimit'
  <2>1. overlapped' = overlapped /\ op[o].kind = "create"
    BY <1>6 DEF CreateWrite
  <2>2. CASE Same(o)
    <3>1. "running" \in Active
      BY DEF Active
    <3>2. \A s \in Boxed \ {op[o].s} : row'[s] = row[s]
      BY <1>0, <1>6, <2>2, <3>1, RowWritten DEF CreateWrite, SandboxTypeOK
    <3>3. ~ overlapped => row[op[o].s].status \in Active
      BY <2>1, <2>2 DEF OpsOnActive
    <3> QED
      BY <1>2, <2>1, <3>2, <3>3
  <2>3. CASE ~ Same(o)
    BY <1>2, <1>6, <2>1, <2>3 DEF CreateWrite
  <2> QED
    BY <2>2, <2>3
<1>7. ASSUME NEW o \in Ops, CreateFails(o) PROVE WithinLimit'
  <2>1. \A a \in Boxed : row'[a].status \in Active => row[a].status \in Active
    BY <1>7 DEF CreateFails, SandboxTypeOK, Active
  <2> QED
    BY <1>2, <1>7, <2>1 DEF CreateFails
<1>8. ASSUME NEW o \in Ops, StopKill(o) PROVE WithinLimit'
  BY <1>2, <1>8 DEF StopKill
<1>9. ASSUME NEW o \in Ops, StopWrite(o) PROVE WithinLimit'
  <2>1. overlapped => overlapped'
    BY <1>9 DEF StopWrite
  <2>2. CASE Same(o)
    <3>1. row'[op[o].s].status = "stopped" /\ \A s \in Boxed \ {op[o].s} : row'[s] = row[s]
      BY <1>0, <1>9, <2>2, RowWritten DEF StopWrite, SandboxTypeOK
    <3> QED
      BY <1>2, <2>1, <3>1 DEF Active
  <2>3. CASE ~ Same(o)
    BY <1>2, <1>9, <2>1, <2>3 DEF StopWrite
  <2> QED
    BY <2>2, <2>3
<1>10. ASSUME NEW o \in Ops, PauseRemote(o) \/ ResumeRemote(o) PROVE WithinLimit'
  BY <1>2, <1>10, RemoteOnly
<1>11. ASSUME NEW o \in Ops, PauseWrite(o) \/ ResumeWrite(o) PROVE WithinLimit'
  <2>1. overlapped' = overlapped /\ op[o].kind \in {"pause", "resume"}
    BY <1>11 DEF PauseWrite, ResumeWrite
  <2>2. \A s \in Boxed : row'[s] = row[s] \/ (Same(o) /\ s = op[o].s)
    BY <1>0, <1>11, StatusWritten
  <2>3. ~ overlapped /\ Same(o) => row[op[o].s].status \in Active
    BY <2>1 DEF OpsOnActive
  <2> QED
    BY <1>2, <2>1, <2>2, <2>3
<1>12. ASSUME NEW o \in Ops, NEW x \in Remotes, AdminKill(o, x) PROVE WithinLimit'
  BY <1>2, <1>12 DEF AdminKill
<1>13. ASSUME NEW o \in Ops, AdminWrite(o) PROVE WithinLimit'
  <2>1. \A a \in Boxed : row'[a].status \in Active => row[a].status \in Active
    BY <1>13 DEF AdminWrite, SandboxTypeOK, Active
  <2>2. overlapped => overlapped'
    BY <1>13 DEF AdminWrite
  <2> QED
    BY <1>2, <2>1, <2>2
<1>14. ASSUME NEW s \in Boxed, Configure(s) PROVE WithinLimit'
  <2>1. \A a \in Boxed : row'[a].status \in Active => row[a].status \in Active
    BY <1>14 DEF Configure, SandboxTypeOK, Active
  <2> QED
    BY <1>2, <1>14, <2>1 DEF Configure
<1>15. ASSUME NEW x \in Remotes, Expire(x) PROVE WithinLimit'
  BY <1>2, <1>15 DEF Expire
<1>16. CASE Die
  BY <1>2, <1>16 DEF Die
<1> QED
  BY <1>3, <1>4, <1>5, <1>6, <1>7, <1>8, <1>9, <1>10, <1>11, <1>12, <1>13, <1>14, <1>15, <1>16
     DEF SandboxNext, Asked, Proceed

\* The rows and requests of the first state satisfy the invariant.
LEMMA SandboxStarts == SandboxInit => SandboxInv
<1> SUFFICES ASSUME SandboxInit PROVE SandboxInv
  OBVIOUS
<1>1. (CHOOSE s \in Boxed : TRUE) \in Boxed
  OBVIOUS
<1>2. Idle \in OpType /\ Idle.kind = "idle"
  BY <1>1 DEF Idle, OpType, OpKinds
<1>3. op \in [Ops -> OpType] /\ \A o \in Ops : op[o].kind = "idle"
  BY <1>2 DEF SandboxInit
<1>4. row \in [Boxed -> RowType]
  BY DEF SandboxInit, RowType
<1>5. SandboxTypeOK
  BY <1>3, <1>4 DEF SandboxInit, SandboxTypeOK, OpType, RowType
<1>6. OpsInOrder /\ ClosedRows /\ OpsOnActive /\ NothingForgotten
  BY <1>3 DEF SandboxInit, OpsInOrder, OnRow, ClosedRows, OpsOnActive, NothingForgotten
<1>7. WithinLimit
  <2>1. {s \in Boxed : row[s].status \in {"creating", "running", "paused"}} = {}
    BY DEF SandboxInit
  <2>2. Cardinality({s \in Boxed : row[s].status \in {"creating", "running", "paused"}}) = 0
    BY <2>1, FS_EmptySet
  <2> QED
    BY <2>2 DEF WithinLimit
<1> QED
  BY <1>5, <1>6, <1>7 DEF SandboxInv

\* Every step, or none, keeps it.
LEMMA SandboxSteps == SandboxInv /\ [SandboxNext]_sandboxVars => SandboxInv'
<1> SUFFICES ASSUME SandboxInv, [SandboxNext]_sandboxVars PROVE SandboxInv'
  OBVIOUS
<1>1. CASE SandboxNext
  BY <1>1, SandboxTypes, SandboxOrder, SandboxClosed, SandboxActive, SandboxRemembered, SandboxLimited
     DEF SandboxInv
<1>2. CASE UNCHANGED sandboxVars
  BY <1>2 DEF sandboxVars, SandboxInv, SandboxTypeOK, OpsInOrder, OnRow, Same, Settled, ClosedRows,
              OpsOnActive, NothingForgotten, WithinLimit
<1> QED
  BY <1>1, <1>2

\* No sandbox that lives is forgotten: a row names it, its creation is under way, or it was
\* given up with an error or with the process.
THEOREM SandboxesKept == SandboxSpec => []NothingForgotten
<1>1. SandboxInv => NothingForgotten
  BY DEF SandboxInv
<1> QED
  BY <1>1, SandboxStarts, SandboxSteps, PTL DEF SandboxSpec

\* A user has no more than max_per_user active sandboxes unless a stop overtook another
\* request for the same session.
THEOREM LimitHolds == SandboxSpec => []WithinLimit
<1>1. SandboxInv => WithinLimit
  BY DEF SandboxInv
<1> QED
  BY <1>1, SandboxStarts, SandboxSteps, PTL DEF SandboxSpec

-----------------------------------------------------------------------------
(* Deliveries.                                                             *)

USE IntakeAssumption

\* Where each delivery is and what it has stored by then: a delivery of an indexed message
\* past the index has committed its row, and found no other.
IntakeInOrder ==
  \A d \in Deliveries :
    /\ at_[d] \in {"none", "store", "index"} => d \notin notes \cup events
    /\ at_[d] # "none" => note[d] \in Notes
    /\ at_[d] \in {"stored", "think", "send"} => d \in bridged /\ room[d] \in rooms
    /\ at_[d] \in {"index", "event", "analyse"} => room[d] \in rooms \cup {d}
    /\ note[d] \in Searchable /\ at_[d] \in {"event", "analyse"} =>
         d \in notes /\ twin[d] = NoDelivery

\* Two deliveries of one message at work are what together is about.
WorkApart ==
  \A d, e \in Deliveries :
    d # e /\ at_[d] \in Working /\ at_[e] \in Working /\ note[d] = note[e] => note[d] \in together

\* An indexed message has one row, and none while a delivery that found none is to index it.
OneRow ==
  \A d, e \in Deliveries :
    d # e /\ note[d] = note[e] /\ note[d] \in Searchable \ together =>
      /\ ~ (d \in notes /\ e \in notes)
      /\ ~ (d \in notes /\ at_[e] = "index" /\ twin[e] = NoDelivery)

EventHasRow == \A d \in events : note[d] \in Searchable => d \in notes

IntakeInv == IntakeTypeOK /\ IntakeInOrder /\ WorkApart /\ OneRow /\ EventHasRow

\* Every step of a delivery, and the death of the process, keeps the invariant.
LEMMA IntakeKept == IntakeInv /\ [IntakeNext]_intakeVars => IntakeInv'
<1> SUFFICES ASSUME IntakeInv, [IntakeNext]_intakeVars PROVE IntakeInv'
  OBVIOUS
<1> USE DEF IntakeInv, IntakeTypeOK, Working
<1>1. ASSUME NEW d \in Deliveries, NEW n \in Notes, Receive(d, n)
      PROVE  IntakeInv'
  <2>1. IntakeTypeOK'
    BY <1>1 DEF Receive, Goes
  <2>2. IntakeInOrder'
    BY <1>1 DEF IntakeInOrder, Receive, Goes
  <2>3. WorkApart'
    BY <1>1 DEF WorkApart, Receive, Goes
  <2>4. OneRow'
    BY <1>1 DEF IntakeInOrder, OneRow, Receive, Goes
  <2>5. EventHasRow'
    BY <1>1 DEF IntakeInOrder, EventHasRow, Receive, Goes
  <2> QED
    BY <2>1, <2>2, <2>3, <2>4, <2>5
<1>2. ASSUME NEW d \in Deliveries, IntakeStore(d)
      PROVE  IntakeInv'
  <2>1. IntakeTypeOK'
    BY <1>2 DEF IntakeStore, Choose, Twins, Goes
  <2>2. IntakeInOrder'
    BY <1>2 DEF IntakeInOrder, IntakeStore, Choose, Twins, Goes
  <2>3. WorkApart'
    BY <1>2 DEF WorkApart, IntakeStore, Choose, Twins, Goes
  <2>4. OneRow'
    BY <1>2 DEF OneRow, WorkApart, IntakeStore, Choose, Twins, Goes
  <2>5. EventHasRow'
    BY <1>2 DEF IntakeInOrder, EventHasRow, IntakeStore, Choose, Twins, Goes
  <2> QED
    BY <2>1, <2>2, <2>3, <2>4, <2>5
<1>3. ASSUME NEW d \in Deliveries, IntakeIndex(d)
      PROVE  IntakeInv'
  <2>1. IntakeTypeOK'
    BY <1>3 DEF IntakeIndex, Save, Goes
  <2>2. IntakeInOrder'
    BY <1>3 DEF IntakeInOrder, IntakeIndex, Save, Goes
  <2>3. WorkApart'
    BY <1>3 DEF WorkApart, IntakeIndex, Save, Goes
  <2>4. OneRow'
    BY <1>3 DEF OneRow, WorkApart, IntakeIndex, Save, Goes
  <2>5. EventHasRow'
    BY <1>3 DEF IntakeInOrder, EventHasRow, IntakeIndex, Save, Goes
  <2> QED
    BY <2>1, <2>2, <2>3, <2>4, <2>5
<1>4. ASSUME NEW d \in Deliveries, IntakeEvent(d)
      PROVE  IntakeInv'
  <2>1. IntakeTypeOK'
    BY <1>4 DEF IntakeEvent, Goes
  <2>2. IntakeInOrder'
    BY <1>4 DEF IntakeInOrder, IntakeEvent, Goes
  <2>3. WorkApart'
    BY <1>4 DEF WorkApart, IntakeEvent, Goes
  <2>4. OneRow'
    BY <1>4 DEF OneRow, IntakeEvent, Goes
  <2>5. EventHasRow'
    BY <1>4 DEF EventHasRow, IntakeEvent, Goes
  <2> QED
    BY <2>1, <2>2, <2>3, <2>4, <2>5
<1>5. ASSUME NEW d \in Deliveries, IntakeCommit(d)
      PROVE  IntakeInv'
  <2>1. IntakeTypeOK'
    BY <1>5 DEF IntakeCommit, Save, Afterward, Goes
  <2>2. IntakeInOrder'
    BY <1>5 DEF IntakeInOrder, IntakeCommit, Save, Afterward, Goes
  <2>3. WorkApart'
    BY <1>5 DEF WorkApart, IntakeCommit, Save, Afterward, Goes
  <2>4. OneRow'
    BY <1>5 DEF IntakeInOrder, OneRow, IntakeCommit, Save, Afterward, Goes
  <2>5. EventHasRow'
    BY <1>5 DEF IntakeInOrder, EventHasRow, IntakeCommit, Save, Afterward, Goes
  <2> QED
    BY <2>1, <2>2, <2>3, <2>4, <2>5
<1>6. ASSUME NEW d \in Deliveries, ReplyBegin(d) \/ ReplyStore(d) \/ ReplySent(d)
      PROVE  IntakeInv'
  <2>1. IntakeTypeOK'
    BY <1>6 DEF IntakeInOrder, ReplyBegin, ReplyStore, ReplySent, Goes
  <2>2. IntakeInOrder'
    BY <1>6 DEF IntakeInOrder, ReplyBegin, ReplyStore, ReplySent, Goes
  <2>3. WorkApart'
    BY <1>6 DEF WorkApart, ReplyBegin, ReplyStore, ReplySent, Goes
  <2>4. OneRow'
    BY <1>6 DEF OneRow, ReplyBegin, ReplyStore, ReplySent, Goes
  <2>5. EventHasRow'
    BY <1>6 DEF EventHasRow, ReplyBegin, ReplyStore, ReplySent, Goes
  <2> QED
    BY <2>1, <2>2, <2>3, <2>4, <2>5
<1>7. CASE IntakeCrash
  <2>1. IntakeTypeOK'
    BY <1>7 DEF IntakeCrash
  <2>2. IntakeInOrder'
    BY <1>7 DEF IntakeInOrder, IntakeCrash
  <2>3. WorkApart'
    BY <1>7 DEF WorkApart, IntakeCrash
  <2>4. OneRow'
    BY <1>7 DEF OneRow, IntakeCrash
  <2>5. EventHasRow'
    BY <1>7 DEF EventHasRow, IntakeCrash
  <2> QED
    BY <2>1, <2>2, <2>3, <2>4, <2>5
<1>8. CASE UNCHANGED intakeVars
  BY <1>8 DEF intakeVars, IntakeInOrder, WorkApart, OneRow, EventHasRow
<1> QED
  BY <1>1, <1>2, <1>3, <1>4, <1>5, <1>6, <1>7, <1>8 DEF IntakeNext

\* Nothing is delivered at the start.
LEMMA IntakeStarts == IntakeInit => IntakeInv
  BY DEF IntakeInit, IntakeInv, IntakeTypeOK, Working, IntakeInOrder, WorkApart, OneRow, EventHasRow

\* Events of an indexed message have rows, and there is one row.
LEMMA OneRowOneEvent == IntakeInv => EventOnce
<1> SUFFICES ASSUME IntakeInv, NEW n \in Searchable \ together
             PROVE  Cardinality({d \in events : note[d] = n}) <= 1
  BY DEF EventOnce
<1>1. \A d, e \in {x \in events : note[x] = n} : d = e
  BY DEF IntakeInv, IntakeTypeOK, OneRow, EventHasRow
<1>2. CASE {d \in events : note[d] = n} = {}
  BY <1>2, FS_EmptySet
<1>3. CASE {d \in events : note[d] = n} # {}
  <2>1. PICK d \in events : {x \in events : note[x] = n} = {d}
    BY <1>1, <1>3
  <2>2. Cardinality({d}) = 1
    BY FS_Singleton
  <2> QED
    BY <2>1, <2>2
<1> QED
  BY <1>2, <1>3

\* A message that is indexed leads to one event, however often it is delivered and
\* wherever a delivery dies, unless two deliveries of it were processed at once.
THEOREM OneEvent == IntakeSpec => []EventOnce
  BY IntakeStarts, IntakeKept, OneRowOneEvent, PTL DEF IntakeSpec

-----------------------------------------------------------------------------
(* The tree of knowledge and its embeddings.                               *)

\* The chains of parents end: among any nodes there is one whose parent is not among them.
Acyclic == \A T \in SUBSET TreeNodes : T # {} => \E n \in T : parent[n] \notin T

\* The parents of what has been created have been created; the rest has no parent, and
\* what is being created is created once.
Rooted ==
  /\ \A n \in present : parent[n] \in present \cup {Root}
  /\ \A n \in (TreeNodes \cup TableRows) \ present : parent[n] = Root
  /\ \A t \in Threads : thread[t].does = "create" =>
       /\ thread[t].node \in TreeNodes \ present /\ thread[t].to \in present \cup {Root}
       /\ \A u \in Threads \ {t} : thread[u].does = "create" => thread[u].node # thread[t].node
  /\ \A t \in Threads : thread[t].does = "move" =>
       thread[t].node \in TreeNodes \cap present /\ thread[t].to \in present \cup {Root}

\* The new parent of a node that is being moved has a chain without that node, whatever is
\* created meanwhile.
Clear(n, f) ==
  \/ f = Root
  \/ \E S \in SUBSET (TreeNodes \cap present) :
       f \in S /\ n \notin S /\ \A m \in S : parent[m] \in S \cup {Root}

\* There is one such move at a time.
MovesClear ==
  \A t \in Threads : thread[t].does = "move" =>
    /\ Clear(thread[t].node, thread[t].to)
    /\ \A u \in Threads \ {t} : thread[u].does # "move"

\* What is deleted or embedded has been created.
Listed ==
  \A t \in Threads :
    /\ thread[t].does \in {"delete", "sweep", "embed"} => thread[t].all \subseteq present
    /\ thread[t].does \in {"edit", "embed"} => thread[t].node \in Leaves \cap present

\* Unless it is mixed, a text is embedded by one thread at a time, which replaces all there
\* is or embeds the text there is.
Replaced ==
  \A t \in Threads :
    LET l == thread[t].node IN
    thread[t].does \in {"edit", "embed"} /\ l \notin mixed =>
      /\ ~ Embeds(l, t)
      /\ thread[t].does = "edit" => embedded[l] \subseteq thread[t].drop /\ thread[t].all # {}
      /\ thread[t].does = "embed" => thread[t].new = text[l]

\* What every step keeps.
TreeInv ==
  /\ TreeTypeOK /\ Rooted /\ (~ crossed => Acyclic /\ MovesClear)
  /\ Listed /\ Replaced /\ EmbeddingsFresh

USE TreeAssumption

\* What a thread may be doing.
TaskType == [
  does : {"rest", "create", "move", "delete", "edit", "enabled", "sweep", "embed"},
  node : TreeNodes \cup TableRows \cup {Root}, to : Folders \cup Datasets \cup {Root},
  new : 0..MaxText, drop : SUBSET (0..MaxText), all : SUBSET (TreeNodes \cup TableRows)]

\* What a thread takes up is the only thing that changes.
LEMMA TakenUp ==
  ASSUME TreeTypeOK, NEW t \in Threads, NEW what \in TaskType, Do(t, what)
  PROVE  /\ thread' \in [Threads -> TaskType] /\ thread'[t] = what
         /\ \A u \in Threads \ {t} : thread'[u] = thread[u]
  BY DEF TreeTypeOK, TaskType, Do

\* A thread that has nothing left to do,
LEMMA Rested == Resting \in TaskType /\ Resting.does = "rest"
<1>1. {} \in SUBSET (TreeNodes \cup TableRows) /\ {} \in SUBSET (0..MaxText) /\ 0 \in 0..MaxText
  OBVIOUS
<1> QED
  BY <1>1 DEF Resting, TaskType

\* A list of what is to be embedded, empty or not.
LEMMA Sweeping ==
  ASSUME NEW all \in SUBSET (TreeNodes \cup TableRows)
  PROVE  /\ Sweep(all) \in TaskType /\ Sweep(all).does \in {"rest", "sweep"}
         /\ Sweep(all).does = "sweep" => Sweep(all).all = all
<1> DEFINE some == [Resting EXCEPT !.does = "sweep", !.all = all]
<1>1. some \in TaskType /\ some.does = "sweep" /\ some.all = all
  BY Rested DEF TaskType
<1>2. Sweep(all) = IF all = {} THEN Resting ELSE some
  BY DEF Sweep
<1> HIDE DEF some
<1> QED
  BY <1>1, <1>2, Rested

\* What threads take up: a creation,
LEMMA CreatesOne ==
  ASSUME TreeTypeOK, NEW t \in Threads, NEW n \in TreeNodes, NEW f \in Folders \cup {Root}, CreateNode(t, n, f)
  PROVE  /\ thread' \in [Threads -> TaskType] 
         /\ thread'[t].does = "create" /\ thread'[t].node = n /\ thread'[t].to = f 
         /\ \A u \in Threads \ {t} : thread'[u] = thread[u]
<1> DEFINE new == [Resting EXCEPT !.does = "create", !.node = n, !.to = f]
<1>1. new \in TaskType /\ new.does = "create" /\ new.node = n /\ new.to = f
  BY Rested DEF TaskType
<1>2. Do(t, new)
  BY DEF CreateNode
<1> HIDE DEF new
<1> QED
  BY <1>1, <1>2, TakenUp

\* an edit,
LEMMA EditsOne ==
  ASSUME TreeTypeOK, NEW t \in Threads, NEW l \in Leaves, EditRead(t, l)
  PROVE  /\ thread' \in [Threads -> TaskType] 
         /\ thread'[t].does = "edit" /\ thread'[t].node = l /\ thread'[t].new = text[l] + 1
         /\ Vectorized(l) => thread'[t].drop = embedded[l] /\ thread'[t].all = {l}
         /\ \A u \in Threads \ {t} : thread'[u] = thread[u]
<1> DEFINE new == [Resting EXCEPT !.does = "edit", !.node = l, !.new = text[l] + 1,
              !.drop = IF Vectorized(l) THEN Old(l) ELSE {},
              !.all = IF Vectorized(l) THEN {l} ELSE {}]
<1>0. text[l] + 1 \in 0..MaxText /\ embedded[l] \in SUBSET (0..MaxText) /\ l \in TreeNodes \cup TableRows
  BY DEF TreeTypeOK, EditRead, Leaves, TreeNodes
<1>1. new \in TaskType
  BY <1>0 DEF Resting, TaskType, Old
<1>2. /\ new.does = "edit" /\ new.node = l /\ new.new = text[l] + 1
      /\ Vectorized(l) => new.drop = embedded[l] /\ new.all = {l}
  BY <1>0 DEF Resting, Old
<1>3. Do(t, new)
  BY DEF EditRead
<1> HIDE DEF new
<1> QED
  BY <1>1, <1>2, <1>3, TakenUp

\* an embedding,
LEMMA EmbedsOne ==
  ASSUME TreeTypeOK, NEW t \in Threads, NEW l \in Leaves, SweepRead(t, l)
  PROVE  /\ thread' \in [Threads -> TaskType] 
         /\ thread'[t].does = "embed" /\ thread'[t].node = l /\ thread'[t].new = text[l]
         /\ thread'[t].all \subseteq thread[t].all
         /\ \A u \in Threads \ {t} : thread'[u] = thread[u]
<1> DEFINE new == [thread[t] EXCEPT !.does = "embed", !.node = l, !.new = text[l], !.all = @ \ {l}]
<1>0. text[l] \in 0..MaxText /\ thread[t] \in TaskType /\ l \in TreeNodes \cup TableRows
  BY DEF TreeTypeOK, TaskType, Leaves, TreeNodes
<1>1. new \in TaskType
  BY <1>0 DEF TaskType
<1>2. /\ new.does = "embed" /\ new.node = l /\ new.new = text[l] /\ new.all \subseteq thread[t].all
  BY <1>0 DEF TaskType
<1>3. Do(t, new)
  BY DEF SweepRead
<1> HIDE DEF new
<1> QED
  BY <1>1, <1>2, <1>3, TakenUp

\* a move,
LEMMA MovesOne ==
  ASSUME TreeTypeOK, NEW t \in Threads, NEW n \in TreeNodes, NEW f \in Folders \cup {Root}, MoveRead(t, n, f)
  PROVE  /\ thread' \in [Threads -> TaskType] 
         /\ thread'[t].does = "move" /\ thread'[t].node = n /\ thread'[t].to = f 
         /\ \A u \in Threads \ {t} : thread'[u] = thread[u]
<1> DEFINE new == [Resting EXCEPT !.does = "move", !.node = n, !.to = f]
<1>1. new \in TaskType /\ new.does = "move" /\ new.node = n /\ new.to = f
  BY Rested DEF TaskType
<1>2. Do(t, new)
  BY DEF MoveRead
<1> HIDE DEF new
<1> QED
  BY <1>1, <1>2, TakenUp

\* the rest of a list,
LEMMA Swept ==
  ASSUME TreeTypeOK, NEW t \in Threads, NEW all \in SUBSET (TreeNodes \cup TableRows),
         Do(t, Sweep(all))
  PROVE  /\ thread' \in [Threads -> TaskType] /\ thread'[t].does \in {"rest", "sweep"}
         /\ thread'[t].does = "sweep" => thread'[t].all = all
         /\ \A u \in Threads \ {t} : thread'[u] = thread[u]
<1>1. Sweep(all) \in TaskType
  BY Sweeping
<1> QED
  BY <1>1, Sweeping, TakenUp

\* and all the others.
LEMMA OtherTasks ==
  ASSUME TreeTypeOK, NEW t \in Threads,
         \/ CreateCommit(t) \/ MoveCommit(t) \/ DeleteCommit(t) \/ EditCommit(t)
         \/ SweepBegin(t) \/ SweepWrite(t)
         \/ \E d \in Datasets : SweepRows(t, d)
         \/ \E f \in Folders : Enable(t, f)
         \/ \E n \in TreeNodes : DeleteRead(t, n)
  PROVE  /\ thread' \in [Threads -> TaskType]
         /\ thread'[t].does \in {"rest", "delete", "enabled", "sweep"}
         /\ thread'[t].does \in {"delete", "sweep"} =>
              \/ thread'[t].all \subseteq Here
              \/ thread[t].does \in {"sweep", "embed"} /\ thread'[t].all \subseteq Here \cup thread[t].all
         /\ \A u \in Threads \ {t} : thread'[u] = thread[u]
<1>0. thread[t] \in TaskType /\ Here \subseteq TreeNodes \cup TableRows /\ \A f : Under(f) \subseteq Here
  BY DEF TreeTypeOK, TaskType, Under, Here
<1>1. CASE Rest(t)
  BY <1>1, TakenUp, Rested DEF Rest
<1>2. CASE SweepBegin(t)
  <2> DEFINE all == Under(thread[t].node) \cap (Documents \cup Datasets)
  <2>1. all \in SUBSET (TreeNodes \cup TableRows) /\ all \subseteq Here
    BY <1>0
  <2>2. Rest(t) \/ Do(t, Sweep(all))
    BY <1>2 DEF SweepBegin
  <2> HIDE DEF all
  <2> QED
    BY <1>1, <2>1, <2>2, Swept
<1>3. CASE SweepWrite(t)
  <2>1. Do(t, Sweep(thread[t].all)) /\ thread[t].does = "embed" /\ thread[t].all \in SUBSET (TreeNodes \cup TableRows)
    BY <1>0, <1>3 DEF SweepWrite, TaskType
  <2> QED
    BY <2>1, Swept
<1>4. ASSUME NEW d \in Datasets, SweepRows(t, d)
      PROVE  /\ thread' \in [Threads -> TaskType] /\ thread'[t].does \in {"rest", "sweep"}
             /\ thread'[t].does = "sweep" =>
                  thread[t].does = "sweep" /\ thread'[t].all \subseteq Here \cup thread[t].all
             /\ \A u \in Threads \ {t} : thread'[u] = thread[u]
  <2> DEFINE all == (thread[t].all \ {d}) \cup {l \in TableRows \cap Here : parent[l] = d}
  <2>1. all \in SUBSET (TreeNodes \cup TableRows) /\ all \subseteq Here \cup thread[t].all
    BY <1>0 DEF TaskType
  <2>2. Do(t, Sweep(all)) /\ thread[t].does = "sweep"
    BY <1>4 DEF SweepRows
  <2> HIDE DEF all
  <2> QED
    BY <2>1, <2>2, Swept
<1>5. ASSUME NEW f \in Folders, Enable(t, f)
      PROVE  /\ thread' \in [Threads -> TaskType] /\ thread'[t].does = "enabled"
             /\ \A u \in Threads \ {t} : thread'[u] = thread[u]
  <2> DEFINE new == [Resting EXCEPT !.does = "enabled", !.node = f]
  <2>1. new \in TaskType /\ new.does = "enabled"
    BY Rested DEF TaskType, TreeNodes
  <2>2. Do(t, new)
    BY <1>5 DEF Enable
  <2> HIDE DEF new
  <2> QED
    BY <2>1, <2>2, TakenUp
<1>6. ASSUME NEW n \in TreeNodes, DeleteRead(t, n)
      PROVE  /\ thread' \in [Threads -> TaskType] /\ thread'[t].does = "delete"
             /\ thread'[t].all \subseteq Here
             /\ \A u \in Threads \ {t} : thread'[u] = thread[u]
  <2> DEFINE new == [Resting EXCEPT !.does = "delete", !.node = n, !.all = Under(n) \ TableRows]
  <2>1. new \in TaskType /\ new.does = "delete" /\ new.all \subseteq Here
    BY <1>0, Rested DEF TaskType
  <2>2. Do(t, new)
    BY <1>6 DEF DeleteRead
  <2> HIDE DEF new
  <2> QED
    BY <2>1, <2>2, TakenUp
<1>7. CreateCommit(t) \/ MoveCommit(t) \/ DeleteCommit(t) \/ EditCommit(t) => Rest(t)
  BY DEF CreateCommit, MoveCommit, DeleteCommit, EditCommit
<1> QED
  BY <1>1, <1>2, <1>3, <1>4, <1>5, <1>6, <1>7

\* The types of everything but the threads.
RestTypeOK ==
  /\ parent \in [TreeNodes \cup TableRows -> Folders \cup Datasets \cup {Root}]
  /\ present \subseteq TreeNodes \cup TableRows /\ gone \subseteq present
  /\ enabled \subseteq Folders
  /\ text \in [Leaves -> 0..MaxText] /\ embedded \in [Leaves -> SUBSET (0..MaxText)]
  /\ crossed \in BOOLEAN /\ mixed \subseteq Leaves

\* The types are kept.
LEMMA TreeTypes ==
  ASSUME TreeInv, TreeNext
  PROVE  TreeTypeOK'
<1> USE DEF TreeInv
<1>0. TreeTypeOK' <=> RestTypeOK' /\ thread' \in [Threads -> TaskType]
  BY DEF TreeTypeOK, RestTypeOK, TaskType
<1> USE DEF TreeTypeOK
<1>1. ASSUME NEW t \in Threads, NEW n \in TreeNodes, NEW f \in Folders \cup {Root},
             CreateNode(t, n, f) \/ MoveRead(t, n, f)
      PROVE  TreeTypeOK'
  BY <1>0, <1>1, CreatesOne, MovesOne, ZenonT(30) DEF CreateNode, MoveRead, RestTypeOK
<1>2. ASSUME NEW t \in Threads, NEW l \in Leaves, EditRead(t, l)
      PROVE  TreeTypeOK'
  <2>1. RestTypeOK'
    BY <1>2 DEF EditRead, RestTypeOK
  <2>2. thread' \in [Threads -> TaskType]
    BY <1>2, EditsOne
  <2> QED
    BY <1>0, <2>1, <2>2
<1>3. ASSUME NEW t \in Threads, NEW l \in Leaves, SweepRead(t, l)
      PROVE  TreeTypeOK'
  <2>1. RestTypeOK'
    BY <1>3 DEF SweepRead, RestTypeOK
  <2>2. thread' \in [Threads -> TaskType]
    BY <1>3, EmbedsOne
  <2> QED
    BY <1>0, <2>1, <2>2
<1>4. ASSUME NEW t \in Threads, KnowledgeStep(t), ~ \E l \in Leaves : SweepRead(t, l)
      PROVE  TreeTypeOK'
  <2>1. CASE CreateCommit(t)
    <3>1. thread[t].node \in TreeNodes /\ thread[t].to \in Folders \cup Datasets \cup {Root}
      BY <2>1 DEF CreateCommit, Rooted
    <3>2. RestTypeOK'
      BY <2>1, <3>1 DEF CreateCommit, RestTypeOK
    <3> QED
      BY <1>0, <2>1, <3>2, OtherTasks
  <2>2. CASE MoveCommit(t)
    <3>1. RestTypeOK'
      BY <2>2 DEF MoveCommit, RestTypeOK
    <3> QED
      BY <1>0, <2>2, <3>1, OtherTasks
  <2>3. CASE DeleteCommit(t)
    <3>1. thread[t].all \subseteq present
      BY <2>3 DEF DeleteCommit, Listed
    <3>2. RestTypeOK'
      BY <2>3, <3>1 DEF DeleteCommit, RestTypeOK
    <3> QED
      BY <1>0, <2>3, <3>2, OtherTasks
  <2>4. CASE EditCommit(t)
    <3>1. thread[t].new \in 0..MaxText /\ thread[t].node \in Leaves
      BY <2>4 DEF EditCommit, Listed
    <3>2. text' \in [Leaves -> 0..MaxText]
      BY <2>4, <3>1 DEF EditCommit
    <3>3. embedded' \in [Leaves -> SUBSET (0..MaxText)]
      <4>1. PICK made \in SUBSET {thread[t].new} :
              embedded' = [embedded EXCEPT ![thread[t].node] = (@ \ thread[t].drop) \cup made]
        BY <2>4 DEF EditCommit
      <4>2. (embedded[thread[t].node] \ thread[t].drop) \cup made \in SUBSET (0..MaxText)
        BY <3>1
      <4> QED
        BY <4>1, <4>2
    <3>4. RestTypeOK'
      BY <2>4, <3>1, <3>2, <3>3 DEF EditCommit, RestTypeOK
    <3> QED
      BY <1>0, <2>4, <3>4, OtherTasks
  <2>5. CASE SweepBegin(t)
    <3>1. RestTypeOK'
      BY <2>5 DEF SweepBegin, RestTypeOK
    <3> QED
      BY <1>0, <2>5, <3>1, OtherTasks
  <2>6. CASE SweepWrite(t)
    <3>1. thread[t].new \in 0..MaxText /\ thread[t].node \in Leaves
      BY <2>6 DEF SweepWrite, Listed
    <3>2. embedded' \in [Leaves -> SUBSET (0..MaxText)]
      <4>1. PICK made \in SUBSET {thread[t].new} :
              embedded' = [embedded EXCEPT ![thread[t].node] = @ \cup made]
        BY <2>6 DEF SweepWrite
      <4>2. embedded[thread[t].node] \cup made \in SUBSET (0..MaxText)
        BY <3>1
      <4> QED
        BY <4>1, <4>2
    <3>3. RestTypeOK'
      BY <2>6, <3>2 DEF SweepWrite, RestTypeOK
    <3> QED
      BY <1>0, <2>6, <3>3, OtherTasks
  <2>7. ASSUME NEW d \in Datasets, SweepRows(t, d)
        PROVE  TreeTypeOK'
    <3>1. RestTypeOK'
      BY <2>7 DEF SweepRows, RestTypeOK
    <3> QED
      BY <1>0, <2>7, <3>1, OtherTasks
  <2> QED
    BY <1>4, <2>1, <2>2, <2>3, <2>4, <2>5, <2>6, <2>7 DEF KnowledgeStep
<1>5. ASSUME NEW t \in Threads, NEW n \in TreeNodes, DeleteRead(t, n)
      PROVE  TreeTypeOK'
  <2>1. RestTypeOK'
    BY <1>5 DEF DeleteRead, RestTypeOK
  <2> QED
    BY <1>0, <1>5, <2>1, OtherTasks
<1>6. ASSUME NEW t \in Threads, NEW f \in Folders, Enable(t, f)
      PROVE  TreeTypeOK'
  <2>1. RestTypeOK'
    BY <1>6 DEF Enable, RestTypeOK
  <2> QED
    BY <1>0, <1>6, <2>1, OtherTasks
<1>7. ASSUME NEW l \in TableRows, NEW d \in Datasets, CreateRow(l, d)
      PROVE  TreeTypeOK'
  <2>1. embedded' \in [Leaves -> SUBSET (0..MaxText)]
    BY <1>7 DEF CreateRow, Leaves
  <2>2. parent' \in [TreeNodes \cup TableRows -> Folders \cup Datasets \cup {Root}]
    BY <1>7 DEF CreateRow
  <2> QED
    BY <1>0, <1>7, <2>1, <2>2 DEF CreateRow, RestTypeOK, TaskType
<1>8. ASSUME NEW l \in TableRows, DeleteRow(l)
      PROVE  TreeTypeOK'
  <2>1. gone' \subseteq present'
    BY <1>8 DEF DeleteRow, Here
  <2> QED
    BY <1>0, <1>8, <2>1 DEF DeleteRow, RestTypeOK, TaskType
<1>9. ASSUME NEW f \in Folders, Switch(f)
      PROVE  TreeTypeOK'
  BY <1>0, <1>9 DEF Switch, RestTypeOK, TaskType
<1> QED
  BY <1>1, <1>2, <1>3, <1>4, <1>5, <1>6, <1>7, <1>8, <1>9 DEF TreeNext, TreeRequest

\* A step of a thread that concerns no parent.
Still(t) ==
  /\ UNCHANGED <<parent, present, crossed>> /\ thread'[t].does \notin {"create", "move"}
  /\ \A u \in Threads \ {t} : thread'[u] = thread[u]

\* Every step is such a step or one of a few others.
LEMMA TreeSteps ==
  ASSUME TreeInv, TreeNext
  PROVE  \/ \E t \in Threads, n \in TreeNodes, f \in Folders \cup {Root} :
               CreateNode(t, n, f) \/ MoveRead(t, n, f)
         \/ \E t \in Threads : CreateCommit(t) \/ MoveCommit(t) \/ Still(t)
         \/ \E l \in TableRows, d \in Datasets : CreateRow(l, d)
         \/ UNCHANGED <<parent, present, crossed, thread>>
<1> USE DEF TreeInv
<1>1. ASSUME NEW t \in Threads, NEW l \in Leaves, EditRead(t, l)
      PROVE  Still(t)
  <2>1. /\ thread'[t].does \notin {"create", "move"}
        /\ \A u \in Threads \ {t} : thread'[u] = thread[u]
    BY <1>1, EditsOne
  <2> QED
    BY <1>1, <2>1 DEF Still, EditRead
<1>2. ASSUME NEW t \in Threads, NEW l \in Leaves, SweepRead(t, l)
      PROVE  Still(t)
  BY <1>2, EmbedsOne DEF Still, SweepRead
<1>3. ASSUME NEW t \in Threads,
             \/ DeleteCommit(t) \/ EditCommit(t) \/ SweepBegin(t) \/ SweepWrite(t)
             \/ \E d \in Datasets : SweepRows(t, d)
             \/ \E f \in Folders : Enable(t, f)
             \/ \E n \in TreeNodes : DeleteRead(t, n)
      PROVE  Still(t)
  <2>1. /\ thread'[t].does \notin {"create", "move"}
        /\ \A u \in Threads \ {t} : thread'[u] = thread[u]
    BY <1>3, OtherTasks
  <2>2. UNCHANGED <<parent, present, crossed>>
    BY <1>3 DEF DeleteCommit, EditCommit, SweepBegin, SweepWrite, SweepRows, Enable, DeleteRead
  <2> QED
    BY <2>1, <2>2 DEF Still
<1>4. ASSUME NEW l \in TableRows, DeleteRow(l) PROVE UNCHANGED <<parent, present, crossed, thread>>
  BY <1>4 DEF DeleteRow
<1>5. ASSUME NEW f \in Folders, Switch(f) PROVE UNCHANGED <<parent, present, crossed, thread>>
  BY <1>5 DEF Switch
<1>6. TreeNext
  OBVIOUS
<1>7. ASSUME NEW t \in Threads, TreeRequest(t)
      PROVE  \/ \E n \in TreeNodes, f \in Folders \cup {Root} : CreateNode(t, n, f) \/ MoveRead(t, n, f)
             \/ Still(t)
  BY <1>1, <1>3, <1>7 DEF TreeRequest
<1>8. ASSUME NEW t \in Threads, KnowledgeStep(t)
      PROVE  CreateCommit(t) \/ MoveCommit(t) \/ Still(t)
  BY <1>2, <1>3, <1>8 DEF KnowledgeStep
<1> QED
  BY <1>4, <1>5, <1>6, <1>7, <1>8 DEF TreeNext

\* What is being created has a parent and is created once.
LEMMA TreeRooted ==
  ASSUME TreeInv, TreeNext
  PROVE  Rooted'
<1> USE DEF TreeInv
<1>0. parent \in [TreeNodes \cup TableRows -> Folders \cup Datasets \cup {Root}]
      /\ present \subseteq TreeNodes \cup TableRows
  BY DEF TreeTypeOK
<1>1. ASSUME NEW t \in Threads, NEW n \in TreeNodes, NEW f \in Folders \cup {Root}, CreateNode(t, n, f)
      PROVE  Rooted'
  <2>1. /\ thread'[t].does = "create" /\ thread'[t].node = n /\ thread'[t].to = f
        /\ \A u \in Threads \ {t} : thread'[u] = thread[u]
    BY <1>1, CreatesOne
  <2>2. /\ UNCHANGED <<parent, present>> /\ n \notin present /\ f \in present \cup {Root}
        /\ \A u \in Threads : thread[u].node # n
    BY <1>1 DEF CreateNode, Here
  <2> QED
    BY <2>1, <2>2 DEF Rooted
<1>2. ASSUME NEW t \in Threads, CreateCommit(t)
      PROVE  Rooted'
  <2>1. /\ thread'[t].does \notin {"create", "move"} /\ \A u \in Threads \ {t} : thread'[u] = thread[u]
    BY <1>2, OtherTasks
  <2>2. /\ parent' = [parent EXCEPT ![thread[t].node] = thread[t].to]
        /\ present' = present \cup {thread[t].node} /\ thread[t].does = "create"
    BY <1>2 DEF CreateCommit
  <2>5. (\A n \in present : parent[n] \in present \cup {Root})'
    BY <1>0, <2>2 DEF Rooted
  <2>6. (\A n \in (TreeNodes \cup TableRows) \ present : parent[n] = Root)'
    BY <1>0, <2>2 DEF Rooted
  <2>7. ASSUME NEW u \in Threads \ {t}, thread[u].does = "create"
        PROVE  /\ thread[u].node \in TreeNodes \ present' /\ thread[u].to \in present' \cup {Root}
               /\ \A v \in Threads \ {u} : thread'[v].does = "create" => thread'[v].node # thread[u].node
    BY <2>1, <2>2, <2>7 DEF Rooted
  <2>8. \A u \in Threads \ {t} : thread[u].does = "move" =>
           thread[u].node \in TreeNodes \cap present' /\ thread[u].to \in present' \cup {Root}
    BY <2>2 DEF Rooted
  <2> QED
    BY <2>1, <2>5, <2>6, <2>7, <2>8 DEF Rooted
<1>3. ASSUME NEW t \in Threads, MoveCommit(t)
      PROVE  Rooted'
  <2>1. /\ thread'[t].does \notin {"create", "move"} /\ \A u \in Threads \ {t} : thread'[u] = thread[u]
    BY <1>3, OtherTasks
  <2>2. /\ parent' = [parent EXCEPT ![thread[t].node] = thread[t].to]
        /\ present' = present /\ thread[t].does = "move"
    BY <1>3 DEF MoveCommit
  <2>3. thread[t].node \in present /\ thread[t].to \in present \cup {Root}
    BY <2>2 DEF Rooted
  <2>5. (\A n \in present : parent[n] \in present \cup {Root})'
    BY <1>0, <2>2, <2>3 DEF Rooted
  <2>6. (\A n \in (TreeNodes \cup TableRows) \ present : parent[n] = Root)'
    BY <1>0, <2>2, <2>3 DEF Rooted
  <2>7. ASSUME NEW u \in Threads \ {t}, thread[u].does = "create"
        PROVE  /\ thread[u].node \in TreeNodes \ present' /\ thread[u].to \in present' \cup {Root}
               /\ \A v \in Threads \ {u} : thread'[v].does = "create" => thread'[v].node # thread[u].node
    BY <2>1, <2>2, <2>7 DEF Rooted
  <2>8. \A u \in Threads \ {t} : thread[u].does = "move" =>
           thread[u].node \in TreeNodes \cap present' /\ thread[u].to \in present' \cup {Root}
    BY <2>2 DEF Rooted
  <2> QED
    BY <2>1, <2>5, <2>6, <2>7, <2>8 DEF Rooted
<1>4. ASSUME NEW l \in TableRows, NEW d \in Datasets, CreateRow(l, d)
      PROVE  Rooted'
  BY <1>0, <1>4 DEF CreateRow, Rooted, Here
<1>5. ASSUME NEW t \in Threads, Still(t)
      PROVE  Rooted'
  BY <1>5 DEF Rooted, Still
<1>6. ASSUME NEW t \in Threads, NEW n \in TreeNodes, NEW f \in Folders \cup {Root}, MoveRead(t, n, f)
      PROVE  Rooted'
  <2>1. /\ thread'[t].does = "move" /\ thread'[t].node = n /\ thread'[t].to = f
        /\ \A u \in Threads \ {t} : thread'[u] = thread[u]
    BY <1>6, MovesOne
  <2>2. UNCHANGED <<parent, present>> /\ n \in present /\ f \in present \cup {Root}
    BY <1>6 DEF MoveRead, MayMove, Here
  <2> QED
    BY <2>1, <2>2 DEF Rooted
<1>7. CASE UNCHANGED <<parent, present, crossed, thread>>
  BY <1>7 DEF Rooted
<1> QED
  BY <1>1, <1>2, <1>3, <1>4, <1>5, <1>6, <1>7, TreeSteps

\* The chains of parents end,
LEMMA TreeAcyclic ==
  ASSUME TreeInv, TreeNext, ~ crossed'
  PROVE  Acyclic'
<1> USE DEF TreeInv
<1>0. parent \in [TreeNodes \cup TableRows -> Folders \cup Datasets \cup {Root}]
  BY DEF TreeTypeOK
<1>1. ASSUME NEW t \in Threads, CreateCommit(t)
      PROVE  Acyclic'
  <2> SUFFICES ASSUME NEW T \in SUBSET TreeNodes, T # {}, \A n \in T : parent'[n] \in T
               PROVE  FALSE
    BY DEF Acyclic
  <2> DEFINE x == thread[t].node
  <2>1. /\ x \in TreeNodes \ present /\ thread[t].to \in present \cup {Root}
        /\ parent' = [parent EXCEPT ![x] = thread[t].to]
    BY <1>1 DEF CreateCommit, Rooted
  <2>2. \A n \in TreeNodes : parent[n] # x
    BY <2>1 DEF Rooted
  <2>3. T \ {x} # {}
    BY <1>0, <2>1
  <2>4. \A n \in T \ {x} : parent[n] \in T \ {x}
    BY <1>0, <2>1, <2>2
  <2>5. Acyclic
    BY <1>1 DEF CreateCommit
  <2>6. T \ {x} \in SUBSET TreeNodes
    OBVIOUS
  <2> HIDE DEF x
  <2> QED
    BY <2>3, <2>4, <2>5, <2>6 DEF Acyclic
<1>2. ASSUME NEW t \in Threads, MoveCommit(t)
      PROVE  Acyclic'
  <2> SUFFICES ASSUME NEW T \in SUBSET TreeNodes, T # {}, \A n \in T : parent'[n] \in T
               PROVE  FALSE
    BY DEF Acyclic
  <2> DEFINE x == thread[t].node
             f == thread[t].to
  <2>1. Acyclic /\ x \in TreeNodes /\ Clear(x, f) /\ parent' = [parent EXCEPT ![x] = f]
    BY <1>2 DEF MoveCommit, MovesClear, Rooted
  <2>2. CASE x \notin T
    BY <1>0, <2>1, <2>2 DEF Acyclic
  <2>3. CASE x \in T
    <3>1. f \in T
      BY <1>0, <2>1, <2>3
    <3>2. PICK S \in SUBSET (TreeNodes \cap present) :
            f \in S /\ x \notin S /\ \A m \in S : parent[m] \in S \cup {Root}
      BY <2>1, <3>1 DEF Clear
    <3>3. \A n \in T \cap S : parent[n] \in T \cap S
      BY <1>0, <2>1, <3>2
    <3>4. T \cap S \in SUBSET TreeNodes /\ T \cap S # {}
      BY <3>1, <3>2
    <3> QED
      BY <2>1, <3>3, <3>4 DEF Acyclic
  <2> QED
    BY <2>2, <2>3
<1>3. ASSUME NEW l \in TableRows, NEW d \in Datasets, CreateRow(l, d)
      PROVE  Acyclic'
  BY <1>0, <1>3 DEF CreateRow, Acyclic
<1>4. ASSUME NEW t \in Threads, NEW n \in TreeNodes, NEW f \in Folders \cup {Root},
             CreateNode(t, n, f) \/ MoveRead(t, n, f)
      PROVE  Acyclic'
  BY <1>4 DEF CreateNode, MoveRead, Acyclic
<1>5. CASE UNCHANGED <<parent, present, crossed>>
  BY <1>5 DEF Acyclic
<1> QED
  BY <1>1, <1>2, <1>3, <1>4, <1>5, TreeSteps DEF Still

-----------------------------------------------------------------------------
\* A chain of parents of any length, which the definition of Above names.
LEMMA ChainExists ==
  ASSUME parent \in [TreeNodes \cup TableRows -> Folders \cup Datasets \cup {Root}],
         NEW n \in TreeNodes \cup TableRows, NEW len \in Nat
  PROVE  \E up : up = [i \in 0..len |-> IF i = 0 THEN parent[n]
                         ELSE IF up[i - 1] = Root THEN Root ELSE parent[up[i - 1]]]
<1> DEFINE Chain(up, k) == up = [i \in 0..k |-> IF i = 0 THEN parent[n]
                             ELSE IF up[i - 1] = Root THEN Root ELSE parent[up[i - 1]]]
           T == {k \in Nat : ~ \E up : Chain(up, k)}
<1> SUFFICES ASSUME len \in T PROVE FALSE
  OBVIOUS
<1>1. PICK k \in T : \A y \in T : k <= y
  BY LeastOne
<1>2. k # 0
  <2> DEFINE up == [i \in 0..0 |-> parent[n]]
  <2>1. Chain(up, 0)
    OBVIOUS
  <2> QED
    BY <1>1, <2>1
<1>3. PICK up : Chain(up, k - 1)
  <2>1. k - 1 \in Nat /\ ~ (k <= k - 1)
    BY <1>1, <1>2
  <2>2. k - 1 \notin T
    BY <1>1, <2>1
  <2> QED
    BY <2>1, <2>2
<1>4. Chain([i \in 0..k |-> IF i < k THEN up[i]
              ELSE IF up[k - 1] = Root THEN Root ELSE parent[up[k - 1]]], k)
  <2> DEFINE next == [i \in 0..k |-> IF i < k THEN up[i]
                        ELSE IF up[k - 1] = Root THEN Root ELSE parent[up[k - 1]]]
  <2>1. \A i \in 0..k : next[i] = IF i = 0 THEN parent[n]
                          ELSE IF next[i - 1] = Root THEN Root ELSE parent[next[i - 1]]
    <3> SUFFICES ASSUME NEW i \in 0..k
                 PROVE  next[i] = IF i = 0 THEN parent[n]
                          ELSE IF next[i - 1] = Root THEN Root ELSE parent[next[i - 1]]
      OBVIOUS
    <3>1. CASE i = 0
      BY <1>1, <1>2, <1>3, <3>1
    <3>2. CASE i # 0 /\ i < k
      <4>1. i \in 0..(k - 1) /\ i - 1 \in 0..k /\ i - 1 < k /\ k \in Nat
        BY <1>1, <3>2
      <4>2. next[i] = up[i] /\ next[i - 1] = up[i - 1]
        BY <4>1, <3>2
      <4> QED
        BY <1>3, <3>2, <4>1, <4>2
    <3>3. CASE i = k
      <4>1. k - 1 \in 0..k /\ k - 1 < k /\ ~ (k < k) /\ k \in 0..k
        BY <1>1, <1>2
      <4>2. next[k] = (IF up[k - 1] = Root THEN Root ELSE parent[up[k - 1]]) /\ next[k - 1] = up[k - 1]
        BY <4>1
      <4> QED
        BY <1>2, <3>3, <4>2
    <3> QED
      BY <1>1, <3>1, <3>2, <3>3
  <2> QED
    BY <2>1
<1> HIDE DEF Chain
<1> QED
  BY <1>1, <1>4

\* What Above is: the chain of a node, by steps.
LEMMA AboveIs ==
  ASSUME parent \in [TreeNodes \cup TableRows -> Folders \cup Datasets \cup {Root}],
         NEW n \in TreeNodes \cup TableRows
  PROVE  \E up \in [0..Cardinality(TreeNodes) -> Folders \cup Datasets \cup {Root}] :
           /\ up[0] = parent[n]
           /\ \A i \in 1..Cardinality(TreeNodes) :
                up[i] = IF up[i - 1] = Root THEN Root ELSE parent[up[i - 1]]
           /\ Above(n) = {up[i] : i \in 0..Cardinality(TreeNodes)} \ {Root}
<1> DEFINE len == Cardinality(TreeNodes)
           Chain(up) == up = [i \in 0..len |-> IF i = 0 THEN parent[n]
                             ELSE IF up[i - 1] = Root THEN Root ELSE parent[up[i - 1]]]
           up == CHOOSE f : Chain(f)
<1>0. len \in Nat
  BY FS_CardinalityType
<1>1. Chain(up)
  BY <1>0, ChainExists
<1>2. Above(n) = {up[i] : i \in DOMAIN up} \ {Root}
  BY DEF Above
<1> HIDE DEF up, len
<1>3. DOMAIN up = 0..len
  BY <1>1
<1>4. up[0] = parent[n]
  BY <1>0, <1>1
<1>5. \A i \in 1..len : up[i] = IF up[i - 1] = Root THEN Root ELSE parent[up[i - 1]]
  BY <1>0, <1>1
<1>6. \A i \in 0..len : up[i] \in Folders \cup Datasets \cup {Root}
  <2> DEFINE T == {i \in 0..len : up[i] \notin Folders \cup Datasets \cup {Root}}
  <2> SUFFICES ASSUME T # {} PROVE FALSE
    OBVIOUS
  <2>0. T \subseteq Nat /\ T # {}
    BY <1>0
  <2>1. PICK k \in T : \A y \in T : k <= y
    BY <2>0, LeastOne
  <2>2. k # 0
    BY <1>4, <2>1 DEF TreeNodes
  <2>3. k \in 1..len /\ k - 1 \in 0..len /\ ~ (k <= k - 1)
    BY <1>0, <2>1, <2>2
  <2>4. up[k - 1] \in Folders \cup Datasets \cup {Root}
    BY <2>1, <2>3
  <2> QED
    BY <1>5, <2>1, <2>3, <2>4 DEF TreeNodes
<1>7. up \in [0..len -> Folders \cup Datasets \cup {Root}]
  BY <1>1, <1>3, <1>6
<1> QED
  BY <1>2, <1>3, <1>4, <1>5, <1>7 DEF len

\* Where the chains end, that of a node ends at the root within them, and what is above a
\* node has its parent above it too.
LEMMA ChainsEnd ==
  ASSUME parent \in [TreeNodes \cup TableRows -> Folders \cup Datasets \cup {Root}], Acyclic,
         NEW n \in TreeNodes \cup TableRows
  PROVE  /\ parent[n] \in Above(n) \cup {Root}
         /\ \A m \in Above(n) : m \in TreeNodes /\ parent[m] \in Above(n) \cup {Root}
         /\ parent[n] = Root \/ \E m \in Above(n) : parent[m] = Root
<1> DEFINE len == Cardinality(TreeNodes)
<1>0. len \in Nat
  BY FS_CardinalityType
<1>1. PICK up \in [0..len -> Folders \cup Datasets \cup {Root}] :
        /\ up[0] = parent[n]
        /\ \A i \in 1..len : up[i] = IF up[i - 1] = Root THEN Root ELSE parent[up[i - 1]]
        /\ Above(n) = {up[i] : i \in 0..len} \ {Root}
  BY AboveIs
<1> HIDE DEF len
<1>2. \E i \in 0..len : up[i] = Root
  <2> SUFFICES ASSUME \A i \in 0..len : up[i] # Root PROVE FALSE
    OBVIOUS
  <2>1. up \in [0..len -> TreeNodes]
    BY <1>1 DEF TreeNodes
  <2>2. IsFiniteSet(0..len) /\ Cardinality(0..len) = len + 1
    BY <1>0, FS_Interval
  <2>3. PICK i, j \in 0..len : i # j /\ up[i] = up[j]
    BY <1>0, <2>1, <2>2, FS_PigeonHole DEF len
  <2>4. PICK a, b \in 0..len : a < b /\ up[a] = up[b]
    BY <1>0, <2>3
  <2> DEFINE T == {up[k] : k \in a..(b - 1)}
  <2>5. T \in SUBSET TreeNodes /\ T # {}
    BY <1>0, <2>1, <2>4
  <2>6. \A k \in a..(b - 1) : parent[up[k]] \in T
    <3> SUFFICES ASSUME NEW k \in a..(b - 1) PROVE parent[up[k]] \in T
      OBVIOUS
    <3>1. k + 1 \in 1..len /\ (k + 1) - 1 = k /\ k \in 0..len
      BY <1>0, <2>4
    <3>2. parent[up[k]] = up[k + 1]
      BY <1>1, <3>1
    <3>3. CASE k + 1 = b
      BY <1>0, <2>4, <3>2, <3>3
    <3>4. CASE k + 1 # b
      BY <1>0, <2>4, <3>2, <3>4
    <3> QED
      BY <3>3, <3>4
  <2>7. \A m \in T : parent[m] \in T
    BY <2>6
  <2> HIDE DEF T
  <2> QED
    BY <2>5, <2>7 DEF Acyclic
<1>3. PICK i \in 0..len : up[i] = Root /\ \A j \in 0..len : up[j] = Root => i <= j
  <2> DEFINE T == {j \in 0..len : up[j] = Root}
  <2>1. T \subseteq Nat /\ T # {}
    BY <1>0, <1>2
  <2>2. PICK i \in T : \A j \in T : i <= j
    BY <2>1, LeastOne
  <2> QED
    BY <2>2
<1>4. \A j \in 0..len : up[j] = Root \/ j < len
  <2> SUFFICES ASSUME up[len] # Root PROVE FALSE
    BY <1>0
  <2> DEFINE T == {j \in 0..len : up[j] = Root}
  <2>1. T \subseteq Nat /\ T # {} /\ \A j \in T : j <= len
    BY <1>0, <1>2
  <2>2. PICK j \in T : \A k \in T : k <= j
    BY <1>0, <2>1, GreatestOne
  <2>3. j + 1 \in 1..len /\ (j + 1) - 1 = j
    BY <1>0, <2>2
  <2>4. up[j + 1] = Root
    BY <1>1, <2>2, <2>3
  <2> QED
    BY <1>0, <2>2, <2>3, <2>4
<1>5. ASSUME NEW m \in Above(n)
      PROVE  m \in TreeNodes /\ parent[m] \in Above(n) \cup {Root}
  <2>1. PICK j \in 0..len : m = up[j] /\ up[j] # Root
    BY <1>1
  <2>2. j + 1 \in 1..len /\ (j + 1) - 1 = j /\ j + 1 \in 0..len
    BY <1>0, <1>4, <2>1
  <2>3. parent[m] = up[j + 1]
    BY <1>1, <2>1, <2>2
  <2> QED
    BY <1>1, <2>1, <2>2, <2>3 DEF TreeNodes
<1>6. parent[n] = Root \/ \E m \in Above(n) : parent[m] = Root
  <2>1. CASE i = 0
    BY <1>1, <1>3, <2>1
  <2>2. CASE i # 0
    <3>1. i \in 1..len /\ i - 1 \in 0..len /\ ~ (i <= i - 1)
      BY <1>0, <2>2
    <3>2. up[i - 1] # Root
      BY <1>3, <3>1
    <3>3. parent[up[i - 1]] = Root
      BY <1>1, <1>3, <3>1, <3>2
    <3> QED
      BY <1>1, <3>1, <3>2, <3>3
  <2> QED
    BY <2>1, <2>2
<1>7. parent[n] \in Above(n) \cup {Root}
  BY <1>0, <1>1
<1> QED
  BY <1>5, <1>6, <1>7

\* A move that may begin has found its new parent's chain to be without the node; the steps
\* of others leave that chain as it is.
LEMMA TreeMovesClear ==
  ASSUME TreeInv, TreeNext, ~ crossed'
  PROVE  MovesClear'
<1> USE DEF TreeInv
<1>0. /\ parent \in [TreeNodes \cup TableRows -> Folders \cup Datasets \cup {Root}]
      /\ present \subseteq TreeNodes \cup TableRows
  BY DEF TreeTypeOK
<1>1. ASSUME NEW t \in Threads, NEW n \in TreeNodes, NEW f \in Folders \cup {Root}, MoveRead(t, n, f)
      PROVE  MovesClear'
  <2>1. /\ thread'[t].does = "move" /\ thread'[t].node = n /\ thread'[t].to = f
        /\ \A u \in Threads \ {t} : thread'[u] = thread[u]
    BY <1>1, MovesOne
  <2>2. /\ UNCHANGED <<parent, present>> /\ Acyclic /\ MayMove(n, f)
        /\ \A u \in Threads \ {t} : thread[u].does # "move"
    BY <1>1 DEF MoveRead
  <2>3. Clear(n, f)
    <3>1. CASE f # Root
      <4> DEFINE S == (Above(f) \cup {f}) \cap present
      <4>1. f \in present /\ f \in TreeNodes /\ f # n /\ n \notin Above(f)
        BY <2>2, <3>1 DEF MayMove, Here, TreeNodes
      <4>2. /\ parent[f] \in Above(f) \cup {Root}
            /\ \A m \in Above(f) : m \in TreeNodes /\ parent[m] \in Above(f) \cup {Root}
        BY <1>0, <2>2, <4>1, ChainsEnd
      <4>3. S \in SUBSET (TreeNodes \cap present) /\ f \in S /\ n \notin S
        BY <4>1, <4>2
      <4>4. \A m \in S : parent[m] \in S \cup {Root}
        BY <4>2 DEF Rooted
      <4> HIDE DEF S
      <4> QED
        BY <4>3, <4>4 DEF Clear
    <3> QED
      BY <3>1 DEF Clear
  <2>4. Clear(n, f)'
    BY <2>2, <2>3 DEF Clear
  <2> QED
    BY <2>1, <2>2, <2>4 DEF MovesClear
<1>2. ASSUME NEW t \in Threads, CreateCommit(t)
      PROVE  MovesClear'
  <2>1. /\ thread'[t].does # "move" /\ \A u \in Threads \ {t} : thread'[u] = thread[u]
    BY <1>2, OtherTasks
  <2>2. /\ parent' = [parent EXCEPT ![thread[t].node] = thread[t].to] /\ crossed' = crossed
        /\ present' = present \cup {thread[t].node} /\ thread[t].node \notin present
    BY <1>2 DEF CreateCommit, Rooted
  <2>3. ASSUME NEW n, NEW f, Clear(n, f)
        PROVE  Clear(n, f)'
    BY <1>0, <2>2, <2>3 DEF Clear
  <2> QED
    BY <2>1, <2>2, <2>3 DEF MovesClear
<1>3. ASSUME NEW t \in Threads, MoveCommit(t)
      PROVE  MovesClear'
  <2>1. /\ thread'[t].does # "move" /\ \A u \in Threads \ {t} : thread'[u] = thread[u]
    BY <1>3, OtherTasks
  <2> QED
    BY <1>3, <2>1 DEF MoveCommit, MovesClear
<1>4. ASSUME NEW l \in TableRows, NEW d \in Datasets, CreateRow(l, d)
      PROVE  MovesClear'
  <2>1. ASSUME NEW n, NEW f, Clear(n, f)
        PROVE  Clear(n, f)'
    <3>1. /\ \A m \in TreeNodes : parent'[m] = parent[m]
          /\ present \subseteq present'
      BY <1>0, <1>4 DEF CreateRow
    <3> QED
      BY <2>1, <3>1 DEF Clear
  <2>2. UNCHANGED <<thread, crossed>>
    BY <1>4 DEF CreateRow
  <2> QED
    BY <2>1, <2>2 DEF MovesClear
<1>5. ASSUME NEW t \in Threads, NEW n \in TreeNodes, NEW f \in Folders \cup {Root}, CreateNode(t, n, f)
      PROVE  MovesClear'
  <2>1. /\ thread'[t].does # "move" /\ \A u \in Threads \ {t} : thread'[u] = thread[u]
    BY <1>5, CreatesOne
  <2> QED
    BY <1>5, <2>1 DEF CreateNode, MovesClear, Clear
<1>6. ASSUME NEW t \in Threads, Still(t)
      PROVE  MovesClear'
  BY <1>6 DEF Still, MovesClear, Clear
<1>7. CASE UNCHANGED <<parent, present, crossed, thread>>
  BY <1>7 DEF MovesClear, Clear
<1> QED
  BY <1>1, <1>2, <1>3, <1>4, <1>5, <1>6, <1>7, TreeSteps

-----------------------------------------------------------------------------
\* What has been created stays, and so does what a thread has listed.
LEMMA TreeListed ==
  ASSUME TreeInv, TreeNext
  PROVE  Listed'
<1> USE DEF TreeInv
<1>0. present \subseteq present' /\ Here \subseteq present
  BY DEF TreeNext, TreeRequest, KnowledgeStep, CreateNode, CreateCommit, MoveRead, MoveCommit,
    DeleteRead, DeleteCommit, EditRead, EditCommit, CreateRow, DeleteRow, Switch, Enable,
    SweepBegin, SweepRows, SweepRead, SweepWrite, Here
<1>1. ASSUME NEW t \in Threads, NEW l \in Leaves, EditRead(t, l)
      PROVE  Listed'
  <2>1. /\ thread'[t].does = "edit" /\ thread'[t].node = l
        /\ \A u \in Threads \ {t} : thread'[u] = thread[u]
    BY <1>1, EditsOne
  <2>2. l \in present
    BY <1>1 DEF EditRead, Here
  <2> QED
    BY <1>0, <2>1, <2>2 DEF Listed
<1>2. ASSUME NEW t \in Threads, NEW l \in Leaves, SweepRead(t, l)
      PROVE  Listed'
  <2>1. /\ thread'[t].does = "embed" /\ thread'[t].node = l
        /\ thread'[t].all \subseteq thread[t].all
        /\ \A u \in Threads \ {t} : thread'[u] = thread[u]
    BY <1>2, EmbedsOne
  <2>2. thread[t].all \subseteq present /\ l \in present
    BY <1>2 DEF SweepRead, Listed
  <2> QED
    BY <1>0, <2>1, <2>2 DEF Listed
<1>3. ASSUME NEW t \in Threads, thread'[t].does \in {"rest", "create", "move", "enabled"},
             \A u \in Threads \ {t} : thread'[u] = thread[u]
      PROVE  Listed'
  BY <1>0, <1>3 DEF Listed
<1>4. ASSUME NEW t \in Threads,
             \/ CreateCommit(t) \/ MoveCommit(t) \/ DeleteCommit(t) \/ EditCommit(t)
             \/ SweepBegin(t) \/ SweepWrite(t)
             \/ \E d \in Datasets : SweepRows(t, d)
             \/ \E f \in Folders : Enable(t, f)
             \/ \E n \in TreeNodes : DeleteRead(t, n)
      PROVE  Listed'
  <2>1. /\ thread'[t].does \in {"rest", "delete", "enabled", "sweep"}
        /\ thread'[t].does \in {"delete", "sweep"} =>
             \/ thread'[t].all \subseteq Here
             \/ thread[t].does \in {"sweep", "embed"} /\ thread'[t].all \subseteq Here \cup thread[t].all
        /\ \A u \in Threads \ {t} : thread'[u] = thread[u]
    BY <1>4, OtherTasks
  <2> QED
    BY <1>0, <2>1 DEF Listed
<1>5. ASSUME NEW t \in Threads, NEW n \in TreeNodes, NEW f \in Folders \cup {Root},
             CreateNode(t, n, f) \/ MoveRead(t, n, f)
      PROVE  Listed'
  BY <1>3, <1>5, CreatesOne, MovesOne
<1>6. CASE UNCHANGED thread
  BY <1>0, <1>6 DEF Listed
<1> QED
  BY <1>1, <1>2, <1>4, <1>5, <1>6 DEF TreeNext, TreeRequest, KnowledgeStep, CreateRow, DeleteRow, Switch

\* A step of a thread that concerns no text.
Aside(t) ==
  /\ UNCHANGED <<text, embedded, mixed>> /\ thread'[t].does \notin {"edit", "embed"}
  /\ \A u \in Threads \ {t} : thread'[u] = thread[u]

\* Every step is such a step or one of a few others.
LEMMA TextSteps ==
  ASSUME TreeInv, TreeNext
  PROVE  \/ \E t \in Threads, l \in Leaves : EditRead(t, l) \/ SweepRead(t, l)
         \/ \E t \in Threads : EditCommit(t) \/ SweepBegin(t) \/ SweepWrite(t) \/ Aside(t)
         \/ \E l \in TableRows, d \in Datasets : CreateRow(l, d)
         \/ UNCHANGED <<text, embedded, mixed, thread>>
<1> USE DEF TreeInv
<1>1. ASSUME NEW t \in Threads, NEW n \in TreeNodes, NEW f \in Folders \cup {Root},
             CreateNode(t, n, f) \/ MoveRead(t, n, f)
      PROVE  Aside(t)
  <2>1. thread'[t].does \in {"create", "move"} /\ \A u \in Threads \ {t} : thread'[u] = thread[u]
    BY <1>1, CreatesOne, MovesOne
  <2> QED
    BY <1>1, <2>1 DEF Aside, CreateNode, MoveRead
<1>2. ASSUME NEW t \in Threads,
             \/ CreateCommit(t) \/ MoveCommit(t) \/ DeleteCommit(t)
             \/ \E d \in Datasets : SweepRows(t, d)
             \/ \E f \in Folders : Enable(t, f)
             \/ \E n \in TreeNodes : DeleteRead(t, n)
      PROVE  Aside(t)
  <2>1. /\ thread'[t].does \notin {"edit", "embed"}
        /\ \A u \in Threads \ {t} : thread'[u] = thread[u]
    BY <1>2, OtherTasks
  <2>2. UNCHANGED <<text, embedded, mixed>>
    BY <1>2 DEF CreateCommit, MoveCommit, DeleteCommit, SweepRows, Enable, DeleteRead
  <2> QED
    BY <2>1, <2>2 DEF Aside
<1>3. ASSUME NEW l \in TableRows, DeleteRow(l) PROVE UNCHANGED <<text, embedded, mixed, thread>>
  BY <1>3 DEF DeleteRow
<1>4. ASSUME NEW f \in Folders, Switch(f) PROVE UNCHANGED <<text, embedded, mixed, thread>>
  BY <1>4 DEF Switch
<1>5. ASSUME NEW t \in Threads, TreeRequest(t)
      PROVE  Aside(t) \/ \E l \in Leaves : EditRead(t, l)
  BY <1>1, <1>2, <1>5 DEF TreeRequest
<1>6. ASSUME NEW t \in Threads, KnowledgeStep(t)
      PROVE  \/ EditCommit(t) \/ SweepBegin(t) \/ SweepWrite(t) \/ Aside(t)
             \/ \E l \in Leaves : SweepRead(t, l)
  BY <1>2, <1>6 DEF KnowledgeStep
<1>7. TreeNext
  OBVIOUS
<1> QED
  BY <1>3, <1>4, <1>5, <1>6, <1>7 DEF TreeNext

\* A text that is not mixed is embedded by one thread at a time.
LEMMA TreeReplaced ==
  ASSUME TreeInv, TreeNext
  PROVE  Replaced'
<1> USE DEF TreeInv
<1>0. embedded \in [Leaves -> SUBSET (0..MaxText)] /\ text \in [Leaves -> 0..MaxText]
  BY DEF TreeTypeOK
<1>1. ASSUME NEW t \in Threads, NEW l \in Leaves, EditRead(t, l)
      PROVE  Replaced'
  <2>1. /\ thread'[t].does = "edit" /\ thread'[t].node = l
        /\ Vectorized(l) => thread'[t].drop = embedded[l] /\ thread'[t].all = {l}
        /\ \A u \in Threads \ {t} : thread'[u] = thread[u]
    BY <1>1, EditsOne
  <2>2. /\ UNCHANGED <<text, embedded>> /\ mixed \subseteq mixed'
        /\ l \notin mixed' => Vectorized(l) /\ ~ Embeds(l, t)
    BY <1>1 DEF EditRead
  <2> QED
    BY <2>1, <2>2 DEF Replaced, Embeds
<1>2. ASSUME NEW t \in Threads, NEW l \in Leaves, SweepRead(t, l)
      PROVE  Replaced'
  <2>1. /\ thread'[t].does = "embed" /\ thread'[t].node = l /\ thread'[t].new = text[l]
        /\ \A u \in Threads \ {t} : thread'[u] = thread[u]
    BY <1>2, EmbedsOne
  <2>2. /\ UNCHANGED <<text, embedded>> /\ mixed \subseteq mixed'
        /\ l \notin mixed' => ~ Embeds(l, t)
    BY <1>2 DEF SweepRead
  <2> QED
    BY <2>1, <2>2 DEF Replaced, Embeds
<1>3. ASSUME NEW t \in Threads, EditCommit(t) \/ SweepWrite(t)
      PROVE  Replaced'
  <2> DEFINE l == thread[t].node
  <2>1. /\ thread'[t].does \notin {"edit", "embed"}
        /\ \A u \in Threads \ {t} : thread'[u] = thread[u]
    BY <1>3, OtherTasks
  <2>2. /\ l \in Leaves /\ thread[t].does \in {"edit", "embed"}
        /\ \A m \in Leaves \ {l} : embedded'[m] = embedded[m] /\ text'[m] = text[m]
        /\ mixed' \in {mixed, mixed \cup {l}, mixed \ {l}} /\ (Embeds(l, t) => mixed' = mixed)
    BY <1>0, <1>3 DEF EditCommit, SweepWrite, Listed
  <2>3. ASSUME NEW u \in Threads \ {t}, thread[u].does \in {"edit", "embed"}, thread[u].node \notin mixed'
        PROVE  thread[u].node \in Leaves \ {l} /\ thread[u].node \notin mixed
    BY <2>2, <2>3 DEF Replaced, Embeds, Listed
  <2>4. ASSUME NEW u \in Threads \ {t}, NEW m, Embeds(m, u)'
        PROVE  Embeds(m, u)
    BY <2>1, <2>4 DEF Embeds
  <2> HIDE DEF l
  <2> QED
    BY <2>1, <2>2, <2>3, <2>4 DEF Replaced
<1>4. ASSUME NEW t \in Threads, SweepBegin(t)
      PROVE  Replaced'
  <2>1. /\ thread'[t].does \notin {"edit", "embed"}
        /\ \A u \in Threads \ {t} : thread'[u] = thread[u]
    BY <1>4, OtherTasks
  <2>2. /\ text' = text /\ \A m \in Leaves : embedded'[m] \subseteq embedded[m]
        /\ \A m \in mixed \ mixed' : ~ Embeds(m, t)
    BY <1>0, <1>4 DEF SweepBegin
  <2>3. ASSUME NEW u \in Threads \ {t}, thread[u].does \in {"edit", "embed"}, thread[u].node \notin mixed'
        PROVE  thread[u].node \in Leaves \ mixed
    BY <2>2, <2>3 DEF Embeds, Listed
  <2>4. ASSUME NEW u \in Threads \ {t}, NEW m, Embeds(m, u)'
        PROVE  Embeds(m, u)
    BY <2>1, <2>4 DEF Embeds
  <2> QED
    BY <2>1, <2>2, <2>3, <2>4 DEF Replaced
<1>5. ASSUME NEW l \in TableRows, NEW d \in Datasets, CreateRow(l, d)
      PROVE  Replaced'
  <2>1. UNCHANGED <<text, mixed, thread>> /\ \A m \in Leaves \ {l} : embedded'[m] = embedded[m]
    BY <1>0, <1>5 DEF CreateRow
  <2>2. l \notin present
    BY <1>5 DEF CreateRow
  <2> QED
    BY <2>1, <2>2 DEF Replaced, Listed, Embeds
<1>6. ASSUME NEW t \in Threads, Aside(t)
      PROVE  Replaced'
  BY <1>6 DEF Aside, Replaced, Embeds
<1>7. CASE UNCHANGED <<text, embedded, mixed, thread>>
  BY <1>7 DEF Replaced, Embeds
<1> QED
  BY <1>1, <1>2, <1>3, <1>4, <1>5, <1>6, <1>7, TextSteps

\* So it has no embedding but of what it is.
LEMMA TreeFresh ==
  ASSUME TreeInv, TreeNext
  PROVE  EmbeddingsFresh'
<1> USE DEF TreeInv
<1>0. embedded \in [Leaves -> SUBSET (0..MaxText)] /\ text \in [Leaves -> 0..MaxText]
  BY DEF TreeTypeOK
<1>1. ASSUME NEW t \in Threads, NEW l \in Leaves, EditRead(t, l) \/ SweepRead(t, l)
      PROVE  EmbeddingsFresh'
  BY <1>1 DEF EditRead, SweepRead, EmbeddingsFresh
<1>2. ASSUME NEW t \in Threads, EditCommit(t)
      PROVE  EmbeddingsFresh'
  <2> DEFINE l == thread[t].node
  <2>1. /\ l \in Leaves /\ thread[t].does = "edit" /\ text' = [text EXCEPT ![l] = thread[t].new]
        /\ mixed \ {l} \subseteq mixed'
        /\ l \notin mixed' => l \notin mixed \/ embedded[l] \subseteq thread[t].drop
    BY <1>2 DEF EditCommit, Listed
  <2>2. PICK made \in SUBSET {thread[t].new} :
          embedded' = [embedded EXCEPT ![l] = (@ \ thread[t].drop) \cup made]
    BY <1>2 DEF EditCommit
  <2>3. l \notin mixed' => embedded[l] \subseteq thread[t].drop
    BY <2>1 DEF Replaced
  <2> HIDE DEF l
  <2>4. ASSUME NEW m \in Leaves \ mixed', m # l
        PROVE  embedded'[m] \subseteq {text'[m]}
    BY <1>0, <2>1, <2>2, <2>4 DEF EmbeddingsFresh
  <2>5. l \notin mixed' => embedded'[l] \subseteq {text'[l]}
    BY <1>0, <2>1, <2>2, <2>3
  <2> QED
    BY <2>4, <2>5 DEF EmbeddingsFresh
<1>3. ASSUME NEW t \in Threads, SweepWrite(t)
      PROVE  EmbeddingsFresh'
  <2> DEFINE l == thread[t].node
  <2>1. l \in Leaves /\ thread[t].does = "embed" /\ UNCHANGED <<text, mixed>>
    BY <1>3 DEF SweepWrite, Listed
  <2>2. PICK made \in SUBSET {thread[t].new} : embedded' = [embedded EXCEPT ![l] = @ \cup made]
    BY <1>3 DEF SweepWrite
  <2>3. l \notin mixed => thread[t].new = text[l]
    BY <2>1 DEF Replaced
  <2> HIDE DEF l
  <2>4. ASSUME NEW m \in Leaves \ mixed, m # l
        PROVE  embedded'[m] \subseteq {text'[m]}
    BY <1>0, <2>1, <2>2, <2>4 DEF EmbeddingsFresh
  <2>5. l \notin mixed => embedded'[l] \subseteq {text'[l]}
    BY <1>0, <2>1, <2>2, <2>3 DEF EmbeddingsFresh
  <2> QED
    BY <2>1, <2>4, <2>5 DEF EmbeddingsFresh
<1>4. ASSUME NEW t \in Threads, SweepBegin(t)
      PROVE  EmbeddingsFresh'
  <2>1. text' = text /\ \A m \in Leaves \ mixed' :
          embedded'[m] = {} \/ (embedded'[m] = embedded[m] /\ m \notin mixed)
    BY <1>4 DEF SweepBegin
  <2> QED
    BY <2>1 DEF EmbeddingsFresh
<1>5. ASSUME NEW l \in TableRows, NEW d \in Datasets, CreateRow(l, d)
      PROVE  EmbeddingsFresh'
  <2>1. PICK made \in SUBSET {text[l]} :
          embedded' = [embedded EXCEPT ![l] = IF Vectorized(d) THEN made ELSE {}]
    BY <1>5 DEF CreateRow
  <2>2. UNCHANGED <<text, mixed>>
    BY <1>5 DEF CreateRow
  <2> QED
    BY <1>0, <2>1, <2>2 DEF EmbeddingsFresh
<1>6. ASSUME NEW t \in Threads, Aside(t)
      PROVE  EmbeddingsFresh'
  BY <1>6 DEF Aside, EmbeddingsFresh
<1>7. CASE UNCHANGED <<text, embedded, mixed, thread>>
  BY <1>7 DEF EmbeddingsFresh
<1> QED
  BY <1>1, <1>2, <1>3, <1>4, <1>5, <1>6, <1>7, TextSteps

-----------------------------------------------------------------------------
\* At the start every node is at the root and nothing is embedded.
LEMMA TreeStarts == TreeInit => TreeInv
<1> SUFFICES ASSUME TreeInit PROVE TreeInv
  OBVIOUS
<1>1. thread \in [Threads -> TaskType] /\ \A t \in Threads : thread[t].does = "rest"
  BY Rested DEF TreeInit
<1>2. TreeTypeOK
  <2>1. {} \in SUBSET (0..MaxText) /\ 0 \in 0..MaxText
    OBVIOUS
  <2> QED
    BY <1>1, <2>1 DEF TreeInit, TreeTypeOK, TaskType
<1>3. Rooted /\ Acyclic /\ MovesClear /\ Listed /\ Replaced /\ EmbeddingsFresh
  BY <1>1 DEF TreeInit, Rooted, Acyclic, MovesClear, Listed, Replaced, EmbeddingsFresh
<1> QED
  BY <1>2, <1>3 DEF TreeInv

\* Every step, or none, keeps the invariant.
LEMMA TreeKept == TreeInv /\ [TreeNext]_treeVars => TreeInv'
<1>1. CASE UNCHANGED treeVars
  <2> SUFFICES ASSUME TreeInv, UNCHANGED treeVars PROVE TreeInv'
    BY <1>1
  <2>1. TreeTypeOK' /\ Rooted' /\ Listed'
    BY DEF treeVars, TreeInv, TreeTypeOK, Rooted, Listed
  <2>2. (~ crossed => Acyclic /\ MovesClear)'
    BY DEF treeVars, TreeInv, Acyclic, MovesClear, Clear
  <2>3. Replaced' /\ EmbeddingsFresh'
    BY DEF treeVars, TreeInv, Replaced, Embeds, EmbeddingsFresh
  <2> QED
    BY <2>1, <2>2, <2>3 DEF TreeInv
<1>2. TreeInv /\ TreeNext => TreeInv'
  <2> SUFFICES ASSUME TreeInv, TreeNext PROVE TreeInv'
    OBVIOUS
  <2>1. TreeTypeOK' /\ Rooted' /\ Listed' /\ Replaced' /\ EmbeddingsFresh'
    BY TreeTypes, TreeRooted, TreeListed, TreeReplaced, TreeFresh
  <2>2. ~ crossed' => Acyclic' /\ MovesClear'
    BY TreeAcyclic, TreeMovesClear
  <2> QED
    BY <2>1, <2>2 DEF TreeInv
<1> QED
  BY <1>1, <1>2

\* A chain of parents that ends has a node at the root.
LEMMA ChainsShown == TreeInv => TreeShowsAll
<1> SUFFICES ASSUME TreeInv, ~ crossed, NEW n \in TreeNodes \cap Here
             PROVE  n \in Shown
  BY DEF TreeShowsAll
<1>1. Root \notin Here
  BY DEF TreeInv, TreeTypeOK, Here
<1>2. parent[n] = Root \/ \E m \in Above(n) : parent[m] = Root
  BY ChainsEnd DEF TreeInv, TreeTypeOK
<1> QED
  BY <1>1, <1>2 DEF Shown

\* Whatever is created, moved and deleted, in whatever order, every node that is not deleted
\* is shown, unless two moves overlapped.
THEOREM EveryNodeShown == TreeSpec => []TreeShowsAll
  BY TreeStarts, TreeKept, ChainsShown, PTL DEF TreeSpec

\* An embedding of an older text is left only by an edit where nothing is vectorized or by
\* two threads that embed one text at once.
THEOREM NoStaleEmbedding == TreeSpec => []EmbeddingsFresh
<1>1. TreeInv => EmbeddingsFresh
  BY DEF TreeInv
<1> QED
  BY <1>1, TreeStarts, TreeKept, PTL DEF TreeSpec

-----------------------------------------------------------------------------
(* All parts.                                                              *)

\* A step of one part is a step or a stutter of each.
LEMMA RecordsStep ==
  [RecordsNext]_recordVars =>
    /\ [SyncNext]_syncVars /\ [SandboxNext]_sandboxVars
    /\ [TreeNext]_treeVars /\ [IntakeNext]_intakeVars
  BY DEF RecordsNext, SyncPart, SandboxPart, TreePart, IntakePart, recordVars

\* Each part keeps its invariant, and so do the others, which it leaves alone.
LEMMA RecordsKept ==
  SyncInv /\ SandboxInv /\ TreeInv /\ IntakeInv /\ [RecordsNext]_recordVars =>
    (SyncInv /\ SandboxInv /\ TreeInv /\ IntakeInv)'
  BY RecordsStep, SyncKept, SandboxSteps, TreeKept, IntakeKept

\* What the run explores implements the specification of each part, so that the theorems
\* about the parts hold of it (MCRecords).
THEOREM RecordsImplementParts ==
  RecordsSpec => SyncSpec /\ SandboxSpec /\ TreeSpec /\ IntakeSpec
<1>1. RecordsInit => SyncInit /\ SandboxInit /\ TreeInit /\ IntakeInit
  BY DEF RecordsInit
<1> QED
  BY <1>1, RecordsStep, PTL DEF RecordsSpec, SyncSpec, SandboxSpec, TreeSpec, IntakeSpec

\* The types of all parts hold together.
THEOREM RecordsTypeCorrect == RecordsSpec => []RecordsTypeOK
<1>1. RecordsInit => SyncInv /\ SandboxInv /\ TreeInv /\ IntakeInv
  BY SyncStarts, SandboxStarts, TreeStarts, IntakeStarts DEF RecordsInit
<1>2. SyncInv /\ SandboxInv /\ TreeInv /\ IntakeInv => RecordsTypeOK
  BY DEF RecordsTypeOK, SyncInv, SandboxInv, TreeInv, IntakeInv
<1> QED
  BY <1>1, <1>2, RecordsKept, PTL DEF RecordsSpec
=============================================================================
