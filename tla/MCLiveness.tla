----------------------------- MODULE MCLiveness -----------------------------
(* Two components that share no state, explored one after the other, as in *)
(* MCRecords, with the fairness of each.                                   *)
EXTENDS StreamSession

CONSTANTS Users, Sources, Sockets, Requests, NoSocket, NoKey, NoUser, NoSource

VARIABLES connections, pending, owner, future, lock, pc, user, want, target, registered, open,
          call, via

Gateway == INSTANCE IMConnection

VARIABLE part

gatewayVars == <<connections, pending, owner, future, lock, pc, user, want, target, registered,
                 open, call, via>>

livenessVars == <<part, vars, gatewayVars>>

LivenessInit == part \in {"streams", "gateway"} /\ Init /\ Gateway!Init

StreamsPart(A) == part = "streams" /\ A /\ UNCHANGED <<part, gatewayVars>>
GatewayPart(A) == part = "gateway" /\ A /\ UNCHANGED <<part, vars>>

\* Every coroutine takes its next step in the end, as in the two modules' own Fairness.
StreamsFair ==
  /\ \A g \in Runs : /\ WF_livenessVars(StreamsPart(FirstStep(g) \/ NeverStarts(g)))
                     /\ WF_livenessVars(StreamsPart(Cancelled(g)))
  /\ \A c \in Clients : /\ WF_livenessVars(StreamsPart(Attach(c)))
                        /\ WF_livenessVars(StreamsPart(Yield(c)))
                        /\ WF_livenessVars(StreamsPart(Detach(c)))
GatewayFair ==
  /\ \A w \in Sockets :
       /\ WF_livenessVars(GatewayPart(\E s \in Sources : Gateway!Connect(w, s) \/ Gateway!CloseOld(w, s)))
       /\ WF_livenessVars(GatewayPart(Gateway!Replace(w)))
       /\ WF_livenessVars(GatewayPart(~ open[w] /\ (Gateway!LeaveLoop(w) \/ Gateway!LeaveLoopAndWait(w))))
       /\ WF_livenessVars(GatewayPart(\E s \in Sources : Gateway!Disconnect(w, s)))
  /\ \A r \in Requests : /\ WF_livenessVars(GatewayPart(Gateway!Sent(r) \/ Gateway!SendFails(r)))
                         /\ WF_livenessVars(GatewayPart(Gateway!Awake(r)))

LivenessSpec ==
  /\ LivenessInit
  /\ [][StreamsPart(Next) \/ GatewayPart(Gateway!Next)]_livenessVars
  /\ StreamsFair /\ GatewayFair

\* disconnect(): a call sent over a connection that has closed ends without the help of its
\* timer (IMConnection).
DeadSocketCallsEnd == Gateway!DeadSocketCallsEnd
=============================================================================
