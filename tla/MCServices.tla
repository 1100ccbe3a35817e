------------------------------ MODULE MCServices ------------------------------
(* Two components that share no state, explored one after the other, as in *)
(* MCRecords, with the fairness of each.                                   *)
EXTENDS BackgroundIndex, SandboxTerminal

VARIABLE part

serviceVars == <<part, indexVars, terminalVars>>

ServicesInit ==
  /\ part \in {"index", "terminal"} /\ IndexInit /\ TerminalInit
  /\ part = "terminal" => indexed = {}

IndexPart    == part = "index" /\ IndexNext /\ UNCHANGED <<part, terminalVars>>
TerminalPart == part = "terminal" /\ TerminalNext /\ UNCHANGED <<part, indexVars>>

ServicesNext == IndexPart \/ TerminalPart

ExecutePart(t) == part = "index" /\ Execute(t) /\ UNCHANGED <<part, terminalVars>>
HandlePart(c)  == part = "terminal" /\ Handle(c) /\ UNCHANGED <<part, indexVars>>

ServicesSpec ==
  /\ ServicesInit /\ [][ServicesNext]_serviceVars
  /\ \A t \in Jobs : WF_serviceVars(ExecutePart(t))
  /\ \A c \in Terminals : WF_serviceVars(HandlePart(c))

=============================================================================
