--------------------------- MODULE MCStreamSession ---------------------------
(* The runs of a chat and the services they are given, explored one after  *)
(* the other, as in MCRecords: the two share no state.  Clients are        *)
(* interchangeable, and so are agents and the requests that change them.   *)
EXTENDS StreamSession, AgentCache, TLC

VARIABLE part

streamVars == <<part, vars, agentVars>>

StreamInit == part \in {"streams", "agents"} /\ Init /\ AgentInit

StreamsPart == part = "streams" /\ Next /\ UNCHANGED <<part, agentVars>>
AgentsPart  == part = "agents" /\ AgentNext /\ UNCHANGED <<part, vars>>

StreamNext == StreamsPart \/ AgentsPart

StreamSpec == StreamInit /\ [][StreamNext]_streamVars

Interchangeable == Permutations(Clients) \cup Permutations(Agents) \cup Permutations(Managers)
=============================================================================
