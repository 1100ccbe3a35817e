------------------------------ MODULE AgentCache ------------------------------
(***************************************************************************)
(* Agents, their mounts as subagents of one another, and what is cached of *)
(* them: app/service/agent.py and app/router/v1/agent.py (threads of the   *)
(* pool), app/agent/factory.py (services made in the event loop),          *)
(* app/agent/mcp/client_manager.py (tools of MCP servers) and the two      *)
(* system settings every agent is built from.                              *)
(*                                                                         *)
(* A service is made from what is stored of an agent, of those mounted on  *)
(* it, of its mounts and of the settings, and is then used by all chats    *)
(* until it is cleared.  Here it is the set of these agents, and of those  *)
(* that have changed since.  Services with the tools of a running sandbox  *)
(* are left out: they are cached under the agent's id with a suffix, and   *)
(* nothing but a change of the settings clears them.                       *)
(***************************************************************************)
EXTENDS Integers, FiniteSets

CONSTANTS
  Agents,   \* ever created
  Managers, \* requests that change agents, under way in threads
  Chats,    \* chats that are getting their service
  NoAgent, NoService

ASSUME AgentAssumption == NoAgent \notin Agents

Services == [agents : SUBSET Agents, old : SUBSET Agents]

VARIABLES
  life,     \* "none", "live" or "deleted" (is_deleted)
  mounts,   \* rows <<parent, child>>
  cache,    \* AgentFactory._agents: the service of each agent
  tools,    \* MCPToolCache, by agent: "none", "new", "old" (the agent has changed since), or
            \* "late" (it had when they were cached)
  manager,  \* what each request is doing
  chat,     \* what each chat is doing
  overtaken \* history: agents whose service was out of date when it was cached, or
            \* became so by a commit whose clearing was already over

agentVars == <<life, mounts, cache, tools, manager, chat, overtaken>>

NotManaging == [does |-> "rest", agent |-> NoAgent, child |-> NoAgent, clears |-> {}]
NotChatting == [does |-> "rest", agent |-> NoAgent, service |-> NoService]

AgentTypeOK ==
  /\ life \in [Agents -> {"none", "live", "deleted"}]
  /\ mounts \subseteq Agents \X Agents
  /\ cache \in [Agents -> Services \cup {NoService}]
  /\ tools \in [Agents -> {"none", "new", "old", "late"}]
  /\ manager \in [Managers -> [
       does : {"rest", "delete", "mount", "cascade", "clear", "commit"},
       agent : Agents \cup {NoAgent}, child : Agents \cup {NoAgent}, clears : SUBSET Agents]]
  /\ chat \in [Chats -> [does : {"rest", "store", "fetch", "fetching"},
       agent : Agents \cup {NoAgent}, service : Services \cup {NoService}]]
  /\ overtaken \subseteq Agents

AgentInit ==
  /\ life = [a \in Agents |-> "none"] /\ mounts = {}
  /\ cache = [a \in Agents |-> NoService] /\ tools = [a \in Agents |-> "none"]
  /\ manager = [h \in Managers |-> NotManaging] /\ chat = [c \in Chats |-> NotChatting]
  /\ overtaken = {}

-----------------------------------------------------------------------------
LiveAgents  == {a \in Agents : life[a] = "live"}
Children(a) == {b \in Agents : <<a, b>> \in mounts}
Parents(a)  == {b \in Agents : <<b, a>> \in mounts}

\* What is under an agent, itself included: the walk of _has_circular_reference.
Mounted(a) ==
  LET down[i \in 0..Cardinality(Agents)] ==
        IF i = 0 THEN {a} ELSE down[i - 1] \cup UNION {Children(b) : b \in down[i - 1]}
  IN down[Cardinality(Agents)]

\* build_agent_config: only the agents mounted directly, and not those deleted.
MadeOf(a)  == {a} \cup (Children(a) \cap LiveAgents)
UpToDate(a) == [agents |-> MadeOf(a), old |-> {}]

\* Agents S have changed: what is made of them is older now.
Aged(service, S) ==
  IF service = NoService THEN NoService ELSE [service EXCEPT !.old = @ \cup (S \cap service.agents)]

Age(S) ==
  /\ cache' = [a \in Agents |-> Aged(cache[a], S)]
  /\ tools' = [a \in Agents |-> IF a \in S /\ tools[a] = "new" THEN "old" ELSE tools[a]]
  /\ chat' = [c \in Chats |-> [chat[c] EXCEPT !.service = Aged(@, S)]]

\* The mounts of agent a are worded anew, or the settings are (all agents).
AgeOwn(S) ==
  /\ cache' = [a \in Agents |-> Aged(cache[a], S \cap {a})]
  /\ chat' = [c \in Chats |-> IF chat[c].does = "store"
                               THEN [chat[c] EXCEPT !.service = Aged(@, S \cap {chat[c].agent})]
                               ELSE chat[c]]

\* clear_cache of each.
Cleared(S) ==
  /\ cache' = [a \in Agents |-> IF a \in S THEN NoService ELSE cache[a]]
  /\ tools' = [a \in Agents |-> IF a \in S THEN "none" ELSE tools[a]]
  /\ overtaken' = overtaken \ S

Manage(h, what) == manager' = [manager EXCEPT ![h] = what]
Clears(h, S) ==
  Manage(h, IF S = {} THEN NotManaging ELSE [NotManaging EXCEPT !.does = "clear", !.clears = S])

-----------------------------------------------------------------------------
(* Requests.  Each commits, and then clears what it has made out of date.  *)

\* A new agent, with some mounted on it at once.
CreateAgent(a, S) ==
  /\ life[a] = "none" /\ S \subseteq LiveAgents
  /\ life' = [life EXCEPT ![a] = "live"]
  /\ mounts' = mounts \cup ({a} \X S)
  /\ UNCHANGED <<cache, tools, manager, chat, overtaken>>

\* The agent's own entry is cleared, and then those of the parents it has by then.
UpdateAgent(h, a) ==
  /\ manager[h] = NotManaging /\ a \in LiveAgents
  /\ Age({a})
  /\ Manage(h, [NotManaging EXCEPT !.does = "cascade", !.agent = a, !.clears = {a}])
  /\ UNCHANGED <<life, mounts, overtaken>>

\* Only the agent's own entry is cleared.
FaultyCascaded(a) == {a}

Cascaded(a) == {a} \cup Parents(a)

Cascade(h) ==
  LET a == manager[h].agent IN
  /\ manager[h].does = "cascade"
  /\ Cleared({a}) /\ Clears(h, Cascaded(a) \ {a})
  /\ UNCHANGED <<life, mounts, chat>>

ClearNext(h) ==
  /\ manager[h].does = "clear"
  /\ \E a \in manager[h].clears : Cleared({a}) /\ Clears(h, manager[h].clears \ {a})
  /\ UNCHANGED <<life, mounts, chat>>

\* A change of an agent's MCP servers: the handler is in the event loop, so no chat is
\* served between its commit and its clearing.
UpdateServers(a) ==
  LET S == Cascaded(a) IN
  /\ a \in LiveAgents
  /\ cache' = [b \in Agents |-> IF b \in S THEN NoService ELSE Aged(cache[b], {a})]
  /\ tools' = [b \in Agents |-> IF b \in S THEN "none" ELSE tools[b]]
  /\ chat' = [c \in Chats |-> [chat[c] EXCEPT !.service = Aged(@, {a})]]
  /\ overtaken' = overtaken \ S
  /\ UNCHANGED <<life, mounts, manager>>

\* The parents are read first; the deletion removes the mounts there are by then.
DeleteAgentRead(h, a) ==
  /\ manager[h] = NotManaging /\ a \in LiveAgents
  /\ Manage(h, [NotManaging EXCEPT !.does = "delete", !.agent = a,
                  !.clears = {a} \cup (Parents(a) \cap LiveAgents)])
  /\ UNCHANGED <<life, mounts, cache, tools, chat, overtaken>>

DeleteAgentCommit(h) ==
  LET a == manager[h].agent IN
  /\ manager[h].does = "delete"
  /\ life' = [life EXCEPT ![a] = "deleted"]
  /\ mounts' = {m \in mounts : a \notin {m[1], m[2]}}
  /\ overtaken' = overtaken \cup {b \in Parents(a) \ manager[h].clears : cache[b] # NoService}
  /\ Clears(h, manager[h].clears)
  /\ UNCHANGED <<cache, tools, chat>>

\* The child must be there, no ancestor of the parent, and not mounted yet.
MayMount(a, b) == b \in LiveAgents /\ a \notin Mounted(b) /\ <<a, b>> \notin mounts

MountRead(h, a, b) ==
  /\ manager[h] = NotManaging /\ a \in LiveAgents /\ MayMount(a, b)
  /\ Manage(h, [NotManaging EXCEPT !.does = "mount", !.agent = a, !.child = b])
  /\ UNCHANGED <<life, mounts, cache, tools, chat, overtaken>>

\* A mount that was made meanwhile is an error.
MountCommit(h) ==
  LET m == <<manager[h].agent, manager[h].child>> IN
  /\ manager[h].does = "mount"
  /\ mounts' = mounts \cup {m}
  /\ IF m \in mounts THEN Manage(h, NotManaging) ELSE Clears(h, {m[1]})
  /\ UNCHANGED <<life, cache, tools, chat, overtaken>>

Unmount(h, m) ==
  /\ manager[h] = NotManaging /\ m \in mounts
  /\ mounts' = mounts \ {m}
  /\ Clears(h, {m[1]})
  /\ UNCHANGED <<life, cache, tools, chat, overtaken>>

\* The description or the place of a mount.
UpdateMount(h, m) ==
  /\ manager[h] = NotManaging /\ m \in mounts
  /\ AgeOwn({m[1]})
  /\ Clears(h, {m[1]})
  /\ UNCHANGED <<life, mounts, tools, overtaken>>

\* All mounts of an agent are replaced, each checked as one that is made.
ReplaceMounts(h, a, S) ==
  /\ manager[h] = NotManaging /\ a \in LiveAgents
  /\ S \subseteq LiveAgents /\ \A b \in S : a \notin Mounted(b)
  /\ mounts' = {m \in mounts : m[1] # a} \cup ({a} \X S)
  /\ Clears(h, {a})
  /\ UNCHANGED <<life, cache, tools, chat, overtaken>>

\* A change of the providers or the default model clears everything, and then commits.
SettingsClear(h) ==
  /\ manager[h] = NotManaging
  /\ cache' = [a \in Agents |-> NoService] /\ tools' = [a \in Agents |-> "none"]
  /\ overtaken' = {}
  /\ Manage(h, [NotManaging EXCEPT !.does = "commit"])
  /\ UNCHANGED <<life, mounts, chat>>

SettingsCommit(h) ==
  /\ manager[h].does = "commit"
  /\ AgeOwn(Agents)
  /\ overtaken' = overtaken \cup {a \in Agents : cache[a] # NoService}
  /\ Manage(h, NotManaging)
  /\ UNCHANGED <<life, mounts, tools>>

-----------------------------------------------------------------------------
(* Chats.                                                                  *)

\* The configuration is built anew for every chat.
ChatBuild(c, a) ==
  /\ chat[c] = NotChatting /\ a \in LiveAgents
  /\ chat' = [chat EXCEPT ![c] = [NotChatting EXCEPT !.does = "store", !.agent = a,
                                    !.service = UpToDate(a)]]
  /\ UNCHANGED <<life, mounts, cache, tools, manager, overtaken>>

\* A cached service is taken whatever the configuration says.
ChatService(c) ==
  LET a == chat[c].agent IN
  /\ chat[c].does = "store"
  /\ IF cache[a] # NoService
       THEN chat' = [chat EXCEPT ![c] = NotChatting] /\ UNCHANGED <<cache, overtaken>>
       ELSE /\ cache' = [cache EXCEPT ![a] = chat[c].service]
            /\ chat' = [chat EXCEPT ![c].does = "fetch", ![c].agent = NoAgent]
            /\ overtaken' = IF chat[c].service # UpToDate(a) THEN overtaken \cup {a} ELSE overtaken
  /\ UNCHANGED <<life, mounts, tools, manager>>

\* The chat has the tools of agent a.
Equipped(c, a) ==
  IF chat[c].service.agents = {a} THEN NotChatting
  ELSE [chat[c] EXCEPT !.does = "fetch", !.agent = NoAgent,
                       !.service = [agents |-> @.agents \ {a}, old |-> @.old \ {a}]]

\* When the service is first used its tools, and those of its subagents, are taken from
\* the cache or asked of their servers, with an await.  What the chat keeps of the service
\* is what it still has to do that for.
ChatFetch(c, a) ==
  /\ chat[c].does = "fetch" /\ a \in chat[c].service.agents
  /\ chat' = [chat EXCEPT ![c] =
                IF tools[a] = "none" THEN [@ EXCEPT !.does = "fetching", !.agent = a]
                ELSE Equipped(c, a)]
  /\ UNCHANGED <<life, mounts, cache, tools, manager, overtaken>>

\* What an agent without servers, or with none that answers, has is not cached.
ChatFetched(c) ==
  LET a == chat[c].agent IN
  /\ chat[c].does = "fetching"
  /\ \/ tools' = [tools EXCEPT ![a] = IF a \in chat[c].service.old THEN "late" ELSE "new"]
     \/ UNCHANGED tools
  /\ chat' = [chat EXCEPT ![c] = Equipped(c, a)]
  /\ UNCHANGED <<life, mounts, cache, manager, overtaken>>

\* Tools are kept for five minutes.
ToolsExpire(a) ==
  /\ tools[a] # "none"
  /\ tools' = [tools EXCEPT ![a] = "none"]
  /\ UNCHANGED <<life, mounts, cache, manager, chat, overtaken>>

-----------------------------------------------------------------------------
ManagerStep(h) ==
  \/ \E a \in Agents :
       \/ UpdateAgent(h, a) \/ DeleteAgentRead(h, a)
       \/ \E b \in Agents : MountRead(h, a, b)
       \/ \E S \in SUBSET Agents : ReplaceMounts(h, a, S)
  \/ \E m \in mounts : Unmount(h, m) \/ UpdateMount(h, m)
  \/ Cascade(h) \/ ClearNext(h) \/ DeleteAgentCommit(h) \/ MountCommit(h)
  \/ SettingsClear(h) \/ SettingsCommit(h)

AgentNext ==
  \/ \E h \in Managers : ManagerStep(h)
  \/ \E c \in Chats : \/ \E a \in Agents : ChatBuild(c, a) \/ ChatFetch(c, a)
                      \/ ChatService(c) \/ ChatFetched(c)
  \/ \E a \in Agents : UpdateServers(a) \/ ToolsExpire(a)
                       \/ \E S \in SUBSET Agents : CreateAgent(a, S)

AgentSpec == AgentInit /\ [][AgentNext]_agentVars

-----------------------------------------------------------------------------
(* Properties.                                                             *)

\* A request under way will clear the agent's entry.
ToBeCleared(a) ==
  \E h \in Managers :
    \/ manager[h].does \in {"cascade", "clear"} /\ a \in manager[h].clears
    \/ manager[h].does = "cascade" /\ a \in Parents(manager[h].agent)

\* Whatever is changed in an agent, in those mounted on it, in the mounts or in the
\* settings reaches the agent's next chat: a service that is cached is up to date, and
\* so are cached tools, once the clearing under way is over.  It fails only if a chat built
\* the service or fetched the tools while the change was made, an agent was mounted while
\* it was deleted, or a service was made between the clearing and the commit of a setting.
CacheFresh ==
  \A a \in LiveAgents : ~ ToBeCleared(a) =>
    /\ a \notin overtaken => cache[a] \in {NoService, UpToDate(a)}
    /\ tools[a] # "old"
=============================================================================
