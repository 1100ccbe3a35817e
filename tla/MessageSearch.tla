---------------------------- MODULE MessageSearch ----------------------------
(***************************************************************************)
(* An agent's search in the user's messages (agent/tools/builtin/          *)
(* message_search.py, service/search, service/context_retrieval.py).       *)
(*                                                                         *)
(* The tool runs in a thread.  Each of its queries sees what is committed  *)
(* by then, and messages are stored, indexed, moved and deleted between    *)
(* them.  How similar a text is, and which filters it passes, is left      *)
(* open: a query may return any of the indexed messages in any order.      *)
(* Messages are those of one session; 0 is no topic.                       *)
(***************************************************************************)
EXTENDS RankFusion, Integers

CONSTANTS
  TopicIds,
  Times,          \* values of created_at
  FirstInbox,     \* the messages there are at the start
  ContextWindow,  \* messages shown before and after a hit
  MessageTopK,    \* hits the tool asks for
  MaxEdits        \* bound: messages stored, moved and deleted meanwhile

VARIABLES
  inbox,    \* message: topic, time, whether it is deleted, whether it has moved since indexed
  indexed,  \* message_search_index: the topic at that time, the state of the vector
  finding   \* the tool's call

messageSearchVars == <<inbox, indexed, finding>>

ASSUME MessageSearchAssumption ==
  /\ FirstInbox \in Seq([topic : TopicIds \cup {0}, time : Times, deleted : BOOLEAN, moved : BOOLEAN])
  /\ Times \subseteq Int /\ MessageTopK \in Nat \ {0}

InboxRow(t, time) == [topic |-> t, time |-> time, deleted |-> FALSE, moved |-> FALSE]
NoEntry == [topic |-> 0, vector |-> "no row"]
NoFinding == [does |-> "idle", fuzzy |-> <<>>, vector |-> <<>>, hits |-> <<>>, contexts |-> <<>>,
              near |-> {}, there |-> {}]

MessageSearchInit ==
  /\ inbox = FirstInbox
  /\ indexed = [m \in DOMAIN FirstInbox |-> [topic |-> FirstInbox[m].topic, vector |-> "completed"]]
  /\ finding = NoFinding

Shown == {m \in DOMAIN inbox : ~inbox[m].deleted}
Entries == {m \in DOMAIN inbox : indexed[m] # NoEntry}
MayEdit ==
  Len(inbox) - Len(FirstInbox)
    + Cardinality({m \in DOMAIN inbox : inbox[m].deleted \/ inbox[m].moved}) < MaxEdits

---------------------------------------------------------------------------
(* Meanwhile. *)

\* A message may be committed later than a younger one.
StoreMessage(t, time) ==
  /\ MayEdit
  /\ inbox' = Append(inbox, InboxRow(t, time)) /\ indexed' = Append(indexed, NoEntry)
  /\ UNCHANGED finding

IndexMessage(m) ==
  /\ m \in Shown \ Entries
  /\ \E v \in {"pending", "completed"} :
       indexed' = [indexed EXCEPT ![m] = [topic |-> inbox[m].topic, vector |-> v]]
  /\ UNCHANGED <<inbox, finding>>

EmbedMessage(m) ==
  /\ indexed[m].vector = "pending"
  /\ indexed' = [indexed EXCEPT ![m].vector = "completed"]
  /\ UNCHANGED <<inbox, finding>>

\* A hidden message stays indexed; a row that goes takes its entry along.
DropMessage(m, hard) ==
  /\ m \in Shown /\ MayEdit
  /\ inbox' = [inbox EXCEPT ![m].deleted = TRUE]
  /\ indexed' = IF hard THEN [indexed EXCEPT ![m] = NoEntry] ELSE indexed
  /\ UNCHANGED finding

\* A client's push moves a message to another topic, or its topic's row goes.  The index is
\* not told.
MoveMessage(m, t) ==
  /\ m \in Shown /\ t # inbox[m].topic /\ MayEdit
  /\ inbox' = [inbox EXCEPT ![m].topic = t, ![m].moved = @ \/ m \in Entries]
  /\ UNCHANGED <<indexed, finding>>

---------------------------------------------------------------------------
(* The queries of a search. *)

\* What a query with a limit may return of the rows S that match, by similarity.
Listed(S, limit) == {s \in SetToAllKPermutations(S) : Len(s) <= limit /\ Len(s) <= MaxHits}

\* Of the rows S the n first and the n last in time; among equals any.
FirstOf(S, n) ==
  {T \in SUBSET S :
     /\ Cardinality(T) = IF Cardinality(S) < n THEN Cardinality(S) ELSE n
     /\ \A m \in T, o \in S \ T : inbox[m].time <= inbox[o].time}

\* (not the code) The query before a hit is sorted like the one after it.
FaultyLastOf(S, n) == FirstOf(S, n)

LastOf(S, n) ==
  {T \in SUBSET S :
     /\ Cardinality(T) = IF Cardinality(S) < n THEN Cardinality(S) ELSE n
     /\ \A m \in T, o \in S \ T : inbox[m].time >= inbox[o].time}

\* A hit carries the topic its entry has.
Hits(list) == [i \in DOMAIN list |-> [message |-> list[i], topic |-> indexed[list[i]].topic]]

\* Both queries of a hybrid search ask for three times the hits; an entry without a vector is
\* not found by the second.
FuzzySearch ==
  /\ finding.does = "idle"
  /\ \E s \in Listed(Entries, 3 * MessageTopK) :
       finding' = [finding EXCEPT !.does = "fuzzy", !.fuzzy = s, !.hits = Hits(s)]
  /\ UNCHANGED <<inbox, indexed>>

WhenFound(list) == IF list = <<>> THEN "done" ELSE "found"

\* Each list holds its rows as its own query saw them.
VectorSearch ==
  /\ finding.does = "fuzzy"
  /\ \E s \in Listed({m \in Entries : indexed[m].vector = "completed"}, 3 * MessageTopK) :
       LET fused == Fused(finding.fuzzy, s, MessageTopK)
           first == finding.hits \o Hits(s)
       IN finding' = [finding EXCEPT !.does = WhenFound(fused), !.vector = s,
            !.hits = [i \in DOMAIN fused |->
                        first[SelectInSeq(first, LAMBDA h : h.message = fused[i])]]]
  /\ UNCHANGED <<inbox, indexed>>

\* Without an embedding service the tool answers with an error.
VectorSearchFails ==
  /\ finding.does = "fuzzy"
  /\ finding' = [NoFinding EXCEPT !.does = "done"]
  /\ UNCHANGED <<inbox, indexed>>

\* Without words to look for, the newest of the messages that pass the filters.
FilterOnlySearch ==
  /\ finding.does = "idle"
  /\ \E S \in SUBSET Entries : \E T \in LastOf(S, MessageTopK) : \E s \in SetToSeqs(T) :
       /\ \A i, j \in DOMAIN s : i < j => inbox[s[i]].time >= inbox[s[j]].time
       /\ finding' = [finding EXCEPT !.does = WhenFound(s), !.hits = Hits(s)]
  /\ UNCHANGED <<inbox, indexed>>

\* get_message_context, for a message the agent has seen before.
MessageContext(m) ==
  /\ finding.does = "idle" /\ m \in Entries
  /\ finding' = [finding EXCEPT !.does = "found", !.hits = Hits(<<m>>)]
  /\ UNCHANGED <<inbox, indexed>>

---------------------------------------------------------------------------
(* The context of each hit. *)

NextHit == finding.hits[Len(finding.contexts) + 1]

\* The hits are in their order by now and the two lists forgotten.
WithContext(messages, through) ==
  LET hit == NextHit
      contexts == Append(finding.contexts, [hit |-> hit.message, topic |-> hit.topic,
                                            messages |-> messages, through |-> through])
  IN [finding EXCEPT !.fuzzy = <<>>, !.vector = <<>>, !.near = {}, !.there = {},
        !.contexts = contexts,
        !.does = IF Len(contexts) = Len(finding.hits) THEN "done" ELSE "found"]

\* A topic is read once for all its hits.
TopicContext ==
  LET t == NextHit.topic
      cached == {c \in ToSet(finding.contexts) : c.topic = t}
  IN /\ finding.does = "found" /\ t # 0
     /\ finding' = WithContext(
          IF cached # {} THEN (CHOOSE c \in cached : TRUE).messages
          ELSE {m \in Shown : inbox[m].topic = t}, {})
     /\ UNCHANGED <<inbox, indexed>>

\* Around a hit without a topic: what is before it, itself, what is after it.
WindowBefore ==
  /\ finding.does = "found" /\ NextHit.topic = 0
  /\ \E before \in LastOf({m \in Shown : inbox[m].time < inbox[NextHit.message].time}, ContextWindow) :
       finding' = [finding EXCEPT !.does = "before", !.fuzzy = <<>>, !.vector = <<>>,
                                  !.near = before, !.there = Shown]
  /\ UNCHANGED <<inbox, indexed>>

WindowHit ==
  /\ finding.does = "before"
  /\ finding' = [finding EXCEPT !.does = "hit", !.near = @ \cup ({NextHit.message} \cap Shown)]
  /\ UNCHANGED <<inbox, indexed>>

WindowAfter ==
  /\ finding.does = "hit"
  /\ \E after \in FirstOf({m \in Shown : inbox[m].time > inbox[NextHit.message].time}, ContextWindow) :
       finding' = WithContext(finding.near \cup after, finding.there \cap Shown)
  /\ UNCHANGED <<inbox, indexed>>

---------------------------------------------------------------------------
MessageSearchNext ==
  \/ \E t \in TopicIds \cup {0}, time \in Times : StoreMessage(t, time)
  \/ \E m \in DOMAIN inbox :
       \/ IndexMessage(m) \/ EmbedMessage(m) \/ MessageContext(m)
       \/ \E hard \in BOOLEAN : DropMessage(m, hard)
       \/ \E t \in TopicIds \cup {0} : MoveMessage(m, t)
  \/ FuzzySearch \/ VectorSearch \/ VectorSearchFails \/ FilterOnlySearch
  \/ TopicContext \/ WindowBefore \/ WindowHit \/ WindowAfter

MessageSearchSpec == MessageSearchInit /\ [][MessageSearchNext]_messageSearchVars

---------------------------------------------------------------------------
\* Types.
MessageSearchTypeOK ==
  /\ \A m \in DOMAIN inbox : /\ inbox[m].topic \in TopicIds \cup {0} /\ inbox[m].time \in Times
                             /\ inbox[m].deleted \in BOOLEAN /\ inbox[m].moved \in BOOLEAN
  /\ DOMAIN indexed = DOMAIN inbox
  /\ finding.does \in {"idle", "fuzzy", "found", "before", "hit", "done"}
  /\ Len(finding.contexts) <= Len(finding.hits) /\ Len(finding.hits) <= 3 * MessageTopK
  /\ finding.near \subseteq DOMAIN inbox /\ finding.there \subseteq DOMAIN inbox

\* HybridSearchEngine: while both lists are there, the hits are their fusion.
MessagesWellFused ==
  finding.does = "found" /\ (finding.fuzzy # <<>> \/ finding.vector # <<>>) =>
    WellFused(finding.fuzzy, finding.vector,
              [i \in DOMAIN finding.hits |-> finding.hits[i].message], MessageTopK)

\* ContextRetrievalService: a hit is shown where it stands.  It is in its own context, unless
\* it is deleted or has left its topic, and a window leaves out no message between two that
\* it shows, of those there were all along - except for messages of the hit's own time,
\* which are neither before it nor after it.
ContextIsWhole ==
  \A i \in DOMAIN finding.contexts :
    LET c == finding.contexts[i] IN
    /\ c.hit \in c.messages \/ inbox[c.hit].deleted \/ inbox[c.hit].moved
    /\ c.topic = 0 => \A m \in c.through :
         /\ inbox[m].time # inbox[c.hit].time
         /\ \E first, last \in c.messages :
              inbox[first].time < inbox[m].time /\ inbox[m].time < inbox[last].time
         => m \in c.messages
=============================================================================
