--------------------------- MODULE SessionTransfer ---------------------------
(***************************************************************************)
(* Conversations written to a file and read back                           *)
(* (service/session_transfer.py, router/v1/session_transfer.py), beside    *)
(* the requests that change conversations (service/session.py).            *)
(*                                                                         *)
(* An export reads a conversation with one query for the topics and one    *)
(* for the messages, and requests handled by other threads come between.   *)
(* An import makes every conversation of the file in a transaction of its  *)
(* own.  Rows are numbered in the order they are made; 0 is no row.  A     *)
(* deleted row is hidden, a row that is gone is no longer in its table.    *)
(***************************************************************************)
EXTENDS Naturals, SequencesExt

CONSTANTS
  Files,        \* export files
  FirstSessions, FirstTopics, FirstMessages, FirstSenders,
                \* rows there are at the start
  MaxSessions,  \* bound: session rows
  MaxChanges,   \* bound: topics and messages made by hand, and rows deleted
  NoExternal    \* a sender without an id of its platform

SenderType ==
  [name : {FirstSenders[i].name : i \in DOMAIN FirstSenders},
   external : {NoExternal} \cup {FirstSenders[i].external : i \in DOMAIN FirstSenders}]

ASSUME TransferAssumption ==
  /\ FirstSessions \in Nat /\ FirstSenders \in Seq(SenderType)
  /\ FirstTopics \in Seq([session : 1..FirstSessions, deleted : BOOLEAN, gone : BOOLEAN, copyOf : {0}])
  /\ FirstMessages \in Seq([session : 1..FirstSessions, topic : 0..Len(FirstTopics),
       sender : 0..Len(FirstSenders), deleted : BOOLEAN, gone : BOOLEAN, copyOf : {0}])

VARIABLES
  sessionRows,  \* session: hidden or gone, and what it was imported from
  topicRows,    \* topic: its session, the topic it is a copy of
  messageRows,  \* message: its session, topic and sender, the message it is a copy of
  senderRows,   \* message_sender, shared by all conversations
  export,       \* the files, being written or finished
  upload        \* the import that is going on

transferVars == <<sessionRows, topicRows, messageRows, senderRows, export, upload>>

Native == [file |-> "none"]
NoUpload == [file |-> "none"]
Unwritten == [kind |-> "none", withDeleted |-> FALSE, left |-> <<>>, read |-> {}, sections |-> <<>>]

SessionRow(from) == [deleted |-> FALSE, gone |-> FALSE, from |-> from]
TopicRow(s, copyOf) == [session |-> s, deleted |-> FALSE, gone |-> FALSE, copyOf |-> copyOf]
MessageRow(s, t, n, copyOf) ==
  [session |-> s, topic |-> t, sender |-> n, deleted |-> FALSE, gone |-> FALSE, copyOf |-> copyOf]

TransferInit ==
  /\ sessionRows = [i \in 1..FirstSessions |-> SessionRow(Native)]
  /\ topicRows = FirstTopics
  /\ messageRows = FirstMessages
  /\ senderRows = FirstSenders
  /\ export = [f \in Files |-> Unwritten]
  /\ upload = NoUpload

Visible(row) == ~row.deleted /\ ~row.gone
TopicsOf(s) == {t \in DOMAIN topicRows : topicRows[t].session = s /\ ~topicRows[t].gone}
MessagesOf(s) == {m \in DOMAIN messageRows : messageRows[m].session = s /\ ~messageRows[m].gone}

Typed ==
  Quantify(DOMAIN topicRows, LAMBDA t : topicRows[t].copyOf = 0)
    + Quantify(DOMAIN messageRows, LAMBDA m : messageRows[m].copyOf = 0)
Removed ==
  Quantify(DOMAIN sessionRows, LAMBDA s : ~Visible(sessionRows[s]))
    + Quantify(DOMAIN topicRows, LAMBDA t : ~Visible(topicRows[t]))
    + Quantify(DOMAIN messageRows, LAMBDA m : ~Visible(messageRows[m]))
MayChange == Typed + Removed < MaxChanges

---------------------------------------------------------------------------
(* Requests of users and bridges. *)

AddTopic(s) ==
  /\ Visible(sessionRows[s]) /\ MayChange
  /\ topicRows' = Append(topicRows, TopicRow(s, 0))
  /\ UNCHANGED <<sessionRows, messageRows, senderRows, export, upload>>

\* The topic may have been hidden meanwhile: it is not looked up.
AddMessage(s) ==
  /\ Visible(sessionRows[s]) /\ MayChange
  /\ \E t \in {0} \cup TopicsOf(s), n \in {0} \cup DOMAIN senderRows :
       messageRows' = Append(messageRows, MessageRow(s, t, n, 0))
  /\ UNCHANGED <<sessionRows, topicRows, senderRows, export, upload>>

\* Messages outlive their topic, without it when its row goes.
RemoveTopic(t, hard) ==
  /\ ~topicRows[t].gone /\ MayChange
  /\ topicRows' = [topicRows EXCEPT ![t].deleted = @ \/ ~hard, ![t].gone = hard]
  /\ messageRows' = [m \in DOMAIN messageRows |->
                       IF hard /\ messageRows[m].topic = t
                       THEN [messageRows[m] EXCEPT !.topic = 0] ELSE messageRows[m]]
  /\ UNCHANGED <<sessionRows, senderRows, export, upload>>

RemoveMessage(m, hard) ==
  /\ ~messageRows[m].gone /\ MayChange
  /\ messageRows' = [messageRows EXCEPT ![m].deleted = @ \/ ~hard, ![m].gone = hard]
  /\ UNCHANGED <<sessionRows, topicRows, senderRows, export, upload>>

\* The row of a session with topics or messages cannot go: the ORM would leave theirs
\* without a session, which the database refuses.
RemoveSession(s, hard) ==
  /\ ~sessionRows[s].gone /\ MayChange
  /\ hard => TopicsOf(s) \cup MessagesOf(s) = {}
  /\ sessionRows' = [sessionRows EXCEPT ![s].deleted = @ \/ ~hard, ![s].gone = hard]
  /\ UNCHANGED <<topicRows, messageRows, senderRows, export, upload>>

---------------------------------------------------------------------------
(* Export. *)

\* The place of a number in a set of them, and the set in this order.
PlaceIn(S, x) == Cardinality({y \in S : y < x}) + 1
Ascending(S) == [i \in 1..Cardinality(S) |-> CHOOSE x \in S : PlaceIn(S, x) = i]

\* The sessions to export are looked up once; each is read later, hidden by then or not.
\* A file has one section per session, as lines (or, for one session, as one JSON object) or
\* in a bundle of files.
ExportBegin(f) ==
  /\ export[f] = Unwritten
  /\ \E chosen \in SUBSET {s \in DOMAIN sessionRows : Visible(sessionRows[s])},
        kind \in {"jsonl", "zip"}, withDeleted \in BOOLEAN :
       /\ chosen # {}
       /\ export' = [export EXCEPT ![f] =
            [kind |-> kind, withDeleted |-> withDeleted, left |-> Ascending(chosen),
             read |-> {}, sections |-> <<>>]]
  /\ UNCHANGED <<sessionRows, topicRows, messageRows, senderRows, upload>>

Exported(f, rows, of) == {i \in of : export[f].withDeleted \/ ~rows[i].deleted}

ReadTopics(f) ==
  /\ export[f].left # <<>> /\ export[f].read = {}
  /\ export' = [export EXCEPT ![f].read = {[topics |-> Exported(f, topicRows, TopicsOf(Head(export[f].left)))]}]
  /\ UNCHANGED <<sessionRows, topicRows, messageRows, senderRows, upload>>

\* The messages and their senders complete the section of a session.
ReadMessages(f) ==
  /\ export[f].read # {}
  /\ LET s == Head(export[f].left)
         found == Exported(f, messageRows, MessagesOf(s))
         senders == {messageRows[m].sender : m \in found} \ {0}
         section ==
           [session |-> s,
            topics |-> UNION {r.topics : r \in export[f].read},
            senders |-> [i \in senders |-> senderRows[i]],
            messages |-> {[id |-> m, topic |-> messageRows[m].topic, sender |-> messageRows[m].sender] :
                            m \in found}]
     IN export' = [export EXCEPT ![f].left = Tail(@), ![f].read = {},
                                 ![f].sections = Append(@, section)]
  /\ UNCHANGED <<sessionRows, topicRows, messageRows, senderRows, upload>>

WrittenOut(f) == export[f].kind # "none" /\ export[f].left = <<>>

---------------------------------------------------------------------------
(* Import. *)

\* The files inside a bundle lack the line with which an import has to begin, so that none
\* of their sections is imported.
Importable(f) == IF export[f].kind = "zip" THEN <<>> ELSE export[f].sections

ImportBegin(f) ==
  /\ WrittenOut(f) /\ upload = NoUpload /\ Importable(f) # <<>>
  /\ \E merge \in BOOLEAN :
       upload' = [file |-> f, merge |-> merge, left |-> Importable(f)]
  /\ UNCHANGED <<sessionRows, topicRows, messageRows, senderRows, export>>

\* The mapping of the sender ids in a file to rows, with one more.
Mapped(as, id, i) == [j \in DOMAIN as \cup {id} |-> IF j = id THEN i ELSE as[j]]

\* (not the code) Senders are merged although the import asks to keep them apart.
FaultySenderFor(merge, id, sender, a) ==
  LET same == {i \in DOMAIN a.rows : a.rows[i].name = sender.name}
  IN IF same = {}
     THEN {[rows |-> Append(a.rows, sender), as |-> Mapped(a.as, id, Len(a.rows) + 1)]}
     ELSE {[rows |-> a.rows, as |-> Mapped(a.as, id, i)] : i \in same}

\* What one sender of a section becomes, given the rows and the mapping so far: a sender of
\* the same external id, else of the same name, when merging; else a new one.
SenderFor(merge, id, sender, a) ==
  LET sameId == {i \in DOMAIN a.rows : sender.external # NoExternal /\ a.rows[i].external = sender.external}
      sameName == {i \in DOMAIN a.rows : a.rows[i].name = sender.name}
      existing == IF ~merge THEN {} ELSE IF sameId # {} THEN sameId ELSE sameName
  IN IF existing = {}
     THEN {[rows |-> Append(a.rows, sender), as |-> Mapped(a.as, id, Len(a.rows) + 1)]}
     ELSE {[rows |-> IF a.rows[i].external = NoExternal
                     THEN [a.rows EXCEPT ![i].external = sender.external] ELSE a.rows,
            as |-> Mapped(a.as, id, i)] : i \in existing}

SendersFor(merge, senders) ==
  FoldLeft(LAMBDA sofar, id : UNION {SenderFor(merge, id, senders[id], a) : a \in sofar},
           {[rows |-> senderRows, as |-> <<>>]}, Ascending(DOMAIN senders))

\* One session of the file, with its senders, topics and messages, in one transaction.
ImportSection ==
  /\ upload # NoUpload /\ Len(sessionRows) < MaxSessions
  /\ LET section == Head(upload.left)
         s == Len(sessionRows) + 1
         topics == Ascending(section.topics)
         topicAs(t) == IF t \in section.topics THEN Len(topicRows) + PlaceIn(section.topics, t) ELSE 0
         ids == Ascending({m.id : m \in section.messages})
         messages == [i \in DOMAIN ids |-> CHOOSE m \in section.messages : m.id = ids[i]]
     IN \E a \in SendersFor(upload.merge, section.senders) :
          /\ sessionRows' = Append(sessionRows,
               SessionRow([file |-> upload.file, merge |-> upload.merge, section |-> section]))
          /\ senderRows' = a.rows
          /\ topicRows' = topicRows \o [i \in DOMAIN topics |-> TopicRow(s, topics[i])]
          /\ messageRows' = messageRows \o [i \in DOMAIN messages |->
               MessageRow(s, topicAs(messages[i].topic),
                          IF messages[i].sender = 0 THEN 0 ELSE a.as[messages[i].sender],
                          messages[i].id)]
  /\ upload' = IF Len(upload.left) = 1 THEN NoUpload ELSE [upload EXCEPT !.left = Tail(@)]
  /\ UNCHANGED export

\* A section that cannot be imported is rolled back and ends the import; the sessions
\* before it stay.
ImportFails ==
  /\ upload # NoUpload
  /\ upload' = NoUpload
  /\ UNCHANGED <<sessionRows, topicRows, messageRows, senderRows, export>>

TransferNext ==
  \/ \E s \in DOMAIN sessionRows : AddTopic(s) \/ AddMessage(s)
  \/ \E hard \in BOOLEAN :
       \/ \E t \in DOMAIN topicRows : RemoveTopic(t, hard)
       \/ \E m \in DOMAIN messageRows : RemoveMessage(m, hard)
       \/ \E s \in DOMAIN sessionRows : RemoveSession(s, hard)
  \/ \E f \in Files : ExportBegin(f) \/ ReadTopics(f) \/ ReadMessages(f) \/ ImportBegin(f)
  \/ ImportSection \/ ImportFails

TransferSpec == TransferInit /\ [][TransferNext]_transferVars

---------------------------------------------------------------------------
(* Properties. *)

\* Rows refer to rows there are.
TransferTypeOK ==
  /\ \A t \in DOMAIN topicRows : topicRows[t].session \in DOMAIN sessionRows
  /\ \A m \in DOMAIN messageRows :
       /\ messageRows[m].session \in DOMAIN sessionRows
       /\ messageRows[m].topic \in {0} \cup DOMAIN topicRows
       /\ messageRows[m].sender \in {0} \cup DOMAIN senderRows
  /\ upload # NoUpload => upload.left # <<>>

Copies(s) == {m \in DOMAIN messageRows : messageRows[m].session = s /\ messageRows[m].copyOf # 0}

\* The topic of a copied message is the copy of the topic of the message it is a copy of.
TopicKept(s, m, row) ==
  IF row.topic # 0
  THEN topicRows[row.topic].session = s /\ topicRows[row.topic].copyOf = m.topic
  ELSE m.topic = 0 \/ m.topic \notin sessionRows[s].from.section.topics
         \/ \E t \in DOMAIN topicRows :
              topicRows[t].session = s /\ topicRows[t].copyOf = m.topic /\ topicRows[t].gone

\* An imported conversation has each message of its section once, in the copy of its topic,
\* and messages of one sender have one sender there; senders are only taken for one when
\* the import merges them.  Imports may fail between two sessions and be tried again, and
\* an export may read a conversation that others change between its two queries.
CopiesAreWhole ==
  \A s \in DOMAIN sessionRows : sessionRows[s].from # Native =>
    LET from == sessionRows[s].from
        rowOf(m) == {i \in Copies(s) : messageRows[i].copyOf = m.id}
        row(m) == messageRows[CHOOSE i \in rowOf(m) : TRUE]
    IN /\ Cardinality(Copies(s)) = Cardinality(from.section.messages)
       /\ \A m \in from.section.messages :
            Cardinality(rowOf(m)) = 1 /\ TopicKept(s, m, row(m))
       /\ \A m, n \in from.section.messages :
            /\ m.sender = n.sender => row(m).sender = row(n).sender
            /\ ~from.merge /\ m.sender # n.sender => row(m).sender # row(n).sender
=============================================================================
