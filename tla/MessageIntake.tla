----------------------------- MODULE MessageIntake -----------------------------
(***************************************************************************)
(* app/service/webhook.py, its callers in app/router/v1/webhook.py and     *)
(* app/router/v1/im_gateway.py, and app/service/auto_reply.py: messages of *)
(* one chat of an external system are stored, indexed, and analysed into   *)
(* an event; a message that came over a bridge may be answered.            *)
(*                                                                         *)
(* A webhook is processed in a thread after its response, several at once; *)
(* a message of a bridge in the event loop, which runs one at a time.  The *)
(* index commits the session, the sender and the message of a delivery in  *)
(* the middle of its processing.  Senders, parts and the analysis itself   *)
(* are left out; the index of a message is that of BackgroundIndex.tla.    *)
(***************************************************************************)
EXTENDS Integers, FiniteSets

CONSTANTS
  Deliveries, \* deliveries of messages over time, repeated ones included
  Notes,      \* messages, by the id the external system gives them
  Searchable, \* those with text, in a chat of type pm or group: they are indexed
  NoNote, NoDelivery

ASSUME IntakeAssumption ==
  Searchable \subseteq Notes /\ NoNote \notin Notes /\ NoDelivery \notin Deliveries

\* Rows of sessions and messages are named for the delivery that inserted them.
VARIABLES
  at_,      \* where each delivery is
  note,     \* the message it delivers
  bridged,  \* deliveries over a bridge
  room,     \* the session row it found or inserts
  twin,     \* the message row with the same id it found
  rooms,    \* session rows of the chat
  notes,    \* message rows
  events,   \* deliveries whose event is stored
  replies,  \* deliveries whose answer is stored
  replying, \* session rows whose reply lock is held
  together  \* history: messages of which two deliveries were processed at once

intakeVars == <<at_, note, bridged, room, twin, rooms, notes, events, replies, replying, together>>

Working == {"store", "index", "event", "analyse"}

IntakeTypeOK ==
  /\ at_ \in [Deliveries -> Working \cup {"none", "stored", "think", "send", "done", "failed"}]
  /\ note \in [Deliveries -> Notes \cup {NoNote}]
  /\ bridged \subseteq Deliveries
  /\ room \in [Deliveries -> Deliveries \cup {NoDelivery}]
  /\ twin \in [Deliveries -> Deliveries \cup {NoDelivery}]
  /\ rooms \subseteq Deliveries /\ notes \subseteq Deliveries
  /\ events \subseteq Deliveries /\ replies \subseteq bridged
  /\ replying \subseteq rooms /\ together \subseteq Notes

IntakeInit ==
  /\ at_ = [d \in Deliveries |-> "none"]
  /\ note = [d \in Deliveries |-> NoNote] /\ bridged = {}
  /\ room = [d \in Deliveries |-> NoDelivery] /\ twin = [d \in Deliveries |-> NoDelivery]
  /\ rooms = {} /\ notes = {} /\ events = {} /\ replies = {} /\ replying = {} /\ together = {}

-----------------------------------------------------------------------------
Goes(d, where) == at_' = [at_ EXCEPT ![d] = where]

\* A webhook, or a frame of a bridge: the event loop is not given back while it is processed.
Receive(d, n) ==
  /\ at_[d] = "none"
  /\ Goes(d, "store")
  /\ note' = [note EXCEPT ![d] = n]
  /\ \/ UNCHANGED bridged
     \/ (\A e \in bridged : at_[e] \notin Working) /\ bridged' = bridged \cup {d}
  /\ together' = IF \E e \in Deliveries : at_[e] \in Working /\ note[e] = n
                   THEN together \cup {n} ELSE together
  /\ UNCHANGED <<room, twin, rooms, notes, events, replies, replying>>

\* A session of this external id, or else a new one; a message of this id, or else a new
\* one.  What is new is flushed, and seen by others at the next commit.
FaultyTwins(n) == {}

Twins(n) == {e \in notes : note[e] = n}

Choose(S) == IF S = {} THEN {NoDelivery} ELSE S

IntakeStore(d) ==
  /\ at_[d] = "store"
  /\ \E r \in Choose(rooms), e \in Choose(Twins(note[d])) :
       /\ room' = [room EXCEPT ![d] = IF r = NoDelivery THEN d ELSE r]
       /\ twin' = [twin EXCEPT ![d] = e]
  /\ Goes(d, "index")
  /\ UNCHANGED <<note, bridged, rooms, notes, events, replies, replying, together>>

\* What the delivery has inserted is committed.
Save(d) ==
  /\ rooms' = IF room[d] = d THEN rooms \cup {d} ELSE rooms
  /\ notes' = IF twin[d] = NoDelivery THEN notes \cup {d} ELSE notes

\* The index takes a message once (unique column): a second insertion breaks the ORM
\* session, and with it the delivery.
IntakeIndex(d) ==
  /\ at_[d] = "index"
  /\ IF note[d] \notin Searchable
       THEN Goes(d, "event") /\ UNCHANGED <<rooms, notes>>
     ELSE IF twin[d] # NoDelivery
       THEN Goes(d, "failed") /\ UNCHANGED <<rooms, notes>>
       ELSE Goes(d, "event") /\ Save(d)
  /\ UNCHANGED <<note, bridged, room, twin, events, replies, replying, together>>

\* The event is flushed; then the analysis, which may fail.
IntakeEvent(d) ==
  /\ at_[d] = "event"
  /\ Goes(d, "analyse")
  /\ UNCHANGED <<note, bridged, room, twin, rooms, notes, events, replies, replying, together>>

\* A webhook is answered too.
FaultyAfterward(d) == "stored"

\* Only a message of a bridge may be answered.
Afterward(d) == IF d \in bridged THEN "stored" ELSE "done"

IntakeCommit(d) ==
  /\ at_[d] = "analyse"
  /\ \/ /\ Save(d) /\ events' = events \cup {d}
        /\ Goes(d, Afterward(d))
     \/ Goes(d, "failed") /\ UNCHANGED <<rooms, notes, events>>
  /\ UNCHANGED <<note, bridged, room, twin, replies, replying, together>>

-----------------------------------------------------------------------------
\* The reply to a message of a bridge: none while another reply to the same session is
\* under way, or if the session has no reply, no agent or no bridge.
ReplyBegin(d) ==
  /\ at_[d] = "stored"
  /\ \/ /\ room[d] \notin replying
        /\ replying' = replying \cup {room[d]} /\ Goes(d, "think")
     \/ UNCHANGED replying /\ Goes(d, "done")
  /\ UNCHANGED <<note, bridged, room, twin, rooms, notes, events, replies, together>>

\* The agent's text is stored, or there is none.
ReplyStore(d) ==
  /\ at_[d] = "think"
  /\ \/ replies' = replies \cup {d} /\ Goes(d, "send") /\ UNCHANGED replying
     \/ UNCHANGED replies /\ Goes(d, "done") /\ replying' = replying \ {room[d]}
  /\ UNCHANGED <<note, bridged, room, twin, rooms, notes, events, together>>

\* It is sent, as in IMConnection.tla; whether that succeeds is only logged.
ReplySent(d) ==
  /\ at_[d] = "send"
  /\ Goes(d, "done") /\ replying' = replying \ {room[d]}
  /\ UNCHANGED <<note, bridged, room, twin, rooms, notes, events, replies, together>>

\* The process dies.  The other side may deliver again.
IntakeCrash ==
  /\ at_' = [d \in Deliveries |-> IF at_[d] \in {"none", "done"} THEN at_[d] ELSE "failed"]
  /\ replying' = {}
  /\ UNCHANGED <<note, bridged, room, twin, rooms, notes, events, replies, together>>

IntakeNext ==
  \/ \E d \in Deliveries : \/ \E n \in Notes : Receive(d, n)
                           \/ IntakeStore(d) \/ IntakeIndex(d) \/ IntakeEvent(d) \/ IntakeCommit(d)
                           \/ ReplyBegin(d) \/ ReplyStore(d) \/ ReplySent(d)
  \/ IntakeCrash

IntakeSpec == IntakeInit /\ [][IntakeNext]_intakeVars

-----------------------------------------------------------------------------
(* Properties.                                                             *)

\* A message that is indexed leads to one event, however often it is delivered and wherever
\* a delivery dies, unless two deliveries of it were processed at once.
EventOnce ==
  \A n \in Searchable \ together : Cardinality({d \in events : note[d] = n}) <= 1
=============================================================================
