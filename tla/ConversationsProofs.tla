------------------------- MODULE ConversationsProofs -------------------------
(***************************************************************************)
(* Proofs about the connections of the IM gateway, a user's files, the     *)
(* searches in messages and knowledge, the fusion of ranks both searches   *)
(* rest on, the replies of chats, the conversations that imports make, and *)
(* all of these together.                                                  *)
(***************************************************************************)
EXTENDS MCConversations, SequenceTheorems, FiniteSetTheorems, NaturalsInduction,
        WellFoundedInduction, TLAPS

---------------------------------------------------------------------------
(* The gateway.  IInv is an inductive invariant of IMConnection for every  *)
(* choice of the users, sources, sockets and calls; the safety properties  *)
(* follow.  HandlersConsistent is what makes the rest inductive: it says   *)
(* who holds the lock and that a socket is never connected twice for one   *)
(* source, so that the connection being replaced is always another         *)
(* handler's.                                                              *)

USE NamesAssumption DEF IInv, managerVars, handlerVars, callVars, vars

\* The process starts with no connection and no call.
LEMMA InitInv == Init => IInv
  BY DEF Init, TypeOK, HandlersConsistent, CallTablesConsistent, InFlight, Key,
     RegistrationHasHandler, PendingHasHandler, ReplacingHoldsEntry, Answers, Outcomes

\* What disconnect() does to the manager keeps the tables consistent and strands no
\* call: a call it leaves pending belongs to a key it does not touch.
LEMMA DisconnectKeeps ==
  ASSUME IInv, NEW w \in Sockets, NEW S \in SUBSET Sources,
         DisconnectAll(w, S), UNCHANGED <<user, call, via>>
  PROVE  CallTablesConsistent' /\ RegistrationHasHandler' /\ PendingHasHandler'
<1> DEFINE keys == {KeyOf(w, s) : s \in S}
           failed == UNION {OwnedBy(k) : k \in keys}
<1>1. \A r \in Requests : r \in failed <=> owner[r] \in keys
  BY DEF OwnedBy
<1>2. /\ pending' = pending \ failed
      /\ \A r \in Requests : owner'[r] = IF r \in failed THEN NoKey ELSE owner[r]
      /\ \A r \in Requests :
           future'[r] = IF r \in failed /\ Resolvable(r) THEN "broken" ELSE future[r]
      /\ \A k \in Key : connections'[k] = IF k \in keys THEN NoSocket ELSE connections[k]
      /\ \A v \in Sockets : registered'[v] = IF v = w THEN registered[v] \ S ELSE registered[v]
  BY DEF DisconnectAll, TypeOK
<1> HIDE DEF keys, failed
<1>3. CallTablesConsistent'
  BY <1>1, <1>2 DEF CallTablesConsistent, InFlight, Resolvable, TypeOK
<1>4. RegistrationHasHandler'
  <2> SUFFICES ASSUME NEW u \in Users, NEW s \in Sources, connections'[<<u, s>>] # NoSocket
               PROVE  LET v == connections'[<<u, s>>] IN user[v] = u /\ s \in registered'[v]
    BY DEF RegistrationHasHandler
  <2> DEFINE v == connections[<<u, s>>]
  <2>1. <<u, s>> \in Key /\ <<u, s>> \notin keys /\ connections'[<<u, s>>] = v
    BY <1>2 DEF Key
  <2>2. v \in Sockets /\ user[v] = u /\ s \in registered[v]
    BY <2>1 DEF RegistrationHasHandler, TypeOK
  <2>3. v = w => s \notin S
    BY <2>1, <2>2 DEF keys, KeyOf
  <2> QED
    BY <1>2, <2>1, <2>2, <2>3
<1>5. PendingHasHandler'
  <2> SUFFICES ASSUME NEW r \in pending'
               PROVE  \E s \in Sources :
                        /\ via[r] \in Sockets
                        /\ owner'[r] = KeyOf(via[r], s)
                        /\ s \in registered'[via[r]]
                        /\ connections'[owner'[r]] # NoSocket
    BY DEF PendingHasHandler, KeyOf
  <2>1. r \in Requests /\ r \in pending /\ owner[r] \notin keys /\ owner'[r] = owner[r]
    BY <1>1, <1>2 DEF TypeOK
  <2>2. PICK s \in Sources : /\ via[r] \in Sockets
                             /\ owner[r] = KeyOf(via[r], s)
                             /\ s \in registered[via[r]]
                             /\ connections[owner[r]] # NoSocket
    BY <2>1 DEF PendingHasHandler
  <2>3. via[r] = w => s \notin S
    BY <2>1, <2>2 DEF keys, KeyOf
  <2>4. owner[r] \in Key
    BY <2>1 DEF CallTablesConsistent, TypeOK
  <2>5. s \in registered'[via[r]] /\ connections'[owner[r]] # NoSocket
    BY <1>2, <2>1, <2>2, <2>3, <2>4
  <2> QED
    BY <2>1, <2>2, <2>5
<1> QED
  BY <1>3, <1>4, <1>5

\* No step of a handler or of a call breaks the invariant.
LEMMA StepInv == IInv /\ [Next]_vars => IInv'
<1> SUFFICES ASSUME IInv, [Next]_vars PROVE IInv'
  OBVIOUS
<1>1. ASSUME NEW w \in Sockets, Refuse(w)
      PROVE  IInv'
  <2>1. TypeOK'
    BY <1>1 DEF Refuse, TypeOK, Key, Answers, Outcomes
  <2>2. HandlersConsistent'
    BY <1>1 DEF Refuse, HandlersConsistent, TypeOK
  <2>3. CallTablesConsistent' /\ RegistrationHasHandler' /\ PendingHasHandler' /\ ReplacingHoldsEntry'
    BY <1>1 DEF Refuse, CallTablesConsistent, RegistrationHasHandler, PendingHasHandler, ReplacingHoldsEntry, InFlight, KeyOf
  <2> QED
    BY <2>1, <2>2, <2>3
<1>2. ASSUME NEW w \in Sockets, NEW u \in Users, NEW fixed \in FixedSources, Accept(w, u, fixed)
      PROVE  IInv'
  <2>1. TypeOK' /\ HandlersConsistent'
    BY <1>2 DEF Accept, FixedSources, TypeOK, HandlersConsistent
  <2>2. RegistrationHasHandler' /\ PendingHasHandler' /\ CallTablesConsistent'
    BY <1>2 DEF Accept, HandlersConsistent, RegistrationHasHandler, PendingHasHandler,
       CallTablesConsistent, InFlight, TypeOK, Key, KeyOf
  <2>3. ReplacingHoldsEntry'
    <3> SUFFICES ASSUME NEW v \in Sockets, pc'[v] = "replacing"
                 PROVE  /\ lock' = v
                        /\ LET old == connections'[KeyOf(v, target[v])']
                           IN  old \in Sockets \ {v} /\ ~ open'[old]
      BY <1>2 DEF Accept, ReplacingHoldsEntry, KeyOf
    <3> DEFINE old == connections[KeyOf(v, target[v])]
    <3>1. v # w /\ pc[v] = "replacing" /\ KeyOf(v, target[v])' = KeyOf(v, target[v])
      BY <1>2 DEF Accept, TypeOK, KeyOf
    <3>2. lock = v /\ old \in Sockets \ {v} /\ ~ open[old]
      BY <3>1 DEF ReplacingHoldsEntry
    <3>3. user[v] \in Users /\ target[v] \in Sources
      BY <3>1 DEF HandlersConsistent, TypeOK
    <3>4. target[v] \in registered[old]
      BY <3>2, <3>3 DEF RegistrationHasHandler, KeyOf
    <3>5. old # w
      BY <1>2, <3>4 DEF Accept, HandlersConsistent
    <3> QED
      BY <1>2, <3>1, <3>2, <3>5 DEF Accept, TypeOK
  <2> QED
    BY <2>1, <2>2, <2>3
<1>3. ASSUME NEW w \in Sockets, NEW S \in SUBSET Sources, Register(w, S)
      PROVE  IInv'
  <2>1. TypeOK'
    BY <1>3 DEF Register, TypeOK, Key, Answers, Outcomes
  <2>2. HandlersConsistent'
    BY <1>3 DEF Register, HandlersConsistent, TypeOK
  <2>3. ReplacingHoldsEntry'
    BY <1>3 DEF Register, ReplacingHoldsEntry, HandlersConsistent, TypeOK, Key, KeyOf
  <2>4. CallTablesConsistent' /\ RegistrationHasHandler' /\ PendingHasHandler'
    BY <1>3 DEF Register, CallTablesConsistent, RegistrationHasHandler, PendingHasHandler, InFlight, KeyOf
  <2> QED
    BY <2>1, <2>2, <2>3, <2>4
<1>4. ASSUME NEW w \in Sockets, NEW s \in Sources, Connect(w, s)
      PROVE  IInv'
  <2>1. TypeOK'
    BY <1>4 DEF Connect, LockFree, TypeOK, Key, Answers, Outcomes
  <2>2. HandlersConsistent'
    BY <1>4 DEF Connect, LockFree, HandlersConsistent, TypeOK
  <2>3. RegistrationHasHandler'
    BY <1>4 DEF Connect, LockFree, RegistrationHasHandler, HandlersConsistent, TypeOK, Key, KeyOf
  <2>4. PendingHasHandler'
    BY <1>4 DEF Connect, LockFree, PendingHasHandler, RegistrationHasHandler, HandlersConsistent, TypeOK, Key, KeyOf
  <2>5. ReplacingHoldsEntry'
    BY <1>4 DEF Connect, LockFree, ReplacingHoldsEntry, HandlersConsistent, TypeOK, Key, KeyOf
  <2>6. CallTablesConsistent'
    BY <1>4 DEF Connect, CallTablesConsistent, InFlight, KeyOf
  <2> QED
    BY <2>1, <2>2, <2>3, <2>4, <2>5, <2>6
<1>5. ASSUME NEW w \in Sockets, NEW s \in Sources, CloseOld(w, s)
      PROVE  IInv'
  <2> DEFINE old == connections[KeyOf(w, s)]
  <2>1. TypeOK' /\ HandlersConsistent'
    BY <1>5 DEF CloseOld, LockFree, TypeOK, HandlersConsistent
  <2>2. old \in Sockets /\ s \in registered[old]
    BY <1>5 DEF CloseOld, RegistrationHasHandler, HandlersConsistent, TypeOK, Key, KeyOf
  <2>3. old # w
    BY <1>5, <2>2 DEF CloseOld, HandlersConsistent
  <2>4. ReplacingHoldsEntry'
    BY <1>5, <2>2, <2>3 DEF CloseOld, LockFree, ReplacingHoldsEntry, HandlersConsistent, TypeOK, KeyOf
  <2>5. CallTablesConsistent' /\ RegistrationHasHandler' /\ PendingHasHandler'
    BY <1>5 DEF CloseOld, CallTablesConsistent, InFlight, RegistrationHasHandler, PendingHasHandler, KeyOf
  <2> QED
    BY <2>1, <2>4, <2>5
<1>6. ASSUME NEW w \in Sockets, Replace(w)
      PROVE  IInv'
  <2>1. TypeOK'
    BY <1>6 DEF Replace, TypeOK, Key, Answers, Outcomes, HandlersConsistent, KeyOf
  <2>2. HandlersConsistent'
    BY <1>6 DEF Replace, HandlersConsistent, TypeOK
  <2>3. RegistrationHasHandler'
    BY <1>6 DEF Replace, RegistrationHasHandler, HandlersConsistent, TypeOK, Key, KeyOf
  <2>4. PendingHasHandler'
    BY <1>6 DEF Replace, PendingHasHandler, RegistrationHasHandler, HandlersConsistent, TypeOK, Key, KeyOf
  <2>5. ReplacingHoldsEntry'
    BY <1>6 DEF Replace, ReplacingHoldsEntry, HandlersConsistent, TypeOK, Key, KeyOf
  <2>6. CallTablesConsistent'
    BY <1>6 DEF Replace, CallTablesConsistent, InFlight, KeyOf
  <2> QED
    BY <2>1, <2>2, <2>3, <2>4, <2>5, <2>6
<1>7. ASSUME NEW w \in Sockets, NEW r \in Requests, NEW a \in Answers, Resolve(w, r, a)
      PROVE  IInv'
  <2>1. TypeOK'
    BY <1>7 DEF Resolve, Resolvable, TypeOK, Key, Answers, Outcomes
  <2>2. CallTablesConsistent'
    BY <1>7 DEF Resolve, Resolvable, CallTablesConsistent, InFlight, Answers, Outcomes, TypeOK
  <2>3. HandlersConsistent' /\ RegistrationHasHandler' /\ PendingHasHandler' /\ ReplacingHoldsEntry'
    BY <1>7 DEF Resolve, HandlersConsistent, RegistrationHasHandler, PendingHasHandler, ReplacingHoldsEntry, KeyOf
  <2> QED
    BY <2>1, <2>2, <2>3
<1>8. ASSUME NEW w \in Sockets, LeaveLoop(w)
      PROVE  IInv'
  <2>1. HandlersConsistent'
    BY <1>8 DEF LeaveLoop, DisconnectAll, LockFree, HandlersConsistent, TypeOK
  <2>2. DisconnectAll(w, registered[w]) /\ UNCHANGED <<user, call, via>>
    BY <1>8 DEF LeaveLoop
  <2>3. /\ CallTablesConsistent'
        /\ RegistrationHasHandler'
        /\ PendingHasHandler'
    BY <2>2, DisconnectKeeps DEF TypeOK
  <2>4. TypeOK'
    BY <1>8 DEF LeaveLoop, DisconnectAll, TypeOK, Answers, Outcomes, Key, OwnedBy
  <2>5. ReplacingHoldsEntry'
    <3>1. CASE LockFree
      BY <1>8, <3>1 DEF LeaveLoop, LockFree, ReplacingHoldsEntry, HandlersConsistent, TypeOK
    <3>2. CASE registered[w] = {}
      <4>1. connections' = connections
        BY <1>8, <3>2 DEF LeaveLoop, DisconnectAll, TypeOK
      <4> QED
        BY <1>8, <4>1 DEF LeaveLoop, ReplacingHoldsEntry, TypeOK, KeyOf
    <3> QED
      BY <1>8, <3>1, <3>2 DEF LeaveLoop
  <2> QED
    BY <2>1, <2>3, <2>4, <2>5
<1>9. ASSUME NEW w \in Sockets, LeaveLoopAndWait(w)
      PROVE  IInv'
  <2>1. TypeOK'
    BY <1>9 DEF LeaveLoopAndWait, LockFree, TypeOK, Key, Answers, Outcomes
  <2>2. HandlersConsistent'
    BY <1>9 DEF LeaveLoopAndWait, LockFree, HandlersConsistent, TypeOK
  <2>3. CallTablesConsistent' /\ RegistrationHasHandler' /\ PendingHasHandler' /\ ReplacingHoldsEntry'
    BY <1>9 DEF LeaveLoopAndWait, CallTablesConsistent, RegistrationHasHandler, PendingHasHandler, ReplacingHoldsEntry, InFlight, KeyOf
  <2> QED
    BY <2>1, <2>2, <2>3
<1>10. ASSUME NEW w \in Sockets, NEW s \in Sources, Disconnect(w, s)
      PROVE  IInv'
  <2>1. HandlersConsistent'
    BY <1>10 DEF Disconnect, DisconnectAll, LockFree, HandlersConsistent, TypeOK
  <2>2. DisconnectAll(w, {s}) /\ UNCHANGED <<user, call, via>>
    BY <1>10 DEF Disconnect
  <2>3. /\ CallTablesConsistent'
        /\ RegistrationHasHandler'
        /\ PendingHasHandler'
    BY <2>2, DisconnectKeeps DEF TypeOK
  <2>4. TypeOK'
    BY <1>10 DEF Disconnect, DisconnectAll, TypeOK, Answers, Outcomes, Key, OwnedBy
  <2>5. ReplacingHoldsEntry'
    BY <1>10 DEF Disconnect, DisconnectAll, LockFree, ReplacingHoldsEntry, HandlersConsistent, TypeOK
  <2> QED
    BY <2>1, <2>3, <2>4, <2>5
<1>11. ASSUME NEW w \in Sockets, PeerClose(w)
      PROVE  IInv'
  <2>1. TypeOK'
    BY <1>11 DEF PeerClose, TypeOK, Key, Answers, Outcomes
  <2>2. ReplacingHoldsEntry'
    BY <1>11 DEF PeerClose, ReplacingHoldsEntry, HandlersConsistent, TypeOK, Key, KeyOf
  <2>3. HandlersConsistent' /\ CallTablesConsistent' /\ RegistrationHasHandler' /\ PendingHasHandler'
    BY <1>11 DEF PeerClose, HandlersConsistent, CallTablesConsistent, RegistrationHasHandler, PendingHasHandler, InFlight, KeyOf
  <2> QED
    BY <2>1, <2>2, <2>3
<1>12. ASSUME NEW r \in Requests, NEW k \in Key, Reject(r, k)
      PROVE  IInv'
  <2>1. TypeOK'
    BY <1>12 DEF Reject, TypeOK, Key, Answers, Outcomes
  <2>2. CallTablesConsistent'
    BY <1>12 DEF Reject, CallTablesConsistent, InFlight, Answers, Outcomes, TypeOK
  <2>3. HandlersConsistent' /\ RegistrationHasHandler' /\ PendingHasHandler' /\ ReplacingHoldsEntry'
    BY <1>12 DEF Reject, HandlersConsistent, RegistrationHasHandler, PendingHasHandler, ReplacingHoldsEntry, KeyOf
  <2> QED
    BY <2>1, <2>2, <2>3
<1>13. ASSUME NEW r \in Requests, NEW k \in Key, Begin(r, k)
      PROVE  IInv'
  <2>1. TypeOK'
    BY <1>13 DEF Begin, TypeOK, Key, Answers, Outcomes
  <2>2. CallTablesConsistent'
    BY <1>13 DEF Begin, CallTablesConsistent, InFlight, Answers, Outcomes, TypeOK, PendingHasHandler
  <2>3. PendingHasHandler'
    BY <1>13 DEF Begin, PendingHasHandler, RegistrationHasHandler, HandlersConsistent, TypeOK, Key, KeyOf, CallTablesConsistent, InFlight
  <2>4. HandlersConsistent' /\ RegistrationHasHandler' /\ ReplacingHoldsEntry'
    BY <1>13 DEF Begin, HandlersConsistent, RegistrationHasHandler, ReplacingHoldsEntry, KeyOf
  <2> QED
    BY <2>1, <2>2, <2>3, <2>4
<1>14. ASSUME NEW r \in Requests, Sent(r)
      PROVE  IInv'
  <2>1. TypeOK'
    BY <1>14 DEF Sent, TypeOK, Key, Answers, Outcomes
  <2>2. CallTablesConsistent'
    BY <1>14 DEF Sent, CallTablesConsistent, InFlight, Answers, Outcomes, TypeOK
  <2>3. HandlersConsistent' /\ RegistrationHasHandler' /\ PendingHasHandler' /\ ReplacingHoldsEntry'
    BY <1>14 DEF Sent, HandlersConsistent, RegistrationHasHandler, PendingHasHandler, ReplacingHoldsEntry, KeyOf
  <2> QED
    BY <2>1, <2>2, <2>3
<1>15. ASSUME NEW r \in Requests, SendFails(r)
      PROVE  IInv'
  <2>1. TypeOK'
    BY <1>15 DEF SendFails, Return, TypeOK, Key, Answers, Outcomes
  <2>2. CallTablesConsistent'
    BY <1>15 DEF SendFails, Return, CallTablesConsistent, InFlight, Answers, Outcomes, TypeOK
  <2>3. PendingHasHandler'
    BY <1>15 DEF SendFails, Return, PendingHasHandler, RegistrationHasHandler, HandlersConsistent, TypeOK, Key, KeyOf, CallTablesConsistent, InFlight
  <2>4. HandlersConsistent' /\ RegistrationHasHandler' /\ ReplacingHoldsEntry'
    BY <1>15 DEF SendFails, Return, HandlersConsistent, RegistrationHasHandler, ReplacingHoldsEntry, KeyOf
  <2> QED
    BY <2>1, <2>2, <2>3, <2>4
<1>16. ASSUME NEW r \in Requests, Awake(r)
      PROVE  IInv'
  <2>1. TypeOK'
    BY <1>16 DEF Awake, Return, TypeOK, Key, Answers, Outcomes, CallTablesConsistent
  <2>2. CallTablesConsistent'
    BY <1>16 DEF Awake, Return, CallTablesConsistent, InFlight, Answers, Outcomes, TypeOK
  <2>3. PendingHasHandler'
    BY <1>16 DEF Awake, Return, PendingHasHandler, RegistrationHasHandler, HandlersConsistent, TypeOK, Key, KeyOf, CallTablesConsistent, InFlight
  <2>4. HandlersConsistent' /\ RegistrationHasHandler' /\ ReplacingHoldsEntry'
    BY <1>16 DEF Awake, Return, HandlersConsistent, RegistrationHasHandler, ReplacingHoldsEntry, KeyOf
  <2> QED
    BY <2>1, <2>2, <2>3, <2>4
<1>17. ASSUME NEW r \in Requests, TimeOut(r)
      PROVE  IInv'
  <2>1. TypeOK'
    BY <1>17 DEF TimeOut, Return, TypeOK, Key, Answers, Outcomes
  <2>2. CallTablesConsistent'
    BY <1>17 DEF TimeOut, Return, CallTablesConsistent, InFlight, Answers, Outcomes, TypeOK
  <2>3. PendingHasHandler'
    BY <1>17 DEF TimeOut, Return, PendingHasHandler, RegistrationHasHandler, HandlersConsistent, TypeOK, Key, KeyOf, CallTablesConsistent, InFlight
  <2>4. HandlersConsistent' /\ RegistrationHasHandler' /\ ReplacingHoldsEntry'
    BY <1>17 DEF TimeOut, Return, HandlersConsistent, RegistrationHasHandler, ReplacingHoldsEntry, KeyOf
  <2> QED
    BY <2>1, <2>2, <2>3, <2>4
<1>18. CASE UNCHANGED vars
  BY <1>18 DEF TypeOK, HandlersConsistent, CallTablesConsistent, InFlight,
     RegistrationHasHandler, PendingHasHandler, ReplacingHoldsEntry, KeyOf
<1> HIDE DEF IInv
<1> QED
  BY <1>1, <1>2, <1>3, <1>4, <1>5, <1>6, <1>7, <1>8, <1>9, <1>10, <1>11, <1>12, <1>13, <1>14, <1>15, <1>16, <1>17, <1>18
     DEF Next, Handler, Caller

\* Every variable keeps its type.
THEOREM TypeCorrect == Spec => []TypeOK
<1>1. IInv => TypeOK
  OBVIOUS
<1> QED
  BY <1>1, InitInv, StepInv, PTL DEF Spec

\* The request tables stay consistent with the calls in flight.
THEOREM TablesConsistent == Spec => []CallTablesConsistent
<1>1. IInv => CallTablesConsistent
  OBVIOUS
<1> QED
  BY <1>1, InitInv, StepInv, PTL DEF Spec

\* No pending call outlives the handler of the socket it was sent over.
THEOREM NoStrandedCall == Spec => []PendingHasHandler
<1>1. IInv => PendingHasHandler
  OBVIOUS
<1> QED
  BY <1>1, InitInv, StepInv, PTL DEF Spec

\* No entry of _connections outlives the handler that made it.
THEOREM NoGhostConnection == Spec => []RegistrationHasHandler
<1>1. IInv => RegistrationHasHandler
  OBVIOUS
<1> QED
  BY <1>1, InitInv, StepInv, PTL DEF Spec

\* The lock keeps the entry under replacement in place, and it is a closed socket's.
THEOREM ReplacementIsExclusive == Spec => []ReplacingHoldsEntry
<1>1. IInv => ReplacingHoldsEntry
  OBVIOUS
<1> QED
  BY <1>1, InitInv, StepInv, PTL DEF Spec

\* A Future is completed once: results, disconnections and timeouts do not overwrite
\* each other.  Only four kinds of step write a Future, all on one that is not done.
THEOREM FuturesSettleOnce == Spec => FutureSettledOnce
<1>1. IInv /\ [Next]_vars => [SettledStays]_vars
  <2> SUFFICES ASSUME IInv, Next PROVE SettledStays
    OBVIOUS
  <2> USE DEF SettledStays, TypeOK
  <2>1. ASSUME NEW w \in Sockets, NEW r \in Requests, NEW a \in Answers, Resolve(w, r, a)
        PROVE  SettledStays
    BY <2>1 DEF Resolve, Resolvable
  <2>2. ASSUME NEW w \in Sockets, NEW S \in SUBSET Sources, DisconnectAll(w, S)
        PROVE  SettledStays
    BY <2>2 DEF DisconnectAll, Resolvable
  <2>3. ASSUME NEW r \in Requests, NEW k \in Key, Begin(r, k)
        PROVE  SettledStays
    BY <2>3 DEF Begin, CallTablesConsistent
  <2>4. ASSUME NEW r \in Requests, TimeOut(r)
        PROVE  SettledStays
    BY <2>4 DEF TimeOut
  <2>5. CASE UNCHANGED future
    BY <2>5
  <2>6. ASSUME NEW w \in Sockets, Handler(w)
        PROVE  SettledStays
    BY <2>1, <2>2, <2>5, <2>6 DEF Handler, Refuse, Accept, Register, Connect, CloseOld,
       Replace, LeaveLoop, LeaveLoopAndWait, Disconnect, PeerClose
  <2>7. ASSUME NEW r \in Requests, Caller(r)
        PROVE  SettledStays
    BY <2>3, <2>4, <2>5, <2>7 DEF Caller, Reject, Sent, SendFails, Awake
  <2> QED
    BY <2>6, <2>7 DEF Next
<1> QED
  BY <1>1, InitInv, StepInv, PTL DEF Spec, FutureSettledOnce

HIDE NamesAssumption DEF IInv, managerVars, handlerVars, callVars, vars

---------------------------------------------------------------------------
(* Files. *)

\* Paths are sequences of names.
LEMMA PathsAre ==
  \A p : p \in FilePaths <=> p \in Seq(Names) /\ Len(p) \in 1..MaxDepth
<1>1. ASSUME NEW p \in FilePaths
      PROVE  p \in Seq(Names) /\ Len(p) \in 1..MaxDepth
  <2>1. PICK n \in 1..MaxDepth : p \in [1..n -> Names]
    BY <1>1 DEF FilePaths
  <2> QED
    BY <2>1, FilesAssumption
<1>2. ASSUME NEW p \in Seq(Names), Len(p) \in 1..MaxDepth
      PROVE  p \in FilePaths
  <2>1. p \in [1..Len(p) -> Names]
    BY <1>2
  <2> QED
    BY <1>2, <2>1 DEF FilePaths
<1> QED
  BY <1>1, <1>2

\* A path is below a folder when it begins with the folder's names.
LEMMA BelowIs ==
  ASSUME NEW p \in FilePaths, NEW q \in FilePaths
  PROVE  Below(p, q) <=> Len(q) <= Len(p) /\ \A i \in 1..Len(q) : q[i] = p[i]
<1>1. p \in Seq(Names) /\ q \in Seq(Names) /\ Len(p) \in Nat /\ Len(q) \in Nat /\ Len(q) >= 1
  BY PathsAre, FilesAssumption
<1>2. SubSeq(q, 1, Len(q)) = q
  BY <1>1
<1>3. ASSUME Len(q) <= Len(p)
      PROVE  SubSeq(p, 1, Len(q)) = [i \in 1..Len(q) |-> p[i]]
  BY <1>1, <1>3
<1>4. q = [i \in 1..Len(q) |-> q[i]]
  BY <1>1
<1> QED
  BY <1>1, <1>2, <1>3, <1>4 DEF Below, IsPrefix

\* What stands for a path below the source begins with the destination and goes on as the
\* path does.
LEMMA RebaseIs ==
  ASSUME NEW p \in FilePaths, NEW s \in FilePaths, NEW d \in FilePaths, Below(p, s)
  PROVE  /\ Rebase(p, s, d) \in Seq(Names)
         /\ Len(Rebase(p, s, d)) = Len(d) + (Len(p) - Len(s))
         /\ \A i \in 1..Len(d) : Rebase(p, s, d)[i] = d[i]
         /\ \A i \in Len(s) + 1 .. Len(p) : Rebase(p, s, d)[Len(d) + (i - Len(s))] = p[i]
<1> DEFINE t == SubSeq(p, Len(s) + 1, Len(p))
<1>1. /\ p \in Seq(Names) /\ s \in Seq(Names) /\ d \in Seq(Names)
      /\ Len(p) \in Nat /\ Len(s) \in Nat /\ Len(d) \in Nat /\ Len(s) <= Len(p)
  BY PathsAre, BelowIs, FilesAssumption
<1>2. t \in Seq(Names) /\ Len(t) = Len(p) - Len(s) /\ \A i \in 1..(Len(p) - Len(s)) : t[i] = p[Len(s) + i]
  BY <1>1
<1>3. /\ d \o t \in Seq(Names) /\ Len(d \o t) = Len(d) + Len(t)
      /\ \A i \in 1..Len(d) : (d \o t)[i] = d[i]
      /\ \A i \in 1..Len(t) : (d \o t)[Len(d) + i] = t[i]
  BY <1>1, <1>2
<1>4. ASSUME NEW i \in Len(s) + 1 .. Len(p)
      PROVE  (d \o t)[Len(d) + (i - Len(s))] = p[i]
  <2>1. i - Len(s) \in 1..(Len(p) - Len(s)) /\ Len(s) + (i - Len(s)) = i
    BY <1>1
  <2> QED
    BY <1>1, <1>2, <1>3, <2>1
<1> QED
  BY <1>1, <1>2, <1>3, <1>4 DEF Rebase

\* What stands for a path is below the destination.
LEMMA RebaseBelow ==
  ASSUME NEW p \in FilePaths, NEW s \in FilePaths, NEW d \in FilePaths, Below(p, s),
         Rebase(p, s, d) \in FilePaths
  PROVE  Below(Rebase(p, s, d), d)
<1>1. Len(p) \in Nat /\ Len(s) \in Nat /\ Len(d) \in Nat /\ Len(s) <= Len(p)
  BY PathsAre, BelowIs, FilesAssumption
<1>2. Len(Rebase(p, s, d)) = Len(d) + (Len(p) - Len(s))
  BY RebaseIs
<1>3. \A i \in 1..Len(d) : d[i] = Rebase(p, s, d)[i]
  BY RebaseIs
<1>4. Len(d) <= Len(Rebase(p, s, d))
  BY <1>1, <1>2
<1> QED
  BY <1>3, <1>4, BelowIs

\* Different paths have different ones stand for them.
LEMMA RebaseInjective ==
  ASSUME NEW p \in FilePaths, NEW q \in FilePaths, NEW s \in FilePaths, NEW d \in FilePaths,
         Below(p, s), Below(q, s), Rebase(p, s, d) = Rebase(q, s, d)
  PROVE  p = q
<1>1. /\ p \in Seq(Names) /\ q \in Seq(Names)
      /\ Len(p) \in Nat /\ Len(q) \in Nat /\ Len(s) \in Nat /\ Len(d) \in Nat
      /\ Len(s) <= Len(p) /\ Len(s) <= Len(q)
      /\ \A i \in 1..Len(s) : s[i] = p[i] /\ s[i] = q[i]
  BY PathsAre, BelowIs, FilesAssumption
<1>2. Len(p) = Len(q)
  BY <1>1, RebaseIs, SMTT(30)
<1>3. ASSUME NEW i \in 1..Len(p)
      PROVE  p[i] = q[i]
  <2>1. CASE i <= Len(s)
    BY <1>1, <2>1
  <2>2. CASE i > Len(s)
    <3>1. i \in Len(s) + 1 .. Len(p) /\ i \in Len(s) + 1 .. Len(q)
      BY <1>1, <1>2, <2>2
    <3>2. Rebase(p, s, d)[Len(d) + (i - Len(s))] = p[i]
      BY <3>1, RebaseIs
    <3>3. Rebase(q, s, d)[Len(d) + (i - Len(s))] = q[i]
      BY <3>1, RebaseIs, ZenonT(30)
    <3> QED
      BY <3>2, <3>3
  <2> QED
    BY <1>1, <2>1, <2>2
<1> QED
  BY <1>1, <1>2, <1>3

\* Folders with a path below both overlap.
LEMMA BelowBoth ==
  ASSUME NEW p \in FilePaths, NEW a \in FilePaths, NEW b \in FilePaths, Below(p, a), Below(p, b)
  PROVE  Overlap(a, b)
<1>1. /\ Len(p) \in Nat /\ Len(a) \in Nat /\ Len(b) \in Nat
      /\ Len(a) <= Len(p) /\ Len(b) <= Len(p)
      /\ \A i \in 1..Len(a) : a[i] = p[i]
      /\ \A i \in 1..Len(b) : b[i] = p[i]
  BY PathsAre, BelowIs, FilesAssumption
<1>2. CASE Len(a) <= Len(b)
  <2>1. Below(b, a)
    BY <1>1, <1>2, BelowIs
  <2> QED
    BY <2>1 DEF Below, Overlap
<1>3. CASE Len(b) <= Len(a)
  <2>1. Below(a, b)
    BY <1>1, <1>3, BelowIs
  <2> QED
    BY <2>1 DEF Below, Overlap
<1> QED
  BY <1>1, <1>2, <1>3

---------------------------------------------------------------------------
\* What a path may hold, and what a request may be doing.
Contents == {NoFile} \cup [dir : BOOLEAN, by : FilePaths \cup Calls \cup {Mount}]
PutType == [op : {"write", "create", "mkdir"}, path : FilePaths]
DeleteType == [op : {"delete"}, path : FilePaths, todo : SUBSET FilePaths]
ListType == [op : {"list"}, todo : SUBSET FilePaths]
FoundType == [path : FilePaths, value : Contents]
MoveType ==
  [op : {"move"}, path : FilePaths, dest : FilePaths, found : SUBSET FoundType,
   todo : SUBSET FilePaths, copied : SUBSET FilePaths, alone : BOOLEAN]
AccessTypeOK ==
  /\ fileStore \in [FilePaths -> Contents]
  /\ DOMAIN access = Calls
  /\ \A r \in Calls :
       access[r] \in {Waiting, Answered} \cup PutType \cup DeleteType \cup ListType \cup MoveType

\* What a move k has found is below its source, each path once, and what is left to do is
\* part of it.
MoveKnows(k) ==
  /\ \A i \in k.found : Below(i.path, k.path) /\ Rebase(i.path, k.path, k.dest) \in FilePaths
  /\ \A i, j \in k.found : i.path = j.path => i = j
  /\ \A p \in k.todo : \E i \in k.found : i.path = p
  /\ k.copied = {} \/ \E p \in k.todo : k.copied = {p}
  /\ k.alone => ~Overlap(k.path, k.dest)

\* Where what a move has found is.
MoveKeeps(k, store) ==
  \A i \in k.found :
    LET new == Rebase(i.path, k.path, k.dest)
    IN IF i.path \in k.todo
       THEN store[i.path] = i.value /\ (i.path \in k.copied => store[new] = i.value)
       ELSE store[i.path] = NoFile /\ store[new] = i.value

FilesInv ==
  /\ AccessTypeOK
  /\ \A r \in Calls : access[r].op = "move" => MoveKnows(access[r])
  /\ MoveLosesNothing

\* A change of one path leaves a move that stays alone what it has found.
LEMMA ElsewhereKept ==
  ASSUME NEW k \in MoveType, MoveKnows(k), MoveKeeps(k, fileStore), AccessTypeOK,
         NEW p \in FilePaths, NEW v, fileStore' = [fileStore EXCEPT ![p] = v],
         ~Below(p, k.path), ~Below(p, k.dest)
  PROVE  MoveKeeps(k, fileStore')
<1> SUFFICES ASSUME NEW i \in k.found
             PROVE  /\ fileStore'[i.path] = fileStore[i.path]
                    /\ fileStore'[Rebase(i.path, k.path, k.dest)] = fileStore[Rebase(i.path, k.path, k.dest)]
  BY DEF MoveKeeps
<1>1. /\ i.path \in FilePaths /\ k.path \in FilePaths /\ k.dest \in FilePaths
      /\ Below(i.path, k.path) /\ Rebase(i.path, k.path, k.dest) \in FilePaths
  BY DEF MoveType, FoundType, MoveKnows
<1>2. Below(Rebase(i.path, k.path, k.dest), k.dest)
  BY <1>1, RebaseBelow
<1> QED
  BY <1>1, <1>2 DEF AccessTypeOK

\* What a request does when it changes a path.
LEMMA Changed ==
  ASSUME FilesInv, NEW r \in Calls, NEW p \in FilePaths, NEW v \in Contents, NEW next,
         Change(r, p, v, next),
         next \in {Waiting, Answered} \cup PutType \cup DeleteType \cup ListType \cup MoveType,
         next.op = "move" => MoveKnows(next) /\ (next.alone => MoveKeeps(next, fileStore'))
  PROVE  FilesInv'
<1>1. /\ fileStore' = [fileStore EXCEPT ![p] = v] /\ access'[r] = next /\ DOMAIN access' = Calls
      /\ fileStore' \in [FilePaths -> Contents]
  BY DEF Change, FilesInv, AccessTypeOK
<1>2. ASSUME NEW q \in Calls, q # r
      PROVE  /\ access'[q] \in {Waiting, Answered} \cup PutType \cup DeleteType \cup ListType \cup MoveType
             /\ access'[q].op = "move" =>
                  MoveKnows(access'[q]) /\ (access'[q].alone => MoveKeeps(access'[q], fileStore'))
  <2>1. CASE access[q].op = "move" /\ (Below(p, access[q].path) \/ Below(p, access[q].dest))
    <3>1. access[q] \in MoveType
      BY <2>1 DEF FilesInv, AccessTypeOK, Waiting, Answered, PutType, DeleteType, ListType
    <3>2. PICK k : k = access[q]
      OBVIOUS
    <3>3. PICK j : j = [k EXCEPT !.alone = FALSE]
      OBVIOUS
    <3>4. access'[q] = j
      BY <1>2, <2>1, <3>2, <3>3 DEF Change
    <3>5. /\ j \in MoveType /\ j.alone = FALSE /\ j.path = k.path /\ j.dest = k.dest
          /\ j.found = k.found /\ j.todo = k.todo /\ j.copied = k.copied
      BY <3>1, <3>2, <3>3 DEF MoveType
    <3>6. MoveKnows(k)
      BY <2>1, <3>2 DEF FilesInv
    <3>7. MoveKnows(j)
      BY <3>5, <3>6 DEF MoveKnows
    <3> QED
      BY <3>4, <3>5, <3>7
  <2>2. CASE ~(access[q].op = "move" /\ (Below(p, access[q].path) \/ Below(p, access[q].dest)))
    <3>1. access'[q] = access[q]
      BY <1>2, <2>2 DEF Change
    <3>2. access[q] \in {Waiting, Answered} \cup PutType \cup DeleteType \cup ListType \cup MoveType
      BY DEF FilesInv, AccessTypeOK
    <3>3. ASSUME access[q].op = "move"
          PROVE  MoveKnows(access[q]) /\ (access[q].alone => MoveKeeps(access[q], fileStore'))
      <4>1. access[q] \in MoveType
        BY <3>2, <3>3 DEF Waiting, Answered, PutType, DeleteType, ListType
      <4>2. MoveKnows(access[q]) /\ (access[q].alone => MoveKeeps(access[q], fileStore))
        BY <3>3 DEF FilesInv, MoveLosesNothing, MoveKeeps
      <4>3. PICK k : k = access[q]
        OBVIOUS
      <4>4. k.alone => MoveKeeps(k, fileStore')
        BY <1>1, <2>2, <3>3, <4>1, <4>2, <4>3, ElsewhereKept DEF FilesInv
      <4> QED
        BY <3>1, <4>2, <4>3, <4>4
    <3> QED
      BY <3>1, <3>2, <3>3
  <2> QED
    BY <2>1, <2>2
<1> QED
  BY <1>1, <1>2 DEF FilesInv, AccessTypeOK, MoveLosesNothing, MoveKeeps


---------------------------------------------------------------------------
\* At the start nothing is moved.
LEMMA FilesStart == FilesInit => FilesInv
<1> SUFFICES ASSUME FilesInit PROVE FilesInv
  OBVIOUS
<1>1. \A p \in FilePaths : Holding(FALSE, p) \in Contents /\ NoFile \in Contents
  BY DEF Holding, Contents
<1>2. AccessTypeOK
  BY <1>1 DEF FilesInit, AccessTypeOK
<1> QED
  BY <1>2 DEF FilesInit, FilesInv, MoveLosesNothing, Waiting

\* A request begins, or gives up.
LEMMA Begun ==
  ASSUME FilesInv, NEW r \in Calls, NEW next, access' = [access EXCEPT ![r] = next],
         UNCHANGED fileStore,
         next \in {Waiting, Answered} \cup PutType \cup DeleteType \cup ListType \cup MoveType,
         next.op = "move" => MoveKnows(next) /\ (next.alone => MoveKeeps(next, fileStore))
  PROVE  FilesInv'
<1>1. AccessTypeOK'
  BY DEF FilesInv, AccessTypeOK
<1>2. access'[r] = next /\ \A q \in Calls \ {r} : access'[q] = access[q]
  BY DEF FilesInv, AccessTypeOK
<1> QED
  BY <1>1, <1>2 DEF FilesInv, MoveLosesNothing, MoveKeeps

\* The calls that are no moves.
LEMMA OthersKept ==
  ASSUME FilesInv, NEW r \in Calls,
         LookUp(r) \/ Put(r) \/ DeleteLookUp(r) \/ DeleteOne(r) \/ ListFiles(r)
           \/ EnsureMounted(r) \/ StoreFails(r)
  PROVE  FilesInv'
<1>0. /\ access[r] \in {Waiting, Answered} \cup PutType \cup DeleteType \cup ListType \cup MoveType
      /\ Answered.op # "move" /\ NoFile \in Contents
  BY DEF FilesInv, AccessTypeOK, Answered, Contents
<1>1. CASE LookUp(r)
  <2>1. PICK p \in FilePaths, op \in {"write", "create", "mkdir"} :
          access' = [access EXCEPT ![r] = [op |-> op, path |-> p]] /\ UNCHANGED fileStore
    BY <1>1 DEF LookUp
  <2>2. PICK k : k = [op |-> op, path |-> p]
    OBVIOUS
  <2>3. k \in PutType /\ k.op # "move"
    BY <2>2 DEF PutType
  <2> QED
    BY <2>1, <2>2, <2>3, Begun
<1>2. CASE Put(r)
  <2>1. access[r] \in PutType
    BY <1>0, <1>2 DEF Put, Waiting, Answered, DeleteType, ListType, MoveType
  <2>2. access[r].path \in FilePaths /\ Holding(access[r].op = "mkdir", r) \in Contents
    BY <2>1 DEF PutType, Holding, Contents
  <2> QED
    BY <1>0, <1>2, <2>2, Changed DEF Put
<1>3. CASE DeleteLookUp(r)
  <2>0. PICK p \in FilePaths, recursive \in BOOLEAN :
          LET found == IF recursive THEN Held(p) ELSE Held(p) \cap {p}
          IN /\ access' = [access EXCEPT ![r] = [op |-> "delete", path |-> p, todo |-> found]]
             /\ UNCHANGED fileStore
    BY <1>3 DEF DeleteLookUp
  <2> DEFINE some == IF recursive THEN Held(p) ELSE Held(p) \cap {p}
  <2>1. PICK found : found = some
    OBVIOUS
  <2>4. found \in SUBSET FilePaths
    BY <2>1 DEF Held
  <2>2. PICK k : k = [op |-> "delete", path |-> p, todo |-> found]
    OBVIOUS
  <2>3. k \in DeleteType /\ k.op # "move"
    BY <2>2, <2>4 DEF DeleteType
  <2> QED
    BY <2>0, <2>1, <2>2, <2>3, Begun
<1>4. CASE DeleteOne(r)
  <2>1. access[r] \in DeleteType
    BY <1>0, <1>4 DEF DeleteOne, Waiting, Answered, PutType, ListType, MoveType
  <2>2. PICK k : k = access[r]
    OBVIOUS
  <2>3. PICK p \in k.todo :
          Change(r, p, NoFile, IF k.todo = {p} THEN Answered ELSE [k EXCEPT !.todo = @ \ {p}])
    BY <1>4, <2>2 DEF DeleteOne
  <2>4. PICK j : j = [k EXCEPT !.todo = @ \ {p}]
    OBVIOUS
  <2>5. j \in DeleteType /\ j.op # "move" /\ p \in FilePaths
    BY <2>1, <2>2, <2>4 DEF DeleteType
  <2>6. CASE k.todo = {p}
    BY <1>0, <2>3, <2>5, <2>6, Changed
  <2>7. CASE k.todo # {p}
    BY <1>0, <2>3, <2>4, <2>5, <2>7, Changed
  <2> QED
    BY <2>6, <2>7
<1>5. CASE ListFiles(r)
  <2>2. PICK k : k = [op |-> "list", todo |-> Mounts]
    OBVIOUS
  <2>3. k \in ListType /\ k.op # "move"
    BY <2>2, FilesAssumption DEF ListType
  <2> QED
    BY <1>5, <2>2, <2>3, Begun DEF ListFiles
<1>6. CASE EnsureMounted(r)
  <2>1. access[r] \in ListType
    BY <1>0, <1>6 DEF EnsureMounted, Waiting, Answered, PutType, DeleteType, MoveType
  <2>2. PICK k : k = access[r]
    OBVIOUS
  <2>3. PICK p \in k.todo :
          Change(r, p, Holding(FALSE, Mount), IF k.todo = {p} THEN Answered ELSE [k EXCEPT !.todo = @ \ {p}])
    BY <1>6, <2>2 DEF EnsureMounted
  <2>4. PICK j : j = [k EXCEPT !.todo = @ \ {p}]
    OBVIOUS
  <2>5. /\ j \in ListType /\ j.op # "move" /\ p \in FilePaths
        /\ Holding(FALSE, Mount) \in Contents
    BY <2>1, <2>2, <2>4 DEF ListType, Holding, Contents
  <2>6. CASE k.todo = {p}
    BY <1>0, <2>3, <2>5, <2>6, Changed
  <2>7. CASE k.todo # {p}
    BY <1>0, <2>3, <2>4, <2>5, <2>7, Changed
  <2> QED
    BY <2>6, <2>7
<1>7. CASE StoreFails(r)
  BY <1>0, <1>7, Begun DEF StoreFails
<1> QED
  BY <1>1, <1>2, <1>3, <1>4, <1>5, <1>6, <1>7

\* A move begins: all it has found is to be done.
LEMMA MoveBegun ==
  ASSUME FilesInv, NEW r \in Calls, MoveLookUp(r)
  PROVE  FilesInv'
<1>1. PICK s \in FilePaths, d \in FilePaths :
        /\ \A p \in Held(s) : Len(p) - Len(s) + Len(d) <= MaxDepth
        /\ access' = [access EXCEPT ![r] =
             [op |-> "move", path |-> s, dest |-> d,
              found |-> {[path |-> p, value |-> fileStore[p]] : p \in Held(s)},
              todo |-> Held(s), copied |-> {}, alone |-> ~Overlap(s, d)]]
        /\ UNCHANGED fileStore
  BY DEF MoveLookUp
<1>2. PICK alone : alone = ~Overlap(s, d)
  OBVIOUS
<1>3. PICK found : found = {[path |-> p, value |-> fileStore[p]] : p \in Held(s)}
  OBVIOUS
<1>4. PICK k : k = [op |-> "move", path |-> s, dest |-> d, found |-> found,
                    todo |-> Held(s), copied |-> {}, alone |-> alone]
  OBVIOUS
<1>5. Held(s) \subseteq FilePaths /\ \A p \in Held(s) : Below(p, s) /\ fileStore[p] \in Contents
  BY DEF Held, FilesInv, AccessTypeOK
<1>6. found \in SUBSET FoundType /\ alone \in BOOLEAN
  BY <1>2, <1>3, <1>5 DEF FoundType
<1>7. \A i \in found : i.path \in Held(s) /\ i.value = fileStore[i.path]
  BY <1>3
<1>8. \A p \in Held(s) : \E i \in found : i.path = p
  <2>1. ASSUME NEW p \in Held(s) PROVE \E i \in found : i.path = p
    <3>1. [path |-> p, value |-> fileStore[p]] \in found
      BY <1>3
    <3> QED
      BY <3>1
  <2> QED
    BY <2>1
<1>9. \A i, j \in found : i.path = j.path => i = j
  <2>1. ASSUME NEW i \in found, NEW j \in found, i.path = j.path
        PROVE  i = j
    BY <1>6, <1>7, <2>1 DEF FoundType
  <2> QED
    BY <2>1
<1>10. ASSUME NEW p \in Held(s)
       PROVE  Rebase(p, s, d) \in FilePaths
  <2>1. Len(p) \in Nat /\ Len(s) \in Nat /\ Len(d) \in Nat /\ Len(d) >= 1 /\ Len(s) <= Len(p)
    BY <1>5, PathsAre, BelowIs, FilesAssumption
  <2>2. Rebase(p, s, d) \in Seq(Names) /\ Len(Rebase(p, s, d)) = Len(d) + (Len(p) - Len(s))
    BY <1>5, RebaseIs
  <2>3. Len(Rebase(p, s, d)) \in 1..MaxDepth
    BY <1>1, <2>1, <2>2, FilesAssumption
  <2> QED
    BY <2>2, <2>3, PathsAre
<1>11. k \in MoveType
  BY <1>4, <1>5, <1>6 DEF MoveType
<1>12. MoveKnows(k)
  BY <1>2, <1>4, <1>5, <1>7, <1>8, <1>9, <1>10 DEF MoveKnows
<1>13. MoveKeeps(k, fileStore)
  BY <1>4, <1>7 DEF MoveKeeps
<1> QED
  BY <1>1, <1>2, <1>3, <1>4, <1>11, <1>12, <1>13, Begun

\* One path is written anew: it is none of those found, and it stands for no other of them.
LEMMA MoveCopied ==
  ASSUME FilesInv, NEW r \in Calls, MoveCopy(r)
  PROVE  FilesInv'
<1>1. PICK k : k = access[r]
  OBVIOUS
<1>2. k \in MoveType /\ MoveKnows(k) /\ k.copied = {} /\ (k.alone => MoveKeeps(k, fileStore))
  BY <1>1 DEF MoveCopy, FilesInv, AccessTypeOK, Waiting, Answered, PutType, DeleteType, ListType,
     MoveLosesNothing, MoveKeeps
<1>3. PICK i \in k.found :
        /\ i.path \in k.todo
        /\ Change(r, Rebase(i.path, k.path, k.dest), i.value, [k EXCEPT !.copied = {i.path}])
  BY <1>1 DEF MoveCopy
<1>4. PICK j : j = [k EXCEPT !.copied = {i.path}]
  OBVIOUS
<1>5. /\ \A h \in k.found : h.path \in FilePaths /\ h.value \in Contents
      /\ k.path \in FilePaths /\ k.dest \in FilePaths
      /\ \A h \in k.found : Below(h.path, k.path) /\ Rebase(h.path, k.path, k.dest) \in FilePaths
  BY <1>2 DEF MoveType, FoundType, MoveKnows
<1>6. /\ j \in MoveType /\ j.alone = k.alone /\ j.path = k.path /\ j.dest = k.dest
      /\ j.found = k.found /\ j.todo = k.todo /\ j.copied = {i.path}
  BY <1>2, <1>4, <1>5 DEF MoveType
<1>7. MoveKnows(j)
  BY <1>2, <1>3, <1>6 DEF MoveKnows
<1>8. PICK new : new = Rebase(i.path, k.path, k.dest)
  OBVIOUS
<1>9. fileStore' = [fileStore EXCEPT ![new] = i.value] /\ DOMAIN fileStore = FilePaths
  BY <1>3, <1>8 DEF Change, FilesInv, AccessTypeOK
<1>10. ASSUME j.alone
       PROVE  MoveKeeps(j, fileStore')
  <2>1. ASSUME NEW h \in k.found
        PROVE  h.path # new
    <3>1. Below(new, k.dest)
      BY <1>5, <1>8, RebaseBelow
    <3>2. ~Overlap(k.path, k.dest)
      BY <1>2, <1>6, <1>10 DEF MoveKnows
    <3> QED
      BY <1>5, <1>8, <3>1, <3>2, BelowBoth
  <2>2. ASSUME NEW h \in k.found, Rebase(h.path, k.path, k.dest) = new
        PROVE  h = i
    <3>1. h.path = i.path
      BY <1>5, <1>8, <2>2, RebaseInjective
    <3> QED
      BY <1>2, <3>1 DEF MoveKnows
  <2>3. MoveKeeps(k, fileStore)
    BY <1>2, <1>6, <1>10
  <2> SUFFICES ASSUME NEW h \in k.found
               PROVE  IF h.path \in k.todo
                      THEN /\ fileStore'[h.path] = h.value
                           /\ h.path = i.path => fileStore'[Rebase(h.path, k.path, k.dest)] = h.value
                      ELSE /\ fileStore'[h.path] = NoFile
                           /\ fileStore'[Rebase(h.path, k.path, k.dest)] = h.value
    BY <1>6 DEF MoveKeeps
  <2>4. fileStore'[h.path] = fileStore[h.path]
    BY <1>5, <1>9, <2>1
  <2>5. CASE h = i
    BY <1>3, <1>5, <1>8, <1>9, <2>3, <2>4, <2>5 DEF MoveKeeps
  <2>6. CASE h # i
    <3>1. h.path # i.path
      BY <1>2, <2>6 DEF MoveKnows
    <3>2. fileStore'[Rebase(h.path, k.path, k.dest)] = fileStore[Rebase(h.path, k.path, k.dest)]
      BY <1>5, <1>9, <2>2, <2>6
    <3> QED
      BY <2>3, <2>4, <3>1, <3>2 DEF MoveKeeps
  <2> QED
    BY <2>5, <2>6
<1> QED
  BY <1>3, <1>4, <1>5, <1>6, <1>7, <1>10, Changed

\* It is deleted where it was: what stands for it is elsewhere.
LEMMA MoveRemoved ==
  ASSUME FilesInv, NEW r \in Calls, MoveRemove(r)
  PROVE  FilesInv'
<1>1. PICK k : k = access[r]
  OBVIOUS
<1>2. k \in MoveType /\ MoveKnows(k) /\ (k.alone => MoveKeeps(k, fileStore))
  BY <1>1 DEF MoveRemove, FilesInv, AccessTypeOK, Waiting, Answered, PutType, DeleteType, ListType,
     MoveLosesNothing, MoveKeeps
<1>3. PICK p \in k.copied :
        Change(r, p, NoFile,
               IF k.todo = {p} THEN Answered ELSE [k EXCEPT !.todo = @ \ {p}, !.copied = {}])
  BY <1>1 DEF MoveRemove
<1>4. p \in k.todo /\ p \in FilePaths /\ NoFile \in Contents /\ Answered.op # "move"
  BY <1>2, <1>3 DEF MoveKnows, MoveType, Contents, Answered
<1>5. CASE k.todo = {p}
  BY <1>3, <1>4, <1>5, Changed
<1>6. CASE k.todo # {p}
  <2>1. PICK j : j = [k EXCEPT !.todo = @ \ {p}, !.copied = {}]
    OBVIOUS
  <2>2. /\ j \in MoveType /\ j.alone = k.alone /\ j.path = k.path /\ j.dest = k.dest
        /\ j.found = k.found /\ j.todo = k.todo \ {p} /\ j.copied = {}
    BY <1>2, <2>1 DEF MoveType
  <2>3. MoveKnows(j)
    BY <1>2, <2>2 DEF MoveKnows
  <2>4. /\ \A h \in k.found : h.path \in FilePaths
        /\ k.path \in FilePaths /\ k.dest \in FilePaths
        /\ \A h \in k.found : Below(h.path, k.path) /\ Rebase(h.path, k.path, k.dest) \in FilePaths
    BY <1>2 DEF MoveType, FoundType, MoveKnows
  <2>5. ASSUME j.alone
        PROVE  MoveKeeps(j, fileStore')
    <3>0. fileStore' = [fileStore EXCEPT ![p] = NoFile] /\ DOMAIN fileStore = FilePaths
      BY <1>3 DEF Change, FilesInv, AccessTypeOK
    <3>1. Below(p, k.path)
      BY <1>2, <1>4, <2>4 DEF MoveKnows
    <3>2. MoveKeeps(k, fileStore) /\ ~Overlap(k.path, k.dest)
      BY <1>2, <2>2, <2>5 DEF MoveKnows
    <3> SUFFICES ASSUME NEW h \in k.found
                 PROVE  IF h.path \in k.todo \ {p}
                        THEN fileStore'[h.path] = h.value
                        ELSE /\ fileStore'[h.path] = NoFile
                             /\ fileStore'[Rebase(h.path, k.path, k.dest)] = h.value
      BY <2>2 DEF MoveKeeps
    <3>3. Rebase(h.path, k.path, k.dest) # p
      <4>1. Below(Rebase(h.path, k.path, k.dest), k.dest)
        BY <2>4, RebaseBelow
      <4> QED
        BY <1>4, <2>4, <3>1, <3>2, <4>1, BelowBoth
    <3>4. fileStore'[Rebase(h.path, k.path, k.dest)] = fileStore[Rebase(h.path, k.path, k.dest)]
      BY <2>4, <3>0, <3>3
    <3>5. CASE h.path = p
      BY <1>3, <1>4, <3>0, <3>2, <3>4, <3>5 DEF MoveKeeps
    <3>6. CASE h.path # p
      BY <2>4, <3>0, <3>2, <3>4, <3>6 DEF MoveKeeps
    <3> QED
      BY <3>5, <3>6
  <2> QED
    BY <1>3, <1>4, <1>6, <2>1, <2>2, <2>3, <2>5, Changed
<1> QED
  BY <1>5, <1>6

\* Every step keeps the invariant.
LEMMA FilesKept == FilesInv /\ [FilesNext]_fileVars => FilesInv'
<1>1. ASSUME FilesInv, UNCHANGED fileVars PROVE FilesInv'
  BY <1>1 DEF fileVars, FilesInv, AccessTypeOK, MoveLosesNothing
<1>2. ASSUME FilesInv, FilesNext PROVE FilesInv'
  BY <1>2, OthersKept, MoveBegun, MoveCopied, MoveRemoved DEF FilesNext
<1> QED
  BY <1>1, <1>2

\* A move that nobody interferes with loses nothing, wherever it stops, for any folders, files and
\* numbers of requests (move_file of router/v1/filesystem.py).
THEOREM MovesAreSafe == FilesSpec => []MoveLosesNothing
<1>1. FilesInv => MoveLosesNothing
  BY DEF FilesInv
<1> QED
  BY <1>1, FilesStart, FilesKept, PTL DEF FilesSpec

\* The variables of the files keep their types.
THEOREM FilesTypeCorrect == FilesSpec => []FilesTypeOK
<1>1. FilesInv => FilesTypeOK
  BY DEF FilesInv, AccessTypeOK, FilesTypeOK, Contents, Waiting, Answered, PutType, DeleteType,
     ListType, MoveType
<1> QED
  BY <1>1, FilesStart, FilesKept, PTL DEF FilesSpec

---------------------------------------------------------------------------
(* The fusion of ranks. *)

\* A set of numbers that is not empty has a least one,
LEMMA LeastOf == ASSUME NEW T, T \subseteq Nat, T # {} PROVE \E x \in T : \A y \in T : x <= y
<1> DEFINE R == OpToRel(<, Nat)
<1>1. IsWellFoundedOn(R, Nat)
  BY NatLessThanWellFounded
<1>2. \A x, y \in Nat : x < y => <<x, y>> \in R
  BY DEF OpToRel
<1> HIDE DEF R
<1>3. PICK x \in T : \A y \in T : ~ (<<y, x>> \in R)
  BY <1>1, WFMin, ZenonT(30)
<1>4. x \in Nat /\ \A y \in T : y \in Nat /\ ~ (y < x)
  BY <1>2, <1>3
<1> QED
  BY <1>4

\* and if it is bounded a greatest one, without which the others have a lower bound.
LEMMA GreatestGone ==
  ASSUME NEW n \in Nat, n # 0, NEW s, s \subseteq 1..n, s # {}
  PROVE  Max(s) \in s /\ s \ {Max(s)} \subseteq 1..(n - 1)
<1> DEFINE D == {n - t : t \in s}
<1>1. D # {}
  OBVIOUS
<1>2. ASSUME NEW d \in D PROVE d \in Nat
  <2>1. PICK t \in s : d = n - t
    OBVIOUS
  <2>2. t \in 1..n
    OBVIOUS
  <2> QED
    BY <2>1, <2>2
<1>3. \A y \in s : n - y \in D /\ y \in 1..n
  OBVIOUS
<1>4. \A d \in D : \E x \in s : d = n - x
  OBVIOUS
<1> HIDE DEF D
<1>5. PICK d \in D : \A e \in D : d <= e
  BY <1>1, <1>2, LeastOf
<1>6. PICK x \in s : d = n - x
  BY <1>4
<1>7. \A y \in s : x >= y
  BY <1>3, <1>5, <1>6
<1>8. Max(s) \in s /\ \A y \in s : Max(s) >= y
  BY <1>7 DEF Max
<1>9. ASSUME NEW y \in s \ {Max(s)} PROVE y \in 1..(n - 1)
  <2>1. y \in 1..n /\ Max(s) \in 1..n /\ Max(s) >= y /\ y # Max(s)
    BY <1>8
  <2> QED
    BY <2>1
<1> QED
  BY <1>8, <1>9

\* The steps of the product.
LEMMA UnitSteps ==
  ASSUME NEW N \in Nat, NEW seq, DOMAIN seq = 1..N
  PROVE  \E v : /\ v[0] = 1
                /\ \A n \in 1..N : v[n] = v[n - 1] * (RRF_K + seq[n])
                /\ FoldLeft(LAMBDA u, i : u * (RRF_K + i), 1, seq) = v[N]
<1> DEFINE Body(f, s) == IF s = {} THEN 1 ELSE f[s \ {Max(s)}] * (RRF_K + seq[Max(s)])
           iter == CHOOSE f : f = [s \in SUBSET (1..N) |-> Body(f, s)]
<1>1. FoldLeft(LAMBDA u, i : u * (RRF_K + i), 1, seq) = iter[1..N]
  BY DEF FoldLeft, MapThenFoldSet
<1>2. \A n \in 0..N : \E f : f = [s \in SUBSET (1..n) |-> Body(f, s)]
  <2> DEFINE Is(n) == \E f : f = [s \in SUBSET (1..n) |-> Body(f, s)]
             T == {n \in 0..N : ~Is(n)}
  <2> SUFFICES ASSUME T # {} PROVE FALSE
    OBVIOUS
  <2> HIDE DEF Is
  <2>1. PICK n \in T : \A m \in T : n <= m
    <3>1. T \subseteq Nat
      OBVIOUS
    <3> HIDE DEF T
    <3> QED
      BY <3>1, LeastOf
  <2>4. n \in 0..N /\ ~Is(n) /\ \A m \in 0..N : m < n => Is(m)
    BY <2>1
  <2>2. CASE n = 0
    <3> DEFINE h == [s \in SUBSET (1..0) |-> 1]
    <3>1. h = [s \in SUBSET (1..0) |-> Body(h, s)]
      OBVIOUS
    <3> QED
      BY <2>2, <2>4, <3>1 DEF Is
  <2>3. CASE n # 0
    <3>1. n \in Nat /\ n - 1 \in 0..N /\ Is(n - 1)
      BY <2>3, <2>4
    <3>2. PICK g : g = [s \in SUBSET (1..(n - 1)) |-> Body(g, s)]
      BY <3>1 DEF Is
    <3> DEFINE h == [s \in SUBSET (1..n) |-> Body(g, s)]
    <3>3. ASSUME NEW s \in SUBSET (1..n)
          PROVE  Body(g, s) = Body(h, s)
      <4>1. CASE s = {}
        BY <4>1
      <4>2. CASE s # {}
        <5>1. PICK t : t = s \ {Max(s)}
          OBVIOUS
        <5>2. t \in SUBSET (1..(n - 1)) /\ t \in SUBSET (1..n)
          BY <2>3, <3>1, <4>2, <5>1, GreatestGone
        <5>3. h[t] = g[t]
          BY <3>2, <5>2
        <5> QED
          BY <4>2, <5>1, <5>3
      <4> QED
        BY <4>1, <4>2
    <3>4. h = [s \in SUBSET (1..n) |-> Body(h, s)]
      <4> HIDE DEF Body
      <4> QED
        BY <3>3
    <3> HIDE DEF h
    <3> QED
      BY <2>4, <3>4 DEF Is
  <2> QED
    BY <2>2, <2>3
<1>3. iter = [s \in SUBSET (1..N) |-> Body(iter, s)]
  <2> HIDE DEF Body
  <2>1. N \in 0..N
    OBVIOUS
  <2>2. \E f : f = [s \in SUBSET (1..N) |-> Body(f, s)]
    BY <1>2, <2>1
  <2> QED
    BY <2>2
<1> DEFINE v == [n \in 0..N |-> iter[1..n]]
<1>4. v[0] = 1
  <2>1. 1..0 = {} /\ {} \in SUBSET (1..N)
    OBVIOUS
  <2> HIDE DEF iter
  <2> QED
    BY <1>3, <2>1
<1>5. ASSUME NEW n \in 1..N
      PROVE  v[n] = v[n - 1] * (RRF_K + seq[n])
  <2>1. 1..n \in SUBSET (1..N) /\ n \in 1..n /\ n \in 0..N /\ n - 1 \in 0..N
    <3> HIDE DEF Body, iter
    <3>1. n \in Nat /\ n <= N
      OBVIOUS
    <3> QED
      BY <3>1
  <2>2. Max(1..n) = n /\ (1..n) \ {n} = 1..(n - 1)
    BY DEF Max
  <2> HIDE DEF iter
  <2>3. iter[1..n] = Body(iter, 1..n)
    BY <1>3, <2>1
  <2> QED
    BY <2>1, <2>2, <2>3
<1>6. FoldLeft(LAMBDA u, i : u * (RRF_K + i), 1, seq) = v[N]
  <2>1. N \in 0..N
    OBVIOUS
  <2> HIDE DEF iter
  <2> QED
    BY <1>1, <2>1
<1> HIDE DEF v
<1> QED
  BY <1>4, <1>5, <1>6

\* The product is a number.
LEMMA UnitIs == Unit \in Nat
<1> DEFINE seq == [i \in 1..MaxHits |-> i]
<1>1. PICK v : /\ v[0] = 1
               /\ \A n \in 1..MaxHits : v[n] = v[n - 1] * (RRF_K + seq[n])
               /\ FoldLeft(LAMBDA u, i : u * (RRF_K + i), 1, seq) = v[MaxHits]
  <2>1. DOMAIN seq = 1..MaxHits
    OBVIOUS
  <2> HIDE DEF seq
  <2> QED
    BY <2>1, UnitSteps, FusionAssumption
<1> DEFINE T == {n \in 0..MaxHits : v[n] \notin Nat}
<1>2. T = {}
  <2> SUFFICES ASSUME T # {} PROVE FALSE
    OBVIOUS
  <2>1. PICK n \in T : \A m \in T : n <= m
    <3>1. T \subseteq Nat
      BY FusionAssumption
    <3> HIDE DEF T
    <3> QED
      BY <3>1, LeastOf
  <2>2. n # 0
    <3>1. v[n] \notin Nat
      BY <2>1
    <3>2. v[0] = 1
      BY <1>1
    <3> QED
      BY <3>1, <3>2
  <2>3. n \in 1..MaxHits /\ n - 1 \in 0..MaxHits /\ n - 1 \notin T
    BY <2>1, <2>2, FusionAssumption
  <2>4. v[n - 1] \in Nat /\ seq[n] = n
    BY <2>3
  <2>5. v[n] = v[n - 1] * (60 + n)
    BY <1>1, <2>3, <2>4 DEF RRF_K
  <2>6. v[n] \in Nat
    BY <2>3, <2>4, <2>5
  <2> QED
    BY <2>1, <2>6
<1>3. Unit = v[MaxHits]
  BY <1>1 DEF Unit
<1> QED
  BY <1>2, <1>3, FusionAssumption

\* The rank of a hit is its place in the list.
LEMMA RankIs ==
  ASSUME NEW S, NEW l \in Seq(S), IsInjective(l), NEW x
  PROVE  /\ \A i \in 1..Len(l) : l[i] = x => Rank(l, x) = i
         /\ (\A i \in 1..Len(l) : l[i] # x) => Rank(l, x) = 0
<1>1. ASSUME NEW i \in 1..Len(l), l[i] = x PROVE Rank(l, x) = i
  <2>1. {j \in 1..Len(l) : l[j] = x} = {i}
    BY <1>1 DEF IsInjective
  <2>2. Min({i}) = i
    BY DEF Min
  <2> QED
    BY <2>1, <2>2 DEF Rank, SelectInSeq
<1>2. ASSUME \A i \in 1..Len(l) : l[i] # x PROVE Rank(l, x) = 0
  <2>1. {j \in 1..Len(l) : l[j] = x} = {}
    BY <1>2
  <2> QED
    BY <2>1 DEF Rank, SelectInSeq
<1> QED
  BY <1>1, <1>2

\* A better rank has no smaller share, and no rank has none.
LEMMA ShareFalls ==
  ASSUME NEW w \in Nat, NEW p \in Nat, NEW q \in Nat
  PROVE  /\ Share(w, p) \in Nat
         /\ Share(w, 0) = 0
         /\ 0 < p /\ p <= q => Share(w, q) <= Share(w, p)
<1>1. \A r \in Nat : Unit \div (RRF_K + r) \in Nat
  BY UnitIs DEF RRF_K
<1>2. ASSUME 0 < p, p <= q
      PROVE  Unit \div (RRF_K + q) <= Unit \div (RRF_K + p)
  <2>1. PICK u \in Nat, c \in Nat, d \in Nat : u = Unit /\ c = RRF_K + p /\ d = RRF_K + q /\ 0 < c /\ c <= d
    BY <1>2, UnitIs DEF RRF_K
  <2>2. PICK e \in Nat, f \in Nat : e = u \div c /\ f = u \div d
    BY <1>1, <2>1
  <2>3. u < c * (e + 1) /\ d * f <= u
    BY <2>1, <2>2
  <2>4. ASSUME e + 1 <= f PROVE FALSE
    <3>1. c * (e + 1) <= c * f
      BY <2>1, <2>2, <2>4
    <3>2. c * f <= d * f
      BY <2>1, <2>2
    <3>3. PICK g \in Nat, h \in Nat, i \in Nat : g = c * (e + 1) /\ h = c * f /\ i = d * f
      BY <2>1, <2>2
    <3> QED
      BY <2>1, <2>3, <3>1, <3>2, <3>3
  <2> QED
    BY <2>1, <2>2, <2>4
<1>3. ASSUME 0 < p, p <= q
      PROVE  Share(w, q) <= Share(w, p)
  <2>1. PICK e \in Nat, f \in Nat : e = Unit \div (RRF_K + p) /\ f = Unit \div (RRF_K + q) /\ f <= e
    BY <1>1, <1>2, <1>3
  <2>2. w * f <= w * e
    BY <2>1
  <2> QED
    BY <1>3, <2>1, <2>2 DEF Share
<1>4. Share(w, p) \in Nat
  <2>1. PICK e \in Nat : e = Unit \div (RRF_K + p)
    BY <1>1
  <2>2. w * e \in Nat
    BY <2>1
  <2> QED
    BY <2>1, <2>2 DEF Share
<1> QED
  BY <1>3, <1>4 DEF Share

\* A strict order, the places it gives, and what they are.
Orders(A, R) ==
  /\ \A x \in A : <<x, x>> \notin R
  /\ \A x, y, z \in A : <<x, y>> \in R /\ <<y, z>> \in R => <<x, z>> \in R
  /\ \A x, y \in A : x = y \/ <<x, y>> \in R \/ <<y, x>> \in R
Places(A, R, below, place) ==
  /\ below \in [A -> SUBSET A] /\ \A x, y \in A : y \in below[x] <=> <<y, x>> \in R
  /\ place \in [A -> Nat] /\ \A x \in A : place[x] = Cardinality(below[x]) + 1
CountedOff(A, R, place) ==
  /\ \A x \in A : place[x] \in 1..Cardinality(A)
  /\ \A n \in 1..Cardinality(A) : \E x \in A : place[x] = n
  /\ \A x, y \in A : <<x, y>> \in R <=> place[x] < place[y]
  /\ \A x, y \in A : place[x] = place[y] => x = y

\* A strict order on a finite set counts it off.
LEMMA Ranking ==
  ASSUME NEW A, NEW R, NEW below, NEW place,
         IsFiniteSet(A), Orders(A, R), Places(A, R, below, place)
  PROVE  CountedOff(A, R, place)
<1> USE DEF Orders, Places
<1>0. Cardinality(A) \in Nat
  BY FS_CardinalityType
<1>1. ASSUME NEW x \in A
      PROVE  /\ IsFiniteSet(below[x]) /\ Cardinality(below[x]) \in Nat
             /\ place[x] = Cardinality(below[x]) + 1
             /\ place[x] \in 1..Cardinality(A) /\ place[x] \in Int
  <2>1. below[x] \in SUBSET A /\ x \notin below[x]
    OBVIOUS
  <2>2. IsFiniteSet(below[x]) /\ Cardinality(below[x]) <= Cardinality(A)
        /\ (Cardinality(A) = Cardinality(below[x]) => A = below[x])
    BY <2>1, FS_Subset
  <2>3. Cardinality(below[x]) \in Nat /\ Cardinality(below[x]) # Cardinality(A)
    BY <2>1, <2>2, FS_CardinalityType
  <2>4. place[x] = Cardinality(below[x]) + 1
    OBVIOUS
  <2> QED
    BY <1>0, <2>2, <2>3, <2>4
<1>2. ASSUME NEW x \in A, NEW y \in A, <<x, y>> \in R
      PROVE  place[x] < place[y]
  <2>1. below[x] \in SUBSET below[y] /\ x \in below[y] /\ x \notin below[x]
    BY <1>2
  <2>2. Cardinality(below[x]) <= Cardinality(below[y]) /\ Cardinality(below[x]) # Cardinality(below[y])
    BY <1>1, <2>1, FS_Subset
  <2> QED
    BY <1>1, <2>2
<1>3. \A x \in A : place[x] \in Int
  <2> QED
    BY <1>1
<1>4. ASSUME NEW x \in A, NEW y \in A
      PROVE  (<<x, y>> \in R <=> place[x] < place[y]) /\ (place[x] = place[y] => x = y)
  <2>1. CASE x = y
    BY <1>3, <2>1
  <2>2. CASE <<x, y>> \in R
    BY <1>2, <1>3, <2>2
  <2>3. CASE <<y, x>> \in R
    <3>1. place[y] < place[x]
      BY <1>2, <2>3
    <3>2. ~ (place[x] < place[y]) /\ place[x] # place[y]
      BY <1>3, <3>1
    <3>3. <<x, y>> \notin R
      BY <1>2, <3>2
    <3> QED
      BY <3>2, <3>3
  <2> QED
    BY <2>1, <2>2, <2>3
<1>5. \A n \in 1..Cardinality(A) : \E x \in A : place[x] = n
  <2>1. place \in [A -> 1..Cardinality(A)]
    BY <1>1
  <2>2. place \in Injection(A, 1..Cardinality(A))
    BY <1>4, <2>1 DEF Injection, IsInjective
  <2>3. IsFiniteSet(1..Cardinality(A)) /\ Cardinality(1..Cardinality(A)) = Cardinality(A)
    BY <1>0, FS_Interval
  <2>4. place \in Surjection(A, 1..Cardinality(A))
    BY <2>2, <2>3, FS_Injection
  <2> QED
    BY <2>4 DEF Surjection
<1> QED
  BY <1>1, <1>4, <1>5 DEF CountedOff

\* Of two hits of the lists one is before the other.
LEMMA BeforeOrders ==
  ASSUME NEW S, NEW a \in Seq(S), NEW b \in Seq(S), IsInjective(a), IsInjective(b),
         NEW A, A = ToSet(a) \cup ToSet(b)
  PROVE  /\ \A x \in A : Score(a, b, x) \in Nat /\ Entered(a, b, x) \in Nat
         /\ \A x, y \in A : Entered(a, b, x) = Entered(a, b, y) => x = y
         /\ \A x, y \in A : x # y /\ Leads(a, x, y) /\ Leads(b, x, y) => Before(a, b, x, y)
<1>0. /\ Len(a) \in Nat /\ Len(b) \in Nat /\ DOMAIN a = 1..Len(a) /\ DOMAIN b = 1..Len(b)
      /\ FuzzyWeight \in Nat /\ VectorWeight \in Nat
  BY FusionAssumption
<1>1. ASSUME NEW l \in Seq(S), IsInjective(l), NEW x
      PROVE  /\ Rank(l, x) \in Nat /\ Rank(l, x) <= Len(l)
             /\ Contains(l, x) => Rank(l, x) \in 1..Len(l) /\ l[Rank(l, x)] = x
             /\ ~Contains(l, x) => Rank(l, x) = 0
  <2>1. CASE Contains(l, x)
    <3>1. PICK i \in 1..Len(l) : l[i] = x
      BY <2>1 DEF Contains
    <3>2. Rank(l, x) = i
      BY <1>1, <3>1, RankIs
    <3> QED
      BY <2>1, <3>1, <3>2
  <2>2. CASE ~Contains(l, x)
    <3>1. Rank(l, x) = 0
      BY <1>1, <2>2, RankIs DEF Contains
    <3> QED
      BY <2>2, <3>1
  <2> QED
    BY <2>1, <2>2
<1>2. \A x \in A : Contains(a, x) \/ Contains(b, x)
  BY <1>0 DEF ToSet, Contains
<1>3. ASSUME NEW x \in A PROVE Score(a, b, x) \in Nat /\ Entered(a, b, x) \in Nat
  <2>1. Rank(a, x) \in Nat /\ Rank(b, x) \in Nat
    BY <1>1
  <2>2. Share(FuzzyWeight, Rank(a, x)) \in Nat /\ Share(VectorWeight, Rank(b, x)) \in Nat
    BY <1>0, <2>1, ShareFalls
  <2> QED
    BY <1>0, <2>1, <2>2 DEF Score, Entered
<1>4. ASSUME NEW x \in A, NEW y \in A, Entered(a, b, x) = Entered(a, b, y)
      PROVE  x = y
  BY <1>0, <1>1, <1>2, <1>4 DEF Entered
<1>5. ASSUME NEW l \in Seq(S), IsInjective(l), NEW x, NEW y, Leads(l, x, y), NEW w \in Nat
      PROVE  /\ Contains(l, y) => Contains(l, x) /\ Rank(l, x) < Rank(l, y)
             /\ Share(w, Rank(l, y)) <= Share(w, Rank(l, x))
  <2>1. CASE Contains(l, y)
    <3>1. PICK i \in 1..Len(l) : l[i] = y
      BY <2>1 DEF Contains
    <3>2. PICK j \in 1..(i - 1) : l[j] = x
      BY <1>5, <3>1 DEF Leads
    <3>3. j \in 1..Len(l) /\ j < i
      BY <3>1, <3>2
    <3>4. Rank(l, x) = j /\ Rank(l, y) = i
      BY <1>5, <3>1, <3>2, <3>3, RankIs
    <3>5. Contains(l, x)
      BY <3>2, <3>3 DEF Contains
    <3> QED
      BY <3>1, <3>3, <3>4, <3>5, ShareFalls
  <2>2. CASE ~Contains(l, y)
    <3>1. Rank(l, y) = 0 /\ Rank(l, x) \in Nat
      BY <1>1, <1>5, <2>2
    <3>2. Share(w, 0) = 0 /\ Share(w, Rank(l, x)) \in Nat
      BY <3>1, ShareFalls
    <3> QED
      BY <2>2, <3>1, <3>2
  <2> QED
    BY <2>1, <2>2
<1>6. ASSUME NEW x \in A, NEW y \in A, x # y, Leads(a, x, y), Leads(b, x, y)
      PROVE  Before(a, b, x, y)
  <2>1. Rank(a, x) \in Nat /\ Rank(b, x) \in Nat /\ Rank(a, y) \in Nat /\ Rank(b, y) \in Nat
    BY <1>1
  <2>2. /\ Share(FuzzyWeight, Rank(a, x)) \in Nat /\ Share(VectorWeight, Rank(b, x)) \in Nat
        /\ Share(FuzzyWeight, Rank(a, y)) \in Nat /\ Share(VectorWeight, Rank(b, y)) \in Nat
    BY <1>0, <2>1, ShareFalls
  <2>3. /\ Share(FuzzyWeight, Rank(a, y)) <= Share(FuzzyWeight, Rank(a, x))
        /\ Share(VectorWeight, Rank(b, y)) <= Share(VectorWeight, Rank(b, x))
    BY <1>0, <1>5, <1>6
  <2>4. Score(a, b, y) <= Score(a, b, x)
    BY <2>2, <2>3 DEF Score
  <2>5. Entered(a, b, x) < Entered(a, b, y)
    <3>1. CASE Contains(a, y)
      <4>1. Contains(a, x) /\ Rank(a, x) < Rank(a, y)
        BY <1>0, <1>5, <1>6, <3>1
      <4> QED
        BY <3>1, <4>1 DEF Entered
    <3>2. CASE ~Contains(a, y)
      <4>1. Contains(b, y)
        BY <1>2, <3>2
      <4>2. Contains(b, x) /\ Rank(b, x) < Rank(b, y) /\ Rank(b, y) \in 1..Len(b)
        BY <1>0, <1>1, <1>5, <1>6, <4>1
      <4>3. Rank(a, x) <= Len(a)
        BY <1>1
      <4> QED
        BY <1>0, <2>1, <3>2, <4>2, <4>3 DEF Entered
    <3> QED
      BY <3>1, <3>2
  <2> QED
    BY <1>3, <2>4, <2>5 DEF Before
<1> QED
  BY <1>3, <1>4, <1>6

\* The hits of a list are finitely many.
LEMMA ListedAreFinite ==
  ASSUME NEW S, NEW l \in Seq(S)
  PROVE  IsFiniteSet(ToSet(l))
<1>1. l \in [1..Len(l) -> ToSet(l)] /\ Len(l) \in Nat
  BY DEF ToSet
<1>2. l \in Surjection(1..Len(l), ToSet(l))
  BY <1>1 DEF Surjection, ToSet
<1>3. IsFiniteSet(1..Len(l))
  BY <1>1, FS_Interval
<1> QED
  BY <1>2, <1>3, FS_Surjection

\* The fusion of two lists keeps to both of them, whatever they are.
LEMMA FusionKeepsOrder ==
  ASSUME NEW S, NEW a \in Seq(S), NEW b \in Seq(S), IsInjective(a), IsInjective(b), NEW k \in Nat
  PROVE  /\ WellFused(a, b, Fused(a, b, k), k)
         /\ Fused(a, b, k) \in Seq(ToSet(a) \cup ToSet(b))
         /\ Len(Fused(a, b, k)) <= k
<1> DEFINE A == ToSet(a) \cup ToSet(b)
           R == {p \in A \X A : Before(a, b, p[1], p[2])}
           place == [x \in A |-> Cardinality({y \in A : <<y, x>> \in R}) + 1]
           n == Cardinality(A)
           order == [i \in 1..n |-> CHOOSE x \in A : place[x] = i]
           m == IF n < k THEN n ELSE k
           f == Fused(a, b, k)
<1>1. IsFiniteSet(A) /\ n \in Nat
  <2>1. IsFiniteSet(ToSet(a)) /\ IsFiniteSet(ToSet(b))
    BY ListedAreFinite
  <2>2. IsFiniteSet(A)
    BY <2>1, FS_Union
  <2> QED
    BY <2>2, FS_CardinalityType
<1>2. \A x, y \in A : <<x, y>> \in R <=> Before(a, b, x, y)
  OBVIOUS
<1>3. /\ \A x \in A : Score(a, b, x) \in Nat /\ Entered(a, b, x) \in Nat
      /\ \A x, y \in A : Entered(a, b, x) = Entered(a, b, y) => x = y
      /\ \A x, y \in A : x # y /\ Leads(a, x, y) /\ Leads(b, x, y) => Before(a, b, x, y)
  BY BeforeOrders
<1>4. /\ \A x \in A : ~Before(a, b, x, x)
      /\ \A x, y, z \in A : Before(a, b, x, y) /\ Before(a, b, y, z) => Before(a, b, x, z)
      /\ \A x, y \in A : x = y \/ Before(a, b, x, y) \/ Before(a, b, y, x)
  <2> HIDE DEF A
  <2> QED
    BY <1>3 DEF Before
<1>5. /\ \A x \in A : place[x] \in 1..n
      /\ \A i \in 1..n : \E x \in A : place[x] = i
      /\ \A x, y \in A : <<x, y>> \in R <=> place[x] < place[y]
      /\ \A x, y \in A : place[x] = place[y] => x = y
  <2>1. PICK B : B = A
    OBVIOUS
  <2>2. PICK Q : Q = R
    OBVIOUS
  <2>3. PICK p : p = place
    OBVIOUS
  <2>0. PICK g : g = [x \in B |-> {y \in B : <<y, x>> \in Q}]
    OBVIOUS
  <2>4. g \in [B -> SUBSET B] /\ \A x, y \in B : y \in g[x] <=> <<y, x>> \in Q
    <3> HIDE DEF A, R, place, n, order, m, f
    <3> QED
      BY <2>0
  <2>7. p \in [B -> Nat] /\ \A x \in B : p[x] = Cardinality(g[x]) + 1
    <3>1. p = [x \in B |-> Cardinality({y \in B : <<y, x>> \in Q}) + 1]
      BY <2>1, <2>2, <2>3
    <3> HIDE DEF A, R, place, n, order, m, f
    <3>2. \A x \in B : p[x] = Cardinality(g[x]) + 1
      BY <2>0, <3>1
    <3>3. \A x \in B : Cardinality(g[x]) \in Nat
      BY <1>1, <2>1, <2>4, FS_Subset, FS_CardinalityType DEF A
    <3>4. \A x \in B : p[x] \in Nat
      BY <3>2, <3>3
    <3> QED
      BY <3>1, <3>2, <3>4
  <2>5. IsFiniteSet(B) /\ Orders(B, Q)
    <3> HIDE DEF A, R
    <3> QED
      BY <1>1, <1>2, <1>4, <2>1, <2>2 DEF Orders
  <2>6. CountedOff(B, Q, p)
    <3>1. Places(B, Q, g, p)
      BY <2>4, <2>7 DEF Places
    <3> QED
      BY <2>5, <3>1, Ranking
  <2> HIDE DEF A, R, place
  <2> QED
    BY <2>1, <2>2, <2>3, <2>6 DEF CountedOff
<1>6. f = [i \in 1..m |-> CHOOSE x \in A : place[x] = i]
  <2> DEFINE ahead(x) == Cardinality({y \in A \ {x} : Before(a, b, y, x)})
  <2>1. \A x \in A : {y \in A \ {x} : Before(a, b, y, x)} = {y \in A : <<y, x>> \in R}
    <3> HIDE DEF R, A
    <3> QED
      BY <1>2, <1>4
  <2>2. \A x \in A : place[x] = ahead(x) + 1
    BY <2>1
  <2>6. \A x \in A : place[x] \in Nat
    <3> HIDE DEF place, A, n
    <3> QED
      BY <1>1, <1>5
  <2>3. ASSUME NEW x \in A PROVE ahead(x) \in Int
    <3>1. PICK c : c = Cardinality({y \in A : <<y, x>> \in R})
      OBVIOUS
    <3>2. ahead(x) = c
      BY <2>1, <3>1
    <3>3. {y \in A : <<y, x>> \in R} \in SUBSET A
      OBVIOUS
    <3>4. IsFiniteSet({y \in A : <<y, x>> \in R})
      <4> HIDE DEF A
      <4> QED
        BY <1>1, <3>3, FS_Subset
    <3>5. c \in Nat
      BY <3>1, <3>4, FS_CardinalityType
    <3> QED
      BY <3>2, <3>5
  <2> DEFINE one(i) == CHOOSE x \in A : ahead(x) = i - 1
             two(i) == CHOOSE x \in A : place[x] = i
  <2>4. ASSUME NEW i \in 1..m PROVE one(i) = two(i)
    <3>1. i \in Int
      OBVIOUS
    <3>2. \A x \in A : ahead(x) = i - 1 <=> place[x] = i
      <4> HIDE DEF place, A, ahead
      <4> QED
        BY <2>2, <2>3, <3>1
    <3> HIDE DEF place, A, ahead
    <3> QED
      BY <3>2
  <2>5. f = [i \in 1..m |-> one(i)]
    BY DEF Fused
  <2>7. f = [i \in 1..m |-> two(i)]
    <3> HIDE DEF one, two, f, m
    <3> QED
      BY <2>4, <2>5
  <2> QED
    BY <2>7
<1> HIDE DEF place, R
<1>7. \A i \in 1..n : order[i] \in A /\ place[order[i]] = i
  <2> HIDE DEF A, n
  <2> QED
    BY <1>5
<1>9. f \in Seq(A) /\ Len(f) = m /\ m \in Nat /\ \A i \in 1..m : f[i] = order[i]
  <2> HIDE DEF A, n
  <2>1. m \in Nat /\ 1..m \subseteq 1..n
    BY <1>1
  <2>2. \A i \in 1..m : order[i] = CHOOSE x \in A : place[x] = i
    <3> HIDE DEF m
    <3> QED
      BY <2>1
  <2> HIDE DEF f, m, order
  <2>3. \A i \in 1..m : f[i] = order[i] /\ order[i] \in A
    BY <1>6, <1>7, <2>1, <2>2
  <2>4. f \in [1..m -> A]
    BY <1>6, <2>3
  <2> QED
    BY <2>1, <2>3, <2>4
<1> HIDE DEF f, order
<1>10. IsInjective(f) /\ ToSet(f) \subseteq A
  <2>1. \A i \in 1..m : f[i] \in A /\ place[f[i]] = i
    <3> HIDE DEF A, n
    <3> QED
      BY <1>1, <1>7, <1>9
  <2>2. DOMAIN f = 1..m
    BY <1>9
  <2> HIDE DEF A, m
  <2> QED
    BY <2>1, <2>2 DEF IsInjective, ToSet
<1>11. Len(f) = k \/ ToSet(f) = A
  <2>1. CASE n < k
    <3>1. ASSUME NEW x \in A PROVE x \in ToSet(f)
      <4>1. place[x] \in 1..n /\ order[place[x]] = x
        <5> HIDE DEF A, n
        <5> QED
          BY <1>5, <1>7
      <4>2. place[x] \in DOMAIN f /\ f[place[x]] = x
        <5> HIDE DEF A, n
        <5> QED
          BY <1>9, <2>1, <4>1
      <4> QED
        BY <4>2 DEF ToSet
    <3> QED
      BY <1>10, <3>1
  <2>2. CASE ~ (n < k)
    BY <1>9, <2>2
  <2> QED
    BY <2>1, <2>2
<1>12. ASSUME NEW x \in A, NEW y \in A, x # y, Leads(a, x, y), Leads(b, x, y)
       PROVE  Leads(f, x, y)
  <2>1. place[x] < place[y] /\ place[x] \in 1..n /\ place[y] \in 1..n
    <3>1. Before(a, b, x, y)
      <4> HIDE DEF A
      <4> QED
        BY <1>3, <1>12
    <3>2. <<x, y>> \in R
      BY <1>2, <3>1
    <3> HIDE DEF A, n
    <3> QED
      BY <1>5, <3>2
  <2>2. ASSUME NEW i \in DOMAIN f, f[i] = y
        PROVE  \E j \in 1..(i - 1) : f[j] = x
    <3> HIDE DEF A, n
    <3>1. i \in 1..m /\ m <= n /\ m \in Nat
      BY <1>1, <1>9
    <3>2. place[y] = i
      BY <1>1, <1>7, <1>9, <2>2, <3>1
    <3>3. place[x] \in 1..(i - 1) /\ place[x] \in 1..m
      BY <1>1, <2>1, <3>1, <3>2
    <3>4. order[place[x]] = x
      BY <1>5, <1>7, <2>1
    <3> QED
      BY <1>9, <3>3, <3>4
  <2> QED
    BY <2>2 DEF Leads
<1>13. Len(f) <= k
  <2> HIDE DEF n
  <2> QED
    BY <1>1, <1>9
<1> QED
  BY <1>9, <1>10, <1>11, <1>12, <1>13 DEF WellFused, f

---------------------------------------------------------------------------
\* The types of the search in messages,
InboxType == [topic : TopicIds \cup {0}, time : Times, deleted : BOOLEAN, moved : BOOLEAN]
EntryType == [topic : TopicIds \cup {0}, vector : {"pending", "completed", "no row"}]
HitType == [message : Nat, topic : TopicIds \cup {0}]
ContextType == [hit : Nat, topic : TopicIds \cup {0}, messages : SUBSET Nat, through : SUBSET Nat]
FindingType ==
  [does : {"idle", "fuzzy", "found", "before", "hit", "done"}, fuzzy : Seq(Nat), vector : Seq(Nat),
   hits : Seq(HitType), contexts : Seq(ContextType), near : SUBSET Nat, there : SUBSET Nat]

InboxTyped ==
  /\ inbox \in Seq(InboxType) /\ indexed \in Seq(EntryType) /\ Len(indexed) = Len(inbox)

\* what is indexed under another topic has been moved,
Told == \A m \in DOMAIN inbox : indexed[m] # NoEntry => indexed[m].topic = inbox[m].topic \/ inbox[m].moved

\* what the hits of a search f are,
HitsKnown(f) ==
  \A i \in 1..Len(f.hits) :
    LET m == f.hits[i].message
    IN /\ m \in DOMAIN inbox
       /\ \/ inbox[m].deleted
          \/ indexed[m] # NoEntry /\ (inbox[m].topic = f.hits[i].topic \/ inbox[m].moved)

\* what a context c of one of the hits H shows,
Window(c) ==
  \A m \in c.through :
    /\ inbox[m].time # inbox[c.hit].time
    /\ \E first, last \in c.messages :
         inbox[first].time < inbox[m].time /\ inbox[m].time < inbox[last].time
    => m \in c.messages
ContextKnown(c, H) ==
  /\ c.hit \in DOMAIN inbox /\ c.messages \subseteq DOMAIN inbox /\ c.through \subseteq DOMAIN inbox
  /\ c.topic # 0 => \A i \in 1..Len(H) : H[i].topic = c.topic =>
       H[i].message \in c.messages \/ inbox[H[i].message].deleted \/ inbox[H[i].message].moved
  /\ c.topic = 0 => (c.hit \in c.messages \/ inbox[c.hit].deleted) /\ Window(c)

ContextsKnown(f) ==
  /\ Len(f.contexts) <= Len(f.hits)
  /\ \A i \in 1..Len(f.contexts) :
       /\ f.contexts[i].hit = f.hits[i].message /\ f.contexts[i].topic = f.hits[i].topic
       /\ ContextKnown(f.contexts[i], f.hits)

\* where it is,
Progress(f) ==
  /\ f.does = "idle" => f = NoFinding
  /\ f.does = "fuzzy" =>
       /\ f.contexts = <<>> /\ f.vector = <<>> /\ IsInjective(f.fuzzy) /\ Len(f.hits) = Len(f.fuzzy)
       /\ \A i \in 1..Len(f.fuzzy) : f.fuzzy[i] \in DOMAIN inbox /\ f.hits[i].message = f.fuzzy[i]
  /\ f.does \in {"found", "before", "hit"} => Len(f.contexts) < Len(f.hits)
  /\ f.does = "found" /\ (f.fuzzy # <<>> \/ f.vector # <<>>) =>
       WellFused(f.fuzzy, f.vector, [i \in DOMAIN f.hits |-> f.hits[i].message], MessageTopK)
  /\ Len(f.hits) <= 3 * MessageTopK
  /\ f.near \subseteq DOMAIN inbox /\ f.there \subseteq DOMAIN inbox

\* and what it has of a window.
WindowKnown(f) ==
  f.does \in {"before", "hit"} =>
    LET next == f.hits[Len(f.contexts) + 1]
        h == next.message
    IN /\ next.topic = 0
       /\ \A x \in f.near : inbox[x].time < inbox[h].time \/ x = h
       /\ \A m \in f.there : inbox[m].time < inbox[h].time =>
            m \in f.near \/ \A x \in f.near : inbox[m].time <= inbox[x].time
       /\ f.does = "hit" => h \in f.near \/ inbox[h].deleted

SearchKnown(f) ==
  f \in FindingType /\ HitsKnown(f) /\ ContextsKnown(f) /\ Progress(f) /\ WindowKnown(f)
MessageSearchInv == InboxTyped /\ Told /\ SearchKnown(finding)

\* At the start nothing is looked for.
LEMMA MessageSearchStarts == MessageSearchInit => MessageSearchInv
<1> SUFFICES ASSUME MessageSearchInit PROVE MessageSearchInv
  OBVIOUS
<1>1. \A m \in 1..Len(FirstInbox) : FirstInbox[m] \in InboxType
  <2>1. FirstInbox \in Seq(InboxType)
    BY MessageSearchAssumption DEF InboxType
  <2> QED
    BY <2>1
<1>2. InboxTyped
  <2>1. Len(FirstInbox) \in Nat /\ DOMAIN FirstInbox = 1..Len(FirstInbox)
    BY MessageSearchAssumption
  <2>2. indexed \in [1..Len(FirstInbox) -> EntryType]
    BY <1>1, <2>1 DEF MessageSearchInit, EntryType, InboxType
  <2>3. indexed \in Seq(EntryType) /\ Len(indexed) = Len(FirstInbox)
    BY <2>1, <2>2
  <2> QED
    BY <2>3, MessageSearchAssumption DEF MessageSearchInit, InboxTyped, InboxType
<1>3. Told
  BY DEF MessageSearchInit, Told
<1>4. NoFinding \in FindingType
  BY DEF NoFinding, FindingType
<1>5. SearchKnown(NoFinding)
  BY <1>4, MessageSearchAssumption DEF SearchKnown, NoFinding, HitsKnown, ContextsKnown, Progress, WindowKnown
<1> QED
  BY <1>2, <1>3, <1>5 DEF MessageSearchInit, MessageSearchInv

\* What happens meanwhile: no message and no row is taken away, times stay, and what is
\* deleted or moved stays so.
Meanwhile ==
  /\ InboxTyped' /\ Told' /\ finding' = finding
  /\ \A m \in DOMAIN inbox :
       /\ m \in DOMAIN inbox'
       /\ inbox'[m].time = inbox[m].time
       /\ inbox[m].deleted => inbox'[m].deleted
       /\ inbox[m].moved => inbox'[m].moved
       /\ \/ inbox'[m].deleted
          \/ indexed[m] # NoEntry => indexed'[m] # NoEntry /\ (inbox'[m].topic = inbox[m].topic \/ inbox'[m].moved)

\* A message stored while a search runs, however late,
LEMMA StoreIs ==
  ASSUME InboxTyped, Told, NEW t \in TopicIds \cup {0}, NEW time \in Times, StoreMessage(t, time)
  PROVE  Meanwhile
<1>1. InboxRow(t, time) \in InboxType /\ NoEntry \in EntryType
  BY DEF InboxRow, InboxType, NoEntry, EntryType
<1>2. /\ inbox' = Append(inbox, InboxRow(t, time)) /\ indexed' = Append(indexed, NoEntry)
      /\ finding' = finding
  BY DEF StoreMessage
<1>3. InboxTyped'
  BY <1>1, <1>2 DEF InboxTyped
<1>4. /\ DOMAIN inbox = 1..Len(inbox) /\ DOMAIN inbox' = 1..(Len(inbox) + 1) /\ Len(inbox) \in Nat
      /\ \A m \in 1..Len(inbox) : inbox'[m] = inbox[m] /\ indexed'[m] = indexed[m]
      /\ indexed'[Len(inbox) + 1] = NoEntry
  BY <1>1, <1>2 DEF InboxTyped
<1>5. Told'
  BY <1>4 DEF Told
<1>6. \A m \in 1..Len(inbox) : m \in 1..(Len(inbox) + 1)
  BY <1>4
<1>7. \A m \in DOMAIN inbox : m \in DOMAIN inbox' /\ inbox'[m] = inbox[m] /\ indexed'[m] = indexed[m]
  BY <1>4, <1>6
<1> QED
  BY <1>2, <1>3, <1>5, <1>7 DEF Meanwhile

\* one indexed or embedded,
LEMMA IndexIs ==
  ASSUME InboxTyped, Told, NEW m \in DOMAIN inbox, IndexMessage(m) \/ EmbedMessage(m)
  PROVE  Meanwhile
<1>0. /\ DOMAIN inbox = 1..Len(inbox) /\ DOMAIN indexed = 1..Len(inbox) /\ Len(inbox) \in Nat
      /\ \A n \in 1..Len(inbox) : inbox[n] \in InboxType /\ indexed[n] \in EntryType
  BY DEF InboxTyped
<1>1. PICK e \in EntryType : /\ indexed' = [indexed EXCEPT ![m] = e] /\ e # NoEntry
                             /\ (e.topic = inbox[m].topic \/ inbox[m].moved)
  <2>1. CASE IndexMessage(m)
    <3>1. PICK v \in {"pending", "completed"} :
            indexed' = [indexed EXCEPT ![m] = [topic |-> inbox[m].topic, vector |-> v]]
      BY <2>1 DEF IndexMessage
    <3>2. PICK e : e = [topic |-> inbox[m].topic, vector |-> v]
      OBVIOUS
    <3>3. e \in EntryType /\ e.topic = inbox[m].topic /\ e.vector # "no row"
      BY <1>0, <3>2 DEF InboxType, EntryType
    <3> QED
      BY <3>1, <3>2, <3>3 DEF NoEntry
  <2>2. CASE EmbedMessage(m)
    <3>1. PICK k \in EntryType : k = indexed[m] /\ k.vector = "pending"
      BY <1>0, <2>2 DEF EmbedMessage
    <3>2. PICK e : e = [k EXCEPT !.vector = "completed"]
      OBVIOUS
    <3>3. e \in EntryType /\ e.topic = k.topic /\ e.vector # "no row"
      BY <3>1, <3>2 DEF EntryType
    <3>4. indexed' = [indexed EXCEPT ![m] = e]
      BY <1>0, <2>2, <3>1, <3>2 DEF EmbedMessage
    <3>5. NoEntry.vector = "no row"
      BY DEF NoEntry
    <3>6. indexed[m] # NoEntry /\ e # NoEntry
      BY <3>1, <3>3, <3>5
    <3> QED
      BY <3>1, <3>3, <3>4, <3>6 DEF Told
  <2> QED
    BY <2>1, <2>2
<1>2. inbox' = inbox /\ finding' = finding
  BY DEF IndexMessage, EmbedMessage
<1>3. InboxTyped'
  BY <1>0, <1>1, <1>2 DEF InboxTyped
<1>4. Told'
  BY <1>0, <1>1, <1>2 DEF Told
<1> QED
  BY <1>0, <1>1, <1>2, <1>3, <1>4 DEF Meanwhile

\* one deleted,
LEMMA DropIs ==
  ASSUME InboxTyped, Told, NEW m \in DOMAIN inbox, NEW hard \in BOOLEAN, DropMessage(m, hard)
  PROVE  Meanwhile
<1>0. /\ DOMAIN inbox = 1..Len(inbox) /\ DOMAIN indexed = 1..Len(inbox) /\ Len(inbox) \in Nat
      /\ \A n \in 1..Len(inbox) : inbox[n] \in InboxType /\ indexed[n] \in EntryType
  BY DEF InboxTyped
<1>1. PICK k \in InboxType : k = inbox[m]
  BY <1>0
<1>2. PICK j : j = [k EXCEPT !.deleted = TRUE]
  OBVIOUS
<1>3. j \in InboxType /\ j.deleted /\ j.topic = k.topic /\ j.time = k.time /\ (k.moved => j.moved)
  BY <1>1, <1>2 DEF InboxType
<1>4. inbox' = [inbox EXCEPT ![m] = j] /\ finding' = finding
  BY <1>0, <1>1, <1>2 DEF DropMessage
<1>5. indexed' = indexed \/ indexed' = [indexed EXCEPT ![m] = NoEntry]
  BY DEF DropMessage
<1>6. NoEntry \in EntryType
  BY DEF NoEntry, EntryType
<1>7. InboxTyped'
  BY <1>0, <1>3, <1>4, <1>5, <1>6 DEF InboxTyped
<1>8. Told'
  BY <1>0, <1>1, <1>3, <1>4, <1>5 DEF Told
<1> QED
  BY <1>0, <1>1, <1>3, <1>4, <1>5, <1>7, <1>8 DEF Meanwhile

\* and one moved take nothing away that a search has seen.
LEMMA MoveIs ==
  ASSUME InboxTyped, Told, NEW m \in DOMAIN inbox, NEW t \in TopicIds \cup {0}, MoveMessage(m, t)
  PROVE  Meanwhile
<1>0. /\ DOMAIN inbox = 1..Len(inbox) /\ DOMAIN indexed = 1..Len(inbox) /\ Len(inbox) \in Nat
      /\ \A n \in 1..Len(inbox) : inbox[n] \in InboxType /\ indexed[n] \in EntryType
  BY DEF InboxTyped
<1>1. PICK k \in InboxType : k = inbox[m]
  BY <1>0
<1>2. PICK b : b = (k.moved \/ m \in Entries)
  OBVIOUS
<1>3. PICK j : j = [k EXCEPT !.topic = t, !.moved = b]
  OBVIOUS
<1>4. b \in BOOLEAN /\ (indexed[m] # NoEntry => b) /\ (k.moved => b)
  BY <1>1, <1>2 DEF Entries, InboxType
<1>5. j \in InboxType /\ j.deleted = k.deleted /\ j.time = k.time /\ j.moved = b
  BY <1>1, <1>3, <1>4 DEF InboxType
<1>6. inbox' = [inbox EXCEPT ![m] = j] /\ finding' = finding /\ indexed' = indexed
  <2>1. inbox' = [inbox EXCEPT ![m] = [inbox[m] EXCEPT !.topic = t, !.moved = inbox[m].moved \/ m \in Entries]]
    BY DEF MoveMessage
  <2>2. [inbox[m] EXCEPT !.topic = t, !.moved = inbox[m].moved \/ m \in Entries] = j
    BY <1>1, <1>2, <1>3
  <2> QED
    BY <2>1, <2>2 DEF MoveMessage
<1>7. InboxTyped'
  BY <1>0, <1>5, <1>6 DEF InboxTyped
<1>8. Told'
  BY <1>0, <1>1, <1>4, <1>5, <1>6 DEF Told
<1> QED
  BY <1>0, <1>1, <1>4, <1>5, <1>6, <1>7, <1>8 DEF Meanwhile

\* So what the search knows stays true.
LEMMA MeanwhileKept ==
  ASSUME MessageSearchInv, Meanwhile
  PROVE  MessageSearchInv'
<1>0. PICK f : f = finding
  OBVIOUS
<1>1. SearchKnown(f) /\ finding' = f /\ f \in FindingType
  BY <1>0 DEF MessageSearchInv, Meanwhile, SearchKnown
<1>2. HitsKnown(f)'
  BY <1>1 DEF SearchKnown, HitsKnown, Meanwhile
<1>3. Progress(f)'
  <2>1. Progress(f)
    BY <1>1 DEF SearchKnown
  <2>2. \A m \in DOMAIN inbox : m \in DOMAIN inbox'
    BY DEF Meanwhile
  <2> QED
    BY <2>1, <2>2 DEF Progress
<1>4. WindowKnown(f)'
  <2> SUFFICES ASSUME f.does \in {"before", "hit"} PROVE WindowKnown(f)'
    BY DEF WindowKnown
  <2>1. /\ Len(f.contexts) + 1 \in 1..Len(f.hits)
        /\ f.near \subseteq DOMAIN inbox /\ f.there \subseteq DOMAIN inbox
    BY <1>1 DEF SearchKnown, Progress, ContextsKnown, FindingType
  <2>2. PICK h : h = f.hits[Len(f.contexts) + 1].message
    OBVIOUS
  <2>3. h \in DOMAIN inbox
    BY <1>1, <2>1, <2>2 DEF SearchKnown, HitsKnown
  <2>4. \A m \in DOMAIN inbox : inbox'[m].time = inbox[m].time /\ (inbox[m].deleted => inbox'[m].deleted)
    BY DEF Meanwhile
  <2> QED
    BY <1>1, <2>1, <2>2, <2>3, <2>4 DEF SearchKnown, WindowKnown
<1>5. ContextsKnown(f)'
  <2> SUFFICES ASSUME NEW i \in 1..Len(f.contexts)
               PROVE  ContextKnown(f.contexts[i], f.hits)'
    BY <1>1 DEF SearchKnown, ContextsKnown
  <2>1. PICK c : c = f.contexts[i]
    OBVIOUS
  <2>2. ContextKnown(c, f.hits)
    BY <1>1, <2>1 DEF SearchKnown, ContextsKnown
  <2>3. \A m \in DOMAIN inbox :
          /\ m \in DOMAIN inbox' /\ inbox'[m].time = inbox[m].time
          /\ (inbox[m].deleted => inbox'[m].deleted) /\ (inbox[m].moved => inbox'[m].moved)
    BY DEF Meanwhile
  <2>4. \A j \in 1..Len(f.hits) : f.hits[j].message \in DOMAIN inbox
    BY <1>1 DEF SearchKnown, HitsKnown
  <2>5. c.hit \in DOMAIN inbox /\ c.messages \subseteq DOMAIN inbox /\ c.through \subseteq DOMAIN inbox
    BY <2>2 DEF ContextKnown
  <2>6. Window(c) => Window(c)'
    BY <2>3, <2>5 DEF Window
  <2>7. ContextKnown(c, f.hits)'
    BY <2>2, <2>3, <2>4, <2>5, <2>6 DEF ContextKnown
  <2> QED
    BY <2>1, <2>7
<1> QED
  BY <1>1, <1>2, <1>3, <1>4, <1>5 DEF SearchKnown, MessageSearchInv, Meanwhile

\* What a list of rows found is.
LEMMA ListedAre ==
  ASSUME NEW S, IsFiniteSet(S), NEW s, \E T \in SUBSET S : s \in SetToSeqs(T)
  PROVE  s \in Seq(S) /\ IsInjective(s) /\ Len(s) <= Cardinality(S)
<1>1. PICK T \in SUBSET S : s \in SetToSeqs(T)
  OBVIOUS
<1>2. PICK n : n = Cardinality(T)
  OBVIOUS
<1>3. n \in Nat /\ n <= Cardinality(S)
  BY <1>1, <1>2, FS_Subset, FS_CardinalityType
<1>4. s \in [1..n -> T] /\ \A i, j \in 1..n : i # j => s[i] # s[j]
  BY <1>1, <1>2 DEF SetToSeqs
<1>5. s \in Seq(S) /\ Len(s) = n
  <2>1. s \in [1..n -> S]
    BY <1>4
  <2> QED
    BY <1>3, <2>1
<1> QED
  BY <1>3, <1>4, <1>5 DEF IsInjective

\* A list of some things is a list of more.
LEMMA ListWidens == ASSUME NEW S, NEW T, S \subseteq T, NEW s \in Seq(S) PROVE s \in Seq(T)
<1>1. s \in [1..Len(s) -> S] /\ Len(s) \in Nat
  OBVIOUS
<1>2. s \in [1..Len(s) -> T]
  BY <1>1
<1> QED
  BY <1>1, <1>2

\* There are finitely many messages, and they are numbers.
LEMMA RowsFinite ==
  ASSUME InboxTyped
  PROVE  /\ IsFiniteSet(DOMAIN inbox) /\ DOMAIN inbox = 1..Len(inbox) /\ Len(inbox) \in Nat
         /\ DOMAIN inbox \subseteq Nat
         /\ \A S \in SUBSET DOMAIN inbox : IsFiniteSet(S)
<1>1. Len(inbox) \in Nat /\ DOMAIN inbox = 1..Len(inbox)
  BY DEF InboxTyped
<1>2. IsFiniteSet(1..Len(inbox))
  BY <1>1, FS_Interval
<1> QED
  BY <1>1, <1>2, FS_Subset

\* A hit of the rows there are is known.
LEMMA HitsAre ==
  ASSUME InboxTyped, Told, NEW s \in Seq(Entries)
  PROVE  /\ Hits(s) \in Seq(HitType) /\ Len(Hits(s)) = Len(s) /\ Len(s) \in Nat
         /\ DOMAIN Hits(s) = 1..Len(s)
         /\ \A i \in 1..Len(s) :
              /\ s[i] \in DOMAIN inbox /\ Hits(s)[i].message = s[i]
              /\ indexed[s[i]] # NoEntry
              /\ inbox[s[i]].topic = Hits(s)[i].topic \/ inbox[s[i]].moved
<1>1. \A m \in Entries : m \in DOMAIN inbox /\ m \in Nat /\ indexed[m] # NoEntry /\ indexed[m].topic \in TopicIds \cup {0}
  <2>1. \A m \in Entries : m \in DOMAIN inbox /\ indexed[m] # NoEntry
    BY DEF Entries
  <2>2. \A m \in DOMAIN inbox : m \in Nat /\ m \in 1..Len(indexed)
    BY DEF InboxTyped
  <2>3. \A m \in 1..Len(indexed) : indexed[m] \in EntryType
    BY DEF InboxTyped
  <2>4. \A e \in EntryType : e.topic \in TopicIds \cup {0}
    BY DEF EntryType
  <2> QED
    BY <2>1, <2>2, <2>3, <2>4
<1>2. DOMAIN s = 1..Len(s) /\ Len(s) \in Nat /\ \A i \in 1..Len(s) : s[i] \in Entries
  OBVIOUS
<1>3. Hits(s) \in [1..Len(s) -> HitType]
  <2> SUFFICES ASSUME NEW i \in 1..Len(s)
               PROVE  [message |-> s[i], topic |-> indexed[s[i]].topic] \in HitType
    BY <1>2 DEF Hits
  <2> QED
    BY <1>1, <1>2 DEF HitType
<1>4. Hits(s) \in Seq(HitType) /\ Len(Hits(s)) = Len(s)
  BY <1>2, <1>3
<1>5. ASSUME NEW i \in 1..Len(s)
      PROVE  Hits(s)[i].message = s[i] /\ Hits(s)[i].topic = indexed[s[i]].topic
  BY <1>2 DEF Hits
<1>6. \A m \in Entries : indexed[m].topic = inbox[m].topic \/ inbox[m].moved
  BY <1>1 DEF Told
<1> QED
  BY <1>1, <1>2, <1>3, <1>4, <1>5, <1>6

\* A search that has no context yet.
LEMMA FoundIs ==
  ASSUME NEW f \in FindingType, f.contexts = <<>>, HitsKnown(f), Progress(f), f.does \notin {"before", "hit"}
  PROVE  SearchKnown(f)
BY DEF SearchKnown, ContextsKnown, WindowKnown, FindingType

\* The words' hits are messages indexed at that time.
LEMMA FuzzyIs ==
  ASSUME MessageSearchInv, FuzzySearch
  PROVE  SearchKnown(finding')
<1>1. PICK f : f = finding
  OBVIOUS
<1>2. f = NoFinding
  BY <1>1 DEF MessageSearchInv, SearchKnown, Progress, FuzzySearch
<1>3. PICK s \in Listed(Entries, 3 * MessageTopK) :
        finding' = [f EXCEPT !.does = "fuzzy", !.fuzzy = s, !.hits = Hits(s)]
  BY <1>1 DEF FuzzySearch
<1>4. InboxTyped /\ Told
  BY DEF MessageSearchInv
<1>5. s \in Seq(Entries) /\ IsInjective(s) /\ Len(s) <= 3 * MessageTopK
  <2>1. Entries \in SUBSET DOMAIN inbox
    BY DEF Entries
  <2>2. IsFiniteSet(Entries)
    BY <1>4, <2>1, RowsFinite
  <2>3. \E T \in SUBSET Entries : s \in SetToSeqs(T)
    BY DEF Listed, SetToAllKPermutations
  <2>4. Len(s) <= 3 * MessageTopK
    BY DEF Listed
  <2> QED
    BY <2>2, <2>3, <2>4, ListedAre
<1>6. PICK H : H = Hits(s)
  OBVIOUS
<1>7. /\ H \in Seq(HitType) /\ Len(H) = Len(s) /\ Len(s) \in Nat
      /\ \A i \in 1..Len(s) :
           /\ s[i] \in DOMAIN inbox /\ H[i].message = s[i] /\ indexed[s[i]] # NoEntry
           /\ inbox[s[i]].topic = H[i].topic \/ inbox[s[i]].moved
  BY <1>4, <1>5, <1>6, HitsAre
<1>8. PICK g : g = finding'
  OBVIOUS
<1>9. /\ g.does = "fuzzy" /\ g.fuzzy = s /\ g.hits = H /\ g.vector = <<>> /\ g.contexts = <<>>
      /\ g.near = {} /\ g.there = {}
      /\ g = [does |-> "fuzzy", fuzzy |-> s, vector |-> <<>>, hits |-> H, contexts |-> <<>>,
              near |-> {}, there |-> {}]
  BY <1>2, <1>3, <1>6, <1>8 DEF NoFinding
<1>10. g \in FindingType
  <2>1. s \in Seq(Nat)
    <3>1. Entries \subseteq Nat
      BY <1>4, RowsFinite DEF Entries
    <3> QED
      BY <1>5, <3>1, ListWidens
  <2> QED
    BY <1>7, <1>9, <2>1 DEF FindingType
<1>11. HitsKnown(g)
  BY <1>7, <1>9 DEF HitsKnown
<1>12. Progress(g)
  BY <1>5, <1>7, <1>9 DEF Progress
<1> QED
  BY <1>8, <1>9, <1>10, <1>11, <1>12, FoundIs

\* What both queries found together is what one of them found.
LEMMA VectorIs ==
  ASSUME MessageSearchInv, VectorSearch
  PROVE  SearchKnown(finding')
<1> DEFINE f == finding
<1>2. /\ f \in FindingType /\ f.does = "fuzzy" /\ f.contexts = <<>> /\ f.vector = <<>> /\ IsInjective(f.fuzzy)
      /\ Len(f.hits) = Len(f.fuzzy) /\ HitsKnown(f)
      /\ \A i \in 1..Len(f.fuzzy) : f.fuzzy[i] \in DOMAIN inbox /\ f.hits[i].message = f.fuzzy[i]
      /\ f.near \subseteq DOMAIN inbox /\ f.there \subseteq DOMAIN inbox
  BY DEF MessageSearchInv, SearchKnown, Progress, VectorSearch
<1> DEFINE Of(list, x) == {j \in 1..Len(list) : list[j].message = x}
           At(list, x) == IF Of(list, x) # {} THEN Min(Of(list, x)) ELSE 0
<1>3. PICK s \in Listed({m \in Entries : indexed[m].vector = "completed"}, 3 * MessageTopK) :
        finding' = [finding EXCEPT
          !.does = WhenFound(Fused(finding.fuzzy, s, MessageTopK)), !.vector = s,
          !.hits = [i \in DOMAIN Fused(finding.fuzzy, s, MessageTopK) |->
            (finding.hits \o Hits(s))[At(finding.hits \o Hits(s), Fused(finding.fuzzy, s, MessageTopK)[i])]]]
  BY DEF VectorSearch, SelectInSeq
<1> DEFINE fused == Fused(f.fuzzy, s, MessageTopK)
           H == Hits(s)
           first == f.hits \o H
           K == [i \in DOMAIN fused |-> first[At(first, fused[i])]]
<1>16. finding' = [f EXCEPT !.does = WhenFound(fused), !.vector = s, !.hits = K]
  BY <1>3
<1> HIDE DEF K, f, fused, H, first, At
<1>4. InboxTyped /\ Told
  BY DEF MessageSearchInv
<1>5. s \in Seq(Entries) /\ IsInjective(s)
  <2> DEFINE E == {m \in Entries : indexed[m].vector = "completed"}
  <2>1. E \in SUBSET DOMAIN inbox /\ E \subseteq Entries
    BY DEF Entries
  <2>2. IsFiniteSet(E)
    BY <1>4, <2>1, RowsFinite
  <2>3. \E T \in SUBSET E : s \in SetToSeqs(T)
    BY DEF Listed, SetToAllKPermutations
  <2>4. s \in Seq(E) /\ IsInjective(s)
    BY <2>2, <2>3, ListedAre
  <2> QED
    BY <2>1, <2>4
<1>7. /\ H \in Seq(HitType) /\ Len(H) = Len(s) /\ Len(s) \in Nat
      /\ \A i \in 1..Len(s) :
           /\ s[i] \in DOMAIN inbox /\ H[i].message = s[i] /\ indexed[s[i]] # NoEntry
           /\ inbox[s[i]].topic = H[i].topic \/ inbox[s[i]].moved
  BY <1>4, <1>5, HitsAre DEF H
<1>8. f.hits \in Seq(HitType) /\ f.fuzzy \in Seq(Nat) /\ Len(f.hits) \in Nat /\ Len(f.fuzzy) \in Nat
  BY <1>2 DEF FindingType
<1>9. first \in Seq(HitType) /\ Len(first) = Len(f.hits) + Len(H) /\ Len(first) \in Nat
  <2>1. H \in Seq(HitType)
    BY <1>7
  <2>2. \A x, y \in Seq(HitType) : x \o y \in Seq(HitType) /\ Len(x \o y) = Len(x) + Len(y) /\ Len(x \o y) \in Nat
    OBVIOUS
  <2> QED
    BY <1>8, <2>1, <2>2 DEF first
<1>10. /\ \A i \in 1..Len(f.hits) : first[i] = f.hits[i] /\ i \in 1..Len(first)
       /\ \A i \in 1..Len(H) : first[Len(f.hits) + i] = H[i] /\ Len(f.hits) + i \in 1..Len(first)
  <2>1. \A i \in 1..Len(f.hits) : first[i] = f.hits[i]
    BY <1>7, <1>8 DEF first
  <2>2. \A i \in 1..Len(H) : first[Len(f.hits) + i] = H[i]
    BY <1>7, <1>8 DEF first
  <2>3. PICK p \in Nat, q \in Nat : p = Len(f.hits) /\ q = Len(H) /\ Len(first) = p + q
    BY <1>7, <1>8, <1>9
  <2>4. (\A i \in 1..p : i \in 1..(p + q)) /\ (\A i \in 1..q : p + i \in 1..(p + q))
    OBVIOUS
  <2> QED
    BY <2>1, <2>2, <2>3, <2>4
\* Each hit of the first list or of the second is known.
<1>11. \A j \in 1..Len(first) :
         LET m == first[j].message
         IN /\ m \in DOMAIN inbox
            /\ \/ inbox[m].deleted
               \/ indexed[m] # NoEntry /\ (inbox[m].topic = first[j].topic \/ inbox[m].moved)
  <2> SUFFICES ASSUME NEW j \in 1..Len(first), NEW m, m = first[j].message
               PROVE  /\ m \in DOMAIN inbox
                      /\ \/ inbox[m].deleted
                         \/ indexed[m] # NoEntry /\ (inbox[m].topic = first[j].topic \/ inbox[m].moved)
    OBVIOUS
  <2>1. CASE j \in 1..Len(f.hits)
    <3>1. first[j] = f.hits[j]
      BY <1>10, <2>1
    <3> QED
      BY <1>2, <2>1, <3>1 DEF HitsKnown
  <2>2. CASE j \notin 1..Len(f.hits)
    <3>1. PICK i \in 1..Len(H) : j = Len(f.hits) + i
      <4>1. PICK p \in Nat, q \in Nat : p = Len(f.hits) /\ q = Len(H) /\ Len(first) = p + q
        BY <1>7, <1>8, <1>9
      <4>2. j \in 1..(p + q) /\ j \notin 1..p
        BY <2>2, <4>1
      <4>3. j - p \in 1..q /\ j = p + (j - p)
        BY <4>2
      <4> QED
        BY <4>1, <4>3
    <3>2. first[j] = H[i]
      BY <1>10, <3>1
    <3> QED
      BY <1>7, <3>2
  <2> QED
    BY <2>1, <2>2
<1>12. /\ WellFused(f.fuzzy, s, fused, MessageTopK)
       /\ fused \in Seq(ToSet(f.fuzzy) \cup ToSet(s)) /\ Len(fused) <= MessageTopK
  <2>1. f.fuzzy \in Seq(Nat) /\ s \in Seq(Nat) /\ MessageTopK \in Nat
    <3>1. Entries \subseteq Nat
      BY <1>4, RowsFinite DEF Entries
    <3> QED
      BY <1>5, <1>8, <3>1, ListWidens, MessageSearchAssumption
  <2> QED
    BY <1>2, <1>5, <2>1, FusionKeepsOrder DEF fused
<1>13. Len(fused) \in Nat /\ DOMAIN fused = 1..Len(fused)
  BY <1>12
\* What is in the fusion is found in one of the two lists.
<1>14. ASSUME NEW i \in 1..Len(fused)
       PROVE  At(first, fused[i]) \in 1..Len(first) /\ first[At(first, fused[i])].message = fused[i]
  <2> DEFINE I == Of(first, fused[i])
  <2>1. fused[i] \in ToSet(f.fuzzy) \cup ToSet(s)
    BY <1>12, <1>13
  <2>2. I # {}
    <3>1. CASE fused[i] \in ToSet(f.fuzzy)
      <4>1. PICK j \in 1..Len(f.fuzzy) : f.fuzzy[j] = fused[i]
        <5>1. DOMAIN f.fuzzy = 1..Len(f.fuzzy)
          BY <1>8
        <5> QED
          BY <3>1, <5>1 DEF ToSet
      <4>2. j \in 1..Len(first) /\ first[j].message = fused[i]
        BY <1>2, <1>10, <4>1
      <4> QED
        BY <4>2
    <3>2. CASE fused[i] \in ToSet(s)
      <4>1. PICK j \in 1..Len(s) : s[j] = fused[i]
        BY <1>5, <3>2 DEF ToSet
      <4>2. Len(f.hits) + j \in 1..Len(first) /\ first[Len(f.hits) + j].message = fused[i]
        BY <1>7, <1>10, <4>1
      <4> QED
        BY <4>2
    <3> QED
      BY <2>1, <3>1, <3>2
  <2>3. I \subseteq Nat /\ \A j \in I : j \in 1..Len(first) /\ first[j].message = fused[i]
    BY <1>9
  <2> HIDE DEF Of
  <2>4. \E j \in I : \A k \in I : j <= k
    <3> HIDE DEF I
    <3> QED
      BY <2>2, <2>3, LeastOf
  <2>5. Min(I) \in I
    <3> HIDE DEF I
    <3> QED
      BY <2>4 DEF Min
  <2>6. At(first, fused[i]) = Min(I)
    BY <2>2 DEF At
  <2> QED
    BY <2>3, <2>5, <2>6
<1> HIDE DEF Of
<1>17. \A i \in 1..Len(fused) : \E j \in 1..Len(first) : K[i] = first[j] /\ first[j].message = fused[i]
  <2> SUFFICES ASSUME NEW i \in 1..Len(fused)
               PROVE  \E j \in 1..Len(first) : K[i] = first[j] /\ first[j].message = fused[i]
    OBVIOUS
  <2>1. K[i] = first[At(first, fused[i])]
    BY <1>13 DEF K
  <2> QED
    BY <1>14, <2>1
<1>18. DOMAIN K = 1..Len(fused)
  BY <1>13 DEF K
<1>19. K \in Seq(HitType) /\ Len(K) = Len(fused)
  <2>1. \A i \in 1..Len(fused) : K[i] \in HitType
    BY <1>9, <1>17
  <2>2. K \in [1..Len(fused) -> HitType]
    <3>1. K = [i \in 1..Len(fused) |-> first[At(first, fused[i])]]
      BY <1>13 DEF K
    <3>2. \A i \in 1..Len(fused) : first[At(first, fused[i])] \in HitType
      BY <1>9, <1>14
    <3> QED
      BY <3>1, <3>2
  <2> QED
    BY <1>13, <2>2
<1>20. PICK g : g = finding'
  OBVIOUS
<1>21. /\ g.does = WhenFound(fused) /\ g.fuzzy = f.fuzzy /\ g.hits = K /\ g.vector = s /\ g.contexts = <<>>
       /\ g.near = f.near /\ g.there = f.there
  BY <1>2, <1>16, <1>20 DEF FindingType
<1>22. g.does \in {"found", "done"} /\ (g.does = "found" => fused # <<>>)
  BY <1>21 DEF WhenFound
<1>23. g \in FindingType
  <2>1. s \in Seq(Nat)
    <3>1. Entries \subseteq Nat
      BY <1>4, RowsFinite DEF Entries
    <3> QED
      BY <1>5, <3>1, ListWidens
  <2> QED
    BY <1>2, <1>16, <1>19, <1>20, <1>21, <1>22, <2>1 DEF FindingType
<1>24. HitsKnown(g)
  <2> SUFFICES ASSUME NEW i \in 1..Len(g.hits), NEW m, m = g.hits[i].message
               PROVE  /\ m \in DOMAIN inbox
                      /\ \/ inbox[m].deleted
                         \/ indexed[m] # NoEntry /\ (inbox[m].topic = g.hits[i].topic \/ inbox[m].moved)
    BY DEF HitsKnown
  <2>1. PICK j \in 1..Len(first) : g.hits[i] = first[j]
    BY <1>17, <1>19, <1>21
  <2> QED
    BY <1>11, <2>1
<1>25. [i \in DOMAIN g.hits |-> g.hits[i].message] = fused
  <2>1. \A i \in 1..Len(fused) : K[i].message = fused[i]
    BY <1>17
  <2>2. fused = [i \in 1..Len(fused) |-> fused[i]]
    BY <1>12
  <2> QED
    BY <1>18, <1>21, <2>1, <2>2
<1>26. Progress(g)
  <2>1. g.does = "found" => Len(g.contexts) < Len(g.hits)
    BY <1>12, <1>13, <1>19, <1>21, <1>22
  <2>2. Len(g.hits) <= 3 * MessageTopK
    BY <1>12, <1>13, <1>19, <1>21, MessageSearchAssumption
  <2>3. WellFused(g.fuzzy, g.vector, [i \in DOMAIN g.hits |-> g.hits[i].message], MessageTopK)
    BY <1>12, <1>21, <1>25
  <2> QED
    BY <1>2, <1>21, <1>22, <2>1, <2>2, <2>3 DEF Progress
<1> QED
  BY <1>20, <1>21, <1>22, <1>23, <1>24, <1>26, FoundIs

\* An error shows nothing.
LEMMA FailedIs ==
  ASSUME VectorSearchFails
  PROVE  SearchKnown(finding')
<1>1. PICK g : g = finding'
  OBVIOUS
<1>2. g = [does |-> "done", fuzzy |-> <<>>, vector |-> <<>>, hits |-> <<>>, contexts |-> <<>>,
           near |-> {}, there |-> {}]
  BY <1>1 DEF VectorSearchFails, NoFinding
<1>3. g \in FindingType
  BY <1>2 DEF FindingType
<1>4. HitsKnown(g) /\ Progress(g)
  BY <1>2, MessageSearchAssumption DEF HitsKnown, Progress
<1> QED
  BY <1>1, <1>2, <1>3, <1>4, FoundIs

\* Hits that are not the fusion of two lists,
LEMMA FoundAtOnce ==
  ASSUME MessageSearchInv, NEW s \in Seq(Entries), Len(s) <= MessageTopK,
         NEW d, d = "found" \/ d = "done", d = "found" => s # <<>>,
         NEW g, g = [does |-> d, fuzzy |-> <<>>, vector |-> <<>>, hits |-> Hits(s), contexts |-> <<>>,
                     near |-> {}, there |-> {}]
  PROVE  SearchKnown(g)
<1>1. PICK H : H = Hits(s)
  OBVIOUS
<1>2. InboxTyped /\ Told
  BY DEF MessageSearchInv
<1>3. /\ H \in Seq(HitType) /\ Len(H) = Len(s) /\ Len(s) \in Nat
      /\ \A i \in 1..Len(s) :
           /\ s[i] \in DOMAIN inbox /\ H[i].message = s[i] /\ indexed[s[i]] # NoEntry
           /\ inbox[s[i]].topic = H[i].topic \/ inbox[s[i]].moved
  BY <1>1, <1>2, HitsAre
<1>4. g = [does |-> d, fuzzy |-> <<>>, vector |-> <<>>, hits |-> H, contexts |-> <<>>,
           near |-> {}, there |-> {}]
  BY <1>1
<1>8. /\ g.does = d /\ g.fuzzy = <<>> /\ g.vector = <<>> /\ g.hits = H /\ g.contexts = <<>>
      /\ g.near = {} /\ g.there = {}
  <2>1. PICK e : e = d
    OBVIOUS
  <2>2. g = [does |-> e, fuzzy |-> <<>>, vector |-> <<>>, hits |-> H, contexts |-> <<>>,
             near |-> {}, there |-> {}]
    BY <1>4, <2>1
  <2>3. g.does = e
    BY <2>2
  <2>4. g.fuzzy = <<>> /\ g.vector = <<>> /\ g.contexts = <<>>
    BY <2>2
  <2>5. g.hits = H
    BY <2>2
  <2>6. g.near = {} /\ g.there = {}
    BY <2>2
  <2> QED
    BY <2>1, <2>3, <2>4, <2>5, <2>6
<1>5. g \in FindingType
  BY <1>3, <1>4, <1>8 DEF FindingType
<1>6. HitsKnown(g)
  BY <1>3, <1>8 DEF HitsKnown
<1>7. Progress(g)
  <2>1. Len(g.hits) <= 3 * MessageTopK
    BY <1>3, <1>8, MessageSearchAssumption
  <2>2. d = "found" => Len(g.contexts) < Len(g.hits)
    BY <1>3, <1>8
  <2> QED
    BY <1>8, <2>1, <2>2 DEF Progress
<1> QED
  BY <1>8, <1>5, <1>6, <1>7, FoundIs

\* those of a search without words and the one message that is asked for.
LEMMA FilterIs ==
  ASSUME MessageSearchInv, FilterOnlySearch \/ \E m \in DOMAIN inbox : MessageContext(m)
  PROVE  SearchKnown(finding')
<1>1. finding = NoFinding
  BY DEF MessageSearchInv, SearchKnown, Progress, FilterOnlySearch, MessageContext
<1>2. CASE FilterOnlySearch
  <2>0. PICK S \in SUBSET Entries :
          \E T \in LastOf(S, MessageTopK) : \E s \in SetToSeqs(T) :
            finding' = [NoFinding EXCEPT !.does = WhenFound(s), !.hits = Hits(s)]
    BY <1>1, <1>2 DEF FilterOnlySearch
  <2>9. PICK T \in LastOf(S, MessageTopK) : \E s \in SetToSeqs(T) :
          finding' = [NoFinding EXCEPT !.does = WhenFound(s), !.hits = Hits(s)]
    BY <2>0
  <2>1. PICK s \in SetToSeqs(T) :
          finding' = [NoFinding EXCEPT !.does = WhenFound(s), !.hits = Hits(s)]
    BY <2>9
  <2>2. T \in SUBSET S /\ Cardinality(T) = IF Cardinality(S) < MessageTopK THEN Cardinality(S) ELSE MessageTopK
    BY DEF LastOf
  <2>3. IsFiniteSet(S) /\ IsFiniteSet(T) /\ T \in SUBSET Entries
    <3>1. S \in SUBSET DOMAIN inbox /\ T \in SUBSET DOMAIN inbox
      BY <2>2 DEF Entries
    <3> QED
      BY <2>2, <3>1, RowsFinite DEF MessageSearchInv
  <2>4. Cardinality(S) \in Nat /\ Cardinality(T) \in Nat
    BY <2>3, FS_CardinalityType
  <2>5. Cardinality(T) <= MessageTopK
    BY <2>2, <2>4, MessageSearchAssumption
  <2>6. s \in Seq(T) /\ Len(s) <= Cardinality(T)
    BY <2>3, ListedAre
  <2>7. s \in Seq(Entries) /\ Len(s) <= MessageTopK
    BY <2>3, <2>4, <2>5, <2>6, MessageSearchAssumption
  <2> QED
    <3>1. PICK d : d = WhenFound(s)
      OBVIOUS
    <3>2. (d = "found" \/ d = "done") /\ (d = "found" => s # <<>>)
      BY <3>1 DEF WhenFound
    <3>3. finding' = [does |-> d, fuzzy |-> <<>>, vector |-> <<>>, hits |-> Hits(s), contexts |-> <<>>,
                      near |-> {}, there |-> {}]
      BY <2>1, <3>1 DEF NoFinding
    <3> QED
      BY <2>7, <3>2, <3>3, FoundAtOnce
<1>3. CASE \E m \in DOMAIN inbox : MessageContext(m)
  <2>1. PICK m \in Entries : finding' = [NoFinding EXCEPT !.does = "found", !.hits = Hits(<<m>>)]
    BY <1>1, <1>3 DEF MessageContext
  <2>2. <<m>> \in Seq(Entries) /\ Len(<<m>>) = 1 /\ <<m>> # <<>>
    OBVIOUS
  <2>3. Len(<<m>>) <= MessageTopK
    BY <2>2, MessageSearchAssumption
  <2> QED
    <3>1. finding' = [does |-> "found", fuzzy |-> <<>>, vector |-> <<>>, hits |-> Hits(<<m>>),
                      contexts |-> <<>>, near |-> {}, there |-> {}]
      BY <2>1 DEF NoFinding
    <3>2. PICK d : d = "found"
      OBVIOUS
    <3> QED
      BY <2>2, <2>3, <3>1, <3>2, FoundAtOnce
<1> QED
  BY <1>2, <1>3

\* A search that has its hits, and its lists no more.
LEMMA Settled ==
  ASSUME NEW d, d = "found" \/ d = "done", NEW H \in Seq(HitType), NEW C \in Seq(ContextType)
  PROVE  [does |-> d, fuzzy |-> <<>>, vector |-> <<>>, hits |-> H, contexts |-> C,
          near |-> {}, there |-> {}] \in FindingType
BY DEF FindingType

\* A hit gets the context c it stands in.
LEMMA ContextIs ==
  ASSUME InboxTyped, NEW f, SearchKnown(f), f.does \in {"found", "hit"},
         NEW c \in ContextType, ContextKnown(c, f.hits),
         c.hit = f.hits[Len(f.contexts) + 1].message, c.topic = f.hits[Len(f.contexts) + 1].topic,
         NEW g, g = [f EXCEPT !.fuzzy = <<>>, !.vector = <<>>, !.near = {}, !.there = {},
                       !.contexts = Append(f.contexts, c),
                       !.does = IF Len(Append(f.contexts, c)) = Len(f.hits) THEN "done" ELSE "found"]
  PROVE  SearchKnown(g)
<1>1. f \in FindingType /\ HitsKnown(f) /\ ContextsKnown(f) /\ Progress(f)
  BY DEF SearchKnown
<1>2. PICK n \in Nat : n = Len(f.contexts) /\ n + 1 \in 1..Len(f.hits) /\ Len(f.hits) \in Nat
  <2>1. Len(f.contexts) \in Nat /\ Len(f.hits) \in Nat
    BY <1>1 DEF FindingType
  <2>2. Len(f.contexts) < Len(f.hits)
    BY <1>1 DEF Progress
  <2> QED
    BY <2>1, <2>2
<1>3. f.hits \in Seq(HitType) /\ f.contexts \in Seq(ContextType)
  BY <1>1 DEF FindingType
<1>5. c.hit = f.hits[n + 1].message /\ c.topic = f.hits[n + 1].topic
  BY <1>2
<1>7. PICK C : C = Append(f.contexts, c)
  OBVIOUS
<1>8. /\ C \in Seq(ContextType) /\ Len(C) = n + 1
      /\ C[n + 1] = c /\ \A i \in 1..n : C[i] = f.contexts[i]
  BY <1>2, <1>3, <1>7
<1>9. PICK d : d = IF Len(C) = Len(f.hits) THEN "done" ELSE "found"
  OBVIOUS
<1>10. (d = "done" \/ d = "found") /\ (d = "found" => n + 1 < Len(f.hits))
  BY <1>2, <1>8, <1>9
<1>11. g = [f EXCEPT !.fuzzy = <<>>, !.vector = <<>>, !.near = {}, !.there = {}, !.contexts = C, !.does = d]
  BY <1>7, <1>9
<1>12. /\ g.does = d /\ g.fuzzy = <<>> /\ g.vector = <<>> /\ g.hits = f.hits /\ g.contexts = C
       /\ g.near = {} /\ g.there = {}
  BY <1>1, <1>11 DEF FindingType
<1>13. g \in FindingType
  <2>1. g = [does |-> d, fuzzy |-> <<>>, vector |-> <<>>, hits |-> f.hits, contexts |-> C,
             near |-> {}, there |-> {}]
    BY <1>1, <1>11 DEF FindingType
  <2> QED
    <3>1. [does |-> d, fuzzy |-> <<>>, vector |-> <<>>, hits |-> f.hits, contexts |-> C,
           near |-> {}, there |-> {}] \in FindingType
      <4>1. f.hits \in Seq(HitType) /\ C \in Seq(ContextType) /\ (d = "found" \/ d = "done")
        BY <1>3, <1>8, <1>10
      <4> QED
        BY <4>1, Settled, Zenon
    <3> QED
      BY <2>1, <3>1, Zenon
<1>14. HitsKnown(g)
  BY <1>1, <1>12 DEF HitsKnown
<1>15. Progress(g)
  BY <1>1, <1>2, <1>8, <1>10, <1>12 DEF Progress
<1>16. ContextsKnown(g)
  <2>1. ASSUME NEW i \in 1..Len(g.contexts)
        PROVE  /\ g.contexts[i].hit = g.hits[i].message /\ g.contexts[i].topic = g.hits[i].topic
               /\ ContextKnown(g.contexts[i], g.hits)
    <3>1. CASE i = n + 1
      BY <1>5, <1>8, <1>12, <3>1
    <3>2. CASE i # n + 1
      <4>1. i \in 1..n /\ i \in 1..Len(f.contexts)
        BY <1>2, <1>8, <1>12, <3>2
      <4>2. g.contexts[i] = f.contexts[i]
        BY <1>8, <1>12, <4>1
      <4> QED
        BY <1>1, <1>12, <4>1, <4>2 DEF ContextsKnown
    <3> QED
      BY <3>1, <3>2
  <2> QED
    BY <1>2, <1>8, <1>12, <2>1 DEF ContextsKnown
<1>17. WindowKnown(g)
  BY <1>10, <1>12 DEF WindowKnown
<1> QED
  BY <1>13, <1>14, <1>15, <1>16, <1>17 DEF SearchKnown

\* WithContext, with what it does written out.
LEMMA WithContextIs ==
  ASSUME NEW these, NEW through
  PROVE  WithContext(these, through) =
           [finding EXCEPT !.fuzzy = <<>>, !.vector = <<>>, !.near = {}, !.there = {},
              !.contexts = Append(finding.contexts,
                [hit |-> finding.hits[Len(finding.contexts) + 1].message,
                 topic |-> finding.hits[Len(finding.contexts) + 1].topic,
                 messages |-> these, through |-> through]),
              !.does = IF Len(Append(finding.contexts,
                [hit |-> finding.hits[Len(finding.contexts) + 1].message,
                 topic |-> finding.hits[Len(finding.contexts) + 1].topic,
                 messages |-> these, through |-> through])) = Len(finding.hits)
                THEN "done" ELSE "found"]
BY DEF WithContext, NextHit

\* The context of a hit in a topic is the topic, as it is now or as it was for an earlier hit.
LEMMA TopicIs ==
  ASSUME MessageSearchInv, TopicContext
  PROVE  SearchKnown(finding')
<1> DEFINE t == NextHit.topic
           cached == {c \in ToSet(finding.contexts) : c.topic = t}
           these == IF cached # {} THEN (CHOOSE c \in cached : TRUE).messages
                       ELSE {m \in Shown : inbox[m].topic = t}
<1>5. finding.does = "found" /\ t # 0 /\ finding' = WithContext(these, {})
  BY DEF TopicContext
<1>1. PICK n : n = Len(finding.contexts) + 1
  OBVIOUS
<1>2. t = finding.hits[n].topic
  BY <1>1 DEF NextHit
<1>3. \A c \in cached : c.topic = t /\ c \in ToSet(finding.contexts)
  OBVIOUS
<1>4. /\ cached # {} => these = (CHOOSE c \in cached : TRUE).messages
      /\ cached = {} => these = {m \in Shown : inbox[m].topic = t}
  OBVIOUS
<1> HIDE DEF cached, these, t
<1>6. InboxTyped /\ SearchKnown(finding)
  BY DEF MessageSearchInv
<1>7. /\ finding \in FindingType /\ HitsKnown(finding) /\ ContextsKnown(finding)
      /\ n \in 1..Len(finding.hits) /\ finding.contexts \in Seq(ContextType)
  BY <1>1, <1>5, <1>6 DEF SearchKnown, Progress, FindingType
\* Every hit in this topic is among the messages.
<1>8. /\ these \subseteq DOMAIN inbox
      /\ \A i \in 1..Len(finding.hits) : finding.hits[i].topic = t =>
           \/ finding.hits[i].message \in these
           \/ inbox[finding.hits[i].message].deleted \/ inbox[finding.hits[i].message].moved
  <2>1. CASE cached = {}
    <3>1. these = {m \in Shown : inbox[m].topic = t}
      BY <1>4, <2>1
    <3> QED
      BY <1>7, <3>1 DEF HitsKnown, Shown
  <2>2. CASE cached # {}
    <3>1. PICK c \in cached : these = c.messages
      <4>1. (CHOOSE c \in cached : TRUE) \in cached
        BY <2>2
      <4> QED
        BY <1>4, <2>2, <4>1
    <3>2. PICK i \in 1..Len(finding.contexts) : c = finding.contexts[i]
      BY <1>3, <1>7, <3>1 DEF ToSet
    <3>3. ContextKnown(c, finding.hits)
      BY <1>7, <3>2 DEF ContextsKnown
    <3>4. c.topic = t
      BY <1>3
    <3> QED
      BY <1>5, <3>1, <3>3, <3>4 DEF ContextKnown
  <2> QED
    BY <2>1, <2>2
<1>9. PICK c : c = [hit |-> finding.hits[n].message, topic |-> finding.hits[n].topic,
                    messages |-> these, through |-> {}]
  OBVIOUS
<1>10. ContextKnown(c, finding.hits)
  <2>1. c.hit = finding.hits[n].message /\ c.topic = t /\ c.messages = these /\ c.through = {}
    BY <1>2, <1>9
  <2>2. c.hit \in DOMAIN inbox
    BY <1>7, <2>1 DEF HitsKnown
  <2> QED
    BY <1>5, <1>8, <2>1, <2>2 DEF ContextKnown
<1>11. finding' = [finding EXCEPT !.fuzzy = <<>>, !.vector = <<>>, !.near = {}, !.there = {},
         !.contexts = Append(finding.contexts, c),
         !.does = IF Len(Append(finding.contexts, c)) = Len(finding.hits) THEN "done" ELSE "found"]
  BY <1>1, <1>5, <1>9, WithContextIs
<1>12. c \in ContextType
  <2>1. finding.hits[n] \in HitType
    BY <1>7 DEF FindingType
  <2>2. finding.hits[n].message \in Nat /\ finding.hits[n].topic \in TopicIds \cup {0}
    BY <2>1 DEF HitType
  <2>3. these \subseteq Nat
    BY <1>6, <1>8, RowsFinite
  <2> QED
    BY <1>9, <2>2, <2>3 DEF ContextType
<1>13. /\ c.hit = finding.hits[Len(finding.contexts) + 1].message
       /\ c.topic = finding.hits[Len(finding.contexts) + 1].topic
  BY <1>1, <1>9
<1> QED
  BY <1>5, <1>6, <1>10, <1>11, <1>12, <1>13, ContextIs

\* What a part of a window is.
LEMMA BeforeIs ==
  ASSUME MessageSearchInv, WindowBefore
  PROVE  SearchKnown(finding')
<1>1. PICK f : f = finding
  OBVIOUS
<1>2. PICK next : next = f.hits[Len(f.contexts) + 1]
  OBVIOUS
<1>3. InboxTyped /\ SearchKnown(f) /\ f.does = "found" /\ next.topic = 0
  BY <1>1, <1>2 DEF MessageSearchInv, WindowBefore, NextHit
<1>4. PICK before \in LastOf({m \in Shown : inbox[m].time < inbox[NextHit.message].time}, ContextWindow) :
        finding' = [f EXCEPT !.does = "before", !.fuzzy = <<>>, !.vector = <<>>, !.near = before, !.there = Shown]
  BY <1>1 DEF WindowBefore
<1>5. PICK h : h = next.message
  OBVIOUS
<1>6. PICK S : S = {m \in Shown : inbox[m].time < inbox[h].time}
  OBVIOUS
<1>7. before \in LastOf(S, ContextWindow)
  <2>1. NextHit.message = h
    BY <1>1, <1>2, <1>5 DEF NextHit
  <2>2. {m \in Shown : inbox[m].time < inbox[NextHit.message].time} = S
    BY <1>6, <2>1
  <2> QED
    BY <1>4, <2>2
<1>8. before \subseteq S /\ \A m \in before, o \in S \ before : inbox[m].time >= inbox[o].time
  BY <1>7 DEF LastOf
<1>9. S \subseteq DOMAIN inbox /\ Shown \subseteq DOMAIN inbox
  BY <1>6 DEF Shown
<1>10. \A m \in DOMAIN inbox : inbox[m].time \in Int
  <2>1. \A m \in DOMAIN inbox : inbox[m] \in InboxType
    BY <1>3 DEF InboxTyped
  <2>2. \A k \in InboxType : k.time \in Int
    BY MessageSearchAssumption DEF InboxType
  <2> QED
    BY <2>1, <2>2
<1>11. PICK g : g = finding'
  OBVIOUS
<1>12. f \in FindingType /\ HitsKnown(f) /\ ContextsKnown(f) /\ Progress(f)
  BY <1>3 DEF SearchKnown
<1>13. /\ g.does = "before" /\ g.fuzzy = <<>> /\ g.vector = <<>> /\ g.hits = f.hits
       /\ g.contexts = f.contexts /\ g.near = before /\ g.there = Shown
  BY <1>4, <1>11, <1>12 DEF FindingType
<1>14. g \in FindingType
  <2>1. before \subseteq Nat /\ Shown \subseteq Nat
    BY <1>3, <1>8, <1>9, RowsFinite
  <2>2. g = [does |-> "before", fuzzy |-> <<>>, vector |-> <<>>, hits |-> f.hits, contexts |-> f.contexts,
             near |-> before, there |-> Shown]
    BY <1>4, <1>11, <1>12 DEF FindingType
  <2>3. f.hits \in Seq(HitType) /\ f.contexts \in Seq(ContextType)
    BY <1>12 DEF FindingType
  <2> QED
    BY <2>1, <2>2, <2>3 DEF FindingType
<1>15. HitsKnown(g) /\ ContextsKnown(g)
  BY <1>12, <1>13 DEF HitsKnown, ContextsKnown
<1>16. Progress(g)
  BY <1>3, <1>8, <1>9, <1>12, <1>13 DEF Progress
<1>17. WindowKnown(g)
  <2>1. \A x \in before : inbox[x].time < inbox[h].time
    BY <1>6, <1>8
  <2>2. \A m \in Shown : inbox[m].time < inbox[h].time =>
          m \in before \/ \A x \in before : inbox[m].time <= inbox[x].time
    BY <1>6, <1>8, <1>9, <1>10
  <2> QED
    BY <1>2, <1>3, <1>5, <1>13, <2>1, <2>2 DEF WindowKnown
<1> QED
  BY <1>11, <1>14, <1>15, <1>16, <1>17 DEF SearchKnown

\* The hit itself goes between the two sides of its window,
LEMMA HitIs ==
  ASSUME MessageSearchInv, WindowHit
  PROVE  SearchKnown(finding')
<1>1. PICK f : f = finding
  OBVIOUS
<1>2. PICK next : next = f.hits[Len(f.contexts) + 1]
  OBVIOUS
<1>3. PICK h : h = next.message
  OBVIOUS
<1>4. PICK near : near = f.near \cup ({h} \cap Shown)
  OBVIOUS
<1>5. InboxTyped /\ SearchKnown(f) /\ f.does = "before"
  BY <1>1 DEF MessageSearchInv, WindowHit
<1>6. finding' = [f EXCEPT !.does = "hit", !.near = near]
  <2>1. NextHit.message = h
    BY <1>1, <1>2, <1>3 DEF NextHit
  <2> QED
    BY <1>1, <1>4, <2>1 DEF WindowHit
<1>7. PICK g : g = finding'
  OBVIOUS
<1>8. f \in FindingType /\ HitsKnown(f) /\ ContextsKnown(f) /\ Progress(f) /\ WindowKnown(f)
  BY <1>5 DEF SearchKnown
<1>9. /\ g.does = "hit" /\ g.fuzzy = f.fuzzy /\ g.vector = f.vector /\ g.hits = f.hits
      /\ g.contexts = f.contexts /\ g.near = near /\ g.there = f.there
  BY <1>6, <1>7, <1>8 DEF FindingType
<1>10. near \subseteq DOMAIN inbox /\ (h \in near \/ inbox[h].deleted)
  <2>1. h \in DOMAIN inbox
    <3>1. Len(f.contexts) + 1 \in 1..Len(f.hits)
      BY <1>5, <1>8 DEF Progress, FindingType
    <3> QED
      BY <1>2, <1>3, <1>8, <3>1 DEF HitsKnown
  <2>2. f.near \subseteq DOMAIN inbox
    BY <1>8 DEF Progress
  <2> QED
    BY <1>4, <2>1, <2>2 DEF Shown
<1>11. g \in FindingType
  <2>1. near \subseteq Nat
    BY <1>5, <1>10, RowsFinite
  <2> QED
    BY <1>6, <1>7, <1>8, <2>1 DEF FindingType
<1>12. HitsKnown(g) /\ ContextsKnown(g)
  BY <1>8, <1>9 DEF HitsKnown, ContextsKnown
<1>13. Progress(g)
  BY <1>5, <1>8, <1>9, <1>10 DEF Progress
<1>14. WindowKnown(g)
  <2>1. /\ next.topic = 0
        /\ \A x \in f.near : inbox[x].time < inbox[h].time \/ x = h
        /\ \A m \in f.there : inbox[m].time < inbox[h].time =>
             m \in f.near \/ \A x \in f.near : inbox[m].time <= inbox[x].time
    BY <1>2, <1>3, <1>5, <1>8 DEF WindowKnown
  <2>2. \A x \in near : x \in f.near \/ x = h
    BY <1>4
  <2>3. f.near \subseteq near
    BY <1>4
  <2>4. \A m \in DOMAIN inbox : inbox[m].time \in Int
    <3>1. \A m \in DOMAIN inbox : inbox[m] \in InboxType
      BY <1>5 DEF InboxTyped
    <3>2. \A k \in InboxType : k.time \in Int
      BY MessageSearchAssumption DEF InboxType
    <3> QED
      BY <3>1, <3>2
  <2>5. \A m \in f.there : inbox[m].time < inbox[h].time =>
          m \in near \/ \A x \in near : inbox[m].time <= inbox[x].time
    <3>1. f.there \subseteq DOMAIN inbox
      BY <1>8 DEF Progress
    <3>2. h \in near => h \in DOMAIN inbox
      BY <1>10
    <3> QED
      BY <2>1, <2>2, <2>3, <2>4, <3>1, <3>2
  <2> QED
    BY <1>2, <1>3, <1>9, <1>10, <2>1, <2>2, <2>5 DEF WindowKnown
<1> QED
  BY <1>7, <1>11, <1>12, <1>13, <1>14 DEF SearchKnown

\* and with the other side the window is whole.
LEMMA AfterIs ==
  ASSUME MessageSearchInv, WindowAfter
  PROVE  SearchKnown(finding')
<1>1. PICK n : n = Len(finding.contexts) + 1
  OBVIOUS
<1>2. PICK next : next = finding.hits[n]
  OBVIOUS
<1>3. PICK h : h = next.message
  OBVIOUS
<1>4. PICK S : S = {m \in Shown : inbox[m].time > inbox[h].time}
  OBVIOUS
<1>5. finding.does = "hit"
      /\ \E after \in FirstOf({m \in Shown : inbox[m].time > inbox[NextHit.message].time}, ContextWindow) :
           finding' = WithContext(finding.near \cup after, finding.there \cap Shown)
  BY DEF WindowAfter
<1>6. PICK after \in FirstOf(S, ContextWindow) :
        finding' = WithContext(finding.near \cup after, finding.there \cap Shown)
  <2>1. NextHit.message = h
    BY <1>1, <1>2, <1>3 DEF NextHit
  <2>2. {m \in Shown : inbox[m].time > inbox[NextHit.message].time} = S
    BY <1>4, <2>1
  <2> QED
    BY <1>5, <2>2
<1>7. after \subseteq S /\ \A m \in after, o \in S \ after : inbox[m].time <= inbox[o].time
  BY <1>6 DEF FirstOf
<1>8. InboxTyped /\ SearchKnown(finding)
  BY DEF MessageSearchInv
<1>9. /\ finding \in FindingType /\ HitsKnown(finding) /\ Progress(finding) /\ WindowKnown(finding)
      /\ n \in 1..Len(finding.hits)
  BY <1>1, <1>5, <1>8 DEF SearchKnown, Progress, FindingType
<1>10. h \in DOMAIN inbox
  BY <1>2, <1>3, <1>9 DEF HitsKnown
<1>11. \A m \in DOMAIN inbox : inbox[m].time \in Int
  <2>1. \A m \in DOMAIN inbox : inbox[m] \in InboxType
    BY <1>8 DEF InboxTyped
  <2>2. \A k \in InboxType : k.time \in Int
    BY MessageSearchAssumption DEF InboxType
  <2> QED
    BY <2>1, <2>2
<1>12. PICK near, there : near = finding.near /\ there = finding.there
  OBVIOUS
<1>13. /\ next.topic = 0 /\ (h \in near \/ inbox[h].deleted)
       /\ \A x \in near : inbox[x].time < inbox[h].time \/ x = h
       /\ \A m \in there : inbox[m].time < inbox[h].time =>
            m \in near \/ \A x \in near : inbox[m].time <= inbox[x].time
  BY <1>1, <1>2, <1>3, <1>5, <1>9, <1>12 DEF WindowKnown
<1>14. near \subseteq DOMAIN inbox /\ there \subseteq DOMAIN inbox /\ S \subseteq DOMAIN inbox
  BY <1>4, <1>9, <1>12 DEF Progress, Shown
<1>15. PICK c : c = [hit |-> finding.hits[n].message, topic |-> finding.hits[n].topic,
                     messages |-> near \cup after, through |-> there \cap Shown]
  OBVIOUS
<1>16. c.hit = h /\ c.topic = 0 /\ c.messages = near \cup after /\ c.through = there \cap Shown
  BY <1>2, <1>3, <1>13, <1>15
\* What lies between two messages of the window was there when its side was read.
<1>17. Window(c)
  <2> SUFFICES ASSUME NEW m \in there \cap Shown, inbox[m].time # inbox[h].time,
                      NEW first \in near \cup after, NEW last \in near \cup after,
                      inbox[first].time < inbox[m].time, inbox[m].time < inbox[last].time
               PROVE  m \in near \cup after
    BY <1>16 DEF Window
  <2>1. m \in DOMAIN inbox /\ first \in DOMAIN inbox /\ last \in DOMAIN inbox
    BY <1>7, <1>14
  <2>2. PICK tm \in Int, tf \in Int, tl \in Int, th \in Int :
          tm = inbox[m].time /\ tf = inbox[first].time /\ tl = inbox[last].time /\ th = inbox[h].time
    BY <1>10, <1>11, <2>1
  <2>3. \A x \in after : inbox[x].time > th
    BY <1>4, <1>7, <2>2
  <2>4. \A x \in near : inbox[x].time < th \/ inbox[x].time = th
    BY <1>13, <2>2
  <2>5. CASE tm < th
    <3>1. first \in near
      BY <2>2, <2>3, <2>5
    <3>2. m \in near \/ tm <= tf
      BY <1>13, <2>2, <2>5, <3>1
    <3> QED
      BY <2>2, <3>2
  <2>6. CASE tm > th
    <3>1. last \in after
      BY <2>2, <2>4, <2>6
    <3>2. m \in S
      BY <1>4, <2>2, <2>6
    <3>3. m \in after \/ tl <= tm
      BY <1>7, <2>2, <3>1, <3>2
    <3> QED
      BY <2>2, <3>3
  <2> QED
    BY <2>2, <2>5, <2>6
<1>18. ContextKnown(c, finding.hits)
  <2>1. after \subseteq DOMAIN inbox
    BY <1>7, <1>14
  <2> QED
    BY <1>10, <1>13, <1>14, <1>16, <1>17, <2>1 DEF ContextKnown
<1>19. finding' = [finding EXCEPT !.fuzzy = <<>>, !.vector = <<>>, !.near = {}, !.there = {},
         !.contexts = Append(finding.contexts, c),
         !.does = IF Len(Append(finding.contexts, c)) = Len(finding.hits) THEN "done" ELSE "found"]
  BY <1>1, <1>6, <1>12, <1>15, WithContextIs
<1>20. c \in ContextType
  <2>1. finding.hits[n] \in HitType
    BY <1>9 DEF FindingType
  <2>2. finding.hits[n].message \in Nat /\ finding.hits[n].topic \in TopicIds \cup {0}
    BY <2>1 DEF HitType
  <2>3. near \cup after \subseteq Nat /\ there \cap Shown \subseteq Nat
    BY <1>7, <1>8, <1>14, RowsFinite
  <2> QED
    BY <1>15, <2>2, <2>3 DEF ContextType
<1>21. /\ c.hit = finding.hits[Len(finding.contexts) + 1].message
       /\ c.topic = finding.hits[Len(finding.contexts) + 1].topic
  BY <1>1, <1>15
<1> QED
  BY <1>5, <1>8, <1>18, <1>19, <1>20, <1>21, ContextIs

\* Every step keeps what the search knows.
LEMMA MessageSearchKept ==
  ASSUME MessageSearchInv, [MessageSearchNext]_messageSearchVars
  PROVE  MessageSearchInv'
<1>1. InboxTyped /\ Told
  BY DEF MessageSearchInv
<1>3. CASE Meanwhile
  BY <1>3, MeanwhileKept
<1>4. ASSUME inbox' = inbox, indexed' = indexed, SearchKnown(finding')
      PROVE  MessageSearchInv'
  <2>1. InboxTyped' /\ Told'
    BY <1>1, <1>4 DEF InboxTyped, Told
  <2>2. SearchKnown(finding)'
    BY <1>4 DEF SearchKnown, HitsKnown, ContextsKnown, ContextKnown, Window, Progress, WindowKnown
  <2> QED
    BY <2>1, <2>2 DEF MessageSearchInv
<1>2. CASE UNCHANGED messageSearchVars
  <2>1. inbox' = inbox /\ indexed' = indexed /\ finding' = finding
    BY <1>2 DEF messageSearchVars
  <2>2. SearchKnown(finding')
    BY <2>1 DEF MessageSearchInv
  <2> QED
    BY <1>4, <2>1, <2>2
<1>5. CASE FuzzySearch
  BY <1>4, <1>5, FuzzyIs DEF FuzzySearch
<1>6. CASE VectorSearch
  BY <1>4, <1>6, VectorIs DEF VectorSearch
<1>7. CASE VectorSearchFails
  BY <1>4, <1>7, FailedIs DEF VectorSearchFails
<1>8. CASE FilterOnlySearch
  BY <1>4, <1>8, FilterIs DEF FilterOnlySearch
<1>9. CASE \E m \in DOMAIN inbox : MessageContext(m)
  BY <1>4, <1>9, FilterIs DEF MessageContext
<1>10. CASE TopicContext
  BY <1>4, <1>10, TopicIs DEF TopicContext
<1>11. CASE WindowBefore
  BY <1>4, <1>11, BeforeIs DEF WindowBefore
<1>12. CASE WindowHit
  BY <1>4, <1>12, HitIs DEF WindowHit
<1>13. CASE WindowAfter
  BY <1>4, <1>13, AfterIs DEF WindowAfter
<1>14. CASE \E t \in TopicIds \cup {0}, time \in Times : StoreMessage(t, time)
  BY <1>1, <1>3, <1>14, StoreIs
<1>15. CASE \E m \in DOMAIN inbox : IndexMessage(m) \/ EmbedMessage(m)
  BY <1>1, <1>3, <1>15, IndexIs
<1>16. CASE \E m \in DOMAIN inbox, hard \in BOOLEAN : DropMessage(m, hard)
  BY <1>1, <1>3, <1>16, DropIs
<1>17. CASE \E m \in DOMAIN inbox, t \in TopicIds \cup {0} : MoveMessage(m, t)
  BY <1>1, <1>3, <1>17, MoveIs
<1> QED
  BY <1>2, <1>5, <1>6, <1>7, <1>8, <1>9, <1>10, <1>11, <1>12, <1>13, <1>14, <1>15, <1>16, <1>17
     DEF MessageSearchNext

\* So the search knows what it shows.
LEMMA MessageSearchHolds == MessageSearchSpec => []MessageSearchInv
<1>1. MessageSearchInit => MessageSearchInv
  BY MessageSearchStarts
<1>2. MessageSearchInv /\ [MessageSearchNext]_messageSearchVars => MessageSearchInv'
  BY MessageSearchKept
<1> QED
  BY <1>1, <1>2, PTL DEF MessageSearchSpec

\* ContextRetrievalService: while messages are stored late, moved and deleted between the
\* queries of a search, a hit still stands in the context it is shown in, and a window of
\* what came before and after it leaves out nothing between two messages it shows.
THEOREM ContextsAreWhole == MessageSearchSpec => []ContextIsWhole
<1>1. MessageSearchInv => ContextIsWhole
  <2> SUFFICES ASSUME MessageSearchInv PROVE ContextIsWhole
    OBVIOUS
  <2>1. ContextsKnown(finding) /\ HitsKnown(finding) /\ finding \in FindingType
    BY DEF MessageSearchInv, SearchKnown
  <2>2. DOMAIN finding.contexts = 1..Len(finding.contexts) /\ Len(finding.contexts) \in Nat /\ Len(finding.hits) \in Nat
    BY <2>1 DEF FindingType
  <2> SUFFICES ASSUME NEW i \in 1..Len(finding.contexts), NEW c, c = finding.contexts[i]
               PROVE  /\ c.hit \in c.messages \/ inbox[c.hit].deleted \/ inbox[c.hit].moved
                      /\ c.topic = 0 => Window(c)
    BY <2>2 DEF ContextIsWhole, Window
  <2>3. i \in 1..Len(finding.hits)
    BY <2>1, <2>2 DEF ContextsKnown
  <2>4. c.hit = finding.hits[i].message /\ c.topic = finding.hits[i].topic /\ ContextKnown(c, finding.hits)
    BY <2>1 DEF ContextsKnown
  <2> QED
    BY <2>3, <2>4 DEF ContextKnown
<1> QED
  BY <1>1, MessageSearchHolds, PTL

\* HybridSearchEngine.search: the messages a hybrid search answers with are a fusion that
\* keeps to both of its lists.
LEMMA MessagesKeepOrder == MessageSearchSpec => []MessagesWellFused
<1>1. MessageSearchInv => MessagesWellFused
  BY DEF MessageSearchInv, SearchKnown, Progress, MessagesWellFused
<1> QED
  BY <1>1, MessageSearchHolds, PTL

---------------------------------------------------------------------------
\* The types of the search in the knowledge base,
TextType == [node : NodeIds \cup {NoNode}, row : RowIds \cup {NoRow}, part : 0..(MaxParts + 1)]
KeyType == (NodeIds \cup {NoNode}) \X (RowIds \cup {NoRow})
LookupType ==
  [does : {"idle", "nodes", "rows", "fuzzy", "vector", "done", "failed"},
   mode : {"none", "fuzzy", "vector", "hybrid"},
   folders : SUBSET NodeIds, gone : SUBSET (NodeIds \cup RowIds), left : SUBSET NodeIds,
   scope : SUBSET NodeIds, rows : SUBSET RowIds,
   fuzzy : Seq(TextType), vector : Seq(TextType), hits : Seq(TextType)]

\* what is embedded,
ChunksKnown == chunks \subseteq TextType /\ \A c \in chunks : c.node = NoNode <=> c.row # NoRow

\* what a search l may find,
Within(l, n) == n \in l.gone => n \in l.folders
MayFind(l, h) ==
  h.row \notin l.gone /\ Within(l, IF h.row = NoRow THEN h.node ELSE DatasetOf[h.row])

\* and where it is.
ScopeKnown(l) ==
  /\ \A n \in l.left \cup l.scope : Within(l, n)
  /\ \A r \in l.rows : r \notin l.gone /\ DatasetOf[r] \in l.scope
ListsKnown(l) ==
  /\ \A i \in 1..Len(l.fuzzy) : MayFind(l, l.fuzzy[i])
  /\ \A i \in 1..Len(l.hits) : MayFind(l, l.hits[i])
  /\ IsInjective(Keys(l.fuzzy))
  /\ l.does \in {"idle", "nodes", "rows", "fuzzy"} => l.fuzzy = <<>> /\ l.vector = <<>> /\ l.hits = <<>>
  /\ l.does = "done" /\ l.mode = "hybrid" =>
       WellFused(Keys(l.fuzzy), Keys(l.vector), Keys(l.hits), KnowledgeTopK)
LookupKnown(l) == l \in LookupType /\ ScopeKnown(l) /\ ListsKnown(l)
KnowledgeSearchInv ==
  /\ shelf \subseteq NodeIds \cup RowIds /\ lookup.gone \cap shelf = {}
  /\ ChunksKnown /\ LookupKnown(lookup)

\* There are finitely many texts.
LEMMA TextsFinite == IsFiniteSet(TextType)
<1> DEFINE N == NodeIds \cup {NoNode}
           R == RowIds \cup {NoRow}
           P == 0..(MaxParts + 1)
           f == [p \in N \X (R \X P) |-> [node |-> p[1], row |-> p[2][1], part |-> p[2][2]]]
<1>1. IsFiniteSet(N) /\ IsFiniteSet(R)
  BY KnowledgeSearchAssumption, FS_AddElement
<1>2. IsFiniteSet(P)
  BY KnowledgeSearchAssumption, FS_Interval
<1>3. IsFiniteSet(R \X P)
  BY <1>1, <1>2, FS_Product
<1>4. IsFiniteSet(N \X (R \X P))
  BY <1>1, <1>3, FS_Product
<1>5. f \in [N \X (R \X P) -> TextType]
  BY DEF TextType
<1>6. ASSUME NEW h \in TextType PROVE \E p \in N \X (R \X P) : f[p] = h
  <2>1. h = [node |-> h.node, row |-> h.row, part |-> h.part] /\ h.node \in N /\ h.row \in R /\ h.part \in P
    BY DEF TextType
  <2>2. <<h.node, <<h.row, h.part>>>> \in N \X (R \X P)
    BY <2>1
  <2>3. f[<<h.node, <<h.row, h.part>>>>] = h
    BY <2>1, <2>2
  <2> QED
    BY <2>2, <2>3
<1> HIDE DEF f, N, R, P
<1>7. f \in Surjection(N \X (R \X P), TextType)
  BY <1>5, <1>6 DEF Surjection
<1> QED
  BY <1>4, <1>7, FS_Surjection

\* The keys of a list.
LEMMA KeysAre ==
  ASSUME NEW s \in Seq(TextType)
  PROVE  /\ Keys(s) \in Seq(KeyType) /\ Len(Keys(s)) = Len(s) /\ Len(s) \in Nat
         /\ DOMAIN Keys(s) = 1..Len(s)
         /\ \A i \in 1..Len(s) : s[i] \in TextType /\ Keys(s)[i] = <<s[i].node, s[i].row>>
<1>1. DOMAIN s = 1..Len(s) /\ Len(s) \in Nat /\ \A i \in 1..Len(s) : s[i] \in TextType
  OBVIOUS
<1>2. \A h \in TextType : <<h.node, h.row>> \in KeyType
  BY DEF TextType, KeyType
<1>3. Keys(s) = [i \in 1..Len(s) |-> <<s[i].node, s[i].row>>]
  BY <1>1 DEF Keys, FusionKey
<1>4. Keys(s) \in [1..Len(s) -> KeyType]
  BY <1>1, <1>2, <1>3
<1>5. Keys(s) \in Seq(KeyType) /\ Len(Keys(s)) = Len(s)
  BY <1>1, <1>4
<1>6. \A i \in 1..Len(s) : Keys(s)[i] = <<s[i].node, s[i].row>>
  BY <1>3
<1>7. DOMAIN Keys(s) = 1..Len(s)
  BY <1>4
<1> QED
  BY <1>1, <1>5, <1>6, <1>7

\* An empty list has none.
LEMMA NoKeys == Keys(<<>>) = <<>>
<1>1. DOMAIN <<>> = {} /\ DOMAIN Keys(<<>>) = {}
  BY DEF Keys
<1>2. <<>> \in Seq(TextType)
  OBVIOUS
<1>3. Keys(<<>>) \in Seq(KeyType) /\ Len(Keys(<<>>)) = 0
  BY <1>2, KeysAre
<1> QED
  BY <1>3
\* The best chunks so far.
LEMMA BestSteps ==
  ASSUME NEW N \in Nat, NEW seq, DOMAIN seq = 1..N
  PROVE  \E v : /\ v[0] = <<>>
                /\ \A n \in 1..N : v[n] = (IF Contains(Keys(v[n - 1]), FusionKey(seq[n])) THEN v[n - 1] ELSE Append(v[n - 1], seq[n]))
                /\ FoldLeft(LAMBDA best, h : IF Contains(Keys(best), FusionKey(h)) THEN best ELSE Append(best, h), <<>>, seq) = v[N]
<1> DEFINE Body(f, s) == IF s = {} THEN <<>> ELSE (IF Contains(Keys(f[s \ {Max(s)}]), FusionKey(seq[Max(s)])) THEN f[s \ {Max(s)}] ELSE Append(f[s \ {Max(s)}], seq[Max(s)]))
           iter == CHOOSE f : f = [s \in SUBSET (1..N) |-> Body(f, s)]
<1>1. FoldLeft(LAMBDA best, h : IF Contains(Keys(best), FusionKey(h)) THEN best ELSE Append(best, h), <<>>, seq) = iter[1..N]
  BY DEF FoldLeft, MapThenFoldSet
<1>2. \A n \in 0..N : \E f : f = [s \in SUBSET (1..n) |-> Body(f, s)]
  <2> DEFINE Is(n) == \E f : f = [s \in SUBSET (1..n) |-> Body(f, s)]
             T == {n \in 0..N : ~Is(n)}
  <2> SUFFICES ASSUME T # {} PROVE FALSE
    OBVIOUS
  <2> HIDE DEF Is
  <2>1. PICK n \in T : \A m \in T : n <= m
    <3>1. T \subseteq Nat
      OBVIOUS
    <3> HIDE DEF T
    <3> QED
      BY <3>1, LeastOf
  <2>4. n \in 0..N /\ ~Is(n) /\ \A m \in 0..N : m < n => Is(m)
    BY <2>1
  <2>2. CASE n = 0
    <3> DEFINE h == [s \in SUBSET (1..0) |-> <<>>]
    <3>1. h = [s \in SUBSET (1..0) |-> Body(h, s)]
      OBVIOUS
    <3> QED
      BY <2>2, <2>4, <3>1 DEF Is
  <2>3. CASE n # 0
    <3>1. n \in Nat /\ n - 1 \in 0..N /\ Is(n - 1)
      BY <2>3, <2>4
    <3>2. PICK g : g = [s \in SUBSET (1..(n - 1)) |-> Body(g, s)]
      BY <3>1 DEF Is
    <3> DEFINE h == [s \in SUBSET (1..n) |-> Body(g, s)]
    <3>3. ASSUME NEW s \in SUBSET (1..n)
          PROVE  Body(g, s) = Body(h, s)
      <4>1. CASE s = {}
        BY <4>1
      <4>2. CASE s # {}
        <5>1. PICK t : t = s \ {Max(s)}
          OBVIOUS
        <5>2. t \in SUBSET (1..(n - 1)) /\ t \in SUBSET (1..n)
          BY <2>3, <3>1, <4>2, <5>1, GreatestGone
        <5>3. h[t] = g[t]
          BY <3>2, <5>2
        <5> QED
          BY <4>2, <5>1, <5>3
      <4> QED
        BY <4>1, <4>2
    <3>4. h = [s \in SUBSET (1..n) |-> Body(h, s)]
      <4> HIDE DEF Body
      <4> QED
        BY <3>3
    <3> HIDE DEF h
    <3> QED
      BY <2>4, <3>4 DEF Is
  <2> QED
    BY <2>2, <2>3
<1>3. iter = [s \in SUBSET (1..N) |-> Body(iter, s)]
  <2> HIDE DEF Body
  <2>1. N \in 0..N
    OBVIOUS
  <2>2. \E f : f = [s \in SUBSET (1..N) |-> Body(f, s)]
    BY <1>2, <2>1
  <2> QED
    BY <2>2
<1> DEFINE v == [n \in 0..N |-> iter[1..n]]
<1>4. v[0] = <<>>
  <2>1. 1..0 = {} /\ {} \in SUBSET (1..N)
    OBVIOUS
  <2> HIDE DEF iter
  <2> QED
    BY <1>3, <2>1
<1>5. ASSUME NEW n \in 1..N
      PROVE  v[n] = (IF Contains(Keys(v[n - 1]), FusionKey(seq[n])) THEN v[n - 1] ELSE Append(v[n - 1], seq[n]))
  <2>1. 1..n \in SUBSET (1..N) /\ n \in 1..n /\ n \in 0..N /\ n - 1 \in 0..N
    <3> HIDE DEF Body, iter
    <3>1. n \in Nat /\ n <= N
      OBVIOUS
    <3> QED
      BY <3>1
  <2>2. Max(1..n) = n /\ (1..n) \ {n} = 1..(n - 1)
    BY DEF Max
  <2> HIDE DEF iter
  <2>3. iter[1..n] = Body(iter, 1..n)
    BY <1>3, <2>1
  <2> QED
    BY <2>1, <2>2, <2>3
<1>6. FoldLeft(LAMBDA best, h : IF Contains(Keys(best), FusionKey(h)) THEN best ELSE Append(best, h), <<>>, seq) = v[N]
  <2>1. N \in 0..N
    OBVIOUS
  <2> HIDE DEF iter
  <2> QED
    BY <1>1, <2>1
<1> HIDE DEF v
<1> QED
  BY <1>4, <1>5, <1>6

\* One of each, all from the list.
OneEach(s, A) == s \in Seq(TextType) /\ IsInjective(Keys(s)) /\ \A i \in 1..Len(s) : s[i] \in A

\* A chunk of a text that is not there yet may be added.
LEMMA OneMore ==
  ASSUME NEW A, A \subseteq TextType, NEW s, OneEach(s, A), NEW h \in A, ~Contains(Keys(s), FusionKey(h))
  PROVE  OneEach(Append(s, h), A)
<1>1. s \in Seq(TextType) /\ h \in TextType
  BY DEF OneEach
<1>2. PICK t : t = Append(s, h)
  OBVIOUS
<1>3. PICK n \in Nat : n = Len(s)
  BY <1>1
<1>4. t \in Seq(TextType) /\ Len(t) = n + 1 /\ t[n + 1] = h /\ \A i \in 1..n : t[i] = s[i]
  BY <1>1, <1>2, <1>3
<1>5. /\ DOMAIN Keys(t) = 1..(n + 1) /\ Keys(t)[n + 1] = FusionKey(h)
      /\ \A i \in 1..n : Keys(t)[i] = Keys(s)[i]
  <2>1. DOMAIN Keys(t) = 1..Len(t) /\ \A i \in 1..Len(t) : Keys(t)[i] = <<t[i].node, t[i].row>>
    BY <1>4, KeysAre
  <2>2. \A i \in 1..Len(s) : Keys(s)[i] = <<s[i].node, s[i].row>>
    BY <1>1, KeysAre
  <2>3. n + 1 \in 1..(n + 1) /\ \A i \in 1..n : i \in 1..(n + 1)
    BY <1>3
  <2> QED
    BY <1>3, <1>4, <2>1, <2>2, <2>3 DEF FusionKey
<1>6. DOMAIN Keys(s) = 1..n /\ Len(Keys(s)) = n
  BY <1>1, <1>3, KeysAre
<1>7. \A i \in 1..n : Keys(s)[i] # FusionKey(h)
  BY <1>6 DEF Contains
<1>8. IsInjective(Keys(t))
  BY <1>3, <1>5, <1>6, <1>7 DEF OneEach, IsInjective
<1>9. \A i \in 1..Len(t) : t[i] \in A
  BY <1>3, <1>4 DEF OneEach
<1> QED
  BY <1>2, <1>4, <1>8, <1>9 DEF OneEach

\* The best chunks are one of each text.
LEMMA BestIs ==
  ASSUME NEW s \in Seq(TextType)
  PROVE  OneEach(BestPerKey(s), {s[i] : i \in 1..Len(s)})
<1> DEFINE A == {s[i] : i \in 1..Len(s)}
           N == Len(s)
<1>0. N \in Nat /\ DOMAIN s = 1..N /\ A \subseteq TextType /\ \A i \in 1..N : s[i] \in A
  OBVIOUS
<1> HIDE DEF A, N
<1>1. PICK v : /\ v[0] = <<>>
               /\ \A n \in 1..N : v[n] = IF Contains(Keys(v[n - 1]), FusionKey(s[n])) THEN v[n - 1] ELSE Append(v[n - 1], s[n])
               /\ FoldLeft(LAMBDA best, h : IF Contains(Keys(best), FusionKey(h)) THEN best ELSE Append(best, h), <<>>, s) = v[N]
  BY <1>0, BestSteps
<1> DEFINE T == {n \in 0..N : ~OneEach(v[n], A)}
<1>2. T = {}
  <2> SUFFICES ASSUME T # {} PROVE FALSE
    OBVIOUS
  <2>1. PICK n \in T : \A m \in T : n <= m
    <3>1. T \subseteq Nat
      BY <1>0
    <3> HIDE DEF T
    <3> QED
      BY <3>1, LeastOf
  <2>2. n # 0
    <3>1. Keys(<<>>) = <<>> /\ DOMAIN <<>> = {} /\ <<>> \in Seq(TextType) /\ Len(<<>>) = 0
      BY NoKeys
    <3>2. OneEach(<<>>, A)
      BY <3>1 DEF OneEach, IsInjective
    <3> QED
      BY <1>1, <2>1, <3>2
  <2>3. n \in 1..N /\ n - 1 \in 0..N /\ n - 1 < n
    BY <1>0, <2>1, <2>2
  <2>4. OneEach(v[n - 1], A)
    BY <2>1, <2>3
  <2>5. v[n] = v[n - 1] \/ (~Contains(Keys(v[n - 1]), FusionKey(s[n])) /\ v[n] = Append(v[n - 1], s[n]))
    BY <1>1, <2>3
  <2>6. s[n] \in A
    BY <1>0, <2>3
  <2>7. OneEach(v[n], A)
    BY <1>0, <2>4, <2>5, <2>6, OneMore
  <2> QED
    BY <2>1, <2>7
<1>3. OneEach(v[N], A)
  BY <1>0, <1>2
<1>4. BestPerKey(s) = v[N]
  BY <1>1 DEF BestPerKey
<1> QED
  BY <1>3, <1>4 DEF A, N

\* The first hits of a list.
LEMMA TakeIs ==
  ASSUME NEW S, NEW a \in Seq(S), NEW k \in Nat
  PROVE  \E m \in Nat : /\ m = IF Len(a) < k THEN Len(a) ELSE k
                        /\ m <= Len(a) /\ Take(a, k) \in Seq(S) /\ Len(Take(a, k)) = m
                        /\ \A i \in 1..m : i \in 1..Len(a) /\ Take(a, k)[i] = a[i]
<1>1. Len(a) \in Nat
  OBVIOUS
<1>2. PICK m \in Nat : m = IF Len(a) < k THEN Len(a) ELSE k
  BY <1>1
<1>3. m <= Len(a)
  BY <1>1, <1>2
<1>4. Take(a, k) = SubSeq(a, 1, m)
  BY <1>2 DEF Take
<1>5. Take(a, k) \in Seq(S) /\ Len(Take(a, k)) = m /\ \A i \in 1..m : Take(a, k)[i] = a[i]
  BY <1>1, <1>3, <1>4
<1> QED
  BY <1>1, <1>2, <1>3, <1>5

\* What a vector query's list of best chunks and a fuzzy query's list are fused to.
LEMMA FusedHitsAre ==
  ASSUME NEW a \in Seq(TextType), NEW b \in Seq(TextType), IsInjective(Keys(a)), IsInjective(Keys(b)),
         NEW f, f = FusedHits(a, b)
  PROVE  /\ f \in Seq(TextType)
         /\ \A i \in 1..Len(f) : f[i] \in ToSet(a) \cup ToSet(b)
         /\ WellFused(Keys(a), Keys(b), Keys(f), KnowledgeTopK)
<1>0. /\ Len(a) \in Nat /\ DOMAIN a = 1..Len(a) /\ Len(b) \in Nat /\ DOMAIN b = 1..Len(b)
      /\ KnowledgeTopK \in Nat
      /\ \A i \in 1..Len(a) : a[i] \in TextType /\ a[i] \in ToSet(a)
      /\ \A i \in 1..Len(b) : b[i] \in TextType /\ b[i] \in ToSet(b)
  BY KnowledgeSearchAssumption DEF ToSet
<1>1. /\ Keys(a) \in Seq(KeyType) /\ Len(Keys(a)) = Len(a) /\ DOMAIN Keys(a) = 1..Len(a)
      /\ \A i \in 1..Len(a) : Keys(a)[i] = FusionKey(a[i])
  BY KeysAre DEF FusionKey
<1>2. /\ Keys(b) \in Seq(KeyType) /\ Len(Keys(b)) = Len(b) /\ DOMAIN Keys(b) = 1..Len(b)
      /\ \A i \in 1..Len(b) : Keys(b)[i] = FusionKey(b[i])
  BY KeysAre DEF FusionKey
<1>3. CASE b = <<>>
  <2>1. f = Take(a, KnowledgeTopK)
    BY <1>3 DEF FusedHits
  <2>2. PICK m \in Nat : /\ m = IF Len(a) < KnowledgeTopK THEN Len(a) ELSE KnowledgeTopK
                         /\ f \in Seq(TextType) /\ Len(f) = m
                         /\ \A i \in 1..m : i \in 1..Len(a) /\ f[i] = a[i]
    <3>1. KnowledgeTopK \in Nat
      BY KnowledgeSearchAssumption
    <3>2. \E m \in Nat : /\ m = IF Len(a) < KnowledgeTopK THEN Len(a) ELSE KnowledgeTopK
                         /\ m <= Len(a) /\ Take(a, KnowledgeTopK) \in Seq(TextType)
                         /\ Len(Take(a, KnowledgeTopK)) = m
                         /\ \A i \in 1..m : i \in 1..Len(a) /\ Take(a, KnowledgeTopK)[i] = a[i]
      BY <3>1, TakeIs, ZenonT(30)
    <3> QED
      BY <2>1, <3>2
  <2>3. f \in Seq(TextType) /\ Len(f) = m /\ \A i \in 1..m : f[i] = a[i]
    BY <2>2
  <2>4. /\ Keys(f) \in Seq(KeyType) /\ Len(Keys(f)) = m /\ DOMAIN Keys(f) = 1..m
        /\ \A i \in 1..m : Keys(f)[i] = FusionKey(f[i])
    BY <2>3, KeysAre DEF FusionKey
  <2>5. \A i \in 1..m : i \in 1..Len(a) /\ Keys(f)[i] = Keys(a)[i]
    BY <1>1, <2>2, <2>4
  <2>6. \A i \in 1..Len(f) : f[i] \in ToSet(a)
    BY <1>0, <2>3, <2>5
  <2>7. Keys(b) = <<>> /\ ToSet(Keys(b)) = {}
    BY <1>3, NoKeys DEF ToSet
  <2>8. IsInjective(Keys(f))
    BY <1>1, <2>4, <2>5 DEF IsInjective
  <2>9. ToSet(Keys(f)) \subseteq ToSet(Keys(a))
    BY <1>1, <2>4, <2>5 DEF ToSet
  <2>10. Len(Keys(f)) = KnowledgeTopK \/ ToSet(Keys(f)) = ToSet(Keys(a))
    <3>1. CASE Len(a) < KnowledgeTopK
      <4>1. m = Len(a)
        BY <2>2, <3>1
      <4> QED
        BY <1>1, <2>4, <2>5, <4>1 DEF ToSet
    <3>2. CASE ~ (Len(a) < KnowledgeTopK)
      BY <2>2, <2>4, <3>2
    <3> QED
      BY <3>1, <3>2
  <2>11. ASSUME NEW x, NEW y, Leads(Keys(a), x, y) PROVE Leads(Keys(f), x, y)
    <3> SUFFICES ASSUME NEW i \in 1..m, Keys(f)[i] = y PROVE \E j \in 1..(i - 1) : Keys(f)[j] = x
      BY <2>4 DEF Leads
    <3>1. PICK j \in 1..(i - 1) : Keys(a)[j] = x
      BY <1>1, <2>5, <2>11 DEF Leads
    <3>2. j \in 1..m
      BY <2>2, <3>1
    <3> QED
      BY <2>5, <3>1, <3>2
  <2> QED
    BY <2>3, <2>6, <2>7, <2>8, <2>9, <2>10, <2>11 DEF WellFused
<1>4. CASE b # <<>>
  <2> DEFINE order == Fused(Keys(a), Keys(b), KnowledgeTopK)
             Is(h, k) == FusionKey(h) = k /\ (k \in ToSet(Keys(b)) => h \in ToSet(b))
             named(k) == CHOOSE h \in ToSet(a) \cup ToSet(b) : Is(h, k)
  <2>1. f = [i \in DOMAIN order |-> named(order[i])]
    BY <1>4 DEF FusedHits
  <2>2. WellFused(Keys(a), Keys(b), order, KnowledgeTopK) /\ order \in Seq(ToSet(Keys(a)) \cup ToSet(Keys(b)))
    BY <1>0, <1>1, <1>2, FusionKeepsOrder
  <2> HIDE DEF order
  <2>3. \A h \in ToSet(a) \cup ToSet(b) : h \in TextType
    BY <1>0 DEF ToSet
  <2>4. ASSUME NEW k \in ToSet(Keys(a)) \cup ToSet(Keys(b))
        PROVE  named(k) \in ToSet(a) \cup ToSet(b) /\ FusionKey(named(k)) = k
    <3>1. \E h \in ToSet(a) \cup ToSet(b) : Is(h, k)
      <4>1. CASE k \in ToSet(Keys(b))
        <5>1. PICK i \in 1..Len(b) : Keys(b)[i] = k
          BY <1>2, <4>1 DEF ToSet
        <5> QED
          BY <1>0, <1>2, <5>1
      <4>2. CASE k \notin ToSet(Keys(b))
        <5>1. PICK i \in 1..Len(a) : Keys(a)[i] = k
          BY <1>1, <4>2 DEF ToSet
        <5> QED
          BY <1>0, <1>1, <4>2, <5>1
      <4> QED
        BY <4>1, <4>2
    <3>2. named(k) \in ToSet(a) \cup ToSet(b) /\ Is(named(k), k)
      <4> HIDE DEF Is
      <4> QED
        BY <3>1
    <3> QED
      BY <3>2
  <2> HIDE DEF named
  <2>5. DOMAIN order = 1..Len(order) /\ Len(order) \in Nat
        /\ \A i \in 1..Len(order) : order[i] \in ToSet(Keys(a)) \cup ToSet(Keys(b))
    BY <2>2
  <2>6. DOMAIN f = 1..Len(order) /\ \A i \in 1..Len(order) : f[i] \in ToSet(a) \cup ToSet(b) /\ FusionKey(f[i]) = order[i]
    BY <2>1, <2>4, <2>5
  <2>7. f \in Seq(TextType) /\ Len(f) = Len(order)
    <3>1. f \in [1..Len(order) -> TextType]
      BY <2>1, <2>3, <2>4, <2>5
    <3> QED
      BY <2>5, <3>1
  <2>8. Keys(f) = order
    <3>1. Keys(f) = [i \in 1..Len(order) |-> FusionKey(f[i])]
      BY <2>6 DEF Keys
    <3>2. order = [i \in 1..Len(order) |-> order[i]]
      BY <2>2
    <3> QED
      BY <2>6, <3>1, <3>2
  <2> QED
    BY <2>2, <2>6, <2>7, <2>8
<1> QED
  BY <1>3, <1>4

\* Nothing is searched at the start.
LEMMA NoLookupKnown ==
  ASSUME NEW d, d = "idle" \/ d = "failed",
         NEW l, l = [does |-> d, mode |-> "none", folders |-> {}, gone |-> {}, left |-> {}, scope |-> {},
                     rows |-> {}, fuzzy |-> <<>>, vector |-> <<>>, hits |-> <<>>]
  PROVE  LookupKnown(l)
<1>2. /\ l.does = d /\ l.mode = "none" /\ l.left = {} /\ l.scope = {} /\ l.rows = {}
      /\ l.fuzzy = <<>> /\ l.vector = <<>> /\ l.hits = <<>>
  OBVIOUS
<1>3. l \in LookupType
  BY DEF LookupType
<1>4. IsInjective(Keys(<<>>)) /\ Len(<<>>) = 0
  BY NoKeys DEF IsInjective
<1> QED
  BY <1>2, <1>3, <1>4 DEF LookupKnown, ScopeKnown, ListsKnown

\* At the start every document and row is embedded and nothing is searched.
LEMMA KnowledgeSearchStarts == KnowledgeSearchInit => KnowledgeSearchInv
<1> SUFFICES ASSUME KnowledgeSearchInit PROVE KnowledgeSearchInv
  OBVIOUS
<1>1. LookupKnown(lookup)
  <2>1. PICK d : d = "idle"
    OBVIOUS
  <2>2. lookup = [does |-> d, mode |-> "none", folders |-> {}, gone |-> {}, left |-> {}, scope |-> {},
                  rows |-> {}, fuzzy |-> <<>>, vector |-> <<>>, hits |-> <<>>]
    BY <2>1 DEF KnowledgeSearchInit, NoLookup
  <2> QED
    BY <2>1, <2>2, NoLookupKnown
<1>2. lookup.gone = {} /\ shelf = NodeIds \cup RowIds
  BY DEF KnowledgeSearchInit, NoLookup
<1>3. ChunksKnown
  <2> SUFFICES ASSUME NEW c \in chunks PROVE c \in TextType /\ (c.node = NoNode <=> c.row # NoRow)
    BY DEF ChunksKnown
  <2>1. CASE \E r \in RowIds : c = Chunk(NoNode, r, 1)
    BY <2>1, KnowledgeSearchAssumption DEF Chunk, TextType
  <2>2. CASE \E n \in NodeIds : \E i \in 1..MaxParts : c = Chunk(n, NoRow, i)
    BY <2>2, KnowledgeSearchAssumption DEF Chunk, TextType
  <2> DEFINE documents == {n \in NodeIds : Kind[n] = "document"}
             all == UNION {ChunksOf(n, MaxParts) : n \in documents}
             each == {Chunk(NoNode, r, 1) : r \in RowIds}
  <2>3. c \in all \/ c \in each
    <3>1. chunks = all \cup each
      BY DEF KnowledgeSearchInit
    <3> HIDE DEF all, each
    <3> QED
      BY <3>1
  <2>4. c \in all => \E n \in NodeIds : c \in ChunksOf(n, MaxParts)
    OBVIOUS
  <2>5. ASSUME NEW n \in NodeIds, c \in ChunksOf(n, MaxParts)
        PROVE  \E i \in 1..MaxParts : c = Chunk(n, NoRow, i)
    BY <2>5 DEF ChunksOf
  <2> QED
    BY <2>1, <2>2, <2>3, <2>4, <2>5
<1> QED
  BY <1>1, <1>2, <1>3 DEF KnowledgeSearchInv

\* What happens meanwhile.
LEMMA ShelfIs ==
  ASSUME KnowledgeSearchInv,
         \/ \E n \in NodeIds : DropNode(n) \/ EmbedAnew(n)
         \/ \E r \in RowIds : DropRow(r)
  PROVE  KnowledgeSearchInv'
<1>1. lookup' = lookup /\ shelf' \subseteq shelf
  BY DEF DropNode, EmbedAnew, DropRow
<1>2. ChunksKnown'
  <2>1. CASE \E n \in NodeIds : EmbedAnew(n)
    <3>1. PICK n \in NodeIds, parts \in 0..MaxParts :
            chunks' = {c \in chunks : c.node # n} \cup ChunksOf(n, parts)
      BY <2>1 DEF EmbedAnew
    <3>2. \A c \in ChunksOf(n, parts) : c \in TextType /\ (c.node = NoNode <=> c.row # NoRow)
      <4> SUFFICES ASSUME NEW i \in 1..parts, NEW c, c = Chunk(n, NoRow, i)
                   PROVE  c \in TextType /\ (c.node = NoNode <=> c.row # NoRow)
        BY DEF ChunksOf
      <4>1. i \in 0..(MaxParts + 1)
        BY KnowledgeSearchAssumption
      <4> QED
        BY <4>1, KnowledgeSearchAssumption DEF Chunk, TextType
    <3> QED
      BY <3>1, <3>2 DEF KnowledgeSearchInv, ChunksKnown
  <2>2. CASE chunks' = chunks
    BY <2>2 DEF KnowledgeSearchInv, ChunksKnown
  <2> QED
    BY <2>1, <2>2 DEF DropNode, DropRow
<1> QED
  BY <1>1, <1>2 DEF KnowledgeSearchInv

\* A step of the search.
LEMMA LookupIs ==
  ASSUME KnowledgeSearchInv, shelf' = shelf, chunks' = chunks, LookupKnown(lookup'),
         lookup'.gone \cap shelf = {}
  PROVE  KnowledgeSearchInv'
BY DEF KnowledgeSearchInv, ChunksKnown

\* A search notes what is gone, and starts from what is not or from what it is given.
LEMMA BeginIs ==
  ASSUME KnowledgeSearchInv, SearchBegin
  PROVE  KnowledgeSearchInv'
<1>1. PICK mode \in {"fuzzy", "vector", "hybrid"}, folders \in SUBSET NodeIds :
        lookup' = [NoLookup EXCEPT !.mode = mode, !.folders = folders, !.gone = Lost,
          !.does = IF folders = {} THEN "rows" ELSE "nodes",
          !.left = folders, !.scope = IF folders = {} THEN NodeIds \cap shelf ELSE {}]
  BY DEF SearchBegin
<1>2. PICK does, scope : /\ does = IF folders = {} THEN "rows" ELSE "nodes"
                         /\ scope = IF folders = {} THEN NodeIds \cap shelf ELSE {}
  OBVIOUS
<1>3. PICK l : l = lookup'
  OBVIOUS
<1>4. l = [does |-> does, mode |-> mode, folders |-> folders, gone |-> Lost, left |-> folders,
           scope |-> scope, rows |-> {}, fuzzy |-> <<>>, vector |-> <<>>, hits |-> <<>>]
  BY <1>1, <1>2, <1>3 DEF NoLookup
<1>5. (does = "rows" \/ does = "nodes") /\ scope \subseteq NodeIds /\ scope \subseteq shelf
  BY <1>2
<1>6. /\ l.does = does /\ l.mode = mode /\ l.folders = folders /\ l.gone = Lost /\ l.left = folders
      /\ l.scope = scope /\ l.rows = {} /\ l.fuzzy = <<>> /\ l.vector = <<>> /\ l.hits = <<>>
  BY <1>4
<1>7. l \in LookupType
  <2>1. Lost \subseteq NodeIds \cup RowIds
    BY DEF Lost
  <2> QED
    BY <1>4, <1>5, <2>1 DEF LookupType
<1>8. ScopeKnown(l)
  BY <1>5, <1>6 DEF ScopeKnown, Within, Lost
<1>9. ListsKnown(l)
  <2>1. IsInjective(Keys(<<>>)) /\ Len(<<>>) = 0
    BY NoKeys DEF IsInjective
  <2> QED
    BY <1>5, <1>6, <2>1 DEF ListsKnown
<1>10. l.gone \cap shelf = {}
  BY <1>6 DEF Lost
<1>11. shelf' = shelf /\ chunks' = chunks
  BY DEF SearchBegin
<1> QED
  BY <1>3, <1>7, <1>8, <1>9, <1>10, <1>11, LookupIs DEF LookupKnown

\* Going down the folders finds what is not deleted.
LEMMA DescendIs ==
  ASSUME KnowledgeSearchInv, NEW n \in NodeIds, Descend(n)
  PROVE  KnowledgeSearchInv'
<1>1. PICK k : k = lookup
  OBVIOUS
<1>2. PICK left : left = (k.left \ {n}) \cup Children(n)
  OBVIOUS
<1>3. PICK does : does = IF left = {} THEN "rows" ELSE "nodes"
  OBVIOUS
<1>4. /\ k \in LookupType /\ ScopeKnown(k) /\ ListsKnown(k) /\ k.does = "nodes" /\ n \in k.left
      /\ k.gone \cap shelf = {}
  BY <1>1 DEF KnowledgeSearchInv, LookupKnown, Descend
<1>5. PICK scope : scope = k.scope \cup {n}
  OBVIOUS
<1>6. lookup' = [k EXCEPT !.scope = scope, !.left = left, !.does = does]
  BY <1>1, <1>2, <1>3, <1>5 DEF Descend
<1>7. PICK l : l = lookup'
  OBVIOUS
<1>8. (does = "rows" \/ does = "nodes") /\ left \subseteq NodeIds /\ scope \subseteq NodeIds
  BY <1>2, <1>3, <1>4, <1>5 DEF Children, LookupType
<1>9. /\ l.does = does /\ l.mode = k.mode /\ l.folders = k.folders /\ l.gone = k.gone /\ l.left = left
      /\ l.scope = scope /\ l.rows = k.rows /\ l.fuzzy = k.fuzzy /\ l.vector = k.vector /\ l.hits = k.hits
  BY <1>4, <1>6, <1>7 DEF LookupType
<1>10. l \in LookupType
  BY <1>4, <1>6, <1>7, <1>8 DEF LookupType
<1>11. ScopeKnown(l)
  <2>1. \A c \in Children(n) : c \notin k.gone
    BY <1>4 DEF Children
  <2>2. \A c \in left \cup scope : c \in k.left \cup k.scope \/ c \in Children(n)
    BY <1>2, <1>4, <1>5
  <2>3. \A c \in left \cup scope : c \in k.gone => c \in k.folders
    BY <1>4, <2>1, <2>2 DEF ScopeKnown, Within
  <2>4. \A r \in k.rows : r \notin k.gone /\ DatasetOf[r] \in scope
    BY <1>4, <1>5 DEF ScopeKnown
  <2> QED
    BY <1>9, <2>3, <2>4 DEF ScopeKnown, Within
<1>12. ListsKnown(l)
  <2>1. k.fuzzy = <<>> /\ k.vector = <<>> /\ k.hits = <<>>
    BY <1>4 DEF ListsKnown
  <2>2. IsInjective(Keys(<<>>)) /\ Len(<<>>) = 0
    BY NoKeys DEF IsInjective
  <2> QED
    BY <1>8, <1>9, <2>1, <2>2 DEF ListsKnown
<1>13. shelf' = shelf /\ chunks' = chunks
  BY DEF Descend
<1> QED
  BY <1>4, <1>7, <1>9, <1>10, <1>11, <1>12, <1>13, LookupIs DEF LookupKnown

\* So does asking for the rows of the datasets.
LEMMA RowsIs ==
  ASSUME KnowledgeSearchInv, FindRows
  PROVE  KnowledgeSearchInv'
<1>1. PICK k : k = lookup
  OBVIOUS
<1>2. PICK rows : rows = RowsIn(k.scope)
  OBVIOUS
<1>3. PICK does : does = IF k.scope = {} THEN "done" ELSE IF k.mode = "vector" THEN "vector" ELSE "fuzzy"
  OBVIOUS
<1>4. /\ k \in LookupType /\ ScopeKnown(k) /\ ListsKnown(k) /\ k.does = "rows" /\ k.gone \cap shelf = {}
  BY <1>1 DEF KnowledgeSearchInv, LookupKnown, FindRows
<1>5. lookup' = [k EXCEPT !.rows = rows, !.does = does]
  BY <1>1, <1>2, <1>3 DEF FindRows
<1>6. PICK l : l = lookup'
  OBVIOUS
<1>7. (does = "done" \/ does = "vector" \/ does = "fuzzy") /\ rows \subseteq RowIds
  BY <1>2, <1>3 DEF RowsIn
<1>8. /\ l.does = does /\ l.mode = k.mode /\ l.folders = k.folders /\ l.gone = k.gone /\ l.left = k.left
      /\ l.scope = k.scope /\ l.rows = rows /\ l.fuzzy = k.fuzzy /\ l.vector = k.vector /\ l.hits = k.hits
  BY <1>4, <1>5, <1>6 DEF LookupType
<1>9. l \in LookupType
  BY <1>4, <1>5, <1>6, <1>7 DEF LookupType
<1>10. ScopeKnown(l)
  <2>1. \A r \in rows : r \notin k.gone /\ DatasetOf[r] \in k.scope
    BY <1>2, <1>4 DEF RowsIn
  <2> QED
    BY <1>4, <1>8, <2>1 DEF ScopeKnown, Within
<1>11. ListsKnown(l)
  <2>1. k.fuzzy = <<>> /\ k.vector = <<>> /\ k.hits = <<>>
    BY <1>4 DEF ListsKnown
  <2>2. IsInjective(Keys(<<>>)) /\ Len(<<>>) = 0 /\ Keys(<<>>) = <<>>
    BY NoKeys DEF IsInjective
  <2>3. WellFused(<<>>, <<>>, <<>>, KnowledgeTopK)
    BY <2>2 DEF WellFused, ToSet, IsInjective
  <2> QED
    BY <1>8, <2>1, <2>2, <2>3 DEF ListsKnown
<1>12. shelf' = shelf /\ chunks' = chunks
  BY DEF FindRows
<1> QED
  BY <1>4, <1>6, <1>8, <1>9, <1>10, <1>11, <1>12, LookupIs DEF LookupKnown

\* A list of texts that may be found, fuzzy hits here and chunks there.
LEMMA BestTexts ==
  ASSUME NEW T, T \subseteq TextType, NEW s \in Best(T)
  PROVE  /\ s \in Seq(TextType) /\ IsInjective(s) /\ Len(s) \in Nat /\ DOMAIN s = 1..Len(s)
         /\ \A i \in 1..Len(s) : s[i] \in T
<1>1. T \in SUBSET TextType /\ IsFiniteSet(T)
  BY TextsFinite, FS_Subset
<1>2. \E U \in SUBSET T : s \in SetToSeqs(U)
  BY DEF Best, SetToAllKPermutations
<1>3. s \in Seq(T) /\ IsInjective(s)
  BY <1>1, <1>2, ListedAre
<1>4. s \in Seq(TextType)
  BY <1>1, <1>3, ListWidens
<1> QED
  BY <1>3, <1>4

\* The texts found by their words are in that scope, each once.
LEMMA FuzzyTextsAre ==
  ASSUME KnowledgeSearchInv, KnowledgeFuzzy
  PROVE  KnowledgeSearchInv'
<1>1. PICK k : k = lookup
  OBVIOUS
<1>2. /\ k \in LookupType /\ ScopeKnown(k) /\ ListsKnown(k) /\ k.does = "fuzzy" /\ k.gone \cap shelf = {}
      /\ k.scope \subseteq NodeIds /\ k.rows \subseteq RowIds /\ k.gone \subseteq NodeIds \cup RowIds
  BY <1>1 DEF KnowledgeSearchInv, LookupKnown, KnowledgeFuzzy, LookupType
<1> DEFINE texts == {Hit(n, NoRow, 0) : n \in {n \in lookup.scope \cap shelf : Kind[n] = "document"}}
                      \cup {Hit(DatasetOf[r], r, 0) : r \in lookup.rows \cap shelf}
<1>3. PICK s \in Best(texts) :
        lookup' = IF lookup.mode = "fuzzy" THEN [lookup EXCEPT !.does = "done", !.hits = s]
                  ELSE [lookup EXCEPT !.does = "vector", !.fuzzy = s]
  BY DEF KnowledgeFuzzy
<1>4. ASSUME NEW h \in texts
      PROVE  /\ \/ \E n \in k.scope : h = Hit(n, NoRow, 0)
                \/ \E r \in k.rows : h = Hit(DatasetOf[r], r, 0)
  BY <1>1
<1> HIDE DEF texts
<1>5. ASSUME NEW h \in texts PROVE h \in TextType /\ MayFind(k, h) /\ h.part = 0
  <2>0. 0 \in 0..(MaxParts + 1)
    BY KnowledgeSearchAssumption
  <2>1. CASE \E n \in k.scope : h = Hit(n, NoRow, 0)
    <3>1. PICK n \in k.scope : h = Hit(n, NoRow, 0)
      BY <2>1
    <3>2. h.node = n /\ h.row = NoRow /\ h.part = 0 /\ n \in NodeIds
      BY <1>2, <3>1 DEF Hit
    <3>3. Within(k, n)
      BY <1>2 DEF ScopeKnown
    <3>4. NoRow \notin k.gone
      BY <1>2, KnowledgeSearchAssumption
    <3>5. h \in TextType
      BY <2>0, <3>1, <3>2 DEF Hit, TextType
    <3> QED
      BY <3>2, <3>3, <3>4, <3>5 DEF MayFind
  <2>2. CASE \E r \in k.rows : h = Hit(DatasetOf[r], r, 0)
    <3>1. PICK r \in k.rows : h = Hit(DatasetOf[r], r, 0)
      BY <2>2
    <3>2. h.node = DatasetOf[r] /\ h.row = r /\ h.part = 0 /\ r \in RowIds
      BY <1>2, <3>1 DEF Hit
    <3>3. r \notin k.gone /\ Within(k, DatasetOf[r]) /\ r # NoRow
      BY <1>2, <3>2, KnowledgeSearchAssumption DEF ScopeKnown
    <3>4. DatasetOf[r] \in NodeIds
      BY <3>2, KnowledgeSearchAssumption
    <3>5. h \in TextType
      BY <2>0, <3>1, <3>2, <3>4 DEF Hit, TextType
    <3> QED
      BY <3>2, <3>3, <3>5 DEF MayFind
  <2> QED
    BY <1>4, <2>1, <2>2
<1>6. /\ s \in Seq(TextType) /\ IsInjective(s) /\ Len(s) \in Nat /\ DOMAIN s = 1..Len(s)
      /\ \A i \in 1..Len(s) : s[i] \in texts
  BY <1>5, BestTexts
\* Each text has a key of its own.
<1>7. IsInjective(Keys(s))
  <2>1. DOMAIN Keys(s) = 1..Len(s) /\ \A i \in 1..Len(s) : Keys(s)[i] = <<s[i].node, s[i].row>>
    BY <1>6, KeysAre
  <2>2. \A g, h \in TextType : g.node = h.node /\ g.row = h.row /\ g.part = h.part => g = h
    BY DEF TextType
  <2>3. ASSUME NEW i \in 1..Len(s), NEW j \in 1..Len(s), Keys(s)[i] = Keys(s)[j] PROVE i = j
    <3>1. s[i].node = s[j].node /\ s[i].row = s[j].row
      BY <2>1, <2>3
    <3>2. s[i].part = s[j].part /\ s[i] \in TextType /\ s[j] \in TextType
      BY <1>5, <1>6
    <3> QED
      BY <1>6, <2>2, <3>1, <3>2 DEF IsInjective
  <2> QED
    BY <2>1, <2>3 DEF IsInjective
<1>8. \A i \in 1..Len(s) : MayFind(k, s[i])
  BY <1>5, <1>6
<1>9. PICK l : l = lookup'
  OBVIOUS
<1>10. k.fuzzy = <<>> /\ k.vector = <<>> /\ k.hits = <<>> /\ Len(<<>>) = 0 /\ IsInjective(Keys(<<>>))
  BY <1>2, NoKeys DEF ListsKnown, IsInjective
<1>11. LookupKnown(l) /\ l.gone = k.gone
  <2>1. CASE k.mode = "fuzzy"
    <3>1. l = [k EXCEPT !.does = "done", !.hits = s]
      BY <1>1, <1>3, <1>9, <2>1
    <3>2. /\ l.does = "done" /\ l.mode = "fuzzy" /\ l.folders = k.folders /\ l.gone = k.gone /\ l.left = k.left
          /\ l.scope = k.scope /\ l.rows = k.rows /\ l.fuzzy = <<>> /\ l.vector = <<>> /\ l.hits = s
      BY <1>2, <1>10, <2>1, <3>1 DEF LookupType
    <3>3. l \in LookupType
      BY <1>2, <1>6, <3>1 DEF LookupType
    <3>4. ScopeKnown(l)
      BY <1>2, <3>2 DEF ScopeKnown, Within
    <3>5. ListsKnown(l)
      BY <1>8, <1>10, <3>2 DEF ListsKnown, MayFind, Within
    <3> QED
      BY <3>2, <3>3, <3>4, <3>5 DEF LookupKnown
  <2>2. CASE k.mode # "fuzzy"
    <3>1. l = [k EXCEPT !.does = "vector", !.fuzzy = s]
      BY <1>1, <1>3, <1>9, <2>2
    <3>2. /\ l.does = "vector" /\ l.mode = k.mode /\ l.folders = k.folders /\ l.gone = k.gone /\ l.left = k.left
          /\ l.scope = k.scope /\ l.rows = k.rows /\ l.fuzzy = s /\ l.vector = <<>> /\ l.hits = <<>>
      BY <1>2, <1>10, <3>1 DEF LookupType
    <3>3. l \in LookupType
      BY <1>2, <1>6, <3>1 DEF LookupType
    <3>4. ScopeKnown(l)
      BY <1>2, <3>2 DEF ScopeKnown, Within
    <3>5. ListsKnown(l)
      BY <1>7, <1>8, <1>10, <3>2 DEF ListsKnown, MayFind, Within
    <3> QED
      BY <3>2, <3>3, <3>4, <3>5 DEF LookupKnown
  <2> QED
    BY <2>1, <2>2
<1>12. shelf' = shelf /\ chunks' = chunks
  BY DEF KnowledgeFuzzy
<1> QED
  BY <1>2, <1>9, <1>11, <1>12, LookupIs

\* The chunks found by their vectors are in it as well, even those of rows that are gone since.
LEMMA ChunksFoundAre ==
  ASSUME KnowledgeSearchInv, KnowledgeVector
  PROVE  KnowledgeSearchInv'
<1>1. PICK k : k = lookup
  OBVIOUS
<1>2. /\ k \in LookupType /\ ScopeKnown(k) /\ ListsKnown(k) /\ k.does = "vector" /\ k.gone \cap shelf = {}
      /\ k.scope \subseteq NodeIds /\ k.rows \subseteq RowIds /\ k.gone \subseteq NodeIds \cup RowIds
      /\ k.fuzzy \in Seq(TextType)
  BY <1>1 DEF KnowledgeSearchInv, LookupKnown, KnowledgeVector, LookupType
<1> DEFINE inScope == {c \in chunks : c.node \in lookup.scope \/ c.row \in lookup.rows}
           texts == {Hit(c.node, c.row, c.part) : c \in inScope}
<1>3. PICK s \in Best(texts) :
        lookup' = [lookup EXCEPT !.does = "done",
          !.vector = IF lookup.mode = "hybrid" THEN BestPerKey(s) ELSE <<>>,
          !.hits = IF lookup.mode = "hybrid" THEN FusedHits(lookup.fuzzy, BestPerKey(s)) ELSE s]
  BY DEF KnowledgeVector
<1>4. ASSUME NEW h \in texts
      PROVE  \E c \in chunks : (c.node \in k.scope \/ c.row \in k.rows) /\ h = Hit(c.node, c.row, c.part)
  BY <1>1
<1> HIDE DEF inScope, texts
<1>5. ASSUME NEW h \in texts PROVE h \in TextType /\ MayFind(k, h)
  <2>1. PICK c \in chunks : (c.node \in k.scope \/ c.row \in k.rows) /\ h = Hit(c.node, c.row, c.part)
    BY <1>4
  <2>2. c \in TextType /\ (c.node = NoNode <=> c.row # NoRow)
    BY DEF KnowledgeSearchInv, ChunksKnown
  <2>3. h = c /\ c.row \in RowIds \cup {NoRow}
    BY <2>1, <2>2 DEF Hit, TextType
  <2>4. CASE c.row = NoRow
    <3>1. c.node \in k.scope
      BY <1>2, <2>1, <2>4, KnowledgeSearchAssumption
    <3>2. Within(k, c.node) /\ NoRow \notin k.gone
      BY <1>2, <3>1, KnowledgeSearchAssumption DEF ScopeKnown
    <3> QED
      BY <2>2, <2>3, <2>4, <3>2 DEF MayFind
  <2>5. CASE c.row # NoRow
    <3>1. c.row \in k.rows
      BY <1>2, <2>1, <2>2, <2>5, KnowledgeSearchAssumption
    <3>2. c.row \notin k.gone /\ Within(k, DatasetOf[c.row])
      BY <1>2, <3>1 DEF ScopeKnown
    <3> QED
      BY <2>2, <2>3, <2>5, <3>2 DEF MayFind
  <2> QED
    BY <2>4, <2>5
<1>6. /\ s \in Seq(TextType) /\ Len(s) \in Nat /\ DOMAIN s = 1..Len(s)
      /\ \A i \in 1..Len(s) : s[i] \in texts
  BY <1>5, BestTexts
<1>7. PICK best : best = BestPerKey(s)
  OBVIOUS
<1>8. best \in Seq(TextType) /\ IsInjective(Keys(best)) /\ \A i \in 1..Len(best) : best[i] \in texts
  <2>1. OneEach(best, {s[i] : i \in 1..Len(s)})
    BY <1>6, <1>7, BestIs
  <2> QED
    BY <1>6, <2>1 DEF OneEach
<1>9. PICK l : l = lookup'
  OBVIOUS
<1>10. LookupKnown(l) /\ l.gone = k.gone
  <2>1. CASE k.mode = "hybrid"
    <3>0. PICK f : f = FusedHits(k.fuzzy, best)
      OBVIOUS
    <3>1. l = [k EXCEPT !.does = "done", !.vector = best, !.hits = f]
      BY <1>1, <1>3, <1>7, <1>9, <2>1, <3>0
    <3>2. IsInjective(Keys(k.fuzzy)) /\ \A i \in 1..Len(k.fuzzy) : MayFind(k, k.fuzzy[i])
      BY <1>2 DEF ListsKnown
    <3>3. /\ f \in Seq(TextType)
          /\ \A i \in 1..Len(f) : f[i] \in ToSet(k.fuzzy) \cup ToSet(best)
          /\ WellFused(Keys(k.fuzzy), Keys(best), Keys(f), KnowledgeTopK)
      BY <1>2, <1>8, <3>0, <3>2, FusedHitsAre
    <3>4. /\ l.does = "done" /\ l.mode = k.mode /\ l.folders = k.folders /\ l.gone = k.gone /\ l.left = k.left
          /\ l.scope = k.scope /\ l.rows = k.rows /\ l.fuzzy = k.fuzzy /\ l.vector = best /\ l.hits = f
      BY <1>2, <3>1 DEF LookupType
    <3>5. l \in LookupType
      BY <1>2, <1>8, <3>1, <3>3 DEF LookupType
    <3>6. \A h \in ToSet(k.fuzzy) \cup ToSet(best) : MayFind(k, h)
      <4>1. DOMAIN k.fuzzy = 1..Len(k.fuzzy) /\ DOMAIN best = 1..Len(best)
        BY <1>2, <1>8
      <4> QED
        BY <1>5, <1>8, <3>2, <4>1 DEF ToSet
    <3>7. \A i \in 1..Len(f) : MayFind(k, f[i])
      BY <3>3, <3>6
    <3>8. ScopeKnown(l)
      BY <1>2, <3>4 DEF ScopeKnown, Within
    <3>9. ListsKnown(l)
      BY <3>2, <3>3, <3>4, <3>7 DEF ListsKnown, MayFind, Within
    <3> QED
      BY <3>4, <3>5, <3>8, <3>9 DEF LookupKnown
  <2>2. CASE k.mode # "hybrid"
    <3>1. l = [k EXCEPT !.does = "done", !.vector = <<>>, !.hits = s]
      BY <1>1, <1>3, <1>9, <2>2
    <3>2. /\ l.does = "done" /\ l.mode = k.mode /\ l.folders = k.folders /\ l.gone = k.gone /\ l.left = k.left
          /\ l.scope = k.scope /\ l.rows = k.rows /\ l.fuzzy = k.fuzzy /\ l.vector = <<>> /\ l.hits = s
      BY <1>2, <3>1 DEF LookupType
    <3>3. l \in LookupType
      <4>0. <<>> \in Seq(TextType)
        OBVIOUS
      <4>1. PICK none \in Seq(TextType) : none = <<>>
        BY <4>0, Zenon
      <4>2. l = [k EXCEPT !.does = "done", !.vector = none, !.hits = s]
        BY <3>1, <4>1
      <4>3. s \in Seq(TextType) /\ k \in LookupType
        BY <1>2, <1>6
      <4> QED
        BY <4>2, <4>3 DEF LookupType
    <3>4. ScopeKnown(l)
      BY <1>2, <3>2 DEF ScopeKnown, Within
    <3>5. \A i \in 1..Len(s) : MayFind(k, s[i])
      BY <1>5, <1>6
    <3>6. IsInjective(Keys(k.fuzzy)) /\ \A i \in 1..Len(k.fuzzy) : MayFind(k, k.fuzzy[i])
      BY <1>2 DEF ListsKnown
    <3>7. ListsKnown(l)
      BY <2>2, <3>2, <3>5, <3>6 DEF ListsKnown, MayFind, Within
    <3> QED
      BY <3>2, <3>3, <3>4, <3>7 DEF LookupKnown
  <2> QED
    BY <2>1, <2>2
<1>11. shelf' = shelf /\ chunks' = chunks
  BY DEF KnowledgeVector
<1> QED
  BY <1>2, <1>9, <1>10, <1>11, LookupIs

\* Every step keeps the search within what it may find.
LEMMA KnowledgeSearchKept ==
  ASSUME KnowledgeSearchInv, [KnowledgeSearchNext]_knowledgeSearchVars
  PROVE  KnowledgeSearchInv'
<1>1. CASE UNCHANGED knowledgeSearchVars
  BY <1>1 DEF knowledgeSearchVars, KnowledgeSearchInv, ChunksKnown
<1>2. CASE KnowledgeVectorFails
  <2>1. PICK d : d = "failed"
    OBVIOUS
  <2>2. lookup' = [does |-> d, mode |-> "none", folders |-> {}, gone |-> {}, left |-> {}, scope |-> {},
                   rows |-> {}, fuzzy |-> <<>>, vector |-> <<>>, hits |-> <<>>]
    BY <1>2, <2>1 DEF KnowledgeVectorFails, NoLookup
  <2>3. LookupKnown(lookup') /\ lookup'.gone = {}
    BY <2>1, <2>2, NoLookupKnown
  <2> QED
    BY <1>2, <2>3, LookupIs DEF KnowledgeVectorFails
<1> QED
  BY <1>1, <1>2, ShelfIs, BeginIs, DescendIs, RowsIs, FuzzyTextsAre, ChunksFoundAre DEF KnowledgeSearchNext

\* So it always is.
LEMMA KnowledgeSearchHolds == KnowledgeSearchSpec => []KnowledgeSearchInv
<1>1. KnowledgeSearchInit => KnowledgeSearchInv
  BY KnowledgeSearchStarts
<1>2. KnowledgeSearchInv /\ [KnowledgeSearchNext]_knowledgeSearchVars => KnowledgeSearchInv'
  BY KnowledgeSearchKept
<1> QED
  BY <1>1, <1>2, PTL DEF KnowledgeSearchSpec

\* KnowledgeService.search: whatever is deleted or embedded anew between its queries, what was
\* gone when a search began is not among its hits, though its chunks are still there - except
\* a node that the request itself names.
THEOREM SearchSkipsDeleted == KnowledgeSearchSpec => []NothingDeletedIsFound
<1>1. KnowledgeSearchInv => NothingDeletedIsFound
  <2> SUFFICES ASSUME KnowledgeSearchInv PROVE NothingDeletedIsFound
    OBVIOUS
  <2>1. lookup \in LookupType /\ ListsKnown(lookup)
    BY DEF KnowledgeSearchInv, LookupKnown
  <2>2. DOMAIN lookup.hits = 1..Len(lookup.hits)
    BY <2>1 DEF LookupType
  <2> QED
    BY <2>1, <2>2 DEF ListsKnown, MayFind, Within, NothingDeletedIsFound
<1> QED
  BY <1>1, KnowledgeSearchHolds, PTL

\* _rrf_fusion_by_node_row: the hits of a hybrid search are a fusion that keeps to both of
\* its lists.
LEMMA KnowledgeKeepsOrder == KnowledgeSearchSpec => []KnowledgeWellFused
<1>1. KnowledgeSearchInv => KnowledgeWellFused
  BY DEF KnowledgeSearchInv, LookupKnown, ListsKnown, KnowledgeWellFused
<1> QED
  BY <1>1, KnowledgeSearchHolds, PTL

\* HybridSearchEngine and _rrf_fusion_by_node_row: whatever the lists of both queries were,
\* each search answers with as many hits as there is room for, each once, and none before
\* one that is ahead of it in both lists.
THEOREM HitsKeepOrder == MessageSearchSpec /\ KnowledgeSearchSpec => []HitsWellFused
<1>1. MessagesWellFused /\ KnowledgeWellFused => HitsWellFused
  BY DEF HitsWellFused
<1> QED
  BY <1>1, MessagesKeepOrder, KnowledgeKeepsOrder, PTL

-----------------------------------------------------------------------------
(* Chats.                                                                  *)

USE ChatAssumption DEF Operations

\* The types of events, parts, rows and collectors.
EventType ==
  [kind : {"message", "thinking", "operation_start", "operation_end"}, n : Nat,
   op : Operations \cup {NoOp}, parent : Tasks \cup {NoOp}]
PartType ==
  [type : {"text", "call", "result", "task"}, op : Operations \cup {NoOp},
   body : Seq(Nat) \cup Seq(EventType)]
CollectorType ==
  [text : Seq(Nat), parts : Seq(PartType), open : Seq(Operations), children : [Tasks -> Seq(EventType)],
   thinking : BOOLEAN, error : BOOLEAN, metrics : BOOLEAN]
RowType ==
  [role : {"user"}, run : Runs]
  \cup [role : {"assistant"}, run : Runs,
        content : [parts : Seq(PartType), thinking : BOOLEAN, error : BOOLEAN]]

\* No two parts P are of one kind about one operation or hold one piece of text, and a
\* result is behind its call.
PartsApart(P) ==
  \A i, j \in 1..Len(P) :
    \/ i = j
    \/ P[i].type # P[j].type
    \/ IF P[i].type = "text" THEN \A a \in 1..Len(P[i].body) : ~ Contains(P[j].body, P[i].body[a])
       ELSE P[i].op # P[j].op
InOrder(P) ==
  \A i \in 1..Len(P) : P[i].type = "result" =>
    \E j \in 1..(i - 1) : P[j].type = "call" /\ P[j].op = P[i].op

\* The text still to become a part is in no part.
TextApart(P, text) ==
  \A i \in 1..Len(P) : P[i].type = "text" => \A a \in 1..Len(text) : ~ Contains(P[i].body, text[a])

\* What parts are about.
Proper(P) ==
  \A i \in 1..Len(P) :
    /\ P[i].type = "text" => P[i].body \in Seq(Nat)
    /\ P[i].type \in {"call", "result"} => P[i].op \in Tools
    /\ P[i].type = "task" => P[i].op \in Tasks /\ P[i].body \in Seq(EventType)

HasPart(P, type, o) == \E i \in 1..Len(P) : P[i].type = type /\ P[i].op = o

\* The open operations: tools that have a call and no result, and tasks that have no part.
Closing(P, unclosed) ==
  /\ \A i, j \in 1..Len(unclosed) : unclosed[i] = unclosed[j] => i = j
  /\ \A o \in Tools : Contains(unclosed, o) <=> HasPart(P, "call", o) /\ ~ HasPart(P, "result", o)
  /\ \A k \in Tasks : Contains(unclosed, k) => ~ HasPart(P, "task", k)

\* What a collector is made of.
Made(c) ==
  /\ c \in CollectorType
  /\ Proper(c.parts) /\ PartsApart(c.parts) /\ InOrder(c.parts)
  /\ TextApart(c.parts, c.text) /\ Closing(c.parts, c.open)

\* A collector c of route w has an event e, as a part or as what will be one.
HasEvent(w, c, e) ==
  \/ e.kind = "thinking" /\ (e.parent = NoOp \/ w = "socket")
  \/ \E i \in 1..Len(c.parts) : Holds(w, c.parts[i], e)
  \/ IF e.parent # NoOp /\ w # "socket"
     THEN Contains(c.open, e.parent) /\ Contains(c.children[e.parent], e)
     ELSE \/ e.kind = "message" /\ Contains(c.text, e.n)
          \/ e.kind = "operation_start" /\ e.op \in Tasks /\ Contains(c.open, e.op)

\* What a run's collector is about.
Numbered(c, n) ==
  /\ \A a \in 1..Len(c.text) : c.text[a] <= n
  /\ \A i \in 1..Len(c.parts) : c.parts[i].type = "text" =>
       \A a \in 1..Len(c.parts[i].body) : c.parts[i].body[a] <= n
About(c, S) ==
  /\ \A i \in 1..Len(c.open) : c.open[i] \in S
  /\ \A i \in 1..Len(c.parts) : c.parts[i].type # "text" => c.parts[i].op \in S

\* Operations going on are inside tasks that are going on, too; they are open, unless they
\* belong to a subagent.
Inside(path, S) == \A i \in 1..Len(path) : path[i] \in S
Going(w, going_, within_, c) ==
  \A o \in going_ :
    /\ Inside(within_[o], going_ \cap Tasks)
    /\ Contains(c.open, o) <=> o \in Tasks \/ w = "socket" \/ within_[o] = <<>>

\* The events its client was sent.
SentIsKept(r) ==
  /\ IsFiniteSet(shown[r])
  /\ \A e \in shown[r] :
       /\ e.kind = "message" => e.n <= Cardinality(Chunks(r)) /\ e.op = NoOp
       /\ e.kind = "thinking" => e.op = NoOp
       /\ e.kind = "operation_start" => e.op \in started[r]
       /\ e.kind = "operation_end" => e.op \in started[r] \ going[r] /\ ~ Contains(collector[r].open, e.op)
       /\ HasEvent(route[r], collector[r], e)

Running(r) ==
  /\ going[r] \subseteq started[r] /\ going[r] \cap Tasks \subseteq active[r]
  /\ Made(collector[r]) /\ Numbered(collector[r], Cardinality(Chunks(r)))
  /\ About(collector[r], started[r])
  /\ Going(route[r], going[r], within[r], collector[r])
  /\ SentIsKept(r)
  /\ phase[r] = "idle" \/ route[r] = "plain" =>
       /\ shown[r] = {} /\ collector[r] = NothingCollected /\ going[r] = {}

\* No reply of a run is stored before it has ended; then what the properties say holds.
Unanswered(r) == \A i \in 1..Len(messages) : ~ (messages[i].role = "assistant" /\ messages[i].run = r)
KeptIn(r) ==
  phase[r] \in {"complete", "interrupt", "error", "stopped"} =>
    \A e \in shown[r] :
      \/ e.kind = "thinking" /\ (e.parent = NoOp \/ route[r] = "socket")
      \/ e.parent # NoOp /\ Unended(r, e.parent)
      \/ e.op \in Tasks /\ Unended(r, e.op)
      \/ Found(r, e) = 1
Closed(r) ==
  \A o \in Tools :
    /\ Cardinality(PartsOf(r, "result", o)) <= 1
    /\ \A i \in PartsOf(r, "result", o) : \E j \in PartsOf(r, "call", o) : j < i
    /\ phase[r] = "stopped" => Cardinality(PartsOf(r, "call", o)) = Cardinality(PartsOf(r, "result", o))

ChatTyped ==
  /\ route \in [Runs -> Routes \cup {"none"}] /\ phase \in [Runs -> Phases]
  /\ entry \in Runs \cup {NoRun}
  /\ started \in [Runs -> SUBSET Operations] /\ going \in [Runs -> SUBSET Operations]
  /\ active \in [Runs -> SUBSET Tasks] /\ within \in [Runs -> [Operations -> Seq(Tasks)]]
  /\ collector \in [Runs -> CollectorType] /\ shown \in [Runs -> SUBSET EventType]
  /\ messages \in Seq(RowType)
  /\ \A r \in Runs : going[r] \subseteq started[r]

\* The inductive invariant.
RunKnown(r) ==
  IF phase[r] \in Ended THEN KeptIn(r) /\ Closed(r)
  ELSE Running(r) /\ Unanswered(r)
ChatInv == ChatTyped /\ \A r \in Runs : RunKnown(r)

\* A list without repetition, and what is left of it without o.
Apart(list) == \A i, j \in 1..Len(list) : list[i] = list[j] => i = j

\* RemoveFirst takes o out of such a list, and nothing else.
LEMMA RemovedIs ==
  ASSUME NEW S, NEW list \in Seq(S), Apart(list), NEW o
  PROVE  LET d == RemoveFirst(list, o)
         IN /\ d \in Seq(S) /\ Apart(d)
            /\ \A x : Contains(d, x) <=> Contains(list, x) /\ x # o
<1> DEFINE d == RemoveFirst(list, o)
<1>1. CASE ~ \E i \in 1..Len(list) : list[i] = o
  <2>1. d = list
    BY <1>1 DEF RemoveFirst
  <2> QED
    BY <1>1, <2>1 DEF Contains
<1>2. CASE \E i \in 1..Len(list) : list[i] = o
  <2> DEFINE I == {i \in 1..Len(list) : list[i] = o}
  <2>1. PICK k \in 1..Len(list) : list[k] = o
    BY <1>2
  <2>2. I = {k}
    BY <2>1 DEF Apart
  <2>3. Min(I) = k
    <3>1. Min({k}) = k
      BY <2>1 DEF Min
    <3> QED
      BY <2>2, <3>1
  <2>4. SelectInSeq(list, LAMBDA v : v = o) = k
    <3> HIDE DEF I
    <3>1. I # {}
      BY <2>2
    <3>2. SelectInSeq(list, LAMBDA v : v = o) = IF I # {} THEN Min(I) ELSE 0
      BY DEF SelectInSeq, I
    <3> QED
      BY <2>3, <3>1, <3>2
  <2>5. d = SubSeq(list, 1, k - 1) \o SubSeq(list, k + 1, Len(list))
    BY <1>2, <2>4 DEF RemoveFirst, RemoveAt
  <2>6. PICK n \in Nat : n = Len(list)
    OBVIOUS
  <2>7. /\ SubSeq(list, 1, k - 1) \in Seq(S) /\ SubSeq(list, k + 1, n) \in Seq(S)
        /\ Len(SubSeq(list, 1, k - 1)) = k - 1 /\ Len(SubSeq(list, k + 1, n)) = n - k
        /\ \A i \in 1..(k - 1) : SubSeq(list, 1, k - 1)[i] = list[i]
        /\ \A i \in 1..(n - k) : SubSeq(list, k + 1, n)[i] = list[i + k]
    BY <2>1, <2>6
  <2>8. /\ d \in Seq(S) /\ Len(d) = n - 1
        /\ \A i \in 1..(n - 1) : d[i] = IF i < k THEN list[i] ELSE list[i + 1]
    <3>1. PICK a \in Seq(S) : a = SubSeq(list, 1, k - 1)
      BY <2>7
    <3>2. PICK b \in Seq(S) : b = SubSeq(list, k + 1, n)
      BY <2>7
    <3>3. d = a \o b
      BY <2>5, <2>6, <3>1, <3>2
    <3>4. Len(a) = k - 1 /\ Len(b) = n - k /\ k \in 1..n
      BY <2>1, <2>6, <2>7, <3>1, <3>2
    <3>5. /\ \A i \in 1..(k - 1) : a[i] = list[i]
          /\ \A i \in 1..(n - k) : b[i] = list[i + k]
      BY <2>7, <3>1, <3>2
    <3> HIDE DEF d
    <3>6. d \in Seq(S) /\ Len(d) = n - 1
      <4>1. d \in Seq(S) /\ Len(d) = Len(a) + Len(b)
        BY <3>3
      <4>2. (k - 1) + (n - k) = n - 1
        BY <3>4
      <4> QED
        BY <3>4, <4>1, <4>2
    <3>7. ASSUME NEW i \in 1..(n - 1)
          PROVE  d[i] = IF i < k THEN list[i] ELSE list[i + 1]
      <4>1. CASE i < k
        BY <3>3, <3>4, <3>5, <4>1
      <4>2. CASE ~ (i < k)
        <5>1. i - (k - 1) \in 1..(n - k) /\ (i - (k - 1)) + k = i + 1
          BY <3>4, <4>2
        <5>2. d[i] = b[i - (k - 1)]
          BY <3>3, <3>4, <4>2
        <5> QED
          BY <3>5, <4>2, <5>1, <5>2
      <4> QED
        BY <4>1, <4>2
    <3> QED
      BY <3>6, <3>7
  <2> HIDE DEF d
  <2>9. Apart(d)
    <3> SUFFICES ASSUME NEW i \in 1..(n - 1), NEW j \in 1..(n - 1), d[i] = d[j] PROVE i = j
      BY <2>8 DEF Apart
    <3>1. /\ i + 1 \in 1..n /\ i \in 1..n /\ j + 1 \in 1..n /\ j \in 1..n
      BY <2>6
    <3> QED
      BY <2>1, <2>6, <2>8, <3>1 DEF Apart
  <2>10. ASSUME NEW x
         PROVE  Contains(d, x) <=> Contains(list, x) /\ x # o
    <3>1. ASSUME NEW i \in 1..(n - 1), d[i] = x PROVE Contains(list, x) /\ x # o
      <4>1. PICK j \in 1..n : list[j] = x /\ j # k
        <5>1. CASE i < k
          BY <2>6, <2>8, <3>1, <5>1
        <5>2. CASE ~ (i < k)
          <6>1. i + 1 \in 1..n /\ i + 1 # k
            BY <2>1, <2>6, <5>2
          <6> QED
            BY <2>8, <3>1, <5>2, <6>1
        <5> QED
          BY <5>1, <5>2
      <4> QED
        BY <2>1, <2>6, <4>1 DEF Contains, Apart
    <3>2. ASSUME NEW i \in 1..n, list[i] = x, x # o PROVE Contains(d, x)
      <4>1. CASE i < k
        <5>1. i \in 1..(n - 1)
          BY <2>1, <2>6, <4>1
        <5> QED
          BY <2>8, <3>2, <4>1, <5>1 DEF Contains
      <4>2. CASE ~ (i < k)
        <5>1. i # k
          BY <2>1, <3>2
        <5>2. i - 1 \in 1..(n - 1) /\ ~ (i - 1 < k) /\ (i - 1) + 1 = i
          BY <2>1, <2>6, <4>2, <5>1
        <5> QED
          BY <2>8, <3>2, <5>2 DEF Contains
      <4> QED
        BY <4>1, <4>2
    <3> QED
      BY <2>6, <2>8, <3>1, <3>2 DEF Contains
  <2> QED
    BY <2>8, <2>9, <2>10 DEF d
<1> QED
  BY <1>1, <1>2

\* One part more.
LEMMA PartAdded ==
  ASSUME NEW P \in Seq(PartType), Proper(P), PartsApart(P), InOrder(P),
         NEW p \in PartType, Proper(<<p>>),
         p.type = "text" => TextApart(P, p.body),
         p.type # "text" => ~ HasPart(P, p.type, p.op),
         p.type = "result" => HasPart(P, "call", p.op)
  PROVE  LET Q == Append(P, p)
         IN /\ Q \in Seq(PartType) /\ Len(Q) = Len(P) + 1 /\ Q[Len(P) + 1] = p
            /\ \A i \in 1..Len(P) : Q[i] = P[i]
            /\ Proper(Q) /\ PartsApart(Q) /\ InOrder(Q)
            /\ \A type, o : HasPart(Q, type, o) <=> HasPart(P, type, o) \/ (p.type = type /\ p.op = o)
<1> DEFINE Q == Append(P, p)
<1>1. PICK n \in Nat : n = Len(P)
  OBVIOUS
<1>2. /\ Q \in Seq(PartType) /\ Len(Q) = n + 1 /\ Q[n + 1] = p
      /\ \A i \in 1..n : Q[i] = P[i]
  BY <1>1
<1>3. \A i \in 1..(n + 1) : (i \in 1..n /\ Q[i] = P[i]) \/ (i = n + 1 /\ Q[i] = p)
  BY <1>2
<1>4. n + 1 \in 1..(n + 1) /\ 1..n \subseteq 1..(n + 1)
  OBVIOUS
<1>5. /\ p.type = "text" => p.body \in Seq(Nat)
      /\ p.type \in {"call", "result"} => p.op \in Tools
      /\ p.type = "task" => p.op \in Tasks /\ p.body \in Seq(EventType)
  BY DEF Proper
<1> HIDE DEF Q
<1>6. Proper(Q)
  BY <1>1, <1>2, <1>3, <1>5 DEF Proper
<1>7. \A type, o : HasPart(Q, type, o) <=> HasPart(P, type, o) \/ (p.type = type /\ p.op = o)
  BY <1>1, <1>2, <1>3, <1>4 DEF HasPart
<1>8. InOrder(Q)
  <2> SUFFICES ASSUME NEW i \in 1..(n + 1), Q[i].type = "result"
               PROVE  \E j \in 1..(i - 1) : Q[j].type = "call" /\ Q[j].op = Q[i].op
    BY <1>2 DEF InOrder
  <2>1. CASE i \in 1..n
    <3>1. PICK j \in 1..(i - 1) : P[j].type = "call" /\ P[j].op = P[i].op
      BY <1>1, <1>2, <2>1 DEF InOrder
    <3>2. j \in 1..n
      BY <2>1, <3>1
    <3> QED
      BY <1>2, <2>1, <3>1, <3>2
  <2>2. CASE i = n + 1
    <3>1. PICK j \in 1..n : P[j].type = "call" /\ P[j].op = p.op
      BY <1>1, <1>2, <2>2 DEF HasPart
    <3>2. j \in 1..(i - 1)
      BY <2>2
    <3> QED
      BY <1>2, <2>2, <3>1, <3>2
  <2> QED
    BY <2>1, <2>2
<1>9. PartsApart(Q)
  <2> DEFINE Differ(a, b) ==
        \/ a.type # b.type
        \/ IF a.type = "text" THEN \A x \in 1..Len(a.body) : ~ Contains(b.body, a.body[x])
           ELSE a.op # b.op
  <2>1. ASSUME NEW i \in 1..n, NEW j \in 1..n, i # j PROVE Differ(P[i], P[j])
    BY <1>1, <2>1 DEF PartsApart
  <2>2. ASSUME NEW i \in 1..n PROVE Differ(P[i], p) /\ Differ(p, P[i])
    <3>1. CASE p.type # "text"
      BY <1>1, <3>1 DEF HasPart
    <3>2. CASE p.type = "text" /\ P[i].type = "text"
      <4>1. \A x \in 1..Len(p.body) : ~ Contains(P[i].body, p.body[x])
        BY <1>1, <3>2 DEF TextApart
      <4>2. \A x \in 1..Len(P[i].body) : ~ Contains(p.body, P[i].body[x])
        BY <4>1 DEF Contains
      <4> QED
        BY <3>2, <4>1, <4>2
    <3>3. CASE p.type = "text" /\ P[i].type # "text"
      BY <3>3
    <3> QED
      BY <3>1, <3>2, <3>3
  <2> HIDE DEF Differ
  <2>3. ASSUME NEW i \in 1..(n + 1), NEW j \in 1..(n + 1), i # j PROVE Differ(Q[i], Q[j])
    BY <1>3, <2>1, <2>2, <2>3
  <2> QED
    BY <1>2, <2>3 DEF PartsApart, Differ
<1> QED
  BY <1>1, <1>2, <1>6, <1>7, <1>8, <1>9 DEF Q

\* The fields of a collector.
LEMMA CollectorIs ==
  ASSUME NEW c \in CollectorType
  PROVE  /\ c.text \in Seq(Nat) /\ c.parts \in Seq(PartType) /\ c.open \in Seq(Operations)
         /\ c.children \in [Tasks -> Seq(EventType)]
         /\ c.thinking \in BOOLEAN /\ c.error \in BOOLEAN /\ c.metrics \in BOOLEAN
         /\ DOMAIN c = {"text", "parts", "open", "children", "thinking", "error", "metrics"}
         /\ c = [c EXCEPT !.text = c.text]
  BY DEF CollectorType

\* What does not change the text, the parts and the operations changes nothing here.
LEMMA Alike ==
  ASSUME NEW c, Made(c), NEW d \in CollectorType,
         d.text = c.text, d.parts = c.parts, d.open = c.open, d.children = c.children
  PROVE  /\ Made(d)
         /\ \A w, e : HasEvent(w, c, e) => HasEvent(w, d, e)
         /\ \A n : Numbered(c, n) => Numbered(d, n)
         /\ \A S : About(c, S) => About(d, S)
<1>1. Made(d)
  BY DEF Made
<1>2. ASSUME NEW w, NEW e, HasEvent(w, c, e) PROVE HasEvent(w, d, e)
  BY <1>2 DEF HasEvent
<1> QED
  BY <1>1, <1>2 DEF Numbered, About

\* The text becomes a part.
LEMMA FlushIs ==
  ASSUME NEW c, Made(c)
  PROVE  LET d == Flush(c)
         IN /\ Made(d) /\ d.text = <<>> /\ d.open = c.open /\ d.children = c.children
            /\ d.thinking = c.thinking /\ d.error = c.error /\ d.metrics = c.metrics
            /\ \A w : \A e \in EventType : HasEvent(w, c, e) => HasEvent(w, d, e)
            /\ \A n \in Nat : Numbered(c, n) => Numbered(d, n)
            /\ \A S : About(c, S) => About(d, S)
            /\ \A type, o : type # "text" => (HasPart(d.parts, type, o) <=> HasPart(c.parts, type, o))
<1> DEFINE d == Flush(c)
           P == c.parts
           p == Part("text", NoOp, c.text)
           Q == Append(P, p)
<1>1. c \in CollectorType
  BY DEF Made
<1>2. CASE c.text = <<>>
  <2>1. d = c
    BY <1>2 DEF Flush
  <2> QED
    BY <1>2, <2>1
<1>3. CASE c.text # <<>>
  <2>1. /\ d \in CollectorType /\ d.text = <<>> /\ d.parts = Q /\ d.open = c.open /\ d.children = c.children
        /\ d.thinking = c.thinking /\ d.error = c.error /\ d.metrics = c.metrics
    <3>1. p \in PartType
      BY <1>1, CollectorIs DEF PartType, Part
    <3>2. d = [c EXCEPT !.text = <<>>, !.parts = Q]
      BY <1>1, <1>3, CollectorIs DEF Flush
    <3>3. Q \in Seq(PartType) /\ <<>> \in Seq(Nat)
      BY <1>1, <3>1, CollectorIs
    <3> HIDE DEF d, Q, p
    <3> QED
      BY <1>1, <3>2, <3>3 DEF CollectorType
  <2>2. PICK n \in Nat : n = Len(P)
    BY <1>1, CollectorIs
  <2>3. /\ Q \in Seq(PartType) /\ Len(Q) = n + 1 /\ Q[n + 1] = p
        /\ \A i \in 1..n : Q[i] = P[i]
        /\ Proper(Q) /\ PartsApart(Q) /\ InOrder(Q)
        /\ \A type, o : HasPart(Q, type, o) <=> HasPart(P, type, o) \/ (p.type = type /\ p.op = o)
    <3>1. p \in PartType /\ p.type = "text" /\ p.body = c.text /\ P \in Seq(PartType)
      BY <1>1, CollectorIs DEF PartType, Part
    <3>2. Proper(<<p>>)
      BY <1>1, <3>1, CollectorIs DEF Proper
    <3>3. Proper(P) /\ PartsApart(P) /\ InOrder(P) /\ TextApart(P, p.body)
      BY <3>1 DEF Made
    <3> HIDE DEF p, P
    <3> QED
      BY <2>2, <3>1, <3>2, <3>3, PartAdded
  <2>4. p.type = "text" /\ p.op = NoOp /\ p.body = c.text
    BY DEF Part
  <2>5. n + 1 \in 1..(n + 1) /\ 1..n \subseteq 1..(n + 1)
    OBVIOUS
  <2> HIDE DEF Q, d, p
  <2>6. TextApart(Q, <<>>)
    BY DEF TextApart
  <2>7. Closing(Q, c.open)
    BY <2>3, <2>4 DEF Closing, Made
  <2>8. Made(d)
    BY <2>1, <2>3, <2>6, <2>7 DEF Made
  <2>9. ASSUME NEW w, NEW e \in EventType, HasEvent(w, c, e) PROVE HasEvent(w, d, e)
    <3>1. CASE \E i \in 1..Len(c.parts) : Holds(w, c.parts[i], e)
      <4>1. PICK i \in 1..n : Holds(w, P[i], e)
        BY <2>2, <3>1
      <4> QED
        BY <2>1, <2>3, <2>5, <4>1 DEF HasEvent
    <3>2. CASE (e.parent = NoOp \/ w = "socket") /\ e.kind = "message" /\ Contains(c.text, e.n)
      <4>1. e.n \in ToSet(p.body)
        BY <1>1, <2>4, <3>2, CollectorIs DEF Contains, ToSet
      <4>2. Holds(w, p, e)
        BY <2>4, <3>2, <4>1 DEF Holds
      <4> QED
        BY <2>1, <2>3, <2>5, <4>2 DEF HasEvent
    <3> QED
      BY <2>1, <2>9, <3>1, <3>2 DEF HasEvent
  <2>10. ASSUME NEW m \in Nat, Numbered(c, m) PROVE Numbered(d, m)
    <3>1. \A i \in 1..(n + 1) : (i \in 1..n /\ Q[i] = P[i]) \/ Q[i] = p
      BY <2>3
    <3>2. Len(<<>>) = 0 /\ 1..0 = {}
      OBVIOUS
    <3> QED
      BY <2>1, <2>2, <2>3, <2>4, <2>10, <3>1, <3>2 DEF Numbered
  <2>11. ASSUME NEW S, About(c, S) PROVE About(d, S)
    <3>1. \A i \in 1..(n + 1) : (i \in 1..n /\ Q[i] = P[i]) \/ Q[i] = p
      BY <2>3
    <3> QED
      BY <2>1, <2>2, <2>3, <2>4, <2>11, <3>1 DEF About
  <2> QED
    BY <2>1, <2>3, <2>4, <2>8, <2>9, <2>10, <2>11 DEF d
<1> QED
  BY <1>2, <1>3

\* An open operation ends.
LEMMA EndIs ==
  ASSUME NEW c, Made(c), NEW o \in Operations, Contains(c.open, o)
  PROVE  LET d == OperationEnd(c, o)
         IN /\ Made(d) /\ d.text = c.text
            /\ d.thinking = c.thinking /\ d.error = c.error /\ d.metrics = c.metrics
            /\ \A x : Contains(d.open, x) <=> Contains(c.open, x) /\ x # o
            /\ \A w : \A e \in EventType :
                 \/ HasEvent(w, c, e)
                 \/ e.kind = "operation_end" /\ e.op = o /\ (e.parent = NoOp \/ w = "socket")
                 => HasEvent(w, d, e)
            /\ \A n \in Nat : Numbered(c, n) => Numbered(d, n)
            /\ \A S : About(c, S) => About(d, S)
<1> DEFINE d == OperationEnd(c, o)
           P == c.parts
           p == IF o \in Tasks THEN Part("task", o, c.children[o]) ELSE Part("result", o, <<>>)
           Q == Append(P, p)
           left == RemoveFirst(c.open, o)
           rest == IF o \in Tasks THEN [c.children EXCEPT ![o] = <<>>] ELSE c.children
<1>1. c \in CollectorType
  BY DEF Made
<1>2. p \in PartType /\ p.op = o
  <2>1. CASE o \in Tasks
    <3>1. c.children[o] \in Seq(EventType)
      BY <1>1, <2>1, CollectorIs
    <3> QED
      BY <2>1, <3>1 DEF PartType, Part
  <2>2. CASE o \notin Tasks
    <3>1. <<>> \in Seq(Nat)
      OBVIOUS
    <3> QED
      BY <2>2, <3>1 DEF PartType, Part
  <2> QED
    BY <2>1, <2>2
<1>3. /\ o \in Tasks => p.type = "task" /\ p.body = c.children[o]
      /\ o \notin Tasks => p.type = "result" /\ o \in Tools
      /\ p.type # "text" /\ p.type # "call"
  BY DEF Part
<1>4. left \in Seq(Operations) /\ Apart(left) /\ \A x : Contains(left, x) <=> Contains(c.open, x) /\ x # o
  <2>1. c.open \in Seq(Operations) /\ Apart(c.open)
    BY <1>1, CollectorIs DEF Made, Closing, Apart
  <2> QED
    BY <2>1, RemovedIs
<1>5. /\ d \in CollectorType /\ d.text = c.text /\ d.parts = Q /\ d.open = left /\ d.children = rest
      /\ d.thinking = c.thinking /\ d.error = c.error /\ d.metrics = c.metrics
  <2>1. rest \in [Tasks -> Seq(EventType)]
    <3>1. <<>> \in Seq(EventType)
      OBVIOUS
    <3> QED
      BY <1>1, <3>1, CollectorIs
  <2>2. Q \in Seq(PartType)
    <3> HIDE DEF p
    <3> QED
      BY <1>1, <1>2, CollectorIs
  <2>3. d = [c EXCEPT !.open = left, !.children = rest, !.parts = Q]
    <3>1. CASE o \in Tasks
      BY <1>1, <3>1, CollectorIs DEF OperationEnd
    <3>2. CASE o \notin Tasks
      BY <1>1, <3>2, CollectorIs DEF OperationEnd
    <3> QED
      BY <3>1, <3>2
  <2> HIDE DEF d, Q, left, rest
  <2> QED
    BY <1>1, <1>4, <2>1, <2>2, <2>3 DEF CollectorType
<1>6. PICK n \in Nat : n = Len(P)
  BY <1>1, CollectorIs
<1>7. /\ Q \in Seq(PartType) /\ Len(Q) = n + 1 /\ Q[n + 1] = p
      /\ \A i \in 1..n : Q[i] = P[i]
      /\ Proper(Q) /\ PartsApart(Q) /\ InOrder(Q)
      /\ \A type, x : HasPart(Q, type, x) <=> HasPart(P, type, x) \/ (p.type = type /\ p.op = x)
  <2>1. Proper(<<p>>)
    <3>1. o \in Tasks => c.children[o] \in Seq(EventType)
      BY <1>1, CollectorIs
    <3> HIDE DEF p
    <3> QED
      BY <1>2, <1>3, <3>1 DEF Proper
  <2>2. Proper(P) /\ PartsApart(P) /\ InOrder(P) /\ Closing(P, c.open) /\ P \in Seq(PartType)
    BY <1>1, CollectorIs DEF Made
  <2>3. ~ HasPart(P, p.type, p.op) /\ (p.type = "result" => HasPart(P, "call", p.op))
    <3> HIDE DEF p, P
    <3> QED
      BY <1>2, <1>3, <2>2 DEF Closing
  <2> HIDE DEF p, P
  <2> QED
    BY <1>2, <1>3, <1>6, <2>1, <2>2, <2>3, PartAdded
<1>8. n + 1 \in 1..(n + 1) /\ 1..n \subseteq 1..(n + 1)
  OBVIOUS
<1>9. \A i \in 1..(n + 1) : (i \in 1..n /\ Q[i] = P[i]) \/ Q[i] = p
  <2> HIDE DEF p, Q
  <2> QED
    BY <1>7
<1> HIDE DEF Q, d, p, left
<1>10. TextApart(Q, c.text)
  <2>1. TextApart(P, c.text)
    BY DEF Made
  <2> HIDE DEF P
  <2> QED
    BY <1>3, <1>6, <1>7, <1>9, <2>1 DEF TextApart
<1>11. Closing(Q, left)
  <2>1. Closing(P, c.open)
    BY DEF Made
  <2>2. \A t \in Tools : Contains(left, t) <=> HasPart(Q, "call", t) /\ ~ HasPart(Q, "result", t)
    <3> HIDE DEF P
    <3> QED
      BY <1>2, <1>3, <1>4, <1>7, <2>1 DEF Closing
  <2>3. \A k \in Tasks : Contains(left, k) => ~ HasPart(Q, "task", k)
    <3> HIDE DEF P
    <3> QED
      BY <1>2, <1>3, <1>4, <1>7, <2>1 DEF Closing
  <2> QED
    BY <1>4, <2>2, <2>3 DEF Closing, Apart
<1>12. Made(d)
  BY <1>5, <1>7, <1>10, <1>11 DEF Made
<1>13. ASSUME NEW w, NEW e \in EventType,
              \/ HasEvent(w, c, e)
              \/ e.kind = "operation_end" /\ e.op = o /\ (e.parent = NoOp \/ w = "socket")
       PROVE  HasEvent(w, d, e)
  <2>1. CASE \E i \in 1..Len(c.parts) : Holds(w, c.parts[i], e)
    <3>1. PICK i \in 1..n : Holds(w, P[i], e)
      BY <1>6, <2>1
    <3> QED
      BY <1>5, <1>7, <1>8, <3>1 DEF HasEvent
  <2>2. CASE Holds(w, p, e)
    BY <1>5, <1>7, <1>8, <2>2 DEF HasEvent
  <2>3. CASE e.kind = "operation_end" /\ e.op = o /\ (e.parent = NoOp \/ w = "socket")
    <3>1. Holds(w, p, e)
      BY <1>2, <1>3, <2>3 DEF Holds
    <3> QED
      BY <2>2, <3>1
  <2>4. CASE e.kind = "thinking" /\ (e.parent = NoOp \/ w = "socket")
    BY <2>4 DEF HasEvent
  <2>5. CASE e.parent # NoOp /\ w # "socket" /\ Contains(c.open, e.parent) /\ Contains(c.children[e.parent], e)
    <3>1. CASE e.parent = o
      <4>1. o \in Tasks
        BY <2>5, <3>1 DEF EventType
      <4>2. c.children[o] \in Seq(EventType)
        BY <1>1, <4>1, CollectorIs
      <4>3. e \in ToSet(p.body)
        BY <1>3, <2>5, <3>1, <4>1, <4>2 DEF Contains, ToSet
      <4>4. Holds(w, p, e)
        BY <1>2, <1>3, <2>5, <3>1, <4>1, <4>3 DEF Holds
      <4> QED
        BY <2>2, <4>4
    <3>2. CASE e.parent # o
      <4>1. e.parent \in Tasks /\ Contains(left, e.parent)
        BY <1>4, <2>5, <3>2 DEF EventType
      <4>2. rest[e.parent] = c.children[e.parent]
        BY <1>1, <3>2, <4>1, CollectorIs
      <4> QED
        BY <1>5, <2>5, <4>1, <4>2 DEF HasEvent
    <3> QED
      BY <3>1, <3>2
  <2>6. CASE /\ ~ (e.parent # NoOp /\ w # "socket")
             /\ \/ e.kind = "message" /\ Contains(c.text, e.n)
                \/ e.kind = "operation_start" /\ e.op \in Tasks /\ Contains(c.open, e.op)
    <3>1. CASE e.kind = "message"
      BY <1>5, <2>6, <3>1 DEF HasEvent
    <3>2. CASE e.kind = "operation_start" /\ e.op # o
      BY <1>4, <1>5, <2>6, <3>2 DEF HasEvent
    <3>3. CASE e.kind = "operation_start" /\ e.op = o
      <4>1. Holds(w, p, e)
        BY <1>2, <1>3, <2>6, <3>3 DEF Holds
      <4> QED
        BY <2>2, <4>1
    <3> QED
      BY <2>6, <3>1, <3>2, <3>3
  <2> QED
    BY <1>13, <2>1, <2>3, <2>4, <2>5, <2>6 DEF HasEvent
<1>14. ASSUME NEW m \in Nat, Numbered(c, m) PROVE Numbered(d, m)
  <2> HIDE DEF P
  <2>1. c.parts = P
    BY DEF P
  <2> QED
    BY <1>3, <1>5, <1>6, <1>7, <1>9, <1>14, <2>1 DEF Numbered
<1>15. ASSUME NEW S, About(c, S) PROVE About(d, S)
  <2>1. o \in S /\ \A x : Contains(left, x) => x \in S
    BY <1>4, <1>15 DEF About, Contains
  <2>2. \A i \in 1..Len(left) : left[i] \in S
    BY <2>1 DEF Contains
  <2>3. \A i \in 1..(n + 1) : Q[i].type # "text" => Q[i].op \in S
    BY <1>2, <1>6, <1>9, <1>15, <2>1 DEF About
  <2> QED
    BY <1>5, <1>7, <2>2, <2>3 DEF About
<1> QED
  BY <1>4, <1>5, <1>12, <1>13, <1>14, <1>15 DEF d

\* An operation begins that the collector knows nothing of.
LEMMA StartIs ==
  ASSUME NEW c, Made(c), NEW o \in Operations, ~ Contains(c.open, o),
         \A type \in {"call", "result", "task"} : ~ HasPart(c.parts, type, o)
  PROVE  LET d == OperationStart(c, o)
         IN /\ Made(d)
            /\ \A x : Contains(d.open, x) <=> Contains(c.open, x) \/ x = o
            /\ \A w : \A e \in EventType :
                 \/ HasEvent(w, c, e)
                 \/ e.kind = "operation_start" /\ e.op = o /\ (e.parent = NoOp \/ w = "socket")
                 => HasEvent(w, d, e)
            /\ \A n \in Nat : Numbered(c, n) => Numbered(d, n)
            /\ \A S : About(c, S) => About(d, S \cup {o})
<1> DEFINE d == OperationStart(c, o)
           f == Flush(c)
           P == f.parts
           p == Part("call", o, <<>>)
           Q == IF o \in Tools THEN Append(P, p) ELSE P
           more == Append(c.open, o)
<1>1. /\ Made(f) /\ f.text = <<>> /\ f.open = c.open /\ f.children = c.children
      /\ \A w : \A e \in EventType : HasEvent(w, c, e) => HasEvent(w, f, e)
      /\ \A n \in Nat : Numbered(c, n) => Numbered(f, n)
      /\ \A S : About(c, S) => About(f, S)
      /\ \A type, x : type # "text" => (HasPart(f.parts, type, x) <=> HasPart(c.parts, type, x))
  BY FlushIs
<1>2. c \in CollectorType /\ f \in CollectorType
  BY <1>1 DEF Made
<1> HIDE DEF f
<1>3. p \in PartType /\ p.type = "call" /\ p.op = o
  <2>1. <<>> \in Seq(Nat)
    OBVIOUS
  <2> QED
    BY <2>1 DEF PartType, Part
<1>4. /\ more \in Seq(Operations) /\ Apart(more)
      /\ \A x : Contains(more, x) <=> Contains(c.open, x) \/ x = o
  <2>0. c.open \in Seq(Operations)
    BY <1>2, CollectorIs
  <2>1. PICK k \in Nat : k = Len(c.open)
    BY <2>0
  <2>2. more \in Seq(Operations) /\ Len(more) = k + 1 /\ more[k + 1] = o /\ \A i \in 1..k : more[i] = c.open[i]
    BY <2>0, <2>1
  <2>3. \A i \in 1..(k + 1) : i \in 1..k \/ i = k + 1
    OBVIOUS
  <2>4. k + 1 \in 1..(k + 1) /\ 1..k \subseteq 1..(k + 1)
    OBVIOUS
  <2> HIDE DEF more
  <2>5. \A i \in 1..k : c.open[i] # o
    BY <2>1 DEF Contains
  <2>6. Apart(more)
    <3>1. \A i, j \in 1..k : c.open[i] = c.open[j] => i = j
      BY <2>1 DEF Made, Closing
    <3>2. ASSUME NEW i \in 1..(k + 1), NEW j \in 1..(k + 1), more[i] = more[j] PROVE i = j
      BY <2>2, <2>3, <2>5, <3>1, <3>2
    <3> QED
      BY <2>2, <3>2 DEF Apart
  <2> QED
    BY <2>1, <2>2, <2>3, <2>4, <2>6 DEF Contains
<1>5. Q \in Seq(PartType) /\ P \in Seq(PartType)
  <2> HIDE DEF p
  <2> QED
    BY <1>2, <1>3, CollectorIs
<1>6. d \in CollectorType /\ d.text = <<>> /\ d.parts = Q /\ d.open = more /\ d.children = c.children
  <2>1. d = [f EXCEPT !.open = more, !.parts = Q]
    <3> HIDE DEF p
    <3> QED
      BY <1>1, <1>2, CollectorIs DEF OperationStart, f, p
  <2> HIDE DEF d, Q, more
  <2> QED
    BY <1>1, <1>2, <1>4, <1>5, <2>1 DEF CollectorType
<1>7. PICK n \in Nat : n = Len(P)
  BY <1>5
<1>8. PICK m \in Nat : m = Len(Q)
  BY <1>5
<1>9. /\ m >= n /\ \A i \in 1..n : Q[i] = P[i]
      /\ \A i \in 1..m : (i \in 1..n /\ Q[i] = P[i]) \/ (Q[i] = p /\ o \in Tools)
      /\ o \in Tools => \E i \in 1..m : Q[i] = p
      /\ Proper(Q) /\ PartsApart(Q) /\ InOrder(Q)
      /\ \A type, x : HasPart(Q, type, x) <=> HasPart(P, type, x) \/ (o \in Tools /\ type = "call" /\ x = o)
  <2>1. Proper(P) /\ PartsApart(P) /\ InOrder(P)
    BY <1>1 DEF Made
  <2>2. CASE o \notin Tools
    <3>1. Q = P /\ m = n
      BY <1>7, <1>8, <2>2
    <3> QED
      BY <2>1, <2>2, <3>1
  <2>3. CASE o \in Tools
    <3>1. ~ HasPart(P, "call", o)
      BY <1>1
    <3>2. Proper(<<p>>)
      <4> HIDE DEF p
      <4> QED
        BY <1>3, <2>3 DEF Proper
    <3>3. Q = Append(P, p)
      BY <2>3
    <3> HIDE DEF p, P, Q
    <3>4. /\ Q \in Seq(PartType) /\ Len(Q) = n + 1 /\ Q[n + 1] = p
          /\ \A i \in 1..n : Q[i] = P[i]
          /\ Proper(Q) /\ PartsApart(Q) /\ InOrder(Q)
          /\ \A type, x : HasPart(Q, type, x) <=> HasPart(P, type, x) \/ (p.type = type /\ p.op = x)
      BY <1>3, <1>5, <1>7, <2>1, <3>1, <3>2, <3>3, PartAdded
    <3>5. m = n + 1 /\ \A i \in 1..(n + 1) : i \in 1..n \/ i = n + 1
      BY <1>8, <3>4
    <3>6. m >= n /\ n + 1 \in 1..m
      BY <3>5
    <3> QED
      BY <1>3, <2>3, <3>4, <3>5, <3>6
  <2> QED
    BY <2>2, <2>3
<1>10. 1..n \subseteq 1..m
  BY <1>9
<1> HIDE DEF Q, d, p, more, P
<1>11. Closing(Q, more)
  <2>1. Closing(P, c.open)
    BY <1>1 DEF Made, P
  <2>2. \A type \in {"call", "result", "task"} : ~ HasPart(P, type, o)
    BY <1>1 DEF P
  <2>3. \A t \in Tools : Contains(more, t) <=> HasPart(Q, "call", t) /\ ~ HasPart(Q, "result", t)
    BY <1>4, <1>9, <2>1, <2>2 DEF Closing
  <2>4. \A k \in Tasks : Contains(more, k) => ~ HasPart(Q, "task", k)
    BY <1>4, <1>9, <2>1, <2>2 DEF Closing
  <2> QED
    BY <1>4, <2>3, <2>4 DEF Closing, Apart
<1>12. Made(d)
  <2>1. TextApart(Q, <<>>)
    BY DEF TextApart
  <2> QED
    BY <1>6, <1>9, <1>11, <2>1 DEF Made
<1>13. ASSUME NEW w, NEW e \in EventType,
              \/ HasEvent(w, c, e)
              \/ e.kind = "operation_start" /\ e.op = o /\ (e.parent = NoOp \/ w = "socket")
       PROVE  HasEvent(w, d, e)
  <2>1. CASE HasEvent(w, c, e)
    <3>1. HasEvent(w, f, e)
      BY <1>1, <2>1
    <3>2. CASE \E i \in 1..Len(P) : Holds(w, P[i], e)
      BY <1>6, <1>7, <1>8, <1>9, <1>10, <3>2 DEF HasEvent
    <3>3. CASE ~ \E i \in 1..Len(P) : Holds(w, P[i], e)
      <4>1. ~ Contains(f.text, e.n)
        BY <1>1 DEF Contains
      <4> QED
        BY <1>1, <1>4, <1>6, <3>1, <3>3, <4>1 DEF HasEvent, P
    <3> QED
      BY <3>2, <3>3
  <2>2. CASE e.kind = "operation_start" /\ e.op = o /\ (e.parent = NoOp \/ w = "socket")
    <3>1. CASE o \in Tools
      <4>1. Holds(w, p, e)
        BY <1>3, <2>2, <3>1 DEF Holds
      <4> QED
        BY <1>6, <1>8, <1>9, <3>1, <4>1 DEF HasEvent
    <3>2. CASE o \in Tasks
      BY <1>4, <1>6, <2>2, <3>2 DEF HasEvent
    <3> QED
      BY <3>1, <3>2
  <2> QED
    BY <1>13, <2>1, <2>2
<1>14. ASSUME NEW k \in Nat, Numbered(c, k) PROVE Numbered(d, k)
  <2>1. Numbered(f, k)
    BY <1>1, <1>14
  <2>2. Len(<<>>) = 0 /\ 1..0 = {}
    OBVIOUS
  <2> QED
    BY <1>3, <1>6, <1>7, <1>8, <1>9, <2>1, <2>2 DEF Numbered, P
<1>15. ASSUME NEW S, About(c, S) PROVE About(d, S \cup {o})
  <2>1. About(f, S)
    BY <1>1, <1>15
  <2>2. \A i \in 1..Len(more) : more[i] \in S \cup {o}
    <3>1. \A x : Contains(more, x) => x \in S \cup {o}
      BY <1>4, <1>15, ZenonT(30) DEF About, Contains
    <3> QED
      BY <3>1 DEF Contains
  <2> QED
    BY <1>3, <1>6, <1>7, <1>8, <1>9, <2>1, <2>2 DEF About, P
<1> QED
  BY <1>4, <1>6, <1>12, <1>13, <1>14, <1>15 DEF d

\* A new piece of text.
LEMMA TextIs ==
  ASSUME NEW c, Made(c), NEW m \in Nat, Numbered(c, m)
  PROVE  LET d == [c EXCEPT !.text = Append(@, m + 1)]
         IN /\ Made(d) /\ d.open = c.open
            /\ \A w : \A e \in EventType :
                 \/ HasEvent(w, c, e)
                 \/ e.kind = "message" /\ e.n = m + 1 /\ (e.parent = NoOp \/ w = "socket")
                 => HasEvent(w, d, e)
            /\ Numbered(d, m + 1)
            /\ \A S : About(c, S) => About(d, S)
<1> DEFINE text == Append(c.text, m + 1)
           d == [c EXCEPT !.text = text]
<1>1. c \in CollectorType
  BY DEF Made
<1>2. PICK n \in Nat : n = Len(c.text)
  BY <1>1, CollectorIs
<1>3. text \in Seq(Nat) /\ Len(text) = n + 1 /\ text[n + 1] = m + 1 /\ \A i \in 1..n : text[i] = c.text[i]
  BY <1>1, <1>2, CollectorIs
<1>4. /\ \A i \in 1..(n + 1) : i \in 1..n \/ i = n + 1
      /\ n + 1 \in 1..(n + 1) /\ 1..n \subseteq 1..(n + 1)
  OBVIOUS
<1> HIDE DEF text
<1>5. /\ d \in CollectorType /\ d.text = text /\ d.parts = c.parts /\ d.open = c.open
      /\ d.children = c.children
  BY <1>1, <1>3 DEF CollectorType
<1> HIDE DEF d
<1>6. \A i \in 1..Len(c.parts) : c.parts[i].type = "text" =>
        c.parts[i].body \in Seq(Nat) /\ \A a \in 1..Len(c.parts[i].body) : c.parts[i].body[a] <= m
  BY DEF Numbered, Made, Proper
<1>7. TextApart(c.parts, text)
  <2> SUFFICES ASSUME NEW i \in 1..Len(c.parts), c.parts[i].type = "text", NEW a \in 1..(n + 1)
               PROVE  ~ Contains(c.parts[i].body, text[a])
    BY <1>3 DEF TextApart
  <2>1. CASE a \in 1..n
    BY <1>2, <1>3, <2>1 DEF Made, TextApart
  <2>2. CASE a = n + 1
    <3>1. ASSUME NEW b \in 1..Len(c.parts[i].body) PROVE c.parts[i].body[b] # m + 1
      <4>1. c.parts[i].body[b] <= m /\ c.parts[i].body[b] \in Nat
        BY <1>6
      <4> QED
        BY <4>1
    <3> QED
      BY <1>3, <2>2, <3>1 DEF Contains
  <2> QED
    BY <1>4, <2>1, <2>2
<1>8. Made(d)
  BY <1>5, <1>7 DEF Made
<1>9. \A x : Contains(text, x) <=> Contains(c.text, x) \/ x = m + 1
  BY <1>2, <1>3, <1>4 DEF Contains
<1>10. ASSUME NEW w, NEW e \in EventType,
              \/ HasEvent(w, c, e)
              \/ e.kind = "message" /\ e.n = m + 1 /\ (e.parent = NoOp \/ w = "socket")
       PROVE  HasEvent(w, d, e)
  BY <1>5, <1>9, <1>10 DEF HasEvent
<1>11. Numbered(d, m + 1)
  <2>1. ASSUME NEW a \in 1..(n + 1) PROVE text[a] <= m + 1
    <3>1. CASE a \in 1..n
      <4>1. text[a] = c.text[a] /\ c.text[a] <= m
        BY <1>2, <1>3, <3>1 DEF Numbered
      <4>2. text[a] \in Nat
        BY <1>3
      <4> QED
        BY <4>1, <4>2
    <3>2. CASE a = n + 1
      BY <1>3, <3>2
    <3> QED
      BY <1>4, <3>1, <3>2
  <2>2. ASSUME NEW i \in 1..Len(c.parts), c.parts[i].type = "text", NEW a \in 1..Len(c.parts[i].body)
        PROVE  c.parts[i].body[a] <= m + 1
    <3>1. c.parts[i].body[a] <= m /\ c.parts[i].body[a] \in Nat
      BY <1>6, <2>2
    <3> QED
      BY <3>1
  <2> QED
    BY <1>3, <1>5, <2>1, <2>2 DEF Numbered
<1> QED
  BY <1>5, <1>8, <1>10, <1>11 DEF About, d, text

\* A new event of a subagent.
LEMMA ChildIs ==
  ASSUME NEW c, Made(c), NEW new \in EventType, NEW k \in Tasks, Contains(c.open, k)
  PROVE  LET d == [c EXCEPT !.children[k] = Append(@, new)]
         IN /\ Made(d) /\ d.open = c.open
            /\ \A w : \A e \in EventType :
                 HasEvent(w, c, e) \/ (e = new /\ e.parent = k /\ w # "socket") => HasEvent(w, d, e)
            /\ \A n \in Nat : Numbered(c, n) => Numbered(d, n)
            /\ \A S : About(c, S) => About(d, S)
<1> DEFINE rest == [c.children EXCEPT ![k] = Append(@, new)]
           d == [c EXCEPT !.children[k] = Append(@, new)]
<1>1. c \in CollectorType
  BY DEF Made
<1>2. PICK old \in Seq(EventType) : old = c.children[k]
  BY <1>1, CollectorIs
<1>3. PICK now \in Seq(EventType) : now = Append(old, new)
  <2>1. Append(old, new) \in Seq(EventType)
    BY <1>2
  <2> QED
    BY <2>1
<1>4. \A e : Contains(now, e) <=> Contains(old, e) \/ e = new
  <2>1. PICK n \in Nat : n = Len(old)
    OBVIOUS
  <2>2. Len(now) = n + 1 /\ now[n + 1] = new /\ \A i \in 1..n : now[i] = old[i]
    BY <1>3, <2>1
  <2>3. /\ \A i \in 1..(n + 1) : i \in 1..n \/ i = n + 1
        /\ n + 1 \in 1..(n + 1) /\ 1..n \subseteq 1..(n + 1)
    OBVIOUS
  <2> QED
    BY <2>1, <2>2, <2>3 DEF Contains
<1>5. /\ rest \in [Tasks -> Seq(EventType)] /\ rest[k] = now
      /\ \A t \in Tasks \ {k} : rest[t] = c.children[t]
  BY <1>1, <1>2, <1>3, CollectorIs
<1>6. /\ d \in CollectorType /\ d.text = c.text /\ d.parts = c.parts /\ d.open = c.open /\ d.children = rest
  <2>1. d = [c EXCEPT !.children = rest]
    BY <1>1, CollectorIs
  <2> HIDE DEF d, rest
  <2> QED
    BY <1>1, <1>5, <2>1 DEF CollectorType
<1> HIDE DEF d, rest
<1>7. Made(d)
  BY <1>6 DEF Made
<1>8. ASSUME NEW w, NEW e \in EventType, HasEvent(w, c, e) \/ (e = new /\ e.parent = k /\ w # "socket")
      PROVE  HasEvent(w, d, e)
  <2>1. CASE e.parent \in Tasks
    <3>1. Contains(c.children[e.parent], e) => Contains(rest[e.parent], e)
      BY <1>2, <1>4, <1>5, <2>1
    <3>2. e = new /\ e.parent = k => Contains(rest[e.parent], e)
      BY <1>4, <1>5
    <3>3. k # NoOp
      OBVIOUS
    <3> QED
      BY <1>6, <1>8, <3>1, <3>2, <3>3 DEF HasEvent
  <2>2. CASE e.parent = NoOp
    BY <1>6, <1>8, <2>2 DEF HasEvent
  <2> QED
    BY <2>1, <2>2 DEF EventType
<1> QED
  BY <1>6, <1>7, <1>8 DEF Numbered, About, d

\* Ending operations one after the other, by steps.
LEMMA EndingSteps ==
  ASSUME NEW N \in Nat, NEW seq, DOMAIN seq = 1..N, NEW c, seq = c.open
  PROVE  \E v : /\ v[0] = c
                /\ \A n \in 1..N : v[n] = OperationEnd(v[n - 1], seq[n])
                /\ FlushActive(c) = v[N]
<1> DEFINE Body(f, s) == IF s = {} THEN c ELSE OperationEnd(f[s \ {Max(s)}], seq[Max(s)])
           iter == CHOOSE f : f = [s \in SUBSET (1..N) |-> Body(f, s)]
<1>1. FlushActive(c) = iter[1..N]
  BY DEF FlushActive, FoldLeft, MapThenFoldSet
<1>2. \A n \in 0..N : \E f : f = [s \in SUBSET (1..n) |-> Body(f, s)]
  <2> DEFINE Is(n) == \E f : f = [s \in SUBSET (1..n) |-> Body(f, s)]
             T == {n \in 0..N : ~Is(n)}
  <2> SUFFICES ASSUME T # {} PROVE FALSE
    OBVIOUS
  <2> HIDE DEF Is
  <2>1. PICK n \in T : \A m \in T : n <= m
    <3>1. T \subseteq Nat
      OBVIOUS
    <3> HIDE DEF T
    <3> QED
      BY <3>1, LeastOf
  <2>4. n \in 0..N /\ ~Is(n) /\ \A m \in 0..N : m < n => Is(m)
    BY <2>1
  <2>2. CASE n = 0
    <3> DEFINE h == [s \in SUBSET (1..0) |-> c]
    <3>1. h = [s \in SUBSET (1..0) |-> Body(h, s)]
      OBVIOUS
    <3> QED
      BY <2>2, <2>4, <3>1 DEF Is
  <2>3. CASE n # 0
    <3>1. n \in Nat /\ n - 1 \in 0..N /\ Is(n - 1)
      BY <2>3, <2>4
    <3>2. PICK g : g = [s \in SUBSET (1..(n - 1)) |-> Body(g, s)]
      BY <3>1 DEF Is
    <3> DEFINE h == [s \in SUBSET (1..n) |-> Body(g, s)]
    <3>3. ASSUME NEW s \in SUBSET (1..n)
          PROVE  Body(g, s) = Body(h, s)
      <4>1. CASE s = {}
        BY <4>1
      <4>2. CASE s # {}
        <5>1. PICK t : t = s \ {Max(s)}
          OBVIOUS
        <5>2. t \in SUBSET (1..(n - 1)) /\ t \in SUBSET (1..n)
          BY <2>3, <3>1, <4>2, <5>1, GreatestGone
        <5>3. h[t] = g[t]
          BY <3>2, <5>2
        <5> QED
          BY <4>2, <5>1, <5>3
      <4> QED
        BY <4>1, <4>2
    <3>4. h = [s \in SUBSET (1..n) |-> Body(h, s)]
      <4> HIDE DEF Body
      <4> QED
        BY <3>3
    <3> HIDE DEF h
    <3> QED
      BY <2>4, <3>4 DEF Is
  <2> QED
    BY <2>2, <2>3
<1>3. iter = [s \in SUBSET (1..N) |-> Body(iter, s)]
  <2> HIDE DEF Body
  <2>1. N \in 0..N
    OBVIOUS
  <2>2. \E f : f = [s \in SUBSET (1..N) |-> Body(f, s)]
    BY <1>2, <2>1
  <2> QED
    BY <2>2
<1> DEFINE v == [n \in 0..N |-> iter[1..n]]
<1>4. v[0] = c
  <2>1. 1..0 = {} /\ {} \in SUBSET (1..N)
    OBVIOUS
  <2> HIDE DEF iter
  <2> QED
    BY <1>3, <2>1
<1>5. ASSUME NEW n \in 1..N
      PROVE  v[n] = OperationEnd(v[n - 1], seq[n])
  <2>1. 1..n \in SUBSET (1..N) /\ n \in 1..n /\ n \in 0..N /\ n - 1 \in 0..N
    <3> HIDE DEF Body, iter
    <3>1. n \in Nat /\ n <= N
      OBVIOUS
    <3> QED
      BY <3>1
  <2>2. Max(1..n) = n /\ (1..n) \ {n} = 1..(n - 1)
    BY DEF Max
  <2> HIDE DEF iter
  <2>3. iter[1..n] = Body(iter, 1..n)
    BY <1>3, <2>1
  <2> QED
    BY <2>1, <2>2, <2>3
<1>6. FlushActive(c) = v[N]
  <2>1. N \in 0..N
    OBVIOUS
  <2> HIDE DEF iter
  <2> QED
    BY <1>1, <2>1
<1> HIDE DEF v
<1> QED
  BY <1>4, <1>5, <1>6

\* A stop ends all that is open.
LEMMA CloseAllIs ==
  ASSUME NEW c, Made(c)
  PROVE  LET d == FlushActive(c)
         IN /\ Made(d) /\ d.text = c.text
            /\ d.thinking = c.thinking /\ d.error = c.error /\ d.metrics = c.metrics
            /\ \A x : ~ Contains(d.open, x)
            /\ \A w : \A e \in EventType : HasEvent(w, c, e) => HasEvent(w, d, e)
<1>1. c.open \in Seq(Operations) /\ Apart(c.open)
  BY CollectorIs DEF Made, Closing, Apart
<1>2. PICK list \in Seq(Operations) : list = c.open
  BY <1>1
<1>3. PICK N \in Nat : N = Len(list)
  OBVIOUS
<1>4. DOMAIN list = 1..N
  BY <1>3
<1>5. PICK v : /\ v[0] = c
               /\ \A n \in 1..N : v[n] = OperationEnd(v[n - 1], list[n])
               /\ FlushActive(c) = v[N]
  BY <1>2, <1>4, EndingSteps
<1> DEFINE Good(n) ==
      /\ Made(v[n]) /\ v[n].text = c.text
      /\ v[n].thinking = c.thinking /\ v[n].error = c.error /\ v[n].metrics = c.metrics
      /\ \A x : Contains(v[n].open, x) <=> \E i \in 1..N : i > n /\ list[i] = x
      /\ \A w : \A e \in EventType : HasEvent(w, c, e) => HasEvent(w, v[n], e)
    T == {n \in 0..N : ~ Good(n)}
<1>6. Good(0)
  <2>1. \A i \in 1..N : i > 0
    OBVIOUS
  <2>2. \A x : Contains(v[0].open, x) <=> \E i \in 1..N : i > 0 /\ list[i] = x
    BY <1>2, <1>3, <1>5, <2>1 DEF Contains
  <2> QED
    BY <1>5, <2>2
<1>7. ASSUME NEW n \in 1..N, Good(n - 1) PROVE Good(n)
  <2>1. PICK a : a = v[n - 1]
    OBVIOUS
  <2>2. PICK o \in Operations : o = list[n]
    BY <1>3
  <2>3. /\ Made(a) /\ a.text = c.text
        /\ a.thinking = c.thinking /\ a.error = c.error /\ a.metrics = c.metrics
        /\ \A x : Contains(a.open, x) <=> \E i \in 1..N : i > n - 1 /\ list[i] = x
        /\ \A w : \A e \in EventType : HasEvent(w, c, e) => HasEvent(w, a, e)
    BY <1>7, <2>1
  <2>4. Contains(a.open, o)
    <3>1. n > n - 1
      OBVIOUS
    <3> QED
      BY <2>2, <2>3, <3>1
  <2>5. v[n] = OperationEnd(a, o)
    BY <1>5, <2>1, <2>2
  <2>8. PICK b : b = OperationEnd(a, o)
    OBVIOUS
  <2>9. /\ Made(b) /\ b.text = a.text
        /\ b.thinking = a.thinking /\ b.error = a.error /\ b.metrics = a.metrics
        /\ \A x : Contains(b.open, x) <=> Contains(a.open, x) /\ x # o
        /\ \A w : \A e \in EventType : HasEvent(w, a, e) => HasEvent(w, b, e)
    <3>1. Made(a)
      BY <2>3
    <3> QED
      BY <2>4, <2>8, <3>1, EndIs
  <2>6. /\ Made(v[n]) /\ v[n].text = a.text
        /\ v[n].thinking = a.thinking /\ v[n].error = a.error /\ v[n].metrics = a.metrics
        /\ \A x : Contains(v[n].open, x) <=> Contains(a.open, x) /\ x # o
        /\ \A w : \A e \in EventType : HasEvent(w, a, e) => HasEvent(w, v[n], e)
    BY <2>5, <2>8, <2>9
  <2>7. ASSUME NEW x
        PROVE  (\E i \in 1..N : i > n - 1 /\ list[i] = x) /\ x # o <=> \E i \in 1..N : i > n /\ list[i] = x
    <3>1. \A i \in 1..N : i > n - 1 <=> i > n \/ i = n
      OBVIOUS
    <3>2. \A i \in 1..N : list[i] = list[n] => i = n
      BY <1>1, <1>2, <1>3 DEF Apart
    <3>3. ~ (n > n)
      OBVIOUS
    <3> QED
      BY <2>2, <3>1, <3>2, <3>3
  <2> QED
    BY <2>3, <2>6, <2>7
<1> HIDE DEF Good
<1>8. T = {}
  <2> SUFFICES ASSUME T # {} PROVE FALSE
    OBVIOUS
  <2>1. PICK n \in T : \A m \in T : n <= m
    <3>1. T \subseteq Nat
      OBVIOUS
    <3> HIDE DEF T
    <3> QED
      BY <3>1, LeastOf
  <2>2. n \in 0..N /\ ~ Good(n) /\ n # 0
    BY <1>6, <2>1
  <2>3. n \in 1..N /\ n - 1 \in 0..N /\ ~ (n <= n - 1)
    BY <2>2
  <2>4. Good(n - 1)
    BY <2>1, <2>3
  <2> QED
    BY <1>7, <2>2, <2>3, <2>4
<1>9. Good(N)
  BY <1>8
<1>10. \A x : ~ Contains(v[N].open, x)
  <2>1. \A i \in 1..N : ~ (i > N)
    OBVIOUS
  <2> QED
    BY <1>9, <2>1 DEF Good
<1> QED
  BY <1>5, <1>9, <1>10 DEF Good

\* Members of a list.
LEMMA MemberIs ==
  ASSUME NEW S, NEW list \in Seq(S), NEW x
  PROVE  x \in ToSet(list) <=> Contains(list, x)
<1>1. DOMAIN list = 1..Len(list)
  OBVIOUS
<1> QED
  BY <1>1 DEF ToSet, Contains

\* One member counts one.
LEMMA CountOne ==
  ASSUME NEW S, NEW n \in Nat, S \subseteq 1..n, \A i, j \in S : i = j
  PROVE  /\ S = {} => Cardinality(S) = 0
         /\ S # {} => Cardinality(S) = 1
<1>1. CASE S = {}
  BY <1>1, FS_EmptySet
<1>2. CASE S # {}
  <2>1. PICK i \in S : S = {i}
    BY <1>2
  <2> QED
    BY <2>1, FS_Singleton
<1> QED
  BY <1>1, <1>2

\* What a client was sent is once in the reply that a collector makes, unless it belongs to
\* a task that is still open.
LEMMA ReplyShows ==
  ASSUME NEW c, Made(c), NEW w, NEW e \in EventType, HasEvent(w, c, e),
         NEW P, P = Flush(c).parts
  PROVE  \/ e.kind = "thinking" /\ (e.parent = NoOp \/ w = "socket")
         \/ e.parent # NoOp /\ Contains(c.open, e.parent)
         \/ e.op \in Tasks /\ Contains(c.open, e.op)
         \/ Cardinality({i \in DOMAIN P : Holds(w, P[i], e)}) = 1
<1> DEFINE f == Flush(c)
           S == {i \in DOMAIN P : Holds(w, P[i], e)}
<1>1. Made(f) /\ f.text = <<>> /\ f.open = c.open /\ HasEvent(w, f, e)
  BY FlushIs
<1>2. P \in Seq(PartType) /\ Proper(P) /\ PartsApart(P)
  BY <1>1, CollectorIs DEF Made
<1>3. PICK n \in Nat : n = Len(P) /\ DOMAIN P = 1..n
  BY <1>2
<1>4. f.parts = P
  OBVIOUS
<1> HIDE DEF f
<1>5. CASE ~ \E i \in 1..n : Holds(w, P[i], e)
  <2>1. ~ Contains(<<>>, e.n)
    BY DEF Contains
  <2> QED
    BY <1>1, <1>3, <1>4, <1>5, <2>1 DEF HasEvent
<1>6. CASE \E i \in 1..n : Holds(w, P[i], e)
  <2>1. CASE e.kind = "thinking" /\ (e.parent = NoOp \/ w = "socket")
    BY <2>1
  <2>2. CASE ~ (e.kind = "thinking" /\ (e.parent = NoOp \/ w = "socket"))
    <3>1. ASSUME NEW i \in 1..n, NEW j \in 1..n, Holds(w, P[i], e), Holds(w, P[j], e)
          PROVE  i = j
      <4>0. e.kind \in {"message", "thinking", "operation_start", "operation_end"}
        BY DEF EventType
      <4>1. CASE e.parent # NoOp /\ w # "socket"
        <5>1. P[i].type = "task" /\ P[j].type = "task" /\ P[i].op = P[j].op
          BY <3>1, <4>1 DEF Holds
        <5> QED
          BY <1>2, <1>3, <5>1 DEF PartsApart
      <4>2. CASE ~ (e.parent # NoOp /\ w # "socket") /\ e.kind = "message"
        <5>1. /\ P[i].type = "text" /\ P[j].type = "text"
              /\ e.n \in ToSet(P[i].body) /\ e.n \in ToSet(P[j].body)
          BY <3>1, <4>2 DEF Holds
        <5>2. P[i].body \in Seq(Nat) /\ P[j].body \in Seq(Nat)
          BY <1>2, <1>3, <5>1 DEF Proper
        <5>3. PICK a \in 1..Len(P[i].body) : P[i].body[a] = e.n
          BY <5>1, <5>2, MemberIs DEF Contains
        <5>4. Contains(P[j].body, e.n)
          BY <5>1, <5>2, MemberIs
        <5> QED
          BY <1>2, <1>3, <5>1, <5>3, <5>4 DEF PartsApart
      <4>3. CASE ~ (e.parent # NoOp /\ w # "socket") /\ e.kind \in {"operation_start", "operation_end"}
        <5>1. P[i].type = P[j].type /\ P[i].type # "text" /\ P[i].op = P[j].op
          BY <3>1, <4>3 DEF Holds
        <5> QED
          BY <1>2, <1>3, <5>1 DEF PartsApart
      <4> QED
        BY <2>2, <4>0, <4>1, <4>2, <4>3
    <3>2. \A i, j \in S : i = j
      BY <1>3, <3>1
    <3>3. S # {} /\ S \subseteq 1..n
      BY <1>3, <1>6
    <3> HIDE DEF S
    <3>4. Cardinality(S) = 1
      BY <3>2, <3>3, CountOne
    <3> QED
      BY <3>4 DEF S
  <2> QED
    BY <2>1, <2>2
<1> QED
  BY <1>5, <1>6

PartsLike(P, type, o) == {i \in DOMAIN P : P[i].type = type /\ P[i].op = o}

\* Nor does the reply have a second result of a tool, or one without its call, or, with
\* nothing open, a call without its result.
LEMMA ReplyCloses ==
  ASSUME NEW c, Made(c), NEW P, P = Flush(c).parts, NEW o \in Tools
  PROVE  LET R == PartsLike(P, "result", o)
             C == PartsLike(P, "call", o)
         IN /\ Cardinality(R) <= 1
            /\ \A i \in R : \E j \in C : j < i
            /\ (\A x : ~ Contains(c.open, x)) => Cardinality(C) = Cardinality(R)
<1> DEFINE R == {i \in DOMAIN P : P[i].type = "result" /\ P[i].op = o}
           C == {i \in DOMAIN P : P[i].type = "call" /\ P[i].op = o}
<1>1. /\ P \in Seq(PartType) /\ PartsApart(P) /\ InOrder(P)
      /\ Contains(c.open, o) <=> HasPart(P, "call", o) /\ ~ HasPart(P, "result", o)
  <2>1. Made(Flush(c)) /\ Flush(c).open = c.open
    BY FlushIs
  <2> QED
    BY <2>1, CollectorIs DEF Made, Closing
<1>2. PICK n \in Nat : n = Len(P) /\ DOMAIN P = 1..n
  BY <1>1
<1>3. R \subseteq 1..n /\ C \subseteq 1..n
  BY <1>2
<1>4. (\A i, j \in R : i = j) /\ (\A i, j \in C : i = j)
  BY <1>1, <1>2, SMTT(30) DEF PartsApart
<1>5. \A i \in R : \E j \in C : j < i
  <2> SUFFICES ASSUME NEW i \in R PROVE \E j \in C : j < i
    OBVIOUS
  <2>1. i \in 1..n /\ P[i].type = "result" /\ P[i].op = o
    BY <1>2
  <2>2. PICK j \in 1..(i - 1) : P[j].type = "call" /\ P[j].op = o
    BY <1>1, <1>2, <2>1 DEF InOrder
  <2>3. j \in 1..n /\ j < i
    BY <2>1, <2>2
  <2> QED
    BY <1>2, <2>2, <2>3
<1>6. (R # {} <=> HasPart(P, "result", o)) /\ (C # {} <=> HasPart(P, "call", o))
  BY <1>2 DEF HasPart
<1> HIDE DEF R, C
<1>7. /\ R = {} => Cardinality(R) = 0
      /\ R # {} => Cardinality(R) = 1
  BY <1>3, <1>4, CountOne
<1>8. /\ C = {} => Cardinality(C) = 0
      /\ C # {} => Cardinality(C) = 1
  BY <1>3, <1>4, CountOne
<1>9. Cardinality(R) <= 1
  BY <1>7
<1>10. ASSUME \A x : ~ Contains(c.open, x) PROVE Cardinality(C) = Cardinality(R)
  <2>1. R # {} => C # {}
    BY <1>5
  <2>2. C # {} => R # {}
    BY <1>1, <1>6, <1>10
  <2> QED
    BY <1>7, <1>8, <2>1, <2>2
<1> QED
  BY <1>5, <1>9, <1>10 DEF R, C, PartsLike

\* The parts of the reply of a run among rows.
PartsIn(rows, r) ==
  LET i == SelectInSeq(rows, LAMBDA m : m.role = "assistant" /\ m.run = r)
  IN IF i = 0 THEN <<>> ELSE rows[i].content.parts

Replies(rows, r) == {i \in 1..Len(rows) : rows[i].role = "assistant" /\ rows[i].run = r}

\* They are the ones of its first reply, and none without one.
LEMMA FirstReply ==
  ASSUME NEW rows \in Seq(RowType), NEW r
  PROVE  PartsIn(rows, r) = IF Replies(rows, r) = {} THEN <<>> ELSE rows[Min(Replies(rows, r))].content.parts
<1> DEFINE I == Replies(rows, r)
<1>1. SelectInSeq(rows, LAMBDA m : m.role = "assistant" /\ m.run = r) = IF I # {} THEN Min(I) ELSE 0
  BY DEF SelectInSeq, Replies
<1>2. I # {} => Min(I) \in Nat /\ Min(I) # 0
  <2> SUFFICES ASSUME I # {} PROVE Min(I) \in Nat /\ Min(I) # 0
    OBVIOUS
  <2>1. PICK x \in I : \A y \in I : x <= y
    <3>1. I \subseteq Nat
      BY DEF Replies
    <3> QED
      BY <3>1, LeastOf
  <2>2. Min(I) \in I
    BY <2>1 DEF Min
  <2> QED
    BY <2>2 DEF Replies
<1> QED
  BY <1>1, <1>2 DEF PartsIn

\* A row more changes nothing for a run that it does not answer; the reply of a run that
\* has none is its parts.
LEMMA RowMore ==
  ASSUME NEW rows \in Seq(RowType), NEW m \in RowType, NEW r
  PROVE  /\ Append(rows, m) \in Seq(RowType)
         /\ ~ (m.role = "assistant" /\ m.run = r) => PartsIn(Append(rows, m), r) = PartsIn(rows, r)
         /\ (\A i \in 1..Len(rows) : ~ (rows[i].role = "assistant" /\ rows[i].run = r)) =>
              /\ PartsIn(rows, r) = <<>>
              /\ m.role = "assistant" /\ m.run = r => PartsIn(Append(rows, m), r) = m.content.parts
              /\ ~ (m.role = "assistant" /\ m.run = r) =>
                   \A i \in 1..Len(Append(rows, m)) :
                     ~ (Append(rows, m)[i].role = "assistant" /\ Append(rows, m)[i].run = r)
<1> DEFINE more == Append(rows, m)
<1>1. PICK n \in Nat : n = Len(rows)
  OBVIOUS
<1>2. /\ more \in Seq(RowType) /\ Len(more) = n + 1 /\ more[n + 1] = m
      /\ \A i \in 1..n : more[i] = rows[i]
  BY <1>1
<1>3. /\ \A i \in 1..(n + 1) : i \in 1..n \/ i = n + 1
      /\ n + 1 \in 1..(n + 1) /\ 1..n \subseteq 1..(n + 1)
  OBVIOUS
<1> HIDE DEF more
<1>4. PICK a : a = Replies(rows, r)
  OBVIOUS
<1>5. PICK b : b = Replies(more, r)
  OBVIOUS
<1>6. /\ a \subseteq 1..n /\ b \subseteq 1..(n + 1)
      /\ b = IF m.role = "assistant" /\ m.run = r THEN a \cup {n + 1} ELSE a
  BY <1>1, <1>2, <1>3, <1>4, <1>5 DEF Replies
<1>7. PartsIn(rows, r) = IF a = {} THEN <<>> ELSE rows[Min(a)].content.parts
  BY <1>4, FirstReply
<1>8. PartsIn(more, r) = IF b = {} THEN <<>> ELSE more[Min(b)].content.parts
  <2>1. more \in Seq(RowType)
    BY <1>2
  <2> QED
    BY <1>5, <2>1, FirstReply
<1>9. a # {} => Min(a) \in 1..n
  <2> SUFFICES ASSUME a # {} PROVE Min(a) \in a
    BY <1>6
  <2>1. PICK x \in a : \A y \in a : x <= y
    <3>1. a \subseteq Nat
      BY <1>6
    <3> QED
      BY <3>1, LeastOf
  <2> QED
    BY <2>1 DEF Min
<1>10. ~ (m.role = "assistant" /\ m.run = r) => PartsIn(more, r) = PartsIn(rows, r)
  BY <1>2, <1>6, <1>7, <1>8, <1>9
<1>11. ASSUME \A i \in 1..Len(rows) : ~ (rows[i].role = "assistant" /\ rows[i].run = r)
       PROVE  /\ PartsIn(rows, r) = <<>>
              /\ m.role = "assistant" /\ m.run = r => PartsIn(more, r) = m.content.parts
              /\ ~ (m.role = "assistant" /\ m.run = r) =>
                   \A i \in 1..Len(more) : ~ (more[i].role = "assistant" /\ more[i].run = r)
  <2>1. a = {}
    BY <1>4, <1>11 DEF Replies
  <2>2. Min({n + 1}) = n + 1
    BY DEF Min
  <2> QED
    BY <1>1, <1>2, <1>3, <1>6, <1>7, <1>8, <1>11, <2>1, <2>2
<1> QED
  BY <1>2, <1>10, <1>11 DEF more

\* What a run and its rows do not notice leaves what is known of it.
LEMMA SameRun ==
  ASSUME NEW r \in Runs, messages \in Seq(RowType), RunKnown(r),
         route'[r] = route[r], started'[r] = started[r], going'[r] = going[r],
         active'[r] = active[r], within'[r] = within[r], collector'[r] = collector[r],
         shown'[r] = shown[r],
         \/ phase'[r] = phase[r]
         \/ phase[r] \notin Ended /\ phase'[r] \notin Ended \cup {"idle"},
         \/ messages' = messages
         \/ \E m \in RowType : messages' = Append(messages, m) /\ ~ (m.role = "assistant" /\ m.run = r)
  PROVE  RunKnown(r)'
<1>1. Parts(r) = PartsIn(messages, r) /\ Parts(r)' = PartsIn(messages', r)
  BY DEF Parts, PartsIn, SelectInSeq
<1>2. Parts(r)' = Parts(r) /\ (Unanswered(r) => Unanswered(r)')
  <2>1. CASE messages' = messages
    BY <1>1, <2>1 DEF Unanswered
  <2>2. CASE \E m \in RowType : messages' = Append(messages, m) /\ ~ (m.role = "assistant" /\ m.run = r)
    <3>1. PICK m \in RowType : messages' = Append(messages, m) /\ ~ (m.role = "assistant" /\ m.run = r)
      BY <2>2
    <3> QED
      BY <1>1, <3>1, RowMore DEF Unanswered
  <2> QED
    BY <2>1, <2>2
<1>3. CASE phase[r] \in Ended
  <2>1. phase'[r] = phase[r] /\ phase'[r] \in Ended
    BY <1>3
  <2>2. KeptIn(r) /\ Closed(r)
    BY <1>3 DEF RunKnown
  <2>3. \A e : Found(r, e)' = Found(r, e) /\ Unended(r, e)' = Unended(r, e)
    BY <1>2, <2>1 DEF Found, Unended
  <2>4. KeptIn(r)'
    BY <2>1, <2>2, <2>3 DEF KeptIn
  <2>5. \A type, o : PartsOf(r, type, o)' = PartsOf(r, type, o)
    BY <1>2 DEF PartsOf
  <2>6. Closed(r)'
    BY <2>1, <2>2, <2>5 DEF Closed
  <2> QED
    BY <2>1, <2>4, <2>6 DEF RunKnown
<1>4. CASE phase[r] \notin Ended
  <2>1. phase'[r] \notin Ended /\ Running(r) /\ Unanswered(r)
    BY <1>4 DEF RunKnown
  <2>2. Chunks(r)' = Chunks(r)
    BY DEF Chunks
  <2>3. SentIsKept(r)'
    BY <2>1, <2>2 DEF Running, SentIsKept
  <2>4. Running(r)'
    BY <2>1, <2>2, <2>3 DEF Running
  <2> QED
    BY <1>2, <2>1, <2>4 DEF RunKnown
<1> QED
  BY <1>3, <1>4

\* The parent of what happens inside a task is the outermost one, which is going on.
LEMMA ParentIs ==
  ASSUME NEW r \in Runs, ChatTyped, Running(r),
         NEW path, path \in Paths(r) \/ \E o \in going[r] : path = within[r][o]
  PROVE  /\ path \in Seq(Tasks) /\ Inside(path, going[r] \cap Tasks)
         /\ path = <<>> => ParentOf(r, path) = NoOp
         /\ path # <<>> => /\ ParentOf(r, path) \in Tasks
                           /\ Contains(collector[r].open, ParentOf(r, path))
<1>1. /\ going[r] \cap Tasks \subseteq active[r] /\ going[r] \subseteq Operations
      /\ Going(route[r], going[r], within[r], collector[r])
      /\ within[r] \in [Operations -> Seq(Tasks)]
  BY DEF Running, ChatTyped
<1>2. ASSUME NEW o \in going[r] PROVE within[r][o] \in Seq(Tasks) /\ Inside(within[r][o], going[r] \cap Tasks)
  BY <1>1 DEF Going
<1>3. path \in Seq(Tasks) /\ Inside(path, going[r] \cap Tasks)
  <2>1. CASE path = <<>>
    BY <2>1 DEF Inside
  <2>2. CASE \E o \in going[r] : path = within[r][o]
    BY <1>2, <2>2
  <2>3. CASE \E k \in going[r] \cap Tasks : path = Append(within[r][k], k)
    <3>1. PICK k \in going[r] \cap Tasks : path = Append(within[r][k], k)
      BY <2>3
    <3>2. PICK up \in Seq(Tasks) : up = within[r][k] /\ Inside(up, going[r] \cap Tasks)
      BY <1>2
    <3>3. PICK n \in Nat : n = Len(up)
      OBVIOUS
    <3>4. path \in Seq(Tasks) /\ Len(path) = n + 1 /\ path[n + 1] = k /\ \A i \in 1..n : path[i] = up[i]
      BY <3>1, <3>2, <3>3
    <3>5. \A i \in 1..(n + 1) : i \in 1..n \/ i = n + 1
      OBVIOUS
    <3> QED
      BY <3>2, <3>3, <3>4, <3>5 DEF Inside
  <2> QED
    BY <2>1, <2>2, <2>3 DEF Paths
<1>4. PICK n \in Nat : n = Len(path)
  BY <1>3
<1> DEFINE I == {i \in 1..Len(path) : path[i] \in active[r]}
<1>5. I = 1..n
  BY <1>1, <1>3, <1>4 DEF Inside
<1>6. SelectInSeq(path, LAMBDA k : k \in active[r]) = IF I # {} THEN Min(I) ELSE 0
  BY DEF SelectInSeq
<1> HIDE DEF I
<1>7. CASE path = <<>>
  <2>1. I = {}
    BY <1>4, <1>5, <1>7
  <2> QED
    BY <1>3, <1>6, <1>7, <2>1 DEF ParentOf
<1>8. CASE path # <<>>
  <2>1. n >= 1
    BY <1>3, <1>4, <1>8
  <2>2. 1 \in 1..n /\ Min(1..n) = 1
    BY <2>1 DEF Min
  <2>3. ParentOf(r, path) = path[1]
    BY <1>5, <1>6, <2>2 DEF ParentOf
  <2>4. path[1] \in going[r] \cap Tasks
    BY <1>3, <1>4, <2>2 DEF Inside
  <2>5. Contains(collector[r].open, path[1])
    BY <1>1, <2>4 DEF Going
  <2> QED
    BY <1>3, <1>8, <2>3, <2>4, <2>5
<1> QED
  BY <1>7, <1>8

\* A run that has ended with the reply a collector makes.
LEMMA ReplyIs ==
  ASSUME NEW r \in Runs, messages \in Seq(RowType), Unanswered(r), NEW c, Made(c),
         NEW how \in Ended, phase'[r] = how, route'[r] = route[r], shown'[r] = shown[r],
         messages' = IF HasContent(c) THEN Append(messages, Reply(r, c)) ELSE messages,
         \A e \in shown[r] :
           /\ e \in EventType /\ HasEvent(route[r], c, e)
           /\ e.kind = "operation_end" => ~ Contains(c.open, e.op),
         how = "stopped" => \A x : ~ Contains(c.open, x)
  PROVE  messages' \in Seq(RowType) /\ RunKnown(r)'
<1> DEFINE P == Flush(c).parts
           m == Reply(r, c)
<1>1. /\ m \in RowType /\ m.role = "assistant" /\ m.run = r /\ m.content.parts = P
  <2>1. Flush(c) \in CollectorType /\ c \in CollectorType
    BY FlushIs DEF Made
  <2>2. P \in Seq(PartType) /\ c.thinking \in BOOLEAN /\ c.error \in BOOLEAN
    BY <2>1, CollectorIs
  <2>3. m = [role |-> "assistant", run |-> r,
             content |-> [parts |-> P, thinking |-> c.thinking, error |-> c.error]]
    BY DEF Reply, ToParts
  <2> HIDE DEF P, m
  <2> QED
    BY <2>2, <2>3 DEF RowType
<1>2. messages' \in Seq(RowType) /\ Parts(r)' = P
  <2>1. Parts(r)' = PartsIn(messages', r)
    BY DEF Parts, PartsIn, SelectInSeq
  <2>2. CASE HasContent(c)
    <3>1. messages' = Append(messages, m)
      BY <2>2
    <3> HIDE DEF m, P
    <3> QED
      BY <1>1, <2>1, <3>1, RowMore DEF Unanswered
  <2>3. CASE ~ HasContent(c)
    <3>1. P = <<>>
      BY <2>3 DEF HasContent, Flush
    <3>2. messages' = messages
      BY <2>3
    <3>3. PartsIn(messages, r) = <<>>
      BY <1>1, RowMore DEF Unanswered
    <3> QED
      BY <2>1, <3>1, <3>2, <3>3
  <2> QED
    BY <2>2, <2>3
<1> HIDE DEF P, m
<1>3. KeptIn(r)'
  <2> SUFFICES ASSUME NEW e \in shown[r]
               PROVE  \/ e.kind = "thinking" /\ (e.parent = NoOp \/ route[r] = "socket")
                      \/ e.parent # NoOp /\ Unended(r, e.parent)'
                      \/ e.op \in Tasks /\ Unended(r, e.op)'
                      \/ Found(r, e)' = 1
    BY DEF KeptIn
  <2>1. \A k : Contains(c.open, k) => Unended(r, k)'
    <3> SUFFICES ASSUME NEW k, Contains(c.open, k) PROVE Unended(r, k)'
      OBVIOUS
    <3> DEFINE last == Event("operation_end", 0, k, NoOp)
    <3>1. last.kind = "operation_end" /\ last.op = k
      BY DEF Event
    <3> HIDE DEF last
    <3>2. last \notin shown'[r]
      BY <3>1
    <3> QED
      BY <3>2 DEF Unended, last
  <2>2. Found(r, e)' = Cardinality({i \in DOMAIN P : Holds(route[r], P[i], e)})
    BY <1>2 DEF Found
  <2>3. \/ e.kind = "thinking" /\ (e.parent = NoOp \/ route[r] = "socket")
        \/ e.parent # NoOp /\ Contains(c.open, e.parent)
        \/ e.op \in Tasks /\ Contains(c.open, e.op)
        \/ Cardinality({i \in DOMAIN P : Holds(route[r], P[i], e)}) = 1
    BY ReplyShows DEF P
  <2> QED
    BY <2>1, <2>2, <2>3
<1>4. Closed(r)'
  <2> SUFFICES ASSUME NEW o \in Tools
               PROVE  /\ Cardinality(PartsOf(r, "result", o)') <= 1
                      /\ \A i \in PartsOf(r, "result", o)' : \E j \in PartsOf(r, "call", o)' : j < i
                      /\ phase'[r] = "stopped" =>
                           Cardinality(PartsOf(r, "call", o)') = Cardinality(PartsOf(r, "result", o)')
    BY DEF Closed
  <2>1. \A type : PartsOf(r, type, o)' = PartsLike(P, type, o)
    BY <1>2 DEF PartsOf, PartsLike
  <2>2. /\ Cardinality(PartsLike(P, "result", o)) <= 1
        /\ \A i \in PartsLike(P, "result", o) : \E j \in PartsLike(P, "call", o) : j < i
        /\ (\A x : ~ Contains(c.open, x)) =>
             Cardinality(PartsLike(P, "call", o)) = Cardinality(PartsLike(P, "result", o))
    BY ReplyCloses DEF P
  <2> QED
    BY <2>1, <2>2
<1> QED
  BY <1>2, <1>3, <1>4 DEF RunKnown

\* A run that has ended with nothing stored and nothing its client could miss.
LEMMA Unkept ==
  ASSUME NEW r \in Runs, messages \in Seq(RowType), Unanswered(r), messages' = messages,
         phase'[r] \in {"failed", "gone"}
  PROVE  RunKnown(r)'
<1>1. Parts(r)' = <<>>
  <2>1. PartsIn(messages, r) = <<>>
    <3>1. CASE messages = <<>>
      <4>1. Replies(messages, r) = {}
        BY <3>1 DEF Replies
      <4> QED
        BY <4>1, FirstReply
    <3>2. CASE messages # <<>>
      <4>1. messages[1] \in RowType
        BY <3>2
      <4> QED
        BY <4>1, RowMore DEF Unanswered
    <3> QED
      BY <3>1, <3>2
  <2> QED
    BY <2>1 DEF Parts, PartsIn, SelectInSeq
<1>2. \A type, o : PartsOf(r, type, o)' = {}
  BY <1>1 DEF PartsOf
<1>3. Closed(r)'
  <2>1. Cardinality({}) = 0 /\ 0 <= 1
    BY FS_EmptySet
  <2> SUFFICES ASSUME NEW o \in Tools
               PROVE  /\ Cardinality(PartsOf(r, "result", o)') <= 1
                      /\ \A i \in PartsOf(r, "result", o)' : \E j \in PartsOf(r, "call", o)' : j < i
                      /\ phase'[r] = "stopped" =>
                           Cardinality(PartsOf(r, "call", o)') = Cardinality(PartsOf(r, "result", o)')
    BY DEF Closed
  <2> QED
    BY <1>2, <2>1
<1> QED
  BY <1>3 DEF RunKnown, KeptIn, Ended

\* Nothing collected is a collector.
LEMMA NothingIs ==
  /\ Made(NothingCollected) /\ Made([NothingCollected EXCEPT !.metrics = TRUE, !.text = <<1>>])
  /\ \A n : Numbered(NothingCollected, n)
  /\ \A S : About(NothingCollected, S)
<1> DEFINE c == NothingCollected
           d == [NothingCollected EXCEPT !.metrics = TRUE, !.text = <<1>>]
<1>1. c \in CollectorType /\ c.text = <<>> /\ c.parts = <<>> /\ c.open = <<>>
  <2>1. <<>> \in Seq(Nat) /\ <<>> \in Seq(PartType) /\ <<>> \in Seq(Operations) /\ <<>> \in Seq(EventType)
    OBVIOUS
  <2> QED
    BY <2>1 DEF NothingCollected, CollectorType
<1>2. d \in CollectorType /\ d.text = <<1>> /\ d.parts = <<>> /\ d.open = <<>>
  <2>1. <<1>> \in Seq(Nat)
    OBVIOUS
  <2> HIDE DEF c
  <2> QED
    BY <1>1, <2>1 DEF CollectorType, c
<1> HIDE DEF c, d
<1>3. ASSUME NEW x \in CollectorType, x.parts = <<>>, x.open = <<>>
      PROVE  Made(x)
  BY <1>3 DEF Made, Proper, PartsApart, InOrder, TextApart, Closing, HasPart, Contains
<1>4. Made(c) /\ Made(d)
  BY <1>1, <1>2, <1>3
<1> QED
  BY <1>1, <1>4 DEF Numbered, About, c, d

\* At the beginning nothing is asked and nothing stored.
LEMMA ChatStarts == ChatInit => ChatInv
<1> SUFFICES ASSUME ChatInit PROVE ChatInv
  OBVIOUS
<1>1. ChatTyped
  <2>1. NothingCollected \in CollectorType
    BY NothingIs DEF Made
  <2>2. [o \in Operations |-> <<>>] \in [Operations -> Seq(Tasks)]
    OBVIOUS
  <2> QED
    BY <2>1, <2>2 DEF ChatInit, ChatTyped, Phases, Routes, RowType
<1>2. ASSUME NEW r \in Runs PROVE RunKnown(r)
  <2>1. /\ phase[r] = "idle" /\ shown[r] = {} /\ going[r] = {} /\ started[r] = {} /\ active[r] = {}
        /\ collector[r] = NothingCollected /\ messages = <<>>
    BY DEF ChatInit
  <2>2. SentIsKept(r)
    BY <2>1, FS_EmptySet DEF SentIsKept
  <2>3. Running(r)
    BY <2>1, <2>2, NothingIs DEF Running, Going
  <2>4. Unanswered(r)
    BY <2>1 DEF Unanswered
  <2> QED
    BY <2>1, <2>3, <2>4 DEF RunKnown, Ended
<1> QED
  BY <1>1, <1>2 DEF ChatInv

\* A step of one run.
LEMMA OthersToo ==
  ASSUME ChatInv, NEW r \in Runs, ChatTyped', RunKnown(r)',
         \A q \in Runs \ {r} :
           /\ route'[q] = route[q] /\ started'[q] = started[q] /\ going'[q] = going[q]
           /\ active'[q] = active[q] /\ within'[q] = within[q] /\ collector'[q] = collector[q]
           /\ shown'[q] = shown[q]
           /\ \/ phase'[q] = phase[q]
              \/ phase[q] \notin Ended /\ phase'[q] \notin Ended \cup {"idle"},
         \/ messages' = messages
         \/ \E m \in RowType : messages' = Append(messages, m) /\ (m.role = "assistant" => m.run = r)
  PROVE  ChatInv'
<1>1. ASSUME NEW q \in Runs \ {r} PROVE RunKnown(q)'
  <2>1. messages \in Seq(RowType) /\ RunKnown(q)
    BY DEF ChatInv, ChatTyped
  <2>2. \/ messages' = messages
        \/ \E m \in RowType : messages' = Append(messages, m) /\ ~ (m.role = "assistant" /\ m.run = q)
    OBVIOUS
  <2> QED
    BY <2>1, <2>2, SameRun
<1> QED
  BY <1>1 DEF ChatInv

\* Types of the variables that only a run of its own changes.
LEMMA TypesAre ==
  ASSUME ChatTyped, NEW r \in Runs
  PROVE  /\ route[r] \in Routes \cup {"none"} /\ phase[r] \in Phases
         /\ started[r] \subseteq Operations /\ going[r] \subseteq Operations /\ active[r] \subseteq Tasks
         /\ within[r] \in [Operations -> Seq(Tasks)] /\ collector[r] \in CollectorType
         /\ shown[r] \subseteq EventType /\ messages \in Seq(RowType)
  BY DEF ChatTyped

\* A question is a row.
LEMMA QuestionIs == \A r \in Runs : Question(r) \in RowType /\ Question(r).role = "user"
  BY DEF Question, RowType

\* A request changes where a run is and adds at most a question.
LEMMA RequestedIs ==
  ASSUME ChatInv, NEW r \in Runs, ChatAsk(r) \/ ResumeAsk(r)
  PROVE  ChatInv'
<1>1. PICK w \in Routes : Requested(r, w) /\ (messages' = Append(messages, Question(r)) \/ messages' = messages)
  BY DEF ChatAsk, ResumeAsk, Routes
<1>2. /\ phase[r] = "idle" /\ phase' = [phase EXCEPT ![r] = "asked"] /\ route' = [route EXCEPT ![r] = w]
      /\ UNCHANGED <<entry, started, going, active, within, collector, shown>>
  BY <1>1 DEF Requested
<1>3. ChatTyped /\ RunKnown(r)
  BY DEF ChatInv
<1>4. phase'[r] = "asked" /\ route'[r] = w
  BY <1>2, <1>3 DEF ChatTyped
<1>7. /\ messages' \in Seq(RowType)
      /\ Unanswered(r) => \A i \in 1..Len(messages') : ~ (messages'[i].role = "assistant" /\ messages'[i].run = r)
  <2>1. CASE messages' = messages
    BY <1>3, <2>1 DEF ChatTyped, Unanswered
  <2>2. CASE messages' = Append(messages, Question(r))
    <3>1. PICK m \in RowType : m = Question(r) /\ m.role = "user"
      BY QuestionIs
    <3>2. messages \in Seq(RowType) /\ messages' = Append(messages, m) /\ m.role # "assistant"
      BY <1>3, <2>2, <3>1 DEF ChatTyped
    <3> QED
      BY <3>2, RowMore DEF Unanswered
  <2> QED
    BY <1>1, <2>1, <2>2
<1>5. ChatTyped'
  <2>1. messages' \in Seq(RowType)
    BY <1>7
  <2>2. route' \in [Runs -> Routes \cup {"none"}] /\ phase' \in [Runs -> Phases]
    BY <1>2, <1>3 DEF ChatTyped, Phases
  <2> QED
    BY <1>2, <1>3, <2>1, <2>2 DEF ChatTyped
<1>6. RunKnown(r)'
  <2>1. Running(r) /\ Unanswered(r)
    BY <1>2, <1>3 DEF RunKnown, Ended
  <2>2. shown[r] = {} /\ collector[r] = NothingCollected /\ going[r] = {}
    BY <1>2, <2>1 DEF Running
  <2>3. shown'[r] = {} /\ collector'[r] = NothingCollected /\ going'[r] = {} /\ started'[r] = started[r]
        /\ active'[r] = active[r]
    BY <1>2, <2>2
  <2>4. SentIsKept(r)'
    BY <2>3, FS_EmptySet DEF SentIsKept
  <2>5. Running(r)'
    BY <2>3, <2>4, NothingIs DEF Running, Going
  <2>6. Unanswered(r)'
    BY <1>7, <2>1 DEF Unanswered
  <2> QED
    BY <1>4, <2>5, <2>6 DEF RunKnown, Ended
<1>9. \/ messages' = messages
      \/ \E m \in RowType : messages' = Append(messages, m) /\ (m.role = "assistant" => m.run = r)
  BY <1>1, QuestionIs
<1>8. \A q \in Runs \ {r} : route'[q] = route[q] /\ phase'[q] = phase[q]
  BY <1>2, <1>3 DEF ChatTyped
<1> QED
  BY <1>2, <1>5, <1>6, <1>8, <1>9, OthersToo

\* A request that is turned away leaves no reply.
LEMMA TurnAwayIs ==
  ASSUME ChatInv, NEW r \in Runs, TurnAway(r)
  PROVE  ChatInv'
<1>1. /\ phase[r] = "asked" /\ phase' = [phase EXCEPT ![r] = "failed"]
      /\ UNCHANGED <<route, entry, started, going, active, within, collector, shown, messages>>
  BY DEF TurnAway
<1>2. ChatTyped /\ RunKnown(r)
  BY DEF ChatInv
<1>3. ChatTyped'
  BY <1>1, <1>2 DEF ChatTyped, Phases, Ended
<1>4. phase'[r] = "failed" /\ \A q \in Runs \ {r} : phase'[q] = phase[q]
  BY <1>1, <1>2 DEF ChatTyped
<1>5. Unanswered(r)
  BY <1>1, <1>2 DEF RunKnown, Ended
<1>6. RunKnown(r)'
  BY <1>1, <1>2, <1>4, <1>5, Unkept DEF ChatTyped
<1> QED
  BY <1>1, <1>3, <1>4, <1>6, OthersToo

\* The run that begins, and the one it cancels, have collected nothing new.
LEMMA ChatBeginIs ==
  ASSUME ChatInv, NEW r \in Runs, ChatBegin(r) \/ ChatStop(r)
  PROVE  ChatInv'
<1>1. ChatTyped /\ \A q \in Runs : RunKnown(q)
  BY DEF ChatInv
<1>2. /\ UNCHANGED <<route, started, going, active, within, collector, shown, messages>>
      /\ entry' \in Runs \cup {NoRun}
  BY <1>1 DEF ChatBegin, ChatStop, ChatTyped
<1>3. ASSUME NEW q \in Runs
      PROVE  phase'[q] = phase[q] \/ (phase[q] \notin Ended /\ phase'[q] \notin Ended \cup {"idle"})
  BY <1>1 DEF ChatBegin, ChatStop, Live, Ended, ChatTyped
<1>4. phase' \in [Runs -> Phases]
  BY <1>1 DEF ChatBegin, ChatStop, ChatTyped, Phases
<1>5. ChatTyped'
  BY <1>1, <1>2, <1>4 DEF ChatTyped
<1>6. ASSUME NEW q \in Runs PROVE RunKnown(q)'
  BY <1>1, <1>2, <1>3, SameRun DEF ChatTyped
<1> QED
  BY <1>5, <1>6 DEF ChatInv

\* A run whose coroutine has gone.
LEMMA OverIs ==
  ASSUME ChatTyped, NEW r \in Runs, NEW how \in Ended, Over(r, how),
         shown' \in [Runs -> SUBSET EventType], messages' \in Seq(RowType)
  PROVE  /\ ChatTyped' /\ phase'[r] = how /\ route'[r] = route[r]
         /\ \A q \in Runs \ {r} :
              /\ route'[q] = route[q] /\ started'[q] = started[q] /\ going'[q] = going[q]
              /\ active'[q] = active[q] /\ within'[q] = within[q] /\ collector'[q] = collector[q]
              /\ phase'[q] = phase[q]
<1>1. NothingCollected \in CollectorType
  BY NothingIs DEF Made
<1>2. PICK none \in [Operations -> Seq(Tasks)] : none = [o \in Operations |-> <<>>]
  <2>1. [o \in Operations |-> <<>>] \in [Operations -> Seq(Tasks)]
    OBVIOUS
  <2> QED
    BY <2>1
<1>3. /\ phase' = [phase EXCEPT ![r] = how] /\ collector' = [collector EXCEPT ![r] = NothingCollected]
      /\ started' = [started EXCEPT ![r] = {}] /\ going' = [going EXCEPT ![r] = {}]
      /\ active' = [active EXCEPT ![r] = {}] /\ within' = [within EXCEPT ![r] = none]
      /\ UNCHANGED <<route, entry>>
  BY <1>2 DEF Over
<1>4. how \in Phases
  BY DEF Phases
<1>5. ChatTyped'
  BY <1>1, <1>3, <1>4 DEF ChatTyped
<1> QED
  BY <1>3, <1>5 DEF ChatTyped

\* A run whose reply is not stored has none, and its client misses nothing of it.
LEMMA NotKeptIs ==
  ASSUME ChatInv, NEW r \in Runs, SaveFails(r) \/ Depart(r)
  PROVE  ChatInv'
<1>1. PICK how \in {"failed", "gone"} :
        /\ phase[r] \in {"running", "stopping"} /\ Over(r, how)
        /\ shown' = [shown EXCEPT ![r] = {}] /\ messages' = messages
  BY DEF SaveFails, Depart
<1>2. ChatTyped /\ RunKnown(r)
  BY DEF ChatInv
<1>3. how \in Ended
  BY DEF Ended
<1>4. shown' \in [Runs -> SUBSET EventType] /\ messages' \in Seq(RowType)
  BY <1>1, <1>2 DEF ChatTyped
<1>5. /\ ChatTyped' /\ phase'[r] = how
      /\ \A q \in Runs \ {r} :
           /\ route'[q] = route[q] /\ started'[q] = started[q] /\ going'[q] = going[q]
           /\ active'[q] = active[q] /\ within'[q] = within[q] /\ collector'[q] = collector[q]
           /\ phase'[q] = phase[q]
  BY <1>1, <1>2, <1>3, <1>4, OverIs
<1>6. Unanswered(r)
  BY <1>1, <1>2 DEF RunKnown, Ended
<1>7. RunKnown(r)'
  BY <1>1, <1>2, <1>5, <1>6, Unkept DEF ChatTyped
<1>8. \A q \in Runs \ {r} : shown'[q] = shown[q]
  BY <1>1, <1>2 DEF ChatTyped
<1> QED
  BY <1>1, <1>5, <1>7, <1>8, OthersToo

\* A run ends with the reply of a collector that has all that was sent.
LEMMA ConcludeIs ==
  ASSUME ChatInv, NEW r \in Runs, phase[r] \in {"running", "stopping"},
         NEW how \in Ended, NEW c, Conclude(r, how, c), Made(c),
         \A e \in shown[r] : HasEvent(route[r], c, e),
         \A x : Contains(c.open, x) => Contains(collector[r].open, x),
         how = "stopped" => \A x : ~ Contains(c.open, x)
  PROVE  ChatInv'
<1>1. ChatTyped /\ Running(r) /\ Unanswered(r)
  BY DEF ChatInv, RunKnown, Ended
<1>2. /\ Over(r, how) /\ shown' = shown
      /\ messages' = IF HasContent(c) THEN Append(messages, Reply(r, c)) ELSE messages
  BY DEF Conclude
<1>3. phase'[r] = how /\ route'[r] = route[r] /\ shown'[r] = shown[r]
  BY <1>1, <1>2 DEF Over, ChatTyped
<1>4. \A e \in shown[r] :
        /\ e \in EventType /\ HasEvent(route[r], c, e)
        /\ e.kind = "operation_end" => ~ Contains(c.open, e.op)
  BY <1>1, TypesAre DEF Running, SentIsKept
<1>5. messages' \in Seq(RowType) /\ RunKnown(r)'
  <2>1. messages \in Seq(RowType)
    BY <1>1 DEF ChatTyped
  <2> QED
    BY <1>1, <1>2, <1>3, <1>4, <2>1, ReplyIs
<1>6. /\ ChatTyped'
      /\ \A q \in Runs \ {r} :
           /\ route'[q] = route[q] /\ started'[q] = started[q] /\ going'[q] = going[q]
           /\ active'[q] = active[q] /\ within'[q] = within[q] /\ collector'[q] = collector[q]
           /\ phase'[q] = phase[q]
  <2>1. shown' \in [Runs -> SUBSET EventType]
    BY <1>1, <1>2 DEF ChatTyped
  <2> QED
    BY <1>1, <1>2, <1>5, <2>1, OverIs
<1>7. \/ messages' = messages
      \/ \E m \in RowType : messages' = Append(messages, m) /\ (m.role = "assistant" => m.run = r)
  <2>1. Reply(r, c) \in RowType /\ Reply(r, c).run = r
    <3>1. Flush(c) \in CollectorType /\ c \in CollectorType
      BY FlushIs DEF Made
    <3>2. PICK P \in Seq(PartType) : P = Flush(c).parts
      BY <3>1, CollectorIs
    <3>3. c.thinking \in BOOLEAN /\ c.error \in BOOLEAN
      BY <3>1, CollectorIs
    <3>4. Reply(r, c) = [role |-> "assistant", run |-> r,
                         content |-> [parts |-> P, thinking |-> c.thinking, error |-> c.error]]
      BY <3>2 DEF Reply, ToParts
    <3> QED
      BY <3>3, <3>4 DEF RowType
  <2>2. PICK m \in RowType : m = Reply(r, c) /\ m.run = r
    BY <2>1
  <2> QED
    BY <1>2, <2>2
<1> QED
  BY <1>2, <1>5, <1>6, <1>7, OthersToo

\* The collector of a run that is going to end.
LEMMA Ending ==
  ASSUME ChatInv, NEW r \in Runs, phase[r] \in {"running", "stopping"}
  PROVE  /\ Made(collector[r]) /\ \A e \in shown[r] : e \in EventType /\ HasEvent(route[r], collector[r], e)
         /\ route[r] = "plain" => shown[r] = {} /\ collector[r] = NothingCollected
<1>1. ChatTyped /\ Running(r)
  BY DEF ChatInv, RunKnown, Ended
<1> QED
  BY <1>1, TypesAre DEF Running, SentIsKept

\* A run that completes stores what it collected, with metrics,
LEMMA CompleteIs ==
  ASSUME ChatInv, NEW r \in Runs, Complete(r)
  PROVE  ChatInv'
<1> DEFINE c == collector[r]
           d == [c EXCEPT !.metrics = TRUE, !.text = IF route[r] = "plain" THEN <<1>> ELSE @]
<1>1. phase[r] = "running" /\ Conclude(r, "complete", d)
  BY DEF Complete
<1>2. /\ Made(c) /\ \A e \in shown[r] : e \in EventType /\ HasEvent(route[r], c, e)
      /\ route[r] = "plain" => shown[r] = {} /\ c = NothingCollected
  BY <1>1, Ending
<1>3. c \in CollectorType
  BY <1>2 DEF Made
<1>4. CASE route[r] = "plain"
  <2>1. d = [NothingCollected EXCEPT !.metrics = TRUE, !.text = <<1>>]
    BY <1>2, <1>4
  <2>2. Made(d) /\ d.open = <<>>
    BY <2>1, NothingIs DEF NothingCollected
  <2>3. \A x : ~ Contains(<<>>, x)
    BY DEF Contains
  <2> HIDE DEF d
  <2> QED
    BY <1>1, <1>2, <1>4, <2>2, <2>3, ConcludeIs DEF Ended
<1>5. CASE route[r] # "plain"
  <2>1. d = [c EXCEPT !.metrics = TRUE]
    BY <1>3, <1>5, CollectorIs
  <2>2. /\ d \in CollectorType /\ d.text = c.text /\ d.parts = c.parts /\ d.open = c.open
        /\ d.children = c.children
    <3> HIDE DEF d
    <3> QED
      BY <1>3, <2>1 DEF CollectorType
  <2> HIDE DEF d
  <2>3. Made(d) /\ \A w, e : HasEvent(w, c, e) => HasEvent(w, d, e)
    BY <1>2, <2>2, Alike
  <2> QED
    BY <1>1, <1>2, <2>2, <2>3, ConcludeIs DEF Ended
<1> QED
  BY <1>4, <1>5

\* one that is interrupted as it is, or with the text made a part,
LEMMA InterruptIs ==
  ASSUME ChatInv, NEW r \in Runs, Interrupt(r)
  PROVE  ChatInv'
<1> DEFINE c == collector[r]
           d == IF route[r] = "stream" THEN Flush(c) ELSE c
<1>1. phase[r] = "running" /\ Conclude(r, "interrupt", d)
  BY DEF Interrupt
<1>2. /\ Made(c) /\ \A e \in shown[r] : e \in EventType /\ HasEvent(route[r], c, e)
  BY <1>1, Ending
<1>3. Made(d) /\ d.open = c.open /\ \A e \in EventType : HasEvent(route[r], c, e) => HasEvent(route[r], d, e)
  BY <1>2, FlushIs
<1> HIDE DEF d
<1> QED
  BY <1>1, <1>2, <1>3, ConcludeIs DEF Ended

\* one that fails with the error,
LEMMA RaiseIs ==
  ASSUME ChatInv, NEW r \in Runs, Raise(r)
  PROVE  ChatInv'
<1> DEFINE c == collector[r]
           d == [c EXCEPT !.error = @ \/ route[r] \in {"stream", "socket"}]
<1>1. phase[r] = "running" /\ Conclude(r, "error", d)
  BY DEF Raise
<1>2. /\ Made(c) /\ \A e \in shown[r] : e \in EventType /\ HasEvent(route[r], c, e)
  BY <1>1, Ending
<1>3. /\ d \in CollectorType /\ d.text = c.text /\ d.parts = c.parts /\ d.open = c.open
      /\ d.children = c.children
  <2>1. c \in CollectorType
    BY <1>2 DEF Made
  <2>2. PICK b \in BOOLEAN : b = (c.error \/ route[r] \in {"stream", "socket"})
    OBVIOUS
  <2>3. d = [c EXCEPT !.error = b]
    BY <2>2
  <2> HIDE DEF d
  <2> QED
    BY <2>1, <2>3 DEF CollectorType
<1> HIDE DEF d
<1>4. Made(d) /\ \A w, e : HasEvent(w, c, e) => HasEvent(w, d, e)
  BY <1>2, <1>3, Alike
<1> QED
  BY <1>1, <1>2, <1>3, <1>4, ConcludeIs DEF Ended

\* and one that is stopped with every open operation ended.
LEMMA StoppedIs ==
  ASSUME ChatInv, NEW r \in Runs, Stopped(r)
  PROVE  ChatInv'
<1> DEFINE c == collector[r]
           d == FlushActive(c)
<1>1. phase[r] = "stopping" /\ Conclude(r, "stopped", d)
  BY DEF Stopped
<1>2. /\ Made(c) /\ \A e \in shown[r] : e \in EventType /\ HasEvent(route[r], c, e)
  BY <1>1, Ending
<1>3. /\ Made(d) /\ \A x : ~ Contains(d.open, x)
      /\ \A e \in EventType : HasEvent(route[r], c, e) => HasEvent(route[r], d, e)
  BY <1>2, CloseAllIs
<1> HIDE DEF d
<1> QED
  BY <1>1, <1>2, <1>3, ConcludeIs DEF Ended

\* One chunk more.
LEMMA ChunkMore ==
  ASSUME NEW r \in Runs, NEW e, IsFiniteSet(shown[r]), shown'[r] = shown[r] \cup {e},
         NEW n \in Nat, n = Cardinality(Chunks(r)),
         e.kind = "message" => \A x \in Chunks(r) : x.n # e.n
  PROVE  Cardinality(Chunks(r))' = IF e.kind = "message" THEN n + 1 ELSE n
<1>1. IsFiniteSet(Chunks(r))
  <2>1. Chunks(r) \subseteq shown[r]
    BY DEF Chunks
  <2> QED
    BY <2>1, FS_Subset
<1>2. CASE e.kind = "message"
  <2>1. Chunks(r)' = Chunks(r) \cup {e}
    BY <1>2 DEF Chunks
  <2>2. e \notin Chunks(r)
    BY <1>2
  <2> QED
    BY <1>1, <1>2, <2>1, <2>2, FS_AddElement
<1>3. CASE e.kind # "message"
  <2>1. Chunks(r)' = Chunks(r)
    BY <1>3 DEF Chunks
  <2> QED
    BY <1>3, <2>1
<1> QED
  BY <1>2, <1>3

\* Chunks can be counted.
LEMMA ChunksCount ==
  ASSUME NEW r \in Runs, IsFiniteSet(shown[r])
  PROVE  Cardinality(Chunks(r)) \in Nat
<1>1. Chunks(r) \subseteq shown[r]
  BY DEF Chunks
<1> QED
  BY <1>1, FS_Subset, FS_CardinalityType

\* An event is collected and sent.
LEMMA HandledIs ==
  ASSUME ChatInv, NEW r \in Runs, NEW e \in EventType, Handled(r, e),
         NEW d, d = Collect(route[r], collector[r], e), Made(d),
         started' \in [Runs -> SUBSET Operations], going' \in [Runs -> SUBSET Operations],
         active' \in [Runs -> SUBSET Tasks], within' \in [Runs -> [Operations -> Seq(Tasks)]],
         \A q \in Runs \ {r} :
           /\ started'[q] = started[q] /\ going'[q] = going[q]
           /\ active'[q] = active[q] /\ within'[q] = within[q],
         started[r] \subseteq started'[r], going'[r] \subseteq started'[r],
         going'[r] \cap Tasks \subseteq active'[r],
         About(d, started'[r]), Going(route[r], going'[r], within'[r], d),
         \A x \in EventType : HasEvent(route[r], collector[r], x) \/ x = e => HasEvent(route[r], d, x),
         NEW n \in Nat, n = Cardinality(Chunks(r)),
         Numbered(d, IF e.kind = "message" THEN n + 1 ELSE n),
         e.kind = "message" => e.n = n + 1 /\ e.op = NoOp,
         e.kind = "thinking" => e.op = NoOp,
         e.kind = "operation_start" => e.op \in started'[r],
         e.kind = "operation_end" => e.op \in started'[r] \ going'[r] /\ ~ Contains(d.open, e.op),
         \A x \in started[r] \ going[r] :
           x \notin going'[r] /\ (Contains(d.open, x) => Contains(collector[r].open, x))
  PROVE  ChatInv'
<1>1. /\ phase[r] = "running" /\ route[r] # "plain"
      /\ collector' = [collector EXCEPT ![r] = d] /\ shown' = [shown EXCEPT ![r] = @ \cup {e}]
      /\ UNCHANGED <<route, phase, entry, messages>>
  BY DEF Handled
<1>2. ChatTyped /\ Running(r) /\ Unanswered(r)
  BY <1>1 DEF ChatInv, RunKnown, Ended
<1>3. collector'[r] = d /\ shown'[r] = shown[r] \cup {e}
  BY <1>1, <1>2 DEF ChatTyped
<1>4. ChatTyped'
  <2>1. d \in CollectorType
    BY DEF Made
  <2>2. collector' \in [Runs -> CollectorType] /\ shown' \in [Runs -> SUBSET EventType]
    BY <1>1, <1>2, <2>1 DEF ChatTyped
  <2> QED
    BY <1>1, <1>2, <2>2 DEF ChatTyped
<1>5. SentIsKept(r)
  BY <1>2 DEF Running
<1>6. Cardinality(Chunks(r))' = IF e.kind = "message" THEN n + 1 ELSE n
  <2>1. IsFiniteSet(shown[r]) /\ \A x \in Chunks(r) : x.n <= n
    BY <1>5 DEF SentIsKept, Chunks
  <2>2. \A x \in Chunks(r) : x.n \in Nat
    BY <1>2, TypesAre DEF Chunks, EventType
  <2>3. e.kind = "message" => \A x \in Chunks(r) : x.n # e.n
    BY <2>1, <2>2
  <2> QED
    BY <1>3, <2>1, <2>3, ChunkMore
<1>7. SentIsKept(r)'
  <2>1. IsFiniteSet(shown'[r])
    <3>1. IsFiniteSet(shown[r])
      BY <1>5 DEF SentIsKept
    <3>2. IsFiniteSet(shown[r] \cup {e})
      BY <3>1, FS_AddElement
    <3> QED
      BY <1>3, <3>2
  <2>2. PICK m \in Nat : m = (IF e.kind = "message" THEN n + 1 ELSE n) /\ m = Cardinality(Chunks(r))'
    BY <1>6
  <2>3. ASSUME NEW x \in shown[r]
        PROVE  /\ x.kind = "message" => x.n <= m /\ x.op = NoOp
               /\ x.kind = "thinking" => x.op = NoOp
               /\ x.kind = "operation_start" => x.op \in started'[r]
               /\ x.kind = "operation_end" => x.op \in started'[r] \ going'[r] /\ ~ Contains(d.open, x.op)
               /\ HasEvent(route[r], d, x)
    <3>1. x \in EventType /\ x.n \in Nat
      BY <1>2, TypesAre DEF EventType
    <3>2. /\ x.kind = "message" => x.n <= n /\ x.op = NoOp
          /\ x.kind = "thinking" => x.op = NoOp
          /\ x.kind = "operation_start" => x.op \in started[r]
          /\ x.kind = "operation_end" => x.op \in started[r] \ going[r] /\ ~ Contains(collector[r].open, x.op)
          /\ HasEvent(route[r], collector[r], x)
      BY <1>5 DEF SentIsKept
    <3>3. x.n <= n => x.n <= m
      BY <2>2, <3>1
    <3>4. HasEvent(route[r], d, x)
      BY <3>1, <3>2
    <3> QED
      BY <3>2, <3>3, <3>4
  <2>4. /\ e.kind = "message" => e.n <= m /\ e.op = NoOp
        /\ e.kind = "thinking" => e.op = NoOp
        /\ e.kind = "operation_start" => e.op \in started'[r]
        /\ e.kind = "operation_end" => e.op \in started'[r] \ going'[r] /\ ~ Contains(d.open, e.op)
        /\ HasEvent(route[r], d, e)
    BY <2>2
  <2>5. route'[r] = route[r]
    BY <1>1
  <2> QED
    BY <1>3, <2>1, <2>2, <2>3, <2>4, <2>5 DEF SentIsKept
<1>8. Running(r)'
  <2>1. Numbered(d, Cardinality(Chunks(r))')
    BY <1>6
  <2>2. phase'[r] = "running" /\ route'[r] = route[r] /\ route[r] # "plain"
    BY <1>1
  <2> QED
    BY <1>3, <1>7, <2>1, <2>2 DEF Running
<1>9. RunKnown(r)'
  <2>1. Unanswered(r)'
    BY <1>1, <1>2 DEF Unanswered
  <2> QED
    BY <1>1, <1>8, <2>1 DEF RunKnown, Ended
<1>10. \A q \in Runs \ {r} : collector'[q] = collector[q] /\ shown'[q] = shown[q]
  BY <1>1, <1>2 DEF ChatTyped
<1> QED
  BY <1>1, <1>4, <1>9, <1>10, OthersToo

\* Numbers may grow.
LEMMA NumberedMore ==
  ASSUME NEW c, Made(c), NEW n \in Nat, Numbered(c, n)
  PROVE  Numbered(c, n + 1)
<1>1. c.text \in Seq(Nat)
  BY CollectorIs DEF Made
<1>2. \A a \in 1..Len(c.text) : c.text[a] <= n + 1
  <2> SUFFICES ASSUME NEW a \in 1..Len(c.text) PROVE c.text[a] <= n + 1
    OBVIOUS
  <2>1. c.text[a] \in Nat /\ c.text[a] <= n
    BY <1>1 DEF Numbered
  <2> QED
    BY <2>1
<1>3. ASSUME NEW i \in 1..Len(c.parts), c.parts[i].type = "text", NEW a \in 1..Len(c.parts[i].body)
      PROVE  c.parts[i].body[a] <= n + 1
  <2>1. c.parts[i].body \in Seq(Nat) /\ c.parts[i].body[a] <= n
    BY <1>3 DEF Made, Proper, Numbered
  <2>2. c.parts[i].body[a] \in Nat
    BY <2>1
  <2> QED
    BY <2>1, <2>2
<1> QED
  BY <1>2, <1>3 DEF Numbered

\* What is known of a run before an event of it.
LEMMA EventOf ==
  ASSUME ChatInv, NEW r \in Runs, phase[r] = "running"
  PROVE  /\ ChatTyped /\ Running(r) /\ Made(collector[r]) /\ collector[r] \in CollectorType
         /\ About(collector[r], started[r]) /\ Going(route[r], going[r], within[r], collector[r])
         /\ going[r] \subseteq started[r] /\ started[r] \subseteq Operations
         /\ going[r] \cap Tasks \subseteq active[r]
         /\ \E n \in Nat : n = Cardinality(Chunks(r)) /\ Numbered(collector[r], n)
<1>1. ChatTyped /\ Running(r)
  BY DEF ChatInv, RunKnown, Ended
<1>2. Cardinality(Chunks(r)) \in Nat
  BY <1>1, ChunksCount DEF Running, SentIsKept
<1> QED
  BY <1>1, <1>2, TypesAre DEF Running, Made

\* A chunk of text or of thinking.
LEMMA StreamedIs ==
  ASSUME ChatInv, NEW r \in Runs, Streamed(r) \/ Thought(r)
  PROVE  ChatInv'
<1>1. phase[r] = "running" /\ UNCHANGED <<started, going, active, within>>
  BY DEF Streamed, Thought, Handled
<1>2. /\ ChatTyped /\ Running(r) /\ Made(collector[r]) /\ collector[r] \in CollectorType
      /\ About(collector[r], started[r]) /\ Going(route[r], going[r], within[r], collector[r])
      /\ going[r] \subseteq started[r] /\ started[r] \subseteq Operations
      /\ going[r] \cap Tasks \subseteq active[r]
  BY <1>1, EventOf
<1>3. PICK n \in Nat : n = Cardinality(Chunks(r)) /\ Numbered(collector[r], n)
  BY <1>1, EventOf
<1>4. PICK e, path :
        /\ path \in Paths(r) /\ Handled(r, e)
        /\ \/ e = Event("message", n + 1, NoOp, ParentOf(r, path))
           \/ e = Event("thinking", 0, NoOp, ParentOf(r, path))
  BY <1>3 DEF Streamed, Thought
<1>5. e.parent = NoOp \/ (e.parent \in Tasks /\ Contains(collector[r].open, e.parent))
  <2>1. \/ ParentOf(r, path) = NoOp
        \/ ParentOf(r, path) \in Tasks /\ Contains(collector[r].open, ParentOf(r, path))
    BY <1>2, <1>4, ParentIs
  <2> QED
    BY <1>4, <2>1 DEF Event
<1>6. e \in EventType /\ e.op = NoOp /\ e.kind \in {"message", "thinking"} /\ (e.kind = "message" => e.n = n + 1)
  BY <1>4, <1>5 DEF Event, EventType
<1>7. PICK c : c = collector[r]
  OBVIOUS
<1>8. PICK d : d = Collect(route[r], c, e)
  OBVIOUS
<1>9. /\ Made(d) /\ d.open = c.open
      /\ \A x \in EventType : HasEvent(route[r], c, x) \/ x = e => HasEvent(route[r], d, x)
      /\ Numbered(d, IF e.kind = "message" THEN n + 1 ELSE n)
      /\ About(d, started[r])
  <2>1. CASE e.parent # NoOp /\ route[r] # "socket"
    <3>1. PICK k \in Tasks : k = e.parent /\ Contains(c.open, k)
      BY <1>5, <1>7, <2>1
    <3>2. d = [c EXCEPT !.children[k] = Append(@, e)]
      BY <1>8, <2>1, <3>1 DEF Collect
    <3>3. /\ Made(d) /\ d.open = c.open
          /\ \A w : \A x \in EventType : HasEvent(w, c, x) \/ (x = e /\ x.parent = k /\ w # "socket") => HasEvent(w, d, x)
          /\ \A m \in Nat : Numbered(c, m) => Numbered(d, m)
          /\ \A S : About(c, S) => About(d, S)
      <4>1. Made(c) /\ e \in EventType
        BY <1>2, <1>6, <1>7
      <4>2. LET y == [c EXCEPT !.children[k] = Append(@, e)]
            IN /\ Made(y) /\ y.open = c.open
               /\ \A w : \A x \in EventType :
                    HasEvent(w, c, x) \/ (x = e /\ x.parent = k /\ w # "socket") => HasEvent(w, y, x)
               /\ \A m \in Nat : Numbered(c, m) => Numbered(y, m)
               /\ \A S : About(c, S) => About(y, S)
        BY <3>1, <4>1, ChildIs, Zenon
      <4> QED
        BY <3>2, <4>2, Zenon
    <3>4. Numbered(d, n) /\ Numbered(d, n + 1)
      BY <1>3, <1>7, <3>3, NumberedMore
    <3> QED
      BY <1>2, <1>7, <2>1, <3>1, <3>3, <3>4
  <2>2. CASE ~ (e.parent # NoOp /\ route[r] # "socket") /\ e.kind = "message"
    <3>1. d = [c EXCEPT !.text = Append(@, n + 1)]
      BY <1>6, <1>8, <2>2 DEF Collect
    <3>2. /\ Made(d) /\ d.open = c.open
          /\ \A w : \A x \in EventType :
               \/ HasEvent(w, c, x)
               \/ x.kind = "message" /\ x.n = n + 1 /\ (x.parent = NoOp \/ w = "socket")
               => HasEvent(w, d, x)
          /\ Numbered(d, n + 1)
          /\ \A S : About(c, S) => About(d, S)
      BY <1>2, <1>3, <1>7, <3>1, TextIs
    <3> QED
      BY <1>2, <1>6, <1>7, <2>2, <3>2
  <2>3. CASE ~ (e.parent # NoOp /\ route[r] # "socket") /\ e.kind = "thinking"
    <3>1. PICK b \in BOOLEAN : d = [c EXCEPT !.thinking = b]
      <4>1. PICK b : b = (c.thinking \/ route[r] # "resume")
        OBVIOUS
      <4>2. b \in BOOLEAN
        BY <4>1
      <4>3. d = [c EXCEPT !.thinking = b]
        BY <1>8, <2>3, <4>1 DEF Collect
      <4> QED
        BY <4>2, <4>3
    <3>2. d \in CollectorType /\ d.text = c.text /\ d.parts = c.parts /\ d.open = c.open /\ d.children = c.children
      BY <1>2, <1>7, <3>1 DEF CollectorType
    <3>3. /\ Made(d) /\ \A w, x : HasEvent(w, c, x) => HasEvent(w, d, x)
          /\ \A m : Numbered(c, m) => Numbered(d, m)
          /\ \A S : About(c, S) => About(d, S)
      BY <1>2, <1>7, <3>2, Alike
    <3>4. HasEvent(route[r], d, e)
      BY <2>3 DEF HasEvent
    <3> QED
      BY <1>2, <1>3, <1>7, <2>3, <3>2, <3>3, <3>4
  <2> QED
    BY <1>6, <2>1, <2>2, <2>3
<1>10. Going(route[r], going[r], within[r], d)
  BY <1>2, <1>7, <1>9 DEF Going
<1>11. /\ started' = started /\ going' = going /\ active' = active /\ within' = within
       /\ started \in [Runs -> SUBSET Operations] /\ going \in [Runs -> SUBSET Operations]
       /\ active \in [Runs -> SUBSET Tasks] /\ within \in [Runs -> [Operations -> Seq(Tasks)]]
  BY <1>1, <1>2 DEF ChatTyped
<1> QED
  BY <1>2, <1>3, <1>4, <1>6, <1>7, <1>8, <1>9, <1>10, <1>11, HandledIs

\* A new event of a subagent, in the collector's hands.
LEMMA ChildCollected ==
  ASSUME NEW w, w # "socket", NEW c, Made(c), NEW e \in EventType, e.parent # NoOp, Contains(c.open, e.parent)
  PROVE  LET d == Collect(w, c, e)
         IN /\ Made(d) /\ d.open = c.open
            /\ \A x \in EventType : HasEvent(w, c, x) \/ x = e => HasEvent(w, d, x)
            /\ \A n \in Nat : Numbered(c, n) => Numbered(d, n)
            /\ \A S : About(c, S) => About(d, S)
<1>1. PICK k \in Tasks : k = e.parent /\ Contains(c.open, k)
  BY DEF EventType
<1>2. PICK d : d = [c EXCEPT !.children[k] = Append(@, e)]
  OBVIOUS
<1>3. Collect(w, c, e) = d
  BY <1>1, <1>2 DEF Collect
<1>4. LET y == [c EXCEPT !.children[k] = Append(@, e)]
      IN /\ Made(y) /\ y.open = c.open
         /\ \A v : \A x \in EventType :
              HasEvent(v, c, x) \/ (x = e /\ x.parent = k /\ v # "socket") => HasEvent(v, y, x)
         /\ \A n \in Nat : Numbered(c, n) => Numbered(y, n)
         /\ \A S : About(c, S) => About(y, S)
  BY <1>1, ChildIs, Zenon
<1>5. /\ Made(d) /\ d.open = c.open
      /\ \A v : \A x \in EventType :
           HasEvent(v, c, x) \/ (x = e /\ x.parent = k /\ v # "socket") => HasEvent(v, d, x)
      /\ \A n \in Nat : Numbered(c, n) => Numbered(d, n)
      /\ \A S : About(c, S) => About(d, S)
  BY <1>2, <1>4, Zenon
<1> QED
  BY <1>1, <1>3, <1>5

\* The parent of an operation's events, and what it means for its place in the collector.
LEMMA ParentOfTool ==
  ASSUME NEW r \in Runs, ChatTyped, Running(r), NEW o \in Operations,
         NEW path, path \in Paths(r) \/ \E p \in going[r] : path = within[r][p],
         NEW parent, parent = IF o \in Tasks THEN NoOp ELSE ParentOf(r, path)
  PROVE  /\ path \in Seq(Tasks) /\ Inside(path, going[r] \cap Tasks)
         /\ parent \in Tasks \cup {NoOp}
         /\ parent = NoOp <=> o \in Tasks \/ path = <<>>
         /\ parent # NoOp => Contains(collector[r].open, parent)
  BY ParentIs

\* An operation begins.
LEMMA ToolStartIs ==
  ASSUME ChatInv, NEW r \in Runs, NEW o \in Operations, OnToolStart(r, o)
  PROVE  ChatInv'
<1>1. PICK path, parent, e :
        /\ path \in Paths(r)
        /\ parent = IF o \in Tasks THEN NoOp ELSE ParentOf(r, path)
        /\ e = Event("operation_start", 0, o, parent)
        /\ o \notin started[r] /\ Handled(r, e)
        /\ started' = [started EXCEPT ![r] = @ \cup {o}]
        /\ going' = [going EXCEPT ![r] = @ \cup {o}]
        /\ active' = [active EXCEPT ![r] = IF o \in Tasks THEN @ \cup {o} ELSE @]
        /\ within' = [within EXCEPT ![r][o] = path]
  BY DEF OnToolStart
<1>2. phase[r] = "running"
  BY <1>1 DEF Handled
<1>3. /\ ChatTyped /\ Running(r) /\ Made(collector[r]) /\ collector[r] \in CollectorType
      /\ About(collector[r], started[r]) /\ Going(route[r], going[r], within[r], collector[r])
      /\ going[r] \subseteq started[r] /\ started[r] \subseteq Operations
      /\ going[r] \cap Tasks \subseteq active[r]
  BY <1>2, EventOf
<1>4. PICK n \in Nat : n = Cardinality(Chunks(r)) /\ Numbered(collector[r], n)
  BY <1>2, EventOf
<1>5. /\ path \in Seq(Tasks) /\ Inside(path, going[r] \cap Tasks)
      /\ parent \in Tasks \cup {NoOp}
      /\ parent = NoOp <=> o \in Tasks \/ path = <<>>
      /\ parent # NoOp => Contains(collector[r].open, parent)
  BY <1>1, <1>3, ParentOfTool
<1>6. e \in EventType /\ e.kind = "operation_start" /\ e.op = o /\ e.parent = parent
  BY <1>1, <1>5 DEF Event, EventType
<1>7. PICK c, w : c = collector[r] /\ w = route[r]
  OBVIOUS
<1>8. PICK d : d = Collect(w, c, e)
  OBVIOUS
<1>9. /\ ~ Contains(c.open, o)
      /\ \A type \in {"call", "result", "task"} : ~ HasPart(c.parts, type, o)
  BY <1>1, <1>3, <1>7 DEF About, Contains, HasPart
<1>10. /\ Made(d)
       /\ \A x : Contains(d.open, x) <=> Contains(c.open, x) \/ (x = o /\ (parent = NoOp \/ w = "socket"))
       /\ \A x \in EventType : HasEvent(w, c, x) \/ x = e => HasEvent(w, d, x)
       /\ Numbered(d, n)
       /\ About(d, started[r] \cup {o})
  <2>1. CASE parent # NoOp /\ w # "socket"
    <3>1. Made(c) /\ Contains(c.open, e.parent) /\ e.parent # NoOp
      BY <1>3, <1>5, <1>6, <1>7, <2>1
    <3>2. /\ Made(d) /\ d.open = c.open
          /\ \A x \in EventType : HasEvent(w, c, x) \/ x = e => HasEvent(w, d, x)
          /\ \A m \in Nat : Numbered(c, m) => Numbered(d, m)
          /\ \A S : About(c, S) => About(d, S)
      BY <1>6, <1>8, <2>1, <3>1, ChildCollected
    <3>3. About(d, started[r])
      BY <1>3, <1>7, <3>2
    <3>4. About(d, started[r] \cup {o})
      BY <3>3 DEF About
    <3> QED
      BY <1>4, <1>7, <2>1, <3>2, <3>4
  <2>2. CASE ~ (parent # NoOp /\ w # "socket")
    <3>1. d = OperationStart(c, o)
      BY <1>6, <1>8, <2>2 DEF Collect
    <3>2. /\ Made(d)
          /\ \A x : Contains(d.open, x) <=> Contains(c.open, x) \/ x = o
          /\ \A v : \A x \in EventType :
               \/ HasEvent(v, c, x)
               \/ x.kind = "operation_start" /\ x.op = o /\ (x.parent = NoOp \/ v = "socket")
               => HasEvent(v, d, x)
          /\ \A m \in Nat : Numbered(c, m) => Numbered(d, m)
          /\ \A S : About(c, S) => About(d, S \cup {o})
      <4>1. Made(c)
        BY <1>3, <1>7
      <4> QED
        BY <1>9, <3>1, <4>1, StartIs
    <3> QED
      BY <1>3, <1>4, <1>6, <1>7, <2>2, <3>2
  <2> QED
    BY <2>1, <2>2
<1>11. /\ started'[r] = started[r] \cup {o} /\ going'[r] = going[r] \cup {o}
       /\ active'[r] = (IF o \in Tasks THEN active[r] \cup {o} ELSE active[r])
       /\ within'[r][o] = path /\ \A p \in Operations \ {o} : within'[r][p] = within[r][p]
       /\ \A q \in Runs \ {r} :
            /\ started'[q] = started[q] /\ going'[q] = going[q]
            /\ active'[q] = active[q] /\ within'[q] = within[q]
  BY <1>1, <1>3 DEF ChatTyped
<1>12. /\ started' \in [Runs -> SUBSET Operations] /\ going' \in [Runs -> SUBSET Operations]
       /\ active' \in [Runs -> SUBSET Tasks] /\ within' \in [Runs -> [Operations -> Seq(Tasks)]]
  BY <1>1, <1>3, <1>5 DEF ChatTyped
<1>13. Going(w, going'[r], within'[r], d)
  <2> SUFFICES ASSUME NEW p \in going[r] \cup {o}
               PROVE  /\ Inside(within'[r][p], (going[r] \cup {o}) \cap Tasks)
                      /\ Contains(d.open, p) <=> p \in Tasks \/ w = "socket" \/ within'[r][p] = <<>>
    BY <1>11 DEF Going
  <2>1. CASE p = o
    BY <1>5, <1>9, <1>10, <1>11, <2>1 DEF Inside
  <2>2. CASE p # o
    <3>1. p \in going[r] /\ p \in Operations \ {o} /\ within'[r][p] = within[r][p]
      BY <1>3, <1>11, <2>2
    <3> QED
      BY <1>3, <1>7, <1>10, <2>2, <3>1 DEF Going, Inside
  <2> QED
    BY <2>1, <2>2
<1>14. \A x \in started[r] \ going[r] :
         x \notin going'[r] /\ (Contains(d.open, x) => Contains(c.open, x))
  BY <1>1, <1>10, <1>11
<1>15. /\ started[r] \subseteq started'[r] /\ going'[r] \subseteq started'[r]
       /\ going'[r] \cap Tasks \subseteq active'[r] /\ e.op \in started'[r]
  BY <1>3, <1>6, <1>11
<1>17. /\ Handled(r, e) /\ d = Collect(route[r], collector[r], e) /\ Made(d)
       /\ About(d, started'[r]) /\ Going(route[r], going'[r], within'[r], d)
       /\ \A x \in EventType : HasEvent(route[r], collector[r], x) \/ x = e => HasEvent(route[r], d, x)
       /\ Numbered(d, IF e.kind = "message" THEN n + 1 ELSE n)
       /\ \A x \in started[r] \ going[r] :
            x \notin going'[r] /\ (Contains(d.open, x) => Contains(collector[r].open, x))
  BY <1>1, <1>6, <1>7, <1>8, <1>10, <1>11, <1>13, <1>14
<1>18. /\ e \in EventType /\ n \in Nat /\ n = Cardinality(Chunks(r))
       /\ e.kind = "message" => e.n = n + 1 /\ e.op = NoOp
       /\ e.kind = "thinking" => e.op = NoOp
       /\ e.kind = "operation_start" => e.op \in started'[r]
       /\ e.kind = "operation_end" => e.op \in started'[r] \ going'[r] /\ ~ Contains(d.open, e.op)
  BY <1>4, <1>6, <1>15
<1>19. /\ started[r] \subseteq started'[r] /\ going'[r] \subseteq started'[r]
       /\ going'[r] \cap Tasks \subseteq active'[r]
       /\ \A q \in Runs \ {r} :
            /\ started'[q] = started[q] /\ going'[q] = going[q]
            /\ active'[q] = active[q] /\ within'[q] = within[q]
  BY <1>11, <1>15
<1> QED
  BY <1>12, <1>17, <1>18, <1>19, HandledIs

\* An operation ends.
LEMMA ToolEndIs ==
  ASSUME ChatInv, NEW r \in Runs, NEW o \in Operations, OnToolEnd(r, o)
  PROVE  ChatInv'
<1>1. PICK path, parent, e :
        /\ path = within[r][o]
        /\ parent = IF o \in Tasks THEN NoOp ELSE ParentOf(r, path)
        /\ e = Event("operation_end", 0, o, parent)
        /\ o \in going[r] /\ Innermost(r, o) /\ Handled(r, e)
        /\ going' = [going EXCEPT ![r] = @ \ {o}]
        /\ active' = [active EXCEPT ![r] = @ \ {o}]
        /\ UNCHANGED <<started, within>>
  BY DEF OnToolEnd
<1>2. phase[r] = "running"
  BY <1>1 DEF Handled
<1>3. /\ ChatTyped /\ Running(r) /\ Made(collector[r]) /\ collector[r] \in CollectorType
      /\ About(collector[r], started[r]) /\ Going(route[r], going[r], within[r], collector[r])
      /\ going[r] \subseteq started[r] /\ started[r] \subseteq Operations
      /\ going[r] \cap Tasks \subseteq active[r]
  BY <1>2, EventOf
<1>4. PICK n \in Nat : n = Cardinality(Chunks(r)) /\ Numbered(collector[r], n)
  BY <1>2, EventOf
<1>5. /\ path \in Seq(Tasks) /\ Inside(path, going[r] \cap Tasks)
      /\ parent \in Tasks \cup {NoOp}
      /\ parent = NoOp <=> o \in Tasks \/ path = <<>>
      /\ parent # NoOp => Contains(collector[r].open, parent)
  BY <1>1, <1>3, ParentOfTool
<1>6. e \in EventType /\ e.kind = "operation_end" /\ e.op = o /\ e.parent = parent
  BY <1>1, <1>5 DEF Event, EventType
<1>7. PICK c, w : c = collector[r] /\ w = route[r]
  OBVIOUS
<1>8. PICK d : d = Collect(w, c, e)
  OBVIOUS
<1>9. Contains(c.open, o) <=> parent = NoOp \/ w = "socket"
  BY <1>1, <1>3, <1>5, <1>7 DEF Going
<1>10. /\ Made(d)
       /\ \A x : Contains(d.open, x) <=> Contains(c.open, x) /\ x # o
       /\ \A x \in EventType : HasEvent(w, c, x) \/ x = e => HasEvent(w, d, x)
       /\ Numbered(d, n)
       /\ About(d, started[r])
  <2>1. CASE parent # NoOp /\ w # "socket"
    <3>1. Made(c) /\ Contains(c.open, e.parent) /\ e.parent # NoOp
      BY <1>3, <1>5, <1>6, <1>7, <2>1
    <3>2. /\ Made(d) /\ d.open = c.open
          /\ \A x \in EventType : HasEvent(w, c, x) \/ x = e => HasEvent(w, d, x)
          /\ \A m \in Nat : Numbered(c, m) => Numbered(d, m)
          /\ \A S : About(c, S) => About(d, S)
      BY <1>6, <1>8, <2>1, <3>1, ChildCollected
    <3> QED
      BY <1>3, <1>4, <1>7, <1>9, <2>1, <3>2
  <2>2. CASE ~ (parent # NoOp /\ w # "socket")
    <3>1. d = OperationEnd(c, o)
      BY <1>6, <1>8, <2>2 DEF Collect
    <3>2. /\ Made(d)
          /\ \A x : Contains(d.open, x) <=> Contains(c.open, x) /\ x # o
          /\ \A v : \A x \in EventType :
               \/ HasEvent(v, c, x)
               \/ x.kind = "operation_end" /\ x.op = o /\ (x.parent = NoOp \/ v = "socket")
               => HasEvent(v, d, x)
          /\ \A m \in Nat : Numbered(c, m) => Numbered(d, m)
          /\ \A S : About(c, S) => About(d, S)
      <4>1. Made(c) /\ Contains(c.open, o)
        BY <1>3, <1>7, <1>9, <2>2
      <4> QED
        BY <3>1, <4>1, EndIs
    <3> QED
      BY <1>3, <1>4, <1>6, <1>7, <2>2, <3>2
  <2> QED
    BY <2>1, <2>2
<1>11. /\ started'[r] = started[r] /\ going'[r] = going[r] \ {o} /\ active'[r] = active[r] \ {o}
       /\ within'[r] = within[r]
       /\ \A q \in Runs \ {r} :
            /\ started'[q] = started[q] /\ going'[q] = going[q]
            /\ active'[q] = active[q] /\ within'[q] = within[q]
  BY <1>1, <1>3 DEF ChatTyped
<1>12. /\ started' \in [Runs -> SUBSET Operations] /\ going' \in [Runs -> SUBSET Operations]
       /\ active' \in [Runs -> SUBSET Tasks] /\ within' \in [Runs -> [Operations -> Seq(Tasks)]]
  BY <1>1, <1>3 DEF ChatTyped
<1>13. Going(w, going'[r], within'[r], d)
  <2> SUFFICES ASSUME NEW p \in going[r] \ {o}
               PROVE  /\ Inside(within[r][p], (going[r] \ {o}) \cap Tasks)
                      /\ Contains(d.open, p) <=> p \in Tasks \/ w = "socket" \/ within[r][p] = <<>>
    BY <1>11 DEF Going
  <2>1. Inside(within[r][p], (going[r] \ {o}) \cap Tasks)
    BY <1>1, <1>3 DEF Going, Inside, Innermost, Contains
  <2> QED
    BY <1>3, <1>7, <1>10, <2>1 DEF Going
<1>14. \A x \in started[r] \ going[r] :
         x \notin going'[r] /\ (Contains(d.open, x) => Contains(c.open, x))
  BY <1>10, <1>11
<1>15. /\ started[r] \subseteq started'[r] /\ going'[r] \subseteq started'[r]
       /\ going'[r] \cap Tasks \subseteq active'[r] /\ e.op \in started'[r] \ going'[r]
       /\ ~ Contains(d.open, e.op)
  BY <1>1, <1>3, <1>6, <1>10, <1>11
<1>16. About(d, started'[r])
  BY <1>10, <1>11
<1>17. /\ Handled(r, e) /\ d = Collect(route[r], collector[r], e) /\ Made(d)
       /\ About(d, started'[r]) /\ Going(route[r], going'[r], within'[r], d)
       /\ \A x \in EventType : HasEvent(route[r], collector[r], x) \/ x = e => HasEvent(route[r], d, x)
       /\ Numbered(d, IF e.kind = "message" THEN n + 1 ELSE n)
       /\ \A x \in started[r] \ going[r] :
            x \notin going'[r] /\ (Contains(d.open, x) => Contains(collector[r].open, x))
  BY <1>1, <1>6, <1>7, <1>8, <1>10, <1>11, <1>13, <1>14, <1>16
<1>18. /\ e \in EventType /\ n \in Nat /\ n = Cardinality(Chunks(r))
       /\ e.kind = "message" => e.n = n + 1 /\ e.op = NoOp
       /\ e.kind = "thinking" => e.op = NoOp
       /\ e.kind = "operation_start" => e.op \in started'[r]
       /\ e.kind = "operation_end" => e.op \in started'[r] \ going'[r] /\ ~ Contains(d.open, e.op)
  BY <1>4, <1>6, <1>15
<1>19. /\ started[r] \subseteq started'[r] /\ going'[r] \subseteq started'[r]
       /\ going'[r] \cap Tasks \subseteq active'[r]
       /\ \A q \in Runs \ {r} :
            /\ started'[q] = started[q] /\ going'[q] = going[q]
            /\ active'[q] = active[q] /\ within'[q] = within[q]
  BY <1>11, <1>15
<1> QED
  BY <1>12, <1>17, <1>18, <1>19, HandledIs

\* An operation fails, which the collector does not hear of.
LEMMA ToolErrorIs ==
  ASSUME ChatInv, NEW r \in Runs, NEW o \in Operations, OnToolError(r, o)
  PROVE  ChatInv'
<1>1. /\ phase[r] = "running" /\ o \in going[r] /\ Innermost(r, o)
      /\ going' = [going EXCEPT ![r] = @ \ {o}]
      /\ UNCHANGED <<route, phase, entry, started, active, within, collector, shown, messages>>
  BY DEF OnToolError
<1>2. ChatTyped /\ Running(r) /\ Unanswered(r)
  BY <1>1 DEF ChatInv, RunKnown, Ended
<1>3. going'[r] = going[r] \ {o} /\ \A q \in Runs \ {r} : going'[q] = going[q]
  BY <1>1, <1>2 DEF ChatTyped
<1>4. ChatTyped'
  BY <1>1, <1>2 DEF ChatTyped
<1>5. Going(route[r], going'[r], within[r], collector[r])
  <2>1. Going(route[r], going[r], within[r], collector[r])
    BY <1>2 DEF Running
  <2> SUFFICES ASSUME NEW p \in going[r] \ {o}
               PROVE  Inside(within[r][p], (going[r] \ {o}) \cap Tasks)
    BY <1>3, <2>1 DEF Going
  <2> QED
    BY <1>1, <2>1 DEF Going, Inside, Innermost, Contains
<1>6. SentIsKept(r)'
  <2>1. Chunks(r)' = Chunks(r)
    BY <1>1 DEF Chunks
  <2>2. SentIsKept(r)
    BY <1>2 DEF Running
  <2> QED
    BY <1>1, <1>3, <2>1, <2>2 DEF SentIsKept
<1>7. Running(r)'
  <2>1. Chunks(r)' = Chunks(r)
    BY <1>1 DEF Chunks
  <2> QED
    BY <1>1, <1>2, <1>3, <1>5, <1>6, <2>1 DEF Running
<1>8. RunKnown(r)'
  BY <1>1, <1>2, <1>7 DEF RunKnown, Unanswered, Ended
<1> QED
  BY <1>1, <1>3, <1>4, <1>8, OthersToo

\* Every step keeps the invariant.
LEMMA ChatKept == ChatInv /\ [ChatNext]_chatVars => ChatInv'
<1> SUFFICES ASSUME ChatInv, [ChatNext]_chatVars PROVE ChatInv'
  OBVIOUS
<1>1. CASE ChatNext
  <2>1. PICK r \in Runs : ChatStep(r)
    BY <1>1 DEF ChatNext
  <2>2. CASE ChatAsk(r) \/ ResumeAsk(r)
    BY <2>2, RequestedIs
  <2>3. CASE TurnAway(r)
    BY <2>3, TurnAwayIs
  <2>4. CASE ChatBegin(r) \/ ChatStop(r)
    BY <2>4, ChatBeginIs
  <2>5. CASE Streamed(r) \/ Thought(r)
    BY <2>5, StreamedIs
  <2>6. ASSUME NEW o \in Operations, OnToolStart(r, o) \/ OnToolEnd(r, o) \/ OnToolError(r, o) PROVE ChatInv'
    BY <2>6, ToolStartIs, ToolEndIs, ToolErrorIs
  <2>7. CASE Complete(r) \/ Interrupt(r) \/ Raise(r) \/ Stopped(r)
    BY <2>7, CompleteIs, InterruptIs, RaiseIs, StoppedIs
  <2>8. CASE SaveFails(r) \/ Depart(r)
    BY <2>8, NotKeptIs
  <2> QED
    BY <2>1, <2>2, <2>3, <2>4, <2>5, <2>6, <2>7, <2>8 DEF ChatStep
<1>2. CASE UNCHANGED chatVars
  <2>1. /\ UNCHANGED <<route, phase, entry, started, going>>
        /\ UNCHANGED <<active, within, collector, shown, messages>>
    BY <1>2 DEF chatVars
  <2>2. ChatTyped'
    BY <2>1 DEF ChatInv, ChatTyped
  <2>3. ASSUME NEW r \in Runs PROVE RunKnown(r)'
    BY <2>1, SameRun DEF ChatInv, ChatTyped
  <2> QED
    BY <2>2, <2>3 DEF ChatInv
<1> QED
  BY <1>1, <1>2

\* The invariant holds.
LEMMA ChatHolds == ChatSpec => []ChatInv
  BY ChatStarts, ChatKept, PTL DEF ChatSpec

\* A run that has not ended has no reply.
LEMMA NoReplyYet ==
  ASSUME NEW r \in Runs, messages \in Seq(RowType), Unanswered(r)
  PROVE  Parts(r) = <<>>
<1>1. Replies(messages, r) = {}
  BY DEF Replies, Unanswered
<1> QED
  BY <1>1, FirstReply DEF Parts, PartsIn, SelectInSeq

\* What a client of a run was sent is in the stored reply, once, whichever way the run ended,
\* but for thinking and for tasks that never ended: every chunk, call and result is in the
\* collector until the run is over, as a part, as text or as an event of an open task.
THEOREM ChatsKeepWhatTheyShow == ChatSpec => []ShownIsKept
<1>1. ChatInv => ShownIsKept
  BY DEF ChatInv, RunKnown, KeptIn, ShownIsKept, Ended
<1> QED
  BY <1>1, ChatHolds, PTL

\* A stored reply has at most one result of an operation, only behind its call, and after a
\* stop one for every call: the open tools are those with a call and no result.
THEOREM StopsCloseOperations == ChatSpec => []OperationsClose
<1>1. ChatInv => OperationsClose
  <2> SUFFICES ASSUME ChatInv, NEW r \in Runs PROVE Closed(r)
    BY DEF OperationsClose, Closed
  <2>1. CASE phase[r] \in Ended
    BY <2>1 DEF ChatInv, RunKnown
  <2>2. CASE phase[r] \notin Ended
    <3>1. Parts(r) = <<>>
      BY <2>2, NoReplyYet DEF ChatInv, ChatTyped, RunKnown
    <3>2. \A type, o : PartsOf(r, type, o) = {}
      BY <3>1 DEF PartsOf
    <3>3. Cardinality({}) = 0 /\ 0 <= 1
      BY FS_EmptySet
    <3> QED
      BY <3>2, <3>3 DEF Closed
  <2> QED
    BY <2>1, <2>2
<1> QED
  BY <1>1, ChatHolds, PTL

\* The types of the chat's variables.
THEOREM ChatTypeCorrect == ChatSpec => []ChatTypeOK
<1>1. ChatInv => ChatTypeOK
  BY DEF ChatInv, ChatTyped, ChatTypeOK
<1> QED
  BY <1>1, ChatHolds, PTL
---------------------------------------------------------------------------
(* Conversations written to a file and read back. *)

Sections ==
  [session : Nat, topics : SUBSET Nat, senders : UNION {[S -> SenderType] : S \in SUBSET Nat},
   messages : SUBSET [id : Nat, topic : Nat, sender : Nat]]
Origins == [file : Files, merge : BOOLEAN, section : Sections]

\* A section that can be imported: its messages differ in their ids, and it has their senders.
WellMade(section) ==
  /\ IsFiniteSet(section.topics) /\ 0 \notin section.topics
  /\ IsFiniteSet(DOMAIN section.senders) /\ 0 \notin DOMAIN section.senders
  /\ IsFiniteSet(section.messages)
  /\ \A m \in section.messages : m.id # 0 /\ m.sender \in {0} \cup DOMAIN section.senders
  /\ \A m, n \in section.messages : m.id = n.id => m = n

TransferTyped ==
  /\ sessionRows \in Seq([deleted : BOOLEAN, gone : BOOLEAN, from : {Native} \cup Origins])
  /\ topicRows \in Seq([session : Nat, deleted : BOOLEAN, gone : BOOLEAN, copyOf : Nat])
  /\ messageRows \in Seq([session : Nat, topic : Nat, sender : Nat,
                          deleted : BOOLEAN, gone : BOOLEAN, copyOf : Nat])
  /\ senderRows \in Seq(SenderType)
  /\ export \in [Files -> [kind : {"none", "jsonl", "zip"}, withDeleted : BOOLEAN, left : Seq(Nat),
                           read : SUBSET [topics : SUBSET Nat], sections : Seq(Sections)]]
  /\ upload # NoUpload => upload \in [file : Files, merge : BOOLEAN, left : Seq(Sections)]

\* What exports have read so far, and what is left of an import.
Readable(file) ==
  /\ file.read # {} => file.left # <<>>
  /\ IsFiniteSet(file.read) /\ \A r \in file.read : IsFiniteSet(r.topics) /\ 0 \notin r.topics
  /\ \A i \in 1..Len(file.sections) : WellMade(file.sections[i])
FilesReadable ==
  /\ \A f \in Files : Readable(export[f])
  /\ upload # NoUpload => \A i \in 1..Len(upload.left) : WellMade(upload.left[i])

\* A session and the section it was imported from.
Imported(s) ==
  LET from == sessionRows[s].from
      section == from.section
  IN /\ WellMade(section)
     /\ \A i \in Copies(s) : \E m \in section.messages : messageRows[i].copyOf = m.id
     /\ \A m \in section.messages : \E i \in Copies(s) : messageRows[i].copyOf = m.id
     /\ \A i, j \in Copies(s) : messageRows[i].copyOf = messageRows[j].copyOf => i = j
     /\ \A m \in section.messages : \A i \in Copies(s) :
          messageRows[i].copyOf = m.id => TopicKept(s, m, messageRows[i])
     /\ \A m, n \in section.messages : \A i, j \in Copies(s) :
          messageRows[i].copyOf = m.id /\ messageRows[j].copyOf = n.id =>
            /\ m.sender = n.sender => messageRows[i].sender = messageRows[j].sender
            /\ ~from.merge /\ m.sender # n.sender => messageRows[i].sender # messageRows[j].sender

TransferInv ==
  /\ TransferTyped /\ TransferTypeOK /\ FilesReadable
  /\ \A s \in DOMAIN sessionRows : sessionRows[s].from # Native => Imported(s)

\* A finite set of numbers in order.
LEMMA AscendingIs ==
  ASSUME NEW S, S \subseteq Nat, IsFiniteSet(S)
  PROVE  /\ Cardinality(S) \in Nat
         /\ Ascending(S) \in Seq(S) /\ Len(Ascending(S)) = Cardinality(S)
         /\ \A x \in S : PlaceIn(S, x) \in 1..Cardinality(S) /\ Ascending(S)[PlaceIn(S, x)] = x
         /\ \A i \in 1..Cardinality(S) : Ascending(S)[i] \in S /\ PlaceIn(S, Ascending(S)[i]) = i
<1> DEFINE R == {p \in Nat \X Nat : p[1] < p[2]}
           below == [x \in S |-> {y \in S : y < x}]
           place == [x \in S |-> Cardinality(below[x]) + 1]
<1>0. Cardinality(S) \in Nat
  BY FS_CardinalityType
<1>1. \A x, y \in S : <<x, y>> \in R <=> x < y
  OBVIOUS
<1>2. Orders(S, R)
  BY DEF Orders
<1>3. \A x \in S : Cardinality(below[x]) \in Nat
  <2> TAKE x \in S
  <2>1. below[x] \in SUBSET S
    OBVIOUS
  <2> QED
    BY <2>1, FS_Subset, FS_CardinalityType
<1>4. Places(S, R, below, place)
  BY <1>1, <1>3 DEF Places
<1>5. CountedOff(S, R, place)
  BY <1>2, <1>4, Ranking
<1>6. \A x \in S : place[x] = PlaceIn(S, x)
  BY DEF PlaceIn
<1> HIDE DEF place, below, R
<1>7. \A n \in 1..Cardinality(S) : \E x \in S : PlaceIn(S, x) = n
  BY <1>5, <1>6 DEF CountedOff
<1>8. \A x \in S : PlaceIn(S, x) \in 1..Cardinality(S)
  BY <1>5, <1>6 DEF CountedOff
<1>9. \A x, y \in S : PlaceIn(S, x) = PlaceIn(S, y) => x = y
  BY <1>5, <1>6 DEF CountedOff
<1>10. \A i \in 1..Cardinality(S) : Ascending(S)[i] \in S /\ PlaceIn(S, Ascending(S)[i]) = i
  BY <1>7 DEF Ascending
<1>11. Ascending(S) = [i \in 1..Cardinality(S) |-> Ascending(S)[i]]
  BY DEF Ascending
<1>12. Ascending(S) \in Seq(S) /\ Len(Ascending(S)) = Cardinality(S)
  BY <1>0, <1>10, <1>11
<1> QED
  BY <1>0, <1>8, <1>9, <1>10, <1>12

\* The numbers of some of the first rows.
LEMMA FewNumbers ==
  ASSUME NEW n \in Nat, NEW T, T \subseteq 1..n
  PROVE  IsFiniteSet(T) /\ T \subseteq Nat /\ 0 \notin T
<1>1. IsFiniteSet(1..n)
  BY FS_Interval
<1>2. IsFiniteSet(T)
  BY <1>1, FS_Subset
<1> QED
  BY <1>2

\* What the invariant says of copies makes them whole.
LEMMA WholeFollows == TransferInv => CopiesAreWhole
<1> SUFFICES ASSUME TransferInv, NEW s \in DOMAIN sessionRows, sessionRows[s].from # Native
             PROVE  LET from == sessionRows[s].from
                        rowOf(m) == {i \in Copies(s) : messageRows[i].copyOf = m.id}
                        row(m) == messageRows[CHOOSE i \in rowOf(m) : TRUE]
                    IN /\ Cardinality(Copies(s)) = Cardinality(from.section.messages)
                       /\ \A m \in from.section.messages :
                            Cardinality(rowOf(m)) = 1 /\ TopicKept(s, m, row(m))
                       /\ \A m, n \in from.section.messages :
                            /\ m.sender = n.sender => row(m).sender = row(n).sender
                            /\ ~from.merge /\ m.sender # n.sender => row(m).sender # row(n).sender
  BY DEF CopiesAreWhole
<1> DEFINE from == sessionRows[s].from
           M == from.section.messages
           C == Copies(s)
           rowOf(m) == {i \in C : messageRows[i].copyOf = m.id}
           one(m) == CHOOSE i \in rowOf(m) : TRUE
<1>1. Imported(s)
  BY DEF TransferInv
<1>2. /\ IsFiniteSet(M) /\ \A m, n \in M : m.id = n.id => m = n
      /\ \A i \in C : \E m \in M : messageRows[i].copyOf = m.id
      /\ \A m \in M : \E i \in C : messageRows[i].copyOf = m.id
      /\ \A i, j \in C : messageRows[i].copyOf = messageRows[j].copyOf => i = j
  BY <1>1 DEF Imported, WellMade
<1>3. \A m \in M : \A i \in C : messageRows[i].copyOf = m.id => TopicKept(s, m, messageRows[i])
  BY <1>1 DEF Imported
<1>4. \A m, n \in M : \A i, j \in C :
          messageRows[i].copyOf = m.id /\ messageRows[j].copyOf = n.id =>
            /\ m.sender = n.sender => messageRows[i].sender = messageRows[j].sender
            /\ ~from.merge /\ m.sender # n.sender => messageRows[i].sender # messageRows[j].sender
  BY <1>1 DEF Imported
<1> HIDE DEF from, M, C
<1>5. ASSUME NEW m \in M
      PROVE  /\ one(m) \in C /\ messageRows[one(m)].copyOf = m.id
             /\ rowOf(m) = {one(m)}
  <2>1. PICK i \in C : messageRows[i].copyOf = m.id
    BY <1>2
  <2>2. i \in rowOf(m)
    BY <2>1
  <2>3. one(m) \in rowOf(m)
    BY <2>2
  <2>4. \A j \in rowOf(m) : j = one(m)
    BY <1>2, <2>3
  <2> QED
    BY <2>3, <2>4
<1>6. Cardinality(C) = Cardinality(M)
  <2> DEFINE b == [m \in M |-> one(m)]
  <2>1. b \in [M -> C] /\ \A m \in M : b[m] = one(m)
    BY <1>5
  <2> HIDE DEF b
  <2>2. \A m, n \in M : b[m] = b[n] => m = n
    BY <1>2, <1>5, <2>1
  <2>3. \A i \in C : \E m \in M : b[m] = i
    <3> TAKE i \in C
    <3>1. PICK m \in M : messageRows[i].copyOf = m.id
      BY <1>2
    <3> QED
      BY <1>2, <1>5, <2>1, <3>1
  <2>4. b \in Bijection(M, C)
    BY <2>1, <2>2, <2>3 DEF Bijection, Injection, Surjection, IsInjective
  <2> QED
    BY <1>2, <2>4, FS_Bijection DEF ExistsBijection
<1>7. \A m \in M : Cardinality(rowOf(m)) = 1 /\ TopicKept(s, m, messageRows[one(m)])
  BY <1>3, <1>5, FS_Singleton, ZenonT(30)
<1>8. \A m, n \in M :
         /\ m.sender = n.sender => messageRows[one(m)].sender = messageRows[one(n)].sender
         /\ ~from.merge /\ m.sender # n.sender => messageRows[one(m)].sender # messageRows[one(n)].sender
  BY <1>4, <1>5
<1> QED
  BY <1>6, <1>7, <1>8 DEF C, M, from

\* Nothing is stored, exported or imported in the beginning.
LEMMA TransferStarts == TransferInit => TransferInv
<1> SUFFICES ASSUME TransferInit PROVE TransferInv
  OBVIOUS
<1> USE DEF TransferInit
<1>1. sessionRows \in Seq([deleted : BOOLEAN, gone : BOOLEAN, from : {Native} \cup Origins])
      /\ \A s \in DOMAIN sessionRows : sessionRows[s].from = Native
  BY TransferAssumption DEF SessionRow
<1>2. topicRows \in Seq([session : Nat, deleted : BOOLEAN, gone : BOOLEAN, copyOf : Nat])
      /\ \A t \in DOMAIN topicRows : topicRows[t].session \in DOMAIN sessionRows
  <2> DEFINE T == [session : 1..FirstSessions, deleted : BOOLEAN, gone : BOOLEAN, copyOf : {0}]
             U == [session : Nat, deleted : BOOLEAN, gone : BOOLEAN, copyOf : Nat]
  <2>1. T \subseteq U /\ topicRows \in Seq(T)
    BY TransferAssumption
  <2>2. topicRows \in Seq(U)
    <3> HIDE DEF T, U
    <3> QED
      BY <2>1, ListWidens
  <2>3. \A t \in DOMAIN topicRows : topicRows[t] \in T
    <3> HIDE DEF T, U, TransferInit
    <3> QED
      BY <2>1
  <2>4. \A t \in DOMAIN topicRows : topicRows[t].session \in 1..FirstSessions
    BY <2>3
  <2> QED
    BY <2>2, <2>4
<1>3. messageRows \in Seq([session : Nat, topic : Nat, sender : Nat,
                           deleted : BOOLEAN, gone : BOOLEAN, copyOf : Nat])
      /\ \A m \in DOMAIN messageRows :
           /\ messageRows[m].session \in DOMAIN sessionRows
           /\ messageRows[m].topic \in {0} \cup DOMAIN topicRows
           /\ messageRows[m].sender \in {0} \cup DOMAIN senderRows
  <2> DEFINE T == [session : 1..FirstSessions, topic : 0..Len(FirstTopics),
                   sender : 0..Len(FirstSenders), deleted : BOOLEAN, gone : BOOLEAN, copyOf : {0}]
             U == [session : Nat, topic : Nat, sender : Nat,
                   deleted : BOOLEAN, gone : BOOLEAN, copyOf : Nat]
  <2>1. T \subseteq U /\ messageRows \in Seq(T)
    BY TransferAssumption
  <2>2. messageRows \in Seq(U)
    <3> HIDE DEF T, U
    <3> QED
      BY <2>1, ListWidens
  <2>3. \A m \in DOMAIN messageRows : messageRows[m] \in T
    <3> HIDE DEF T, U, TransferInit
    <3> QED
      BY <2>1
  <2>4. \A m \in DOMAIN messageRows :
           /\ messageRows[m].session \in 1..FirstSessions
           /\ messageRows[m].topic \in 0..Len(FirstTopics)
           /\ messageRows[m].sender \in 0..Len(FirstSenders)
    BY <2>3
  <2>5. DOMAIN topicRows = 1..Len(FirstTopics) /\ DOMAIN senderRows = 1..Len(FirstSenders)
    BY TransferAssumption
  <2>6. Len(FirstTopics) \in Nat /\ Len(FirstSenders) \in Nat
    BY TransferAssumption
  <2> QED
    BY <2>2, <2>4, <2>5, <2>6, SMTT(30)
<1>4. senderRows \in Seq(SenderType)
  BY TransferAssumption
<1>5. Unwritten \in [kind : {"none", "jsonl", "zip"}, withDeleted : BOOLEAN, left : Seq(Nat),
                     read : SUBSET [topics : SUBSET Nat], sections : Seq(Sections)]
  BY DEF Unwritten
<1>6. FilesReadable
  <2>1. /\ Unwritten.read = {} /\ IsFiniteSet(Unwritten.read) /\ Unwritten.sections = <<>>
        /\ 1..Len(Unwritten.sections) = {}
    BY FS_EmptySet DEF Unwritten
  <2>2. \A f \in Files : export[f] = Unwritten
    OBVIOUS
  <2> HIDE DEF TransferInit
  <2>3. upload = NoUpload
    BY DEF TransferInit
  <2> QED
    BY <2>1, <2>2, <2>3 DEF FilesReadable, Readable
<1> QED
  BY <1>1, <1>2, <1>3, <1>4, <1>5, <1>6 DEF TransferInv, TransferTyped, TransferTypeOK

\* What a step may do to rows without disturbing an imported session.
RowsKept(s) ==
  /\ DOMAIN messageRows \subseteq DOMAIN messageRows' /\ DOMAIN topicRows \subseteq DOMAIN topicRows'
  /\ \A m \in DOMAIN messageRows :
       /\ messageRows'[m].session = messageRows[m].session
       /\ messageRows'[m].copyOf = messageRows[m].copyOf
       /\ messageRows'[m].sender = messageRows[m].sender
       /\ \/ messageRows'[m].topic = messageRows[m].topic
          \/ /\ messageRows[m].topic \in DOMAIN topicRows /\ messageRows'[m].topic = 0
             /\ topicRows'[messageRows[m].topic].gone
  /\ \A m \in DOMAIN messageRows' \ DOMAIN messageRows :
       messageRows'[m].session # s \/ messageRows'[m].copyOf = 0
  /\ \A t \in DOMAIN topicRows :
       /\ topicRows'[t].session = topicRows[t].session
       /\ topicRows'[t].copyOf = topicRows[t].copyOf
       /\ topicRows[t].gone => topicRows'[t].gone

\* A session stays a whole copy when the rows of its own are kept.
LEMMA ImportedKept ==
  ASSUME TransferInv, NEW s \in DOMAIN sessionRows, sessionRows[s].from # Native,
         sessionRows'[s].from = sessionRows[s].from, RowsKept(s)
  PROVE  Imported(s)'
<1> DEFINE from == sessionRows[s].from
           section == from.section
           M == section.messages
<1>1. Imported(s)
  BY DEF TransferInv
<1>2. Copies(s)' = Copies(s) /\ \A i \in Copies(s) : i \in DOMAIN messageRows
  BY DEF Copies, RowsKept
<1>3. ASSUME NEW m \in M, NEW i \in Copies(s), TopicKept(s, m, messageRows[i])
      PROVE  TopicKept(s, m, messageRows[i])'
  <2>1. i \in DOMAIN messageRows
    BY <1>2
  <2>2. messageRows[i].topic \in {0} \cup DOMAIN topicRows /\ 0 \notin DOMAIN topicRows
    BY <2>1 DEF TransferInv, TransferTypeOK, TransferTyped
  <2>3. CASE messageRows[i].topic = 0
    <3>1. messageRows'[i].topic = 0
      BY <2>1, <2>2, <2>3 DEF RowsKept
    <3>2. m.topic = 0 \/ m.topic \notin section.topics
            \/ \E t \in DOMAIN topicRows :
                 topicRows[t].session = s /\ topicRows[t].copyOf = m.topic /\ topicRows[t].gone
      BY <1>3, <2>3 DEF TopicKept
    <3>3. m.topic = 0 \/ m.topic \notin section.topics
            \/ \E t \in DOMAIN topicRows' :
                 topicRows'[t].session = s /\ topicRows'[t].copyOf = m.topic /\ topicRows'[t].gone
      BY <3>2 DEF RowsKept
    <3> QED
      BY <3>1, <3>3 DEF TopicKept
  <2>4. CASE messageRows[i].topic # 0
    <3>1. PICK t \in DOMAIN topicRows : t = messageRows[i].topic
      BY <2>2, <2>4
    <3>2. topicRows[t].session = s /\ topicRows[t].copyOf = m.topic
      BY <1>3, <2>4, <3>1 DEF TopicKept
    <3>3. topicRows'[t].session = s /\ topicRows'[t].copyOf = m.topic /\ t \in DOMAIN topicRows'
      BY <3>2 DEF RowsKept
    <3>4. CASE messageRows'[i].topic = t
      BY <2>2, <2>4, <3>1, <3>3, <3>4 DEF TopicKept
    <3>5. CASE messageRows'[i].topic # t
      <4>1. messageRows'[i].topic = 0 /\ topicRows'[t].gone
        BY <2>1, <3>1, <3>5 DEF RowsKept
      <4> QED
        BY <3>3, <4>1 DEF TopicKept
    <3> QED
      BY <3>4, <3>5
  <2> QED
    BY <2>3, <2>4
<1>4. \A i \in Copies(s) : messageRows'[i].copyOf = messageRows[i].copyOf
                           /\ messageRows'[i].sender = messageRows[i].sender
  BY <1>2 DEF RowsKept
<1>5. WellMade(section)
  BY <1>1 DEF Imported
<1>6. \A i \in Copies(s)' : \E m \in M : messageRows'[i].copyOf = m.id
  BY <1>1, <1>2, <1>4 DEF Imported
<1>7. \A m \in M : \E i \in Copies(s)' : messageRows'[i].copyOf = m.id
  BY <1>1, <1>2, <1>4 DEF Imported
<1>8. \A i, j \in Copies(s)' : messageRows'[i].copyOf = messageRows'[j].copyOf => i = j
  BY <1>1, <1>2, <1>4 DEF Imported
<1>9. \A m \in M : \A i \in Copies(s)' :
        messageRows'[i].copyOf = m.id => TopicKept(s, m, messageRows[i])'
  BY <1>1, <1>2, <1>3, <1>4 DEF Imported
<1>10. \A m, n \in M : \A i, j \in Copies(s)' :
          messageRows'[i].copyOf = m.id /\ messageRows'[j].copyOf = n.id =>
            /\ m.sender = n.sender => messageRows'[i].sender = messageRows'[j].sender
            /\ ~from.merge /\ m.sender # n.sender => messageRows'[i].sender # messageRows'[j].sender
  BY <1>1, <1>2, <1>4 DEF Imported
<1> HIDE DEF M
<1> QED
  BY <1>5, <1>6, <1>7, <1>8, <1>9, <1>10 DEF Imported, M

SessionRows == [deleted : BOOLEAN, gone : BOOLEAN, from : {Native} \cup Origins]
TopicRows == [session : Nat, deleted : BOOLEAN, gone : BOOLEAN, copyOf : Nat]
MessageRows ==
  [session : Nat, topic : Nat, sender : Nat, deleted : BOOLEAN, gone : BOOLEAN, copyOf : Nat]

\* Lists as functions.
LEMMA RowsAre ==
  ASSUME TransferTyped
  PROVE  /\ Len(sessionRows) \in Nat /\ DOMAIN sessionRows = 1..Len(sessionRows)
         /\ Len(topicRows) \in Nat /\ DOMAIN topicRows = 1..Len(topicRows)
         /\ Len(messageRows) \in Nat /\ DOMAIN messageRows = 1..Len(messageRows)
         /\ Len(senderRows) \in Nat /\ DOMAIN senderRows = 1..Len(senderRows)
         /\ \A s \in DOMAIN sessionRows : sessionRows[s] \in SessionRows
         /\ \A t \in DOMAIN topicRows : topicRows[t] \in TopicRows
         /\ \A m \in DOMAIN messageRows : messageRows[m] \in MessageRows
         /\ \A n \in DOMAIN senderRows : senderRows[n] \in SenderType
<1> USE DEF TransferTyped
<1>1. sessionRows \in Seq(SessionRows) /\ topicRows \in Seq(TopicRows) /\ messageRows \in Seq(MessageRows)
      /\ senderRows \in Seq(SenderType)
  BY DEF SessionRows, TopicRows, MessageRows
<1> QED
  BY <1>1, ElementOfSeq, LenProperties

\* One more at the end of a list.
LEMMA OneAppended ==
  ASSUME NEW S, NEW list \in Seq(S), NEW x \in S
  PROVE  /\ Append(list, x) \in Seq(S) /\ DOMAIN list = 1..Len(list) /\ Len(list) \in Nat
         /\ DOMAIN Append(list, x) = 1..(Len(list) + 1)
         /\ Append(list, x)[Len(list) + 1] = x
         /\ \A i \in DOMAIN list : Append(list, x)[i] = list[i] /\ i \in DOMAIN Append(list, x) /\ i # Len(list) + 1
         /\ \A i \in DOMAIN Append(list, x) : i \in DOMAIN list \/ i = Len(list) + 1
<1> QED
  OBVIOUS

\* One other row in a list.
LEMMA OneChanged ==
  ASSUME NEW S, NEW list \in Seq(S), NEW k \in DOMAIN list, NEW x \in S
  PROVE  /\ [list EXCEPT ![k] = x] \in Seq(S) /\ DOMAIN [list EXCEPT ![k] = x] = DOMAIN list
         /\ Len([list EXCEPT ![k] = x]) = Len(list)
         /\ \A i \in DOMAIN list : [list EXCEPT ![k] = x][i] = IF i = k THEN x ELSE list[i]
<1> QED
  OBVIOUS

\* A topic added to a session is no part of its copy.
LEMMA AddTopicIs ==
  ASSUME TransferInv, NEW s \in DOMAIN sessionRows, AddTopic(s) PROVE TransferInv'
<1>1. TransferTyped /\ TransferTypeOK /\ FilesReadable
  BY DEF TransferInv
<1>2. PICK row : row = TopicRow(s, 0)
  OBVIOUS
<1>3. row \in TopicRows /\ row.session = s /\ row.copyOf = 0
  BY <1>1, <1>2, RowsAre DEF TopicRow, TopicRows
<1>4. topicRows' = Append(topicRows, row) /\ topicRows \in Seq(TopicRows)
      /\ UNCHANGED <<sessionRows, messageRows, senderRows, export, upload>>
  BY <1>1, <1>2 DEF AddTopic, TransferTyped, TopicRows
<1>5. /\ topicRows' \in Seq(TopicRows) /\ DOMAIN topicRows \subseteq DOMAIN topicRows'
      /\ \A t \in DOMAIN topicRows' : (t \in DOMAIN topicRows /\ topicRows'[t] = topicRows[t]) \/ topicRows'[t] = row
      /\ \A t \in DOMAIN topicRows : topicRows'[t] = topicRows[t]
  BY <1>3, <1>4, OneAppended
<1>6. TransferTyped'
  BY <1>1, <1>4, <1>5 DEF TransferTyped, TopicRows
<1>7. TransferTypeOK'
  BY <1>1, <1>3, <1>4, <1>5 DEF TransferTypeOK
<1>8. FilesReadable'
  BY <1>1, <1>4 DEF FilesReadable
<1>9. \A x \in DOMAIN sessionRows : RowsKept(x)
  BY <1>4, <1>5 DEF RowsKept
<1> QED
  BY <1>4, <1>6, <1>7, <1>8, <1>9, ImportedKept DEF TransferInv

\* Nor is a message added to it.
LEMMA AddMessageIs ==
  ASSUME TransferInv, NEW s \in DOMAIN sessionRows, AddMessage(s) PROVE TransferInv'
<1>1. TransferTyped /\ TransferTypeOK /\ FilesReadable
  BY DEF TransferInv
<1>2. PICK t \in {0} \cup TopicsOf(s), n \in {0} \cup DOMAIN senderRows :
        messageRows' = Append(messageRows, MessageRow(s, t, n, 0))
  BY DEF AddMessage
<1>3. PICK row : row = MessageRow(s, t, n, 0)
  OBVIOUS
<1>4. t \in {0} \cup DOMAIN topicRows /\ t \in Nat /\ n \in Nat /\ s \in Nat
  BY <1>1, RowsAre DEF TopicsOf
<1>5. row \in MessageRows /\ row.session = s /\ row.copyOf = 0 /\ row.topic = t /\ row.sender = n
  BY <1>3, <1>4 DEF MessageRow, MessageRows
<1>6. messageRows' = Append(messageRows, row) /\ messageRows \in Seq(MessageRows)
      /\ UNCHANGED <<sessionRows, topicRows, senderRows, export, upload>>
  BY <1>1, <1>2, <1>3 DEF AddMessage, TransferTyped, MessageRows
<1>7. /\ messageRows' \in Seq(MessageRows) /\ DOMAIN messageRows \subseteq DOMAIN messageRows'
      /\ \A m \in DOMAIN messageRows' :
           (m \in DOMAIN messageRows /\ messageRows'[m] = messageRows[m]) \/ messageRows'[m] = row
      /\ \A m \in DOMAIN messageRows : messageRows'[m] = messageRows[m]
  BY <1>5, <1>6, OneAppended
<1>8. TransferTyped'
  BY <1>1, <1>6, <1>7 DEF TransferTyped, MessageRows
<1>9. TransferTypeOK'
  BY <1>1, <1>4, <1>5, <1>6, <1>7 DEF TransferTypeOK
<1>10. FilesReadable'
  BY <1>1, <1>6 DEF FilesReadable
<1>11. \A x \in DOMAIN sessionRows : RowsKept(x)
  BY <1>5, <1>6, <1>7 DEF RowsKept
<1> QED
  BY <1>6, <1>8, <1>9, <1>10, <1>11, ImportedKept DEF TransferInv

\* A topic deleted stays in the copy, marked as deleted or gone,
LEMMA RemoveTopicIs ==
  ASSUME TransferInv, NEW t \in DOMAIN topicRows, NEW hard \in BOOLEAN, RemoveTopic(t, hard)
  PROVE  TransferInv'
<1>1. TransferTyped /\ TransferTypeOK /\ FilesReadable
  BY DEF TransferInv
<1>2. PICK row : row = [topicRows[t] EXCEPT !.deleted = @ \/ ~hard, !.gone = hard]
  OBVIOUS
<1>3. topicRows[t] \in TopicRows /\ topicRows \in Seq(TopicRows)
  BY <1>1, RowsAre DEF TransferTyped, TopicRows
<1>4. row \in TopicRows /\ row.session = topicRows[t].session /\ row.copyOf = topicRows[t].copyOf
      /\ row.gone = hard /\ ~ topicRows[t].gone
  BY <1>2, <1>3 DEF TopicRows, RemoveTopic
<1>5. topicRows' = [topicRows EXCEPT ![t] = row]
  BY <1>2, <1>3 DEF RemoveTopic
<1>6. /\ topicRows' \in Seq(TopicRows) /\ DOMAIN topicRows' = DOMAIN topicRows
      /\ \A x \in DOMAIN topicRows : topicRows'[x] = IF x = t THEN row ELSE topicRows[x]
  BY <1>3, <1>4, <1>5, OneChanged
<1>7. \A x \in DOMAIN topicRows :
        /\ topicRows'[x].session = topicRows[x].session
        /\ topicRows'[x].copyOf = topicRows[x].copyOf
        /\ topicRows[x].gone => topicRows'[x].gone
  BY <1>4, <1>6
<1>8. /\ DOMAIN messageRows' = DOMAIN messageRows
      /\ UNCHANGED <<sessionRows, senderRows, export, upload>>
      /\ \A m \in DOMAIN messageRows :
           messageRows'[m] = IF hard /\ messageRows[m].topic = t
                             THEN [messageRows[m] EXCEPT !.topic = 0] ELSE messageRows[m]
  BY DEF RemoveTopic
<1>9. ASSUME NEW m \in DOMAIN messageRows
      PROVE  /\ messageRows'[m] \in MessageRows
             /\ messageRows'[m].session = messageRows[m].session
             /\ messageRows'[m].copyOf = messageRows[m].copyOf
             /\ messageRows'[m].sender = messageRows[m].sender
             /\ \/ messageRows'[m].topic = messageRows[m].topic
                \/ hard /\ messageRows[m].topic = t /\ messageRows'[m].topic = 0
  <2>1. messageRows[m] \in MessageRows
    BY <1>1, RowsAre
  <2>2. CASE hard /\ messageRows[m].topic = t
    <3>1. messageRows'[m] = [messageRows[m] EXCEPT !.topic = 0]
      BY <1>8, <2>2
    <3> QED
      BY <2>1, <2>2, <3>1 DEF MessageRows
  <2>3. CASE ~ (hard /\ messageRows[m].topic = t)
    <3>1. messageRows'[m] = messageRows[m]
      BY <1>8, <2>3, Zenon
    <3> QED
      BY <2>1, <3>1
  <2> QED
    BY <2>2, <2>3, Zenon
<1>10. messageRows' \in Seq(MessageRows)
  <2>1. messageRows' \in [1..Len(messageRows) -> MessageRows] /\ Len(messageRows) \in Nat
    <3>1. Len(messageRows) \in Nat /\ DOMAIN messageRows = 1..Len(messageRows)
      BY <1>1, RowsAre
    <3>2. messageRows' = [m \in DOMAIN messageRows |-> messageRows'[m]]
      BY DEF RemoveTopic
    <3> QED
      BY <1>9, <3>1, <3>2
  <2> QED
    BY <2>1
<1>11. TransferTyped'
  BY <1>1, <1>6, <1>8, <1>10 DEF TransferTyped, TopicRows, MessageRows
<1>12. TransferTypeOK'
  BY <1>1, <1>6, <1>7, <1>8, <1>9 DEF TransferTypeOK
<1>13. FilesReadable'
  BY <1>1, <1>8 DEF FilesReadable
<1>14. hard => topicRows'[t].gone
  BY <1>4, <1>6
<1>15. \A x \in DOMAIN sessionRows : RowsKept(x)
  BY <1>6, <1>7, <1>8, <1>9, <1>14 DEF RowsKept
<1> QED
  BY <1>8, <1>11, <1>12, <1>13, <1>15, ImportedKept DEF TransferInv

\* so does a message,
LEMMA RemoveMessageIs ==
  ASSUME TransferInv, NEW m \in DOMAIN messageRows, NEW hard \in BOOLEAN, RemoveMessage(m, hard)
  PROVE  TransferInv'
<1>1. TransferTyped /\ TransferTypeOK /\ FilesReadable
  BY DEF TransferInv
<1>2. PICK row : row = [messageRows[m] EXCEPT !.deleted = @ \/ ~hard, !.gone = hard]
  OBVIOUS
<1>3. messageRows[m] \in MessageRows /\ messageRows \in Seq(MessageRows)
  BY <1>1, RowsAre DEF TransferTyped, MessageRows
<1>4. row \in MessageRows /\ row.session = messageRows[m].session /\ row.copyOf = messageRows[m].copyOf
      /\ row.topic = messageRows[m].topic /\ row.sender = messageRows[m].sender
  BY <1>2, <1>3 DEF MessageRows
<1>5. messageRows' = [messageRows EXCEPT ![m] = row]
      /\ UNCHANGED <<sessionRows, topicRows, senderRows, export, upload>>
  BY <1>2, <1>3 DEF RemoveMessage
<1>6. /\ messageRows' \in Seq(MessageRows) /\ DOMAIN messageRows' = DOMAIN messageRows
      /\ \A x \in DOMAIN messageRows : messageRows'[x] = IF x = m THEN row ELSE messageRows[x]
  BY <1>3, <1>4, <1>5, OneChanged
<1>7. \A x \in DOMAIN messageRows :
        /\ messageRows'[x].session = messageRows[x].session
        /\ messageRows'[x].copyOf = messageRows[x].copyOf
        /\ messageRows'[x].topic = messageRows[x].topic
        /\ messageRows'[x].sender = messageRows[x].sender
  BY <1>4, <1>6
<1>8. TransferTyped'
  BY <1>1, <1>5, <1>6 DEF TransferTyped, MessageRows
<1>9. TransferTypeOK'
  BY <1>1, <1>5, <1>6, <1>7 DEF TransferTypeOK
<1>10. FilesReadable'
  BY <1>1, <1>5 DEF FilesReadable
<1>11. \A x \in DOMAIN sessionRows : RowsKept(x)
  BY <1>5, <1>6, <1>7 DEF RowsKept
<1> QED
  BY <1>5, <1>8, <1>9, <1>10, <1>11, ImportedKept DEF TransferInv

\* and a session.
LEMMA RemoveSessionIs ==
  ASSUME TransferInv, NEW s \in DOMAIN sessionRows, NEW hard \in BOOLEAN, RemoveSession(s, hard)
  PROVE  TransferInv'
<1>1. TransferTyped /\ TransferTypeOK /\ FilesReadable
  BY DEF TransferInv
<1>2. PICK row : row = [sessionRows[s] EXCEPT !.deleted = @ \/ ~hard, !.gone = hard]
  OBVIOUS
<1>3. sessionRows[s] \in SessionRows /\ sessionRows \in Seq(SessionRows)
  BY <1>1, RowsAre DEF TransferTyped, SessionRows
<1>4. row \in SessionRows /\ row.from = sessionRows[s].from
  BY <1>2, <1>3 DEF SessionRows
<1>5. sessionRows' = [sessionRows EXCEPT ![s] = row]
      /\ UNCHANGED <<topicRows, messageRows, senderRows, export, upload>>
  BY <1>2, <1>3 DEF RemoveSession
<1>6. /\ sessionRows' \in Seq(SessionRows) /\ DOMAIN sessionRows' = DOMAIN sessionRows
      /\ \A x \in DOMAIN sessionRows : sessionRows'[x] = IF x = s THEN row ELSE sessionRows[x]
  BY <1>3, <1>4, <1>5, OneChanged
<1>7. \A x \in DOMAIN sessionRows : sessionRows'[x].from = sessionRows[x].from
  BY <1>4, <1>6
<1>8. TransferTyped'
  BY <1>1, <1>5, <1>6 DEF TransferTyped, SessionRows
<1>9. TransferTypeOK'
  BY <1>1, <1>5, <1>6 DEF TransferTypeOK
<1>10. FilesReadable'
  BY <1>1, <1>5 DEF FilesReadable
<1>11. \A x \in DOMAIN sessionRows : RowsKept(x)
  BY <1>5 DEF RowsKept
<1> QED
  BY <1>6, <1>7, <1>8, <1>9, <1>10, <1>11, ImportedKept DEF TransferInv

FileType ==
  [kind : {"none", "jsonl", "zip"}, withDeleted : BOOLEAN, left : Seq(Nat),
   read : SUBSET [topics : SUBSET Nat], sections : Seq(Sections)]

\* A file gets on.
LEMMA FileWritten ==
  ASSUME TransferInv, NEW f \in Files, NEW file \in FileType, Readable(file),
         export' = [export EXCEPT ![f] = file],
         UNCHANGED <<sessionRows, topicRows, messageRows, senderRows, upload>>
  PROVE  TransferInv'
<1>1. TransferTyped /\ TransferTypeOK /\ FilesReadable
  BY DEF TransferInv
<1>2. export' \in [Files -> FileType]
  BY <1>1 DEF TransferTyped, FileType
<1>3. \A g \in Files : Readable(export'[g])
  BY <1>1 DEF TransferTyped, FilesReadable
<1>4. TransferTyped'
  BY <1>1, <1>2 DEF TransferTyped, FileType
<1>5. TransferTypeOK'
  BY <1>1 DEF TransferTypeOK
<1>6. FilesReadable'
  BY <1>1, <1>3 DEF FilesReadable
<1>7. \A x \in DOMAIN sessionRows : RowsKept(x)
  BY DEF RowsKept
<1> QED
  BY <1>4, <1>5, <1>6, <1>7, ImportedKept DEF TransferInv

\* An export begins with no section.
LEMMA ExportBeginIs ==
  ASSUME TransferInv, NEW f \in Files, ExportBegin(f) PROVE TransferInv'
<1>1. PICK chosen \in SUBSET {s \in DOMAIN sessionRows : Visible(sessionRows[s])},
           kind \in {"jsonl", "zip"}, withDeleted \in BOOLEAN :
        export' = [export EXCEPT ![f] =
          [kind |-> kind, withDeleted |-> withDeleted, left |-> Ascending(chosen),
           read |-> {}, sections |-> <<>>]]
  BY DEF ExportBegin
<1>2. PICK file : file = [kind |-> kind, withDeleted |-> withDeleted, left |-> Ascending(chosen),
                          read |-> {}, sections |-> <<>>]
  OBVIOUS
<1>3. Ascending(chosen) \in Seq(Nat)
  <2>1. chosen \subseteq 1..Len(sessionRows) /\ Len(sessionRows) \in Nat
    BY RowsAre DEF TransferInv
  <2>2. IsFiniteSet(chosen) /\ chosen \subseteq Nat
    BY <2>1, FewNumbers
  <2> QED
    BY <2>2, AscendingIs, ListWidens
<1>4. file \in FileType
  BY <1>2, <1>3 DEF FileType
<1>5. Readable(file)
  <2>1. file.read = {} /\ 1..Len(file.sections) = {}
    BY <1>2
  <2> QED
    BY <2>1, FS_EmptySet DEF Readable
<1>6. export' = [export EXCEPT ![f] = file]
      /\ UNCHANGED <<sessionRows, topicRows, messageRows, senderRows, upload>>
  BY <1>1, <1>2 DEF ExportBegin
<1> QED
  BY <1>4, <1>5, <1>6, FileWritten

\* What each export has read is well made.
LEMMA FilesAre ==
  ASSUME TransferInv, NEW f \in Files
  PROVE  export[f] \in FileType /\ Readable(export[f])
<1> QED
  BY DEF TransferInv, TransferTyped, FilesReadable, FileType

\* The topics read are those of the session, each once.
LEMMA ReadTopicsIs ==
  ASSUME TransferInv, NEW f \in Files, ReadTopics(f) PROVE TransferInv'
<1>1. PICK T : T = Exported(f, topicRows, TopicsOf(Head(export[f].left)))
  OBVIOUS
<1>2. T \subseteq 1..Len(topicRows) /\ Len(topicRows) \in Nat
  BY <1>1, RowsAre DEF TransferInv, Exported, TopicsOf
<1>3. IsFiniteSet(T) /\ T \subseteq Nat /\ 0 \notin T
  BY <1>2, FewNumbers
<1>4. export[f] \in FileType /\ Readable(export[f])
  BY FilesAre
<1>5. PICK file : file = [export[f] EXCEPT !.read = {[topics |-> T]}]
  OBVIOUS
<1>6. /\ file \in FileType /\ file.read = {[topics |-> T]}
      /\ file.sections = export[f].sections /\ file.left = export[f].left
  <2>1. [topics |-> T] \in [topics : SUBSET Nat]
    BY <1>3
  <2>2. PICK r \in [topics : SUBSET Nat] : r = [topics |-> T]
    BY <2>1
  <2>3. file = [export[f] EXCEPT !.read = {r}]
    BY <1>5, <2>2
  <2> QED
    BY <1>4, <2>2, <2>3 DEF FileType
<1>7. Readable(file)
  <2>1. IsFiniteSet(file.read)
    BY <1>6, FS_Singleton
  <2>2. \A r \in file.read : r.topics = T
    BY <1>6
  <2>3. export[f].left # <<>>
    BY DEF ReadTopics
  <2> QED
    BY <1>3, <1>4, <1>6, <2>1, <2>2, <2>3 DEF Readable
<1>8. export' = [export EXCEPT ![f] = file]
      /\ UNCHANGED <<sessionRows, topicRows, messageRows, senderRows, upload>>
  BY <1>1, <1>5 DEF ReadTopics
<1> QED
  BY <1>6, <1>7, <1>8, FileWritten

\* What is read last completes a section.
LEMMA SectionIs ==
  ASSUME TransferInv, NEW f \in Files, NEW s \in Nat, NEW found, found \subseteq DOMAIN messageRows,
         NEW section,
         section =
           [session |-> s,
            topics |-> UNION {r.topics : r \in export[f].read},
            senders |-> [i \in {messageRows[m].sender : m \in found} \ {0} |-> senderRows[i]],
            messages |-> {[id |-> m, topic |-> messageRows[m].topic, sender |-> messageRows[m].sender] :
                            m \in found}]
  PROVE  section \in Sections /\ WellMade(section)
<1> DEFINE copy(m) == [id |-> m, topic |-> messageRows[m].topic, sender |-> messageRows[m].sender]
           senders == {messageRows[m].sender : m \in found} \ {0}
           parts == {r.topics : r \in export[f].read}
<1>1. export[f] \in FileType /\ Readable(export[f])
  BY FilesAre
<1>2. TransferTyped /\ TransferTypeOK
  BY DEF TransferInv
<1>3. IsFiniteSet(found) /\ found \subseteq Nat /\ 0 \notin found
  <2>1. found \subseteq 1..Len(messageRows) /\ Len(messageRows) \in Nat
    BY <1>2, RowsAre
  <2> QED
    BY <2>1, FewNumbers
<1>4. \A m \in found : messageRows[m] \in MessageRows
  BY <1>2, RowsAre
<1>5. senders \subseteq DOMAIN senderRows
  BY <1>2 DEF TransferTypeOK
<1>6. IsFiniteSet(senders) /\ senders \subseteq Nat /\ 0 \notin senders
  <2>1. senders \subseteq 1..Len(senderRows) /\ Len(senderRows) \in Nat
    BY <1>2, <1>5, RowsAre
  <2> QED
    BY <2>1, FewNumbers
<1>7. section.senders \in [senders -> SenderType] /\ DOMAIN section.senders = senders
  BY <1>2, <1>5, RowsAre
<1>8. /\ section.messages = {copy(m) : m \in found}
      /\ \A m \in found : copy(m) \in [id : Nat, topic : Nat, sender : Nat]
  BY <1>3, <1>4 DEF MessageRows
<1>9. IsFiniteSet(section.messages)
  <2> DEFINE b == [m \in found |-> copy(m)]
  <2>1. b \in Surjection(found, section.messages)
    BY <1>8 DEF Surjection
  <2> QED
    BY <1>3, <2>1, FS_Surjection
<1>10. IsFiniteSet(section.topics) /\ section.topics \subseteq Nat /\ 0 \notin section.topics
  <2>1. IsFiniteSet(parts)
    <3> DEFINE b == [r \in export[f].read |-> r.topics]
    <3>1. b \in Surjection(export[f].read, parts)
      BY DEF Surjection
    <3> QED
      BY <1>1, <3>1, FS_Surjection DEF Readable
  <2>2. \A t \in parts : IsFiniteSet(t) /\ t \subseteq Nat /\ 0 \notin t
    BY <1>1 DEF Readable, FileType
  <2>3. section.topics = UNION parts
    OBVIOUS
  <2>4. IsFiniteSet(UNION parts)
    BY <2>1, <2>2, FS_UNION
  <2> QED
    BY <2>2, <2>3, <2>4
<1>11. \A m, n \in section.messages : m.id = n.id => m = n
  BY <1>8
<1>12. \A m \in section.messages : m.id # 0 /\ m.sender \in {0} \cup senders
  BY <1>3, <1>8
<1>13. section.session = s
  OBVIOUS
<1>14. section = [session |-> section.session, topics |-> section.topics,
                  senders |-> section.senders, messages |-> section.messages]
  OBVIOUS
<1> HIDE DEF senders
<1>15. section.senders \in UNION {[S -> SenderType] : S \in SUBSET Nat}
  BY <1>6, <1>7
<1>16. section.messages \in SUBSET [id : Nat, topic : Nat, sender : Nat]
  BY <1>8
<1>17. section \in Sections
  <2>1. section.topics \in SUBSET Nat
    BY <1>10
  <2>2. \A a, b, c, d : a \in Nat /\ b \in SUBSET Nat /\ c \in UNION {[S -> SenderType] : S \in SUBSET Nat}
            /\ d \in SUBSET [id : Nat, topic : Nat, sender : Nat]
            => [session |-> a, topics |-> b, senders |-> c, messages |-> d] \in Sections
    BY DEF Sections
  <2> HIDE DEF Sections
  <2> QED
    BY <1>13, <1>14, <1>15, <1>16, <2>1, <2>2, Zenon
<1>18. WellMade(section)
  BY <1>6, <1>7, <1>9, <1>10, <1>11, <1>12 DEF WellMade
<1> QED
  BY <1>17, <1>18

\* The messages read, with their senders, make the section complete.
LEMMA ReadMessagesIs ==
  ASSUME TransferInv, NEW f \in Files, ReadMessages(f) PROVE TransferInv'
<1>1. export[f] \in FileType /\ Readable(export[f])
  BY FilesAre
<1>2. PICK s : s = Head(export[f].left)
  OBVIOUS
<1>3. PICK found : found = Exported(f, messageRows, MessagesOf(s))
  OBVIOUS
<1>4. PICK section : section =
           [session |-> s,
            topics |-> UNION {r.topics : r \in export[f].read},
            senders |-> [i \in {messageRows[m].sender : m \in found} \ {0} |-> senderRows[i]],
            messages |-> {[id |-> m, topic |-> messageRows[m].topic, sender |-> messageRows[m].sender] :
                            m \in found}]
  OBVIOUS
<1>5. PICK file : file = [export[f] EXCEPT !.left = Tail(@), !.read = {},
                                           !.sections = Append(@, section)]
  OBVIOUS
<1>6. export' = [export EXCEPT ![f] = file]
      /\ UNCHANGED <<sessionRows, topicRows, messageRows, senderRows, upload>>
  BY <1>2, <1>3, <1>4, <1>5 DEF ReadMessages
<1>7. export[f].left # <<>> /\ s \in Nat /\ Tail(export[f].left) \in Seq(Nat)
  <2>1. export[f].left # <<>>
    BY <1>1 DEF ReadMessages, Readable
  <2>2. export[f].left \in Seq(Nat)
    BY <1>1 DEF FileType
  <2> QED
    BY <1>2, <2>1, <2>2, HeadTailProperties
<1>8. found \subseteq DOMAIN messageRows
  BY <1>3 DEF Exported, MessagesOf
<1>9. section \in Sections /\ WellMade(section)
  BY <1>4, <1>7, <1>8, SectionIs
<1>10. file.sections = Append(export[f].sections, section) /\ file.read = {} /\ file \in FileType
  <2>1. PICK list \in Seq(Nat) : list = Tail(export[f].left)
    BY <1>7
  <2>2. Append(export[f].sections, section) \in Seq(Sections)
    BY <1>1, <1>9, OneAppended DEF FileType
  <2>3. PICK list2 \in Seq(Sections) : list2 = Append(export[f].sections, section)
    BY <2>2
  <2>4. file = [export[f] EXCEPT !.left = list, !.read = {}, !.sections = list2]
    BY <1>5, <2>1, <2>3
  <2> QED
    BY <1>1, <2>3, <2>4 DEF FileType
<1>11. Readable(file)
  <2>1. \A i \in 1..Len(file.sections) : WellMade(file.sections[i])
    BY <1>1, <1>9, <1>10, OneAppended DEF Readable, FileType
  <2> QED
    BY <1>10, <2>1, FS_EmptySet DEF Readable
<1> QED
  BY <1>6, <1>10, <1>11, FileWritten

\* An import has before it the sections of a file,
LEMMA ImportBeginIs ==
  ASSUME TransferInv, NEW f \in Files, ImportBegin(f) PROVE TransferInv'
<1>1. export[f] \in FileType /\ Readable(export[f])
  BY FilesAre
<1>2. PICK merge \in BOOLEAN : upload' = [file |-> f, merge |-> merge, left |-> Importable(f)]
  BY DEF ImportBegin
<1>3. Importable(f) # <<>> /\ Importable(f) = export[f].sections
      /\ UNCHANGED <<sessionRows, topicRows, messageRows, senderRows, export>>
  BY DEF ImportBegin, Importable
<1>4. upload' \in [file : Files, merge : BOOLEAN, left : Seq(Sections)]
      /\ upload'.left = export[f].sections /\ upload'.left # <<>>
  BY <1>1, <1>2, <1>3 DEF FileType
<1>5. \A i \in 1..Len(upload'.left) : WellMade(upload'.left[i])
  BY <1>1, <1>4 DEF Readable
<1>6. TransferTyped'
  BY <1>3, <1>4 DEF TransferInv, TransferTyped
<1>7. TransferTypeOK'
  BY <1>3, <1>4 DEF TransferInv, TransferTypeOK
<1>8. FilesReadable'
  BY <1>3, <1>5 DEF TransferInv, FilesReadable
<1>9. \A x \in DOMAIN sessionRows : RowsKept(x)
  BY <1>3 DEF RowsKept
<1> QED
  BY <1>3, <1>6, <1>7, <1>8, <1>9, ImportedKept DEF TransferInv

\* and one that fails leaves the transactions that were committed.
LEMMA ImportFailsIs == ASSUME TransferInv, ImportFails PROVE TransferInv'
<1> USE DEF ImportFails
<1>1. TransferTyped' /\ TransferTypeOK' /\ FilesReadable'
  BY DEF TransferInv, TransferTyped, TransferTypeOK, FilesReadable
<1>2. \A x \in DOMAIN sessionRows : RowsKept(x)
  BY DEF RowsKept
<1> QED
  BY <1>1, <1>2, ImportedKept DEF TransferInv

\* Steps of other parts.
LEMMA NothingHappens == ASSUME TransferInv, UNCHANGED transferVars PROVE TransferInv'
<1> USE DEF transferVars
<1>1. TransferTyped' /\ TransferTypeOK' /\ FilesReadable'
  BY DEF TransferInv, TransferTyped, TransferTypeOK, FilesReadable
<1>2. \A x \in DOMAIN sessionRows : RowsKept(x)
  BY DEF RowsKept
<1> QED
  BY <1>1, <1>2, ImportedKept DEF TransferInv

\* The senders of a section one after the other, by steps.
FirstSender == {[rows |-> senderRows, as |-> <<>>]}
NextSender(merge, senders, id, A) == UNION {SenderFor(merge, id, senders[id], a) : a \in A}
SenderTrace(v, N, merge, senders, seq) ==
  /\ v[0] = FirstSender
  /\ \A n \in 1..N : v[n] = NextSender(merge, senders, seq[n], v[n - 1])
  /\ SendersFor(merge, senders) = v[N]

\* The fold over the senders of a section, one step after the other.
LEMMA SenderSteps ==
  ASSUME NEW N \in Nat, NEW merge, NEW senders, NEW seq, seq = Ascending(DOMAIN senders), DOMAIN seq = 1..N
  PROVE  \E v : SenderTrace(v, N, merge, senders, seq)
<1> DEFINE Body(f, s) == IF s = {} THEN FirstSender
                         ELSE NextSender(merge, senders, seq[Max(s)], f[s \ {Max(s)}])
           iter == CHOOSE f : f = [s \in SUBSET (1..N) |-> Body(f, s)]
<1>1. SendersFor(merge, senders) = iter[1..N]
  <2>1. SendersFor(merge, senders) =
          FoldLeft(LAMBDA sofar, id : NextSender(merge, senders, id, sofar), FirstSender, seq)
    BY DEF SendersFor, NextSender, FirstSender
  <2> QED
    BY <2>1 DEF FoldLeft, MapThenFoldSet
<1>2. \A n \in 0..N : \E f : f = [s \in SUBSET (1..n) |-> Body(f, s)]
  <2> DEFINE Is(n) == \E f : f = [s \in SUBSET (1..n) |-> Body(f, s)]
             T == {n \in 0..N : ~Is(n)}
  <2> SUFFICES ASSUME T # {} PROVE FALSE
    OBVIOUS
  <2> HIDE DEF Is
  <2>1. PICK n \in T : \A m \in T : n <= m
    <3>1. T \subseteq Nat
      OBVIOUS
    <3> HIDE DEF T
    <3> QED
      BY <3>1, LeastOf
  <2>4. n \in 0..N /\ ~Is(n) /\ \A m \in 0..N : m < n => Is(m)
    BY <2>1
  <2>2. CASE n = 0
    <3> DEFINE h == [s \in SUBSET (1..0) |-> FirstSender]
    <3>1. h = [s \in SUBSET (1..0) |-> Body(h, s)]
      OBVIOUS
    <3> QED
      BY <2>2, <2>4, <3>1 DEF Is
  <2>3. CASE n # 0
    <3>1. n \in Nat /\ n - 1 \in 0..N /\ Is(n - 1)
      BY <2>3, <2>4
    <3>2. PICK g : g = [s \in SUBSET (1..(n - 1)) |-> Body(g, s)]
      BY <3>1 DEF Is
    <3> DEFINE h == [s \in SUBSET (1..n) |-> Body(g, s)]
    <3>3. ASSUME NEW s \in SUBSET (1..n)
          PROVE  Body(g, s) = Body(h, s)
      <4>1. CASE s = {}
        BY <4>1
      <4>2. CASE s # {}
        <5>1. PICK t : t = s \ {Max(s)}
          OBVIOUS
        <5>2. t \in SUBSET (1..(n - 1)) /\ t \in SUBSET (1..n)
          BY <2>3, <3>1, <4>2, <5>1, GreatestGone
        <5>3. h[t] = g[t]
          BY <3>2, <5>2
        <5> QED
          BY <4>2, <5>1, <5>3
      <4> QED
        BY <4>1, <4>2
    <3>4. h = [s \in SUBSET (1..n) |-> Body(h, s)]
      <4> HIDE DEF Body
      <4> QED
        BY <3>3
    <3> HIDE DEF h
    <3> QED
      BY <2>4, <3>4 DEF Is
  <2> QED
    BY <2>2, <2>3
<1>3. iter = [s \in SUBSET (1..N) |-> Body(iter, s)]
  <2> HIDE DEF Body
  <2>1. N \in 0..N
    OBVIOUS
  <2>2. \E f : f = [s \in SUBSET (1..N) |-> Body(f, s)]
    BY <1>2, <2>1
  <2> QED
    BY <2>2
<1> DEFINE v == [n \in 0..N |-> iter[1..n]]
<1>4. v[0] = FirstSender
  <2>1. 1..0 = {} /\ {} \in SUBSET (1..N)
    OBVIOUS
  <2> HIDE DEF iter
  <2> QED
    BY <1>3, <2>1
<1>5. ASSUME NEW n \in 1..N
      PROVE  v[n] = NextSender(merge, senders, seq[n], v[n - 1])
  <2>1. 1..n \in SUBSET (1..N) /\ n \in 1..n /\ n \in 0..N /\ n - 1 \in 0..N
    <3> HIDE DEF Body, iter
    <3>1. n \in Nat /\ n <= N
      OBVIOUS
    <3> QED
      BY <3>1
  <2>2. Max(1..n) = n /\ (1..n) \ {n} = 1..(n - 1)
    BY DEF Max
  <2> HIDE DEF iter
  <2>3. iter[1..n] = Body(iter, 1..n)
    BY <1>3, <2>1
  <2> QED
    BY <2>1, <2>2, <2>3
<1>6. SendersFor(merge, senders) = v[N]
  <2>1. N \in 0..N
    OBVIOUS
  <2> HIDE DEF iter
  <2> QED
    BY <1>1, <2>1
<1> HIDE DEF v
<1> QED
  BY <1>4, <1>5, <1>6 DEF SenderTrace

\* The senders of a section that have rows so far.
SendersKnown(a, D, merge) ==
  /\ a.rows \in Seq(SenderType) /\ Len(a.rows) >= Len(senderRows)
  /\ a.as \in [D -> 1..Len(a.rows)]
  /\ ~merge => \A x, y \in D : a.as[x] = a.as[y] => x = y

\* One sender is mapped to a row that is found or made.
LEMMA OneSender ==
  ASSUME senderRows \in Seq(SenderType), NEW a, NEW D, NEW merge \in BOOLEAN, SendersKnown(a, D, merge),
         NEW id, id \notin D, NEW sender \in SenderType, NEW b \in SenderFor(merge, id, sender, a)
  PROVE  SendersKnown(b, D \cup {id}, merge)
<1>0. /\ a.rows \in Seq(SenderType) /\ Len(a.rows) \in Nat /\ DOMAIN a.rows = 1..Len(a.rows)
      /\ Len(senderRows) \in Nat /\ Len(a.rows) >= Len(senderRows)
      /\ a.as \in [D -> 1..Len(a.rows)]
  BY DEF SendersKnown
<1> DEFINE sameId == {i \in DOMAIN a.rows : sender.external # NoExternal /\ a.rows[i].external = sender.external}
           sameName == {i \in DOMAIN a.rows : a.rows[i].name = sender.name}
           existing == IF ~merge THEN {} ELSE IF sameId # {} THEN sameId ELSE sameName
           other(i) == IF a.rows[i].external = NoExternal
                       THEN [a.rows EXCEPT ![i].external = sender.external] ELSE a.rows
<1>1. \/ b = [rows |-> Append(a.rows, sender), as |-> Mapped(a.as, id, Len(a.rows) + 1)]
      \/ /\ merge
         /\ \E i \in DOMAIN a.rows : b = [rows |-> other(i), as |-> Mapped(a.as, id, i)]
  <2>1. existing \subseteq DOMAIN a.rows /\ (existing # {} => merge)
    OBVIOUS
  <2>2. b \in IF existing = {}
              THEN {[rows |-> Append(a.rows, sender), as |-> Mapped(a.as, id, Len(a.rows) + 1)]}
              ELSE {[rows |-> other(i), as |-> Mapped(a.as, id, i)] : i \in existing}
    BY DEF SenderFor
  <2> HIDE DEF existing, other
  <2> QED
    BY <2>1, <2>2
<1>2. CASE b = [rows |-> Append(a.rows, sender), as |-> Mapped(a.as, id, Len(a.rows) + 1)]
  <2>1. /\ b.rows \in Seq(SenderType) /\ Len(b.rows) = Len(a.rows) + 1
    BY <1>0, <1>2
  <2>2. /\ DOMAIN b.as = D \cup {id} /\ b.as[id] = Len(a.rows) + 1
        /\ \A x \in D : b.as[x] = a.as[x] /\ b.as[x] \in 1..Len(a.rows)
        /\ b.as = [x \in D \cup {id} |-> b.as[x]]
    BY <1>0, <1>2 DEF Mapped
  <2>3. \A x \in D : b.as[x] # b.as[id]
    BY <1>0, <2>2
  <2>4. b.as \in [D \cup {id} -> 1..Len(b.rows)]
    BY <1>0, <2>1, <2>2
  <2>5. ~merge => \A x, y \in D \cup {id} : b.as[x] = b.as[y] => x = y
    BY <2>2, <2>3 DEF SendersKnown
  <2>6. Len(b.rows) >= Len(senderRows)
    BY <1>0, <2>1
  <2> QED
    BY <2>1, <2>4, <2>5, <2>6 DEF SendersKnown
<1>3. ASSUME merge, NEW i \in DOMAIN a.rows, b = [rows |-> other(i), as |-> Mapped(a.as, id, i)]
      PROVE  SendersKnown(b, D \cup {id}, merge)
  <2>1. a.rows[i] \in SenderType
    BY <1>0
  <2>2. PICK row : row = [a.rows[i] EXCEPT !.external = sender.external]
    OBVIOUS
  <2>3. row \in SenderType
    BY <2>1, <2>2 DEF SenderType
  <2>4. b.rows = [a.rows EXCEPT ![i] = row] \/ b.rows = a.rows
    BY <1>0, <1>3, <2>2
  <2>5. b.rows \in Seq(SenderType) /\ Len(b.rows) = Len(a.rows)
    BY <1>0, <2>3, <2>4
  <2>6. b.as \in [D \cup {id} -> 1..Len(b.rows)]
    <3>1. b.as = Mapped(a.as, id, i)
      BY <1>3
    <3>2. \A x \in D \cup {id} : b.as[x] \in 1..Len(a.rows)
      BY <1>0, <3>1 DEF Mapped
    <3>3. b.as = [x \in D \cup {id} |-> b.as[x]]
      BY <1>0, <3>1 DEF Mapped
    <3> QED
      BY <2>5, <3>2, <3>3
  <2> QED
    BY <1>0, <1>3, <2>5, <2>6 DEF SendersKnown
<1> HIDE DEF other
<1> QED
  BY <1>1, <1>2, <1>3

\* All senders of a section are mapped to rows.
LEMMA SendersAre ==
  ASSUME senderRows \in Seq(SenderType), NEW merge \in BOOLEAN,
         NEW section \in Sections, WellMade(section), NEW a \in SendersFor(merge, section.senders)
  PROVE  SendersKnown(a, DOMAIN section.senders, merge)
<1>1. PICK senders, S : senders = section.senders /\ S = DOMAIN section.senders
  OBVIOUS
<1>2. IsFiniteSet(S) /\ S \subseteq Nat /\ \A x \in S : senders[x] \in SenderType
  BY <1>1 DEF Sections, WellMade
<1>3. PICK seq, N : seq = Ascending(S) /\ N = Cardinality(S)
  OBVIOUS
<1>4. /\ N \in Nat /\ seq \in Seq(S) /\ DOMAIN seq = 1..N
      /\ \A i \in 1..N : seq[i] \in S /\ PlaceIn(S, seq[i]) = i
      /\ \A x \in S : PlaceIn(S, x) \in 1..N /\ seq[PlaceIn(S, x)] = x
  <2>1. /\ N \in Nat /\ Ascending(S) \in Seq(S) /\ Len(Ascending(S)) = N
        /\ \A x \in S : PlaceIn(S, x) \in 1..N /\ Ascending(S)[PlaceIn(S, x)] = x
        /\ \A i \in 1..N : Ascending(S)[i] \in S /\ PlaceIn(S, Ascending(S)[i]) = i
    BY <1>2, <1>3, AscendingIs
  <2>2. seq \in Seq(S) /\ Len(seq) = N
    BY <1>3, <2>1
  <2>3. DOMAIN seq = 1..N
    BY <2>2
  <2> QED
    BY <1>3, <2>1, <2>2, <2>3
<1>5. PICK v : SenderTrace(v, N, merge, senders, seq)
  <2>1. seq = Ascending(DOMAIN senders) /\ DOMAIN seq = 1..N /\ N \in Nat
    BY <1>1, <1>3, <1>4
  <2> QED
    BY <2>1, SenderSteps
<1> DEFINE D(n) == {seq[i] : i \in 1..n}
           Good(n) == \A x \in v[n] : SendersKnown(x, D(n), merge)
           T == {n \in 0..N : ~ Good(n)}
<1>6. Good(0)
  <2>1. D(0) = {}
    OBVIOUS
  <2>2. PICK x : x = [rows |-> senderRows, as |-> <<>>]
    OBVIOUS
  <2>3. SendersKnown(x, {}, merge)
    BY <2>2 DEF SendersKnown
  <2> QED
    BY <1>5, <2>1, <2>2, <2>3 DEF FirstSender, SenderTrace
<1>7. ASSUME NEW n \in 1..N, Good(n - 1) PROVE Good(n)
  <2>1. D(n) = D(n - 1) \cup {seq[n]}
    <3>1. 1..n = 1..(n - 1) \cup {n}
      BY <1>4
    <3> QED
      BY <3>1
  <2>2. seq[n] \notin D(n - 1)
    <3>1. \A i \in 1..(n - 1) : i \in 1..N /\ i # n
      BY <1>4
    <3> QED
      BY <1>4, <3>1
  <2>3. seq[n] \in S /\ senders[seq[n]] \in SenderType
    BY <1>2, <1>4
  <2> HIDE DEF D
  <2>4. ASSUME NEW b \in v[n] PROVE SendersKnown(b, D(n), merge)
    <3>1. PICK x \in v[n - 1] : b \in SenderFor(merge, seq[n], senders[seq[n]], x)
      BY <1>5, <2>4 DEF NextSender, SenderTrace
    <3>2. SendersKnown(x, D(n - 1), merge)
      BY <1>7
    <3> QED
      BY <2>1, <2>2, <2>3, <3>1, <3>2, OneSender
  <2> QED
    BY <2>4
<1> HIDE DEF Good
<1>8. T = {}
  <2> SUFFICES ASSUME T # {} PROVE FALSE
    OBVIOUS
  <2>1. PICK n \in T : \A m \in T : n <= m
    <3>1. T \subseteq Nat
      OBVIOUS
    <3> HIDE DEF T
    <3> QED
      BY <3>1, LeastOf
  <2>2. n \in 0..N /\ ~ Good(n) /\ n # 0
    BY <1>6, <2>1
  <2>3. n \in 1..N /\ n - 1 \in 0..N /\ ~ (n <= n - 1)
    BY <1>4, <2>2
  <2>4. Good(n - 1)
    BY <2>1, <2>3
  <2> QED
    BY <1>7, <2>2, <2>3, <2>4
<1>9. Good(N)
  BY <1>4, <1>8
<1>10. D(N) = S
  BY <1>4
<1> HIDE DEF D
<1> QED
  BY <1>1, <1>5, <1>9, <1>10 DEF Good, SenderTrace

\* More rows at the end of a list.
LEMMA SomeAppended ==
  ASSUME NEW R, NEW list \in Seq(R), NEW n \in Nat, NEW more \in [1..n -> R]
  PROVE  /\ list \o more \in Seq(R) /\ Len(list) \in Nat /\ DOMAIN list = 1..Len(list)
         /\ DOMAIN (list \o more) = 1..(Len(list) + n)
         /\ \A i \in DOMAIN list : i \in DOMAIN (list \o more) /\ (list \o more)[i] = list[i]
         /\ \A i \in 1..n : /\ Len(list) + i \in DOMAIN (list \o more) \ DOMAIN list
                            /\ (list \o more)[Len(list) + i] = more[i]
         /\ \A k \in DOMAIN (list \o more) \ DOMAIN list : \E i \in 1..n : k = Len(list) + i
<1>1. more \in Seq(R) /\ Len(more) = n
  OBVIOUS
<1>2. Len(list) \in Nat /\ DOMAIN list = 1..Len(list)
  OBVIOUS
<1>3. list \o more \in Seq(R) /\ Len(list \o more) = Len(list) + n
  BY <1>1
<1>4. DOMAIN (list \o more) = 1..(Len(list) + n)
  BY <1>2, <1>3
<1>5. \A i \in 1..(Len(list) + n) :
        (list \o more)[i] = IF i <= Len(list) THEN list[i] ELSE more[i - Len(list)]
  BY <1>1, <1>2
<1>6. \A i \in DOMAIN list : i \in 1..(Len(list) + n) /\ i <= Len(list)
  BY <1>2
<1>7. \A i \in 1..n : /\ Len(list) + i \in 1..(Len(list) + n) /\ Len(list) + i \notin 1..Len(list)
                      /\ ~ (Len(list) + i <= Len(list)) /\ (Len(list) + i) - Len(list) = i
  BY <1>2
<1>8. \A k \in 1..(Len(list) + n) : k \notin 1..Len(list) => k - Len(list) \in 1..n /\ k = Len(list) + (k - Len(list))
  BY <1>2
<1> QED
  BY <1>2, <1>3, <1>4, <1>5, <1>6, <1>7, <1>8

\* A section imported is a whole copy, and the ones before it stay whole.
LEMMA ImportSectionIs == ASSUME TransferInv, ImportSection PROVE TransferInv'
<1>1. TransferTyped /\ TransferTypeOK /\ FilesReadable
  BY DEF TransferInv
<1>2. /\ upload # NoUpload /\ upload \in [file : Files, merge : BOOLEAN, left : Seq(Sections)]
      /\ upload.left # <<>> /\ \A i \in 1..Len(upload.left) : WellMade(upload.left[i])
  BY <1>1 DEF ImportSection, TransferTyped, TransferTypeOK, FilesReadable
<1> DEFINE section == Head(upload.left)
           topicList == Ascending(section.topics)
           ids == Ascending({m.id : m \in section.messages})
           list == [i \in DOMAIN ids |-> CHOOSE m \in section.messages : m.id = ids[i]]
           topicAs(t) == IF t \in section.topics THEN Len(topicRows) + PlaceIn(section.topics, t) ELSE 0
<1>3. section = Head(upload.left)
  OBVIOUS
<1>4. section \in Sections /\ WellMade(section)
  <2>1. upload.left \in Seq(Sections)
    BY <1>2
  <2>2. Head(upload.left) = upload.left[1] /\ 1 \in 1..Len(upload.left) /\ Head(upload.left) \in Sections
    BY <1>2, <2>1, HeadTailProperties
  <2> QED
    BY <1>2, <1>3, <2>2
<1>5. topicList = Ascending(section.topics) /\ ids = Ascending({m.id : m \in section.messages})
  OBVIOUS
<1>6. list = [i \in DOMAIN ids |-> CHOOSE m \in section.messages : m.id = ids[i]]
  OBVIOUS
<1>7. PICK a \in SendersFor(upload.merge, section.senders) :
        /\ sessionRows' = Append(sessionRows,
             SessionRow([file |-> upload.file, merge |-> upload.merge, section |-> section]))
        /\ senderRows' = a.rows
        /\ topicRows' = topicRows \o [i \in DOMAIN topicList |-> TopicRow(Len(sessionRows) + 1, topicList[i])]
        /\ messageRows' = messageRows \o [i \in DOMAIN list |->
             MessageRow(Len(sessionRows) + 1, topicAs(list[i].topic),
                        IF list[i].sender = 0 THEN 0 ELSE a.as[list[i].sender],
                        list[i].id)]
  BY DEF ImportSection
<1> HIDE DEF section, topicList, ids, list
<1>next. PICK s : s = Len(sessionRows) + 1
  OBVIOUS
<1>8. /\ upload' = IF Len(upload.left) = 1 THEN NoUpload ELSE [upload EXCEPT !.left = Tail(@)]
      /\ UNCHANGED export
  BY DEF ImportSection
<1>9. SendersKnown(a, DOMAIN section.senders, upload.merge)
  BY <1>1, <1>2, <1>4, SendersAre DEF TransferTyped
\* The rows made.
<1>10. PICK origin : origin = [file |-> upload.file, merge |-> upload.merge, section |-> section]
  OBVIOUS
<1>11. origin \in Origins /\ origin.section = section /\ origin.merge = upload.merge
  BY <1>2, <1>4, <1>10 DEF Origins
<1>12. PICK row : row = SessionRow(origin)
  OBVIOUS
<1>13. row \in SessionRows /\ row.from = origin
  BY <1>11, <1>12 DEF SessionRow, SessionRows
<1>14. /\ Len(sessionRows) \in Nat /\ s \in Nat /\ DOMAIN sessionRows = 1..Len(sessionRows) /\ s \notin DOMAIN sessionRows
       /\ sessionRows' \in Seq(SessionRows) /\ sessionRows'[s] = row /\ s \in DOMAIN sessionRows'
       /\ \A x \in DOMAIN sessionRows : x \in DOMAIN sessionRows' /\ sessionRows'[x] = sessionRows[x]
       /\ \A x \in DOMAIN sessionRows' : x \in DOMAIN sessionRows \/ x = s
  <2>1. sessionRows \in Seq(SessionRows) /\ sessionRows' = Append(sessionRows, row)
    BY <1>1, <1>7, <1>10, <1>12 DEF TransferTyped, SessionRows
  <2> QED
    BY <1>13, <1>next, <2>1, OneAppended
<1>15. /\ a.rows \in Seq(SenderType) /\ senderRows' = a.rows /\ Len(a.rows) \in Nat
       /\ DOMAIN senderRows' = 1..Len(a.rows) /\ DOMAIN senderRows \subseteq DOMAIN senderRows'
       /\ a.as \in [DOMAIN section.senders -> 1..Len(a.rows)]
  BY <1>1, <1>7, <1>9, RowsAre DEF SendersKnown
\* The topics.
<1>16. PICK T, nt : T = section.topics /\ nt = Cardinality(T)
  OBVIOUS
<1>17. T \subseteq Nat /\ IsFiniteSet(T) /\ 0 \notin T
  BY <1>4, <1>16 DEF Sections, WellMade
<1>18. /\ nt \in Nat /\ DOMAIN topicList = 1..nt /\ \A i \in 1..nt : topicList[i] \in T
       /\ \A x \in T : PlaceIn(T, x) \in 1..nt /\ topicList[PlaceIn(T, x)] = x
  <2>1. /\ nt \in Nat /\ Ascending(T) \in Seq(T) /\ Len(Ascending(T)) = nt
        /\ \A x \in T : PlaceIn(T, x) \in 1..nt /\ Ascending(T)[PlaceIn(T, x)] = x
        /\ \A i \in 1..nt : Ascending(T)[i] \in T
    BY <1>16, <1>17, AscendingIs
  <2>2. topicList = Ascending(T)
    BY <1>5, <1>16
  <2>3. DOMAIN topicList = 1..nt
    BY <2>1, <2>2
  <2> QED
    BY <2>1, <2>2, <2>3
<1>19. PICK newTopics : newTopics = [i \in DOMAIN topicList |-> TopicRow(Len(sessionRows) + 1, topicList[i])]
  OBVIOUS
<1>20. /\ newTopics \in [1..nt -> TopicRows]
       /\ \A i \in 1..nt : newTopics[i].session = s /\ newTopics[i].copyOf = topicList[i]
  BY <1>14, <1>17, <1>18, <1>19, <1>next DEF TopicRow, TopicRows
<1>21. topicRows \in Seq(TopicRows) /\ topicRows' = topicRows \o newTopics
  BY <1>1, <1>7, <1>19 DEF TransferTyped, TopicRows
<1>22. /\ topicRows' \in Seq(TopicRows) /\ Len(topicRows) \in Nat /\ DOMAIN topicRows = 1..Len(topicRows)
       /\ DOMAIN topicRows' = 1..(Len(topicRows) + nt)
       /\ \A i \in DOMAIN topicRows : i \in DOMAIN topicRows' /\ topicRows'[i] = topicRows[i]
       /\ \A i \in 1..nt : Len(topicRows) + i \in DOMAIN topicRows' /\ topicRows'[Len(topicRows) + i] = newTopics[i]
       /\ \A k \in DOMAIN topicRows' : k \notin DOMAIN topicRows => topicRows'[k].session = s
  <2>1. PICK more : more = newTopics
    OBVIOUS
  <2>2. nt \in Nat /\ more \in [1..nt -> TopicRows] /\ topicRows \in Seq(TopicRows)
    BY <1>18, <1>20, <1>21, <2>1
  <2>3. /\ topicRows \o more \in Seq(TopicRows) /\ Len(topicRows) \in Nat /\ DOMAIN topicRows = 1..Len(topicRows)
        /\ DOMAIN (topicRows \o more) = 1..(Len(topicRows) + nt)
        /\ \A i \in DOMAIN topicRows :
             i \in DOMAIN (topicRows \o more) /\ (topicRows \o more)[i] = topicRows[i]
        /\ \A i \in 1..nt : /\ Len(topicRows) + i \in DOMAIN (topicRows \o more) \ DOMAIN topicRows
                            /\ (topicRows \o more)[Len(topicRows) + i] = more[i]
        /\ \A k \in DOMAIN (topicRows \o more) \ DOMAIN topicRows : \E i \in 1..nt : k = Len(topicRows) + i
    BY <2>2, SomeAppended
  <2>4. topicRows' = topicRows \o more
    BY <1>21, <2>1
  <2>5. PICK rows : rows = topicRows \o more
    OBVIOUS
  <2>6. \A k \in DOMAIN rows \ DOMAIN topicRows : rows[k].session = s
    <3> TAKE k \in DOMAIN rows \ DOMAIN topicRows
    <3>1. PICK i \in 1..nt : k = Len(topicRows) + i
      BY <2>3, <2>5
    <3>2. rows[k] = newTopics[i]
      BY <2>1, <2>3, <2>5, <3>1
    <3> QED
      BY <1>20, <3>2
  <2> QED
    BY <2>1, <2>3, <2>4, <2>5, <2>6
<1>23. ASSUME NEW t
       PROVE  /\ topicAs(t) \in {0} \cup DOMAIN topicRows' /\ topicAs(t) \in Nat
              /\ topicAs(t) = 0 => t \notin T
              /\ topicAs(t) # 0 => /\ topicRows'[topicAs(t)].session = s
                                   /\ topicRows'[topicAs(t)].copyOf = t
  <2>1. CASE t \in T
    <3>1. PICK i \in 1..nt : i = PlaceIn(T, t) /\ topicList[i] = t
      BY <1>18, <2>1
    <3>2. topicAs(t) = Len(topicRows) + i
      BY <1>16, <2>1, <3>1
    <3>3. Len(topicRows) + i # 0 /\ Len(topicRows) + i \in Nat
      BY <1>18, <1>22
    <3> HIDE DEF topicAs
    <3> QED
      BY <1>20, <1>22, <3>1, <3>2, <3>3
  <2>2. CASE t \notin T
    BY <1>16, <2>2
  <2> QED
    BY <2>1, <2>2
<1> HIDE DEF topicAs
\* The messages.
<1>24. PICK M, I, nm : M = section.messages /\ I = {m.id : m \in M} /\ nm = Cardinality(I)
  OBVIOUS
<1>25. /\ IsFiniteSet(M) /\ M \subseteq [id : Nat, topic : Nat, sender : Nat]
       /\ \A m \in M : m.id \in Nat /\ m.id # 0 /\ m.sender \in {0} \cup DOMAIN section.senders
       /\ \A m, n \in M : m.id = n.id => m = n
       /\ 0 \notin DOMAIN section.senders
  BY <1>4, <1>24 DEF Sections, WellMade
<1>26. IsFiniteSet(I) /\ I \subseteq Nat
  <2> DEFINE b == [m \in M |-> m.id]
  <2>1. b \in Surjection(M, I)
    BY <1>24 DEF Surjection
  <2> QED
    BY <1>24, <1>25, <2>1, FS_Surjection
<1>27. /\ nm \in Nat /\ DOMAIN ids = 1..nm /\ \A i \in 1..nm : ids[i] \in I /\ PlaceIn(I, ids[i]) = i
       /\ \A x \in I : PlaceIn(I, x) \in 1..nm /\ ids[PlaceIn(I, x)] = x
  <2>1. /\ nm \in Nat /\ Ascending(I) \in Seq(I) /\ Len(Ascending(I)) = nm
        /\ \A x \in I : PlaceIn(I, x) \in 1..nm /\ Ascending(I)[PlaceIn(I, x)] = x
        /\ \A i \in 1..nm : Ascending(I)[i] \in I /\ PlaceIn(I, Ascending(I)[i]) = i
    BY <1>24, <1>26, AscendingIs
  <2>2. ids = Ascending(I)
    BY <1>5, <1>24
  <2>3. DOMAIN ids = 1..nm
    BY <2>1, <2>2
  <2> QED
    BY <2>1, <2>2, <2>3
<1>28. /\ DOMAIN list = 1..nm /\ \A i \in 1..nm : list[i] \in M /\ list[i].id = ids[i]
       /\ \A m \in M : \E i \in 1..nm : list[i] = m
       /\ \A i, j \in 1..nm : list[i].id = list[j].id => i = j
  <2>1. DOMAIN list = 1..nm /\ \A i \in 1..nm : list[i] = CHOOSE m \in M : m.id = ids[i]
    BY <1>6, <1>24, <1>27
  <2>2. \A i \in 1..nm : \E m \in M : m.id = ids[i]
    BY <1>24, <1>27
  <2>3. \A i \in 1..nm : list[i] \in M /\ list[i].id = ids[i]
    BY <2>1, <2>2
  <2>4. ASSUME NEW m \in M PROVE \E i \in 1..nm : list[i] = m
    <3>1. PICK i \in 1..nm : ids[i] = m.id
      BY <1>24, <1>27
    <3> QED
      BY <1>25, <2>3, <3>1
  <2>5. ASSUME NEW i \in 1..nm, NEW j \in 1..nm, list[i].id = list[j].id PROVE i = j
    BY <1>27, <2>3, <2>5
  <2> QED
    BY <2>1, <2>3, <2>4, <2>5
<1> DEFINE senderAs(n) == IF n = 0 THEN 0 ELSE a.as[n]
<1>29. ASSUME NEW m \in M
       PROVE  senderAs(m.sender) \in {0} \cup DOMAIN senderRows' /\ senderAs(m.sender) \in Nat
  BY <1>15, <1>25
<1>30. ASSUME NEW m \in M, NEW n \in M, ~ upload.merge, m.sender # n.sender
       PROVE  senderAs(m.sender) # senderAs(n.sender)
  <2>1. \A x, y \in DOMAIN section.senders : a.as[x] = a.as[y] => x = y
    BY <1>9, <1>30 DEF SendersKnown
  <2>2. \A x \in DOMAIN section.senders : a.as[x] # 0 /\ x # 0
    BY <1>15, <1>25
  <2> QED
    BY <1>25, <1>30, <2>1, <2>2
<1>31. PICK newMessages : newMessages = [i \in DOMAIN list |->
             MessageRow(Len(sessionRows) + 1, topicAs(list[i].topic),
                        IF list[i].sender = 0 THEN 0 ELSE a.as[list[i].sender],
                        list[i].id)]
  OBVIOUS
<1>32. \A i \in 1..nm : newMessages[i] = MessageRow(s, topicAs(list[i].topic), senderAs(list[i].sender), list[i].id)
  BY <1>28, <1>31, <1>next
<1> HIDE DEF senderAs
<1>33. ASSUME NEW i \in 1..nm
       PROVE  /\ newMessages[i] \in MessageRows /\ newMessages[i].session = s
              /\ newMessages[i].copyOf = list[i].id /\ newMessages[i].sender = senderAs(list[i].sender)
              /\ newMessages[i].topic = topicAs(list[i].topic)
  <2>1. list[i] \in M /\ list[i].id \in Nat
    BY <1>25, <1>28
  <2>2. PICK t \in Nat, n \in Nat : t = topicAs(list[i].topic) /\ n = senderAs(list[i].sender)
    BY <1>23, <1>29, <2>1
  <2>3. newMessages[i] = MessageRow(s, t, n, list[i].id)
    BY <1>32, <2>2
  <2> QED
    BY <1>14, <2>1, <2>2, <2>3 DEF MessageRow, MessageRows
<1>34. newMessages \in [1..nm -> MessageRows]
  <2>1. DOMAIN newMessages = 1..nm /\ newMessages = [i \in DOMAIN newMessages |-> newMessages[i]]
    BY <1>28, <1>31
  <2> QED
    BY <1>33, <2>1
<1>35. messageRows \in Seq(MessageRows) /\ messageRows' = messageRows \o newMessages
  BY <1>1, <1>7, <1>31 DEF TransferTyped, MessageRows
<1>36. /\ messageRows' \in Seq(MessageRows)
       /\ \A i \in DOMAIN messageRows : i \in DOMAIN messageRows' /\ messageRows'[i] = messageRows[i]
       /\ \A i \in 1..nm : /\ Len(messageRows) + i \in DOMAIN messageRows' \ DOMAIN messageRows
                           /\ messageRows'[Len(messageRows) + i] = newMessages[i]
       /\ \A k \in DOMAIN messageRows' \ DOMAIN messageRows : \E i \in 1..nm : k = Len(messageRows) + i
  <2>1. PICK more : more = newMessages
    OBVIOUS
  <2>2. nm \in Nat /\ more \in [1..nm -> MessageRows] /\ messageRows \in Seq(MessageRows)
    BY <1>27, <1>34, <1>35, <2>1
  <2>3. /\ messageRows \o more \in Seq(MessageRows)
        /\ \A i \in DOMAIN messageRows :
             i \in DOMAIN (messageRows \o more) /\ (messageRows \o more)[i] = messageRows[i]
        /\ \A i \in 1..nm : /\ Len(messageRows) + i \in DOMAIN (messageRows \o more) \ DOMAIN messageRows
                            /\ (messageRows \o more)[Len(messageRows) + i] = more[i]
        /\ \A k \in DOMAIN (messageRows \o more) \ DOMAIN messageRows :
             \E i \in 1..nm : k = Len(messageRows) + i
    BY <2>2, SomeAppended
  <2>4. messageRows' = messageRows \o more
    BY <1>35, <2>1
  <2> QED
    BY <2>1, <2>3, <2>4
\* The invariant.
<1>37. TransferTyped'
  <2>1. upload' # NoUpload => upload' \in [file : Files, merge : BOOLEAN, left : Seq(Sections)]
    <3>1. Tail(upload.left) \in Seq(Sections)
      BY <1>2, HeadTailProperties
    <3> QED
      BY <1>2, <1>8, <3>1
  <2> QED
    BY <1>1, <1>8, <1>14, <1>15, <1>22, <1>36, <2>1 DEF TransferTyped, SessionRows, TopicRows, MessageRows
<1>38. upload' # NoUpload => /\ upload'.left = Tail(upload.left) /\ Len(upload.left) # 1
  BY <1>2, <1>8
<1>39. FilesReadable'
  <2>1. upload.left \in Seq(Sections) /\ Len(upload.left) \in Nat
    BY <1>2
  <2>2. /\ Len(Tail(upload.left)) = Len(upload.left) - 1
        /\ \A i \in 1..(Len(upload.left) - 1) : Tail(upload.left)[i] = upload.left[i + 1]
    BY <1>2, <2>1, HeadTailProperties
  <2>3. \A i \in 1..(Len(upload.left) - 1) : i + 1 \in 1..Len(upload.left)
    BY <2>1
  <2> QED
    BY <1>1, <1>2, <1>8, <1>38, <2>2, <2>3 DEF FilesReadable
<1>40. TransferTypeOK'
  <2>1. \A t \in DOMAIN topicRows' : topicRows'[t].session \in DOMAIN sessionRows'
    BY <1>1, <1>14, <1>22 DEF TransferTypeOK
  <2>2. \A m \in DOMAIN messageRows' :
          /\ messageRows'[m].session \in DOMAIN sessionRows'
          /\ messageRows'[m].topic \in {0} \cup DOMAIN topicRows'
          /\ messageRows'[m].sender \in {0} \cup DOMAIN senderRows'
    <3> TAKE m \in DOMAIN messageRows'
    <3>1. CASE m \in DOMAIN messageRows
      BY <1>1, <1>14, <1>15, <1>22, <1>36, <3>1 DEF TransferTypeOK
    <3>2. CASE m \notin DOMAIN messageRows
      <4>1. PICK i \in 1..nm : messageRows'[m] = newMessages[i]
        BY <1>36, <3>2
      <4> QED
        BY <1>14, <1>23, <1>28, <1>29, <1>33, <4>1
    <3> QED
      BY <3>1, <3>2
  <2>3. upload' # NoUpload => upload'.left # <<>>
    <3>1. upload.left \in Seq(Sections) /\ upload.left # <<>>
      BY <1>2
    <3>2. Len(upload.left) # 1 => Tail(upload.left) # <<>>
      <4>1. Len(Tail(upload.left)) = Len(upload.left) - 1 /\ Len(upload.left) \in Nat
        BY <3>1, HeadTailProperties
      <4>2. Len(upload.left) # 1 => Len(Tail(upload.left)) # 0
        BY <4>1
      <4> QED
        BY <4>2
    <3> QED
      BY <1>38, <3>2
  <2> QED
    BY <2>1, <2>2, <2>3 DEF TransferTypeOK
<1>41. ASSUME NEW x \in DOMAIN sessionRows PROVE RowsKept(x)
  <2>1. \A m \in DOMAIN messageRows' \ DOMAIN messageRows : messageRows'[m].session = s
    BY <1>33, <1>36
  <2>2. x # s
    BY <1>14
  <2> QED
    BY <1>22, <1>36, <2>1, <2>2 DEF RowsKept
<1>42. Imported(s)'
  <2>1. sessionRows'[s].from = origin
    BY <1>13, <1>14
  <2>2. /\ \A k \in Copies(s)' : \E i \in 1..nm : k = Len(messageRows) + i /\ messageRows'[k] = newMessages[i]
        /\ \A i \in 1..nm : Len(messageRows) + i \in Copies(s)' /\ messageRows'[Len(messageRows) + i] = newMessages[i]
    <3>1. \A k \in Copies(s)' : k \in DOMAIN messageRows' \ DOMAIN messageRows
      <4>1. \A k \in DOMAIN messageRows : messageRows'[k].session # s
        BY <1>1, <1>14, <1>36 DEF TransferTypeOK
      <4> QED
        BY <4>1 DEF Copies
    <3>2. \A i \in 1..nm : newMessages[i].copyOf # 0 /\ newMessages[i].session = s
      BY <1>25, <1>28, <1>33
    <3>3. ASSUME NEW i \in 1..nm
          PROVE  Len(messageRows) + i \in Copies(s)' /\ messageRows'[Len(messageRows) + i] = newMessages[i]
      <4>1. PICK k : k = Len(messageRows) + i
        OBVIOUS
      <4>2. k \in DOMAIN messageRows' /\ messageRows'[k] = newMessages[i]
        BY <1>36, <4>1
      <4>3. k \in Copies(s)'
        BY <3>2, <4>2 DEF Copies
      <4> QED
        BY <4>1, <4>2, <4>3
    <3>4. ASSUME NEW k \in Copies(s)'
          PROVE  \E i \in 1..nm : k = Len(messageRows) + i /\ messageRows'[k] = newMessages[i]
      BY <1>36, <3>1
    <3> QED
      BY <3>3, <3>4
  <2>3. \A k \in Copies(s)' : \E m \in M : messageRows'[k].copyOf = m.id
    BY <1>28, <1>33, <2>2
  <2>4. \A m \in M : \E k \in Copies(s)' : messageRows'[k].copyOf = m.id
    BY <1>28, <1>33, <2>2
  <2>5. \A k, l \in Copies(s)' : messageRows'[k].copyOf = messageRows'[l].copyOf => k = l
    BY <1>28, <1>33, <2>2
  <2>6. ASSUME NEW m \in M, NEW k \in Copies(s)', messageRows'[k].copyOf = m.id
        PROVE  messageRows'[k].topic = topicAs(m.topic) /\ messageRows'[k].sender = senderAs(m.sender)
    <3>1. PICK i \in 1..nm : messageRows'[k] = newMessages[i]
      BY <2>2
    <3>2. list[i] = m
      BY <1>25, <1>28, <1>33, <2>6, <3>1
    <3> QED
      BY <1>33, <3>1, <3>2
  <2>7. ASSUME NEW m \in M, NEW k \in Copies(s)', messageRows'[k].copyOf = m.id
        PROVE  TopicKept(s, m, messageRows[k])'
    <3>1. messageRows'[k].topic = topicAs(m.topic)
      BY <2>6, <2>7
    <3>2. CASE topicAs(m.topic) = 0
      <4>1. m.topic \notin sessionRows'[s].from.section.topics
        BY <1>11, <1>16, <1>23, <2>1, <3>2
      <4> QED
        BY <3>1, <3>2, <4>1 DEF TopicKept
    <3>3. CASE topicAs(m.topic) # 0
      BY <1>23, <3>1, <3>3 DEF TopicKept
    <3> QED
      BY <3>2, <3>3
  <2>8. \A m, n \in M : \A k, l \in Copies(s)' :
          messageRows'[k].copyOf = m.id /\ messageRows'[l].copyOf = n.id =>
            /\ m.sender = n.sender => messageRows'[k].sender = messageRows'[l].sender
            /\ ~upload.merge /\ m.sender # n.sender => messageRows'[k].sender # messageRows'[l].sender
    BY <1>30, <2>6
  <2>9. WellMade(section)
    BY <1>4
  <2> QED
    BY <1>11, <1>24, <2>1, <2>3, <2>4, <2>5, <2>7, <2>8, <2>9 DEF Imported
<1> QED
  BY <1>14, <1>37, <1>39, <1>40, <1>41, <1>42, ImportedKept DEF TransferInv

\* Every step keeps the invariant,
LEMMA TransferKept == TransferInv /\ [TransferNext]_transferVars => TransferInv'
<1> SUFFICES ASSUME TransferInv, [TransferNext]_transferVars PROVE TransferInv'
  OBVIOUS
<1>1. ASSUME NEW s \in DOMAIN sessionRows, AddTopic(s) \/ AddMessage(s) PROVE TransferInv'
  BY <1>1, AddTopicIs, AddMessageIs
<1>2. ASSUME NEW hard \in BOOLEAN, NEW t \in DOMAIN topicRows, RemoveTopic(t, hard) PROVE TransferInv'
  BY <1>2, RemoveTopicIs
<1>3. ASSUME NEW hard \in BOOLEAN, NEW m \in DOMAIN messageRows, RemoveMessage(m, hard) PROVE TransferInv'
  BY <1>3, RemoveMessageIs
<1>4. ASSUME NEW hard \in BOOLEAN, NEW s \in DOMAIN sessionRows, RemoveSession(s, hard) PROVE TransferInv'
  BY <1>4, RemoveSessionIs
<1>5. ASSUME NEW f \in Files, ExportBegin(f) \/ ReadTopics(f) \/ ReadMessages(f) \/ ImportBegin(f)
      PROVE  TransferInv'
  BY <1>5, ExportBeginIs, ReadTopicsIs, ReadMessagesIs, ImportBeginIs
<1>6. ASSUME ImportSection \/ ImportFails PROVE TransferInv'
  BY <1>6, ImportSectionIs, ImportFailsIs
<1>7. CASE UNCHANGED transferVars
  BY <1>7, NothingHappens
<1> QED
  BY <1>1, <1>2, <1>3, <1>4, <1>5, <1>6, <1>7 DEF TransferNext

\* so it holds throughout.
LEMMA TransferHolds == TransferSpec => []TransferInv
<1> QED
  BY TransferStarts, TransferKept, PTL DEF TransferSpec

\* An imported conversation has each message of its section once, in the copy of its topic,
\* and the senders the import was told to keep apart are apart, whatever was changed between
\* the queries of an export, and however often a section is imported (ImportSection).
THEOREM ImportsAreWhole == TransferSpec => []CopiesAreWhole
<1> QED
  BY TransferHolds, WholeFollows, PTL

\* Rows refer to rows there are, and an import that goes on has sections left.
THEOREM TransferTypeCorrect == TransferSpec => []TransferTypeOK
<1>1. TransferInv => TransferTypeOK
  BY DEF TransferInv
<1> QED
  BY <1>1, TransferHolds, PTL

---------------------------------------------------------------------------
(* The parts of MCConversations together. *)

PartsInv ==
  IInv /\ ChatInv /\ TransferInv /\ FilesInv /\ MessageSearchInv /\ KnowledgeSearchInv

\* A step of one part is a step or a stutter of each.
LEMMA PartsStep ==
  [ConversationsNext]_conversationVars =>
    /\ [Next]_vars /\ [ChatNext]_chatVars /\ [TransferNext]_transferVars /\ [FilesNext]_fileVars
    /\ [MessageSearchNext]_messageSearchVars /\ [KnowledgeSearchNext]_knowledgeSearchVars /\ [ChunkNext]_cut
  BY DEF ConversationsNext, GatewayPart, ChatPart, TransferPart, FilesPart, MessagesPart, KnowledgePart,
         ChunksPart, conversationVars

\* The invariants hold together.
LEMMA PartsKept == PartsInv /\ [ConversationsNext]_conversationVars => PartsInv'
  BY PartsStep, StepInv, ChatKept, TransferKept, FilesKept, MessageSearchKept, KnowledgeSearchKept DEF PartsInv

\* What the run explores implements the specification of each part, so that the theorems
\* about the parts hold of it (MCConversations).
THEOREM ConversationsImplementParts ==
  ConversationsSpec =>
    Spec /\ ChatSpec /\ TransferSpec /\ FilesSpec /\ MessageSearchSpec /\ KnowledgeSearchSpec /\ ChunkSpec
<1>1. ConversationsInit =>
        /\ Init /\ ChatInit /\ TransferInit /\ FilesInit
        /\ MessageSearchInit /\ KnowledgeSearchInit /\ ChunkInit
  BY DEF ConversationsInit
<1> QED
  BY <1>1, PartsStep, PTL DEF ConversationsSpec, Spec, ChatSpec, TransferSpec, FilesSpec, MessageSearchSpec,
     KnowledgeSearchSpec, ChunkSpec

\* The types of all parts hold together, whichever part takes steps (MCConversations).
THEOREM ConversationsTypeCorrect == ConversationsSpec => []ConversationsTypeOK
<1>1. ConversationsInit => PartsInv
  BY InitInv, ChatStarts, TransferStarts, FilesStart, MessageSearchStarts, KnowledgeSearchStarts
     DEF ConversationsInit, PartsInv
<1>2. PartsInv => ConversationsTypeOK
  <2> SUFFICES ASSUME PartsInv PROVE ConversationsTypeOK
    OBVIOUS
  <2>1. TypeOK /\ TransferTypeOK
    BY DEF PartsInv, IInv, TransferInv
  <2>2. ChatTypeOK
    BY DEF PartsInv, ChatInv, ChatTyped, ChatTypeOK
  <2>3. FilesTypeOK
    BY DEF PartsInv, FilesInv, AccessTypeOK, FilesTypeOK, Contents, Waiting, Answered, PutType, DeleteType,
           ListType, MoveType
  <2>4. MessageSearchTypeOK
    <3>1. InboxTyped /\ SearchKnown(finding)
      BY DEF PartsInv, MessageSearchInv
    <3>2. /\ DOMAIN inbox = 1..Len(inbox) /\ DOMAIN indexed = DOMAIN inbox
          /\ \A m \in DOMAIN inbox : inbox[m] \in InboxType
      BY <3>1 DEF InboxTyped
    <3>3. finding \in FindingType /\ ContextsKnown(finding) /\ Progress(finding)
      BY <3>1 DEF SearchKnown
    <3>4. finding.does \in {"idle", "fuzzy", "found", "before", "hit", "done"}
      BY <3>3 DEF FindingType
    <3>5. Len(finding.contexts) <= Len(finding.hits)
      BY <3>3 DEF ContextsKnown
    <3>6. /\ Len(finding.hits) <= 3 * MessageTopK
          /\ finding.near \subseteq DOMAIN inbox /\ finding.there \subseteq DOMAIN inbox
      BY <3>3 DEF Progress
    <3> QED
      BY <3>2, <3>4, <3>5, <3>6 DEF MessageSearchTypeOK, InboxType
  <2>5. KnowledgeSearchTypeOK
    BY DEF PartsInv, KnowledgeSearchInv, ChunksKnown, LookupKnown, LookupType, KnowledgeSearchTypeOK
  <2> QED
    BY <2>1, <2>2, <2>3, <2>4, <2>5 DEF ConversationsTypeOK
<1> QED
  BY <1>1, <1>2, PartsKept, PTL DEF ConversationsSpec
=============================================================================
