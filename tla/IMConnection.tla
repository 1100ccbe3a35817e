---------------------------- MODULE IMConnection ----------------------------
(***************************************************************************)
(* The IM gateway: the connection manager of app/service/im_connection.py  *)
(* with the two kinds of coroutine that run against it on the one asyncio  *)
(* event loop.                                                             *)
(*                                                                         *)
(*   - the WebSocket handler im_gateway_ws of one bridge connection        *)
(*     (app/router/v1/im_gateway.py), one per element of Sockets;          *)
(*   - one call of send_to_bridge, one per element of Requests: the id     *)
(*     uuid4() gives the call is the element itself.                       *)
(*                                                                         *)
(* An action is what a coroutine does from one suspension point to the     *)
(* next.  A dict is a total function whose absent keys map to NoSocket or  *)
(* NoKey.  Pings and malformed frames change nothing here; a frame that    *)
(* raises ends the handler's loop (LeaveLoop).                             *)
(***************************************************************************)
EXTENDS Naturals, FiniteSets

CONSTANTS
  Users,      \* user ids a bridge can authenticate as
  Sources,    \* IM platforms, e.g. "astr_qq"
  Sockets,    \* WebSocket connections over the life of the process
  Requests,   \* calls of send_to_bridge over the life of the process
  NoSocket, NoKey, NoUser, NoSource

Key == Users \X Sources

ASSUME NamesAssumption ==
  /\ NoSocket \notin Sockets
  /\ NoKey \notin Key
  /\ NoUser \notin Users
  /\ NoSource \notin Sources

VARIABLES
  connections,  \* _connections: [Key -> socket registered for the key]
  pending,      \* the keys of _pending_requests
  owner,        \* _request_owners: [Requests -> Key the call was made for]
  future,       \* state of the call's Future
  lock,         \* _lock: the handler that holds it across an await
  pc,           \* where a handler is suspended
  user,         \* the user the handler authenticated
  want,         \* sources the handler still has to connect
  target,       \* the source whose old connection the handler is closing
  registered,   \* registered_sources; during cleanup, those still to be removed
  open,         \* the WebSocket accepts sends
  call,         \* where a call of send_to_bridge is, or how it returned
  via           \* the WebSocket the call looked up

managerVars == <<connections, pending, owner, future, lock>>
handlerVars == <<pc, user, want, target, registered, open>>
callVars    == <<call, via>>
vars        == <<managerVars, handlerVars, callVars>>

Answers  == {"success", "failure"}                       \* raw["success"]
Outcomes == Answers \cup {"no_connection", "disconnected", "timeout", "send_error"}
InFlight == {r \in Requests : call[r] \in {"sending", "waiting"}}
KeyOf(w, s) == <<user[w], s>>

-----------------------------------------------------------------------------
(* Definitions named Faulty... are variants of the definition they precede *)
(* with a plausible fault; nothing uses them.  They serve to show that the *)
(* properties can tell the difference.                                     *)

\* What ?source= may connect up front: nothing, or one source.
FixedSources == {{}} \cup {{s} : s \in Sources}

\* async with self._lock enters without waiting.
LockFree == lock = NoSocket

\* disconnect() compares the owner with the source instead of the key.
FaultyOwnedBy(k) == {r \in Requests : owner[r] = k[2]}

\* Calls whose entry in _request_owners is k.
OwnedBy(k) == {r \in Requests : owner[r] = k}

\* resolve_request without the check of future.done().
FaultyResolvable(r) == r \in pending

\* resolve_request finds a Future it may complete: it is in the table, not done.
Resolvable(r) == r \in pending /\ future[r] = "open"

TypeOK ==
  /\ connections \in [Key -> Sockets \cup {NoSocket}]
  /\ pending \in SUBSET Requests
  /\ owner \in [Requests -> Key \cup {NoKey}]
  /\ future \in [Requests -> Answers \cup {"none", "open", "broken", "cancelled"}]
  /\ lock \in Sockets \cup {NoSocket}
  /\ pc \in [Sockets -> {"new", "loop", "replacing", "cleanup", "gone"}]
  /\ user \in [Sockets -> Users \cup {NoUser}]
  /\ want \in [Sockets -> SUBSET Sources]
  /\ target \in [Sockets -> Sources \cup {NoSource}]
  /\ registered \in [Sockets -> SUBSET Sources]
  /\ open \in [Sockets -> BOOLEAN]
  /\ call \in [Requests -> {"idle", "sending", "waiting"} \cup Outcomes]
  /\ via \in [Requests -> Sockets \cup {NoSocket}]

Init ==
  /\ connections = [k \in Key |-> NoSocket]
  /\ pending = {}
  /\ owner = [r \in Requests |-> NoKey]
  /\ future = [r \in Requests |-> "none"]
  /\ lock = NoSocket
  /\ pc = [w \in Sockets |-> "new"]
  /\ user = [w \in Sockets |-> NoUser]
  /\ want = [w \in Sockets |-> {}]
  /\ target = [w \in Sockets |-> NoSource]
  /\ registered = [w \in Sockets |-> {}]
  /\ open = [w \in Sockets |-> FALSE]
  /\ call = [r \in Requests |-> "idle"]
  /\ via = [r \in Requests |-> NoSocket]

-----------------------------------------------------------------------------
(* The WebSocket handler.                                                  *)

\* _authenticate_ws refuses the token: the handler ends, nothing is registered.
Refuse(w) ==
  /\ pc[w] = "new"
  /\ pc' = [pc EXCEPT ![w] = "gone"]
  /\ UNCHANGED <<managerVars, user, want, target, registered, open, callVars>>

\* Accepted as user u; a fixed ?source= is connected before the loop starts.
Accept(w, u, fixed) ==
  /\ pc[w] = "new"
  /\ pc' = [pc EXCEPT ![w] = "loop"]
  /\ user' = [user EXCEPT ![w] = u]
  /\ want' = [want EXCEPT ![w] = fixed]
  /\ open' = [open EXCEPT ![w] = TRUE]
  /\ UNCHANGED <<managerVars, target, registered, callVars>>

\* A "register" frame, or a "message" frame whose source is new: every source
\* not in registered_sources is connected in turn.
Register(w, sources) ==
  /\ pc[w] = "loop" /\ want[w] = {}
  /\ sources # {} /\ sources \cap registered[w] = {}
  /\ want' = [want EXCEPT ![w] = sources]
  /\ UNCHANGED <<managerVars, pc, user, target, registered, open, callVars>>

\* connect() and registered_sources.add(): the key is free, no await is reached
\* once the lock is granted.
Connect(w, s) ==
  /\ pc[w] = "loop" /\ s \in want[w]
  /\ LockFree
  /\ connections[KeyOf(w, s)] = NoSocket
  /\ connections' = [connections EXCEPT ![KeyOf(w, s)] = w]
  /\ registered' = [registered EXCEPT ![w] = @ \cup {s}]
  /\ want' = [want EXCEPT ![w] = @ \ {s}]
  /\ UNCHANGED <<pending, owner, future, lock, pc, user, target, open, callVars>>

\* connect() finds an old connection and awaits old_ws.close() with the lock held.
CloseOld(w, s) ==
  /\ pc[w] = "loop" /\ s \in want[w]
  /\ LockFree
  /\ connections[KeyOf(w, s)] # NoSocket
  /\ lock' = w
  /\ pc' = [pc EXCEPT ![w] = "replacing"]
  /\ target' = [target EXCEPT ![w] = s]
  /\ open' = [open EXCEPT ![connections[KeyOf(w, s)]] = FALSE]
  /\ UNCHANGED <<connections, pending, owner, future, user, want, registered, callVars>>

\* close() returned or raised: connect() overwrites the entry and lets the lock go.
Replace(w) ==
  LET s == target[w] IN
  /\ pc[w] = "replacing"
  /\ connections' = [connections EXCEPT ![KeyOf(w, s)] = w]
  /\ lock' = NoSocket
  /\ pc' = [pc EXCEPT ![w] = "loop"]
  /\ target' = [target EXCEPT ![w] = NoSource]
  /\ registered' = [registered EXCEPT ![w] = @ \cup {s}]
  /\ want' = [want EXCEPT ![w] = @ \ {s}]
  /\ UNCHANGED <<pending, owner, future, user, open, callVars>>

\* A "result" frame: resolve_request completes the Future of a call that is
\* still pending and not done; otherwise it returns False and changes nothing.
\* The bridge of the user knows the id once the call has started to send.
Resolve(w, r, answer) ==
  /\ pc[w] = "loop" /\ want[w] = {}
  /\ via[r] # NoSocket /\ user[w] = user[via[r]]
  /\ Resolvable(r)
  /\ future' = [future EXCEPT ![r] = answer]
  /\ UNCHANGED <<connections, pending, owner, lock, handlerVars, callVars>>

\* disconnect() that fails the calls but leaves the entry of _connections.
FaultyDisconnectAll(w, sources) ==
  LET failed == UNION {OwnedBy(KeyOf(w, s)) : s \in sources} IN
  /\ pending' = pending \ failed
  /\ owner' = [r \in Requests |-> IF r \in failed THEN NoKey ELSE owner[r]]
  /\ future' = [r \in Requests |->
                  IF r \in failed /\ Resolvable(r) THEN "broken" ELSE future[r]]
  /\ registered' = [registered EXCEPT ![w] = @ \ sources]
  /\ UNCHANGED connections

\* disconnect(user, s) for each s in sources: the key is popped whoever holds it
\* and the Futures of all calls made for it are broken.
DisconnectAll(w, sources) ==
  LET keys == {KeyOf(w, s) : s \in sources}
      failed == UNION {OwnedBy(k) : k \in keys} IN
  /\ connections' = [k \in Key |-> IF k \in keys THEN NoSocket ELSE connections[k]]
  /\ pending' = pending \ failed
  /\ owner' = [r \in Requests |-> IF r \in failed THEN NoKey ELSE owner[r]]
  /\ future' = [r \in Requests |->
                  IF r \in failed /\ Resolvable(r) THEN "broken" ELSE future[r]]
  /\ registered' = [registered EXCEPT ![w] = @ \ sources]

\* The loop ends (the peer went away, the server closed the socket, a frame
\* raised) and the finally clause runs through: it does not wait for the lock.
LeaveLoop(w) ==
  /\ pc[w] = "loop" /\ want[w] = {}
  /\ LockFree \/ registered[w] = {}
  /\ DisconnectAll(w, registered[w])
  /\ pc' = [pc EXCEPT ![w] = "gone"]
  /\ open' = [open EXCEPT ![w] = FALSE]
  /\ UNCHANGED <<lock, user, want, target, callVars>>

\* The loop ends while another handler is closing a connection under the lock.
LeaveLoopAndWait(w) ==
  /\ pc[w] = "loop" /\ want[w] = {}
  /\ ~ LockFree /\ registered[w] # {}
  /\ pc' = [pc EXCEPT ![w] = "cleanup"]
  /\ UNCHANGED <<managerVars, user, want, target, registered, open, callVars>>

\* A waiting disconnect() is granted the lock; after the last source the handler
\* returns and its socket is closed.
Disconnect(w, s) ==
  /\ pc[w] = "cleanup" /\ s \in registered[w]
  /\ LockFree
  /\ DisconnectAll(w, {s})
  /\ pc' = [pc EXCEPT ![w] = IF registered[w] = {s} THEN "gone" ELSE @]
  /\ open' = [open EXCEPT ![w] = @ /\ registered[w] # {s}]
  /\ UNCHANGED <<lock, user, want, target, callVars>>

\* The bridge drops the connection at any time.
PeerClose(w) ==
  /\ open[w]
  /\ open' = [open EXCEPT ![w] = FALSE]
  /\ UNCHANGED <<managerVars, pc, user, want, target, registered, callVars>>

-----------------------------------------------------------------------------
(* send_to_bridge.                                                         *)

\* No connection for the key: ConnectionError at once.
Reject(r, k) ==
  /\ call[r] = "idle"
  /\ connections[k] = NoSocket
  /\ call' = [call EXCEPT ![r] = "no_connection"]
  /\ UNCHANGED <<managerVars, handlerVars, via>>

\* The Future is entered in both tables, then ws.send_json is awaited.
Begin(r, k) ==
  /\ call[r] = "idle"
  /\ connections[k] # NoSocket
  /\ pending' = pending \cup {r}
  /\ owner' = [owner EXCEPT ![r] = k]
  /\ future' = [future EXCEPT ![r] = "open"]
  /\ call' = [call EXCEPT ![r] = "sending"]
  /\ via' = [via EXCEPT ![r] = connections[k]]
  /\ UNCHANGED <<connections, lock, handlerVars>>

\* send_json returned; wait_for starts.
Sent(r) ==
  /\ call[r] = "sending"
  /\ call' = [call EXCEPT ![r] = "waiting"]
  /\ UNCHANGED <<managerVars, handlerVars, via>>

\* The finally clause forgets _request_owners.
FaultyReturn(r, outcome) ==
  /\ pending' = pending \ {r}
  /\ call' = [call EXCEPT ![r] = outcome]
  /\ UNCHANGED <<connections, owner, lock, handlerVars, via>>

\* The finally clause of send_to_bridge and its exit with the given outcome.
Return(r, outcome) ==
  /\ pending' = pending \ {r}
  /\ owner' = [owner EXCEPT ![r] = NoKey]
  /\ call' = [call EXCEPT ![r] = outcome]
  /\ UNCHANGED <<connections, lock, handlerVars, via>>

\* send_json raised on a socket that is closed: the exception passes through.
SendFails(r) ==
  /\ call[r] = "sending"
  /\ ~ open[via[r]]
  /\ Return(r, "send_error")
  /\ UNCHANGED future

\* The state of the Future is returned as it is, a disconnection included.
FaultyAwake(r) ==
  /\ call[r] = "waiting"
  /\ future[r] # "open"
  /\ Return(r, future[r])
  /\ UNCHANGED future

\* wait_for returns the answer, or raises the ConnectionError disconnect() set.
Awake(r) ==
  /\ call[r] = "waiting"
  /\ future[r] # "open"
  /\ Return(r, IF future[r] = "broken" THEN "disconnected" ELSE future[r])
  /\ UNCHANGED future

\* The timer of wait_for fires first: it cancels a Future that is not done, and
\* wins against one completed in the same turn of the loop.
TimeOut(r) ==
  /\ call[r] = "waiting"
  /\ Return(r, "timeout")
  /\ future' = [future EXCEPT ![r] = IF @ = "open" THEN "cancelled" ELSE @]

-----------------------------------------------------------------------------
Handler(w) ==
  \/ Refuse(w)
  \/ \E u \in Users, fixed \in FixedSources : Accept(w, u, fixed)
  \/ \E sources \in SUBSET Sources : Register(w, sources)
  \/ \E s \in Sources : Connect(w, s)
  \/ \E s \in Sources : CloseOld(w, s)
  \/ Replace(w)
  \/ \E r \in Requests, answer \in Answers : Resolve(w, r, answer)
  \/ LeaveLoop(w)
  \/ LeaveLoopAndWait(w)
  \/ \E s \in Sources : Disconnect(w, s)
  \/ PeerClose(w)

Caller(r) ==
  \/ \E k \in Key : Reject(r, k)
  \/ \E k \in Key : Begin(r, k)
  \/ Sent(r)
  \/ SendFails(r)
  \/ Awake(r)
  \/ TimeOut(r)

Next == (\E w \in Sockets : Handler(w)) \/ (\E r \in Requests : Caller(r))

Spec == Init /\ [][Next]_vars

(***************************************************************************)
(* The event loop runs every ready coroutine and hands the lock on when it *)
(* is free (weak fairness is enough: each handler takes the lock a bounded *)
(* number of times); a closed socket ends the receive loop; a send ends,   *)
(* with or without an error.  Nothing is assumed of the bridge's answers,  *)
(* of the peers, nor of the 30 s timer.                                    *)
(***************************************************************************)
Fairness ==
  /\ \A w \in Sockets :
       /\ WF_vars(\E s \in Sources : Connect(w, s) \/ CloseOld(w, s))
       /\ WF_vars(Replace(w))
       /\ WF_vars(~ open[w] /\ (LeaveLoop(w) \/ LeaveLoopAndWait(w)))
       /\ WF_vars(\E s \in Sources : Disconnect(w, s))
  /\ \A r \in Requests : WF_vars(Sent(r) \/ SendFails(r)) /\ WF_vars(Awake(r))

FairSpec == Spec /\ Fairness

-----------------------------------------------------------------------------
(* Properties.                                                             *)

\* Bookkeeping of the handlers: the lock is held exactly by the handler that is
\* replacing, a source is connected at most once by a handler, and a handler that
\* has not begun or has returned owns no source.
HandlersConsistent ==
  \A w \in Sockets :
    /\ pc[w] = "replacing" <=> lock = w
    /\ pc[w] = "replacing" => target[w] \in want[w]
    /\ registered[w] \cap want[w] = {}
    /\ pc[w] \in {"new", "gone"} => registered[w] = {}
    /\ pc[w] \in {"new", "cleanup", "gone"} => want[w] = {}
    /\ pc[w] \in {"loop", "replacing", "cleanup"} => user[w] \in Users

\* The two request tables name the same calls, all of them in flight, and a call
\* that still waits for its Future is in them: a result frame can reach it.
CallTablesConsistent ==
  /\ \A r \in Requests : r \in pending <=> owner[r] # NoKey
  /\ pending \subseteq InFlight
  /\ \A r \in InFlight : future[r] = "open" => r \in pending
  /\ \A r \in Requests :
       /\ future[r] = "none" <=> call[r] \in {"idle", "no_connection"}
       /\ future[r] = "cancelled" => call[r] = "timeout"

\* No call is stranded: while its entry is pending, its key has a connection and
\* the handler of the very socket it was sent over has yet to disconnect the key.
PendingHasHandler ==
  \A r \in pending : \E s \in Sources :
    /\ via[r] \in Sockets
    /\ owner[r] = KeyOf(via[r], s)
    /\ s \in registered[via[r]]
    /\ connections[owner[r]] # NoSocket

\* An entry of _connections never outlives the handler that made it: the handler
\* is of that user and will still disconnect that source.
RegistrationHasHandler ==
  \A u \in Users, s \in Sources :
    connections[<<u, s>>] # NoSocket =>
      LET w == connections[<<u, s>>] IN user[w] = u /\ s \in registered[w]

\* While connect() awaits close() the entry it is about to overwrite stays the old,
\* closed connection: no other handler removes or replaces it under its feet.
ReplacingHoldsEntry ==
  \A w \in Sockets : pc[w] = "replacing" =>
    /\ lock = w
    /\ LET old == connections[KeyOf(w, target[w])]
       IN  old \in Sockets \ {w} /\ ~ open[old]

\* A Future is completed once: an answer, a disconnection or a timeout is never
\* replaced by another (asyncio would raise InvalidStateError).
SettledStays ==
  \A r \in Requests : future[r] \notin {"none", "open"} => future'[r] = future[r]
FutureSettledOnce == [][SettledStays]_vars

\* What holds of every reachable state and is preserved by every step.
IInv ==
  /\ TypeOK
  /\ HandlersConsistent
  /\ CallTablesConsistent
  /\ RegistrationHasHandler
  /\ PendingHasHandler
  /\ ReplacingHoldsEntry

\* disconnect(): a call sent over a socket that has closed ends without the help
\* of the timer, whatever else is connecting or replacing meanwhile.
DeadSocketCallsEnd ==
  \A w \in Sockets, r \in Requests :
    (via[r] = w /\ ~ open[w]) ~> (call[r] \notin {"sending", "waiting"})

\* connect(): "closes the old connection and replaces it" - a bridge whose socket
\* is open and whose handler has registered a source holds the source's key.
ReplacementStaysRegistered ==
  \A w \in Sockets : pc[w] = "loop" /\ open[w] =>
    \A s \in registered[w] : connections[KeyOf(w, s)] = w
=============================================================================
