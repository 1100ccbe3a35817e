---------------------------- MODULE TokenRotation ----------------------------
(***************************************************************************)
(* Refresh tokens of one user: login, refresh and logout of                *)
(* app/service/auth.py, run by threads of the pool on PostgreSQL at READ   *)
(* COMMITTED, and the purge of expired rows by system_cleanup.             *)
(*                                                                         *)
(* row is what has been committed.  A request that meets a row locked by   *)
(* another transaction waits, and then applies its WHERE clause to the     *)
(* row's new version: waiting to enter an action is modelled by its guard. *)
(* The queries name a token or the user, so users do not meet.             *)
(***************************************************************************)
EXTENDS FiniteSets

CONSTANTS
  Tokens,    \* refresh tokens ever issued; the jti makes each one new
  Requests,  \* refresh and logout requests over time
  NoToken, NoRequest

ASSUME NamesAssumption == NoToken \notin Tokens /\ NoRequest \notin Requests

VARIABLES
  row,      \* the token's row in user_token
  expired,  \* tokens past expires_at, which is also the exp of the JWT
  lock,     \* the request whose transaction has locked the row
  pc,       \* how far a request has come
  arg,      \* the token a request was sent with
  todo,     \* rows in the snapshot of a logout's UPDATE, not yet visited
  hit,      \* rows that UPDATE has locked and changed, not yet committed
  parent,   \* history: the token this one was exchanged for
  root,     \* history: the token of the login it descends from
  before    \* history: logins that existed when a logout of all began

requestVars == <<pc, arg, todo, hit, before>>
familyVars  == <<parent, root>>
vars        == <<row, expired, lock, requestVars, familyVars>>

Issued   == {t \in Tokens : row[t] # "unissued"}
Live     == {t \in Tokens : row[t] = "live"}
Unlocked == {t \in Tokens : lock[t] = NoRequest}

TypeOK ==
  /\ row \in [Tokens -> {"unissued", "live", "revoked", "purged"}]
  /\ expired \in SUBSET Tokens
  /\ lock \in [Tokens -> Requests \cup {NoRequest}]
  /\ pc \in [Requests -> {"idle", "rotating", "revoking", "sweeping", "swept",
                          "refused", "failed", "done"}]
  /\ arg \in [Requests -> Tokens \cup {NoToken}]
  /\ todo \in [Requests -> SUBSET Tokens]
  /\ hit \in [Requests -> SUBSET Tokens]
  /\ parent \in [Tokens -> Tokens \cup {NoToken}]
  /\ root \in [Tokens -> Tokens \cup {NoToken}]
  /\ before \in [Requests -> SUBSET Tokens]

Init ==
  /\ row = [t \in Tokens |-> "unissued"]
  /\ expired = {}
  /\ lock = [t \in Tokens |-> NoRequest]
  /\ pc = [q \in Requests |-> "idle"]
  /\ arg = [q \in Requests |-> NoToken]
  /\ todo = [q \in Requests |-> {}]
  /\ hit = [q \in Requests |-> {}]
  /\ parent = [t \in Tokens |-> NoToken]
  /\ root = [t \in Tokens |-> NoToken]
  /\ before = [q \in Requests |-> {}]

-----------------------------------------------------------------------------
\* Definitions named Faulty... are variants, with a plausible fault, of the one they
\* precede; nothing uses them.  They show that the properties can tell.

\* The query without with_for_update().
FaultyGrant(t, q) == lock

\* SELECT ... FOR UPDATE: the row belongs to the request's transaction.
Grant(t, q) == [lock EXCEPT ![t] = q]

\* The transaction of q ends: its locks are gone.
Release(q) == [t \in Tokens |-> IF lock[t] = q THEN NoRequest ELSE lock[t]]

\* Login: create_tokens for a user who has shown the password.
Login(n) ==
  /\ n \notin Issued
  /\ row' = [row EXCEPT ![n] = "live"]
  /\ root' = [root EXCEPT ![n] = n]
  /\ UNCHANGED <<expired, lock, requestVars, parent>>

\* refresh_access_token finds no row that is not revoked, or an expired token.
Refuse(q, t) ==
  /\ pc[q] = "idle" /\ t \in Issued
  /\ row[t] \in {"revoked", "purged"} \/ t \in expired
  /\ pc' = [pc EXCEPT ![q] = "refused"]
  /\ arg' = [arg EXCEPT ![q] = t]
  /\ UNCHANGED <<row, expired, lock, todo, hit, before, familyVars>>

\* refresh_access_token finds the row and locks it.
Find(q, t) ==
  /\ pc[q] = "idle"
  /\ t \in (Live \cap Unlocked) \ expired
  /\ lock' = Grant(t, q)
  /\ pc' = [pc EXCEPT ![q] = "rotating"]
  /\ arg' = [arg EXCEPT ![q] = t]
  /\ UNCHANGED <<row, expired, todo, hit, before, familyVars>>

\* The new token is stored, but revoking the old one is forgotten.
FaultyRotate(q, n) ==
  /\ pc[q] = "rotating" /\ n \notin Issued
  /\ row' = [row EXCEPT ![n] = "live"]
  /\ parent' = [parent EXCEPT ![n] = arg[q]]
  /\ root' = [root EXCEPT ![n] = root[arg[q]]]
  /\ lock' = Release(q)
  /\ pc' = [pc EXCEPT ![q] = "done"]
  /\ UNCHANGED <<expired, arg, todo, hit, before>>

\* The commit in create_tokens writes both: the old token is revoked, its
\* successor is stored.  The row was locked, so it is written as it was read.
Rotate(q, n) ==
  /\ pc[q] = "rotating" /\ n \notin Issued
  /\ row' = [row EXCEPT ![arg[q]] = "revoked", ![n] = "live"]
  /\ parent' = [parent EXCEPT ![n] = arg[q]]
  /\ root' = [root EXCEPT ![n] = root[arg[q]]]
  /\ lock' = Release(q)
  /\ pc' = [pc EXCEPT ![q] = "done"]
  /\ UNCHANGED <<expired, arg, todo, hit, before>>

\* logout(refresh_token): the row is read without a lock; nothing is written later
\* if it is missing or revoked.
LogoutFind(q, t) ==
  /\ pc[q] = "idle" /\ t \in Issued
  /\ pc' = [pc EXCEPT ![q] = IF row[t] = "live" THEN "revoking" ELSE "done"]
  /\ arg' = [arg EXCEPT ![q] = t]
  /\ UNCHANGED <<row, expired, lock, todo, hit, before, familyVars>>

\* Its UPDATE by primary key; when the row was purged meanwhile it raises.
Revoke(q) ==
  LET t == arg[q] IN
  /\ pc[q] = "revoking" /\ t \in Unlocked
  /\ row' = [row EXCEPT ![t] = IF @ = "purged" THEN @ ELSE "revoked"]
  /\ pc' = [pc EXCEPT ![q] = IF row[t] = "purged" THEN "failed" ELSE "done"]
  /\ UNCHANGED <<expired, lock, arg, todo, hit, before, familyVars>>

\* logout() of all tokens: the UPDATE begins and takes its snapshot.
LogoutAll(q) ==
  /\ pc[q] = "idle"
  /\ pc' = [pc EXCEPT ![q] = "sweeping"]
  /\ todo' = [todo EXCEPT ![q] = Live]
  /\ before' = [before EXCEPT ![q] = {root[t] : t \in Issued}]
  /\ UNCHANGED <<row, expired, lock, arg, hit, familyVars>>

\* The UPDATE comes to a row that is free, looks at its present version and changes
\* it if it is still not revoked.
Sweep(q, t) ==
  /\ pc[q] = "sweeping" /\ t \in todo[q] \cap Unlocked
  /\ todo' = [todo EXCEPT ![q] = @ \ {t}]
  /\ IF t \in Live
       THEN lock' = [lock EXCEPT ![t] = q] /\ hit' = [hit EXCEPT ![q] = @ \cup {t}]
       ELSE UNCHANGED <<lock, hit>>
  /\ UNCHANGED <<row, expired, pc, arg, before, familyVars>>

\* The commit of the logout of all.
LogoutAllCommit(q) ==
  /\ pc[q] = "sweeping" /\ todo[q] = {}
  /\ row' = [t \in Tokens |-> IF t \in hit[q] THEN "revoked" ELSE row[t]]
  /\ lock' = Release(q)
  /\ hit' = [hit EXCEPT ![q] = {}]
  /\ pc' = [pc EXCEPT ![q] = "swept"]
  /\ UNCHANGED <<expired, arg, todo, before, familyVars>>

\* The transaction is rolled back: the process dies, the database ends a deadlock, or
\* refresh finds the user inactive.
Rollback(q) ==
  /\ pc[q] \in {"rotating", "revoking", "sweeping"}
  /\ lock' = Release(q)
  /\ hit' = [hit EXCEPT ![q] = {}]
  /\ todo' = [todo EXCEPT ![q] = {}]
  /\ pc' = [pc EXCEPT ![q] = "failed"]
  /\ UNCHANGED <<row, expired, arg, before, familyVars>>

Expire(t) ==
  /\ t \in Issued \ expired
  /\ expired' = expired \cup {t}
  /\ UNCHANGED <<row, lock, requestVars, familyVars>>

\* handle_system_cleanup deletes the rows of expired tokens.
Purge(t) ==
  /\ t \in expired \cap Unlocked /\ row[t] # "purged"
  /\ row' = [row EXCEPT ![t] = "purged"]
  /\ UNCHANGED <<expired, lock, requestVars, familyVars>>

Request(q) ==
  \/ \E t \in Tokens : Refuse(q, t) \/ Find(q, t) \/ Rotate(q, t)
  \/ \E t \in Tokens : LogoutFind(q, t) \/ Sweep(q, t)
  \/ Revoke(q) \/ LogoutAll(q) \/ LogoutAllCommit(q) \/ Rollback(q)

Next ==
  \/ \E q \in Requests : Request(q)
  \/ \E t \in Tokens : Login(t) \/ Expire(t) \/ Purge(t)

Spec == Init /\ [][Next]_vars

-----------------------------------------------------------------------------
(* Properties.                                                             *)

\* A token is exchanged at most once, however often and how nearly at the same time
\* it is presented, and whatever is rolled back in between.
OneSuccessor ==
  \A m, n \in Tokens : parent[m] # NoToken /\ parent[m] = parent[n] => m = n

\* One login has one usable token at any time: the chain of its exchanges never
\* forks, and the token that was given in exchange cannot be used again.
FamilyHasOneLive ==
  \A m, n \in Live : root[m] = root[n] => m = n

\* A row is locked exactly by the request that is about to rewrite it, and while it is
\* locked the token stays live: what a rotation has read does not become stale.
LocksProtect ==
  \A t \in Tokens :
    /\ \A q \in Requests : lock[t] = q <=>
         \/ pc[q] = "rotating" /\ arg[q] = t
         \/ pc[q] = "sweeping" /\ t \in hit[q]
    /\ t \notin Unlocked => t \in Live

\* Once revoked - by its exchange, by a logout, by a logout of all - or purged, a token
\* is never live again and never gets a successor it did not have.
Ended(t) == row[t] \in {"revoked", "purged"}
EndedStays ==
  \A t \in Tokens : Ended(t) =>
    Ended(t)' /\ \A n \in Tokens : parent'[n] = t => parent[n] = t
RevocationIsFinal == [][EndedStays]_vars

\* Bookkeeping of the histories, and: a token with a successor has ended.
FamiliesConsistent ==
  \A t \in Tokens :
    /\ root[t] = NoToken <=> t \notin Issued
    /\ root[t] # NoToken => root[t] \in Issued
    /\ parent[t] # NoToken =>
         t \in Issued /\ parent[t] \in Issued /\ Ended(parent[t])

\* Only a token that was issued expires, a request that will write a token was sent
\* with one, and only a logout of all that is under way has changed rows.
RequestsConsistent ==
  /\ expired \subseteq Issued
  /\ \A q \in Requests :
       /\ pc[q] \in {"rotating", "revoking"} => arg[q] \in Issued
       /\ pc[q] # "sweeping" => hit[q] = {}

\* What holds of every reachable state and is preserved by every step.
IInv ==
  /\ TypeOK
  /\ RequestsConsistent
  /\ LocksProtect
  /\ FamiliesConsistent
  /\ OneSuccessor
  /\ FamilyHasOneLive

\* logout(), "revoke all tokens of this user": when it has returned, no login from
\* before it began has a usable token.
LogoutAllEndsLogins ==
  \A q \in Requests : pc[q] = "swept" => \A t \in Live : root[t] \notin before[q]
=============================================================================
