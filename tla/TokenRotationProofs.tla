------------------------- MODULE TokenRotationProofs -------------------------
(***************************************************************************)
(* IInv is an inductive invariant of TokenRotation for every set of tokens *)
(* and requests.  LocksProtect carries the argument: the token a rotation  *)
(* replaces is live when it commits, a live token has no successor         *)
(* (FamiliesConsistent), so the chain of exchanges cannot fork.            *)
(***************************************************************************)
EXTENDS TokenRotation, TLAPS

USE NamesAssumption DEF IInv, requestVars, familyVars, vars

\* No token has been issued in the beginning.
LEMMA InitInv == Init => IInv
  BY DEF Init, TypeOK, RequestsConsistent, LocksProtect, FamiliesConsistent, OneSuccessor, FamilyHasOneLive,
     Issued, Live, Unlocked

\* Every action keeps the types.
LEMMA TypeStep == IInv /\ [Next]_vars => TypeOK'
<1> SUFFICES ASSUME IInv, [Next]_vars PROVE TypeOK'
  OBVIOUS
<1> USE DEF TypeOK
<1>1. ASSUME NEW q \in Requests, Request(q) PROVE TypeOK'
  <2>1. ASSUME NEW t \in Tokens, Refuse(q, t) PROVE TypeOK'
    BY <2>1 DEF Refuse
  <2>2. ASSUME NEW t \in Tokens, Find(q, t) PROVE TypeOK'
    BY <2>2 DEF Find, Grant
  <2>3. ASSUME NEW t \in Tokens, Rotate(q, t) PROVE TypeOK'
    <3>1. arg[q] \in Tokens /\ root[arg[q]] \in Tokens
      BY <2>3 DEF Rotate, RequestsConsistent, FamiliesConsistent, Issued
    <3> QED
      BY <2>3, <3>1 DEF Rotate, Release
  <2>4. ASSUME NEW t \in Tokens, LogoutFind(q, t) PROVE TypeOK'
    BY <2>4 DEF LogoutFind
  <2>5. ASSUME NEW t \in Tokens, Sweep(q, t) PROVE TypeOK'
    BY <2>5 DEF Sweep
  <2>6. CASE Revoke(q)
    BY <2>6 DEF Revoke
  <2>7. CASE LogoutAll(q)
    <3>1. Live \in SUBSET Tokens /\ {root[t] : t \in Issued} \in SUBSET Tokens
      BY DEF Live, Issued, FamiliesConsistent
    <3> QED
      BY <2>7, <3>1 DEF LogoutAll
  <2>8. CASE LogoutAllCommit(q)
    BY <2>8 DEF LogoutAllCommit, Release
  <2>9. CASE Rollback(q)
    BY <2>9 DEF Rollback, Release
  <2> QED
    BY <1>1, <2>1, <2>2, <2>3, <2>4, <2>5, <2>6, <2>7, <2>8, <2>9 DEF Request
<1>2. ASSUME NEW t \in Tokens, Login(t) \/ Expire(t) \/ Purge(t) PROVE TypeOK'
  BY <1>2 DEF Login, Expire, Purge, Issued
<1>3. CASE UNCHANGED vars
  BY <1>3
<1> QED
  BY <1>1, <1>2, <1>3 DEF Next

\* A step that issues no token and revives none keeps the families.
LEMMA FamiliesStay ==
  ASSUME IInv, UNCHANGED familyVars,
         \A t \in Tokens : row'[t] = row[t] \/ (row[t] # "unissued" /\ Ended(t)')
  PROVE  FamiliesConsistent' /\ OneSuccessor' /\ FamilyHasOneLive'
<1>1. Issued' = Issued /\ Live' \subseteq Live
  BY DEF Issued, Live, Ended
<1>2. \A t \in Tokens : Ended(t) => Ended(t)'
  BY DEF Ended
<1>3. FamiliesConsistent'
  <2> SUFFICES ASSUME NEW t \in Tokens
               PROVE  /\ root[t] = NoToken <=> t \notin Issued
                      /\ root[t] # NoToken => root[t] \in Issued
                      /\ parent[t] # NoToken =>
                           t \in Issued /\ parent[t] \in Issued /\ Ended(parent[t])'
    BY <1>1 DEF FamiliesConsistent, Ended
  <2> QED
    BY <1>2 DEF FamiliesConsistent, Issued
<1>4. OneSuccessor' /\ FamilyHasOneLive'
  BY <1>1 DEF OneSuccessor, FamilyHasOneLive
<1> QED
  BY <1>3, <1>4

\* The token given in exchange is new and the one it replaces has ended, so its login
\* has again one live token and that token had no successor.
LEMMA RotateKeeps ==
  ASSUME IInv, TypeOK', NEW q \in Requests, NEW n \in Tokens, Rotate(q, n)
  PROVE  FamiliesConsistent' /\ OneSuccessor' /\ FamilyHasOneLive'
<1> DEFINE t == arg[q]
<1>1. t \in Tokens /\ t \in Live /\ t # n
  <2>1. t \in Tokens /\ pc[q] = "rotating" /\ q # NoRequest
    BY DEF Rotate, RequestsConsistent, Issued
  <2>2. lock[t] = q
    BY <2>1 DEF LocksProtect
  <2> QED
    BY <2>1, <2>2 DEF Rotate, LocksProtect, Unlocked, Live, Issued
<1>2. /\ row[n] = "unissued" /\ row[t] = "live"
      /\ \A m \in Tokens :
           /\ row'[m] = IF m = n THEN "live" ELSE IF m = t THEN "revoked" ELSE row[m]
           /\ parent'[m] = IF m = n THEN t ELSE parent[m]
           /\ root'[m] = IF m = n THEN root[t] ELSE root[m]
  BY <1>1 DEF Rotate, TypeOK, Live, Issued
<1>3. Issued' = Issued \cup {n} /\ Live' = (Live \ {t}) \cup {n}
  BY <1>1, <1>2 DEF Issued, Live
<1>4. \A m \in Tokens : parent[m] # t /\ (parent[m] # NoToken => Ended(parent[m]))
  BY <1>1, <1>2 DEF FamiliesConsistent, Ended
<1>5. FamiliesConsistent'
  BY <1>1, <1>2, <1>3, <1>4 DEF FamiliesConsistent, TypeOK, Ended, Issued, Live
<1>6. OneSuccessor'
  BY <1>1, <1>2, <1>4 DEF OneSuccessor
<1>7. FamilyHasOneLive'
  BY <1>1, <1>2, <1>3 DEF FamilyHasOneLive, Live
<1> QED
  BY <1>5, <1>6, <1>7

\* A login starts a family of its own.
LEMMA LoginKeeps ==
  ASSUME IInv, TypeOK', NEW n \in Tokens, Login(n)
  PROVE  FamiliesConsistent' /\ OneSuccessor' /\ FamilyHasOneLive'
<1>1. /\ row[n] = "unissued" /\ root[n] = NoToken
      /\ \A m \in Tokens : /\ row'[m] = IF m = n THEN "live" ELSE row[m]
                           /\ root'[m] = IF m = n THEN n ELSE root[m]
  BY DEF Login, TypeOK, Issued, FamiliesConsistent
<1>2. Issued' = Issued \cup {n} /\ Live' = Live \cup {n} /\ parent' = parent
  BY <1>1 DEF Issued, Live, Login
<1>3. \A m \in Tokens : root[m] # n
  BY <1>1 DEF FamiliesConsistent, Issued
<1>4. FamiliesConsistent'
  BY <1>1, <1>2 DEF FamiliesConsistent, TypeOK, Ended
<1>5. FamilyHasOneLive' /\ OneSuccessor'
  BY <1>1, <1>2, <1>3 DEF FamilyHasOneLive, OneSuccessor, Live
<1> QED
  BY <1>4, <1>5

\* Every step of a request keeps the families.
LEMMA RequestKeepsFamilies ==
  ASSUME IInv, TypeOK', NEW q \in Requests, Request(q)
  PROVE  FamiliesConsistent' /\ OneSuccessor' /\ FamilyHasOneLive'
<1>1. ASSUME NEW t \in Tokens, Rotate(q, t)
      PROVE  FamiliesConsistent' /\ OneSuccessor' /\ FamilyHasOneLive'
  BY <1>1, RotateKeeps
<1>2. ASSUME NEW t \in Tokens, Refuse(q, t) \/ Find(q, t) \/ LogoutFind(q, t) \/ Sweep(q, t)
      PROVE  FamiliesConsistent' /\ OneSuccessor' /\ FamilyHasOneLive'
  <2>1. UNCHANGED familyVars /\ row' = row
    BY <1>2 DEF Refuse, Find, LogoutFind, Sweep
  <2> QED
    BY <2>1, FamiliesStay
<1>3. CASE Revoke(q)
  <2>1. arg[q] \in Tokens /\ row[arg[q]] # "unissued"
    BY <1>3 DEF Revoke, RequestsConsistent, Issued
  <2> QED
    BY <1>3, <2>1, FamiliesStay DEF Revoke, Ended, TypeOK
<1>4. CASE LogoutAll(q) \/ Rollback(q)
  <2>1. UNCHANGED familyVars /\ row' = row
    BY <1>4 DEF LogoutAll, Rollback
  <2> QED
    BY <2>1, FamiliesStay
<1>5. CASE LogoutAllCommit(q)
  <2>1. \A t \in hit[q] : t \in Live
    BY <1>5 DEF LogoutAllCommit, LocksProtect, Unlocked, TypeOK
  <2>2. \A t \in Tokens : row'[t] = IF t \in hit[q] THEN "revoked" ELSE row[t]
    BY <1>5 DEF LogoutAllCommit
  <2> QED
    BY <1>5, <2>1, <2>2, FamiliesStay DEF LogoutAllCommit, Ended, Live
<1> QED
  BY <1>1, <1>2, <1>3, <1>4, <1>5 DEF Request

\* Every step keeps the families.
LEMMA FamiliesStep ==
  ASSUME IInv, TypeOK', [Next]_vars
  PROVE  FamiliesConsistent' /\ OneSuccessor' /\ FamilyHasOneLive'
<1>1. ASSUME NEW q \in Requests, Request(q)
      PROVE  FamiliesConsistent' /\ OneSuccessor' /\ FamilyHasOneLive'
  BY <1>1, RequestKeepsFamilies
<1>2. ASSUME NEW t \in Tokens, Login(t)
      PROVE  FamiliesConsistent' /\ OneSuccessor' /\ FamilyHasOneLive'
  BY <1>2, LoginKeeps
<1>3. ASSUME NEW t \in Tokens, Expire(t) \/ UNCHANGED vars
      PROVE  FamiliesConsistent' /\ OneSuccessor' /\ FamilyHasOneLive'
  <2>1. UNCHANGED familyVars /\ row' = row
    BY <1>3 DEF Expire
  <2> QED
    BY <2>1, FamiliesStay
<1>4. ASSUME NEW t \in Tokens, Purge(t)
      PROVE  FamiliesConsistent' /\ OneSuccessor' /\ FamilyHasOneLive'
  <2>1. row[t] # "unissued"
    BY <1>4 DEF Purge, RequestsConsistent, Issued
  <2> QED
    BY <1>4, <2>1, FamiliesStay DEF Purge, Ended, TypeOK
<1>5. CASE UNCHANGED vars
  <2>1. UNCHANGED familyVars /\ row' = row
    BY <1>5
  <2> QED
    BY <2>1, FamiliesStay
<1> QED
  BY <1>1, <1>2, <1>3, <1>4, <1>5 DEF Next

\* Every step of a request keeps the locks where they belong.
LEMMA RequestKeepsLocks ==
  ASSUME IInv, TypeOK', NEW q \in Requests, Request(q)
  PROVE  RequestsConsistent' /\ LocksProtect'
<1> USE DEF RequestsConsistent, LocksProtect, TypeOK, Unlocked, Live, Issued
<1>1. ASSUME NEW t \in Tokens, Refuse(q, t) PROVE RequestsConsistent' /\ LocksProtect'
  BY <1>1 DEF Refuse
<1>2. ASSUME NEW t \in Tokens, Find(q, t) PROVE RequestsConsistent' /\ LocksProtect'
  BY <1>2 DEF Find, Grant
<1>3. ASSUME NEW t \in Tokens, Rotate(q, t) PROVE RequestsConsistent' /\ LocksProtect'
  BY <1>3 DEF Rotate, Release
<1>4. ASSUME NEW t \in Tokens, LogoutFind(q, t) PROVE RequestsConsistent' /\ LocksProtect'
  BY <1>4 DEF LogoutFind
<1>5. ASSUME NEW t \in Tokens, Sweep(q, t) PROVE RequestsConsistent' /\ LocksProtect'
  BY <1>5 DEF Sweep
<1>6. CASE Revoke(q)
  BY <1>6 DEF Revoke
<1>7. CASE LogoutAll(q)
  <2>1. /\ row' = row /\ expired' = expired /\ lock' = lock /\ arg' = arg /\ hit' = hit
        /\ pc' = [pc EXCEPT ![q] = "sweeping"]
    BY <1>7 DEF LogoutAll
  <2> QED
    BY <1>7, <2>1 DEF LogoutAll
<1>8. CASE LogoutAllCommit(q)
  BY <1>8 DEF LogoutAllCommit, Release
<1>9. CASE Rollback(q)
  BY <1>9 DEF Rollback, Release
<1> QED
  BY <1>1, <1>2, <1>3, <1>4, <1>5, <1>6, <1>7, <1>8, <1>9 DEF Request

\* Every step keeps the locks where they belong.
LEMMA LocksStep ==
  ASSUME IInv, TypeOK', [Next]_vars
  PROVE  RequestsConsistent' /\ LocksProtect'
<1> USE DEF RequestsConsistent, LocksProtect, TypeOK, Unlocked, Live, Issued
<1>1. ASSUME NEW q \in Requests, Request(q) PROVE RequestsConsistent' /\ LocksProtect'
  BY <1>1, RequestKeepsLocks
<1>2. ASSUME NEW t \in Tokens, Login(t) PROVE RequestsConsistent' /\ LocksProtect'
  BY <1>2 DEF Login
<1>3. ASSUME NEW t \in Tokens, Expire(t) PROVE RequestsConsistent' /\ LocksProtect'
  BY <1>3 DEF Expire
<1>4. ASSUME NEW t \in Tokens, Purge(t) PROVE RequestsConsistent' /\ LocksProtect'
  BY <1>4 DEF Purge
<1>5. CASE UNCHANGED vars
  BY <1>5
<1> QED
  BY <1>1, <1>2, <1>3, <1>4, <1>5 DEF Next

\* IInv is invariant.
THEOREM TokensInvariant == Spec => []IInv
<1>1. Init => IInv
  BY InitInv
<1>2. IInv /\ [Next]_vars => IInv'
  BY TypeStep, FamiliesStep, LocksStep
<1> QED
  BY <1>1, <1>2, PTL DEF Spec

\* Every variable keeps its type.
THEOREM TokenTypeCorrect == Spec => []TypeOK
<1>1. IInv => TypeOK
  OBVIOUS
<1> QED
  BY <1>1, TokensInvariant, PTL

\* refresh_access_token exchanges a token at most once.
THEOREM ExchangedOnce == Spec => []OneSuccessor
<1>1. IInv => OneSuccessor
  OBVIOUS
<1> QED
  BY <1>1, TokensInvariant, PTL

\* The exchanges of one login form a chain with one usable end.
THEOREM ChainNeverForks == Spec => []FamilyHasOneLive
<1>1. IInv => FamilyHasOneLive
  OBVIOUS
<1> QED
  BY <1>1, TokensInvariant, PTL

\* Row locks belong to the transactions that are about to write.
THEOREM LocksAreOwned == Spec => []LocksProtect
<1>1. IInv => LocksProtect
  OBVIOUS
<1> QED
  BY <1>1, TokensInvariant, PTL

\* No step revives a token or gives a successor to one that has ended: a rotation
\* replaces a live token, and every other write of a row ends it.
LEMMA EndedStep ==
  ASSUME IInv, [Next]_vars
  PROVE  EndedStays
<1> SUFFICES ASSUME NEW t \in Tokens, Ended(t)
             PROVE  Ended(t)' /\ \A n \in Tokens : parent'[n] = t => parent[n] = t
  BY DEF EndedStays
<1> USE DEF Ended
<1>1. ASSUME NEW q \in Requests, NEW n \in Tokens, Rotate(q, n)
      PROVE  Ended(t)' /\ \A m \in Tokens : parent'[m] = t => parent[m] = t
  <2>1. arg[q] \in Tokens /\ pc[q] = "rotating" /\ q # NoRequest
    BY <1>1 DEF Rotate, RequestsConsistent, Issued
  <2>2. lock[arg[q]] = q
    BY <2>1 DEF LocksProtect
  <2>3. row[arg[q]] = "live" /\ t # arg[q] /\ t # n
    BY <1>1, <2>1, <2>2 DEF Rotate, LocksProtect, Unlocked, Live, Issued
  <2> QED
    BY <1>1, <2>1, <2>3 DEF Rotate, TypeOK
<1>2. ASSUME NEW q \in Requests, NEW n \in Tokens,
             Refuse(q, n) \/ Find(q, n) \/ LogoutFind(q, n) \/ Sweep(q, n)
      PROVE  UNCHANGED <<row, parent>>
  BY <1>2 DEF Refuse, Find, LogoutFind, Sweep
<1>3. ASSUME NEW q \in Requests, LogoutAll(q) \/ Rollback(q)
      PROVE  UNCHANGED <<row, parent>>
  BY <1>3 DEF LogoutAll, Rollback
<1>4. ASSUME NEW q \in Requests, Revoke(q) \/ LogoutAllCommit(q)
      PROVE  Ended(t)' /\ parent' = parent
  BY <1>4 DEF Revoke, LogoutAllCommit, TypeOK
<1>5. ASSUME NEW n \in Tokens, Login(n) \/ Expire(n) \/ Purge(n)
      PROVE  Ended(t)' /\ parent' = parent
  BY <1>5 DEF Login, Expire, Purge, TypeOK, Issued
<1>6. CASE UNCHANGED vars
  BY <1>6
<1> QED
  BY <1>1, <1>2, <1>3, <1>4, <1>5, <1>6 DEF Next, Request

\* Revocation is final.
THEOREM RevocationSticks == Spec => RevocationIsFinal
<1>1. IInv /\ [Next]_vars => [EndedStays]_vars
  BY EndedStep
<1> QED
  BY <1>1, TokensInvariant, PTL DEF Spec, RevocationIsFinal
=============================================================================
