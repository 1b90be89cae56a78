--------------------------- MODULE SipAuthProofs ---------------------------
(***************************************************************************)
(* Theorems about SipAuth, for any requests, nonces and limit.             *)
(***************************************************************************)
EXTENDS SipAuth, FiniteSetTheorems, TLAPS

\* A request whose nonce was found in the table, and not refused since.
Holds(r) == auth[r] \in {"verify", "consume", "accepted"}

\* Requests with a wrong header that have their answer: every failure that the
\* guard counts is one of these.
Failed == {r \in AuthRequests :
             /\ auth[r] \in {"challenged", "refused"}
             /\ credentials[r].nonce # NoNonce /\ ~credentials[r].valid}

\* Beyond an idle request and a challenge, a request has named a nonce.
NonceNamed ==
  \A r \in AuthRequests :
    auth[r] \in {"load", "verify", "consume", "accepted"} => credentials[r].nonce \in Nonces \ {NoNonce}

\* A nonce that was used is gone for good, and one that two requests hold is
\* known to be shared.
NonceInv ==
  /\ NonceNamed
  /\ \A r \in authenticated : auth[r] = "accepted"
  /\ \A r \in AuthRequests : auth[r] = "accepted" => nonces[credentials[r].nonce] = "gone"
  /\ \A r, s \in AuthRequests :
       r # s /\ Holds(r) /\ Holds(s) /\ credentials[r].nonce = credentials[s].nonce
       => credentials[r].nonce \in shared

\* The guard has counted no more than the failed requests.
GuardInv ==
  /\ failures <= Cardinality(Failed)
  /\ blocked => Cardinality(Failed) >= MaxFailedAttempts

-----------------------------------------------------------------------------
(* Type correctness.                                                       *)

LEMMA AuthInitType == AuthInit => AuthTypeOK
<1> SUFFICES ASSUME AuthInit PROVE AuthTypeOK
  OBVIOUS
<1> USE DEF AuthInit, AuthTypeOK
<1>1. failures \in 0 .. MaxFailedAttempts - 1
  BY AuthAssumption DEF AuthAssumption
<1>2. credentials \in [AuthRequests -> Credentials]
  BY DEF Credentials
<1>3. nonces \in [Nonces -> {"unissued", "fresh", "stale", "gone"}] /\ blocked \in BOOLEAN
  OBVIOUS
<1> QED BY <1>1, <1>2, <1>3

LEMMA RecordFailureType ==
  ASSUME failures \in 0 .. MaxFailedAttempts - 1, blocked \in BOOLEAN, RecordFailure
  PROVE  failures' \in 0 .. MaxFailedAttempts - 1 /\ blocked' \in BOOLEAN
<1>1. CASE blocked
  BY <1>1 DEF RecordFailure, guardVars
<1>2. CASE ~blocked /\ failures + 1 >= MaxFailedAttempts
  <2>1. failures' = 0 /\ blocked' = TRUE
    BY <1>2 DEF RecordFailure
  <2> QED BY <2>1, AuthAssumption DEF AuthAssumption
<1>3. CASE ~blocked /\ ~(failures + 1 >= MaxFailedAttempts)
  <2>1. failures' = failures + 1 /\ blocked' = blocked
    BY <1>3 DEF RecordFailure
  <2>2. failures' \in 0 .. MaxFailedAttempts - 1
    BY <2>1, <1>3, AuthAssumption DEF AuthAssumption
  <2> QED BY <2>1, <2>2
<1> QED BY <1>1, <1>2, <1>3

LEMMA ChallengeEffect ==
  ASSUME AuthTypeOK, NEW r \in AuthRequests, Challenge(r)
  PROVE  /\ nonces' \in [Nonces -> {"unissued", "fresh", "stale", "gone"}]
         /\ UNCHANGED guardVars
         /\ auth' = [auth EXCEPT ![r] = "challenged"]
BY DEF Challenge, StoreNonce, AuthGoes, AuthTypeOK

LEMMA AuthTypeStep ==
  ASSUME AuthTypeOK, NonceNamed, [AuthNext]_authVars
  PROVE  AuthTypeOK' /\ NonceNamed'
<1> USE DEF AuthTypeOK, NonceNamed
<1>1. ASSUME NEW r \in AuthRequests, NEW q \in Credentials, Authenticate(r, q)
      PROVE  AuthTypeOK' /\ NonceNamed'
  <2>1. credentials' = [credentials EXCEPT ![r] = q] /\ UNCHANGED <<authenticated, shared>>
    BY <1>1 DEF Authenticate
  <2>2. CASE Challenge(r)
    BY <2>1, <2>2, ChallengeEffect DEF guardVars
  <2>3. CASE RecordFailure /\ AuthGoes(r, "refused") /\ UNCHANGED nonces
    BY <2>1, <2>3, RecordFailureType DEF AuthGoes
  <2>4. CASE (AuthGoes(r, "refused") \/ (q.nonce # NoNonce /\ AuthGoes(r, "load")))
             /\ UNCHANGED <<nonces, guardVars>>
    BY <2>1, <2>4 DEF AuthGoes, guardVars, Credentials
  <2> QED BY <1>1, <2>2, <2>3, <2>4 DEF Authenticate
<1>2. ASSUME NEW r \in AuthRequests, LoadNonce(r) PROVE AuthTypeOK' /\ NonceNamed'
  <2>1. auth[r] = "load" /\ UNCHANGED <<credentials, authenticated>>
    BY <1>2 DEF LoadNonce
  <2>2. CASE Challenge(r) /\ UNCHANGED shared
    BY <2>1, <2>2, ChallengeEffect DEF guardVars
  <2>3. CASE /\ AuthGoes(r, "verify") /\ UNCHANGED <<nonces, guardVars>>
             /\ shared' \in {shared, shared \union {credentials[r].nonce}}
    BY <2>1, <2>3 DEF AuthGoes, guardVars
  <2> QED BY <1>2, <2>2, <2>3 DEF LoadNonce
<1>3. ASSUME NEW r \in AuthRequests, VerifyDigest(r) PROVE AuthTypeOK' /\ NonceNamed'
  <2>1. auth[r] = "verify" /\ UNCHANGED <<credentials, authenticated, shared>>
    BY <1>3 DEF VerifyDigest
  <2>2. CASE RecordFailure /\ StoreNonce /\ AuthGoes(r, "challenged")
    <3>1. nonces' \in [Nonces -> {"unissued", "fresh", "stale", "gone"}]
      BY <2>2 DEF StoreNonce
    <3> QED BY <2>1, <2>2, <3>1, RecordFailureType DEF AuthGoes
  <2>3. CASE RecordFailure /\ AuthGoes(r, "refused") /\ UNCHANGED nonces
    BY <2>1, <2>3, RecordFailureType DEF AuthGoes
  <2>4. CASE (AuthGoes(r, "consume") \/ AuthGoes(r, "failed")) /\ UNCHANGED <<nonces, guardVars>>
    BY <2>1, <2>4 DEF AuthGoes, guardVars
  <2> QED BY <1>3, <2>2, <2>3, <2>4 DEF VerifyDigest
<1>4. ASSUME NEW r \in AuthRequests, Accept(r) PROVE AuthTypeOK' /\ NonceNamed'
  <2>1. failures' \in 0 .. MaxFailedAttempts - 1
    <3>1. failures' = failures \/ failures' = 0
      BY <1>4 DEF Accept
    <3> QED BY <3>1, AuthAssumption DEF AuthAssumption
  <2>2. /\ auth[r] = "consume" /\ auth' = [auth EXCEPT ![r] = "accepted"]
        /\ nonces' = [nonces EXCEPT ![credentials[r].nonce] = "gone"]
        /\ authenticated' = authenticated \union {r}
        /\ UNCHANGED <<blocked, credentials, shared>>
    BY <1>4 DEF Accept, AuthGoes, UseNonce
  <2> QED BY <2>1, <2>2
<1>5. CASE NonceExpires
  BY <1>5 DEF NonceExpires, guardVars
<1>6. CASE GuardForgets
  <2>1. failures' \in 0 .. MaxFailedAttempts - 1
    <3>1. failures' = 0 \/ (failures > 0 /\ failures' = failures - 1)
      BY <1>6 DEF GuardForgets, LiftBlock, PruneFailures
    <3> QED BY <3>1, AuthAssumption DEF AuthAssumption
  <2>2. blocked' \in BOOLEAN /\ UNCHANGED <<nonces, credentials, auth, authenticated, shared>>
    BY <1>6 DEF GuardForgets, LiftBlock, PruneFailures
  <2> QED BY <2>1, <2>2
<1>7. CASE UNCHANGED authVars
  BY <1>7 DEF authVars, guardVars
<1> QED BY <1>1, <1>2, <1>3, <1>4, <1>5, <1>6, <1>7 DEF AuthNext

\* The variables keep their types (AuthInit, AuthNext).
THEOREM AuthTypeCorrect == AuthSpec => []AuthTypeOK
<1>1. AuthInit => AuthTypeOK /\ NonceNamed
  BY AuthInitType DEF AuthInit, NonceNamed
<1>2. AuthTypeOK /\ NonceNamed /\ [AuthNext]_authVars => AuthTypeOK' /\ NonceNamed'
  BY AuthTypeStep
<1> QED BY <1>1, <1>2, PTL DEF AuthSpec

-----------------------------------------------------------------------------
(* Single use of nonces.                                                   *)

\* What keeps the invariant: no nonce comes back, nobody is accepted, and
\* nobody comes to hold a nonce.
LEMMA NonceKept ==
  ASSUME AuthTypeOK, NonceInv, NonceNamed',
         \A n \in Nonces : nonces[n] = "gone" => nonces'[n] = "gone",
         UNCHANGED authenticated,
         shared \subseteq shared',
         \A r \in AuthRequests :
           /\ auth[r] = "accepted" => auth'[r] = "accepted"
           /\ auth'[r] = "accepted" => auth[r] = "accepted"
           /\ Holds(r)' => Holds(r) /\ credentials'[r] = credentials[r]
  PROVE  NonceInv'
<1>1. \A r \in authenticated : auth'[r] = "accepted"
  BY DEF NonceInv, AuthTypeOK
<1>2. \A r \in AuthRequests : auth'[r] = "accepted" => nonces'[credentials'[r].nonce] = "gone"
  BY DEF NonceInv, NonceNamed, Holds
<1>3. ASSUME NEW r \in AuthRequests, NEW s \in AuthRequests,
             r # s, Holds(r)', Holds(s)', credentials'[r].nonce = credentials'[s].nonce
      PROVE  credentials'[r].nonce \in shared'
  BY <1>3 DEF NonceInv
<1> QED BY <1>1, <1>2, <1>3 DEF NonceInv

LEMMA StoreKeepsGone ==
  ASSUME AuthTypeOK, StoreNonce
  PROVE  \A n \in Nonces : nonces[n] = "gone" => nonces'[n] = "gone"
BY DEF StoreNonce, AuthTypeOK

LEMMA NonceStep ==
  ASSUME AuthTypeOK, NonceInv, [AuthNext]_authVars
  PROVE  NonceInv'
<1>0. AuthTypeOK' /\ NonceNamed'
  BY AuthTypeStep DEF NonceInv
<1>1. ASSUME NEW r \in AuthRequests, NEW q \in Credentials, Authenticate(r, q)
      PROVE  NonceInv'
  <2>1. /\ auth[r] = "idle" /\ credentials' = [credentials EXCEPT ![r] = q]
        /\ UNCHANGED <<authenticated, shared>>
        /\ \E l \in {"challenged", "refused", "load"} : AuthGoes(r, l)
        /\ StoreNonce \/ UNCHANGED nonces
    BY <1>1 DEF Authenticate, Challenge
  <2>2. \A n \in Nonces : nonces[n] = "gone" => nonces'[n] = "gone"
    BY <2>1, StoreKeepsGone
  <2> QED BY <1>0, <2>1, <2>2, NonceKept DEF AuthGoes, AuthTypeOK, Holds
<1>2. ASSUME NEW r \in AuthRequests, LoadNonce(r) PROVE NonceInv'
  <2>1. auth[r] = "load" /\ UNCHANGED <<credentials, authenticated>>
    BY <1>2 DEF LoadNonce
  <2>2. CASE Challenge(r) /\ UNCHANGED shared
    <3>1. AuthGoes(r, "challenged") /\ StoreNonce
      BY <2>2 DEF Challenge
    <3>2. \A n \in Nonces : nonces[n] = "gone" => nonces'[n] = "gone"
      BY <3>1, StoreKeepsGone
    <3> QED BY <1>0, <2>1, <2>2, <3>1, <3>2, NonceKept DEF AuthGoes, AuthTypeOK, Holds
  <2>3. CASE nonces[credentials[r].nonce] = "fresh"
    <3> DEFINE n == credentials[r].nonce
               others == \E s \in AuthRequests \ {r} :
                           auth[s] \in {"verify", "consume"} /\ credentials[s].nonce = n
    <3>1. /\ auth' = [auth EXCEPT ![r] = "verify"] /\ UNCHANGED nonces
          /\ shared' = IF others THEN shared \union {n} ELSE shared
      BY <1>2, <2>3 DEF LoadNonce, AuthGoes
    <3>2. \A s \in AuthRequests : auth[s] = "accepted" => credentials[s].nonce # n
      BY <2>3 DEF NonceInv
    <3>3. \A s \in AuthRequests : Holds(s)' => s = r \/ Holds(s)
      BY <3>1 DEF AuthTypeOK, Holds
    <3>4. ASSUME NEW p \in AuthRequests, NEW s \in AuthRequests,
                 p # s, Holds(p)', Holds(s)', credentials[p].nonce = credentials[s].nonce
          PROVE  credentials[p].nonce \in shared'
      <4>1. CASE p = r \/ s = r
        <5>1. others
          BY <3>2, <3>3, <3>4, <4>1 DEF Holds
        <5> QED BY <3>1, <3>4, <4>1, <5>1
      <4>2. CASE p # r /\ s # r
        BY <3>1, <3>3, <3>4, <4>2 DEF NonceInv
      <4> QED BY <4>1, <4>2
    <3>5. \A s \in AuthRequests : auth'[s] = "accepted" => auth[s] = "accepted"
      BY <3>1 DEF AuthTypeOK
    <3>6. \A s \in authenticated : auth'[s] = "accepted"
      BY <2>1, <3>1 DEF NonceInv, AuthTypeOK
    <3> QED BY <1>0, <2>1, <3>1, <3>4, <3>5, <3>6 DEF NonceInv
  <2> QED BY <1>2, <2>2, <2>3 DEF LoadNonce
<1>3. ASSUME NEW r \in AuthRequests, VerifyDigest(r) PROVE NonceInv'
  <2>1. /\ auth[r] = "verify" /\ UNCHANGED <<credentials, authenticated, shared>>
        /\ \E l \in {"consume", "challenged", "refused", "failed"} : AuthGoes(r, l)
        /\ StoreNonce \/ UNCHANGED nonces
    BY <1>3 DEF VerifyDigest
  <2>2. \A n \in Nonces : nonces[n] = "gone" => nonces'[n] = "gone"
    BY <2>1, StoreKeepsGone
  <2> QED BY <1>0, <2>1, <2>2, NonceKept DEF AuthGoes, AuthTypeOK, Holds
<1>4. ASSUME NEW r \in AuthRequests, Accept(r) PROVE NonceInv'
  <2>1. /\ auth[r] = "consume" /\ auth' = [auth EXCEPT ![r] = "accepted"]
        /\ nonces' = [nonces EXCEPT ![credentials[r].nonce] = "gone"]
        /\ authenticated' = authenticated \union {r}
        /\ UNCHANGED <<credentials, shared>>
    BY <1>4 DEF Accept, AuthGoes, UseNonce
  <2>2. credentials[r].nonce \in Nonces
    BY <2>1 DEF NonceInv, NonceNamed
  <2>3. \A s \in AuthRequests : Holds(s)' = Holds(s)
    BY <2>1 DEF AuthTypeOK, Holds
  <2>4. \A s \in authenticated' : auth'[s] = "accepted"
    BY <2>1 DEF NonceInv, AuthTypeOK
  <2>5. \A s \in AuthRequests : auth'[s] = "accepted" => nonces'[credentials[s].nonce] = "gone"
    BY <2>1, <2>2 DEF NonceInv, NonceNamed, AuthTypeOK
  <2> QED BY <1>0, <2>1, <2>3, <2>4, <2>5 DEF NonceInv
<1>5. CASE NonceExpires
  <2>1. UNCHANGED <<credentials, auth, authenticated, shared>>
    BY <1>5 DEF NonceExpires
  <2>2. \A n \in Nonces : nonces[n] = "gone" => nonces'[n] = "gone"
    BY <1>5 DEF NonceExpires, AuthTypeOK
  <2> QED BY <1>0, <2>1, <2>2, NonceKept DEF Holds
<1>6. CASE UNCHANGED <<nonces, credentials, auth, authenticated, shared>>
  BY <1>0, <1>6, NonceKept DEF Holds
<1> QED BY <1>1, <1>2, <1>3, <1>4, <1>5, <1>6 DEF AuthNext, GuardForgets, authVars

\* A nonce authenticates one request, however many requests race with it, unless
\* two of them verified it at once (Authenticate).
THEOREM SingleUse == AuthSpec => []NonceUsedOnce
<1>1. AuthInit => AuthTypeOK /\ NonceInv
  BY AuthInitType DEF AuthInit, NonceInv, NonceNamed, Holds
<1>2. AuthTypeOK /\ NonceInv /\ [AuthNext]_authVars => AuthTypeOK' /\ NonceInv'
  BY AuthTypeStep, NonceStep DEF NonceInv
<1>3. AuthTypeOK /\ NonceInv => NonceUsedOnce
  BY DEF NonceInv, NonceUsedOnce, AuthTypeOK, Holds
<1> QED BY <1>1, <1>2, <1>3, PTL DEF AuthSpec

-----------------------------------------------------------------------------
(* The brute-force guard.                                                  *)

LEMMA FailedFinite ==
  /\ IsFiniteSet(Failed) /\ Cardinality(Failed) \in Nat
  /\ IsFiniteSet(Failed') /\ Cardinality(Failed') \in Nat
<1>1. IsFiniteSet(AuthRequests) /\ Failed \subseteq AuthRequests /\ Failed' \subseteq AuthRequests
  BY AuthAssumption DEF AuthAssumption, Failed
<1> QED BY <1>1, FS_Subset, FS_CardinalityType

\* A step in which nobody fails keeps what the guard knows.
LEMMA GuardKept ==
  ASSUME AuthTypeOK, AuthTypeOK', GuardInv, Failed \subseteq Failed', failures' <= failures, blocked' => blocked
  PROVE  GuardInv'
<1>1. Cardinality(Failed) <= Cardinality(Failed')
  BY FailedFinite, FS_Subset
<1>2. failures \in Nat /\ failures' \in Nat /\ MaxFailedAttempts \in Nat
  BY AuthAssumption DEF AuthAssumption, AuthTypeOK
<1>3. failures' <= Cardinality(Failed)'
  BY <1>1, <1>2, FailedFinite DEF GuardInv
<1>4. ASSUME blocked' PROVE Cardinality(Failed)' >= MaxFailedAttempts
  <2>1. Cardinality(Failed) >= MaxFailedAttempts
    BY <1>4 DEF GuardInv
  <2> QED BY <1>1, <1>2, <2>1, FailedFinite
<1> QED BY <1>3, <1>4 DEF GuardInv

\* A failure that is counted is one more failed request.
LEMMA GuardCounts ==
  ASSUME AuthTypeOK, AuthTypeOK', GuardInv, RecordFailure, Failed \subseteq Failed',
         NEW r \in Failed' \ Failed
  PROVE  GuardInv'
<1>1. Cardinality(Failed) + 1 <= Cardinality(Failed')
  <2>1. /\ IsFiniteSet(Failed \union {r}) /\ Cardinality(Failed \union {r}) = Cardinality(Failed) + 1
    BY FailedFinite, FS_AddElement
  <2>2. Failed \union {r} \subseteq Failed'
    OBVIOUS
  <2> QED BY <2>1, <2>2, FailedFinite, FS_Subset
<1>2. failures \in Nat /\ MaxFailedAttempts \in Nat /\ failures <= Cardinality(Failed)
  BY AuthAssumption DEF AuthAssumption, AuthTypeOK, GuardInv
<1>3. CASE blocked
  <2>1. UNCHANGED <<failures, blocked>>
    BY <1>3 DEF RecordFailure, guardVars
  <2> QED BY <2>1, <1>2, GuardKept
<1>4. CASE ~blocked /\ failures + 1 >= MaxFailedAttempts
  <2>1. failures' = 0
    BY <1>4 DEF RecordFailure
  <2>2. failures' <= Cardinality(Failed') /\ Cardinality(Failed') >= MaxFailedAttempts
    BY <1>1, <1>2, <1>4, <2>1, FailedFinite
  <2> QED BY <2>2 DEF GuardInv
<1>5. CASE ~blocked /\ ~(failures + 1 >= MaxFailedAttempts)
  <2>1. failures' = failures + 1 /\ ~blocked'
    BY <1>5 DEF RecordFailure
  <2>2. failures' <= Cardinality(Failed')
    BY <1>1, <1>2, <2>1, FailedFinite
  <2> QED BY <2>1, <2>2 DEF GuardInv
<1> QED BY <1>3, <1>4, <1>5

LEMMA GuardStep ==
  ASSUME AuthTypeOK, NonceNamed, GuardInv, [AuthNext]_authVars
  PROVE  GuardInv'
<1>0. AuthTypeOK'
  BY AuthTypeStep
<1>1. ASSUME UNCHANGED guardVars, Failed \subseteq Failed' PROVE GuardInv'
  <2>1. failures' <= failures /\ blocked' = blocked
    BY <1>1, AuthAssumption DEF AuthAssumption, guardVars, AuthTypeOK
  <2> QED BY <1>0, <1>1, <2>1, GuardKept
<1>2. ASSUME NEW r \in AuthRequests, NEW q \in Credentials, Authenticate(r, q) PROVE GuardInv'
  <2>1. auth[r] = "idle" /\ credentials' = [credentials EXCEPT ![r] = q]
    BY <1>2 DEF Authenticate
  <2>2. Failed \subseteq Failed'
    <3>1. \E l \in {"challenged", "refused", "load"} : AuthGoes(r, l)
      BY <1>2 DEF Authenticate, Challenge
    <3> QED BY <2>1, <3>1 DEF AuthGoes, AuthTypeOK, Failed
  <2>3. CASE q.nonce # NoNonce /\ ~q.valid /\ RecordFailure /\ AuthGoes(r, "refused")
    <3>1. r \in Failed' \ Failed
      BY <2>1, <2>3 DEF AuthGoes, AuthTypeOK, Failed
    <3> QED BY <1>0, <2>2, <2>3, <3>1, GuardCounts
  <2>4. CASE UNCHANGED guardVars
    BY <1>1, <2>2, <2>4
  <2> QED BY <1>2, <2>3, <2>4 DEF Authenticate, Challenge, guardVars
<1>3. ASSUME NEW r \in AuthRequests, LoadNonce(r) PROVE GuardInv'
  <2>1. auth[r] = "load" /\ UNCHANGED <<guardVars, credentials>>
    BY <1>3 DEF LoadNonce, Challenge
  <2>2. \E l \in {"challenged", "verify"} : AuthGoes(r, l)
    BY <1>3 DEF LoadNonce, Challenge
  <2>3. Failed \subseteq Failed'
    BY <2>1, <2>2 DEF AuthGoes, AuthTypeOK, Failed
  <2> QED BY <1>1, <2>1, <2>3
<1>4. ASSUME NEW r \in AuthRequests, VerifyDigest(r) PROVE GuardInv'
  <2>1. auth[r] = "verify" /\ UNCHANGED credentials /\ credentials[r].nonce # NoNonce
    BY <1>4 DEF VerifyDigest, NonceNamed
  <2>2. \E l \in {"consume", "challenged", "refused", "failed"} : AuthGoes(r, l)
    BY <1>4 DEF VerifyDigest
  <2>3. Failed \subseteq Failed'
    BY <2>1, <2>2 DEF AuthGoes, AuthTypeOK, Failed
  <2>4. CASE ~credentials[r].valid /\ RecordFailure /\ (AuthGoes(r, "challenged") \/ AuthGoes(r, "refused"))
    <3>1. r \in Failed' \ Failed
      BY <2>1, <2>4 DEF AuthGoes, AuthTypeOK, Failed
    <3> QED BY <1>0, <2>3, <2>4, <3>1, GuardCounts
  <2>5. CASE UNCHANGED guardVars
    BY <1>1, <2>3, <2>5
  <2> QED BY <1>4, <2>4, <2>5 DEF VerifyDigest
<1>5. ASSUME NEW r \in AuthRequests, Accept(r) PROVE GuardInv'
  <2>1. /\ auth[r] = "consume" /\ UNCHANGED <<blocked, credentials>>
        /\ AuthGoes(r, "accepted") /\ failures' \in {failures, 0}
    BY <1>5 DEF Accept
  <2>2. Failed \subseteq Failed'
    BY <2>1 DEF AuthGoes, AuthTypeOK, Failed
  <2>3. failures' <= failures
    BY <2>1, AuthAssumption DEF AuthAssumption, AuthTypeOK
  <2> QED BY <1>0, <2>1, <2>2, <2>3, GuardKept
<1>6. CASE NonceExpires
  <2>1. UNCHANGED <<guardVars, credentials, auth>>
    BY <1>6 DEF NonceExpires
  <2>2. Failed \subseteq Failed'
    BY <2>1 DEF Failed
  <2> QED BY <1>1, <2>1, <2>2
<1>7. CASE GuardForgets
  <2>1. UNCHANGED <<credentials, auth>> /\ (blocked' => blocked)
    BY <1>7 DEF GuardForgets, LiftBlock, PruneFailures
  <2>2. failures' = 0 \/ failures' = failures - 1
    BY <1>7 DEF GuardForgets, LiftBlock, PruneFailures
  <2>3. failures' <= failures
    BY <2>2, AuthAssumption DEF AuthAssumption, AuthTypeOK
  <2>4. Failed \subseteq Failed'
    BY <2>1 DEF Failed
  <2> QED BY <1>0, <2>1, <2>3, <2>4, GuardKept
<1>8. CASE UNCHANGED authVars
  BY <1>1, <1>8 DEF authVars, Failed
<1> QED BY <1>2, <1>3, <1>4, <1>5, <1>6, <1>7, <1>8 DEF AuthNext

\* Without MaxFailedAttempts requests with wrong credentials the address is never
\* blocked, whatever nonces are stale, unknown or used twice (RecordFailure).
THEOREM NoFalseBlock == AuthSpec => []HonestNotBlocked
<1>1. AuthInit => AuthTypeOK /\ NonceNamed /\ GuardInv
  <2> SUFFICES ASSUME AuthInit PROVE GuardInv
    BY AuthInitType DEF AuthInit, NonceNamed
  <2>1. failures = 0 /\ ~blocked
    BY DEF AuthInit
  <2> QED BY <2>1, FailedFinite DEF GuardInv
<1>2. AuthTypeOK /\ NonceNamed /\ GuardInv /\ [AuthNext]_authVars
      => AuthTypeOK' /\ NonceNamed' /\ GuardInv'
  BY AuthTypeStep, GuardStep
<1>3. GuardInv => HonestNotBlocked
  <2> DEFINE Wrong == {r \in AuthRequests :
               auth[r] # "idle" /\ credentials[r].nonce # NoNonce /\ ~credentials[r].valid}
  <2>1. Failed \subseteq Wrong /\ Wrong \subseteq AuthRequests
    BY DEF Failed
  <2>2. IsFiniteSet(Wrong) /\ Cardinality(Wrong) \in Nat /\ Cardinality(Failed) <= Cardinality(Wrong)
    BY <2>1, FS_Subset, FS_CardinalityType, AuthAssumption DEF AuthAssumption
  <2> HIDE DEF Wrong
  <2>3. ASSUME GuardInv, blocked PROVE Cardinality(Wrong) >= MaxFailedAttempts
    BY <2>2, <2>3, FailedFinite, AuthAssumption DEF AuthAssumption, GuardInv
  <2> QED BY <2>3 DEF HonestNotBlocked, Wrong
<1> QED BY <1>1, <1>2, <1>3, PTL DEF AuthSpec

=============================================================================
