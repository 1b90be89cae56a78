------------------------------ MODULE SipAuth ------------------------------
(***************************************************************************)
(* Digest authentication of SIP requests: single-use nonces                *)
(* (internal/sip/auth.go) and the counter of failures that blocks a source *)
(* address (bruteforce.go).                                                *)
(*                                                                         *)
(* Each request is served by a goroutine of its own.  All come from one    *)
(* address, the only thing the guard tells apart.  A step is one look at   *)
(* the nonce table, a sync.Map, or at the guard.                           *)
(***************************************************************************)
EXTENDS Integers, FiniteSets

CONSTANTS
  AuthRequests,      \* requests with or without an Authorization header
  Nonces,            \* the nonces that may be issued
  MaxFailedAttempts  \* failures within the window that block the address

ASSUME AuthAssumption ==
  /\ MaxFailedAttempts \in Nat \ {0}
  /\ IsFiniteSet(AuthRequests)

NoNonce == "none"
Credentials == [nonce : Nonces \union {NoNonce}, valid : BOOLEAN]

VARIABLES
  nonces,        \* nonces[n]: not issued, "fresh" or "stale" in the table, or "gone"
  failures,      \* failures of the address in the window
  blocked,       \* whether it is blocked
  credentials,   \* credentials[r]: what the header of r says
  auth,          \* auth[r]: where Authenticate is, or its answer
  authenticated, \* history: the requests it accepted
  shared         \* history: nonces that two requests verified at once

guardVars == <<failures, blocked>>
authVars == <<nonces, guardVars, credentials, auth, authenticated, shared>>

\* Earlier requests may have been challenged already.
AuthInit ==
  /\ nonces \in [Nonces -> {"unissued", "fresh"}]
  /\ failures = 0
  /\ blocked = FALSE
  /\ credentials = [r \in AuthRequests |-> [nonce |-> NoNonce, valid |-> FALSE]]
  /\ auth = [r \in AuthRequests |-> "idle"]
  /\ authenticated = {}
  /\ shared = {}

AuthGoes(r, label) == auth' = [auth EXCEPT ![r] = label]

\* The failure that reaches the limit blocks the address and clears its failures.
RecordFailure ==
  IF blocked THEN UNCHANGED guardVars
  ELSE IF failures + 1 >= MaxFailedAttempts THEN blocked' = TRUE /\ failures' = 0
  ELSE failures' = failures + 1 /\ UNCHANGED blocked

\* Mutant: a nonce that stays in the table after it was used.
KeepNonce(n) == nonces

\* A new nonce; Nonces bounds how many there are.
StoreNonce ==
  \/ \E n \in Nonces : nonces[n] = "unissued" /\ nonces' = [nonces EXCEPT ![n] = "fresh"]
  \/ (\A n \in Nonces : nonces[n] # "unissued") /\ UNCHANGED nonces

\* Mutant: Authenticate that counts every challenge as a failure.
ChallengeCounts(r) ==
  /\ StoreNonce
  /\ RecordFailure
  /\ AuthGoes(r, "challenged")

-----------------------------------------------------------------------------
(* Actions.                                                                *)

\* 401 with a new nonce.
Challenge(r) ==
  /\ StoreNonce
  /\ UNCHANGED guardVars
  /\ AuthGoes(r, "challenged")

\* A blocked address is refused, a request without credentials challenged,
\* a header that cannot be parsed is a failure.
Authenticate(r, q) ==
  /\ auth[r] = "idle"
  /\ credentials' = [credentials EXCEPT ![r] = q]
  /\ \/ blocked /\ AuthGoes(r, "refused") /\ UNCHANGED <<nonces, guardVars>>
     \/ ~blocked /\ q.nonce = NoNonce /\ Challenge(r)
     \/ /\ ~blocked /\ q.nonce # NoNonce /\ ~q.valid
        /\ RecordFailure
        /\ AuthGoes(r, "refused")
        /\ UNCHANGED nonces
     \/ ~blocked /\ q.nonce # NoNonce /\ AuthGoes(r, "load") /\ UNCHANGED <<nonces, guardVars>>
  /\ UNCHANGED <<authenticated, shared>>

\* The nonce is looked up: unknown or too old, the phone is challenged again.
LoadNonce(r) ==
  /\ auth[r] = "load"
  /\ LET n == credentials[r].nonce IN
     \/ /\ nonces[n] # "fresh"
        /\ Challenge(r)
        /\ UNCHANGED shared
     \/ /\ nonces[n] = "fresh"
        /\ AuthGoes(r, "verify")
        /\ shared' = IF \E s \in AuthRequests \ {r} :
                          auth[s] \in {"verify", "consume"} /\ credentials[s].nonce = n
                     THEN shared \union {n} ELSE shared
        /\ UNCHANGED <<nonces, guardVars>>
  /\ UNCHANGED <<credentials, authenticated>>

\* The extension is read and the digest computed: right; wrong, which counts as a
\* failure and is challenged again; a user name nobody has; or an error of ours,
\* which is no failure of the phone's.
VerifyDigest(r) ==
  /\ auth[r] = "verify"
  /\ \/ credentials[r].valid /\ AuthGoes(r, "consume") /\ UNCHANGED <<nonces, guardVars>>
     \/ ~credentials[r].valid /\ RecordFailure /\ StoreNonce /\ AuthGoes(r, "challenged")
     \/ ~credentials[r].valid /\ RecordFailure /\ AuthGoes(r, "refused") /\ UNCHANGED nonces
     \/ AuthGoes(r, "failed") /\ UNCHANGED <<nonces, guardVars>>
  /\ UNCHANGED <<credentials, authenticated, shared>>

UseNonce(n) == [nonces EXCEPT ![n] = "gone"]

\* The nonce is deleted, whoever used it, and the failures are forgiven.
Accept(r) ==
  /\ auth[r] = "consume"
  /\ nonces' = UseNonce(credentials[r].nonce)
  /\ failures' = IF blocked THEN failures ELSE 0
  /\ authenticated' = authenticated \union {r}
  /\ AuthGoes(r, "accepted")
  /\ UNCHANGED <<blocked, credentials, shared>>

\* A nonce grows old, and is deleted by the clean-up or the next look at it.
NonceExpires ==
  /\ \E n \in Nonces : \/ nonces[n] = "fresh" /\ nonces' = [nonces EXCEPT ![n] = "stale"]
                       \/ nonces[n] = "stale" /\ nonces' = [nonces EXCEPT ![n] = "gone"]
  /\ UNCHANGED <<guardVars, credentials, auth, authenticated, shared>>

\* IsBlocked lifts a block that is over, and so does UnblockIP,
LiftBlock == blocked /\ blocked' = FALSE /\ failures' = 0

\* failures leave the window one by one,
PruneFailures == ~blocked /\ failures > 0 /\ failures' = failures - 1 /\ UNCHANGED blocked

\* and Cleanup does both.
GuardForgets ==
  /\ LiftBlock \/ PruneFailures
  /\ UNCHANGED <<nonces, credentials, auth, authenticated, shared>>

AuthNext ==
  \/ \E r \in AuthRequests, q \in Credentials : Authenticate(r, q)
  \/ \E r \in AuthRequests : LoadNonce(r) \/ VerifyDigest(r) \/ Accept(r)
  \/ NonceExpires
  \/ GuardForgets

AuthSpec == AuthInit /\ [][AuthNext]_authVars

-----------------------------------------------------------------------------
(* Properties.                                                             *)

AuthTypeOK ==
  /\ nonces \in [Nonces -> {"unissued", "fresh", "stale", "gone"}]
  /\ failures \in 0 .. MaxFailedAttempts - 1
  /\ blocked \in BOOLEAN
  /\ credentials \in [AuthRequests -> Credentials]
  /\ auth \in [AuthRequests -> {"idle", "load", "verify", "consume", "challenged", "refused",
                                "failed", "accepted"}]
  /\ authenticated \subseteq AuthRequests /\ shared \subseteq Nonces

\* A nonce authenticates one request, unless two verify it at the same time
\* (Authenticate loads it and deletes it in two steps).
NonceUsedOnce ==
  \A r, s \in authenticated :
    credentials[r].nonce = credentials[s].nonce => r = s \/ credentials[r].nonce \in shared

\* Phones with the right password do not get their address blocked, whatever
\* nonces expire, are used twice or come unknown: it takes MaxFailedAttempts
\* requests with wrong credentials (Authenticate, RecordFailure).
HonestNotBlocked ==
  blocked => Cardinality({r \in AuthRequests :
    auth[r] # "idle" /\ credentials[r].nonce # NoNonce /\ ~credentials[r].valid}) >= MaxFailedAttempts

=============================================================================
