----------------------------- MODULE MediaLease -----------------------------
(***************************************************************************)
(* The same with the ports: a session is opened with two pairs of the pool *)
(* that nobody else has, under an ID that no other open session has; they  *)
(* are its own until it is closed, and then each is returned once.  No     *)
(* pair goes from one call to another without having been returned.        *)
(***************************************************************************)
EXTENDS MediaSession

CONSTANTS
  Pairs,   \* the port pairs of the range
  IdOf,    \* the ID each user's session has
  Nobody

VARIABLE lease   \* lease[p]: whose pair p is

LeaseInit ==
  /\ SessionInit
  /\ lease = [p \in Pairs |-> Nobody]

Leased(u) == {p \in Pairs : lease[p] = u}

Take(u, p) ==
  /\ lease[p] = Nobody
  /\ lease' = [lease EXCEPT ![p] = u]

\* The caller's pair is found,
TakeFirst(u, p) ==
  /\ life[u] = "none" /\ Leased(u) = {}
  /\ Take(u, p)
  /\ UNCHANGED life

\* and with the callee's the session is complete,
TakeSecond(u, p) ==
  /\ \E q \in Pairs : Leased(u) = {q}
  /\ \A v \in Users : IdOf[v] = IdOf[u] => life[v] \in {"none", "closed"}
  /\ Take(u, p)
  /\ Open(u)

Return(p) == lease' = [lease EXCEPT ![p] = Nobody]

\* or there is none for the callee.
GiveUp(u, p) ==
  /\ life[u] = "none" /\ lease[p] = u
  /\ Return(p)
  /\ UNCHANGED life

\* A closed session's pairs go back one by one.
ReturnPair(u, p) ==
  /\ life[u] = "closed" /\ lease[p] = u
  /\ Return(p)
  /\ UNCHANGED life

LeaseNext == \E u \in Users :
  \/ (Relay(u) \/ Close(u)) /\ UNCHANGED lease
  \/ \E p \in Pairs :
       TakeFirst(u, p) \/ TakeSecond(u, p) \/ GiveUp(u, p) \/ ReturnPair(u, p)

LeaseSpec == LeaseInit /\ [][LeaseNext]_<<life, lease>>

=============================================================================
