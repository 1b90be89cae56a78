---------------------------- MODULE MediaSession ----------------------------
(***************************************************************************)
(* What the media package promises of a call's session, whoever releases   *)
(* it: it is opened once, its relay starts at most once and only while it  *)
(* is open, and it is closed once, for good.                               *)
(***************************************************************************)
CONSTANT Users  \* the calls, or the handlers that create their sessions

VARIABLE life   \* life[u]: how far u's session has come

SessionInit == life = [u \in Users |-> "none"]

Step(u, from, to) ==
  /\ life[u] \in from
  /\ life' = [life EXCEPT ![u] = to]

\* The session enters the table.
Open(u) == Step(u, {"none"}, "new")

\* Its relay forwards.
Relay(u) == Step(u, {"new"}, "relaying")

\* Somebody takes it out of the table.
Close(u) == Step(u, {"new", "relaying"}, "closed")

SessionNext == \E u \in Users : Open(u) \/ Relay(u) \/ Close(u)

SessionSpec == SessionInit /\ [][SessionNext]_life

=============================================================================
