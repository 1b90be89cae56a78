---------------------------- MODULE MCMediaPool ----------------------------
(* Small instances of MediaPool for TLC.                                   *)
EXTENDS MediaPool

CONSTANTS u1, u2, bye, id1

\* A Call-ID that is used again.
SameId == [u \in Users |-> id1]

=============================================================================
