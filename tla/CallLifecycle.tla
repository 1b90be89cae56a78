--------------------------- MODULE CallLifecycle ---------------------------
(***************************************************************************)
(* What the SIP layer promises about a call, whatever goroutine does the   *)
(* work: an INVITE is either refused once or connected once, a connected   *)
(* call is cleared at most once, and a call's end is final.                *)
(***************************************************************************)
CONSTANT Calls

VARIABLE phase  \* phase[c]: how far call c has come

Phases == {"idle", "setup", "refused", "connected", "active", "cleared"}

Init == phase = [c \in Calls |-> "idle"]

Move(c, from, to) ==
  /\ phase[c] \in from
  /\ phase' = [phase EXCEPT ![c] = to]

\* The PBX accepts an INVITE and goes looking for the callee.
Begin(c) == Move(c, {"idle"}, "setup")

\* The caller is told that the call failed or was cancelled.
Refuse(c) == Move(c, {"idle", "setup"}, "refused")

\* The caller is told that the call was answered.
Connect(c) == Move(c, {"setup"}, "connected")

\* The call becomes one that a BYE can find.
Activate(c) == Move(c, {"connected"}, "active")

\* The first hangup that finds the call ends it.
Clear(c) == Move(c, {"active"}, "cleared")

Next == \E c \in Calls :
  Begin(c) \/ Refuse(c) \/ Connect(c) \/ Activate(c) \/ Clear(c)

Spec == Init /\ [][Next]_phase

=============================================================================
