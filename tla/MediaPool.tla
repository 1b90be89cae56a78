----------------------------- MODULE MediaPool -----------------------------
(***************************************************************************)
(* RTP media: the pool of port pairs (internal/media/proxy.go), the table  *)
(* of sessions (session.go), the life of a call's MediaSession             *)
(* (lifecycle.go), its relay goroutines (relay.go) and its recorder        *)
(* (recorder.go).                                                          *)
(*                                                                         *)
(* A user is an INVITE handler with the MediaSession it creates; its       *)
(* session's ID is the Call-ID, which a later user may use again.  The     *)
(* BYE and CANCEL goroutines and the reaper release sessions concurrently. *)
(* A step is a critical section of m.mu or p.mu, a socket call, or one     *)
(* iteration of a relay goroutine.                                         *)
(***************************************************************************)
EXTENDS Integers, Sequences, FiniteSets

CONSTANTS
  Users,     \* INVITE handlers that create a media session
  Hangups,   \* the goroutines that serve a BYE or a CANCEL of a call
  Legs,      \* the legs that send: 1 is the caller's, 2 the callee's
  Recorded,  \* the users whose call may be recorded
  Ids,       \* session IDs, which are Call-IDs
  IdOf,      \* [Users -> Ids]
  Nobody,    \* no user
  Foreign,   \* another process of the host
  PortMin,   \* the configured port range
  PortMax,
  Outside    \* the ports other processes may bind

ASSUME PortAssumption ==
  /\ PortMin \in Nat /\ PortMax \in Nat
  /\ PortMin % 2 = 0 /\ PortMin < PortMax

ASSUME UserAssumption ==
  /\ IdOf \in [Users -> Ids] /\ Recorded \subseteq Users
  /\ Nobody \notin Users /\ Foreign \notin Users /\ Nobody # Foreign
  /\ "invite" \notin Hangups

\* The even ports of the range; each stands for an RTP/RTCP pair.
Ports == {p \in PortMin .. PortMax - 1 : p % 2 = 0}

NoPort == 0 - 1

\* The goroutines that use a session are its INVITE handler and its hangups.
Invite(u) == <<u, "invite">>
Releasers(u) == {u} \X (Hangups \union {"invite"})
Reaper == <<Nobody, "reaper">>
Threads == {Reaper} \union UNION {Releasers(u) : u \in Users}

VARIABLES
  allocated,  \* Proxy.allocated
  nextPort,   \* Proxy.nextPort
  bound,      \* bound[p]: whose sockets are open on pair p
  sessions,   \* SessionManager.sessions
  lock,       \* the user that holds m.mu across Allocate
  ports,      \* ports[u]: the pairs of u's Session, caller's first
  state,      \* Session.state
  stopped,    \* Session.stopped
  relay,      \* MediaSession.relay # nil
  forward,    \* forward[u][leg]: the goroutine that reads from the leg
  recorder,   \* the recorder attached to u's relay
  pc,         \* pc[t]: where goroutine t is
  victim,     \* victim[t]: whose Session t is releasing
  orphaned,   \* the IDs the reaper collected
  panicked    \* the process has died

poolVars == <<allocated, nextPort, bound>>
sessionVars == <<ports, state, stopped, relay, forward, recorder>>
vars == <<poolVars, sessions, lock, sessionVars, pc, victim, orphaned, panicked>>

Init ==
  /\ allocated = {}
  /\ nextPort = PortMin
  /\ bound = [p \in Ports |-> Nobody]
  /\ sessions = [i \in Ids |-> Nobody]
  /\ lock = Nobody
  /\ ports = [u \in Users |-> <<>>]
  /\ state = [u \in Users |-> "none"]
  /\ stopped = [u \in Users |-> FALSE]
  /\ relay = [u \in Users |-> FALSE]
  /\ forward = [u \in Users |-> [leg \in Legs |-> "off"]]
  /\ recorder = [u \in Users |-> "none"]
  /\ pc = [t \in Threads |-> "idle"]
  /\ victim = [t \in Threads |-> Nobody]
  /\ orphaned = {}
  /\ panicked = FALSE

Goto(t, label) == pc' = [pc EXCEPT ![t] = label]

-----------------------------------------------------------------------------
(* Mutants: plausible bugs, used by no specification.                      *)

\* Advance that compares with >= instead of >: the last pair is never reached.
AdvanceShort(p) == IF p + 2 >= PortMax - 1 THEN PortMin ELSE p + 2

\* Advance that never wraps around.
AdvanceUnwrapped(p) == p + 2

\* SessionManager.Release without its check that the session is in the table.
RemoveSessionUnchecked(t, id) ==
  /\ lock = Nobody
  /\ t = Reaper => sessions[id] # Nobody
  /\ victim' = [victim EXCEPT ![t] = IF t = Reaper THEN sessions[id] ELSE t[1]]
  /\ sessions' = [sessions EXCEPT ![id] = Nobody]
  /\ Goto(t, "halt")

\* SessionManager.Release that does not delete the entry.
RemoveSessionKept(t, id) ==
  /\ lock = Nobody
  /\ IF sessions[id] = Nobody
     THEN Goto(t, IF t = Reaper THEN "reap" ELSE "done") /\ UNCHANGED victim
     ELSE victim' = [victim EXCEPT ![t] = sessions[id]] /\ Goto(t, "halt")
  /\ UNCHANGED sessions

\* Proxy.Release that returns the pair before it closes the sockets.
ClosePairLate(t, n) ==
  /\ allocated' = allocated \ {ports[victim[t]][n]}
  /\ UNCHANGED <<nextPort, bound>>

\* UndoFirst that closes the sockets and does not return the pair.
UndoFirstLeaks(u) ==
  /\ pc[Invite(u)] = "undo"
  /\ bound' = [bound EXCEPT ![ports[u][1]] = Nobody]
  /\ lock' = Nobody
  /\ Goto(Invite(u), "done")
  /\ UNCHANGED <<allocated, nextPort, sessions, sessionVars, victim, orphaned, panicked>>

\* Session.Stop that sets the state and not the flag the relay reads.
HaltStateOnly(u) ==
  /\ state' = [state EXCEPT ![u] = "stopped"]
  /\ UNCHANGED stopped

-----------------------------------------------------------------------------
(* The port pool.                                                          *)

\* nextPort wraps around when no pair is left above.
Advance(p) == IF p + 2 > PortMax - 1 THEN PortMin ELSE p + 2

Capacity == (PortMax - PortMin + 1) \div 2

\* bindPair succeeds on a pair nobody is bound to.
Usable(p) == p \notin allocated /\ bound[p] = Nobody

\* Proxy.Allocate's loop: from nextPort on, until it is back where it began.
Scan[p \in Ports] ==
  IF Usable(p) THEN p ELSE IF Advance(p) = nextPort THEN NoPort ELSE Scan[Advance(p)]

Found == IF Cardinality(allocated) >= Capacity THEN NoPort ELSE Scan[nextPort]

\* Proxy.Allocate, for u's next pair.
AllocatePair(u) ==
  /\ Found # NoPort
  /\ allocated' = allocated \union {Found}
  /\ bound' = [bound EXCEPT ![Found] = u]
  /\ nextPort' = Advance(Found)
  /\ ports' = [ports EXCEPT ![u] = Append(@, Found)]

\* Proxy.Release: the sockets are closed, then the pair is returned.
ClosePair(t, n) ==
  LET p == ports[victim[t]][n]
  IN  /\ bound' = [bound EXCEPT ![p] = IF @ = victim[t] THEN Nobody ELSE @]
      /\ UNCHANGED <<allocated, nextPort>>

FreePair(t, n) ==
  /\ allocated' = allocated \ {ports[victim[t]][n]}
  /\ UNCHANGED <<nextPort, bound>>

\* Other processes come and go.
ForeignProcess ==
  /\ \E p \in Outside \intersect Ports :
       \/ bound[p] = Nobody  /\ bound' = [bound EXCEPT ![p] = Foreign]
       \/ bound[p] = Foreign /\ bound' = [bound EXCEPT ![p] = Nobody]
  /\ UNCHANGED <<allocated, nextPort, sessions, lock, sessionVars, pc, victim,
                 orphaned, panicked>>

-----------------------------------------------------------------------------
(* SessionManager.Allocate, under m.mu; other users of the pool come between *)
(* its two allocations.                                                    *)

AllocateCaller(u) ==
  /\ pc[Invite(u)] = "idle"
  /\ lock = Nobody
  /\ \/ /\ sessions[IdOf[u]] # Nobody \/ Found = NoPort
        /\ Goto(Invite(u), "done")
        /\ UNCHANGED <<poolVars, ports, lock>>
     \/ /\ sessions[IdOf[u]] = Nobody
        /\ AllocatePair(u)
        /\ lock' = u
        /\ Goto(Invite(u), "second")
  /\ UNCHANGED <<sessions, state, stopped, relay, forward, recorder, victim,
                 orphaned, panicked>>

AllocateCallee(u) ==
  /\ pc[Invite(u)] = "second"
  /\ \/ /\ Found = NoPort
        /\ Goto(Invite(u), "undo")
        /\ UNCHANGED <<poolVars, ports, sessions, state, lock>>
     \/ /\ AllocatePair(u)
        /\ sessions' = [sessions EXCEPT ![IdOf[u]] = u]
        /\ state' = [state EXCEPT ![u] = "new"]
        /\ lock' = Nobody
        /\ Goto(Invite(u), "ready")
  /\ UNCHANGED <<stopped, relay, forward, recorder, victim, orphaned, panicked>>

\* The second pair is missing: the first one is released.
UndoFirst(u) ==
  /\ pc[Invite(u)] = "undo"
  /\ bound' = [bound EXCEPT ![ports[u][1]] = Nobody]
  /\ allocated' = allocated \ {ports[u][1]}
  /\ lock' = Nobody
  /\ Goto(Invite(u), "done")
  /\ UNCHANGED <<nextPort, sessions, sessionVars, victim, orphaned, panicked>>

-----------------------------------------------------------------------------
(* The life of a MediaSession.                                             *)

\* StartRelay under ms.mu: first the session's state is read.
CheckNew(u) ==
  /\ pc[Invite(u)] = "ready"
  /\ Goto(Invite(u), IF state[u] = "new" THEN "starting" ELSE "stop")
  /\ UNCHANGED <<poolVars, sessions, lock, sessionVars, victim, orphaned, panicked>>

\* Relay.Start.
StartRelay(u) ==
  /\ pc[Invite(u)] = "starting"
  /\ state' = [state EXCEPT ![u] = "active"]
  /\ relay' = [relay EXCEPT ![u] = TRUE]
  /\ forward' = [forward EXCEPT ![u] = [leg \in Legs |-> "read"]]
  /\ Goto(Invite(u), "live")
  /\ UNCHANGED <<poolVars, sessions, lock, ports, stopped, recorder, victim,
                 orphaned, panicked>>

\* The call is established, recorded or not; or it fails, before or after the
\* relay was started.
Establish(u) ==
  /\ pc[Invite(u)] = "live"
  /\ \E r \in IF u \in Recorded THEN {"none", "open"} ELSE {"none"} :
       recorder' = [recorder EXCEPT ![u] = r]
  /\ Goto(Invite(u), "up")
  /\ UNCHANGED <<poolVars, sessions, lock, ports, state, stopped, relay, forward,
                 victim, orphaned, panicked>>

FailCall(u) ==
  /\ pc[Invite(u)] \in {"ready", "live"}
  /\ Goto(Invite(u), "stop")
  /\ UNCHANGED <<poolVars, sessions, lock, sessionVars, victim, orphaned, panicked>>

\* PendingCallManager.Cancel releases the bridge; the INVITE handler of an
\* outbound call does too.
CancelCall(u) ==
  /\ pc[Invite(u)] = "ready"
  /\ \E label \in {"stop", "done"}, h \in Hangups :
       pc' = [pc EXCEPT ![Invite(u)] = label, ![<<u, h>>] = "stop"]
  /\ UNCHANGED <<poolVars, sessions, lock, sessionVars, victim, orphaned, panicked>>

\* A BYE, or a CANCEL that finds the dialog.
Hangup(u, t) ==
  /\ pc[Invite(u)] = "up"
  /\ pc[t] = "idle"
  /\ Goto(t, "record")
  /\ UNCHANGED <<poolVars, sessions, lock, sessionVars, victim, orphaned, panicked>>

\* Recorder.Stop closes the channel the relay feeds.
StopRecorder(u, t) ==
  /\ pc[t] = "record"
  /\ recorder' = [recorder EXCEPT ![u] = IF @ = "open" THEN "closed" ELSE @]
  /\ Goto(t, "stop")
  /\ UNCHANGED <<poolVars, sessions, lock, ports, state, stopped, relay, forward,
                 victim, orphaned, panicked>>

\* Session.Stop.
Halt(u) ==
  /\ state' = [state EXCEPT ![u] = "stopped"]
  /\ stopped' = [stopped EXCEPT ![u] = TRUE]

\* MediaSession.Stop: with a relay running, wait for its goroutines.
StopSession(u, t) ==
  /\ pc[t] = "stop"
  /\ pc[Invite(u)] # "starting"
  /\ Halt(u)
  /\ Goto(t, IF relay[u] THEN "wait" ELSE "remove")
  /\ UNCHANGED <<poolVars, sessions, lock, ports, relay, forward, recorder, victim,
                 orphaned, panicked>>

WaitForRelay(u, t) ==
  /\ pc[t] = "wait"
  /\ \A leg \in Legs : forward[u][leg] = "off"
  /\ Goto(t, "remove")
  /\ UNCHANGED <<poolVars, sessions, lock, sessionVars, victim, orphaned, panicked>>

\* SessionManager.Release: who deletes the entry, releases what it held.
RemoveSession(t, id) ==
  /\ lock = Nobody
  /\ \/ /\ sessions[id] = Nobody
        /\ Goto(t, IF t = Reaper THEN "reap" ELSE "done")
        /\ UNCHANGED <<sessions, victim>>
     \/ /\ sessions[id] # Nobody
        /\ victim' = [victim EXCEPT ![t] = sessions[id]]
        /\ sessions' = [sessions EXCEPT ![id] = Nobody]
        /\ Goto(t, "halt")

ReleaseOwn(u, t) ==
  /\ pc[t] = "remove"
  /\ RemoveSession(t, IdOf[u])
  /\ UNCHANGED <<poolVars, lock, sessionVars, orphaned, panicked>>

HaltRemoved(t) ==
  /\ pc[t] = "halt"
  /\ Halt(victim[t])
  /\ Goto(t, "closeCaller")
  /\ UNCHANGED <<poolVars, sessions, lock, ports, relay, forward, recorder, victim,
                 orphaned, panicked>>

\* The four steps of releasing the two pairs.
ReleasePairs(t) ==
  /\ \/ pc[t] = "closeCaller" /\ ClosePair(t, 1) /\ Goto(t, "freeCaller")
     \/ pc[t] = "freeCaller"  /\ FreePair(t, 1)  /\ Goto(t, "closeCallee")
     \/ pc[t] = "closeCallee" /\ ClosePair(t, 2) /\ Goto(t, "freeCallee")
     \/ /\ pc[t] = "freeCallee" /\ FreePair(t, 2)
        /\ Goto(t, IF t = Reaper THEN "reap" ELSE "done")
  /\ UNCHANGED <<sessions, lock, sessionVars, victim, orphaned, panicked>>

\* reapOrphaned: any session may have been idle for the timeout.
ScanIdle ==
  /\ pc[Reaper] = "idle"
  /\ lock = Nobody
  /\ \E idle \in SUBSET {id \in Ids : sessions[id] # Nobody} :
       idle # {} /\ orphaned' = idle
  /\ Goto(Reaper, "reap")
  /\ UNCHANGED <<poolVars, sessions, lock, sessionVars, victim, panicked>>

Reap ==
  /\ pc[Reaper] = "reap"
  /\ \/ \E id \in orphaned :
          RemoveSession(Reaper, id) /\ orphaned' = orphaned \ {id}
     \/ /\ orphaned = {}
        /\ Goto(Reaper, "idle")
        /\ UNCHANGED <<sessions, victim, orphaned>>
  /\ UNCHANGED <<poolVars, lock, sessionVars, panicked>>

-----------------------------------------------------------------------------
(* The relay: forward's loop, one goroutine for each leg that sends.  The   *)
(* read of the stopped flag is part of the step that follows it.           *)

StopForwarding(u, leg) ==
  /\ forward[u][leg] = "read"
  /\ stopped[u]
  /\ forward' = [forward EXCEPT ![u][leg] = "off"]
  /\ UNCHANGED <<poolVars, sessions, lock, ports, state, stopped, relay, recorder, pc,
                 victim, orphaned, panicked>>

\* A packet to forward; after an error, a timeout or a dropped packet the loop
\* only goes round again.
ReadPacket(u, leg) ==
  /\ forward[u][leg] = "read"
  /\ ~stopped[u]
  /\ bound[ports[u][leg]] = u
  /\ forward' = [forward EXCEPT ![u][leg] = "feed"]
  /\ UNCHANGED <<poolVars, sessions, lock, ports, state, stopped, relay, recorder, pc,
                 victim, orphaned, panicked>>

\* The packet is fed to the recorder, if it has a payload and the goroutine sees
\* the recorder (it is attached without synchronisation), then written.  A send
\* on a closed channel panics, and the process dies.
FeedPacket(u, leg) ==
  /\ forward[u][leg] = "feed"
  /\ forward' = [forward EXCEPT ![u][leg] = "read"]
  /\ panicked' \in {FALSE, recorder[u] = "closed"}
  /\ UNCHANGED <<poolVars, sessions, lock, ports, state, stopped, relay, recorder, pc,
                 victim, orphaned>>

-----------------------------------------------------------------------------
InviteStep(u) ==
  \/ AllocateCallee(u) \/ UndoFirst(u)
  \/ CheckNew(u) \/ StartRelay(u) \/ Establish(u) \/ FailCall(u)

ReleaseStep(u, t) ==
  \/ StopRecorder(u, t) \/ StopSession(u, t) \/ WaitForRelay(u, t)
  \/ ReleaseOwn(u, t) \/ HaltRemoved(t) \/ ReleasePairs(t)

ReaperStep == HaltRemoved(Reaper) \/ ReleasePairs(Reaper) \/ Reap

RelayStep(u, leg) == StopForwarding(u, leg) \/ FeedPacket(u, leg)

UserStep(u) ==
  \/ AllocateCaller(u) \/ CancelCall(u) \/ InviteStep(u)
  \/ \E h \in Hangups : Hangup(u, <<u, h>>)
  \/ \E t \in Releasers(u) : ReleaseStep(u, t)
  \/ \E leg \in Legs : RelayStep(u, leg) \/ ReadPacket(u, leg)

Next ==
  /\ ~panicked
  /\ \/ \E u \in Users : UserStep(u)
     \/ ScanIdle \/ ReaperStep \/ ForeignProcess

Spec == Init /\ [][Next]_vars

\* Goroutines are scheduled, and a read gives up after 100 ms; no packet need
\* ever come.
Fairness ==
  /\ WF_vars(~panicked /\ ReaperStep)
  /\ \A u \in Users :
       /\ WF_vars(~panicked /\ InviteStep(u))
       /\ \A t \in Releasers(u) : WF_vars(~panicked /\ ReleaseStep(u, t))
       /\ \A leg \in Legs : WF_vars(~panicked /\ RelayStep(u, leg))

LiveSpec == Spec /\ Fairness

-----------------------------------------------------------------------------
(* Properties.                                                             *)

Labels == {"idle", "second", "undo", "ready", "starting", "live", "up", "record",
           "stop", "wait", "remove", "halt", "closeCaller", "freeCaller",
           "closeCallee", "freeCallee", "reap", "done"}

\* The types of the variables; no user has more than two pairs.
TypeOK ==
  /\ allocated \subseteq Ports
  /\ nextPort \in Ports
  /\ bound \in [Ports -> Users \union {Nobody, Foreign}]
  /\ sessions \in [Ids -> Users \union {Nobody}]
  /\ lock \in Users \union {Nobody}
  /\ ports \in [Users -> Seq(Ports)] /\ \A u \in Users : Len(ports[u]) <= 2
  /\ state \in [Users -> {"none", "new", "active", "stopped"}]
  /\ stopped \in [Users -> BOOLEAN] /\ relay \in [Users -> BOOLEAN]
  /\ forward \in [Users -> [Legs -> {"off", "read", "feed"}]]
  /\ recorder \in [Users -> {"none", "open", "closed"}]
  /\ pc \in [Threads -> Labels]
  /\ victim \in [Threads -> Users \union {Nobody}]
  /\ orphaned \subseteq Ids
  /\ panicked \in BOOLEAN

\* A session in the table has its two pairs to itself, allocated and bound,
\* whoever else is being released: no pair is given back twice.
SessionsOwnPorts == \A id \in Ids : sessions[id] # Nobody =>
  LET u == sessions[id]
  IN  /\ Len(ports[u]) = 2 /\ ports[u][1] # ports[u][2]
      /\ \A n \in 1 .. 2 : ports[u][n] \in allocated /\ bound[ports[u][n]] = u

\* A pair is out of the pool for as long as the PBX has its sockets open, so
\* Allocate never runs into the PBX's own sockets.
OpenPairsAllocated == \A p \in Ports : bound[p] \in Users => p \in allocated

\* The goroutine releasing p, of the session it removed, or about to.
Releasing(u, p) == \E t \in Threads : victim[t] = u /\
  \/ pc[t] \in {"halt", "closeCaller", "freeCaller"}
  \/ pc[t] \in {"closeCallee", "freeCallee"} /\ p = ports[u][2]

\* u has pair p: its session is in the table, or being allocated, or released.
HasPair(u, p) ==
  /\ \E n \in 1 .. Len(ports[u]) : ports[u][n] = p
  /\ sessions[IdOf[u]] = u \/ lock = u \/ Releasing(u, p)

\* No pair leaks: what is allocated belongs to a session in the table, to one
\* being allocated, or to one that is being released.
NoLeak == \A p \in allocated : \E u \in Users : HasPair(u, p)

\* How far u's session has come, and whose pair p is.
Life(u) ==
  IF sessions[IdOf[u]] = u THEN IF relay[u] THEN "relaying" ELSE "new"
  ELSE IF Len(ports[u]) = 2 THEN "closed" ELSE "none"

LeaseOf(p) == IF p \in allocated THEN CHOOSE u \in Users : HasPair(u, p) ELSE Nobody

Lease == INSTANCE MediaLease WITH
  Pairs <- Ports,
  life  <- [u \in Users |-> Life(u)],
  lease <- [p \in Ports |-> LeaseOf(p)]

\* Allocation in two critical sections, release in six steps by whoever comes
\* and the relay in between implement what MediaLease promises: a session opens
\* with two pairs of its own, closes once, and returns each pair once.
ImplementsLease == Lease!LeaseSpec

\* A call is turned away for want of ports only if no pair could be had.
RefusedOnlyWhenFull == [][\A u \in Users :
  (/\ \/ pc[Invite(u)] = "idle" /\ pc'[Invite(u)] = "done" /\ sessions[IdOf[u]] = Nobody
      \/ pc'[Invite(u)] = "undo" /\ pc[Invite(u)] # "undo")
  => \A p \in Ports : ~Usable(p)]_vars

\* A release always comes to its end, however many goroutines release the
\* session at once: the relay's goroutines stop and the pairs are closed.
ReleaseEnds == \A u \in Users : \A t \in Releasers(u) :
  pc[t] = "stop" ~>
    \/ /\ \A leg \in Legs : forward[u][leg] = "off"
       /\ \A p \in Ports : bound[p] # u
    \/ panicked

\* Recorder: "Feed may be called concurrently from multiple relay goroutines",
\* and handleBYE stops the recorder "before releasing media so the recorder can
\* drain remaining packets from the relay".  A packet read before, and fed after
\* the recorder was stopped, kills the process.
RecorderSurvivesHangup == ~panicked

=============================================================================
