----------------------------- MODULE Conference -----------------------------
(***************************************************************************)
(* The rooms of one conference bridge (internal/media/conference.go,       *)
(* mixer.go, conference_recorder.go) under calls that join and leave       *)
(* (JoinConference in internal/sip/flowactions.go) and an administrator    *)
(* who kicks (internal/api/conference_bridge_handlers.go).                 *)
(*                                                                         *)
(* ConferenceManager locks its table, not the room: a caller that has      *)
(* looked its room up may find it destroyed, or replaced by another.       *)
(***************************************************************************)
EXTENDS Integers, FiniteSets

CONSTANTS
  Guests,     \* calls that join
  RoomLimit,  \* ConferenceBridge.MaxMembers, 0 if there is none
  MaxRooms,   \* rooms that are created at most
  RoomFaults  \* what may go wrong: "ports", "recorder", "respond"

Admin == "admin"

ASSUME ConferenceAssumption ==
  /\ RoomLimit \in Nat /\ MaxRooms \in Nat \ {0}
  /\ Admin \notin Guests

Leavers == Guests \union {Admin}
Rooms == 1 .. MaxRooms
NoRoom == 0

VARIABLES
  table,    \* ConferenceManager.rooms: the room of the bridge, or NoRoom
  created,  \* rooms created so far
  owner,    \* owner[r]: the call whose context Mixer.Start was given
  mixed,    \* mixed[r]: Mixer.participants
  listed,   \* listed[r]: ConferenceRoom.participants
  mixing,   \* mixing[r]: mixLoop, with Mixer.stopped
  shut,     \* rooms whose done is closed
  sockets,  \* sockets[g]: g has a pair of ports
  deadline, \* calls whose context is over
  at,       \* at[l]: where a call or the administrator's request is
  of,       \* of[l]: the room it has looked up
  freeing,  \* freeing[l]: out of a mixer, whose ports l has still to give back
  kicked    \* the participant the administrator kicks

VARIABLES
  crossed,  \* history: a room was destroyed with a call inside, or twice
  panicked  \* history: done was closed a second time

roomVars == <<owner, mixed, listed, mixing, shut>>
confVars == <<table, created, roomVars, sockets, deadline, at, of, freeing, kicked, crossed, panicked>>

ConferenceInit ==
  /\ table = NoRoom /\ created = 0
  /\ owner = [r \in Rooms |-> Admin]
  /\ mixed = [r \in Rooms |-> {}] /\ listed = [r \in Rooms |-> {}]
  /\ mixing = [r \in Rooms |-> "none"]
  /\ shut = {} /\ sockets = {} /\ deadline = {}
  /\ at = [l \in Leavers |-> "out"] /\ of = [l \in Leavers |-> NoRoom]
  /\ freeing = [l \in Leavers |-> {}]
  /\ kicked \in Guests
  /\ crossed = FALSE /\ panicked = FALSE

To(l, label) == at' = [at EXCEPT ![l] = label]
Full(r) == RoomLimit > 0 /\ Cardinality(mixed[r]) >= RoomLimit
Leaving == {"find", "remove", "return", "unlist", "count", "stop", "release", "free", "close"}

\* The process runs on unless a call's goroutine has panicked.
Alive == \A g \in Guests : at[g] # "panic"

-----------------------------------------------------------------------------
(* Mutants: plausible bugs, used by no specification.                      *)

\* A removal that keeps the participant's ports.
FreePortsNot(gs) == sockets' = sockets

\* A mixer whose release does not tell its loop to stop.
StopMixerMute(r) == mixing' = mixing

\* A mixer that ends with the call of any participant.
LoopOverAny(r) == mixing[r] = "stopped" \/ mixed[r] \intersect deadline # {}

-----------------------------------------------------------------------------
(* Join.                                                                   *)

\* NewConferenceRecorder, which creates the file.
RecorderFails == "recorder" \in RoomFaults

\* Under the lock: the bridge's room or a new one, unless its recorder cannot be
\* started; then the limit, also for a room that was just created.
FindRoom(g) ==
  /\ at[g] = "out"
  /\ \/ /\ table # NoRoom
        /\ of' = [of EXCEPT ![g] = table]
        /\ To(g, IF Full(table) THEN "over" ELSE "add")
        /\ UNCHANGED <<table, created, owner, mixing>>
     \/ /\ table = NoRoom /\ created < MaxRooms
        /\ LET r == created + 1 IN
             /\ created' = r /\ table' = r
             /\ of' = [of EXCEPT ![g] = r]
             /\ owner' = [owner EXCEPT ![r] = g]
             /\ mixing' = [mixing EXCEPT ![r] = "running"]
        /\ To(g, "add")
     \/ /\ table = NoRoom /\ RecorderFails
        /\ To(g, "over")
        /\ UNCHANGED <<table, created, owner, mixing, of>>
  /\ UNCHANGED <<mixed, listed, shut, sockets, deadline, freeing, kicked, crossed, panicked>>

\* AddParticipant, outside the lock.  If it fails a new room stays, empty.
AddToMixer(g) ==
  /\ at[g] = "add"
  /\ \/ /\ mixed' = [mixed EXCEPT ![of[g]] = @ \union {g}]
        /\ sockets' = sockets \union {g}
        /\ crossed' = (crossed \/ table # of[g])
        /\ To(g, "list")
     \/ /\ "ports" \in RoomFaults
        /\ To(g, "over")
        /\ UNCHANGED <<mixed, sockets, crossed>>
  /\ UNCHANGED <<table, created, owner, listed, mixing, shut, deadline, of, freeing, kicked, panicked>>

\* The participant is listed and the caller gets its 200; if that fails it leaves.
ListAndAnswer(g) ==
  /\ at[g] = "list"
  /\ listed' = [listed EXCEPT ![of[g]] = @ \union {g}]
  /\ \/ To(g, "in")
     \/ "respond" \in RoomFaults /\ To(g, "find")
  /\ UNCHANGED <<table, created, owner, mixed, mixing, shut, sockets, deadline, of, freeing,
                 kicked, crossed, panicked>>

\* The deadline of the node passes, or the node has returned: its context is over.
\* The call leaves when it has joined.
DeadlinePasses(g) ==
  /\ at[g] \in {"add", "list", "in", "over"} /\ g \notin deadline
  /\ deadline' = deadline \union {g}
  /\ UNCHANGED <<table, created, roomVars, sockets, at, of, freeing, kicked, crossed, panicked>>

LeaveOnDeadline(g) ==
  /\ at[g] = "in" /\ g \in deadline
  /\ To(g, "find")
  /\ UNCHANGED <<table, created, roomVars, sockets, deadline, of, freeing, kicked, crossed, panicked>>

\* The administrator kicks somebody; the call does not notice.
StartKick ==
  /\ at[Admin] = "out"
  /\ To(Admin, "find")
  /\ UNCHANGED <<table, created, roomVars, sockets, deadline, of, freeing, kicked, crossed, panicked>>

-----------------------------------------------------------------------------
(* Leave, by the call or for it.                                           *)

Leaver(l) == IF l = Admin THEN kicked ELSE l

\* The room of the bridge now, which need not be the one that was joined.
FindRoomToLeave(l) ==
  /\ at[l] = "find"
  /\ of' = [of EXCEPT ![l] = table]
  /\ To(l, IF table = NoRoom THEN "over" ELSE "remove")
  /\ UNCHANGED <<table, created, roomVars, sockets, deadline, freeing, kicked, crossed, panicked>>

\* RemoveParticipant: out of the mixer under its lock,
RemoveFromMixer(l) ==
  /\ at[l] = "remove"
  /\ IF Leaver(l) \in mixed[of[l]]
     THEN /\ mixed' = [mixed EXCEPT ![of[l]] = @ \ {Leaver(l)}]
          /\ freeing' = [freeing EXCEPT ![l] = {Leaver(l)}]
          /\ To(l, "return")
     ELSE To(l, "over") /\ UNCHANGED <<mixed, freeing>>
  /\ UNCHANGED <<table, created, owner, listed, mixing, shut, sockets, deadline, of, kicked,
                 crossed, panicked>>

FreePorts(gs) == sockets' = sockets \ gs

\* and the ports are given back after it, here and in Release.
ReturnPorts(l) ==
  /\ at[l] \in {"return", "free"}
  /\ FreePorts(freeing[l])
  /\ freeing' = [freeing EXCEPT ![l] = {}]
  /\ To(l, IF at[l] = "return" THEN "unlist" ELSE "close")
  /\ UNCHANGED <<table, created, roomVars, deadline, of, kicked, crossed, panicked>>

Unlist(l) ==
  /\ at[l] = "unlist"
  /\ listed' = [listed EXCEPT ![of[l]] = @ \ {Leaver(l)}]
  /\ To(l, "count")
  /\ UNCHANGED <<table, created, owner, mixed, mixing, shut, sockets, deadline, of, freeing,
                 kicked, crossed, panicked>>

Emptied(r) == mixed[r] = {}

\* Under the lock: an empty room is taken out of the table, by the bridge's ID:
\* another room, that was opened since, goes with it.
DestroyIfEmpty(l) ==
  /\ at[l] = "count"
  /\ IF Emptied(of[l])
     THEN /\ table' = NoRoom
          /\ crossed' = (crossed \/ table # of[l])
          /\ To(l, "stop")
     ELSE To(l, "over") /\ UNCHANGED <<table, crossed>>
  /\ UNCHANGED <<created, roomVars, sockets, deadline, of, freeing, kicked, panicked>>

StopMixer(r) == mixing' = [mixing EXCEPT ![r] = IF @ = "ended" THEN "ended" ELSE "stopped"]

\* Mixer.Release: stop the mixing, and wait for it.
TellLoop(l) ==
  /\ at[l] = "stop"
  /\ StopMixer(of[l])
  /\ To(l, "release")
  /\ UNCHANGED <<table, created, owner, mixed, listed, shut, sockets, deadline, of, freeing,
                 kicked, crossed, panicked>>

\* Whoever came in between is taken out too, under the lock; after it the ports go
\* back and the recorder is stopped.
ReleaseMixer(l) ==
  /\ at[l] = "release" /\ mixing[of[l]] = "ended"
  /\ mixed' = [mixed EXCEPT ![of[l]] = {}]
  /\ freeing' = [freeing EXCEPT ![l] = mixed[of[l]]]
  /\ To(l, "free")
  /\ UNCHANGED <<table, created, owner, listed, mixing, shut, sockets, deadline, of, kicked,
                 crossed, panicked>>

\* close(room.done), which panics the second time: in a call's goroutine nobody
\* recovers and the process ends; the administrator's request is answered 500.
CloseDone(l) ==
  /\ at[l] = "close"
  /\ panicked' = (panicked \/ of[l] \in shut)
  /\ shut' = shut \union {of[l]}
  /\ To(l, IF l \in Guests /\ of[l] \in shut THEN "panic" ELSE "over")
  /\ UNCHANGED <<table, created, owner, mixed, listed, mixing, sockets, deadline, of, freeing,
                 kicked, crossed>>

\* mixLoop ends when it was stopped or the context of its room's first call is over.
LoopOver(r) == mixing[r] = "stopped" \/ owner[r] \in deadline

EndMixLoop(r) ==
  /\ mixing[r] \in {"running", "stopped"} /\ LoopOver(r)
  /\ mixing' = [mixing EXCEPT ![r] = "ended"]
  /\ UNCHANGED <<table, created, owner, mixed, listed, shut, sockets, deadline, at, of,
                 freeing, kicked, crossed, panicked>>

LeaveStep(l) ==
  \/ FindRoomToLeave(l) \/ RemoveFromMixer(l) \/ ReturnPorts(l) \/ Unlist(l)
  \/ DestroyIfEmpty(l) \/ TellLoop(l) \/ ReleaseMixer(l) \/ CloseDone(l)

GuestStep(g) == AddToMixer(g) \/ ListAndAnswer(g) \/ LeaveOnDeadline(g) \/ DeadlinePasses(g)

ConferenceNext ==
  /\ Alive
  /\ \/ \E g \in Guests : FindRoom(g) \/ GuestStep(g)
     \/ StartKick
     \/ \E l \in Leavers : LeaveStep(l)
     \/ \E r \in Rooms : EndMixLoop(r)

ConferenceSpec == ConferenceInit /\ [][ConferenceNext]_confVars

-----------------------------------------------------------------------------
(* Properties.                                                             *)

Labels == {"out", "add", "list", "in", "over", "panic"} \union Leaving

ConferenceTypeOK ==
  /\ table \in Rooms \union {NoRoom} /\ created \in 0 .. MaxRooms
  /\ owner \in [Rooms -> Leavers]
  /\ mixed \in [Rooms -> SUBSET Guests] /\ listed \in [Rooms -> SUBSET Guests]
  /\ mixing \in [Rooms -> {"none", "running", "stopped", "ended"}]
  /\ shut \subseteq Rooms /\ sockets \subseteq Guests /\ deadline \subseteq Guests
  /\ at \in [Leavers -> Labels] /\ of \in [Leavers -> Rooms \union {NoRoom}]
  /\ freeing \in [Leavers -> SUBSET Guests]
  /\ kicked \in Guests /\ crossed \in BOOLEAN /\ panicked \in BOOLEAN

\* A call that is over holds no ports, but those of a call that was kicked and that
\* the administrator's request is about to give back (mixer.go:308), unless it joined
\* a room that was being destroyed or destroyed one that was not its own
\* (conference.go:163, :251).
PortsReturned ==
  ~crossed => \A g \in sockets : at[g] = "over" => g \in freeing[Admin]

\* A room somebody is in is in the table and mixes as long as its first call's
\* context is not over; an empty one is destroyed once (conference.go:266).
OccupiedRoomMixes ==
  ~crossed => ~panicked /\ \A r \in Rooms :
    mixed[r] # {} => table = r /\ (mixing[r] = "running" \/ owner[r] \in deadline)

\* Whoever leaves, or is kicked, comes back from Leave with its ports given back: its
\* wait for the mix loop ends; unless a second close of done ends the process
\* (conference.go:266).
LeaversReturn ==
  \A l \in Leavers : (at[l] = "find") ~> ((at[l] = "over" /\ freeing[l] = {}) \/ ~Alive)

ConferenceFairness ==
  /\ \A g \in Guests : WF_confVars(Alive /\ GuestStep(g))
  /\ \A l \in Leavers : WF_confVars(Alive /\ LeaveStep(l))
  /\ \A r \in Rooms : WF_confVars(Alive /\ EndMixLoop(r))

ConferenceLiveSpec == ConferenceSpec /\ ConferenceFairness

=============================================================================
