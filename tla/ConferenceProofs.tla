-------------------------- MODULE ConferenceProofs --------------------------
(***************************************************************************)
(* Theorems about Conference, for any callers, limit, number of rooms and  *)
(* faults: as long as no room was destroyed behind a call's back, rooms    *)
(* and ports are kept and given back as they should.                       *)
(*                                                                         *)
(* And about the mixer's tables in G711: through u-law, louder is louder.  *)
(***************************************************************************)
EXTENDS Conference, G711, TLAPS

\* Leaver l has taken its room out of the table and takes it down.
Destroying(l) == at[l] \in {"stop", "release", "free", "close"}

\* Rooms are numbered as they are created, and whoever works on one has looked
\* up one that was.
RoomsCreated ==
  /\ table \in 0 .. created
  /\ shut \subseteq 1 .. created
  /\ \A l \in Leavers :
       at[l] \in {"add", "list", "remove", "return", "unlist", "count", "stop", "release", "free",
                 "close"} =>
         of[l] \in 1 .. created

\* The participants of the mixers are calls that are inside, or about to leave, the
\* room of the table; only they, and those whose ports are about to be given back,
\* have ports.
GuestsInside ==
  /\ \A r \in Rooms : mixed[r] # {} => table = r
  /\ \A r \in Rooms : \A g \in mixed[r] : at[g] \in {"list", "in", "find", "remove"} /\ of[g] = r
  /\ \A g \in sockets : (\E r \in Rooms : g \in mixed[r]) \/ \E l \in Leavers : g \in freeing[l]

\* Only who has just taken a call out of its mixer has ports to give back, that call's.
FreeingOwn ==
  \A l \in Leavers : freeing[l] # {} => at[l] = "return" /\ freeing[l] = {Leaver(l)}

\* The room of the table is mixed, and no one takes it down.
TableAlive ==
  table # NoRoom => /\ mixing[table] = "running" \/ owner[table] \in deadline
                    /\ table \notin shut

\* A room is taken down once, after it left the table.
DestroyedOnce ==
  /\ \A l \in Leavers : Destroying(l) => of[l] # table /\ of[l] \notin shut
  /\ \A l, m \in Leavers : l # m /\ Destroying(l) /\ Destroying(m) => of[l] # of[m]
  /\ ~panicked

ConfInv == RoomsCreated /\ (~crossed => GuestsInside /\ FreeingOwn /\ TableAlive /\ DestroyedOnce)

-----------------------------------------------------------------------------
(* Type correctness.                                                       *)

LEMMA RoomFacts == Rooms \subseteq Nat \ {0} /\ NoRoom = 0 /\ NoRoom \notin Rooms
BY ConferenceAssumption DEF ConferenceAssumption, Rooms, NoRoom

LEMMA ConferenceInitType == ConferenceInit => ConferenceTypeOK /\ ConfInv
<1> SUFFICES ASSUME ConferenceInit PROVE ConferenceTypeOK /\ ConfInv
  OBVIOUS
<1>1. ConferenceTypeOK
  <2>1. created \in 0 .. MaxRooms
    BY ConferenceAssumption DEF ConferenceAssumption, ConferenceInit
  <2>2. owner \in [Rooms -> Leavers] /\ mixed \in [Rooms -> SUBSET Guests] /\ listed \in [Rooms -> SUBSET Guests]
    BY DEF ConferenceInit, Leavers
  <2>3. at \in [Leavers -> Labels] /\ of \in [Leavers -> Rooms \union {NoRoom}]
        /\ freeing \in [Leavers -> SUBSET Guests]
    BY DEF ConferenceInit, Labels
  <2> QED BY <2>1, <2>2, <2>3 DEF ConferenceInit, ConferenceTypeOK
<1>2. RoomsCreated
  BY DEF ConferenceInit, RoomsCreated, NoRoom
<1>3. GuestsInside /\ FreeingOwn /\ TableAlive /\ DestroyedOnce
  BY DEF ConferenceInit, GuestsInside, FreeingOwn, TableAlive, DestroyedOnce, Destroying
<1> QED BY <1>1, <1>2, <1>3 DEF ConfInv

\* Every step keeps the types and the numbers of the rooms.
LEMMA ConferenceTypeStep ==
  ASSUME ConferenceTypeOK, RoomsCreated, [ConferenceNext]_confVars
  PROVE  ConferenceTypeOK' /\ RoomsCreated'
<1> USE RoomFacts DEF ConferenceTypeOK, RoomsCreated, Labels, Leaving, To, roomVars
<1>1. ASSUME NEW g \in Guests, FindRoom(g) PROVE ConferenceTypeOK' /\ RoomsCreated'
  <2>1. at[g] = "out" /\ UNCHANGED <<mixed, listed, shut, sockets, deadline, freeing, kicked, crossed, panicked>>
    BY <1>1 DEF FindRoom
  <2>2. CASE /\ table # NoRoom /\ of' = [of EXCEPT ![g] = table]
             /\ \E l \in {"over", "add"} : at' = [at EXCEPT ![g] = l]
             /\ UNCHANGED <<table, created, owner, mixing>>
    BY <2>1, <2>2 DEF Leavers
  <2>3. CASE /\ table = NoRoom /\ created < MaxRooms
             /\ created' = created + 1 /\ table' = created + 1 /\ of' = [of EXCEPT ![g] = created + 1]
             /\ owner' = [owner EXCEPT ![created + 1] = g]
             /\ mixing' = [mixing EXCEPT ![created + 1] = "running"] /\ at' = [at EXCEPT ![g] = "add"]
    <3>1. created + 1 \in Rooms /\ created' \in 0 .. MaxRooms /\ 1 .. created \subseteq 1 .. created'
      BY <2>3, ConferenceAssumption DEF ConferenceAssumption, Rooms
    <3>2. RoomsCreated'
      BY <2>1, <2>3, <3>1 DEF Leavers
    <3>3. ConferenceTypeOK'
      BY <2>1, <2>3, <3>1 DEF Leavers
    <3> QED BY <3>2, <3>3
  <2>4. CASE at' = [at EXCEPT ![g] = "over"] /\ UNCHANGED <<table, created, owner, mixing, of>>
    BY <2>1, <2>4 DEF Leavers
  <2> QED BY <1>1, <2>2, <2>3, <2>4 DEF FindRoom
<1>2. ASSUME NEW g \in Guests, AddToMixer(g) PROVE ConferenceTypeOK' /\ RoomsCreated'
  <2>1. crossed' \in BOOLEAN
    <3>1. crossed' = (crossed \/ table # of[g]) \/ UNCHANGED crossed
      BY <1>2 DEF AddToMixer
    <3> QED BY <3>1
  <2> QED BY <1>2, <2>1 DEF AddToMixer, Leavers
<1>3. ASSUME NEW g \in Guests, ListAndAnswer(g) PROVE ConferenceTypeOK' /\ RoomsCreated'
  BY <1>3 DEF ListAndAnswer, Leavers
<1>4. ASSUME NEW g \in Guests, DeadlinePasses(g) \/ LeaveOnDeadline(g) PROVE ConferenceTypeOK' /\ RoomsCreated'
  BY <1>4 DEF DeadlinePasses, LeaveOnDeadline, Leavers
<1>5. CASE StartKick
  BY <1>5 DEF StartKick, Leavers
<1>6. ASSUME NEW l \in Leavers, FindRoomToLeave(l) PROVE ConferenceTypeOK' /\ RoomsCreated'
  <2>1. /\ at[l] = "find" /\ of' = [of EXCEPT ![l] = table]
        /\ at' = [at EXCEPT ![l] = IF table = NoRoom THEN "over" ELSE "remove"]
        /\ UNCHANGED <<table, created, owner, mixed, listed, mixing, shut, sockets, deadline, freeing, kicked, crossed, panicked>>
    BY <1>6 DEF FindRoomToLeave
  <2>2. table # NoRoom => table \in 1 .. created
    BY DEF Rooms
  <2>3. CASE table = NoRoom
    BY <2>1, <2>3
  <2>4. CASE table # NoRoom
    BY <2>1, <2>2, <2>4
  <2> QED BY <2>3, <2>4
<1>7. ASSUME NEW l \in Leavers, RemoveFromMixer(l) \/ Unlist(l) PROVE ConferenceTypeOK' /\ RoomsCreated'
  <2>1. CASE /\ at[l] = "remove"
             /\ mixed' = [mixed EXCEPT ![of[l]] = @ \ {Leaver(l)}]
             /\ freeing' = [freeing EXCEPT ![l] = {Leaver(l)}]
             /\ at' = [at EXCEPT ![l] = "return"]
             /\ UNCHANGED <<table, created, owner, listed, mixing, shut, sockets, deadline, of, kicked, crossed, panicked>>
    <3>1. Leaver(l) \in Guests
      BY DEF Leaver, Leavers
    <3> HIDE DEF Leaver
    <3> QED BY <2>1, <3>1
  <2>2. CASE /\ at' = [at EXCEPT ![l] = "over"]
             /\ UNCHANGED <<table, created, owner, mixed, listed, mixing, shut, sockets, deadline, of, freeing, kicked, crossed, panicked>>
    BY <2>2
  <2>3. CASE Unlist(l)
    <3>1. /\ at[l] = "unlist" /\ at' = [at EXCEPT ![l] = "count"]
          /\ listed' = [listed EXCEPT ![of[l]] = @ \ {Leaver(l)}]
          /\ UNCHANGED <<table, created, owner, mixed, mixing, shut, sockets, deadline, of, freeing, kicked, crossed, panicked>>
      BY <2>3 DEF Unlist
    <3> HIDE DEF Leaver
    <3> QED BY <3>1
  <2> QED BY <1>7, <2>1, <2>2, <2>3 DEF RemoveFromMixer
<1>8. ASSUME NEW l \in Leavers, DestroyIfEmpty(l) PROVE ConferenceTypeOK' /\ RoomsCreated'
  <2>1. crossed' \in BOOLEAN
    <3>1. crossed' = (crossed \/ table # of[l]) \/ UNCHANGED crossed
      BY <1>8 DEF DestroyIfEmpty
    <3> QED BY <3>1
  <2>2. /\ at[l] = "count" /\ (at' = [at EXCEPT ![l] = "stop"] \/ at' = [at EXCEPT ![l] = "over"])
        /\ table' = NoRoom \/ table' = table
        /\ UNCHANGED <<created, owner, mixed, listed, mixing, shut, sockets, deadline, of, freeing, kicked, panicked>>
    BY <1>8 DEF DestroyIfEmpty
  <2>3. table' \in 0 .. created
    BY <2>2 DEF Rooms
  <2>4. CASE at' = [at EXCEPT ![l] = "stop"]
    BY <2>1, <2>2, <2>3, <2>4
  <2>5. CASE at' = [at EXCEPT ![l] = "over"]
    BY <2>1, <2>2, <2>3, <2>5
  <2> QED BY <2>2, <2>4, <2>5
<1>9. ASSUME NEW l \in Leavers, TellLoop(l) \/ ReleaseMixer(l) \/ ReturnPorts(l)
      PROVE  ConferenceTypeOK' /\ RoomsCreated'
  <2>1. CASE TellLoop(l)
    BY <2>1 DEF TellLoop, StopMixer
  <2>2. CASE ReleaseMixer(l)
    <3>1. of[l] \in Rooms
      BY <2>2 DEF ReleaseMixer, Rooms
    <3> QED BY <2>2, <3>1 DEF ReleaseMixer
  <2>3. CASE ReturnPorts(l)
    BY <2>3 DEF ReturnPorts, FreePorts
  <2> QED BY <1>9, <2>1, <2>2, <2>3
<1>10. ASSUME NEW l \in Leavers, CloseDone(l) PROVE ConferenceTypeOK' /\ RoomsCreated'
  <2>1. panicked' \in BOOLEAN
    <3>1. panicked' = (panicked \/ of[l] \in shut)
      BY <1>10 DEF CloseDone
    <3> QED BY <3>1
  <2>2. /\ at[l] = "close" /\ \E label \in {"panic", "over"} : at' = [at EXCEPT ![l] = label]
        /\ shut' = shut \union {of[l]}
        /\ UNCHANGED <<table, created, owner, mixed, listed, mixing, sockets, deadline, of, freeing, kicked, crossed>>
    BY <1>10 DEF CloseDone
  <2>3. of[l] \in 1 .. created /\ of[l] \in Rooms
    BY <2>2 DEF Rooms
  <2> QED BY <2>1, <2>2, <2>3
<1>11. ASSUME NEW r \in Rooms, EndMixLoop(r) PROVE ConferenceTypeOK' /\ RoomsCreated'
  BY <1>11 DEF EndMixLoop
<1>12. CASE UNCHANGED confVars
  BY <1>12 DEF confVars
<1> QED
  BY <1>1, <1>2, <1>3, <1>4, <1>5, <1>6, <1>7, <1>8, <1>9, <1>10, <1>11, <1>12
     DEF ConferenceNext, GuestStep, LeaveStep

-----------------------------------------------------------------------------
(* The invariant.                                                          *)

\* The history variable only rises.
LEMMA CrossedStays ==
  ASSUME [ConferenceNext]_confVars, ~crossed'
  PROVE  ~crossed
BY DEF ConferenceNext, GuestStep, LeaveStep, confVars, FindRoom, AddToMixer, ListAndAnswer,
       LeaveOnDeadline, DeadlinePasses, StartKick, FindRoomToLeave, RemoveFromMixer, ReturnPorts,
       Unlist, DestroyIfEmpty, TellLoop, ReleaseMixer, CloseDone, EndMixLoop

\* The steps of a call that joins.
LEMMA JoinKeepsRooms ==
  ASSUME ConferenceTypeOK, RoomsCreated, GuestsInside, TableAlive, DestroyedOnce,
         NEW g \in Guests, FindRoom(g) \/ GuestStep(g), ~crossed'
  PROVE  GuestsInside' /\ TableAlive' /\ DestroyedOnce'
<1> USE RoomFacts DEF ConferenceTypeOK, RoomsCreated, Leaving, To, roomVars
<1> g \in Leavers
  BY DEF Leavers
<1>1. CASE FindRoom(g)
  <2>1. at[g] = "out" /\ UNCHANGED <<mixed, listed, shut, sockets, deadline, freeing, kicked, crossed, panicked>>
    BY <1>1 DEF FindRoom
  <2>2. \A r \in Rooms : g \notin mixed[r]
    BY <2>1 DEF GuestsInside
  <2>3. CASE /\ table # NoRoom
             /\ \E x \in Rooms \union {NoRoom} : of' = [of EXCEPT ![g] = x]
             /\ \E l \in {"over", "add"} : at' = [at EXCEPT ![g] = l]
             /\ UNCHANGED <<table, created, owner, mixing>>
    <3>1. GuestsInside'
      BY <2>1, <2>2, <2>3 DEF GuestsInside
    <3>2. TableAlive'
      BY <2>1, <2>3 DEF TableAlive
    <3>3. DestroyedOnce'
      BY <2>1, <2>3 DEF DestroyedOnce, Destroying
    <3> QED BY <3>1, <3>2, <3>3
  <2>4. CASE /\ table = NoRoom /\ created < MaxRooms
             /\ created' = created + 1 /\ table' = created + 1 /\ of' = [of EXCEPT ![g] = created + 1]
             /\ owner' = [owner EXCEPT ![created + 1] = g]
             /\ mixing' = [mixing EXCEPT ![created + 1] = "running"] /\ at' = [at EXCEPT ![g] = "add"]
    <3>1. created + 1 \in Rooms
      BY <2>4, ConferenceAssumption DEF ConferenceAssumption, Rooms
    <3>2. \A r \in Rooms : mixed[r] = {}
      BY <2>4 DEF GuestsInside
    <3>3. GuestsInside'
      BY <2>1, <3>2 DEF GuestsInside
    <3>4. TableAlive'
      BY <2>1, <2>4, <3>1 DEF TableAlive
    <3>5. DestroyedOnce'
      BY <2>1, <2>4 DEF DestroyedOnce, Destroying
    <3> QED BY <3>3, <3>4, <3>5
  <2>5. CASE at' = [at EXCEPT ![g] = "over"] /\ UNCHANGED <<table, created, owner, mixing, of>>
    <3>1. GuestsInside'
      BY <2>1, <2>2, <2>5 DEF GuestsInside
    <3>2. TableAlive' /\ DestroyedOnce'
      BY <2>1, <2>5 DEF TableAlive, DestroyedOnce, Destroying
    <3> QED BY <3>1, <3>2
  <2> QED BY <1>1, <2>3, <2>4, <2>5 DEF FindRoom
<1>2. CASE AddToMixer(g)
  <2>1. at[g] = "add" /\ of[g] \in 1 .. created
        /\ UNCHANGED <<table, created, owner, listed, mixing, shut, deadline, of, freeing, kicked, panicked>>
    BY <1>2 DEF AddToMixer
  <2>2. \A r \in Rooms : g \notin mixed[r]
    BY <2>1 DEF GuestsInside
  <2>3. CASE /\ table = of[g] /\ at' = [at EXCEPT ![g] = "list"]
             /\ mixed' = [mixed EXCEPT ![of[g]] = @ \union {g}] /\ sockets' = sockets \union {g}
    <3>1. of[g] \in Rooms
      BY <2>1 DEF Rooms
    <3>2. \A r \in Rooms : mixed'[r] # {} => table' = r
      BY <2>1, <2>3, <3>1 DEF GuestsInside
    <3>3. \A r \in Rooms : \A h \in mixed'[r] : at'[h] \in {"list", "in", "find", "remove"} /\ of'[h] = r
      BY <2>1, <2>3, <3>1 DEF GuestsInside
    <3>4. \A h \in sockets' : (\E r \in Rooms : h \in mixed'[r]) \/ \E l \in Leavers : h \in freeing'[l]
      <4>1. \A r \in Rooms : mixed[r] \subseteq mixed'[r]
        BY <2>3, <3>1
      <4>2. g \in mixed'[of[g]]
        BY <2>3, <3>1
      <4> QED BY <2>1, <2>3, <3>1, <4>1, <4>2 DEF GuestsInside
    <3>5. TableAlive' /\ DestroyedOnce'
      BY <2>1, <2>3 DEF TableAlive, DestroyedOnce, Destroying
    <3> QED BY <3>2, <3>3, <3>4, <3>5 DEF GuestsInside
  <2>4. CASE at' = [at EXCEPT ![g] = "over"] /\ UNCHANGED <<mixed, sockets>>
    <3>1. GuestsInside'
      BY <2>1, <2>2, <2>4 DEF GuestsInside
    <3>2. TableAlive' /\ DestroyedOnce'
      BY <2>1, <2>4 DEF TableAlive, DestroyedOnce, Destroying
    <3> QED BY <3>1, <3>2
  <2>5. \/ /\ crossed' = (crossed \/ table # of[g]) /\ at' = [at EXCEPT ![g] = "list"]
           /\ mixed' = [mixed EXCEPT ![of[g]] = @ \union {g}] /\ sockets' = sockets \union {g}
        \/ at' = [at EXCEPT ![g] = "over"] /\ UNCHANGED <<mixed, sockets>>
    BY <1>2 DEF AddToMixer
  <2> QED BY <2>3, <2>4, <2>5
<1>3. CASE ListAndAnswer(g)
  <2>1. /\ at[g] = "list" /\ (at' = [at EXCEPT ![g] = "in"] \/ at' = [at EXCEPT ![g] = "find"])
        /\ UNCHANGED <<table, created, owner, mixed, mixing, shut, sockets, deadline, of, freeing, panicked>>
    BY <1>3 DEF ListAndAnswer
  <2>2. GuestsInside'
    <3>1. \A h \in Leavers : at[h] \in {"list", "in", "find", "remove"} =>
                            at'[h] \in {"list", "in", "find", "remove"}
      BY <2>1
    <3> QED BY <2>1, <3>1 DEF GuestsInside, Leavers
  <2>3. TableAlive' /\ DestroyedOnce'
    BY <2>1 DEF TableAlive, DestroyedOnce, Destroying
  <2> QED BY <2>2, <2>3
<1>4. CASE LeaveOnDeadline(g) \/ DeadlinePasses(g)
  <2>1. /\ at' = at \/ (at[g] = "in" /\ at' = [at EXCEPT ![g] = "find"])
        /\ deadline \subseteq deadline'
        /\ UNCHANGED <<table, created, owner, mixed, mixing, shut, sockets, of, freeing, panicked>>
    <3>1. CASE LeaveOnDeadline(g)
      BY <3>1 DEF LeaveOnDeadline
    <3>2. CASE DeadlinePasses(g)
      <4>1. deadline' = deadline \union {g}
        BY <3>2 DEF DeadlinePasses
      <4>2. at' = at /\ UNCHANGED <<table, created, owner, mixed, mixing, shut, sockets, of, freeing, panicked>>
        BY <3>2 DEF DeadlinePasses
      <4> QED BY <4>1, <4>2
    <3> QED BY <1>4, <3>1, <3>2
  <2>2. GuestsInside'
    <3>1. \A h \in Leavers : at[h] \in {"list", "in", "find", "remove"} =>
                            at'[h] \in {"list", "in", "find", "remove"}
      BY <2>1
    <3> QED BY <2>1, <3>1 DEF GuestsInside, Leavers
  <2>3. TableAlive' /\ DestroyedOnce'
    BY <2>1 DEF TableAlive, DestroyedOnce, Destroying
  <2> QED BY <2>2, <2>3
<1> QED BY <1>1, <1>2, <1>3, <1>4 DEF GuestStep

\* The steps of whoever leaves or kicks.
LEMMA LeaveKeepsRooms ==
  ASSUME ConferenceTypeOK, RoomsCreated, GuestsInside, FreeingOwn, TableAlive, DestroyedOnce,
         NEW l \in Leavers, LeaveStep(l), ~crossed'
  PROVE  GuestsInside' /\ TableAlive' /\ DestroyedOnce'
<1> USE RoomFacts DEF ConferenceTypeOK, RoomsCreated, Leaving, To, roomVars
<1> Guests \subseteq Leavers
  BY DEF Leavers
<1>1. CASE FindRoomToLeave(l)
  <2>1. /\ at[l] = "find" /\ of' = [of EXCEPT ![l] = table]
        /\ at' = [at EXCEPT ![l] = IF table = NoRoom THEN "over" ELSE "remove"]
        /\ UNCHANGED <<table, created, owner, mixed, listed, mixing, shut, sockets, deadline, freeing, kicked, crossed, panicked>>
    BY <1>1 DEF FindRoomToLeave
  <2>2. GuestsInside'
    <3>1. CASE table = NoRoom
      <4>1. \A r \in Rooms : mixed[r] = {}
        BY <3>1 DEF GuestsInside
      <4> QED BY <2>1, <4>1 DEF GuestsInside
    <3>2. CASE table # NoRoom
      BY <2>1, <3>2 DEF GuestsInside
    <3> QED BY <3>1, <3>2
  <2>3. TableAlive'
    BY <2>1 DEF TableAlive
  <2>4. DestroyedOnce'
    BY <2>1 DEF DestroyedOnce, Destroying
  <2> QED BY <2>2, <2>3, <2>4
<1>2. CASE RemoveFromMixer(l)
  <2> HIDE DEF Leaver
  <2>1. /\ at[l] = "remove" /\ of[l] \in Rooms
        /\ UNCHANGED <<table, created, owner, mixing, shut, sockets, deadline, of, crossed, panicked>>
    BY <1>2 DEF RemoveFromMixer, Rooms
  <2>2. l \in Guests => Leaver(l) = l
    BY ConferenceAssumption DEF Leaver, ConferenceAssumption
  <2>3. CASE /\ Leaver(l) \in mixed[of[l]] /\ at' = [at EXCEPT ![l] = "return"]
             /\ mixed' = [mixed EXCEPT ![of[l]] = @ \ {Leaver(l)}]
             /\ freeing' = [freeing EXCEPT ![l] = {Leaver(l)}]
    <3>1. \A r \in Rooms : mixed'[r] \subseteq mixed[r]
      BY <2>1, <2>3
    <3>2. \A r \in Rooms : mixed'[r] # {} => table' = r
      BY <2>1, <3>1 DEF GuestsInside
    <3>3. \A r \in Rooms : \A h \in mixed'[r] : h # Leaver(l)
      BY <2>1, <2>3 DEF GuestsInside
    <3>4. \A r \in Rooms : \A h \in mixed'[r] : at'[h] \in {"list", "in", "find", "remove"} /\ of'[h] = r
      BY <2>1, <2>2, <2>3, <3>1, <3>3 DEF GuestsInside
    <3>5. freeing[l] = {} /\ Leaver(l) \in freeing'[l]
      BY <2>1, <2>3 DEF FreeingOwn
    <3>6. \A h \in sockets' : (\E r \in Rooms : h \in mixed'[r]) \/ \E m \in Leavers : h \in freeing'[m]
      <4>1. \A m \in Leavers : freeing[m] \subseteq freeing'[m]
        BY <2>3, <3>5
      <4>2. \A r \in Rooms : \A h \in mixed[r] : h # Leaver(l) => h \in mixed'[r]
        BY <2>3
      <4> QED BY <2>1, <3>5, <4>1, <4>2 DEF GuestsInside
    <3>7. TableAlive' /\ DestroyedOnce'
      BY <2>1, <2>3 DEF TableAlive, DestroyedOnce, Destroying
    <3> QED BY <3>2, <3>4, <3>6, <3>7 DEF GuestsInside
  <2>4. CASE Leaver(l) \notin mixed[of[l]] /\ at' = [at EXCEPT ![l] = "over"] /\ UNCHANGED <<mixed, freeing>>
    <3>1. \A r \in Rooms : l \notin mixed[r]
      BY <2>1, <2>2, <2>4 DEF GuestsInside
    <3>2. GuestsInside'
      BY <2>1, <2>4, <3>1 DEF GuestsInside
    <3>3. TableAlive' /\ DestroyedOnce'
      BY <2>1, <2>4 DEF TableAlive, DestroyedOnce, Destroying
    <3> QED BY <3>2, <3>3
  <2> QED BY <1>2, <2>3, <2>4 DEF RemoveFromMixer
<1>3. CASE Unlist(l)
  <2>1. /\ at[l] = "unlist" /\ at' = [at EXCEPT ![l] = "count"]
        /\ UNCHANGED <<table, created, owner, mixed, mixing, shut, sockets, deadline, of, freeing, panicked>>
    BY <1>3 DEF Unlist
  <2>2. GuestsInside'
    BY <2>1 DEF GuestsInside
  <2>3. TableAlive' /\ DestroyedOnce'
    BY <2>1 DEF TableAlive, DestroyedOnce, Destroying
  <2> QED BY <2>2, <2>3
<1>4. CASE DestroyIfEmpty(l)
  <2>1. /\ at[l] = "count" /\ of[l] \in 1 .. created /\ of[l] \in Rooms
        /\ UNCHANGED <<created, owner, mixed, mixing, shut, sockets, deadline, of, freeing, panicked>>
    BY <1>4 DEF DestroyIfEmpty, Rooms
  <2>2. CASE /\ mixed[of[l]] = {} /\ table' = NoRoom /\ table = of[l] /\ at' = [at EXCEPT ![l] = "stop"]
    <3>1. \A r \in Rooms : mixed[r] = {}
      BY <2>1, <2>2 DEF GuestsInside
    <3>2. GuestsInside'
      BY <2>1, <3>1 DEF GuestsInside
    <3>3. TableAlive'
      BY <2>2 DEF TableAlive
    <3>4. DestroyedOnce'
      BY <2>1, <2>2 DEF DestroyedOnce, Destroying, TableAlive
    <3> QED BY <3>2, <3>3, <3>4
  <2>3. CASE at' = [at EXCEPT ![l] = "over"] /\ table' = table
    <3>1. GuestsInside'
      BY <2>1, <2>3 DEF GuestsInside
    <3>2. TableAlive' /\ DestroyedOnce'
      BY <2>1, <2>3 DEF TableAlive, DestroyedOnce, Destroying
    <3> QED BY <3>1, <3>2
  <2>4. \/ /\ mixed[of[l]] = {} /\ table' = NoRoom /\ at' = [at EXCEPT ![l] = "stop"]
           /\ crossed' = (crossed \/ table # of[l])
        \/ at' = [at EXCEPT ![l] = "over"] /\ table' = table
    BY <1>4 DEF DestroyIfEmpty, Emptied
  <2> QED BY <2>2, <2>3, <2>4
<1>5. CASE TellLoop(l)
  <2>1. /\ at[l] = "stop" /\ of[l] \in Rooms /\ of[l] # table /\ at' = [at EXCEPT ![l] = "release"]
        /\ \E x \in {"ended", "stopped"} : mixing' = [mixing EXCEPT ![of[l]] = x]
        /\ UNCHANGED <<table, created, owner, mixed, shut, sockets, deadline, of, freeing, panicked>>
    <3>1. at[l] = "stop" /\ of[l] \in Rooms /\ of[l] # table
      BY <1>5 DEF TellLoop, DestroyedOnce, Destroying, Rooms
    <3>2. \E x \in {"ended", "stopped"} : mixing' = [mixing EXCEPT ![of[l]] = x]
      <4>1. mixing' = [mixing EXCEPT ![of[l]] = IF mixing[of[l]] = "ended" THEN "ended" ELSE "stopped"]
        BY <1>5 DEF TellLoop, StopMixer
      <4> QED BY <4>1
    <3> QED BY <1>5, <3>1, <3>2 DEF TellLoop
  <2>2. GuestsInside'
    BY <2>1 DEF GuestsInside
  <2>3. TableAlive'
    BY <2>1 DEF TableAlive
  <2>4. DestroyedOnce'
    BY <2>1 DEF DestroyedOnce, Destroying
  <2> QED BY <2>2, <2>3, <2>4
<1>6. CASE ReleaseMixer(l)
  <2>1. /\ at[l] = "release" /\ of[l] \in Rooms /\ of[l] # table /\ at' = [at EXCEPT ![l] = "free"]
        /\ freeing' = [freeing EXCEPT ![l] = mixed[of[l]]] /\ mixed' = [mixed EXCEPT ![of[l]] = {}]
        /\ UNCHANGED <<table, created, owner, mixing, shut, sockets, deadline, of, panicked>>
    BY <1>6 DEF ReleaseMixer, DestroyedOnce, Destroying, Rooms
  <2>2. mixed[of[l]] = {} /\ freeing[l] = {}
    BY <2>1 DEF GuestsInside, FreeingOwn
  <2>3. mixed' = mixed /\ freeing' = freeing
    BY <2>1, <2>2
  <2>4. GuestsInside'
    BY <2>1, <2>3 DEF GuestsInside
  <2>5. TableAlive' /\ DestroyedOnce'
    BY <2>1, <2>3 DEF TableAlive, DestroyedOnce, Destroying
  <2> QED BY <2>4, <2>5
<1>7. CASE CloseDone(l)
  <2>1. /\ at[l] = "close" /\ of[l] \in Rooms /\ of[l] # table /\ of[l] \notin shut
        /\ at' = [at EXCEPT ![l] = "over"] /\ shut' = shut \union {of[l]}
        /\ panicked' = (panicked \/ of[l] \in shut)
        /\ UNCHANGED <<table, created, owner, mixed, mixing, sockets, deadline, of, freeing>>
    <3>1. /\ at[l] = "close"
          /\ at' = [at EXCEPT ![l] = IF l \in Guests /\ of[l] \in shut THEN "panic" ELSE "over"]
          /\ shut' = shut \union {of[l]} /\ panicked' = (panicked \/ of[l] \in shut)
          /\ UNCHANGED <<table, created, owner, mixed, mixing, sockets, deadline, of, freeing>>
      BY <1>7 DEF CloseDone, To
    <3>2. of[l] \in Rooms /\ of[l] # table /\ of[l] \notin shut
      BY <3>1 DEF DestroyedOnce, Destroying, Rooms
    <3> QED BY <3>1, <3>2
  <2>2. ~panicked'
    BY <2>1 DEF DestroyedOnce
  <2>3. GuestsInside'
    BY <2>1 DEF GuestsInside
  <2>4. TableAlive'
    BY <2>1 DEF TableAlive
  <2>5. \A m \in Leavers : Destroying(m)' => m # l /\ Destroying(m)
    BY <2>1 DEF Destroying
  <2>6. DestroyedOnce'
    <3>1. \A m \in Leavers : Destroying(m)' => of[m] # of[l] /\ of[m] # table /\ of[m] \notin shut
      BY <2>1, <2>5 DEF DestroyedOnce, Destroying
    <3>2. \A m \in Leavers : Destroying(m)' => of'[m] # table' /\ of'[m] \notin shut'
      BY <2>1, <3>1
    <3>3. \A m, n \in Leavers : m # n /\ Destroying(m)' /\ Destroying(n)' => of'[m] # of'[n]
      BY <2>1, <2>5 DEF DestroyedOnce
    <3> QED BY <2>2, <3>2, <3>3 DEF DestroyedOnce
  <2> QED BY <2>3, <2>4, <2>6
<1>8. CASE ReturnPorts(l)
  <2>1. /\ at[l] \in {"return", "free"} /\ sockets' = sockets \ freeing[l]
        /\ freeing' = [freeing EXCEPT ![l] = {}]
        /\ at' = [at EXCEPT ![l] = IF at[l] = "return" THEN "unlist" ELSE "close"]
        /\ UNCHANGED <<table, created, owner, mixed, mixing, shut, deadline, of, panicked>>
    BY <1>8 DEF ReturnPorts, FreePorts
  <2>2. GuestsInside'
    <3>1. \A r \in Rooms : \A h \in mixed[r] : h # l
      BY <2>1 DEF GuestsInside
    <3>2. \A r \in Rooms : \A h \in mixed'[r] : at'[h] \in {"list", "in", "find", "remove"} /\ of'[h] = r
      BY <2>1, <3>1 DEF GuestsInside
    <3>3. \A h \in sockets' : (\E r \in Rooms : h \in mixed'[r]) \/ \E m \in Leavers : h \in freeing'[m]
      <4>1. \A m \in Leavers \ {l} : freeing'[m] = freeing[m]
        BY <2>1
      <4> QED BY <2>1, <4>1 DEF GuestsInside
    <3> QED BY <2>1, <3>2, <3>3 DEF GuestsInside
  <2>3. TableAlive'
    BY <2>1 DEF TableAlive
  <2>4. DestroyedOnce'
    <3>1. \A m \in Leavers : Destroying(m)' <=> Destroying(m)
      <4>1. CASE at[l] = "return"
        BY <2>1, <4>1 DEF Destroying
      <4>2. CASE at[l] = "free"
        BY <2>1, <4>2 DEF Destroying
      <4> QED BY <2>1, <4>1, <4>2
    <3> QED BY <2>1, <3>1 DEF DestroyedOnce
  <2> QED BY <2>2, <2>3, <2>4
<1> QED BY <1>1, <1>2, <1>3, <1>4, <1>5, <1>6, <1>7, <1>8 DEF LeaveStep

\* Ports are given back by who has taken their call out of the mixer, at once.
LEMMA FreeingStep ==
  ASSUME ConferenceTypeOK, RoomsCreated, GuestsInside, FreeingOwn, DestroyedOnce, [ConferenceNext]_confVars
  PROVE  FreeingOwn'
<1> USE RoomFacts DEF ConferenceTypeOK, To, roomVars
<1>1. ASSUME NEW l \in Leavers, RemoveFromMixer(l) \/ ReturnPorts(l) PROVE FreeingOwn'
  <2> HIDE DEF Leaver
  <2>1. /\ \A m \in Leavers : Leaver(m)' = Leaver(m)
        /\ \A m \in Leavers \ {l} : at'[m] = at[m] /\ freeing'[m] = freeing[m]
    BY <1>1 DEF RemoveFromMixer, ReturnPorts, Leaver
  <2>2. freeing'[l] # {} => at'[l] = "return" /\ freeing'[l] = {Leaver(l)}
    <3>1. CASE ReturnPorts(l)
      BY <3>1 DEF ReturnPorts
    <3>2. CASE at[l] = "remove" /\ freeing' = freeing
      BY <3>2 DEF FreeingOwn
    <3>3. CASE freeing' = [freeing EXCEPT ![l] = {Leaver(l)}] /\ at' = [at EXCEPT ![l] = "return"]
      BY <3>3
    <3> QED BY <1>1, <3>1, <3>2, <3>3 DEF RemoveFromMixer
  <2> QED BY <2>1, <2>2 DEF FreeingOwn
<1>2. ASSUME NEW l \in Leavers, ReleaseMixer(l) PROVE FreeingOwn'
  <2>1. of[l] \in Rooms /\ of[l] # table
    BY <1>2 DEF ReleaseMixer, RoomsCreated, DestroyedOnce, Destroying, Rooms
  <2>2. mixed[of[l]] = {} /\ freeing[l] = {} /\ at[l] = "release"
    BY <1>2, <2>1 DEF ReleaseMixer, GuestsInside, FreeingOwn
  <2>3. freeing' = freeing /\ kicked' = kicked /\ \A m \in Leavers \ {l} : at'[m] = at[m]
    BY <1>2, <2>2 DEF ReleaseMixer
  <2> QED BY <2>2, <2>3 DEF FreeingOwn, Leaver
<1>3. ASSUME freeing' = freeing, kicked' = kicked, \A l \in Leavers : at[l] = "return" => at'[l] = "return"
      PROVE  FreeingOwn'
  BY <1>3 DEF FreeingOwn, Leaver
<1>4. ASSUME NEW g \in Guests, FindRoom(g) \/ GuestStep(g) PROVE FreeingOwn'
  <2>1. g \in Leavers /\ at[g] # "return" /\ freeing' = freeing /\ kicked' = kicked
    BY <1>4 DEF FindRoom, GuestStep, AddToMixer, ListAndAnswer, LeaveOnDeadline, DeadlinePasses, Leavers
  <2>2. \A l \in Leavers \ {g} : at'[l] = at[l]
    BY <1>4 DEF FindRoom, GuestStep, AddToMixer, ListAndAnswer, LeaveOnDeadline, DeadlinePasses
  <2> QED BY <1>3, <2>1, <2>2
<1>5. ASSUME NEW l \in Leavers,
             FindRoomToLeave(l) \/ Unlist(l) \/ DestroyIfEmpty(l) \/ TellLoop(l) \/ CloseDone(l)
      PROVE  FreeingOwn'
  <2>1. at[l] # "return" /\ freeing' = freeing /\ kicked' = kicked
    BY <1>5 DEF FindRoomToLeave, Unlist, DestroyIfEmpty, TellLoop, CloseDone
  <2>2. \A m \in Leavers \ {l} : at'[m] = at[m]
    BY <1>5 DEF FindRoomToLeave, Unlist, DestroyIfEmpty, TellLoop, CloseDone
  <2> QED BY <1>3, <2>1, <2>2
<1>6. CASE StartKick
  BY <1>3, <1>6 DEF StartKick, Leavers
<1>7. CASE (\E r \in Rooms : EndMixLoop(r)) \/ UNCHANGED confVars
  BY <1>3, <1>7 DEF EndMixLoop, confVars
<1> QED BY <1>1, <1>2, <1>4, <1>5, <1>6, <1>7 DEF ConferenceNext, LeaveStep

LEMMA ConfInvStep ==
  ASSUME ConferenceTypeOK, ConfInv, [ConferenceNext]_confVars
  PROVE  ConferenceTypeOK' /\ ConfInv'
<1>1. ConferenceTypeOK' /\ RoomsCreated'
  BY ConferenceTypeStep DEF ConfInv
<1>2. ASSUME ~crossed' PROVE GuestsInside' /\ TableAlive' /\ DestroyedOnce'
  <2>1. RoomsCreated /\ GuestsInside /\ FreeingOwn /\ TableAlive /\ DestroyedOnce
    BY <1>2, CrossedStays DEF ConfInv
  <2>2. ASSUME NEW g \in Guests, FindRoom(g) \/ GuestStep(g) PROVE GuestsInside' /\ TableAlive' /\ DestroyedOnce'
    BY <1>2, <2>1, <2>2, JoinKeepsRooms
  <2>3. ASSUME NEW l \in Leavers, LeaveStep(l) PROVE GuestsInside' /\ TableAlive' /\ DestroyedOnce'
    BY <1>2, <2>1, <2>3, LeaveKeepsRooms
  <2>4. CASE StartKick
    <3>1. /\ at[Admin] = "out" /\ at' = [at EXCEPT ![Admin] = "find"]
          /\ UNCHANGED <<table, created, owner, mixed, mixing, shut, sockets, deadline, of, freeing, panicked>>
      BY <2>4 DEF StartKick, To, roomVars
    <3>2. GuestsInside'
      BY <2>1, <3>1 DEF GuestsInside, ConferenceTypeOK, Leavers
    <3>3. TableAlive'
      BY <2>1, <3>1 DEF TableAlive
    <3>4. DestroyedOnce'
      BY <2>1, <3>1 DEF DestroyedOnce, Destroying, ConferenceTypeOK, Leavers
    <3> QED BY <3>2, <3>3, <3>4
  <2>5. ASSUME NEW r \in Rooms, EndMixLoop(r) PROVE GuestsInside' /\ TableAlive' /\ DestroyedOnce'
    <3>1. /\ mixing' = [mixing EXCEPT ![r] = "ended"]
          /\ mixing[r] = "stopped" \/ owner[r] \in deadline
          /\ UNCHANGED <<table, created, owner, mixed, shut, sockets, deadline, at, of, freeing, panicked>>
      BY <2>5 DEF EndMixLoop, LoopOver
    <3>2. TableAlive'
      BY <2>1, <3>1 DEF TableAlive, ConferenceTypeOK
    <3>3. GuestsInside'
      BY <2>1, <3>1 DEF GuestsInside
    <3>4. DestroyedOnce'
      BY <2>1, <3>1 DEF DestroyedOnce, Destroying
    <3> QED BY <3>2, <3>3, <3>4
  <2>6. CASE UNCHANGED confVars
    BY <2>1, <2>6 DEF confVars, roomVars, GuestsInside, TableAlive, DestroyedOnce, Destroying
  <2> QED BY <2>2, <2>3, <2>4, <2>5, <2>6 DEF ConferenceNext
<1>3. ASSUME ~crossed' PROVE FreeingOwn'
  <2>1. RoomsCreated /\ GuestsInside /\ FreeingOwn /\ DestroyedOnce
    BY <1>3, CrossedStays DEF ConfInv
  <2> QED BY <2>1, FreeingStep
<1> QED BY <1>1, <1>2, <1>3 DEF ConfInv

\* The types and the invariant hold in every reachable state of a bridge.
THEOREM ConferenceInvariant == ConferenceSpec => [](ConferenceTypeOK /\ ConfInv)
<1>1. ConferenceInit => ConferenceTypeOK /\ ConfInv
  BY ConferenceInitType
<1>2. ConferenceTypeOK /\ ConfInv /\ [ConferenceNext]_confVars => (ConferenceTypeOK /\ ConfInv)'
  BY ConfInvStep
<1> QED BY <1>1, <1>2, PTL DEF ConferenceSpec

-----------------------------------------------------------------------------
(* The theorems.                                                           *)

\* As long as no room was destroyed with a call inside or behind a call's back, a call
\* that is over holds no ports but those the administrator who kicked it has taken out
\* of the mixer and is about to give back (mixer.go:308, conference.go:163, :251).
THEOREM RoomPortsReturned == ConferenceSpec => []PortsReturned
<1>1. ConferenceTypeOK /\ ConfInv => PortsReturned
  <2> SUFFICES ASSUME GuestsInside, FreeingOwn, NEW g \in sockets, g \in Guests, at[g] = "over"
               PROVE  g \in freeing[Admin]
    BY DEF ConfInv, PortsReturned, ConferenceTypeOK
  <2>1. PICK l \in Leavers : g \in freeing[l]
    BY DEF GuestsInside
  <2>2. at[l] = "return" /\ freeing[l] = {Leaver(l)} /\ l # g
    BY <2>1 DEF FreeingOwn
  <2>3. l \notin Guests
    BY <2>1, <2>2, ConferenceAssumption DEF Leaver, ConferenceAssumption
  <2> QED BY <2>1, <2>3 DEF Leavers
<1> QED BY <1>1, ConferenceInvariant, PTL

\* As long as no room was destroyed behind a call's back, a room somebody is in is the
\* bridge's and mixes, and an empty one is destroyed once (conference.go:266).
THEOREM RoomMixes == ConferenceSpec => []OccupiedRoomMixes
<1>1. ConferenceTypeOK /\ ConfInv => OccupiedRoomMixes
  BY RoomFacts DEF ConfInv, GuestsInside, TableAlive, DestroyedOnce, OccupiedRoomMixes
<1> QED BY <1>1, ConferenceInvariant, PTL

-----------------------------------------------------------------------------
(* The tables of u-law.  A sample's biased magnitude b lies in one of eight *)
(* segments, 128 * 2^e <= b < 256 * 2^e; the encoder's exponent is e, and   *)
(* what is heard is monotonic within a segment and from one to the next.    *)

\* n is the e-th power of 2.
IsPower(e, n) ==
  \/ e = 0 /\ n = 1
  \/ e = 1 /\ n = 2
  \/ e = 2 /\ n = 4
  \/ e = 3 /\ n = 8
  \/ e = 4 /\ n = 16
  \/ e = 5 /\ n = 32
  \/ e = 6 /\ n = 64
  \/ e = 7 /\ n = 128

\* The values of the powers, and of those the encoder shifts by.
LEMMA Powers ==
  ASSUME NEW e \in 0 .. 7
  PROVE  IsPower(e, 2^e) /\ 2^e \in 1 .. 128 /\ 2^(e + 3) = 8 * 2^e /\ 2^(e + 7) = 128 * 2^e
<1> USE DEF IsPower
<1>1. e = 0 \/ e = 1 \/ e = 2 \/ e = 3 \/ e = 4 \/ e = 5 \/ e = 6 \/ e = 7
  OBVIOUS
<1>2. CASE e = 0
  BY <1>2
<1>3. CASE e = 1
  BY <1>3
<1>4. CASE e = 2
  BY <1>4
<1>5. CASE e = 3
  BY <1>5
<1>6. CASE e = 4
  BY <1>6
<1>7. CASE e = 5
  BY <1>7
<1>8. CASE e = 6
  BY <1>8
<1>9. CASE e = 7
  BY <1>9
<1> QED
  BY <1>1, <1>2, <1>3, <1>4, <1>5, <1>6, <1>7, <1>8, <1>9

\* Each segment begins where the one before ends.
LEMMA PowersGrow ==
  ASSUME NEW e \in 0 .. 7, NEW f \in 0 .. 7, e < f
  PROVE  2 * 2^e <= 2^f
<1>1. IsPower(e, 2^e) /\ IsPower(f, 2^f)
  BY Powers
<1>2. ASSUME NEW n, NEW m, IsPower(e, n), IsPower(f, m)
      PROVE  2 * n <= m
  BY <1>2 DEF IsPower
<1> QED
  BY <1>1, <1>2

\* b's leading bit is the one of segment e.
InSegment(b, e) == b \in 128 * 2^e .. 256 * 2^e - 1

\* Divisions, for any divisor.
LEMMA QuotientZero ==
  ASSUME NEW n \in Nat \ {0}, NEW b \in 0 .. n - 1
  PROVE  b \div n = 0
OBVIOUS

LEMMA QuotientOne ==
  ASSUME NEW n \in Nat \ {0}, NEW b \in n .. 2 * n - 1
  PROVE  b \div n = 1
OBVIOUS

\* A bit is the parity of the quotient.
LEMMA BitOfQuotient ==
  ASSUME NEW b \in Nat, NEW i \in Nat
  PROVE  /\ b \div 2^i = 0 => Bit(b, i) = 0
         /\ b \div 2^i = 1 => Bit(b, i) = 1
<1>1. \A q : (q = 0 => q % 2 = 0) /\ (q = 1 => q % 2 = 1)
  OBVIOUS
<1> QED
  BY <1>1, Zenon DEF Bit

LEMMA QuotientSixteen ==
  ASSUME NEW n \in Nat \ {0}, NEW b \in 16 * n .. 32 * n - 1
  PROVE  b \div n \in 16 .. 31
OBVIOUS

LEMMA QuotientGrows ==
  ASSUME NEW n \in Nat \ {0}, NEW b \in Nat, NEW c \in Nat, b <= c
  PROVE  b \div n <= c \div n
OBVIOUS

\* encodeUlaw's search for the exponent finds the segment.
LEMMA LeadingBit ==
  ASSUME NEW e \in 0 .. 7, NEW b \in Nat, InSegment(b, e)
  PROVE  Max({0} \union {f \in 1 .. 7 : Bit(b, f + 7) = 1}) = e
<1> DEFINE S == {0} \union {f \in 1 .. 7 : Bit(b, f + 7) = 1}
<1>1. ASSUME NEW f \in 1 .. 7 PROVE f > e => Bit(b, f + 7) = 0
  <2> SUFFICES ASSUME f > e PROVE Bit(b, f + 7) = 0
    OBVIOUS
  <2>1. f \in 0 .. 7 /\ e < f
    OBVIOUS
  <2>2. 2^(f + 7) = 128 * 2^f /\ 2^f \in 1 .. 128 /\ 2^e \in 1 .. 128
    BY <2>1, Powers, Zenon
  <2>3. 2 * 2^e <= 2^f
    BY <2>1, PowersGrow, Zenon
  <2>4. b \in 0 .. 2^(f + 7) - 1 /\ 2^(f + 7) \in Nat \ {0}
    BY <2>2, <2>3 DEF InSegment
  <2>5. b \div 2^(f + 7) = 0
    BY <2>4, QuotientZero
  <2> QED
    BY <2>5, BitOfQuotient
<1>2. ASSUME e # 0 PROVE Bit(b, e + 7) = 1
  <2>1. 2^(e + 7) = 128 * 2^e /\ 2^e \in 1 .. 128
    BY Powers
  <2>2. b \in 2^(e + 7) .. 2 * 2^(e + 7) - 1 /\ 2^(e + 7) \in Nat \ {0}
    BY <2>1 DEF InSegment
  <2>3. b \div 2^(e + 7) = 1
    BY <2>2, QuotientOne
  <2> QED
    BY <2>3, BitOfQuotient
<1>3. e \in S
  BY <1>2
<1>4. \A f \in S : e >= f
  BY <1>1
<1>5. \A m \in S : (\A f \in S : m >= f) => m = e
  BY <1>3, <1>4
<1> QED
  BY <1>3, <1>4, <1>5 DEF Max

\* The samples a clipped mix may have, but the one whose magnitude is no int16,
\* and the magnitudes with the bias.
Samples == {x \in Int : -32767 <= x /\ x <= 32767}
BiasedSamples == {b \in Nat : 132 <= b /\ b <= 32767}

\* Every biased magnitude lies in a segment.
LEMMA SomeSegment ==
  ASSUME NEW b \in BiasedSamples
  PROVE  \E e \in 0 .. 7 : InSegment(b, e)
<1>1. \A e \in 0 .. 7 : IsPower(e, 2^e)
  BY Powers, Zenon
<1>2. ASSUME NEW e \in 0 .. 7, NEW n, IsPower(e, n), n = 2^e, b \in 128 * n .. 256 * n - 1
      PROVE  \E f \in 0 .. 7 : InSegment(b, f)
  BY <1>2 DEF InSegment
<1>3. \E e \in 0 .. 7, n \in Nat : IsPower(e, n) /\ b \in 128 * n .. 256 * n - 1
  <2>1. CASE b \in 132 .. 255
    BY <2>1 DEF IsPower
  <2>2. CASE b \in 256 .. 511
    BY <2>2 DEF IsPower
  <2>3. CASE b \in 512 .. 1023
    BY <2>3 DEF IsPower
  <2>4. CASE b \in 1024 .. 2047
    BY <2>4 DEF IsPower
  <2>5. CASE b \in 2048 .. 4095
    BY <2>5 DEF IsPower
  <2>6. CASE b \in 4096 .. 8191
    BY <2>6 DEF IsPower
  <2>7. CASE b \in 8192 .. 16383
    BY <2>7 DEF IsPower
  <2>8. CASE 16384 <= b /\ b <= 32767
    BY <2>8 DEF IsPower, BiasedSamples
  <2> QED
    BY <2>1, <2>2, <2>3, <2>4, <2>5, <2>6, <2>7, <2>8 DEF BiasedSamples
<1>4. \A e \in 0 .. 7 : \A n : IsPower(e, n) => n = 2^e
  <2>1. ASSUME NEW e \in 0 .. 7, NEW n, NEW m, IsPower(e, n), IsPower(e, m) PROVE n = m
    BY <2>1 DEF IsPower
  <2>2. ASSUME NEW e \in 0 .. 7, NEW n, IsPower(e, n) PROVE n = 2^e
    <3>1. IsPower(e, 2^e)
      BY <1>1, Zenon
    <3> QED
      BY <2>1, <2>2, <3>1, Zenon
  <2> QED
    BY <2>2, Zenon
<1> QED
  BY <1>2, <1>3, <1>4

\* What encodeUlaw works on: the clipped magnitude with its bias.
Biased(x) == ClippedUlaw(Magnitude(x)) + 132

\* The bias never wraps a clipped magnitude.
LEMMA BiasedRange ==
  ASSUME NEW x \in Samples
  PROVE  /\ Biased(x) \in BiasedSamples
         /\ Wrapped(ClippedUlaw(Absolute(x)) + 132) = Biased(x)
<1>1. Absolute(x) = Magnitude(x) /\ Magnitude(x) \in Nat /\ Magnitude(x) <= 32767
  BY DEF Samples, Absolute, Magnitude, Wrapped
<1>2. ASSUME NEW a \in Nat, a <= 32767
      PROVE  /\ ClippedUlaw(a) + 132 \in BiasedSamples
             /\ Wrapped(ClippedUlaw(a) + 132) = ClippedUlaw(a) + 132
  <2>1. ClippedUlaw(a) \in Nat /\ ClippedUlaw(a) <= 32635
    BY <1>2 DEF ClippedUlaw
  <2>2. ASSUME NEW b \in Nat, b <= 65535 PROVE b % 65536 = b
    BY <2>2
  <2>3. (ClippedUlaw(a) + 132 + 32768) % 65536 = ClippedUlaw(a) + 132 + 32768
    BY <2>1, <2>2
  <2> QED
    BY <2>1, <2>3 DEF BiasedSamples, Wrapped
<1> QED
  BY <1>1, <1>2 DEF Biased

\* A byte with sign s, segment e and mantissa m is taken apart again.
LEMMA Unpacked ==
  ASSUME NEW e \in 0 .. 7, NEW m \in 0 .. 15, NEW s \in {0, 128},
         NEW u, u = 255 - (s + 16 * e + m)
  PROVE  DecodeUlaw(u) = (2 * m + 33) * 2^e - 33 \/ DecodeUlaw(u) = -((2 * m + 33) * 2^e - 33)
<1>1. (255 - u) % 128 = 16 * e + m
  OBVIOUS
<1>2. (16 * e + m) % 16 = m /\ (16 * e + m) \div 16 = e
  OBVIOUS
<1> DEFINE decoded(v) == (2 * (v % 16) + 33) * 2 ^ (v \div 16) - 33
<1>3. DecodeUlaw(u) \in {decoded((255 - u) % 128), -decoded((255 - u) % 128)}
  BY Zenon DEF DecodeUlaw
<1>4. decoded(16 * e + m) = (2 * m + 33) * 2^e - 33
  BY <1>2, Zenon
<1> HIDE DEF decoded
<1>5. DecodeUlaw(u) \in {decoded(16 * e + m), -decoded(16 * e + m)}
  BY <1>1, <1>3, Zenon
<1> QED
  BY <1>4, <1>5, Zenon

\* The magnitude that a mantissa stands for.
LEMMA Unbiased ==
  ASSUME NEW m \in 0 .. 15, NEW n \in 1 .. 128, NEW y,
         y = (2 * m + 33) * n - 33 \/ y = -((2 * m + 33) * n - 33)
  PROVE  Magnitude(y) = (2 * m + 33) * n - 33
<1>1. (2 * m + 33) * n - 33 \in Nat
  OBVIOUS
<1> QED
  BY <1>1 DEF Magnitude

\* encodeUlaw, with the biased magnitude it computes.
Exponent(b) == Max({0} \union {f \in 1 .. 7 : Bit(b, f + 7) = 1})
Packed(x, b) ==
  255 - ((IF x < 0 THEN 128 ELSE 0) + 16 * Exponent(b) + ((b \div 2^(Exponent(b) + 3)) % 16))

\* On those samples the int16 arithmetic of encodeUlaw loses nothing.
LEMMA EncodedUlaw ==
  ASSUME NEW x \in Samples
  PROVE  EncodeUlaw(x) = Packed(x, Biased(x))
<1>1. EncodeUlaw(x) = Packed(x, Wrapped(ClippedUlaw(Absolute(x)) + 132))
  BY DEF EncodeUlaw, Packed, Exponent
<1> QED
  BY <1>1, BiasedRange, Zenon

\* What a u-law listener hears of a sample in segment e.
LEMMA HeardInSegment ==
  ASSUME NEW x \in Samples, NEW e \in 0 .. 7, InSegment(Biased(x), e)
  PROVE  LET q == Biased(x) \div (8 * 2^e)
         IN  /\ q \in 16 .. 31
             /\ Magnitude(DecodeUlaw(EncodeUlaw(x))) = (2 * q + 1) * 2^e - 33
<1>1. PICK b \in BiasedSamples : b = Biased(x)
  BY BiasedRange, Zenon
<1>2. PICK n \in 1 .. 128 : n = 2^e /\ 2^(e + 3) = 8 * n
  BY Powers, Zenon
<1>3. b \in 128 * n .. 256 * n - 1 /\ b \in Nat
  <2>1. InSegment(b, e)
    BY <1>1, Zenon
  <2> QED
    BY <1>2, <2>1 DEF InSegment, BiasedSamples
<1>4. PICK q \in 16 .. 31 : q = b \div (8 * n)
  <2>1. 8 * n \in Nat \ {0} /\ b \in 16 * (8 * n) .. 32 * (8 * n) - 1
    BY <1>3
  <2> QED
    BY <2>1, QuotientSixteen, Zenon
<1>5. Exponent(b) = e
  <2>1. InSegment(b, e)
    BY <1>1, Zenon
  <2> QED
    BY <1>3, <2>1, LeadingBit, Zenon DEF Exponent
<1>6. EncodeUlaw(x) = Packed(x, b)
  BY <1>1, EncodedUlaw, Zenon
<1>7. PICK m \in 0 .. 15 : m = q % 16 /\ 2 * m + 33 = 2 * q + 1
  <2>1. q - 16 \in 0 .. 15 /\ q - 16 = q % 16 /\ 2 * (q - 16) + 33 = 2 * q + 1
    OBVIOUS
  <2> QED
    BY <2>1, Zenon
<1>8. PICK s \in {0, 128} : s = IF x < 0 THEN 128 ELSE 0
  BY Zenon
<1>9. EncodeUlaw(x) = 255 - (s + 16 * e + m)
  <2>1. (b \div 2^(Exponent(b) + 3)) % 16 = m
    BY <1>2, <1>4, <1>5, <1>7, Zenon
  <2> QED
    BY <1>5, <1>6, <1>8, <2>1, Zenon DEF Packed
<1>10. \/ DecodeUlaw(EncodeUlaw(x)) = (2 * m + 33) * n - 33
       \/ DecodeUlaw(EncodeUlaw(x)) = -((2 * m + 33) * n - 33)
  <2>1. \/ DecodeUlaw(EncodeUlaw(x)) = (2 * m + 33) * 2^e - 33
        \/ DecodeUlaw(EncodeUlaw(x)) = -((2 * m + 33) * 2^e - 33)
    <3>1. ASSUME NEW u, u = 255 - (s + 16 * e + m)
          PROVE  DecodeUlaw(u) = (2 * m + 33) * 2^e - 33 \/ DecodeUlaw(u) = -((2 * m + 33) * 2^e - 33)
      BY <3>1, Unpacked, Zenon
    <3> QED
      BY <1>9, <3>1, Zenon
  <2> QED
    BY <1>2, <2>1, Zenon
<1>11. Magnitude(DecodeUlaw(EncodeUlaw(x))) = (2 * m + 33) * n - 33
  BY <1>10, Unbiased, Zenon
<1>12. Magnitude(DecodeUlaw(EncodeUlaw(x))) = (2 * q + 1) * 2^e - 33
  BY <1>2, <1>7, <1>11, Zenon
<1>13. q = Biased(x) \div (8 * 2^e)
  BY <1>1, <1>2, <1>4, Zenon
<1> QED
  BY <1>12, <1>13, Zenon

\* A listener hears more of what is louder.
LEMMA HeardGrows ==
  ASSUME NEW x \in Samples, NEW y \in Samples, Magnitude(x) <= Magnitude(y)
  PROVE  Magnitude(DecodeUlaw(EncodeUlaw(x))) <= Magnitude(DecodeUlaw(EncodeUlaw(y)))
<1>1. PICK b \in Nat, c \in Nat :
        b = Biased(x) /\ c = Biased(y) /\ b \in BiasedSamples /\ c \in BiasedSamples
  <2>1. BiasedSamples \subseteq Nat
    BY DEF BiasedSamples
  <2> QED
    BY <2>1, BiasedRange, Zenon
<1>2. b <= c
  <2>1. Magnitude(x) \in Int /\ Magnitude(y) \in Int
    BY DEF Magnitude, Samples
  <2> QED
    BY <1>1, <2>1 DEF Biased, ClippedUlaw
<1>3. PICK e \in 0 .. 7, f \in 0 .. 7 : InSegment(b, e) /\ InSegment(c, f)
  BY <1>1, SomeSegment, Zenon
<1>4. PICK n \in 1 .. 128, m \in 1 .. 128 : n = 2^e /\ m = 2^f
  BY Powers, Zenon
<1>5. PICK q \in 16 .. 31, p \in 16 .. 31 :
        /\ q = b \div (8 * n) /\ p = c \div (8 * m)
        /\ Magnitude(DecodeUlaw(EncodeUlaw(x))) = (2 * q + 1) * n - 33
        /\ Magnitude(DecodeUlaw(EncodeUlaw(y))) = (2 * p + 1) * m - 33
  BY <1>1, <1>3, <1>4, HeardInSegment, Zenon
<1>6. b \in 128 * n .. 256 * n - 1 /\ c \in 128 * m .. 256 * m - 1
  BY <1>3, <1>4, Zenon DEF InSegment
<1>7. CASE e = f
  <2>1. n = m
    BY <1>4, <1>7, Zenon
  <2>2. q <= p
    <3>1. 8 * n \in Nat \ {0}
      OBVIOUS
    <3> QED
      BY <1>2, <1>5, <2>1, <3>1, QuotientGrows, Zenon
  <2>3. (2 * q + 1) * n - 33 <= (2 * p + 1) * n - 33
    BY <2>2
  <2> QED
    BY <1>5, <2>1, <2>3, Zenon
<1>8. CASE e < f
  <2>1. 2 * n <= m
    BY <1>4, <1>8, PowersGrow, Zenon
  <2>2. (2 * q + 1) * n <= 63 * n /\ 33 * m <= (2 * p + 1) * m
    OBVIOUS
  <2> QED
    BY <1>5, <2>1, <2>2
<1>9. CASE f < e
  <2>1. 2 * m <= n
    BY <1>4, <1>9, PowersGrow, Zenon
  <2> QED
    BY <1>2, <1>6, <2>1
<1> QED
  BY <1>7, <1>8, <1>9

\* Clipping keeps signs and the order of magnitudes.
LEMMA ClampedWalk ==
  ASSUME NEW s \in {1, -1}, NEW a \in Nat, NEW b \in Nat, a <= b, Clamp(s * b) > -32768
  PROVE  /\ Clamp(s * a) \in Samples /\ Clamp(s * b) \in Samples
         /\ Magnitude(Clamp(s * a)) <= Magnitude(Clamp(s * b))
<1>1. CASE s = 1
  BY <1>1 DEF Clamp, Samples, Magnitude
<1>2. CASE s = -1
  BY <1>2 DEF Clamp, Samples, Magnitude
<1> QED
  BY <1>1, <1>2

\* The walk stays on the samples.
MixInv == sign \in {1, -1} /\ level \in Nat

\* Through the tables of u-law a louder mix stays the louder one, for every stride
\* of the walk.
THEOREM LoudnessKept == G711Spec => LouderStaysLouder
<1>1. G711Init => MixInv
  BY DEF G711Init, MixInv
<1>2. MixInv /\ [G711Next]_g711Vars => MixInv'
  BY StrideAssumption DEF MixInv, G711Next, Louder, g711Vars
<1>3. ASSUME MixInv, MixInv', G711Next, law = "ulaw", Clamp(sign * level') > -32768
      PROVE  Magnitude(Heard(law, sign * level')) >= Magnitude(Heard(law, sign * level))
  <2>1. level <= level' /\ level \in Nat /\ level' \in Nat /\ sign \in {1, -1}
    BY <1>3, StrideAssumption DEF MixInv, G711Next, Louder
  <2>2. /\ Clamp(sign * level) \in Samples /\ Clamp(sign * level') \in Samples
        /\ Magnitude(Clamp(sign * level)) <= Magnitude(Clamp(sign * level'))
    BY <1>3, <2>1, ClampedWalk
  <2>3. \A x : Heard("ulaw", x) = DecodeUlaw(EncodeUlaw(Clamp(x)))
    BY Zenon DEF Heard, Decode, Encode
  <2>4. Magnitude(Heard("ulaw", sign * level)) <= Magnitude(Heard("ulaw", sign * level'))
    BY <2>2, <2>3, HeardGrows, Zenon
  <2> QED
    BY <1>3, <2>4
<1>4. MixInv /\ MixInv' /\ [G711Next]_g711Vars =>
        [law = "ulaw" /\ Clamp(sign * level') > -32768 =>
           Magnitude(Heard(law, sign * level')) >= Magnitude(Heard(law, sign * level))]_g711Vars
  BY <1>3
<1> QED
  BY <1>1, <1>2, <1>4, PTL DEF G711Spec, LouderStaysLouder

=============================================================================
