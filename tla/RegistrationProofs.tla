------------------------- MODULE RegistrationProofs -------------------------
(***************************************************************************)
(* Theorems about Registration for any number of REGISTERs, calls,         *)
(* contacts and faults: no wake-up is lost once a call has subscribed, and *)
(* an extension keeps within its limit of registrations but for requests   *)
(* that pass each other between their delete and their insert.             *)
(***************************************************************************)
EXTENDS Registration, FiniteSetTheorems, TLAPS

\* What the argument needs of the types.
WaitTypes ==
  /\ registrations \subseteq Registers
  /\ handler \in [Registers -> {"idle", "delete", "recount", "insert", "token", "notify", "close",
                                "remove", "fetch", "empty", "200", "403", "500"}]
  /\ reg \in [Registers -> RegisterRequests]
  /\ channels \in [Registers -> SUBSET PushWaits]
  /\ listeners \subseteq PushWaits
  /\ pushWait \in [PushWaits -> {"idle", "route", "pushed", "waiting", "woken", "timeout",
                                 "rung", "unreachable"}]
  /\ own \in [PushWaits -> SUBSET Contacts]

\* REGISTER s has the channel of call c in hand.
Telling(s, c) == handler[s] = "close" /\ c \in channels[s]

\* A row is of a REGISTER that has inserted it.
RowsInserted == \A w \in registrations : handler[w] \in {"token", "notify", "close", "200"}

\* The channel of a waiting call is in the map, with a REGISTER, or closed.
ChannelHeld ==
  \A c \in PushWaits : pushWait[c] = "waiting" =>
    c \in closed \/ c \in listeners \/ \E s \in Registers : Telling(s, c)

\* A call that has found no row to ring knows of each such row since, is about to
\* be told, or was not yet listening when it was told.
NoWakeUpLost ==
  \A c \in PushWaits : \A w \in Reachable(c) : pushWait[c] \in {"route", "pushed", "waiting"} =>
    \/ handler[w] \in {"token", "notify"}
    \/ c \in missed \/ c \in closed
    \/ pushWait[c] = "waiting" /\ \E s \in Registers : Telling(s, c)

WakeInv == WaitTypes /\ RowsInserted /\ ChannelHeld /\ NoWakeUpLost

-----------------------------------------------------------------------------
(* Calls that wait.                                                        *)

LEMMA WakeInit == RegistrationInit => WakeInv
BY RegistrationAssumption DEF RegistrationInit, RegisterRequests, RegisterKinds, WakeInv, WaitTypes, RowsInserted, ChannelHeld, NoWakeUpLost

\* A row that is not new is rung only by the calls that could ring it before.
LEMMA NoNewTarget ==
  ASSUME own' = own, NEW r, registrations' \ expired' \subseteq (registrations \ expired) \union {r},
         \A w \in registrations : reg'[w] = reg[w]
  PROVE  \A c \in PushWaits : Reachable(c)' \subseteq Reachable(c) \union {r}
BY DEF Reachable, ReachableBut

\* Steps of requests that tell nobody keep the invariant: they insert no row
\* but their own, and hold no channel before or after.
LEMMA Uninvolved ==
  ASSUME WakeInv, WaitTypes', UNCHANGED waitVars, missed \subseteq missed', NEW r \in Registers,
         \A s \in Registers \ {r} : handler'[s] = handler[s] /\ channels'[s] = channels[s],
         handler'[r] # handler[r] => handler[r] # "close" /\ handler'[r] # "close",
         channels'[r] = channels[r],
         registrations' \subseteq registrations \union {r},
         registrations' \ expired' \subseteq (registrations \ expired) \union {r},
         r \notin registrations => \A w \in registrations : reg'[w] = reg[w],
         r \in registrations => reg' = reg /\ registrations' \ expired' \subseteq registrations \ expired,
         r \in registrations' => \/ handler'[r] \in {"token", "notify"}
                                 \/ r \in registrations /\ handler'[r] = handler[r]
  PROVE  WakeInv'
<1> USE DEF WakeInv, WaitTypes, waitVars
<1>1. \A s \in Registers, c \in PushWaits : Telling(s, c)' = Telling(s, c)
  BY DEF Telling
<1>2. RowsInserted'
  BY DEF RowsInserted
<1>3. ChannelHeld'
  BY <1>1 DEF ChannelHeld
<1>4. NoWakeUpLost'
  <2> SUFFICES ASSUME NEW c \in PushWaits, NEW w \in Reachable(c)', pushWait[c] \in {"route", "pushed", "waiting"}
               PROVE  \/ handler'[w] \in {"token", "notify"}
                      \/ c \in missed' \/ c \in closed
                      \/ pushWait[c] = "waiting" /\ \E s \in Registers : Telling(s, c)'
    BY DEF NoWakeUpLost
  <2>1. w \in registrations'
    BY DEF Reachable, ReachableBut
  <2>2. w \in Reachable(c) \/ (w = r /\ r \notin registrations)
    BY NoNewTarget DEF Reachable, ReachableBut
  <2>3. CASE w \in Reachable(c)
    BY <1>1, <2>1, <2>3 DEF NoWakeUpLost
  <2>4. CASE w = r /\ r \notin registrations
    BY <2>1, <2>4
  <2> QED BY <2>2, <2>3, <2>4
<1> QED BY <1>2, <1>3, <1>4

LEMMA WakeTypes == ASSUME WakeInv, [RegistrationNext]_registrationVars PROVE WaitTypes'
<1> USE DEF WakeInv, WaitTypes, HandlerGoes, Fails, WaitGoes, Delete, tableVars, waitVars, rowHistory
<1>1. ASSUME NEW r \in Registers, NEW q \in RegisterRequests, HandleRegister(r, q) PROVE WaitTypes'
  BY <1>1 DEF HandleRegister
<1>2. ASSUME NEW r \in Registers, RegisterStep(r) PROVE WaitTypes'
  <2>1. CASE DeleteContact(r) \/ CheckLimit(r)
    BY <2>1 DEF DeleteContact, CheckLimit
  <2>2. CASE InsertRow(r) \/ StoreToken(r)
    BY <2>2 DEF InsertRow, StoreToken
  <2>3. CASE Notify(r) \/ CloseChannels(r)
    BY <2>3 DEF Notify, CloseChannels
  <2>4. CASE RemoveContact(r) \/ FetchRows(r) \/ EmptyRows(r)
    BY <2>4 DEF RemoveContact, FetchRows, EmptyRows
  <2> QED BY <1>2, <2>1, <2>2, <2>3, <2>4 DEF RegisterStep
<1>3. ASSUME NEW c \in PushWaits, PushWaitStep(c) PROVE WaitTypes'
  BY <1>3 DEF PushWaitStep, FindNone, SendPush, Subscribe, Wake, Retry
<1>4. CASE RowExpires \/ CleanRows
  BY <1>4 DEF RowExpires, CleanRows
<1>5. CASE UNCHANGED registrationVars
  BY <1>5 DEF registrationVars
<1> QED BY <1>1, <1>2, <1>3, <1>4, <1>5 DEF RegistrationNext

LEMMA WakeStep == ASSUME WakeInv, [RegistrationNext]_registrationVars PROVE WakeInv'
<1>0. WaitTypes'
  BY WakeTypes
<1> USE DEF HandlerGoes, Fails, WaitGoes, Delete, tableVars, rowHistory
<1>1. ASSUME NEW r \in Registers, NEW q \in RegisterRequests, HandleRegister(r, q) PROVE WakeInv'
  <2>1. /\ handler[r] = "idle" /\ UNCHANGED <<registrations, expired, channels, waitVars, missed>>
        /\ reg' = [reg EXCEPT ![r] = q]
        /\ \E l \in {"delete", "remove", "fetch"} : handler' = [handler EXCEPT ![r] = l]
    BY <1>1 DEF HandleRegister
  <2>2. r \notin registrations
    BY <2>1 DEF WakeInv, RowsInserted
  <2>3. \A w \in registrations : reg'[w] = reg[w]
    BY <2>1, <2>2 DEF WakeInv, WaitTypes
  <2> QED BY <1>0, <2>1, <2>2, <2>3, Uninvolved DEF WakeInv, WaitTypes
<1>2. ASSUME NEW r \in Registers, Notify(r) PROVE WakeInv'
  <2>1. /\ handler[r] = "notify" /\ handler' = [handler EXCEPT ![r] = "close"]
        /\ channels' = [channels EXCEPT ![r] = listeners]
        /\ missed' = missed \union {c \in PushWaits : pushWait[c] \in {"route", "pushed"}}
        /\ UNCHANGED <<tableVars, reg, own, closed, pushWait>>
    BY <1>2 DEF Notify
  <2>2. \A s \in Registers, c \in PushWaits : Telling(s, c)' = (Telling(s, c) \/ (s = r /\ c \in listeners))
    BY <2>1 DEF Telling, WakeInv, WaitTypes
  <2>3. RowsInserted'
    BY <2>1 DEF RowsInserted, WakeInv, WaitTypes
  <2>4. ChannelHeld'
    BY <2>1, <2>2 DEF ChannelHeld, WakeInv
  <2>5. NoWakeUpLost'
    <3> SUFFICES ASSUME NEW c \in PushWaits, NEW w \in Reachable(c)',
                        pushWait[c] \in {"route", "pushed", "waiting"},
                        handler'[w] \notin {"token", "notify"}, c \notin missed', c \notin closed
                 PROVE  pushWait[c] = "waiting" /\ \E s \in Registers : Telling(s, c)'
      BY <2>1 DEF NoWakeUpLost
    <3>1. pushWait[c] = "waiting"
      BY <2>1 DEF WakeInv, WaitTypes
    <3>2. c \in listeners \/ \E s \in Registers : Telling(s, c)
      BY <3>1 DEF WakeInv, ChannelHeld
    <3> QED BY <2>2, <3>1, <3>2
  <2> QED BY <1>0, <2>3, <2>4, <2>5 DEF WakeInv
<1>3. ASSUME NEW r \in Registers, CloseChannels(r) PROVE WakeInv'
  <2>1. /\ handler[r] = "close" /\ handler' = [handler EXCEPT ![r] = "200"]
        /\ channels' = [channels EXCEPT ![r] = {}] /\ closed' = closed \union channels[r]
        /\ UNCHANGED <<tableVars, reg, own, listeners, pushWait, missed>>
    BY <1>3 DEF CloseChannels
  <2>2. \A s \in Registers, c \in PushWaits : Telling(s, c) => Telling(s, c)' \/ c \in closed'
    BY <2>1 DEF Telling, WakeInv, WaitTypes
  <2>3. RowsInserted'
    BY <2>1 DEF RowsInserted, WakeInv, WaitTypes
  <2>4. ChannelHeld'
    BY <2>1, <2>2 DEF ChannelHeld, WakeInv
  <2>5. \A c : Reachable(c)' = Reachable(c) /\ Reachable(c) \subseteq Registers
    BY <2>1 DEF Reachable, ReachableBut, WakeInv, WaitTypes
  <2>6. NoWakeUpLost'
    BY <2>1, <2>2, <2>5 DEF NoWakeUpLost, WakeInv, WaitTypes
  <2> QED BY <1>0, <2>3, <2>4, <2>6 DEF WakeInv
<1>4. ASSUME NEW r \in Registers, RegisterStep(r), ~Notify(r), ~CloseChannels(r) PROVE WakeInv'
  <2>1. CASE InsertRow(r) \/ StoreToken(r)
    <3>1. /\ handler[r] \in {"insert", "token"} /\ UNCHANGED <<channels, waitVars, missed>>
          /\ \/ \E l \in {"token", "notify"} : handler' = [handler EXCEPT ![r] = l]
             \/ handler[r] = "insert" /\ handler' = [handler EXCEPT ![r] = "500"] /\ UNCHANGED registrations
          /\ registrations' \subseteq registrations \union {r} /\ UNCHANGED <<expired, reg>>
          /\ registrations' # registrations => r \notin registrations
      BY <2>1 DEF InsertRow, StoreToken
    <3> QED BY <1>0, <3>1, Uninvolved DEF WakeInv, WaitTypes, RowsInserted
  <2>2. CASE DeleteContact(r) \/ CheckLimit(r) \/ RemoveContact(r) \/ FetchRows(r) \/ EmptyRows(r)
    <3>1. /\ handler[r] \in {"delete", "recount", "remove", "fetch", "empty"}
          /\ UNCHANGED <<reg, channels, waitVars, missed>> /\ registrations' \subseteq registrations
          /\ registrations' \ expired' \subseteq registrations \ expired
          /\ \/ \E l \in {"recount", "insert", "empty", "200", "403", "500"} : handler' = [handler EXCEPT ![r] = l]
             \/ UNCHANGED handler
      BY <2>2 DEF DeleteContact, CheckLimit, RemoveContact, FetchRows, EmptyRows
    <3> QED BY <1>0, <3>1, Uninvolved DEF WakeInv, WaitTypes, RowsInserted
  <2> QED BY <1>4, <2>1, <2>2 DEF RegisterStep
<1>5. ASSUME NEW c \in PushWaits, PushWaitStep(c) PROVE WakeInv'
  <2> USE DEF WakeInv, WaitTypes
  <2>0. UNCHANGED <<tableVars, reg, handler, channels, closed, missed>> /\ RowsInserted'
    BY <1>5 DEF PushWaitStep, FindNone, SendPush, Subscribe, Wake, Retry, RowsInserted
  <2>1. \A s \in Registers, d \in PushWaits : Telling(s, d)' = Telling(s, d)
    BY <2>0 DEF Telling
  <2>a. \A d \in PushWaits \ {c} : own'[d] = own[d] /\ Reachable(d)' = Reachable(d)
    <3>1. \A d \in PushWaits \ {c} : own'[d] = own[d]
      BY <1>5 DEF PushWaitStep, FindNone, SendPush, Subscribe, Wake, Retry
    <3> QED BY <2>0, <3>1 DEF Reachable, ReachableBut
  <2>2. CASE FindNone(c)
    <3>1. Reachable(c)' = {}
      BY <2>0, <2>2 DEF FindNone, Reachable, ReachableBut
    <3>2. NoWakeUpLost'
      BY <1>0, <2>0, <2>1, <2>2, <2>a, <3>1 DEF FindNone, NoWakeUpLost
    <3> QED BY <1>0, <2>0, <2>1, <2>2, <3>2 DEF FindNone, ChannelHeld
  <2>b. ~FindNone(c) => \A d \in PushWaits : Reachable(d)' = Reachable(d)
    BY <1>5, <2>0 DEF PushWaitStep, SendPush, Subscribe, Wake, Retry, Reachable, ReachableBut
  <2>3. CASE SendPush(c) /\ ~FindNone(c)
    BY <1>0, <2>0, <2>1, <2>3, <2>b DEF SendPush, ChannelHeld, NoWakeUpLost
  <2>4. CASE Subscribe(c) /\ ~FindNone(c)
    BY <1>0, <2>0, <2>1, <2>4, <2>b DEF Subscribe, ChannelHeld, NoWakeUpLost
  <2>5. CASE (Wake(c) \/ Retry(c)) /\ ~FindNone(c)
    <3>1. /\ \E l \in {"woken", "timeout", "rung", "unreachable"} : pushWait' = [pushWait EXCEPT ![c] = l]
          /\ listeners \ {c} \subseteq listeners'
      BY <2>5 DEF Wake, Retry
    <3> QED BY <1>0, <2>0, <2>1, <2>5, <2>b, <3>1 DEF ChannelHeld, NoWakeUpLost
  <2> QED BY <1>5, <2>2, <2>3, <2>4, <2>5 DEF PushWaitStep
<1>6. CASE RowExpires \/ CleanRows \/ UNCHANGED registrationVars
  <2>1. /\ registrations' \subseteq registrations /\ registrations' \ expired' \subseteq registrations \ expired
        /\ UNCHANGED <<reg, handler, channels, waitVars, missed>>
    BY <1>6 DEF RowExpires, CleanRows, registrationVars
  <2>2. \A c : Reachable(c)' \subseteq Reachable(c)
    BY <2>1 DEF Reachable, ReachableBut, waitVars
  <2> QED BY <1>0, <2>1, <2>2 DEF WakeInv, waitVars, RowsInserted, ChannelHeld, NoWakeUpLost, Telling
<1> QED BY <1>1, <1>2, <1>3, <1>4, <1>5, <1>6 DEF RegistrationNext

\* A call that subscribed in time is told of every registration, whatever
\* REGISTERs, un-REGISTERs and other calls interleave (Notify, Subscribe).
THEOREM NotifyReachesWaiters == RegistrationSpec => MissedOnlyBeforeSubscribe
<1>1. WakeInv /\ [RegistrationNext]_registrationVars => WakeInv'
  BY WakeStep
<1>2. ASSUME WakeInv, NEW c \in PushWaits, pushWait[c] = "waiting", c \notin closed, Reachable(c) # {}
      PROVE  c \in missed \/ \E r \in Registers : handler[r] \in {"token", "notify", "close"}
  BY <1>2 DEF WakeInv, WaitTypes, NoWakeUpLost, Telling, Reachable, ReachableBut
<1>3. WakeInv => \A c \in PushWaits :
        pushWait[c] = "waiting" /\ pushWait'[c] = "timeout" /\ c \notin closed /\ Reachable(c) # {} =>
          c \in missed \/ \E r \in Registers : handler[r] \in {"token", "notify", "close"}
  BY <1>2
<1> QED BY <1>1, <1>3, WakeInit, PTL DEF RegistrationSpec, MissedOnlyBeforeSubscribe

-----------------------------------------------------------------------------
(* The rows.                                                               *)

\* The state of the registrar and of the waiting calls has its type.
THEOREM RegistrationTypeInvariance == RegistrationSpec => []RegistrationTypeOK
<1> USE DEF RegistrationTypeOK, RegisterRequests, Answers
<1>1. RegistrationInit => RegistrationTypeOK
  BY RegistrationAssumption DEF RegistrationInit, RegisterKinds
<1>2. ASSUME RegistrationTypeOK, [RegistrationNext]_registrationVars PROVE RegistrationTypeOK'
  <2> USE DEF HandlerGoes, Fails, WaitGoes, Delete, tableVars, waitVars, rowHistory
  <2>1. ASSUME NEW r \in Registers, NEW q \in RegisterRequests, HandleRegister(r, q)
        PROVE  RegistrationTypeOK'
    BY <1>2, <2>1 DEF HandleRegister
  <2>2. ASSUME NEW r \in Registers, DeleteContact(r) PROVE RegistrationTypeOK'
    BY <1>2, <2>2 DEF DeleteContact
  <2>3. ASSUME NEW r \in Registers, CheckLimit(r) PROVE RegistrationTypeOK'
    BY <1>2, <2>3 DEF CheckLimit
  <2>4. ASSUME NEW r \in Registers, InsertRow(r) PROVE RegistrationTypeOK'
    BY <1>2, <2>4 DEF InsertRow
  <2>5. ASSUME NEW r \in Registers, StoreToken(r) PROVE RegistrationTypeOK'
    BY <1>2, <2>5 DEF StoreToken
  <2>6. ASSUME NEW r \in Registers, Notify(r) \/ CloseChannels(r) PROVE RegistrationTypeOK'
    <3>1. CASE Notify(r)
      BY <1>2, <3>1 DEF Notify
    <3>2. CASE CloseChannels(r)
      <4>1. channels[r] \subseteq PushWaits
        BY <1>2
      <4> QED
        BY <1>2, <3>2, <4>1 DEF CloseChannels
    <3> QED
      BY <2>6, <3>1, <3>2
  <2>7. ASSUME NEW r \in Registers, RemoveContact(r) PROVE RegistrationTypeOK'
    BY <1>2, <2>7 DEF RemoveContact
  <2>8. ASSUME NEW r \in Registers, FetchRows(r) PROVE RegistrationTypeOK'
    BY <1>2, <2>8 DEF FetchRows
  <2>9. ASSUME NEW r \in Registers, EmptyRows(r) PROVE RegistrationTypeOK'
    <3>1. /\ registrations' \subseteq registrations /\ expired' \subseteq registrations'
      BY <1>2, <2>9 DEF EmptyRows
    <3>2. fetched' \in [Registers -> SUBSET Registers]
      <4>1. \/ fetched' = fetched
            \/ \E w \in fetched[r] : fetched' = [fetched EXCEPT ![r] = @ \ {w}]
        BY <2>9 DEF EmptyRows
      <4> QED
        BY <1>2, <4>1
    <3>3. handler' = handler \/ handler' = [handler EXCEPT ![r] = "200"]
      BY <2>9 DEF EmptyRows
    <3>4. UNCHANGED <<tokens, reg, channels, waitVars, refreshes, raced, missed>>
      BY <2>9 DEF EmptyRows
    <3> QED
      BY <1>2, <3>1, <3>2, <3>3, <3>4
  <2>10. ASSUME NEW c \in PushWaits, PushWaitStep(c) PROVE RegistrationTypeOK'
    BY <1>2, <2>10 DEF PushWaitStep, FindNone, SendPush, Subscribe, Wake, Retry
  <2>11. CASE RowExpires \/ CleanRows
    BY <1>2, <2>11 DEF RowExpires, CleanRows
  <2>12. CASE UNCHANGED registrationVars
    BY <1>2, <2>12 DEF registrationVars
  <2> HIDE DEF RegistrationTypeOK
  <2> QED
    BY <1>2, <2>1, <2>2, <2>3, <2>4, <2>5, <2>6, <2>7, <2>8, <2>9, <2>10, <2>11, <2>12
    DEF RegistrationNext, RegisterStep
<1> HIDE DEF RegistrationTypeOK
<1> QED
  BY <1>1, <1>2, PTL DEF RegistrationSpec

\* Two requests between their delete and their insert are both known to have
\* passed each other: the later one has marked both.
SideBySide ==
  \A r, s \in Registers : Inserting(r) /\ Inserting(s) /\ r # s => r \in raced

\* A request that nobody passed inserts where there is room, the only row of
\* its contact.
RoomFor ==
  \A r \in Registers : Inserting(r) /\ r \notin raced =>
    /\ RowsOf(reg[r].contact) = {}
    /\ handler[r] = "insert" => Cardinality(registrations) < MaxRegistrations

\* It has made that room itself if it replaces a row.
RoomAgain ==
  \A r \in refreshes :
    /\ handler[r] \notin {"idle", "delete"}
    /\ handler[r] = "recount" /\ raced = {} => Cardinality(registrations) < MaxRegistrations

LimitInv ==
  RegistrationTypeOK /\ RowsInserted /\ SideBySide /\ RoomFor /\ RoomAgain /\ ContactsWithinLimit

\* Tables are finite, and what is part of one is no larger.
LEMMA TableFacts ==
  ASSUME NEW S \in SUBSET Registers
  PROVE  /\ IsFiniteSet(S) /\ Cardinality(S) \in Nat
         /\ \A T \in SUBSET S : Cardinality(T) <= Cardinality(S) /\ Cardinality(T) \in Nat
         /\ \A T \in SUBSET S : T # S => Cardinality(T) < Cardinality(S)
<1>1. IsFiniteSet(Registers)
  BY FS_Interval, RegistrationAssumption DEF Registers
<1>2. IsFiniteSet(S) /\ Cardinality(S) \in Nat
  BY <1>1, FS_Subset, FS_CardinalityType
<1>3. ASSUME NEW T \in SUBSET S
      PROVE  /\ Cardinality(T) <= Cardinality(S) /\ Cardinality(T) \in Nat
             /\ T # S => Cardinality(T) < Cardinality(S)
  <2>1. IsFiniteSet(T) /\ Cardinality(T) <= Cardinality(S) /\ (Cardinality(S) = Cardinality(T) => S = T)
    BY <1>2, FS_Subset
  <2>2. Cardinality(T) \in Nat
    BY <2>1, FS_CardinalityType
  <2> QED
    BY <1>2, <2>1, <2>2
<1> QED
  BY <1>2, <1>3

\* A row of a request's own is one more.
LEMMA RowFacts ==
  ASSUME NEW S \in SUBSET Registers, NEW r \in Registers
  PROVE  Cardinality(S \union {r}) <= Cardinality(S) + 1 /\ Cardinality(S \union {r}) \in Nat
<1>1. IsFiniteSet(S) /\ Cardinality(S) \in Nat
  BY TableFacts
<1>2. Cardinality(S \union {r}) = IF r \in S THEN Cardinality(S) ELSE Cardinality(S) + 1
  BY <1>1, FS_AddElement, Zenon
<1> QED
  BY <1>1, <1>2

\* What inserts nothing and lets nobody go to insert keeps the limit.
LEMMA FewerRows ==
  ASSUME LimitInv, RegistrationTypeOK',
         registrations' \subseteq registrations, UNCHANGED <<refreshes, raced>>,
         \A r \in Registers : r \in registrations \/ Inserting(r) => reg'[r] = reg[r],
         \A r \in Registers : \/ handler'[r] = handler[r]
                              \/ /\ handler'[r] \notin {"idle", "recount", "insert", "403"}
                                 /\ handler'[r] = "delete" => handler[r] = "idle"
                                 /\ r \in registrations' => handler'[r] \in {"token", "notify", "close", "200"}
  PROVE  LimitInv'
<1> USE DEF LimitInv
<1>1. registrations \subseteq Registers /\ registrations' \subseteq Registers
  BY DEF RegistrationTypeOK
<1>2. /\ Cardinality(registrations') <= Cardinality(registrations)
      /\ Cardinality(registrations') \in Nat /\ Cardinality(registrations) \in Nat
  BY <1>1, TableFacts
<1>3. /\ Cardinality(registrations' \ raced) <= Cardinality(registrations \ raced)
      /\ Cardinality(registrations' \ raced) \in Nat /\ Cardinality(registrations \ raced) \in Nat
  <2>1. registrations \ raced \in SUBSET Registers /\ registrations' \ raced \in SUBSET (registrations \ raced)
    BY <1>1
  <2> QED
    BY <2>1, TableFacts
<1>4. MaxRegistrations \in Nat
  BY RegistrationAssumption
<1>5. \A r \in Registers : Inserting(r)' => Inserting(r) /\ handler'[r] = handler[r] /\ reg'[r] = reg[r]
  BY DEF Inserting
<1>6. RowsInserted'
  BY <1>1 DEF RowsInserted
<1>7. SideBySide'
  BY <1>5 DEF SideBySide
<1>8. RoomFor'
  <2>1. ASSUME NEW r \in Registers, Inserting(r)', r \notin raced'
        PROVE  RowsOf(reg[r].contact)' = {}
    <3>1. reg'[r] = reg[r] /\ RowsOf(reg[r].contact) = {}
      BY <1>5, <2>1 DEF RoomFor
    <3> QED
      BY <1>1, <3>1 DEF RowsOf
  <2> QED
    BY <1>2, <1>4, <1>5, <2>1 DEF RoomFor
<1>9. RoomAgain'
  <2>1. refreshes \subseteq Registers
    BY DEF RegistrationTypeOK
  <2> QED
    BY <1>2, <1>4, <2>1 DEF RoomAgain
<1>10. ContactsWithinLimit'
  <2>1. refreshes \subseteq Registers
    BY DEF RegistrationTypeOK
  <2> QED
    BY <1>1, <1>3, <1>4, <2>1 DEF ContactsWithinLimit
<1> QED
  BY <1>6, <1>7, <1>8, <1>9, <1>10

\* A request deletes the row of its contact.
LEMMA DeleteLimit ==
  ASSUME LimitInv, RegistrationTypeOK', NEW r \in Registers, DeleteContact(r),
         registrations' = registrations \ RowsOf(reg[r].contact), handler' = [handler EXCEPT ![r] = "recount"],
         refreshes' = IF RowsOf(reg[r].contact) # {} THEN refreshes \union {r} ELSE refreshes,
         raced' = raced \union (IF \E s \in Registers : Inserting(s)
                                THEN {r} \union {s \in Registers : Inserting(s)} ELSE {})
  PROVE  LimitInv'
<1> USE DEF LimitInv
<1>1. registrations \subseteq Registers /\ registrations' \subseteq registrations
  BY DEF RegistrationTypeOK
<1>2. /\ Cardinality(registrations') <= Cardinality(registrations)
      /\ Cardinality(registrations') \in Nat /\ Cardinality(registrations) \in Nat
      /\ registrations' # registrations => Cardinality(registrations') < Cardinality(registrations)
  BY <1>1, TableFacts
<1>3. raced \subseteq raced' /\ refreshes \subseteq Registers
  BY DEF RegistrationTypeOK
<1>4. /\ Cardinality(registrations' \ raced') <= Cardinality(registrations \ raced)
      /\ Cardinality(registrations' \ raced') \in Nat /\ Cardinality(registrations \ raced) \in Nat
  <2>1. registrations \ raced \in SUBSET Registers /\ registrations' \ raced' \in SUBSET (registrations \ raced)
    BY <1>1, <1>3
  <2> QED
    BY <2>1, TableFacts
<1>5. MaxRegistrations \in Nat
  BY RegistrationAssumption
<1>6. reg' = reg /\ handler[r] = "delete" /\ handler'[r] = "recount"
      /\ \A s \in Registers \ {r} : handler'[s] = handler[s]
  BY DEF DeleteContact, RegistrationTypeOK
<1>7. \A s \in Registers : Inserting(s)' <=> s = r \/ Inserting(s)
  BY <1>6 DEF Inserting
<1>8. RowsInserted'
  BY <1>1, <1>6 DEF RowsInserted
<1>9. SideBySide'
  BY <1>3, <1>7 DEF SideBySide
<1>10. RoomFor'
  <2>1. ASSUME NEW s \in Registers, Inserting(s)', s \notin raced'
        PROVE  /\ RowsOf(reg[s].contact)' = {}
               /\ handler'[s] = "insert" => Cardinality(registrations') < MaxRegistrations
    <3>1. CASE s = r
      BY <1>6, <3>1 DEF RowsOf
    <3>2. CASE s # r
      BY <1>7, <2>1, <3>2
    <3> QED
      BY <3>1, <3>2
  <2> QED
    BY <2>1 DEF RoomFor
<1>11. RoomAgain'
  <2> SUFFICES ASSUME NEW s \in refreshes', handler'[s] = "recount", raced' = {}
               PROVE  Cardinality(registrations') < MaxRegistrations
    <3>1. refreshes' \subseteq refreshes \union {r}
      OBVIOUS
    <3>2. \A s \in refreshes' : handler'[s] \notin {"idle", "delete"}
      BY <1>3, <1>6, <3>1 DEF RoomAgain
    <3> QED
      BY <3>2 DEF RoomAgain
  <2>1. raced = {} /\ \A x \in Registers : ~Inserting(x)
    BY <1>3
  <2>2. s \in Registers
    BY <1>3
  <2>3. s = r
    BY <1>6, <2>1, <2>2 DEF Inserting
  <2>4. CASE RowsOf(reg[r].contact) # {}
    <3>1. registrations' # registrations
      BY <2>4 DEF RowsOf
    <3>2. registrations \ raced = registrations
      BY <2>1
    <3>3. Cardinality(registrations) <= MaxRegistrations
      BY <3>2 DEF ContactsWithinLimit
    <3> QED
      BY <1>2, <1>5, <3>1, <3>3
  <2>5. CASE RowsOf(reg[r].contact) = {}
    <3>1. r \in refreshes
      BY <2>3, <2>5
    <3> QED
      BY <1>6, <3>1 DEF RoomAgain
  <2> QED
    BY <2>4, <2>5
<1>12. ContactsWithinLimit'
  BY <1>1, <1>3, <1>4, <1>5, <1>6 DEF ContactsWithinLimit
<1> QED
  BY <1>8, <1>9, <1>10, <1>11, <1>12

\* A request is refused, or may insert.
LEMMA CheckStep ==
  ASSUME LimitInv, RegistrationTypeOK', NEW r \in Registers, handler[r] = "recount",
         UNCHANGED <<registrations, reg, refreshes, raced>>,
         \/ Cardinality(registrations) >= MaxRegistrations /\ handler' = [handler EXCEPT ![r] = "403"]
         \/ Cardinality(registrations) < MaxRegistrations /\ handler' = [handler EXCEPT ![r] = "insert"]
  PROVE  LimitInv'
<1> USE DEF LimitInv
<1>1. registrations \subseteq Registers /\ refreshes \subseteq Registers
  BY DEF RegistrationTypeOK
<1>2. Cardinality(registrations) \in Nat /\ MaxRegistrations \in Nat
  BY <1>1, TableFacts, RegistrationAssumption
<1>3. \A s \in Registers \ {r} : handler'[s] = handler[s]
  BY DEF RegistrationTypeOK
<1>4. handler'[r] \in {"403", "insert"}
      /\ (handler'[r] = "insert" => Cardinality(registrations) < MaxRegistrations)
      /\ (handler'[r] = "403" => Cardinality(registrations) >= MaxRegistrations)
  BY DEF RegistrationTypeOK
<1>5. \A s \in Registers : Inserting(s)' => Inserting(s)
  BY <1>3 DEF Inserting
<1>6. RowsInserted'
  BY <1>1, <1>3 DEF RowsInserted
<1>7. SideBySide'
  BY <1>5 DEF SideBySide
<1>8. RoomFor'
  BY <1>3, <1>4, <1>5 DEF RoomFor, RowsOf
<1>9. RoomAgain'
  BY <1>1, <1>3, <1>4 DEF RoomAgain
<1>10. ContactsWithinLimit'
  <2>1. r \in refreshes /\ handler'[r] = "403" => raced # {}
    BY <1>2, <1>4 DEF RoomAgain
  <2> QED
    BY <1>1, <1>3, <2>1 DEF ContactsWithinLimit
<1> QED
  BY <1>6, <1>7, <1>8, <1>9, <1>10

\* A request inserts its row.
LEMMA InsertLimit ==
  ASSUME LimitInv, RegistrationTypeOK', NEW r \in Registers, handler[r] = "insert",
         UNCHANGED <<reg, refreshes, raced>>, registrations' = registrations \union {r},
         handler' = [handler EXCEPT ![r] = "token"]
  PROVE  LimitInv'
<1> USE DEF LimitInv
<1>1. registrations \subseteq Registers /\ refreshes \subseteq Registers /\ raced \subseteq Registers
  BY DEF RegistrationTypeOK
<1>2. /\ handler'[r] = "token"
      /\ \A s \in Registers \ {r} : handler'[s] = handler[s]
  BY DEF RegistrationTypeOK
<1>3. \A s \in Registers : Inserting(s)' => s # r /\ Inserting(s) /\ s \in raced
  BY <1>2 DEF Inserting, SideBySide
<1>4. RowsInserted'
  BY <1>1, <1>2 DEF RowsInserted
<1>5. SideBySide'
  BY <1>3 DEF SideBySide
<1>6. RoomFor'
  BY <1>3 DEF RoomFor
<1>7. RoomAgain'
  <2>1. ASSUME NEW s \in refreshes, handler'[s] = "recount", raced = {} PROVE FALSE
    BY <1>1, <1>3, <2>1 DEF Inserting
  <2> QED
    BY <1>1, <1>2, <2>1 DEF RoomAgain
<1>8. ContactsWithinLimit'
  <2> DEFINE rows == registrations \ raced
             rows2 == registrations' \ raced
  <2>1. rows \in SUBSET Registers /\ rows \in SUBSET registrations
    BY <1>1
  <2>2. Cardinality(rows) <= MaxRegistrations /\ Cardinality(rows) \in Nat /\ MaxRegistrations \in Nat
    BY <2>1, TableFacts, RegistrationAssumption DEF ContactsWithinLimit
  <2>3. CASE r \in raced
    <3>1. rows2 = rows
      BY <2>3
    <3> QED
      BY <1>1, <1>2, <3>1 DEF ContactsWithinLimit
  <2>4. CASE r \notin raced
    <3>1. RowsOf(reg[r].contact) = {} /\ Cardinality(registrations) < MaxRegistrations
      BY <2>4 DEF RoomFor, Inserting
    <3>2. rows2 = rows \union {r}
      BY <2>4
    <3>3. Cardinality(rows2) <= Cardinality(rows) + 1 /\ Cardinality(rows2) \in Nat
      BY <2>1, <3>2, RowFacts
    <3>4. Cardinality(rows) <= Cardinality(registrations) /\ Cardinality(registrations) \in Nat
      BY <1>1, <2>1, TableFacts
    <3>5. Cardinality(rows2) <= MaxRegistrations
      BY <2>2, <3>1, <3>3, <3>4
    <3>6. \A v, w \in rows2 : reg[v].contact = reg[w].contact => v = w
      BY <3>1, <3>2 DEF RowsOf, ContactsWithinLimit
    <3>7. \A s \in refreshes : handler'[s] = "403" => raced # {}
      BY <1>1, <1>2 DEF ContactsWithinLimit
    <3> QED
      BY <3>5, <3>6, <3>7 DEF ContactsWithinLimit
  <2> QED
    BY <2>3, <2>4
<1> QED
  BY <1>4, <1>5, <1>6, <1>7, <1>8

LEMMA LimitStep ==
  ASSUME LimitInv, RegistrationTypeOK', [RegistrationNext]_registrationVars
  PROVE  LimitInv'
<1> USE DEF HandlerGoes, Fails, Delete, tableVars, rowHistory
<1>t. /\ registrations \subseteq Registers
      /\ handler \in [Registers -> {"idle", "delete", "recount", "insert",
           "token", "notify", "close", "remove", "fetch", "empty"} \union Answers]
      /\ reg \in [Registers -> RegisterRequests]
  BY DEF LimitInv, RegistrationTypeOK
<1>r. \A w \in registrations : handler[w] \in {"token", "notify", "close", "200"}
  BY DEF LimitInv, RowsInserted
<1>1. ASSUME NEW r \in Registers, NEW q \in RegisterRequests, HandleRegister(r, q) PROVE LimitInv'
  <2>1. /\ handler[r] = "idle" /\ handler'[r] \in {"delete", "remove", "fetch"}
        /\ \A s \in Registers \ {r} : handler'[s] = handler[s] /\ reg'[s] = reg[s]
        /\ UNCHANGED <<registrations, refreshes, raced>>
    BY <1>1, <1>t DEF HandleRegister
  <2> QED
    BY <1>t, <1>r, <2>1, FewerRows DEF Inserting
<1>2. ASSUME NEW r \in Registers, DeleteContact(r) PROVE LimitInv'
  <2>1. CASE Fails(r) /\ UNCHANGED <<registrations, expired, refreshes, raced>>
    <3>1. /\ handler'[r] = "500" /\ \A s \in Registers \ {r} : handler'[s] = handler[s]
          /\ UNCHANGED <<registrations, refreshes, raced, reg>> /\ handler[r] = "delete"
      BY <1>2, <1>t, <2>1 DEF DeleteContact
    <3> QED
      BY <1>t, <1>r, <3>1, FewerRows
  <2> QED
    BY <1>2, <2>1, DeleteLimit DEF DeleteContact
<1>3. ASSUME NEW r \in Registers, CheckLimit(r) PROVE LimitInv'
  <2>1. CASE Fails(r)
    <3>1. /\ handler'[r] = "500" /\ \A s \in Registers \ {r} : handler'[s] = handler[s]
          /\ UNCHANGED <<registrations, refreshes, raced, reg>> /\ handler[r] = "recount"
      BY <1>3, <1>t, <2>1 DEF CheckLimit
    <3> QED
      BY <1>t, <1>r, <3>1, FewerRows
  <2> QED
    BY <1>3, <2>1, CheckStep DEF CheckLimit
<1>4. ASSUME NEW r \in Registers, InsertRow(r) PROVE LimitInv'
  <2>1. CASE Fails(r) /\ UNCHANGED registrations
    <3>1. /\ handler'[r] = "500" /\ \A s \in Registers \ {r} : handler'[s] = handler[s]
          /\ UNCHANGED <<registrations, refreshes, raced, reg>> /\ handler[r] = "insert"
      BY <1>4, <1>t, <2>1 DEF InsertRow
    <3> QED
      BY <1>t, <1>r, <3>1, FewerRows
  <2> QED
    BY <1>4, <2>1, InsertLimit DEF InsertRow
<1>5. ASSUME NEW r \in Registers,
             StoreToken(r) \/ Notify(r) \/ CloseChannels(r) \/ RemoveContact(r) \/ FetchRows(r) \/ EmptyRows(r)
      PROVE  LimitInv'
  <2>1. /\ registrations' \subseteq registrations /\ UNCHANGED <<reg, refreshes, raced>>
        /\ \A s \in Registers \ {r} : handler'[s] = handler[s]
        /\ \/ handler'[r] = handler[r]
           \/ handler[r] \in {"token", "notify", "close"} /\ handler'[r] \in {"notify", "close", "200"}
           \/ /\ handler[r] \in {"remove", "fetch", "empty"} /\ handler'[r] \in {"empty", "200", "500"}
    BY <1>5, <1>t DEF StoreToken, Notify, CloseChannels, RemoveContact, FetchRows, EmptyRows, waitVars
  <2> QED
    BY <1>t, <1>r, <2>1, FewerRows
<1>6. CASE (\E c \in PushWaits : PushWaitStep(c)) \/ RowExpires \/ CleanRows \/ UNCHANGED registrationVars
  <2>1. registrations' \subseteq registrations /\ UNCHANGED <<reg, refreshes, raced, handler>>
    BY <1>6 DEF PushWaitStep, FindNone, SendPush, Subscribe, Wake, Retry, RowExpires, CleanRows, registrationVars
  <2> QED
    BY <1>t, <1>r, <2>1, FewerRows
<1> QED
  BY <1>1, <1>2, <1>3, <1>4, <1>5, <1>6 DEF RegistrationNext, RegisterStep

\* An extension has at most max_registrations rows, a device has one, and a
\* device that registers again is not refused for want of room, apart from
\* requests that passed each other between their delete and their insert
\* (HandleRegister takes no lock and no transaction).
THEOREM LimitKept == RegistrationSpec => []ContactsWithinLimit
<1>1. RegistrationInit /\ RegistrationTypeOK => LimitInv
  <2> SUFFICES ASSUME RegistrationInit, RegistrationTypeOK PROVE LimitInv
    OBVIOUS
  <2>1. Cardinality(registrations \ raced) <= MaxRegistrations
    BY FS_EmptySet, RegistrationAssumption DEF RegistrationInit
  <2> QED
    BY <2>1 DEF RegistrationInit, LimitInv, RowsInserted, SideBySide, RoomFor, RoomAgain,
      ContactsWithinLimit, Inserting
<1>2. LimitInv /\ RegistrationTypeOK' /\ [RegistrationNext]_registrationVars => LimitInv'
  BY LimitStep
<1>3. LimitInv => ContactsWithinLimit
  BY DEF LimitInv
<1> QED
  BY <1>1, <1>2, <1>3, RegistrationTypeInvariance, PTL DEF RegistrationSpec

=============================================================================
