------------------------------ MODULE FlowProofs -----------------------------
(***************************************************************************)
(* Theorems about FlowCall for any number of nodes, members, hangups and   *)
(* any faults: type correctness, no phone left talking to nobody, no       *)
(* cancelled caller connected, no session without an owner, a CDR that     *)
(* tells the outcome, a final response by the end, and that such a call    *)
(* implements CallLifecycle.                                               *)
(*                                                                         *)
(* The invariant has a part for each: ModeInv says where the walker of a   *)
(* flow and of each follow-me can be, PhoneInv, CancelInv, RowInv and      *)
(* SessionInv what the walker and the handler of a CANCEL or BYE still owe *)
(* to the phone, the caller, the row and the table of sessions, AnswerInv  *)
(* what the caller has been told.                                          *)
(*                                                                         *)
(* Its last part is about DigitCollection, whose digits the nodes of a     *)
(* flow collect: ChannelInv says whose channel a digit is in, LastInv what *)
(* the RFC 2833 collector remembers.                                       *)
(***************************************************************************)
EXTENDS FlowCall, DigitCollection, TLAPS

\* Where a walker may be.
Connecting == {"ack", "confirm", "complete", "relay", "dialog"}
Answering == {"ansRead", "ansWrite"}
Closing == {"refuse", "end480", "close480", "done", "dead"}
WalkLabels ==
  {"load", "enter", "edge", "hangup", "transfer", "conference", "finish", "broken", "path200", "path500",
   "refuse", "end200", "end480", "end500", "close200", "close480", "close500", "lookup", "gather", "push",
   "trunks", "alloc", "pend", "fork", "take", "revive", "ack", "confirm", "complete", "relay",
   "dialog", "ansRead", "ansWrite", "collect", "done", "dead"}
LegLabels == {"off", "start", "dial", "failed", "lost", "answered", "late", "loser", "over"}
HangLabels ==
  {"idle", "cancel", "free", "markRead", "markWrite", "bye", "forkBye", "media", "drop", "finRead", "finWrite"}

\* The steps of a call, one by one.
LEMMA Steps ==
  ASSUME FlowNext
  PROVE  \/ LoadFlow \/ EnterNode \/ FollowEdge \/ HangupNode \/ TransferNode \/ ConferenceNode
         \/ ReadForPath \/ WritePath \/ RefuseCaller \/ ReadForEnd \/ WriteEnd
         \/ LookupPhones \/ GatherMembers \/ AwaitPush \/ AllocateForRing \/ AddPending
         \/ ForkReturns \/ TakePendingRing \/ Revive
         \/ SelectForFollowMe \/ TrunksReturn \/ DropLosers
         \/ AckPhone \/ Confirm \/ CompleteRing \/ RelayOK \/ CreateFlowDialog
         \/ ReadForFlowAnswer \/ WriteFlowAnswer
         \/ \E n \in Numbers : LegAllocates(n) \/ LegDials(n) \/ CollectLeg(n)
         \/ SendFlowHangup \/ HandleFlowCancel \/ FreeCancelled \/ HandleFlowBye
         \/ ReleaseFlowMedia \/ DropDialog \/ ReadForHangup \/ WriteHangup
         \/ ReapFlowSession
BY DEF FlowNext, WalkerStep, EngineStep, RingStep, FollowMeStep, ConnectPhone, ConnectNumber,
       ConnectWinner, ConnectStep, LegStep, HangStep

-----------------------------------------------------------------------------
(* Types.                                                                  *)

\* What a ring attempt returns to.
LEMMA ReturnFacts ==
  ASSUME FlowTypeOK, NEW outcome \in {"answered", "none", "error"}, ReturnRing(outcome)
  PROVE  /\ ring' = "none" /\ retried' = FALSE
         /\ member' \in 0 .. MaxMembers
         /\ mode = "flow" => walk' \in {"edge", "broken", "lookup"}
         /\ mode # "flow" /\ outcome = "answered" => walk' = "done"
         /\ mode = "sequential" /\ outcome # "answered" => walk' \in {"alloc", "refuse"}
         /\ mode = "simultaneous" /\ outcome # "answered" => walk' = "refuse"
         /\ mode = "simultaneous" => member' = 0
<1>1. MaxMembers \in Nat /\ mode \in {"flow", "sequential", "simultaneous"} /\ member \in 0 .. MaxMembers
  BY FlowAssumption DEF FlowTypeOK
<1>2. ring' = "none" /\ retried' = FALSE
  BY DEF ReturnRing
<1>3. CASE outcome = "answered"
  BY <1>1, <1>2, <1>3 DEF ReturnRing, WalkGoes
<1>4. CASE outcome # "answered" /\ mode = "flow" /\ node = "one_by_one"
  BY <1>1, <1>2, <1>4 DEF ReturnRing, NextMember, WalkGoes
<1>5. CASE outcome # "answered" /\ mode = "flow" /\ node # "one_by_one"
  BY <1>1, <1>2, <1>5 DEF ReturnRing, ExtensionNode, RingGroupNode, WalkGoes
<1>6. CASE outcome # "answered" /\ mode = "sequential"
  BY <1>1, <1>2, <1>6 DEF ReturnRing, NextMember, WalkGoes
<1>7. CASE outcome # "answered" /\ mode = "simultaneous"
  BY <1>1, <1>2, <1>7 DEF ReturnRing, WalkGoes
<1> QED
  BY <1>1, <1>3, <1>4, <1>5, <1>6, <1>7

LEMMA ReturnTypes ==
  ASSUME FlowTypeOK, NEW outcome \in {"answered", "none", "error"}, ReturnRing(outcome)
  PROVE  /\ ring' \in {"none"} /\ retried' \in BOOLEAN /\ member' \in 0 .. MaxMembers
         /\ walk' \in {"edge", "broken", "lookup", "alloc", "refuse", "done"}
<1>1. mode \in {"flow", "sequential", "simultaneous"}
  BY FlowAssumption DEF FlowTypeOK
<1>2. /\ ring' = "none" /\ retried' = FALSE
      /\ member' \in 0 .. MaxMembers
      /\ mode = "flow" => walk' \in {"edge", "broken", "lookup"}
      /\ mode # "flow" /\ outcome = "answered" => walk' = "done"
      /\ mode = "sequential" /\ outcome # "answered" => walk' \in {"alloc", "refuse"}
      /\ mode = "simultaneous" /\ outcome # "answered" => walk' = "refuse"
  BY ReturnFacts
<1> QED
  BY <1>1, <1>2

\* The types, variable by variable.
LEMMA TypeFacts ==
  ASSUME FlowTypeOK
  PROVE  /\ MaxNodes \in Nat /\ MaxMembers \in Nat \ {0} /\ NodeTimeout \in Nat \ {0} /\ MaxHangups \in Nat
         /\ mode \in {"flow", "sequential", "simultaneous"} /\ node \in NodeKinds
         /\ left \in 0 .. MaxNodes /\ elapsed \in 0 .. NodeTimeout /\ member \in 0 .. MaxMembers
         /\ walk \in WalkLabels /\ ring \in {"none", "answered", "late", "stale", "error"}
         /\ leg \in [Numbers -> LegLabels] /\ held \subseteq Sessions
         /\ bridged \in Sessions \union {NoSession}
         /\ phone \in {"idle", "ringing", "answered", "up", "left"} /\ talk \in {"none", "active", "over"}
         /\ caller \in {"calling", "cancelling", "up", "gone", "refused"}
         /\ hang \in HangLabels /\ hangups \in 0 .. MaxHangups
         /\ row \in FlowRows /\ copies \in [{"walker", "hang"} -> FlowRows]
BY FlowAssumption DEF FlowTypeOK, WalkLabels, LegLabels, HangLabels

LEMMA FlagFacts ==
  ASSUME FlowTypeOK
  PROVE  /\ retried \in BOOLEAN /\ stop \in BOOLEAN /\ waiting \in BOOLEAN
         /\ rungOn \in BOOLEAN /\ leaked \in BOOLEAN /\ stranded \in BOOLEAN
         /\ silent \in BOOLEAN /\ clobbered \in BOOLEAN
BY DEF FlowTypeOK

\* The session of a ring attempt is one.
LEMMA KeyFacts == FlowTypeOK => Key \in Sessions /\ (mode # "simultaneous" => Key = CallSession)
<1> SUFFICES ASSUME FlowTypeOK PROVE Key \in Sessions /\ (mode # "simultaneous" => Key = CallSession)
  OBVIOUS
<1>1. member \in 0 .. MaxMembers /\ MaxMembers \in Nat
  BY FlowAssumption DEF FlowTypeOK
<1> QED
  BY <1>1 DEF Key, Sessions, Numbers, CallSession

LEMMA TypeInit == FlowInit => FlowTypeOK
<1> SUFFICES ASSUME FlowInit PROVE FlowTypeOK
  OBVIOUS
<1> USE DEF FlowInit
<1>1. mode \in FlowModes /\ node \in NodeKinds
  BY DEF NodeKinds, RingKinds
<1>2. left \in 0 .. MaxNodes /\ elapsed \in 0 .. NodeTimeout /\ member \in 0 .. MaxMembers /\ hangups \in 0 .. MaxHangups
  BY FlowAssumption
<1>3. FreshRow \in FlowRows
  BY DEF FreshRow, FlowRows, FlowDispositions
<1>4. row \in FlowRows /\ copies \in [{"walker", "hang"} -> FlowRows]
  BY <1>3
<1>5. walk \in WalkLabels /\ ring \in {"none"}
  BY DEF WalkLabels
<1>6. leg \in [Numbers -> {"off", "start", "dial", "failed", "lost", "answered", "late", "loser", "over"}]
  OBVIOUS
<1>7. held \subseteq Sessions /\ bridged \in Sessions \union {NoSession}
  OBVIOUS
<1>8. /\ retried \in BOOLEAN /\ stop \in BOOLEAN /\ waiting \in BOOLEAN
      /\ rungOn \in BOOLEAN /\ leaked \in BOOLEAN /\ stranded \in BOOLEAN
      /\ silent \in BOOLEAN /\ clobbered \in BOOLEAN
  OBVIOUS
<1>9. phone = "idle" /\ talk = "none" /\ caller = "calling" /\ hang = "idle"
  OBVIOUS
<1> HIDE DEF FlowInit
<1> QED
  BY <1>1, <1>2, <1>4, <1>5, <1>6, <1>7, <1>8, <1>9 DEF FlowTypeOK, WalkLabels

\* Each action keeps the types.
LEMMA TypeStep == FlowTypeOK /\ [FlowNext]_flowVars => FlowTypeOK'
<1> SUFFICES ASSUME FlowTypeOK, [FlowNext]_flowVars PROVE FlowTypeOK'
  OBVIOUS
<1> USE FlowAssumption
<1>1. CASE LoadFlow
  <2>1. walk' \in WalkLabels
    BY <1>1, TypeFacts DEF LoadFlow, WalkGoes, Open, WalkLabels
  <2>2. silent' \in BOOLEAN
    <3>1. silent' = Open \/ silent' = silent
      BY <1>1 DEF LoadFlow
    <3>2. Open \in BOOLEAN
      BY DEF Open
    <3> QED
      BY <3>1, <3>2, FlagFacts
  <2>3. UNCHANGED <<mode, node, left, elapsed, member, ring, retried, leg, stop, waiting, held,
                    bridged, phone, talk, caller, hang, hangups, row, copies, rungOn, leaked,
                    stranded, clobbered>>
    BY <1>1 DEF LoadFlow, callVars, ringVars, partyVars, hangVars, rowVars
  <2> QED
    BY <2>1, <2>2, <2>3 DEF FlowTypeOK, WalkLabels, LegLabels, HangLabels
<1>2. CASE EnterNode
  <2>1. /\ elapsed' \in 0 .. NodeTimeout
        /\ left' \in 0 .. MaxNodes
        /\ member' \in 0 .. MaxMembers
        /\ node' \in NodeKinds
        /\ walk' \in WalkLabels
    BY <1>2, TypeFacts DEF EnterNode, WalkGoes, WalkLabels
  <2>2. UNCHANGED <<mode, ring, retried, leg, stop, waiting, held, bridged, phone, talk, caller,
                    hang, hangups, row, copies, rungOn, leaked, stranded, silent, clobbered>>
    BY <1>2 DEF EnterNode, ringVars, partyVars, hangVars, rowVars, flowHistory
  <2> QED
    BY <2>1, <2>2 DEF FlowTypeOK, WalkLabels, LegLabels, HangLabels
<1>3. CASE FollowEdge
  <2>1. walk' \in WalkLabels
    BY <1>3, TypeFacts DEF FollowEdge, WalkGoes, WalkLabels
  <2>2. UNCHANGED <<mode, node, left, elapsed, member, ring, retried, leg, stop, waiting, held,
                    bridged, phone, talk, caller, hang, hangups, row, copies, rungOn, leaked,
                    stranded, silent, clobbered>>
    BY <1>3 DEF FollowEdge, callVars, ringVars, partyVars, hangVars, rowVars, flowHistory
  <2> QED
    BY <2>1, <2>2 DEF FlowTypeOK, WalkLabels, LegLabels, HangLabels
<1>4. CASE HangupNode
  <2>1. /\ caller' \in {"calling", "cancelling", "up", "gone", "refused"}
        /\ talk' \in {"none", "active", "over"}
        /\ walk' \in WalkLabels
    BY <1>4, TypeFacts DEF HangupNode, WalkGoes, HangupCall, Answer, Open, WalkLabels
  <2>2. leaked' \in BOOLEAN
    <3>1. leaked' = (leaked \/ held # {}) \/ leaked' = leaked
      BY <1>4 DEF HangupNode, HangupCall
    <3> QED
      BY <3>1, FlagFacts
  <2>3. stranded' \in BOOLEAN
    <3>1. stranded' = TRUE \/ stranded' = stranded
      BY <1>4 DEF HangupNode, HangupCall
    <3> QED
      BY <3>1, FlagFacts
  <2>4. UNCHANGED <<mode, node, left, elapsed, member, ring, retried, leg, stop, waiting, held,
                    bridged, phone, hang, hangups, row, copies, rungOn, silent, clobbered>>
    BY <1>4 DEF HangupNode, callVars, ringVars, hangVars, rowVars
  <2> QED
    BY <2>1, <2>2, <2>3, <2>4 DEF FlowTypeOK, WalkLabels, LegLabels, HangLabels
<1>5. CASE TransferNode
  <2>1. walk' \in WalkLabels
    BY <1>5, TypeFacts DEF TransferNode, WalkGoes, Open, WalkLabels
  <2>2. silent' \in BOOLEAN
    <3>1. silent' = Open \/ silent' = silent
      BY <1>5 DEF TransferNode
    <3>2. Open \in BOOLEAN
      BY DEF Open
    <3> QED
      BY <3>1, <3>2, FlagFacts
  <2>3. UNCHANGED <<mode, node, left, elapsed, member, ring, retried, leg, stop, waiting, held,
                    bridged, phone, talk, caller, hang, hangups, row, copies, rungOn, leaked,
                    stranded, clobbered>>
    BY <1>5 DEF TransferNode, callVars, ringVars, partyVars, hangVars, rowVars
  <2> QED
    BY <2>1, <2>2, <2>3 DEF FlowTypeOK, WalkLabels, LegLabels, HangLabels
<1>6. CASE ConferenceNode
  <2>1. /\ caller' \in {"calling", "cancelling", "up", "gone", "refused"}
        /\ elapsed' \in 0 .. NodeTimeout
        /\ walk' \in WalkLabels
    BY <1>6, TypeFacts DEF ConferenceNode, WalkGoes, Answer, Open, WalkLabels
  <2>2. UNCHANGED <<mode, node, left, member, ring, retried, leg, stop, waiting, held, bridged,
                    phone, talk, hang, hangups, row, copies, rungOn, leaked, stranded, silent,
                    clobbered>>
    BY <1>6 DEF ConferenceNode, ringVars, hangVars, rowVars, flowHistory
  <2> QED
    BY <2>1, <2>2 DEF FlowTypeOK, WalkLabels, LegLabels, HangLabels
<1>7. CASE ReadForPath
  <2>1. /\ copies' \in [{"walker", "hang"} -> FlowRows]
        /\ walk' \in WalkLabels
    BY <1>7, TypeFacts DEF ReadForPath, WalkGoes, ReadCopy, WalkLabels
  <2>2. UNCHANGED <<mode, node, left, elapsed, member, ring, retried, leg, stop, waiting, held,
                    bridged, phone, talk, caller, hang, hangups, row, rungOn, leaked, stranded,
                    silent, clobbered>>
    BY <1>7 DEF ReadForPath, callVars, ringVars, partyVars, hangVars, flowHistory
  <2> QED
    BY <2>1, <2>2 DEF FlowTypeOK, WalkLabels, LegLabels, HangLabels
<1>8. CASE WritePath
  <2>1. /\ caller' \in {"calling", "cancelling", "up", "gone", "refused"}
        /\ row' \in FlowRows
        /\ walk' \in WalkLabels
    BY <1>8, TypeFacts DEF WritePath, WalkGoes, Answer, Open, WriteBack, WriteFails, WalkLabels,
       FlowRows, FlowDispositions
  <2>2. clobbered' \in BOOLEAN
    BY <1>8, FlagFacts DEF WritePath, WalkGoes, Answer, Open, WriteBack, WriteFails
  <2>3. UNCHANGED <<mode, node, left, elapsed, member, ring, retried, leg, stop, waiting, held,
                    bridged, phone, talk, hang, hangups, copies, rungOn, leaked, stranded,
                    silent>>
    BY <1>8 DEF WritePath, callVars, ringVars, hangVars
  <2> QED
    BY <2>1, <2>2, <2>3 DEF FlowTypeOK, WalkLabels, LegLabels, HangLabels
<1>9. CASE RefuseCaller
  <2>1. /\ caller' \in {"calling", "cancelling", "up", "gone", "refused"}
        /\ walk' \in WalkLabels
    BY <1>9, TypeFacts DEF RefuseCaller, WalkGoes, Answer, Open, WalkLabels
  <2>2. UNCHANGED <<mode, node, left, elapsed, member, ring, retried, leg, stop, waiting, held,
                    bridged, phone, talk, hang, hangups, row, copies, rungOn, leaked, stranded,
                    silent, clobbered>>
    BY <1>9 DEF RefuseCaller, callVars, ringVars, hangVars, rowVars, flowHistory
  <2> QED
    BY <2>1, <2>2 DEF FlowTypeOK, WalkLabels, LegLabels, HangLabels
<1>10. CASE ReadForEnd
  <2>1. /\ copies' \in [{"walker", "hang"} -> FlowRows]
        /\ walk' \in WalkLabels
    BY <1>10, TypeFacts DEF ReadForEnd, WalkGoes, ReadCopy, WalkLabels
  <2>2. UNCHANGED <<mode, node, left, elapsed, member, ring, retried, leg, stop, waiting, held,
                    bridged, phone, talk, caller, hang, hangups, row, rungOn, leaked, stranded,
                    silent, clobbered>>
    BY <1>10 DEF ReadForEnd, callVars, ringVars, partyVars, hangVars, flowHistory
  <2> QED
    BY <2>1, <2>2 DEF FlowTypeOK, WalkLabels, LegLabels, HangLabels
<1>11. CASE WriteEnd
  <2>1. /\ row' \in FlowRows
        /\ walk' \in WalkLabels
    BY <1>11, TypeFacts DEF WriteEnd, WalkGoes, WriteBack, WriteFails, WalkLabels, FlowRows,
       FlowDispositions
  <2>2. clobbered' \in BOOLEAN
    BY <1>11, FlagFacts DEF WriteEnd, WalkGoes, WriteBack, WriteFails
  <2>3. UNCHANGED <<mode, node, left, elapsed, member, ring, retried, leg, stop, waiting, held,
                    bridged, phone, talk, caller, hang, hangups, copies, rungOn, leaked, stranded,
                    silent>>
    BY <1>11 DEF WriteEnd, callVars, ringVars, partyVars, hangVars
  <2> QED
    BY <2>1, <2>2, <2>3 DEF FlowTypeOK, WalkLabels, LegLabels, HangLabels
<1>12. CASE LookupPhones
  <2>1. /\ member' \in 0 .. MaxMembers
        /\ ring' \in {"none", "answered", "late", "stale", "error"}
        /\ walk' \in WalkLabels
    BY <1>12, TypeFacts, ReturnTypes DEF LookupPhones, WalkGoes, WalkLabels, LegLabels
  <2>2. retried' \in BOOLEAN
    BY <1>12, FlagFacts, ReturnTypes DEF LookupPhones, WalkGoes
  <2>3. UNCHANGED <<mode, node, left, elapsed, leg, stop, waiting, held, bridged, phone, talk,
                    caller, hang, hangups, row, copies, rungOn, leaked, stranded, silent,
                    clobbered>>
    BY <1>12 DEF LookupPhones, partyVars, hangVars, rowVars, flowHistory
  <2> QED
    BY <2>1, <2>2, <2>3 DEF FlowTypeOK, WalkLabels, LegLabels, HangLabels
<1>13. CASE GatherMembers
  <2>1. /\ member' \in 0 .. MaxMembers
        /\ ring' \in {"none", "answered", "late", "stale", "error"}
        /\ walk' \in WalkLabels
    BY <1>13, TypeFacts, ReturnTypes DEF GatherMembers, WalkGoes, WalkLabels, LegLabels
  <2>2. retried' \in BOOLEAN
    BY <1>13, FlagFacts, ReturnTypes DEF GatherMembers, WalkGoes
  <2>3. UNCHANGED <<mode, node, left, elapsed, leg, stop, waiting, held, bridged, phone, talk,
                    caller, hang, hangups, row, copies, rungOn, leaked, stranded, silent,
                    clobbered>>
    BY <1>13 DEF GatherMembers, partyVars, hangVars, rowVars, flowHistory
  <2> QED
    BY <2>1, <2>2, <2>3 DEF FlowTypeOK, WalkLabels, LegLabels, HangLabels
<1>14. CASE AwaitPush
  <2>1. /\ member' \in 0 .. MaxMembers
        /\ ring' \in {"none", "answered", "late", "stale", "error"}
        /\ walk' \in WalkLabels
    BY <1>14, TypeFacts, ReturnTypes DEF AwaitPush, WalkGoes, WalkLabels, LegLabels
  <2>2. retried' \in BOOLEAN
    BY <1>14, FlagFacts, ReturnTypes DEF AwaitPush, WalkGoes
  <2>3. UNCHANGED <<mode, node, left, elapsed, leg, stop, waiting, held, bridged, phone, talk,
                    caller, hang, hangups, row, copies, rungOn, leaked, stranded, silent,
                    clobbered>>
    BY <1>14 DEF AwaitPush, partyVars, hangVars, rowVars, flowHistory
  <2> QED
    BY <2>1, <2>2, <2>3 DEF FlowTypeOK, WalkLabels, LegLabels, HangLabels
<1>15. CASE AllocateForRing
  <2>1. /\ held' \subseteq Sessions
        /\ member' \in 0 .. MaxMembers
        /\ ring' \in {"none", "answered", "late", "stale", "error"}
        /\ walk' \in WalkLabels
    BY <1>15, TypeFacts, ReturnTypes DEF AllocateForRing, WalkGoes, WalkLabels, LegLabels, Sessions
  <2>2. retried' \in BOOLEAN
    BY <1>15, FlagFacts, ReturnTypes DEF AllocateForRing, WalkGoes
  <2>3. UNCHANGED <<mode, node, left, elapsed, leg, stop, waiting, bridged, phone, talk, caller,
                    hang, hangups, row, copies, rungOn, leaked, stranded, silent, clobbered>>
    BY <1>15 DEF AllocateForRing, partyVars, hangVars, rowVars, flowHistory
  <2> QED
    BY <2>1, <2>2, <2>3 DEF FlowTypeOK, WalkLabels, LegLabels, HangLabels
<1>16. CASE AddPending
  <2>1. /\ phone' \in {"idle", "ringing", "answered", "up", "left"}
        /\ walk' \in WalkLabels
    BY <1>16, TypeFacts DEF AddPending, WalkGoes, WalkLabels
  <2>2. rungOn' \in BOOLEAN
    BY <1>16, FlagFacts DEF AddPending, WalkGoes
  <2>3. stop' \in BOOLEAN
    BY <1>16, FlagFacts DEF AddPending, WalkGoes
  <2>4. waiting' \in BOOLEAN
    BY <1>16, FlagFacts DEF AddPending, WalkGoes
  <2>5. UNCHANGED <<mode, node, left, elapsed, member, ring, retried, leg, held, bridged, talk,
                    caller, hang, hangups, row, copies, leaked, stranded, silent, clobbered>>
    BY <1>16 DEF AddPending, callVars, hangVars, rowVars
  <2> QED
    BY <2>1, <2>2, <2>3, <2>4, <2>5 DEF FlowTypeOK, WalkLabels, LegLabels, HangLabels
<1>17. CASE ForkReturns
  <2>1. /\ elapsed' \in 0 .. NodeTimeout
        /\ phone' \in {"idle", "ringing", "answered", "up", "left"}
        /\ ring' \in {"none", "answered", "late", "stale", "error"}
        /\ walk' \in WalkLabels
    BY <1>17, TypeFacts DEF ForkReturns, WalkGoes, Expired, WalkLabels, LegLabels
  <2>2. UNCHANGED <<mode, node, left, member, retried, leg, stop, waiting, held, bridged, talk,
                    caller, hang, hangups, row, copies, rungOn, leaked, stranded, silent,
                    clobbered>>
    BY <1>17 DEF ForkReturns, hangVars, rowVars, flowHistory
  <2> QED
    BY <2>1, <2>2 DEF FlowTypeOK, WalkLabels, LegLabels, HangLabels
<1>18. CASE TakePendingRing
  <2>1. /\ held' \subseteq Sessions
        /\ member' \in 0 .. MaxMembers
        /\ phone' \in {"idle", "ringing", "answered", "up", "left"}
        /\ ring' \in {"none", "answered", "late", "stale", "error"}
        /\ walk' \in WalkLabels
    BY <1>18, TypeFacts, ReturnTypes DEF TakePendingRing, WalkGoes, Freed, RingOutcome,
       WalkLabels, LegLabels
  <2>2. retried' \in BOOLEAN
    BY <1>18, FlagFacts, ReturnTypes DEF TakePendingRing, WalkGoes, Freed, RingOutcome
  <2>3. waiting' \in BOOLEAN
    BY <1>18, FlagFacts, ReturnTypes DEF TakePendingRing, WalkGoes, Freed, RingOutcome
  <2>4. UNCHANGED <<mode, node, left, elapsed, leg, stop, bridged, talk, caller, hang, hangups,
                    row, copies, rungOn, leaked, stranded, silent, clobbered>>
    BY <1>18 DEF TakePendingRing, hangVars, rowVars, flowHistory
  <2> QED
    BY <2>1, <2>2, <2>3, <2>4 DEF FlowTypeOK, WalkLabels, LegLabels, HangLabels
<1>19. CASE Revive
  <2>1. /\ held' \subseteq Sessions
        /\ member' \in 0 .. MaxMembers
        /\ ring' \in {"none", "answered", "late", "stale", "error"}
        /\ walk' \in WalkLabels
    BY <1>19, TypeFacts, ReturnTypes DEF Revive, WalkGoes, Freed, WalkLabels, LegLabels
  <2>2. retried' \in BOOLEAN
    BY <1>19, FlagFacts, ReturnTypes DEF Revive, WalkGoes, Freed
  <2>3. UNCHANGED <<mode, node, left, elapsed, leg, stop, waiting, bridged, phone, talk, caller,
                    hang, hangups, row, copies, rungOn, leaked, stranded, silent, clobbered>>
    BY <1>19 DEF Revive, partyVars, hangVars, rowVars, flowHistory
  <2> QED
    BY <2>1, <2>2, <2>3 DEF FlowTypeOK, WalkLabels, LegLabels, HangLabels
<1>20. CASE SelectForFollowMe
  <2>1. /\ leg' \in [Numbers -> LegLabels]
        /\ member' \in 0 .. MaxMembers
        /\ walk' \in WalkLabels
    BY <1>20, TypeFacts DEF SelectForFollowMe, WalkGoes, WalkLabels, LegLabels
  <2>2. stop' \in BOOLEAN
    BY <1>20, FlagFacts DEF SelectForFollowMe, WalkGoes
  <2>3. waiting' \in BOOLEAN
    BY <1>20, FlagFacts DEF SelectForFollowMe, WalkGoes
  <2>4. UNCHANGED <<mode, node, left, elapsed, ring, retried, held, bridged, phone, talk,
                    caller, hang, hangups, row, copies, rungOn, leaked, stranded, silent,
                    clobbered>>
    BY <1>20 DEF SelectForFollowMe, partyVars, hangVars, rowVars, flowHistory
  <2> QED
    BY <2>1, <2>2, <2>3, <2>4 DEF FlowTypeOK, WalkLabels, LegLabels, HangLabels
<1>21. CASE TrunksReturn
  <2>1. /\ phone' \in {"idle", "ringing", "answered", "up", "left"}
        /\ ring' \in {"none", "answered", "late", "stale", "error"}
        /\ walk' \in WalkLabels
    BY <1>21, TypeFacts DEF TrunksReturn, WalkGoes, InviteOutcomes, AuthOutcomes, WalkLabels,
       LegLabels
  <2>2. UNCHANGED <<mode, node, left, elapsed, member, retried, leg, stop, waiting, held,
                    bridged, talk, caller, hang, hangups, row, copies, rungOn, leaked, stranded,
                    silent, clobbered>>
    BY <1>21 DEF TrunksReturn, callVars, hangVars, rowVars, flowHistory
  <2> QED
    BY <2>1, <2>2 DEF FlowTypeOK, WalkLabels, LegLabels, HangLabels
<1>22. CASE DropLosers
  <2>1. /\ held' \subseteq Sessions
        /\ leg' \in [Numbers -> LegLabels]
        /\ walk' \in WalkLabels
    BY <1>22, TypeFacts DEF DropLosers, WalkGoes, WalkLabels, LegLabels, Sessions
  <2>2. stop' \in BOOLEAN
    BY <1>22, FlagFacts DEF DropLosers, WalkGoes
  <2>3. UNCHANGED <<mode, node, left, elapsed, member, ring, retried, waiting, bridged, phone,
                    talk, caller, hang, hangups, row, copies, rungOn, leaked, stranded, silent,
                    clobbered>>
    BY <1>22 DEF DropLosers, callVars, partyVars, hangVars, rowVars, flowHistory
  <2> QED
    BY <2>1, <2>2, <2>3 DEF FlowTypeOK, WalkLabels, LegLabels, HangLabels
<1>23. CASE AckPhone
  <2>1. /\ held' \subseteq Sessions
        /\ member' \in 0 .. MaxMembers
        /\ phone' \in {"idle", "ringing", "answered", "up", "left"}
        /\ ring' \in {"none", "answered", "late", "stale", "error"}
        /\ walk' \in WalkLabels
    BY <1>23, TypeFacts, ReturnTypes DEF AckPhone, WalkGoes, Freed, WalkLabels, LegLabels
  <2>2. retried' \in BOOLEAN
    BY <1>23, FlagFacts, ReturnTypes DEF AckPhone, WalkGoes, Freed
  <2>3. UNCHANGED <<mode, node, left, elapsed, leg, stop, waiting, bridged, talk, caller, hang,
                    hangups, row, copies, rungOn, leaked, stranded, silent, clobbered>>
    BY <1>23 DEF AckPhone, hangVars, rowVars, flowHistory
  <2> QED
    BY <2>1, <2>2, <2>3 DEF FlowTypeOK, WalkLabels, LegLabels, HangLabels
<1>24. CASE Confirm
  <2>1. /\ held' \subseteq Sessions
        /\ member' \in 0 .. MaxMembers
        /\ phone' \in {"idle", "ringing", "answered", "up", "left"}
        /\ ring' \in {"none", "answered", "late", "stale", "error"}
        /\ walk' \in WalkLabels
    BY <1>24, TypeFacts, ReturnTypes DEF Confirm, WalkGoes, Freed, Decline, WalkLabels, LegLabels
  <2>2. retried' \in BOOLEAN
    BY <1>24, FlagFacts, ReturnTypes DEF Confirm, WalkGoes, Freed, Decline
  <2>3. UNCHANGED <<mode, node, left, elapsed, leg, stop, waiting, bridged, talk, caller, hang,
                    hangups, row, copies, rungOn, leaked, stranded, silent, clobbered>>
    BY <1>24 DEF Confirm, hangVars, rowVars, flowHistory
  <2> QED
    BY <2>1, <2>2, <2>3 DEF FlowTypeOK, WalkLabels, LegLabels, HangLabels
<1>25. CASE CompleteRing
  <2>1. /\ bridged' \in Sessions \union {NoSession}
        /\ held' \subseteq Sessions
        /\ walk' \in WalkLabels
    BY <1>25, TypeFacts, KeyFacts DEF CompleteRing, WalkGoes, Freed, WalkLabels
  <2>2. UNCHANGED <<mode, node, left, elapsed, member, ring, retried, leg, stop, waiting,
                    phone, talk, caller, hang, hangups, row, copies, rungOn, leaked, stranded,
                    silent, clobbered>>
    BY <1>25 DEF CompleteRing, callVars, ringVars, partyVars, hangVars, rowVars, flowHistory
  <2> QED
    BY <2>1, <2>2 DEF FlowTypeOK, WalkLabels, LegLabels, HangLabels
<1>26. CASE RelayOK
  <2>1. /\ caller' \in {"calling", "cancelling", "up", "gone", "refused"}
        /\ held' \subseteq Sessions
        /\ member' \in 0 .. MaxMembers
        /\ ring' \in {"none", "answered", "late", "stale", "error"}
        /\ walk' \in WalkLabels
    BY <1>26, TypeFacts, ReturnTypes DEF RelayOK, WalkGoes, Answer, Open, Freed, WalkLabels,
       LegLabels
  <2>2. leaked' \in BOOLEAN
    BY <1>26, FlagFacts DEF RelayOK, NotBridged
  <2>3. retried' \in BOOLEAN
    BY <1>26, FlagFacts, ReturnTypes DEF RelayOK, WalkGoes, Answer, Open, Freed
  <2>4. stranded' \in BOOLEAN
    BY <1>26, FlagFacts, ReturnTypes DEF RelayOK, WalkGoes, Answer, Open, Freed
  <2>5. UNCHANGED <<mode, node, left, elapsed, leg, stop, waiting, bridged, phone, talk, hang,
                    hangups, row, copies, rungOn, silent, clobbered>>
    BY <1>26 DEF RelayOK, hangVars, rowVars
  <2> QED
    BY <2>1, <2>2, <2>3, <2>4, <2>5 DEF FlowTypeOK, WalkLabels, LegLabels, HangLabels
<1>27. CASE CreateFlowDialog
  <2>1. /\ talk' \in {"none", "active", "over"}
        /\ walk' \in WalkLabels
    BY <1>27, TypeFacts DEF CreateFlowDialog, WalkGoes, WalkLabels
  <2>2. leaked' \in BOOLEAN
    BY <1>27, FlagFacts DEF CreateFlowDialog, NotBridged
  <2>3. stranded' \in BOOLEAN
    BY <1>27, FlagFacts DEF CreateFlowDialog, WalkGoes
  <2>4. UNCHANGED <<mode, node, left, elapsed, member, ring, retried, leg, stop, waiting, held,
                    bridged, phone, caller, hang, hangups, row, copies, rungOn, silent,
                    clobbered>>
    BY <1>27 DEF CreateFlowDialog, callVars, ringVars, hangVars, rowVars
  <2> QED
    BY <2>1, <2>2, <2>3, <2>4 DEF FlowTypeOK, WalkLabels, LegLabels, HangLabels
<1>28. CASE ReadForFlowAnswer
  <2>1. /\ copies' \in [{"walker", "hang"} -> FlowRows]
        /\ walk' \in WalkLabels
    BY <1>28, TypeFacts DEF ReadForFlowAnswer, WalkGoes, ReadCopy, WalkLabels
  <2>2. UNCHANGED <<mode, node, left, elapsed, member, ring, retried, leg, stop, waiting, held,
                    bridged, phone, talk, caller, hang, hangups, row, rungOn, leaked, stranded,
                    silent, clobbered>>
    BY <1>28 DEF ReadForFlowAnswer, callVars, ringVars, partyVars, hangVars, flowHistory
  <2> QED
    BY <2>1, <2>2 DEF FlowTypeOK, WalkLabels, LegLabels, HangLabels
<1>29. CASE WriteFlowAnswer
  <2>1. /\ member' \in 0 .. MaxMembers
        /\ ring' \in {"none", "answered", "late", "stale", "error"}
        /\ row' \in FlowRows
        /\ walk' \in WalkLabels
    BY <1>29, TypeFacts, ReturnTypes DEF WriteFlowAnswer, WriteBack, WriteFails, WalkLabels,
       LegLabels, FlowRows, FlowDispositions
  <2>2. clobbered' \in BOOLEAN
    BY <1>29, FlagFacts, ReturnTypes DEF WriteFlowAnswer, WriteBack, WriteFails
  <2>3. retried' \in BOOLEAN
    BY <1>29, FlagFacts, ReturnTypes DEF WriteFlowAnswer, WriteBack, WriteFails
  <2>4. UNCHANGED <<mode, node, left, elapsed, leg, stop, waiting, held, bridged, phone, talk,
                    caller, hang, hangups, copies, rungOn, leaked, stranded, silent>>
    BY <1>29 DEF WriteFlowAnswer, partyVars, hangVars
  <2> QED
    BY <2>1, <2>2, <2>3, <2>4 DEF FlowTypeOK, WalkLabels, LegLabels, HangLabels
<1>30. ASSUME NEW n \in Numbers, LegAllocates(n) PROVE FlowTypeOK'
  <2>1. /\ held' \subseteq Sessions
        /\ leg' \in [Numbers -> LegLabels]
    BY <1>30, TypeFacts DEF LegAllocates, LegGoes, LegLabels, Sessions, Numbers
  <2>2. UNCHANGED <<mode, node, left, elapsed, member, walk, ring, retried, stop, waiting,
                    bridged, phone, talk, caller, hang, hangups, row, copies, rungOn, leaked,
                    stranded, silent, clobbered>>
    BY <1>30 DEF LegAllocates, callVars, partyVars, hangVars, rowVars, flowHistory
  <2> QED
    BY <2>1, <2>2 DEF FlowTypeOK, WalkLabels, LegLabels, HangLabels
<1>31. ASSUME NEW n \in Numbers, LegDials(n) PROVE FlowTypeOK'
  <2>1. leg' \in [Numbers -> LegLabels]
    BY <1>31, TypeFacts DEF LegDials, InviteOutcomes, AuthOutcomes, LegGoes, LegLabels
  <2>2. UNCHANGED <<mode, node, left, elapsed, member, walk, ring, retried, stop, waiting, held,
                    bridged, phone, talk, caller, hang, hangups, row, copies, rungOn, leaked,
                    stranded, silent, clobbered>>
    BY <1>31 DEF LegDials, callVars, partyVars, hangVars, rowVars, flowHistory
  <2> QED
    BY <2>1, <2>2 DEF FlowTypeOK, WalkLabels, LegLabels, HangLabels
<1>32. ASSUME NEW n \in Numbers, CollectLeg(n) PROVE FlowTypeOK'
  <2>1. member' \in 0 .. MaxMembers
    BY <1>32, TypeFacts DEF CollectLeg, Freed, LegGoes, Numbers
  <2>2. /\ held' \subseteq Sessions
        /\ leg' \in [Numbers -> LegLabels]
        /\ phone' \in {"idle", "ringing", "answered", "up", "left"}
        /\ ring' \in {"none", "answered", "late", "stale", "error"}
    BY <1>32, TypeFacts DEF CollectLeg, Freed, LegGoes, LegLabels, Sessions
  <2>3. stop' \in BOOLEAN
    BY <1>32, FlagFacts DEF CollectLeg, Freed, LegGoes
  <2>4. UNCHANGED <<mode, node, left, elapsed, walk, retried, waiting, bridged, talk, caller,
                    hang, hangups, row, copies, rungOn, leaked, stranded, silent, clobbered>>
    BY <1>32 DEF CollectLeg, hangVars, rowVars, flowHistory
  <2> QED
    BY <2>1, <2>2, <2>3, <2>4 DEF FlowTypeOK, WalkLabels, LegLabels, HangLabels
<1>33. CASE SendFlowHangup
  <2>1. /\ caller' \in {"calling", "cancelling", "up", "gone", "refused"}
        /\ hang' \in HangLabels
        /\ hangups' \in 0 .. MaxHangups
        /\ phone' \in {"idle", "ringing", "answered", "up", "left"}
    BY <1>33, TypeFacts DEF SendFlowHangup, HangGoes, HangLabels
  <2>2. UNCHANGED <<mode, node, left, elapsed, member, walk, ring, retried, leg, stop, waiting,
                    held, bridged, talk, row, copies, rungOn, leaked, stranded, silent,
                    clobbered>>
    BY <1>33 DEF SendFlowHangup, callVars, ringVars, rowVars, flowHistory
  <2> QED
    BY <2>1, <2>2 DEF FlowTypeOK, WalkLabels, LegLabels, HangLabels
<1>34. CASE HandleFlowCancel
  <2>1. /\ hang' \in HangLabels
        /\ caller' \in {"calling", "cancelling", "up", "gone", "refused"}
        /\ phone' \in {"idle", "ringing", "answered", "up", "left"}
    BY <1>34, TypeFacts DEF HandleFlowCancel, HangGoes, HangLabels
  <2>2. stop' \in BOOLEAN
    BY <1>34, FlagFacts DEF HandleFlowCancel, HangGoes
  <2>3. waiting' \in BOOLEAN
    BY <1>34, FlagFacts DEF HandleFlowCancel, HangGoes
  <2>4. UNCHANGED <<mode, node, left, elapsed, member, walk, ring, retried, leg, held, bridged,
                    talk, hangups, row, copies, rungOn, leaked, stranded, silent,
                    clobbered>>
    BY <1>34 DEF HandleFlowCancel, callVars, rowVars, flowHistory
  <2> QED
    BY <2>1, <2>2, <2>3, <2>4 DEF FlowTypeOK, WalkLabels, LegLabels, HangLabels
<1>35. CASE FreeCancelled
  <2>1. /\ caller' \in {"calling", "cancelling", "up", "gone", "refused"}
        /\ hang' \in HangLabels
        /\ held' \subseteq Sessions
    BY <1>35, TypeFacts DEF FreeCancelled, Answer, Open, Freed, HangGoes, HangLabels, Sessions
  <2>2. UNCHANGED <<mode, node, left, elapsed, member, walk, ring, retried, leg, stop, waiting,
                    bridged, phone, talk, hangups, row, copies, rungOn, leaked, stranded, silent,
                    clobbered>>
    BY <1>35 DEF FreeCancelled, callVars, ringVars, rowVars, flowHistory
  <2> QED
    BY <2>1, <2>2 DEF FlowTypeOK, WalkLabels, LegLabels, HangLabels
<1>36. CASE HandleFlowBye
  <2>1. /\ caller' \in {"calling", "cancelling", "up", "gone", "refused"}
        /\ hang' \in HangLabels
        /\ phone' \in {"idle", "ringing", "answered", "up", "left"}
    BY <1>36, TypeFacts DEF HandleFlowBye, HangGoes, HangLabels
  <2>2. UNCHANGED <<mode, node, left, elapsed, member, walk, ring, retried, leg, stop, waiting,
                    held, bridged, talk, hangups, row, copies, rungOn, leaked, stranded, silent,
                    clobbered>>
    BY <1>36 DEF HandleFlowBye, callVars, ringVars, rowVars, flowHistory
  <2> QED
    BY <2>1, <2>2 DEF FlowTypeOK, WalkLabels, LegLabels, HangLabels
<1>37. CASE ReleaseFlowMedia
  <2>1. /\ hang' \in HangLabels
        /\ held' \subseteq Sessions
    BY <1>37, TypeFacts DEF ReleaseFlowMedia, HangGoes, HangLabels, Sessions
  <2>2. UNCHANGED <<mode, node, left, elapsed, member, walk, ring, retried, leg, stop, waiting,
                    bridged, phone, talk, caller, hangups, row, copies, rungOn, leaked, stranded,
                    silent, clobbered>>
    BY <1>37 DEF ReleaseFlowMedia, callVars, ringVars, partyVars, rowVars, flowHistory
  <2> QED
    BY <2>1, <2>2 DEF FlowTypeOK, WalkLabels, LegLabels, HangLabels
<1>38. CASE DropDialog
  <2>1. /\ hang' \in HangLabels
        /\ talk' \in {"none", "active", "over"}
    BY <1>38, TypeFacts DEF DropDialog, HangGoes, HangLabels
  <2>2. UNCHANGED <<mode, node, left, elapsed, member, walk, ring, retried, leg, stop, waiting,
                    held, bridged, phone, caller, hangups, row, copies, rungOn, leaked, stranded,
                    silent, clobbered>>
    BY <1>38 DEF DropDialog, callVars, ringVars, rowVars, flowHistory
  <2> QED
    BY <2>1, <2>2 DEF FlowTypeOK, WalkLabels, LegLabels, HangLabels
<1>39. CASE ReadForHangup
  <2>1. /\ copies' \in [{"walker", "hang"} -> FlowRows]
        /\ hang' \in HangLabels
    BY <1>39, TypeFacts DEF ReadForHangup, ReadCopy, HangGoes, HangLabels
  <2>2. UNCHANGED <<mode, node, left, elapsed, member, walk, ring, retried, leg, stop, waiting,
                    held, bridged, phone, talk, caller, hangups, row, rungOn, leaked, stranded,
                    silent, clobbered>>
    BY <1>39 DEF ReadForHangup, callVars, ringVars, partyVars, flowHistory
  <2> QED
    BY <2>1, <2>2 DEF FlowTypeOK, WalkLabels, LegLabels, HangLabels
<1>40. CASE WriteHangup
  <2>1. /\ hang' \in HangLabels
        /\ row' \in FlowRows
    BY <1>40, TypeFacts DEF WriteHangup, WriteBack, WriteFails, HangGoes, FinalRow, HangLabels,
       FlowRows, FlowDispositions
  <2>2. clobbered' \in BOOLEAN
    BY <1>40, FlagFacts DEF WriteHangup, WriteBack, WriteFails, HangGoes, FinalRow
  <2>3. UNCHANGED <<mode, node, left, elapsed, member, walk, ring, retried, leg, stop, waiting,
                    held, bridged, phone, talk, caller, hangups, copies, rungOn, leaked, stranded,
                    silent>>
    BY <1>40 DEF WriteHangup, callVars, ringVars, partyVars
  <2> QED
    BY <2>1, <2>2, <2>3 DEF FlowTypeOK, WalkLabels, LegLabels, HangLabels
<1>41. CASE ReapFlowSession
  <2>1. held' \subseteq Sessions
    BY <1>41, TypeFacts DEF ReapFlowSession, Freed, Sessions
  <2>2. UNCHANGED <<mode, node, left, elapsed, member, walk, ring, retried, leg, stop, waiting,
                    bridged, phone, talk, caller, hang, hangups, row, copies, rungOn, leaked,
                    stranded, silent, clobbered>>
    BY <1>41 DEF ReapFlowSession, callVars, ringVars, partyVars, hangVars, rowVars, flowHistory
  <2> QED
    BY <2>1, <2>2 DEF FlowTypeOK, WalkLabels, LegLabels, HangLabels
<1>42. CASE UNCHANGED flowVars
  BY <1>42 DEF FlowTypeOK, flowVars, callVars, ringVars, partyVars, hangVars, rowVars, flowHistory
<1> QED
  BY <1>1, <1>2, <1>3, <1>4, <1>5, <1>6, <1>7, <1>8, <1>9, <1>10, <1>11, <1>12, <1>13, <1>14,
     <1>15, <1>16, <1>17, <1>18, <1>19, <1>20, <1>21, <1>22, <1>23, <1>24, <1>25, <1>26, <1>27,
     <1>28, <1>29, <1>30, <1>31, <1>32, <1>33, <1>34, <1>35, <1>36, <1>37, <1>38, <1>39, <1>40,
     <1>41, <1>42, Steps

-----------------------------------------------------------------------------
(* The invariant.                                                          *)

\* Where the walker of each mode can be; a sequential follow-me dials one trunk
\* at a time and a simultaneous one has its legs while it collects them.
ModeInv ==
  /\ mode = "sequential" =>
       walk \in {"trunks", "alloc", "pend", "fork", "take"} \union Connecting \union Answering \union Closing
  /\ mode = "simultaneous" =>
       walk \in {"trunks", "collect", "take"} \union Connecting \union Answering \union Closing
  /\ mode = "flow" => walk \notin {"trunks", "collect", "confirm", "refuse", "end480", "close480"}
  /\ mode # "flow" => ring # "stale"
  /\ mode # "simultaneous" => leg = [n \in Numbers |-> "off"]
  /\ walk # "collect" => \A n \in Numbers : leg[n] \in {"off", "over"}
  /\ waiting => walk \in {"fork", "take", "collect"}

\* A phone that talks is being connected, or is in a dialog whose BYE has not
\* gone past it.
PhoneInv == phone = "up" /\ ~stranded =>
  \/ walk \in {"confirm", "complete", "relay", "dialog"}
  \/ talk = "active" /\ hang \notin {"media", "drop"}

\* A caller who was told 487, or is about to be, has no call pending and none
\* that is being connected.
CancelInv ==
  /\ hang \in {"cancel", "free"} => caller # "calling"
  /\ caller = "refused" \/ hang = "free" =>
       rungOn \/ (walk \notin Connecting \union {"load", "trunks"} /\ ~waiting)

\* The dialog of a follow-me, and what is written of it.
TalkInv == mode # "flow" =>
  /\ talk # "none" => walk \in Answering \union {"done"}
  /\ walk \in Answering => talk # "none"
  /\ hang \in {"finRead", "finWrite"} => talk = "over"

\* The row, as far as the walker has come and the hangup handler has still to go.
RowInv == ~clobbered =>
  /\ walk = "load" => left = MaxNodes
  /\ mode = "flow" /\ walk \in {"end200", "end500", "close200", "close500", "done"} =>
       row.path \/ left = MaxNodes
  /\ walk = "done" => row.ended \/ (mode # "flow" /\ talk # "none")
  /\ mode # "flow" =>
       /\ talk = "over" => row.ended \/ hang \in {"finRead", "finWrite"}
       /\ row.disposition = "answered" => talk = "over"

\* Who will give a session back: the ring attempt, the walker that collects the
\* legs, the dialog until its media is released, or a CANCEL.
Owned(key) ==
  \/ leaked \/ walk = "dead"
  \/ walk \in Ringing /\ key = Key
  \/ walk = "collect" /\ key \in Numbers
  \/ talk = "active" /\ bridged = key /\ hang # "drop"
  \/ hang = "free" /\ key = CallSession /\ mode # "simultaneous"

\* Sessions have an owner; a call has one session, or each leg its own.  A ring
\* whose pending call the CANCEL handler took leaves its session to it, and
\* CompleteMediaBridge puts the ring's session into the dialog.
SessionInv ==
  /\ \A key \in held : Owned(key)
  /\ IF mode = "simultaneous" THEN CallSession \notin held ELSE held \subseteq {CallSession}
  /\ mode # "simultaneous" /\ walk \in {"fork", "take"} /\ ~waiting =>
       hang = "free" \/ CallSession \notin held
  /\ walk = "trunks" => held = {}
  /\ walk \in {"relay", "dialog"} => bridged \in {Key, NoSession}
  /\ walk = "collect" => \A n \in Numbers \intersect held :
       leg[n] \in {"dial", "lost", "answered", "late", "loser"} \/ n = member
  /\ mode = "simultaneous" /\ walk \in {"trunks", "collect", "take"} /\ ring = "none" => member = 0


\* The walker of each mode keeps to its part of the code.
LEMMA ModeStep == FlowTypeOK /\ ModeInv /\ [FlowNext]_flowVars => ModeInv'
<1> SUFFICES ASSUME FlowTypeOK, ModeInv, [FlowNext]_flowVars PROVE ModeInv'
  OBVIOUS
<1> USE DEF ModeInv, callVars, ringVars, partyVars, hangVars, rowVars, flowHistory
<1>1. CASE LoadFlow \/ EnterNode \/ FollowEdge \/ TransferNode
  BY <1>1 DEF Connecting, Answering, Closing, LoadFlow, EnterNode, FollowEdge, TransferNode,
     WalkGoes, Open
<1>2. CASE HangupNode
  BY <1>2 DEF Connecting, Answering, Closing, HangupNode, WalkGoes, HangupCall, Answer, Open
<1>3. CASE ConferenceNode \/ RefuseCaller
  BY <1>3 DEF Connecting, Answering, Closing, ConferenceNode, RefuseCaller, WalkGoes, Answer, Open
<1>4. CASE ReadForPath \/ ReadForEnd \/ ReadForFlowAnswer
  BY <1>4 DEF Connecting, Answering, Closing, ReadForPath, ReadForEnd, ReadForFlowAnswer,
     WalkGoes, ReadCopy
<1>5. CASE WritePath
  BY <1>5 DEF Connecting, Answering, Closing, WritePath, WalkGoes, Answer, Open, WriteBack,
     WriteFails
<1>6. CASE WriteEnd
  BY <1>6 DEF Closing, WriteEnd, WalkGoes, WriteBack, WriteFails
<1>7. CASE LookupPhones
  BY <1>7, ReturnFacts DEF Connecting, Answering, Closing, LookupPhones, WalkGoes, Expired
<1>8. CASE GatherMembers
  BY <1>8, ReturnFacts DEF Connecting, Answering, Closing, GatherMembers, WalkGoes, Expired
<1>9. CASE AwaitPush
  BY <1>9, ReturnFacts DEF Connecting, Answering, Closing, AwaitPush, WalkGoes
<1>10. CASE AllocateForRing
  BY <1>10, ReturnFacts DEF Connecting, Answering, Closing, AllocateForRing, WalkGoes
<1>11. CASE AddPending
  BY <1>11 DEF Connecting, Answering, Closing, AddPending, WalkGoes
<1>12. CASE ForkReturns \/ TrunksReturn
  BY <1>12 DEF ForkReturns, TrunksReturn, WalkGoes, Expired, InviteOutcomes, AuthOutcomes
<1>13. CASE TakePendingRing
  BY <1>13, ReturnFacts DEF Connecting, Closing, TakePendingRing, WalkGoes, Freed, RingOutcome
<1>14. CASE Revive
  BY <1>14, ReturnFacts DEF Connecting, Answering, Closing, Revive, WalkGoes, Freed
<1>15. CASE SelectForFollowMe
  BY <1>15 DEF Closing, SelectForFollowMe, WalkGoes
<1>16. CASE DropLosers
  BY <1>16 DEF DropLosers, WalkGoes
<1>17. CASE AckPhone
  BY <1>17, ReturnFacts DEF Connecting, Closing, AckPhone, WalkGoes, Freed
<1>18. CASE Confirm
  BY <1>18, ReturnFacts DEF Connecting, Closing, Confirm, WalkGoes, Freed, Decline
<1>19. CASE CompleteRing
  BY <1>19 DEF Connecting, CompleteRing, WalkGoes, Key
<1>20. CASE RelayOK
  BY <1>20, ReturnFacts DEF Connecting, Closing, RelayOK, WalkGoes, Answer, Open, Freed
<1>21. CASE CreateFlowDialog
  BY <1>21 DEF Answering, CreateFlowDialog, WalkGoes
<1>22. CASE WriteFlowAnswer
  BY <1>22, ReturnFacts DEF Closing, WriteFlowAnswer, WriteBack, WriteFails
<1>23. ASSUME NEW n \in Numbers, LegAllocates(n) PROVE ModeInv'
  BY <1>23 DEF LegAllocates, LegGoes
<1>24. ASSUME NEW n \in Numbers, LegDials(n) PROVE ModeInv'
  BY <1>24 DEF LegDials, InviteOutcomes, AuthOutcomes, LegGoes
<1>25. ASSUME NEW n \in Numbers, CollectLeg(n) PROVE ModeInv'
  BY <1>25 DEF CollectLeg, Freed, LegGoes
<1>26. CASE SendFlowHangup
  BY <1>26 DEF SendFlowHangup, HangGoes
<1>27. CASE HandleFlowCancel
  BY <1>27 DEF HandleFlowCancel, HangGoes
<1>28. CASE FreeCancelled
  BY <1>28 DEF FreeCancelled, Answer, Open, Freed, HangGoes
<1>29. CASE HandleFlowBye
  BY <1>29 DEF HandleFlowBye, HangGoes
<1>30. CASE ReleaseFlowMedia \/ DropDialog
  BY <1>30 DEF ReleaseFlowMedia, DropDialog, HangGoes
<1>31. CASE ReadForHangup
  BY <1>31 DEF ReadForHangup, ReadCopy, HangGoes
<1>32. CASE WriteHangup
  BY <1>32 DEF WriteHangup, WriteBack, WriteFails, HangGoes, FinalRow
<1>33. CASE ReapFlowSession
  BY <1>33 DEF ReapFlowSession, Freed
<1>34. CASE UNCHANGED flowVars
  BY <1>34 DEF flowVars, Connecting, Answering, Closing
<1> QED
  BY <1>1, <1>2, <1>3, <1>4, <1>5, <1>6, <1>7, <1>8, <1>9, <1>10, <1>11, <1>12, <1>13, <1>14,
     <1>15, <1>16, <1>17, <1>18, <1>19, <1>20, <1>21, <1>22, <1>23, <1>24, <1>25, <1>26, <1>27,
     <1>28, <1>29, <1>30, <1>31, <1>32, <1>33, <1>34, Steps

\* No step leaves a phone up without the walker or a dialog that will tell it.
LEMMA PhoneStep == FlowTypeOK /\ PhoneInv /\ [FlowNext]_flowVars => PhoneInv'
<1> SUFFICES ASSUME FlowTypeOK, PhoneInv, [FlowNext]_flowVars PROVE PhoneInv'
  OBVIOUS
<1> USE DEF PhoneInv, callVars, ringVars, partyVars, hangVars, rowVars, flowHistory
<1>1. CASE LoadFlow \/ EnterNode \/ FollowEdge \/ TransferNode
  BY <1>1 DEF LoadFlow, EnterNode, FollowEdge, TransferNode, WalkGoes, Open
<1>2. CASE HangupNode
  BY <1>2 DEF HangupNode, WalkGoes, HangupCall, Answer, Open
<1>3. CASE ConferenceNode \/ RefuseCaller
  BY <1>3 DEF ConferenceNode, RefuseCaller, WalkGoes, Answer, Open
<1>4. CASE ReadForPath \/ ReadForEnd \/ ReadForFlowAnswer
  BY <1>4 DEF ReadForPath, ReadForEnd, ReadForFlowAnswer, WalkGoes, ReadCopy
<1>5. CASE WritePath
  BY <1>5 DEF WritePath, WalkGoes, Answer, Open, WriteBack, WriteFails
<1>6. CASE WriteEnd
  BY <1>6 DEF WriteEnd, WalkGoes, WriteBack, WriteFails
<1>7. CASE LookupPhones \/ GatherMembers \/ AwaitPush
  BY <1>7 DEF LookupPhones, GatherMembers, AwaitPush, WalkGoes, Expired
<1>8. CASE AllocateForRing
  BY <1>8 DEF AllocateForRing, WalkGoes
<1>9. CASE AddPending
  BY <1>9 DEF AddPending, WalkGoes
<1>10. CASE ForkReturns \/ TrunksReturn
  BY <1>10 DEF ForkReturns, TrunksReturn, WalkGoes, Expired, InviteOutcomes, AuthOutcomes
<1>11. CASE TakePendingRing
  BY <1>11 DEF TakePendingRing, WalkGoes, Freed, RingOutcome
<1>12. CASE Revive
  BY <1>12 DEF Revive, WalkGoes, Freed
<1>13. CASE SelectForFollowMe
  BY <1>13 DEF SelectForFollowMe, WalkGoes
<1>14. CASE DropLosers
  BY <1>14 DEF DropLosers, WalkGoes
<1>15. CASE AckPhone
  BY <1>15 DEF AckPhone, WalkGoes, Freed
<1>16. CASE Confirm
  BY <1>16 DEF Confirm, WalkGoes, Freed, Decline
<1>17. CASE CompleteRing
  BY <1>17 DEF CompleteRing, WalkGoes, Key
<1>18. CASE RelayOK
  BY <1>18 DEF RelayOK, WalkGoes, Answer, Open, Freed
<1>19. CASE CreateFlowDialog
  BY <1>19 DEF CreateFlowDialog, WalkGoes
<1>20. CASE WriteFlowAnswer
  BY <1>20 DEF WriteFlowAnswer, WriteBack, WriteFails
<1>21. ASSUME NEW n \in Numbers, LegAllocates(n) PROVE PhoneInv'
  BY <1>21 DEF LegAllocates, LegGoes
<1>22. ASSUME NEW n \in Numbers, LegDials(n) PROVE PhoneInv'
  BY <1>22 DEF LegDials, InviteOutcomes, AuthOutcomes, LegGoes
<1>23. ASSUME NEW n \in Numbers, CollectLeg(n) PROVE PhoneInv'
  BY <1>23 DEF CollectLeg, Freed, LegGoes
<1>24. CASE SendFlowHangup
  BY <1>24 DEF SendFlowHangup, HangGoes
<1>25. CASE HandleFlowCancel
  BY <1>25 DEF HandleFlowCancel, HangGoes
<1>26. CASE FreeCancelled
  BY <1>26 DEF FreeCancelled, Answer, Open, Freed, HangGoes
<1>27. CASE HandleFlowBye
  BY <1>27 DEF HandleFlowBye, HangGoes
<1>28. CASE ReleaseFlowMedia \/ DropDialog
  BY <1>28 DEF ReleaseFlowMedia, DropDialog, HangGoes
<1>29. CASE ReadForHangup
  BY <1>29 DEF ReadForHangup, ReadCopy, HangGoes
<1>30. CASE WriteHangup
  BY <1>30 DEF WriteHangup, WriteBack, WriteFails, HangGoes, FinalRow
<1>31. CASE ReapFlowSession
  BY <1>31 DEF ReapFlowSession, Freed
<1>32. CASE UNCHANGED flowVars
  BY <1>32 DEF flowVars
<1> QED
  BY <1>1, <1>2, <1>3, <1>4, <1>5, <1>6, <1>7, <1>8, <1>9, <1>10, <1>11, <1>12, <1>13, <1>14,
     <1>15, <1>16, <1>17, <1>18, <1>19, <1>20, <1>21, <1>22, <1>23, <1>24, <1>25, <1>26, <1>27,
     <1>28, <1>29, <1>30, <1>31, <1>32, Steps

\* The entry is taken either by the walker, which then connects, or by the
\* CANCEL, and whoever rings again after it came has set rungOn.
LEMMA CancelStep == FlowTypeOK /\ ModeInv /\ CancelInv /\ [FlowNext]_flowVars => CancelInv'
<1> SUFFICES ASSUME FlowTypeOK, ModeInv, CancelInv, [FlowNext]_flowVars PROVE CancelInv'
  OBVIOUS
<1> USE DEF CancelInv, callVars, ringVars, partyVars, hangVars, rowVars, flowHistory
<1>1. CASE LoadFlow \/ EnterNode \/ FollowEdge \/ TransferNode
  BY <1>1 DEF Connecting, LoadFlow, EnterNode, FollowEdge, TransferNode, WalkGoes, Open
<1>2. CASE HangupNode
  BY <1>2 DEF ModeInv, Connecting, HangupNode, WalkGoes, HangupCall, Answer, Open
<1>3. CASE ConferenceNode \/ RefuseCaller
  BY <1>3 DEF ModeInv, Connecting, ConferenceNode, RefuseCaller, WalkGoes, Answer, Open
<1>4. CASE ReadForPath \/ ReadForEnd \/ ReadForFlowAnswer
  BY <1>4 DEF Connecting, ReadForPath, ReadForEnd, ReadForFlowAnswer, WalkGoes, ReadCopy
<1>5. CASE WritePath
  BY <1>5 DEF ModeInv, Connecting, WritePath, WalkGoes, Answer, Open, WriteBack, WriteFails
<1>6. CASE WriteEnd
  BY <1>6 DEF Connecting, WriteEnd, WalkGoes, WriteBack, WriteFails
<1>7. CASE LookupPhones
  BY <1>7, TypeFacts, ReturnFacts DEF Connecting, LookupPhones, WalkGoes, Expired
<1>8. CASE GatherMembers
  BY <1>8, TypeFacts, ReturnFacts DEF Connecting, GatherMembers, WalkGoes, Expired
<1>9. CASE AwaitPush
  BY <1>9, TypeFacts, ReturnFacts DEF Connecting, AwaitPush, WalkGoes
<1>10. CASE AllocateForRing
  BY <1>10, TypeFacts, ReturnFacts DEF Connecting, AllocateForRing, WalkGoes
<1>11. CASE AddPending
  BY <1>11 DEF AddPending, WalkGoes
<1>12. CASE ForkReturns \/ TrunksReturn
  BY <1>12 DEF Connecting, ForkReturns, TrunksReturn, WalkGoes, Expired, InviteOutcomes,
     AuthOutcomes
<1>13. CASE TakePendingRing
  BY <1>13, TypeFacts, ReturnFacts DEF Connecting, TakePendingRing, WalkGoes, Freed, RingOutcome
<1>14. CASE Revive
  BY <1>14, TypeFacts, ReturnFacts DEF Connecting, Revive, WalkGoes, Freed
<1>15. CASE SelectForFollowMe
  BY <1>15 DEF SelectForFollowMe, WalkGoes
<1>16. CASE DropLosers
  BY <1>16 DEF Connecting, DropLosers, WalkGoes
<1>17. CASE AckPhone
  BY <1>17 DEF Connecting, AckPhone, WalkGoes, Freed
<1>18. CASE Confirm
  BY <1>18 DEF Connecting, Confirm, WalkGoes, Freed, Decline
<1>19. CASE CompleteRing
  BY <1>19 DEF Connecting, CompleteRing, WalkGoes, Key
<1>20. CASE RelayOK
  BY <1>20 DEF Connecting, RelayOK, WalkGoes, Answer, Open, Freed
<1>21. CASE CreateFlowDialog
  BY <1>21 DEF Connecting, CreateFlowDialog, WalkGoes
<1>22. CASE WriteFlowAnswer
  BY <1>22, ReturnFacts DEF Connecting, WriteFlowAnswer, WriteBack, WriteFails
<1>23. ASSUME NEW n \in Numbers, LegAllocates(n) PROVE CancelInv'
  BY <1>23 DEF LegAllocates, LegGoes
<1>24. ASSUME NEW n \in Numbers, LegDials(n) PROVE CancelInv'
  BY <1>24 DEF LegDials, InviteOutcomes, AuthOutcomes, LegGoes
<1>25. ASSUME NEW n \in Numbers, CollectLeg(n) PROVE CancelInv'
  BY <1>25 DEF CollectLeg, Freed, LegGoes
<1>26. CASE SendFlowHangup
  BY <1>26 DEF SendFlowHangup, HangGoes
<1>27. CASE HandleFlowCancel
  BY <1>27 DEF ModeInv, Connecting, HandleFlowCancel, HangGoes
<1>28. CASE FreeCancelled
  BY <1>28 DEF FreeCancelled, Answer, Open, Freed, HangGoes
<1>29. CASE HandleFlowBye
  BY <1>29 DEF HandleFlowBye, HangGoes
<1>30. CASE ReleaseFlowMedia \/ DropDialog
  BY <1>30 DEF ReleaseFlowMedia, DropDialog, HangGoes
<1>31. CASE ReadForHangup
  BY <1>31 DEF ReadForHangup, ReadCopy, HangGoes
<1>32. CASE WriteHangup
  BY <1>32 DEF WriteHangup, WriteBack, WriteFails, HangGoes, FinalRow
<1>33. CASE ReapFlowSession
  BY <1>33 DEF ReapFlowSession, Freed
<1>34. CASE UNCHANGED flowVars
  BY <1>34 DEF flowVars, ModeInv, Connecting
<1> QED
  BY <1>1, <1>2, <1>3, <1>4, <1>5, <1>6, <1>7, <1>8, <1>9, <1>10, <1>11, <1>12, <1>13, <1>14,
     <1>15, <1>16, <1>17, <1>18, <1>19, <1>20, <1>21, <1>22, <1>23, <1>24, <1>25, <1>26, <1>27,
     <1>28, <1>29, <1>30, <1>31, <1>32, <1>33, <1>34, Steps

\* A follow-me has a dialog from its one answer on.
LEMMA TalkStep == FlowTypeOK /\ ModeInv /\ TalkInv /\ [FlowNext]_flowVars => TalkInv'
<1> SUFFICES ASSUME FlowTypeOK, ModeInv, TalkInv, [FlowNext]_flowVars PROVE TalkInv'
  OBVIOUS
<1> USE DEF TalkInv, callVars, ringVars, partyVars, hangVars, rowVars, flowHistory
<1>1. CASE LoadFlow \/ EnterNode \/ FollowEdge \/ TransferNode
  BY <1>1 DEF Answering, LoadFlow, EnterNode, FollowEdge, TransferNode, WalkGoes, Open
<1>2. CASE HangupNode
  BY <1>2 DEF Answering, HangupNode, WalkGoes, HangupCall, Answer, Open
<1>3. CASE ConferenceNode \/ RefuseCaller
  BY <1>3 DEF Answering, ConferenceNode, RefuseCaller, WalkGoes, Answer, Open
<1>4. CASE ReadForPath \/ ReadForEnd \/ ReadForFlowAnswer
  BY <1>4 DEF Answering, ReadForPath, ReadForEnd, ReadForFlowAnswer, WalkGoes, ReadCopy
<1>5. CASE WritePath
  BY <1>5 DEF Answering, WritePath, WalkGoes, Answer, Open, WriteBack, WriteFails
<1>6. CASE WriteEnd
  BY <1>6 DEF Answering, WriteEnd, WalkGoes, WriteBack, WriteFails
<1>7. CASE LookupPhones \/ GatherMembers \/ AwaitPush
  BY <1>7, TypeFacts DEF ModeInv, Connecting, Answering, Closing, LookupPhones, GatherMembers,
     AwaitPush, WalkGoes, Expired
<1>8. CASE AllocateForRing
  BY <1>8, TypeFacts, ReturnFacts DEF Answering, AllocateForRing, WalkGoes
<1>9. CASE AddPending
  BY <1>9 DEF Answering, AddPending, WalkGoes
<1>10. CASE ForkReturns \/ TrunksReturn
  BY <1>10 DEF Answering, ForkReturns, TrunksReturn, WalkGoes, Expired, InviteOutcomes, AuthOutcomes
<1>11. CASE TakePendingRing
  BY <1>11, TypeFacts, ReturnFacts DEF Answering, TakePendingRing, WalkGoes, Freed, RingOutcome
<1>12. CASE Revive
  BY <1>12, TypeFacts DEF ModeInv, Connecting, Answering, Closing, Revive, WalkGoes, Freed
<1>13. CASE SelectForFollowMe
  BY <1>13 DEF Answering, SelectForFollowMe, WalkGoes
<1>14. CASE DropLosers
  BY <1>14 DEF Answering, DropLosers, WalkGoes
<1>15. CASE AckPhone
  BY <1>15, TypeFacts, ReturnFacts DEF Answering, AckPhone, WalkGoes, Freed
<1>16. CASE Confirm
  BY <1>16, TypeFacts, ReturnFacts DEF Answering, Confirm, WalkGoes, Freed, Decline
<1>17. CASE CompleteRing
  BY <1>17 DEF Answering, CompleteRing, WalkGoes, Key
<1>18. CASE RelayOK
  BY <1>18, TypeFacts, ReturnFacts DEF Answering, RelayOK, WalkGoes, Answer, Open, Freed
<1>19. CASE CreateFlowDialog
  BY <1>19 DEF Answering, CreateFlowDialog, WalkGoes
<1>20. CASE WriteFlowAnswer
  BY <1>20, ReturnFacts DEF Answering, WriteFlowAnswer, WriteBack, WriteFails
<1>21. ASSUME NEW n \in Numbers, LegAllocates(n) PROVE TalkInv'
  BY <1>21 DEF LegAllocates, LegGoes
<1>22. ASSUME NEW n \in Numbers, LegDials(n) PROVE TalkInv'
  BY <1>22 DEF LegDials, InviteOutcomes, AuthOutcomes, LegGoes
<1>23. ASSUME NEW n \in Numbers, CollectLeg(n) PROVE TalkInv'
  BY <1>23 DEF CollectLeg, Freed, LegGoes
<1>24. CASE SendFlowHangup
  BY <1>24 DEF SendFlowHangup, HangGoes
<1>25. CASE HandleFlowCancel
  BY <1>25 DEF HandleFlowCancel, HangGoes
<1>26. CASE FreeCancelled
  BY <1>26 DEF FreeCancelled, Answer, Open, Freed, HangGoes
<1>27. CASE HandleFlowBye
  BY <1>27 DEF HandleFlowBye, HangGoes
<1>28. CASE ReleaseFlowMedia \/ DropDialog
  BY <1>28 DEF ReleaseFlowMedia, DropDialog, HangGoes
<1>29. CASE ReadForHangup
  BY <1>29 DEF ReadForHangup, ReadCopy, HangGoes
<1>30. CASE WriteHangup
  BY <1>30 DEF WriteHangup, WriteBack, WriteFails, HangGoes, FinalRow
<1>31. CASE ReapFlowSession
  BY <1>31 DEF ReapFlowSession, Freed
<1>32. CASE UNCHANGED flowVars
  BY <1>32 DEF flowVars, ModeInv, Connecting, Answering, Closing
<1> QED
  BY <1>1, <1>2, <1>3, <1>4, <1>5, <1>6, <1>7, <1>8, <1>9, <1>10, <1>11, <1>12, <1>13, <1>14,
     <1>15, <1>16, <1>17, <1>18, <1>19, <1>20, <1>21, <1>22, <1>23, <1>24, <1>25, <1>26, <1>27,
     <1>28, <1>29, <1>30, <1>31, <1>32, Steps

\* Unless a stale copy is written, who writes the row adds to what it says.
LEMMA RowStep == FlowTypeOK /\ ModeInv /\ TalkInv /\ RowInv /\ [FlowNext]_flowVars => RowInv'
<1> SUFFICES ASSUME FlowTypeOK, ModeInv, TalkInv, RowInv, [FlowNext]_flowVars PROVE RowInv'
  OBVIOUS
<1> USE DEF RowInv, callVars, ringVars, partyVars, hangVars, rowVars, flowHistory
<1>1. CASE LoadFlow \/ EnterNode \/ FollowEdge \/ TransferNode
  BY <1>1 DEF LoadFlow, EnterNode, FollowEdge, TransferNode, WalkGoes, Open
<1>2. CASE HangupNode
  BY <1>2 DEF TalkInv, Answering, HangupNode, WalkGoes, HangupCall, Answer, Open
<1>3. CASE ConferenceNode \/ RefuseCaller
  BY <1>3 DEF ConferenceNode, RefuseCaller, WalkGoes, Answer, Open
<1>4. CASE ReadForPath \/ ReadForEnd \/ ReadForFlowAnswer
  BY <1>4 DEF ReadForPath, ReadForEnd, ReadForFlowAnswer, WalkGoes, ReadCopy
<1>5. CASE WritePath
  <2>1. CASE ~clobbered'
    <3>1. ~clobbered /\ copies["walker"] = row
      BY <1>5, <2>1, FlagFacts DEF WritePath, WriteBack, WriteFails
    <3>2. row' = [row EXCEPT !.path = TRUE]
      BY <1>5, <2>1, <3>1, FlagFacts DEF WritePath, WriteBack, WriteFails
    <3>3. row'.path /\ row'.ended = row.ended /\ row'.disposition = row.disposition
      BY <3>2, TypeFacts DEF FlowRows
    <3> QED
      BY <1>5, <3>1, <3>3, TypeFacts DEF RowInv, ModeInv, TalkInv, Connecting, Answering, Closing,
         WritePath, WalkGoes, callVars, partyVars
  <2> QED
    BY <2>1 DEF RowInv
<1>6. CASE WriteEnd
  <2>1. CASE ~clobbered'
    <3>1. ~clobbered /\ copies["walker"] = row
      BY <1>6, <2>1, FlagFacts DEF WriteEnd, WriteBack, WriteFails
    <3>2. row' = [row EXCEPT !.ended = TRUE, !.disposition = CASE walk = "close200" -> "answered"
                                          [] walk = "close480" -> "no_answer" [] OTHER -> "failed"]
      BY <1>6, <2>1, <3>1, FlagFacts DEF WriteEnd, WriteBack, WriteFails
    <3>3. row'.ended /\ row'.path = row.path /\ (walk # "close200" => row'.disposition # "answered")
      BY <3>2, TypeFacts DEF FlowRows
    <3> QED
      BY <1>6, <3>1, <3>3, TypeFacts DEF RowInv, ModeInv, TalkInv, Connecting, Answering, Closing,
         WriteEnd, WalkGoes, callVars, partyVars
  <2> QED
    BY <2>1 DEF RowInv
<1>7. CASE LookupPhones \/ GatherMembers \/ AwaitPush
  BY <1>7, TypeFacts, ReturnFacts DEF LookupPhones, GatherMembers, AwaitPush, WalkGoes, Expired
<1>8. CASE AllocateForRing
  BY <1>8, TypeFacts, ReturnFacts DEF AllocateForRing, WalkGoes
<1>9. CASE AddPending
  BY <1>9 DEF AddPending, WalkGoes
<1>10. CASE ForkReturns \/ TrunksReturn
  BY <1>10 DEF ForkReturns, TrunksReturn, WalkGoes, Expired, InviteOutcomes, AuthOutcomes
<1>11. CASE TakePendingRing
  BY <1>11, TypeFacts, ReturnFacts DEF TakePendingRing, WalkGoes, Freed, RingOutcome
<1>12. CASE Revive
  BY <1>12, TypeFacts, ReturnFacts DEF Revive, WalkGoes, Freed
<1>13. CASE SelectForFollowMe
  BY <1>13 DEF SelectForFollowMe, WalkGoes
<1>14. CASE DropLosers
  BY <1>14 DEF DropLosers, WalkGoes
<1>15. CASE AckPhone
  BY <1>15, TypeFacts, ReturnFacts DEF AckPhone, WalkGoes, Freed
<1>16. CASE Confirm
  BY <1>16, TypeFacts, ReturnFacts DEF Confirm, WalkGoes, Freed, Decline
<1>17. CASE CompleteRing
  BY <1>17 DEF CompleteRing, WalkGoes, Key
<1>18. CASE RelayOK
  BY <1>18, TypeFacts, ReturnFacts DEF RelayOK, WalkGoes, Answer, Open, Freed
<1>19. CASE CreateFlowDialog
  BY <1>19 DEF TalkInv, Answering, CreateFlowDialog, WalkGoes
<1>20. CASE WriteFlowAnswer
  BY <1>20, ReturnFacts DEF TalkInv, Answering, WriteFlowAnswer, WriteBack, WriteFails
<1>21. ASSUME NEW n \in Numbers, LegAllocates(n) PROVE RowInv'
  BY <1>21 DEF LegAllocates, LegGoes
<1>22. ASSUME NEW n \in Numbers, LegDials(n) PROVE RowInv'
  BY <1>22 DEF LegDials, InviteOutcomes, AuthOutcomes, LegGoes
<1>23. ASSUME NEW n \in Numbers, CollectLeg(n) PROVE RowInv'
  BY <1>23 DEF CollectLeg, Freed, LegGoes
<1>24. CASE SendFlowHangup
  BY <1>24 DEF SendFlowHangup, HangGoes
<1>25. CASE HandleFlowCancel
  BY <1>25 DEF HandleFlowCancel, HangGoes
<1>26. CASE FreeCancelled
  BY <1>26 DEF FreeCancelled, Answer, Open, Freed, HangGoes
<1>27. CASE HandleFlowBye
  BY <1>27 DEF HandleFlowBye, HangGoes
<1>28. CASE ReleaseFlowMedia \/ DropDialog
  BY <1>28 DEF ReleaseFlowMedia, DropDialog, HangGoes
<1>29. CASE ReadForHangup
  BY <1>29 DEF ReadForHangup, ReadCopy, HangGoes
<1>30. CASE WriteHangup
  <2>1. CASE ~clobbered'
    <3>1. ~clobbered /\ copies["hang"] = row
      BY <1>30, <2>1, FlagFacts DEF WriteHangup, WriteBack, WriteFails
    <3>2. row' = [row EXCEPT !.ended = TRUE, !.disposition = IF hang = "finWrite" THEN "answered" ELSE "cancelled"]
      BY <1>30, <2>1, <3>1, FlagFacts DEF WriteHangup, WriteBack, WriteFails, FinalRow
    <3>3. row'.ended /\ row'.path = row.path /\ (hang # "finWrite" => row'.disposition # "answered")
      BY <3>2, TypeFacts DEF FlowRows
    <3> QED
      BY <1>30, <3>1, <3>3, TypeFacts DEF RowInv, ModeInv, TalkInv, Connecting, Answering, Closing,
         WriteHangup, HangGoes, callVars, partyVars
  <2> QED
    BY <2>1 DEF RowInv
<1>31. CASE ReapFlowSession
  BY <1>31 DEF ReapFlowSession, Freed
<1>32. CASE UNCHANGED flowVars
  BY <1>32 DEF flowVars, ModeInv, TalkInv, Connecting, Answering, Closing
<1> QED
  BY <1>1, <1>2, <1>3, <1>4, <1>5, <1>6, <1>7, <1>8, <1>9, <1>10, <1>11, <1>12, <1>13, <1>14,
     <1>15, <1>16, <1>17, <1>18, <1>19, <1>20, <1>21, <1>22, <1>23, <1>24, <1>25, <1>26, <1>27,
     <1>28, <1>29, <1>30, <1>31, <1>32, Steps

\* Whatever way a ring attempt goes, its session finds an owner.
LEMMA SessionStep == FlowTypeOK /\ ModeInv /\ TalkInv /\ SessionInv /\ [FlowNext]_flowVars => SessionInv'
<1> SUFFICES ASSUME FlowTypeOK, ModeInv, TalkInv, SessionInv, [FlowNext]_flowVars PROVE SessionInv'
  OBVIOUS
<1> USE DEF SessionInv, callVars, ringVars, partyVars, hangVars, rowVars, flowHistory
<1>1. CASE LoadFlow \/ EnterNode \/ FollowEdge \/ TransferNode
  BY <1>1 DEF Owned, Ringing, LoadFlow, EnterNode, FollowEdge, TransferNode, WalkGoes, Open
<1>2. CASE HangupNode
  BY <1>2, TypeFacts DEF Owned, Ringing, HangupNode, WalkGoes, HangupCall, Answer, Open
<1>3. CASE ConferenceNode \/ RefuseCaller
  BY <1>3 DEF Owned, Ringing, ConferenceNode, RefuseCaller, WalkGoes, Answer, Open
<1>4. CASE ReadForPath \/ ReadForEnd \/ ReadForFlowAnswer
  BY <1>4 DEF Owned, Ringing, ReadForPath, ReadForEnd, ReadForFlowAnswer, WalkGoes, ReadCopy
<1>5. CASE WritePath
  BY <1>5 DEF Owned, Ringing, WritePath, WalkGoes, Answer, Open, WriteBack, WriteFails
<1>6. CASE WriteEnd
  BY <1>6 DEF Owned, Ringing, WriteEnd, WalkGoes, WriteBack, WriteFails
<1>7. CASE LookupPhones
  BY <1>7, TypeFacts, ReturnFacts DEF Owned, Ringing, LookupPhones, WalkGoes, Expired
<1>8. CASE GatherMembers
  BY <1>8, TypeFacts, ReturnFacts DEF Owned, Ringing, GatherMembers, WalkGoes, Expired
<1>9. CASE AwaitPush
  BY <1>9, TypeFacts, ReturnFacts DEF Owned, Ringing, AwaitPush, WalkGoes
<1>10. CASE AllocateForRing
  BY <1>10, TypeFacts, ReturnFacts DEF Owned, Ringing, Key, ModeInv, Connecting, Answering,
     Closing, AllocateForRing, WalkGoes
<1>11. CASE AddPending
  BY <1>11 DEF Owned, Ringing, Key, AddPending, WalkGoes
<1>12. CASE ForkReturns \/ TrunksReturn
  BY <1>12 DEF Owned, Ringing, Key, ForkReturns, TrunksReturn, WalkGoes, Expired, InviteOutcomes,
     AuthOutcomes
<1>13. CASE TakePendingRing
  <2> USE DEF TakePendingRing
  <2>1. /\ walk = "take" /\ waiting' = FALSE
        /\ UNCHANGED <<mode, leg, bridged, talk, hang, leaked>>
    BY <1>13 DEF hangVars, flowHistory
  <2>2. CASE walk' \in {"ack", "dead", "revive"} /\ UNCHANGED <<held, member, ring>>
    BY <2>1, <2>2, TypeFacts DEF SessionInv, Owned, Ringing, Key
  <2>3. ASSUME walk' \in {"edge", "broken", "lookup", "alloc", "refuse"},
               mode = "simultaneous" => walk' = "refuse",
               \/ held' = held \ {Key}
               \/ held' = held /\ ~waiting /\ (mode = "flow" \/ (mode = "simultaneous" /\ ring = "none"))
        PROVE  SessionInv'
    <3>2. ASSUME NEW key \in held' PROVE Owned(key)'
      <4>1. CASE held' = held \ {Key}
        BY <2>1, <3>2, <4>1 DEF SessionInv, Owned
      <4>2. CASE held' = held
        BY <2>1, <2>3, <3>2, <4>2, TypeFacts DEF SessionInv, Owned, Key, CallSession
      <4> QED
        BY <2>3, <4>1, <4>2
    <3> QED
      BY <2>1, <2>3, <3>2, TypeFacts DEF SessionInv
  <2>4. CASE RingOutcome = "cancelled"
    <3>1. ReturnRing("error") /\ ~waiting
      BY <1>13, <2>4, TypeFacts, FlagFacts DEF RingOutcome
    <3>2. \/ held' = held \ {Key}
          \/ held' = held /\ (mode = "flow" \/ (mode = "simultaneous" /\ ring = "none"))
      BY <1>13, <2>4, TypeFacts DEF RingOutcome, Freed
    <3>3. walk' \in {"edge", "broken", "lookup", "alloc", "refuse"} /\ (mode = "simultaneous" => walk' = "refuse")
      BY <3>1, ReturnFacts, TypeFacts
    <3> QED
      BY <2>3, <3>1, <3>2, <3>3
  <2>5. CASE RingOutcome \in {"none", "error"} \/ (RingOutcome = "stale" /\ retried)
    <3>1. Freed(Key)
      BY <1>13, <2>5
    <3>2. ReturnRing("error") \/ ReturnRing("none")
      BY <1>13, <2>5
    <3>3. walk' \in {"edge", "broken", "lookup", "alloc", "refuse"} /\ (mode = "simultaneous" => walk' = "refuse")
      BY <3>2, ReturnFacts, TypeFacts
    <3> QED
      BY <2>3, <3>1, <3>3 DEF Freed
  <2> QED
    BY <1>13, <2>2, <2>4, <2>5, TypeFacts, FlagFacts DEF RingOutcome, WalkGoes
<1>14. CASE Revive
  BY <1>14, TypeFacts, ReturnFacts DEF Owned, Ringing, Key, ModeInv, Connecting, Answering,
     Closing, Revive, WalkGoes, Freed
<1>15. CASE SelectForFollowMe
  BY <1>15 DEF SelectForFollowMe, WalkGoes
<1>16. CASE DropLosers
  BY <1>16, TypeFacts DEF Owned, Ringing, Key, ModeInv, Connecting, Answering, Closing,
     DropLosers, WalkGoes
<1>17. CASE AckPhone
  BY <1>17, TypeFacts, ReturnFacts DEF Owned, Ringing, Key, AckPhone, WalkGoes, Freed
<1>18. CASE Confirm
  BY <1>18, TypeFacts, ReturnFacts DEF Owned, Ringing, Key, Confirm, WalkGoes, Freed, Decline
<1>19. CASE CompleteRing
  <2>1. /\ walk = "complete" /\ walk' = "relay" /\ UNCHANGED <<mode, member, leg, waiting, ring, talk, hang, leaked>>
        /\ bridged' \in {Key, NoSession} /\ Key' = Key
        /\ held' \subseteq held
    BY <1>19 DEF CompleteRing, WalkGoes, Freed, Key
  <2>2. \A key \in held' : Owned(key)'
    BY <2>1, TypeFacts DEF TalkInv, Owned, Ringing, Answering, Key, CallSession
  <2> QED
    BY <2>1, <2>2, TypeFacts DEF SessionInv
<1>20. CASE RelayOK
  <2>1. /\ walk = "relay" /\ UNCHANGED <<mode, leg, waiting, bridged, talk, hang>>
        /\ bridged \in {Key, NoSession}
    BY <1>20 DEF RelayOK, hangVars, SessionInv
  <2>2. CASE WalkGoes("dialog") /\ UNCHANGED <<held, member, ring, leaked>>
    BY <2>1, <2>2, TypeFacts DEF SessionInv, Owned, Ringing, Key, WalkGoes
  <2>3. CASE held' = held \ {bridged} /\ leaked' = (leaked \/ NotBridged) /\ ReturnRing("error")
    <3>1. walk' \in {"edge", "broken", "lookup", "alloc", "refuse"} /\ (mode = "simultaneous" => walk' = "refuse")
      BY <2>3, ReturnFacts, TypeFacts
    <3>2. \A key \in held' : leaked' \/ (hang = "free" /\ key = CallSession /\ mode # "simultaneous")
      BY <2>1, <2>3, TypeFacts DEF SessionInv, Owned, Key, TalkInv, Answering, NotBridged
    <3> QED
      BY <2>1, <2>3, <3>1, <3>2, TypeFacts DEF SessionInv, Owned
  <2> QED
    BY <1>20, <2>2, <2>3 DEF RelayOK
<1>21. CASE CreateFlowDialog
  BY <1>21 DEF Owned, CreateFlowDialog, NotBridged, WalkGoes
<1>22. CASE WriteFlowAnswer
  BY <1>22, ReturnFacts DEF Owned, Ringing, WriteFlowAnswer, WriteBack, WriteFails
<1>23. ASSUME NEW n \in Numbers, LegAllocates(n) PROVE SessionInv'
  <2>1. /\ leg[n] = "start" /\ UNCHANGED <<mode, walk, member, ring, waiting, bridged, talk, hang, leaked>>
    BY <1>23 DEF LegAllocates, callVars, partyVars, hangVars, flowHistory
  <2>2. walk = "collect" /\ mode = "simultaneous"
    BY <2>1 DEF ModeInv
  <2>3. \/ held' = held \union {n} /\ leg' = [leg EXCEPT ![n] = "dial"]
        \/ held' = held /\ leg' = [leg EXCEPT ![n] = "failed"]
    BY <1>23 DEF LegAllocates, LegGoes
  <2>4. n \in Numbers /\ n # CallSession
    BY <1>23, TypeFacts DEF Numbers, CallSession
  <2>5. \A m \in Numbers \ {n} : leg'[m] = leg[m]
    BY <2>3, TypeFacts
  <2>6. leg'[n] \in {"dial", "failed"} /\ (n \in held' /\ n \notin held => leg'[n] = "dial")
    BY <2>3, TypeFacts
  <2>7. \A m \in Numbers \intersect held' : leg'[m] \in {"dial", "lost", "answered", "late", "loser"} \/ m = member'
    BY <2>1, <2>2, <2>3, <2>4, <2>5, <2>6 DEF SessionInv
  <2>8. \A key \in held' : Owned(key)'
    BY <2>1, <2>2, <2>3, <2>4 DEF SessionInv, Owned, Key
  <2> QED
    BY <2>1, <2>2, <2>3, <2>4, <2>7, <2>8, TypeFacts DEF SessionInv
<1>24. ASSUME NEW n \in Numbers, LegDials(n) PROVE SessionInv'
  BY <1>24 DEF Owned, Key, LegDials, InviteOutcomes, AuthOutcomes, LegGoes
<1>25. ASSUME NEW n \in Numbers, CollectLeg(n) PROVE SessionInv'
  BY <1>25, TypeFacts DEF Owned, Key, CallSession, ModeInv, CollectLeg, Freed, LegGoes
<1>26. CASE SendFlowHangup
  BY <1>26 DEF Owned, Key, SendFlowHangup, HangGoes
<1>27. CASE HandleFlowCancel
  BY <1>27 DEF Owned, Key, HandleFlowCancel, HangGoes
<1>28. CASE FreeCancelled
  BY <1>28 DEF Owned, Key, FreeCancelled, Answer, Open, Freed, HangGoes
<1>29. CASE HandleFlowBye
  BY <1>29 DEF Owned, Key, HandleFlowBye, HangGoes
<1>30. CASE ReleaseFlowMedia \/ DropDialog
  BY <1>30 DEF Owned, Key, ReleaseFlowMedia, DropDialog, HangGoes
<1>31. CASE ReadForHangup
  BY <1>31 DEF Owned, Key, ReadForHangup, ReadCopy, HangGoes
<1>32. CASE WriteHangup
  BY <1>32 DEF Owned, Key, WriteHangup, WriteBack, WriteFails, HangGoes, FinalRow
<1>33. CASE ReapFlowSession
  BY <1>33 DEF Owned, ReapFlowSession, Freed
<1>34. CASE UNCHANGED flowVars
  BY <1>34 DEF flowVars, TalkInv, Owned, Ringing, Key, Numbers, CallSession, NoSession, ModeInv,
     Connecting, Answering, Closing
<1> QED
  BY <1>1, <1>2, <1>3, <1>4, <1>5, <1>6, <1>7, <1>8, <1>9, <1>10, <1>11, <1>12, <1>13, <1>14,
     <1>15, <1>16, <1>17, <1>18, <1>19, <1>20, <1>21, <1>22, <1>23, <1>24, <1>25, <1>26, <1>27,
     <1>28, <1>29, <1>30, <1>31, <1>32, <1>33, <1>34, Steps

\* Only CreateFlowDialog makes a dialog.
LEMMA ConnectsAtDialog ==
  ASSUME FlowNext, talk # "active", talk' = "active" PROVE walk = "dialog"
<1> USE DEF callVars, ringVars, partyVars, hangVars, rowVars, flowHistory
<1>1. ~(LoadFlow \/ EnterNode \/ FollowEdge \/ TransferNode \/ ConferenceNode \/ RefuseCaller)
  BY DEF LoadFlow, EnterNode, FollowEdge, TransferNode, ConferenceNode, RefuseCaller
<1>2. ~HangupNode
  BY DEF HangupNode, HangupCall
<1>3. ~(ReadForPath \/ WritePath \/ ReadForEnd \/ WriteEnd \/ ReadForFlowAnswer \/ WriteFlowAnswer)
  BY DEF ReadForPath, WritePath, ReadForEnd, WriteEnd, ReadForFlowAnswer, WriteFlowAnswer
<1>4. ~(LookupPhones \/ GatherMembers \/ AwaitPush \/ AllocateForRing \/ AddPending)
  BY DEF LookupPhones, GatherMembers, AwaitPush, AllocateForRing, AddPending
<1>5. ~(ForkReturns \/ TakePendingRing \/ Revive \/ SelectForFollowMe \/ TrunksReturn \/ DropLosers)
  BY DEF ForkReturns, TakePendingRing, Revive, SelectForFollowMe, TrunksReturn, DropLosers
<1>6. ~(AckPhone \/ Confirm \/ CompleteRing \/ RelayOK)
  BY DEF AckPhone, Confirm, CompleteRing, RelayOK
<1>7. \A n \in Numbers : ~(LegAllocates(n) \/ LegDials(n) \/ CollectLeg(n))
  BY DEF LegAllocates, LegDials, CollectLeg
<1>8. ~(SendFlowHangup \/ HandleFlowCancel \/ FreeCancelled \/ HandleFlowBye \/ ReleaseFlowMedia)
  BY DEF SendFlowHangup, HandleFlowCancel, FreeCancelled, HandleFlowBye, ReleaseFlowMedia
<1>9. ~(DropDialog \/ ReadForHangup \/ WriteHangup \/ ReapFlowSession)
  BY DEF DropDialog, ReadForHangup, WriteHangup, ReapFlowSession
<1>10. CreateFlowDialog
  BY <1>1, <1>2, <1>3, <1>4, <1>5, <1>6, <1>7, <1>8, <1>9, Steps
<1> QED
  BY <1>10 DEF CreateFlowDialog

-----------------------------------------------------------------------------
(* The theorems.                                                           *)

FlowInv == ModeInv /\ PhoneInv /\ CancelInv /\ TalkInv /\ RowInv /\ SessionInv

LEMMA InvInit == FlowInit => FlowInv
<1> SUFFICES ASSUME FlowInit PROVE FlowInv
  OBVIOUS
<1>1. /\ mode \in {"flow", "sequential", "simultaneous"}
      /\ walk = IF mode = "flow" THEN "load" ELSE "trunks"
      /\ left = MaxNodes /\ member = 0 /\ ring = "none" /\ leg = [n \in Numbers |-> "off"]
      /\ waiting = FALSE /\ held = {} /\ phone = "idle" /\ talk = "none" /\ caller = "calling"
      /\ hang = "idle" /\ row.disposition = "in_progress"
  BY FlowAssumption DEF FlowInit, FreshRow
<1>2. ModeInv /\ PhoneInv /\ CancelInv
  BY <1>1 DEF ModeInv, PhoneInv, CancelInv, Connecting, Answering, Closing
<1>3. TalkInv /\ RowInv /\ SessionInv
  BY <1>1 DEF TalkInv, RowInv, SessionInv, Answering
<1> QED
  BY <1>2, <1>3 DEF FlowInv

\* The variables keep their types, in a flow and in both kinds of follow-me.
THEOREM FlowTypeInvariance == FlowSpec => []FlowTypeOK
BY TypeInit, TypeStep, PTL DEF FlowSpec

LEMMA FlowInvariance == FlowSpec => [](FlowTypeOK /\ FlowInv)
<1>1. FlowTypeOK /\ FlowInv /\ [FlowNext]_flowVars => FlowInv'
  BY ModeStep, PhoneStep, CancelStep, TalkStep, RowStep, SessionStep DEF FlowInv
<1> QED
  BY <1>1, InvInit, FlowTypeInvariance, PTL DEF FlowSpec

\* However a ring attempt, a confirmation, a CANCEL, a BYE of either side and a
\* second ring of the same call interleave: when all are done no phone is left
\* talking to nobody, but for the callees that stranded names.
THEOREM EveryPhoneTold == FlowSpec => []PhonesTold
<1>1. FlowInv => PhonesTold
  BY DEF FlowInv, PhoneInv, PhonesTold
<1> QED
  BY <1>1, FlowInvariance, PTL

\* A caller whose CANCEL was answered with 487 is never put into a dialog,
\* wherever the CANCEL met the walker, unless a phone was rung after it.
THEOREM NoCancelledDialog == FlowSpec => CancelledNotConnected
<1>1. FlowTypeOK /\ FlowInv /\ [FlowNext]_flowVars =>
        [talk # "active" /\ talk' = "active" /\ caller = "refused" => rungOn]_flowVars
  <2> SUFFICES ASSUME FlowInv, FlowNext, talk # "active", talk' = "active", caller = "refused"
               PROVE  rungOn
    OBVIOUS
  <2>1. walk = "dialog"
    BY ConnectsAtDialog
  <2> QED
    BY <2>1 DEF FlowInv, CancelInv, Connecting
<1> QED
  BY <1>1, FlowInvariance, PTL DEF FlowSpec, CancelledNotConnected

\* The row of a call that is over is closed, has the flow's path and tells an
\* answered follow-me from one that was not, unless a stale copy spoilt it.
THEOREM FlowRowSound == FlowSpec => []FlowRowTellsOutcome
<1>1. FlowTypeOK /\ FlowInv => FlowRowTellsOutcome
  <2> SUFFICES ASSUME FlowTypeOK, RowInv, walk = "done", hang = "idle", talk # "active", ~clobbered
               PROVE  /\ row.ended
                      /\ mode = "flow" /\ left < MaxNodes => row.path
                      /\ row.disposition = "answered" /\ mode # "flow" => talk = "over"
    BY DEF FlowInv, FlowRowTellsOutcome
  <2>1. mode # "flow" => row.ended \/ talk = "over"
    BY TypeFacts DEF RowInv
  <2> QED
    BY <2>1, TypeFacts DEF RowInv
<1> QED
  BY <1>1, FlowInvariance, PTL

\* Every session in the table has an owner who will give it back, through all
\* ways a ring attempt, a race of legs, a CANCEL and a BYE can end.
THEOREM SessionsHaveOwners == FlowSpec => []FlowSessionsOwned
<1>1. FlowTypeOK /\ FlowInv => FlowSessionsOwned
  BY DEF FlowInv, SessionInv, Owned, FlowSessionsOwned, CallSession, NoSession
<1> QED
  BY <1>1, FlowInvariance, PTL

-----------------------------------------------------------------------------
(* What the caller has been told.                                          *)

\* Who is connected, or whose flow has ended, has had a final response, but for
\* the silent ends; and who rings a phone beside a dialog, or after one, does so
\* after the caller had it.
AnswerInv ==
  /\ talk # "none" => ~Open
  /\ walk \in {"dialog", "end480", "close480"} \union Answering => ~Open
  /\ walk \in {"finish", "path200", "end200", "close200", "end500", "close500", "done"} =>
       ~Open \/ silent
  /\ walk \in {"fork", "take"} \union Connecting => talk = "none" \/ rungOn

LEMMA AnswerStep ==
  FlowTypeOK /\ ModeInv /\ TalkInv /\ AnswerInv /\ [FlowNext]_flowVars => AnswerInv'
<1> SUFFICES ASSUME FlowTypeOK, ModeInv, TalkInv, AnswerInv, [FlowNext]_flowVars
             PROVE  AnswerInv'
  OBVIOUS
<1> USE DEF AnswerInv, Open, Connecting, Answering, callVars, ringVars, partyVars, hangVars,
            rowVars, flowHistory
<1>1. CASE LoadFlow \/ EnterNode \/ FollowEdge \/ TransferNode
  BY <1>1, FlagFacts DEF LoadFlow, EnterNode, FollowEdge, TransferNode, WalkGoes
<1>2. CASE HangupNode
  BY <1>2 DEF HangupNode, WalkGoes, HangupCall, Answer
<1>3. CASE ConferenceNode \/ RefuseCaller
  BY <1>3 DEF ConferenceNode, RefuseCaller, WalkGoes, Answer
<1>4. CASE ReadForPath \/ ReadForEnd \/ ReadForFlowAnswer
  BY <1>4 DEF ReadForPath, ReadForEnd, ReadForFlowAnswer, WalkGoes, ReadCopy
<1>5. CASE WritePath
  BY <1>5 DEF WritePath, WalkGoes, Answer, WriteBack, WriteFails
<1>6. CASE WriteEnd
  BY <1>6 DEF WriteEnd, WalkGoes, WriteBack, WriteFails
<1>7. CASE LookupPhones
  BY <1>7, TypeFacts, ReturnFacts DEF LookupPhones, WalkGoes, Expired
<1>8. CASE GatherMembers
  BY <1>8, TypeFacts, ReturnFacts DEF GatherMembers, WalkGoes, Expired
<1>9. CASE AwaitPush
  BY <1>9, TypeFacts, ReturnFacts DEF AwaitPush, WalkGoes
<1>10. CASE AllocateForRing
  BY <1>10, TypeFacts, ReturnFacts DEF AllocateForRing, WalkGoes
<1>11. CASE AddPending
  BY <1>11 DEF AddPending, WalkGoes
<1>12. CASE ForkReturns \/ TrunksReturn
  BY <1>12 DEF ForkReturns, TrunksReturn, WalkGoes, Expired, InviteOutcomes, AuthOutcomes
<1>13. CASE TakePendingRing
  BY <1>13, TypeFacts, ReturnFacts DEF TakePendingRing, WalkGoes, Freed, RingOutcome
<1>14. CASE Revive
  BY <1>14, TypeFacts, ReturnFacts DEF Revive, WalkGoes, Freed
<1>15. CASE SelectForFollowMe
  BY <1>15 DEF SelectForFollowMe, WalkGoes
<1>16. CASE DropLosers
  BY <1>16, TypeFacts DEF ModeInv, TalkInv, DropLosers, WalkGoes
<1>17. CASE AckPhone
  BY <1>17, TypeFacts, ReturnFacts DEF AckPhone, WalkGoes, Freed
<1>18. CASE Confirm
  BY <1>18, TypeFacts, ReturnFacts DEF Confirm, WalkGoes, Freed, Decline
<1>19. CASE CompleteRing
  BY <1>19 DEF CompleteRing, WalkGoes, Key
<1>20. CASE RelayOK
  BY <1>20, TypeFacts, ReturnFacts DEF RelayOK, WalkGoes, Answer, Freed
<1>21. CASE CreateFlowDialog
  BY <1>21 DEF CreateFlowDialog, WalkGoes
<1>22. CASE WriteFlowAnswer
  BY <1>22, TypeFacts, ReturnFacts DEF WriteFlowAnswer, WriteBack, WriteFails
<1>23. ASSUME NEW n \in Numbers, LegAllocates(n) \/ LegDials(n) \/ CollectLeg(n)
       PROVE  AnswerInv'
  BY <1>23 DEF LegAllocates, LegDials, CollectLeg, LegGoes
<1>24. CASE SendFlowHangup \/ HandleFlowCancel \/ HandleFlowBye
  BY <1>24 DEF SendFlowHangup, HandleFlowCancel, HandleFlowBye, HangGoes
<1>25. CASE FreeCancelled
  BY <1>25 DEF FreeCancelled, Answer, HangGoes
<1>26. CASE ReleaseFlowMedia \/ DropDialog
  BY <1>26 DEF ReleaseFlowMedia, DropDialog, HangGoes
<1>27. CASE ReadForHangup \/ WriteHangup
  BY <1>27 DEF ReadForHangup, WriteHangup, ReadCopy, WriteBack, WriteFails, HangGoes
<1>28. CASE ReapFlowSession
  BY <1>28 DEF ReapFlowSession
<1>29. CASE UNCHANGED flowVars
  BY <1>29 DEF flowVars
<1> QED
  BY <1>1, <1>2, <1>3, <1>4, <1>5, <1>6, <1>7, <1>8, <1>9, <1>10, <1>11, <1>12, <1>13, <1>14,
     <1>15, <1>16, <1>17, <1>18, <1>19, <1>20, <1>21, <1>22, <1>23, <1>24, <1>25, <1>26, <1>27,
     <1>28, <1>29, Steps

LEMMA AnswerInvariance == FlowSpec => []AnswerInv
<1>1. FlowInit => AnswerInv
  BY DEF FlowInit, AnswerInv, Answering, Connecting
<1>2. FlowTypeOK /\ FlowInv => FlowTypeOK /\ ModeInv /\ TalkInv
  BY DEF FlowInv
<1> QED
  BY <1>1, <1>2, AnswerStep, FlowInvariance, PTL DEF FlowSpec

\* Whoever rings, cancels or hangs up: a flow or a follow-me that has ended has
\* answered its caller, if it could be loaded and was not a transfer.
THEOREM FlowExitsAnswer == FlowSpec => []FlowExitAnswers
<1>1. AnswerInv => FlowExitAnswers
  BY DEF AnswerInv, FlowExitAnswers
<1> QED
  BY <1>1, AnswerInvariance, PTL

\* A handler that ends the dialog has the caller told, or was asked by it; so no
\* dialog that is over has a caller who is up, unless HangupCall dropped it; and
\* a phone that is being connected, or in the dialog, is up or has hung up itself.
CallerInv ==
  /\ hang \in {"media", "drop"} => caller = "gone"
  /\ caller = "up" /\ talk = "over" => stranded
  /\ rungOn \/ phone \in {"up", "left"}
       \/ (walk \notin {"confirm", "complete", "relay", "dialog"} /\ ~(caller = "up" /\ talk = "active"))

LEMMA CallerStep ==
  FlowTypeOK /\ ModeInv /\ TalkInv /\ AnswerInv /\ CallerInv /\ [FlowNext]_flowVars => CallerInv'
<1> SUFFICES ASSUME FlowTypeOK, ModeInv, TalkInv, AnswerInv, CallerInv, [FlowNext]_flowVars
             PROVE  CallerInv'
  OBVIOUS
<1> USE DEF CallerInv, callVars, ringVars, partyVars, hangVars, rowVars, flowHistory
<1>1. CASE LoadFlow \/ EnterNode \/ FollowEdge \/ TransferNode
  BY <1>1 DEF LoadFlow, EnterNode, FollowEdge, TransferNode, WalkGoes
<1>2. CASE HangupNode
  BY <1>2, TypeFacts DEF AnswerInv, HangupNode, WalkGoes, HangupCall, Answer, Open
<1>3. CASE ConferenceNode \/ RefuseCaller
  BY <1>3, TypeFacts DEF AnswerInv, ConferenceNode, RefuseCaller, WalkGoes, Answer, Open
<1>4. CASE ReadForPath \/ ReadForEnd \/ ReadForFlowAnswer
  BY <1>4 DEF ReadForPath, ReadForEnd, ReadForFlowAnswer, WalkGoes, ReadCopy
<1>5. CASE WritePath
  BY <1>5, TypeFacts DEF AnswerInv, WritePath, WalkGoes, Answer, Open, WriteBack, WriteFails
<1>6. CASE WriteEnd
  BY <1>6 DEF WriteEnd, WalkGoes, WriteBack, WriteFails
<1>7. CASE LookupPhones \/ GatherMembers \/ AwaitPush \/ AllocateForRing
  BY <1>7, TypeFacts, ReturnTypes DEF LookupPhones, GatherMembers, AwaitPush, AllocateForRing, WalkGoes
<1>8. CASE AddPending
  BY <1>8, TypeFacts DEF AddPending, WalkGoes
<1>9. CASE ForkReturns \/ TrunksReturn
  BY <1>9, TypeFacts DEF AnswerInv, Connecting, ForkReturns, TrunksReturn, WalkGoes
<1>10. CASE TakePendingRing
  <2>1. /\ walk = "take" /\ walk' \notin {"confirm", "complete", "relay", "dialog"}
        /\ UNCHANGED <<hang, caller, talk, stranded, rungOn>>
    BY <1>10, TypeFacts, ReturnTypes DEF TakePendingRing, WalkGoes
  <2> QED
    BY <2>1 DEF AnswerInv
<1>11. CASE Revive
  BY <1>11, TypeFacts, ReturnTypes DEF Revive, WalkGoes
<1>12. CASE SelectForFollowMe \/ DropLosers
  BY <1>12 DEF SelectForFollowMe, DropLosers, WalkGoes
<1>13. CASE AckPhone \/ Confirm
  <2>1. /\ walk \in Connecting /\ UNCHANGED <<hang, caller, talk, stranded, rungOn>>
        /\ \/ walk' \notin {"confirm", "complete", "relay", "dialog"}
           \/ phone' = "up"
           \/ walk = "confirm" /\ UNCHANGED phone
    BY <1>13, TypeFacts, ReturnTypes DEF AckPhone, Confirm, WalkGoes, Connecting
  <2> QED
    BY <2>1 DEF AnswerInv
<1>14. CASE CompleteRing
  BY <1>14 DEF CompleteRing, WalkGoes
<1>15. CASE RelayOK
  <2>1. /\ walk = "relay" /\ UNCHANGED <<hang, talk, phone, rungOn>>
        /\ \/ walk' = "dialog" /\ (caller' = caller \/ Open) /\ stranded' = stranded
           \/ UNCHANGED caller /\ stranded' = TRUE
    BY <1>15 DEF RelayOK, Answer, WalkGoes
  <2> QED
    BY <2>1 DEF AnswerInv, Connecting, Open
<1>16. CASE CreateFlowDialog
  BY <1>16 DEF CreateFlowDialog, WalkGoes
<1>17. CASE WriteFlowAnswer
  BY <1>17, TypeFacts, ReturnTypes DEF WriteFlowAnswer, WriteBack, WriteFails
<1>18. ASSUME NEW n \in Numbers, LegAllocates(n) \/ LegDials(n) PROVE CallerInv'
  BY <1>18 DEF LegAllocates, LegDials
<1>19. ASSUME NEW n \in Numbers, CollectLeg(n) PROVE CallerInv'
  <2>1. walk = "collect" /\ mode # "flow" /\ UNCHANGED <<walk, hang, caller, talk, stranded, rungOn>>
    BY <1>19, TypeFacts DEF CollectLeg, ModeInv
  <2> QED
    BY <2>1 DEF TalkInv, Answering
<1>20. CASE SendFlowHangup
  BY <1>20 DEF SendFlowHangup, HangGoes
<1>21. CASE HandleFlowCancel
  BY <1>21, TypeFacts DEF AnswerInv, Connecting, ModeInv, HandleFlowCancel, HangGoes
<1>22. CASE FreeCancelled
  BY <1>22 DEF FreeCancelled, Answer, Open, HangGoes
<1>23. CASE HandleFlowBye
  BY <1>23, TypeFacts DEF AnswerInv, Connecting, HandleFlowBye, HangGoes
<1>24. CASE ReleaseFlowMedia \/ DropDialog
  BY <1>24 DEF ReleaseFlowMedia, DropDialog, HangGoes
<1>25. CASE ReadForHangup
  BY <1>25 DEF ReadForHangup, HangGoes
<1>26. CASE WriteHangup
  BY <1>26 DEF WriteHangup, HangGoes
<1>27. CASE ReapFlowSession
  BY <1>27 DEF ReapFlowSession
<1>28. CASE UNCHANGED flowVars
  BY <1>28 DEF flowVars
<1> QED
  BY <1>1, <1>2, <1>3, <1>4, <1>5, <1>6, <1>7, <1>8, <1>9, <1>10, <1>11, <1>12, <1>13, <1>14,
     <1>15, <1>16, <1>17, <1>18, <1>19, <1>20, <1>21, <1>22, <1>23, <1>24, <1>25, <1>26, <1>27,
     <1>28, Steps

\* Whichever of the dialog's hangups comes first, and whenever: a caller who is up
\* is not left in a dialog that is over, and whom he talks to is up, or has hung
\* up with a BYE that was refused.
THEOREM EveryCallerTold == FlowSpec => []CallerTold
<1>1. FlowInit => CallerInv
  BY DEF FlowInit, CallerInv
<1>2. FlowTypeOK /\ FlowInv => ModeInv /\ TalkInv
  BY DEF FlowInv
<1>3. CallerInv => CallerTold
  BY DEF CallerInv, CallerTold
<1> QED
  BY <1>1, <1>2, <1>3, CallerStep, AnswerInvariance, FlowInvariance, PTL DEF FlowSpec

\* A flow or a follow-me that is over has told each side what became of the other,
\* as far as its BYE was accepted, and its caller what became of the call.
THEOREM OutcomeTold == FlowSpec => []PartiesTold
BY EveryPhoneTold, EveryCallerTold, FlowExitsAnswer, PTL DEF PartiesTold

-----------------------------------------------------------------------------
(* The life of a call that a flow answers.                                 *)

\* FlowPhase, line by line.
PhaseTable ==
  /\ talk = "over" => FlowPhase = "cleared"
  /\ talk = "active" => FlowPhase = "active"
  /\ talk = "none" /\ caller \in {"up", "gone"} => FlowPhase = "connected"
  /\ talk = "none" /\ caller = "refused" => FlowPhase = "refused"
  /\ talk = "none" /\ Open => FlowPhase = IF walk \in {"load", "trunks"} THEN "idle" ELSE "setup"

LEMMA PhaseFacts == FlowTypeOK => PhaseTable
BY DEF FlowTypeOK, PhaseTable, FlowPhase, Open

\* How the phase may move.
PhaseMove ==
  \/ FlowPhase' = FlowPhase
  \/ FlowPhase = "idle" /\ FlowPhase' = "setup"
  \/ FlowPhase \in {"idle", "setup"} /\ FlowPhase' = "refused"
  \/ FlowPhase = "setup" /\ FlowPhase' = "connected"
  \/ FlowPhase = "connected" /\ FlowPhase' = "active"
  \/ FlowPhase = "active" /\ FlowPhase' = "cleared"
  \/ ComesBack

\* Steps that neither answer the caller nor touch the dialog.
Aside ==
  /\ UNCHANGED <<talk, caller>>
  /\ walk' \in {"load", "trunks"} => walk' = walk

\* Steps that answer the caller, who may have been answered before.
Answers ==
  /\ UNCHANGED talk
  /\ walk \notin {"load", "trunks"} /\ walk' \notin {"load", "trunks"}
  /\ \E status \in {200, 480, 486, 487, 500} : Answer(status)

LEMMA MoveFacts ==
  ASSUME FlowTypeOK, PhaseTable, PhaseTable', Aside \/ Answers
  PROVE  PhaseMove
<1>1. /\ talk \in {"none", "active", "over"}
      /\ caller \in {"calling", "cancelling", "up", "gone", "refused"}
  BY DEF FlowTypeOK
<1>2. CASE Aside
  BY <1>1, <1>2 DEF Aside, PhaseTable, PhaseMove, Open
<1>3. CASE Answers
  <2>1. caller' = caller \/ (Open /\ caller' \in {"up", "refused"})
    BY <1>3 DEF Answers, Answer
  <2> QED
    BY <1>1, <1>3, <2>1 DEF Answers, PhaseTable, PhaseMove, Open
<1> QED
  BY <1>2, <1>3

\* The walker and the handler of a CANCEL or BYE move the call on as
\* CallLifecycle says.
LEMMA PhaseStep ==
  /\ FlowTypeOK /\ PhaseTable /\ PhaseTable'
  /\ ModeInv /\ CancelInv /\ AnswerInv /\ [FlowNext]_flowVars
  => PhaseMove
<1> SUFFICES ASSUME FlowTypeOK, PhaseTable, PhaseTable', ModeInv, CancelInv, AnswerInv,
                    [FlowNext]_flowVars
             PROVE  PhaseMove
  OBVIOUS
<1> USE DEF callVars, ringVars, partyVars, hangVars, rowVars, flowHistory, Aside, Answers
<1>1. CASE LoadFlow \/ EnterNode \/ FollowEdge \/ TransferNode
  <2>1. Aside
    BY <1>1 DEF LoadFlow, EnterNode, FollowEdge, TransferNode, WalkGoes
  <2> QED
    BY <2>1, MoveFacts
<1>2. CASE HangupNode
  <2>1. CASE talk = "active"
    BY <1>2, <2>1 DEF HangupNode, HangupCall, PhaseTable, PhaseMove
  <2>2. CASE talk # "active"
    <3>1. Answers
      BY <1>2, <2>2 DEF HangupNode, HangupCall, WalkGoes
    <3> QED
      BY <3>1, MoveFacts
  <2> QED
    BY <2>1, <2>2
<1>3. CASE ConferenceNode \/ RefuseCaller
  <2>1. Aside \/ Answers
    BY <1>3 DEF ConferenceNode, RefuseCaller, WalkGoes
  <2> QED
    BY <2>1, MoveFacts
<1>4. CASE ReadForPath \/ ReadForEnd \/ ReadForFlowAnswer \/ WriteEnd
  <2>1. Aside
    BY <1>4 DEF ReadForPath, ReadForEnd, ReadForFlowAnswer, WriteEnd, WalkGoes
  <2> QED
    BY <2>1, MoveFacts
<1>5. CASE WritePath
  <2>1. Aside \/ Answers
    BY <1>5 DEF WritePath, WalkGoes
  <2> QED
    BY <2>1, MoveFacts
<1>6. CASE LookupPhones \/ GatherMembers \/ AwaitPush \/ AllocateForRing
  <2>1. Aside
    BY <1>6, ReturnTypes DEF LookupPhones, GatherMembers, AwaitPush, AllocateForRing, WalkGoes
  <2> QED
    BY <2>1, MoveFacts
<1>7. CASE AddPending \/ ForkReturns \/ TrunksReturn \/ SelectForFollowMe \/ DropLosers
           \/ CompleteRing
  <2>1. Aside
    BY <1>7 DEF AddPending, ForkReturns, TrunksReturn, SelectForFollowMe, DropLosers,
       CompleteRing, WalkGoes
  <2> QED
    BY <2>1, MoveFacts
<1>8. CASE TakePendingRing \/ Revive
  <2>1. Aside
    BY <1>8, ReturnTypes DEF TakePendingRing, Revive, WalkGoes
  <2> QED
    BY <2>1, MoveFacts
<1>9. CASE AckPhone \/ Confirm
  <2>1. Aside
    BY <1>9, ReturnTypes DEF AckPhone, Confirm, WalkGoes
  <2> QED
    BY <2>1, MoveFacts
<1>10. CASE RelayOK
  <2>1. Aside \/ Answers
    BY <1>10, ReturnTypes DEF RelayOK, WalkGoes
  <2> QED
    BY <2>1, MoveFacts
<1>11. CASE CreateFlowDialog
  <2>1. /\ walk = "dialog" /\ talk' = "active" /\ ~Open
        /\ caller = "refused" \/ talk # "none" => rungOn
        /\ rungOn' = rungOn
    BY <1>11 DEF CreateFlowDialog, AnswerInv, CancelInv, Connecting
  <2> QED
    BY <2>1 DEF PhaseTable, PhaseMove, ComesBack, FlowTypeOK, Open
<1>12. CASE WriteFlowAnswer
  <2>1. Aside
    BY <1>12, ReturnTypes DEF WriteFlowAnswer
  <2> QED
    BY <2>1, MoveFacts
<1>13. ASSUME NEW n \in Numbers, LegAllocates(n) \/ LegDials(n) \/ CollectLeg(n)
       PROVE  PhaseMove
  <2>1. Aside
    BY <1>13 DEF LegAllocates, LegDials, CollectLeg
  <2> QED
    BY <2>1, MoveFacts
<1>14. CASE SendFlowHangup
  <2>1. /\ UNCHANGED <<walk, talk>>
        /\ \/ UNCHANGED caller
           \/ caller = "calling" /\ caller' = "cancelling"
           \/ caller = "up" /\ caller' = "gone"
    BY <1>14 DEF SendFlowHangup
  <2> QED
    BY <2>1 DEF PhaseTable, PhaseMove, FlowTypeOK, Open
<1>15. CASE HandleFlowBye \/ HandleFlowCancel
  <2>1. UNCHANGED <<walk, talk>> /\ (talk = "active" \/ UNCHANGED caller)
    BY <1>15 DEF HandleFlowBye, HandleFlowCancel
  <2> QED
    BY <2>1 DEF PhaseTable, PhaseMove, FlowTypeOK, Open
<1>16. CASE FreeCancelled
  <2>1. /\ UNCHANGED <<walk, talk>>
        /\ caller' = caller \/ (Open /\ caller' = "refused")
    BY <1>16 DEF FreeCancelled, Answer
  <2> QED
    BY <2>1 DEF PhaseTable, PhaseMove, FlowTypeOK, Open
<1>17. CASE DropDialog
  <2>1. /\ UNCHANGED <<walk, caller>>
        /\ talk' = talk \/ (talk = "active" /\ talk' = "over")
    BY <1>17 DEF DropDialog
  <2> QED
    BY <2>1 DEF PhaseTable, PhaseMove, FlowTypeOK, Open
<1>18. CASE ReleaseFlowMedia \/ ReadForHangup \/ WriteHangup \/ ReapFlowSession
  <2>1. Aside
    BY <1>18 DEF ReleaseFlowMedia, ReadForHangup, WriteHangup, ReapFlowSession
  <2> QED
    BY <2>1, MoveFacts
<1>19. CASE UNCHANGED flowVars
  <2>1. Aside
    BY <1>19 DEF flowVars
  <2> QED
    BY <2>1, MoveFacts
<1> QED
  BY <1>1, <1>2, <1>3, <1>4, <1>5, <1>6, <1>7, <1>8, <1>9, <1>10, <1>11, <1>12, <1>13, <1>14,
     <1>15, <1>16, <1>17, <1>18, <1>19, Steps

\* Each move is one of CallLifecycle's.
LEMMA LifecycleStep ==
  ASSUME PhaseMove
  PROVE  [Lifecycle!Next \/ ComesBack]_FlowPhase
<1> DEFINE phases == [c \in {CallSession} |-> FlowPhase]
<1>1. ASSUME NEW from, NEW to, FlowPhase \in from, FlowPhase' = to
      PROVE  Lifecycle!Move(CallSession, from, to)
  <2>1. phases[CallSession] \in from /\ phases' = [phases EXCEPT ![CallSession] = to]
    BY <1>1
  <2> QED
    BY <2>1 DEF Lifecycle!Move
<1>2. CASE FlowPhase = "idle" /\ FlowPhase' = "setup"
  <2>1. Lifecycle!Begin(CallSession)
    BY <1>1, <1>2 DEF Lifecycle!Begin
  <2> QED
    BY <2>1 DEF Lifecycle!Next
<1>3. CASE FlowPhase \in {"idle", "setup"} /\ FlowPhase' = "refused"
  <2>1. Lifecycle!Refuse(CallSession)
    BY <1>1, <1>3 DEF Lifecycle!Refuse
  <2> QED
    BY <2>1 DEF Lifecycle!Next
<1>4. CASE FlowPhase = "setup" /\ FlowPhase' = "connected"
  <2>1. Lifecycle!Connect(CallSession)
    BY <1>1, <1>4 DEF Lifecycle!Connect
  <2> QED
    BY <2>1 DEF Lifecycle!Next
<1>5. CASE FlowPhase = "connected" /\ FlowPhase' = "active"
  <2>1. Lifecycle!Activate(CallSession)
    BY <1>1, <1>5 DEF Lifecycle!Activate
  <2> QED
    BY <2>1 DEF Lifecycle!Next
<1>6. CASE FlowPhase = "active" /\ FlowPhase' = "cleared"
  <2>1. Lifecycle!Clear(CallSession)
    BY <1>1, <1>6 DEF Lifecycle!Clear
  <2> QED
    BY <2>1 DEF Lifecycle!Next
<1> QED
  BY <1>2, <1>3, <1>4, <1>5, <1>6 DEF PhaseMove

\* A flow of any nodes and a follow-me of either kind live the life of a call:
\* refused once or connected once, cleared once, and over for good unless a phone
\* was rung after the CANCEL or the BYE.
THEOREM FlowRefinement == FlowSpec => FlowLifecycle
<1>1. FlowInit => Lifecycle!Init
  BY DEF FlowInit, Lifecycle!Init, FlowPhase, Open
<1>2. FlowTypeOK /\ FlowInv => FlowTypeOK /\ ModeInv /\ CancelInv
  BY DEF FlowInv
<1>3. PhaseMove => [Lifecycle!Next \/ ComesBack]_FlowPhase
  BY LifecycleStep
<1> QED
  BY <1>1, <1>2, <1>3, PhaseFacts, PhaseStep, FlowInvariance, AnswerInvariance, PTL
     DEF FlowSpec, FlowLifecycle

-----------------------------------------------------------------------------
(* The digits that the nodes of a flow collect.                            *)

\* The steps of a collection, one by one.
LEMMA DigitSteps ==
  ASSUME DigitNext
  PROVE  \/ AcquireBuffer \/ TakeDigit \/ CollectionTimesOut \/ Judge \/ Confirmed \/ NodeExpires
         \/ \E p \in Presses : \/ PressKey(p) \/ FindBuffer(p) \/ SendDigit(p)
                               \/ SendEnds(p) \/ LosePacket(p) \/ CollectEnd(p)
BY DEF DigitNext, CollectorStep

\* The collector remembers the last key press that it emitted.
LastInv ==
  /\ last = 0 => \A p \in Presses : counted[p] = 0
  /\ last # 0 => last \in Presses /\ counted[last] > 0

\* The channel in the map is that of the attempt which collects, and a digit in
\* an attempt's channel was found a place there by its handler during it.
ChannelInv ==
  /\ stage = "acquire" => buffer = 0
  /\ stage \in {"collect", "judge"} => buffer = try
  /\ buffer # 0 => buffer = try
  /\ use # "confirm" => stage # "listen"
  /\ use = "confirm" => stage \in {"listen", "done"} /\ got = <<>>
  /\ \A p \in Presses : found[p] # 0 => during[p] = found[p]
  /\ \A p \in Presses : press[p] = "found" => found[p] # 0
  /\ use # "confirm" => \A t \in Tries : \A i \in 1 .. Len(queued[t]) :
       press[queued[t][i]] = "gone" /\ during[queued[t][i]] = t
  /\ \A i \in 1 .. Len(got) : press[got[i]] = "gone"

\* An End packet is counted at most once for each time it is sent.
PacketInv == \A p \in Presses :
  /\ counted[p] + endPackets[p] <= 3
  /\ press[p] = "none" => counted[p] = 0 /\ endPackets[p] = 0

\* Attempts and presses are numbers.
LEMMA PressNumbers ==
  /\ Tries \subseteq Nat \ {0} /\ Presses \subseteq Nat \ {0} /\ 1 \in Tries
  /\ \A t \in Tries : t <= MaxTries => t + 1 \in Tries
BY DigitAssumption DEF Tries, Presses

\* The types, variable by variable.
LEMMA DigitFacts ==
  ASSUME DigitTypeOK
  PROVE  /\ stage \in {"acquire", "collect", "judge", "listen", "done"}
         /\ try \in Tries /\ buffer \in Tries \union {0}
         /\ queued \in [Tries -> Seq(Presses)] /\ got \in Seq(Presses)
         /\ press \in [Presses -> {"none", "sent", "found", "gone"}]
         /\ found \in [Presses -> Tries \union {0}] /\ during \in [Presses -> Tries \union {0}]
         /\ endPackets \in [Presses -> 0 .. 3] /\ last \in Presses \union {0}
         /\ counted \in [Presses -> 0 .. 3]
BY DEF DigitTypeOK

\* A digit more in a channel, or one less.
LEMMA AppendFacts ==
  ASSUME NEW S, NEW s \in Seq(S), NEW x \in S
  PROVE  /\ Append(s, x) \in Seq(S) /\ Len(s) \in Nat /\ Len(Append(s, x)) = Len(s) + 1
         /\ Append(s, x)[Len(s) + 1] = x
         /\ \A i \in 1 .. Len(s) : Append(s, x)[i] = s[i] /\ s[i] \in S
OBVIOUS

LEMMA TailFacts ==
  ASSUME NEW S, NEW s \in Seq(S), s # <<>>
  PROVE  /\ Tail(s) \in Seq(S) /\ Head(s) \in S /\ Len(s) \in Nat /\ 1 \in 1 .. Len(s) /\ Head(s) = s[1]
         /\ \A i \in 1 .. Len(Tail(s)) : i + 1 \in 1 .. Len(s) /\ Tail(s)[i] = s[i + 1]
OBVIOUS

\* Each action keeps the types.
LEMMA DigitTypeStep == DigitTypeOK /\ ChannelInv /\ PacketInv /\ [DigitNext]_digitVars => (DigitTypeOK /\ PacketInv)'
<1> SUFFICES ASSUME DigitTypeOK, ChannelInv, PacketInv, [DigitNext]_digitVars PROVE (DigitTypeOK /\ PacketInv)'
  OBVIOUS
<1> USE DEF flowSide, pressSide, wireSide
<1>1. CASE AcquireBuffer
  BY <1>1, PressNumbers DEF AcquireBuffer, Ends, DigitTypeOK, PacketInv
<1>2. CASE TakeDigit
  <2>1. /\ stage = "collect" /\ queued[buffer] # <<>>
        /\ queued' = [queued EXCEPT ![buffer] = Tail(queued[buffer])]
        /\ got' = got \/ got' = Append(got, Head(queued[buffer]))
        /\ stage' \in {"judge", "collect"}
        /\ UNCHANGED <<use, try, buffer, verdict, overdue, digit, press, found, during, endPackets, last, counted>>
    BY <1>2 DEF TakeDigit
  <2>2. buffer = try /\ use # "confirm"
    BY <2>1 DEF ChannelInv
  <2>3. PICK q \in Seq(Presses) : q = queued[try]
    BY DigitFacts
  <2>4. /\ q # <<>> /\ queued' = [queued EXCEPT ![try] = Tail(q)]
        /\ got' = got \/ got' = Append(got, Head(q))
    BY <2>1, <2>2, <2>3
  <2>5. /\ Tail(q) \in Seq(Presses) /\ Head(q) \in Presses /\ Len(q) \in Nat /\ 1 \in 1 .. Len(q) /\ Head(q) = q[1]
        /\ \A i \in 1 .. Len(Tail(q)) : i + 1 \in 1 .. Len(q) /\ Tail(q)[i] = q[i + 1]
    BY <2>4, TailFacts
  <2>6. queued' \in [Tries -> Seq(Presses)]
    BY <2>4, <2>5, DigitFacts
  <2>7. got' \in Seq(Presses)
    <3>1. Append(got, Head(q)) \in Seq(Presses)
      BY ONLY <2>5, DigitTypeOK, AppendFacts, DigitFacts
    <3>2. got \in Seq(Presses)
      BY DigitFacts
    <3> QED
      BY ONLY <2>4, <3>1, <3>2
  <2> QED
    BY <2>1, <2>6, <2>7 DEF DigitTypeOK, PacketInv
<1>3. CASE CollectionTimesOut
  BY <1>3, PressNumbers DEF CollectionTimesOut, DigitTypeOK, PacketInv
<1>4. CASE Judge
  <2>1. TriesLeft => try + 1 \in Tries
    BY DigitAssumption, PressNumbers, DigitFacts DEF TriesLeft, Tries
  <2>2. try' \in Tries
    BY <1>4, <2>1, DigitFacts DEF Judge, Again, Ends
  <2>3. /\ stage' \in {"acquire", "done"} /\ buffer' = 0
        /\ verdict' \in {verdict, "next", "match", "refused", "timeout", "invalid"}
        /\ UNCHANGED <<use, got, overdue, queued, digit, press, found, during, endPackets, last, counted>>
    BY <1>4 DEF Judge, Released, Again, Ends
  <2> QED
    BY <2>2, <2>3 DEF DigitTypeOK, PacketInv
<1>5. CASE Confirmed
  BY <1>5, PressNumbers DEF Confirmed, Ends, DigitTypeOK, PacketInv
<1>6. CASE NodeExpires
  BY <1>6, PressNumbers DEF NodeExpires, DigitTypeOK, PacketInv
<1>7. ASSUME NEW p \in Presses, PressKey(p) PROVE (DigitTypeOK /\ PacketInv)'
  BY <1>7, PressNumbers DEF PressKey, DigitTypeOK, PacketInv
<1>8. ASSUME NEW p \in Presses, FindBuffer(p) PROVE (DigitTypeOK /\ PacketInv)'
  BY <1>8, PressNumbers DEF FindBuffer, DigitTypeOK, PacketInv
<1>9. ASSUME NEW p \in Presses, SendDigit(p) PROVE (DigitTypeOK /\ PacketInv)'
  <2>1. /\ press[p] = "found" /\ press' = [press EXCEPT ![p] = "gone"]
        /\ queued' = queued \/ queued' = [queued EXCEPT ![found[p]] = Append(queued[found[p]], p)]
        /\ UNCHANGED <<use, stage, try, buffer, got, verdict, overdue, digit, found, during, endPackets, last, counted>>
    BY <1>9 DEF SendDigit
  <2>2. found[p] \in Tries /\ during[p] = found[p]
    BY <1>9, <2>1, DigitFacts DEF ChannelInv
  <2>3. PICK q \in Seq(Presses) : q = queued[found[p]]
    BY <2>2, DigitFacts
  <2>4. /\ Append(q, p) \in Seq(Presses) /\ Len(q) \in Nat /\ Len(Append(q, p)) = Len(q) + 1
        /\ Append(q, p)[Len(q) + 1] = p
        /\ \A i \in 1 .. Len(q) : Append(q, p)[i] = q[i] /\ q[i] \in Presses
    BY <1>9, AppendFacts
  <2>5. queued' = queued \/ queued' = [queued EXCEPT ![found[p]] = Append(q, p)]
    BY <2>1, <2>3
  <2>6. queued' \in [Tries -> Seq(Presses)]
    BY <2>2, <2>4, <2>5, DigitFacts
  <2>7. press' \in [Presses -> {"none", "sent", "found", "gone"}] /\ \A r \in Presses : press'[r] # press[r] => press'[r] # "none"
    BY <2>1, DigitFacts
  <2> QED
    BY <2>1, <2>6, <2>7 DEF DigitTypeOK, PacketInv
<1>10. ASSUME NEW p \in Presses, SendEnds(p) PROVE (DigitTypeOK /\ PacketInv)'
  BY <1>10, PressNumbers DEF SendEnds, DigitTypeOK, PacketInv
<1>11. ASSUME NEW p \in Presses, LosePacket(p) PROVE (DigitTypeOK /\ PacketInv)'
  <2>1. /\ endPackets[p] > 0 /\ endPackets' = [endPackets EXCEPT ![p] = endPackets[p] - 1]
        /\ UNCHANGED <<use, stage, try, buffer, got, verdict, overdue, queued, digit, press, found, during, last, counted>>
    BY <1>11 DEF LosePacket
  <2>2. PICK n \in 0 .. 3 : n = endPackets[p]
    BY <1>11, DigitFacts
  <2>3. endPackets' = [endPackets EXCEPT ![p] = n - 1] /\ n - 1 \in 0 .. 3
    BY <2>1, <2>2
  <2>4. endPackets' \in [Presses -> 0 .. 3]
    BY <2>3, DigitFacts
  <2>5. \A r \in Presses : counted[r] \in 0 .. 3 /\ endPackets[r] \in 0 .. 3
    BY DigitFacts
  <2>6. \A r \in Presses : endPackets'[r] = (IF r = p THEN n - 1 ELSE endPackets[r])
    BY <2>3, DigitFacts
  <2>7. \A r \in Presses : endPackets'[r] \in 0 .. 3 /\ endPackets'[r] <= endPackets[r]
    BY <2>2, <2>3, <2>5, <2>6
  <2>8. ASSUME NEW r \in Presses
        PROVE  /\ counted'[r] + endPackets'[r] <= 3
               /\ press'[r] = "none" => counted'[r] = 0 /\ endPackets'[r] = 0
    <3>1. counted[r] + endPackets[r] <= 3 /\ (press[r] = "none" => counted[r] = 0 /\ endPackets[r] = 0)
      BY DEF PacketInv
    <3> QED
      BY <2>1, <2>5, <2>7, <3>1
  <2>9. PacketInv'
    BY <2>8 DEF PacketInv
  <2> QED
    BY <2>1, <2>4, <2>9 DEF DigitTypeOK
<1>12. ASSUME NEW p \in Presses, CollectEnd(p) PROVE (DigitTypeOK /\ PacketInv)'
  <2>1. /\ endPackets[p] > 0 /\ endPackets' = [endPackets EXCEPT ![p] = endPackets[p] - 1]
        /\ UNCHANGED <<use, stage, try, buffer, got, verdict, overdue, digit, press, found, during>>
    BY <1>12 DEF CollectEnd
  <2>2. PICK n \in 0 .. 3 : n = endPackets[p]
    BY <1>12, DigitFacts
  <2>3. endPackets' = [endPackets EXCEPT ![p] = n - 1] /\ n - 1 \in 0 .. 3 /\ n > 0
    BY <2>1, <2>2
  <2>4. endPackets' \in [Presses -> 0 .. 3]
    BY <2>3, DigitFacts
  <2>5. PICK m \in 0 .. 3 : m = counted[p]
    BY <1>12, DigitFacts
  <2>6. m + n <= 3 /\ press[p] # "none"
    BY <1>12, <2>2, <2>3, <2>5 DEF PacketInv
  <2>7. CASE UNCHANGED <<last, counted, queued>>
    <3>1. PacketInv'
      <4>1. \A r \in Presses : counted[r] \in 0 .. 3 /\ endPackets[r] \in 0 .. 3
        BY DigitFacts
      <4>2. \A r \in Presses : endPackets'[r] = (IF r = p THEN n - 1 ELSE endPackets[r])
        BY <2>3, DigitFacts
      <4>3. \A r \in Presses : endPackets'[r] \in 0 .. 3 /\ endPackets'[r] <= endPackets[r]
        BY <2>2, <2>3, <4>1, <4>2
      <4> QED
        BY <2>1, <2>7, <4>1, <4>3 DEF PacketInv
    <3> QED
      BY <2>1, <2>4, <2>7, <3>1 DEF DigitTypeOK
  <2>8. CASE /\ last' = p /\ counted' = [counted EXCEPT ![p] = m + 1]
             /\ queued' = [queued EXCEPT ![1] = Append(queued[1], p)]
    <3>1. counted' \in [Presses -> 0 .. 3]
      BY <2>3, <2>6, <2>8, DigitFacts
    <3>2. PacketInv'
      BY <1>12, <2>1, <2>2, <2>3, <2>5, <2>6, <2>8, DigitFacts DEF PacketInv
    <3>3. PICK q \in Seq(Presses) : q = queued[1]
      BY PressNumbers, DigitFacts
    <3>4. queued' \in [Tries -> Seq(Presses)]
      BY <1>12, <2>8, <3>3, AppendFacts, DigitFacts
    <3> QED
      BY <1>12, <2>1, <2>4, <2>8, <3>1, <3>2, <3>4 DEF DigitTypeOK
  <2> QED
    BY <1>12, <2>5, <2>7, <2>8 DEF CollectEnd
<1>13. CASE UNCHANGED digitVars
  BY <1>13 DEF digitVars, DigitTypeOK, PacketInv
<1> QED
  BY <1>1, <1>2, <1>3, <1>4, <1>5, <1>6, <1>7, <1>8, <1>9, <1>10, <1>11, <1>12, <1>13, DigitSteps

\* A press that is counted again finds another one remembered, which is counted.
LEMMA LastStep == DigitTypeOK /\ LastInv /\ PressCountsOnce /\ [DigitNext]_digitVars => (LastInv /\ PressCountsOnce)'
<1> SUFFICES ASSUME DigitTypeOK, LastInv, PressCountsOnce, [DigitNext]_digitVars PROVE (LastInv /\ PressCountsOnce)'
  OBVIOUS
<1> USE DEF flowSide, pressSide, wireSide
<1>1. CASE AcquireBuffer
  BY <1>1, PressNumbers DEF AcquireBuffer, Ends, DigitTypeOK, LastInv, PressCountsOnce
<1>2. CASE TakeDigit
  BY <1>2, PressNumbers DEF TakeDigit, DigitLimit, DigitTypeOK, LastInv, PressCountsOnce
<1>3. CASE CollectionTimesOut
  BY <1>3, PressNumbers DEF CollectionTimesOut, DigitTypeOK, LastInv, PressCountsOnce
<1>4. CASE Judge
  BY <1>4, PressNumbers DEF Judge, Released, Matches, Again, TriesLeft, Ends, DigitTypeOK,
     LastInv, PressCountsOnce
<1>5. CASE Confirmed
  BY <1>5, PressNumbers DEF Confirmed, Ends, DigitTypeOK, LastInv, PressCountsOnce
<1>6. CASE NodeExpires
  BY <1>6, PressNumbers DEF NodeExpires, DigitTypeOK, LastInv, PressCountsOnce
<1>7. ASSUME NEW p \in Presses, PressKey(p) PROVE (LastInv /\ PressCountsOnce)'
  BY <1>7, PressNumbers DEF PressKey, DigitTypeOK, LastInv, PressCountsOnce
<1>8. ASSUME NEW p \in Presses, FindBuffer(p) PROVE (LastInv /\ PressCountsOnce)'
  BY <1>8, PressNumbers DEF FindBuffer, DigitTypeOK, LastInv, PressCountsOnce
<1>9. ASSUME NEW p \in Presses, SendDigit(p) PROVE (LastInv /\ PressCountsOnce)'
  BY <1>9, PressNumbers DEF SendDigit, DigitTypeOK, LastInv, PressCountsOnce
<1>10. ASSUME NEW p \in Presses, SendEnds(p) PROVE (LastInv /\ PressCountsOnce)'
  BY <1>10, PressNumbers DEF SendEnds, DigitTypeOK, LastInv, PressCountsOnce
<1>11. ASSUME NEW p \in Presses, LosePacket(p) PROVE (LastInv /\ PressCountsOnce)'
  BY <1>11, PressNumbers DEF LosePacket, DigitTypeOK, LastInv, PressCountsOnce
<1>12. ASSUME NEW p \in Presses, CollectEnd(p) PROVE (LastInv /\ PressCountsOnce)'
  <2>1. \A r \in Presses : counted[r] \in 0 .. 3
    BY DigitFacts
  <2>2. CASE UNCHANGED <<last, counted>>
    BY <2>2 DEF LastInv, PressCountsOnce
  <2>3. CASE p # last /\ last' = p /\ counted' = [counted EXCEPT ![p] = counted[p] + 1]
    <3>1. \A r \in Presses : counted'[r] = (IF r = p THEN counted[p] + 1 ELSE counted[r])
      BY <2>3, DigitFacts
    <3>2. LastInv'
      BY <1>12, <2>1, <2>3, <3>1, PressNumbers DEF LastInv
    <3>3. last # 0 => last \in Presses \ {p} /\ counted'[last] > 0
      BY <2>3, <3>1 DEF LastInv
    <3>4. \A r \in Presses : counted[r] > 0 => counted'[r] > 0
      BY <2>1, <3>1
    <3>5. ASSUME NEW r \in Presses, counted'[r] > 1
          PROVE  \E q \in Presses \ {r} : counted'[q] > 0
      <4>1. CASE r = p
        <5>1. last # 0
          BY <2>1, <3>1, <3>5, <4>1 DEF LastInv
        <5> QED
          BY <3>3, <4>1, <5>1
      <4>2. CASE r # p
        <5>1. PICK q \in Presses \ {r} : counted[q] > 0
          BY <3>1, <3>5, <4>2 DEF PressCountsOnce
        <5> QED
          BY <3>4, <5>1
      <4> QED
        BY <4>1, <4>2
    <3> QED
      BY <3>2, <3>5 DEF PressCountsOnce
  <2> QED
    BY <1>12, <2>2, <2>3 DEF CollectEnd, IsNew
<1>13. CASE UNCHANGED digitVars
  BY <1>13 DEF digitVars, DigitTypeOK, LastInv, PressCountsOnce
<1> QED
  BY <1>1, <1>2, <1>3, <1>4, <1>5, <1>6, <1>7, <1>8, <1>9, <1>10, <1>11, <1>12, <1>13, DigitSteps

\* Digits go to the channel that was in the map when their handler looked, and
\* are read only by the attempt which put it there.
LEMMA ChannelStep == DigitTypeOK /\ ChannelInv /\ DigitsOfThisAttempt /\ [DigitNext]_digitVars => (ChannelInv /\ DigitsOfThisAttempt)'
<1> SUFFICES ASSUME DigitTypeOK, ChannelInv, DigitsOfThisAttempt, [DigitNext]_digitVars PROVE (ChannelInv /\ DigitsOfThisAttempt)'
  OBVIOUS
<1> USE DEF flowSide, pressSide, wireSide
<1>1. CASE AcquireBuffer
  BY <1>1, PressNumbers DEF AcquireBuffer, Ends, DigitTypeOK, ChannelInv, DigitsOfThisAttempt
<1>2. CASE TakeDigit
  <2>1. /\ stage = "collect" /\ queued[buffer] # <<>>
        /\ queued' = [queued EXCEPT ![buffer] = Tail(queued[buffer])]
        /\ got' = got \/ got' = Append(got, Head(queued[buffer]))
        /\ stage' \in {"judge", "collect"}
        /\ UNCHANGED <<use, try, buffer, verdict, overdue, digit, press, found, during, endPackets, last, counted>>
    BY <1>2 DEF TakeDigit
  <2>2. buffer = try /\ use # "confirm"
    BY <2>1 DEF ChannelInv
  <2>3. PICK q \in Seq(Presses) : q = queued[try]
    BY DigitFacts
  <2>4. /\ q # <<>> /\ queued' = [queued EXCEPT ![try] = Tail(q)]
        /\ got' = got \/ got' = Append(got, Head(q))
    BY <2>1, <2>2, <2>3
  <2>5. /\ Tail(q) \in Seq(Presses) /\ Head(q) \in Presses /\ Len(q) \in Nat /\ 1 \in 1 .. Len(q) /\ Head(q) = q[1]
        /\ \A i \in 1 .. Len(Tail(q)) : i + 1 \in 1 .. Len(q) /\ Tail(q)[i] = q[i + 1]
    BY <2>4, TailFacts
  <2>6. \A i \in 1 .. Len(q) : press[q[i]] = "gone" /\ during[q[i]] = try
    BY <2>2, <2>3, DigitFacts DEF ChannelInv
  <2>7. \A t \in Tries : \A i \in 1 .. Len(queued'[t]) :
          press[queued'[t][i]] = "gone" /\ during[queued'[t][i]] = t
    <3> SUFFICES ASSUME NEW t \in Tries, NEW i \in 1 .. Len(queued'[t])
                 PROVE  press[queued'[t][i]] = "gone" /\ during[queued'[t][i]] = t
      OBVIOUS
    <3>1. CASE t = try
      <4>1. queued'[t] = Tail(q)
        BY <2>4, <3>1, DigitFacts
      <4> QED
        BY <2>5, <2>6, <3>1, <4>1
    <3>2. CASE t # try
      <4>1. queued'[t] = queued[t]
        BY <2>4, <3>2, DigitFacts
      <4> QED
        BY <2>2, <4>1 DEF ChannelInv
    <3> QED
      BY <3>1, <3>2
  <2>8. \A i \in 1 .. Len(got) : press[got[i]] = "gone" /\ during[got[i]] = try
    BY <2>1, DigitFacts DEF ChannelInv, DigitsOfThisAttempt
  <2>9. \A i \in 1 .. Len(got') : press[got'[i]] = "gone" /\ during[got'[i]] = try
    <3>1. CASE got' = got
      BY <2>8, <3>1
    <3>2. CASE got' = Append(got, Head(q))
      <4>1. /\ Len(got) \in Nat /\ Len(Append(got, Head(q))) = Len(got) + 1
            /\ Append(got, Head(q))[Len(got) + 1] = Head(q)
            /\ \A i \in 1 .. Len(got) : Append(got, Head(q))[i] = got[i]
        BY <2>5, AppendFacts, DigitFacts
      <4>2. press[Head(q)] = "gone" /\ during[Head(q)] = try
        BY <2>5, <2>6
      <4>3. \A i \in 1 .. Len(got) + 1 : i \in 1 .. Len(got) \/ i = Len(got) + 1
        BY <4>1
      <4> QED
        BY <2>8, <3>2, <4>1, <4>2, <4>3
    <3> QED
      BY <2>4, <3>1, <3>2
  <2>10. got' \in Seq(Presses)
    <3>1. Append(got, Head(q)) \in Seq(Presses)
      BY ONLY <2>5, DigitTypeOK, AppendFacts, DigitFacts
    <3>2. got \in Seq(Presses)
      BY DigitFacts
    <3> QED
      BY ONLY <2>4, <3>1, <3>2
  <2> QED
    BY <2>1, <2>2, <2>7, <2>9, <2>10 DEF ChannelInv, DigitsOfThisAttempt
<1>3. CASE CollectionTimesOut
  BY <1>3, PressNumbers DEF CollectionTimesOut, DigitTypeOK, ChannelInv, DigitsOfThisAttempt
<1>4. CASE Judge
  BY <1>4, PressNumbers DEF Judge, Released, Matches, Again, TriesLeft, Ends, DigitTypeOK,
     ChannelInv, DigitsOfThisAttempt
<1>5. CASE Confirmed
  BY <1>5, PressNumbers DEF Confirmed, Ends, DigitTypeOK, ChannelInv, DigitsOfThisAttempt
<1>6. CASE NodeExpires
  BY <1>6, PressNumbers DEF NodeExpires, DigitTypeOK, ChannelInv, DigitsOfThisAttempt
<1>7. ASSUME NEW p \in Presses, PressKey(p) PROVE (ChannelInv /\ DigitsOfThisAttempt)'
  BY <1>7, PressNumbers DEF PressKey, DigitTypeOK, ChannelInv, DigitsOfThisAttempt
<1>8. ASSUME NEW p \in Presses, FindBuffer(p) PROVE (ChannelInv /\ DigitsOfThisAttempt)'
  BY <1>8, PressNumbers DEF FindBuffer, DigitTypeOK, ChannelInv, DigitsOfThisAttempt
<1>9. ASSUME NEW p \in Presses, SendDigit(p) PROVE (ChannelInv /\ DigitsOfThisAttempt)'
  <2>1. /\ press[p] = "found" /\ press' = [press EXCEPT ![p] = "gone"]
        /\ queued' = queued \/ queued' = [queued EXCEPT ![found[p]] = Append(queued[found[p]], p)]
        /\ UNCHANGED <<use, stage, try, buffer, got, verdict, overdue, digit, found, during, endPackets, last, counted>>
    BY <1>9 DEF SendDigit
  <2>2. found[p] \in Tries /\ during[p] = found[p]
    BY <1>9, <2>1, DigitFacts DEF ChannelInv
  <2>3. PICK q \in Seq(Presses) : q = queued[found[p]]
    BY <2>2, DigitFacts
  <2>4. /\ Append(q, p) \in Seq(Presses) /\ Len(q) \in Nat /\ Len(Append(q, p)) = Len(q) + 1
        /\ Append(q, p)[Len(q) + 1] = p
        /\ \A i \in 1 .. Len(q) : Append(q, p)[i] = q[i] /\ q[i] \in Presses
    BY <1>9, AppendFacts
  <2>5. queued' = queued \/ queued' = [queued EXCEPT ![found[p]] = Append(q, p)]
    BY <2>1, <2>3
  <2>6. press'[p] = "gone" /\ \A r \in Presses : r # p => press'[r] = press[r]
    BY <1>9, <2>1, DigitFacts
  <2>7. use # "confirm" => \A t \in Tries : \A i \in 1 .. Len(queued'[t]) :
          press'[queued'[t][i]] = "gone" /\ during[queued'[t][i]] = t
    <3> SUFFICES ASSUME use # "confirm", NEW t \in Tries, NEW i \in 1 .. Len(queued'[t])
                 PROVE  press'[queued'[t][i]] = "gone" /\ during[queued'[t][i]] = t
      OBVIOUS
    <3>1. CASE queued'[t] = queued[t]
      <4>1. PICK s \in Seq(Presses) : s = queued[t]
        BY DigitFacts
      <4>2. i \in 1 .. Len(s) /\ s[i] \in Presses /\ press[s[i]] = "gone" /\ during[s[i]] = t
        BY <3>1, <4>1 DEF ChannelInv
      <4> QED
        BY <2>6, <3>1, <4>1, <4>2
    <3>2. CASE t = found[p] /\ queued'[t] = Append(q, p)
      <4>1. i = Len(q) + 1 \/ i \in 1 .. Len(q)
        BY <2>4, <3>2
      <4>2. CASE i = Len(q) + 1
        BY <2>2, <2>4, <2>6, <3>2, <4>2
      <4>3. CASE i \in 1 .. Len(q)
        <5>1. queued'[t][i] = q[i] /\ q[i] \in Presses /\ press[q[i]] = "gone" /\ during[q[i]] = t
          BY <2>3, <2>4, <3>2, <4>3 DEF ChannelInv
        <5> QED
          BY <2>6, <5>1
      <4> QED
        BY <4>1, <4>2, <4>3
    <3> QED
      BY <2>2, <2>5, <3>1, <3>2, DigitFacts
  <2>8. \A i \in 1 .. Len(got) : press'[got[i]] = "gone"
    <3> SUFFICES ASSUME NEW i \in 1 .. Len(got) PROVE press'[got[i]] = "gone"
      OBVIOUS
    <3>1. got[i] \in Presses /\ press[got[i]] = "gone"
      BY DigitFacts DEF ChannelInv
    <3> QED
      BY <2>6, <3>1
  <2>9. \A r \in Presses : press'[r] = "found" => found[r] # 0
    BY <2>6 DEF ChannelInv
  <2> QED
    BY <2>1, <2>7, <2>8, <2>9 DEF ChannelInv, DigitsOfThisAttempt
<1>10. ASSUME NEW p \in Presses, SendEnds(p) PROVE (ChannelInv /\ DigitsOfThisAttempt)'
  BY <1>10, PressNumbers DEF SendEnds, DigitTypeOK, ChannelInv, DigitsOfThisAttempt
<1>11. ASSUME NEW p \in Presses, LosePacket(p) PROVE (ChannelInv /\ DigitsOfThisAttempt)'
  BY <1>11, PressNumbers DEF LosePacket, DigitTypeOK, ChannelInv, DigitsOfThisAttempt
<1>12. ASSUME NEW p \in Presses, CollectEnd(p) PROVE (ChannelInv /\ DigitsOfThisAttempt)'
  <2>1. /\ stage = "listen"
        /\ UNCHANGED <<use, stage, try, buffer, got, verdict, overdue, digit, press, found, during>>
    BY <1>12 DEF CollectEnd
  <2>2. use = "confirm"
    BY <2>1 DEF ChannelInv
  <2> QED
    BY <2>1, <2>2 DEF ChannelInv, DigitsOfThisAttempt
<1>13. CASE UNCHANGED digitVars
  BY <1>13 DEF digitVars, DigitTypeOK, ChannelInv, DigitsOfThisAttempt
<1> QED
  BY <1>1, <1>2, <1>3, <1>4, <1>5, <1>6, <1>7, <1>8, <1>9, <1>10, <1>11, <1>12, <1>13, DigitSteps

LEMMA DigitInitially == DigitInit => DigitTypeOK /\ PacketInv /\ LastInv /\ ChannelInv
<1> SUFFICES ASSUME DigitInit PROVE DigitTypeOK /\ PacketInv /\ LastInv /\ ChannelInv
  OBVIOUS
<1>1. DigitTypeOK
  <2>1. <<>> \in Seq(Presses)
    OBVIOUS
  <2>2. queued \in [Tries -> Seq(Presses)] /\ got \in Seq(Presses)
    BY <2>1 DEF DigitInit
  <2>3. stage \in {"acquire", "listen"} /\ try \in Tries /\ use \in DigitUses
    BY PressNumbers DEF DigitInit
  <2>4. /\ buffer = 0 /\ verdict = "none" /\ overdue = FALSE /\ last = 0
        /\ digit \in [Presses -> {"good", "bad", "end"}]
    BY DEF DigitInit
  <2>5. press = [p \in Presses |-> "none"] /\ found = [p \in Presses |-> 0] /\ during = [p \in Presses |-> 0]
    BY DEF DigitInit
  <2>6. endPackets = [p \in Presses |-> 0] /\ counted = [p \in Presses |-> 0]
    BY DEF DigitInit
  <2>7. endPackets \in [Presses -> 0 .. 3] /\ counted \in [Presses -> 0 .. 3]
    BY <2>6
  <2> QED
    BY <2>2, <2>3, <2>4, <2>5, <2>7 DEF DigitTypeOK
<1>2. PacketInv /\ LastInv
  BY DEF DigitInit, PacketInv, LastInv
<1>3. ChannelInv
  BY DEF DigitInit, ChannelInv
<1> QED
  BY <1>1, <1>2, <1>3

LEMMA DigitInvariance == DigitSpec => [](DigitTypeOK /\ PacketInv /\ ChannelInv /\ DigitsOfThisAttempt)
<1>1. DigitInit => DigitsOfThisAttempt
  BY DEF DigitInit, DigitsOfThisAttempt
<1>2. DigitTypeOK /\ PacketInv /\ ChannelInv /\ DigitsOfThisAttempt /\ [DigitNext]_digitVars =>
        (DigitTypeOK /\ PacketInv /\ ChannelInv /\ DigitsOfThisAttempt)'
  BY DigitTypeStep, ChannelStep
<1> QED
  BY <1>1, <1>2, DigitInitially, PTL DEF DigitSpec

\* The variables of a collection keep their types.
THEOREM DigitTypeInvariance == DigitSpec => []DigitTypeOK
BY DigitInvariance, PTL

\* A digit that an attempt judges came to the call while that attempt collected,
\* for any number of attempts, keys and places in the channel: a handler that
\* is late sends it to the channel of an attempt which nobody reads any more.
THEOREM AttemptOwnsDigits == DigitSpec => []DigitsOfThisAttempt
BY DigitInvariance, PTL

\* The collector emits a key press once, whatever End packets are lost, repeated
\* or overtaken, unless it has emitted another one.
THEOREM PressOnce == DigitSpec => []PressCountsOnce
<1>1. DigitInit => PressCountsOnce
  BY DEF DigitInit, PressCountsOnce
<1> QED
  BY <1>1, LastStep, DigitInitially, DigitInvariance, PTL DEF DigitSpec

=============================================================================
