------------------------- MODULE CallControlProofs -------------------------
(***************************************************************************)
(* Theorems about CallControl, for any number of calls, any trunks and     *)
(* limits, and any of the faults: the types of the variables; that the     *)
(* INVITE and the CANCEL goroutine never both answer the caller; that the  *)
(* handlers implement CallLifecycle, and use the media as MediaSession     *)
(* lets them; that a hangup frees the call's media, and that its CDR is    *)
(* closed once and tells what the caller was told; that every way out of   *)
(* the handlers leaves the caller answered and the ports of a failed call  *)
(* free.                                                                   *)
(* Where nothing overlaps and no trunk is unreadable, the channel limit.   *)
(***************************************************************************)
EXTENDS CallControl, FiniteSetTheorems, TLAPS

-----------------------------------------------------------------------------
(* The inductive invariant.  Its core: while the INVITE handler waits for  *)
(* the callee, the pending map says who will answer the caller.            *)

\* The INVITE handler has not yet registered the call as pending.
Early == {"idle", "admit", "route", "reroute", "pushWait", "allocate", "register"}

\* It waits for the callee; CANCEL may take the call away from it.
Waiting == {"fork", "try", "dial", "dialled", "take"}

\* It has taken the call off the map and owes the caller a response.
Owning == {"resolve", "failing", "ack", "complete", "respond"}

\* The CANCEL handler did not take the call off the map.
NotTaken == {"idle", "inFlight", "lookup", "unknown"}

\* It did, and answers or has answered the caller itself.
Taken == {"reject487", "cancelledRead", "cancelledWrite", "done"}

\* A hangup handler works on a dialog it found.
TearingDown == {"hangup", "stopMedia", "terminate", "finalRead", "finalWrite"}

CallInv(c) ==
  LET inv == pc[c]["invite"]
      can == pc[c]["cancel"]
  IN  /\ Len(finals[c]) <= 1
      /\ dialog[c] # "none" => finals[c] = <<200>> /\ c \notin pending
      /\ c \in pending => inv \in Waiting \union {"dead"}
      /\ inv \in Early \union Owning =>
           finals[c] = <<>> /\ dialog[c] = "none" /\ can \in NotTaken
      /\ inv \in Waiting => dialog[c] = "none"
      /\ inv \in Waiting /\ c \in pending => finals[c] = <<>> /\ can \in NotTaken
      /\ inv \in Waiting /\ c \notin pending => can \in Taken
      /\ inv = "create" =>
           finals[c] = <<200>> /\ dialog[c] = "none" /\ can \in NotTaken
      /\ inv \in {"answerRead", "answerWrite"} => dialog[c] # "none"
      /\ inv \in {"failRead", "failWrite"} =>
           finals[c] # <<>> /\ dialog[c] = "none" /\ can \in NotTaken
      /\ can \in Taken \ {"done"} =>
           dialog[c] = "none" /\ inv \in Waiting \union {"done"}
      /\ can = "reject487" => finals[c] = <<>>
      /\ \A h \in Hangers :
           pc[c][h] \in TearingDown => dialog[c] # "none"
      /\ callerLeg[c] = "idle" => inv \in {"idle", "dead"}
      /\ inv = "dead" => \A h \in Handlers : pc[c][h] = "dead"

IInv == \A c \in Calls : CallInv(c)

\* The trunk loop dials only trunks of the list.
DialOK(c) ==
  /\ pc[c]["invite"] \in {"try", "dialled"} => direction[c] = "outbound"
  /\ pc[c]["invite"] = "fork" => direction[c] # "outbound"
  /\ pc[c]["invite"] \in {"dial", "dialled"} /\ direction[c] = "outbound" =>
       attempt[c] <= Len(TrunkOrder)

DialInv == \A c \in Calls : DialOK(c)

-----------------------------------------------------------------------------
(* Facts that let the sets of labels and states stay folded in the proofs. *)

\* Every label an action goes to, and which handlers there are.
LEMMA LabelFacts ==
  /\ {"ack", "admit", "allocate", "answerRead", "answerWrite", "cancelledRead",
      "cancelledWrite", "complete", "create", "dead", "dial", "dialled",
      "done", "failRead", "failWrite", "failing", "finalRead", "finalWrite",
      "fork", "hangup", "idle", "inFlight", "lookup", "pushWait", "register",
      "reject487", "reroute", "resolve", "respond", "route", "stopMedia",
      "take", "terminate", "try", "unknown"} \subseteq Labels
  /\ "invite" \in Handlers /\ "cancel" \in Handlers /\ "cancel" \in Hangers
  /\ Hangers \subseteq Handlers /\ Byes \subseteq Hangers
BY DEF Labels, InviteLabels, HangupLabels, Handlers, Hangers, Byes

\* Which of the handlers end a call.
LEMMA HandlerFacts ==
  /\ "invite" \in Handlers /\ "cancel" \in Handlers
  /\ Hangers \subseteq Handlers /\ "invite" \notin Hangers
  /\ Hangers = {"cancel", "callerBye", "calleeBye"}
BY DEF Handlers, Hangers, Byes

\* The codes, results and states the actions assign.
LEMMA StateFacts ==
  /\ 400 \in FailureCodes /\ 401 \in FailureCodes /\ 403 \in FailureCodes
  /\ 404 \in FailureCodes /\ 480 \in FailureCodes /\ 486 \in FailureCodes
  /\ 487 \in FailureCodes /\ 488 \in FailureCodes /\ 500 \in FailureCodes
  /\ 501 \in FailureCodes /\ 502 \in FailureCodes /\ 503 \in FailureCodes
  /\ "none" \in Results /\ "answered" \in Results /\ "refused" \in Results
  /\ "failed" \in Results /\ "error" \in Results /\ "timeout" \in Results
  /\ "idle" \in CallerStates /\ "calling" \in CallerStates
  /\ "up" \in CallerStates /\ "ended" \in CallerStates
  /\ "idle" \in CalleeStates /\ "ringing" \in CalleeStates
  /\ "answered" \in CalleeStates /\ "refused" \in CalleeStates
  /\ "failed" \in CalleeStates /\ "up" \in CalleeStates /\ "ended" \in CalleeStates
BY DEF FailureCodes, Results, CallerStates, CalleeStates

\* An answer is no failure.
LEMMA AnswerFact == 200 \notin FailureCodes
BY DEF FailureCodes

\* What the handlers make of a row is a row.
LEMMA RowFacts ==
  /\ NoRow \in Rows /\ NewRow \in Rows
  /\ \A row \in Rows : Answered(row) \in Rows
  /\ \A row \in Rows, d \in Dispositions, cause \in Causes :
       Closed(row, d, cause) \in Rows
  /\ \A status : Disposition(status) \in Dispositions
  /\ \A h \in Hangers : HangupCause(h) \in Causes
  /\ "cancelled" \in Dispositions /\ "answered" \in Dispositions
  /\ "caller_cancel" \in Causes /\ "failure" \in Causes
BY DEF Rows, NoRow, NewRow, Answered, Closed, Dispositions, Causes, Disposition,
       HangupCause, Hangers, Byes

\* TrunkOrder is indexed from 1 to its length.
LEMMA LengthFacts ==
  /\ Len(TrunkOrder) \in Nat
  /\ \A i \in 1 .. Len(TrunkOrder) : TrunkOrder[i] \in Trunks
BY TrunkAssumption

-----------------------------------------------------------------------------
(* What the operators shared by the actions do to the types.               *)

\* FailWith stores a failure code.
LEMMA FailWithType ==
  ASSUME RouteTypeOK, NEW c \in Calls, NEW status \in FailureCodes, FailWith(c, status)
  PROVE  code' \in [Calls -> FailureCodes]
BY DEF FailWith, RouteTypeOK

\* Respond appends a final status and moves the caller's phone.
LEMMA RespondType ==
  ASSUME LegTypeOK, NEW c \in Calls, NEW status \in FailureCodes \union {200},
         Respond(c, status)
  PROVE  /\ finals' \in [Calls -> Seq(FailureCodes \union {200})]
         /\ callerLeg' \in [Calls -> CallerStates]
         /\ calleeLeg' \in [Calls -> CalleeStates]
<1>1. /\ finals' \in [Calls -> Seq(FailureCodes \union {200})]
      /\ calleeLeg' \in [Calls -> CalleeStates]
  BY DEF LegTypeOK, Respond
<1>2. callerLeg' \in [Calls -> CallerStates]
  <2>1. CASE callerLeg' = [callerLeg EXCEPT ![c] = "calling"]
    BY <2>1, StateFacts DEF LegTypeOK
  <2>2. CASE callerLeg' = [callerLeg EXCEPT ![c] =
                             IF status = 200 THEN "up" ELSE "ended"]
    BY <2>2, StateFacts DEF LegTypeOK
  <2> QED
    BY <2>1, <2>2 DEF Respond
<1> QED
  BY <1>1, <1>2

\* Release leaves the session in a state.
LEMMA ReleaseType ==
  ASSUME MediaTypeOK, NEW c \in Calls, Release(c) \/ ReleaseBridge(c)
  PROVE  session' \in [Calls -> {"none", "new", "relaying"}]
BY DEF MediaTypeOK, Release, ReleaseBridge

\* Reading a CDR row stores a row.
LEMMA ReadRowType ==
  ASSUME CDRTypeOK, NEW c \in Calls, NEW h \in Handlers, NEW next, ReadRow(c, h, next)
  PROVE  CDRTypeOK'
BY DEF CDRTypeOK, ReadRow

\* Writing one back stores a row.
LEMMA WriteRowType ==
  ASSUME CDRTypeOK, NEW c \in Calls, NEW h \in Handlers, NEW row \in Rows,
         WriteRow(c, h, row)
  PROVE  CDRTypeOK'
BY RowFacts DEF CDRTypeOK, WriteRow

-----------------------------------------------------------------------------
(* Type correctness: one lemma for each group of variables.                *)

\* Every handler stays at a label.
LEMMA HandlerTypeStep ==
  ASSUME HandlerTypeOK, NEW c \in Calls, CallStep(c)
  PROVE  HandlerTypeOK'
<1>1. CASE HandleInvite(c)
  BY <1>1, LabelFacts, EnvironmentAssumption
  DEF HandleInvite, Goto, FirstLabel, HandlerTypeOK
<1>2. CASE RejectInvite(c)
  BY <1>2, LabelFacts DEF RejectInvite, Goto, HandlerTypeOK
<1>3. CASE AdmitInbound(c)
  BY <1>3, LabelFacts DEF AdmitInbound, Goto, FailWith, HandlerTypeOK
<1>4. CASE RouteCall(c)
  BY <1>4, LabelFacts DEF RouteCall, Goto, FailWith, HandlerTypeOK
<1>5. CASE PushWait(c)
  BY <1>5, LabelFacts DEF PushWait, Goto, FailWith, HandlerTypeOK
<1>6. CASE AllocateMedia(c)
  BY <1>6, LabelFacts DEF AllocateMedia, Goto, FailWith, HandlerTypeOK
<1>7. CASE RegisterPending(c)
  BY <1>7, LabelFacts DEF RegisterPending, Goto, HandlerTypeOK
<1>8. CASE StartFork(c)
  BY <1>8, LabelFacts DEF StartFork, Goto, HandlerTypeOK
<1>9. CASE TryTrunk(c)
  BY <1>9, LabelFacts DEF TryTrunk, Goto, HandlerTypeOK
<1>10. CASE DialReturns(c)
  BY <1>10, LabelFacts DEF DialReturns, Goto, HandlerTypeOK
<1>11. CASE AfterDial(c)
  BY <1>11, LabelFacts DEF AfterDial, Goto, HandlerTypeOK
<1>12. CASE TakePending(c)
  BY <1>12, LabelFacts DEF TakePending, Goto, HandlerTypeOK
<1>13. CASE ResolveResult(c)
  BY <1>13, LabelFacts DEF ResolveResult, Goto, FailWith, HandlerTypeOK
<1>14. CASE AckCallee(c)
  BY <1>14, LabelFacts DEF AckCallee, Goto, FailWith, HandlerTypeOK
<1>15. CASE CompleteMedia(c)
  BY <1>15, LabelFacts DEF CompleteMedia, Goto, HandlerTypeOK
<1>16. CASE RelayAnswer(c)
  BY <1>16, LabelFacts DEF RelayAnswer, Goto, HandlerTypeOK
<1>17. CASE CreateDialog(c)
  BY <1>17, LabelFacts DEF CreateDialog, Goto, HandlerTypeOK
<1>18. CASE ReadForAnswer(c)
  BY <1>18, LabelFacts DEF ReadForAnswer, ReadRow, Goto, HandlerTypeOK
<1>19. CASE WriteAnswer(c)
  BY <1>19, LabelFacts DEF WriteAnswer, WriteRow, Goto, HandlerTypeOK
<1>20. CASE SendFailure(c)
  BY <1>20, LabelFacts DEF SendFailure, Goto, HandlerTypeOK
<1>21. CASE ReadForFailure(c)
  BY <1>21, LabelFacts DEF ReadForFailure, ReadRow, Goto, HandlerTypeOK
<1>22. CASE WriteFailure(c)
  BY <1>22, LabelFacts DEF WriteFailure, WriteRow, Goto, HandlerTypeOK
<1>23. CASE CancelPending(c)
  BY <1>23, LabelFacts DEF CancelPending, Goto, HandlerTypeOK
<1>24. CASE RejectCancelled(c)
  BY <1>24, LabelFacts DEF RejectCancelled, Goto, HandlerTypeOK
<1>25. CASE ReadForCancel(c)
  BY <1>25, LabelFacts DEF ReadForCancel, ReadRow, Goto, HandlerTypeOK
<1>26. CASE WriteCancelled(c)
  BY <1>26, LabelFacts DEF WriteCancelled, WriteRow, Goto, HandlerTypeOK
<1>27. ASSUME NEW h \in Hangers, LookupDialog(c, h)
      PROVE  HandlerTypeOK'
  BY <1>27, LabelFacts DEF LookupDialog, Goto, HandlerTypeOK
<1>28. ASSUME NEW h \in Hangers, SendBye(c, h)
      PROVE  HandlerTypeOK'
  BY <1>28, LabelFacts DEF SendBye, Goto, HandlerTypeOK
<1>29. ASSUME NEW h \in Hangers, StopMedia(c, h)
      PROVE  HandlerTypeOK'
  BY <1>29, LabelFacts DEF StopMedia, Goto, HandlerTypeOK
<1>30. ASSUME NEW h \in Hangers, TerminateDialog(c, h)
      PROVE  HandlerTypeOK'
  BY <1>30, LabelFacts DEF TerminateDialog, Goto, HandlerTypeOK
<1>31. ASSUME NEW h \in Hangers, ReadForFinal(c, h)
      PROVE  HandlerTypeOK'
  BY <1>31, LabelFacts DEF ReadForFinal, ReadRow, Goto, HandlerTypeOK
<1>32. ASSUME NEW h \in Hangers, WriteFinal(c, h)
      PROVE  HandlerTypeOK'
  BY <1>32, LabelFacts DEF WriteFinal, WriteRow, Goto, HandlerTypeOK
<1>33. ASSUME NEW h \in Hangers, SendHangup(c, h)
      PROVE  HandlerTypeOK'
  BY <1>33, LabelFacts DEF SendHangup, Goto, HandlerTypeOK
<1>34. CASE CalleeDecides(c) \/ CtxExpires(c) \/ ReapSession(c)
  <2>1. UNCHANGED pc
    BY <1>34 DEF CalleeDecides, CtxExpires, ReapSession
  <2> QED
    BY <2>1 DEF HandlerTypeOK
<1> QED
  BY <1>1, <1>2, <1>3, <1>4, <1>5, <1>6, <1>7, <1>8, <1>9, <1>10, <1>11,
     <1>12, <1>13, <1>14, <1>15, <1>16, <1>17, <1>18, <1>19, <1>20, <1>21,
     <1>22, <1>23, <1>24, <1>25, <1>26, <1>27, <1>28, <1>29, <1>30, <1>31,
     <1>32, <1>33, <1>34, LabelFacts
  DEF CallStep, InviteStep, CancelStep, HangupStep, EnvironmentStep, TimerStep

\* What the INVITE handler knows of the call's route stays well typed.
LEMMA RouteTypeStep ==
  ASSUME RouteTypeOK, DialInv, NEW c \in Calls, CallStep(c)
  PROVE  RouteTypeOK'
<1>1. CASE HandleInvite(c)
  BY <1>1 DEF HandleInvite, RouteTypeOK, routeVars
<1>2. CASE AdmitInbound(c)
  BY <1>2, FailWithType, StateFacts DEF AdmitInbound, RouteTypeOK, routeVars
<1>3. CASE RouteCall(c)
  BY <1>3, FailWithType, StateFacts DEF RouteCall, RouteTypeOK, routeVars
<1>4. CASE PushWait(c)
  BY <1>4, FailWithType, StateFacts DEF PushWait, RouteTypeOK, routeVars
<1>5. CASE AllocateMedia(c)
  BY <1>5, FailWithType, StateFacts DEF AllocateMedia, RouteTypeOK, routeVars
<1>6. CASE RegisterPending(c)
  BY <1>6 DEF RegisterPending, RouteTypeOK, routeVars
<1>7. CASE StartFork(c)
  BY <1>7, StateFacts DEF StartFork, RouteTypeOK, routeVars
<1>8. CASE TryTrunk(c)
  <2>1. attempt[c] <= Len(TrunkOrder) => attempt[c] + 1 \in 1 .. Len(TrunkOrder) + 1
    BY LengthFacts DEF RouteTypeOK
  <2>2. attempt' \in [Calls -> 1 .. Len(TrunkOrder) + 1]
    BY <1>8, <2>1 DEF TryTrunk, RouteTypeOK
  <2> QED
    BY <1>8, <2>2 DEF TryTrunk, RouteTypeOK
<1>9. CASE DialReturns(c)
  <2>1. \/ result' = [result EXCEPT ![c] = calleeLeg[c]] /\ calleeLeg[c] \in Results
        \/ result' = [result EXCEPT ![c] = "timeout"]
    BY <1>9, StateFacts DEF DialReturns
  <2>2. result' \in [Calls -> Results]
    BY <2>1, StateFacts DEF RouteTypeOK
  <2> QED
    BY <1>9, <2>2 DEF DialReturns, RouteTypeOK, routeVars
<1>10. CASE AfterDial(c)
  <2>1. attempt[c] \in 1 .. Len(TrunkOrder)
    BY <1>10, LengthFacts DEF AfterDial, DialInv, DialOK, RouteTypeOK
  <2>2. attempt[c] + 1 \in 1 .. Len(TrunkOrder) + 1
    BY <2>1, LengthFacts
  <2>3. attempt' \in [Calls -> 1 .. Len(TrunkOrder) + 1]
    BY <1>10, <2>2 DEF AfterDial, RouteTypeOK
  <2>4. TrunkOrder[attempt[c]] \in Trunks
    BY <2>1, LengthFacts
  <2>5. trunk' \in [Calls -> Trunks \union {NoTrunk}]
    BY <1>10, <2>4 DEF AfterDial, RouteTypeOK
  <2> QED
    BY <1>10, <2>3, <2>5 DEF AfterDial, RouteTypeOK
<1>11. CASE TakePending(c)
  BY <1>11 DEF TakePending, RouteTypeOK, routeVars
<1>12. CASE ResolveResult(c)
  BY <1>12, FailWithType, StateFacts
  DEF ResolveResult, FailureStatus, RouteTypeOK, routeVars
<1>13. CASE AckCallee(c)
  BY <1>13, FailWithType, StateFacts DEF AckCallee, RouteTypeOK, routeVars
<1>14. CASE CancelPending(c)
  BY <1>14 DEF CancelPending, RouteTypeOK, routeVars
<1>15. CASE CtxExpires(c)
  BY <1>15 DEF CtxExpires, RouteTypeOK, routeVars
<1>16. CASE \/ RejectInvite(c) \/ CompleteMedia(c) \/ RelayAnswer(c)
           \/ CreateDialog(c) \/ ReadForAnswer(c) \/ WriteAnswer(c)
           \/ SendFailure(c) \/ ReadForFailure(c) \/ WriteFailure(c)
           \/ RejectCancelled(c) \/ ReadForCancel(c) \/ WriteCancelled(c)
           \/ CalleeDecides(c) \/ ReapSession(c)
  <2>1. UNCHANGED <<routeVars, result, code, ctx, pending>>
    BY <1>16
    DEF RejectInvite, CompleteMedia, RelayAnswer, CreateDialog, ReadForAnswer,
        WriteAnswer, SendFailure, ReadForFailure, WriteFailure,
        RejectCancelled, ReadForCancel, WriteCancelled, CalleeDecides,
        ReapSession, ReadRow, WriteRow
  <2> QED
    BY <2>1 DEF RouteTypeOK, routeVars
<1>17. ASSUME NEW h \in Hangers,
             \/ LookupDialog(c, h) \/ SendBye(c, h) \/ StopMedia(c, h)
             \/ TerminateDialog(c, h) \/ ReadForFinal(c, h)
             \/ WriteFinal(c, h) \/ SendHangup(c, h)
      PROVE  RouteTypeOK'
  <2>1. UNCHANGED <<routeVars, result, code, ctx, pending>>
    BY <1>17
    DEF LookupDialog, SendBye, StopMedia, TerminateDialog, ReadForFinal,
        WriteFinal, SendHangup, ReadRow, WriteRow
  <2> QED
    BY <2>1 DEF RouteTypeOK, routeVars
<1> QED
  BY <1>1, <1>2, <1>3, <1>4, <1>5, <1>6, <1>7, <1>8, <1>9, <1>10, <1>11,
     <1>12, <1>13, <1>14, <1>15, <1>16, <1>17, LabelFacts
  DEF CallStep, InviteStep, CancelStep, HangupStep, EnvironmentStep, TimerStep

\* Sessions and recorders stay in their states.
LEMMA MediaTypeStep ==
  ASSUME MediaTypeOK, NEW c \in Calls, CallStep(c)
  PROVE  MediaTypeOK'
<1>1. CASE AllocateMedia(c)
  BY <1>1 DEF AllocateMedia, MediaTypeOK
<1>2. CASE TakePending(c)
  BY <1>2, ReleaseType DEF TakePending, MediaTypeOK
<1>3. CASE ResolveResult(c)
  BY <1>3, ReleaseType DEF ResolveResult, MediaTypeOK
<1>4. CASE AckCallee(c)
  BY <1>4, ReleaseType DEF AckCallee, MediaTypeOK
<1>5. CASE CompleteMedia(c)
  BY <1>5, ReleaseType DEF CompleteMedia, MediaTypeOK
<1>6. CASE RelayAnswer(c)
  BY <1>6, ReleaseType DEF RelayAnswer, MediaTypeOK
<1>7. CASE CreateDialog(c)
  BY <1>7 DEF CreateDialog, MediaTypeOK
<1>8. CASE RejectCancelled(c)
  BY <1>8, ReleaseType DEF RejectCancelled, MediaTypeOK
<1>9. CASE ReapSession(c)
  BY <1>9, ReleaseType DEF ReapSession, MediaTypeOK
<1>10. ASSUME NEW h \in Hangers, StopMedia(c, h)
      PROVE  MediaTypeOK'
  BY <1>10, ReleaseType DEF StopMedia, MediaTypeOK
<1>11. CASE \/ HandleInvite(c) \/ RejectInvite(c) \/ AdmitInbound(c)
           \/ RouteCall(c) \/ PushWait(c) \/ RegisterPending(c)
           \/ StartFork(c) \/ TryTrunk(c) \/ DialReturns(c)
           \/ AfterDial(c) \/ ReadForAnswer(c) \/ WriteAnswer(c)
           \/ SendFailure(c) \/ ReadForFailure(c) \/ WriteFailure(c)
           \/ CancelPending(c) \/ ReadForCancel(c) \/ WriteCancelled(c)
           \/ CalleeDecides(c) \/ CtxExpires(c)
  <2>1. UNCHANGED mediaVars
    BY <1>11
    DEF HandleInvite, RejectInvite, AdmitInbound, RouteCall, PushWait,
        RegisterPending, StartFork, TryTrunk, DialReturns, AfterDial,
        ReadForAnswer, WriteAnswer, SendFailure, ReadForFailure, WriteFailure,
        CancelPending, ReadForCancel, WriteCancelled, CalleeDecides,
        CtxExpires, ReadRow, WriteRow
  <2> QED
    BY <2>1 DEF MediaTypeOK, mediaVars
<1>12. ASSUME NEW h \in Hangers,
             \/ LookupDialog(c, h) \/ SendBye(c, h) \/ TerminateDialog(c, h)
             \/ ReadForFinal(c, h) \/ WriteFinal(c, h) \/ SendHangup(c, h)
      PROVE  MediaTypeOK'
  <2>1. UNCHANGED mediaVars
    BY <1>12
    DEF LookupDialog, SendBye, TerminateDialog, ReadForFinal, WriteFinal,
        SendHangup, ReadRow, WriteRow
  <2> QED
    BY <2>1 DEF MediaTypeOK, mediaVars
<1> QED
  BY <1>1, <1>2, <1>3, <1>4, <1>5, <1>6, <1>7, <1>8, <1>9, <1>10, <1>11,
     <1>12, LabelFacts
  DEF CallStep, InviteStep, CancelStep, HangupStep, EnvironmentStep, TimerStep

\* Only rows are read and written.
LEMMA CDRTypeStep ==
  ASSUME CDRTypeOK, NEW c \in Calls, CallStep(c)
  PROVE  CDRTypeOK'
<1>1. CASE HandleInvite(c)
  BY <1>1, RowFacts DEF HandleInvite, CDRTypeOK
<1>2. CASE ReadForAnswer(c)
  BY <1>2, ReadRowType, LabelFacts DEF ReadForAnswer
<1>3. CASE WriteAnswer(c)
  BY <1>3, WriteRowType, RowFacts, LabelFacts DEF WriteAnswer, CDRTypeOK
<1>4. CASE ReadForFailure(c)
  BY <1>4, ReadRowType, LabelFacts DEF ReadForFailure
<1>5. CASE WriteFailure(c)
  BY <1>5, WriteRowType, RowFacts, LabelFacts DEF WriteFailure, CDRTypeOK
<1>6. CASE ReadForCancel(c)
  BY <1>6, ReadRowType, LabelFacts DEF ReadForCancel
<1>7. CASE WriteCancelled(c)
  BY <1>7, WriteRowType, RowFacts, LabelFacts DEF WriteCancelled, CDRTypeOK
<1>8. ASSUME NEW h \in Hangers, ReadForFinal(c, h)
      PROVE  CDRTypeOK'
  BY <1>8, ReadRowType, LabelFacts DEF ReadForFinal
<1>9. ASSUME NEW h \in Hangers, WriteFinal(c, h)
      PROVE  CDRTypeOK'
  BY <1>9, WriteRowType, RowFacts, LabelFacts DEF WriteFinal, CDRTypeOK
<1>10. CASE \/ RejectInvite(c) \/ AdmitInbound(c) \/ RouteCall(c)
           \/ PushWait(c) \/ AllocateMedia(c) \/ RegisterPending(c)
           \/ StartFork(c) \/ TryTrunk(c) \/ DialReturns(c)
           \/ AfterDial(c) \/ TakePending(c) \/ ResolveResult(c)
           \/ AckCallee(c) \/ CompleteMedia(c) \/ RelayAnswer(c)
           \/ CreateDialog(c) \/ SendFailure(c) \/ CancelPending(c)
           \/ RejectCancelled(c) \/ CalleeDecides(c) \/ CtxExpires(c)
           \/ ReapSession(c)
  <2>1. UNCHANGED cdrVars
    BY <1>10
    DEF RejectInvite, AdmitInbound, RouteCall, PushWait, AllocateMedia,
        RegisterPending, StartFork, TryTrunk, DialReturns, AfterDial,
        TakePending, ResolveResult, AckCallee, CompleteMedia, RelayAnswer,
        CreateDialog, SendFailure, CancelPending, RejectCancelled,
        CalleeDecides, CtxExpires, ReapSession
  <2> QED
    BY <2>1 DEF CDRTypeOK, cdrVars
<1>11. ASSUME NEW h \in Hangers,
             \/ LookupDialog(c, h) \/ SendBye(c, h) \/ StopMedia(c, h)
             \/ TerminateDialog(c, h) \/ SendHangup(c, h)
      PROVE  CDRTypeOK'
  <2>1. UNCHANGED cdrVars
    BY <1>11 DEF LookupDialog, SendBye, StopMedia, TerminateDialog, SendHangup
  <2> QED
    BY <2>1 DEF CDRTypeOK, cdrVars
<1> QED
  BY <1>1, <1>2, <1>3, <1>4, <1>5, <1>6, <1>7, <1>8, <1>9, <1>10, <1>11,
     LabelFacts
  DEF CallStep, InviteStep, CancelStep, HangupStep, EnvironmentStep, TimerStep

\* Responses and legs stay well typed.
LEMMA LegTypeStep ==
  ASSUME LegTypeOK, RouteTypeOK, NEW c \in Calls, CallStep(c)
  PROVE  LegTypeOK'
<1>1. CASE HandleInvite(c)
  BY <1>1, StateFacts DEF HandleInvite, LegTypeOK
<1>2. CASE RejectInvite(c)
  <2>1. PICK status \in {400, 401, 403, 500} : Respond(c, status)
    BY <1>2 DEF RejectInvite
  <2>2. status \in FailureCodes
    BY <2>1, StateFacts
  <2> QED
    BY <1>2, <2>1, <2>2, RespondType DEF RejectInvite, LegTypeOK
<1>3. CASE StartFork(c)
  BY <1>3, StateFacts DEF StartFork, LegTypeOK
<1>4. CASE TryTrunk(c)
  BY <1>4, StateFacts DEF TryTrunk, LegTypeOK
<1>5. CASE DialReturns(c)
  BY <1>5, StateFacts DEF DialReturns, LegTypeOK
<1>6. CASE AckCallee(c)
  BY <1>6, StateFacts DEF AckCallee, LegTypeOK
<1>7. CASE RelayAnswer(c)
  BY <1>7, RespondType, StateFacts
  DEF RelayAnswer, LegTypeOK, RouteTypeOK, legVars
<1>8. CASE CreateDialog(c)
  BY <1>8 DEF CreateDialog, LegTypeOK, legVars
<1>9. CASE SendFailure(c)
  BY <1>9, RespondType, StateFacts
  DEF SendFailure, LegTypeOK, RouteTypeOK, legVars
<1>10. CASE RejectCancelled(c)
  BY <1>10, RespondType, StateFacts
  DEF RejectCancelled, LegTypeOK, RouteTypeOK, legVars
<1>11. CASE CalleeDecides(c)
  BY <1>11, StateFacts DEF CalleeDecides, LegTypeOK
<1>12. ASSUME NEW h \in Hangers, SendBye(c, h)
      PROVE  LegTypeOK'
  BY <1>12, StateFacts DEF SendBye, LegTypeOK
<1>13. ASSUME NEW h \in Hangers, TerminateDialog(c, h)
      PROVE  LegTypeOK'
  BY <1>13 DEF TerminateDialog, LegTypeOK, legVars
<1>14. ASSUME NEW h \in Hangers, SendHangup(c, h)
      PROVE  LegTypeOK'
  BY <1>14, StateFacts DEF SendHangup, LegTypeOK
<1>15. CASE \/ AdmitInbound(c) \/ RouteCall(c) \/ PushWait(c)
           \/ AllocateMedia(c) \/ RegisterPending(c) \/ AfterDial(c)
           \/ TakePending(c) \/ ResolveResult(c) \/ CompleteMedia(c)
           \/ ReadForAnswer(c) \/ WriteAnswer(c) \/ ReadForFailure(c)
           \/ WriteFailure(c) \/ CancelPending(c) \/ ReadForCancel(c)
           \/ WriteCancelled(c) \/ CtxExpires(c) \/ ReapSession(c)
  <2>1. UNCHANGED <<dialog, legVars>>
    BY <1>15
    DEF AdmitInbound, RouteCall, PushWait, AllocateMedia, RegisterPending,
        AfterDial, TakePending, ResolveResult, CompleteMedia, ReadForAnswer,
        WriteAnswer, ReadForFailure, WriteFailure, CancelPending,
        ReadForCancel, WriteCancelled, CtxExpires, ReapSession, ReadRow,
        WriteRow
  <2> QED
    BY <2>1 DEF LegTypeOK, legVars
<1>16. ASSUME NEW h \in Hangers,
             \/ LookupDialog(c, h) \/ StopMedia(c, h) \/ ReadForFinal(c, h)
             \/ WriteFinal(c, h)
      PROVE  LegTypeOK'
  <2>1. UNCHANGED <<dialog, legVars>>
    BY <1>16
    DEF LookupDialog, StopMedia, ReadForFinal, WriteFinal, ReadRow, WriteRow
  <2> QED
    BY <2>1 DEF LegTypeOK, legVars
<1> QED
  BY <1>1, <1>2, <1>3, <1>4, <1>5, <1>6, <1>7, <1>8, <1>9, <1>10, <1>11,
     <1>12, <1>13, <1>14, <1>15, <1>16, LabelFacts
  DEF CallStep, InviteStep, CancelStep, HangupStep, EnvironmentStep, TimerStep

\* The trunk loop keeps to the list of trunks.
LEMMA DialInvStep ==
  ASSUME HandlerTypeOK, RouteTypeOK, DialInv, NEW c \in Calls, CallStep(c)
  PROVE  DialInv'
<1> SUFFICES ASSUME NEW d \in Calls, DialOK(d)
             PROVE  DialOK(d)'
  BY DEF DialInv
<1> USE HandlerFacts DEF HandlerTypeOK, DialOK
<1>1. CASE HandleInvite(c)
  <2>1. CASE d = c
    <3>1. PICK e \in Directions : Goto(c, "invite", FirstLabel(e))
      BY <1>1 DEF HandleInvite
    <3>2. FirstLabel(e) \in {"admit", "route", "allocate"}
      BY EnvironmentAssumption DEF FirstLabel
    <3> QED
      BY <2>1, <3>1, <3>2 DEF Goto
  <2>2. CASE d # c
    <3>1. direction'[d] = direction[d] /\ attempt'[d] = attempt[d]
      BY <1>1, <2>2 DEF HandleInvite, RouteTypeOK
    <3>2. pc'[d] = pc[d]
      BY <1>1, <2>2 DEF HandleInvite, Goto
    <3> QED
      BY <3>1, <3>2
  <2> QED
    BY <2>1, <2>2
<1>2. CASE RejectInvite(c)
  BY <1>2 DEF RejectInvite, Goto, routeVars
<1>3. CASE AdmitInbound(c)
  BY <1>3 DEF AdmitInbound, Goto, FailWith, routeVars
<1>4. CASE RouteCall(c)
  BY <1>4 DEF RouteCall, Goto, FailWith, routeVars
<1>5. CASE PushWait(c)
  BY <1>5 DEF PushWait, Goto, FailWith, routeVars
<1>6. CASE AllocateMedia(c)
  BY <1>6 DEF AllocateMedia, Goto, FailWith, routeVars
<1>7. CASE RegisterPending(c)
  BY <1>7 DEF RegisterPending, Goto, routeVars
<1>8. CASE StartFork(c)
  BY <1>8 DEF StartFork, Goto, routeVars
<1>9. CASE TryTrunk(c)
  <2>1. CASE Goto(c, "invite", "take") /\ UNCHANGED attempt
    BY <1>9, <2>1 DEF TryTrunk, Goto
  <2>2. CASE UNCHANGED pc /\ attempt' = [attempt EXCEPT ![c] = attempt[c] + 1]
    BY <1>9, <2>2 DEF TryTrunk, RouteTypeOK
  <2>3. CASE /\ attempt[c] <= Len(TrunkOrder)
             /\ Goto(c, "invite", "dial") /\ UNCHANGED attempt
    BY <1>9, <2>3 DEF TryTrunk, Goto
  <2> QED
    BY <1>9, <2>1, <2>2, <2>3 DEF TryTrunk
<1>10. CASE DialReturns(c)
  BY <1>10 DEF DialReturns, Goto, routeVars
<1>11. CASE AfterDial(c)
  BY <1>11 DEF AfterDial, Goto, RouteTypeOK
<1>12. CASE TakePending(c)
  BY <1>12 DEF TakePending, Goto, routeVars
<1>13. CASE ResolveResult(c)
  BY <1>13 DEF ResolveResult, Goto, FailWith, routeVars
<1>14. CASE AckCallee(c)
  BY <1>14 DEF AckCallee, Goto, FailWith, routeVars
<1>15. CASE CompleteMedia(c)
  BY <1>15 DEF CompleteMedia, Goto, routeVars
<1>16. CASE RelayAnswer(c)
  BY <1>16 DEF RelayAnswer, Goto, routeVars
<1>17. CASE CreateDialog(c)
  BY <1>17 DEF CreateDialog, Goto, routeVars
<1>18. CASE ReadForAnswer(c)
  BY <1>18 DEF ReadForAnswer, ReadRow, Goto, routeVars
<1>19. CASE WriteAnswer(c)
  BY <1>19 DEF WriteAnswer, WriteRow, Goto, routeVars
<1>20. CASE SendFailure(c)
  BY <1>20 DEF SendFailure, Goto, routeVars
<1>21. CASE ReadForFailure(c)
  BY <1>21 DEF ReadForFailure, ReadRow, Goto, routeVars
<1>22. CASE WriteFailure(c)
  BY <1>22 DEF WriteFailure, WriteRow, Goto, routeVars
<1>23. CASE CancelPending(c)
  BY <1>23 DEF CancelPending, Goto, routeVars
<1>24. CASE RejectCancelled(c)
  BY <1>24 DEF RejectCancelled, Goto, routeVars
<1>25. CASE ReadForCancel(c)
  BY <1>25 DEF ReadForCancel, ReadRow, Goto, routeVars
<1>26. CASE WriteCancelled(c)
  BY <1>26 DEF WriteCancelled, WriteRow, Goto, routeVars
<1>27. ASSUME NEW h \in Hangers, LookupDialog(c, h)
      PROVE  DialOK(d)'
  BY <1>27 DEF LookupDialog, Goto, routeVars
<1>28. ASSUME NEW h \in Hangers, SendBye(c, h)
      PROVE  DialOK(d)'
  BY <1>28 DEF SendBye, Goto, routeVars
<1>29. ASSUME NEW h \in Hangers, StopMedia(c, h)
      PROVE  DialOK(d)'
  BY <1>29 DEF StopMedia, Goto, routeVars
<1>30. ASSUME NEW h \in Hangers, TerminateDialog(c, h)
      PROVE  DialOK(d)'
  BY <1>30 DEF TerminateDialog, Goto, routeVars
<1>31. ASSUME NEW h \in Hangers, ReadForFinal(c, h)
      PROVE  DialOK(d)'
  BY <1>31 DEF ReadForFinal, ReadRow, Goto, routeVars
<1>32. ASSUME NEW h \in Hangers, WriteFinal(c, h)
      PROVE  DialOK(d)'
  BY <1>32 DEF WriteFinal, WriteRow, Goto, routeVars
<1>33. ASSUME NEW h \in Hangers, SendHangup(c, h)
      PROVE  DialOK(d)'
  BY <1>33 DEF SendHangup, Goto, routeVars
<1>34. CASE CalleeDecides(c) \/ CtxExpires(c) \/ ReapSession(c)
  <2>1. UNCHANGED <<pc, routeVars>>
    BY <1>34 DEF CalleeDecides, CtxExpires, ReapSession
  <2> QED
    BY <2>1 DEF routeVars
<1> QED
  BY <1>1, <1>2, <1>3, <1>4, <1>5, <1>6, <1>7, <1>8, <1>9, <1>10, <1>11,
     <1>12, <1>13, <1>14, <1>15, <1>16, <1>17, <1>18, <1>19, <1>20, <1>21,
     <1>22, <1>23, <1>24, <1>25, <1>26, <1>27, <1>28, <1>29, <1>30, <1>31,
     <1>32, <1>33, <1>34, LabelFacts
  DEF CallStep, InviteStep, CancelStep, HangupStep, EnvironmentStep, TimerStep

\* The initial state is well typed.
LEMMA TypeInit == Init => TypeOK /\ DialInv
BY TrunkAssumption, LabelFacts, StateFacts, RowFacts
DEF Init, TypeOK, HandlerTypeOK, RouteTypeOK, MediaTypeOK, CDRTypeOK, LegTypeOK, DialInv,
    DialOK

\* Every step keeps the types.
LEMMA TypeStep == TypeOK /\ DialInv /\ [Next]_vars => TypeOK' /\ DialInv'
<1> SUFFICES ASSUME TypeOK, DialInv, [Next]_vars
             PROVE  TypeOK' /\ DialInv'
  OBVIOUS
<1>1. ASSUME NEW c \in Calls, CallStep(c)
      PROVE  TypeOK' /\ DialInv'
  BY <1>1, HandlerTypeStep, RouteTypeStep, MediaTypeStep, CDRTypeStep, LegTypeStep,
     DialInvStep
  DEF TypeOK
<1>2. CASE UNCHANGED vars
  BY <1>2
  DEF vars, routeVars, mediaVars, cdrVars, legVars, TypeOK, HandlerTypeOK, RouteTypeOK,
      MediaTypeOK, CDRTypeOK, LegTypeOK, DialInv, DialOK
<1> QED
  BY <1>1, <1>2 DEF Next

\* Every reachable state is well typed.
LEMMA TypeInvariance == Spec => [](TypeOK /\ DialInv)
BY TypeInit, TypeStep, PTL DEF Spec

\* In every behaviour of the handlers the variables keep their types: no handler
\* gets lost, no row or response is ill-formed, and the trunk loop of
\* handleOutboundCall never runs off its list of trunks.
THEOREM TypeCorrect == Spec => []TypeOK
BY TypeInvariance, PTL

-----------------------------------------------------------------------------
(* The inductive invariant.                                                *)

\* The first final response to a caller.
LEMMA RespondFact ==
  ASSUME LegTypeOK, NEW c \in Calls, NEW status \in FailureCodes \union {200},
         finals[c] = <<>>, Respond(c, status)
  PROVE  /\ finals'[c] = <<status>> /\ Len(finals'[c]) = 1 /\ finals'[c] # <<>>
         /\ status # 200 => finals'[c] # <<200>>
         /\ callerLeg'[c] # "idle"
<1>1. finals'[c] = Append(finals[c], status)
  BY DEF LegTypeOK, Respond
<1>2. finals'[c] = <<status>>
  BY <1>1
<1>3. callerLeg'[c] # "idle"
  BY DEF LegTypeOK, Respond
<1> QED
  BY <1>2, <1>3

\* A step of a call keeps the call's own invariant.
LEMMA CallInvStep ==
  ASSUME HandlerTypeOK, RouteTypeOK, LegTypeOK, NEW c \in Calls, CallInv(c), CallStep(c)
  PROVE  CallInv(c)'
<1> USE HandlerFacts
    DEF HandlerTypeOK, CallInv, Early, Waiting, Owning, NotTaken, Taken, TearingDown
<1>1. CASE HandleInvite(c)
  BY <1>1, EnvironmentAssumption
  DEF HandleInvite, Goto, FirstLabel, legVars, LegTypeOK
<1>2. CASE RejectInvite(c)
  <2>1. finals[c] = <<>> /\ \E status \in {400, 401, 403, 500} : Respond(c, status)
    BY <1>2 DEF RejectInvite
  <2>2. /\ finals'[c] # <<>> /\ Len(finals'[c]) = 1 /\ finals'[c] # <<200>>
        /\ callerLeg'[c] # "idle"
    BY <2>1, RespondFact, StateFacts, AnswerFact
  <2> QED
    BY <1>2, <2>1, <2>2 DEF RejectInvite, Goto
<1>3. CASE AdmitInbound(c)
  BY <1>3 DEF AdmitInbound, Goto, FailWith, legVars
<1>4. CASE RouteCall(c)
  BY <1>4 DEF RouteCall, Goto, FailWith, legVars
<1>5. CASE PushWait(c)
  BY <1>5 DEF PushWait, Goto, FailWith, legVars
<1>6. CASE AllocateMedia(c)
  BY <1>6 DEF AllocateMedia, Goto, FailWith, legVars
<1>7. CASE RegisterPending(c)
  BY <1>7 DEF RegisterPending, Goto, legVars
<1>8. CASE StartFork(c)
  BY <1>8 DEF StartFork, Goto, legVars
<1>9. CASE TryTrunk(c)
  BY <1>9 DEF TryTrunk, Goto, legVars
<1>10. CASE DialReturns(c)
  BY <1>10 DEF DialReturns, Goto, legVars
<1>11. CASE AfterDial(c)
  BY <1>11 DEF AfterDial, Goto, legVars
<1>12. CASE TakePending(c)
  BY <1>12 DEF TakePending, Goto, legVars
<1>13. CASE ResolveResult(c)
  BY <1>13 DEF ResolveResult, Goto, FailWith, legVars
<1>14. CASE AckCallee(c)
  BY <1>14 DEF AckCallee, Goto, FailWith, legVars
<1>15. CASE CompleteMedia(c)
  BY <1>15 DEF CompleteMedia, Goto, legVars
<1>16. CASE RelayAnswer(c)
  <2>1. finals[c] = <<>>
    BY <1>16 DEF RelayAnswer
  <2>2. CASE Respond(c, 200) /\ Goto(c, "invite", "create")
    <3>1. finals'[c] = <<200>> /\ Len(finals'[c]) = 1 /\ callerLeg'[c] # "idle"
      BY <2>1, <2>2, RespondFact
    <3> QED
      BY <1>16, <2>1, <2>2, <3>1 DEF RelayAnswer, Goto
  <2>3. CASE UNCHANGED legVars /\ Goto(c, "invite", "done")
    BY <1>16, <2>3 DEF RelayAnswer, legVars, Goto
  <2> QED
    BY <1>16, <2>2, <2>3 DEF RelayAnswer
<1>17. CASE CreateDialog(c)
  BY <1>17 DEF CreateDialog, Goto, legVars, LegTypeOK
<1>18. CASE ReadForAnswer(c)
  BY <1>18 DEF ReadForAnswer, ReadRow, Goto, legVars
<1>19. CASE WriteAnswer(c)
  BY <1>19 DEF WriteAnswer, WriteRow, Goto, legVars
<1>20. CASE SendFailure(c)
  <2>1. finals[c] = <<>> /\ Respond(c, code[c]) /\ code[c] \in FailureCodes
    BY <1>20 DEF SendFailure, RouteTypeOK
  <2>2. /\ finals'[c] # <<>> /\ Len(finals'[c]) = 1 /\ finals'[c] # <<200>>
        /\ callerLeg'[c] # "idle"
    BY <2>1, RespondFact, StateFacts, AnswerFact
  <2> QED
    BY <1>20, <2>1, <2>2 DEF SendFailure, Goto
<1>21. CASE ReadForFailure(c)
  BY <1>21 DEF ReadForFailure, ReadRow, Goto, legVars
<1>22. CASE WriteFailure(c)
  BY <1>22 DEF WriteFailure, WriteRow, Goto, legVars
<1>23. CASE CancelPending(c)
  BY <1>23 DEF CancelPending, Goto, legVars
<1>24. CASE RejectCancelled(c)
  <2>1. finals[c] = <<>> /\ Respond(c, 487)
    BY <1>24 DEF RejectCancelled
  <2>2. /\ finals'[c] # <<>> /\ Len(finals'[c]) = 1 /\ finals'[c] # <<200>>
        /\ callerLeg'[c] # "idle"
    BY <2>1, RespondFact, StateFacts, AnswerFact
  <2> QED
    BY <1>24, <2>1, <2>2 DEF RejectCancelled, Goto
<1>25. CASE ReadForCancel(c)
  BY <1>25 DEF ReadForCancel, ReadRow, Goto, legVars
<1>26. CASE WriteCancelled(c)
  BY <1>26 DEF WriteCancelled, WriteRow, Goto, legVars
<1>27. CASE CalleeDecides(c)
  BY <1>27 DEF CalleeDecides, legVars
<1>28. CASE CtxExpires(c)
  BY <1>28 DEF CtxExpires, legVars
<1>29. CASE ReapSession(c)
  BY <1>29 DEF ReapSession, legVars
<1>30. ASSUME NEW h \in Hangers, LookupDialog(c, h)
      PROVE  CallInv(c)'
  BY <1>30 DEF LookupDialog, Goto, legVars
<1>31. ASSUME NEW h \in Hangers, SendBye(c, h)
      PROVE  CallInv(c)'
  BY <1>31 DEF SendBye, Goto, legVars, LegTypeOK
<1>32. ASSUME NEW h \in Hangers, StopMedia(c, h)
      PROVE  CallInv(c)'
  BY <1>32 DEF StopMedia, Goto, legVars
<1>33. ASSUME NEW h \in Hangers, TerminateDialog(c, h)
      PROVE  CallInv(c)'
  BY <1>33 DEF TerminateDialog, Goto, legVars
<1>34. ASSUME NEW h \in Hangers, ReadForFinal(c, h)
      PROVE  CallInv(c)'
  BY <1>34 DEF ReadForFinal, ReadRow, Goto, legVars
<1>35. ASSUME NEW h \in Hangers, WriteFinal(c, h)
      PROVE  CallInv(c)'
  BY <1>35 DEF WriteFinal, WriteRow, Goto, legVars
<1>36. ASSUME NEW h \in Hangers, SendHangup(c, h)
      PROVE  CallInv(c)'
  BY <1>36 DEF SendHangup, Goto, legVars, LegTypeOK
<1> QED
  BY <1>1, <1>2, <1>3, <1>4, <1>5, <1>6, <1>7, <1>8, <1>9, <1>10, <1>11,
     <1>12, <1>13, <1>14, <1>15, <1>16, <1>17, <1>18, <1>19, <1>20, <1>21,
     <1>22, <1>23, <1>24, <1>25, <1>26, <1>27, <1>28, <1>29, <1>30, <1>31,
     <1>32, <1>33, <1>34, <1>35, <1>36, HandlerFacts, LabelFacts
  DEF CallStep, InviteStep, CancelStep, HangupStep, EnvironmentStep, TimerStep

\* A call that a step of another call leaves alone, or takes down with the process.
Held(d) ==
  /\ pc'[d] = pc[d] \/ \A h \in Handlers : pc'[d][h] = "dead"
  /\ finals'[d] = finals[d]
  /\ callerLeg'[d] = callerLeg[d]
  /\ dialog'[d] = dialog[d]
  /\ d \in pending' <=> d \in pending

\* A step of one call holds every other call.
LEMMA OthersHeld ==
  ASSUME HandlerTypeOK, LegTypeOK, NEW d \in Calls, NEW c \in Calls \ {d}, CallStep(c)
  PROVE  Held(d)
<1> USE DEF HandlerTypeOK, LegTypeOK, Held
<1>1. CASE HandleInvite(c)
  BY <1>1 DEF HandleInvite, Goto, FirstLabel, legVars
<1>2. CASE RejectInvite(c)
  BY <1>2 DEF RejectInvite, Goto, Respond, legVars
<1>3. CASE AdmitInbound(c)
  BY <1>3 DEF AdmitInbound, Goto, FailWith, legVars
<1>4. CASE RouteCall(c)
  BY <1>4 DEF RouteCall, Goto, FailWith, legVars
<1>5. CASE PushWait(c)
  BY <1>5 DEF PushWait, Goto, FailWith, legVars
<1>6. CASE AllocateMedia(c)
  BY <1>6 DEF AllocateMedia, Goto, FailWith, legVars
<1>7. CASE RegisterPending(c)
  BY <1>7 DEF RegisterPending, Goto, legVars
<1>8. CASE StartFork(c)
  BY <1>8 DEF StartFork, Goto, legVars
<1>9. CASE TryTrunk(c)
  BY <1>9 DEF TryTrunk, Goto, legVars
<1>10. CASE DialReturns(c)
  BY <1>10 DEF DialReturns, Goto, legVars
<1>11. CASE AfterDial(c)
  BY <1>11 DEF AfterDial, Goto, legVars
<1>12. CASE TakePending(c)
  BY <1>12 DEF TakePending, Goto, legVars
<1>13. CASE ResolveResult(c)
  BY <1>13 DEF ResolveResult, Goto, FailWith, legVars
<1>14. CASE AckCallee(c)
  BY <1>14 DEF AckCallee, Goto, FailWith, legVars
<1>15. CASE CompleteMedia(c)
  BY <1>15 DEF CompleteMedia, Goto, legVars
<1>16. CASE RelayAnswer(c)
  BY <1>16 DEF RelayAnswer, Goto, Respond, legVars
<1>17. CASE CreateDialog(c)
  BY <1>17 DEF CreateDialog, Goto, legVars
<1>18. CASE ReadForAnswer(c)
  BY <1>18 DEF ReadForAnswer, ReadRow, Goto, legVars
<1>19. CASE WriteAnswer(c)
  BY <1>19 DEF WriteAnswer, WriteRow, Goto, legVars
<1>20. CASE SendFailure(c)
  BY <1>20 DEF SendFailure, Goto, Respond, legVars
<1>21. CASE ReadForFailure(c)
  BY <1>21 DEF ReadForFailure, ReadRow, Goto, legVars
<1>22. CASE WriteFailure(c)
  BY <1>22 DEF WriteFailure, WriteRow, Goto, legVars
<1>23. CASE CancelPending(c)
  BY <1>23 DEF CancelPending, Goto, legVars
<1>24. CASE RejectCancelled(c)
  BY <1>24 DEF RejectCancelled, Goto, Respond, legVars
<1>25. CASE ReadForCancel(c)
  BY <1>25 DEF ReadForCancel, ReadRow, Goto, legVars
<1>26. CASE WriteCancelled(c)
  BY <1>26 DEF WriteCancelled, WriteRow, Goto, legVars
<1>27. CASE CalleeDecides(c)
  BY <1>27 DEF CalleeDecides, legVars
<1>28. CASE CtxExpires(c)
  BY <1>28 DEF CtxExpires, legVars
<1>29. CASE ReapSession(c)
  BY <1>29 DEF ReapSession, legVars
<1>30. ASSUME NEW h \in Hangers, LookupDialog(c, h)
      PROVE  Held(d)
  BY <1>30 DEF LookupDialog, Goto, legVars
<1>31. ASSUME NEW h \in Hangers, SendBye(c, h)
      PROVE  Held(d)
  BY <1>31 DEF SendBye, Goto, legVars
<1>32. ASSUME NEW h \in Hangers, StopMedia(c, h)
      PROVE  Held(d)
  BY <1>32 DEF StopMedia, Goto, legVars
<1>33. ASSUME NEW h \in Hangers, TerminateDialog(c, h)
      PROVE  Held(d)
  BY <1>33 DEF TerminateDialog, Goto, legVars
<1>34. ASSUME NEW h \in Hangers, ReadForFinal(c, h)
      PROVE  Held(d)
  BY <1>34 DEF ReadForFinal, ReadRow, Goto, legVars
<1>35. ASSUME NEW h \in Hangers, WriteFinal(c, h)
      PROVE  Held(d)
  BY <1>35 DEF WriteFinal, WriteRow, Goto, legVars
<1>36. ASSUME NEW h \in Hangers, SendHangup(c, h)
      PROVE  Held(d)
  BY <1>36 DEF SendHangup, Goto, legVars
<1> QED
  BY <1>1, <1>2, <1>3, <1>4, <1>5, <1>6, <1>7, <1>8, <1>9, <1>10, <1>11,
     <1>12, <1>13, <1>14, <1>15, <1>16, <1>17, <1>18, <1>19, <1>20, <1>21,
     <1>22, <1>23, <1>24, <1>25, <1>26, <1>27, <1>28, <1>29, <1>30, <1>31,
     <1>32, <1>33, <1>34, <1>35, <1>36, LabelFacts
  DEF CallStep, InviteStep, CancelStep, HangupStep, EnvironmentStep, TimerStep

\* A call that is held keeps its invariant.
LEMMA HeldInv == ASSUME NEW d \in Calls, CallInv(d), Held(d) PROVE CallInv(d)'
<1>1. CASE pc'[d] = pc[d]
  BY <1>1 DEF CallInv, Held
<1>2. CASE \A h \in Handlers : pc'[d][h] = "dead"
  BY <1>2, HandlerFacts
  DEF CallInv, Held, Early, Waiting, Owning, NotTaken, Taken, TearingDown
<1> QED
  BY <1>1, <1>2 DEF Held

\* No call has a final response or a dialog at first.
LEMMA InvInit == Init => IInv
BY HandlerFacts DEF Init, IInv, CallInv, Early, Waiting, Owning, NotTaken, Taken, TearingDown

\* Every step keeps the invariant of every call.
LEMMA InvStep == TypeOK /\ IInv /\ [Next]_vars => IInv'
<1> SUFFICES ASSUME TypeOK, IInv, [Next]_vars, NEW d \in Calls
             PROVE  CallInv(d)'
  BY DEF IInv
<1>1. CallInv(d)
  BY DEF IInv
<1>2. CASE CallStep(d)
  BY <1>1, <1>2, CallInvStep DEF TypeOK
<1>3. ASSUME NEW c \in Calls \ {d}, CallStep(c)
      PROVE  CallInv(d)'
  BY <1>1, <1>3, OthersHeld, HeldInv DEF TypeOK
<1>4. CASE UNCHANGED vars
  BY <1>1, <1>4 DEF vars, legVars, CallInv
<1> QED
  BY <1>2, <1>3, <1>4 DEF Next

\* The invariant holds throughout.
LEMMA Invariance == Spec => [](TypeOK /\ IInv)
BY TypeInvariance, InvInit, InvStep, PTL DEF Spec

\* The INVITE and the CANCEL goroutine never both send a final response.
THEOREM OneFinal == Spec => []AtMostOneFinal
<1>1. IInv => AtMostOneFinal
  BY DEF IInv, CallInv, AtMostOneFinal
<1> QED
  BY <1>1, Invariance, PTL

\* A dialog is created only for a call whose caller was told 200, that is no
\* longer pending, and that no CANCEL has taken.
THEOREM DialogSound == Spec => []DialogEstablished
<1>1. IInv => DialogEstablished
  BY DEF IInv, CallInv, DialogEstablished, Taken
<1> QED
  BY <1>1, Invariance, PTL

-----------------------------------------------------------------------------
(* The handlers implement CallLifecycle.                                   *)

\* What CallLifecycle lets happen to the phase of a call.
PhaseMove(c) ==
  \/ Phase(c)' = Phase(c)
  \/ Phase(c) = "idle" /\ Phase(c)' = "setup"
  \/ Phase(c) \in {"idle", "setup"} /\ Phase(c)' = "refused"
  \/ Phase(c) = "setup" /\ Phase(c)' = "connected"
  \/ Phase(c) = "connected" /\ Phase(c)' = "active"
  \/ Phase(c) = "active" /\ Phase(c)' = "cleared"

\* Every step of a call moves its phase as CallLifecycle does.
LEMMA PhaseStep ==
  ASSUME RouteTypeOK, LegTypeOK, NEW c \in Calls, CallInv(c), CallStep(c)
  PROVE  PhaseMove(c)
<1> USE HandlerFacts DEF PhaseMove, Phase
<1>1. CASE HandleInvite(c)
  <2>1. finals[c] = <<>> /\ dialog[c] = "none"
    BY <1>1 DEF HandleInvite, CallInv, Early, Owning
  <2>2. callerLeg'[c] = "calling"
    BY <1>1 DEF HandleInvite, LegTypeOK
  <2> QED
    BY <1>1, <2>1, <2>2 DEF HandleInvite
<1>2. CASE RejectInvite(c)
  <2>1. finals[c] = <<>> /\ dialog[c] = "none"
    BY <1>2 DEF RejectInvite, CallInv, Early, Owning, Taken
  <2>2. finals'[c] # <<>> /\ finals'[c] # <<200>>
    BY <1>2, <2>1, RespondFact, StateFacts, AnswerFact DEF RejectInvite
  <2> QED
    BY <1>2, <2>1, <2>2 DEF RejectInvite
<1>3. CASE RelayAnswer(c)
  <2>1. finals[c] = <<>> /\ dialog[c] = "none" /\ callerLeg[c] # "idle"
    BY <1>3 DEF RelayAnswer, CallInv, Owning
  <2>2. CASE Respond(c, 200)
    <3>1. finals'[c] = <<200>>
      BY <2>1, <2>2, RespondFact
    <3> QED
      BY <1>3, <2>1, <3>1 DEF RelayAnswer
  <2>3. CASE UNCHANGED legVars
    BY <1>3, <2>3 DEF RelayAnswer, legVars
  <2> QED
    BY <1>3, <2>2, <2>3 DEF RelayAnswer
<1>4. CASE CreateDialog(c)
  <2>1. finals[c] = <<200>> /\ dialog[c] = "none"
    BY <1>4 DEF CreateDialog, CallInv
  <2>2. dialog'[c] = "active"
    BY <1>4 DEF CreateDialog, LegTypeOK
  <2> QED
    BY <2>1, <2>2
<1>5. CASE SendFailure(c)
  <2>1. finals[c] = <<>> /\ dialog[c] = "none"
    BY <1>5 DEF SendFailure, CallInv, Early, Owning, Taken
  <2>2. finals'[c] # <<>> /\ finals'[c] # <<200>>
    BY <1>5, <2>1, RespondFact, StateFacts, AnswerFact DEF SendFailure, RouteTypeOK
  <2> QED
    BY <1>5, <2>1, <2>2 DEF SendFailure
<1>6. CASE RejectCancelled(c)
  <2>1. finals[c] = <<>> /\ dialog[c] = "none"
    BY <1>6 DEF RejectCancelled, CallInv, Early, Owning, Taken
  <2>2. finals'[c] # <<>> /\ finals'[c] # <<200>>
    BY <1>6, <2>1, RespondFact, StateFacts, AnswerFact DEF RejectCancelled
  <2> QED
    BY <1>6, <2>1, <2>2 DEF RejectCancelled
<1>7. ASSUME NEW h \in Hangers, SendBye(c, h)
      PROVE  PhaseMove(c)
  <2>1. dialog[c] # "none" /\ dialog'[c] = dialog[c] /\ finals'[c] = finals[c]
    BY <1>7 DEF SendBye, CallInv, TearingDown
  <2> QED
    BY <2>1 DEF LegTypeOK
<1>8. ASSUME NEW h \in Hangers, TerminateDialog(c, h)
      PROVE  PhaseMove(c)
  <2>1. dialog[c] \in {"active", "terminated"}
    BY <1>8 DEF TerminateDialog, CallInv, TearingDown, LegTypeOK
  <2>2. dialog'[c] = "terminated"
    BY <1>8 DEF TerminateDialog, LegTypeOK
  <2> QED
    BY <2>1, <2>2
<1>9. ASSUME NEW h \in Hangers, SendHangup(c, h)
      PROVE  PhaseMove(c)
  <2>1. dialog'[c] = dialog[c] /\ finals'[c] = finals[c]
    BY <1>9 DEF SendHangup
  <2>2. callerLeg'[c] = "idle" <=> callerLeg[c] = "idle"
    BY <1>9 DEF SendHangup, LegTypeOK
  <2> QED
    BY <2>1, <2>2
<1>10. CASE \/ AdmitInbound(c) \/ RouteCall(c) \/ PushWait(c)
           \/ AllocateMedia(c) \/ RegisterPending(c) \/ StartFork(c)
           \/ TryTrunk(c) \/ DialReturns(c) \/ AfterDial(c)
           \/ TakePending(c) \/ ResolveResult(c) \/ AckCallee(c)
           \/ CompleteMedia(c) \/ ReadForAnswer(c) \/ WriteAnswer(c)
           \/ ReadForFailure(c) \/ WriteFailure(c) \/ CancelPending(c)
           \/ ReadForCancel(c) \/ WriteCancelled(c) \/ CalleeDecides(c)
           \/ CtxExpires(c) \/ ReapSession(c)
  <2>1. UNCHANGED <<dialog, finals, callerLeg>>
    BY <1>10
    DEF AdmitInbound, RouteCall, PushWait, AllocateMedia, RegisterPending,
        StartFork, TryTrunk, DialReturns, AfterDial, TakePending,
        ResolveResult, AckCallee, CompleteMedia, ReadForAnswer, WriteAnswer,
        ReadForFailure, WriteFailure, CancelPending, ReadForCancel,
        WriteCancelled, CalleeDecides, CtxExpires, ReapSession, ReadRow,
        WriteRow, legVars
  <2> QED
    BY <2>1
<1>11. ASSUME NEW h \in Hangers,
             \/ LookupDialog(c, h) \/ StopMedia(c, h) \/ ReadForFinal(c, h)
             \/ WriteFinal(c, h)
      PROVE  PhaseMove(c)
  <2>1. UNCHANGED <<dialog, finals, callerLeg>>
    BY <1>11
    DEF LookupDialog, StopMedia, ReadForFinal, WriteFinal, ReadRow, WriteRow,
        legVars
  <2> QED
    BY <2>1
<1> QED
  BY <1>1, <1>2, <1>3, <1>4, <1>5, <1>6, <1>7, <1>8, <1>9, <1>10, <1>11,
     LabelFacts
  DEF CallStep, InviteStep, CancelStep, HangupStep, EnvironmentStep, TimerStep

\* The phase of a call that is held does not move.
LEMMA HeldPhase == ASSUME NEW d \in Calls, Held(d) PROVE Phase(d)' = Phase(d)
BY DEF Held, Phase

\* A step of the handlers is a step of CallLifecycle, or none.
LEMMA LifecycleStep ==
  TypeOK /\ IInv /\ [Next]_vars => [Lifecycle!Next]_[c \in Calls |-> Phase(c)]
<1> SUFFICES ASSUME TypeOK, IInv, [Next]_vars
             PROVE  [Lifecycle!Next]_[c \in Calls |-> Phase(c)]
  OBVIOUS
<1> DEFINE phase == [c \in Calls |-> Phase(c)]
<1>1. ASSUME NEW c \in Calls, CallStep(c)
      PROVE  [Lifecycle!Next]_phase
  <2>1. PhaseMove(c)
    BY <1>1, PhaseStep DEF TypeOK, IInv
  <2>2. \A d \in Calls \ {c} : Phase(d)' = Phase(d)
    BY <1>1, OthersHeld, HeldPhase DEF TypeOK
  <2>3. phase' = [phase EXCEPT ![c] = Phase(c)']
    BY <2>2
  <2>4. CASE Phase(c)' = Phase(c)
    BY <2>3, <2>4
  <2>5. CASE Phase(c) = "idle" /\ Phase(c)' = "setup"
    <3>1. Lifecycle!Begin(c)
      BY <2>3, <2>5 DEF Lifecycle!Begin, Lifecycle!Move
    <3> QED
      BY <3>1 DEF Lifecycle!Next
  <2>6. CASE Phase(c) \in {"idle", "setup"} /\ Phase(c)' = "refused"
    <3>1. Lifecycle!Refuse(c)
      BY <2>3, <2>6 DEF Lifecycle!Refuse, Lifecycle!Move
    <3> QED
      BY <3>1 DEF Lifecycle!Next
  <2>7. CASE Phase(c) = "setup" /\ Phase(c)' = "connected"
    <3>1. Lifecycle!Connect(c)
      BY <2>3, <2>7 DEF Lifecycle!Connect, Lifecycle!Move
    <3> QED
      BY <3>1 DEF Lifecycle!Next
  <2>8. CASE Phase(c) = "connected" /\ Phase(c)' = "active"
    <3>1. Lifecycle!Activate(c)
      BY <2>3, <2>8 DEF Lifecycle!Activate, Lifecycle!Move
    <3> QED
      BY <3>1 DEF Lifecycle!Next
  <2>9. CASE Phase(c) = "active" /\ Phase(c)' = "cleared"
    <3>1. Lifecycle!Clear(c)
      BY <2>3, <2>9 DEF Lifecycle!Clear, Lifecycle!Move
    <3> QED
      BY <3>1 DEF Lifecycle!Next
  <2> QED
    BY <2>1, <2>4, <2>5, <2>6, <2>7, <2>8, <2>9 DEF PhaseMove
<1>2. CASE UNCHANGED vars
  BY <1>2 DEF vars, legVars, Phase
<1> QED
  BY <1>1, <1>2 DEF Next

\* The goroutines of sip/ together implement the life of a call: one answer to
\* the caller, one dialog after a 200 only, one end, however they interleave.
THEOREM Refinement == Spec => ImplementsLifecycle
<1>1. Init => Lifecycle!Init
  BY DEF Init, Lifecycle!Init, Phase
<1>2. TypeOK /\ IInv /\ [Next]_vars => [Lifecycle!Next]_[c \in Calls |-> Phase(c)]
  BY LifecycleStep
<1> QED
  BY <1>1, <1>2, Invariance, PTL DEF Spec, ImplementsLifecycle, Lifecycle!Spec

-----------------------------------------------------------------------------
(* A call's media and its CDR, once it is over.                            *)

\* The handlers that have taken a dialog down and write its CDR.
Finalising == {"finalRead", "finalWrite"}

\* What a hangup handler does to the media before it takes the dialog down stays.
MediaInv(c) ==
  (\/ dialog[c] = "terminated"
   \/ \E h \in Hangers : pc[c][h] \in {"terminate"} \union Finalising)
  => /\ media[c] => session[c] = "none"
     /\ recorder[c] # "recording"

\* The CDR tells that the caller was given this status.
Tells(c, status) ==
  /\ finals[c] = <<status>>
  /\ cdr[c].disposition = IF status = 200 THEN "answered" ELSE Disposition(status)
  /\ status = 200 => dialog[c] = "terminated"

\* One handler closes a call's CDR, and knows what the caller was told.
CDRInv(c) ==
  /\ cdr[c].ended => \E status \in FailureCodes \union {200} : Tells(c, status)
  /\ pc[c]["invite"] \in {"failRead", "failWrite"} =>
       finals[c] = <<code[c]>> /\ ~cdr[c].ended
  /\ pc[c]["cancel"] \in {"cancelledRead", "cancelledWrite"} =>
       finals[c] = <<487>> /\ ~cdr[c].ended
  /\ \A h \in Hangers : pc[c][h] \in Finalising =>
       /\ dialog[c] = "terminated"
       /\ ~cdr[c].ended
       /\ \A k \in Hangers \ {h} : pc[c][k] \notin Finalising
  /\ pc[c]["invite"] = "answerWrite" /\ snap[c]["invite"].ended =>
       /\ dialog[c] = "terminated"
       /\ snap[c]["invite"].disposition = "answered"
       /\ \A h \in Hangers : pc[c][h] \notin Finalising

RecordInv == \A c \in Calls : MediaInv(c) /\ CDRInv(c)

\* What else of a call a step of another call leaves alone.
Kept(d) ==
  /\ direction'[d] = direction[d]
  /\ attempt'[d] = attempt[d]
  /\ trunk'[d] = trunk[d]
  /\ result'[d] = result[d]
  /\ code'[d] = code[d]
  /\ bridge'[d] = bridge[d]
  /\ session'[d] = session[d]
  /\ media'[d] = media[d]
  /\ recorder'[d] = recorder[d]
  /\ cdr'[d] = cdr[d]
  /\ snap'[d] = snap[d]

\* A step of one call keeps every other call's route, media and CDR.
LEMMA OthersKept ==
  ASSUME TypeOK, NEW d \in Calls, NEW c \in Calls \ {d}, CallStep(c)
  PROVE  Kept(d)
<1> USE DEF TypeOK, RouteTypeOK, MediaTypeOK, CDRTypeOK, Kept
<1>1. CASE HandleInvite(c)
  BY <1>1 DEF HandleInvite, Goto, FirstLabel, routeVars, mediaVars, cdrVars
<1>2. CASE RejectInvite(c)
  BY <1>2 DEF RejectInvite, Goto, Respond, routeVars, mediaVars, cdrVars
<1>3. CASE AdmitInbound(c)
  BY <1>3 DEF AdmitInbound, Goto, FailWith, routeVars, mediaVars, cdrVars
<1>4. CASE RouteCall(c)
  BY <1>4 DEF RouteCall, Goto, FailWith, routeVars, mediaVars, cdrVars
<1>5. CASE PushWait(c)
  BY <1>5 DEF PushWait, Goto, FailWith, routeVars, mediaVars, cdrVars
<1>6. CASE AllocateMedia(c)
  BY <1>6 DEF AllocateMedia, Goto, FailWith, routeVars, mediaVars, cdrVars
<1>7. CASE RegisterPending(c)
  BY <1>7 DEF RegisterPending, Goto, routeVars, mediaVars, cdrVars
<1>8. CASE StartFork(c)
  BY <1>8 DEF StartFork, Goto, routeVars, mediaVars, cdrVars
<1>9. CASE TryTrunk(c)
  BY <1>9 DEF TryTrunk, Goto, routeVars, mediaVars, cdrVars
<1>10. CASE DialReturns(c)
  BY <1>10 DEF DialReturns, Goto, routeVars, mediaVars, cdrVars
<1>11. CASE AfterDial(c)
  BY <1>11 DEF AfterDial, Goto, routeVars, mediaVars, cdrVars
<1>12. CASE TakePending(c)
  BY <1>12 DEF TakePending, Goto, ReleaseBridge, Release, routeVars, mediaVars,
    cdrVars
<1>13. CASE ResolveResult(c)
  BY <1>13 DEF ResolveResult, Goto, FailWith, ReleaseBridge, Release, routeVars,
    mediaVars, cdrVars
<1>14. CASE AckCallee(c)
  BY <1>14 DEF AckCallee, Goto, FailWith, ReleaseBridge, Release, routeVars,
    mediaVars, cdrVars
<1>15. CASE CompleteMedia(c)
  BY <1>15 DEF CompleteMedia, Goto, Release, routeVars, mediaVars, cdrVars
<1>16. CASE RelayAnswer(c)
  BY <1>16 DEF RelayAnswer, Goto, Respond, Release, routeVars, mediaVars,
    cdrVars
<1>17. CASE CreateDialog(c)
  BY <1>17 DEF CreateDialog, Goto, routeVars, mediaVars, cdrVars
<1>18. CASE ReadForAnswer(c)
  BY <1>18 DEF ReadForAnswer, Goto, ReadRow, routeVars, mediaVars, cdrVars
<1>19. CASE WriteAnswer(c)
  BY <1>19 DEF WriteAnswer, Goto, WriteRow, routeVars, mediaVars, cdrVars
<1>20. CASE SendFailure(c)
  BY <1>20 DEF SendFailure, Goto, Respond, routeVars, mediaVars, cdrVars
<1>21. CASE ReadForFailure(c)
  BY <1>21 DEF ReadForFailure, Goto, ReadRow, routeVars, mediaVars, cdrVars
<1>22. CASE WriteFailure(c)
  BY <1>22 DEF WriteFailure, Goto, WriteRow, routeVars, mediaVars, cdrVars
<1>23. CASE CancelPending(c)
  BY <1>23 DEF CancelPending, Goto, routeVars, mediaVars, cdrVars
<1>24. CASE RejectCancelled(c)
  BY <1>24 DEF RejectCancelled, Goto, Respond, ReleaseBridge, Release,
    routeVars, mediaVars, cdrVars
<1>25. CASE ReadForCancel(c)
  BY <1>25 DEF ReadForCancel, Goto, ReadRow, routeVars, mediaVars, cdrVars
<1>26. CASE WriteCancelled(c)
  BY <1>26 DEF WriteCancelled, Goto, WriteRow, routeVars, mediaVars, cdrVars
<1>27. CASE CalleeDecides(c)
  BY <1>27 DEF CalleeDecides, routeVars, mediaVars, cdrVars
<1>28. CASE CtxExpires(c)
  BY <1>28 DEF CtxExpires, routeVars, mediaVars, cdrVars
<1>29. CASE ReapSession(c)
  BY <1>29 DEF ReapSession, Release, routeVars, mediaVars, cdrVars
<1>30. ASSUME NEW h \in Hangers, LookupDialog(c, h)
      PROVE  Kept(d)
  BY <1>30 DEF LookupDialog, Goto, routeVars, mediaVars, cdrVars
<1>31. ASSUME NEW h \in Hangers, SendBye(c, h)
      PROVE  Kept(d)
  BY <1>31 DEF SendBye, Goto, routeVars, mediaVars, cdrVars
<1>32. ASSUME NEW h \in Hangers, StopMedia(c, h)
      PROVE  Kept(d)
  BY <1>32 DEF StopMedia, Goto, Release, routeVars, mediaVars, cdrVars
<1>33. ASSUME NEW h \in Hangers, TerminateDialog(c, h)
      PROVE  Kept(d)
  BY <1>33 DEF TerminateDialog, Goto, routeVars, mediaVars, cdrVars
<1>34. ASSUME NEW h \in Hangers, ReadForFinal(c, h)
      PROVE  Kept(d)
  BY <1>34 DEF ReadForFinal, Goto, ReadRow, routeVars, mediaVars, cdrVars
<1>35. ASSUME NEW h \in Hangers, WriteFinal(c, h)
      PROVE  Kept(d)
  BY <1>35 DEF WriteFinal, Goto, WriteRow, routeVars, mediaVars, cdrVars
<1>36. ASSUME NEW h \in Hangers, SendHangup(c, h)
      PROVE  Kept(d)
  BY <1>36 DEF SendHangup, Goto, routeVars, mediaVars, cdrVars
<1> QED
  BY <1>1, <1>2, <1>3, <1>4, <1>5, <1>6, <1>7, <1>8, <1>9, <1>10, <1>11,
     <1>12, <1>13, <1>14, <1>15, <1>16, <1>17, <1>18, <1>19, <1>20, <1>21,
     <1>22, <1>23, <1>24, <1>25, <1>26, <1>27, <1>28, <1>29, <1>30, <1>31,
     <1>32, <1>33, <1>34, <1>35, <1>36, LabelFacts
  DEF CallStep, InviteStep, CancelStep, HangupStep, EnvironmentStep, TimerStep

-----------------------------------------------------------------------------
\* A step of a call keeps what a hangup did to its media.
LEMMA MediaInvStep ==
  ASSUME TypeOK, NEW c \in Calls, CallInv(c), MediaInv(c), CallStep(c)
  PROVE  MediaInv(c)'
<1> USE HandlerFacts
    DEF TypeOK, HandlerTypeOK, MediaTypeOK, LegTypeOK, CallInv, MediaInv, Early,
        Waiting, Owning, TearingDown, Finalising
<1>1. CASE HandleInvite(c)
  BY <1>1 DEF HandleInvite, Goto, FirstLabel, routeVars, mediaVars, cdrVars,
    legVars
<1>2. CASE RejectInvite(c)
  BY <1>2 DEF RejectInvite, Goto, Respond, routeVars, mediaVars, cdrVars,
    legVars
<1>3. CASE AdmitInbound(c)
  BY <1>3 DEF AdmitInbound, Goto, FailWith, routeVars, mediaVars, cdrVars,
    legVars
<1>4. CASE RouteCall(c)
  BY <1>4 DEF RouteCall, Goto, FailWith, routeVars, mediaVars, cdrVars, legVars
<1>5. CASE PushWait(c)
  BY <1>5 DEF PushWait, Goto, FailWith, routeVars, mediaVars, cdrVars, legVars
<1>6. CASE AllocateMedia(c)
  BY <1>6 DEF AllocateMedia, Goto, FailWith, routeVars, mediaVars, cdrVars,
    legVars
<1>7. CASE RegisterPending(c)
  BY <1>7 DEF RegisterPending, Goto, routeVars, mediaVars, cdrVars, legVars
<1>8. CASE StartFork(c)
  BY <1>8 DEF StartFork, Goto, routeVars, mediaVars, cdrVars, legVars
<1>9. CASE TryTrunk(c)
  BY <1>9 DEF TryTrunk, Goto, routeVars, mediaVars, cdrVars, legVars
<1>10. CASE DialReturns(c)
  BY <1>10 DEF DialReturns, Goto, routeVars, mediaVars, cdrVars, legVars
<1>11. CASE AfterDial(c)
  BY <1>11 DEF AfterDial, Goto, routeVars, mediaVars, cdrVars, legVars
<1>12. CASE TakePending(c)
  BY <1>12 DEF TakePending, Goto, ReleaseBridge, Release, routeVars, mediaVars,
    cdrVars, legVars
<1>13. CASE ResolveResult(c)
  BY <1>13 DEF ResolveResult, Goto, FailWith, ReleaseBridge, Release, routeVars,
    mediaVars, cdrVars, legVars
<1>14. CASE AckCallee(c)
  BY <1>14 DEF AckCallee, Goto, FailWith, ReleaseBridge, Release, routeVars,
    mediaVars, cdrVars, legVars
<1>15. CASE CompleteMedia(c)
  BY <1>15 DEF CompleteMedia, Goto, Release, routeVars, mediaVars, cdrVars,
    legVars
<1>16. CASE RelayAnswer(c)
  BY <1>16 DEF RelayAnswer, Goto, Respond, Release, routeVars, mediaVars,
    cdrVars, legVars
<1>17. CASE CreateDialog(c)
  BY <1>17 DEF CreateDialog, Goto, routeVars, mediaVars, cdrVars, legVars
<1>18. CASE ReadForAnswer(c)
  BY <1>18 DEF ReadForAnswer, Goto, ReadRow, routeVars, mediaVars, cdrVars,
    legVars
<1>19. CASE WriteAnswer(c)
  BY <1>19 DEF WriteAnswer, Goto, WriteRow, routeVars, mediaVars, cdrVars,
    legVars
<1>20. CASE SendFailure(c)
  BY <1>20 DEF SendFailure, Goto, Respond, routeVars, mediaVars, cdrVars,
    legVars
<1>21. CASE ReadForFailure(c)
  BY <1>21 DEF ReadForFailure, Goto, ReadRow, routeVars, mediaVars, cdrVars,
    legVars
<1>22. CASE WriteFailure(c)
  BY <1>22 DEF WriteFailure, Goto, WriteRow, routeVars, mediaVars, cdrVars,
    legVars
<1>23. CASE CancelPending(c)
  BY <1>23 DEF CancelPending, Goto, routeVars, mediaVars, cdrVars, legVars
<1>24. CASE RejectCancelled(c)
  BY <1>24 DEF RejectCancelled, Goto, Respond, ReleaseBridge, Release,
    routeVars, mediaVars, cdrVars, legVars
<1>25. CASE ReadForCancel(c)
  BY <1>25 DEF ReadForCancel, Goto, ReadRow, routeVars, mediaVars, cdrVars,
    legVars
<1>26. CASE WriteCancelled(c)
  BY <1>26 DEF WriteCancelled, Goto, WriteRow, routeVars, mediaVars, cdrVars,
    legVars
<1>27. CASE CalleeDecides(c)
  BY <1>27 DEF CalleeDecides, routeVars, mediaVars, cdrVars, legVars
<1>28. CASE CtxExpires(c)
  BY <1>28 DEF CtxExpires, routeVars, mediaVars, cdrVars, legVars
<1>29. CASE ReapSession(c)
  BY <1>29 DEF ReapSession, Release, routeVars, mediaVars, cdrVars, legVars
<1>30. ASSUME NEW h \in Hangers, LookupDialog(c, h)
      PROVE  MediaInv(c)'
  BY <1>30 DEF LookupDialog, Goto, routeVars, mediaVars, cdrVars, legVars
<1>31. ASSUME NEW h \in Hangers, SendBye(c, h)
      PROVE  MediaInv(c)'
  BY <1>31 DEF SendBye, Goto, routeVars, mediaVars, cdrVars, legVars
<1>32. ASSUME NEW h \in Hangers, StopMedia(c, h)
      PROVE  MediaInv(c)'
  BY <1>32 DEF StopMedia, Goto, Release, routeVars, mediaVars, cdrVars, legVars
<1>33. ASSUME NEW h \in Hangers, TerminateDialog(c, h)
      PROVE  MediaInv(c)'
  BY <1>33 DEF TerminateDialog, Goto, routeVars, mediaVars, cdrVars, legVars
<1>34. ASSUME NEW h \in Hangers, ReadForFinal(c, h)
      PROVE  MediaInv(c)'
  BY <1>34 DEF ReadForFinal, Goto, ReadRow, routeVars, mediaVars, cdrVars,
    legVars
<1>35. ASSUME NEW h \in Hangers, WriteFinal(c, h)
      PROVE  MediaInv(c)'
  BY <1>35 DEF WriteFinal, Goto, WriteRow, routeVars, mediaVars, cdrVars,
    legVars
<1>36. ASSUME NEW h \in Hangers, SendHangup(c, h)
      PROVE  MediaInv(c)'
  BY <1>36 DEF SendHangup, Goto, routeVars, mediaVars, cdrVars, legVars
<1> QED
  BY <1>1, <1>2, <1>3, <1>4, <1>5, <1>6, <1>7, <1>8, <1>9, <1>10, <1>11,
     <1>12, <1>13, <1>14, <1>15, <1>16, <1>17, <1>18, <1>19, <1>20, <1>21,
     <1>22, <1>23, <1>24, <1>25, <1>26, <1>27, <1>28, <1>29, <1>30, <1>31,
     <1>32, <1>33, <1>34, <1>35, <1>36, LabelFacts
  DEF CallStep, InviteStep, CancelStep, HangupStep, EnvironmentStep, TimerStep

-----------------------------------------------------------------------------
\* What the handlers make of a row, as far as closing it goes.
LEMMA RowFates ==
  /\ ~NoRow.ended /\ ~NewRow.ended
  /\ \A row \in Rows : /\ Answered(row).ended <=> row.ended
                       /\ Answered(row).disposition = row.disposition
  /\ \A row \in Rows : \A d, cause : /\ Closed(row, d, cause).ended
                                      /\ Closed(row, d, cause).disposition = d
  /\ Disposition(487) = "cancelled"
BY DEF NoRow, NewRow, Rows, Answered, Closed, Disposition

\* Reading a row: the handler has it, or gives up.
LEMMA ReadRowFact ==
  ASSUME HandlerTypeOK, CDRTypeOK, NEW c \in Calls, NEW h \in Handlers, NEW next,
         ReadRow(c, h, next)
  PROVE  /\ cdr' = cdr /\ dialog' = dialog /\ finals' = finals /\ code' = code
         /\ \/ snap'[c][h] = cdr[c] /\ pc'[c][h] = next
            \/ snap' = snap /\ pc'[c][h] = "done"
         /\ \A k \in Handlers \ {h} : pc'[c][k] = pc[c][k] /\ snap'[c][k] = snap[c][k]
BY DEF HandlerTypeOK, CDRTypeOK, ReadRow, Goto, cdrVars, legVars

\* Writing one back: the row is the call's CDR, or nothing is changed.
LEMMA WriteRowFact ==
  ASSUME HandlerTypeOK, CDRTypeOK, NEW c \in Calls, NEW h \in Handlers, NEW row \in Rows,
         WriteRow(c, h, row)
  PROVE  /\ dialog' = dialog /\ finals' = finals /\ code' = code
         /\ cdr'[c] = row \/ cdr'[c] = cdr[c]
         /\ pc'[c][h] = "done"
         /\ \A k \in Handlers \ {h} : pc'[c][k] = pc[c][k] /\ snap'[c][k] = snap[c][k]
BY DEF HandlerTypeOK, CDRTypeOK, WriteRow, Goto, cdrVars, legVars

\* A step of a call keeps what is known of its CDR.
LEMMA CDRInvStep ==
  ASSUME TypeOK, NEW c \in Calls, CallInv(c), CDRInv(c), CallStep(c)
  PROVE  CDRInv(c)'
<1> USE HandlerFacts
    DEF TypeOK, HandlerTypeOK, CDRTypeOK, LegTypeOK, RouteTypeOK, CallInv, CDRInv, Early,
        Waiting, Owning, NotTaken, Taken, TearingDown, Finalising, Tells
<1>1. CASE HandleInvite(c)
  <2>1. finals[c] = <<>> /\ dialog[c] = "none"
    BY <1>1 DEF HandleInvite
  <2>2. ~cdr[c].ended
    BY <2>1
  <2>3. cdr'[c] = NewRow \/ cdr'[c] = cdr[c]
    BY <1>1 DEF HandleInvite
  <2>4. ~cdr'[c].ended
    BY <2>2, <2>3, RowFates
  <2>5. /\ finals' = finals /\ dialog' = dialog /\ snap' = snap
        /\ pc'[c]["invite"] \in {"admit", "route", "allocate"}
        /\ \A h \in Hangers : pc'[c][h] = pc[c][h]
    BY <1>1, EnvironmentAssumption DEF HandleInvite, Goto, FirstLabel
  <2>6. /\ pc[c]["cancel"] \notin {"cancelledRead", "cancelledWrite"}
        /\ \A h \in Hangers : pc[c][h] \notin Finalising
    BY <1>1 DEF HandleInvite
  <2> QED
    BY ONLY <2>4, <2>5, <2>6, HandlerFacts DEF CDRInv, Finalising
<1>2. CASE RejectInvite(c)
  BY <1>2 DEF RejectInvite, Goto, Respond, routeVars, mediaVars, cdrVars,
    legVars
<1>3. CASE AdmitInbound(c)
  BY <1>3 DEF AdmitInbound, Goto, FailWith, routeVars, mediaVars, cdrVars,
    legVars
<1>4. CASE RouteCall(c)
  <2>1. /\ UNCHANGED <<finals, dialog, cdr, snap>>
        /\ \A h \in Hangers : pc'[c][h] = pc[c][h]
        /\ pc'[c]["invite"] \notin {"failRead", "failWrite", "answerWrite"}
    BY <1>4 DEF RouteCall, Goto, FailWith, cdrVars, legVars
  <2>2. finals[c] = <<>> /\ dialog[c] = "none" /\ pc[c]["cancel"] \in NotTaken
    BY <1>4 DEF RouteCall
  <2>3. /\ ~cdr[c].ended
        /\ pc[c]["cancel"] \notin {"cancelledRead", "cancelledWrite"}
        /\ \A h \in Hangers : pc[c][h] \notin Finalising
    BY <2>2
  <2> QED
    BY ONLY <2>1, <2>3, HandlerFacts DEF CDRInv, Finalising
<1>5. CASE PushWait(c)
  BY <1>5 DEF PushWait, Goto, FailWith, routeVars, mediaVars, cdrVars, legVars
<1>6. CASE AllocateMedia(c)
  BY <1>6 DEF AllocateMedia, Goto, FailWith, routeVars, mediaVars, cdrVars,
    legVars
<1>7. CASE RegisterPending(c)
  BY <1>7 DEF RegisterPending, Goto, routeVars, mediaVars, cdrVars, legVars
<1>8. CASE StartFork(c)
  BY <1>8 DEF StartFork, Goto, routeVars, mediaVars, cdrVars, legVars
<1>9. CASE TryTrunk(c)
  BY <1>9 DEF TryTrunk, Goto, routeVars, mediaVars, cdrVars, legVars
<1>10. CASE DialReturns(c)
  BY <1>10 DEF DialReturns, Goto, routeVars, mediaVars, cdrVars, legVars
<1>11. CASE AfterDial(c)
  BY <1>11 DEF AfterDial, Goto, routeVars, mediaVars, cdrVars, legVars
<1>12. CASE TakePending(c)
  BY <1>12 DEF TakePending, Goto, ReleaseBridge, Release, routeVars, mediaVars,
    cdrVars, legVars
<1>13. CASE ResolveResult(c)
  BY <1>13 DEF ResolveResult, Goto, FailWith, ReleaseBridge, Release, routeVars,
    mediaVars, cdrVars, legVars
<1>14. CASE AckCallee(c)
  BY <1>14 DEF AckCallee, Goto, FailWith, ReleaseBridge, Release, routeVars,
    mediaVars, cdrVars, legVars
<1>15. CASE CompleteMedia(c)
  BY <1>15 DEF CompleteMedia, Goto, Release, routeVars, mediaVars, cdrVars,
    legVars
<1>16. CASE RelayAnswer(c)
  BY <1>16 DEF RelayAnswer, Goto, Respond, Release, routeVars, mediaVars,
    cdrVars, legVars
<1>17. CASE CreateDialog(c)
  BY <1>17 DEF CreateDialog, Goto, routeVars, mediaVars, cdrVars, legVars
<1>18. CASE ReadForAnswer(c)
  BY <1>18 DEF ReadForAnswer, Goto, ReadRow, routeVars, mediaVars, cdrVars,
    legVars
<1>19. CASE WriteAnswer(c)
  <2>1. snap[c]["invite"] \in Rows /\ Answered(snap[c]["invite"]) \in Rows
    BY RowFacts
  <2>2. /\ Answered(snap[c]["invite"]).ended <=> snap[c]["invite"].ended
        /\ Answered(snap[c]["invite"]).disposition = snap[c]["invite"].disposition
    BY <2>1, RowFates
  <2>3. /\ dialog' = dialog /\ finals' = finals /\ pc'[c]["invite"] = "done"
        /\ cdr'[c] = Answered(snap[c]["invite"]) \/ cdr'[c] = cdr[c]
        /\ \A h \in Hangers : pc'[c][h] = pc[c][h]
    BY <1>19, <2>1, WriteRowFact DEF WriteAnswer
  <2>4. /\ dialog[c] # "none" /\ finals[c] = <<200>>
        /\ pc[c]["cancel"] \notin {"cancelledRead", "cancelledWrite"}
    BY <1>19 DEF WriteAnswer
  <2>5. CASE cdr'[c] = cdr[c]
    BY <2>3, <2>4, <2>5
  <2>6. CASE cdr'[c] = Answered(snap[c]["invite"])
    <3>1. cdr'[c].ended <=> snap[c]["invite"].ended
      BY <2>2, <2>6
    <3>2. CASE snap[c]["invite"].ended
      <4>1. /\ dialog[c] = "terminated" /\ cdr'[c].disposition = "answered"
            /\ \A h \in Hangers : pc[c][h] \notin Finalising
        BY <1>19, <2>2, <2>6, <3>2 DEF WriteAnswer
      <4> QED
        BY <2>3, <2>4, <4>1
    <3>3. CASE ~snap[c]["invite"].ended
      BY <2>3, <2>4, <3>1, <3>3
    <3> QED
      BY <3>2, <3>3
  <2> QED
    BY <2>3, <2>5, <2>6
<1>20. CASE SendFailure(c)
  BY <1>20 DEF SendFailure, Goto, Respond, routeVars, mediaVars, cdrVars,
    legVars
<1>21. CASE ReadForFailure(c)
  BY <1>21 DEF ReadForFailure, Goto, ReadRow, routeVars, mediaVars, cdrVars,
    legVars
<1>22. CASE WriteFailure(c)
  <2> DEFINE row == Closed(snap[c]["invite"], Disposition(code[c]), "failure")
  <2>1. snap[c]["invite"] \in Rows /\ row \in Rows
    BY RowFacts
  <2>2. row.ended /\ row.disposition = Disposition(code[c])
    BY <2>1, RowFates
  <2>3. WriteRow(c, "invite", row)
    BY <1>22 DEF WriteFailure
  <2> HIDE DEF row
  <2>4. /\ dialog' = dialog /\ finals' = finals /\ code' = code
        /\ pc'[c]["invite"] = "done"
        /\ cdr'[c] = row \/ cdr'[c] = cdr[c]
        /\ \A h \in Hangers : pc'[c][h] = pc[c][h]
    BY <2>1, <2>3, WriteRowFact
  <2>5. /\ dialog[c] = "none" /\ finals[c] = <<code[c]>> /\ code[c] # 200
        /\ code[c] \in FailureCodes
        /\ pc[c]["cancel"] \notin {"cancelledRead", "cancelledWrite"}
        /\ \A h \in Hangers : pc[c][h] \notin Finalising
    BY <1>22, AnswerFact DEF WriteFailure
  <2>6. cdr'[c].ended => Tells(c, code[c])'
    BY <2>2, <2>4, <2>5, AnswerFact
  <2> QED
    BY <2>4, <2>5, <2>6
<1>23. CASE CancelPending(c)
  BY <1>23 DEF CancelPending, Goto, routeVars, mediaVars, cdrVars, legVars
<1>24. CASE RejectCancelled(c)
  BY <1>24 DEF RejectCancelled, Goto, Respond, ReleaseBridge, Release,
    routeVars, mediaVars, cdrVars, legVars
<1>25. CASE ReadForCancel(c)
  BY <1>25 DEF ReadForCancel, Goto, ReadRow, routeVars, mediaVars, cdrVars,
    legVars
<1>26. CASE WriteCancelled(c)
  <2> DEFINE row == Closed(snap[c]["cancel"], "cancelled", "caller_cancel")
  <2>1. snap[c]["cancel"] \in Rows /\ row \in Rows
    BY RowFacts
  <2>2. row.ended /\ row.disposition = "cancelled"
    BY <2>1, RowFates
  <2>3. WriteRow(c, "cancel", row)
    BY <1>26 DEF WriteCancelled
  <2> HIDE DEF row
  <2>4. /\ dialog' = dialog /\ finals' = finals /\ code' = code
        /\ pc'[c]["cancel"] = "done"
        /\ cdr'[c] = row \/ cdr'[c] = cdr[c]
        /\ pc'[c]["invite"] = pc[c]["invite"]
        /\ \A h \in Hangers \ {"cancel"} : pc'[c][h] = pc[c][h]
    BY <2>1, <2>3, WriteRowFact
  <2>5. /\ dialog[c] = "none" /\ finals[c] = <<487>> /\ 487 \in FailureCodes
        /\ pc[c]["invite"] \notin {"failRead", "failWrite", "answerWrite"}
        /\ \A h \in Hangers : pc[c][h] \notin Finalising
    BY <1>26, StateFacts DEF WriteCancelled
  <2>6. cdr'[c].ended => Tells(c, 487)'
    BY <2>2, <2>4, <2>5, RowFates
  <2>7. /\ pc'[c]["invite"] \notin {"failRead", "failWrite", "answerWrite"}
        /\ pc'[c]["cancel"] \notin {"cancelledRead", "cancelledWrite"}
        /\ \A h \in Hangers : pc'[c][h] \notin Finalising
    BY ONLY <2>4, <2>5, HandlerFacts DEF Finalising
  <2> QED
    BY ONLY <2>5, <2>6, <2>7, HandlerFacts DEF CDRInv
<1>27. CASE CalleeDecides(c)
  BY <1>27 DEF CalleeDecides, routeVars, mediaVars, cdrVars, legVars
<1>28. CASE CtxExpires(c)
  BY <1>28 DEF CtxExpires, routeVars, mediaVars, cdrVars, legVars
<1>29. CASE ReapSession(c)
  BY <1>29 DEF ReapSession, Release, routeVars, mediaVars, cdrVars, legVars
<1>30. ASSUME NEW h \in Hangers, LookupDialog(c, h)
      PROVE  CDRInv(c)'
  BY <1>30 DEF LookupDialog, Goto, routeVars, mediaVars, cdrVars, legVars
<1>31. ASSUME NEW h \in Hangers, SendBye(c, h)
      PROVE  CDRInv(c)'
  BY <1>31 DEF SendBye, Goto, routeVars, mediaVars, cdrVars, legVars
<1>32. ASSUME NEW h \in Hangers, StopMedia(c, h)
      PROVE  CDRInv(c)'
  BY <1>32 DEF StopMedia, Goto, Release, routeVars, mediaVars, cdrVars, legVars
<1>33. ASSUME NEW h \in Hangers, TerminateDialog(c, h)
      PROVE  CDRInv(c)'
  BY <1>33 DEF TerminateDialog, Goto, routeVars, mediaVars, cdrVars, legVars
<1>34. ASSUME NEW h \in Hangers, ReadForFinal(c, h)
      PROVE  CDRInv(c)'
  BY <1>34 DEF ReadForFinal, Goto, ReadRow, routeVars, mediaVars, cdrVars,
    legVars
<1>35. ASSUME NEW h \in Hangers, WriteFinal(c, h)
      PROVE  CDRInv(c)'
  <2> DEFINE row == Closed(Answered(snap[c][h]), "answered", HangupCause(h))
  <2>1. snap[c][h] \in Rows /\ Answered(snap[c][h]) \in Rows /\ row \in Rows
    BY RowFacts
  <2>2. row.ended /\ row.disposition = "answered"
    BY <2>1, RowFates
  <2>3. WriteRow(c, h, row)
    BY <1>35 DEF WriteFinal
  <2> HIDE DEF row
  <2>4. /\ dialog' = dialog /\ finals' = finals /\ code' = code
        /\ pc'[c][h] = "done"
        /\ cdr'[c] = row \/ cdr'[c] = cdr[c]
        /\ pc'[c]["invite"] = pc[c]["invite"]
        /\ snap'[c]["invite"] = snap[c]["invite"]
        /\ \A k \in Hangers \ {h} : pc'[c][k] = pc[c][k]
    BY <2>1, <2>3, WriteRowFact
  <2>5. /\ dialog[c] = "terminated" /\ finals[c] = <<200>>
        /\ pc[c]["invite"] \notin {"failRead", "failWrite"}
        /\ pc[c]["cancel"] \notin {"cancelledRead", "cancelledWrite"}
        /\ \A k \in Hangers \ {h} : pc[c][k] \notin Finalising
        /\ pc[c]["invite"] = "answerWrite" => ~snap[c]["invite"].ended
    BY <1>35 DEF WriteFinal
  <2>6. cdr'[c].ended => Tells(c, 200)'
    BY <2>2, <2>4, <2>5
  <2>7. /\ pc'[c]["invite"] \notin {"failRead", "failWrite"}
        /\ pc'[c]["cancel"] \notin {"cancelledRead", "cancelledWrite"}
        /\ \A k \in Hangers : pc'[c][k] \notin Finalising
        /\ pc'[c]["invite"] = "answerWrite" => ~snap'[c]["invite"].ended
    BY ONLY <2>4, <2>5, HandlerFacts, h \in Hangers DEF Finalising
  <2> QED
    BY ONLY <2>6, <2>7, HandlerFacts DEF CDRInv
<1>36. ASSUME NEW h \in Hangers, SendHangup(c, h)
      PROVE  CDRInv(c)'
  BY <1>36 DEF SendHangup, Goto, routeVars, mediaVars, cdrVars, legVars
<1> HIDE DEF CDRInv, CallInv, TypeOK
<1> QED
  BY <1>1, <1>2, <1>3, <1>4, <1>5, <1>6, <1>7, <1>8, <1>9, <1>10, <1>11,
     <1>12, <1>13, <1>14, <1>15, <1>16, <1>17, <1>18, <1>19, <1>20, <1>21,
     <1>22, <1>23, <1>24, <1>25, <1>26, <1>27, <1>28, <1>29, <1>30, <1>31,
     <1>32, <1>33, <1>34, <1>35, <1>36, LabelFacts
  DEF CallStep, InviteStep, CancelStep, HangupStep, EnvironmentStep, TimerStep

\* A call that is held and kept is as sound as it was.
LEMMA KeptInv ==
  ASSUME NEW d \in Calls, MediaInv(d), CDRInv(d), Held(d), Kept(d)
  PROVE  MediaInv(d)' /\ CDRInv(d)'
<1> USE HandlerFacts DEF Held, Kept
<1>1. CASE pc'[d] = pc[d]
  BY <1>1 DEF MediaInv, CDRInv, Tells
<1>2. CASE \A h \in Handlers : pc'[d][h] = "dead"
  BY <1>2 DEF MediaInv, CDRInv, Tells, Finalising
<1> QED
  BY <1>1, <1>2 DEF Held

\* At first no dialog was taken down and no CDR closed.
LEMMA RecordInit == Init => RecordInv
BY HandlerFacts, RowFates DEF Init, RecordInv, MediaInv, CDRInv, Finalising

\* Every step keeps every call's media and CDR sound.
LEMMA RecordStep == TypeOK /\ IInv /\ RecordInv /\ [Next]_vars => RecordInv'
<1> SUFFICES ASSUME TypeOK, IInv, RecordInv, [Next]_vars, NEW d \in Calls
             PROVE  MediaInv(d)' /\ CDRInv(d)'
  BY DEF RecordInv
<1>1. CallInv(d) /\ MediaInv(d) /\ CDRInv(d)
  BY DEF IInv, RecordInv
<1>2. CASE CallStep(d)
  BY <1>1, <1>2, MediaInvStep, CDRInvStep
<1>3. ASSUME NEW c \in Calls \ {d}, CallStep(c)
      PROVE  MediaInv(d)' /\ CDRInv(d)'
  BY <1>1, <1>3, OthersHeld, OthersKept, KeptInv DEF TypeOK
<1>4. CASE UNCHANGED vars
  BY <1>1, <1>4 DEF vars, legVars, mediaVars, cdrVars, MediaInv, CDRInv, Tells
<1> QED
  BY <1>2, <1>3, <1>4 DEF Next

\* The two invariants hold throughout.
LEMMA RecordInvariance == Spec => [](TypeOK /\ IInv /\ RecordInv)
BY Invariance, RecordInit, RecordStep, PTL DEF Spec

\* Whichever of the hangups takes the dialog down, by then StopMedia has freed
\* the media session and closed the recording, and nothing brings them back.
THEOREM HangupFreesMedia == Spec => []HungUpMediaFreed
<1>1. RecordInv => HungUpMediaFreed
  BY DEF RecordInv, MediaInv, HungUpMediaFreed
<1> QED
  BY <1>1, RecordInvariance, PTL

\* Whatever the order of the INVITE, CANCEL and BYE goroutines' reads and writes
\* of the row, a CDR that is closed tells the response the caller was given, and
\* not that of a call which still goes on.
THEOREM CDRSound == Spec => []CDRTellsOutcome
<1>1. IInv /\ RecordInv => CDRTellsOutcome
  <2> SUFFICES ASSUME IInv, RecordInv, NEW c \in Calls, cdr[c].ended
               PROVE  /\ dialog[c] # "active"
                      /\ \E status \in FailureCodes \union {200} : Tells(c, status)
    BY DEF CDRTellsOutcome, Tells
  <2> QED
    BY DEF RecordInv, CDRInv, Tells, IInv, CallInv
<1> QED
  BY <1>1, RecordInvariance, PTL

\* A step of a call leaves its CDR alone once that is closed, unless the answer
\* is being written.
LEMMA ClosedStays ==
  ASSUME TypeOK, NEW c \in Calls, CallInv(c), CDRInv(c), CallStep(c), cdr[c].ended,
         pc[c]["invite"] # "answerWrite"
  PROVE  cdr'[c] = cdr[c]
<1> USE HandlerFacts
<1>1. finals[c] # <<>>
  <2>1. PICK status \in FailureCodes \union {200} : Tells(c, status)
    BY DEF CDRInv
  <2>2. finals[c] = <<status>>
    BY <2>1 DEF Tells
  <2> QED
    BY <2>2
<1>2. CASE HandleInvite(c)
  BY <1>1, <1>2 DEF HandleInvite, CallInv, Early
<1>3. CASE WriteFailure(c) \/ WriteCancelled(c)
  BY <1>3 DEF WriteFailure, WriteCancelled, CDRInv
<1>4. ASSUME NEW h \in Hangers, WriteFinal(c, h)
      PROVE  cdr'[c] = cdr[c]
  BY <1>4 DEF WriteFinal, CDRInv, Finalising
<1>5. CASE \/ RejectInvite(c) \/ AdmitInbound(c) \/ RouteCall(c) \/ PushWait(c)
           \/ AllocateMedia(c) \/ RegisterPending(c) \/ StartFork(c)
           \/ TryTrunk(c) \/ DialReturns(c) \/ AfterDial(c) \/ TakePending(c)
           \/ ResolveResult(c) \/ AckCallee(c) \/ CompleteMedia(c)
           \/ RelayAnswer(c) \/ CreateDialog(c) \/ ReadForAnswer(c)
           \/ SendFailure(c) \/ ReadForFailure(c) \/ CancelPending(c)
           \/ RejectCancelled(c) \/ ReadForCancel(c) \/ CalleeDecides(c)
           \/ CtxExpires(c) \/ ReapSession(c)
  BY <1>5
  DEF RejectInvite, AdmitInbound, RouteCall, PushWait, AllocateMedia,
      RegisterPending, StartFork, TryTrunk, DialReturns, AfterDial,
      TakePending, ResolveResult, AckCallee, CompleteMedia, RelayAnswer,
      CreateDialog, ReadForAnswer, SendFailure, ReadForFailure, CancelPending,
      RejectCancelled, ReadForCancel, CalleeDecides, CtxExpires, ReapSession,
      ReadRow, cdrVars
<1>6. CASE WriteAnswer(c)
  BY <1>6 DEF WriteAnswer
<1>7. ASSUME NEW h \in Hangers,
             \/ LookupDialog(c, h) \/ SendBye(c, h) \/ StopMedia(c, h)
             \/ TerminateDialog(c, h) \/ ReadForFinal(c, h) \/ SendHangup(c, h)
      PROVE  cdr'[c] = cdr[c]
  BY <1>7
  DEF LookupDialog, SendBye, StopMedia, TerminateDialog, ReadForFinal, SendHangup,
      ReadRow, cdrVars
<1> QED
  BY <1>2, <1>3, <1>4, <1>5, <1>6, <1>7, LabelFacts
  DEF CallStep, InviteStep, CancelStep, HangupStep, EnvironmentStep, TimerStep

\* A CDR has one closer: the INVITE goroutine that sent a failure, the CANCEL
\* goroutine that took the pending call, or the hangup that got the dialog.
\* Nobody but updateCDROnAnswer, with a row it read before, touches it again.
THEOREM ClosedOnce == Spec => ClosedRowStable
<1>1. TypeOK /\ IInv /\ RecordInv /\ [Next]_vars =>
        [\A c \in Calls :
           cdr[c].ended /\ cdr'[c] # cdr[c] => pc[c]["invite"] = "answerWrite"]_vars
  <2> SUFFICES ASSUME TypeOK, IInv, RecordInv, Next, NEW d \in Calls, cdr[d].ended,
                      pc[d]["invite"] # "answerWrite"
               PROVE  cdr'[d] = cdr[d]
    OBVIOUS
  <2>1. PICK c \in Calls : CallStep(c)
    BY DEF Next
  <2>2. CASE c = d
    BY <2>1, <2>2, ClosedStays DEF IInv, RecordInv
  <2>3. CASE c # d
    BY <2>1, <2>3, OthersKept DEF Kept
  <2> QED
    BY <2>2, <2>3
<1> QED
  BY <1>1, RecordInvariance, PTL DEF Spec, ClosedRowStable

-----------------------------------------------------------------------------
(* What is owed on every way out: an answer, and the ports.                *)

\* What a call has of its media and its answers, at each stage of its handlers.
ExitInv(c) ==
  LET inv == pc[c]["invite"]
      can == pc[c]["cancel"]
  IN  /\ ~bridge[c] => session[c] = "none"
      /\ inv \in Early \ {"register"} => ~bridge[c]
      /\ inv \in {"ack", "complete", "respond", "create"} => result[c] = "answered"
      /\ inv \in {"respond", "create"} =>
           session[c] = "none" \/ media[c] \/ "media" \in Faults
      /\ inv \in {"failing", "failRead", "failWrite"} => session[c] = "none"
      /\ inv \in Waiting /\ c \notin pending /\ can # "reject487" =>
           session[c] = "none" /\ finals[c] # <<>>
      /\ inv = "done" =>
           \/ finals[c] # <<>> \/ can = "reject487"
           \/ "transport" \in Faults /\ result[c] = "answered"
      /\ inv = "done" /\ can # "reject487" /\ dialog[c] = "none" =>
           \/ session[c] = "none"
           \/ "media" \in Faults /\ result[c] = "answered" /\ ~media[c]

\* A step of a call keeps track of what it owes.
LEMMA ExitInvStep ==
  ASSUME TypeOK, NEW c \in Calls, CallInv(c), ExitInv(c), CallStep(c)
  PROVE  ExitInv(c)'
<1> USE HandlerFacts
    DEF TypeOK, HandlerTypeOK, MediaTypeOK, LegTypeOK, CallInv, ExitInv, Early,
        Waiting, Owning, NotTaken, Taken, TearingDown
<1>1. CASE HandleInvite(c)
  <2>1. \E d \in {"admit", "route", "allocate"} : Goto(c, "invite", d)
    BY <1>1, EnvironmentAssumption DEF HandleInvite, FirstLabel
  <2> QED
    BY <1>1, <2>1 DEF HandleInvite, Goto, mediaVars
<1>2. CASE RejectInvite(c)
  <2>1. finals[c] = <<>> /\ \E status \in {400, 401, 403, 500} : Respond(c, status)
    BY <1>2 DEF RejectInvite
  <2>2. finals'[c] # <<>>
    BY <2>1, RespondFact, StateFacts
  <2> QED
    BY <1>2, <2>2 DEF RejectInvite, Goto, mediaVars
<1>3. CASE AdmitInbound(c)
  BY <1>3 DEF AdmitInbound, Goto, FailWith, routeVars, mediaVars, cdrVars,
    legVars
<1>4. CASE RouteCall(c)
  BY <1>4 DEF RouteCall, Goto, FailWith, routeVars, mediaVars, cdrVars, legVars
<1>5. CASE PushWait(c)
  BY <1>5 DEF PushWait, Goto, FailWith, routeVars, mediaVars, cdrVars, legVars
<1>6. CASE AllocateMedia(c)
  BY <1>6 DEF AllocateMedia, Goto, FailWith, routeVars, mediaVars, cdrVars,
    legVars
<1>7. CASE RegisterPending(c)
  BY <1>7 DEF RegisterPending, Goto, routeVars, mediaVars, cdrVars, legVars
<1>8. CASE StartFork(c)
  BY <1>8 DEF StartFork, Goto, routeVars, mediaVars, cdrVars, legVars
<1>9. CASE TryTrunk(c)
  BY <1>9 DEF TryTrunk, Goto, routeVars, mediaVars, cdrVars, legVars
<1>10. CASE DialReturns(c)
  BY <1>10 DEF DialReturns, Goto, routeVars, mediaVars, cdrVars, legVars
<1>11. CASE AfterDial(c)
  BY <1>11 DEF AfterDial, Goto, routeVars, mediaVars, cdrVars, legVars
<1>12. CASE TakePending(c)
  <2>1. /\ pc[c]["invite"] = "take"
        /\ UNCHANGED <<result, bridge, media, dialog, finals>>
    BY <1>12 DEF TakePending, mediaVars, legVars
  <2>2. CASE Goto(c, "invite", "resolve") /\ UNCHANGED session
    BY <2>1, <2>2 DEF Goto
  <2>3. CASE c \notin pending /\ Goto(c, "invite", "done") /\ UNCHANGED session
    BY <2>1, <2>3 DEF Goto
  <2>4. CASE c \notin pending /\ Goto(c, "invite", "done") /\ ReleaseBridge(c)
    BY <2>1, <2>4 DEF Goto, ReleaseBridge, Release
  <2> QED
    BY <1>12, <2>2, <2>3, <2>4 DEF TakePending
<1>13. CASE ResolveResult(c)
  BY <1>13 DEF ResolveResult, Goto, FailWith, ReleaseBridge, Release, routeVars,
    mediaVars, cdrVars, legVars
<1>14. CASE AckCallee(c)
  BY <1>14 DEF AckCallee, Goto, FailWith, ReleaseBridge, Release, routeVars,
    mediaVars, cdrVars, legVars
<1>15. CASE CompleteMedia(c)
  BY <1>15 DEF CompleteMedia, Goto, Release, routeVars, mediaVars, cdrVars,
    legVars
<1>16. CASE RelayAnswer(c)
  <2>1. /\ result[c] = "answered" /\ pc[c]["invite"] = "respond"
        /\ UNCHANGED <<result, bridge, media, dialog>>
    BY <1>16 DEF RelayAnswer
  <2>2. CASE Respond(c, 200) /\ Goto(c, "invite", "create") /\ UNCHANGED session
    BY <1>16, <2>1, <2>2 DEF RelayAnswer, Goto
  <2>3. CASE /\ "transport" \in Faults /\ Goto(c, "invite", "done")
             /\ IF media[c] THEN Release(c) ELSE UNCHANGED session
    BY <1>16, <2>1, <2>3 DEF Release, Goto
  <2> QED
    BY <1>16, <2>2, <2>3 DEF RelayAnswer
<1>17. CASE CreateDialog(c)
  BY <1>17 DEF CreateDialog, Goto, routeVars, mediaVars, cdrVars, legVars
<1>18. CASE ReadForAnswer(c)
  <2>1. finals[c] = <<200>>
    BY <1>18 DEF ReadForAnswer
  <2>2. finals[c] # <<>>
    BY <2>1
  <2> QED
    BY <1>18, <2>2 DEF ReadForAnswer, Goto, ReadRow, mediaVars, legVars
<1>19. CASE WriteAnswer(c)
  <2>1. finals[c] = <<200>>
    BY <1>19 DEF WriteAnswer
  <2>2. finals[c] # <<>>
    BY <2>1
  <2> QED
    BY <1>19, <2>2 DEF WriteAnswer, Goto, WriteRow, mediaVars, legVars
<1>20. CASE SendFailure(c)
  <2>1. finals[c] = <<>> /\ Respond(c, code[c]) /\ code[c] \in FailureCodes
    BY <1>20 DEF SendFailure, RouteTypeOK
  <2>2. finals'[c] # <<>>
    BY <2>1, RespondFact
  <2> QED
    BY <1>20, <2>2 DEF SendFailure, Goto, mediaVars
<1>21. CASE ReadForFailure(c)
  BY <1>21 DEF ReadForFailure, Goto, ReadRow, routeVars, mediaVars, cdrVars,
    legVars
<1>22. CASE WriteFailure(c)
  BY <1>22 DEF WriteFailure, Goto, WriteRow, routeVars, mediaVars, cdrVars,
    legVars
<1>23. CASE CancelPending(c)
  BY <1>23 DEF CancelPending, Goto, routeVars, mediaVars, cdrVars, legVars
<1>24. CASE RejectCancelled(c)
  <2>1. finals[c] = <<>> /\ Respond(c, 487)
    BY <1>24 DEF RejectCancelled
  <2>2. finals'[c] # <<>>
    BY <2>1, RespondFact, StateFacts
  <2>3. session'[c] = "none"
    BY <1>24 DEF RejectCancelled, ReleaseBridge, Release
  <2> QED
    BY <1>24, <2>2, <2>3 DEF RejectCancelled, Goto
<1>25. CASE ReadForCancel(c)
  BY <1>25 DEF ReadForCancel, Goto, ReadRow, routeVars, mediaVars, cdrVars,
    legVars
<1>26. CASE WriteCancelled(c)
  BY <1>26 DEF WriteCancelled, Goto, WriteRow, routeVars, mediaVars, cdrVars,
    legVars
<1>27. CASE CalleeDecides(c)
  BY <1>27 DEF CalleeDecides, routeVars, mediaVars, cdrVars, legVars
<1>28. CASE CtxExpires(c)
  BY <1>28 DEF CtxExpires, routeVars, mediaVars, cdrVars, legVars
<1>29. CASE ReapSession(c)
  BY <1>29 DEF ReapSession, Release, routeVars, mediaVars, cdrVars, legVars
<1>30. ASSUME NEW h \in Hangers, LookupDialog(c, h)
      PROVE  ExitInv(c)'
  BY <1>30 DEF LookupDialog, Goto, routeVars, mediaVars, cdrVars, legVars
<1>31. ASSUME NEW h \in Hangers, SendBye(c, h)
      PROVE  ExitInv(c)'
  BY <1>31 DEF SendBye, Goto, routeVars, mediaVars, cdrVars, legVars
<1>32. ASSUME NEW h \in Hangers, StopMedia(c, h)
      PROVE  ExitInv(c)'
  BY <1>32 DEF StopMedia, Goto, Release, routeVars, mediaVars, cdrVars, legVars
<1>33. ASSUME NEW h \in Hangers, TerminateDialog(c, h)
      PROVE  ExitInv(c)'
  BY <1>33 DEF TerminateDialog, Goto, routeVars, mediaVars, cdrVars, legVars
<1>34. ASSUME NEW h \in Hangers, ReadForFinal(c, h)
      PROVE  ExitInv(c)'
  BY <1>34 DEF ReadForFinal, Goto, ReadRow, routeVars, mediaVars, cdrVars,
    legVars
<1>35. ASSUME NEW h \in Hangers, WriteFinal(c, h)
      PROVE  ExitInv(c)'
  BY <1>35 DEF WriteFinal, Goto, WriteRow, routeVars, mediaVars, cdrVars,
    legVars
<1>36. ASSUME NEW h \in Hangers, SendHangup(c, h)
      PROVE  ExitInv(c)'
  BY <1>36 DEF SendHangup, Goto, routeVars, mediaVars, cdrVars, legVars
<1> QED
  BY <1>1, <1>2, <1>3, <1>4, <1>5, <1>6, <1>7, <1>8, <1>9, <1>10, <1>11,
     <1>12, <1>13, <1>14, <1>15, <1>16, <1>17, <1>18, <1>19, <1>20, <1>21,
     <1>22, <1>23, <1>24, <1>25, <1>26, <1>27, <1>28, <1>29, <1>30, <1>31,
     <1>32, <1>33, <1>34, <1>35, <1>36, LabelFacts
  DEF CallStep, InviteStep, CancelStep, HangupStep, EnvironmentStep, TimerStep

\* A call that is held and kept owes what it did.
LEMMA HeldExit ==
  ASSUME NEW d \in Calls, ExitInv(d), Held(d), Kept(d) PROVE ExitInv(d)'
<1> USE HandlerFacts DEF Held, Kept
<1>1. CASE pc'[d] = pc[d]
  BY <1>1 DEF ExitInv
<1>2. CASE \A h \in Handlers : pc'[d][h] = "dead"
  BY <1>2 DEF ExitInv, Early, Waiting
<1> QED
  BY <1>1, <1>2 DEF Held

ExitsInv == \A c \in Calls : ExitInv(c)

\* At first nothing is owed.
LEMMA ExitInit == Init => ExitsInv
BY HandlerFacts DEF Init, ExitsInv, ExitInv, Waiting

\* Every step keeps track of what every call owes.
LEMMA ExitStep == TypeOK /\ IInv /\ ExitsInv /\ [Next]_vars => ExitsInv'
<1> SUFFICES ASSUME TypeOK, IInv, ExitsInv, [Next]_vars, NEW d \in Calls
             PROVE  ExitInv(d)'
  BY DEF ExitsInv
<1>1. CallInv(d) /\ ExitInv(d)
  BY DEF IInv, ExitsInv
<1>2. CASE CallStep(d)
  BY <1>1, <1>2, ExitInvStep
<1>3. ASSUME NEW c \in Calls \ {d}, CallStep(c)
      PROVE  ExitInv(d)'
  BY <1>1, <1>3, OthersHeld, OthersKept, HeldExit DEF TypeOK
<1>4. CASE UNCHANGED vars
  BY <1>1, <1>4 DEF vars, legVars, mediaVars, ExitInv
<1> QED
  BY <1>2, <1>3, <1>4 DEF Next

\* What is owed is known throughout.
LEMMA ExitInvariance == Spec => [](TypeOK /\ IInv /\ ExitsInv)
BY Invariance, ExitInit, ExitStep, PTL DEF Spec

\* Whatever CANCEL, timer or failure comes between the steps of the INVITE
\* goroutine, it does not end and leave the caller without a final response, unless
\* the CANCEL goroutine is about to send it or the 200 could not be sent.
THEOREM ExitsAnswer == Spec => []ExitAnswers
<1>1. ExitsInv => ExitAnswers
  BY DEF ExitsInv, ExitInv, ExitAnswers
<1> QED
  BY <1>1, ExitInvariance, PTL

\* Every way in which a call comes to nothing gives back the ports it reserved,
\* whichever goroutine takes it: without the reaper, and but for the answer whose
\* media could not be set up.
THEOREM FailuresFree == Spec => []FailedCallFreed
<1>1. ExitsInv => FailedCallFreed
  BY DEF ExitsInv, ExitInv, FailedCallFreed
<1> QED
  BY <1>1, ExitInvariance, PTL

\* The INVITE and the CANCEL goroutine give the caller one final response between
\* them, whatever comes between their steps, and not none.
THEOREM CallersAnswered == Spec => []AnsweredOnce
BY OneFinal, ExitsAnswer, PTL DEF AnsweredOnce

\* Failed before its dialog or hung up after it, a call gives its media back.
THEOREM MediaReturned == Spec => []MediaFreed
BY HangupFreesMedia, FailuresFree, PTL DEF MediaFreed

-----------------------------------------------------------------------------
(* The handlers use the media package as MediaSession lets them.           *)

\* What MediaSession lets happen to the session of a call.
LifeMove(c) ==
  \/ MediaLife(c)' = MediaLife(c)
  \/ MediaLife(c) = "none" /\ MediaLife(c)' = "new"
  \/ MediaLife(c) = "new" /\ MediaLife(c)' = "relaying"
  \/ MediaLife(c) \in {"new", "relaying"} /\ MediaLife(c)' = "closed"

\* A release closes the session of a call that has a bridge, or does nothing.
LEMMA ReleaseMove ==
  ASSUME MediaTypeOK, NEW c \in Calls, ExitInv(c), Release(c), UNCHANGED bridge
  PROVE  LifeMove(c)
BY DEF MediaTypeOK, ExitInv, Release, LifeMove, MediaLife

\* Every step of a call moves its session as MediaSession does.
LEMMA LifeStep ==
  ASSUME TypeOK, NEW c \in Calls, CallInv(c), ExitInv(c), CallStep(c)
  PROVE  LifeMove(c)
<1>1. CASE AllocateMedia(c)
  <2>1. bridge[c] = FALSE /\ session[c] = "none"
    BY <1>1 DEF AllocateMedia, ExitInv, Early
  <2> QED
    BY <1>1, <2>1
    DEF AllocateMedia, LifeMove, MediaLife, TypeOK, MediaTypeOK
<1>2. CASE CompleteMedia(c)
  <2>1. UNCHANGED bridge
    BY <1>2 DEF CompleteMedia
  <2>2. CASE session[c] = "new" /\ session' = [session EXCEPT ![c] = "relaying"]
    BY <2>1, <2>2 DEF LifeMove, MediaLife, TypeOK, MediaTypeOK
  <2>3. CASE Release(c)
    BY <2>1, <2>3, ReleaseMove DEF TypeOK
  <2>4. CASE UNCHANGED session
    BY <2>1, <2>4 DEF LifeMove, MediaLife
  <2> QED
    BY <1>2, <2>2, <2>3, <2>4 DEF CompleteMedia
<1>3. CASE \/ TakePending(c) \/ ResolveResult(c) \/ AckCallee(c) \/ RelayAnswer(c)
           \/ RejectCancelled(c) \/ ReapSession(c)
           \/ \E h \in Hangers : StopMedia(c, h)
  <2>1. UNCHANGED bridge /\ (Release(c) \/ UNCHANGED session)
    BY <1>3
    DEF TakePending, ResolveResult, AckCallee, RelayAnswer, RejectCancelled,
        ReapSession, StopMedia, ReleaseBridge
  <2>2. CASE Release(c)
    BY <2>1, <2>2, ReleaseMove DEF TypeOK
  <2>3. CASE UNCHANGED session
    BY <2>1, <2>3 DEF LifeMove, MediaLife
  <2> QED
    BY <2>1, <2>2, <2>3
<1>4. CASE \/ HandleInvite(c) \/ RejectInvite(c) \/ AdmitInbound(c) \/ RouteCall(c)
           \/ PushWait(c) \/ RegisterPending(c) \/ StartFork(c) \/ TryTrunk(c)
           \/ DialReturns(c) \/ AfterDial(c) \/ CreateDialog(c)
           \/ ReadForAnswer(c) \/ WriteAnswer(c) \/ SendFailure(c)
           \/ ReadForFailure(c) \/ WriteFailure(c) \/ CancelPending(c)
           \/ ReadForCancel(c) \/ WriteCancelled(c) \/ CalleeDecides(c)
           \/ CtxExpires(c)
  <2>1. UNCHANGED <<session, bridge>>
    BY <1>4
    DEF HandleInvite, RejectInvite, AdmitInbound, RouteCall, PushWait,
        RegisterPending, StartFork, TryTrunk, DialReturns, AfterDial,
        CreateDialog, ReadForAnswer, WriteAnswer, SendFailure, ReadForFailure,
        WriteFailure, CancelPending, ReadForCancel, WriteCancelled,
        CalleeDecides, CtxExpires, ReadRow, WriteRow, mediaVars
  <2> QED
    BY <2>1 DEF LifeMove, MediaLife
<1>5. ASSUME NEW h \in Hangers,
             \/ LookupDialog(c, h) \/ SendBye(c, h) \/ TerminateDialog(c, h)
             \/ ReadForFinal(c, h) \/ WriteFinal(c, h) \/ SendHangup(c, h)
      PROVE  LifeMove(c)
  <2>1. UNCHANGED <<session, bridge>>
    BY <1>5
    DEF LookupDialog, SendBye, TerminateDialog, ReadForFinal, WriteFinal,
        SendHangup, ReadRow, WriteRow, mediaVars
  <2> QED
    BY <2>1 DEF LifeMove, MediaLife
<1> QED
  BY <1>1, <1>2, <1>3, <1>4, <1>5, LabelFacts
  DEF CallStep, InviteStep, CancelStep, HangupStep, EnvironmentStep, TimerStep

\* A step of the handlers is a step of MediaSession, or none.
LEMMA SessionStep ==
  TypeOK /\ IInv /\ ExitsInv /\ [Next]_vars =>
    [Media!SessionNext]_[c \in Calls |-> MediaLife(c)]
<1> SUFFICES ASSUME TypeOK, IInv, ExitsInv, [Next]_vars
             PROVE  [Media!SessionNext]_[c \in Calls |-> MediaLife(c)]
  OBVIOUS
<1> DEFINE life == [c \in Calls |-> MediaLife(c)]
<1>1. ASSUME NEW c \in Calls, CallStep(c)
      PROVE  [Media!SessionNext]_life
  <2>1. LifeMove(c)
    BY <1>1, LifeStep DEF IInv, ExitsInv
  <2>2. \A d \in Calls \ {c} : MediaLife(d)' = MediaLife(d)
    BY <1>1, OthersKept DEF Kept, MediaLife
  <2>3. life' = [life EXCEPT ![c] = MediaLife(c)']
    BY <2>2
  <2>4. CASE MediaLife(c)' = MediaLife(c)
    BY <2>3, <2>4
  <2>5. CASE MediaLife(c) = "none" /\ MediaLife(c)' = "new"
    <3>1. Media!Open(c)
      BY <2>3, <2>5 DEF Media!Open, Media!Step
    <3> QED
      BY <3>1 DEF Media!SessionNext
  <2>6. CASE MediaLife(c) = "new" /\ MediaLife(c)' = "relaying"
    <3>1. Media!Relay(c)
      BY <2>3, <2>6 DEF Media!Relay, Media!Step
    <3> QED
      BY <3>1 DEF Media!SessionNext
  <2>7. CASE MediaLife(c) \in {"new", "relaying"} /\ MediaLife(c)' = "closed"
    <3>1. Media!Close(c)
      BY <2>3, <2>7 DEF Media!Close, Media!Step
    <3> QED
      BY <3>1 DEF Media!SessionNext
  <2> QED
    BY <2>1, <2>4, <2>5, <2>6, <2>7 DEF LifeMove
<1>2. CASE UNCHANGED vars
  BY <1>2 DEF vars, mediaVars, MediaLife
<1> QED
  BY <1>1, <1>2 DEF Next

\* The INVITE, CANCEL and BYE goroutines and the reaper together use a call's media
\* session as the media package asks: opened once, relayed only while it is open,
\* and never touched again once one of them has released it.
THEOREM SessionRefinement == Spec => ImplementsSession
<1>1. Init => Media!SessionInit
  BY DEF Init, Media!SessionInit, MediaLife
<1>2. TypeOK /\ IInv /\ ExitsInv /\ [Next]_vars =>
        [Media!SessionNext]_[c \in Calls |-> MediaLife(c)]
  BY SessionStep
<1> QED
  BY <1>1, <1>2, ExitInvariance, PTL DEF Spec, ImplementsSession, Media!SessionSpec

-----------------------------------------------------------------------------
(* The channel limit of a trunk.                                           *)

\* The calls a trunk carries.
Carried(t) == {c \in Calls : dialog[c] = "active" /\ trunk[c] = t}

\* A trunk with room for a call.
Free(t) == MaxChannels[t] > 0 => Load(t) < MaxChannels[t]

\* The call was admitted, and will be connected if all goes well.
Placing == {"route", "reroute", "pushWait", "allocate", "register", "fork", "try",
            "dial", "dialled", "take", "resolve", "ack", "complete", "respond", "create"}

\* The trunk of a call that was admitted keeps its room, and so does the one an
\* outbound call is being sent to.
RoomInv(c) == \A t \in Trunks :
  /\ pc[c]["invite"] \in Placing /\ trunk[c] = t => Free(t)
  /\ /\ pc[c]["invite"] \in {"dial", "dialled"} /\ direction[c] = "outbound"
     /\ TrunkOrder[attempt[c]] = t
     => Free(t)

SerialInv == TrunkWithinLimit /\ \A c \in Calls : RoomInv(c)

\* Calls are set up one at a time.
Serial == \A c, d \in Calls : InSetup(c) /\ InSetup(d) => c = d

\* A trunk's load is a number that does not grow when it carries no new call.
LEMMA LoadFacts ==
  ASSUME IsFiniteSet(Calls), NEW t
  PROVE  /\ Load(t) \in Nat /\ Load(t)' \in Nat
         /\ Carried(t)' \subseteq Carried(t) => Load(t)' <= Load(t)
         /\ \A c : Carried(t)' \subseteq Carried(t) \union {c} => Load(t)' <= Load(t) + 1
<1>1. IsFiniteSet(Carried(t)) /\ IsFiniteSet(Carried(t)')
  BY FS_Subset DEF Carried
<1>2. Load(t) = Cardinality(Carried(t)) /\ Load(t)' = Cardinality(Carried(t)')
  BY DEF Load, Carried
<1>3. Load(t) \in Nat /\ Load(t)' \in Nat
  BY <1>1, <1>2, FS_CardinalityType
<1>4. Carried(t)' \subseteq Carried(t) => Load(t)' <= Load(t)
  BY <1>1, <1>2, FS_Subset
<1>5. ASSUME NEW c, Carried(t)' \subseteq Carried(t) \union {c}
      PROVE  Load(t)' <= Load(t) + 1
  <2>1. /\ IsFiniteSet(Carried(t) \union {c})
        /\ Cardinality(Carried(t) \union {c}) <= Cardinality(Carried(t)) + 1
    <3>1. /\ IsFiniteSet(Carried(t) \union {c})
          /\ Cardinality(Carried(t) \union {c}) =
               IF c \in Carried(t) THEN Cardinality(Carried(t))
               ELSE Cardinality(Carried(t)) + 1
      BY <1>1, FS_AddElement, Zenon
    <3> QED
      BY <1>2, <1>3, <3>1
  <2>2. Cardinality(Carried(t)') <= Cardinality(Carried(t) \union {c})
    BY <1>5, <2>1, FS_Subset
  <2>3. Cardinality(Carried(t) \union {c}) \in Nat
    BY <2>1, FS_CardinalityType
  <2> QED
    BY <1>2, <1>3, <2>1, <2>2, <2>3
<1> QED
  BY <1>3, <1>4, <1>5

\* A call that is not connected by this step counts where it did, or no more.
Stays(c) == dialog'[c] = "active" => dialog[c] = "active" /\ trunk'[c] = trunk[c]

\* Only CreateDialog adds to a trunk's load.
LEMMA StaysStep ==
  ASSUME TypeOK, NEW c \in Calls, CallInv(c), CallStep(c), ~CreateDialog(c)
  PROVE  Stays(c)
<1> USE HandlerFacts DEF TypeOK, LegTypeOK, RouteTypeOK, Stays
<1>a. /\ pc[c]["invite"] \in {"idle", "dialled"} => dialog[c] = "none"
      /\ ~CreateDialog(c)
  BY DEF CallInv, Early, Waiting
<1>1. CASE HandleInvite(c)
  BY <1>1, <1>a DEF HandleInvite, Goto, FirstLabel, routeVars, mediaVars,
    cdrVars, legVars
<1>2. CASE RejectInvite(c)
  BY <1>2, <1>a DEF RejectInvite, Goto, Respond, routeVars, mediaVars, cdrVars,
    legVars
<1>3. CASE AdmitInbound(c)
  BY <1>3, <1>a DEF AdmitInbound, Goto, FailWith, routeVars, mediaVars, cdrVars,
    legVars
<1>4. CASE RouteCall(c)
  BY <1>4, <1>a DEF RouteCall, Goto, FailWith, routeVars, mediaVars, cdrVars,
    legVars
<1>5. CASE PushWait(c)
  BY <1>5, <1>a DEF PushWait, Goto, FailWith, routeVars, mediaVars, cdrVars,
    legVars
<1>6. CASE AllocateMedia(c)
  BY <1>6, <1>a DEF AllocateMedia, Goto, FailWith, routeVars, mediaVars,
    cdrVars, legVars
<1>7. CASE RegisterPending(c)
  BY <1>7, <1>a DEF RegisterPending, Goto, routeVars, mediaVars, cdrVars,
    legVars
<1>8. CASE StartFork(c)
  BY <1>8, <1>a DEF StartFork, Goto, routeVars, mediaVars, cdrVars, legVars
<1>9. CASE TryTrunk(c)
  BY <1>9, <1>a DEF TryTrunk, Goto, routeVars, mediaVars, cdrVars, legVars
<1>10. CASE DialReturns(c)
  BY <1>10, <1>a DEF DialReturns, Goto, routeVars, mediaVars, cdrVars, legVars
<1>11. CASE AfterDial(c)
  BY <1>11, <1>a DEF AfterDial, Goto, routeVars, mediaVars, cdrVars, legVars
<1>12. CASE TakePending(c)
  BY <1>12, <1>a DEF TakePending, Goto, ReleaseBridge, Release, routeVars,
    mediaVars, cdrVars, legVars
<1>13. CASE ResolveResult(c)
  BY <1>13, <1>a DEF ResolveResult, Goto, FailWith, ReleaseBridge, Release,
    routeVars, mediaVars, cdrVars, legVars
<1>14. CASE AckCallee(c)
  BY <1>14, <1>a DEF AckCallee, Goto, FailWith, ReleaseBridge, Release,
    routeVars, mediaVars, cdrVars, legVars
<1>15. CASE CompleteMedia(c)
  BY <1>15, <1>a DEF CompleteMedia, Goto, Release, routeVars, mediaVars,
    cdrVars, legVars
<1>16. CASE RelayAnswer(c)
  BY <1>16, <1>a DEF RelayAnswer, Goto, Respond, Release, routeVars, mediaVars,
    cdrVars, legVars
<1>17. CASE CreateDialog(c)
  BY <1>17, <1>a DEF CreateDialog, Goto, routeVars, mediaVars, cdrVars, legVars
<1>18. CASE ReadForAnswer(c)
  BY <1>18, <1>a DEF ReadForAnswer, Goto, ReadRow, routeVars, mediaVars,
    cdrVars, legVars
<1>19. CASE WriteAnswer(c)
  BY <1>19, <1>a DEF WriteAnswer, Goto, WriteRow, routeVars, mediaVars, cdrVars,
    legVars
<1>20. CASE SendFailure(c)
  BY <1>20, <1>a DEF SendFailure, Goto, Respond, routeVars, mediaVars, cdrVars,
    legVars
<1>21. CASE ReadForFailure(c)
  BY <1>21, <1>a DEF ReadForFailure, Goto, ReadRow, routeVars, mediaVars,
    cdrVars, legVars
<1>22. CASE WriteFailure(c)
  BY <1>22, <1>a DEF WriteFailure, Goto, WriteRow, routeVars, mediaVars,
    cdrVars, legVars
<1>23. CASE CancelPending(c)
  BY <1>23, <1>a DEF CancelPending, Goto, routeVars, mediaVars, cdrVars, legVars
<1>24. CASE RejectCancelled(c)
  BY <1>24, <1>a DEF RejectCancelled, Goto, Respond, ReleaseBridge, Release,
    routeVars, mediaVars, cdrVars, legVars
<1>25. CASE ReadForCancel(c)
  BY <1>25, <1>a DEF ReadForCancel, Goto, ReadRow, routeVars, mediaVars,
    cdrVars, legVars
<1>26. CASE WriteCancelled(c)
  BY <1>26, <1>a DEF WriteCancelled, Goto, WriteRow, routeVars, mediaVars,
    cdrVars, legVars
<1>27. CASE CalleeDecides(c)
  BY <1>27, <1>a DEF CalleeDecides, routeVars, mediaVars, cdrVars, legVars
<1>28. CASE CtxExpires(c)
  BY <1>28, <1>a DEF CtxExpires, routeVars, mediaVars, cdrVars, legVars
<1>29. CASE ReapSession(c)
  BY <1>29, <1>a DEF ReapSession, Release, routeVars, mediaVars, cdrVars,
    legVars
<1>30. ASSUME NEW h \in Hangers, LookupDialog(c, h)
      PROVE  Stays(c)
  BY <1>30, <1>a DEF LookupDialog, Goto, routeVars, mediaVars, cdrVars, legVars
<1>31. ASSUME NEW h \in Hangers, SendBye(c, h)
      PROVE  Stays(c)
  BY <1>31, <1>a DEF SendBye, Goto, routeVars, mediaVars, cdrVars, legVars
<1>32. ASSUME NEW h \in Hangers, StopMedia(c, h)
      PROVE  Stays(c)
  BY <1>32, <1>a DEF StopMedia, Goto, Release, routeVars, mediaVars, cdrVars,
    legVars
<1>33. ASSUME NEW h \in Hangers, TerminateDialog(c, h)
      PROVE  Stays(c)
  BY <1>33, <1>a DEF TerminateDialog, Goto, routeVars, mediaVars, cdrVars,
    legVars
<1>34. ASSUME NEW h \in Hangers, ReadForFinal(c, h)
      PROVE  Stays(c)
  BY <1>34, <1>a DEF ReadForFinal, Goto, ReadRow, routeVars, mediaVars, cdrVars,
    legVars
<1>35. ASSUME NEW h \in Hangers, WriteFinal(c, h)
      PROVE  Stays(c)
  BY <1>35, <1>a DEF WriteFinal, Goto, WriteRow, routeVars, mediaVars, cdrVars,
    legVars
<1>36. ASSUME NEW h \in Hangers, SendHangup(c, h)
      PROVE  Stays(c)
  BY <1>36, <1>a DEF SendHangup, Goto, routeVars, mediaVars, cdrVars, legVars
<1> QED
  BY <1>1, <1>2, <1>3, <1>4, <1>5, <1>6, <1>7, <1>8, <1>9, <1>10, <1>11,
     <1>12, <1>13, <1>14, <1>15, <1>16, <1>17, <1>18, <1>19, <1>20, <1>21,
     <1>22, <1>23, <1>24, <1>25, <1>26, <1>27, <1>28, <1>29, <1>30, <1>31,
     <1>32, <1>33, <1>34, <1>35, <1>36, LabelFacts
  DEF CallStep, InviteStep, CancelStep, HangupStep, EnvironmentStep, TimerStep

\* A step that connects no call leaves every trunk the room it has.
LEMMA RoomKept ==
  ASSUME IsFiniteSet(Calls), TypeOK, IInv, NEW c \in Calls, CallStep(c),
         ~CreateDialog(c), NEW t \in Trunks
  PROVE  Load(t)' <= Load(t) /\ (Free(t) => Free(t)')
<1>1. \A d \in Calls : Stays(d)
  <2> SUFFICES ASSUME NEW d \in Calls PROVE Stays(d)
    OBVIOUS
  <2>1. CASE d = c
    BY <2>1, StaysStep DEF IInv
  <2>2. CASE d # c
    BY <2>2, OthersHeld, OthersKept DEF Held, Kept, Stays, TypeOK
  <2> QED
    BY <2>1, <2>2
<1>2. Carried(t)' \subseteq Carried(t)
  BY <1>1 DEF Carried, Stays
<1>3. Load(t)' <= Load(t) /\ Load(t) \in Nat /\ Load(t)' \in Nat
  BY <1>2, LoadFacts
<1>4. MaxChannels[t] \in Nat
  BY TrunkAssumption
<1> QED
  BY <1>3, <1>4 DEF Free

\* A trunk below its limit has room.
LEMMA CapacityFacts ==
  ASSUME IsFiniteSet(Calls), NEW t \in Trunks, ~AtCapacity(t)
  PROVE  Free(t)
<1>1. Load(t) \in Nat /\ MaxChannels[t] \in Nat
  BY LoadFacts, TrunkAssumption
<1> QED
  BY <1>1 DEF Free, AtCapacity

\* A step of a call keeps the room of its own trunk.
LEMMA RoomStep ==
  ASSUME IsFiniteSet(Calls), "db" \notin Faults, TypeOK, DialInv, NEW c \in Calls,
         RoomInv(c), CallStep(c), \A t \in Trunks : Free(t) => Free(t)'
  PROVE  RoomInv(c)'
<1>a. /\ \A t \in Trunks : ~AtCapacity(t) => Free(t)
      /\ NoTrunk \notin Trunks
      /\ pc[c]["invite"] = "fork" => direction[c] # "outbound"
      /\ pc[c]["invite"] \in {"try", "dialled"} => direction[c] = "outbound"
  BY CapacityFacts, TrunkAssumption DEF DialInv, DialOK
<1> HIDE DEF Free, AtCapacity
<1> USE <1>a, HandlerFacts DEF TypeOK, HandlerTypeOK, RouteTypeOK, RoomInv, Placing
<1>1. CASE HandleInvite(c)
  BY <1>1 DEF HandleInvite, Goto, FirstLabel, routeVars, mediaVars, cdrVars,
    legVars
<1>2. CASE RejectInvite(c)
  BY <1>2 DEF RejectInvite, Goto, Respond, routeVars, mediaVars, cdrVars,
    legVars
<1>3. CASE AdmitInbound(c)
  BY <1>3 DEF AdmitInbound, Goto, FailWith, routeVars, mediaVars, cdrVars,
    legVars
<1>4. CASE RouteCall(c)
  BY <1>4 DEF RouteCall, Goto, FailWith, routeVars, mediaVars, cdrVars, legVars
<1>5. CASE PushWait(c)
  BY <1>5 DEF PushWait, Goto, FailWith, routeVars, mediaVars, cdrVars, legVars
<1>6. CASE AllocateMedia(c)
  BY <1>6 DEF AllocateMedia, Goto, FailWith, routeVars, mediaVars, cdrVars,
    legVars
<1>7. CASE RegisterPending(c)
  BY <1>7 DEF RegisterPending, Goto, routeVars, mediaVars, cdrVars, legVars
<1>8. CASE StartFork(c)
  BY <1>8 DEF StartFork, Goto, routeVars, mediaVars, cdrVars, legVars
<1>9. CASE TryTrunk(c)
  BY <1>9 DEF TryTrunk, Goto, routeVars, mediaVars, cdrVars, legVars
<1>10. CASE DialReturns(c)
  BY <1>10 DEF DialReturns, Goto, routeVars, mediaVars, cdrVars, legVars
<1>11. CASE AfterDial(c)
  BY <1>11 DEF AfterDial, Goto, routeVars, mediaVars, cdrVars, legVars
<1>12. CASE TakePending(c)
  BY <1>12 DEF TakePending, Goto, ReleaseBridge, Release, routeVars, mediaVars,
    cdrVars, legVars
<1>13. CASE ResolveResult(c)
  BY <1>13 DEF ResolveResult, Goto, FailWith, ReleaseBridge, Release, routeVars,
    mediaVars, cdrVars, legVars
<1>14. CASE AckCallee(c)
  BY <1>14 DEF AckCallee, Goto, FailWith, ReleaseBridge, Release, routeVars,
    mediaVars, cdrVars, legVars
<1>15. CASE CompleteMedia(c)
  BY <1>15 DEF CompleteMedia, Goto, Release, routeVars, mediaVars, cdrVars,
    legVars
<1>16. CASE RelayAnswer(c)
  BY <1>16 DEF RelayAnswer, Goto, Respond, Release, routeVars, mediaVars,
    cdrVars, legVars
<1>17. CASE CreateDialog(c)
  BY <1>17 DEF CreateDialog, Goto, routeVars, mediaVars, cdrVars, legVars
<1>18. CASE ReadForAnswer(c)
  BY <1>18 DEF ReadForAnswer, Goto, ReadRow, routeVars, mediaVars, cdrVars,
    legVars
<1>19. CASE WriteAnswer(c)
  BY <1>19 DEF WriteAnswer, Goto, WriteRow, routeVars, mediaVars, cdrVars,
    legVars
<1>20. CASE SendFailure(c)
  BY <1>20 DEF SendFailure, Goto, Respond, routeVars, mediaVars, cdrVars,
    legVars
<1>21. CASE ReadForFailure(c)
  BY <1>21 DEF ReadForFailure, Goto, ReadRow, routeVars, mediaVars, cdrVars,
    legVars
<1>22. CASE WriteFailure(c)
  BY <1>22 DEF WriteFailure, Goto, WriteRow, routeVars, mediaVars, cdrVars,
    legVars
<1>23. CASE CancelPending(c)
  BY <1>23 DEF CancelPending, Goto, routeVars, mediaVars, cdrVars, legVars
<1>24. CASE RejectCancelled(c)
  BY <1>24 DEF RejectCancelled, Goto, Respond, ReleaseBridge, Release,
    routeVars, mediaVars, cdrVars, legVars
<1>25. CASE ReadForCancel(c)
  BY <1>25 DEF ReadForCancel, Goto, ReadRow, routeVars, mediaVars, cdrVars,
    legVars
<1>26. CASE WriteCancelled(c)
  BY <1>26 DEF WriteCancelled, Goto, WriteRow, routeVars, mediaVars, cdrVars,
    legVars
<1>27. CASE CalleeDecides(c)
  BY <1>27 DEF CalleeDecides, routeVars, mediaVars, cdrVars, legVars
<1>28. CASE CtxExpires(c)
  BY <1>28 DEF CtxExpires, routeVars, mediaVars, cdrVars, legVars
<1>29. CASE ReapSession(c)
  BY <1>29 DEF ReapSession, Release, routeVars, mediaVars, cdrVars, legVars
<1>30. ASSUME NEW h \in Hangers, LookupDialog(c, h)
      PROVE  RoomInv(c)'
  BY <1>30 DEF LookupDialog, Goto, routeVars, mediaVars, cdrVars, legVars
<1>31. ASSUME NEW h \in Hangers, SendBye(c, h)
      PROVE  RoomInv(c)'
  BY <1>31 DEF SendBye, Goto, routeVars, mediaVars, cdrVars, legVars
<1>32. ASSUME NEW h \in Hangers, StopMedia(c, h)
      PROVE  RoomInv(c)'
  BY <1>32 DEF StopMedia, Goto, Release, routeVars, mediaVars, cdrVars, legVars
<1>33. ASSUME NEW h \in Hangers, TerminateDialog(c, h)
      PROVE  RoomInv(c)'
  BY <1>33 DEF TerminateDialog, Goto, routeVars, mediaVars, cdrVars, legVars
<1>34. ASSUME NEW h \in Hangers, ReadForFinal(c, h)
      PROVE  RoomInv(c)'
  BY <1>34 DEF ReadForFinal, Goto, ReadRow, routeVars, mediaVars, cdrVars,
    legVars
<1>35. ASSUME NEW h \in Hangers, WriteFinal(c, h)
      PROVE  RoomInv(c)'
  BY <1>35 DEF WriteFinal, Goto, WriteRow, routeVars, mediaVars, cdrVars,
    legVars
<1>36. ASSUME NEW h \in Hangers, SendHangup(c, h)
      PROVE  RoomInv(c)'
  BY <1>36 DEF SendHangup, Goto, routeVars, mediaVars, cdrVars, legVars
<1> QED
  BY <1>1, <1>2, <1>3, <1>4, <1>5, <1>6, <1>7, <1>8, <1>9, <1>10, <1>11,
     <1>12, <1>13, <1>14, <1>15, <1>16, <1>17, <1>18, <1>19, <1>20, <1>21,
     <1>22, <1>23, <1>24, <1>25, <1>26, <1>27, <1>28, <1>29, <1>30, <1>31,
     <1>32, <1>33, <1>34, <1>35, <1>36, LabelFacts
  DEF CallStep, InviteStep, CancelStep, HangupStep, EnvironmentStep, TimerStep

\* The step that connects a call takes room that was there, as no other call is
\* being set up.
LEMMA ConnectStep ==
  ASSUME IsFiniteSet(Calls), TypeOK, IInv, SerialInv, Serial, NEW c \in Calls,
         CreateDialog(c)
  PROVE  SerialInv'
<1>1. \A d \in Calls \ {c} : Held(d) /\ Kept(d)
  BY OthersHeld, OthersKept DEF TypeOK, CallStep, InviteStep
<1>2. /\ pc[c]["invite"] = "create" /\ pc'[c]["invite"] = "answerRead"
      /\ trunk' = trunk
  BY HandlerFacts DEF CreateDialog, Goto, routeVars, TypeOK, HandlerTypeOK
<1>3. ASSUME NEW t \in Trunks, MaxChannels[t] > 0
      PROVE  Load(t)' <= MaxChannels[t]
  <2>1. Load(t) \in Nat /\ Load(t)' \in Nat /\ MaxChannels[t] \in Nat
    BY LoadFacts, TrunkAssumption
  <2>2. Load(t) <= MaxChannels[t]
    BY <1>3 DEF SerialInv, TrunkWithinLimit
  <2>3. CASE trunk[c] = t
    <3>1. Load(t) < MaxChannels[t]
      BY <1>2, <1>3, <2>3 DEF SerialInv, RoomInv, Placing, Free
    <3>2. Carried(t)' \subseteq Carried(t) \union {c}
      BY <1>1 DEF Carried, Held, Kept
    <3>3. Load(t)' <= Load(t) + 1
      BY <3>2, LoadFacts
    <3> QED
      BY <2>1, <3>1, <3>3
  <2>4. CASE trunk[c] # t
    <3>1. Carried(t)' \subseteq Carried(t)
      BY <1>1, <1>2, <2>4 DEF Carried, Held, Kept
    <3>2. Load(t)' <= Load(t)
      BY <3>1, LoadFacts
    <3> QED
      BY <2>1, <2>2, <3>2
  <2> QED
    BY <2>3, <2>4
<1>4. ASSUME NEW d \in Calls PROVE RoomInv(d)'
  <2>1. pc'[d]["invite"] \notin Placing
    <3>1. CASE d = c
      BY <1>2, <3>1 DEF Placing
    <3>2. CASE d # c
      <4>1. pc[d]["invite"] \in {"idle", "done", "dead"}
        BY <1>2, <3>2 DEF Serial, InSetup
      <4> QED
        BY <1>1, <3>2, <4>1, HandlerFacts DEF Held, Placing
    <3> QED
      BY <3>1, <3>2
  <2> QED
    BY <2>1 DEF RoomInv, Placing
<1> QED
  BY <1>3, <1>4 DEF SerialInv, TrunkWithinLimit

\* While calls are set up one at a time, no step takes room that is not there.
LEMMA SerialStep ==
  ASSUME IsFiniteSet(Calls), "db" \notin Faults, TypeOK, DialInv, IInv, SerialInv,
         Serial, [Next]_vars
  PROVE  SerialInv'
<1>1. ASSUME NEW c \in Calls, CallStep(c), ~CreateDialog(c)
      PROVE  SerialInv'
  <2>1. \A t \in Trunks : Load(t)' <= Load(t) /\ (Free(t) => Free(t)')
    BY <1>1, RoomKept
  <2>2. ASSUME NEW t \in Trunks, MaxChannels[t] > 0
        PROVE  Load(t)' <= MaxChannels[t]
    <3>1. Load(t) \in Nat /\ Load(t)' \in Nat /\ MaxChannels[t] \in Nat
      BY LoadFacts, TrunkAssumption
    <3> QED
      BY <2>1, <2>2, <3>1 DEF SerialInv, TrunkWithinLimit
  <2>3. RoomInv(c)'
    BY <1>1, <2>1, RoomStep DEF SerialInv
  <2>4. ASSUME NEW d \in Calls \ {c} PROVE RoomInv(d)'
    <3>1. Held(d) /\ Kept(d) /\ RoomInv(d)
      BY <1>1, OthersHeld, OthersKept DEF TypeOK, SerialInv
    <3> HIDE DEF Free
    <3>2. CASE pc'[d] = pc[d]
      BY <2>1, <3>1, <3>2 DEF RoomInv, Kept
    <3>3. CASE \A h \in Handlers : pc'[d][h] = "dead"
      BY <3>3, HandlerFacts DEF RoomInv, Placing
    <3> QED
      BY <3>1, <3>2, <3>3 DEF Held
  <2> QED
    BY <2>2, <2>3, <2>4 DEF SerialInv, TrunkWithinLimit
<1>2. ASSUME NEW c \in Calls, CreateDialog(c)
      PROVE  SerialInv'
  BY <1>2, ConnectStep
<1>3. CASE UNCHANGED vars
  BY <1>3
  DEF vars, routeVars, SerialInv, RoomInv, TrunkWithinLimit, Free, Load
<1> QED
  BY <1>1, <1>2, <1>3 DEF Next

\* No trunk carries a call at first.
LEMMA SerialInit == Init => SerialInv
<1> SUFFICES ASSUME Init PROVE SerialInv
  OBVIOUS
<1>1. ASSUME NEW t \in Trunks, MaxChannels[t] > 0
      PROVE  Load(t) <= MaxChannels[t]
  <2>1. {c \in Calls : dialog[c] = "active" /\ trunk[c] = t} = {}
    BY DEF Init
  <2>2. Load(t) = 0
    BY <2>1, FS_EmptySet DEF Load
  <2> QED
    BY <1>1, <2>2, TrunkAssumption
<1>2. \A c \in Calls : RoomInv(c)
  BY HandlerFacts DEF Init, RoomInv, Placing
<1> QED
  BY <1>1, <1>2 DEF SerialInv, TrunkWithinLimit

\* If calls are set up one at a time, and the trunks can be read, no trunk ever
\* carries more answered calls than its limit, for any number of calls, trunks
\* and channels: what makes the limit fail is only that admission and connection
\* of two calls overlap.
THEOREM SerialLimit ==
  ASSUME IsFiniteSet(Calls), "db" \notin Faults
  PROVE  Spec => SerialAdmission
<1>1. Init => SerialInv
  BY SerialInit
<1>2. TypeOK /\ DialInv /\ IInv /\ SerialInv /\ Serial /\ [Next]_vars => SerialInv'
  BY SerialStep
<1>3. SerialInv => TrunkWithinLimit
  BY DEF SerialInv
<1> QED
  BY <1>1, <1>2, <1>3, TypeInvariance, Invariance, PTL DEF Spec, SerialAdmission, Serial

=============================================================================
