---------------------------- MODULE CallControl ----------------------------
(***************************************************************************)
(* The life of a call in the SIP layer of the PBX: the goroutine that      *)
(* serves an INVITE (internal/sip/invite.go and outbound.go) racing with   *)
(* the goroutines that serve CANCEL and BYE (server.go, cancel.go), over   *)
(* the pending-call map, the dialog map, the media session table and the   *)
(* call's CDR row.                                                         *)
(*                                                                         *)
(* Each handler is a program counter; one action is one critical section   *)
(* or one message, so that handlers interleave exactly where the code      *)
(* holds no lock.  The phones and trunks are the environment.              *)
(***************************************************************************)
EXTENDS Integers, Sequences, FiniteSets

CONSTANTS
  Calls,        \* Call-IDs
  Trunks,       \* SIP trunks
  NoTrunk,      \* TrunkID 0, and a nil selectedTrunk
  TrunkOrder,   \* the trunks SelectTrunks offers, by priority
  MaxChannels,  \* [Trunks -> Nat], 0 is unlimited
  Callee,       \* [Calls -> extension dialled]
  Devices,      \* [extension -> number of its registered devices]
  Directions,   \* the call types that occur
  Hangups,      \* the ways a party may end a call early
  Faults        \* the failures that may occur

ASSUME TrunkAssumption ==
  /\ NoTrunk \notin Trunks
  /\ TrunkOrder \in Seq(Trunks)
  /\ MaxChannels \in [Trunks -> Nat]

ASSUME EnvironmentAssumption ==
  /\ Directions \subseteq {"internal", "inbound", "outbound"}
  /\ Hangups \subseteq {"cancel", "callerBye", "calleeBye"}
  /\ Faults \subseteq {"db", "media", "transport"}

VARIABLES
  pc,         \* pc[c][h]: where handler h of call c is
  direction,  \* ic.CallType, "unknown" until the INVITE is classified
  result,     \* what the fork or the last trunk attempt returned
  code,       \* the failure response about to be sent
  attempt,    \* index into TrunkOrder
  trunk,      \* ic.TrunkID, or selectedTrunk
  ctx,        \* the fork / outbound context
  pending,    \* the keys of PendingCallManager.pending
  bridge,     \* the handler allocated a MediaBridge
  session,    \* the call's entry in SessionManager.sessions
  media,      \* mediaSession # nil, later Dialog.Media # nil
  recorder,   \* Dialog.Recorder
  dialog,     \* "active" while in DialogManager.dialogs
  cdr,        \* the call's row in table cdrs
  snap,       \* snap[c][h]: the row h read and has yet to write back
  finals,     \* final responses the caller's INVITE transaction was given
  callerLeg,  \* the caller's phone
  calleeLeg   \* the device or trunk that is rung for the call

routeVars == <<direction, attempt, trunk>>
mediaVars == <<bridge, session, media, recorder>>
cdrVars   == <<cdr, snap>>
legVars   == <<finals, callerLeg, calleeLeg>>
vars == <<pc, routeVars, result, code, ctx, pending, mediaVars, dialog,
          cdrVars, legVars>>

Byes == {"callerBye", "calleeBye"}

\* The handlers that end a call, and all of a call's handlers.
Hangers == {"cancel"} \union Byes
Handlers == {"invite"} \union Hangers

Dispositions == {"in_progress", "answered", "busy", "no_answer",
                 "cancelled", "failed"}

\* Of the hangup causes, those of answered and cancelled calls are told apart.
Causes == {"none", "failure", "caller_cancel", "caller_bye", "callee_bye"}

\* A CDR row: created, answer_time set, end_time set, disposition, hangup_cause.
Rows == [created: BOOLEAN, answered: BOOLEAN, ended: BOOLEAN,
         disposition: Dispositions, cause: Causes]

NoRow == [created |-> FALSE, answered |-> FALSE, ended |-> FALSE,
          disposition |-> "in_progress", cause |-> "none"]

\* The row createInitialCDR inserts, and what the handlers make of a row.
NewRow == [NoRow EXCEPT !.created = TRUE]
Answered(row) == [row EXCEPT !.answered = TRUE]
Closed(row, disposition, cause) ==
  [row EXCEPT !.ended = TRUE, !.disposition = disposition, !.cause = cause]

InviteLabels == {"idle", "admit", "route", "reroute", "pushWait", "allocate",
  "register", "fork", "try", "dial", "dialled", "take", "resolve", "ack",
  "complete", "respond", "create", "answerRead", "answerWrite",
  "failing", "failRead", "failWrite", "dead", "done"}

HangupLabels == {"idle", "inFlight", "reject487", "cancelledRead",
  "cancelledWrite", "lookup", "hangup", "stopMedia", "terminate",
  "finalRead", "finalWrite", "unknown", "done"}

Labels == InviteLabels \union HangupLabels

FailureCodes == {400, 401, 403, 404, 480, 486, 487, 488, 500, 501, 502, 503}

Results == {"none", "answered", "refused", "failed", "error", "timeout"}

CallerStates == {"idle", "calling", "up", "ended"}

CalleeStates == {"idle", "ringing", "answered", "refused", "failed", "up", "ended"}

-----------------------------------------------------------------------------
(* Shared operators.                                                       *)

Goto(c, h, label) == pc' = [pc EXCEPT ![c][h] = label]

\* MapSIPToDisposition, on the codes the INVITE handler sends itself.
Disposition(status) ==
  CASE status = 486 -> "busy"
    [] status = 480 -> "no_answer"
    [] status = 487 -> "cancelled"
    [] OTHER        -> "failed"

\* tx.Respond with a final status: the caller's phone is connected or gives up,
\* or never gets the response; the handlers go on alike.
Respond(c, status) ==
  /\ finals' = [finals EXCEPT ![c] = Append(@, status)]
  /\ \/ callerLeg' = [callerLeg EXCEPT ![c] = IF status = 200 THEN "up" ELSE "ended"]
     \/ "transport" \in Faults /\ callerLeg' = [callerLeg EXCEPT ![c] = "calling"]
  /\ UNCHANGED calleeLeg

\* MediaSession.Release: the session is deleted by its ID, whatever its state.
Release(c) == session' = [session EXCEPT ![c] = "none"]

\* Mutant: the failure paths forget the session.
ReleaseBridgeForgotten(c) == UNCHANGED session

ReleaseBridge(c) == IF bridge[c] THEN Release(c) ELSE UNCHANGED session

\* DialogManager.ActiveCallCountForTrunk: answered calls only.
Load(t) == Cardinality({c \in Calls : dialog[c] = "active" /\ trunk[c] = t})

\* Mutant: the limit is compared with > instead of >=.
AtCapacityOffByOne(t) == MaxChannels[t] > 0 /\ Load(t) > MaxChannels[t]

AtCapacity(t) == MaxChannels[t] > 0 /\ Load(t) >= MaxChannels[t]

\* CallRouter's busy check: as many active calls as registered devices.  The
\* extensions that call are taken to be others than those that are dialled.
AllBusy(e) ==
  LET active == Cardinality({c \in Calls : /\ dialog[c] = "active"
                                           /\ direction[c] # "outbound"
                                           /\ Callee[c] = e})
  IN  active > 0 /\ active >= Devices[e]

\* cdrs.GetByCallID: a read error or a missing row ends the handler.
ReadRow(c, h, next) ==
  /\ \/ /\ cdr[c].created
        /\ snap' = [snap EXCEPT ![c][h] = cdr[c]]
        /\ Goto(c, h, next)
     \/ /\ ~cdr[c].created \/ "db" \in Faults
        /\ Goto(c, h, "done")
        /\ UNCHANGED snap
  /\ UNCHANGED <<routeVars, result, code, ctx, pending, mediaVars, dialog,
                 cdr, legVars>>

\* cdrs.Update: every column of the row that was read is written back.
WriteRow(c, h, row) ==
  /\ \/ cdr' = [cdr EXCEPT ![c] = row]
     \/ "db" \in Faults /\ UNCHANGED cdr
  /\ snap' = [snap EXCEPT ![c][h] = NoRow]
  /\ Goto(c, h, "done")
  /\ UNCHANGED <<routeVars, result, code, ctx, pending, mediaVars, dialog,
                 legVars>>

-----------------------------------------------------------------------------
(* Mutants: plausible bugs, used by no specification.  Replacing the action *)
(* named in the comment by its mutant breaks a property.                   *)

\* FailureStatus without mapTrunkFailure: the trunk's status reaches the caller.
FailureStatusUnmapped(c) == {404, 480, 486, 487, 488, 600, 603}

\* TakePending with Get in place of Remove and no check: it resolves a call
\* the CANCEL handler has already taken.
TakePendingUnchecked(c) ==
  /\ pc[c]["invite"] = "take"
  /\ pending' = pending \ {c}
  /\ Goto(c, "invite", "resolve")
  /\ UNCHANGED <<routeVars, result, code, ctx, mediaVars, dialog, cdrVars, legVars>>

\* TakePending that finalises the CDR of a call that was cancelled meanwhile.
TakePendingRecords(c) ==
  /\ pc[c]["invite"] = "take"
  /\ pending' = pending \ {c}
  /\ Goto(c, "invite", IF c \in pending THEN "resolve" ELSE "failRead")
  /\ UNCHANGED <<routeVars, result, code, ctx, mediaVars, dialog, cdrVars, legVars>>

\* CancelPending that ends the context and does not answer the INVITE.
CancelPendingMute(c) ==
  /\ pc[c]["cancel"] = "inFlight"
  /\ \/ /\ c \in pending
        /\ pending' = pending \ {c}
        /\ ctx' = [ctx EXCEPT ![c] = "done"]
        /\ Goto(c, "cancel", "cancelledRead")
     \/ /\ c \notin pending
        /\ Goto(c, "cancel", "lookup")
        /\ UNCHANGED <<pending, ctx>>
  /\ UNCHANGED <<routeVars, result, code, mediaVars, dialog, cdrVars, legVars>>

\* CompleteMedia that starts the relay of a session whatever its state.
CompleteMediaUnchecked(c) ==
  /\ pc[c]["invite"] = "complete"
  /\ IF bridge[c]
     THEN /\ session' = [session EXCEPT ![c] = "relaying"]
          /\ media' = [media EXCEPT ![c] = TRUE]
     ELSE UNCHANGED <<session, media>>
  /\ Goto(c, "invite", "respond")
  /\ UNCHANGED <<routeVars, result, code, ctx, pending, bridge, recorder,
                 dialog, cdrVars, legVars>>

\* PushWait that returns without a response when nobody registers.
PushWaitSilent(c) ==
  /\ pc[c]["invite"] = "pushWait"
  /\ Goto(c, "invite", "reroute") \/ Goto(c, "invite", "done")
  /\ UNCHANGED <<routeVars, result, code, ctx, pending, mediaVars, dialog, cdrVars,
                 legVars>>

\* RelayAnswer that goes on when the 200 could not be sent.
RelayAnswerUnchecked(c) ==
  /\ pc[c]["invite"] = "respond"
  /\ Respond(c, 200) \/ ("transport" \in Faults /\ UNCHANGED legVars)
  /\ Goto(c, "invite", "create")
  /\ UNCHANGED <<routeVars, result, code, ctx, pending, mediaVars, dialog, cdrVars>>

\* SendBye with the legs mixed up.
SendByeToSender(c, h) ==
  /\ pc[c][h] = "hangup"
  /\ IF h = "calleeBye"
     THEN calleeLeg' = [calleeLeg EXCEPT ![c] = "ended"] /\ UNCHANGED callerLeg
     ELSE callerLeg' = [callerLeg EXCEPT ![c] = "ended"] /\ UNCHANGED calleeLeg
  /\ Goto(c, h, "stopMedia")
  /\ UNCHANGED <<routeVars, result, code, ctx, pending, mediaVars, dialog, cdrVars,
                 finals>>

\* StopMedia that a late CANCEL skips.
StopMediaByeOnly(c, h) ==
  /\ pc[c][h] = "stopMedia"
  /\ recorder' = [recorder EXCEPT ![c] = IF @ = "recording" THEN "stopped" ELSE @]
  /\ IF media[c] /\ h \in Byes THEN Release(c) ELSE UNCHANGED session
  /\ Goto(c, h, "terminate")
  /\ UNCHANGED <<routeVars, result, code, ctx, pending, bridge, media, dialog,
                 cdrVars, legVars>>

\* TerminateDialog whose caller does not look at the returned dialog.
TerminateDialogUnchecked(c, h) ==
  /\ pc[c][h] = "terminate"
  /\ dialog' = [dialog EXCEPT ![c] = "terminated"]
  /\ Goto(c, h, "finalRead")
  /\ UNCHANGED <<routeVars, result, code, ctx, pending, mediaVars, cdrVars, legVars>>

\* ReapSession that only looks at sessions whose relay was started.
ReapSessionRelaying(c) ==
  /\ session[c] = "relaying"
  /\ Release(c)
  /\ UNCHANGED <<pc, routeVars, result, code, ctx, pending, bridge, media, recorder,
                 dialog, cdrVars, legVars>>

-----------------------------------------------------------------------------
Init ==
  /\ pc = [c \in Calls |-> [h \in Handlers |-> "idle"]]
  /\ direction = [c \in Calls |-> "unknown"]
  /\ result = [c \in Calls |-> "none"]
  /\ code = [c \in Calls |-> 500]
  /\ attempt = [c \in Calls |-> 1]
  /\ trunk = [c \in Calls |-> NoTrunk]
  /\ ctx = [c \in Calls |-> "live"]
  /\ pending = {}
  /\ bridge = [c \in Calls |-> FALSE]
  /\ session = [c \in Calls |-> "none"]
  /\ media = [c \in Calls |-> FALSE]
  /\ recorder = [c \in Calls |-> "none"]
  /\ dialog = [c \in Calls |-> "none"]
  /\ cdr = [c \in Calls |-> NoRow]
  /\ snap = [c \in Calls |-> [h \in Handlers |-> NoRow]]
  /\ finals = [c \in Calls |-> <<>>]
  /\ callerLeg = [c \in Calls |-> "idle"]
  /\ calleeLeg = [c \in Calls |-> "idle"]

-----------------------------------------------------------------------------
(* The INVITE handler.                                                     *)

\* Where a classified call goes: only inbound calls pass the channel limit first.
FirstLabel(d) == CASE d = "inbound"  -> "admit"
                   [] d = "internal" -> "route"
                   [] d = "outbound" -> "allocate"

\* HandleInvite up to the dispatch, for a call the PBX accepts: 100 Trying,
\* classifyCall, createInitialCDR (whose failure is only logged).
HandleInvite(c) ==
  /\ pc[c]["invite"] = "idle"
  /\ \E d \in Directions :
       /\ direction' = [direction EXCEPT ![c] = d]
       /\ \E t \in IF d = "inbound" THEN Trunks ELSE {NoTrunk} :
            trunk' = [trunk EXCEPT ![c] = t]
       /\ Goto(c, "invite", FirstLabel(d))
  /\ \/ cdr' = [cdr EXCEPT ![c] = NewRow]
     \/ "db" \in Faults /\ UNCHANGED cdr
  /\ callerLeg' = [callerLeg EXCEPT ![c] = "calling"]
  /\ UNCHANGED <<result, code, attempt, ctx, pending, mediaVars, dialog, snap,
                 finals, calleeLeg>>

\* classifyCall refuses some INVITEs: no CDR, no call.  The INVITE that answers a
\* challenge is another one.
RejectInvite(c) ==
  /\ pc[c]["invite"] = "idle"
  /\ \E status \in {400, 401, 403, 500} : Respond(c, status)
  /\ Goto(c, "invite", "done")
  /\ UNCHANGED <<routeVars, result, code, ctx, pending, mediaVars, dialog,
                 cdrVars>>

\* A failure decided at one point of the handler, answered at the next.
FailWith(c, status) ==
  /\ code' = [code EXCEPT ![c] = status]
  /\ Goto(c, "invite", "failing")

\* handleInboundCall's channel limit; a trunk that cannot be read is not limited.
AdmitInbound(c) ==
  /\ pc[c]["invite"] = "admit"
  /\ \/ AtCapacity(trunk[c]) /\ FailWith(c, 503)
     \/ /\ ~AtCapacity(trunk[c]) \/ "db" \in Faults
        /\ Goto(c, "invite", "route")
        /\ UNCHANGED code
  /\ UNCHANGED <<routeVars, result, ctx, pending, mediaVars, dialog, cdrVars,
                 legVars>>

\* RouteInternalCall, and what its caller makes of each error; before it, an
\* inbound call to a number that leads nowhere, or to no flow.
RouteCall(c) ==
  /\ pc[c]["invite"] \in {"route", "reroute"}
  /\ \/ /\ pc[c]["invite"] = "route" /\ direction[c] = "inbound"
        /\ \E status \in {404, 501} : FailWith(c, status)
     \/ FailWith(c, 486)                                    \* ErrDND
     \/ "db" \in Faults /\ FailWith(c, 500)
     \/ pc[c]["invite"] = "reroute" /\ FailWith(c, 480)     \* ErrNoRegistrations
     \/ /\ pc[c]["invite"] = "route"
        /\ Goto(c, "invite", "pushWait")
        /\ UNCHANGED code
     \/ AllBusy(Callee[c]) /\ FailWith(c, 486)
     \/ /\ ~AllBusy(Callee[c])
        /\ Goto(c, "invite", "allocate")
        /\ UNCHANGED code
  /\ UNCHANGED <<routeVars, result, ctx, pending, mediaVars, dialog, cdrVars,
                 legVars>>

\* waitForPushRegistration: the app registers in time, or it does not.
PushWait(c) ==
  /\ pc[c]["invite"] = "pushWait"
  /\ \/ Goto(c, "invite", "reroute") /\ UNCHANGED code
     \/ FailWith(c, 480)
  /\ UNCHANGED <<routeVars, result, ctx, pending, mediaVars, dialog, cdrVars,
                 legVars>>

\* SelectTrunks may fail an outbound call; then AllocateMediaBridge, skipped
\* when the INVITE has no SDP.
AllocateMedia(c) ==
  /\ pc[c]["invite"] = "allocate"
  /\ \/ direction[c] = "outbound" /\ FailWith(c, 503) /\ UNCHANGED <<bridge, session>>
     \/ "media" \in Faults /\ FailWith(c, 500) /\ UNCHANGED <<bridge, session>>
     \/ /\ Goto(c, "invite", "register")
        /\ UNCHANGED <<code, bridge, session>>
     \/ /\ Goto(c, "invite", "register")
        /\ bridge' = [bridge EXCEPT ![c] = TRUE]
        /\ session' = [session EXCEPT ![c] = "new"]
        /\ UNCHANGED code
  /\ UNCHANGED <<routeVars, result, ctx, pending, media, recorder, dialog,
                 cdrVars, legVars>>

\* pendingMgr.Add: from here on a CANCEL finds the call.
RegisterPending(c) ==
  /\ pc[c]["invite"] = "register"
  /\ pending' = pending \union {c}
  /\ Goto(c, "invite", IF direction[c] = "outbound" THEN "try" ELSE "fork")
  /\ UNCHANGED <<routeVars, result, code, ctx, mediaVars, dialog, cdrVars,
                 legVars>>

\* forker.Fork starts: the legs ring, or none could be created.
StartFork(c) ==
  /\ pc[c]["invite"] = "fork"
  /\ \/ /\ calleeLeg' = [calleeLeg EXCEPT ![c] = "ringing"]
        /\ Goto(c, "invite", "dial")
        /\ UNCHANGED result
     \/ /\ "transport" \in Faults
        /\ result' = [result EXCEPT ![c] = "error"]
        /\ Goto(c, "invite", "take")
        /\ UNCHANGED calleeLeg
  /\ UNCHANGED <<routeVars, code, ctx, pending, mediaVars, dialog, cdrVars,
                 finals, callerLeg>>

\* The trunk loop: skip a trunk at its limit, else sendOutboundInvite.
TryTrunk(c) ==
  /\ pc[c]["invite"] = "try"
  /\ \/ /\ attempt[c] > Len(TrunkOrder)
        /\ Goto(c, "invite", "take")
        /\ UNCHANGED <<attempt, calleeLeg>>
     \/ /\ attempt[c] <= Len(TrunkOrder)
        /\ AtCapacity(TrunkOrder[attempt[c]])
        /\ attempt' = [attempt EXCEPT ![c] = @ + 1]
        /\ UNCHANGED <<pc, calleeLeg>>
     \/ /\ attempt[c] <= Len(TrunkOrder)
        /\ ~AtCapacity(TrunkOrder[attempt[c]])
        /\ calleeLeg' = [calleeLeg EXCEPT ![c] = "ringing"]
        /\ Goto(c, "invite", "dial")
        /\ UNCHANGED attempt
  /\ UNCHANGED <<direction, trunk, result, code, ctx, pending, mediaVars,
                 dialog, cdrVars, finals, callerLeg>>

\* Fork or sendOutboundInvite returns.  Once the context is done either may be
\* selected; Fork then cancels the legs still ringing, sendOutboundInvite only
\* drops its transaction and the trunk goes on ringing.
DialReturns(c) ==
  /\ pc[c]["invite"] = "dial"
  /\ \/ /\ calleeLeg[c] \in {"answered", "refused", "failed"}
        /\ result' = [result EXCEPT ![c] = calleeLeg[c]]
        /\ UNCHANGED calleeLeg
     \/ /\ ctx[c] # "live"
        /\ result' = [result EXCEPT ![c] = "timeout"]
        /\ calleeLeg' = [calleeLeg EXCEPT ![c] =
             IF direction[c] # "outbound" /\ @ = "ringing" THEN "ended" ELSE @]
  /\ Goto(c, "invite", IF direction[c] = "outbound" THEN "dialled" ELSE "take")
  /\ UNCHANGED <<routeVars, code, ctx, pending, mediaVars, dialog, cdrVars,
                 finals, callerLeg>>

\* After an attempt: the context is looked at before the answer.
AfterDial(c) ==
  /\ pc[c]["invite"] = "dialled"
  /\ \/ /\ ctx[c] # "live"
        /\ Goto(c, "invite", "take")
        /\ UNCHANGED <<trunk, attempt>>
     \/ /\ ctx[c] = "live"
        /\ trunk' = [trunk EXCEPT ![c] = TrunkOrder[attempt[c]]]
        /\ \/ /\ result[c] \in {"answered", "refused"}
              /\ Goto(c, "invite", "take")
              /\ UNCHANGED attempt
           \/ /\ result[c] = "failed"
              /\ attempt' = [attempt EXCEPT ![c] = @ + 1]
              /\ Goto(c, "invite", "try")
  /\ UNCHANGED <<direction, result, code, ctx, pending, mediaVars, dialog,
                 cdrVars, legVars>>

\* pendingMgr.Remove: whoever removes the call answers the caller.  A handler
\* that comes second only terminates its transaction with the answering leg.
TakePending(c) ==
  /\ pc[c]["invite"] = "take"
  /\ \/ /\ c \in pending
        /\ pending' = pending \ {c}
        /\ Goto(c, "invite", "resolve")
        /\ UNCHANGED session
     \/ /\ c \notin pending
        /\ Goto(c, "invite", "done")
        /\ IF direction[c] = "outbound" THEN ReleaseBridge(c) ELSE UNCHANGED session
        /\ UNCHANGED pending
  /\ UNCHANGED <<routeVars, result, code, ctx, bridge, media, recorder, dialog,
                 cdrVars, legVars>>

\* The statuses the caller may get for a call nobody answered (mapTrunkFailure
\* for a trunk's own status).
FailureStatus(c) ==
  IF direction[c] = "outbound"
  THEN CASE result[c] = "none"    -> {503}
         [] result[c] = "timeout" -> {502}
         [] result[c] = "failed"  -> {403, 502, 503}
         [] OTHER                 -> {404, 480, 486, 487, 488, 502}
  ELSE CASE result[c] = "error"   -> {500}
         [] result[c] = "refused" -> {486}
         [] OTHER                 -> {480}

\* An answered outbound call has a nil selectedTrunk when the context ended
\* between the first trunk's answer and the look at the context.
NilTrunk(c) ==
  result[c] = "answered" /\ direction[c] = "outbound" /\ trunk[c] = NoTrunk

\* What the handler makes of the result.  A nil selectedTrunk is dereferenced:
\* the panic ends the process, and with it every handler.
ResolveResult(c) ==
  /\ pc[c]["invite"] = "resolve"
  /\ \/ /\ result[c] # "answered"
        /\ \E status \in FailureStatus(c) : FailWith(c, status)
        /\ ReleaseBridge(c)
     \/ /\ result[c] = "answered" /\ ~NilTrunk(c)
        /\ Goto(c, "invite", "ack")
        /\ UNCHANGED <<code, session>>
     \/ /\ NilTrunk(c)
        /\ pc' = [d \in Calls |-> [h \in Handlers |-> "dead"]]
        /\ UNCHANGED <<code, session>>
  /\ UNCHANGED <<routeVars, result, ctx, pending, bridge, media, recorder,
                 dialog, cdrVars, legVars>>

\* The ACK that completes the callee's side of the call.
AckCallee(c) ==
  /\ pc[c]["invite"] = "ack"
  /\ \/ /\ calleeLeg' = [calleeLeg EXCEPT ![c] = "up"]
        /\ Goto(c, "invite", "complete")
        /\ UNCHANGED <<code, session>>
     \/ /\ "transport" \in Faults
        /\ FailWith(c, 500)
        /\ ReleaseBridge(c)
        /\ UNCHANGED calleeLeg
  /\ UNCHANGED <<routeVars, result, ctx, pending, bridge, media, recorder,
                 dialog, cdrVars, finals, callerLeg>>

\* CompleteMediaBridge: start the relay, or release the session and let the
\* parties exchange media directly; not called when the 200 has no SDP.
CompleteMedia(c) ==
  /\ pc[c]["invite"] = "complete"
  /\ \/ ~bridge[c] /\ UNCHANGED <<session, media>>
     \/ bridge[c] /\ "media" \in Faults /\ UNCHANGED <<session, media>>
     \/ /\ bridge[c]
        /\ session[c] = "new"
        /\ session' = [session EXCEPT ![c] = "relaying"]
        /\ media' = [media EXCEPT ![c] = TRUE]
     \/ /\ bridge[c]
        /\ session[c] # "new" \/ "media" \in Faults
        /\ Release(c)
        /\ UNCHANGED media
  /\ Goto(c, "invite", "respond")
  /\ UNCHANGED <<routeVars, result, code, ctx, pending, bridge, recorder,
                 dialog, cdrVars, legVars>>

\* The 200 OK to the caller.
RelayAnswer(c) ==
  /\ pc[c]["invite"] = "respond"
  /\ \/ /\ Respond(c, 200)
        /\ Goto(c, "invite", "create")
        /\ UNCHANGED session
     \/ /\ "transport" \in Faults
        /\ Goto(c, "invite", "done")
        /\ IF media[c] THEN Release(c) ELSE UNCHANGED session
        /\ UNCHANGED legVars
  /\ UNCHANGED <<routeVars, result, code, ctx, pending, bridge, media,
                 recorder, dialog, cdrVars>>

\* Recording starts if policy says so, then dialogMgr.CreateDialog.
CreateDialog(c) ==
  /\ pc[c]["invite"] = "create"
  /\ \/ UNCHANGED recorder
     \/ /\ media[c]
        /\ recorder' = [recorder EXCEPT ![c] = "recording"]
  /\ dialog' = [dialog EXCEPT ![c] = "active"]
  /\ Goto(c, "invite", "answerRead")
  /\ UNCHANGED <<routeVars, result, code, ctx, pending, bridge, session, media,
                 cdrVars, legVars>>

\* updateCDROnAnswer.
ReadForAnswer(c) ==
  /\ pc[c]["invite"] = "answerRead"
  /\ ReadRow(c, "invite", "answerWrite")

WriteAnswer(c) ==
  /\ pc[c]["invite"] = "answerWrite"
  /\ WriteRow(c, "invite", Answered(snap[c]["invite"]))

\* respondErrorWithCDR and finalizeCDRFailed.
SendFailure(c) ==
  /\ pc[c]["invite"] = "failing"
  /\ Respond(c, code[c])
  /\ Goto(c, "invite", "failRead")
  /\ UNCHANGED <<routeVars, result, code, ctx, pending, mediaVars, dialog,
                 cdrVars>>

ReadForFailure(c) ==
  /\ pc[c]["invite"] = "failRead"
  /\ ReadRow(c, "invite", "failWrite")

WriteFailure(c) ==
  /\ pc[c]["invite"] = "failWrite"
  /\ WriteRow(c, "invite",
              Closed(snap[c]["invite"], Disposition(code[c]), "failure"))

-----------------------------------------------------------------------------
(* The CANCEL handler.                                                     *)

\* handleCANCEL answers 200 and removes the pending call; CancelFork ends the
\* context of whatever the INVITE handler is waiting for.
CancelPending(c) ==
  /\ pc[c]["cancel"] = "inFlight"
  /\ \/ /\ c \in pending
        /\ pending' = pending \ {c}
        /\ ctx' = [ctx EXCEPT ![c] = "done"]
        /\ Goto(c, "cancel", "reject487")
     \/ /\ c \notin pending
        /\ Goto(c, "cancel", "lookup")
        /\ UNCHANGED <<pending, ctx>>
  /\ UNCHANGED <<routeVars, result, code, mediaVars, dialog, cdrVars, legVars>>

\* The rest of PendingCallManager.Cancel: free the media, answer the INVITE.
RejectCancelled(c) ==
  /\ pc[c]["cancel"] = "reject487"
  /\ ReleaseBridge(c)
  /\ Respond(c, 487)
  /\ Goto(c, "cancel", "cancelledRead")
  /\ UNCHANGED <<routeVars, result, code, ctx, pending, bridge, media,
                 recorder, dialog, cdrVars>>

\* finalizeCancelledCDR.
ReadForCancel(c) ==
  /\ pc[c]["cancel"] = "cancelledRead"
  /\ ReadRow(c, "cancel", "cancelledWrite")

WriteCancelled(c) ==
  /\ pc[c]["cancel"] = "cancelledWrite"
  /\ WriteRow(c, "cancel",
              Closed(snap[c]["cancel"], "cancelled", "caller_cancel"))

-----------------------------------------------------------------------------
(* The BYE handler; a CANCEL that finds a dialog goes the same way.        *)

\* The cause handleBYE and handleCANCEL pass to TerminateDialog.
HangupCause(h) == CASE h = "cancel"    -> "caller_cancel"
                    [] h = "callerBye" -> "caller_bye"
                    [] h = "calleeBye" -> "callee_bye"

\* Fork legs carry a Call-ID of their own, trunk legs the caller's.
KnownCallID(c, h) == h = "calleeBye" => direction[c] = "outbound"

\* dialogMgr.GetDialog: nil is a 481 to a BYE, and nothing to a CANCEL.
LookupDialog(c, h) ==
  /\ pc[c][h] = IF h = "cancel" THEN "lookup" ELSE "inFlight"
  /\ Goto(c, h, IF dialog[c] = "active" /\ KnownCallID(c, h)
                THEN "hangup" ELSE "unknown")
  /\ UNCHANGED <<routeVars, result, code, ctx, pending, mediaVars, dialog,
                 cdrVars, legVars>>

\* sendBYEToCallee / sendBYEToCaller: one datagram, outside any transaction.
SendBye(c, h) ==
  /\ pc[c][h] = "hangup"
  /\ \/ /\ IF h = "calleeBye"
           THEN callerLeg' = [callerLeg EXCEPT ![c] = "ended"] /\ UNCHANGED calleeLeg
           ELSE calleeLeg' = [calleeLeg EXCEPT ![c] = "ended"] /\ UNCHANGED callerLeg
     \/ "transport" \in Faults /\ UNCHANGED <<callerLeg, calleeLeg>>
  /\ Goto(c, h, "stopMedia")
  /\ UNCHANGED <<routeVars, result, code, ctx, pending, mediaVars, dialog,
                 cdrVars, finals>>

\* Recorder.Stop, then Media.Release, on the Dialog that was looked up.
StopMedia(c, h) ==
  /\ pc[c][h] = "stopMedia"
  /\ recorder' = [recorder EXCEPT ![c] = IF @ = "recording" THEN "stopped" ELSE @]
  /\ IF media[c] THEN Release(c) ELSE UNCHANGED session
  /\ Goto(c, h, "terminate")
  /\ UNCHANGED <<routeVars, result, code, ctx, pending, bridge, media, dialog,
                 cdrVars, legVars>>

\* dialogMgr.TerminateDialog: the handler that gets the dialog closes its CDR.
TerminateDialog(c, h) ==
  /\ pc[c][h] = "terminate"
  /\ dialog' = [dialog EXCEPT ![c] = "terminated"]
  /\ Goto(c, h, IF dialog[c] = "active" THEN "finalRead" ELSE "done")
  /\ UNCHANGED <<routeVars, result, code, ctx, pending, mediaVars, cdrVars,
                 legVars>>

\* finalizeCDR.
ReadForFinal(c, h) ==
  /\ pc[c][h] = "finalRead"
  /\ ReadRow(c, h, "finalWrite")

WriteFinal(c, h) ==
  /\ pc[c][h] = "finalWrite"
  /\ WriteRow(c, h, Closed(Answered(snap[c][h]), "answered", HangupCause(h)))

-----------------------------------------------------------------------------
(* The environment: phones, trunks, timers.                                *)

\* The device or trunk decides; a trunk that was not cancelled may do so late.
CalleeDecides(c) ==
  /\ calleeLeg[c] = "ringing"
  /\ \E outcome \in {"answered", "refused", "failed"} :
       calleeLeg' = [calleeLeg EXCEPT ![c] = outcome]
  /\ UNCHANGED <<pc, routeVars, result, code, ctx, pending, mediaVars, dialog,
                 cdrVars, finals, callerLeg>>

\* A caller without a final response may cancel, a party in a call hang up.
SendHangup(c, h) ==
  /\ pc[c][h] = "idle"
  /\ h \in Hangups
  /\ \/ /\ h = "cancel" /\ callerLeg[c] = "calling"
        /\ UNCHANGED <<callerLeg, calleeLeg>>
     \/ /\ h = "callerBye" /\ callerLeg[c] = "up"
        /\ callerLeg' = [callerLeg EXCEPT ![c] = "ended"]
        /\ UNCHANGED calleeLeg
     \/ /\ h = "calleeBye" /\ calleeLeg[c] = "up"
        /\ calleeLeg' = [calleeLeg EXCEPT ![c] = "ended"]
        /\ UNCHANGED callerLeg
  /\ Goto(c, h, "inFlight")
  /\ UNCHANGED <<routeVars, result, code, ctx, pending, mediaVars, dialog,
                 cdrVars, finals>>

\* The ring timeout, or the 60 seconds of an outbound call.
CtxExpires(c) ==
  /\ pc[c]["invite"] \in {"try", "dial", "dialled"}
  /\ ctx[c] = "live"
  /\ ctx' = [ctx EXCEPT ![c] = "done"]
  /\ UNCHANGED <<pc, routeVars, result, code, pending, mediaVars, dialog,
                 cdrVars, legVars>>

\* reapOrphaned: any session without RTP for the session timeout.
ReapSession(c) ==
  /\ pc[c]["invite"] # "dead"
  /\ session[c] # "none"
  /\ Release(c)
  /\ UNCHANGED <<pc, routeVars, result, code, ctx, pending, bridge, media,
                 recorder, dialog, cdrVars, legVars>>

-----------------------------------------------------------------------------
InviteStep(c) ==
  \/ AdmitInbound(c)    \/ RouteCall(c)       \/ PushWait(c)
  \/ AllocateMedia(c)   \/ RegisterPending(c) \/ StartFork(c)
  \/ TryTrunk(c)        \/ DialReturns(c)     \/ AfterDial(c)
  \/ TakePending(c)     \/ ResolveResult(c)   \/ AckCallee(c)
  \/ CompleteMedia(c)   \/ RelayAnswer(c)     \/ CreateDialog(c)
  \/ ReadForAnswer(c)   \/ WriteAnswer(c)     \/ SendFailure(c)
  \/ ReadForFailure(c)  \/ WriteFailure(c)

HangupStep(c, h) ==
  \/ LookupDialog(c, h)    \/ SendBye(c, h)      \/ StopMedia(c, h)
  \/ TerminateDialog(c, h) \/ ReadForFinal(c, h) \/ WriteFinal(c, h)

CancelStep(c) ==
  \/ CancelPending(c) \/ RejectCancelled(c)
  \/ ReadForCancel(c) \/ WriteCancelled(c)
  \/ HangupStep(c, "cancel")

EnvironmentStep(c) ==
  \/ HandleInvite(c) \/ RejectInvite(c) \/ CalleeDecides(c)
  \/ \E h \in Hangers : SendHangup(c, h)

TimerStep(c) == CtxExpires(c) \/ ReapSession(c)

CallStep(c) ==
  \/ InviteStep(c)
  \/ CancelStep(c)
  \/ \E h \in Byes : HangupStep(c, h)
  \/ EnvironmentStep(c)
  \/ TimerStep(c)

Next == \E c \in Calls : CallStep(c)

Running == \A c \in Calls : pc[c]["invite"] # "dead"

\* No party of the call sends RTP.
Silent(c) == callerLeg[c] # "up" /\ calleeLeg[c] # "up"

\* The goroutines are scheduled and the timers fire, the reaper's on sessions
\* that get no RTP; a party owes nothing.
Fairness == \A c \in Calls :
  /\ WF_vars(InviteStep(c))
  /\ WF_vars(CancelStep(c))
  /\ \A h \in Byes : WF_vars(HangupStep(c, h))
  /\ WF_vars(CtxExpires(c))
  /\ WF_vars(Silent(c) /\ ReapSession(c))

Spec == Init /\ [][Next]_vars

LiveSpec == Spec /\ Fairness

-----------------------------------------------------------------------------
(* Properties.                                                             *)

HandlerTypeOK == pc \in [Calls -> [Handlers -> Labels]]

RouteTypeOK ==
  /\ direction \in [Calls -> Directions \union {"unknown"}]
  /\ result \in [Calls -> Results]
  /\ code \in [Calls -> FailureCodes]
  /\ attempt \in [Calls -> 1 .. Len(TrunkOrder) + 1]
  /\ trunk \in [Calls -> Trunks \union {NoTrunk}]
  /\ ctx \in [Calls -> {"live", "done"}]
  /\ pending \subseteq Calls

MediaTypeOK ==
  /\ bridge \in [Calls -> BOOLEAN]
  /\ session \in [Calls -> {"none", "new", "relaying"}]
  /\ media \in [Calls -> BOOLEAN]
  /\ recorder \in [Calls -> {"none", "recording", "stopped"}]

CDRTypeOK ==
  /\ cdr \in [Calls -> Rows]
  /\ snap \in [Calls -> [Handlers -> Rows]]

LegTypeOK ==
  /\ dialog \in [Calls -> {"none", "active", "terminated"}]
  /\ finals \in [Calls -> Seq(FailureCodes \union {200})]
  /\ callerLeg \in [Calls -> CallerStates]
  /\ calleeLeg \in [Calls -> CalleeStates]

\* The types of the variables.
TypeOK ==
  /\ HandlerTypeOK
  /\ RouteTypeOK
  /\ MediaTypeOK
  /\ CDRTypeOK
  /\ LegTypeOK

\* The caller's INVITE gets at most one final response, although the INVITE and
\* the CANCEL goroutine both answer it: removing the pending call decides which.
AtMostOneFinal == \A c \in Calls : Len(finals[c]) <= 1

\* A dialog exists only for a caller that was told 200 and nothing else: a call
\* the CANCEL handler took is never connected behind the caller's back.
DialogEstablished == \A c \in Calls : dialog[c] # "none" =>
  /\ finals[c] = <<200>>
  /\ c \notin pending
  /\ pc[c]["cancel"] \notin {"reject487", "cancelledRead", "cancelledWrite"}

\* When a BYE or late CANCEL has taken the dialog down, its media session is
\* freed and its recording closed, whichever handler won.
HungUpMediaFreed == \A c \in Calls : dialog[c] = "terminated" =>
  /\ media[c] => session[c] = "none"
  /\ recorder[c] # "recording"

\* A closed CDR reports the one final response the caller got.
CDRTellsOutcome == \A c \in Calls : cdr[c].ended =>
  /\ dialog[c] # "active"
  /\ \E status \in FailureCodes \union {200} :
       /\ finals[c] = <<status>>
       /\ cdr[c].disposition = IF status = 200 THEN "answered" ELSE Disposition(status)

\* A closed CDR is never rewritten, by a second hangup in particular; only
\* updateCDROnAnswer, writing a row it read before, may reopen one.
ClosedRowStable == [][\A c \in Calls :
  cdr[c].ended /\ cdr'[c] # cdr[c] => pc[c]["invite"] = "answerWrite"]_vars

\* Every INVITE gets a final response: no interleaving of timers, trunk
\* failover, CANCEL and answer leaves the caller waiting, short of a panic.
InviteAnswered == \A c \in Calls :
  pc[c]["invite"] # "idle" ~> (finals[c] # <<>> \/ ~Running)

\* A BYE or CANCEL that found the dialog ends the dialog and the other party's
\* leg, in whatever order it interleaves with the other party's own hangup.
HangupCompletes == \A c \in Calls : \A h \in Handlers :
  pc[c][h] = "hangup" ~>
    \/ /\ dialog[c] = "terminated"
       /\ IF h = "calleeBye" THEN callerLeg[c] # "up" ELSE calleeLeg[c] # "up"
    \/ ~Running

\* A call's ports are given back once no party is left in it, on every path.
SessionReclaimed == \A c \in Calls :
  (callerLeg[c] = "ended" /\ calleeLeg[c] # "up") ~> (session[c] = "none" \/ ~Running)

\* A trunk carries no more answered calls than its channel limit.  This is what
\* ActiveCallCountForTrunk says of max_channels: "if the count equals or exceeds
\* max_channels, the trunk should not accept new calls"; it does not hold of two
\* calls set up at once.
TrunkWithinLimit == \A t \in Trunks :
  MaxChannels[t] > 0 => Load(t) <= MaxChannels[t]

InSetup(c) == pc[c]["invite"] \notin {"idle", "done", "dead"}

\* The channel limit is kept as long as calls are set up one at a time: inbound
\* admission and the outbound trunk loop count the calls the other one made.
SerialAdmission ==
  [](\A c, d \in Calls : InSetup(c) /\ InSetup(d) => c = d) => []TrunkWithinLimit

\* The phase of a call, seen from its caller's phone, its answer and its dialog.
Phase(c) ==
  CASE dialog[c] = "terminated" -> "cleared"
    [] dialog[c] = "active"     -> "active"
    [] dialog[c] = "none" /\ finals[c] = <<200>> -> "connected"
    [] dialog[c] = "none" /\ finals[c] # <<>> /\ finals[c] # <<200>> -> "refused"
    [] dialog[c] = "none" /\ finals[c] = <<>> ->
         IF callerLeg[c] = "idle" THEN "idle" ELSE "setup"

Lifecycle == INSTANCE CallLifecycle WITH phase <- [c \in Calls |-> Phase(c)]

\* The handlers together implement the life of a call that CallLifecycle
\* promises: one answer, one dialog, one end, however they interleave.
ImplementsLifecycle == Lifecycle!Spec

\* A call's media session, as the media package sees it.
MediaLife(c) ==
  IF session[c] # "none" THEN session[c] ELSE IF bridge[c] THEN "closed" ELSE "none"

Media == INSTANCE MediaSession WITH
  Users <- Calls, life <- [c \in Calls |-> MediaLife(c)]

\* The handlers use a session the way MediaSession lets them, whatever failure,
\* CANCEL, hangup or reaping comes between their steps: it is not opened twice,
\* and no relay is started on one that has been released.
ImplementsSession == Media!SessionSpec

\* Every way out of the INVITE handler leaves the caller with a final response, or
\* leaves that to the CANCEL handler, but for the 200 that could not be sent.
ExitAnswers == \A c \in Calls : pc[c]["invite"] = "done" =>
  \/ finals[c] # <<>>
  \/ pc[c]["cancel"] = "reject487"
  \/ "transport" \in Faults /\ result[c] = "answered"

\* A call that came to nothing holds no ports once its handlers are past giving
\* them back, without waiting for the reaper: only an answer whose media could
\* not be set up leaves them behind.
FailedCallFreed == \A c \in Calls :
  (/\ pc[c]["invite"] \in {"failing", "failRead", "failWrite", "done"}
   /\ pc[c]["cancel"] # "reject487"
   /\ dialog[c] = "none")
  => \/ session[c] = "none"
     \/ "media" \in Faults /\ result[c] = "answered" /\ ~media[c]

\* A caller is answered once: not by two handlers, and not by none.
AnsweredOnce == AtMostOneFinal /\ ExitAnswers

\* A call that is over, hung up or failed, has given its media back.
MediaFreed == HungUpMediaFreed /\ FailedCallFreed

-----------------------------------------------------------------------------
(* What the repository says and the code does not do.                      *)

\* handleCANCEL: "cancels all forked INVITE legs, and sends 487"; or, for an
\* answered call, "treat it like a BYE".  Either way the call is over.
CancelHonoured == \A c \in Calls :
  pc[c]["cancel"] = "unknown" => dialog[c] # "active"

\* handleBYE: "identifies which leg sent the BYE, tears down the other leg".
ByeFindsDialog == [][\A c \in Calls : \A h \in Byes :
  pc[c][h] = "inFlight" /\ pc'[c][h] = "unknown" => dialog[c] # "active"]_vars

\* createInitialCDR: "The CDR will be updated on answer and hangup."
HangupClosesCDR == \A c \in Calls :
  (/\ cdr[c].created
   /\ dialog[c] = "terminated"
   /\ \A h \in Handlers : pc[c][h] \in {"idle", "unknown", "done"})
  => cdr[c].ended

=============================================================================
