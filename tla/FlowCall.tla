------------------------------ MODULE FlowCall ------------------------------
(***************************************************************************)
(* A call that a flow answers: the engine that walks the flow's graph      *)
(* (internal/flow/engine.go), the nodes that ring phones (flow/nodes), the *)
(* SIP actions behind them (internal/sip/flowactions.go) and the follow-me *)
(* of an extension (followme.go), racing with the caller's CANCEL or a BYE *)
(* (server.go, cancel.go) and with the reaper of media sessions.           *)
(*                                                                         *)
(* The walker is the goroutine of the INVITE.  A flow is any path of at    *)
(* most MaxNodes nodes.  Nodes that only choose an edge are one kind,      *)
(* "choose"; what they do is in DigitCollection and Voicemail.             *)
(***************************************************************************)
EXTENDS Integers, FiniteSets

CONSTANTS
  MaxNodes,     \* nodes that a flow visits at most
  MaxMembers,   \* members of a ring group, numbers of a follow-me
  NodeTimeout,  \* deadline of a node, in ring timeouts
  MaxHangups,   \* CANCEL and BYE requests of a call
  FlowModes,    \* how the call comes here
  FlowFaults    \* what may go wrong: "db", "media", "transport"

ASSUME FlowAssumption ==
  /\ {MaxNodes, MaxMembers, NodeTimeout} \subseteq Nat \ {0}
  /\ MaxHangups \in Nat
  /\ FlowModes \subseteq {"flow", "sequential", "simultaneous"}

Numbers == 1 .. MaxMembers
CallSession == 0   \* the session with the Call-ID as key; a leg's has its number
Sessions == {CallSession} \union Numbers
NoSession == -1
RingKinds == {"extension", "ring_all", "one_by_one"}
NodeKinds == RingKinds \union {"choose", "conference", "hangup", "transfer"}
FlowDispositions == {"in_progress", "answered", "no_answer", "cancelled", "failed"}
FlowRows == [ended : BOOLEAN, path : BOOLEAN, disposition : FlowDispositions]

VARIABLES
  mode,      \* a flow, or which follow-me
  walk,      \* where the walker is
  node,      \* the kind of node it executes
  left,      \* how many more nodes the flow has at most
  elapsed,   \* time spent in the node, in ring timeouts
  member,    \* whose turn it is, 0 if nobody's
  ring,      \* what the ring attempt came to
  retried,   \* whether a push has revived stale registrations
  leg,       \* leg[n]: where the goroutine for number n is (simultaneous)
  stop,      \* the ring context is cancelled
  waiting,   \* the call is in PendingCallManager.pending
  held,      \* the keys of SessionManager.sessions
  bridged,   \* the session of mediaSession, later Dialog.Media, or NoSession
  phone,     \* the phone or trunk that is rung; "left" if its BYE is not accepted
  talk,      \* the dialog
  caller,    \* the caller's phone
  hang,      \* where the handler of the CANCEL or BYE is
  hangups,   \* how many there were
  row,       \* the call's CDR
  copies     \* copies[h]: the row that handler h has read and will write

callVars == <<mode, node, left, elapsed, member>>
ringVars == <<ring, retried, leg, stop, waiting>>
partyVars == <<phone, talk, caller>>
hangVars == <<hang, hangups>>
rowVars == <<row, copies>>

VARIABLES
  rungOn,    \* history: a phone was rung after the CANCEL came
  leaked,    \* history: a session was left behind
  stranded,  \* history: a phone was left without a BYE
  silent,    \* history: the flow has ended without a response to the caller
  clobbered  \* history: a row was overwritten with an older one, or not written

flowHistory == <<rungOn, leaked, stranded, silent, clobbered>>
flowVars == <<callVars, walk, ringVars, held, bridged, partyVars, hangVars, rowVars, flowHistory>>

FreshRow == [ended |-> FALSE, path |-> FALSE, disposition |-> "in_progress"]

FlowInit ==
  /\ mode \in FlowModes
  /\ walk = IF mode = "flow" THEN "load" ELSE "trunks"
  /\ node = "choose" /\ left = MaxNodes /\ elapsed = 0 /\ member = 0
  /\ ring = "none" /\ retried = FALSE
  /\ leg = [n \in Numbers |-> "off"]
  /\ stop = FALSE /\ waiting = FALSE
  /\ held = {} /\ bridged = NoSession
  /\ phone = "idle" /\ talk = "none" /\ caller = "calling"
  /\ hang = "idle" /\ hangups = 0
  /\ row = FreshRow /\ copies = [h \in {"walker", "hang"} |-> FreshRow]
  /\ rungOn = FALSE /\ leaked = FALSE /\ stranded = FALSE /\ silent = FALSE /\ clobbered = FALSE

WalkGoes(label) == walk' = label
Expired == elapsed >= NodeTimeout

\* GetByCallID, then Update of every column: reading and writing back a row.
ReadCopy(h) == copies' = [copies EXCEPT ![h] = row]

\* What somebody else wrote between the two is lost.
WriteBack(h, new) ==
  /\ row' = new
  /\ clobbered' = (clobbered \/ row # copies[h])

\* The caller has had no final response.
Open == caller \in {"calling", "cancelling"}

\* tx.Respond with a final status; once there was one, it is ignored.
Answer(status) ==
  caller' = IF ~Open THEN caller ELSE IF status = 200 THEN "up" ELSE "refused"

WriteFails == "db" \in FlowFaults /\ clobbered' = TRUE /\ UNCHANGED row

-----------------------------------------------------------------------------
(* Mutants: plausible bugs, used by no specification.                      *)

\* A member that is rung again and again.
NextMemberStays(again, otherwise) ==
  IF member < MaxMembers
  THEN member' = member /\ WalkGoes(again)
  ELSE member' = 0 /\ WalkGoes(otherwise)

\* A ring attempt that keeps its session.
FreedNot(key) == held' = held

\* A follow-me that drops a callee who declines without a BYE.
DeclineSilently == phone' = phone

\* A follow-me that found nobody and does not tell the caller.
RefuseCallerSilently ==
  /\ walk = "refuse"
  /\ WalkGoes("end480")
  /\ UNCHANGED <<callVars, ringVars, held, bridged, partyVars, hangVars, rowVars, flowHistory>>

\* A BYE of the other party that does not tell the caller.
HandleFlowByeOneWay ==
  /\ hang \in {"bye", "forkBye"}
  /\ IF talk = "active" /\ hang = "bye" THEN phone' = "idle" /\ hang' = "media"
     ELSE hang' = "idle" /\ UNCHANGED phone
  /\ UNCHANGED <<callVars, walk, ringVars, held, bridged, talk, caller, hangups, rowVars, flowHistory>>

\* A ring attempt that does not look whether its pending call was there.
RingOutcomeBlind == IF ring \in {"answered", "late"} THEN ring ELSE "none"

\* finalizeCDR that does not set the end.
FinalRowOpen(r) == [r EXCEPT !.disposition = "answered"]

-----------------------------------------------------------------------------
(* What a ring attempt returns to.                                         *)

\* The next member of a ring group or number of a follow-me, or nobody is left.
NextMember(again, otherwise) ==
  IF member < MaxMembers
  THEN /\ member' = member + 1
       /\ WalkGoes(again)
  ELSE /\ member' = 0
       /\ WalkGoes(otherwise)

\* The extension's node returns an error, which is the timeout edge if the node's
\* deadline has passed, or no answer,
ExtensionNode(outcome) == WalkGoes(IF outcome = "error" /\ ~Expired THEN "broken" ELSE "edge")

\* and so does a ring group that rings all.
RingGroupNode(outcome) == ExtensionNode(outcome)

\* executeRoundRobin, executeRandom, executeLongestIdle and RingFollowMe go on
\* after an error as after no answer.
ReturnRing(outcome) ==
  /\ ring' = "none" /\ retried' = FALSE
  /\ IF outcome = "answered"
     THEN WalkGoes(IF mode = "flow" THEN "edge" ELSE "done") /\ member' = 0
     ELSE CASE mode = "flow" /\ node = "one_by_one" -> NextMember("lookup", "edge")
            [] mode = "sequential" -> NextMember("alloc", "refuse")
            [] mode = "simultaneous" -> WalkGoes("refuse") /\ member' = 0
            [] mode = "flow" /\ node = "ring_all" -> RingGroupNode(outcome) /\ member' = 0
            [] OTHER -> ExtensionNode(outcome) /\ member' = 0

\* A session given back.
Freed(key) == held' = held \ {key}

-----------------------------------------------------------------------------
(* The engine.                                                             *)

\* ExecuteFlow: a flow that is not published, not well formed or cannot be read
\* is over at once, and nobody answers the caller.
LoadFlow ==
  /\ walk = "load"
  /\ \/ WalkGoes("enter") /\ UNCHANGED silent
     \/ WalkGoes("end500") /\ silent' = Open
  /\ UNCHANGED <<callVars, ringVars, held, bridged, partyVars, hangVars, rowVars,
                 rungOn, leaked, stranded, clobbered>>

\* walkGraph executes a node: one that chooses an edge, ends the call, joins a
\* conference or rings.  A node fails when its entity cannot be read.
EnterNode ==
  /\ walk = "enter" /\ left > 0
  /\ left' = left - 1 /\ elapsed' = 0
  /\ \E kind \in NodeKinds :
       /\ node' = kind
       /\ \/ /\ WalkGoes(CASE kind = "choose" -> "edge"
                           [] kind \in {"transfer", "hangup", "conference"} -> kind
                           [] kind = "ring_all" -> "gather"
                           [] OTHER -> "lookup")
             /\ member' = IF kind = "one_by_one" THEN 1 ELSE 0
          \/ /\ "db" \in FlowFaults /\ WalkGoes("broken") /\ UNCHANGED member
  /\ UNCHANGED <<mode, ringVars, held, bridged, partyVars, hangVars, rowVars, flowHistory>>

\* BlindTransfer only logs, and the flow is over.
TransferNode ==
  /\ walk = "transfer"
  /\ \/ WalkGoes("finish") /\ silent' = Open
     \/ WalkGoes("broken") /\ UNCHANGED silent
  /\ UNCHANGED <<callVars, ringVars, held, bridged, partyVars, hangVars, rowVars,
                 rungOn, leaked, stranded, clobbered>>

\* followEdge: the edge leads to a node, or there is none.
FollowEdge ==
  /\ walk = "edge"
  /\ \/ left > 0 /\ WalkGoes("enter")
     \/ WalkGoes("broken")
  /\ UNCHANGED <<callVars, ringVars, held, bridged, partyVars, hangVars, rowVars, flowHistory>>

\* HangupCall: an active dialog is dropped, neither party is told; else the
\* caller gets the cause.
HangupCall ==
  IF talk = "active"
  THEN /\ talk' = "over"
       /\ leaked' = (leaked \/ held # {})
       /\ stranded' = TRUE
       /\ UNCHANGED caller
  ELSE Answer(486) /\ UNCHANGED <<talk, leaked, stranded>>

HangupNode ==
  /\ walk = "hangup"
  /\ HangupCall
  /\ WalkGoes("finish")
  /\ UNCHANGED <<callVars, ringVars, held, bridged, phone, hangVars, rowVars, rungOn, silent, clobbered>>

\* JoinConference: the caller is answered, and leaves when the deadline passes;
\* without a codec, a room or the right PIN the flow is over.
ConferenceNode ==
  /\ walk = "conference"
  /\ \/ Answer(200) /\ elapsed' = NodeTimeout /\ WalkGoes("edge")
     \/ UNCHANGED <<caller, elapsed>> /\ WalkGoes("broken")
  /\ UNCHANGED <<mode, node, left, member, ringVars, held, bridged, phone, talk,
                 hangVars, rowVars, flowHistory>>

\* updateCDRFlowPath, at the end of every flow.  label tells how it ended.
ReadForPath ==
  /\ walk \in {"finish", "broken"}
  /\ ReadCopy("walker")
  /\ WalkGoes(IF walk = "finish" THEN "path200" ELSE "path500")
  /\ UNCHANGED <<callVars, ringVars, held, bridged, partyVars, hangVars, row, flowHistory>>

\* A failed flow is answered with 500, whether or not a phone was connected.
WritePath ==
  /\ walk \in {"path200", "path500"}
  /\ \/ WriteBack("walker", [copies["walker"] EXCEPT !.path = TRUE])
     \/ WriteFails
  /\ IF walk = "path500" THEN Answer(500) ELSE UNCHANGED caller
  /\ WalkGoes(IF walk = "path200" THEN "end200" ELSE "end500")
  /\ UNCHANGED <<callVars, ringVars, held, bridged, phone, talk, hangVars, copies,
                 rungOn, leaked, stranded, silent>>

\* tryFollowMe found nobody: 480.
RefuseCaller ==
  /\ walk = "refuse"
  /\ Answer(480)
  /\ WalkGoes("end480")
  /\ UNCHANGED <<callVars, ringVars, held, bridged, phone, talk, hangVars, rowVars, flowHistory>>

\* finalizeCDRFailed(200 or 500), also for a call that was answered.
ReadForEnd ==
  /\ walk \in {"end200", "end480", "end500"}
  /\ ReadCopy("walker")
  /\ WalkGoes(CASE walk = "end200" -> "close200" [] walk = "end480" -> "close480"
                [] OTHER -> "close500")
  /\ UNCHANGED <<callVars, ringVars, held, bridged, partyVars, hangVars, row, flowHistory>>

WriteEnd ==
  /\ walk \in {"close200", "close480", "close500"}
  /\ \/ WriteBack("walker", [copies["walker"] EXCEPT !.ended = TRUE,
            !.disposition = CASE walk = "close200" -> "answered"
                              [] walk = "close480" -> "no_answer" [] OTHER -> "failed"])
     \/ WriteFails
  /\ WalkGoes("done")
  /\ UNCHANGED <<callVars, ringVars, held, bridged, partyVars, hangVars, copies,
                 rungOn, leaked, stranded, silent>>

-----------------------------------------------------------------------------
(* Ringing: RingExtension, RingGroup, ringExternalNumber.                  *)

Key == IF mode = "simultaneous" THEN member ELSE CallSession

\* RingExtension looks the registrations up, which fails after the node's
\* deadline: DND, busy, nobody, a push to wake somebody, or phones.
LookupPhones ==
  /\ walk = "lookup"
  /\ \/ (Expired \/ "db" \in FlowFaults) /\ ReturnRing("error")
     \/ ~Expired /\ ReturnRing("none")
     \/ /\ ~Expired
        /\ WalkGoes("alloc") \/ WalkGoes("push")
        /\ UNCHANGED <<member, ring, retried>>
  /\ UNCHANGED <<mode, node, left, elapsed, leg, stop, waiting, held, bridged, partyVars,
                 hangVars, rowVars, flowHistory>>

\* RingGroup gathers the phones of all members; a member that cannot be read,
\* has DND, is busy or has none is skipped.
GatherMembers ==
  /\ walk = "gather"
  /\ \/ ReturnRing("none")
     \/ ~Expired /\ WalkGoes("alloc") /\ UNCHANGED <<member, ring, retried>>
  /\ UNCHANGED <<mode, node, left, elapsed, leg, stop, waiting, held, bridged, partyVars,
                 hangVars, rowVars, flowHistory>>

\* The push wait, and the registrations once more.
AwaitPush ==
  /\ walk = "push"
  /\ \/ WalkGoes("alloc") /\ UNCHANGED <<member, ring, retried>>
     \/ ReturnRing("none")
  /\ UNCHANGED <<mode, node, left, elapsed, leg, stop, waiting, held, bridged, partyVars,
                 hangVars, rowVars, flowHistory>>

\* SelectTrunks, and the first number or all of them at once.
SelectForFollowMe ==
  /\ walk = "trunks"
  /\ \/ WalkGoes("refuse") /\ UNCHANGED <<member, leg, stop, waiting>>
     \/ /\ mode = "sequential" /\ member' = 1 /\ WalkGoes("alloc")
        /\ UNCHANGED <<leg, stop, waiting>>
     \/ /\ mode = "simultaneous" /\ waiting' = TRUE /\ stop' = FALSE
        /\ leg' = [n \in Numbers |-> "start"] /\ WalkGoes("collect")
        /\ UNCHANGED member
  /\ UNCHANGED <<mode, node, left, elapsed, ring, retried, held, bridged, partyVars,
                 hangVars, rowVars, flowHistory>>

\* AllocateMediaBridge: there may be a session with the call's key already.
AllocateForRing ==
  /\ walk = "alloc"
  /\ \/ /\ CallSession \notin held
        /\ held' = held \union {CallSession} /\ WalkGoes("pend")
        /\ UNCHANGED <<member, ring, retried>>
     \/ /\ CallSession \in held \/ "media" \in FlowFaults
        /\ ReturnRing("error") /\ UNCHANGED held
  /\ UNCHANGED <<mode, node, left, elapsed, leg, stop, waiting, bridged, partyVars,
                 hangVars, rowVars, flowHistory>>

\* pendingMgr.Add, and the INVITEs go out.
AddPending ==
  /\ walk = "pend"
  /\ waiting' = TRUE /\ stop' = FALSE
  /\ phone' = "ringing"
  /\ rungOn' = (rungOn \/ caller # "calling")
  /\ WalkGoes("fork")
  /\ UNCHANGED <<callVars, ring, retried, leg, held, bridged, talk, caller, hangVars,
                 rowVars, leaked, stranded, silent, clobbered>>

\* Fork: an answer, also one that comes together with a CANCEL or the timeout;
\* all busy or gone; stale registrations, which only RingExtension looks for; or
\* the timeout.
ForkReturns ==
  /\ walk = "fork" /\ mode = "flow"
  /\ \/ ring' = "answered" /\ phone' = "answered" /\ UNCHANGED elapsed
     \/ ring' \in {"none", "error"} /\ phone' = "idle" /\ UNCHANGED elapsed
     \/ /\ node # "ring_all" /\ ~stop
        /\ ring' = "stale" /\ phone' = "idle" /\ UNCHANGED elapsed
     \/ /\ ring' = "none" /\ phone' = "idle"
        /\ elapsed' = IF Expired THEN elapsed ELSE elapsed + 1
  /\ WalkGoes("take")
  /\ UNCHANGED <<mode, node, left, member, retried, leg, stop, waiting, held, bridged, talk,
                 caller, hangVars, rowVars, flowHistory>>

\* An INVITE to a trunk that asked for credentials: an answer, or one that comes
\* as the ring context ends, or none.
AuthOutcomes == {"answered", "late", "none"}

\* The first INVITE to a trunk comes to the same.
InviteOutcomes == AuthOutcomes

\* ringExternalNumber dials the trunks one by one, unless their channels are
\* taken, until one answers or the number refuses.
TrunksReturn ==
  /\ walk = "fork" /\ mode = "sequential"
  /\ ring' \in InviteOutcomes
  /\ phone' = IF ring' = "none" THEN "idle" ELSE "answered"
  /\ WalkGoes("take")
  /\ UNCHANGED <<callVars, retried, leg, stop, waiting, held, bridged, talk,
                 caller, hangVars, rowVars, flowHistory>>

\* What the ring came to, given whether the CANCEL handler took the entry.
RingOutcome == IF waiting THEN ring ELSE "cancelled"

\* pendingMgr.Remove.  A late answer has no selectedTrunk: a nil dereference.
TakePendingRing ==
  /\ walk = "take"
  /\ waiting' = FALSE
  /\ CASE RingOutcome = "answered" ->
            WalkGoes("ack") /\ UNCHANGED <<phone, held, member, ring, retried>>
       [] RingOutcome = "late" ->
            WalkGoes("dead") /\ UNCHANGED <<phone, held, member, ring, retried>>
       [] RingOutcome = "stale" /\ ~retried ->
            WalkGoes("revive") /\ UNCHANGED <<phone, held, member, ring, retried>>
       [] RingOutcome = "cancelled" ->
            /\ phone' = "idle" /\ ReturnRing("error")
            /\ IF mode = "flow" \/ (ring = "none" /\ mode = "simultaneous")
               THEN UNCHANGED held ELSE Freed(Key)
       [] OTHER ->
            /\ Freed(Key) /\ UNCHANGED phone
            /\ ReturnRing(IF ring = "error" /\ mode = "flow" THEN "error" ELSE "none")
  /\ UNCHANGED <<mode, node, left, elapsed, leg, stop, bridged, talk, caller, hangVars,
                 rowVars, flowHistory>>

\* A push for stale registrations; no entry is pending while it is awaited.
Revive ==
  /\ walk = "revive"
  /\ \/ retried' = TRUE /\ WalkGoes("pend") /\ UNCHANGED <<held, member, ring>>
     \/ Freed(CallSession) /\ ReturnRing("none")
     \/ "db" \in FlowFaults /\ Freed(CallSession) /\ ReturnRing("error")
  /\ UNCHANGED <<mode, node, left, elapsed, leg, stop, waiting, bridged, partyVars,
                 hangVars, rowVars, flowHistory>>

\* The callee gets its ACK; a follow-me may ask for a confirmation.
AckPhone ==
  /\ walk = "ack"
  /\ \/ /\ phone' = "up"
        /\ \/ WalkGoes("complete")
           \/ mode # "flow" /\ WalkGoes("confirm")
        /\ UNCHANGED <<held, member, ring, retried>>
     \/ /\ "transport" \in FlowFaults
        /\ phone' = "idle" /\ Freed(Key) /\ ReturnRing("error")
  /\ UNCHANGED <<mode, node, left, elapsed, leg, stop, waiting, bridged, talk, caller,
                 hangVars, rowVars, flowHistory>>

\* sendFollowMeBYE.
Decline == phone' = "idle"

\* confirmExternalLeg: the digit 1, or anything else.  A CANCEL finds nothing.
Confirm ==
  /\ walk = "confirm"
  /\ \/ WalkGoes("complete") /\ UNCHANGED <<phone, held, member, ring, retried>>
     \/ Decline /\ Freed(Key) /\ ReturnRing("none")
  /\ UNCHANGED <<mode, node, left, elapsed, leg, stop, waiting, bridged, talk, caller,
                 hangVars, rowVars, flowHistory>>

\* CompleteMediaBridge, which gives the session back on every error; the call
\* goes on without media.  An answer without SDP is not even given to it, and
\* the session stays.
CompleteRing ==
  /\ walk = "complete"
  /\ \/ bridged' = Key /\ UNCHANGED held
     \/ "media" \in FlowFaults /\ bridged' = NoSession /\ (Freed(Key) \/ UNCHANGED held)
  /\ WalkGoes("relay")
  /\ UNCHANGED <<callVars, ringVars, partyVars, hangVars, rowVars, flowHistory>>

\* A session that no dialog will have is still in the table.
NotBridged == bridged = NoSession /\ Key \in held

\* The caller's 200.  If it cannot be sent the callee is not told, and a
\* session that was not bridged is not given back.
RelayOK ==
  /\ walk = "relay"
  /\ \/ Answer(200) /\ WalkGoes("dialog") /\ UNCHANGED <<held, member, ring, retried, leaked, stranded>>
     \/ /\ "transport" \in FlowFaults \/ ~Open
        /\ held' = held \ {bridged} /\ leaked' = (leaked \/ NotBridged)
        /\ stranded' = TRUE
        /\ ReturnRing("error") /\ UNCHANGED caller
  /\ UNCHANGED <<mode, node, left, elapsed, leg, stop, waiting, bridged, phone, talk,
                 hangVars, rowVars, rungOn, silent, clobbered>>

\* dialogMgr.CreateDialog, by the call's Call-ID: a BYE that is ending the dialog
\* of a phone rung before drops this one.  Then updateCDROnAnswer's read
CreateFlowDialog ==
  /\ walk = "dialog"
  /\ talk' = "active"
  /\ leaked' = (leaked \/ NotBridged \/ hang = "drop")
  /\ stranded' = (stranded \/ hang \in {"media", "drop"})
  /\ WalkGoes("ansRead")
  /\ UNCHANGED <<callVars, ringVars, held, bridged, phone, caller, hangVars, rowVars,
                 rungOn, silent, clobbered>>

ReadForFlowAnswer ==
  /\ walk = "ansRead"
  /\ ReadCopy("walker")
  /\ WalkGoes("ansWrite")
  /\ UNCHANGED <<callVars, ringVars, held, bridged, partyVars, hangVars, row, flowHistory>>

\* and its write of the answer time.
WriteFlowAnswer ==
  /\ walk = "ansWrite"
  /\ \/ WriteBack("walker", copies["walker"])
     \/ WriteFails
  /\ ReturnRing("answered")
  /\ UNCHANGED <<mode, node, left, elapsed, leg, stop, waiting, held, bridged, partyVars,
                 hangVars, copies, rungOn, leaked, stranded, silent>>

-----------------------------------------------------------------------------
(* RingFollowMeSimultaneous.                                               *)

LegGoes(n, label) == leg' = [leg EXCEPT ![n] = label]

\* A leg has a session of its own.
LegAllocates(n) ==
  /\ leg[n] = "start"
  /\ \/ held' = held \union {n} /\ LegGoes(n, "dial")
     \/ "media" \in FlowFaults /\ LegGoes(n, "failed") /\ UNCHANGED held
  /\ UNCHANGED <<callVars, walk, ring, retried, stop, waiting, bridged, partyVars,
                 hangVars, rowVars, flowHistory>>

\* It is answered, perhaps as its context ends, or it is lost.
LegDials(n) ==
  /\ leg[n] = "dial"
  /\ \E outcome \in InviteOutcomes :
       /\ stop => outcome # "answered"
       /\ LegGoes(n, IF outcome = "none" THEN "lost" ELSE outcome)
  /\ UNCHANGED <<callVars, walk, ring, retried, stop, waiting, held, bridged, partyVars,
                 hangVars, rowVars, flowHistory>>

\* The first answer wins and cancels the other legs.
CollectLeg(n) ==
  /\ walk = "collect"
  /\ \/ /\ leg[n] \in {"failed", "lost"}
        /\ IF leg[n] = "lost" THEN Freed(n) ELSE UNCHANGED held
        /\ LegGoes(n, "over")
        /\ UNCHANGED <<member, ring, stop, phone>>
     \/ /\ leg[n] \in {"answered", "late"} /\ member = 0
        /\ member' = n /\ ring' = leg[n] /\ phone' = "answered" /\ stop' = TRUE
        /\ LegGoes(n, "over")
        /\ UNCHANGED held
     \/ /\ leg[n] \in {"answered", "late"} /\ member # 0
        /\ LegGoes(n, "loser")
        /\ UNCHANGED <<member, ring, stop, phone, held>>
  /\ UNCHANGED <<mode, walk, node, left, elapsed, retried, waiting, bridged, talk, caller,
                 hangVars, rowVars, flowHistory>>

\* The channel is closed: the losers' transactions and sessions end.
DropLosers ==
  /\ walk = "collect"
  /\ \A n \in Numbers : leg[n] \in {"over", "loser"}
  /\ held' = held \ {n \in Numbers : leg[n] = "loser"}
  /\ leg' = [n \in Numbers |-> "over"]
  /\ stop' = TRUE
  /\ WalkGoes("take")
  /\ UNCHANGED <<callVars, ring, retried, waiting, bridged, partyVars, hangVars, rowVars,
                 flowHistory>>

-----------------------------------------------------------------------------
(* The caller's CANCEL, a BYE of either side, and the reaper.              *)

HangGoes(label) == hang' = label

\* The environment: a party hangs up.  The BYE of a phone that the Forker rang
\* has the Call-ID of its own leg, that of a trunk has the caller's.
SendFlowHangup ==
  /\ hang = "idle" /\ hangups < MaxHangups
  /\ hangups' = hangups + 1
  /\ \/ caller = "calling" /\ HangGoes("cancel") /\ caller' = "cancelling" /\ UNCHANGED phone
     \/ caller = "up" /\ HangGoes("bye") /\ caller' = "gone" /\ UNCHANGED phone
     \/ /\ phone = "up" /\ HangGoes(IF mode = "flow" THEN "forkBye" ELSE "bye")
        /\ phone' = "left" /\ UNCHANGED caller
  /\ UNCHANGED <<callVars, walk, ringVars, held, bridged, talk, rowVars, flowHistory>>

\* handleCANCEL: a pending call is taken and its ring stopped; an active dialog
\* ends as by a BYE of its caller; else nothing is known of the call.
HandleFlowCancel ==
  /\ hang = "cancel"
  /\ IF waiting
     THEN waiting' = FALSE /\ stop' = TRUE /\ HangGoes("free") /\ UNCHANGED <<phone, caller>>
     ELSE /\ UNCHANGED <<waiting, stop>>
          /\ IF talk = "active" THEN phone' = "idle" /\ caller' = "gone" /\ HangGoes("media")
             ELSE UNCHANGED <<phone, caller>> /\ HangGoes("idle")
  /\ UNCHANGED <<callVars, walk, ring, retried, leg, held, bridged, talk, hangups, rowVars,
                 flowHistory>>

\* PendingCall.Bridge.Release, by the call's key, whoever has the session now;
\* then 487.
FreeCancelled ==
  /\ hang = "free"
  /\ IF mode = "simultaneous" THEN UNCHANGED held ELSE Freed(CallSession)
  /\ Answer(487)
  /\ HangGoes("markRead")
  /\ UNCHANGED <<callVars, walk, ringVars, bridged, phone, talk, hangups, rowVars, flowHistory>>

\* handleBYE: the dialog, which has the caller's Call-ID as key, is looked up and
\* its other party gets a BYE; or there is none: 481, and nobody is told.
HandleFlowBye ==
  /\ hang \in {"bye", "forkBye"}
  /\ IF talk = "active" /\ hang = "bye"
     THEN phone' = "idle" /\ caller' = "gone" /\ HangGoes("media")
     ELSE UNCHANGED <<phone, caller>> /\ HangGoes("idle")
  /\ UNCHANGED <<callVars, walk, ringVars, held, bridged, talk, hangups, rowVars, flowHistory>>

ReleaseFlowMedia ==
  /\ hang = "media"
  /\ held' = held \ {bridged}
  /\ HangGoes("drop")
  /\ UNCHANGED <<callVars, walk, ringVars, bridged, partyVars, hangups, rowVars, flowHistory>>

\* TerminateDialog; HangupCall may have been first.
DropDialog ==
  /\ hang = "drop"
  /\ IF talk = "active" THEN talk' = "over" /\ HangGoes("finRead")
     ELSE UNCHANGED talk /\ HangGoes("idle")
  /\ UNCHANGED <<callVars, walk, ringVars, held, bridged, phone, caller, hangups, rowVars,
                 flowHistory>>

ReadForHangup ==
  /\ hang \in {"markRead", "finRead"}
  /\ ReadCopy("hang")
  /\ HangGoes(IF hang = "markRead" THEN "markWrite" ELSE "finWrite")
  /\ UNCHANGED <<callVars, walk, ringVars, held, bridged, partyVars, hangups, row, flowHistory>>

FinalRow(r) == [r EXCEPT !.disposition = "answered", !.ended = TRUE]

\* finalizeCancelledCDR, finalizeCDR.
WriteHangup ==
  /\ hang \in {"markWrite", "finWrite"}
  /\ \/ WriteBack("hang", IF hang = "finWrite" THEN FinalRow(copies["hang"])
          ELSE [copies["hang"] EXCEPT !.disposition = "cancelled", !.ended = TRUE])
     \/ WriteFails
  /\ HangGoes("idle")
  /\ UNCHANGED <<callVars, walk, ringVars, held, bridged, partyVars, hangups, copies,
                 rungOn, leaked, stranded, silent>>

\* reapOrphaned: ringing is shorter than the session timeout.
ReapFlowSession ==
  /\ walk \in {"done", "dead"} /\ talk # "active" /\ held # {}
  /\ \E key \in held : Freed(key)
  /\ UNCHANGED <<callVars, walk, ringVars, bridged, partyVars, hangVars, rowVars, flowHistory>>

\* ExecuteFlow and the call's end.
EngineStep ==
  \/ LoadFlow \/ EnterNode \/ FollowEdge \/ HangupNode \/ TransferNode \/ ConferenceNode
  \/ ReadForPath \/ WritePath \/ RefuseCaller \/ ReadForEnd \/ WriteEnd

\* What RingExtension and RingGroup do until a phone answers,
RingStep ==
  \/ LookupPhones \/ GatherMembers \/ AwaitPush \/ AllocateForRing \/ AddPending
  \/ ForkReturns \/ TakePendingRing \/ Revive

\* and what they do with the answer.
ConnectStep ==
  AckPhone \/ Confirm \/ CompleteRing \/ RelayOK \/ CreateFlowDialog \/ ReadForFlowAnswer \/ WriteFlowAnswer

\* RingGroup repeats it, and so do ringExternalNumber and
\* RingFollowMeSimultaneous for the trunk that answered.
ConnectPhone == mode = "flow" /\ ConnectStep
ConnectNumber == mode = "sequential" /\ ConnectStep
ConnectWinner == mode = "simultaneous" /\ ConnectStep

FollowMeStep == SelectForFollowMe \/ TrunksReturn \/ DropLosers

WalkerStep ==
  EngineStep \/ RingStep \/ FollowMeStep \/ ConnectPhone \/ ConnectNumber \/ ConnectWinner

LegStep(n) == LegAllocates(n) \/ LegDials(n) \/ CollectLeg(n)

HangStep ==
  \/ HandleFlowCancel \/ FreeCancelled \/ HandleFlowBye \/ ReleaseFlowMedia
  \/ DropDialog \/ ReadForHangup \/ WriteHangup

FlowNext ==
  \/ WalkerStep
  \/ \E n \in Numbers : LegStep(n)
  \/ SendFlowHangup
  \/ HangStep
  \/ ReapFlowSession

FlowSpec == FlowInit /\ [][FlowNext]_flowVars

-----------------------------------------------------------------------------
(* Properties.                                                             *)

FlowTypeOK ==
  /\ mode \in FlowModes /\ node \in NodeKinds
  /\ left \in 0 .. MaxNodes /\ elapsed \in 0 .. NodeTimeout /\ member \in 0 .. MaxMembers
  /\ walk \in {"load", "enter", "edge", "hangup", "transfer", "conference", "finish", "broken", "path200", "path500",
       "refuse", "end200", "end480", "end500", "close200", "close480", "close500", "lookup", "gather", "push",
       "trunks", "alloc", "pend", "fork", "take", "revive", "ack", "confirm", "complete", "relay",
       "dialog", "ansRead", "ansWrite", "collect", "done", "dead"}
  /\ ring \in {"none", "answered", "late", "stale", "error"}
  /\ retried \in BOOLEAN /\ stop \in BOOLEAN /\ waiting \in BOOLEAN
  /\ leg \in [Numbers -> {"off", "start", "dial", "failed", "lost", "answered", "late", "loser", "over"}]
  /\ held \subseteq Sessions /\ bridged \in Sessions \union {NoSession}
  /\ phone \in {"idle", "ringing", "answered", "up", "left"}
  /\ talk \in {"none", "active", "over"}
  /\ caller \in {"calling", "cancelling", "up", "gone", "refused"}
  /\ hang \in {"idle", "cancel", "free", "markRead", "markWrite", "bye", "forkBye", "media",
               "drop", "finRead", "finWrite"}
  /\ hangups \in 0 .. MaxHangups
  /\ row \in FlowRows /\ copies \in [{"walker", "hang"} -> FlowRows]
  /\ rungOn \in BOOLEAN /\ leaked \in BOOLEAN /\ stranded \in BOOLEAN
  /\ silent \in BOOLEAN /\ clobbered \in BOOLEAN

\* Where a ring attempt has the session of its call or leg.
Ringing == {"pend", "fork", "take", "revive", "ack", "confirm", "complete", "relay", "dialog"}

\* Every session in the table is a ring attempt's, a leg's or the dialog's, or
\* a CANCEL is about to free it, whatever way the attempt ended; the answers
\* without media and HangupCall, which leave one behind, are the exceptions.
FlowSessionsOwned ==
  \A key \in held :
    \/ leaked \/ walk = "dead"
    \/ walk \in Ringing /\ key = Key
    \/ walk = "collect" /\ key \in Numbers
    \/ talk = "active" /\ bridged = key
    \/ hang \in {"free", "media"} /\ key # NoSession

\* A caller who has got 487 is not connected, however a late answer and the
\* CANCEL cross, unless a further phone was rung after the CANCEL had come.
CancelledNotConnected ==
  [][talk # "active" /\ talk' = "active" /\ caller = "refused" => rungOn]_flowVars

\* When the walker and the handlers are done with the call, no phone is left
\* talking to nobody: it is in the dialog, or was told, but for the callee of a
\* 200 that could not be relayed and of a call that HangupCall dropped.
PhonesTold ==
  walk = "done" /\ hang = "idle" /\ phone = "up" /\ ~stranded => talk = "active"

\* When all is over the CDR is closed, has the flow's path, and tells an
\* answered call from one that was not, unless a handler's stale copy or an
\* error of the database spoilt it (updateCDRFlowPath, finalizeCDR).
FlowRowTellsOutcome ==
  walk = "done" /\ hang = "idle" /\ talk # "active" /\ ~clobbered =>
    /\ row.ended
    /\ mode = "flow" /\ left < MaxNodes => row.path
    /\ row.disposition = "answered" /\ mode # "flow" => talk = "over"

\* How far the call has come, seen from the caller and the dialog.
FlowPhase ==
  CASE talk = "over"   -> "cleared"
    [] talk = "active" -> "active"
    [] talk = "none" /\ caller \in {"up", "gone"} -> "connected"
    [] talk = "none" /\ caller = "refused" -> "refused"
    [] talk = "none" /\ Open -> IF walk \in {"load", "trunks"} THEN "idle" ELSE "setup"

Lifecycle == INSTANCE CallLifecycle WITH
  Calls <- {CallSession}, phase <- [c \in {CallSession} |-> FlowPhase]

\* A phone rung after the CANCEL, or after a BYE, makes the call come back.
ComesBack ==
  /\ rungOn
  /\ FlowPhase \in {"refused", "cleared"} /\ FlowPhase' = "active"

\* A call that a flow or a follow-me answers lives the life that CallLifecycle
\* promises of the others, whatever nodes the flow has and whenever somebody
\* hangs up: nothing but ringing on makes it come back.
FlowLifecycle == Lifecycle!Init /\ [][Lifecycle!Next \/ ComesBack]_FlowPhase

\* Every way out of a flow or of a follow-me leaves the caller with a final
\* response, but for a flow that could not be loaded or ended in a transfer.
FlowExitAnswers == walk = "done" => ~Open \/ silent

\* A caller who is up has not been left in a dialog that is over, but for one
\* that HangupCall dropped; and while the dialog lasts the other end is a phone
\* that is up, or one that hung up and whose BYE was refused with 481: that of a
\* phone the Forker rang always is, as it bears another Call-ID than the dialog
\* (forker.go:385), and that of a trunk is before there is a dialog.
CallerTold ==
  caller = "up" =>
    /\ talk = "over" => stranded
    /\ talk = "active" => phone \in {"up", "left"} \/ rungOn

\* When a flow or a follow-me is over and every hangup is handled, each side
\* knows what became of the other, as far as its BYE was accepted: no phone
\* talks to nobody, no caller waits for a phone that was told to end the call,
\* and no caller is without a final response.
PartiesTold == PhonesTold /\ CallerTold /\ FlowExitAnswers

\* The walker comes to an end, whatever the phones, the trunks, the caller and
\* the database do, and the caller has a final response by then, unless the flow
\* could not be loaded or ended in a transfer (ExecuteFlow, every ring, wait and
\* node has a deadline).
FlowEnds == <>(walk = "dead" \/ (walk = "done" /\ (~Open \/ silent)))

FlowFairness ==
  /\ WF_flowVars(WalkerStep)
  /\ \A n \in Numbers : WF_flowVars(LegStep(n))
  /\ WF_flowVars(HangStep)
  /\ WF_flowVars(ReapFlowSession)

FlowLiveSpec == FlowSpec /\ FlowFairness

=============================================================================
