# FlowPBX in TLA+

A formal model of [flowpbx](../src/README.md), a PBX written in Go: a SIP
server that classifies and routes calls, forks them to registered devices or
sends them to trunks, relays their RTP media, records them and keeps a call
detail record (CDR) of each, around it an admin API, a web UI, a push gateway
and a mobile app. The modules are written from the Go sources under `src/internal`.

| module | what it is |
|---|---|
| `CallControl` | the life of a call: the INVITE, CANCEL and BYE goroutines over pending calls, dialogs, media sessions and CDRs |
| `CallLifecycle` | what those handlers promise together; `CallControl` implements it, and so does `FlowCall`, but where it rings a refused call again |
| `MediaSession` | what a call's media session may do: opened once, a relay only while it is open, closed once; `CallControl` implements it |
| `MediaPool` | port pairs, media sessions, relay goroutines, recorder and reaper |
| `MediaLease` | the same with the ports, which are lent to one session at a time; `MediaPool` implements it |
| `FlowCall` | a call the flow engine answers, ring nodes and follow-me, with the caller's CANCEL and a BYE |
| `TrunkRegistrar` | trunk rows, admin requests, the registrar's entries and their loops, the address matcher |
| `Registration` | REGISTER, contacts, expiry, and calls that push a phone awake and wait |
| `SipAuth` | nonces and the guard that blocks an address |
| `Conference` | a bridge's rooms: join, leave, kick, the mix loop |
| `G711` | the mixer's tables and sums |
| `DigitCollection` | menus, PINs and confirmations, SIP INFO and RFC 2833 |
| `Voicemail` | a box: deposits, the lamp, deletion, retention |
| `MCCallControl`, `MCMediaPool`, `MCServices` | the small instances TLC checks; `MCServices` is all the parts around the call core |
| `CallControlProofs`, `MediaPoolProofs`, `FlowProofs`, `TrunkRegistrarProofs`, `RegistrationProofs`, `SipAuthProofs`, `ConferenceProofs`, `VoicemailProofs` | theorems, for every value of the constants; `FlowProofs` is about `FlowCall` and `DigitCollection`, `ConferenceProofs` about `Conference` and `G711` |

`PROJECT.json` maps every definition to the lines it models, and lists
components, runs, findings, hazards and theorems.

## Inventory

### The parts, their state, their operations

| part (source) | state | operations | correct when |
|---|---|---|---|
| INVITE handler (`sip/invite.go`, `route.go`, `outbound.go`) | locals of one goroutine per call | classify, admit, route, push wait, fork or try trunks, answer, fail | every INVITE gets one final response; every exit gives back what it took |
| Pending calls (`sip/cancel.go`) | map Call-ID -> fork context, bridge, transaction | Add, Remove, Cancel | whoever removes the entry answers the caller, and nobody else does |
| BYE and CANCEL handlers (`sip/server.go`) | locals | hang up the other leg, free media, close the CDR; cancel a pending call | a hangup ends the call for both parties, once |
| Dialog manager (`sip/dialog.go`) | map Call-ID -> Dialog | Create, Get, Terminate, counts per trunk and extension | a dialog is an answered call; its counts bound trunk channels |
| Forker (`sip/forker.go`) | one goroutine and one transaction per leg | Fork, cancel legs | one winner; the losers are cancelled |
| Media bridge and lifecycle (`sip/bridge.go`, `media/lifecycle.go`) | MediaSession, its relay | Create, StartRelay, SetRecorder, Stop, Release | started once, released by whoever comes, harmless twice |
| Sessions and ports (`media/session.go`, `proxy.go`) | session table, allocated set, next port, sockets | Allocate, Release, reap | no pair leaks or is returned twice; a free pair is found |
| Relay and recorder (`media/relay.go`, `recorder.go`) | two goroutines, stopped flag; channel and file | forward, Feed, Stop | both stop when told; feeding a stopped recorder is harmless |
| CDR store (`database/cdr.go`) | table cdrs | Create, GetByCallID, Update (all columns) | a closed row is final and tells how the call ended |
| Registrar and push wait (`sip/registrar.go`, `regnotify.go`) | registrations table, subscriber channels | REGISTER, unregister, expiry, Wait | no wake-up lost; limit on contacts kept |
| Authentication (`sip/auth.go`, `bruteforce.go`) | nonces, failure counters, blocks | challenge, verify, block | a nonce is used once; blocks expire |
| Trunk registrar (`sip/trunk.go`) | entries with their goroutines, status | Start, Stop, registration and health loops | one loop per trunk; status is of the current entry |
| Flow engine (`flow/`, `sip/flowactions.go`, `followme.go`) | walk of a graph, call context | execute node, ring, collect, hang up | ends; answers at most once; frees what it answered |
| Conference (`media/conference.go`, `mixer.go`) | rooms, members, mixer goroutine | Join, Leave, Kick, ReleaseAll | a room lives while it has members, destroyed once |
| DTMF collection (`media/callbuf.go`, `digitbuf.go`) | buffers by Call-ID | Acquire, Release, Inject, Drain | digits go to the collector that waits |
| Push gateway (`pushgw/`) | token buckets, licences | push, validate | limits hold |
| Voicemail (`flow/nodes/voicemail.go`, `voicemail/`) | message rows, WAV files, the phone's lamp | deposit, notify, mark, delete, retain | the box keeps to its limit; a listed message can be heard; the lamp is on |
| Admin API (`api/`) | rows, HTTP sessions | trunk, voicemail and conference requests; CRUD | its requests leave registrar, files and rooms as the rows say |
| Database, config, metrics, UIs | rows, flags, counters | queries, wiring | no protocol of their own |

### How they interact

One goroutine serves each SIP request. The INVITE goroutine of a call lives for
its whole setup: it adds the call to the pending map, waits for the forker or
the trunk, removes the call again, answers, creates the dialog and writes the
CDR. The CANCEL goroutine of the same call takes it out of the pending map and
ends the fork's context; a BYE goroutine finds it in the dialog map. They share
the two maps (each with its own lock), the media session (by Call-ID) and the
CDR row (read, changed and written back without a transaction). Timers (ring
timeout, 60 s for an outbound call, push wait, session reaper) and two relay
goroutines for each call run beside them.

### What is hard

The locks are short and the calls between them long: nearly every hazard is a
step of one goroutine between two steps of another. `PROJECT.json` lists them
with their lines: who answers a CANCEL that races an answer; a CANCEL before the
call is pending or between `Remove` and `CreateDialog`; a stale CDR written back;
two hangups of one call; counts checked before they are taken; a recorder closed
while it is fed; IDs released after they were reused; each failure path with its
own clean-up; timers that race late answers; lost wake-ups of the push wait; nonces
looked up and deleted in two steps; trunk loops restarted twice; a flow that
rings on after a CANCEL; conference rooms torn down while somebody joins; digits
that come after their collection; and the arithmetic of the mixer's tables.

## CallControl

`pc[c][h]` is where handler `h` (INVITE, CANCEL, either party's BYE) of call `c`
is; one action is one critical section, one database call or one message, so
that handlers interleave exactly where the code holds no lock.

| actions | code |
|---|---|
| `HandleInvite`, `RejectInvite`, `AdmitInbound`, `RouteCall`, `PushWait` | `HandleInvite`, `classifyCall`, the channel limit of `handleInboundCall`, `RouteInternalCall`, `waitForPushRegistration` |
| `AllocateMedia`, `RegisterPending`, `StartFork`, `TryTrunk`, `DialReturns`, `AfterDial` | `AllocateMediaBridge`, `pendingMgr.Add`, `Fork`, the trunk loop of `handleOutboundCall` |
| `TakePending`, `ResolveResult`, `AckCallee`, `CompleteMedia`, `RelayAnswer`, `CreateDialog`, `ReadForAnswer`, `WriteAnswer` | the second half of the three call handlers |
| `SendFailure`, `ReadForFailure`, `WriteFailure` | `respondErrorWithCDR`, `finalizeCDRFailed` |
| `CancelPending`, `RejectCancelled`, `ReadForCancel`, `WriteCancelled` | `handleCANCEL`, `PendingCallManager.Cancel`, `finalizeCancelledCDR` |
| `LookupDialog`, `SendBye`, `StopMedia`, `TerminateDialog`, `ReadForFinal`, `WriteFinal` | `handleBYE`, and `handleCANCEL` of an answered call |
| `CalleeDecides`, `SendHangup` | the phones and the trunks |
| `CtxExpires`, `ReapSession` | the timers |

The data is cut down to what the properties tell apart. A CDR row is whether it
exists, was answered and was ended, with its disposition and cause. A response
is its status. The forked legs of a call are one leg. No extension that is
dialled makes calls itself, so `AllBusy` counts called legs only. `Faults` names the
failures that may occur: `"db"` (a read or write fails), `"media"` (no session,
no common codec), `"transport"` (a message cannot be sent, or is lost). A nil
dereference in `handleOutboundCall` ends the process: every handler is `"dead"`.

Left out: follow-me (taken as switched off) and calls answered by the flow engine,
which are `FlowCall`; INFO, which is in `DigitCollection`; re-INVITE. SDP, digest authentication and the health filter of
`SelectTrunks` are one nondeterministic step or a constant (`TrunkOrder`). A
failing 100 Trying is an INVITE that never arrived. That a CANCEL reaches
`handleCANCEL` at all is up to the SIP library, which is not in the repository.

`CallLifecycle` is the promise: a call is idle, in setup, refused, connected,
active, cleared, in that order, and refused or connected once. `Phase` computes
a call's phase from the finals its caller got and its dialog.

## MediaPool

A user is an INVITE handler with the session it creates; its session's ID is the
Call-ID, and two users may have the same one, one after the other. A pair of
ports is its even port. `bound` says whose sockets are open on it and
`allocated` is the proxy's set: the two change in different steps, because
`Proxy.Release` closes the sockets outside the lock. `lock` is the session
manager's mutex, which `Allocate` holds across two allocations.

| actions | code |
|---|---|
| `AllocateCaller`, `AllocateCallee`, `UndoFirst` | `SessionManager.Allocate`, `Proxy.Allocate` (`Found` is its scan from `nextPort`, round the range) |
| `CheckNew`, `StartRelay`, `Establish`, `FailCall`, `CancelCall` | `MediaSession.StartRelay`, `startCallRecording`, the failure paths, `PendingCallManager.Cancel` |
| `Hangup`, `StopRecorder`, `StopSession`, `WaitForRelay`, `ReleaseOwn` | `handleBYE`, `Recorder.Stop`, `MediaSession.Stop`, `Relay.Stop` |
| `RemoveSession`, `HaltRemoved`, `ReleasePairs` | `SessionManager.Release`, `Proxy.Release` |
| `ScanIdle`, `Reap` | `reapOrphaned` |
| `StopForwarding`, `ReadPacket`, `FeedPacket` | `forward`, `Recorder.Feed` |
| `ForeignProcess` | other processes that bind ports of the range |

`CallControl` knows a call's session only as none, new or relaying, and
releases it in one step. `MediaPool` is that step in detail: that it ends
(`ReleaseEnds`), and that releasing a session twice, or one whose ID was
reused, does no harm (`SessionsOwnPorts`, `NoLeak`).

What ties the two modules together is an interface. `MediaSession` says what happens
to a session seen from outside; `CallControl` implements it with `session` and `bridge`
(`MediaLife`), releasing in one step. `MediaLease` extends it with the port pairs: a session
opens when it has two pairs nobody else has, under an ID no open session has, closes once, and returns each pair
once, later. `MediaPool` implements that: a session is open while the table has it under its ID
(`Life`), and closed at the `delete` in `SessionManager.Release`, whoever gets there
first; a pair is leased to who has it in the table, in an allocation or in a
release (`LeaseOf`), until `Proxy.Release` takes it off `allocated`. Hangup, CANCEL, reaper and relay steps map to
stuttering. So the atomic release of `CallControl` is the `Close` of the interface, and the six steps of
`MediaPool` are one `Close`, two `ReturnPair` and stuttering. The relation is through
the interface: nothing composes the two state spaces.

## FlowCall

The walker is the INVITE's goroutine after a flow, or the follow-me of an
extension, has taken the call; `walk` is where it is. `mode` says which: a flow,
whose next node is any kind, or `RingFollowMe` or `RingFollowMeSimultaneous` alone.
Beside it run the handler of a CANCEL or BYE (`hang`), the goroutines of the
simultaneous legs (`leg`) and the reaper.

| actions | code |
|---|---|
| `LoadFlow`, `EnterNode`, `FollowEdge`, `Expired`, `ReadForPath`, `WritePath` | `ExecuteFlow`, `walkGraph`, `followEdge`, `updateCDRFlowPath` |
| `ExtensionNode`, `RingGroupNode`, `NextMember`, `HangupNode`, `TransferNode`, `ConferenceNode` | the nodes in `flow/nodes` |
| `LookupPhones` ... `CreateFlowDialog`, `ReadForFlowAnswer`, `WriteFlowAnswer` | `RingExtension`, `RingGroup`, `ringExternalNumber`: allocate, pend, fork, take, ACK, relay, dialog, CDR |
| `Revive`, `AwaitPush` | the second ring after a push has revived stale registrations |
| `LegAllocates`, `LegDials`, `CollectLeg`, `DropLosers` | `RingFollowMeSimultaneous` and its legs |
| `TrunksReturn`, `Confirm`, `Decline` | the trunks of an external number and its confirmation |
| `HandleFlowCancel`, `FreeCancelled`, `HandleFlowBye`, `ReleaseFlowMedia`, `DropDialog`, `ReadForHangup`, `WriteHangup` | `handleCANCEL`, `PendingCallManager.Cancel`, `handleBYE`, the CDR's end |
| `HangupCall` | what the flow's hangup node does to the caller |

A call is held to more than one promise here: its media sessions are somebody's
(`FlowSessionsOwned`), no phone talks to nobody (`PhonesTold`), no caller is left in a dialog
that is over (`CallerTold`), a refused caller is not
connected (`CancelledNotConnected`), the caller is answered (`FlowExitAnswers`), the row tells what happened
(`FlowRowTellsOutcome`), and the walk ends (`FlowReturns`). `PartiesTold` is
`PhonesTold`, `CallerTold` and `FlowExitAnswers`.

What `CallerTold` does not promise is that a hangup of the phone reaches the caller. The Forker gives
a phone's leg a Call-ID of its own and the dialog has the caller's, so the BYE of every
phone a flow rang (`hang = "forkBye"`) gets 481, and so does that of a follow-me's trunk before
its dialog is made: the phone is `"left"`, the caller stays up in a dialog without an
other end. `HandleFlowBye` does exactly that; the run `bye` shows the same for a call without
a flow. `FlowLifecycle` says that a flow's call lives the
life of `CallLifecycle`, with one step more, `ComesBack`, which only `rungOn` allows; it implies
`CancelledNotConnected`. Each of them has
exceptions in the code, which the model names rather than hides, with a history
variable set where the code does it:

- `rungOn`: a flow does not look at the CANCEL between two ring attempts. It goes
  on to ring further phones, whose answer it connects to a caller that got 487.
- `leaked`: an answer without SDP, and `HangupCall`, leave a session to the reaper (an answer
  whose SDP cannot be used gives it back: `CompleteRing`).
- `stranded`: a phone whose 200 could not be relayed, and the callee of a call
  `HangupCall` drops, get no BYE.
- `silent`: a flow that cannot be loaded, and a transfer, end without a final response.
- `clobbered`: a handler writes back an older copy of the row, or cannot write it.
- `walk = "dead"`: the nil `selectedTrunk` of follow-me, as in `CallControl`.

Nodes that only choose an edge (menus, time switches, play, webhooks, set caller
ID) are one kind, `"choose"`. Members of a group and numbers of a follow-me differ in
nothing but their order, so the ring strategies do too.

## TrunkRegistrar

A worker is `main` at start-up or an HTTP request. An entry is named by the
worker that made it, so two entries of one trunk, which the race at
`StartTrunk` produces, are told apart. `plan` is the list of registrar calls a
worker has still to make.

| actions | code |
|---|---|
| `CreateTrunk`, `ReadTrunk`, `UpdateTrunk`, `Refetch`, `DeleteTrunk`, `TestTrunk`, `ReloadTrunks`, `ListEnabled` | the handlers of `trunk_handlers.go`, `handleSystemReload`, `loadTrunks`, `Reload` |
| `TakeEntry`, `HaltEntry`, `Unregister`, `OpenTrunk`, `InsertEntry` | `StopTrunk`, `StartTrunk`, `StartHealthCheck` in their critical sections |
| `ReportRegister`, `ReportHealth`, `EndLoop` | `registrationLoop`, `healthCheckLoop` |
| `Selectable`, `MatchIPTrunk`, `MatchRegisterTrunk` | `SelectTrunks`, the matchers |

`ListEnabled` may fail: a reload has stopped every trunk by then, logs the error, starts
none and is answered as if it had. `contended` (two workers had the trunk at once) and `unsynced`
(a worker gave up half way on an error, that one included) name when `RegistrarFollowsRows` and `LoopsOwned` may fail.
`TrunksRecover` has no such exception: in the end every entry is up.

## Registration, SipAuth

`Registration` has one extension. `HandleRegister`, `DeleteContact`, `CheckLimit`,
`InsertRow`, `StoreToken`, `Notify`, `CloseChannels` are one REGISTER step by step,
`RemoveContact`, `FetchRows`, `EmptyRows` an un-REGISTER, `CleanRows` the expiry,
and `FindNone`, `SendPush`, `Subscribe`, `Wake`, `Retry` a call that waits for a phone. The
call is routed before and after the wait by the same rule, `Reachable`: rows that have not
expired and are not of the device that calls (`own`), which may be the extension's own. The push
goes to the stored tokens, or to those the rows carry. A row
is named by the request that inserted it. `raced` are requests that checked and
inserted side by side; `missed` are calls that a `Notify` passed before they subscribed.

`SipAuth` has one source address, the only thing the guard tells apart.
`Challenge` and `Authenticate` are taken apart where another request can come
between: `LoadNonce`, `VerifyDigest`, `UseNonce`. `LiftBlock`, `PruneFailures` and
`GuardForgets` may happen at any time, which covers every window and block time.

## Conference, G711

`ConferenceManager`'s lock covers its table, not the room, so every step between is an
action: `FindRoom`, `AddToMixer`, `ListAndAnswer`; `FindRoomToLeave`, `RemoveFromMixer`,
`ReturnPorts`, `Unlist`, `DestroyIfEmpty`, `TellLoop`, `ReleaseMixer`, `ReturnPorts` again, `CloseDone`;
`EndMixLoop`. A participant leaves a mixer under its lock, and its ports go back after it
(`freeing`): a kicked call may be over while the administrator's request has yet to return them.
A second `close(room.done)` panics. In a call's goroutine nobody recovers: the process is gone
(`Alive`) and nothing moves any more; the administrator's request is recovered by its
middleware, and only its answer is a 500. The
administrator's kick is a leaver whose participant is another's. `crossed` records that a
room was destroyed with a call inside or behind a call's back, or twice: `Leave` looks
the room up by the bridge's ID and `Join` adds to a room it looked up earlier.

`G711` computes: decode, sum, clamp, encode with int16 wrap-around. Its state is a walk
up the samples of one law and sign, so that monotonicity (`LouderStaysLouder`) is an
action property. The walk goes past full
scale, to 40,000, where the sum is clamped. `Stride` is its step: 1, every sample.

## DigitCollection, Voicemail

`DigitCollection` is one node's collection or one confirmation. An attempt acquires
the call's buffer, takes digits, times out, judges, releases, tries again; SIP INFO
handlers find the buffer and send to its channel in two steps. `during` is the
attempt in which a handler found the buffer. RFC 2833 End packets of a press come
up to three times.

`Voicemail` is one box. A deposit checks, records, stores, counts and notifies; the
administrator marks, deletes row and then file, deletes the box; the retention selects,
deletes and removes files. A recording's name is its millisecond, so two may share one.
`overlapped` and `changed` name the exceptions of the limit and of the lamp.

## MCServices

The parts above share no state: each is a protocol over tables and maps of its own,
and what `FlowCall` uses of voicemail and digits is their outcome. One run checks
them all: the initial state chooses a `part`, only that part moves, and the others
stand still in one of their initial states. The run's states are the sum, not the
product, of the parts'; a behaviour of the part is a behaviour of its own
specification and the other way round, so what holds here of a part holds of its
own `Spec`. `FlowReturns` and `CollectionReturns` say `part = ...` because a part at
rest does not end.

## Runs

| run | instance | shows | distinct states |
|---|---|---|---|
| `safety` | one call, any type, all hangups, all faults | `AnsweredOnce` (`AtMostOneFinal` and `ExitAnswers`), `MediaFreed` (`HungUpMediaFreed` and `FailedCallFreed`), `CDRTellsOutcome`, `ClosedRowStable`, and that the handlers implement `CallLifecycle` and `MediaSession` (`ImplementsLifecycle`, `ImplementsSession`) | 202,818 |
| `liveness` | one call, all hangups, database and media faults | `InviteAnswered`, `HangupCompletes`, `SessionReclaimed` | 150,296 |
| `trunks` | two calls, one trunk with one channel, no hangup by a party | `SerialAdmission` | 739,872 |
| `pool` | a Call-ID used twice, two port pairs, one of which another process may take | `SessionsOwnPorts`, `OpenPairsAllocated`, `NoLeak`, `RefusedOnlyWhenFull`, `ReleaseEnds`, and that the pool implements `MediaLease` (`ImplementsLease`) | 160,894 |
| `services_safety` | each part of `MCServices`: two admin requests beside start-up on one trunk, two REGISTERs from two devices and a waiting call, three requests over two nonces, flows of two nodes and follow-me to two numbers with two hangups, two guests and an administrator over two rooms, all laws, two presses over two tries, two deposits | `RegistrarFollowsRows`, `LoopsOwned`; `ContactsWithinLimit`, `MissedOnlyBeforeSubscribe`; `NonceUsedOnce`, `HonestNotBlocked`; `FlowSessionsOwned`, `PartiesTold`, `FlowRowTellsOutcome`, `FlowLifecycle`; `PortsReturned`, `OccupiedRoomMixes`; `LouderStaysLouder`; `DigitsOfThisAttempt`, `PressCountsOnce`; `BoxWithinLimit`, `LampTellsNew`, `MessagesHaveAudio` | 2,092,943 |
| `services_liveness` | the trunks (registering only), flow (one hangup), conference and digits of the same instance, under fairness | `TrunksRecover`, `FlowReturns`, `LeaversReturn`, `CollectionReturns` | 329,963 |
| `cancel`, `bye`, `cdr`, `channels`, `recorder`, `speech` | the smallest instance each | the findings below | stop at the counterexample |

Why the bounds are enough. The handlers of two calls share only the counts of
dialogs (`Load`, `AllBusy`), so one call with all its handlers covers what
happens within a call; two calls on a one-channel trunk cover what happens
between calls. With one call `AllBusy` and `AtCapacity` never refuse; `trunks`
covers them. Two trunks make failover, and one more attempt than trunks. In the
pool two pairs are one session: the second user meets the first one's release in
every stage, with one pair free, none, or one taken by a foreign process. `nextPort`
wraps around. There is one relay goroutine (both in `recorder`) and one hangup
beside the INVITE handler and the reaper, so three goroutines release a session
at once. No counter needed a bound there: `attempt` is bounded by the trunk list,
and `finals` grows only by the handlers' steps, each taken once.

In `MCServices` the hazards are races of two, and each instance has two of what races
and one more where the second is needed to meet a third: two admin requests and
`main` over one trunk (an entry replaced while its predecessor is taken down); two
devices at a limit of one, beside a call that is one's own or a stranger's (rows that expire
and requests that pass each other put both devices' rows in the table); three requests, so that two share a nonce and one has
another; two members, so that there is a next one after a CANCEL, and two nodes, so
that there is a next node; two rooms, so that one is opened while the other is taken
down; two deposits into a box of one. `MaxOutages`, `MaxRooms`, `MaxHangups`, `MaxPresses`,
`MaxNodes` and `NodeTimeout` bound what could go on for ever; `NodeTimeout` counts ring
timeouts, so 1 makes a node's deadline pass after any ring. Two trunks share
nothing in the registrar but its lock.

The runs say `CHECK_DEADLOCK FALSE`: a finished call, a request that was served, or a
process that has died, has no next step.

Fairness (`LiveSpec`): the goroutines are scheduled, timers fire, a relay's read
gives up after 100 ms and looks at the stopped flag, and the reaper comes for a
session neither party sends RTP to. Phones, trunks and other processes owe
nothing: the callee may ring for ever, a party may never hang up, no packet need
arrive. `liveness` leaves lost messages out because without them a hangup
cannot reach the other party (no retransmission by the PBX: BYE is sent outside
any transaction), so `HangupCompletes` does not hold of a lossy network. A
property that ends in "or not `Running`" (or, in `LeaversReturn`, not `Alive`) is excused by the death
of the process; the hazards list where that happens.

In the parts the same: `WorkerStep` and `LoopStep` (goroutines of the registrar and
their timers; the provider answers again after `MaxOutages` failures, and
`TrunksRecover` speaks of after), `WalkerStep`, `LegStep`, `HangStep` and the reaper (every
ring, wait and node has a context with a deadline), `GuestStep`, `LeaveStep` and
`EndMixLoop` (a join has its node's deadline; `mixLoop` ticks every 20 ms and looks at
its context), `CollectorStep` (each collection has a timer). Nothing is assumed of
who presses keys, answers, hangs up, joins, kicks, registers or sends admin requests.

### Findings

- `cancel`: a CANCEL that comes during the push wait, or between `Remove` and
  `CreateDialog`, is answered 200 and forgotten, and the call is set up.
- `bye`: the BYE of a forked device carries the Call-ID `Fork` gave its leg, and
  no dialog has that key: 481, and the caller's leg stays up.
- `cdr`: `updateCDROnAnswer` writes back a row it read before a BYE closed it.
- `channels`: the channel limit counts answered calls only, and is checked long
  before the call counts. `SerialAdmission` is what does hold: calls set up one
  at a time stay within the limit.
- `recorder`: `handleBYE` closes the recorder's channel while the relay
  goroutines still feed it; the send panics.
- `speech`: the mixer's u-law decoder yields the 14-bit scale and its encoder
  expects the 16-bit one, so speech comes out at a quarter of its level; its A-law
  encoder clips at 4095 and sets the sign the decoder reads as the other.

## Proofs

Every safety invariant and every action property of the passing runs is proved for
all values of the constants. So are the types of the parts
(`FlowTypeOK`, `TrunkTypeOK` and the like), which `services_safety` therefore does not check again.
The only assumptions are those the modules state about their constants, and two more of one
theorem, `SerialLimit`. No theorem bounds how many calls, trunks, ports,
nodes, guests or digits there are, or which faults happen. None of the properties is inductive
as it stands; each section says what has to be added.

### CallControl (`CallControlProofs`)

- `TypeCorrect`: `Spec => []TypeOK`. The one type that is not local is the index
  into the trunk list, which needs `DialInv`: a call that dials has a trunk to dial.
- `OneFinal`, `DialogSound`, `Refinement`: `AtMostOneFinal`, `DialogEstablished` (that a dialog's
  caller was told 200 and nothing else, which the lifecycle demands too), `ImplementsLifecycle`. `IInv` adds the protocol that
  makes a handler about to respond the only one that will. `CallInv(c)` divides the
  INVITE handler's labels into stages (early,
  waiting, owning the answer, after it) and says for each who holds the call: while
  it waits, the call is pending or the CANCEL handler took it, never both; from
  `resolve` to the response the INVITE handler owns the answer, the call is not
  pending and the CANCEL handler has not taken it; no final has been sent in
  either case; and a dialog exists only behind a 200. Each action of a call preserves
  `CallInv` of that call (`CallInvStep`) and leaves the others' alone (`OthersHeld`,
  `HeldInv`); `ResolveResult`'s panic is the one action that touches every call. In the
  refinement `PhaseStep` gives for each action the
  abstract step it is, or that the phase is unchanged.
- `HangupFreesMedia`, `CDRSound`, `ClosedOnce`: `HungUpMediaFreed`, `CDRTellsOutcome`,
  `ClosedRowStable`. `RecordInv` says who may still write: `MediaInv`, that
  the media is free from the moment a hangup comes to terminate the dialog; `CDRInv`, that one
  handler at most has yet to close the row, that the row is open until then, and that the
  writer knows what the caller was told; and that a closed copy in the hands of
  `updateCDROnAnswer` is one whose hangup is over.
- `ExitsAnswer`, `FailuresFree`: `ExitAnswers`, `FailedCallFreed`. `ExitInv` says, for each stage of
  the INVITE handler, what the call has of its media and its answers: nothing is allocated before
  `allocate`; whoever is about to answer has been answered by a callee; a call on its way to a failure
  response has given its session back; one that waits and is no longer pending has been
  answered and freed by the CANCEL handler, or is about to be. The exceptions in the two
  properties are those of the code: a 200 that could not be sent, and an
  answer without usable media, whose session waits for the reaper. With `OneFinal` and
  `HangupFreesMedia` they are what the run checks: `CallersAnswered` (`AnsweredOnce`), `MediaReturned` (`MediaFreed`).
- `SessionRefinement`: `ImplementsSession`. Each action is one step of `MediaSession` on one call, or
  leaves `MediaLife` alone (`LifeMove`); that a session which is gone
  was once there, and so is closed and not unopened, is the first line of `ExitInv`.
- `SerialLimit`: `Spec => SerialAdmission`, if there are finitely many calls (a load is a
  cardinality) and the database answers: a failed count is taken for room. `RoomInv`
  keeps, from the check to the dialog, the room the one call being set up has found.

### MediaPool (`MediaPoolProofs`)

`PairsOwned`, `OpenPairsOutOfPool`, `NoPairLeaks`, `FullWhenRefused`, `MediaTypeInvariance`:
`SessionsOwnPorts`, `OpenPairsAllocated`, `NoLeak`, `RefusedOnlyWhenFull`, `TypeOK`. `Control`
says where a holder of the manager's lock is, what it has allocated so far and what each release has
still to give back (`LockInv`, `QuietInv`, `TableInv`, `CleanupInv`); `Pool` counts
the pairs: each allocated pair is held once (`HeldAllocated`, `HeldOnce`, `AllocatedHeld`)
and open only while it is allocated (`OpenBound`, `BoundOpen`). `Found`, the scan for a
free pair, is a recursive function; what it does round the range is proved from its
definition one step at a time, without induction over data: `FullWhenRefused` needs only that a scan which
fails has passed each pair.

`LeaseRefinement`: `ImplementsLease`, hence that no pair goes from one call to another
without having been returned. `LeaseOf` chooses a holder, and `HolderLeases`, from
`HeldOnce`, says that there is only one to choose: the lease of a pair is `u`'s exactly when `u` has the
pair. So the refinement is shown on `HasPair`: an action that moves no pair from one
holder to another keeps the leases (`KeptLeases`), and the others take one pair or return one (`TakenLease`,
`ReturnedLease`). `RelayInv` (no relay before `StartRelay`) is all that `Life` needs beyond
`IInv`: a session opens unrelayed.

### FlowCall, DigitCollection (`FlowProofs`)

- `EveryPhoneTold`: `PhonesTold`. `PhoneInv` is the same for every state: who is up is being
  connected, or is in a dialog whose BYE has not passed it.
- `EveryCallerTold`: `CallerTold`. `CallerInv` adds that a handler of a hangup
  past its look-up has told the caller, and that a phone is up, or has left, from its ACK on.
- `NoCancelledDialog`: `CancelledNotConnected`. `CancelInv`: the pending entry is
  taken by the walker or by the CANCEL; once the CANCEL has it, the walker is not
  between the answer and the dialog.
- `FlowRowSound`: `FlowRowTellsOutcome`. `RowInv` says how much of the row
  is written when the walker or the hangup handler comes to a label; `TalkInv`, that a
  follow-me has one answer. Copies need no invariant: where one is old, the write sets `clobbered`.
- `SessionsHaveOwners`: `FlowSessionsOwned`. `SessionInv` is stricter about the owner
  (a dialog whose media was released owns nothing), and adds what a ring attempt knows when it
  gives up: if its entry is gone, the CANCEL is about to free the session, or has.
- `FlowExitsAnswer`: `FlowExitAnswers`. `AnswerInv`: who is in a dialog, being put into one, or
  at the end of the walk, has had a final response, or the end is a `silent` one; and
  who rings a phone beside a dialog, or after one, does so because it rang on. `OutcomeTold` (`PartiesTold`) joins it to
  `EveryPhoneTold` and `EveryCallerTold`.
- `FlowRefinement`: `FlowLifecycle`. `PhaseTable` is `FlowPhase` without its `CASE`, `PhaseMove` how the
  phase may move; `PhaseStep` shows that every action moves it so, from `CancelInv` and `AnswerInv`, and `LifecycleStep`
  which step of `CallLifecycle`, or `ComesBack`, each move is.
- All of them rest on `ModeInv`, where the walker of each mode can be, and on `FlowTypeInvariance`.
- `AttemptOwnsDigits`: `DigitsOfThisAttempt`. `ChannelInv`: the buffer in the map is
  the collecting attempt's, and a digit in a channel found it during that channel's attempt.
- `PressOnce`: `PressCountsOnce`. `LastInv`: the press that is remembered has been counted.

### TrunkRegistrar (`TrunkRegistrarProofs`)

- `RowsFollowed`: `RegistrarFollowsRows`. `PlanInv(w)` ties what a worker will ask of the
  registrar to its request; `TrunkInv(t)` follows a request from the database to its last call:
  the registrar has what the row said when the worker read it (`Stage`), then what is
  left after the calls made so far (`PlanStage`, and within one call `CallStage`), and is
  level with the row when nobody handles the trunk. `SerialInv` is what
  `contended` is for: without it, one worker at most handles a trunk.
- `NoLoopLeftBehind`: `LoopsOwned`, inductive relative to the same invariant.
- `RegistrarTypeInvariance`. `TrunkAssumption` asks for a finite, non-empty set of trunks:
  `plan` lists them.

### The other parts

- `LimitKept` (`RegistrationProofs`): `ContactsWithinLimit`. `SideBySide`: two requests
  between delete and insert are both `raced`; `RoomFor`: any other request there has
  found room and has its contact's rows out of the way; `RoomAgain`: it has made that room itself if it replaces a row.
  `RegistrationAssumption` asks for a contact.
- `NotifyReachesWaiters`: `MissedOnlyBeforeSubscribe`, an action
  property. `WakeInv` (`RowsInserted`, `ChannelHeld`, `NoWakeUpLost`) follows a row from its
  insertion to the channel, for the rows the call could ring (`Reachable`; a call begins to wait
  when there is none, and only an insertion makes one): the request has yet to notify, holds the waiting call's
  channel, has closed it, or passed by before the call subscribed.
- `SingleUse` (`SipAuthProofs`): `NonceUsedOnce`. `NonceInv` says of a nonce that was
  accepted that it has left the table, and `Holds(r, n)` who has it in hand on the
  way to be accepted: two at once only if it is `shared`.
- `NoFalseBlock`: `HonestNotBlocked`. `GuardInv` bounds the counter by
  the cardinality of `Failed`, the requests that were counted; each adds one.
- `RoomPortsReturned`, `RoomMixes` (`ConferenceProofs`): `PortsReturned` and
  `OccupiedRoomMixes`. `ConfInv` says, until rooms are crossed: whoever is in a
  mixer is in the table's room (`GuestsInside`), the table's room is mixed and not
  shut (`TableAlive`), a room that is taken down has left the table and one leaver
  only takes it down (`DestroyedOnce`), and whoever is out of a mixer with its ports has them in the
  hands of one who is about to return them. Crossing is the one way any of it breaks.
- `LoudnessKept` (`ConferenceProofs`): `LouderStaysLouder`, for every stride and however far
  the walk goes past full scale. `MixInv` is small; the argument is about the tables. Biasing
  never wraps a clipped magnitude (`BiasedRange`), which then lies in one of eight segments
  (`SomeSegment`); the bits the encoder tests find that segment (`LeadingBit`); what is heard
  is the middle of a step of the segment (`HeardInSegment`), and one segment begins where
  another ends (`PowersGrow`), so it never falls (`HeardGrows`). The powers are taken
  by cases, not by induction. The sample -32768, whose magnitude is no int16, is the property's
  exception. A-law is left out of it: its encoder is the finding of `speech`.
- `LimitKept` (`VoicemailProofs`): `BoxWithinLimit`. `LimitInv`: while a deposit that
  has counted (`Counted`) has yet to store, there is room for it.
- `LampSound`: `LampTellsNew`. `LampInv`: while nothing was read
  or lost, each deposit counts at least its own message, so no NOTIFY says zero.
- `AudioKept`: `MessagesHaveAudio`. `AudioInv`: a file that is about
  to be removed has lost its row, or loses it before.

### Only model-checked

- Liveness (`InviteAnswered`, `HangupCompletes`, `SessionReclaimed`, `ReleaseEnds`, `TrunksRecover`,
  `FlowReturns`, `LeaversReturn`, `CollectionReturns`): TLAPS cannot reason about fairness
  and `ENABLED` here.
- The properties of the violated runs, which are false.

## Not modelled

- SDP, codecs, WAV files, prompts, tones: data without control. Where parsing fails,
  the models have a failure.
- The parsing of packets and bodies (RFC 2833, INFO), RTP sequence numbers, NAT
  rewriting, digest arithmetic, address prefixes: functions of one message.
- The push gateway (`pushgw/`): a stateless relay over a token bucket and licences in
  another process; the PBX sees that a push was sent or was not.
- CRUD handlers over one row, admin sessions and JWTs, configuration, metrics,
  migrations, SQL: no protocol of their own. Sessions are random and never reused.
- The retention of call recordings, e-mail: one query and a loop of file or mail I/O.
- `Forker` with several legs: one leg stands for them in `CallControl`; simultaneous
  legs are modelled in `FlowCall`, where each is a call of its own.
- The web UI and the mobile app: clients; they appear as phones and requests.
- A party that vanishes leaves its dialog in the map for ever; no code removes it, so no
  property says more. A late answer of a trunk that was given up stays up at the trunk.

## What could come next

1. `Conference` and `Voicemail` without their named exceptions, once the code closes the races;
   `FlowLifecycle` without `ComesBack`, once a flow looks at the CANCEL between two rings.
2. `CallControl` with the steps of `MediaPool` in place of its one-step release: the interface
   `MediaSession` is what both were proved against, and where the composition would cut.
3. A registration count that leaves expired rows out, and the BYE of a party that
   vanished: both need the clock, which no module has.
