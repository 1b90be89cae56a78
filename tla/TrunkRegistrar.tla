--------------------------- MODULE TrunkRegistrar ---------------------------
(***************************************************************************)
(* The trunks of the PBX: the admin API's handlers for them                *)
(* (internal/api/trunk_handlers.go), loadTrunks and Reload                 *)
(* (cmd/flowpbx/main.go), the registrar that keeps an entry with two       *)
(* goroutines for each enabled trunk (internal/sip/trunk.go), the matcher  *)
(* of source addresses (ipauth.go) and the selection of a trunk for an     *)
(* outbound call (outbound.go).                                            *)
(*                                                                         *)
(* A worker is a goroutine that changes trunks: main at start-up, then one *)
(* HTTP request each.  A step is a database call, a critical section of    *)
(* tr.mu or m.mu, or an exchange with the provider.  A worker starts a     *)
(* trunk at most once, so the entry it makes is named <<worker, trunk>>.   *)
(***************************************************************************)
EXTENDS Integers, Sequences, FiniteSets

CONSTANTS
  Trunks,      \* trunk IDs
  TrunkTypes,  \* subset of {"register", "ip"}
  MaxRequests, \* admin API requests, numbered in the order they come
  Main,        \* the main goroutine
  NoEntry,     \* no entry in tr.states
  TrunkFaults, \* what may go wrong: "db", "decrypt", "client"
  MaxOutages   \* how often a provider fails to answer

Admins == 1 .. MaxRequests
Workers == Admins \union {Main}
Entries == Workers \X Trunks

ASSUME TrunkAssumption ==
  /\ Trunks # {} /\ IsFiniteSet(Trunks)
  /\ Main \notin Admins
  /\ NoEntry \notin Entries
  /\ TrunkTypes \subseteq {"register", "ip"} /\ TrunkTypes # {}
  /\ {MaxRequests, MaxOutages} \subseteq Nat

AnyType == CHOOSE type \in TrunkTypes : TRUE
TrunkRows == [live : BOOLEAN, enabled : BOOLEAN, type : TrunkTypes]
NoTrunk == [live |-> FALSE, enabled |-> FALSE, type |-> AnyType]
Commands == [do : {"stop", "start", "list"}, trunk : Trunks, type : TrunkTypes]

VARIABLES
  trunkRows,   \* table trunks
  trunkStates, \* tr.states: the entry of a trunk
  entries,     \* entries[e]: its type and status, and whether its context ended
  loop,        \* loop[e]: where the goroutine of e that sets a status is
  acl,         \* the trunks in the matcher of source addresses
  bindings,    \* the trunks whose provider has a binding for the PBX
  worker,      \* worker[w]: where w is
  request,     \* request[w]: what w was asked, and the row it read
  plan,        \* plan[w]: the registrar calls w has still to make
  taken,       \* taken[w]: the entry StopTrunk took out of tr.states
  outages,     \* how often a provider did not answer
  contended,   \* history: trunks that two workers handled at once
  unsynced     \* history: trunks a worker gave up on half way

workerVars == <<worker, request, plan, taken>>
loopVars == <<entries, loop, bindings, outages>>
registrarVars == <<trunkStates, acl, loopVars>>
historyVars == <<contended, unsynced>>
trunkVars == <<trunkRows, registrarVars, workerVars, historyVars>>

NoEntryYet == [type |-> AnyType, status |-> "none", ended |-> FALSE]
NoRequest == [op |-> "none", trunk |-> CHOOSE t \in Trunks : TRUE, row |-> NoTrunk]

TrunkInit ==
  /\ trunkRows \in [Trunks -> {r \in TrunkRows : r.live} \union {NoTrunk}]
  /\ trunkStates = [t \in Trunks |-> NoEntry]
  /\ entries = [e \in Entries |-> NoEntryYet]
  /\ loop = [e \in Entries |-> "none"]
  /\ acl = {}
  /\ bindings = {}
  /\ worker = [w \in Workers |-> IF w = Main THEN "next" ELSE "idle"]
  /\ request = [w \in Workers |-> [NoRequest EXCEPT !.op = IF w = Main THEN "reload" ELSE "none"]]
  /\ plan = [w \in Workers |-> IF w = Main THEN <<[do |-> "list", trunk |-> NoRequest.trunk, type |-> AnyType]>> ELSE <<>>]
  /\ taken = [w \in Workers |-> NoEntry]
  /\ outages = 0
  /\ contended = {}
  /\ unsynced = {}

WorkerGoes(w, label) == worker' = [worker EXCEPT ![w] = label]
Busy(w) == worker[w] \notin {"idle", "done"}

\* The trunks a request changes: Reload and loadTrunks change all, a test none.
Targets(r) == CASE r.op = "reload" -> Trunks [] r.op = "test" -> {} [] OTHER -> {r.trunk}

\* The orders in which a loop may go through a set.
Orders(S) == {q \in [1 .. Cardinality(S) -> S] : \A i, j \in DOMAIN q : q[i] = q[j] => i = j}

Current(t) == trunkStates[t]
HasEntry(t) == trunkStates[t] # NoEntry

Looping(e) == loop[e] \notin {"none", "done"}

\* The worker answers its request and is no more.
Finish(w) ==
  /\ WorkerGoes(w, "done")
  /\ request' = [request EXCEPT ![w] = NoRequest]

-----------------------------------------------------------------------------
(* Mutants: plausible bugs, used by no specification.                      *)

\* HaltEntry that forgets to end the entry's context.
HaltEntryRunsOn(w) ==
  /\ worker[w] = "halt"
  /\ acl' = IF entries[taken[w]].type = "ip" THEN acl \ {taken[w][2]} ELSE acl
  /\ WorkerGoes(w, "unregister")
  /\ UNCHANGED <<trunkRows, trunkStates, loopVars, request, plan, taken, historyVars>>

\* handleUpdateTrunk that does not stop a trunk that was disabled.
UpdatePlanForgetsStop(t, before, now) ==
  IF now.enabled THEN <<[do |-> "stop", trunk |-> t, type |-> now.type],
                        [do |-> "start", trunk |-> t, type |-> now.type]>>
  ELSE <<>>

\* A registration loop that gives up after a failure.
AfterReportStops(result) == IF result = "failing" THEN "done" ELSE "wait"

-----------------------------------------------------------------------------
(* Admin requests: the database half of the handlers.                      *)

\* A request arrives; while another one handles one of its trunks, it contends.
Begin(w, r, label) ==
  /\ worker[w] = "idle" /\ worker[Main] = "done"
  /\ \A v \in 1 .. w - 1 : worker[v] # "idle"
  /\ request' = [request EXCEPT ![w] = r]
  /\ contended' = contended \union
       {t \in Targets(r) : \E v \in Workers \ {w} : Busy(v) /\ t \in Targets(request[v])}
  /\ WorkerGoes(w, label)

\* handleCreateTrunk: validate, INSERT.  An ID is used again once its row is gone.
CreateTrunk(w, t) ==
  /\ ~trunkRows[t].live
  /\ \E row \in {r \in TrunkRows : r.live} :
       /\ Begin(w, [op |-> "create", trunk |-> t, row |-> NoTrunk], "refetch")
       /\ trunkRows' = [trunkRows EXCEPT ![t] = row]
  /\ UNCHANGED <<registrarVars, plan, taken, unsynced>>

\* handleUpdateTrunk, handleDeleteTrunk and handleTestTrunk: GetByID; for a
\* missing trunk (404) or an invalid request (400) nothing happens.
ReadTrunk(w, t) ==
  /\ \E op \in {"update", "delete", "test"} :
       /\ trunkRows[t].live
       /\ Begin(w, [op |-> op, trunk |-> t, row |-> trunkRows[t]], op)
  /\ UNCHANGED <<trunkRows, registrarVars, plan, taken, unsynced>>

\* UPDATE ... WHERE id: the request names the type, and the flag or not.
UpdateTrunk(w) ==
  /\ worker[w] = "update"
  /\ LET t == request[w].trunk IN
     \E type \in TrunkTypes, enabled \in BOOLEAN :
       trunkRows' = IF trunkRows[t].live
         THEN [trunkRows EXCEPT ![t] = [live |-> TRUE, enabled |-> enabled, type |-> type]]
         ELSE trunkRows
  /\ WorkerGoes(w, "refetch")
  /\ UNCHANGED <<registrarVars, request, plan, taken, historyVars>>

\* What handleUpdateTrunk tells the registrar: stop, start, or stop and start.
UpdatePlan(t, before, now) ==
  LET stop == [do |-> "stop", trunk |-> t, type |-> now.type]
      start == [do |-> "start", trunk |-> t, type |-> now.type]
  IN CASE before.enabled /\ ~now.enabled -> <<stop>>
       [] ~before.enabled /\ now.enabled -> <<start>>
       [] before.enabled /\ now.enabled -> <<stop, start>>
       [] OTHER -> <<>>

\* The row is read again; if that fails the registrar is not told.
Refetch(w) ==
  /\ worker[w] = "refetch"
  /\ LET t == request[w].trunk
         now == trunkRows[t]
         before == request[w].row
         steps == IF request[w].op = "create"
                  THEN UpdatePlan(t, NoTrunk, now) ELSE UpdatePlan(t, before, now)
     IN \/ /\ now.live
           /\ plan' = [plan EXCEPT ![w] = steps]
           /\ WorkerGoes(w, "next")
           /\ UNCHANGED <<request, unsynced>>
        \/ /\ ~now.live \/ "db" \in TrunkFaults
           /\ unsynced' = unsynced \union {t}
           /\ Finish(w)
           /\ UNCHANGED plan
  /\ UNCHANGED <<trunkRows, registrarVars, taken, contended>>

DeleteTrunk(w) ==
  /\ worker[w] = "delete"
  /\ LET t == request[w].trunk IN
     /\ trunkRows' = [trunkRows EXCEPT ![t] = NoTrunk]
     /\ plan' = [plan EXCEPT ![w] = <<[do |-> "stop", trunk |-> t, type |-> AnyType]>>]
  /\ WorkerGoes(w, "next")
  /\ UNCHANGED <<registrarVars, request, taken, historyVars>>

\* handleTestTrunk's TestRegister and SendOptions: a request with a client of
\* its own; a REGISTER binds the PBX at the provider, also for a disabled trunk.
TestTrunk(w) ==
  /\ worker[w] = "test"
  /\ \/ /\ bindings' = bindings \union
             (IF request[w].row.type = "register" THEN {request[w].trunk} ELSE {})
        /\ UNCHANGED outages
     \/ outages < MaxOutages /\ outages' = outages + 1 /\ UNCHANGED bindings
  /\ Finish(w)
  /\ UNCHANGED <<trunkRows, trunkStates, acl, entries, loop, plan, taken, historyVars>>

\* StopAllTrunks collects the IDs and stops each,
StopAllTrunks(order) ==
  [i \in DOMAIN order |-> [do |-> "stop", trunk |-> order[i], type |-> AnyType]]

\* then Reload calls loadTrunks.
Reload(order) ==
  Append(StopAllTrunks(order), [do |-> "list", trunk |-> NoRequest.trunk, type |-> AnyType])

ReloadTrunks(w) ==
  /\ Begin(w, [NoRequest EXCEPT !.op = "reload"], "next")
  /\ \E order \in Orders({t \in Trunks : HasEntry(t)}) : plan' = [plan EXCEPT ![w] = Reload(order)]
  /\ UNCHANGED <<trunkRows, registrarVars, taken, unsynced>>

-----------------------------------------------------------------------------
(* The registrar: StartTrunk, StartHealthCheck, StopTrunk.                 *)

Command(w) == Head(plan[w])

EnabledTrunks == {t \in Trunks : trunkRows[t].live /\ trunkRows[t].enabled}

\* loadTrunks: ListEnabled, then start each trunk it returned.  If the list
\* cannot be read it logs that and returns: the enabled trunks, which Reload has
\* stopped before, stay without an entry, and the admin is answered all the same.
ListEnabled(w) ==
  /\ worker[w] = "next" /\ plan[w] # <<>> /\ Command(w).do = "list"
  /\ \/ /\ \E order \in Orders(EnabledTrunks) :
             plan' = [plan EXCEPT ![w] =
               [i \in DOMAIN order |-> [do |-> "start", trunk |-> order[i], type |-> trunkRows[order[i]].type]]]
        /\ UNCHANGED unsynced
     \/ /\ "db" \in TrunkFaults
        /\ plan' = [plan EXCEPT ![w] = <<>>]
        /\ unsynced' = unsynced \union EnabledTrunks
  /\ UNCHANGED <<trunkRows, registrarVars, worker, request, taken, contended>>

\* The next call, or the response to the admin.
NextCommand(w) ==
  /\ worker[w] = "next"
  /\ \/ /\ plan[w] = <<>>
        /\ Finish(w)
        /\ UNCHANGED <<plan, unsynced>>
     \/ /\ plan[w] # <<>> /\ Command(w).do \in {"stop", "start"}
        /\ WorkerGoes(w, "take")
        /\ UNCHANGED <<request, plan, unsynced>>
     \/ /\ plan[w] # <<>> /\ Command(w).do = "start" /\ Command(w).type = "register"
        /\ "decrypt" \in TrunkFaults
        /\ plan' = [plan EXCEPT ![w] = Tail(@)]
        /\ unsynced' = unsynced \union {Command(w).trunk}
        /\ UNCHANGED <<worker, request>>
  /\ UNCHANGED <<trunkRows, registrarVars, taken, contended>>

\* Where StopTrunk returns to: the handler, or the Start that called it.
AfterStop(w) ==
  IF Command(w).do = "start"
  THEN WorkerGoes(w, "open") /\ UNCHANGED plan
  ELSE WorkerGoes(w, "next") /\ plan' = [plan EXCEPT ![w] = Tail(@)]

\* StopTrunk takes the entry out of the map,
TakeEntry(w) ==
  /\ worker[w] = "take"
  /\ LET t == Command(w).trunk IN
     /\ taken' = [taken EXCEPT ![w] = Current(t)]
     /\ trunkStates' = [trunkStates EXCEPT ![t] = NoEntry]
     /\ IF HasEntry(t) THEN WorkerGoes(w, "halt") /\ UNCHANGED plan ELSE AfterStop(w)
  /\ UNCHANGED <<trunkRows, acl, loopVars, request, historyVars>>

RemoveTrunk(e) == acl' = IF entries[e].type = "ip" THEN acl \ {e[2]} ELSE acl

\* takes the trunk out of the matcher and ends both loops' contexts,
HaltEntry(w) ==
  /\ worker[w] = "halt"
  /\ RemoveTrunk(taken[w])
  /\ entries' = [entries EXCEPT ![taken[w]].ended = TRUE]
  /\ WorkerGoes(w, "unregister")
  /\ UNCHANGED <<trunkRows, trunkStates, loop, bindings, outages,
                 request, plan, taken, historyVars>>

\* and un-registers a registered trunk, if the provider answers; nobody looks
\* at the status of the entry any more.
Unregister(w) ==
  /\ worker[w] = "unregister"
  /\ IF entries[taken[w]].type = "register" /\ entries[taken[w]].status = "registered"
     THEN \/ bindings' = bindings \ {taken[w][2]} /\ UNCHANGED outages
          \/ outages < MaxOutages /\ outages' = outages + 1 /\ UNCHANGED bindings
     ELSE UNCHANGED <<bindings, outages>>
  /\ entries' = [entries EXCEPT ![taken[w]].status = "none"]
  /\ taken' = [taken EXCEPT ![w] = NoEntry]
  /\ AfterStop(w)
  /\ UNCHANGED <<trunkRows, trunkStates, acl, loop, request, historyVars>>

\* AddTrunk replaces or appends the trunk's addresses, which are valid.
AddTrunk(t) == acl' = acl \union {t}

\* StartHealthCheck, with AddTrunk, and StartTrunk go on when StopTrunk is done.
OpenTrunk(w) ==
  /\ worker[w] = "open"
  /\ IF Command(w).type = "ip" THEN AddTrunk(Command(w).trunk) ELSE UNCHANGED acl
  /\ WorkerGoes(w, "insert")
  /\ UNCHANGED <<trunkRows, trunkStates, loopVars, request, plan, taken, historyVars>>

\* The entry is stored, whatever is there, and its loops start; or there is
\* no client.
InsertEntry(w) ==
  /\ worker[w] = "insert"
  /\ LET t == Command(w).trunk
         e == <<w, t>>
         type == Command(w).type
     IN \/ /\ trunkStates' = [trunkStates EXCEPT ![t] = e]
           /\ entries' = [entries EXCEPT ![e] =
                [type |-> type, ended |-> FALSE,
                 status |-> IF type = "register" THEN "registering" ELSE "unregistered"]]
           /\ loop' = [loop EXCEPT ![e] = "wait"]
           /\ UNCHANGED unsynced
        \/ /\ "client" \in TrunkFaults
           /\ unsynced' = unsynced \union {t}
           /\ UNCHANGED <<trunkStates, entries, loop>>
  /\ plan' = [plan EXCEPT ![w] = Tail(@)]
  /\ WorkerGoes(w, "next")
  /\ UNCHANGED <<trunkRows, acl, bindings, outages, request, taken, contended>>

-----------------------------------------------------------------------------
(* The goroutines of an entry.  A trunk that registers has a registration  *)
(* loop, whose results are its status; one known by its address has a      *)
(* health check loop, whose pings are.  The pings of a registering trunk   *)
(* only set a flag for the admin and are left out.                         *)

\* Intervals, backoff and request are one step; an ended context ends a loop
\* that waits, and the wait for an answer, whatever the provider did.
SendRegister(e) ==
  /\ loop[e] = "wait" /\ entries[e].type = "register"
  /\ \/ /\ bindings' = bindings \union {e[2]}
        /\ \E label \in {"ok"} \union (IF entries[e].ended THEN {"done"} ELSE {}) :
             loop' = [loop EXCEPT ![e] = label]
        /\ UNCHANGED outages
     \/ /\ outages < MaxOutages /\ outages' = outages + 1
        /\ loop' = [loop EXCEPT ![e] = IF entries[e].ended THEN "done" ELSE "failing"]
        /\ UNCHANGED bindings
  /\ UNCHANGED <<trunkRows, trunkStates, acl, entries, workerVars, historyVars>>

\* sendOptionsEntry; the loop looks at its context only when it reports.
SendOptions(e) ==
  /\ loop[e] = "wait" /\ entries[e].type = "ip"
  /\ \/ /\ loop' = [loop EXCEPT ![e] = "ok"]
        /\ UNCHANGED outages
     \/ /\ outages < MaxOutages /\ outages' = outages + 1
        /\ loop' = [loop EXCEPT ![e] = "failing"]
  /\ UNCHANGED <<trunkRows, trunkStates, acl, entries, bindings, workerVars, historyVars>>

\* A loop sets the status of the entry that has its trunk's ID now, if any.
SetStatus(t, status) ==
  entries' = IF HasEntry(t) THEN [entries EXCEPT ![Current(t)].status = status] ELSE entries

AfterReport(result) == "wait"

ReportRegister(e) ==
  /\ loop[e] \in {"ok", "failing"} /\ entries[e].type = "register"
  /\ SetStatus(e[2], IF loop[e] = "ok" THEN "registered" ELSE "failed")
  /\ loop' = [loop EXCEPT ![e] = AfterReport(loop[e])]
  /\ UNCHANGED <<trunkRows, trunkStates, acl, bindings, outages, workerVars, historyVars>>

\* Only an entry of type ip takes the result of a ping as its status.
ReportHealth(e) ==
  /\ loop[e] \in {"ok", "failing"} /\ entries[e].type = "ip"
  /\ LET t == e[2]
         ok == loop[e] = "ok"
     IN IF HasEntry(t) /\ entries[Current(t)].type = "ip" /\ (ok \/ ~entries[e].ended)
        THEN SetStatus(t, IF ok THEN "registered" ELSE "failed")
        ELSE UNCHANGED entries
  /\ loop' = [loop EXCEPT ![e] = "wait"]
  /\ UNCHANGED <<trunkRows, trunkStates, acl, bindings, outages, workerVars, historyVars>>

\* The context has ended: the loop returns.
EndLoop(e) ==
  /\ loop[e] = "wait" /\ entries[e].ended
  /\ loop' = [loop EXCEPT ![e] = "done"]
  /\ UNCHANGED <<trunkRows, trunkStates, acl, entries, bindings, outages, workerVars, historyVars>>

WorkerStep(w) ==
  \/ UpdateTrunk(w)
  \/ TestTrunk(w)
  \/ Refetch(w)
  \/ DeleteTrunk(w)
  \/ ListEnabled(w)
  \/ NextCommand(w)
  \/ TakeEntry(w)
  \/ HaltEntry(w)
  \/ Unregister(w)
  \/ OpenTrunk(w)
  \/ InsertEntry(w)

LoopStep(e) ==
  \/ SendRegister(e)
  \/ SendOptions(e)
  \/ ReportRegister(e)
  \/ ReportHealth(e)
  \/ EndLoop(e)

TrunkNext ==
  \/ \E w \in Admins, t \in Trunks : CreateTrunk(w, t) \/ ReadTrunk(w, t)
  \/ \E w \in Admins : ReloadTrunks(w)
  \/ \E w \in Workers : WorkerStep(w)
  \/ \E e \in Entries : LoopStep(e)

TrunkSpec == TrunkInit /\ [][TrunkNext]_trunkVars

\* SelectTrunks: what an outbound call may try.
Selectable == {t \in Trunks :
  /\ trunkRows[t].live /\ trunkRows[t].enabled
  /\ HasEntry(t) => entries[Current(t)].status # "failed"}

\* An inbound call is a trunk's if the matcher knows its source address,
MatchIPTrunk(t) == t \in acl

\* or if it is the host of a trunk that is registered now.
MatchRegisterTrunk(t) ==
  HasEntry(t) /\ entries[Current(t)].type = "register" /\ entries[Current(t)].status = "registered"

-----------------------------------------------------------------------------
(* Properties.                                                             *)

TrunkTypeOK ==
  /\ trunkRows \in [Trunks -> TrunkRows]
  /\ trunkStates \in [Trunks -> Entries \union {NoEntry}]
  /\ entries \in [Entries -> [type : TrunkTypes, ended : BOOLEAN,
       status : {"none", "registering", "registered", "unregistered", "failed"}]]
  /\ loop \in [Entries -> {"none", "wait", "ok", "failing", "done"}]
  /\ acl \subseteq Trunks /\ bindings \subseteq Trunks
  /\ worker \in [Workers -> {"idle", "refetch", "update", "delete", "test", "next", "take", "halt",
       "unregister", "open", "insert", "done"}]
  /\ request \in [Workers -> [op : {"none", "create", "update", "delete", "test", "reload"},
                              trunk : Trunks, row : TrunkRows]]
  /\ plan \in [Workers -> Seq(Commands)]
  /\ taken \in [Workers -> Entries \union {NoEntry}]
  /\ outages \in 0 .. MaxOutages
  /\ contended \subseteq Trunks /\ unsynced \subseteq Trunks

\* No worker is at work on the trunk, and no two ever were.
Settled(t) ==
  /\ t \notin contended
  /\ \A w \in Workers : Busy(w) => t \notin Targets(request[w])

\* When admin requests about a trunk come one at a time and none gives up half
\* way, the registrar has an entry for it, of the row's type, exactly if the
\* row is enabled, and the matcher knows its addresses exactly if the entry is
\* of type ip (handleUpdateTrunk, handleDeleteTrunk, Reload, StopTrunk).  Half way
\* gives up who cannot read the row or the list of rows back (main.go:295), decrypt
\* the password or make a client: then the trunk may be without an entry, or have
\* one that does not fit, and nobody tries again.
RegistrarFollowsRows ==
  \A t \in Trunks : Settled(t) =>
    /\ HasEntry(t) /\ t \notin unsynced =>
         trunkRows[t].live /\ trunkRows[t].enabled /\ entries[Current(t)].type = trunkRows[t].type
    /\ trunkRows[t].live /\ trunkRows[t].enabled => HasEntry(t) \/ t \in unsynced
    /\ HasEntry(t) /\ entries[Current(t)].type = "ip" => MatchIPTrunk(t)
    /\ MatchIPTrunk(t) => t \in unsynced \/ (HasEntry(t) /\ entries[Current(t)].type = "ip")

\* A loop whose context has not ended belongs to the entry in the map or one a
\* StopTrunk is taking down: no restart leaves a second loop that nobody can
\* stop, unless two requests for the trunk ran at once (StartTrunk:171).
LoopsOwned ==
  \A e \in Entries :
    /\ Looping(e) /\ ~entries[e].ended /\ e[2] \notin contended
    => Current(e[2]) = e \/ \E w \in Workers : taken[w] = e /\ worker[w] = "halt"

\* Once the requests are served and the providers answer, every trunk with an
\* entry comes to be up for good, to be tried for outbound calls and recognised
\* on inbound ones, whatever stopped loops and late un-REGISTERs did to its status
\* and its binding (registrationLoop, healthCheckLoop).
TrunksRecover ==
  <>[](\A t \in Trunks : HasEntry(t) =>
         /\ entries[Current(t)].status = "registered"
         /\ entries[Current(t)].type = "register" => t \in bindings /\ MatchRegisterTrunk(t)
         /\ trunkRows[t].live /\ trunkRows[t].enabled => t \in Selectable)

=============================================================================
