------------------------ MODULE TrunkRegistrarProofs ------------------------
(***************************************************************************)
(* Proofs about TrunkRegistrar: type correctness, that the registrar       *)
(* follows the rows of the table (RegistrarFollowsRows) and that no loop   *)
(* is left behind (LoopsOwned).                                            *)
(*                                                                         *)
(* A worker that is half way through a request has told the registrar part *)
(* of what it will.  The invariant says, for the one worker that handles a *)
(* trunk, by what the registrar is behind the row: before the registrar    *)
(* is asked, it has what the row said when the request read it (Stage);    *)
(* then the rest of the plan makes up for the difference (PlanStage), and  *)
(* inside a call the trunk has no entry and the matcher knows its          *)
(* addresses only as far as the call has come (CallStage).  That one       *)
(* worker handles the trunk is what contended records (SerialInv).         *)
(***************************************************************************)
EXTENDS TrunkRegistrar, FiniteSetTheorems, TLAPS

-----------------------------------------------------------------------------
(* What a worker has still to ask of the registrar.                        *)

\* The commands of a plan.
Asked(s) == {s[i] : i \in 1 .. Len(s)}

\* A plan without its first command.
LEMMA TailFacts ==
  ASSUME NEW S, NEW s \in Seq(S), s # <<>>
  PROVE  /\ Head(s) \in S /\ Tail(s) \in Seq(S) /\ Len(Tail(s)) = Len(s) - 1
         /\ Len(s) \in Nat \ {0} /\ Head(s) = s[1]
         /\ \A i \in 1 .. Len(s) - 1 : Tail(s)[i] = s[i + 1]
         /\ Asked(s) = {Head(s)} \union Asked(Tail(s))
<1>1. /\ Head(s) \in S /\ Tail(s) \in Seq(S) /\ Len(Tail(s)) = Len(s) - 1
      /\ Len(s) \in Nat \ {0} /\ Head(s) = s[1]
      /\ \A i \in 1 .. Len(s) - 1 : Tail(s)[i] = s[i + 1]
  OBVIOUS
<1>2. ASSUME NEW a \in Asked(s) PROVE a \in {Head(s)} \union Asked(Tail(s))
  <2>1. PICK i \in 1 .. Len(s) : a = s[i]
    BY <1>2 DEF Asked
  <2>2. CASE i = 1
    BY <1>1, <2>1, <2>2
  <2>3. CASE i # 1
    <3>1. i - 1 \in 1 .. Len(Tail(s)) /\ Tail(s)[i - 1] = s[(i - 1) + 1] /\ (i - 1) + 1 = i
      BY <1>1, <2>1, <2>3
    <3> QED
      BY <2>1, <3>1 DEF Asked
  <2> QED
    BY <2>2, <2>3
<1>3. ASSUME NEW a \in Asked(Tail(s)) PROVE a \in Asked(s)
  <2>1. PICK i \in 1 .. Len(Tail(s)) : a = Tail(s)[i]
    BY <1>3 DEF Asked
  <2>2. i + 1 \in 1 .. Len(s) /\ a = s[i + 1]
    BY <1>1, <2>1
  <2> QED
    BY <2>2 DEF Asked
<1>4. Head(s) \in Asked(s)
  BY <1>1 DEF Asked
<1> QED
  BY <1>1, <1>2, <1>3, <1>4

\* No command is asked of an empty plan.
LEMMA EmptyFacts == Asked(<<>>) = {} /\ Len(<<>>) = 0
BY DEF Asked

\* A loop over a set of trunks goes through all of them.
LEMMA OrderFacts ==
  ASSUME NEW S \in SUBSET Trunks, NEW order \in Orders(S)
  PROVE  /\ Cardinality(S) \in Nat /\ DOMAIN order = 1 .. Cardinality(S)
         /\ \A i \in DOMAIN order : order[i] \in S /\ order[i] \in Trunks
         /\ \A t \in S : \E i \in DOMAIN order : order[i] = t
<1>1. IsFiniteSet(S) /\ Cardinality(S) \in Nat
  BY TrunkAssumption, FS_Subset, FS_CardinalityType
<1>2. /\ order \in [1 .. Cardinality(S) -> S]
      /\ \A i, j \in DOMAIN order : order[i] = order[j] => i = j
  BY DEF Orders
<1>3. order \in Injection(1 .. Cardinality(S), S)
  BY <1>2 DEF Injection, IsInjective
<1>4. IsFiniteSet(1 .. Cardinality(S)) /\ Cardinality(1 .. Cardinality(S)) = Cardinality(S)
  <2>1. 1 \in Int /\ Cardinality(S) \in Int
    BY <1>1
  <2>2. /\ IsFiniteSet(1 .. Cardinality(S))
        /\ Cardinality(1 .. Cardinality(S)) =
             IF 1 > Cardinality(S) THEN 0 ELSE Cardinality(S) - 1 + 1
    BY <2>1, FS_Interval
  <2> QED
    BY <1>1, <2>2
<1>5. order \in Surjection(1 .. Cardinality(S), S)
  BY <1>1, <1>3, <1>4, FS_Injection
<1>6. \A t \in S : \E i \in 1 .. Cardinality(S) : order[i] = t
  BY <1>5 DEF Surjection
<1> QED
  BY <1>1, <1>2, <1>6

\* The plans of Reload and loadTrunks: each trunk of the loop is asked for.
LEMMA LoopPlan ==
  ASSUME NEW S \in SUBSET Trunks, NEW order \in Orders(S), NEW f \in [Trunks -> Commands],
         NEW s, s = [i \in DOMAIN order |-> f[order[i]]]
  PROVE  /\ s \in Seq(Commands)
         /\ Len(s) = Cardinality(S) /\ Cardinality(S) \in Nat
         /\ \A i \in 1 .. Len(s) : \E t \in S : s[i] = f[t]
         /\ Asked(s) = {f[t] : t \in S}
<1>1. /\ Cardinality(S) \in Nat /\ DOMAIN order = 1 .. Cardinality(S)
      /\ \A i \in DOMAIN order : order[i] \in S /\ order[i] \in Trunks
      /\ \A t \in S : \E i \in DOMAIN order : order[i] = t
  BY OrderFacts
<1>2. s \in [1 .. Cardinality(S) -> Commands]
  BY <1>1
<1>3. s \in Seq(Commands) /\ Len(s) = Cardinality(S)
  BY <1>1, <1>2
<1>4. \A i \in 1 .. Len(s) : \E t \in S : s[i] = f[t]
  BY <1>1, <1>3
<1>5. Asked(s) = {f[t] : t \in S}
  <2>1. ASSUME NEW a \in Asked(s) PROVE a \in {f[t] : t \in S}
    BY <1>4, <2>1 DEF Asked
  <2>2. ASSUME NEW t \in S PROVE f[t] \in Asked(s)
    <3>1. PICK i \in DOMAIN order : order[i] = t
      BY <1>1
    <3>2. i \in 1 .. Len(s) /\ s[i] = f[t]
      BY <1>1, <1>3, <3>1
    <3> QED
      BY <3>2 DEF Asked
  <2> QED
    BY <2>1, <2>2
<1> QED
  BY <1>1, <1>3, <1>4, <1>5

\* The records of the registrar and of the workers.
EntryRecords == [type : TrunkTypes, ended : BOOLEAN,
  status : {"none", "registering", "registered", "unregistered", "failed"}]

Requests == [op : {"none", "create", "update", "delete", "test", "reload"},
             trunk : Trunks, row : TrunkRows]

WorkerLabels == {"idle", "refetch", "update", "delete", "test", "next", "take", "halt",
                 "unregister", "open", "insert", "done"}

\* A worker is inside a call of the registrar, or between two.
Calling == {"take", "halt", "unregister", "open", "insert"}
AtRegistrar == Calling \union {"next"}

\* Some constants have the types of what they stand for.
LEMMA ConstantFacts ==
  /\ AnyType \in TrunkTypes /\ NoTrunk \in TrunkRows /\ NoRequest \in Requests
  /\ NoRequest.trunk \in Trunks /\ NoRequest.op = "none" /\ ~NoTrunk.live /\ ~NoTrunk.enabled
<1>1. AnyType \in TrunkTypes
  BY TrunkAssumption DEF AnyType
<1>2. (CHOOSE t \in Trunks : TRUE) \in Trunks
  BY TrunkAssumption
<1>3. NoTrunk \in TrunkRows
  BY <1>1 DEF NoTrunk, TrunkRows
<1> QED
  BY <1>1, <1>2, <1>3 DEF NoTrunk, NoRequest, Requests

\* What handleUpdateTrunk asks for.
LEMMA UpdateFacts ==
  ASSUME NEW t \in Trunks, NEW before \in TrunkRows, NEW now \in TrunkRows
  PROVE  LET s == UpdatePlan(t, before, now)
         IN  /\ s \in Seq(Commands)
             /\ \A a \in Asked(s) : a.do \in {"stop", "start"} /\ a.trunk = t
             /\ \A a \in Asked(s) : a.do = "start" => now.enabled /\ a.type = now.type
             /\ (\E a \in Asked(s) : a.do = "stop") <=> before.enabled
             /\ (\E a \in Asked(s) : a.do = "start") <=> now.enabled
             /\ \A i, j \in 1 .. Len(s) : s[i].do # "stop" /\ s[j].do = "stop" => j < i
<1> DEFINE stop == [do |-> "stop", trunk |-> t, type |-> now.type]
           start == [do |-> "start", trunk |-> t, type |-> now.type]
           s == UpdatePlan(t, before, now)
<1>1. stop \in Commands /\ start \in Commands
  BY DEF Commands, TrunkRows
<1>2. CASE before.enabled /\ ~now.enabled
  <2>1. s = <<stop>>
    BY <1>2 DEF UpdatePlan
  <2>2. Len(s) = 1 /\ s[1] = stop /\ Asked(s) = {stop}
    BY <2>1 DEF Asked
  <2> QED
    BY <1>1, <1>2, <2>1, <2>2
<1>3. CASE ~before.enabled /\ now.enabled
  <2>1. s = <<start>>
    BY <1>3 DEF UpdatePlan
  <2>2. Len(s) = 1 /\ s[1] = start /\ Asked(s) = {start}
    BY <2>1 DEF Asked
  <2> QED
    BY <1>1, <1>3, <2>1, <2>2
<1>4. CASE before.enabled /\ now.enabled
  <2>1. s = <<stop, start>>
    BY <1>4 DEF UpdatePlan
  <2>2. Len(s) = 2 /\ s[1] = stop /\ s[2] = start
    BY <2>1
  <2>3. Asked(s) = {stop, start}
    BY <2>2 DEF Asked
  <2> QED
    BY <1>1, <1>4, <2>1, <2>2, <2>3
<1>5. CASE ~before.enabled /\ ~now.enabled
  <2>1. s = <<>>
    BY <1>5 DEF UpdatePlan
  <2> QED
    BY <1>5, <2>1, EmptyFacts
<1> QED
  BY <1>2, <1>3, <1>4, <1>5

\* What loadTrunks asks for, once it has the enabled trunks.
Starting(order) == [i \in DOMAIN order |->
  [do |-> "start", trunk |-> order[i], type |-> trunkRows[order[i]].type]]

LEMMA StartPlan ==
  ASSUME trunkRows \in [Trunks -> TrunkRows], NEW S \in SUBSET Trunks, NEW order \in Orders(S)
  PROVE  /\ Starting(order) \in Seq(Commands)
         /\ Asked(Starting(order)) =
              {[do |-> "start", trunk |-> t, type |-> trunkRows[t].type] : t \in S}
<1> DEFINE f == [t \in Trunks |-> [do |-> "start", trunk |-> t, type |-> trunkRows[t].type]]
<1>1. f \in [Trunks -> Commands]
  BY DEF Commands, TrunkRows
<1>2. \A i \in DOMAIN order : order[i] \in Trunks
  BY OrderFacts
<1>3. Starting(order) = [i \in DOMAIN order |-> f[order[i]]]
  BY <1>2 DEF Starting
<1>4. Starting(order) \in Seq(Commands) /\ Asked(Starting(order)) = {f[t] : t \in S}
  <2> HIDE DEF f
  <2> QED
    BY <1>1, <1>3, LoopPlan
<1>5. \A t \in S : f[t] = [do |-> "start", trunk |-> t, type |-> trunkRows[t].type]
  OBVIOUS
<1> QED
  BY <1>4, <1>5

\* What Reload asks for: to stop each trunk, and then to load them.
LEMMA ReloadPlan ==
  ASSUME NEW S \in SUBSET Trunks, NEW order \in Orders(S)
  PROVE  /\ Reload(order) \in Seq(Commands)
         /\ \A a \in Asked(Reload(order)) : a.do \in {"stop", "list"}
         /\ \E a \in Asked(Reload(order)) : a.do = "list"
         /\ \A t \in S : \E a \in Asked(Reload(order)) : a.do = "stop" /\ a.trunk = t
         /\ \A i, j \in 1 .. Len(Reload(order)) :
              Reload(order)[i].do # "stop" /\ Reload(order)[j].do = "stop" => j < i
<1> DEFINE f == [t \in Trunks |-> [do |-> "stop", trunk |-> t, type |-> AnyType]]
           s == StopAllTrunks(order)
           last == [do |-> "list", trunk |-> NoRequest.trunk, type |-> AnyType]
           r == Reload(order)
<1>1. f \in [Trunks -> Commands] /\ last \in Commands
  BY ConstantFacts DEF Commands
<1>2. \A i \in DOMAIN order : order[i] \in Trunks
  BY OrderFacts
<1>3. s = [i \in DOMAIN order |-> f[order[i]]]
  BY <1>2 DEF StopAllTrunks
<1>4. /\ s \in Seq(Commands) /\ Asked(s) = {f[t] : t \in S}
      /\ \A i \in 1 .. Len(s) : \E t \in S : s[i] = f[t]
  <2>1. f \in [Trunks -> Commands]
    BY <1>1
  <2> HIDE DEF f, s, last
  <2> QED
    BY <1>3, <2>1, LoopPlan
<1>5. \A t \in S : f[t].do = "stop" /\ f[t].trunk = t
  OBVIOUS
<1>6. r = Append(s, last)
  BY DEF Reload
<1> HIDE DEF f, s, r
<1>7. /\ r \in Seq(Commands) /\ Len(r) = Len(s) + 1 /\ Len(s) \in Nat
      /\ \A i \in 1 .. Len(s) : r[i] = s[i]
      /\ r[Len(s) + 1] = last
  BY <1>1, <1>4, <1>6
<1>8. \A i \in 1 .. Len(s) : r[i].do = "stop"
  BY <1>4, <1>5, <1>7
<1>9. last.do = "list"
  OBVIOUS
<1> HIDE DEF last
<1>10. \A a \in Asked(r) : a.do \in {"stop", "list"}
  BY <1>7, <1>8, <1>9 DEF Asked
<1>11. \E a \in Asked(r) : a.do = "list"
  BY <1>7, <1>9 DEF Asked
<1>12. ASSUME NEW t \in S PROVE \E a \in Asked(r) : a.do = "stop" /\ a.trunk = t
  <2>1. f[t] \in Asked(s)
    BY <1>4
  <2>2. f[t] \in Asked(r)
    BY <1>7, <2>1 DEF Asked
  <2> QED
    BY <1>5, <2>2
<1>13. \A i, j \in 1 .. Len(r) : r[i].do # "stop" /\ r[j].do = "stop" => j < i
  BY <1>7, <1>8, <1>9
<1> QED
  BY <1>7, <1>10, <1>11, <1>12, <1>13 DEF r

-----------------------------------------------------------------------------
(* Type correctness, and what a worker's plan has to do with its request.  *)

\* A worker asks the registrar only about trunks its request changes; it stops
\* trunks before it starts any, and lists them before it starts those listed.
PlanInv(w) ==
  /\ plan[w] # <<>> => worker[w] \in AtRegistrar
  /\ worker[w] \in Calling => plan[w] # <<>> /\ Command(w).do # "list"
  /\ worker[w] \in {"open", "insert"} => Command(w).do = "start"
  /\ worker[w] \in {"halt", "unregister"} =>
       taken[w] # NoEntry /\ taken[w][2] = Command(w).trunk
  /\ \A a \in Asked(plan[w]) :
       IF a.do = "list" THEN request[w].op = "reload" ELSE a.trunk \in Targets(request[w])
  /\ \A a, b \in Asked(plan[w]) : ~(a.do = "list" /\ b.do = "start")
  /\ \A i, j \in 1 .. Len(plan[w]) :
       plan[w][i].do # "stop" /\ plan[w][j].do = "stop" => j < i
  /\ worker[w] \in {"update", "delete", "test"} => request[w].op = worker[w]
  /\ worker[w] = "refetch" =>
       /\ request[w].op \in {"create", "update"}
       /\ request[w].op = "create" => request[w].row = NoTrunk

PlansInv == \A w \in Workers : PlanInv(w)

\* A request arrives.
LEMMA BeginFacts ==
  ASSUME TrunkTypeOK, NEW w \in Admins, NEW r \in Requests, NEW label \in WorkerLabels,
         Begin(w, r, label)
  PROVE  /\ request' = [request EXCEPT ![w] = r] /\ request' \in [Workers -> Requests]
         /\ worker' = [worker EXCEPT ![w] = label] /\ worker' \in [Workers -> WorkerLabels]
         /\ w \in Workers /\ Targets(r) \subseteq Trunks
         /\ contended' = contended \union
              {t \in Targets(r) : \E v \in Workers \ {w} : Busy(v) /\ t \in Targets(request[v])}
         /\ contended' \subseteq Trunks
<1>1. Targets(r) \subseteq Trunks
  BY DEF Targets, Requests
<1>2. w \in Workers
  BY DEF Workers
<1>3. contended' \subseteq Trunks
  BY <1>1 DEF Begin, TrunkTypeOK
<1> QED
  BY <1>1, <1>2, <1>3 DEF Begin, TrunkTypeOK, Requests, WorkerLabels, WorkerGoes

\* Every step keeps the types.
LEMMA TypeStep ==
  ASSUME TrunkTypeOK, PlansInv, [TrunkNext]_trunkVars
  PROVE  TrunkTypeOK'
<1> USE DEF TrunkTypeOK, PlansInv
<1>1. ASSUME NEW w \in Admins, NEW t \in Trunks, CreateTrunk(w, t)
      PROVE  TrunkTypeOK'
  <2>1. [op |-> "create", trunk |-> t, row |-> NoTrunk] \in Requests
    BY ConstantFacts DEF Requests
  <2>2. /\ request' \in [Workers -> Requests] /\ contended' \subseteq Trunks
        /\ worker' \in [Workers -> WorkerLabels]
    BY <1>1, <2>1, BeginFacts DEF CreateTrunk, WorkerLabels
  <2> QED
    BY <1>1, <2>2 DEF CreateTrunk, registrarVars, loopVars, Requests, WorkerLabels
<1>2. ASSUME NEW w \in Admins, NEW t \in Trunks, ReadTrunk(w, t)
      PROVE  TrunkTypeOK'
  <2>1. \A op \in {"update", "delete", "test"} :
          [op |-> op, trunk |-> t, row |-> trunkRows[t]] \in Requests
    BY DEF Requests
  <2>2. /\ request' \in [Workers -> Requests] /\ contended' \subseteq Trunks
        /\ worker' \in [Workers -> WorkerLabels]
    BY <1>2, <2>1, BeginFacts DEF ReadTrunk, WorkerLabels
  <2> QED
    BY <1>2, <2>2 DEF ReadTrunk, registrarVars, loopVars, Requests, WorkerLabels
<1>3. ASSUME NEW w \in Admins, ReloadTrunks(w)
      PROVE  TrunkTypeOK'
  <2>1. PICK order \in Orders({t \in Trunks : HasEntry(t)}) :
          plan' = [plan EXCEPT ![w] = Reload(order)]
    BY <1>3 DEF ReloadTrunks
  <2>2. Reload(order) \in Seq(Commands)
    BY ReloadPlan
  <2>3. plan' \in [Workers -> Seq(Commands)]
    BY <2>1, <2>2
  <2>4. NoRequest \in Requests
    BY ConstantFacts
  <2>5. [NoRequest EXCEPT !.op = "reload"] \in Requests
    BY <2>4 DEF Requests
  <2>6. /\ request' \in [Workers -> Requests] /\ contended' \subseteq Trunks
        /\ worker' \in [Workers -> WorkerLabels]
    BY <1>3, <2>5, BeginFacts DEF ReloadTrunks, WorkerLabels
  <2> QED
    BY <1>3, <2>3, <2>6 DEF ReloadTrunks, registrarVars, loopVars, Requests, WorkerLabels
<1>4. ASSUME NEW w \in Workers, UpdateTrunk(w)
      PROVE  TrunkTypeOK'
  <2>1. trunkRows' \in [Trunks -> TrunkRows]
    BY <1>4 DEF UpdateTrunk, TrunkRows
  <2>2. worker' \in [Workers -> WorkerLabels]
    BY <1>4 DEF UpdateTrunk, WorkerGoes, WorkerLabels
  <2> QED
    BY <1>4, <2>1, <2>2 DEF UpdateTrunk, registrarVars, loopVars, historyVars, WorkerLabels
<1>5. ASSUME NEW w \in Workers, TestTrunk(w)
      PROVE  TrunkTypeOK'
  <2>1. NoRequest \in Requests
    BY ConstantFacts
  <2>2. request' \in [Workers -> Requests]
    BY <1>5, <2>1 DEF TestTrunk, Finish, Requests
  <2>3. outages' \in 0 .. MaxOutages /\ bindings' \subseteq Trunks
    BY <1>5, TrunkAssumption DEF TestTrunk
  <2> QED
    BY <1>5, <2>2, <2>3 DEF TestTrunk, Finish, WorkerGoes, historyVars, Requests
<1>6. ASSUME NEW w \in Workers, Refetch(w)
      PROVE  TrunkTypeOK'
  <2> DEFINE t == request[w].trunk
  <2>1. /\ t \in Trunks /\ trunkRows[t] \in TrunkRows /\ request[w].row \in TrunkRows
        /\ NoTrunk \in TrunkRows /\ NoRequest \in Requests
    BY ConstantFacts DEF Requests
  <2>2. /\ UpdatePlan(t, NoTrunk, trunkRows[t]) \in Seq(Commands)
        /\ UpdatePlan(t, request[w].row, trunkRows[t]) \in Seq(Commands)
    BY <2>1, UpdateFacts
  <2>3. plan' \in [Workers -> Seq(Commands)] /\ unsynced' \subseteq Trunks
    BY <1>6, <2>1, <2>2 DEF Refetch
  <2>4. request' \in [Workers -> Requests]
    <3>1. request' = request \/ Finish(w)
      BY <1>6 DEF Refetch
    <3> QED
      BY <2>1, <3>1 DEF Finish, Requests
  <2> QED
    BY <1>6, <2>3, <2>4 DEF Refetch, Finish, WorkerGoes, registrarVars, loopVars, Requests
<1>7. ASSUME NEW w \in Workers, DeleteTrunk(w)
      PROVE  TrunkTypeOK'
  <2>1. request[w].trunk \in Trunks /\ NoTrunk \in TrunkRows
    BY ConstantFacts
  <2>2. <<[do |-> "stop", trunk |-> request[w].trunk, type |-> AnyType]>> \in Seq(Commands)
    BY <2>1, ConstantFacts DEF Commands
  <2> QED
    BY <1>7, <2>1, <2>2 DEF DeleteTrunk, WorkerGoes, registrarVars, loopVars, historyVars
<1>8. ASSUME NEW w \in Workers, ListEnabled(w)
      PROVE  TrunkTypeOK'
  <2>1. ASSUME NEW order \in Orders(EnabledTrunks), plan' = [plan EXCEPT ![w] = Starting(order)]
        PROVE  plan' \in [Workers -> Seq(Commands)]
    <3>1. Starting(order) \in Seq(Commands)
      BY StartPlan DEF EnabledTrunks
    <3> QED
      BY <2>1, <3>1
  <2>2. CASE plan' = [plan EXCEPT ![w] = <<>>]
    <3>1. <<>> \in Seq(Commands)
      OBVIOUS
    <3> QED
      BY <1>8, <2>2, <3>1 DEF ListEnabled, EnabledTrunks, registrarVars, loopVars
  <2>3. CASE \E order \in Orders(EnabledTrunks) : plan' = [plan EXCEPT ![w] = Starting(order)]
    <3>1. plan' \in [Workers -> Seq(Commands)]
      BY <2>1, <2>3
    <3>2. unsynced' \subseteq Trunks
      BY <1>8 DEF ListEnabled, EnabledTrunks
    <3> QED
      BY <1>8, <3>1, <3>2 DEF ListEnabled, registrarVars, loopVars
  <2> QED
    BY <1>8, <2>2, <2>3 DEF ListEnabled, Starting
<1>9. ASSUME NEW w \in Workers, NextCommand(w)
      PROVE  TrunkTypeOK'
  <2>1. NoRequest \in Requests
    BY ConstantFacts
  <2>2. request' \in [Workers -> Requests]
    BY <1>9, <2>1 DEF NextCommand, Finish, Requests
  <2>3. plan[w] # <<>> => Command(w) \in Commands /\ Tail(plan[w]) \in Seq(Commands)
    BY TailFacts DEF Command
  <2>4. plan' \in [Workers -> Seq(Commands)] /\ unsynced' \subseteq Trunks
    <3>1. plan' = plan \/ (plan[w] # <<>> /\ plan' = [plan EXCEPT ![w] = Tail(plan[w])])
      BY <1>9 DEF NextCommand
    <3>2. \/ unsynced' = unsynced
          \/ plan[w] # <<>> /\ unsynced' = unsynced \union {Command(w).trunk}
      BY <1>9 DEF NextCommand
    <3>3. plan[w] # <<>> => Command(w).trunk \in Trunks
      BY <2>3 DEF Commands
    <3> QED
      BY <2>3, <3>1, <3>2, <3>3
  <2>5. worker' \in [Workers -> WorkerLabels]
    BY <1>9 DEF NextCommand, Finish, WorkerGoes, WorkerLabels
  <2> QED
    BY <1>9, <2>2, <2>4, <2>5 DEF NextCommand, registrarVars, loopVars, Requests, WorkerLabels
<1>10. ASSUME NEW w \in Workers, TakeEntry(w)
      PROVE  TrunkTypeOK'
  <2>1. plan[w] # <<>> /\ Command(w) \in Commands /\ Tail(plan[w]) \in Seq(Commands)
    BY <1>10, TailFacts DEF TakeEntry, Command, PlanInv, Calling
  <2>2. /\ plan' \in [Workers -> Seq(Commands)]
        /\ worker' \in [Workers -> WorkerLabels]
    BY <1>10, <2>1 DEF TakeEntry, AfterStop, WorkerGoes, WorkerLabels
  <2>3. /\ taken' \in [Workers -> Entries \union {NoEntry}]
        /\ trunkStates' \in [Trunks -> Entries \union {NoEntry}]
    BY <1>10, <2>1 DEF TakeEntry, Current, Commands
  <2> QED
    BY <1>10, <2>1, <2>2, <2>3 DEF TakeEntry, loopVars, historyVars, WorkerLabels
<1>11. ASSUME NEW w \in Workers, HaltEntry(w)
      PROVE  TrunkTypeOK'
  BY <1>11 DEF HaltEntry, RemoveTrunk, WorkerGoes, registrarVars, loopVars,
    workerVars, historyVars
<1>12. ASSUME NEW w \in Workers, Unregister(w)
      PROVE  TrunkTypeOK'
  <2>1. plan[w] # <<>> /\ Command(w) \in Commands /\ Tail(plan[w]) \in Seq(Commands)
    BY <1>12, TailFacts DEF Unregister, Command, PlanInv, Calling
  <2>2. /\ plan' \in [Workers -> Seq(Commands)]
        /\ worker' \in [Workers -> WorkerLabels]
    BY <1>12, <2>1 DEF Unregister, AfterStop, WorkerGoes, WorkerLabels
  <2>3. /\ outages' \in 0 .. MaxOutages /\ bindings' \subseteq Trunks
        /\ taken' \in [Workers -> Entries \union {NoEntry}]
    BY <1>12, TrunkAssumption DEF Unregister
  <2>4. entries' \in [Entries -> EntryRecords]
    BY <1>12 DEF Unregister, EntryRecords
  <2> QED
    BY <1>12, <2>1, <2>2, <2>3, <2>4 DEF Unregister, historyVars, EntryRecords, WorkerLabels
<1>13. ASSUME NEW w \in Workers, OpenTrunk(w)
      PROVE  TrunkTypeOK'
  <2>1. plan[w] # <<>> /\ Command(w) \in Commands
    BY <1>13, TailFacts DEF OpenTrunk, Command, PlanInv, Calling
  <2>2. acl' \subseteq Trunks
    BY <1>13, <2>1 DEF OpenTrunk, AddTrunk, Commands
  <2> QED
    BY <1>13, <2>2 DEF OpenTrunk, WorkerGoes, loopVars, historyVars
<1>14. ASSUME NEW w \in Workers, InsertEntry(w)
      PROVE  TrunkTypeOK'
  <2>1. plan[w] # <<>> /\ Command(w) \in Commands /\ Tail(plan[w]) \in Seq(Commands)
    BY <1>14, TailFacts DEF InsertEntry, Command, PlanInv, Calling
  <2>2. /\ plan' \in [Workers -> Seq(Commands)]
        /\ worker' \in [Workers -> WorkerLabels]
    BY <1>14, <2>1 DEF InsertEntry, WorkerGoes, WorkerLabels
  <2>3. <<w, Command(w).trunk>> \in Entries /\ Command(w).trunk \in Trunks /\ Command(w).type \in TrunkTypes
    BY <2>1 DEF Commands, Entries
  <2> DEFINE t == Command(w).trunk
             e == <<w, t>>
             entry == [type |-> Command(w).type, ended |-> FALSE,
                       status |-> IF Command(w).type = "register"
                                  THEN "registering" ELSE "unregistered"]
  <2>6. entry \in EntryRecords
    BY <2>3 DEF EntryRecords
  <2>7. \/ /\ trunkStates' = [trunkStates EXCEPT ![t] = e]
           /\ entries' = [entries EXCEPT ![e] = entry]
           /\ loop' = [loop EXCEPT ![e] = "wait"]
           /\ unsynced' = unsynced
        \/ /\ unsynced' = unsynced \union {t}
           /\ trunkStates' = trunkStates /\ entries' = entries /\ loop' = loop
    BY <1>14 DEF InsertEntry
  <2>8. e \in Entries /\ t \in Trunks
    BY <2>3
  <2> HIDE DEF entry, e, t
  <2>4. /\ trunkStates' \in [Trunks -> Entries \union {NoEntry}]
        /\ loop' \in [Entries -> {"none", "wait", "ok", "failing", "done"}]
        /\ unsynced' \subseteq Trunks
    <3>1. trunkStates' \in [Trunks -> Entries \union {NoEntry}]
      BY <2>7, <2>8
    <3>2. loop' \in [Entries -> {"none", "wait", "ok", "failing", "done"}]
      BY <2>7, <2>8
    <3>3. unsynced' \subseteq Trunks
      BY <2>7, <2>8
    <3> QED
      BY <3>1, <3>2, <3>3
  <2>5. entries' \in [Entries -> EntryRecords]
    BY <2>6, <2>7, <2>8 DEF EntryRecords
  <2> QED
    BY <1>14, <2>1, <2>2, <2>4, <2>5 DEF InsertEntry, EntryRecords, WorkerLabels
<1>15. ASSUME NEW e \in Entries, SendRegister(e)
      PROVE  TrunkTypeOK'
  <2>1. e[2] \in Trunks
    BY DEF Entries
  <2>2. bindings' \subseteq Trunks /\ outages' \in 0 .. MaxOutages
    BY <1>15, <2>1, TrunkAssumption DEF SendRegister
  <2>3. loop' \in [Entries -> {"none", "wait", "ok", "failing", "done"}]
    BY <1>15 DEF SendRegister
  <2> QED
    BY <1>15, <2>2, <2>3 DEF SendRegister, workerVars, historyVars
<1>16. ASSUME NEW e \in Entries, SendOptions(e)
      PROVE  TrunkTypeOK'
  <2>1. outages' \in 0 .. MaxOutages
    BY <1>16, TrunkAssumption DEF SendOptions
  <2>2. loop' \in [Entries -> {"none", "wait", "ok", "failing", "done"}]
    BY <1>16 DEF SendOptions
  <2> QED
    BY <1>16, <2>1, <2>2 DEF SendOptions, workerVars, historyVars
<1>17. ASSUME NEW e \in Entries, ReportRegister(e)
      PROVE  TrunkTypeOK'
  <2>1. entries' \in [Entries -> EntryRecords]
    <3>1. SetStatus(e[2], "registered") \/ SetStatus(e[2], "failed")
      BY <1>17 DEF ReportRegister
    <3>2. ASSUME NEW status \in {"registered", "failed"}, SetStatus(e[2], status)
          PROVE  entries' \in [Entries -> EntryRecords]
      BY <3>2 DEF SetStatus, EntryRecords
    <3> QED
      BY <3>1, <3>2
  <2>2. loop' \in [Entries -> {"none", "wait", "ok", "failing", "done"}]
    BY <1>17 DEF ReportRegister, AfterReport
  <2> QED
    BY <1>17, <2>1, <2>2 DEF ReportRegister, workerVars, historyVars, EntryRecords
<1>18. ASSUME NEW e \in Entries, ReportHealth(e)
      PROVE  TrunkTypeOK'
  <2>1. entries' \in [Entries -> EntryRecords]
    <3>1. entries' = entries \/ SetStatus(e[2], "registered") \/ SetStatus(e[2], "failed")
      BY <1>18 DEF ReportHealth
    <3>2. ASSUME NEW status \in {"registered", "failed"}, SetStatus(e[2], status)
          PROVE  entries' \in [Entries -> EntryRecords]
      BY <3>2 DEF SetStatus, EntryRecords
    <3> QED
      BY <3>1, <3>2 DEF EntryRecords
  <2>2. loop' \in [Entries -> {"none", "wait", "ok", "failing", "done"}]
    BY <1>18 DEF ReportHealth, AfterReport
  <2> QED
    BY <1>18, <2>1, <2>2 DEF ReportHealth, workerVars, historyVars, EntryRecords
<1>19. ASSUME NEW e \in Entries, EndLoop(e)
      PROVE  TrunkTypeOK'
  BY <1>19 DEF EndLoop, registrarVars, loopVars, workerVars, historyVars
<1>20. CASE UNCHANGED trunkVars
  BY <1>20 DEF trunkVars, registrarVars, loopVars, workerVars, historyVars
<1> HIDE DEF TrunkTypeOK, PlansInv
<1> QED
  BY <1>1, <1>2, <1>3, <1>4, <1>5, <1>6, <1>7, <1>8, <1>9, <1>10, <1>11,
     <1>12, <1>13, <1>14, <1>15, <1>16, <1>17, <1>18, <1>19, <1>20
  DEF TrunkNext, WorkerStep, LoopStep

-----------------------------------------------------------------------------
(* The plans.                                                              *)

\* An entry in tr.states is one of its trunk.
OwnInv(t) == HasEntry(t) => Current(t)[2] = t

\* A step of one worker.
Acts(w) ==
  \/ w \in Admins /\ ReloadTrunks(w)
  \/ w \in Admins /\ \E t \in Trunks : CreateTrunk(w, t) \/ ReadTrunk(w, t)
  \/ WorkerStep(w)

\* What a step leaves a worker with.
Mine(v) ==
  /\ worker'[v] = worker[v]
  /\ plan'[v] = plan[v]
  /\ taken'[v] = taken[v]
  /\ request'[v] = request[v]

\* Workers keep to themselves.
LEMMA WorkersApart ==
  ASSUME TrunkTypeOK, NEW w \in Workers, Acts(w), NEW v \in Workers \ {w}
  PROVE  Mine(v)
<1>1. ASSUME w \in Admins, NEW t \in Trunks, CreateTrunk(w, t)
      PROVE  Mine(v)
  BY <1>1 DEF CreateTrunk, Begin, WorkerGoes, registrarVars, loopVars,
    workerVars, historyVars, Mine, TrunkTypeOK
<1>2. ASSUME w \in Admins, NEW t \in Trunks, ReadTrunk(w, t)
      PROVE  Mine(v)
  BY <1>2 DEF ReadTrunk, Begin, WorkerGoes, registrarVars, loopVars, workerVars,
    historyVars, Mine, TrunkTypeOK
<1>3. ASSUME w \in Admins, ReloadTrunks(w)
      PROVE  Mine(v)
  BY <1>3 DEF ReloadTrunks, Begin, WorkerGoes, registrarVars, loopVars,
    workerVars, historyVars, Mine, TrunkTypeOK
<1>4. CASE UpdateTrunk(w)
  BY <1>4 DEF UpdateTrunk, WorkerGoes, registrarVars, loopVars, workerVars,
    historyVars, Mine, TrunkTypeOK
<1>5. CASE TestTrunk(w)
  BY <1>5 DEF TestTrunk, Finish, WorkerGoes, registrarVars, loopVars,
    workerVars, historyVars, Mine, TrunkTypeOK
<1>6. CASE Refetch(w)
  BY <1>6 DEF Refetch, Finish, WorkerGoes, registrarVars, loopVars, workerVars,
    historyVars, Mine, TrunkTypeOK
<1>7. CASE DeleteTrunk(w)
  BY <1>7 DEF DeleteTrunk, WorkerGoes, registrarVars, loopVars, workerVars,
    historyVars, Mine, TrunkTypeOK
<1>8. CASE ListEnabled(w)
  BY <1>8 DEF ListEnabled, registrarVars, loopVars, Mine, TrunkTypeOK
<1>9. CASE NextCommand(w)
  BY <1>9 DEF NextCommand, Finish, WorkerGoes, registrarVars, loopVars,
    workerVars, historyVars, Mine, TrunkTypeOK
<1>10. CASE TakeEntry(w)
  BY <1>10 DEF TakeEntry, AfterStop, WorkerGoes, registrarVars, loopVars,
    workerVars, historyVars, Mine, TrunkTypeOK
<1>11. CASE HaltEntry(w)
  BY <1>11 DEF HaltEntry, RemoveTrunk, WorkerGoes, registrarVars, loopVars,
    workerVars, historyVars, Mine, TrunkTypeOK
<1>12. CASE Unregister(w)
  BY <1>12 DEF Unregister, AfterStop, WorkerGoes, registrarVars, loopVars,
    workerVars, historyVars, Mine, TrunkTypeOK
<1>13. CASE OpenTrunk(w)
  BY <1>13 DEF OpenTrunk, AddTrunk, WorkerGoes, registrarVars, loopVars,
    workerVars, historyVars, Mine, TrunkTypeOK
<1>14. CASE InsertEntry(w)
  BY <1>14 DEF InsertEntry, WorkerGoes, registrarVars, loopVars, workerVars,
    historyVars, Mine, TrunkTypeOK
<1> QED
  BY <1>1, <1>2, <1>3, <1>4, <1>5, <1>6, <1>7, <1>8, <1>9, <1>10, <1>11,
     <1>12, <1>13, <1>14
  DEF Acts, WorkerStep

\* A command of a plan is a command.
LEMMA AskedFacts == \A s \in Seq(Commands) : \A a \in Asked(s) : a \in Commands
BY DEF Asked

\* A worker whose command is done goes on with the rest of its plan.
LEMMA TailPlan ==
  ASSUME TrunkTypeOK, NEW w \in Workers, PlanInv(w), plan[w] # <<>>,
         plan'[w] = Tail(plan[w]), worker'[w] = "next", request'[w] = request[w]
  PROVE  PlanInv(w)'
<1>1. /\ Asked(plan[w]) = {Head(plan[w])} \union Asked(Tail(plan[w]))
      /\ Len(Tail(plan[w])) = Len(plan[w]) - 1 /\ Len(plan[w]) \in Nat \ {0}
      /\ \A i \in 1 .. Len(plan[w]) - 1 : Tail(plan[w])[i] = plan[w][i + 1]
  BY TailFacts DEF TrunkTypeOK
<1>2. ASSUME NEW i \in 1 .. Len(plan'[w]), NEW j \in 1 .. Len(plan'[w]),
             plan'[w][i].do # "stop", plan'[w][j].do = "stop"
      PROVE  j < i
  <2>1. /\ i + 1 \in 1 .. Len(plan[w]) /\ j + 1 \in 1 .. Len(plan[w])
        /\ plan'[w][i] = plan[w][i + 1] /\ plan'[w][j] = plan[w][j + 1]
    BY <1>1
  <2>2. j + 1 < i + 1
    BY <1>2, <2>1 DEF PlanInv
  <2> QED
    BY <2>2
<1>3. \A a \in Asked(plan'[w]) : a \in Asked(plan[w])
  BY <1>1
<1> QED
  BY <1>2, <1>3 DEF PlanInv, Calling, AtRegistrar

\* StopTrunk returns.
LEMMA AfterStopPlan ==
  ASSUME TrunkTypeOK, NEW w \in Workers, PlanInv(w), AfterStop(w), worker[w] \in Calling,
         request'[w] = request[w]
  PROVE  PlanInv(w)'
<1>1. CASE Command(w).do = "start"
  <2>1. worker'[w] = "open" /\ plan'[w] = plan[w]
    BY <1>1 DEF AfterStop, WorkerGoes, TrunkTypeOK
  <2> QED
    BY <1>1, <2>1 DEF PlanInv, Calling, AtRegistrar, Command
<1>2. CASE Command(w).do # "start"
  <2>1. worker'[w] = "next" /\ plan'[w] = Tail(plan[w]) /\ plan[w] # <<>>
    BY <1>2 DEF AfterStop, WorkerGoes, TrunkTypeOK, PlanInv
  <2> QED
    BY <2>1, TailPlan
<1> QED
  BY <1>1, <1>2

\* A step of a worker keeps its plan in order.
LEMMA PlanStep ==
  ASSUME TrunkTypeOK, \A t \in Trunks : OwnInv(t), NEW w \in Workers, PlanInv(w), Acts(w)
  PROVE  PlanInv(w)'
<1>a. Asked(<<>>) = {} /\ Len(<<>>) = 0
  BY EmptyFacts
<1> USE DEF PlanInv
<1>1. ASSUME w \in Admins, NEW t \in Trunks, CreateTrunk(w, t)
      PROVE  PlanInv(w)'
  <2>1. request'[w] = [op |-> "create", trunk |-> t, row |-> NoTrunk]
        /\ worker'[w] = "refetch" /\ plan'[w] = plan[w] /\ worker[w] = "idle"
    BY <1>1 DEF CreateTrunk, Begin, WorkerGoes, TrunkTypeOK
  <2>2. request'[w].op = "create" /\ request'[w].row = NoTrunk
    BY <2>1
  <2> QED
    BY <2>1, <2>2, <1>a DEF Calling, AtRegistrar
<1>2. ASSUME w \in Admins, NEW t \in Trunks, ReadTrunk(w, t)
      PROVE  PlanInv(w)'
  <2>1. PICK op \in {"update", "delete", "test"} :
          Begin(w, [op |-> op, trunk |-> t, row |-> trunkRows[t]], op)
    BY <1>2 DEF ReadTrunk
  <2>2. /\ request'[w] = [op |-> op, trunk |-> t, row |-> trunkRows[t]]
        /\ worker'[w] = op /\ plan'[w] = plan[w] /\ worker[w] = "idle"
    BY <1>2, <2>1 DEF ReadTrunk, Begin, WorkerGoes, TrunkTypeOK
  <2>3. request'[w].op = op
    BY <2>2
  <2> QED
    BY <2>2, <2>3, <1>a DEF Calling, AtRegistrar
<1>3. ASSUME w \in Admins, ReloadTrunks(w)
      PROVE  PlanInv(w)'
  <2>1. PICK order \in Orders({t \in Trunks : HasEntry(t)}) :
          plan' = [plan EXCEPT ![w] = Reload(order)]
    BY <1>3 DEF ReloadTrunks
  <2>2. /\ plan'[w] = Reload(order) /\ worker'[w] = "next"
        /\ request'[w] = [NoRequest EXCEPT !.op = "reload"]
    BY <1>3, <2>1 DEF ReloadTrunks, Begin, WorkerGoes, TrunkTypeOK
  <2>3. request'[w].op = "reload"
    BY <2>2, ConstantFacts DEF Requests
  <2>4. Targets(request'[w]) = Trunks
    BY <2>3 DEF Targets
  <2>5. /\ Reload(order) \in Seq(Commands)
        /\ \A a \in Asked(Reload(order)) : a.do \in {"stop", "list"}
        /\ \A i, j \in 1 .. Len(Reload(order)) :
             Reload(order)[i].do # "stop" /\ Reload(order)[j].do = "stop" => j < i
    BY ReloadPlan
  <2>6. \A a \in Asked(Reload(order)) : a.trunk \in Trunks
    BY <2>5, AskedFacts DEF Commands
  <2> QED
    BY <2>2, <2>3, <2>4, <2>5, <2>6 DEF Calling, AtRegistrar
<1>4. CASE UpdateTrunk(w)
  <2>1. /\ plan'[w] = plan[w] /\ plan[w] = <<>>
        /\ worker'[w] \in {"refetch"}
    BY <1>4, <1>a DEF UpdateTrunk, Finish, WorkerGoes, TrunkTypeOK, AtRegistrar, Calling, workerVars
  <2>2. request'[w] = request[w]
    BY <1>4 DEF UpdateTrunk, TrunkTypeOK
  <2> QED
    BY <1>4, <2>1, <2>2, <1>a DEF UpdateTrunk, Calling, AtRegistrar
<1>5. CASE TestTrunk(w)
  <2>1. plan'[w] = plan[w] /\ plan[w] = <<>> /\ worker'[w] = "done"
    BY <1>5, <1>a DEF TestTrunk, Finish, WorkerGoes, TrunkTypeOK, AtRegistrar, Calling
  <2> QED
    BY <2>1, <1>a DEF Calling, AtRegistrar
<1>6. CASE Refetch(w)
  <2> DEFINE t == request[w].trunk
  <2>1. /\ t \in Trunks /\ trunkRows[t] \in TrunkRows /\ request[w].row \in TrunkRows
        /\ NoTrunk \in TrunkRows
    BY ConstantFacts DEF TrunkTypeOK, Requests
  <2>2. plan[w] = <<>>
    BY <1>6 DEF Refetch, AtRegistrar, Calling
  <2>4. ASSUME NEW before \in TrunkRows,
               plan' = [plan EXCEPT ![w] = UpdatePlan(t, before, trunkRows[t])],
               worker'[w] = "next", request'[w] = request[w]
        PROVE  PlanInv(w)'
    <3> DEFINE s == UpdatePlan(t, before, trunkRows[t])
    <3>1. /\ \A a \in Asked(s) : a.do \in {"stop", "start"} /\ a.trunk = t
          /\ \A i, j \in 1 .. Len(s) : s[i].do # "stop" /\ s[j].do = "stop" => j < i
      <4> HIDE DEF t
      <4>1. t \in Trunks /\ before \in TrunkRows /\ trunkRows[t] \in TrunkRows
        BY <2>1
      <4> HIDE DEF PlanInv
      <4> QED
        BY <4>1, UpdateFacts
    <3>2. plan'[w] = s
      BY <2>4 DEF TrunkTypeOK
    <3>3. t \in Targets(request[w])
      BY <1>6 DEF Refetch, Targets
    <3> HIDE DEF s, t
    <3> QED
      BY <2>4, <3>1, <3>2, <3>3 DEF Calling, AtRegistrar
  <2>5. \/ plan' = plan /\ Finish(w)
        \/ \E before \in TrunkRows :
             /\ plan' = [plan EXCEPT ![w] = UpdatePlan(t, before, trunkRows[t])]
             /\ WorkerGoes(w, "next") /\ request' = request
    BY <1>6, <2>1 DEF Refetch
  <2>6. CASE plan' = plan /\ Finish(w)
    <3>1. worker'[w] = "done" /\ plan'[w] = <<>>
      BY <2>2, <2>6 DEF Finish, WorkerGoes, TrunkTypeOK
    <3> QED
      BY <3>1, <1>a DEF Calling, AtRegistrar
  <2> QED
    BY <2>4, <2>5, <2>6 DEF WorkerGoes, TrunkTypeOK
<1>7. CASE DeleteTrunk(w)
  <2> DEFINE a == [do |-> "stop", trunk |-> request[w].trunk, type |-> AnyType]
  <2>1. plan'[w] = <<a>> /\ worker'[w] = "next" /\ request'[w] = request[w]
    BY <1>7 DEF DeleteTrunk, WorkerGoes, TrunkTypeOK
  <2>2. a.do = "stop" /\ a.trunk \in Targets(request[w])
    BY <1>7 DEF DeleteTrunk, Targets
  <2> HIDE DEF a
  <2>3. Len(<<a>>) = 1 /\ <<a>>[1] = a /\ Asked(<<a>>) = {a}
    BY DEF Asked
  <2> QED
    BY <2>1, <2>2, <2>3 DEF Calling, AtRegistrar
<1>8. CASE ListEnabled(w)
  <2>1. worker'[w] = "next" /\ request'[w] = request[w]
    BY <1>8 DEF ListEnabled
  <2>2. request[w].op = "reload"
    BY <1>8, TailFacts DEF ListEnabled, Command, TrunkTypeOK
  <2>3. Targets(request[w]) = Trunks
    BY <2>2 DEF Targets
  <2>4. CASE plan' = [plan EXCEPT ![w] = <<>>]
    <3>1. plan'[w] = <<>>
      BY <2>4 DEF TrunkTypeOK
    <3> QED
      BY <2>1, <3>1, <1>a DEF Calling, AtRegistrar
  <2>5. ASSUME NEW order \in Orders(EnabledTrunks), plan' = [plan EXCEPT ![w] = Starting(order)]
        PROVE  PlanInv(w)'
    <3>1. EnabledTrunks \in SUBSET Trunks
      BY DEF EnabledTrunks
    <3>2. /\ Starting(order) \in Seq(Commands)
          /\ Asked(Starting(order)) =
               {[do |-> "start", trunk |-> t, type |-> trunkRows[t].type] : t \in EnabledTrunks}
      BY <3>1, StartPlan DEF TrunkTypeOK
    <3>3. \A a \in Asked(Starting(order)) : a.do = "start" /\ a.trunk \in Trunks
      BY <3>1, <3>2
    <3>4. plan'[w] = Starting(order)
      BY <2>5 DEF TrunkTypeOK
    <3>5. \A i \in 1 .. Len(Starting(order)) : Starting(order)[i].do = "start"
      BY <3>3 DEF Asked
    <3> QED
      BY <2>1, <2>3, <3>3, <3>4, <3>5 DEF Calling, AtRegistrar
  <2> QED
    BY <1>8, <2>4, <2>5 DEF ListEnabled, Starting
<1>9. CASE NextCommand(w)
  <2>1. CASE plan[w] = <<>> /\ plan' = plan /\ worker'[w] = "done"
    BY <2>1, <1>a DEF Calling, AtRegistrar
  <2>2. CASE /\ plan[w] # <<>> /\ Command(w).do \in {"stop", "start"}
             /\ worker'[w] = "take" /\ UNCHANGED <<request, plan>>
    BY <2>2 DEF Calling, AtRegistrar, Command
  <2>3. CASE plan[w] # <<>> /\ plan'[w] = Tail(plan[w]) /\ UNCHANGED <<worker, request>>
    <3>1. worker'[w] = "next"
      BY <1>9, <2>3 DEF NextCommand
    <3> QED
      BY <2>3, <3>1, TailPlan
  <2> QED
    BY <1>9, <2>1, <2>2, <2>3 DEF NextCommand, Finish, WorkerGoes, TrunkTypeOK
<1>10. CASE TakeEntry(w)
  <2>1. CASE AfterStop(w)
    <3>1. request'[w] = request[w]
      BY <1>10 DEF TakeEntry
    <3> QED
      BY <1>10, <2>1, <3>1, AfterStopPlan DEF TakeEntry, Calling
  <2>2. CASE HasEntry(Command(w).trunk) /\ WorkerGoes(w, "halt") /\ plan' = plan
    <3>1. Command(w) \in Commands
      BY <1>10, TailFacts DEF TakeEntry, Calling, Command, TrunkTypeOK
    <3>2. Command(w).trunk \in Trunks
      BY <3>1 DEF Commands
    <3>3. taken'[w] = trunkStates[Command(w).trunk]
      BY <1>10 DEF TakeEntry, Current, TrunkTypeOK
    <3>4. taken'[w] # NoEntry /\ taken'[w][2] = Command(w).trunk
      BY <2>2, <3>2, <3>3 DEF HasEntry, OwnInv, Current
    <3>5. worker'[w] = "halt" /\ request'[w] = request[w] /\ plan'[w] = plan[w]
      BY <1>10, <2>2 DEF TakeEntry, WorkerGoes, TrunkTypeOK
    <3> QED
      BY <1>10, <3>4, <3>5 DEF TakeEntry, Calling, AtRegistrar, Command
  <2> QED
    BY <1>10, <2>1, <2>2 DEF TakeEntry
<1>11. CASE HaltEntry(w)
  <2>1. /\ worker'[w] = "unregister" /\ request'[w] = request[w] /\ plan'[w] = plan[w]
        /\ taken'[w] = taken[w] /\ worker[w] = "halt"
    BY <1>11 DEF HaltEntry, WorkerGoes, TrunkTypeOK
  <2> QED
    BY <2>1 DEF Calling, AtRegistrar, Command
<1>12. CASE Unregister(w)
  <2>1. request'[w] = request[w] /\ AfterStop(w) /\ worker[w] = "unregister"
    BY <1>12 DEF Unregister
  <2> QED
    BY <2>1, AfterStopPlan DEF Calling
<1>13. CASE OpenTrunk(w)
  <2>1. /\ worker'[w] = "insert" /\ request'[w] = request[w] /\ plan'[w] = plan[w]
        /\ worker[w] = "open"
    BY <1>13 DEF OpenTrunk, WorkerGoes, TrunkTypeOK
  <2> QED
    BY <2>1 DEF Calling, AtRegistrar, Command
<1>14. CASE InsertEntry(w)
  <2>1. /\ worker'[w] = "next" /\ request'[w] = request[w] /\ plan'[w] = Tail(plan[w])
        /\ worker[w] = "insert"
    BY <1>14 DEF InsertEntry, WorkerGoes, TrunkTypeOK
  <2> QED
    BY <2>1, TailPlan DEF Calling
<1> HIDE DEF PlanInv
<1> QED
  BY <1>1, <1>2, <1>3, <1>4, <1>5, <1>6, <1>7, <1>8, <1>9, <1>10, <1>11,
     <1>12, <1>13, <1>14
  DEF Acts, WorkerStep

-----------------------------------------------------------------------------
(* Who handles a trunk.                                                    *)

\* A worker's request changes the trunk.
Handles(w, t) == Busy(w) /\ t \in Targets(request[w])

\* Unless requests contended for the trunk, at most one worker handles it.
SerialInv(t) == t \notin contended =>
  \A v, w \in Workers : Handles(v, t) /\ Handles(w, t) => v = w

\* A worker comes to handle a trunk alone, or the trunk is contended.
LEMMA HandlesStep ==
  ASSUME TrunkTypeOK, NEW w \in Workers, Acts(w), NEW t \in Trunks
  PROVE  /\ contended \subseteq contended'
         /\ \A v \in Workers \ {w} : Handles(v, t)' <=> Handles(v, t)
         /\ Handles(w, t)' /\ ~Handles(w, t) =>
              t \in contended' \/ \A v \in Workers \ {w} : ~Handles(v, t)
<1>1. \A v \in Workers \ {w} : Handles(v, t)' <=> Handles(v, t)
  BY WorkersApart DEF Mine, Handles, Busy
<1>2. CASE WorkerStep(w)
  <2>1. contended' = contended
    BY <1>2
    DEF WorkerStep, UpdateTrunk, TestTrunk, Refetch, DeleteTrunk, ListEnabled,
        NextCommand, TakeEntry, HaltEntry, Unregister, OpenTrunk, InsertEntry,
        historyVars
  <2>2. worker[w] \notin {"idle", "done"}
    BY <1>2
    DEF WorkerStep, UpdateTrunk, TestTrunk, Refetch, DeleteTrunk, ListEnabled,
        NextCommand, TakeEntry, HaltEntry, Unregister, OpenTrunk, InsertEntry
  <2>3. request'[w] = request[w] \/ worker'[w] = "done"
    BY <1>2
    DEF WorkerStep, UpdateTrunk, TestTrunk, Refetch, DeleteTrunk, ListEnabled,
        NextCommand, TakeEntry, HaltEntry, Unregister, OpenTrunk, InsertEntry,
        Finish, WorkerGoes, TrunkTypeOK
  <2> QED
    BY <1>1, <2>1, <2>2, <2>3 DEF Handles, Busy
<1>3. ASSUME w \in Admins, NEW r \in Requests, NEW label \in WorkerLabels, Begin(w, r, label)
      PROVE  /\ contended \subseteq contended'
             /\ Handles(w, t)' /\ ~Handles(w, t) =>
                  t \in contended' \/ \A v \in Workers \ {w} : ~Handles(v, t)
  <2>1. /\ request'[w] = r
        /\ contended' = contended \union
             {x \in Targets(r) : \E v \in Workers \ {w} : Busy(v) /\ x \in Targets(request[v])}
    BY <1>3, BeginFacts DEF TrunkTypeOK
  <2> QED
    BY <2>1 DEF Handles
<1>4. CASE w \in Admins /\ \E u \in Trunks : CreateTrunk(w, u) \/ ReadTrunk(w, u)
  <2>1. PICK u \in Trunks : CreateTrunk(w, u) \/ ReadTrunk(w, u)
    BY <1>4
  <2>2. /\ [op |-> "create", trunk |-> u, row |-> NoTrunk] \in Requests
        /\ \A op \in {"update", "delete", "test"} :
             [op |-> op, trunk |-> u, row |-> trunkRows[u]] \in Requests
    BY ConstantFacts DEF Requests, TrunkTypeOK
  <2>3. \E r \in Requests, label \in WorkerLabels : Begin(w, r, label)
    <3>1. CASE CreateTrunk(w, u)
      BY <2>2, <3>1 DEF CreateTrunk, WorkerLabels
    <3>2. CASE ReadTrunk(w, u)
      BY <2>2, <3>2 DEF ReadTrunk, WorkerLabels
    <3> QED
      BY <2>1, <3>1, <3>2
  <2> QED
    BY <1>1, <1>3, <1>4, <2>3
<1>5. CASE w \in Admins /\ ReloadTrunks(w)
  <2>1. [NoRequest EXCEPT !.op = "reload"] \in Requests
    BY ConstantFacts DEF Requests
  <2>2. \E r \in Requests, label \in WorkerLabels : Begin(w, r, label)
    BY <1>5, <2>1 DEF ReloadTrunks, WorkerLabels
  <2> QED
    BY <1>1, <1>3, <1>5, <2>2
<1> QED
  BY <1>2, <1>4, <1>5 DEF Acts

\* Every trunk stays with one worker.
LEMMA SerialStep ==
  ASSUME TrunkTypeOK, NEW w \in Workers, Acts(w), NEW t \in Trunks, SerialInv(t)
  PROVE  SerialInv(t)'
BY HandlesStep DEF SerialInv

\* A step leaves what concerns a trunk as it is.
Still(t) ==
  /\ trunkRows'[t] = trunkRows[t]
  /\ trunkStates'[t] = trunkStates[t]
  /\ t \in acl' <=> t \in acl
  /\ t \in unsynced' <=> t \in unsynced
  /\ \A e \in Entries : e[2] = t => entries'[e].type = entries[e].type

\* The trunk a worker is at.
Subject(w) == IF worker[w] \in AtRegistrar THEN Command(w).trunk ELSE request[w].trunk

\* The command of a worker inside a call.
LEMMA CommandFacts ==
  ASSUME TrunkTypeOK, NEW w \in Workers, PlanInv(w), plan[w] # <<>>
  PROVE  /\ Command(w) \in Commands /\ Command(w).trunk \in Trunks
         /\ Command(w).type \in TrunkTypes /\ Command(w) \in Asked(plan[w])
<1>1. plan[w] \in Seq(Commands) /\ plan[w] # <<>>
  BY DEF TrunkTypeOK
<1>2. Head(plan[w]) \in Commands /\ Head(plan[w]) \in Asked(plan[w])
  BY <1>1, TailFacts
<1> QED
  BY <1>2 DEF Command, Commands

\* A worker's step concerns no trunk but the one it is at.
LEMMA StillStep ==
  ASSUME TrunkTypeOK, NEW w \in Workers, PlanInv(w), WorkerStep(w), NEW t \in Trunks,
         t # Subject(w), ~ListEnabled(w)
  PROVE  Still(t)
<1> USE DEF TrunkTypeOK, Still
<1>1. CASE UpdateTrunk(w)
  BY <1>1 DEF UpdateTrunk, Subject, AtRegistrar, Calling, registrarVars, loopVars, historyVars
<1>2. CASE TestTrunk(w)
  BY <1>2 DEF TestTrunk, historyVars
<1>3. CASE Refetch(w)
  BY <1>3 DEF Refetch, Subject, AtRegistrar, Calling, registrarVars, loopVars
<1>4. CASE DeleteTrunk(w)
  BY <1>4 DEF DeleteTrunk, Subject, AtRegistrar, Calling, registrarVars, loopVars, historyVars
<1>5. CASE NextCommand(w)
  BY <1>5 DEF NextCommand, Subject, AtRegistrar, registrarVars, loopVars
<1>6. CASE TakeEntry(w)
  BY <1>6 DEF TakeEntry, Subject, AtRegistrar, Calling, loopVars, historyVars
<1>7. CASE HaltEntry(w)
  <2>1. taken[w] \in Entries /\ taken[w][2] # t
    BY <1>7 DEF HaltEntry, PlanInv, Subject, AtRegistrar, Calling
  <2>2. t \in acl' <=> t \in acl
    BY <1>7, <2>1 DEF HaltEntry, RemoveTrunk
  <2>3. \A e \in Entries : entries'[e].type = entries[e].type
    BY <1>7, <2>1 DEF HaltEntry
  <2> QED
    BY <1>7, <2>2, <2>3 DEF HaltEntry, historyVars
<1>8. CASE Unregister(w)
  <2>1. \A e \in Entries : entries'[e].type = entries[e].type
    BY <1>8 DEF Unregister
  <2> QED
    BY <1>8, <2>1 DEF Unregister, historyVars
<1>9. CASE OpenTrunk(w)
  BY <1>9 DEF OpenTrunk, AddTrunk, Subject, AtRegistrar, Calling, loopVars, historyVars
<1>10. CASE InsertEntry(w)
  <2>1. Command(w).trunk # t
    BY <1>10 DEF InsertEntry, Subject, AtRegistrar, Calling
  <2>2. \A e \in Entries : e[2] = t => entries'[e].type = entries[e].type
    <3> SUFFICES ASSUME NEW e \in Entries, e[2] = t
                 PROVE  entries'[e].type = entries[e].type
      OBVIOUS
    <3>1. e # <<w, Command(w).trunk>>
      BY <2>1
    <3>2. entries'[e] = entries[e]
      BY <1>10, <3>1 DEF InsertEntry
    <3> QED
      BY <3>2
  <2> QED
    BY <1>10, <2>1, <2>2 DEF InsertEntry
<1> QED
  BY <1>1, <1>2, <1>3, <1>4, <1>5, <1>6, <1>7, <1>8, <1>9, <1>10 DEF WorkerStep

\* An entry stays where it is or is replaced by one of the same trunk.
LEMMA OwnStep ==
  ASSUME TrunkTypeOK, NEW w \in Workers, PlanInv(w), Acts(w), NEW t \in Trunks, OwnInv(t)
  PROVE  OwnInv(t)'
<1>1. CASE TakeEntry(w)
  BY <1>1 DEF TakeEntry, OwnInv, HasEntry, Current, TrunkTypeOK
<1>2. CASE InsertEntry(w)
  <2>1. trunkStates'[t] = trunkStates[t] \/ trunkStates'[t] = <<w, t>>
    BY <1>2 DEF InsertEntry, TrunkTypeOK
  <2> QED
    BY <2>1 DEF OwnInv, HasEntry, Current
<1>3. CASE ~TakeEntry(w) /\ ~InsertEntry(w)
  <2>1. trunkStates' = trunkStates
    BY <1>3
    DEF Acts, CreateTrunk, ReadTrunk, ReloadTrunks, WorkerStep, UpdateTrunk, TestTrunk,
        Refetch, DeleteTrunk, ListEnabled, NextCommand, HaltEntry, Unregister,
        OpenTrunk, registrarVars
  <2> QED
    BY <2>1 DEF OwnInv, HasEntry, Current
<1> QED
  BY <1>1, <1>2, <1>3

-----------------------------------------------------------------------------
(* What a worker has done and has still to do for a trunk.                 *)

Stops(w, t) == \E a \in Asked(plan[w]) : a.do = "stop" /\ a.trunk = t
Starts(w, t) == \E a \in Asked(plan[w]) : a.do = "start" /\ a.trunk = t
Lists(w) == \E a \in Asked(plan[w]) : a.do = "list"

Wanted(t) == trunkRows[t].live /\ trunkRows[t].enabled
ByAddress(t) == HasEntry(t) /\ entries[Current(t)].type = "ip"

\* The matcher knows the addresses of the trunk exactly if its entry is of type ip.
Listed(t) ==
  /\ ByAddress(t) => t \in acl
  /\ t \in acl => t \in unsynced \/ ByAddress(t)

\* The registrar has for the trunk what the row says.
Follows(t, row) ==
  /\ HasEntry(t) /\ t \notin unsynced =>
       row.live /\ row.enabled /\ entries[Current(t)].type = row.type
  /\ row.live /\ row.enabled => HasEntry(t) \/ t \in unsynced
  /\ Listed(t)

\* What the rest of a plan will do brings the registrar to what the row says.
PlanStage(w, t) ==
  /\ \A a \in Asked(plan[w]) :
       a.do = "start" /\ a.trunk = t => Wanted(t) /\ a.type = trunkRows[t].type
  /\ Stops(w, t) /\ ~Lists(w) /\ ~Starts(w, t) => ~Wanted(t)
  /\ ~Stops(w, t) /\ Lists(w) => ~HasEntry(t)
  /\ ~Stops(w, t) /\ ~Starts(w, t) /\ ~Lists(w) => Follows(t, trunkRows[t])

\* So far a call for the trunk has left this.
CallStage(w, t) ==
  /\ worker[w] \in {"next", "take"} \/ Command(w).trunk # t => Listed(t)
  /\ worker[w] \in Calling \ {"take"} /\ Command(w).trunk = t => ~HasEntry(t)
  /\ worker[w] = "halt" /\ Command(w).trunk = t /\ t \in acl =>
       t \in unsynced \/ entries[taken[w]].type = "ip"
  /\ worker[w] \in {"unregister", "open"} /\ Command(w).trunk = t /\ t \in acl => t \in unsynced
  /\ worker[w] = "insert" /\ Command(w).trunk = t =>
       /\ Command(w).type = "ip" => t \in acl
       /\ t \in acl => t \in unsynced \/ Command(w).type = "ip"

\* Between the database and the registrar, the registrar has what the row said
\* when the request read it.
Stage(w, t) ==
  /\ worker[w] = "update" => Follows(t, trunkRows[t]) /\ request[w].row = trunkRows[t]
  /\ worker[w] = "delete" => Follows(t, trunkRows[t])
  /\ worker[w] = "refetch" => Follows(t, request[w].row)
  /\ worker[w] \in AtRegistrar => PlanStage(w, t) /\ CallStage(w, t)

Handled(w, t) == IF Handles(w, t) THEN Stage(w, t) ELSE Follows(t, trunkRows[t])

\* Unless requests contended for it, the registrar follows the row of a trunk
\* nobody handles, and is behind it by what is left to do for one that somebody does.
TrunkInv(t) == t \notin contended =>
  /\ \A w \in Workers : Handles(w, t) => Stage(w, t)
  /\ (\A w \in Workers : ~Handles(w, t)) => Follows(t, trunkRows[t])

\* What does not concern a trunk leaves the registrar as it was to the row.
LEMMA StillFollows ==
  ASSUME TrunkTypeOK, NEW t \in Trunks, OwnInv(t), Still(t)
  PROVE  /\ HasEntry(t)' <=> HasEntry(t)
         /\ Listed(t)' <=> Listed(t)
         /\ Wanted(t)' <=> Wanted(t)
         /\ trunkRows'[t] = trunkRows[t]
         /\ \A row : Follows(t, row) => Follows(t, row)'
<1>1. Current(t)' = Current(t) /\ trunkRows'[t] = trunkRows[t]
  BY DEF Still, Current
<1>2. HasEntry(t)' <=> HasEntry(t)
  BY DEF Still, HasEntry
<1>3. HasEntry(t) => entries'[Current(t)].type = entries[Current(t)].type
  BY DEF Still, HasEntry, Current, OwnInv, TrunkTypeOK
<1>4. ByAddress(t)' <=> ByAddress(t)
  BY <1>1, <1>2, <1>3 DEF ByAddress
<1>5. Listed(t)' <=> Listed(t)
  BY <1>4 DEF Listed, Still
<1>6. ASSUME NEW row, Follows(t, row) PROVE Follows(t, row)'
  BY <1>1, <1>2, <1>3, <1>5, <1>6 DEF Follows, Still
<1> QED
  BY <1>1, <1>2, <1>5, <1>6 DEF Wanted

\* A step of another worker leaves a worker what it has to do.
LEMMA StillStage ==
  ASSUME TrunkTypeOK, NEW t \in Trunks, OwnInv(t), Still(t),
         NEW v \in Workers, PlanInv(v), Mine(v), Stage(v, t)
  PROVE  Stage(v, t)'
<1>1. /\ HasEntry(t)' <=> HasEntry(t)
      /\ Listed(t)' <=> Listed(t)
      /\ Wanted(t)' <=> Wanted(t)
      /\ trunkRows'[t] = trunkRows[t]
      /\ \A row : Follows(t, row) => Follows(t, row)'
  BY StillFollows
<1>2. worker'[v] = worker[v] /\ plan'[v] = plan[v] /\ taken'[v] = taken[v] /\ request'[v] = request[v]
  BY DEF Mine
<1>3. Asked(plan[v])' = Asked(plan[v]) /\ Command(v)' = Command(v)
  BY <1>2 DEF Asked, Command
<1>4. (Stops(v, t)' <=> Stops(v, t)) /\ (Starts(v, t)' <=> Starts(v, t)) /\ (Lists(v)' <=> Lists(v))
  BY <1>3 DEF Stops, Starts, Lists
<1>5. ASSUME worker[v] = "halt", Command(v).trunk = t
      PROVE  entries'[taken[v]].type = entries[taken[v]].type
  BY <1>5 DEF PlanInv, TrunkTypeOK, Still
<1>6. PlanStage(v, t) => PlanStage(v, t)'
  BY <1>1, <1>3, <1>4 DEF PlanStage
<1>7. CallStage(v, t) => CallStage(v, t)'
  BY <1>1, <1>2, <1>3, <1>5 DEF CallStage, Still
<1>8. Follows(t, trunkRows[t]) => Follows(t, trunkRows[t])'
  BY <1>1 DEF Follows, Still
<1>9. Follows(t, request[v].row) => Follows(t, request[v].row)'
  BY <1>1, <1>2 DEF Follows, Still
<1> QED
  BY <1>1, <1>2, <1>6, <1>7, <1>8, <1>9 DEF Stage

\* What is left of a plan once its first command is done.
LEMMA TailAsks ==
  ASSUME TrunkTypeOK, NEW w \in Workers, PlanInv(w), plan[w] # <<>>,
         plan'[w] = Tail(plan[w]), NEW t \in Trunks
  PROVE  /\ \A a \in Asked(plan'[w]) : a \in Asked(plan[w])
         /\ \A a \in Asked(plan[w]) : a = Command(w) \/ a \in Asked(plan'[w])
         /\ Stops(w, t)' => Stops(w, t)
         /\ Starts(w, t)' => Starts(w, t)
         /\ Lists(w)' => Lists(w)
         /\ Lists(w) => Lists(w)' \/ Command(w).do = "list"
         /\ Stops(w, t) => Stops(w, t)' \/ (Command(w).do = "stop" /\ Command(w).trunk = t)
         /\ Starts(w, t) => Starts(w, t)' \/ (Command(w).do = "start" /\ Command(w).trunk = t)
<1>1. Asked(plan[w]) = {Command(w)} \union Asked(plan'[w])
  BY TailFacts DEF TrunkTypeOK, Command
<1> QED
  BY <1>1 DEF Stops, Starts, Lists

\* A worker that does not stop a trunk now will stop none.
LEMMA NoStopsLeft ==
  ASSUME TrunkTypeOK, NEW w \in Workers, PlanInv(w), plan[w] # <<>>, Command(w).do # "stop",
         NEW t \in Trunks
  PROVE  ~Stops(w, t)
<1> SUFFICES ASSUME Stops(w, t) PROVE FALSE
  OBVIOUS
<1>1. PICK j \in 1 .. Len(plan[w]) : plan[w][j].do = "stop"
  BY DEF Stops, Asked
<1>2. Command(w) = plan[w][1] /\ 1 \in 1 .. Len(plan[w])
  BY TailFacts DEF Command, TrunkTypeOK
<1>3. j < 1
  BY <1>1, <1>2 DEF PlanInv
<1> QED
  BY <1>1, <1>3

\* A call for another trunk, or the end of one, leaves what is to do for this.
LEMMA AsideStage ==
  ASSUME TrunkTypeOK, NEW t \in Trunks, OwnInv(t), Still(t), NEW w \in Workers, PlanInv(w),
         worker[w] \in AtRegistrar, worker'[w] \in AtRegistrar,
         plan[w] # <<>>, Command(w).do # "list", Command(w).trunk # t, Stage(w, t),
         plan'[w] = plan[w] \/ (plan'[w] = Tail(plan[w]) /\ worker'[w] = "next")
  PROVE  Stage(w, t)'
<1>1. /\ HasEntry(t)' <=> HasEntry(t)
      /\ Listed(t)' <=> Listed(t)
      /\ Wanted(t)' <=> Wanted(t)
      /\ trunkRows'[t] = trunkRows[t]
      /\ \A row : Follows(t, row) => Follows(t, row)'
  BY StillFollows
<1>2. PlanStage(w, t) /\ Listed(t)
  BY DEF Stage, CallStage
<1>3. /\ \A a \in Asked(plan'[w]) : a \in Asked(plan[w])
      /\ (Stops(w, t)' <=> Stops(w, t)) /\ (Starts(w, t)' <=> Starts(w, t)) /\ (Lists(w)' <=> Lists(w))
  <2>1. CASE plan'[w] = plan[w]
    BY <2>1 DEF Stops, Starts, Lists
  <2>2. CASE plan'[w] = Tail(plan[w])
    BY <2>2, TailAsks
  <2> QED
    BY <2>1, <2>2
<1>4. Follows(t, trunkRows[t]) => Follows(t, trunkRows[t])'
  BY <1>1 DEF Follows, Still
<1>5. PlanStage(w, t)'
  BY <1>1, <1>2, <1>3, <1>4 DEF PlanStage
<1>6. worker'[w] \in Calling \ {"take"} => Command(w)' = Command(w)
  BY DEF Command, Calling
<1>7. CallStage(w, t)'
  BY <1>1, <1>2, <1>6 DEF CallStage, Calling
<1> QED
  BY <1>5, <1>7 DEF Stage, AtRegistrar, Calling

\* A trunk was stopped.
LEMMA StoppedStage ==
  ASSUME TrunkTypeOK, NEW t \in Trunks, NEW w \in Workers, PlanInv(w), PlanStage(w, t),
         plan[w] # <<>>, Command(w).do = "stop", Command(w).trunk = t,
         plan'[w] = Tail(plan[w]), worker'[w] = "next",
         trunkRows'[t] = trunkRows[t], ~HasEntry(t)', Listed(t)'
  PROVE  Stage(w, t)'
<1>1. /\ \A a \in Asked(plan'[w]) : a \in Asked(plan[w])
      /\ Stops(w, t)' => Stops(w, t)
      /\ (Starts(w, t)' <=> Starts(w, t)) /\ (Lists(w)' <=> Lists(w))
  BY TailAsks
<1>2. Stops(w, t)
  BY CommandFacts DEF Stops
<1>3. Wanted(t)' <=> Wanted(t)
  BY DEF Wanted
<1>4. ~Wanted(t) => Follows(t, trunkRows[t])'
  BY DEF Wanted, Follows
<1>5. PlanStage(w, t)'
  BY <1>1, <1>2, <1>3, <1>4 DEF PlanStage
<1> QED
  BY <1>5 DEF Stage, CallStage, Calling

\* A trunk was started, or not.
LEMMA StartedStage ==
  ASSUME TrunkTypeOK, NEW t \in Trunks, NEW w \in Workers, PlanInv(w), PlanStage(w, t),
         plan[w] # <<>>, Command(w).do = "start", Command(w).trunk = t,
         plan'[w] = Tail(plan[w]), worker'[w] = "next",
         trunkRows'[t] = trunkRows[t], Listed(t)',
         HasEntry(t)' \/ t \in unsynced',
         HasEntry(t)' /\ t \notin unsynced' => entries'[Current(t)'].type = Command(w).type
  PROVE  Stage(w, t)'
<1>1. /\ \A a \in Asked(plan'[w]) : a \in Asked(plan[w])
      /\ Stops(w, t)' => Stops(w, t)
      /\ Lists(w)' => Lists(w)
  BY TailAsks
<1>2. Command(w) \in Asked(plan[w])
  BY CommandFacts
<1>3. Wanted(t) /\ Command(w).type = trunkRows[t].type
  BY <1>2 DEF PlanStage
<1>4. ~Lists(w)
  BY <1>2 DEF PlanInv, Lists
<1>5. ~Stops(w, t)
  BY NoStopsLeft
<1>6. Wanted(t)' <=> Wanted(t)
  BY DEF Wanted
<1>7. Follows(t, trunkRows[t])'
  BY <1>3 DEF Wanted, Follows
<1>8. PlanStage(w, t)'
  BY <1>1, <1>4, <1>5, <1>6, <1>7 DEF PlanStage
<1> QED
  BY <1>8 DEF Stage, CallStage, Calling

\* A call goes on.
LEMMA OngoingPlan ==
  ASSUME TrunkTypeOK, NEW t \in Trunks, NEW w \in Workers, PlanInv(w), PlanStage(w, t),
         plan[w] # <<>>, Command(w).do \in {"stop", "start"}, Command(w).trunk = t,
         plan'[w] = plan[w], trunkRows'[t] = trunkRows[t], HasEntry(t)' => HasEntry(t)
  PROVE  PlanStage(w, t)'
<1>1. (Stops(w, t)' <=> Stops(w, t)) /\ (Starts(w, t)' <=> Starts(w, t)) /\ (Lists(w)' <=> Lists(w))
  BY DEF Stops, Starts, Lists
<1>2. Stops(w, t) \/ Starts(w, t)
  BY CommandFacts DEF Stops, Starts
<1>3. Wanted(t)' <=> Wanted(t)
  BY DEF Wanted
<1> QED
  BY <1>1, <1>2, <1>3 DEF PlanStage

\* StopTrunk returns, and the trunk has no entry.
LEMMA AfterStopStage ==
  ASSUME TrunkTypeOK, NEW t \in Trunks, NEW w \in Workers, PlanInv(w), PlanStage(w, t),
         worker[w] \in Calling, Command(w).trunk = t, AfterStop(w),
         trunkRows'[t] = trunkRows[t], ~HasEntry(t)', t \in acl' => t \in unsynced'
  PROVE  Stage(w, t)'
<1>1. plan[w] # <<>> /\ Command(w).do \in {"stop", "start"}
  BY CommandFacts DEF PlanInv, Commands
<1>2. Listed(t)'
  BY DEF Listed, ByAddress
<1>3. CASE Command(w).do = "stop"
  <2>1. worker'[w] = "next" /\ plan'[w] = Tail(plan[w])
    BY <1>3 DEF AfterStop, WorkerGoes, TrunkTypeOK
  <2> QED
    BY <1>1, <1>2, <1>3, <2>1, StoppedStage
<1>4. CASE Command(w).do = "start"
  <2>1. worker'[w] = "open" /\ plan'[w] = plan[w]
    BY <1>4 DEF AfterStop, WorkerGoes, TrunkTypeOK
  <2>2. PlanStage(w, t)'
    BY <1>1, <2>1, OngoingPlan
  <2>3. Command(w)' = Command(w)
    BY <2>1 DEF Command
  <2> QED
    BY <2>1, <2>2, <2>3 DEF Stage, CallStage, Calling
<1> QED
  BY <1>1, <1>3, <1>4

\* A request begins.
LEMMA CreateStage ==
  ASSUME TrunkTypeOK, NEW t \in Trunks, OwnInv(t), NEW w \in Admins,
         CreateTrunk(w, t), Follows(t, trunkRows[t])
  PROVE  Stage(w, t)'
<1>1. worker'[w] = "refetch" /\ request'[w] = [op |-> "create", trunk |-> t, row |-> NoTrunk]
  BY DEF CreateTrunk, Begin, WorkerGoes, TrunkTypeOK, Workers
<1>2. request'[w].row = NoTrunk
  BY <1>1
<1>3. ~trunkRows[t].live /\ ~NoTrunk.live
  BY ConstantFacts DEF CreateTrunk
<1>4. UNCHANGED <<trunkStates, acl, entries, unsynced>>
  BY DEF CreateTrunk, registrarVars, loopVars
<1>5. Follows(t, NoTrunk)'
  BY <1>3, <1>4 DEF Follows, Listed, ByAddress, HasEntry, Current
<1> QED
  BY <1>1, <1>2, <1>5 DEF Stage, AtRegistrar, Calling, Follows

LEMMA ReadStage ==
  ASSUME TrunkTypeOK, NEW t \in Trunks, OwnInv(t), NEW w \in Admins,
         ReadTrunk(w, t), Follows(t, trunkRows[t])
  PROVE  IF worker'[w] = "test" THEN Follows(t, trunkRows[t])' ELSE Stage(w, t)'
<1>1. PICK op \in {"update", "delete", "test"} :
        Begin(w, [op |-> op, trunk |-> t, row |-> trunkRows[t]], op)
  BY DEF ReadTrunk
<1>2. worker'[w] = op /\ request'[w] = [op |-> op, trunk |-> t, row |-> trunkRows[t]]
  BY <1>1 DEF Begin, WorkerGoes, TrunkTypeOK, Workers
<1>3. request'[w].row = trunkRows[t]
  BY <1>2
<1>4. UNCHANGED <<trunkRows, trunkStates, acl, entries, unsynced>>
  BY DEF ReadTrunk, registrarVars, loopVars
<1>5. Follows(t, trunkRows[t])'
  BY <1>4 DEF Follows, Listed, ByAddress, HasEntry, Current
<1> QED
  BY <1>2, <1>3, <1>4, <1>5 DEF Stage, AtRegistrar, Calling

LEMMA ReloadStage ==
  ASSUME TrunkTypeOK, NEW t \in Trunks, OwnInv(t), NEW w \in Admins,
         ReloadTrunks(w), Follows(t, trunkRows[t])
  PROVE  Stage(w, t)'
<1>1. PICK order \in Orders({x \in Trunks : HasEntry(x)}) :
        plan' = [plan EXCEPT ![w] = Reload(order)]
  BY DEF ReloadTrunks
<1>2. worker'[w] = "next" /\ plan'[w] = Reload(order)
  BY <1>1 DEF ReloadTrunks, Begin, WorkerGoes, TrunkTypeOK, Workers
<1> DEFINE S == {x \in Trunks : HasEntry(x)}
<1>3. S \in SUBSET Trunks /\ order \in Orders(S) /\ (HasEntry(t) => t \in S)
  BY <1>1
<1> HIDE DEF S
<1>4. /\ \A a \in Asked(Reload(order)) : a.do \in {"stop", "list"}
      /\ \E a \in Asked(Reload(order)) : a.do = "list"
      /\ HasEntry(t) => \E a \in Asked(Reload(order)) : a.do = "stop" /\ a.trunk = t
  BY <1>3, ReloadPlan
<1>5. UNCHANGED <<trunkRows, trunkStates, acl, entries, unsynced>>
  BY DEF ReloadTrunks, registrarVars, loopVars
<1>6. ~Starts(w, t)' /\ Lists(w)' /\ (HasEntry(t)' => Stops(w, t)')
  BY <1>2, <1>4, <1>5 DEF Starts, Lists, Stops, HasEntry
<1>7. Listed(t)'
  BY <1>5 DEF Follows, Listed, ByAddress, HasEntry, Current
<1>8. PlanStage(w, t)'
  BY <1>6 DEF PlanStage, Starts
<1> QED
  BY <1>2, <1>7, <1>8 DEF Stage, CallStage, Calling

\* The database half of a request.
LEMMA UpdateStage ==
  ASSUME TrunkTypeOK, NEW w \in Workers, UpdateTrunk(w),
         NEW t \in Trunks, t = request[w].trunk, Stage(w, t)
  PROVE  Stage(w, t)'
<1>1. worker'[w] = "refetch" /\ request'[w] = request[w] /\ worker[w] = "update"
  BY DEF UpdateTrunk, WorkerGoes, TrunkTypeOK
<1>2. Follows(t, request[w].row)
  BY <1>1 DEF Stage
<1>3. UNCHANGED <<trunkStates, acl, entries, unsynced>>
  BY DEF UpdateTrunk, registrarVars, loopVars, historyVars
<1>4. Follows(t, request[w].row)'
  BY <1>1, <1>2, <1>3 DEF Follows, Listed, ByAddress, HasEntry, Current
<1> QED
  BY <1>1, <1>4 DEF Stage, AtRegistrar, Calling

LEMMA RefetchStage ==
  ASSUME TrunkTypeOK, NEW w \in Workers, PlanInv(w), Refetch(w),
         NEW t \in Trunks, t = request[w].trunk, Stage(w, t)
  PROVE  IF worker'[w] = "next" THEN Stage(w, t)' ELSE Follows(t, trunkRows[t])'
<1>1. worker[w] = "refetch" /\ Follows(t, request[w].row)
  BY DEF Refetch, Stage
<1>2. UNCHANGED <<trunkRows, trunkStates, acl, entries>>
  BY DEF Refetch, registrarVars, loopVars
<1> DEFINE now == trunkRows[t]
           before == request[w].row
           s == UpdatePlan(t, before, now)
<1>3. \/ /\ now.live /\ plan' = [plan EXCEPT ![w] = s] /\ worker'[w] = "next"
         /\ unsynced' = unsynced /\ request' = request
      \/ unsynced' = unsynced \union {t} /\ worker'[w] = "done"
  BY DEF Refetch, PlanInv, Finish, WorkerGoes, TrunkTypeOK
<1>4. CASE unsynced' = unsynced \union {t} /\ worker'[w] = "done"
  BY <1>1, <1>2, <1>4 DEF Follows, Listed, ByAddress, HasEntry, Current
<1>5. CASE /\ now.live /\ plan' = [plan EXCEPT ![w] = s] /\ worker'[w] = "next"
           /\ unsynced' = unsynced /\ request' = request
  <2>1. before \in TrunkRows /\ now \in TrunkRows
    BY DEF TrunkTypeOK, Requests
  <2>2. /\ \A a \in Asked(s) : a.do \in {"stop", "start"} /\ a.trunk = t
        /\ \A a \in Asked(s) : a.do = "start" => now.enabled /\ a.type = now.type
        /\ (\E a \in Asked(s) : a.do = "stop") <=> before.enabled
        /\ (\E a \in Asked(s) : a.do = "start") <=> now.enabled
    <3> HIDE DEF now, before
    <3> QED
      BY <2>1, UpdateFacts
  <2>3. plan'[w] = s
    BY <1>5 DEF TrunkTypeOK
  <2> HIDE DEF s
  <2>4. (Stops(w, t)' <=> before.enabled) /\ (Starts(w, t)' <=> now.enabled) /\ ~Lists(w)'
    BY <2>2, <2>3 DEF Stops, Starts, Lists
  <2>5. HasEntry(t)' <=> HasEntry(t)
    BY <1>2 DEF HasEntry
  <2>6. Follows(t, before)'
    BY <1>1, <1>2, <1>5 DEF Follows, Listed, ByAddress, HasEntry, Current
  <2>7. Wanted(t)' <=> now.enabled
    BY <1>2, <1>5 DEF Wanted
  <2>8. ~before.enabled /\ ~now.enabled => Follows(t, trunkRows[t])'
    BY <2>6, <1>2, <1>5 DEF Follows
  <2>9. PlanStage(w, t)'
    BY <1>2, <2>2, <2>3, <2>4, <2>7, <2>8 DEF PlanStage
  <2> QED
    BY <1>5, <2>6, <2>9 DEF Stage, CallStage, Calling, Follows
<1> QED
  BY <1>3, <1>4, <1>5

LEMMA DeleteStage ==
  ASSUME TrunkTypeOK, NEW w \in Workers, DeleteTrunk(w),
         NEW t \in Trunks, t = request[w].trunk, Stage(w, t)
  PROVE  Stage(w, t)'
<1> DEFINE a == [do |-> "stop", trunk |-> t, type |-> AnyType]
<1>1. plan'[w] = <<a>> /\ worker'[w] = "next" /\ trunkRows'[t] = NoTrunk /\ worker[w] = "delete"
  BY DEF DeleteTrunk, WorkerGoes, TrunkTypeOK
<1>2. a.do = "stop" /\ a.trunk = t
  OBVIOUS
<1> HIDE DEF a
<1>3. Asked(plan[w])' = {a}
  BY <1>1 DEF Asked
<1>4. Stops(w, t)' /\ ~Starts(w, t)' /\ ~Lists(w)'
  BY <1>2, <1>3 DEF Stops, Starts, Lists
<1>5. ~Wanted(t)'
  BY <1>1, ConstantFacts DEF Wanted
<1>6. UNCHANGED <<trunkStates, acl, entries, unsynced>>
  BY DEF DeleteTrunk, registrarVars, loopVars, historyVars
<1>7. Listed(t)'
  BY <1>1, <1>6 DEF Stage, Follows, Listed, ByAddress, HasEntry, Current
<1>8. PlanStage(w, t)'
  BY <1>4, <1>5 DEF PlanStage, Starts
<1> QED
  BY <1>1, <1>7, <1>8 DEF Stage, CallStage, Calling

\* The registrar's half of a request.
LEMMA ListStage ==
  ASSUME TrunkTypeOK, NEW w \in Workers, PlanInv(w), ListEnabled(w), NEW t \in Trunks, Stage(w, t)
  PROVE  Stage(w, t)'
<1>1. /\ worker[w] = "next" /\ worker'[w] = "next" /\ plan[w] # <<>> /\ Command(w).do = "list"
      /\ UNCHANGED <<trunkRows, trunkStates, acl, entries>>
  BY DEF ListEnabled, registrarVars, loopVars
<1>2. t \in EnabledTrunks <=> Wanted(t)
  BY DEF EnabledTrunks, Wanted
<1>3. Lists(w) /\ ~Stops(w, t)
  BY <1>1, CommandFacts, NoStopsLeft DEF Lists
<1>4. ~HasEntry(t) /\ Listed(t)
  BY <1>1, <1>3 DEF Stage, PlanStage, CallStage, AtRegistrar
<1>5. unsynced \subseteq unsynced'
  BY DEF ListEnabled
<1>6. ~HasEntry(t)' /\ Listed(t)' /\ (Wanted(t)' <=> Wanted(t))
  BY <1>1, <1>4, <1>5 DEF HasEntry, Listed, ByAddress, Current, Wanted
<1>7. ASSUME plan' = [plan EXCEPT ![w] = <<>>], unsynced' = unsynced \union EnabledTrunks
      PROVE  PlanStage(w, t)'
  <2>1. Asked(plan'[w]) = {}
    BY <1>7, EmptyFacts DEF TrunkTypeOK
  <2>2. Follows(t, trunkRows[t])'
    BY <1>2, <1>6, <1>7 DEF Follows, Wanted
  <2> QED
    BY <2>1, <2>2 DEF PlanStage, Stops, Lists, Starts
<1>8. ASSUME NEW order \in Orders(EnabledTrunks), plan' = [plan EXCEPT ![w] = Starting(order)]
      PROVE  PlanStage(w, t)'
  <2>1. EnabledTrunks \in SUBSET Trunks
    BY DEF EnabledTrunks
  <2>2. Asked(Starting(order)) =
          {[do |-> "start", trunk |-> x, type |-> trunkRows[x].type] : x \in EnabledTrunks}
    BY <2>1, StartPlan DEF TrunkTypeOK
  <2>3. plan'[w] = Starting(order)
    BY <1>8 DEF TrunkTypeOK
  <2>4. \A a \in Asked(plan'[w]) : a.do = "start"
    BY <2>2, <2>3
  <2>5. ASSUME t \in EnabledTrunks PROVE \E a \in Asked(plan'[w]) : a.do = "start" /\ a.trunk = t
    <3> DEFINE a == [do |-> "start", trunk |-> t, type |-> trunkRows[t].type]
    <3>1. a \in Asked(plan'[w])
      BY <2>2, <2>3, <2>5
    <3>2. a.do = "start" /\ a.trunk = t
      OBVIOUS
    <3> QED
      BY <3>1, <3>2
  <2>6. ~Stops(w, t)' /\ ~Lists(w)' /\ (Wanted(t) => Starts(w, t)')
    BY <1>2, <2>4, <2>5 DEF Stops, Lists, Starts
  <2>7. \A a \in Asked(plan'[w]) : a.do = "start" /\ a.trunk = t => Wanted(t) /\ a.type = trunkRows[t].type
    BY <1>2, <2>2, <2>3
  <2>8. ~Wanted(t) => Follows(t, trunkRows[t])'
    BY <1>6 DEF Follows, Wanted
  <2> QED
    BY <1>1, <1>6, <2>6, <2>7, <2>8 DEF PlanStage
<1>9. PlanStage(w, t)'
  BY <1>7, <1>8 DEF ListEnabled, Starting
<1> QED
  BY <1>1, <1>6, <1>9 DEF Stage, CallStage, Calling

LEMMA NextStage ==
  ASSUME TrunkTypeOK, NEW w \in Workers, PlanInv(w), NextCommand(w),
         NEW t \in Trunks, OwnInv(t), Stage(w, t)
  PROVE  IF worker'[w] = "done" THEN Follows(t, trunkRows[t])' ELSE Stage(w, t)'
<1>1. /\ worker[w] = "next" /\ PlanStage(w, t) /\ Listed(t)
      /\ UNCHANGED <<trunkRows, trunkStates, acl, entries>>
  BY DEF NextCommand, Stage, AtRegistrar, CallStage, registrarVars, loopVars
<1>2. CASE plan[w] = <<>> /\ worker'[w] = "done" /\ unsynced' = unsynced
  <2>1. ~Stops(w, t) /\ ~Starts(w, t) /\ ~Lists(w)
    BY <1>2, EmptyFacts DEF Stops, Starts, Lists
  <2>2. Follows(t, trunkRows[t])
    BY <1>1, <2>1 DEF PlanStage
  <2> QED
    BY <1>1, <1>2, <2>2 DEF Follows, Listed, ByAddress, HasEntry, Current
<1>3. CASE /\ plan[w] # <<>> /\ worker'[w] = "take" /\ plan'[w] = plan[w]
           /\ unsynced' = unsynced
  <2>1. HasEntry(t)' = HasEntry(t) /\ Listed(t)'
    BY <1>1, <1>3 DEF Listed, ByAddress, HasEntry, Current
  <2>2. Follows(t, trunkRows[t]) => Follows(t, trunkRows[t])'
    BY <1>1, <1>3 DEF Follows, Listed, ByAddress, HasEntry, Current
  <2>3. PlanStage(w, t)'
    BY <1>1, <1>3, <2>1, <2>2 DEF PlanStage, Stops, Starts, Lists, Wanted
  <2> QED
    BY <1>3, <2>1, <2>3 DEF Stage, CallStage, Calling
<1>4. CASE /\ plan[w] # <<>> /\ Command(w).do = "start" /\ worker'[w] = "next"
           /\ plan'[w] = Tail(plan[w]) /\ unsynced' = unsynced \union {Command(w).trunk}
  <2>1. CASE Command(w).trunk = t
    <3>1. Listed(t)'
      BY <1>1, <1>4 DEF Listed, ByAddress, HasEntry, Current
    <3> QED
      BY <1>1, <1>4, <2>1, <3>1, StartedStage
  <2>2. CASE Command(w).trunk # t
    <3>1. Still(t)
      BY <1>1, <1>4, <2>2 DEF Still
    <3> QED
      BY <1>1, <1>4, <2>2, <3>1, AsideStage DEF AtRegistrar
  <2> QED
    BY <2>1, <2>2
<1> QED
  BY <1>1, <1>2, <1>3, <1>4 DEF NextCommand, Finish, WorkerGoes, TrunkTypeOK

\* A trunk a call is for: what the call knows of it.
LEMMA CallFacts ==
  ASSUME TrunkTypeOK, NEW w \in Workers, PlanInv(w), worker[w] \in Calling,
         NEW t \in Trunks, t = Command(w).trunk, Stage(w, t)
  PROVE  /\ PlanStage(w, t) /\ CallStage(w, t) /\ plan[w] # <<>>
         /\ Command(w).do \in {"stop", "start"}
         /\ worker[w] # "take" => ~HasEntry(t)
         /\ worker[w] = "take" => Listed(t)
BY CommandFacts DEF PlanInv, Stage, CallStage, Calling, AtRegistrar, Commands

LEMMA TakeStage ==
  ASSUME TrunkTypeOK, NEW w \in Workers, PlanInv(w), TakeEntry(w),
         NEW t \in Trunks, t = Command(w).trunk, Stage(w, t)
  PROVE  Stage(w, t)'
<1>1. /\ worker[w] = "take" /\ taken'[w] = Current(t) /\ trunkStates'[t] = NoEntry
      /\ UNCHANGED <<trunkRows, acl, entries, unsynced>>
      /\ IF HasEntry(t) THEN worker'[w] = "halt" /\ plan'[w] = plan[w] ELSE AfterStop(w)
  BY DEF TakeEntry, Current, WorkerGoes, loopVars, historyVars, TrunkTypeOK
<1>2. /\ PlanStage(w, t) /\ plan[w] # <<>> /\ Command(w).do \in {"stop", "start"} /\ Listed(t)
  BY <1>1, CallFacts DEF Calling
<1>3. ~HasEntry(t)'
  BY <1>1 DEF HasEntry
<1>4. CASE HasEntry(t)
  <2>1. PlanStage(w, t)'
    BY <1>1, <1>2, <1>3, <1>4, OngoingPlan
  <2>2. Command(w)' = Command(w)
    BY <1>1, <1>4 DEF Command
  <2>3. t \in acl => t \in unsynced \/ entries[taken'[w]].type = "ip"
    BY <1>1, <1>2 DEF Listed, ByAddress
  <2> QED
    BY <1>1, <1>3, <1>4, <2>1, <2>2, <2>3 DEF Stage, CallStage, Calling
<1>5. CASE ~HasEntry(t)
  <2>1. t \in acl => t \in unsynced
    BY <1>2, <1>5 DEF Listed, ByAddress
  <2> QED
    BY <1>1, <1>2, <1>3, <1>5, <2>1, AfterStopStage DEF Calling
<1> QED
  BY <1>4, <1>5

LEMMA HaltStage ==
  ASSUME TrunkTypeOK, NEW w \in Workers, PlanInv(w), HaltEntry(w),
         NEW t \in Trunks, t = Command(w).trunk, Stage(w, t)
  PROVE  Stage(w, t)'
<1>1. /\ worker[w] = "halt" /\ worker'[w] = "unregister" /\ plan'[w] = plan[w]
      /\ UNCHANGED <<trunkRows, trunkStates, unsynced>>
      /\ taken[w][2] = t
  BY DEF HaltEntry, WorkerGoes, historyVars, TrunkTypeOK, PlanInv
<1>2. /\ PlanStage(w, t) /\ CallStage(w, t) /\ plan[w] # <<>>
      /\ Command(w).do \in {"stop", "start"} /\ ~HasEntry(t)
  BY <1>1, CallFacts DEF Calling
<1>3. ~HasEntry(t)'
  BY <1>1, <1>2 DEF HasEntry
<1>4. PlanStage(w, t)'
  BY <1>1, <1>2, <1>3, OngoingPlan
<1>5. Command(w)' = Command(w)
  BY <1>1 DEF Command
<1>6. t \in acl' => t \in unsynced'
  BY <1>1, <1>2 DEF HaltEntry, RemoveTrunk, CallStage
<1> QED
  BY <1>1, <1>3, <1>4, <1>5, <1>6 DEF Stage, CallStage, Calling

LEMMA UnregisterStage ==
  ASSUME TrunkTypeOK, NEW w \in Workers, PlanInv(w), Unregister(w),
         NEW t \in Trunks, t = Command(w).trunk, Stage(w, t)
  PROVE  Stage(w, t)'
<1>1. /\ worker[w] = "unregister" /\ AfterStop(w)
      /\ UNCHANGED <<trunkRows, trunkStates, acl, unsynced>>
  BY DEF Unregister, historyVars
<1>2. PlanStage(w, t) /\ CallStage(w, t) /\ ~HasEntry(t)
  BY <1>1, CallFacts DEF Calling
<1>3. ~HasEntry(t)' /\ (t \in acl' => t \in unsynced')
  BY <1>1, <1>2 DEF HasEntry, CallStage
<1> QED
  BY <1>1, <1>2, <1>3, AfterStopStage DEF Calling

LEMMA OpenStage ==
  ASSUME TrunkTypeOK, NEW w \in Workers, PlanInv(w), OpenTrunk(w),
         NEW t \in Trunks, t = Command(w).trunk, Stage(w, t)
  PROVE  Stage(w, t)'
<1>1. /\ worker[w] = "open" /\ worker'[w] = "insert" /\ plan'[w] = plan[w]
      /\ UNCHANGED <<trunkRows, trunkStates, unsynced>>
      /\ acl' = IF Command(w).type = "ip" THEN acl \union {t} ELSE acl
  BY DEF OpenTrunk, AddTrunk, WorkerGoes, loopVars, historyVars, TrunkTypeOK
<1>2. /\ PlanStage(w, t) /\ CallStage(w, t) /\ plan[w] # <<>>
      /\ Command(w).do \in {"stop", "start"} /\ ~HasEntry(t)
  BY <1>1, CallFacts DEF Calling
<1>3. ~HasEntry(t)'
  BY <1>1, <1>2 DEF HasEntry
<1>4. PlanStage(w, t)'
  BY <1>1, <1>2, <1>3, OngoingPlan
<1>5. Command(w)' = Command(w)
  BY <1>1 DEF Command
<1>6. /\ Command(w).type = "ip" => t \in acl'
      /\ t \in acl' => t \in unsynced' \/ Command(w).type = "ip"
  BY <1>1, <1>2 DEF CallStage
<1> QED
  BY <1>1, <1>3, <1>4, <1>5, <1>6 DEF Stage, CallStage, Calling

LEMMA InsertStage ==
  ASSUME TrunkTypeOK, NEW w \in Workers, PlanInv(w), InsertEntry(w),
         NEW t \in Trunks, t = Command(w).trunk, Stage(w, t)
  PROVE  Stage(w, t)'
<1>1. /\ worker[w] = "insert" /\ worker'[w] = "next" /\ plan'[w] = Tail(plan[w])
      /\ UNCHANGED <<trunkRows, acl>>
  BY DEF InsertEntry, WorkerGoes, TrunkTypeOK
<1>2. /\ PlanStage(w, t) /\ CallStage(w, t) /\ plan[w] # <<>> /\ Command(w).do = "start" /\ ~HasEntry(t)
  BY <1>1, CallFacts DEF Calling, PlanInv
<1>3. CASE unsynced' = unsynced \union {t} /\ UNCHANGED <<trunkStates, entries>>
  <2>1. ~HasEntry(t)' /\ Listed(t)'
    BY <1>2, <1>3 DEF HasEntry, Listed, ByAddress
  <2> QED
    BY <1>1, <1>2, <1>3, <2>1, StartedStage
<1>4. CASE /\ trunkStates' = [trunkStates EXCEPT ![t] = <<w, t>>]
           /\ unsynced' = unsynced
           /\ entries' = [entries EXCEPT ![<<w, t>>] = [type |-> Command(w).type, ended |-> FALSE,
                status |-> IF Command(w).type = "register" THEN "registering" ELSE "unregistered"]]
  <2>1. <<w, t>> \in Entries /\ <<w, t>> # NoEntry
    BY TrunkAssumption DEF Entries
  <2>2. Current(t)' = <<w, t>> /\ HasEntry(t)'
    BY <1>4, <2>1 DEF Current, HasEntry, TrunkTypeOK
  <2>3. entries'[<<w, t>>].type = Command(w).type
    BY <1>4, <2>1 DEF TrunkTypeOK
  <2>4. Listed(t)'
    BY <1>1, <1>2, <1>4, <2>2, <2>3 DEF Listed, ByAddress, CallStage
  <2> QED
    BY <1>1, <1>2, <2>2, <2>3, <2>4, StartedStage
<1> QED
  BY <1>3, <1>4 DEF InsertEntry

-----------------------------------------------------------------------------
(* The registrar follows the rows.                                         *)


\* A step inside a call of the registrar keeps track of every trunk.
LEMMA CallStep ==
  ASSUME TrunkTypeOK, NEW w \in Workers, PlanInv(w), NEW t \in Trunks, OwnInv(t), Stage(w, t),
         TakeEntry(w) \/ HaltEntry(w) \/ Unregister(w) \/ OpenTrunk(w) \/ InsertEntry(w)
  PROVE  Stage(w, t)' /\ worker'[w] \in AtRegistrar /\ request'[w] = request[w] /\ WorkerStep(w)
<1>1. WorkerStep(w) /\ worker[w] \in Calling /\ ~ListEnabled(w)
  BY DEF WorkerStep, TakeEntry, HaltEntry, Unregister, OpenTrunk, InsertEntry, ListEnabled, Calling
<1>2. /\ worker'[w] \in AtRegistrar /\ request'[w] = request[w]
      /\ plan'[w] = plan[w] \/ (plan'[w] = Tail(plan[w]) /\ worker'[w] = "next")
  BY DEF TakeEntry, HaltEntry, Unregister, OpenTrunk, InsertEntry, AfterStop, WorkerGoes,
    AtRegistrar, Calling, TrunkTypeOK
<1>3. CASE t = Command(w).trunk
  <2>1. Stage(w, t)'
    BY <1>3, TakeStage, HaltStage, UnregisterStage, OpenStage, InsertStage
  <2> QED
    BY <1>1, <1>2, <2>1
<1>4. CASE t # Command(w).trunk
  <2>1. t # Subject(w) /\ worker[w] \in AtRegistrar
    BY <1>1, <1>4 DEF Subject, AtRegistrar
  <2>2. Still(t)
    BY <1>1, <2>1, StillStep
  <2>3. plan[w] # <<>> /\ Command(w).do # "list"
    BY <1>1 DEF PlanInv
  <2> QED
    BY <1>1, <1>2, <1>4, <2>1, <2>2, <2>3, AsideStage
<1> QED
  BY <1>1, <1>2, <1>3, <1>4

\* A step of the worker that handles the trunk, or comes to, or is done.
LEMMA HandledStep ==
  ASSUME TrunkTypeOK, NEW w \in Workers, PlanInv(w), Acts(w), NEW t \in Trunks, OwnInv(t),
         Handles(w, t) \/ Handles(w, t)', Handled(w, t)
  PROVE  Handled(w, t)'
<1>a. \A v \in Workers : Handles(v, t) <=> worker[v] \notin {"idle", "done"} /\ t \in Targets(request[v])
  BY DEF Handles, Busy
<1>b. Handles(w, t)' <=> worker'[w] \notin {"idle", "done"} /\ t \in Targets(request'[w])
  BY DEF Handles, Busy
<1>1. ASSUME w \in Admins, NEW u \in Trunks, CreateTrunk(w, u)
      PROVE  Handled(w, t)'
  <2>1. /\ worker[w] = "idle" /\ worker'[w] = "refetch"
        /\ request'[w] = [op |-> "create", trunk |-> u, row |-> NoTrunk]
    BY <1>1 DEF CreateTrunk, Begin, WorkerGoes, TrunkTypeOK
  <2>2. Targets(request'[w]) = {u}
    BY <2>1 DEF Targets
  <2>3. t = u /\ Handles(w, t)' /\ Follows(t, trunkRows[t])
    BY <1>a, <1>b, <2>1, <2>2 DEF Handled
  <2> QED
    BY <1>1, <2>3, CreateStage DEF Handled
<1>2. ASSUME w \in Admins, NEW u \in Trunks, ReadTrunk(w, u)
      PROVE  Handled(w, t)'
  <2>1. PICK op \in {"update", "delete", "test"} :
          Begin(w, [op |-> op, trunk |-> u, row |-> trunkRows[u]], op)
    BY <1>2 DEF ReadTrunk
  <2>2. /\ worker[w] = "idle" /\ worker'[w] = op
        /\ request'[w] = [op |-> op, trunk |-> u, row |-> trunkRows[u]]
    BY <2>1 DEF Begin, WorkerGoes, TrunkTypeOK
  <2>3. Targets(request'[w]) = IF op = "test" THEN {} ELSE {u}
    BY <2>2 DEF Targets
  <2>4. t = u /\ op # "test" /\ Handles(w, t)' /\ Follows(t, trunkRows[t])
    BY <1>a, <1>b, <2>2, <2>3 DEF Handled
  <2> QED
    BY <1>2, <2>2, <2>4, ReadStage DEF Handled
<1>3. ASSUME w \in Admins, ReloadTrunks(w)
      PROVE  Handled(w, t)'
  <2>1. /\ worker[w] = "idle" /\ worker'[w] = "next"
        /\ request'[w] = [NoRequest EXCEPT !.op = "reload"]
    BY <1>3 DEF ReloadTrunks, Begin, WorkerGoes, TrunkTypeOK
  <2>2. request'[w].op = "reload"
    BY <2>1, ConstantFacts DEF Requests
  <2>3. t \in Targets(request'[w])
    BY <2>2 DEF Targets
  <2>4. Handles(w, t)' /\ Follows(t, trunkRows[t])
    BY <1>a, <1>b, <2>1, <2>3 DEF Handled
  <2> QED
    BY <1>3, <2>4, ReloadStage DEF Handled
<1>4. ASSUME WorkerStep(w) PROVE Handles(w, t) /\ Stage(w, t)
  <2>1. worker[w] \notin {"idle", "done"}
    BY <1>4
    DEF WorkerStep, UpdateTrunk, TestTrunk, Refetch, DeleteTrunk, ListEnabled,
        NextCommand, TakeEntry, HaltEntry, Unregister, OpenTrunk, InsertEntry
  <2>2. request'[w] = request[w] \/ worker'[w] = "done"
    BY <1>4
    DEF WorkerStep, UpdateTrunk, TestTrunk, Refetch, DeleteTrunk, ListEnabled,
        NextCommand, TakeEntry, HaltEntry, Unregister, OpenTrunk, InsertEntry,
        Finish, WorkerGoes, TrunkTypeOK
  <2> QED
    BY <1>a, <1>b, <2>1, <2>2 DEF Handled
<1>5. ASSUME WorkerStep(w), worker'[w] \notin {"idle", "done"}, request'[w] = request[w]
      PROVE  Handles(w, t)'
  BY <1>a, <1>b, <1>4, <1>5
<1>6. CASE UpdateTrunk(w)
  <2>1. WorkerStep(w) /\ worker'[w] = "refetch" /\ request'[w] = request[w] /\ worker[w] = "update"
    BY <1>6 DEF WorkerStep, UpdateTrunk, WorkerGoes, TrunkTypeOK
  <2>2. Targets(request[w]) = {request[w].trunk}
    BY <2>1 DEF PlanInv, Targets
  <2>3. t = request[w].trunk /\ Stage(w, t) /\ Handles(w, t)'
    BY <1>a, <1>4, <1>5, <2>1, <2>2
  <2> QED
    BY <1>6, <2>3, UpdateStage DEF Handled
<1>7. CASE TestTrunk(w)
  <2>1. WorkerStep(w) /\ worker[w] = "test"
    BY <1>7 DEF WorkerStep, TestTrunk
  <2>2. Targets(request[w]) = {}
    BY <2>1 DEF PlanInv, Targets
  <2> QED
    BY <1>a, <1>4, <2>1, <2>2
<1>8. CASE Refetch(w)
  <2>1. /\ WorkerStep(w) /\ worker[w] = "refetch"
        /\ \/ worker'[w] = "next" /\ request'[w] = request[w]
           \/ worker'[w] = "done"
    BY <1>8 DEF WorkerStep, Refetch, Finish, WorkerGoes, TrunkTypeOK
  <2>2. Targets(request[w]) = {request[w].trunk}
    BY <2>1 DEF PlanInv, Targets
  <2>3. t = request[w].trunk /\ Stage(w, t)
    BY <1>a, <1>4, <2>1, <2>2
  <2>4. IF worker'[w] = "next" THEN Stage(w, t)' ELSE Follows(t, trunkRows[t])'
    BY <1>8, <2>3, RefetchStage
  <2> QED
    BY <1>b, <1>5, <2>1, <2>4 DEF Handled
<1>9. CASE DeleteTrunk(w)
  <2>1. WorkerStep(w) /\ worker'[w] = "next" /\ request'[w] = request[w] /\ worker[w] = "delete"
    BY <1>9 DEF WorkerStep, DeleteTrunk, WorkerGoes, TrunkTypeOK
  <2>2. Targets(request[w]) = {request[w].trunk}
    BY <2>1 DEF PlanInv, Targets
  <2>3. t = request[w].trunk /\ Stage(w, t) /\ Handles(w, t)'
    BY <1>a, <1>4, <1>5, <2>1, <2>2
  <2> QED
    BY <1>9, <2>3, DeleteStage DEF Handled
<1>10. CASE ListEnabled(w)
  <2>1. WorkerStep(w) /\ worker'[w] = "next" /\ request'[w] = request[w]
    BY <1>10 DEF WorkerStep, ListEnabled, TrunkTypeOK
  <2>2. Stage(w, t) /\ Handles(w, t)'
    BY <1>4, <1>5, <2>1
  <2> QED
    BY <1>10, <2>2, ListStage DEF Handled
<1>11. CASE NextCommand(w)
  <2>1. /\ WorkerStep(w)
        /\ \/ worker'[w] \in {"next", "take"} /\ request'[w] = request[w]
           \/ worker'[w] = "done"
    BY <1>11 DEF WorkerStep, NextCommand, Finish, WorkerGoes, TrunkTypeOK
  <2>2. Stage(w, t)
    BY <1>4, <2>1
  <2>3. IF worker'[w] = "done" THEN Follows(t, trunkRows[t])' ELSE Stage(w, t)'
    BY <1>11, <2>2, NextStage
  <2> QED
    BY <1>b, <1>5, <2>1, <2>3 DEF Handled
<1>12. CASE TakeEntry(w) \/ HaltEntry(w) \/ Unregister(w) \/ OpenTrunk(w) \/ InsertEntry(w)
  <2>1. WorkerStep(w)
    BY <1>12 DEF WorkerStep
  <2>2. Stage(w, t)' /\ worker'[w] \in AtRegistrar /\ request'[w] = request[w]
    BY <1>4, <1>12, <2>1, CallStep
  <2>3. Handles(w, t)'
    BY <1>5, <2>1, <2>2 DEF AtRegistrar, Calling
  <2> QED
    BY <2>2, <2>3 DEF Handled
<1> QED
  BY <1>1, <1>2, <1>3, <1>6, <1>7, <1>8, <1>9, <1>10, <1>11, <1>12 DEF Acts, WorkerStep

\* A worker that does not handle a trunk leaves it alone.
LEMMA ApartStep ==
  ASSUME TrunkTypeOK, NEW w \in Workers, PlanInv(w), Acts(w), NEW t \in Trunks,
         ~Handles(w, t), ~Handles(w, t)'
  PROVE  Still(t)
<1>1. ASSUME w \in Admins, NEW u \in Trunks, CreateTrunk(w, u)
      PROVE  Still(t)
  <2>1. worker'[w] = "refetch" /\ request'[w] = [op |-> "create", trunk |-> u, row |-> NoTrunk]
    BY <1>1 DEF CreateTrunk, Begin, WorkerGoes, TrunkTypeOK
  <2>2. Targets(request'[w]) = {u}
    BY <2>1 DEF Targets
  <2>3. t # u
    BY <2>1, <2>2 DEF Handles, Busy
  <2> QED
    BY <1>1, <2>3 DEF CreateTrunk, Still, registrarVars, loopVars, TrunkTypeOK
<1>2. ASSUME w \in Admins, NEW u \in Trunks, ReadTrunk(w, u)
      PROVE  Still(t)
  BY <1>2 DEF ReadTrunk, Still, registrarVars, loopVars
<1>3. ASSUME w \in Admins, ReloadTrunks(w)
      PROVE  Still(t)
  BY <1>3 DEF ReloadTrunks, Still, registrarVars, loopVars
<1>4. CASE TestTrunk(w)
  BY <1>4 DEF TestTrunk, Still, registrarVars, loopVars, historyVars
<1>5. ~ListEnabled(w)
  <2> SUFFICES ASSUME ListEnabled(w) PROVE FALSE
    OBVIOUS
  <2>1. worker[w] = "next" /\ request[w].op = "reload"
    BY TailFacts DEF ListEnabled, PlanInv, Command, TrunkTypeOK
  <2>2. t \in Targets(request[w])
    BY <2>1 DEF Targets
  <2> QED
    BY <2>1, <2>2 DEF Handles, Busy
<1>6. CASE NextCommand(w) /\ plan[w] = <<>>
  BY <1>6 DEF NextCommand, Still, registrarVars, loopVars
<1>7. CASE WorkerStep(w) /\ ~TestTrunk(w) /\ ~(NextCommand(w) /\ plan[w] = <<>>)
  <2>1. \/ worker[w] \in {"update", "refetch", "delete"}
        \/ worker[w] \in AtRegistrar /\ plan[w] # <<>> /\ Command(w).do # "list"
    BY <1>5, <1>7
    DEF WorkerStep, UpdateTrunk, Refetch, DeleteTrunk, NextCommand, TakeEntry, HaltEntry,
        Unregister, OpenTrunk, InsertEntry, PlanInv, AtRegistrar, Calling
  <2>2. Subject(w) \in Targets(request[w])
    <3>1. CASE worker[w] \in {"update", "refetch", "delete"}
      BY <3>1 DEF Subject, AtRegistrar, Calling, PlanInv, Targets
    <3>2. CASE worker[w] \in AtRegistrar /\ plan[w] # <<>> /\ Command(w).do # "list"
      <4>1. Command(w) \in Asked(plan[w])
        BY <3>2, CommandFacts
      <4> QED
        BY <3>2, <4>1 DEF Subject, PlanInv
    <3> QED
      BY <2>1, <3>1, <3>2
  <2>3. Busy(w)
    BY <2>1 DEF Busy, AtRegistrar, Calling
  <2>4. t # Subject(w)
    BY <2>2, <2>3 DEF Handles
  <2> QED
    BY <1>5, <1>7, <2>4, StillStep
<1> QED
  BY <1>1, <1>2, <1>3, <1>4, <1>5, <1>6, <1>7 DEF Acts

\* A step of a worker keeps track of every trunk.
LEMMA TrunkStep ==
  ASSUME TrunkTypeOK, PlansInv, NEW w \in Workers, Acts(w), NEW t \in Trunks,
         OwnInv(t), SerialInv(t), TrunkInv(t)
  PROVE  TrunkInv(t)'
<1> SUFFICES ASSUME t \notin contended'
             PROVE  /\ \A v \in Workers : Handles(v, t)' => Stage(v, t)'
                    /\ (\A v \in Workers : ~Handles(v, t)') => Follows(t, trunkRows[t])'
  BY DEF TrunkInv
<1>1. /\ contended \subseteq contended'
      /\ \A v \in Workers \ {w} : Handles(v, t)' <=> Handles(v, t)
      /\ Handles(w, t)' /\ ~Handles(w, t) =>
           t \in contended' \/ \A v \in Workers \ {w} : ~Handles(v, t)
  BY HandlesStep
<1>2. /\ \A v, x \in Workers : Handles(v, t) /\ Handles(x, t) => v = x
      /\ \A v \in Workers : Handles(v, t) => Stage(v, t)
      /\ (\A v \in Workers : ~Handles(v, t)) => Follows(t, trunkRows[t])
  BY <1>1 DEF SerialInv, TrunkInv
<1>3. PlanInv(w)
  BY DEF PlansInv
<1>4. CASE Handles(w, t) \/ Handles(w, t)'
  <2>1. \A v \in Workers \ {w} : ~Handles(v, t)
    BY <1>1, <1>2, <1>4
  <2>2. Handled(w, t)
    BY <1>2, <2>1 DEF Handled
  <2>3. Handled(w, t)'
    BY <1>3, <1>4, <2>2, HandledStep
  <2> QED
    BY <1>1, <2>1, <2>3 DEF Handled
<1>5. CASE ~Handles(w, t) /\ ~Handles(w, t)'
  <2>1. Still(t)
    BY <1>3, <1>5, ApartStep
  <2>2. ASSUME NEW v \in Workers, Handles(v, t)' PROVE Stage(v, t)'
    <3>1. v \in Workers \ {w} /\ Stage(v, t)
      BY <1>1, <1>2, <1>5, <2>2
    <3>2. Mine(v)
      BY <3>1, WorkersApart
    <3>3. PlanInv(v)
      BY DEF PlansInv
    <3> QED
      BY <2>1, <3>1, <3>2, <3>3, StillStage
  <2>3. ASSUME \A v \in Workers : ~Handles(v, t)' PROVE Follows(t, trunkRows[t])'
    <3>1. Follows(t, trunkRows[t])
      BY <1>1, <1>2, <1>5, <2>3
    <3> QED
      BY <2>1, <3>1, StillFollows DEF Still
  <2> QED
    BY <2>2, <2>3
<1> QED
  BY <1>4, <1>5

-----------------------------------------------------------------------------
(* The invariant.                                                          *)

TrunksInv == \A t \in Trunks : OwnInv(t) /\ SerialInv(t) /\ TrunkInv(t)

\* The loops change nothing the invariant is about.
LEMMA LoopFrame ==
  ASSUME TrunkTypeOK, (\E e \in Entries : LoopStep(e)) \/ UNCHANGED trunkVars
  PROVE  /\ UNCHANGED <<trunkRows, trunkStates, acl, workerVars, historyVars>>
         /\ \A e \in Entries : entries'[e].type = entries[e].type /\ entries'[e].ended = entries[e].ended
         /\ \A e \in Entries : Looping(e)' => Looping(e)
<1>1. ASSUME NEW e \in Entries, LoopStep(e)
      PROVE  /\ UNCHANGED <<trunkRows, trunkStates, acl, workerVars, historyVars>>
             /\ \A d \in Entries : loop'[d] = loop[d] \/ (d = e /\ loop[e] \in {"wait", "ok", "failing"})
             /\ entries' = entries \/ SetStatus(e[2], "registered") \/ SetStatus(e[2], "failed")
  BY <1>1 DEF LoopStep, SendRegister, SendOptions, ReportRegister, ReportHealth, EndLoop,
    TrunkTypeOK
<1>2. ASSUME NEW u \in Trunks, NEW status \in {"registered", "failed"}, SetStatus(u, status)
      PROVE  \A d \in Entries : entries'[d].type = entries[d].type /\ entries'[d].ended = entries[d].ended
  BY <1>2 DEF SetStatus, TrunkTypeOK
<1>3. ASSUME NEW e \in Entries, LoopStep(e)
      PROVE  /\ UNCHANGED <<trunkRows, trunkStates, acl, workerVars, historyVars>>
             /\ \A d \in Entries : entries'[d].type = entries[d].type /\ entries'[d].ended = entries[d].ended
             /\ \A d \in Entries : Looping(d)' => Looping(d)
  <2>1. e[2] \in Trunks
    BY DEF Entries
  <2> QED
    BY <1>1, <1>2, <1>3, <2>1 DEF Looping
<1>4. CASE UNCHANGED trunkVars
  BY <1>4 DEF trunkVars, registrarVars, loopVars, Looping
<1> QED
  BY <1>3, <1>4

\* What stays as it is keeps the invariant.
LEMMA FrameStep ==
  ASSUME TrunkTypeOK, PlansInv, TrunksInv,
         UNCHANGED <<trunkRows, trunkStates, acl, workerVars, historyVars>>,
         \A e \in Entries : entries'[e].type = entries[e].type
  PROVE  PlansInv' /\ TrunksInv'
<1>1. \A v \in Workers : Mine(v)
  BY DEF Mine, workerVars
<1>2. \A t \in Trunks : Still(t)
  BY DEF Still, historyVars
<1>3. ASSUME NEW v \in Workers PROVE PlanInv(v)'
  BY DEF PlansInv, PlanInv, workerVars, Command
<1>4. ASSUME NEW t \in Trunks PROVE OwnInv(t)' /\ SerialInv(t)' /\ TrunkInv(t)'
  <2>1. OwnInv(t) /\ SerialInv(t) /\ TrunkInv(t) /\ Still(t)
    BY <1>2 DEF TrunksInv
  <2>2. \A v \in Workers : Handles(v, t)' <=> Handles(v, t)
    BY DEF Handles, Busy, workerVars
  <2>3. contended' = contended
    BY DEF historyVars
  <2>4. OwnInv(t)'
    BY <2>1 DEF OwnInv, HasEntry, Current
  <2>5. SerialInv(t)'
    BY <2>1, <2>2, <2>3 DEF SerialInv
  <2>6. ASSUME NEW v \in Workers, Stage(v, t) PROVE Stage(v, t)'
    BY <1>1, <2>1, <2>6, StillStage DEF PlansInv
  <2>7. Follows(t, trunkRows[t]) => Follows(t, trunkRows[t])'
    BY <2>1, StillFollows DEF Still
  <2>8. TrunkInv(t)'
    BY <2>1, <2>2, <2>3, <2>6, <2>7 DEF TrunkInv
  <2> QED
    BY <2>4, <2>5, <2>8
<1> QED
  BY <1>3, <1>4 DEF PlansInv, TrunksInv

\* Every step keeps the invariant.
LEMMA RegistrarStep ==
  ASSUME TrunkTypeOK, PlansInv, TrunksInv, [TrunkNext]_trunkVars
  PROVE  TrunkTypeOK' /\ PlansInv' /\ TrunksInv'
<1>1. TrunkTypeOK'
  BY TypeStep
<1>2. ASSUME NEW w \in Workers, Acts(w)
      PROVE  PlansInv' /\ TrunksInv'
  <2>1. \A t \in Trunks : OwnInv(t)
    BY DEF TrunksInv
  <2>2. PlanInv(w) /\ PlanInv(w)'
    BY <1>2, <2>1, PlanStep DEF PlansInv
  <2>3. ASSUME NEW v \in Workers \ {w} PROVE PlanInv(v)'
    <3>1. Mine(v)
      BY <1>2, WorkersApart
    <3> QED
      BY <3>1 DEF PlansInv, PlanInv, Mine, Command
  <2>4. ASSUME NEW t \in Trunks PROVE OwnInv(t)' /\ SerialInv(t)' /\ TrunkInv(t)'
    <3>1. OwnInv(t) /\ SerialInv(t) /\ TrunkInv(t)
      BY DEF TrunksInv
    <3>2. OwnInv(t)'
      BY <1>2, <2>2, <3>1, OwnStep
    <3>3. SerialInv(t)'
      BY <1>2, <3>1, SerialStep
    <3>4. TrunkInv(t)'
      BY <1>2, <3>1, TrunkStep
    <3> QED
      BY <3>2, <3>3, <3>4
  <2> QED
    BY <2>2, <2>3, <2>4 DEF PlansInv, TrunksInv
<1>3. CASE (\E e \in Entries : LoopStep(e)) \/ UNCHANGED trunkVars
  <2>1. /\ UNCHANGED <<trunkRows, trunkStates, acl, workerVars, historyVars>>
        /\ \A e \in Entries : entries'[e].type = entries[e].type
    BY <1>3, LoopFrame
  <2>2. PlansInv' /\ TrunksInv'
    BY <2>1, FrameStep
  <2> QED
    BY <1>1, <2>2
<1>4. (\E w \in Workers : Acts(w)) \/ (\E e \in Entries : LoopStep(e)) \/ UNCHANGED trunkVars
  BY DEF TrunkNext, Acts, Workers
<1> QED
  BY <1>1, <1>2, <1>3, <1>4

\* It holds at the start.
LEMMA RegistrarInit == TrunkInit => TrunkTypeOK /\ PlansInv /\ TrunksInv
<1> SUFFICES ASSUME TrunkInit PROVE TrunkTypeOK /\ PlansInv /\ TrunksInv
  OBVIOUS
<1> USE DEF TrunkInit
<1> DEFINE list == [do |-> "list", trunk |-> NoRequest.trunk, type |-> AnyType]
<1>1. list \in Commands /\ list.do = "list" /\ <<list>> \in Seq(Commands)
  BY ConstantFacts DEF Commands
<1>2. plan = [w \in Workers |-> IF w = Main THEN <<list>> ELSE <<>>]
  OBVIOUS
<1>3. /\ NoEntryYet \in EntryRecords /\ Main \in Workers
      /\ \A op \in {"reload", "none"} :
           [NoRequest EXCEPT !.op = op] \in Requests /\ [NoRequest EXCEPT !.op = op].op = op
  BY ConstantFacts DEF NoEntryYet, EntryRecords, Requests, Workers
<1> HIDE DEF list
<1>4. TrunkTypeOK
  <2>1. trunkRows \in [Trunks -> TrunkRows]
    BY ConstantFacts
  <2>2. /\ trunkStates \in [Trunks -> Entries \union {NoEntry}]
        /\ taken \in [Workers -> Entries \union {NoEntry}]
    OBVIOUS
  <2>3. /\ entries \in [Entries -> EntryRecords]
        /\ loop \in [Entries -> {"none", "wait", "ok", "failing", "done"}]
    BY <1>3
  <2>4. worker \in [Workers -> WorkerLabels] /\ request \in [Workers -> Requests]
    BY <1>3 DEF WorkerLabels
  <2>5. plan \in [Workers -> Seq(Commands)]
    BY <1>1, <1>2
  <2>6. outages \in 0 .. MaxOutages
    BY TrunkAssumption
  <2>7. acl \subseteq Trunks /\ bindings \subseteq Trunks /\ contended \subseteq Trunks /\ unsynced \subseteq Trunks
    OBVIOUS
  <2> HIDE DEF TrunkInit
  <2> QED
    BY <2>1, <2>2, <2>3, <2>4, <2>5, <2>6, <2>7 DEF TrunkTypeOK, EntryRecords, WorkerLabels, Requests
<1>5. /\ \A w \in Workers \ {Main} : worker[w] = "idle" /\ plan[w] = <<>>
      /\ worker[Main] = "next" /\ plan[Main] = <<list>> /\ request[Main].op = "reload"
  BY <1>2, <1>3
<1>6. Asked(<<list>>) = {list} /\ Len(<<list>>) = 1 /\ <<list>>[1] = list
  BY DEF Asked
<1>7. PlansInv
  <2>1. PlanInv(Main)
    <3> HIDE DEF TrunkInit
    <3>1. \A i \in 1 .. Len(plan[Main]) : plan[Main][i].do = "list"
      BY <1>1, <1>5, <1>6
    <3>2. \A a \in Asked(plan[Main]) : a.do = "list"
      BY <1>1, <1>5, <1>6
    <3> QED
      BY <1>5, <3>1, <3>2 DEF PlanInv, AtRegistrar, Calling
  <2>2. ASSUME NEW w \in Workers \ {Main} PROVE PlanInv(w)
    BY <1>5, EmptyFacts DEF PlanInv, AtRegistrar, Calling
  <2> HIDE DEF TrunkInit
  <2> QED
    BY <2>1, <2>2 DEF PlansInv
<1>8. ASSUME NEW t \in Trunks PROVE OwnInv(t) /\ SerialInv(t) /\ TrunkInv(t)
  <2>1. ~HasEntry(t) /\ Listed(t)
    BY DEF HasEntry, Listed, ByAddress
  <2>2. Handles(Main, t) /\ \A w \in Workers \ {Main} : ~Handles(w, t)
    BY <1>3, <1>5 DEF Handles, Busy, Targets
  <2>3. ~Stops(Main, t) /\ ~Starts(Main, t) /\ Lists(Main)
    BY <1>1, <1>5, <1>6 DEF Stops, Starts, Lists
  <2>4. PlanStage(Main, t)
    BY <2>1, <2>3 DEF PlanStage, Starts
  <2>5. Stage(Main, t)
    BY <1>5, <2>1, <2>4 DEF Stage, CallStage, Calling
  <2> HIDE DEF TrunkInit
  <2> QED
    BY <1>3, <2>1, <2>2, <2>5 DEF OwnInv, SerialInv, TrunkInv
<1> HIDE DEF TrunkInit
<1> QED
  BY <1>4, <1>7, <1>8 DEF TrunksInv

LEMMA RegistrarInvariance == TrunkSpec => [](TrunkTypeOK /\ PlansInv /\ TrunksInv)
<1>1. TrunkInit => TrunkTypeOK /\ PlansInv /\ TrunksInv
  BY RegistrarInit
<1>2. (TrunkTypeOK /\ PlansInv /\ TrunksInv) /\ [TrunkNext]_trunkVars
      => (TrunkTypeOK /\ PlansInv /\ TrunksInv)'
  BY RegistrarStep
<1> QED
  BY <1>1, <1>2, PTL DEF TrunkSpec

\* The state of every component of the registrar has its type.
THEOREM RegistrarTypeInvariance == TrunkSpec => []TrunkTypeOK
BY RegistrarInvariance, PTL

\* When admin requests about a trunk come one at a time and none gives up half
\* way, the registrar has the entry its row asks for, and the matcher its
\* addresses (handleUpdateTrunk, handleDeleteTrunk, Reload, StopTrunk).
THEOREM RowsFollowed == TrunkSpec => []RegistrarFollowsRows
<1>1. TrunkTypeOK /\ PlansInv /\ TrunksInv => RegistrarFollowsRows
  <2> SUFFICES ASSUME TrunksInv, NEW t \in Trunks, Settled(t) PROVE Follows(t, trunkRows[t])
    BY DEF RegistrarFollowsRows, Follows, Listed, ByAddress, MatchIPTrunk
  <2>1. t \notin contended /\ \A w \in Workers : ~Handles(w, t)
    BY DEF Settled, Handles
  <2> QED
    BY <2>1 DEF TrunksInv, TrunkInv
<1> QED
  BY <1>1, RegistrarInvariance, PTL

-----------------------------------------------------------------------------
(* The loops.                                                              *)

\* The loop is the trunk's, or its trunk is being stopped.
Owned(e) == Current(e[2]) = e \/ \E w \in Workers : taken[w] = e /\ worker[w] = "halt"

\* A step of a worker leaves no loop behind.
LEMMA OwnedStep ==
  ASSUME TrunkTypeOK, PlansInv, TrunksInv, NEW w \in Workers, Acts(w), NEW e \in Entries,
         Looping(e) /\ ~entries[e].ended /\ e[2] \notin contended => Owned(e),
         Looping(e)', ~entries'[e].ended, e[2] \notin contended'
  PROVE  Owned(e)'
<1>1. e[2] \in Trunks /\ e[2] \notin contended
  BY HandlesStep DEF Entries
<1>2. \A v \in Workers \ {w} : Mine(v)
  BY WorkersApart
<1>3. ASSUME NEW v \in Workers \ {w}, taken[v] = e, worker[v] = "halt" PROVE Owned(e)'
  BY <1>2, <1>3 DEF Owned, Mine
<1>4. CASE TakeEntry(w)
  <2> DEFINE t == Command(w).trunk
  <2>1. /\ worker[w] = "take" /\ taken'[w] = trunkStates[t] /\ UNCHANGED <<loop, entries>>
        /\ trunkStates' = [trunkStates EXCEPT ![t] = NoEntry]
        /\ HasEntry(t) => worker'[w] = "halt"
    BY <1>4 DEF TakeEntry, Current, WorkerGoes, loopVars, TrunkTypeOK
  <2>2. Owned(e)
    BY <1>1, <2>1 DEF Looping
  <2>3. CASE Current(e[2]) = e
    <3>1. e # NoEntry
      BY TrunkAssumption
    <3>2. CASE e[2] = t
      BY <2>1, <2>3, <3>1, <3>2 DEF Owned, HasEntry, Current
    <3>3. CASE e[2] # t
      BY <1>1, <2>1, <2>3, <3>3 DEF Owned, Current, TrunkTypeOK
    <3> QED
      BY <3>2, <3>3
  <2> QED
    BY <1>3, <2>1, <2>2, <2>3 DEF Owned
<1>5. CASE HaltEntry(w)
  <2>1. /\ worker[w] = "halt" /\ UNCHANGED <<loop, trunkStates>>
        /\ entries' = [entries EXCEPT ![taken[w]].ended = TRUE]
    BY <1>5 DEF HaltEntry
  <2>2. e # taken[w] /\ entries'[e].ended = entries[e].ended
    BY <2>1 DEF TrunkTypeOK
  <2>3. Owned(e)
    BY <1>1, <2>1, <2>2 DEF Looping
  <2> QED
    BY <1>3, <2>1, <2>2, <2>3 DEF Owned, Current
<1>6. CASE InsertEntry(w)
  <2> DEFINE t == Command(w).trunk
             mine == <<w, t>>
  <2>1. plan[w] # <<>> /\ Command(w).do = "start" /\ worker[w] = "insert"
    BY <1>6 DEF InsertEntry, PlansInv, PlanInv, Calling
  <2>2. Command(w) \in Asked(plan[w]) /\ t \in Trunks
    BY <2>1, CommandFacts DEF PlansInv
  <2>3. Handles(w, t)
    BY <2>1, <2>2 DEF PlansInv, PlanInv, Handles, Busy
  <2>4. t \notin contended => ~HasEntry(t)
    BY <2>1, <2>2, <2>3 DEF TrunksInv, TrunkInv, Stage, CallStage, AtRegistrar, Calling
  <2>5. mine \in Entries
    BY <2>2 DEF Entries
  <2>6. \/ UNCHANGED <<trunkStates, entries, loop>>
        \/ /\ trunkStates' = [trunkStates EXCEPT ![t] = mine]
           /\ \A d \in Entries \ {mine} : entries'[d] = entries[d] /\ loop'[d] = loop[d]
    BY <1>6, <2>5 DEF InsertEntry, TrunkTypeOK
  <2>7. CASE UNCHANGED <<trunkStates, entries, loop>>
    <3>1. Owned(e)
      BY <1>1, <2>7 DEF Looping
    <3> QED
      BY <1>3, <2>1, <2>7, <3>1 DEF Owned, Current
  <2>8. CASE /\ trunkStates' = [trunkStates EXCEPT ![t] = mine]
             /\ \A d \in Entries \ {mine} : entries'[d] = entries[d] /\ loop'[d] = loop[d]
    <3>1. CASE e = mine
      <4>1. e[2] = t
        BY <3>1
      <4>2. trunkStates'[t] = e
        BY <2>2, <2>8, <3>1 DEF TrunkTypeOK
      <4> QED
        BY <4>1, <4>2 DEF Owned, Current
    <3>2. CASE e # mine
      <4>1. entries'[e] = entries[e] /\ loop'[e] = loop[e]
        BY <2>8, <3>2
      <4>2. Owned(e)
        BY <1>1, <4>1 DEF Looping
      <4>3. CASE Current(e[2]) = e
        <5>1. e # NoEntry
          BY TrunkAssumption
        <5>2. e[2] # t
          BY <1>1, <2>4, <4>3, <5>1 DEF HasEntry, Current
        <5>3. trunkStates'[e[2]] = trunkStates[e[2]]
          BY <1>1, <2>8, <5>2 DEF TrunkTypeOK
        <5> QED
          BY <4>3, <5>3 DEF Owned, Current
      <4> QED
        BY <1>3, <2>1, <4>2, <4>3 DEF Owned
    <3> QED
      BY <3>1, <3>2
  <2> QED
    BY <2>6, <2>7, <2>8
<1>7. CASE ~TakeEntry(w) /\ ~HaltEntry(w) /\ ~InsertEntry(w)
  <2>1. UNCHANGED <<trunkStates, loop>> /\ worker[w] # "halt"
    BY <1>7
    DEF Acts, CreateTrunk, ReadTrunk, ReloadTrunks, Begin, WorkerStep, UpdateTrunk, TestTrunk,
        Refetch, DeleteTrunk, ListEnabled, NextCommand, Unregister, OpenTrunk,
        registrarVars, loopVars
  <2>2. entries'[e].ended = entries[e].ended
    <3>1. CASE Unregister(w)
      BY <3>1 DEF Unregister, TrunkTypeOK
    <3>2. CASE ~Unregister(w)
      <4>1. entries' = entries
        BY <1>7, <3>2
        DEF Acts, CreateTrunk, ReadTrunk, ReloadTrunks, WorkerStep, UpdateTrunk, TestTrunk,
            Refetch, DeleteTrunk, ListEnabled, NextCommand, OpenTrunk, registrarVars, loopVars
      <4> QED
        BY <4>1
    <3> QED
      BY <3>1, <3>2
  <2>3. Owned(e)
    BY <1>1, <2>1, <2>2 DEF Looping
  <2> QED
    BY <1>3, <2>1, <2>3 DEF Owned, Current
<1> QED
  BY <1>4, <1>5, <1>6, <1>7

\* A loop whose context has not ended belongs to the entry in the map or to one
\* a StopTrunk is taking down, unless two requests for the trunk ran at once
\* (StartTrunk, StartHealthCheck, StopTrunk).
THEOREM NoLoopLeftBehind == TrunkSpec => []LoopsOwned
<1>1. TrunkInit => LoopsOwned
  BY DEF TrunkInit, LoopsOwned, Looping
<1>2. TrunkTypeOK /\ PlansInv /\ TrunksInv /\ LoopsOwned /\ [TrunkNext]_trunkVars => LoopsOwned'
  <2> SUFFICES ASSUME TrunkTypeOK, PlansInv, TrunksInv, LoopsOwned, [TrunkNext]_trunkVars,
                      NEW e \in Entries, Looping(e)', ~entries'[e].ended, e[2] \notin contended'
               PROVE  Owned(e)'
    BY DEF LoopsOwned, Owned
  <2>1. Looping(e) /\ ~entries[e].ended /\ e[2] \notin contended => Owned(e)
    BY DEF LoopsOwned, Owned
  <2>2. CASE \E w \in Workers : Acts(w)
    BY <2>1, <2>2, OwnedStep
  <2>3. CASE (\E d \in Entries : LoopStep(d)) \/ UNCHANGED trunkVars
    <3>1. /\ UNCHANGED <<trunkStates, worker, taken, contended>>
          /\ entries'[e].ended = entries[e].ended /\ Looping(e)
      BY <2>3, LoopFrame DEF workerVars, historyVars
    <3>2. Owned(e)
      BY <2>1, <3>1
    <3> QED
      BY <3>1, <3>2 DEF Owned, Current
  <2> QED
    BY <2>2, <2>3 DEF TrunkNext, Acts, Workers
<1> QED
  BY <1>1, <1>2, RegistrarInvariance, PTL DEF TrunkSpec

=============================================================================
