-------------------------- MODULE VoicemailProofs --------------------------
(***************************************************************************)
(* Theorems about Voicemail, for any callers, limit, file names and faults. *)
(***************************************************************************)
EXTENDS Voicemail, FiniteSetTheorems, TLAPS

\* The deposits that have come past messages.Create.
Past == {d \in Depositors : doing[d] \in {"count", "notify", "done"}}

\* A message is stored once, by its deposit; only stored ones grow old.
RowsInv == rows \subseteq Past /\ old \subseteq rows

\* While nobody has stored behind another's count, whoever has counted has room.
LimitInv ==
  BoxLimit > 0 /\ ~overlapped =>
    Cardinality(rows) <= BoxLimit /\ (Counted # {} => Cardinality(rows) < BoxLimit)

\* While nothing was read or lost, every deposit past Create is new in the box,
\* so each count finds it and each NOTIFY says so.
LampInv ==
  ~changed => /\ read = {} /\ rows = Past
              /\ \A d \in Depositors :
                   /\ doing[d] = "notify" => tally[d] > 0
                   /\ doing[d] = "done" => lamp

\* The recording of a message is there from Record on; a file that is about to
\* be removed has lost its row.
AudioInv ==
  /\ \A d \in Depositors : d \in rows \/ doing[d] = "store" => stamp[d] \in files \/ SharesFile(d)
  /\ asked.what = "delete" => asked.message \in Past
  /\ asked.what = "unlink" => asked.message \in Past \ rows
  /\ sweep = "idle" => paths = {}
  /\ \A p \in paths : \E d \in Past :
       stamp[d] = p /\ (d \notin rows \/ (sweep = "delete" /\ d \in old))

-----------------------------------------------------------------------------
(* Type correctness.                                                       *)

LEMMA VoicemailInitType == VoicemailInit => VoicemailTypeOK
<1> SUFFICES ASSUME VoicemailInit PROVE VoicemailTypeOK
  OBVIOUS
<1>1. Cardinality(Depositors) \in Nat
  BY FS_CardinalityType, VoicemailAssumption DEF VoicemailAssumption
<1>2. tally \in [Depositors -> 0 .. Cardinality(Depositors)]
  BY <1>1 DEF VoicemailInit
<1>3. asked \in [what : {"none", "mark", "delete", "unlink"}, message : Depositors]
  BY VoicemailAssumption DEF VoicemailAssumption, VoicemailInit, NothingAsked
<1> QED BY <1>2, <1>3 DEF VoicemailInit, VoicemailTypeOK

LEMMA NothingAskedType ==
  NothingAsked \in [what : {"none", "mark", "delete", "unlink"}, message : Depositors]
BY VoicemailAssumption DEF VoicemailAssumption, NothingAsked

LEMMA TallyType ==
  ASSUME VoicemailTypeOK, NEW d \in Depositors
  PROVE  Cardinality(rows \ read) \in 0 .. Cardinality(Depositors)
<1>1. IsFiniteSet(Depositors) /\ rows \ read \subseteq Depositors
  BY VoicemailAssumption DEF VoicemailAssumption, VoicemailTypeOK
<1>2. IsFiniteSet(rows \ read) /\ Cardinality(rows \ read) <= Cardinality(Depositors)
  BY <1>1, FS_Subset
<1> QED BY <1>1, <1>2, FS_CardinalityType

LEMMA VoicemailTypeStep ==
  ASSUME VoicemailTypeOK, [VoicemailNext]_voicemailVars
  PROVE  VoicemailTypeOK'
<1> USE DEF VoicemailTypeOK
<1> USE DEF boxVars, depositVars, adminVars, voicemailHistory, Does
<1>1. ASSUME NEW d \in Depositors, CheckBox(d) PROVE VoicemailTypeOK'
  BY <1>1 DEF CheckBox
<1>2. ASSUME NEW d \in Depositors, Record(d) PROVE VoicemailTypeOK'
  BY <1>2 DEF Record, RecordMessage
<1>3. ASSUME NEW d \in Depositors, StoreMessage(d) PROVE VoicemailTypeOK'
  <2>1. /\ rows' \subseteq Depositors /\ doing' = [doing EXCEPT ![d] = "count"]
        /\ UNCHANGED <<box, read, old, files, stamp, tally, lamp, asked, sweep, paths>>
    BY <1>3 DEF StoreMessage
  <2>2. overlapped' \in BOOLEAN
    <3>1. overlapped' = (overlapped \/ Counted # {d}) \/ overlapped' = overlapped
      BY <1>3 DEF StoreMessage
    <3> QED BY <3>1
  <2>3. changed' \in BOOLEAN
    BY <1>3 DEF StoreMessage
  <2> QED BY <2>1, <2>2, <2>3
<1>4. ASSUME NEW d \in Depositors, CountNew(d) PROVE VoicemailTypeOK'
  BY <1>4, TallyType DEF CountNew, NotifyTally
<1>5. ASSUME NEW d \in Depositors, NotifyPhone(d) PROVE VoicemailTypeOK'
  <2>1. lamp' \in BOOLEAN
    <3> DEFINE new == tally[d] > 0
    <3>1. (lamp' = new) \/ UNCHANGED lamp
      BY <1>5 DEF NotifyPhone
    <3>2. new \in BOOLEAN
      OBVIOUS
    <3> HIDE DEF new
    <3> QED BY <3>1, <3>2
  <2>2. /\ doing' = [doing EXCEPT ![d] = "done"]
        /\ UNCHANGED <<boxVars, stamp, tally, adminVars, overlapped>>
        /\ changed' = TRUE \/ changed' = changed
    BY <1>5 DEF NotifyPhone
  <2> QED BY <2>1, <2>2
<1>6. ASSUME NEW d \in Depositors, FindMessage(d) PROVE VoicemailTypeOK'
  BY <1>6 DEF FindMessage, Asks
<1>7. CASE MarkRead
  BY <1>7, NothingAskedType DEF MarkRead
<1>8. CASE DeleteRow
  BY <1>8 DEF DeleteRow, RemovedRow, Forget, Asks
<1>9. CASE RemoveFile
  BY <1>9, NothingAskedType DEF RemoveFile
<1>10. CASE DeleteBox
  BY <1>10 DEF DeleteBox
<1>11. CASE Age
  BY <1>11 DEF Age
<1>12. CASE SelectOld
  BY <1>12 DEF SelectOld
<1>13. CASE DeleteOld
  BY <1>13 DEF DeleteOld, Forget
<1>14. CASE RemoveOldFiles
  BY <1>14 DEF RemoveOldFiles
<1>15. CASE UNCHANGED voicemailVars
  BY <1>15 DEF voicemailVars
<1> QED
  BY <1>1, <1>2, <1>3, <1>4, <1>5, <1>6, <1>7, <1>8, <1>9, <1>10, <1>11, <1>12, <1>13, <1>14, <1>15
     DEF VoicemailNext, DepositStep

\* The variables keep their types (VoicemailInit, VoicemailNext).
THEOREM VoicemailTypeCorrect == VoicemailSpec => []VoicemailTypeOK
<1>1. VoicemailTypeOK /\ [VoicemailNext]_voicemailVars => VoicemailTypeOK'
  BY VoicemailTypeStep
<1> QED BY <1>1, VoicemailInitType, PTL DEF VoicemailSpec

-----------------------------------------------------------------------------
(* The rows and the deposits.                                              *)

\* The steps of a deposit, by what they do to its label.
LEMMA DepositLabels ==
  ASSUME VoicemailTypeOK, NEW d \in Depositors, DepositStep(d)
  PROVE  /\ UNCHANGED <<box, read, old, stamp, adminVars>>
         /\ \/ /\ doing[d] = "new" /\ doing' = [doing EXCEPT ![d] = "record"] /\ ~BoxFull
               /\ UNCHANGED <<rows, files, tally, lamp, voicemailHistory>>
            \/ /\ doing[d] \in {"new", "record"} /\ doing' = [doing EXCEPT ![d] = "failed"]
               /\ UNCHANGED <<rows, files, tally, lamp, voicemailHistory>>
            \/ /\ doing[d] = "record" /\ doing' = [doing EXCEPT ![d] = "store"]
               /\ files' = files \union {stamp[d]}
               /\ UNCHANGED <<rows, tally, lamp, voicemailHistory>>
            \/ /\ doing[d] = "store" /\ doing' = [doing EXCEPT ![d] = "count"]
               /\ \/ rows' = rows \union {d} /\ overlapped' = (overlapped \/ Counted # {d}) /\ UNCHANGED changed
                  \/ changed' = TRUE /\ UNCHANGED <<rows, overlapped>>
               /\ UNCHANGED <<files, tally, lamp>>
            \/ /\ doing[d] = "count" /\ doing' = [doing EXCEPT ![d] = "notify"]
               /\ tally' = [tally EXCEPT ![d] = Cardinality(rows \ read)]
               /\ UNCHANGED <<rows, files, lamp, voicemailHistory>>
            \/ /\ doing[d] = "count" /\ doing' = [doing EXCEPT ![d] = "done"]
               /\ changed' = TRUE /\ UNCHANGED <<rows, files, tally, lamp, overlapped>>
            \/ /\ doing[d] = "notify" /\ doing' = [doing EXCEPT ![d] = "done"]
               /\ \/ lamp' = (tally[d] > 0) /\ UNCHANGED changed
                  \/ changed' = TRUE /\ UNCHANGED lamp
               /\ UNCHANGED <<rows, files, tally, overlapped>>
<1> USE DEF boxVars, depositVars, adminVars, voicemailHistory, Does
<1>1. CASE CheckBox(d)
  BY <1>1 DEF CheckBox
<1>2. CASE Record(d)
  BY <1>2 DEF Record, RecordMessage
<1>3. CASE StoreMessage(d)
  BY <1>3 DEF StoreMessage
<1>4. CASE CountNew(d)
  BY <1>4 DEF CountNew, NotifyTally
<1>5. CASE NotifyPhone(d)
  BY <1>5 DEF NotifyPhone
<1> QED BY <1>1, <1>2, <1>3, <1>4, <1>5 DEF DepositStep

\* The administrator and the retention, by what they do to the box.
LEMMA OtherSteps ==
  ASSUME VoicemailTypeOK, [VoicemailNext]_voicemailVars
  PROVE  \/ \E d \in Depositors : DepositStep(d)
         \/ /\ UNCHANGED <<stamp, doing, tally, lamp, overlapped>>
            /\ \/ UNCHANGED <<rows, read, old, changed>>
               \/ changed' = TRUE /\ \E ds \in SUBSET Depositors : rows' = rows \ ds /\ old' = old \ ds
               \/ UNCHANGED <<rows, read, changed>> /\ \E d \in rows : old' = old \union {d}
<1> USE DEF boxVars, depositVars, adminVars, voicemailHistory, VoicemailTypeOK
<1>1. CASE MarkRead
  <2>1. rows' = rows \ {} /\ old' = old \ {}
    BY <1>1 DEF MarkRead
  <2> QED BY <1>1, <2>1 DEF MarkRead
<1>2. CASE DeleteRow
  <2>1. rows' = rows \ {asked.message} /\ old' = old \ {asked.message} /\ {asked.message} \in SUBSET Depositors
    BY <1>2 DEF DeleteRow, RemovedRow, Forget
  <2> QED BY <1>2, <2>1 DEF DeleteRow
<1>3. CASE DeleteOld
  <2>1. rows' = rows \ old /\ old' = old \ old
    BY <1>3 DEF DeleteOld, Forget
  <2> QED BY <1>3, <2>1 DEF DeleteOld
<1>4. CASE Age
  BY <1>4 DEF Age
<1>5. CASE (\E d \in Depositors : FindMessage(d)) \/ RemoveFile \/ DeleteBox \/ SelectOld \/ RemoveOldFiles
           \/ UNCHANGED voicemailVars
  BY <1>5 DEF FindMessage, RemoveFile, DeleteBox, SelectOld, RemoveOldFiles, voicemailVars
<1> QED BY <1>1, <1>2, <1>3, <1>4, <1>5 DEF VoicemailNext

LEMMA RowsStep ==
  ASSUME VoicemailTypeOK, RowsInv, [VoicemailNext]_voicemailVars
  PROVE  RowsInv' /\ Past \subseteq Past'
<1> USE DEF VoicemailTypeOK, RowsInv, Past
<1>1. ASSUME NEW d \in Depositors, DepositStep(d) PROVE RowsInv' /\ Past \subseteq Past'
  <2>1. old' = old /\ rows \subseteq rows'
    BY <1>1, DepositLabels
  <2>2. Past \subseteq Past'
    BY <1>1, DepositLabels
  <2>3. rows' \subseteq Past'
    <3>1. CASE UNCHANGED rows
      BY <2>2, <3>1
    <3>2. CASE rows' = rows \union {d} /\ doing' = [doing EXCEPT ![d] = "count"]
      BY <2>2, <3>2
    <3> QED BY <1>1, <3>1, <3>2, DepositLabels
  <2> QED BY <2>1, <2>2, <2>3
<1> QED BY <1>1, OtherSteps

-----------------------------------------------------------------------------
(* The limit.                                                              *)

LEMMA RowsFinite == VoicemailTypeOK => IsFiniteSet(rows) /\ Cardinality(rows) \in Nat
BY FS_Subset, FS_CardinalityType, VoicemailAssumption DEF VoicemailAssumption, VoicemailTypeOK

LEMMA LimitStep ==
  ASSUME VoicemailTypeOK, LimitInv, [VoicemailNext]_voicemailVars
  PROVE  LimitInv'
<1>0. VoicemailTypeOK'
  BY VoicemailTypeStep
<1>1. ASSUME rows' \subseteq rows, UNCHANGED overlapped, Counted' \subseteq Counted PROVE LimitInv'
  <2>1. Cardinality(rows') <= Cardinality(rows) /\ Cardinality(rows) \in Nat /\ Cardinality(rows') \in Nat
    BY <1>1, RowsFinite, <1>0, FS_Subset, FS_CardinalityType
  <2> QED BY <1>1, <2>1, VoicemailAssumption DEF VoicemailAssumption, LimitInv
<1>2. ASSUME NEW d \in Depositors, DepositStep(d) PROVE LimitInv'
  <2>1. CASE ~BoxFull /\ UNCHANGED <<rows, overlapped>>
    BY <2>1, RowsFinite, VoicemailAssumption DEF VoicemailAssumption, LimitInv, BoxFull
  <2>2. CASE doing[d] = "store" /\ rows' = rows \union {d} /\ overlapped' = (overlapped \/ Counted # {d})
             /\ doing' = [doing EXCEPT ![d] = "count"]
    <3> SUFFICES ASSUME BoxLimit > 0, ~overlapped'
                 PROVE  Cardinality(rows') <= BoxLimit /\ Counted' = {}
      BY DEF LimitInv
    <3>1. Counted = {d} /\ ~overlapped
      BY <2>2
    <3>2. Cardinality(rows) < BoxLimit
      BY <3>1 DEF LimitInv
    <3>3. Cardinality(rows') <= Cardinality(rows) + 1
      <4>1. rows' = rows \union {d} /\ IsFiniteSet(rows)
        BY <2>2, RowsFinite
      <4>2. Cardinality(rows') = Cardinality(rows) \/ Cardinality(rows') = Cardinality(rows) + 1
        BY <4>1, FS_AddElement
      <4> QED BY <4>2, RowsFinite
    <3>4. Counted' = {}
      BY <2>2, <3>1 DEF Counted, VoicemailTypeOK
    <3>5. IsFiniteSet(rows') /\ Cardinality(rows') \in Nat
      BY <2>2, RowsFinite, FS_AddElement, FS_CardinalityType
    <3>6. Cardinality(rows') <= BoxLimit
      BY <3>2, <3>3, <3>5, RowsFinite, VoicemailAssumption DEF VoicemailAssumption
    <3> QED BY <3>4, <3>6
  <2>3. CASE /\ UNCHANGED <<rows, overlapped>>
             /\ \/ \E l \in {"failed", "count", "notify", "done"} : doing' = [doing EXCEPT ![d] = l]
                \/ doing[d] = "record" /\ doing' = [doing EXCEPT ![d] = "store"]
    <3>1. Counted' \subseteq Counted
      BY <2>3 DEF Counted, VoicemailTypeOK
    <3> QED BY <1>1, <2>3, <3>1
  <2> QED BY <1>2, <2>1, <2>2, <2>3, DepositLabels DEF voicemailHistory
<1>3. CASE UNCHANGED <<doing, overlapped>> /\ rows' \subseteq rows
  BY <1>1, <1>3 DEF Counted
<1> QED BY <1>2, <1>3, OtherSteps

\* The box keeps to its limit, for any number of callers and any deletions, as
\* long as no message is stored behind another caller's count.
THEOREM LimitKept == VoicemailSpec => []BoxWithinLimit
<1>1. VoicemailInit => VoicemailTypeOK /\ LimitInv
  <2> SUFFICES ASSUME VoicemailInit PROVE LimitInv
    BY VoicemailInitType
  <2>1. rows = {} /\ Counted = {}
    BY DEF VoicemailInit, Counted
  <2> QED BY <2>1, FS_EmptySet, VoicemailAssumption DEF VoicemailAssumption, LimitInv
<1>2. VoicemailTypeOK /\ LimitInv /\ [VoicemailNext]_voicemailVars => VoicemailTypeOK' /\ LimitInv'
  BY VoicemailTypeStep, LimitStep
<1>3. LimitInv => BoxWithinLimit
  BY DEF LimitInv, BoxWithinLimit
<1> QED BY <1>1, <1>2, <1>3, PTL DEF VoicemailSpec

-----------------------------------------------------------------------------
(* The lamp.                                                               *)

LEMMA LampStep ==
  ASSUME VoicemailTypeOK, LampInv, [VoicemailNext]_voicemailVars
  PROVE  LampInv'
<1>1. CASE changed'
  BY <1>1 DEF LampInv
<1>2. ASSUME ~changed', NEW d \in Depositors, DepositStep(d) PROVE LampInv'
  <2>0. UNCHANGED read
    BY <1>2, DepositLabels
  <2>1. CASE /\ UNCHANGED <<rows, tally, lamp, changed>>
             /\ \/ doing[d] = "new" /\ doing' = [doing EXCEPT ![d] = "record"]
                \/ doing[d] \in {"new", "record"} /\ doing' = [doing EXCEPT ![d] = "failed"]
                \/ doing[d] = "record" /\ doing' = [doing EXCEPT ![d] = "store"]
    BY <1>2, <2>0, <2>1 DEF LampInv, VoicemailTypeOK, Past
  <2>2. CASE /\ doing[d] = "store" /\ doing' = [doing EXCEPT ![d] = "count"]
             /\ rows' = rows \union {d} /\ UNCHANGED <<tally, lamp, changed>>
    <3>1. Past' = Past \union {d}
      BY <2>2 DEF VoicemailTypeOK, Past
    <3> QED BY <1>2, <2>0, <2>2, <3>1 DEF LampInv, VoicemailTypeOK
  <2>3. CASE /\ doing[d] = "count" /\ doing' = [doing EXCEPT ![d] = "notify"]
             /\ tally' = [tally EXCEPT ![d] = Cardinality(rows \ read)] /\ UNCHANGED <<rows, lamp, changed>>
    <3>1. d \in rows /\ read = {}
      BY <1>2, <2>3 DEF LampInv, Past
    <3>2. Cardinality(rows \ read) > 0
      <4>1. rows \ read # {} /\ IsFiniteSet(rows \ read)
        BY <3>1, RowsFinite, FS_Subset
      <4> QED BY <4>1, FS_EmptySet, FS_CardinalityType
    <3>3. Past' = Past
      BY <2>3 DEF VoicemailTypeOK, Past
    <3> QED BY <1>2, <2>0, <2>3, <3>2, <3>3 DEF LampInv, VoicemailTypeOK
  <2>4. CASE /\ doing[d] = "notify" /\ doing' = [doing EXCEPT ![d] = "done"]
             /\ lamp' = (tally[d] > 0) /\ UNCHANGED <<rows, tally, changed>>
    <3>1. tally[d] > 0
      BY <1>2, <2>4 DEF LampInv
    <3>2. lamp'
      BY <2>4, <3>1
    <3>3. Past' = Past
      BY <2>4 DEF VoicemailTypeOK, Past
    <3> QED BY <1>2, <2>0, <2>4, <3>2, <3>3 DEF LampInv, VoicemailTypeOK
  <2> QED BY <1>2, <2>1, <2>2, <2>3, <2>4, DepositLabels DEF voicemailHistory
<1>3. CASE UNCHANGED <<rows, read, doing, tally, lamp, changed>>
  BY <1>3 DEF LampInv, Past
<1> QED BY <1>1, <1>2, <1>3, OtherSteps

\* Whatever order the NOTIFYs of any number of callers are sent in, after one of
\* them the lamp is on, as long as nothing was read, removed or lost (sendMWI).
THEOREM LampSound == VoicemailSpec => []LampTellsNew
<1>1. VoicemailInit => VoicemailTypeOK /\ LampInv
  BY VoicemailInitType DEF VoicemailInit, LampInv, Past
<1>2. VoicemailTypeOK /\ LampInv /\ [VoicemailNext]_voicemailVars => VoicemailTypeOK' /\ LampInv'
  BY VoicemailTypeStep, LampStep
<1>3. LampInv => LampTellsNew
  BY DEF LampInv, LampTellsNew
<1> QED BY <1>1, <1>2, <1>3, PTL DEF VoicemailSpec

-----------------------------------------------------------------------------
(* The recordings.                                                         *)

\* A file goes with messages of its name that are past, and have no row: whoever
\* still needs it shares its name with one of them.
LEMMA FilesRemoved ==
  ASSUME AudioInv, RowsInv, NEW gone, files' = files \ gone, UNCHANGED <<rows, stamp, doing>>,
         \A p \in gone : \E d \in Past \ rows : stamp[d] = p
  PROVE  \A d \in Depositors : d \in rows \/ doing[d] = "store" => stamp[d] \in files' \/ SharesFile(d)
<1> SUFFICES ASSUME NEW d \in Depositors, d \in rows \/ doing[d] = "store", stamp[d] \in gone
             PROVE  SharesFile(d)
  BY DEF AudioInv
<1>1. PICK other \in Past \ rows : stamp[other] = stamp[d]
  OBVIOUS
<1>2. other \in Depositors \ {d}
  BY <1>1 DEF Past
<1> QED BY <1>1, <1>2 DEF SharesFile

LEMMA AudioStep ==
  ASSUME VoicemailTypeOK, RowsInv, AudioInv, [VoicemailNext]_voicemailVars
  PROVE  AudioInv'
<1> USE DEF VoicemailTypeOK, boxVars, depositVars, adminVars, voicemailHistory
<1>0. RowsInv' /\ Past \subseteq Past'
  BY RowsStep
<1>1. ASSUME NEW d \in Depositors, DepositStep(d) PROVE AudioInv'
  <2>1. UNCHANGED <<old, stamp, asked, sweep, paths>> /\ files \subseteq files'
    BY <1>1, DepositLabels
  <2>2. \A e \in Depositors : SharesFile(e)' = SharesFile(e)
    BY <2>1 DEF SharesFile
  <2>3. rows' \subseteq rows \union {d} /\ (d \in rows' \ rows => doing[d] = "store")
    BY <1>1, DepositLabels
  <2>4. \A e \in Depositors : doing'[e] = "store" => doing[e] = "store" \/ (e = d /\ stamp[d] \in files')
    <3>1. CASE \E l \in {"record", "failed", "count", "notify", "done"} : doing' = [doing EXCEPT ![d] = l]
      BY <3>1
    <3>2. CASE doing' = [doing EXCEPT ![d] = "store"] /\ files' = files \union {stamp[d]}
      BY <3>2
    <3> QED BY <1>1, <3>1, <3>2, DepositLabels
  <2>5. \A e \in Past : e \notin rows => e \notin rows'
    BY <2>3 DEF Past
  <2>6. \A e \in Depositors : e \in rows' \/ doing'[e] = "store" => stamp[e] \in files' \/ SharesFile(e)
    BY <2>1, <2>3, <2>4 DEF AudioInv
  <2> QED BY <1>0, <2>1, <2>2, <2>5, <2>6 DEF AudioInv
<1>2. ASSUME NEW d \in Depositors, FindMessage(d) PROVE AudioInv'
  <2>1. UNCHANGED <<rows, old, stamp, doing, files, sweep, paths>> /\ d \in Past
    BY <1>2 DEF FindMessage, RowsInv
  <2>2. asked'.what \in {"delete", "mark"} /\ asked'.message = d
    BY <1>2 DEF FindMessage, Asks
  <2> QED BY <2>1, <2>2 DEF AudioInv, Past, SharesFile
<1>3. CASE MarkRead
  BY <1>3 DEF MarkRead, NothingAsked, AudioInv, Past, SharesFile
<1>4. CASE DeleteRow
  <2>1. /\ asked.what = "delete" /\ rows' = rows \ {asked.message} /\ old' = old \ {asked.message}
        /\ asked' = [what |-> "unlink", message |-> asked.message]
        /\ UNCHANGED <<files, stamp, doing, sweep, paths>>
    BY <1>4 DEF DeleteRow, RemovedRow, Forget, Asks
  <2> QED BY <2>1 DEF AudioInv, Past, SharesFile
<1>5. CASE RemoveFile
  <2>1. /\ asked.what = "unlink" /\ asked' = NothingAsked
        /\ UNCHANGED <<rows, old, stamp, doing, sweep, paths>>
    BY <1>5 DEF RemoveFile
  <2>2. \A d \in Depositors : d \in rows \/ doing[d] = "store" => stamp[d] \in files' \/ SharesFile(d)
    <3>1. CASE files' = files \ {stamp[asked.message]}
      <4> DEFINE gone == {stamp[asked.message]}
      <4>1. \A p \in gone : \E d \in Past \ rows : stamp[d] = p
        BY <2>1 DEF AudioInv
      <4>2. files' = files \ gone /\ UNCHANGED <<rows, stamp, doing>>
        BY <2>1, <3>1
      <4> HIDE DEF gone
      <4> QED BY <4>1, <4>2, FilesRemoved
    <3>2. CASE UNCHANGED files
      BY <3>2 DEF AudioInv
    <3> QED BY <1>5, <3>1, <3>2 DEF RemoveFile
  <2> QED BY <2>1, <2>2 DEF AudioInv, Past, SharesFile, NothingAsked
<1>6. CASE DeleteBox
  BY <1>6 DEF DeleteBox, AudioInv, Past, SharesFile
<1>7. CASE Age
  BY <1>7 DEF Age, AudioInv, Past, SharesFile
<1>8. CASE SelectOld
  <2>1. /\ UNCHANGED <<rows, old, files, stamp, doing, asked>> /\ sweep' = "delete"
        /\ paths' = {stamp[d] : d \in old}
    BY <1>8 DEF SelectOld
  <2>2. \A p \in paths' : \E d \in Past : stamp[d] = p /\ d \in old
    BY <2>1 DEF RowsInv
  <2> QED BY <2>1, <2>2 DEF AudioInv, Past, SharesFile
<1>9. CASE DeleteOld
  <2>1. /\ rows' = rows \ old /\ sweep' = "unlink" /\ UNCHANGED <<files, stamp, doing, asked, paths>>
    BY <1>9 DEF DeleteOld
  <2> QED BY <2>1 DEF AudioInv, Past, SharesFile
<1>10. CASE RemoveOldFiles
  <2>1. /\ sweep = "unlink" /\ sweep' = "idle" /\ paths' = {} /\ files' = files \ paths
        /\ UNCHANGED <<rows, old, stamp, doing, asked>>
    BY <1>10 DEF RemoveOldFiles
  <2>2. \A p \in paths : \E d \in Past \ rows : stamp[d] = p
    BY <2>1 DEF AudioInv
  <2>3. \A d \in Depositors : d \in rows \/ doing[d] = "store" => stamp[d] \in files' \/ SharesFile(d)
    BY <2>1, <2>2, FilesRemoved
  <2> QED BY <2>1, <2>3 DEF AudioInv, Past, SharesFile
<1>11. CASE UNCHANGED voicemailVars
  BY <1>11 DEF voicemailVars, AudioInv, Past, SharesFile
<1> QED BY <1>1, <1>2, <1>3, <1>4, <1>5, <1>6, <1>7, <1>8, <1>9, <1>10, <1>11 DEF VoicemailNext

\* A message that is listed has its recording, whatever is deleted or expires
\* meanwhile, unless another was named by the same millisecond.
THEOREM AudioKept == VoicemailSpec => []MessagesHaveAudio
<1>1. VoicemailInit => VoicemailTypeOK /\ RowsInv /\ AudioInv
  BY VoicemailInitType DEF VoicemailInit, RowsInv, AudioInv, Past, NothingAsked
<1>2. VoicemailTypeOK /\ RowsInv /\ AudioInv /\ [VoicemailNext]_voicemailVars
      => VoicemailTypeOK' /\ RowsInv' /\ AudioInv'
  BY VoicemailTypeStep, RowsStep, AudioStep
<1>3. VoicemailTypeOK /\ AudioInv => MessagesHaveAudio
  BY DEF VoicemailTypeOK, AudioInv, MessagesHaveAudio
<1> QED BY <1>1, <1>2, <1>3, PTL DEF VoicemailSpec

=============================================================================
