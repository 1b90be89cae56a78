------------------------------ MODULE Voicemail ------------------------------
(***************************************************************************)
(* One voicemail box: callers who leave messages                           *)
(* (internal/flow/nodes/voicemail.go, RecordMessage and SendMWI in         *)
(* internal/sip/flowactions.go), the administrator's requests              *)
(* (internal/api/voicemail_message_handlers.go, voicemail_box_handlers.go) *)
(* and the retention (internal/voicemail/cleanup.go), over the rows of     *)
(* internal/database/voicemail_message.go, the files and the phone's lamp. *)
(*                                                                         *)
(* A recording's name is the millisecond of the call: two calls may have   *)
(* the same.                                                               *)
(***************************************************************************)
EXTENDS Integers, FiniteSets

CONSTANTS
  Depositors,     \* calls that leave a message; a message has its call's name
  BoxLimit,       \* VoicemailBox.MaxMessages, 0 if there is none
  Stamps,         \* milliseconds, the names of the files
  VoicemailFaults \* what may go wrong: "db", "file", "notify"

ASSUME VoicemailAssumption ==
  /\ BoxLimit \in Nat
  /\ Depositors # {} /\ IsFiniteSet(Depositors)

VARIABLES
  box,      \* the box exists
  rows,     \* voicemail_messages
  read,     \* messages that are read
  old,      \* messages older than the retention
  stamp,    \* stamp[d]: the name of d's recording
  files,    \* recordings on disk
  lamp,     \* what the last NOTIFY told the phone
  doing,    \* doing[d]: how far the deposit is
  tally,    \* tally[d]: new messages that d has counted for the NOTIFY
  asked,    \* the administrator's request: what, of which message, how far
  sweep,    \* the retention's run
  paths     \* the files that it will remove

VARIABLES
  overlapped, \* history: a message was stored after a count that missed another
  changed     \* history: a message was read or removed, not stored or not notified

boxVars == <<box, rows, read, old, files>>
depositVars == <<stamp, doing, tally, lamp>>
adminVars == <<asked, sweep, paths>>
voicemailHistory == <<overlapped, changed>>
voicemailVars == <<boxVars, depositVars, adminVars, voicemailHistory>>

NothingAsked == [what |-> "none", message |-> CHOOSE d \in Depositors : TRUE]

VoicemailInit ==
  /\ box = TRUE /\ rows = {} /\ read = {} /\ old = {} /\ files = {}
  /\ stamp \in [Depositors -> Stamps]
  /\ lamp = FALSE
  /\ doing = [d \in Depositors |-> "new"] /\ tally = [d \in Depositors |-> 0]
  /\ asked = NothingAsked /\ sweep = "idle" /\ paths = {}
  /\ overlapped = FALSE /\ changed = FALSE

Does(d, label) == doing' = [doing EXCEPT ![d] = label]
Counted == {d \in Depositors : doing[d] \in {"record", "store"}}
SharesFile(d) == \E other \in Depositors \ {d} : stamp[other] = stamp[d]

-----------------------------------------------------------------------------
(* Mutants: plausible bugs, used by no specification.                      *)

\* A limit that lets one more in.
BoxFullOffByOne == BoxLimit > 0 /\ Cardinality(rows) > BoxLimit

\* A deposit that counts for the NOTIFY before it stores its message.
NotifyTallyStale(d) == tally' = [tally EXCEPT ![d] = Cardinality(rows \ (read \union {d}))]

\* A deletion that removes the file, then the row.
RemovedFirst(d) == files' = files \ {stamp[d]} /\ UNCHANGED rows

-----------------------------------------------------------------------------
(* A deposit.                                                              *)

BoxFull == BoxLimit > 0 /\ Cardinality(rows) >= BoxLimit

\* The box is looked up and its messages are counted.
CheckBox(d) ==
  /\ doing[d] = "new"
  /\ \/ box /\ ~BoxFull /\ Does(d, "record")
     \/ (~box \/ BoxFull \/ "db" \in VoicemailFaults) /\ Does(d, "failed")
  /\ UNCHANGED <<boxVars, stamp, tally, lamp, adminVars, voicemailHistory>>

\* A new file, or the one of the same name; a stub as yet, it stays empty.
RecordMessage(d) == files' = files \union {stamp[d]}

Record(d) ==
  /\ doing[d] = "record"
  /\ \/ RecordMessage(d) /\ Does(d, "store")
     \/ "file" \in VoicemailFaults /\ Does(d, "failed") /\ UNCHANGED files
  /\ UNCHANGED <<box, rows, read, old, stamp, tally, lamp, adminVars, voicemailHistory>>

\* messages.Create, which a removed box refuses; the deposit goes on either way.
StoreMessage(d) ==
  /\ doing[d] = "store"
  /\ \/ /\ box
        /\ rows' = rows \union {d}
        /\ overlapped' = (overlapped \/ Counted # {d})
        /\ UNCHANGED changed
     \/ /\ ~box \/ "db" \in VoicemailFaults
        /\ changed' = TRUE
        /\ UNCHANGED <<rows, overlapped>>
  /\ Does(d, "count")
  /\ UNCHANGED <<box, read, old, files, stamp, tally, lamp, adminVars>>

NotifyTally(d) == tally' = [tally EXCEPT ![d] = Cardinality(rows \ read)]

\* sendMWI counts,
CountNew(d) ==
  /\ doing[d] = "count"
  /\ \/ NotifyTally(d) /\ Does(d, "notify") /\ UNCHANGED changed
     \/ /\ "db" \in VoicemailFaults
        /\ changed' = TRUE /\ Does(d, "done") /\ UNCHANGED tally
  /\ UNCHANGED <<boxVars, stamp, lamp, adminVars, overlapped>>

\* and SendMWI tells the phone.
NotifyPhone(d) ==
  /\ doing[d] = "notify"
  /\ \/ lamp' = (tally[d] > 0) /\ UNCHANGED changed
     \/ "notify" \in VoicemailFaults /\ changed' = TRUE /\ UNCHANGED lamp
  /\ Does(d, "done")
  /\ UNCHANGED <<boxVars, stamp, tally, adminVars, overlapped>>

-----------------------------------------------------------------------------
(* The administrator.  No request sends a NOTIFY.                          *)

Asks(what, d) == asked' = [what |-> what, message |-> d]

\* Both requests look the message up first.
FindMessage(d) ==
  /\ asked.what = "none" /\ d \in rows
  /\ \E what \in {"delete", "mark"} : Asks(what, d)
  /\ UNCHANGED <<boxVars, depositVars, sweep, paths, voicemailHistory>>

MarkRead ==
  /\ asked.what = "mark"
  /\ read' = read \union (rows \intersect {asked.message})
  /\ changed' = TRUE
  /\ asked' = NothingAsked
  /\ UNCHANGED <<box, rows, old, files, depositVars, sweep, paths, overlapped>>

RemovedRow(d) == rows' = rows \ {d} /\ UNCHANGED files
Forget(ds) == read' = read \ ds /\ old' = old \ ds

DeleteRow ==
  /\ asked.what = "delete"
  /\ RemovedRow(asked.message) /\ Forget({asked.message})
  /\ changed' = TRUE
  /\ Asks("unlink", asked.message)
  /\ UNCHANGED <<box, depositVars, sweep, paths, overlapped>>

\* os.Remove, whose error is only logged.
RemoveFile ==
  /\ asked.what = "unlink"
  /\ \/ files' = files \ {stamp[asked.message]}
     \/ "file" \in VoicemailFaults /\ UNCHANGED files
  /\ asked' = NothingAsked
  /\ UNCHANGED <<box, rows, read, old, depositVars, sweep, paths, voicemailHistory>>

\* A box with messages cannot be deleted: its messages refer to it.
DeleteBox ==
  /\ box /\ rows = {}
  /\ box' = FALSE
  /\ UNCHANGED <<rows, read, old, files, depositVars, adminVars, voicemailHistory>>

-----------------------------------------------------------------------------
(* The retention.                                                          *)

Age ==
  /\ \E d \in rows \ old : old' = old \union {d}
  /\ UNCHANGED <<box, rows, read, files, depositVars, adminVars, voicemailHistory>>

\* DeleteExpiredByRetention selects the paths of the old messages,
SelectOld ==
  /\ sweep = "idle" /\ old # {}
  /\ paths' = {stamp[d] : d \in old}
  /\ sweep' = "delete"
  /\ UNCHANGED <<boxVars, depositVars, asked, voicemailHistory>>

\* and deletes whatever is old by now: the file of a message that is not in paths stays.
DeleteOld ==
  /\ sweep = "delete"
  /\ rows' = rows \ old /\ Forget(old)
  /\ changed' = TRUE
  /\ sweep' = "unlink"
  /\ UNCHANGED <<box, files, depositVars, asked, paths, overlapped>>

RemoveOldFiles ==
  /\ sweep = "unlink"
  /\ files' = files \ paths
  /\ paths' = {} /\ sweep' = "idle"
  /\ UNCHANGED <<box, rows, read, old, depositVars, asked, voicemailHistory>>

DepositStep(d) ==
  CheckBox(d) \/ Record(d) \/ StoreMessage(d) \/ CountNew(d) \/ NotifyPhone(d)

VoicemailNext ==
  \/ \E d \in Depositors : DepositStep(d) \/ FindMessage(d)
  \/ MarkRead \/ DeleteRow \/ RemoveFile \/ DeleteBox
  \/ Age \/ SelectOld \/ DeleteOld \/ RemoveOldFiles

VoicemailSpec == VoicemailInit /\ [][VoicemailNext]_voicemailVars

-----------------------------------------------------------------------------
(* Properties.                                                             *)

VoicemailTypeOK ==
  /\ box \in BOOLEAN /\ rows \subseteq Depositors /\ read \subseteq Depositors /\ old \subseteq Depositors
  /\ stamp \in [Depositors -> Stamps] /\ files \subseteq Stamps /\ lamp \in BOOLEAN
  /\ doing \in [Depositors -> {"new", "record", "store", "count", "notify", "done", "failed"}]
  /\ tally \in [Depositors -> 0 .. Cardinality(Depositors)]
  /\ asked \in [what : {"none", "mark", "delete", "unlink"}, message : Depositors]
  /\ sweep \in {"idle", "delete", "unlink"} /\ paths \subseteq Stamps
  /\ overlapped \in BOOLEAN /\ changed \in BOOLEAN

\* The box holds no more than its limit, unless a message was stored while
\* another call had counted and not yet stored (voicemail.go:100).
BoxWithinLimit == BoxLimit > 0 /\ ~overlapped => Cardinality(rows) <= BoxLimit

\* The lamp of the phone is on when a deposit is done, whatever the order of the
\* NOTIFYs of two callers, unless a message was read, removed or not stored.
LampTellsNew == ~changed /\ (\E d \in Depositors : doing[d] = "done") => lamp

\* A stored message can be listened to: its file is removed after its row, but
\* for one that shares its millisecond with another.
MessagesHaveAudio == \A d \in rows : stamp[d] \in files \/ SharesFile(d)

=============================================================================
