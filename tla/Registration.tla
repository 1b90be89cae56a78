---------------------------- MODULE Registration ----------------------------
(***************************************************************************)
(* Phones register: REGISTER requests, each in a goroutine of its own      *)
(* (internal/sip/registrar.go), the registrations and push_tokens tables,  *)
(* and the calls that wake a sleeping phone by a push and wait until it    *)
(* registers (invite.go, regnotify.go).                                    *)
(*                                                                         *)
(* There is one extension.  A step is a database call or a critical        *)
(* section.  A request inserts at most one row, which bears its name.      *)
(* Authentication is module SipAuth; here a request has passed it.         *)
(***************************************************************************)
EXTENDS Integers, FiniteSets

CONSTANTS
  MaxRegisters,      \* REGISTER requests, numbered in the order they come
  Contacts,          \* contact URIs, one for each device
  PushWaits,         \* calls to the extension that find no phone
  MaxRegistrations,  \* extension.max_registrations
  RegisterFaults     \* what may go wrong: "db", or "busy", the phones are all in calls

ASSUME RegistrationAssumption ==
  /\ Contacts # {}
  /\ MaxRegistrations \in Nat \ {0}
  /\ MaxRegisters \in Nat

Registers == 1 .. MaxRegisters
RegisterKinds == {"register", "unregister", "wildcard"}
\* push: the contact carries a push token and its platform.
RegisterRequests == [kind : RegisterKinds, contact : Contacts, push : BOOLEAN]
Answers == {"200", "403", "500"}

VARIABLES
  registrations, \* table registrations: the requests whose row is in it
  expired,       \* the rows whose time has passed
  tokens,        \* table push_tokens: the devices with a token
  reg,           \* reg[r]: what REGISTER r says
  handler,       \* handler[r]: where its handler is, or its answer
  fetched,       \* fetched[r]: the rows a wildcard un-register has to delete
  channels,      \* channels[r]: the waiting calls Notify has to tell
  listeners,     \* RegistrationNotifier.listeners: calls with a channel in it
  closed,        \* the calls whose channel is closed
  pushWait,      \* pushWait[c]: where call c is
  own,           \* own[c]: the device that made call c, if it is of the extension
  refreshes,     \* history: requests that replaced a row of their contact
  raced,         \* history: requests checked and inserted side by side
  missed         \* history: calls that a Notify passed by before they subscribed

tableVars == <<registrations, expired, tokens>>
waitVars == <<listeners, closed, pushWait, own>>
rowHistory == <<refreshes, raced, missed>>
registrationVars == <<tableVars, reg, handler, fetched, channels, waitVars, rowHistory>>

RegistrationInit ==
  /\ registrations = {}
  /\ expired = {}
  /\ tokens = {}
  /\ reg = [r \in Registers |-> [kind |-> "register", contact |-> CHOOSE c \in Contacts : TRUE, push |-> FALSE]]
  /\ handler = [r \in Registers |-> "idle"]
  /\ fetched = [r \in Registers |-> {}]
  /\ channels = [r \in Registers |-> {}]
  /\ listeners = {}
  /\ closed = {}
  /\ pushWait = [c \in PushWaits |-> "idle"]
  /\ own = [c \in PushWaits |-> {}]
  /\ refreshes = {}
  /\ raced = {}
  /\ missed = {}

HandlerGoes(r, label) == handler' = [handler EXCEPT ![r] = label]

\* The rows of a contact.
RowsOf(c) == {w \in registrations : reg[w].contact = c}

Delete(rows) ==
  /\ registrations' = registrations \ rows
  /\ expired' = expired \ rows

-----------------------------------------------------------------------------
(* Mutants: plausible bugs, used by no specification.                      *)

\* A refresh that leaves the old row of its contact.
DeleteContactKeeps(r) ==
  /\ handler[r] = "delete"
  /\ HandlerGoes(r, "recount")
  /\ refreshes' = IF RowsOf(reg[r].contact) # {} THEN refreshes \union {r} ELSE refreshes
  /\ UNCHANGED <<tableVars, reg, fetched, channels, waitVars, raced, missed>>

\* Notify that forgets the calls it does not tell at once.
NotifyForgets(r) ==
  /\ handler[r] = "notify"
  /\ listeners' = {}
  /\ missed' = missed \union {c \in PushWaits : pushWait[c] \in {"route", "pushed"}}
  /\ HandlerGoes(r, "close")
  /\ UNCHANGED <<tableVars, reg, fetched, channels, closed, pushWait, own, refreshes, raced>>

-----------------------------------------------------------------------------
(* HandleRegister.                                                         *)

\* HandleRegister, once the phone is authenticated: the expiry and the contact
\* say whether it registers, un-registers, or un-registers all its devices.
HandleRegister(r, q) ==
  /\ handler[r] = "idle" /\ \A s \in 1 .. r - 1 : handler[s] # "idle"
  /\ q.kind = "wildcard" => q.contact = CHOOSE c \in Contacts : TRUE
  /\ q.push => q.kind = "register"
  /\ reg' = [reg EXCEPT ![r] = q]
  /\ HandlerGoes(r, CASE q.kind = "register" -> "delete"
                      [] q.kind = "unregister" -> "remove"
                      [] OTHER -> "fetch")
  /\ UNCHANGED <<tableVars, fetched, channels, waitVars, rowHistory>>

Fails(r) == "db" \in RegisterFaults /\ HandlerGoes(r, "500")

\* Between the delete and the insert of their rows, requests may pass each other.
Inserting(r) == handler[r] \in {"recount", "insert"}

\* DELETE of the contact's own row.
DeleteContact(r) ==
  /\ handler[r] = "delete"
  /\ \/ /\ Delete(RowsOf(reg[r].contact))
        /\ refreshes' = IF RowsOf(reg[r].contact) # {} THEN refreshes \union {r} ELSE refreshes
        /\ raced' = raced \union (IF \E s \in Registers : Inserting(s)
                                  THEN {r} \union {s \in Registers : Inserting(s)} ELSE {})
        /\ HandlerGoes(r, "recount")
     \/ Fails(r) /\ UNCHANGED <<registrations, expired, refreshes, raced>>
  /\ UNCHANGED <<tokens, reg, fetched, channels, waitVars, missed>>

\* CountByExtensionID counts expired rows too.
CheckLimit(r) ==
  /\ handler[r] = "recount"
  /\ \/ Cardinality(registrations) >= MaxRegistrations /\ HandlerGoes(r, "403")
     \/ Cardinality(registrations) < MaxRegistrations /\ HandlerGoes(r, "insert")
     \/ Fails(r)
  /\ UNCHANGED <<tableVars, reg, fetched, channels, waitVars, rowHistory>>

InsertRow(r) ==
  /\ handler[r] = "insert"
  /\ \/ registrations' = registrations \union {r} /\ HandlerGoes(r, "token")
     \/ Fails(r) /\ UNCHANGED registrations
  /\ UNCHANGED <<expired, tokens, reg, fetched, channels, waitVars, rowHistory>>

\* Upsert of the push token, of a contact that names its device as well; an
\* error is only logged.
StoreToken(r) ==
  /\ handler[r] = "token"
  /\ \/ reg[r].push /\ tokens' = tokens \union {reg[r].contact}
     \/ UNCHANGED tokens
  /\ HandlerGoes(r, "notify")
  /\ UNCHANGED <<registrations, expired, reg, fetched, channels, waitVars, rowHistory>>

\* Notify takes the channels of the extension under the lock,
Notify(r) ==
  /\ handler[r] = "notify"
  /\ channels' = [channels EXCEPT ![r] = listeners]
  /\ listeners' = {}
  /\ missed' = missed \union {c \in PushWaits : pushWait[c] \in {"route", "pushed"}}
  /\ HandlerGoes(r, "close")
  /\ UNCHANGED <<tableVars, reg, fetched, closed, pushWait, own, refreshes, raced>>

\* closes them outside it, and the phone is answered.
CloseChannels(r) ==
  /\ handler[r] = "close"
  /\ closed' = closed \union channels[r]
  /\ channels' = [channels EXCEPT ![r] = {}]
  /\ HandlerGoes(r, "200")
  /\ UNCHANGED <<tableVars, reg, fetched, listeners, pushWait, own, rowHistory>>

\* Expires: 0 for one contact.
RemoveContact(r) ==
  /\ handler[r] = "remove"
  /\ \/ Delete(RowsOf(reg[r].contact)) /\ HandlerGoes(r, "200")
     \/ Fails(r) /\ UNCHANGED <<registrations, expired>>
  /\ UNCHANGED <<tokens, reg, fetched, channels, waitVars, refreshes, raced, missed>>

\* Contact: *, the rows are read and deleted one by one.
FetchRows(r) ==
  /\ handler[r] = "fetch"
  /\ \/ fetched' = [fetched EXCEPT ![r] = registrations] /\ HandlerGoes(r, "empty")
     \/ Fails(r) /\ UNCHANGED fetched
  /\ UNCHANGED <<tableVars, reg, channels, waitVars, rowHistory>>

\* An error of a delete is logged, and the next row is next.
EmptyRows(r) ==
  /\ handler[r] = "empty"
  /\ \/ \E w \in fetched[r] :
          /\ fetched' = [fetched EXCEPT ![r] = @ \ {w}]
          /\ Delete({w}) \/ ("db" \in RegisterFaults /\ UNCHANGED <<registrations, expired>>)
          /\ UNCHANGED handler
     \/ /\ fetched[r] = {}
        /\ HandlerGoes(r, "200")
        /\ UNCHANGED <<registrations, expired, fetched>>
  /\ UNCHANGED <<tokens, reg, channels, waitVars, refreshes, raced, missed>>

-----------------------------------------------------------------------------
(* Time: rows expire.                                                      *)

RowExpires ==
  /\ \E w \in registrations \ expired : expired' = expired \union {w}
  /\ UNCHANGED <<registrations, tokens, reg, handler, fetched, channels, waitVars,
                 rowHistory>>

\* RunExpiryCleanup.
CleanRows ==
  /\ expired # {}
  /\ Delete(expired)
  /\ UNCHANGED <<tokens, reg, handler, fetched, channels, waitVars, refreshes, raced, missed>>

-----------------------------------------------------------------------------
(* Calls that wait for the phone.                                          *)

WaitGoes(c, label) == pushWait' = [pushWait EXCEPT ![c] = label]

\* RouteInternalCall rings the rows that have not expired, but never the device
\* that calls.
ReachableBut(devices) == {w \in registrations \ expired : reg[w].contact \notin devices}
Reachable(c) == ReachableBut(own[c])

\* The call, which a device of the extension itself may make, finds none.
FindNone(c) ==
  /\ pushWait[c] = "idle"
  /\ \E devices \in {{}} \union {{k} : k \in Contacts} :
       ReachableBut(devices) = {} /\ own' = [own EXCEPT ![c] = devices]
  /\ WaitGoes(c, "route")
  /\ UNCHANGED <<tableVars, reg, handler, fetched, channels, listeners, closed,
                 rowHistory>>

\* sendPushForExtension: the tokens, or without one those of the rows, expired
\* or not.  An error of the first look-up is only logged, one of the second means
\* no push, and without a push the call is unreachable.
SendPush(c) ==
  /\ pushWait[c] = "route"
  /\ \/ tokens # {} /\ WaitGoes(c, "pushed")
     \/ /\ tokens = {} \/ "db" \in RegisterFaults
        /\ WaitGoes(c, IF \E w \in registrations : reg[w].push THEN "pushed" ELSE "unreachable")
     \/ "db" \in RegisterFaults /\ WaitGoes(c, "unreachable")
  /\ UNCHANGED <<tableVars, reg, handler, fetched, channels, listeners, closed, own,
                 rowHistory>>

Subscribe(c) ==
  /\ pushWait[c] = "pushed"
  /\ listeners' = listeners \union {c}
  /\ WaitGoes(c, "waiting")
  /\ UNCHANGED <<tableVars, reg, handler, fetched, channels, closed, own, rowHistory>>

\* WaitForRegistration returns: told, or too late; cancel takes the channel out.
Wake(c) ==
  /\ pushWait[c] = "waiting"
  /\ \/ c \in closed /\ WaitGoes(c, "woken")
     \/ WaitGoes(c, "timeout")
  /\ listeners' = listeners \ {c}
  /\ UNCHANGED <<tableVars, reg, handler, fetched, channels, closed, own, rowHistory>>

\* The call is routed once more.
Retry(c) ==
  /\ pushWait[c] = "woken"
  /\ \/ Reachable(c) # {} /\ WaitGoes(c, "rung")
     \/ (Reachable(c) = {} \/ RegisterFaults # {}) /\ WaitGoes(c, "unreachable")
  /\ UNCHANGED <<tableVars, reg, handler, fetched, channels, listeners, closed, own,
                 rowHistory>>

RegisterStep(r) ==
  \/ DeleteContact(r)
  \/ CheckLimit(r)
  \/ InsertRow(r)
  \/ StoreToken(r)
  \/ Notify(r)
  \/ CloseChannels(r)
  \/ RemoveContact(r)
  \/ FetchRows(r)
  \/ EmptyRows(r)

PushWaitStep(c) ==
  \/ FindNone(c)
  \/ SendPush(c)
  \/ Subscribe(c)
  \/ Wake(c)
  \/ Retry(c)

RegistrationNext ==
  \/ \E r \in Registers, q \in RegisterRequests : HandleRegister(r, q)
  \/ \E r \in Registers : RegisterStep(r)
  \/ \E c \in PushWaits : PushWaitStep(c)
  \/ RowExpires
  \/ CleanRows

RegistrationSpec == RegistrationInit /\ [][RegistrationNext]_registrationVars

-----------------------------------------------------------------------------
(* Properties.                                                             *)

RegistrationTypeOK ==
  /\ registrations \subseteq Registers
  /\ expired \subseteq registrations
  /\ tokens \subseteq Contacts
  /\ reg \in [Registers -> RegisterRequests]
  /\ handler \in [Registers -> {"idle", "delete", "recount", "insert",
       "token", "notify", "close", "remove", "fetch", "empty"} \union Answers]
  /\ fetched \in [Registers -> SUBSET Registers]
  /\ channels \in [Registers -> SUBSET PushWaits]
  /\ listeners \subseteq PushWaits /\ closed \subseteq PushWaits
  /\ pushWait \in [PushWaits -> {"idle", "route", "pushed", "waiting", "woken", "timeout",
       "rung", "unreachable"}]
  /\ own \in [PushWaits -> SUBSET Contacts]
  /\ refreshes \subseteq Registers /\ raced \subseteq Registers
  /\ missed \subseteq PushWaits

\* An extension has at most max_registrations rows, a device has one, and a
\* device that registers again is not refused for want of room, apart from
\* requests that passed each other between their delete and their insert
\* (HandleRegister takes no lock and no transaction).
ContactsWithinLimit ==
  LET rows == registrations \ raced IN
  /\ Cardinality(rows) <= MaxRegistrations
  /\ \A v, w \in rows : reg[v].contact = reg[w].contact => v = w
  /\ \A r \in refreshes : handler[r] = "403" => raced # {}

\* A call gives up, untold, although a phone that it could ring has registered,
\* only if the REGISTER was served before the call subscribed, or is still being
\* served (waitForPushRegistration subscribes after the push is sent).
MissedOnlyBeforeSubscribe ==
  [][\A c \in PushWaits :
       pushWait[c] = "waiting" /\ pushWait'[c] = "timeout" /\ c \notin closed /\ Reachable(c) # {} =>
         c \in missed \/ \E r \in Registers : handler[r] \in {"token", "notify", "close"}]_registrationVars

=============================================================================
