--------------------------- MODULE DigitCollection ---------------------------
(***************************************************************************)
(* The digits a party presses: the collection of one flow node, which      *)
(* SIP INFO feeds (internal/media/callbuf.go, digitbuf.go, handleInfo in   *)
(* internal/sip/server.go, PlayAndCollect and verifyConferencePIN in       *)
(* flowactions.go, flow/nodes/ivr_menu.go and play_message.go), and the    *)
(* confirmation of a follow-me, which RFC 2833 packets feed                *)
(* (internal/media/dtmf.go, confirmExternalLeg in followme.go).            *)
(*                                                                         *)
(* A digit is "good" (an option of the menu, the PIN, the 1), "bad" or     *)
(* "end", the terminator.  The PIN is a single good digit.                 *)
(***************************************************************************)
EXTENDS Integers, Sequences

CONSTANTS
  DigitUses,    \* subset of {"ivr", "pin", "message", "confirm"}
  MaxPresses,   \* keys pressed
  MaxTries,     \* attempts at the PIN; a menu has one more
  MaxDigits,    \* digits of a PIN
  BufferSize    \* callBufferSize

ASSUME DigitAssumption == {MaxTries, MaxDigits, BufferSize} \subseteq Nat \ {0} /\ MaxPresses \in Nat

Presses == 1 .. MaxPresses
Tries == 1 .. MaxTries + 1

VARIABLES
  use,      \* what the digits are for
  stage,    \* the collecting goroutine
  try,      \* number of the attempt
  buffer,   \* CallDTMFManager.buffers: the attempt that acquired it, or 0
  queued,   \* queued[t]: the digit channel that attempt t acquired
  got,      \* DigitBuffer.digits
  verdict,  \* the edge that is followed or the result
  overdue,  \* the node's context is over
  digit,    \* digit[p]: what was pressed
  press,    \* press[p]: how far the digit has come
  found,    \* found[p]: the channel that its handler has found
  during,   \* history: during[p]: the attempt in which it did
  endPackets, \* endPackets[p]: End packets of the key press on their way
  last,     \* the collector's lastEvent and lastTS
  counted   \* history: counted[p]: how often the collector emitted it

flowSide == <<use, stage, try, buffer, got, verdict, overdue>>
pressSide == <<digit, press, found, during>>
wireSide == <<endPackets, last, counted>>
digitVars == <<flowSide, queued, pressSide, wireSide>>

DigitInit ==
  /\ use \in DigitUses
  /\ stage = IF use = "confirm" THEN "listen" ELSE "acquire"
  /\ try = 1 /\ buffer = 0
  /\ queued = [t \in Tries |-> <<>>]
  /\ got = <<>> /\ verdict = "none" /\ overdue = FALSE
  /\ digit \in [Presses -> {"good", "bad", "end"}]
  /\ press = [p \in Presses |-> "none"] /\ found = [p \in Presses |-> 0]
  /\ during = [p \in Presses |-> 0]
  /\ endPackets = [p \in Presses |-> 0] /\ last = 0 /\ counted = [p \in Presses |-> 0]

Ends(outcome) == stage' = "done" /\ verdict' = outcome

-----------------------------------------------------------------------------
(* Mutants: plausible bugs, used by no specification.                      *)

\* A Release that forgets the buffer, which the next Acquire finds.
ReleasedNot == buffer' = buffer

\* A menu or PIN that is asked for again and again.
AgainForever(outcome) ==
  stage' = "acquire" /\ try' = try /\ UNCHANGED verdict

\* A collector that does not recognise a packet that was sent again.
IsNewAlways(p) == TRUE

-----------------------------------------------------------------------------
(* The collecting goroutine.                                               *)

\* The attempt starts if the context is not over; Acquire makes a channel
\* unless there is one.
AcquireBuffer ==
  /\ stage = "acquire"
  /\ IF overdue /\ use # "message"
     THEN Ends("error") /\ UNCHANGED buffer
     ELSE /\ buffer' = IF buffer = 0 THEN try ELSE buffer
          /\ stage' = "collect" /\ UNCHANGED verdict
  /\ got' = <<>>
  /\ UNCHANGED <<use, try, overdue, queued, pressSide, wireSide>>

DigitLimit == IF use = "pin" THEN MaxDigits ELSE 1
Released == buffer' = 0

\* Collect reads a digit: the terminator, the last or one more,
TakeDigit ==
  /\ stage = "collect" /\ queued[buffer] # <<>>
  /\ LET p == Head(queued[buffer]) IN
       IF digit[p] = "end"
       THEN stage' = "judge" /\ UNCHANGED got
       ELSE /\ got' = Append(got, p)
            /\ stage' = IF Len(got) + 1 >= DigitLimit THEN "judge" ELSE "collect"
  /\ queued' = [queued EXCEPT ![buffer] = Tail(@)]
  /\ UNCHANGED <<use, try, buffer, verdict, overdue, pressSide, wireSide>>

\* or one of its two timeouts, or the context's, is over.
CollectionTimesOut ==
  /\ stage = "collect"
  /\ stage' = "judge"
  /\ UNCHANGED <<use, try, buffer, got, verdict, overdue, queued, pressSide, wireSide>>

\* The node's deadline passes.
NodeExpires ==
  /\ stage \notin {"done", "listen"} /\ ~overdue
  /\ overdue' = TRUE
  /\ UNCHANGED <<use, stage, try, buffer, got, verdict, queued, pressSide, wireSide>>

TriesLeft == try < (IF use = "ivr" THEN MaxTries + 1 ELSE MaxTries)

\* Another attempt, or the outcome of the last.
Again(outcome) ==
  IF TriesLeft THEN stage' = "acquire" /\ try' = try + 1 /\ UNCHANGED verdict
  ELSE Ends(outcome) /\ UNCHANGED try

Matches == Len(got) = 1 /\ digit[got[1]] = "good"

\* Release, and what the digits mean to the node.
Judge ==
  /\ stage = "judge"
  /\ Released
  /\ CASE use = "message" -> Ends("next") /\ UNCHANGED try
       [] use # "message" /\ Matches -> Ends("match") /\ UNCHANGED try
       [] OTHER -> Again(IF use = "pin" THEN "refused" ELSE IF got = <<>> THEN "timeout" ELSE "invalid")
  /\ UNCHANGED <<use, got, overdue, queued, pressSide, wireSide>>

-----------------------------------------------------------------------------
(* SIP INFO: one handler per digit.                                        *)

PressKey(p) ==
  /\ use # "confirm" /\ press[p] = "none"
  /\ p > 1 => press[p - 1] # "none"
  /\ press' = [press EXCEPT ![p] = "sent"]
  /\ UNCHANGED <<flowSide, queued, digit, found, during, wireSide>>

\* Inject looks the call's buffer up, under the lock,
FindBuffer(p) ==
  /\ press[p] = "sent"
  /\ press' = [press EXCEPT ![p] = IF buffer = 0 THEN "gone" ELSE "found"]
  /\ found' = [found EXCEPT ![p] = buffer]
  /\ during' = [during EXCEPT ![p] = try]
  /\ UNCHANGED <<flowSide, queued, digit, wireSide>>

\* and sends the digit to its channel, released or not, or drops it.
SendDigit(p) ==
  /\ press[p] = "found"
  /\ press' = [press EXCEPT ![p] = "gone"]
  /\ queued' = IF Len(queued[found[p]]) < BufferSize
               THEN [queued EXCEPT ![found[p]] = Append(@, p)] ELSE queued
  /\ UNCHANGED <<flowSide, digit, found, during, wireSide>>

-----------------------------------------------------------------------------
(* RFC 2833: the confirmation of a follow-me.                              *)

\* The End packet of a key press is sent three times.
SendEnds(p) ==
  /\ use = "confirm" /\ press[p] = "none"
  /\ p > 1 => press[p - 1] # "none"
  /\ press' = [press EXCEPT ![p] = "gone"]
  /\ endPackets' = [endPackets EXCEPT ![p] = 3]
  /\ UNCHANGED <<flowSide, queued, digit, found, during, last, counted>>

LosePacket(p) ==
  /\ endPackets[p] > 0
  /\ endPackets' = [endPackets EXCEPT ![p] = @ - 1]
  /\ UNCHANGED <<flowSide, queued, pressSide, last, counted>>

\* Not the event and timestamp of the End packet before.
IsNew(p) == p # last

\* Run: an End packet comes, in any order, and is emitted if it is new.
CollectEnd(p) ==
  /\ stage = "listen" /\ endPackets[p] > 0
  /\ endPackets' = [endPackets EXCEPT ![p] = @ - 1]
  /\ IF IsNew(p)
     THEN /\ last' = p
          /\ counted' = [counted EXCEPT ![p] = @ + 1]
          /\ queued' = [queued EXCEPT ![1] = Append(@, p)]
     ELSE UNCHANGED <<last, counted, queued>>
  /\ UNCHANGED <<flowSide, pressSide>>

\* The first digit decides; without one the timeout does.
Confirmed ==
  /\ stage = "listen"
  /\ \/ /\ queued[1] # <<>>
        /\ Ends(IF digit[queued[1][1]] = "good" THEN "match" ELSE "refused")
     \/ Ends("timeout")
  /\ UNCHANGED <<use, try, buffer, got, overdue, queued, pressSide, wireSide>>

CollectorStep == AcquireBuffer \/ TakeDigit \/ CollectionTimesOut \/ Judge \/ Confirmed

DigitNext ==
  \/ CollectorStep \/ NodeExpires
  \/ \E p \in Presses : \/ PressKey(p) \/ FindBuffer(p) \/ SendDigit(p)
                        \/ SendEnds(p) \/ LosePacket(p) \/ CollectEnd(p)

DigitSpec == DigitInit /\ [][DigitNext]_digitVars

-----------------------------------------------------------------------------
(* Properties.                                                             *)

DigitTypeOK ==
  /\ use \in DigitUses /\ stage \in {"acquire", "collect", "judge", "listen", "done"}
  /\ try \in Tries /\ buffer \in Tries \union {0}
  /\ queued \in [Tries -> Seq(Presses)]
  /\ got \in Seq(Presses)
  /\ verdict \in {"none", "error", "next", "match", "refused", "timeout", "invalid"}
  /\ overdue \in BOOLEAN
  /\ digit \in [Presses -> {"good", "bad", "end"}]
  /\ press \in [Presses -> {"none", "sent", "found", "gone"}]
  /\ found \in [Presses -> Tries \union {0}] /\ during \in [Presses -> Tries \union {0}]
  /\ endPackets \in [Presses -> 0 .. 3] /\ last \in Presses \union {0}
  /\ counted \in [Presses -> 0 .. 3]

\* The digits an attempt judges reached the call while that attempt collected,
\* though their handlers may have put them in the channel of one that is over
\* (Inject sends outside the lock, callbuf.go:96).
DigitsOfThisAttempt == \A i \in DOMAIN got : stage # "acquire" => during[got[i]] = try

\* A key press counts once, however often its End packet is sent, unless another
\* press has come in between (dtmf.go: only the last one is remembered).
PressCountsOnce ==
  \A p \in Presses : counted[p] > 1 => \E q \in Presses \ {p} : counted[q] > 0

\* The node comes to an end, whatever is pressed.
CollectionEnds == <>(stage = "done")

DigitFairness == WF_digitVars(CollectorStep)
DigitLiveSpec == DigitSpec /\ DigitFairness

=============================================================================
