----------------------------- MODULE MCServices -----------------------------
(***************************************************************************)
(* The parts of the PBX around the call core, checked in one run.  They    *)
(* share no state: a behaviour is one of one part, chosen in the initial   *)
(* state, and the other parts stand still in their initial state.  So the  *)
(* states of the run are the sum of the parts' states and what holds here  *)
(* of a part holds of its own specification.                               *)
(***************************************************************************)
EXTENDS TrunkRegistrar, Registration, SipAuth, FlowCall, Conference, G711,
        DigitCollection, Voicemail

CONSTANT Parts  \* which parts to check

VARIABLE part

services == <<trunkVars, registrationVars, authVars, flowVars, confVars, g711Vars,
              digitVars, voicemailVars>>
partVars == <<services, part>>

\* The part that moves may begin in any of its initial states, a part that
\* stands still in one of them.
ServicesInit ==
  /\ part \in Parts
  /\ TrunkInit /\ (part # "trunks" => trunkRows = [t \in Trunks |-> NoTrunk])
  /\ RegistrationInit
  /\ AuthInit /\ (part # "auth" => nonces = [n \in Nonces |-> "unissued"])
  /\ FlowInit /\ (part # "flow" => mode = CHOOSE m \in FlowModes : TRUE)
  /\ ConferenceInit /\ (part # "conference" => kicked = CHOOSE g \in Guests : TRUE)
  /\ G711Init /\ (part # "mixer" => law = "ulaw" /\ sign = 1)
  /\ DigitInit /\ (part # "digits" => use = (CHOOSE u \in DigitUses : TRUE)
                                      /\ digit = [p \in Presses |-> "good"])
  /\ VoicemailInit /\ (part # "voicemail" => stamp = [d \in Depositors |-> CHOOSE s \in Stamps : TRUE])

\* Only the part's own variables may change.
Moves(p, Step, others) == part = p /\ Step /\ UNCHANGED <<part, others>>

WithoutTrunks == <<registrationVars, authVars, flowVars, confVars, g711Vars, digitVars, voicemailVars>>
WithoutPhones == <<trunkVars, authVars, flowVars, confVars, g711Vars, digitVars, voicemailVars>>
WithoutAuth == <<trunkVars, registrationVars, flowVars, confVars, g711Vars, digitVars, voicemailVars>>
WithoutFlow == <<trunkVars, registrationVars, authVars, confVars, g711Vars, digitVars, voicemailVars>>
WithoutConference == <<trunkVars, registrationVars, authVars, flowVars, g711Vars, digitVars, voicemailVars>>
WithoutMixer == <<trunkVars, registrationVars, authVars, flowVars, confVars, digitVars, voicemailVars>>
WithoutDigits == <<trunkVars, registrationVars, authVars, flowVars, confVars, g711Vars, voicemailVars>>
WithoutVoicemail == <<trunkVars, registrationVars, authVars, flowVars, confVars, g711Vars, digitVars>>

ServicesNext ==
  \/ Moves("trunks", TrunkNext, WithoutTrunks)
  \/ Moves("phones", RegistrationNext, WithoutPhones)
  \/ Moves("auth", AuthNext, WithoutAuth)
  \/ Moves("flow", FlowNext, WithoutFlow)
  \/ Moves("conference", ConferenceNext, WithoutConference)
  \/ Moves("mixer", G711Next, WithoutMixer)
  \/ Moves("digits", DigitNext, WithoutDigits)
  \/ Moves("voicemail", VoicemailNext, WithoutVoicemail)

\* The fairness of each part's own module.
ServicesFairness ==
  /\ \A w \in Workers : WF_trunkVars(part = "trunks" /\ WorkerStep(w))
  /\ \A e \in Entries : WF_trunkVars(part = "trunks" /\ LoopStep(e))
  /\ WF_flowVars(part = "flow" /\ WalkerStep)
  /\ \A n \in Numbers : WF_flowVars(part = "flow" /\ LegStep(n))
  /\ WF_flowVars(part = "flow" /\ HangStep)
  /\ WF_flowVars(part = "flow" /\ ReapFlowSession)
  /\ \A g \in Guests : WF_confVars(part = "conference" /\ Alive /\ GuestStep(g))
  /\ \A l \in Leavers : WF_confVars(part = "conference" /\ Alive /\ LeaveStep(l))
  /\ \A r \in Rooms : WF_confVars(part = "conference" /\ Alive /\ EndMixLoop(r))
  /\ WF_digitVars(part = "digits" /\ CollectorStep)

ServicesSpec == ServicesInit /\ [][ServicesNext]_partVars

ServicesLiveSpec == ServicesSpec /\ ServicesFairness

-----------------------------------------------------------------------------
(* The properties of the parts that a part at rest does not have.          *)

\* A flow comes to its end.
FlowReturns == part = "flow" => FlowEnds

\* A collection of digits comes to its end.
CollectionReturns == part = "digits" => CollectionEnds

=============================================================================
