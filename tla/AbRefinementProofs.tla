-------------------------- MODULE AbRefinementProofs --------------------------
(***************************************************************************)
(* AbUpdate implements AbContract, for every set of digests, every budget  *)
(* and every target that obeys the contract.  The mapping is that of the   *)
(* definition Contract in AbUpdate; each event of the machine is shown to  *)
(* be one step of the contract or none.                                    *)
(***************************************************************************)
EXTENDS AbUpdateProofs

LEMMA OtherSlot ==
  ASSUME NEW from \in Slots, NEW to \in Slots, from # to
  PROVE  Contract!Other(from) = to
BY DEF Contract!Other, Contract!Sides, Slots

LEMMA SidesAreSlots == Contract!Sides = Slots
BY DEF Contract!Sides, Slots

(* The values of the mapped variables, phase by phase.                      *)
LEMMA MappedOutcome ==
  /\ phase \in OpenPhases => OutcomeOf(phase) = "pending" /\ phase # "idle"
  /\ phase = "promoted" => OutcomeOf(phase) = "promoted"
  /\ phase = "rolled_back" => OutcomeOf(phase) = "rolled-back"
  /\ phase = "refused" => OutcomeOf(phase) = "refused"
BY DEF OutcomeOf, OpenPhases

LEMMA InitMaps ==
  ASSUME ContractTarget, Init
  PROVE  Contract!ContractInit
<1>1. IInv /\ phase = "idle" /\ candidate_digest = Unset /\ attempts = <<>>
  BY InitInvariant DEF Init
<1>2. ActiveOf(slots) \in Slots
  <2>1. OneActive(slots) /\ \A s \in Slots : slots[s].role \in {"active", "candidate"}
    BY <1>1 DEF IInv, ContractPair, SlotState
  <2> QED  BY <2>1, RolesLemma
<1>3. installed \in [Slots -> Digests \cup {NoDigest, Partial}]
  BY <1>1 DEF IInv, TypeOK
<1>4. Len(attempts) + (IF phase = "trying" THEN 1 ELSE 0) = 0
  BY <1>1
<1>5. (phase = "trying") = FALSE
  BY <1>1
<1> QED
  BY <1>1, <1>2, <1>3, <1>4, <1>5, SidesAreSlots DEF Contract!ContractInit

------------------------------------------------------------------------------
(* The fallback of the contract is the one slot that is active.             *)
LEMMA ActiveIs ==
  ASSUME NEW ss, ContractPair(ss), NEW s \in Slots, ss[s].role = "active"
  PROVE  ActiveOf(ss) = s
<1>1. OneActive(ss) /\ \A t \in Slots : ss[t].role \in {"active", "candidate"}
  BY DEF ContractPair, SlotState
<1> QED
  BY <1>1, RolesLemma

(* What a step leaves of the mapped variables, when the transaction was     *)
(* pending and has not been promoted.                                       *)
LEMMA PendingMaps ==
  ASSUME IInv, IInv', phase \in OpenPhases, from_slot' = from_slot,
         phase' \in OpenPhases \cup {"rolled_back", "refused"}
  PROVE  /\ ActiveOf(slots) = from_slot /\ ActiveOf(slots') = from_slot
         /\ Contract!Other(from_slot) = to_slot
         /\ OutcomeOf(phase) = "pending" /\ phase # "idle" /\ phase' # "idle"
         /\ Len(attempts) \in Nat
         /\ installed' \in [Contract!Sides -> Digests \cup {NoDigest, Partial}]
<1>1. /\ from_slot \in Slots /\ to_slot \in Slots /\ from_slot # to_slot
      /\ PendingPair(slots, from_slot, to_slot) /\ TypeOK
  BY PendingInvariant
<1>2. ActiveOf(slots) = from_slot /\ Contract!Other(from_slot) = to_slot
  BY <1>1, PendingRoles, OtherSlot
<1>3. ContractPair(slots') /\ slots'[from_slot].role = "active"
  BY DEF IInv, PhaseFields, PendingFields, PendingPair, SettledFields
<1>4. ActiveOf(slots') = from_slot
  BY <1>1, <1>3, ActiveIs
<1>5. phase # "idle" /\ phase' # "idle"
  BY DEF OpenPhases
<1>6. /\ Len(attempts) \in Nat
      /\ installed' \in [Contract!Sides -> Digests \cup {NoDigest, Partial}]
  BY <1>1, SidesAreSlots DEF IInv, TypeOK
<1> QED
  BY <1>2, <1>4, <1>5, <1>6, MappedOutcome

LEMMA OutcomeTable ==
  /\ \A ph \in OpenPhases : OutcomeOf(ph) = "pending"
  /\ OutcomeOf("rolled_back") = "rolled-back"
  /\ OutcomeOf("refused") = "refused"
  /\ OutcomeOf("promoted") = "promoted"
BY DEF OutcomeOf, OpenPhases

LEMMA BeginMaps ==
  ASSUME IInv, IInv', NEW d \in Digests, Begin(d)
  PROVE  Contract!Open
<1>1. /\ phase = "idle" /\ phase' = "writing" /\ from_slot' = ActiveOf(slots)
      /\ ActiveOf(slots) \in Slots /\ candidate_digest' = d
      /\ installed'[ActiveOf(slots)] = installed[ActiveOf(slots)]
      /\ attempts' = attempts
  BY BeginFrame
<1>2. ContractPair(slots') /\ slots'[from_slot'].role = "active"
  BY <1>1 DEF IInv, PhaseFields, PendingFields, PendingPair, OpenPhases
<1>3. ActiveOf(slots') = ActiveOf(slots)
  BY <1>1, <1>2, ActiveIs
<1>4. installed' \in [Contract!Sides -> Digests \cup {NoDigest, Partial}]
  BY SidesAreSlots DEF IInv, TypeOK
<1>5. OutcomeOf(phase') = "pending"
  BY <1>1, OutcomeTable DEF OpenPhases
<1>6. (phase = "trying") = FALSE /\ (phase' = "trying") = FALSE
  BY <1>1
<1> QED
  BY <1>1, <1>3, <1>4, <1>5, <1>6 DEF Contract!Open, Contract!FallbackKept

(* What the events that change the medium or the ledger say of themselves.  *)
LEMMA EventFacts ==
  ASSUME IInv
  PROVE  /\ \A d : WriteComplete(d) =>
              /\ phase = "writing" /\ phase' \in {"candidate_ready", "rolled_back"}
              /\ attempts' = attempts
         /\ WriteFailed => phase = "writing" /\ phase' = "rolled_back" /\ attempts' = attempts
         /\ Arm => /\ phase = "candidate_ready" /\ phase' = "armed"
                   /\ attempts' = attempts /\ installed' = installed
         /\ BootAttempt => /\ phase = "armed" /\ phase' = "trying"
                           /\ attempts' = attempts /\ installed' = installed
         /\ ProbePass => /\ phase = "trying" /\ phase' = "promoted"
                         /\ Len(attempts') = Len(attempts) + 1 /\ installed' = installed
         /\ OperatorAbort =>
              /\ phase \in OpenPhases /\ phase' = "rolled_back" /\ installed' = installed
              /\ phase = "trying" => Len(attempts') = Len(attempts) + 1
              /\ phase # "trying" => attempts' = attempts
         /\ \A e, res, ss : e \in {"probe_fail", "watchdog_expired"} /\ FailAttempt(e, res, ss) =>
              /\ phase = "trying" /\ phase' \in {"armed", "refused"}
              /\ Len(attempts') = Len(attempts) + 1 /\ installed' = installed
<1>1. attempts \in Seq(AttemptRecord)
  BY DEF IInv, TypeOK
<1>2. \A x : Len(Append(attempts, x)) = Len(attempts) + 1
  BY <1>1
<1>3. ASSUME NEW d, WriteComplete(d)
      PROVE  /\ phase = "writing" /\ phase' \in {"candidate_ready", "rolled_back"}
             /\ attempts' = attempts
  BY <1>3, OfferFacts DEF WriteComplete, Return, Conclude
<1>4. WriteFailed => phase = "writing" /\ phase' = "rolled_back" /\ attempts' = attempts
  BY OfferFacts DEF WriteFailed, Return, Conclude
<1>5. Arm => /\ phase = "candidate_ready" /\ phase' = "armed"
             /\ attempts' = attempts /\ installed' = installed
  BY OfferFacts DEF Arm, Return, Conclude, environment
<1>6. BootAttempt => /\ phase = "armed" /\ phase' = "trying"
                     /\ attempts' = attempts /\ installed' = installed
  BY OfferFacts DEF BootAttempt, Return, Conclude
<1>7. ProbePass => /\ phase = "trying" /\ phase' = "promoted"
                   /\ Len(attempts') = Len(attempts) + 1 /\ installed' = installed
  BY <1>2, OfferFacts DEF ProbePass, Return, Conclude, RecordAttempt, environment
<1>8. OperatorAbort =>
        /\ phase \in OpenPhases /\ phase' = "rolled_back" /\ installed' = installed
        /\ phase = "trying" => Len(attempts') = Len(attempts) + 1
        /\ phase # "trying" => attempts' = attempts
  BY <1>2, OfferFacts DEF OperatorAbort, Return, Conclude, RecordAttempt, environment
<1>9. ASSUME NEW e \in {"probe_fail", "watchdog_expired"}, NEW res, NEW ss,
             FailAttempt(e, res, ss)
      PROVE  /\ phase = "trying" /\ phase' \in {"armed", "refused"}
             /\ Len(attempts') = Len(attempts) + 1 /\ installed' = installed
  BY <1>2, <1>9, OfferFacts DEF FailAttempt, Return, Conclude, RecordAttempt, environment
<1> QED
  BY <1>3, <1>4, <1>5, <1>6, <1>7, <1>8, <1>9

(* A write that succeeds, and arming, are writes of the contract: they may  *)
(* change the slot that is not the fallback and nothing else.               *)
LEMMA WriteMaps ==
  ASSUME IInv, IInv', from_slot' = from_slot, candidate_digest' = candidate_digest,
         attempts' = attempts, phase \in {"writing", "candidate_ready"},
         phase' \in {"candidate_ready", "armed"},
         installed'[from_slot] = installed[from_slot]
  PROVE  Contract!Write
<1>1. phase \in OpenPhases /\ phase' \in OpenPhases
  BY DEF OpenPhases
<1>2. (phase = "trying") = FALSE /\ (phase' = "trying") = FALSE
  OBVIOUS
<1>3. OutcomeOf(phase) = "pending" /\ OutcomeOf(phase') = "pending"
  BY <1>1, OutcomeTable
<1>4. /\ ActiveOf(slots) = from_slot /\ ActiveOf(slots') = from_slot
      /\ phase # "idle" /\ phase' # "idle"
      /\ installed' \in [Contract!Sides -> Digests \cup {NoDigest, Partial}]
  BY <1>1, PendingMaps
<1> QED
  BY <1>2, <1>3, <1>4 DEF Contract!Write, Contract!FallbackKept

(* The bootloader hands control to the candidate: a trial of the contract.  *)
LEMMA TrialMaps ==
  ASSUME IInv, IInv', from_slot' = from_slot, candidate_digest' = candidate_digest,
         attempts' = attempts, phase = "armed", phase' = "trying",
         installed' = installed
  PROVE  Contract!Trial
<1>1. phase \in OpenPhases /\ phase' \in OpenPhases
  BY DEF OpenPhases
<1>2. (phase = "trying") = FALSE /\ (phase' = "trying") = TRUE
  OBVIOUS
<1>3. OutcomeOf(phase) = "pending" /\ OutcomeOf(phase') = "pending"
  BY <1>1, OutcomeTable
<1>4. /\ ActiveOf(slots) = from_slot /\ ActiveOf(slots') = from_slot
      /\ Contract!Other(from_slot) = to_slot
      /\ phase # "idle" /\ phase' # "idle" /\ Len(attempts) \in Nat
  BY <1>1, PendingMaps
<1>5. installed[to_slot] = candidate_digest
  BY DEF IInv, PhaseFields
<1>6. Len(attempts) < MaxAttempts
  <2>1. /\ slots[to_slot].tries_remaining \in 0..7
    BY <1>1, PendingInvariant, PendingFacts DEF SlotState
  <2>2. /\ slots[to_slot].tries_remaining > 0
        /\ Len(attempts) + slots[to_slot].tries_remaining = MaxAttempts
    BY DEF IInv, PhaseFields
  <2> QED  BY <1>4, <2>1, <2>2, MaxAttemptsAssumption
<1>7. /\ Len(attempts) + (IF phase = "trying" THEN 1 ELSE 0) = Len(attempts)
      /\ Len(attempts') + (IF phase' = "trying" THEN 1 ELSE 0) = Len(attempts) + 1
  BY <1>4
<1> QED
  BY <1>2, <1>3, <1>4, <1>5, <1>6, <1>7 DEF Contract!Trial

(* A passing verdict: the contract promotes the slot on trial.              *)
LEMMA PromoteMaps ==
  ASSUME IInv, IInv', from_slot' = from_slot, to_slot' = to_slot,
         candidate_digest' = candidate_digest,
         Len(attempts') = Len(attempts) + 1, phase = "trying", phase' = "promoted",
         installed' = installed
  PROVE  Contract!Promote
<1>1. phase \in OpenPhases
  BY DEF OpenPhases
<1>2. (phase = "trying") = TRUE /\ (phase' = "trying") = FALSE
  OBVIOUS
<1>3. OutcomeOf(phase') = "promoted" /\ phase' # "idle"
  BY OutcomeTable
<1>4. /\ from_slot \in Slots /\ to_slot \in Slots /\ from_slot # to_slot
      /\ PendingPair(slots, from_slot, to_slot) /\ TypeOK
  BY <1>1, PendingInvariant
<1>5. ActiveOf(slots) = from_slot /\ Contract!Other(from_slot) = to_slot
  BY <1>4, PendingRoles, OtherSlot
<1>6. ActiveOf(slots') = to_slot
  <2>1. ContractPair(slots') /\ slots'[to_slot].role = "active"
    BY DEF IInv, SettledFields
  <2> QED  BY <1>4, <2>1, ActiveIs
<1>7. /\ Len(attempts) + (IF phase = "trying" THEN 1 ELSE 0) = Len(attempts) + 1
      /\ Len(attempts') + (IF phase' = "trying" THEN 1 ELSE 0) = Len(attempts) + 1
  BY <1>4 DEF TypeOK
<1> QED
  BY <1>2, <1>3, <1>5, <1>6, <1>7 DEF Contract!Promote

(* A failing verdict with tries left: the target is back on its fallback.   *)
LEMMA FallBackMaps ==
  ASSUME IInv, IInv', from_slot' = from_slot, candidate_digest' = candidate_digest,
         Len(attempts') = Len(attempts) + 1, phase = "trying", phase' = "armed",
         installed' = installed
  PROVE  Contract!FallBack
<1>1. phase \in OpenPhases /\ phase' \in OpenPhases
  BY DEF OpenPhases
<1>2. (phase = "trying") = TRUE /\ (phase' = "trying") = FALSE
  OBVIOUS
<1>3. OutcomeOf(phase) = "pending" /\ OutcomeOf(phase') = "pending"
  BY <1>1, OutcomeTable
<1>4. /\ ActiveOf(slots) = from_slot /\ ActiveOf(slots') = from_slot
      /\ phase # "idle" /\ phase' # "idle" /\ Len(attempts) \in Nat
  BY <1>1, PendingMaps
<1>5. Len(attempts) + 1 < MaxAttempts
  <2>1. /\ slots'[to_slot'].tries_remaining > 0
        /\ Len(attempts') + slots'[to_slot'].tries_remaining = MaxAttempts
    BY DEF IInv, PhaseFields
  <2>2. slots' \in [Slots -> SlotState] /\ to_slot' \in Slots
    BY <1>1 DEF IInv, TypeOK, PhaseFields, PendingFields, PendingPair
  <2>3. slots'[to_slot'].tries_remaining \in 0..7
    BY <2>2 DEF SlotState
  <2> QED  BY <1>4, <2>1, <2>3, MaxAttemptsAssumption
<1>6. /\ Len(attempts) + (IF phase = "trying" THEN 1 ELSE 0) = Len(attempts) + 1
      /\ Len(attempts') + (IF phase' = "trying" THEN 1 ELSE 0) = Len(attempts) + 1
  BY <1>4
<1> QED
  BY <1>2, <1>3, <1>4, <1>5, <1>6 DEF Contract!FallBack

(* Every way to end without the new payload: the contract gives up.         *)
LEMMA GiveUpMaps ==
  ASSUME IInv, IInv', from_slot' = from_slot, candidate_digest' = candidate_digest,
         phase \in OpenPhases, phase' \in {"rolled_back", "refused"},
         phase' = "refused" => phase = "trying",
         phase = "trying" => Len(attempts') = Len(attempts) + 1 /\ installed' = installed,
         phase # "trying" => attempts' = attempts,
         installed'[from_slot] = installed[from_slot]
  PROVE  Contract!GiveUp
<1>1. /\ ActiveOf(slots) = from_slot /\ ActiveOf(slots') = from_slot
      /\ phase # "idle" /\ phase' # "idle" /\ Len(attempts) \in Nat
      /\ OutcomeOf(phase) = "pending"
      /\ installed' \in [Contract!Sides -> Digests \cup {NoDigest, Partial}]
  BY PendingMaps
<1>2. (phase' = "trying") = FALSE
  OBVIOUS
<1>3. /\ OutcomeOf(phase') \in {"rolled-back", "refused"}
      /\ OutcomeOf(phase') = "refused" => phase = "trying"
  BY OutcomeTable
<1>4. Len(attempts') + (IF phase' = "trying" THEN 1 ELSE 0)
        = Len(attempts) + (IF phase = "trying" THEN 1 ELSE 0)
  BY <1>1, <1>2
<1> QED
  BY <1>1, <1>2, <1>3, <1>4 DEF Contract!GiveUp, Contract!FallbackKept

(* A refusal or a tick changes nothing the contract speaks of.              *)
LEMMA QuietMaps ==
  ASSUME Refuse \/ Tick \/ UNCHANGED vars
  PROVE  UNCHANGED Contract!contractVars
<1>1. /\ slots' = slots /\ phase' = phase /\ attempts' = attempts
      /\ installed' = installed /\ candidate_digest' = candidate_digest
  BY DEF Refuse, Tick, vars, machine, environment
<1> QED
  BY <1>1 DEF Contract!contractVars

(* One step of the machine is one step of the contract, or none.            *)
LEMMA StepMaps ==
  ASSUME IInv, IInv', [Next]_vars
  PROVE  Contract!ContractNext \/ UNCHANGED Contract!contractVars
<1>1. CASE Refuse \/ Tick \/ UNCHANGED vars
  BY <1>1, QuietMaps
<1>2. ASSUME NEW d \in Digests, Begin(d) PROVE Contract!Open
  BY <1>2, BeginMaps
<1>3. ASSUME NEW d \in Digests, WriteComplete(d) PROVE Contract!Write \/ Contract!GiveUp
  <2>1. /\ phase = "writing" /\ phase \in OpenPhases
        /\ phase' \in {"candidate_ready", "rolled_back"} /\ attempts' = attempts
    BY <1>3, EventFacts DEF OpenPhases
  <2>2. from_slot' = from_slot /\ installed'[from_slot] = installed[from_slot]
    BY <1>3, <2>1, PendingFrame DEF Next
  <2>3. candidate_digest' = candidate_digest
    BY <1>3 DEF WriteComplete, Opened
  <2>4. CASE phase' = "candidate_ready"
    BY <2>1, <2>2, <2>3, <2>4, WriteMaps
  <2>5. CASE phase' = "rolled_back"
    BY <2>1, <2>2, <2>3, <2>5, GiveUpMaps
  <2> QED  BY <2>1, <2>4, <2>5
<1>4. CASE WriteFailed
  <2>1. phase = "writing" /\ phase' = "rolled_back" /\ attempts' = attempts
    BY <1>4, EventFacts
  <2>2. /\ UNCHANGED <<from_slot, candidate_digest, installed>> /\ phase \in OpenPhases
    BY <1>4, <2>1 DEF WriteFailed, Opened, environment, OpenPhases
  <2> QED  BY <2>1, <2>2, GiveUpMaps DEF Contract!ContractNext
<1>5. CASE Arm
  <2>1. /\ phase = "candidate_ready" /\ phase' = "armed"
        /\ attempts' = attempts /\ installed' = installed
    BY <1>5, EventFacts
  <2>2. UNCHANGED <<from_slot, candidate_digest>>
    BY <1>5 DEF Arm, Opened
  <2> QED  BY <2>1, <2>2, WriteMaps DEF Contract!ContractNext
<1>6. CASE BootAttempt
  <2>1. /\ phase = "armed" /\ phase' = "trying"
        /\ attempts' = attempts /\ installed' = installed
    BY <1>6, EventFacts
  <2>2. UNCHANGED <<from_slot, candidate_digest>>
    BY <1>6 DEF BootAttempt, Opened
  <2> QED  BY <2>1, <2>2, TrialMaps DEF Contract!ContractNext
<1>7. CASE ProbePass
  <2>1. /\ phase = "trying" /\ phase' = "promoted"
        /\ Len(attempts') = Len(attempts) + 1 /\ installed' = installed
    BY <1>7, EventFacts
  <2>2. UNCHANGED <<from_slot, to_slot, candidate_digest>>
    BY <1>7 DEF ProbePass, Opened
  <2> QED  BY <2>1, <2>2, PromoteMaps DEF Contract!ContractNext
<1>8. ASSUME NEW e \in {"probe_fail", "watchdog_expired"}, NEW res, NEW ss,
             FailAttempt(e, res, ss)
      PROVE  Contract!FallBack \/ Contract!GiveUp
  <2>1. /\ phase = "trying" /\ phase' \in {"armed", "refused"}
        /\ Len(attempts') = Len(attempts) + 1 /\ installed' = installed
    BY <1>8, EventFacts
  <2>2. UNCHANGED <<from_slot, candidate_digest>> /\ phase \in OpenPhases
    BY <1>8, <2>1 DEF FailAttempt, Opened, OpenPhases
  <2>3. CASE phase' = "armed"
    BY <2>1, <2>2, <2>3, FallBackMaps
  <2>4. CASE phase' = "refused"
    BY <2>1, <2>2, <2>4, GiveUpMaps
  <2> QED  BY <2>1, <2>3, <2>4
<1>9. CASE OperatorAbort
  <2>1. /\ phase \in OpenPhases /\ phase' = "rolled_back" /\ installed' = installed
        /\ phase = "trying" => Len(attempts') = Len(attempts) + 1
        /\ phase # "trying" => attempts' = attempts
    BY <1>9, EventFacts
  <2>2. UNCHANGED <<from_slot, candidate_digest>>
    BY <1>9 DEF OperatorAbort, Opened
  <2> QED  BY <2>1, <2>2, GiveUpMaps DEF Contract!ContractNext
<1> QED
  BY <1>1, <1>2, <1>3, <1>4, <1>5, <1>6, <1>7, <1>8, <1>9
     DEF Next, Verdict, ProbeFail, WatchdogExpired, Contract!ContractNext

(* The machine implements the contract: for every payload, budget and       *)
(* conforming target, a behaviour of AbUpdateMachine                        *)
(* (ab_update_machine.py:394-645) is a behaviour of AbContract.             *)
THEOREM ImplementsContract ==
  ASSUME ContractTarget
  PROVE  Spec => KeepsContract
<1>1. Init => Contract!ContractInit
  BY InitMaps
<1>2. IInv /\ IInv' /\ [Next]_vars => [Contract!ContractNext]_Contract!contractVars
  BY StepMaps
<1> QED
  BY <1>1, <1>2, Invariance, PTL DEF Spec, KeepsContract, Contract!ContractSpec

(* What a step owes that makes a slot successful.                           *)
Earned ==
  \A s \in Slots : ~slots[s].successful /\ slots'[s].successful =>
    /\ phase = "trying" /\ s = to_slot
    /\ slots[s].currently_running
    /\ Len(attempts') = Len(attempts) + 1
    /\ attempts'[Len(attempts')].result = "pass"
    /\ installed[s] = candidate_digest

(* Only a passing verdict makes a slot successful.                          *)
LEMMA OnlyPassMarks ==
  ASSUME IInv, IInv', [Next]_vars, ~ProbePass
  PROVE  \A s \in Slots : ~slots[s].successful => ~slots'[s].successful
<1>1. CASE Refuse \/ Tick \/ UNCHANGED vars
  BY <1>1 DEF Refuse, Tick, vars
<1>2. ASSUME phase' \notin {"idle", "promoted"},
             \A u \in Slots : u = from_slot' /\ ~slots[u].successful => ~slots'[u].successful
      PROVE  \A s \in Slots : ~slots[s].successful => ~slots'[s].successful
  <2>1. ~slots'[to_slot'].successful
    BY <1>2 DEF IInv, TypeOK, PHASES, OpenPhases, PhaseFields, PendingFields,
       SettledFields
  <2>2. \A u \in Slots : u = from_slot' \/ u = to_slot'
    BY <1>2 DEF IInv, PreservedFields, Slots
  <2> QED  BY <1>2, <2>1, <2>2
<1>3. ASSUME NEW d \in Digests, Begin(d)
      PROVE  \A s \in Slots : ~slots[s].successful => ~slots'[s].successful
  <2>1. /\ phase' = "writing" /\ from_slot' = ActiveOf(slots)
        /\ slots'[ActiveOf(slots)] = slots[ActiveOf(slots)]
    BY <1>3, BeginFrame
  <2> QED  BY <1>2, <2>1
<1>4. CASE Next /\ phase \in OpenPhases /\ ~(Refuse \/ Tick) /\ ~\E d \in Digests : Begin(d)
  <2>1. from_slot' = from_slot /\ phase' # "idle" /\ slots[from_slot].successful
    BY <1>4, PendingFrame DEF IInv, PreservedFields, OpenPhases
  <2>2. ASSUME NEW e \in {"probe_fail", "watchdog_expired"}, NEW res, NEW ss,
               FailAttempt(e, res, ss)
        PROVE  phase' # "promoted"
    BY <2>2, EventFacts
  <2>3. ProbeFail \/ (\E a \in EXPIRY_ACTIONS : WatchdogExpired(a)) => phase' # "promoted"
    BY <2>2 DEF ProbeFail, WatchdogExpired
  <2>4. (\E d \in Digests : WriteComplete(d)) \/ WriteFailed \/ Arm \/ BootAttempt
          \/ OperatorAbort => phase' # "promoted"
    BY EventFacts
  <2>5. phase' # "promoted"
    BY <1>4, <2>3, <2>4 DEF Next, Verdict
  <2> QED  BY <1>2, <2>1, <2>5
<1>5. CASE Next /\ phase = "idle" /\ ~(Refuse \/ Tick)
  <2>1. \E d \in Digests : Begin(d)
    BY <1>5, OfferFacts DEF Next, Verdict, WriteComplete, WriteFailed, Arm,
       BootAttempt, ProbePass, ProbeFail, WatchdogExpired, FailAttempt, OperatorAbort,
       OpenPhases
  <2> QED  BY <1>3, <2>1
<1>6. phase \in {"idle"} \cup OpenPhases \cup TERMINAL_PHASES
  BY DEF IInv, TypeOK, PHASES, OpenPhases, TERMINAL_PHASES
<1> QED  BY <1>1, <1>3, <1>4, <1>5, <1>6, SettledFrame

LEMMA EarnedStep ==
  ASSUME IInv, IInv', [Next]_vars
  PROVE  Earned
<1> USE DEF Earned
<1>1. CASE ProbePass
  <2>1. /\ phase = "trying" /\ phase' = "promoted"
        /\ Len(attempts') = Len(attempts) + 1
    BY <1>1, EventFacts
  <2>2. /\ from_slot \in Slots /\ to_slot \in Slots /\ from_slot # to_slot
        /\ slots[from_slot].successful
    BY <2>1 DEF IInv, PreservedFields
  <2>3. \A s \in Slots : ~slots[s].successful => s = to_slot
    BY <2>2 DEF Slots
  <2>4. slots[to_slot].currently_running /\ installed[to_slot] = candidate_digest
    BY <2>1, TrialInvariant
  <2>5. attempts'[Len(attempts')].result = "pass"
    <3>1. attempts \in Seq(AttemptRecord)
      BY DEF IInv, TypeOK
    <3>2. \E n, c : attempts' = Append(attempts,
            [attempt_number |-> n, started_at |-> now, result |-> "pass",
             fell_back_to |-> NoSlot, tries_remaining_after |-> c])
      BY <1>1 DEF ProbePass, RecordAttempt
    <3> QED  BY <2>1, <3>1, <3>2
  <2> QED  BY <2>1, <2>3, <2>4, <2>5
<1>2. CASE ~ProbePass
  BY <1>2, OnlyPassMarks
<1> QED  BY <1>1, <1>2

(* A slot becomes successful only on a recorded pass of a trial that is     *)
(* running the payload the transaction was opened for (probe_pass, 520-543).*)
THEOREM PromotionIsEarned ==
  ASSUME ContractTarget
  PROVE  Spec => PromotionEarned
<1>1. IInv /\ IInv' /\ [Next]_vars => Earned
  BY EarnedStep
<1> QED
  BY <1>1, Invariance, PTL DEF Spec, PromotionEarned, Earned
==============================================================================
