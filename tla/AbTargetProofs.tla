---------------------------- MODULE AbTargetProofs ----------------------------
(***************************************************************************)
(* The promises of AbTarget, for every number of transactions and a crash  *)
(* between any two events.  Slot documents are read back as they were      *)
(* emitted, so a restart finds the slots the last machine left; the        *)
(* invariant IInv of one machine then is that of the target.               *)
(***************************************************************************)
EXTENDS AbTarget, AbRefinementProofs

------------------------------------------------------------------------------
(* A restart begins a transaction on the slots as they are.                 *)
LEMMA RebuildFacts ==
  ASSUME ContractPair(slots), Rebuild
  PROVE  /\ UNCHANGED <<slots, installed, now, handed_at>>
         /\ phase' = "idle" /\ attempts' = <<>> /\ candidate_digest' = Unset
         /\ preserved_digest' = Unset /\ rollback_reason' = NoReason
         /\ from_slot' = NoSlot /\ to_slot' = NoSlot
         /\ reply' = Reply("none", NoSlot)
<1>1. ReadSlots(Documents(slots)) = slots
  BY RoundTrip DEF ContractPair
<1> QED  BY <1>1 DEF Rebuild, Construct, environment

LEMMA RebuildKeeps ==
  ASSUME IInv, Rebuild
  PROVE  IInv'
<1>1. ContractPair(slots) /\ TypeOK
  BY DEF IInv
<1>2. Construct(slots) /\ UNCHANGED environment
  BY <1>1, RoundTrip DEF Rebuild, ContractPair
<1> QED  BY <1>1, <1>2, ConstructInvariant DEF MediaOK, TypeOK, environment

(* The invariant of one machine is an invariant of the target.              *)
LEMMA TargetStep ==
  ASSUME IInv, [TargetNext]_targetVars
  PROVE  IInv'
<1>1. CASE Next
  BY <1>1, NextInvariant
<1>2. CASE Rebuild
  BY <1>2, RebuildKeeps
<1>3. CASE UNCHANGED vars
  BY <1>3, NextInvariant
<1> QED  BY <1>1, <1>2, <1>3 DEF TargetNext, Event, targetVars

(* A step that concerns no slot: a refusal, a tick, a restart, a stutter.   *)
LEMMA IdleStep ==
  ASSUME IInv, Refuse \/ Tick \/ Rebuild \/ UNCHANGED vars
  PROVE  slots' = slots /\ installed' = installed
<1>1. ContractPair(slots)
  BY DEF IInv
<1> QED  BY <1>1, RebuildFacts DEF Refuse, Tick, vars, environment

(* Every other step is of a pending transaction, or opens one.              *)
LEMMA StepCases ==
  ASSUME IInv, [TargetNext]_targetVars
  PROVE  \/ Refuse \/ Tick \/ Rebuild \/ UNCHANGED vars
         \/ Next /\ phase \in OpenPhases
         \/ \E d \in Digests : Begin(d)
<1>1. CASE Next /\ phase = "idle"
  BY <1>1, OfferFacts DEF Next, Verdict, WriteComplete, WriteFailed, Arm,
     BootAttempt, ProbePass, ProbeFail, WatchdogExpired, FailAttempt, OperatorAbort,
     OpenPhases
<1>2. CASE Next /\ phase \in TERMINAL_PHASES
  BY <1>2, SettledFrame
<1>3. phase \in {"idle"} \cup OpenPhases \cup TERMINAL_PHASES
  BY DEF IInv, TypeOK, PHASES, OpenPhases, TERMINAL_PHASES
<1> QED  BY <1>1, <1>2, <1>3 DEF TargetNext, Event, targetVars

(* The roles in a conforming pair.                                          *)
LEMMA ActiveFacts ==
  ASSUME NEW ss, ContractPair(ss)
  PROVE  /\ ActiveOf(ss) \in Slots /\ CandidateOf(ss) \in Slots
         /\ ActiveOf(ss) # CandidateOf(ss)
         /\ \A s \in Slots : s = ActiveOf(ss) \/ s = CandidateOf(ss)
         /\ ss[ActiveOf(ss)].role = "active"
         /\ ss[ActiveOf(ss)].successful /\ ss[ActiveOf(ss)].boot_priority >= 1
         /\ ss[ActiveOf(ss)].payload_digest \in Digests
         /\ ss \in [Slots -> SlotState]
<1>1. /\ OneActive(ss) /\ \A s \in Slots : ss[s].role \in {"active", "candidate"}
      /\ ss \in [Slots -> SlotState]
  BY DEF ContractPair, SlotState
<1>2. /\ ActiveOf(ss) \in Slots /\ CandidateOf(ss) \in Slots
      /\ ActiveOf(ss) # CandidateOf(ss) /\ ss[ActiveOf(ss)].role = "active"
  BY <1>1, RolesLemma
<1>3. \A s \in Slots : s = ActiveOf(ss) \/ s = CandidateOf(ss)
  BY <1>2 DEF Slots
<1>4. /\ ss[ActiveOf(ss)].successful /\ ss[ActiveOf(ss)].boot_priority >= 1
      /\ ss[ActiveOf(ss)].payload_digest # NoDigest
  BY <1>2 DEF ContractPair, ConformantSlot
<1>5. ss[ActiveOf(ss)].payload_digest \in Digests
  BY <1>1, <1>2, <1>4 DEF SlotState
<1> QED  BY <1>1, <1>2, <1>3, <1>4, <1>5

------------------------------------------------------------------------------
(* What is marked successful is installed.                                  *)

(* A passing verdict marks the slot whose medium holds what its document    *)
(* names.                                                                   *)
LEMMA PassInstalls ==
  ASSUME IInv, ProbePass
  PROVE  /\ installed' = installed /\ phase \in OpenPhases
         /\ slots'[to_slot].payload_digest = installed[to_slot]
<1>1. PICK rule \in Offer("probe_pass", NoDigest, slots) :
        /\ Return(PromotedSlots(slots, from_slot, to_slot), rule.to_phase, NoSlot)
        /\ UNCHANGED environment
  BY DEF ProbePass
<1>2. /\ phase \in OpenPhases /\ slots[to_slot].currently_running
      /\ installed[to_slot] = candidate_digest
  BY <1>1, OfferFacts, TrialInvariant
<1>3. /\ PendingPair(slots, from_slot, to_slot) /\ candidate_digest \in Digests
      /\ slots[to_slot].payload_digest = candidate_digest
  BY <1>2, PendingInvariant
<1>4. PromotedSlots(slots, from_slot, to_slot)[to_slot].payload_digest = candidate_digest
  BY <1>2, <1>3, PromotedLemma, DigestsAssumption
<1> QED  BY <1>1, <1>2, <1>4 DEF Return, Conclude, environment

LEMMA GoodStep ==
  ASSUME IInv, IInv', GoodPayloadIsInstalled, [TargetNext]_targetVars
  PROVE  GoodPayloadIsInstalled'
<1> USE DEF GoodPayloadIsInstalled
<1>1. CASE Refuse \/ Tick \/ Rebuild \/ UNCHANGED vars
  BY <1>1, IdleStep
<1>2. \A s \in Slots : slots[s].role = "active" => slots[s].successful
  BY DEF IInv, ContractPair, ConformantSlot
<1>3. CASE Next /\ phase \in OpenPhases
  <2>1. /\ from_slot \in Slots /\ to_slot \in Slots /\ slots[from_slot].role = "active"
        /\ ~slots[to_slot].successful /\ \A s \in Slots : s = from_slot \/ s = to_slot
    BY <1>3, PendingInvariant, PendingFacts
  <2>2. installed'[from_slot] = slots'[from_slot].payload_digest
    BY <1>2, <1>3, <2>1, KeptStep DEF ActiveKept
  <2>3. slots'[to_slot].successful => installed'[to_slot] = slots'[to_slot].payload_digest
    BY <1>3, <2>1, OnlyPassMarks, PassInstalls
  <2> QED  BY <2>1, <2>2, <2>3
<1>4. ASSUME NEW d \in Digests, Begin(d) PROVE GoodPayloadIsInstalled'
  <2>1. /\ phase' = "writing" /\ from_slot' = ActiveOf(slots)
        /\ slots'[ActiveOf(slots)] = slots[ActiveOf(slots)]
        /\ installed'[ActiveOf(slots)] = installed[ActiveOf(slots)]
    BY <1>4, BeginFrame
  <2>2. ~slots'[to_slot'].successful /\ PendingPair(slots', from_slot', to_slot')
    BY <2>1 DEF IInv, PhaseFields, PendingFields, OpenPhases
  <2>3. \A s \in Slots : s = ActiveOf(slots) \/ s = to_slot'
    BY <2>1, <2>2 DEF PendingPair, Slots
  <2>4. ActiveOf(slots) \in Slots
    BY ActiveFacts DEF IInv
  <2> QED  BY <2>1, <2>2, <2>3, <2>4
<1> QED  BY <1>1, <1>3, <1>4, StepCases

LEMMA GoodInit ==
  ASSUME ContractTarget, Init
  PROVE  GoodPayloadIsInstalled
BY DEF Init, GoodPayloadIsInstalled

(* Then there is always something to fall back to.                          *)
LEMMA FallbackFacts ==
  ASSUME IInv, GoodPayloadIsInstalled
  PROVE  FallbackNeverLost
<1>1. ContractPair(slots)
  BY DEF IInv
<1>2. ConstructorAccepts(slots)
  BY <1>1 DEF ContractPair, ConformantSlot, ConstructorAccepts
<1>3. /\ ActiveOf(slots) \in Slots /\ slots[ActiveOf(slots)].successful
      /\ slots[ActiveOf(slots)].boot_priority >= 1
      /\ slots[ActiveOf(slots)].payload_digest \in Digests
  BY <1>1, ActiveFacts
<1>4. slots[ActiveOf(slots)].boot_priority \in 0..15
  BY <1>1, <1>3 DEF ContractPair, SlotState
<1> QED  BY <1>2, <1>3, <1>4 DEF FallbackNeverLost, GoodPayloadIsInstalled, Selectable

(* What may be selected holds what its document names: in a settled or an   *)
(* armed transaction each slot is successful, or has no priority, or holds  *)
(* the candidate.                                                           *)
WriteIsOver == phase \notin {"idle", "writing"}

LEMMA SelectableSettled ==
  IInv /\ GoodPayloadIsInstalled /\ WriteIsOver => SelectableHoldsPayload
<1> SUFFICES ASSUME IInv, GoodPayloadIsInstalled, phase \notin {"idle", "writing"}
             PROVE  SelectableHoldsPayload
  BY DEF WriteIsOver
<1>1. /\ from_slot \in Slots /\ to_slot \in Slots /\ slots[from_slot].successful
      /\ \A s \in Slots : s = from_slot \/ s = to_slot
  BY DEF IInv, PreservedFields, Slots
<1>2. installed[from_slot] = slots[from_slot].payload_digest
  BY <1>1 DEF GoodPayloadIsInstalled
<1>3. CASE phase \in {"candidate_ready", "armed", "trying"}
  <2>1. installed[to_slot] = slots[to_slot].payload_digest
    BY <1>3, PendingInvariant DEF IInv, PhaseFields, OpenPhases
  <2> QED  BY <1>1, <1>2, <2>1 DEF SelectableHoldsPayload
<1>4. CASE phase = "promoted"
  <2>1. slots[to_slot].successful
    BY <1>1, <1>4 DEF IInv, SettledFields, ContractPair, ConformantSlot
  <2> QED  BY <1>1, <1>2, <2>1 DEF SelectableHoldsPayload, GoodPayloadIsInstalled
<1>5. CASE phase \in {"rolled_back", "refused"}
  <2>1. ~Selectable(slots[to_slot])
    BY <1>5 DEF IInv, SettledFields, Selectable
  <2> QED  BY <1>1, <1>2, <2>1 DEF SelectableHoldsPayload
<1> QED  BY <1>3, <1>4, <1>5 DEF IInv, TypeOK, PHASES

LEMMA SelectableStep ==
  ASSUME IInv, IInv', GoodPayloadIsInstalled', SelectableHoldsPayload, [TargetNext]_targetVars
  PROVE  SelectableHoldsPayload'
<1>1. CASE Refuse \/ Tick \/ Rebuild \/ UNCHANGED vars
  BY <1>1, IdleStep DEF SelectableHoldsPayload
<1>2. ASSUME NEW d \in Digests, Begin(d) PROVE SelectableHoldsPayload'
  <2>1. phase' = "writing" /\ slots' = WritingSlots(slots, CandidateOf(slots), d)
    BY <1>2, BeginFrame DEF Begin, Conclude
  <2>2. /\ ContractPair(slots) /\ slots \in [Slots -> SlotState]
        /\ CandidateOf(slots) \in Slots /\ ActiveOf(slots) \in Slots
        /\ ActiveOf(slots) # CandidateOf(slots)
        /\ \A s \in Slots : s = ActiveOf(slots) \/ s = CandidateOf(slots)
        /\ slots[ActiveOf(slots)].successful
    BY ActiveFacts DEF IInv
  <2>3. slots'[CandidateOf(slots)].state = "writing"
    BY <2>1, <2>2 DEF WritingSlots, SlotState
  <2>4. slots'[ActiveOf(slots)].successful
    BY <2>1, <2>2 DEF WritingSlots
  <2> QED  BY <2>2, <2>3, <2>4 DEF SelectableHoldsPayload, GoodPayloadIsInstalled
<1>3. ASSUME phase' \notin {"idle", "writing"} PROVE SelectableHoldsPayload'
  <2>1. WriteIsOver'
    BY <1>3 DEF WriteIsOver
  <2> QED  BY <2>1, SelectableSettled, PTL
<1>4. \A d : WriteComplete(d) => phase' \in {"candidate_ready", "rolled_back"}
  BY EventFacts
<1>5. /\ WriteFailed \/ OperatorAbort => phase' = "rolled_back"
      /\ Arm => phase' = "armed"
      /\ BootAttempt => phase' = "trying"
      /\ Verdict => phase' \in {"promoted", "armed", "refused"}
  BY EventFacts DEF Verdict, ProbeFail, WatchdogExpired
<1> QED
  BY <1>1, <1>2, <1>3, <1>4, <1>5 DEF TargetNext, Event, Next, targetVars

------------------------------------------------------------------------------
(* A slot a reply names as fallback is running.                             *)
LEMMA FallbackSettled ==
  ASSUME IInv', phase' \in {"rolled_back", "refused"},
         reply'.fell_back_to \in {from_slot', NoSlot}
  PROVE  FallbackIsRunning'
<1>1. /\ from_slot' \in Slots /\ slots'[from_slot'].currently_running
      /\ slots'[from_slot'].successful /\ slots'[from_slot'].boot_priority = 15
  BY DEF IInv, SettledFields, PreservedFields
<1> QED  BY <1>1 DEF FallbackIsRunning, Selectable

LEMMA FallbackRetried ==
  ASSUME IInv, IInv', NEW e \in {"probe_fail", "watchdog_expired"}, NEW res, NEW ss,
         ss = slots \/ ss = SpentSlots(slots, to_slot), FailAttempt(e, res, ss)
  PROVE  FallbackIsRunning'
<1>1. PICK rule \in Offer(e, NoDigest, ss) :
        /\ \/ /\ rule.to_phase = "refused"
              /\ Return(UnbootableSlots(FellBackSlots(ss, from_slot, to_slot),
                                        from_slot, to_slot), rule.to_phase, from_slot)
           \/ /\ rule.to_phase # "refused"
              /\ Return(FellBackSlots(ss, from_slot, to_slot), rule.to_phase, from_slot)
        /\ UNCHANGED Opened
  BY DEF FailAttempt
<1>2. /\ phase = "trying" /\ phase' = rule.to_phase /\ phase' \in {"armed", "refused"}
      /\ from_slot' = from_slot /\ reply'.fell_back_to \in {from_slot, NoSlot}
  BY <1>1, OfferFacts DEF Return, Conclude, Reply, Opened
<1>3. CASE phase' = "refused"
  BY <1>2, <1>3, FallbackSettled
<1>4. CASE phase' = "armed"
  <2>1. slots' = FellBackSlots(ss, from_slot, to_slot)
    BY <1>1, <1>2, <1>4 DEF Return, Conclude
  <2>2. /\ from_slot \in Slots /\ to_slot \in Slots /\ from_slot # to_slot
        /\ slots \in [Slots -> SlotState]
    BY <1>2, PendingInvariant, PendingFacts DEF OpenPhases
  <2>3. ss[from_slot] = slots[from_slot] /\ from_slot \in DOMAIN ss
    BY <2>2 DEF SpentSlots
  <2>4. slots[from_slot] \in SlotState
    BY <2>2
  <2>5. slots'[from_slot].currently_running
    BY <2>1, <2>2, <2>3, <2>4 DEF FellBackSlots, SlotState
  <2>6. slots'[from_slot].successful /\ slots'[from_slot].boot_priority = 14
    BY <1>2, <1>4 DEF IInv, PhaseFields, ArmedFields, PreservedFields
  <2> QED  BY <1>2, <2>5, <2>6 DEF FallbackIsRunning, Selectable
<1> QED  BY <1>2, <1>3, <1>4

LEMMA FallbackStep ==
  ASSUME IInv, IInv', FallbackIsRunning, [TargetNext]_targetVars
  PROVE  FallbackIsRunning'
<1>1. CASE Refuse \/ Rebuild
  <2>1. ContractPair(slots)
    BY DEF IInv
  <2>2. reply'.fell_back_to = NoSlot
    BY <1>1, <2>1, RebuildFacts DEF Refuse, Reply
  <2> QED  BY <2>2 DEF FallbackIsRunning
<1>2. CASE Tick \/ UNCHANGED vars
  BY <1>2 DEF Tick, vars, FallbackIsRunning
<1>3. ASSUME NEW d, WriteComplete(d) PROVE FallbackIsRunning'
  <2>1. \/ phase' = "rolled_back" /\ reply'.fell_back_to \in {from_slot', NoSlot}
        \/ reply'.fell_back_to = NoSlot
    BY <1>3 DEF WriteComplete, Return, Conclude, Reply, Opened
  <2> QED  BY <2>1, FallbackSettled DEF FallbackIsRunning
<1>4. CASE WriteFailed \/ OperatorAbort
  <2>1. phase' = "rolled_back" /\ reply'.fell_back_to \in {from_slot', NoSlot}
    BY <1>4, OfferFacts DEF WriteFailed, OperatorAbort, Return, Conclude, Reply, Opened
  <2> QED  BY <2>1, FallbackSettled
<1>5. CASE Arm \/ BootAttempt \/ ProbePass \/ \E d \in Digests : Begin(d)
  <2>1. reply'.fell_back_to = NoSlot
    BY <1>5 DEF Arm, BootAttempt, ProbePass, Begin, Return, Conclude, Reply
  <2> QED  BY <2>1 DEF FallbackIsRunning
<1>6. CASE ProbeFail \/ \E a \in EXPIRY_ACTIONS : WatchdogExpired(a)
  BY <1>6, FallbackRetried DEF ProbeFail, WatchdogExpired
<1> QED
  BY <1>1, <1>2, <1>3, <1>4, <1>5, <1>6 DEF TargetNext, Event, Next, Verdict, targetVars

------------------------------------------------------------------------------
(* The ledger.  While a transaction is pending no entry of it has given a   *)
(* budget up, so the tries left after each one follow from its number.      *)
LedgerInv ==
  /\ AttemptLedger
  /\ phase \in OpenPhases =>
       \A i \in 1..Len(attempts) : attempts[i].tries_remaining_after = MaxAttempts - i

LEMMA PendingEntries ==
  ASSUME IInv, LedgerInv, phase \in OpenPhases
  PROVE  /\ attempts \in Seq(AttemptRecord) /\ Len(attempts) \in Nat
         /\ \A i \in 1..Len(attempts) :
              /\ attempts[i].attempt_number = i
              /\ attempts[i].tries_remaining_after = MaxAttempts - i
              /\ attempts[i].result # "pass" /\ attempts[i].result # "aborted"
              /\ attempts[i].fell_back_to = from_slot
<1>1. /\ attempts \in Seq(AttemptRecord) /\ rollback_reason = NoReason
      /\ phase # "promoted"
  BY DEF IInv, TypeOK, ReasonFields, OpenPhases
<1> QED  BY <1>1 DEF LedgerInv, AttemptLedger, NoReason

LEMMA SameEntries ==
  ASSUME IInv, LedgerInv, phase \in OpenPhases, attempts' = attempts,
         from_slot' = from_slot, phase' # "promoted"
  PROVE  LedgerInv'
BY PendingEntries DEF LedgerInv, AttemptLedger

LEMMA NoEntries ==
  ASSUME attempts' = <<>>
  PROVE  LedgerInv'
<1>1. Len(attempts') = 0
  OBVIOUS
<1>2. 1..Len(attempts') = {}
  BY <1>1
<1> QED  BY <1>2 DEF LedgerInv, AttemptLedger

(* The verdict on a trial is entered behind the entries there are.          *)
LEMMA NewEntry ==
  ASSUME IInv, LedgerInv, phase = "trying", from_slot' = from_slot,
         phase' \in PHASES, NEW result \in Results, NEW tries \in 0..7,
         attempts' = Append(attempts,
           [attempt_number        |-> Len(attempts) + 1,
            started_at            |-> now,
            result                |-> result,
            fell_back_to          |-> IF result = "pass" THEN NoSlot ELSE from_slot,
            tries_remaining_after |-> tries]),
         result = "pass" <=> phase' = "promoted",
         result = "aborted" => rollback_reason' = "operator-abort",
         \/ tries = MaxAttempts - (Len(attempts) + 1)
         \/ tries = 0 /\ result = "watchdog-expired" /\ phase' \notin OpenPhases
  PROVE  LedgerInv'
<1> DEFINE n == Len(attempts) + 1
           entry == [attempt_number        |-> n,
                     started_at            |-> now,
                     result                |-> result,
                     fell_back_to          |-> IF result = "pass" THEN NoSlot ELSE from_slot,
                     tries_remaining_after |-> tries]
<1>1. phase \in OpenPhases
  BY DEF OpenPhases
<1>2. /\ attempts \in Seq(AttemptRecord) /\ Len(attempts) \in Nat
      /\ \A i \in 1..Len(attempts) :
           /\ attempts[i].attempt_number = i
           /\ attempts[i].tries_remaining_after = MaxAttempts - i
           /\ attempts[i].result # "pass" /\ attempts[i].result # "aborted"
           /\ attempts[i].fell_back_to = from_slot
  BY <1>1, PendingEntries
<1>3. /\ entry.attempt_number = n /\ entry.result = result
      /\ entry.tries_remaining_after = tries
      /\ entry.fell_back_to = IF result = "pass" THEN NoSlot ELSE from_slot
  OBVIOUS
<1>4. /\ Len(attempts') = n /\ attempts'[n] = entry
      /\ \A i \in 1..Len(attempts) : attempts'[i] = attempts[i]
  <2> HIDE DEF entry
  <2>1. attempts' = Append(attempts, entry)
    BY DEF entry
  <2> QED  BY <1>2, <2>1
<1> HIDE DEF entry
<1>5. \A i \in 1..n : i = n \/ i \in 1..Len(attempts)
  BY <1>2
<1>6. AttemptLedger'
  BY <1>2, <1>3, <1>4, <1>5 DEF AttemptLedger
<1>7. phase' \in OpenPhases =>
        \A i \in 1..Len(attempts') : attempts'[i].tries_remaining_after = MaxAttempts - i
  BY <1>2, <1>3, <1>4, <1>5
<1> QED  BY <1>6, <1>7 DEF LedgerInv

(* A trial that ends in any way is entered with what was left of the budget.*)
LEMMA VerdictEntered ==
  ASSUME IInv, IInv', LedgerInv, phase = "trying", from_slot' = from_slot,
         NEW ss, ss = slots \/ ss = SpentSlots(slots, to_slot),
         NEW result \in Results,
         RecordAttempt(result, IF result = "pass" THEN NoSlot ELSE from_slot, ss),
         result = "pass" <=> phase' = "promoted",
         result = "aborted" => rollback_reason' = "operator-abort",
         ss # slots => result = "watchdog-expired" /\ phase' \notin OpenPhases
  PROVE  LedgerInv'
<1>1. /\ phase \in OpenPhases /\ slots[to_slot].tries_remaining \in 0..7
      /\ attempts \in Seq(AttemptRecord)
      /\ Len(attempts) + slots[to_slot].tries_remaining + 1 = MaxAttempts
  BY TrialInvariant
<1>2. PendingPair(slots, from_slot, to_slot) /\ ~slots[to_slot].successful
  BY <1>1, PendingInvariant
<1>3. /\ PendingPair(ss, from_slot, to_slot)
      /\ \/ ss[to_slot] = slots[to_slot] /\ ss = slots
         \/ ss[to_slot] = [slots[to_slot] EXCEPT !.tries_remaining = 0] /\ ss # slots
  <2>1. CASE ss = slots
    BY <1>2, <2>1
  <2>2. CASE ss = SpentSlots(slots, to_slot) /\ ss # slots
    BY <1>2, <2>2, PendingFacts, SpentLemma
  <2> QED  BY <2>1, <2>2
<1>4. slots[to_slot] \in SlotState /\ CandidateOf(ss) = to_slot
  BY <1>2, <1>3, PendingFacts, PendingRoles
<1> DEFINE tries == ss[CandidateOf(ss)].tries_remaining
<1>5. /\ tries \in 0..7
      /\ \/ tries = MaxAttempts - (Len(attempts) + 1)
         \/ tries = 0 /\ ss # slots
  <2>1. Len(attempts) \in Nat
    BY <1>1
  <2>2. CASE ss = slots
    <3>1. tries = slots[to_slot].tries_remaining
      BY <1>4, <2>2
    <3>2. tries \in 0..7 /\ Len(attempts) + tries + 1 = MaxAttempts
      BY <1>1, <3>1
    <3> HIDE DEF tries
    <3> QED  BY <2>1, <3>2, BudgetLeft
  <2>3. CASE ss # slots
    <3>1. ss[to_slot] = [slots[to_slot] EXCEPT !.tries_remaining = 0]
      BY <1>3, <2>3
    <3>2. ss[to_slot].tries_remaining = 0
      BY <1>4, <3>1, Zenon DEF SlotState
    <3>3. tries = 0
      BY <1>4, <3>2
    <3> HIDE DEF tries
    <3> QED  BY <2>3, <3>3
  <2> QED  BY <2>2, <2>3
<1>6. phase' \in PHASES
  BY DEF IInv, TypeOK
<1>7. attempts' = Append(attempts,
           [attempt_number        |-> Len(attempts) + 1,
            started_at            |-> now,
            result                |-> result,
            fell_back_to          |-> IF result = "pass" THEN NoSlot ELSE from_slot,
            tries_remaining_after |-> tries])
  BY DEF RecordAttempt
<1> HIDE DEF tries
<1> QED  BY <1>5, <1>6, <1>7, NewEntry

(* A failed attempt leaves the watchdog's loss of the budget only in a      *)
(* ledger that is closed.                                                   *)
LEMMA FailureEntered ==
  ASSUME IInv, IInv', LedgerInv, NEW ss,
         ss = slots \/ (phase = "trying" /\ ss = SpentSlots(slots, to_slot)),
         NEW e \in {"probe_fail", "watchdog_expired"},
         NEW result \in {"probe-failed", "watchdog-expired"},
         ss # slots => result = "watchdog-expired",
         FailAttempt(e, result, ss)
  PROVE  LedgerInv'
<1>1. PICK rule \in Offer(e, NoDigest, ss) :
        /\ RecordAttempt(result, from_slot, ss)
        /\ phase' = rule.to_phase
        /\ UNCHANGED Opened
  BY DEF FailAttempt, Return, Conclude
<1>2. /\ phase = "trying" /\ phase' # "promoted" /\ from_slot' = from_slot
      /\ \/ phase' = "refused"
         \/ phase' = "armed" /\ ss[CandidateOf(ss)].tries_remaining > 0
  BY <1>1, OfferFacts DEF Opened
<1>3. ss # slots => phase' \notin OpenPhases
  <2>1. PendingPair(slots, from_slot, to_slot) /\ ~slots[to_slot].successful
    BY <1>2, PendingInvariant DEF OpenPhases
  <2>2. slots[to_slot] \in SlotState
    BY <2>1, PendingFacts
  <2>3. ASSUME ss = SpentSlots(slots, to_slot)
        PROVE  /\ PendingPair(ss, from_slot, to_slot)
               /\ ss[to_slot] = [slots[to_slot] EXCEPT !.tries_remaining = 0]
    <3>1. /\ PendingPair(SpentSlots(slots, to_slot), from_slot, to_slot)
          /\ SpentSlots(slots, to_slot)[to_slot]
               = [slots[to_slot] EXCEPT !.tries_remaining = 0]
      BY <2>1, SpentLemma
    <3> QED  BY <2>3, <3>1
  <2>4. ss # slots => ss[CandidateOf(ss)].tries_remaining = 0
    BY <2>2, <2>3, PendingRoles DEF SlotState
  <2> QED  BY <1>2, <2>4 DEF OpenPhases
<1> QED  BY <1>1, <1>2, <1>3, VerdictEntered DEF Results

LEMMA LedgerStep ==
  ASSUME IInv, IInv', LedgerInv, [TargetNext]_targetVars
  PROVE  LedgerInv'
<1>1. CASE Refuse \/ Tick \/ UNCHANGED vars
  BY <1>1 DEF Refuse, Tick, vars, machine, LedgerInv, AttemptLedger
<1>2. CASE Rebuild
  BY <1>2, NoEntries DEF Rebuild, Construct
<1>3. CASE WriteFailed \/ Arm \/ \E d \in Digests : Begin(d) \/ WriteComplete(d)
  <2>1. phase \in {"idle", "writing", "candidate_ready"} /\ attempts' = attempts
    BY <1>3, EventFacts, BeginFrame
  <2>2. attempts' = <<>>
    BY <2>1 DEF IInv, PhaseFields
  <2> QED  BY <2>2, NoEntries
<1>4. CASE BootAttempt
  <2>1. /\ phase \in OpenPhases /\ phase' # "promoted" /\ attempts' = attempts
        /\ from_slot' = from_slot
    BY <1>4, EventFacts DEF BootAttempt, Opened, OpenPhases
  <2> QED  BY <2>1, SameEntries
<1>5. CASE ProbePass
  <2>1. /\ phase = "trying" /\ phase' = "promoted" /\ from_slot' = from_slot
        /\ RecordAttempt("pass", NoSlot, slots)
    BY <1>5, EventFacts DEF ProbePass, Opened
  <2> QED  BY <2>1, VerdictEntered DEF Results
<1>6. CASE OperatorAbort
  <2>1. /\ phase \in OpenPhases /\ phase' = "rolled_back" /\ from_slot' = from_slot
        /\ rollback_reason' = "operator-abort"
        /\ phase # "trying" => attempts' = attempts
        /\ phase = "trying" => RecordAttempt("aborted", from_slot, slots)
    BY <1>6, EventFacts DEF OperatorAbort, Opened
  <2>2. CASE phase = "trying"
    BY <2>1, <2>2, VerdictEntered DEF Results
  <2>3. CASE phase # "trying"
    BY <2>1, <2>3, SameEntries
  <2> QED  BY <2>2, <2>3
<1>7. CASE ProbeFail
  BY <1>7, FailureEntered DEF ProbeFail
<1>8. ASSUME NEW a \in EXPIRY_ACTIONS, WatchdogExpired(a) PROVE LedgerInv'
  <2>1. PICK ss : /\ ss = slots \/ (phase = "trying" /\ ss = SpentSlots(slots, to_slot))
                  /\ FailAttempt("watchdog_expired", "watchdog-expired", ss)
    BY <1>8 DEF WatchdogExpired
  <2> QED  BY <2>1, FailureEntered
<1> QED
  BY <1>1, <1>2, <1>3, <1>4, <1>5, <1>6, <1>7, <1>8
     DEF TargetNext, Event, Next, Verdict, targetVars

(* The ledger grows by one when a trial ends, and never otherwise.          *)
Recorded ==
  phase' # "idle" =>
    Len(attempts') = Len(attempts)
      + (IF phase = "trying" /\ phase' # "trying" THEN 1 ELSE 0)

LEMMA RecordedStep ==
  ASSUME IInv, [TargetNext]_targetVars
  PROVE  Recorded
<1> USE DEF Recorded
<1>1. Len(attempts) \in Nat
  BY DEF IInv, TypeOK
<1>2. CASE Refuse \/ Tick \/ UNCHANGED vars
  BY <1>1, <1>2 DEF Refuse, Tick, vars, machine
<1>3. CASE Rebuild
  BY <1>3 DEF Rebuild, Construct
<1>4. ASSUME NEW d \in Digests, Begin(d) PROVE Recorded
  BY <1>1, <1>4, BeginFrame
<1>5. ASSUME NEW d, WriteComplete(d) PROVE Recorded
  BY <1>1, <1>5, EventFacts
<1>6. CASE WriteFailed \/ Arm \/ BootAttempt \/ ProbePass \/ OperatorAbort
  BY <1>1, <1>6, EventFacts
<1>7. CASE ProbeFail \/ \E a \in EXPIRY_ACTIONS : WatchdogExpired(a)
  <2>1. /\ phase = "trying" /\ phase' \in {"armed", "refused"}
        /\ Len(attempts') = Len(attempts) + 1
    BY <1>7, EventFacts DEF ProbeFail, WatchdogExpired
  <2> QED  BY <1>1, <2>1
<1> QED
  BY <1>2, <1>3, <1>4, <1>5, <1>6, <1>7 DEF TargetNext, Event, Next, Verdict, targetVars

------------------------------------------------------------------------------
(* What worked is handed over.                                              *)
HandedOver ==
  LET before == ActiveOf(slots)
      after  == ActiveOf(slots') IN
  /\ installed'[before] = installed[before]
  /\ before # after => /\ phase' = "promoted"
                       /\ installed'[after] = candidate_digest

(* Of the steps of the contract only Promote moves the fallback.            *)
LEMMA HandedStep ==
  ASSUME IInv, IInv', [TargetNext]_targetVars
  PROVE  HandedOver
<1> USE DEF HandedOver
<1>1. CASE Refuse \/ Tick \/ Rebuild \/ UNCHANGED vars
  BY <1>1, IdleStep
<1>2. CASE [Next]_vars
  <2>1. ActiveOf(slots) \in Slots /\ slots[ActiveOf(slots)].role = "active"
    BY ActiveFacts DEF IInv
  <2>2. installed'[ActiveOf(slots)] = installed[ActiveOf(slots)]
    BY <1>2, <2>1, KeptStep DEF ActiveKept
  <2>3. ASSUME ActiveOf(slots') # ActiveOf(slots)
        PROVE  /\ phase' = "promoted" /\ phase = "trying"
               /\ ActiveOf(slots') = Contract!Other(ActiveOf(slots))
               /\ installed' = installed
    <3>1. Contract!Promote
      BY <1>2, <2>3, StepMaps DEF Contract!ContractNext, Contract!contractVars,
         Contract!Open, Contract!Write, Contract!Trial, Contract!FallBack, Contract!GiveUp
    <3>2. /\ phase = "trying" /\ installed' = installed
          /\ ActiveOf(slots') = Contract!Other(ActiveOf(slots))
          /\ (IF phase' = "idle" THEN "unopened" ELSE OutcomeOf(phase')) = "promoted"
      BY <3>1 DEF Contract!Promote
    <3>3. phase' = "promoted"
      BY <3>2 DEF OutcomeOf
    <3> QED  BY <3>2, <3>3
  <2>4. ASSUME phase = "trying"
        PROVE  /\ Contract!Other(ActiveOf(slots)) = to_slot
               /\ installed[to_slot] = candidate_digest
    <3>1. PendingPair(slots, from_slot, to_slot) /\ installed[to_slot] = candidate_digest
      BY <2>4, TrialInvariant, PendingInvariant
    <3> QED  BY <3>1, PendingRoles, PendingFacts, OtherSlot
  <2> QED  BY <2>2, <2>3, <2>4
<1> QED  BY <1>1, <1>2 DEF TargetNext, Event, targetVars

------------------------------------------------------------------------------
(* The selector's answer stays unique: what neither gains a selectable slot *)
(* nor moves a priority cannot make a tie.                                  *)
LEMMA NoNewTie ==
  ASSUME Unambiguous(slots),
         \A s \in Slots : /\ Selectable(slots'[s]) => Selectable(slots[s])
                          /\ slots'[s].boot_priority = slots[s].boot_priority
                          /\ slots[s].boot_priority \in Nat
  PROVE  Unambiguous(slots')
<1>1. SUFFICES ASSUME NEW s \in SelectorChoices(slots'),
                      NEW t \in SelectorChoices(slots'), s # t
               PROVE  FALSE
  BY DEF Unambiguous
<1>2. /\ s \in Slots /\ t \in Slots /\ \A u \in Slots : u = s \/ u = t
      /\ Selectable(slots[s]) /\ Selectable(slots[t])
      /\ slots[s].boot_priority <= slots[t].boot_priority
      /\ slots[t].boot_priority <= slots[s].boot_priority
  BY <1>1 DEF SelectorChoices, Slots
<1>3. s \in SelectorChoices(slots) /\ t \in SelectorChoices(slots)
  BY <1>2 DEF SelectorChoices
<1> QED  BY <1>1, <1>3 DEF Unambiguous

LEMMA UniqueStep ==
  ASSUME IInv, IInv', Unambiguous(slots), [TargetNext]_targetVars
  PROVE  Unambiguous(slots')
<1>1. CASE Refuse \/ Tick \/ Rebuild \/ UNCHANGED vars
  BY <1>1, IdleStep
<1>2. CASE phase' \in {"armed", "trying"} \cup TERMINAL_PHASES
  <2>1. SelectorAgrees'
    BY SelectorFacts, PTL
  <2>2. \E u : SelectorChoices(slots') = {u}
    BY <1>2, <2>1 DEF SelectorAgrees
  <2> QED  BY <2>2 DEF Unambiguous
<1>3. slots \in [Slots -> SlotState] /\ \A s \in Slots : slots[s].boot_priority \in Nat
  BY DEF IInv, ContractPair, SlotState
<1>4. ASSUME NEW d \in Digests, Begin(d) PROVE Unambiguous(slots')
  <2>1. slots' = WritingSlots(slots, CandidateOf(slots), d)
    BY <1>4 DEF Begin, Conclude
  <2>2. CandidateOf(slots) \in Slots
    BY ActiveFacts DEF IInv
  <2>3. \A s \in Slots : /\ Selectable(slots'[s]) => Selectable(slots[s])
                         /\ slots'[s].boot_priority = slots[s].boot_priority
                         /\ slots[s].boot_priority \in Nat
    BY <1>3, <2>1, <2>2 DEF WritingSlots, Selectable, SlotState
  <2> QED  BY <2>3, NoNewTie
<1>5. ASSUME NEW d, WriteComplete(d), phase' = "candidate_ready"
      PROVE  Unambiguous(slots')
  <2>1. slots' = WrittenSlots(slots, to_slot)
    BY <1>5 DEF WriteComplete, Return, Conclude
  <2>2. to_slot \in Slots
    BY <1>5, EventFacts, PendingInvariant DEF OpenPhases
  <2>3. \A s \in Slots : /\ Selectable(slots'[s]) => Selectable(slots[s])
                         /\ slots'[s].boot_priority = slots[s].boot_priority
                         /\ slots[s].boot_priority \in Nat
    BY <1>3, <2>1, <2>2 DEF WrittenSlots, Selectable, SlotState
  <2> QED  BY <2>3, NoNewTie
<1>6. CASE WriteFailed \/ Arm \/ BootAttempt \/ ProbePass \/ OperatorAbort
           \/ ProbeFail \/ \E a \in EXPIRY_ACTIONS : WatchdogExpired(a)
  BY <1>2, <1>6, EventFacts DEF ProbeFail, WatchdogExpired, TERMINAL_PHASES
<1>7. \A d : WriteComplete(d) => phase' \in {"candidate_ready", "rolled_back"}
  BY EventFacts
<1> QED
  BY <1>1, <1>2, <1>4, <1>5, <1>6, <1>7
     DEF TargetNext, Event, Next, Verdict, targetVars, TERMINAL_PHASES

------------------------------------------------------------------------------
(* The boot cycle runs down.  What is left of the budget follows from the   *)
(* ledger, so it shrinks with what a step enters in it.                     *)
LoopBudget ==
  phase \in {"armed", "trying"} =>
    /\ Len(attempts) \in Nat /\ slots[to_slot].tries_remaining \in Nat
    /\ phase = "armed"  => Len(attempts) + slots[to_slot].tries_remaining = MaxAttempts
    /\ phase = "trying" => Len(attempts) + slots[to_slot].tries_remaining + 1 = MaxAttempts

LEMMA LoopBudgetFacts ==
  ASSUME IInv
  PROVE  LoopBudget
<1>1. phase \in {"armed", "trying"} =>
        Len(attempts) \in Nat /\ slots[to_slot].tries_remaining \in Nat
  BY PendingInvariant, PendingFacts DEF IInv, TypeOK, OpenPhases, SlotState
<1> QED  BY <1>1 DEF LoopBudget, IInv, PhaseFields, ArmedFields

LEMMA BootCounts ==
  ASSUME LoopBudget, LoopBudget',
         \/ phase = "armed" /\ phase' = "trying" /\ Len(attempts') = Len(attempts)
         \/ phase = "trying" /\ phase' = "armed" /\ Len(attempts') = Len(attempts) + 1
  PROVE  BootsLeft' < BootsLeft
<1>1. PICK n \in Nat, t \in Nat : n = Len(attempts) /\ t = slots[to_slot].tries_remaining
  BY DEF LoopBudget
<1>2. PICK u \in Nat : u = slots'[to_slot'].tries_remaining
  BY DEF LoopBudget
<1>3. MaxAttempts \in Nat
  BY MaxAttemptsAssumption
<1>4. CASE phase = "armed"
  <2>1. n + t = MaxAttempts /\ n + u + 1 = MaxAttempts
    BY <1>1, <1>2, <1>4 DEF LoopBudget
  <2>2. BootsLeft = 2 * t /\ BootsLeft' = 2 * u + 1
    BY <1>1, <1>2, <1>4 DEF BootsLeft
  <2> QED  BY <1>3, <2>1, <2>2
<1>5. CASE phase = "trying"
  <2>1. n + t + 1 = MaxAttempts /\ (n + 1) + u = MaxAttempts
    BY <1>1, <1>2, <1>5 DEF LoopBudget
  <2>2. BootsLeft = 2 * t + 1 /\ BootsLeft' = 2 * u
    BY <1>1, <1>2, <1>5 DEF BootsLeft
  <2> QED  BY <1>3, <2>1, <2>2
<1> QED  BY <1>4, <1>5

LEMMA RunsDownStep ==
  ASSUME IInv, IInv', [TargetNext]_targetVars
  PROVE  RunsDown
<1> SUFFICES ASSUME phase \in {"armed", "trying"},
                    phase' \notin TERMINAL_PHASES \cup {"idle"}
             PROVE  \/ phase' \in {"armed", "trying"} /\ phase' # phase /\ BootsLeft' < BootsLeft
                    \/ phase' = phase /\ BootsLeft' = BootsLeft
  BY DEF RunsDown
<1>1. LoopBudget /\ LoopBudget'
  BY LoopBudgetFacts, PTL
<1>2. CASE Refuse \/ Tick \/ UNCHANGED vars
  <2>1. phase' = phase /\ slots' = slots /\ to_slot' = to_slot
    BY <1>2 DEF Refuse, Tick, vars, machine
  <2> QED  BY <2>1 DEF BootsLeft
<1>3. CASE BootAttempt
  <2>1. phase = "armed" /\ phase' = "trying" /\ attempts' = attempts
    BY <1>3, EventFacts
  <2> QED  BY <1>1, <2>1, BootCounts
<1>4. CASE ProbeFail \/ \E a \in EXPIRY_ACTIONS : WatchdogExpired(a)
  <2>1. /\ phase = "trying" /\ phase' \in {"armed", "refused"}
        /\ Len(attempts') = Len(attempts) + 1
    BY <1>4, EventFacts DEF ProbeFail, WatchdogExpired
  <2>2. phase' = "armed"
    BY <2>1 DEF TERMINAL_PHASES
  <2> QED  BY <1>1, <2>1, <2>2, BootCounts
<1>5. ~Rebuild
  BY DEF Rebuild, Construct
<1>6. ~ProbePass /\ ~OperatorAbort
  BY EventFacts DEF TERMINAL_PHASES
<1>7. /\ ~WriteFailed /\ ~Arm /\ \A d : ~WriteComplete(d)
      /\ \A d \in Digests : ~Begin(d)
  BY EventFacts, OfferFacts DEF Begin
<1> QED
  BY <1>2, <1>3, <1>4, <1>5, <1>6, <1>7 DEF TargetNext, Event, Next, Verdict, targetVars

------------------------------------------------------------------------------
(* The theorems.  ContractTarget is what they assume of the target: it      *)
(* leaves the factory with slots that obey UpdateSlot.json.                 *)

(* Wherever the processes end, each machine is built on, and leaves, what   *)
(* the invariant of AbUpdate says (machine_from_slot_documents, 764-788).   *)
THEOREM TargetInvariance ==
  ASSUME ContractTarget
  PROVE  TargetSpec => []IInv
<1>1. TargetInit => IInv
  BY InitInvariant DEF TargetInit
<1>2. IInv /\ [TargetNext]_targetVars => IInv'
  BY TargetStep
<1> QED
  BY <1>1, <1>2, PTL DEF TargetSpec

(* What one transaction keeps, every transaction of a target's life keeps.  *)
THEOREM TargetStaysSound ==
  ASSUME ContractTarget
  PROVE  TargetSpec => [](/\ TypeOK /\ NeverRaises /\ SlotsConform
                          /\ AttemptBudget /\ TransactionConforms /\ SelectorAgrees
                          /\ EveryBootIsJudged)
<1>1. IInv => /\ TypeOK /\ NeverRaises /\ SlotsConform
              /\ AttemptBudget /\ TransactionConforms /\ SelectorAgrees
              /\ EveryBootIsJudged
  BY TransactionFacts, SelectorFacts, JudgedFacts DEF IInv, SlotsConform, PhaseFields, AttemptBudget
<1> QED
  BY <1>1, TargetInvariance, PTL

(* A slot marked successful holds the payload its document names, over the  *)
(* whole life of the target.                                                *)
THEOREM GoodPayloadStaysInstalled ==
  ASSUME ContractTarget
  PROVE  TargetSpec => []GoodPayloadIsInstalled
<1>1. TargetInit => GoodPayloadIsInstalled
  BY GoodInit DEF TargetInit
<1>2. IInv /\ IInv' /\ GoodPayloadIsInstalled /\ [TargetNext]_targetVars
        => GoodPayloadIsInstalled'
  BY GoodStep
<1> QED
  BY <1>1, <1>2, TargetInvariance, PTL DEF TargetSpec

(* Wherever a process ends there is a slot that can be booted and that      *)
(* holds the payload recorded for it: no crash costs the fallback.          *)
THEOREM FallbackIsNeverLost ==
  ASSUME ContractTarget
  PROVE  TargetSpec => []FallbackNeverLost
<1>1. IInv /\ GoodPayloadIsInstalled => FallbackNeverLost
  BY FallbackFacts
<1> QED
  BY <1>1, TargetInvariance, GoodPayloadStaysInstalled, PTL

(* The bootloader never selects a slot that is done with writing and does   *)
(* not hold what its document names, whichever write failed, was wrong or   *)
(* was abandoned before: the digest is recorded first (begin, 412-420), and *)
(* it is the priority that keeps a false one harmless.                      *)
THEOREM SelectableIsInstalled ==
  ASSUME ContractTarget
  PROVE  TargetSpec => []SelectableHoldsPayload
<1>1. TargetInit => SelectableHoldsPayload
  BY DEF TargetInit, Init, SelectableHoldsPayload
<1>2. IInv /\ IInv' /\ GoodPayloadIsInstalled' /\ SelectableHoldsPayload
        /\ [TargetNext]_targetVars => SelectableHoldsPayload'
  BY SelectableStep
<1> QED
  BY <1>1, <1>2, TargetInvariance, GoodPayloadStaysInstalled, PTL DEF TargetSpec

(* A reply that names a fallback names a slot that is running and bootable  *)
(* (_fail_attempt and _mark_candidate_unbootable, 545-645).                 *)
THEOREM FallbackAlwaysRunning ==
  ASSUME ContractTarget
  PROVE  TargetSpec => []FallbackIsRunning
<1>1. TargetInit => FallbackIsRunning
  BY DEF TargetInit, Init, Reply, FallbackIsRunning
<1>2. IInv /\ IInv' /\ FallbackIsRunning /\ [TargetNext]_targetVars => FallbackIsRunning'
  BY FallbackStep
<1> QED
  BY <1>1, <1>2, TargetInvariance, PTL DEF TargetSpec

(* The ledger can be audited, for every budget the constructor accepts      *)
(* (_record_attempt, 594-606).                                              *)
THEOREM LedgerIsAuditable ==
  ASSUME ContractTarget
  PROVE  TargetSpec => []AttemptLedger
<1>1. TargetInit => LedgerInv
  <2>1. ASSUME attempts = <<>> PROVE LedgerInv
    <3>1. 1..Len(attempts) = {}
      BY <2>1
    <3> QED  BY <3>1 DEF LedgerInv, AttemptLedger
  <2> QED  BY <2>1 DEF TargetInit, Init
<1>2. IInv /\ IInv' /\ LedgerInv /\ [TargetNext]_targetVars => LedgerInv'
  BY LedgerStep
<1>3. LedgerInv => AttemptLedger
  BY DEF LedgerInv
<1> QED
  BY <1>1, <1>2, <1>3, TargetInvariance, PTL DEF TargetSpec

(* A trial with a verdict is entered once, one without is never entered.    *)
THEOREM VerdictsAreRecorded ==
  ASSUME ContractTarget
  PROVE  TargetSpec => AbortIsRecorded
<1>1. IInv /\ [TargetNext]_targetVars => [Recorded]_vars
  BY RecordedStep
<1> QED
  BY <1>1, TargetInvariance, PTL DEF TargetSpec, AbortIsRecorded, Recorded

(* Over the whole life of a target no step writes to the slot that is       *)
(* active, and a slot is marked successful only on a recorded pass of the   *)
(* payload asked for; a restart marks and writes nothing.                   *)
THEOREM TargetKeepsInvariant ==
  ASSUME ContractTarget
  PROVE  TargetSpec => ActiveSlotNeverWritten /\ PromotionEarned
<1>1. ASSUME IInv, IInv', [TargetNext]_targetVars
      PROVE  [ActiveKept]_vars /\ [Earned]_vars
  <2>1. CASE [Next]_vars
    BY <1>1, <2>1, KeptStep, EarnedStep
  <2>2. CASE Rebuild
    <3>1. slots' = slots /\ installed' = installed
      BY <1>1, <2>2, IdleStep
    <3>2. \A s \in Slots : slots[s].role = "active" => slots[s].successful
      BY <1>1 DEF IInv, ContractPair, ConformantSlot
    <3> QED  BY <3>1, <3>2 DEF ActiveKept, Earned
  <2> QED  BY <1>1, <2>1, <2>2 DEF TargetNext, Event, targetVars
<1> QED
  BY <1>1, TargetInvariance, PTL DEF TargetSpec, ActiveSlotNeverWritten, ActiveKept,
     PromotionEarned, Earned

(* The payload that worked leaves the target only for one that was probed.  *)
THEOREM PayloadIsHandedOver ==
  ASSUME ContractTarget
  PROVE  TargetSpec => PayloadHandedOver
<1>1. IInv /\ IInv' /\ [TargetNext]_targetVars => [HandedOver]_targetVars
  BY HandedStep
<1> QED
  BY <1>1, TargetInvariance, PTL DEF TargetSpec, PayloadHandedOver, HandedOver

(* No event and no restart makes the bootloader's choice ambiguous.         *)
THEOREM SelectionRemainsUnique ==
  ASSUME ContractTarget
  PROVE  TargetSpec => SelectionStaysUnique
<1>1. IInv /\ IInv' /\ [TargetNext]_targetVars
        => [Unambiguous(slots) => Unambiguous(slots')]_targetVars
  BY UniqueStep
<1> QED
  BY <1>1, TargetInvariance, PTL DEF TargetSpec, SelectionStaysUnique

(* An armed candidate uses its budget up, boot by boot and verdict by       *)
(* verdict, and nothing fills it up again: whatever budget the constructor  *)
(* accepts, the boot cycle is at most twice as long.  It is the part of     *)
(* BootLoopEnds that does not depend on the target being reset.             *)
THEOREM BootCycleRunsDown ==
  ASSUME ContractTarget
  PROVE  TargetSpec => BootLoopRunsDown
<1>1. IInv /\ IInv' /\ [TargetNext]_targetVars => [RunsDown]_targetVars
  BY RunsDownStep
<1> QED
  BY <1>1, TargetInvariance, PTL DEF TargetSpec, BootLoopRunsDown

(* The target implements AbContract from transaction to transaction, with a *)
(* crash and a restart at any point between two events.                     *)
THEOREM TargetImplementsContract ==
  ASSUME ContractTarget
  PROVE  TargetSpec => TargetKeepsContract
<1>1. TargetInit => Contract!ContractInit
  BY InitMaps DEF TargetInit
<1>2. ASSUME IInv, IInv', [TargetNext]_targetVars
      PROVE  [Contract!ContractNext \/ Contract!Forget]_Contract!contractVars
  <2>1. CASE [Next]_vars
    BY <1>2, <2>1, StepMaps
  <2>2. CASE Rebuild
    <3>1. /\ slots' = slots /\ installed' = installed /\ phase' = "idle"
          /\ attempts' = <<>> /\ candidate_digest' = Unset
      BY <1>2, <2>2, RebuildFacts DEF IInv
    <3>2. (phase' = "trying") = FALSE /\ Len(attempts') = 0
      BY <3>1
    <3> QED  BY <3>1, <3>2 DEF Contract!Forget
  <2> QED  BY <1>2, <2>1, <2>2 DEF TargetNext, Event, targetVars
<1> QED
  BY <1>1, <1>2, TargetInvariance, PTL DEF TargetSpec, TargetKeepsContract,
     Contract!ContractLife
==============================================================================
