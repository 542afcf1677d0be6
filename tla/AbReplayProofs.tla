---------------------------- MODULE AbReplayProofs ----------------------------
(***************************************************************************)
(* What a replay prints, for every pair of slots the constructor takes, be *)
(* it within the contract or not, every budget and every sequence of       *)
(* events, with proofs for TLAPS.  The invariant of AbUpdateProofs rests   *)
(* on the contract and is of no use here: what remains is what             *)
(* _assert_invariants has checked of a machine that has not raised.        *)
(***************************************************************************)
EXTENDS AbReplay, AbUpdateProofs, FiniteSetTheorems

LogEntry ==
  [event : EVENTS, allowed : BOOLEAN, fromPhase : PHASES, toPhase : PHASES,
   fellBackTo : Slots \cup {NoSlot}]

(* A ledger entry, of a machine about whose slots little is known.          *)
LooseAttempt ==
  [attempt_number : Nat, started_at : Nat, result : Results,
   fell_back_to : Slots \cup {NoSlot}, tries_remaining_after : 0..7]

(* The files are read, and the digest in the probe's was put there by       *)
(* somebody who saw the checks.                                             *)
FilesInv ==
  /\ \E ss \in [Slots -> SlotState] : stored = Documents(ss)
  /\ probe \in [checks : Checks \cup {Incomplete}, definitionDigest : Checks]
  /\ probe.definitionDigest \in reviewed

(* The machine names the checks that were in the file, and somebody pinned  *)
(* them.                                                                    *)
GateInv == pinned = gate /\ gate \in reviewed

(* The process has a machine, and the machine has not raised.               *)
Live == process \in {"replay", "emitted", "planned"}

(* The slots the machine was built on.                                      *)
Original == ReadSlots(stored)

(* No transaction yet.                                                      *)
Untouched ==
  /\ slots = Original
  /\ ConstructorAccepts(slots)
  /\ from_slot = NoSlot
  /\ attempts = <<>>

(* A transaction, and what the last assertion has shown of it.              *)
Underway ==
  /\ from_slot \in Slots /\ to_slot \in Slots /\ from_slot # to_slot
  /\ Original[from_slot].role = "active"
  /\ preserved_digest = Original[from_slot].payload_digest
  /\ AssertInvariants(slots, phase, from_slot, preserved_digest)
  /\ phase \in OpenPhases => slots[from_slot].role = "active" /\ slots[to_slot].role = "candidate"
  /\ phase \in TERMINAL_PHASES => slots[from_slot].boot_priority > 0

MachineInv ==
  /\ slots \in [Slots -> SlotState]
  /\ phase \in PHASES
  /\ attempts \in Seq(LooseAttempt)
  /\ phase = "idle" => Untouched
  /\ phase # "idle" => Underway

(* The write that has been shown is that of the candidate.                  *)
ShownInv ==
  phase \in {"candidate_ready", "armed", "trying", "promoted"} =>
    Observed(shown) = candidate_digest

(* The phase the log has come to before its i-th entry.                     *)
At(i) == IF i > Len(log) THEN phase ELSE log[i].fromPhase

LogChains ==
  /\ At(1) = "idle"
  /\ \A i \in 1..Len(log) :
       /\ log[i].toPhase = At(i + 1)
       /\ ~log[i].allowed => log[i].toPhase = log[i].fromPhase /\ log[i].fellBackTo = NoSlot
       /\ log[i].toPhase \in {"rolled_back", "refused"} /\ log[i].allowed =>
            phase \in {"rolled_back", "refused"} /\ log[i].fellBackTo = from_slot

(* The number of the attempt that the i-th entry would end.                 *)
AttemptNumber(i) == Cardinality({ j \in VerdictEntries : j <= i })

LogCounts ==
  /\ Cardinality(VerdictEntries) = Len(attempts)
  /\ \A i \in VerdictEntries :
       /\ AttemptNumber(i) \in 1..Len(attempts)
       /\ log[i].fellBackTo = attempts[AttemptNumber(i)].fell_back_to
  /\ Cardinality(BootEntries) = Len(attempts) + (IF phase = "trying" THEN 1 ELSE 0)

LogInv == log \in Seq(LogEntry) /\ LogChains /\ LogCounts

ReplayInv ==
  /\ FilesInv
  /\ now \in Nat
  /\ process \in {"none", "replay", "failed", "emitted", "planned"}
  /\ Live => MachineInv /\ ShownInv /\ GateInv
  /\ process \in {"replay", "emitted"} => LogInv
  /\ process \in {"emitted", "planned"} => phase # "idle"

------------------------------------------------------------------------------
(* What the handlers make of a pair of slots of which only the types are    *)
(* known.                                                                   *)
LEMMA WritingTyped ==
  ASSUME NEW ss \in [Slots -> SlotState], NEW from \in Slots, NEW to \in Slots, from # to, NEW d \in Digests
  PROVE  LET r == WritingSlots(ss, to, d) IN
         /\ r \in [Slots -> SlotState]
         /\ r[from].role = ss[from].role /\ r[to].role = ss[to].role
<1> DEFINE r == WritingSlots(ss, to, d)
           p == ss[from]
           q == [ss[to] EXCEPT !.state = "writing", !.successful = FALSE,
                              !.payload_digest = d, !.last_probe_verdict = "none"]
<1>1. ss[from] \in SlotState /\ ss[to] \in SlotState
  OBVIOUS
<1>2. p \in SlotState
  BY <1>1, SlotRanges DEF SlotState
<1>3. q \in SlotState
  BY <1>1, SlotRanges DEF SlotState
<1>4. r = [s \in Slots |-> IF s = to THEN q ELSE IF s = from THEN p ELSE ss[s]]
  BY DEF WritingSlots
<1>5. /\ p.role = ss[from].role
      /\ q.role = ss[to].role
      /\ p.boot_priority = ss[from].boot_priority
  BY <1>1 DEF SlotState
<1> HIDE DEF p, q
<1>6. r \in [Slots -> SlotState] /\ r[from] = p /\ r[to] = q
  BY <1>2, <1>3, <1>4
<1> QED
  BY <1>5, <1>6

LEMMA WrittenTyped ==
  ASSUME NEW ss \in [Slots -> SlotState], NEW from \in Slots, NEW to \in Slots, from # to
  PROVE  LET r == WrittenSlots(ss, to) IN
         /\ r \in [Slots -> SlotState]
         /\ r[from].role = ss[from].role /\ r[to].role = ss[to].role
<1> DEFINE r == WrittenSlots(ss, to)
           p == ss[from]
           q == [ss[to] EXCEPT !.state = "written"]
<1>1. ss[from] \in SlotState /\ ss[to] \in SlotState
  OBVIOUS
<1>2. p \in SlotState
  BY <1>1, SlotRanges DEF SlotState
<1>3. q \in SlotState
  BY <1>1, SlotRanges DEF SlotState
<1>4. r = [s \in Slots |-> IF s = to THEN q ELSE IF s = from THEN p ELSE ss[s]]
  BY DEF WrittenSlots
<1>5. /\ p.role = ss[from].role
      /\ q.role = ss[to].role
      /\ p.boot_priority = ss[from].boot_priority
  BY <1>1 DEF SlotState
<1> HIDE DEF p, q
<1>6. r \in [Slots -> SlotState] /\ r[from] = p /\ r[to] = q
  BY <1>2, <1>3, <1>4
<1> QED
  BY <1>5, <1>6

LEMMA ArmedTyped ==
  ASSUME NEW ss \in [Slots -> SlotState], NEW from \in Slots, NEW to \in Slots, from # to
  PROVE  LET r == ArmedSlots(ss, from, to) IN
         /\ r \in [Slots -> SlotState]
         /\ r[from].role = ss[from].role /\ r[to].role = ss[to].role
<1> DEFINE r == ArmedSlots(ss, from, to)
           p == [ss[from] EXCEPT !.boot_priority = ARMED_ACTIVE_PRIORITY]
           q == [ss[to] EXCEPT !.boot_priority = ARMED_CANDIDATE_PRIORITY,
                              !.tries_remaining = MaxAttempts, !.successful = FALSE]
<1>1. ss[from] \in SlotState /\ ss[to] \in SlotState
  OBVIOUS
<1>2. p \in SlotState
  BY <1>1, SlotRanges DEF SlotState, ARMED_CANDIDATE_PRIORITY, ARMED_ACTIVE_PRIORITY
<1>3. q \in SlotState
  BY <1>1, SlotRanges DEF SlotState, ARMED_CANDIDATE_PRIORITY, ARMED_ACTIVE_PRIORITY
<1>4. r = [s \in Slots |-> IF s = to THEN q ELSE IF s = from THEN p ELSE ss[s]]
  BY DEF ArmedSlots, ARMED_CANDIDATE_PRIORITY, ARMED_ACTIVE_PRIORITY
<1>5. /\ p.role = ss[from].role
      /\ q.role = ss[to].role
      /\ p.boot_priority = 14
  BY <1>1 DEF SlotState, ARMED_CANDIDATE_PRIORITY, ARMED_ACTIVE_PRIORITY
<1> HIDE DEF p, q
<1>6. r \in [Slots -> SlotState] /\ r[from] = p /\ r[to] = q
  BY <1>2, <1>3, <1>4
<1> QED
  BY <1>5, <1>6

LEMMA TrialTyped ==
  ASSUME NEW ss \in [Slots -> SlotState], NEW from \in Slots, NEW to \in Slots, from # to,
         ss[to].tries_remaining > 0
  PROVE  LET r == TrialSlots(ss, from, to) IN
         /\ r \in [Slots -> SlotState]
         /\ r[from].role = ss[from].role /\ r[to].role = ss[to].role
<1> DEFINE r == TrialSlots(ss, from, to)
           p == [ss[from] EXCEPT !.currently_running = FALSE]
           q == [ss[to] EXCEPT !.tries_remaining = ss[to].tries_remaining - 1,
                              !.state = "trying", !.currently_running = TRUE]
<1>1. ss[from] \in SlotState /\ ss[to] \in SlotState
  OBVIOUS
<1>2. p \in SlotState
  BY <1>1, SlotRanges DEF SlotState
<1>3. q \in SlotState
  <2>1. ss[to].tries_remaining - 1 \in 0..7
    BY <1>1 DEF SlotState
  <2> QED
    BY <1>1, <2>1, SlotRanges DEF SlotState
<1>4. r = [s \in Slots |-> IF s = to THEN q ELSE IF s = from THEN p ELSE ss[s]]
  BY DEF TrialSlots
<1>5. /\ p.role = ss[from].role
      /\ q.role = ss[to].role
      /\ p.boot_priority = ss[from].boot_priority
  BY <1>1 DEF SlotState
<1> HIDE DEF p, q
<1>6. r \in [Slots -> SlotState] /\ r[from] = p /\ r[to] = q
  BY <1>2, <1>3, <1>4
<1> QED
  BY <1>5, <1>6

LEMMA PromotedTyped ==
  ASSUME NEW ss \in [Slots -> SlotState], NEW from \in Slots, NEW to \in Slots, from # to
  PROVE  LET r == PromotedSlots(ss, from, to) IN
         /\ r \in [Slots -> SlotState]
         /\ r[from].boot_priority = 14
<1> DEFINE r == PromotedSlots(ss, from, to)
           p == [ss[from] EXCEPT !.role = "candidate", !.boot_priority = 14]
           q == [ss[to] EXCEPT !.role = "active", !.state = "good", !.successful = TRUE,
                              !.boot_priority = 15, !.tries_remaining = 0,
                              !.last_probe_verdict = "pass"]
<1>1. ss[from] \in SlotState /\ ss[to] \in SlotState
  OBVIOUS
<1>2. p \in SlotState
  BY <1>1, SlotRanges DEF SlotState
<1>3. q \in SlotState
  BY <1>1, SlotRanges DEF SlotState
<1>4. r = [s \in Slots |-> IF s = to THEN q ELSE IF s = from THEN p ELSE ss[s]]
  BY DEF PromotedSlots
<1>5. /\ p.role = "candidate"
      /\ q.role = "active"
      /\ p.boot_priority = 14
  BY <1>1 DEF SlotState
<1> HIDE DEF p, q
<1>6. r \in [Slots -> SlotState] /\ r[from] = p /\ r[to] = q
  BY <1>2, <1>3, <1>4
<1> QED
  BY <1>5, <1>6

LEMMA FellBackTyped ==
  ASSUME NEW ss \in [Slots -> SlotState], NEW from \in Slots, NEW to \in Slots, from # to
  PROVE  LET r == FellBackSlots(ss, from, to) IN
         /\ r \in [Slots -> SlotState]
         /\ r[from].role = ss[from].role /\ r[to].role = ss[to].role
<1> DEFINE r == FellBackSlots(ss, from, to)
           p == [ss[from] EXCEPT !.currently_running = TRUE]
           q == [ss[to] EXCEPT !.currently_running = FALSE, !.state = "written",
                              !.last_probe_verdict = "fail"]
<1>1. ss[from] \in SlotState /\ ss[to] \in SlotState
  OBVIOUS
<1>2. p \in SlotState
  BY <1>1, SlotRanges DEF SlotState
<1>3. q \in SlotState
  BY <1>1, SlotRanges DEF SlotState
<1>4. r = [s \in Slots |-> IF s = to THEN q ELSE IF s = from THEN p ELSE ss[s]]
  BY DEF FellBackSlots
<1>5. /\ p.role = ss[from].role
      /\ q.role = ss[to].role
      /\ p.boot_priority = ss[from].boot_priority
  BY <1>1 DEF SlotState
<1> HIDE DEF p, q
<1>6. r \in [Slots -> SlotState] /\ r[from] = p /\ r[to] = q
  BY <1>2, <1>3, <1>4
<1> QED
  BY <1>5, <1>6

LEMMA UnbootableTyped ==
  ASSUME NEW ss \in [Slots -> SlotState], NEW from \in Slots, NEW to \in Slots, from # to
  PROVE  LET r == UnbootableSlots(ss, from, to) IN
         /\ r \in [Slots -> SlotState]
         /\ r[from].boot_priority = 15
<1> DEFINE r == UnbootableSlots(ss, from, to)
           p == [ss[from] EXCEPT !.boot_priority = ARMED_CANDIDATE_PRIORITY,
                                !.currently_running = TRUE]
           q == [ss[to] EXCEPT !.state = "unbootable", !.boot_priority = 0,
                              !.tries_remaining = 0, !.successful = FALSE,
                              !.currently_running =
                                 ss[to].currently_running /\ ss[from].currently_running]
<1>1. ss[from] \in SlotState /\ ss[to] \in SlotState
  OBVIOUS
<1>2. p \in SlotState
  BY <1>1, SlotRanges DEF SlotState, ARMED_CANDIDATE_PRIORITY
<1>3. q \in SlotState
  <2>1. (ss[to].currently_running /\ ss[from].currently_running) \in BOOLEAN
    OBVIOUS
  <2> QED
    BY <1>1, <2>1, SlotRanges, Zenon DEF SlotState
<1>4. r = [s \in Slots |-> IF s = to THEN q ELSE IF s = from THEN p ELSE ss[s]]
  BY DEF UnbootableSlots, ARMED_CANDIDATE_PRIORITY
<1>5. /\ p.role = ss[from].role
      /\ q.role = ss[to].role
      /\ p.boot_priority = 15
  BY <1>1 DEF SlotState, ARMED_CANDIDATE_PRIORITY
<1> HIDE DEF p, q
<1>6. r \in [Slots -> SlotState] /\ r[from] = p /\ r[to] = q
  BY <1>2, <1>3, <1>4
<1> QED
  BY <1>5, <1>6

LEMMA SpentTyped ==
  ASSUME NEW ss \in [Slots -> SlotState], NEW from \in Slots, NEW to \in Slots, from # to
  PROVE  LET r == SpentSlots(ss, to) IN
         /\ r \in [Slots -> SlotState]
         /\ r[from].role = ss[from].role /\ r[to].role = ss[to].role
<1> DEFINE r == SpentSlots(ss, to)
           p == ss[from]
           q == [ss[to] EXCEPT !.tries_remaining = 0]
<1>1. ss[from] \in SlotState /\ ss[to] \in SlotState
  OBVIOUS
<1>2. p \in SlotState
  BY <1>1, SlotRanges DEF SlotState
<1>3. q \in SlotState
  BY <1>1, SlotRanges DEF SlotState
<1>4. r = [s \in Slots |-> IF s = to THEN q ELSE IF s = from THEN p ELSE ss[s]]
  BY DEF SpentSlots
<1>5. /\ p.role = ss[from].role
      /\ q.role = ss[to].role
      /\ p.boot_priority = ss[from].boot_priority
  BY <1>1 DEF SlotState
<1> HIDE DEF p, q
<1>6. r \in [Slots -> SlotState] /\ r[from] = p /\ r[to] = q
  BY <1>2, <1>3, <1>4
<1> QED
  BY <1>5, <1>6

------------------------------------------------------------------------------
(* A handler that does not raise has passed the assertion.                  *)
LEMMA ConcludeSurvives ==
  ASSUME NEW ss, NEW ph, NEW from, NEW preserved, NEW back,
         Conclude(ss, ph, from, preserved, back), reply'.outcome # "raised"
  PROVE  /\ AssertInvariants(ss, ph, from, preserved)
         /\ slots' = ss /\ phase' = ph
         /\ reply'.outcome = "allowed" /\ reply'.fell_back_to = back
BY DEF Conclude, Reply

LEMMA CandidateIs ==
  ASSUME NEW ss, NEW from \in Slots, NEW to \in Slots, from # to,
         ss[from].role = "active", ss[to].role = "candidate"
  PROVE  CandidateOf(ss) = to
<1>1. \A s \in Slots : s = from \/ s = to
  BY DEF Slots
<1>2. \A s \in Slots : ss[s].role = "candidate" <=> s = to
  BY <1>1
<1> QED
  BY <1>2 DEF CandidateOf

(* While a transaction is open its slots are known.                         *)
LEMMA OpenFacts ==
  ASSUME MachineInv, phase \in OpenPhases
  PROVE  /\ slots \in [Slots -> SlotState] /\ attempts \in Seq(LooseAttempt)
         /\ from_slot \in Slots /\ to_slot \in Slots /\ from_slot # to_slot
         /\ slots[from_slot].role = "active" /\ slots[to_slot].role = "candidate"
         /\ CandidateOf(slots) = to_slot
<1>1. /\ slots \in [Slots -> SlotState] /\ attempts \in Seq(LooseAttempt)
      /\ from_slot \in Slots /\ to_slot \in Slots /\ from_slot # to_slot
      /\ slots[from_slot].role = "active" /\ slots[to_slot].role = "candidate"
  BY DEF MachineInv, Underway, OpenPhases
<1> QED
  BY <1>1, CandidateIs

(* An event after the first keeps the slots of the transaction in order.    *)
LEMMA ReturnSurvives ==
  ASSUME MachineInv, phase \in OpenPhases, UNCHANGED <<Opened, stored>>,
         NEW ss \in [Slots -> SlotState], NEW ph \in PHASES \ {"idle"}, NEW back,
         Return(ss, ph, back), reply'.outcome # "raised",
         attempts' \in Seq(LooseAttempt),
         ph \in OpenPhases => ss[from_slot].role = "active" /\ ss[to_slot].role = "candidate",
         ph \in TERMINAL_PHASES => ss[from_slot].boot_priority > 0
  PROVE  /\ MachineInv'
         /\ slots' = ss /\ phase' = ph
         /\ reply'.outcome = "allowed" /\ reply'.fell_back_to = back
<1>1. /\ AssertInvariants(ss, ph, from_slot, preserved_digest)
      /\ slots' = ss /\ phase' = ph
      /\ reply'.outcome = "allowed" /\ reply'.fell_back_to = back
  BY ConcludeSurvives DEF Return
<1>2. /\ from_slot' = from_slot /\ to_slot' = to_slot
      /\ preserved_digest' = preserved_digest /\ Original' = Original
  BY DEF Opened, Original
<1>3. /\ from_slot \in Slots /\ to_slot \in Slots /\ from_slot # to_slot
      /\ Original[from_slot].role = "active"
      /\ preserved_digest = Original[from_slot].payload_digest
  BY DEF MachineInv, Underway, OpenPhases
<1>4. AssertInvariants(slots', phase', from_slot', preserved_digest')
  BY <1>1, <1>2
<1> HIDE DEF Original
<1>5. Underway'
  BY <1>1, <1>2, <1>3, <1>4 DEF Underway
<1> QED
  BY <1>1, <1>5 DEF MachineInv

(* A verdict is entered in the ledger.                                      *)
LEMMA RecordLoose ==
  ASSUME attempts \in Seq(LooseAttempt), now \in Nat,
         NEW ss \in [Slots -> SlotState], CandidateOf(ss) \in Slots,
         NEW result \in Results, NEW back \in Slots \cup {NoSlot},
         RecordAttempt(result, back, ss)
  PROVE  /\ attempts' \in Seq(LooseAttempt)
         /\ \E a \in LooseAttempt : a.fell_back_to = back /\ attempts' = Append(attempts, a)
<1> DEFINE entry == [attempt_number        |-> Len(attempts) + 1,
                     started_at            |-> now,
                     result                |-> result,
                     fell_back_to          |-> back,
                     tries_remaining_after |-> ss[CandidateOf(ss)].tries_remaining]
<1>1. ss[CandidateOf(ss)].tries_remaining \in 0..7 /\ Len(attempts) + 1 \in Nat
  BY DEF SlotState
<1>2. entry \in LooseAttempt /\ entry.fell_back_to = back
  BY <1>1 DEF LooseAttempt
<1>3. attempts' = Append(attempts, entry)
  BY DEF RecordAttempt
<1> HIDE DEF entry
<1> QED
  BY <1>2, <1>3

(* What becomes of the rest of the machine when an event is admitted and    *)
(* the machine survives it.                                                 *)
Stepped(event) ==
  /\ phase \notin TERMINAL_PHASES /\ phase' # "idle"
  /\ reply'.outcome = "allowed"
  /\ reply'.fell_back_to \in Slots \cup {NoSlot}
  /\ phase' \in {"rolled_back", "refused"} => reply'.fell_back_to = from_slot'
  /\ event = "boot_attempt" => phase # "trying" /\ phase' = "trying"
  /\ event # "boot_attempt" => phase' # "trying"
  /\ phase = "trying" => \E a \in LooseAttempt : /\ a.fell_back_to = reply'.fell_back_to
                                                 /\ attempts' = Append(attempts, a)
  /\ phase # "trying" => attempts' = attempts

LEMMA BeginSurvives ==
  ASSUME FilesInv, MachineInv, UNCHANGED stored,
         NEW d \in Digests, Begin(d), reply'.outcome # "raised"
  PROVE  MachineInv' /\ Stepped("begin")
<1> DEFINE from      == ActiveOf(slots)
           to        == CandidateOf(slots)
           preserved == IF slots[from].payload_digest = NoDigest
                        THEN Unset ELSE slots[from].payload_digest
           ss        == WritingSlots(slots, to, d)
<1>1. phase = "idle" /\ Untouched /\ slots \in [Slots -> SlotState]
  BY OfferFacts DEF Begin, MachineInv
<1>2. /\ from_slot' = from /\ to_slot' = to /\ preserved_digest' = preserved
      /\ Conclude(ss, "writing", from, preserved, NoSlot) /\ attempts' = attempts
  <2>1. PICK rule \in Offer("begin", NoDigest, slots) :
          /\ from_slot' = from /\ to_slot' = to /\ preserved_digest' = preserved
          /\ Conclude(ss, rule.to_phase, from, preserved, NoSlot) /\ attempts' = attempts
    BY DEF Begin
  <2>2. rule.to_phase = "writing"
    BY OfferFacts
  <2> QED
    BY <2>1, <2>2
<1>3. /\ from \in Slots /\ to \in Slots /\ from # to
      /\ slots[from].role = "active" /\ slots[to].role = "candidate"
  <2>1. OneActive(slots) /\ \A s \in Slots : slots[s].role \in {"active", "candidate"}
    BY <1>1 DEF Untouched, ConstructorAccepts, SlotState
  <2> QED
    BY <2>1, RolesLemma
<1> HIDE DEF from, to, preserved
<1>4. /\ ss \in [Slots -> SlotState]
      /\ ss[from].role = "active" /\ ss[to].role = "candidate"
      /\ ss[from].payload_digest = slots[from].payload_digest
  <2>1. ss[from] = slots[from]
    BY <1>1, <1>3 DEF WritingSlots
  <2> QED
    BY <1>1, <1>3, <2>1, WritingTyped
<1> HIDE DEF ss
<1>5. /\ AssertInvariants(ss, "writing", from, preserved)
      /\ slots' = ss /\ phase' = "writing"
      /\ reply'.outcome = "allowed" /\ reply'.fell_back_to = NoSlot
  BY <1>2, ConcludeSurvives
<1>6. from # NoSlot
  BY <1>3 DEF Slots, NoSlot
<1>7. preserved = slots[from].payload_digest
  BY <1>4, <1>5, <1>6 DEF AssertInvariants
<1>8. Original' = Original /\ slots = Original
  BY <1>1 DEF Original, Untouched
<1>9. AssertInvariants(slots', phase', from_slot', preserved_digest')
  BY <1>2, <1>5
<1>10. Underway'
  BY <1>2, <1>3, <1>4, <1>5, <1>7, <1>8, <1>9 DEF Underway, TERMINAL_PHASES
<1>11. MachineInv'
  BY <1>1, <1>2, <1>4, <1>5, <1>10 DEF MachineInv, PHASES
<1> QED
  BY <1>1, <1>2, <1>5, <1>11 DEF Stepped, TERMINAL_PHASES

LEMMA WriteCompleteSurvives ==
  ASSUME MachineInv, UNCHANGED stored,
         NEW d \in Digests, WriteComplete(d), reply'.outcome # "raised"
  PROVE  MachineInv' /\ Stepped("write_complete") /\ UNCHANGED Opened
<1>1. PICK rule \in Offer("write_complete", d, slots) :
        /\ \/ /\ rule.to_phase = "rolled_back"
              /\ Return(UnbootableSlots(slots, from_slot, to_slot), rule.to_phase, from_slot)
           \/ /\ rule.to_phase # "rolled_back"
              /\ Return(WrittenSlots(slots, to_slot), rule.to_phase, NoSlot)
        /\ UNCHANGED <<Opened, attempts>>
  BY DEF WriteComplete
<1>2. phase = "writing" /\ rule.to_phase \in {"candidate_ready", "rolled_back"}
  BY OfferFacts
<1>3. /\ slots \in [Slots -> SlotState] /\ attempts' \in Seq(LooseAttempt)
      /\ from_slot \in Slots /\ to_slot \in Slots /\ from_slot # to_slot
      /\ slots[from_slot].role = "active" /\ slots[to_slot].role = "candidate"
      /\ phase \in OpenPhases
  BY <1>1, <1>2, OpenFacts DEF OpenPhases
<1>4. CASE rule.to_phase = "rolled_back"
  <2> DEFINE ss == UnbootableSlots(slots, from_slot, to_slot)
  <2>1. ss \in [Slots -> SlotState] /\ ss[from_slot].boot_priority > 0
    BY <1>3, UnbootableTyped
  <2>2. Return(ss, "rolled_back", from_slot)
    BY <1>1, <1>4
  <2> HIDE DEF ss
  <2>3. /\ MachineInv' /\ phase' = "rolled_back"
        /\ reply'.outcome = "allowed" /\ reply'.fell_back_to = from_slot
    BY <1>1, <1>3, <2>1, <2>2, ReturnSurvives DEF PHASES, OpenPhases
  <2> QED
    BY <1>1, <1>2, <1>3, <2>3 DEF Stepped, TERMINAL_PHASES, Opened
<1>5. CASE rule.to_phase = "candidate_ready"
  <2> DEFINE ss == WrittenSlots(slots, to_slot)
  <2>1. /\ ss \in [Slots -> SlotState]
        /\ ss[from_slot].role = "active" /\ ss[to_slot].role = "candidate"
    BY <1>3, WrittenTyped
  <2>2. Return(ss, "candidate_ready", NoSlot)
    BY <1>1, <1>5
  <2> HIDE DEF ss
  <2>3. /\ MachineInv' /\ phase' = "candidate_ready"
        /\ reply'.outcome = "allowed" /\ reply'.fell_back_to = NoSlot
    BY <1>1, <1>3, <2>1, <2>2, ReturnSurvives DEF PHASES, TERMINAL_PHASES
  <2> QED
    BY <1>1, <1>2, <1>3, <2>3 DEF Stepped, TERMINAL_PHASES
<1> QED
  BY <1>1, <1>2, <1>4, <1>5

(* The events that end a transaction on the spot.                           *)
LEMMA GivesUpSurvives ==
  ASSUME MachineInv, UNCHANGED <<stored, Opened>>, phase \in OpenPhases,
         NEW ss \in [Slots -> SlotState],
         Return(UnbootableSlots(ss, from_slot, to_slot), "rolled_back", from_slot)
           \/ Return(UnbootableSlots(ss, from_slot, to_slot), "refused", from_slot),
         reply'.outcome # "raised", attempts' \in Seq(LooseAttempt)
  PROVE  /\ MachineInv' /\ phase' \in {"rolled_back", "refused"}
         /\ reply'.outcome = "allowed" /\ reply'.fell_back_to = from_slot
         /\ from_slot' = from_slot /\ from_slot \in Slots
<1> DEFINE rr == UnbootableSlots(ss, from_slot, to_slot)
<1>1. from_slot \in Slots /\ to_slot \in Slots /\ from_slot # to_slot
  BY OpenFacts
<1>2. rr \in [Slots -> SlotState] /\ rr[from_slot].boot_priority > 0
  BY <1>1, UnbootableTyped
<1>3. PICK ph \in {"rolled_back", "refused"} : Return(rr, ph, from_slot)
  OBVIOUS
<1> HIDE DEF rr
<1>4. ph \in PHASES \ {"idle"} /\ ph \notin OpenPhases
  BY DEF PHASES, OpenPhases
<1>5. /\ MachineInv' /\ phase' = ph
      /\ reply'.outcome = "allowed" /\ reply'.fell_back_to = from_slot
  BY <1>2, <1>3, <1>4, ReturnSurvives
<1> QED
  BY <1>1, <1>5 DEF Opened

LEMMA WriteFailedSurvives ==
  ASSUME MachineInv, UNCHANGED stored, WriteFailed, reply'.outcome # "raised"
  PROVE  MachineInv' /\ Stepped("write_failed") /\ UNCHANGED Opened
<1>1. PICK rule \in Offer("write_failed", NoDigest, slots) :
        /\ Return(UnbootableSlots(slots, from_slot, to_slot), rule.to_phase, from_slot)
        /\ UNCHANGED <<Opened, attempts>>
  BY DEF WriteFailed
<1>2. phase = "writing" /\ rule.to_phase = "rolled_back" /\ phase \in OpenPhases
  BY OfferFacts DEF OpenPhases
<1>3. slots \in [Slots -> SlotState] /\ attempts' \in Seq(LooseAttempt)
  BY <1>1, <1>2, OpenFacts
<1>4. /\ MachineInv' /\ phase' \in {"rolled_back", "refused"}
      /\ reply'.outcome = "allowed" /\ reply'.fell_back_to = from_slot
      /\ from_slot' = from_slot /\ from_slot \in Slots
  BY <1>1, <1>2, <1>3, GivesUpSurvives
<1> QED
  BY <1>1, <1>2, <1>4 DEF Stepped, TERMINAL_PHASES

LEMMA ArmSurvives ==
  ASSUME MachineInv, UNCHANGED stored, Arm, reply'.outcome # "raised"
  PROVE  MachineInv' /\ Stepped("arm") /\ UNCHANGED Opened
<1> DEFINE ss == ArmedSlots(slots, from_slot, to_slot)
<1>1. PICK rule \in Offer("arm", NoDigest, slots) :
        Return(ss, rule.to_phase, NoSlot) /\ UNCHANGED <<Opened, attempts>>
  BY DEF Arm
<1>2. phase = "candidate_ready" /\ rule.to_phase = "armed" /\ phase \in OpenPhases
  BY OfferFacts DEF OpenPhases
<1>3. /\ ss \in [Slots -> SlotState] /\ attempts' \in Seq(LooseAttempt)
      /\ ss[from_slot].role = "active" /\ ss[to_slot].role = "candidate"
  BY <1>1, <1>2, OpenFacts, ArmedTyped
<1> HIDE DEF ss
<1>4. /\ MachineInv' /\ phase' = "armed"
      /\ reply'.outcome = "allowed" /\ reply'.fell_back_to = NoSlot
  BY <1>1, <1>2, <1>3, ReturnSurvives DEF PHASES, TERMINAL_PHASES
<1> QED
  BY <1>1, <1>2, <1>4 DEF Stepped, TERMINAL_PHASES

LEMMA BootAttemptSurvives ==
  ASSUME MachineInv, UNCHANGED stored, BootAttempt, reply'.outcome # "raised"
  PROVE  MachineInv' /\ Stepped("boot_attempt") /\ UNCHANGED Opened
<1> DEFINE ss == TrialSlots(slots, from_slot, to_slot)
<1>1. PICK rule \in Offer("boot_attempt", NoDigest, slots) :
        Return(ss, rule.to_phase, NoSlot) /\ UNCHANGED <<Opened, attempts>>
  BY DEF BootAttempt
<1>2. /\ phase = "armed" /\ rule.to_phase = "trying" /\ phase \in OpenPhases
      /\ slots[CandidateOf(slots)].tries_remaining > 0
  BY OfferFacts DEF OpenPhases
<1>3. /\ ss \in [Slots -> SlotState] /\ attempts' \in Seq(LooseAttempt)
      /\ ss[from_slot].role = "active" /\ ss[to_slot].role = "candidate"
  BY <1>1, <1>2, OpenFacts, TrialTyped
<1> HIDE DEF ss
<1>4. /\ MachineInv' /\ phase' = "trying"
      /\ reply'.outcome = "allowed" /\ reply'.fell_back_to = NoSlot
  BY <1>1, <1>2, <1>3, ReturnSurvives DEF PHASES, TERMINAL_PHASES
<1> QED
  BY <1>1, <1>2, <1>4 DEF Stepped, TERMINAL_PHASES

LEMMA ProbePassSurvives ==
  ASSUME MachineInv, now \in Nat, UNCHANGED stored, ProbePass, reply'.outcome # "raised"
  PROVE  MachineInv' /\ Stepped("probe_pass") /\ UNCHANGED Opened
<1> DEFINE ss == PromotedSlots(slots, from_slot, to_slot)
<1>1. PICK rule \in Offer("probe_pass", NoDigest, slots) :
        Return(ss, rule.to_phase, NoSlot) /\ RecordAttempt("pass", NoSlot, slots)
          /\ UNCHANGED Opened
  BY DEF ProbePass
<1>2. phase = "trying" /\ rule.to_phase = "promoted" /\ phase \in OpenPhases
  BY OfferFacts DEF OpenPhases
<1>3. ss \in [Slots -> SlotState] /\ ss[from_slot].boot_priority > 0
  BY <1>2, OpenFacts, PromotedTyped
<1>4. /\ attempts' \in Seq(LooseAttempt)
      /\ \E a \in LooseAttempt : a.fell_back_to = NoSlot /\ attempts' = Append(attempts, a)
  BY <1>1, <1>2, OpenFacts, RecordLoose DEF Results
<1> HIDE DEF ss
<1>5. /\ MachineInv' /\ phase' = "promoted"
      /\ reply'.outcome = "allowed" /\ reply'.fell_back_to = NoSlot
  BY <1>1, <1>2, <1>3, <1>4, ReturnSurvives DEF PHASES, OpenPhases
<1> QED
  BY <1>1, <1>2, <1>4, <1>5 DEF Stepped, TERMINAL_PHASES

LEMMA FailAttemptSurvives ==
  ASSUME MachineInv, now \in Nat, UNCHANGED stored,
         NEW event \in {"probe_fail", "watchdog_expired"}, NEW result \in Results,
         NEW ss \in [Slots -> SlotState],
         phase = "trying" => ss[from_slot].role = "active" /\ ss[to_slot].role = "candidate",
         FailAttempt(event, result, ss), reply'.outcome # "raised"
  PROVE  MachineInv' /\ Stepped(event) /\ UNCHANGED Opened
<1> DEFINE back == FellBackSlots(ss, from_slot, to_slot)
<1>1. PICK rule \in Offer(event, NoDigest, ss) :
        /\ RecordAttempt(result, from_slot, ss)
        /\ \/ /\ rule.to_phase = "refused"
              /\ Return(UnbootableSlots(back, from_slot, to_slot), rule.to_phase, from_slot)
           \/ rule.to_phase # "refused" /\ Return(back, rule.to_phase, from_slot)
        /\ UNCHANGED Opened
  BY DEF FailAttempt
<1>2. phase = "trying" /\ rule.to_phase \in {"armed", "refused"} /\ phase \in OpenPhases
  BY OfferFacts DEF OpenPhases
<1>3. /\ from_slot \in Slots /\ to_slot \in Slots /\ from_slot # to_slot
      /\ attempts \in Seq(LooseAttempt) /\ CandidateOf(ss) \in Slots
  BY <1>2, OpenFacts, CandidateIs
<1>4. /\ back \in [Slots -> SlotState]
      /\ back[from_slot].role = "active" /\ back[to_slot].role = "candidate"
  BY <1>2, <1>3, FellBackTyped
<1>5. /\ attempts' \in Seq(LooseAttempt)
      /\ \E a \in LooseAttempt : a.fell_back_to = from_slot /\ attempts' = Append(attempts, a)
  BY <1>1, <1>3, RecordLoose
<1> HIDE DEF back
<1>6. /\ MachineInv' /\ phase' \in {"armed", "rolled_back", "refused"}
      /\ reply'.outcome = "allowed" /\ reply'.fell_back_to = from_slot
  <2>1. CASE rule.to_phase = "refused"
    BY <1>1, <1>2, <1>4, <1>5, <2>1, GivesUpSurvives
  <2>2. CASE rule.to_phase = "armed"
    BY <1>1, <1>2, <1>4, <1>5, <2>2, ReturnSurvives DEF PHASES, TERMINAL_PHASES
  <2> QED
    BY <1>2, <2>1, <2>2
<1>7. from_slot' = from_slot /\ UNCHANGED Opened
  BY <1>1 DEF Opened
<1> QED
  BY <1>2, <1>3, <1>5, <1>6, <1>7 DEF Stepped, TERMINAL_PHASES

LEMMA VerdictSurvives ==
  ASSUME MachineInv, now \in Nat, UNCHANGED stored, reply'.outcome # "raised"
  PROVE  /\ ProbeFail => MachineInv' /\ Stepped("probe_fail") /\ UNCHANGED Opened
         /\ \A a \in EXPIRY_ACTIONS : WatchdogExpired(a) =>
              MachineInv' /\ Stepped("watchdog_expired") /\ UNCHANGED Opened
<1>1. slots \in [Slots -> SlotState]
  BY DEF MachineInv
<1>2. phase = "trying" =>
        /\ from_slot \in Slots /\ to_slot \in Slots /\ from_slot # to_slot
        /\ slots[from_slot].role = "active" /\ slots[to_slot].role = "candidate"
  BY OpenFacts DEF OpenPhases
<1>3. {"probe-failed", "watchdog-expired"} \subseteq Results
  BY DEF Results
<1>4. ASSUME ProbeFail
      PROVE  MachineInv' /\ Stepped("probe_fail") /\ UNCHANGED Opened
  BY <1>1, <1>2, <1>3, <1>4, FailAttemptSurvives DEF ProbeFail
<1>5. ASSUME NEW a \in EXPIRY_ACTIONS, WatchdogExpired(a)
      PROVE  MachineInv' /\ Stepped("watchdog_expired") /\ UNCHANGED Opened
  <2> DEFINE ss == IF a = "reboot-to-fallback" /\ phase = "trying"
                   THEN SpentSlots(slots, to_slot) ELSE slots
  <2>1. ss \in [Slots -> SlotState]
    BY <1>1, <1>2, SpentTyped
  <2>2. phase = "trying" => ss[from_slot].role = "active" /\ ss[to_slot].role = "candidate"
    BY <1>1, <1>2, SpentTyped
  <2>3. FailAttempt("watchdog_expired", "watchdog-expired", ss)
    BY <1>5 DEF WatchdogExpired
  <2> HIDE DEF ss
  <2> QED
    BY <1>3, <2>1, <2>2, <2>3, FailAttemptSurvives
<1> QED
  BY <1>4, <1>5

LEMMA OperatorAbortSurvives ==
  ASSUME MachineInv, now \in Nat, UNCHANGED stored, OperatorAbort, reply'.outcome # "raised"
  PROVE  MachineInv' /\ Stepped("operator_abort") /\ UNCHANGED Opened
<1>1. PICK rule \in Offer("operator_abort", NoDigest, slots) :
        /\ IF phase = "trying" THEN RecordAttempt("aborted", from_slot, slots)
                               ELSE UNCHANGED attempts
        /\ Return(UnbootableSlots(slots, from_slot, to_slot), rule.to_phase, from_slot)
        /\ UNCHANGED Opened
  BY DEF OperatorAbort
<1>2. phase \in OpenPhases /\ rule.to_phase = "rolled_back"
  BY OfferFacts
<1>3. /\ attempts' \in Seq(LooseAttempt)
      /\ phase = "trying" => \E a \in LooseAttempt : /\ a.fell_back_to = from_slot
                                                     /\ attempts' = Append(attempts, a)
      /\ phase # "trying" => attempts' = attempts
  <2>1. CASE phase = "trying"
    BY <1>1, <1>2, <2>1, OpenFacts, RecordLoose DEF Results
  <2>2. CASE phase # "trying"
    BY <1>1, <1>2, <2>2, OpenFacts
  <2> QED
    BY <2>1, <2>2
<1>4. /\ MachineInv' /\ phase' \in {"rolled_back", "refused"}
      /\ reply'.outcome = "allowed" /\ reply'.fell_back_to = from_slot
      /\ from_slot' = from_slot /\ from_slot \in Slots
  BY <1>1, <1>2, <1>3, OpenFacts, GivesUpSurvives
<1> QED
  BY <1>1, <1>2, <1>3, <1>4 DEF Stepped, TERMINAL_PHASES, OpenPhases

------------------------------------------------------------------------------
(* The log.                                                                 *)
LEMMA AppendFacts ==
  ASSUME NEW S, NEW seq \in Seq(S), NEW e \in S
  PROVE  /\ Append(seq, e) \in Seq(S)
         /\ Len(seq) \in Nat /\ Len(Append(seq, e)) = Len(seq) + 1
         /\ \A i \in 1..Len(seq) : Append(seq, e)[i] = seq[i]
         /\ Append(seq, e)[Len(seq) + 1] = e
OBVIOUS

LEMMA CountOneMore ==
  ASSUME NEW n \in Nat, NEW S \in SUBSET (1..n)
  PROVE  /\ Cardinality(S) \in Nat
         /\ Cardinality(S \cup {n + 1}) = Cardinality(S) + 1
<1>1. IsFiniteSet(S)
  <2>1. IsFiniteSet(1..n)
    <3>1. n \in Int /\ 1 \in Int
      OBVIOUS
    <3> QED
      BY <3>1, FS_Interval
  <2> QED
    BY <2>1, FS_Subset
<1>2. n + 1 \notin S
  OBVIOUS
<1> QED
  BY <1>1, <1>2, FS_AddElement, FS_CardinalityType

(* An entry added to a log that chains: what it must say of its step.       *)
LEMMA ChainGrows ==
  ASSUME log \in Seq(LogEntry), LogChains,
         NEW e \in LogEntry, log' = Append(log, e),
         e.fromPhase = phase, e.toPhase = phase',
         ~e.allowed => phase' = phase /\ from_slot' = from_slot /\ e.fellBackTo = NoSlot,
         e.allowed => /\ phase \notin TERMINAL_PHASES
                      /\ phase' \in {"rolled_back", "refused"} => e.fellBackTo = from_slot'
  PROVE  LogChains'
<1>0. PICK n \in Nat : n = Len(log)
  OBVIOUS
<1>1. /\ Len(log') = n + 1
      /\ \A i \in 1..n : log'[i] = log[i]
      /\ log'[n + 1] = e
  BY <1>0, AppendFacts
<1>2. \A i \in 1..(n + 1) : At(i)' = At(i)
  <2>1. ASSUME NEW i \in 1..n PROVE At(i)' = At(i)
    <3>1. ~(i > n) /\ ~(i > n + 1)
      BY <1>1
    <3> QED
      BY <1>0, <1>1, <3>1 DEF At
  <2>2. At(n + 1)' = At(n + 1)
    <3>1. n + 1 > n /\ ~(n + 1 > n + 1)
      BY <1>1
    <3> QED
      BY <1>0, <1>1, <3>1 DEF At
  <2> QED
    BY <1>1, <2>1, <2>2
<1>3. At(n + 2)' = phase'
  <2>1. n + 2 > n + 1
    BY <1>1
  <2> QED
    BY <1>1, <2>1 DEF At
<1>4. At(1)' = "idle"
  BY <1>1, <1>2 DEF LogChains
<1>5. ASSUME NEW i \in 1..n
      PROVE  /\ log'[i].toPhase = At(i + 1)'
             /\ ~log'[i].allowed =>
                  log'[i].toPhase = log'[i].fromPhase /\ log'[i].fellBackTo = NoSlot
             /\ log'[i].toPhase \in {"rolled_back", "refused"} /\ log'[i].allowed =>
                  phase' \in {"rolled_back", "refused"} /\ log'[i].fellBackTo = from_slot'
  <2>1. log'[i] = log[i] /\ At(i + 1)' = At(i + 1)
    <3>1. i + 1 \in 1..(n + 1)
      BY <1>1
    <3>2. At(i + 1)' = At(i + 1)
      BY <1>2, <3>1, Zenon
    <3> QED
      BY <1>1, <3>2
  <2>2. /\ log[i].toPhase = At(i + 1)
        /\ ~log[i].allowed => log[i].toPhase = log[i].fromPhase /\ log[i].fellBackTo = NoSlot
        /\ log[i].toPhase \in {"rolled_back", "refused"} /\ log[i].allowed =>
             phase \in {"rolled_back", "refused"} /\ log[i].fellBackTo = from_slot
    BY <1>0 DEF LogChains
  <2>3. phase \in {"rolled_back", "refused"} => phase' = phase /\ from_slot' = from_slot
    BY DEF TERMINAL_PHASES
  <2> QED
    BY <2>1, <2>2, <2>3
<1>6. /\ log'[n + 1].toPhase = At(n + 2)'
      /\ ~log'[n + 1].allowed =>
           log'[n + 1].toPhase = log'[n + 1].fromPhase /\ log'[n + 1].fellBackTo = NoSlot
      /\ log'[n + 1].toPhase \in {"rolled_back", "refused"} /\ log'[n + 1].allowed =>
           phase' \in {"rolled_back", "refused"} /\ log'[n + 1].fellBackTo = from_slot'
  BY <1>1, <1>3
<1>7. \A i \in 1..(n + 1) : i \in 1..n \/ (i = n + 1 /\ i + 1 = n + 2)
  BY <1>1
<1> QED
  BY <1>1, <1>4, <1>5, <1>6, <1>7 DEF LogChains

(* An entry added to a log that counts.                                     *)
LEMMA CountsGrow ==
  ASSUME log \in Seq(LogEntry), attempts \in Seq(LooseAttempt), LogCounts,
         NEW e \in LogEntry, log' = Append(log, e), e.fromPhase = phase,
         ~e.allowed => phase' = phase /\ attempts' = attempts,
         e.allowed =>
           /\ e.event = "boot_attempt" => phase # "trying" /\ phase' = "trying"
           /\ e.event # "boot_attempt" => phase' # "trying"
           /\ phase = "trying" => \E a \in LooseAttempt : /\ a.fell_back_to = e.fellBackTo
                                                          /\ attempts' = Append(attempts, a)
           /\ phase # "trying" => attempts' = attempts
  PROVE  LogCounts'
<1>0. PICK n \in Nat : n = Len(log)
  OBVIOUS
<1>1. /\ Len(log') = n + 1
      /\ \A i \in 1..n : log'[i] = log[i]
      /\ log'[n + 1] = e
  BY <1>0, AppendFacts
<1>2. PICK k \in Nat : k = Len(attempts)
  OBVIOUS
<1>3. \A i : i \in 1..(n + 1) <=> i \in 1..n \/ i = n + 1
  BY <1>1
<1>4. VerdictEntries \in SUBSET (1..n) /\ BootEntries \in SUBSET (1..n)
  BY <1>0 DEF VerdictEntries, BootEntries
<1>5. VerdictEntries' = IF e.allowed /\ phase = "trying"
                        THEN VerdictEntries \cup {n + 1} ELSE VerdictEntries
  BY <1>0, <1>1, <1>3 DEF VerdictEntries
<1>6. BootEntries' = IF e.allowed /\ e.event = "boot_attempt"
                     THEN BootEntries \cup {n + 1} ELSE BootEntries
  BY <1>0, <1>1, <1>3 DEF BootEntries
<1>7. /\ Cardinality(VerdictEntries) = k
      /\ \A i \in VerdictEntries : /\ AttemptNumber(i) \in 1..k
                                   /\ log[i].fellBackTo = attempts[AttemptNumber(i)].fell_back_to
      /\ Cardinality(BootEntries) = k + (IF phase = "trying" THEN 1 ELSE 0)
  BY <1>2 DEF LogCounts
<1>8. /\ Cardinality(VerdictEntries \cup {n + 1}) = k + 1
      /\ Cardinality(BootEntries \cup {n + 1}) = Cardinality(BootEntries) + 1
  BY <1>1, <1>4, <1>7, CountOneMore
<1>9. \A i \in VerdictEntries : AttemptNumber(i)' = AttemptNumber(i)
  <2> SUFFICES ASSUME NEW i \in VerdictEntries
               PROVE  AttemptNumber(i)' = AttemptNumber(i)
    OBVIOUS
  <2>1. ~(n + 1 <= i)
    BY <1>1, <1>4
  <2>2. { j \in VerdictEntries : j <= i }' = { j \in VerdictEntries : j <= i }
    BY <1>5, <2>1
  <2> QED
    BY <2>2 DEF AttemptNumber
<1>10. CASE e.allowed /\ phase = "trying"
  <2>1. PICK a \in LooseAttempt : a.fell_back_to = e.fellBackTo /\ attempts' = Append(attempts, a)
    BY <1>10
  <2>2. /\ Len(attempts') = k + 1
        /\ \A i \in 1..k : attempts'[i] = attempts[i]
        /\ attempts'[k + 1] = a
    BY <1>2, <2>1, AppendFacts
  <2>3. e.event # "boot_attempt" /\ phase' # "trying"
    BY <1>10
  <2>4. AttemptNumber(n + 1)' = k + 1
    <3>1. { j \in VerdictEntries : j <= n + 1 }' = VerdictEntries \cup {n + 1}
      <4>1. VerdictEntries' = VerdictEntries \cup {n + 1}
        BY <1>5, <1>10
      <4>2. \A j \in VerdictEntries \cup {n + 1} : j <= n + 1
        BY <1>4
      <4> QED
        BY <4>1, <4>2
    <3> QED
      BY <1>8, <3>1 DEF AttemptNumber
  <2>5. ASSUME NEW i \in VerdictEntries'
        PROVE  /\ AttemptNumber(i)' \in 1..(k + 1)
               /\ log'[i].fellBackTo = attempts'[AttemptNumber(i)'].fell_back_to
    <3>1. CASE i \in VerdictEntries
      <4>1. AttemptNumber(i)' = AttemptNumber(i) /\ AttemptNumber(i) \in 1..k
        BY <1>7, <1>9, <3>1
      <4>2. log'[i] = log[i] /\ log[i].fellBackTo = attempts[AttemptNumber(i)].fell_back_to
        BY <1>1, <1>4, <1>7, <3>1
      <4> QED
        BY <1>2, <2>2, <4>1, <4>2
    <3>2. CASE i = n + 1
      BY <1>1, <1>2, <2>1, <2>2, <2>4, <3>2
    <3> QED
      BY <1>5, <1>10, <3>1, <3>2
  <2>6. /\ Cardinality(VerdictEntries') = k + 1
        /\ Cardinality(BootEntries') = k + 1
    BY <1>5, <1>6, <1>7, <1>8, <1>10, <2>3
  <2>7. k + 1 = k + 1 + (IF phase' = "trying" THEN 1 ELSE 0)
    BY <1>2, <2>3
  <2> QED
    BY <2>2, <2>5, <2>6, <2>7 DEF LogCounts
<1>11. CASE ~(e.allowed /\ phase = "trying")
  <2>1. attempts' = attempts /\ VerdictEntries' = VerdictEntries
    BY <1>5, <1>11
  <2>2. \A i \in VerdictEntries : log'[i] = log[i]
    BY <1>1, <1>4
  <2>3. Cardinality(BootEntries') = k + (IF phase' = "trying" THEN 1 ELSE 0)
    <3>1. CASE e.allowed /\ e.event = "boot_attempt"
      BY <1>2, <1>6, <1>7, <1>8, <3>1
    <3>2. CASE e.allowed /\ e.event # "boot_attempt"
      BY <1>2, <1>6, <1>7, <1>11, <3>2
    <3>3. CASE ~e.allowed
      BY <1>6, <1>7, <3>3
    <3> QED
      BY <3>1, <3>2, <3>3
  <2> QED
    BY <1>2, <1>7, <1>9, <2>1, <2>2, <2>3 DEF LogCounts
<1> QED
  BY <1>10, <1>11

(* An event the table does not admit.                                       *)
Declined == reply' = Reply("refused", NoSlot) /\ UNCHANGED <<slots, machine>>

LEMMA DeclinedSurvives ==
  ASSUME MachineInv, UNCHANGED stored, Declined
  PROVE  MachineInv' /\ UNCHANGED Opened
<1>1. /\ slots' = slots /\ phase' = phase /\ from_slot' = from_slot /\ to_slot' = to_slot
      /\ preserved_digest' = preserved_digest /\ attempts' = attempts
      /\ candidate_digest' = candidate_digest
  BY DEF Declined, machine
<1>2. Original' = Original
  BY DEF Original
<1>3. Untouched' = Untouched
  BY <1>1, <1>2 DEF Untouched
<1>4. Underway' = Underway
  BY <1>1, <1>2 DEF Underway
<1> QED
  BY <1>1, <1>3, <1>4 DEF MachineInv, Opened

(* What the process notes of an event keeps the log an account of it.       *)
LEMMA NoteKeepsLog ==
  ASSUME LogInv, MachineInv, MachineInv', NEW event \in EVENTS,
         Stepped(event) \/ Declined, Note(event)
  PROVE  LogInv' /\ process' = process
<1> DEFINE e == Entry(event, reply'.outcome = "allowed", phase', reply'.fell_back_to)
<1>1. reply'.outcome \in {"allowed", "refused"} /\ reply'.fell_back_to \in Slots \cup {NoSlot}
  BY DEF Stepped, Declined, Reply
<1>2. process' = process /\ log' = Append(log, e)
  BY <1>1 DEF Note
<1>3. phase \in PHASES /\ phase' \in PHASES /\ attempts \in Seq(LooseAttempt)
  BY DEF MachineInv
<1>4. /\ e \in LogEntry
      /\ e.event = event /\ e.fromPhase = phase /\ e.toPhase = phase'
      /\ e.allowed <=> reply'.outcome = "allowed"
      /\ e.fellBackTo = reply'.fell_back_to
  BY <1>1, <1>3 DEF Entry, LogEntry
<1> HIDE DEF e
<1>5. /\ ~e.allowed => Declined
      /\ e.allowed => Stepped(event)
  BY <1>4 DEF Stepped, Declined, Reply
<1>6. ~e.allowed => /\ phase' = phase /\ from_slot' = from_slot /\ attempts' = attempts
                    /\ e.fellBackTo = NoSlot
  BY <1>4, <1>5 DEF Declined, Reply, machine
<1>7. log \in Seq(LogEntry) /\ LogChains /\ LogCounts
  BY DEF LogInv
<1>8. log' \in Seq(LogEntry)
  BY <1>2, <1>4, <1>7, AppendFacts
<1>9. e.allowed =>
        /\ phase \notin TERMINAL_PHASES
        /\ phase' \in {"rolled_back", "refused"} => e.fellBackTo = from_slot'
        /\ e.event = "boot_attempt" => phase # "trying" /\ phase' = "trying"
        /\ e.event # "boot_attempt" => phase' # "trying"
        /\ phase = "trying" => \E a \in LooseAttempt : /\ a.fell_back_to = e.fellBackTo
                                                       /\ attempts' = Append(attempts, a)
        /\ phase # "trying" => attempts' = attempts
  BY <1>4, <1>5 DEF Stepped
<1>10. LogChains'
  BY <1>2, <1>4, <1>6, <1>7, <1>9, ChainGrows
<1>11. LogCounts'
  BY <1>2, <1>3, <1>4, <1>6, <1>7, <1>9, CountsGrow
<1> QED
  BY <1>2, <1>8, <1>10, <1>11 DEF LogInv

(* An event replayed.                                                       *)
LEMMA EventStep ==
  ASSUME ReplayInv, process = "replay", NEW event \in EVENTS,
         Note(event), UNCHANGED <<pinned, gate, files, now>>,
         reply'.outcome # "raised" =>
           MachineInv' /\ (Stepped(event) \/ Declined) /\ ShownInv'
  PROVE  ReplayInv'
<1>1. FilesInv' /\ now' \in Nat
  BY DEF ReplayInv, FilesInv, files
<1>2. CASE reply'.outcome = "raised"
  <2>1. process' = "failed"
    BY <1>2 DEF Note
  <2> QED
    BY <1>1, <2>1 DEF ReplayInv, Live
<1>3. CASE reply'.outcome # "raised"
  <2>1. LogInv /\ MachineInv /\ GateInv
    BY DEF ReplayInv, Live
  <2>2. LogInv' /\ process' = "replay"
    BY <1>3, <2>1, NoteKeepsLog
  <2>3. GateInv'
    BY <2>1 DEF files, GateInv
  <2> QED
    BY <1>1, <1>3, <2>2, <2>3 DEF ReplayInv
<1> QED
  BY <1>2, <1>3

(* The phases of a transaction whose payload has been read back.            *)
Shown == {"candidate_ready", "armed", "trying", "promoted"}

(* Only the report of the write brings a transaction into them.             *)
LEMMA ShownKept ==
  ASSUME ShownInv, UNCHANGED <<shown, candidate_digest>>, phase' \in Shown => phase \in Shown
  PROVE  ShownInv'
BY DEF ShownInv, Shown, Observed

LEMMA OnwardOnly ==
  ASSUME \/ WriteFailed \/ Arm \/ BootAttempt \/ ProbePass \/ ProbeFail \/ OperatorAbort
         \/ \E a \in EXPIRY_ACTIONS : WatchdogExpired(a)
  PROVE  (phase' \in Shown => phase \in Shown) /\ now' = now
<1>1. CASE WriteFailed
  <2>1. phase' = "rolled_back" /\ now' = now
    BY <1>1, OfferFacts DEF WriteFailed, Return, Conclude, environment
  <2> QED
    BY <2>1 DEF Shown
<1>2. CASE Arm
  <2>1. phase = "candidate_ready" /\ now' = now
    BY <1>2, OfferFacts DEF Arm, environment
  <2> QED
    BY <2>1 DEF Shown
<1>3. CASE BootAttempt
  <2>1. phase = "armed" /\ now' = now
    BY <1>3, OfferFacts DEF BootAttempt
  <2> QED
    BY <2>1 DEF Shown
<1>4. CASE ProbePass
  <2>1. phase = "trying" /\ now' = now
    BY <1>4, OfferFacts DEF ProbePass, environment
  <2> QED
    BY <2>1 DEF Shown
<1>5. CASE ProbeFail
  <2>1. phase = "trying" /\ now' = now
    BY <1>5, OfferFacts DEF ProbeFail, FailAttempt, environment
  <2> QED
    BY <2>1 DEF Shown
<1>6. CASE OperatorAbort
  <2>1. phase' = "rolled_back" /\ now' = now
    BY <1>6, OfferFacts DEF OperatorAbort, Return, Conclude, environment
  <2> QED
    BY <2>1 DEF Shown
<1>7. ASSUME NEW a \in EXPIRY_ACTIONS, WatchdogExpired(a)
      PROVE  phase = "trying" /\ now' = now
  BY <1>7, OfferFacts DEF WatchdogExpired, FailAttempt, environment
<1>8. "trying" \in Shown
  BY DEF Shown
<1> QED
  BY <1>1, <1>2, <1>3, <1>4, <1>5, <1>6, <1>7, <1>8

------------------------------------------------------------------------------
(* The steps of the process.                                                *)
LEMMA WriteCompleteReplayed ==
  ASSUME ReplayInv, ReplayWriteComplete
  PROVE  ReplayInv'
<1>1. PICK event \in WriteEvents :
        /\ Observed(event) # NoDigest
        /\ Replay("write_complete", WriteComplete(Observed(event)))
        /\ shown' = event
  BY DEF ReplayWriteComplete
<1> DEFINE d == Observed(event)
<1>2. d \in Digests
  BY <1>1 DEF WriteEvents, Observed
<1>3. /\ process = "replay" /\ WriteComplete(d) /\ Note("write_complete")
      /\ UNCHANGED <<pinned, gate, files>>
  BY <1>1 DEF Replay
<1>4. now' = now /\ stored' = stored
  BY <1>3 DEF WriteComplete, files
<1>5. MachineInv
  BY <1>3 DEF ReplayInv, Live
<1>6. ASSUME reply'.outcome # "raised"
      PROVE  MachineInv' /\ Stepped("write_complete") /\ ShownInv'
  <2>1. MachineInv' /\ Stepped("write_complete") /\ UNCHANGED Opened
    BY <1>2, <1>3, <1>4, <1>5, <1>6, WriteCompleteSurvives
  <2>2. candidate_digest' = candidate_digest
    BY <2>1 DEF Opened
  <2>3. phase' = "rolled_back" \/ d = candidate_digest
    BY <1>3, OfferFacts DEF WriteComplete, Return, Conclude
  <2>4. Observed(shown)' = d
    BY <1>1 DEF Observed
  <2>5. ShownInv'
    BY <2>2, <2>3, <2>4 DEF ShownInv
  <2> QED
    BY <2>1, <2>5
<1>7. "write_complete" \in EVENTS
  BY DEF EVENTS
<1> QED
  BY <1>3, <1>4, <1>6, <1>7, EventStep

LEMMA OtherReplayed ==
  ASSUME ReplayInv, ReplayOther
  PROVE  ReplayInv'
<1>1. shown' = shown
  BY DEF ReplayOther
<1>2. PICK event \in EVENTS :
        /\ process = "replay" /\ Note(event) /\ UNCHANGED <<pinned, gate, files>>
        /\ \/ event = "begin" /\ \E d \in Digests : Begin(d)
           \/ event = "write_failed" /\ WriteFailed
           \/ event = "arm" /\ Arm
           \/ event = "boot_attempt" /\ BootAttempt
           \/ event = "probe_pass" /\ ProbePass
           \/ event = "probe_fail" /\ ProbeFail
           \/ event = "watchdog_expired" /\ \E a \in EXPIRY_ACTIONS : WatchdogExpired(a)
           \/ event = "operator_abort" /\ OperatorAbort
  BY DEF ReplayOther, Replay, EVENTS
<1>3. FilesInv /\ MachineInv /\ ShownInv /\ now \in Nat /\ stored' = stored
  BY <1>2 DEF ReplayInv, Live, files
<1>4. CASE event = "begin"
  <2>1. PICK d \in Digests : Begin(d)
    BY <1>2, <1>4
  <2>2. now' = now /\ phase' = "writing"
    BY <2>1, OfferFacts DEF Begin, Conclude
  <2>3. ShownInv'
    BY <2>2 DEF ShownInv
  <2>4. reply'.outcome # "raised" => MachineInv' /\ Stepped(event)
    BY <1>3, <1>4, <2>1, BeginSurvives
  <2> QED
    BY <1>2, <2>2, <2>3, <2>4, EventStep
<1>5. CASE event # "begin"
  <2>1. (phase' \in Shown => phase \in Shown) /\ now' = now
    BY <1>2, <1>5, OnwardOnly
  <2>2. reply'.outcome # "raised" => MachineInv' /\ Stepped(event) /\ UNCHANGED Opened
    BY <1>2, <1>3, <1>5, WriteFailedSurvives, ArmSurvives, BootAttemptSurvives,
       ProbePassSurvives, VerdictSurvives, OperatorAbortSurvives
  <2>3. reply'.outcome # "raised" => ShownInv'
    BY <1>1, <1>3, <2>1, <2>2, ShownKept DEF Opened
  <2> QED
    BY <1>2, <2>1, <2>2, <2>3, EventStep
<1> QED
  BY <1>4, <1>5

LEMMA RefusedReplayed ==
  ASSUME ReplayInv, ReplayRefused
  PROVE  ReplayInv'
<1>1. PICK event \in EVENTS :
        process = "replay" /\ Refuse /\ Note(event) /\ UNCHANGED <<pinned, gate, files, shown>>
  BY DEF ReplayRefused, Replay
<1>2. Declined /\ now' = now /\ stored' = stored
  BY <1>1 DEF Refuse, Declined, environment, files
<1>3. MachineInv /\ ShownInv
  BY <1>1 DEF ReplayInv, Live
<1>4. MachineInv' /\ UNCHANGED Opened
  BY <1>2, <1>3, DeclinedSurvives
<1>5. ShownInv'
  BY <1>1, <1>2, <1>3, <1>4, ShownKept DEF Declined, machine, Opened
<1> QED
  BY <1>1, <1>2, <1>4, <1>5, EventStep

(* A process has just read its files.                                       *)
LEMMA LoadStep ==
  ASSUME ReplayInv, Load
  PROVE  ReplayInv'
<1>1. /\ ProbeIsPinned /\ Construct(ReadSlots(stored))
      /\ process' = "replay" /\ pinned' = probe.checks /\ gate' = probe.checks /\ log' = <<>>
      /\ stored' = stored /\ probe' = probe /\ reviewed' = reviewed /\ now' = now
  BY DEF Load, files, environment, probe_definition_digest
<1>2. PICK ss \in [Slots -> SlotState] : stored = Documents(ss)
  BY DEF ReplayInv, FilesInv
<1>3. /\ slots' = Original /\ ConstructorAccepts(Original)
      /\ phase' = "idle" /\ from_slot' = NoSlot /\ attempts' = <<>>
  BY <1>1 DEF Construct, Original
<1>4. Original' = Original /\ Original \in [Slots -> SlotState]
  BY <1>1, <1>2, RoundTrip DEF Original
<1> HIDE DEF Original
<1>5. MachineInv'
  BY <1>3, <1>4 DEF MachineInv, Untouched, PHASES
<1>6. ShownInv'
  BY <1>3 DEF ShownInv
<1>7. LogInv'
  <2>1. Len(log') = 0 /\ log' \in Seq(LogEntry) /\ Len(attempts') = 0 /\ 1..0 = {}
    BY <1>1, <1>3
  <2>2. VerdictEntries' = {} /\ BootEntries' = {}
    BY <2>1 DEF VerdictEntries, BootEntries
  <2>3. Cardinality({}) = 0
    BY FS_EmptySet
  <2>4. LogChains'
    BY <1>3, <2>1 DEF LogChains, At
  <2>5. LogCounts'
    BY <1>3, <2>1, <2>2, <2>3 DEF LogCounts
  <2> QED
    BY <2>1, <2>4, <2>5 DEF LogInv
<1>8. FilesInv /\ probe.checks = probe.definitionDigest /\ now \in Nat
  BY <1>1 DEF ReplayInv, ProbeIsPinned, probe_definition_digest
<1>9. FilesInv' /\ GateInv' /\ now' \in Nat
  BY <1>1, <1>8 DEF FilesInv, GateInv
<1> QED
  BY <1>1, <1>5, <1>6, <1>7, <1>9 DEF ReplayInv

(* A process leaves what it shares with its successors as it was.           *)
Remains == /\ FilesInv' = FilesInv /\ LogInv' = LogInv
           /\ MachineInv' = MachineInv /\ ShownInv' = ShownInv /\ phase' = phase
           /\ now' = now /\ pinned' = pinned /\ gate' = gate /\ reviewed' = reviewed

LEMMA NothingMoves ==
  ASSUME UNCHANGED <<vars, files, pinned, gate, log, shown>>
  PROVE  Remains
<1>1. /\ UNCHANGED <<slots, phase, from_slot, to_slot, preserved_digest, candidate_digest>>
      /\ UNCHANGED <<attempts, now, stored, probe, reviewed, pinned, gate, log, shown>>
  BY DEF vars, machine, environment, files
<1>2. FilesInv' = FilesInv
  BY <1>1 DEF FilesInv
<1>3. LogInv' = LogInv
  BY <1>1 DEF LogInv, LogChains, LogCounts, At, AttemptNumber, VerdictEntries, BootEntries
<1>4. MachineInv' = MachineInv
  BY <1>1 DEF MachineInv, Untouched, Underway, Original
<1>5. ShownInv' = ShownInv
  BY <1>1 DEF ShownInv, Observed
<1> QED
  BY <1>1, <1>2, <1>3, <1>4, <1>5 DEF Remains

LEMMA EndsSteps ==
  ASSUME ReplayInv, LoadFails \/ ReplayBadEvent \/ Emit
  PROVE  ReplayInv'
<1>1. Remains
  BY NothingMoves DEF LoadFails, ReplayBadEvent, Emit
<1>2. CASE process' = "failed"
  BY <1>1, <1>2 DEF ReplayInv, Live, GateInv, Remains
<1>3. CASE process' = "emitted" /\ process = "replay" /\ phase # "idle"
  BY <1>1, <1>3 DEF ReplayInv, Live, GateInv, Remains
<1> QED
  BY <1>2, <1>3 DEF LoadFails, ReplayBadEvent, Emit

LEMMA PlanStep ==
  ASSUME ReplayInv, ab_update_plan
  PROVE  ReplayInv'
<1>1. PICK d \in Digests : process = "replay" /\ Begin(d) /\ UNCHANGED <<files, pinned, gate>>
  BY DEF ab_update_plan
<1>2. FilesInv' /\ now' \in Nat /\ GateInv'
  BY <1>1 DEF ReplayInv, Live, FilesInv, GateInv, files, Begin
<1>3. phase' = "writing" /\ reply'.outcome \in {"allowed", "raised"}
  BY <1>1, OfferFacts DEF Begin, Conclude, Reply
<1>4. CASE reply'.outcome = "allowed"
  <2>1. process' = "planned"
    BY <1>4 DEF ab_update_plan
  <2>2. MachineInv'
    BY <1>1, <1>4, BeginSurvives DEF ReplayInv, Live, files
  <2>3. ShownInv'
    BY <1>3 DEF ShownInv
  <2> QED
    BY <1>2, <1>3, <2>1, <2>2, <2>3 DEF ReplayInv
<1>5. CASE reply'.outcome = "raised"
  <2>1. process' = "failed"
    BY <1>5 DEF ab_update_plan
  <2> QED
    BY <1>2, <2>1 DEF ReplayInv, Live
<1> QED
  BY <1>3, <1>4, <1>5

(* The editor of the probe touches nothing else.                            *)
LEMMA EditorSteps ==
  ASSUME ReplayInv, EditProbe \/ PinProbe
  PROVE  ReplayInv'
<1>1. UNCHANGED <<vars, run, stored>>
  BY DEF EditProbe, PinProbe
<1>2. /\ UNCHANGED <<slots, phase, from_slot, to_slot, preserved_digest, candidate_digest>>
      /\ UNCHANGED <<attempts, now, stored, process, pinned, gate, log, shown>>
  BY <1>1 DEF vars, machine, environment, run
<1>3. /\ FilesInv /\ reviewed \subseteq reviewed'
      /\ probe' \in [checks : Checks \cup {Incomplete}, definitionDigest : Checks]
      /\ probe'.definitionDigest \in reviewed'
  <2>0. FilesInv /\ probe \in [checks : Checks \cup {Incomplete}, definitionDigest : Checks]
    BY DEF ReplayInv, FilesInv
  <2>1. CASE EditProbe
    <3>1. PICK c \in Checks \cup {Incomplete} : probe' = [probe EXCEPT !.checks = c]
      BY <2>1 DEF EditProbe
    <3>2. /\ probe' \in [checks : Checks \cup {Incomplete}, definitionDigest : Checks]
          /\ probe'.definitionDigest = probe.definitionDigest
      BY <2>0, <3>1
    <3>3. reviewed' = reviewed
      BY <2>1 DEF EditProbe
    <3> QED
      BY <2>0, <3>2, <3>3 DEF FilesInv
  <2>2. CASE PinProbe
    <3>1. /\ probe' = [probe EXCEPT !.definitionDigest = probe.checks]
          /\ reviewed' = reviewed \cup {probe.checks}
          /\ probe.checks # Incomplete
      BY <2>2 DEF PinProbe
    <3>2. probe.checks \in Checks
      BY <2>0, <3>1
    <3>3. /\ probe' \in [checks : Checks \cup {Incomplete}, definitionDigest : Checks]
          /\ probe'.definitionDigest = probe.checks
      BY <2>0, <3>1, <3>2
    <3> QED
      BY <2>0, <3>1, <3>3 DEF FilesInv
  <2> QED
    BY <2>1, <2>2
<1>4. FilesInv'
  BY <1>2, <1>3 DEF FilesInv
<1>5. LogInv' = LogInv
  BY <1>2 DEF LogInv, LogChains, LogCounts, At, AttemptNumber, VerdictEntries, BootEntries
<1>6. MachineInv' = MachineInv
  BY <1>2 DEF MachineInv, Untouched, Underway, Original
<1>7. ShownInv' = ShownInv
  BY <1>2 DEF ShownInv, Observed
<1> QED
  BY <1>2, <1>3, <1>4, <1>5, <1>6, <1>7 DEF ReplayInv, Live, GateInv

LEMMA ReplayInitInvariant == ReplayInit => ReplayInv
<1> SUFFICES ASSUME ReplayInit PROVE ReplayInv
  OBVIOUS
<1>1. slots \in [Slots -> SlotState] /\ now = 0
  BY InitialSlotsAssumption DEF ReplayInit, Init
<1>2. PICK ss \in {slots} \cup RejectedSlots : stored = Documents(ss)
  BY DEF ReplayInit
<1>3. ss \in [Slots -> SlotState]
  BY <1>1, <1>2, RejectedSlotsAssumption
<1>4. /\ probe \in [checks : Checks \cup {Incomplete}, definitionDigest : Checks]
      /\ probe.definitionDigest \in reviewed /\ process = "none"
  BY DEF ReplayInit
<1> QED
  BY <1>1, <1>2, <1>3, <1>4 DEF ReplayInv, FilesInv, Live

LEMMA ReplayNextInvariant == ReplayInv /\ [ReplayNext]_replayVars => ReplayInv'
<1> SUFFICES ASSUME ReplayInv, [ReplayNext]_replayVars PROVE ReplayInv'
  OBVIOUS
<1>1. CASE Load
  BY <1>1, LoadStep
<1>2. CASE LoadFails \/ ReplayBadEvent \/ Emit
  BY <1>2, EndsSteps
<1>3. CASE ReplayWriteComplete
  BY <1>3, WriteCompleteReplayed
<1>4. CASE ReplayOther
  BY <1>4, OtherReplayed
<1>5. CASE ReplayRefused
  BY <1>5, RefusedReplayed
<1>6. CASE ab_update_plan
  BY <1>6, PlanStep
<1>7. CASE EditProbe \/ PinProbe
  BY <1>7, EditorSteps
<1>8. CASE UNCHANGED replayVars
  <2>1. Remains /\ process' = process
    BY <1>8, NothingMoves DEF replayVars, files, run
  <2> QED
    BY <2>1 DEF ReplayInv, Live, GateInv, Remains
<1> QED
  BY <1>1, <1>2, <1>3, <1>4, <1>5, <1>6, <1>7, <1>8 DEF ReplayNext

------------------------------------------------------------------------------
(* Whatever documents the constructor takes, in every state of every        *)
(* process: a machine that has not raised is as its last assertion has      *)
(* found it, and the log is an account of how it came there.                *)
THEOREM ReplayInvariance == ReplaySpec => []ReplayInv
BY ReplayInitInvariant, ReplayNextInvariant, PTL DEF ReplaySpec

(* The log a replay prints leads without a gap from no transaction to the   *)
(* phase it names last, the events the machine declined moved nothing, and  *)
(* the trials in it are the attempts of the document, one by one, with the  *)
(* slot each fell back to (ab_update_replay in cli.py).                     *)
THEOREM LogIsAnAccount == ReplaySpec => []LogExplainsOutcome
<1>1. ReplayInv => LogExplainsOutcome
  <2> SUFFICES ASSUME ReplayInv, process = "emitted" PROVE LogExplainsOutcome
    BY DEF LogExplainsOutcome
  <2>1. log \in Seq(LogEntry) /\ LogChains /\ LogCounts
    BY DEF ReplayInv, LogInv
  <2>2. phase \in {"rolled_back", "refused"} => transaction.settledOnSlot = from_slot
    BY DEF transaction, SettledOnSlot, TERMINAL_PHASES
  <2>3. \A i \in 1..Len(log) :
          /\ log[i].toPhase = At(i + 1)
          /\ ~log[i].allowed => log[i].toPhase = log[i].fromPhase /\ log[i].fellBackTo = NoSlot
          /\ log[i].toPhase \in {"rolled_back", "refused"} /\ log[i].allowed =>
               log[i].fellBackTo = transaction.settledOnSlot
    BY <2>1, <2>2 DEF LogChains
  <2>4. At(1) = "idle"
    BY <2>1 DEF LogChains
  <2> QED
    BY <2>1, <2>3, <2>4 DEF LogExplainsOutcome, LogCounts, At, AttemptNumber
<1> QED
  BY <1>1, ReplayInvariance, PTL

(* What a command prints keeps the fallback of a target, even one whose     *)
(* documents broke the contract in a way the constructor does not look at:  *)
(* _assert_invariants is enough, because a machine that fails it prints     *)
(* nothing.                                                                 *)
THEOREM PrintedKeepsFallback == ReplaySpec => []EmittedKeepsFallback
<1>1. ReplayInv => EmittedKeepsFallback
  <2> SUFFICES ASSUME ReplayInv, Printed PROVE EmittedKeepsFallback
    BY DEF EmittedKeepsFallback
  <2>1. slots \in [Slots -> SlotState] /\ Underway
    BY DEF ReplayInv, Printed, Live, MachineInv
  <2>2. /\ transaction.fromSlot = from_slot
        /\ transaction.preservedPayloadDigest = preserved_digest
    BY DEF transaction
  <2>3. from_slot \in Slots /\ from_slot # NoSlot
    BY <2>1 DEF Underway, Slots, NoSlot
  <2>4. /\ slots[from_slot].successful
        /\ slots[from_slot].payload_digest = preserved_digest
        /\ Original[from_slot].role = "active"
        /\ Original[from_slot].payload_digest = preserved_digest
    BY <2>1, <2>3 DEF Underway, AssertInvariants
  <2>5. ASSUME phase \in {"armed", "trying"} PROVE slots[from_slot].boot_priority > 0
    <3>1. slots[ActiveOf(slots)].boot_priority >= 1 /\ OneActive(slots)
      BY <2>1, <2>5 DEF Underway, AssertInvariants
    <3>2. \A s \in Slots : slots[s].role \in {"active", "candidate"}
      BY <2>1 DEF SlotState
    <3>3. slots[from_slot].role = "active"
      BY <2>1, <2>5 DEF Underway, OpenPhases
    <3>4. from_slot = ActiveOf(slots)
      BY <2>3, <3>1, <3>2, <3>3, RolesLemma
    <3>5. slots[from_slot].boot_priority \in 0..15
      BY <2>1, <2>3 DEF SlotState
    <3> QED
      BY <3>1, <3>4, <3>5
  <2>6. phase \in TERMINAL_PHASES => slots[from_slot].boot_priority > 0
    BY <2>1 DEF Underway
  <2> QED
    BY <2>2, <2>4, <2>5, <2>6 DEF EmittedKeepsFallback, Selectable, Original
<1> QED
  BY <1>1, ReplayInvariance, PTL

(* The gate a printed transaction names is that of the probe the process    *)
(* read, as it stood in the file, and was pinned so by somebody             *)
(* (_load_ab_update_machine recomputes the digest and refuses a stale one). *)
THEOREM EveryGateIsReviewed == ReplaySpec => []GateIsReviewed
<1>1. ReplayInv => GateIsReviewed
  BY DEF ReplayInv, Live, GateInv, GateIsReviewed, Printed, transaction
<1> QED
  BY <1>1, ReplayInvariance, PTL

(* A payload that is promoted was shown by the events to be the candidate.  *)
THEOREM EveryPromotionIsShown == ReplaySpec => []PromotionIsShown
<1>1. ReplayInv => PromotionIsShown
  <2> SUFFICES ASSUME ReplayInv, Printed, transaction.outcome = "promoted"
               PROVE  Observed(shown) = transaction.candidatePayloadDigest
    BY DEF PromotionIsShown, Observed
  <2>1. phase = "promoted" /\ transaction.candidatePayloadDigest = candidate_digest
    BY DEF transaction, OutcomeOf
  <2>2. ShownInv
    BY DEF ReplayInv, Live, Printed
  <2> QED
    BY <2>1, <2>2 DEF ShownInv
<1> QED
  BY <1>1, ReplayInvariance, PTL

------------------------------------------------------------------------------
(* Documents that obey the contract.  The machine of a process that has     *)
(* read them keeps the invariant of AbUpdateProofs; its media are those of  *)
(* no process in particular, and that invariant asks nothing of them before *)
(* a write is reported.                                                     *)
ContractInv ==
  /\ MediaOK
  /\ ContractPair(Original) => NeverRaises /\ (Live => IInv)

(* What a process does to its machine is an event of the machine.           *)
Driven == ReplayWriteComplete \/ ReplayOther \/ ReplayRefused \/ ab_update_plan

LEMMA DrivenIsNext ==
  ASSUME Driven
  PROVE  process = "replay" /\ Next /\ stored' = stored
<1>1. CASE ReplayWriteComplete
  <2>1. PICK event \in WriteEvents :
          /\ Observed(event) # NoDigest
          /\ Replay("write_complete", WriteComplete(Observed(event)))
    BY <1>1 DEF ReplayWriteComplete
  <2>2. Observed(event) \in Digests
    BY <2>1 DEF WriteEvents, Observed
  <2> QED
    BY <2>1, <2>2 DEF Replay, Next, files
<1>2. CASE ReplayOther
  BY <1>2 DEF ReplayOther, Replay, Next, Verdict, files
<1>3. CASE ReplayRefused
  BY <1>3 DEF ReplayRefused, Replay, Next, files
<1>4. CASE ab_update_plan
  BY <1>4 DEF ab_update_plan, Next, files
<1> QED
  BY <1>1, <1>2, <1>3, <1>4 DEF Driven

LEMMA NextKeepsMedia ==
  ASSUME MediaOK, Next
  PROVE  MediaOK'
<1>1. ASSUME NEW d \in Digests, Begin(d) \/ WriteComplete(d) PROVE MediaOK'
  <2>1. UNCHANGED <<now, handed_at>>
    BY <1>1 DEF Begin, WriteComplete
  <2>2. \/ installed' = [installed EXCEPT ![CandidateOf(slots)] = Partial]
        \/ installed' = [installed EXCEPT ![to_slot] = d]
    BY <1>1 DEF Begin, WriteComplete
  <2> QED
    BY <2>1, <2>2 DEF MediaOK
<1>2. CASE BootAttempt
  BY <1>2 DEF BootAttempt, MediaOK
<1>3. CASE Tick
  BY <1>3, MaxClockAssumption DEF Tick, MediaOK
<1>4. CASE WriteFailed \/ Arm \/ ProbePass \/ OperatorAbort \/ Refuse
  BY <1>4 DEF WriteFailed, Arm, ProbePass, OperatorAbort, Refuse, environment, MediaOK
<1>5. CASE ProbeFail \/ \E a \in EXPIRY_ACTIONS : WatchdogExpired(a)
  BY <1>5 DEF ProbeFail, WatchdogExpired, FailAttempt, environment, MediaOK
<1> QED
  BY <1>1, <1>2, <1>3, <1>4, <1>5 DEF Next, Verdict

LEMMA ContractNext ==
  ASSUME ContractInv, [ReplayNext]_replayVars
  PROVE  ContractInv'
<1>1. CASE Driven
  <2>1. process = "replay" /\ Next /\ Original' = Original
    BY <1>1, DrivenIsNext DEF Original
  <2>2. MediaOK'
    BY <2>1, NextKeepsMedia DEF ContractInv
  <2>3. ASSUME ContractPair(Original) PROVE NeverRaises' /\ IInv'
    <3>1. IInv
      BY <2>1, <2>3 DEF ContractInv, Live
    <3>2. IInv'
      BY <2>1, <3>1, NextInvariant
    <3> QED
      BY <3>2 DEF IInv
  <2> QED
    BY <2>1, <2>2, <2>3 DEF ContractInv
<1>2. CASE Load
  <2>1. /\ Construct(Original) /\ Original' = Original /\ UNCHANGED environment
    BY <1>2 DEF Load, Original, files
  <2>2. MediaOK'
    BY <2>1 DEF ContractInv, MediaOK, environment
  <2>3. ContractPair(Original) => IInv'
    BY <2>1, <2>2, ConstructInvariant
  <2> QED
    BY <2>1, <2>2, <2>3 DEF ContractInv, IInv
<1>3. ASSUME UNCHANGED vars, stored' = stored, Live' => Live
      PROVE  ContractInv'
  <2>1. Original' = Original
    BY <1>3 DEF Original
  <2>2. MediaOK' = MediaOK /\ NeverRaises' = NeverRaises
    BY <1>3 DEF vars, environment, MediaOK, NeverRaises
  <2>3. IInv => IInv'
    BY <1>3, NextInvariant
  <2> QED
    BY <1>3, <2>1, <2>2, <2>3 DEF ContractInv
<1>4. CASE LoadFails \/ ReplayBadEvent \/ Emit
  BY <1>3, <1>4 DEF LoadFails, ReplayBadEvent, Emit, files, Live
<1>5. CASE EditProbe \/ PinProbe
  BY <1>3, <1>5 DEF EditProbe, PinProbe, run, Live
<1>6. CASE UNCHANGED replayVars
  BY <1>3, <1>6 DEF replayVars, files, run, Live
<1> QED
  BY <1>1, <1>2, <1>4, <1>5, <1>6 DEF ReplayNext, Driven

LEMMA ContractInit == ReplayInit => ContractInv
<1> SUFFICES ASSUME ReplayInit PROVE ContractInv
  OBVIOUS
<1>1. slots \in [Slots -> SlotState] /\ process = "none" /\ reply = Reply("none", NoSlot)
  BY InitialSlotsAssumption DEF ReplayInit, Init
<1>2. \A s \in Slots : slots[s].payload_digest \in Digests \cup {NoDigest}
  BY <1>1 DEF SlotState
<1>3. MediaOK
  BY <1>2, MaxClockAssumption DEF ReplayInit, Init, MediaOK
<1> QED
  BY <1>1, <1>3 DEF ContractInv, NeverRaises, Reply, Live

(* Documents that obey the contract go in, and whatever the events file     *)
(* says, no assertion ends the process and documents that obey it come out. *)
THEOREM ConformingStaysConforming == ReplaySpec => []EmittedConforms
<1>1. ReplayInit => ContractInv
  BY ContractInit
<1>2. ContractInv /\ [ReplayNext]_replayVars => ContractInv'
  BY ContractNext
<1>3. ContractInv => EmittedConforms
  <2> SUFFICES ASSUME ContractInv, ContractPair(Original) PROVE EmittedConforms
    BY DEF EmittedConforms, Original
  <2>1. NeverRaises /\ (Printed => IInv)
    BY DEF ContractInv, Live, Printed
  <2>2. IInv => SlotsConform /\ TransactionConforms
    BY TransactionFacts DEF IInv, SlotsConform
  <2> QED
    BY <2>1, <2>2 DEF EmittedConforms
<1> QED
  BY <1>1, <1>2, <1>3, PTL DEF ReplaySpec
==============================================================================
