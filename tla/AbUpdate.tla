------------------------------- MODULE AbUpdate -------------------------------
(***************************************************************************)
(* One AbUpdateMachine (src/sourceos_boot/ab_update_machine.py): one       *)
(* transaction that moves a two-slot target from the payload of its active *)
(* slot to a new payload.  Each event of the machine is an action; an      *)
(* event that the table does not admit is the action Refuse.  The caller   *)
(* may offer any event at any time, so late and repeated reports of the    *)
(* bootloader, the probe and the watchdogs are among the behaviours.       *)
(*                                                                         *)
(* Beside the fields of the machine there are three variables of its       *)
(* environment: what the medium of each slot really holds, the clock, and  *)
(* when the bootloader last handed control to the candidate.               *)
(*                                                                         *)
(* A Python exception raised by _assert_invariants leaves the object with  *)
(* the fields the handler had already assigned; reply.outcome "raised"     *)
(* marks it, and a caller that catches the exception may go on.            *)
(***************************************************************************)
EXTENDS AbSlots, Sequences

CONSTANTS
  InitialSlots,   \* the pairs of slots a machine may be built on
  MaxClock        \* bound: the clock stops there

ASSUME InitialSlotsAssumption ==
         \A ss \in InitialSlots : ss \in [Slots -> SlotState] /\ ConstructorAccepts(ss)

ASSUME MaxClockAssumption == MaxClock \in Nat

VARIABLES
  slots,             \* the pair of SlotState records
  phase,
  from_slot,         \* the active slot when the transaction opened
  to_slot,           \* the write target
  preserved_digest,  \* of the payload in from_slot at open
  candidate_digest,  \* of the payload that is to be written
  attempts,          \* the ledger of trial boots that have a verdict
  rollback_reason,
  reply,             \* what the last call returned, or that it raised
  installed,         \* what the medium of each slot holds
  now,               \* the clock
  handed_at          \* when control was last handed to to_slot

machine     == <<phase, from_slot, to_slot, preserved_digest, candidate_digest,
                 attempts, rollback_reason>>
environment == <<installed, now, handed_at>>
vars        == <<slots, machine, reply, environment>>

Partial  == "partial"     \* a payload that is not, or not completely, written
NoReason == "none"

Results == {"pass", "probe-failed", "watchdog-expired", "aborted"}

AttemptRecord ==
  [attempt_number        : 1..7,
   started_at            : Nat,
   result                : Results,
   fell_back_to          : Slots \cup {NoSlot},
   tries_remaining_after : 0..7]

Reply(outcome, fell_back_to) == [outcome |-> outcome, fell_back_to |-> fell_back_to]

TypeOK ==
  /\ slots \in [Slots -> SlotState]
  /\ phase \in PHASES
  /\ from_slot \in Slots \cup {NoSlot}
  /\ to_slot \in Slots \cup {NoSlot}
  /\ preserved_digest \in Digests \cup {Unset}
  /\ candidate_digest \in Digests \cup {Unset}
  /\ attempts \in Seq(AttemptRecord)
  /\ rollback_reason \in ROLLBACK_REASONS \cup {NoReason}
  /\ reply \in [outcome : {"none", "allowed", "refused", "raised"},
                fell_back_to : Slots \cup {NoSlot}]
  /\ installed \in [Slots -> Digests \cup {NoDigest, Partial}]
  /\ now \in 0..MaxClock
  /\ handed_at \in 0..MaxClock

Init ==
  /\ slots \in InitialSlots
  /\ phase = "idle"
  /\ from_slot = NoSlot
  /\ to_slot = NoSlot
  /\ preserved_digest = Unset
  /\ candidate_digest = Unset
  /\ attempts = <<>>
  /\ rollback_reason = NoReason
  /\ reply = Reply("none", NoSlot)
  /\ installed = [s \in Slots |-> IF slots[s].state = "writing" /\ ~slots[s].successful
                                  THEN Partial ELSE slots[s].payload_digest]
  /\ now = 0
  /\ handed_at = 0

(* The constructor, for a process that builds a new machine.                *)
Construct(ss) ==
  /\ ConstructorAccepts(ss)
  /\ slots' = ss
  /\ phase' = "idle"
  /\ from_slot' = NoSlot
  /\ to_slot' = NoSlot
  /\ preserved_digest' = Unset
  /\ candidate_digest' = Unset
  /\ attempts' = <<>>
  /\ rollback_reason' = NoReason
  /\ reply' = Reply("none", NoSlot)

------------------------------------------------------------------------------
(* Admission.                                                               *)

(* A mutant: the digest that was read back is not compared.                 *)
GuardHolds_Unverified(guard, observed_digest, ss) ==
  LET tries == ss[CandidateOf(ss)].tries_remaining IN
  /\ guard # "digest_mismatch"
  /\ guard = "tries_remain"    => tries > 0
  /\ guard = "tries_exhausted" => tries = 0

GuardHolds(guard, observed_digest, ss) ==
  LET tries == ss[CandidateOf(ss)].tries_remaining IN
  /\ guard = "digest_matches"  => observed_digest = candidate_digest
  /\ guard = "digest_mismatch" => observed_digest # candidate_digest
  /\ guard = "tries_remain"    => tries > 0
  /\ guard = "tries_exhausted" => tries = 0

(* The rules that admit an event in this phase: at most one, and none once  *)
(* the transaction is terminal.  boot_attempt looks at the budget itself.   *)
Offer(event, observed_digest, ss) ==
  { rule \in TRANSITION_TABLE :
      /\ phase \notin TERMINAL_PHASES
      /\ rule.event = event
      /\ rule.from_phase = phase
      /\ GuardHolds(rule.guard, observed_digest, ss)
      /\ event = "boot_attempt" => ss[CandidateOf(ss)].tries_remaining > 0 }

(* What _assert_invariants checks, of the values a handler leaves behind.   *)
AssertInvariants(ss, ph, from, preserved) ==
  /\ from # NoSlot => /\ ss[from].payload_digest = preserved
                      /\ ss[from].successful
  /\ OneRunning(ss)
  /\ OneActive(ss)
  /\ \A s \in Slots :
       /\ ss[s].state = "writing" => ss[s].role = "candidate"
       /\ ss[s].state = "unbootable" => ss[s].boot_priority = 0
  /\ ph \in {"armed", "trying"} =>
       LET active    == ss[ActiveOf(ss)]
           candidate == ss[CandidateOf(ss)]
       IN  candidate.boot_priority > active.boot_priority /\ active.boot_priority >= 1

(* The end of every handler: the assertion, then the reply.                 *)
Conclude(ss, ph, from, preserved, fell_back_to) ==
  /\ slots' = ss
  /\ phase' = ph
  /\ reply' = IF AssertInvariants(ss, ph, from, preserved)
              THEN Reply("allowed", fell_back_to)
              ELSE Reply("raised", NoSlot)

Return(ss, ph, fell_back_to) ==
  Conclude(ss, ph, from_slot, preserved_digest, fell_back_to)

(* A mutant: the ledger shows the tries there were before the attempt.      *)
RecordAttempt_Bug(result, fell_back_to, ss) ==
  attempts' = Append(attempts,
                [attempt_number        |-> Len(attempts) + 1,
                 started_at            |-> now,
                 result                |-> result,
                 fell_back_to          |-> fell_back_to,
                 tries_remaining_after |-> MaxAttempts - Len(attempts)])

RecordAttempt(result, fell_back_to, ss) ==
  attempts' = Append(attempts,
                [attempt_number        |-> Len(attempts) + 1,
                 started_at            |-> now,
                 result                |-> result,
                 fell_back_to          |-> fell_back_to,
                 tries_remaining_after |-> ss[CandidateOf(ss)].tries_remaining])

Opened == <<from_slot, to_slot, preserved_digest, candidate_digest>>

------------------------------------------------------------------------------
(* The events.                                                              *)

(* The write target is the slot in role candidate; the caller cannot name   *)
(* one.  An active slot without a digest is recorded as the empty string.   *)
Begin(payload_digest) ==
  \E rule \in Offer("begin", NoDigest, slots) :
    LET from      == ActiveOf(slots)
        to        == CandidateOf(slots)
        preserved == IF slots[from].payload_digest = NoDigest
                     THEN Unset ELSE slots[from].payload_digest
    IN  /\ from_slot' = from
        /\ to_slot' = to
        /\ preserved_digest' = preserved
        /\ candidate_digest' = payload_digest
        /\ Conclude(WritingSlots(slots, to, payload_digest), rule.to_phase,
                    from, preserved, NoSlot)
        /\ installed' = [installed EXCEPT ![to] = Partial]
        /\ UNCHANGED <<attempts, rollback_reason, now, handed_at>>

WriteComplete(observed_digest) ==
  \E rule \in Offer("write_complete", observed_digest, slots) :
    /\ \/ /\ rule.to_phase = "rolled_back"
          /\ rollback_reason' = "digest-mismatch"
          /\ Return(UnbootableSlots(slots, from_slot, to_slot), rule.to_phase, from_slot)
       \/ /\ rule.to_phase # "rolled_back"
          /\ Return(WrittenSlots(slots, to_slot), rule.to_phase, NoSlot)
          /\ UNCHANGED rollback_reason
    /\ installed' = [installed EXCEPT ![to_slot] = observed_digest]
    /\ UNCHANGED <<Opened, attempts, now, handed_at>>

(* A mutant: a slot whose write failed is called empty, and no more.        *)
WriteFailed_Bug ==
  \E rule \in Offer("write_failed", NoDigest, slots) :
    /\ rollback_reason' = "write-failed"
    /\ Return([slots EXCEPT ![to_slot].state = "empty"], rule.to_phase, from_slot)
    /\ UNCHANGED <<Opened, attempts, environment>>

WriteFailed ==
  \E rule \in Offer("write_failed", NoDigest, slots) :
    /\ rollback_reason' = "write-failed"
    /\ Return(UnbootableSlots(slots, from_slot, to_slot), rule.to_phase, from_slot)
    /\ UNCHANGED <<Opened, attempts, environment>>

Arm ==
  \E rule \in Offer("arm", NoDigest, slots) :
    /\ Return(ArmedSlots(slots, from_slot, to_slot), rule.to_phase, NoSlot)
    /\ UNCHANGED <<Opened, attempts, rollback_reason, environment>>

BootAttempt ==
  \E rule \in Offer("boot_attempt", NoDigest, slots) :
    /\ Return(TrialSlots(slots, from_slot, to_slot), rule.to_phase, NoSlot)
    /\ handed_at' = now
    /\ UNCHANGED <<Opened, attempts, rollback_reason, installed, now>>

ProbePass ==
  \E rule \in Offer("probe_pass", NoDigest, slots) :
    /\ RecordAttempt("pass", NoSlot, slots)
    /\ rollback_reason' = NoReason
    /\ Return(PromotedSlots(slots, from_slot, to_slot), rule.to_phase, NoSlot)
    /\ UNCHANGED <<Opened, environment>>

(* _fail_attempt, on the slots the watchdog has left.  The attempt is       *)
(* recorded before the slots fall back, and the budget decides whether the  *)
(* candidate is kept for another try or given up.                           *)
FailAttempt(event, result, ss) ==
  \E rule \in Offer(event, NoDigest, ss) :
    LET back == FellBackSlots(ss, from_slot, to_slot) IN
    /\ RecordAttempt(result, from_slot, ss)
    /\ \/ /\ rule.to_phase = "refused"
          /\ rollback_reason' = "attempts-exhausted"
          /\ Return(UnbootableSlots(back, from_slot, to_slot), rule.to_phase, from_slot)
       \/ /\ rule.to_phase # "refused"
          /\ Return(back, rule.to_phase, from_slot)
          /\ UNCHANGED rollback_reason
    /\ UNCHANGED <<Opened, environment>>

ProbeFail == FailAttempt("probe_fail", "probe-failed", slots)

(* A mutant: the tries are zeroed for a report nobody is waiting for, too.  *)
WatchdogExpired_Bug(expiry_action) ==
  \/ FailAttempt("watchdog_expired", "watchdog-expired", slots)
  \/ /\ expiry_action = "reboot-to-fallback" /\ phase = "armed"
     /\ slots' = SpentSlots(slots, to_slot)
     /\ reply' = Reply("refused", NoSlot)
     /\ UNCHANGED <<machine, environment>>

(* The tries are zeroed before the event is offered, but only on trial.     *)
WatchdogExpired(expiry_action) ==
  FailAttempt("watchdog_expired", "watchdog-expired",
              IF expiry_action = "reboot-to-fallback" /\ phase = "trying"
              THEN SpentSlots(slots, to_slot) ELSE slots)

(* A mutant: an abort on trial leaves no record of the attempt.             *)
OperatorAbort_Bug ==
  \E rule \in Offer("operator_abort", NoDigest, slots) :
    /\ rollback_reason' = "operator-abort"
    /\ Return(UnbootableSlots(slots, from_slot, to_slot), rule.to_phase, from_slot)
    /\ UNCHANGED <<Opened, attempts, environment>>

OperatorAbort ==
  \E rule \in Offer("operator_abort", NoDigest, slots) :
    /\ IF phase = "trying" THEN RecordAttempt("aborted", from_slot, slots)
                           ELSE UNCHANGED attempts
    /\ rollback_reason' = "operator-abort"
    /\ Return(UnbootableSlots(slots, from_slot, to_slot), rule.to_phase, from_slot)
    /\ UNCHANGED <<Opened, environment>>

(* An event no rule admits changes nothing but the reply.                   *)
Refuse ==
  /\ \E event \in EVENTS : Offer(event, candidate_digest, slots) = {}
  /\ reply' = Reply("refused", NoSlot)
  /\ UNCHANGED <<slots, machine, environment>>

Tick ==
  /\ now < MaxClock
  /\ now' = now + 1
  /\ UNCHANGED <<slots, machine, reply, installed, handed_at>>

Verdict == ProbePass \/ ProbeFail \/ \E a \in EXPIRY_ACTIONS : WatchdogExpired(a)

Next ==
  \/ \E d \in Digests : Begin(d) \/ WriteComplete(d)
  \/ WriteFailed
  \/ Arm
  \/ BootAttempt
  \/ Verdict
  \/ OperatorAbort
  \/ Refuse
  \/ Tick

Spec == Init /\ [][Next]_vars

------------------------------------------------------------------------------
(* What the machine is for.                                                 *)

OpenPhases == {"writing", "candidate_ready", "armed", "trying"}

(* to_transaction_document: the outcome and the slot it says it settled on. *)
OutcomeOf(ph) ==
  CASE ph = "promoted"    -> "promoted"
    [] ph = "rolled_back" -> "rolled-back"
    [] ph = "refused"     -> "refused"
    [] OTHER              -> "pending"

SettledOnSlot ==
  CASE phase \notin TERMINAL_PHASES -> NoSlot
    [] phase = "promoted"           -> to_slot
    [] OTHER                        -> from_slot

(* On a target that obeys the contract, no sequence of events makes an      *)
(* internal assertion fail: _assert_invariants is a backstop and not an     *)
(* outcome a caller has to plan for (ab_update_machine.py:304).             *)
NeverRaises == reply.outcome # "raised"

(* After every event, settled or not, the two slot documents the machine    *)
(* would emit are again a pair that UpdateSlot.json and the cross-document  *)
(* rules accept, so the next machine can be built on them.                  *)
SlotsConform == ContractPair(slots)

(* THE INVARIANT: no event writes to the medium of the slot that is active, *)
(* nor changes the digest recorded for it or its successful marking, even   *)
(* where the target is found running its candidate.                         *)
ActiveSlotNeverWritten ==
  [][\A s \in Slots : slots[s].role = "active" =>
       /\ installed'[s] = installed[s]
       /\ slots'[s].payload_digest = slots[s].payload_digest
       /\ slots'[s].successful]_vars

(* A slot marked successful really holds the payload its document names:    *)
(* no failed, aborted or half-done write leaves the marking behind.         *)
GoodPayloadIsInstalled ==
  \A s \in Slots : slots[s].successful => installed[s] = slots[s].payload_digest

(* A slot becomes successful only while it is on trial and running, on a    *)
(* passing verdict that is entered in the ledger, and only if its medium    *)
(* holds the payload the transaction was opened for.                        *)
PromotionEarned ==
  [][\A s \in Slots : ~slots[s].successful /\ slots'[s].successful =>
       /\ phase = "trying" /\ s = to_slot
       /\ slots[s].currently_running
       /\ Len(attempts') = Len(attempts) + 1
       /\ attempts'[Len(attempts')].result = "pass"
       /\ installed[s] = candidate_digest]_vars

(* The slot selector agrees with the machine, and has one answer: an armed  *)
(* candidate boots next, a trial that dies reboots into the candidate while *)
(* it has tries and into the known-good slot once they are spent, and a     *)
(* settled target stays where the transaction document says.                *)
SelectorAgrees ==
  /\ phase = "armed" => SelectorChoices(slots) = {to_slot}
  /\ phase = "trying" =>
       SelectorChoices(slots) =
         {IF slots[to_slot].tries_remaining > 0 THEN to_slot ELSE from_slot}
  /\ phase \in TERMINAL_PHASES => SelectorChoices(slots) = {SettledOnSlot}

(* Between arming and settling, the attempts with a verdict, the one under  *)
(* way and the tries left always add up to the budget, and no transaction   *)
(* ever records more attempts than that.                                    *)
AttemptBudget ==
  /\ phase = "armed"  => Len(attempts) + slots[to_slot].tries_remaining = MaxAttempts
  /\ phase = "trying" => Len(attempts) + slots[to_slot].tries_remaining + 1 = MaxAttempts
  /\ Len(attempts) <= MaxAttempts
  /\ phase = "refused" => attempts # <<>>

(* The table decides.  _resolve takes the first rule that admits an event   *)
(* (ab_update_machine.py:361), and there is never a second, so the order of *)
(* the rules means nothing.  And the boot loop never hangs on a refusal: an *)
(* armed candidate can be booted, and a trial takes whatever verdict comes, *)
(* even where a watchdog has just given up the tries its guards look at.    *)
EveryBootIsJudged ==
  /\ \A event \in EVENTS, d \in Digests :
       \A rule, other \in Offer(event, d, slots) : rule = other
  /\ phase = "armed" => Offer("boot_attempt", NoDigest, slots) # {}
  /\ phase = "trying" =>
       \A event \in {"probe_pass", "probe_fail", "watchdog_expired"} :
         \A ss \in {slots, SpentSlots(slots, to_slot)} : Offer(event, NoDigest, ss) # {}

(* The ledger can be audited: attempts are numbered from 1 without a gap,   *)
(* each records the tries that were left after it (none, if a watchdog gave *)
(* the rest up), only the last one can pass and it does exactly when the    *)
(* transaction is promoted, and every other one names the fallback.         *)
AttemptLedger ==
  \A i \in 1..Len(attempts) :
    LET a == attempts[i] IN
    /\ a.attempt_number = i
    /\ a.tries_remaining_after = MaxAttempts - i
         \/ (a.tries_remaining_after = 0 /\ a.result = "watchdog-expired" /\ i = Len(attempts))
    /\ (a.result = "pass") <=> (phase = "promoted" /\ i = Len(attempts))
    /\ a.result = "aborted" => i = Len(attempts) /\ rollback_reason = "operator-abort"
    /\ a.fell_back_to = IF a.result = "pass" THEN NoSlot ELSE from_slot

(* The ledger grows at the end of a trial and at no other time: probe,      *)
(* watchdogs and abort leave the same trace, a boot without a verdict is    *)
(* never entered, and one with two reports is not entered twice.  (A trial  *)
(* the process does not survive leaves no record: see AbTarget.)            *)
AbortIsRecorded ==
  [][phase' # "idle" =>
       Len(attempts') = Len(attempts)
         + (IF phase = "trying" /\ phase' # "trying" THEN 1 ELSE 0)]_vars

(* UpdateTransaction.json's rules for a settled document: the reason fits   *)
(* the outcome, and the slot named in settledOnSlot is running, active and  *)
(* successful.  The payload preserved at open is still in fromSlot.         *)
TransactionConforms ==
  phase # "idle" =>
    /\ from_slot # to_slot
    /\ slots[from_slot].payload_digest = preserved_digest
    /\ OutcomeOf(phase) = "promoted" => rollback_reason = NoReason
    /\ OutcomeOf(phase) = "refused" <=> rollback_reason = "attempts-exhausted"
    /\ OutcomeOf(phase) = "rolled-back" => rollback_reason # NoReason
    /\ OutcomeOf(phase) = "pending" => rollback_reason = NoReason
    /\ SettledOnSlot # NoSlot =>
         /\ slots[SettledOnSlot].currently_running
         /\ slots[SettledOnSlot].role = "active"
         /\ slots[SettledOnSlot].successful

(* When a reply says the target fell back to a slot, that slot is running,  *)
(* successful and still selectable at that moment.                          *)
FallbackIsRunning ==
  reply.fell_back_to # NoSlot =>
    LET fallback == slots[reply.fell_back_to] IN
    fallback.currently_running /\ fallback.successful /\ Selectable(fallback)

(* UpdateTransaction.json:217 says of startedAt: "When the bootloader       *)
(* handed control to toSlot for this attempt."                              *)
StartedAtIsHandover ==
  [][Len(attempts') > Len(attempts) =>
       attempts'[Len(attempts')].started_at = handed_at]_vars

(* The machine keeps the promise of AbContract: the fallback is the active  *)
(* slot, and the boots made are those in the ledger and the one under way.  *)
Contract == INSTANCE AbContract WITH
  Contents <- Digests \cup {NoDigest, Partial},
  NoGoal   <- Unset,
  Budget   <- MaxAttempts,
  outcome  <- IF phase = "idle" THEN "unopened" ELSE OutcomeOf(phase),
  fallback <- ActiveOf(slots),
  store    <- installed,
  goal     <- candidate_digest,
  boots    <- Len(attempts) + (IF phase = "trying" THEN 1 ELSE 0),
  on_trial <- phase = "trying"

(* Every step of the machine is a step of the contract, or none.            *)
KeepsContract == Contract!ContractSpec
==============================================================================
