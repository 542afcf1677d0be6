------------------------------- MODULE AbSlots -------------------------------
(***************************************************************************)
(* The data of the A/B update contract: the two slots of a target, the     *)
(* phases of a transaction, the table of legal transitions, and what each  *)
(* handler of AbUpdateMachine (src/sourceos_boot/ab_update_machine.py)     *)
(* does to the pair of slots, as functions from pair to pair.  AbUpdate    *)
(* puts these together into the state machine.                             *)
(*                                                                         *)
(* A digest is a member of Digests; NoDigest is Python's None, Unset its   *)
(* empty string.  payload_ref, version, detail and the URNs are advisory   *)
(* data that no decision reads and are left out.                           *)
(*                                                                         *)
(* Each operator whose name ends in _Bug is a plausible defect of the      *)
(* operator that follows it; no specification uses one.                    *)
(***************************************************************************)
EXTENDS Integers

CONSTANTS
  Digests,      \* payload digests
  NoDigest,     \* None: nothing recorded
  MaxAttempts   \* max_attempts of the machine

Unset == ""     \* the empty string the machine's digests start from

ASSUME DigestsAssumption == NoDigest \notin Digests /\ Unset \notin Digests
                            /\ NoDigest # Unset

(* The constructor rejects any other budget: the GPT tries field is 3 bits. *)
ASSUME MaxAttemptsAssumption == MaxAttempts \in 1..7

Slots  == {"A", "B"}
NoSlot == "none"     \* a slot field that is "" or None

ARMED_CANDIDATE_PRIORITY == 15
ARMED_ACTIVE_PRIORITY    == 14

PHASES == {"idle", "writing", "candidate_ready", "armed", "trying",
           "promoted", "rolled_back", "refused"}

TERMINAL_PHASES == {"promoted", "rolled_back", "refused"}

SLOT_STATES == {"empty", "writing", "written", "trying", "good", "unbootable"}

ROLLBACK_REASONS == {"probe-failed", "watchdog-expired", "attempts-exhausted",
                     "write-failed", "digest-mismatch", "operator-abort"}

Verdicts == {"none", "pass", "fail"}

EXPIRY_ACTIONS == {"reboot", "reboot-to-fallback"}

SlotState ==
  [role               : {"active", "candidate"},
   state              : SLOT_STATES,
   boot_priority      : 0..15,
   tries_remaining    : 0..7,
   successful         : BOOLEAN,
   currently_running  : BOOLEAN,
   payload_digest     : Digests \cup {NoDigest},
   last_probe_verdict : Verdicts]

------------------------------------------------------------------------------
(* The table of legal transitions.  What it does not list is refused.       *)

Rule(e, f, t, g) == [event |-> e, from_phase |-> f, to_phase |-> t, guard |-> g]

TRANSITION_TABLE ==
  { Rule("begin", "idle", "writing", "none"),
    Rule("write_complete", "writing", "candidate_ready", "digest_matches"),
    Rule("write_complete", "writing", "rolled_back", "digest_mismatch"),
    Rule("write_failed", "writing", "rolled_back", "none"),
    Rule("arm", "candidate_ready", "armed", "none"),
    Rule("boot_attempt", "armed", "trying", "none"),
    Rule("probe_pass", "trying", "promoted", "none"),
    Rule("probe_fail", "trying", "armed", "tries_remain"),
    Rule("probe_fail", "trying", "refused", "tries_exhausted"),
    Rule("watchdog_expired", "trying", "armed", "tries_remain"),
    Rule("watchdog_expired", "trying", "refused", "tries_exhausted"),
    Rule("operator_abort", "writing", "rolled_back", "none"),
    Rule("operator_abort", "candidate_ready", "rolled_back", "none"),
    Rule("operator_abort", "armed", "rolled_back", "none"),
    Rule("operator_abort", "trying", "rolled_back", "none") }

EVENTS == {"begin", "write_complete", "write_failed", "arm", "boot_attempt",
           "probe_pass", "probe_fail", "watchdog_expired", "operator_abort"}

------------------------------------------------------------------------------
(* Roles.  The constructor admits exactly one active slot, so both choices  *)
(* are determined.  The mutant takes the slot that is not running.          *)

ActiveOf(ss) == CHOOSE s \in Slots : ss[s].role = "active"
CandidateOf_Bug(ss) == CHOOSE s \in Slots : ~ss[s].currently_running
CandidateOf(ss) == CHOOSE s \in Slots : ss[s].role = "candidate"

OneActive(ss)  == \E s \in Slots : \A t \in Slots : ss[t].role = "active" <=> t = s
OneRunning(ss) == \E s \in Slots : \A t \in Slots : ss[t].currently_running <=> t = s

(* What the constructor of the machine demands of a pair of slots.          *)
ConstructorAccepts(ss) ==
  /\ OneActive(ss)
  /\ \A s \in Slots : ss[s].role = "active" => ss[s].successful

(* What UpdateSlot.json demands of one slot document ...                    *)
ConformantSlot(slot) ==
  /\ slot.state = "writing" => slot.role = "candidate"
  /\ slot.role = "active" => slot.successful /\ slot.boot_priority >= 1
  /\ slot.state = "unbootable" => slot.boot_priority = 0 /\ ~slot.successful
  /\ slot.state = "good" => slot.successful
  /\ slot.successful => slot.payload_digest # NoDigest

(* ... and, across documents, of the pair that describes one target.        *)
ContractPair(ss) ==
  /\ ss \in [Slots -> SlotState]
  /\ OneActive(ss)
  /\ OneRunning(ss)
  /\ \A s \in Slots : ConformantSlot(ss[s])

------------------------------------------------------------------------------
(* The slot selector of the bootloader, as the contract words it: it boots  *)
(* the highest-priority slot that is successful or has tries left, and      *)
(* priority 0 is never selected.  The set is empty when nothing is bootable *)
(* and has two members on a tie.                                            *)

Selectable(slot) ==
  slot.boot_priority > 0 /\ (slot.successful \/ slot.tries_remaining > 0)

SelectorChoices(ss) ==
  { s \in Slots : /\ Selectable(ss[s])
                  /\ \A t \in Slots :
                       Selectable(ss[t]) => ss[t].boot_priority <= ss[s].boot_priority }

------------------------------------------------------------------------------
(* What the handlers do to the slots.  "from" is the slot that was active   *)
(* when the transaction opened, "to" the write target.                      *)

(* begin: the candidate starts receiving the payload.  Its priority and its *)
(* tries are left as they are.                                              *)
WritingSlots_Bug(ss, to, digest) ==
  [ss EXCEPT ![to] = [@ EXCEPT !.state = "writing", !.payload_digest = digest]]

WritingSlots(ss, to, digest) ==
  [ss EXCEPT ![to] = [@ EXCEPT !.state = "writing",
                               !.successful = FALSE,
                               !.payload_digest = digest,
                               !.last_probe_verdict = "none"]]

WrittenSlots(ss, to) == [ss EXCEPT ![to] = [@ EXCEPT !.state = "written"]]

(* arm: the active slot is demoted below the candidate, never the candidate *)
(* raised towards it.                                                       *)
ArmedSlots_Bug(ss, from, to) ==
  [ss EXCEPT ![to] = [@ EXCEPT !.boot_priority = ARMED_CANDIDATE_PRIORITY,
                               !.tries_remaining = MaxAttempts,
                               !.successful = FALSE]]

ArmedSlots_Raised(ss, from, to) ==
  [ss EXCEPT ![to] = [@ EXCEPT !.boot_priority = ss[from].boot_priority + 1,
                               !.tries_remaining = MaxAttempts,
                               !.successful = FALSE]]

ArmedSlots(ss, from, to) ==
  [ss EXCEPT ![from] = [@ EXCEPT !.boot_priority = ARMED_ACTIVE_PRIORITY],
             ![to]   = [@ EXCEPT !.boot_priority = ARMED_CANDIDATE_PRIORITY,
                                 !.tries_remaining = MaxAttempts,
                                 !.successful = FALSE]]

(* boot_attempt: the attempt is spent before the payload runs.              *)
TrialSlots_Bug(ss, from, to) ==
  [ss EXCEPT ![to]   = [@ EXCEPT !.state = "trying", !.currently_running = TRUE],
             ![from] = [@ EXCEPT !.currently_running = FALSE]]

TrialSlots(ss, from, to) ==
  [ss EXCEPT ![to]   = [@ EXCEPT !.tries_remaining = ss[to].tries_remaining - 1,
                                 !.state = "trying",
                                 !.currently_running = TRUE],
             ![from] = [@ EXCEPT !.currently_running = FALSE]]

(* probe_pass: the roles swap; the payload replaced stays bootable.         *)
PromotedSlots_Bug(ss, from, to) ==
  [ss EXCEPT ![to]   = [@ EXCEPT !.role = "active",
                                 !.state = "good",
                                 !.successful = TRUE,
                                 !.tries_remaining = 0,
                                 !.last_probe_verdict = "pass"],
             ![from] = [@ EXCEPT !.role = "candidate", !.boot_priority = 15]]

PromotedSlots(ss, from, to) ==
  [ss EXCEPT ![to]   = [@ EXCEPT !.role = "active",
                                 !.state = "good",
                                 !.successful = TRUE,
                                 !.boot_priority = 15,
                                 !.tries_remaining = 0,
                                 !.last_probe_verdict = "pass"],
             ![from] = [@ EXCEPT !.role = "candidate", !.boot_priority = 14]]

(* Every failed attempt returns the target to the known-good slot.          *)
FellBackSlots(ss, from, to) ==
  [ss EXCEPT ![to]   = [@ EXCEPT !.currently_running = FALSE,
                                 !.state = "written",
                                 !.last_probe_verdict = "fail"],
             ![from] = [@ EXCEPT !.currently_running = TRUE]]

(* _mark_candidate_unbootable: the candidate can never be selected again,   *)
(* the fallback returns to the ceiling and, if it was not, to execution.    *)
UnbootableSlots_Bug(ss, from, to) ==
  [ss EXCEPT ![to]   = [@ EXCEPT !.state = "unbootable",
                                 !.boot_priority = 0,
                                 !.tries_remaining = 0,
                                 !.successful = FALSE],
             ![from] = [@ EXCEPT !.boot_priority = ARMED_CANDIDATE_PRIORITY]]

UnbootableSlots_Demoted(ss, from, to) ==
  [ss EXCEPT ![to]   = [@ EXCEPT !.state = "unbootable",
                                 !.boot_priority = 0,
                                 !.tries_remaining = 0,
                                 !.successful = FALSE,
                                 !.currently_running =
                                     ss[to].currently_running /\ ss[from].currently_running],
             ![from] = [@ EXCEPT !.currently_running = TRUE]]

UnbootableSlots(ss, from, to) ==
  [ss EXCEPT ![to]   = [@ EXCEPT !.state = "unbootable",
                                 !.boot_priority = 0,
                                 !.tries_remaining = 0,
                                 !.successful = FALSE,
                                 !.currently_running =
                                     ss[to].currently_running /\ ss[from].currently_running],
             ![from] = [@ EXCEPT !.boot_priority = ARMED_CANDIDATE_PRIORITY,
                                 !.currently_running = TRUE]]

(* The reboot-to-fallback watchdog gives up the attempts that are left.     *)
SpentSlots(ss, to) == [ss EXCEPT ![to] = [@ EXCEPT !.tries_remaining = 0]]
==============================================================================
