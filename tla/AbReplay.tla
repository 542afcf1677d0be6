------------------------------- MODULE AbReplay -------------------------------
(***************************************************************************)
(* The commands "ab-update plan" and "ab-update replay" of                 *)
(* src/sourceos_boot/cli.py: a process that reads two slot documents and a *)
(* health probe from files, builds an AbUpdateMachine on them, drives it   *)
(* with recorded events and prints what became of it.  An exception, from  *)
(* wherever, ends the process with exit code 2 and nothing printed.        *)
(*                                                                         *)
(* Beside the process there is an editor of the probe's file, who may or   *)
(* may not pin the probe again.  The events file is whatever it is: each   *)
(* event is chosen when the process comes to it.  The media (installed)    *)
(* are those of the target the events tell of, as far as they tell.        *)
(*                                                                         *)
(* The hash of a probe's checks is modelled by the checks themselves: equal *)
(* for equal checks, different for different ones.                         *)
(***************************************************************************)
EXTENDS AbUpdate, AbDocuments, FiniteSets

CONSTANTS
  Checks,         \* what a probe may check
  Incomplete,     \* a probe with a field missing that the digest covers
  RejectedSlots,  \* pairs of slots the constructor does not accept
  MaxRefused      \* bound: events a replay refuses

ASSUME ChecksAssumption == Incomplete \notin Checks

ASSUME RejectedSlotsAssumption == RejectedSlots \subseteq [Slots -> SlotState]

VARIABLES
  stored,      \* the slot documents in the file
  probe,       \* the probe's file: its checks and the definitionDigest in it
  reviewed,    \* the checks that somebody has pinned, so far
  process,     \* "none", "replay", or how the last one ended
  pinned,      \* health_probe_digest of the machine
  gate,        \* history: the checks that were in the file it was read from
  log,         \* what the process has noted of each event
  shown        \* the write_complete event that was admitted

files      == <<stored, probe, reviewed>>
run        == <<process, pinned, gate, log, shown>>
replayVars == <<vars, files, run>>

NoPin   == "none"
NoEvent == [observedDigest |-> NoDigest, payloadDigest |-> NoDigest]

WriteEvents == [observedDigest : Digests \cup {NoDigest},
                payloadDigest  : Digests \cup {NoDigest}]

ReplayInit ==
  /\ Init
  /\ stored \in { Documents(ss) : ss \in {slots} \cup RejectedSlots }
  /\ \E c \in Checks : probe = [checks |-> c, definitionDigest |-> c] /\ reviewed = {c}
  /\ process = "none"
  /\ pinned = NoPin /\ gate = NoPin
  /\ log = <<>>
  /\ shown = NoEvent

------------------------------------------------------------------------------
(* _load_ab_update_machine.                                                 *)

(* A mutant: the digest in the file is read back.                           *)
probe_definition_digest_Stored(p) == p.definitionDigest

(* Recomputed from the fields the digest covers.                            *)
probe_definition_digest(p) == p.checks

(* The digest of the checks has to be the one recorded.                     *)
ProbeIsPinned ==
  /\ probe.checks # Incomplete
  /\ probe.definitionDigest = probe_definition_digest(probe)

Load ==
  /\ process # "replay"
  /\ ProbeIsPinned
  /\ Construct(ReadSlots(stored))
  /\ process' = "replay"
  /\ pinned' = probe_definition_digest(probe)
  /\ gate' = probe.checks
  /\ log' = <<>>
  /\ shown' = NoEvent
  /\ UNCHANGED <<environment, files>>

(* A stale or incomplete probe, or a constructor that raises.               *)
LoadFails ==
  /\ process # "replay"
  /\ ~ProbeIsPinned \/ ~ConstructorAccepts(ReadSlots(stored))
  /\ process' = "failed"
  /\ UNCHANGED <<vars, files, pinned, gate, log, shown>>

------------------------------------------------------------------------------
(* ab_update_replay.                                                        *)

Entry(event, allowed, to_phase, fell_back_to) ==
  [event |-> event, allowed |-> allowed, fromPhase |-> phase, toPhase |-> to_phase,
   fellBackTo |-> fell_back_to]

(* A mutant: the slot fallen back to is that of the event before.           *)
Note_Bug(event) ==
  IF reply'.outcome = "raised"
  THEN process' = "failed" /\ UNCHANGED log
  ELSE /\ UNCHANGED process
       /\ log' = Append(log, Entry(event, reply'.outcome = "allowed", phase',
                                   reply.fell_back_to))

(* An exception ends the process before the event is noted.                 *)
Note(event) ==
  IF reply'.outcome = "raised"
  THEN process' = "failed" /\ UNCHANGED log
  ELSE /\ UNCHANGED process
       /\ log' = Append(log, Entry(event, reply'.outcome = "allowed", phase',
                                   reply'.fell_back_to))

Replay(event, A) ==
  /\ process = "replay"
  /\ A
  /\ Note(event)
  /\ UNCHANGED <<pinned, gate, files>>

(* A mutant: the digest the event names goes before the one it observed.    *)
Observed_Bug(event) ==
  IF event.payloadDigest # NoDigest THEN event.payloadDigest ELSE event.observedDigest

(* An event without observedDigest is taken to have seen what it names.     *)
Observed(event) ==
  IF event.observedDigest # NoDigest THEN event.observedDigest ELSE event.payloadDigest

ReplayWriteComplete ==
  \E event \in WriteEvents :
    /\ Observed(event) # NoDigest
    /\ Replay("write_complete", WriteComplete(Observed(event)))
    /\ shown' = event

ReplayOther ==
  /\ \/ \E d \in Digests : Replay("begin", Begin(d))
     \/ Replay("write_failed", WriteFailed)
     \/ Replay("arm", Arm)
     \/ Replay("boot_attempt", BootAttempt)
     \/ Replay("probe_pass", ProbePass)
     \/ Replay("probe_fail", ProbeFail)
     \/ \E a \in EXPIRY_ACTIONS : Replay("watchdog_expired", WatchdogExpired(a))
     \/ Replay("operator_abort", OperatorAbort)
  /\ UNCHANGED shown

RefusedEntries == { i \in 1..Len(log) : ~log[i].allowed }

ReplayRefused ==
  /\ Cardinality(RefusedEntries) < MaxRefused
  /\ \E event \in EVENTS :
       /\ Offer(event, candidate_digest, slots) = {}
       /\ Replay(event, Refuse)
  /\ UNCHANGED shown

(* An event that is unknown or lacks the digest it needs: an exception.     *)
ReplayBadEvent ==
  /\ process = "replay"
  /\ process' = "failed"
  /\ UNCHANGED <<vars, files, pinned, gate, log, shown>>

(* The documents are rendered and printed, unless nothing was ever begun.   *)
Emit ==
  /\ process = "replay"
  /\ process' = IF phase = "idle" THEN "failed" ELSE "emitted"
  /\ UNCHANGED <<vars, files, pinned, gate, log, shown>>

(* ab_update_plan: one begin, and the documents are printed at once.        *)
ab_update_plan ==
  /\ process = "replay"
  /\ log = <<>>
  /\ \E d \in Digests : Begin(d)
  /\ process' = IF reply'.outcome = "allowed" THEN "planned" ELSE "failed"
  /\ UNCHANGED <<files, pinned, gate, log, shown>>

------------------------------------------------------------------------------
(* What a process that has printed something has printed.                   *)

transaction ==
  [fromSlot |-> from_slot, toSlot |-> to_slot,
   preservedPayloadDigest |-> preserved_digest,
   candidatePayloadDigest |-> candidate_digest,
   healthProbeDigest |-> pinned, outcome |-> OutcomeOf(phase),
   rollbackReason |-> rollback_reason, settledOnSlot |-> SettledOnSlot,
   attempts |-> attempts]

Printed == process \in {"emitted", "planned"}

------------------------------------------------------------------------------
(* The editor, who changes a probe that is pinned and may pin it again.     *)

EditProbe ==
  /\ probe.definitionDigest = probe.checks
  /\ \E c \in Checks \cup {Incomplete} : probe' = [probe EXCEPT !.checks = c]
  /\ UNCHANGED <<vars, run, stored, reviewed>>

PinProbe ==
  /\ probe.checks # Incomplete
  /\ probe' = [probe EXCEPT !.definitionDigest = probe.checks]
  /\ reviewed' = reviewed \cup {probe.checks}
  /\ UNCHANGED <<vars, run, stored>>

ReplayNext ==
  \/ Load \/ LoadFails
  \/ ReplayWriteComplete \/ ReplayOther \/ ReplayRefused \/ ReplayBadEvent
  \/ Emit \/ ab_update_plan
  \/ EditProbe \/ PinProbe

ReplaySpec == ReplayInit /\ [][ReplayNext]_replayVars

------------------------------------------------------------------------------
(* The entries of the log that end a trial, and those that begin one.       *)
VerdictEntries == { i \in 1..Len(log) : log[i].allowed /\ log[i].fromPhase = "trying" }
BootEntries    == { i \in 1..Len(log) : log[i].allowed /\ log[i].event = "boot_attempt" }

(* A drill is evidence (cli.py:173): the log it prints leads without a gap  *)
(* from no transaction to the phase it names last, an event the machine     *)
(* declined is in it and moved nothing, and the trials in the log are the   *)
(* attempts of the transaction document, one by one, with the slot each of  *)
(* them fell back to.                                                       *)
LogExplainsOutcome ==
  process = "emitted" =>
    LET at(i)      == IF i > Len(log) THEN phase ELSE log[i].fromPhase
        attempt(i) == attempts[Cardinality({ j \in VerdictEntries : j <= i })]
    IN  /\ at(1) = "idle"
        /\ \A i \in 1..Len(log) :
             /\ log[i].toPhase = at(i + 1)
             /\ ~log[i].allowed => log[i].toPhase = log[i].fromPhase /\ log[i].fellBackTo = NoSlot
             /\ log[i].toPhase \in {"rolled_back", "refused"} /\ log[i].allowed =>
                  log[i].fellBackTo = transaction.settledOnSlot
        /\ Cardinality(VerdictEntries) = Len(attempts)
        /\ \A i \in VerdictEntries : log[i].fellBackTo = attempt(i).fell_back_to
        /\ Cardinality(BootEntries) = Len(attempts) + (IF phase = "trying" THEN 1 ELSE 0)

(* What is printed never costs a target its fallback, whatever slots the    *)
(* documents described, as long as the constructor took them: the slot that *)
(* was active still records the payload it had and is successful, and from  *)
(* arming on the bootloader can select it.  A machine whose assertions      *)
(* failed prints nothing.                                                   *)
EmittedKeepsFallback ==
  Printed =>
    LET before == ReadSlots(stored)[transaction.fromSlot]
        after  == slots[transaction.fromSlot]
    IN  /\ before.role = "active"
        /\ after.successful
        /\ after.payload_digest = before.payload_digest
        /\ after.payload_digest = transaction.preservedPayloadDigest
        /\ phase \in {"armed", "trying"} \cup TERMINAL_PHASES => Selectable(after)

(* On slot documents that obey the contract no events, however wrong, end a *)
(* process in a failed assertion, and what is printed obeys the contract    *)
(* again: the slots can be read by the next process, and the transaction is *)
(* one that UpdateTransaction.json accepts.                                 *)
EmittedConforms ==
  ContractPair(ReadSlots(stored)) =>
    /\ NeverRaises
    /\ Printed => SlotsConform /\ TransactionConforms

(* A transaction is never judged by a gate nobody re-read (cli.py:109):     *)
(* what it names as its probe are the checks that were in the file the      *)
(* process read, not those of an earlier version, and these were pinned as  *)
(* they stand by somebody, even if the file was edited before, meanwhile or *)
(* since.                                                                   *)
GateIsReviewed ==
  Printed => transaction.healthProbeDigest = gate /\ gate \in reviewed

(* A promotion rests on what the events show of the write: the digest they  *)
(* observed or, failing that, the one they name is that of the candidate.   *)
PromotionIsShown ==
  Printed /\ transaction.outcome = "promoted" =>
    IF shown.observedDigest # NoDigest
    THEN shown.observedDigest = transaction.candidatePayloadDigest
    ELSE shown.payloadDigest = transaction.candidatePayloadDigest
==============================================================================
