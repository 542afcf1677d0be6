------------------------------- MODULE AbTarget -------------------------------
(***************************************************************************)
(* A target over its lifetime: transaction after transaction, each driven  *)
(* by a new AbUpdateMachine built from the two slot documents that the     *)
(* last one emitted (machine_from_slot_documents and to_slot_documents in  *)
(* src/sourceos_boot/ab_update_machine.py).  Only the slots survive; the   *)
(* phase, the ledger and the digests of the transaction are fields of an   *)
(* object and go with the process.  A process may end at any point between *)
(* two events, so a new machine may find the slots as an abandoned         *)
(* transaction left them.                                                  *)
(***************************************************************************)
EXTENDS AbUpdate, AbDocuments

CONSTANT MaxTransactions   \* bound: machines built after the first

ASSUME MaxTransactionsAssumption == MaxTransactions \in Nat

VARIABLE rebuilt           \* machines built after the first

targetVars == <<vars, rebuilt>>

------------------------------------------------------------------------------
TargetInit == Init /\ rebuilt = 0

(* machine_from_slot_documents: the constructor looks at the roles and at   *)
(* the marking of the active slot; everything else is taken as it is.       *)
Rebuild ==
  /\ rebuilt < MaxTransactions
  /\ rebuilt' = rebuilt + 1
  /\ Construct(ReadSlots(Documents(slots)))
  /\ UNCHANGED environment

Event(A) == A /\ UNCHANGED rebuilt

TargetNext == Event(Next) \/ Rebuild

TargetSpec == TargetInit /\ [][TargetNext]_targetVars

(* The contract makes two promises about the world around the machine: the  *)
(* bootloader tries an armed candidate when the target resets, and a trial  *)
(* ends, because the probe has a deadline and both watchdogs are mandatory. *)
TargetFairSpec ==
  TargetSpec /\ WF_targetVars(Event(BootAttempt)) /\ WF_targetVars(Event(Verdict))

------------------------------------------------------------------------------
(* Wherever a process ends, the target can take the next update, and over   *)
(* its whole life the slot that is active holds the payload recorded for it *)
(* and can be selected: there is always something to fall back to.          *)
FallbackNeverLost ==
  LET active == ActiveOf(slots) IN
  /\ ConstructorAccepts(slots)
  /\ slots[active].payload_digest \in Digests
  /\ installed[active] = slots[active].payload_digest
  /\ Selectable(slots[active])

(* The digest of a slot is recorded before anything is written to it, and   *)
(* it stays there when the write fails, goes wrong or is abandoned.  What   *)
(* the bootloader may select nevertheless holds what its document names,    *)
(* unless it is still marked as being written (begin, write_failed and      *)
(* _mark_candidate_unbootable; ab_update_machine.py:416).                   *)
SelectableHoldsPayload ==
  \A s \in Slots : Selectable(slots[s]) /\ slots[s].state # "writing" =>
    installed[s] = slots[s].payload_digest

(* A payload that worked leaves the target only when another one has been   *)
(* promoted over it: the content of the active slot changes only together   *)
(* with the roles, and the slot it moves to then holds what it was probed   *)
(* with.                                                                    *)
PayloadHandedOver ==
  [][LET before == ActiveOf(slots)
         after  == ActiveOf(slots') IN
     /\ installed'[before] = installed[before]
     /\ before # after => /\ phase' = "promoted"
                          /\ installed'[after] = candidate_digest]_targetVars

(* No event and no restart makes the bootloader's choice ambiguous: where   *)
(* at most one slot was selectable at the highest priority, two never       *)
(* become so.                                                               *)
Unambiguous(ss) == \A s, t \in SelectorChoices(ss) : s = t

SelectionStaysUnique == [][Unambiguous(slots) => Unambiguous(slots')]_targetVars

(* The target keeps the promise of AbContract from transaction to           *)
(* transaction, with a restart at any point between two events.             *)
TargetKeepsContract == Contract!ContractLife

(* The boots and verdicts a target can still go through with the candidate  *)
(* that is armed: two for each try, one for the trial under way.            *)
BootsLeft == 2 * slots[to_slot].tries_remaining + (IF phase = "trying" THEN 1 ELSE 0)

(* The boot cycle runs down: a candidate once armed is armed, on trial or   *)
(* done with, every boot and every verdict uses up part of the budget, and  *)
(* nothing gives it back before the transaction settles or is abandoned: no *)
(* failed attempt re-arms, no second arm refills the tries.                 *)
RunsDown ==
  phase \in {"armed", "trying"} =>
    \/ phase' \in TERMINAL_PHASES \cup {"idle"}
    \/ phase' \in {"armed", "trying"} /\ phase' # phase /\ BootsLeft' < BootsLeft
    \/ phase' = phase /\ BootsLeft' = BootsLeft

BootLoopRunsDown == [][RunsDown]_targetVars

(* A candidate once armed does not boot forever: the transaction settles,   *)
(* unless the process that drives it ends.                                  *)
BootLoopEnds == phase = "armed" ~> phase \in TERMINAL_PHASES \cup {"idle"}

(* UpdateTransaction.json:163 has the payload "verified after write and     *)
(* before the slot is armed": what the bootloader would boot now is never a *)
(* slot that is being written.                                              *)
NeverBootsUnverified ==
  \A s \in SelectorChoices(slots) : slots[s].state # "writing"
==============================================================================
