------------------------------ MODULE AbContract ------------------------------
(***************************************************************************)
(* What an A/B update promises, without the machinery that keeps the       *)
(* promise (the prose of schemas/ab-update/UpdateTransaction.json): "you   *)
(* may fail an update, but you may not lose the payload that worked".      *)
(*                                                                         *)
(* A transaction is opened for a goal.  While it is pending the slot that  *)
(* is not the fallback may receive anything at all, but only off trial;    *)
(* the fallback is left alone.  Up to Budget trial boots are made.  The    *)
(* transaction ends with the roles swapped, which takes a trial of the     *)
(* very payload it was opened for, or with the fallback where it was.      *)
(***************************************************************************)
EXTENDS Integers

CONSTANTS
  Contents,   \* what a slot can hold
  NoGoal,
  Budget      \* trial boots a transaction may make, a number

Sides == {"A", "B"}

VARIABLES
  outcome,    \* "unopened", "pending", or how the transaction ended
  fallback,   \* the slot the target returns to
  store,      \* what each slot holds
  goal,       \* the payload the transaction is to install
  boots,      \* trial boots so far
  on_trial    \* a trial boot is under way

contractVars == <<outcome, fallback, store, goal, boots, on_trial>>

Other(side) == CHOOSE s \in Sides : s # side

ContractInit ==
  /\ outcome = "unopened"
  /\ fallback \in Sides
  /\ store \in [Sides -> Contents]
  /\ goal = NoGoal
  /\ boots = 0
  /\ on_trial = FALSE

(* What a step may do to the media.                                         *)
FallbackKept == store'[fallback] = store[fallback] /\ store' \in [Sides -> Contents]

Open ==
  /\ outcome = "unopened"
  /\ outcome' = "pending"
  /\ FallbackKept
  /\ goal' \in Contents
  /\ UNCHANGED <<fallback, boots, on_trial>>

Write ==
  /\ outcome = "pending" /\ ~on_trial
  /\ FallbackKept
  /\ UNCHANGED <<outcome, fallback, goal, boots, on_trial>>

Trial ==
  /\ outcome = "pending" /\ ~on_trial
  /\ boots < Budget
  /\ store[Other(fallback)] = goal
  /\ boots' = boots + 1
  /\ on_trial' = TRUE
  /\ UNCHANGED <<outcome, fallback, store, goal>>

Promote ==
  /\ on_trial
  /\ outcome' = "promoted"
  /\ fallback' = Other(fallback)
  /\ on_trial' = FALSE
  /\ UNCHANGED <<store, goal, boots>>

FallBack ==
  /\ on_trial
  /\ boots < Budget
  /\ on_trial' = FALSE
  /\ UNCHANGED <<outcome, fallback, store, goal, boots>>

(* To give up is always possible while the transaction is pending; it is    *)
(* called refused only when a trial has failed.                             *)
GiveUp ==
  /\ outcome = "pending"
  /\ outcome' \in {"rolled-back", "refused"}
  /\ outcome' = "refused" => on_trial
  /\ FallbackKept
  /\ on_trial => store' = store
  /\ on_trial' = FALSE
  /\ UNCHANGED <<fallback, goal, boots>>

ContractNext == Open \/ Write \/ Trial \/ Promote \/ FallBack \/ GiveUp

ContractSpec == ContractInit /\ [][ContractNext]_contractVars

(* Over the life of a target one transaction follows another.  The next one *)
(* may begin when the last has ended and also when it has only been         *)
(* forgotten; what the slots hold and where the target falls back to is not *)
(* touched by that.                                                         *)
Forget ==
  /\ outcome' = "unopened"
  /\ goal' = NoGoal
  /\ boots' = 0
  /\ on_trial' = FALSE
  /\ UNCHANGED <<fallback, store>>

ContractLife == ContractInit /\ [][ContractNext \/ Forget]_contractVars
==============================================================================
