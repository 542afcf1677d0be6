------------------------------ MODULE Documents ------------------------------
(***************************************************************************)
(* The documents of the boot handoff and the stateless tools that make and *)
(* judge them.  The tools share no state: one process reads one kind of    *)
(* document, prints or refuses, and ends.  A behaviour follows the         *)
(* documents on one desk: the handoff from nlboot, the trust-chain         *)
(* evidence, or the control-plane plan.                                    *)
(***************************************************************************)
EXTENDS Handoff, TrustEvidence, ControlPlanePlan

VARIABLE desk

documentsVars == <<handoffVars, evidenceVars, planVars, desk>>

DocumentsInit ==
  /\ HandoffInit /\ EvidenceInit /\ PlanInit
  /\ desk \in {"handoff", "evidence", "plan"}

DocumentsNext ==
  \/ desk = "handoff"  /\ HandoffNext  /\ UNCHANGED <<evidenceVars, planVars, desk>>
  \/ desk = "evidence" /\ EvidenceNext /\ UNCHANGED <<handoffVars, planVars, desk>>
  \/ desk = "plan"     /\ PlanNext     /\ UNCHANGED <<handoffVars, evidenceVars, desk>>

DocumentsSpec == DocumentsInit /\ [][DocumentsNext]_documentsVars
==============================================================================
