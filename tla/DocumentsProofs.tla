--------------------------- MODULE DocumentsProofs ---------------------------
(***************************************************************************)
(* What the tools of the boot handoff promise of documents that change     *)
(* between two of their calls: for every set of releases, modes, roles,    *)
(* tokens and correlation ids, any number of calls and of revisions.       *)
(***************************************************************************)
EXTENDS Documents, TLAPS

(* The three desks do not touch each other's documents.                     *)
LEMMA OneDesk ==
  ASSUME [DocumentsNext]_documentsVars
  PROVE  [HandoffNext]_handoffVars /\ [EvidenceNext]_evidenceVars /\ [PlanNext]_planVars
BY DEF DocumentsNext, documentsVars

------------------------------------------------------------------------------
(* The handoff.  That a release passed says nothing of its artifacts unless *)
(* it is known how they got their digests: a patch brings none, and the     *)
(* release service writes one only for what it has measured, which stays    *)
(* measured.                                                                *)

DigestsInv ==
  /\ \A output \in outputs : output.patch.artifacts = {}
  /\ \A artifact \in release.artifacts : artifact.sha256 # "none" => artifact.uri \in measured
  /\ accepted => /\ release.artifacts # {}
                 /\ \A artifact \in release.artifacts : artifact.sha256 # "none"

(* The two documents of one call carry the id it was asked for.             *)
CorrelationInv ==
  \A output \in outputs : /\ output.authorization.correlationId = output.asked_for
                          /\ output.evidence.correlationId = output.asked_for

HandoffInv == DigestsInv /\ CorrelationInv

LEMMA HandoffStep ==
  ASSUME HandoffInv, [HandoffNext]_handoffVars
  PROVE  HandoffInv'
<1>1. ASSUME NEW manifest, NEW token, NEW correlation_id, NEW result,
             adapt_nlboot(manifest, token, correlation_id, result)
      PROVE  HandoffInv'
  <2> DEFINE authorization == authorization_from_nlboot_token(token, correlation_id)
             output == [asked_for |-> correlation_id,
                        authorization |-> authorization,
                        patch |-> boot_release_set_patch_from_nlboot_manifest(manifest),
                        evidence |-> build_evidence_from_nlboot_manifest(authorization,
                                                                         manifest, result)]
  <2>1. outputs' = outputs \cup {output} /\ UNCHANGED <<measured, release, accepted>>
    BY <1>1 DEF adapt_nlboot
  <2>2. output.patch.artifacts = {}
    BY DEF boot_release_set_patch_from_nlboot_manifest
  <2>3. /\ output.authorization.correlationId = output.asked_for
        /\ output.evidence.correlationId = output.asked_for
    BY DEF authorization_from_nlboot_token, build_evidence_from_nlboot_manifest, build_evidence
  <2> HIDE DEF output
  <2>4. DigestsInv'
    BY <2>1, <2>2 DEF HandoffInv, DigestsInv
  <2>5. CorrelationInv'
    BY <2>1, <2>3 DEF HandoffInv, CorrelationInv
  <2> QED  BY <2>4, <2>5 DEF HandoffInv
<1>2. CASE Fetch
  <2>1. measured \subseteq measured' /\ UNCHANGED <<outputs, release, accepted>>
    BY <1>2 DEF Fetch
  <2> QED  BY <2>1 DEF HandoffInv, DigestsInv, CorrelationInv
<1>3. CASE Compose
  <2>1. PICK output \in outputs :
          \E listed \in SUBSET output.patch.artifactRefsPendingDigest :
            release'.artifacts = output.patch.artifacts \cup
              { [uri |-> ref, sha256 |-> IF ref \in measured THEN "measured" ELSE "none"] :
                  ref \in listed }
    BY <1>3 DEF Compose
  <2>2. accepted' = FALSE /\ UNCHANGED <<outputs, measured>>
    BY <1>3 DEF Compose
  <2>3. output.patch.artifacts = {}
    BY DEF HandoffInv, DigestsInv
  <2>4. \A artifact \in release'.artifacts :
          artifact.sha256 # "none" => artifact.uri \in measured
    BY <2>1, <2>3
  <2> QED  BY <2>2, <2>4 DEF HandoffInv, DigestsInv, CorrelationInv
<1>4. CASE Validate
  <2>1. accepted' = validate_document(release) /\ UNCHANGED <<outputs, measured, release>>
    BY <1>4 DEF Validate
  <2>2. DigestsInv'
    BY <2>1 DEF HandoffInv, DigestsInv, validate_document
  <2>3. CorrelationInv'
    BY <2>1 DEF HandoffInv, CorrelationInv
  <2> QED  BY <2>2, <2>3 DEF HandoffInv
<1>5. CASE UNCHANGED handoffVars
  BY <1>5 DEF handoffVars, HandoffInv, DigestsInv, CorrelationInv
<1> QED
  BY <1>1, <1>2, <1>3, <1>4, <1>5 DEF HandoffNext

LEMMA HandoffInvariance == DocumentsSpec => []HandoffInv
<1>1. DocumentsInit => HandoffInv
  BY DEF DocumentsInit, HandoffInit, NoRelease, HandoffInv, DigestsInv, CorrelationInv
<1>2. HandoffInv /\ [DocumentsNext]_documentsVars => HandoffInv'
  BY OneDesk, HandoffStep
<1> QED
  BY <1>1, <1>2, PTL DEF DocumentsSpec

(* No release passes validate_boot_release_set.py with an artifact whose    *)
(* content nobody has measured (adapter.py:151-175).                        *)
THEOREM DigestsAreMeasured == DocumentsSpec => []AcceptedDigestsAreMeasured
<1>1. HandoffInv => AcceptedDigestsAreMeasured
  BY DEF HandoffInv, DigestsInv, AcceptedDigestsAreMeasured
<1> QED
  BY <1>1, HandoffInvariance, PTL

(* A token used for two transactions leaves two that can be told apart      *)
(* (adapter.py:135-149).                                                    *)
THEOREM TransactionsStayApart == DocumentsSpec => []TransactionsNotMerged
<1>1. HandoffInv => TransactionsNotMerged
  BY DEF HandoffInv, CorrelationInv, TransactionsNotMerged
<1> QED
  BY <1>1, HandoffInvariance, PTL

------------------------------------------------------------------------------
(* The evidence.  A ruling that was accepted ties the evidence down, for as *)
(* long as nobody changes it.                                               *)

RuledInv ==
  /\ "verified" \in ruled => record.claim_status = "verified"
  /\ "blocked" \in ruled  => record.claim_status # "verified"

LEMMA EvidenceStep ==
  ASSUME RuledInv, [EvidenceNext]_evidenceVars
  PROVE  RuledInv'
<1>1. CASE Verify
  <2>1. ruled' = {} \/ (record' = record /\ ruled' = ruled)
    BY <1>1 DEF Verify
  <2> QED  BY <2>1 DEF RuledInv
<1>2. CASE Decide
  BY <1>2 DEF Decide, RuledInv
<1>3. CASE validate_file
  BY <1>3 DEF validate_file, Accepts, validate_verified, validate_blocked, RuledInv
<1>4. CASE UNCHANGED evidenceVars
  BY <1>4 DEF evidenceVars, RuledInv
<1> QED
  BY <1>1, <1>2, <1>3, <1>4 DEF EvidenceNext

(* Evidence decides, not the author: no rewording gets the same evidence    *)
(* past the validator as verified and as blocked                            *)
(* (validate_trust_chain_boot_verification.py:95-150).                      *)
THEOREM EvidenceHasOneRuling == DocumentsSpec => []EvidenceDecides
<1>1. DocumentsInit => RuledInv
  BY DEF DocumentsInit, EvidenceInit, RuledInv
<1>2. RuledInv /\ [DocumentsNext]_documentsVars => RuledInv'
  BY OneDesk, EvidenceStep
<1>3. RuledInv => EvidenceDecides
  BY DEF RuledInv, EvidenceDecides
<1> QED
  BY <1>1, <1>2, <1>3, PTL DEF DocumentsSpec

------------------------------------------------------------------------------
(* The plan.                                                                *)

LEMMA RevisionTyped ==
  ASSUME doc \in ControlPlaneDocument, Revise
  PROVE  doc' \in ControlPlaneDocument
BY DEF Revise, ControlPlaneDocument

(* What the checks let through, the gates cover.                            *)
LEMMA PlannableIsCovered ==
  ASSUME doc \in ControlPlaneDocument, plan_control_plane
  PROVE  GatesCoverPolicy'
<1>1. CASE Plannable(doc)
  <2>1. plan' = build_control_plane_boot_plan(doc)
    BY <1>1 DEF plan_control_plane
  <2>2. doc.disk_write \in {"installer-scoped", "recovery-scoped", "other"}
    BY DEF ControlPlaneDocument
  <2> QED
    BY <1>1, <2>1, <2>2 DEF Plannable, build_control_plane_boot_plan, verification_gates,
       FallbackGates, Truthy, GatesCoverPolicy
<1>2. CASE ~Plannable(doc)
  BY <1>2 DEF plan_control_plane, GatesCoverPolicy
<1> QED
  BY <1>1, <1>2

(* An executor that verifies the gates of a plan has verified all that the  *)
(* policy beside them asks for (control_plane.py:123-137,140-223).            *)
THEOREM GatesAlwaysCover == DocumentsSpec => []GatesCoverPolicy
<1> DEFINE PInv == doc \in ControlPlaneDocument /\ GatesCoverPolicy
<1>1. DocumentsInit => PInv
  BY DEF DocumentsInit, PlanInit, GoodDocument, ControlPlaneDocument, Flags,
     BOOT_ACTION_BY_CHANNEL, GatesCoverPolicy
<1>2. PInv /\ [DocumentsNext]_documentsVars => PInv'
  <2> SUFFICES ASSUME PInv, [PlanNext]_planVars PROVE PInv'
    BY OneDesk
  <2>1. CASE plan_control_plane
    <3>1. doc' = doc
      BY <2>1 DEF plan_control_plane
    <3> QED  BY <2>1, <3>1, PlannableIsCovered
  <2>2. CASE Revise
    <3>1. plan' = plan
      BY <2>2 DEF Revise
    <3> QED  BY <2>2, <3>1, RevisionTyped DEF GatesCoverPolicy
  <2>3. CASE UNCHANGED planVars
    BY <2>3 DEF planVars, GatesCoverPolicy
  <2> QED  BY <2>1, <2>2, <2>3 DEF PlanNext
<1> QED
  BY <1>1, <1>2, PTL DEF DocumentsSpec
==============================================================================
