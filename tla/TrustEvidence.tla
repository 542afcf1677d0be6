---------------------------- MODULE TrustEvidence ----------------------------
(***************************************************************************)
(* A TrustChainBootVerificationEvidence record on its way to admission,    *)
(* and src/sourceos_boot/validate_trust_chain_boot_verification.py, which  *)
(* judges it.  Verifiers fill in the evidence, an author decides, sets the *)
(* effects and lists what has to be repaired; each of them may change his  *)
(* part again, and the record may be validated at any point in between.    *)
(*                                                                         *)
(* A reference that may be null is present or not; an empty string is kept *)
(* for the manifest hash, where the two rules differ about it.  A record   *)
(* the schema refuses is in "schema_broken", whatever the reason.          *)
(***************************************************************************)
EXTENDS Integers, FiniteSets

VARIABLES
  record,   \* the evidence
  ruling,   \* decision, effects and remediation
  ruled     \* the decisions accepted for the evidence as it is

evidenceVars == <<record, ruling, ruled>>

Refs == {"claim_ref", "attestation_ref", "policy_profile_ref",
         "admission_decision_ref", "runtime_receipt_ref"}

Evidence ==
  [claim_status        : {"verified", "failed", "missing"},
   manifest_hash       : {"null", "empty", "hash"},
   verification_result : {"pass", "fail", "not_run"},
   refs                : SUBSET Refs,      \* those that are given
   schema_broken       : BOOLEAN]

Effects == {"boot_allowed", "install_allowed", "rollback_allowed",
            "repair_required", "human_review_required"}

(* Steps of remediation: as they should be, optional, or by nobody.         *)
Steps == {"proper", "optional", "anonymous"}

Ruling ==
  [decision    : {"verified", "blocked", "review_required"},
   effects     : SUBSET Effects,           \* those that are true
   remediation : SUBSET Steps]

EvidenceInit ==
  /\ record = [claim_status |-> "missing", manifest_hash |-> "null",
               verification_result |-> "not_run", refs |-> {}, schema_broken |-> FALSE]
  /\ ruling = [decision |-> "review_required", effects |-> {}, remediation |-> {}]
  /\ ruled = {}

------------------------------------------------------------------------------
(* The people who make the record.                                          *)

Verify ==
  /\ \/ \E s \in {"verified", "failed", "missing"} :
          record' = [record EXCEPT !.claim_status = s]
     \/ \E h \in {"null", "empty", "hash"} : record' = [record EXCEPT !.manifest_hash = h]
     \/ \E r \in {"pass", "fail", "not_run"} :
          record' = [record EXCEPT !.verification_result = r]
     \/ \E ref \in Refs : record' = [record EXCEPT !.refs = @ \cup {ref}]
     \/ \E b \in BOOLEAN : record' = [record EXCEPT !.schema_broken = b]
  /\ ruled' = IF record' = record THEN ruled ELSE {}
  /\ UNCHANGED ruling

Grants  == {"boot_allowed", "install_allowed", "rollback_allowed"}
Denials == {"rollback_allowed", "repair_required", "human_review_required"}

Decide ==
  /\ \E decision \in {"verified", "blocked", "review_required"},
        effects \in {Grants, Denials, Grants \cap Denials, Grants \cup Denials},
        remediation \in {{}} \cup { {step} : step \in Steps } :
       ruling' = [decision |-> decision, effects |-> effects, remediation |-> remediation]
  /\ UNCHANGED <<record, ruled>>

------------------------------------------------------------------------------
(* The validator.                                                           *)

validate_verified ==
  /\ record.claim_status = "verified"
  /\ record.manifest_hash = "hash"
  /\ record.verification_result = "pass"
  /\ record.refs = Refs
  /\ {"boot_allowed", "install_allowed"} \subseteq ruling.effects
  /\ ruling.effects \cap {"repair_required", "human_review_required"} = {}

(* A mutant: a blocked record is judged by its effects alone.               *)
validate_blocked_Bug ==
  /\ ruling.effects \cap {"boot_allowed", "install_allowed"} = {}
  /\ {"repair_required", "human_review_required"} \subseteq ruling.effects
  /\ ruling.remediation # {} /\ ruling.remediation \subseteq {"proper"}

validate_blocked ==
  /\ record.claim_status # "verified"
  /\ record.manifest_hash = "null"
  /\ record.verification_result # "pass"
  /\ ruling.effects \cap {"boot_allowed", "install_allowed"} = {}
  /\ {"repair_required", "human_review_required"} \subseteq ruling.effects
  /\ ruling.remediation # {} /\ ruling.remediation \subseteq {"proper"}

validate_schema == ~record.schema_broken

(* validate_file: the schema, and the rules of the decision, if it has any. *)
Accepts ==
  /\ validate_schema
  /\ ruling.decision = "verified" => validate_verified
  /\ ruling.decision = "blocked"  => validate_blocked

validate_file ==
  /\ ruled' = IF Accepts THEN ruled \cup {ruling.decision} ELSE ruled
  /\ UNCHANGED <<record, ruling>>

EvidenceNext == Verify \/ Decide \/ validate_file

EvidenceSpec == EvidenceInit /\ [][EvidenceNext]_evidenceVars

------------------------------------------------------------------------------
(* Evidence decides, not the author: of one and the same evidence, no       *)
(* rewording of decision, effects and remediation gets both a verified and  *)
(* a blocked record past the validator.                                     *)
EvidenceDecides == ~({"verified", "blocked"} \subseteq ruled)
==============================================================================
