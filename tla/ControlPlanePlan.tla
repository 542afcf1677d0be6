--------------------------- MODULE ControlPlanePlan ---------------------------
(***************************************************************************)
(* The command plan-control-plane (src/sourceos_boot/cli.py): a            *)
(* control-plane BootReleaseSet is checked by build_control_plane_boot_plan *)
(* (src/sourceos_boot/control_plane.py) and turned into a plan, with the   *)
(* gates an executor has to verify.  Authors revise the document, and the  *)
(* command may be given any revision.                                      *)
(*                                                                         *)
(* A flag of the document is any JSON value.  Python code tells apart True *)
(* and False, other values that are true or false in a condition, and a    *)
(* field that is absent.  A part of the document whose checks concern      *)
(* nothing else is in "broken" when it is missing or malformed.            *)
(***************************************************************************)
EXTENDS Integers, FiniteSets

CONSTANT MaxRevisions   \* bound: revisions of the document

VARIABLES
  doc,         \* the document
  revisions,   \* how often it was revised
  plan         \* the plan that was printed last, if any

planVars == <<doc, revisions, plan>>

Flags  == {"True", "False", "truthy", "falsy", "absent"}
Truthy(flag) == flag \in {"True", "truthy"}

Parts == {"boot_release_set_id", "base_release_set_ref", "policy_ref", "boot_mode",
          "platform_entrypoints", "artifacts", "signing", "boot_capabilities",
          "offline_fallback", "proof_reporting"}

BOOT_ACTION_BY_CHANNEL ==
  [live      |-> "boot-live-environment",
   installer |-> "plan-install",
   rescue    |-> "plan-rescue",
   rollback  |-> "plan-rollback",
   bootstrap |-> "plan-bootstrap"]

ControlPlaneDocument ==
  [broken       : SUBSET Parts,
   status       : {"ready", "draft", "absent"},
   boot_channel : DOMAIN BOOT_ACTION_BY_CHANNEL \cup {"recovery", "absent"},
   enabled      : Flags,    \* offline_fallback.enabled
   requires_signature_verification : Flags,
   allows_unsigned_artifacts       : Flags,
   required     : Flags,    \* proof_reporting.required
   reports      : BOOLEAN,  \* proof_reporting.reports is a list that is not empty
   kexec_allowed : Flags,
   disk_write   : {"installer-scoped", "recovery-scoped", "other"}]

GoodDocument ==
  [broken |-> {}, status |-> "ready", boot_channel |-> "rescue", enabled |-> "True",
   requires_signature_verification |-> "True", allows_unsigned_artifacts |-> "False",
   required |-> "True", reports |-> TRUE, kexec_allowed |-> "False",
   disk_write |-> "recovery-scoped"]

NoPlan == [action |-> "none"]

PlanInit == doc = GoodDocument /\ revisions = 0 /\ plan = NoPlan

------------------------------------------------------------------------------
(* A mutant: a fallback is enabled only by the value True.                  *)
FallbackGates_Bug(d) ==
  IF d.enabled = "True" THEN {"verify-offline-fallback-signature-required"} ELSE {}

FallbackGates(d) ==
  IF Truthy(d.enabled) THEN {"verify-offline-fallback-signature-required"} ELSE {}

verification_gates(d) ==
  {"verify-boot-release-set-status-ready", "verify-manifest-signature",
   "verify-artifact-refs-present", "verify-policy-ref-present",
   "verify-proof-reporting-required"}
  \cup FallbackGates(d)
  \cup (IF d.kexec_allowed = "False" THEN {"verify-kexec-denied"} ELSE {})
  \cup (IF d.disk_write \in {"installer-scoped", "recovery-scoped"}
        THEN {"verify-disk-write-scope"} ELSE {})

(* The checks, in the order of the code: none of them raises.               *)
Plannable(d) ==
  /\ d.broken = {}
  /\ d.status = "ready"
  /\ d.boot_channel \in DOMAIN BOOT_ACTION_BY_CHANNEL
  /\ d.required = "True" /\ d.reports
  /\ Truthy(d.enabled) => d.requires_signature_verification = "True"
  /\ d.allows_unsigned_artifacts = "False"

(* The plan carries the policy of the document along with the gates.        *)
build_control_plane_boot_plan(d) ==
  [action |-> BOOT_ACTION_BY_CHANNEL[d.boot_channel],
   boot_channel |-> d.boot_channel,
   offline_fallback |-> [enabled |-> d.enabled,
                         requires_signature_verification |-> d.requires_signature_verification,
                         allows_unsigned_artifacts |-> d.allows_unsigned_artifacts],
   boot_capabilities |-> [kexec_allowed |-> d.kexec_allowed, disk_write |-> d.disk_write],
   verification_gates |-> verification_gates(d),
   execute |-> FALSE]

plan_control_plane ==
  /\ plan' = IF Plannable(doc) THEN build_control_plane_boot_plan(doc) ELSE NoPlan
  /\ UNCHANGED <<doc, revisions>>

(* The author changes one thing.                                            *)
Revise ==
  /\ revisions < MaxRevisions
  /\ revisions' = revisions + 1
  /\ \/ \E part \in Parts : doc' = [doc EXCEPT !.broken = @ \cup {part}]
     \/ doc' = [doc EXCEPT !.broken = {}]
     \/ \E s \in {"ready", "draft", "absent"} : doc' = [doc EXCEPT !.status = s]
     \/ \E c \in DOMAIN BOOT_ACTION_BY_CHANNEL \cup {"recovery", "absent"} :
          doc' = [doc EXCEPT !.boot_channel = c]
     \/ \E f \in Flags :
          \/ doc' = [doc EXCEPT !.enabled = f]
          \/ doc' = [doc EXCEPT !.requires_signature_verification = f]
          \/ doc' = [doc EXCEPT !.allows_unsigned_artifacts = f]
          \/ doc' = [doc EXCEPT !.required = f]
          \/ doc' = [doc EXCEPT !.kexec_allowed = f]
     \/ \E b \in BOOLEAN : doc' = [doc EXCEPT !.reports = b]
     \/ \E w \in {"installer-scoped", "recovery-scoped", "other"} :
          doc' = [doc EXCEPT !.disk_write = w]
  /\ UNCHANGED plan

PlanNext == plan_control_plane \/ Revise

PlanSpec == PlanInit /\ [][PlanNext]_planVars

------------------------------------------------------------------------------
(* The gates are derived from the document again, after the checks.  An     *)
(* executor that verifies the gates of a plan and reads the policy printed  *)
(* beside them, strictly or as Python would, never falls back to something  *)
(* whose signature nobody verifies, never uses kexec where it is denied,    *)
(* and never writes outside the scope it was given.                         *)
GatesCoverPolicy ==
  plan # NoPlan =>
    LET fallback == plan.offline_fallback
        may      == plan.boot_capabilities
        gates    == plan.verification_gates
    IN  /\ ~plan.execute
        /\ fallback.enabled \in {"True", "truthy"} =>
             /\ "verify-offline-fallback-signature-required" \in gates
             /\ fallback.requires_signature_verification = "True"
        /\ fallback.allows_unsigned_artifacts = "False"
        /\ may.kexec_allowed = "False" => "verify-kexec-denied" \in gates
        /\ may.disk_write # "other" => "verify-disk-write-scope" \in gates
==============================================================================
