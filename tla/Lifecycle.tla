------------------------------- MODULE Lifecycle -------------------------------
(***************************************************************************)
(* The promotion of a release (src/sourceos_boot/lifecycle_state_machine.  *)
(* py): draft, built, signed, assigned, deployed, attested, compliant, and *)
(* back.  apply_transition is pure: it looks at the position it is given   *)
(* and at a request, and returns a record that allows or refuses.  The     *)
(* position belongs to the caller, who "advances its own state by reading  *)
(* toState of an allowed record".  So there is a step between the decision *)
(* and the advance in which anything may happen: the caller may ask again, *)
(* or other callers of the same object may decide and advance first.       *)
(*                                                                         *)
(* References are abstract: a proof is the name of its kind, an approval   *)
(* is there or not.  Subjects, objects, policies, times and the wording of *)
(* reasons decide nothing and are left out.                                *)
(***************************************************************************)
EXTENDS Integers

CONSTANTS
  Callers,
  Approvals,       \* the approvals they may cite
  Requests,        \* the TransitionRequests they may make
  InitialStates    \* where an object may start

NoState == "none"  \* None: the object has no position yet, or none is asked for
NoRef   == "none"  \* a reference that is None or empty

STATES == {"draft", "resolved", "built", "signed", "assigned", "planned", "fetched",
           "loaded", "executed", "attested", "compliant", "noncompliant",
           "rollback-available", "rolled-back", "blocked"}

TRANSITIONS == {"resolve-bom", "build", "sign", "assign", "validate-token", "plan",
                "fetch", "load-only", "execute", "attest", "evaluate-compliance",
                "mark-rollback-available", "rollback", "refuse"}

PROOFS == {"sbomRef", "signatureRef", "katelloManifestRef", "trustChainAdmissionRef",
           "artifactDigestRef", "attestationRef"}

BOTTOM_CAPABILITY == "bottom"

TransitionRequest ==
  [transition_name : STRING,
   capability      : STRING,
   to_state        : STRING,
   proofs_present  : SUBSET PROOFS,
   approval_ref    : Approvals \cup {NoRef}]

ASSUME RequestsAssumption == Requests \subseteq TransitionRequest

(* An object is minted without a position or as a draft.                    *)
ASSUME InitialStatesAssumption == InitialStates \subseteq {NoState, "draft"}

------------------------------------------------------------------------------
(* The table of legal transitions: what it does not list is refused.        *)

Rule(name, from, to, approval, proofs) ==
  [name |-> name, from_state |-> from, to_state |-> to,
   approval_required |-> approval, required_proofs |-> proofs]

ConstructionLane ==
  { Rule("resolve-bom", "draft", "resolved", FALSE, {}),
    Rule("build", "resolved", "built", FALSE, {"sbomRef"}),
    Rule("sign", "built", "signed", TRUE, {"signatureRef", "katelloManifestRef"}) }

AssignmentLane == { Rule("assign", "signed", "assigned", TRUE, {"trustChainAdmissionRef"}) }

DeploymentLane ==
  { Rule("validate-token", "assigned", "assigned", FALSE, {}),
    Rule("plan", "assigned", "planned", FALSE, {}),
    Rule("fetch", "planned", "fetched", FALSE, {"artifactDigestRef"}),
    Rule("load-only", "fetched", "loaded", FALSE, {}),
    Rule("execute", "loaded", "executed", TRUE, {}) }

ComplianceLane ==
  { Rule("attest", "executed", "attested", FALSE, {"attestationRef"}),
    Rule("evaluate-compliance", "attested", "compliant", FALSE, {}),
    Rule("evaluate-compliance", "attested", "noncompliant", FALSE, {}) }

(* A mutant: what fails its compliance has nowhere to go.                   *)
RollbackLane_Bug ==
  { Rule("mark-rollback-available", "compliant", "rollback-available", FALSE, {}),
    Rule("mark-rollback-available", "executed", "rollback-available", FALSE, {}),
    Rule("rollback", "rollback-available", "rolled-back", TRUE, {}) }

RollbackLane ==
  { Rule("mark-rollback-available", "compliant", "rollback-available", FALSE, {}),
    Rule("mark-rollback-available", "noncompliant", "rollback-available", FALSE, {}),
    Rule("mark-rollback-available", "executed", "rollback-available", FALSE, {}),
    Rule("rollback", "rollback-available", "rolled-back", TRUE, {}) }

TRANSITION_TABLE ==
  ConstructionLane \cup AssignmentLane \cup DeploymentLane \cup ComplianceLane
    \cup RollbackLane

HOST_MUTATING == {"execute", "rollback"}

(* The rule that a request names: none, or one.  A transition with two      *)
(* targets needs to_state.  The mutant does not look at the position.       *)
lookup_Bug(from, name, to) ==
  { r \in TRANSITION_TABLE : r.name = name /\ (to # NoState => r.to_state = to) }

lookup(from, name, to) ==
  LET candidates == { r \in TRANSITION_TABLE : r.from_state = from /\ r.name = name } IN
  { r \in candidates : IF to = NoState THEN \A s \in candidates : s = r
                                       ELSE r.to_state = to }

------------------------------------------------------------------------------
VARIABLES
  current_state,   \* the position of the object, in the callers' store
  hand,            \* the record that each caller holds
  proven,          \* proofs that were required and shown, so far
  approved         \* transitions that were allowed with the approval they need, so far

vars == <<current_state, hand, proven, approved>>

LifecycleStateRecord ==
  [from_state        : STATES \cup {NoState},
   to_state          : STATES,
   transition        : TRANSITIONS,
   allowed           : BOOLEAN,
   refusal_ref       : {NoRef, "capability-bottom", "illegal-transition",
                        "approval-required", "missing-evidence"},
   required          : SUBSET PROOFS,
   present           : SUBSET PROOFS,
   missing           : SUBSET PROOFS,
   approval_required : BOOLEAN,
   approval_ref      : Approvals \cup {NoRef},
   host_mutation     : BOOLEAN]

NoRecord == [allowed |-> FALSE, refusal_ref |-> NoRef]

TypeOK ==
  /\ current_state \in STATES \cup {NoState}
  /\ hand \in [Callers -> LifecycleStateRecord \cup {NoRecord}]
  /\ proven \subseteq PROOFS
  /\ approved \subseteq TRANSITIONS

Init ==
  /\ current_state \in InitialStates
  /\ hand = [c \in Callers |-> NoRecord]
  /\ proven = {}
  /\ approved = {}

------------------------------------------------------------------------------
(* apply_transition: four checks, of which the first that fails refuses.    *)

Capable(request) == request.capability # BOTTOM_CAPABILITY

Rules(request) == lookup(current_state, request.transition_name, request.to_state)

(* A mutant: an empty reference is taken for an approval.                   *)
Approved_Bug(rule, request) == rule.approval_required => request.approval_ref # "unset"
Approved(rule, request) == rule.approval_required => request.approval_ref # NoRef

(* A mutant: one of the proofs is enough.                                   *)
Missing_Bug(required, present) == IF required \cap present # {} THEN {} ELSE required
Missing(required, present) == required \ present

Proven(rule, request) == Missing(rule.required_proofs, request.proofs_present) = {}

(* A mutant: a refusal names the state that was asked for.                  *)
Refusal_Bug(request, refusal_ref, required, approval_required, approval_ref) ==
  [from_state |-> current_state, to_state |-> request.to_state, transition |-> "refuse",
   allowed |-> FALSE, refusal_ref |-> refusal_ref,
   required |-> required, present |-> request.proofs_present,
   missing |-> Missing(required, request.proofs_present),
   approval_required |-> approval_required, approval_ref |-> approval_ref,
   host_mutation |-> FALSE]

Refusal(request, refusal_ref, required, approval_required, approval_ref) ==
  [from_state |-> current_state, to_state |-> "blocked", transition |-> "refuse",
   allowed |-> FALSE, refusal_ref |-> refusal_ref,
   required |-> required, present |-> request.proofs_present,
   missing |-> Missing(required, request.proofs_present),
   approval_required |-> approval_required, approval_ref |-> approval_ref,
   host_mutation |-> FALSE]

Refused(caller, record) ==
  /\ hand' = [hand EXCEPT ![caller] = record]
  /\ UNCHANGED <<current_state, proven, approved>>

RefuseBottom(caller, request) ==
  /\ ~Capable(request)
  /\ Refused(caller, Refusal(request, "capability-bottom", {}, FALSE, NoRef))

RefuseIllegal(caller, request) ==
  /\ Capable(request)
  /\ Rules(request) = {}
  /\ Refused(caller, Refusal(request, "illegal-transition", {}, FALSE, NoRef))

RefuseUnapproved(caller, request) ==
  \E rule \in Rules(request) :
    /\ Capable(request)
    /\ ~Approved(rule, request)
    /\ Refused(caller, Refusal(request, "approval-required", rule.required_proofs,
                               TRUE, NoRef))

RefuseUnproven(caller, request) ==
  \E rule \in Rules(request) :
    /\ Capable(request)
    /\ Approved(rule, request)
    /\ ~Proven(rule, request)
    /\ Refused(caller, Refusal(request, "missing-evidence", rule.required_proofs,
                               rule.approval_required, request.approval_ref))

Allow(caller, request) ==
  \E rule \in Rules(request) :
    /\ Capable(request)
    /\ Approved(rule, request)
    /\ Proven(rule, request)
    /\ hand' = [hand EXCEPT ![caller] =
         [from_state |-> current_state, to_state |-> rule.to_state,
          transition |-> rule.name, allowed |-> TRUE, refusal_ref |-> NoRef,
          required |-> rule.required_proofs, present |-> request.proofs_present,
          missing |-> Missing(rule.required_proofs, request.proofs_present),
          approval_required |-> rule.approval_required,
          approval_ref |-> request.approval_ref,
          host_mutation |-> rule.name \in HOST_MUTATING]]
    /\ proven' = proven \cup (rule.required_proofs \cap request.proofs_present)
    /\ approved' = IF rule.approval_required /\ request.approval_ref # NoRef
                   THEN approved \cup {rule.name} ELSE approved
    /\ UNCHANGED current_state

(* The caller's part: an allowed record moves the object.                   *)
Advance(caller) ==
  /\ hand[caller].allowed
  /\ current_state' = hand[caller].to_state
  /\ hand' = [hand EXCEPT ![caller] = NoRecord]
  /\ UNCHANGED <<proven, approved>>

Ask(caller, request) ==
  \/ RefuseBottom(caller, request)
  \/ RefuseIllegal(caller, request)
  \/ RefuseUnapproved(caller, request)
  \/ RefuseUnproven(caller, request)
  \/ Allow(caller, request)

Next == \E caller \in Callers :
          Advance(caller) \/ \E request \in Requests : Ask(caller, request)

Spec == Init /\ [][Next]_vars

------------------------------------------------------------------------------
(* The lanes of the table, as the states at or past a gate.                 *)
PastRollback   == {"rolled-back"}
PastExecute    == {"executed", "attested", "compliant", "noncompliant",
                   "rollback-available"} \cup PastRollback
PastFetch      == {"fetched", "loaded"} \cup PastExecute
PastAssignment == {"assigned", "planned"} \cup PastFetch
PastSigning    == {"signed"} \cup PastAssignment
PastBuild      == {"built"} \cup PastSigning
Judged         == {"attested", "compliant", "noncompliant"}

(* What must have been shown for an object to be where it is.               *)
Licensed(state) ==
  /\ state \in PastBuild      => "sbomRef" \in proven
  /\ state \in PastSigning    => /\ {"signatureRef", "katelloManifestRef"} \subseteq proven
                                 /\ "sign" \in approved
  /\ state \in PastAssignment => /\ "trustChainAdmissionRef" \in proven
                                 /\ "assign" \in approved
  /\ state \in PastFetch      => "artifactDigestRef" \in proven
  /\ state \in PastExecute    => "execute" \in approved
  /\ state \in Judged         => "attestationRef" \in proven
  /\ state \in PastRollback   => "rollback" \in approved

(* No shortcut: an object is never anywhere without every proof and every   *)
(* approval that the whole way there demands, even when several callers     *)
(* decide on it and advance it at their own pace.                           *)
LineageComplete == Licensed(current_state)

(* The moment that counts: when a record licenses a change of a host, the   *)
(* release has been built, signed and published, admitted, fetched by       *)
(* digest and approved, and is not refused or blocked.                      *)
HostMutationLicensed ==
  \A c \in Callers :
    hand[c].allowed =>
      /\ Licensed(hand[c].to_state)
      /\ hand[c].host_mutation => hand[c].to_state \in PastExecute

(* An auditor who has only the record can tell that the decision was right: *)
(* what is allowed lacks nothing, and a refusal lacks what it says it does, *)
(* the gates before it having passed.                                       *)
RecordAuditable ==
  \A c \in Callers : hand[c] # NoRecord =>
    LET record == hand[c]
        lacks_approval == record.approval_required /\ record.approval_ref = NoRef
    IN  /\ record.allowed => /\ record.missing = {} /\ ~lacks_approval
                             /\ record.refusal_ref = NoRef
                             /\ record.to_state # "blocked"
        /\ ~record.allowed => record.to_state = "blocked" /\ ~record.host_mutation
        /\ record.refusal_ref = "approval-required" <=> lacks_approval
        /\ record.refusal_ref = "missing-evidence"
             => record.missing # {} /\ ~lacks_approval

Rank(state) ==
  CASE state \in {NoState, "draft"}               -> 0
    [] state = "resolved"                         -> 1
    [] state \in PastBuild \ PastSigning          -> 2
    [] state \in PastSigning \ PastAssignment     -> 3
    [] state = "assigned"                         -> 4
    [] state = "planned"                          -> 5
    [] state = "fetched"                          -> 6
    [] state = "loaded"                           -> 7
    [] state = "executed"                         -> 8
    [] state = "attested"                         -> 9
    [] state \in {"compliant", "noncompliant"}    -> 10
    [] state = "rollback-available"               -> 11
    [] state \in {"rolled-back", "blocked"}       -> 12

(* An object only ever moves on along the lineage, however often its        *)
(* callers ask between two advances and whatever is refused, unless a       *)
(* caller uses a record that was made for another position.                 *)
NeverBackwards ==
  [][current_state' # current_state =>
       \/ Rank(current_state') > Rank(current_state)
       \/ \E c \in Callers : /\ hand[c].allowed /\ hand[c].to_state = current_state'
                            /\ hand[c].from_state # current_state]_vars

(* Sets of states that no rule of the table leads out of.                   *)
ClosedSets ==
  { closed \in SUBSET STATES :
      \A r \in TRANSITION_TABLE : r.from_state \in closed => r.to_state \in closed }

(* The states from which the table leads to a rollback.                     *)
CanRollBack ==
  { state \in STATES : \A closed \in ClosedSets : state \in closed => "rolled-back" \in closed }

(* A host is never changed for a release that could not be rolled back from *)
(* there, and a release that has reached a host never gets into a place     *)
(* from which it cannot, whatever its attestation and its compliance say    *)
(* (lifecycle_state_machine.py:154-163).                                    *)
RollbackStaysOpen ==
  /\ current_state \in PastExecute => current_state \in CanRollBack
  /\ \A c \in Callers :
       hand[c].allowed /\ hand[c].host_mutation => hand[c].to_state \in CanRollBack

(* lifecycle_state_machine.py:285 says of currentState: "None means initial *)
(* mint, e.g. -> draft": some transition takes such an object to draft.     *)
MintIsPossible ==
  current_state = NoState =>
    \E name \in TRANSITIONS : lookup(NoState, name, "draft") # {}
==============================================================================
