--------------------------- MODULE LifecycleProofs ---------------------------
(***************************************************************************)
(* No shortcut to a host: for every set of callers and of requests.  The   *)
(* invariants say where an object is; the induction needs to know as well  *)
(* that a record in a caller's hand, however stale, was licensed when it   *)
(* was made, and that what has been shown stays shown.                     *)
(***************************************************************************)
EXTENDS Lifecycle, TLAPS

LInv ==
  /\ TypeOK
  /\ Licensed(current_state)
  /\ \A c \in Callers : hand[c].allowed =>
       /\ Licensed(hand[c].to_state)
       /\ hand[c].host_mutation => hand[c].to_state \in PastExecute

(* What has been shown is never forgotten, so a license stays one.          *)
LEMMA LicenseKept ==
  ASSUME proven \subseteq proven', approved \subseteq approved',
         NEW state, Licensed(state)
  PROVE  Licensed(state)'
BY DEF Licensed

LEMMA RuleTyped ==
  ASSUME NEW rule \in TRANSITION_TABLE
  PROVE  /\ rule.to_state \in STATES \ {"blocked"}
         /\ rule.name \in TRANSITIONS
         /\ rule.required_proofs \in SUBSET PROOFS
         /\ rule.approval_required \in BOOLEAN
         /\ rule.name \in HOST_MUTATING => rule.to_state \in PastExecute
<1>1. rule.to_state \in STATES \ {"blocked"}
  BY DEF TRANSITION_TABLE, ConstructionLane, AssignmentLane, DeploymentLane,
        ComplianceLane, RollbackLane, Rule, STATES
<1>2. rule.name \in TRANSITIONS
  BY DEF TRANSITION_TABLE, ConstructionLane, AssignmentLane, DeploymentLane,
        ComplianceLane, RollbackLane, Rule, TRANSITIONS
<1>3. rule.required_proofs \in SUBSET PROOFS
  BY DEF TRANSITION_TABLE, ConstructionLane, AssignmentLane, DeploymentLane,
        ComplianceLane, RollbackLane, Rule, PROOFS
<1>4. rule.approval_required \in BOOLEAN
  <2>1. rule.approval_required = TRUE \/ rule.approval_required = FALSE
    BY DEF TRANSITION_TABLE, ConstructionLane, AssignmentLane, DeploymentLane,
        ComplianceLane, RollbackLane, Rule
  <2> QED  BY <2>1
<1>5. rule.name \in HOST_MUTATING => rule.to_state \in PastExecute
  BY DEF TRANSITION_TABLE, ConstructionLane, AssignmentLane, DeploymentLane,
        ComplianceLane, RollbackLane, Rule, HOST_MUTATING, PastExecute, PastRollback
<1> QED
  BY <1>1, <1>2, <1>3, <1>4, <1>5

LEMMA RulesFacts ==
  ASSUME NEW request, NEW rule \in Rules(request)
  PROVE  rule \in TRANSITION_TABLE /\ rule.from_state = current_state
BY DEF Rules, lookup

(* A rule of the table takes a license for where it starts, with the proofs *)
(* and the approval it asks for, to a license for where it ends.            *)
LEMMA RuleLicenses ==
  ASSUME NEW rule \in TRANSITION_TABLE, Licensed(rule.from_state),
         proven \subseteq proven', approved \subseteq approved',
         rule.required_proofs \subseteq proven',
         rule.approval_required => rule.name \in approved'
  PROVE  Licensed(rule.to_state)'
<1>1. Licensed(rule.from_state)'
  BY LicenseKept
<1> QED
  BY <1>1 DEF Licensed, TRANSITION_TABLE, ConstructionLane, AssignmentLane,
     DeploymentLane, ComplianceLane, RollbackLane, Rule, PastRollback, PastExecute, PastFetch,
     PastAssignment, PastSigning, PastBuild, Judged

LEMMA RequestTyped ==
  ASSUME NEW request \in Requests
  PROVE  request.proofs_present \in SUBSET PROOFS /\ request.approval_ref \in Approvals \cup {NoRef}
BY RequestsAssumption DEF TransitionRequest

(* A refusal is a record and leaves everything else as it was.              *)
LEMMA RefusedStep ==
  ASSUME LInv, NEW caller \in Callers, NEW request \in Requests,
         NEW ref \in {"capability-bottom", "illegal-transition",
                      "approval-required", "missing-evidence"},
         NEW required \in SUBSET PROOFS, NEW needed \in BOOLEAN, NEW approval \in Approvals \cup {NoRef},
         Refused(caller, Refusal(request, ref, required, needed, approval))
  PROVE  LInv'
<1> DEFINE record == Refusal(request, ref, required, needed, approval)
<1>1. /\ hand' = [hand EXCEPT ![caller] = record]
      /\ UNCHANGED <<current_state, proven, approved>>
  BY DEF Refused
<1>2. record \in LifecycleStateRecord /\ ~record.allowed
  <2>1. "blocked" \in STATES /\ "refuse" \in TRANSITIONS
    BY DEF STATES, TRANSITIONS
  <2>2. current_state \in STATES \cup {NoState}
    BY DEF LInv, TypeOK
  <2> QED
    BY <2>1, <2>2, RequestTyped DEF Refusal, Missing, LifecycleStateRecord
<1>3. hand \in [Callers -> LifecycleStateRecord \cup {NoRecord}]
  BY DEF LInv, TypeOK
<1> HIDE DEF record
<1>4. TypeOK'
  BY <1>1, <1>2, <1>3 DEF LInv, TypeOK
<1>5. Licensed(current_state)'
  BY <1>1 DEF LInv, Licensed
<1>6. ASSUME NEW c \in Callers, hand'[c].allowed
      PROVE  /\ Licensed(hand[c].to_state)'
             /\ hand'[c].host_mutation => hand'[c].to_state \in PastExecute
  <2>1. c # caller /\ hand'[c] = hand[c]
    BY <1>1, <1>2, <1>3, <1>6
  <2>2. /\ Licensed(hand[c].to_state)
        /\ hand[c].host_mutation => hand[c].to_state \in PastExecute
    BY <1>6, <2>1 DEF LInv
  <2> QED  BY <1>1, <2>1, <2>2 DEF Licensed
<1> QED
  BY <1>4, <1>5, <1>6 DEF LInv

LEMMA AllowStep ==
  ASSUME LInv, NEW caller \in Callers, NEW request \in Requests, Allow(caller, request)
  PROVE  LInv'
<1>1. PICK rule \in Rules(request) :
        /\ Approved(rule, request) /\ Proven(rule, request)
        /\ hand' = [hand EXCEPT ![caller] =
             [from_state |-> current_state, to_state |-> rule.to_state,
              transition |-> rule.name, allowed |-> TRUE, refusal_ref |-> NoRef,
              required |-> rule.required_proofs, present |-> request.proofs_present,
              missing |-> Missing(rule.required_proofs, request.proofs_present),
              approval_required |-> rule.approval_required,
              approval_ref |-> request.approval_ref,
              host_mutation |-> rule.name \in HOST_MUTATING]]
        /\ proven' = proven \cup (rule.required_proofs \cap request.proofs_present)
        /\ approved' = IF rule.approval_required /\ request.approval_ref # NoRef
                       THEN approved \cup {rule.name} ELSE approved
        /\ UNCHANGED current_state
  BY DEF Allow
<1> DEFINE record == [from_state |-> current_state, to_state |-> rule.to_state,
              transition |-> rule.name, allowed |-> TRUE, refusal_ref |-> NoRef,
              required |-> rule.required_proofs, present |-> request.proofs_present,
              missing |-> Missing(rule.required_proofs, request.proofs_present),
              approval_required |-> rule.approval_required,
              approval_ref |-> request.approval_ref,
              host_mutation |-> rule.name \in HOST_MUTATING]
<1>2. rule \in TRANSITION_TABLE /\ rule.from_state = current_state
  BY RulesFacts
<1>3. /\ rule.to_state \in STATES /\ rule.name \in TRANSITIONS
      /\ rule.required_proofs \in SUBSET PROOFS /\ rule.approval_required \in BOOLEAN
      /\ rule.name \in HOST_MUTATING => rule.to_state \in PastExecute
  BY <1>2, RuleTyped
<1>4. TypeOK /\ hand \in [Callers -> LifecycleStateRecord \cup {NoRecord}]
  BY DEF LInv, TypeOK
<1>5. record \in LifecycleStateRecord
  <2>1. current_state \in STATES \cup {NoState}
    BY <1>4 DEF TypeOK
  <2> QED
    BY <1>3, <2>1, RequestTyped DEF Missing, LifecycleStateRecord
<1>6. /\ record.allowed /\ record.to_state = rule.to_state
      /\ record.host_mutation = (rule.name \in HOST_MUTATING)
  OBVIOUS
<1> HIDE DEF record
<1>7. proven \subseteq proven' /\ approved \subseteq approved'
  BY <1>1
<1>8. /\ rule.required_proofs \subseteq proven'
      /\ rule.approval_required => rule.name \in approved'
  BY <1>1 DEF Proven, Missing, Approved
<1>9. Licensed(rule.to_state)'
  BY <1>2, <1>7, <1>8, RuleLicenses DEF LInv
<1>10. hand' = [hand EXCEPT ![caller] = record]
  BY <1>1 DEF record
<1>11. TypeOK'
  <2>1. proven' \subseteq PROOFS /\ approved' \subseteq TRANSITIONS
    BY <1>1, <1>3, <1>4 DEF TypeOK
  <2> QED  BY <1>1, <1>4, <1>5, <1>10, <2>1 DEF TypeOK
<1>12. Licensed(current_state)'
  <2>1. Licensed(current_state)
    BY DEF LInv
  <2> QED  BY <1>1, <1>7, <2>1 DEF Licensed
<1>13. ASSUME NEW c \in Callers, hand'[c].allowed
       PROVE  /\ Licensed(hand[c].to_state)'
              /\ hand'[c].host_mutation => hand'[c].to_state \in PastExecute
  <2>1. CASE c = caller
    <3>1. hand'[c] = record
      BY <1>4, <1>10, <2>1
    <3> QED  BY <1>3, <1>6, <1>9, <3>1 DEF Licensed
  <2>2. CASE c # caller
    <3>1. hand'[c] = hand[c]
      BY <1>4, <1>10, <2>2
    <3>2. /\ Licensed(hand[c].to_state)
          /\ hand[c].host_mutation => hand[c].to_state \in PastExecute
      BY <1>13, <3>1 DEF LInv
    <3> QED  BY <1>7, <3>1, <3>2 DEF Licensed
  <2> QED  BY <2>1, <2>2
<1> QED
  BY <1>11, <1>12, <1>13 DEF LInv

LEMMA AdvanceStep ==
  ASSUME LInv, NEW caller \in Callers, Advance(caller)
  PROVE  LInv'
<1>1. /\ hand[caller].allowed /\ current_state' = hand[caller].to_state
      /\ hand' = [hand EXCEPT ![caller] = NoRecord]
      /\ UNCHANGED <<proven, approved>>
  BY DEF Advance
<1>2. TypeOK /\ hand \in [Callers -> LifecycleStateRecord \cup {NoRecord}]
  BY DEF LInv, TypeOK
<1>3. ~NoRecord.allowed
  BY DEF NoRecord
<1>4. hand[caller] \in LifecycleStateRecord
  BY <1>1, <1>2, <1>3
<1>5. hand[caller].to_state \in STATES
  BY <1>4 DEF LifecycleStateRecord
<1>6. TypeOK'
  BY <1>1, <1>2, <1>5 DEF TypeOK
<1>7. Licensed(current_state)'
  BY <1>1 DEF LInv, Licensed
<1>8. ASSUME NEW c \in Callers, hand'[c].allowed
      PROVE  /\ Licensed(hand[c].to_state)'
             /\ hand'[c].host_mutation => hand'[c].to_state \in PastExecute
  <2>1. c # caller /\ hand'[c] = hand[c]
    BY <1>1, <1>2, <1>3, <1>8
  <2>2. /\ Licensed(hand[c].to_state)
        /\ hand[c].host_mutation => hand[c].to_state \in PastExecute
    BY <1>8, <2>1 DEF LInv
  <2> QED  BY <1>1, <2>1, <2>2 DEF Licensed
<1> QED
  BY <1>6, <1>7, <1>8 DEF LInv

LEMMA LNextInvariant ==
  ASSUME LInv, [Next]_vars
  PROVE  LInv'
<1>1. ASSUME NEW caller \in Callers, Advance(caller) PROVE LInv'
  BY <1>1, AdvanceStep
<1>2. ASSUME NEW caller \in Callers, NEW request \in Requests, Ask(caller, request)
      PROVE  LInv'
  <2>0. /\ {} \in SUBSET PROOFS /\ NoRef \in Approvals \cup {NoRef}
        /\ TRUE \in BOOLEAN /\ FALSE \in BOOLEAN
    <3>1. {} \in SUBSET PROOFS
      OBVIOUS
    <3>2. NoRef \in Approvals \cup {NoRef}
      OBVIOUS
    <3>3. TRUE \in BOOLEAN /\ FALSE \in BOOLEAN
      OBVIOUS
    <3> QED  BY <3>1, <3>2, <3>3
  <2>1. CASE Allow(caller, request)
    BY <1>2, <2>1, AllowStep
  <2>2. CASE RefuseBottom(caller, request)
    <3>1. Refused(caller, Refusal(request, "capability-bottom", {}, FALSE, NoRef))
      BY <2>2 DEF RefuseBottom
    <3> QED  BY <1>2, <2>0, <3>1, RefusedStep, Zenon
  <2>3. CASE RefuseIllegal(caller, request)
    <3>1. Refused(caller, Refusal(request, "illegal-transition", {}, FALSE, NoRef))
      BY <2>3 DEF RefuseIllegal
    <3> QED  BY <1>2, <2>0, <3>1, RefusedStep, Zenon
  <2>4. CASE RefuseUnapproved(caller, request)
    <3>1. PICK rule \in Rules(request) :
            Refused(caller, Refusal(request, "approval-required", rule.required_proofs,
                                    TRUE, NoRef))
      BY <2>4 DEF RefuseUnapproved
    <3>2. rule.required_proofs \in SUBSET PROOFS
      BY RulesFacts, RuleTyped
    <3> QED  BY <1>2, <2>0, <3>1, <3>2, RefusedStep, Zenon
  <2>5. CASE RefuseUnproven(caller, request)
    <3>1. PICK rule \in Rules(request) :
            Refused(caller, Refusal(request, "missing-evidence", rule.required_proofs,
                                    rule.approval_required, request.approval_ref))
      BY <2>5 DEF RefuseUnproven
    <3>2. rule.required_proofs \in SUBSET PROOFS /\ rule.approval_required \in BOOLEAN
      BY RulesFacts, RuleTyped
    <3> QED  BY <3>1, <3>2, RequestTyped, RefusedStep
  <2> QED  BY <1>2, <2>1, <2>2, <2>3, <2>4, <2>5 DEF Ask
<1>3. CASE UNCHANGED vars
  BY <1>3 DEF vars, LInv, TypeOK, Licensed
<1> QED
  BY <1>1, <1>2, <1>3 DEF Next

(* The strengthened invariant holds, whatever the callers ask and however   *)
(* they interleave (apply_transition, lifecycle_state_machine.py:276-429).  *)
THEOREM LifecycleInvariance == Spec => []LInv
<1>1. Init => LInv
  <2>1. ASSUME Init PROVE LInv
    <3>1. current_state \in {NoState, "draft"} /\ hand = [c \in Callers |-> NoRecord]
          /\ proven = {} /\ approved = {}
      BY <2>1, InitialStatesAssumption DEF Init
    <3>2. TypeOK
      BY <3>1 DEF TypeOK, STATES
    <3>3. Licensed(current_state)
      BY <3>1 DEF Licensed, NoState, PastRollback, PastExecute, PastFetch,
         PastAssignment, PastSigning, PastBuild, Judged
    <3>4. \A c \in Callers : ~hand[c].allowed
      BY <3>1 DEF NoRecord
    <3> QED  BY <3>2, <3>3, <3>4 DEF LInv
  <2> QED  BY <2>1
<1>2. LInv /\ [Next]_vars => LInv'
  BY LNextInvariant
<1> QED
  BY <1>1, <1>2, PTL DEF Spec

(* An object is never anywhere without every proof and approval that the    *)
(* way there demands (TRANSITION_TABLE, 117-168).                           *)
THEOREM LineageIsComplete == Spec => []LineageComplete
<1>1. LInv => LineageComplete
  BY DEF LInv, LineageComplete
<1> QED
  BY <1>1, LifecycleInvariance, PTL

(* A record that licenses a change of a host is never made for a release    *)
(* that has not been built, signed, admitted, fetched and approved.         *)
THEOREM HostMutationIsLicensed == Spec => []HostMutationLicensed
<1>1. LInv => HostMutationLicensed
  BY DEF LInv, HostMutationLicensed
<1> QED
  BY <1>1, LifecycleInvariance, PTL

(* Every position has its type, and so has every record a caller holds.     *)
THEOREM LifecycleTypeCorrect == Spec => []TypeOK
<1>1. LInv => TypeOK
  BY DEF LInv
<1> QED
  BY <1>1, LifecycleInvariance, PTL

------------------------------------------------------------------------------
(* What a record says by itself, and in which direction it leads.           *)

LacksApproval(record) == record.approval_required /\ record.approval_ref = NoRef

Audits(record) ==
  /\ record.allowed => /\ record.missing = {} /\ ~LacksApproval(record)
                       /\ record.refusal_ref = NoRef
                       /\ record.to_state # "blocked"
  /\ ~record.allowed => record.to_state = "blocked" /\ ~record.host_mutation
  /\ record.refusal_ref = "approval-required" <=> LacksApproval(record)
  /\ record.refusal_ref = "missing-evidence"
       => record.missing # {} /\ ~LacksApproval(record)

LeadsOn(record) ==
  record.allowed => \/ record.to_state = record.from_state
                    \/ Rank(record.to_state) > Rank(record.from_state)

RecordsInv == \A c \in Callers : hand[c] # NoRecord => Audits(hand[c]) /\ LeadsOn(hand[c])

(* No rule of the table leads backwards; validate-token stays.              *)
LEMMA RuleLeadsOn ==
  ASSUME NEW rule \in TRANSITION_TABLE
  PROVE  rule.to_state = rule.from_state \/ Rank(rule.to_state) > Rank(rule.from_state)
<1>1. /\ Rank("draft") = 0 /\ Rank("resolved") = 1 /\ Rank("built") = 2
      /\ Rank("signed") = 3 /\ Rank("assigned") = 4 /\ Rank("planned") = 5
      /\ Rank("fetched") = 6 /\ Rank("loaded") = 7 /\ Rank("executed") = 8
      /\ Rank("attested") = 9 /\ Rank("compliant") = 10 /\ Rank("noncompliant") = 10
      /\ Rank("rollback-available") = 11 /\ Rank("rolled-back") = 12
  BY DEF Rank, NoState, PastBuild, PastSigning, PastAssignment, PastFetch, PastExecute,
     PastRollback
<1>2. CASE rule \in ConstructionLane \cup AssignmentLane
  BY <1>1, <1>2 DEF ConstructionLane, AssignmentLane, Rule
<1>3. CASE rule \in DeploymentLane
  BY <1>1, <1>3 DEF DeploymentLane, Rule
<1>4. CASE rule \in ComplianceLane \cup RollbackLane
  BY <1>1, <1>4 DEF ComplianceLane, RollbackLane, Rule
<1> QED
  BY <1>2, <1>3, <1>4 DEF TRANSITION_TABLE

(* A refusal says what was lacking, and claims nothing else.                *)
LEMMA RefusalAudits ==
  ASSUME NEW caller \in Callers, NEW request, NEW ref, NEW required, NEW needed, NEW approval,
         Refused(caller, Refusal(request, ref, required, needed, approval)),
         ref = "approval-required" <=> (needed /\ approval = NoRef),
         ref = "missing-evidence"  => Missing(required, request.proofs_present) # {}
  PROVE  \E record : /\ hand' = [hand EXCEPT ![caller] = record]
                     /\ Audits(record) /\ LeadsOn(record)
<1> DEFINE record == Refusal(request, ref, required, needed, approval)
<1>1. hand' = [hand EXCEPT ![caller] = record]
  BY DEF Refused
<1>2. Audits(record) /\ LeadsOn(record)
  BY DEF Refusal, Audits, LacksApproval, LeadsOn
<1> HIDE DEF record
<1> QED
  BY <1>1, <1>2

LEMMA AskMakesAuditable ==
  ASSUME NEW caller \in Callers, NEW request \in Requests, Ask(caller, request)
  PROVE  \E record : /\ hand' = [hand EXCEPT ![caller] = record]
                     /\ Audits(record) /\ LeadsOn(record)
<1>1. CASE RefuseBottom(caller, request)
  <2>1. Refused(caller, Refusal(request, "capability-bottom", {}, FALSE, NoRef))
    BY <1>1 DEF RefuseBottom
  <2> QED  BY <2>1, RefusalAudits
<1>2. CASE RefuseIllegal(caller, request)
  <2>1. Refused(caller, Refusal(request, "illegal-transition", {}, FALSE, NoRef))
    BY <1>2 DEF RefuseIllegal
  <2> QED  BY <2>1, RefusalAudits
<1>3. CASE RefuseUnapproved(caller, request)
  <2>1. PICK rule \in Rules(request) :
          Refused(caller, Refusal(request, "approval-required", rule.required_proofs,
                                  TRUE, NoRef))
    BY <1>3 DEF RefuseUnapproved
  <2> QED  BY <2>1, RefusalAudits
<1>4. CASE RefuseUnproven(caller, request)
  <2>1. PICK rule \in Rules(request) :
          /\ Approved(rule, request) /\ ~Proven(rule, request)
          /\ Refused(caller, Refusal(request, "missing-evidence", rule.required_proofs,
                                     rule.approval_required, request.approval_ref))
    BY <1>4 DEF RefuseUnproven
  <2>2. Missing(rule.required_proofs, request.proofs_present) # {}
    BY <2>1 DEF Proven
  <2>3. ~(rule.approval_required /\ request.approval_ref = NoRef)
    BY <2>1 DEF Approved
  <2> QED  BY <2>1, <2>2, <2>3, RefusalAudits
<1>5. CASE Allow(caller, request)
  <2>1. PICK rule \in Rules(request) :
          /\ Approved(rule, request) /\ Proven(rule, request)
          /\ hand' = [hand EXCEPT ![caller] =
               [from_state |-> current_state, to_state |-> rule.to_state,
                transition |-> rule.name, allowed |-> TRUE, refusal_ref |-> NoRef,
                required |-> rule.required_proofs, present |-> request.proofs_present,
                missing |-> Missing(rule.required_proofs, request.proofs_present),
                approval_required |-> rule.approval_required,
                approval_ref |-> request.approval_ref,
                host_mutation |-> rule.name \in HOST_MUTATING]]
    BY <1>5 DEF Allow
  <2>2. rule \in TRANSITION_TABLE /\ rule.from_state = current_state
    BY RulesFacts
  <2>3. rule.to_state # "blocked"
    BY <2>2, RuleTyped
  <2>4. rule.to_state = current_state \/ Rank(rule.to_state) > Rank(current_state)
    BY <2>2, RuleLeadsOn
  <2> DEFINE record ==
               [from_state |-> current_state, to_state |-> rule.to_state,
                transition |-> rule.name, allowed |-> TRUE, refusal_ref |-> NoRef,
                required |-> rule.required_proofs, present |-> request.proofs_present,
                missing |-> Missing(rule.required_proofs, request.proofs_present),
                approval_required |-> rule.approval_required,
                approval_ref |-> request.approval_ref,
                host_mutation |-> rule.name \in HOST_MUTATING]
  <2>5. Audits(record) /\ LeadsOn(record)
    BY <2>1, <2>3, <2>4 DEF Approved, Proven, Audits, LacksApproval, LeadsOn, NoRef
  <2>6. hand' = [hand EXCEPT ![caller] = record]
    BY <2>1
  <2> HIDE DEF record
  <2> QED
    BY <2>5, <2>6
<1> QED
  BY <1>1, <1>2, <1>3, <1>4, <1>5 DEF Ask

LEMMA RecordsKept ==
  ASSUME TypeOK, RecordsInv, [Next]_vars
  PROVE  RecordsInv'
<1>1. hand \in [Callers -> LifecycleStateRecord \cup {NoRecord}]
  BY DEF TypeOK
<1>2. ASSUME NEW caller \in Callers, NEW request \in Requests, Ask(caller, request)
      PROVE  RecordsInv'
  <2>1. PICK record : /\ hand' = [hand EXCEPT ![caller] = record]
                      /\ Audits(record) /\ LeadsOn(record)
    BY <1>2, AskMakesAuditable
  <2>2. ASSUME NEW c \in Callers, hand'[c] # NoRecord
        PROVE  Audits(hand'[c]) /\ LeadsOn(hand'[c])
    <3>1. CASE c = caller
      <4>1. hand'[c] = record
        BY <1>1, <2>1, <3>1
      <4> QED  BY <2>1, <4>1
    <3>2. CASE c # caller
      <4>1. hand'[c] = hand[c]
        BY <1>1, <2>1, <3>2
      <4> QED  BY <2>2, <4>1 DEF RecordsInv
    <3> QED  BY <3>1, <3>2
  <2> QED  BY <2>2 DEF RecordsInv
<1>3. ASSUME NEW caller \in Callers, Advance(caller) PROVE RecordsInv'
  <2>1. hand' = [hand EXCEPT ![caller] = NoRecord]
    BY <1>3 DEF Advance
  <2>2. ASSUME NEW c \in Callers, hand'[c] # NoRecord
        PROVE  Audits(hand'[c]) /\ LeadsOn(hand'[c])
    <3>1. hand'[c] = hand[c]
      BY <1>1, <2>1, <2>2
    <3> QED  BY <2>2, <3>1 DEF RecordsInv
  <2> QED  BY <2>2 DEF RecordsInv
<1>4. CASE UNCHANGED vars
  BY <1>4 DEF vars, RecordsInv
<1> QED
  BY <1>2, <1>3, <1>4 DEF Next

LEMMA RecordsInvariance == Spec => []RecordsInv
<1>1. Init => RecordsInv
  BY DEF Init, RecordsInv
<1>2. TypeOK /\ RecordsInv /\ [Next]_vars => RecordsInv'
  BY RecordsKept
<1> QED
  BY <1>1, <1>2, LifecycleTypeCorrect, PTL DEF Spec

(* A record tells by itself why it allows or refuses (apply_transition,     *)
(* lifecycle_state_machine.py:304-429): the first gate that failed, those   *)
(* before it having passed.                                                 *)
THEOREM RecordsAreAuditable == Spec => []RecordAuditable
<1>1. RecordsInv => RecordAuditable
  BY DEF RecordsInv, RecordAuditable, Audits, LacksApproval
<1> QED
  BY <1>1, RecordsInvariance, PTL

(* An object moves on along the lineage unless a caller uses a record made  *)
(* for another position (the table has no way back, 117-168).               *)
THEOREM ObjectsMoveOn == Spec => NeverBackwards
<1> DEFINE MovesOn == current_state' # current_state =>
       \/ Rank(current_state') > Rank(current_state)
       \/ \E c \in Callers : /\ hand[c].allowed /\ hand[c].to_state = current_state'
                            /\ hand[c].from_state # current_state
<1>1. RecordsInv /\ [Next]_vars => [MovesOn]_vars
  <2>1. ASSUME RecordsInv, NEW caller \in Callers, Advance(caller) PROVE MovesOn
    <3>1. hand[caller].allowed /\ current_state' = hand[caller].to_state
      BY <2>1 DEF Advance
    <3>2. hand[caller] # NoRecord
      BY <3>1 DEF NoRecord
    <3>3. LeadsOn(hand[caller])
      BY <2>1, <3>2 DEF RecordsInv
    <3> QED  BY <3>1, <3>3 DEF LeadsOn
  <2>2. ASSUME NEW caller \in Callers, NEW request \in Requests, Ask(caller, request)
        PROVE  MovesOn
    <3>1. current_state' = current_state
      BY <2>2 DEF Ask, RefuseBottom, RefuseIllegal, RefuseUnapproved, RefuseUnproven,
         Refused, Allow
    <3> QED  BY <3>1
  <2> QED  BY <2>1, <2>2 DEF Next
<1> QED
  BY <1>1, RecordsInvariance, PTL DEF Spec, NeverBackwards

------------------------------------------------------------------------------
(* The way back is in the table: from every state that a release on a host  *)
(* may be in, through rollback-available where it is not there yet.         *)
LEMMA TableLeadsBack == PastExecute \subseteq CanRollBack
<1> SUFFICES ASSUME NEW state \in PastExecute, NEW closed \in ClosedSets, state \in closed
             PROVE  "rolled-back" \in closed
  BY DEF CanRollBack, PastExecute, PastRollback, STATES
<1>1. ASSUME NEW r \in ComplianceLane \cup RollbackLane, r.from_state \in closed
      PROVE  r.to_state \in closed
  BY <1>1 DEF ClosedSets, TRANSITION_TABLE
<1>2. "rollback-available" \in closed => "rolled-back" \in closed
  <2> DEFINE r == Rule("rollback", "rollback-available", "rolled-back", TRUE, {})
  <2>1. r \in RollbackLane
    BY DEF RollbackLane
  <2> QED
    BY <1>1, <2>1 DEF Rule
<1>3. ASSUME NEW from \in {"compliant", "noncompliant", "executed"}, from \in closed
      PROVE  "rollback-available" \in closed
  <2> DEFINE r == Rule("mark-rollback-available", from, "rollback-available", FALSE, {})
  <2>1. r \in RollbackLane
    BY DEF RollbackLane
  <2> QED
    BY <1>1, <1>3, <2>1 DEF Rule
<1>4. "attested" \in closed => "compliant" \in closed
  <2> DEFINE r == Rule("evaluate-compliance", "attested", "compliant", FALSE, {})
  <2>1. r \in ComplianceLane
    BY DEF ComplianceLane
  <2> QED
    BY <1>1, <2>1 DEF Rule
<1> QED
  BY <1>2, <1>3, <1>4 DEF PastExecute, PastRollback

(* No record changes a host for a release that could not be rolled back     *)
(* from there, and none that has reached a host is ever where it cannot be. *)
THEOREM RollbackIsOpen == Spec => []RollbackStaysOpen
<1>1. HostMutationLicensed => RollbackStaysOpen
  BY TableLeadsBack DEF HostMutationLicensed, RollbackStaysOpen
<1> QED
  BY <1>1, HostMutationIsLicensed, PTL

==============================================================================
