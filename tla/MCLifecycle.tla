------------------------------ MODULE MCLifecycle ------------------------------
(***************************************************************************)
(* Requests for TLC: every transition by name, with and without an         *)
(* approval, with all of the proofs or only one.                           *)
(***************************************************************************)
EXTENDS Lifecycle

CONSTANTS c1, c2

MCRequests(names, targets, proofs, capabilities) ==
  [transition_name : names,
   capability      : capabilities,
   to_state        : targets,
   proofs_present  : proofs,
   approval_ref    : Approvals \cup {NoRef}]

(* A target is asked for where there is a choice, and where there is none.  *)
MCAllRequests ==
  MCRequests(TRANSITIONS, {NoState}, {PROOFS, {"signatureRef"}}, {"cap:operator"})
  \cup MCRequests({"evaluate-compliance", "execute"}, {"compliant", "noncompliant"},
                  {PROOFS}, {"cap:operator"})
  \cup MCRequests({"execute"}, {NoState}, {PROOFS}, {BOTTOM_CAPABILITY})

MCMinted == {NoState, "draft"}
================================================================================
