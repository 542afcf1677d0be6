------------------------------ MODULE MCAbTarget ------------------------------
(***************************************************************************)
(* Targets as they leave the factory, for TLC; MCPairs has those that      *)
(* earlier updates may have left.                                          *)
(***************************************************************************)
EXTENDS AbTarget, MCPairs

Fresh(label) ==
  [s \in Slots |->
     IF s = label
     THEN [role |-> "active", state |-> "good", boot_priority |-> 15,
           tries_remaining |-> 0, successful |-> TRUE, currently_running |-> TRUE,
           payload_digest |-> d1, last_probe_verdict |-> "pass"]
     ELSE [role |-> "candidate", state |-> "empty", boot_priority |-> 0,
           tries_remaining |-> 0, successful |-> FALSE, currently_running |-> FALSE,
           payload_digest |-> NoDigest, last_probe_verdict |-> "none"]]

MCTargets == { Fresh(label) : label \in Slots }
==============================================================================
