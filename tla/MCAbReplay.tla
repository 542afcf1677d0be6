------------------------------ MODULE MCAbReplay ------------------------------
(***************************************************************************)
(* Slot documents a caller may hand to the commands, for TLC: pairs the    *)
(* constructor accepts although they break the contract, and others.       *)
(***************************************************************************)
EXTENDS AbReplay, MCPairs, TLC

CONSTANTS strict, relaxed   \* two versions of a probe's checks

MCChecks == {strict, relaxed}

Base == [s \in Slots |->
  IF s = "A"
  THEN [role |-> "active", state |-> "good", boot_priority |-> 15,
        tries_remaining |-> 0, successful |-> TRUE, currently_running |-> TRUE,
        payload_digest |-> d1, last_probe_verdict |-> "pass"]
  ELSE [role |-> "candidate", state |-> "good", boot_priority |-> 14,
        tries_remaining |-> 0, successful |-> TRUE, currently_running |-> FALSE,
        payload_digest |-> d2, last_probe_verdict |-> "none"]]

(* The contract's pair; both slots running, neither, or the candidate; an   *)
(* active slot the bootloader cannot select, one that is unbootable, and    *)
(* one without a digest.                                                    *)
MCSlots ==
  { Base,
    [Base EXCEPT !["B"].currently_running = TRUE],
    [Base EXCEPT !["A"].currently_running = FALSE],
    [Base EXCEPT !["A"].currently_running = FALSE, !["B"].currently_running = TRUE],
    [Base EXCEPT !["A"].boot_priority = 0],
    [Base EXCEPT !["A"].state = "unbootable"],
    [Base EXCEPT !["A"].payload_digest = NoDigest] }

(* Two active slots; an active slot that is not known to be good.           *)
MCRejected ==
  { [Base EXCEPT !["B"].role = "active"], [Base EXCEPT !["A"].successful = FALSE] }

MCSymmetry == Permutations(MCChecks)
==============================================================================
