------------------------------- MODULE MCPairs -------------------------------
(***************************************************************************)
(* Small targets for TLC.  A pair of slots is given by an active slot and  *)
(* a candidate, under both labellings.                                     *)
(***************************************************************************)
EXTENDS AbSlots

CONSTANTS d1, d2

MCDigests == {d1, d2}

(* The values a field may start with are those that tell the handlers'      *)
(* behaviours apart: priorities at, just below and off the ceiling, a       *)
(* budget left over or not, payloads equal to the next one or not.          *)
Candidates(states, priorities, tries, digests) ==
  [role : {"candidate"}, state : states, boot_priority : priorities,
   tries_remaining : tries, successful : BOOLEAN, currently_running : BOOLEAN,
   payload_digest : digests, last_probe_verdict : {"none"}]

Actives(states, priorities, marks, digests) ==
  [role : {"active"}, state : states, boot_priority : priorities,
   tries_remaining : {0}, successful : marks, currently_running : BOOLEAN,
   payload_digest : digests, last_probe_verdict : {"pass"}]

Pairs(actives, candidates) ==
  { [s \in Slots |-> IF s = label THEN a ELSE c] :
      label \in Slots, a \in actives, c \in candidates }

(* Targets that obey the contract, with whatever an interrupted transaction *)
(* may have left on the candidate.  A slot marked successful has a payload  *)
(* that is completely written.                                              *)
MCConformantPairs ==
  { ss \in Pairs(Actives({"good"}, {1, 14, 15}, {TRUE}, {d1}),
                 Candidates(SLOT_STATES, {0, 14, 15}, {0, 2}, {NoDigest, d1, d2})) :
      /\ ContractPair(ss)
      /\ \A s \in Slots : ss[s].state \in {"writing", "empty"} => ~ss[s].successful }
==============================================================================
