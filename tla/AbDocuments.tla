------------------------------ MODULE AbDocuments ------------------------------
(***************************************************************************)
(* The slot documents of the A/B contract: how a SlotState is rendered as  *)
(* one and read back (to_slot_documents and slot_from_document in          *)
(* src/sourceos_boot/ab_update_machine.py).  A field that is None or empty *)
(* is left out, and a field that is absent is read as None.                *)
(***************************************************************************)
EXTENDS AbSlots

(* The fields of a slot document that are left out of it.                   *)
Omits(slot, field) ==
  \/ field = "payloadDigest" /\ slot.payload_digest \in {NoDigest, Unset}
  \/ field = "lastProbeVerdict" /\ slot.last_probe_verdict = "none"

ToSlotDocument(slot) ==
  LET fields ==
    [role |-> slot.role, state |-> slot.state,
     bootPriority |-> slot.boot_priority, triesRemaining |-> slot.tries_remaining,
     successful |-> slot.successful, currentlyRunning |-> slot.currently_running,
     payloadDigest |-> slot.payload_digest, lastProbeVerdict |-> slot.last_probe_verdict]
  IN [field \in {f \in DOMAIN fields : ~Omits(slot, f)} |-> fields[field]]

FieldOr(doc, field, absent) == IF field \in DOMAIN doc THEN doc[field] ELSE absent

(* A mutant: the running flag is not read back.                             *)
SlotFromDocument_Bug(doc) ==
  [role |-> doc["role"], state |-> doc["state"],
   boot_priority |-> doc["bootPriority"], tries_remaining |-> doc["triesRemaining"],
   successful |-> doc["successful"], currently_running |-> FALSE,
   payload_digest |-> FieldOr(doc, "payloadDigest", NoDigest),
   last_probe_verdict |-> FieldOr(doc, "lastProbeVerdict", "none")]

SlotFromDocument(doc) ==
  [role |-> doc["role"], state |-> doc["state"],
   boot_priority |-> doc["bootPriority"], tries_remaining |-> doc["triesRemaining"],
   successful |-> doc["successful"], currently_running |-> doc["currentlyRunning"],
   payload_digest |-> FieldOr(doc, "payloadDigest", NoDigest),
   last_probe_verdict |-> FieldOr(doc, "lastProbeVerdict", "none")]

Documents(ss) == [s \in Slots |-> ToSlotDocument(ss[s])]
ReadSlots(docs) == [s \in Slots |-> SlotFromDocument(docs[s])]
==============================================================================
