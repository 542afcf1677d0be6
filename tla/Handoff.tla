------------------------------- MODULE Handoff -------------------------------
(***************************************************************************)
(* The handoff from nlboot to a BootReleaseSet.  The command adapt-nlboot  *)
(* (src/sourceos_boot/cli.py, adapter.py) turns a manifest and a token     *)
(* into an authorization, a patch for a BootReleaseSet and an evidence     *)
(* envelope.  A release service outside this repository fetches the        *)
(* artifacts the patch refers to, makes a BootReleaseSet of the patch, and *)
(* src/sourceos_boot/validate_boot_release_set.py judges it.  The command  *)
(* may be called with any manifest and any token, and with the same token  *)
(* for several boot transactions; releases are composed, validated and     *)
(* composed anew at any time.                                              *)
(*                                                                         *)
(* A reference to an artifact is the release set it belongs to and its     *)
(* role.  The canonical hash of a manifest is the manifest itself.  Of the *)
(* parts of a BootReleaseSet that the patch has no part in, only whether   *)
(* the validator finds them well-formed is kept.                           *)
(***************************************************************************)
EXTENDS Integers, FiniteSets

CONSTANTS
  Releases,       \* release sets a manifest may name
  Modes,          \* boot modes a manifest may name
  Roles,          \* roles of the artifacts a manifest may have
  Tokens,         \* tokens, by token_id
  Correlations,   \* correlation ids callers use
  Absent,         \* a field that is missing, None or empty
  MaxCalls        \* bound: outputs of adapt-nlboot

CHANNELS == {"live", "installer", "recovery", "rollback", "rescue"}

VARIABLES
  outputs,     \* what the command has printed so far
  measured,    \* references whose content has been fetched and hashed
  release,     \* the BootReleaseSet that was composed, if any
  accepted     \* the validator has passed it

handoffVars == <<outputs, measured, release, accepted>>

Manifests == [base_release_set_ref : Releases \cup {Absent},
              boot_mode : Modes \cup {Absent},
              artifacts : SUBSET Roles]

TokenDocuments == [token_id : Tokens \cup {Absent}]

NoRelease == [channels |-> {}, artifacts |-> {}, well_formed |-> FALSE]

HandoffInit ==
  /\ outputs = {}
  /\ measured = {}
  /\ release = NoRelease
  /\ accepted = FALSE

------------------------------------------------------------------------------
(* The adapter.                                                             *)

(* A mutant: the correlation id is that of the token.                       *)
authorization_from_nlboot_token_Bug(token, correlation_id) ==
  [correlationId |-> token.token_id, tokenId |-> token.token_id]

authorization_from_nlboot_token(token, correlation_id) ==
  [correlationId |-> correlation_id, tokenId |-> token.token_id]

ArtifactRefs(manifest) ==
  { [release |-> manifest.base_release_set_ref, role |-> role] : role \in manifest.artifacts }

(* A mutant, and what examples/nlboot/adapted-output.example.json shows:    *)
(* artifacts with digests of zeros.                                         *)
boot_release_set_patch_from_nlboot_manifest_Bug(manifest) ==
  [releaseSetRef |-> manifest.base_release_set_ref,
   channels |-> {manifest.boot_mode},
   artifacts |-> { [uri |-> ref, sha256 |-> "zeros"] : ref \in ArtifactRefs(manifest) },
   artifactRefsPendingDigest |-> {}]

(* The manifest has no digests, so its artifacts stay references.           *)
boot_release_set_patch_from_nlboot_manifest(manifest) ==
  [releaseSetRef |-> manifest.base_release_set_ref,
   channels |-> {manifest.boot_mode},
   artifacts |-> {},
   artifactRefsPendingDigest |-> ArtifactRefs(manifest)]

build_evidence(authorization, selected_channel, boot_mode, manifest_hash, verification_result) ==
  [correlationId |-> authorization.correlationId,
   selectedChannel |-> selected_channel,
   bootMode |-> boot_mode,
   manifestHash |-> manifest_hash,
   verificationResult |-> verification_result]

build_evidence_from_nlboot_manifest(authorization, manifest, verification_result) ==
  build_evidence(authorization, manifest.boot_mode, manifest.boot_mode,
                 manifest, verification_result)

Required(value) == value # Absent

(* adapt-nlboot: a field that is missing is a KeyError, and then nothing is *)
(* printed.                                                                 *)
adapt_nlboot(manifest, token, correlation_id, result) ==
  LET authorization == authorization_from_nlboot_token(token, correlation_id) IN
  /\ Cardinality(outputs) < MaxCalls
  /\ \A value \in {token.token_id, manifest.base_release_set_ref, manifest.boot_mode} :
       Required(value)
  /\ outputs' = outputs \cup
       {[asked_for |-> correlation_id,
         authorization |-> authorization,
         patch |-> boot_release_set_patch_from_nlboot_manifest(manifest),
         evidence |-> build_evidence_from_nlboot_manifest(authorization, manifest, result)]}
  /\ UNCHANGED <<measured, release, accepted>>

------------------------------------------------------------------------------
(* The release service, outside the repository.                             *)

Fetch ==
  /\ \E output \in outputs : \E ref \in output.patch.artifactRefsPendingDigest :
       measured' = measured \cup {ref}
  /\ UNCHANGED <<outputs, release, accepted>>

(* The artifacts of the patch are taken as they are.  A pending reference   *)
(* becomes an artifact with the digest of what was fetched, or is listed    *)
(* without one, or is left out.                                             *)
Compose ==
  /\ \E output \in outputs, well_formed \in BOOLEAN :
       \E listed \in SUBSET output.patch.artifactRefsPendingDigest :
         release' =
           [channels  |-> output.patch.channels,
            artifacts |-> output.patch.artifacts \cup
              { [uri |-> ref, sha256 |-> IF ref \in measured THEN "measured" ELSE "none"] :
                  ref \in listed },
            well_formed |-> well_formed]
  /\ accepted' = FALSE
  /\ UNCHANGED <<outputs, measured>>

------------------------------------------------------------------------------
(* The validator.                                                           *)

require_enum_list(values, allowed) == values # {} /\ values \subseteq allowed

validate_document(doc) ==
  /\ doc.well_formed
  /\ require_enum_list(doc.channels, CHANNELS)
  /\ doc.artifacts # {}
  /\ \A artifact \in doc.artifacts : artifact.sha256 # "none"

Validate ==
  /\ accepted' = validate_document(release)
  /\ UNCHANGED <<outputs, measured, release>>

HandoffNext ==
  \/ \E manifest \in Manifests, token \in TokenDocuments, correlation_id \in Correlations,
        result \in {"pass", "fail", "unknown"} :
       adapt_nlboot(manifest, token, correlation_id, result)
  \/ Fetch \/ Compose
  \/ Validate

HandoffSpec == HandoffInit /\ [][HandoffNext]_handoffVars

------------------------------------------------------------------------------
(* "A fabricated digest on a boot artifact is the worst possible lie to     *)
(* tell" (adapter.py:159): whichever manifests the command was called with  *)
(* and whatever was left out when the release was composed, a               *)
(* BootReleaseSet made of a patch passes only if the content of every one   *)
(* of its artifacts has been fetched and measured.                          *)
AcceptedDigestsAreMeasured ==
  accepted => release.artifacts # {}
              /\ \A artifact \in release.artifacts : artifact.uri \in measured

(* "A token reused across transactions must not silently merge them"        *)
(* (adapter.py:142): what was printed for callers with different            *)
(* correlation ids can be told apart by the authorization as well as by the *)
(* evidence, and the two of one call belong together.                       *)
TransactionsNotMerged ==
  \A one, two \in outputs :
    one.asked_for = two.asked_for
      <=> one.authorization.correlationId = two.evidence.correlationId

(* docs/NLBOOT_INTEGRATION.md:45-50, "Boot mode mapping".                   *)
DocumentedChannel(mode) ==
  CASE mode = "installer" -> "installer"
    [] mode = "recovery"  -> "recovery"
    [] mode \in {"ephemeral", "bootstrap"} -> "live"

(* The channel of a patch and of the evidence is the one the table of the   *)
(* integration guide gives for the manifest's boot mode.                    *)
ChannelIsMapped ==
  \A output \in outputs :
    /\ output.patch.channels = {DocumentedChannel(output.evidence.bootMode)}
    /\ output.evidence.selectedChannel = DocumentedChannel(output.evidence.bootMode)
==============================================================================
