# A verification project for sourceos-boot

TLA+ specifications of the decision-making parts of `sourceos-boot`, the TLC
configurations that model-check them on small instances, and theorems about them
with proofs that TLAPS checks. Paths below are those of the repository
(`src/sourceos_boot/...`, `schemas/...`).

## The system

`sourceos-boot` is a Python package without services of its own. Most of it decides
and records; other programs act. Two of its parts are state machines, one drives a
shell command, the rest check or convert documents.

| Component | Code | State | Operations | Status |
|---|---|---|---|---|
| A/B update machine | `ab_update_machine.py`, `schemas/ab-update/` | two slots, phase, digests of the transaction, ledger of trial boots | nine events; emit and read slot documents | modelled |
| Release lifecycle machine | `lifecycle_state_machine.py` | none of its own: the caller holds an object's position | `apply_transition` | modelled |
| Asahi rollback planner | `asahi_boot_chain.py` | none; reads the profile links of a device | `plan_rollback` | modelled |
| Rollback executor | `rollback_executor.py` | the loop over a plan's steps | `execute` | modelled |
| Command line | `cli.py` | one process per call | `rollback plan/execute`, `ab-update plan/replay`, `adapt-nlboot`, `plan-control-plane` | modelled |
| Control-plane planner | `control_plane.py` | none | check a BootReleaseSet, derive gates | modelled |
| NLBoot adapter | `adapter.py` | none | convert manifests and tokens | modelled |
| Boot release set validator | `validate_boot_release_set.py` | none | check a document | modelled; most fields as one flag |
| Trust-chain evidence validator | `validate_trust_chain_boot_verification.py` | none | check a record | modelled; the schema as one flag |
| Manifest declaration checker | `tools/validate_manifest_declarations.py` | none; reads a checkout | check a commit | modelled |
| Schemas, examples, documents | `schemas/`, `docs/` | - | - | what the code above relies on |
| Tests and CI | `tests/` | - | - | not modelled |

How they interact. The slot documents are what passes between one A/B transaction
and the next: the machine emits them, something stores them, and the next machine is
built from them alone. The bootloader, the health probe and two watchdogs act on the
target and report to whoever drives the machine, in no guaranteed order. The
lifecycle machine returns records; the caller moves its object when it reads one that
allows. The planner reads a device, the executor runs the command of a plan on it,
and between the two the device belongs to everybody. The command line fronts all of
these, one process per call. The stateless tools are stations of a document: an nlboot
manifest becomes a patch, a release service outside the repository makes a
BootReleaseSet of it and a validator judges that; evidence is filled in, ruled on and
validated; a control-plane document is revised and planned; a commit is checked before
it is merged. The tools keep nothing, but the document changes between two of their
calls, and that is what is modelled of them.

What is hard: histories (a slot's role depends on every transaction before), crashes
between two events (only the slots survive), reports that come late, twice or in
contradiction, a budget that is counted in one place and judged in another, decisions
used after they have become stale, a command that outlives its timeout. The complete
list, with the lines where it bites and the properties that look at it, is `hazards`
in `PROJECT.json`.

What makes each part correct:

- *A/B machine*: the payload that worked is never lost; what the bootloader selects is
  what the machine means; a slot becomes good only by a recorded pass on the very
  payload asked for; trial boots are bounded and accounted for; the settled document
  is true.
- *Lifecycle*: no sequence of legal steps goes round a gate, however callers
  interleave; a release on a host can always still be rolled back; a record can be
  audited by itself.
- *Rollback*: nothing rolls back unasked; on an orderly device the command lands where
  the plan says; the result is honest; every call returns.
- *Replay*: the log printed explains the documents printed; the gate named is one
  somebody re-read; a promotion rests on what the events show.
- *Documents*: no digest is accepted that nobody measured; transactions stay apart; one
  evidence has one ruling; gates cover the policy they stand beside.
- *Declarations*: the list of exceptions is exactly the debt, after every commit.

## Modules

| Module | Models |
|---|---|
| `AbSlots` | the data of the A/B contract: slots, phases, transition table, and each handler's effect on the pair of slots as a function |
| `AbUpdate` | one `AbUpdateMachine`: one action per event, the assertions, the replies, and the environment (media, clock, hand-over) |
| `AbDocuments` | slot documents: how a slot is rendered and read back |
| `AbTarget` | a target over its lifetime: `to_slot_documents` and `machine_from_slot_documents` between transactions, a crash between any two events |
| `AbContract` | the abstract specification: what an A/B update promises, without tables, priorities or tries |
| `AbReplay` | `ab-update plan` and `ab-update replay` on top of `AbUpdate`, with the probe's file and its editor |
| `AbUpdateProofs` | the inductive invariant of `AbUpdate`, and theorems |
| `AbRefinementProofs` | `AbUpdate` implements `AbContract`; promotion is earned |
| `AbReplayProofs` | what the commands print, on any documents the constructor takes |
| `AbTargetProofs` | what holds over the whole life of a target, restarts included, and that it implements `AbContract` |
| `Lifecycle` | `apply_transition` and the callers who use its records |
| `LifecycleProofs` | no shortcut to a host, auditable records, no way backwards, a way to a rollback |
| `Rollback` | planner, executor and rollback commands, against a device that changes |
| `RollbackProofs` | typing, honest results, rollbacks on request only and onto the target |
| `Handoff` | `adapt-nlboot`, a release service (external) and the BootReleaseSet validator |
| `TrustEvidence` | the trust-chain validator, on a record that is filled in and ruled on |
| `ControlPlanePlan` | `plan-control-plane`, on a document that is revised |
| `Documents` | the three above side by side, for one run |
| `DocumentsProofs` | measured digests, separate transactions, one ruling, covering gates |
| `Declarations` | the ratchet on the manifest's declarations, on a branch it guards |
| `DeclarationsProofs` | the list is the debt |
| `MC...` | values for TLC; `MCPairs` has the pairs of slots shared by two of them |

Definitions whose names end in `_Bug` (or a word like `_Unverified`, `_Stored`) are
plausible defects of the definition that follows them. No specification uses them;
they exist so that it can be checked that each property would notice.

### How `AbUpdate` corresponds to the code

The variables are the fields of the machine: `slots` (two `SlotState` records),
`phase` (`_phase`), `from_slot`/`to_slot`, `preserved_digest`, `candidate_digest`,
`attempts`, `rollback_reason`. `reply` is what the last call returned; its outcome
`raised` stands for `InvariantViolation`, which leaves the fields as the handler had
already assigned them, so a caller that catches it goes on from there. Three
variables belong to the environment: `installed` is what the medium of a slot really
holds (a payload, nothing, or `Partial`), `now` the clock, `handed_at` the time of the
last hand-over by the bootloader.

`Offer` is `_offer` with its terminal check, the table and the guards; each event
(`Begin`, `WriteComplete`, ...) takes the rule that admits it, does what the handler
does and ends in `Conclude`, which is `_assert_invariants` and the reply. `FailAttempt`
is `_fail_attempt`, shared by `ProbeFail` and `WatchdogExpired`; the latter zeroes the
tries first, as the code does, and only while on trial. `Refuse` is any event that no
rule admits. Any event may be offered at any time.

`AbTarget` adds one action, `Rebuild`: at any point between two events a new machine
is built from the documents of the slots. `ToSlotDocument` and `SlotFromDocument`
(`AbDocuments`) model the omission of fields that are None. `Construct` is the
constructor, shared with the commands.

`AbContract` knows an outcome, a fallback, what the slots hold, a goal, the number of
boots and whether one is under way. `AbUpdate` maps the active slot to the fallback,
`installed` to the store, and counts the attempts recorded plus the one under way.

`AbContract!ContractLife` strings transactions together: `Forget` begins the next one,
whether the last has ended or was only abandoned, and touches neither the fallback nor
what the slots hold.

### How `AbReplay` corresponds to the code

A process is `Load`ed (`_load_ab_update_machine`) if the digest recomputed from the
probe's checks is the one recorded and the constructor takes the documents, and has
`failed` otherwise: `main` answers every exception with exit code 2 and prints nothing.
It then runs any events (`ReplayWriteComplete`, `ReplayOther`, `ReplayRefused`), each
the action of `AbUpdate` that the table `_AB_UPDATE_EVENTS` calls, and notes the result
in `log`; a raised assertion, an unknown event or one without its digest ends it
(`ReplayBadEvent`). `Emit` prints; `transaction` is what `to_transaction_document` then
says. `ab_update_plan` is the other command: one `begin`, printed at once.
`EditProbe` and `PinProbe` are the people who edit the gate. The hash of the checks is
the checks themselves, since only equality is asked of it. `gate` is a history variable:
it remembers the checks that were in the file a process read, and nothing looks at it
but the property about them.

### How the document modules correspond to the code

`Handoff`: `adapt_nlboot` and the three methods of `SourceOSBootAdapter` it calls keep
their names. A missing field is a `KeyError`, and then nothing is printed. `Fetch` and
`Compose` are a release service the repository does not contain; the assumption is
that it takes the patch's artifacts as they are, and turns a pending reference into an
artifact with the digest of what it fetched, or lists it without one, or leaves it out.
`Validate` is `validate_boot_release_set.py`; fields the patch has no part in are
`well_formed` or not.

`TrustEvidence`: `validate_verified`, `validate_blocked` and `validate_file` keep their
names; `validate_schema` is a flag of the record. `Verify` changes evidence one field
at a time and `Decide` replaces decision, effects and remediation. `ruled` collects
the decisions accepted for the evidence as it stands.

`ControlPlanePlan`: a flag of the document is a JSON value, and `is True`, `is False`
and plain truth are told apart, because checks and gates use different ones.
`Plannable` is the conjunction of all checks, `verification_gates` what is derived
after them.

`Declarations`: a text is the set of items written into it; `Within` says which item's
text is part of another's, because the tool looks for substrings. `Missing` has the
three directions of the code. `Merge` is a build that refuses a commit when the tool
exits with 1; nothing in the repository runs the tool, so that build is an assumption.

### How `Lifecycle` corresponds to the code

`apply_transition` makes four checks and the first that fails refuses: bottom
capability, legality, approval, evidence. Each is an action (`RefuseBottom`, ...,
`Allow`), the record is `Refusal(...)` or the record in `Allow`. `Advance` is the
caller's part, "reading toState of an allowed record". Between `Ask` and `Advance`
anything may happen. `proven` and `approved` remember what was shown and approved, for
the properties. A proof is the name of its kind; a reference is present or not.

### How `Rollback` corresponds to the code

`ReadCurrent` and `Plan` are the two reads of `detect_generations` and the decision of
`plan_rollback`. `CliPlan` and `CliExecute` are the commands (a call that is over has an
outcome or has none; exit codes are left out); `Execute`, `SkipComment`, `DryRunStep`,
`RunCommand`, `CommandFails`, `CommandTimesOut` and `Finish` are
`RollbackExecutor.execute` for a user of the library. The device (`Switch`, `RunOther`,
`Collect`, `RolledBack`, `LateRollback`) is external: it is modelled as the code uses
it, a profile of numbered links and a command that moves the profile to the generation
before the profile's. A command that fails or times out may have done all, half or none
of its work; after a timeout the rest may come later, because only the shell is killed.
A current link that is no symlink is left out: it yields the same plan as a system that
no generation holds.

`links_listed` covers two layouts. The tests put `system-<N>-link` inside the directory
`<profiles>/system`; where they lie beside the link `system`, the planner lists a
directory that has none and takes the branch "no NixOS generations detected".

## What the runs check

Passing runs:

| Run | Instance | Shows |
|---|---|---|
| `ab_target` | three machines one after the other, 2 digests, budget 3, a clock of two moments, every conforming pair over priorities {0, 14, 15} (active: {1, 14, 15}), tries {0, 2} and both labellings; with fairness | typing; assertions never raise; slots and transactions conform; good payloads are installed; selector and machine agree; a fallback that is named is running; budget and ledger add up; the active slot is never written; promotion is earned; payloads are handed over; no crash point costs the fallback; selection stays unique; a slot that can be selected and is no longer being written holds what its document names; the boot cycle uses up its budget; `AbContract` is implemented across restarts; a boot loop ends |
| `ab_replay` | seven pairs, one of them conforming, and two rejected ones; two versions of a probe and an incomplete one; budget 2; one refusal per replay | the log explains the outcome; what is printed keeps the fallback on any pair the constructor takes, and conforms where the documents read did; the gate named is the one that was read and pinned; promotion is shown |
| `lifecycle` | two callers with stale records, every transition | lineage complete; host mutation licensed; records auditable; rollback stays open; backwards only by a stale record |
| `rollback` | three generations, three systems, with fairness | lands on target; only on request; honest results; every call returns |
| `documents` | two releases, two modes, two roles, one token, two transactions; all evidence records; all documents two revisions away from a good one | accepted digests are measured; transactions are not merged; evidence decides; gates cover the policy |
| `declarations` | two items, one within the other, two files, any sequence of commits | the list is the debt |

Runs that exhibit a disagreement between code and documentation (details in
`findings`):

| Run | Shows |
|---|---|
| `ab_started_at` | `startedAt` is the time of the verdict, not of the hand-over |
| `ab_target_writing` | after a crash while armed, the next transaction's slot is being written at the highest priority, with tries left |
| `lifecycle_mint` | None is documented as the start of a mint, but no rule starts there |
| `rollback_previous` | the plan "to return to the previous generation" may name a newer one |
| `rollback_cli` | `rollback execute` always ends in a NameError, exit code 2 |
| `handoff_channel` | the adapter emits `ephemeral` and `bootstrap` as channels, which the guide maps to `live` |

One more disagreement needs no counterexample, since every output for a manifest with
artifacts shows it. `docs/NLBOOT_INTEGRATION.md:74` calls
`examples/nlboot/adapted-output.example.json` the "Expected `NlbootAdapterOutput`" of
its fixtures; that file lists kernel, initrd and rootfs as artifacts with a `sha256` of
zeros. The adapter emits no artifacts but `artifactRefsPendingDigest`, on purpose
(`adapter.py:157-174`). The code is right and the file is stale: an adapter that
printed what it shows is the mutant `boot_release_set_patch_from_nlboot_manifest_Bug`,
and breaks `AcceptedDigestsAreMeasured`.

### Bounds and why they are enough

- *Digests*: two. Handlers only compare digests with the one asked for; two give
  "equal to the payload being installed" and "different" for each slot.
- *Priorities*: 0 (unselectable), 1, 14 and 15, the values the handlers assign and the
  ceiling they compare with. *Tries*: whatever is left over, 0 or 2.
- *MaxAttempts*: 3 shows a first, a middle, a last and an exhausted attempt; 2 for
  replays. The theorems cover 1 to 7, the range the constructor accepts.
- *MaxClock*: 1 suffices to tell two moments apart; 0 where no property reads times.
- *MaxTransactions*: two rebuilds after the first machine. Since the first machine
  starts from every small conforming pair, with any leftovers on the candidate, more
  rebuilds meet no other kind of slots; two show a promotion or an abandoned candidate
  met by the next machine and what that leaves to the one after.
- *Replays*: `MaxRefused` bounds the refused events in one log, which change nothing but
  the log. The pairs break the contract in each way that a handler or an assertion
  looks at: who is running, a priority of 0, an unbootable active slot, one without
  a digest.
- *Documents*: two releases and two roles, so that one artifact of a release can be
  measured and another not, and two releases mixed up; two calls, since the property
  is about pairs; two revisions, since a gate and a check read at most two fields
  together. Evidence is unbounded: every combination of its fields is reached.
- *Declarations*: two items in one relation of substrings, two files so that one
  mention can go while another stays; sequences of commits are unbounded.
- *Lifecycle*: no bound on steps; the state space is finite. Requests carry all proofs or
  just one, the smallest set that tells "all required" from "some required". A
  request names a target state only for `evaluate-compliance`, which has two, and `execute`,
  where naming either is a refusal; the bottom capability, refused before the transition
  is looked at, is tried with `execute` alone.
- *Rollback*: `MaxGeneration` bounds what is ever installed. Three are needed for the
  first and the last of the generations that are not current to differ, and three
  systems for no two of them to be the same.

### Fairness

`AbTarget!TargetFairSpec` assumes that a boot of an armed candidate that stays possible
happens (the selector of `UpdateSlot.json` takes the highest priority at the next
reset) and that a trial gets a verdict: `UpdateHealthProbe.json` gives the probe a
deadline and makes both watchdogs mandatory. Nothing is assumed of operators, of writes
or of arming, and a process may end at any time: `BootLoopEnds` then holds because the
next machine starts idle. `Rollback!Spec` assumes that the caller's process runs on, and nothing of
the command it waits for. `Lifecycle`, the documents and the
declarations have no liveness: nobody has to ask.

## What is proved

All theorems hold for every value of the constants that the named assumptions allow.
Those of `AbUpdate` assume `DigestsAssumption`, `MaxAttemptsAssumption` (1..7, what the
constructor accepts), `InitialSlotsAssumption`, `MaxClockAssumption`, and name as a
hypothesis of their own that the pair the machine is built on obeys `UpdateSlot.json`
(`ContractTarget`); without it `NeverRaises` is false: the pairs of
`ab_replay` that only the constructor accepts make assertions raise.

*The inductive invariant of `AbUpdate`* (`IInv`). The properties alone are not
inductive: that arming never ties needs the priorities a phase implies, that promotion
leaves a conforming pair needs the candidate's digest to be recorded, that the budget
adds up needs to know what the tries are in each phase. `IInv` says, beside typing and
`ContractPair`, what each phase fixes: the roles of `from_slot` and `to_slot`, the
preserved digest, priorities and tries when armed, the length of the ledger, what the
medium holds, and how reason and phase fit. One lemma per handler shows what it makes
of a conforming pair; one lemma per event shows that it keeps `IInv`. From it follow
`TypeCorrect`, `AssertionsHold`, `SlotsStayConforming`, `BudgetAddsUp`,
`TransactionsConform`, `SelectorAlwaysAgrees`, `BootsAreJudged` and, as an action
property, `ActiveSlotIsNeverWritten`. `BootsAreJudged` rests on two lemmas about the
table: no two rules for one event and phase have guards that hold together
(`TableDetermined`), and a boot of an armed candidate or a verdict on a trial has a
rule whatever the tries are that `IInv` allows there (`DueEvents`).

*Refinement* (`AbRefinementProofs`). `ImplementsContract`: the initial states map to
the contract's, and under `IInv` every step is a step of the contract or a stutter.
`PromotionIsEarned` uses the same facts.

*A target's life* (`AbTargetProofs`). A restart forgets everything but the slots, so
`IInv` has to survive being read back: `SlotFromDocument` undoes `ToSlotDocument` on
every pair of slots, since the fields it omits are those whose default it restores, and
a machine rebuilt from them starts in `IInv` (`SlotRoundTrip`, `ConstructInvariant`).
The properties of one machine then hold of the whole life (`TargetStaysSound`). Others
need more. `AttemptLedger` is not inductive without what the entries say in each phase
(`LedgerInv`). `PayloadIsHandedOver` and `GoodPayloadStaysInstalled` use that only a
promotion moves the active slot and only a begun transaction writes, and then to the
other slot. `SelectionRemainsUnique` uses that no new tie arises where no slot becomes
selectable (`NoNewTie`); in the phases where one does, `IInv` fixes the priorities.
`SelectableIsInstalled` uses that a transaction marks its slot as being written before
it records a digest, and that the mark goes only when the digest read back was the right
one, or together with the priority; once a machine is past writing it follows from
`IInv` (`SelectableSettled`). `BootCycleRunsDown` has a variant, twice the tries left
and one for the trial under way, which every boot and every verdict decreases and no
event increases. `TargetImplementsContract` adds that a restart is the contract's
`Forget`.

*Lifecycle* (`LifecycleProofs`). `LineageComplete` is not inductive, because `Advance`
trusts a record made earlier. `LInv` adds that every record in a hand is licensed by
what has been shown up to now, which never shrinks. Then `RuleLicenses` shows that each
rule takes a licence for its source to one for its target. `RecordsInv` says of the
records that they can be audited and lead on; `RecordAuditable` and `NeverBackwards`
follow from it, the latter because a record for the present position leads on from it.

*Documents* (`DocumentsProofs`). That a release was accepted says nothing of its
artifacts by itself; the invariant adds that patches carry no digests and that a
composed digest was measured, which measuring more does not undo. A ruling that was
accepted ties the evidence down until it changes. The gates need that the document is
well-typed, since any revision may come before the next plan.

*Declarations* (`DeclarationsProofs`). What is merged has nothing missing in the three
directions, and that alone makes the list of exceptions equal to the debt.

*Rollback* (`RollbackProofs`, under `MaxGenerationAssumption`: at least one
generation). A result is honest only if the loop over the steps kept its
books, so the inductive invariant has four parts beside typing: `Control`, what call
and plan there are at each point of the caller, with `PlanIsSound` for what the planner
may have handed out; `Progress`, how far the loop is and what `step_results` and
`overall_ok` say there; `ResultIsHonest`; and `Seen`, what the planner's two reads still
say of a device nobody has disturbed since. `ResultHonest` and `TypeCorrect` are parts
of it. `RollsBackOnlyOnRequest` needs that whoever executes is the library with an
allowed plan (`Control`). `RollbackLandsOnTarget` needs `Seen`: the target is the last
generation that does not hold the running system (`TargetLemma`, from the extremes of a
set of numbers), and on a device in order, where the current one is the newest, that is
the one a rollback of the profile goes to. `CallsRunDown` has the lines of the plan still
to come as its variant; a step of the device that leaves it alone changes the device
(`DeviceReallyChanges`), so that no step of the caller can hide as one of these.

*Replay* (`AbReplayProofs`). `IInv` of `AbUpdate` rests on the contract, which slot
documents from a file need not obey. `ReplayInv` uses instead what `_assert_invariants`
has checked: a machine that has not raised is either untouched, and then the pair the
constructor took, or `Underway`, and then `AssertInvariants` holds of it as the last
handler left it. What has to be added is little: that roles stay as they are while a
transaction is open, that a settled one leaves the fallback a priority, and that the
documents read are those in the file (`RoundTrip`, here for pairs of any kind, under
`RejectedSlotsAssumption`, which says no more than their type). Each event keeps this
if it does not raise (`BeginSurvives`, ...); one that raises ends the process.
`LogExplainsOutcome` speaks of the printed log alone and is not inductive; `LogInv` says
at every entry that the log chains (`ChainGrows`) and that the trials concluded in it
are the attempts of the ledger by number (`CountsGrow`). `ShownInv` and `FilesInv` carry
the two others: from the write report on, the digest it showed is the candidate's, and
a digest in the probe's file was once put there by somebody for the checks it names,
so that a machine, whose digest was recomputed and compared, names checks that were
read and had been pinned (`GateInv`).
`ConformingStaysConforming` goes back to `IInv`: what a process does to its machine is
an event of the machine (`DrivenIsNext`), and a machine built on a conforming pair
starts in `IInv` whatever is on the media (`ConstructInvariant`).

*The way back* (`TableLeadsBack` in `LifecycleProofs`). Reachability in the table is
stated by closed sets: a set of states that no rule leads out of and that holds a state
of a release on a host holds `rolled-back`. With `HostMutationIsLicensed` it gives
`RollbackIsOpen`.

Only model-checked: liveness (`BootLoopEnds`, `CallEnds`), and the disagreements, whose
runs end in a counterexample. Of liveness what can be said without fairness is proved:
the variant decreases (`BootCycleRunsDown`, `CallsRunDown`) and a due boot or verdict is
never refused (`BootsAreJudged`). That a step which is due is also taken needs fairness
and ENABLED, which are out of the prover's reach, and stays with TLC. The statements of
`CallsRunDown` and `BootsAreJudged` are in no cfg: the runs check the liveness they are
the safe part of.

## Observations

Not findings, since nothing in the repository says otherwise, or a matter of reading:

- `begin` writes the slot in role candidate. After a crash during a trial that slot is
  the one running.
- `InvariantViolation` does not latch. The machine that raised accepts further events.
- `UpdateTransaction.json` says `attempts` is empty "only while the payload is still
  being written"; it is empty while ready and armed, too. It says that rolled-back
  covers a single-attempt policy; the code settles it as refused.
- `triesRemainingAfter` is 0 after `reboot-to-fallback`, however many were left.
- Two callers of one lifecycle object may both hold allowed records; the later
  `Advance` may move the object backwards. The code has no compare-and-swap, so
  `NeverBackwards` leaves that case out.
- The header of `lifecycle_state_machine.py` mentions "supersede"; there is no such
  transition.
- The executor's docstring says it will not execute if `efiVarsMutable` is true. It
  does not look at it; it is the planner that denies such a plan.
- Planning reads the running system first and the links afterwards. A plan made
  across an upgrade may name the system that now runs as its target.
- `begin` records the digest before anything is written. After a failed write the
  document of the unbootable slot still names the payload, which `UpdateSlot.json:135`
  calls the "payload installed in this slot". A slot that can be selected does hold it,
once it is no longer being written (`SelectableHoldsPayload`).
- A replay stamps the events with its own time, and an edit of the probe followed by a
  new digest is accepted by a later replay of the same log.
- `validate_trust_chain_boot_verification.py` has no rules beyond the schema for
  review_required, and none for `rollback_allowed`, `selected_release_set` or the
  rollback posture; its walk of the schema ignores `pattern`, `minLength` and
  `minItems`.
- `adapt-nlboot` accepts the result "unknown" and any boot mode; both have values the
  trust-chain enums do not. It does not compare the release set of the token with that
  of the manifest, nor look at the token's expiry, and its result is "pass" unless
  another is given.
- `NLBOOT_COMPATIBILITY.md` names views that do not exist.
- A control-plane plan shares the objects of the document it was made from.
- The manifest declaration tool is run by nothing in the repository. A mention counts
  as an implementation wherever it stands, in documentation or within a longer name;
  `policyClasses` is not among the keys it checks; without a manifest it passes.

## Not modelled, and the plan

Left out of the modelled components: URNs, versions, wording, times of opening and
settling, subprocess output, parsing of link names and arguments, reading of files,
JSON and git, the two request envelopes of the adapter that nothing calls, the walk of
the trust-chain schema, and every check of a field no property tells from the next
(one flag per part). They decide only whether a document is refused as malformed. Of
the schemas and documents, what describes wire formats alone. Tests and CI are no
behaviour of the program.

Done in this order, by importance: `AbSlots`, `AbUpdate`, `AbContract`, `AbTarget`, the
proofs about them, `Lifecycle` with its proofs, `Rollback`, `AbReplay`, the document
modules and the declarations with their proofs, the proofs of `Rollback` and of
`AbReplay`. Left: `Rollback` with a second caller, once something in the repository
plans and executes in different processes.
