-------------------------------- MODULE Rollback --------------------------------
(***************************************************************************)
(* Rolling a NixOS device back to an earlier generation: the planner       *)
(* (src/sourceos_boot/asahi_boot_chain.py), the executor                   *)
(* (rollback_executor.py) and the two commands that front them (cli.py).   *)
(*                                                                         *)
(* The planner looks at the device twice, first at the running system and  *)
(* then at the links of the profile, and names the generation to go to;    *)
(* the executor runs a shell command that does not take that name and      *)
(* decides anew.  Between any two of these steps the device may change: an *)
(* upgrade, a garbage collection, another system tried out, or the rest of *)
(* a rollback whose command the executor gave up waiting for.              *)
(*                                                                         *)
(* The device and the command are not part of this code.  They are         *)
(* modelled as the code uses them: numbered links to store paths, one of   *)
(* them the profile's, and a command that exits 0, or not, or not in time. *)
(***************************************************************************)
EXTENDS Integers, Sequences, FiniteSetsExt, Functions

CONSTANTS
  Paths,            \* store paths
  MaxGeneration     \* a bound on the generations that are ever installed

ASSUME MaxGenerationAssumption == MaxGeneration \in Nat \ {0}

None == [none |-> TRUE]

Generation == [number : 1..MaxGeneration, store_path : Paths]

(* A caller: a command of the command line, or a user of the library.  The  *)
(* command line plans for a chain that is in order and runs dry by default. *)
Calls ==
  { call \in [by : {"rollback plan", "rollback execute", "library"},
              dry_run : BOOLEAN, efi_vars_mutable : BOOLEAN] :
      call.by # "library" => ~call.efi_vars_mutable }

VARIABLES
  generations,      \* number -> store path, of the links that exist
  profile,          \* the generation that the system profile points to
  running,          \* what /run/current-system points to
  links_listed,     \* are the links entries of the directory the planner lists?
  late,             \* may a command that timed out still do its work?
  pc, call,         \* the caller: where it is, and what it called
  current_path,     \* what it read of /run/current-system
  plan,             \* AsahiRollbackPlan
  next_step,        \* RollbackExecutor.execute: the step it is at,
  step_results,     \* what became of the steps before it,
  overall_ok,
  outcome,          \* and the outcome it returned
  undisturbed       \* for the properties: the device is as it was before the plan

device == <<generations, profile, running>>
executor == <<next_step, step_results, overall_ok>>
vars == <<generations, profile, running, links_listed, late, pc, call, current_path, plan,
          next_step, step_results, overall_ok, outcome, undisturbed>>

AsahiRollbackPlan ==
  [efi_vars_mutable   : BOOLEAN,
   current_generation : Generation \cup {None},
   rollback_target    : Generation \cup {None},
   allowed            : BOOLEAN,
   steps              : {<<>>, <<"command">>, <<"command", "comment", "comment">>}]

TypeOK ==
  /\ DOMAIN generations \subseteq 1..MaxGeneration
  /\ \A n \in DOMAIN generations : generations[n] \in Paths
  /\ profile \in DOMAIN generations
  /\ running \in Paths
  /\ links_listed \in BOOLEAN /\ late \in BOOLEAN /\ undisturbed \in BOOLEAN
  /\ pc \in {"idle", "listing", "planned", "executing"}
  /\ call \in Calls \cup {None}
  /\ current_path \in Paths \cup {None}
  /\ plan \in AsahiRollbackPlan \cup {None}
  /\ next_step \in 1..4
  /\ step_results \in {<<>>} \cup { <<s>> : s \in {"ok", "failed", "timeout", "dry_run"} }
  /\ overall_ok \in BOOLEAN
  /\ outcome \in {"applied", "denied", "dry_run", "failed", "none"}

Init ==
  /\ \E path \in Paths : generations = [n \in {1} |-> path] /\ running = path
  /\ profile = 1
  /\ links_listed \in BOOLEAN
  /\ late = FALSE
  /\ pc = "idle" /\ call = None /\ current_path = None /\ plan = None
  /\ next_step = 1 /\ step_results = <<>> /\ overall_ok = TRUE
  /\ outcome = "none"
  /\ undisturbed = FALSE

------------------------------------------------------------------------------
(* The device.                                                              *)

Changed ==
  /\ undisturbed' = FALSE
  /\ UNCHANGED <<links_listed, pc, call, current_path, plan, executor, outcome>>

(* nixos-rebuild switch.                                                    *)
Switch(path) ==
  LET n == Max(DOMAIN generations) + 1 IN
  /\ n <= MaxGeneration
  /\ path # generations[profile]
  /\ generations' = [m \in DOMAIN generations \cup {n} |->
                       IF m = n THEN path ELSE generations[m]]
  /\ profile' = n
  /\ running' = path
  /\ UNCHANGED late
  /\ Changed

(* nixos-rebuild test, or another entry of the boot menu.                   *)
RunOther(path) ==
  /\ path # running
  /\ running' = path
  /\ UNCHANGED <<generations, profile, late>>
  /\ Changed

Collect(n) ==
  /\ n # profile
  /\ generations' = Restrict(generations, DOMAIN generations \ {n})
  /\ UNCHANGED <<profile, running, late>>
  /\ Changed

(* What nixos-rebuild switch --rollback does, all of it or a part: it moves *)
(* the profile to the generation before the profile's, then activates it.   *)
Earlier == { n \in DOMAIN generations : n < profile }

RolledBack ==
  /\ Earlier # {}
  /\ profile' = Max(Earlier)
  /\ running' = generations[profile']
  /\ UNCHANGED generations

HalfRolledBack ==
  \/ UNCHANGED device
  \/ RolledBack
  \/ /\ Earlier # {}
     /\ profile' = Max(Earlier)
     /\ UNCHANGED <<generations, running>>

(* The executor kills the shell at the timeout, not what it has started.    *)
LateRollback ==
  /\ late
  /\ RolledBack
  /\ late' = FALSE
  /\ Changed

------------------------------------------------------------------------------
(* The planner.                                                             *)

Denied ==
  [efi_vars_mutable |-> call.efi_vars_mutable, current_generation |-> None,
   rollback_target |-> None, allowed |-> FALSE, steps |-> <<>>]

(* plan_rollback validates the chain, then detect_generations resolves the  *)
(* current link ...                                                         *)
ReadCurrent(c) ==
  /\ pc = "idle"
  /\ call' = c
  /\ current_path' = running
  /\ pc' = "listing"
  /\ plan' = None
  /\ outcome' = "none"
  /\ undisturbed' = TRUE
  /\ UNCHANGED <<device, links_listed, late, executor>>

(* ... and only then lists the links.                                       *)
detect_generations ==
  IF links_listed
  THEN { [number |-> n, store_path |-> generations[n]] : n \in DOMAIN generations }
  ELSE {}

is_current(g) == g.store_path = current_path

First(gens) == IF gens = {} THEN None
               ELSE CHOOSE g \in gens : \A h \in gens : g.number <= h.number

(* The last of what is not current.  A mutant takes the first.              *)
RollbackTarget_Bug(gens) == First({ g \in gens : ~is_current(g) })
RollbackTarget(gens) ==
  LET prev_gens == { g \in gens : ~is_current(g) } IN
  IF prev_gens = {} THEN None
  ELSE CHOOSE g \in prev_gens : \A h \in prev_gens : h.number <= g.number

plan_rollback ==
  LET gens    == detect_generations
      current == First({ g \in gens : is_current(g) })
      target  == RollbackTarget(gens)
  IN  CASE call.efi_vars_mutable -> Denied
        [] ~call.efi_vars_mutable /\ gens = {} ->
             [Denied EXCEPT !.allowed = TRUE, !.steps = <<"command">>]
        [] ~call.efi_vars_mutable /\ gens # {} /\ target = None ->
             [Denied EXCEPT !.current_generation = current]
        [] OTHER ->
             [Denied EXCEPT !.current_generation = current, !.rollback_target = target,
                            !.allowed = TRUE,
                            !.steps = <<"command", "comment", "comment">>]

Plan ==
  /\ pc = "listing"
  /\ plan' = plan_rollback
  /\ current_path' = None
  /\ pc' = "planned"
  /\ UNCHANGED <<device, links_listed, late, call, executor, outcome, undisturbed>>

------------------------------------------------------------------------------
(* The command line.  Which of its exit codes a command returns is not      *)
(* modelled: a call that is over has an outcome or has none.                *)

CliReturns(command) ==
  /\ pc = "planned"
  /\ call.by = command
  /\ pc' = "idle"
  /\ UNCHANGED <<device, links_listed, late, call, current_path, plan, executor, outcome,
                 undisturbed>>

CliPlan == CliReturns("rollback plan")

(* RollbackExecutor is not imported: main catches the NameError.            *)
CliExecute == CliReturns("rollback execute")

------------------------------------------------------------------------------
(* RollbackExecutor.execute, as a user of the library calls it.             *)

(* A mutant: the list of results is that of the executor, not of the call.  *)
Execute_Bug ==
  /\ pc = "planned"
  /\ call.by = "library"
  /\ next_step' = 1 /\ overall_ok' = TRUE
  /\ \/ plan.allowed /\ pc' = "executing" /\ UNCHANGED outcome
     \/ ~plan.allowed /\ pc' = "idle" /\ outcome' = "denied"
  /\ UNCHANGED <<device, links_listed, late, call, current_path, plan, step_results,
                 undisturbed>>

Execute ==
  /\ pc = "planned"
  /\ call.by = "library"
  /\ next_step' = 1 /\ step_results' = <<>> /\ overall_ok' = TRUE
  /\ \/ plan.allowed /\ pc' = "executing" /\ UNCHANGED outcome
     \/ ~plan.allowed /\ pc' = "idle" /\ outcome' = "denied"
  /\ UNCHANGED <<device, links_listed, late, call, current_path, plan, undisturbed>>

AtStep(kind) == /\ pc = "executing"
                /\ next_step <= Len(plan.steps)
                /\ plan.steps[next_step] = kind

Record(status, ok) ==
  /\ step_results' = Append(step_results, status)
  /\ overall_ok' = (overall_ok /\ ok)
  /\ next_step' = next_step + 1
  /\ UNCHANGED <<links_listed, pc, call, current_path, plan, outcome>>

SkipComment ==
  /\ AtStep("comment")
  /\ next_step' = next_step + 1
  /\ UNCHANGED <<device, links_listed, late, pc, call, current_path, plan, step_results,
                 overall_ok, outcome, undisturbed>>

DryRunStep ==
  /\ AtStep("command")
  /\ call.dry_run
  /\ Record("dry_run", TRUE)
  /\ UNCHANGED <<device, late, undisturbed>>

(* A mutant: the command is run before the flag is looked at.               *)
Runs_Bug == AtStep("command")
Runs == AtStep("command") /\ ~call.dry_run

RunCommand ==
  /\ Runs
  /\ Record("ok", TRUE)
  /\ RolledBack
  /\ undisturbed' = FALSE
  /\ UNCHANGED late

CommandFails ==
  /\ Runs
  /\ Record("failed", FALSE)
  /\ HalfRolledBack
  /\ undisturbed' = (undisturbed /\ UNCHANGED device)
  /\ UNCHANGED late

(* A mutant: what did not answer in time is taken to have worked.  Another: *)
(* there is no timeout.                                                     *)
CommandTimesOut_Bug ==
  /\ Runs
  /\ Record("timeout", TRUE)
  /\ HalfRolledBack
  /\ undisturbed' = (undisturbed /\ UNCHANGED device)
  /\ late' \in {late, TRUE}

CommandTimesOut_Never == FALSE

CommandTimesOut ==
  /\ Runs
  /\ Record("timeout", FALSE)
  /\ HalfRolledBack
  /\ undisturbed' = (undisturbed /\ UNCHANGED device)
  /\ late' \in {late, TRUE}

Finish ==
  /\ pc = "executing"
  /\ next_step > Len(plan.steps)
  /\ outcome' = IF call.dry_run THEN "dry_run" ELSE IF overall_ok THEN "applied" ELSE "failed"
  /\ pc' = "idle"
  /\ next_step' = 1 /\ overall_ok' = TRUE
  /\ UNCHANGED <<device, links_listed, late, call, current_path, plan, step_results,
                 undisturbed>>

------------------------------------------------------------------------------
DeviceChange ==
  \/ \E path \in Paths : Switch(path) \/ RunOther(path)
  \/ \E n \in DOMAIN generations : Collect(n)
  \/ LateRollback

Answers == RunCommand \/ CommandFails

Caller ==
  \/ Plan \/ CliPlan \/ CliExecute
  \/ Execute \/ SkipComment \/ DryRunStep \/ CommandTimesOut \/ Finish

Next == DeviceChange \/ Answers \/ Caller \/ \E c \in Calls : ReadCurrent(c)

(* The caller runs on.  That the command ever answers is not assumed.       *)
Spec == Init /\ [][Next]_vars /\ WF_vars(Caller)

------------------------------------------------------------------------------
(* A device that is as an upgrade leaves it: it runs the generation of its  *)
(* profile, which is the last one, and no other holds the same system.      *)
InOrder ==
  /\ running = generations[profile]
  /\ \A n \in DOMAIN generations \ {profile} : n < profile /\ generations[n] # running

(* The plan names a generation and the command does not take its name: on a *)
(* device in order, which nothing has changed since the planner looked at   *)
(* it, a rollback nevertheless goes where the plan says (line 199 against   *)
(* line 214 of asahi_boot_chain.py), be it in time, in part or late.        *)
LandsOnTarget ==
  [][ ( /\ pc = "executing" /\ profile' < profile
        /\ undisturbed /\ InOrder /\ plan.rollback_target # None )
      => profile' = plan.rollback_target.number ]_vars

(* Nothing moves a device back but an execution that was asked for, of a    *)
(* plan that was allowed, for a chain whose EFI variables are not mutable,  *)
(* or what is left of one (rollback_executor.py:8-10, cli.py:276-277).      *)
OnlyOnRequest ==
  [][ profile' < profile =>
        \/ late
        \/ /\ pc = "executing" /\ call.by = "library" /\ ~call.dry_run
           /\ plan.allowed /\ ~plan.efi_vars_mutable ]_vars

(* Whoever reads only the result knows what was done: applied is said of a  *)
(* command that ran and answered 0 in time, failed of one that did not, and *)
(* neither of a dry run or a denial.                                        *)
ResultIsHonest ==
  /\ outcome = "applied" => step_results = <<"ok">>
  /\ outcome = "failed"  => step_results \in {<<"failed">>, <<"timeout">>}
  /\ outcome = "dry_run" => step_results = <<"dry_run">>
  /\ outcome = "denied"  => step_results = <<>> /\ ~plan.allowed

(* What is left of a call: planning, deciding, each line of the plan, and   *)
(* the result.                                                              *)
StepsLeft ==
  CASE pc = "idle"      -> 0
    [] pc = "executing" -> Len(plan.steps) + 2 - next_step
    [] pc = "planned"   -> 5
    [] pc = "listing"   -> 6

(* A call runs down: while one is under way, whatever its caller does uses  *)
(* up a step of it, a failure or a timeout no less than a success, nothing  *)
(* the device does meanwhile prolongs it, and until it is over it remains   *)
(* the call it was.                                                         *)
CallRunsDown ==
  [][pc # "idle" =>
       /\ call' = call
       /\ \/ StepsLeft' < StepsLeft
          \/ UNCHANGED <<pc, plan, executor>> /\ ~UNCHANGED <<device, late>>]_vars

(* A command that never answers does not hold its caller for ever.          *)
CallEnds == pc # "idle" ~> pc = "idle"

(* asahi_boot_chain.py:5 says that the plan describes how "to return to the *)
(* previous NixOS generation": on a device that does not change meanwhile,  *)
(* what it names comes before what it calls current.                        *)
TargetIsPrevious ==
  undisturbed /\ plan # None /\ plan.rollback_target # None /\ plan.current_generation # None
    => plan.rollback_target.number < plan.current_generation.number

(* cli.py:275 says of rollback execute that it will "execute the rollback   *)
(* plan (dry-run unless --execute)": it returns the outcome of a plan that  *)
(* is allowed, be it that of a dry run.                                     *)
ExecuteExecutes ==
  pc = "idle" /\ plan # None /\ call.by = "rollback execute" /\ plan.allowed
    => outcome # "none"
==============================================================================
