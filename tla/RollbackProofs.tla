----------------------------- MODULE RollbackProofs -----------------------------
(***************************************************************************)
(* What holds of Rollback for every set of store paths and every number of *)
(* generations, with proofs for TLAPS.                                     *)
(***************************************************************************)
EXTENDS Rollback, WellFoundedInduction, TLAPS

(* A plan that is allowed has its command, and only a chain whose EFI       *)
(* variables are not mutable gets one; a plan that names a generation is    *)
(* allowed.                                                                 *)
PlanIsSound ==
  /\ plan.allowed => /\ ~plan.efi_vars_mutable
                     /\ plan.steps \in {<<"command">>, <<"command", "comment", "comment">>}
  /\ plan.rollback_target # None => plan.allowed

(* The caller between its steps: it has a call and, once it has planned, a  *)
(* plan, and it executes only what it may.                                  *)
Control ==
  /\ pc # "idle" => call \in Calls /\ outcome = "none"
  /\ pc = "listing" => current_path \in Paths /\ plan = None
  /\ pc \in {"planned", "executing"} => plan \in AsahiRollbackPlan /\ PlanIsSound
  /\ pc = "executing" => call.by = "library" /\ plan.allowed

(* The loop over the steps: what the results and overall_ok say at each.    *)
BeforeCommand == next_step = 1 /\ step_results = <<>> /\ overall_ok

AfterCommand ==
  /\ next_step \in 2..4
  /\ \E status \in {"ok", "failed", "timeout", "dry_run"} :
       /\ step_results = <<status>>
       /\ status = "dry_run" <=> call.dry_run
       /\ overall_ok <=> status \in {"ok", "dry_run"}

Progress ==
  pc = "executing" =>
    /\ BeforeCommand \/ AfterCommand
    /\ next_step <= Len(plan.steps) + 1

(* While the device is as the planner saw it, the target of the plan is the *)
(* last of the generations that do not hold the running system.             *)
IsLastOther(n) ==
  /\ n \in DOMAIN generations
  /\ generations[n] # running
  /\ \A m \in DOMAIN generations : generations[m] # running => m <= n

Seen ==
  undisturbed =>
    /\ pc = "listing" => current_path = running
    /\ pc \in {"planned", "executing"} /\ plan.rollback_target # None
         => IsLastOther(plan.rollback_target.number)

IInv == TypeOK /\ Control /\ Progress /\ ResultIsHonest /\ Seen

------------------------------------------------------------------------------
(* The extremes of a set of generation numbers.                             *)
LEMMA LeastExists ==
  ASSUME NEW S \in SUBSET Nat, S # {}
  PROVE  \E m \in S : \A n \in S : m <= n
<1>1. PICK m \in S : \A n \in S : ~(<<n, m>> \in OpToRel(<, Nat))
  BY NatLessThanWellFounded, WFMin
<1>2. \A n \in S : ~(n < m)
  BY <1>1 DEF OpToRel
<1> QED
  BY <1>2

LEMMA GreatestExists ==
  ASSUME NEW N \in Nat, NEW S \in SUBSET (1..N), S # {}
  PROVE  \E m \in S : \A n \in S : n <= m
<1> DEFINE T == { N - n : n \in S }
<1>1. PICK s \in S : TRUE
  OBVIOUS
<1>2. N - s \in T
  OBVIOUS
<1>3. \A n \in S : n \in 1..N /\ N - n \in Nat
  OBVIOUS
<1>4. T \in SUBSET Nat /\ T # {}
  BY <1>2, <1>3
<1>5. PICK t \in T : \A u \in T : t <= u
  BY <1>4, LeastExists
<1>6. PICK m \in S : t = N - m
  OBVIOUS
<1>7. \A n \in S : N - m <= N - n
  BY <1>5, <1>6
<1> QED
  BY <1>3, <1>7

LEMMA MaxIs ==
  ASSUME NEW S \in SUBSET Nat, NEW m \in S, \A n \in S : n <= m
  PROVE  Max(S) = m
<1> DEFINE greatest == Max(S)
<1>1. \A n \in S : m >= n
  OBVIOUS
<1>2. greatest \in S /\ \A n \in S : greatest >= n
  BY <1>1 DEF Max
<1> HIDE DEF greatest
<1>3. greatest >= m /\ greatest <= m /\ greatest \in Nat /\ m \in Nat
  BY <1>2
<1>4. greatest = m
  BY <1>3
<1> QED
  BY <1>4 DEF greatest

LEMMA NoneIsNone ==
  None \notin Generation /\ None \notin AsahiRollbackPlan /\ None \notin Calls
BY DEF None, Generation, AsahiRollbackPlan, Calls

(* First is the one of the least number, and RollbackTarget the one of the  *)
(* greatest among those that are not current.                               *)
LEMMA FirstLemma ==
  ASSUME NEW gens \in SUBSET Generation
  PROVE  First(gens) \in gens \cup {None}
<1>1. CASE gens = {}
  BY <1>1 DEF First
<1>2. CASE gens # {}
  <2> DEFINE numbers == { g.number : g \in gens }
  <2>1. numbers \in SUBSET Nat /\ numbers # {}
    BY <1>2 DEF Generation
  <2>2. PICK n \in numbers : \A m \in numbers : n <= m
    BY <2>1, LeastExists
  <2>3. \E g \in gens : \A h \in gens : g.number <= h.number
    BY <2>2
  <2> QED
    BY <1>2, <2>3 DEF First
<1> QED
  BY <1>1, <1>2

LEMMA TargetLemma ==
  ASSUME MaxGeneration \in Nat, NEW gens \in SUBSET Generation, RollbackTarget(gens) # None
  PROVE  LET target == RollbackTarget(gens) IN
         /\ target \in gens
         /\ ~is_current(target)
         /\ \A g \in gens : ~is_current(g) => g.number <= target.number
<1> DEFINE others  == { g \in gens : ~is_current(g) }
           numbers == { g.number : g \in others }
<1>1. others # {}
  BY DEF RollbackTarget
<1>2. numbers \in SUBSET (1..MaxGeneration) /\ numbers # {}
  BY <1>1 DEF Generation
<1>3. PICK n \in numbers : \A m \in numbers : m <= n
  BY <1>2, GreatestExists
<1>4. \E g \in others : \A h \in others : h.number <= g.number
  BY <1>3
<1>5. RollbackTarget(gens) = CHOOSE g \in others : \A h \in others : h.number <= g.number
  BY <1>1 DEF RollbackTarget
<1> HIDE DEF others
<1>6. /\ RollbackTarget(gens) \in others
      /\ \A h \in others : h.number <= RollbackTarget(gens).number
  BY <1>4, <1>5
<1> QED
  BY <1>6 DEF others

(* The planner: its plan is sound, and the generation it names is the last  *)
(* of those it saw that do not hold what it took for the current system.    *)
LEMMA PlanLemma ==
  ASSUME TypeOK, call \in Calls, current_path \in Paths
  PROVE  /\ plan_rollback \in AsahiRollbackPlan
         /\ plan_rollback.allowed =>
              /\ ~plan_rollback.efi_vars_mutable
              /\ plan_rollback.steps \in {<<"command">>, <<"command", "comment", "comment">>}
         /\ plan_rollback.rollback_target # None =>
              /\ plan_rollback.allowed
              /\ LET n == plan_rollback.rollback_target.number IN
                 /\ n \in DOMAIN generations
                 /\ generations[n] # current_path
                 /\ \A m \in DOMAIN generations : generations[m] # current_path => m <= n
<1> DEFINE gens    == detect_generations
           current == First({ g \in gens : is_current(g) })
           target  == RollbackTarget(gens)
<1>1. gens \in SUBSET Generation
  BY DEF TypeOK, detect_generations, Generation
<1>2. current \in Generation \cup {None}
  BY <1>1, FirstLemma
<1>3. target # None => target \in Generation
  BY <1>1, TargetLemma, MaxGenerationAssumption
<1>4. call.efi_vars_mutable \in BOOLEAN
  BY DEF Calls
<1>5. target # None =>
        /\ target.number \in DOMAIN generations
        /\ generations[target.number] # current_path
        /\ \A m \in DOMAIN generations : generations[m] # current_path => m <= target.number
  <2> SUFFICES ASSUME target # None
               PROVE  /\ target.number \in DOMAIN generations
                      /\ generations[target.number] # current_path
                      /\ \A m \in DOMAIN generations :
                            generations[m] # current_path => m <= target.number
    OBVIOUS
  <2>1. /\ target \in gens /\ ~is_current(target)
        /\ \A g \in gens : ~is_current(g) => g.number <= target.number
    BY <1>1, TargetLemma, MaxGenerationAssumption
  <2>2. gens = { [number |-> n, store_path |-> generations[n]] : n \in DOMAIN generations }
    BY <2>1 DEF detect_generations
  <2> HIDE DEF gens, target
  <2>3. PICK n \in DOMAIN generations :
          target = [number |-> n, store_path |-> generations[n]]
    BY <2>1, <2>2
  <2>4. target.number = n /\ target.store_path = generations[n]
    BY <2>3
  <2>5. ASSUME NEW m \in DOMAIN generations, generations[m] # current_path
        PROVE  m <= n
    <3> DEFINE g == [number |-> m, store_path |-> generations[m]]
    <3>1. g \in gens /\ ~is_current(g)
      BY <2>2, <2>5 DEF is_current
    <3> QED
      BY <2>1, <2>4, <3>1
  <2> QED
    BY <2>1, <2>4, <2>5 DEF is_current
<1> HIDE DEF gens, current, target
<1>6. CASE call.efi_vars_mutable
  <2>1. plan_rollback =
          [efi_vars_mutable |-> TRUE, current_generation |-> None,
           rollback_target |-> None, allowed |-> FALSE, steps |-> <<>>]
    BY <1>4, <1>6 DEF plan_rollback, Denied, gens, current, target
  <2> QED
    BY <1>2, <2>1 DEF AsahiRollbackPlan
<1>7. CASE ~call.efi_vars_mutable /\ gens = {}
  <2>1. plan_rollback =
          [efi_vars_mutable |-> FALSE, current_generation |-> None,
           rollback_target |-> None, allowed |-> TRUE, steps |-> <<"command">>]
    BY <1>4, <1>7 DEF plan_rollback, Denied, gens, current, target
  <2> QED
    BY <1>2, <2>1 DEF AsahiRollbackPlan
<1>8. CASE ~call.efi_vars_mutable /\ gens # {} /\ target = None
  <2>1. plan_rollback =
          [efi_vars_mutable |-> FALSE, current_generation |-> current,
           rollback_target |-> None, allowed |-> FALSE, steps |-> <<>>]
    BY <1>4, <1>8 DEF plan_rollback, Denied, gens, current, target
  <2> QED
    BY <1>2, <2>1 DEF AsahiRollbackPlan
<1>9. CASE ~call.efi_vars_mutable /\ gens # {} /\ target # None
  <2>1. plan_rollback =
          [efi_vars_mutable |-> FALSE, current_generation |-> current,
           rollback_target |-> target, allowed |-> TRUE,
           steps |-> <<"command", "comment", "comment">>]
    BY <1>4, <1>9 DEF plan_rollback, Denied, gens, current, target
  <2> QED
    BY <1>2, <1>3, <1>5, <1>9, <2>1 DEF AsahiRollbackPlan
<1> QED
  BY <1>4, <1>6, <1>7, <1>8, <1>9

------------------------------------------------------------------------------
(* The device, which any step of its own leaves well formed.                *)
DeviceOK ==
  /\ DOMAIN generations \subseteq 1..MaxGeneration
  /\ \A n \in DOMAIN generations : generations[n] \in Paths
  /\ profile \in DOMAIN generations
  /\ running \in Paths

LEMMA RolledBackLemma ==
  ASSUME DeviceOK, RolledBack
  PROVE  /\ DeviceOK'
         /\ profile' \in Earlier /\ \A n \in Earlier : n <= profile'
<1>1. Earlier \in SUBSET (1..MaxGeneration) /\ Earlier # {}
  BY DEF DeviceOK, RolledBack, Earlier
<1>2. PICK m \in Earlier : \A n \in Earlier : n <= m
  BY <1>1, GreatestExists, MaxGenerationAssumption
<1>3. Max(Earlier) = m
  BY <1>1, <1>2, MaxIs
<1>4. profile' = m
  BY <1>3 DEF RolledBack
<1> QED
  BY <1>2, <1>4 DEF DeviceOK, RolledBack, Earlier

LEMMA HalfRolledBackLemma ==
  ASSUME DeviceOK, HalfRolledBack
  PROVE  /\ DeviceOK'
         /\ \/ profile' = profile
            \/ profile' \in Earlier /\ \A n \in Earlier : n <= profile'
<1>1. CASE UNCHANGED device
  BY <1>1 DEF DeviceOK, device
<1>2. CASE RolledBack
  BY <1>2, RolledBackLemma
<1>3. CASE Earlier # {} /\ profile' = Max(Earlier) /\ UNCHANGED <<generations, running>>
  <2>1. Earlier \in SUBSET (1..MaxGeneration)
    BY DEF DeviceOK, Earlier
  <2>2. PICK m \in Earlier : \A n \in Earlier : n <= m
    BY <1>3, <2>1, GreatestExists, MaxGenerationAssumption
  <2>3. Max(Earlier) = m
    BY <2>1, <2>2, MaxIs
  <2> QED
    BY <1>3, <2>2, <2>3 DEF DeviceOK, Earlier
<1> QED
  BY <1>1, <1>2, <1>3 DEF HalfRolledBack

LEMMA DeviceChangeLemma ==
  ASSUME DeviceOK, late \in BOOLEAN, DeviceChange
  PROVE  DeviceOK' /\ late' \in BOOLEAN /\ Changed /\ (late \/ profile' >= profile)
<1>1. ASSUME NEW path \in Paths, Switch(path)
      PROVE  DeviceOK' /\ late' = late /\ Changed /\ profile' >= profile
  <2> DEFINE n == Max(DOMAIN generations) + 1
  <2>1. PICK m \in DOMAIN generations : \A k \in DOMAIN generations : k <= m
    BY GreatestExists, MaxGenerationAssumption DEF DeviceOK
  <2>2. Max(DOMAIN generations) = m
    BY <2>1, MaxIs DEF DeviceOK
  <2>3. n \in 1..MaxGeneration /\ n >= profile
    BY <1>1, <2>1, <2>2, MaxGenerationAssumption DEF Switch, DeviceOK
  <2>4. /\ generations' = [k \in DOMAIN generations \cup {n} |->
                             IF k = n THEN path ELSE generations[k]]
        /\ profile' = n /\ running' = path /\ late' = late /\ Changed
    BY <1>1 DEF Switch
  <2> HIDE DEF n
  <2> QED
    BY <2>3, <2>4 DEF DeviceOK
<1>2. ASSUME NEW path \in Paths, RunOther(path)
      PROVE  DeviceOK' /\ late' = late /\ Changed /\ profile' >= profile
  BY <1>2, MaxGenerationAssumption DEF RunOther, DeviceOK
<1>3. ASSUME NEW n \in DOMAIN generations, Collect(n)
      PROVE  DeviceOK' /\ late' = late /\ Changed /\ profile' >= profile
  BY <1>3, MaxGenerationAssumption DEF Collect, DeviceOK, Restrict
<1>4. CASE LateRollback
  BY <1>4, RolledBackLemma DEF LateRollback
<1> QED
  BY <1>1, <1>2, <1>3, <1>4 DEF DeviceChange

------------------------------------------------------------------------------
(* The conjuncts of the invariant that speak of the caller alone, and those *)
(* that speak of the device.                                                *)
CallerOK ==
  /\ links_listed \in BOOLEAN
  /\ pc \in {"idle", "listing", "planned", "executing"}
  /\ call \in Calls \cup {None}
  /\ current_path \in Paths \cup {None}
  /\ plan \in AsahiRollbackPlan \cup {None}
  /\ next_step \in 1..4
  /\ step_results \in {<<>>} \cup { <<s>> : s \in {"ok", "failed", "timeout", "dry_run"} }
  /\ overall_ok \in BOOLEAN
  /\ outcome \in {"applied", "denied", "dry_run", "failed", "none"}
  /\ Control
  /\ Progress
  /\ ResultIsHonest

LEMMA IInvParts ==
  IInv <=> DeviceOK /\ late \in BOOLEAN /\ undisturbed \in BOOLEAN /\ CallerOK /\ Seen
BY DEF IInv, TypeOK, DeviceOK, CallerOK

(* What the caller keeps stays in order.                                    *)
LEMMA CallerKept ==
  ASSUME CallerOK, UNCHANGED <<links_listed, pc, call, current_path, plan, executor, outcome>>
  PROVE  CallerOK'
BY DEF CallerOK, Control, PlanIsSound, Progress, BeforeCommand, AfterCommand, ResultIsHonest,
       executor

LEMMA InitInv == Init => IInv
<1> SUFFICES ASSUME Init PROVE IInv
  OBVIOUS
<1>1. DeviceOK
  BY MaxGenerationAssumption DEF Init, DeviceOK
<1>2. CallerOK
  BY DEF Init, CallerOK, Control, Progress, ResultIsHonest
<1>3. late \in BOOLEAN /\ undisturbed \in BOOLEAN /\ Seen
  BY DEF Init, Seen
<1> QED
  BY <1>1, <1>2, <1>3, IInvParts

(* The plan of an execution: its first step is the command, and the only    *)
(* one.                                                                     *)
LEMMA StepsLemma ==
  ASSUME CallerOK, pc = "executing"
  PROVE  /\ \/ plan.steps = <<"command">> /\ Len(plan.steps) = 1
            \/ plan.steps = <<"command", "comment", "comment">> /\ Len(plan.steps) = 3
         /\ AtStep("command") => BeforeCommand
         /\ AtStep("comment") => AfterCommand
<1>1. \/ plan.steps = <<"command">>
      \/ plan.steps = <<"command", "comment", "comment">>
  BY DEF CallerOK, Control, PlanIsSound
<1>2. BeforeCommand \/ AfterCommand
  BY DEF CallerOK, Progress
<1>3. CASE plan.steps = <<"command">>
  BY <1>2, <1>3 DEF AtStep, BeforeCommand, AfterCommand
<1>4. CASE plan.steps = <<"command", "comment", "comment">>
  <2>1. Len(plan.steps) = 3 /\ plan.steps[1] = "command"
    BY <1>4
  <2>2. \A i \in 2..3 : plan.steps[i] = "comment"
    BY <1>4
  <2> QED
    BY <1>2, <1>4, <2>1, <2>2 DEF AtStep, BeforeCommand, AfterCommand
<1> QED
  BY <1>1, <1>3, <1>4

LEMMA RecordLemma ==
  ASSUME CallerOK, AtStep("command"),
         NEW status \in {"ok", "failed", "timeout", "dry_run"},
         status = "dry_run" <=> call.dry_run,
         Record(status, status \in {"ok", "dry_run"})
  PROVE  CallerOK'
<1>1. pc = "executing" /\ BeforeCommand /\ Len(plan.steps) >= 1
  BY StepsLemma DEF AtStep
<1>2. /\ step_results' = <<status>>
      /\ overall_ok' = (status \in {"ok", "dry_run"})
      /\ next_step' = 2
      /\ UNCHANGED <<links_listed, pc, call, current_path, plan, outcome>>
  BY <1>1 DEF Record, BeforeCommand
<1>3. Control'
  BY <1>2 DEF CallerOK, Control, PlanIsSound
<1>4. Len(plan.steps) \in Nat
  BY <1>1, StepsLemma
<1>5. Progress'
  <2>1. next_step' \in 2..4
    BY <1>2
  <2>2. (status = "dry_run" <=> call'.dry_run) /\ (overall_ok' <=> status \in {"ok", "dry_run"})
    BY <1>2
  <2>3. AfterCommand'
    BY <1>2, <2>1, <2>2, Zenon DEF AfterCommand
  <2> QED
    BY <1>1, <1>2, <1>4, <2>3 DEF Progress
<1>6. ResultIsHonest'
  BY <1>1, <1>2 DEF CallerOK, Control, ResultIsHonest
<1> QED
  BY <1>2, <1>3, <1>5, <1>6 DEF CallerOK

(* What the command does to the device, while it is run or later.           *)
LEMMA CommandLemma ==
  ASSUME IInv, late' \in BOOLEAN, Runs, HalfRolledBack,
         \E status \in {"ok", "failed", "timeout"} : Record(status, status = "ok"),
         ~undisturbed' \/ (undisturbed /\ UNCHANGED device)
  PROVE  /\ DeviceOK' /\ CallerOK' /\ Seen'
<1>1. DeviceOK /\ CallerOK /\ Seen
  BY IInvParts
<1>2. DeviceOK'
  BY <1>1, HalfRolledBackLemma
<1>3. PICK status \in {"ok", "failed", "timeout"} : Record(status, status = "ok")
  OBVIOUS
<1>4. Record(status, status \in {"ok", "dry_run"}) /\ status # "dry_run" /\ ~call.dry_run
  <2>1. (status = "ok") = (status \in {"ok", "dry_run"})
    BY <1>3
  <2> QED
    BY <1>3, <2>1 DEF Runs
<1>5. CallerOK'
  BY <1>1, <1>4, RecordLemma DEF Runs
<1>6. Seen'
  BY <1>1, <1>3 DEF Seen, Record, device, IsLastOther
<1> QED
  BY <1>2, <1>5, <1>6

LEMMA ReadCurrentInv ==
  ASSUME IInv, NEW c \in Calls, ReadCurrent(c)
  PROVE  IInv'
<1>1. DeviceOK /\ CallerOK
  BY IInvParts
<1>2. DeviceOK'
  BY <1>1 DEF DeviceOK, ReadCurrent, device
<1>3. CallerOK'
  <2>1. Control' /\ Progress' /\ ResultIsHonest'
    BY <1>1 DEF DeviceOK, ReadCurrent, Control, Progress, ResultIsHonest
  <2> QED
    BY <1>1, <2>1 DEF CallerOK, DeviceOK, ReadCurrent, executor
<1>4. Seen' /\ late' \in BOOLEAN /\ undisturbed' \in BOOLEAN
  BY IInvParts DEF ReadCurrent, Seen, device
<1> QED
  BY <1>2, <1>3, <1>4 DEF IInv, TypeOK, DeviceOK, CallerOK

LEMMA PlanInv ==
  ASSUME IInv, Plan
  PROVE  IInv'
<1>1. TypeOK /\ DeviceOK /\ CallerOK /\ Seen /\ Control
  BY IInvParts DEF IInv
<1>2. call \in Calls /\ current_path \in Paths /\ outcome = "none"
  BY <1>1 DEF Plan, Control
<1>3. DeviceOK' /\ late' \in BOOLEAN /\ undisturbed' \in BOOLEAN
  BY <1>1, IInvParts DEF DeviceOK, Plan, device
<1>4. plan' \in AsahiRollbackPlan /\ PlanIsSound'
  BY <1>1, <1>2, PlanLemma DEF Plan, PlanIsSound
<1>5. CallerOK'
  <2>1. Control' /\ Progress' /\ ResultIsHonest'
    BY <1>2, <1>4 DEF Plan, Control, Progress, ResultIsHonest
  <2> QED
    BY <1>1, <1>4, <2>1 DEF CallerOK, Plan, executor
<1>6. Seen'
  <2> DEFINE n == plan_rollback.rollback_target.number
  <2>1. /\ pc = "listing" /\ plan' = plan_rollback /\ pc' = "planned"
        /\ generations' = generations /\ running' = running /\ undisturbed' = undisturbed
    BY DEF Plan, device
  <2>2. undisturbed => current_path = running
    BY <1>1, <2>1 DEF Seen
  <2>3. plan_rollback.rollback_target # None =>
          /\ n \in DOMAIN generations
          /\ generations[n] # current_path
          /\ \A m \in DOMAIN generations : generations[m] # current_path => m <= n
    BY <1>1, <1>2, PlanLemma
  <2>4. undisturbed /\ plan_rollback.rollback_target # None => IsLastOther(n)
    BY <2>2, <2>3 DEF IsLastOther
  <2> QED
    BY <2>1, <2>4 DEF Seen, IsLastOther
<1> QED
  BY <1>3, <1>5, <1>6 DEF IInv, TypeOK, DeviceOK, CallerOK

LEMMA CliReturnsInv ==
  ASSUME IInv, NEW command, CliReturns(command)
  PROVE  IInv'
<1>1. DeviceOK /\ CallerOK /\ Seen /\ late \in BOOLEAN /\ undisturbed \in BOOLEAN
  BY IInvParts
<1>2. Control' /\ Progress' /\ ResultIsHonest' /\ Seen'
  BY <1>1 DEF CliReturns, CallerOK, Control, Progress, ResultIsHonest, Seen
<1> QED
  BY <1>1, <1>2
     DEF CliReturns, executor, device, IInv, TypeOK, DeviceOK, CallerOK

LEMMA ExecuteInv ==
  ASSUME IInv, Execute
  PROVE  IInv'
<1>1. DeviceOK /\ CallerOK /\ Seen /\ late \in BOOLEAN /\ undisturbed \in BOOLEAN
  BY IInvParts
<1>2. outcome = "none" /\ call \in Calls /\ plan \in AsahiRollbackPlan /\ PlanIsSound
  BY <1>1 DEF CallerOK, Control, Execute
<1>3. Seen'
  BY <1>1 DEF Execute, device, Seen, IsLastOther
<1>4. Control' /\ Progress' /\ ResultIsHonest'
  <2>1. CASE plan.allowed /\ pc' = "executing" /\ UNCHANGED outcome
    <3>1. Control' /\ ResultIsHonest'
      BY <1>2, <2>1 DEF Execute, Control, ResultIsHonest, PlanIsSound
    <3>2. Len(plan.steps) \in Nat
      BY <1>2, <2>1 DEF PlanIsSound
    <3>3. Progress'
      BY <3>2 DEF Execute, Progress, BeforeCommand
    <3> QED
      BY <3>1, <3>3
  <2>2. CASE ~plan.allowed /\ pc' = "idle" /\ outcome' = "denied"
    BY <2>2 DEF Execute, Control, Progress, ResultIsHonest
  <2> QED
    BY <2>1, <2>2 DEF Execute
<1>5. pc' \in {"idle", "executing"} /\ outcome' \in {"none", "denied"}
  BY <1>2 DEF Execute
<1> QED
  BY <1>1, <1>3, <1>4, <1>5
     DEF Execute, device, IInv, TypeOK, DeviceOK, CallerOK

LEMMA SkipCommentInv ==
  ASSUME IInv, SkipComment
  PROVE  IInv'
<1>1. DeviceOK /\ CallerOK /\ Seen /\ late \in BOOLEAN /\ undisturbed \in BOOLEAN
  BY IInvParts
<1>2. pc = "executing" /\ next_step <= Len(plan.steps) /\ Len(plan.steps) \in 1..3 /\ AfterCommand
  BY <1>1, StepsLemma DEF SkipComment, AtStep
<1>3. next_step' \in 2..4 /\ next_step' <= Len(plan.steps) + 1
  <2> DEFINE n == Len(plan.steps)
  <2>1. next_step \in 2..4
    BY <1>2 DEF AfterCommand
  <2>2. next_step' = next_step + 1
    BY DEF SkipComment
  <2>3. n \in 1..3 /\ next_step <= n
    BY <1>2
  <2> HIDE DEF n
  <2>4. next_step + 1 \in 2..4 /\ next_step + 1 <= n + 1
    BY <2>1, <2>3
  <2> QED
    BY <2>2, <2>4 DEF n
<1>4. AfterCommand'
  BY <1>2, <1>3 DEF SkipComment, AfterCommand
<1>5. Control' /\ ResultIsHonest' /\ Seen'
  BY <1>1 DEF SkipComment, device, CallerOK, Control, PlanIsSound, ResultIsHonest, Seen,
              IsLastOther
<1>6. Progress'
  BY <1>3, <1>4 DEF SkipComment, Progress
<1> QED
  BY <1>1, <1>3, <1>5, <1>6
     DEF SkipComment, device, IInv, TypeOK, DeviceOK, CallerOK

LEMMA DryRunStepInv ==
  ASSUME IInv, DryRunStep
  PROVE  IInv'
<1>1. DeviceOK /\ CallerOK /\ Seen /\ late \in BOOLEAN /\ undisturbed \in BOOLEAN
  BY IInvParts
<1>2. Record("dry_run", "dry_run" \in {"ok", "dry_run"})
  BY DEF DryRunStep, Record
<1>3. CallerOK'
  BY <1>1, <1>2, RecordLemma DEF DryRunStep
<1>4. Seen'
  BY <1>1 DEF DryRunStep, Record, device, Seen, IsLastOther
<1> QED
  BY <1>1, <1>3, <1>4 DEF DryRunStep, device, IInv, TypeOK, DeviceOK, CallerOK

(* The three ways in which a command ends.                                  *)
LEMMA CommandInv ==
  ASSUME IInv, RunCommand \/ CommandFails \/ CommandTimesOut
  PROVE  IInv'
<1>1. late \in BOOLEAN /\ undisturbed \in BOOLEAN
  BY IInvParts
<1>2. /\ Runs /\ HalfRolledBack /\ late' \in BOOLEAN
      /\ \E status \in {"ok", "failed", "timeout"} : Record(status, status = "ok")
  <2>1. CASE RunCommand
    <3>1. Record("ok", "ok" = "ok")
      BY <2>1 DEF RunCommand, Record
    <3> QED
      BY <1>1, <2>1, <3>1 DEF RunCommand, HalfRolledBack
  <2>2. CASE CommandFails
    <3>1. Record("failed", "failed" = "ok")
      BY <2>2 DEF CommandFails, Record
    <3> QED
      BY <1>1, <2>2, <3>1 DEF CommandFails
  <2>3. CASE CommandTimesOut
    <3>1. Record("timeout", "timeout" = "ok")
      BY <2>3 DEF CommandTimesOut, Record
    <3> QED
      BY <1>1, <2>3, <3>1 DEF CommandTimesOut
  <2> QED
    BY <2>1, <2>2, <2>3
<1>3. undisturbed' \in BOOLEAN /\ (~undisturbed' \/ (undisturbed /\ UNCHANGED device))
  BY <1>1, Zenon DEF RunCommand, CommandFails, CommandTimesOut
<1>4. DeviceOK' /\ CallerOK' /\ Seen'
  BY <1>2, <1>3, CommandLemma
<1> QED
  BY <1>2, <1>3, <1>4 DEF IInv, TypeOK, DeviceOK, CallerOK

LEMMA FinishInv ==
  ASSUME IInv, Finish
  PROVE  IInv'
<1>1. DeviceOK /\ CallerOK /\ late \in BOOLEAN /\ undisturbed \in BOOLEAN
  BY IInvParts
<1>2. pc = "executing" /\ next_step > Len(plan.steps) /\ Len(plan.steps) \in 1..3
  BY <1>1, StepsLemma DEF Finish
<1>3. AfterCommand
  <2> DEFINE n == Len(plan.steps)
  <2>1. next_step > n /\ n \in 1..3
    BY <1>2
  <2> HIDE DEF n
  <2>2. next_step # 1
    BY <2>1
  <2> QED
    BY <1>1, <1>2, <2>2 DEF CallerOK, Progress, BeforeCommand
<1>4. PICK status \in {"ok", "failed", "timeout", "dry_run"} :
        /\ step_results = <<status>>
        /\ status = "dry_run" <=> call.dry_run
        /\ overall_ok <=> status \in {"ok", "dry_run"}
  BY <1>3, Zenon DEF AfterCommand
<1>5. \/ outcome' = "dry_run" /\ status = "dry_run"
      \/ outcome' = "applied" /\ status = "ok"
      \/ outcome' = "failed" /\ status \in {"failed", "timeout"}
  BY <1>4 DEF Finish
<1>6. Control' /\ Progress' /\ ResultIsHonest' /\ Seen'
  BY <1>4, <1>5 DEF Finish, Control, Progress, ResultIsHonest, Seen
<1> QED
  BY <1>1, <1>5, <1>6 DEF Finish, device, IInv, TypeOK, DeviceOK, CallerOK

LEMMA DeviceChangeInv ==
  ASSUME IInv, DeviceChange
  PROVE  IInv'
<1>1. DeviceOK /\ CallerOK /\ late \in BOOLEAN
  BY IInvParts
<1>2. DeviceOK' /\ late' \in BOOLEAN /\ Changed
  BY <1>1, DeviceChangeLemma
<1>3. CallerOK'
  BY <1>1, <1>2, CallerKept DEF Changed
<1>4. undisturbed' = FALSE /\ Seen'
  BY <1>2 DEF Changed, Seen
<1> QED
  BY <1>2, <1>3, <1>4 DEF IInv, TypeOK, DeviceOK, CallerOK

LEMMA NextInv == IInv /\ [Next]_vars => IInv'
<1> SUFFICES ASSUME IInv, [Next]_vars PROVE IInv'
  OBVIOUS
<1>1. CASE DeviceChange
  BY <1>1, DeviceChangeInv
<1>2. CASE Answers
  BY <1>2, CommandInv DEF Answers
<1>3. CASE Caller
  BY <1>3, PlanInv, CliReturnsInv, ExecuteInv, SkipCommentInv, DryRunStepInv, CommandInv,
     FinishInv DEF Caller, CliPlan, CliExecute
<1>4. ASSUME NEW c \in Calls, ReadCurrent(c)
      PROVE  IInv'
  BY <1>4, ReadCurrentInv
<1>5. CASE UNCHANGED vars
  BY <1>5 DEF vars, executor, IInv, TypeOK, Control, PlanIsSound, Progress, BeforeCommand,
              AfterCommand, ResultIsHonest, Seen, IsLastOther
<1> QED
  BY <1>1, <1>2, <1>3, <1>4, <1>5 DEF Next

THEOREM Invariant == Spec => []IInv
BY InitInv, NextInv, PTL DEF Spec

------------------------------------------------------------------------------
(* The state of device and caller is of its type at every step, whatever    *)
(* the device does between two of them.                                     *)
THEOREM TypeCorrect == Spec => []TypeOK
BY Invariant, PTL DEF IInv

(* execute says applied, failed, dry_run or denied of nothing else.         *)
THEOREM ResultHonest == Spec => []ResultIsHonest
BY Invariant, PTL DEF IInv

(* Nothing but an execution that was asked for, of a plan that was allowed  *)
(* for a chain whose EFI variables are not mutable, or the rest of one that *)
(* timed out, takes the profile back.                                       *)
THEOREM RollsBackOnlyOnRequest == Spec => OnlyOnRequest
<1> DEFINE Requested == /\ pc = "executing" /\ call.by = "library" /\ ~call.dry_run
                        /\ plan.allowed /\ ~plan.efi_vars_mutable
<1>1. ASSUME IInv, [Next]_vars, profile' < profile
      PROVE  late \/ Requested
  <2>1. DeviceOK /\ CallerOK /\ late \in BOOLEAN /\ profile \in Nat
    BY <1>1, IInvParts, MaxGenerationAssumption DEF DeviceOK
  <2>2. profile' # profile
    BY <1>1, <2>1
  <2>3. CASE DeviceChange
    <3>1. profile' \in Nat /\ (late \/ profile' >= profile)
      BY <2>1, <2>3, DeviceChangeLemma, MaxGenerationAssumption DEF DeviceOK
    <3> QED
      BY <1>1, <2>1, <3>1
  <2>4. CASE Runs
    BY <2>1, <2>4 DEF Runs, AtStep, CallerOK, Control, PlanIsSound
  <2>5. DeviceChange \/ Runs
    BY <1>1, <2>2 DEF Next, Answers, Caller, Plan, CliPlan, CliExecute, CliReturns,
       Execute, SkipComment, DryRunStep, CommandTimesOut, Finish, RunCommand, CommandFails,
       ReadCurrent, device, vars
  <2> QED
    BY <2>3, <2>4, <2>5
<1>2. IInv /\ [Next]_vars => [profile' < profile => late \/ Requested]_vars
  BY <1>1
<1> QED
  BY <1>2, Invariant, PTL DEF Spec, OnlyOnRequest

(* On a device in order, and as the planner saw it, whatever takes the      *)
(* profile back while the call lasts - the command in time, in part, or     *)
(* late - takes it to the generation that the plan names.                   *)
THEOREM RollbackLandsOnTarget == Spec => LandsOnTarget
<1>1. ASSUME IInv, Next, pc = "executing", profile' < profile,
             undisturbed, InOrder, plan.rollback_target # None
      PROVE  profile' = plan.rollback_target.number
  <2> DEFINE n == plan.rollback_target.number
  <2>1. DeviceOK /\ IsLastOther(n)
    BY <1>1, IInvParts DEF Seen
  <2>2. profile' \in Earlier /\ \A m \in Earlier : m <= profile'
    <3>0. profile \in Nat /\ profile' # profile
      BY <1>1, <2>1, MaxGenerationAssumption DEF DeviceOK
    <3>1. CASE HalfRolledBack
      BY <2>1, <3>0, <3>1, HalfRolledBackLemma
    <3>2. CASE RolledBack
      BY <2>1, <3>2, RolledBackLemma
    <3>3. CASE \E path \in Paths : Switch(path) \/ RunOther(path)
      <4>1. PICK path \in Paths : Switch(path) \/ RunOther(path)
        BY <3>3
      <4>2. profile' = profile \/ profile' = Max(DOMAIN generations) + 1
        BY <4>1 DEF Switch, RunOther
      <4>3. PICK k \in DOMAIN generations : \A m \in DOMAIN generations : m <= k
        BY <2>1, GreatestExists, MaxGenerationAssumption DEF DeviceOK
      <4>4. Max(DOMAIN generations) = k
        BY <2>1, <4>3, MaxIs, MaxGenerationAssumption DEF DeviceOK
      <4> QED
        BY <1>1, <2>1, <3>0, <4>2, <4>3, <4>4, MaxGenerationAssumption DEF DeviceOK
    <3>4. CASE UNCHANGED profile
      BY <3>0, <3>4
    <3>5. \/ HalfRolledBack \/ RolledBack \/ UNCHANGED profile
          \/ \E path \in Paths : Switch(path) \/ RunOther(path)
      BY <1>1 DEF Next, DeviceChange, Collect, LateRollback, Answers, Caller, Plan, CliPlan,
         CliExecute, CliReturns, Execute, SkipComment, DryRunStep, CommandTimesOut, Finish,
         RunCommand, CommandFails, ReadCurrent, device
    <3> QED
      BY <3>1, <3>2, <3>3, <3>4, <3>5
  <2>3. /\ running = generations[profile]
        /\ \A m \in DOMAIN generations \ {profile} : m < profile /\ generations[m] # running
    BY <1>1 DEF InOrder
  <2>4. n \in Earlier
    BY <2>1, <2>3 DEF IsLastOther, Earlier
  <2>5. profile' <= n
    <3>1. profile' \in DOMAIN generations /\ profile' < profile /\ profile \in Nat
      BY <2>1, <2>2, MaxGenerationAssumption DEF DeviceOK, Earlier
    <3>2. generations[profile'] # running
      BY <2>3, <3>1
    <3> QED
      BY <2>1, <3>1, <3>2 DEF IsLastOther
  <2>6. n <= profile' /\ n \in Nat /\ profile' \in Nat
    BY <2>1, <2>2, <2>4, MaxGenerationAssumption DEF DeviceOK, Earlier
  <2> HIDE DEF n
  <2>7. profile' = n
    BY <2>5, <2>6
  <2> QED
    BY <2>7 DEF n
<1> DEFINE Lands ==
      ( /\ pc = "executing" /\ profile' < profile
        /\ undisturbed /\ InOrder /\ plan.rollback_target # None )
      => profile' = plan.rollback_target.number
<1>2. IInv /\ [Next]_vars => [Lands]_vars
  BY <1>1
<1> QED
  BY <1>2, Invariant, PTL DEF Spec, LandsOnTarget

------------------------------------------------------------------------------
(* What the device does of itself is a change of it, and none of the call.  *)
LEMMA DeviceReallyChanges ==
  ASSUME DeviceOK, late \in BOOLEAN, DeviceChange
  PROVE  ~UNCHANGED <<device, late>> /\ UNCHANGED <<pc, call, plan, executor>>
<1>1. UNCHANGED <<pc, call, plan, executor>>
  BY DeviceChangeLemma DEF Changed
<1>2. ASSUME NEW path \in Paths, Switch(path) PROVE profile' # profile
  <2>1. PICK m \in DOMAIN generations : \A k \in DOMAIN generations : k <= m
    BY GreatestExists, MaxGenerationAssumption DEF DeviceOK
  <2>2. profile' = m + 1
    BY <1>2, <2>1, MaxIs DEF Switch, DeviceOK
  <2>3. profile <= m /\ profile \in Nat /\ m \in Nat
    BY <2>1, MaxGenerationAssumption DEF DeviceOK
  <2> QED
    BY <2>2, <2>3
<1>3. ASSUME NEW path \in Paths, RunOther(path) PROVE running' # running
  BY <1>3 DEF RunOther
<1>4. ASSUME NEW n \in DOMAIN generations, Collect(n) PROVE generations' # generations
  <2>1. n \notin DOMAIN generations'
    BY <1>4 DEF Collect, Restrict
  <2> QED
    BY <2>1
<1>5. ASSUME LateRollback PROVE late' # late
  <2>1. late /\ late' = FALSE
    BY <1>5 DEF LateRollback
  <2> QED
    BY <2>1, Zenon
<1> QED
  BY <1>1, <1>2, <1>3, <1>4, <1>5 DEF DeviceChange, device

(* A step of the loop leaves one line less of the plan.                     *)
LEMMA LineLess ==
  ASSUME CallerOK, pc = "executing", pc' = pc, plan' = plan, next_step' = next_step + 1
  PROVE  StepsLeft' < StepsLeft
<1>1. PICK n \in Nat : n = Len(plan.steps)
  BY StepsLemma
<1>2. PICK k \in Nat : k = next_step
  BY DEF CallerOK
<1>3. StepsLeft = n + 2 - k /\ StepsLeft' = n + 2 - (k + 1)
  BY <1>1, <1>2 DEF StepsLeft
<1> QED
  BY <1>3

(* Whatever the caller does uses up a step of the call.                     *)
LEMMA CallerRunsDown ==
  ASSUME CallerOK, Caller \/ Answers
  PROVE  call' = call /\ StepsLeft' < StepsLeft
<1>1. CASE Plan
  BY <1>1 DEF Plan, StepsLeft
<1>2. CASE CliPlan \/ CliExecute
  <2>1. pc = "planned" /\ pc' = "idle" /\ call' = call
    BY <1>2 DEF CliPlan, CliExecute, CliReturns
  <2>2. StepsLeft = 5 /\ StepsLeft' = 0
    BY <2>1 DEF StepsLeft
  <2> QED
    BY <2>1, <2>2
<1>3. CASE Execute
  <2>1. call' = call /\ StepsLeft = 5
    BY <1>3 DEF Execute, StepsLeft
  <2>2. CASE pc' = "idle"
    <3>1. StepsLeft' = 0
      BY <2>2 DEF StepsLeft
    <3> QED
      BY <2>1, <3>1
  <2>3. CASE plan.allowed /\ pc' = "executing"
    <3>1. /\ pc = "planned" /\ plan' = plan /\ next_step' = 1
      BY <1>3 DEF Execute
    <3>2. plan.steps \in {<<"command">>, <<"command", "comment", "comment">>}
      BY <2>3, <3>1 DEF CallerOK, Control, PlanIsSound
    <3>3. Len(plan.steps) \in {1, 3}
      BY <3>2
    <3>4. PICK n \in {1, 3} : n = Len(plan.steps)
      BY <3>3
    <3>5. StepsLeft' = n + 2 - 1
      BY <2>3, <3>1, <3>4 DEF StepsLeft
    <3>6. n + 2 - 1 < 5
      OBVIOUS
    <3> QED
      BY <2>1, <3>5, <3>6
  <2> QED
    BY <1>3, <2>2, <2>3 DEF Execute
<1>4. CASE SkipComment \/ DryRunStep \/ CommandTimesOut \/ Answers
  <2>1. /\ pc = "executing" /\ pc' = pc /\ plan' = plan /\ call' = call
        /\ next_step' = next_step + 1
    BY <1>4 DEF SkipComment, DryRunStep, CommandTimesOut, Answers, RunCommand, CommandFails,
                Runs, AtStep, Record
  <2> QED
    BY <2>1, LineLess
<1>5. CASE Finish
  <2>1. pc = "executing" /\ pc' = "idle" /\ call' = call
    BY <1>5 DEF Finish
  <2>2. PICK n \in Nat : n = Len(plan.steps)
    BY <2>1, StepsLemma
  <2>3. next_step \in 1..4 /\ next_step <= n + 1
    BY <2>1, <2>2 DEF CallerOK, Progress
  <2>4. StepsLeft = n + 2 - next_step /\ StepsLeft' = 0
    BY <2>1, <2>2 DEF StepsLeft
  <2> QED
    BY <2>1, <2>2, <2>3, <2>4
<1> QED
  BY <1>1, <1>2, <1>3, <1>4, <1>5 DEF Caller

(* A call uses itself up: every step of the caller, in time or not, leaves  *)
(* less of it to do, and nothing the device does prolongs it.  It is the    *)
(* part of CallEnds that does not depend on the caller being scheduled.     *)
THEOREM CallsRunDown == Spec => CallRunsDown
<1> DEFINE Down == pc # "idle" =>
                     /\ call' = call
                     /\ \/ StepsLeft' < StepsLeft
                        \/ UNCHANGED <<pc, plan, executor>> /\ ~UNCHANGED <<device, late>>
<1>1. ASSUME IInv, Next, pc # "idle" PROVE Down
  <2>1. DeviceOK /\ CallerOK /\ late \in BOOLEAN
    BY <1>1, IInvParts
  <2>2. DeviceChange \/ Caller \/ Answers
    BY <1>1 DEF Next, ReadCurrent
  <2>3. CASE DeviceChange
    BY <2>1, <2>3, DeviceReallyChanges
  <2>4. CASE Caller \/ Answers
    BY <2>1, <2>4, CallerRunsDown
  <2> QED
    BY <2>2, <2>3, <2>4
<1>2. IInv /\ [Next]_vars => [Down]_vars
  BY <1>1
<1> QED
  BY <1>2, Invariant, PTL DEF Spec, CallRunsDown

================================================================================
