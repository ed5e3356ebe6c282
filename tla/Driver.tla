------------------------------- MODULE Driver -------------------------------
(***************************************************************************)
(* fast-downward.py: the driver that runs the components of the planner    *)
(* one after the other (driver/main.py, driver/run_components.py), in a    *)
(* directory where one call (a session) after the other leaves its files.  *)
(* Every session solves another task.  A session may be killed at every    *)
(* step, and the search it started may be killed while it writes a plan.   *)
(***************************************************************************)
EXTENDS PlanManager, Portfolio

CONSTANTS
  Options,               \* the command lines the sessions are called with
  StrictBound,           \* a search under bound b finds plans below b only
  InterruptedDeletion    \* a session may be killed while it removes plan files

\* What main makes of a command line.
CommandLines ==
  [dual : BOOLEAN, validate : BOOLEAN, several : BOOLEAN,
   portfolio : {"none", "optimal", "satisficing"}, final : {"none", "config", "builder"},
   plan_file : Prefixes, type : {"unit cost", "general cost"},
   configs : Seq(Nat) \ {<<>>}, costSwitch : SUBSET Nat]

ASSUME DriverAssumption ==
  /\ {StrictBound, InterruptedDeletion} \subseteq BOOLEAN
  /\ Options \subseteq CommandLines

VARIABLES
  session,         \* the number of calls so far
  args,            \* the command line of the current one
  pc,              \* what it does next, "idle" between two sessions
  files,           \* the plan files
  plan_ipc,        \* plan.ipc: "absent", "empty", "incomplete" or "plan"
  output_sas,      \* the session whose task output.sas holds, 0 without the file
  output,          \* likewise for the preprocessed task
  plan_found,      \* the first phase of --dual has found a plan
  exitcode,        \* "None" is no exit code yet
  manager,         \* the plan manager of run_search
  number,          \* the plan file that is removed next
  portfolio,       \* the state of a portfolio run
  ended            \* how the last session ended: "exit", "killed", or its exception

sessionVars == <<session, args>>
fileVars == <<files, plan_ipc, output_sas, output>>
searchVars == <<manager, number, portfolio>>
vars == <<sessionVars, fileVars, searchVars, pc, plan_found, exitcode, ended>>

NoPortfolio == [Start(<<>>) EXCEPT !.mode = "end"]

Init ==
  /\ session = 0 /\ args \in Options
  /\ pc = "idle" /\ ended = "exit"
  /\ files = [name \in FileNames |-> NoFile]
  /\ plan_ipc = "absent" /\ output_sas = 0 /\ output = 0
  /\ plan_found = FALSE /\ exitcode = "None"
  /\ manager = EmptyManager /\ number = 0 /\ portfolio = NoPortfolio

-----------------------------------------------------------------------------
(* A call of the driver starts, ends and is killed.                        *)
Begin(o, first) ==
  /\ pc = "idle" /\ session < MaxSessions
  /\ session' = session + 1
  /\ args' = o
  /\ pc' = first
  /\ ended' = "running"
  /\ plan_found' = FALSE /\ exitcode' = "None"
  /\ manager' = EmptyManager /\ number' = 0 /\ portfolio' = NoPortfolio
  /\ UNCHANGED fileVars

main == \E o \in Options : Begin(o, "translate")

\* --cleanup.
cleanup_temporary_files ==
  /\ pc = "idle" /\ session > 0
  /\ \E prefix \in Prefixes :
       /\ args' = [args EXCEPT !.plan_file = prefix]
       /\ number' = 0
  /\ pc' = "cleanup" /\ ended' = "running"
  /\ output_sas' = 0 /\ output' = 0
  /\ UNCHANGED <<session, files, plan_ipc, plan_found, exitcode, manager, portfolio>>

End(how, code) ==
  /\ pc' = "idle" /\ ended' = how /\ exitcode' = code

\* An exception main does not catch.
Fail(exception) == End(exception, "1")

\* A component that ends with an unexpected exit code: main leaves the loop.
CalledProcessError(code) == End("exit", code)

\* The python process is killed, or interrupted.
Killed ==
  /\ pc # "idle"
  /\ InterruptedDeletion \/ pc \notin {"delete", "cleanup"}
  /\ End("killed", "None")
  /\ UNCHANGED <<sessionVars, fileVars, searchVars, plan_found>>

-----------------------------------------------------------------------------
(* The first component: the translator, or with --dual the 1-BFWS planner, *)
(* which writes output.sas when its search found no plan.                  *)
run_translate ==
  /\ pc = "translate" /\ ~args.dual
  /\ \/ output_sas' = session /\ pc' = "preprocess" /\ UNCHANGED <<exitcode, ended>>
     \/ output_sas' \in {0, output_sas} /\ CalledProcessError("TRANSLATE_ERROR")
  /\ UNCHANGED <<sessionVars, files, plan_ipc, output, searchVars, plan_found>>

\* Mutant: the file is read as a plan whatever it holds.
PlanIpcSize_Ignored(content) == IF content = "absent" THEN content ELSE "plan"

PlanIpcSize(content) == content

run_1_bfws ==
  /\ pc = "translate" /\ args.dual
  /\ \/ /\ plan_ipc' \in {"empty", "plan"}
        /\ output_sas' = IF plan_ipc' = "empty" THEN session ELSE output_sas
        /\ pc' = "bfws_done" /\ UNCHANGED <<exitcode, ended>>
     \/ /\ plan_ipc' \in {plan_ipc, "empty", "incomplete", "plan"}
        /\ output_sas' = output_sas
        /\ CalledProcessError("BFWS_ERROR")
  /\ UNCHANGED <<sessionVars, files, output, searchVars, plan_found>>

\* The empty plan.ipc is removed, a plan becomes sas_plan.
run_1_bfws_done ==
  /\ pc = "bfws_done"
  /\ \/ /\ PlanIpcSize(plan_ipc) = "empty"
        /\ pc' = "preprocess" /\ UNCHANGED <<files, plan_found>>
     \/ /\ PlanIpcSize(plan_ipc) # "empty"
        /\ files' = [files EXCEPT ![<<"sas_plan", 0>>] =
                       IF plan_ipc = "plan" THEN [session |-> session, cost |-> MaxCost, type |-> args.type]
                       ELSE [session |-> session, cost |-> Incomplete, type |-> args.type]]
        /\ plan_found' = TRUE /\ pc' = "preprocess"
  /\ plan_ipc' = "absent"
  /\ UNCHANGED <<sessionVars, output_sas, output, searchVars, exitcode, ended>>

\* Mutant: the search starts after an error of the preprocessor.
run_preprocess_Unchecked ==
  /\ pc = "preprocess"
  /\ \/ plan_found /\ pc' = "search" /\ output' = output
     \/ ~plan_found /\ output' \in {0, output, output_sas} /\ pc' = "search"
  /\ UNCHANGED <<sessionVars, files, plan_ipc, output_sas, searchVars, plan_found, exitcode, ended>>

run_preprocess ==
  /\ pc = "preprocess"
  /\ \/ plan_found /\ pc' = "search" /\ UNCHANGED <<output, exitcode, ended>>
     \/ ~plan_found /\ output' = output_sas /\ pc' = "search" /\ UNCHANGED <<exitcode, ended>>
     \/ ~plan_found /\ output' \in {0, output} /\ CalledProcessError("PREPROCESS_ERROR")
  /\ UNCHANGED <<sessionVars, files, plan_ipc, output_sas, searchVars, plan_found>>

\* The step after the search.
Validation == IF args.validate THEN "validate" ELSE "done"

-----------------------------------------------------------------------------
(* run_search: old plans are removed first, one at a time.                 *)
run_search ==
  /\ pc = "search"
  /\ \/ plan_found /\ pc' = Validation /\ UNCHANGED <<manager, number>>
     \/ ~plan_found /\ pc' = "delete" /\ manager' = EmptyManager /\ number' = 0
  /\ UNCHANGED <<sessionVars, fileVars, portfolio, plan_found, exitcode, ended>>

\* Mutant: the search starts over the old plans.
delete_existing_plans_None ==
  /\ pc = "delete"
  /\ pc' = "launch"
  /\ portfolio' = Start(args.configs)
  /\ UNCHANGED <<sessionVars, fileVars, manager, number, plan_found, exitcode, ended>>

delete_existing_plans ==
  /\ pc \in {"delete", "cleanup"}
  /\ \/ /\ ~LastRemoval(files, args.plan_file, number)
        /\ files' = RemovePlan(files, args.plan_file, number)
        /\ number' = number + 1
        /\ UNCHANGED <<pc, portfolio, exitcode, ended>>
     \/ /\ pc = "delete" /\ LastRemoval(files, args.plan_file, number)
        /\ pc' = IF args.portfolio = "none" THEN "engine" ELSE "launch"
        /\ portfolio' = Start(args.configs)
        /\ UNCHANGED <<files, number, exitcode, ended>>
     \/ /\ pc = "cleanup" /\ LastRemoval(files, args.plan_file, number)
        /\ End("cleaned", "None") /\ UNCHANGED <<files, number, portfolio>>
  /\ UNCHANGED <<sessionVars, plan_ipc, output_sas, output, manager, plan_found>>

\* The time that is left is split among the configurations of the round.
\* After the first round these are no longer pairs with a share of the time: they
\* cannot be taken apart, or, where they can, the sum of the shares is refused.
run_sat_config ==
  /\ pc = "launch" /\ args.portfolio = "satisficing"
  /\ \/ /\ portfolio.round > 1
        /\ \E exception \in {"ValueError", "TypeError"} : Fail(exception)
        /\ UNCHANGED portfolio
     \/ portfolio.round = 1 /\ pc' = "engine" /\ UNCHANGED <<portfolio, exitcode, ended>>
     \* no time is left
     \/ /\ portfolio.round = 1
        /\ pc' = "portfolio" /\ portfolio' = [portfolio EXCEPT !.mode = "end"]
        /\ UNCHANGED <<exitcode, ended>>
  /\ UNCHANGED <<sessionVars, fileVars, manager, number, plan_found>>

run_opt_config ==
  /\ pc = "launch" /\ args.portfolio = "optimal"
  /\ pc' = "engine"
  /\ UNCHANGED <<sessionVars, fileVars, searchVars, plan_found, exitcode, ended>>

-----------------------------------------------------------------------------
(* A search process: under its bound it writes plans of decreasing cost,   *)
(* several if the configuration is an anytime search, and ends with a plan,*)
(* without one, or is killed, maybe while it writes the next plan.         *)
FirstNumber ==
  CASE args.portfolio = "satisficing" -> get_plan_counter(manager) + 1
    [] args.portfolio # "satisficing" /\ args.several -> 1
    [] args.portfolio # "satisficing" /\ ~args.several -> 0

\* Mutant: the search counts from the number of plans, not from the next one.
PlanNumber_NotNext(i) == FirstNumber + i - (IF FirstNumber > 1 THEN 2 ELSE 1)

\* save_plan: the number of the i-th plan of a search.
PlanNumber(i) == FirstNumber + i - 1

SearchBound == IF args.portfolio = "satisficing" THEN get_best_plan_cost(manager) ELSE Infinity

CostsBelow(bound) ==
  {c \in 1 .. MaxCost : c < bound \/ (c = bound /\ ~StrictBound)}

Decreasing(costs) == \A i \in 2 .. Len(costs) : costs[i] < costs[i - 1]

PlanCosts ==
  {costs \in UNION {[1 .. k -> CostsBelow(SearchBound)] : k \in 0 .. (IF args.several THEN MaxCost ELSE 1)} :
     Decreasing(costs)}

\* Whether a search that found plans of these costs may end so.
Outcome(costs, torn, code) ==
  /\ code = PLAN_FOUND => costs # <<>> /\ ~torn
  /\ code \in {UNSOLVABLE, "UNSOLVED_INCOMPLETE"} => costs = <<>> /\ ~torn
  /\ torn => args.several \/ costs = <<>>

save_plan(fs, costs, torn) ==
  LET written == {PlanNumber(i) : i \in 1 .. Len(costs) + (IF torn THEN 1 ELSE 0)}
  IN  [name \in DOMAIN fs |->
         IF name[1] = args.plan_file /\ name[2] \in written
         THEN LET i == CHOOSE j \in 1 .. Len(costs) + 1 : PlanNumber(j) = name[2]
              IN  [session |-> session, type |-> args.type,
                   cost |-> IF i \in DOMAIN costs THEN costs[i] ELSE Incomplete]
         ELSE fs[name]]

\* run_search without a portfolio: the expected codes are returned.
run_single_search ==
  /\ pc = "engine" /\ args.portfolio = "none"
  /\ \E costs \in PlanCosts, torn \in BOOLEAN, code \in SearchCodes :
       /\ Outcome(costs, torn, code)
       /\ files' = save_plan(files, costs, torn)
       /\ IF code \in EXPECTED_EXITCODES
          THEN exitcode' = code /\ pc' = Validation /\ UNCHANGED ended
          ELSE CalledProcessError(code)
  /\ UNCHANGED <<sessionVars, plan_ipc, output_sas, output, searchVars, plan_found>>

\* portfolio_runner.run_search: the exit code is collected, whatever it is.
run_portfolio_search ==
  /\ pc = "engine" /\ args.portfolio # "none"
  /\ \E costs \in PlanCosts, torn \in BOOLEAN, code \in SearchCodes :
       /\ Outcome(costs, torn, code)
       /\ files' = save_plan(files, costs, torn)
       /\ exitcode' = code
  /\ pc' = "collect"
  /\ UNCHANGED <<sessionVars, plan_ipc, output_sas, output, searchVars, plan_found, ended>>

Continue(p) ==
  /\ portfolio' = p
  /\ pc' = IF p.mode = "end" THEN "portfolio" ELSE "launch"
  /\ exitcode' = "None"
  /\ UNCHANGED ended

\* process_new_plans, and run_sat with the exit code.
collect_sat ==
  /\ pc = "collect" /\ args.portfolio = "satisficing"
  /\ LET read == process_new_plans(manager, files, args.plan_file)
     IN  /\ files' = read.files
         /\ manager' = read.manager
         /\ IF read.bogus
            THEN Fail("RuntimeError") /\ UNCHANGED portfolio
            ELSE Continue(run_sat_Continue(portfolio, exitcode, read.manager.problem_type, args))
  /\ UNCHANGED <<sessionVars, plan_ipc, output_sas, output, number, plan_found>>

collect_opt ==
  /\ pc = "collect" /\ args.portfolio = "optimal"
  /\ Continue(run_opt_Continue(portfolio, exitcode))
  /\ UNCHANGED <<sessionVars, fileVars, number, manager, plan_found>>

\* The end of a portfolio: its exit code, raised unless it is 0.
run_portfolio ==
  /\ pc = "portfolio"
  /\ LET code == generate_portfolio_exitcode(portfolio.exitcodes)
     IN  IF code = PLAN_FOUND
         THEN pc' = Validation /\ UNCHANGED <<exitcode, ended>>
         ELSE CalledProcessError(code)
  /\ UNCHANGED <<sessionVars, fileVars, searchVars, plan_found>>

-----------------------------------------------------------------------------
(* validate accepts the plans of this task; without a plan it has nothing  *)
(* to accept.                                                              *)
IsPlan(content) == content.session = session /\ content.cost # Incomplete

run_validate ==
  /\ pc = "validate"
  /\ LET plans == get_existing_plans(files, args.plan_file)
     IN  IF \A name \in plans : IsPlan(files[name])
         THEN pc' = "done" /\ UNCHANGED <<exitcode, ended>>
         ELSE CalledProcessError("VALIDATE_ERROR")
  /\ UNCHANGED <<sessionVars, fileVars, searchVars, plan_found>>

\* sys.exit(exitcode), where None exits with 0.
exit ==
  /\ pc = "done"
  /\ End("exit", IF exitcode = "None" THEN PLAN_FOUND ELSE exitcode)
  /\ UNCHANGED <<sessionVars, fileVars, searchVars, plan_found>>

-----------------------------------------------------------------------------
Component ==
  \/ run_translate \/ run_1_bfws \/ run_1_bfws_done \/ run_preprocess
  \/ run_search \/ delete_existing_plans
  \/ run_sat_config \/ run_opt_config
  \/ run_single_search \/ run_portfolio_search
  \/ collect_sat \/ collect_opt \/ run_portfolio
  \/ run_validate \/ exit

Call == main \/ cleanup_temporary_files

Next == Call \/ Component \/ Killed

Spec == Init /\ [][Next]_vars
=============================================================================
