-------------------------- MODULE DriverProperties --------------------------
(***************************************************************************)
(* What a caller of the driver relies on: the plan files of a call hold    *)
(* plans of its own task, and its exit code says whether there is one.     *)
(***************************************************************************)
EXTENDS Driver

\* The prefix of the plans of the session: the first phase of --dual writes
\* sas_plan whatever --plan-file says.
ResultPrefix == IF plan_found THEN "sas_plan" ELSE args.plan_file

\* A session that exits with 0 leaves a complete plan of its own task, whatever
\* was left in the directory before and however its searches ended
\* (main.py, run_components.run_search, returncodes.generate_portfolio_exitcode).
SuccessMeansAPlan ==
  ended = "exit" /\ exitcode = PLAN_FOUND =>
    \E name \in get_existing_plans(files, ResultPrefix) : IsPlan(files[name])

\* Whenever a portfolio starts a search, the manager has counted exactly the
\* plans in the directory, all of them are complete and of this task, and each
\* is cheaper than the one before: the bound and the number passed to the
\* search are right (portfolio_runner.adapt_args, run_sat_config).
ManagerMatchesFiles ==
  pc \in {"launch", "portfolio"} /\ args.portfolio = "satisficing" =>
    /\ Contiguous(files, args.plan_file, 1) = DOMAIN manager.costs
    /\ \A n \in DOMAIN manager.costs :
         /\ IsPlan(files[<<args.plan_file, n>>])
         /\ files[<<args.plan_file, n>>].cost = manager.costs[n]
         /\ n > 1 => manager.costs[n] < manager.costs[n - 1]

\* process_new_plans never meets what it calls a bogus plan: a plan of another
\* task, one that does not improve on the last or one behind an incomplete file.
NoBogusPlan == ended # "RuntimeError"

\* The preprocessor and the search read what this session has translated: an
\* error of an earlier component ends the run before they start (main.py).
SearchReadsThisTask ==
  pc \in {"delete", "launch", "engine"} => output = session /\ output_sas = session

\* A complete plan the session has written is neither replaced nor removed
\* while it runs: not by a later configuration, nor by the reading of the plans
\* (save_plan, process_new_plans).  An optimal portfolio writes one file only
\* and may replace the plan of a search that was killed after it wrote it.
PlansAreKept ==
  [][pc \notin {"idle", "cleanup"} /\ args.portfolio # "optimal" =>
       \A name \in FileNames : IsPlan(files[name]) => files'[name] = files[name]]_vars

=============================================================================
