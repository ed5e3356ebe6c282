----------------------------- MODULE Portfolio -----------------------------
(***************************************************************************)
(* A portfolio of search configurations (driver/portfolio_runner.py,       *)
(* driver/returncodes.py) as the data the driver steps through: which      *)
(* configuration runs next, when the costs are switched, when the final    *)
(* configuration takes over and which exit code the whole run has.         *)
(***************************************************************************)
EXTENDS Integers, Sequences

PLAN_FOUND == "PLAN_FOUND"
UNSOLVABLE == "UNSOLVABLE"
SearchCodes == {"PLAN_FOUND", "UNSOLVABLE", "UNSOLVED_INCOMPLETE", "OUT_OF_MEMORY", "SIGXCPU", "SIGKILL"}
EXPECTED_EXITCODES == {"PLAN_FOUND", "UNSOLVABLE", "UNSOLVED_INCOMPLETE", "OUT_OF_MEMORY", "TIMEOUT", "SIGXCPU"}

generate_portfolio_exitcode(codes) ==
  LET read == {IF c = "SIGXCPU" THEN "TIMEOUT" ELSE c : c \in codes}
      unexpected == read \ EXPECTED_EXITCODES
  IN  CASE unexpected # {} /\ (\E c \in read : unexpected = {c}) -> CHOOSE c \in unexpected : TRUE
        [] unexpected # {} /\ ~(\E c \in read : unexpected = {c}) -> "CRITICAL_ERROR"
        [] unexpected = {} /\ PLAN_FOUND \in read -> PLAN_FOUND
        [] unexpected = {} /\ PLAN_FOUND \notin read /\ UNSOLVABLE \in read -> UNSOLVABLE
        [] unexpected = {} /\ read \cap {PLAN_FOUND, UNSOLVABLE} = {}
             /\ "UNSOLVED_INCOMPLETE" \in read -> "UNSOLVED_INCOMPLETE"
        [] read = {"OUT_OF_MEMORY", "TIMEOUT"} -> "TIMEOUT_AND_MEMORY"
        [] read = {"TIMEOUT"} -> "TIMEOUT"
        [] read = {"OUT_OF_MEMORY"} -> "OUT_OF_MEMORY"
        [] OTHER -> "CRITICAL_ERROR"

-----------------------------------------------------------------------------
(* configs: the configurations of this round, as numbers into the file;    *)
(* pos: the one that runs; mode: whether it runs for the first time, again *)
(* with real costs, or is the final configuration.                         *)
Start(configs) ==
  [configs |-> configs, pos |-> 1, round |-> 1, configs_next_round |-> <<>>,
   mode |-> "config", changed_cost_types |-> FALSE, exitcodes |-> {}]

\* After the loop over the configurations of a round.
EndOfRound(p, final_config) ==
  IF final_config
  THEN [p EXCEPT !.mode = "final"]
  ELSE [p EXCEPT !.configs = p.configs_next_round, !.configs_next_round = <<>>,
                 !.round = @ + 1, !.pos = 1,
                 !.mode = IF p.configs_next_round = <<>> THEN "end" ELSE "config"]

\* After a configuration (and its repetition), when the loop goes on.
Advance(p, final_config) ==
  IF p.pos < Len(p.configs)
  THEN [p EXCEPT !.pos = @ + 1, !.mode = "config"]
  ELSE EndOfRound(p, final_config)

\* What follows a configuration that found a plan.
AfterPlan(p, o) ==
  IF o.final = "builder"
  THEN [p EXCEPT !.mode = "final"]
  ELSE Advance(p, o.final = "config")

\* run_sat after it has yielded the exit code of a run.  type is the type of
\* the task if the manager knows it.
run_sat_Continue(p0, code, type, o) ==
  LET p == [p0 EXCEPT !.exitcodes = @ \cup {code}]
      found == [p EXCEPT !.configs_next_round = Append(@, p.configs[p.pos])]
  IN  IF code = UNSOLVABLE \/ p.mode = "final" THEN [p EXCEPT !.mode = "end"]
      ELSE IF p.mode = "repeat" THEN AfterPlan(p, o)
      ELSE IF code # PLAN_FOUND THEN Advance(p, o.final = "config")
      ELSE IF ~p.changed_cost_types /\ p.configs[p.pos] \in o.costSwitch /\ type = "general cost"
      THEN [found EXCEPT !.mode = "repeat", !.changed_cost_types = TRUE]
      ELSE AfterPlan(found, o)

\* run_opt after a run.
run_opt_Continue(p0, code) ==
  LET p == [p0 EXCEPT !.exitcodes = @ \cup {code}]
  IN  IF code \in {PLAN_FOUND, UNSOLVABLE} \/ p.pos = Len(p.configs)
      THEN [p EXCEPT !.mode = "end"]
      ELSE [p EXCEPT !.pos = @ + 1]
=============================================================================
