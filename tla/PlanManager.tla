---------------------------- MODULE PlanManager ----------------------------
(***************************************************************************)
(* The plan files of a run of the planner and what the driver remembers of *)
(* them (driver/plan_manager.py, driver/cleanup.py).  A plan file is       *)
(* <<prefix, n>>: n = 0 is the prefix itself, n > 0 the file prefix.n.     *)
(* Its content is the task (the session that wrote it) and the cost its    *)
(* last line states; the cost of a file that was not written to the end is *)
(* Incomplete.                                                             *)
(***************************************************************************)
EXTENDS Integers, Sequences, FiniteSets

CONSTANTS
  Prefixes,        \* the prefixes plan files have, "sas_plan" among them
  MaxCost,         \* plans cost 1 .. MaxCost
  MaxSessions      \* how often the planner is called in one directory

ASSUME PlanFileAssumption ==
  /\ "sas_plan" \in Prefixes
  /\ MaxCost \in Nat \ {0}
  /\ MaxSessions \in Nat \ {0}

\* A search writes at most one plan of every cost, and one it did not finish.
\* What an interrupted deletion left may follow.
MaxNumber == MaxCost + 1

Infinity == MaxCost + 1
Incomplete == 0
PlanContents == [session : 1 .. MaxSessions, cost : 0 .. MaxCost, type : {"unit cost", "general cost"}]
NoFile == [session |-> 0, cost |-> Incomplete, type |-> "unit cost"]

FileNames == Prefixes \X (0 .. MaxNumber)

Exists(fs, name) == name \in DOMAIN fs /\ fs[name] # NoFile

-----------------------------------------------------------------------------
(* PlanManager: the costs of the plans seen and the type of their task.    *)
EmptyManager == [costs |-> <<>>, problem_type |-> "None"]

get_plan_counter(m) == Len(m.costs)

\* Mutant: the bound of the next search is the cost of the first plan.
get_best_plan_cost_First(m) == IF m.costs = <<>> THEN Infinity ELSE m.costs[1]

get_best_plan_cost(m) == IF m.costs = <<>> THEN Infinity ELSE m.costs[Len(m.costs)]

\* The files a reading of prefix.first, prefix.(first + 1), ... meets before
\* the first number without a file.
Contiguous(fs, prefix, first) ==
  {n \in first .. MaxNumber : \A k \in first .. n : Exists(fs, <<prefix, k>>)}

get_existing_plans(fs, prefix) ==
  {<<prefix, n>> : n \in Contiguous(fs, prefix, 1)}
    \cup {name \in {<<prefix, 0>>} : Exists(fs, name)}

\* The costs of the complete plans from number first up to the first one that
\* is incomplete or missing.
NewCosts(fs, prefix, first) ==
  LET complete == {n \in Contiguous(fs, prefix, first) :
                     \A k \in first .. n : fs[<<prefix, k>>].cost # Incomplete}
  IN  [i \in 1 .. Cardinality(complete) |-> fs[<<prefix, first + i - 1>>].cost]

\* process_new_plans: the manager, the files and whether it raised a
\* RuntimeError, when the numbers are read in order.
process_new_plans(m, fs, prefix) ==
  LET first == get_plan_counter(m) + 1
      costs == m.costs \o NewCosts(fs, prefix, first)
      torn  == Len(costs) + 1            \* the number after the complete plans
      type  == IF m.problem_type # "None" \/ Len(costs) < first THEN m.problem_type
               ELSE fs[<<prefix, first>>].type
      unfit == \E n \in first .. Len(costs) :
                 fs[<<prefix, n>>].type # type \/ (n > 1 /\ costs[n] >= costs[n - 1])
      removed == ~unfit /\ torn \in Contiguous(fs, prefix, torn)
  IN  [manager |-> [costs |-> costs, problem_type |-> type],
       files |-> IF removed THEN [fs EXCEPT ![<<prefix, torn>>] = NoFile] ELSE fs,
       bogus |-> unfit \/ (removed /\ Exists(fs, <<prefix, torn + 1>>))]

-----------------------------------------------------------------------------
(* delete_existing_plans and cleanup_temporary_files remove the prefix     *)
(* first and then prefix.1, prefix.2, ... until a number is missing: one   *)
(* removal is one step, and the process may be killed between two.         *)
LastRemoval(fs, prefix, number) == number > 0 /\ ~Exists(fs, <<prefix, number>>)

RemovePlan(fs, prefix, number) == [fs EXCEPT ![<<prefix, number>>] = NoFile]
=============================================================================
