-------------------------- MODULE DriverInvariants --------------------------
(***************************************************************************)
(* What the properties of the driver rest on: whose files there are at     *)
(* every step of a session, which of them the plan manager has counted,    *)
(* and where the plan is that the exit code will speak of.                 *)
(***************************************************************************)
EXTENDS DriverProperties

Numbers == 1 .. MaxNumber

File(n) == files[<<args.plan_file, n>>]

TypeInv ==
  /\ session \in 0 .. MaxSessions /\ (pc # "idle" => session > 0)
  /\ args \in CommandLines
  /\ files \in [FileNames -> PlanContents \cup {NoFile}]
  /\ manager \in [costs : Seq(0 .. MaxCost), problem_type : {"None", "unit cost", "general cost"}]
  /\ number \in Nat
  /\ DOMAIN portfolio = DOMAIN NoPortfolio

\* A session without a plan from its first phase has translated its task before the
\* preprocessor starts, and preprocessed it before the search does.
TaskInv ==
  /\ pc \in {"translate", "bfws_done", "delete", "launch", "engine", "collect", "portfolio"} => ~plan_found
  /\ pc = "bfws_done" => plan_ipc = "plan" \/ (plan_ipc = "empty" /\ output_sas = session)
  /\ pc = "preprocess" /\ ~plan_found => output_sas = session
  /\ pc = "search" /\ ~plan_found => output = session /\ output_sas = session
  /\ pc \in {"delete", "launch", "engine", "collect"} => output = session /\ output_sas = session

\* Until its search starts a session has no plan file of its own.
NothingWritten ==
  \/ pc \in {"translate", "bfws_done", "delete"}
  \/ pc \in {"preprocess", "search"} /\ ~plan_found
  \/ pc = "engine" /\ args.portfolio = "none"

SessionInv ==
  \A name \in FileNames :
    /\ files[name].session <= session
    /\ NothingWritten => files[name].session < session

\* Between two searches of a satisficing portfolio the manager has counted all plans of
\* the session.  The first of them is number 1, where no other file is left.
CountedInv ==
  args.portfolio = "satisficing" =>
    /\ pc = "delete" =>
         /\ manager = EmptyManager
         /\ number > 1 => ~Exists(files, <<args.plan_file, 1>>)
    /\ pc \in {"launch", "engine"} =>
         /\ \A n \in Numbers : IsPlan(File(n)) => n <= Len(manager.costs)
         /\ manager.costs = <<>> => ~Exists(files, <<args.plan_file, 1>>)
    /\ pc = "collect" =>
         /\ \A n \in Numbers : IsPlan(File(n)) =>
              \A k \in Len(manager.costs) + 1 .. n : IsPlan(File(k))
         /\ manager.costs = <<>> /\ Exists(files, <<args.plan_file, 1>>) => File(1).session = session
    /\ pc \in {"launch", "engine", "collect"} /\ manager.costs # <<>> => IsPlan(File(1))

\* Where the plan is that the exit code will speak of.
HasPlan == IsPlan(File(0)) \/ IsPlan(File(1))

SuccessInv ==
  /\ ended = "exit" => pc = "idle"
  /\ (pc \in {"preprocess", "search", "validate", "done"} \/ ended = "exit") /\ plan_found =>
       IsPlan(files[<<"sas_plan", 0>>])
  /\ pc \in {"validate", "done"} /\ ~plan_found /\ exitcode \in {PLAN_FOUND, "None"} => HasPlan
  /\ pc \in {"launch", "engine", "collect", "portfolio"} /\ PLAN_FOUND \in portfolio.exitcodes =>
       HasPlan /\ (args.portfolio = "optimal" => pc = "portfolio")
  /\ pc \in {"launch", "collect", "portfolio"} => args.portfolio # "none"
  /\ pc = "collect" /\ exitcode = PLAN_FOUND => HasPlan
  /\ ended = "exit" /\ exitcode = PLAN_FOUND /\ ~plan_found => HasPlan

FilesInv == TypeInv /\ TaskInv /\ SessionInv /\ CountedInv

-----------------------------------------------------------------------------
\* Plan files are numbered without a gap, but for those that are being removed.
Removing == pc \in {"delete", "cleanup"}

NoGaps(prefix, first) ==
  \A n \in Numbers : Exists(files, <<prefix, n>>) =>
    \A m \in 1 .. n : m >= first => Exists(files, <<prefix, m>>)

NumbersInv ==
  /\ \A prefix \in Prefixes :
       NoGaps(prefix, IF Removing /\ prefix = args.plan_file THEN number ELSE 1)
  /\ Removing => \A n \in Numbers : n < number => ~Exists(files, <<args.plan_file, n>>)

\* The plans of a satisficing portfolio: complete, each better than the last one, and
\* so at most as many as there are costs.
Plans(last) ==
  /\ last \in 0 .. MaxCost
  /\ \A n \in 1 .. last :
       /\ IsPlan(File(n)) /\ File(n).type = args.type
       /\ File(n).cost + n <= MaxCost + 1
       /\ n > 1 => File(n).cost < File(n - 1).cost
  /\ \A n \in Numbers : Exists(files, <<args.plan_file, n>>) => n <= last + 1

Managed ==
  LET k == Len(manager.costs) IN
  /\ \A n \in 1 .. k : manager.costs[n] = File(n).cost
  /\ manager.problem_type = IF k = 0 THEN "None" ELSE args.type

ManagerInv ==
  args.portfolio = "satisficing" =>
    /\ pc = "delete" => manager = EmptyManager
    /\ pc \in {"launch", "engine", "portfolio"} =>
         /\ Managed /\ Plans(Len(manager.costs))
         /\ ~Exists(files, <<args.plan_file, Len(manager.costs) + 1>>)
    /\ pc = "collect" =>
         /\ Managed
         /\ \E last \in Len(manager.costs) .. MaxCost :
              Plans(last) /\ File(last + 1).cost = Incomplete
=============================================================================
