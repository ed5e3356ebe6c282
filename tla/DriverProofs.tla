----------------------------- MODULE DriverProofs -----------------------------
(***************************************************************************)
(* What holds of the driver for any number of calls, any command lines and *)
(* any costs, wherever a call is killed: the search reads the files of its *)
(* own session, its plans are kept, and success means that there is one.   *)
(***************************************************************************)
EXTENDS DriverInvariants, SetLemmas, SequenceTheorems

LEMMA PlanFileTypes == MaxCost \in Nat \ {0} /\ MaxSessions \in Nat \ {0} /\ "sas_plan" \in Prefixes
  BY PlanFileAssumption

Problems == {"None", "unit cost", "general cost"}

LEMMA NoFileFields == NoFile.session = 0 /\ NoFile.cost = 0 /\ NoFile.type = "unit cost"
  BY DEF NoFile, Incomplete

LEMMA ContentTypes ==
  ASSUME NEW c \in PlanContents \cup {NoFile}
  PROVE  c.session \in 0 .. MaxSessions /\ c.cost \in 0 .. MaxCost /\ c.type \in Problems
<1>1. CASE c \in PlanContents
  <2>1. c.session \in 1 .. MaxSessions /\ c.cost \in 0 .. MaxCost /\ c.type \in {"unit cost", "general cost"}
    BY <1>1 DEF PlanContents
  <2> QED
    <3>1. c.session \in 0 .. MaxSessions
      <4>1. 1 .. MaxSessions \subseteq 0 .. MaxSessions
        OBVIOUS
      <4> QED
        BY <2>1, <4>1
    <3>2. c.type \in Problems
      BY <2>1 DEF Problems
    <3> QED
      BY <2>1, <3>1, <3>2
<1>2. CASE c = NoFile
  <2>1. 0 \in 0 .. MaxSessions /\ 0 \in 0 .. MaxCost
    BY PlanFileTypes
  <2> QED
    BY <1>2, <2>1, NoFileFields DEF Problems
<1> QED
  BY <1>1, <1>2

LEMMA FunctionIsSeq ==
  ASSUME NEW S, NEW n \in Nat, NEW f \in [1 .. n -> S]
  PROVE  f \in Seq(S) /\ Len(f) = n
  OBVIOUS

-----------------------------------------------------------------------------
(* Numbers read one after the other.                                       *)
LEMMA DownClosedIsInterval ==
  ASSUME NEW first \in Nat, NEW last \in Nat, NEW S \in SUBSET (first .. last),
         \A n \in S : first .. n \subseteq S
  PROVE  /\ Cardinality(S) \in Nat
         /\ S = first .. first + Cardinality(S) - 1
<1>1. IsFiniteSet(S) /\ Cardinality(S) \in Nat
  <2>1. IsFiniteSet(first .. last)
    BY FS_Interval
  <2> QED
    BY <2>1, FS_Subset, FS_CardinalityType
<1>2. ASSUME NEW n \in S PROVE n <= first + Cardinality(S) - 1
  <2>1. first .. n \subseteq S /\ n \in Int /\ first <= n
    OBVIOUS
  <2>2. Cardinality(first .. n) = n - first + 1
    BY <2>1, FS_Interval
  <2>3. Cardinality(first .. n) <= Cardinality(S)
    BY <1>1, <2>1, FS_Subset
  <2> QED
    BY <1>1, <2>1, <2>2, <2>3
<1>3. ASSUME NEW n \in first .. first + Cardinality(S) - 1, n \notin S PROVE FALSE
  <2>1. S \subseteq first .. n - 1
    <3> SUFFICES ASSUME NEW m \in S PROVE m <= n - 1
      OBVIOUS
    <3> QED
      BY <1>3, <1>1
  <2>2. IsFiniteSet(first .. n - 1) /\ Cardinality(first .. n - 1) = n - first
    <3>1. n \in Int /\ n - 1 \in Int /\ first <= n
      BY <1>1
    <3>2. \A b \in Int : /\ IsFiniteSet(first .. b)
                         /\ Cardinality(first .. b) = IF first > b THEN 0 ELSE b - first + 1
      BY FS_Interval
    <3> QED
      BY <3>1, <3>2
  <2>3. Cardinality(S) <= n - first
    BY <2>1, <2>2, FS_Subset
  <2> QED
    BY <1>1, <2>3
<1>4. S \subseteq first .. first + Cardinality(S) - 1
  BY <1>1, <1>2
<1>5. first .. first + Cardinality(S) - 1 \subseteq S
  BY <1>3
<1> QED
  BY <1>1, <1>4, <1>5

\* The complete plans that process_new_plans reads.
Complete(fs, prefix, first) ==
  {n \in Contiguous(fs, prefix, first) : \A k \in first .. n : fs[<<prefix, k>>].cost # Incomplete}

LEMMA CompleteIsInterval ==
  ASSUME NEW fs \in [FileNames -> PlanContents \cup {NoFile}], NEW prefix \in Prefixes,
         NEW first \in Nat \ {0}
  PROVE  /\ NewCosts(fs, prefix, first) \in Seq(1 .. MaxCost)
         /\ Complete(fs, prefix, first) = first .. first + Len(NewCosts(fs, prefix, first)) - 1
         /\ \A i \in 1 .. Len(NewCosts(fs, prefix, first)) :
              NewCosts(fs, prefix, first)[i] = fs[<<prefix, first + i - 1>>].cost
<1> DEFINE S == Complete(fs, prefix, first)
           C == NewCosts(fs, prefix, first)
<1>1. S \in SUBSET (first .. MaxNumber) /\ MaxNumber \in Nat
  BY PlanFileTypes DEF Complete, Contiguous, MaxNumber
<1>2. \A n \in S : first .. n \subseteq S
  BY <1>1 DEF Complete, Contiguous
<1>3. Cardinality(S) \in Nat /\ S = first .. first + Cardinality(S) - 1
  BY <1>1, <1>2, DownClosedIsInterval
<1>4. C = [i \in 1 .. Cardinality(S) |-> fs[<<prefix, first + i - 1>>].cost]
  BY DEF NewCosts, Complete
<1>5. ASSUME NEW i \in 1 .. Cardinality(S) PROVE fs[<<prefix, first + i - 1>>].cost \in 1 .. MaxCost
  <2>1. first + i - 1 \in S /\ first + i - 1 \in 0 .. MaxNumber
    BY <1>1, <1>3
  <2>2. fs[<<prefix, first + i - 1>>] \in PlanContents \cup {NoFile}
    BY <2>1 DEF FileNames
  <2>3. fs[<<prefix, first + i - 1>>].cost # 0
    BY <2>1, <1>1 DEF Complete, Incomplete
  <2>4. fs[<<prefix, first + i - 1>>].cost \in 0 .. MaxCost
    BY <2>2, ContentTypes
  <2> QED
    BY <2>3, <2>4, PlanFileTypes
<1>6. C \in [1 .. Cardinality(S) -> 1 .. MaxCost]
  BY <1>3, <1>4, <1>5
<1>7. C \in Seq(1 .. MaxCost) /\ Len(C) = Cardinality(S)
  <2> HIDE DEF C, S
  <2> QED
    BY <1>3, <1>6, FunctionIsSeq
<1> QED
  BY <1>3, <1>4, <1>7

\* What process_new_plans does to manager and files.
NewPlans(m, fs, prefix) == NewCosts(fs, prefix, Len(m.costs) + 1)

NextNumber(m, fs, prefix) == Len(m.costs \o NewPlans(m, fs, prefix)) + 1

LEMMA ManagerAfterReading ==
  ASSUME NEW fs \in [FileNames -> PlanContents \cup {NoFile}], NEW prefix \in Prefixes,
         NEW m \in [costs : Seq(0 .. MaxCost), problem_type : Problems]
  PROVE  /\ process_new_plans(m, fs, prefix).manager \in [costs : Seq(0 .. MaxCost), problem_type : Problems]
         /\ process_new_plans(m, fs, prefix).manager.costs = m.costs \o NewPlans(m, fs, prefix)
         /\ NewPlans(m, fs, prefix) \in Seq(1 .. MaxCost)
         /\ Len(m.costs \o NewPlans(m, fs, prefix)) = Len(m.costs) + Len(NewPlans(m, fs, prefix))
         /\ LET torn == NextNumber(m, fs, prefix)  read == process_new_plans(m, fs, prefix) IN
            \/ /\ read.files = fs
               /\ torn \notin Contiguous(fs, prefix, torn) \/ read.bogus
            \/ /\ read.files = [fs EXCEPT ![<<prefix, torn>>] = NoFile]
               /\ torn \in Contiguous(fs, prefix, torn)
<1> DEFINE read == process_new_plans(m, fs, prefix)
           old == m.costs
           first == Len(old) + 1
           new == NewPlans(m, fs, prefix)
           torn == NextNumber(m, fs, prefix)
<1>a. m.costs = old /\ old \in Seq(0 .. MaxCost) /\ m.problem_type \in Problems
  OBVIOUS
<1>b. first = Len(old) + 1 /\ new = NewCosts(fs, prefix, first) /\ torn = Len(old \o new) + 1
  BY DEF NewPlans, NextNumber
<1> HIDE DEF old, first, new, torn
<1>1. Len(old) \in Nat /\ first \in Nat \ {0}
  <2>1. Len(old) \in Nat
    BY <1>a, LenProperties
  <2> QED
    BY <1>b, <2>1
<1>2. new \in Seq(1 .. MaxCost)
  BY <1>1, <1>b, CompleteIsInterval
<1>3. new \in Seq(0 .. MaxCost)
  <2>1. 1 .. MaxCost \subseteq 0 .. MaxCost
    BY PlanFileTypes
  <2> QED
    BY <1>2, <2>1, SeqMonotonic
<1>4. old \o new \in Seq(0 .. MaxCost) /\ Len(old \o new) = Len(old) + Len(new) /\ Len(new) \in Nat
  BY <1>a, <1>3, ConcatProperties, LenProperties
<1>5. ASSUME Len(old \o new) >= first PROVE fs[<<prefix, first>>].type \in Problems
  <2>1. Len(new) >= 1
    BY <1>1, <1>4, <1>5, <1>b
  <2>2. first \in Complete(fs, prefix, first)
    BY <1>1, <1>4, <1>b, <2>1, CompleteIsInterval
  <2>3. first \in 1 .. MaxNumber
    BY <1>1, <2>2 DEF Complete, Contiguous
  <2>4. fs[<<prefix, first>>] \in PlanContents \cup {NoFile}
    BY <2>3 DEF FileNames
  <2> QED
    BY <2>4, ContentTypes
<1>6. read.manager = [costs |-> old \o new,
         problem_type |-> IF m.problem_type # "None" \/ Len(old \o new) < first THEN m.problem_type
                          ELSE fs[<<prefix, first>>].type]
  BY <1>a, <1>b DEF process_new_plans, get_plan_counter
<1>7. Len(old \o new) < first \/ Len(old \o new) >= first
  BY <1>1, <1>4
<1>8. read.manager \in [costs : Seq(0 .. MaxCost), problem_type : Problems]
  BY <1>4, <1>5, <1>6, <1>7, <1>a
<1>9. read.manager.costs = old \o new
  BY <1>6
<1>10. \/ read.files = fs /\ (torn \notin Contiguous(fs, prefix, torn) \/ read.bogus)
       \/ read.files = [fs EXCEPT ![<<prefix, torn>>] = NoFile] /\ torn \in Contiguous(fs, prefix, torn)
  BY <1>a, <1>b DEF process_new_plans, get_plan_counter
<1> QED
  BY <1>2, <1>4, <1>8, <1>9, <1>10, <1>a DEF old, new, torn

-----------------------------------------------------------------------------
(* Types.                                                                  *)
LEMMA ArgTypes ==
  ASSUME NEW a \in CommandLines
  PROVE  /\ a.dual \in BOOLEAN /\ a.validate \in BOOLEAN /\ a.several \in BOOLEAN
         /\ a.portfolio \in {"none", "optimal", "satisficing"}
         /\ a.plan_file \in Prefixes /\ a.type \in {"unit cost", "general cost"}
  BY DEF CommandLines

LEMMA ManagerTypes ==
  ASSUME TypeInv
  PROVE  manager.costs \in Seq(0 .. MaxCost) /\ Len(manager.costs) \in Nat /\ manager.problem_type \in Problems
<1>1. manager.costs \in Seq(0 .. MaxCost) /\ manager.problem_type \in Problems
  BY DEF TypeInv, Problems
<1> QED
  BY <1>1, LenProperties

LEMMA FirstNumberType ==
  ASSUME TypeInv
  PROVE  /\ FirstNumber \in Nat
         /\ args.portfolio = "satisficing" => FirstNumber = Len(manager.costs) + 1
         /\ args.portfolio # "satisficing" => FirstNumber = IF args.several THEN 1 ELSE 0
<1>1. args.several \in BOOLEAN /\ Len(manager.costs) \in Nat
  BY ArgTypes, ManagerTypes DEF TypeInv
<1>2. CASE args.portfolio = "satisficing"
  <2>1. FirstNumber = Len(manager.costs) + 1
    BY <1>2 DEF FirstNumber, get_plan_counter
  <2> QED
    BY <1>1, <1>2, <2>1
<1>3. CASE args.portfolio # "satisficing" /\ args.several
  BY <1>3 DEF FirstNumber
<1>4. CASE args.portfolio # "satisficing" /\ ~args.several
  BY <1>4 DEF FirstNumber
<1> QED
  BY <1>1, <1>2, <1>3, <1>4

LEMMA PlanCostsTypes ==
  ASSUME NEW costs \in PlanCosts
  PROVE  /\ costs \in Seq(1 .. MaxCost) /\ Len(costs) \in Nat /\ DOMAIN costs = 1 .. Len(costs)
         /\ Decreasing(costs)
         /\ \A i \in 1 .. Len(costs) : costs[i] \in CostsBelow(SearchBound)
<1>1. PICK k \in 0 .. (IF args.several THEN MaxCost ELSE 1) : costs \in [1 .. k -> CostsBelow(SearchBound)]
  BY DEF PlanCosts
<1>2. k \in Nat
  BY <1>1, PlanFileTypes
<1>3. CostsBelow(SearchBound) \subseteq 1 .. MaxCost
  BY DEF CostsBelow
<1>4. costs \in Seq(CostsBelow(SearchBound)) /\ Len(costs) = k
  BY <1>1, <1>2, FunctionIsSeq
<1>5. Decreasing(costs)
  BY DEF PlanCosts
<1>6. costs \in Seq(1 .. MaxCost)
  BY <1>3, <1>4, SeqMonotonic
<1>7. \A i \in 1 .. Len(costs) : costs[i] \in CostsBelow(SearchBound)
  BY <1>1, <1>4
<1> QED
  BY <1>1, <1>2, <1>4, <1>5, <1>6, <1>7

\* The files after a search that wrote plans of these costs.
Written(costs, torn) == FirstNumber .. FirstNumber + Len(costs) - (IF torn THEN 0 ELSE 1)

LEMMA SavedFiles ==
  ASSUME TypeInv, pc # "idle", NEW costs \in PlanCosts, NEW torn \in BOOLEAN,
         NEW fs, fs = save_plan(files, costs, torn)
  PROVE  /\ fs \in [FileNames -> PlanContents \cup {NoFile}]
         /\ \A prefix \in Prefixes, n \in 0 .. MaxNumber :
              prefix # args.plan_file \/ n \notin Written(costs, torn) =>
                fs[<<prefix, n>>] = files[<<prefix, n>>]
         /\ \A n \in 0 .. MaxNumber : n \in Written(costs, torn) =>
              fs[<<args.plan_file, n>>] =
                [session |-> session, type |-> args.type,
                 cost |-> IF n < FirstNumber + Len(costs) THEN costs[n - FirstNumber + 1] ELSE Incomplete]
<1>1. /\ costs \in Seq(1 .. MaxCost) /\ Len(costs) \in Nat /\ DOMAIN costs = 1 .. Len(costs)
      /\ FirstNumber \in Nat
  BY PlanCostsTypes, FirstNumberType
<1> DEFINE first == FirstNumber
           last == Len(costs)
           written == {PlanNumber(i) : i \in 1 .. last + (IF torn THEN 1 ELSE 0)}
           index(n) == CHOOSE j \in 1 .. last + 1 : PlanNumber(j) = n
           content(n) == [session |-> session, type |-> args.type,
                          cost |-> IF index(n) \in DOMAIN costs THEN costs[index(n)] ELSE Incomplete]
<1>2. written = Written(costs, torn)
  <2>1. ASSUME NEW n \in Written(costs, torn) PROVE n \in written
    <3>1. n - first + 1 \in 1 .. last + (IF torn THEN 1 ELSE 0) /\ n \in Int
      BY <1>1 DEF Written
    <3>2. PlanNumber(n - first + 1) = n
      BY <1>1, <3>1 DEF PlanNumber
    <3> QED
      BY <3>1, <3>2
  <2>2. ASSUME NEW i \in 1 .. last + (IF torn THEN 1 ELSE 0) PROVE PlanNumber(i) \in Written(costs, torn)
    BY <1>1 DEF PlanNumber, Written
  <2> QED
    BY <2>1, <2>2
<1>3. fs = [name \in FileNames |->
              IF name[1] = args.plan_file /\ name[2] \in written THEN content(name[2]) ELSE files[name]]
  BY DEF save_plan, TypeInv
<1>4. ASSUME NEW n \in Written(costs, torn)
      PROVE content(n) = [session |-> session, type |-> args.type,
                          cost |-> IF n < first + last THEN costs[n - first + 1] ELSE Incomplete]
  <2>1. n - first + 1 \in 1 .. last + 1 /\ n \in Int
    BY <1>1 DEF Written
  <2>2. \A j \in 1 .. last + 1 : PlanNumber(j) = n <=> j = n - first + 1
    BY <1>1, <2>1 DEF PlanNumber
  <2>3. index(n) = n - first + 1
    BY <2>1, <2>2
  <2>4. n - first + 1 \in DOMAIN costs <=> n < first + last
    BY <1>1, <2>1
  <2>5. content(n).cost = IF n < first + last THEN costs[n - first + 1] ELSE Incomplete
    <3> HIDE DEF index
    <3> QED
      BY <2>3, <2>4
  <2> QED
    BY <2>5
<1>5. ASSUME NEW n \in Written(costs, torn) PROVE content(n) \in PlanContents
  <2>1. n \in Int /\ (n < first + last => n - first + 1 \in 1 .. last)
    BY <1>1 DEF Written
  <2>2. n < first + last => costs[n - first + 1] \in 1 .. MaxCost
    BY <1>1, <2>1, ElementOfSeq
  <2>3. 1 .. MaxCost \subseteq 0 .. MaxCost /\ 0 \in 0 .. MaxCost
    BY PlanFileTypes
  <2>4. session \in 1 .. MaxSessions
    <3>1. session \in 0 .. MaxSessions /\ session > 0
      BY DEF TypeInv
    <3> QED
      BY <3>1, PlanFileTypes
  <2>5. args.type \in {"unit cost", "general cost"}
    BY ArgTypes DEF TypeInv
  <2>6. (IF n < first + last THEN costs[n - first + 1] ELSE Incomplete) \in 0 .. MaxCost
    BY <2>2, <2>3 DEF Incomplete
  <2> QED
    BY <1>4, <2>4, <2>5, <2>6 DEF PlanContents
<1>6. ASSUME NEW name \in FileNames PROVE files[name] \in PlanContents \cup {NoFile}
  BY DEF TypeInv
<1> HIDE DEF written, content, index
<1>7. fs \in [FileNames -> PlanContents \cup {NoFile}]
  BY <1>2, <1>3, <1>5, <1>6
<1>8. ASSUME NEW prefix \in Prefixes, NEW n \in 0 .. MaxNumber
      PROVE fs[<<prefix, n>>] = IF prefix = args.plan_file /\ n \in written THEN content(n)
                                ELSE files[<<prefix, n>>]
  <2>1. <<prefix, n>> \in FileNames
    BY DEF FileNames
  <2> QED
    BY <1>3, <2>1
<1>9. args.plan_file \in Prefixes
  BY ArgTypes DEF TypeInv
<1> QED
  BY <1>2, <1>4, <1>7, <1>8, <1>9

\* What a step of a portfolio does to the exit codes.
Fields == {"configs", "pos", "round", "configs_next_round", "mode", "changed_cost_types", "exitcodes"}

LEMMA StartFields ==
  /\ DOMAIN NoPortfolio = Fields /\ NoPortfolio.exitcodes = {}
  /\ \A configs : DOMAIN Start(configs) = Fields /\ Start(configs).exitcodes = {}
  BY DEF NoPortfolio, Start, Fields

LEMMA PortfolioSteps ==
  ASSUME NEW p0, DOMAIN p0 = Fields, NEW code, NEW type, NEW o
  PROVE  /\ DOMAIN run_sat_Continue(p0, code, type, o) = Fields
         /\ run_sat_Continue(p0, code, type, o).exitcodes = p0.exitcodes \cup {code}
         /\ DOMAIN run_opt_Continue(p0, code) = Fields
         /\ run_opt_Continue(p0, code).exitcodes = p0.exitcodes \cup {code}
         /\ run_opt_Continue(p0, code).mode # "end" => code # PLAN_FOUND
<1> DEFINE Kept(q) == DOMAIN q = Fields /\ q.exitcodes = p0.exitcodes \cup {code}
           p == [p0 EXCEPT !.exitcodes = @ \cup {code}]
           found == [p EXCEPT !.configs_next_round = Append(@, p.configs[p.pos])]
<1>1. Kept(p) /\ Kept(found)
  BY DEF Fields
<1>2. ASSUME NEW q, Kept(q), NEW final \in BOOLEAN PROVE Kept(EndOfRound(q, final))
  <2>1. CASE final
    BY <1>2, <2>1 DEF EndOfRound, Fields
  <2>2. CASE ~final
    BY <1>2, <2>2 DEF EndOfRound, Fields
  <2> QED
    BY <2>1, <2>2
<1>3. ASSUME NEW q, Kept(q), NEW final \in BOOLEAN PROVE Kept(Advance(q, final))
  <2> HIDE DEF Kept
  <2>1. CASE q.pos < Len(q.configs)
    BY <1>3, <2>1 DEF Advance, Fields, Kept
  <2>2. CASE ~(q.pos < Len(q.configs))
    BY <1>2, <1>3, <2>2 DEF Advance
  <2> QED
    BY <2>1, <2>2
<1>4. ASSUME NEW q, Kept(q) PROVE Kept(AfterPlan(q, o))
  <2> HIDE DEF Kept
  <2>1. CASE o.final = "builder"
    BY <1>4, <2>1 DEF AfterPlan, Fields, Kept
  <2>2. CASE o.final # "builder"
    BY <1>3, <1>4, <2>2 DEF AfterPlan
  <2> QED
    BY <2>1, <2>2
<1>5. Kept([p EXCEPT !.mode = "end"]) /\ Kept([found EXCEPT !.mode = "repeat", !.changed_cost_types = TRUE])
  BY <1>1 DEF Fields
<1>6. Kept(run_sat_Continue(p0, code, type, o))
  <2>1. run_sat_Continue(p0, code, type, o) \in
          {[p EXCEPT !.mode = "end"], AfterPlan(p, o), Advance(p, o.final = "config"),
           [found EXCEPT !.mode = "repeat", !.changed_cost_types = TRUE], AfterPlan(found, o)}
    BY DEF run_sat_Continue
  <2>2. Kept(AfterPlan(p, o)) /\ Kept(AfterPlan(found, o)) /\ Kept(Advance(p, o.final = "config"))
    BY <1>1, <1>3, <1>4
  <2> HIDE DEF Kept, p, found
  <2> QED
    BY <1>5, <2>1, <2>2
<1>7. Kept(run_opt_Continue(p0, code))
  <2>1. run_opt_Continue(p0, code) \in {[p EXCEPT !.mode = "end"], [p EXCEPT !.pos = @ + 1]}
    BY DEF run_opt_Continue
  <2>2. Kept([p EXCEPT !.pos = @ + 1])
    BY <1>1 DEF Fields
  <2> HIDE DEF Kept, p
  <2> QED
    BY <1>5, <2>1, <2>2
<1>8. code = PLAN_FOUND => run_opt_Continue(p0, code) = [p EXCEPT !.mode = "end"]
  BY DEF run_opt_Continue
<1>9. [p EXCEPT !.mode = "end"].mode = "end"
  BY <1>1 DEF Fields
<1> QED
  BY <1>6, <1>7, <1>8, <1>9

LEMMA TypeInvInitially == Init => TypeInv
<1> SUFFICES ASSUME Init PROVE TypeInv
  OBVIOUS
<1>1. args \in CommandLines
  BY DriverAssumption DEF Init
<1>2. files \in [FileNames -> PlanContents \cup {NoFile}]
  BY DEF Init
<1>3. manager \in [costs : Seq(0 .. MaxCost), problem_type : Problems]
  BY EmptySeq DEF Init, EmptyManager, Problems
<1>4. session \in 0 .. MaxSessions
  BY PlanFileTypes DEF Init
<1> QED
  BY <1>1, <1>2, <1>3, <1>4 DEF Init, TypeInv, Problems

LEMMA EmptyManagerType == EmptyManager \in [costs : Seq(0 .. MaxCost), problem_type : Problems]
  BY EmptySeq DEF EmptyManager, Problems

LEMMA TypeInvIsKept == TypeInv /\ [Next]_vars => TypeInv'
<1> SUFFICES ASSUME TypeInv, [Next]_vars PROVE TypeInv'
  OBVIOUS
<1> USE DEF sessionVars, fileVars, searchVars
<1> DEFINE Types == /\ args' \in CommandLines
                    /\ files' \in [FileNames -> PlanContents \cup {NoFile}]
                    /\ manager' \in [costs : Seq(0 .. MaxCost), problem_type : Problems]
                    /\ number' \in Nat
                    /\ DOMAIN portfolio' = Fields
<1>0. /\ args \in CommandLines
      /\ files \in [FileNames -> PlanContents \cup {NoFile}]
      /\ manager \in [costs : Seq(0 .. MaxCost), problem_type : Problems]
      /\ number \in Nat
      /\ DOMAIN portfolio = Fields
      /\ session \in 0 .. MaxSessions /\ (pc # "idle" => session > 0)
  BY StartFields DEF TypeInv, Problems
<1>1. session' \in 0 .. MaxSessions /\ (pc' # "idle" => session' > 0)
  <2>1. CASE main
    BY <1>0, <2>1, PlanFileTypes DEF main, Begin
  <2>2. CASE cleanup_temporary_files
    BY <1>0, <2>2 DEF cleanup_temporary_files
  <2>3. CASE Component \/ Killed
    <3>1. session' = session /\ pc # "idle"
      BY <2>3 DEF Component, Killed, run_translate, run_1_bfws, run_1_bfws_done, run_preprocess, run_search,
        delete_existing_plans, run_sat_config, run_opt_config, run_single_search, run_portfolio_search,
        collect_sat, collect_opt, run_portfolio, run_validate, exit
    <3> QED
      BY <1>0, <3>1
  <2>4. CASE UNCHANGED vars
    BY <1>0, <2>4 DEF vars
  <2> QED
    BY <2>1, <2>2, <2>3, <2>4 DEF Next, Call
<1> SUFFICES Types
  BY <1>1, StartFields DEF TypeInv, Problems
<1>2. CASE main
  <2>1. PICK o \in Options : Begin(o, "translate")
    BY <1>2 DEF main
  <2>2. o \in CommandLines
    BY DriverAssumption
  <2> QED
    BY <1>0, <2>1, <2>2, EmptyManagerType, StartFields DEF Begin
<1>3. CASE cleanup_temporary_files
  <2>1. PICK prefix \in Prefixes : args' = [args EXCEPT !.plan_file = prefix] /\ number' = 0
    BY <1>3 DEF cleanup_temporary_files
  <2>2. args' \in CommandLines
    BY <1>0, <2>1 DEF CommandLines
  <2> QED
    BY <1>0, <1>3, <2>1, <2>2 DEF cleanup_temporary_files
<1>4. CASE Killed \/ run_translate \/ run_1_bfws \/ run_preprocess
  BY <1>0, <1>4 DEF Killed, run_translate, run_1_bfws, run_preprocess
<1>5. CASE run_search
  BY <1>0, <1>5, EmptyManagerType DEF run_search
<1>6. CASE run_1_bfws_done
  <2>1. session \in 1 .. MaxSessions
    BY <1>0, <1>6, PlanFileTypes DEF run_1_bfws_done
  <2>2. args.type \in {"unit cost", "general cost"}
    BY <1>0, ArgTypes
  <2>3. MaxCost \in 0 .. MaxCost /\ Incomplete \in 0 .. MaxCost
    BY PlanFileTypes DEF Incomplete
  <2>4. /\ [session |-> session, cost |-> MaxCost, type |-> args.type] \in PlanContents
        /\ [session |-> session, cost |-> Incomplete, type |-> args.type] \in PlanContents
    BY <2>1, <2>2, <2>3 DEF PlanContents
  <2>5. files' \in [FileNames -> PlanContents \cup {NoFile}]
    BY <1>0, <1>6, <2>4 DEF run_1_bfws_done
  <2> QED
    BY <1>0, <1>6, <2>5 DEF run_1_bfws_done
<1>7. CASE delete_existing_plans
  <2>1. files' \in [FileNames -> PlanContents \cup {NoFile}]
    BY <1>0, <1>7 DEF delete_existing_plans, RemovePlan
  <2>2. number' \in Nat /\ DOMAIN portfolio' = Fields
    BY <1>0, <1>7, StartFields DEF delete_existing_plans
  <2> QED
    BY <1>0, <1>7, <2>1, <2>2 DEF delete_existing_plans
<1>8. CASE run_sat_config \/ run_opt_config
  BY <1>0, <1>8 DEF run_sat_config, run_opt_config
<1>9. CASE run_single_search \/ run_portfolio_search
  <2>1. PICK costs \in PlanCosts, torn \in BOOLEAN : files' = save_plan(files, costs, torn)
    BY <1>9 DEF run_single_search, run_portfolio_search
  <2>2. pc # "idle"
    BY <1>9 DEF run_single_search, run_portfolio_search
  <2>3. files' \in [FileNames -> PlanContents \cup {NoFile}]
    BY <2>1, <2>2, SavedFiles
  <2> QED
    BY <1>0, <1>9, <2>3 DEF run_single_search, run_portfolio_search
<1>10. CASE collect_sat
  <2> DEFINE read == process_new_plans(manager, files, args.plan_file)
             torn == NextNumber(manager, files, args.plan_file)
  <2>1. args.plan_file \in Prefixes
    BY <1>0, ArgTypes
  <2>2. /\ read.manager \in [costs : Seq(0 .. MaxCost), problem_type : Problems]
        /\ read.files = files \/ read.files = [files EXCEPT ![<<args.plan_file, torn>>] = NoFile]
    BY <1>0, <2>1, ManagerAfterReading
  <2>3. manager' = read.manager /\ files' = read.files
    BY <1>10 DEF collect_sat
  <2>4. files' \in [FileNames -> PlanContents \cup {NoFile}]
    BY <1>0, <2>2, <2>3
  <2>5. DOMAIN portfolio' = Fields
    <3>1. UNCHANGED portfolio \/ portfolio' = run_sat_Continue(portfolio, exitcode, read.manager.problem_type, args)
      BY <1>10 DEF collect_sat, Continue
    <3> QED
      BY <1>0, <3>1, PortfolioSteps
  <2> QED
    BY <1>0, <1>10, <2>2, <2>3, <2>4, <2>5 DEF collect_sat
<1>11. CASE collect_opt
  <2>1. DOMAIN portfolio' = Fields
    BY <1>0, <1>11, PortfolioSteps DEF collect_opt, Continue
  <2> QED
    BY <1>0, <1>11, <2>1 DEF collect_opt
<1>12. CASE run_portfolio \/ run_validate \/ exit
  BY <1>0, <1>12 DEF run_portfolio, run_validate, exit
<1>13. CASE UNCHANGED vars
  BY <1>0, <1>13 DEF vars
<1> QED
  BY <1>2, <1>3, <1>4, <1>5, <1>6, <1>7, <1>8, <1>9, <1>10, <1>11, <1>12, <1>13 DEF Next, Call, Component

-----------------------------------------------------------------------------
(* Whose files there are.                                                  *)
LEMMA TaskInvInitially == Init => TaskInv
  BY DEF Init, TaskInv

LEMMA TaskInvIsKept == TaskInv /\ [Next]_vars => TaskInv'
<1> SUFFICES ASSUME TaskInv, [Next]_vars PROVE TaskInv'
  OBVIOUS
<1> USE DEF TaskInv, sessionVars, fileVars, searchVars, End, CalledProcessError, Fail
<1>1. CASE main \/ cleanup_temporary_files \/ Killed
  BY <1>1 DEF main, Begin, cleanup_temporary_files, Killed
<1>2. CASE run_translate \/ run_1_bfws
  BY <1>2 DEF run_translate, run_1_bfws
<1>3. CASE run_1_bfws_done
  BY <1>3 DEF run_1_bfws_done, PlanIpcSize
<1>4. CASE run_preprocess
  BY <1>4 DEF run_preprocess
<1>5. CASE run_search
  BY <1>5 DEF run_search, Validation
<1>6. CASE delete_existing_plans
  BY <1>6 DEF delete_existing_plans
<1>7. CASE run_sat_config \/ run_opt_config
  BY <1>7 DEF run_sat_config, run_opt_config
<1>8. CASE run_single_search \/ run_portfolio_search
  BY <1>8 DEF run_single_search, run_portfolio_search, Validation
<1>9. CASE collect_sat \/ collect_opt
  BY <1>9 DEF collect_sat, collect_opt, Continue
<1>10. CASE run_portfolio \/ run_validate \/ exit
  BY <1>10 DEF run_portfolio, run_validate, exit, Validation
<1>11. CASE UNCHANGED vars
  BY <1>11 DEF vars
<1> QED
  BY <1>1, <1>2, <1>3, <1>4, <1>5, <1>6, <1>7, <1>8, <1>9, <1>10, <1>11 DEF Next, Call, Component

LEMMA SessionInvInitially == Init => SessionInv
<1> SUFFICES ASSUME Init, NEW name \in FileNames PROVE files[name].session <= session /\ ~NothingWritten
  BY DEF SessionInv
<1>1. files[name] = NoFile /\ session = 0 /\ pc = "idle"
  BY DEF Init
<1>2. files[name].session = 0
  BY <1>1, NoFileFields
<1>3. ~NothingWritten
  BY <1>1 DEF NothingWritten
<1> QED
  BY <1>1, <1>2, <1>3

LEMMA SessionInvIsKept == TypeInv /\ TaskInv /\ SessionInv /\ [Next]_vars => SessionInv'
<1> SUFFICES ASSUME TypeInv, TaskInv, SessionInv, [Next]_vars, NEW name \in FileNames
             PROVE  /\ files'[name].session <= session'
                    /\ NothingWritten' => files'[name].session < session'
  BY DEF SessionInv
<1> USE DEF sessionVars, fileVars, searchVars, End, CalledProcessError, Fail
<1>a. /\ files[name].session \in Nat /\ session \in Nat /\ (pc # "idle" => session > 0)
      /\ files[name].session <= session /\ (NothingWritten => files[name].session < session)
      /\ NoFile.session = 0
  <2>1. files[name] \in PlanContents \cup {NoFile}
    BY DEF TypeInv
  <2>2. files[name].session \in 0 .. MaxSessions /\ session \in 0 .. MaxSessions
    BY <2>1, ContentTypes DEF TypeInv
  <2>3. pc # "idle" => session > 0
    BY DEF TypeInv
  <2>4. files[name].session <= session /\ (NothingWritten => files[name].session < session)
    BY DEF SessionInv
  <2>5. files[name].session \in Nat /\ session \in Nat
    BY <2>2
  <2> QED
    BY <2>3, <2>4, <2>5, NoFileFields, Zenon
<1>1. CASE main
  <2>1. session' = session + 1 /\ files' = files
    BY <1>1 DEF main, Begin
  <2> QED
    BY <1>a, <2>1
<1>2. CASE cleanup_temporary_files \/ Killed
  <2>1. session' = session /\ files' = files /\ ~NothingWritten'
    BY <1>2 DEF cleanup_temporary_files, Killed, NothingWritten
  <2> QED
    BY <1>a, <2>1
<1>3. CASE run_translate \/ run_1_bfws \/ run_preprocess \/ run_search
  <2>1. session' = session /\ files' = files
    BY <1>3 DEF run_translate, run_1_bfws, run_preprocess, run_search
  <2>2. NothingWritten' => NothingWritten
    BY <1>3 DEF NothingWritten, TaskInv, run_translate, run_1_bfws, run_preprocess, run_search, Validation
  <2> QED
    BY <1>a, <2>1, <2>2
<1>4. CASE run_1_bfws_done
  <2>1. session' = session
    BY <1>4 DEF run_1_bfws_done
  <2>2. CASE files' = files
    <3>1. NothingWritten
      BY <1>4 DEF run_1_bfws_done, NothingWritten
    <3> QED
      BY <1>a, <2>1, <2>2, <3>1
  <2>3. CASE plan_found' /\ files' # files
    <3>1. ~NothingWritten'
      BY <1>4, <2>3 DEF run_1_bfws_done, NothingWritten
    <3>2. \E cost : files' = [files EXCEPT ![<<"sas_plan", 0>>] =
                                 [session |-> session, cost |-> cost, type |-> args.type]]
      <4>1. CASE plan_ipc = "plan"
        BY <1>4, <2>3, <4>1 DEF run_1_bfws_done
      <4>2. CASE plan_ipc # "plan"
        BY <1>4, <2>3, <4>2 DEF run_1_bfws_done
      <4> QED
        BY <4>1, <4>2
    <3>3. files'[name] = files[name] \/ files'[name].session = session
      <4>1. PICK cost : files' = [files EXCEPT ![<<"sas_plan", 0>>] =
                                    [session |-> session, cost |-> cost, type |-> args.type]]
        BY <3>2
      <4>2. CASE name = <<"sas_plan", 0>>
        BY <4>1, <4>2 DEF TypeInv
      <4>3. CASE name # <<"sas_plan", 0>>
        BY <4>1, <4>3 DEF TypeInv
      <4> QED
        BY <4>2, <4>3
    <3> QED
      BY <1>a, <2>1, <3>1, <3>3
  <2> QED
    BY <1>4, <2>2, <2>3 DEF run_1_bfws_done
<1>5. CASE delete_existing_plans
  <2>1. session' = session /\ pc # "idle"
    BY <1>5 DEF delete_existing_plans
  <2>2. files'[name] = files[name] \/ files'[name] = NoFile
    BY <1>5 DEF delete_existing_plans, RemovePlan, TypeInv
  <2>3. NothingWritten' => NothingWritten
    BY <1>5 DEF delete_existing_plans, NothingWritten
  <2> QED
    BY <1>a, <2>1, <2>2, <2>3
<1>6. CASE run_sat_config \/ run_opt_config \/ collect_opt \/ run_portfolio \/ run_validate \/ exit
  <2>1. session' = session /\ files' = files
    BY <1>6 DEF run_sat_config, run_opt_config, collect_opt, run_portfolio, run_validate, exit
  <2>2. ~NothingWritten'
    BY <1>6 DEF run_sat_config, run_opt_config, collect_opt, run_portfolio, run_validate, exit, Validation,
      Continue, NothingWritten
  <2> QED
    BY <1>a, <2>1, <2>2
<1>7. CASE run_single_search \/ run_portfolio_search
  <2>1. PICK costs \in PlanCosts, torn \in BOOLEAN : files' = save_plan(files, costs, torn)
    BY <1>7 DEF run_single_search, run_portfolio_search
  <2>2. session' = session /\ pc # "idle" /\ ~NothingWritten'
    BY <1>7 DEF run_single_search, run_portfolio_search, Validation, NothingWritten
  <2>3. PICK prefix \in Prefixes, n \in 0 .. MaxNumber : name = <<prefix, n>>
    BY DEF FileNames
  <2>4. files'[<<prefix, n>>] = files[<<prefix, n>>] \/ files'[<<prefix, n>>].session = session
    <3>1. CASE prefix # args.plan_file \/ n \notin Written(costs, torn)
      BY <2>1, <2>2, <3>1, SavedFiles
    <3>2. CASE prefix = args.plan_file /\ n \in Written(costs, torn)
      <4>1. files'[<<args.plan_file, n>>] =
              [session |-> session, type |-> args.type,
               cost |-> IF n < FirstNumber + Len(costs) THEN costs[n - FirstNumber + 1] ELSE Incomplete]
        BY <2>1, <2>2, <3>2, SavedFiles
      <4> QED
        BY <3>2, <4>1
    <3> QED
      BY <3>1, <3>2
  <2> QED
    BY <1>a, <2>2, <2>3, <2>4
<1>8. CASE collect_sat
  <2>1. session' = session /\ ~NothingWritten'
    BY <1>8 DEF collect_sat, Continue, NothingWritten
  <2>2. files'[name] = files[name] \/ files'[name] = NoFile
    BY <1>8 DEF collect_sat, process_new_plans, TypeInv
  <2> QED
    BY <1>a, <2>1, <2>2
<1>9. CASE UNCHANGED vars
  BY <1>a, <1>9 DEF vars, NothingWritten
<1> QED
  BY <1>1, <1>2, <1>3, <1>4, <1>5, <1>6, <1>7, <1>8, <1>9 DEF Next, Call, Component

-----------------------------------------------------------------------------
(* Which plans the manager has counted.                                    *)
LEMMA PlanExists ==
  ASSUME NEW c, IsPlan(c) PROVE c # NoFile
  BY NoFileFields DEF IsPlan, Incomplete

LEMMA Names ==
  ASSUME TypeInv, NEW n \in 0 .. MaxNumber
  PROVE  /\ args.plan_file \in Prefixes
         /\ <<args.plan_file, n>> \in FileNames
         /\ File(n) \in PlanContents \cup {NoFile}
         /\ Exists(files, <<args.plan_file, n>>) <=> File(n) # NoFile
<1>1. args.plan_file \in Prefixes
  BY ArgTypes DEF TypeInv
<1>2. <<args.plan_file, n>> \in FileNames
  BY <1>1 DEF FileNames
<1> QED
  BY <1>1, <1>2 DEF TypeInv, File, Exists

LEMMA NumberTypes ==
  /\ MaxNumber \in Nat /\ MaxNumber >= 2 /\ Numbers = 1 .. MaxNumber /\ Numbers \subseteq 0 .. MaxNumber
  /\ 1 \in Numbers /\ 0 \in 0 .. MaxNumber /\ 1 \in 0 .. MaxNumber
  BY PlanFileTypes DEF MaxNumber, Numbers

LEMMA CountedInvInitially == Init => CountedInv
  BY DEF Init, CountedInv

\* Before the first search the last plan is removed.
LEMMA CountedAfterRemoval ==
  ASSUME TypeInv, TaskInv, SessionInv, CountedInv, delete_existing_plans PROVE CountedInv'
<1> SUFFICES ASSUME args.portfolio = "satisficing", pc = "delete" PROVE CountedInv'
  BY DEF delete_existing_plans, sessionVars, CountedInv, End
<1>1. /\ manager = EmptyManager /\ (number > 1 => ~Exists(files, <<args.plan_file, 1>>))
      /\ number \in Nat /\ args' = args /\ session' = session /\ manager' = manager
  BY DEF CountedInv, TypeInv, delete_existing_plans, sessionVars
<1>2. CASE ~LastRemoval(files, args.plan_file, number)
  <2>1. /\ pc' = "delete" /\ number' = number + 1
        /\ files' = [files EXCEPT ![<<args.plan_file, number>>] = NoFile]
    BY <1>2 DEF delete_existing_plans, RemovePlan
  <2>2. number' > 1 => number = 1 \/ number > 1
    BY <1>1, <2>1
  <2>3. number = 1 \/ number > 1 => ~Exists(files', <<args.plan_file, 1>>)
    BY <1>1, <2>1 DEF Exists, TypeInv
  <2> QED
    BY <1>1, <2>1, <2>2, <2>3 DEF CountedInv
<1>3. CASE LastRemoval(files, args.plan_file, number)
  <2>1. files' = files /\ pc' = "launch"
    BY <1>3 DEF delete_existing_plans
  <2>2. ~Exists(files, <<args.plan_file, 1>>)
    <3>1. number = 1 \/ number > 1
      BY <1>1, <1>3 DEF LastRemoval
    <3> QED
      BY <1>1, <1>3, <3>1 DEF LastRemoval
  <2>3. ASSUME NEW n \in Numbers PROVE ~IsPlan(File(n))
    <3>1. File(n).session < session
      BY <2>3, Names, NumberTypes DEF SessionInv, NothingWritten, File
    <3>2. File(n).session \in 0 .. MaxSessions
      BY <2>3, Names, NumberTypes, ContentTypes
    <3> QED
      BY <3>1, <3>2 DEF IsPlan
  <2>4. ASSUME NEW n \in Numbers PROVE ~IsPlan(File(n))'
    BY <1>1, <2>1, <2>3 DEF IsPlan, File
  <2>5. manager.costs = <<>>
    BY <1>1 DEF EmptyManager
  <2> QED
    BY <1>1, <2>1, <2>2, <2>4, <2>5 DEF CountedInv
<1> QED
  BY <1>2, <1>3

\* A search numbers its plans from the first one that is not counted.
LEMMA CountedAfterSearch ==
  ASSUME TypeInv, CountedInv, run_portfolio_search PROVE CountedInv'
<1> SUFFICES ASSUME args.portfolio = "satisficing" PROVE CountedInv'
  BY DEF run_portfolio_search, sessionVars, CountedInv
<1> DEFINE L == Len(manager.costs)
<1>1. /\ pc = "engine" /\ pc' = "collect" /\ args' = args /\ session' = session /\ manager' = manager
  BY DEF run_portfolio_search, sessionVars, searchVars
<1>2. PICK costs \in PlanCosts, torn \in BOOLEAN : files' = save_plan(files, costs, torn)
  BY DEF run_portfolio_search
<1>3. /\ L \in Nat /\ FirstNumber = L + 1 /\ Len(costs) \in Nat
      /\ \A i \in 1 .. Len(costs) : costs[i] \in 1 .. MaxCost
  BY ManagerTypes, FirstNumberType, PlanCostsTypes, ElementOfSeq
<1>4. /\ \A n \in Numbers : IsPlan(File(n)) => n <= L
      /\ manager.costs = <<>> => ~Exists(files, <<args.plan_file, 1>>)
      /\ manager.costs # <<>> => IsPlan(File(1))
  BY <1>1 DEF CountedInv
<1>5. \A n \in Numbers : n \notin Written(costs, torn) => File(n)' = File(n)
  BY <1>1, <1>2, Names, NumberTypes, SavedFiles DEF File
<1>6. ASSUME NEW n \in Numbers, n \in Written(costs, torn)
      PROVE File(n)' = [session |-> session, type |-> args.type,
                        cost |-> IF n < FirstNumber + Len(costs) THEN costs[n - FirstNumber + 1] ELSE Incomplete]
  BY <1>1, <1>2, <1>6, NumberTypes, SavedFiles DEF File
<1>7. ASSUME NEW n \in Numbers, n \in Written(costs, torn)
      PROVE /\ File(n)'.session = session
            /\ n < L + 1 + Len(costs) => File(n)'.cost \in 1 .. MaxCost
            /\ ~(n < L + 1 + Len(costs)) => File(n)'.cost = Incomplete
  <2>1. n \in Int /\ n >= L + 1
    BY <1>3, <1>7 DEF Written
  <2>2. n < L + 1 + Len(costs) => n - (L + 1) + 1 \in 1 .. Len(costs)
    BY <1>3, <2>1
  <2> QED
    BY <1>3, <1>6, <1>7, <2>2
<1>8. ASSUME NEW n \in Numbers, IsPlan(File(n))', NEW k \in L + 1 .. n PROVE IsPlan(File(k))'
  <2>1. n \in Written(costs, torn)
    <3> SUFFICES ASSUME n \notin Written(costs, torn) PROVE FALSE
      OBVIOUS
    <3>1. IsPlan(File(n))
      BY <1>1, <1>5, <1>8 DEF IsPlan
    <3> QED
      BY <1>3, <1>4, <1>8, <3>1, NumberTypes
  <2>2. n < L + 1 + Len(costs)
    BY <1>7, <1>8, <2>1 DEF IsPlan
  <2>3. k \in Written(costs, torn) /\ k < L + 1 + Len(costs) /\ k \in Numbers
    BY <1>3, <2>1, <2>2, NumberTypes DEF Written
  <2> QED
    BY <1>1, <1>7, <2>3, PlanFileTypes DEF IsPlan, Incomplete
<1>9. manager.costs = <<>> /\ Exists(files', <<args.plan_file, 1>>) => File(1)'.session = session
  <2>1. CASE 1 \in Written(costs, torn)
    BY <1>7, <2>1, NumberTypes
  <2>2. CASE 1 \notin Written(costs, torn)
    <3>1. files'[<<args.plan_file, 1>>] = files[<<args.plan_file, 1>>] /\ <<args.plan_file, 1>> \in DOMAIN files
      BY <1>1, <1>5, <2>2, Names, NumberTypes DEF File, TypeInv
    <3> QED
      BY <1>4, <3>1 DEF Exists
  <2> QED
    BY <2>1, <2>2
<1>10. manager.costs # <<>> => IsPlan(File(1))'
  <2> SUFFICES ASSUME manager.costs # <<>> PROVE IsPlan(File(1))'
    OBVIOUS
  <2>1. L # 0
    BY ManagerTypes, EmptySeq
  <2>2. 1 \notin Written(costs, torn)
    BY <1>3, <2>1 DEF Written
  <2> QED
    BY <1>1, <1>4, <1>5, <2>2, NumberTypes DEF IsPlan
<1> QED
  BY <1>1, <1>8, <1>9, <1>10 DEF CountedInv

\* Reading the plans counts all of them: what is not counted is incomplete.
LEMMA CountedAfterReading ==
  ASSUME TypeInv, CountedInv, collect_sat PROVE CountedInv'
<1> DEFINE L == Len(manager.costs)
           new == NewPlans(manager, files, args.plan_file)
           torn == NextNumber(manager, files, args.plan_file)
           read == process_new_plans(manager, files, args.plan_file)
<1>1. /\ args.portfolio = "satisficing" /\ pc = "collect" /\ args' = args /\ session' = session
      /\ files' = read.files /\ manager' = read.manager
  BY DEF collect_sat, sessionVars
<1> SUFFICES ASSUME pc' = "launch", ~read.bogus PROVE CountedInv'
  <2>1. pc' \in {"idle", "portfolio"} \/ (pc' = "launch" /\ ~read.bogus)
    BY DEF collect_sat, Continue, Fail, End
  <2> QED
    BY <2>1 DEF CountedInv
<1>2. /\ args.plan_file \in Prefixes /\ L \in Nat
      /\ manager \in [costs : Seq(0 .. MaxCost), problem_type : Problems]
      /\ files \in [FileNames -> PlanContents \cup {NoFile}]
  BY ArgTypes, ManagerTypes DEF TypeInv, Problems
<1>3. /\ manager'.costs \in Seq(0 .. MaxCost)
      /\ new \in Seq(1 .. MaxCost) /\ Len(new) \in Nat
      /\ Len(manager'.costs) = L + Len(new) /\ torn = L + Len(new) + 1
      /\ \/ files' = files /\ torn \notin Contiguous(files, args.plan_file, torn)
         \/ files' = [files EXCEPT ![<<args.plan_file, torn>>] = NoFile]
  <2>1. /\ read.manager \in [costs : Seq(0 .. MaxCost), problem_type : Problems]
        /\ read.manager.costs = manager.costs \o new
        /\ new \in Seq(1 .. MaxCost)
        /\ Len(manager.costs \o new) = L + Len(new)
        /\ \/ /\ read.files = files
              /\ torn \notin Contiguous(files, args.plan_file, torn) \/ read.bogus
           \/ /\ read.files = [files EXCEPT ![<<args.plan_file, torn>>] = NoFile]
              /\ torn \in Contiguous(files, args.plan_file, torn)
    BY <1>2, ManagerAfterReading
  <2>2. Len(new) \in Nat
    BY <2>1, LenProperties
  <2> QED
    BY <1>1, <2>1, <2>2 DEF NextNumber
<1>4. Complete(files, args.plan_file, L + 1) = L + 1 .. L + Len(new)
  <2>1. L + 1 \in Nat \ {0} /\ new = NewCosts(files, args.plan_file, L + 1)
    BY <1>2 DEF NewPlans
  <2>2. Complete(files, args.plan_file, L + 1) = L + 1 .. L + 1 + Len(new) - 1
    <3> HIDE DEF L, new
    <3> QED
      BY <1>2, <2>1, CompleteIsInterval
  <2>3. L + 1 + Len(new) - 1 = L + Len(new)
    BY <1>2, <1>3
  <2> QED
    BY <2>2, <2>3
<1>5. /\ \A n \in Numbers : IsPlan(File(n)) => \A k \in L + 1 .. n : IsPlan(File(k))
      /\ manager.costs = <<>> /\ Exists(files, <<args.plan_file, 1>>) => File(1).session = session
      /\ manager.costs # <<>> => IsPlan(File(1))
  BY <1>1 DEF CountedInv
<1> HIDE DEF L, new, torn, read
<1>6. ASSUME NEW n \in Numbers PROVE /\ n # torn => File(n)' = File(n)
                                     /\ File(n)' # NoFile => File(n)' = File(n)
  BY <1>1, <1>3, NumberTypes, Names DEF File, TypeInv
<1>7. ASSUME NEW n \in Numbers, IsPlan(File(n))' PROVE n <= Len(manager'.costs)
  <2>1. IsPlan(File(n))
    <3>1. File(n)' # NoFile
      BY <1>7, NoFileFields DEF IsPlan, Incomplete
    <3> QED
      BY <1>1, <1>6, <1>7, <3>1 DEF IsPlan
  <2> SUFFICES ASSUME n > L PROVE n <= L + Len(new)
    BY <1>2, <1>3, NumberTypes
  <2>2. \A k \in L + 1 .. n : Exists(files, <<args.plan_file, k>>) /\ File(k).cost # Incomplete
    <3> SUFFICES ASSUME NEW k \in L + 1 .. n
                 PROVE Exists(files, <<args.plan_file, k>>) /\ File(k).cost # Incomplete
      OBVIOUS
    <3>1. k \in Numbers /\ k \in 0 .. MaxNumber
      BY <1>2, NumberTypes
    <3>2. IsPlan(File(k))
      BY <1>5, <2>1
    <3> QED
      BY <3>1, <3>2, Names, PlanExists DEF IsPlan
  <2>3. n \in L + 1 .. MaxNumber
    BY <1>2, NumberTypes
  <2>4. n \in Complete(files, args.plan_file, L + 1)
    BY <2>2, <2>3 DEF Complete, Contiguous, File
  <2> QED
    BY <1>2, <1>3, <1>4, <2>4
<1>8. ASSUME manager'.costs = <<>> PROVE ~Exists(files', <<args.plan_file, 1>>)
  <2>1. torn = 1
    BY <1>2, <1>3, <1>8, EmptySeq
  <2>2. CASE files' = files /\ torn \notin Contiguous(files, args.plan_file, torn)
    BY <2>1, <2>2, NumberTypes DEF Contiguous, Numbers
  <2>3. CASE files' = [files EXCEPT ![<<args.plan_file, torn>>] = NoFile]
    BY <2>1, <2>3 DEF Exists, TypeInv
  <2> QED
    BY <1>3, <2>2, <2>3
<1>9. ASSUME manager'.costs # <<>> PROVE IsPlan(File(1))'
  <2>1. Len(manager'.costs) # 0
    BY <1>3, <1>9, EmptySeq
  <2>2. torn # 1
    BY <1>2, <1>3, <2>1
  <2>3. IsPlan(File(1))
    <3>1. CASE manager.costs # <<>>
      BY <1>5, <3>1
    <3>2. CASE manager.costs = <<>>
      <4>1. L = 0
        BY <3>2 DEF L
      <4>2. 1 \in Complete(files, args.plan_file, L + 1)
        BY <1>3, <1>4, <2>1, <4>1
      <4>3. Exists(files, <<args.plan_file, 1>>) /\ File(1).cost # Incomplete
        BY <4>1, <4>2 DEF Complete, Contiguous, File
      <4> QED
        BY <1>5, <3>2, <4>3 DEF IsPlan
    <3> QED
      BY <3>1, <3>2
  <2> QED
    BY <1>1, <1>6, <2>2, <2>3, NumberTypes DEF IsPlan
<1> QED
  BY <1>1, <1>7, <1>8, <1>9 DEF CountedInv

LEMMA CountedInvIsKept == TypeInv /\ TaskInv /\ SessionInv /\ CountedInv /\ [Next]_vars => CountedInv'
<1> SUFFICES ASSUME TypeInv, TaskInv, SessionInv, CountedInv, [Next]_vars PROVE CountedInv'
  OBVIOUS
<1> USE DEF sessionVars, fileVars, searchVars, End, CalledProcessError, Fail
<1>1. CASE main \/ cleanup_temporary_files \/ Killed \/ run_translate \/ run_1_bfws \/ run_1_bfws_done \/ run_preprocess
  <2>1. pc' \in {"translate", "bfws_done", "preprocess", "search", "cleanup", "idle"}
    BY <1>1 DEF main, Begin, cleanup_temporary_files, Killed, run_translate, run_1_bfws, run_1_bfws_done, run_preprocess
  <2> QED
    BY <2>1 DEF CountedInv
<1>2. CASE run_search
  BY <1>2 DEF run_search, Validation, CountedInv
<1>3. CASE run_sat_config
  <2>1. pc = "launch" /\ args' = args /\ files' = files /\ manager' = manager /\ session' = session
    BY <1>3 DEF run_sat_config
  <2>2. pc' \in {"idle", "engine", "portfolio"}
    BY <1>3 DEF run_sat_config
  <2>3. \A n \in Numbers : IsPlan(File(n))' <=> IsPlan(File(n))
    BY <2>1 DEF IsPlan, File
  <2>4. IsPlan(File(1))' <=> IsPlan(File(1))
    BY <2>1 DEF IsPlan, File
  <2> QED
    BY <2>1, <2>2, <2>3, <2>4 DEF CountedInv
<1>4. CASE run_opt_config \/ run_single_search \/ collect_opt
  <2>1. args' = args /\ args.portfolio # "satisficing"
    BY <1>4 DEF run_opt_config, run_single_search, collect_opt
  <2> QED
    BY <2>1 DEF CountedInv
<1>5. CASE run_portfolio \/ run_validate \/ exit
  <2>1. pc' \in {"validate", "done", "idle"}
    BY <1>5 DEF run_portfolio, run_validate, exit, Validation
  <2> QED
    BY <2>1 DEF CountedInv
<1>6. CASE UNCHANGED vars
  <2>1. UNCHANGED <<args, files, manager, session, pc, number>>
    BY <1>6 DEF vars
  <2>2. \A n \in Numbers : File(n)' = File(n) /\ (IsPlan(File(n))' <=> IsPlan(File(n)))
    BY <2>1 DEF IsPlan, File
  <2>3. \A n \in Numbers : \A k \in Len(manager.costs) + 1 .. n : IsPlan(File(k))' <=> IsPlan(File(k))
    BY <2>1 DEF IsPlan, File
  <2> QED
    BY <2>1, <2>2, <2>3, NumberTypes DEF CountedInv
<1> QED
  BY <1>1, <1>2, <1>3, <1>4, <1>5, <1>6, CountedAfterRemoval, CountedAfterSearch, CountedAfterReading
  DEF Next, Call, Component

-----------------------------------------------------------------------------
(* Where the plan is.                                                      *)
LEMMA PlansSurviveReading ==
  ASSUME TypeInv, CountedInv, collect_sat, NEW n \in 0 .. MaxNumber, IsPlan(File(n))
  PROVE  files'[<<args.plan_file, n>>] = files[<<args.plan_file, n>>]
<1> DEFINE L == Len(manager.costs)
           new == NewPlans(manager, files, args.plan_file)
           torn == NextNumber(manager, files, args.plan_file)
           read == process_new_plans(manager, files, args.plan_file)
<1>1. args.portfolio = "satisficing" /\ pc = "collect" /\ files' = read.files
  BY DEF collect_sat
<1>2. /\ args.plan_file \in Prefixes /\ L \in Nat
      /\ manager \in [costs : Seq(0 .. MaxCost), problem_type : Problems]
      /\ files \in [FileNames -> PlanContents \cup {NoFile}]
  BY ArgTypes, ManagerTypes DEF TypeInv, Problems
<1>3. /\ new \in Seq(1 .. MaxCost)
      /\ Len(manager.costs \o new) = L + Len(new)
      /\ read.files = files \/ read.files = [files EXCEPT ![<<args.plan_file, torn>>] = NoFile]
  BY <1>2, ManagerAfterReading
<1>4. Len(new) \in Nat /\ torn = L + Len(new) + 1
  BY <1>3, LenProperties DEF NextNumber
<1>5. Complete(files, args.plan_file, L + 1) = L + 1 .. L + Len(new)
  <2>1. L + 1 \in Nat \ {0} /\ new = NewCosts(files, args.plan_file, L + 1)
    BY <1>2 DEF NewPlans
  <2>2. Complete(files, args.plan_file, L + 1) = L + 1 .. L + 1 + Len(new) - 1
    <3> HIDE DEF L, new
    <3> QED
      BY <1>2, <2>1, CompleteIsInterval
  <2>3. L + 1 + Len(new) - 1 = L + Len(new)
    BY <1>2, <1>4
  <2> QED
    BY <2>2, <2>3
<1> HIDE DEF L, new, torn, read
<1>6. ASSUME n = torn PROVE FALSE
  <2>1. n \in Numbers /\ n > L /\ n \in L + 1 .. MaxNumber
    BY <1>2, <1>4, <1>6, NumberTypes
  <2>2. \A k \in L + 1 .. n : IsPlan(File(k))
    BY <1>1, <2>1 DEF CountedInv, L
  <2>3. ASSUME NEW k \in L + 1 .. n PROVE Exists(files, <<args.plan_file, k>>) /\ File(k).cost # Incomplete
    <3>1. k \in 0 .. MaxNumber
      BY <1>2, NumberTypes
    <3> QED
      BY <2>2, <3>1, Names, PlanExists DEF IsPlan
  <2>4. n \in Complete(files, args.plan_file, L + 1)
    BY <2>1, <2>3 DEF Complete, Contiguous, File
  <2> QED
    BY <1>2, <1>4, <1>5, <1>6, <2>4
<1>7. CASE files' = files
  BY <1>7
<1>8. CASE files' = [files EXCEPT ![<<args.plan_file, torn>>] = NoFile]
  <2>1. <<args.plan_file, n>> \in FileNames
    BY Names
  <2>2. <<args.plan_file, n>> # <<args.plan_file, torn>>
    BY <1>6
  <2> QED
    BY <1>2, <1>8, <2>1, <2>2
<1> QED
  BY <1>1, <1>3, <1>7, <1>8

\* A search that found a plan leaves it under the first of its numbers.
LEMMA FirstPlanIsSaved ==
  ASSUME TypeInv, pc # "idle", args' = args, session' = session,
         NEW costs \in PlanCosts, costs # <<>>, NEW torn \in BOOLEAN, files' = save_plan(files, costs, torn),
         FirstNumber \in {0, 1}
  PROVE  HasPlan'
<1>1. Len(costs) \in Nat \ {0} /\ costs[1] \in 1 .. MaxCost
  <2>1. Len(costs) \in Nat \ {0} /\ costs \in Seq(1 .. MaxCost)
    BY PlanCostsTypes, EmptySeq
  <2>2. 1 \in 1 .. Len(costs)
    BY <2>1
  <2> QED
    BY <2>1, <2>2, ElementOfSeq
<1>2. FirstNumber \in Written(costs, torn) /\ FirstNumber \in 0 .. MaxNumber
  BY <1>1, NumberTypes DEF Written
<1>3. files'[<<args.plan_file, FirstNumber>>] =
        [session |-> session, type |-> args.type,
         cost |-> IF FirstNumber < FirstNumber + Len(costs) THEN costs[FirstNumber - FirstNumber + 1] ELSE Incomplete]
  BY <1>2, SavedFiles
<1>4. FirstNumber < FirstNumber + Len(costs) /\ FirstNumber - FirstNumber + 1 = 1
  BY <1>1
<1>5. files'[<<args.plan_file, FirstNumber>>].session = session /\ files'[<<args.plan_file, FirstNumber>>].cost = costs[1]
  BY <1>3, <1>4
<1>6. costs[1] # Incomplete
  BY <1>1 DEF Incomplete
<1>7. ASSUME NEW n \in {0, 1}, n = FirstNumber PROVE IsPlan(File(n))'
  BY <1>5, <1>6, <1>7 DEF IsPlan, File
<1> QED
  BY <1>7 DEF HasPlan

LEMMA PlanFoundMeansPlanFound ==
  ASSUME NEW codes, PLAN_FOUND \notin codes PROVE generate_portfolio_exitcode(codes) # PLAN_FOUND
<1> DEFINE read == {IF c = "SIGXCPU" THEN "TIMEOUT" ELSE c : c \in codes}
           unexpected == read \ EXPECTED_EXITCODES
<1>1. PLAN_FOUND \notin read /\ PLAN_FOUND \in EXPECTED_EXITCODES
  BY DEF PLAN_FOUND, EXPECTED_EXITCODES
<1>2. unexpected # {} => (CHOOSE c \in unexpected : TRUE) # PLAN_FOUND
  BY <1>1
<1> HIDE DEF read
<1>3. \/ generate_portfolio_exitcode(codes) \in
           {"CRITICAL_ERROR", UNSOLVABLE, "UNSOLVED_INCOMPLETE", "TIMEOUT_AND_MEMORY", "TIMEOUT", "OUT_OF_MEMORY"}
      \/ /\ unexpected # {}
         /\ generate_portfolio_exitcode(codes) = CHOOSE c \in unexpected : TRUE
  <2>0. unexpected # {} => read \notin {{"OUT_OF_MEMORY", "TIMEOUT"}, {"TIMEOUT"}, {"OUT_OF_MEMORY"}}
    BY DEF EXPECTED_EXITCODES
  <2>1. CASE unexpected # {} /\ \E c \in read : unexpected = {c}
    BY <2>0, <2>1 DEF generate_portfolio_exitcode, read
  <2>2. CASE unexpected # {} /\ ~(\E c \in read : unexpected = {c})
    BY <2>0, <2>2 DEF generate_portfolio_exitcode, read
  <2>3. CASE unexpected = {}
    BY <1>1, <2>3 DEF generate_portfolio_exitcode, read
  <2> QED
    BY <2>1, <2>2, <2>3
<1> QED
  BY <1>2, <1>3 DEF PLAN_FOUND, UNSOLVABLE

LEMMA SuccessInvInitially == Init => SuccessInv
  BY DEF Init, SuccessInv, PLAN_FOUND

\* The steps that touch no file.
LEMMA SuccessWithoutFiles ==
  ASSUME TypeInv, TaskInv, SuccessInv,
         \/ main \/ cleanup_temporary_files \/ Killed \/ run_translate \/ run_1_bfws \/ run_preprocess \/ run_search
         \/ run_sat_config \/ run_opt_config \/ run_portfolio \/ run_validate \/ exit \/ UNCHANGED vars
  PROVE  SuccessInv'
<1> USE DEF sessionVars, fileVars, searchVars, End, CalledProcessError, Fail
<1>1. CASE main
  BY <1>1 DEF main, Begin, SuccessInv
<1>2. CASE cleanup_temporary_files
  BY <1>2 DEF cleanup_temporary_files, SuccessInv
<1>3. CASE Killed
  BY <1>3 DEF Killed, SuccessInv
<1>4. CASE UNCHANGED vars
  BY <1>4 DEF vars, SuccessInv, HasPlan, IsPlan, File
<1>5. CASE \/ run_translate \/ run_1_bfws \/ run_preprocess \/ run_search
           \/ run_sat_config \/ run_opt_config \/ run_portfolio \/ run_validate \/ exit
  <2>1. args' = args /\ session' = session /\ files' = files /\ plan_found' = plan_found /\ pc # "idle"
    BY <1>5 DEF run_translate, run_1_bfws, run_preprocess, run_search, run_sat_config, run_opt_config,
      run_portfolio, run_validate, exit
  <2>2. HasPlan' <=> HasPlan
    BY <2>1 DEF HasPlan, IsPlan, File
  <2>3. IsPlan(files[<<"sas_plan", 0>>])' <=> IsPlan(files[<<"sas_plan", 0>>])
    BY <2>1 DEF IsPlan
  <2>4. ended # "exit"
    BY <2>1 DEF SuccessInv
  <2>5. CASE run_translate \/ run_1_bfws \/ run_preprocess
    BY <2>1, <2>3, <2>4, <2>5 DEF run_translate, run_1_bfws, run_preprocess, TaskInv, SuccessInv, PLAN_FOUND
  <2>6. CASE run_search
    BY <2>1, <2>3, <2>4, <2>6 DEF run_search, Validation, SuccessInv
  <2>7. CASE run_sat_config
    <3>1. portfolio'.exitcodes = portfolio.exitcodes /\ pc = "launch" /\ pc' \in {"idle", "engine", "portfolio"}
      BY <2>7, StartFields DEF run_sat_config, TypeInv, Fields
    <3>2. ended' # "exit" /\ args.portfolio = "satisficing"
      BY <2>4, <2>7 DEF run_sat_config
    <3> QED
      BY <2>1, <2>2, <3>1, <3>2 DEF SuccessInv
  <2>8. CASE run_opt_config
    BY <2>1, <2>2, <2>4, <2>8 DEF run_opt_config, SuccessInv
  <2>9. CASE run_portfolio
    <3>1. ~plan_found /\ pc = "portfolio"
      BY <2>9 DEF run_portfolio, TaskInv
    <3>2. CASE generate_portfolio_exitcode(portfolio.exitcodes) = PLAN_FOUND
      <4>1. HasPlan
        BY <3>1, <3>2, PlanFoundMeansPlanFound DEF SuccessInv
      <4>2. pc' \in {"validate", "done"} /\ ended' = ended /\ exitcode' = exitcode
        BY <2>9, <3>2 DEF run_portfolio, Validation
      <4> QED
        BY <2>1, <2>2, <2>4, <3>1, <4>1, <4>2 DEF SuccessInv
    <3>3. CASE generate_portfolio_exitcode(portfolio.exitcodes) # PLAN_FOUND
      BY <2>1, <2>9, <3>1, <3>3 DEF run_portfolio, SuccessInv
    <3> QED
      BY <3>2, <3>3
  <2>10. CASE run_validate
    BY <2>1, <2>2, <2>3, <2>4, <2>10 DEF run_validate, SuccessInv, PLAN_FOUND
  <2>11. CASE exit
    <3>1. pc = "done" /\ pc' = "idle" /\ ended' = "exit" /\ (exitcode' = PLAN_FOUND => exitcode \in {PLAN_FOUND, "None"})
      BY <2>11 DEF exit
    <3> QED
      BY <2>1, <2>2, <2>3, <3>1 DEF SuccessInv
  <2> QED
    BY <1>5, <2>5, <2>6, <2>7, <2>8, <2>9, <2>10, <2>11
<1> QED
  BY <1>1, <1>2, <1>3, <1>4, <1>5

LEMMA SuccessInvIsKept ==
  TypeInv /\ TaskInv /\ CountedInv /\ SuccessInv /\ [Next]_vars /\ CountedInv' => SuccessInv'
<1> SUFFICES ASSUME TypeInv, TaskInv, CountedInv, SuccessInv, [Next]_vars, CountedInv' PROVE SuccessInv'
  OBVIOUS
<1> USE DEF sessionVars, fileVars, searchVars, End, CalledProcessError, Fail
<1>1. CASE run_1_bfws_done
  <2>1. /\ args' = args /\ session' = session /\ pc = "bfws_done" /\ pc' = "preprocess" /\ ended' = ended
        /\ ~plan_found /\ (plan_ipc = "plan" \/ plan_ipc = "empty")
    BY <1>1 DEF run_1_bfws_done, TaskInv
  <2>2. CASE plan_ipc = "plan"
    <3>1. files' = [files EXCEPT ![<<"sas_plan", 0>>] = [session |-> session, cost |-> MaxCost, type |-> args.type]]
      BY <1>1, <2>2 DEF run_1_bfws_done, PlanIpcSize
    <3>2. <<"sas_plan", 0>> \in FileNames
      BY PlanFileTypes, NumberTypes DEF FileNames
    <3>3. files'[<<"sas_plan", 0>>] = [session |-> session, cost |-> MaxCost, type |-> args.type]
      BY <3>1, <3>2 DEF TypeInv
    <3>4. IsPlan(files[<<"sas_plan", 0>>])'
      BY <2>1, <3>3, PlanFileTypes DEF IsPlan, Incomplete
    <3> QED
      BY <2>1, <3>4 DEF SuccessInv
  <2>3. CASE plan_ipc = "empty"
    <3>1. plan_found' = plan_found
      BY <1>1, <2>3 DEF run_1_bfws_done, PlanIpcSize
    <3> QED
      BY <2>1, <3>1 DEF SuccessInv
  <2> QED
    BY <2>1, <2>2, <2>3
<1>2. CASE delete_existing_plans
  <2>1. /\ ended # "exit" /\ args' = args /\ plan_found' = plan_found
        /\ pc' \in {"delete", "cleanup", "idle", "launch", "engine"} /\ ended' # "exit"
    BY <1>2 DEF delete_existing_plans, SuccessInv
  <2>2. pc' \in {"launch", "engine"} => portfolio' = Start(args.configs) /\ (pc' = "launch" => args.portfolio # "none")
    BY <1>2 DEF delete_existing_plans
  <2> QED
    BY <2>1, <2>2, StartFields DEF SuccessInv
<1>3. CASE run_single_search
  <2>1. PICK costs \in PlanCosts, torn \in BOOLEAN, code \in SearchCodes :
          /\ Outcome(costs, torn, code)
          /\ files' = save_plan(files, costs, torn)
          /\ IF code \in EXPECTED_EXITCODES
             THEN exitcode' = code /\ pc' = Validation /\ UNCHANGED ended
             ELSE CalledProcessError(code)
    BY <1>3 DEF run_single_search
  <2>2. /\ args' = args /\ session' = session /\ pc = "engine" /\ plan_found' = plan_found /\ ~plan_found
        /\ ended # "exit" /\ args.portfolio # "satisficing"
    BY <1>3 DEF run_single_search, TaskInv, SuccessInv
  <2>3. code = PLAN_FOUND => HasPlan'
    <3>1. FirstNumber \in {0, 1}
      BY <2>2, FirstNumberType
    <3> QED
      BY <2>1, <2>2, <3>1, FirstPlanIsSaved DEF Outcome
  <2>4. PLAN_FOUND \in EXPECTED_EXITCODES /\ code # "None" /\ pc' \in {"validate", "done", "idle"}
    BY <2>1 DEF PLAN_FOUND, EXPECTED_EXITCODES, SearchCodes, Validation
  <2> QED
    BY <2>1, <2>2, <2>3, <2>4 DEF SuccessInv
<1>4. CASE run_portfolio_search
  <2>1. PICK costs \in PlanCosts, torn \in BOOLEAN, code \in SearchCodes :
          /\ Outcome(costs, torn, code)
          /\ files' = save_plan(files, costs, torn)
          /\ exitcode' = code
    BY <1>4 DEF run_portfolio_search
  <2>2. /\ args' = args /\ session' = session /\ pc = "engine" /\ pc' = "collect" /\ plan_found' = plan_found
        /\ ended' = ended /\ ended # "exit" /\ args.portfolio # "none" /\ portfolio' = portfolio /\ manager' = manager
    BY <1>4 DEF run_portfolio_search, SuccessInv
  <2>3. FirstNumber \in {0, 1} \/ (args.portfolio = "satisficing" /\ FirstNumber > 1 /\ manager.costs # <<>>)
    <3>1. CASE args.portfolio # "satisficing"
      BY <3>1, FirstNumberType
    <3>2. CASE args.portfolio = "satisficing" /\ manager.costs = <<>>
      BY <3>2, FirstNumberType
    <3>3. CASE args.portfolio = "satisficing" /\ manager.costs # <<>>
      BY <3>3, FirstNumberType
    <3> QED
      BY <3>1, <3>2, <3>3
  <2>4. args.portfolio = "satisficing" /\ manager.costs # <<>> => HasPlan'
    BY <2>2 DEF CountedInv, HasPlan
  <2>5. code = PLAN_FOUND => HasPlan'
    BY <2>1, <2>2, <2>3, <2>4, FirstPlanIsSaved DEF Outcome
  <2>6. ASSUME PLAN_FOUND \in portfolio.exitcodes PROVE args.portfolio = "satisficing" /\ HasPlan'
    <3>1. HasPlan /\ args.portfolio = "satisficing"
      <4>1. args.portfolio \in {"none", "optimal", "satisficing"}
        BY ArgTypes DEF TypeInv
      <4> QED
        BY <2>2, <2>6, <4>1 DEF SuccessInv
    <3>2. CASE manager.costs # <<>>
      BY <2>4, <3>1, <3>2
    <3>3. CASE manager.costs = <<>>
      <4>1. ~Exists(files, <<args.plan_file, 1>>)
        BY <2>2, <3>1, <3>3 DEF CountedInv
      <4>2. IsPlan(File(0))
        BY <3>1, <4>1, Names, NumberTypes, PlanExists DEF HasPlan
      <4>3. 0 \notin Written(costs, torn)
        BY <3>1, FirstNumberType DEF Written
      <4>4. files'[<<args.plan_file, 0>>] = files[<<args.plan_file, 0>>]
        BY <2>1, <2>2, <4>3, Names, NumberTypes, SavedFiles
      <4> QED
        BY <2>2, <3>1, <4>2, <4>4 DEF HasPlan, IsPlan, File
    <3> QED
      BY <3>1, <3>2, <3>3
  <2> QED
    BY <2>1, <2>2, <2>5, <2>6 DEF SuccessInv
<1>5. CASE collect_sat
  <2>1. /\ args' = args /\ session' = session /\ pc = "collect" /\ plan_found' = plan_found
        /\ args.portfolio = "satisficing" /\ pc' \in {"idle", "launch", "portfolio"}
        /\ ended # "exit" /\ ended' # "exit"
    BY <1>5 DEF collect_sat, Continue, SuccessInv
  <2>2. HasPlan => HasPlan'
    <3>1. ASSUME NEW n \in {0, 1}, IsPlan(File(n)) PROVE IsPlan(File(n))'
      <4>1. n \in 0 .. MaxNumber
        BY NumberTypes
      <4> QED
        BY <1>5, <2>1, <3>1, <4>1, PlansSurviveReading DEF IsPlan, File
    <3> QED
      BY <3>1 DEF HasPlan
  <2>3. pc' # "idle" => portfolio'.exitcodes = portfolio.exitcodes \cup {exitcode}
    <3>1. pc' # "idle" => \E type : portfolio' = run_sat_Continue(portfolio, exitcode, type, args)
      BY <1>5 DEF collect_sat, Continue
    <3>2. DOMAIN portfolio = Fields
      BY StartFields DEF TypeInv
    <3>3. \A type : run_sat_Continue(portfolio, exitcode, type, args).exitcodes = portfolio.exitcodes \cup {exitcode}
      BY <3>2, PortfolioSteps
    <3> QED
      BY <3>1, <3>3
  <2>4. pc' # "idle" /\ PLAN_FOUND \in portfolio'.exitcodes => HasPlan'
    BY <2>1, <2>2, <2>3 DEF SuccessInv
  <2> QED
    BY <2>1, <2>4 DEF SuccessInv
<1>6. CASE collect_opt
  <2>1. /\ args' = args /\ session' = session /\ files' = files /\ pc = "collect" /\ plan_found' = plan_found
        /\ args.portfolio = "optimal" /\ portfolio' = run_opt_Continue(portfolio, exitcode)
        /\ pc' = IF portfolio'.mode = "end" THEN "portfolio" ELSE "launch"
        /\ ended # "exit" /\ ended' # "exit"
    BY <1>6 DEF collect_opt, Continue, SuccessInv
  <2>2. /\ portfolio'.exitcodes = portfolio.exitcodes \cup {exitcode}
        /\ portfolio'.mode # "end" => exitcode # PLAN_FOUND
    BY <2>1, PortfolioSteps, StartFields DEF TypeInv
  <2>3. PLAN_FOUND \in portfolio'.exitcodes => HasPlan /\ pc' = "portfolio"
    BY <2>1, <2>2 DEF SuccessInv
  <2>4. HasPlan' <=> HasPlan
    BY <2>1 DEF HasPlan, IsPlan, File
  <2> QED
    BY <2>1, <2>3, <2>4 DEF SuccessInv
<1> QED
  BY <1>1, <1>2, <1>3, <1>4, <1>5, <1>6, SuccessWithoutFiles DEF Next, Call, Component

-----------------------------------------------------------------------------
(* What a caller of the driver relies on.                                  *)
LEMMA FilesInvInitially == Init => FilesInv /\ SuccessInv
  BY TypeInvInitially, TaskInvInitially, SessionInvInitially, CountedInvInitially, SuccessInvInitially DEF FilesInv

LEMMA FilesInvIsKept == FilesInv /\ SuccessInv /\ [Next]_vars => (FilesInv /\ SuccessInv)'
  BY TypeInvIsKept, TaskInvIsKept, SessionInvIsKept, CountedInvIsKept, SuccessInvIsKept DEF FilesInv

\* The inductive invariant of the driver: whose files there are, which plans the
\* manager has counted and where the plan is that the exit code speaks of.
THEOREM FilesInvariant == Spec => [](FilesInv /\ SuccessInv)
  BY FilesInvInitially, FilesInvIsKept, PTL DEF Spec

\* The search and the preprocessor read what this session has translated, however
\* earlier components and sessions ended (main.py, run_components.py).
THEOREM SearchReadsThisTaskCorrect == Spec => []SearchReadsThisTask
<1>1. TaskInv => SearchReadsThisTask
  BY DEF TaskInv, SearchReadsThisTask
<1> QED
  BY <1>1, TaskInvInitially, TaskInvIsKept, PTL DEF Spec

\* The driver exits with 0 only if it leaves a plan of its task, whatever earlier calls
\* left in the directory, whatever bounds the searches keep, and wherever a call was
\* killed (main.py, run_components.py, portfolio_runner.py, plan_manager.py).
THEOREM SuccessMeansAPlanCorrect == Spec => []SuccessMeansAPlan
<1>1. ASSUME FilesInv, SuccessInv PROVE SuccessMeansAPlan
  <2> SUFFICES ASSUME ended = "exit", exitcode = PLAN_FOUND
               PROVE \E name \in get_existing_plans(files, ResultPrefix) : IsPlan(files[name])
    BY DEF SuccessMeansAPlan
  <2> USE <1>1 DEF FilesInv
  <2>1. CASE plan_found
    <3>1. IsPlan(files[<<"sas_plan", 0>>]) /\ <<"sas_plan", 0>> \in FileNames
      BY <2>1, PlanFileTypes, NumberTypes DEF SuccessInv, FileNames
    <3>2. Exists(files, <<"sas_plan", 0>>)
      BY <3>1, PlanExists DEF Exists, TypeInv
    <3>3. <<"sas_plan", 0>> \in get_existing_plans(files, ResultPrefix)
      BY <2>1, <3>2 DEF get_existing_plans, ResultPrefix
    <3> QED
      BY <3>1, <3>3
  <2>2. CASE ~plan_found
    <3>1. PICK n \in {0, 1} : IsPlan(File(n))
      BY <2>2 DEF SuccessInv, HasPlan
    <3>2. Exists(files, <<args.plan_file, n>>)
      BY <3>1, Names, NumberTypes, PlanExists
    <3>3. <<args.plan_file, n>> \in get_existing_plans(files, ResultPrefix)
      <4>1. CASE n = 0
        BY <2>2, <3>2, <4>1 DEF get_existing_plans, ResultPrefix
      <4>2. CASE n = 1
        <5>1. 1 \in Contiguous(files, args.plan_file, 1)
          BY <3>2, <4>2, NumberTypes DEF Contiguous, Numbers
        <5> QED
          BY <2>2, <4>2, <5>1 DEF get_existing_plans, ResultPrefix
      <4> QED
        BY <4>1, <4>2
    <3> QED
      BY <3>1, <3>3 DEF File
  <2> QED
    BY <2>1, <2>2
<1> QED
  BY <1>1, FilesInvariant, PTL

LEMMA PlansAreKeptByStep ==
  ASSUME FilesInv, Next, pc \notin {"idle", "cleanup"}, args.portfolio # "optimal",
         NEW name \in FileNames, IsPlan(files[name])
  PROVE  files'[name] = files[name]
<1> USE DEF FilesInv, sessionVars, fileVars, searchVars, End, CalledProcessError, Fail
<1>1. ASSUME NothingWritten PROVE FALSE
  <2>1. files[name].session < session /\ files[name].session = session
    BY <1>1 DEF SessionInv, IsPlan
  <2>2. session \in 0 .. MaxSessions
    BY DEF TypeInv
  <2> QED
    BY <2>1, <2>2
<1>2. CASE main \/ cleanup_temporary_files \/ Killed \/ run_translate \/ run_1_bfws \/ run_preprocess \/ run_search
  BY <1>2 DEF main, Begin, cleanup_temporary_files, Killed, run_translate, run_1_bfws, run_preprocess, run_search
<1>3. CASE \/ run_sat_config \/ run_opt_config \/ collect_opt \/ run_portfolio \/ run_validate \/ exit
  BY <1>3 DEF run_sat_config, run_opt_config, collect_opt, run_portfolio, run_validate, exit
<1>4. CASE run_1_bfws_done \/ delete_existing_plans \/ run_single_search
  BY <1>1, <1>4 DEF run_1_bfws_done, delete_existing_plans, run_single_search, NothingWritten
<1>5. PICK prefix \in Prefixes, n \in 0 .. MaxNumber : name = <<prefix, n>>
  BY DEF FileNames
<1>6. CASE run_portfolio_search
  <2>1. PICK costs \in PlanCosts, torn \in BOOLEAN : files' = save_plan(files, costs, torn)
    BY <1>6 DEF run_portfolio_search
  <2>2. args.portfolio = "satisficing" /\ pc = "engine"
    BY <1>6, ArgTypes DEF run_portfolio_search, TypeInv
  <2>3. prefix = args.plan_file => n \notin Written(costs, torn)
    <3> SUFFICES ASSUME prefix = args.plan_file PROVE n < FirstNumber
      BY FirstNumberType DEF Written
    <3>1. IsPlan(File(n))
      BY <1>5 DEF File
    <3>2. CASE n \in Numbers
      <4>1. n <= Len(manager.costs)
        BY <2>2, <3>1, <3>2 DEF CountedInv
      <4> QED
        BY <2>2, <4>1, FirstNumberType, ManagerTypes, NumberTypes
    <3>3. CASE n = 0
      BY <2>2, <3>3, FirstNumberType, ManagerTypes
    <3> QED
      BY <3>2, <3>3, NumberTypes
  <2> QED
    BY <1>5, <2>1, <2>3, SavedFiles
<1>7. CASE collect_sat
  <2>1. CASE prefix = args.plan_file
    BY <1>5, <1>7, <2>1, PlansSurviveReading DEF File
  <2>2. CASE prefix # args.plan_file
    <3>1. \E n2 : files' = files \/ files' = [files EXCEPT ![<<args.plan_file, n2>>] = NoFile]
      BY <1>7 DEF collect_sat, process_new_plans
    <3> QED
      BY <1>5, <2>2, <3>1 DEF TypeInv
  <2> QED
    BY <2>1, <2>2
<1> QED
  BY <1>2, <1>3, <1>4, <1>6, <1>7 DEF Next, Call, Component

\* No step of a session replaces or removes a complete plan that it has written
\* (search_engine.cc, save_plan; plan_manager.py, process_new_plans).
THEOREM PlansAreKeptCorrect == Spec => PlansAreKept
<1>1. FilesInv /\ [Next]_vars =>
        [pc \notin {"idle", "cleanup"} /\ args.portfolio # "optimal" =>
           \A name \in FileNames : IsPlan(files[name]) => files'[name] = files[name]]_vars
  BY PlansAreKeptByStep
<1>2. Spec => []FilesInv
  BY FilesInvariant, PTL
<1>3. Spec => [][Next]_vars
  BY PTL DEF Spec
<1> QED
  BY <1>1, <1>2, <1>3, PTL DEF PlansAreKept
-----------------------------------------------------------------------------
(* The bookkeeping of a satisficing portfolio: if searches keep below the  *)
(* bound they are given and no call is killed between two removals, the    *)
(* plan manager knows exactly the plans there are, and never meets one it  *)
(* calls bogus.  The files of a call are numbered without a gap, and no    *)
(* plan can be the last of more plans than there are costs above its own.  *)

\* Costs that decrease from below a bound are smaller by one each time.
LEMMA DecreasingCosts ==
  ASSUME NEW b \in Nat, NEW costs \in Seq(1 .. MaxCost), Decreasing(costs),
         costs # <<>> => costs[1] < b, NEW i \in 1 .. Len(costs)
  PROVE  costs[i] + i <= b
<1>1. Len(costs) \in Nat /\ \A j \in 1 .. Len(costs) : costs[j] \in 1 .. MaxCost
  BY LenProperties, ElementOfSeq
<1> DEFINE B == {j \in 1 .. Len(costs) : ~(costs[j] + j <= b)}
<1>2. CASE B = {}
  BY <1>2
<1>3. CASE B # {}
  <2>1. PICK j \in B : \A m \in B : j <= m
    BY <1>1, <1>3, SmallestNumber
  <2>2. j \in 1 .. Len(costs) /\ ~(costs[j] + j <= b) /\ costs # <<>>
    BY <1>1, <2>1
  <2>3. j # 1
    BY <1>1, <2>2
  <2>4. j - 1 \in 1 .. Len(costs) /\ j \in 2 .. Len(costs)
    BY <1>1, <2>2, <2>3
  <2>5. costs[j - 1] + (j - 1) <= b
    BY <2>1, <2>2, <2>4
  <2>6. costs[j] < costs[j - 1]
    BY <2>4 DEF Decreasing
  <2> QED
    BY <1>1, <2>2, <2>4, <2>5, <2>6
<1> QED
  BY <1>2, <1>3

-----------------------------------------------------------------------------
(* Files without gaps.                                                     *)
LEMMA GaplessRest ==
  ASSUME NumbersInv, ~Removing
  PROVE  \A prefix \in Prefixes : \A n \in Numbers : Exists(files, <<prefix, n>>) =>
           \A m \in 1 .. n : Exists(files, <<prefix, m>>)
  BY DEF NumbersInv, NoGaps

LEMMA GaplessMeansNumbersInv ==
  ASSUME ~Removing',
         \A prefix \in Prefixes : \A n \in Numbers : Exists(files', <<prefix, n>>) =>
           \A m \in 1 .. n : Exists(files', <<prefix, m>>)
  PROVE  NumbersInv'
  BY DEF NumbersInv, NoGaps

LEMMA ManagedInitially == Init => NumbersInv /\ ManagerInv
<1> SUFFICES ASSUME Init PROVE NumbersInv /\ ManagerInv
  OBVIOUS
<1>1. pc = "idle" /\ \A name : ~Exists(files, name)
  BY DEF Init, Exists
<1> QED
  BY <1>1 DEF NumbersInv, NoGaps, ManagerInv, Removing

\* Plan files are removed in the order of their numbers, to the last one.
LEMMA ManagedAfterRemoval ==
  ASSUME TypeInv, NumbersInv, ManagerInv, delete_existing_plans
  PROVE  NumbersInv' /\ ManagerInv'
<1>1. /\ Removing /\ args' = args /\ manager' = manager /\ number \in Nat /\ args.plan_file \in Prefixes
      /\ files \in [FileNames -> PlanContents \cup {NoFile}]
  BY ArgTypes DEF delete_existing_plans, sessionVars, Removing, TypeInv
<1>2. /\ \A n \in Numbers : n < number => ~Exists(files, <<args.plan_file, n>>)
      /\ \A n \in Numbers : Exists(files, <<args.plan_file, n>>) =>
           \A m \in 1 .. n : m >= number => Exists(files, <<args.plan_file, m>>)
      /\ \A prefix \in Prefixes : prefix # args.plan_file =>
           \A n \in Numbers : Exists(files, <<prefix, n>>) =>
             \A m \in 1 .. n : Exists(files, <<prefix, m>>)
  BY <1>1 DEF NumbersInv, NoGaps
<1>3. CASE ~LastRemoval(files, args.plan_file, number)
  <2>1. /\ pc' = pc /\ number' = number + 1
        /\ files' = [files EXCEPT ![<<args.plan_file, number>>] = NoFile]
    BY <1>3 DEF delete_existing_plans, RemovePlan
  <2>2. \A prefix \in Prefixes, n \in Numbers :
          Exists(files', <<prefix, n>>) <=>
            Exists(files, <<prefix, n>>) /\ (prefix # args.plan_file \/ n # number)
    BY <1>1, <2>1 DEF Exists
  <2>3. ASSUME NEW n \in Numbers, n < number' PROVE ~Exists(files', <<args.plan_file, n>>)
    <3>1. n < number \/ n = number
      BY <1>1, <2>1, <2>3, NumberTypes
    <3> QED
      BY <1>1, <1>2, <2>2, <3>1
  <2>4. ASSUME NEW n \in Numbers, Exists(files', <<args.plan_file, n>>), NEW m \in 1 .. n, m >= number'
        PROVE  Exists(files', <<args.plan_file, m>>)
    <3>1. m \in Numbers /\ m # number /\ m >= number
      BY <1>1, <2>1, <2>4, NumberTypes
    <3> QED
      BY <1>1, <1>2, <2>2, <2>4, <3>1
  <2>5. ASSUME NEW prefix \in Prefixes, prefix # args.plan_file,
               NEW n \in Numbers, Exists(files', <<prefix, n>>), NEW m \in 1 .. n
        PROVE  Exists(files', <<prefix, m>>)
    <3>1. m \in Numbers
      BY NumberTypes
    <3> QED
      BY <1>2, <2>2, <2>5, <3>1
  <2>6. Removing'
    BY <1>1, <2>1 DEF Removing
  <2>7. NumbersInv'
    BY <1>1, <2>3, <2>4, <2>5, <2>6 DEF NumbersInv, NoGaps
  <2>8. ManagerInv'
    BY <1>1, <2>1 DEF ManagerInv, Removing
  <2> QED
    BY <2>7, <2>8
<1>4. CASE LastRemoval(files, args.plan_file, number)
  <2>1. /\ files' = files /\ pc' \in {"launch", "engine", "idle"} /\ (pc' # "idle" => pc = "delete")
        /\ pc' = "engine" => args.portfolio = "none"
    BY <1>4 DEF delete_existing_plans, End
  <2>2. ASSUME NEW n \in Numbers PROVE ~Exists(files, <<args.plan_file, n>>)
    <3>1. CASE n < number
      BY <1>2, <3>1
    <3>2. CASE ~(n < number)
      <4>1. number \in 1 .. n /\ number >= number
        BY <1>1, <1>4, <3>2, NumberTypes DEF LastRemoval
      <4> QED
        BY <1>2, <1>4, <4>1 DEF LastRemoval
    <3> QED
      BY <3>1, <3>2
  <2>3. NumbersInv'
    <3>1. ~Removing'
      BY <2>1 DEF Removing
    <3> QED
      BY <1>2, <2>1, <2>2, <3>1, GaplessMeansNumbersInv
  <2>4. ManagerInv'
    <3> SUFFICES ASSUME args.portfolio = "satisficing", pc' = "launch" PROVE ManagerInv'
      BY <1>1, <2>1 DEF ManagerInv
    <3>1. manager = EmptyManager
      BY <2>1 DEF ManagerInv
    <3>2. manager'.costs = <<>> /\ Len(manager'.costs) = 0 /\ manager'.problem_type = "None"
      BY <1>1, <3>1 DEF EmptyManager
    <3>3. Managed'
      BY <3>2 DEF Managed
    <3>4. \A n \in Numbers : ~Exists(files', <<args'.plan_file, n>>)
      BY <1>1, <2>1, <2>2
    <3>5. Plans(0)'
      BY <3>4, PlanFileTypes DEF Plans
    <3>6. Plans(Len(manager.costs))'
      BY <3>2, <3>5
    <3>7. ~Exists(files', <<args'.plan_file, Len(manager'.costs) + 1>>)
      BY <3>2, <3>4, NumberTypes
    <3> QED
      BY <3>3, <3>6, <3>7 DEF ManagerInv
  <2> QED
    BY <2>3, <2>4
<1> QED
  BY <1>3, <1>4

-----------------------------------------------------------------------------
(* A search numbers its plans from the first free number.                  *)
LEMMA NumbersAfterSearch ==
  ASSUME TypeInv, NumbersInv, ManagerInv, pc = "engine", args' = args, ~Removing',
         NEW costs \in PlanCosts, NEW torn \in BOOLEAN, files' = save_plan(files, costs, torn)
  PROVE  NumbersInv'
<1>1. /\ FirstNumber \in Nat /\ Len(costs) \in Nat /\ args.plan_file \in Prefixes
      /\ files' \in [FileNames -> PlanContents \cup {NoFile}]
      /\ files \in [FileNames -> PlanContents \cup {NoFile}]
  BY FirstNumberType, PlanCostsTypes, ArgTypes, SavedFiles DEF TypeInv
<1>2. ASSUME NEW n \in 0 .. MaxNumber, n \in Written(costs, torn)
      PROVE  Exists(files', <<args.plan_file, n>>)
  <2>1. files'[<<args.plan_file, n>>] =
          [session |-> session, type |-> args.type,
           cost |-> IF n < FirstNumber + Len(costs) THEN costs[n - FirstNumber + 1] ELSE Incomplete]
    BY <1>2, SavedFiles
  <2>2. session > 0
    BY DEF TypeInv
  <2>3. files'[<<args.plan_file, n>>].session # NoFile.session
    <3>1. files'[<<args.plan_file, n>>].session = session
      BY <2>1
    <3>2. session # 0
      BY <2>2
    <3> QED
      BY <3>1, <3>2, NoFileFields
  <2>4. <<args.plan_file, n>> \in DOMAIN files'
    BY <1>1 DEF FileNames
  <2> QED
    BY <2>3, <2>4 DEF Exists
<1>3. ASSUME NEW prefix \in Prefixes, NEW n \in 0 .. MaxNumber,
             prefix # args.plan_file \/ n \notin Written(costs, torn)
      PROVE  Exists(files', <<prefix, n>>) <=> Exists(files, <<prefix, n>>)
  <2>1. files'[<<prefix, n>>] = files[<<prefix, n>>]
    BY <1>3, SavedFiles
  <2> QED
    BY <1>1, <2>1 DEF Exists
<1>4. \A prefix \in Prefixes : \A n \in Numbers : Exists(files, <<prefix, n>>) =>
        \A m \in 1 .. n : Exists(files, <<prefix, m>>)
  BY GaplessRest DEF Removing
<1>5. ASSUME NEW n \in 0 .. MaxNumber, n \in 1 .. FirstNumber - 1
      PROVE  Exists(files, <<args.plan_file, n>>)
  <2>1. args.portfolio = "satisficing" /\ n \in 1 .. Len(manager.costs)
    <3>1. CASE args.portfolio # "satisficing"
      BY <1>5, <3>1, FirstNumberType
    <3>2. CASE args.portfolio = "satisficing"
      BY <1>5, <3>2, FirstNumberType, ManagerTypes
    <3> QED
      BY <3>1, <3>2
  <2>2. IsPlan(File(n))
    BY <2>1 DEF ManagerInv, Plans
  <2> QED
    BY <2>2, Names, PlanExists
<1>6. ASSUME NEW prefix \in Prefixes, NEW n \in Numbers, Exists(files', <<prefix, n>>), NEW m \in 1 .. n
      PROVE  Exists(files', <<prefix, m>>)
  <2>1. m \in Numbers /\ m \in 0 .. MaxNumber /\ n \in 0 .. MaxNumber /\ m <= n
    BY NumberTypes
  <2>2. CASE prefix # args.plan_file
    BY <1>3, <1>4, <1>6, <2>1, <2>2
  <2>3. CASE prefix = args.plan_file /\ m \in Written(costs, torn)
    BY <1>2, <2>1, <2>3
  <2>4. CASE prefix = args.plan_file /\ m \notin Written(costs, torn)
    <3>1. Exists(files, <<args.plan_file, m>>)
      <4>1. CASE n \in Written(costs, torn)
        <5>1. m \in 1 .. FirstNumber - 1
          BY <1>1, <2>1, <2>4, <4>1 DEF Written
        <5> QED
          BY <1>5, <2>1, <5>1
      <4>2. CASE n \notin Written(costs, torn)
        BY <1>3, <1>4, <1>6, <2>1, <2>4, <4>2
      <4> QED
        BY <4>1, <4>2
    <3> QED
      BY <1>3, <2>1, <2>4, <3>1
  <2> QED
    BY <2>2, <2>3, <2>4
<1> QED
  BY <1>6, GaplessMeansNumbersInv

\* A search with a strict bound continues the plans of the portfolio: each is better
\* than the last one, so they are never more than there are numbers.
LEMMA ManagerAfterSearch ==
  ASSUME StrictBound, TypeInv, ManagerInv, run_portfolio_search PROVE ManagerInv'
<1> SUFFICES ASSUME args.portfolio = "satisficing" PROVE ManagerInv'
  BY DEF run_portfolio_search, sessionVars, ManagerInv
<1>0. PICK L : L = Len(manager.costs)
  OBVIOUS
<1>1. /\ pc = "engine" /\ pc' = "collect" /\ args' = args /\ session' = session /\ manager' = manager
  BY DEF run_portfolio_search, sessionVars, searchVars
<1>2. PICK costs \in PlanCosts, torn \in BOOLEAN : files' = save_plan(files, costs, torn)
  BY DEF run_portfolio_search
<1> DEFINE k == Len(costs)
           last == L + k
<1>3. /\ L \in Nat /\ FirstNumber = L + 1 /\ k \in Nat /\ Decreasing(costs) /\ costs \in Seq(1 .. MaxCost)
      /\ MaxCost \in Nat /\ MaxNumber = MaxCost + 1
      /\ \A i \in 1 .. k : costs[i] \in 1 .. MaxCost /\ costs[i] < SearchBound
  <2>1. \A i \in 1 .. k : costs[i] \in 1 .. MaxCost /\ costs[i] < SearchBound
    BY PlanCostsTypes DEF CostsBelow
  <2> QED
    BY <1>0, <2>1, ManagerTypes, FirstNumberType, PlanCostsTypes, PlanFileTypes DEF MaxNumber
<1>4. Managed /\ Plans(L) /\ ~Exists(files, <<args.plan_file, L + 1>>)
  BY <1>0, <1>1 DEF ManagerInv
<1>5. L \in 0 .. MaxCost
  BY <1>4 DEF Plans
<1>6. \A i \in 1 .. L : manager.costs[i] = File(i).cost
  BY <1>0, <1>4 DEF Managed
<1>7. \A i \in 1 .. L : IsPlan(File(i)) /\ File(i).type = args.type /\ File(i).cost + i <= MaxCost + 1
                        /\ (i > 1 => File(i).cost < File(i - 1).cost)
  BY <1>4 DEF Plans
<1>8. SearchBound \in Nat /\ SearchBound + L <= MaxCost + 1 /\ (L > 0 => SearchBound = File(L).cost)
  <2>1. CASE L = 0
    <3>1. manager.costs = <<>>
      BY <1>0, <2>1, ManagerTypes, EmptySeq
    <3>2. SearchBound = MaxCost + 1
      BY <3>1 DEF SearchBound, get_best_plan_cost, Infinity
    <3> QED
      BY <1>3, <2>1, <3>2
  <2>2. CASE L # 0
    <3>1. manager.costs # <<>> /\ L \in 1 .. L /\ L \in 0 .. MaxNumber
      BY <1>0, <1>3, <1>5, <2>2, NumberTypes, PlanFileTypes, EmptySeq DEF MaxNumber
    <3>2. SearchBound = manager.costs[L]
      BY <1>0, <3>1 DEF SearchBound, get_best_plan_cost
    <3>3. File(L).cost \in Nat
      <4>1. File(L).cost \in 0 .. MaxCost
        BY <3>1, Names, ContentTypes
      <4> QED
        BY <1>3, <4>1
    <3> QED
      BY <1>6, <1>7, <3>1, <3>2, <3>3
  <2> QED
    BY <2>1, <2>2
<1>9. \A i \in 1 .. k : costs[i] + (L + i) <= MaxCost + 1
  <2> SUFFICES ASSUME NEW i \in 1 .. k PROVE costs[i] + (L + i) <= MaxCost + 1
    OBVIOUS
  <2>1. costs # <<>> => costs[1] < SearchBound
    BY <1>3, EmptySeq
  <2>2. costs[i] + i <= SearchBound
    BY <1>3, <1>8, <2>1, DecreasingCosts
  <2> QED
    BY <1>3, <1>8, <2>2
<1>10. last \in L .. MaxCost /\ last + 1 \in Numbers /\ last + 1 \in 0 .. MaxNumber
  <2>1. CASE k = 0
    BY <1>3, <1>5, <2>1, NumberTypes
  <2>2. CASE k # 0
    <3>1. k \in 1 .. k /\ costs[k] \in 1 .. MaxCost /\ costs[k] + (L + k) <= MaxCost + 1
      BY <1>3, <1>9, <2>2
    <3> QED
      BY <1>3, <3>1, NumberTypes
  <2> QED
    BY <2>1, <2>2
<1>11. \A n \in 0 .. MaxNumber : n \notin Written(costs, torn) => File(n)' = File(n)
  BY <1>1, <1>2, Names, SavedFiles DEF File
<1>12. ASSUME NEW n \in 0 .. MaxNumber, n \in Written(costs, torn)
       PROVE  File(n)' = [session |-> session, type |-> args.type,
                          cost |-> IF n < FirstNumber + k THEN costs[n - FirstNumber + 1] ELSE Incomplete]
  BY <1>1, <1>2, <1>12, SavedFiles DEF File
<1>13. ASSUME NEW n \in 1 .. L PROVE n \in 0 .. MaxNumber /\ n \notin Written(costs, torn) /\ File(n)' = File(n)
  <2>1. n \in 0 .. MaxNumber /\ n \notin Written(costs, torn)
    BY <1>3, <1>5 DEF Written
  <2> QED
    BY <1>11, <2>1
<1>14. ASSUME NEW n \in L + 1 .. last
       PROVE  /\ File(n)'.session = session /\ File(n)'.type = args.type /\ File(n)'.cost = costs[n - L]
              /\ n - L \in 1 .. k /\ n \in 0 .. MaxNumber
  <2>1. n \in 0 .. MaxNumber /\ n \in Written(costs, torn) /\ n < FirstNumber + k /\ n - FirstNumber + 1 = n - L
        /\ n - L \in 1 .. k
    BY <1>3, <1>10, NumberTypes DEF Written
  <2> QED
    BY <1>12, <2>1
<1> HIDE DEF k
<1>15. Managed'
  <2>1. \A i \in 1 .. L : manager.costs[i] = File(i)'.cost
    BY <1>6, <1>13
  <2> QED
    BY <1>0, <1>1, <1>4, <2>1 DEF Managed
<1>16. ASSUME NEW n \in 1 .. last
       PROVE  /\ IsPlan(File(n))' /\ File(n)'.type = args.type
              /\ File(n)'.cost + n <= MaxCost + 1
              /\ n > 1 => File(n)'.cost < File(n - 1)'.cost
  <2>1. CASE n \in 1 .. L
    <3>1. File(n)' = File(n) /\ (n > 1 => n - 1 \in 1 .. L /\ File(n - 1)' = File(n - 1))
      <4>1. n > 1 => n - 1 \in 1 .. L
        BY <1>3, <2>1
      <4> QED
        BY <1>13, <2>1, <4>1
    <3> QED
      BY <1>1, <1>7, <2>1, <3>1 DEF IsPlan
  <2>2. CASE n \in L + 1 .. last
    <3>1. /\ File(n)'.session = session /\ File(n)'.type = args.type /\ File(n)'.cost = costs[n - L] /\ n - L \in 1 .. k
      BY <1>14, <2>2
    <3>2. costs[n - L] \in 1 .. MaxCost /\ costs[n - L] < SearchBound
      BY <1>3, <3>1
    <3>3. IsPlan(File(n))'
      BY <1>1, <3>1, <3>2 DEF IsPlan, Incomplete
    <3>4. costs[n - L] + n <= MaxCost + 1
      <4>1. L + (n - L) = n
        BY <1>3
      <4> QED
        BY <1>9, <3>1, <4>1
    <3>5. ASSUME n > 1 PROVE File(n)'.cost < File(n - 1)'.cost
      <4>1. CASE n = L + 1
        <5>1. L > 0 /\ L \in 1 .. L /\ n - 1 = L
          BY <1>3, <3>5, <4>1
        <5>2. File(n - 1)' = File(L)
          BY <1>13, <5>1
        <5> QED
          BY <1>8, <3>1, <3>2, <5>1, <5>2
      <4>2. CASE n # L + 1
        <5>1. n - 1 \in L + 1 .. last /\ n - L \in 2 .. Len(costs) /\ (n - 1) - L = (n - L) - 1
          BY <1>3, <2>2, <3>1, <4>2 DEF k
        <5>2. File(n - 1)'.cost = costs[(n - L) - 1]
          BY <1>14, <5>1
        <5>3. costs[n - L] < costs[(n - L) - 1]
          BY <1>3, <5>1 DEF Decreasing
        <5> QED
          BY <3>1, <5>2, <5>3
      <4> QED
        BY <4>1, <4>2
    <3> QED
      BY <3>1, <3>3, <3>4, <3>5
  <2> QED
    BY <1>3, <2>1, <2>2
<1>17. ASSUME NEW n \in Numbers, n > last + 1 PROVE ~Exists(files', <<args.plan_file, n>>)
  <2>1. n \in 0 .. MaxNumber /\ n \notin Written(costs, torn) /\ n > L + 1
    BY <1>3, <1>17, NumberTypes DEF Written, k
  <2>2. ~Exists(files, <<args.plan_file, n>>)
    BY <1>3, <1>4, <2>1, NumberTypes DEF Plans
  <2> QED
    BY <1>1, <1>11, <2>1, <2>2, Names DEF Exists, File
<1>18. File(last + 1)'.cost = Incomplete
  <2>1. CASE last + 1 \in Written(costs, torn)
    <3>1. ~(last + 1 < FirstNumber + k)
      BY <1>3
    <3> QED
      BY <1>10, <1>12, <2>1, <3>1
  <2>2. CASE last + 1 \notin Written(costs, torn)
    <3>1. ~Exists(files, <<args.plan_file, last + 1>>)
      <4>1. CASE k = 0
        BY <1>3, <1>4, <4>1
      <4>2. CASE k # 0
        <5>1. last + 1 > L + 1
          BY <1>3, <4>2
        <5> QED
          BY <1>3, <1>4, <1>10, <5>1, NumberTypes DEF Plans
      <4> QED
        BY <4>1, <4>2
    <3>2. File(last + 1)' = File(last + 1) /\ File(last + 1) = NoFile
      BY <1>10, <1>11, <2>2, <3>1, Names
    <3> QED
      BY <3>2, NoFileFields DEF Incomplete
  <2> QED
    BY <2>1, <2>2
<1>19. Plans(last)'
  <2>1. \A n \in Numbers : Exists(files', <<args'.plan_file, n>>) => n <= last + 1
    BY <1>1, <1>3, <1>17, NumberTypes
  <2>2. last \in 0 .. MaxCost
    BY <1>3, <1>10
  <2> QED
    BY <1>1, <1>16, <2>1, <2>2 DEF Plans
<1> QED
  BY <1>0, <1>1, <1>10, <1>15, <1>18, <1>19 DEF ManagerInv

-----------------------------------------------------------------------------
(* process_new_plans reads all of them and removes what follows.           *)
LEMMA ReadsAllPlans ==
  ASSUME TypeInv, Managed, NEW L \in Nat, L = Len(manager.costs), NEW last \in Nat, L <= last,
         Plans(last), File(last + 1).cost = Incomplete,
         NEW read, read = process_new_plans(manager, files, args.plan_file)
  PROVE  /\ Len(read.manager.costs) = last
         /\ \A n \in 1 .. last : read.manager.costs[n] = File(n).cost
         /\ read.manager.problem_type = IF last = 0 THEN "None" ELSE args.type
         /\ ~read.bogus
         /\ read.files = IF Exists(files, <<args.plan_file, last + 1>>)
                         THEN [files EXCEPT ![<<args.plan_file, last + 1>>] = NoFile] ELSE files
<1> DEFINE p == args.plan_file
           C == NewCosts(files, p, Len(manager.costs) + 1)
           costs == manager.costs \o C
<1>0. L = Len(manager.costs)
  OBVIOUS
<1>a. /\ manager.costs \in Seq(0 .. MaxCost) /\ p \in Prefixes /\ args.type \in {"unit cost", "general cost"}
      /\ files \in [FileNames -> PlanContents \cup {NoFile}]
  BY ManagerTypes, ArgTypes DEF TypeInv
<1>1. L \in Nat /\ last \in Nat /\ L <= last /\ last <= MaxCost /\ MaxCost \in Nat /\ MaxNumber = MaxCost + 1
  <2>1. last \in 0 .. MaxCost
    BY DEF Plans
  <2> QED
    BY <2>1, PlanFileTypes DEF MaxNumber
<1>b. C = NewCosts(files, p, L + 1) /\ costs = manager.costs \o C
  OBVIOUS
<1> HIDE DEF C, costs
<1>2. /\ C \in Seq(1 .. MaxCost) /\ Len(C) \in Nat
      /\ Complete(files, p, L + 1) = L + 1 .. L + Len(C)
      /\ \A i \in 1 .. Len(C) : C[i] = File(L + i).cost
  <2>0. L + 1 \in Nat \ {0}
    BY <1>1
  <2>1. /\ C \in Seq(1 .. MaxCost)
        /\ Complete(files, p, L + 1) = L + 1 .. L + 1 + Len(C) - 1
        /\ \A i \in 1 .. Len(C) : C[i] = files[<<p, L + 1 + i - 1>>].cost
    BY <1>1, <1>a, <1>b, <2>0, CompleteIsInterval
  <2>2. Len(C) \in Nat
    BY <2>1, LenProperties
  <2>3. L + 1 + Len(C) - 1 = L + Len(C) /\ \A i \in 1 .. Len(C) : L + 1 + i - 1 = L + i
    BY <1>1, <2>2
  <2> QED
    BY <2>1, <2>2, <2>3 DEF File
<1>3. \A n \in 1 .. last : IsPlan(File(n)) /\ File(n).type = args.type /\ (n > 1 => File(n).cost < File(n - 1).cost)
  BY DEF Plans
<1>4. last + 1 \in 0 .. MaxNumber /\ \A n \in 1 .. last : n \in 0 .. MaxNumber
  BY <1>1
<1>5. L + Len(C) = last
  <2>1. ASSUME NEW n \in L + 1 .. last PROVE n \in Complete(files, p, L + 1)
    <3>1. \A k \in L + 1 .. n : k \in 1 .. last /\ k \in 0 .. MaxNumber
      BY <1>1, <1>4
    <3>2. \A k \in L + 1 .. n : Exists(files, <<p, k>>) /\ files[<<p, k>>].cost # Incomplete
      BY <1>3, <3>1, Names, PlanExists DEF IsPlan, File
    <3>3. n \in L + 1 .. MaxNumber
      BY <1>1
    <3> QED
      BY <3>2, <3>3 DEF Complete, Contiguous
  <2>2. last + 1 \notin Complete(files, p, L + 1)
    <3>1. last + 1 \in L + 1 .. last + 1 /\ files[<<p, last + 1>>].cost = Incomplete
      BY <1>1 DEF File
    <3> QED
      BY <3>1 DEF Complete
  <2>3. last <= L + Len(C)
    <3>1. CASE last = L
      BY <1>1, <1>2, <3>1
    <3>2. CASE last # L
      <4>1. last \in L + 1 .. last
        BY <1>1, <3>2
      <4>2. last \in L + 1 .. L + Len(C)
        BY <1>2, <2>1, <4>1
      <4> QED
        BY <1>1, <1>2, <4>2
    <3> QED
      BY <3>1, <3>2
  <2>4. ~(last + 1 \in L + 1 .. L + Len(C))
    BY <1>2, <2>2
  <2>5. Len(C) \in Nat
    BY <1>2
  <2> QED
    BY <1>1, <2>3, <2>4, <2>5
<1>6. Len(costs) = last /\ \A n \in 1 .. last : costs[n] = File(n).cost
  <2>1. C \in Seq(0 .. MaxCost)
    <3>1. 1 .. MaxCost \subseteq 0 .. MaxCost
      BY <1>1
    <3> QED
      BY <1>2, <3>1, SeqMonotonic
  <2>2. /\ Len(costs) = L + Len(C)
        /\ \A n \in 1 .. L + Len(C) : costs[n] = IF n <= L THEN manager.costs[n] ELSE C[n - L]
    <3> DEFINE M == manager.costs
    <3>1. M \in Seq(0 .. MaxCost) /\ Len(M) = L
      BY <1>0, <1>a
    <3> HIDE DEF M
    <3>2. /\ Len(M \o C) = Len(M) + Len(C)
          /\ \A n \in 1 .. Len(M) + Len(C) : (M \o C)[n] = IF n <= Len(M) THEN M[n] ELSE C[n - Len(M)]
      BY <2>1, <3>1, ConcatProperties
    <3>3. costs = M \o C
      BY <1>b DEF M
    <3> QED
      BY <3>1, <3>2, <3>3 DEF M
  <2>3. ASSUME NEW n \in 1 .. last PROVE costs[n] = File(n).cost
    <3>1. CASE n <= L
      <4>1. costs[n] = manager.costs[n]
        BY <1>5, <2>2, <3>1
      <4>2. n \in 1 .. L
        BY <1>1, <3>1
      <4> QED
        BY <1>0, <4>1, <4>2 DEF Managed
    <3>2. CASE ~(n <= L)
      <4>1. n - L \in 1 .. Len(C) /\ L + (n - L) = n
        BY <1>1, <1>2, <1>5, <3>2
      <4>2. costs[n] = C[n - L]
        BY <1>5, <2>2, <3>2
      <4> QED
        BY <1>2, <4>1, <4>2
    <3> QED
      BY <3>1, <3>2
  <2> QED
    BY <1>5, <2>2, <2>3
<1> DEFINE type == IF manager.problem_type # "None" \/ Len(costs) < L + 1 THEN manager.problem_type
                   ELSE files[<<p, L + 1>>].type
           unfit == \E n \in L + 1 .. Len(costs) :
                      files[<<p, n>>].type # type \/ (n > 1 /\ costs[n] >= costs[n - 1])
           removed == ~unfit /\ last + 1 \in Contiguous(files, p, last + 1)
<1>7. /\ read.manager.costs = costs /\ read.manager.problem_type = type
      /\ read.files = IF removed THEN [files EXCEPT ![<<p, last + 1>>] = NoFile] ELSE files
      /\ read.bogus <=> unfit \/ (removed /\ Exists(files, <<p, last + 1 + 1>>))
  BY <1>0, <1>6, <1>b DEF process_new_plans, get_plan_counter
<1>8. type = IF last = 0 THEN "None" ELSE args.type
  <2>1. manager.problem_type = IF L = 0 THEN "None" ELSE args.type
    BY <1>0 DEF Managed
  <2>2. CASE L # 0
    <3>1. manager.problem_type = args.type /\ args.type # "None"
      BY <1>a, <2>1, <2>2
    <3>2. last # 0
      BY <1>1, <2>2
    <3> QED
      BY <3>1, <3>2
  <2>3. CASE L = 0 /\ last = 0
    BY <1>1, <1>6, <2>1, <2>3
  <2>4. CASE L = 0 /\ last # 0
    <3>1. ~(Len(costs) < L + 1) /\ L + 1 = 1 /\ 1 \in 1 .. last
      BY <1>1, <1>6, <2>4
    <3>2. files[<<p, L + 1>>].type = args.type
      BY <1>3, <3>1 DEF File
    <3> QED
      BY <2>1, <2>4, <3>1, <3>2
  <2> QED
    BY <2>2, <2>3, <2>4
<1> HIDE DEF type
<1>9. ~unfit
  <2> SUFFICES ASSUME NEW n \in L + 1 .. last
               PROVE  files[<<p, n>>].type = type /\ (n > 1 => ~(costs[n] >= costs[n - 1]))
    BY <1>6
  <2>1. n \in 1 .. last /\ last # 0 /\ (n > 1 => n - 1 \in 1 .. last)
    BY <1>1
  <2>2. files[<<p, n>>].type = type
    BY <1>3, <1>8, <2>1 DEF File
  <2>3. ASSUME n > 1 PROVE ~(costs[n] >= costs[n - 1])
    <3>1. costs[n] = File(n).cost /\ costs[n - 1] = File(n - 1).cost /\ File(n).cost < File(n - 1).cost
      BY <1>3, <1>6, <2>1, <2>3
    <3>2. File(n).cost \in 0 .. MaxCost /\ File(n - 1).cost \in 0 .. MaxCost
      BY <1>4, <2>1, <2>3, Names, ContentTypes
    <3> QED
      BY <1>1, <3>1, <3>2
  <2> QED
    BY <2>2, <2>3
<1>10. removed <=> Exists(files, <<p, last + 1>>)
  <2>1. last + 1 \in last + 1 .. MaxNumber /\ last + 1 .. last + 1 = {last + 1}
    BY <1>1
  <2> QED
    BY <1>9, <2>1 DEF Contiguous
<1>11. ~Exists(files, <<p, last + 1 + 1>>)
  <2>1. CASE last + 1 + 1 \in Numbers
    <3>1. ~(last + 1 + 1 <= last + 1)
      BY <1>1
    <3> QED
      BY <2>1, <3>1 DEF Plans
  <2>2. CASE last + 1 + 1 \notin Numbers
    <3>1. last + 1 + 1 \notin 0 .. MaxNumber
      BY <1>1, <2>2, NumberTypes
    <3>2. <<p, last + 1 + 1>> \notin FileNames
      BY <3>1 DEF FileNames
    <3> QED
      BY <1>a, <3>2 DEF Exists
  <2> QED
    BY <2>1, <2>2
<1> HIDE DEF unfit, removed
<1> QED
  BY <1>6, <1>7, <1>8, <1>9, <1>10, <1>11

LEMMA ManagerAfterCollecting ==
  ASSUME TypeInv, NumbersInv, ManagerInv, collect_sat
  PROVE  NumbersInv' /\ ManagerInv' /\ ended' = ended
<1>1. PICK read : read = process_new_plans(manager, files, args.plan_file)
  OBVIOUS
<1>2. /\ pc = "collect" /\ args.portfolio = "satisficing" /\ args' = args /\ session' = session
      /\ files' = read.files /\ manager' = read.manager
      /\ ~read.bogus => pc' \in {"portfolio", "launch"} /\ ended' = ended
  BY <1>1 DEF collect_sat, sessionVars, Continue
<1>3. PICK L \in Nat : L = Len(manager.costs)
  BY ManagerTypes
<1>4. Managed /\ \E last \in L .. MaxCost : Plans(last) /\ File(last + 1).cost = Incomplete
  BY <1>2, <1>3 DEF ManagerInv
<1>5. PICK last \in Nat : L <= last /\ last <= MaxCost /\ Plans(last) /\ File(last + 1).cost = Incomplete
  BY <1>4, PlanFileTypes
<1>6. /\ Len(read.manager.costs) = last
      /\ \A n \in 1 .. last : read.manager.costs[n] = File(n).cost
      /\ read.manager.problem_type = IF last = 0 THEN "None" ELSE args.type
      /\ ~read.bogus
      /\ read.files = IF Exists(files, <<args.plan_file, last + 1>>)
                      THEN [files EXCEPT ![<<args.plan_file, last + 1>>] = NoFile] ELSE files
  BY <1>1, <1>3, <1>4, <1>5, ReadsAllPlans
<1>7. MaxCost \in Nat /\ MaxNumber = MaxCost + 1 /\ last + 1 \in Numbers /\ \A n \in 1 .. last : n \in Numbers /\ n # last + 1
  BY <1>5, NumberTypes, PlanFileTypes DEF MaxNumber
<1>8. ASSUME NEW prefix \in Prefixes, NEW n \in Numbers
      PROVE  /\ Exists(files', <<prefix, n>>) <=>
                  Exists(files, <<prefix, n>>) /\ (prefix # args.plan_file \/ n # last + 1)
             /\ prefix # args.plan_file \/ n # last + 1 => files'[<<prefix, n>>] = files[<<prefix, n>>]
  <2>1. files \in [FileNames -> PlanContents \cup {NoFile}] /\ <<prefix, n>> \in FileNames
    BY NumberTypes DEF TypeInv, FileNames
  <2> QED
    BY <1>2, <1>6, <2>1 DEF Exists
<1>9. args.plan_file \in Prefixes
  BY ArgTypes DEF TypeInv
<1>10. \A n \in Numbers : Exists(files', <<args.plan_file, n>>) => n <= last
  <2> SUFFICES ASSUME NEW n \in Numbers, Exists(files', <<args.plan_file, n>>) PROVE n <= last
    OBVIOUS
  <2>1. n # last + 1 /\ n <= last + 1
    BY <1>5, <1>8, <1>9 DEF Plans
  <2> QED
    BY <1>5, <2>1, NumberTypes
<1>11. \A n \in 1 .. last : File(n)' = File(n)
  BY <1>2, <1>7, <1>8, <1>9 DEF File
<1>12. pc' \in {"portfolio", "launch"} /\ ended' = ended
  BY <1>2, <1>6
<1>13. ~Removing /\ ~Removing'
  BY <1>2, <1>12 DEF Removing
<1>14. NumbersInv'
  <2>1. \A prefix \in Prefixes : \A n \in Numbers : Exists(files, <<prefix, n>>) =>
          \A m \in 1 .. n : Exists(files, <<prefix, m>>)
    BY <1>13, GaplessRest
  <2>2. ASSUME NEW prefix \in Prefixes, NEW n \in Numbers, Exists(files', <<prefix, n>>), NEW m \in 1 .. n
        PROVE  Exists(files', <<prefix, m>>)
    <3>1. m \in Numbers /\ Exists(files, <<prefix, m>>)
      BY <1>8, <2>1, <2>2, NumberTypes
    <3>2. prefix = args.plan_file => m # last + 1
      BY <1>5, <1>10, <2>2, NumberTypes
    <3> QED
      BY <1>8, <3>1, <3>2
  <2> QED
    BY <1>13, <2>2, GaplessMeansNumbersInv
<1>15. Managed'
  <2>1. \A n \in 1 .. last : manager'.costs[n] = File(n)'.cost
    BY <1>2, <1>6, <1>11
  <2> QED
    BY <1>2, <1>6, <2>1 DEF Managed
<1>16. Plans(last)'
  <2>1. \A n \in 1 .. last :
          /\ IsPlan(File(n)) /\ File(n).type = args.type /\ File(n).cost + n <= MaxCost + 1
          /\ n > 1 => File(n).cost < File(n - 1).cost
    BY <1>5 DEF Plans
  <2>2. \A n \in 1 .. last : n > 1 => n - 1 \in 1 .. last
    BY <1>5
  <2>3. \A n \in 1 .. last :
          /\ IsPlan(File(n))' /\ File(n)'.type = args'.type /\ File(n)'.cost + n <= MaxCost + 1
          /\ n > 1 => File(n)'.cost < File(n - 1)'.cost
    BY <1>2, <1>11, <2>1, <2>2 DEF IsPlan
  <2>4. \A n \in Numbers : Exists(files', <<args'.plan_file, n>>) => n <= last + 1
    BY <1>2, <1>5, <1>10, NumberTypes
  <2>5. last \in 0 .. MaxCost
    BY <1>5, <1>7
  <2> QED
    BY <2>3, <2>4, <2>5 DEF Plans
<1>17. ~Exists(files', <<args'.plan_file, last + 1>>)
  BY <1>2, <1>7, <1>8, <1>9
<1>18. ManagerInv'
  BY <1>2, <1>6, <1>12, <1>15, <1>16, <1>17 DEF ManagerInv
<1> QED
  BY <1>12, <1>14, <1>18

-----------------------------------------------------------------------------
\* The steps that leave the files alone, or touch a number 0 only.
LEMMA NumbersWithoutChange ==
  ASSUME NumbersInv, ~Removing, ~Removing',
         \A prefix \in Prefixes, n \in Numbers : files'[<<prefix, n>>] = files[<<prefix, n>>],
         DOMAIN files' = DOMAIN files
  PROVE  NumbersInv'
<1>1. \A prefix \in Prefixes, n \in Numbers : Exists(files', <<prefix, n>>) <=> Exists(files, <<prefix, n>>)
  BY DEF Exists
<1>2. \A n \in Numbers : \A m \in 1 .. n : m \in Numbers
  BY NumberTypes
<1> QED
  BY <1>1, <1>2, GaplessRest, GaplessMeansNumbersInv

LEMMA NumbersBeforeRemoval ==
  ASSUME NumbersInv, ~Removing, Removing', files' = files, number' = 0
  PROVE  NumbersInv'
<1>1. \A prefix \in Prefixes : \A n \in Numbers : Exists(files, <<prefix, n>>) =>
        \A m \in 1 .. n : Exists(files, <<prefix, m>>)
  BY GaplessRest
<1>2. \A n \in Numbers : ~(n < number')
  BY NumberTypes
<1> QED
  BY <1>1, <1>2 DEF NumbersInv, NoGaps

NotBogus == ended # "RuntimeError"

LEMMA ManagedByStep ==
  ASSUME StrictBound, ~InterruptedDeletion, TypeInv, TaskInv, NumbersInv, ManagerInv, NotBogus, [Next]_vars
  PROVE  NumbersInv' /\ ManagerInv' /\ NotBogus'
<1> USE DEF sessionVars, fileVars, searchVars, End, CalledProcessError, Fail
<1>1. CASE UNCHANGED vars
  BY <1>1 DEF vars, NumbersInv, NoGaps, Removing, ManagerInv, Managed, Plans, File, IsPlan, NotBogus
<1>2. CASE \/ main \/ Killed \/ run_translate \/ run_1_bfws \/ run_preprocess
           \/ run_opt_config \/ collect_opt \/ run_portfolio \/ run_validate \/ exit
  <2>1. files' = files /\ ~Removing /\ ~Removing'
    BY <1>2 DEF main, Begin, Killed, run_translate, run_1_bfws, run_preprocess, run_opt_config,
         collect_opt, Continue, run_portfolio, run_validate, exit, Validation, Removing
  <2>2. ManagerInv' /\ NotBogus'
    BY <1>2 DEF main, Begin, Killed, run_translate, run_1_bfws, run_preprocess, run_opt_config,
         collect_opt, Continue, run_portfolio, run_validate, exit, Validation, ManagerInv, NotBogus
  <2> QED
    BY <2>1, <2>2, NumbersWithoutChange
<1>3. CASE cleanup_temporary_files
  <2>1. files' = files /\ ~Removing /\ Removing' /\ number' = 0
    BY <1>3 DEF cleanup_temporary_files, Removing
  <2>2. ManagerInv' /\ NotBogus'
    BY <1>3 DEF cleanup_temporary_files, ManagerInv, NotBogus
  <2> QED
    BY <2>1, <2>2, NumbersBeforeRemoval
<1>4. CASE run_search
  <2>1. files' = files /\ ~Removing /\ (Removing' => number' = 0)
    BY <1>4 DEF run_search, Validation, Removing
  <2>2. ManagerInv' /\ NotBogus'
    BY <1>4 DEF run_search, Validation, ManagerInv, NotBogus
  <2> QED
    BY <2>1, <2>2, NumbersBeforeRemoval, NumbersWithoutChange
<1>5. CASE run_1_bfws_done
  <2>1. /\ ~Removing /\ ~Removing' /\ ManagerInv' /\ NotBogus'
        /\ files' = files \/ \E content : files' = [files EXCEPT ![<<"sas_plan", 0>>] = content]
    BY <1>5 DEF run_1_bfws_done, Removing, ManagerInv, NotBogus
  <2>2. /\ DOMAIN files' = DOMAIN files
        /\ \A prefix \in Prefixes, n \in Numbers : files'[<<prefix, n>>] = files[<<prefix, n>>]
    <3>1. \A prefix \in Prefixes, n \in Numbers : <<prefix, n>> # <<"sas_plan", 0>>
      BY NumberTypes
    <3>2. CASE files' = files
      BY <3>2
    <3>3. ASSUME NEW content, files' = [files EXCEPT ![<<"sas_plan", 0>>] = content]
          PROVE  /\ DOMAIN files' = DOMAIN files
                 /\ \A prefix \in Prefixes, n \in Numbers : files'[<<prefix, n>>] = files[<<prefix, n>>]
      <4>1. \A prefix \in Prefixes, n \in Numbers : <<prefix, n>> \in DOMAIN files
        BY NumberTypes DEF TypeInv, FileNames
      <4> QED
        BY <3>1, <3>3, <4>1
    <3> QED
      BY <2>1, <3>2, <3>3
  <2> QED
    BY <2>1, <2>2, NumbersWithoutChange
<1>6. CASE delete_existing_plans
  <2>1. NotBogus'
    BY <1>6 DEF delete_existing_plans, NotBogus
  <2> QED
    BY <1>6, <2>1, ManagedAfterRemoval
<1>7. CASE run_sat_config
  <2>1. /\ files' = files /\ manager' = manager /\ args' = args /\ session' = session
        /\ pc = "launch" /\ args.portfolio = "satisficing" /\ pc' \in {"engine", "portfolio", "idle"} /\ NotBogus'
    BY <1>7 DEF run_sat_config, NotBogus
  <2>2. NumbersInv'
    BY <2>1, NumbersWithoutChange DEF Removing
  <2>3. Managed /\ Plans(Len(manager.costs)) /\ ~Exists(files, <<args.plan_file, Len(manager.costs) + 1>>)
    BY <2>1 DEF ManagerInv
  <2>4. Managed' /\ Plans(Len(manager.costs))' /\ ~Exists(files', <<args'.plan_file, Len(manager'.costs) + 1>>)
    BY <2>1, <2>3 DEF Managed, Plans, File, IsPlan
  <2>5. ManagerInv'
    BY <2>1, <2>4 DEF ManagerInv
  <2> QED
    BY <2>1, <2>2, <2>5
<1>8. CASE run_single_search \/ run_portfolio_search
  <2>1. /\ pc = "engine" /\ args' = args /\ ~Removing' /\ NotBogus'
        /\ \E costs \in PlanCosts, torn \in BOOLEAN : files' = save_plan(files, costs, torn)
    BY <1>8 DEF run_single_search, run_portfolio_search, Validation, Removing, NotBogus
  <2>2. NumbersInv'
    BY <2>1, NumbersAfterSearch
  <2>3. ManagerInv'
    <3>1. CASE run_single_search
      BY <3>1 DEF run_single_search, Validation, ManagerInv
    <3> QED
      BY <1>8, <3>1, ManagerAfterSearch
  <2> QED
    BY <2>1, <2>2, <2>3
<1>9. CASE collect_sat
  BY <1>9, ManagerAfterCollecting DEF NotBogus
<1> QED
  BY <1>1, <1>2, <1>3, <1>4, <1>5, <1>6, <1>7, <1>8, <1>9 DEF Next, Call, Component

LEMMA ManagedInvariant ==
  ASSUME StrictBound, ~InterruptedDeletion
  PROVE  Spec => [](NumbersInv /\ ManagerInv /\ NotBogus)
<1> DEFINE MInv == NumbersInv /\ ManagerInv /\ NotBogus
<1>1. Init => MInv
  BY ManagedInitially DEF Init, NotBogus
<1>2. TypeInv /\ TaskInv /\ MInv /\ [Next]_vars => MInv'
  BY ManagedByStep
<1>3. Spec => [](TypeInv /\ TaskInv)
  BY FilesInvariant, PTL DEF FilesInv
<1> QED
  BY <1>1, <1>2, <1>3, PTL DEF Spec

\* If searches keep below their bound and no call is killed between two removals,
\* the manager has counted the plans in the directory whenever a portfolio starts a
\* search: bound and plan number are right (portfolio_runner.py, run_sat_config).
THEOREM ManagerMatchesFilesCorrect ==
  ASSUME StrictBound, ~InterruptedDeletion
  PROVE  Spec => []ManagerMatchesFiles
<1>1. TypeInv /\ ManagerInv => ManagerMatchesFiles
  <2> SUFFICES ASSUME TypeInv, ManagerInv, pc \in {"launch", "portfolio"}, args.portfolio = "satisficing"
               PROVE  /\ Contiguous(files, args.plan_file, 1) = DOMAIN manager.costs
                      /\ \A n \in DOMAIN manager.costs :
                           /\ IsPlan(File(n))
                           /\ File(n).cost = manager.costs[n]
                           /\ n > 1 => manager.costs[n] < manager.costs[n - 1]
    BY DEF ManagerMatchesFiles, File
  <2>1. PICK L \in Nat : L = Len(manager.costs)
    BY ManagerTypes
  <2>2. Managed /\ Plans(L) /\ ~Exists(files, <<args.plan_file, L + 1>>)
    BY <2>1 DEF ManagerInv
  <2>3. DOMAIN manager.costs = 1 .. L
    BY <2>1, ManagerTypes, LenProperties
  <2>4. /\ \A n \in 1 .. L : manager.costs[n] = File(n).cost /\ IsPlan(File(n))
        /\ \A n \in 1 .. L : n > 1 => File(n).cost < File(n - 1).cost
        /\ L <= MaxCost /\ MaxCost \in Nat /\ MaxNumber = MaxCost + 1
    BY <2>1, <2>2, PlanFileTypes DEF Managed, Plans, MaxNumber
  <2>5. \A n \in 1 .. L : n > 1 => n - 1 \in 1 .. L
    OBVIOUS
  <2>6. \A n \in 1 .. L : Exists(files, <<args.plan_file, n>>) /\ n \in 1 .. MaxNumber
    <3> SUFFICES ASSUME NEW n \in 1 .. L PROVE Exists(files, <<args.plan_file, n>>) /\ n \in 1 .. MaxNumber
      OBVIOUS
    <3>1. n \in 1 .. MaxNumber /\ n \in 0 .. MaxNumber
      BY <2>4
    <3> QED
      BY <2>4, <3>1, Names, PlanExists
  <2>7. Contiguous(files, args.plan_file, 1) = 1 .. L
    <3>1. ASSUME NEW n \in 1 .. L PROVE n \in Contiguous(files, args.plan_file, 1)
      <4>1. \A k \in 1 .. n : k \in 1 .. L
        OBVIOUS
      <4> QED
        BY <2>6, <4>1 DEF Contiguous
    <3>2. ASSUME NEW n \in Contiguous(files, args.plan_file, 1) PROVE n \in 1 .. L
      <4>1. n \in 1 .. MaxNumber /\ \A k \in 1 .. n : Exists(files, <<args.plan_file, k>>)
        BY <3>2 DEF Contiguous
      <4>2. L + 1 \notin 1 .. n
        BY <2>2, <4>1
      <4> QED
        BY <2>4, <4>1, <4>2
    <3> QED
      BY <3>1, <3>2
  <2> QED
    BY <2>3, <2>4, <2>5, <2>7
<1>2. Spec => []TypeInv
  BY FilesInvariant, PTL DEF FilesInv
<1> QED
  BY <1>1, <1>2, ManagedInvariant, PTL

\* Under the same conditions process_new_plans never raises its error
\* (plan_manager.py, process_new_plans).
THEOREM NoBogusPlanCorrect ==
  ASSUME StrictBound, ~InterruptedDeletion
  PROVE  Spec => []NoBogusPlan
<1>1. NotBogus => NoBogusPlan
  BY DEF NotBogus, NoBogusPlan
<1> QED
  BY <1>1, ManagedInvariant, PTL
=============================================================================
