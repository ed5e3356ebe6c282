--------------------------- MODULE EhcTasks ---------------------------
(***************************************************************************)
(* Small planning tasks for ehc_cn, as transition systems.                 *)
(***************************************************************************)
EXTENDS Integers

\* The diamond i -> a -> b, i -> b (the direct way is dearer), the goal g behind
\* b, and a trap d with nothing but a loop.  The singletons do not tell b from
\* a nor d from i, so novelty prunes until a conjunction is learned.
DiamondStates == {"i", "a", "b", "d", "g"}

DiamondTransitions == {"ia", "ib", "ab", "ad", "dd", "bg"}

DiamondSource == [t \in DiamondTransitions |->
  CASE t \in {"ia", "ib"} -> "i" [] t \in {"ab", "ad"} -> "a" [] t = "dd" -> "d" [] t = "bg" -> "b"]

DiamondTarget == [t \in DiamondTransitions |->
  CASE t = "ia" -> "a" [] t \in {"ib", "ab"} -> "b" [] t \in {"ad", "dd"} -> "d" [] t = "bg" -> "g"]

DiamondCost == [t \in DiamondTransitions |-> IF t = "ib" THEN 3 ELSE 1]

DiamondFacts == {"f1", "f2", "f3"}

DiamondConjunctions == {"c1"}

DiamondHolds == [f \in DiamondFacts \cup DiamondConjunctions |->
  CASE f = "f1" -> {"i", "d"} [] f = "f2" -> {"a", "b"} [] f = "f3" -> {"g"} [] f = "c1" -> {"b"}]

DiamondPlanCosts == [s \in DiamondStates |->
  CASE s = "i" -> {3, 4} [] s = "a" -> {2} [] s = "b" -> {1} [] s = "g" -> {0} [] s = "d" -> {}]

-----------------------------------------------------------------------------
\* A corridor: i leads only to p, behind which q (with a way back) and r share
\* their only singleton, so a phase at p sees one of them; the goal is behind r
\* and a trap d beside it.
CorridorStates == {"i", "p", "q", "r", "d", "g"}

CorridorTransitions == {"ip", "pq", "pr", "qp", "qd", "dd", "rg"}

CorridorSource == [t \in CorridorTransitions |->
  CASE t = "ip" -> "i" [] t \in {"pq", "pr"} -> "p" [] t \in {"qp", "qd"} -> "q"
    [] t = "dd" -> "d" [] t = "rg" -> "r"]

CorridorTarget == [t \in CorridorTransitions |->
  CASE t \in {"ip", "qp"} -> "p" [] t = "pq" -> "q" [] t = "pr" -> "r"
    [] t \in {"qd", "dd"} -> "d" [] t = "rg" -> "g"]

CorridorCost == [t \in CorridorTransitions |-> IF t = "pr" THEN 2 ELSE 1]

CorridorFacts == {"fi", "fp", "fq", "fd", "fg"}

CorridorConjunctions == {"c1", "c2"}

CorridorHolds == [f \in CorridorFacts \cup CorridorConjunctions |->
  CASE f = "fi" -> {"i"} [] f = "fp" -> {"p"} [] f = "fq" -> {"q", "r"} [] f = "fd" -> {"d"}
    [] f = "fg" -> {"g"} [] f = "c1" -> {"r"} [] f = "c2" -> {"q"}]

CorridorPlanCosts == [s \in CorridorStates |->
  CASE s = "i" -> {4} [] s = "p" -> {3} [] s = "r" -> {1} [] s = "g" -> {0} [] OTHER -> {}]

-----------------------------------------------------------------------------
\* x has a relaxed plan that executes (y, then g) but is too expensive for the
\* bound, and one of its operators, taken first, leads into the trap d.
DearStates == {"i", "x", "y", "d", "g"}

DearTransitions == {"ix", "xy", "xd", "dd", "yg"}

DearSource == [t \in DearTransitions |->
  CASE t = "ix" -> "i" [] t \in {"xy", "xd"} -> "x" [] t = "dd" -> "d" [] t = "yg" -> "y"]

DearTarget == [t \in DearTransitions |->
  CASE t = "ix" -> "x" [] t = "xy" -> "y" [] t \in {"xd", "dd"} -> "d" [] t = "yg" -> "g"]

DearCost == [t \in DearTransitions |-> IF t = "xy" THEN 2 ELSE 1]

DearFacts == {"fi", "fx", "fy", "fd", "fg"}

DearConjunctions == {"c1"}

DearHolds == [f \in DearFacts \cup DearConjunctions |->
  CASE f = "fi" -> {"i"} [] f = "fx" -> {"x"} [] f = "fy" -> {"y"} [] f = "fd" -> {"d"}
    [] f = "fg" -> {"g"} [] f = "c1" -> {"y"}]

DearPlanCosts == [s \in DearStates |->
  CASE s = "i" -> {4} [] s = "x" -> {3} [] s = "y" -> {1} [] s = "g" -> {0} [] s = "d" -> {}]

-----------------------------------------------------------------------------
\* A fork: behind s, t and the goal share their only singleton, so that a phase at
\* s sees one of them; behind a is b, from where nothing but a can be reached.
ForkStates == {"i", "a", "b", "s", "t", "g"}

ForkTransitions == {"ia", "is", "ab", "ba", "st", "sg", "ts"}

ForkSource == [x \in ForkTransitions |->
  CASE x \in {"ia", "is"} -> "i" [] x = "ab" -> "a" [] x = "ba" -> "b"
    [] x \in {"st", "sg"} -> "s" [] x = "ts" -> "t"]

ForkTarget == [x \in ForkTransitions |->
  CASE x \in {"ia", "ba"} -> "a" [] x = "ab" -> "b" [] x \in {"is", "ts"} -> "s"
    [] x = "st" -> "t" [] x = "sg" -> "g"]

ForkCost == [x \in ForkTransitions |-> 1]

ForkFacts == {"fi", "fa", "fb", "fs", "ft"}

ForkConjunctions == {"c1", "c2"}

ForkHolds == [f \in ForkFacts \cup ForkConjunctions |->
  CASE f = "fi" -> {"i"} [] f = "fa" -> {"a"} [] f = "fb" -> {"b"} [] f = "fs" -> {"s"}
    [] f = "ft" -> {"t", "g"} [] f = "c1" -> {"g"} [] f = "c2" -> {"b"}]

ForkPlanCosts == [x \in ForkStates |->
  CASE x = "i" -> {2} [] x = "s" -> {1} [] x = "g" -> {0} [] OTHER -> {}]

=============================================================================
