--------------------------- MODULE MCPreprocessor ---------------------------
EXTENDS PreprocessorProperties

LOCAL INSTANCE FiniteSetsExt
LOCAL INSTANCE SequencesExt

TaskVariables == {"a", "b", "c", "d"}

TaskValues == [v \in TaskVariables |-> IF v = "a" THEN 0 .. 2 ELSE 0 .. 1]

E(v, pre, post) == [var |-> v, pre |-> pre, post |-> post, conds |-> {}]

When(conds, e) == [e EXCEPT !.conds = conds]

Op(prevail, effects) == [prevail |-> prevail, effects |-> effects]

Pool ==
  <<Op({<<"b", 0>>}, {E("a", 0, 1)}),
    Op({<<"c", 1>>}, {E("a", 1, 2)}),
    Op({<<"a", 0>>}, {E("b", 0, 1)}),
    Op({}, {E("b", NONE, 0)}),
    Op({}, {E("c", 0, 1), E("a", 1, 0)}),
    Op({<<"a", 2>>}, {E("c", NONE, 0)}),
    Op({}, {E("a", NONE, 1), E("b", 0, 1)}),
    Op({<<"b", 1>>}, {E("c", NONE, 1)}),
    Op({}, {E("a", NONE, 2), E("b", 1, 0)}),
    Op({}, {E("a", NONE, 0)}),
    Op({}, {E("a", 0, 1), E("b", 0, 1)}),
    Op({<<"a", 2>>}, {E("b", NONE, 1), When({<<"b", 1>>}, E("c", 0, 1))})>>

Start == [v \in TaskVariables |-> 0]

GoalSets == {{<<"a", 2>>}, {<<"a", 2>>, <<"b", 1>>}, {<<"c", 1>>}, {<<"b", 0>>, <<"c", 1>>}}

\* What the translator may know: at most one of the facts holds at first, and no operator
\* makes it two (the states need not be reachable).
Invariant(group, ops) ==
  LET weight(s) == Cardinality(FactsOf(s) \cap group)
  IN  /\ weight(Start) <= 1
      /\ \A s \in StatesOf(AllOps(ops), Start) : weight(s) <= 1 =>
           \A op \in AllOps(ops) : Applicable(op, s) => weight(Result(op, s)) <= 1

Groups == {{<<"a", 0>>, <<"c", 1>>}, {<<"a", 1>>, <<"b", 1>>}, {<<"a", 2>>, <<"b", 0>>}, {<<"a", 1>>, <<"a", 2>>, <<"c", 0>>}}

OpLists == {SetToSortSeq(S, <) : S \in kSubset(3, 1 .. 9)} \cup {<<2, 5, 10, 11>>, <<1, 9, 12>>, <<1, 2, 12>>, <<1, 3, 12>>}

Task(positions, goal, groups) ==
  [ops |-> [k \in DOMAIN positions |-> Pool[positions[k]]], init |-> Start, goal |-> goal, groups |-> groups]

\* b, c and d are mutex with one value of a each, so that the last operator, whose three
\* preconditions are pairwise possible, is found spurious for lack of a value of a.
NoValueLeft ==
  [ops |-> <<Op({<<"a", 0>>}, {E("c", 0, 1)}),
             Op({<<"a", 0>>}, {E("d", 0, 1)}),
             Op({<<"c", 0>>}, {E("a", 0, 1)}),
             Op({<<"d", 0>>}, {E("a", 0, 2)}),
             Op({<<"a", 1>>}, {E("b", 0, 1)}),
             Op({<<"a", 2>>}, {E("b", 0, 1)}),
             Op({<<"c", 1>>, <<"d", 1>>}, {E("b", 1, 0)})>>,
   init |-> Start, goal |-> {<<"b", 1>>}, groups |-> {}]

PlainTasks ==
  {NoValueLeft} \cup
  UNION {{Task(l, g, {}), Task(l, g, {x \in Groups : Invariant(x, [k \in DOMAIN l |-> Pool[l[k]]])})} :
         l \in OpLists, g \in GoalSets}

-----------------------------------------------------------------------------
(* One hand for two things, and a bell next to a door.  Ringing drops p if *)
(* it is held, and the door is opened with q once the bell has rung.  Only *)
(* q can be taken no more after the bell has rung, so a plan rings with q  *)
(* in the hand.  The last operator needs both things held.                 *)

HandVariables == {"p", "q", "hand", "rung", "open"}

HandValues == [v \in HandVariables |-> 0 .. 1]

HandTasks ==
  {[ops |-> <<Op({}, {E("p", 0, 1), E("hand", 1, 0)}),
              Op({<<"rung", 0>>}, {E("q", 0, 1), E("hand", 1, 0)}),
              Op({}, {E("rung", 0, 1), When({<<"p", 1>>}, E("p", NONE, 0)), When({<<"p", 1>>}, E("hand", NONE, 1))}),
              Op({<<"q", 1>>, <<"rung", 1>>}, {E("open", 0, 1)}),
              Op({<<"q", 1>>}, {E("p", 1, 0), E("hand", 0, 1)})>>,
    init |-> [v \in HandVariables |-> IF v = "hand" THEN 1 ELSE 0],
    goal |-> {<<"open", 1>>},
    groups |-> {{<<"p", 1>>, <<"q", 1>>, <<"hand", 1>>}}]}

=============================================================================
