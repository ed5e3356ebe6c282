------------------------------- MODULE MCBfws -------------------------------
(***************************************************************************)
(* An instance for TLC, small but with everything in it: the goals must be *)
(* achieved in the order r, p, q, which is not the order they are listed   *)
(* in; achieving q deletes p, and may delete r by a conditional effect;    *)
(* there are dead ends, states reached twice and by a cheaper path second. *)
(***************************************************************************)
EXTENDS BfwsInvariants, TLC

MCFluents == {"p", "q", "r", "s", "t"}
MCActions == {"a", "b", "c", "d", "e"}

MCPre == "a" :> {"s"} @@ "b" :> {"r"} @@ "c" :> {"r"} @@ "d" :> {"t"} @@ "e" :> {"q"}
MCAdd == "a" :> <<"r">> @@ "b" :> <<"p">> @@ "c" :> <<"t", "q">> @@ "d" :> <<"q">> @@ "e" :> <<"t">>
MCDel == "a" :> {"t", "p"} @@ "b" :> {"q"} @@ "c" :> {} @@ "d" :> {"r"} @@ "e" :> {"s"}
MCCondEffects ==
  [a \in MCActions |->
     IF a = "b" THEN <<[pre |-> {"s"}, del |-> {"r"}, add |-> <<"t">>]>> ELSE <<>>]
MCActionCost == [a \in MCActions |-> 1]
MCInit0 == <<"s">>
MCGoal == <<"p", "q", "r">>

ASSUME EffectsDoNotInterfere
=============================================================================
