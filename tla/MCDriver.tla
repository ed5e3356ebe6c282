------------------------------ MODULE MCDriver ------------------------------
(***************************************************************************)
(* Two sessions in one directory, each with any of the command lines.      *)
(***************************************************************************)
EXTENDS DriverProperties

CommandLine ==
  [dual |-> FALSE, portfolio |-> "none", plan_file |-> "sas_plan", validate |-> FALSE,
   several |-> FALSE, final |-> "none", type |-> "unit cost", configs |-> <<1>>, costSwitch |-> {}]

\* The runscript of the repository's Singularity file passes --dual and --plan-file.
Dual == [CommandLine EXCEPT !.dual = TRUE, !.validate = TRUE]
DualElsewhere == [Dual EXCEPT !.plan_file = "plan", !.validate = FALSE]
Anytime == [CommandLine EXCEPT !.several = TRUE, !.validate = TRUE]
Fdss == [CommandLine EXCEPT !.portfolio = "satisficing", !.type = "general cost",
                            !.configs = <<1, 2>>, !.costSwitch = {2}, !.final = "config"]
FdssBuilder == [Fdss EXCEPT !.final = "builder", !.several = TRUE, !.costSwitch = {1}]
Plain == [Fdss EXCEPT !.final = "none", !.costSwitch = {}, !.several = TRUE]
Optimal == [Fdss EXCEPT !.portfolio = "optimal", !.final = "none", !.costSwitch = {}]

AllCommands == {Dual, DualElsewhere, Anytime, Fdss, FdssBuilder, Plain, Optimal}
BothPrefixes == {"sas_plan", "plan"}
=============================================================================
