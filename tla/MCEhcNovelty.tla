--------------------------- MODULE MCEhcNovelty ---------------------------
(***************************************************************************)
(* ehc_cn on the small tasks of EhcTasks, its options given by the .cfg.   *)
(***************************************************************************)
EXTENDS EhcInvariants, EhcTasks
=============================================================================
