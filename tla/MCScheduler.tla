----------------------------- MODULE MCScheduler -----------------------------
(***************************************************************************)
(* Instances of the schedulers for TLC.                                    *)
(***************************************************************************)
EXTENDS SchedulerProps

CONSTANTS f1, f2, b1

\* No local root lies in another: only the slot makes the folders wait.
AllDistinct == {<<f, f>> : f \in Folders}

=============================================================================
