-------------------------- MODULE MCCronJobSuspend --------------------------
EXTENDS CronJobSuspend

CONSTANTS nightly, report

Policy(k, n, f, ts, bs) ==
  [kind |-> k, name |-> n, freeze |-> f, targets |-> ts, blocks |-> bs]

(* A freeze that denies roll-outs, so that its own suspensions are refused,*)
(* and two maintenance policies that take over where it ends, one of them  *)
(* of its name.                                                            *)
Handover == {Policy("ChangeFreeze", "a", {1}, {nightly}, {nightly}),
             Policy("MaintenanceWindow", "a", {2}, {nightly}, {}),
             Policy("MaintenanceWindow", "b", {2}, {nightly, report}, {})}
Lone == {Policy("ChangeFreeze", "a", {1}, {nightly}, {})}
=============================================================================
