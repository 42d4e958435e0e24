---------------------------- MODULE MCEvaluation ----------------------------
(* Small overlapping policies for Evaluation.tla.                          *)
EXTENDS Evaluation

CONSTANTS app, prod, dev, ops, oncall

Every    == [valid |-> TRUE, required |-> {}, excluded |-> {}]
Only(l) == [Every EXCEPT !.required = {l}]
Not(l)  == [Every EXCEPT !.excluded = {l}]
Broken == [Every EXCEPT !.valid = FALSE]
AllOf(ks) == [kinds |-> ks, nsSel |-> Every, objSel |-> Every]
ProdApps  == [kinds |-> {"Deployment"}, nsSel |-> Only(prod), objSel |-> Only(app)]
BrokenTarget == [AllOf(Kind) EXCEPT !.objSel = Broken]
NotApp == [AllOf(Kind) EXCEPT !.objSel = Not(app)]

MCName == 1..2
MCTime == 1..14
MCLabel == {app, prod}
MCUser == {dev, ops}
MCGroup == {oncall}

CF(n, t, d, s, e) == [name |-> n, target |-> t, deny |-> d, start |-> s, end |-> e]
MCChangeFreezePool ==
  {CF(1, AllOf(Kind), Action, 3, 6),
   CF(1, ProdApps, {"ROLL_OUT", "SCALE"}, 2, 9),
   CF(2, NotApp, {"ROLL_OUT"}, 5, 6),
   CF(2, AllOf({"Deployment"}), {"ROLL_OUT", "DELETE"}, 4, 9),
   CF(2, BrokenTarget, Action, 1, 12)}

Win(v, s, d) == [valid |-> v, starts |-> s, duration |-> d]
MW(n, t, d, ws) == [name |-> n, target |-> t, deny |-> d,
                    mode |-> "DenyOutsideWindows", windows |-> ws]
MCMaintenanceWindowPool ==
  {MW(1, AllOf(Kind), Action, {Win(TRUE, {2, 6, 10, 14}, 2)}),
   MW(1, ProdApps, {"ROLL_OUT"}, {Win(TRUE, {1, 4, 7, 9, 14}, 1), Win(TRUE, {9, 11, 13}, 2)}),
   MW(2, AllOf({"Deployment"}), {"ROLL_OUT"},
      {Win(FALSE, {1, 2, 3, 13}, 3), Win(TRUE, {3, 9, 14}, 3)}),
   MW(2, AllOf(Kind), {"SCALE"}, {Win(FALSE, {1, 13}, 3)}),
   MW(2, AllOf({"CronJob"}), {"DELETE"}, {Win(TRUE, {}, 3)}),
   MW(1, AllOf({"CronJob"}), {"DELETE"}, {Win(TRUE, {}, 3), Win(TRUE, {5, 8, 14}, 2)})}

FE(n, t, a, s, e, ls, us, gs) ==
  [name |-> n, target |-> t, allow |-> a, start |-> s, end |-> e,
   requireLabels |-> ls, users |-> us, groups |-> gs]
MCFreezeExceptionPool ==
  {FE(1, AllOf(Kind), {"ROLL_OUT"}, 4, 6, {}, {}, {}),
   FE(1, ProdApps, Action, 1, 5, {app}, {dev}, {}),
   FE(2, AllOf({"Deployment"}), Action, 5, 9, {}, {}, {oncall})}

Ask(ns, k, a, o, u, g) ==
  [now |-> 1, nsLabels |-> ns, kind |-> k, action |-> a, objLabels |-> o,
   user |-> u, groups |-> g]
MCRequestPool ==
  {Ask({prod}, "Deployment", "ROLL_OUT", {app}, dev, {}),
   Ask({prod}, "Deployment", "ROLL_OUT", {}, ops, {oncall}),
   Ask({prod}, "Deployment", "SCALE", {app}, ops, {}),
   Ask({}, "StatefulSet", "ROLL_OUT", {app}, dev, {}),
   Ask({}, "CronJob", "DELETE", {}, dev, {})}
=============================================================================
