---------------------------- MODULE MCAdmission ----------------------------
(* A namespace, a Deployment, and a few policies for Admission.tla.        *)
EXTENDS Admission

CONSTANTS app, prod, dev, ops, ctl, operators, oncall, u1

Every    == [valid |-> TRUE, required |-> {}, excluded |-> {}]
Only(l) == [Every EXCEPT !.required = {l}]
AllOf(ks) == [kinds |-> ks, nsSel |-> Every, objSel |-> Every]
ProdApps  == [kinds |-> {"Deployment"}, nsSel |-> Only(prod), objSel |-> Only(app)]

MCName == 1..2
MCTime == 1..6
MCLabel == {app, prod}
MCUser == {dev, ops, ctl}
MCGroup == {operators, oncall}
MCNamespaceLabels == {{}, {prod}}

CF(n, t, d, s, e) == [name |-> n, target |-> t, deny |-> d, start |-> s, end |-> e]
MW(n, t, d, ss, l) ==
  [name |-> n, target |-> t, deny |-> d, mode |-> "DenyOutsideWindows",
   windows |-> {[valid |-> TRUE, starts |-> ss, duration |-> l]}]
FE(n, t, a, s, e, us) ==
  [name |-> n, target |-> t, allow |-> a, start |-> s, end |-> e,
   requireLabels |-> {}, users |-> us, groups |-> {}]

Prod == [phase |-> "Active", labels |-> {prod}]
Stock(cfs, mws, fes, n) == [cf |-> cfs, mw |-> mws, fe |-> fes, ns |-> n]

DayFreeze == CF(1, ProdApps, Action, 2, 3)
ScaleFreeze == CF(2, AllOf(Kind), {"SCALE"}, 1, 3)
EmptyFreeze == CF(2, AllOf(Kind), {"SCALE"}, 3, 3)
Window == MW(1, AllOf({"Deployment"}), {"ROLL_OUT", "DELETE"}, {3, 5}, 1)
NoOpening == [Window EXCEPT !.windows = {}]
Exception == FE(1, AllOf(Kind), {"ROLL_OUT", "CREATE"}, 2, 4, {dev})
NoAction == [Exception EXCEPT !.allow = {}]

SafetyFreezes == {DayFreeze, ScaleFreeze, EmptyFreeze}
SafetyWindows == {Window, NoOpening}
SafetyExceptions == {Exception, NoAction}
SafetyInitial == {Stock({}, {}, {}, Prod), Stock({DayFreeze}, {}, {Exception}, Prod)}
FaultInitial == {Stock({DayFreeze}, {Window}, {Exception}, Prod),
                 Stock({DayFreeze}, {}, {}, NoNamespace)}

Req(op, sc, k, t, r, ls, u, gs) ==
  [op |-> op, scale |-> sc, kind |-> k, template |-> t, replicas |-> r,
   labels |-> ls, user |-> u, groups |-> gs]
Create == Req("CREATE", FALSE, "Deployment", FALSE, FALSE, {app}, dev, {})
Rollout == Req("UPDATE", FALSE, "Deployment", TRUE, TRUE, {app}, dev, {oncall})
Resize == Req("UPDATE", FALSE, "Deployment", FALSE, TRUE, {app}, ops, {})
Scale == Req("UPDATE", TRUE, "Deployment", FALSE, TRUE, {}, ops, {})
Delete == Req("DELETE", FALSE, "Deployment", FALSE, FALSE, {}, ops, {})
Operator == Req("UPDATE", FALSE, "Deployment", TRUE, FALSE, {}, ctl, {operators})
Foreign == Req("CREATE", FALSE, "Other", FALSE, FALSE, {}, dev, {})

SafetyRequests == {Create, Rollout, Delete}
FaultRequests == {Create, Rollout, Resize, Scale, Operator, Foreign}
=============================================================================
