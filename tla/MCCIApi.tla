------------------------------ MODULE MCCIApi ------------------------------
(* The cluster of MCAdmission with a pipeline, for CIApi.tla.              *)
EXTENDS CIApi

CONSTANTS prod, dev, nobody, operators, ctl, u1

Every    == [valid |-> TRUE, required |-> {}, excluded |-> {}]
Only(l) == [Every EXCEPT !.required = {l}]
Target_(ns) == [kinds |-> {"Deployment"}, nsSel |-> ns, objSel |-> Every]

MCName == 1..2
MCTime == 1..6
MCLabel == {prod}
MCUser == {dev, ctl}
MCGroup == {operators}

Prod == [phase |-> "Active", labels |-> {prod}]
Stock(cfs, mws, fes) == [cf |-> cfs, mw |-> mws, fe |-> fes, ns |-> Prod]

Freeze(n, s, e) == [name |-> n, target |-> Target_(Only(prod)), deny |-> Action,
                    start |-> s, end |-> e]
Early == Freeze(1, 1, 2)
Late == Freeze(2, 2, 6)
Window == [name |-> 1, target |-> Target_(Every), deny |-> {"ROLL_OUT", "CREATE"},
           mode |-> "DenyOutsideWindows",
           windows |-> {[valid |-> TRUE, starts |-> {2, 6}, duration |-> 1]}]
Exception(us) == [name |-> 1, target |-> Target_(Every), allow |-> {"CREATE"},
                  start |-> 1, end |-> 3, requireLabels |-> {}, users |-> us, groups |-> {}]

MCInitial == {Stock({Early}, {}, {}), Stock({Late}, {Window}, {Exception({})}),
              Stock({}, {Window}, {Exception({dev})})}
MCFreezes == {Early, Late}
MCWindows == {Window}
MCExceptions == {Exception({})}
MCNamespaceLabels == {{}}

Req(op, k, t, u) ==
  [op |-> op, scale |-> FALSE, kind |-> k, template |-> t, replicas |-> FALSE,
   labels |-> {}, user |-> u, groups |-> {}]
MCRequests == {Req("CREATE", "Deployment", FALSE, dev), Req("UPDATE", "Deployment", TRUE, dev),
               Req("CREATE", "Other", FALSE, dev)}
=============================================================================
