------------------------------ MODULE Requests ------------------------------
(***************************************************************************)
(* The requests that reach the workload webhook, and the namespace and the *)
(* workload they are about.                                                *)
(***************************************************************************)
EXTENDS Policy

CONSTANTS
  OperatorGroup,  \* the service accounts of the operator's own namespace; in no
                  \* request (not in Group) when the manager is not told its namespace
  ControllerUser  \* the namespace controller

NoNamespace == [phase |-> "Absent", labels |-> {}]
Namespace == [phase : {"Active", "Terminating"}, labels : SUBSET Label]
NoWorkload == [kind |-> "None", labels |-> {}]
Workload == [kind : Kind, labels : SUBSET Label]

(* A request: the operation, whether it goes to the scale subresource,     *)
(* what an update changes, the labels of the new object, and who asks.     *)
Request ==
  [op : {"CREATE", "UPDATE", "DELETE"}, scale : BOOLEAN, kind : Kind \cup {"Other"},
   template : BOOLEAN, replicas : BOOLEAN, labels : SUBSET Label,
   user : User, groups : SUBSET Group]

Drain == [op |-> "DELETE", scale |-> FALSE, kind |-> "Other", template |-> FALSE,
          replicas |-> FALSE, labels |-> {}, user |-> ControllerUser, groups |-> {}]

Stores(q, old) ==
  IF q.op = "DELETE" THEN NoWorkload
  ELSE IF q.scale THEN old
  ELSE [kind |-> q.kind, labels |-> q.labels]

(* What a change does to the workload, in the vocabulary of the policies.  *)
Performs(q, a) ==
  \/ q.op \in {"CREATE", "DELETE"} /\ a = q.op
  \/ q.op = "UPDATE" /\ ~q.scale /\ q.template /\ a = "ROLL_OUT"
  \/ q.op = "UPDATE" /\ (q.scale \/ (q.replicas /\ ~q.template)) /\ a = "SCALE"
=============================================================================
