----------------------------- MODULE FreezeGate -----------------------------
(***************************************************************************)
(* What the workload webhook promises, without its steps: each request is  *)
(* decided at once, by the policy evaluator, on versions of the policies   *)
(* and of the namespace that the manager knew at some moment between the   *)
(* arrival of the request and its decision, one moment for each kind, and  *)
(* at one instant of the clock in between; and only what was let through   *)
(* is done.                                                                *)
(***************************************************************************)
EXTENDS Requests, Sequences

CONSTANT Slots

VARIABLES
  hist,     \* per kind, the versions the API server has stored
  known,    \* per kind, how many of them the manager has heard of
  now, workload,
  request,  \* per slot
  faults

gateVars == <<hist, known, now, workload, request, faults>>

Kinds == {"cf", "mw", "fe", "ns"}
NoRequest == [verdict |-> "none"]
Refusal == [verdict |-> "error"]
Open(q, old) ==
  [verdict |-> "open", q |-> q, old |-> old, since |-> [now |-> now, known |-> known]]

GateInit ==
  /\ \A k \in Kinds : known[k] = Len(hist[k])
  /\ now = 1 /\ workload = NoWorkload
  /\ request = [r \in Slots |-> NoRequest]
  /\ faults = 0

(* The clock, the authors of policies and the watches of the manager.      *)
World ==
  /\ now' \in {now, now + 1}
  /\ \A k \in Kinds : SubSeq(hist'[k], 1, Len(hist[k])) = hist[k]
  /\ \A k \in Kinds : known[k] <= known'[k] /\ known'[k] <= Len(hist'[k])
  /\ UNCHANGED <<workload, request, faults>>

Still == UNCHANGED <<hist, known, now>>

Arrive(r) ==
  /\ request[r] = NoRequest /\ request'[r].verdict = "open"
  /\ request'[r].q \in Request
  /\ request' = [request EXCEPT ![r] = Open(request'[r].q, workload)]
  /\ Still /\ UNCHANGED <<workload, faults>>

Rule(r, verdict) == request' = [request EXCEPT ![r].verdict = verdict]

Moments(r, k) == request[r].since.known[k] .. known[k]

(* The webhook has nothing to say of the operator's own requests, of other *)
(* kinds, and of a namespace that is going away.                           *)
Pass(r) ==
  /\ request[r].verdict = "open"
  /\ \/ OperatorGroup \in request[r].q.groups \/ request[r].q.kind \notin Kind
     \/ \E n \in Moments(r, "ns") : hist.ns[n].phase = "Terminating"
  /\ Rule(r, "bypass")
  /\ Still /\ UNCHANGED <<workload, faults>>

(* The action a request performs; an update of neither the template nor    *)
(* the replicas counts as a roll-out.                                      *)
ActionsOf(q) ==
  IF \E a \in Action : Performs(q, a) THEN {a \in Action : Performs(q, a)} ELSE {"ROLL_OUT"}

(* The labels the policies look at: a scale request carries none, those of *)
(* the workload are looked up.                                             *)
LabelsOf(q, old) ==
  IF q.scale THEN SUBSET Label
  ELSE IF q.op = "DELETE" THEN {old.labels} ELSE {q.labels}

(* Some of the exceptions may be out of reach, all of them at a time.      *)
Decided(r) ==
  /\ request[r].verdict = "open"
  /\ \E t \in request[r].since.now .. now,
        c \in Moments(r, "cf"), m \in Moments(r, "mw"), e \in Moments(r, "fe"),
        n \in Moments(r, "ns") :
       LET q == request[r].q
       IN  \E a \in ActionsOf(q), ls \in LabelsOf(q, request[r].old),
              readable \in BOOLEAN :
             LET in == [now |-> t, nsLabels |-> hist.ns[n].labels, kind |-> q.kind,
                        action |-> a, objLabels |-> ls, user |-> q.user,
                        groups |-> q.groups]
             IN  /\ q.kind \in Kind
                 /\ faults' = IF readable THEN faults ELSE faults + 1
                 /\ \E d \in Evaluate(in, hist.cf[c], hist.mw[m],
                                      IF readable THEN hist.fe[e] ELSE {}) :
                      Rule(r, IF d.allowed THEN "allow" ELSE "deny")
  /\ Still /\ UNCHANGED workload

(* A request may be refused for another reason than a policy.              *)
Refuse(r) ==
  /\ request[r].verdict = "open"
  /\ request' = [request EXCEPT ![r] = Refusal]
  /\ faults' \in {faults, faults + 1}
  /\ Still /\ UNCHANGED workload

(* The manager dies: what is open is refused, the next one knows all.      *)
Crash ==
  /\ request' = [r \in Slots |-> IF request[r].verdict = "open" THEN Refusal ELSE request[r]]
  /\ known' = [k \in Kinds |-> Len(hist[k])]
  /\ faults' = faults + 1
  /\ UNCHANGED <<hist, now, workload>>

Close(r) ==
  /\ request[r].verdict \in {"allow", "bypass", "deny", "error"}
  /\ \/ UNCHANGED workload
     \/ /\ request[r].verdict \in {"allow", "bypass"}
        /\ workload' = Stores(request[r].q, request[r].old)
  /\ request' = [request EXCEPT ![r] = NoRequest]
  /\ Still /\ UNCHANGED faults

GateNext ==
  \/ World \/ Crash
  \/ \E r \in Slots : Arrive(r) \/ Pass(r) \/ Decided(r) \/ Refuse(r) \/ Close(r)

GateSpec == GateInit /\ [][GateNext]_gateVars
=============================================================================
