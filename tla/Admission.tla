----------------------------- MODULE Admission -----------------------------
(***************************************************************************)
(* The workload admission webhook (internal/webhook/workloads) between the *)
(* API server and its users: a handler that reads the policies from        *)
(* informer caches, in several steps, while time passes, policies are      *)
(* written and other requests run.                                         *)
(*                                                                         *)
(* hist[k] is every version the API server has stored of resource k,       *)
(* oldest first; seen[k] is the version the manager's cache of k holds.    *)
(* Each kind has an informer of its own, so the caches advance one by one. *)
(* One namespace and one workload stand for the cluster: the handler never *)
(* looks at another.                                                       *)
(***************************************************************************)
EXTENDS Requests, Sequences

CONSTANTS
  Users,           \* request slots of users, CI systems and GitOps agents
  NsController,    \* the slot of the namespace controller
  RequestPool,     \* the requests users make
  ChangeFreezePool, MaintenanceWindowPool, FreezeExceptionPool,
  NamespaceLabels, \* the label sets the namespace is given
  Initial,         \* what is stored, and cached, when the model starts
  MaxTime, MaxWrites, MaxFaults

Slots == Users \cup {NsController}
PolicyResource == {"cf", "mw", "fe"}
Resource == PolicyResource \cup {"ns"}

ASSUME SlotAssumption == NsController \notin Users
ASSUME BoundAssumption ==
  /\ MaxTime \in Nat \ {0} /\ MaxWrites \in Nat /\ MaxFaults \in Nat
  /\ 1..MaxTime \subseteq Time

ASSUME PoolAssumption ==
  /\ ChangeFreezePool \subseteq ChangeFreeze
  /\ MaintenanceWindowPool \subseteq MaintenanceWindow
  /\ FreezeExceptionPool \subseteq FreezeException
  /\ NamespaceLabels \subseteq SUBSET Label
  /\ \A mw \in MaintenanceWindowPool : \A w \in mw.windows : Endless(w.starts, MaxTime)
(* Only Deployments and StatefulSets have replicas to change.              *)
ASSUME RequestAssumption ==
  /\ RequestPool \subseteq Request /\ ControllerUser \in User
  /\ \A q \in RequestPool : q.replicas => q.kind \in {"Deployment", "StatefulSet"}
ASSUME InitialAssumption ==
  Initial \subseteq [cf : SUBSET ChangeFreeze, mw : SUBSET MaintenanceWindow,
                     fe : SUBSET FreezeException, ns : Namespace \cup {NoNamespace}]

VARIABLES
  hist, seen, now, workload,
  call,    \* per slot, the handler's local variables
  arrived, \* per slot, the clock, the caches and the store as the request came in (history)
  faults

vars == <<hist, seen, now, workload, call, arrived, faults>>

Stored(k) == hist[k][Len(hist[k])]
Cached(k) == hist[k][seen[k]]
Latest == [k \in Resource |-> Len(hist[k])]

NoCall == [pc |-> "idle", q |-> Drain, old |-> NoWorkload, kind |-> "Other",
           action |-> "None", objLabels |-> {}, nsLabels |-> {}, t |-> 0,
           denies |-> {}, resp |-> "none", dec |-> AllowAll]
Failed == [NoCall EXCEPT !.pc = "answered", !.resp = "error"]
Start == [k \in Resource |-> 1]
NoArrival == [now |-> 1, seen |-> Start, stored |-> Start]

Calls ==
  [pc : {"idle", "resolve", "namespace", "clock", "freezes", "windows",
         "exceptions", "answered"},
   q : Request, old : Workload \cup {NoWorkload},
   kind : Kind \cup {"Other"}, action : Action \cup {"None"},
   objLabels : SUBSET Label, nsLabels : SUBSET Label, t : Time \cup {0},
   denies : SUBSET DenyCandidate,
   resp : {"none", "bypass", "allow", "deny", "error"}, dec : Decision]

TypeOK ==
  /\ hist \in [cf : Seq(SUBSET ChangeFreeze), mw : Seq(SUBSET MaintenanceWindow),
               fe : Seq(SUBSET FreezeException), ns : Seq(Namespace \cup {NoNamespace})]
  /\ seen \in [Resource -> Nat]
  /\ \A k \in Resource : seen[k] \in 1..Len(hist[k])
  /\ now \in 1..MaxTime
  /\ workload \in Workload \cup {NoWorkload}
  /\ call \in [Slots -> Calls]
  /\ arrived \in [Slots -> [now : Nat, seen : [Resource -> Nat], stored : [Resource -> Nat]]]
  /\ faults \in 0..MaxFaults

Init ==
  /\ \E i \in Initial : hist = [k \in Resource |-> <<i[k]>>]
  /\ seen = Latest
  /\ now = 1
  /\ workload = NoWorkload
  /\ call = [r \in Slots |-> NoCall]
  /\ arrived = [r \in Slots |-> NoArrival]
  /\ faults = 0

-----------------------------------------------------------------------------
(* The environment: the clock, the authors of policies, the namespace *)

Tick ==
  /\ now < MaxTime
  /\ now' = now + 1
  /\ UNCHANGED <<hist, seen, workload, call, arrived, faults>>

Writes == Len(hist.cf) + Len(hist.mw) + Len(hist.fe) + Len(hist.ns) - 4

Write(k, version) ==
  /\ Writes < MaxWrites
  /\ version # Stored(k)
  /\ hist' = [hist EXCEPT ![k] = Append(@, version)]
  /\ UNCHANGED <<seen, now, workload, call, arrived, faults>>

Put(policies, p) == {q \in policies : q.name # p.name} \cup {p}

(* The validating webhooks of the CRDs guard every create and update.      *)
ValidChangeFreeze(cf) == cf.start < cf.end
ValidMaintenanceWindow(mw) == mw.windows # {} /\ \A w \in mw.windows : WindowOk(w)
ValidFreezeException(fe) == fe.start < fe.end /\ fe.allow # {}

PutChangeFreeze(cf) == ValidChangeFreeze(cf) /\ Write("cf", Put(Stored("cf"), cf))
PutMaintenanceWindow(mw) ==
  ValidMaintenanceWindow(mw) /\ Write("mw", Put(Stored("mw"), mw))
PutFreezeException(fe) ==
  ValidFreezeException(fe) /\ Write("fe", Put(Stored("fe"), fe))
DeletePolicy(k, p) == Write(k, Stored(k) \ {p})

CreateNamespace(ls) ==
  Stored("ns") = NoNamespace /\ Write("ns", [phase |-> "Active", labels |-> ls])
RelabelNamespace(ls) ==
  Stored("ns").phase = "Active" /\ Write("ns", [phase |-> "Active", labels |-> ls])
TerminateNamespace ==
  /\ Stored("ns").phase = "Active"
  /\ Write("ns", [Stored("ns") EXCEPT !.phase = "Terminating"])
RemoveNamespace ==
  /\ Stored("ns").phase = "Terminating"
  /\ workload = NoWorkload
  /\ Write("ns", NoNamespace)

SyncMutant(k) ==  \* an event is counted that was never sent
  /\ seen' = [seen EXCEPT ![k] = @ + 1]
  /\ seen[k] <= Len(hist[k])
  /\ UNCHANGED <<hist, now, workload, call, arrived, faults>>

(* The informer of k takes in the next watch event.                        *)
Sync(k) ==
  /\ seen[k] < Len(hist[k])
  /\ seen' = [seen EXCEPT ![k] = @ + 1]
  /\ UNCHANGED <<hist, now, workload, call, arrived, faults>>

-----------------------------------------------------------------------------
(* The API server's side of a request *)

(* What the API server lets through to admission: the namespace exists and,*)
(* for a create, is not terminating; the object exists, or not, as the     *)
(* operation requires; the rules of workloads_webhook.yaml match only      *)
(* updates of the scale subresource.                                       *)
Reaches(q) ==
  /\ Stored("ns") # NoNamespace
  /\ IF q.op = "CREATE"
     THEN workload = NoWorkload /\ Stored("ns").phase = "Active"
     ELSE workload # NoWorkload /\ q.kind \in {workload.kind, "Other"}
  /\ q.scale => q.op = "UPDATE" /\ q.kind \in {"Deployment", "StatefulSet"}

Receive(r, q) ==
  /\ call[r].pc = "idle"
  /\ Reaches(q)
  /\ call' = [call EXCEPT ![r] = [NoCall EXCEPT !.pc = "resolve", !.q = q, !.old = workload]]
  /\ arrived' = [arrived EXCEPT ![r] = [now |-> now, seen |-> seen, stored |-> Latest]]
  /\ UNCHANGED <<hist, seen, now, workload, faults>>

UserRequest(r) == \E q \in RequestPool : Receive(r, q)

(* The namespace controller empties a terminating namespace, again and     *)
(* again until nothing is left.                                            *)
DrainRequest ==
  /\ Stored("ns").phase = "Terminating"
  /\ workload # NoWorkload
  /\ Receive(NsController, [Drain EXCEPT !.kind = workload.kind])

(* The response comes back: an allowed change is stored unless the object  *)
(* changed meanwhile (a conflict; a delete carries no precondition).       *)
Complete(r) ==
  LET c == call[r]
      commits == /\ c.resp \in {"bypass", "allow"}
                 /\ c.q.kind \in Kind
                 /\ workload = c.old \/ (c.q.op = "DELETE" /\ workload # NoWorkload)
                 /\ c.q.op = "CREATE" => Stored("ns").phase = "Active"
  IN  /\ c.pc = "answered"
      /\ workload' = IF commits THEN Stores(c.q, c.old) ELSE workload
      /\ call' = [call EXCEPT ![r] = NoCall]
      /\ arrived' = [arrived EXCEPT ![r] = NoArrival]
      /\ UNCHANGED <<hist, seen, now, faults>>

-----------------------------------------------------------------------------
(* The handler: Validator.Handle and the evaluator it calls *)

Step(r, fields) ==
  /\ call' = [call EXCEPT ![r] = fields]
  /\ UNCHANGED <<hist, seen, now, workload, arrived, faults>>

Answer(r, resp) ==
  Step(r, [call[r] EXCEPT !.pc = "answered", !.resp = resp])

ClassifyMutant(q) ==  \* the replicas win over the template
  IF q.op # "UPDATE" THEN q.op
  ELSE IF q.kind \in {"Deployment", "StatefulSet"} /\ q.replicas
       THEN "SCALE" ELSE "ROLL_OUT"

(* diff.ClassifyUpdate: the template wins over the replicas; only          *)
(* Deployments and StatefulSets have replicas; all the rest is a roll-out. *)
Classify(q) ==
  IF q.op # "UPDATE" THEN q.op
  ELSE IF q.kind \in {"Deployment", "StatefulSet"} /\ q.replicas /\ ~q.template
       THEN "SCALE" ELSE "ROLL_OUT"

(* Only with OperatorNamespace or POD_NAMESPACE, which the shipped         *)
(* manifests do not set; without, OperatorGroup is in no request's groups. *)
BypassOperator(r) ==
  /\ call[r].pc = "resolve"
  /\ OperatorGroup \in call[r].q.groups
  /\ Answer(r, "bypass")

IgnoreKind(r) ==
  /\ call[r].pc = "resolve"
  /\ OperatorGroup \notin call[r].q.groups
  /\ call[r].q.kind \notin Kind
  /\ Answer(r, "bypass")

(* The labels of a scale request are those of the workload, read live.     *)
ResolveScale(r) ==
  LET c == call[r]
  IN  /\ c.pc = "resolve"
      /\ OperatorGroup \notin c.q.groups
      /\ c.q.scale
      /\ IF workload.kind = c.q.kind
         THEN Step(r, [c EXCEPT !.pc = "namespace", !.kind = c.q.kind,
                                !.action = "SCALE", !.objLabels = workload.labels])
         ELSE Step(r, Failed)

ResolveObject(r) ==
  LET c == call[r]
  IN  /\ c.pc = "resolve"
      /\ OperatorGroup \notin c.q.groups
      /\ ~c.q.scale /\ c.q.kind \in Kind
      /\ Step(r, [c EXCEPT !.pc = "namespace", !.kind = c.q.kind,
                           !.action = Classify(c.q),
                           !.objLabels = IF c.q.op = "DELETE" THEN c.old.labels
                                                              ELSE c.q.labels])

ReadNamespaceMutant(r) ==  \* no bypass for a terminating namespace
  LET c == call[r]
  IN  /\ c.pc = "namespace"
      /\ IF Cached("ns").phase = "Absent" THEN Step(r, Failed)
         ELSE Step(r, [c EXCEPT !.pc = "clock", !.nsLabels = Cached("ns").labels])

ReadNamespaceNilMutant(r) ==  \* no labels are taken for no namespace
  LET c == call[r]
  IN  /\ c.pc = "namespace"
      /\ CASE Cached("ns").labels = {}           -> Step(r, Failed)
           [] Cached("ns").phase = "Terminating" -> Answer(r, "bypass")
           [] OTHER -> Step(r, [c EXCEPT !.pc = "clock",
                                         !.nsLabels = Cached("ns").labels])

(* The evaluator reads the namespace again when the map of its labels is   *)
(* nil; a namespace the API server created has a label, and is read once.  *)
ReadNamespace(r) ==
  LET c == call[r]
  IN  /\ c.pc = "namespace"
      /\ CASE Cached("ns").phase = "Absent"      -> Step(r, Failed)
           [] Cached("ns").phase = "Terminating" -> Answer(r, "bypass")
           [] OTHER -> Step(r, [c EXCEPT !.pc = "clock",
                                         !.nsLabels = Cached("ns").labels])

ReadClockMutant(r) ==  \* the clock is read once, when the server starts
  /\ call[r].pc = "clock"
  /\ Step(r, [call[r] EXCEPT !.pc = "freezes", !.t = 1])

ReadClock(r) ==
  /\ call[r].pc = "clock"
  /\ Step(r, [call[r] EXCEPT !.pc = "freezes", !.t = now])

In(c) == [now |-> c.t, nsLabels |-> c.nsLabels, kind |-> c.kind,
          action |-> c.action, objLabels |-> c.objLabels,
          user |-> c.q.user, groups |-> c.q.groups]

ListChangeFreezes(r) ==
  LET c == call[r]
  IN  /\ c.pc = "freezes"
      /\ Step(r, [c EXCEPT !.pc = "windows",
                           !.denies = CollectChangeFreezes(In(c), Cached("cf"))])

ListMaintenanceWindowsMutant(r) ==  \* the windows replace the freezes found before
  LET c == call[r]
      denies == CollectMaintenanceWindows(In(c), Cached("mw"))
  IN  /\ c.pc = "windows"
      /\ IF denies = {} THEN Answer(r, "allow")
         ELSE Step(r, [c EXCEPT !.pc = "exceptions", !.denies = denies])

ListMaintenanceWindows(r) ==
  LET c == call[r]
      denies == c.denies \cup CollectMaintenanceWindows(In(c), Cached("mw"))
  IN  /\ c.pc = "windows"
      /\ IF denies = {} THEN Answer(r, "allow")
         ELSE Step(r, [c EXCEPT !.pc = "exceptions", !.denies = denies])

Conclude(c, override) ==
  LET d == Decide(c.denies, override)
  IN  [c EXCEPT !.pc = "answered", !.dec = d,
                !.resp = IF d.allowed THEN "allow" ELSE "deny"]

CheckExceptionsMutant(r) ==  \* an exception lifts the chosen candidate only
  /\ call[r].pc = "exceptions"
  /\ \E o \in Overrides(In(call[r]), Cached("fe")) :
       Step(r, Conclude(call[r], IF Cardinality(call[r].denies) > 1 THEN NoRef ELSE o))

CheckExceptions(r) ==
  /\ call[r].pc = "exceptions"
  /\ \E o \in Overrides(In(call[r]), Cached("fe")) : Step(r, Conclude(call[r], o))

-----------------------------------------------------------------------------
(* Faults *)

Fault == faults < MaxFaults /\ faults' = faults + 1

Running(r) == call[r].pc \notin {"idle", "answered"}

ExceptionsUnreadableMutant(r) ==  \* an unreadable list lets the change through
  /\ Fault
  /\ call[r].pc = "exceptions"
  /\ call' = [call EXCEPT ![r].pc = "answered", ![r].resp = "allow"]
  /\ UNCHANGED <<hist, seen, now, workload, arrived>>

(* A list of exceptions that fails is taken for no exception.              *)
ExceptionsUnreadable(r) ==
  /\ Fault
  /\ call[r].pc = "exceptions"
  /\ call' = [call EXCEPT ![r] = Conclude(call[r], NoRef)]
  /\ UNCHANGED <<hist, seen, now, workload, arrived>>

(* Any other read that fails, a request that does not decode, a webhook    *)
(* that does not answer in time: the API server refuses the change         *)
(* (failurePolicy: Fail).                                                  *)
Fail(r) ==
  /\ Fault
  /\ Running(r)
  /\ call' = [call EXCEPT ![r] = Failed]
  /\ UNCHANGED <<hist, seen, now, workload, arrived>>

(* The manager restarts: requests in flight fail, the caches list afresh.  *)
Restart ==
  /\ Fault
  /\ call' = [r \in Slots |-> IF Running(r)
                              THEN Failed
                              ELSE call[r]]
  /\ seen' = Latest
  /\ UNCHANGED <<hist, now, workload, arrived>>

-----------------------------------------------------------------------------
Handle(r) ==
  \/ BypassOperator(r) \/ IgnoreKind(r) \/ ResolveScale(r) \/ ResolveObject(r)
  \/ ReadNamespace(r) \/ ReadClock(r)
  \/ ListChangeFreezes(r) \/ ListMaintenanceWindows(r) \/ CheckExceptions(r)

PolicyWrite ==
  \/ \E cf \in ChangeFreezePool : PutChangeFreeze(cf)
  \/ \E mw \in MaintenanceWindowPool : PutMaintenanceWindow(mw)
  \/ \E fe \in FreezeExceptionPool : PutFreezeException(fe)
  \/ \E k \in PolicyResource : \E p \in Stored(k) : DeletePolicy(k, p)

NamespaceWrite ==
  \/ \E ls \in NamespaceLabels : CreateNamespace(ls) \/ RelabelNamespace(ls)
  \/ TerminateNamespace \/ RemoveNamespace

Next ==
  \/ Tick \/ PolicyWrite \/ NamespaceWrite
  \/ \E k \in Resource : Sync(k)
  \/ \E r \in Users : UserRequest(r)
  \/ DrainRequest
  \/ \E r \in Slots : Handle(r) \/ Complete(r) \/ ExceptionsUnreadable(r) \/ Fail(r)
  \/ Restart

Spec == Init /\ [][Next]_vars

(* The informers keep watching, the handler keeps running, the API server  *)
(* delivers responses and the namespace controller keeps retrying.  Users, *)
(* authors, faults and the clock owe nothing.                              *)
Fairness ==
  /\ \A k \in Resource : WF_vars(Sync(k))
  /\ \A r \in Slots : WF_vars(Handle(r)) /\ WF_vars(Complete(r))
  /\ WF_vars(DrainRequest)

FairSpec == Spec /\ Fairness

-----------------------------------------------------------------------------
(* Properties.  A request is judged against what was there while it ran:   *)
(* the versions its caches held or took in between Receive and now.        *)

Span(r, k)  == arrived[r].seen[k] .. Len(hist[k])
Instants(r) == arrived[r].now .. now
InAt(r, t, j, a) == [In(call[r]) EXCEPT !.now = t, !.action = a,
                                        !.nsLabels = hist.ns[j].labels]
Answered(r, resps) == call[r].pc = "answered" /\ call[r].resp \in resps

Everyday(r) ==  \* a policed kind, not the operator, the namespace never terminating
  /\ call[r].q.kind \in Kind /\ OperatorGroup \notin call[r].q.groups
  /\ \A j \in Span(r, "ns") : hist.ns[j].phase = "Active"

SteadilyDenied(r, a) ==
  \/ \E cf \in hist.cf[arrived[r].seen.cf] :
       /\ \A i \in Span(r, "cf") : cf \in hist.cf[i]
       /\ \A t \in Instants(r), j \in Span(r, "ns") : FreezeDenies(cf, InAt(r, t, j, a))
  \/ \E mw \in hist.mw[arrived[r].seen.mw] :
       /\ \A i \in Span(r, "mw") : mw \in hist.mw[i]
       /\ \A t \in Instants(r), j \in Span(r, "ns") : WindowDenies(mw, InAt(r, t, j, a))

EverAdmitted(r, a) ==
  \E i \in Span(r, "fe") : \E ex \in hist.fe[i] :
    \E t \in Instants(r), j \in Span(r, "ns") : Admits(ex, InAt(r, t, j, a))

(* A policy the cache held when the request came in, that was not touched  *)
(* and denied the change all the while it was being handled, stops it,     *)
(* whatever other policies, exceptions for other changes, namespace labels *)
(* and clock ticks arrive between the handler's reads.                     *)
FreezeEnforced ==
  \A r \in Slots : Answered(r, {"allow", "bypass"}) /\ Everyday(r) =>
    \A a \in Action : Performs(call[r].q, a) =>
      ~SteadilyDenied(r, a) \/ EverAdmitted(r, a)

(* A denial names a policy that did deny the change at some instant of the *)
(* request, in a version that was at most as old as the cache then was:    *)
(* no denial is put together from reads that never belonged to a policy.   *)
DenialJustified ==
  \A r \in Slots : Answered(r, {"deny"}) =>
    LET c == call[r]
        Justifies(p) ==
          \E t \in Instants(r), j \in Span(r, "ns") :
            LET in == InAt(r, t, j, c.action)
            IN  \/ /\ c.dec.policy = [kind |-> "ChangeFreeze", name |-> p.name]
                   /\ \E i \in Span(r, "cf") : p \in hist.cf[i] /\ FreezeDenies(p, in)
                \/ /\ c.dec.policy = [kind |-> "MaintenanceWindow", name |-> p.name]
                   /\ \E i \in Span(r, "mw") : p \in hist.mw[i] /\ WindowDenies(p, in)
    IN  \E ps \in Range(hist.cf) \cup Range(hist.mw) : \E p \in ps : Justifies(p)

(* An exception the cache held when the request came in, that stays and    *)
(* admits the change all the while, is honoured although the policies and  *)
(* the exceptions are listed at different instants; only a failing read    *)
(* can deny it.                                                            *)
ExceptionHonoured ==
  \A r \in Slots : Answered(r, {"deny"}) /\ faults = 0 =>
    ~ \E ex \in hist.fe[arrived[r].seen.fe] :
        /\ \A i \in Span(r, "fe") : ex \in hist.fe[i]
        /\ \A t \in Instants(r), j \in Span(r, "ns") :
             Admits(ex, InAt(r, t, j, call[r].action))

(* validator.go:144: "Never block operations inside a terminating          *)
(* namespace": whatever freeze is in force, a namespace being deleted is   *)
(* emptied in the end, although the handler learns of the deletion late.   *)
NamespaceDrains == (Stored("ns").phase = "Terminating") ~> (workload = NoWorkload)

(* validator.go:140-143: a namespace the cache does not hold yet is an     *)
(* error, and the first requests in a new namespace fail.  They do not go  *)
(* on failing: as long as the namespace is there and active, the handler   *)
(* comes to know it for good, and no request fails at reading it any more. *)
NewNamespaceServed ==
  <>[](Stored("ns").phase = "Active") =>
    <>[][\A r \in Slots : call[r].pc = "namespace" => call'[r].resp # "error"]_vars

(* The promise of FreezeGate.  A request counts as open until the response *)
(* is ready; an error says nothing of the request any more.                *)
RequestOf(r) ==
  LET c == call[r]  resp == IF c.pc = "answered" THEN c.resp ELSE "open"
  IN  CASE c.pc = "idle"    -> [verdict |-> "none"]
        [] resp = "error"   -> [verdict |-> "error"]
        [] OTHER -> [verdict |-> resp, q |-> c.q, old |-> c.old,
                     since |-> [now |-> arrived[r].now, known |-> arrived[r].seen]]

Gate == INSTANCE FreezeGate
          WITH known <- seen, request <- [r \in Slots |-> RequestOf(r)]

(* The handler, reading namespace, clock, freezes, windows and exceptions  *)
(* one after the other from caches that move on their own, implements the  *)
(* gate that decides at once.                                              *)
ImplementsGate == Gate!GateSpec

(* docs/architecture.md:302: "Webhook uses APIReader for live reads        *)
(* (bypasses cache)".  Then a freeze that the API server held before the   *)
(* request came in, and until it was answered, stops it.                   *)
LiveReads ==
  \A r \in Slots : Answered(r, {"allow"}) /\ Everyday(r) =>
    \A a \in Action : Performs(call[r].q, a) =>
      ~ \E cf \in hist.cf[arrived[r].stored.cf] :
          /\ \A i \in arrived[r].stored.cf .. Len(hist.cf) : cf \in hist.cf[i]
          /\ \A t \in Instants(r), j \in Span(r, "ns") :
               FreezeDenies(cf, InAt(r, t, j, a))
          /\ hist.fe = <<{}>>
=============================================================================
