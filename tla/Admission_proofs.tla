-------------------------- MODULE Admission_proofs --------------------------
(***************************************************************************)
(* What the admission webhook promises, for any policies, requests, number *)
(* of slots and length of the run: one inductive invariant that remembers  *)
(* where everything a handler has read came from, the safety properties as *)
(* its consequences, and the step-by-step refinement of FreezeGate.        *)
(***************************************************************************)
EXTENDS Admission, Policy_proofs

-----------------------------------------------------------------------------
(* The inductive invariant *)

(* The versions of k the cache has held since the request came in.         *)
Heard(r, k) == arrived[r].seen[k] .. seen[k]

ArrivalOK(r) ==
  /\ arrived[r].now \in 1..now
  /\ \A k \in Resource : arrived[r].seen[k] \in 1..seen[k]

(* What the API server sends: scale requests are updates of what has       *)
(* replicas, and so are updates of the replicas.                           *)
RequestOK(q) ==
  /\ q.scale => q.op = "UPDATE" /\ q.kind \in {"Deployment", "StatefulSet"}
  /\ q.replicas => q.kind \in {"Deployment", "StatefulSet"}

(* The handler has found out what the request does to which labels.        *)
Resolved(c) ==
  /\ OperatorGroup \notin c.q.groups /\ c.q.kind \in Kind
  /\ c.kind = c.q.kind
  /\ c.action \in Gate!ActionsOf(c.q)
  /\ c.objLabels \in Gate!LabelsOf(c.q, c.old)

(* Each read is of a version, or an instant, of the time of the request.   *)
NamespaceRead(r, c) == \E n \in Heard(r, "ns") : c.nsLabels = hist.ns[n].labels
ClockRead(r, c) == c.t \in Instants(r)
FreezesRead(r, c) ==
  \E i \in Heard(r, "cf") : c.denies = CollectChangeFreezes(In(c), hist.cf[i])
WindowsRead(r, c) ==
  /\ c.denies # {}
  /\ \E i \in Heard(r, "cf"), m \in Heard(r, "mw") :
       c.denies = CollectDenyCandidates(In(c), hist.cf[i], hist.mw[m])
Concluded(r, c, readable) ==
  /\ c.resp = IF c.dec.allowed THEN "allow" ELSE "deny"
  /\ \E i \in Heard(r, "cf"), m \in Heard(r, "mw"), e \in Heard(r, "fe") :
       c.dec \in Evaluate(In(c), hist.cf[i], hist.mw[m], IF readable THEN hist.fe[e] ELSE {})
Judged(r, c, flt) == \E readable \in BOOLEAN : (flt = 0 => readable) /\ Concluded(r, c, readable)
Passed(r, c) ==
  \/ OperatorGroup \in c.q.groups \/ c.q.kind \notin Kind
  \/ \E n \in Heard(r, "ns") : hist.ns[n].phase = "Terminating"

(* What is known of a handler at each place of its code, flt reads having  *)
(* failed so far.                                                          *)
Progress(r, c, flt) ==
  /\ RequestOK(c.q)
  /\ c.pc = "answered" <=> c.resp # "none"
  /\ c.pc # "answered" => c.dec = AllowAll
  /\ c.pc \in {"namespace", "clock", "freezes", "windows", "exceptions"} => Resolved(c)
  /\ c.pc \in {"clock", "freezes", "windows", "exceptions"} => NamespaceRead(r, c)
  /\ c.pc \in {"freezes", "windows", "exceptions"} => ClockRead(r, c)
  /\ c.pc = "windows" => FreezesRead(r, c)
  /\ c.pc = "exceptions" => WindowsRead(r, c)
  /\ c.resp = "bypass" => Passed(r, c)
  /\ c.resp \in {"allow", "deny"} =>
        Resolved(c) /\ NamespaceRead(r, c) /\ ClockRead(r, c) /\ Judged(r, c, flt)

SlotOK(r) == ArrivalOK(r) /\ Progress(r, call[r], faults)

IInv == TypeOK /\ \A r \in Slots : SlotOK(r)
-----------------------------------------------------------------------------
(* Types *)

(* What the API server stores of each kind.                                *)
VersionType == [k \in Resource |->
  CASE k = "cf" -> SUBSET ChangeFreeze
    [] k = "mw" -> SUBSET MaintenanceWindow
    [] k = "fe" -> SUBSET FreezeException
    [] k = "ns" -> Namespace \cup {NoNamespace}]

(* The histories hold what is stored of each kind.                         *)
LEMMA HistoryType ==
  ASSUME NEW h
  PROVE  h \in [cf : Seq(SUBSET ChangeFreeze), mw : Seq(SUBSET MaintenanceWindow),
                 fe : Seq(SUBSET FreezeException), ns : Seq(Namespace \cup {NoNamespace})]
         <=> /\ h = [k \in Resource |-> h[k]]
             /\ \A k \in Resource : h[k] \in Seq(VersionType[k])
<1>1. /\ VersionType["cf"] = SUBSET ChangeFreeze /\ VersionType["mw"] = SUBSET MaintenanceWindow
      /\ VersionType["fe"] = SUBSET FreezeException
      /\ VersionType["ns"] = Namespace \cup {NoNamespace}
  BY DEF VersionType, Resource, PolicyResource
<1>2. Resource = {"cf", "mw", "fe", "ns"}
  BY DEF Resource, PolicyResource
<1> QED
  BY <1>1, <1>2

(* Every version has its type, the cached ones among them.                 *)
LEMMA StoredVersions ==
  ASSUME TypeOK, NEW k \in Resource
  PROVE  /\ Len(hist[k]) \in Nat \ {0} /\ DOMAIN hist[k] = 1..Len(hist[k])
         /\ \A i \in 1..Len(hist[k]) : hist[k][i] \in VersionType[k]
         /\ seen[k] \in 1..Len(hist[k]) /\ seen[k] \in Nat
         /\ Cached(k) \in VersionType[k] /\ Stored(k) \in VersionType[k]
<1>1. hist[k] \in Seq(VersionType[k]) /\ seen[k] \in 1..Len(hist[k])
  BY HistoryType DEF TypeOK
<1>2. Len(hist[k]) \in Nat /\ DOMAIN hist[k] = 1..Len(hist[k])
      /\ \A i \in 1..Len(hist[k]) : hist[k][i] \in VersionType[k]
  BY <1>1
<1>3. Len(hist[k]) \in 1..Len(hist[k]) /\ seen[k] \in Nat
  BY <1>1, <1>2
<1> QED
  BY <1>1, <1>2, <1>3 DEF Cached, Stored

-----------------------------------------------------------------------------
(* What only ever grows *)

(* A step adds versions and moves the clock, the caches and the count of   *)
(* faults forward: what was heard before it is still so after it.          *)
Grown ==
  /\ now <= now' /\ faults <= faults'
  /\ \A k \in Resource :
       /\ seen[k] <= seen'[k] /\ Len(hist[k]) <= Len(hist'[k])
       /\ \A i \in 1..Len(hist[k]) : hist'[k][i] = hist[k][i]

(* A step that leaves histories, caches and clock alone.                   *)
LEMMA StillGrown ==
  ASSUME TypeOK, UNCHANGED <<hist, seen, now>>, faults' \in {faults, faults + 1}
  PROVE  Grown
<1>1. now \in Int /\ faults \in Int /\ \A k \in Resource : seen[k] \in Nat /\ Len(hist[k]) \in Nat
  BY StoredVersions DEF TypeOK
<1> QED
  BY <1>1 DEF Grown

(* A write adds one version.                                               *)
LEMMA WriteGrows ==
  ASSUME TypeOK, NEW k \in Resource, NEW version \in VersionType[k], Write(k, version)
  PROVE  TypeOK' /\ Grown
<1>1. /\ hist' = [hist EXCEPT ![k] = Append(hist[k], version)]
      /\ UNCHANGED <<seen, now, workload, call, arrived, faults>>
  BY DEF Write
<1>2. hist = [l \in Resource |-> hist[l]] /\ \A l \in Resource : hist[l] \in Seq(VersionType[l])
  BY HistoryType DEF TypeOK
<1>3. /\ hist' = [l \in Resource |-> hist'[l]]
      /\ \A l \in Resource : hist'[l] = IF l = k THEN Append(hist[k], version) ELSE hist[l]
  BY <1>1, <1>2
<1>4. \A l \in Resource : hist'[l] \in Seq(VersionType[l])
  <2>1. \A S : \A q \in Seq(S), e \in S : Append(q, e) \in Seq(S)
    OBVIOUS
  <2>2. Append(hist[k], version) \in Seq(VersionType[k])
    BY <1>2, <2>1
  <2> QED
    BY <1>2, <1>3, <2>2
<1>5. \A l \in Resource : /\ Len(hist[l]) \in Nat /\ Len(hist[l]) <= Len(hist'[l])
                          /\ \A i \in 1..Len(hist[l]) : hist'[l][i] = hist[l][i]
  BY <1>2, <1>3
<1>6. \A l \in Resource : seen'[l] \in 1..Len(hist'[l]) /\ seen[l] \in Nat
  <2>1. \A l \in Resource : seen'[l] = seen[l] /\ seen[l] \in 1..Len(hist[l]) /\ Len(hist'[l]) \in Nat
    BY <1>1, <1>4 DEF TypeOK
  <2> QED
    BY <1>5, <2>1
<1>7. TypeOK'
  <2>1. hist' \in [cf : Seq(SUBSET ChangeFreeze), mw : Seq(SUBSET MaintenanceWindow),
                   fe : Seq(SUBSET FreezeException), ns : Seq(Namespace \cup {NoNamespace})]
    BY <1>3, <1>4, HistoryType
  <2> QED
    BY <1>1, <1>6, <2>1 DEF TypeOK
<1>8. Grown
  <2>1. now \in Int /\ faults \in Int
    BY DEF TypeOK
  <2> QED
    BY <1>1, <1>5, <1>6, <2>1 DEF Grown
<1> QED
  BY <1>7, <1>8

(* Whoever writes, writes a version of the type.                           *)
LEMMA PolicyWrites ==
  ASSUME TypeOK, PolicyWrite
  PROVE  \E k \in Resource : \E version \in VersionType[k] : Write(k, version)
<1>1. /\ VersionType["cf"] = SUBSET ChangeFreeze /\ VersionType["mw"] = SUBSET MaintenanceWindow
      /\ VersionType["fe"] = SUBSET FreezeException
      /\ {"cf", "mw", "fe"} \subseteq Resource /\ PolicyResource = {"cf", "mw", "fe"}
  BY DEF VersionType, Resource, PolicyResource
<1>2. /\ Stored("cf") \subseteq ChangeFreeze /\ Stored("mw") \subseteq MaintenanceWindow
      /\ Stored("fe") \subseteq FreezeException
  BY <1>1, StoredVersions
<1>3. ASSUME NEW cf \in ChangeFreezePool, PutChangeFreeze(cf)
      PROVE  Put(Stored("cf"), cf) \in VersionType["cf"] /\ Write("cf", Put(Stored("cf"), cf))
  BY <1>1, <1>2, <1>3, PoolAssumption DEF PutChangeFreeze, Put
<1>4. ASSUME NEW mw \in MaintenanceWindowPool, PutMaintenanceWindow(mw)
      PROVE  Put(Stored("mw"), mw) \in VersionType["mw"] /\ Write("mw", Put(Stored("mw"), mw))
  BY <1>1, <1>2, <1>4, PoolAssumption DEF PutMaintenanceWindow, Put
<1>5. ASSUME NEW fe \in FreezeExceptionPool, PutFreezeException(fe)
      PROVE  Put(Stored("fe"), fe) \in VersionType["fe"] /\ Write("fe", Put(Stored("fe"), fe))
  BY <1>1, <1>2, <1>5, PoolAssumption DEF PutFreezeException, Put
<1>6. ASSUME NEW k \in PolicyResource, NEW p \in Stored(k), DeletePolicy(k, p)
      PROVE  Stored(k) \ {p} \in VersionType[k] /\ Write(k, Stored(k) \ {p})
  <2>1. Stored(k) \ {p} \subseteq Stored(k) /\ Write(k, Stored(k) \ {p})
    BY <1>6 DEF DeletePolicy
  <2> QED
    BY <1>1, <1>2, <2>1
<1> QED
  BY <1>1, <1>3, <1>4, <1>5, <1>6 DEF PolicyWrite

(* The writes to the namespace.                                            *)
LEMMA NamespaceWrites ==
  ASSUME TypeOK, NamespaceWrite
  PROVE  \E k \in Resource : \E version \in VersionType[k] : Write(k, version)
<1>1. VersionType["ns"] = Namespace \cup {NoNamespace} /\ "ns" \in Resource
  BY DEF VersionType, Resource, PolicyResource
<1>2. Stored("ns") \in Namespace \cup {NoNamespace}
  BY <1>1, StoredVersions
<1>3. \A ls \in NamespaceLabels : [phase |-> "Active", labels |-> ls] \in VersionType["ns"]
  BY <1>1, PoolAssumption DEF Namespace
<1>4. TerminateNamespace => [Stored("ns") EXCEPT !.phase = "Terminating"] \in VersionType["ns"]
  BY <1>1, <1>2 DEF TerminateNamespace, Namespace, NoNamespace
<1>5. NoNamespace \in VersionType["ns"]
  BY <1>1
<1> QED
  BY <1>1, <1>3, <1>4, <1>5
     DEF NamespaceWrite, CreateNamespace, RelabelNamespace, TerminateNamespace, RemoveNamespace

(* The environment never disturbs a handler.                               *)
Environment == Tick \/ PolicyWrite \/ NamespaceWrite \/ \E k \in Resource : Sync(k)

(* The steps of the environment: histories and caches only grow.           *)
LEMMA EnvironmentGrows ==
  ASSUME TypeOK, Environment
  PROVE  /\ TypeOK' /\ Grown /\ UNCHANGED <<workload, call, arrived, faults>>
         /\ now' \in {now, now + 1}
<1>1. CASE \E k \in Resource : \E version \in VersionType[k] : Write(k, version)
  BY <1>1, WriteGrows DEF Write
<1>2. CASE Tick
  <2>1. TypeOK'
    BY <1>2, BoundAssumption DEF Tick, TypeOK
  <2>2. /\ now \in Int /\ faults \in Int
        /\ \A k \in Resource : seen[k] \in Nat /\ Len(hist[k]) \in Nat
    BY StoredVersions DEF TypeOK
  <2> QED
    BY <1>2, <2>1, <2>2 DEF Tick, Grown
<1>3. CASE \E k \in Resource : Sync(k)
  <2>1. PICK k \in Resource : Sync(k)
    BY <1>3
  <2>2. /\ seen \in [Resource -> Nat] /\ seen' = [seen EXCEPT ![k] = seen[k] + 1]
        /\ seen[k] < Len(hist[k]) /\ UNCHANGED <<hist, now, workload, call, arrived, faults>>
    BY <2>1 DEF Sync, TypeOK
  <2>3. /\ now \in Int /\ faults \in Int
        /\ \A l \in Resource : seen[l] \in 1..Len(hist[l]) /\ seen[l] \in Nat /\ Len(hist[l]) \in Nat
    BY StoredVersions DEF TypeOK
  <2>4. /\ seen' \in [Resource -> Nat]
        /\ \A l \in Resource : seen[l] <= seen'[l] /\ seen'[l] \in 1..Len(hist[l])
    BY <2>2, <2>3
  <2>5. TypeOK'
    BY <2>2, <2>4 DEF TypeOK
  <2> QED
    BY <2>2, <2>3, <2>4, <2>5 DEF Grown
<1> QED
  BY <1>1, <1>2, <1>3, PolicyWrites, NamespaceWrites DEF Environment

-----------------------------------------------------------------------------
(* What a handler has read stays true of it *)

(* A step that is not of this slot leaves it its justification.            *)
LEMMA Kept ==
  ASSUME TypeOK, TypeOK', Grown, NEW r \in Slots, SlotOK(r),
         arrived'[r] = arrived[r], call'[r] = call[r]
  PROVE  SlotOK(r)'
<1>1. /\ now \in Nat /\ now' \in Nat /\ faults \in Nat /\ faults' \in Nat
      /\ \A k \in Resource : seen[k] \in Nat /\ seen'[k] \in Nat /\ seen[k] <= Len(hist[k])
                             /\ Len(hist[k]) \in Nat
  <2>1. \A k \in Resource : seen[k] \in 1..Len(hist[k]) /\ seen[k] \in Nat /\ Len(hist[k]) \in Nat
    BY StoredVersions
  <2> QED
    BY <2>1 DEF TypeOK
<1>2. ArrivalOK(r)'
  BY <1>1 DEF SlotOK, ArrivalOK, Grown
<1>3. Instants(r) \subseteq Instants(r)'
  BY <1>1 DEF SlotOK, ArrivalOK, Grown, Instants
<1>4. \A k \in Resource : \A i \in Heard(r, k) : i \in Heard(r, k)' /\ hist'[k][i] = hist[k][i]
  BY <1>1 DEF SlotOK, ArrivalOK, Grown, Heard
<1>5. Resource = {"cf", "mw", "fe", "ns"}
  BY DEF Resource, PolicyResource
<1> DEFINE c == call[r]
<1>6. Progress(r, c, faults)
  BY DEF SlotOK
<1>7. RequestOK(c.q)' <=> RequestOK(c.q)
  BY DEF RequestOK
<1>8. Resolved(c)' <=> Resolved(c)
  BY DEF Resolved
<1>9. NamespaceRead(r, c) => NamespaceRead(r, c)'
  BY <1>4, <1>5 DEF NamespaceRead
<1>10. ClockRead(r, c) => ClockRead(r, c)'
  BY <1>3 DEF ClockRead
<1>11. In(c)' = In(c)
  BY DEF In
<1>12. FreezesRead(r, c) => FreezesRead(r, c)'
  BY <1>4, <1>5, <1>11 DEF FreezesRead
<1>13. WindowsRead(r, c) => WindowsRead(r, c)'
  BY <1>4, <1>5, <1>11 DEF WindowsRead
<1>14. Passed(r, c) => Passed(r, c)'
  BY <1>4, <1>5 DEF Passed
<1>15. Judged(r, c, faults) => Judged(r, c, faults)'
  <2> SUFFICES ASSUME Judged(r, c, faults) PROVE Judged(r, c, faults)'
    OBVIOUS
  <2>1. PICK i \in Heard(r, "cf"), m \in Heard(r, "mw"), e \in Heard(r, "fe"), readable \in BOOLEAN :
          /\ faults = 0 => readable
          /\ c.resp = IF c.dec.allowed THEN "allow" ELSE "deny"
          /\ c.dec \in Evaluate(In(c), hist.cf[i], hist.mw[m], IF readable THEN hist.fe[e] ELSE {})
    BY DEF Judged, Concluded
  <2>2. /\ i \in Heard(r, "cf")' /\ m \in Heard(r, "mw")' /\ e \in Heard(r, "fe")'
        /\ hist'.cf[i] = hist.cf[i] /\ hist'.mw[m] = hist.mw[m] /\ hist'.fe[e] = hist.fe[e]
    BY <1>4, <1>5
  <2>3. faults' = 0 => readable
    BY <1>1, <2>1 DEF Grown
  <2> QED
    BY <1>11, <2>1, <2>2, <2>3 DEF Judged, Concluded
<1>16. Progress(r, c, faults)'
  BY <1>6, <1>7, <1>8, <1>9, <1>10, <1>12, <1>13, <1>14, <1>15 DEF Progress
<1> QED
  BY <1>2, <1>16 DEF SlotOK

(* A step of a handler alone, that ends where the invariant is known to    *)
(* hold, preserves it.                                                     *)
LEMMA OwnStep ==
  ASSUME IInv, NEW r \in Slots, NEW f \in Calls, call' = [call EXCEPT ![r] = f],
         faults' \in {faults, faults + 1}, faults' \in 0..MaxFaults,
         UNCHANGED <<hist, seen, now, workload, arrived>>, Progress(r, f, faults')
  PROVE  IInv' /\ Grown
<1>1. TypeOK /\ \A s \in Slots : SlotOK(s)
  BY DEF IInv
<1>2. call' \in [Slots -> Calls] /\ call'[r] = f /\ \A s \in Slots \ {r} : call'[s] = call[s]
  BY <1>1 DEF TypeOK
<1>3. TypeOK' /\ Grown
  BY <1>1, <1>2, StillGrown DEF TypeOK
<1>4. \A s \in Slots \ {r} : SlotOK(s)'
  BY <1>1, <1>2, <1>3, Kept
<1>5. SlotOK(r)'
  <2>1. ArrivalOK(r)'
    BY <1>1 DEF SlotOK, ArrivalOK
  <2> DEFINE c == call[r]
  <2>2. (c)' = f
    BY <1>2
  <2>3. /\ RequestOK(c.q)' <=> RequestOK(f.q)
        /\ Resolved(c)' <=> Resolved(f)
        /\ In(c)' = In(f)
    BY <2>2 DEF RequestOK, Resolved, In
  <2>4. /\ NamespaceRead(r, c)' <=> NamespaceRead(r, f)
        /\ ClockRead(r, c)' <=> ClockRead(r, f)
        /\ FreezesRead(r, c)' <=> FreezesRead(r, f)
        /\ WindowsRead(r, c)' <=> WindowsRead(r, f)
        /\ Passed(r, c)' <=> Passed(r, f)
        /\ Judged(r, c, faults)' <=> Judged(r, f, faults')
    BY <2>2, <2>3 DEF NamespaceRead, ClockRead, Instants, FreezesRead, WindowsRead, Passed,
                      Judged, Concluded, Heard
  <2>5. Progress(r, c, faults)'
    BY <2>2, <2>3, <2>4 DEF Progress
  <2> QED
    BY <2>1, <2>5 DEF SlotOK
<1> QED
  BY <1>3, <1>4, <1>5 DEF IInv

-----------------------------------------------------------------------------
(* FreezeGate speaks of requests and policies with the same operators *)

(* FreezeGate speaks of the same requests,                                 *)
LEMMA SameRequests ==
  /\ Gate!Kind = Kind /\ Gate!Action = Action /\ Gate!Request = Request
  /\ Gate!NoWorkload = NoWorkload
  /\ \A q, a : Gate!Performs(q, a) <=> Performs(q, a)
  /\ \A q, old : Gate!Stores(q, old) = Stores(q, old)
<1>1. Gate!Kind = Kind /\ Gate!Action = Action /\ Gate!NoWorkload = NoWorkload
  BY DEF Gate!Kind, Kind, Gate!Action, Action, Gate!NoWorkload, NoWorkload
<1>2. Gate!Request = Request
  BY <1>1 DEF Gate!Request, Request
<1>3. \A q, a : Gate!Performs(q, a) <=> Performs(q, a)
  BY DEF Gate!Performs, Performs
<1>4. \A q, old : Gate!Stores(q, old) = Stores(q, old)
  BY <1>1 DEF Gate!Stores, Stores
<1> QED
  BY <1>1, <1>2, <1>3, <1>4

(* and of the same evaluator.                                              *)
LEMMA SameEvaluator ==
  ASSUME NEW i, NEW F, NEW M, NEW E
  PROVE  Gate!Evaluate(i, F, M, E) = Evaluate(i, F, M, E)
<1>1. \A p, t : Gate!InForce(p, t) <=> InForce(p, t)
  BY DEF Gate!InForce, InForce
<1>2. \A p : Gate!Covers(p, i) <=> Covers(p, i)
  BY DEF Gate!Covers, Covers, Gate!TargetMatches, TargetMatches,
         Gate!MatchLabelSelector, MatchLabelSelector
<1>3. Gate!CollectChangeFreezes(i, F) = CollectChangeFreezes(i, F)
  BY <1>1, <1>2 DEF Gate!CollectChangeFreezes, CollectChangeFreezes,
                    Gate!FreezeDenies, FreezeDenies
<1>4. \A S : Gate!Min(S) = Min(S) /\ Gate!Max(S) = Max(S)
  BY DEF Gate!Min, Min, Gate!Max, Max
<1>5. \A starts, t : Gate!PrevStart(starts, t) = PrevStart(starts, t)
  <2>1. \A S : Gate!Cardinality(S) = Cardinality(S)
    BY DEF Gate!Cardinality, Cardinality
  <2>2. \A starts, t : Gate!Visited(starts, t) = Visited(starts, t)
    BY <2>1 DEF Gate!Visited, Visited
  <2> QED
    BY <1>4, <2>2 DEF Gate!PrevStart, PrevStart, Gate!NoTime, NoTime
<1>6. \A starts, t : Gate!NextStart(starts, t) = NextStart(starts, t)
  BY <1>4 DEF Gate!NextStart, NextStart, Gate!NoTime, NoTime
<1>7. \A t, w : Gate!EvalCronWindow(t, w) = EvalCronWindow(t, w)
  BY <1>5, <1>6 DEF Gate!EvalCronWindow, EvalCronWindow, Gate!WindowOk, WindowOk,
                    Gate!NoTime, NoTime
<1>8. \A mw, t : Gate!Evaluated(mw, t) = Evaluated(mw, t)
  BY <1>7 DEF Gate!Evaluated, Evaluated
<1>9. \A mw, t : Gate!BestNext(mw, t) = BestNext(mw, t)
  BY <1>4, <1>8 DEF Gate!BestNext, BestNext, Gate!NilTime, NilTime
<1>10. Gate!CollectMaintenanceWindows(i, M) = CollectMaintenanceWindows(i, M)
  BY <1>2, <1>8, <1>9 DEF Gate!CollectMaintenanceWindows, CollectMaintenanceWindows,
                          Gate!WindowDenies, WindowDenies, Gate!NilTime, NilTime
<1>11. Gate!CollectDenyCandidates(i, F, M) = CollectDenyCandidates(i, F, M)
  BY <1>3, <1>10 DEF Gate!CollectDenyCandidates, CollectDenyCandidates
<1>12. \A a, b : Gate!Precedes(a, b) <=> Precedes(a, b)
  BY DEF Gate!Precedes, Precedes, Gate!NilTime, NilTime
<1>13. \A D : Gate!SelectDenyCandidate(D) = SelectDenyCandidate(D)
  BY <1>12 DEF Gate!SelectDenyCandidate, SelectDenyCandidate, Gate!First, First
<1>14. \A D, o : Gate!Decide(D, o) = Decide(D, o)
  BY <1>13 DEF Gate!Decide, Decide, Gate!NoRef, NoRef
<1>15. \A ex : Gate!Admits(ex, i) <=> Admits(ex, i)
  BY <1>1, <1>2 DEF Gate!Admits, Admits, Gate!ConstraintsPass, ConstraintsPass
<1>16. Gate!Overrides(i, E) = Overrides(i, E)
  BY <1>15 DEF Gate!Overrides, Overrides, Gate!NoRef, NoRef
<1>17. Gate!AllowAll = AllowAll
  BY DEF Gate!AllowAll, AllowAll, Gate!NoRef, NoRef, Gate!NilTime, NilTime
<1> QED
  BY <1>11, <1>14, <1>16, <1>17 DEF Gate!Evaluate, Evaluate

-----------------------------------------------------------------------------
(* The steps of a handler *)

(* The call of an idle slot and that of a failed request.                  *)
LEMMA EmptyCalls == NoCall \in Calls /\ Failed \in Calls
<1>1. Drain \in Request
  BY RequestAssumption DEF Drain, Request
<1>2. AllowAll \in Decision
  BY DEF AllowAll, Decision, MaybeTime
<1> QED
  BY <1>1, <1>2 DEF NoCall, Failed, Calls, NoWorkload

(* An error carries nothing over from the request.                         *)
LEMMA FailedProgress ==
  ASSUME NEW r \in Slots, NEW flt
  PROVE  Progress(r, Failed, flt)
BY DEF Progress, Failed, NoCall, Drain, RequestOK

(* The classifier says what the request does.                              *)
LEMMA ClassifyIsRight ==
  ASSUME NEW q \in Request, RequestOK(q), ~q.scale
  PROVE  Classify(q) \in Action /\ Classify(q) \in Gate!ActionsOf(q)
<1>1. q.op \in {"CREATE", "UPDATE", "DELETE"} /\ q.template \in BOOLEAN /\ q.replicas \in BOOLEAN
  BY DEF Request
<1>2. Action = {"CREATE", "ROLL_OUT", "SCALE", "DELETE"}
  BY DEF Action
<1>3. CASE q.op # "UPDATE"
  <2>1. Classify(q) = q.op /\ Performs(q, q.op) /\ q.op \in Action
    BY <1>1, <1>2, <1>3 DEF Classify, Performs
  <2> QED
    BY <2>1, SameRequests DEF Gate!ActionsOf
<1>4. CASE q.op = "UPDATE" /\ q.template
  <2>1. Classify(q) = "ROLL_OUT" /\ Performs(q, "ROLL_OUT") /\ "ROLL_OUT" \in Action
    BY <1>2, <1>4 DEF Classify, Performs
  <2> QED
    BY <2>1, SameRequests DEF Gate!ActionsOf
<1>5. CASE q.op = "UPDATE" /\ ~q.template /\ q.replicas
  <2>1. Classify(q) = "SCALE" /\ Performs(q, "SCALE") /\ "SCALE" \in Action
    BY <1>2, <1>5 DEF Classify, Performs, RequestOK
  <2> QED
    BY <2>1, SameRequests DEF Gate!ActionsOf
<1>6. CASE q.op = "UPDATE" /\ ~q.template /\ ~q.replicas
  <2>1. Classify(q) = "ROLL_OUT" /\ \A a \in Action : ~Performs(q, a)
    BY <1>6 DEF Classify, Performs
  <2> QED
    BY <1>2, <2>1, SameRequests DEF Gate!ActionsOf
<1> QED
  BY <1>1, <1>3, <1>4, <1>5, <1>6

(* A handler goes on with its request, or fails.                           *)
Continues(c, f) == f.pc # "idle" /\ (f = Failed \/ (f.q = c.q /\ f.old = c.old))

(* Where the slot of a call has its type, so has what was read.            *)
LEMMA CallParts ==
  ASSUME IInv, NEW r \in Slots
  PROVE  LET c == call[r]
         IN  /\ c \in Calls /\ c.q \in Request /\ c.old \in Workload \cup {NoWorkload}
             /\ c.old.labels \in SUBSET Label
             /\ ArrivalOK(r) /\ Progress(r, c, faults)
             /\ seen["cf"] \in Heard(r, "cf") /\ seen["mw"] \in Heard(r, "mw")
             /\ seen["fe"] \in Heard(r, "fe") /\ seen["ns"] \in Heard(r, "ns")
             /\ now \in Instants(r)
<1>1. TypeOK /\ ArrivalOK(r) /\ Progress(r, call[r], faults)
  BY DEF IInv, SlotOK
<1>2. call[r] \in Calls /\ call[r].q \in Request /\ call[r].old \in Workload \cup {NoWorkload}
  BY <1>1 DEF TypeOK, Calls
<1>3. \A k \in Resource : seen[k] \in Nat /\ seen[k] \in Heard(r, k)
  BY <1>1 DEF TypeOK, ArrivalOK, Heard
<1>4. now \in Instants(r)
  BY <1>1 DEF TypeOK, ArrivalOK, Instants
<1>5. call[r].old.labels \in SUBSET Label
  BY <1>2 DEF Workload, NoWorkload
<1> QED
  BY <1>1, <1>2, <1>3, <1>4, <1>5 DEF Resource, PolicyResource

(* The handler finds out what it is asked.                                 *)
LEMMA ResolvingSteps ==
  ASSUME IInv, NEW r \in Slots,
         BypassOperator(r) \/ IgnoreKind(r) \/ ResolveScale(r) \/ ResolveObject(r)
  PROVE  \E f \in Calls : /\ Step(r, f) /\ Progress(r, f, 0)
                          /\ Running(r) /\ Continues(call[r], f)
<1> DEFINE c == call[r]
<1>1. /\ c \in Calls /\ c.q \in Request /\ RequestOK(c.q) /\ c.old.labels \in SUBSET Label
      /\ c.pc = "resolve" /\ c.dec = AllowAll /\ c.resp = "none"
  BY CallParts DEF Progress, BypassOperator, IgnoreKind, ResolveScale, ResolveObject, Calls
<1>2. Running(r)
  BY <1>1 DEF Running
<1>3. CASE BypassOperator(r) \/ IgnoreKind(r)
  <2> DEFINE f == [c EXCEPT !.pc = "answered", !.resp = "bypass"]
  <2>1. f \in Calls /\ f.pc = "answered" /\ f.resp = "bypass" /\ f.q = c.q /\ f.old = c.old
    BY <1>1 DEF Calls
  <2>2. Step(r, f)
    BY <1>3 DEF BypassOperator, IgnoreKind, Answer
  <2>3. Passed(r, f)
    BY <1>3, <2>1 DEF Passed, BypassOperator, IgnoreKind
  <2> HIDE DEF f
  <2> QED
    BY <1>1, <1>2, <2>1, <2>2, <2>3 DEF Progress, Continues
<1>4. CASE ResolveScale(r)
  <2>1. CASE workload.kind = c.q.kind
    <3> DEFINE f == [c EXCEPT !.pc = "namespace", !.kind = c.q.kind, !.action = "SCALE",
                              !.objLabels = workload.labels]
    <3>1. c.q.scale /\ OperatorGroup \notin c.q.groups /\ Step(r, f)
      BY <1>4, <2>1 DEF ResolveScale
    <3>2. c.q.op = "UPDATE" /\ c.q.kind \in Kind
      BY <1>1, <3>1 DEF RequestOK, Kind
    <3>3. workload.labels \in SUBSET Label
      BY DEF IInv, TypeOK, Workload, NoWorkload
    <3>4. /\ f \in Calls /\ f.pc = "namespace" /\ f.resp = "none" /\ f.dec = AllowAll
          /\ f.q = c.q /\ f.old = c.old /\ f.kind = c.q.kind /\ f.action = "SCALE"
          /\ f.objLabels = workload.labels
      BY <1>1, <3>2, <3>3 DEF Calls, Action, Kind
    <3>5. "SCALE" \in Gate!ActionsOf(c.q) /\ workload.labels \in Gate!LabelsOf(c.q, c.old)
      <4>1. Performs(c.q, "SCALE") /\ "SCALE" \in Action
        BY <3>1, <3>2 DEF Performs, Action
      <4> QED
        BY <3>1, <3>3, <4>1, SameRequests DEF Gate!ActionsOf, Gate!LabelsOf
    <3> HIDE DEF f
    <3> QED
      BY <1>1, <1>2, <3>1, <3>2, <3>4, <3>5 DEF Progress, Resolved, Continues
  <2>2. CASE workload.kind # c.q.kind
    <3>1. Step(r, Failed)
      BY <1>4, <2>2 DEF ResolveScale
    <3>2. Failed.pc # "idle"
      BY DEF Failed, NoCall
    <3> QED
      BY <1>2, <3>1, <3>2, EmptyCalls, FailedProgress DEF Continues
  <2> QED
    BY <2>1, <2>2
<1>5. CASE ResolveObject(r)
  <2> DEFINE ls == IF c.q.op = "DELETE" THEN c.old.labels ELSE c.q.labels
             f == [c EXCEPT !.pc = "namespace", !.kind = c.q.kind, !.action = Classify(c.q),
                            !.objLabels = ls]
  <2>1. /\ ~c.q.scale /\ c.q.kind \in Kind /\ OperatorGroup \notin c.q.groups /\ Step(r, f)
    BY <1>5 DEF ResolveObject
  <2>2. Classify(c.q) \in Action /\ Classify(c.q) \in Gate!ActionsOf(c.q)
    BY <1>1, <2>1, ClassifyIsRight
  <2>3. ls \in SUBSET Label /\ ls \in Gate!LabelsOf(c.q, c.old)
    BY <1>1, <2>1 DEF Gate!LabelsOf, Request
  <2>4. /\ f \in Calls /\ f.pc = "namespace" /\ f.resp = "none" /\ f.dec = AllowAll
        /\ f.q = c.q /\ f.old = c.old /\ f.kind = c.q.kind /\ f.action = Classify(c.q)
        /\ f.objLabels = ls
    BY <1>1, <2>1, <2>2, <2>3 DEF Calls
  <2> HIDE DEF f, ls
  <2> QED
    BY <1>1, <1>2, <2>1, <2>2, <2>3, <2>4 DEF Progress, Resolved, Continues
<1> QED
  BY <1>3, <1>4, <1>5

(* The handler reads the namespace and the clock.                          *)
LEMMA ReadingSteps ==
  ASSUME IInv, NEW r \in Slots, ReadNamespace(r) \/ ReadClock(r)
  PROVE  \E f \in Calls : /\ Step(r, f) /\ Progress(r, f, 0)
                          /\ Running(r) /\ Continues(call[r], f)
<1> DEFINE c == call[r]
           ns == Cached("ns")
<1>1. /\ c \in Calls /\ RequestOK(c.q) /\ c.pc \in {"namespace", "clock"}
      /\ c.dec = AllowAll /\ c.resp = "none" /\ Resolved(c)
      /\ c.pc = "clock" => NamespaceRead(r, c)
  BY CallParts DEF Progress, ReadNamespace, ReadClock, Calls
<1>2. Running(r)
  BY <1>1 DEF Running
<1>3. CASE ReadNamespace(r)
  <2>1. seen["ns"] \in Heard(r, "ns") /\ ns = hist.ns[seen["ns"]]
    BY CallParts DEF Cached
  <2>2. ns \in Namespace \cup {NoNamespace}
    BY StoredVersions DEF IInv, VersionType, Resource, PolicyResource
  <2>3. CASE ns.phase = "Absent"
    <3>1. Step(r, Failed)
      BY <1>3, <2>3 DEF ReadNamespace
    <3>2. Failed.pc # "idle"
      BY DEF Failed, NoCall
    <3> QED
      BY <1>2, <3>1, <3>2, EmptyCalls, FailedProgress DEF Continues
  <2>4. CASE ns.phase = "Terminating"
    <3> DEFINE f == [c EXCEPT !.pc = "answered", !.resp = "bypass"]
    <3>1. f \in Calls /\ f.pc = "answered" /\ f.resp = "bypass" /\ f.q = c.q /\ f.old = c.old
      BY <1>1 DEF Calls
    <3>2. Step(r, f)
      BY <1>3, <2>4 DEF ReadNamespace, Answer
    <3>3. Passed(r, f)
      BY <2>1, <2>4 DEF Passed
    <3> HIDE DEF f, ns
    <3> QED
      BY <1>1, <1>2, <3>1, <3>2, <3>3 DEF Progress, Continues
  <2>5. CASE ns.phase \notin {"Absent", "Terminating"}
    <3> DEFINE f == [c EXCEPT !.pc = "clock", !.nsLabels = ns.labels]
    <3>1. ns.labels \in SUBSET Label
      BY <2>2 DEF Namespace, NoNamespace
    <3>2. /\ f \in Calls /\ f.pc = "clock" /\ f.resp = "none" /\ f.dec = AllowAll
          /\ f.q = c.q /\ f.old = c.old /\ f.kind = c.kind /\ f.action = c.action
          /\ f.objLabels = c.objLabels /\ f.nsLabels = ns.labels
      BY <1>1, <3>1 DEF Calls
    <3>3. Step(r, f)
      BY <1>3, <2>5 DEF ReadNamespace
    <3> HIDE DEF f, ns
    <3>4. NamespaceRead(r, f) /\ Resolved(f)
      BY <1>1, <2>1, <3>2 DEF NamespaceRead, Resolved
    <3> QED
      BY <1>1, <1>2, <3>2, <3>3, <3>4 DEF Progress, Continues
  <2> QED
    BY <2>3, <2>4, <2>5
<1>4. CASE ReadClock(r)
  <2> DEFINE f == [c EXCEPT !.pc = "freezes", !.t = now]
  <2>1. now \in Time /\ c.pc = "clock" /\ Step(r, f) /\ now \in Instants(r)
    BY <1>4, CallParts, BoundAssumption DEF ReadClock, IInv, TypeOK
  <2>2. /\ f \in Calls /\ f.pc = "freezes" /\ f.resp = "none" /\ f.dec = AllowAll
        /\ f.q = c.q /\ f.old = c.old /\ f.kind = c.kind /\ f.action = c.action
        /\ f.objLabels = c.objLabels /\ f.nsLabels = c.nsLabels /\ f.t = now
    BY <1>1, <2>1 DEF Calls
  <2> HIDE DEF f
  <2>3. NamespaceRead(r, f) /\ Resolved(f) /\ ClockRead(r, f)
    BY <1>1, <2>1, <2>2 DEF NamespaceRead, Resolved, ClockRead
  <2> QED
    BY <1>1, <1>2, <2>1, <2>2, <2>3 DEF Progress, Continues
<1> QED
  BY <1>3, <1>4

(* What is collected in the cached versions has its type.                  *)
LEMMA CollectedType ==
  ASSUME TypeOK, NEW i, i.now \in Nat,
         NEW k \in 1..Len(hist["cf"]), NEW m \in 1..Len(hist["mw"])
  PROVE  LET D == CollectDenyCandidates(i, hist.cf[k], hist.mw[m])
         IN  /\ D \in SUBSET DenyCandidate
             /\ \A c, d \in D : c.ref = d.ref /\ c.next = d.next => c = d
             /\ CollectChangeFreezes(i, hist.cf[k]) \subseteq D
<1>1. "cf" \in Resource /\ "mw" \in Resource
  BY DEF Resource, PolicyResource
<1>2. hist.cf[k] \in SUBSET ChangeFreeze /\ hist.mw[m] \in SUBSET MaintenanceWindow
  BY <1>1, StoredVersions DEF VersionType
<1> QED
  BY <1>2, CandidatesOfPolicies DEF CollectDenyCandidates

(* A version heard of is a version; an instant of the request is a number. *)
LEMMA HeardIsStored ==
  ASSUME IInv, NEW r \in Slots
  PROVE  /\ \A k \in Resource : Heard(r, k) \subseteq 1..Len(hist[k])
         /\ \A c : ClockRead(r, c) => In(c).now \in Nat /\ In(c).now = c.t
<1>1. TypeOK /\ ArrivalOK(r)
  BY DEF IInv, SlotOK
<1>2. \A k \in Resource : seen[k] \in 1..Len(hist[k]) /\ Len(hist[k]) \in Nat
  BY <1>1, StoredVersions
<1>3. \A k \in Resource : Heard(r, k) \subseteq 1..Len(hist[k])
  BY <1>1, <1>2 DEF ArrivalOK, Heard
<1>4. \A c : ClockRead(r, c) => In(c).now \in Nat /\ In(c).now = c.t
  BY <1>1 DEF ArrivalOK, ClockRead, Instants, In, TypeOK
<1> QED
  BY <1>3, <1>4

(* The handler lists the policies.                                         *)
LEMMA ListingSteps ==
  ASSUME IInv, NEW r \in Slots, ListChangeFreezes(r) \/ ListMaintenanceWindows(r)
  PROVE  \E f \in Calls : /\ Step(r, f) /\ Progress(r, f, 0)
                          /\ Running(r) /\ Continues(call[r], f)
<1> DEFINE c == call[r]
<1>1. /\ c \in Calls /\ RequestOK(c.q) /\ c.pc \in {"freezes", "windows"}
      /\ c.dec = AllowAll /\ c.resp = "none" /\ Resolved(c)
      /\ NamespaceRead(r, c) /\ ClockRead(r, c)
      /\ c.pc = "windows" => FreezesRead(r, c)
  BY CallParts DEF Progress, ListChangeFreezes, ListMaintenanceWindows, Calls
<1>2. Running(r) /\ TypeOK
  BY <1>1 DEF Running, IInv
<1>3. /\ seen["cf"] \in Heard(r, "cf") /\ Cached("cf") = hist.cf[seen["cf"]]
      /\ seen["mw"] \in Heard(r, "mw") /\ Cached("mw") = hist.mw[seen["mw"]]
      /\ seen["fe"] \in Heard(r, "fe")
  BY CallParts DEF Cached
<1>4. /\ Heard(r, "cf") \subseteq 1..Len(hist["cf"]) /\ Heard(r, "mw") \subseteq 1..Len(hist["mw"])
      /\ In(c).now \in Nat
  BY <1>1, HeardIsStored DEF Resource, PolicyResource
<1>5. CASE ListChangeFreezes(r)
  <2> DEFINE denies == CollectChangeFreezes(In(c), Cached("cf"))
             f == [c EXCEPT !.pc = "windows", !.denies = denies]
  <2>1. Step(r, f)
    BY <1>5 DEF ListChangeFreezes
  <2>2. denies \in SUBSET DenyCandidate
    BY <1>2, <1>3, <1>4, CollectedType
  <2>3. /\ f \in Calls /\ f.pc = "windows" /\ f.resp = "none" /\ f.dec = AllowAll
        /\ f.q = c.q /\ f.old = c.old /\ f.kind = c.kind /\ f.action = c.action
        /\ f.objLabels = c.objLabels /\ f.nsLabels = c.nsLabels /\ f.t = c.t
        /\ f.denies = denies
    BY <1>1, <2>2 DEF Calls
  <2> HIDE DEF f
  <2>4. In(f) = In(c)
    BY <2>3 DEF In
  <2>5. /\ NamespaceRead(r, f) /\ Resolved(f) /\ ClockRead(r, f) /\ FreezesRead(r, f)
    BY <1>1, <1>3, <2>3, <2>4 DEF NamespaceRead, Resolved, ClockRead, FreezesRead
  <2> QED
    BY <1>1, <1>2, <2>1, <2>3, <2>5 DEF Progress, Continues
<1>6. CASE ListMaintenanceWindows(r)
  <2> DEFINE denies == c.denies \cup CollectMaintenanceWindows(In(c), Cached("mw"))
  <2>1. PICK i \in Heard(r, "cf") : c.denies = CollectChangeFreezes(In(c), hist.cf[i])
    BY <1>1, <1>6 DEF ListMaintenanceWindows, FreezesRead
  <2>2. denies = CollectDenyCandidates(In(c), hist.cf[i], hist.mw[seen["mw"]])
    BY <1>3, <2>1 DEF CollectDenyCandidates
  <2>3. denies \in SUBSET DenyCandidate
    BY <1>2, <1>3, <1>4, <2>1, <2>2, CollectedType
  <2>4. CASE denies = {}
    <3> DEFINE f == [c EXCEPT !.pc = "answered", !.resp = "allow"]
    <3>1. Step(r, f)
      BY <1>6, <2>4 DEF ListMaintenanceWindows, Answer
    <3>2. /\ f \in Calls /\ f.pc = "answered" /\ f.resp = "allow" /\ f.dec = AllowAll
          /\ f.q = c.q /\ f.old = c.old /\ f.kind = c.kind /\ f.action = c.action
          /\ f.objLabels = c.objLabels /\ f.nsLabels = c.nsLabels /\ f.t = c.t
      BY <1>1 DEF Calls
    <3> HIDE DEF f
    <3>3. In(f) = In(c)
      BY <3>2 DEF In
    <3>4. NamespaceRead(r, f) /\ Resolved(f) /\ ClockRead(r, f)
      BY <1>1, <3>2 DEF NamespaceRead, Resolved, ClockRead
    <3>5. f.dec \in Evaluate(In(f), hist.cf[i], hist.mw[seen["mw"]], hist.fe[seen["fe"]])
      BY <2>2, <2>4, <3>2, <3>3 DEF Evaluate
    <3>6. Judged(r, f, 0)
      <4>1. f.resp = IF f.dec.allowed THEN "allow" ELSE "deny"
        BY <3>2 DEF AllowAll
      <4> QED
        BY <1>3, <2>1, <3>5, <4>1 DEF Judged, Concluded
    <3> QED
      BY <1>1, <1>2, <3>1, <3>2, <3>4, <3>6 DEF Progress, Continues
  <2>5. CASE denies # {}
    <3> DEFINE f == [c EXCEPT !.pc = "exceptions", !.denies = denies]
    <3>1. Step(r, f)
      BY <1>6, <2>5 DEF ListMaintenanceWindows
    <3>2. /\ f \in Calls /\ f.pc = "exceptions" /\ f.resp = "none" /\ f.dec = AllowAll
          /\ f.q = c.q /\ f.old = c.old /\ f.kind = c.kind /\ f.action = c.action
          /\ f.objLabels = c.objLabels /\ f.nsLabels = c.nsLabels /\ f.t = c.t
          /\ f.denies = denies
      BY <1>1, <2>3 DEF Calls
    <3> HIDE DEF f, denies
    <3>3. In(f) = In(c)
      BY <3>2 DEF In
    <3>4. NamespaceRead(r, f) /\ Resolved(f) /\ ClockRead(r, f)
      BY <1>1, <3>2 DEF NamespaceRead, Resolved, ClockRead
    <3>5. WindowsRead(r, f)
      BY <1>3, <2>1, <2>2, <2>5, <3>2, <3>3 DEF WindowsRead
    <3> QED
      BY <1>1, <1>2, <3>1, <3>2, <3>4, <3>5 DEF Progress, Continues
  <2> QED
    BY <2>4, <2>5
<1> QED
  BY <1>5, <1>6

(* The handler concludes from what it has listed and from the exceptions,  *)
(* or from none when they cannot be read and flt faults have happened.     *)
LEMMA ConcludingStep ==
  ASSUME IInv, NEW r \in Slots, call[r].pc = "exceptions", NEW readable \in BOOLEAN,
         NEW o \in Overrides(In(call[r]), IF readable THEN Cached("fe") ELSE {}),
         NEW flt, flt = 0 => readable
  PROVE  LET f == Conclude(call[r], o)
         IN  /\ f \in Calls /\ Progress(r, f, flt) /\ Running(r) /\ Continues(call[r], f)
             /\ f.pc = "answered" /\ f.q = call[r].q /\ f.old = call[r].old
             /\ Concluded(r, f, readable)
<1> DEFINE c == call[r]
           f == Conclude(c, o)
<1>1. /\ c \in Calls /\ RequestOK(c.q) /\ Resolved(c)
      /\ NamespaceRead(r, c) /\ ClockRead(r, c) /\ WindowsRead(r, c)
  BY CallParts DEF Progress
<1>2. Running(r) /\ TypeOK
  BY <1>1 DEF Running, IInv
<1>3. seen["fe"] \in Heard(r, "fe") /\ Cached("fe") = hist.fe[seen["fe"]]
      /\ Cached("fe") \subseteq FreezeException
  BY <1>2, CallParts, StoredVersions DEF Cached, VersionType, Resource, PolicyResource
<1>4. PICK i \in Heard(r, "cf"), m \in Heard(r, "mw") :
        c.denies = CollectDenyCandidates(In(c), hist.cf[i], hist.mw[m])
  BY <1>1 DEF WindowsRead
<1>5. Heard(r, "cf") \subseteq 1..Len(hist["cf"]) /\ Heard(r, "mw") \subseteq 1..Len(hist["mw"])
      /\ In(c).now \in Nat /\ c.denies # {}
  BY <1>1, HeardIsStored DEF Resource, PolicyResource, WindowsRead
<1> DEFINE d == Decide(c.denies, o)
<1>6. d \in Decision
  <2>1. o \in OverrideRef \cup {NoRef}
    BY <1>3, OverrideType
  <2> QED
    BY <1>2, <1>4, <1>5, <2>1, CollectedType, DecideType
<1>7. d \in Evaluate(In(c), hist.cf[i], hist.mw[m], IF readable THEN hist.fe[seen["fe"]] ELSE {})
  BY <1>3, <1>4, <1>5 DEF Evaluate
<1>8. f = [c EXCEPT !.pc = "answered", !.dec = d, !.resp = IF d.allowed THEN "allow" ELSE "deny"]
  BY DEF Conclude
<1> HIDE DEF d, f
<1>9. /\ f \in Calls /\ f.pc = "answered" /\ f.resp = (IF d.allowed THEN "allow" ELSE "deny")
      /\ f.dec = d
      /\ f.q = c.q /\ f.old = c.old /\ f.kind = c.kind /\ f.action = c.action
      /\ f.objLabels = c.objLabels /\ f.nsLabels = c.nsLabels /\ f.t = c.t
  BY <1>1, <1>6, <1>8 DEF Calls
<1>10. In(f) = In(c)
  BY <1>9 DEF In
<1>11. NamespaceRead(r, f) /\ Resolved(f) /\ ClockRead(r, f)
  BY <1>1, <1>9 DEF NamespaceRead, Resolved, ClockRead
<1>12. Concluded(r, f, readable)
  BY <1>3, <1>7, <1>9, <1>10 DEF Concluded
<1>13. Judged(r, f, flt)
  BY <1>12 DEF Judged
<1>14. Progress(r, f, flt) /\ Continues(c, f)
  BY <1>1, <1>9, <1>11, <1>13 DEF Progress, Continues
<1> QED
  BY <1>2, <1>9, <1>12, <1>14 DEF f

(* Whatever step a handler takes, it knows enough after it.                *)
LEMMA HandlerSteps ==
  ASSUME IInv, NEW r \in Slots, Handle(r)
  PROVE  \E f \in Calls : /\ Step(r, f) /\ Progress(r, f, 0)
                          /\ Running(r) /\ Continues(call[r], f)
<1>1. CASE CheckExceptions(r)
  <2>1. PICK o \in Overrides(In(call[r]), Cached("fe")) : Step(r, Conclude(call[r], o))
    BY <1>1 DEF CheckExceptions
  <2>2. call[r].pc = "exceptions"
    BY <1>1 DEF CheckExceptions
  <2>3. /\ Conclude(call[r], o) \in Calls /\ Progress(r, Conclude(call[r], o), 0)
        /\ Running(r) /\ Continues(call[r], Conclude(call[r], o))
    <3> DEFINE readable == TRUE
    <3>1. o \in Overrides(In(call[r]), IF readable THEN Cached("fe") ELSE {})
      BY <2>1
    <3> HIDE DEF readable
    <3>2. readable \in BOOLEAN /\ readable
      BY DEF readable
    <3> QED
      BY <2>2, <3>1, <3>2, ConcludingStep
  <2> QED
    BY <2>1, <2>3
<1> QED
  BY <1>1, ResolvingSteps, ReadingSteps, ListingSteps DEF Handle

-----------------------------------------------------------------------------
(* The invariant is inductive *)

(* A step of a handler.                                                    *)
LEMMA HandleKeeps ==
  ASSUME IInv, NEW r \in Slots, Handle(r)
  PROVE  IInv' /\ Grown
<1>1. PICK f \in Calls : Step(r, f) /\ Progress(r, f, 0)
  BY HandlerSteps
<1>2. faults \in 0..MaxFaults /\ faults' = faults
  BY <1>1 DEF Step, IInv, TypeOK
<1>3. call' = [call EXCEPT ![r] = f] /\ UNCHANGED <<hist, seen, now, workload, arrived>>
  BY <1>1 DEF Step
<1>4. Progress(r, f, faults')
  <2>1. Judged(r, f, 0) => Judged(r, f, faults')
    BY DEF Judged
  <2> QED
    BY <1>1, <2>1 DEF Progress
<1> QED
  BY <1>2, <1>3, <1>4, OwnStep

(* The exceptions cannot be read: the handler goes on without.             *)
LEMMA ExceptionsUnreadableKeeps ==
  ASSUME IInv, NEW r \in Slots, ExceptionsUnreadable(r)
  PROVE  IInv' /\ Grown
<1> DEFINE f == Conclude(call[r], NoRef)
<1>1. /\ call[r].pc = "exceptions" /\ call' = [call EXCEPT ![r] = f] /\ faults' = faults + 1
      /\ UNCHANGED <<hist, seen, now, workload, arrived>>
      /\ faults' \in 0..MaxFaults /\ faults' # 0
  BY BoundAssumption DEF ExceptionsUnreadable, Fault, IInv, TypeOK
<1>2. f \in Calls /\ Progress(r, f, faults')
  <2> DEFINE readable == FALSE
  <2>1. NoRef \in Overrides(In(call[r]), IF readable THEN Cached("fe") ELSE {})
    BY DEF Overrides
  <2> HIDE DEF readable
  <2>2. readable \in BOOLEAN /\ (faults' = 0 => readable)
    BY <1>1 DEF readable
  <2> QED
    BY <1>1, <2>1, <2>2, ConcludingStep
<1> HIDE DEF f
<1> QED
  BY <1>1, <1>2, OwnStep

(* Another read fails: the request is refused.                             *)
LEMMA FailKeeps ==
  ASSUME IInv, NEW r \in Slots, Fail(r)
  PROVE  IInv' /\ Grown
<1>1. /\ call' = [call EXCEPT ![r] = Failed] /\ faults' = faults + 1
      /\ UNCHANGED <<hist, seen, now, workload, arrived>>
      /\ faults' \in 0..MaxFaults
  BY BoundAssumption DEF Fail, Fault, IInv, TypeOK
<1>2. Progress(r, Failed, faults')
  BY FailedProgress
<1> QED
  BY <1>1, <1>2, EmptyCalls, OwnStep

(* A fault that no handler meets, and steps of others altogether.          *)
LEMMA UntouchedKeeps ==
  ASSUME IInv, TypeOK', Grown, UNCHANGED <<call, arrived>>
  PROVE  IInv'
<1>1. \A r \in Slots : SlotOK(r)'
  BY Kept DEF IInv
<1> QED
  BY <1>1 DEF IInv

(* A request comes in.                                                     *)
LEMMA ReceiveKeeps ==
  ASSUME IInv, NEW r \in Slots, NEW q \in Request,
         q.replicas => q.kind \in {"Deployment", "StatefulSet"}, Receive(r, q)
  PROVE  IInv' /\ Grown
<1> DEFINE f == [NoCall EXCEPT !.pc = "resolve", !.q = q, !.old = workload]
           a == [now |-> now, seen |-> seen, stored |-> Latest]
<1>1. /\ call' = [call EXCEPT ![r] = f] /\ arrived' = [arrived EXCEPT ![r] = a]
      /\ UNCHANGED <<hist, seen, now, workload, faults>>
  BY DEF Receive
<1>2. TypeOK /\ now \in Nat \ {0} /\ \A k \in Resource : seen[k] \in Nat \ {0} /\ Len(hist[k]) \in Nat
  <2>1. \A k \in Resource : seen[k] \in 1..Len(hist[k]) /\ Len(hist[k]) \in Nat
    BY StoredVersions DEF IInv
  <2> QED
    BY <2>1 DEF IInv, TypeOK
<1>3. f \in Calls /\ f.pc = "resolve" /\ f.resp = "none" /\ f.dec = AllowAll /\ f.q = q
  <2>1. workload \in Workload \cup {NoWorkload}
    BY <1>2 DEF TypeOK
  <2> QED
    BY <2>1, EmptyCalls DEF NoCall, Calls
<1>4. a \in [now : Nat, seen : [Resource -> Nat], stored : [Resource -> Nat]]
  BY <1>2 DEF Latest, TypeOK
<1>5. /\ call' \in [Slots -> Calls] /\ call'[r] = f /\ arrived'[r] = a
      /\ \A s \in Slots \ {r} : call'[s] = call[s] /\ arrived'[s] = arrived[s]
      /\ arrived' \in [Slots -> [now : Nat, seen : [Resource -> Nat], stored : [Resource -> Nat]]]
  BY <1>1, <1>2, <1>3, <1>4 DEF TypeOK
<1>6. TypeOK' /\ Grown
  BY <1>1, <1>2, <1>5, StillGrown DEF TypeOK
<1>7. \A s \in Slots \ {r} : SlotOK(s)'
  BY <1>2, <1>5, <1>6, Kept DEF IInv
<1>8. RequestOK(q)
  BY DEF Receive, Reaches, RequestOK
<1>9. ArrivalOK(r)'
  BY <1>1, <1>2, <1>5 DEF ArrivalOK
<1>10. Progress(r, call[r], faults)'
  <2>1. /\ call'[r].pc = "resolve" /\ call'[r].resp = "none" /\ call'[r].dec = AllowAll
        /\ RequestOK(call[r].q)'
    BY <1>3, <1>5, <1>8 DEF RequestOK
  <2> QED
    BY <2>1 DEF Progress
<1> QED
  BY <1>6, <1>7, <1>9, <1>10 DEF IInv, SlotOK

(* The API server takes the answer.                                        *)
LEMMA CompleteKeeps ==
  ASSUME IInv, NEW r \in Slots, Complete(r)
  PROVE  IInv' /\ Grown
<1> DEFINE c == call[r]
<1>1. /\ call' = [call EXCEPT ![r] = NoCall] /\ arrived' = [arrived EXCEPT ![r] = NoArrival]
      /\ UNCHANGED <<hist, seen, now, faults>>
      /\ workload' \in {workload, Stores(c.q, c.old)}
      /\ c.q.kind \notin Kind => workload' = workload
  BY DEF Complete
<1>2. TypeOK /\ now \in Nat \ {0} /\ \A k \in Resource : seen[k] \in Nat \ {0} /\ Len(hist[k]) \in Nat
  <2>1. \A k \in Resource : seen[k] \in 1..Len(hist[k]) /\ Len(hist[k]) \in Nat
    BY StoredVersions DEF IInv
  <2> QED
    BY <2>1 DEF IInv, TypeOK
<1>3. workload' \in Workload \cup {NoWorkload}
  <2>1. /\ c.q \in Request /\ c.old \in Workload \cup {NoWorkload}
        /\ workload \in Workload \cup {NoWorkload}
    BY <1>2, CallParts DEF TypeOK
  <2>2. c.q.kind \in Kind => Stores(c.q, c.old) \in Workload \cup {NoWorkload}
    BY <2>1 DEF Stores, Request, Workload
  <2> QED
    BY <1>1, <2>1, <2>2
<1>4. NoArrival \in [now : Nat, seen : [Resource -> Nat], stored : [Resource -> Nat]]
  BY DEF NoArrival, Start
<1>5. /\ call' \in [Slots -> Calls] /\ call'[r] = NoCall /\ arrived'[r] = NoArrival
      /\ \A s \in Slots \ {r} : call'[s] = call[s] /\ arrived'[s] = arrived[s]
      /\ arrived' \in [Slots -> [now : Nat, seen : [Resource -> Nat], stored : [Resource -> Nat]]]
  BY <1>1, <1>2, <1>4, EmptyCalls DEF TypeOK
<1>6. TypeOK' /\ Grown
  BY <1>1, <1>2, <1>3, <1>5, StillGrown DEF TypeOK
<1>7. \A s \in Slots \ {r} : SlotOK(s)'
  BY <1>2, <1>5, <1>6, Kept DEF IInv
<1>8. ArrivalOK(r)'
  BY <1>1, <1>2, <1>5 DEF ArrivalOK, NoArrival, Start
<1>9. Progress(r, call[r], faults)'
  <2>1. /\ call'[r].pc = "idle" /\ call'[r].resp = "none" /\ call'[r].dec = AllowAll
        /\ call'[r].q = Drain
    BY <1>5 DEF NoCall
  <2>2. RequestOK(call[r].q)'
    BY <2>1 DEF RequestOK, Drain
  <2> QED
    BY <2>1, <2>2 DEF Progress
<1> QED
  BY <1>6, <1>7, <1>8, <1>9 DEF IInv, SlotOK

(* The manager restarts: requests fail, caches are filled anew.            *)
LEMMA RestartKeeps ==
  ASSUME IInv, Restart
  PROVE  IInv' /\ Grown
<1>1. /\ call' = [r \in Slots |-> IF Running(r) THEN Failed ELSE call[r]]
      /\ seen' = Latest /\ UNCHANGED <<hist, now, workload, arrived>> /\ faults' = faults + 1
      /\ faults' \in 0..MaxFaults
  BY BoundAssumption DEF Restart, Fault, IInv, TypeOK
<1>2. TypeOK /\ \A k \in Resource : /\ seen[k] \in Nat /\ seen[k] <= Len(hist[k])
                                   /\ Len(hist[k]) \in Nat \ {0} /\ seen'[k] = Len(hist[k])
  <2>1. \A k \in Resource : /\ seen[k] \in 1..Len(hist[k]) /\ seen[k] \in Nat
                            /\ Len(hist[k]) \in Nat \ {0}
    BY StoredVersions DEF IInv
  <2> QED
    BY <1>1, <2>1 DEF IInv, Latest
<1>3. call' \in [Slots -> Calls]
  BY <1>1, <1>2, EmptyCalls DEF TypeOK
<1>4. TypeOK'
  <2>1. seen' \in [Resource -> Nat] /\ \A k \in Resource : seen'[k] \in 1..Len(hist'[k])
    BY <1>1, <1>2 DEF Latest
  <2> QED
    BY <1>1, <1>2, <1>3, <2>1 DEF TypeOK
<1>5. Grown
  <2>1. now \in Int /\ now' = now /\ faults \in Int /\ faults' = faults + 1
    BY <1>1, <1>2 DEF TypeOK
  <2>2. \A k \in Resource : seen[k] <= seen'[k] /\ hist'[k] = hist[k] /\ Len(hist[k]) \in Int
    BY <1>1, <1>2
  <2> QED
    BY <2>1, <2>2 DEF Grown
<1>6. ASSUME NEW r \in Slots PROVE SlotOK(r)'
  <2>1. CASE ~Running(r)
    <3>1. call'[r] = call[r] /\ arrived'[r] = arrived[r] /\ SlotOK(r)
      BY <1>1, <2>1 DEF IInv
    <3> QED
      BY <1>2, <1>4, <1>5, <3>1, Kept
  <2>2. CASE Running(r)
    <3>1. call'[r] = Failed /\ arrived'[r] = arrived[r]
      BY <1>1, <2>2
    <3>2. ArrivalOK(r)
      BY DEF IInv, SlotOK
    <3>3. ArrivalOK(r)'
      <4>1. arrived'[r].now \in 1..now'
        BY <1>1, <3>1, <3>2 DEF ArrivalOK
      <4>2. \A k \in Resource : arrived'[r].seen[k] \in 1..seen'[k]
        BY <1>2, <3>1, <3>2 DEF ArrivalOK
      <4> QED
        BY <4>1, <4>2 DEF ArrivalOK
    <3>4. Progress(r, call[r], faults)'
      <4>1. /\ call'[r].pc = "answered" /\ call'[r].resp = "error" /\ call'[r].q = Drain
        BY <3>1 DEF Failed, NoCall
      <4>2. RequestOK(call[r].q)'
        BY <4>1 DEF RequestOK, Drain
      <4> QED
        BY <4>1, <4>2 DEF Progress
    <3> QED
      BY <3>3, <3>4 DEF SlotOK
  <2> QED
    BY <2>1, <2>2
<1> QED
  BY <1>4, <1>5, <1>6 DEF IInv

(* The invariant holds at first.                                           *)
LEMMA InitInvariant == Init => IInv
<1> SUFFICES ASSUME Init PROVE IInv
  OBVIOUS
<1>1. PICK i \in Initial : hist = [k \in Resource |-> <<i[k]>>]
  BY DEF Init
<1>2. \A k \in Resource : hist[k] = <<i[k]>> /\ i[k] \in VersionType[k]
  <2>1. i \in [cf : SUBSET ChangeFreeze, mw : SUBSET MaintenanceWindow,
               fe : SUBSET FreezeException, ns : Namespace \cup {NoNamespace}]
    BY InitialAssumption
  <2>2. /\ VersionType["cf"] = SUBSET ChangeFreeze /\ VersionType["mw"] = SUBSET MaintenanceWindow
        /\ VersionType["fe"] = SUBSET FreezeException
        /\ VersionType["ns"] = Namespace \cup {NoNamespace} /\ Resource = {"cf", "mw", "fe", "ns"}
    BY DEF VersionType, Resource, PolicyResource
  <2> QED
    BY <1>1, <2>1, <2>2
<1>3. \A k \in Resource : hist[k] \in Seq(VersionType[k]) /\ Len(hist[k]) = 1
  <2>1. \A S : \A e \in S : <<e>> \in Seq(S) /\ Len(<<e>>) = 1
    OBVIOUS
  <2> QED
    BY <1>2, <2>1
<1>4. hist \in [cf : Seq(SUBSET ChangeFreeze), mw : Seq(SUBSET MaintenanceWindow),
                fe : Seq(SUBSET FreezeException), ns : Seq(Namespace \cup {NoNamespace})]
  BY <1>1, <1>3, HistoryType
<1>5. seen = [k \in Resource |-> 1] /\ \A k \in Resource : seen[k] = 1
  BY <1>3 DEF Init, Latest
<1>6. TypeOK
  <2>1. arrived \in [Slots -> [now : Nat, seen : [Resource -> Nat], stored : [Resource -> Nat]]]
    BY DEF Init, NoArrival, Start
  <2>2. call \in [Slots -> Calls]
    BY EmptyCalls DEF Init
  <2> QED
    BY <1>3, <1>4, <1>5, <2>1, <2>2, BoundAssumption DEF Init, TypeOK
<1>7. ASSUME NEW r \in Slots PROVE SlotOK(r)
  <2>1. arrived[r] = NoArrival /\ call[r] = NoCall
    BY DEF Init
  <2>2. ArrivalOK(r)
    BY <1>5, <2>1 DEF ArrivalOK, NoArrival, Start, Init
  <2>3. Progress(r, call[r], faults)
    BY <2>1 DEF Progress, NoCall, Drain, RequestOK
  <2> QED
    BY <2>2, <2>3 DEF SlotOK
<1> QED
  BY <1>6, <1>7 DEF IInv

(* The namespace controller's requests come in like any other.             *)
LEMMA DrainReceives ==
  ASSUME TypeOK, DrainRequest
  PROVE  \E q \in Request : ~q.replicas /\ Receive(NsController, q) /\ NsController \in Slots
<1> DEFINE q == [Drain EXCEPT !.kind = workload.kind]
<1>1. Receive(NsController, q) /\ workload # NoWorkload /\ NsController \in Slots
  BY DEF DrainRequest, Slots
<1>2. q \in Request /\ ~q.replicas
  <2>1. workload \in Workload
    BY <1>1 DEF TypeOK
  <2>2. workload.kind \in Kind /\ Drain \in Request
    BY <2>1, RequestAssumption DEF Workload, Drain, Request
  <2> QED
    BY <2>2 DEF Drain, Request
<1> QED
  BY <1>1, <1>2

(* They keep the invariant,                                                *)
LEMMA DrainKeeps ==
  ASSUME IInv, DrainRequest
  PROVE  IInv' /\ Grown
<1>1. PICK q \in Request : ~q.replicas /\ Receive(NsController, q) /\ NsController \in Slots
  BY DrainReceives DEF IInv
<1> QED
  BY <1>1, ReceiveKeeps

(* and so do those of the users.                                           *)
LEMMA UserRequestKeeps ==
  ASSUME IInv, NEW r \in Users, UserRequest(r)
  PROVE  IInv' /\ Grown
<1>1. PICK q \in RequestPool : Receive(r, q)
  BY DEF UserRequest
<1>2. q \in Request /\ (q.replicas => q.kind \in {"Deployment", "StatefulSet"}) /\ r \in Slots
  BY RequestAssumption DEF Slots
<1> QED
  BY <1>1, <1>2, ReceiveKeeps

(* Every action keeps the invariant.                                       *)
LEMMA InductiveStep == IInv /\ [Next]_vars => IInv'
<1> SUFFICES ASSUME IInv, [Next]_vars PROVE IInv'
  OBVIOUS
<1>1. CASE Environment
  <2>1. TypeOK' /\ Grown /\ UNCHANGED <<call, arrived>>
    BY <1>1, EnvironmentGrows DEF IInv
  <2> QED
    BY <2>1, UntouchedKeeps
<1>2. CASE \E r \in Users : UserRequest(r)
  BY <1>2, UserRequestKeeps
<1>3. CASE DrainRequest
  BY <1>3, DrainKeeps
<1>4. CASE \E r \in Slots : Handle(r) \/ Complete(r) \/ ExceptionsUnreadable(r) \/ Fail(r)
  BY <1>4, HandleKeeps, CompleteKeeps, ExceptionsUnreadableKeeps, FailKeeps
<1>5. CASE Restart
  BY <1>5, RestartKeeps
<1>6. CASE UNCHANGED vars
  <2>1. TypeOK /\ UNCHANGED <<hist, seen, now, workload, call, arrived, faults>>
    BY <1>6 DEF IInv, vars
  <2>2. TypeOK' /\ Grown
    BY <2>1, StillGrown DEF TypeOK
  <2> QED
    BY <2>1, <2>2, UntouchedKeeps
<1> QED
  BY <1>1, <1>2, <1>3, <1>4, <1>5, <1>6 DEF Next, Environment

(* The invariant holds throughout.                                         *)
LEMMA Invariance == Spec => []IInv
BY InitInvariant, InductiveStep, PTL DEF Spec

(* The handler's variables stay in their types.                            *)
THEOREM TypeCorrect == Spec => []TypeOK
<1>1. IInv => TypeOK
  BY DEF IInv
<1> QED
  BY <1>1, Invariance, PTL

-----------------------------------------------------------------------------
(* Safety: what an answer says about the time of the request *)

(* What was heard of is among what the properties call the request's span. *)
LEMMA HeardInSpan ==
  ASSUME IInv, NEW r \in Slots
  PROVE  /\ \A k \in Resource : \A i \in Heard(r, k) : i \in Span(r, k) /\ i \in 1..Len(hist[k])
         /\ \A k \in Resource : arrived[r].seen[k] \in Heard(r, k)
<1>1. \A k \in Resource : seen[k] \in 1..Len(hist[k]) /\ Len(hist[k]) \in Nat
  BY StoredVersions DEF IInv
<1>2. ArrivalOK(r)
  BY DEF IInv, SlotOK
<1> QED
  BY <1>1, <1>2 DEF ArrivalOK, Heard, Span

(* An answer of the evaluator is its decision for one instant, one version *)
(* of the namespace and one version of each list, all of the time of the   *)
(* request.                                                                *)
LEMMA AnswerParts ==
  ASSUME IInv, NEW r \in Slots, Answered(r, {"allow", "deny"})
  PROVE  LET c == call[r]
         IN  /\ Resolved(c) /\ c.t \in Instants(r) /\ In(c).now \in Nat
             /\ (c.resp = "allow") = c.dec.allowed
             /\ \E n \in Span(r, "ns") : InAt(r, c.t, n, c.action) = In(c)
             /\ \E i \in Span(r, "cf"), m \in Span(r, "mw"), e \in Span(r, "fe"),
                   readable \in BOOLEAN :
                  /\ i \in DOMAIN hist.cf /\ m \in DOMAIN hist.mw
                  /\ hist.cf[i] \in SUBSET ChangeFreeze /\ hist.mw[m] \in SUBSET MaintenanceWindow
                  /\ faults = 0 => readable
                  /\ c.dec \in Evaluate(In(c), hist.cf[i], hist.mw[m],
                                        IF readable THEN hist.fe[e] ELSE {})
<1> DEFINE c == call[r]
<1>1. /\ c \in Calls /\ Resolved(c) /\ NamespaceRead(r, c) /\ ClockRead(r, c)
      /\ Judged(r, c, faults)
  BY CallParts DEF Progress, Answered
<1>2. c.t \in Instants(r) /\ In(c).now \in Nat
  BY <1>1, HeardIsStored DEF ClockRead
<1>3. (c.resp = "allow") = c.dec.allowed
  <2>1. c.dec.allowed \in BOOLEAN
    BY <1>1 DEF Calls, Decision
  <2> QED
    BY <1>1, <2>1 DEF Judged, Concluded
<1>4. Resource = {"cf", "mw", "fe", "ns"}
  BY DEF Resource, PolicyResource
<1>5. \E n \in Span(r, "ns") : InAt(r, c.t, n, c.action) = In(c)
  <2>1. PICK n \in Heard(r, "ns") : c.nsLabels = hist.ns[n].labels
    BY <1>1 DEF NamespaceRead
  <2>2. InAt(r, c.t, n, c.action) = In(c)
    <3> DEFINE i == In(c)
               j == InAt(r, c.t, n, c.action)
    <3>1. i = [now |-> i.now, nsLabels |-> i.nsLabels, kind |-> i.kind, action |-> i.action,
               objLabels |-> i.objLabels, user |-> i.user, groups |-> i.groups]
      BY DEF In
    <3>2. i.now = c.t /\ i.action = c.action /\ i.nsLabels = hist.ns[n].labels
      BY <2>1 DEF In
    <3>3. j = [i EXCEPT !.now = i.now, !.action = i.action, !.nsLabels = i.nsLabels]
      BY <3>2 DEF InAt
    <3> HIDE DEF i, j
    <3>4. j = i
      BY <3>1, <3>3
    <3> QED
      BY <3>4 DEF i, j
  <2> QED
    BY <1>4, <2>1, <2>2, HeardInSpan
<1>6. PICK i \in Heard(r, "cf"), m \in Heard(r, "mw"), e \in Heard(r, "fe"), readable \in BOOLEAN :
        /\ faults = 0 => readable
        /\ c.dec \in Evaluate(In(c), hist.cf[i], hist.mw[m], IF readable THEN hist.fe[e] ELSE {})
  BY <1>1 DEF Judged, Concluded
<1>7. /\ i \in Span(r, "cf") /\ m \in Span(r, "mw") /\ e \in Span(r, "fe")
      /\ i \in 1..Len(hist["cf"]) /\ m \in 1..Len(hist["mw"])
  BY <1>4, HeardInSpan
<1>8. /\ hist.cf[i] \in SUBSET ChangeFreeze /\ hist.mw[m] \in SUBSET MaintenanceWindow
      /\ i \in DOMAIN hist.cf /\ m \in DOMAIN hist.mw
  BY <1>4, <1>7, StoredVersions DEF IInv, VersionType
<1> QED
  BY <1>1, <1>2, <1>3, <1>5, <1>6, <1>7, <1>8

(* A request performs one action at most.                                  *)
LEMMA PerformsOne ==
  ASSUME NEW q, NEW a, NEW b, Performs(q, a), Performs(q, b)
  PROVE  a = b
BY DEF Performs

(* A change that a policy denied from the arrival of the request on, in    *)
(* every namespace version and at every instant until the answer, is let   *)
(* through only if some exception admitted it meanwhile.                   *)
THEOREM Freezes_Are_Enforced == Spec => []FreezeEnforced
<1>1. IInv => FreezeEnforced
  <2> SUFFICES ASSUME IInv, NEW r \in Slots, Answered(r, {"allow", "bypass"}), Everyday(r),
                      NEW a \in Action, Performs(call[r].q, a), SteadilyDenied(r, a)
               PROVE  EverAdmitted(r, a)
    BY DEF FreezeEnforced
  <2> DEFINE c == call[r]
  <2>1. c.resp = "allow"
    <3>1. c.resp = "bypass" => Passed(r, c)
      BY CallParts DEF Progress
    <3>2. ~Passed(r, c)
      BY HeardInSpan DEF Everyday, Passed, Resource, PolicyResource
    <3> QED
      BY <3>1, <3>2 DEF Answered
  <2>2. /\ Resolved(c) /\ c.t \in Instants(r) /\ c.dec.allowed
    BY <2>1, AnswerParts DEF Answered
  <2>3. PICK n \in Span(r, "ns") : InAt(r, c.t, n, c.action) = In(c)
    BY <2>1, AnswerParts DEF Answered
  <2>4. PICK i \in Span(r, "cf"), m \in Span(r, "mw"), e \in Span(r, "fe"), readable \in BOOLEAN :
          c.dec \in Evaluate(In(c), hist.cf[i], hist.mw[m], IF readable THEN hist.fe[e] ELSE {})
    BY <2>1, AnswerParts DEF Answered
  <2>5. c.action = a
    <3>1. Performs(c.q, c.action)
      BY <2>2, SameRequests DEF Resolved, Gate!ActionsOf
    <3> QED
      BY <3>1, PerformsOne
  <2>6. InAt(r, c.t, n, a) = In(c)
    BY <2>3, <2>5
  <2>7. CollectDenyCandidates(In(c), hist.cf[i], hist.mw[m]) # {}
    <3>1. CASE \E cf \in hist.cf[arrived[r].seen.cf] :
                 /\ \A j \in Span(r, "cf") : cf \in hist.cf[j]
                 /\ \A t \in Instants(r), j \in Span(r, "ns") : FreezeDenies(cf, InAt(r, t, j, a))
      <4>1. PICK cf \in hist.cf[i] : FreezeDenies(cf, InAt(r, c.t, n, a))
        BY <2>2, <2>3, <2>4, <3>1
      <4>2. FreezeDenies(cf, In(c))
        BY <2>6, <4>1
      <4>3. FreezeCandidate(cf) \in CollectDenyCandidates(In(c), hist.cf[i], hist.mw[m])
        BY <4>1, <4>2, CandidateSources
      <4> QED
        BY <4>3
    <3>2. CASE \E mw \in hist.mw[arrived[r].seen.mw] :
                 /\ \A j \in Span(r, "mw") : mw \in hist.mw[j]
                 /\ \A t \in Instants(r), j \in Span(r, "ns") : WindowDenies(mw, InAt(r, t, j, a))
      <4>1. PICK mw \in hist.mw[m] : WindowDenies(mw, InAt(r, c.t, n, a))
        BY <2>2, <2>3, <2>4, <3>2
      <4>2. WindowDenies(mw, In(c))
        BY <2>6, <4>1
      <4>3. WindowCandidate(mw, In(c).now) \in CollectDenyCandidates(In(c), hist.cf[i], hist.mw[m])
        BY <4>1, <4>2, CandidateSources
      <4> QED
        BY <4>3
    <3> QED
      BY <3>1, <3>2 DEF SteadilyDenied
  <2>8. \E ex \in (IF readable THEN hist.fe[e] ELSE {}) : Admits(ex, In(c))
    BY <2>2, <2>4, <2>7, AllowanceIsExcepted
  <2>9. \E ex \in hist.fe[e] : Admits(ex, InAt(r, c.t, n, a))
    BY <2>3, <2>5, <2>8
  <2> QED
    BY <2>2, <2>3, <2>4, <2>9 DEF EverAdmitted
<1> QED
  BY <1>1, Invariance, PTL

(* A denial names a policy that the cache held, and that denied the change,*)
(* at some instant of the request.                                         *)
THEOREM Denials_Are_Justified == Spec => []DenialJustified
<1>1. IInv => DenialJustified
  <2> SUFFICES ASSUME IInv, NEW r \in Slots, Answered(r, {"deny"})
               PROVE  LET c == call[r]
                          Justifies(p) ==
                            \E t \in Instants(r), j \in Span(r, "ns") :
                              LET in == InAt(r, t, j, c.action)
                              IN  \/ /\ c.dec.policy = [kind |-> "ChangeFreeze", name |-> p.name]
                                     /\ \E i \in Span(r, "cf") :
                                          p \in hist.cf[i] /\ FreezeDenies(p, in)
                                  \/ /\ c.dec.policy
                                          = [kind |-> "MaintenanceWindow", name |-> p.name]
                                     /\ \E i \in Span(r, "mw") :
                                          p \in hist.mw[i] /\ WindowDenies(p, in)
                      IN  \E ps \in Range(hist.cf) \cup Range(hist.mw) : \E p \in ps : Justifies(p)
    BY DEF DenialJustified
  <2> DEFINE c == call[r]
  <2>1. c.t \in Instants(r) /\ In(c).now \in Nat /\ ~c.dec.allowed
    BY AnswerParts DEF Answered
  <2>2. PICK n \in Span(r, "ns") : InAt(r, c.t, n, c.action) = In(c)
    BY AnswerParts DEF Answered
  <2>3. PICK i \in Span(r, "cf"), m \in Span(r, "mw"), e \in Span(r, "fe"), readable \in BOOLEAN :
          /\ i \in DOMAIN hist.cf /\ m \in DOMAIN hist.mw
          /\ hist.cf[i] \in SUBSET ChangeFreeze /\ hist.mw[m] \in SUBSET MaintenanceWindow
          /\ c.dec \in Evaluate(In(c), hist.cf[i], hist.mw[m], IF readable THEN hist.fe[e] ELSE {})
    BY AnswerParts DEF Answered
  <2>4. PICK d \in CollectDenyCandidates(In(c), hist.cf[i], hist.mw[m]) : c.dec.policy = d.ref
    BY <2>1, <2>3, DenialOfCandidate
  <2>5. hist.cf[i] \in Range(hist.cf) /\ hist.mw[m] \in Range(hist.mw)
    BY <2>3 DEF Range
  <2>6. CASE \E cf \in hist.cf[i] : FreezeDenies(cf, In(c)) /\ d = FreezeCandidate(cf)
    <3>1. PICK cf \in hist.cf[i] : FreezeDenies(cf, In(c)) /\ d = FreezeCandidate(cf)
      BY <2>6
    <3>2. c.dec.policy = [kind |-> "ChangeFreeze", name |-> cf.name]
      BY <2>4, <3>1 DEF FreezeCandidate
    <3> QED
      BY <2>1, <2>2, <2>3, <2>5, <3>1, <3>2
  <2>7. CASE \E mw \in hist.mw[m] : WindowDenies(mw, In(c)) /\ d = WindowCandidate(mw, In(c).now)
    <3>1. PICK mw \in hist.mw[m] : WindowDenies(mw, In(c)) /\ d = WindowCandidate(mw, In(c).now)
      BY <2>7
    <3>2. c.dec.policy = [kind |-> "MaintenanceWindow", name |-> mw.name]
      BY <2>4, <3>1 DEF WindowCandidate
    <3> QED
      BY <2>1, <2>2, <2>3, <2>5, <3>1, <3>2
  <2>8. \/ \E cf \in hist.cf[i] : FreezeDenies(cf, In(c)) /\ d = FreezeCandidate(cf)
        \/ \E mw \in hist.mw[m] : WindowDenies(mw, In(c)) /\ d = WindowCandidate(mw, In(c).now)
    BY CandidateSources
  <2> QED
    BY <2>6, <2>7, <2>8
<1> QED
  BY <1>1, Invariance, PTL

(* While no read fails, an exception that admits the change all the while  *)
(* is honoured.                                                            *)
THEOREM Exceptions_Are_Honoured == Spec => []ExceptionHonoured
<1>1. IInv => ExceptionHonoured
  <2> SUFFICES ASSUME IInv, NEW r \in Slots, Answered(r, {"deny"}), faults = 0,
                      NEW ex \in hist.fe[arrived[r].seen.fe],
                      \A i \in Span(r, "fe") : ex \in hist.fe[i],
                      \A t \in Instants(r), j \in Span(r, "ns") :
                        Admits(ex, InAt(r, t, j, call[r].action))
               PROVE  FALSE
    BY DEF ExceptionHonoured
  <2> DEFINE c == call[r]
  <2>1. c.t \in Instants(r) /\ In(c).now \in Nat /\ ~c.dec.allowed
    BY AnswerParts DEF Answered
  <2>2. PICK n \in Span(r, "ns") : InAt(r, c.t, n, c.action) = In(c)
    BY AnswerParts DEF Answered
  <2>3. PICK i \in Span(r, "cf"), m \in Span(r, "mw"), e \in Span(r, "fe"), readable \in BOOLEAN :
          /\ hist.cf[i] \in SUBSET ChangeFreeze /\ hist.mw[m] \in SUBSET MaintenanceWindow
          /\ faults = 0 => readable
          /\ c.dec \in Evaluate(In(c), hist.cf[i], hist.mw[m], IF readable THEN hist.fe[e] ELSE {})
    BY AnswerParts DEF Answered
  <2>4. c.dec \in Evaluate(In(c), hist.cf[i], hist.mw[m], hist.fe[e])
    BY <2>3
  <2>5. ~Admits(ex, In(c))
    BY <2>1, <2>3, <2>4, DenialOfCandidate
  <2> QED
    BY <2>1, <2>2, <2>5
<1> QED
  BY <1>1, Invariance, PTL

-----------------------------------------------------------------------------
(* Refinement: every step of the handler is a step of the gate, or none *)

Since(r) == [now |-> arrived[r].now, known |-> arrived[r].seen]

(* What the gate sees of a slot.                                           *)
LEMMA Mapping ==
  ASSUME NEW r \in Slots
  PROVE  LET c == call[r]
         IN  /\ c.pc = "idle" => RequestOf(r) = [verdict |-> "none"]
             /\ c.pc = "answered" /\ c.resp = "error" => RequestOf(r) = [verdict |-> "error"]
             /\ Running(r) => RequestOf(r) = [verdict |-> "open", q |-> c.q, old |-> c.old,
                                              since |-> Since(r)]
             /\ c.pc = "answered" /\ c.resp # "error" =>
                  RequestOf(r) = [verdict |-> c.resp, q |-> c.q, old |-> c.old,
                                  since |-> Since(r)]
BY DEF RequestOf, Running, Since

(* A slot that does not move looks the same.                               *)
LEMMA SameRequest ==
  ASSUME NEW r \in Slots, call'[r] = call[r], arrived'[r] = arrived[r]
  PROVE  RequestOf(r)' = RequestOf(r)
BY DEF RequestOf

(* One slot moves under the mapping.                                       *)
LEMMA OneMoves ==
  ASSUME NEW r \in Slots, NEW v, RequestOf(r)' = v,
         \A s \in Slots \ {r} : call'[s] = call[s] /\ arrived'[s] = arrived[s]
  PROVE  [s \in Slots |-> RequestOf(s)]' = [[s \in Slots |-> RequestOf(s)] EXCEPT ![r] = v]
<1>1. \A s \in Slots \ {r} : RequestOf(s)' = RequestOf(s)
  BY SameRequest
<1> QED
  BY <1>1

(* A slot whose request is open gets a verdict.                            *)
LEMMA NewVerdict ==
  ASSUME NEW x, NEW y, NEW q, NEW old, NEW since, NEW v, NEW w,
         x = [verdict |-> v, q |-> q, old |-> old, since |-> since],
         y = [x EXCEPT !.verdict = w]
  PROVE  y = [verdict |-> w, q |-> q, old |-> old, since |-> since]
OBVIOUS

(* The moments of the gate are the versions heard.                         *)
LEMMA SameMoments ==
  ASSUME NEW r \in Slots, Running(r)
  PROVE  \A k : Gate!Moments(r, k) = Heard(r, k)
<1>1. RequestOf(r).since.known = arrived[r].seen
  BY Mapping DEF Since
<1> QED
  BY <1>1 DEF Gate!Moments, Heard

(* An answer that is no error changes the verdict of the request.          *)
LEMMA Ruling ==
  ASSUME TypeOK, NEW r \in Slots, NEW f \in Calls, Running(r), call' = [call EXCEPT ![r] = f],
         UNCHANGED arrived, f.pc = "answered", f.resp # "error", f.q = call[r].q,
         f.old = call[r].old
  PROVE  Gate!Rule(r, f.resp)
<1> DEFINE G == [s \in Slots |-> RequestOf(s)]
           y == [RequestOf(r) EXCEPT !.verdict = f.resp]
<1>1. call'[r] = f /\ \A s \in Slots \ {r} : call'[s] = call[s] /\ arrived'[s] = arrived[s]
  BY DEF TypeOK
<1>2. RequestOf(r) = [verdict |-> "open", q |-> call[r].q, old |-> call[r].old, since |-> Since(r)]
  BY Mapping
<1>3. RequestOf(r)' = [verdict |-> f.resp, q |-> f.q, old |-> f.old, since |-> Since(r)]
  BY <1>1 DEF RequestOf, Since
<1>4. y = [verdict |-> f.resp, q |-> call[r].q, old |-> call[r].old, since |-> Since(r)]
  BY <1>2, NewVerdict
<1>5. RequestOf(r)' = y
  BY <1>3, <1>4
<1>6. G' = [G EXCEPT ![r] = y]
  BY <1>1, <1>5, OneMoves
<1>7. G[r] = RequestOf(r)
  OBVIOUS
<1>8. G' = [G EXCEPT ![r] = [G[r] EXCEPT !.verdict = f.resp]]
  BY <1>6, <1>7
<1> QED
  BY <1>8 DEF Gate!Rule

(* A bypass is the step Pass of the gate.                                  *)
LEMMA PassStep ==
  ASSUME TypeOK, NEW r \in Slots, NEW f \in Calls, Running(r), call' = [call EXCEPT ![r] = f],
         UNCHANGED <<hist, seen, now, workload, arrived, faults>>,
         f.pc = "answered", f.resp = "bypass", f.q = call[r].q, f.old = call[r].old,
         Passed(r, f)
  PROVE  Gate!Pass(r)
<1>1. RequestOf(r).verdict = "open" /\ RequestOf(r).q = f.q
  BY Mapping
<1>2. Gate!Rule(r, "bypass")
  BY Ruling
<1>3. \/ OperatorGroup \in RequestOf(r).q.groups \/ RequestOf(r).q.kind \notin Gate!Kind
      \/ \E n \in Gate!Moments(r, "ns") : hist.ns[n].phase = "Terminating"
  BY <1>1, SameMoments, SameRequests DEF Passed
<1> QED
  BY <1>1, <1>2, <1>3 DEF Gate!Pass, Gate!Still

(* A decision of the evaluator is the step Decided.                        *)
LEMMA DecidedStep ==
  ASSUME TypeOK, NEW r \in Slots, NEW f \in Calls, Running(r), call' = [call EXCEPT ![r] = f],
         UNCHANGED <<hist, seen, now, workload, arrived>>,
         f.pc = "answered", f.q = call[r].q, f.old = call[r].old,
         Resolved(f), NamespaceRead(r, f), ClockRead(r, f),
         NEW readable \in BOOLEAN, Concluded(r, f, readable),
         faults' = IF readable THEN faults ELSE faults + 1
  PROVE  Gate!Decided(r)
<1>1. /\ RequestOf(r).verdict = "open" /\ RequestOf(r).q = f.q /\ RequestOf(r).old = f.old
      /\ RequestOf(r).since.now = arrived[r].now
  BY Mapping DEF Since
<1>2. f.resp = (IF f.dec.allowed THEN "allow" ELSE "deny")
  BY DEF Concluded
<1>3. Gate!Rule(r, IF f.dec.allowed THEN "allow" ELSE "deny")
  BY <1>2, Ruling
<1>4. PICK n \in Gate!Moments(r, "ns") : f.nsLabels = hist.ns[n].labels
  BY SameMoments DEF NamespaceRead
<1>5. PICK i \in Gate!Moments(r, "cf"), m \in Gate!Moments(r, "mw"), e \in Gate!Moments(r, "fe") :
        f.dec \in Evaluate(In(f), hist.cf[i], hist.mw[m], IF readable THEN hist.fe[e] ELSE {})
  BY SameMoments DEF Concluded
<1>6. f.t \in RequestOf(r).since.now .. now
  BY <1>1 DEF ClockRead, Instants
<1>7. /\ f.q.kind \in Gate!Kind /\ f.kind = f.q.kind /\ f.action \in Gate!ActionsOf(f.q)
      /\ f.objLabels \in Gate!LabelsOf(f.q, f.old)
  BY SameRequests DEF Resolved
<1>8. In(f) = [now |-> f.t, nsLabels |-> hist.ns[n].labels, kind |-> f.q.kind,
               action |-> f.action, objLabels |-> f.objLabels, user |-> f.q.user,
               groups |-> f.q.groups]
  BY <1>4, <1>7 DEF In
<1>9. f.dec \in Gate!Evaluate(In(f), hist.cf[i], hist.mw[m], IF readable THEN hist.fe[e] ELSE {})
  BY <1>5, SameEvaluator
<1> QED
  BY <1>1, <1>3, <1>4, <1>5, <1>6, <1>7, <1>8, <1>9 DEF Gate!Decided, Gate!Still

(* A failure is the step Refuse.                                           *)
LEMMA RefuseStep ==
  ASSUME TypeOK, NEW r \in Slots, Running(r), call' = [call EXCEPT ![r] = Failed],
         UNCHANGED <<hist, seen, now, workload, arrived>>, faults' \in {faults, faults + 1}
  PROVE  Gate!Refuse(r)
<1>1. call'[r] = Failed /\ \A s \in Slots \ {r} : call'[s] = call[s] /\ arrived'[s] = arrived[s]
  BY DEF TypeOK
<1>2. RequestOf(r).verdict = "open"
  BY Mapping
<1>3. RequestOf(r)' = Gate!Refusal
  <2>1. Failed.pc = "answered" /\ Failed.resp = "error"
    BY DEF Failed, NoCall
  <2> QED
    BY <1>1, <2>1 DEF RequestOf, Gate!Refusal
<1>4. [s \in Slots |-> RequestOf(s)]' = [[s \in Slots |-> RequestOf(s)] EXCEPT ![r] = Gate!Refusal]
  BY <1>1, <1>3, OneMoves
<1> QED
  BY <1>2, <1>4 DEF Gate!Refuse, Gate!Still

(* The handler's steps are the gate's decisions; until then it stutters.   *)
LEMMA HandleRefines ==
  ASSUME IInv, NEW r \in Slots, Handle(r)
  PROVE  Gate!GateNext \/ UNCHANGED Gate!gateVars
<1> DEFINE c == call[r]
<1>1. PICK f \in Calls : /\ Step(r, f) /\ Progress(r, f, 0)
                         /\ Running(r) /\ Continues(c, f)
  BY HandlerSteps
<1>2. /\ call' = [call EXCEPT ![r] = f] /\ UNCHANGED <<hist, seen, now, workload, arrived, faults>>
      /\ TypeOK
  BY <1>1 DEF Step, IInv
<1>3. CASE f = Failed
  BY <1>1, <1>2, <1>3, RefuseStep DEF Gate!GateNext
<1>4. CASE f # Failed /\ f.pc # "answered"
  <2>1. f.pc # "idle" /\ f.q = c.q /\ f.old = c.old
    BY <1>1, <1>4 DEF Continues
  <2>2. call'[r] = f /\ \A s \in Slots \ {r} : call'[s] = call[s] /\ arrived'[s] = arrived[s]
    BY <1>2 DEF TypeOK
  <2>3. RequestOf(r)' = RequestOf(r)
    BY <1>1, <1>2, <1>4, <2>1, <2>2 DEF RequestOf, Running
  <2>4. \A s \in Slots : RequestOf(s)' = RequestOf(s)
    BY <2>2, <2>3, SameRequest
  <2> QED
    BY <1>2, <2>4 DEF Gate!gateVars
<1>5. CASE f # Failed /\ f.pc = "answered"
  <2>1. f.q = c.q /\ f.old = c.old
    BY <1>1, <1>5 DEF Continues
  <2>2. f.resp \in {"bypass", "allow", "deny", "error"}
    BY <1>1, <1>5 DEF Calls, Progress
  <2>3. CASE f.resp = "bypass"
    BY <1>1, <1>2, <1>5, <2>1, <2>3, PassStep DEF Progress, Gate!GateNext
  <2>4. CASE f.resp \in {"allow", "deny"}
    <3>1. /\ Resolved(f) /\ NamespaceRead(r, f) /\ ClockRead(r, f)
          /\ \E readable \in BOOLEAN : readable /\ Concluded(r, f, readable)
      BY <1>1, <2>4 DEF Progress, Judged
    <3>2. Gate!Decided(r)
      BY <1>1, <1>2, <1>5, <2>1, <3>1, DecidedStep
    <3> QED
      BY <3>2 DEF Gate!GateNext
  <2>5. CASE f.resp = "error"
    <3>1. call'[r] = f /\ \A s \in Slots \ {r} : call'[s] = call[s] /\ arrived'[s] = arrived[s]
      BY <1>2 DEF TypeOK
    <3>2. RequestOf(r).verdict = "open"
      BY <1>1, Mapping
    <3>3. RequestOf(r)' = Gate!Refusal
      BY <1>5, <2>5, <3>1 DEF RequestOf, Gate!Refusal
    <3>4. [s \in Slots |-> RequestOf(s)]'
            = [[s \in Slots |-> RequestOf(s)] EXCEPT ![r] = Gate!Refusal]
      BY <3>1, <3>3, OneMoves
    <3> QED
      BY <1>2, <3>2, <3>4 DEF Gate!GateNext, Gate!Refuse, Gate!Still
  <2> QED
    BY <2>2, <2>3, <2>4, <2>5
<1> QED
  BY <1>3, <1>4, <1>5

(* A decision without the exceptions.                                      *)
LEMMA ExceptionsUnreadableRefines ==
  ASSUME IInv, NEW r \in Slots, ExceptionsUnreadable(r)
  PROVE  Gate!GateNext
<1> DEFINE f == Conclude(call[r], NoRef)
           readable == FALSE
<1>1. /\ call[r].pc = "exceptions" /\ call' = [call EXCEPT ![r] = f] /\ faults' = faults + 1
      /\ UNCHANGED <<hist, seen, now, workload, arrived>> /\ TypeOK
  BY DEF ExceptionsUnreadable, Fault, IInv
<1>2. NoRef \in Overrides(In(call[r]), IF readable THEN Cached("fe") ELSE {})
  BY DEF Overrides
<1>3. readable \in BOOLEAN /\ faults' = (IF readable THEN faults ELSE faults + 1)
  BY <1>1
<1>4. faults' = 0 => readable
  BY <1>1 DEF IInv, TypeOK
<1> HIDE DEF readable
<1>5. /\ f \in Calls /\ Progress(r, f, faults') /\ Running(r)
      /\ f.pc = "answered" /\ f.q = call[r].q /\ f.old = call[r].old
      /\ Concluded(r, f, readable)
  BY <1>1, <1>2, <1>3, <1>4, ConcludingStep
<1> HIDE DEF f
<1>6. Resolved(f) /\ NamespaceRead(r, f) /\ ClockRead(r, f)
  <2>1. f.resp \in {"allow", "deny"}
    BY <1>5 DEF Concluded
  <2> QED
    BY <1>5, <2>1 DEF Progress
<1>7. Gate!Decided(r)
  BY <1>1, <1>3, <1>5, <1>6, DecidedStep
<1> QED
  BY <1>7 DEF Gate!GateNext

(* A failing read.                                                         *)
LEMMA FailRefines ==
  ASSUME IInv, NEW r \in Slots, Fail(r)
  PROVE  Gate!GateNext
<1>1. Gate!Refuse(r)
  BY RefuseStep DEF Fail, Fault, IInv
<1> QED
  BY <1>1 DEF Gate!GateNext

(* A request comes in.                                                     *)
LEMMA ReceiveRefines ==
  ASSUME IInv, NEW r \in Slots, NEW q \in Request, Receive(r, q)
  PROVE  Gate!GateNext
<1> DEFINE f == [NoCall EXCEPT !.pc = "resolve", !.q = q, !.old = workload]
           a == [now |-> now, seen |-> seen, stored |-> Latest]
           G == [s \in Slots |-> RequestOf(s)]
<1>1. /\ call' = [call EXCEPT ![r] = f] /\ arrived' = [arrived EXCEPT ![r] = a]
      /\ UNCHANGED <<hist, seen, now, workload, faults>> /\ call[r].pc = "idle" /\ TypeOK
  BY DEF Receive, IInv
<1>2. /\ f.pc = "resolve" /\ f.q = q /\ f.old = workload
      /\ a.now = now /\ a.seen = seen
  BY DEF NoCall
<1> HIDE DEF f, a, G
<1>3. /\ call'[r] = f /\ arrived'[r] = a
      /\ \A s \in Slots \ {r} : call'[s] = call[s] /\ arrived'[s] = arrived[s]
  BY <1>1 DEF TypeOK
<1>4. RequestOf(r)' = Gate!Open(q, workload)
  BY <1>1, <1>2, <1>3 DEF RequestOf, Gate!Open
<1>5. G' = [G EXCEPT ![r] = Gate!Open(q, workload)]
  BY <1>3, <1>4, OneMoves DEF G
<1>6. G'[r].verdict = "open" /\ G'[r].q = q
  BY <1>4 DEF Gate!Open, G
<1>7. G[r] = Gate!NoRequest
  BY <1>1, Mapping DEF Gate!NoRequest, G
<1>8. /\ G[r] = Gate!NoRequest /\ G'[r].verdict = "open" /\ G'[r].q \in Gate!Request
      /\ G' = [G EXCEPT ![r] = Gate!Open(G'[r].q, workload)]
  <2>1. G'[r].q \in Gate!Request
    BY <1>6, SameRequests
  <2>2. Gate!Open(G'[r].q, workload) = Gate!Open(q, workload)
    BY <1>6
  <2> QED
    BY <1>5, <1>6, <1>7, <2>1, <2>2
<1>9. Gate!Arrive(r)
  BY <1>1, <1>8 DEF Gate!Arrive, Gate!Still, G
<1> QED
  BY <1>9 DEF Gate!GateNext

(* Only what was let through is done.                                      *)
LEMMA CompleteRefines ==
  ASSUME IInv, NEW r \in Slots, Complete(r)
  PROVE  Gate!GateNext
<1> DEFINE c == call[r]
<1>1. /\ call' = [call EXCEPT ![r] = NoCall] /\ arrived' = [arrived EXCEPT ![r] = NoArrival]
      /\ UNCHANGED <<hist, seen, now, faults>> /\ c.pc = "answered" /\ TypeOK
      /\ \/ workload' = workload
         \/ c.resp \in {"bypass", "allow"} /\ workload' = Stores(c.q, c.old)
  BY DEF Complete, IInv
<1>2. c.resp \in {"bypass", "allow", "deny", "error"}
  BY <1>1, CallParts DEF Calls, Progress
<1>3. /\ RequestOf(r).verdict = c.resp
      /\ c.resp # "error" => RequestOf(r).q = c.q /\ RequestOf(r).old = c.old
  BY <1>1, Mapping
<1>4. /\ call'[r] = NoCall
      /\ \A s \in Slots \ {r} : call'[s] = call[s] /\ arrived'[s] = arrived[s]
  BY <1>1 DEF TypeOK
<1>5. RequestOf(r)' = Gate!NoRequest
  BY <1>4 DEF RequestOf, NoCall, Gate!NoRequest
<1>6. [s \in Slots |-> RequestOf(s)]' = [[s \in Slots |-> RequestOf(s)] EXCEPT ![r] = Gate!NoRequest]
  BY <1>4, <1>5, OneMoves
<1>7. \/ workload' = workload
      \/ /\ RequestOf(r).verdict \in {"allow", "bypass"}
         /\ workload' = Gate!Stores(RequestOf(r).q, RequestOf(r).old)
  BY <1>1, <1>3, SameRequests
<1>8. Gate!Close(r)
  BY <1>1, <1>2, <1>3, <1>6, <1>7 DEF Gate!Close, Gate!Still
<1> QED
  BY <1>8 DEF Gate!GateNext

(* A restart refuses what is open.                                         *)
LEMMA RestartRefines ==
  ASSUME IInv, Restart
  PROVE  Gate!GateNext
<1> DEFINE G == [s \in Slots |-> RequestOf(s)]
<1>1. /\ call' = [r \in Slots |-> IF Running(r) THEN Failed ELSE call[r]]
      /\ seen' = Latest /\ UNCHANGED <<hist, now, workload, arrived>> /\ faults' = faults + 1
  BY DEF Restart, Fault
<1>2. ASSUME NEW r \in Slots
      PROVE  RequestOf(r)' = IF RequestOf(r).verdict = "open" THEN Gate!Refusal ELSE RequestOf(r)
  <2>1. CASE Running(r)
    <3>1. RequestOf(r).verdict = "open" /\ call'[r] = Failed
      BY <1>1, <2>1, Mapping
    <3>2. RequestOf(r)' = Gate!Refusal
      BY <3>1 DEF RequestOf, Failed, NoCall, Gate!Refusal
    <3> QED
      BY <3>1, <3>2
  <2>2. CASE ~Running(r)
    <3>1. call'[r] = call[r] /\ arrived'[r] = arrived[r]
      BY <1>1, <2>2
    <3>2. call[r].resp # "open"
      BY CallParts DEF Calls
    <3>3. RequestOf(r).verdict # "open"
      BY <2>2, <3>2, Mapping DEF Running
    <3> QED
      BY <3>1, <3>3, SameRequest
  <2> QED
    BY <2>1, <2>2
<1>3. G' = [r \in Slots |-> IF G[r].verdict = "open" THEN Gate!Refusal ELSE G[r]]
  BY <1>2
<1>4. seen' = [k \in Gate!Kinds |-> Len(hist[k])]
  <2>1. Gate!Kinds = Resource
    BY DEF Gate!Kinds, Resource, PolicyResource
  <2> QED
    BY <1>1, <2>1 DEF Latest
<1>5. Gate!Crash
  BY <1>1, <1>3, <1>4 DEF Gate!Crash
<1> QED
  BY <1>5 DEF Gate!GateNext

(* Whatever the environment does, the world of the gate moves on.          *)
LEMMA EnvironmentRefines ==
  ASSUME IInv, Environment
  PROVE  Gate!GateNext
<1>1. /\ TypeOK /\ TypeOK' /\ Grown /\ UNCHANGED <<workload, call, arrived, faults>>
      /\ now' \in {now, now + 1}
  BY EnvironmentGrows DEF IInv
<1>2. \A k \in Resource : SubSeq(hist'[k], 1, Len(hist[k])) = hist[k]
  <2>1. ASSUME NEW S, NEW p \in Seq(S), NEW q \in Seq(S), Len(p) <= Len(q),
               \A i \in 1..Len(p) : q[i] = p[i]
        PROVE  SubSeq(q, 1, Len(p)) = p
    BY <2>1
  <2>2. \A k \in Resource : hist[k] \in Seq(VersionType[k])
    BY <1>1, HistoryType DEF TypeOK
  <2>3. \A k \in Resource : hist'[k] \in Seq(VersionType[k])
    BY <1>1, HistoryType DEF TypeOK
  <2> QED
    BY <1>1, <2>1, <2>2, <2>3 DEF Grown
<1>3. \A k \in Resource : seen[k] <= seen'[k] /\ seen'[k] <= Len(hist'[k])
  BY <1>1 DEF Grown, TypeOK
<1>4. [r \in Slots |-> RequestOf(r)]' = [r \in Slots |-> RequestOf(r)]
  <2>1. \A r \in Slots : RequestOf(r)' = RequestOf(r)
    BY <1>1, SameRequest
  <2> QED
    BY <2>1
<1>5. Gate!Kinds = Resource
  BY DEF Gate!Kinds, Resource, PolicyResource
<1>6. Gate!World
  BY <1>1, <1>2, <1>3, <1>4, <1>5 DEF Gate!World
<1> QED
  BY <1>6 DEF Gate!GateNext

(* The initial states map to initial states.                               *)
LEMMA InitRefines == Init => Gate!GateInit
<1> SUFFICES ASSUME Init PROVE Gate!GateInit
  OBVIOUS
<1>1. \A k \in Gate!Kinds : seen[k] = Len(hist[k])
  BY DEF Init, Latest, Gate!Kinds, Resource, PolicyResource
<1>2. [r \in Slots |-> RequestOf(r)] = [r \in Slots |-> Gate!NoRequest]
  BY DEF Init, RequestOf, NoCall, Gate!NoRequest
<1>3. workload = Gate!NoWorkload
  BY SameRequests DEF Init
<1> QED
  BY <1>1, <1>2, <1>3 DEF Init, Gate!GateInit

(* Every step maps to a step of the gate or to a stutter.                  *)
LEMMA StepRefines == IInv /\ [Next]_vars => [Gate!GateNext]_(Gate!gateVars)
<1> SUFFICES ASSUME IInv, [Next]_vars PROVE Gate!GateNext \/ UNCHANGED Gate!gateVars
  OBVIOUS
<1>1. CASE Environment
  BY <1>1, EnvironmentRefines
<1>2. CASE \E r \in Users : UserRequest(r)
  BY <1>2, ReceiveRefines, RequestAssumption DEF UserRequest, Slots
<1>3. CASE DrainRequest
  BY <1>3, DrainReceives, ReceiveRefines DEF IInv
<1>4. CASE \E r \in Slots : Handle(r) \/ Complete(r) \/ ExceptionsUnreadable(r) \/ Fail(r)
  BY <1>4, HandleRefines, CompleteRefines, ExceptionsUnreadableRefines, FailRefines
<1>5. CASE Restart
  BY <1>5, RestartRefines
<1>6. CASE UNCHANGED vars
  <2>1. \A r \in Slots : RequestOf(r)' = RequestOf(r)
    BY <1>6, SameRequest DEF vars
  <2> QED
    BY <1>6, <2>1 DEF vars, Gate!gateVars
<1> QED
  BY <1>1, <1>2, <1>3, <1>4, <1>5, <1>6 DEF Next, Environment

(* The handler, with all its reads at different moments, implements the    *)
(* gate that decides at once: there is for each answer one choice of       *)
(* versions and of an instant, all of the time of the request, on which    *)
(* the evaluator gives it.                                                 *)
THEOREM Handler_Implements_Gate == Spec => ImplementsGate
<1>1. Init => Gate!GateInit
  BY InitRefines
<1>2. IInv /\ [Next]_vars => [Gate!GateNext]_(Gate!gateVars)
  BY StepRefines
<1> QED
  BY <1>1, <1>2, Invariance, PTL DEF Spec, ImplementsGate, Gate!GateSpec
=============================================================================
