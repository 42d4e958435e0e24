----------------------------- MODULE CIApi_proofs -----------------------------
(***************************************************************************)
(* What the CI helper API and kfo tell a pipeline, for any policies,       *)
(* requests, number of pipelines and length of the run: an invariant that  *)
(* remembers where each answer came from, beside the one of the webhook,   *)
(* and the safety properties of the advice as its consequences.            *)
(***************************************************************************)
EXTENDS CIApi, Admission_proofs

-----------------------------------------------------------------------------
(* The inductive invariant *)

(* The versions of k the API server stored, and the instants, since the    *)
(* question was put.                                                       *)
AskedVersions(a, k) == a.since.stored[k] .. Len(hist[k])
AskedInstants(a) == a.since.now .. now

AskedOK(a) ==
  /\ a.since.now \in 1..now
  /\ \A k \in Resource : a.since.stored[k] \in 1..Len(hist[k]) /\ a.since.seen[k] \in 1..seen[k]

(* The pipeline asks about what it means to do.                            *)
QuestionOK(a) == a.q \in RequestPool /\ a.action \in Action /\ Performs(a.q, a.action)

(* Each live read is of a version, or an instant, since the question.      *)
AskClockRead(a) == a.q.kind \in Kind /\ a.t \in AskedInstants(a)
AskNamespaceRead(a) == \E n \in AskedVersions(a, "ns") : a.nsLabels = hist.ns[n].labels
AskFreezesRead(a) ==
  \E i \in AskedVersions(a, "cf") : a.denies = CollectChangeFreezes(AskIn(a), hist.cf[i])
AskWindowsRead(a) ==
  /\ a.denies # {}
  /\ \E i \in AskedVersions(a, "cf"), m \in AskedVersions(a, "mw") :
       a.denies = CollectDenyCandidates(AskIn(a), hist.cf[i], hist.mw[m])
AskConcluded(a, readable) ==
  /\ a.exit = IF a.dec.allowed THEN 0 ELSE 1
  /\ \E i \in AskedVersions(a, "cf"), m \in AskedVersions(a, "mw"),
        e \in AskedVersions(a, "fe") :
       a.dec \in Evaluate(AskIn(a), hist.cf[i], hist.mw[m], IF readable THEN hist.fe[e] ELSE {})
AskJudged(a, flt) == \E readable \in BOOLEAN : (flt = 0 => readable) /\ AskConcluded(a, readable)

AskProgress(a, flt) ==
  /\ a.pc # "idle" => QuestionOK(a)
  /\ a.pc \notin {"told", "sent"} => a.dec = AllowAll
  /\ a.pc \in {"namespace", "freezes", "windows", "exceptions"} => AskClockRead(a)
  /\ a.pc \in {"freezes", "windows", "exceptions"} => AskNamespaceRead(a)
  /\ a.pc = "windows" => AskFreezesRead(a)
  /\ a.pc = "exceptions" => AskWindowsRead(a)
  /\ a.pc \in {"told", "sent"} /\ a.exit # 2 =>
        AskClockRead(a) /\ AskNamespaceRead(a) /\ AskJudged(a, flt)

AskOK(a) == AskedOK(a) /\ AskProgress(a, faults)

(* What was asked about is what the webhook is handling, and it came later.*)
Linked(r) ==
  ask[r].pc = "sent" =>
    /\ call[r].pc # "idle"
    /\ call[r].resp # "error" => call[r].q = ask[r].q
    /\ ask[r].since.now <= arrived[r].now
    /\ \A k \in Resource : ask[r].since.seen[k] <= arrived[r].seen[k]

CIInv == IInv /\ CITypeOK /\ \A r \in Users : AskOK(ask[r]) /\ Linked(r)

-----------------------------------------------------------------------------
(* What an answer rests on stays true of it *)

(* A question as it is now is one as it was then, when it has not changed. *)
LEMMA SameAsk ==
  ASSUME NEW r \in Users, NEW a, ask'[r] = a
  PROVE  AskOK(ask[r])' <=> AskOK(a)'
<1>1. (ask[r])' = a
  OBVIOUS
<1>2. AskedOK(ask[r])' <=> AskedOK(a)'
  BY <1>1 DEF AskedOK
<1>3. AskIn(ask[r])' = AskIn(a)'
  BY <1>1 DEF AskIn
<1>4. QuestionOK(ask[r])' <=> QuestionOK(a)'
  BY <1>1 DEF QuestionOK
<1>5. AskClockRead(ask[r])' <=> AskClockRead(a)'
  BY <1>1 DEF AskClockRead, AskedInstants
<1>6. AskNamespaceRead(ask[r])' <=> AskNamespaceRead(a)'
  BY <1>1 DEF AskNamespaceRead, AskedVersions
<1>7. AskFreezesRead(ask[r])' <=> AskFreezesRead(a)'
  BY <1>1, <1>3 DEF AskFreezesRead, AskedVersions
<1>8. AskWindowsRead(ask[r])' <=> AskWindowsRead(a)'
  BY <1>1, <1>3 DEF AskWindowsRead, AskedVersions
<1>9. AskJudged(ask[r], faults)' <=> AskJudged(a, faults)'
  BY <1>1, <1>3 DEF AskJudged, AskConcluded, AskedVersions
<1>10. AskProgress(ask[r], faults)' <=> AskProgress(a, faults)'
  BY <1>1, <1>4, <1>5, <1>6, <1>7, <1>8, <1>9 DEF AskProgress
<1> QED
  BY <1>2, <1>10 DEF AskOK

(* Versions are added, the clock moves on: what was read since the         *)
(* question still was.                                                     *)
LEMMA AskKept ==
  ASSUME TypeOK, TypeOK', Grown, NEW a, AskOK(a)
  PROVE  AskOK(a)'
<1>1. /\ now \in Nat /\ now' \in Nat /\ faults \in Nat /\ faults' \in Nat
      /\ \A k \in Resource : seen[k] \in Nat /\ seen'[k] \in Nat
                             /\ Len(hist[k]) \in Nat /\ Len(hist'[k]) \in Nat
  <2>1. \A k \in Resource : seen[k] \in Nat /\ Len(hist[k]) \in Nat
    BY StoredVersions
  <2>2. \A k \in Resource : seen'[k] \in Nat /\ Len(hist'[k]) \in Nat
    <3>1. ASSUME NEW k \in Resource PROVE hist'[k] \in Seq(VersionType[k])
      <4>1. hist' = [l \in Resource |-> hist'[l]]
            /\ \A l \in Resource : hist'[l] \in Seq(VersionType[l])
        BY HistoryType DEF TypeOK
      <4> QED
        BY <4>1
    <3> QED
      BY <3>1 DEF TypeOK
  <2> QED
    BY <2>1, <2>2 DEF TypeOK
<1>2. AskedOK(a)'
  <2>1. a.since.now \in 1..now'
    BY <1>1 DEF AskOK, AskedOK, Grown
  <2>2. ASSUME NEW k \in Resource
        PROVE  a.since.stored[k] \in 1..Len(hist'[k]) /\ a.since.seen[k] \in 1..seen'[k]
    <3>1. a.since.stored[k] \in 1..Len(hist[k]) /\ a.since.seen[k] \in 1..seen[k]
      BY DEF AskOK, AskedOK
    <3>2. seen[k] <= seen'[k] /\ Len(hist[k]) <= Len(hist'[k])
      BY DEF Grown
    <3> QED
      BY <1>1, <3>1, <3>2
  <2> QED
    BY <2>1, <2>2 DEF AskedOK
<1>3. AskedInstants(a) \subseteq AskedInstants(a)'
  BY <1>1 DEF AskOK, AskedOK, Grown, AskedInstants
<1>4. \A k \in Resource : \A i \in AskedVersions(a, k) :
        i \in AskedVersions(a, k)' /\ hist'[k][i] = hist[k][i]
  BY <1>1 DEF AskOK, AskedOK, Grown, AskedVersions
<1>5. Resource = {"cf", "mw", "fe", "ns"}
  BY DEF Resource, PolicyResource
<1>6. AskProgress(a, faults)
  BY DEF AskOK
<1>7. QuestionOK(a)' <=> QuestionOK(a)
  BY DEF QuestionOK
<1>8. AskIn(a)' = AskIn(a)
  BY DEF AskIn
<1>9. AskClockRead(a) => AskClockRead(a)'
  BY <1>3 DEF AskClockRead
<1>10. AskNamespaceRead(a) => AskNamespaceRead(a)'
  BY <1>4, <1>5 DEF AskNamespaceRead
<1>11. AskFreezesRead(a) => AskFreezesRead(a)'
  BY <1>4, <1>5, <1>8 DEF AskFreezesRead
<1>12. AskWindowsRead(a) => AskWindowsRead(a)'
  BY <1>4, <1>5, <1>8 DEF AskWindowsRead
<1>13. AskJudged(a, faults) => AskJudged(a, faults)'
  <2> SUFFICES ASSUME AskJudged(a, faults) PROVE AskJudged(a, faults)'
    OBVIOUS
  <2>1. PICK i \in AskedVersions(a, "cf"), m \in AskedVersions(a, "mw"),
             e \in AskedVersions(a, "fe"), readable \in BOOLEAN :
          /\ faults = 0 => readable
          /\ a.exit = IF a.dec.allowed THEN 0 ELSE 1
          /\ a.dec \in Evaluate(AskIn(a), hist.cf[i], hist.mw[m],
                                IF readable THEN hist.fe[e] ELSE {})
    BY DEF AskJudged, AskConcluded
  <2>2. /\ i \in AskedVersions(a, "cf")' /\ m \in AskedVersions(a, "mw")'
        /\ e \in AskedVersions(a, "fe")'
        /\ hist'.cf[i] = hist.cf[i] /\ hist'.mw[m] = hist.mw[m] /\ hist'.fe[e] = hist.fe[e]
    BY <1>4, <1>5
  <2>3. faults' = 0 => readable
    BY <1>1, <2>1 DEF Grown
  <2> QED
    BY <1>8, <2>1, <2>2, <2>3 DEF AskJudged, AskConcluded
<1>14. AskProgress(a, faults)'
  BY <1>6, <1>7, <1>9, <1>10, <1>11, <1>12, <1>13 DEF AskProgress
<1> QED
  BY <1>2, <1>14 DEF AskOK

(* The request behind an answer stays the one that was asked about.        *)
LEMMA LinkKept ==
  ASSUME NEW r \in Users, Linked(r), ask'[r] = ask[r], arrived'[r] = arrived[r],
         call[r].pc # "idle" =>
           /\ call'[r].pc # "idle"
           /\ call'[r].resp # "error" => call[r].resp # "error" /\ call'[r].q = call[r].q
  PROVE  Linked(r)'
BY DEF Linked

-----------------------------------------------------------------------------
(* The answer is put together *)

(* A slot where nothing is asked.                                          *)
LEMMA NoAskType == NoAsk \in Asks /\ \A flt : AskProgress(NoAsk, flt)
<1>1. Drain \in Request /\ AllowAll \in Decision
  BY RequestAssumption DEF Drain, Request, AllowAll, Decision, MaybeTime
<1>2. NoArrival \in [now : Nat, seen : [Resource -> Nat], stored : [Resource -> Nat]]
  BY DEF NoArrival, Start
<1>3. NoAsk \in Asks
  BY <1>1, <1>2 DEF NoAsk, Asks, Via
<1>4. NoAsk.pc = "idle" /\ NoAsk.dec = AllowAll
  BY DEF NoAsk
<1> QED
  BY <1>3, <1>4 DEF AskProgress

(* What is known of a question, and of what it may read next.              *)
LEMMA AskParts ==
  ASSUME CIInv, NEW r \in Users
  PROVE  LET a == ask[r]
         IN  /\ a \in Asks /\ AskedOK(a) /\ AskProgress(a, faults)
             /\ \A k \in Resource : /\ Len(hist[k]) \in AskedVersions(a, k)
                                    /\ AskedVersions(a, k) \subseteq 1..Len(hist[k])
             /\ now \in AskedInstants(a) /\ AskedInstants(a) \subseteq Nat
<1>1. ask[r] \in Asks /\ AskedOK(ask[r]) /\ AskProgress(ask[r], faults) /\ TypeOK
  BY DEF CIInv, CITypeOK, AskOK
<1>2. \A k \in Resource : Len(hist[k]) \in Nat
  BY <1>1, StoredVersions
<1>3. now \in Nat
  BY <1>1 DEF TypeOK
<1>4. /\ now \in AskedInstants(ask[r]) /\ AskedInstants(ask[r]) \subseteq Nat
  BY <1>1, <1>3 DEF AskedOK, AskedInstants
<1>5. \A k \in Resource : /\ Len(hist[k]) \in AskedVersions(ask[r], k)
                          /\ AskedVersions(ask[r], k) \subseteq 1..Len(hist[k])
  BY <1>1, <1>2 DEF AskedOK, AskedVersions
<1> QED
  BY <1>1, <1>4, <1>5

(* The exit code is all that changes when the answer is told.              *)
LEMMA Telling ==
  ASSUME NEW a \in Asks, NEW x \in 0..2
  PROVE  LET f == Tell(a, x)
         IN  /\ f \in Asks /\ f.pc = "told" /\ f.exit = x
             /\ f.since = a.since /\ f.q = a.q /\ f.action = a.action /\ f.t = a.t
             /\ f.nsLabels = a.nsLabels /\ f.dec = a.dec
<1> DEFINE f == Tell(a, x)
<1>1. f = [a EXCEPT !.pc = "told", !.exit = x]
  BY DEF Tell
<1> HIDE DEF f
<1>2. f \in Asks
  BY <1>1 DEF Asks
<1>3. /\ f.pc = "told" /\ f.exit = x
      /\ f.since = a.since /\ f.q = a.q /\ f.action = a.action /\ f.t = a.t
      /\ f.nsLabels = a.nsLabels /\ f.dec = a.dec
  BY <1>1 DEF Asks
<1> QED
  BY <1>2, <1>3 DEF f

(* An error says nothing of the policies.                                  *)
LEMMA ToldOfError ==
  ASSUME NEW a \in Asks, a.pc # "idle", QuestionOK(a)
  PROVE  LET f == Tell(a, 2)
         IN  f \in Asks /\ f.since = a.since /\ f.pc = "told" /\ \A flt : AskProgress(f, flt)
<1> DEFINE f == Tell(a, 2)
<1>1. /\ f \in Asks /\ f.since = a.since /\ f.pc = "told" /\ f.exit = 2
      /\ f.q = a.q /\ f.action = a.action
  BY Telling
<1> HIDE DEF f
<1>2. \A flt : AskProgress(f, flt)
  BY <1>1 DEF AskProgress, QuestionOK
<1> QED
  BY <1>1, <1>2 DEF f

(* Review, parse and read the namespace.                                   *)
LEMMA AskResolvingSteps ==
  ASSUME CIInv, NEW r \in Users, Review(r) \/ Parse(r) \/ AskNamespace(r)
  PROVE  \E f \in Asks : /\ AskStep(r, f) /\ f.since = ask[r].since
                         /\ f.pc \notin {"idle", "sent"} /\ AskProgress(f, faults)
<1> DEFINE a == ask[r]
<1>1. /\ a \in Asks /\ AskProgress(a, faults) /\ a.pc \in {"review", "parse", "namespace"}
      /\ QuestionOK(a) /\ a.dec = AllowAll
  BY AskParts DEF AskProgress, Review, Parse, AskNamespace
<1>2. CASE AskStep(r, Tell(a, 2))
  BY <1>1, <1>2, ToldOfError
<1>3. CASE a.pc = "review" /\ AskStep(r, [a EXCEPT !.pc = "parse"])
  <2> DEFINE f == [a EXCEPT !.pc = "parse"]
  <2>1. /\ f \in Asks /\ f.since = a.since /\ f.pc = "parse" /\ f.q = a.q
        /\ f.action = a.action /\ f.dec = AllowAll /\ AskStep(r, f)
    BY <1>1, <1>3 DEF Asks
  <2> HIDE DEF f
  <2> QED
    BY <1>1, <2>1 DEF AskProgress, QuestionOK
<1>4. CASE Parse(r) /\ a.q.kind \in Kind
  <2> DEFINE f == [a EXCEPT !.pc = "namespace", !.t = now]
  <2>1. now \in Time /\ now \in AskedInstants(a)
    BY AskParts, BoundAssumption DEF CIInv, IInv, TypeOK
  <2>2. /\ f \in Asks /\ f.since = a.since /\ f.pc = "namespace" /\ f.q = a.q
        /\ f.action = a.action /\ f.dec = AllowAll /\ f.t = now /\ AskStep(r, f)
    BY <1>1, <1>4, <2>1 DEF Asks, Parse
  <2> HIDE DEF f
  <2>3. AskClockRead(f)
    BY <1>4, <2>1, <2>2 DEF AskClockRead, AskedInstants
  <2> QED
    BY <1>1, <2>2, <2>3 DEF AskProgress, QuestionOK
<1>5. CASE /\ a.pc = "namespace"
           /\ AskStep(r, [a EXCEPT !.pc = "freezes", !.nsLabels = Stored("ns").labels])
  <2> DEFINE f == [a EXCEPT !.pc = "freezes", !.nsLabels = Stored("ns").labels]
  <2>1. /\ Stored("ns").labels \in SUBSET Label
        /\ "ns" \in Resource
    <3>1. Stored("ns") \in Namespace \cup {NoNamespace} /\ "ns" \in Resource
      BY StoredVersions DEF VersionType, Resource, PolicyResource, CIInv, IInv
    <3> QED
      BY <3>1 DEF Namespace, NoNamespace
  <2>2. /\ f \in Asks /\ f.since = a.since /\ f.pc = "freezes" /\ f.q = a.q /\ f.t = a.t
        /\ f.action = a.action /\ f.dec = AllowAll /\ f.nsLabels = Stored("ns").labels
        /\ AskStep(r, f)
    BY <1>1, <1>5, <2>1 DEF Asks
  <2> HIDE DEF f
  <2>3. AskClockRead(f)
    BY <1>1, <1>5, <2>2 DEF AskProgress, AskClockRead, AskedInstants
  <2>4. AskNamespaceRead(f)
    <3>1. Len(hist["ns"]) \in AskedVersions(f, "ns")
      BY <2>1, <2>2, AskParts DEF AskedVersions
    <3> QED
      BY <2>2, <3>1 DEF AskNamespaceRead, Stored
  <2> QED
    BY <1>1, <2>2, <2>3, <2>4 DEF AskProgress, QuestionOK
<1> QED
  BY <1>2, <1>3, <1>4, <1>5 DEF Review, Parse, AskNamespace

(* The policies are listed.                                                *)
LEMMA AskListingSteps ==
  ASSUME CIInv, NEW r \in Users, AskFreezes(r) \/ AskWindows(r)
  PROVE  \E f \in Asks : /\ AskStep(r, f) /\ f.since = ask[r].since
                         /\ f.pc \notin {"idle", "sent"} /\ AskProgress(f, faults)
<1> DEFINE a == ask[r]
<1>1. /\ a \in Asks /\ AskProgress(a, faults) /\ a.pc \in {"freezes", "windows"}
      /\ QuestionOK(a) /\ a.dec = AllowAll /\ AskClockRead(a) /\ AskNamespaceRead(a)
      /\ a.pc = "windows" => AskFreezesRead(a)
  BY AskParts DEF AskProgress, AskFreezes, AskWindows
<1>2. TypeOK /\ AskIn(a).now = a.t /\ AskIn(a).now \in Nat
  <2>1. AskedInstants(a) \subseteq Nat
    BY AskParts
  <2> QED
    BY <1>1, <2>1 DEF CIInv, IInv, AskIn, AskClockRead
<1>3. /\ Len(hist["cf"]) \in AskedVersions(a, "cf") /\ Stored("cf") = hist.cf[Len(hist.cf)]
      /\ Len(hist["mw"]) \in AskedVersions(a, "mw") /\ Stored("mw") = hist.mw[Len(hist.mw)]
      /\ Len(hist["fe"]) \in AskedVersions(a, "fe")
      /\ AskedVersions(a, "cf") \subseteq 1..Len(hist["cf"])
      /\ AskedVersions(a, "mw") \subseteq 1..Len(hist["mw"])
  BY AskParts DEF Stored, Resource, PolicyResource
<1>4. CASE AskFreezes(r)
  <2> DEFINE denies == CollectChangeFreezes(AskIn(a), Stored("cf"))
             f == [a EXCEPT !.pc = "windows", !.denies = denies]
  <2>1. denies \in SUBSET DenyCandidate
    BY <1>2, <1>3, CollectedType
  <2>2. /\ f \in Asks /\ f.since = a.since /\ f.pc = "windows" /\ f.q = a.q /\ f.t = a.t
        /\ f.action = a.action /\ f.dec = AllowAll /\ f.nsLabels = a.nsLabels
        /\ f.denies = denies
    BY <1>1, <2>1 DEF Asks
  <2>3. AskStep(r, f)
    BY <1>4 DEF AskFreezes
  <2> HIDE DEF f
  <2>4. AskIn(f) = AskIn(a)
    BY <2>2 DEF AskIn
  <2>5. AskClockRead(f) /\ AskNamespaceRead(f) /\ AskFreezesRead(f)
    BY <1>1, <1>3, <2>2, <2>4
       DEF AskClockRead, AskNamespaceRead, AskFreezesRead, AskedVersions, AskedInstants
  <2> QED
    BY <1>1, <2>2, <2>3, <2>5 DEF AskProgress, QuestionOK
<1>5. CASE AskWindows(r)
  <2> DEFINE denies == a.denies \cup CollectMaintenanceWindows(AskIn(a), Stored("mw"))
             m == Len(hist["mw"])
  <2>1. PICK i \in AskedVersions(a, "cf") : a.denies = CollectChangeFreezes(AskIn(a), hist.cf[i])
    BY <1>1, <1>5 DEF AskWindows, AskFreezesRead
  <2>2. denies = CollectDenyCandidates(AskIn(a), hist.cf[i], hist.mw[m])
    BY <1>3, <2>1 DEF CollectDenyCandidates
  <2>3. denies \in SUBSET DenyCandidate
    BY <1>2, <1>3, <2>1, <2>2, CollectedType
  <2>4. CASE denies = {}
    <3> DEFINE f == Tell(a, 0)
    <3>1. AskStep(r, f)
      BY <1>5, <2>4 DEF AskWindows
    <3>2. /\ f \in Asks /\ f.since = a.since /\ f.pc = "told" /\ f.exit = 0
          /\ f.q = a.q /\ f.action = a.action /\ f.t = a.t /\ f.nsLabels = a.nsLabels
          /\ f.dec = a.dec
      BY <1>1, Telling
    <3>3. f.dec = AllowAll
      BY <1>1, <3>2
    <3> HIDE DEF f
    <3>4. AskIn(f) = AskIn(a)
      BY <3>2 DEF AskIn
    <3>5. AskClockRead(f) /\ AskNamespaceRead(f)
      BY <1>1, <3>2 DEF AskClockRead, AskNamespaceRead, AskedVersions, AskedInstants
    <3>6. f.dec \in Evaluate(AskIn(f), hist.cf[i], hist.mw[m], hist.fe[Len(hist["fe"])])
      BY <2>2, <2>4, <3>3, <3>4 DEF Evaluate
    <3>7. AskJudged(f, faults)
      <4>1. f.exit = IF f.dec.allowed THEN 0 ELSE 1
        BY <3>2, <3>3 DEF AllowAll
      <4>2. /\ i \in AskedVersions(f, "cf") /\ m \in AskedVersions(f, "mw")
            /\ Len(hist["fe"]) \in AskedVersions(f, "fe")
        BY <1>3, <3>2 DEF AskedVersions
      <4>3. AskConcluded(f, TRUE)
        BY <3>6, <4>1, <4>2 DEF AskConcluded
      <4> QED
        BY <4>3 DEF AskJudged
    <3> QED
      BY <1>1, <3>1, <3>2, <3>5, <3>7 DEF AskProgress, QuestionOK
  <2>5. CASE denies # {}
    <3> DEFINE f == [a EXCEPT !.pc = "exceptions", !.denies = denies]
    <3>1. AskStep(r, f)
      BY <1>5, <2>5 DEF AskWindows
    <3>2. /\ f \in Asks /\ f.since = a.since /\ f.pc = "exceptions" /\ f.q = a.q
          /\ f.action = a.action /\ f.dec = AllowAll /\ f.t = a.t /\ f.nsLabels = a.nsLabels
          /\ f.denies = denies
      BY <1>1, <2>3 DEF Asks
    <3> HIDE DEF f, denies
    <3>3. AskIn(f) = AskIn(a)
      BY <3>2 DEF AskIn
    <3>4. AskClockRead(f) /\ AskNamespaceRead(f)
      BY <1>1, <3>2 DEF AskClockRead, AskNamespaceRead, AskedVersions, AskedInstants
    <3>5. AskWindowsRead(f)
      BY <1>3, <2>1, <2>2, <2>5, <3>2, <3>3 DEF AskWindowsRead, AskedVersions
    <3> QED
      BY <1>1, <3>1, <3>2, <3>4, <3>5 DEF AskProgress, QuestionOK
  <2> QED
    BY <2>4, <2>5
<1> QED
  BY <1>4, <1>5

(* The verdict is the evaluator's, on the exceptions or, when they cannot  *)
(* be read and flt faults have happened, on none.                          *)
LEMMA VerdictStep ==
  ASSUME CIInv, NEW r \in Users, ask[r].pc = "exceptions", NEW readable \in BOOLEAN,
         NEW o \in Overrides(AskIn(ask[r]), IF readable THEN Stored("fe") ELSE {}),
         NEW flt, flt = 0 => readable
  PROVE  LET f == Verdict(ask[r], o)
         IN  f \in Asks /\ f.since = ask[r].since /\ f.pc = "told" /\ AskProgress(f, flt)
<1> DEFINE a == ask[r]
           f == Verdict(a, o)
           d == Decide(a.denies, o)
           E == IF readable THEN Stored("fe") ELSE {}
<1>1. /\ a \in Asks /\ QuestionOK(a) /\ AskClockRead(a) /\ AskNamespaceRead(a)
      /\ AskWindowsRead(a)
  BY AskParts DEF AskProgress
<1>2. TypeOK /\ AskIn(a).now \in Nat
  <2>1. AskedInstants(a) \subseteq Nat
    BY AskParts
  <2> QED
    BY <1>1, <2>1 DEF CIInv, IInv, AskIn, AskClockRead
<1>3. /\ Len(hist["fe"]) \in AskedVersions(a, "fe") /\ Stored("fe") = hist.fe[Len(hist["fe"])]
      /\ AskedVersions(a, "cf") \subseteq 1..Len(hist["cf"])
      /\ AskedVersions(a, "mw") \subseteq 1..Len(hist["mw"])
      /\ Stored("fe") \in SUBSET FreezeException
  BY <1>2, AskParts, StoredVersions DEF Stored, VersionType, Resource, PolicyResource
<1>4. PICK i \in AskedVersions(a, "cf"), m \in AskedVersions(a, "mw") :
        a.denies = CollectDenyCandidates(AskIn(a), hist.cf[i], hist.mw[m])
  BY <1>1 DEF AskWindowsRead
<1>5. a.denies # {} /\ a.denies \in SUBSET DenyCandidate
      /\ \A b, c \in a.denies : b.ref = c.ref /\ b.next = c.next => b = c
  <2> DEFINE D == CollectDenyCandidates(AskIn(a), hist.cf[i], hist.mw[m])
  <2>1. D \in SUBSET DenyCandidate /\ \A b, c \in D : b.ref = c.ref /\ b.next = c.next => b = c
    BY <1>2, <1>3, CollectedType
  <2> QED
    BY <1>1, <1>4, <2>1 DEF AskWindowsRead
<1>6. d \in Decision
  <2>1. E \in SUBSET FreezeException
    BY <1>3
  <2>2. o \in OverrideRef \cup {NoRef}
    BY <2>1, OverrideType
  <2> QED
    BY <1>5, <2>2, DecideType
<1>7. /\ f = Tell([a EXCEPT !.dec = d], IF d.allowed THEN 0 ELSE 1)
      /\ (IF d.allowed THEN 0 ELSE 1) \in 0..2
  BY DEF Verdict
<1>8. d \in Evaluate(AskIn(a), hist.cf[i], hist.mw[m], E)
  BY <1>4, <1>5 DEF Evaluate
<1> HIDE DEF f, d
<1>9. /\ f \in Asks /\ f.since = a.since /\ f.pc = "told" /\ f.q = a.q /\ f.action = a.action
      /\ f.t = a.t /\ f.nsLabels = a.nsLabels /\ f.dec = d
      /\ f.exit = IF d.allowed THEN 0 ELSE 1
  <2> DEFINE b == [a EXCEPT !.dec = d]
  <2>1. /\ b \in Asks /\ b.since = a.since /\ b.q = a.q /\ b.action = a.action
        /\ b.t = a.t /\ b.nsLabels = a.nsLabels /\ b.dec = d
    BY <1>1, <1>6 DEF Asks
  <2>2. f = Tell(b, IF d.allowed THEN 0 ELSE 1)
    BY <1>7
  <2> HIDE DEF b
  <2> QED
    BY <1>7, <2>1, <2>2, Telling
<1>10. AskIn(f) = AskIn(a)
  BY <1>9 DEF AskIn
<1>11. AskClockRead(f) /\ AskNamespaceRead(f)
  BY <1>1, <1>9 DEF AskClockRead, AskNamespaceRead, AskedVersions, AskedInstants
<1>12. AskConcluded(f, readable)
  BY <1>3, <1>4, <1>8, <1>9, <1>10 DEF AskConcluded, AskedVersions
<1>13. AskJudged(f, flt)
  BY <1>12 DEF AskJudged
<1>14. AskProgress(f, flt)
  BY <1>1, <1>9, <1>11, <1>13 DEF AskProgress, QuestionOK
<1> QED
  BY <1>9, <1>14 DEF f

(* Every step of an answer keeps to what was read.                         *)
LEMMA AnsweringSteps ==
  ASSUME CIInv, NEW r \in Users, Answering(r)
  PROVE  \E f \in Asks : /\ AskStep(r, f) /\ f.since = ask[r].since
                         /\ f.pc \notin {"idle", "sent"} /\ AskProgress(f, faults)
<1>1. CASE AskExceptions(r)
  <2>1. PICK o \in Overrides(AskIn(ask[r]), Stored("fe")) : AskStep(r, Verdict(ask[r], o))
    BY <1>1 DEF AskExceptions
  <2> DEFINE readable == TRUE
  <2>2. o \in Overrides(AskIn(ask[r]), IF readable THEN Stored("fe") ELSE {})
    BY <2>1
  <2>3. readable \in BOOLEAN /\ (faults = 0 => readable) /\ ask[r].pc = "exceptions"
    BY <1>1 DEF AskExceptions
  <2> HIDE DEF readable
  <2> QED
    BY <2>1, <2>2, <2>3, VerdictStep
<1> QED
  BY <1>1, AskResolvingSteps, AskListingSteps DEF Answering

-----------------------------------------------------------------------------
(* The invariant is inductive *)

(* When nothing is written and no time passes, what is known of a question *)
(* is known after the step.                                                *)
LEMMA AskFrozen ==
  ASSUME NEW a, NEW flt, UNCHANGED <<hist, seen, now>>, flt = faults',
         AskedOK(a), AskProgress(a, flt)
  PROVE  AskOK(a)'
<1>1. AskedOK(a)'
  BY DEF AskedOK
<1>2. AskIn(a)' = AskIn(a) /\ (QuestionOK(a)' <=> QuestionOK(a))
  BY DEF AskIn, QuestionOK
<1>3. /\ AskClockRead(a)' <=> AskClockRead(a)
      /\ AskNamespaceRead(a)' <=> AskNamespaceRead(a)
  BY DEF AskClockRead, AskedInstants, AskNamespaceRead, AskedVersions
<1>4. AskFreezesRead(a)' <=> AskFreezesRead(a)
  BY <1>2 DEF AskFreezesRead, AskedVersions
<1>5. AskWindowsRead(a)' <=> AskWindowsRead(a)
  BY <1>2 DEF AskWindowsRead, AskedVersions
<1>6. AskJudged(a, faults)' <=> AskJudged(a, flt)
  BY <1>2 DEF AskJudged, AskConcluded, AskedVersions
<1>7. AskProgress(a, faults)'
  BY <1>2, <1>3, <1>4, <1>5, <1>6 DEF AskProgress
<1> QED
  BY <1>1, <1>7 DEF AskOK

(* A step of one pipeline leaves the others alone.                         *)
LEMMA OneAsks ==
  ASSUME CIInv, IInv', Grown, NEW r \in Users, NEW f \in Asks, ask' = [ask EXCEPT ![r] = f],
         AskOK(f)', Linked(r)',
         \A s \in Users \ {r} : arrived'[s] = arrived[s] /\ call'[s] = call[s]
  PROVE  CIInv'
<1>1. ask \in [Users -> Asks] /\ TypeOK /\ TypeOK' /\ \A s \in Users : AskOK(ask[s]) /\ Linked(s)
  BY DEF CIInv, CITypeOK, IInv
<1>2. ask' \in [Users -> Asks] /\ ask'[r] = f /\ \A s \in Users \ {r} : ask'[s] = ask[s]
  BY <1>1
<1>3. AskOK(ask[r])'
  BY <1>2, SameAsk
<1>4. ASSUME NEW s \in Users \ {r} PROVE AskOK(ask[s])' /\ Linked(s)'
  <2>1. PICK a : a = ask[s] /\ a = ask'[s]
    BY <1>2
  <2>2. AskOK(a)
    BY <1>1, <2>1
  <2>3. AskOK(a)'
    BY <1>1, <2>2, AskKept
  <2>4. AskOK(ask[s])'
    BY <2>1, <2>3, SameAsk
  <2>5. Linked(s)'
    BY <1>1, <1>2, LinkKept
  <2> QED
    BY <2>4, <2>5
<1> QED
  BY <1>1, <1>2, <1>3, <1>4 DEF CIInv, CITypeOK

(* A step of the answer alone.                                             *)
LEMMA AskAdvances ==
  ASSUME CIInv, NEW r \in Users, NEW f \in Asks, ask' = [ask EXCEPT ![r] = f],
         UNCHANGED <<hist, seen, now, workload, call, arrived>>,
         faults' \in {faults, faults + 1}, faults' \in 0..MaxFaults,
         AskedOK(f), f.pc # "sent", AskProgress(f, faults')
  PROVE  CIInv'
<1>1. TypeOK /\ ask \in [Users -> Asks]
  BY DEF CIInv, CITypeOK, IInv
<1>2. TypeOK' /\ Grown
  BY <1>1, StillGrown DEF TypeOK
<1>3. IInv'
  BY <1>2, UntouchedKeeps DEF CIInv
<1>4. AskOK(f)'
  <2>1. PICK flt : flt = faults'
    OBVIOUS
  <2>2. AskProgress(f, flt)
    BY <2>1
  <2> QED
    BY <2>1, <2>2, AskFrozen
<1>5. Linked(r)'
  BY <1>1 DEF Linked
<1> QED
  BY <1>2, <1>3, <1>4, <1>5, OneAsks

(* A new question.                                                         *)
LEMMA QuestionKeeps ==
  ASSUME CIInv, NEW r \in Users, NEW via \in Via, NEW q \in RequestPool, NEW act \in Action,
         Question(r, via, q, act)
  PROVE  CIInv'
<1> DEFINE s == [now |-> now, seen |-> seen, stored |-> Latest]
           p == IF via = "api" THEN "review" ELSE "parse"
           f == [NoAsk EXCEPT !.pc = p, !.via = via, !.q = q, !.action = act, !.since = s]
<1>1. /\ ask' = [ask EXCEPT ![r] = f] /\ UNCHANGED vars /\ Performs(q, act)
      /\ p \in {"review", "parse"}
  BY DEF Question, AskStep
<1>2. TypeOK /\ now \in Nat \ {0} /\ faults \in 0..MaxFaults
      /\ \A k \in Resource : seen[k] \in Nat \ {0} /\ Len(hist[k]) \in Nat \ {0}
  <2>1. \A k \in Resource : seen[k] \in 1..Len(hist[k]) /\ Len(hist[k]) \in Nat \ {0}
    BY StoredVersions DEF CIInv, IInv
  <2> QED
    BY <2>1 DEF CIInv, IInv, TypeOK
<1>3. /\ s \in [now : Nat, seen : [Resource -> Nat], stored : [Resource -> Nat]]
      /\ s.now = now /\ \A k \in Resource : s.seen[k] = seen[k] /\ s.stored[k] = Len(hist[k])
  BY <1>2 DEF Latest, TypeOK
<1>4. q \in Request
  BY RequestAssumption
<1> HIDE DEF s, p
<1>5. /\ f \in Asks /\ f.pc = p /\ f.q = q /\ f.action = act /\ f.dec = AllowAll /\ f.since = s
  <2>1. NoAsk \in Asks /\ NoAsk.dec = AllowAll
    BY NoAskType DEF NoAsk
  <2> QED
    BY <1>1, <1>3, <1>4, <2>1 DEF Asks
<1> HIDE DEF f
<1>6. AskedOK(f)
  BY <1>2, <1>3, <1>5 DEF AskedOK
<1>7. AskProgress(f, faults')
  BY <1>1, <1>5 DEF AskProgress, QuestionOK
<1> QED
  BY <1>1, <1>2, <1>5, <1>6, <1>7, AskAdvances DEF vars

(* The steps of the API server, or of a direct kfo, towards an answer.     *)
LEMMA AnsweringKeeps ==
  ASSUME CIInv, NEW r \in Users, Answering(r)
  PROVE  CIInv'
<1>1. PICK f \in Asks : /\ AskStep(r, f) /\ f.since = ask[r].since
                        /\ f.pc \notin {"idle", "sent"} /\ AskProgress(f, faults)
  BY AnsweringSteps
<1>2. AskedOK(f)
  BY <1>1, AskParts DEF AskedOK
<1>3. faults \in 0..MaxFaults
  BY DEF CIInv, IInv, TypeOK
<1> QED
  BY <1>1, <1>2, <1>3, AskAdvances DEF AskStep, vars

(* The pipeline reads the answer and does nothing.                         *)
LEMMA GiveUpKeeps ==
  ASSUME CIInv, NEW r \in Users, GiveUp(r)
  PROVE  CIInv'
<1>1. AskedOK(NoAsk)
  <2>1. TypeOK /\ now \in Nat \ {0} /\ \A k \in Resource : seen[k] \in Nat \ {0} /\ Len(hist[k]) \in Nat \ {0}
    <3>1. \A k \in Resource : seen[k] \in 1..Len(hist[k]) /\ Len(hist[k]) \in Nat \ {0}
      BY StoredVersions DEF CIInv, IInv
    <3> QED
      BY <3>1 DEF CIInv, IInv, TypeOK
  <2> QED
    BY <2>1 DEF AskedOK, NoAsk, NoArrival, Start
<1>2. NoAsk \in Asks /\ AskProgress(NoAsk, faults') /\ NoAsk.pc # "sent"
  BY NoAskType DEF NoAsk
<1>3. faults \in 0..MaxFaults
  BY DEF CIInv, IInv, TypeOK
<1> QED
  BY <1>1, <1>2, <1>3, AskAdvances DEF GiveUp, AskStep, vars

(* A read fails, or the time is over.                                      *)
LEMMA AskFailsKeeps ==
  ASSUME CIInv, NEW r \in Users, AskFails(r)
  PROVE  CIInv'
<1> DEFINE a == ask[r]
           f == Tell(a, 2)
<1>1. ask' = [ask EXCEPT ![r] = f] /\ faults' = faults + 1 /\ faults' \in 0..MaxFaults
      /\ UNCHANGED <<hist, seen, now, workload, call, arrived>> /\ a.pc # "idle"
  BY BoundAssumption DEF AskFails, Fault, Asking, CIInv, IInv, TypeOK
<1>2. a \in Asks /\ AskedOK(a) /\ QuestionOK(a)
  BY <1>1, AskParts DEF AskProgress
<1>3. f \in Asks /\ f.since = a.since /\ f.pc = "told" /\ AskProgress(f, faults')
  BY <1>1, <1>2, ToldOfError
<1> HIDE DEF f
<1>4. AskedOK(f)
  BY <1>2, <1>3 DEF AskedOK
<1> QED
  BY <1>1, <1>3, <1>4, AskAdvances

(* The exceptions cannot be read: the evaluator goes on without.           *)
LEMMA AskExceptionsUnreadableKeeps ==
  ASSUME CIInv, NEW r \in Users, AskExceptionsUnreadable(r)
  PROVE  CIInv'
<1> DEFINE a == ask[r]
           f == Verdict(a, NoRef)
           readable == FALSE
<1>1. /\ ask' = [ask EXCEPT ![r] = f] /\ faults' = faults + 1 /\ faults' \in 0..MaxFaults
      /\ faults' # 0
      /\ UNCHANGED <<hist, seen, now, workload, call, arrived>> /\ a.pc = "exceptions"
  BY BoundAssumption DEF AskExceptionsUnreadable, Fault, CIInv, IInv, TypeOK
<1>2. NoRef \in Overrides(AskIn(a), IF readable THEN Stored("fe") ELSE {})
  BY DEF Overrides
<1>3. readable \in BOOLEAN /\ (faults' = 0 => readable)
  BY <1>1
<1> HIDE DEF readable
<1>4. f \in Asks /\ f.since = a.since /\ f.pc = "told" /\ AskProgress(f, faults')
  <2>1. PICK flt : flt = faults'
    OBVIOUS
  <2>2. flt = 0 => readable
    BY <1>3, <2>1
  <2>3. f \in Asks /\ f.since = a.since /\ f.pc = "told" /\ AskProgress(f, flt)
    BY <1>1, <1>2, <1>3, <2>2, VerdictStep
  <2> QED
    BY <2>1, <2>3
<1> HIDE DEF f
<1>5. AskedOK(f)
  BY <1>4, AskParts DEF AskedOK
<1> QED
  BY <1>1, <1>4, <1>5, AskAdvances

(* What others do leaves every answer what it rests on.                    *)
LEMMA AskUntouched ==
  ASSUME CIInv, IInv', Grown, UNCHANGED ask, \A s \in Users : Linked(s)'
  PROVE  CIInv'
<1>1. TypeOK /\ TypeOK' /\ ask' \in [Users -> Asks]
  BY DEF CIInv, CITypeOK, IInv
<1>2. ASSUME NEW s \in Users PROVE AskOK(ask[s])'
  <2>1. PICK a : a = ask[s] /\ a = ask'[s]
    OBVIOUS
  <2>2. AskOK(a)
    BY <2>1 DEF CIInv
  <2>3. AskOK(a)'
    BY <1>1, <2>2, AskKept
  <2> QED
    BY <2>1, <2>3, SameAsk
<1> QED
  BY <1>1, <1>2 DEF CIInv, CITypeOK

(* Whatever the answer was, the change goes to the webhook.                *)
LEMMA SendKeeps ==
  ASSUME CIInv, NEW r \in Users, Send(r)
  PROVE  CIInv'
<1> DEFINE a == ask[r]
           sent == [a EXCEPT !.pc = "sent"]
           c == [NoCall EXCEPT !.pc = "resolve", !.q = a.q, !.old = workload]
<1>1. /\ a.pc = "told" /\ Receive(r, a.q) /\ r \in Slots
      /\ ask' = [ask EXCEPT ![r] = sent]
  BY DEF Send, Slots
<1>2. /\ a \in Asks /\ AskedOK(a) /\ AskProgress(a, faults) /\ QuestionOK(a)
      /\ a.exit # 2 => AskClockRead(a) /\ AskNamespaceRead(a) /\ AskJudged(a, faults)
  BY <1>1, AskParts DEF AskProgress
<1>3. a.q \in Request /\ (a.q.replicas => a.q.kind \in {"Deployment", "StatefulSet"})
  BY <1>2, RequestAssumption DEF QuestionOK
<1>4. IInv' /\ Grown
  BY <1>1, <1>3, ReceiveKeeps DEF CIInv
<1>5. /\ call' = [call EXCEPT ![r] = c]
      /\ arrived' = [arrived EXCEPT ![r] = [now |-> now, seen |-> seen, stored |-> Latest]]
      /\ UNCHANGED <<hist, seen, now, faults>> /\ TypeOK
  BY <1>1 DEF Receive, CIInv, IInv
<1>6. c.pc = "resolve" /\ c.q = a.q
  BY DEF NoCall
<1>7. PICK f \in Asks :
        /\ ask' = [ask EXCEPT ![r] = f]
        /\ f.pc = "sent" /\ f.exit = a.exit /\ f.since = a.since /\ f.q = a.q
        /\ f.action = a.action /\ f.t = a.t /\ f.nsLabels = a.nsLabels /\ f.dec = a.dec
  <2>1. /\ sent \in Asks /\ sent.pc = "sent" /\ sent.exit = a.exit /\ sent.since = a.since
        /\ sent.q = a.q /\ sent.action = a.action /\ sent.t = a.t
        /\ sent.nsLabels = a.nsLabels /\ sent.dec = a.dec
    BY <1>1, <1>2 DEF Asks
  <2> HIDE DEF sent
  <2> QED
    BY <1>1, <2>1
<1> HIDE DEF sent, c
<1>8. AskedOK(f)
  BY <1>2, <1>7 DEF AskedOK
<1>9. AskProgress(f, faults)
  <2>1. AskIn(f) = AskIn(a)
    BY <1>7 DEF AskIn
  <2>2. f.exit # 2 => AskClockRead(f) /\ AskNamespaceRead(f)
    BY <1>2, <1>7 DEF AskClockRead, AskNamespaceRead, AskedVersions, AskedInstants
  <2>3. f.exit # 2 => AskJudged(f, faults)
    BY <1>2, <1>7, <2>1 DEF AskJudged, AskConcluded, AskedVersions
  <2> QED
    BY <1>2, <1>7, <2>2, <2>3 DEF AskProgress, QuestionOK
<1>10. AskOK(f)'
  <2>1. PICK flt : flt = faults
    OBVIOUS
  <2>2. flt = faults' /\ AskProgress(f, flt)
    BY <1>5, <1>9, <2>1
  <2> QED
    BY <1>5, <1>8, <2>2, AskFrozen
<1>11. /\ call'[r] = c /\ arrived'[r].now = now /\ arrived'[r].seen = seen
       /\ \A s \in Users \ {r} : arrived'[s] = arrived[s] /\ call'[s] = call[s]
  BY <1>1, <1>5 DEF TypeOK, Slots
<1>12. Linked(r)'
  <2>1. ask'[r] = f
    BY <1>7 DEF CIInv, CITypeOK
  <2>2. call'[r].pc = "resolve" /\ call'[r].q = ask'[r].q
    BY <1>6, <1>7, <1>11, <2>1
  <2>3. ask'[r].since.now <= arrived'[r].now
    BY <1>5, <1>8, <1>11, <2>1 DEF AskedOK, TypeOK
  <2>4. \A k \in Resource : ask'[r].since.seen[k] <= arrived'[r].seen[k]
    BY <1>5, <1>8, <1>11, <2>1 DEF AskedOK, TypeOK
  <2> QED
    BY <2>2, <2>3, <2>4 DEF Linked
<1> QED
  BY <1>4, <1>7, <1>10, <1>11, <1>12, OneAsks

(* The response comes back, to a pipeline or to somebody else.             *)
LEMMA FinishKeeps ==
  ASSUME CIInv, NEW r \in Slots, Finish(r)
  PROVE  CIInv'
<1>1. IInv' /\ Grown
  BY CompleteKeeps DEF Finish, CIInv
<1>2. /\ TypeOK /\ UNCHANGED <<hist, seen, now, faults>>
      /\ \A s \in Slots \ {r} : arrived'[s] = arrived[s] /\ call'[s] = call[s]
  BY DEF Finish, Complete, CIInv, IInv, TypeOK
<1>3. CASE r \in Users
  <2>1. ask' = [ask EXCEPT ![r] = NoAsk] /\ NoAsk \in Asks /\ NoAsk.pc = "idle"
    BY <1>3, NoAskType DEF Finish, NoAsk
  <2>2. AskedOK(NoAsk)
    <3>1. now \in Nat \ {0} /\ \A k \in Resource : seen[k] \in Nat \ {0} /\ Len(hist[k]) \in Nat \ {0}
      <4>1. \A k \in Resource : seen[k] \in 1..Len(hist[k]) /\ Len(hist[k]) \in Nat \ {0}
        BY <1>2, StoredVersions
      <4> QED
        BY <1>2, <4>1 DEF TypeOK
    <3> QED
      BY <3>1 DEF AskedOK, NoAsk, NoArrival, Start
  <2>3. AskOK(NoAsk)'
    <3>1. PICK flt : flt = faults'
      OBVIOUS
    <3> QED
      BY <1>2, <2>2, <3>1, NoAskType, AskFrozen
  <2>4. Linked(r)'
    <3>1. ask'[r] = NoAsk
      BY <1>3, <2>1 DEF CIInv, CITypeOK
    <3> QED
      BY <2>1, <3>1 DEF Linked
  <2>5. \A s \in Users \ {r} : arrived'[s] = arrived[s] /\ call'[s] = call[s]
    BY <1>2 DEF Slots
  <2> QED
    BY <1>1, <1>3, <2>1, <2>3, <2>4, <2>5, OneAsks
<1>4. CASE r \notin Users
  <2>1. ask' = ask
    BY <1>4 DEF Finish
  <2>2. ASSUME NEW s \in Users PROVE Linked(s)'
    <3>1. arrived'[s] = arrived[s] /\ call'[s] = call[s] /\ Linked(s)
      BY <1>2, <1>4 DEF Slots, CIInv
    <3> QED
      BY <2>1, <3>1, LinkKept
  <2> QED
    BY <1>1, <2>1, <2>2, AskUntouched
<1> QED
  BY <1>3, <1>4

(* The operator dies and takes the questions put to it along.              *)
LEMMA OperatorRestartKeeps ==
  ASSUME CIInv, OperatorRestart
  PROVE  CIInv'
<1>1. IInv' /\ Grown
  BY RestartKeeps DEF OperatorRestart, CIInv
<1>2. /\ \A r \in Slots : call'[r] = IF Running(r) THEN Failed ELSE call[r]
      /\ UNCHANGED <<hist, now, arrived>> /\ faults' = faults + 1
      /\ TypeOK /\ TypeOK'
  BY <1>1 DEF OperatorRestart, Restart, Fault, CIInv, IInv
<1>3. ask' = [r \in Users |-> IF Asking(r) /\ ask[r].via # "direct" THEN Tell(ask[r], 2) ELSE ask[r]]
  BY DEF OperatorRestart
<1>4. ASSUME NEW r \in Users
      PROVE  ask'[r] \in Asks /\ AskOK(ask[r])' /\ Linked(r)'
  <2>1. CASE Asking(r) /\ ask[r].via # "direct"
    <3>1. ask'[r] = Tell(ask[r], 2) /\ ask[r].pc # "idle" /\ ask[r] \in Asks
      BY <1>3, <2>1, AskParts DEF Asking
    <3>2. QuestionOK(ask[r]) /\ AskedOK(ask[r])
      BY <3>1, AskParts DEF AskProgress
    <3>3. PICK f \in Asks : /\ f = ask'[r] /\ f.since = ask[r].since /\ f.pc = "told"
                            /\ \A flt : AskProgress(f, flt)
      BY <3>1, <3>2, ToldOfError
    <3>4. AskOK(f)
      BY <3>2, <3>3 DEF AskOK, AskedOK
    <3>5. AskOK(f)'
      BY <1>1, <1>2, <3>4, AskKept
    <3> QED
      BY <3>3, <3>5, SameAsk DEF Linked
  <2>2. CASE ~(Asking(r) /\ ask[r].via # "direct")
    <3>1. ask'[r] = ask[r] /\ ask[r] \in Asks /\ r \in Slots /\ arrived'[r] = arrived[r]
      BY <1>2, <1>3, <2>2, AskParts DEF Slots
    <3>2. PICK a : a = ask[r] /\ a = ask'[r]
      BY <3>1
    <3>3. AskOK(a)
      BY <3>2 DEF CIInv
    <3>4. AskOK(a)'
      BY <1>1, <1>2, <3>3, AskKept
    <3>5. call[r].pc # "idle" =>
            /\ call'[r].pc # "idle"
            /\ call'[r].resp # "error" => call[r].resp # "error" /\ call'[r].q = call[r].q
      BY <1>2, <3>1 DEF Failed, NoCall
    <3>6. Linked(r)'
      BY <3>1, <3>5, LinkKept DEF CIInv
    <3> QED
      BY <3>1, <3>2, <3>4, <3>6, SameAsk
  <2> QED
    BY <2>1, <2>2
<1>5. ask' \in [Users -> Asks]
  BY <1>3, <1>4
<1> QED
  BY <1>1, <1>2, <1>4, <1>5 DEF CIInv, CITypeOK

(* What the webhook and its environment do meanwhile.                      *)
LEMMA OthersKeep ==
  ASSUME CIInv, Others, UNCHANGED ask
  PROVE  CIInv'
<1>1. IInv /\ TypeOK /\ \A s \in Users : Linked(s) /\ s \in Slots
  BY DEF CIInv, IInv, Slots
<1>2. CASE Environment
  <2>1. TypeOK' /\ Grown /\ UNCHANGED <<call, arrived>>
    BY <1>1, <1>2, EnvironmentGrows
  <2>2. IInv' /\ \A s \in Users : Linked(s)'
    BY <1>1, <2>1, UntouchedKeeps, LinkKept
  <2> QED
    BY <2>1, <2>2, AskUntouched
<1>3. CASE DrainRequest
  <2>1. IInv' /\ Grown
    BY <1>1, <1>3, DrainKeeps
  <2>2. \A s \in Users : call'[s] = call[s] /\ arrived'[s] = arrived[s]
    BY <1>1, <1>3, SlotAssumption DEF DrainRequest, Receive, TypeOK
  <2>3. \A s \in Users : Linked(s)'
    BY <1>1, <2>2, LinkKept
  <2> QED
    BY <2>1, <2>3, AskUntouched
<1>4. ASSUME NEW r \in Slots, NEW f, call' = [call EXCEPT ![r] = f], UNCHANGED arrived,
             Running(r), Continues(call[r], f)
      PROVE  \A s \in Users : Linked(s)'
  <2> SUFFICES ASSUME NEW s \in Users PROVE Linked(s)'
    OBVIOUS
  <2>1. CASE s # r
    <3>1. call'[s] = call[s] /\ arrived'[s] = arrived[s]
      BY <1>1, <1>4, <2>1 DEF TypeOK
    <3> QED
      BY <1>1, <3>1, LinkKept
  <2>2. CASE s = r
    <3>1. call'[r] = f /\ arrived'[r] = arrived[r] /\ f.pc # "idle"
      BY <1>1, <1>4 DEF TypeOK, Continues
    <3>2. f.resp # "error" => f.q = call[r].q
      BY <1>4 DEF Continues, Failed, NoCall
    <3>3. call[r].resp # "error"
      <4>1. Progress(r, call[r], faults)
        BY <1>1, CallParts
      <4> QED
        BY <1>4, <4>1 DEF Progress, Running
    <3> QED
      BY <1>1, <2>2, <3>1, <3>2, <3>3, LinkKept
  <2> QED
    BY <2>1, <2>2
<1>5. ASSUME NEW r \in Slots, Handle(r) PROVE CIInv'
  <2>1. IInv' /\ Grown
    BY <1>1, <1>5, HandleKeeps
  <2>2. PICK f \in Calls : Step(r, f) /\ Running(r) /\ Continues(call[r], f)
    BY <1>1, <1>5, HandlerSteps
  <2>3. \A s \in Users : Linked(s)'
    BY <1>4, <2>2 DEF Step
  <2> QED
    BY <2>1, <2>3, AskUntouched
<1>6. ASSUME NEW r \in Slots, ExceptionsUnreadable(r) PROVE CIInv'
  <2>1. IInv' /\ Grown
    BY <1>1, <1>6, ExceptionsUnreadableKeeps
  <2> DEFINE f == Conclude(call[r], NoRef)
  <2>2. call' = [call EXCEPT ![r] = f] /\ UNCHANGED arrived /\ Running(r)
    BY <1>6 DEF ExceptionsUnreadable, Running
  <2>3. Continues(call[r], f)
    <3>1. call[r] \in Calls
      BY <1>1, CallParts
    <3>2. f.pc = "answered" /\ f.q = call[r].q /\ f.old = call[r].old
      BY <3>1 DEF Conclude, Calls
    <3> QED
      BY <3>2 DEF Continues
  <2> HIDE DEF f
  <2>4. \A s \in Users : Linked(s)'
    BY <1>4, <2>2, <2>3
  <2> QED
    BY <2>1, <2>4, AskUntouched
<1>7. ASSUME NEW r \in Slots, Fail(r) PROVE CIInv'
  <2>1. IInv' /\ Grown
    BY <1>1, <1>7, FailKeeps
  <2>2. /\ call' = [call EXCEPT ![r] = Failed] /\ UNCHANGED arrived /\ Running(r)
        /\ Continues(call[r], Failed)
    BY <1>7 DEF Fail, Continues, Failed, NoCall
  <2>3. \A s \in Users : Linked(s)'
    BY <1>4, <2>2
  <2> QED
    BY <2>1, <2>3, AskUntouched
<1> QED
  BY <1>2, <1>3, <1>5, <1>6, <1>7 DEF Others, Environment

(* Nothing is asked at first.                                              *)
LEMMA CIInitInvariant == CIInit => CIInv
<1> SUFFICES ASSUME CIInit PROVE CIInv
  OBVIOUS
<1>1. IInv /\ TypeOK /\ ask = [r \in Users |-> NoAsk]
  BY InitInvariant DEF CIInit, IInv
<1>2. now \in Nat \ {0} /\ \A k \in Resource : seen[k] \in Nat \ {0} /\ Len(hist[k]) \in Nat \ {0}
  <2>1. \A k \in Resource : seen[k] \in 1..Len(hist[k]) /\ Len(hist[k]) \in Nat \ {0}
    BY <1>1, StoredVersions
  <2> QED
    BY <1>1, <2>1 DEF TypeOK
<1>3. AskOK(NoAsk)
  <2>1. AskedOK(NoAsk)
    BY <1>2 DEF AskedOK, NoAsk, NoArrival, Start
  <2> QED
    BY <2>1, NoAskType DEF AskOK
<1>4. \A r \in Users : Linked(r)
  BY <1>1 DEF Linked, NoAsk
<1> QED
  BY <1>1, <1>3, <1>4, NoAskType DEF CIInv, CITypeOK

(* Every action of the composition keeps the invariant.                    *)
LEMMA CIInductiveStep == CIInv /\ [CINext]_ciVars => CIInv'
<1> SUFFICES ASSUME CIInv, [CINext]_ciVars PROVE CIInv'
  OBVIOUS
<1>1. CASE UNCHANGED ciVars
  <2>1. TypeOK /\ UNCHANGED <<hist, seen, now, workload, call, arrived, faults, ask>>
    BY <1>1 DEF CIInv, IInv, ciVars
  <2>2. TypeOK' /\ Grown
    BY <2>1, StillGrown DEF TypeOK
  <2>3. IInv'
    BY <2>1, <2>2, UntouchedKeeps DEF CIInv
  <2>4. \A s \in Users : Linked(s)'
    BY <2>1, LinkKept DEF CIInv
  <2> QED
    BY <2>1, <2>2, <2>3, <2>4, AskUntouched
<1>2. CASE CINext
  <2>1. CASE \E r \in Users : Proceed(r) \/ ProceedOnError(r) \/ Insist(r)
    BY <2>1, SendKeeps DEF Proceed, ProceedOnError, Insist
  <2>2. CASE \/ Others /\ UNCHANGED ask
             \/ \E r \in Slots : Finish(r)
             \/ OperatorRestart
    BY <2>2, OthersKeep, FinishKeeps, OperatorRestartKeeps
  <2>3. CASE \E r \in Users :
               \/ \E via \in Via, q \in RequestPool, a \in Action : Question(r, via, q, a)
               \/ Answering(r) \/ GiveUp(r) \/ AskFails(r) \/ AskExceptionsUnreadable(r)
    BY <2>3, QuestionKeeps, AnsweringKeeps, GiveUpKeeps, AskFailsKeeps,
       AskExceptionsUnreadableKeeps
  <2> QED
    BY <1>2, <2>1, <2>2, <2>3 DEF CINext
<1> QED
  BY <1>1, <1>2

(* The invariant holds throughout.                                         *)
LEMMA CIInvariance == CISpec => []CIInv
BY CIInitInvariant, CIInductiveStep, PTL DEF CISpec

(* The variables of the pipelines stay in their types.                     *)
THEOREM Advice_Types == CISpec => []CITypeOK
<1>1. CIInv => CITypeOK
  BY DEF CIInv
<1> QED
  BY <1>1, CIInvariance, PTL

-----------------------------------------------------------------------------
(* Safety: what an answer says about the time of the question *)

(* An answer of kfo is the evaluator's decision for one instant, one       *)
(* version of the namespace and one version of each list, all of them      *)
(* since the question.                                                     *)
LEMMA AdviceParts ==
  ASSUME CIInv, NEW r \in Users, ask[r].pc \in {"told", "sent"}, ask[r].exit # 2
  PROVE  LET a == ask[r]
         IN  /\ QuestionOK(a) /\ a.t \in AskInstants(r) /\ AskIn(a).now \in Nat
             /\ AskIn(a).now = a.t /\ a.exit = (IF a.dec.allowed THEN 0 ELSE 1)
             /\ \E n \in Versions(r, "ns") : /\ AskInAt(r, a.t, n) = AskIn(a)
                                             /\ a.nsLabels = hist.ns[n].labels
             /\ \E i \in Versions(r, "cf"), m \in Versions(r, "mw"), e \in Versions(r, "fe"),
                   readable \in BOOLEAN :
                  /\ hist.cf[i] \in SUBSET ChangeFreeze /\ hist.mw[m] \in SUBSET MaintenanceWindow
                  /\ faults = 0 => readable
                  /\ a.dec \in Evaluate(AskIn(a), hist.cf[i], hist.mw[m],
                                        IF readable THEN hist.fe[e] ELSE {})
<1> DEFINE a == ask[r]
<1>1. /\ a \in Asks /\ QuestionOK(a) /\ AskClockRead(a) /\ AskNamespaceRead(a)
      /\ AskJudged(a, faults) /\ AskedInstants(a) \subseteq Nat
  BY AskParts DEF AskProgress
<1>2. a.t \in AskInstants(r) /\ AskIn(a).now \in Nat /\ AskIn(a).now = a.t
  BY <1>1 DEF AskClockRead, AskedInstants, AskInstants, AskIn
<1>3. a.exit = (IF a.dec.allowed THEN 0 ELSE 1)
  BY <1>1 DEF AskJudged, AskConcluded
<1>4. \A k : AskedVersions(a, k) = Versions(r, k)
  BY DEF AskedVersions, Versions
<1>5. \E n \in Versions(r, "ns") : AskInAt(r, a.t, n) = AskIn(a) /\ a.nsLabels = hist.ns[n].labels
  <2>1. PICK n \in Versions(r, "ns") : a.nsLabels = hist.ns[n].labels
    BY <1>1, <1>4 DEF AskNamespaceRead
  <2>2. AskInAt(r, a.t, n) = AskIn(a)
    <3> DEFINE i == AskIn(a)
               j == AskInAt(r, a.t, n)
    <3>1. i = [now |-> i.now, nsLabels |-> i.nsLabels, kind |-> i.kind, action |-> i.action,
               objLabels |-> i.objLabels, user |-> i.user, groups |-> i.groups]
      BY DEF AskIn
    <3>2. i.now = a.t /\ i.nsLabels = hist.ns[n].labels
      BY <2>1 DEF AskIn
    <3>3. j = [i EXCEPT !.now = i.now, !.nsLabels = i.nsLabels]
      BY <3>2 DEF AskInAt
    <3> HIDE DEF i, j
    <3>4. j = i
      BY <3>1, <3>3
    <3> QED
      BY <3>4 DEF i, j
  <2> QED
    BY <2>1, <2>2
<1>6. PICK i \in Versions(r, "cf"), m \in Versions(r, "mw"), e \in Versions(r, "fe"),
           readable \in BOOLEAN :
        /\ faults = 0 => readable
        /\ a.dec \in Evaluate(AskIn(a), hist.cf[i], hist.mw[m], IF readable THEN hist.fe[e] ELSE {})
  BY <1>1, <1>4 DEF AskJudged, AskConcluded
<1>7. hist.cf[i] \in SUBSET ChangeFreeze /\ hist.mw[m] \in SUBSET MaintenanceWindow
  <2>1. "cf" \in Resource /\ "mw" \in Resource
    BY DEF Resource, PolicyResource
  <2>2. i \in 1..Len(hist["cf"]) /\ m \in 1..Len(hist["mw"])
    BY <1>4, <1>6, <2>1, AskParts
  <2> QED
    BY <2>1, <2>2, StoredVersions DEF CIInv, IInv, VersionType
<1> QED
  BY <1>1, <1>2, <1>3, <1>5, <1>6, <1>7

(* A "no" names a policy that the API server stored and that denied the    *)
(* action at some instant since the question.                              *)
THEOREM Advice_Is_Justified == CISpec => []AdviceJustified
<1>1. CIInv => AdviceJustified
  <2> SUFFICES ASSUME CIInv, NEW r \in Users, Told(r, 1)
               PROVE  \E t \in AskInstants(r), j \in Versions(r, "ns") :
                        \/ \E i \in Versions(r, "cf") : \E p \in hist.cf[i] :
                             /\ ask[r].dec.policy = [kind |-> "ChangeFreeze", name |-> p.name]
                             /\ FreezeDenies(p, AskInAt(r, t, j))
                        \/ \E i \in Versions(r, "mw") : \E p \in hist.mw[i] :
                             /\ ask[r].dec.policy = [kind |-> "MaintenanceWindow", name |-> p.name]
                             /\ WindowDenies(p, AskInAt(r, t, j))
    BY DEF AdviceJustified
  <2> DEFINE a == ask[r]
  <2>1. a.t \in AskInstants(r) /\ AskIn(a).now \in Nat /\ ~a.dec.allowed
    BY AdviceParts DEF Told
  <2>2. PICK n \in Versions(r, "ns") : AskInAt(r, a.t, n) = AskIn(a)
    BY AdviceParts DEF Told
  <2>3. PICK i \in Versions(r, "cf"), m \in Versions(r, "mw"), e \in Versions(r, "fe"),
             readable \in BOOLEAN :
          /\ hist.cf[i] \in SUBSET ChangeFreeze /\ hist.mw[m] \in SUBSET MaintenanceWindow
          /\ a.dec \in Evaluate(AskIn(a), hist.cf[i], hist.mw[m],
                                IF readable THEN hist.fe[e] ELSE {})
    BY AdviceParts DEF Told
  <2>4. PICK d \in CollectDenyCandidates(AskIn(a), hist.cf[i], hist.mw[m]) : a.dec.policy = d.ref
    BY <2>1, <2>3, DenialOfCandidate
  <2>5. CASE \E cf \in hist.cf[i] : FreezeDenies(cf, AskIn(a)) /\ d = FreezeCandidate(cf)
    <3>1. PICK cf \in hist.cf[i] : FreezeDenies(cf, AskIn(a)) /\ d = FreezeCandidate(cf)
      BY <2>5
    <3>2. a.dec.policy = [kind |-> "ChangeFreeze", name |-> cf.name]
      BY <2>4, <3>1 DEF FreezeCandidate
    <3> QED
      BY <2>1, <2>2, <2>3, <3>1, <3>2
  <2>6. CASE \E mw \in hist.mw[m] : /\ WindowDenies(mw, AskIn(a))
                                    /\ d = WindowCandidate(mw, AskIn(a).now)
    <3>1. PICK mw \in hist.mw[m] : WindowDenies(mw, AskIn(a)) /\ d = WindowCandidate(mw, AskIn(a).now)
      BY <2>6
    <3>2. a.dec.policy = [kind |-> "MaintenanceWindow", name |-> mw.name]
      BY <2>4, <3>1 DEF WindowCandidate
    <3> QED
      BY <2>1, <2>2, <2>3, <3>1, <3>2
  <2>7. \/ \E cf \in hist.cf[i] : FreezeDenies(cf, AskIn(a)) /\ d = FreezeCandidate(cf)
        \/ \E mw \in hist.mw[m] : /\ WindowDenies(mw, AskIn(a))
                                  /\ d = WindowCandidate(mw, AskIn(a).now)
    BY CandidateSources
  <2> QED
    BY <2>5, <2>6, <2>7
<1> QED
  BY <1>1, CIInvariance, PTL

(* A "yes" means that no policy denied the action all the while since the  *)
(* question, or that an exception admitted it meanwhile.                   *)
THEOREM Advice_Is_Enforced == CISpec => []AdviceEnforced
<1>1. CIInv => AdviceEnforced
  <2> DEFINE Steadily(r, k, p) ==
               /\ p \in hist[k][ask[r].since.stored[k]]
               /\ \A i \in Versions(r, k) : p \in hist[k][i]
  <2> SUFFICES ASSUME CIInv, NEW r \in Users, Told(r, 0),
                      \/ \E p : /\ Steadily(r, "cf", p)
                                /\ \A t \in AskInstants(r), j \in Versions(r, "ns") :
                                     FreezeDenies(p, AskInAt(r, t, j))
                      \/ \E p : /\ Steadily(r, "mw", p)
                                /\ \A t \in AskInstants(r), j \in Versions(r, "ns") :
                                     WindowDenies(p, AskInAt(r, t, j))
               PROVE  \E i \in Versions(r, "fe") : \E ex \in hist.fe[i] :
                        \E t \in AskInstants(r), j \in Versions(r, "ns") :
                          Admits(ex, AskInAt(r, t, j))
    BY DEF AdviceEnforced
  <2> DEFINE a == ask[r]
  <2>1. a.t \in AskInstants(r) /\ a.dec.allowed
    BY AdviceParts DEF Told
  <2>2. PICK n \in Versions(r, "ns") : AskInAt(r, a.t, n) = AskIn(a)
    BY AdviceParts DEF Told
  <2>3. PICK i \in Versions(r, "cf"), m \in Versions(r, "mw"), e \in Versions(r, "fe"),
             readable \in BOOLEAN :
          a.dec \in Evaluate(AskIn(a), hist.cf[i], hist.mw[m], IF readable THEN hist.fe[e] ELSE {})
    BY AdviceParts DEF Told
  <2>4. CollectDenyCandidates(AskIn(a), hist.cf[i], hist.mw[m]) # {}
    <3>1. CASE \E p : /\ Steadily(r, "cf", p)
                      /\ \A t \in AskInstants(r), j \in Versions(r, "ns") :
                           FreezeDenies(p, AskInAt(r, t, j))
      <4>1. PICK p \in hist.cf[i] : FreezeDenies(p, AskInAt(r, a.t, n))
        BY <2>1, <2>2, <2>3, <3>1
      <4>2. FreezeCandidate(p) \in CollectDenyCandidates(AskIn(a), hist.cf[i], hist.mw[m])
        BY <2>2, <4>1, CandidateSources
      <4> QED
        BY <4>2
    <3>2. CASE \E p : /\ Steadily(r, "mw", p)
                      /\ \A t \in AskInstants(r), j \in Versions(r, "ns") :
                           WindowDenies(p, AskInAt(r, t, j))
      <4>1. PICK p \in hist.mw[m] : WindowDenies(p, AskInAt(r, a.t, n))
        BY <2>1, <2>2, <2>3, <3>2
      <4>2. WindowCandidate(p, AskIn(a).now)
              \in CollectDenyCandidates(AskIn(a), hist.cf[i], hist.mw[m])
        BY <2>2, <4>1, CandidateSources
      <4> QED
        BY <4>2
    <3> QED
      BY <3>1, <3>2
  <2>5. \E ex \in (IF readable THEN hist.fe[e] ELSE {}) : Admits(ex, AskIn(a))
    BY <2>1, <2>3, <2>4, AllowanceIsExcepted
  <2>6. \E ex \in hist.fe[e] : Admits(ex, AskInAt(r, a.t, n))
    BY <2>2, <2>5
  <2> QED
    BY <2>1, <2>2, <2>3, <2>6
<1> QED
  BY <1>1, CIInvariance, PTL

-----------------------------------------------------------------------------
(* The webhook keeps to the advice *)

(* A policy that does not look at the object does not see what the API     *)
(* does not know.                                                          *)
LEMMA BlindPolicies ==
  ASSUME NEW i, NEW j, i.now = j.now, i.nsLabels = j.nsLabels, i.kind = j.kind,
         i.action = j.action
  PROVE  /\ \A p : ~LooksAtObject(p.target) =>
               /\ FreezeDenies(p, i) <=> FreezeDenies(p, j)
               /\ WindowDenies(p, i) <=> WindowDenies(p, j)
         /\ \A ex : ~LooksAtObject(ex.target) /\ ~Personal(ex) => (Admits(ex, i) <=> Admits(ex, j))
<1>1. \A p : ~LooksAtObject(p.target) => (Covers(p, i) <=> Covers(p, j))
  BY DEF LooksAtObject, Covers, TargetMatches, MatchLabelSelector
<1>2. \A ex : ~Personal(ex) => ConstraintsPass(ex, i) /\ ConstraintsPass(ex, j)
  BY DEF Personal, ConstraintsPass
<1> QED
  BY <1>1, <1>2 DEF FreezeDenies, WindowDenies, Admits

(* Freezes, policies of windows and exceptions are told apart.             *)
LEMMA KindsOfPolicies ==
  ASSUME NEW p
  PROVE  /\ ~(p \in ChangeFreeze /\ p \in MaintenanceWindow)
         /\ ~(p \in ChangeFreeze /\ p \in FreezeException)
         /\ ~(p \in MaintenanceWindow /\ p \in FreezeException)
<1>1. p \in ChangeFreeze => "deny" \in DOMAIN p /\ "windows" \notin DOMAIN p
  BY DEF ChangeFreeze
<1>2. p \in MaintenanceWindow => "deny" \in DOMAIN p /\ "windows" \in DOMAIN p
  BY DEF MaintenanceWindow
<1>3. p \in FreezeException => "deny" \notin DOMAIN p
  BY DEF FreezeException
<1> QED
  BY <1>1, <1>2, <1>3

(* Undisturbed, there is one version of everything, and the policies that  *)
(* apply are the same for every instant since the question, whether it is  *)
(* the API that looks or the webhook.                                      *)
LEMMA UndisturbedPolicies ==
  ASSUME CIInv, NEW r \in Users, ask[r].pc # "idle", Undisturbed(r),
         NEW i, NEW j,
         i.now \in AskInstants(r), j.now \in AskInstants(r),
         i.nsLabels = Cached("ns").labels, j.nsLabels = Cached("ns").labels,
         i.kind = ask[r].q.kind, j.kind = ask[r].q.kind,
         i.action = ask[r].action, j.action = ask[r].action
  PROVE  /\ \A p \in Stored("cf") : FreezeDenies(p, i) => FreezeDenies(p, j)
         /\ \A p \in Stored("mw") : WindowDenies(p, i) => WindowDenies(p, j)
         /\ \A p \in Stored("fe") : Admits(p, i) => Admits(p, j)
<1> DEFINE At(t) == [RequestIn(r) EXCEPT !.now = t]
           Applying(t) == {cf \in Stored("cf") : FreezeDenies(cf, At(t))}
                            \cup {mw \in Stored("mw") : WindowDenies(mw, At(t))}
                            \cup {ex \in Stored("fe") : Admits(ex, At(t))}
<1>1. /\ \A t \in AskInstants(r) : Applying(t) = Applying(now)
      /\ \A p \in Stored("cf") \cup Stored("mw") \cup Stored("fe") : ~LooksAtObject(p.target)
      /\ \A ex \in Stored("fe") : ~Personal(ex)
  BY DEF Undisturbed
<1>2. /\ Stored("cf") \subseteq ChangeFreeze /\ Stored("mw") \subseteq MaintenanceWindow
      /\ Stored("fe") \subseteq FreezeException
  BY StoredVersions DEF VersionType, Resource, PolicyResource, CIInv, IInv
<1>3. \A t : /\ At(t).now = t /\ At(t).nsLabels = Cached("ns").labels
             /\ At(t).kind = ask[r].q.kind /\ At(t).action = ask[r].action
  BY DEF RequestIn
<1>4. Applying(i.now) = Applying(j.now)
  BY <1>1
<1> HIDE DEF At
<1>5. /\ \A p : ~LooksAtObject(p.target) =>
            /\ FreezeDenies(p, i) <=> FreezeDenies(p, At(i.now))
            /\ WindowDenies(p, i) <=> WindowDenies(p, At(i.now))
      /\ \A ex : ~LooksAtObject(ex.target) /\ ~Personal(ex) =>
            (Admits(ex, i) <=> Admits(ex, At(i.now)))
  BY <1>3, BlindPolicies
<1>6. /\ \A p : ~LooksAtObject(p.target) =>
            /\ FreezeDenies(p, j) <=> FreezeDenies(p, At(j.now))
            /\ WindowDenies(p, j) <=> WindowDenies(p, At(j.now))
      /\ \A ex : ~LooksAtObject(ex.target) /\ ~Personal(ex) =>
            (Admits(ex, j) <=> Admits(ex, At(j.now)))
  BY <1>3, BlindPolicies
<1>7. ASSUME NEW p \in Stored("cf"), FreezeDenies(p, i) PROVE FreezeDenies(p, j)
  <2>1. p \in Applying(i.now)
    BY <1>1, <1>5, <1>7
  <2>2. p \in Applying(j.now) /\ p \notin Stored("mw") /\ p \notin Stored("fe")
    BY <1>2, <1>4, <2>1, KindsOfPolicies
  <2>3. FreezeDenies(p, At(j.now))
    BY <2>2
  <2> QED
    BY <1>1, <1>6, <2>3
<1>8. ASSUME NEW p \in Stored("mw"), WindowDenies(p, i) PROVE WindowDenies(p, j)
  <2>1. p \in Applying(i.now)
    BY <1>1, <1>5, <1>8
  <2>2. p \in Applying(j.now) /\ p \notin Stored("cf") /\ p \notin Stored("fe")
    BY <1>2, <1>4, <2>1, KindsOfPolicies
  <2>3. WindowDenies(p, At(j.now))
    BY <2>2
  <2> QED
    BY <1>1, <1>6, <2>3
<1>9. ASSUME NEW p \in Stored("fe"), Admits(p, i) PROVE Admits(p, j)
  <2>1. p \in Applying(i.now)
    BY <1>1, <1>5, <1>9
  <2>2. p \in Applying(j.now) /\ p \notin Stored("cf") /\ p \notin Stored("mw")
    BY <1>2, <1>4, <2>1, KindsOfPolicies
  <2>3. Admits(p, At(j.now))
    BY <2>2
  <2> QED
    BY <1>1, <1>6, <2>3
<1> QED
  BY <1>7, <1>8, <1>9

(* So the two decisions agree.                                             *)
LEMMA UndisturbedDecisions ==
  ASSUME CIInv, NEW r \in Users, ask[r].pc # "idle", Undisturbed(r),
         NEW i, NEW j,
         i.now \in AskInstants(r), j.now \in AskInstants(r),
         i.nsLabels = Cached("ns").labels, j.nsLabels = Cached("ns").labels,
         i.kind = ask[r].q.kind, j.kind = ask[r].q.kind,
         i.action = ask[r].action, j.action = ask[r].action,
         NEW d \in Evaluate(i, Stored("cf"), Stored("mw"), Stored("fe")),
         NEW e \in Evaluate(j, Stored("cf"), Stored("mw"), Stored("fe")),
         ~d.allowed
  PROVE  ~e.allowed
<1>1. i.now \in Nat /\ j.now \in Nat
  <2>1. AskedInstants(ask[r]) \subseteq Nat
    BY AskParts
  <2> QED
    BY <2>1 DEF AskedInstants, AskInstants
<1>2. /\ Stored("cf") \in SUBSET ChangeFreeze /\ Stored("mw") \in SUBSET MaintenanceWindow
  BY StoredVersions DEF VersionType, Resource, PolicyResource, CIInv, IInv
<1>3. /\ \E c : c \in CollectDenyCandidates(i, Stored("cf"), Stored("mw"))
      /\ \A ex \in Stored("fe") : ~Admits(ex, i)
  BY <1>1, <1>2, DenialOfCandidate
<1>4. \A ex \in Stored("fe") : ~Admits(ex, j)
  BY <1>3, UndisturbedPolicies
<1>5. CollectDenyCandidates(j, Stored("cf"), Stored("mw")) # {}
  <2>1. \/ \E cf \in Stored("cf") : FreezeDenies(cf, i)
        \/ \E mw \in Stored("mw") : WindowDenies(mw, i)
    BY <1>3, CandidateSources
  <2>2. CASE \E cf \in Stored("cf") : FreezeDenies(cf, i)
    <3>1. PICK cf \in Stored("cf") : FreezeDenies(cf, j)
      BY <2>2, UndisturbedPolicies
    <3>2. FreezeCandidate(cf) \in CollectDenyCandidates(j, Stored("cf"), Stored("mw"))
      BY <3>1, CandidateSources
    <3> QED
      BY <3>2
  <2>3. CASE \E mw \in Stored("mw") : WindowDenies(mw, i)
    <3>1. PICK mw \in Stored("mw") : WindowDenies(mw, j)
      BY <2>3, UndisturbedPolicies
    <3>2. WindowCandidate(mw, j.now) \in CollectDenyCandidates(j, Stored("cf"), Stored("mw"))
      BY <3>1, CandidateSources
    <3> QED
      BY <3>2
  <2> QED
    BY <2>1, <2>2, <2>3
<1> QED
  BY <1>4, <1>5, AllowanceIsExcepted

(* Undisturbed, what was read and what is cached is what is stored.        *)
LEMMA UndisturbedVersions ==
  ASSUME CIInv, NEW r \in Users, ask[r].pc # "idle", Undisturbed(r), NEW k \in Resource
  PROVE  /\ Cached(k) = Stored(k)
         /\ \A i \in Versions(r, k) : hist[k][i] = Stored(k)
         /\ ask[r].pc = "sent" => \A i \in Span(r, k) : hist[k][i] = Stored(k)
<1>1. AskedOK(ask[r]) /\ Linked(r) /\ TypeOK
  BY AskParts DEF CIInv, IInv
<1>2. ask[r].since.stored = Latest /\ ask[r].since.seen = ask[r].since.stored
  BY DEF Undisturbed
<1>3. ask[r].since.stored[k] = Len(hist[k]) /\ ask[r].since.seen[k] = Len(hist[k])
  BY <1>2 DEF Latest
<1>4. seen[k] \in 1..Len(hist[k]) /\ Len(hist[k]) \in Nat /\ ask[r].since.seen[k] \in 1..seen[k]
  BY <1>1, StoredVersions DEF AskedOK
<1>5. seen[k] = Len(hist[k])
  BY <1>3, <1>4
<1>6. \A i \in Versions(r, k) : i = Len(hist[k])
  BY <1>3, <1>4 DEF Versions
<1>7. ask[r].pc = "sent" => \A i \in Span(r, k) : i = Len(hist[k])
  <2>1. arrived[r].seen[k] \in 1..seen[k]
    BY DEF CIInv, IInv, SlotOK, ArrivalOK, Slots
  <2> QED
    BY <1>1, <1>3, <1>4, <2>1 DEF Linked, Span
<1> QED
  BY <1>5, <1>6, <1>7 DEF Cached, Stored

(* As long as nothing happens in between, the webhook does not refuse the  *)
(* change the API has allowed, and refuses the one the API has denied when *)
(* it is made all the same.                                                *)
THEOREM Advice_Holds == CISpec => []AdviceHolds
<1>1. CIInv => AdviceHolds
  <2> SUFFICES ASSUME CIInv, NEW r \in Users, ask[r].pc = "sent", Undisturbed(r)
               PROVE  /\ ask[r].exit = 0 => ~Answered(r, {"deny"})
                      /\ ask[r].exit = 1 => ~Answered(r, {"allow", "bypass"})
    BY DEF AdviceHolds
  <2> DEFINE a == ask[r]
             c == call[r]
  <2>1. /\ Cached("cf") = Stored("cf") /\ Cached("mw") = Stored("mw")
        /\ Cached("fe") = Stored("fe") /\ Cached("ns") = Stored("ns")
        /\ \A i \in Versions(r, "cf") : hist.cf[i] = Stored("cf")
        /\ \A i \in Versions(r, "mw") : hist.mw[i] = Stored("mw")
        /\ \A i \in Versions(r, "fe") : hist.fe[i] = Stored("fe")
        /\ \A i \in Versions(r, "ns") : hist.ns[i] = Stored("ns")
        /\ \A i \in Span(r, "cf") : hist.cf[i] = Stored("cf")
        /\ \A i \in Span(r, "mw") : hist.mw[i] = Stored("mw")
        /\ \A i \in Span(r, "fe") : hist.fe[i] = Stored("fe")
        /\ \A i \in Span(r, "ns") : hist.ns[i] = Stored("ns")
    BY UndisturbedVersions DEF Resource, PolicyResource
  <2>2. /\ faults = 0 /\ Stored("ns").phase = "Active" /\ OperatorGroup \notin a.q.groups
        /\ QuestionOK(a) /\ Linked(r) /\ IInv /\ r \in Slots
    BY AskParts DEF Undisturbed, AskProgress, CIInv, Slots
  <2>3. ASSUME a.exit # 2
        PROVE  /\ a.dec \in Evaluate(AskIn(a), Stored("cf"), Stored("mw"), Stored("fe"))
               /\ a.exit = (IF a.dec.allowed THEN 0 ELSE 1)
               /\ AskIn(a).now \in AskInstants(r) /\ AskIn(a).nsLabels = Cached("ns").labels
               /\ AskIn(a).kind = a.q.kind /\ AskIn(a).action = a.action
    <3>1. /\ AskIn(a).now \in AskInstants(r) /\ a.exit = (IF a.dec.allowed THEN 0 ELSE 1)
      BY <2>3, AdviceParts
    <3>2. PICK i \in Versions(r, "cf"), m \in Versions(r, "mw"), e \in Versions(r, "fe"),
               readable \in BOOLEAN :
            /\ faults = 0 => readable
            /\ a.dec \in Evaluate(AskIn(a), hist.cf[i], hist.mw[m],
                                  IF readable THEN hist.fe[e] ELSE {})
      BY <2>3, AdviceParts
    <3>3. a.dec \in Evaluate(AskIn(a), Stored("cf"), Stored("mw"), Stored("fe"))
      BY <2>1, <2>2, <3>2
    <3>4. PICK n \in Versions(r, "ns") : a.nsLabels = hist.ns[n].labels
      BY <2>3, AdviceParts
    <3>5. AskIn(a).nsLabels = Cached("ns").labels
      BY <2>1, <3>4 DEF AskIn
    <3> QED
      BY <3>1, <3>3, <3>5 DEF AskIn
  <2>4. ASSUME Answered(r, {"allow", "deny"})
        PROVE  /\ c.dec \in Evaluate(In(c), Stored("cf"), Stored("mw"), Stored("fe"))
               /\ (c.resp = "allow") = c.dec.allowed
               /\ In(c).now \in AskInstants(r) /\ In(c).nsLabels = Cached("ns").labels
               /\ In(c).kind = a.q.kind /\ In(c).action = a.action
    <3>1. c.q = a.q /\ a.since.now <= arrived[r].now
      BY <2>2, <2>4 DEF Linked, Answered
    <3>2. c.t \in Instants(r) /\ Resolved(c) /\ (c.resp = "allow") = c.dec.allowed
      BY <2>2, <2>4, AnswerParts
    <3>3. PICK n \in Span(r, "ns") : InAt(r, c.t, n, c.action) = In(c)
      BY <2>2, <2>4, AnswerParts
    <3>4. PICK i \in Span(r, "cf"), m \in Span(r, "mw"), e \in Span(r, "fe"),
               readable \in BOOLEAN :
            /\ faults = 0 => readable
            /\ c.dec \in Evaluate(In(c), hist.cf[i], hist.mw[m], IF readable THEN hist.fe[e] ELSE {})
      BY <2>2, <2>4, AnswerParts
    <3>5. c.dec \in Evaluate(In(c), Stored("cf"), Stored("mw"), Stored("fe"))
      BY <2>1, <2>2, <3>4
    <3>6. In(c).now \in AskInstants(r)
      <4>1. arrived[r].now \in 1..now /\ a.since.now \in 1..now
        BY <2>2, AskParts, CallParts DEF ArrivalOK, AskedOK
      <4>2. now \in Nat
        BY <2>2 DEF IInv, TypeOK
      <4> QED
        BY <3>1, <3>2, <4>1, <4>2 DEF In, Instants, AskInstants
    <3>7. In(c).nsLabels = Cached("ns").labels
      <4>1. InAt(r, c.t, n, c.action).nsLabels = hist.ns[n].labels
        BY DEF InAt, In
      <4> QED
        BY <2>1, <3>3, <4>1
    <3>8. In(c).kind = a.q.kind
      BY <3>1, <3>2 DEF Resolved, In
    <3>9. In(c).action = a.action
      <4>1. Performs(c.q, a.action) /\ a.action \in Action
        BY <2>2, <3>1 DEF QuestionOK
      <4>2. Performs(c.q, c.action)
        BY <3>2, <4>1, SameRequests DEF Resolved, Gate!ActionsOf
      <4>3. c.action = a.action
        BY <4>1, <4>2, PerformsOne
      <4> QED
        BY <4>3 DEF In
    <3> QED
      BY <3>2, <3>5, <3>6, <3>7, <3>8, <3>9
  <2>5. ASSUME a.exit = 0, Answered(r, {"deny"}) PROVE FALSE
    <3>1. Answered(r, {"allow", "deny"}) /\ ~c.dec.allowed
      BY <2>4, <2>5 DEF Answered
    <3>2. ~a.dec.allowed
      BY <2>3, <2>4, <2>5, <3>1, UndisturbedDecisions
    <3> QED
      BY <2>3, <2>5, <3>2
  <2>6. ASSUME a.exit = 1, Answered(r, {"allow"}) PROVE FALSE
    <3>1. Answered(r, {"allow", "deny"}) /\ c.dec.allowed
      BY <2>4, <2>6 DEF Answered
    <3>2. ~a.dec.allowed
      BY <2>3, <2>6
    <3> QED
      BY <2>3, <2>4, <2>6, <3>1, <3>2, UndisturbedDecisions
  <2>7. ASSUME a.exit = 1, Answered(r, {"bypass"}) PROVE FALSE
    <3>1. c.q = a.q /\ Passed(r, c)
      BY <2>2, <2>7, CallParts DEF Linked, Answered, Progress
    <3>2. a.q.kind \in Kind
      BY <2>7, AskParts DEF AskProgress, AskClockRead
    <3>3. \A n \in Heard(r, "ns") : n \in Span(r, "ns")
      <4>1. "ns" \in Resource /\ TypeOK /\ ArrivalOK(r)
        BY <2>2, CallParts DEF Resource, IInv
      <4>2. seen["ns"] \in 1..Len(hist["ns"]) /\ Len(hist["ns"]) \in Nat
        BY <4>1, StoredVersions
      <4> QED
        BY <4>1, <4>2 DEF ArrivalOK, Heard, Span
    <3> QED
      BY <2>1, <2>2, <3>1, <3>2, <3>3 DEF Passed
  <2> QED
    BY <2>5, <2>6, <2>7 DEF Answered
<1> QED
  BY <1>1, CIInvariance, PTL
=============================================================================
