----------------------------- MODULE Policy_proofs -----------------------------
(***************************************************************************)
(* What the operators of Policy.tla return, for any request and any        *)
(* collections of policies: the lemmas the proofs about the evaluator and  *)
(* about its callers share.                                                *)
(***************************************************************************)
EXTENDS Policy, CronWindow_proofs

-----------------------------------------------------------------------------
(* The windows of a maintenance policy *)

(* What a window is made of.                                               *)
LEMMA WindowParts ==
  ASSUME NEW mw \in MaintenanceWindow, NEW w \in mw.windows
  PROVE  w.valid \in BOOLEAN /\ w.starts \subseteq Nat \ {0} /\ w.starts \subseteq Time
         /\ w.duration \in Int
<1>1. w \in WindowType(Time)
  BY DEF MaintenanceWindow
<1> QED
  BY <1>1, TimeAssumption DEF WindowType

(* The windows that evaluate.                                              *)
LEMMA EvaluatedWindows ==
  ASSUME NEW mw, NEW now
  PROVE  \A r : r \in Evaluated(mw, now) <=>
                 \E w \in mw.windows : WindowOk(w) /\ r = EvalCronWindow(now, w)
<1>1. \A w : EvalCronWindow(now, w).ok = WindowOk(w)
  BY DEF EvalCronWindow
<1>2. \A r : r \in Evaluated(mw, now) <=>
              (\E w \in mw.windows : r = EvalCronWindow(now, w)) /\ r.ok
  BY DEF Evaluated
<1> QED
  BY <1>1, <1>2

(* The next start announced for a policy is the first that any of its      *)
(* windows has.                                                            *)
LEMMA BestNextIsFirst ==
  ASSUME NEW mw \in MaintenanceWindow, NEW now \in Nat
  PROVE  LET n == BestNext(mw, now)
         IN  /\ n \in MaybeTime
             /\ n # NilTime => \E w \in mw.windows : WindowOk(w) /\ NextStart(w.starts, now) = n
             /\ \A w \in mw.windows : WindowOk(w) =>
                   n # NilTime /\ n <= NextStart(w.starts, now)
<1> DEFINE nexts == {r.next : r \in Evaluated(mw, now)}
<1>1. \A n : n \in nexts <=> \E w \in mw.windows : WindowOk(w) /\ n = NextStart(w.starts, now)
  <2>1. \A w : EvalCronWindow(now, w).next = NextStart(w.starts, now)
    BY DEF EvalCronWindow
  <2>2. \A n : n \in nexts <=> \E r \in Evaluated(mw, now) : n = r.next
    OBVIOUS
  <2> QED
    BY <2>1, <2>2, EvaluatedWindows
<1>2. \A w \in mw.windows : NextStart(w.starts, now) \in Nat
  BY WindowParts, NextStartIsNext
<1>3. nexts \in SUBSET Nat
  BY <1>1, <1>2
<1>4. BestNext(mw, now) = IF nexts = {} THEN NilTime ELSE Min(nexts)
  BY DEF BestNext
<1> HIDE DEF nexts
<1>5. CASE nexts = {}
  BY <1>1, <1>4, <1>5 DEF MaybeTime, NilTime
<1>6. CASE nexts # {}
  <2>1. Min(nexts) \in nexts /\ \A n \in nexts : Min(nexts) <= n
    BY <1>3, <1>6, MinIsLeast
  <2>2. BestNext(mw, now) = Min(nexts) /\ Min(nexts) \in Nat
    BY <1>3, <1>4, <1>6, <2>1
  <2> QED
    BY <1>1, <2>1, <2>2 DEF MaybeTime, NilTime
<1> QED
  BY <1>5, <1>6

-----------------------------------------------------------------------------
(* The candidates *)

FreezeCandidate(cf) ==
  [ref |-> [kind |-> "ChangeFreeze", name |-> cf.name], next |-> cf.end, freezeEnd |-> cf.end]
WindowCandidate(mw, now) ==
  [ref |-> [kind |-> "MaintenanceWindow", name |-> mw.name],
   next |-> BestNext(mw, now), freezeEnd |-> NilTime]

(* Where a candidate comes from.                                           *)
LEMMA CandidateSources ==
  ASSUME NEW i, NEW F, NEW M
  PROVE  \A c : c \in CollectDenyCandidates(i, F, M) <=>
           \/ \E cf \in F : FreezeDenies(cf, i) /\ c = FreezeCandidate(cf)
           \/ \E mw \in M : WindowDenies(mw, i) /\ c = WindowCandidate(mw, i.now)
BY DEF CollectDenyCandidates, CollectChangeFreezes, CollectMaintenanceWindows,
       FreezeCandidate, WindowCandidate

(* A freeze is a candidate with a time, a policy of windows perhaps with   *)
(* none.                                                                   *)
LEMMA FreezeCandidateType ==
  ASSUME NEW cf \in ChangeFreeze
  PROVE  FreezeCandidate(cf) \in DenyCandidate
<1>1. cf.name \in Name /\ cf.end \in Time /\ cf.end \in Nat
  BY TimeAssumption DEF ChangeFreeze
<1> QED
  BY <1>1 DEF FreezeCandidate, DenyCandidate, DenyRef, MaybeTime

LEMMA WindowCandidateType ==
  ASSUME NEW mw \in MaintenanceWindow, NEW t \in Nat
  PROVE  WindowCandidate(mw, t) \in DenyCandidate
<1>1. mw.name \in Name
  BY DEF MaintenanceWindow
<1>2. BestNext(mw, t) \in MaybeTime
  BY BestNextIsFirst
<1> QED
  BY <1>1, <1>2 DEF WindowCandidate, DenyCandidate, DenyRef, MaybeTime

(* Candidates have their type, and nothing but reference and time tells    *)
(* them apart, whether or not the names are unique.                        *)
LEMMA CandidatesOfPolicies ==
  ASSUME NEW i, i.now \in Nat, NEW F \in SUBSET ChangeFreeze, NEW M \in SUBSET MaintenanceWindow
  PROVE  LET D == CollectDenyCandidates(i, F, M)
         IN  /\ D \subseteq DenyCandidate
             /\ \A c, d \in D : c.ref = d.ref /\ c.next = d.next => c = d
<1> DEFINE D == CollectDenyCandidates(i, F, M)
<1>1. D \subseteq DenyCandidate
  BY CandidateSources, FreezeCandidateType, WindowCandidateType
<1>2. ASSUME NEW c \in D
      PROVE  (\E cf \in F : c = FreezeCandidate(cf)) \/ \E mw \in M : c = WindowCandidate(mw, i.now)
  BY CandidateSources
<1>3. \A c \in D : \/ c.ref.kind = "ChangeFreeze" /\ c.freezeEnd = c.next
                   \/ c.ref.kind = "MaintenanceWindow" /\ c.freezeEnd = NilTime
  BY <1>2 DEF FreezeCandidate, WindowCandidate
<1>4. \A c \in D : c = [ref |-> c.ref, next |-> c.next, freezeEnd |-> c.freezeEnd]
  BY <1>1 DEF DenyCandidate
<1>5. ASSUME NEW c \in D, NEW d \in D, c.ref = d.ref, c.next = d.next PROVE c = d
  <2>1. c.freezeEnd = d.freezeEnd
    BY <1>3, <1>5
  <2> QED
    BY <1>4, <1>5, <2>1
<1> QED
  BY <1>1, <1>5

-----------------------------------------------------------------------------
(* The choice among the candidates *)

(* The order has a first element in every set of candidates: the earliest  *)
(* time, then the lowest name, then the kind.                              *)
LEMMA FirstExists ==
  ASSUME NEW D \in SUBSET DenyCandidate, D # {},
         \A c, d \in D : c.ref = d.ref /\ c.next = d.next => c = d
  PROVE  \E c \in D : \A d \in D \ {c} : Precedes(c, d)
<1> DEFINE Timed == {c \in D : c.next # NilTime}
           times == {c.next : c \in Timed}
<1>1. \A c \in D : c.next \in Nat \cup {NilTime} /\ c.ref.name \in Nat
  BY NameAssumption DEF DenyCandidate, DenyRef, MaybeTime
<1>2. \E next \in Nat \cup {NilTime} :
        /\ \E c \in D : c.next = next
        /\ \A d \in D : d.next # next =>
              next # NilTime /\ (d.next = NilTime \/ next < d.next)
  <2>1. CASE Timed = {}
    BY <1>1, <2>1
  <2>2. CASE Timed # {}
    <3>1. times \in SUBSET Nat /\ times # {}
      <4>1. \A c \in Timed : c.next \in Nat
        BY <1>1
      <4> QED
        BY <2>2, <4>1
    <3>2. PICK m \in times : \A n \in times : m <= n
      BY <3>1, Least
    <3>3. m \in Nat /\ m # NilTime
      BY <3>1 DEF NilTime
    <3>4. \E c \in D : c.next = m
      OBVIOUS
    <3>5. \A d \in D : d.next # NilTime => d.next \in Nat /\ m <= d.next
      BY <1>1, <3>2
    <3> HIDE DEF times, Timed
    <3> QED
      BY <3>3, <3>4, <3>5
  <2> QED
    BY <2>1, <2>2
<1>3. PICK next \in Nat \cup {NilTime} :
        /\ \E c \in D : c.next = next
        /\ \A d \in D : d.next # next =>
              next # NilTime /\ (d.next = NilTime \/ next < d.next)
  BY <1>2
<1> DEFINE names == {c.ref.name : c \in {e \in D : e.next = next}}
<1>4. names \in SUBSET Nat /\ names # {}
  <2>1. \A c \in {e \in D : e.next = next} : c.ref.name \in Nat
    BY <1>1
  <2>2. {e \in D : e.next = next} # {}
    BY <1>3
  <2> QED
    BY <2>1, <2>2
<1>5. PICK name \in names : \A n \in names : name <= n
  BY <1>4, Least
<1>6. name \in Nat /\ \E c \in D : c.next = next /\ c.ref.name = name
  BY <1>4
<1>7. \A d \in D : d.next = next => name <= d.ref.name
  BY <1>5
<1> HIDE DEF Timed, times, names
<1>8. PICK c \in D : /\ c.next = next /\ c.ref.name = name
                     /\ \A d \in D : d.next = next /\ d.ref.name = name
                                     /\ d.ref.kind = "ChangeFreeze" => c.ref.kind = "ChangeFreeze"
  BY <1>6
<1>9. ASSUME NEW d \in D \ {c} PROVE Precedes(c, d)
  <2>1. CASE d.next # next
    BY <1>3, <1>8, <2>1 DEF Precedes
  <2>2. CASE d.next = next /\ d.ref.name # name
    <3>1. name < d.ref.name
      <4>1. name <= d.ref.name /\ name \in Nat /\ d.ref.name \in Nat
        BY <1>1, <1>6, <1>7, <2>2
      <4> QED
        BY <2>2, <4>1
    <3> QED
      BY <1>8, <2>2, <3>1 DEF Precedes
  <2>3. CASE d.next = next /\ d.ref.name = name
    <3>1. \A e \in D : e.ref = [kind |-> e.ref.kind, name |-> e.ref.name]
                       /\ e.ref.kind \in {"ChangeFreeze", "MaintenanceWindow"}
      BY DEF DenyCandidate, DenyRef
    <3>2. c.ref.kind # d.ref.kind
      <4>1. c.next = d.next /\ c # d /\ d \in D
        BY <1>8, <2>3
      <4>2. c.ref # d.ref
        BY <4>1
      <4> QED
        BY <1>8, <2>3, <3>1, <4>2
    <3>3. c.ref.kind = "ChangeFreeze" /\ d.ref.kind = "MaintenanceWindow"
      BY <1>8, <2>3, <3>1, <3>2
    <3> QED
      BY <1>8, <2>3, <3>3 DEF Precedes
  <2> QED
    BY <2>1, <2>2, <2>3
<1> QED
  BY <1>8, <1>9

(* Two candidates never precede each other.                                *)
LEMMA PrecedesIsAsymmetric ==
  ASSUME NEW c \in DenyCandidate, NEW d \in DenyCandidate, Precedes(c, d)
  PROVE  ~Precedes(d, c)
<1>1. /\ c.next \in Nat \cup {NilTime} /\ c.ref.name \in Nat
      /\ d.next \in Nat \cup {NilTime} /\ d.ref.name \in Nat
  BY NameAssumption DEF DenyCandidate, DenyRef, MaybeTime
<1> QED
  BY <1>1 DEF Precedes, NilTime

(* So exactly one candidate is chosen, and it is one of them.              *)
LEMMA OneIsFirst ==
  ASSUME NEW D \in SUBSET DenyCandidate, D # {},
         \A c, d \in D : c.ref = d.ref /\ c.next = d.next => c = d
  PROVE  LET c == SelectDenyCandidate(D)
         IN  c \in D /\ First(D) = {c}
<1>1. PICK c \in D : \A d \in D \ {c} : Precedes(c, d)
  BY FirstExists
<1>2. \A d \in D : d # c => ~Precedes(d, c)
  BY <1>1, PrecedesIsAsymmetric
<1>3. First(D) = {c}
  BY <1>1, <1>2 DEF First
<1>4. SelectDenyCandidate(D) = c
  BY <1>3 DEF SelectDenyCandidate
<1> QED
  BY <1>1, <1>3, <1>4

-----------------------------------------------------------------------------
(* The decision *)

(* An override is the reference of an exception that admits the change;    *)
(* there is none exactly when no exception does.                           *)
LEMMA OverridesAdmit ==
  ASSUME NEW i, NEW E, NEW o \in Overrides(i, E)
  PROVE  /\ o # NoRef => \E ex \in E : /\ Admits(ex, i)
                                      /\ o = [kind |-> "FreezeException", name |-> ex.name]
         /\ o = NoRef => \A ex \in E : ~Admits(ex, i)
BY DEF Overrides, NoRef

LEMMA OverrideType ==
  ASSUME NEW i, NEW E \in SUBSET FreezeException, NEW o \in Overrides(i, E)
  PROVE  o \in OverrideRef \cup {NoRef}
<1>1. \A ex \in E : ex.name \in Name
  BY DEF FreezeException
<1> QED
  BY <1>1, OverridesAdmit DEF OverrideRef

(* A decision on candidates of their type has its type.                    *)
LEMMA DecideType ==
  ASSUME NEW D \in SUBSET DenyCandidate, D # {},
         \A c, d \in D : c.ref = d.ref /\ c.next = d.next => c = d,
         NEW o \in OverrideRef \cup {NoRef}
  PROVE  Decide(D, o) \in Decision
<1>1. SelectDenyCandidate(D) \in DenyCandidate
  BY OneIsFirst
<1> QED
  BY <1>1 DEF Decide, Decision, DenyCandidate

(* What a decision is made of.                                             *)
LEMMA EvaluateParts ==
  ASSUME NEW i, NEW F, NEW M, NEW E, NEW d \in Evaluate(i, F, M, E)
  PROVE  LET D == CollectDenyCandidates(i, F, M)
         IN  \/ D = {} /\ d = AllowAll
             \/ D # {} /\ \E o \in Overrides(i, E) : d = Decide(D, o)
BY DEF Evaluate

LEMMA EvaluateType ==
  ASSUME NEW i, i.now \in Nat, NEW F \in SUBSET ChangeFreeze,
         NEW M \in SUBSET MaintenanceWindow, NEW E \in SUBSET FreezeException
  PROVE  Evaluate(i, F, M, E) \subseteq Decision
<1> SUFFICES ASSUME NEW d \in Evaluate(i, F, M, E) PROVE d \in Decision
  OBVIOUS
<1> DEFINE D == CollectDenyCandidates(i, F, M)
<1>1. CASE d = AllowAll
  BY <1>1 DEF AllowAll, Decision, MaybeTime
<1>2. CASE D # {} /\ \E o \in Overrides(i, E) : d = Decide(D, o)
  BY <1>2, CandidatesOfPolicies, OverrideType, DecideType
<1> QED
  BY <1>1, <1>2, EvaluateParts

(* A denial is the candidate that was chosen, and no exception admits the  *)
(* change.                                                                 *)
LEMMA DenialOfCandidate ==
  ASSUME NEW i, i.now \in Nat, NEW F \in SUBSET ChangeFreeze,
         NEW M \in SUBSET MaintenanceWindow, NEW E,
         NEW d \in Evaluate(i, F, M, E), ~d.allowed
  PROVE  /\ \E c \in CollectDenyCandidates(i, F, M) : d.policy = c.ref /\ d.next = c.next
         /\ \A ex \in E : ~Admits(ex, i)
<1> DEFINE D == CollectDenyCandidates(i, F, M)
<1>1. d # AllowAll
  BY DEF AllowAll
<1>2. D # {}
  BY <1>1, EvaluateParts
<1>3. PICK o \in Overrides(i, E) : d = Decide(D, o)
  BY <1>1, EvaluateParts
<1>4. SelectDenyCandidate(D) \in D
  BY <1>2, CandidatesOfPolicies, OneIsFirst
<1>5. o = NoRef
  BY <1>3 DEF Decide
<1> QED
  BY <1>3, <1>4, <1>5, OverridesAdmit DEF Decide

(* What is allowed although a policy denies it, an exception admits.       *)
LEMMA AllowanceIsExcepted ==
  ASSUME NEW i, NEW F, NEW M, NEW E, NEW d \in Evaluate(i, F, M, E), d.allowed,
         CollectDenyCandidates(i, F, M) # {}
  PROVE  \E ex \in E : Admits(ex, i)
<1>1. PICK o \in Overrides(i, E) : d = Decide(CollectDenyCandidates(i, F, M), o)
  BY EvaluateParts
<1>2. o # NoRef
  BY <1>1 DEF Decide
<1> QED
  BY <1>2, OverridesAdmit
=============================================================================
