-------------------------- MODULE CronWindow_proofs --------------------------
(***************************************************************************)
(* What the search loop of internal/policy/windows.go finds, for every     *)
(* schedule, horizon and cap.                                              *)
(***************************************************************************)
EXTENDS CronWindow, FiniteSetTheorems, WellFoundedInduction, TLAPS

(* A set of natural numbers has a least member.                            *)
LEMMA Least ==
  ASSUME NEW S \in SUBSET Nat, S # {}
  PROVE  \E m \in S : \A n \in S : m <= n
<1>1. PICK m \in S : \A n \in S : ~(<<n, m>> \in OpToRel(<, Nat))
  BY NatLessThanWellFounded, WFMin
<1>2. \A n \in S : ~(n < m)
  BY <1>1 DEF OpToRel
<1> QED
  BY <1>2

(* Min is that member.                                                     *)
LEMMA MinIsLeast ==
  ASSUME NEW S \in SUBSET Nat, S # {}
  PROVE  Min(S) \in S /\ \A n \in S : Min(S) <= n
BY Least DEF Min

(* Max is the greatest member of a bounded set.                            *)
LEMMA MaxIsGreatest ==
  ASSUME NEW S \in SUBSET Nat, S # {}, NEW b \in Nat, \A n \in S : n <= b
  PROVE  Max(S) \in S /\ \A n \in S : n <= Max(S)
<1> DEFINE D == {b - n : n \in S}
<1>1. D \in SUBSET Nat /\ D # {}
  <2>1. \A n \in S : n \in Nat /\ n <= b
    OBVIOUS
  <2>2. \A n \in S : b - n \in Nat
    BY <2>1
  <2> QED
    BY <2>2
<1>2. PICK d \in D : \A e \in D : d <= e
  BY <1>1, Least
<1>3. PICK m \in S : d = b - m
  OBVIOUS
<1>4. ASSUME NEW n \in S PROVE m >= n
  <2>1. b - m <= b - n
    BY <1>2, <1>3
  <2>2. m \in Nat /\ n \in Nat
    OBVIOUS
  <2> QED
    BY <2>1, <2>2
<1> QED
  BY <1>4 DEF Max

(* The next start of a schedule lies ahead, with none in between.          *)
LEMMA NextStartIsNext ==
  ASSUME NEW starts \in SUBSET (Nat \ {0}), NEW t \in Nat
  PROVE  LET n == NextStart(starts, t)
         IN  /\ n \in Nat
             /\ n # NoTime => n \in starts /\ n > t
             /\ \A s \in starts : s > t => n # NoTime /\ n <= s
<1> DEFINE later == {s \in starts : s > t}
<1>1. CASE later = {}
  BY <1>1 DEF NextStart, NoTime
<1>2. CASE later # {}
  <2>1. later \in SUBSET Nat
    OBVIOUS
  <2>2. Min(later) \in later /\ \A n \in later : Min(later) <= n
    BY <1>2, <2>1, MinIsLeast
  <2>3. NextStart(starts, t) = Min(later)
    BY <1>2 DEF NextStart
  <2> HIDE DEF later
  <2>4. \A n : n \in later <=> n \in starts /\ n > t
    BY DEF later
  <2> QED
    BY <2>2, <2>3, <2>4 DEF NoTime
<1> QED
  BY <1>1, <1>2

(* Where no horizon is crowded, the loop visits every start in it.         *)
LEMMA VisitsAll ==
  ASSUME NEW w, w.starts \subseteq Nat \ {0}, NEW instants, NEW now \in Nat, now \in instants,
         WithinSearch(instants, w)
  PROVE  Visited(w.starts, now) = {s \in w.starts : now - SearchHorizon < s /\ s <= now}
<1> DEFINE recent == {s \in w.starts : now - SearchHorizon < s /\ s <= now}
<1>1. recent \in SUBSET Nat /\ \A s \in recent : s <= now
  OBVIOUS
<1>2. IsFiniteSet(recent)
  BY <1>1, FS_BoundedSetOfNaturals
<1>3. Cardinality(recent) \in Nat /\ Cardinality(recent) <= MaxIterations + 1
  BY <1>2, FS_CardinalityType DEF WithinSearch
<1>4. ASSUME NEW s \in recent
      PROVE  Cardinality({r \in recent : r <= s}) <= MaxIterations + 1
  <2> DEFINE T == {r \in recent : r <= s}
  <2>1. T \in SUBSET recent
    OBVIOUS
  <2>2. IsFiniteSet(T) /\ Cardinality(T) <= Cardinality(recent)
    BY <1>2, <2>1, FS_Subset
  <2>3. Cardinality(T) \in Nat
    BY <2>2, FS_CardinalityType
  <2> HIDE DEF recent, T
  <2>4. Cardinality(T) <= MaxIterations + 1
    BY <1>3, <2>2, <2>3, MaxIterationsAssumption
  <2> QED
    BY <2>4 DEF T
<1>5. Visited(w.starts, now) = {s \in recent : Cardinality({r \in recent : r <= s}) <= MaxIterations + 1}
  BY DEF Visited
<1> QED
  BY <1>4, <1>5

(* The bounded search is exact: it calls a window open exactly when some   *)
(* start of the schedule, found or not, is less than `duration' ago.       *)
THEOREM SearchDecidesOpen ==
  ASSUME NEW w, w.starts \subseteq Nat \ {0}, w.duration \in Int, NEW instants,
         NEW now \in Nat, now \in instants, WithinSearch(instants, w)
  PROVE  EvalCronWindow(now, w).active <=> WindowOpen(now, w)
<1> DEFINE recent == {s \in w.starts : now - SearchHorizon < s /\ s <= now}
           prev == PrevStart(w.starts, now)
<1>1. Visited(w.starts, now) = recent
  BY VisitsAll
<1>2. recent \in SUBSET Nat /\ \A s \in recent : s <= now
  OBVIOUS
<1>3. recent # {} => prev \in recent /\ \A s \in recent : s <= prev
  BY <1>1, <1>2, MaxIsGreatest DEF PrevStart
<1>4. recent = {} => prev = NoTime
  BY <1>1 DEF PrevStart
<1>5. EvalCronWindow(now, w).active <=> prev # NoTime /\ prev <= now /\ now < prev + w.duration
  BY DEF EvalCronWindow
<1>6. ASSUME NEW s \in w.starts, s <= now, now < s + w.duration
      PROVE  prev # NoTime /\ prev <= now /\ now < prev + w.duration
  <2>1. s \in recent
    BY <1>6, SearchHorizonAssumption DEF WithinSearch
  <2>2. prev \in recent /\ s <= prev
    BY <1>3, <2>1
  <2>3. prev \in Nat /\ prev # 0 /\ prev <= now /\ s \in Nat
    BY <2>2
  <2> HIDE DEF prev, recent
  <2> QED
    BY <1>6, <2>2, <2>3 DEF NoTime
<1>7. ASSUME prev # NoTime, now < prev + w.duration
      PROVE  WindowOpen(now, w)
  <2>1. prev \in recent
    BY <1>3, <1>4, <1>7
  <2>2. prev \in w.starts /\ prev <= now
    BY <2>1
  <2> HIDE DEF prev
  <2> QED
    BY <1>7, <2>2 DEF WindowOpen
<1> QED
  BY <1>5, <1>6, <1>7 DEF WindowOpen
=============================================================================
