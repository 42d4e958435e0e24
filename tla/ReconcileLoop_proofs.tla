------------------------ MODULE ReconcileLoop_proofs ------------------------
(***************************************************************************)
(* Safety of the reconcile loop of a policy, for any specs, edits, faults, *)
(* requeue intervals and lag of the cache: the types, the status of an     *)
(* exception, the events, and that the timer never outsleeps a change.     *)
(***************************************************************************)
EXTENDS ReconcileLoop, CronWindow_proofs

-----------------------------------------------------------------------------
(* The inductive invariant *)

KindOK == Stored # Absent => Stored.spec.kind = kind

(* What is known of a pass before it writes, whatever has happened to the  *)
(* policy since it began: which copy and instant it computed from, that    *)
(* the event of a change it has found was sent, that its copy is what is   *)
(* stored if no later version is, and that it works on the cached copy     *)
(* unless the queue holds the policy again.                                *)
PassOK ==
  pass # Idle =>
    /\ pass.t <= now
    /\ pass.ok = Evaluates(pass.copy.spec)
    /\ pass.status = IF pass.ok THEN Computed(pass.copy, pass.t) ELSE NotReady(pass.copy)
    /\ pass.status.active # pass.copy.status.active => told = FlagOf(pass.status.active)
    /\ pass.current => Len(log) = 1 /\ pass.copy = Stored
    /\ ~queued => pass.copy = Cached

(* A policy at rest has the status and the gauge, and a timer no later     *)
(* than the wait, that the evaluation at one instant gave.                 *)
EvaluatedAt(t) ==
  /\ Evaluates(Stored.spec) /\ gauge = FlagOf(Stored.status.active)
  /\ Stored.status = Computed(Stored, t)
  /\ timer # NoTimer /\ timer <= t + delay + Wake(Stored.spec, t)
Scheduled == Settled => \E t \in 1..now : EvaluatedAt(t)

RLInv == TypeOK /\ KindOK /\ PassOK /\ Scheduled /\ StatusIsOfItsGeneration

-----------------------------------------------------------------------------
(* Windows and the wait *)

PolicySpecs == Initial \cup Specs

(* The windows of a maintenance policy, taken one by one.                  *)
LEMMA WindowsOf ==
  ASSUME NEW s \in PolicySpecs, s.kind = "MaintenanceWindow"
  PROVE  /\ Len(s.windows) \in Nat \ {0}
         /\ DOMAIN s.windows = 1..Len(s.windows)
         /\ Range(s.windows) # {}
         /\ \A i \in 1..Len(s.windows) : s.windows[i] \in Range(s.windows)
         /\ \A w \in Range(s.windows) :
              /\ \E i \in 1..Len(s.windows) : w = s.windows[i]
              /\ w.starts \subseteq Nat \ {0} /\ w.duration \in Int
              /\ Endless(w.starts, MaxTime) /\ WithinSearch(Time, w)
<1>1. /\ s.windows \in Seq(WindowType(Nat \ {0})) /\ s.windows # <<>>
      /\ \A w \in Range(s.windows) : Endless(w.starts, MaxTime) /\ WithinSearch(Time, w)
  BY SpecAssumption DEF PolicySpecs, Kinds
<1>2. /\ Len(s.windows) \in Nat /\ DOMAIN s.windows = 1..Len(s.windows)
      /\ Len(s.windows) # 0
      /\ \A i \in 1..Len(s.windows) : s.windows[i] \in WindowType(Nat \ {0})
  BY <1>1
<1>3. \A w : w \in Range(s.windows) <=> \E i \in 1..Len(s.windows) : w = s.windows[i]
  BY <1>2 DEF Range
<1>4. \A w \in WindowType(Nat \ {0}) : w.starts \subseteq Nat \ {0} /\ w.duration \in Int
  BY DEF WindowType
<1>5. s.windows[1] \in Range(s.windows)
  BY <1>2, <1>3
<1> QED
  BY <1>1, <1>2, <1>3, <1>4, <1>5

(* The search finds a natural number: a start, or NoTime.                  *)
LEMMA PrevStartType ==
  ASSUME NEW starts, starts \subseteq Nat \ {0}, NEW t \in Nat
  PROVE  /\ PrevStart(starts, t) \in Nat
         /\ PrevStart(starts, t) # NoTime => PrevStart(starts, t) \in starts
<1> DEFINE visited == Visited(starts, t)
<1>1. visited \in SUBSET Nat /\ visited \subseteq starts /\ \A n \in visited : n <= t
  BY DEF Visited
<1>2. CASE visited = {}
  BY <1>2 DEF PrevStart, NoTime
<1>3. CASE visited # {}
  <2>1. Max(visited) \in visited
    BY <1>1, <1>3, MaxIsGreatest
  <2>2. PrevStart(starts, t) = Max(visited)
    BY <1>3 DEF PrevStart
  <2> QED
    BY <1>1, <2>1, <2>2
<1> QED
  BY <1>2, <1>3

(* An open window is open for some more time, and until that is over.      *)
LEMMA OpenFor ==
  ASSUME NEW w, w.starts \subseteq Nat \ {0}, w.duration \in Int, NEW t \in Nat,
         EvalCronWindow(t, w).active
  PROVE  /\ TimeLeft(w, t) \in Nat \ {0}
         /\ \A u \in Nat : t <= u /\ u < t + TimeLeft(w, t) => WindowOpen(u, w)
<1> DEFINE prev == PrevStart(w.starts, t)
<1>1. prev \in Nat /\ prev # NoTime /\ prev <= t /\ t < prev + w.duration /\ prev \in w.starts
  BY PrevStartType DEF EvalCronWindow
<1>2. TimeLeft(w, t) = prev + w.duration - t
  BY DEF TimeLeft
<1>3. ASSUME NEW u \in Nat, t <= u, u < t + TimeLeft(w, t)
      PROVE  WindowOpen(u, w)
  <2>1. prev <= u /\ u < prev + w.duration
    BY <1>1, <1>2, <1>3
  <2> QED
    BY <1>1, <2>1 DEF WindowOpen
<1> QED
  BY <1>1, <1>2, <1>3

(* One step of the shortening.                                             *)
Shorten(w, t, ra) ==
  IF EvalCronWindow(t, w).active /\ TimeLeft(w, t) < ra THEN TimeLeft(w, t) + Second ELSE ra

Shortens(f, ws, t, n) ==
  f = [i \in 0..n |-> IF i = 0 THEN DefaultRequeue ELSE Shorten(ws[i], t, f[i - 1])]

(* The recursion defines a function: there is no least n it fails for.     *)
LEMMA ShortenedExists ==
  ASSUME NEW ws, NEW t, NEW n \in Nat
  PROVE  \E f : Shortens(f, ws, t, n)
<1> DEFINE Defined(m) == \E f : Shortens(f, ws, t, m)
           Missing == {m \in Nat : ~Defined(m)}
<1>1. Defined(0)
  <2>1. [i \in 0..0 |-> DefaultRequeue]
          = [i \in 0..0 |-> IF i = 0 THEN DefaultRequeue
                            ELSE Shorten(ws[i], t, [j \in 0..0 |-> DefaultRequeue][i - 1])]
    OBVIOUS
  <2> QED
    BY <2>1 DEF Shortens
<1>2. ASSUME NEW m \in Nat, Defined(m)
      PROVE  Defined(m + 1)
  <2>1. PICK f : f = [i \in 0..m |-> IF i = 0 THEN DefaultRequeue ELSE Shorten(ws[i], t, f[i - 1])]
    BY <1>2 DEF Shortens
  <2> DEFINE g == [i \in 0..m + 1 |-> IF i = m + 1 THEN Shorten(ws[m + 1], t, f[m]) ELSE f[i]]
  <2>2. ASSUME NEW i \in 0..m + 1
        PROVE  g[i] = IF i = 0 THEN DefaultRequeue ELSE Shorten(ws[i], t, g[i - 1])
    <3>1. CASE i = m + 1
      BY <3>1
    <3>2. CASE i = 0
      BY <2>1, <3>2
    <3>3. CASE i \in 1..m
      <4>1. g[i] = f[i] /\ g[i - 1] = f[i - 1] /\ i # 0
        BY <3>3
      <4>2. f[i] = Shorten(ws[i], t, f[i - 1])
        BY <2>1, <3>3
      <4> QED
        BY <4>1, <4>2
    <3> QED
      BY <3>1, <3>2, <3>3
  <2>3. g = [i \in 0..m + 1 |-> g[i]]
    OBVIOUS
  <2> HIDE DEF g
  <2>4. g = [i \in 0..m + 1 |-> IF i = 0 THEN DefaultRequeue ELSE Shorten(ws[i], t, g[i - 1])]
    BY <2>2, <2>3
  <2> QED
    BY <2>4 DEF Shortens
<1> HIDE DEF Defined
<1>3. SUFFICES ASSUME Missing # {} PROVE FALSE
  BY DEF Defined
<1>4. PICK m \in Missing : \A k \in Missing : m <= k
  BY <1>3, Least
<1>5. m \in Nat /\ m # 0
  BY <1>1
<1>6. m - 1 \in Nat /\ Defined(m - 1)
  BY <1>4, <1>5
<1>7. Defined((m - 1) + 1)
  BY <1>2, <1>6
<1> QED
  BY <1>5, <1>7

(* The loop over the windows, one step at a time.                          *)
LEMMA ShortenedSteps ==
  ASSUME NEW s, Len(s.windows) \in Nat, NEW t
  PROVE  /\ Shortened(s, t)[0] = DefaultRequeue
         /\ \A i \in 1..Len(s.windows) :
              Shortened(s, t)[i] = Shorten(s.windows[i], t, Shortened(s, t)[i - 1])
<1> DEFINE n == Len(s.windows)
           sh == Shortened(s, t)
<1>1. Shortened(s, t) = CHOOSE f : Shortens(f, s.windows, t, n)
  BY DEF Shortened, Shorten, Shortens
<1>2. \E f : Shortens(f, s.windows, t, n)
  BY ShortenedExists
<1>3. Shortens(sh, s.windows, t, n)
  BY <1>1, <1>2
<1>4. 0 \in 0..n /\ \A i \in 1..n : i \in 0..n /\ i # 0
  OBVIOUS
<1> HIDE DEF sh, n
<1>5. sh[0] = DefaultRequeue /\ \A i \in 1..n : sh[i] = Shorten(s.windows[i], t, sh[i - 1])
  BY <1>3, <1>4 DEF Shortens
<1> QED
  BY <1>5 DEF sh, n

(* Whatever order the windows come in: the wait is the default one, and    *)
(* every open window is open for at least as long, or it ends a second     *)
(* after some open window does.                                            *)
WaitsFor(s, t, m, ra) ==
  \/ /\ ra = DefaultRequeue
     /\ \A i \in 1..m : EvalCronWindow(t, s.windows[i]).active => ra <= TimeLeft(s.windows[i], t)
  \/ \E i \in 1..m : /\ EvalCronWindow(t, s.windows[i]).active
                     /\ ra = TimeLeft(s.windows[i], t) + Second

LEMMA ShortenedWaits ==
  ASSUME NEW s \in PolicySpecs, s.kind = "MaintenanceWindow", NEW t \in Nat,
         NEW m \in 0..Len(s.windows)
  PROVE  WaitsFor(s, t, m, Shortened(s, t)[m])
<1> DEFINE n == Len(s.windows)
           sh == Shortened(s, t)
           Fails == {k \in 0..n : ~WaitsFor(s, t, k, sh[k])}
<1>1. n \in Nat
  BY WindowsOf
<1>2. sh[0] = DefaultRequeue
      /\ \A i \in 1..n : sh[i] = Shorten(s.windows[i], t, sh[i - 1])
  BY <1>1, ShortenedSteps
<1>3. \A i \in 1..n : EvalCronWindow(t, s.windows[i]).active => TimeLeft(s.windows[i], t) \in Nat \ {0}
  BY WindowsOf, OpenFor
<1> HIDE DEF sh
<1>4. WaitsFor(s, t, 0, sh[0])
  BY <1>2 DEF WaitsFor
<1>5. ASSUME NEW k \in 1..n, WaitsFor(s, t, k - 1, sh[k - 1])
      PROVE  WaitsFor(s, t, k, sh[k])
  <2> DEFINE w == s.windows[k]
             ra == sh[k - 1]
  <2>1. CASE EvalCronWindow(t, w).active /\ TimeLeft(w, t) < ra
    BY <1>2, <2>1 DEF WaitsFor, Shorten
  <2>2. CASE ~(EvalCronWindow(t, w).active /\ TimeLeft(w, t) < ra)
    <3>1. sh[k] = ra
      BY <1>2, <2>2 DEF Shorten
    <3>2. CASE \E i \in 1..k - 1 : /\ EvalCronWindow(t, s.windows[i]).active
                                   /\ ra = TimeLeft(s.windows[i], t) + Second
      BY <3>1, <3>2 DEF WaitsFor
    <3>3. CASE /\ ra = DefaultRequeue
               /\ \A i \in 1..k - 1 : EvalCronWindow(t, s.windows[i]).active
                                        => ra <= TimeLeft(s.windows[i], t)
      <4>1. ra \in Nat
        BY <3>3, RequeueAssumption
      <4>2. EvalCronWindow(t, w).active => ra <= TimeLeft(w, t)
        BY <1>3, <2>2, <4>1
      <4>3. \A i \in 1..k : i \in 1..k - 1 \/ i = k
        OBVIOUS
      <4> QED
        BY <3>1, <3>3, <4>2, <4>3 DEF WaitsFor
    <3> QED
      BY <1>5, <3>2, <3>3 DEF WaitsFor
  <2> QED
    BY <2>1, <2>2
<1>6. CASE Fails # {}
  <2> DEFINE F == Fails
  <2>0. F \in SUBSET Nat /\ F # {}
    BY <1>1, <1>6
  <2> HIDE DEF F
  <2>1. PICK k \in F : \A j \in F : k <= j
    BY <2>0, Least
  <2> USE DEF F
  <2>2. k \in 1..n
    BY <1>1, <1>4
  <2>3. WaitsFor(s, t, k - 1, sh[k - 1])
    BY <1>1, <2>1, <2>2
  <2> QED
    BY <1>5, <2>2, <2>3
<1>7. CASE Fails = {}
  BY <1>7 DEF sh
<1> QED
  BY <1>6, <1>7

(* What the results of the windows add up to.                              *)
LEMMA ResultsOf ==
  ASSUME NEW s \in PolicySpecs, s.kind = "MaintenanceWindow", NEW t \in Nat
  PROVE  /\ ActiveAt(s, t) <=> \E i \in 1..Len(s.windows) : EvalCronWindow(t, s.windows[i]).active
         /\ EarliestNext(s, t) \in Nat
         /\ \E w \in Range(s.windows) : EarliestNext(s, t) = NextStart(w.starts, t)
         /\ \A w \in Range(s.windows) : EarliestNext(s, t) <= NextStart(w.starts, t)
<1>1. \A r : r \in Results(s, t) <=> \E w \in Range(s.windows) : r = EvalCronWindow(t, w)
  BY DEF Results
<1>2. ActiveAt(s, t) <=> \E w \in Range(s.windows) : EvalCronWindow(t, w).active
  BY <1>1 DEF ActiveAt
<1>3. ActiveAt(s, t) <=> \E i \in 1..Len(s.windows) : EvalCronWindow(t, s.windows[i]).active
  BY <1>2, WindowsOf
<1> DEFINE nexts == {r.next : r \in Results(s, t)}
<1>4. \A w : EvalCronWindow(t, w).next = NextStart(w.starts, t)
  BY DEF EvalCronWindow
<1>5. \A n : n \in nexts <=> \E w \in Range(s.windows) : n = NextStart(w.starts, t)
  BY <1>1, <1>4
<1>6. \A w \in Range(s.windows) : NextStart(w.starts, t) \in Nat
  BY WindowsOf, NextStartIsNext
<1>7. EarliestNext(s, t) = Min(nexts)
  BY DEF EarliestNext
<1> HIDE DEF nexts
<1>8. nexts \in SUBSET Nat /\ nexts # {}
  <2>1. PICK w : w \in Range(s.windows)
    BY WindowsOf
  <2>2. NextStart(w.starts, t) \in nexts
    BY <1>5, <2>1
  <2> QED
    BY <1>5, <1>6, <2>2
<1>9. Min(nexts) \in nexts /\ \A n \in nexts : Min(nexts) <= n
  BY <1>8, MinIsLeast
<1> QED
  BY <1>3, <1>5, <1>7, <1>8, <1>9

(* The start of an active window that a status shows.                      *)
LEMMA ActiveStartType ==
  ASSUME NEW s \in PolicySpecs, s.kind = "MaintenanceWindow", NEW t \in Nat
  PROVE  ActiveStart(s, t) \in Int
<1> DEFINE open == {i \in DOMAIN s.windows : EvalCronWindow(t, s.windows[i]).active}
<1>1. CASE open = {}
  BY <1>1 DEF ActiveStart, NoTime
<1>2. CASE open # {}
  <2>1. Len(s.windows) \in Nat /\ open \in SUBSET (1..Len(s.windows))
    BY WindowsOf
  <2>2. open \in SUBSET Nat /\ \A i \in open : i <= Len(s.windows)
    BY <2>1
  <2> DEFINE o == open
             last == Max(o)
  <2> HIDE DEF o
  <2>3. last \in o
    BY <1>2, <2>1, <2>2, MaxIsGreatest DEF o
  <2>4. s.windows[last] \in Range(s.windows)
    BY <2>1, <2>3, WindowsOf DEF o
  <2>5. PrevStart(s.windows[last].starts, t) \in Nat
    BY <2>4, WindowsOf, PrevStartType
  <2>6. ActiveStart(s, t) = PrevStart(s.windows[last].starts, t)
    BY <1>2 DEF ActiveStart, o
  <2> QED
    BY <2>5, <2>6
<1> QED
  BY <1>1, <1>2

(* Every wait is a positive length of time.                                *)
LEMMA WakeType ==
  ASSUME NEW s \in PolicySpecs, NEW t \in Nat
  PROVE  Wake(s, t) \in Nat \ {0}
<1>1. CASE s.kind = "MaintenanceWindow"
  <2> DEFINE n == Len(s.windows)
             after == Shortened(s, t)[n]
             soon == EarliestNext(s, t) - t
  <2>1. n \in Nat /\ \A i \in 1..n : EvalCronWindow(t, s.windows[i]).active
                                       => TimeLeft(s.windows[i], t) \in Nat \ {0}
    BY <1>1, WindowsOf, OpenFor
  <2>2. WaitsFor(s, t, n, after)
    BY <1>1, <2>1, ShortenedWaits
  <2> HIDE DEF after
  <2>3. after \in Nat \ {0}
    BY <2>1, <2>2, RequeueAssumption DEF WaitsFor
  <2>4. soon \in Int
    BY <1>1, ResultsOf
  <2>5. WakeWindows(s, t) = IF ~ActiveAt(s, t) /\ soon > 0 /\ soon < after
                            THEN soon + Second ELSE after
    BY DEF WakeWindows, after
  <2> HIDE DEF soon
  <2>6. WakeWindows(s, t) \in Nat \ {0}
    BY <2>3, <2>4, <2>5, RequeueAssumption
  <2> QED
    BY <1>1, <2>6 DEF Wake
<1>2. CASE s.kind # "MaintenanceWindow"
  <2>1. s.start \in Nat /\ s.end \in Nat
    BY <1>2, SpecAssumption DEF PolicySpecs
  <2>2. t < s.start => WakeInterval(s, t) = s.start - t + Second
    BY <2>1 DEF WakeInterval, InInterval
  <2>3. InInterval(s, t) => WakeInterval(s, t) = s.end - t + Second
    BY <2>1 DEF WakeInterval, InInterval
  <2>4. ~(t < s.start) /\ ~InInterval(s, t) => WakeInterval(s, t) = EndedRequeue
    BY DEF WakeInterval
  <2>5. InInterval(s, t) => t < s.end
    BY DEF InInterval
  <2> HIDE DEF InInterval
  <2>6. WakeInterval(s, t) \in Nat \ {0}
    BY <2>1, <2>2, <2>3, <2>4, <2>5, RequeueAssumption
  <2> QED
    BY <1>2, <2>6 DEF Wake
<1> QED
  BY <1>1, <1>2

(* Evaluated once, a policy stays as it was found up to a second before    *)
(* the pass after next is due: no window closes, and none that starts some *)
(* time opens, within the wait.                                            *)
LEMMA WakeInTime ==
  ASSUME NEW s \in PolicySpecs, Recurs(s), NEW t0 \in Time, NEW t \in Time, t0 <= t,
         t + Second < t0 + Wake(s, t0)
  PROVE  ActiveAt(s, t0) <=> Holds(s, t)
<1>0. t0 \in Nat /\ t \in Nat /\ t <= MaxTime /\ MaxTime \in Nat /\ Second \in Nat /\ DefaultRequeue \in Nat
  BY BoundAssumption, RequeueAssumption DEF Time
<1>1. CASE s.kind # "MaintenanceWindow"
  <2>1. s.start \in Nat /\ s.end \in Nat
    BY <1>1, SpecAssumption DEF PolicySpecs
  <2>2. t0 < s.start => Wake(s, t0) = s.start - t0 + Second
    BY <1>0, <1>1, <2>1 DEF Wake, WakeInterval, InInterval
  <2>3. s.start <= t0 /\ t0 < s.end => Wake(s, t0) = s.end - t0 + Second
    BY <1>0, <1>1, <2>1 DEF Wake, WakeInterval, InInterval
  <2>4. (s.start <= t0 /\ t0 < s.end) <=> (s.start <= t /\ t < s.end)
    BY <1>0, <2>1, <2>2, <2>3
  <2> QED
    BY <1>1, <2>4 DEF ActiveAt, Holds, InInterval
<1>2. CASE s.kind = "MaintenanceWindow"
  <2> DEFINE n == Len(s.windows)
             after == Shortened(s, t0)[n]
             soon == EarliestNext(s, t0) - t0
             Open(w) == EvalCronWindow(t0, w).active
  <2>1. n \in Nat /\ WaitsFor(s, t0, n, after)
    BY <1>0, <1>2, WindowsOf, ShortenedWaits
  <2>2. Wake(s, t0) = IF ~ActiveAt(s, t0) /\ soon > 0 /\ soon < after
                      THEN soon + Second ELSE after
    BY <1>2 DEF Wake, WakeWindows
  <2>3. \A i \in 1..n : Open(s.windows[i]) =>
             /\ TimeLeft(s.windows[i], t0) \in Nat
             /\ t < t0 + TimeLeft(s.windows[i], t0) => WindowOpen(t, s.windows[i])
    BY <1>0, <1>2, WindowsOf, OpenFor
  <2> HIDE DEF after
  <2>4. CASE ActiveAt(s, t0)
    <3>1. t + Second < t0 + after
      BY <2>2, <2>4
    <3>2. \E i \in 1..n : Open(s.windows[i])
      BY <1>0, <1>2, <2>4, ResultsOf
    <3>3. \E i \in 1..n : WindowOpen(t, s.windows[i])
      <4>1. CASE \E i \in 1..n : Open(s.windows[i]) /\ after = TimeLeft(s.windows[i], t0) + Second
        BY <1>0, <2>3, <3>1, <4>1
      <4>2. CASE /\ after = DefaultRequeue
                 /\ \A i \in 1..n : Open(s.windows[i]) => after <= TimeLeft(s.windows[i], t0)
        BY <1>0, <2>3, <3>1, <3>2, <4>2
      <4> QED
        BY <2>1, <4>1, <4>2 DEF WaitsFor
    <3>4. Holds(s, t)
      BY <1>2, <3>3, WindowsOf DEF Holds
    <3> QED
      BY <2>4, <3>4
  <2>5. CASE ~ActiveAt(s, t0)
    <3>1. \A i \in 1..n : ~Open(s.windows[i])
      BY <1>0, <1>2, <2>5, ResultsOf
    <3>2. after = DefaultRequeue
      BY <2>1, <3>1 DEF WaitsFor
    <3>3. \A w \in Range(s.windows) : NextStart(w.starts, t0) > t0
      <4> SUFFICES ASSUME NEW w \in Range(s.windows) PROVE NextStart(w.starts, t0) > t0
        OBVIOUS
      <4>1. w.starts \subseteq Nat \ {0} /\ \E x \in w.starts : x > MaxTime
        BY <1>2, WindowsOf DEF Recurs, Endless
      <4>2. \E x \in w.starts : x > t0
        BY <1>0, <4>1
      <4> QED
        BY <1>0, <4>1, <4>2, NextStartIsNext
    <3>4. EarliestNext(s, t0) \in Nat /\ EarliestNext(s, t0) > t0
      BY <1>0, <1>2, <3>3, ResultsOf
    <3>5. t < EarliestNext(s, t0)
      BY <1>0, <2>2, <2>5, <3>2, <3>4
    <3>6. ASSUME NEW w \in Range(s.windows), WindowOpen(t, w)
          PROVE  FALSE
      <4>1. w.starts \subseteq Nat \ {0} /\ w.duration \in Int /\ WithinSearch(Time, w)
        BY <1>2, WindowsOf
      <4>2. ~Open(w)
        BY <1>2, <3>1, WindowsOf
      <4>3. ~WindowOpen(t0, w)
        BY <1>0, <4>1, <4>2, SearchDecidesOpen
      <4>4. PICK x \in w.starts : x <= t /\ t < x + w.duration
        BY <3>6 DEF WindowOpen
      <4>5. x > t0
        BY <1>0, <4>1, <4>3, <4>4 DEF WindowOpen
      <4>6. NextStart(w.starts, t0) \in Nat /\ NextStart(w.starts, t0) <= x
        BY <1>0, <4>1, <4>5, NextStartIsNext
      <4>7. EarliestNext(s, t0) <= NextStart(w.starts, t0)
        BY <1>0, <1>2, ResultsOf
      <4> QED
        BY <1>0, <3>4, <3>5, <4>1, <4>4, <4>6, <4>7
    <3>7. ~Holds(s, t)
      BY <1>2, <3>6 DEF Holds
    <3> QED
      BY <2>5, <3>7
  <2> QED
    BY <2>4, <2>5
<1> QED
  BY <1>1, <1>2

-----------------------------------------------------------------------------
(* Versions and statuses *)

Versions == Version \cup {Absent}

(* What a version and its status are made of.                              *)
LEMMA VersionParts ==
  ASSUME NEW v \in Version
  PROVE  /\ v # Absent /\ v.gen \in Nat \ {0} /\ v.spec \in PolicySpecs /\ v.status \in Status
         /\ v = [gen |-> v.gen, spec |-> v.spec, status |-> v.status]
BY DEF Version, Absent, PolicySpecs

LEMMA StatusParts ==
  ASSUME NEW s \in Status
  PROVE  /\ s.active \in BOOLEAN /\ s.observed \in Nat /\ s.conditions \in Conditions
         /\ s.remaining \in BOOLEAN /\ s.window \in Int /\ s.next \in Int
BY DEF Status

(* A user's edit and a patch of the status make versions of versions.      *)
LEMMA EditedVersion ==
  ASSUME NEW v \in Version, NEW s \in Specs
  PROVE  LET w == [v EXCEPT !.gen = @ + 1, !.spec = s]
         IN  w \in Version /\ w.spec = s /\ w.gen = v.gen + 1 /\ w.status = v.status
<1>1. v.gen \in Nat /\ s \in Initial \cup Specs
  BY DEF Version
<1>2. v.gen + 1 \in Nat \ {0}
  BY <1>1
<1> QED
  BY <1>1, <1>2 DEF Version

LEMMA PatchedVersion ==
  ASSUME NEW v \in Version, NEW status \in Status
  PROVE  LET w == [v EXCEPT !.status = status]
         IN  w \in Version /\ w.spec = v.spec /\ w.gen = v.gen /\ w.status = status
BY DEF Version

(* What users create, and a pass computes, has its type.                   *)
LEMMA NewType ==
  ASSUME NEW s \in PolicySpecs
  PROVE  New(s) \in Version
BY DEF New, NoStatus, Version, Status, Conditions, Flag, NoTime, PolicySpecs

LEMMA ComputedType ==
  ASSUME NEW v \in Version, NEW t \in Nat
  PROVE  Computed(v, t) \in Status
<1> DEFINE s == v.spec
           a == ActiveAt(s, t)
           mw == s.kind = "MaintenanceWindow"
           win == IF mw /\ a THEN ActiveStart(s, t) ELSE NoTime
           nxt == IF mw THEN EarliestNext(s, t) ELSE NoTime
<1>1. v.gen \in Nat /\ s \in PolicySpecs
  BY VersionParts
<1>2. a \in BOOLEAN
  BY DEF ActiveAt, InInterval
<1>3. win \in Int /\ nxt \in Int
  <2>1. mw => ActiveStart(s, t) \in Int
    BY <1>1, ActiveStartType
  <2>2. mw => EarliestNext(s, t) \in Int
    BY <1>1, ResultsOf
  <2> QED
    BY <2>1, <2>2 DEF NoTime
<1>4. FlagOf(a) \in Flag
  BY DEF FlagOf, Flag
<1>5. Computed(v, t) = [active |-> a, observed |-> v.gen,
                        conditions |-> [Active |-> FlagOf(a), Ready |-> "True",
                                        activeGen |-> v.gen, readyGen |-> v.gen],
                        remaining |-> s.kind = "ChangeFreeze" /\ a,
                        window |-> win, next |-> nxt]
  BY DEF Computed
<1> HIDE DEF a, s, win, nxt
<1>6. [Active |-> FlagOf(a), Ready |-> "True", activeGen |-> v.gen, readyGen |-> v.gen]
        \in Conditions
  BY <1>1, <1>4 DEF Conditions, Flag
<1> QED
  BY <1>1, <1>2, <1>3, <1>5, <1>6 DEF Status

LEMMA NotReadyType ==
  ASSUME NEW v \in Version
  PROVE  NotReady(v) \in Status /\ NotReady(v).active = v.status.active
<1>1. v.gen \in Nat /\ v.status \in Status
  BY VersionParts
<1> DEFINE c == [v.status.conditions EXCEPT !.Ready = "False", !.readyGen = v.gen]
<1>2. v.status.conditions \in Conditions
  BY <1>1, StatusParts
<1>3. c \in Conditions
  BY <1>1, <1>2 DEF Conditions, Flag
<1>4. NotReady(v) = [v.status EXCEPT !.conditions = c]
  BY <1>1, <1>2 DEF NotReady, Status, Conditions
<1> HIDE DEF c
<1> QED
  BY <1>1, <1>3, <1>4 DEF Status

Fields == {"active", "observed", "conditions", "remaining", "window", "next"}

(* A merge patch onto the copy it was computed from gives what was         *)
(* computed; onto any other status it changes what the pass changed.       *)
LEMMA MergedParts ==
  ASSUME NEW s \in Status, pass \in Pass
  PROVE  /\ Merged(s) \in Status
         /\ Merged(s).active = IF pass.status.active # pass.copy.status.active
                               THEN pass.status.active ELSE s.active
         /\ s = pass.copy.status => Merged(s) = pass.status
<1>1. pass.status \in Status /\ pass.copy \in Version
  BY DEF Pass
<1>2. pass.copy.status \in Status
  BY <1>1, VersionParts
<1>3. \A x \in Status : /\ DOMAIN x = Fields
                        /\ x = [f \in Fields |-> x[f]]
  BY DEF Status, Fields
<1>4. Merged(s) = [f \in Fields |-> IF pass.status[f] # pass.copy.status[f]
                                    THEN pass.status[f] ELSE s[f]]
  BY <1>3 DEF Merged
<1>5. Merged(s) \in Status
  BY <1>1, <1>4 DEF Fields, Status
<1>6. s = pass.copy.status => Merged(s) = pass.status
  BY <1>1, <1>3, <1>4
<1> QED
  BY <1>4, <1>5, <1>6 DEF Fields

-----------------------------------------------------------------------------
(* The log of versions *)

(* The ends of the log.                                                    *)
LEMMA LogParts ==
  ASSUME log \in Seq(Versions), Len(log) \in 1..MaxLag + 1
  PROVE  /\ Stored \in Versions /\ Cached \in Versions /\ log # <<>>
         /\ Stored = log[Len(log)] /\ Cached = log[1]
         /\ Len(log) = 1 => Cached = Stored
<1>1. Len(log) \in Nat /\ Len(log) >= 1
  BY BoundAssumption
<1>2. Stored = log[Len(log)] /\ Cached = log[1]
  BY <1>1 DEF Stored, Cached, Last
<1> QED
  BY <1>1, <1>2

(* A new version goes to the end: what is stored changes, the cache waits. *)
LEMMA StoreLog ==
  ASSUME log \in Seq(Versions), Len(log) \in 1..MaxLag + 1, NEW v \in Versions, NEW p, Store(v, p)
  PROVE  /\ log' \in Seq(Versions) /\ Len(log') \in 2..MaxLag + 1
         /\ Stored' = v /\ Cached' = Cached /\ pass' = Outdated(p)
<1>1. Len(log) \in Nat /\ Len(log) >= 1 /\ Len(log) <= MaxLag /\ MaxLag \in Nat
  BY BoundAssumption DEF Store
<1>2. log' = Append(log, v) /\ pass' = Outdated(p)
  BY DEF Store
<1>3. /\ log' \in Seq(Versions) /\ Len(log') = Len(log) + 1
      /\ log'[Len(log) + 1] = v /\ log'[1] = log[1]
  BY <1>1, <1>2
<1>4. Stored' = log'[Len(log')] /\ Cached' = log'[1] /\ Cached = log[1]
  BY <1>1, <1>3 DEF Stored, Cached, Last
<1> QED
  BY <1>1, <1>2, <1>3, <1>4

(* The cache takes in the next version: what is stored stays.              *)
LEMMA SyncLog ==
  ASSUME log \in Seq(Versions), Len(log) \in 1..MaxLag + 1, Sync
  PROVE  log' \in Seq(Versions) /\ Len(log') \in 1..MaxLag + 1 /\ Stored' = Stored
<1>1. Len(log) \in Nat /\ Len(log) > 1 /\ MaxLag \in Nat /\ log' = Tail(log)
  BY BoundAssumption DEF Sync
<1>2. log' \in Seq(Versions) /\ Len(log') = Len(log) - 1
      /\ log'[Len(log) - 1] = log[Len(log)]
  BY <1>1
<1>3. Stored' = log'[Len(log')] /\ Stored = log[Len(log)]
  BY DEF Stored, Last
<1> QED
  BY <1>1, <1>2, <1>3

(* A copy that is out of date is that of a pass that is otherwise the same.*)
LEMMA OutdatedParts ==
  ASSUME NEW p \in Pass \cup {Idle}
  PROVE  /\ Outdated(p) \in Pass \cup {Idle}
         /\ p = Idle => Outdated(p) = Idle
         /\ p # Idle => /\ Outdated(p) # Idle /\ Outdated(p).current = FALSE
                        /\ Outdated(p).t = p.t /\ Outdated(p).ok = p.ok
                        /\ Outdated(p).status = p.status /\ Outdated(p).copy = p.copy
<1>1. CASE p = Idle
  BY <1>1 DEF Outdated, Idle
<1>2. CASE p \in Pass
  <2>1. Outdated(p) = [p EXCEPT !.current = FALSE]
    BY <1>2 DEF Outdated, Pass
  <2>2. Outdated(p).pc = "write"
    BY <1>2, <2>1 DEF Pass
  <2>3. Outdated(p) # Idle /\ p # Idle
    BY <1>2, <2>2 DEF Pass, Idle
  <2> QED
    BY <1>2, <2>1, <2>3 DEF Pass
<1> QED
  BY <1>1, <1>2

(* A pass that may write.                                                  *)
LEMMA PassParts ==
  ASSUME TypeOK
  PROVE  /\ pass # Idle => pass \in Pass
         /\ pass.pc = "write" <=> pass # Idle
         /\ pass \in Pass => /\ pass.copy \in Version /\ pass.t \in Nat /\ pass.t \in Time
                             /\ pass.status \in Status /\ pass.ok \in BOOLEAN
                             /\ pass.current \in BOOLEAN /\ pass # Idle
<1>1. Idle.pc # "write"
  BY DEF Idle
<1>2. pass \in Pass => pass.pc = "write"
  BY DEF Pass
<1> QED
  BY <1>1, <1>2 DEF TypeOK, Pass, Time

-----------------------------------------------------------------------------
(* The invariant holds at first and every action keeps it                  *)

(* A policy that is there when the manager starts.                         *)
LEMMA InitInvariant ==
  ASSUME Init
  PROVE  RLInv
<1>1. PICK s \in Initial : kind = s.kind /\ log = <<New(s)>>
  BY DEF Init
<1>2. New(s) \in Version /\ New(s) # Absent
  BY NewType, VersionParts DEF PolicySpecs
<1>3. log \in Seq(Versions) /\ Len(log) = 1 /\ log[1] = New(s)
  BY <1>1, <1>2 DEF Versions
<1>4. Len(log) \in 1..MaxLag + 1
  BY <1>3, BoundAssumption
<1>5. Stored = New(s)
  BY <1>3, <1>4, LogParts
<1>6. kind \in Kinds
  BY <1>1, SpecAssumption DEF Kinds
<1>7. TypeOK
  BY <1>3, <1>4, <1>6, BoundAssumption DEF Init, TypeOK, Time, NoTimer, Flag, Versions
<1>8. KindOK
  BY <1>1, <1>5 DEF KindOK, New
<1>9. PassOK /\ Scheduled
  BY DEF Init, PassOK, Scheduled, Settled
<1>10. StatusIsOfItsGeneration
  BY <1>5 DEF StatusIsOfItsGeneration, New, NoStatus
<1> QED
  BY <1>7, <1>8, <1>9, <1>10 DEF RLInv

(* The clock.                                                              *)
LEMMA TickKeeps ==
  ASSUME RLInv, Tick
  PROVE  RLInv'
<1>1. now \in Nat /\ now' = now + 1 /\ now' \in Time /\ 1..now \subseteq 1..now'
  BY BoundAssumption DEF RLInv, TypeOK, Tick, Time
<1>2. UNCHANGED <<kind, log, queued, timer, pass, gauge, told, delay, edits, faults>>
  BY DEF Tick
<1>3. Stored' = Stored /\ Cached' = Cached
  BY <1>2 DEF Stored, Cached
<1>4. TypeOK'
  BY <1>1, <1>2 DEF RLInv, TypeOK
<1>5. KindOK'
  BY <1>2, <1>3 DEF RLInv, KindOK
<1>6. PassOK'
  <2>1. pass # Idle => pass.t \in Nat
    BY PassParts DEF RLInv
  <2> QED
    BY <1>1, <1>2, <1>3, <2>1 DEF RLInv, PassOK
<1>7. Scheduled'
  BY <1>1, <1>2, <1>3 DEF RLInv, Scheduled, Settled, EvaluatedAt
<1>8. StatusIsOfItsGeneration'
  BY <1>1, <1>2, <1>3 DEF RLInv, StatusIsOfItsGeneration
<1> QED
  BY <1>4, <1>5, <1>6, <1>7, <1>8 DEF RLInv

(* What a running pass knows outlives a newer version.                     *)
LEMMA PassOutdated ==
  ASSUME RLInv, pass' = Outdated(pass), Cached' = Cached, Stored' \in Versions,
         UNCHANGED <<now, queued, told>>
  PROVE  PassOK' /\ pass' \in Pass \cup {Idle}
<1>1. pass \in Pass \cup {Idle}
  BY DEF RLInv, TypeOK
<1>2. /\ pass' \in Pass \cup {Idle} /\ (pass = Idle => pass' = Idle)
      /\ pass # Idle => /\ pass'.current = FALSE /\ pass'.t = pass.t /\ pass'.ok = pass.ok
                        /\ pass'.status = pass.status /\ pass'.copy = pass.copy
  BY <1>1, OutdatedParts
<1> QED
  BY <1>2 DEF RLInv, PassOK

(* A user stores v.                                                        *)
LEMMA EditKeeps ==
  ASSUME RLInv, NEW v \in Versions, Edit(v), v # Absent => v.spec.kind = kind,
         kind = "FreezeException" /\ v # Absent =>
           /\ v.status.observed <= v.gen
           /\ v.status.observed = v.gen =>
                \E t \in 1..now : v.status.active <=> InInterval(v.spec, t)
  PROVE  RLInv'
<1>1. log \in Seq(Versions) /\ Len(log) \in 1..MaxLag + 1
  BY DEF RLInv, TypeOK, Versions
<1>2. /\ Store(v, pass) /\ edits < MaxEdits /\ edits' = edits + 1
      /\ UNCHANGED <<kind, now, queued, timer, gauge, told, delay, faults>>
  BY DEF Edit
<1>3. /\ log' \in Seq(Versions) /\ Len(log') \in 2..MaxLag + 1
      /\ Stored' = v /\ Cached' = Cached /\ pass' = Outdated(pass)
  BY <1>1, <1>2, StoreLog
<1>4. PassOK' /\ pass' \in Pass \cup {Idle}
  BY <1>2, <1>3, PassOutdated
<1>5. Len(log') \in 1..MaxLag + 1 /\ Len(log') # 1
  <2>1. \A n \in 2..MaxLag + 1 : n \in 1..MaxLag + 1 /\ n # 1
    BY BoundAssumption
  <2> QED
    BY <1>3, <2>1
<1>6. edits' \in 0..MaxEdits
  BY <1>2, BoundAssumption DEF RLInv, TypeOK
<1>7. TypeOK'
  BY <1>2, <1>3, <1>4, <1>5, <1>6 DEF RLInv, TypeOK, Versions
<1>8. KindOK'
  BY <1>2, <1>3 DEF KindOK
<1>9. Scheduled'
  BY <1>5 DEF Scheduled, Settled
<1>10. StatusIsOfItsGeneration'
  BY <1>2, <1>3 DEF StatusIsOfItsGeneration
<1> QED
  BY <1>4, <1>7, <1>8, <1>9, <1>10 DEF RLInv

(* What users do: delete, create, edit.                                    *)
LEMMA UserKeeps ==
  ASSUME RLInv, User
  PROVE  RLInv'
<1>1. log \in Seq(Versions) /\ Len(log) \in 1..MaxLag + 1
  BY DEF RLInv, TypeOK, Versions
<1>2. Stored \in Versions
  BY <1>1, LogParts
<1>3. CASE Delete
  <2>1. Edit(Absent) /\ Absent \in Versions
    BY <1>3 DEF Delete, Versions
  <2> QED
    BY <2>1, EditKeeps
<1>4. ASSUME NEW s \in Specs, Create(s)
      PROVE  RLInv'
  <2>1. Edit(New(s)) /\ s.kind = kind
    BY <1>4 DEF Create
  <2>2. New(s) \in Versions
    BY NewType DEF Versions, PolicySpecs
  <2>3. New(s).spec = s /\ New(s).gen = 1 /\ New(s).status.observed = 0
    BY DEF New, NoStatus
  <2> QED
    BY <2>1, <2>2, <2>3, EditKeeps
<1>5. ASSUME NEW s \in Specs, EditSpec(s)
      PROVE  RLInv'
  <2> DEFINE v == [Stored EXCEPT !.gen = @ + 1, !.spec = s]
  <2>1. Edit(v) /\ s.kind = kind /\ Stored \in Version /\ Stored # Absent
    BY <1>2, <1>5 DEF EditSpec, Versions
  <2>2. v \in Version /\ v.spec = s /\ v.gen = Stored.gen + 1 /\ v.status = Stored.status
    BY <2>1, EditedVersion
  <2> HIDE DEF v
  <2>3. Stored.gen \in Nat /\ Stored.status.observed \in Nat
    BY <2>1, VersionParts, StatusParts
  <2>4. kind = "FreezeException" => Stored.status.observed <= Stored.gen
    BY <2>1 DEF RLInv, StatusIsOfItsGeneration
  <2>5. kind = "FreezeException" => v.status.observed <= v.gen /\ v.status.observed # v.gen
    BY <2>2, <2>3, <2>4
  <2> QED
    BY <2>1, <2>2, <2>5, EditKeeps DEF Versions
<1> QED
  BY <1>3, <1>4, <1>5 DEF User

(* The watch delivers: the policy is in the queue then.                    *)
LEMMA SyncKeeps ==
  ASSUME RLInv, Sync
  PROVE  RLInv'
<1>1. log \in Seq(Versions) /\ Len(log) \in 1..MaxLag + 1
  BY DEF RLInv, TypeOK, Versions
<1>2. log' \in Seq(Versions) /\ Len(log') \in 1..MaxLag + 1 /\ Stored' = Stored
  BY <1>1, SyncLog
<1>3. /\ queued' = TRUE /\ Len(log) > 1
      /\ UNCHANGED <<kind, now, timer, pass, gauge, told, delay, edits, faults>>
  BY DEF Sync
<1>4. TypeOK'
  BY <1>2, <1>3 DEF RLInv, TypeOK, Versions
<1>5. KindOK'
  BY <1>2, <1>3 DEF RLInv, KindOK
<1>6. PassOK'
  <2>1. \A n \in 1..MaxLag + 1 : n > 1 => n # 1
    BY BoundAssumption
  <2>2. Len(log) # 1
    BY <1>1, <1>3, <2>1
  <2> QED
    BY <1>3, <2>2 DEF RLInv, PassOK
<1>7. Scheduled'
  BY <1>3 DEF Scheduled, Settled
<1>8. StatusIsOfItsGeneration'
  BY <1>2, <1>3 DEF RLInv, StatusIsOfItsGeneration
<1> QED
  BY <1>4, <1>5, <1>6, <1>7, <1>8 DEF RLInv

(* The end of a wait.                                                      *)
LEMMA FireKeeps ==
  ASSUME RLInv, Fire
  PROVE  RLInv'
<1>1. /\ queued' = TRUE /\ timer' = NoTimer
      /\ UNCHANGED <<kind, now, log, pass, gauge, told, delay, edits, faults>>
  BY DEF Fire
<1>2. Stored' = Stored
  BY <1>1 DEF Stored
<1>3. TypeOK'
  BY <1>1 DEF RLInv, TypeOK, NoTimer
<1>4. KindOK'
  BY <1>1, <1>2 DEF RLInv, KindOK
<1>5. PassOK'
  BY <1>1, <1>2 DEF RLInv, PassOK
<1>6. Scheduled'
  BY <1>1 DEF Scheduled, Settled
<1>7. StatusIsOfItsGeneration'
  BY <1>1, <1>2 DEF RLInv, StatusIsOfItsGeneration
<1> QED
  BY <1>3, <1>4, <1>5, <1>6, <1>7 DEF RLInv

(* A pass begins on the cached copy.                                       *)
LEMMA BeginKeeps ==
  ASSUME RLInv, Begin
  PROVE  RLInv'
<1>1. log \in Seq(Versions) /\ Len(log) \in 1..MaxLag + 1 /\ now \in Nat /\ now \in Time
  BY BoundAssumption DEF RLInv, TypeOK, Versions, Time
<1>2. /\ pass = Idle /\ queued' = FALSE
      /\ UNCHANGED <<kind, now, log, timer, gauge, delay, edits, faults>>
  BY DEF Begin
<1>3. Stored' = Stored /\ Cached' = Cached /\ Cached \in Versions
      /\ (Len(log) = 1 => Cached = Stored)
  BY <1>1, <1>2, LogParts DEF Stored, Cached
<1>4. KindOK'
  BY <1>2, <1>3 DEF RLInv, KindOK
<1>5. StatusIsOfItsGeneration'
  BY <1>2, <1>3 DEF RLInv, StatusIsOfItsGeneration
<1>6. CASE Cached = Absent
  <2>1. UNCHANGED <<pass, told>>
    BY <1>6 DEF Begin
  <2>2. TypeOK'
    BY <1>2, <2>1 DEF RLInv, TypeOK
  <2>3. PassOK'
    BY <1>2, <2>1 DEF PassOK
  <2>4. Scheduled'
    BY <1>2, <1>3, <1>6 DEF Scheduled, Settled
  <2> QED
    BY <1>4, <1>5, <2>2, <2>3, <2>4 DEF RLInv
<1>7. CASE Cached # Absent
  <2> DEFINE v == Cached
             ok == Evaluates(v.spec)
             st == IF ok THEN Computed(v, now) ELSE NotReady(v)
             cur == Len(log) = 1
  <2>1. v \in Version
    BY <1>3, <1>7 DEF Versions
  <2>2. pass' = [pc |-> "write", copy |-> v, current |-> cur, t |-> now, ok |-> ok, status |-> st]
        /\ told' = IF ok THEN Told(v, ActiveAt(v.spec, now)) ELSE told
    BY <1>7 DEF Begin
  <2>3. ok \in BOOLEAN /\ cur \in BOOLEAN
    BY DEF Evaluates
  <2>4. st \in Status
    BY <1>1, <2>1, ComputedType, NotReadyType
  <2>5. st.active # v.status.active => told' = FlagOf(st.active)
    <3>1. CASE ok
      <4>1. st.active = ActiveAt(v.spec, now)
        BY <3>1 DEF Computed
      <4> QED
        BY <2>2, <3>1, <4>1 DEF Told
    <3>2. CASE ~ok
      BY <2>1, <3>2, NotReadyType
    <3> QED
      BY <3>1, <3>2
  <2>6. told' \in Flag
    BY <2>2 DEF RLInv, TypeOK, Told, FlagOf, Flag
  <2>7. st = IF ok THEN Computed(v, now) ELSE NotReady(v)
    OBVIOUS
  <2>8. ok = Evaluates(v.spec)
    OBVIOUS
  <2> HIDE DEF st, ok, cur, v
  <2>9. pass' \in Pass /\ pass' # Idle
    BY <1>1, <2>1, <2>2, <2>3, <2>4 DEF Pass, Idle
  <2>10. TypeOK'
    BY <1>2, <2>6, <2>9 DEF RLInv, TypeOK
  <2>11. PassOK'
    <3>1. /\ pass'.copy = v /\ pass'.current = cur /\ pass'.t = now
          /\ pass'.ok = ok /\ pass'.status = st
      BY <2>2
    <3>2. cur => Len(log') = 1 /\ v = Stored'
      BY <1>2, <1>3 DEF cur, v
    <3>3. v = Cached' /\ now' = now /\ now <= now
      BY <1>1, <1>2, <1>3 DEF v
    <3> QED
      BY <2>5, <2>7, <2>8, <3>1, <3>2, <3>3 DEF PassOK
  <2>12. Scheduled'
    BY <2>9 DEF Scheduled, Settled
  <2> QED
    BY <1>4, <1>5, <2>10, <2>11, <2>12 DEF RLInv
<1> QED
  BY <1>6, <1>7

(* The earlier of two times the queue is to add the policy at.             *)
LEMMA EarlierType ==
  ASSUME NEW a \in Nat, NEW b \in Nat \ {0}
  PROVE  Earlier(a, b) \in Nat \ {0} /\ Earlier(a, b) <= b
<1>1. CASE a = NoTimer
  BY <1>1 DEF Earlier
<1>2. CASE a # NoTimer
  <2>1. Min({a, b}) \in {a, b} /\ \A n \in {a, b} : Min({a, b}) <= n
    BY MinIsLeast
  <2> QED
    BY <1>2, <2>1 DEF Earlier, NoTimer
<1> QED
  BY <1>1, <1>2

(* The status is written, whatever the policy has become meanwhile.        *)
LEMMA WriteKeeps ==
  ASSUME RLInv, WriteStatus
  PROVE  RLInv'
<1> DEFINE v == [Stored EXCEPT !.status = Merged(@)]
           due == now + Wake(pass.copy.spec, pass.t)
<1>1. log \in Seq(Versions) /\ Len(log) \in 1..MaxLag + 1 /\ now \in Nat
  BY BoundAssumption DEF RLInv, TypeOK, Versions, Time
<1>2. /\ pass # Idle /\ pass \in Pass /\ pass.copy \in Version /\ pass.t \in Nat
      /\ pass.t \in Time /\ pass.t <= now /\ pass.ok \in BOOLEAN /\ pass.current \in BOOLEAN
  BY PassParts DEF RLInv, PassOK, WriteStatus
<1>3. Stored # Absent /\ ~Conflict /\ Stored \in Version
      /\ UNCHANGED <<kind, now, told, edits, faults>>
  BY <1>1, LogParts DEF WriteStatus, Versions
<1>4. Merged(Stored.status) \in Status
      /\ (Stored = pass.copy => Merged(Stored.status) = pass.status)
  BY <1>2, <1>3, VersionParts, MergedParts
<1>5. v \in Version /\ v.spec = Stored.spec /\ v.gen = Stored.gen /\ v.status = Merged(Stored.status)
  BY <1>3, <1>4, PatchedVersion
<1>6. PICK stamp \in BOOLEAN :
        IF Rewrites(Stored.status, stamp) THEN Store(v, Idle) ELSE pass' = Idle /\ UNCHANGED log
  BY <1>2 DEF WriteStatus
<1>7. Outdated(Idle) = Idle
  BY OutdatedParts
<1>8. /\ log' \in Seq(Versions) /\ Len(log') \in 1..MaxLag + 1 /\ pass' = Idle
      /\ \/ Len(log') # 1 /\ Stored' = v
         \/ /\ UNCHANGED log /\ Stored' = Stored
            /\ Merged(Stored.status) = Stored.status
  <2>1. CASE Rewrites(Stored.status, stamp)
    <3>1. log' \in Seq(Versions) /\ Len(log') \in 2..MaxLag + 1 /\ Stored' = v /\ pass' = Idle
      BY <1>1, <1>5, <1>6, <1>7, <2>1, StoreLog DEF Versions
    <3>2. \A n \in 2..MaxLag + 1 : n \in 1..MaxLag + 1 /\ n # 1
      BY BoundAssumption
    <3> QED
      BY <3>1, <3>2
  <2>2. CASE ~Rewrites(Stored.status, stamp)
    <3>1. pass' = Idle /\ log' = log /\ Merged(Stored.status) = Stored.status
      BY <1>6, <2>2 DEF Rewrites
    <3>2. Stored' = Stored
      BY <3>1 DEF Stored
    <3> QED
      BY <1>1, <3>1, <3>2
  <2> QED
    BY <2>1, <2>2
<1>9. \/ /\ pass.ok /\ gauge' = FlagOf(pass.status.active) /\ timer' = Earlier(timer, due)
         /\ delay' = now - pass.t /\ queued' = queued
      \/ ~pass.ok /\ queued' = TRUE /\ UNCHANGED <<gauge, timer, delay>>
  BY DEF WriteStatus, Retry
<1>10. due \in Nat \ {0}
  <2>1. pass.copy.spec \in PolicySpecs
    BY <1>2, VersionParts
  <2>2. Wake(pass.copy.spec, pass.t) \in Nat \ {0}
    BY <1>2, <2>1, WakeType
  <2> QED
    BY <1>1, <2>2
<1> HIDE DEF v
<1>11. TypeOK'
  <2>1. timer \in Nat /\ Idle \in Pass \cup {Idle}
    BY DEF RLInv, TypeOK
  <2>2. timer' \in Nat
    BY <1>9, <1>10, <2>1, EarlierType
  <2>3. delay' \in 0..MaxTime
    <3>1. now - pass.t \in 0..MaxTime
      BY <1>1, <1>2, BoundAssumption DEF RLInv, TypeOK, Time
    <3> QED
      BY <1>9, <3>1 DEF RLInv, TypeOK
  <2>4. gauge' \in {"unset", "True", "False"} /\ queued' \in BOOLEAN
    BY <1>9 DEF RLInv, TypeOK, FlagOf
  <2> QED
    BY <1>3, <1>8, <2>1, <2>2, <2>3, <2>4 DEF RLInv, TypeOK, Versions
<1>12. KindOK'
  BY <1>3, <1>5, <1>8 DEF RLInv, KindOK
<1>13. PassOK'
  BY <1>8 DEF PassOK
<1>14. Scheduled'
  <2> SUFFICES ASSUME Settled' PROVE \E t \in 1..now : EvaluatedAt(t)'
    BY <1>3 DEF Scheduled
  <2>1. ~queued' /\ Len(log') = 1
    BY DEF Settled
  <2>2. log' = log /\ Stored' = Stored /\ Merged(Stored.status) = Stored.status /\ Len(log) = 1
    BY <1>8, <2>1
  <2>3. /\ pass.ok /\ ~queued /\ timer' = Earlier(timer, due) /\ delay' = now - pass.t
    BY <1>9, <2>1
  <2>4. pass.copy = Stored
    BY <1>1, <1>2, <2>2, <2>3, LogParts DEF RLInv, PassOK
  <2>5. Evaluates(Stored.spec) /\ Stored.status = Computed(Stored, pass.t)
    BY <1>2, <1>4, <2>2, <2>3, <2>4 DEF RLInv, PassOK
  <2>6. gauge' = FlagOf(Stored.status.active)
    BY <1>9, <2>1, <2>2, <2>4, <1>4
  <2>7. timer' # NoTimer /\ timer' <= due
    BY <1>10, <2>3, EarlierType DEF RLInv, TypeOK, NoTimer
  <2>8. due = pass.t + delay' + Wake(Stored.spec, pass.t)
    <3>1. Wake(Stored.spec, pass.t) \in Nat
      BY <1>2, <1>3, VersionParts, WakeType
    <3> QED
      BY <1>1, <1>2, <2>3, <2>4, <3>1
  <2>9. pass.t \in 1..now
    BY <1>1, <1>2 DEF Time
  <2> QED
    BY <2>2, <2>5, <2>6, <2>7, <2>8, <2>9 DEF EvaluatedAt
<1>15. StatusIsOfItsGeneration'
  <2> SUFFICES ASSUME kind = "FreezeException", Stored' = v
               PROVE  /\ v.status.observed <= v.gen
                      /\ \E t \in 1..now : v.status.active <=> InInterval(v.spec, t)
    BY <1>3, <1>8 DEF RLInv, StatusIsOfItsGeneration
  <2>1. pass.current
    BY <1>3 DEF Conflict
  <2>2. pass.copy = Stored
    BY <1>2, <2>1 DEF RLInv, PassOK
  <2>3. Stored.spec.kind # "MaintenanceWindow"
    BY <1>3 DEF RLInv, KindOK
  <2>4. pass.status = Computed(Stored, pass.t)
    BY <1>2, <2>2, <2>3 DEF RLInv, PassOK, Evaluates
  <2>5. v.status = Computed(Stored, pass.t)
    BY <1>4, <1>5, <2>2, <2>4
  <2>6. v.status.observed = Stored.gen /\ v.status.active = ActiveAt(Stored.spec, pass.t)
    BY <2>5 DEF Computed
  <2>7. ActiveAt(Stored.spec, pass.t) <=> InInterval(v.spec, pass.t)
    BY <1>5, <2>3 DEF ActiveAt
  <2>8. pass.t \in 1..now /\ Stored.gen \in Nat
    BY <1>1, <1>2, <1>3, VersionParts DEF Time
  <2> QED
    BY <1>5, <2>6, <2>7, <2>8
<1> QED
  BY <1>11, <1>12, <1>13, <1>14, <1>15 DEF RLInv

(* The write is refused or lost: the pass is over and the policy is queued.*)
LEMMA RefusedKeeps ==
  ASSUME RLInv, Refused, faults' \in 0..MaxFaults
  PROVE  RLInv'
<1>1. /\ pass' = Idle /\ queued' = TRUE
      /\ UNCHANGED <<kind, now, log, timer, gauge, told, delay, edits>>
  BY DEF Refused, Retry
<1>2. Stored' = Stored
  BY <1>1 DEF Stored
<1>3. TypeOK'
  BY <1>1 DEF RLInv, TypeOK
<1>4. KindOK'
  BY <1>1, <1>2 DEF RLInv, KindOK
<1>5. PassOK'
  BY <1>1 DEF PassOK
<1>6. Scheduled'
  BY <1>1 DEF Scheduled, Settled
<1>7. StatusIsOfItsGeneration'
  BY <1>1, <1>2 DEF RLInv, StatusIsOfItsGeneration
<1> QED
  BY <1>3, <1>4, <1>5, <1>6, <1>7 DEF RLInv

(* Faults are counted up to their bound.                                   *)
LEMMA FaultType ==
  ASSUME RLInv, Fault
  PROVE  faults' \in 0..MaxFaults
BY BoundAssumption DEF RLInv, TypeOK, Fault

(* A new process knows the stored version only, and has it in the queue.   *)
LEMMA RestartKeeps ==
  ASSUME RLInv, Restart
  PROVE  RLInv'
<1>1. log \in Seq(Versions) /\ Len(log) \in 1..MaxLag + 1
  BY DEF RLInv, TypeOK, Versions
<1>2. /\ log' = <<Stored>> /\ queued' = (Stored # Absent) /\ timer' = NoTimer
      /\ pass' = Idle /\ gauge' = "unset" /\ delay' = 0
      /\ UNCHANGED <<kind, now, told, edits>>
  BY DEF Restart
<1>3. Stored \in Versions
  BY <1>1, LogParts
<1>4. log' \in Seq(Versions) /\ Len(log') = 1 /\ log'[1] = Stored
  BY <1>2, <1>3
<1>5. Stored' = Stored
  BY <1>4 DEF Stored, Last
<1>6. faults' \in 0..MaxFaults
  BY FaultType DEF Restart
<1>7. TypeOK'
  BY <1>2, <1>4, <1>6, BoundAssumption DEF RLInv, TypeOK, Versions, NoTimer
<1>8. KindOK'
  BY <1>2, <1>5 DEF RLInv, KindOK
<1>9. PassOK'
  BY <1>2 DEF PassOK
<1>10. Scheduled'
  BY <1>2, <1>5 DEF Scheduled, Settled
<1>11. StatusIsOfItsGeneration'
  BY <1>2, <1>5 DEF RLInv, StatusIsOfItsGeneration
<1> QED
  BY <1>7, <1>8, <1>9, <1>10, <1>11 DEF RLInv

(* Steps of everything else.                                               *)
LEMMA StutterKeeps ==
  ASSUME RLInv, UNCHANGED vars
  PROVE  RLInv'
<1>1. UNCHANGED <<kind, now, log, queued, timer, pass, gauge, told, delay, edits, faults>>
  BY DEF vars
<1>2. Stored' = Stored /\ Cached' = Cached
  BY <1>1 DEF Stored, Cached
<1>3. TypeOK'
  BY <1>1 DEF RLInv, TypeOK
<1>4. KindOK' /\ PassOK'
  BY <1>1, <1>2 DEF RLInv, KindOK, PassOK
<1>5. Scheduled'
  BY <1>1, <1>2 DEF RLInv, Scheduled, Settled, EvaluatedAt
<1>6. StatusIsOfItsGeneration'
  BY <1>1, <1>2 DEF RLInv, StatusIsOfItsGeneration
<1> QED
  BY <1>3, <1>4, <1>5, <1>6 DEF RLInv

(* Every action keeps the invariant.                                       *)
LEMMA StepKeepsInvariant ==
  ASSUME RLInv, [Next]_vars
  PROVE  RLInv'
<1>1. CASE Tick
  BY <1>1, TickKeeps
<1>2. CASE User
  BY <1>2, UserKeeps
<1>3. CASE Sync
  BY <1>3, SyncKeeps
<1>4. CASE Fire
  BY <1>4, FireKeeps
<1>5. CASE Begin
  BY <1>5, BeginKeeps
<1>6. CASE WriteStatus
  BY <1>6, WriteKeeps
<1>7. CASE WriteRefused
  <2>1. Refused /\ faults' \in 0..MaxFaults
    BY <1>7 DEF WriteRefused, RLInv, TypeOK
  <2> QED
    BY <2>1, RefusedKeeps
<1>8. CASE WriteFails
  <2>1. Refused /\ faults' \in 0..MaxFaults
    BY <1>8, FaultType DEF WriteFails
  <2> QED
    BY <2>1, RefusedKeeps
<1>9. CASE Restart
  BY <1>9, RestartKeeps
<1>10. CASE UNCHANGED vars
  BY <1>10, StutterKeeps
<1> QED
  BY <1>1, <1>2, <1>3, <1>4, <1>5, <1>6, <1>7, <1>8, <1>9, <1>10 DEF Next, Reconcile

(* The invariant holds throughout.                                         *)
LEMMA ReconcileInvariance == Spec => []RLInv
<1>1. Init => RLInv
  BY InitInvariant
<1>2. RLInv /\ [Next]_vars => RLInv'
  BY StepKeepsInvariant
<1> QED
  BY <1>1, <1>2, PTL DEF Spec

-----------------------------------------------------------------------------
(* The theorems *)

(* Every variable of the loop keeps its type: the log of versions never    *)
(* outgrows the lag of the cache, every status is well formed, whichever   *)
(* copies and patches it was merged from, and every wait is a length of    *)
(* time.                                                                   *)
THEOREM Reconcile_Types == Spec => []TypeOK
<1>1. RLInv => TypeOK
  BY DEF RLInv
<1> QED
  BY <1>1, ReconcileInvariance, PTL

(* freezeexception_controller.go: the status of an exception, written with *)
(* Update, that has observed the present generation was computed from the  *)
(* interval of that generation at some instant of the run.                 *)
THEOREM Status_Is_Of_Its_Generation == Spec => []StatusIsOfItsGeneration
<1>1. RLInv => StatusIsOfItsGeneration
  BY DEF RLInv
<1> QED
  BY <1>1, ReconcileInvariance, PTL

(* Whatever edits, failed writes and restarts came before: a policy at     *)
(* rest shows one evaluation of its present spec, in the status and in the *)
(* gauge, and no mix of two.                                               *)
THEOREM Rests_On_One_Evaluation == Spec => []RestsOnOneEvaluation
<1>1. RLInv => RestsOnOneEvaluation
  BY DEF RLInv, Scheduled, EvaluatedAt, RestsOnOneEvaluation
<1> QED
  BY <1>1, ReconcileInvariance, PTL

(* RequeueAfter: a policy left alone is looked at again within a second,   *)
(* and the time the last pass took, of the first instant its status is     *)
(* wrong at, whatever its windows and however they overlap.                *)
THEOREM Timers_Do_Not_Oversleep == Spec => []NoOversleep
<1>1. ASSUME RLInv
      PROVE  NoOversleep
  <2> SUFFICES ASSUME Settled, Recurs(Stored.spec)
               PROVE  /\ timer # NoTimer
                      /\ \A t \in now..MaxTime : t + Second + delay < timer =>
                           (Stored.status.active <=> Holds(Stored.spec, t))
    BY DEF NoOversleep
  <2>1. PICK t0 \in 1..now : EvaluatedAt(t0)
    BY <1>1 DEF RLInv, Scheduled
  <2>2. /\ now \in Nat /\ now \in Time /\ MaxTime \in Nat /\ Second \in Nat
        /\ delay \in Nat /\ timer \in Nat
    BY <1>1, BoundAssumption, RequeueAssumption DEF RLInv, TypeOK, Time
  <2>3. t0 \in Nat /\ t0 <= now /\ t0 \in Time
    BY <2>2 DEF Time
  <2>4. Stored.spec \in PolicySpecs
    <3>1. log \in Seq(Versions) /\ Len(log) \in 1..MaxLag + 1
      BY <1>1 DEF RLInv, TypeOK, Versions
    <3>2. Stored \in Version
      BY <3>1, LogParts DEF Settled, Versions
    <3> QED
      BY <3>2, VersionParts
  <2>5. Wake(Stored.spec, t0) \in Nat
    BY <2>3, <2>4, WakeType
  <2>6. Stored.status.active = ActiveAt(Stored.spec, t0)
    BY <2>1 DEF EvaluatedAt, Computed
  <2>7. ASSUME NEW t \in now..MaxTime, t + Second + delay < timer
        PROVE  Stored.status.active <=> Holds(Stored.spec, t)
    <3>1. t \in Nat /\ t \in Time /\ t0 <= t
      BY <2>2, <2>3 DEF Time
    <3>2. t + Second < t0 + Wake(Stored.spec, t0)
      BY <2>1, <2>2, <2>3, <2>5, <2>7, <3>1 DEF EvaluatedAt
    <3>3. ActiveAt(Stored.spec, t0) <=> Holds(Stored.spec, t)
      BY <2>3, <2>4, <3>1, <3>2, WakeInTime
    <3> QED
      BY <2>6, <3>3
  <2> QED
    BY <2>1, <2>7 DEF EvaluatedAt
<1> QED
  BY <1>1, ReconcileInvariance, PTL

(* The steps that leave what the API server stores alone.                  *)
LEMMA StoredStays ==
  ASSUME RLInv,
         \/ Tick \/ Sync \/ Fire \/ Begin \/ WriteRefused \/ WriteFails \/ Restart
         \/ UNCHANGED vars
  PROVE  Stored' = Stored
<1>1. log \in Seq(Versions) /\ Len(log) \in 1..MaxLag + 1
  BY DEF RLInv, TypeOK, Versions
<1>2. CASE UNCHANGED log
  BY <1>2 DEF Stored
<1>3. CASE Sync
  BY <1>1, <1>3, SyncLog
<1>4. CASE Restart
  <2>1. log' = <<Stored>> /\ Stored \in Versions
    BY <1>1, <1>4, LogParts DEF Restart
  <2>2. Len(log') = 1 /\ log'[1] = Stored
    BY <2>1
  <2> QED
    BY <2>2 DEF Stored, Last
<1> QED
  BY <1>2, <1>3, <1>4 DEF Tick, Fire, Begin, WriteRefused, WriteFails, Refused, vars

(* The active flag of a stored policy never changes without an event that  *)
(* says so before it: what a patch changes is what its pass has found      *)
(* changed, and has announced.                                             *)
THEOREM Changes_Are_Announced == Spec => ChangesAreAnnounced
<1> DEFINE A == Stored # Absent /\ Stored' # Absent /\ Stored'.status.active # Stored.status.active
                  => told' = FlagOf(Stored'.status.active)
<1>1. ASSUME RLInv, [Next]_vars
      PROVE  A
  <2>1. log \in Seq(Versions) /\ Len(log) \in 1..MaxLag + 1
    BY <1>1 DEF RLInv, TypeOK, Versions
  <2>2. Stored \in Versions
    BY <2>1, LogParts
  <2>3. CASE Delete \/ \E s \in Specs : Create(s)
    <3>1. CASE Delete
      <4>1. Store(Absent, pass) /\ Absent \in Versions
        BY <3>1 DEF Delete, Edit, Versions
      <4> QED
        BY <2>1, <4>1, StoreLog
    <3> QED
      BY <2>3, <3>1 DEF Create
  <2>4. ASSUME NEW s \in Specs, EditSpec(s)
        PROVE  A
    <3> DEFINE v == [Stored EXCEPT !.gen = @ + 1, !.spec = s]
    <3>1. Stored \in Version /\ Store(v, pass)
      BY <2>2, <2>4 DEF EditSpec, Edit, Versions
    <3>2. v \in Version /\ v.status = Stored.status
      BY <3>1, EditedVersion
    <3>3. Stored' = v
      BY <2>1, <3>1, <3>2, StoreLog DEF Versions
    <3> QED
      BY <3>2, <3>3
  <2>5. CASE WriteStatus
    <3> DEFINE v == [Stored EXCEPT !.status = Merged(@)]
    <3>1. /\ pass # Idle /\ pass \in Pass /\ Stored \in Version /\ told' = told
          /\ Store(v, Idle) \/ UNCHANGED log
      BY <1>1, <2>2, <2>5, PassParts DEF WriteStatus, RLInv, Versions
    <3>2. /\ Merged(Stored.status) \in Status
          /\ Merged(Stored.status).active = IF pass.status.active # pass.copy.status.active
                                            THEN pass.status.active ELSE Stored.status.active
      BY <3>1, VersionParts, MergedParts
    <3>3. v \in Version /\ v.status = Merged(Stored.status)
      BY <3>1, <3>2, PatchedVersion
    <3> HIDE DEF v
    <3>4. Stored' = v \/ Stored' = Stored
      <4>1. UNCHANGED log => Stored' = Stored
        BY DEF Stored
      <4> QED
        BY <2>1, <3>1, <3>3, <4>1, StoreLog DEF Versions
    <3>5. pass.status.active # pass.copy.status.active => told = FlagOf(pass.status.active)
      BY <1>1, <3>1 DEF RLInv, PassOK
    <3> QED
      BY <3>1, <3>2, <3>3, <3>4, <3>5
  <2>6. CASE \/ Tick \/ Sync \/ Fire \/ Begin \/ WriteRefused \/ WriteFails \/ Restart
             \/ UNCHANGED vars
    BY <1>1, <2>6, StoredStays
  <2> QED
    BY <1>1, <2>3, <2>4, <2>5, <2>6 DEF Next, User, Reconcile
<1>2. RLInv /\ [Next]_vars => [A]_vars
  BY <1>1
<1> QED
  BY <1>2, ReconcileInvariance, PTL DEF Spec, ChangesAreAnnounced
=============================================================================
