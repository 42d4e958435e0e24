-------------------------- MODULE Evaluation_proofs --------------------------
(***************************************************************************)
(* What internal/policy promises, for any policies, requests, horizon and  *)
(* cap.                                                                    *)
(***************************************************************************)
EXTENDS Evaluation, Policy_proofs

(* The policies and the question have their types and names are unique.    *)
InputsOK ==
  /\ cfs \in Collections(ChangeFreezePool)
  /\ mws \in Collections(MaintenanceWindowPool)
  /\ fes \in Collections(FreezeExceptionPool)
  /\ in \in Input /\ in.now <= MaxTime

(* What that says of each policy.                                          *)
LEMMA Policies ==
  ASSUME InputsOK
  PROVE  /\ cfs \subseteq ChangeFreeze /\ mws \subseteq MaintenanceWindow
         /\ fes \subseteq FreezeException
         /\ UniqueNames(cfs) /\ UniqueNames(mws)
         /\ \A t \in Time : At(t) \in Input /\ At(t) = [in EXCEPT !.now = t] /\ At(t).now = t
         /\ At(in.now) = in /\ in.now \in Time /\ in.now \in Nat \ {0}
<1>1. /\ cfs \subseteq ChangeFreeze /\ mws \subseteq MaintenanceWindow
      /\ fes \subseteq FreezeException
      /\ UniqueNames(cfs) /\ UniqueNames(mws)
  BY PoolAssumption DEF InputsOK, Collections
<1>2. \A t \in Time : At(t) \in Input /\ At(t) = [in EXCEPT !.now = t] /\ At(t).now = t
  BY DEF InputsOK, At, Input
<1>3. At(in.now) = in /\ in.now \in Time /\ in.now \in Nat \ {0}
  BY TimeAssumption DEF InputsOK, At, Input
<1> QED
  BY <1>1, <1>2, <1>3

-----------------------------------------------------------------------------
(* The windows of a maintenance policy *)

(* A maintenance policy denies what it covers while no window is open.     *)
LEMMA DeniesWhileClosed ==
  ASSUME NEW mw \in MaintenanceWindow, NEW i \in Input,
         \A w \in mw.windows : WithinSearch(Time, w)
  PROVE  WindowDenies(mw, i) <=>
           /\ Covers(mw, i) /\ i.action \in mw.deny
           /\ \A w \in mw.windows : WindowOk(w) => ~WindowOpen(i.now, w)
<1>1. i.now \in Time /\ i.now \in Nat
  BY TimeAssumption DEF Input
<1>2. mw.mode = "DenyOutsideWindows"
  BY DEF MaintenanceWindow
<1>3. \A w \in mw.windows : EvalCronWindow(i.now, w).active <=> WindowOpen(i.now, w)
  BY <1>1, WindowParts, SearchDecidesOpen
<1>4. (\A r \in Evaluated(mw, i.now) : ~r.active) <=>
         \A w \in mw.windows : WindowOk(w) => ~EvalCronWindow(i.now, w).active
  BY EvaluatedWindows
<1> QED
  BY <1>2, <1>3, <1>4 DEF WindowDenies

-----------------------------------------------------------------------------
(* The candidates *)

(* Where a candidate comes from, and that exactly one is chosen.           *)
LEMMA Candidates ==
  ASSUME InputsOK, NEW t \in Time
  PROVE  /\ \A c : c \in Denies(t) <=>
              \/ \E cf \in cfs : FreezeDenies(cf, At(t)) /\ c = FreezeCandidate(cf)
              \/ \E mw \in mws : WindowDenies(mw, At(t)) /\ c = WindowCandidate(mw, t)
         /\ Denies(t) # {} => LET c == SelectDenyCandidate(Denies(t))
                              IN  c \in Denies(t) /\ First(Denies(t)) = {c}
<1>1. At(t).now = t /\ t \in Nat
  BY Policies, TimeAssumption
<1>2. /\ Denies(t) \in SUBSET DenyCandidate
      /\ \A c, d \in Denies(t) : c.ref = d.ref /\ c.next = d.next => c = d
  BY <1>1, Policies, CandidatesOfPolicies DEF Denies
<1>3. Denies(t) # {} => LET c == SelectDenyCandidate(Denies(t))
                        IN  c \in Denies(t) /\ First(Denies(t)) = {c}
  BY <1>2, OneIsFirst
<1> QED
  BY <1>1, <1>3, CandidateSources DEF Denies

-----------------------------------------------------------------------------
(* The decision *)

(* What a decision is made of.                                             *)
LEMMA Decided ==
  ASSUME InputsOK, NEW d \in Decisions
  PROVE  \/ Denies(in.now) = {} /\ d = AllowAll
         \/ /\ Denies(in.now) # {}
            /\ \E o \in Overrides(in, fes) : d = Decide(Denies(in.now), o)
BY Policies DEF Decisions, Evaluate, Denies

(* A denial is the candidate that was chosen.                              *)
LEMMA DenialIsCandidate ==
  ASSUME InputsOK, NEW d \in Decisions, Denied(d)
  PROVE  \E c \in Denies(in.now) : d.policy = c.ref /\ d.next = c.next
<1>1. in.now \in Nat /\ At(in.now) = in
  BY Policies
<1> QED
  BY <1>1, Policies, DenialOfCandidate DEF Denied, Denies, Decisions

(* The inputs keep their type as time passes.                              *)
LEMMA InputInvariance == Spec => []InputsOK
<1>1. Init => InputsOK
  BY PoolAssumption DEF Init, InputsOK
<1>2. InputsOK /\ [Next]_vars => InputsOK'
  <2> SUFFICES ASSUME InputsOK, [Next]_vars PROVE InputsOK'
    OBVIOUS
  <2>1. CASE AskLater
    <3>1. in.now + 1 \in Time
      <4>1. in.now \in Nat \ {0} /\ in.now < MaxTime
        BY <2>1, Policies DEF AskLater
      <4>2. in.now + 1 \in 1..MaxTime
        BY <4>1, MaxTimeAssumption
      <4> QED
        BY <4>2, MaxTimeAssumption
    <3>2. in' \in Input /\ in'.now <= MaxTime
      <4>1. in \in Input /\ in' = [in EXCEPT !.now = in.now + 1] /\ in.now < MaxTime
        BY <2>1 DEF AskLater, InputsOK
      <4>2. in' \in Input /\ in'.now = in.now + 1
        BY <3>1, <4>1 DEF Input
      <4> QED
        BY <4>1, <4>2, Policies, MaxTimeAssumption
    <3> QED
      BY <2>1, <3>2 DEF AskLater, InputsOK
  <2>2. CASE UNCHANGED vars
    BY <2>2 DEF vars, InputsOK
  <2> QED
    BY <2>1, <2>2 DEF Next
<1> QED
  BY <1>1, <1>2, PTL DEF Spec

(* The variables and the decisions stay in their types.                    *)
THEOREM TypeCorrect == Spec => []TypeOK
<1>1. InputsOK => TypeOK
  <2>1. InputsOK => Evaluate(in, cfs, mws, fes) \subseteq Decision
    BY Policies, EvaluateType
  <2> QED
    BY <2>1 DEF InputsOK, TypeOK
<1> QED
  BY <1>1, InputInvariance, PTL

(* Whatever policies overlap, exactly one of them is named, so the order   *)
(* of the lists never shows.                                               *)
THEOREM Deterministic_Selection == Spec => []SelectionIsDeterministic
<1>1. InputsOK => SelectionIsDeterministic
  <2> SUFFICES ASSUME InputsOK, Denies(in.now) # {}
               PROVE  \E c \in Denies(in.now) : First(Denies(in.now)) = {c}
    BY DEF SelectionIsDeterministic
  <2> QED
    BY Policies, Candidates
<1> QED
  BY <1>1, InputInvariance, PTL

(* Where the search is exact, a maintenance policy denies a change exactly *)
(* when none of its windows is open.                                       *)
THEOREM Denied_Outside_Windows == Spec => []DeniedExactlyOutsideWindows
<1>1. InputsOK => DeniedExactlyOutsideWindows
  <2> SUFFICES ASSUME InputsOK, SearchIsExact, NEW mw \in mws,
                      Covers(mw, in), in.action \in mw.deny
               PROVE  WindowDenies(mw, in) <=>
                        \A w \in mw.windows : WindowOk(w) => ~WindowOpen(in.now, w)
    BY DEF DeniedExactlyOutsideWindows
  <2>1. mw \in MaintenanceWindow /\ in \in Input
    BY Policies DEF InputsOK
  <2> QED
    BY <2>1, DeniesWhileClosed DEF SearchIsExact
<1> QED
  BY <1>1, InputInvariance, PTL

(* An allowed change that some policy denies has an exception that admits  *)
(* it, and the answer names the exception and the policy.                  *)
THEOREM Excepted_Denials == Spec => []AllowedDenialsAreExcepted
<1>1. InputsOK => AllowedDenialsAreExcepted
  <2> SUFFICES ASSUME InputsOK, NEW d \in Decisions, d.allowed, Denies(in.now) # {}
               PROVE  /\ d.policy \in {c.ref : c \in Denies(in.now)}
                      /\ \E ex \in fes :
                           /\ d.override = [kind |-> "FreezeException", name |-> ex.name]
                           /\ ex.start <= in.now /\ in.now < ex.end
                           /\ in.kind \in ex.target.kinds /\ in.action \in ex.allow
                           /\ ex.users # {} => in.user \in ex.users
    BY DEF AllowedDenialsAreExcepted
  <2>1. PICK o \in Overrides(in, fes) : d = Decide(Denies(in.now), o)
    BY Decided
  <2>2. d.policy = SelectDenyCandidate(Denies(in.now)).ref /\ d.override = o /\ o # NoRef
    BY <2>1 DEF Decide
  <2>3. SelectDenyCandidate(Denies(in.now)) \in Denies(in.now)
    BY Policies, Candidates
  <2>4. PICK ex \in fes : Admits(ex, in) /\ o = [kind |-> "FreezeException", name |-> ex.name]
    BY <2>2, OverridesAdmit
  <2> QED
    BY <2>2, <2>3, <2>4 DEF Admits, Covers, TargetMatches, InForce, ConstraintsPass
<1> QED
  BY <1>1, InputInvariance, PTL

-----------------------------------------------------------------------------
(* The next allowed time *)

(* Time changes nothing of what a policy covers.                           *)
LEMMA CoverageIsTimeless ==
  ASSUME InputsOK, NEW t \in Time
  PROVE  /\ \A p : Covers(p, At(t)) <=> Covers(p, in)
         /\ At(t).action = in.action /\ At(t).now = t
<1>1. At(t) = [in EXCEPT !.now = t] /\ in \in Input
  BY Policies DEF InputsOK
<1>2. /\ At(t).action = in.action /\ At(t).now = t /\ At(t).kind = in.kind
      /\ At(t).nsLabels = in.nsLabels /\ At(t).objLabels = in.objLabels
  BY <1>1 DEF Input
<1> QED
  BY <1>2 DEF Covers

(* A freeze that denies now denies until its end, and no longer.           *)
LEMMA FreezeUntilEnd ==
  ASSUME InputsOK, NEW cf \in cfs, FreezeDenies(cf, in)
  PROVE  /\ cf.end \in Time /\ cf.end > in.now
         /\ \A t \in in.now .. (cf.end - 1) : t \in Time /\ FreezeDenies(cf, At(t))
         /\ ~FreezeDenies(cf, At(cf.end))
<1>1. /\ cf.start \in Time /\ cf.end \in Time /\ cf.start \in Nat /\ cf.end \in Nat
      /\ in.now \in Nat \ {0}
  BY Policies, TimeAssumption DEF ChangeFreeze
<1>2. cf.start <= in.now /\ in.now < cf.end
  BY DEF FreezeDenies, InForce
<1>3. ASSUME NEW t \in in.now .. (cf.end - 1) PROVE t \in Time /\ FreezeDenies(cf, At(t))
  <2>1. t \in 1..cf.end /\ cf.start <= t /\ t < cf.end
    BY <1>1, <1>2
  <2>2. t \in Time
    BY <1>1, <2>1, TimeAssumption
  <2> QED
    BY <2>1, <2>2, CoverageIsTimeless DEF FreezeDenies, InForce
<1>4. ~FreezeDenies(cf, At(cf.end))
  BY <1>1, CoverageIsTimeless DEF FreezeDenies, InForce
<1> QED
  BY <1>1, <1>2, <1>3, <1>4

(* A maintenance policy that denies now denies until the next start it     *)
(* announces, and no longer.                                               *)
LEMMA WindowsUntilNext ==
  ASSUME InputsOK, SearchIsExact, NEW mw \in mws, WindowDenies(mw, in),
         BestNext(mw, in.now) \notin {NilTime, NoTime}
  PROVE  LET next == BestNext(mw, in.now)
         IN  /\ next \in Time /\ next > in.now
             /\ \A t \in in.now .. (next - 1) : t \in Time /\ WindowDenies(mw, At(t))
             /\ ~WindowDenies(mw, At(next))
<1> DEFINE next == BestNext(mw, in.now)
<1>1. mw \in MaintenanceWindow /\ in \in Input /\ in.now \in Nat \ {0}
      /\ \A w \in mw.windows : WithinSearch(Time, w)
  BY Policies DEF InputsOK, SearchIsExact
<1>2. /\ Covers(mw, in) /\ in.action \in mw.deny
      /\ \A w \in mw.windows : WindowOk(w) => ~WindowOpen(in.now, w)
  BY <1>1, DeniesWhileClosed
<1>3. /\ \E w \in mw.windows : WindowOk(w) /\ NextStart(w.starts, in.now) = next
      /\ \A w \in mw.windows : WindowOk(w) => next <= NextStart(w.starts, in.now)
  BY <1>1, BestNextIsFirst
<1>4. PICK v \in mw.windows : WindowOk(v) /\ NextStart(v.starts, in.now) = next
  BY <1>3
<1>5. next \in v.starts /\ next > in.now
  BY <1>1, <1>4, WindowParts, NextStartIsNext
<1>6. next \in Time /\ next \in Nat
  BY <1>1, <1>5, WindowParts
<1> HIDE DEF next
<1>7. ASSUME NEW t \in in.now .. (next - 1) PROVE t \in Time /\ WindowDenies(mw, At(t))
  <2>1. t \in Nat /\ t \in 1..next /\ in.now <= t /\ t < next
    BY <1>1, <1>6
  <2>2. t \in Time
    BY <1>6, <2>1, TimeAssumption
  <2>3. ASSUME NEW w \in mw.windows, WindowOk(w), WindowOpen(t, w) PROVE FALSE
    <3>1. PICK s \in w.starts : s <= t /\ t < s + w.duration
      BY <2>3 DEF WindowOpen
    <3>2. s \in Nat /\ w.duration \in Int /\ w.starts \in SUBSET (Nat \ {0})
      BY <1>1, WindowParts
    <3>3. CASE s <= in.now
      <4>1. in.now < s + w.duration
        BY <1>1, <2>1, <3>1, <3>2
      <4> QED
        BY <1>2, <2>3, <3>3, <4>1 DEF WindowOpen
    <3>4. CASE s > in.now
      <4>1. NextStart(w.starts, in.now) <= s /\ NextStart(w.starts, in.now) \in Nat
        BY <1>1, <3>2, <3>4, NextStartIsNext
      <4>2. next <= NextStart(w.starts, in.now)
        BY <1>3, <2>3
      <4> QED
        BY <1>6, <2>1, <3>1, <3>2, <4>1, <4>2
    <3> QED
      BY <1>1, <3>2, <3>3, <3>4
  <2>4. Covers(mw, At(t)) /\ At(t).action \in mw.deny /\ At(t).now = t /\ At(t) \in Input
    BY <1>2, <2>2, CoverageIsTimeless, Policies
  <2> QED
    BY <1>1, <2>2, <2>3, <2>4, DeniesWhileClosed
<1>8. ~WindowDenies(mw, At(next))
  <2>1. At(next) \in Input /\ At(next).now = next
    BY <1>6, Policies
  <2>2. WindowOpen(next, v)
    <3>1. v.duration \in Int /\ v.duration > 0
      BY <1>1, <1>4, WindowParts DEF WindowOk
    <3> QED
      BY <1>5, <1>6, <3>1 DEF WindowOpen
  <2> QED
    BY <1>1, <1>4, <2>1, <2>2, DeniesWhileClosed
<1> QED
  BY <1>5, <1>6, <1>7, <1>8 DEF next

(* Before the time a denial names some policy still denies, so waiting for *)
(* it loses nothing.                                                       *)
THEOREM Denied_Until_Next == Spec => []DeniedUntilNextAllowed
<1>1. InputsOK => DeniedUntilNextAllowed
  <2> SUFFICES ASSUME InputsOK, SearchIsExact, NEW d \in Decisions, Denied(d),
                      d.next # NilTime, NEW t \in in.now .. (d.next - 1)
               PROVE  Denies(t) # {}
    BY DEF DeniedUntilNextAllowed
  <2>1. PICK c \in Denies(in.now) : d.policy = c.ref /\ d.next = c.next
    BY DenialIsCandidate
  <2>2. in.now \in Time /\ At(in.now) = in /\ in.now \in Nat \ {0}
    BY Policies
  <2>3. CASE \E cf \in cfs : FreezeDenies(cf, in) /\ c = FreezeCandidate(cf)
    <3>1. PICK cf \in cfs : FreezeDenies(cf, in) /\ c = FreezeCandidate(cf)
      BY <2>3
    <3>2. t \in Time /\ FreezeDenies(cf, At(t))
      BY <2>1, <3>1, FreezeUntilEnd DEF FreezeCandidate
    <3>3. FreezeCandidate(cf) \in Denies(t)
      BY <3>2, Candidates
    <3> QED
      BY <3>3
  <2>4. CASE \E mw \in mws : WindowDenies(mw, in) /\ c = WindowCandidate(mw, in.now)
    <3>1. PICK mw \in mws : WindowDenies(mw, in) /\ c = WindowCandidate(mw, in.now)
      BY <2>4
    <3>2. d.next = BestNext(mw, in.now)
      BY <2>1, <3>1 DEF WindowCandidate
    <3>3. d.next # NoTime
      BY <2>2 DEF NoTime
    <3>4. t \in Time /\ WindowDenies(mw, At(t))
      BY <3>1, <3>2, <3>3, WindowsUntilNext
    <3>5. WindowCandidate(mw, t) \in Denies(t)
      BY <3>4, Candidates
    <3> QED
      BY <3>5
  <2> QED
    BY <2>2, <2>3, <2>4, Candidates
<1> QED
  BY <1>1, InputInvariance, PTL

(* The time a maintenance policy announces is the zero time exactly when   *)
(* one of its windows never runs: every other schedule has a start ahead.  *)
LEMMA ZeroTimeIsDeadWindow ==
  ASSUME InputsOK, NEW mw \in mws
  PROVE  BestNext(mw, in.now) = NoTime <=> \E w \in mw.windows : NeverRuns(w)
<1> DEFINE next == BestNext(mw, in.now)
<1>1. /\ mw \in MaintenanceWindow /\ mw \in MaintenanceWindowPool
      /\ in.now \in Nat /\ MaxTime \in Nat /\ in.now <= MaxTime
  BY Policies, MaxTimeAssumption DEF InputsOK, Collections
<1>2. /\ next \in MaybeTime
      /\ next # NilTime => \E w \in mw.windows : WindowOk(w) /\ NextStart(w.starts, in.now) = next
      /\ \A w \in mw.windows :
           WindowOk(w) => next # NilTime /\ next <= NextStart(w.starts, in.now)
  BY <1>1, BestNextIsFirst
<1> HIDE DEF next
<1>3. ASSUME NEW w \in mw.windows, NeverRuns(w) PROVE next = NoTime
  <2>1. NextStart(w.starts, in.now) = NoTime
    BY <1>3 DEF NeverRuns, NextStart
  <2> QED
    BY <1>2, <1>3, <2>1 DEF NeverRuns, MaybeTime, NilTime, NoTime
<1>4. ASSUME next = NoTime PROVE \E w \in mw.windows : NeverRuns(w)
  <2>1. PICK w \in mw.windows : WindowOk(w) /\ NextStart(w.starts, in.now) = NoTime
    BY <1>2, <1>4 DEF NilTime, NoTime
  <2>2. w.starts \in SUBSET (Nat \ {0}) /\ Endless(w.starts, MaxTime)
    BY <1>1, WindowParts, PoolAssumption
  <2>3. \A s \in w.starts : ~(s > in.now)
    BY <1>1, <2>1, <2>2, NextStartIsNext
  <2>4. w.starts = {}
    BY <1>1, <2>2, <2>3 DEF Endless
  <2> QED
    BY <2>1, <2>4 DEF NeverRuns
<1> QED
  BY <1>3, <1>4 DEF next

(* The time a denial names lies ahead and the policy it names has let go   *)
(* by then, unless that is a policy with a window that never runs: then it *)
(* is the zero time.                                                       *)
THEOREM Named_Policy_Releases == Spec => []NamedPolicyReleasesAtNextAllowed
<1>1. InputsOK => NamedPolicyReleasesAtNextAllowed
  <2> SUFFICES ASSUME InputsOK, SearchIsExact, NEW d \in Decisions, Denied(d),
                      d.next # NilTime
               PROVE  IF HasDeadWindow(d.policy) THEN d.next = NoTime
                      ELSE d.next > in.now /\ \A e \in Denies(d.next) : e.ref # d.policy
    BY DEF NamedPolicyReleasesAtNextAllowed
  <2>1. PICK c \in Denies(in.now) : d.policy = c.ref /\ d.next = c.next
    BY DenialIsCandidate
  <2>2. in.now \in Time /\ At(in.now) = in
    BY Policies
  <2>3. CASE \E cf \in cfs : FreezeDenies(cf, in) /\ c = FreezeCandidate(cf)
    <3>1. PICK cf \in cfs : FreezeDenies(cf, in) /\ c = FreezeCandidate(cf)
      BY <2>3
    <3>2. d.next = cf.end /\ d.policy = [kind |-> "ChangeFreeze", name |-> cf.name]
      BY <2>1, <3>1 DEF FreezeCandidate
    <3>3. d.next \in Time /\ d.next > in.now /\ ~FreezeDenies(cf, At(d.next))
      BY <3>1, <3>2, FreezeUntilEnd
    <3>4. ASSUME NEW e \in Denies(d.next), e.ref = d.policy PROVE FALSE
      <4>1. PICK b \in cfs : FreezeDenies(b, At(d.next)) /\ e = FreezeCandidate(b)
        BY <3>2, <3>3, <3>4, Candidates DEF WindowCandidate
      <4>2. b.name = cf.name
        BY <3>2, <3>4, <4>1 DEF FreezeCandidate
      <4> QED
        BY <3>3, <4>1, <4>2, Policies DEF UniqueNames
    <3>5. ~HasDeadWindow(d.policy)
      <4>1. d.policy.kind = "ChangeFreeze"
        BY <3>2
      <4>2. ASSUME NEW m \in mws, d.policy = [kind |-> "MaintenanceWindow", name |-> m.name]
            PROVE  FALSE
        <5>1. d.policy.kind = "MaintenanceWindow"
          BY <4>2
        <5> QED
          BY <4>1, <5>1
      <4> QED
        BY <4>2 DEF HasDeadWindow
    <3> QED
      BY <3>3, <3>4, <3>5
  <2>4. CASE \E mw \in mws : WindowDenies(mw, in) /\ c = WindowCandidate(mw, in.now)
    <3>1. PICK mw \in mws : WindowDenies(mw, in) /\ c = WindowCandidate(mw, in.now)
      BY <2>4
    <3>2. /\ d.next = BestNext(mw, in.now)
          /\ d.policy = [kind |-> "MaintenanceWindow", name |-> mw.name]
      BY <2>1, <3>1 DEF WindowCandidate
    <3>3. HasDeadWindow(d.policy) <=> d.next = NoTime
      <4>1. HasDeadWindow(d.policy) <=> \E w \in mw.windows : NeverRuns(w)
        <5>1. ASSUME NEW m \in mws,
                     d.policy = [kind |-> "MaintenanceWindow", name |-> m.name]
              PROVE  m = mw
          <6>1. m.name = mw.name
            BY <3>2, <5>1
          <6> QED
            BY <6>1, Policies DEF UniqueNames
        <5> QED
          BY <3>2, <5>1 DEF HasDeadWindow
      <4> QED
        BY <3>2, <4>1, ZeroTimeIsDeadWindow
    <3>4. ASSUME d.next # NoTime
          PROVE  d.next \in Time /\ d.next > in.now /\ ~WindowDenies(mw, At(d.next))
      BY <3>1, <3>2, <3>4, WindowsUntilNext
    <3>5. ASSUME d.next # NoTime, NEW e \in Denies(d.next), e.ref = d.policy PROVE FALSE
      <4>1. PICK b \in mws : WindowDenies(b, At(d.next)) /\ e = WindowCandidate(b, d.next)
        BY <3>2, <3>4, <3>5, Candidates DEF FreezeCandidate
      <4>2. b.name = mw.name
        BY <3>2, <3>5, <4>1 DEF WindowCandidate
      <4> QED
        BY <3>4, <3>5, <4>1, <4>2, Policies DEF UniqueNames
    <3> QED
      BY <3>3, <3>4, <3>5
  <2> QED
    BY <2>2, <2>3, <2>4, Candidates
<1> QED
  BY <1>1, InputInvariance, PTL
=============================================================================
