----------------------------- MODULE Evaluation -----------------------------
(***************************************************************************)
(* The evaluator asked the same question again and again as time passes:   *)
(* what the decisions of internal/policy promise to whoever reads them.    *)
(* The policies do not change here; Admission.tla lets them change.        *)
(***************************************************************************)
EXTENDS Policy

CONSTANTS
  ChangeFreezePool, MaintenanceWindowPool, FreezeExceptionPool, RequestPool,
  MaxTime  \* the last instant a question is asked at

ASSUME PoolAssumption ==
  /\ ChangeFreezePool \subseteq ChangeFreeze
  /\ MaintenanceWindowPool \subseteq MaintenanceWindow
  /\ FreezeExceptionPool \subseteq FreezeException
  /\ RequestPool \subseteq Input /\ \A q \in RequestPool : q.now <= MaxTime
  /\ \A mw \in MaintenanceWindowPool : \A w \in mw.windows : Endless(w.starts, MaxTime)
ASSUME MaxTimeAssumption == MaxTime \in Nat /\ 1..MaxTime \subseteq Time

VARIABLES cfs, mws, fes, in
vars == <<cfs, mws, fes, in>>

UniqueNames(ps) == \A p, q \in ps : p.name = q.name => p = q
Collections(pool) == {ps \in SUBSET pool : UniqueNames(ps)}

TypeOK ==
  /\ cfs \in Collections(ChangeFreezePool)
  /\ mws \in Collections(MaintenanceWindowPool)
  /\ fes \in Collections(FreezeExceptionPool)
  /\ in \in Input
  /\ Evaluate(in, cfs, mws, fes) \subseteq Decision

Init ==
  /\ cfs \in Collections(ChangeFreezePool)
  /\ mws \in Collections(MaintenanceWindowPool)
  /\ fes \in Collections(FreezeExceptionPool)
  /\ in \in RequestPool

AskLater ==
  /\ in.now < MaxTime
  /\ in' = [in EXCEPT !.now = @ + 1]
  /\ UNCHANGED <<cfs, mws, fes>>

Next == AskLater
Spec == Init /\ [][Next]_vars

-----------------------------------------------------------------------------
At(t) == [in EXCEPT !.now = t]
Denies(t) == CollectDenyCandidates(At(t), cfs, mws)
Decisions == Evaluate(in, cfs, mws, fes)
Denied(d) == ~d.allowed
SearchIsExact == \A mw \in mws : \A w \in mw.windows : WithinSearch(Time, w)

(* The policies form one decision, whatever order the lists came in:       *)
(* exactly one candidate sorts first, so the policy named in the deny      *)
(* message, in the metric and in the CI answer never depends on the order  *)
(* a cache happens to list two overlapping policies in.                    *)
SelectionIsDeterministic ==
  LET denies == Denies(in.now)
  IN  denies # {} => \E c \in denies : First(denies) = {c}

(* A maintenance policy stands in the way exactly when none of its windows *)
(* is open: the bounded search of windows.go finds the one start that      *)
(* matters, whatever instant it is asked at.                               *)
DeniedExactlyOutsideWindows ==
  SearchIsExact =>
    \A mw \in mws :
      (Covers(mw, in) /\ in.action \in mw.deny) =>
        (WindowDenies(mw, in) <=>
           \A w \in mw.windows : WindowOk(w) => ~WindowOpen(in.now, w))

(* "Next allowed at T" is never too late: at every instant before T some   *)
(* policy still denies the same change, so whoever waits for T loses       *)
(* nothing by waiting.                                                     *)
DeniedUntilNextAllowed ==
  SearchIsExact =>
    \A d \in Decisions : Denied(d) /\ d.next # NilTime =>
      \A t \in in.now .. (d.next - 1) : Denies(t) # {}

NeverRuns(w) == WindowOk(w) /\ w.starts = {}

(* The named policy is a maintenance policy with a window that never runs, *)
(* alone or beside others that do.                                         *)
HasDeadWindow(ref) ==
  \E mw \in mws :
    /\ ref = [kind |-> "MaintenanceWindow", name |-> mw.name]
    /\ \E w \in mw.windows : NeverRuns(w)

(* The instant named in a denial lies ahead, and at that instant itself    *)
(* the policy named in it has let go, a freeze at its end time too (docs   *)
(* and comments write the interval closed).  The one exception: one window *)
(* that never runs is enough for the zero time to be announced, although   *)
(* the other windows of the policy open again.                             *)
NamedPolicyReleasesAtNextAllowed ==
  SearchIsExact =>
    \A d \in Decisions : Denied(d) /\ d.next # NilTime =>
      IF HasDeadWindow(d.policy) THEN d.next = NoTime
      ELSE d.next > in.now /\ \A c \in Denies(d.next) : c.ref # d.policy

(* No change is allowed inside a deny except on the strength of an         *)
(* exception that covers it and is in force at that very instant, and then *)
(* the answer names it together with the policy it overrides.              *)
AllowedDenialsAreExcepted ==
  \A d \in Decisions : d.allowed /\ Denies(in.now) # {} =>
    /\ d.policy \in {c.ref : c \in Denies(in.now)}
    /\ \E ex \in fes :
         /\ d.override = [kind |-> "FreezeException", name |-> ex.name]
         /\ ex.start <= in.now /\ in.now < ex.end
         /\ in.kind \in ex.target.kinds /\ in.action \in ex.allow
         /\ ex.users # {} => in.user \in ex.users
=============================================================================
