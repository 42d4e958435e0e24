------------------------------- MODULE Policy -------------------------------
(***************************************************************************)
(* internal/policy/evaluator.go: given a request and the policies, is the  *)
(* change allowed?                                                         *)
(*                                                                         *)
(* A label set is a set of "key=value" pairs.  A selector requires some of *)
(* them and excludes others, or is malformed (valid = FALSE); a nil        *)
(* selector requires and excludes none.                                    *)
(* The name of a policy is its rank in the string order, a natural number. *)
(* The lists the API server or a cache returns come in no particular order *)
(* and hold each name once, so they are sets here.                         *)
(***************************************************************************)
EXTENDS CronWindow

CONSTANTS Label, User, Group, Name, Time

ASSUME NameAssumption == Name \subseteq Nat \ {0}
(* Time has no gaps.                                                       *)
ASSUME TimeAssumption == Time \subseteq Nat \ {0} /\ \A t \in Time : 1..t \subseteq Time

Kind   == {"Deployment", "StatefulSet", "DaemonSet", "CronJob"}
Action == {"CREATE", "ROLL_OUT", "SCALE", "DELETE"}

Selector == [valid : BOOLEAN, required : SUBSET Label, excluded : SUBSET Label]
Target   == [kinds : SUBSET Kind, nsSel : Selector, objSel : Selector]

ChangeFreeze ==
  [name : Name, target : Target, deny : SUBSET Action,
   start : Time, end : Time]
MaintenanceWindow ==
  [name : Name, target : Target, deny : SUBSET Action,
   mode : {"DenyOutsideWindows"}, windows : SUBSET WindowType(Time)]
FreezeException ==
  [name : Name, target : Target, allow : SUBSET Action,
   start : Time, end : Time,
   requireLabels : SUBSET Label, users : SUBSET User, groups : SUBSET Group]

(* policy.Input, with the namespace's labels already read.                 *)
Input ==
  [now : Time, nsLabels : SUBSET Label, kind : Kind, action : Action,
   objLabels : SUBSET Label, user : User, groups : SUBSET Group]

NilTime == -1  \* a nil *time.Time
NoRef   == [kind |-> "None", name |-> 0]

DenyRef == [kind : {"ChangeFreeze", "MaintenanceWindow"}, name : Name]
OverrideRef == [kind : {"FreezeException"}, name : Name]
MaybeTime == Nat \cup {NilTime}
DenyCandidate == [ref : DenyRef, next : MaybeTime, freezeEnd : MaybeTime]
Decision ==
  [allowed : BOOLEAN, policy : DenyRef \cup {NoRef},
   override : OverrideRef \cup {NoRef}, next : MaybeTime, freezeEnd : MaybeTime]

-----------------------------------------------------------------------------
(* Selectors, intervals and constraints *)

MatchLabelSelector(sel, labels) ==
  sel.valid /\ sel.required \subseteq labels /\ sel.excluded \cap labels = {}

TargetMatches(t, nsLabels, objLabels, kind) ==
  /\ kind \in t.kinds
  /\ MatchLabelSelector(t.nsSel, nsLabels)
  /\ MatchLabelSelector(t.objSel, objLabels)

Covers(p, in) == TargetMatches(p.target, in.nsLabels, in.objLabels, in.kind)

InForceMutant(p, now) ==  \* the end is included
  p.start <= now /\ now <= p.end

InForce(p, now) == p.start <= now /\ now < p.end

ConstraintsPassMutant(ex, in) ==  \* the list of users is ignored
  /\ ex.requireLabels \subseteq in.objLabels
  /\ ex.groups # {} => in.groups \cap ex.groups # {}

ConstraintsPass(ex, in) ==
  /\ ex.requireLabels \subseteq in.objLabels
  /\ ex.users # {} => in.user \in ex.users
  /\ ex.groups # {} => in.groups \cap ex.groups # {}

-----------------------------------------------------------------------------
(* Deny candidates *)

FreezeDenies(cf, in) ==
  Covers(cf, in) /\ in.action \in cf.deny /\ InForce(cf, in.now)

CollectChangeFreezes(in, cfs) ==
  {[ref |-> [kind |-> "ChangeFreeze", name |-> cf.name],
    next |-> cf.end, freezeEnd |-> cf.end] :
       cf \in {c \in cfs : FreezeDenies(c, in)}}

(* A window that does not evaluate is skipped.                             *)
Evaluated(mw, now) ==
  {r \in {EvalCronWindow(now, w) : w \in mw.windows} : r.ok}

WindowDenies(mw, in) ==
  /\ Covers(mw, in)
  /\ in.action \in mw.deny
  /\ mw.mode = "DenyOutsideWindows"
  /\ \A r \in Evaluated(mw, in.now) : ~r.active

BestNextMutant(mw, now) ==  \* the last of the next starts
  LET nexts == {r.next : r \in Evaluated(mw, now)}
  IN  IF nexts = {} THEN NilTime ELSE Max(nexts)

BestNext(mw, now) ==
  LET nexts == {r.next : r \in Evaluated(mw, now)}
  IN  IF nexts = {} THEN NilTime ELSE Min(nexts)

CollectMaintenanceWindows(in, mws) ==
  {[ref |-> [kind |-> "MaintenanceWindow", name |-> mw.name],
    next |-> BestNext(mw, in.now), freezeEnd |-> NilTime] :
       mw \in {m \in mws : WindowDenies(m, in)}}

CollectDenyCandidates(in, cfs, mws) ==
  CollectChangeFreezes(in, cfs) \cup CollectMaintenanceWindows(in, mws)

-----------------------------------------------------------------------------
(* Choice among the candidates *)

PrecedesMutant(a, b) ==  \* by time only: the order of the lists decides ties
  \/ a.next # NilTime /\ b.next = NilTime
  \/ a.next # NilTime /\ b.next # NilTime /\ a.next < b.next

(* The order of the stable sort: times first, no time last, then names;    *)
(* ChangeFreezes were appended before MaintenanceWindows.                  *)
Precedes(a, b) ==
  \/ a.next # NilTime /\ b.next = NilTime
  \/ a.next # NilTime /\ b.next # NilTime /\ a.next < b.next
  \/ a.next = b.next /\ a.ref.name < b.ref.name
  \/ /\ a.next = b.next /\ a.ref.name = b.ref.name
     /\ a.ref.kind = "ChangeFreeze" /\ b.ref.kind = "MaintenanceWindow"

First(denies) == {c \in denies : \A d \in denies \ {c} : Precedes(c, d)}

SelectDenyCandidate(denies) == CHOOSE c \in First(denies) : TRUE

-----------------------------------------------------------------------------
(* Exceptions and the decision *)

Admits(ex, in) ==
  /\ Covers(ex, in)
  /\ in.action \in ex.allow
  /\ InForce(ex, in.now)
  /\ ConstraintsPass(ex, in)

(* The first match of the list wins, and the list has no order: any match. *)
Overrides(in, fes) ==
  LET matches == {ex \in fes : Admits(ex, in)}
  IN  IF matches = {} THEN {NoRef}
      ELSE {[kind |-> "FreezeException", name |-> ex.name] : ex \in matches}

AllowAll == [allowed |-> TRUE, policy |-> NoRef, override |-> NoRef,
             next |-> NilTime, freezeEnd |-> NilTime]

DecideMutant(denies, override) ==  \* the override takes the place of the policy
  LET c == SelectDenyCandidate(denies)
  IN  [allowed |-> override # NoRef, policy |-> override, override |-> NoRef,
       next |-> c.next, freezeEnd |-> c.freezeEnd]

Decide(denies, override) ==
  LET c == SelectDenyCandidate(denies)
  IN  [allowed |-> override # NoRef, policy |-> c.ref, override |-> override,
       next |-> c.next, freezeEnd |-> c.freezeEnd]

(* The decisions Evaluate may return on one snapshot of the policies.      *)
Evaluate(in, cfs, mws, fes) ==
  LET denies == CollectDenyCandidates(in, cfs, mws)
  IN  IF denies = {} THEN {AllowAll}
      ELSE {Decide(denies, o) : o \in Overrides(in, fes)}
=============================================================================
