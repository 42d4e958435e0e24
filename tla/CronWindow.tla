---------------------------- MODULE CronWindow ----------------------------
(***************************************************************************)
(* internal/policy/windows.go: is a cron-based maintenance window open?    *)
(*                                                                         *)
(* robfig/cron's Schedule is external.  All the code asks of it is Next(t),*)
(* the first start strictly after t, so a schedule is the set of its start *)
(* instants.  Instants are natural numbers; NoTime is Go's zero time.Time, *)
(* which precedes them all and is what Next answers for a schedule that    *)
(* never runs (30 February).  Every other schedule never ends: see Endless.*)
(* A time zone only moves the set and is folded into it.                   *)
(***************************************************************************)
EXTENDS Integers, FiniteSetsExt

CONSTANTS
  SearchHorizon,  \* how far back the search for a start begins (14 days)
  MaxIterations   \* the loop gives up after this many starts (10000)

ASSUME SearchHorizonAssumption == SearchHorizon \in Nat \ {0}
ASSUME MaxIterationsAssumption == MaxIterations \in Nat

NoTime == 0

(* A window of a MaintenanceWindow.  valid is FALSE when the time zone or  *)
(* the cron expression does not parse.                                     *)
WindowType(Times) ==
  [valid : BOOLEAN, starts : SUBSET Times, duration : Int]

(* What stands for an unending schedule in a model whose clock stops at    *)
(* `last': there is a start after it.                                      *)
Endless(starts, last) == starts = {} \/ \E s \in starts : s > last

(* Schedule.Next(t).                                                       *)
NextStart(starts, t) ==
  LET later == {s \in starts : s > t}
  IN  IF later = {} THEN NoTime ELSE Min(later)

(* The starts the search loop visits: from the horizon up to now, and no   *)
(* more of them than the iteration cap lets pass (the cap is tested after  *)
(* the start has been recorded, hence the + 1).                            *)
Visited(starts, now) ==
  LET recent == {s \in starts : now - SearchHorizon < s /\ s <= now}
  IN  {s \in recent :
         Cardinality({r \in recent : r <= s}) <= MaxIterations + 1}

PrevStartMutant(starts, now) ==  \* the search keeps its first start
  LET visited == Visited(starts, now)
  IN  IF visited = {} THEN NoTime ELSE Min(visited)

PrevStart(starts, now) ==
  LET visited == Visited(starts, now)
  IN  IF visited = {} THEN NoTime ELSE Max(visited)

WindowOk(w) == w.valid /\ w.duration > 0

(* ok is FALSE where the Go function returns an error; the other fields    *)
(* mean nothing then.                                                      *)
EvalCronWindow(now, w) ==
  LET prev == PrevStart(w.starts, now)
  IN  [ok     |-> WindowOk(w),
       active |-> prev # NoTime /\ prev <= now /\ now < prev + w.duration,
       next   |-> NextStart(w.starts, now)]

-----------------------------------------------------------------------------
(* What a window promises, whatever the search loop does: it is open for   *)
(* `duration' after each of its starts.                                    *)
WindowOpen(now, w) == \E s \in w.starts : s <= now /\ now < s + w.duration

(* The windows for which the search loop is exact at the given instants:  *)
(* none outlasts the horizon, and no horizon holds more starts than the    *)
(* cap lets pass.                                                          *)
WithinSearch(instants, w) ==
  /\ w.duration <= SearchHorizon
  /\ \A n \in instants :
       Cardinality({s \in w.starts : n - SearchHorizon < s /\ s <= n})
         <= MaxIterations + 1
=============================================================================
