--------------------------- MODULE ReconcileLoop ---------------------------
(***************************************************************************)
(* internal/controller: the reconcilers of ChangeFreeze, MaintenanceWindow *)
(* and FreezeException keep the status of a policy, its metric and its     *)
(* events in step with the clock and with the edits of its spec.           *)
(*                                                                         *)
(* One policy: the policies of a kind share a worker and nothing else.     *)
(* log is every version of it from the one the informer cache holds (the   *)
(* first) to the one the API server stores (the last): the watch delivers  *)
(* the others one by one.  A pass reads the cached copy and the clock,     *)
(* calls the CronJob and GitOps helpers (CronJobSuspend, GitOpsPause) and  *)
(* writes the status; the clock may move, and the policy change, between.  *)
(***************************************************************************)
EXTENDS CronWindow, SequencesExt

CONSTANTS
  Initial,   \* what a policy can be when the manager starts, and
  Specs,     \* what users write then: see SpecAssumption
  Second, DefaultRequeue, EndedRequeue,  \* time.Second, 5 and 10 minutes
  MaxTime, MaxEdits, MaxFaults,
  MaxLag     \* how many versions the cache may be behind

Time == 1..MaxTime
Kinds == {"ChangeFreeze", "FreezeException", "MaintenanceWindow"}

(* A maintenance policy has windows (the CRD wants one at least), the      *)
(* others one interval; gitops is behavior.gitops.enabled.  Which windows  *)
(* the search of CronWindow misses is left to Evaluation.                  *)
ASSUME SpecAssumption ==
  \A s \in Initial \cup Specs : s.gitops \in BOOLEAN /\
    \/ s.kind \in Kinds \ {"MaintenanceWindow"} /\ s.start \in Nat /\ s.end \in Nat
    \/ /\ s.kind = "MaintenanceWindow"
       /\ s.windows \in Seq(WindowType(Nat \ {0})) \ {<<>>}
       /\ \A w \in Range(s.windows) :
            Endless(w.starts, MaxTime) /\ WithinSearch(Time, w)
ASSUME RequeueAssumption ==
  Second \in Nat \ {0} /\ DefaultRequeue \in Nat \ {0} /\ EndedRequeue \in Nat \ {0}
ASSUME BoundAssumption ==
  /\ MaxTime \in Nat \ {0} /\ MaxEdits \in Nat /\ MaxFaults \in Nat
  /\ MaxLag \in Nat \ {0}

VARIABLES
  kind,    \* the kind of the policy
  now,
  log,     \* the versions of the policy the cache has not left behind
  queued,  \* the policy is in the work queue
  timer,   \* when the queue will add it (RequeueAfter), or NoTimer
  pass,    \* the reconcile under way
  gauge,   \* freeze_operator_active_policies_total, "unset" in a new process
  told,    \* the last Activated (TRUE) or Deactivated event (history)
  delay,   \* how long the last complete pass took (history)
  edits, faults

vars == <<kind, now, log, queued, timer, pass, gauge, told, delay, edits, faults>>

NoTimer == 0
Absent == [gen |-> 0]
Flag == {"Unknown", "True", "False"}
FlagOf(b) == IF b THEN "True" ELSE "False"

(* The list of conditions is one value to a merge patch.                   *)
Conditions == [Active : Flag, Ready : Flag,
               activeGen : Nat, readyGen : Nat]  \* their ObservedGeneration
Status ==
  [active : BOOLEAN, observed : Nat, conditions : Conditions,
   remaining : BOOLEAN,         \* timeRemaining is there
   window : Int, next : Int]    \* starts of activeWindow and nextWindow
NoStatus ==
  [active |-> FALSE, observed |-> 0,
   conditions |-> [Active |-> "Unknown", Ready |-> "Unknown",
                   activeGen |-> 0, readyGen |-> 0],
   remaining |-> FALSE, window |-> NoTime, next |-> NoTime]
Version == [gen : Nat \ {0}, spec : Initial \cup Specs, status : Status]

Stored == Last(log)
Cached == Head(log)

Idle == [pc |-> "idle"]
Pass == [pc : {"write"}, copy : Version, current : BOOLEAN, t : Time,
         ok : BOOLEAN, status : Status]

TypeOK ==
  /\ kind \in Kinds
  /\ now \in Time
  /\ log \in Seq(Version \cup {Absent}) /\ Len(log) \in 1..MaxLag + 1
  /\ queued \in BOOLEAN /\ timer \in Nat
  /\ pass \in Pass \cup {Idle}
  /\ gauge \in {"unset", "True", "False"} /\ told \in Flag
  /\ delay \in 0..MaxTime /\ edits \in 0..MaxEdits /\ faults \in 0..MaxFaults

New(s) == [gen |-> 1, spec |-> s, status |-> NoStatus]

(* A policy that is there when the manager starts, whoever let it in.      *)
Init ==
  /\ \E s \in Initial : kind = s.kind /\ log = <<New(s)>>
  /\ now = 1
  /\ queued = TRUE /\ timer = NoTimer
  /\ pass = Idle
  /\ gauge = "unset" /\ told = "Unknown"
  /\ delay = 0 /\ edits = 0 /\ faults = 0

-----------------------------------------------------------------------------
(* What a pass computes *)

InInterval(s, t) == s.start <= t /\ t < s.end

Results(s, t) == {EvalCronWindow(t, w) : w \in Range(s.windows)}
ActiveAt(s, t) ==
  IF s.kind = "MaintenanceWindow" THEN \E r \in Results(s, t) : r.active
  ELSE InInterval(s, t)
Evaluates(s) == s.kind = "MaintenanceWindow" => \A w \in Range(s.windows) : WindowOk(w)

(* The active window that comes last in the list, and the earliest next    *)
(* start: the zero time of a window that never runs comes before any other.*)
ActiveStart(s, t) ==
  LET open == {i \in DOMAIN s.windows : EvalCronWindow(t, s.windows[i]).active}
  IN  IF open = {} THEN NoTime ELSE PrevStart(s.windows[Max(open)].starts, t)
EarliestNext(s, t) == Min({r.next : r \in Results(s, t)})

(* The status a pass has written into its copy when it comes to the API.   *)
Computed(v, t) ==
  LET s == v.spec  a == ActiveAt(s, t)  mw == s.kind = "MaintenanceWindow"
  IN  [active |-> a, observed |-> v.gen,
       conditions |-> [Active |-> FlagOf(a), Ready |-> "True",
                       activeGen |-> v.gen, readyGen |-> v.gen],
       remaining |-> s.kind = "ChangeFreeze" /\ a,
       window |-> IF mw /\ a THEN ActiveStart(s, t) ELSE NoTime,
       next |-> IF mw THEN EarliestNext(s, t) ELSE NoTime]

(* A window that does not evaluate fails the pass: Ready is all it writes. *)
NotReady(v) ==
  [v.status EXCEPT !.conditions.Ready = "False", !.conditions.readyGen = v.gen]

WakeInterval(s, t) ==
  CASE t < s.start    -> s.start - t + Second
    [] InInterval(s, t) -> s.end - t + Second
    [] OTHER          -> EndedRequeue

TimeLeft(w, t) == PrevStart(w.starts, t) + w.duration - t

(* RequeueAfter after the first i windows of the list: each open one in    *)
(* turn may shorten it.                                                    *)
Shortened(s, t) ==
  LET after[i \in 0..Len(s.windows)] ==
        IF i = 0 THEN DefaultRequeue
        ELSE LET w == s.windows[i]
             IN  IF EvalCronWindow(t, w).active /\ TimeLeft(w, t) < after[i - 1]
                 THEN TimeLeft(w, t) + Second ELSE after[i - 1]
  IN  after

(* The next start shortens it only if no window is open.                   *)
WakeWindows(s, t) ==
  LET after == Shortened(s, t)[Len(s.windows)]
      soon == EarliestNext(s, t) - t
  IN  IF ~ActiveAt(s, t) /\ soon > 0 /\ soon < after THEN soon + Second ELSE after

WakeMutant(s, t) ==  \* an open window does not shorten the wait
  IF s.kind # "MaintenanceWindow" THEN WakeInterval(s, t)
  ELSE IF ActiveAt(s, t) THEN DefaultRequeue ELSE WakeWindows(s, t)

Wake(s, t) ==
  IF s.kind = "MaintenanceWindow" THEN WakeWindows(s, t) ELSE WakeInterval(s, t)

-----------------------------------------------------------------------------
(* The API server, its users and the watch *)

Outdated(p) == IF p.pc = "write" THEN [p EXCEPT !.current = FALSE] ELSE p

(* A new version is stored and its watch event is on the way: the copy of  *)
(* a running pass p is out of date.                                        *)
Store(v, p) == Len(log) <= MaxLag /\ log' = Append(log, v) /\ pass' = Outdated(p)

Tick ==
  /\ now < MaxTime
  /\ now' = now + 1
  /\ UNCHANGED <<kind, log, queued, timer, pass, gauge, told, delay, edits, faults>>

Edit(v) ==
  /\ edits < MaxEdits
  /\ edits' = edits + 1
  /\ Store(v, pass)
  /\ UNCHANGED <<kind, now, queued, timer, gauge, told, delay, faults>>

(* The validating webhooks.                                                *)
Valid(s) ==
  IF s.kind = "MaintenanceWindow"
  THEN s.windows # <<>> /\ \A w \in Range(s.windows) : WindowOk(w)
  ELSE s.start < s.end

Create(s) == Stored = Absent /\ s.kind = kind /\ Valid(s) /\ Edit(New(s))
EditSpec(s) ==
  /\ Stored # Absent /\ s # Stored.spec /\ s.kind = kind /\ Valid(s)
  /\ Edit([Stored EXCEPT !.gen = @ + 1, !.spec = s])
Delete == Stored # Absent /\ Edit(Absent)

SyncMutant ==  \* an event is counted that was never sent
  /\ log' = Tail(log)
  /\ queued' = TRUE
  /\ UNCHANGED <<kind, now, timer, pass, gauge, told, delay, edits, faults>>

(* The cache takes in the next event, a deletion too, and enqueues.        *)
Sync ==
  /\ Len(log) > 1
  /\ log' = Tail(log)
  /\ queued' = TRUE
  /\ UNCHANGED <<kind, now, timer, pass, gauge, told, delay, edits, faults>>

(* RequeueAfter is over.  Time goes on after MaxTime, but nothing changes. *)
Fire ==
  /\ timer # NoTimer /\ (timer <= now \/ now = MaxTime)
  /\ timer' = NoTimer /\ queued' = TRUE
  /\ UNCHANGED <<kind, now, log, pass, gauge, told, delay, edits, faults>>

-----------------------------------------------------------------------------
(* The reconcilers *)

ToldMutant(v, active) ==  \* wasActive is read after status.active is set
  told

Told(v, active) == IF v.status.active # active THEN FlagOf(active) ELSE told

(* Reconcile up to the write: the cached copy, the clock, the result, the  *)
(* event.  A policy that is not there is done with.                        *)
Begin ==
  /\ pass = Idle /\ queued
  /\ queued' = FALSE
  /\ LET v == Cached
     IN  IF v = Absent THEN UNCHANGED <<pass, told>>
         ELSE LET ok == Evaluates(v.spec)
              IN  /\ pass' = [pc |-> "write", copy |-> v, current |-> Len(log) = 1,
                              t |-> now, ok |-> ok,
                              status |-> IF ok THEN Computed(v, now) ELSE NotReady(v)]
                  /\ told' = IF ok THEN Told(v, ActiveAt(v.spec, now)) ELSE told
  /\ UNCHANGED <<kind, now, log, timer, gauge, delay, edits, faults>>

(* A merge patch carries the fields that the pass changed in its copy, and *)
(* nothing ties it to the version the copy was of.                         *)
Merged(s) ==
  [f \in DOMAIN s |->
     IF pass.status[f] # pass.copy.status[f] THEN pass.status[f] ELSE s[f]]

UntimedMutant(s, stamp) == stamp \/ Merged(s) # s  \* timeRemaining is left out

RewritesMutant(s, stamp) == TRUE  \* each pass stamps the status

(* An update that changes nothing makes no version.  timeRemaining, to the *)
(* nanosecond, always changes; gitopsLastReconcileTime, to the second,     *)
(* unless it was written within this second.                               *)
Rewrites(s, stamp) == pass.status.remaining \/ stamp \/ Merged(s) # s

ConflictMutant == FALSE  \* the status of an exception is patched, too

(* Only the status of a FreezeException is written with Update.            *)
Conflict == kind = "FreezeException" /\ ~pass.current

RetryMutant == UNCHANGED queued  \* the error is logged and dropped

(* Reconcile returns an error: the queue adds the policy again after a     *)
(* back-off, and a RequeueAfter beside the error is ignored.               *)
Retry == queued' = TRUE

(* The queue keeps one time per policy, the earlier.  (The priority queue  *)
(* forgets it when an event adds the policy at once; the pass that follows *)
(* arms it anew.)                                                          *)
Earlier(a, b) == IF a = NoTimer THEN b ELSE Min({a, b})

(* The status is accepted; then the metric is set and the timer armed.     *)
WriteStatus ==
  /\ pass.pc = "write"
  /\ Stored # Absent /\ ~Conflict
  /\ \E stamp \in {FALSE, pass.ok /\ pass.copy.spec.gitops} :
       IF Rewrites(Stored.status, stamp)
       THEN Store([Stored EXCEPT !.status = Merged(@)], Idle)
       ELSE pass' = Idle /\ UNCHANGED log
  /\ IF pass.ok
     THEN /\ gauge' = FlagOf(pass.status.active)
          /\ timer' = Earlier(timer, now + Wake(pass.copy.spec, pass.t))
          /\ delay' = now - pass.t
          /\ UNCHANGED queued
     ELSE Retry /\ UNCHANGED <<gauge, timer, delay>>
  /\ UNCHANGED <<kind, now, told, edits, faults>>

Refused ==
  /\ pass' = Idle
  /\ Retry
  /\ UNCHANGED <<kind, now, log, timer, gauge, told, delay, edits>>

(* The policy is gone, or the exception has changed since it was read.     *)
WriteRefused ==
  /\ pass.pc = "write"
  /\ Stored = Absent \/ Conflict
  /\ Refused
  /\ UNCHANGED faults

-----------------------------------------------------------------------------
(* Faults *)

Fault == faults < MaxFaults /\ faults' = faults + 1

WriteFails == Fault /\ pass.pc = "write" /\ Refused

(* The process ends and a new one starts: its cache lists afresh and       *)
(* enqueues what it finds.                                                 *)
Restart ==
  /\ Fault
  /\ log' = <<Stored>>
  /\ queued' = (Stored # Absent)
  /\ timer' = NoTimer /\ pass' = Idle
  /\ gauge' = "unset" /\ delay' = 0
  /\ UNCHANGED <<kind, now, told, edits>>

-----------------------------------------------------------------------------
User == Delete \/ \E s \in Specs : Create(s) \/ EditSpec(s)
Reconcile == Begin \/ WriteStatus \/ WriteRefused

Next == Tick \/ User \/ Sync \/ Fire \/ Reconcile \/ WriteFails \/ Restart

Spec == Init /\ [][Next]_vars

(* The watch delivers, timers fire, the worker works.  Users, faults and   *)
(* the clock owe nothing.                                                  *)
Fairness == WF_vars(Sync) /\ WF_vars(Fire) /\ WF_vars(Reconcile)
FairSpec == Spec /\ Fairness

-----------------------------------------------------------------------------
(* Properties *)

(* Is the policy in force (a maintenance policy: is a window open), by its *)
(* spec alone?                                                             *)
Holds(s, t) ==
  IF s.kind = "MaintenanceWindow" THEN \E w \in Range(s.windows) : WindowOpen(t, w)
  ELSE InInterval(s, t)

Settled == pass = Idle /\ ~queued /\ Len(log) = 1 /\ Stored # Absent

(* A policy that is left alone has, in every field and in the gauge, what  *)
(* one evaluation of its present spec gave: the mixes that patches from    *)
(* outdated copies leave, writes that fail, passes that die and statuses   *)
(* inherited from a deleted policy of the name are never at rest.          *)
RestsOnOneEvaluation ==
  Settled =>
    /\ Evaluates(Stored.spec) /\ gauge = FlagOf(Stored.status.active)
    /\ \E t \in 1..now : Stored.status = Computed(Stored, t)

(* Every window of the policy starts some time.                            *)
Recurs(s) == s.kind = "MaintenanceWindow" => \A w \in Range(s.windows) : w.starts # {}

(* RequeueAfter: once a policy is left alone a timer is running, and when  *)
(* the clock makes its status wrong it fires within a second and the time  *)
(* the last pass took, for any mix of open, coming and ended windows.  (A  *)
(* window that never runs hides the next start of the others.)             *)
NoOversleep ==
  Settled /\ Recurs(Stored.spec) =>
    /\ timer # NoTimer
    /\ \A t \in now..MaxTime :
         t + Second + delay < timer =>
           (Stored.status.active <=> Holds(Stored.spec, t))

(* The status of an exception that has observed its present generation was *)
(* computed from that generation's interval, whatever edits, deletions and *)
(* re-creations fell between a pass's read and its update.                 *)
StatusIsOfItsGeneration ==
  kind = "FreezeException" /\ Stored # Absent =>
    /\ Stored.status.observed <= Stored.gen
    /\ Stored.status.observed = Stored.gen =>
         \E t \in 1..now : Stored.status.active <=> InInterval(Stored.spec, t)

(* The active flag of a stored policy never changes without an event that  *)
(* says so before it, although passes fail, are retried with other copies  *)
(* or die with the process.                                                *)
ChangesAreAnnounced ==
  [][Stored # Absent /\ Stored' # Absent /\ Stored'.status.active # Stored.status.active
       => told' = FlagOf(Stored'.status.active)]_vars

Right ==
  Stored # Absent =>
    LET s == Stored.spec  status == Stored.status
        flag == FlagOf(Holds(s, now))
        conditions == status.conditions
    IN  IF Evaluates(s)
        THEN /\ status.active = Holds(s, now) /\ gauge = flag
             /\ conditions.Active = flag /\ conditions.Ready = "True"
             /\ {status.observed, conditions.activeGen, conditions.readyGen} = {Stored.gen}
        ELSE conditions.Ready = "False" /\ conditions.readyGen = Stored.gen

(* When edits and faults are over and the clock no longer changes anything,*)
(* the status, its conditions and the metric of the process become right   *)
(* and stay so: late events, lost patches, patches computed from an old    *)
(* copy, onto a newer spec or a re-created policy, are all made good.      *)
(* Right for a maintenance policy is what docs/api-reference.md:45 says:   *)
(* active while a window is open, so while it denies nothing.  The field's *)
(* comment, maintenancewindow_types.go:70, has it the other way round.     *)
Settles == <>[](now = MaxTime => Right)

(* The reconciler's own writes wake it up again; it does not go on for     *)
(* ever, unless a freeze is active or GitOps objects are to be paused.     *)
StopsWriting ==
  <>[](\/ Len(log) = 1
       \/ Stored # Absent /\ (Stored.status.remaining \/ Stored.spec.gitops))

(* An active freeze never rests: each patch changes timeRemaining, and its *)
(* watch event starts the next pass, the CronJob and GitOps work included, *)
(* where docs/architecture.md:306-307 has the passes wait for the next     *)
(* state change.                                                           *)
BusyWhileActive ==
  (<>[](Stored # Absent /\ Stored.status.remaining)) => []<>(Len(log) > 1)
=============================================================================
