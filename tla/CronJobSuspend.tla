--------------------------- MODULE CronJobSuspend ---------------------------
(***************************************************************************)
(* internal/controller/cronjob_helper.go and its two callers: the          *)
(* ChangeFreeze and MaintenanceWindow controllers suspend and resume       *)
(* CronJobs, marking those they touch with two annotations.                *)
(*                                                                         *)
(* Each controller has one worker.  It reads the CronJobs (of a namespace) *)
(* from an informer cache and writes them back one by one; the API server  *)
(* refuses an update of a copy that is not the latest version.  Instead of *)
(* version numbers a copy carries `current', which every later write of    *)
(* the CronJob clears.                                                     *)
(***************************************************************************)
EXTENDS Integers, FiniteSets, Functions

CONSTANTS
  CronJobs,
  Policies,  \* see PolicyAssumption
  MaxTime, MaxEdits, MaxFaults

Controllers == {"ChangeFreeze", "MaintenanceWindow"}
Time == 1..MaxTime

(* A policy with behavior.suspendCronJobs: when it wants CronJobs to be    *)
(* suspended (a freeze between start and end, a maintenance policy outside *)
(* its windows) and which ones its target selects.  A kind and a name      *)
(* identify a policy; the name is all the annotation records.  A policy    *)
(* that denies ROLL_OUT blocks the CronJobs it selects while it is in      *)
(* force: the webhook refuses their updates, the operator's own included,  *)
(* since it is told the operator's namespace nowhere (validator.go:59-65). *)
ASSUME PolicyAssumption ==
  /\ \A p \in Policies :
       /\ p.kind \in Controllers
       /\ p.freeze \subseteq Time
       /\ p.targets \subseteq CronJobs /\ p.blocks \subseteq CronJobs
  /\ \A p, q \in Policies : p.kind = q.kind /\ p.name = q.name => p = q
ASSUME BoundAssumption == MaxTime \in Nat \ {0} /\ MaxEdits \in Nat /\ MaxFaults \in Nat

Names == {p.name : p \in Policies}
NoOwner == "none"
ASSUME NoOwnerAssumption == NoOwner \notin Names

(* spec.suspend (the API server turns nil into false) and the annotations  *)
(* managed-by and original-suspend.                                        *)
CronJob == [suspend : BOOLEAN, owner : Names \cup {NoOwner}, original : BOOLEAN]
Copy == [job : CronJob, current : BOOLEAN]

VARIABLES
  now, alive,
  cron,    \* the CronJobs the API server stores
  cached,  \* the copies in the informer cache
  work,    \* per controller, the pass its worker is in
  intent,  \* per CronJob, what its user last chose (history)
  edits, faults

vars == <<now, alive, cron, cached, work, intent, edits, faults>>

Idle == [busy |-> FALSE]

(* The copies the loop has yet to update, one for each CronJob in the      *)
(* domain of todo; none before the CronJobs are listed.                    *)
Pass == [busy : {TRUE}, policy : Policies, suspend : BOOLEAN, listed : BOOLEAN,
         todo : UNION {[S -> Copy] : S \in SUBSET CronJobs}]

TypeOK ==
  /\ now \in Time
  /\ alive \subseteq Policies
  /\ cron \in [CronJobs -> CronJob]
  /\ cached \in [CronJobs -> Copy]
  /\ work \in [Controllers -> Pass \cup {Idle}]
  /\ intent \in [CronJobs -> BOOLEAN]
  /\ edits \in 0..MaxEdits /\ faults \in 0..MaxFaults

Unmarked(s) == [suspend |-> s, owner |-> NoOwner, original |-> FALSE]

Init ==
  /\ now = 1
  /\ alive = Policies
  /\ intent \in [CronJobs -> BOOLEAN]
  /\ cron = [c \in CronJobs |-> Unmarked(intent[c])]
  /\ cached = [c \in CronJobs |-> [job |-> cron[c], current |-> TRUE]]
  /\ work = [k \in Controllers |-> Idle]
  /\ edits = 0 /\ faults = 0

-----------------------------------------------------------------------------
(* The API server and the cache *)

Outdated(w, c) == IF w.busy /\ c \in DOMAIN w.todo
                  THEN [w EXCEPT !.todo[c].current = FALSE] ELSE w

(* Store a new version of c: every copy of it is out of date from now on.  *)
Store(c, job, workers) ==
  /\ cron' = [cron EXCEPT ![c] = job]
  /\ cached' = [cached EXCEPT ![c].current = FALSE]
  /\ work' = [k \in Controllers |-> Outdated(workers[k], c)]

Sync(c) ==
  /\ ~cached[c].current
  /\ cached' = [cached EXCEPT ![c] = [job |-> cron[c], current |-> TRUE]]
  /\ UNCHANGED <<now, alive, cron, work, intent, edits, faults>>

-----------------------------------------------------------------------------
(* The environment *)

Tick ==
  /\ now < MaxTime
  /\ now' = now + 1
  /\ UNCHANGED <<alive, cron, cached, work, intent, edits, faults>>

Edit == edits < MaxEdits /\ edits' = edits + 1

(* A user, one whom an exception admits if the CronJob is blocked,         *)
(* suspends or resumes it.                                                 *)
UserSuspends(c) ==
  /\ Edit
  /\ Store(c, [cron[c] EXCEPT !.suspend = ~@], work)
  /\ intent' = [intent EXCEPT ![c] = ~cron[c].suspend]
  /\ UNCHANGED <<now, alive, faults>>

(* docs/troubleshooting.md, "CronJob stays suspended": the user restores   *)
(* the CronJob by hand and removes both annotations.                       *)
UserReleases(c) ==
  /\ Edit
  /\ cron[c].owner # NoOwner
  /\ Store(c, Unmarked(FALSE), work)
  /\ intent' = [intent EXCEPT ![c] = FALSE]
  /\ UNCHANGED <<now, alive, faults>>

(* The deletion of a policy reaches the cache.  There is no finalizer, and *)
(* the reconciler returns at once when the object is not found.            *)
DeletePolicy(p) ==
  /\ Edit
  /\ p \in alive
  /\ alive' = alive \ {p}
  /\ UNCHANGED <<now, cron, cached, work, intent, faults>>

-----------------------------------------------------------------------------
(* The controllers *)

Wants(p) == now \in p.freeze

(* Reconcile: the policy is read from the cache, and the clock.            *)
Begin(k, p) ==
  /\ ~work[k].busy
  /\ p \in alive /\ p.kind = k
  /\ work' = [work EXCEPT ![k] =
       [busy |-> TRUE, policy |-> p, suspend |-> Wants(p), listed |-> FALSE, todo |-> <<>>]]
  /\ UNCHANGED <<now, alive, cron, cached, intent, edits, faults>>

OwnedByOther(p, job) == job.owner \notin {NoOwner, p.name}
Differs(p, s, job) == ~OwnedByOther(p, job) /\ job.suspend # s

(* The CronJobs are listed, later, as the cache then holds them.  The loop *)
(* passes by those that another policy has marked or that are as they      *)
(* should be; the others it updates.                                       *)
List(k) ==
  LET w == work[k]
      changes == {c \in w.policy.targets : Differs(w.policy, w.suspend, cached[c].job)}
  IN  /\ w.busy /\ ~w.listed
      /\ work' = [work EXCEPT ![k] =
           [w EXCEPT !.listed = TRUE, !.todo = Restrict(cached, changes)]]
      /\ UNCHANGED <<now, alive, cron, cached, intent, edits, faults>>

Updates(k, c) == work[k].busy /\ c \in DOMAIN work[k].todo
Updated(k, c) == [work EXCEPT ![k].todo = Restrict(@, DOMAIN @ \ {c})]

(* The object the loop body hands to Update.                               *)
MarkedMutant(p, job, s) ==  \* the original is recorded at every write
  [suspend |-> s, owner |-> p.name, original |-> job.suspend]

MarkedByKindMutant(p, job, s) ==  \* the kind is recorded instead of the name
  [suspend |-> s, owner |-> p.kind, original |-> job.suspend]

UnmarkedMutant(p, job, s) == [job EXCEPT !.suspend = s]  \* no annotation

Marked(p, job, s) ==
  IF job.owner = NoOwner
  THEN [suspend |-> s, owner |-> p.name, original |-> job.suspend]
  ELSE [job EXCEPT !.suspend = s]

Refused(c) == \E p \in alive : Wants(p) /\ c \in p.blocks

BlindUpdateMutant(k, c) ==  \* no resourceVersion: an old copy overwrites the new one
  LET w == work[k]
  IN  /\ Updates(k, c) /\ ~Refused(c)
      /\ Store(c, Marked(w.policy, w.todo[c].job, w.suspend), Updated(k, c))
      /\ UNCHANGED <<now, alive, intent, edits, faults>>

Update(k, c) ==
  LET w == work[k]
  IN  /\ Updates(k, c) /\ ~Refused(c)
      /\ w.todo[c].current
      /\ Store(c, Marked(w.policy, w.todo[c].job, w.suspend), Updated(k, c))
      /\ UNCHANGED <<now, alive, intent, edits, faults>>

AbortMutant(k) ==  \* the update is tried again with the same copy
  UNCHANGED <<work, now, alive, cron, cached, intent, edits>>

(* An update that fails ends the pass: the error is logged and the policy  *)
(* requeued by its timer all the same, but the CronJobs not yet reached    *)
(* wait for the next pass.                                                 *)
Abort(k) ==
  /\ work' = [work EXCEPT ![k] = Idle]
  /\ UNCHANGED <<now, alive, cron, cached, intent, edits>>

Conflict(k, c) ==
  /\ Updates(k, c)
  /\ ~work[k].todo[c].current
  /\ Abort(k)
  /\ UNCHANGED faults

(* The workload webhook answers the controller as it would any caller.     *)
Denied(k, c) ==
  /\ Updates(k, c)
  /\ Refused(c)
  /\ Abort(k)
  /\ UNCHANGED faults

UpdateFails(k, c) ==
  /\ faults < MaxFaults /\ faults' = faults + 1
  /\ Updates(k, c)
  /\ Abort(k)

(* Every CronJob is updated.                                               *)
Finish(k) ==
  /\ work[k].busy /\ work[k].listed /\ DOMAIN work[k].todo = {}
  /\ work' = [work EXCEPT ![k] = Idle]
  /\ UNCHANGED <<now, alive, cron, cached, intent, edits, faults>>

(* The manager restarts: the workers forget their pass, the cache lists.   *)
Restart ==
  /\ faults < MaxFaults /\ faults' = faults + 1
  /\ work' = [k \in Controllers |-> Idle]
  /\ cached' = [c \in CronJobs |-> [job |-> cron[c], current |-> TRUE]]
  /\ UNCHANGED <<now, alive, cron, intent, edits>>

Loop(k, c) == Update(k, c) \/ Conflict(k, c) \/ Denied(k, c)

Next ==
  \/ Tick \/ Restart
  \/ \E p \in Policies : DeletePolicy(p)
  \/ \E c \in CronJobs : UserSuspends(c) \/ UserReleases(c) \/ Sync(c)
  \/ \E k \in Controllers : \E p \in Policies : Begin(k, p)
  \/ \E k \in Controllers : List(k) \/ Finish(k)
  \/ \E k \in Controllers, c \in CronJobs : Loop(k, c) \/ UpdateFails(k, c)

Spec == Init /\ [][Next]_vars

(* Every live policy is reconciled again and again: each status patch of   *)
(* an active freeze calls for another pass, the others have their requeue  *)
(* timers, and the informers resync.  A worker serves its queue in turn,   *)
(* so no policy waits for ever; a pass goes on; the cache follows.         *)
Fairness ==
  /\ \A p \in Policies : SF_vars(Begin(p.kind, p))
  /\ \A k \in Controllers :
       WF_vars(List(k)) /\ WF_vars(Finish(k)) /\ WF_vars(\E c \in CronJobs : Loop(k, c))
  /\ \A c \in CronJobs : WF_vars(Sync(c))

FairSpec == Spec /\ Fairness

-----------------------------------------------------------------------------
(* The controllers only change what they mark: a CronJob that is not as    *)
(* its user last left it carries the annotations of a policy.              *)
InterferenceIsMarked ==
  \A c \in CronJobs : cron[c].suspend # intent[c] => cron[c].owner # NoOwner

(* Whatever the two controllers, their stale copies and the users do in    *)
(* between, a marked CronJob keeps its owner and the original it recorded  *)
(* until a user removes the annotations.                                   *)
OwnershipStep ==
  \A c \in CronJobs :
    cron[c].owner # NoOwner /\ cron'[c].owner # NoOwner =>
      cron'[c].owner = cron[c].owner /\ cron'[c].original = cron[c].original
OwnershipIsStable == [][OwnershipStep]_vars

(* A controller writes over nothing it has not seen: it takes a CronJob    *)
(* with the suspend value the user last chose as its original, never with  *)
(* a value from a copy that a user has meanwhile edited.                   *)
TakeoverStep ==
  \A c \in CronJobs :
    cron[c].owner = NoOwner /\ cron'[c].owner # NoOwner =>
      cron'[c].original = intent[c] /\ cron'[c].suspend # intent[c]
OriginalIsTruthful == [][TakeoverStep]_vars

(* The policies no other one shares a name and a CronJob with: two that do *)
(* take what the other has marked for their own.                           *)
Undisputed ==
  {p \in Policies : \A q \in Policies \ {p} :
     q.name = p.name => p.targets \cap q.targets = {}}

(* A CronJob whose owner is in force, and stays so, ends up suspended; one *)
(* whose owner is not, ends up running: conflicts, a bounded number of     *)
(* failed updates, stale copies and restarts only delay it.  A disputed    *)
(* CronJob may never settle; one that the webhook refuses to update ends   *)
(* the pass, and keeps those behind it waiting too.                        *)
Settles(p, c, want) ==
  (<>[](/\ p \in alive /\ Wants(p) = want /\ cron[c].owner = p.name
        /\ \A d \in p.targets : ~Refused(d)))
    => <>[](cron[c].suspend = want)
SuspendFollowsOwner ==
  \A p \in Undisputed : \A c \in p.targets : Settles(p, c, TRUE) /\ Settles(p, c, FALSE)

-----------------------------------------------------------------------------
(* docs/architecture.md:162: "On deactivation: Restore original state".    *)
(* When a controller resumes a CronJob, it was running when the controller *)
(* first touched it.                                                       *)
ResumeStep ==
  \A c \in CronJobs :
    cron[c].suspend /\ ~cron'[c].suspend /\ edits' = edits => ~cron'[c].original
RestoresOriginal == [][ResumeStep]_vars

(* docs/troubleshooting.md:322: "Delete the managing policy / CronJob will *)
(* be restored".  A CronJob that ran before a policy took it, and whose    *)
(* policy is gone for good, runs again in the end.                         *)
Orphan(c) ==
  /\ cron[c].owner # NoOwner /\ ~cron[c].original
  /\ \A p \in alive : p.name # cron[c].owner
DeletionReleases ==
  \A c \in CronJobs : (<>[]Orphan(c)) => <>[](~cron[c].suspend)
=============================================================================
