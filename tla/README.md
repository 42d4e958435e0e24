# A TLA+ verification of kube-freeze-operator

kube-freeze-operator denies changes to Kubernetes workloads while a ChangeFreeze is in
force or while no window of a MaintenanceWindow is open, unless a FreezeException lets the
change through. As side effects it suspends CronJobs and pauses GitOps objects during a
freeze, keeps a status on every policy, and answers CI pipelines that ask before they act.
This directory models the parts of it that decide, advise and write, checks them with TLC on
small instances, and proves the most important invariants with TLAPS.
All paths below are relative to the repository.

## Inventory

| Component | State | Operations | Talks to |
|---|---|---|---|
| Policy evaluator (`internal/policy/evaluator.go`, `types.go`, `selectors.go`) | none | `Evaluate`: read namespace labels, collect deny candidates from ChangeFreezes, then from MaintenanceWindows, choose one, look for an exception | reads through a `client.Reader`: the informer cache (webhook) or the API server (CI API) |
| Cron windows (`internal/policy/windows.go`) | none | `EvalCronWindow`: bounded search for the latest start, next start | robfig/cron |
| Diff classifier (`internal/diff`) | none | `ClassifyUpdate`: ROLL_OUT or SCALE | webhook |
| Workload webhook (`internal/webhook/workloads`) | none of its own; each request reads caches in several steps | `Handle`: bypass, resolve the object, read namespace, evaluate, answer | API server (caller), informer caches, API reader (scale targets only) |
| CRD validators (`internal/webhook/v1alpha1`) | none | validate create and update of the three policy kinds | API server |
| ChangeFreeze and MaintenanceWindow controllers (`internal/controller`) | status of the policy, a gauge; a work queue with one worker each | `Reconcile`: activation, events, CronJobs, GitOps, status (merge patch), requeue | informer caches, API server |
| CronJob helper (`internal/controller/cronjob_helper.go`) | `spec.suspend` and two annotations of each CronJob | `updateCronJobsForPolicy`, one copy per controller | as above |
| GitOps pause (`internal/gitops`) | the sync setting and three annotations of each Application, Kustomization and HelmRelease | `Reconcile`: pause or restore | API server (unstructured lists are not cached) |
| FreezeException controller | status, a gauge | `Reconcile`: activation, events, status (update), requeue | as above |
| CI helper API (`internal/api`), `kfo` | none | `POST/GET /v1/evaluate`, token review; `kfo can-i` through it or with a client of its own | evaluator over the API reader |
| Manager (`cmd/main.go`) | none | wiring | everything |
| Metrics, CRD types, manifests | counters; data | | |

What is hard in it:

* **Stale and torn reads.** A request is decided from four caches (namespaces and the three
  policy kinds) that lag independently, and a clock read before three of them are.
* **Time.** Half-open intervals, a search that starts 14 days back and stops after 10000
  starts, and a "next allowed" time computed per policy and announced for all of them.
* **Shared objects.** Two controllers and the users write the same CronJobs and GitOps
  objects, through copies that may be out of date, with nothing but resource versions and
  annotations between them; there are no finalizers.
* **Self-made events.** A reconciler's status write comes back as a watch event and starts
  the next pass; its timer must be armed for exactly the next change of state.
* **Failures.** A failing read must not open the gate, a failing update must not keep other
  objects waiting for ever, a terminating namespace must not be kept alive by a freeze.

The properties each part owes: the evaluator's answer does not depend on list order, is
justified by a policy, and names a time that means something; the webhook lets nothing
through that a steady policy denies, and denies nothing that a steady exception admits; the
controllers change only what they mark, keep what they recorded, and end up with every
object as the policies want it; a status belongs to its spec, comes right in the end and is
then left alone; the answer a pipeline gets is one that the webhook will stand by.

## Modules

| Module | Models | |
|---|---|---|
| `CronWindow` | `windows.go` | pure operators |
| `Policy` | `evaluator.go`, `types.go`, `selectors.go`, spec types | pure operators |
| `Evaluation` | the evaluator asked again and again with fixed policies | state machine over `Policy` |
| `Requests` | what reaches the webhook: requests, namespace, workload | data |
| `FreezeGate` | what the webhook promises | abstract specification |
| `Admission` | `validator.go`, `classify.go`, the CRD validators, the webhook rules | state machine over `Policy` and `Requests`; implements `FreezeGate` |
| `CIApi` | `internal/api`, `cmd/kfo`, beside the webhook | state machine composed with `Admission` |
| `ReconcileLoop` | the three reconcilers: status, events, gauge, requeue | state machine over `CronWindow` |
| `CronJobSuspend` | `cronjob_helper.go` and its callers | state machine |
| `GitOpsPause` | `internal/gitops` and its callers | state machine |
| `CronWindow_proofs`, `Policy_proofs` | the operators of the two above | theorem and lemmas that the others cite |
| `Evaluation_proofs`, `Admission_proofs`, `CIApi_proofs`, `ReconcileLoop_proofs`, `CronJobSuspend_proofs`, `GitOpsPause_proofs` | the six state machines | theorems |
| `MCEvaluation`, `MCAdmission`, `MCCIApi`, `MCReconcileLoop`, `MCCronJobSuspend`, `MCGitOpsPause` | the six state machines | instances for TLC |

### CronWindow and Policy

A cron schedule is the set of its start instants, `Next(t)` their minimum after `t`; a
schedule either never runs (30 February parses, and `Next` then returns the zero time,
`NoTime`) or never ends, which the pools of an instance must respect (`Endless`).
`Visited` is the loop of `windows.go:43`, cap included. A label set is a set of
`key=value` pairs; a selector requires some, excludes some, or is malformed. (A required
label of an exception is taken to have a value: the code also accepts a missing label for a
required empty value.) A policy's name is its rank in the string order, because the sort
compares names. Lists from a cache have no order, so candidates form a set and the first
matching exception is any matching exception.

### Evaluation

Initial states range over all sets of policies from a pool with unique names and over
several requests; the only action advances the clock. The properties relate the answer now
to the answers later.

### Admission

`hist[k]` is the sequence of versions the API server has stored of the ChangeFreezes, the
MaintenanceWindows, the FreezeExceptions and the namespace; `seen[k]` is how far the
manager's informer of that kind has got. `call[r]` holds the local variables of the handler
serving slot `r`, with a program counter at each read: `resolve` (object and action),
`namespace`, `clock`, `freezes`, `windows`, `exceptions`, `answered`. Between any two of
them the environment may move: `Tick`, the policy writes (guarded by the CRD validators),
the namespace's life, `Sync` of one informer. `Complete` is the API server storing an
allowed change. Faults are an unreadable exception list (which the evaluator ignores), any
other failure (which refuses the change, `failurePolicy: Fail`) and a restart. The operator's
own requests are bypassed only if the manager is told its namespace, which no shipped manifest
does: `MCAdmission` runs the handler as deployed (`OperatorGroup` is in no request),
`MCAdmissionFaults` as configured. The slot
`NsController` is the namespace controller, which empties a terminating namespace; its
requests pass through the same handler. `arrived` is a history variable: what was stored
and cached, and the time, when the request came in.

### FreezeGate and the refinement

`FreezeGate` has no steps of a handler: a request arrives, is decided at once (`Decided`: by
the policy evaluator; `Pass`: the webhook has nothing to say; `Refuse`: a failure), and what
was let through is stored. It is decided on one version of each kind that the manager knew at
some moment between arrival and decision, and at one instant of the clock in between. The
moments of the kinds may differ: the caches are read one after the other, and nothing makes
one snapshot of them. So a policy replaced by one of the other kind while the request runs can
be seen in neither form (`Moments`), but a policy that stays cannot be missed, and no policy
is seen that was gone before the request came. `Admission` implements it (`ImplementsGate`)
under the mapping at its end: `known` is `seen`, a request is open until its call is
`answered`, and every read of the handler stutters. The exceptions are the one list whose
failure the handler survives; the gate then decides with none.

### CIApi

`ask[r]` is the question of the pipeline of user `r`: `review` (token), `parse` (the clock is
read here), `namespace`, `freezes`, `windows`, `exceptions`, `told` with the exit code of
`kfo`, and `sent` once the change is on its way through the webhook of `Admission`: after a yes
(`Proceed`), after an error, since the shipped GitLab template takes any error of the API for a
yes unless `FREEZE_FAIL_ON_ERROR` is `"true"` (`ProceedOnError`), or in spite of a no
(`Insist`). The reads
go to the API server, not to the caches, so a question and the change it was about are decided
on different copies at different instants; the state of `Admission` moves on between any two
of them. Faults are those of `Admission` (the same budget) and a failing read or a time-out of
the question, an unreadable exception list, and a restart, which a direct `kfo` survives.
Through the API any token may be refused; `kfo` sends none, so a server in token mode answers
it with exit code 2 always, one of the choices of `Review`.

### ReconcileLoop

One policy of one kind, for a kind's policies share a worker and nothing else. `log` is the
policy's versions from the one the informer holds to the one that is stored; `Sync` delivers
the next and enqueues the policy. A pass reads the copy and the clock and sends its event
(`Begin`), then writes (`WriteStatus`, `WriteRefused`, `WriteFails`), arms the timer and sets
the gauge; users edit, delete and create anew in between, and the clock moves. ChangeFreeze and
MaintenanceWindow patch: the fields that differ from the pass's copy are merged into whatever
is stored (`Merged`), even a policy created anew under the name. FreezeException updates, and
an outdated copy is a conflict. A window that does not evaluate (possible only for an object
that was there before the validating webhook) fails the pass with `Ready` false. A write that
changes nothing makes no version and no event (`Rewrites`); `timeRemaining` always changes, as
it counts nanoseconds, and `gitopsLastReconcileTime` may.

### CronJobSuspend

A pass of a controller is `Begin` (policy and clock), `List` (the cached copies of the CronJobs
the loop will update; it passes by those that another policy has marked or that are as they
should be), then one of `Update`, `Conflict`, `Denied`, `UpdateFails` per CronJob, then
`Finish`; a failed update ends the pass. `Denied` is the operator's own webhook: it refuses the
update while a policy that denies ROLL_OUT of CronJobs (`blocks`) is in force, for nothing
tells it the operator's namespace. The two copies of `updateCronJobsForPolicy` are the same
code and share the actions, one worker per controller. A copy knows whether it is `current`;
`Store` makes every other copy outdated, which is what the resource version does. `intent`
(what the user last chose) is a history variable. All CronJobs are in one namespace: the code
lists each namespace separately. The API server stores `suspend: false` for a missing value, so
the nil case of the code does not arise.

### GitOpsPause

As above, with a list per kind at its own instant (Applications, Kustomizations,
HelmReleases), live instead of cached; a failing update goes on with the next object, and a
failing list ends its provider. Argo CD and Flux differ in the restore: an Application
whose recorded original is `null` is left as it is, a Flux object always gets its original
back. Policies of different kinds may have one name, and with it the same marks. `past` is a
history variable: the setting an object had before its marks, and what its user has chosen
since.

## Runs

| Run | Checks | Bounds |
|---|---|---|
| `MCEvaluation` | six properties of the answers | 5 freezes, 5 maintenance policies, 3 exceptions, 2 names each, 5 requests, 12 instants; horizon 6, cap 2 |
| `MCAdmission` | type, `FreezeEnforced`, `DenialJustified`, `ExceptionHonoured`, the refinement `ImplementsGate` | 1 user slot, 3 instants, 2 writes; creating, rolling out, deleting; the manager is not told its namespace |
| `MCAdmissionFaults` | `FreezeEnforced`, `DenialJustified`, `ImplementsGate`, and `NamespaceDrains`, `NewNamespaceServed` under fairness | 1 write, 1 fault; creating, rolling out, scaling in both ways, and what is bypassed, the operator's own requests included |
| `MCAdmissionLive` | violation of `LiveReads` | as `MCAdmission` |
| `MCCIApi` | type, `AdviceJustified`, `AdviceEnforced`, `AdviceHolds` | 1 pipeline, 3 instants, 1 write, 1 fault |
| `MCReconcileLoop` | type, `NoOversleep`, `StatusIsOfItsGeneration`, `RestsOnOneEvaluation`, `ChangesAreAnnounced`, and `Settles`, `StopsWriting`, `BusyWhileActive` under fairness | 7 initial policies of the 3 kinds, 4 instants, 2 edits, 1 fault, a cache up to 2 versions behind |
| `MCCronJobSuspend` | type, `InterferenceIsMarked`, `OwnershipIsStable`, `OriginalIsTruthful`, and `SuspendFollowsOwner` under fairness | 2 CronJobs, a freeze over one of them that refuses the operator's own updates, and two maintenance policies that begin where it ends, one of its name, the other over both; 2 instants, 1 edit, 1 fault |
| `MCCronJobRestore`, `MCCronJobDelete` | violations of `RestoresOriginal`, `DeletionReleases` | 1 CronJob, 1 freeze, 2 instants |
| `MCGitOpsPause` | type, `PausedWhileMarked`, `SettingsComeBack`, and `FollowsPolicies` under fairness | 2 objects, a freeze over both and two maintenance policies over one, one in force with the freeze, one after it and of its name; 2 instants, 1 edit, 1 fault |
| `MCGitOpsSurvive`, `MCGitOpsManual` | violations of `SettingsSurvive`, `ManualChangesSurvive` | 1 object |

Every run stops at its bounds, hence `CHECK_DEADLOCK FALSE`; none of the code waits for
another part of it, and liveness is checked by the temporal properties.

Why the bounds are enough. The evaluator's decisions compare at most two policies at a time,
and the pool holds every relation two intervals or windows can have (before, meeting,
overlapping, nested) with ties in time and in name. A request reads each cache once, so two
writes allow one before and one between any two of its reads; the properties of Admission speak
of one request, and concurrent requests share nothing but what the environment already changes.
A question to the CI API and its change read each kind twice, so one write falls before,
between or after; the properties compare the two. In `ReconcileLoop` two edits are enough to
delete and create a policy under a running pass, and two versions of lag to have the cache
behind both. In the controllers two or three instants let a policy begin and end, one edit or
fault falls between any read and write of a pass, two policies are what an object's marks can
be disputed by, and a third brings the dispute of two with one name.

### Fairness

Admission: the informers deliver (`WF` of `Sync`), a running handler runs, the API server takes
the answer, and the namespace controller retries. The controllers: a pass goes on, and each
policy is reconciled again and again (`SF` of `Begin`, strong because the one worker serves
other policies in between): while a freeze is active every status patch changes `timeRemaining`
and wakes the watch (`changefreeze_controller.go:95`; `BusyWhileActive`), other policies are
requeued by a timer (5 or 10 minutes, or the next state change), and the informers resync.
`ReconcileLoop` shows how that comes about: there the fairness is only that the watch delivers,
a timer that is due fires and the worker works (`WF` of each; while the write of a pass may
fail, it is one of a bounded number of faults). Users, clocks and faults are under no
obligation; where time stops (`MaxTime`) the timers still fire, so that an ended model is not
taken for a settled one.

### What the violations show

Each violating run refutes a sentence of the documentation or a comment; `PROJECT.json`
quotes it. In short:

1. The webhook reads policies from the cache, not live (`LiveReads`).
2. The original state of a CronJob is recorded and never restored (`RestoresOriginal`).
3. Deleting a policy does not release its CronJobs (`DeletionReleases`).
4. A second freeze takes an Application from the first and loses its setting
   (`SettingsSurvive`).
5. A restore writes over what a user has set on a paused object (`ManualChangesSurvive`).

Four more disagreements between code and documents are recorded at runs that pass, because the
property states what the code does:

6. A freeze is over at its end time itself; the documents write the interval closed
   (`NamedPolicyReleasesAtNextAllowed`).
7. An active freeze reconciles without a pause: each status patch changes `timeRemaining` and
   so starts the next pass, the CronJob and GitOps work included (`BusyWhileActive`).
8. `status.active` of a MaintenanceWindow is true while a window is open, that is, while it
   denies nothing; the comment of the field has it the other way round (`Settles`).
9. As shipped, the operator's own writes are not bypassed, and a freeze that denies ROLL_OUT of
   CronJobs refuses the suspensions it calls for (`SuspendFollowsOwner`).

### Behaviours worth knowing

The models have them; the properties are stated so as to hold beside them.

* "Next allowed at" is the first of several policies to end: the others still deny then.
  (`DeniedUntilNextAllowed` says it is not too late, `NamedPolicyReleasesAtNextAllowed` that
  the policy named has let go.)
* The search for a window's start gives up after 10000 starts counted from 14 days ago: a
  schedule of every minute is evaluated as of a week ago. `DeniedExactlyOutsideWindows` and the
  theorem `SearchDecidesOpen` assume `WithinSearch`.
* An update of template and replicas is a ROLL_OUT only, so a policy that denies SCALE lets it
  pass; `ActionsOf` in `FreezeGate` says so.
* The marks hold a name without a kind, so a ChangeFreeze and a MaintenanceWindow of one name
  take each other's objects for their own: if they want different things, they suspend and
  resume a CronJob, or mark and restore a GitOps object, for ever. `SuspendFollowsOwner` speaks
  of policies with which no other of the same name disputes a CronJob (`Undisputed`), and
  `FollowsPolicies` claims that marks go away for policies without a `Namesake`. The instances of
  both runs contain such a pair.
* A CronJob, once marked, belongs to its first policy for good: a later policy skips it.
* A pass ends at the first CronJob whose update fails. One that keeps failing, for instance
  because the webhook refuses it, keeps those behind it in the list waiting; so
  `SuspendFollowsOwner` asks that none of the policy's CronJobs be refused, and bounds the other
  failures.
* Two policies in force over one GitOps object mark it from each other in turn
  (`FollowsPolicies` names an owner only for an object that one policy selects).
* A restore overwrites what a user set during the freeze: `SettingsComeBack` is stated for
  objects their users leave alone while marked, `ManualChangesSurvive` is violated. An
  Application whose recorded original is `null` keeps what its user set.
* A window that never runs has the zero time as its next start, which is earlier than any
  other: a denial by its policy announces that time although the policy's other windows open
  again (`HasDeadWindow` in `NamedPolicyReleasesAtNextAllowed`), and the next start of its
  neighbours neither shows in the status nor shortens the requeue
  (`Recurs` in `NoOversleep`). The default requeue of 5 minutes catches up.
* A status patch can leave a mix of two evaluations, or the status of a deleted policy on its
  successor, until the next pass (`RestsOnOneEvaluation` says that one is due, `Settles` that
  it comes).
* A policy with `behavior.gitops` enabled has `gitopsLastReconcileTime` written, to the second,
  by every pass that comes a second or more after the last: passes that take that long follow
  each other without end.
* The gauge of a deleted policy keeps its last value.
* The CI API knows no object labels, user or groups: for a policy or exception that looks at
  these its answer and the webhook's differ. Nor does it know that the webhook passes every
  change in a terminating namespace, and those of the operator where it is told its namespace: a
  pipeline is told no, and the webhook lets the change through. `Undisturbed` in `AdviceHolds`
  excludes each of these.
* The GitLab template goes on after an error of the API by default. `AdviceEnforced` is about
  `kfo`'s exit code 0 only; behind the template it is the webhook alone that stops a change.

## Proofs

Every safety property that a run checks, the refinement `ImplementsGate` included, is also a
theorem: it holds for every value of the constants that satisfies the named assumptions of
the modules. Each proof has the same shape: an inductive invariant, the lemma that every
action keeps it (one lemma per action or group of actions), and the property as its
consequence. TLC has checked each inductive invariant on the instance of the component's run.
A list of what the theorems say is in `PROJECT.json`.

**Operators** (`CronWindow_proofs`, `Policy_proofs`). `SearchDecidesOpen` is about the
code's bounded search alone: if a window does not outlast the horizon and no horizon holds
more starts than the cap lets pass (`WithinSearch`), the latest start the loop finds decides
whether the window is open; every start that could still hold it open lies within the
horizon, and the loop visits them all because a subset of a small finite set is small.
`FirstExists` shows that the sort has a first element in every set of candidates, by choosing
the least time, then the least name, then the kind; `OneIsFirst` that it is the only one,
because the API server keeps names unique within a kind. `DenialOfCandidate` and
`AllowanceIsExcepted` say what a decision rests on; the evaluator, the webhook and the CI API
all cite them.

**`Evaluation_proofs`**. The invariant is just that the inputs have their types (`InputsOK`);
all six properties follow from it, the two about the next allowed time through what a single
freeze (`FreezeUntilEnd`) or maintenance policy (`WindowsUntilNext`) does between now and the
time it announces. A window that never runs makes the announced time the zero time, which is
before all others (`HasDeadWindow`); without one, it is ahead. They need `TimeAssumption`:
instants have no gaps.

**`Admission_proofs`**. None of `FreezeEnforced`, `DenialJustified`, `ExceptionHonoured` is
inductive: they speak of an answer, and the answer was put together from reads made at
different moments of caches that have moved since. The invariant `IInv` says for every slot
where each value it holds came from (`Progress`, by the place of its code): the labels from
some version of the namespace heard of since the request came in (`NamespaceRead`), the time
from some instant since then (`ClockRead`), the candidates from some version of each list
(`FreezesRead`, `WindowsRead`), the decision from some version of all of them (`Judged`;
without the exceptions only if a read has failed). The steps fall into three kinds. A step of
the environment only lets the histories and the caches grow, so everything that was read from
some version still was (`Still`, `EnvironmentGrows`, `Kept`); a step of one handler leaves
the others alone (`OwnStep`, `UntouchedKeeps`); and a step of a handler reads the version its
cache holds now (`ResolvingSteps`, `ReadingSteps`, `ListingSteps`, `ConcludingStep`).

`Handler_Implements_Gate` uses the same invariant. Under the mapping a handler's reads
stutter, an arrival is `FreezeGate`'s arrival, and the step that prepares the response is the
gate's decision: what `Judged` says of the decision, `Passed` of a bypass, is exactly the
condition of `Decided` and `Pass` (`DecidedStep`, `PassStep`), because the range of versions
that `Heard` allows is the range of the gate's `Moments`. Each action has a lemma saying which
step of the gate it is (`HandleRefines` to `EnvironmentRefines`).

**`CIApi_proofs`**. `CIInv` is `IInv`, which every step of the composition keeps because a
pipeline's steps do not touch the webhook (`AskFrozen`), and the same for each question
(`AskOK`: what was read live, since when), and `Linked`: a question that was `sent` and the
request it became agree, and the request came after it. `AdviceJustified` and `AdviceEnforced`
follow from `AskOK` alone. `AdviceHolds` needs all three: undisturbed, every range of versions
the question or the handler can have read from has shrunk to one
(`UndisturbedVersions`), and the policies in force at any two instants in between are the same
(`UndisturbedPolicies`), so that the two evaluations, with other labels, user and time, had
the same candidates and the same exceptions (`UndisturbedDecisions`). In an active namespace,
for a caller who is not bypassed, the webhook's answer is then the pipeline's: `Advice_Holds`
shows both directions of the answer itself, not of the evaluation behind it.

**`ReconcileLoop_proofs`**. `RLInv` adds to the properties what a pass still knows when it
writes (`PassOK`): its status is the evaluation of its copy at its instant; the event of a
change it found was sent; a copy marked current is what is stored, which is why an exception's
update that is no conflict belongs to its generation; and unless the queue holds the policy
again, its copy is the cached one. The last part gives `Scheduled`, and with it
`RestsOnOneEvaluation`: a pass after which the policy is at rest wrote nothing, so what is
stored is what it computed, and its timer is set.
`NoOversleep` then is a fact about the wait alone (`WakeInTime`): a status found at one instant
stays right until a second before the wait is over. For a list of windows the wait is the
result of a loop over the list. `ShortenedWaits` says what the loop comes to, whatever the
order: the default with every open window open for longer, or a second after some open window
ends. It is shown by a least counterexample over the list, as is the existence of the loop's
recursive function.

**`CronJobSuspend_proofs`**, for every finite or infinite set of CronJobs. `InterferenceIsMarked`
is not inductive: a controller writes what it computed from a copy. The inductive invariant
adds `CopiesAreVersions`: a copy that is current equals the stored object, in the cache and in
both passes, and a pass is about to update only what its policy may mark and wants otherwise.
`Store` keeps it because it outdates every copy of what it writes (`StoreCopies`), and a pass
loses copies but never gets one after its list (`CopiesKept`); with it a
controller's write is a write from the stored object (`ControllerWrite`), a user's write
sets `intent` (`UserWrite`), and every other step writes no CronJob (`NoWrite`).

**`GitOpsPause_proofs`** does the same for the GitOps objects. The inductive invariant adds
that current copies are versions (`CopiesAreVersions`), that a marked object has an original to
go back to and an unmarked one is as its history says (`HistoryIsKept`), and that an object
which one policy alone selects carries, when marked, the name of that policy and the setting
it had before as its original (`MarksAreOwn`). With these a controller that pauses such an
object finds it unmarked (`PauseWrite`), so what it records is the setting before the marks,
and the restore writes that (`RestoreWrite`; an Application recorded as paused is still paused, by
`PausedWhileMarked`, unless its user has touched it).

What the assumptions on the constants say, and why the code justifies them: the pools hold
well-formed policies and requests (the CRD schemas; a maintenance policy has at least one
window by `+kubebuilder:validation:MinItems=1`); only Deployments and StatefulSets have replicas
(`RequestAssumption`); a schedule never runs or never ends (`Endless`, robfig/cron); instants
are the naturals up to a bound; policies have distinct names within a kind. `SpecAssumption` of
`ReconcileLoop` also keeps its windows within the search, since what the search misses is the
subject of `Evaluation`. TLC evaluates all of them on the instances of the runs.

Only model-checked: liveness (`NamespaceDrains`, `NewNamespaceServed`, `Settles`,
`StopsWriting`, `BusyWhileActive`, `SuspendFollowsOwner`, `FollowsPolicies`), which is out of
the prover's reach because it needs fairness, and the violations, which are counterexamples.

## Not modelled

Counters, histograms and log lines; the messages and reasons of conditions and events; the
flags and the printing of `kfo`; several managers at once (the shipped manifest elects a
leader, `config/manager/manager.yaml:64`);
edits of a policy's spec while its side effects are in place (a policy is there or gone, in
`CronJobSuspend` and `GitOpsPause`); leases, certificates, generated deep copies and manifests
other than the rules of the workload webhook.

## Plan

Modelled so far: the evaluator, admission with its abstract specification, the CI API beside
it, the reconcilers and their two side effects. Proved: every safety property of the runs and
the refinement. What is left: theorems that say more than the runs' properties do, from the
invariants at hand: what of `OriginalIsTruthful` and `SettingsComeBack` survives two policies
over one object, and what `Settles` rests on (a policy that is not right has work queued, a
version on the way, or a timer).

