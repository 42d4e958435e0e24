---------------------------- MODULE GitOpsPause ----------------------------
(***************************************************************************)
(* internal/gitops, called by the ChangeFreeze and MaintenanceWindow       *)
(* controllers: Argo CD Applications and Flux objects are paused during a  *)
(* freeze and given their old setting back afterwards.                     *)
(*                                                                         *)
(* The setting of an object is what its spec says of automatic sync:       *)
(* Paused (no spec.syncPolicy.automated; spec.suspend: true) or one of the *)
(* others.  Its marks are the annotations.  The lists go to the API server *)
(* (unstructured objects are not cached) and the updates are refused when  *)
(* the object has changed since; a listed copy carries `current', which    *)
(* every later write of the object clears.                                 *)
(***************************************************************************)
EXTENDS Integers, Sequences, Functions

CONSTANTS
  Objects,
  EngineOf,  \* the kind of each object
  Settings, Paused,
  SettingsOf,  \* the settings an object of its kind can have
  Policies,  \* see PolicyAssumption
  MaxTime, MaxEdits, MaxFaults

Engines == <<"Application", "Kustomization", "HelmRelease">>
Controllers == {"ChangeFreeze", "MaintenanceWindow"}
Time == 1..MaxTime

(* A policy with behavior.gitops: when it freezes and what it selects.     *)
ASSUME PolicyAssumption ==
  /\ \A p \in Policies :
       p.kind \in Controllers /\ p.freeze \subseteq Time /\ p.targets \subseteq Objects
  /\ \A p, q \in Policies : p.kind = q.kind /\ p.name = q.name => p = q
ASSUME ObjectAssumption ==
  /\ EngineOf \in [Objects -> {Engines[i] : i \in 1..Len(Engines)}]
  /\ SettingsOf \in [Objects -> SUBSET Settings]
  /\ \A o \in Objects : Paused \in SettingsOf[o]
ASSUME BoundAssumption == MaxTime \in Nat \ {0} /\ MaxEdits \in Nat /\ MaxFaults \in Nat

Names == {p.name : p \in Policies}
NoOwner == "none"
NoSetting == "none"
ASSUME NoneAssumption == NoOwner \notin Names /\ NoSetting \notin Settings

(* managed and managed-by-policy are written and removed together: owner.  *)
Object == [setting : Settings, owner : Names \cup {NoOwner},
           original : Settings \cup {NoSetting}]
Copy == [obj : Object, current : BOOLEAN]

VARIABLES
  now, alive, objs,
  work,  \* per controller, the pass its worker is in
  past,  \* per object, its setting before it was marked and what its user
         \* chose since (history)
  edits, faults

vars == <<now, alive, objs, work, past, edits, faults>>

Idle == [pc |-> "idle"]
(* The copies still to be looked at are the domain of todo.                *)
Pass == [pc : {"list", "loop"}, policy : Policies, active : BOOLEAN,
         stage : 1..Len(Engines), todo : UNION {[S -> Copy] : S \in SUBSET Objects}]
Past == [before : Settings, chosen : Settings \cup {NoSetting}]

TypeOK ==
  /\ now \in Time
  /\ alive \subseteq Policies
  /\ objs \in [Objects -> Object]
  /\ work \in [Controllers -> Pass \cup {Idle}]
  /\ past \in [Objects -> Past]
  /\ edits \in 0..MaxEdits /\ faults \in 0..MaxFaults

Unmarked(s) == [setting |-> s, owner |-> NoOwner, original |-> NoSetting]
Fresh(s) == [before |-> s, chosen |-> NoSetting]

Init ==
  /\ now = 1
  /\ alive = Policies
  /\ \E f \in [Objects -> Settings] :
       /\ \A o \in Objects : f[o] \in SettingsOf[o]
       /\ objs = [o \in Objects |-> Unmarked(f[o])]
  /\ work = [k \in Controllers |-> Idle]
  /\ past = [o \in Objects |-> Fresh(objs[o].setting)]
  /\ edits = 0 /\ faults = 0

-----------------------------------------------------------------------------
(* The API server *)

Outdated(w, o) == IF w.pc = "loop" /\ o \in DOMAIN w.todo
                  THEN [w EXCEPT !.todo[o].current = FALSE] ELSE w

(* Store a new version of o: every copy of it is out of date from now on.  *)
Store(o, obj, workers) ==
  /\ objs' = [objs EXCEPT ![o] = obj]
  /\ work' = [k \in Controllers |-> Outdated(workers[k], o)]

-----------------------------------------------------------------------------
(* The environment *)

Tick ==
  /\ now < MaxTime
  /\ now' = now + 1
  /\ UNCHANGED <<alive, objs, work, past, edits, faults>>

Edit == edits < MaxEdits /\ edits' = edits + 1

(* A user changes the setting of an object, marked or not.                 *)
UserSets(o, s) ==
  /\ Edit
  /\ objs[o].setting # s
  /\ Store(o, [objs[o] EXCEPT !.setting = s], work)
  /\ past' = [past EXCEPT ![o] =
       IF objs[o].owner = NoOwner THEN Fresh(s) ELSE [@ EXCEPT !.chosen = s]]
  /\ UNCHANGED <<now, alive, faults>>

(* docs/upgrade-v1.0-to-v2.0.md, Rollback: the user removes the            *)
(* annotations and sets the object as it should be.                        *)
UserReleases(o, s) ==
  /\ Edit
  /\ objs[o].owner # NoOwner
  /\ Store(o, Unmarked(s), work)
  /\ past' = [past EXCEPT ![o] = Fresh(s)]
  /\ UNCHANGED <<now, alive, faults>>

(* A policy is deleted, or its behavior.gitops removed or disabled: there  *)
(* is no finalizer, and the reconciler does nothing for its objects.       *)
Withdraw(p) ==
  /\ Edit
  /\ p \in alive
  /\ alive' = alive \ {p}
  /\ UNCHANGED <<now, objs, work, past, faults>>

-----------------------------------------------------------------------------
(* The controllers *)

Wants(p) == now \in p.freeze

(* Reconcile up to gitops.Reconciler: the policy and the clock are read.   *)
Begin(k, p) ==
  /\ work[k].pc = "idle"
  /\ p \in alive /\ p.kind = k
  /\ work' = [work EXCEPT ![k] =
       [pc |-> "list", policy |-> p, active |-> Wants(p), stage |-> 1, todo |-> <<>>]]
  /\ UNCHANGED <<now, alive, objs, past, edits, faults>>

Targets(w) == {o \in w.policy.targets : EngineOf[o] = Engines[w.stage]}

List(k) ==
  /\ work[k].pc = "list"
  /\ work' = [work EXCEPT ![k].pc = "loop",
                          ![k].todo = [o \in Targets(work[k]) |->
                                         [obj |-> objs[o], current |-> TRUE]]]
  /\ UNCHANGED <<now, alive, objs, past, edits, faults>>

NextStage(w) ==
  IF w.stage = Len(Engines) THEN Idle
  ELSE [w EXCEPT !.pc = "list", !.stage = @ + 1, !.todo = <<>>]

(* A list of Applications that fails is reported after Flux has had its    *)
(* turn; a list of Kustomizations that fails keeps the HelmReleases from   *)
(* theirs.                                                                 *)
ListFails(k) ==
  /\ faults < MaxFaults /\ faults' = faults + 1
  /\ work[k].pc = "list"
  /\ work' = [work EXCEPT ![k] = IF @.stage = 1 THEN NextStage(@) ELSE Idle]
  /\ UNCHANGED <<now, alive, objs, past, edits>>

(* The reconciler logs what went wrong and patches its status.             *)
EndStage(k) ==
  /\ work[k].pc = "loop" /\ DOMAIN work[k].todo = {}
  /\ work' = [work EXCEPT ![k] = NextStage(@)]
  /\ UNCHANGED <<now, alive, objs, past, edits, faults>>

Looked(k, o) == [work EXCEPT ![k].todo = Restrict(@, DOMAIN @ \ {o})]

ManagedByUs(p, obj) == obj.owner = p.name

PausedByMutant(p, obj) ==  \* the kind is recorded instead of the name
  [setting |-> Paused, owner |-> p.kind, original |-> obj.setting]

PausedBy(p, obj) == [setting |-> Paused, owner |-> p.name, original |-> obj.setting]

RestoredMutant(o, obj) ==  \* the annotations stay
  [obj EXCEPT !.setting = IF obj.original = NoSetting THEN @ ELSE obj.original]

(* The original of an Application that had no automated sync ("null")      *)
(* leaves its setting alone; a Flux object always gets its original back.  *)
Restored(o, obj) ==
  Unmarked(IF EngineOf[o] = "Application" /\ obj.original = Paused
           THEN obj.setting ELSE obj.original)

Looking(k, o) == work[k].pc = "loop" /\ o \in DOMAIN work[k].todo
PausesMutant(k, o) == Looking(k, o) /\ work[k].active  \* marked by us or not
Pauses(k, o) == /\ Looking(k, o) /\ work[k].active
                /\ ~ManagedByUs(work[k].policy, work[k].todo[o].obj)
Restores(k, o) == /\ Looking(k, o) /\ ~work[k].active
                  /\ ManagedByUs(work[k].policy, work[k].todo[o].obj)

Pause(k, o) ==
  LET w == work[k]
      copy == w.todo[o]
  IN  /\ Pauses(k, o)
      /\ copy.current
      /\ Store(o, PausedBy(w.policy, copy.obj), Looked(k, o))
      /\ past' = [past EXCEPT ![o].chosen = NoSetting]
      /\ UNCHANGED <<now, alive, edits, faults>>

Restore(k, o) ==
  LET copy == work[k].todo[o]
      obj == Restored(o, copy.obj)
  IN  /\ Restores(k, o)
      /\ copy.current
      /\ Store(o, obj, Looked(k, o))
      /\ past' = [past EXCEPT ![o] = Fresh(obj.setting)]
      /\ UNCHANGED <<now, alive, edits, faults>>

LeaveAlone(k, o) ==
  /\ Looking(k, o) /\ ~Pauses(k, o) /\ ~Restores(k, o)
  /\ work' = Looked(k, o)
  /\ UNCHANGED <<now, alive, objs, past, edits, faults>>

ConflictMutant(k, o) ==  \* the update is tried again with the same copy
  /\ Pauses(k, o) \/ Restores(k, o)
  /\ ~work[k].todo[o].current
  /\ UNCHANGED vars

(* An update that fails is logged and the loop goes on with the next one.  *)
Conflict(k, o) ==
  /\ Pauses(k, o) \/ Restores(k, o)
  /\ ~work[k].todo[o].current
  /\ work' = Looked(k, o)
  /\ UNCHANGED <<now, alive, objs, past, edits, faults>>

UpdateFails(k, o) ==
  /\ faults < MaxFaults /\ faults' = faults + 1
  /\ Pauses(k, o) \/ Restores(k, o)
  /\ work' = Looked(k, o)
  /\ UNCHANGED <<now, alive, objs, past, edits>>

Restart ==
  /\ faults < MaxFaults /\ faults' = faults + 1
  /\ work' = [k \in Controllers |-> Idle]
  /\ UNCHANGED <<now, alive, objs, past, edits>>

Loop(k, o) == Pause(k, o) \/ Restore(k, o) \/ LeaveAlone(k, o) \/ Conflict(k, o)

Next ==
  \/ Tick \/ Restart
  \/ \E p \in Policies : Withdraw(p)
  \/ \E o \in Objects : \E s \in SettingsOf[o] : UserSets(o, s) \/ UserReleases(o, s)
  \/ \E k \in Controllers, p \in Policies : Begin(k, p)
  \/ \E k \in Controllers : List(k) \/ ListFails(k) \/ EndStage(k)
  \/ \E k \in Controllers, o \in Objects : Loop(k, o) \/ UpdateFails(k, o)

Spec == Init /\ [][Next]_vars

(* As for the CronJobs: every live policy is reconciled again and again,   *)
(* and a pass goes on until it ends.                                       *)
Fairness ==
  /\ \A p \in Policies : SF_vars(Begin(p.kind, p))
  /\ \A k \in Controllers :
       WF_vars(List(k)) /\ WF_vars(EndStage(k)) /\ WF_vars(\E o \in Objects : Loop(k, o))

FairSpec == Spec /\ Fairness

-----------------------------------------------------------------------------
(* No other policy selects o.                                              *)
Exclusive(o) == \A p, q \in Policies : o \in p.targets \cap q.targets => p = q

(* A marked object is paused unless its user has changed it since: no      *)
(* overlap of passes, late update or restart leaves marks without a pause. *)
PausedWhileMarked ==
  \A o \in Objects :
    objs[o].owner # NoOwner /\ past[o].chosen = NoSetting => objs[o].setting = Paused

(* A controller lets go of o, whose user (whatever he did before the       *)
(* marks) has left the setting alone since.                                *)
LetsGo(o) ==
  /\ objs[o].owner # NoOwner /\ objs'[o].owner = NoOwner
  /\ edits' = edits
  /\ past[o].chosen = NoSetting

(* The one policy that selects an object gives it back the setting it had  *)
(* before the marks, whatever became of its passes and whenever its user   *)
(* last wrote it.  What is set on a marked object is lost instead, see     *)
(* ManualChangesSurvive.                                                   *)
RestoreStep ==
  \A o \in Objects : Exclusive(o) /\ LetsGo(o) => objs'[o].setting = past[o].before
SettingsComeBack == [][RestoreStep]_vars

(* Another policy writes its marks on o under the name of p.               *)
Namesake(p, o) == \E q \in Policies \ {p} : q.name = p.name /\ o \in q.targets

(* An object whose one policy is in force, and stays so, ends up marked by *)
(* it; a policy that is over for good leaves no marks behind, unless       *)
(* another one of its name is there to make them anew.                     *)
FollowsPolicies ==
  \A p \in Policies : \A o \in p.targets :
    /\ (Exclusive(o) /\ <>[](p \in alive /\ Wants(p))) => <>[](objs[o].owner = p.name)
    /\ (~Namesake(p, o) /\ <>[](p \in alive /\ ~Wants(p))) => <>[](objs[o].owner # p.name)

-----------------------------------------------------------------------------
(* docs/gitops-argocd.md:17: when the freeze ends the operator "Restores   *)
(* the original `spec.syncPolicy.automated` from the saved annotation",    *)
(* and argocd.go:134 pauses "if not already managed".  An object nobody    *)
(* edits is, whenever it is unmarked, as it was in the beginning.          *)
SettingsSurviveStep ==
  \A o \in Objects :
    edits = 0 /\ objs[o].owner # NoOwner /\ objs'[o].owner = NoOwner =>
      objs'[o].setting = past[o].before
SettingsSurvive == [][SettingsSurviveStep]_vars

(* reconciler.go:30-31: "The operator will ONLY restore state it           *)
(* originally changed.  Manual modifications by the user are left          *)
(* untouched (fail-safe)."  What a user set on a marked object is there    *)
(* when the marks go.                                                      *)
ManualStep ==
  \A o \in Objects :
    /\ objs[o].owner # NoOwner /\ objs'[o].owner = NoOwner
    /\ edits' = edits
    /\ past[o].chosen # NoSetting
    => objs'[o].setting = past[o].chosen
ManualChangesSurvive == [][ManualStep]_vars
=============================================================================
