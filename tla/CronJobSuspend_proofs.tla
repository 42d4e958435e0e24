----------------------- MODULE CronJobSuspend_proofs -----------------------
(***************************************************************************)
(* Safety of the CronJob side effects, for any number of CronJobs, any set *)
(* of policies and any bounds.                                             *)
(***************************************************************************)
EXTENDS CronJobSuspend, TLAPS

Copies == UNION {[S -> Copy] : S \in SUBSET CronJobs}

(* What a conflict check rests on: a copy that claims to be current is the *)
(* stored object; and what the loop is left with calls for an update.      *)
CopiesAreVersions ==
  /\ \A c \in CronJobs : cached[c].current => cached[c].job = cron[c]
  /\ \A k \in Controllers, c \in CronJobs : Updates(k, c) =>
       /\ work[k].todo[c].current => work[k].todo[c].job = cron[c]
       /\ Differs(work[k].policy, work[k].suspend, work[k].todo[c].job)

IInv == TypeOK /\ CopiesAreVersions /\ InterferenceIsMarked

-----------------------------------------------------------------------------
(* The sets of copies a pass can hold. *)

(* A set of copies is a function from some CronJobs.                       *)
LEMMA CopiesType ==
  \A f : f \in Copies <=> DOMAIN f \in SUBSET CronJobs /\ f \in [DOMAIN f -> Copy]
BY DEF Copies

(* A pass that has not listed the CronJobs has none.                       *)
LEMMA NoCopies == <<>> \in Copies /\ DOMAIN <<>> = {}
<1>1. DOMAIN <<>> = {}
  OBVIOUS
<1>2. <<>> \in [{} -> Copy]
  OBVIOUS
<1> QED
  BY <1>1, <1>2 DEF Copies

(* A pass with an outdated copy is the same pass.                          *)
LEMMA OutdatedCopies ==
  ASSUME NEW w \in Pass, NEW c \in CronJobs
  PROVE  /\ Outdated(w, c) \in Pass
         /\ Outdated(w, c).policy = w.policy /\ Outdated(w, c).suspend = w.suspend
         /\ DOMAIN Outdated(w, c).todo = DOMAIN w.todo
<1>1. CASE c \in DOMAIN w.todo
  <2> DEFINE todo == [w.todo EXCEPT ![c].current = FALSE]
  <2>1. w.todo \in Copies
    BY DEF Pass, Copies
  <2>2. DOMAIN w.todo \in SUBSET CronJobs /\ w.todo \in [DOMAIN w.todo -> Copy]
    BY <2>1, CopiesType
  <2>3. DOMAIN todo = DOMAIN w.todo
    OBVIOUS
  <2>4. todo \in [DOMAIN w.todo -> Copy]
    BY <2>2 DEF Copy
  <2>5. todo \in Copies
    BY <2>2, <2>4 DEF Copies
  <2>6. Outdated(w, c) = [w EXCEPT !.todo = todo]
    BY <1>1 DEF Outdated, Pass
  <2> HIDE DEF todo
  <2>7. /\ Outdated(w, c).todo = todo
        /\ Outdated(w, c).policy = w.policy /\ Outdated(w, c).suspend = w.suspend
    BY <2>6 DEF Pass
  <2>8. Outdated(w, c) \in Pass
    BY <2>5, <2>6 DEF Pass, Copies
  <2> QED
    BY <2>3, <2>7, <2>8
<1>2. CASE c \notin DOMAIN w.todo
  BY <1>2 DEF Outdated
<1> QED
  BY <1>1, <1>2

(* The outdated copy keeps its CronJob; the others stay as they were.      *)
LEMMA OutdatedCopy ==
  ASSUME NEW w \in Pass, NEW c \in CronJobs, NEW d \in DOMAIN w.todo
  PROVE  /\ Outdated(w, c).todo[d].job = w.todo[d].job
         /\ d # c => Outdated(w, c).todo[d] = w.todo[d]
         /\ d = c => ~Outdated(w, c).todo[d].current
<1>1. w.todo \in Copies
  BY DEF Pass, Copies
<1>2. w.todo \in [DOMAIN w.todo -> Copy]
  BY <1>1, CopiesType
<1>3. w.todo[d] \in Copy
  BY <1>2
<1>4. CASE c \in DOMAIN w.todo
  <2> DEFINE todo == [w.todo EXCEPT ![c].current = FALSE]
  <2>1. /\ todo[d].job = w.todo[d].job
        /\ d # c => todo[d] = w.todo[d]
        /\ d = c => ~todo[d].current
    BY <1>2, <1>3, <1>4 DEF Copy
  <2>2. Outdated(w, c).todo = todo
    BY <1>4 DEF Outdated, Pass
  <2> QED
    BY <2>1, <2>2
<1>5. CASE c \notin DOMAIN w.todo
  BY <1>5 DEF Outdated
<1> QED
  BY <1>4, <1>5

(* Dropping a copy leaves the others.                                      *)
LEMMA DroppedCopies ==
  ASSUME TypeOK, NEW k \in Controllers, NEW c \in CronJobs, Updates(k, c)
  PROVE  /\ Updated(k, c) \in [Controllers -> Pass \cup {Idle}]
         /\ \A l \in Controllers : l # k => Updated(k, c)[l] = work[l]
         /\ Updated(k, c)[k].policy = work[k].policy /\ Updated(k, c)[k].suspend = work[k].suspend
         /\ DOMAIN Updated(k, c)[k].todo = DOMAIN work[k].todo \ {c}
         /\ \A d \in DOMAIN work[k].todo \ {c} : Updated(k, c)[k].todo[d] = work[k].todo[d]
<1>1. work[k] \in Pass
  BY DEF TypeOK, Updates, Idle
<1> DEFINE todo == Restrict(work[k].todo, DOMAIN work[k].todo \ {c})
<1>2. work[k].todo \in Copies
  BY <1>1 DEF Pass, Copies
<1>3. DOMAIN work[k].todo \in SUBSET CronJobs /\ work[k].todo \in [DOMAIN work[k].todo -> Copy]
  BY <1>2, CopiesType
<1>4. todo \in [DOMAIN work[k].todo \ {c} -> Copy]
  BY <1>3 DEF Restrict
<1>5. todo \in Copies
  BY <1>3, <1>4 DEF Copies
<1>6. \A d \in DOMAIN work[k].todo \ {c} : todo[d] = work[k].todo[d]
  BY DEF Restrict
<1>7. DOMAIN todo = DOMAIN work[k].todo \ {c}
  BY <1>4
<1>8. Updated(k, c) = [work EXCEPT ![k].todo = todo]
  BY DEF Updated
<1> HIDE DEF todo
<1>9. Updated(k, c)[k] = [work[k] EXCEPT !.todo = todo]
  BY <1>8 DEF TypeOK
<1>10. /\ Updated(k, c)[k] \in Pass /\ Updated(k, c)[k].todo = todo
       /\ Updated(k, c)[k].policy = work[k].policy /\ Updated(k, c)[k].suspend = work[k].suspend
  BY <1>1, <1>5, <1>9 DEF Pass, Copies
<1>11. \A l \in Controllers : l # k => Updated(k, c)[l] = work[l]
  BY <1>8 DEF TypeOK
<1>12. Updated(k, c) \in [Controllers -> Pass \cup {Idle}]
  BY <1>8, <1>9, <1>10 DEF TypeOK
<1> QED
  BY <1>6, <1>7, <1>10, <1>11, <1>12

(* The passes hold no copies but those that work holds.                    *)
CopiesKept(workers) ==
  \A k \in Controllers : workers[k].busy =>
    /\ work[k].busy
    /\ workers[k].policy = work[k].policy /\ workers[k].suspend = work[k].suspend
    /\ DOMAIN workers[k].todo \subseteq DOMAIN work[k].todo
    /\ \A d \in DOMAIN workers[k].todo : workers[k].todo[d] = work[k].todo[d]

(* So it is with one copy dropped.                                         *)
LEMMA DroppedKept ==
  ASSUME TypeOK, NEW k \in Controllers, NEW c \in CronJobs, Updates(k, c)
  PROVE  CopiesKept(Updated(k, c))
<1>1. ASSUME NEW l \in Controllers, Updated(k, c)[l].busy
      PROVE  /\ work[l].busy
             /\ Updated(k, c)[l].policy = work[l].policy /\ Updated(k, c)[l].suspend = work[l].suspend
             /\ DOMAIN Updated(k, c)[l].todo \subseteq DOMAIN work[l].todo
             /\ \A d \in DOMAIN Updated(k, c)[l].todo :
                  Updated(k, c)[l].todo[d] = work[l].todo[d]
  <2>1. CASE l = k
    BY <2>1, DroppedCopies DEF Updates
  <2>2. CASE l # k
    <3>1. Updated(k, c)[l] = work[l]
      BY <2>2, DroppedCopies
    <3> QED
      BY <1>1, <3>1
  <2> QED
    BY <2>1, <2>2
<1> QED
  BY <1>1 DEF CopiesKept

(* Passes that lose copies are sound where no CronJob is written.          *)
LEMMA KeptCopies ==
  ASSUME CopiesAreVersions, CopiesKept(work'), UNCHANGED <<cron, cached>>
  PROVE  CopiesAreVersions'
<1>1. ASSUME NEW k \in Controllers, NEW c \in CronJobs, Updates(k, c)'
      PROVE  /\ work'[k].todo[c].current => work'[k].todo[c].job = cron'[c]
             /\ Differs(work'[k].policy, work'[k].suspend, work'[k].todo[c].job)
  <2>1. /\ Updates(k, c) /\ work'[k].todo[c] = work[k].todo[c]
        /\ work'[k].policy = work[k].policy /\ work'[k].suspend = work[k].suspend
    BY <1>1 DEF CopiesKept, Updates
  <2> QED
    BY <1>1, <2>1 DEF CopiesAreVersions
<1>2. \A c \in CronJobs : cached'[c].current => cached'[c].job = cron'[c]
  BY DEF CopiesAreVersions
<1> QED
  BY <1>1, <1>2 DEF CopiesAreVersions

(* What a store leaves behind: every variable it touches keeps its type,   *)
(* and no copy of the stored CronJob claims to be current.                 *)
LEMMA StoreCopies ==
  ASSUME TypeOK, CopiesAreVersions, NEW c \in CronJobs, NEW STATE job, job \in CronJob,
         NEW STATE workers, workers \in [Controllers -> Pass \cup {Idle}],
         CopiesKept(workers),
         Store(c, job, workers)
  PROVE  /\ cron' = [cron EXCEPT ![c] = job]
         /\ cron' \in [CronJobs -> CronJob]
         /\ cached' \in [CronJobs -> Copy]
         /\ work' \in [Controllers -> Pass \cup {Idle}]
         /\ CopiesAreVersions'
<1>1. cron' = [cron EXCEPT ![c] = job] /\ cron' \in [CronJobs -> CronJob]
  BY DEF Store, TypeOK
<1>2. cached' \in [CronJobs -> Copy]
  BY DEF Store, TypeOK, Copy
<1>3. work' = [k \in Controllers |-> Outdated(workers[k], c)]
  BY DEF Store
<1>4. Outdated(Idle, c) = Idle
  BY DEF Outdated, Idle
<1>5. \A k \in Controllers : Outdated(workers[k], c) \in Pass \cup {Idle}
  BY <1>4, OutdatedCopies
<1>6. work' \in [Controllers -> Pass \cup {Idle}]
  BY <1>3, <1>5
<1>7. ASSUME NEW d \in CronJobs, cached'[d].current
      PROVE  cached'[d].job = cron'[d]
  BY <1>7 DEF Store, TypeOK, Copy, CopiesAreVersions
<1>8. ASSUME NEW k \in Controllers, NEW d \in CronJobs, Updates(k, d)'
      PROVE  /\ work'[k].todo[d].current => work'[k].todo[d].job = cron'[d]
             /\ Differs(work'[k].policy, work'[k].suspend, work'[k].todo[d].job)
  <2>1. /\ work'[k] = Outdated(workers[k], c)
        /\ work'[k].busy /\ d \in DOMAIN work'[k].todo
    BY <1>3, <1>8 DEF Updates
  <2>2. workers[k] \in Pass
    <3>1. ~Idle.busy
      BY DEF Idle
    <3>2. workers[k] # Idle
      BY <1>4, <2>1, <3>1
    <3> QED
      BY <3>2
  <2>3. workers[k].busy /\ d \in DOMAIN workers[k].todo
    <3>1. DOMAIN work'[k].todo = DOMAIN workers[k].todo
      BY <2>1, <2>2, OutdatedCopies
    <3>2. workers[k].busy
      BY <2>2 DEF Pass
    <3> QED
      BY <2>1, <3>1, <3>2
  <2>4. /\ Updates(k, d) /\ workers[k].todo[d] = work[k].todo[d]
        /\ workers[k].policy = work[k].policy /\ workers[k].suspend = work[k].suspend
    BY <2>3 DEF Updates, CopiesKept
  <2>5. /\ work'[k].policy = work[k].policy /\ work'[k].suspend = work[k].suspend
        /\ work'[k].todo[d].job = work[k].todo[d].job
        /\ d # c => work'[k].todo[d] = work[k].todo[d]
        /\ d = c => ~work'[k].todo[d].current
    <3>1. work'[k].policy = workers[k].policy /\ work'[k].suspend = workers[k].suspend
      BY <2>1, <2>2, OutdatedCopies
    <3>2. PICK w \in Pass : w = workers[k] /\ work'[k] = Outdated(w, c)
      BY <2>1, <2>2
    <3>4. d \in DOMAIN w.todo
      BY <2>3, <3>2
    <3>5. /\ Outdated(w, c).todo[d].job = w.todo[d].job
          /\ d # c => Outdated(w, c).todo[d] = w.todo[d]
          /\ d = c => ~Outdated(w, c).todo[d].current
      BY <3>4, OutdatedCopy
    <3> QED
      BY <2>4, <3>1, <3>2, <3>5
  <2>6. d # c => cron'[d] = cron[d]
    BY <1>1 DEF TypeOK
  <2> QED
    BY <2>4, <2>5, <2>6 DEF CopiesAreVersions
<1>9. CopiesAreVersions'
  BY <1>7, <1>8 DEF CopiesAreVersions
<1> QED
  BY <1>1, <1>2, <1>6, <1>9

(* It holds initially. *)
LEMMA InitInvariant == Init => IInv
<1> SUFFICES ASSUME Init PROVE IInv
  OBVIOUS
<1>1. \A c \in CronJobs : Unmarked(intent[c]) \in CronJob
  BY DEF Init, Unmarked, CronJob
<1>2. TypeOK
  <2>1. now \in Time /\ edits \in 0..MaxEdits /\ faults \in 0..MaxFaults
    BY BoundAssumption DEF Init, Time
  <2>2. cron \in [CronJobs -> CronJob]
    BY <1>1 DEF Init
  <2>3. cached \in [CronJobs -> Copy]
    BY <2>2 DEF Init, Copy
  <2> QED
    BY <2>1, <2>2, <2>3 DEF Init, TypeOK
<1>3. CopiesAreVersions
  BY DEF Init, CopiesAreVersions, Updates, Idle
<1>4. InterferenceIsMarked
  BY DEF Init, InterferenceIsMarked, Unmarked
<1> QED
  BY <1>2, <1>3, <1>4 DEF IInv

-----------------------------------------------------------------------------
(* What the three writers of a CronJob do to it. *)

(* A user's write stores what the user wants.                              *)
LEMMA UserWrite ==
  ASSUME IInv, NEW c \in CronJobs, UserSuspends(c) \/ UserReleases(c)
  PROVE  /\ IInv'
         /\ \A d \in CronJobs : cron'[d].owner # NoOwner =>
               cron'[d].owner = cron[d].owner /\ cron'[d].original = cron[d].original
<1> DEFINE job == IF UserSuspends(c) THEN [cron[c] EXCEPT !.suspend = ~@]
                                     ELSE Unmarked(FALSE)
<1> USE DEF IInv
<1>1. job \in CronJob /\ cron[c] \in CronJob
  BY DEF TypeOK, CronJob, Unmarked
<1>2. Store(c, job, work)
  BY DEF UserSuspends, UserReleases
<1>3. work \in [Controllers -> Pass \cup {Idle}]
  BY DEF TypeOK
<1> HIDE DEF job
<1>4. CopiesKept(work)
  BY DEF CopiesKept
<1>5. /\ cron' = [cron EXCEPT ![c] = job] /\ cron' \in [CronJobs -> CronJob]
      /\ cached' \in [CronJobs -> Copy]
      /\ work' \in [Controllers -> Pass \cup {Idle}]
      /\ CopiesAreVersions'
  BY <1>1, <1>2, <1>3, <1>4, StoreCopies
<1>6. now' = now /\ alive' = alive /\ faults' = faults /\ edits' \in 0..MaxEdits
  <2>1. Edit /\ now' = now /\ alive' = alive /\ faults' = faults
    BY DEF UserSuspends, UserReleases
  <2> QED
    BY <2>1, BoundAssumption DEF Edit, TypeOK
<1>7. intent' = [intent EXCEPT ![c] = job.suspend]
  BY <1>1 DEF UserSuspends, UserReleases, job, Unmarked, TypeOK, CronJob
<1>8. TypeOK'
  BY <1>1, <1>5, <1>6, <1>7 DEF TypeOK, CronJob
<1>9. InterferenceIsMarked'
  BY <1>5, <1>7 DEF InterferenceIsMarked, TypeOK
<1>10. job.owner # NoOwner => job.owner = cron[c].owner /\ job.original = cron[c].original
  BY <1>1 DEF job, Unmarked, CronJob
<1> QED
  BY <1>5, <1>8, <1>9, <1>10 DEF TypeOK

(* A controller's write starts from the stored object, keeps the marks it  *)
(* finds and makes them where there are none.                              *)
LEMMA ControllerWrite ==
  ASSUME IInv, NEW k \in Controllers, NEW c \in CronJobs, Update(k, c)
  PROVE  IInv' /\ OwnershipStep /\ TakeoverStep
<1> DEFINE w == work[k]
           job == Marked(w.policy, cron[c], w.suspend)
<1> USE DEF IInv
<1>1. Updates(k, c) /\ w.todo[c].current
  BY DEF Update
<1>2. w \in Pass
  BY <1>1 DEF Updates, TypeOK, Idle
<1>3. /\ w.todo[c].job = cron[c] /\ cron[c].suspend # w.suspend
      /\ cron[c].owner \in {NoOwner, w.policy.name}
  BY <1>1 DEF Differs, OwnedByOther, CopiesAreVersions
<1>4. cron[c] \in CronJob /\ w.policy.name \in Names /\ w.policy.name # NoOwner
  BY <1>2, NoOwnerAssumption DEF TypeOK, Pass, Names
<1>5. job \in CronJob
  BY <1>2, <1>4 DEF Marked, CronJob, Pass
<1>6. Store(c, job, Updated(k, c))
  BY <1>3 DEF Update
<1>7. Updated(k, c) \in [Controllers -> Pass \cup {Idle}] /\ CopiesKept(Updated(k, c))
  BY <1>1, DroppedCopies, DroppedKept
<1>8. /\ job.owner = w.policy.name
      /\ job.suspend = w.suspend
      /\ cron[c].owner # NoOwner => job.original = cron[c].original
      /\ cron[c].owner = NoOwner => job.original = cron[c].suspend
  BY <1>3, <1>4 DEF Marked, CronJob
<1> HIDE DEF job
<1>9. /\ cron' = [cron EXCEPT ![c] = job] /\ cron' \in [CronJobs -> CronJob]
      /\ cached' \in [CronJobs -> Copy]
      /\ work' \in [Controllers -> Pass \cup {Idle}]
      /\ CopiesAreVersions'
  BY <1>5, <1>6, <1>7, StoreCopies
<1>10. TypeOK'
  BY <1>9 DEF Update, TypeOK
<1>11. InterferenceIsMarked'
  BY <1>4, <1>8, <1>9 DEF InterferenceIsMarked, TypeOK, Update
<1>12. OwnershipStep
  BY <1>3, <1>8, <1>9 DEF OwnershipStep, TypeOK
<1>13. TakeoverStep
  BY <1>3, <1>8, <1>9 DEF TakeoverStep, TypeOK, InterferenceIsMarked, CronJob
<1> QED
  BY <1>9, <1>10, <1>11, <1>12, <1>13

(* Steps that write no CronJob leave the marks alone; it remains to see    *)
(* that their copies and passes are still sound.                           *)
LEMMA NoWrite ==
  ASSUME IInv, TypeOK', CopiesAreVersions', UNCHANGED <<cron, intent>>
  PROVE  IInv' /\ OwnershipStep /\ TakeoverStep
BY DEF IInv, InterferenceIsMarked, OwnershipStep, TakeoverStep

(* Every step keeps the invariant and obeys the two action properties. *)
LEMMA InductiveStep ==
  IInv /\ [Next]_vars => IInv' /\ OwnershipStep /\ TakeoverStep
<1> SUFFICES ASSUME IInv, [Next]_vars
             PROVE  IInv' /\ OwnershipStep /\ TakeoverStep
  OBVIOUS
<1> USE DEF IInv
<1>1. CASE Tick
  <2>1. TypeOK'
    BY <1>1, BoundAssumption DEF Tick, TypeOK, Time
  <2> QED
    BY <1>1, <2>1, NoWrite DEF Tick, CopiesAreVersions, Updates
<1>2. CASE Restart
  <2>1. TypeOK'
    <3>1. faults' \in 0..MaxFaults
      BY <1>2, BoundAssumption DEF Restart, TypeOK
    <3>2. cached' \in [CronJobs -> Copy]
      BY <1>2 DEF Restart, TypeOK, Copy
    <3> QED
      BY <1>2, <3>1, <3>2 DEF Restart, TypeOK
  <2>2. CopiesAreVersions'
    BY <1>2 DEF Restart, CopiesAreVersions, Updates, Idle
  <2> QED
    BY <1>2, <2>1, <2>2, NoWrite DEF Restart
<1>3. ASSUME NEW p \in Policies, DeletePolicy(p)
      PROVE  IInv' /\ OwnershipStep /\ TakeoverStep
  <2>1. edits' \in 0..MaxEdits
    BY <1>3, BoundAssumption DEF DeletePolicy, Edit, TypeOK
  <2>2. TypeOK'
    BY <1>3, <2>1 DEF DeletePolicy, TypeOK
  <2> QED
    BY <1>3, <2>2, NoWrite DEF DeletePolicy, CopiesAreVersions, Updates
<1>4. ASSUME NEW c \in CronJobs, UserSuspends(c) \/ UserReleases(c)
      PROVE  IInv' /\ OwnershipStep /\ TakeoverStep
  BY <1>4, UserWrite DEF OwnershipStep, TakeoverStep
<1>5. ASSUME NEW c \in CronJobs, Sync(c)
      PROVE  IInv' /\ OwnershipStep /\ TakeoverStep
  <2>1. TypeOK'
    BY <1>5 DEF Sync, TypeOK, Copy
  <2>2. CopiesAreVersions'
    BY <1>5 DEF Sync, CopiesAreVersions, Updates, TypeOK
  <2> QED
    BY <1>5, <2>1, <2>2, NoWrite DEF Sync
<1>6. ASSUME NEW k \in Controllers, NEW p \in Policies, Begin(k, p)
      PROVE  IInv' /\ OwnershipStep /\ TakeoverStep
  <2> DEFINE pass == [busy |-> TRUE, policy |-> p, suspend |-> Wants(p), listed |-> FALSE,
                      todo |-> <<>>]
  <2>1. pass \in Pass /\ pass.todo = <<>>
    BY NoCopies DEF Pass, Copies, Wants
  <2>2. work' = [work EXCEPT ![k] = pass]
    BY <1>6 DEF Begin
  <2> HIDE DEF pass
  <2>3. TypeOK'
    BY <1>6, <2>1, <2>2 DEF Begin, TypeOK
  <2>4. \A l \in Controllers : work'[l] = IF l = k THEN pass ELSE work[l]
    BY <2>2 DEF TypeOK
  <2>5. cron' = cron /\ cached' = cached /\ DOMAIN pass.todo = {}
    BY <1>6, <2>1, NoCopies DEF Begin
  <2>6. CopiesAreVersions'
    BY <2>4, <2>5 DEF CopiesAreVersions, Updates
  <2> QED
    BY <1>6, <2>3, <2>6, NoWrite DEF Begin
<1>12. ASSUME NEW k \in Controllers, List(k)
       PROVE  IInv' /\ OwnershipStep /\ TakeoverStep
  <2> DEFINE w == work[k]
             changes == {c \in w.policy.targets : Differs(w.policy, w.suspend, cached[c].job)}
             todo == Restrict(cached, changes)
             pass == [w EXCEPT !.listed = TRUE, !.todo = todo]
  <2>1. w \in Pass
    BY <1>12 DEF List, TypeOK, Idle
  <2>2. changes \subseteq CronJobs
    BY <2>1, PolicyAssumption DEF Pass
  <2>3. \A c \in changes : Differs(w.policy, w.suspend, cached[c].job)
    OBVIOUS
  <2>4. work' = [work EXCEPT ![k] = pass]
    BY <1>12 DEF List
  <2> HIDE DEF changes
  <2>5. todo \in [changes -> Copy] /\ \A c \in changes : todo[c] = cached[c]
    BY <2>2 DEF Restrict, TypeOK
  <2>6. todo \in Copies /\ DOMAIN todo = changes
    BY <2>2, <2>5 DEF Copies
  <2> HIDE DEF todo
  <2>7. /\ pass \in Pass /\ pass.todo = todo
        /\ pass.policy = w.policy /\ pass.suspend = w.suspend
    BY <2>1, <2>6 DEF Pass, Copies
  <2> HIDE DEF pass
  <2>8. TypeOK'
    BY <1>12, <2>4, <2>7 DEF List, TypeOK
  <2>9. \A l \in Controllers : work'[l] = IF l = k THEN pass ELSE work[l]
    BY <2>4 DEF TypeOK
  <2>10. cron' = cron /\ cached' = cached
    BY <1>12 DEF List
  <2>11. ASSUME NEW l \in Controllers, NEW c \in CronJobs, Updates(l, c)'
         PROVE  /\ work'[l].todo[c].current => work'[l].todo[c].job = cron'[c]
                /\ Differs(work'[l].policy, work'[l].suspend, work'[l].todo[c].job)
    <3>1. CASE l = k
      <4>1. work'[l] = pass /\ c \in changes /\ pass.todo[c] = cached[c]
        BY <2>5, <2>6, <2>7, <2>9, <2>11, <3>1 DEF Updates
      <4> QED
        BY <2>3, <2>7, <2>10, <4>1 DEF CopiesAreVersions
    <3>2. CASE l # k
      <4>1. work'[l] = work[l]
        BY <2>9, <3>2
      <4> QED
        BY <2>10, <2>11, <4>1 DEF CopiesAreVersions, Updates
    <3> QED
      BY <3>1, <3>2
  <2>12. CopiesAreVersions'
    BY <2>10, <2>11 DEF CopiesAreVersions
  <2> QED
    BY <1>12, <2>8, <2>12, NoWrite DEF List
<1>7. ASSUME NEW k \in Controllers, Finish(k)
      PROVE  IInv' /\ OwnershipStep /\ TakeoverStep
  <2>1. TypeOK' /\ CopiesAreVersions'
    BY <1>7 DEF Finish, TypeOK, CopiesAreVersions, Updates, Idle
  <2> QED
    BY <1>7, <2>1, NoWrite DEF Finish
<1>8. ASSUME work' \in [Controllers -> Pass \cup {Idle}], CopiesKept(work'),
             UNCHANGED <<now, alive, cron, cached, intent, edits>>,
             faults' = faults \/ (faults < MaxFaults /\ faults' = faults + 1)
      PROVE  IInv' /\ OwnershipStep /\ TakeoverStep
  <2>1. faults' \in 0..MaxFaults
    BY <1>8, BoundAssumption DEF TypeOK
  <2>2. TypeOK'
    BY <1>8, <2>1 DEF TypeOK
  <2> QED
    BY <1>8, <2>2, KeptCopies, NoWrite
<1>9. ASSUME NEW k \in Controllers, NEW c \in CronJobs,
             Conflict(k, c) \/ Denied(k, c) \/ UpdateFails(k, c)
      PROVE  IInv' /\ OwnershipStep /\ TakeoverStep
  <2>1. /\ faults' = faults \/ (faults < MaxFaults /\ faults' = faults + 1)
        /\ work' = [work EXCEPT ![k] = Idle]
        /\ UNCHANGED <<now, alive, cron, cached, intent, edits>>
    BY <1>9 DEF Conflict, Denied, UpdateFails, Abort
  <2>2. work' \in [Controllers -> Pass \cup {Idle}]
    BY <2>1 DEF TypeOK
  <2>3. CopiesKept(work')
    BY <2>1 DEF CopiesKept, TypeOK, Idle
  <2> QED
    BY <1>8, <2>1, <2>2, <2>3
<1>10. ASSUME NEW k \in Controllers, NEW c \in CronJobs, Update(k, c)
       PROVE  IInv' /\ OwnershipStep /\ TakeoverStep
  BY <1>10, ControllerWrite
<1>11. CASE UNCHANGED vars
  <2>1. TypeOK' /\ CopiesAreVersions'
    BY <1>11 DEF vars, TypeOK, CopiesAreVersions, Updates
  <2> QED
    BY <1>11, <2>1, NoWrite DEF vars
<1> QED
  BY <1>1, <1>2, <1>3, <1>4, <1>5, <1>6, <1>7, <1>9, <1>10, <1>11, <1>12 DEF Next, Loop

-----------------------------------------------------------------------------
(* The invariant holds in every reachable state. *)
LEMMA Invariance == Spec => []IInv
BY InitInvariant, InductiveStep, PTL DEF Spec

(* The variables stay in their types.                                      *)
THEOREM TypeCorrect == Spec => []TypeOK
<1>1. IInv => TypeOK /\ InterferenceIsMarked
  BY DEF IInv
<1> QED
  BY <1>1, Invariance, PTL

(* Whatever the interleaving, a CronJob that is not as its user left it    *)
(* carries the marks of a policy, so the user can always tell.             *)
THEOREM Marked_Interference == Spec => []InterferenceIsMarked
<1>1. IInv => TypeOK /\ InterferenceIsMarked
  BY DEF IInv
<1> QED
  BY <1>1, Invariance, PTL

(* The owner and the recorded original survive everything the controllers  *)
(* do; only a user takes them away.                                        *)
THEOREM Stable_Ownership == Spec => OwnershipIsStable
<1>1. IInv /\ [Next]_vars => [OwnershipStep]_vars
  BY InductiveStep
<1> QED
  BY <1>1, Invariance, PTL DEF Spec, OwnershipIsStable

(* The original a controller records is the user's latest choice.          *)
THEOREM Truthful_Original == Spec => OriginalIsTruthful
<1>1. IInv /\ [Next]_vars => [TakeoverStep]_vars
  BY InductiveStep
<1> QED
  BY <1>1, Invariance, PTL DEF Spec, OriginalIsTruthful
=============================================================================
