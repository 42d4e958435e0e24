------------------------- MODULE GitOpsPause_proofs -------------------------
(***************************************************************************)
(* Safety of the GitOps side effects, for any objects, settings, policies  *)
(* and bounds.                                                             *)
(***************************************************************************)
EXTENDS GitOpsPause, TLAPS

Copies == UNION {[S -> Copy] : S \in SUBSET Objects}

(* What the conflict check of an update rests on: a listed copy that       *)
(* claims to be current is the stored object.  A pass holds copies of its  *)
(* policy's targets only.                                                  *)
CopiesAreVersions ==
  \A k \in Controllers, o \in Objects :
    Looking(k, o) =>
      /\ o \in work[k].policy.targets
      /\ work[k].todo[o].current => work[k].todo[o].obj = objs[o]

(* An unmarked object is as its history says; a marked one has an original *)
(* to go back to.                                                          *)
HistoryIsKept ==
  \A o \in Objects :
    IF objs[o].owner = NoOwner
    THEN past[o] = Fresh(objs[o].setting)
    ELSE objs[o].original \in Settings

(* Where one policy selects an object, the marks are its own and hold the  *)
(* setting the object had before them.                                     *)
MarksAreOwn ==
  \A o \in Objects :
    Exclusive(o) /\ objs[o].owner # NoOwner =>
      /\ objs[o].original = past[o].before
      /\ \A p \in Policies : o \in p.targets => objs[o].owner = p.name

IInv == /\ TypeOK /\ CopiesAreVersions
        /\ HistoryIsKept /\ MarksAreOwn /\ PausedWhileMarked

-----------------------------------------------------------------------------
(* The sets of copies a pass can hold. *)

(* A set of copies is a function from some objects.                        *)
LEMMA CopiesType ==
  \A f : f \in Copies <=> DOMAIN f \in SUBSET Objects /\ f \in [DOMAIN f -> Copy]
BY DEF Copies

(* A pass begins without any.                                              *)
LEMMA NoCopies == <<>> \in Copies
<1>1. DOMAIN <<>> = {}
  OBVIOUS
<1>2. <<>> \in [{} -> Copy]
  OBVIOUS
<1> QED
  BY <1>2 DEF Copies

(* A copy that is outdated or dropped leaves the others as they were.      *)
LEMMA OutdatedCopies ==
  ASSUME NEW w \in Pass, NEW o \in Objects
  PROVE  /\ Outdated(w, o) \in Pass
         /\ Outdated(w, o).pc = w.pc /\ Outdated(w, o).policy = w.policy
         /\ DOMAIN Outdated(w, o).todo = DOMAIN w.todo
         /\ \A d \in DOMAIN w.todo : d # o => Outdated(w, o).todo[d] = w.todo[d]
         /\ w.pc = "loop" /\ o \in DOMAIN w.todo => ~Outdated(w, o).todo[o].current
<1>1. CASE w.pc = "loop" /\ o \in DOMAIN w.todo
  <2> DEFINE todo == [w.todo EXCEPT ![o].current = FALSE]
  <2>1. w.todo \in Copies
    BY DEF Pass, Copies
  <2>2. DOMAIN w.todo \in SUBSET Objects /\ w.todo \in [DOMAIN w.todo -> Copy]
    BY <2>1, CopiesType
  <2>3. DOMAIN todo = DOMAIN w.todo
    OBVIOUS
  <2>4. todo \in [DOMAIN w.todo -> Copy]
    BY <2>2 DEF Copy
  <2>5. todo \in Copies
    BY <2>2, <2>4 DEF Copies
  <2>6. \A d \in DOMAIN w.todo : d # o => todo[d] = w.todo[d]
    BY <2>2
  <2>7. ~todo[o].current
    BY <1>1, <2>2 DEF Copy
  <2>8. Outdated(w, o) = [w EXCEPT !.todo = todo]
    BY <1>1 DEF Outdated
  <2> HIDE DEF todo
  <2>9. Outdated(w, o).todo = todo
    BY <2>8 DEF Pass
  <2>10. Outdated(w, o) \in Pass
    BY <2>5, <2>8 DEF Pass, Copies
  <2>11. Outdated(w, o).pc = w.pc /\ Outdated(w, o).policy = w.policy
    BY <2>8 DEF Pass
  <2> QED
    BY <2>3, <2>6, <2>7, <2>9, <2>10, <2>11
<1>2. CASE ~(w.pc = "loop" /\ o \in DOMAIN w.todo)
  BY <1>2 DEF Outdated
<1> QED
  BY <1>1, <1>2

(* Dropping a copy leaves the others.                                      *)
LEMMA DroppedCopies ==
  ASSUME TypeOK, NEW k \in Controllers, NEW o \in Objects, Looking(k, o)
  PROVE  /\ Looked(k, o) \in [Controllers -> Pass \cup {Idle}]
         /\ \A l \in Controllers : l # k => Looked(k, o)[l] = work[l]
         /\ Looked(k, o)[k].pc = "loop" /\ Looked(k, o)[k].policy = work[k].policy
         /\ DOMAIN Looked(k, o)[k].todo = DOMAIN work[k].todo \ {o}
         /\ \A d \in DOMAIN work[k].todo \ {o} : Looked(k, o)[k].todo[d] = work[k].todo[d]
<1>1. work[k] \in Pass
  BY DEF TypeOK, Looking, Idle
<1> DEFINE todo == Restrict(work[k].todo, DOMAIN work[k].todo \ {o})
<1>2. work[k].todo \in Copies
  BY <1>1 DEF Pass, Copies
<1>3. DOMAIN work[k].todo \in SUBSET Objects /\ work[k].todo \in [DOMAIN work[k].todo -> Copy]
  BY <1>2, CopiesType
<1>4. todo \in [DOMAIN work[k].todo \ {o} -> Copy]
  BY <1>3 DEF Restrict
<1>5. todo \in Copies
  BY <1>3, <1>4 DEF Copies
<1>6. \A d \in DOMAIN work[k].todo \ {o} : todo[d] = work[k].todo[d]
  BY DEF Restrict
<1>7. DOMAIN todo = DOMAIN work[k].todo \ {o}
  BY <1>4
<1>8. Looked(k, o) = [work EXCEPT ![k].todo = todo]
  BY DEF Looked
<1> HIDE DEF todo
<1>9. Looked(k, o)[k] = [work[k] EXCEPT !.todo = todo]
  BY <1>8 DEF TypeOK
<1>10. Looked(k, o)[k] \in Pass
  BY <1>1, <1>5, <1>9 DEF Pass, Copies
<1>11. /\ Looked(k, o)[k].pc = "loop" /\ Looked(k, o)[k].policy = work[k].policy
       /\ Looked(k, o)[k].todo = todo
  BY <1>1, <1>9 DEF Pass, Looking
<1>12. \A l \in Controllers : l # k => Looked(k, o)[l] = work[l]
  BY <1>8 DEF TypeOK
<1>13. Looked(k, o) \in [Controllers -> Pass \cup {Idle}]
  BY <1>8, <1>9, <1>10 DEF TypeOK
<1> QED
  BY <1>6, <1>7, <1>11, <1>12, <1>13

(* What a store leaves behind: every variable keeps its type, and no copy  *)
(* of the stored object claims to be current.                              *)
LEMMA StoreCopies ==
  ASSUME TypeOK, CopiesAreVersions, NEW o \in Objects, NEW STATE obj, obj \in Object,
         NEW STATE workers, workers \in [Controllers -> Pass \cup {Idle}],
         \A k \in Controllers : workers[k].pc = "loop" =>
            /\ work[k].pc = "loop" /\ workers[k].policy = work[k].policy
            /\ DOMAIN workers[k].todo \subseteq DOMAIN work[k].todo
            /\ \A d \in DOMAIN workers[k].todo : workers[k].todo[d] = work[k].todo[d],
         Store(o, obj, workers)
  PROVE  /\ objs' = [objs EXCEPT ![o] = obj]
         /\ objs' \in [Objects -> Object]
         /\ work' \in [Controllers -> Pass \cup {Idle}]
         /\ CopiesAreVersions'
<1>1. objs' = [objs EXCEPT ![o] = obj] /\ objs' \in [Objects -> Object]
  BY DEF Store, TypeOK
<1>2. work' = [k \in Controllers |-> Outdated(workers[k], o)]
  BY DEF Store
<1>3. Outdated(Idle, o) = Idle
  BY DEF Outdated, Idle
<1>4. \A k \in Controllers : Outdated(workers[k], o) \in Pass \cup {Idle}
  BY <1>3, OutdatedCopies
<1>5. work' \in [Controllers -> Pass \cup {Idle}]
  BY <1>2, <1>4
<1>6. ASSUME NEW k \in Controllers, NEW d \in Objects, Looking(k, d)'
      PROVE  /\ d \in work'[k].policy.targets
             /\ work'[k].todo[d].current => work'[k].todo[d].obj = objs'[d]
  <2>1. work'[k] = Outdated(workers[k], o) /\ work'[k].pc = "loop"
        /\ d \in DOMAIN work'[k].todo
    BY <1>2, <1>6 DEF Looking
  <2>2. workers[k] \in Pass
    BY <1>3, <2>1 DEF Idle
  <2>3. /\ workers[k].pc = "loop" /\ work'[k].policy = workers[k].policy
        /\ d \in DOMAIN workers[k].todo
        /\ d # o => work'[k].todo[d] = workers[k].todo[d]
        /\ d = o => ~work'[k].todo[d].current
    BY <2>1, <2>2, OutdatedCopies
  <2>4. Looking(k, d) /\ workers[k].todo[d] = work[k].todo[d]
    BY <2>3 DEF Looking
  <2>5. d # o => objs'[d] = objs[d]
    BY <1>1 DEF TypeOK
  <2> QED
    BY <2>3, <2>4, <2>5 DEF CopiesAreVersions
<1>7. CopiesAreVersions'
  BY <1>6 DEF CopiesAreVersions
<1> QED
  BY <1>1, <1>5, <1>7

(* It holds initially. *)
LEMMA InitInvariant == Init => IInv
<1> SUFFICES ASSUME Init PROVE IInv
  OBVIOUS
<1>1. PICK f \in [Objects -> Settings] : objs = [o \in Objects |-> Unmarked(f[o])]
  BY DEF Init
<1>2. \A o \in Objects : objs[o] = Unmarked(f[o]) /\ f[o] \in Settings
  BY <1>1
<1>3. objs \in [Objects -> Object]
  BY <1>1 DEF Unmarked, Object
<1>4. past \in [Objects -> Past]
  BY <1>2 DEF Init, Fresh, Past, Unmarked
<1>5. now \in Time /\ edits \in 0..MaxEdits /\ faults \in 0..MaxFaults
  BY BoundAssumption DEF Init, Time
<1>6. TypeOK
  BY <1>3, <1>4, <1>5 DEF Init, TypeOK
<1>7. CopiesAreVersions
  BY DEF Init, CopiesAreVersions, Looking, Idle
<1>8. HistoryIsKept /\ MarksAreOwn /\ PausedWhileMarked
  BY <1>2 DEF Init, HistoryIsKept, MarksAreOwn, PausedWhileMarked, Unmarked
<1> QED
  BY <1>6, <1>7, <1>8 DEF IInv

-----------------------------------------------------------------------------
(* The writers of an object. *)

(* Marks that are sound, object by object.                                 *)
Kept(obj, p) ==
  IF obj.owner = NoOwner THEN p = Fresh(obj.setting) ELSE obj.original \in Settings
Own(o, obj, p) ==
  Exclusive(o) /\ obj.owner # NoOwner =>
    obj.original = p.before /\ \A q \in Policies : o \in q.targets => obj.owner = q.name
PausedIfMarked(obj, p) ==
  obj.owner # NoOwner /\ p.chosen = NoSetting => obj.setting = Paused

(* A write keeps the invariant if what it stores is sound in itself.       *)
LEMMA SoundWrite ==
  ASSUME IInv, NEW o \in Objects, NEW STATE obj, obj \in Object, NEW STATE p, p \in Past,
         Kept(obj, p), Own(o, obj, p), PausedIfMarked(obj, p),
         objs' = [objs EXCEPT ![o] = obj], past' = [past EXCEPT ![o] = p]
  PROVE  /\ past' \in [Objects -> Past]
         /\ HistoryIsKept' /\ MarksAreOwn' /\ PausedWhileMarked'
<1>1. objs \in [Objects -> Object] /\ past \in [Objects -> Past]
  BY DEF IInv, TypeOK
<1>2. /\ objs'[o] = obj /\ past'[o] = p /\ past' \in [Objects -> Past]
      /\ \A d \in Objects : d # o => objs'[d] = objs[d] /\ past'[d] = past[d]
  BY <1>1
<1>3. HistoryIsKept'
  BY <1>2 DEF IInv, HistoryIsKept, Kept
<1>4. MarksAreOwn'
  BY <1>2 DEF IInv, MarksAreOwn, Own, Exclusive
<1>5. PausedWhileMarked'
  BY <1>2 DEF IInv, PausedWhileMarked, PausedIfMarked
<1> QED
  BY <1>2, <1>3, <1>4, <1>5

(* A user's write.                                                         *)
LEMMA UserWrite ==
  ASSUME IInv, NEW o \in Objects, NEW s \in SettingsOf[o],
         UserSets(o, s) \/ UserReleases(o, s)
  PROVE  IInv'
<1> DEFINE obj == IF UserSets(o, s) THEN [objs[o] EXCEPT !.setting = s] ELSE Unmarked(s)
           p == IF UserSets(o, s) /\ objs[o].owner # NoOwner
                THEN [past[o] EXCEPT !.chosen = s] ELSE Fresh(s)
<1>1. s \in Settings /\ objs[o] \in Object /\ past[o] \in Past
  BY ObjectAssumption DEF IInv, TypeOK
<1>2. obj \in Object /\ p \in Past
  BY <1>1 DEF Object, Past, Unmarked, Fresh
<1>3. Store(o, obj, work) /\ past' = [past EXCEPT ![o] = p]
  <2>1. CASE UserSets(o, s)
    BY <2>1 DEF UserSets, IInv, TypeOK
  <2>2. CASE ~UserSets(o, s)
    BY <2>2 DEF UserReleases
  <2> QED
    BY <2>1, <2>2
<1>4. Kept(obj, p)
  BY <1>1 DEF Kept, Object, Unmarked, Fresh, IInv, HistoryIsKept
<1>5. Own(o, obj, p)
  BY <1>1 DEF Own, Object, Past, Unmarked, IInv, MarksAreOwn
<1>6. PausedIfMarked(obj, p)
  BY <1>1, NoneAssumption DEF PausedIfMarked, Object, Past, Unmarked
<1>7. /\ now' = now /\ alive' = alive /\ faults' = faults
      /\ edits' \in 0..MaxEdits
  <2>1. Edit /\ now' = now /\ alive' = alive /\ faults' = faults
    BY DEF UserSets, UserReleases
  <2> QED
    BY <2>1, BoundAssumption DEF Edit, IInv, TypeOK
<1> HIDE DEF obj, p
<1>8. work \in [Controllers -> Pass \cup {Idle}] /\ TypeOK /\ CopiesAreVersions
  BY DEF IInv, TypeOK
<1>9. /\ objs' = [objs EXCEPT ![o] = obj] /\ objs' \in [Objects -> Object]
      /\ work' \in [Controllers -> Pass \cup {Idle}] /\ CopiesAreVersions'
  BY <1>2, <1>3, <1>8, StoreCopies
<1>10. /\ past' \in [Objects -> Past]
       /\ HistoryIsKept' /\ MarksAreOwn' /\ PausedWhileMarked'
  BY <1>2, <1>3, <1>4, <1>5, <1>6, <1>9, SoundWrite
<1>11. TypeOK'
  BY <1>7, <1>8, <1>9, <1>10 DEF TypeOK
<1> QED
  BY <1>9, <1>10, <1>11 DEF IInv

(* The copy a controller writes back is the stored object.                 *)
LEMMA WrittenCopy ==
  ASSUME IInv, NEW k \in Controllers, NEW o \in Objects,
         Looking(k, o), work[k].todo[o].current
  PROVE  /\ work[k] \in Pass /\ work[k].policy \in Policies
         /\ o \in work[k].policy.targets
         /\ work[k].todo[o].obj = objs[o] /\ objs[o] \in Object /\ past[o] \in Past
         /\ Looked(k, o) \in [Controllers -> Pass \cup {Idle}]
         /\ \A l \in Controllers : Looked(k, o)[l].pc = "loop" =>
              /\ work[l].pc = "loop" /\ Looked(k, o)[l].policy = work[l].policy
              /\ DOMAIN Looked(k, o)[l].todo \subseteq DOMAIN work[l].todo
              /\ \A d \in DOMAIN Looked(k, o)[l].todo :
                   Looked(k, o)[l].todo[d] = work[l].todo[d]
<1>1. TypeOK
  BY DEF IInv
<1>2. work[k] \in Pass
  BY <1>1 DEF TypeOK, Looking, Idle
<1>3. work[k].policy \in Policies
  BY <1>2 DEF Pass
<1>4. o \in work[k].policy.targets /\ work[k].todo[o].obj = objs[o]
  BY DEF IInv, CopiesAreVersions
<1>5. objs[o] \in Object /\ past[o] \in Past
  BY <1>1 DEF TypeOK
<1>6. Looked(k, o) \in [Controllers -> Pass \cup {Idle}]
  BY <1>1, DroppedCopies
<1>7. ASSUME NEW l \in Controllers, Looked(k, o)[l].pc = "loop"
      PROVE  /\ work[l].pc = "loop" /\ Looked(k, o)[l].policy = work[l].policy
             /\ DOMAIN Looked(k, o)[l].todo \subseteq DOMAIN work[l].todo
             /\ \A d \in DOMAIN Looked(k, o)[l].todo :
                  Looked(k, o)[l].todo[d] = work[l].todo[d]
  <2>1. CASE l = k
    BY <1>1, <2>1, DroppedCopies DEF Looking
  <2>2. CASE l # k
    <3>1. Looked(k, o)[l] = work[l]
      BY <1>1, <2>2, DroppedCopies
    <3> QED
      BY <1>7, <3>1
  <2> QED
    BY <2>1, <2>2
<1> QED
  BY <1>2, <1>3, <1>4, <1>5, <1>6, <1>7

(* A controller that pauses an object of its own finds it unmarked, and    *)
(* records the setting it has.                                             *)
LEMMA PauseWrite ==
  ASSUME IInv, NEW k \in Controllers, NEW o \in Objects, Pause(k, o)
  PROVE  IInv' /\ RestoreStep
<1> DEFINE w == work[k]
           obj == PausedBy(w.policy, objs[o])
           p == [past[o] EXCEPT !.chosen = NoSetting]
<1>1. Looking(k, o) /\ w.todo[o].current
  BY DEF Pause, Pauses
<1>2. /\ w \in Pass /\ w.policy \in Policies /\ o \in w.policy.targets
      /\ w.todo[o].obj = objs[o] /\ objs[o] \in Object /\ past[o] \in Past
  BY <1>1, WrittenCopy
<1>3. objs[o].owner # w.policy.name
  BY <1>2 DEF Pause, Pauses, ManagedByUs
<1>4. w.policy.name \in Names /\ w.policy.name # NoOwner
  BY <1>2, NoneAssumption DEF Names
<1>5. Paused \in Settings
  BY ObjectAssumption
<1>6. obj \in Object /\ p \in Past
  BY <1>2, <1>4, <1>5 DEF PausedBy, Object, Past
<1>7. Store(o, obj, Looked(k, o)) /\ past' = [past EXCEPT ![o] = p]
  BY <1>2 DEF Pause
<1>8. Kept(obj, p) /\ PausedIfMarked(obj, p)
  BY <1>2, <1>4 DEF Kept, PausedIfMarked, PausedBy, Object
<1>9. Own(o, obj, p)
  <2>1. SUFFICES ASSUME Exclusive(o)
                 PROVE  obj.original = p.before
                        /\ \A q \in Policies : o \in q.targets => obj.owner = q.name
    BY DEF Own
  <2>2. \A q \in Policies : o \in q.targets => q = w.policy
    BY <1>2, <2>1 DEF Exclusive
  <2>3. objs[o].owner = NoOwner
    BY <1>2, <1>3, <2>1 DEF IInv, MarksAreOwn
  <2>4. past[o] = Fresh(objs[o].setting)
    BY <2>3 DEF IInv, HistoryIsKept
  <2>5. p.before = objs[o].setting
    BY <1>2, <2>4 DEF Fresh, Past
  <2> QED
    BY <2>2, <2>5 DEF PausedBy
<1>10. obj.owner # NoOwner
  BY <1>4 DEF PausedBy
<1> HIDE DEF obj, p
<1>11. TypeOK /\ CopiesAreVersions
  BY DEF IInv
<1>12. /\ objs' = [objs EXCEPT ![o] = obj] /\ objs' \in [Objects -> Object]
       /\ work' \in [Controllers -> Pass \cup {Idle}] /\ CopiesAreVersions'
  BY <1>1, <1>6, <1>7, <1>11, WrittenCopy, StoreCopies
<1>13. /\ past' \in [Objects -> Past]
       /\ HistoryIsKept' /\ MarksAreOwn' /\ PausedWhileMarked'
  BY <1>6, <1>7, <1>8, <1>9, <1>12, SoundWrite
<1>14. TypeOK'
  BY <1>11, <1>12, <1>13 DEF Pause, TypeOK
<1>15. RestoreStep
  BY <1>10, <1>11, <1>12 DEF RestoreStep, LetsGo, TypeOK
<1> QED
  BY <1>12, <1>13, <1>14, <1>15 DEF IInv

(* A controller that restores an object of its own gives it back what the  *)
(* marks hold; one that was paused before them, and left alone, still is.  *)
LEMMA RestoreWrite ==
  ASSUME IInv, NEW k \in Controllers, NEW o \in Objects, Restore(k, o)
  PROVE  IInv' /\ RestoreStep
<1> DEFINE w == work[k]
           obj == Restored(o, objs[o])
           p == Fresh(obj.setting)
<1>1. Looking(k, o) /\ w.todo[o].current
  BY DEF Restore, Restores
<1>2. /\ w \in Pass /\ w.policy \in Policies /\ o \in w.policy.targets
      /\ w.todo[o].obj = objs[o] /\ objs[o] \in Object /\ past[o] \in Past
  BY <1>1, WrittenCopy
<1>3. objs[o].owner = w.policy.name
  BY <1>2 DEF Restore, Restores, ManagedByUs
<1>4. objs[o].owner # NoOwner
  BY <1>2, <1>3, NoneAssumption DEF Names
<1>5. objs[o].original \in Settings
  BY <1>4 DEF IInv, HistoryIsKept
<1>6. /\ obj.setting = IF EngineOf[o] = "Application" /\ objs[o].original = Paused
                       THEN objs[o].setting ELSE objs[o].original
      /\ obj.owner = NoOwner /\ obj \in Object
  BY <1>2, <1>5 DEF Restored, Unmarked, Object
<1>7. p \in Past
  BY <1>6 DEF Fresh, Past, Object
<1>8. Store(o, obj, Looked(k, o)) /\ past' = [past EXCEPT ![o] = p]
  BY <1>2 DEF Restore
<1>9. Kept(obj, p) /\ PausedIfMarked(obj, p) /\ Own(o, obj, p)
  BY <1>6 DEF Kept, PausedIfMarked, Own
<1>10. Exclusive(o) /\ past[o].chosen = NoSetting => obj.setting = past[o].before
  <2>1. Exclusive(o) => objs[o].original = past[o].before
    BY <1>4 DEF IInv, MarksAreOwn
  <2>2. past[o].chosen = NoSetting => objs[o].setting = Paused
    BY <1>4 DEF IInv, PausedWhileMarked
  <2> QED
    BY <1>6, <2>1, <2>2
<1> HIDE DEF obj, p
<1>11. TypeOK /\ CopiesAreVersions
  BY DEF IInv
<1>12. /\ objs' = [objs EXCEPT ![o] = obj] /\ objs' \in [Objects -> Object]
       /\ work' \in [Controllers -> Pass \cup {Idle}] /\ CopiesAreVersions'
  BY <1>1, <1>6, <1>8, <1>11, WrittenCopy, StoreCopies
<1>13. /\ past' \in [Objects -> Past]
       /\ HistoryIsKept' /\ MarksAreOwn' /\ PausedWhileMarked'
  BY <1>6, <1>7, <1>8, <1>9, <1>12, SoundWrite
<1>14. TypeOK'
  BY <1>11, <1>12, <1>13 DEF Restore, TypeOK
<1>15. RestoreStep
  BY <1>10, <1>11, <1>12 DEF RestoreStep, LetsGo, TypeOK
<1> QED
  BY <1>12, <1>13, <1>14, <1>15 DEF IInv

-----------------------------------------------------------------------------
(* The other steps write no object; it remains to see that the passes stay *)
(* sound.                                                                  *)
LEMMA NoWrite ==
  ASSUME IInv, TypeOK', CopiesAreVersions', UNCHANGED <<objs, past>>
  PROVE  IInv' /\ RestoreStep
<1>1. HistoryIsKept' /\ MarksAreOwn' /\ PausedWhileMarked'
  BY DEF IInv, HistoryIsKept, MarksAreOwn, Exclusive, PausedWhileMarked
<1>2. RestoreStep
  BY DEF RestoreStep, LetsGo
<1> QED
  BY <1>1, <1>2 DEF IInv

(* A pass that begins anew, or goes on to its next list, holds no copies.  *)
LEMMA PassWithoutCopies ==
  ASSUME IInv, NEW k \in Controllers, NEW STATE w, w \in Pass \cup {Idle}, w.pc # "loop",
         work' = [work EXCEPT ![k] = w], faults' \in 0..MaxFaults,
         UNCHANGED <<now, alive, objs, past, edits>>
  PROVE  IInv' /\ RestoreStep
<1>1. TypeOK'
  BY DEF IInv, TypeOK
<1>2. \A l \in Controllers : work'[l] = IF l = k THEN w ELSE work[l]
  BY DEF IInv, TypeOK
<1>3. CopiesAreVersions'
  BY <1>2 DEF IInv, CopiesAreVersions, Looking
<1> QED
  BY <1>1, <1>3, NoWrite

(* Dropping a copy without a write.                                        *)
LEMMA DropStep ==
  ASSUME IInv, NEW k \in Controllers, NEW o \in Objects, Looking(k, o),
         work' = Looked(k, o), faults' \in 0..MaxFaults,
         UNCHANGED <<now, alive, objs, past, edits>>
  PROVE  IInv' /\ RestoreStep
<1>1. TypeOK
  BY DEF IInv
<1>2. TypeOK'
  BY <1>1, DroppedCopies DEF TypeOK
<1>3. ASSUME NEW l \in Controllers, NEW d \in Objects, Looking(l, d)'
      PROVE  /\ d \in work'[l].policy.targets
             /\ work'[l].todo[d].current => work'[l].todo[d].obj = objs'[d]
  <2>1. Looking(l, d) /\ work'[l].policy = work[l].policy
        /\ work'[l].todo[d] = work[l].todo[d]
    <3>1. CASE l = k
      BY <1>1, <1>3, <3>1, DroppedCopies DEF Looking
    <3>2. CASE l # k
      <4>1. work'[l] = work[l]
        BY <1>1, <3>2, DroppedCopies
      <4> QED
        BY <1>3, <4>1 DEF Looking
    <3> QED
      BY <3>1, <3>2
  <2> QED
    BY <2>1 DEF IInv, CopiesAreVersions
<1>4. CopiesAreVersions'
  BY <1>3 DEF CopiesAreVersions
<1> QED
  BY <1>2, <1>4, NoWrite

(* A list takes copies of the stored objects.                              *)
LEMMA ListStep ==
  ASSUME IInv, NEW k \in Controllers, List(k)
  PROVE  IInv' /\ RestoreStep
<1> DEFINE todo == [o \in Targets(work[k]) |-> [obj |-> objs[o], current |-> TRUE]]
<1>1. TypeOK
  BY DEF IInv
<1>2. work[k] \in Pass
  BY <1>1 DEF List, TypeOK, Idle
<1>3. work[k].policy.targets \subseteq Objects
  BY <1>2, PolicyAssumption DEF Pass
<1>4. Targets(work[k]) \in SUBSET Objects /\ Targets(work[k]) \subseteq work[k].policy.targets
  BY <1>3 DEF Targets
<1>5. todo \in [Targets(work[k]) -> Copy]
  BY <1>1, <1>4 DEF TypeOK, Copy
<1>6. todo \in Copies
  BY <1>4, <1>5 DEF Copies
<1>7. DOMAIN todo = Targets(work[k])
      /\ \A o \in DOMAIN todo : todo[o].obj = objs[o]
  OBVIOUS
<1>8. work' = [work EXCEPT ![k] = [@ EXCEPT !.pc = "loop", !.todo = todo]]
  BY DEF List
<1> HIDE DEF todo
<1> DEFINE w == [work[k] EXCEPT !.pc = "loop", !.todo = todo]
<1>9. w \in Pass /\ w.policy = work[k].policy /\ w.todo = todo
  BY <1>2, <1>6 DEF Pass, Copies
<1>10. \A l \in Controllers : work'[l] = IF l = k THEN w ELSE work[l]
  BY <1>1, <1>8 DEF TypeOK
<1>11. work' \in [Controllers -> Pass \cup {Idle}]
  BY <1>1, <1>8, <1>9 DEF TypeOK
<1>12. TypeOK'
  BY <1>1, <1>11 DEF List, TypeOK
<1> HIDE DEF w
<1>13. objs' = objs /\ past' = past
  BY DEF List
<1>14. CopiesAreVersions'
  BY <1>4, <1>7, <1>9, <1>10, <1>13 DEF IInv, CopiesAreVersions, Looking
<1> QED
  BY <1>12, <1>13, <1>14, NoWrite

(* Where a pass goes after a kind of objects.                              *)
LEMMA NextStageType ==
  ASSUME NEW w \in Pass
  PROVE  NextStage(w) \in Pass \cup {Idle} /\ NextStage(w).pc # "loop"
<1>1. CASE w.stage = Len(Engines)
  BY <1>1 DEF NextStage, Idle
<1>2. CASE w.stage # Len(Engines)
  <2>1. Len(Engines) = 3
    BY DEF Engines
  <2>2. w.stage + 1 \in 1..Len(Engines)
    BY <1>2, <2>1 DEF Pass
  <2>3. NextStage(w) = [w EXCEPT !.pc = "list", !.stage = w.stage + 1, !.todo = <<>>]
    BY <1>2 DEF NextStage
  <2> QED
    BY <2>2, <2>3, NoCopies DEF Pass, Copies
<1> QED
  BY <1>1, <1>2

(* Every step keeps the invariant and restores what it should. *)
LEMMA InductiveStep == IInv /\ [Next]_vars => IInv' /\ RestoreStep
<1> SUFFICES ASSUME IInv, [Next]_vars PROVE IInv' /\ RestoreStep
  OBVIOUS
<1>1. TypeOK /\ CopiesAreVersions
  BY DEF IInv
<1>2. CASE Tick
  <2>1. TypeOK'
    BY <1>1, <1>2, BoundAssumption DEF Tick, TypeOK, Time
  <2> QED
    BY <1>1, <1>2, <2>1, NoWrite DEF Tick, CopiesAreVersions, Looking
<1>3. CASE Restart
  <2>1. TypeOK'
    BY <1>1, <1>3, BoundAssumption DEF Restart, TypeOK
  <2>2. CopiesAreVersions'
    BY <1>3 DEF Restart, CopiesAreVersions, Looking, Idle
  <2> QED
    BY <1>3, <2>1, <2>2, NoWrite DEF Restart
<1>4. ASSUME NEW p \in Policies, Withdraw(p) PROVE IInv' /\ RestoreStep
  <2>1. TypeOK'
    BY <1>1, <1>4, BoundAssumption DEF Withdraw, Edit, TypeOK
  <2> QED
    BY <1>1, <1>4, <2>1, NoWrite DEF Withdraw, CopiesAreVersions, Looking
<1>5. ASSUME NEW o \in Objects, NEW s \in SettingsOf[o], UserSets(o, s) \/ UserReleases(o, s)
      PROVE  IInv' /\ RestoreStep
  <2>1. edits' # edits
    BY <1>1, <1>5 DEF UserSets, UserReleases, Edit, TypeOK
  <2> QED
    BY <1>5, <2>1, UserWrite DEF RestoreStep, LetsGo
<1>6. ASSUME NEW k \in Controllers, NEW p \in Policies, Begin(k, p) PROVE IInv' /\ RestoreStep
  <2> DEFINE w == [pc |-> "list", policy |-> p, active |-> Wants(p), stage |-> 1, todo |-> <<>>]
  <2>1. w \in Pass
    <3>1. 1 \in 1..Len(Engines)
      BY DEF Engines
    <3> QED
      BY <3>1, NoCopies DEF Pass, Copies, Wants
  <2>2. w.pc # "loop" /\ work' = [work EXCEPT ![k] = w] /\ faults' \in 0..MaxFaults
        /\ UNCHANGED <<now, alive, objs, past, edits>>
    BY <1>1, <1>6 DEF Begin, TypeOK
  <2> HIDE DEF w
  <2> QED
    BY <2>1, <2>2, PassWithoutCopies
<1>7. ASSUME NEW k \in Controllers, List(k) PROVE IInv' /\ RestoreStep
  BY <1>7, ListStep
<1>8. ASSUME NEW k \in Controllers, ListFails(k) \/ EndStage(k) PROVE IInv' /\ RestoreStep
  <2>1. work[k] \in Pass
    BY <1>1, <1>8 DEF ListFails, EndStage, TypeOK, Idle
  <2>2. faults' \in 0..MaxFaults
    BY <1>1, <1>8, BoundAssumption DEF ListFails, EndStage, TypeOK
  <2>3. Idle \in Pass \cup {Idle} /\ Idle.pc # "loop"
    BY DEF Idle
  <2>4. \E w \in Pass \cup {Idle} : w.pc # "loop" /\ work' = [work EXCEPT ![k] = w]
    BY <1>8, <2>1, <2>3, NextStageType DEF ListFails, EndStage
  <2>5. UNCHANGED <<now, alive, objs, past, edits>>
    BY <1>8 DEF ListFails, EndStage
  <2> QED
    BY <2>2, <2>4, <2>5, PassWithoutCopies
<1>9. ASSUME NEW k \in Controllers, NEW o \in Objects,
             LeaveAlone(k, o) \/ Conflict(k, o) \/ UpdateFails(k, o)
      PROVE  IInv' /\ RestoreStep
  <2>1. Looking(k, o) /\ work' = Looked(k, o) /\ UNCHANGED <<now, alive, objs, past, edits>>
    BY <1>9 DEF LeaveAlone, Conflict, UpdateFails, Pauses, Restores
  <2>2. faults' \in 0..MaxFaults
    BY <1>1, <1>9, BoundAssumption DEF LeaveAlone, Conflict, UpdateFails, TypeOK
  <2> QED
    BY <2>1, <2>2, DropStep
<1>10. ASSUME NEW k \in Controllers, NEW o \in Objects, Pause(k, o) \/ Restore(k, o)
       PROVE  IInv' /\ RestoreStep
  BY <1>10, PauseWrite, RestoreWrite
<1>11. CASE UNCHANGED vars
  <2>1. TypeOK' /\ CopiesAreVersions'
    BY <1>1, <1>11 DEF vars, TypeOK, CopiesAreVersions, Looking
  <2> QED
    BY <1>11, <2>1, NoWrite DEF vars
<1> QED
  BY <1>2, <1>3, <1>4, <1>5, <1>6, <1>7, <1>8, <1>9, <1>10, <1>11 DEF Next, Loop

-----------------------------------------------------------------------------
(* The invariant holds in every reachable state. *)
LEMMA Invariance == Spec => []IInv
BY InitInvariant, InductiveStep, PTL DEF Spec

(* The variables stay in their types.                                      *)
THEOREM TypeCorrect == Spec => []TypeOK
<1>1. IInv => TypeOK
  BY DEF IInv
<1> QED
  BY <1>1, Invariance, PTL

(* A marked object that no user has touched since is paused, whatever      *)
(* passes overlap or break off.                                            *)
THEOREM Marked_Pause == Spec => []PausedWhileMarked
<1>1. IInv => PausedWhileMarked
  BY DEF IInv
<1> QED
  BY <1>1, Invariance, PTL

(* An object that one policy selects, and nobody set meanwhile, comes back *)
(* as it was before the marks.                                             *)
THEOREM Settings_Return == Spec => SettingsComeBack
<1>1. IInv /\ [Next]_vars => [RestoreStep]_vars
  BY InductiveStep
<1> QED
  BY <1>1, Invariance, PTL DEF Spec, SettingsComeBack
=============================================================================
