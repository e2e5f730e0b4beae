------------------------ MODULE WorkspaceLockProofs ------------------------
(***************************************************************************)
(* WorkspaceLock for every set of processes and every number of tasks.     *)
(***************************************************************************)
EXTENDS WorkspaceLock, TLAPS

(* While no lock in use has been removed, the file that has the name is    *)
(* the one of the process that uses the lock: the second user a violation  *)
(* of OneWriter needs has no file of its own.                              *)
UserOwnsLock ==
  \A p \in Proc : life[p] = "up" /\ pc[p] \in Using => lock.there /\ lock.by = p

(* A process that is not up runs nothing, and no file names one that has   *)
(* not been up yet.                                                        *)
OnlyTheLivingWork ==
  /\ \A p \in Proc : life[p] # "up" => pc[p] = "idle"
  /\ lock.there => life[lock.by] # "unborn"

Sound == TypeOK /\ OnlyTheLivingWork
OwnershipInv == Sound /\ (stolen \/ UserOwnsLock)

USE LockAssumption

LEMMA InitTypeOK == Init => TypeOK
<1> SUFFICES ASSUME Init PROVE TypeOK OBVIOUS
<1>1. lock \in Locks BY DEF Init, Locks
<1>2. begun \in 0 .. MaxTasks BY DEF Init, LockAssumption
<1> QED BY <1>1, <1>2 DEF Init, TypeOK, Using

(* Every step of one process keeps the types.                              *)
LEMMA StepTypeOK ==
  ASSUME TypeOK, NEW p \in Proc,
         \/ Work(p) \/ Start(p) \/ Die(p) \/ Enqueue(p) \/ SignFails(p) \/ UnlockFails(p)
  PROVE  TypeOK'
<1> USE DEF TypeOK, Using, At, Goto
<1>1. CASE Start(p)       BY <1>1 DEF Start
<1>2. CASE Die(p)         BY <1>2 DEF Die
<1>3. CASE Enqueue(p)     BY <1>3 DEF Enqueue
<1>4. CASE NextTask(p)    BY <1>4 DEF NextTask
<1>5. CASE Create(p)      BY <1>5 DEF Create, Locks
<1>6. CASE FindLock(p) \/ RefuseTask(p) \/ JudgeDead(p) \/ Finish(p)
  BY <1>6 DEF FindLock, RefuseTask, JudgeDead, Finish
<1>7. CASE RemoveDead(p)  BY <1>7 DEF RemoveDead, RemoveFile, Locks, NoLock
<1>8. CASE Sign(p)        BY <1>8 DEF Sign, Locks, NoLock
<1>9. CASE Unlock(p)      BY <1>9 DEF Unlock, RemoveFile, Locks, NoLock
<1>10. CASE SignFails(p) \/ UnlockFails(p)
  BY <1>10 DEF SignFails, UnlockFails
<1> QED BY <1>1, <1>2, <1>3, <1>4, <1>5, <1>6, <1>7, <1>8, <1>9, <1>10 DEF Work

LEMMA NextTypeOK == TypeOK /\ [Next]_vars => TypeOK'
<1> SUFFICES ASSUME TypeOK, [Next]_vars PROVE TypeOK' OBVIOUS
<1>1. CASE Next BY <1>1, StepTypeOK DEF Next
<1>2. CASE UNCHANGED vars BY <1>2 DEF vars, TypeOK
<1> QED BY <1>1, <1>2

(* The lock's state keeps its type in every reachable state.               *)
THEOREM TypeCorrect == Spec => []TypeOK
  BY InitTypeOK, NextTypeOK, PTL DEF Spec

LEMMA InitSound == Init => Sound
  BY InitTypeOK DEF Init, Sound, OnlyTheLivingWork, NoLock

LEMMA StepSound ==
  ASSUME Sound, NEW p \in Proc,
         \/ Work(p) \/ Start(p) \/ Die(p) \/ Enqueue(p) \/ SignFails(p) \/ UnlockFails(p)
  PROVE  OnlyTheLivingWork'
<1> USE DEF Sound, TypeOK, OnlyTheLivingWork, At, Goto, Locks, NoLock
<1>1. CASE Start(p)       BY <1>1 DEF Start
<1>2. CASE Die(p)         BY <1>2 DEF Die
<1>3. CASE Enqueue(p) \/ NextTask(p) BY <1>3 DEF Enqueue, NextTask
<1>4. CASE Create(p)      BY <1>4 DEF Create
<1>5. CASE FindLock(p) \/ RefuseTask(p) \/ JudgeDead(p) \/ Finish(p)
  BY <1>5 DEF FindLock, RefuseTask, JudgeDead, Finish
<1>6. CASE RemoveDead(p) \/ Unlock(p)  BY <1>6 DEF RemoveDead, Unlock, RemoveFile
<1>7. CASE Sign(p)        BY <1>7 DEF Sign
<1>8. CASE SignFails(p) \/ UnlockFails(p)
  BY <1>8 DEF SignFails, UnlockFails
<1> QED BY <1>1, <1>2, <1>3, <1>4, <1>5, <1>6, <1>7, <1>8 DEF Work

LEMMA NextSound == Sound /\ [Next]_vars => Sound'
<1> SUFFICES ASSUME Sound, [Next]_vars PROVE Sound' OBVIOUS
<1>1. TypeOK' BY NextTypeOK DEF Sound
<1>2. OnlyTheLivingWork'
  <2>1. CASE Next BY <2>1, StepSound DEF Next
  <2>2. CASE UNCHANGED vars BY <2>2 DEF vars, Sound, OnlyTheLivingWork
  <2> QED BY <2>1, <2>2
<1> QED BY <1>1, <1>2 DEF Sound

(* A step of one process keeps the lock with its user: a lock is created   *)
(* only where none is, and who removes one in use sets stolen.             *)
LEMMA StepOwnership ==
  ASSUME Sound, stolen \/ UserOwnsLock, NEW p \in Proc,
         \/ Work(p) \/ Start(p) \/ Die(p) \/ Enqueue(p) \/ SignFails(p) \/ UnlockFails(p)
  PROVE  (stolen \/ UserOwnsLock)'
<1> USE DEF Sound, OnlyTheLivingWork, TypeOK, UserOwnsLock, Using, At, Goto, Locks, NoLock
<1>1. CASE Start(p)       BY <1>1 DEF Start
<1>2. CASE Die(p)         BY <1>2 DEF Die
<1>3. CASE Enqueue(p)     BY <1>3 DEF Enqueue
<1>4. CASE NextTask(p)    BY <1>4 DEF NextTask
<1>5. CASE Create(p)      BY <1>5 DEF Create
<1>6. CASE FindLock(p) \/ RefuseTask(p) \/ JudgeDead(p) \/ Finish(p)
  BY <1>6 DEF FindLock, RefuseTask, JudgeDead, Finish
<1>7. CASE RemoveDead(p)
  <2>1. /\ UNCHANGED life /\ p \notin {q \in Proc : pc[q] \in Using}
        /\ \A q \in Proc : pc'[q] \in Using => pc[q] \in Using /\ q # p
    BY <1>7 DEF RemoveDead
  <2>2. stolen' = (stolen \/ (lock.there /\ lock.by # p /\ life[lock.by] = "up" /\ pc[lock.by] \in Using))
    BY <1>7 DEF RemoveDead, RemoveFile
  <2>3. CASE stolen BY <2>2, <2>3
  <2>4. CASE ~ stolen BY <2>1, <2>2, <2>4
  <2> QED BY <2>3, <2>4
<1>8. CASE Sign(p)        BY <1>8 DEF Sign, Locks, NoLock
<1>9. CASE Unlock(p)      BY <1>9 DEF Unlock, RemoveFile, NoLock
<1>10. CASE SignFails(p) \/ UnlockFails(p)
  BY <1>10 DEF SignFails, UnlockFails
<1> QED BY <1>1, <1>2, <1>3, <1>4, <1>5, <1>6, <1>7, <1>8, <1>9, <1>10 DEF Work

LEMMA NextOwnership == OwnershipInv /\ [Next]_vars => OwnershipInv'
<1> SUFFICES ASSUME OwnershipInv, [Next]_vars PROVE OwnershipInv' OBVIOUS
<1>1. Sound' BY NextSound DEF OwnershipInv
<1>2. (stolen \/ UserOwnsLock)'
  <2>1. CASE Next BY <2>1, StepOwnership DEF Next, OwnershipInv
  <2>2. CASE UNCHANGED vars BY <2>2 DEF vars, OwnershipInv, UserOwnsLock
  <2> QED BY <2>1, <2>2
<1> QED BY <1>1, <1>2 DEF OwnershipInv

(* Two processes write one workspace together only after a lock in use has *)
(* been removed.                                                           *)
THEOREM WritersExcluded == Spec => []OneWriterUnlessStolen
<1>1. Init => OwnershipInv
  BY InitSound DEF Init, OwnershipInv, UserOwnsLock, Using
<1>2. OwnershipInv => OneWriterUnlessStolen
  BY DEF OwnershipInv, OneWriterUnlessStolen, OneWriter, Writing, UserOwnsLock, At, Using
<1> QED BY <1>1, <1>2, NextOwnership, PTL DEF Spec

(* A step keeps the pid of a live process out of a lock nobody uses.       *)
LEMMA StepSigned ==
  ASSUME Sound, SignedMeansUsed, NEW p \in Proc,
         \/ Work(p) \/ Start(p) \/ Die(p) \/ Enqueue(p) \/ SignFails(p) \/ UnlockFails(p)
  PROVE  SignedMeansUsed'
<1> USE DEF Sound, OnlyTheLivingWork, TypeOK, SignedMeansUsed, OwnerAlive, At, Goto, Locks, NoLock
<1>1. CASE Start(p)       BY <1>1 DEF Start
<1>2. CASE Die(p)         BY <1>2 DEF Die
<1>3. CASE Enqueue(p)     BY <1>3 DEF Enqueue
<1>4. CASE NextTask(p)    BY <1>4 DEF NextTask
<1>5. CASE Create(p)      BY <1>5 DEF Create
<1>6. CASE FindLock(p) \/ RefuseTask(p) \/ JudgeDead(p)
  <2>1. /\ UNCHANGED <<life, lock, leaky>> /\ pc[p] \notin {"task", "unlock"}
        /\ \A q \in Proc : q # p => pc'[q] = pc[q]
    BY <1>6 DEF FindLock, RefuseTask, JudgeDead
  <2> SUFFICES ASSUME OwnerAlive' PROVE (pc[lock.by] \in {"task", "unlock"} \/ lock.by \in leaky)'
    OBVIOUS
  <2>2. OwnerAlive /\ lock.by \in Proc
    <3>1. lock.there /\ lock.signed /\ life[lock.by] = "up" BY <2>1
    <3>2. lock # NoLock BY <3>1
    <3>3. lock \in [there : {TRUE}, by : Proc, signed : BOOLEAN] BY <3>2
    <3> QED BY <3>1, <3>3
  <2>3. pc[lock.by] \in {"task", "unlock"} \/ lock.by \in leaky BY <2>2 DEF SignedMeansUsed
  <2>4. lock.by # p => pc'[lock.by] = pc[lock.by] BY <2>1, <2>2
  <2> QED BY <2>1, <2>3, <2>4
<1>11. CASE Finish(p) BY <1>11 DEF Finish
<1>7. CASE RemoveDead(p)  BY <1>7 DEF RemoveDead, RemoveFile
<1>8. CASE Sign(p)        BY <1>8 DEF Sign
<1>9. CASE Unlock(p)      BY <1>9 DEF Unlock, RemoveFile
<1>10. CASE SignFails(p)
  <2>1. /\ UNCHANGED <<life, lock, leaky>> /\ pc[p] \notin {"task", "unlock"}
        /\ \A q \in Proc : q # p => pc'[q] = pc[q]
    BY <1>10 DEF SignFails
  <2> SUFFICES ASSUME OwnerAlive' PROVE (pc[lock.by] \in {"task", "unlock"} \/ lock.by \in leaky)'
    OBVIOUS
  <2>2. OwnerAlive /\ lock.by \in Proc
    <3>1. lock.there /\ lock.signed /\ life[lock.by] = "up" BY <2>1
    <3>2. lock # NoLock BY <3>1
    <3>3. lock \in [there : {TRUE}, by : Proc, signed : BOOLEAN] BY <3>2
    <3> QED BY <3>1, <3>3
  <2>3. pc[lock.by] \in {"task", "unlock"} \/ lock.by \in leaky BY <2>2 DEF SignedMeansUsed
  <2>4. lock.by # p => pc'[lock.by] = pc[lock.by] BY <2>1, <2>2
  <2> QED BY <2>1, <2>3, <2>4
<1>12. CASE UnlockFails(p) BY <1>12 DEF UnlockFails
<1> QED BY <1>1, <1>2, <1>3, <1>4, <1>5, <1>6, <1>7, <1>8, <1>9, <1>10, <1>11, <1>12 DEF Work

(* Nobody is refused for a lock its owner has finished with, unless that   *)
(* owner could not remove it.                                              *)
THEOREM RefusedForAReason == Spec => []SignedMeansUsed
<1>1. Init => SignedMeansUsed
  BY DEF Init, SignedMeansUsed, OwnerAlive, NoLock
<1>2. Sound /\ SignedMeansUsed /\ [Next]_vars => SignedMeansUsed'
  <2> SUFFICES ASSUME Sound, SignedMeansUsed, [Next]_vars PROVE SignedMeansUsed' OBVIOUS
  <2>1. CASE Next BY <2>1, StepSigned DEF Next
  <2>2. CASE UNCHANGED vars BY <2>2 DEF vars, SignedMeansUsed, OwnerAlive
  <2> QED BY <2>1, <2>2
<1> QED BY <1>1, <1>2, InitSound, NextSound, PTL DEF Spec
============================================================================
