--------------------------- MODULE UpdateBarrier ---------------------------
(***************************************************************************)
(* src/server/update-write-barrier.mjs: every process of one user's data   *)
(* root (the HTTP server, the detached media workers) brackets its writes  *)
(* with a marker file mutations/<pid>-<uuid>.lock; an update excludes all  *)
(* of them through one update.lock.  The processes share nothing but these *)
(* files, and a file whose owner pid is dead may be removed by anybody.    *)
(*                                                                         *)
(* A JavaScript process runs a synchronous function to its end before any  *)
(* other of its functions, so pc[p] names the synchronous function p is    *)
(* inside ("ready": none); the steps of different processes interleave at  *)
(* every file operation.  upd[p] is where p's withExclusiveUpdate awaits.  *)
(*                                                                         *)
(* External: the file system (atomic "wx" creation, rm of a path), process *)
(* liveness by pid.  A pid is never reused: a restarted program is another *)
(* member of Proc.                                                         *)
(***************************************************************************)
EXTENDS Naturals, FiniteSets

CONSTANTS Proc,          \* processes (pids) of this data root
          MaxMutations   \* bound: mutations one process begins in its life

ASSUME MaxMutationsAssumption == MaxMutations \in Nat

VARIABLES
  life,             \* "unborn", "up" or "dead"
  pc,               \* the synchronous function a process is inside
  doomed,           \* its removeIfStale has judged update.lock stale and will rm it
  frozen,           \* let frozen
  activeMutations,  \* let activeMutations
  live,             \* mutations whose release closure has not run
  begun,            \* how many markers the process has created (uuids)
  upd,              \* phase of its withExclusiveUpdate
  held,             \* retainedUpdateLock # ""
  lock,             \* update.lock: absent, or its creator and whether the pid is written
  markers,          \* the files of mutations/
  bare,             \* those whose pid is not written yet
  todo, seen,       \* an external scan: files left, a live one seen
  stolen            \* history: somebody removed the update.lock of a live process

procVars == <<life, pc, doomed>>
mutVars  == <<activeMutations, live, begun>>
updVars  == <<frozen, upd, held>>
scanVars == <<todo, seen>>
fileVars == <<lock, markers, bare>>
vars == <<procVars, mutVars, updVars, scanVars, fileVars, stolen>>

Marker == Proc \X (1 .. MaxMutations)
NoFile == [there |-> FALSE]
LockFile == [there : {TRUE}, by : Proc, signed : BOOLEAN]
StaleChecks == {"init", "begin", "recheck", "acquire"}

TypeOK ==
  /\ life \in [Proc -> {"unborn", "up", "dead"}]
  /\ pc \in [Proc -> StaleChecks \cup {"ready", "mark", "stamp", "open", "sign", "scan"}]
  /\ doomed \in [Proc -> BOOLEAN]
  /\ frozen \in [Proc -> BOOLEAN]
  /\ activeMutations \in [Proc -> Nat]
  /\ live \in [Proc -> SUBSET (1 .. MaxMutations)]
  /\ begun \in [Proc -> 0 .. MaxMutations]
  /\ upd \in [Proc -> {"idle", "drain", "external", "task", "retained"}]
  /\ held \in [Proc -> BOOLEAN]
  /\ lock \in LockFile \cup {NoFile}
  /\ markers \in SUBSET Marker
  /\ bare \in SUBSET Marker
  /\ todo \in [Proc -> SUBSET Marker]
  /\ seen \in [Proc -> BOOLEAN]
  /\ stolen \in BOOLEAN

Init ==
  /\ life = [p \in Proc |-> "unborn"]
  /\ pc = [p \in Proc |-> "ready"]
  /\ doomed = [p \in Proc |-> FALSE]
  /\ frozen = [p \in Proc |-> FALSE]
  /\ activeMutations = [p \in Proc |-> 0]
  /\ live = [p \in Proc |-> {}]
  /\ begun = [p \in Proc |-> 0]
  /\ upd = [p \in Proc |-> "idle"]
  /\ held = [p \in Proc |-> FALSE]
  /\ lock = NoFile
  /\ markers = {}
  /\ bare = {}
  /\ todo = [p \in Proc |-> {}]
  /\ seen = [p \in Proc |-> FALSE]
  /\ stolen = FALSE

----------------------------------------------------------------------------
(* removeIfStale: a file with a pid is stale when that process is dead.    *)
(* Without a pid only its age counts (2 hours), and a process that is      *)
(* inside the call that writes the pid is never that late.                 *)

MidWrite(by) == pc[by] \in {"stamp", "sign"}

DeadOwnerOrAged(by, hasPid, aged) ==
  \/ hasPid /\ life[by] = "dead"
  \/ ~ hasPid /\ aged /\ ~ MidWrite(by)

\* Mutant: the age fallback is applied to every file (the comment at line 31).
AgeAlone(by, hasPid, aged) == (hasPid /\ life[by] = "dead") \/ (aged /\ ~ MidWrite(by))

\* Mutant: a file is never stale.
NeverStale(by, hasPid, aged) == FALSE

IsStale(by, hasPid, aged) == DeadOwnerOrAged(by, hasPid, aged)

LockIsStale(aged) == lock.there /\ IsStale(lock.by, lock.signed, aged)
LockBlocks(aged)  == lock.there /\ ~ LockIsStale(aged)

Idle(p) == life[p] = "up" /\ pc[p] = "ready"
At(p, label) == life[p] = "up" /\ pc[p] = label /\ ~ doomed[p]
Goto(p, label) == pc' = [pc EXCEPT ![p] = label]

(* The check of update.lock at one of the four call sites: absent goes on, *)
(* a live one is refused, a stale one is about to be removed.              *)
Condemn(p) ==
  /\ \E aged \in BOOLEAN : LockIsStale(aged)
  /\ doomed' = [doomed EXCEPT ![p] = TRUE]
  /\ UNCHANGED <<life, pc, mutVars, updVars, scanVars, fileVars, stolen>>

JudgeLock(p) == \E site \in StaleChecks : At(p, site) /\ Condemn(p)

(* activeMutations += 1 and the release closure is handed out.             *)
Admit(p) ==
  /\ activeMutations' = [activeMutations EXCEPT ![p] = @ + 1]
  /\ live' = [live EXCEPT ![p] = @ \cup {begun[p]}]
  /\ Goto(p, "ready")
  /\ UNCHANGED begun

(* What follows a removeIfStale that returned true.                        *)
AfterStaleCheck(p) ==
  \/ pc[p] = "init"    /\ Goto(p, "ready") /\ UNCHANGED mutVars
  \/ pc[p] = "begin"   /\ Goto(p, "mark")  /\ UNCHANGED mutVars
  \/ pc[p] = "acquire" /\ Goto(p, "open")  /\ UNCHANGED mutVars
  \/ pc[p] = "recheck" /\ Admit(p)

(* rmSync(update.lock): whatever file has the name by now is removed.      *)
LockInUse == lock.there /\ life[lock.by] = "up" /\ (lock.signed \/ pc[lock.by] = "sign")

RemoveStaleLock(p) ==
  /\ life[p] = "up" /\ doomed[p]
  /\ doomed' = [doomed EXCEPT ![p] = FALSE]
  /\ lock' = NoFile
  /\ stolen' = (stolen \/ LockInUse)
  /\ AfterStaleCheck(p)
  /\ UNCHANGED <<life, updVars, scanVars, markers, bare>>

\* Mutant of FindNoLock: the second look at update.lock (line 71) is dropped.
AdmitWithoutRecheck(p) ==
  /\ life[p] = "up" /\ ~ doomed[p]
  /\ pc[p] = "recheck" \/ (pc[p] \in StaleChecks /\ ~ lock.there)
  /\ AfterStaleCheck(p)
  /\ UNCHANGED <<life, doomed, updVars, scanVars, fileVars, stolen>>

FindNoLock(p) ==
  /\ life[p] = "up" /\ pc[p] \in StaleChecks /\ ~ doomed[p] /\ ~ lock.there
  /\ AfterStaleCheck(p)
  /\ UNCHANGED <<life, doomed, updVars, scanVars, fileVars, stolen>>

----------------------------------------------------------------------------
(* createUpdateWriteBarrier, and the end of a process.  A crash loses what *)
(* the process kept in memory and leaves its files.                        *)

Start(p) ==
  /\ life[p] = "unborn"
  /\ life' = [life EXCEPT ![p] = "up"]
  /\ Goto(p, "init")
  /\ UNCHANGED <<doomed, mutVars, updVars, scanVars, fileVars, stolen>>

InitKeepsLock(p) ==
  /\ At(p, "init") /\ \E aged \in BOOLEAN : LockBlocks(aged)
  /\ Goto(p, "ready")
  /\ UNCHANGED <<life, doomed, mutVars, updVars, scanVars, fileVars, stolen>>

Crash(p) ==
  /\ life[p] = "up"
  /\ life' = [life EXCEPT ![p] = "dead"]
  /\ Goto(p, "ready")
  /\ doomed' = [doomed EXCEPT ![p] = FALSE]
  /\ frozen' = [frozen EXCEPT ![p] = FALSE]
  /\ activeMutations' = [activeMutations EXCEPT ![p] = 0]
  /\ live' = [live EXCEPT ![p] = {}]
  /\ upd' = [upd EXCEPT ![p] = "idle"]
  /\ held' = [held EXCEPT ![p] = FALSE]
  /\ todo' = [todo EXCEPT ![p] = {}]
  /\ seen' = [seen EXCEPT ![p] = FALSE]
  /\ UNCHANGED <<begun, fileVars, stolen>>

----------------------------------------------------------------------------
(* beginMutation and the closure it returns                                *)

BeginMutation(p) ==
  /\ Idle(p) /\ ~ frozen[p] /\ begun[p] < MaxMutations
  /\ Goto(p, "begin")
  /\ UNCHANGED <<life, doomed, mutVars, updVars, scanVars, fileVars, stolen>>

(* UPDATE_WRITES_FROZEN before a marker exists.                            *)
RefuseMutation(p) ==
  /\ At(p, "begin") /\ \E aged \in BOOLEAN : LockBlocks(aged)
  /\ Goto(p, "ready")
  /\ UNCHANGED <<life, doomed, mutVars, updVars, scanVars, fileVars, stolen>>

CreateMarker(p) ==
  /\ At(p, "mark")
  /\ begun' = [begun EXCEPT ![p] = @ + 1]
  /\ markers' = markers \cup {<<p, begun[p] + 1>>}
  /\ bare' = bare \cup {<<p, begun[p] + 1>>}
  /\ Goto(p, "stamp")
  /\ UNCHANGED <<life, doomed, activeMutations, live, updVars, scanVars, lock, stolen>>

StampMarker(p) ==
  /\ At(p, "stamp")
  /\ bare' = bare \ {<<p, begun[p]>>}
  /\ Goto(p, "recheck")
  /\ UNCHANGED <<life, doomed, mutVars, updVars, scanVars, lock, markers, stolen>>

(* The write fails: the request fails with it and the bare marker stays.   *)
StampFails(p) ==
  /\ At(p, "stamp")
  /\ Goto(p, "ready")
  /\ UNCHANGED <<life, doomed, mutVars, updVars, scanVars, fileVars, stolen>>

(* UPDATE_WRITES_FROZEN after the marker exists: the marker goes again.    *)
WithdrawMarker(p) ==
  /\ At(p, "recheck") /\ \E aged \in BOOLEAN : LockBlocks(aged)
  /\ markers' = markers \ {<<p, begun[p]>>}
  /\ Goto(p, "ready")
  /\ UNCHANGED <<life, doomed, mutVars, updVars, scanVars, lock, bare, stolen>>

\* Mutant: the waiters are resumed by the first release instead of the last.
NotifyEveryRelease(p, remaining) ==
  upd' = [upd EXCEPT ![p] = IF @ = "drain" THEN "external" ELSE @]

(* notifyDrained resumes waitForDrain, which goes on to the external wait. *)
NotifyDrained(p, remaining) ==
  upd' = [upd EXCEPT ![p] = IF @ = "drain" /\ remaining = 0 THEN "external" ELSE @]

\* Mutant: released = true is forgotten, a second call counts again.
ReleaseTwice(p, n) ==
  /\ Idle(p) /\ n \in live[p]
  /\ markers' = markers \ {<<p, n>>}
  /\ activeMutations' = [activeMutations EXCEPT ![p] = @ - 1]
  /\ NotifyDrained(p, activeMutations[p] - 1)
  /\ UNCHANGED <<procVars, live, begun, frozen, held, scanVars, lock, bare, stolen>>

Release(p, n) ==
  /\ Idle(p) /\ n \in live[p]
  /\ markers' = markers \ {<<p, n>>}
  /\ live' = [live EXCEPT ![p] = @ \ {n}]
  /\ activeMutations' = [activeMutations EXCEPT ![p] = @ - 1]
  /\ NotifyDrained(p, activeMutations[p] - 1)
  /\ UNCHANGED <<procVars, begun, frozen, held, scanVars, lock, bare, stolen>>

----------------------------------------------------------------------------
(* withExclusiveUpdate                                                     *)

BeginUpdate(p) ==
  /\ Idle(p) /\ ~ frozen[p]
  /\ frozen' = [frozen EXCEPT ![p] = TRUE]
  /\ Goto(p, "acquire")
  /\ UNCHANGED <<life, doomed, mutVars, upd, held, scanVars, fileVars, stolen>>

(* acquireUpdateLock throws UPDATE_ALREADY_IN_PROGRESS.  It is called      *)
(* after frozen = true and before the try, so nothing resets frozen.       *)
UpdateRefused(p) ==
  /\ \/ At(p, "acquire") /\ \E aged \in BOOLEAN : LockBlocks(aged)
     \/ At(p, "open") /\ lock.there
     \/ At(p, "sign")                       \* the write to update.lock fails
  /\ Goto(p, "ready")
  /\ UNCHANGED <<life, doomed, mutVars, updVars, scanVars, fileVars, stolen>>

\* Mutant: update.lock is opened with "w", an existing file is taken over.
CreateLockOver(p) ==
  /\ At(p, "open")
  /\ lock' = [there |-> TRUE, by |-> p, signed |-> FALSE]
  /\ Goto(p, "sign")
  /\ UNCHANGED <<life, doomed, mutVars, updVars, scanVars, markers, bare, stolen>>

CreateLock(p) ==
  /\ At(p, "open") /\ ~ lock.there
  /\ lock' = [there |-> TRUE, by |-> p, signed |-> FALSE]
  /\ Goto(p, "sign")
  /\ UNCHANGED <<life, doomed, mutVars, updVars, scanVars, markers, bare, stolen>>

(* The pid goes through the descriptor: a file removed meanwhile stays     *)
(* removed.  Then waitForDrain: at once when nothing is active.            *)
SignLock(p) ==
  /\ At(p, "sign")
  /\ lock' = IF lock.there /\ lock.by = p THEN [lock EXCEPT !.signed = TRUE] ELSE lock
  /\ held' = [held EXCEPT ![p] = TRUE]
  /\ upd' = [upd EXCEPT ![p] = IF activeMutations[p] = 0 THEN "external" ELSE "drain"]
  /\ Goto(p, "ready")
  /\ UNCHANGED <<life, doomed, mutVars, frozen, scanVars, markers, bare, stolen>>

(* The finally block and releaseRetainedFreeze; releaseUpdateLock removes  *)
(* the path without looking at whose file it is.                           *)
Unfreeze(p) ==
  /\ frozen' = [frozen EXCEPT ![p] = FALSE]
  /\ held' = [held EXCEPT ![p] = FALSE]
  /\ upd' = [upd EXCEPT ![p] = "idle"]
  /\ lock' = IF held[p] THEN NoFile ELSE lock

\* Mutant: the drain promise has no timer.
WaitForEver(p) == FALSE /\ UNCHANGED vars

DrainTimeout(p) ==
  /\ Idle(p) /\ upd[p] = "drain"
  /\ Unfreeze(p)
  /\ UNCHANGED <<procVars, mutVars, scanVars, markers, bare, stolen>>

(* externalMutationMarkers: readdir, then removeIfStale on every entry.    *)
ReadMarkerDirectory(p) ==
  /\ Idle(p) /\ upd[p] = "external"
  /\ Goto(p, "scan")
  /\ todo' = [todo EXCEPT ![p] = markers]
  /\ seen' = [seen EXCEPT ![p] = FALSE]
  /\ UNCHANGED <<life, doomed, mutVars, updVars, fileVars, stolen>>

MarkerStale(m, aged) == IsStale(m[1], m \notin bare, aged)

ScanMarker(p, m) ==
  /\ At(p, "scan") /\ m \in todo[p]
  /\ todo' = [todo EXCEPT ![p] = @ \ {m}]
  /\ \/ m \notin markers /\ UNCHANGED <<seen, markers, bare>>
     \/ /\ m \in markers /\ \E aged \in BOOLEAN : MarkerStale(m, aged)
        /\ markers' = markers \ {m}
        /\ bare' = bare \ {m}
        /\ UNCHANGED seen
     \/ /\ m \in markers /\ \E aged \in BOOLEAN : ~ MarkerStale(m, aged)
        /\ seen' = [seen EXCEPT ![p] = TRUE]
        /\ UNCHANGED <<markers, bare>>
  /\ UNCHANGED <<procVars, mutVars, updVars, lock, stolen>>

ScanDone(p) == At(p, "scan") /\ todo[p] = {}

Poll(p) ==                                  \* setTimeout(50), look again
  /\ ScanDone(p) /\ seen[p]
  /\ Goto(p, "ready")
  /\ UNCHANGED <<life, doomed, mutVars, updVars, scanVars, fileVars, stolen>>

ExternalTimeout(p) ==                       \* the deadline has passed
  /\ ScanDone(p) /\ seen[p]
  /\ Goto(p, "ready")
  /\ Unfreeze(p)
  /\ UNCHANGED <<life, doomed, mutVars, scanVars, markers, bare, stolen>>

RunTask(p) ==
  /\ ScanDone(p) /\ ~ seen[p]
  /\ upd' = [upd EXCEPT ![p] = "task"]
  /\ Goto(p, "ready")
  /\ UNCHANGED <<life, doomed, mutVars, frozen, held, scanVars, fileVars, stolen>>

TaskReturns(p) ==                           \* retainFreezeOnSuccess
  /\ Idle(p) /\ upd[p] = "task"
  /\ upd' = [upd EXCEPT ![p] = "retained"]
  /\ UNCHANGED <<procVars, mutVars, frozen, held, scanVars, fileVars, stolen>>

(* The task throws, or it launched nothing (server.mjs releases then); a   *)
(* launched installer ends in Crash: the server exits holding the lock.    *)
TaskGivesUp(p) ==
  /\ Idle(p) /\ upd[p] \in {"task", "retained"}
  /\ Unfreeze(p)
  /\ UNCHANGED <<procVars, mutVars, scanVars, markers, bare, stolen>>

----------------------------------------------------------------------------
Finish(p) == \E n \in 1 .. MaxMutations : Release(p, n)
Scan(p) == \E m \in Marker : ScanMarker(p, m)

Step(p) ==
  \/ JudgeLock(p) \/ RemoveStaleLock(p) \/ FindNoLock(p)
  \/ Start(p) \/ InitKeepsLock(p) \/ Crash(p)
  \/ BeginMutation(p) \/ RefuseMutation(p) \/ CreateMarker(p) \/ StampMarker(p)
  \/ StampFails(p) \/ WithdrawMarker(p) \/ Finish(p)
  \/ BeginUpdate(p) \/ UpdateRefused(p) \/ CreateLock(p) \/ SignLock(p)
  \/ DrainTimeout(p) \/ ReadMarkerDirectory(p) \/ Scan(p)
  \/ Poll(p) \/ ExternalTimeout(p) \/ RunTask(p) \/ TaskReturns(p) \/ TaskGivesUp(p)

Next == \E p \in Proc : Step(p)

Spec == Init /\ [][Next]_vars

(* A synchronous function runs to its end, timers fire, and a deadline in  *)
(* the past stays in the past.  Mutations and the task may last for ever.  *)
Fairness == \A p \in Proc :
  /\ WF_vars(JudgeLock(p) \/ RemoveStaleLock(p) \/ FindNoLock(p) \/ InitKeepsLock(p))
  /\ WF_vars(RefuseMutation(p) \/ CreateMarker(p) \/ StampMarker(p) \/ WithdrawMarker(p))
  /\ WF_vars(UpdateRefused(p) \/ CreateLock(p) \/ SignLock(p))
  /\ WF_vars(DrainTimeout(p)) /\ SF_vars(ReadMarkerDirectory(p)) /\ WF_vars(Scan(p))
  /\ WF_vars(Poll(p) \/ ExternalTimeout(p) \/ RunTask(p)) /\ SF_vars(ExternalTimeout(p))

FairSpec == Spec /\ Fairness

----------------------------------------------------------------------------
(* No update task runs, and no installer is left to run, while a mutation  *)
(* of any process is active, unless the file system race of removeIfStale  *)
(* (lines 28-35, history variable stolen) has happened before.             *)
Updating(p) == upd[p] \in {"task", "retained"}
WritesExcluded ==
  ~ stolen => \A p, q \in Proc : Updating(p) => live[q] = {}

(* Two processes are never both past acquireUpdateLock.                    *)
OneUpdater ==
  ~ stolen => \A p, q \in Proc : held[p] /\ held[q] => p = q

(* Whatever else happens, the marker of a mutation that is still running   *)
(* is never removed, so an update always finds it: "never unlock a write   *)
(* that still has a live process behind it" (lines 31-33).                 *)
RunningMutationIsMarked ==
  \A p \in Proc : \A n \in live[p] : <<p, n>> \in markers

(* An update leaves waitForDrain only when the last mutation of its own    *)
(* process has been released.                                              *)
OwnWritesDrained ==
  \A p \in Proc : upd[p] \in {"external", "task", "retained"} => live[p] = {}

(* An update that waits for writers ends its wait: it runs, or times out.  *)
UpdateSettles ==
  \A p \in Proc : upd[p] \in {"drain", "external"} ~> upd[p] \notin {"drain", "external"}

(* The lock a dead process left (a crash, or the installer it launched)    *)
(* is gone once anybody has looked at it.                                  *)
Orphaned == lock.there /\ lock.signed /\ life[lock.by] = "dead"
OrphanClears ==
  \A p \in Proc : Orphaned /\ pc[p] \in StaleChecks ~> ~ Orphaned \/ life[p] = "dead"
============================================================================
