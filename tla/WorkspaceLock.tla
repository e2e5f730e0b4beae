--------------------------- MODULE WorkspaceLock ---------------------------
(***************************************************************************)
(* src/server/workspace.mjs 715-771: every save of a workspace, and every  *)
(* load that recovers one, runs inside .../workspace.lock.  One process    *)
(* queues its tasks (enqueueWorkspaceWrite); processes (the HTTP server,   *)
(* the CLI) exclude each other by creating the file with "wx".  A file     *)
(* that names no live pid is removed and creation is tried once more.      *)
(*                                                                         *)
(* The pid is written after the file is created, reading and removing are  *)
(* two operations, and the release removes whatever has the name: each     *)
(* file operation is a step of its own.  A restarted program is another    *)
(* member of Proc (a pid is never reused).                                 *)
(***************************************************************************)
EXTENDS Naturals, FiniteSets

CONSTANTS Proc,
          MaxTasks   \* bound: tasks of all processes

ASSUME LockAssumption == MaxTasks \in Nat

VARIABLES
  life,      \* "unborn", "up" or "dead"
  waiting,   \* tasks in the process's queue, the running one not counted
  pc,        \* where its running task is in withWorkspaceFileLock
  attempt,   \* the loop's counter
  lock,      \* workspace.lock: its creator, and whether the pid is in it
  begun,     \* tasks queued so far
  leaky,     \* history: processes whose removal of their own lock has failed
  stolen     \* history: the lock of a process that was using it was removed

vars == <<life, waiting, pc, attempt, lock, begun, leaky, stolen>>

NoLock == [there |-> FALSE]
Locks == {NoLock} \cup [there : {TRUE}, by : Proc, signed : BOOLEAN]
Using == {"sign", "task", "unlock"}

TypeOK ==
  /\ life \in [Proc -> {"unborn", "up", "dead"}]
  /\ waiting \in [Proc -> Nat]
  /\ pc \in [Proc -> Using \cup {"idle", "open", "read", "remove"}]
  /\ attempt \in [Proc -> {1, 2}]
  /\ lock \in Locks
  /\ begun \in 0 .. MaxTasks
  /\ leaky \in SUBSET Proc
  /\ stolen \in BOOLEAN

Init ==
  /\ life = [p \in Proc |-> "unborn"]
  /\ waiting = [p \in Proc |-> 0]
  /\ pc = [p \in Proc |-> "idle"]
  /\ attempt = [p \in Proc |-> 1]
  /\ lock = NoLock
  /\ begun = 0
  /\ leaky = {} /\ stolen = FALSE

At(p, label) == life[p] = "up" /\ pc[p] = label
Goto(p, label) == pc' = [pc EXCEPT ![p] = label]

Start(p) ==
  /\ life[p] = "unborn"
  /\ life' = [life EXCEPT ![p] = "up"]
  /\ UNCHANGED <<waiting, pc, attempt, lock, begun, leaky, stolen>>

Die(p) ==
  /\ life[p] = "up"
  /\ life' = [life EXCEPT ![p] = "dead"]
  /\ waiting' = [waiting EXCEPT ![p] = 0] /\ Goto(p, "idle")
  /\ UNCHANGED <<attempt, lock, begun, leaky, stolen>>

Enqueue(p) ==
  /\ life[p] = "up" /\ begun < MaxTasks
  /\ begun' = begun + 1
  /\ waiting' = [waiting EXCEPT ![p] = @ + 1]
  /\ UNCHANGED <<life, pc, attempt, lock, leaky, stolen>>

\* Mutant: the queue waits for the file to go away.
NextTaskWhenFree(p) ==
  /\ At(p, "idle") /\ waiting[p] > 0 /\ ~ lock.there
  /\ waiting' = [waiting EXCEPT ![p] = @ - 1]
  /\ attempt' = [attempt EXCEPT ![p] = 1] /\ Goto(p, "open")
  /\ UNCHANGED <<life, lock, begun, leaky, stolen>>

(* The queue starts a task when the one before it has settled.             *)
NextTask(p) ==
  /\ At(p, "idle") /\ waiting[p] > 0
  /\ waiting' = [waiting EXCEPT ![p] = @ - 1]
  /\ attempt' = [attempt EXCEPT ![p] = 1] /\ Goto(p, "open")
  /\ UNCHANGED <<life, lock, begun, leaky, stolen>>

\* Mutant: opened with "w".
CreateOver(p) ==
  /\ At(p, "open") /\ Goto(p, "sign")
  /\ lock' = [there |-> TRUE, by |-> p, signed |-> FALSE]
  /\ UNCHANGED <<life, waiting, attempt, begun, leaky, stolen>>

Create(p) ==
  /\ At(p, "open") /\ ~ lock.there /\ Goto(p, "sign")
  /\ lock' = [there |-> TRUE, by |-> p, signed |-> FALSE]
  /\ UNCHANGED <<life, waiting, attempt, begun, leaky, stolen>>

FindLock(p) ==
  /\ At(p, "open") /\ lock.there /\ Goto(p, "read")
  /\ UNCHANGED <<life, waiting, attempt, lock, begun, leaky, stolen>>

(* A file without a pid, or gone by now, names no live process.            *)
OwnerAlive == lock.there /\ lock.signed /\ life[lock.by] = "up"

RefuseTask(p) ==
  /\ At(p, "read") /\ OwnerAlive /\ Goto(p, "idle")
  /\ UNCHANGED <<life, waiting, attempt, lock, begun, leaky, stolen>>

JudgeDead(p) ==
  /\ At(p, "read") /\ ~ OwnerAlive /\ Goto(p, "remove")
  /\ UNCHANGED <<life, waiting, attempt, lock, begun, leaky, stolen>>

(* rm of the path, whosever file it is now.                                *)
RemoveFile(p) ==
  /\ lock' = NoLock
  /\ stolen' = (stolen \/ (lock.there /\ lock.by # p /\ life[lock.by] = "up" /\ pc[lock.by] \in Using))

\* Mutant: the attempts are counted one too far.
RemoveDeadAgain(p) ==
  /\ At(p, "remove") /\ RemoveFile(p)
  /\ IF attempt[p] <= 2
     THEN attempt' = [attempt EXCEPT ![p] = @ + 1] /\ Goto(p, "open")
     ELSE Goto(p, "idle") /\ UNCHANGED attempt
  /\ UNCHANGED <<life, waiting, begun, leaky>>

RemoveDead(p) ==
  /\ At(p, "remove") /\ RemoveFile(p)
  /\ IF attempt[p] = 1
     THEN attempt' = [attempt EXCEPT ![p] = 2] /\ Goto(p, "open")
     ELSE Goto(p, "idle") /\ UNCHANGED attempt
  /\ UNCHANGED <<life, waiting, begun, leaky>>

(* The pid goes to the file the process has created, if it has a name yet. *)
Sign(p) ==
  /\ At(p, "sign") /\ Goto(p, "task")
  /\ lock' = IF lock.there /\ lock.by = p THEN [lock EXCEPT !.signed = TRUE] ELSE lock
  /\ UNCHANGED <<life, waiting, attempt, begun, leaky, stolen>>

SignFails(p) ==
  /\ At(p, "sign") /\ Goto(p, "idle")
  /\ UNCHANGED <<life, waiting, attempt, lock, begun, leaky, stolen>>

Finish(p) ==
  /\ At(p, "task") /\ Goto(p, "unlock")
  /\ UNCHANGED <<life, waiting, attempt, lock, begun, leaky, stolen>>

\* Mutant: the lock is left to the next process to judge.
KeepLock(p) ==
  /\ At(p, "unlock") /\ Goto(p, "idle")
  /\ UNCHANGED <<life, waiting, attempt, lock, begun, leaky, stolen>>

Unlock(p) ==
  /\ At(p, "unlock") /\ RemoveFile(p) /\ Goto(p, "idle")
  /\ UNCHANGED <<life, waiting, attempt, begun, leaky>>

UnlockFails(p) ==
  /\ At(p, "unlock") /\ Goto(p, "idle") /\ leaky' = leaky \cup {p}
  /\ UNCHANGED <<life, waiting, attempt, lock, begun, stolen>>

Work(p) == NextTask(p) \/ Create(p) \/ FindLock(p) \/ RefuseTask(p) \/ JudgeDead(p)
           \/ RemoveDead(p) \/ Sign(p) \/ Finish(p) \/ Unlock(p)

Next == \E p \in Proc : Work(p) \/ Start(p) \/ Die(p) \/ Enqueue(p) \/ SignFails(p) \/ UnlockFails(p)

Spec == Init /\ [][Next]_vars

(* Tasks end and operations return; nobody need start, die or ask again.   *)
FairSpec == Spec /\ \A p \in Proc : WF_vars(Work(p))

----------------------------------------------------------------------------
(* Properties                                                              *)

Writing(p) == At(p, "task")
OneWriter == \A p, q \in Proc : Writing(p) /\ Writing(q) => p = q

(* Two processes write a workspace together only if the lock of one of     *)
(* them has been removed while it was using it (751-770).                  *)
OneWriterUnlessStolen == stolen \/ OneWriter

(* A lock with the pid of a live process is that process's running task,   *)
(* unless its removal has failed: nobody is refused for a lock that is no  *)
(* longer used (759, 769).                                                 *)
SignedMeansUsed == OwnerAlive => pc[lock.by] \in {"task", "unlock"} \/ lock.by \in leaky

(* Every queued task runs or is refused, whatever the lock file is that it *)
(* meets (726-771).                                                        *)
TasksSettle == \A p \in Proc : waiting[p] > 0 ~> waiting[p] = 0 /\ pc[p] = "idle"
============================================================================
