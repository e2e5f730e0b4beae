--------------------------- MODULE MediaJobsProofs ---------------------------
(***************************************************************************)
(* MediaJobs for any number of jobs, tasks, requests of the user, failures *)
(* and workers that die.                                                   *)
(***************************************************************************)
EXTENDS MediaJobs, FiniteSetTheorems, TLAPS

(* TypeOK, but for what a worker holds.                                    *)
Types ==
  /\ job \in [Jobs -> Records]
  /\ task \in [Tasks -> [of : 0 .. MaxJobs, state : States]]
  /\ pass \in [Jobs -> Passes]
  /\ launched \cup doomed \cup exited \subseteq Jobs
  /\ confirmed \in [Jobs -> Nat]
  /\ used \in [actions : Nat, kills : Nat, errors : Nat, lists : Nat]

(* What the bounds and the sets of constants are, once and for all.        *)
LEMMA Bounds == {MaxJobs, MaxTasks, RetryLimit} \subseteq Nat
  BY MediaAssumption

(* The values that records and tasks take.                                 *)
LEMMA Values ==
  /\ "none" \in Statuses /\ "queued" \in Statuses /\ "submitting" \in Statuses /\ "polling" \in Statuses
  /\ "downloading" \in Statuses /\ "cancel_requested" \in Statuses /\ "retry_required" \in Statuses
  /\ "failed" \in Statuses /\ "complete" \in Statuses /\ "cancelled" \in Statuses
  /\ "not_submitted" \in Submissions /\ "submitting" \in Submissions /\ "submitted" \in Submissions
  /\ "uncertain" \in Submissions
  /\ "none" \in States /\ "sent" \in States /\ Accepted \subseteq States
  BY DEF Statuses, Active, Waiting, Final, States, Accepted, Submissions

LEMMA NoJobTyped == NoJob \in Records /\ Idle \in Passes
<1>1. NoJob \in Records BY Values, Bounds DEF NoJob, Records
<1>2. Idle \in Passes BY <1>1, Values, Bounds DEF Idle, Passes, Labels, Errors
<1> QED BY <1>1, <1>2

(* Every way an action changes a record leaves a record.                   *)
LEMMA RecordsKept ==
  ASSUME NEW r \in Records, NEW s \in Statuses
  PROVE  /\ [r EXCEPT !.status = s] \in Records
         /\ Cancelled(r) \in Records /\ Cleared(r) \in Records
         /\ [Cancelled(r) EXCEPT !.status = s] \in Records
         /\ [Cancelled(r) EXCEPT !.release = "done", !.given = TRUE] \in Records
         /\ [r EXCEPT !.stopped = TRUE] \in Records
         /\ [r EXCEPT !.stopped = TRUE, !.release = "pending"] \in Records
         /\ [r EXCEPT !.applied = TRUE] \in Records
         /\ [r EXCEPT !.explicit = FALSE] \in Records
         /\ [r EXCEPT !.status = s, !.explicit = FALSE] \in Records
         /\ [r EXCEPT !.explicit = (r.task = 0)] \in Records
         /\ [r EXCEPT !.status = s, !.sub = "uncertain", !.risk = TRUE, !.given = TRUE] \in Records
         /\ [r EXCEPT !.status = s, !.sub = "uncertain", !.risk = TRUE, !.given = FALSE] \in Records
         /\ [r EXCEPT !.status = s, !.sub = "submitting", !.tried = TRUE] \in Records
         /\ [r EXCEPT !.status = s, !.sub = "submitted", !.risk = FALSE] \in Records
         /\ [r EXCEPT !.status = s, !.risk = TRUE] \in Records
         /\ \A b \in BOOLEAN : [r EXCEPT !.status = s, !.safe = b] \in Records
         /\ \A t \in 0 .. MaxTasks :
              [r EXCEPT !.status = s, !.task = t, !.sub = "submitted", !.risk = FALSE] \in Records
         /\ \A t \in 0 .. MaxTasks :
              [r EXCEPT !.status = s, !.task = t, !.sub = "submitted", !.risk = FALSE,
                !.safe = FALSE] \in Records
         /\ \A b \in BOOLEAN, x \in Submissions :
              [r EXCEPT !.status = s, !.exhausted = TRUE, !.risk = b, !.sub = x] \in Records
<1>1. [r EXCEPT !.status = s] \in Records
  BY Values DEF Records, Cancelled, Cleared
<1>2. Cancelled(r) \in Records
  BY Values DEF Records, Cancelled, Cleared
<1>4. Cleared(r) \in Records
  BY Values DEF Records, Cancelled, Cleared
<1>5. [Cancelled(r) EXCEPT !.status = s] \in Records
  BY Values DEF Records, Cancelled, Cleared
<1>6. [Cancelled(r) EXCEPT !.release = "done", !.given = TRUE] \in Records
  BY Values DEF Records, Cancelled, Cleared
<1>7. [r EXCEPT !.stopped = TRUE] \in Records
  BY Values DEF Records, Cancelled, Cleared
<1>8. [r EXCEPT !.stopped = TRUE, !.release = "pending"] \in Records
  BY Values DEF Records, Cancelled, Cleared
<1>9. [r EXCEPT !.applied = TRUE] \in Records
  BY Values DEF Records, Cancelled, Cleared
<1>10. [r EXCEPT !.explicit = FALSE] \in Records
  BY Values DEF Records, Cancelled, Cleared
<1>11. [r EXCEPT !.status = s, !.explicit = FALSE] \in Records
  BY Values DEF Records, Cancelled, Cleared
<1>12. [r EXCEPT !.explicit = (r.task = 0)] \in Records
  BY Values DEF Records, Cancelled, Cleared
<1>13. [r EXCEPT !.status = s, !.sub = "uncertain", !.risk = TRUE, !.given = TRUE] \in Records
  BY Values DEF Records, Cancelled, Cleared
<1>14. [r EXCEPT !.status = s, !.sub = "uncertain", !.risk = TRUE, !.given = FALSE] \in Records
  BY Values DEF Records, Cancelled, Cleared
<1>15. [r EXCEPT !.status = s, !.sub = "submitting", !.tried = TRUE] \in Records
  BY Values DEF Records, Cancelled, Cleared
<1>16. [r EXCEPT !.status = s, !.sub = "submitted", !.risk = FALSE] \in Records
  BY Values DEF Records, Cancelled, Cleared
<1>17. [r EXCEPT !.status = s, !.risk = TRUE] \in Records
  BY Values DEF Records, Cancelled, Cleared
<1>18. \A b \in BOOLEAN : [r EXCEPT !.status = s, !.safe = b] \in Records
  BY Values DEF Records, Cancelled, Cleared
<1>19. \A t \in 0 .. MaxTasks :
         [r EXCEPT !.status = s, !.task = t, !.sub = "submitted", !.risk = FALSE] \in Records
  BY Values DEF Records, Cancelled, Cleared
<1>20. \A t \in 0 .. MaxTasks :
         [r EXCEPT !.status = s, !.task = t, !.sub = "submitted", !.risk = FALSE, !.safe = FALSE] \in Records
  BY Values DEF Records, Cancelled, Cleared
<1>21. \A b \in BOOLEAN, x \in Submissions :
         [r EXCEPT !.status = s, !.exhausted = TRUE, !.risk = b, !.sub = x] \in Records
  BY Values DEF Records, Cancelled, Cleared
<1> QED BY <1>1, <1>2, <1>4, <1>5, <1>6, <1>7, <1>8, <1>9, <1>10, <1>11, <1>12, <1>13, <1>14, <1>15, <1>16,
    <1>17, <1>18, <1>19, <1>20, <1>21

LEMMA FailureTyped == ASSUME NEW r \in Records, NEW err \in Errors PROVE FailurePatch(r, err) \in Records
<1>1. \A n \in Nat, b \in BOOLEAN : [r EXCEPT !.retries = n, !.exhausted = b] \in Records
  BY DEF Records
<1>2. \A q \in Records, s \in Statuses, x \in Submissions, b \in BOOLEAN :
        [q EXCEPT !.status = s, !.sub = x, !.risk = b] \in Records
  BY ZenonT(60) DEF Records
<1>3. \A q \in Records, s \in Statuses :
        [q EXCEPT !.status = s, !.sub = "uncertain", !.risk = TRUE, !.given = FALSE] \in Records
  BY Values DEF Records
<1>4. \A q \in Records, s \in Statuses : [q EXCEPT !.status = s] \in Records
  BY Values DEF Records
<1>5. \A q \in Records : [q EXCEPT !.status = "queued", !.sub = "not_submitted", !.risk = FALSE,
        !.safe = TRUE] \in Records
  BY Values DEF Records
<1>6. \A q \in Records, s \in Statuses, x \in Submissions, b \in BOOLEAN, g \in BOOLEAN :
        [q EXCEPT !.status = s, !.risk = b, !.given = g, !.sub = x] \in Records
  BY ZenonT(60) DEF Records
<1>7. \A q \in Records : q.status \in Statuses /\ q.sub \in Submissions /\ q.risk \in BOOLEAN /\
        q.given \in BOOLEAN /\ q.retries \in Nat
  BY Values DEF Records
<1> DEFINE retries == IF r.kind = "cli" THEN r.retries + 1 ELSE 0
           out == r.kind = "cli" /\ retries > RetryLimit
           q == [r EXCEPT !.retries = retries, !.exhausted = out]
<1>8. q \in Records
  <2>1. retries \in Nat BY <1>7
  <2>2. out \in BOOLEAN OBVIOUS
  <2> HIDE DEF retries, out
  <2> QED BY <1>1, <2>1, <2>2
<1>9. {"retry_required", "failed", "polling", "queued"} \subseteq Statuses /\
        {"not_submitted", "uncertain"} \subseteq Submissions
  BY Values
<1> HIDE DEF q
<1>10. \A a, b \in BOOLEAN : (a /\ ~ b) \in BOOLEAN /\ (a \/ b) \in BOOLEAN OBVIOUS
<1> QED BY <1>2, <1>3, <1>4, <1>5, <1>6, <1>7, <1>8, <1>9, ZenonT(60) DEF FailurePatch, q, retries, out

(* Every way a pass goes on leaves a pass.                                 *)
LEMMA Ways ==
  ASSUME Types, NEW j \in Jobs
  PROVE  /\ Leave(j) => pass' \in [Jobs -> Passes]
         /\ \A pc \in Labels : Go(j, pc) => pass' \in [Jobs -> Passes]
         /\ \A err \in Errors : Throw(j, err) => pass' \in [Jobs -> Passes]
         /\ \A r \in Records : Settle(j, r) => pass' \in [Jobs -> Passes]
         /\ \A t \in Tasks : GoWith(j, "found", t) => pass' \in [Jobs -> Passes]
         /\ \A t \in Tasks : GoWith(j, "record", t) => pass' \in [Jobs -> Passes]
         /\ \A t \in Tasks : GoWith(j, "polled", t) => pass' \in [Jobs -> Passes]
         /\ \A t \in Tasks : GoWith(j, "settle", t) => pass' \in [Jobs -> Passes]
         /\ \A by \in {"own", "scan"} : Pick(j, by) => pass' \in [Jobs -> Passes]
<1>1. pass[j] \in Passes /\ pass \in [Jobs -> Passes] BY DEF Types
<1>2. Idle \in Passes BY NoJobTyped
<1>3. \A pc \in Labels : [Idle EXCEPT !.pc = pc, !.by = pass[j].by] \in Passes BY <1>1, <1>2 DEF Passes
<1>4. \A err \in Errors : [Idle EXCEPT !.pc = "throw", !.by = pass[j].by, !.err = err] \in Passes
  BY <1>1, <1>2 DEF Passes, Labels
<1>5. \A r \in Records : [Idle EXCEPT !.pc = "cancel", !.by = pass[j].by, !.snap = r] \in Passes
  BY <1>1, <1>2 DEF Passes, Labels
<1>6. \A t \in Tasks, pc \in Labels :
        [Idle EXCEPT !.pc = pc, !.by = pass[j].by, !.got = t, !.seen = task[t].state] \in Passes
  <2> SUFFICES ASSUME NEW t \in Tasks, NEW pc \in Labels
               PROVE  [Idle EXCEPT !.pc = pc, !.by = pass[j].by, !.got = t, !.seen = task[t].state] \in Passes
    OBVIOUS
  <2>1. t \in 0 .. MaxTasks BY Bounds DEF Tasks
  <2>2. task[t].state \in States BY DEF Types
  <2> QED BY <1>1, <1>2, <2>1, <2>2 DEF Passes
<1>7. \A by \in {"own", "scan"} : [Idle EXCEPT !.pc = "locked", !.by = by] \in Passes
  BY <1>1, <1>2 DEF Passes, Labels
<1> QED BY <1>1, <1>2, <1>3, <1>4, <1>5, <1>6, <1>7 DEF Leave, Go, Throw, Settle, GoWith, Pick, Labels

(* The points of a pass at which the worker holds the provider's answer,   *)
(* those at which the record names a task, and those at which it cannot    *)
(* yet.                                                                    *)
Holding == {"found", "wait", "record", "polled", "settle"}
Knowing == {"resume", "poll", "polled", "settle", "download", "fetch", "land"}
Seeking == {"reconcile", "found", "probe", "mark", "submit", "wait", "record"}

(* A worker holds tasks of its own job, which the provider has taken       *)
(* unless their answer is still awaited.                                   *)
Held(j) ==
  /\ pass[j].got # 0 <=> pass[j].pc \in Holding
  /\ pass[j].got # 0 => task[pass[j].got].of = j
  /\ pass[j].pc = "wait" => task[pass[j].got].state # "none"
  /\ pass[j].pc \in Holding \ {"wait"} => task[pass[j].got].state \in Accepted /\ pass[j].seen \in Accepted

(* A record names a task of its own job that the provider has taken, and a *)
(* record read earlier names no other one.                                 *)
Named(j) ==
  /\ job[j].task # 0 => task[job[j].task].of = j /\ task[job[j].task].state \in Accepted
  /\ pass[j].pc \in Knowing => job[j].task # 0
  /\ pass[j].pc \in Seeking => job[j].task = 0
  /\ pass[j].snap.task # 0 => pass[j].snap.task = job[j].task

(* A job that does not exist is not worked on; a failure is recorded for   *)
(* one that does.                                                          *)
Blank(j) ==
  /\ job[j].status = "none" => job[j] = NoJob /\ pass[j].pc \in {"idle", "locked"}
  /\ pass[j].pc = "catch" => pass[j].snap.status # "none"
Sound(j) == Held(j) /\ Named(j) /\ Blank(j)
Unused == \A t \in Tasks : task[t].state = "none" => task[t].of = 0

(* The inductive invariant for TypeOK.                                     *)
Sensible == Types /\ Unused /\ \A j \in Jobs : Sound(j)

LEMMA UpdateTyped ==
  ASSUME Types, NEW j \in Jobs, NEW r \in Records
  PROVE  /\ Update(j, r) => job' \in [Jobs -> Records]
         /\ UpdateRunnable(j, r) => job' \in [Jobs -> Records]
  BY DEF Types, Update, UpdateRunnable

LEMMA SpendTyped ==
  ASSUME Types
  PROVE  /\ Acting \/ Erring \/ Spend("kills") =>
              used' \in [actions : Nat, kills : Nat, errors : Nat, lists : Nat]
         /\ [used EXCEPT !.errors = @ + 1, !.lists = @ + 1] \in [actions : Nat, kills : Nat, errors :
              Nat, lists : Nat]
<1>1. used \in [actions : Nat, kills : Nat, errors : Nat, lists : Nat] BY DEF Types
<1>2. Acting => used' \in [actions : Nat, kills : Nat, errors : Nat, lists : Nat] BY <1>1 DEF Acting, Spend
<1>3. Erring => used' \in [actions : Nat, kills : Nat, errors : Nat, lists : Nat] BY <1>1 DEF Erring, Spend
<1>4. Spend("kills") => used' \in [actions : Nat, kills : Nat, errors : Nat, lists : Nat] BY <1>1 DEF Spend
<1>5. [used EXCEPT !.errors = @ + 1, !.lists = @ + 1] \in [actions : Nat, kills : Nat, errors : Nat, lists :
        Nat]
  <2>1. \A u \in [actions : Nat, kills : Nat, errors : Nat, lists : Nat], m, n \in Nat :
          [u EXCEPT !.errors = m, !.lists = n] \in [actions : Nat, kills : Nat, errors : Nat, lists : Nat]
    OBVIOUS
  <2>2. used.errors + 1 \in Nat /\ used.lists + 1 \in Nat BY <1>1
  <2> QED BY <1>1, <2>1, <2>2
<1> QED BY <1>2, <1>3, <1>4, <1>5

LEMMA TaskTyped ==
  ASSUME Types, NEW j \in Jobs, NEW t \in Tasks
  PROVE  /\ \A s \in States : [task EXCEPT ![t].state = s] \in [Tasks -> [of : 0 .. MaxJobs, state : States]]
         /\ \A s \in States : [task EXCEPT ![t] = [of |-> j, state |-> s]] \in [Tasks -> [of : 0 .. MaxJobs,
              state : States]]
         /\ [task EXCEPT ![t] = [of |-> 0, state |-> "none"]] \in [Tasks -> [of : 0 .. MaxJobs, state : States]]
<1>1. j \in 0 .. MaxJobs /\ 0 \in 0 .. MaxJobs BY Bounds DEF Jobs
<1> QED BY <1>1, Values DEF Types

LEMMA HeldTask ==
  ASSUME Sensible, NEW j \in Jobs
  PROVE  /\ pass[j].got # 0 => pass[j].got \in Tasks
         /\ job[j].task # 0 => job[j].task \in Tasks
         /\ pass[j].snap.task # 0 => pass[j].snap.task \in Tasks
         /\ pass[j].got \in 0 .. MaxTasks /\ pass[j].by \in {"none", "own", "scan"}
<1>1. job[j] \in Records /\ pass[j] \in Passes BY DEF Sensible, Types
<1>2. job[j].task \in 0 .. MaxTasks /\ pass[j].got \in 0 .. MaxTasks /\ pass[j].snap \in Records
  BY <1>1 DEF Records, Passes
<1>3. pass[j].snap.task \in 0 .. MaxTasks BY <1>2 DEF Records
<1> QED BY <1>1, <1>2, <1>3, Bounds DEF Tasks, Passes

(* Types are kept by every step of a job.                                  *)
LEMMA StepTypes ==
  ASSUME Sensible, NEW j \in Jobs, User(j) \/ Step(j) \/ Service(j)
  PROVE  Types'
<1>a. Sensible /\ Types /\ job[j] \in Records /\ pass[j].snap \in Records /\ pass[j].err \in Errors /\
        Sound(j) /\ Held(j) /\ Named(j)
  BY DEF Sensible, Types, Passes, Sound
<1>b. /\ \A pc \in {"resume", "reconcile", "probe", "refuse", "mark", "submit", "download", "poll", "fetch",
           "land", "lease"} : pc \in Labels
      /\ \A err \in {"known", "settled", "transient", "fatal", "ended"} : err \in Errors
  BY DEF Labels, Errors
<1>c. job[j].task \in 0 .. MaxTasks /\ job[j].risk \in BOOLEAN /\ job[j].sub \in Submissions /\
        job[j].status \in Statuses /\ job[j].safe \in BOOLEAN
  BY <1>a DEF Records
<1> USE DEF server
<1>1. ASSUME Cancel(j) PROVE Types'
  <2>1. job' \in [Jobs -> Records] BY <1>1, <1>a, RecordsKept, UpdateTyped, Values DEF Cancel, Types
  <2>2. used' \in [actions : Nat, kills : Nat, errors : Nat, lists : Nat]
    BY <1>1, <1>a, SpendTyped DEF Cancel, Types
  <2> QED BY <1>1, <1>a, <2>1, <2>2 DEF Cancel, Types
<1>2. ASSUME Dismiss(j) PROVE Types'
  <2>1. Abandoned(job[j]) \in Records BY <1>a, RecordsKept, Values DEF Abandoned
  <2>2. used' \in [actions : Nat, kills : Nat, errors : Nat, lists : Nat]
    BY <1>2, <1>a, SpendTyped DEF Dismiss
  <2>3. job' \in [Jobs -> Records] BY <1>2, <1>a, <2>1, UpdateTyped DEF Dismiss
  <2> QED BY <1>2, <1>a, <2>2, <2>3 DEF Dismiss, Types
<1>3. ASSUME Resume(j) PROVE Types'
  <2>1. [job[j] EXCEPT !.explicit = (job[j].task = 0)] \in Records BY <1>a, RecordsKept, Values
  <2> DEFINE r == Cleared([job[j] EXCEPT !.explicit = (job[j].task = 0)])
  <2>2. r \in Records BY <2>1, RecordsKept, Values
  <2>3. \A s \in Statuses : [r EXCEPT !.status = s] \in Records BY <2>2, RecordsKept
  <2>4. \A s \in Statuses : [r EXCEPT !.status = s, !.safe = (@ /\ ~ SafeToResubmit(r))] \in Records
    <3>1. (r.safe /\ ~ SafeToResubmit(r)) \in BOOLEAN OBVIOUS
    <3> HIDE DEF r
    <3> QED BY <2>2, <3>1, RecordsKept
  <2>5. used' \in [actions : Nat, kills : Nat, errors : Nat, lists : Nat] BY <1>3, <1>a, SpendTyped DEF Resume
  <2>6. job' \in [Jobs -> Records]
    <3>1. \/ Update(j, [r EXCEPT !.status = "polling"])
          \/ Update(j, [r EXCEPT !.status = "queued", !.safe = (@ /\ ~ SafeToResubmit(r))])
      BY <1>3 DEF Resume
    <3> HIDE DEF r
    <3> QED BY <1>a, <2>3, <2>4, <3>1, UpdateTyped, Values
  <2>7. confirmed' \in [Jobs -> Nat] BY <1>3, <1>a DEF Resume, Types
  <2> QED BY <1>3, <1>a, <2>5, <2>6, <2>7 DEF Resume, Types
<1>4. ASSUME Reconcile(j) PROVE Types'
  <2>1. [job[j] EXCEPT !.status = "retry_required", !.sub = "uncertain", !.risk = TRUE,
          !.given = FALSE] \in Records
    BY <1>a, RecordsKept, Values
  <2>2. Cleared([job[j] EXCEPT !.status = "retry_required", !.sub = "uncertain", !.risk = TRUE,
          !.given = FALSE]) \in Records
    BY <2>1, RecordsKept, Values
  <2>3. used' \in [actions : Nat, kills : Nat, errors : Nat, lists : Nat]
    BY <1>4, <1>a, SpendTyped DEF Reconcile
  <2>4. job' \in [Jobs -> Records] BY <1>4, <1>a, <2>2, UpdateTyped DEF Reconcile
  <2> QED BY <1>4, <1>a, <2>3, <2>4 DEF Reconcile, Types
<1>5. ASSUME BeginStop(j) PROVE Types'
  <2>1. job' \in [Jobs -> Records] BY <1>5, <1>a, RecordsKept, UpdateTyped, Values DEF BeginStop, Types
  <2>2. used' \in [actions : Nat, kills : Nat, errors : Nat, lists : Nat]
    BY <1>5, <1>a, SpendTyped DEF BeginStop, Types
  <2> QED BY <1>5, <1>a, <2>1, <2>2 DEF BeginStop, Types
<1>6. ASSUME Enter(j) PROVE Types'
  <2>1. pass' \in [Jobs -> Passes] BY <1>6, <1>a, <1>b, Ways DEF Enter, Types
  <2> QED BY <1>6, <1>a, <2>1 DEF Enter, Types
<1>7. ASSUME EndLease(j) PROVE Types'
  <2>1. job' \in [Jobs -> Records] BY <1>7, <1>a, RecordsKept, UpdateTyped, Values DEF EndLease, Types
  <2>2. pass' \in [Jobs -> Passes] BY <1>7, <1>a, <1>b, Ways DEF EndLease, Types
  <2> QED BY <1>7, <1>a, <2>1, <2>2 DEF EndLease, Types
<1>8. ASSUME AskList(j) PROVE Types'
  <2>1. used' \in [actions : Nat, kills : Nat, errors : Nat, lists : Nat]
    BY <1>8, <1>a, SpendTyped DEF AskList, Types
  <2>2. pass' \in [Jobs -> Passes] BY <1>8, <1>a, <1>b, Ways DEF AskList, Paid
  <2> QED BY <1>8, <1>a, <2>1, <2>2 DEF AskList, Types
<1>9. ASSUME RecordFound(j) PROVE Types'
  <2>1. pass[j].got \in 0 .. MaxTasks /\ Following(pass[j].seen) \in Statuses
    <3>1. pass[j].seen \in Accepted BY <1>9, <1>a DEF RecordFound, Held, Holding
    <3> QED BY <3>1, <1>a, HeldTask, Values DEF Following, Accepted
  <2>2. job' \in [Jobs -> Records] BY <1>9, <1>a, <2>1, UpdateTyped, RecordsKept DEF RecordFound
  <2>3. pass' \in [Jobs -> Passes] BY <1>9, <1>a, <1>b, Ways DEF RecordFound
  <2> QED BY <1>9, <1>a, <2>2, <2>3 DEF RecordFound, Types
<1>10. ASSUME Refuse(j) PROVE Types'
  <2>1. job' \in [Jobs -> Records] BY <1>10, <1>a, RecordsKept, UpdateTyped, Values DEF Refuse, Types
  <2>2. pass' \in [Jobs -> Passes] BY <1>10, <1>a, <1>b, Ways DEF Refuse, Types
  <2> QED BY <1>10, <1>a, <2>1, <2>2 DEF Refuse, Types
<1>11. ASSUME Probe(j) PROVE Types'
  <2>1. job' \in [Jobs -> Records] BY <1>11, <1>a, RecordsKept, UpdateTyped, Values DEF Probe, Types
  <2>2. pass' \in [Jobs -> Passes] BY <1>11, <1>a, <1>b, Ways DEF Probe, Types
  <2>3. used' \in [actions : Nat, kills : Nat, errors : Nat, lists : Nat]
    BY <1>11, <1>a, SpendTyped DEF Probe, Types
  <2> QED BY <1>11, <1>a, <2>1, <2>2, <2>3 DEF Probe, Types
<1>12. ASSUME MarkSubmitting(j) PROVE Types'
  <2>1. job' \in [Jobs -> Records] BY <1>12, <1>a, RecordsKept, UpdateTyped, Values DEF MarkSubmitting, Types
  <2>2. pass' \in [Jobs -> Passes] BY <1>12, <1>a, <1>b, Ways DEF MarkSubmitting, Types
  <2> QED BY <1>12, <1>a, <2>1, <2>2 DEF MarkSubmitting, Types
<1>13. ASSUME Submit(j) PROVE Types'
  <2>1. CASE job[j].kind = "cli" /\ Paid(j) # {}
    <3>1. PICK t \in Paid(j) : GoWith(j, "record", t) /\ UNCHANGED task BY <1>13, <2>1 DEF Submit
    <3>2. pass' \in [Jobs -> Passes] BY <1>a, <3>1, Ways DEF Paid
    <3> QED BY <1>13, <1>a, <3>1, <3>2 DEF Submit, Types
  <2>2. CASE ~ (job[j].kind = "cli" /\ Paid(j) # {})
    <3>1. PICK t \in Tasks :
            /\ task' = [task EXCEPT ![t] = [of |-> j, state |-> "sent"]]
            /\ pass' = [pass EXCEPT ![j] = [Idle EXCEPT !.pc = "wait", !.by = pass[j].by, !.got = t]]
      BY <1>13, <2>2 DEF Submit
    <3>2. task' \in [Tasks -> [of : 0 .. MaxJobs, state : States]] BY <1>a, <3>1, TaskTyped, Values
    <3>3. t \in 0 .. MaxTasks BY Bounds DEF Tasks
    <3>4. [Idle EXCEPT !.pc = "wait", !.by = pass[j].by, !.got = t] \in Passes
      BY <1>a, <3>3, NoJobTyped, HeldTask DEF Passes, Labels
    <3>5. pass' \in [Jobs -> Passes] BY <1>a, <3>1, <3>4 DEF Types
    <3> QED BY <1>13, <1>a, <3>2, <3>5 DEF Submit, Types
  <2> QED BY <2>1, <2>2
<1>14. ASSUME Answered(j) PROVE Types'
  <2>1. pass[j].got \in Tasks BY <1>14, <1>a, HeldTask DEF Answered, Held, Holding
  <2>2. pass' \in [Jobs -> Passes] BY <1>14, <1>a, <1>b, <2>1, Ways DEF Answered
  <2>3. task' \in [Tasks -> [of : 0 .. MaxJobs, state : States]]
    BY <1>14, <1>a, <2>1, TaskTyped DEF Answered, Types
  <2> QED BY <1>14, <1>a, <2>2, <2>3 DEF Answered, Types
<1>15. ASSUME TimeOut(j) PROVE Types'
  <2>1. pass' \in [Jobs -> Passes] BY <1>15, <1>a, <1>b, Ways DEF TimeOut, Types
  <2>2. used' \in [actions : Nat, kills : Nat, errors : Nat, lists : Nat]
    BY <1>15, <1>a, SpendTyped DEF TimeOut, Types
  <2> QED BY <1>15, <1>a, <2>1, <2>2 DEF TimeOut, Types
<1>16. ASSUME RecordTask(j) PROVE Types'
  <2>1. pass[j].got \in 0 .. MaxTasks /\ Following(pass[j].seen) \in Statuses
    <3>1. pass[j].seen \in Accepted BY <1>16, <1>a DEF RecordTask, Held, Holding
    <3> QED BY <3>1, <1>a, HeldTask, Values DEF Following, Accepted
  <2> DEFINE q == [job[j] EXCEPT !.status = Following(pass[j].seen), !.task = pass[j].got,
                                 !.sub = "submitted", !.risk = FALSE, !.safe = FALSE]
  <2>2. q \in Records BY <1>a, <2>1, RecordsKept
  <2>3. Cleared(q) \in Records
    <3> HIDE DEF q
    <3> QED BY <2>2, RecordsKept, Values
  <2>4. job' \in [Jobs -> Records] BY <1>16, <1>a, <2>3, UpdateTyped DEF RecordTask
  <2>5. pass' \in [Jobs -> Passes] BY <1>16, <1>a, <1>b, <2>3, Ways DEF RecordTask
  <2> QED BY <1>16, <1>a, <2>4, <2>5 DEF RecordTask, Types
<1>17. ASSUME ResumeTask(j) PROVE Types'
  <2>1. job' \in [Jobs -> Records] BY <1>17, <1>a, RecordsKept, UpdateTyped, Values DEF ResumeTask, Types
  <2>2. pass' \in [Jobs -> Passes] BY <1>17, <1>a, <1>b, Ways DEF ResumeTask, Types
  <2> QED BY <1>17, <1>a, <2>1, <2>2 DEF ResumeTask, Types
<1>18. ASSUME Poll(j) PROVE Types'
  <2>1. job[j].task \in Tasks BY <1>18, <1>a, HeldTask DEF Poll, Named, Knowing
  <2>2. used' \in [actions : Nat, kills : Nat, errors : Nat, lists : Nat]
    BY <1>18, <1>a, SpendTyped DEF Poll, Types
  <2>3. pass' \in [Jobs -> Passes] BY <1>18, <1>a, <1>b, <2>1, Ways DEF Poll
  <2>4. job' \in [Jobs -> Records] BY <1>18, <1>a, RecordsKept, UpdateTyped, Values DEF Poll, Types
  <2> QED BY <1>18, <1>a, <2>2, <2>3, <2>4 DEF Poll, Types
<1>19. ASSUME RecordPoll(j) PROVE Types'
  <2>1. job' \in [Jobs -> Records]
    <3> DEFINE r == Cleared([job[j] EXCEPT !.status = "polling"])
    <3>1. r \in Records /\ [r EXCEPT !.status = "cancelled"] \in Records
      <4>1. r \in Records BY <1>a, RecordsKept, Values
      <4> QED BY <4>1, RecordsKept, Values
    <3>2. Update(j, [r EXCEPT !.status = "cancelled"]) \/ UpdateRunnable(j, r) BY <1>19 DEF RecordPoll
    <3> HIDE DEF r
    <3> QED BY <1>a, <3>1, <3>2, UpdateTyped
  <2>2. pass' \in [Jobs -> Passes] BY <1>19, <1>a, <1>b, Ways DEF RecordPoll, Types
  <2> QED BY <1>19, <1>a, <2>1, <2>2 DEF RecordPoll, Types
<1>20. ASSUME SettleWithoutTask(j) PROVE Types'
  <2>1. job' \in [Jobs -> Records]
    BY <1>20, <1>a, RecordsKept, UpdateTyped, Values DEF SettleWithoutTask, Types
  <2>2. pass' \in [Jobs -> Passes] BY <1>20, <1>a, <1>b, Ways DEF SettleWithoutTask, Types
  <2> QED BY <1>20, <1>a, <2>1, <2>2 DEF SettleWithoutTask, Types
<1>21. ASSUME AskCancel(j) PROVE Types'
  <2> DEFINE t == pass[j].snap.task
  <2>1. t \in Tasks BY <1>21, <1>a, HeldTask DEF AskCancel
  <2>2. [Idle EXCEPT !.pc = "settle", !.by = pass[j].by, !.got = t, !.seen = "cancelled"] \in Passes
    <3>1. t \in 0 .. MaxTasks /\ "cancelled" \in States BY <2>1, Bounds, Values DEF Tasks, Accepted
    <3> HIDE DEF t
    <3> QED BY <1>a, <3>1, NoJobTyped, HeldTask DEF Passes, Labels
  <2>3. task' \in [Tasks -> [of : 0 .. MaxJobs, state : States]]
    <3>1. "cancelled" \in States BY Values DEF Accepted
    <3>2. UNCHANGED task \/ task' = [task EXCEPT ![t].state = "cancelled"] BY <1>21 DEF AskCancel
    <3> QED BY <1>a, <2>1, <3>1, <3>2, TaskTyped DEF Types
  <2>4. pass' \in [Jobs -> Passes]
    <3>1. \/ GoWith(j, "settle", t) \/ Throw(j, "transient")
          \/ pass' = [pass EXCEPT ![j] = [Idle EXCEPT !.pc = "settle", !.by = pass[j].by, !.got = t,
               !.seen = "cancelled"]]
      BY <1>21 DEF AskCancel
    <3> HIDE DEF t
    <3> QED BY <1>a, <1>b, <2>1, <2>2, <3>1, Ways DEF Types
  <2>5. used' \in [actions : Nat, kills : Nat, errors : Nat, lists : Nat]
    BY <1>21, <1>a, SpendTyped DEF AskCancel, Types
  <2> QED BY <1>21, <1>a, <2>3, <2>4, <2>5 DEF AskCancel, Types
<1>22. ASSUME RecordSettled(j) PROVE Types'
  <2>1. job' \in [Jobs -> Records] BY <1>22, <1>a, RecordsKept, UpdateTyped, Values DEF RecordSettled, Types
  <2>2. pass' \in [Jobs -> Passes] BY <1>22, <1>a, <1>b, Ways DEF RecordSettled, Types
  <2> QED BY <1>22, <1>a, <2>1, <2>2 DEF RecordSettled, Types
<1>23. ASSUME Download(j) PROVE Types'
  <2>1. job' \in [Jobs -> Records] BY <1>23, <1>a, RecordsKept, UpdateTyped, Values DEF Download, Types
  <2>2. pass' \in [Jobs -> Passes] BY <1>23, <1>a, <1>b, Ways DEF Download, Types
  <2> QED BY <1>23, <1>a, <2>1, <2>2 DEF Download, Types
<1>24. ASSUME Fetch(j) PROVE Types'
  <2>1. pass' \in [Jobs -> Passes] BY <1>24, <1>a, <1>b, Ways DEF Fetch, Types
  <2>2. used' \in [actions : Nat, kills : Nat, errors : Nat, lists : Nat]
    BY <1>24, <1>a, SpendTyped DEF Fetch, Types
  <2> QED BY <1>24, <1>a, <2>1, <2>2 DEF Fetch, Types
<1>25. ASSUME Land(j) PROVE Types'
  <2>1. job' \in [Jobs -> Records] BY <1>25, <1>a, RecordsKept, UpdateTyped, Values DEF Land, Types
  <2>2. pass' \in [Jobs -> Passes] BY <1>25, <1>a, <1>b, Ways DEF Land, Types
  <2> QED BY <1>25, <1>a, <2>1, <2>2 DEF Land, Types
<1>26. ASSUME Catch(j) PROVE Types'
  <2>1. [pass[j] EXCEPT !.pc = "catch", !.snap = job[j]] \in Passes 
    <3>1. pass[j] \in Passes BY <1>a DEF Types
    <3> QED BY <1>a, <3>1 DEF Passes, Labels
  <2>2. pass' \in [Jobs -> Passes] BY <1>26, <1>a, <2>1, Ways DEF Catch, Types
  <2> QED BY <1>26, <1>a, <2>2 DEF Catch, Types
<1>27. ASSUME RecordFailure(j) PROVE Types'
  <2>1. FailurePatch(pass[j].snap, pass[j].err) \in Records BY <1>a, FailureTyped
  <2>2. job' \in [Jobs -> Records] BY <1>27, <1>a, <2>1, UpdateTyped DEF RecordFailure, Types
  <2>3. pass' \in [Jobs -> Passes] BY <1>27, <1>a, Ways DEF RecordFailure
  <2> QED BY <1>27, <1>a, <2>2, <2>3 DEF RecordFailure, Types
<1>28. ASSUME Terminate(j) PROVE Types'
  <2>1. pass' \in [Jobs -> Passes] BY <1>28, <1>a, <1>b, Ways DEF Terminate, Types
  <2> QED BY <1>28, <1>a, <2>1 DEF Terminate, Types
<1>29. ASSUME FinishStop(j) PROVE Types'
  <2>1. job' \in [Jobs -> Records] BY <1>29, <1>a, RecordsKept, UpdateTyped, Values DEF FinishStop, Types
  <2> QED BY <1>29, <1>a, <2>1 DEF FinishStop, Types
<1>30. ASSUME Expire(j) PROVE Types'
  <2>1. job' \in [Jobs -> Records] BY <1>30, <1>a, RecordsKept, UpdateTyped, Values DEF Expire, Types
  <2> QED BY <1>30, <1>a, <2>1 DEF Expire, Types
<1>31. ASSUME Apply(j) PROVE Types'
  <2>1. job' \in [Jobs -> Records] BY <1>31, <1>a, RecordsKept, UpdateTyped, Values DEF Apply, Types
  <2> QED BY <1>31, <1>a, <2>1 DEF Apply, Types
<1>32. ASSUME Scan(j) PROVE Types'
  <2>1. pass' \in [Jobs -> Passes] BY <1>32, <1>a, <1>b, Ways DEF Scan, Types
  <2> QED BY <1>32, <1>a, <2>1 DEF Scan, Types
<1>33. ASSUME StartWorker(j) PROVE Types'
  <2>1. pass' \in [Jobs -> Passes] BY <1>33, <1>a, <1>b, Ways DEF StartWorker, Types
  <2> QED BY <1>33, <1>a, <2>1 DEF StartWorker, Types
<1>34. ASSUME Kill(j) PROVE Types'
  <2>1. pass' \in [Jobs -> Passes] BY <1>34, <1>a, <1>b, Ways DEF Kill, Types
  <2>2. used' \in [actions : Nat, kills : Nat, errors : Nat, lists : Nat]
    BY <1>34, <1>a, SpendTyped DEF Kill, Types
  <2> QED BY <1>34, <1>a, <2>1, <2>2 DEF Kill, Types
<1>35. ASSUME RecordExit(j) PROVE Types'
  <2> DEFINE unsure == job[j].task = 0 /\ job[j].sub \in {"submitting", "uncertain"}
             status == IF job[j].task # 0 \/ unsure THEN "retry_required" ELSE "failed"
             risk == job[j].risk \/ unsure
             sub == IF unsure THEN "uncertain" ELSE job[j].sub
             r == [job[j] EXCEPT !.status = status, !.exhausted = TRUE, !.risk = risk, !.sub = sub]
  <2>1. r \in Records
    <3>1. status \in Statuses /\ risk \in BOOLEAN /\ sub \in Submissions BY <1>c, Values
    <3> HIDE DEF status, risk, sub
    <3> QED BY <1>a, <3>1, RecordsKept
  <2>2. job' \in [Jobs -> Records]
    <3>1. UNCHANGED job \/ Update(j, r) BY <1>35 DEF RecordExit
    <3> HIDE DEF r
    <3> QED BY <1>a, <2>1, <3>1, UpdateTyped DEF Types
  <2> QED BY <1>35, <1>a, <2>2 DEF RecordExit, Types
<1> QED BY <1>1, <1>2, <1>3, <1>4, <1>5, <1>6, <1>7, <1>8, <1>9, <1>10, <1>11, <1>12, <1>13, <1>14, <1>15,
    <1>16, <1>17, <1>18, <1>19, <1>20, <1>21, <1>22, <1>23, <1>24, <1>25, <1>26, <1>27, <1>28, <1>29, <1>30,
    <1>31, <1>32, <1>33, <1>34, <1>35 DEF User, Step, Service

IdleAs(p, pc) == p.pc = pc /\ p.snap = NoJob /\ p.got = 0

LEMMA IdleFields == /\ Idle.pc = "idle" /\ Idle.snap = NoJob /\ Idle.got = 0 /\ Idle.err = "none"
                    /\ NoJob.task = 0 /\ NoJob.status = "none" /\ NoJob.kind = "api" /\ ~ NoJob.safe /\
                         ~ NoJob.stopped
                    /\ ~ NoJob.tried /\ ~ NoJob.explicit
  BY DEF Idle, NoJob

(* What the ways to change a record and to go on come to, for their job.   *)
LEMMA Effects ==
  ASSUME Types, NEW j \in Jobs
  PROVE  /\ \A r \in Records : Update(j, r) => job'[j] = r
         /\ \A r \in Records : UpdateRunnable(j, r) => job'[j] = IF Runnable(job[j]) THEN r ELSE job[j]
         /\ Leave(j) => pass'[j] = Idle
         /\ \A pc \in Labels : Go(j, pc) => IdleAs(pass'[j], pc)
         /\ \A err \in Errors : Throw(j, err) => IdleAs(pass'[j], "throw") /\ pass'[j].err = err
         /\ \A r \in Records : Settle(j, r) => pass'[j].pc = "cancel" /\ pass'[j].snap = r /\ pass'[j].got = 0
         /\ \A t \in Tasks, pc \in Labels :
              GoWith(j, pc, t) => /\ pass'[j].pc = pc /\ pass'[j].snap = NoJob /\ pass'[j].got = t
                                  /\ pass'[j].seen = task[t].state
         /\ \A by \in {"own", "scan"} : Pick(j, by) => IdleAs(pass'[j], "locked")
<1>1. pass[j] \in Passes /\ pass \in [Jobs -> Passes] /\ job \in [Jobs -> Records] BY DEF Types
<1> USE DEF IdleAs, Idle
<1>2. \A r \in Records : Update(j, r) => job'[j] = r BY <1>1 DEF Update
<1>3. \A r \in Records : UpdateRunnable(j, r) => job'[j] = IF Runnable(job[j]) THEN r ELSE job[j]
  BY <1>1 DEF Update, UpdateRunnable
<1>4. Leave(j) => pass'[j] = Idle BY <1>1 DEF Leave
<1>5. \A pc \in Labels : Go(j, pc) => IdleAs(pass'[j], pc) BY <1>1 DEF Go
<1>6. \A err \in Errors : Throw(j, err) => IdleAs(pass'[j], "throw") /\ pass'[j].err = err BY <1>1 DEF Throw
<1>7. \A r \in Records : Settle(j, r) => pass'[j].pc = "cancel" /\ pass'[j].snap = r /\ pass'[j].got = 0
  BY <1>1 DEF Settle
<1>8. \A t \in Tasks, pc \in Labels :
              GoWith(j, pc, t) => /\ pass'[j].pc = pc /\ pass'[j].snap = NoJob /\ pass'[j].got = t
                                  /\ pass'[j].seen = task[t].state
  BY <1>1 DEF GoWith
<1>9. \A by \in {"own", "scan"} : Pick(j, by) => IdleAs(pass'[j], "locked") BY <1>1 DEF Pick
<1> QED BY <1>2, <1>3, <1>4, <1>5, <1>6, <1>7, <1>8, <1>9

(* Most actions change a record mildly: it is not tried for the first      *)
(* time, no new right to submit appears in it, no uncertainty leaves it,   *)
(* what was stopped stays stopped. Mild says which ones; Resume and the    *)
(* five that write an outcome have a lemma each.                           *)
Milder(r, q) ==
  /\ q.kind = r.kind /\ q.task = r.task /\ q.tried = r.tried
  /\ q.explicit => r.explicit
  /\ q.safe => r.safe
  /\ q.sub \in {r.sub, "uncertain"} /\ (r.risk => q.risk)
  /\ (r.stopped => q.stopped)
  /\ q.status = "submitting" => r.status = "submitting"
  /\ q.status = "none" => q = r

LEMMA MilderSelf == ASSUME NEW r PROVE Milder(r, r)
  BY DEF Milder

LEMMA Mild ==
  ASSUME Sensible, NEW j \in Jobs,
         Cancel(j) \/ Dismiss(j) \/ Reconcile(j) \/ BeginStop(j) \/ EndLease(j) \/ Refuse(j) \/ Probe(j) \/
           ResumeTask(j) \/ Poll(j) \/ RecordPoll(j) \/ SettleWithoutTask(j) \/ RecordSettled(j) \/
             Download(j) \/ FinishStop(j) \/ Expire(j) \/ Apply(j) \/ RecordExit(j) \/ Enter(j) \/
               AskList(j) \/ Submit(j) \/ Answered(j) \/ TimeOut(j) \/ AskCancel(j) \/ Fetch(j) \/ Catch(j) \/
                 Terminate(j) \/ Scan(j) \/ StartWorker(j) \/ Kill(j)
  PROVE  Milder(job[j], job'[j])
<1>a. job[j] \in Records /\ job \in [Jobs -> Records] /\ Blank(j) BY DEF Sensible, Types, Sound
<1> USE DEF Milder, Records, Update, UpdateRunnable
<1>1. CASE Cancel(j)
  <2>1. Milder(job[j], Cancelled(job[j])) /\
          Milder(job[j], [Cancelled(job[j]) EXCEPT !.status = "cancel_requested"])
    BY <1>a DEF Cancelled
  <2>2. job'[j] \in {Cancelled(job[j]), [Cancelled(job[j]) EXCEPT !.status = "cancel_requested"]}
    BY <1>a, <1>1 DEF Cancel
  <2> HIDE DEF Milder
  <2> QED BY <2>1, <2>2
<1>2. CASE Dismiss(j)
  <2>1. Milder(job[j], Cancelled(job[j])) /\ Milder(job[j], [job[j] EXCEPT !.stopped = TRUE])
    BY <1>a, <1>2 DEF Cancelled, Dismiss, CanBeDismissed, CanBeAbandoned, Blank, NoJob, Waiting
  <2>2. job'[j] \in {Cancelled(job[j]), [job[j] EXCEPT !.stopped = TRUE]}
    BY <1>a, <1>2 DEF Dismiss, Abandoned
  <2> HIDE DEF Milder
  <2> QED BY <2>1, <2>2
<1>3. CASE Reconcile(j) BY <1>a, <1>3 DEF Reconcile, Cleared
<1>4. CASE BeginStop(j) BY <1>a, <1>4 DEF BeginStop, Blank, NoJob
<1>5. CASE EndLease(j) BY <1>a, <1>5 DEF EndLease
<1>6. CASE Refuse(j) BY <1>a, <1>6 DEF Refuse
<1>7. CASE Probe(j) BY <1>a, <1>7 DEF Probe, Blank, NoJob
<1>8. CASE ResumeTask(j)
  <2>1. \A s \in {"polling", "downloading"} : Milder(job[j], [job[j] EXCEPT !.status = s, !.explicit = FALSE])
    BY <1>a
  <2>2. job'[j] = job[j] \/ \E s \in {"polling", "downloading"} :
          job'[j] = [job[j] EXCEPT !.status = s, !.explicit = FALSE]
    BY <1>a, <1>8 DEF ResumeTask
  <2> HIDE DEF Milder
  <2> QED BY <2>1, <2>2, MilderSelf
<1>9. CASE Poll(j) BY <1>a, <1>9 DEF Poll, Blank, NoJob
<1>10. CASE RecordPoll(j)
  <2> DEFINE r == Cleared([job[j] EXCEPT !.status = "polling"])
  <2>1. Milder(job[j], r) /\ Milder(job[j], [r EXCEPT !.status = "cancelled"]) BY <1>a DEF Cleared
  <2>2. job'[j] \in {job[j], r, [r EXCEPT !.status = "cancelled"]}
    <3>1. Update(j, [r EXCEPT !.status = "cancelled"]) \/ UpdateRunnable(j, r) BY <1>10 DEF RecordPoll
    <3> HIDE DEF r
    <3> QED BY <1>a, <3>1
  <2> QED BY <2>1, <2>2, MilderSelf
<1>11. CASE SettleWithoutTask(j) BY <1>a, <1>11 DEF SettleWithoutTask
<1>12. CASE RecordSettled(j) BY <1>a, <1>12 DEF RecordSettled
<1>13. CASE Download(j) BY <1>a, <1>13 DEF Download
<1>14. CASE FinishStop(j) BY <1>a, <1>14 DEF FinishStop, Cancelled, Blank, NoJob
<1>15. CASE Expire(j) BY <1>a, <1>15 DEF Expire, Cancelled, Blank, NoJob
<1>16. CASE Apply(j) BY <1>a, <1>16 DEF Apply, Blank, NoJob
<1>17. CASE RecordExit(j)
  <2> DEFINE unsure == job[j].task = 0 /\ job[j].sub \in {"submitting", "uncertain"}
             status == IF job[j].task # 0 \/ unsure THEN "retry_required" ELSE "failed"
             risk == job[j].risk \/ unsure
             sub == IF unsure THEN "uncertain" ELSE job[j].sub
             r == [job[j] EXCEPT !.status = status, !.exhausted = TRUE, !.risk = risk, !.sub = sub]
  <2>1. /\ status \in {"retry_required", "failed"} /\ (job[j].risk => risk)
        /\ sub \in {job[j].sub, "uncertain"}
    OBVIOUS
  <2>2. Milder(job[j], r)
    <3> HIDE DEF status, risk, sub
    <3> QED BY <1>a, <2>1
  <2>3. UNCHANGED job \/ Update(j, r) BY <1>17 DEF RecordExit
  <2> HIDE DEF r
  <2> QED BY <1>a, <2>2, <2>3, MilderSelf
<1>18. CASE Enter(j) \/ AskList(j) \/ Submit(j) \/ Answered(j) \/ TimeOut(j) \/ AskCancel(j) \/ Fetch(j) \/
              Catch(j) \/ Terminate(j) \/ Scan(j) \/ StartWorker(j) \/ Kill(j)
  <2>1. UNCHANGED job
    BY <1>18 DEF Enter, AskList, Submit, Answered, TimeOut, AskCancel, Fetch, Catch, Terminate, Scan,
      StartWorker, Kill
  <2> QED BY <2>1, MilderSelf
<1> QED BY <1>1, <1>2, <1>3, <1>4, <1>5, <1>6, <1>7, <1>8, <1>9, <1>10, <1>11, <1>12, <1>13, <1>14, <1>15,
    <1>16, <1>17, <1>18

(* What a step of one job leaves to another.                               *)
Others(k) ==
  /\ job'[k] = job[k] /\ pass'[k] = pass[k] /\ confirmed'[k] = confirmed[k]
  /\ \A t \in Tasks : task[t].of = k \/ task'[t].of = k => task'[t] = task[t]
  /\ used'.lists \in {used.lists, used.lists + 1}

LEMMA OthersStay ==
  ASSUME Sensible, NEW j \in Jobs, User(j) \/ Step(j) \/ Service(j), NEW k \in Jobs, k # j
  PROVE  Others(k)
<1>a. /\ job \in [Jobs -> Records] /\ pass \in [Jobs -> Passes] /\
           task \in [Tasks -> [of : 0 .. MaxJobs, state : States]]
      /\ confirmed \in [Jobs -> Nat] /\ used \in [actions : Nat, kills : Nat, errors : Nat, lists : Nat]
      /\ Held(j) /\ Named(j) /\ (\A t \in Tasks : task[t].state = "none" => task[t].of = 0)
  BY DEF Sensible, Types, Sound, Unused
<1> USE DEF Others, Update, UpdateRunnable, Go, Leave, Settle, GoWith, Throw, Pick, Erring, Acting, Spend,
      server
<1>1. CASE Cancel(j) BY <1>a, <1>1 DEF Cancel
<1>2. CASE Dismiss(j) BY <1>a, <1>2 DEF Dismiss
<1>3. CASE Resume(j) BY <1>a, <1>3 DEF Resume
<1>4. CASE Reconcile(j) BY <1>a, <1>4 DEF Reconcile
<1>5. CASE BeginStop(j) BY <1>a, <1>5 DEF BeginStop
<1>6. CASE Enter(j) BY <1>a, <1>6 DEF Enter
<1>7. CASE EndLease(j) BY <1>a, <1>7 DEF EndLease
<1>8. CASE AskList(j)
  <2>1. pass'[k] = pass[k] BY <1>a, <1>8 DEF AskList
  <2>2. used'.lists \in {used.lists, used.lists + 1}
    <3>1. used' \in {used, [used EXCEPT !.errors = @ + 1], [used EXCEPT !.errors = @ + 1, !.lists = @ + 1]}
      BY <1>8 DEF AskList
    <3>2. used.lists \in Nat BY <1>a
    <3>3. [used EXCEPT !.errors = @ + 1].lists = used.lists BY <1>a
    <3>4. [used EXCEPT !.errors = @ + 1, !.lists = @ + 1].lists = used.lists + 1 BY <1>a
    <3> QED BY <3>1, <3>2, <3>3, <3>4
  <2> QED BY <1>8, <2>1, <2>2 DEF AskList
<1>9. CASE RecordFound(j) BY <1>a, <1>9 DEF RecordFound
<1>10. CASE Refuse(j) BY <1>a, <1>10 DEF Refuse
<1>11. CASE Probe(j)
  <2>1. pass'[k] = pass[k] BY <1>a, <1>11 DEF Probe
  <2>2. job'[k] = job[k] BY <1>a, <1>11 DEF Probe
  <2>3. used'.lists \in {used.lists, used.lists + 1}
    <3>1. used' \in {used, [used EXCEPT !.errors = @ + 1]} BY <1>11 DEF Probe
    <3>2. used.lists \in Nat BY <1>a
    <3>3. [used EXCEPT !.errors = @ + 1].lists = used.lists BY <1>a
    <3> QED BY <3>1, <3>2, <3>3
  <2> QED BY <1>11, <2>1, <2>2, <2>3 DEF Probe
<1>12. CASE MarkSubmitting(j) BY <1>a, <1>12 DEF MarkSubmitting
<1>13. CASE Submit(j)
  <2>1. pass'[k] = pass[k] BY <1>a, <1>13 DEF Submit
  <2>2. \A t \in Tasks : task[t].of = k \/ task'[t].of = k => task'[t] = task[t]
    <3>1. CASE UNCHANGED task BY <3>1
    <3>2. CASE \E u \in Tasks : task[u].state = "none" /\
                 task' = [task EXCEPT ![u] = [of |-> j, state |-> "sent"]]
      <4>1. PICK u \in Tasks : task[u].state = "none" /\
                   task' = [task EXCEPT ![u] = [of |-> j, state |-> "sent"]]
        BY <3>2
      <4>2. task[u].of = 0 BY <4>1, <1>a
      <4> QED BY <1>a, <4>1, <4>2 DEF Jobs
    <3> QED BY <1>13, <3>1, <3>2 DEF Submit
  <2>3. used'.lists \in {used.lists, used.lists + 1} /\ UNCHANGED <<job, confirmed>> BY <1>a, <1>13 DEF Submit
  <2> QED BY <2>1, <2>2, <2>3
<1>14. CASE Answered(j)
  <2>1. pass'[k] = pass[k] BY <1>a, <1>14 DEF Answered
  <2>2. task[pass[j].got].of = j BY <1>a, <1>14 DEF Answered, Held, Holding
  <2>3. \A t \in Tasks : task[t].of = k \/ task'[t].of = k => task'[t] = task[t]
    <3>1. UNCHANGED task \/ task' = [task EXCEPT ![pass[j].got] = [of |-> 0, state |-> "none"]]
      BY <1>14 DEF Answered
    <3> QED BY <1>a, <2>2, <3>1 DEF Jobs
  <2>4. used'.lists \in {used.lists, used.lists + 1} /\ UNCHANGED <<job, confirmed>>
    BY <1>a, <1>14 DEF Answered
  <2> QED BY <2>1, <2>3, <2>4
<1>15. CASE TimeOut(j) BY <1>a, <1>15 DEF TimeOut
<1>16. CASE RecordTask(j) BY <1>a, <1>16 DEF RecordTask
<1>17. CASE ResumeTask(j) BY <1>a, <1>17 DEF ResumeTask
<1>18. CASE Poll(j) BY <1>a, <1>18 DEF Poll
<1>19. CASE RecordPoll(j) BY <1>a, <1>19 DEF RecordPoll
<1>20. CASE SettleWithoutTask(j) BY <1>a, <1>20 DEF SettleWithoutTask
<1>21. CASE AskCancel(j) BY <1>a, <1>21, HeldTask DEF AskCancel, Named
<1>22. CASE RecordSettled(j) BY <1>a, <1>22 DEF RecordSettled
<1>23. CASE Download(j) BY <1>a, <1>23 DEF Download
<1>24. CASE Fetch(j) BY <1>a, <1>24 DEF Fetch
<1>25. CASE Land(j) BY <1>a, <1>25 DEF Land
<1>26. CASE Catch(j) BY <1>a, <1>26 DEF Catch
<1>27. CASE RecordFailure(j) BY <1>a, <1>27 DEF RecordFailure
<1>28. CASE Terminate(j) BY <1>a, <1>28 DEF Terminate
<1>29. CASE FinishStop(j) BY <1>a, <1>29 DEF FinishStop
<1>30. CASE Expire(j) BY <1>a, <1>30 DEF Expire
<1>31. CASE Apply(j) BY <1>a, <1>31 DEF Apply
<1>32. CASE Scan(j) BY <1>a, <1>32 DEF Scan
<1>33. CASE StartWorker(j) BY <1>a, <1>33 DEF StartWorker
<1>34. CASE Kill(j) BY <1>a, <1>34 DEF Kill
<1>35. CASE RecordExit(j) BY <1>a, <1>35 DEF RecordExit
<1> QED BY <1>1, <1>2, <1>3, <1>4, <1>5, <1>6, <1>7, <1>8, <1>9, <1>10, <1>11, <1>12, <1>13, <1>14, <1>15,
    <1>16, <1>17, <1>18, <1>19, <1>20, <1>21, <1>22, <1>23, <1>24, <1>25, <1>26, <1>27, <1>28, <1>29, <1>30,
    <1>31, <1>32, <1>33, <1>34, <1>35 DEF User, Step, Service

Rest(r, q) ==
  /\ q.kind = r.kind /\ q.explicit = r.explicit /\ q.stopped = r.stopped

(* What Resume does to the record and to the count of confirmations.       *)
LEMMA Resumed ==
  ASSUME Sensible, NEW j \in Jobs, Resume(j)
  PROVE  LET r == job[j]  q == job'[j] IN
         /\ q.kind = r.kind /\ q.task = r.task /\ q.tried = r.tried /\ q.sub = r.sub /\ q.risk = r.risk
         /\ ~ r.stopped /\ q.stopped = r.stopped
         /\ r.status \in Waiting /\ q.status \in {"queued", "polling"}
         /\ q.explicit <=> r.task = 0
         /\ q.safe => r.safe
         /\ \/ r.task # 0
            \/ confirmed'[j] = confirmed[j] + 1
            \/ SafeToResubmit(r)
         /\ r.task # 0 => q.safe = r.safe
         /\ confirmed'[j] \in {confirmed[j], confirmed[j] + 1}
<1> DEFINE r == job[j]
           e == [r EXCEPT !.explicit = (r.task = 0)]
           c == Cleared(e)
<1>1. r \in Records /\ job \in [Jobs -> Records] /\ confirmed \in [Jobs -> Nat] BY DEF Sensible, Types
<1>2. /\ e \in Records
      /\ e.kind = r.kind /\ e.task = r.task /\ e.tried = r.tried /\ e.sub = r.sub /\ e.risk = r.risk /\
           e.safe = r.safe
      /\ e.stopped = r.stopped /\ (e.explicit <=> r.task = 0)
  <2>1. e \in Records BY <1>1, RecordsKept, Values
  <2> QED BY <1>1, <2>1 DEF Records
<1>3. /\ c \in Records
      /\ c.kind = e.kind /\ c.task = e.task /\ c.tried = e.tried /\ c.sub = e.sub /\ c.risk = e.risk /\
           c.safe = e.safe
      /\ c.stopped = e.stopped /\ c.explicit = e.explicit
  <2> HIDE DEF e
  <2>1. c \in Records BY <1>2, RecordsKept, Values
  <2> QED BY <1>2, <2>1 DEF Records, Cleared
<1>4. /\ ~ r.stopped /\ r.status \in Waiting
      /\ \/ r.task # 0 /\ job'[j] = [c EXCEPT !.status = "polling"] /\ confirmed' = confirmed
         \/ /\ job'[j] = [c EXCEPT !.status = "queued", !.safe = (@ /\ ~ SafeToResubmit(c))]
            /\ r.task = 0
            /\ confirmed'[j] = IF SafeToResubmit(c) THEN confirmed[j] ELSE confirmed[j] + 1
  <2>1. c.task = r.task BY <1>2, <1>3
  <2>2. /\ ~ r.stopped /\ r.status \in Waiting
        /\ \/ c.task # 0 /\ job' = [job EXCEPT ![j] = [c EXCEPT !.status = "polling"]] /\ confirmed' = confirmed
           \/ /\ c.task = 0
              /\ job' = [job EXCEPT ![j] = [c EXCEPT !.status = "queued", !.safe = (@ /\ ~ SafeToResubmit(c))]]
              /\ confirmed' = [confirmed EXCEPT ![j] = IF SafeToResubmit(c) THEN @ ELSE @ + 1]
    BY DEF Resume, Update
  <2> HIDE DEF c, r
  <2> QED BY <1>1, <2>1, <2>2
<1>5. SafeToResubmit(c) => SafeToResubmit(r) BY <1>2, <1>3 DEF SafeToResubmit
<1>6. CASE r.task # 0 /\ job'[j] = [c EXCEPT !.status = "polling"] /\ confirmed' = confirmed
  <2> HIDE DEF c, e, r
  <2> QED BY <1>2, <1>3, <1>4, <1>6 DEF Records, r
<1>7. CASE /\ job'[j] = [c EXCEPT !.status = "queued", !.safe = (@ /\ ~ SafeToResubmit(c))]
           /\ r.task = 0
           /\ confirmed'[j] = IF SafeToResubmit(c) THEN confirmed[j] ELSE confirmed[j] + 1
  <2> DEFINE s == c.safe /\ ~ SafeToResubmit(c)
  <2>1. s => c.safe OBVIOUS
  <2>2. job'[j] = [c EXCEPT !.status = "queued", !.safe = s] BY <1>7
  <2> HIDE DEF c, e, r, s
  <2> QED BY <1>2, <1>3, <1>4, <1>5, <1>7, <2>1, <2>2 DEF Records, r
<1> QED BY <1>4, <1>6, <1>7

(* What RecordFound writes.                                                *)
LEMMA Found ==
  ASSUME Sensible, NEW j \in Jobs, RecordFound(j)
  PROVE  LET r == job[j]  q == job'[j] IN
         /\ Rest(r, q) /\ q.tried = r.tried /\ q.safe = r.safe
         /\ q.task = pass[j].got /\ q.sub = "submitted" /\ ~ q.risk /\ q.status = Following(pass[j].seen)
<1>1. job[j] \in Records /\ job \in [Jobs -> Records] BY DEF Sensible, Types
<1> QED BY <1>1 DEF Records, RecordFound, Update, Rest

(* What RecordTask writes, and where the pass goes on.                     *)
LEMMA TaskNoted ==
  ASSUME Sensible, NEW j \in Jobs, RecordTask(j)
  PROVE  LET r == job[j]  q == job'[j] IN
         /\ Rest(r, q) /\ q.tried = r.tried /\ ~ q.safe
         /\ q.task = pass[j].got /\ q.sub = "submitted" /\ ~ q.risk /\ q.status = Following(pass[j].seen)
         /\ \/ Leave(j) \/ Go(j, "download") \/ Go(j, "poll")
            \/ Settle(j, q)
<1> DEFINE r == [job[j] EXCEPT !.status = Following(pass[j].seen), !.task = pass[j].got,
                               !.sub = "submitted", !.risk = FALSE, !.safe = FALSE]
<1>1. job[j] \in Records /\ job \in [Jobs -> Records] BY DEF Sensible, Types
<1>2. /\ job'[j] = Cleared(r)
      /\ Leave(j) \/ Go(j, "download") \/ Go(j, "poll") \/ Settle(j, Cleared(r))
  BY <1>1 DEF RecordTask, Update
<1>3. /\ Rest(job[j], Cleared(r)) /\ Cleared(r).tried = job[j].tried /\ ~ Cleared(r).safe
      /\ Cleared(r).task = pass[j].got /\ Cleared(r).sub = "submitted" /\ ~ Cleared(r).risk
      /\ Cleared(r).status = Following(pass[j].seen)
  BY <1>1 DEF Records, Cleared, Rest
<1> HIDE DEF r
<1> QED BY <1>2, <1>3

(* What MarkSubmitting writes, if the job still runs.                      *)
LEMMA SubmissionMarked ==
  ASSUME Sensible, NEW j \in Jobs, MarkSubmitting(j)
  PROVE  LET r == job[j]  q == job'[j] IN
         \/ q = r /\ ~ Runnable(r)
         \/ /\ Rest(r, q) /\ q.tried /\ q.safe = r.safe /\ q.task = r.task /\ q.risk = r.risk
            /\ q.sub = "submitting" /\ q.status = "submitting" /\ ~ r.stopped
<1>1. job[j] \in Records /\ job \in [Jobs -> Records] BY DEF Sensible, Types
<1>2. CASE ~ Runnable(job[j]) BY <1>2 DEF MarkSubmitting, UpdateRunnable
<1>3. CASE Runnable(job[j])
  <2>1. job'[j] = [job[j] EXCEPT !.status = "submitting", !.sub = "submitting", !.tried = TRUE]
    BY <1>1, <1>3 DEF MarkSubmitting, UpdateRunnable, Update
  <2>2. ~ job[j].stopped BY <1>3 DEF Runnable
  <2> QED BY <1>1, <2>1, <2>2 DEF Records, Rest
<1> QED BY <1>2, <1>3

(* What Land writes.                                                       *)
LEMMA Landed ==
  ASSUME Sensible, NEW j \in Jobs, Land(j)
  PROVE  LET r == job[j]  q == job'[j] IN
         \/ q = r
         \/ /\ Rest(r, q) /\ q.tried = r.tried /\ q.safe = r.safe /\ q.task = r.task
            /\ q.sub = "submitted" /\ ~ q.risk /\ q.status = "complete"
<1>1. job[j] \in Records /\ job \in [Jobs -> Records] BY DEF Sensible, Types
<1>2. job'[j] \in {job[j], [job[j] EXCEPT !.status = "complete", !.sub = "submitted", !.risk = FALSE]}
  BY <1>1 DEF Land, Update
<1> QED BY <1>1, <1>2 DEF Records, Rest

(* What a failure leaves of the record it was found in: only an error that *)
(* says no task exists gives a right to submit or takes an uncertainty     *)
(* away.                                                                   *)
LEMMA FailureFields ==
  ASSUME NEW r \in Records, NEW err \in Errors
  PROVE  LET q == FailurePatch(r, err) IN
         /\ Rest(r, q) /\ q.task = r.task /\ q.tried = r.tried
         /\ ~ Knows(err) => /\ q.safe = r.safe /\ q.sub \in {r.sub, "uncertain"}
                            /\ r.risk => q.risk
         /\ q.status = "submitting" => r.status = "submitting"
         /\ q.status = "none" => r.status = "none"
<1> DEFINE retries == IF r.kind = "cli" THEN r.retries + 1 ELSE 0
           out == r.kind = "cli" /\ retries > RetryLimit
           p == [r EXCEPT !.retries = retries, !.exhausted = out]
           unknown == r.status = "submitting" /\ r.task = 0 /\ ~ Knows(err)
           finding == r.kind = "cli" /\ ~ Knows(err) /\ (unknown \/ OutcomeUnknown(r))
           following == err = "transient" /\ r.task # 0
           cleared == Knows(err) /\ r.task = 0
           status == IF r.task # 0 \/ finding THEN "retry_required" ELSE "failed"
           sub == IF cleared THEN "not_submitted" ELSE p.sub
           risk == p.risk /\ ~ cleared
           sub2 == IF r.kind = "cli" /\ cleared THEN "not_submitted" ELSE r.sub
           risk2 == r.risk \/ unknown
           given2 == r.given /\ ~ unknown
           status2 == IF unknown THEN "retry_required" ELSE "failed"
           status3 == IF r.status = "downloading" THEN p.status ELSE "polling"
<1>1. \/ FailurePatch(r, err) = [p EXCEPT !.status = status, !.sub = sub, !.risk = risk]
      \/ /\ finding
         /\ FailurePatch(r, err) = [p EXCEPT !.status = "retry_required", !.sub = "uncertain",
              !.risk = TRUE, !.given = FALSE]
      \/ FailurePatch(r, err) = [p EXCEPT !.status = status3]
      \/ /\ Knows(err)
         /\ FailurePatch(r, err) = [p EXCEPT !.status = "queued", !.sub = "not_submitted",
              !.risk = FALSE, !.safe = TRUE]
      \/ FailurePatch(r, err) = [r EXCEPT !.status = status2, !.risk = risk2, !.given = given2, !.sub = sub2]
  BY DEF FailurePatch
<1>2. /\ p \in Records
      /\ p.kind = r.kind /\ p.task = r.task /\ p.tried = r.tried /\ p.sub = r.sub /\ p.risk = r.risk /\
           p.safe = r.safe
      /\ p.stopped = r.stopped /\ p.explicit = r.explicit /\ p.status = r.status
  <2>1. retries \in Nat /\ out \in BOOLEAN BY DEF Records
  <2> HIDE DEF retries, out
  <2> QED BY <2>1 DEF Records
<1>3. /\ finding => ~ Knows(err)
      /\ ~ Knows(err) => sub = r.sub /\ sub2 = r.sub /\ (r.risk => risk)
      /\ r.risk => risk2
      /\ status \in {"retry_required", "failed"} /\ status2 \in {"retry_required", "failed"}
      /\ status3 \in {r.status, "polling"}
  BY <1>2 DEF FailurePatch
<1> HIDE DEF p, finding, status, sub, risk, sub2, risk2, given2, status2, status3
<1> USE DEF Rest
<1>5. CASE FailurePatch(r, err) = [p EXCEPT !.status = status, !.sub = sub, !.risk = risk]
  BY <1>2, <1>3, <1>5 DEF Records
<1>6. CASE /\ finding
           /\ FailurePatch(r, err) = [p EXCEPT !.status = "retry_required", !.sub = "uncertain",
                !.risk = TRUE, !.given = FALSE]
  BY <1>2, <1>3, <1>6 DEF Records
<1>7. CASE FailurePatch(r, err) = [p EXCEPT !.status = status3]
  BY <1>2, <1>3, <1>7 DEF Records
<1>8. CASE /\ Knows(err)
           /\ FailurePatch(r, err) = [p EXCEPT !.status = "queued", !.sub = "not_submitted", !.risk = FALSE,
                !.safe = TRUE]
  BY <1>2, <1>3, <1>8 DEF Records
<1>9. CASE FailurePatch(r, err) = [r EXCEPT !.status = status2, !.risk = risk2,
             !.given = given2, !.sub = sub2]
  BY <1>2, <1>3, <1>9 DEF Records
<1> QED BY <1>1, <1>5, <1>6, <1>7, <1>8, <1>9

LEMMA OthersSound ==
  ASSUME Sensible, NEW k \in Jobs, Others(k)
  PROVE  Sound(k)'
<1>1. Sound(k) BY DEF Sensible
<1>2. pass[k].got # 0 => task'[pass[k].got] = task[pass[k].got]
  BY <1>1, HeldTask DEF Others, Sound, Held
<1>3. job[k].task # 0 => task'[job[k].task] = task[job[k].task]
  BY <1>1, HeldTask DEF Others, Sound, Named
<1>4. Held(k)' BY <1>1, <1>2 DEF Others, Sound, Held, Holding
<1>5. Named(k)' BY <1>1, <1>3 DEF Others, Sound, Named
<1>6. Blank(k)' BY <1>1 DEF Others, Sound, Blank
<1> QED BY <1>4, <1>5, <1>6 DEF Sound

(* Sound is kept by every step of its own job.                             *)
LEMMA StepSound ==
  ASSUME Sensible, NEW j \in Jobs, User(j) \/ Step(j) \/ Service(j)
  PROVE  Sound(j)'
<1>a. Types /\ job[j] \in Records /\ pass[j].snap \in Records /\ Held(j) /\ Named(j) /\ Blank(j)
  BY DEF Sensible, Types, Passes, Sound
<1>b. /\ \A pc \in {"resume", "reconcile", "probe", "refuse", "mark", "submit", "download", "poll", "fetch",
           "land", "lease", "found", "record", "settle", "polled"} : pc \in Labels
      /\ \A err \in {"known", "settled", "transient", "fatal", "ended"} : err \in Errors
  BY DEF Labels, Errors
<1> USE DEF Sound, Held, Named, Blank, Holding, Knowing, Seeking, server, IdleAs
<1>1. CASE Cancel(j)
  <2>1. Milder(job[j], job'[j]) BY <1>1, Mild
  <2> QED BY <1>a, <1>b, <1>1, <2>1, Effects, HeldTask, IdleFields DEF Cancel, Milder
<1>2. CASE Dismiss(j)
  <2>1. Milder(job[j], job'[j]) BY <1>2, Mild
  <2> QED BY <1>a, <1>b, <1>2, <2>1, Effects, HeldTask, IdleFields DEF Dismiss, Milder
<1>3. CASE Resume(j)
  <2>1. pass' = pass /\ task' = task BY <1>3 DEF Resume
  <2>2. job'[j].task = job[j].task /\ job'[j].status # "none" /\ job[j].status # "none"
    BY <1>3, <1>a, Resumed DEF Waiting
  <2> QED BY <1>a, <2>1, <2>2
<1>4. CASE Reconcile(j)
  <2>1. Milder(job[j], job'[j]) BY <1>4, Mild
  <2> QED BY <1>a, <1>b, <1>4, <2>1, Effects, HeldTask, IdleFields DEF Reconcile, Milder
<1>5. CASE BeginStop(j)
  <2>1. Milder(job[j], job'[j]) BY <1>5, Mild
  <2> QED BY <1>a, <1>b, <1>5, <2>1, Effects, HeldTask, IdleFields DEF BeginStop, Milder
<1>6. CASE Enter(j)
  <2>1. Milder(job[j], job'[j]) BY <1>6, Mild
  <2> QED BY <1>a, <1>b, <1>6, <2>1, Effects, HeldTask, IdleFields DEF Enter, Milder
<1>7. CASE EndLease(j)
  <2>1. Milder(job[j], job'[j]) BY <1>7, Mild
  <2> QED BY <1>a, <1>b, <1>7, <2>1, Effects, HeldTask, IdleFields DEF EndLease, Milder
<1>8. CASE AskList(j)
  <2>1. Milder(job[j], job'[j]) BY <1>8, Mild
  <2>2. UNCHANGED <<job, task>> BY <1>8 DEF AskList
  <2>3. \/ \E t \in Paid(j) : GoWith(j, "found", t)
        \/ \E err \in Errors : Throw(j, err)
    BY <1>8, <1>b DEF AskList
  <2>4. CASE \E t \in Paid(j) : GoWith(j, "found", t)
    <3>1. PICK t \in Paid(j) : GoWith(j, "found", t) BY <2>4
    <3>2. t \in Tasks /\ task[t].of = j /\ task[t].state \in Accepted /\ t # 0 BY Bounds DEF Paid, Tasks
    <3>3. pass'[j].pc = "found" /\ pass'[j].snap = NoJob /\ pass'[j].got = t /\ pass'[j].seen = task[t].state
      BY <1>a, <1>b, <3>1, <3>2, Effects
    <3>4. job[j].task = 0 /\ job[j].status # "none" BY <1>8, <1>a DEF AskList
    <3> QED BY <1>a, <2>2, <3>2, <3>3, <3>4, IdleFields
  <2>5. CASE \E err \in Errors : Throw(j, err)
    <3>1. IdleAs(pass'[j], "throw") BY <1>a, <2>5, Effects
    <3>2. job[j].status # "none" BY <1>8, <1>a DEF AskList
    <3> QED BY <1>a, <2>2, <3>1, <3>2, IdleFields
  <2> QED BY <2>3, <2>4, <2>5
<1>9. CASE RecordFound(j)
  <2>1. job'[j].task = pass[j].got /\ job'[j].status = Following(pass[j].seen) BY <1>9, Found
  <2>2. /\ pass[j].got \in Tasks /\ pass[j].got # 0 /\ task[pass[j].got].of = j
        /\ task[pass[j].got].state \in Accepted /\ pass[j].seen \in Accepted
    BY <1>9, <1>a, HeldTask DEF RecordFound
  <2>3. Following(pass[j].seen) # "none" BY <2>2 DEF Following, Accepted
  <2>4. UNCHANGED task BY <1>9 DEF RecordFound
  <2>5. pass'[j] = Idle \/ IdleAs(pass'[j], "resume") BY <1>9, <1>a, <1>b, Effects DEF RecordFound
  <2> QED BY <2>1, <2>2, <2>3, <2>4, <2>5, IdleFields
<1>10. CASE Refuse(j)
  <2>1. Milder(job[j], job'[j]) BY <1>10, Mild
  <2> QED BY <1>a, <1>b, <1>10, <2>1, Effects, HeldTask, IdleFields DEF Refuse, Milder
<1>11. CASE Probe(j)
  <2>1. Milder(job[j], job'[j]) BY <1>11, Mild
  <2> QED BY <1>a, <1>b, <1>11, <2>1, Effects, HeldTask, IdleFields DEF Probe, Milder
<1>12. CASE MarkSubmitting(j)
  <2>1. job'[j].task = job[j].task /\ job'[j].status # "none" /\ job[j].task = 0
    BY <1>12, <1>a, SubmissionMarked DEF MarkSubmitting
  <2>2. IdleAs(pass'[j], "submit") \/ pass'[j] = Idle BY <1>12, <1>a, <1>b, Effects DEF MarkSubmitting
  <2>3. UNCHANGED task BY <1>12 DEF MarkSubmitting
  <2> QED BY <1>a, <2>1, <2>2, <2>3, IdleFields
<1>13. CASE Submit(j)
  <2>1. UNCHANGED job /\ job[j].task = 0 /\ job[j].status # "none" BY <1>13, <1>a DEF Submit
  <2>2. CASE \E t \in Paid(j) : GoWith(j, "record", t) /\ UNCHANGED task
    <3>1. PICK t \in Paid(j) : GoWith(j, "record", t) /\ UNCHANGED task BY <2>2
    <3>2. t \in Tasks /\ task[t].of = j /\ task[t].state \in Accepted /\ t # 0 BY Bounds DEF Paid, Tasks
    <3>3. pass'[j].pc = "record" /\ pass'[j].snap = NoJob /\ pass'[j].got = t /\ pass'[j].seen = task[t].state
      BY <1>a, <1>b, <3>1, <3>2, Effects
    <3> QED BY <2>1, <3>1, <3>2, <3>3, IdleFields
  <2>3. CASE \E t \in Tasks :
              /\ task' = [task EXCEPT ![t] = [of |-> j, state |-> "sent"]]
              /\ pass' = [pass EXCEPT ![j] = [Idle EXCEPT !.pc = "wait", !.by = pass[j].by, !.got = t]]
    <3>1. PICK t \in Tasks :
              /\ task' = [task EXCEPT ![t] = [of |-> j, state |-> "sent"]]
              /\ pass' = [pass EXCEPT ![j] = [Idle EXCEPT !.pc = "wait", !.by = pass[j].by, !.got = t]]
      BY <2>3
    <3>2. t # 0 /\ task'[t].of = j /\ task'[t].state = "sent" BY <1>a, <3>1, Bounds DEF Tasks, Types
    <3>3. pass'[j].pc = "wait" /\ pass'[j].snap = NoJob /\ pass'[j].got = t BY <1>a, <3>1 DEF Types, Idle
    <3> QED BY <2>1, <3>2, <3>3, IdleFields
  <2> QED BY <1>13, <2>2, <2>3 DEF Submit
<1>14. CASE Answered(j)
  <2>1. Milder(job[j], job'[j]) BY <1>14, Mild
  <2> QED BY <1>a, <1>b, <1>14, <2>1, Effects, HeldTask, IdleFields DEF Answered, Milder
<1>15. CASE TimeOut(j)
  <2>1. Milder(job[j], job'[j]) BY <1>15, Mild
  <2> QED BY <1>a, <1>b, <1>15, <2>1, Effects, HeldTask, IdleFields DEF TimeOut, Milder
<1>16. CASE RecordTask(j)
  <2>1. job'[j].task = pass[j].got /\ job'[j].status = Following(pass[j].seen) BY <1>16, TaskNoted
  <2>2. /\ pass[j].got \in Tasks /\ pass[j].got # 0 /\ task[pass[j].got].of = j
        /\ task[pass[j].got].state \in Accepted /\ pass[j].seen \in Accepted
    BY <1>16, <1>a, HeldTask DEF RecordTask
  <2>3. Following(pass[j].seen) # "none" BY <2>2 DEF Following, Accepted
  <2>4. UNCHANGED task BY <1>16 DEF RecordTask
  <2>5. \/ pass'[j] = Idle \/ IdleAs(pass'[j], "download") \/ IdleAs(pass'[j], "poll")
        \/ pass'[j].pc = "cancel" /\ pass'[j].snap = job'[j] /\ pass'[j].got = 0
    <3>1. job'[j] \in Records BY <1>16, StepTypes DEF Types, Step
    <3> QED BY <1>16, <1>a, <1>b, <3>1, TaskNoted, Effects
  <2> QED BY <2>1, <2>2, <2>3, <2>4, <2>5, IdleFields
<1>17. CASE ResumeTask(j)
  <2>1. Milder(job[j], job'[j]) BY <1>17, Mild
  <2> QED BY <1>a, <1>b, <1>17, <2>1, Effects, HeldTask, IdleFields DEF ResumeTask, Milder
<1>18. CASE Poll(j)
  <2>1. Milder(job[j], job'[j]) BY <1>18, Mild
  <2> QED BY <1>a, <1>b, <1>18, <2>1, Effects, HeldTask, IdleFields DEF Poll, Milder
<1>19. CASE RecordPoll(j)
  <2>1. Milder(job[j], job'[j]) BY <1>19, Mild
  <2> QED BY <1>a, <1>b, <1>19, <2>1, Effects, HeldTask, IdleFields DEF RecordPoll, Milder
<1>20. CASE SettleWithoutTask(j)
  <2>1. Milder(job[j], job'[j]) BY <1>20, Mild
  <2> QED BY <1>a, <1>b, <1>20, <2>1, Effects, HeldTask, IdleFields DEF SettleWithoutTask, Milder
<1>21. CASE AskCancel(j)
  <2> DEFINE t == pass[j].snap.task
  <2>1. t \in Tasks /\ t # 0 /\ t = job[j].task /\ task[t].of = j /\ task[t].state \in Accepted
    BY <1>21, <1>a, HeldTask DEF AskCancel
  <2>2. UNCHANGED job /\ job[j].status # "none" BY <1>21, <1>a DEF AskCancel
  <2>3. \/ GoWith(j, "settle", t) /\ UNCHANGED task
        \/ /\ task' = [task EXCEPT ![t].state = "cancelled"]
           /\ pass' = [pass EXCEPT ![j] = [Idle EXCEPT !.pc = "settle", !.by = pass[j].by, !.got = t,
                !.seen = "cancelled"]]
        \/ Throw(j, "transient") /\ UNCHANGED task
    BY <1>21 DEF AskCancel
  <2> HIDE DEF t
  <2>4. CASE GoWith(j, "settle", t) /\ UNCHANGED task
    <3>1. pass'[j].pc = "settle" /\ pass'[j].snap = NoJob /\ pass'[j].got = t /\ pass'[j].seen = task[t].state
      BY <1>a, <1>b, <2>1, <2>4, Effects
    <3> QED BY <2>1, <2>2, <2>4, <3>1, IdleFields
  <2>5. CASE /\ task' = [task EXCEPT ![t].state = "cancelled"]
             /\ pass' = [pass EXCEPT ![j] = [Idle EXCEPT !.pc = "settle", !.by = pass[j].by, !.got = t,
                  !.seen = "cancelled"]]
    <3>1. pass'[j].pc = "settle" /\ pass'[j].snap = NoJob /\ pass'[j].got = t /\ pass'[j].seen = "cancelled"
      BY <1>a, <2>5 DEF Types, Idle
    <3>2. task'[t].of = j /\ task'[t].state = "cancelled" BY <1>a, <2>1, <2>5 DEF Types
    <3> QED BY <2>1, <2>2, <3>1, <3>2, IdleFields DEF Accepted
  <2>6. CASE Throw(j, "transient") /\ UNCHANGED task
    <3>1. IdleAs(pass'[j], "throw") BY <1>a, <1>b, <2>6, Effects
    <3> QED BY <2>1, <2>2, <2>6, <3>1, IdleFields
  <2> QED BY <2>3, <2>4, <2>5, <2>6
<1>22. CASE RecordSettled(j)
  <2>1. Milder(job[j], job'[j]) BY <1>22, Mild
  <2> QED BY <1>a, <1>b, <1>22, <2>1, Effects, HeldTask, IdleFields DEF RecordSettled, Milder
<1>23. CASE Download(j)
  <2>1. Milder(job[j], job'[j]) BY <1>23, Mild
  <2> QED BY <1>a, <1>b, <1>23, <2>1, Effects, HeldTask, IdleFields DEF Download, Milder
<1>24. CASE Fetch(j)
  <2>1. Milder(job[j], job'[j]) BY <1>24, Mild
  <2> QED BY <1>a, <1>b, <1>24, <2>1, Effects, HeldTask, IdleFields DEF Fetch, Milder
<1>25. CASE Land(j)
  <2>1. job'[j].task = job[j].task /\ job'[j].status # "none" BY <1>25, <1>a, Landed DEF Land
  <2>2. pass'[j] = Idle /\ UNCHANGED task BY <1>25, <1>a, Effects DEF Land
  <2> QED BY <1>a, <2>1, <2>2, IdleFields
<1>26. CASE Catch(j)
  <2>1. UNCHANGED <<job, task>> /\ job[j].status # "none" BY <1>26, <1>a DEF Catch
  <2>2. \/ pass'[j] = Idle
        \/ pass'[j].pc = "catch" /\ pass'[j].snap = job[j] /\ pass'[j].got = pass[j].got
    <3>1. pass \in [Jobs -> Passes] /\ pass[j] \in Passes BY <1>a DEF Types
    <3> QED BY <1>26, <3>1 DEF Catch, Leave, Passes
  <2>3. pass[j].got = 0 BY <1>26, <1>a DEF Catch
  <2> QED BY <1>a, <2>1, <2>2, <2>3, IdleFields
<1>27. CASE RecordFailure(j)
  <2>1. pass'[j] = Idle /\ UNCHANGED task BY <1>27, <1>a, Effects DEF RecordFailure
  <2>2. \/ job'[j] = job[j]
        \/ job'[j].task = pass[j].snap.task /\ job'[j].status # "none"
    <3>1. pass[j].err \in Errors /\ pass[j].snap.status # "none"
      BY <1>27, <1>a DEF Types, Passes, RecordFailure
    <3>2. job'[j] \in {job[j], FailurePatch(pass[j].snap, pass[j].err)}
      BY <1>27, <1>a DEF RecordFailure, Update, Types
    <3> QED BY <1>a, <3>1, <3>2, FailureFields
  <2>3. job[j].status # "none" BY <1>27, <1>a DEF RecordFailure
  <2> QED BY <1>a, <2>1, <2>2, <2>3, IdleFields
<1>28. CASE Terminate(j)
  <2>1. Milder(job[j], job'[j]) BY <1>28, Mild
  <2> QED BY <1>a, <1>b, <1>28, <2>1, Effects, HeldTask, IdleFields DEF Terminate, Milder
<1>29. CASE FinishStop(j)
  <2>1. Milder(job[j], job'[j]) BY <1>29, Mild
  <2> QED BY <1>a, <1>b, <1>29, <2>1, Effects, HeldTask, IdleFields DEF FinishStop, Milder
<1>30. CASE Expire(j)
  <2>1. Milder(job[j], job'[j]) BY <1>30, Mild
  <2> QED BY <1>a, <1>b, <1>30, <2>1, Effects, HeldTask, IdleFields DEF Expire, Milder
<1>31. CASE Apply(j)
  <2>1. Milder(job[j], job'[j]) BY <1>31, Mild
  <2> QED BY <1>a, <1>b, <1>31, <2>1, Effects, HeldTask, IdleFields DEF Apply, Milder
<1>32. CASE Scan(j)
  <2>1. Milder(job[j], job'[j]) BY <1>32, Mild
  <2> QED BY <1>a, <1>b, <1>32, <2>1, Effects, HeldTask, IdleFields DEF Scan, Milder
<1>33. CASE StartWorker(j)
  <2>1. Milder(job[j], job'[j]) BY <1>33, Mild
  <2> QED BY <1>a, <1>b, <1>33, <2>1, Effects, HeldTask, IdleFields DEF StartWorker, Milder
<1>34. CASE Kill(j)
  <2>1. Milder(job[j], job'[j]) BY <1>34, Mild
  <2> QED BY <1>a, <1>b, <1>34, <2>1, Effects, HeldTask, IdleFields DEF Kill, Milder
<1>35. CASE RecordExit(j)
  <2>1. Milder(job[j], job'[j]) BY <1>35, Mild
  <2> QED BY <1>a, <1>b, <1>35, <2>1, Effects, HeldTask, IdleFields DEF RecordExit, Milder
<1> QED BY <1>1, <1>2, <1>3, <1>4, <1>5, <1>6, <1>7, <1>8, <1>9, <1>10, <1>11, <1>12, <1>13, <1>14, <1>15,
    <1>16, <1>17, <1>18, <1>19, <1>20, <1>21, <1>22, <1>23, <1>24, <1>25, <1>26, <1>27, <1>28, <1>29, <1>30,
    <1>31, <1>32, <1>33, <1>34, <1>35 DEF User, Step, Service

(* What a new job does to the others, and what it is itself.               *)
LEMMA Generated ==
  ASSUME Sensible, NEW j, NEW kind \in Kinds, Generate(j, kind), NEW k \in Jobs
  PROVE  /\ \/ Milder(job[k], job'[k])
            \/ /\ job[k] = NoJob /\ pass[k].pc \in {"idle", "locked"}
               /\ job'[k] = [NoJob EXCEPT !.kind = kind, !.status = "queued"]
         /\ UNCHANGED <<task, pass, confirmed>> /\ used'.lists = used.lists
         /\ job'[k] \in Records
<1>1. /\ job[k] \in Records /\ Blank(k) /\ used \in [actions : Nat, kills : Nat, errors : Nat, lists : Nat]
  BY DEF Sensible, Types, Sound
<1>2. UNCHANGED <<task, pass, confirmed>> /\ used'.lists = used.lists BY <1>1 DEF Generate, Acting, Spend
<1>3. CASE k = j
  <2>1. job[k].status = "none" BY <1>3, Bounds DEF Generate, Jobs
  <2>2. job'[k] = [NoJob EXCEPT !.kind = kind, !.status = "queued"] BY <1>3 DEF Generate
  <2>3. [NoJob EXCEPT !.kind = kind, !.status = "queued"] \in Records
    <3>1. kind \in {"api", "cli"} BY MediaAssumption
    <3> QED BY <3>1, NoJobTyped, Values DEF Records
  <2> QED BY <1>1, <1>2, <2>1, <2>2, <2>3 DEF Blank
<1>4. CASE k # j /\ Pending(job[k])
  <2>1. job'[k] = Abandoned(job[k]) BY <1>4 DEF Generate
  <2>2. job[k].status # "none" BY <1>4 DEF Pending
  <2>3. Milder(job[k], Abandoned(job[k])) BY <1>1, <2>2 DEF Milder, Abandoned, Cancelled, Records
  <2>4. Abandoned(job[k]) \in Records BY <1>1, RecordsKept, Values DEF Abandoned
  <2> QED BY <1>2, <2>1, <2>3, <2>4
<1>5. CASE k # j /\ ~ Pending(job[k])
  <2>1. job'[k] = job[k] BY <1>5 DEF Generate
  <2> QED BY <1>1, <1>2, <2>1, MilderSelf
<1> QED BY <1>3, <1>4, <1>5

LEMMA GenerateSensible ==
  ASSUME Sensible, NEW j \in Jobs \cup {MaxJobs + 1}, NEW kind \in Kinds, Generate(j, kind)
  PROVE  Sensible'
<1>1. Types'
  <2>1. job' \in [Jobs -> Records]
    <3>1. \A k \in Jobs : job'[k] \in Records BY Generated
    <3>2. job' = [k \in Jobs |-> job'[k]] BY DEF Generate
    <3> QED BY <3>1, <3>2
  <2>2. used' \in [actions : Nat, kills : Nat, errors : Nat, lists : Nat] BY SpendTyped DEF Generate, Sensible
  <2>3. (launched \cup doomed \cup exited)' \subseteq Jobs BY DEF Generate, Sensible, Types
  <2> QED BY <2>1, <2>2, <2>3 DEF Types, Sensible, Generate
<1>2. Unused' BY DEF Unused, Sensible, Generate
<1>3. ASSUME NEW k \in Jobs PROVE Sound(k)'
  <2>1. Held(k) /\ Named(k) /\ Blank(k) /\ UNCHANGED <<task, pass>> BY Generated DEF Sensible, Sound
  <2>2. CASE Milder(job[k], job'[k]) BY <2>1, <2>2 DEF Sound, Held, Named, Blank, Milder
  <2>3. CASE /\ job[k] = NoJob /\ pass[k].pc \in {"idle", "locked"}
             /\ job'[k] = [NoJob EXCEPT !.kind = kind, !.status = "queued"]
    <3>1. job'[k].task = 0 /\ job'[k].status = "queued" BY <2>3 DEF NoJob
    <3> QED BY <2>1, <2>3, <3>1, IdleFields DEF Sound, Held, Named, Blank, Holding, Knowing, Seeking
  <2> QED BY <2>2, <2>3, Generated
<1> QED BY <1>1, <1>2, <1>3 DEF Sensible

(* A task that comes to its end is still the same job's, and a task that   *)
(* some record names is still accepted.                                    *)
LEMMA ProviderStep ==
  ASSUME Sensible, NEW t \in Tasks, Reach(t) \/ Finish(t)
  PROVE  /\ UNCHANGED <<job, pass, confirmed, used, server>>
         /\ task' \in [Tasks -> [of : 0 .. MaxJobs, state : States]]
         /\ \A u \in Tasks : /\ task'[u].of = task[u].of
                             /\ task[u].state \in Accepted => task'[u].state \in Accepted
                             /\ task[u].state # "none" <=> task'[u].state # "none"
                             /\ task'[u].state \in Accepted \cup {"sent"} =>
                                  task[u].state \in Accepted \cup {"sent"}
<1>1. task \in [Tasks -> [of : 0 .. MaxJobs, state : States]] BY DEF Sensible, Types
<1>2. \E s \in {"running", "refused", "completed", "failed"} :
        /\ task' = [task EXCEPT ![t].state = s]
        /\ \/ task[t].state = "sent" /\ s \in {"running", "refused"}
           \/ task[t].state = "running" /\ s \in {"completed", "failed"}
  BY DEF Reach, Finish
<1> QED BY <1>1, <1>2 DEF Reach, Finish, Accepted, States

LEMMA ProviderSensible ==
  ASSUME Sensible, NEW t \in Tasks, Reach(t) \/ Finish(t)
  PROVE  Sensible'
<1>1. Types' BY ProviderStep DEF Sensible, Types, server
<1>2. Unused' BY ProviderStep DEF Sensible, Unused
<1>3. ASSUME NEW k \in Jobs PROVE Sound(k)'
  <2>1. Held(k) /\ Named(k) /\ Blank(k) BY DEF Sensible, Sound
  <2>2. Held(k)' BY <2>1, ProviderStep, HeldTask DEF Held, Holding
  <2>3. Named(k)' BY <2>1, ProviderStep, HeldTask DEF Named
  <2> QED BY <2>1, <2>2, <2>3, ProviderStep DEF Sound, Blank
<1> QED BY <1>1, <1>2, <1>3 DEF Sensible

LEMMA UnusedStays ==
  ASSUME Sensible, NEW j \in Jobs, User(j) \/ Step(j) \/ Service(j)
  PROVE  Unused'
<1>1. task \in [Tasks -> [of : 0 .. MaxJobs, state : States]] /\ Unused BY DEF Sensible, Types
<1>2. CASE UNCHANGED task BY <1>1, <1>2 DEF Unused
<1>3. CASE Submit(j)
  <2>1. \/ UNCHANGED task
        \/ \E t \in Tasks : task' = [task EXCEPT ![t] = [of |-> j, state |-> "sent"]]
    BY <1>3 DEF Submit
  <2> QED BY <1>1, <2>1 DEF Unused
<1>4. CASE Answered(j) BY <1>1, <1>4 DEF Answered, Unused
<1>5. CASE AskCancel(j) BY <1>1, <1>5 DEF AskCancel, Unused
<1> QED BY <1>2, <1>3, <1>4, <1>5 DEF User, Step, Service, Cancel, Dismiss, Resume, Reconcile, BeginStop,
    Enter, EndLease, AskList, RecordFound, Refuse, Probe, MarkSubmitting, TimeOut, RecordTask, ResumeTask,
      Poll, RecordPoll,
    SettleWithoutTask, RecordSettled, Download, Fetch, Land, Catch, RecordFailure,
    Terminate, FinishStop, Expire, Apply, Scan, StartWorker, Kill, RecordExit

LEMMA NextSensible == Sensible /\ [Next]_vars => Sensible'
<1> SUFFICES ASSUME Sensible, [Next]_vars PROVE Sensible' OBVIOUS
<1>1. ASSUME NEW j \in Jobs, User(j) \/ Step(j) \/ Service(j) PROVE Sensible'
  <2>1. \A k \in Jobs : Sound(k)'
    <3> SUFFICES ASSUME NEW k \in Jobs PROVE Sound(k)' OBVIOUS
    <3>1. CASE k = j BY <1>1, <3>1, StepSound
    <3>2. CASE k # j BY <1>1, <3>2, OthersStay, OthersSound
    <3> QED BY <3>1, <3>2
  <2> QED BY <1>1, <2>1, StepTypes, UnusedStays DEF Sensible
<1>2. CASE UNCHANGED vars
  BY <1>2 DEF vars, Sensible, Types, Unused, Sound, Held, Named, Blank
<1> QED BY <1>1, <1>2, GenerateSensible, ProviderSensible DEF Next

LEMMA InitSensible == Init => Sensible
<1> SUFFICES ASSUME Init PROVE Sensible OBVIOUS
<1>1. Types
  <2>1. task \in [Tasks -> [of : 0 .. MaxJobs, state : States]] BY Values, Bounds DEF Init
  <2> QED BY <2>1, NoJobTyped DEF Init, Types
<1>2. Unused BY DEF Init, Unused
<1>3. \A j \in Jobs : Sound(j)
  BY IdleFields DEF Init, Sound, Held, Named, Blank, Holding, Knowing, Seeking
<1> QED BY <1>1, <1>2, <1>3 DEF Sensible

(* Records, passes and tasks have their types, and a worker holds only     *)
(* tasks of the job it works on (TypeOK): in every reachable state, for    *)
(* any number of jobs, tasks, requests, failures and workers that die.     *)
THEOREM TypeCorrect == Spec => []TypeOK
<1>1. Sensible => TypeOK BY DEF Sensible, Types, TypeOK, Sound, Held
<1> QED BY <1>1, InitSensible, NextSensible, PTL DEF Spec

(* The record a failed pass has read before it writes still has the task,  *)
(* the connection and the history of the record it is about to change.     *)
Remembered(j) ==
  pass[j].pc = "catch" =>
    /\ pass[j].snap.task = job[j].task /\ pass[j].snap.kind = job[j].kind /\ pass[j].snap.tried = job[j].tried

(* The inductive invariant for StopHolds.                                  *)
Steadfast == Sensible /\ \A j \in Jobs : Remembered(j)

(* The points of a pass at which it may be about to submit, or to record a *)
(* failure; a pass is calm elsewhere, and when it throws an error that     *)
(* says nothing of a task.                                                 *)
Alert == {"reconcile", "probe", "mark", "submit", "wait", "throw", "catch"}
Calm(p) == p.pc \notin Alert \/ (p.pc = "throw" /\ ~ Knows(p.err))

(* Only seven actions lead to a point that is not calm.                    *)
LEMMA CalmSteps ==
  ASSUME Sensible, NEW j \in Jobs, User(j) \/ Step(j) \/ Service(j),
         ~ Enter(j), ~ AskList(j), ~ Probe(j), ~ MarkSubmitting(j), ~ Submit(j), ~ Answered(j), ~ Catch(j)
  PROVE  pass'[j] = pass[j] \/ Calm(pass'[j])
<1>a. Types /\ job[j] \in Records /\ pass[j].snap \in Records /\ Named(j) /\ Held(j)
  BY DEF Sensible, Types, Passes, Sound
<1>b. /\ \A pc \in {"resume", "refuse", "download", "poll", "fetch", "land", "lease", "found", "record",
           "settle", "polled"} : pc \in Labels /\ pc \notin Alert
      /\ \A err \in {"settled", "transient", "fatal", "ended"} : err \in Errors
      /\ \A err \in {"transient", "fatal", "ended"} : ~ Knows(err)
  BY DEF Labels, Errors, Alert, Knows
<1> USE DEF server, IdleAs, Calm
<1>1. CASE Cancel(j) BY <1>a, <1>b, <1>1, Effects, IdleFields DEF Cancel, Alert
<1>2. CASE Dismiss(j) BY <1>a, <1>b, <1>2, Effects, IdleFields DEF Dismiss, Alert
<1>3. CASE Resume(j) BY <1>a, <1>b, <1>3, Effects, IdleFields DEF Resume, Alert
<1>4. CASE Reconcile(j) BY <1>a, <1>b, <1>4, Effects, IdleFields DEF Reconcile, Alert
<1>5. CASE BeginStop(j) BY <1>a, <1>b, <1>5, Effects, IdleFields DEF BeginStop, Alert
<1>6. CASE EndLease(j) BY <1>a, <1>b, <1>6, Effects, IdleFields DEF EndLease, Alert
<1>7. CASE RecordFound(j) BY <1>a, <1>b, <1>7, Effects, IdleFields DEF RecordFound, Alert
<1>8. CASE Refuse(j) BY <1>a, <1>b, <1>8, Effects, IdleFields DEF Refuse, Alert
<1>9. CASE TimeOut(j) BY <1>a, <1>b, <1>9, Effects, IdleFields DEF TimeOut, Alert
<1>10. CASE RecordTask(j)
  <2>1. job'[j] \in Records BY <1>10, StepTypes DEF Types, Step
  <2> QED BY <1>a, <1>b, <1>10, <2>1, TaskNoted, Effects, IdleFields DEF Alert
<1>11. CASE ResumeTask(j) BY <1>a, <1>b, <1>11, Effects, IdleFields DEF ResumeTask, Alert
<1>12. CASE Poll(j) BY <1>a, <1>b, <1>12, Effects, IdleFields, HeldTask DEF Poll, Alert, Named, Knowing
<1>13. CASE RecordPoll(j) BY <1>a, <1>b, <1>13, Effects, IdleFields DEF RecordPoll, Alert
<1>14. CASE SettleWithoutTask(j) BY <1>a, <1>b, <1>14, Effects, IdleFields DEF SettleWithoutTask, Alert
<1>15. CASE AskCancel(j)
  <2> DEFINE t == pass[j].snap.task
  <2>1. t \in Tasks BY <1>15, <1>a, HeldTask DEF AskCancel
  <2>2. \/ GoWith(j, "settle", t)
        \/ pass' = [pass EXCEPT ![j] = [Idle EXCEPT !.pc = "settle", !.by = pass[j].by, !.got = t,
             !.seen = "cancelled"]]
        \/ Throw(j, "transient")
    BY <1>15 DEF AskCancel
  <2> HIDE DEF t
  <2>3. CASE pass' = [pass EXCEPT ![j] = [Idle EXCEPT !.pc = "settle", !.by = pass[j].by, !.got = t,
               !.seen = "cancelled"]]
    <3>1. pass'[j].pc = "settle" BY <1>a, <2>3 DEF Types, Idle
    <3> QED BY <3>1 DEF Alert
  <2>4. CASE GoWith(j, "settle", t) BY <1>a, <1>b, <2>1, <2>4, Effects DEF Alert
  <2>5. CASE Throw(j, "transient") BY <1>a, <1>b, <2>5, Effects
  <2> QED BY <2>2, <2>3, <2>4, <2>5
<1>16. CASE RecordSettled(j) BY <1>a, <1>b, <1>16, Effects, IdleFields DEF RecordSettled, Alert
<1>17. CASE Download(j) BY <1>a, <1>b, <1>17, Effects, IdleFields DEF Download, Alert
<1>18. CASE Fetch(j) BY <1>a, <1>b, <1>18, Effects, IdleFields DEF Fetch, Alert
<1>19. CASE Land(j) BY <1>a, <1>b, <1>19, Effects, IdleFields DEF Land, Alert
<1>20. CASE RecordFailure(j) BY <1>a, <1>b, <1>20, Effects, IdleFields DEF RecordFailure, Alert
<1>21. CASE Terminate(j) BY <1>a, <1>b, <1>21, Effects, IdleFields DEF Terminate, Alert
<1>22. CASE FinishStop(j) BY <1>a, <1>b, <1>22, Effects, IdleFields DEF FinishStop, Alert
<1>23. CASE Expire(j) BY <1>a, <1>b, <1>23, Effects, IdleFields DEF Expire, Alert
<1>24. CASE Apply(j) BY <1>a, <1>b, <1>24, Effects, IdleFields DEF Apply, Alert
<1>25. CASE Scan(j) BY <1>a, <1>b, <1>25, Effects, IdleFields DEF Scan, Alert
<1>26. CASE StartWorker(j) BY <1>a, <1>b, <1>26, Effects, IdleFields DEF StartWorker, Alert
<1>27. CASE Kill(j) BY <1>a, <1>b, <1>27, Effects, IdleFields DEF Kill, Alert
<1>28. CASE RecordExit(j) BY <1>a, <1>b, <1>28, Effects, IdleFields DEF RecordExit, Alert
<1> QED BY <1>1, <1>2, <1>3, <1>4, <1>5, <1>6, <1>7, <1>8, <1>9, <1>10, <1>11, <1>12, <1>13, <1>14, <1>15,
    <1>16, <1>17, <1>18, <1>19, <1>20, <1>21, <1>22, <1>23, <1>24, <1>25, <1>26, <1>27, <1>28 DEF User, Step,
    Service

LEMMA OthersRemembered == ASSUME Steadfast, NEW k \in Jobs, Others(k) PROVE Remembered(k)'
  BY DEF Steadfast, Remembered, Others

(* Remembered is kept by every step of its own job.                        *)
LEMMA StepRemembered ==
  ASSUME Steadfast, NEW j \in Jobs, User(j) \/ Step(j) \/ Service(j)
  PROVE  Remembered(j)'
<1>a. Sensible /\ Types /\ Remembered(j) /\ pass[j].snap \in Records /\ job[j] \in Records
  BY DEF Steadfast, Sensible, Types, Passes
<1>b. /\ \A pc \in {"resume", "reconcile", "refuse", "found", "probe", "lease", "mark", "submit", "record",
           "wait"} : pc \in Labels
      /\ \A err \in {"known", "settled", "transient", "fatal"} : err \in Errors
  BY DEF Labels, Errors
<1>1. CASE Catch(j)
  <2>1. \/ pass'[j] = Idle
        \/ pass'[j].snap = job[j] /\ UNCHANGED job
    <3>1. pass \in [Jobs -> Passes] /\ pass[j] \in Passes BY <1>a DEF Types
    <3> QED BY <1>1, <3>1 DEF Catch, Leave, Passes
  <2> QED BY <2>1, IdleFields DEF Remembered
<1>2. CASE pass'[j] = pass[j] /\ Milder(job[j], job'[j]) BY <1>a, <1>2 DEF Remembered, Milder
<1>3. CASE Resume(j)
  <2>1. UNCHANGED pass BY <1>3 DEF Resume
  <2> QED BY <1>a, <1>3, <2>1, Resumed DEF Remembered
<1>4. CASE pass'[j].pc # "catch" BY <1>4 DEF Remembered
<1>5. CASE Enter(j) BY <1>4, <1>5, <1>a, <1>b, Effects, IdleFields DEF Enter, IdleAs
<1>6. CASE AskList(j) BY <1>4, <1>6, <1>a, <1>b, Effects DEF AskList, IdleAs, Paid
<1>7. CASE Probe(j) BY <1>4, <1>7, <1>a, <1>b, Effects DEF Probe, IdleAs
<1>8. CASE MarkSubmitting(j) BY <1>4, <1>8, <1>a, <1>b, Effects, IdleFields DEF MarkSubmitting, IdleAs
<1>9. CASE Submit(j)
  <2>1. CASE \E t \in Paid(j) : GoWith(j, "record", t) BY <1>4, <2>1, <1>a, <1>b, Effects DEF Paid
  <2>2. CASE \E t \in Tasks : pass' = [pass EXCEPT ![j] = [Idle EXCEPT !.pc = "wait", !.by = pass[j].by,
               !.got = t]]
    BY <1>4, <2>2, <1>a DEF Types, Idle
  <2> QED BY <1>9, <2>1, <2>2 DEF Submit
<1>10. CASE Answered(j)
  <2>1. pass[j].got \in Tasks BY <1>10, HeldTask, <1>a DEF Answered, Sensible, Sound, Held, Holding
  <2> QED BY <1>4, <1>10, <2>1, <1>a, <1>b, Effects DEF Answered, IdleAs
<1>11. CASE RecordFound(j) \/ RecordTask(j) \/ Land(j) \/ RecordFailure(j)
  <2>1. pass[j].pc # "catch" \/ pass'[j] = Idle
    BY <1>11, <1>a, Effects DEF RecordFound, RecordTask, Land, RecordFailure
  <2>2. pass'[j] = pass[j] \/ Calm(pass'[j])
    BY <1>11, <1>a, CalmSteps DEF Step, RecordFound, RecordTask, Land, RecordFailure, Enter, AskList, Probe,
        MarkSubmitting, Submit, Answered, Catch
  <2> QED BY <1>4, <2>1, <2>2, IdleFields DEF Calm, Alert
<1> QED BY <1>a, <1>1, <1>2, <1>3, <1>4, <1>5, <1>6, <1>7, <1>8, <1>9, <1>10, <1>11, CalmSteps, Mild DEF User,
    Step, Service, Calm, Alert

LEMMA NextSteadfast == Steadfast /\ [Next]_vars => Steadfast'
<1> SUFFICES ASSUME Steadfast, [Next]_vars PROVE Steadfast' OBVIOUS
<1>1. Sensible /\ Sensible' BY NextSensible DEF Steadfast
<1>2. ASSUME NEW k \in Jobs PROVE Remembered(k)'
  <2>1. Remembered(k) /\ Blank(k) BY DEF Steadfast, Sensible, Sound
  <2>2. ASSUME NEW j \in Jobs, User(j) \/ Step(j) \/ Service(j) PROVE Remembered(k)'
    <3>1. CASE k = j BY <2>2, <3>1, StepRemembered
    <3>2. CASE k # j BY <2>2, <3>2, <1>1, OthersStay, OthersRemembered
    <3> QED BY <3>1, <3>2
  <2>3. ASSUME NEW j \in Jobs \cup {MaxJobs + 1}, NEW kind \in Kinds, Generate(j, kind) PROVE Remembered(k)'
    BY <1>1, <2>1, <2>3, Generated DEF Remembered, Milder
  <2>4. ASSUME NEW t \in Tasks, Reach(t) \/ Finish(t) PROVE Remembered(k)'
    BY <1>1, <2>1, <2>4, ProviderStep DEF Remembered
  <2>5. CASE UNCHANGED vars BY <2>1, <2>5 DEF vars, Remembered
  <2> QED BY <2>2, <2>3, <2>4, <2>5 DEF Next
<1> QED BY <1>1, <1>2 DEF Steadfast

LEMMA InitSteadfast == Init => Steadfast
  BY InitSensible, IdleFields DEF Init, Steadfast, Remembered

Holds(k) ==
  job[k].stopped => /\ job'[k].stopped
                    /\ job'[k].status = "submitting" => job[k].status = "submitting"

LEMMA StepHolds ==
  ASSUME Steadfast, NEW j \in Jobs, User(j) \/ Step(j) \/ Service(j)
  PROVE  Holds(j)
<1>a. Sensible /\ Types /\ Sound(j) /\ Remembered(j) /\ pass[j].snap \in Records /\ pass[j].err \in Errors
  BY DEF Steadfast, Sensible, Types, Passes
<1>1. CASE Milder(job[j], job'[j]) BY <1>1 DEF Milder, Holds
<1>2. CASE Resume(j) BY <1>a, <1>2, Resumed DEF Holds
<1>3. CASE RecordFound(j) \/ RecordTask(j)
  <2>1. pass[j].seen \in Accepted BY <1>3, <1>a DEF RecordFound, RecordTask, Sound, Held, Holding
  <2>2. Following(pass[j].seen) # "submitting" BY <2>1 DEF Following, Accepted
  <2> QED BY <1>a, <1>3, <2>2, Found, TaskNoted DEF Holds, Rest
<1>4. CASE MarkSubmitting(j) BY <1>a, <1>4, SubmissionMarked DEF Holds, Rest
<1>5. CASE Land(j) BY <1>a, <1>5, Landed DEF Holds, Rest
<1>6. CASE RecordFailure(j)
  <2>1. \/ job'[j] = job[j]
        \/ job'[j] = FailurePatch(pass[j].snap, pass[j].err) /\ ~ job[j].stopped
    BY <1>6, <1>a DEF RecordFailure, Update, Types
  <2>3. CASE job'[j] = job[j] BY <2>3 DEF Holds
  <2>4. CASE ~ job[j].stopped BY <2>4 DEF Holds
  <2> QED BY <2>1, <2>3, <2>4
<1> QED BY <1>a, <1>1, <1>2, <1>3, <1>4, <1>5, <1>6, Mild DEF User, Step, Service

(* What the user has stopped stays stopped, and no pass begins to submit   *)
(* it (StopHolds), whatever a worker, a window or the server writes from   *)
(* what it had read before.                                                *)
THEOREM StopsHold == Spec => StopHolds
<1>1. Steadfast /\ [Next]_vars => [\A j \in Jobs : job[j].stopped =>
          /\ job'[j].stopped
          /\ job'[j].status = "submitting" => job[j].status = "submitting"]_vars
  <2> SUFFICES ASSUME Steadfast, Next, NEW k \in Jobs PROVE Holds(k) BY DEF Holds
  <2>1. Sensible BY DEF Steadfast
  <2>2. ASSUME NEW j \in Jobs, User(j) \/ Step(j) \/ Service(j) PROVE Holds(k)
    <3>1. CASE k = j BY <2>2, <3>1, StepHolds
    <3>2. CASE k # j
      <4>1. Others(k) BY <2>1, <2>2, <3>2, OthersStay
      <4> QED BY <4>1 DEF Others, Holds
    <3> QED BY <3>1, <3>2
  <2>3. ASSUME NEW j \in Jobs \cup {MaxJobs + 1}, NEW kind \in Kinds, Generate(j, kind) PROVE Holds(k)
    BY <2>1, <2>3, Generated, IdleFields DEF Holds, Milder
  <2>4. ASSUME NEW t \in Tasks, Reach(t) \/ Finish(t) PROVE Holds(k)
    BY <2>1, <2>4, ProviderStep DEF Holds
  <2> QED BY <2>2, <2>3, <2>4 DEF Next
<1> QED BY <1>1, InitSteadfast, NextSteadfast, PTL DEF Spec, StopHolds

(* The tasks a job may have to pay for: those the provider has taken and   *)
(* those it may still take.                                                *)
Alive(j) == {t \in Tasks : task[t].of = j /\ task[t].state \in Accepted \cup {"sent"}}

(* The tasks beyond the first that somebody has answered for.              *)
Spare(j) == confirmed[j] + used.lists

(* A record that lets a worker submit.                                     *)
Usable(r) ==
  r.task = 0 /\ (~ r.tried \/ ((r.explicit \/ r.safe) /\ ~ (r.kind = "cli" /\ OutcomeUnknown(r))))

(* A job that may still be submitted, or tried again: its record says so,  *)
(* or the record a failed pass is about to write back, or a worker is on   *)
(* its way to submit, or an error says that no task exists.                *)
Entitled(j) ==
  \/ Usable(job[j])
  \/ pass[j].pc = "catch" /\ Usable(pass[j].snap)
  \/ pass[j].pc \in {"probe", "mark", "submit"}
  \/ pass[j].pc \in {"throw", "catch"} /\ Knows(pass[j].err)

(* An API job that is being submitted and may be submitted once more after *)
(* that.                                                                   *)
Again(j) == pass[j].pc \in {"mark", "submit"} /\ job[j].kind = "api" /\ job[j].explicit

(* A request is sent only when the record says so; a right to submit again *)
(* without being asked is for the client alone, whose list can be read.    *)
Marked(j) ==
  /\ pass[j].pc = "submit" => job[j].tried /\ job[j].sub \in {"submitting", "uncertain"}
  /\ job[j].kind = "api" => ~ job[j].safe
  /\ pass[j].pc = "catch" /\ pass[j].snap.kind = "api" => ~ pass[j].snap.safe
  /\ job[j].kind = "api" /\ pass[j].pc \in {"throw", "catch"} => ~ Knows(pass[j].err)
  /\ pass[j].pc = "reconcile" => job[j].kind = "cli"

(* The payments a job may come to. A job entitled to a submission has one  *)
(* task less than it may have, so that the submission is paid for; while   *)
(* an answer is awaited, its task is that one.                             *)
Budget(j) ==
  /\ Cardinality(Alive(j)) <= 1 + Spare(j)
  /\ Entitled(j) => Cardinality(Alive(j)) <= Spare(j)
  /\ Again(j) => Cardinality(Alive(j)) + 1 <= Spare(j)
  /\ pass[j].pc = "wait" => Cardinality(Alive(j) \ {pass[j].got}) <= Spare(j)

(* Unless somebody answered for a new submission, the record, and the one  *)
(* a failed pass is about to write back, name the task or say that the     *)
(* outcome is unknown.                                                     *)
Known(j) ==
  Spare(j) = 0 =>
    \A t \in Alive(j) : /\ job[j].task = t \/ OutcomeUnknown(job[j])
                        /\ pass[j].pc = "catch" => pass[j].snap.task = t \/ OutcomeUnknown(pass[j].snap)

(* The inductive invariant for PaidOnce and PaidTasksKnown.                *)
Thrifty == Steadfast /\ \A j \in Jobs : Marked(j) /\ Budget(j) /\ Known(j)

(* Alive is finite, and what is counted is monotonic.                      *)
LEMMA AliveFinite ==
  ASSUME NEW j \in Jobs
  PROVE  /\ Alive(j) \subseteq Tasks /\ IsFiniteSet(Alive(j)) /\ Cardinality(Alive(j)) \in Nat
         /\ Alive(j)' \subseteq Tasks /\ IsFiniteSet(Alive(j)') /\ Cardinality(Alive(j)') \in Nat
         /\ \A A \in SUBSET Tasks : IsFiniteSet(A) /\ Cardinality(A) \in Nat
         /\ \A A, B \in SUBSET Tasks : A \subseteq B => Cardinality(A) <= Cardinality(B)
<1>1. IsFiniteSet(Tasks)
  <2>1. 1 \in Int /\ MaxTasks \in Int BY Bounds
  <2> QED BY <2>1, FS_Interval DEF Tasks
<1>2. \A A \in SUBSET Tasks : IsFiniteSet(A) /\ Cardinality(A) \in Nat BY <1>1, FS_Subset, FS_CardinalityType
<1>3. \A A, B \in SUBSET Tasks : A \subseteq B => Cardinality(A) <= Cardinality(B) BY <1>2, FS_Subset
<1>4. Alive(j) \subseteq Tasks /\ Alive(j)' \subseteq Tasks BY DEF Alive
<1> QED BY <1>2, <1>3, <1>4

LEMMA SpareTyped ==
  ASSUME Types, NEW j \in Jobs PROVE Spare(j) \in Nat
  BY DEF Types, Spare

(* Budget is kept where no task is added, and no entitlement that is not   *)
(* paid for.                                                               *)
LEMMA BudgetKept ==
  ASSUME NEW j \in Jobs, Budget(j), Alive(j)' \subseteq Alive(j),
         Spare(j) \in Nat, Spare(j)' \in Nat, Spare(j) <= Spare(j)',
         Entitled(j)' => Cardinality(Alive(j)) <= Spare(j)',
         Again(j)' => Cardinality(Alive(j)) + 1 <= Spare(j)',
         (pass[j].pc = "wait")' => pass[j].pc = "wait" /\ pass[j].got = pass'[j].got
  PROVE  Budget(j)'
<1> DEFINE a == Cardinality(Alive(j))
           b == Cardinality(Alive(j)')
           g == pass[j].got
<1>1. /\ a \in Nat /\ b \in Nat /\ b <= a
      /\ Cardinality(Alive(j)' \ {g}) <= Cardinality(Alive(j) \ {g})
      /\ Cardinality(Alive(j) \ {g}) \in Nat /\ Cardinality(Alive(j)' \ {g}) \in Nat
  <2>1. /\ Alive(j) \in SUBSET Tasks /\ Alive(j)' \in SUBSET Tasks
        /\ Alive(j) \ {g} \in SUBSET Tasks /\ Alive(j)' \ {g} \in SUBSET Tasks
        /\ Alive(j)' \ {g} \subseteq Alive(j) \ {g}
    BY AliveFinite
  <2> QED BY <2>1, AliveFinite
<1>2. b <= 1 + Spare(j)' BY <1>1 DEF Budget
<1>3. Entitled(j)' => b <= Spare(j)' BY <1>1
<1>4. Again(j)' => b + 1 <= Spare(j)' BY <1>1
<1>5. (pass[j].pc = "wait")' => Cardinality(Alive(j)' \ {(pass[j].got)'}) <= Spare(j)'
  BY <1>1 DEF Budget
<1> QED BY <1>2, <1>3, <1>4, <1>5 DEF Budget

LEMMA SpareGrows ==
  ASSUME Sensible, NEW j \in Jobs, User(j) \/ Step(j) \/ Service(j)
  PROVE  Spare(j) \in Nat /\ Spare(j)' \in Nat /\ Spare(j) <= Spare(j)'
<1>1. Types /\ Types' BY StepTypes DEF Sensible
<1>2. Spare(j) \in Nat /\ Spare(j)' \in Nat
  <2>1. confirmed'[j] \in Nat /\ used'.lists \in Nat BY <1>1 DEF Types
  <2> QED BY <1>1, <2>1, SpareTyped DEF Spare
<1>3. used'.lists \in {used.lists, used.lists + 1}
  <2> SUFFICES ASSUME UNCHANGED used \/ (\E what \in {"actions", "kills", "errors"} : Spend(what))
                        \/ used' = [used EXCEPT !.errors = @ + 1, !.lists = @ + 1]
               PROVE  used'.lists \in {used.lists, used.lists + 1}
    BY DEF User, Step, Service, server, Cancel, Dismiss, Resume, Reconcile, BeginStop, Enter, EndLease,
        AskList,
           RecordFound, Refuse, Probe, MarkSubmitting, Submit, Answered, TimeOut, RecordTask, ResumeTask, Poll,
           RecordPoll, SettleWithoutTask, AskCancel, RecordSettled, Download, Fetch, Land, Catch, RecordFailure,
           Terminate, FinishStop, Expire, Apply, Scan, StartWorker, Kill, RecordExit, Erring, Acting
  <2>1. used \in [actions : Nat, kills : Nat, errors : Nat, lists : Nat] BY <1>1 DEF Types
  <2> QED BY <2>1 DEF Spend
<1>4. ~ Resume(j) => confirmed' = confirmed
    BY DEF User, Step, Service, server, Cancel, Dismiss, Resume, Reconcile, BeginStop, Enter, EndLease,
        AskList,
           RecordFound, Refuse, Probe, MarkSubmitting, Submit, Answered, TimeOut, RecordTask, ResumeTask, Poll,
           RecordPoll, SettleWithoutTask, AskCancel, RecordSettled, Download, Fetch, Land, Catch, RecordFailure,
           Terminate, FinishStop, Expire, Apply, Scan, StartWorker, Kill, RecordExit, Erring, Acting
<1>5. confirmed'[j] \in {confirmed[j], confirmed[j] + 1} BY <1>4, Resumed
<1>6. confirmed[j] \in Nat /\ used.lists \in Nat BY <1>1 DEF Types
<1>7. Spare(j) <= Spare(j)'
  <2> DEFINE c == confirmed[j]
             d == confirmed'[j]
             l == used.lists
             m == used'.lists
  <2>1. c \in Nat /\ l \in Nat /\ d \in {c, c + 1} /\ m \in {l, l + 1} BY <1>3, <1>5, <1>6
  <2>2. c + l <= d + m
    <3> HIDE DEF c, d, l, m
    <3> QED BY <2>1
  <2> QED BY <2>2 DEF Spare
<1> QED BY <1>2, <1>7

(* Only a submission adds a task, and a refused one was no longer counted. *)
LEMMA AliveStays ==
  ASSUME Sensible, NEW j \in Jobs, User(j) \/ Step(j) \/ Service(j), ~ Submit(j)
  PROVE  Alive(j)' = Alive(j)
<1>1. task \in [Tasks -> [of : 0 .. MaxJobs, state : States]] /\ Held(j) /\ Named(j)
  BY DEF Sensible, Types, Sound
<1>2. CASE UNCHANGED task BY <1>2 DEF Alive
<1>3. CASE Answered(j)
  <2> DEFINE t == pass[j].got
  <2>1. CASE UNCHANGED task BY <1>2, <2>1
  <2>2. CASE task[t].state = "refused" /\ task' = [task EXCEPT ![t] = [of |-> 0, state |-> "none"]]
    <3>1. \A u \in Tasks : u # t => task'[u] = task[u] BY <1>1, <2>2
    <3>2. t \in Tasks => task'[t] = [of |-> 0, state |-> "none"] BY <1>1, <2>2
    <3> HIDE DEF t
    <3> QED BY <2>2, <3>1, <3>2 DEF Alive, Accepted, Jobs
  <2> QED BY <1>3, <2>1, <2>2 DEF Answered
<1>4. CASE AskCancel(j)
  <2>1. \/ UNCHANGED task
        \/ \E t \in Tasks : task[t].state = "running" /\ task' = [task EXCEPT ![t].state = "cancelled"]
    BY <1>4, HeldTask DEF AskCancel
  <2> QED BY <1>1, <1>2, <2>1 DEF Alive, Accepted
<1> QED BY <1>2, <1>3, <1>4 DEF User, Step, Service, Cancel, Dismiss, Resume, Reconcile, BeginStop,
    Enter, EndLease, AskList, RecordFound, Refuse, Probe, MarkSubmitting, TimeOut, RecordTask, ResumeTask,
      Poll, RecordPoll,
    SettleWithoutTask, RecordSettled, Download, Fetch, Land, Catch, RecordFailure,
    Terminate, FinishStop, Expire, Apply, Scan, StartWorker, Kill, RecordExit

LEMMA MildUse ==
  ASSUME NEW r, NEW q, Milder(r, q), r.tried \in BOOLEAN, q.tried \in BOOLEAN
  PROVE  (Usable(q) => Usable(r)) /\ (OutcomeUnknown(r) => OutcomeUnknown(q))
  BY DEF Milder, Usable, OutcomeUnknown

(* The actions that neither look for a task nor write an outcome.          *)
LEMMA Gentle ==
  ASSUME Sensible, NEW j \in Jobs, User(j) \/ Step(j) \/ Service(j),
         ~ Enter(j), ~ AskList(j), ~ Probe(j), ~ MarkSubmitting(j), ~ Submit(j), ~ Answered(j), ~ Catch(j),
         ~ Resume(j), ~ RecordFound(j), ~ RecordTask(j), ~ Land(j), ~ RecordFailure(j)
  PROVE  /\ Milder(job[j], job'[j]) /\ (Usable(job'[j]) => Usable(job[j]))
         /\ OutcomeUnknown(job[j]) => OutcomeUnknown(job'[j])
         /\ pass'[j] = pass[j] \/ Calm(pass'[j])
<1>1. Milder(job[j], job'[j]) BY Mild DEF User, Step, Service
<1>2. job[j] \in Records /\ job'[j] \in Records BY StepTypes DEF Sensible, Types
<1>3. job[j].tried \in BOOLEAN /\ job'[j].tried \in BOOLEAN BY <1>2 DEF Records
<1> QED BY <1>1, <1>3, MildUse, CalmSteps

LEMMA Caught ==
  ASSUME Sensible, NEW j \in Jobs, Catch(j)
  PROVE  /\ UNCHANGED <<job, confirmed, used>> /\ pass[j].pc = "throw"
         /\ \/ pass'[j] = Idle
            \/ pass'[j].snap = job[j] /\ pass'[j].err = pass[j].err /\ pass'[j].pc = "catch"
<1>1. pass \in [Jobs -> Passes] /\ pass[j] \in Passes BY DEF Sensible, Types
<1>2. /\ pass[j].pc = "throw"
      /\ \/ pass'[j] = Idle
         \/ pass'[j] = [pass[j] EXCEPT !.pc = "catch", !.snap = job[j]]
  BY <1>1 DEF Catch, Leave
<1>3. UNCHANGED <<job, confirmed, used>> BY DEF Catch
<1> QED BY <1>1, <1>2, <1>3 DEF Passes

(* A submission adds one task, or finds one that is there.                 *)
LEMMA Submitted ==
  ASSUME Sensible, NEW j \in Jobs, Submit(j)
  PROVE  /\ UNCHANGED <<job, confirmed, used>> /\ pass[j].pc = "submit"
         /\ \/ pass'[j].pc = "record" /\ Alive(j)' = Alive(j)
            \/ /\ pass'[j].pc = "wait" /\ pass'[j].got \in Tasks \ Alive(j)
               /\ Alive(j)' = Alive(j) \cup {pass'[j].got}
<1>1. /\ pass \in [Jobs -> Passes] /\ task \in [Tasks -> [of : 0 .. MaxJobs, state : States]] /\ Types
      /\ Unused
  BY DEF Sensible, Types
<1>2. CASE \E t \in Paid(j) : GoWith(j, "record", t) /\ UNCHANGED task
  <2>1. "record" \in Labels /\ Paid(j) \subseteq Tasks BY DEF Labels, Paid
  <2>2. pass'[j].pc = "record" BY <1>1, <1>2, <2>1, Effects
  <2>3. Alive(j)' = Alive(j) BY <1>2 DEF Alive
  <2> QED BY <2>2, <2>3 DEF Submit
<1>3. CASE \E t \in Tasks :
              /\ task[t].state = "none"
              /\ task' = [task EXCEPT ![t] = [of |-> j, state |-> "sent"]]
              /\ pass' = [pass EXCEPT ![j] = [Idle EXCEPT !.pc = "wait", !.by = pass[j].by, !.got = t]]
  <2>1. PICK t \in Tasks :
              /\ task[t].state = "none"
              /\ task' = [task EXCEPT ![t] = [of |-> j, state |-> "sent"]]
              /\ pass' = [pass EXCEPT ![j] = [Idle EXCEPT !.pc = "wait", !.by = pass[j].by, !.got = t]]
    BY <1>3
  <2>2. pass'[j].pc = "wait" /\ pass'[j].got = t BY <1>1, <2>1 DEF Idle
  <2>3. t \notin Alive(j) BY <2>1 DEF Alive, Accepted
  <2>4. Alive(j)' = Alive(j) \cup {t} BY <1>1, <2>1 DEF Alive
  <2> QED BY <2>2, <2>3, <2>4 DEF Submit
<1> QED BY <1>2, <1>3 DEF Submit

(* Marked is kept by every step of its own job.                            *)
LEMMA StepMarked ==
  ASSUME Thrifty, NEW j \in Jobs, User(j) \/ Step(j) \/ Service(j)
  PROVE  Marked(j)'
<1>a. /\ Sensible /\ Types /\ Marked(j) /\ Remembered(j) /\ pass[j].snap \in Records /\ pass[j].err \in Errors
      /\ job[j] \in Records /\ pass[j] \in Passes /\ pass \in [Jobs -> Passes]
  BY DEF Thrifty, Steadfast, Sensible, Types, Passes
<1>b. /\ \A pc \in {"resume", "reconcile", "refuse", "found", "probe", "lease", "mark", "submit", "record",
           "wait"} : pc \in Labels
      /\ \A err \in {"known", "settled", "transient", "fatal"} : err \in Errors
      /\ \A err \in {"transient", "fatal"} : ~ Knows(err)
  BY DEF Labels, Errors, Knows
<1> USE DEF Marked
<1>1. CASE Milder(job[j], job'[j]) /\ (pass'[j] = pass[j] \/ Calm(pass'[j]))
  BY <1>a, <1>1 DEF Milder, Calm, Alert
<1>2. CASE Resume(j)
  <2>1. UNCHANGED pass BY <1>2 DEF Resume
  <2> QED BY <1>a, <1>2, <2>1, Resumed
<1>3. CASE Enter(j) BY <1>a, <1>b, <1>3, Effects, IdleFields DEF Enter, IdleAs
<1>4. CASE AskList(j)
  <2>1. UNCHANGED job /\ pass[j].pc = "reconcile" BY <1>4 DEF AskList
  <2>2. \/ \E t \in Paid(j) : GoWith(j, "found", t)
        \/ \E err \in Errors : Throw(j, err)
    BY <1>4, <1>b DEF AskList
  <2>3. pass'[j].pc \in {"found", "throw"}
    BY <1>a, <1>b, <2>2, Effects DEF IdleAs, Paid
  <2> QED BY <1>a, <2>1, <2>3
<1>5. CASE Probe(j)
  <2>1. CASE Update(j, [job[j] EXCEPT !.explicit = FALSE]) /\ Go(j, "mark")
    <3>1. [job[j] EXCEPT !.explicit = FALSE] \in Records BY <1>a, RecordsKept, Values
    <3>2. job'[j] = [job[j] EXCEPT !.explicit = FALSE] /\ pass'[j].pc = "mark"
      BY <1>a, <1>b, <2>1, <3>1, Effects DEF IdleAs
    <3> QED BY <1>a, <3>2 DEF Records
  <2>2. CASE \E err \in {"fatal"} \cup (IF job[j].kind = "cli" THEN {"known"} ELSE {}) : Throw(j, err) /\
               UNCHANGED job
    BY <1>a, <1>b, <2>2, Effects DEF IdleAs
  <2> QED BY <1>5, <2>1, <2>2 DEF Probe
<1>6. CASE MarkSubmitting(j)
  <2>1. \/ pass'[j].pc = "submit" /\ job'[j].status = "submitting" /\ ~ job'[j].stopped
        \/ pass'[j].pc = "idle"
    BY <1>a, <1>b, <1>6, Effects, IdleFields DEF MarkSubmitting, IdleAs
  <2>2. \/ job'[j] = job[j] /\ pass'[j].pc = "idle"
        \/ /\ Rest(job[j], job'[j]) /\ job'[j].tried /\ job'[j].safe = job[j].safe
           /\ job'[j].sub = "submitting"
    BY <1>a, <1>6, <2>1, SubmissionMarked DEF Runnable, Final
  <2> QED BY <1>a, <2>1, <2>2 DEF Rest
<1>7. CASE Submit(j)
  <2>1. UNCHANGED job /\ pass'[j].pc \in {"record", "wait"} BY <1>a, <1>7, Submitted
  <2> QED BY <1>a, <2>1
<1>8. CASE Answered(j)
  <2>1. pass[j].got \in Tasks BY <1>8, HeldTask, <1>a DEF Answered, Sensible, Sound, Held, Holding
  <2>2. UNCHANGED job BY <1>8 DEF Answered
  <2>3. \/ pass'[j].pc = "record"
        \/ pass'[j].pc = "throw" /\ (job[j].kind = "api" => ~ Knows(pass'[j].err))
    BY <1>8, <2>1, <1>a, <1>b, Effects DEF Answered, IdleAs
  <2> QED BY <1>a, <2>2, <2>3
<1>9. CASE Catch(j) BY <1>a, <1>9, Caught, IdleFields
<1>10. CASE RecordFound(j) \/ RecordTask(j) \/ Land(j) \/ RecordFailure(j)
  <2>1. pass'[j] = pass[j] \/ Calm(pass'[j])
    BY <1>10, <1>a, CalmSteps DEF Step, RecordFound, RecordTask, Land, RecordFailure, Enter, AskList, Probe,
        MarkSubmitting, Submit, Answered, Catch
  <2>2. pass[j].pc \in {"found", "record", "land", "catch"}
    BY <1>10 DEF RecordFound, RecordTask, Land, RecordFailure
  <2>3. (pass[j].pc = "catch" => pass'[j] = Idle)
    BY <1>10, <1>a, Effects DEF RecordFound, RecordTask, Land, RecordFailure
  <2>4. pass'[j].pc \notin {"submit", "catch", "reconcile"} /\ (pass'[j].pc = "throw" => ~ Knows(pass'[j].err))
    BY <2>1, <2>2, <2>3, IdleFields DEF Calm, Alert
  <2>5. job'[j].kind = "api" => ~ job'[j].safe
    <3>1. CASE RecordFound(j) BY <1>a, <3>1, Found DEF Rest
    <3>2. CASE RecordTask(j) BY <1>a, <3>2, TaskNoted DEF Rest
    <3>3. CASE Land(j) BY <1>a, <3>3, Landed DEF Rest
    <3>4. CASE RecordFailure(j)
      <4>1. job'[j] = job[j] \/ job'[j] = FailurePatch(pass[j].snap, pass[j].err)
        BY <3>4, <1>a DEF RecordFailure, Update, Types
      <4>2. pass[j].pc = "catch" BY <3>4 DEF RecordFailure
      <4> QED BY <1>a, <4>1, <4>2, FailureFields DEF Remembered, Rest
    <3> QED BY <1>10, <3>1, <3>2, <3>3, <3>4
  <2> QED BY <2>4, <2>5
<1> QED BY <1>a, <1>1, <1>2, <1>3, <1>4, <1>5, <1>6, <1>7, <1>8, <1>9, <1>10, Gentle

(* Budget is kept by every step of its own job.                            *)
LEMMA StepBudget ==
  ASSUME Thrifty, NEW j \in Jobs, User(j) \/ Step(j) \/ Service(j)
  PROVE  Budget(j)'
<1>a. /\ Sensible /\ Types /\ Marked(j) /\ Remembered(j) /\ pass[j].snap \in Records /\ pass[j].err \in Errors
      /\ job[j] \in Records /\ pass[j] \in Passes /\ pass \in [Jobs -> Passes] /\ Budget(j) /\ Held(j) /\
           Named(j)
  BY DEF Thrifty, Steadfast, Sensible, Types, Passes, Sound
<1>b. /\ \A pc \in {"resume", "reconcile", "refuse", "found", "probe", "lease", "mark", "submit", "record",
           "wait"} : pc \in Labels
      /\ \A err \in {"known", "settled", "transient", "fatal"} : err \in Errors
      /\ \A err \in {"transient", "fatal"} : ~ Knows(err)
  BY DEF Labels, Errors, Knows
<1>c. Spare(j) \in Nat /\ Spare(j)' \in Nat /\ Spare(j) <= Spare(j)' BY <1>a, SpareGrows
<1>d. ~ Submit(j) => Alive(j)' = Alive(j) BY <1>a, AliveStays
<1>e. Cardinality(Alive(j)) \in Nat BY AliveFinite
<1>f. ASSUME ~ Submit(j), Entitled(j)' => Entitled(j), Again(j)' => Again(j),
             (pass[j].pc = "wait")' => pass'[j] = pass[j]
      PROVE  Budget(j)'
  <2>1. Entitled(j)' => Cardinality(Alive(j)) <= Spare(j)' BY <1>a, <1>c, <1>e, <1>f DEF Budget
  <2>2. Again(j)' => Cardinality(Alive(j)) + 1 <= Spare(j)' BY <1>a, <1>c, <1>e, <1>f DEF Budget
  <2> QED BY <1>a, <1>c, <1>d, <1>f, <2>1, <2>2, BudgetKept
<1>1. CASE /\ Milder(job[j], job'[j]) /\ (pass'[j] = pass[j] \/ Calm(pass'[j]))
           /\ Usable(job'[j]) => Usable(job[j])
           /\ ~ Submit(j)
  <2>1. Entitled(j)' => Entitled(j) BY <1>1 DEF Entitled, Calm, Alert
  <2>2. Again(j)' => Again(j) BY <1>1 DEF Again, Calm, Alert, Milder
  <2>3. (pass[j].pc = "wait")' => pass'[j] = pass[j] BY <1>1 DEF Calm, Alert
  <2> QED BY <1>1, <1>f, <2>1, <2>2, <2>3
<1>2. CASE Resume(j)
  <2>1. UNCHANGED <<pass, task>> /\ used'.lists = used.lists
    BY <1>a, <1>2 DEF Resume, Types, Acting, Spend
  <2>2. \/ Spare(j)' = Spare(j) + 1
        \/ Spare(j)' = Spare(j) /\ (job[j].task # 0 \/ SafeToResubmit(job[j]))
    <3>1. confirmed[j] \in Nat /\ used.lists \in Nat BY <1>a DEF Types
    <3>2. confirmed'[j] \in {confirmed[j], confirmed[j] + 1} /\
            (confirmed'[j] = confirmed[j] + 1 \/ job[j].task # 0 \/ SafeToResubmit(job[j]))
      BY <1>a, <1>2, Resumed
    <3> QED BY <2>1, <3>1, <3>2 DEF Spare
  <2>3. Alive(j)' = Alive(j) BY <2>1 DEF Alive
  <2>4. CASE Spare(j)' = Spare(j) + 1
    <3>1. Cardinality(Alive(j)) <= Spare(j)' BY <1>a, <1>c, <1>e, <2>4 DEF Budget
    <3>2. Again(j)' => Entitled(j) BY <2>1 DEF Again, Entitled
    <3>3. Again(j)' => Cardinality(Alive(j)) + 1 <= Spare(j)' BY <1>a, <1>c, <1>e, <2>4, <3>2 DEF Budget
    <3> QED BY <1>a, <1>c, <2>1, <2>3, <3>1, <3>3, BudgetKept
  <2>5. CASE Spare(j)' = Spare(j) /\ job[j].task # 0
    <3>1. job'[j].task # 0 /\ ~ job'[j].explicit BY <1>a, <1>2, <2>5, Resumed
    <3>2. Entitled(j)' => Entitled(j) BY <2>1, <3>1 DEF Entitled, Usable
    <3>3. ~ Again(j)' BY <3>1 DEF Again
    <3>4. Entitled(j)' => Cardinality(Alive(j)) <= Spare(j)' BY <1>a, <2>5, <3>2 DEF Budget
    <3> QED BY <1>a, <1>c, <2>1, <2>3, <3>3, <3>4, BudgetKept
  <2>6. CASE Spare(j)' = Spare(j) /\ job[j].task = 0 /\ SafeToResubmit(job[j])
    <3>1. Usable(job[j]) BY <1>a, <2>6 DEF Usable, OutcomeUnknown, SafeToResubmit, Records
    <3>2. Entitled(j) BY <3>1 DEF Entitled
    <3>3. job'[j].kind = job[j].kind /\ job[j].kind # "api"
      BY <1>a, <1>2, <2>6, Resumed DEF Marked, SafeToResubmit
    <3>4. ~ Again(j)' BY <3>3 DEF Again
    <3> QED BY <1>a, <1>c, <1>e, <2>1, <2>3, <3>2, <3>4, BudgetKept DEF Budget
  <2> QED BY <2>2, <2>4, <2>5, <2>6
<1>3. CASE Enter(j)
  <2>1. UNCHANGED job /\ pass'[j].pc \notin {"mark", "submit", "wait", "throw", "catch"} /\
          (pass'[j].pc = "probe" => Usable(job[j]))
    <3>1. UNCHANGED job BY <1>3 DEF Enter
    <3>2. pass'[j].pc \in {"lease", "idle", "cancel", "resume", "reconcile", "refuse"} \/
            (Go(j, "probe") /\ Usable(job[j]))
      BY <1>a, <1>b, <1>3, Effects, IdleFields DEF Enter, IdleAs, Usable, MaySubmit
    <3> QED BY <1>a, <1>b, <3>1, <3>2, Effects DEF IdleAs
  <2> QED BY <1>3, <1>f, <2>1 DEF Entitled, Again, Enter, Submit
<1>4. CASE AskList(j)
  <2>1. UNCHANGED job /\ pass[j].pc = "reconcile" BY <1>4 DEF AskList
  <2>2. \/ \E t \in Paid(j) : GoWith(j, "found", t)
        \/ \E err \in {"transient", "fatal"} : Throw(j, err)
        \/ Throw(j, "known") /\ used' = [used EXCEPT !.errors = @ + 1, !.lists = @ + 1]
    BY <1>4 DEF AskList
  <2>3. \/ pass'[j].pc = "found"
        \/ pass'[j].pc = "throw" /\ (~ Knows(pass'[j].err) \/ Spare(j)' = Spare(j) + 1)
    <3>1. CASE \E t \in Paid(j) : GoWith(j, "found", t)
      BY <1>a, <1>b, <3>1, Effects DEF IdleAs, Paid
    <3>2. CASE \E err \in {"transient", "fatal"} : Throw(j, err) BY <1>a, <1>b, <3>2, Effects DEF IdleAs
    <3>3. CASE Throw(j, "known") /\ used' = [used EXCEPT !.errors = @ + 1, !.lists = @ + 1]
      <4>1. used'.lists = used.lists + 1 /\ used.lists \in Nat /\ confirmed[j] \in Nat BY <1>a, <3>3 DEF Types
      <4>2. confirmed' = confirmed BY <1>4 DEF AskList
      <4> QED BY <1>a, <1>b, <3>3, <4>1, <4>2, Effects DEF IdleAs, Spare
    <3> QED BY <2>2, <3>1, <3>2, <3>3
  <2>4. ~ Submit(j) BY <2>1 DEF Submit
  <2>5. CASE Spare(j)' = Spare(j) + 1 /\ pass'[j].pc = "throw"
    <3>1. Cardinality(Alive(j)) <= Spare(j)' BY <1>a, <1>c, <1>e, <2>5 DEF Budget
    <3> QED BY <1>a, <1>c, <1>d, <2>4, <2>5, <3>1, BudgetKept DEF Again
  <2> QED BY <1>f, <2>1, <2>3, <2>4, <2>5 DEF Entitled, Again
<1>5. CASE Probe(j)
  <2>1. pass[j].pc = "probe" BY <1>5 DEF Probe
  <2>2. pass'[j].pc # "wait" /\ (pass'[j].pc = "mark" => ~ job'[j].explicit) /\ pass'[j].pc # "submit"
    <3>1. CASE Update(j, [job[j] EXCEPT !.explicit = FALSE]) /\ Go(j, "mark")
      <4>1. [job[j] EXCEPT !.explicit = FALSE] \in Records BY <1>a, RecordsKept, Values
      <4>2. job'[j] = [job[j] EXCEPT !.explicit = FALSE] /\ pass'[j].pc = "mark"
        BY <1>a, <1>b, <3>1, <4>1, Effects DEF IdleAs
      <4> QED BY <1>a, <4>2 DEF Records
    <3>2. CASE \E err \in {"fatal"} \cup (IF job[j].kind = "cli" THEN {"known"} ELSE {}) : Throw(j, err)
      BY <1>a, <1>b, <3>2, Effects DEF IdleAs
    <3> QED BY <1>5, <3>1, <3>2 DEF Probe
  <2> QED BY <1>f, <2>1, <2>2 DEF Entitled, Again, Submit
<1>6. CASE MarkSubmitting(j)
  <2>1. pass[j].pc = "mark" /\ pass'[j].pc \in {"submit", "idle"}
    BY <1>a, <1>b, <1>6, Effects, IdleFields DEF MarkSubmitting, IdleAs
  <2>2. Rest(job[j], job'[j]) BY <1>a, <1>6, SubmissionMarked DEF Rest
  <2> QED BY <1>f, <2>1, <2>2 DEF Entitled, Again, Submit, Rest
<1>7. CASE Submit(j)
  <2>1. UNCHANGED <<job, confirmed, used>> /\ pass[j].pc = "submit" /\ Entitled(j)
    BY <1>a, <1>7, Submitted DEF Entitled
  <2>2. Spare(j)' = Spare(j) BY <2>1 DEF Spare
  <2>3. CASE pass'[j].pc = "record" /\ Alive(j)' = Alive(j)
    <3>1. ~ Again(j)' /\ Cardinality(Alive(j)) <= Spare(j) BY <1>a, <2>1, <2>3 DEF Again, Budget
    <3> QED BY <1>a, <1>c, <2>2, <2>3, <3>1, BudgetKept
  <2>4. CASE /\ pass'[j].pc = "wait" /\ pass'[j].got \in Tasks \ Alive(j)
             /\ Alive(j)' = Alive(j) \cup {pass'[j].got}
    <3> DEFINE t == pass'[j].got
    <3>1. Cardinality(Alive(j)') = Cardinality(Alive(j)) + 1 BY <2>4, AliveFinite, FS_AddElement
    <3>2. Alive(j)' \ {t} = Alive(j) BY <2>4
    <3>3. Cardinality(Alive(j)) <= Spare(j) BY <1>a, <2>1 DEF Budget
    <3>4. Entitled(j)' => Again(j)
      <4>1. Entitled(j)' => Usable(job[j]) BY <2>1, <2>4 DEF Entitled
      <4>2. job[j].tried /\ job[j].task = 0 /\ OutcomeUnknown(job[j])
        BY <1>a, <2>1 DEF Marked, Named, Seeking, OutcomeUnknown
      <4>3. job[j].kind \in {"api", "cli"} BY <1>a DEF Records
      <4>4. Usable(job[j]) => job[j].kind = "api" /\ job[j].explicit BY <1>a, <4>2, <4>3 DEF Usable, Marked
      <4> QED BY <2>1, <4>1, <4>4 DEF Again
    <3>5. Entitled(j)' => Cardinality(Alive(j)) + 1 <= Spare(j) BY <1>a, <3>4 DEF Budget
    <3>6. Cardinality(Alive(j)') <= 1 + Spare(j)' BY <1>c, <1>e, <2>2, <3>1, <3>3
    <3>7. Entitled(j)' => Cardinality(Alive(j)') <= Spare(j)' BY <2>2, <3>1, <3>5
    <3>8. ~ Again(j)' BY <2>4 DEF Again
    <3>9. Cardinality(Alive(j)' \ {t}) <= Spare(j)' BY <2>2, <3>2, <3>3
    <3> QED BY <3>6, <3>7, <3>8, <3>9 DEF Budget
  <2> QED BY <1>a, <1>7, <2>3, <2>4, Submitted
<1>8. CASE Answered(j)
  <2> DEFINE t == pass[j].got
  <2>1. pass[j].got \in Tasks BY <1>8, HeldTask, <1>a DEF Answered, Sensible, Sound, Held, Holding
  <2>2. UNCHANGED job /\ pass[j].pc = "wait" BY <1>8 DEF Answered
  <2>3. \/ pass'[j].pc = "record"
        \/ pass'[j].pc = "throw" /\ task[t].state = "refused"
    BY <1>8, <2>1, <1>a, <1>b, Effects DEF Answered, IdleAs
  <2>4. ~ Submit(j) BY <2>2 DEF Submit
  <2>5. CASE pass'[j].pc = "record" BY <1>f, <2>2, <2>4, <2>5 DEF Entitled, Again
  <2>6. CASE pass'[j].pc = "throw" /\ task[t].state = "refused"
    <3>1. Alive(j) \ {t} = Alive(j) BY <2>6 DEF Alive, Accepted
    <3>2. Cardinality(Alive(j)) <= Spare(j) BY <1>a, <2>2, <3>1 DEF Budget
    <3>3. Cardinality(Alive(j)) <= Spare(j)' BY <1>c, <1>e, <3>2
    <3> QED BY <1>a, <1>c, <1>d, <2>4, <2>6, <3>3, BudgetKept DEF Again
  <2> QED BY <2>3, <2>5, <2>6
<1>9. CASE Catch(j)
  <2>1. Entitled(j)' => Entitled(j) BY <1>a, <1>9, Caught, IdleFields DEF Entitled
  <2>2. ~ Again(j)' /\ (pass[j].pc # "wait")' /\ ~ Submit(j)
    BY <1>a, <1>9, Caught, IdleFields DEF Again, Submit
  <2> QED BY <1>f, <2>1, <2>2
<1>10. CASE RecordFound(j) \/ RecordTask(j) \/ Land(j) \/ RecordFailure(j)
  <2>1. pass'[j] = pass[j] \/ Calm(pass'[j])
    BY <1>10, <1>a, CalmSteps DEF Step, RecordFound, RecordTask, Land, RecordFailure, Enter, AskList, Probe,
        MarkSubmitting, Submit, Answered, Catch
  <2>2. pass[j].pc \in {"found", "record", "land", "catch"}
    BY <1>10 DEF RecordFound, RecordTask, Land, RecordFailure
  <2>3. (pass[j].pc = "catch" => pass'[j] = Idle)
    BY <1>10, <1>a, Effects DEF RecordFound, RecordTask, Land, RecordFailure
  <2>4. pass'[j].pc \notin {"probe", "mark", "submit", "catch", "wait"} /\
          (pass'[j].pc = "throw" => ~ Knows(pass'[j].err))
    BY <2>1, <2>2, <2>3, IdleFields DEF Calm, Alert
  <2>5. Usable(job'[j]) => Entitled(j)
    <3>1. CASE RecordFound(j) \/ RecordTask(j)
      <4>1. pass[j].pc \in {"found", "record"} BY <3>1 DEF RecordFound, RecordTask
      <4>2. pass[j].got # 0 BY <1>a, <4>1 DEF Held, Holding
      <4>3. job'[j].task # 0 BY <1>a, <3>1, <4>2, Found, TaskNoted
      <4> QED BY <4>3 DEF Usable
    <3>2. CASE Land(j)
      <4>1. pass[j].pc = "land" BY <3>2 DEF Land
      <4>2. job'[j].task # 0 BY <1>a, <3>2, <4>1, Landed DEF Named, Knowing
      <4> QED BY <4>2 DEF Usable
    <3>3. CASE RecordFailure(j)
      <4>1. job'[j] = job[j] \/ job'[j] = FailurePatch(pass[j].snap, pass[j].err)
        BY <3>3, <1>a DEF RecordFailure, Update, Types
      <4>2. pass[j].pc = "catch" BY <3>3 DEF RecordFailure
      <4>3. CASE job'[j] = job[j] BY <4>3 DEF Entitled
      <4>4. CASE Knows(pass[j].err) BY <4>2, <4>4 DEF Entitled
      <4>5. CASE ~ Knows(pass[j].err) /\ job'[j] = FailurePatch(pass[j].snap, pass[j].err)
        <5>1. Usable(job'[j]) => Usable(pass[j].snap)
          BY <1>a, <4>5, FailureFields DEF Usable, OutcomeUnknown, Rest
        <5> QED BY <4>2, <5>1 DEF Entitled
      <4> QED BY <4>1, <4>3, <4>4, <4>5
    <3> QED BY <1>10, <3>1, <3>2, <3>3
  <2>6. ~ Submit(j) BY <2>2 DEF Submit
  <2> QED BY <1>f, <2>4, <2>5, <2>6 DEF Entitled, Again
<1> QED BY <1>a, <1>1, <1>2, <1>3, <1>4, <1>5, <1>6, <1>7, <1>8, <1>9, <1>10, Gentle

(* With nothing to spare there is one task, and no right to another.       *)
LEMMA OnlyOne ==
  ASSUME NEW j \in Jobs, Budget(j), Spare(j) = 0, NEW t \in Alive(j), NEW u \in Alive(j)
  PROVE  t = u /\ ~ Entitled(j)
<1>1. /\ {t, u} \in SUBSET Tasks /\ Alive(j) \in SUBSET Tasks /\ {t} \in SUBSET Tasks BY AliveFinite
<1>2. Cardinality({t}) = 1 /\ (t # u => Cardinality({t, u}) = 2)
  <2>1. IsFiniteSet({t}) /\ Cardinality({t}) = 1 BY FS_Singleton
  <2>2. t # u => Cardinality({t} \cup {u}) = Cardinality({t}) + 1 BY <2>1, FS_AddElement
  <2>3. {t} \cup {u} = {t, u} OBVIOUS
  <2> QED BY <2>1, <2>2, <2>3
<1>3. Cardinality({t, u}) <= Cardinality(Alive(j)) /\ Cardinality({t}) <= Cardinality(Alive(j))
  BY <1>1, AliveFinite
<1>4. Cardinality(Alive(j)) \in Nat /\ Cardinality(Alive(j)) <= 1 /\ (Entitled(j) => Cardinality(Alive(j)) <= 0)
  BY AliveFinite DEF Budget
<1> QED BY <1>2, <1>3, <1>4

LEMMA SearchWays ==
  ASSUME Sensible, NEW j \in Jobs, Enter(j) \/ AskList(j) \/ Probe(j) \/ MarkSubmitting(j) \/ Answered(j)
  PROVE  pass'[j].pc # "catch"
<1>a. Types /\ pass[j] \in Passes /\ job[j] \in Records BY DEF Sensible, Types
<1>b. /\ \A pc \in {"resume", "reconcile", "refuse", "found", "probe", "lease", "mark", "submit", "record"} :
           pc \in Labels
      /\ \A err \in {"known", "settled", "transient", "fatal"} : err \in Errors
  BY DEF Labels, Errors
<1>1. CASE Enter(j) BY <1>a, <1>b, <1>1, Effects, IdleFields DEF Enter, IdleAs
<1>2. CASE AskList(j) BY <1>a, <1>b, <1>2, Effects DEF AskList, IdleAs, Paid
<1>3. CASE Probe(j) BY <1>a, <1>b, <1>3, Effects DEF Probe, IdleAs
<1>4. CASE MarkSubmitting(j) BY <1>a, <1>b, <1>4, Effects, IdleFields DEF MarkSubmitting, IdleAs
<1>5. CASE Answered(j)
  <2>1. pass[j].got \in Tasks BY <1>5, HeldTask DEF Answered, Sensible, Sound, Held, Holding
  <2> QED BY <1>a, <1>b, <1>5, <2>1, Effects DEF Answered, IdleAs
<1> QED BY <1>1, <1>2, <1>3, <1>4, <1>5

(* Known is kept by every step of its own job.                             *)
LEMMA StepKnown ==
  ASSUME Thrifty, NEW j \in Jobs, User(j) \/ Step(j) \/ Service(j)
  PROVE  Known(j)'
<1>a. /\ Sensible /\ Types /\ Marked(j) /\ Remembered(j) /\ pass[j].snap \in Records /\ pass[j].err \in Errors
      /\ job[j] \in Records /\ pass[j] \in Passes /\ pass \in [Jobs -> Passes] /\ Budget(j) /\ Held(j) /\
           Named(j) /\ Known(j)
  BY DEF Thrifty, Steadfast, Sensible, Types, Passes, Sound
<1>c. Spare(j) \in Nat /\ Spare(j)' \in Nat /\ Spare(j) <= Spare(j)' BY <1>a, SpareGrows
<1>d. ~ Submit(j) => Alive(j)' = Alive(j) BY <1>a, AliveStays
<1> SUFFICES ASSUME Spare(j)' = 0, NEW t \in Alive(j)'
             PROVE  /\ job'[j].task = t \/ OutcomeUnknown(job'[j])
                    /\ pass'[j].pc = "catch" => pass'[j].snap.task = t \/ OutcomeUnknown(pass'[j].snap)
  BY DEF Known
<1>e. Spare(j) = 0 BY <1>c
<1>1. CASE /\ Milder(job[j], job'[j]) /\ (OutcomeUnknown(job[j]) => OutcomeUnknown(job'[j]))
           /\ pass'[j] = pass[j] \/ pass'[j].pc # "catch"
           /\ ~ Submit(j)
  BY <1>a, <1>d, <1>e, <1>1 DEF Known, Milder
<1>2. CASE Resume(j)
  <2>1. UNCHANGED <<pass, task>> BY <1>2 DEF Resume
  <2>2. Alive(j)' = Alive(j) BY <2>1 DEF Alive
  <2> QED BY <1>a, <1>e, <1>2, <2>1, <2>2, Resumed DEF Known, OutcomeUnknown
<1>3. CASE Submit(j)
  <2>1. UNCHANGED job /\ pass[j].pc = "submit" /\ pass'[j].pc # "catch" BY <1>a, <1>3, Submitted
  <2>2. OutcomeUnknown(job[j]) BY <1>a, <2>1 DEF Marked, Named, Seeking, OutcomeUnknown
  <2> QED BY <2>1, <2>2
<1>4. CASE Catch(j)
  <2>1. UNCHANGED job /\ ~ Submit(j) BY <1>4 DEF Catch, Submit
  <2>2. pass'[j].pc = "catch" => pass'[j].snap = job[j] BY <1>a, <1>4, Caught, IdleFields
  <2> QED BY <1>a, <1>d, <1>e, <2>1, <2>2 DEF Known
<1>5. CASE Enter(j) \/ AskList(j) \/ Probe(j) \/ MarkSubmitting(j) \/ Answered(j)
  <2>1. ~ Submit(j) BY <1>5 DEF Enter, AskList, Probe, MarkSubmitting, Answered, Submit
  <2>2. pass'[j].pc # "catch" BY <1>a, <1>5, SearchWays
  <2>3. CASE MarkSubmitting(j)
    <3>1. /\ job'[j].task = job[j].task
          /\ OutcomeUnknown(job[j]) => OutcomeUnknown(job'[j])
      BY <1>a, <2>3, SubmissionMarked DEF OutcomeUnknown
    <3> QED BY <1>a, <1>d, <1>e, <2>1, <2>2, <3>1 DEF Known
  <2>4. CASE ~ MarkSubmitting(j)
    <3>1. Milder(job[j], job'[j]) BY <1>a, <1>5, <2>4, Mild
    <3>2. OutcomeUnknown(job[j]) => OutcomeUnknown(job'[j]) BY <3>1 DEF Milder, OutcomeUnknown
    <3> QED BY <1>1, <2>1, <2>2, <3>1, <3>2
  <2> QED BY <2>3, <2>4
<1>6. CASE RecordFound(j) \/ RecordTask(j)
  <2>1. pass[j].pc \in {"found", "record"} BY <1>6 DEF RecordFound, RecordTask
  <2>2. pass[j].got \in Tasks /\ pass[j].got # 0 /\ pass[j].got \in Alive(j)
    BY <1>a, <2>1, HeldTask DEF Held, Holding, Alive
  <2>3. job'[j].task = pass[j].got BY <1>a, <1>6, Found, TaskNoted
  <2>4. pass[j].got = t BY <1>a, <1>d, <1>e, <2>1, <2>2, OnlyOne DEF Submit
  <2>5. pass'[j] = pass[j] \/ Calm(pass'[j])
    BY <1>6, <2>1, <1>a, CalmSteps DEF Step, RecordFound, RecordTask, Enter, AskList, Probe, MarkSubmitting,
        Submit, Answered, Catch
  <2> QED BY <2>1, <2>3, <2>4, <2>5 DEF Calm, Alert
<1>7. CASE Land(j)
  <2>1. pass[j].pc = "land" BY <1>7 DEF Land
  <2>2. job'[j].task = job[j].task /\ job[j].task # 0 BY <1>a, <1>7, <2>1, Landed DEF Named, Knowing
  <2>3. pass'[j] = Idle BY <1>a, <1>7, Effects DEF Land
  <2> QED BY <1>a, <1>d, <1>e, <2>1, <2>2, <2>3, IdleFields DEF Known, OutcomeUnknown, Submit
<1>8. CASE RecordFailure(j)
  <2>1. job'[j] = job[j] \/ job'[j] = FailurePatch(pass[j].snap, pass[j].err)
    BY <1>8, <1>a DEF RecordFailure, Update, Types
  <2>2. pass[j].pc = "catch" /\ ~ Submit(j) BY <1>8 DEF RecordFailure, Submit
  <2>3. pass'[j] = Idle BY <1>a, <1>8, Effects DEF RecordFailure
  <2>4. ~ Entitled(j) BY <1>a, <1>d, <1>e, <2>2, OnlyOne
  <2>5. ~ Knows(pass[j].err) BY <2>2, <2>4 DEF Entitled
  <2>6. pass[j].snap.task = t \/ OutcomeUnknown(pass[j].snap) BY <1>a, <1>d, <1>e, <2>2 DEF Known
  <2>7. CASE job'[j] = FailurePatch(pass[j].snap, pass[j].err)
    BY <1>a, <2>3, <2>5, <2>6, <2>7, FailureFields, IdleFields DEF OutcomeUnknown
  <2>8. CASE job'[j] = job[j] BY <1>a, <1>d, <1>e, <2>2, <2>3, <2>8, IdleFields DEF Known
  <2> QED BY <2>1, <2>7, <2>8
<1> QED BY <1>a, <1>1, <1>2, <1>3, <1>4, <1>5, <1>6, <1>7, <1>8, Gentle DEF Calm, Alert

LEMMA OthersThrifty ==
  ASSUME Thrifty, NEW k \in Jobs, Others(k), Types'
  PROVE  Marked(k)' /\ Budget(k)' /\ Known(k)'
<1>a. Marked(k) /\ Budget(k) /\ Known(k) /\ Types BY DEF Thrifty, Steadfast, Sensible
<1>1. Marked(k)' BY <1>a DEF Others, Marked
<1>2. Alive(k)' = Alive(k) BY DEF Others, Alive
<1>3. Spare(k) \in Nat /\ Spare(k)' \in Nat /\ Spare(k) <= Spare(k)'
  <2>1. confirmed[k] \in Nat /\ used.lists \in Nat BY <1>a DEF Types
  <2>2. confirmed'[k] = confirmed[k] /\ used'.lists \in {used.lists, used.lists + 1} BY DEF Others
  <2> QED BY <2>1, <2>2 DEF Spare
<1>4. /\ job'[k] = job[k] /\ pass'[k] = pass[k]
      /\ (Entitled(k)' <=> Entitled(k)) /\ (Again(k)' <=> Again(k))
  BY DEF Others, Entitled, Again
<1>5. Cardinality(Alive(k)) \in Nat BY AliveFinite
<1>6. Budget(k)'
  <2>1. Entitled(k)' => Cardinality(Alive(k)) <= Spare(k)' BY <1>a, <1>3, <1>4, <1>5 DEF Budget
  <2>2. Again(k)' => Cardinality(Alive(k)) + 1 <= Spare(k)' BY <1>a, <1>3, <1>4, <1>5 DEF Budget
  <2> QED BY <1>a, <1>2, <1>3, <1>4, <2>1, <2>2, BudgetKept
<1>7. Known(k)' BY <1>a, <1>2, <1>3, <1>4 DEF Known
<1> QED BY <1>1, <1>6, <1>7

LEMMA GenerateThrifty ==
  ASSUME Thrifty, NEW j \in Jobs \cup {MaxJobs + 1}, NEW kind \in Kinds, Generate(j, kind), NEW k \in Jobs
  PROVE  Marked(k)' /\ Budget(k)' /\ Known(k)'
<1>a. Marked(k) /\ Budget(k) /\ Known(k) /\ Sensible /\ Types /\ Sound(k) /\ job[k] \in Records
  BY DEF Thrifty, Steadfast, Sensible, Types
<1>1. /\ \/ Milder(job[k], job'[k])
         \/ /\ job[k] = NoJob /\ pass[k].pc \in {"idle", "locked"}
            /\ job'[k] = [NoJob EXCEPT !.kind = kind, !.status = "queued"]
      /\ UNCHANGED <<task, pass, confirmed>> /\ used'.lists = used.lists /\ job'[k] \in Records
  BY <1>a, Generated
<1>2. Alive(k)' = Alive(k) /\ Spare(k)' = Spare(k) BY <1>1 DEF Alive, Spare
<1>3. Spare(k) \in Nat BY <1>a, SpareTyped
<1>4. CASE Milder(job[k], job'[k])
  <2>1. Marked(k)' BY <1>a, <1>1, <1>4 DEF Marked, Milder
  <2>2. (Usable(job'[k]) => Usable(job[k])) /\ (OutcomeUnknown(job[k]) => OutcomeUnknown(job'[k]))
    BY <1>a, <1>1, <1>4, MildUse DEF Records
  <2>3. Known(k)' BY <1>a, <1>1, <1>2, <1>4, <2>2 DEF Known, Milder
  <2>4. (Entitled(k)' => Entitled(k)) /\ (Again(k)' => Again(k))
    BY <1>1, <1>4, <2>2 DEF Entitled, Again, Milder
  <2>5. Budget(k)' BY <1>a, <1>1, <1>2, <1>3, <2>4, BudgetKept DEF Budget
  <2> QED BY <2>1, <2>3, <2>5
<1>5. CASE /\ job[k] = NoJob /\ pass[k].pc \in {"idle", "locked"}
           /\ job'[k] = [NoJob EXCEPT !.kind = kind, !.status = "queued"]
  <2>1. Entitled(k) /\ ~ OutcomeUnknown(job[k]) BY <1>5 DEF NoJob, Entitled, Usable, OutcomeUnknown
  <2>2. ~ job'[k].safe BY <1>5 DEF NoJob
  <2>3. Marked(k)' BY <1>1, <1>5, <1>a, <2>2 DEF Marked
  <2>4. Spare(k) = 0 => Alive(k) = {}
    <3> SUFFICES ASSUME Spare(k) = 0, NEW t \in Alive(k) PROVE FALSE OBVIOUS
    <3> QED BY <1>a, <2>1, OnlyOne
  <2>5. Known(k)' BY <1>2, <2>4 DEF Known
  <2>6. Budget(k)' BY <1>a, <1>1, <1>2, <1>3, <1>5, <2>1, BudgetKept DEF Budget, Again
  <2> QED BY <2>3, <2>5, <2>6
<1> QED BY <1>1, <1>4, <1>5

LEMMA ProviderThrifty ==
  ASSUME Thrifty, NEW t \in Tasks, Reach(t) \/ Finish(t), NEW k \in Jobs
  PROVE  Marked(k)' /\ Budget(k)' /\ Known(k)'
<1>a. Marked(k) /\ Budget(k) /\ Known(k) /\ Sensible /\ Types
  BY DEF Thrifty, Steadfast, Sensible, Types
<1>1. Alive(k)' \subseteq Alive(k) /\ UNCHANGED <<job, pass, confirmed, used>> BY <1>a, ProviderStep DEF Alive
<1>2. Spare(k)' = Spare(k) /\ Spare(k) \in Nat BY <1>1, <1>a, SpareTyped DEF Spare
<1>3. Marked(k)' BY <1>a, <1>1 DEF Marked
<1>4. Known(k)' BY <1>a, <1>1, <1>2 DEF Known
<1>5. (Entitled(k)' <=> Entitled(k)) /\ (Again(k)' <=> Again(k)) BY <1>1 DEF Entitled, Again
<1>6. Entitled(k)' => Cardinality(Alive(k)) <= Spare(k)' BY <1>a, <1>2, <1>5 DEF Budget
<1>7. Again(k)' => Cardinality(Alive(k)) + 1 <= Spare(k)' BY <1>a, <1>2, <1>5 DEF Budget
<1>8. Budget(k)' BY <1>a, <1>1, <1>2, <1>6, <1>7, BudgetKept
<1> QED BY <1>3, <1>4, <1>8

LEMMA NextThrifty == Thrifty /\ [Next]_vars => Thrifty'
<1> SUFFICES ASSUME Thrifty, [Next]_vars PROVE Thrifty' OBVIOUS
<1>1. Steadfast /\ Steadfast' /\ Sensible /\ Types' BY NextSteadfast DEF Thrifty, Steadfast, Sensible
<1>2. ASSUME NEW k \in Jobs PROVE Marked(k)' /\ Budget(k)' /\ Known(k)'
  <2>1. ASSUME NEW j \in Jobs, User(j) \/ Step(j) \/ Service(j) PROVE Marked(k)' /\ Budget(k)' /\ Known(k)'
    <3>1. CASE k = j BY <2>1, <3>1, StepMarked, StepBudget, StepKnown
    <3>2. CASE k # j BY <1>1, <2>1, <3>2, OthersStay, OthersThrifty
    <3> QED BY <3>1, <3>2
  <2>2. CASE UNCHANGED vars
    <3>1. Marked(k) /\ Budget(k) /\ Known(k) BY DEF Thrifty
    <3>2. /\ UNCHANGED <<job, pass>> /\ Spare(k)' = Spare(k) /\ Alive(k)' = Alive(k)
          /\ (Entitled(k)' <=> Entitled(k)) /\ (Again(k)' <=> Again(k))
      BY <2>2 DEF vars, Spare, Alive, Entitled, Again
    <3> QED BY <3>1, <3>2 DEF Marked, Budget, Known
  <2> QED BY <2>1, <2>2, GenerateThrifty, ProviderThrifty DEF Next
<1> QED BY <1>1, <1>2 DEF Thrifty

LEMMA InitThrifty == Init => Thrifty
<1> SUFFICES ASSUME Init, NEW k \in Jobs PROVE Marked(k) /\ Budget(k) /\ Known(k)
  BY InitSteadfast DEF Thrifty
<1>1. pass[k] = Idle /\ job[k] = NoJob /\ confirmed[k] = 0 /\ used.lists = 0 BY DEF Init
<1>2. Alive(k) = {} BY DEF Init, Alive, Accepted
<1>3. Spare(k) = 0 BY <1>1 DEF Spare
<1>4. Marked(k) /\ ~ Again(k) /\ pass[k].pc # "wait" BY <1>1, IdleFields DEF Marked, Again
<1> QED BY <1>1, <1>2, <1>3, <1>4, FS_EmptySet DEF Budget, Known

(* A job is paid for once, and once more for each new submission its user  *)
(* has confirmed and for each failure of list_task that was taken for an   *)
(* answer (PaidOnce): for any number of jobs, tasks, requests, failures    *)
(* and workers that die.                                                   *)
THEOREM PaymentsBounded == Spec => []PaidOnce
<1>1. Thrifty => PaidOnce
  <2> SUFFICES ASSUME Thrifty, NEW j \in Jobs PROVE Cardinality(Paid(j)) <= 1 + confirmed[j] + used.lists
    BY DEF PaidOnce
  <2>1. Paid(j) \subseteq Alive(j) BY DEF Paid, Alive
  <2>2. Alive(j) \in SUBSET Tasks /\ Paid(j) \in SUBSET Tasks BY DEF Alive, Paid
  <2>3. Cardinality(Paid(j)) <= Cardinality(Alive(j)) /\ Cardinality(Paid(j)) \in Nat /\
          Cardinality(Alive(j)) \in Nat
    BY <2>1, <2>2, AliveFinite
  <2>4. Cardinality(Alive(j)) <= 1 + Spare(j) BY DEF Thrifty, Budget
  <2>5. confirmed[j] \in Nat /\ used.lists \in Nat BY DEF Thrifty, Steadfast, Sensible, Types
  <2> QED BY <2>3, <2>4, <2>5 DEF Spare
<1> QED BY <1>1, InitThrifty, NextThrifty, PTL DEF Spec

(* A task the provider has taken is in its job's record, or the record     *)
(* says that the outcome of a submission is unknown (PaidTasksKnown).      *)
THEOREM PaymentsRemembered == Spec => []PaidTasksKnown
<1>1. Thrifty => PaidTasksKnown
  <2> SUFFICES ASSUME Thrifty, NEW j \in Jobs, NEW t \in Paid(j), ~ (Spare(j) > 0)
               PROVE  job[j].task = t \/ OutcomeUnknown(job[j])
    BY DEF PaidTasksKnown, Spare
  <2>1. Spare(j) = 0 BY SpareTyped DEF Thrifty, Steadfast, Sensible
  <2>2. t \in Alive(j) BY DEF Paid, Alive
  <2> QED BY <2>1, <2>2 DEF Thrifty, Known
<1> QED BY <1>1, InitThrifty, NextThrifty, PTL DEF Spec
==============================================================================
