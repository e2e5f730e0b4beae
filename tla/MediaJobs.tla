----------------------------- MODULE MediaJobs -----------------------------
(***************************************************************************)
(* Image and video generation: src/server/generation-job-store.mjs keeps   *)
(* one JSON record per job, changed by the user's requests                 *)
(* (src/domains/media/media-generation-api.mjs) and by worker processes    *)
(* (src/server/media-generation-worker.mjs) that submit the job to a paid  *)
(* provider, poll the provider's task and fetch its result.                *)
(*                                                                         *)
(* One worker works on a job at a time (its lock, acquireJobLock): one the *)
(* server started for it, or the scan that runs at start-up and from a     *)
(* watchdog. A record is changed by one function at a time, but between    *)
(* two of a worker's updates the user may stop the job, start another one  *)
(* for the card or confirm a new submission. Workers die; requests to the  *)
(* provider are answered late, or never, while the provider goes on.       *)
(*                                                                         *)
(* All the jobs are for one card: MaxJobs of them are followed, and one    *)
(* more may take their place. A job is sent through an API or through a    *)
(* command-line client that can list the tasks it has created.             *)
(***************************************************************************)
EXTENDS Naturals, FiniteSets

CONSTANTS
    Kinds,        \* the connections: subset of {"api", "cli"}
    MaxJobs,      \* the jobs that are followed
    MaxTasks,
    MaxActions,   \* what the user does
    MaxKills,     \* workers that die
    MaxErrors,    \* requests to the provider that fail
    RetryLimit    \* MEDIA_CONNECTION_RETRY_LIMIT, media-execution-policy.js 7

ASSUME MediaAssumption ==
    /\ Kinds \subseteq {"api", "cli"}
    /\ {MaxJobs, MaxTasks, MaxActions, MaxKills, MaxErrors, RetryLimit} \subseteq Nat

VARIABLES
    job,        \* the record of each job
    task,       \* the provider's tasks: whose, and how far
    pass,       \* what a worker is doing about each job
    launched,   \* jobs the server has started a worker for
    doomed,     \* jobs whose worker the server is about to terminate
    exited,     \* jobs whose worker has died, as yet unnoticed
    confirmed,  \* history: new submissions the user has confirmed, per job
    used        \* how often each bounded thing has happened; lists is among
                \* errors: failures of list_task taken for "no task"

vars == <<job, task, pass, launched, doomed, exited, confirmed, used>>
server == <<launched, doomed, exited>>

Jobs == 1 .. MaxJobs
Tasks == 1 .. MaxTasks

Active == {"queued", "submitting", "polling", "downloading", "cancel_requested"}
Waiting == {"retry_required", "failed"}
Final == {"complete", "cancelled"}

(* A record that is not there has the status "none". The status polling    *)
(* stands for running too; sub is submissionState, risk billingRisk with   *)
(* resubmitConfirmationRequired, stopped userStoppedAt with                *)
(* resultSuppressed and desiredAction, release the two forceRelease times, *)
(* exhausted connectionRetryExhausted, given automaticRecoveryStoppedAt.   *)
NoJob == [kind |-> "api", status |-> "none", task |-> 0, sub |-> "not_submitted", risk |-> FALSE,
          stopped |-> FALSE, tried |-> FALSE, explicit |-> FALSE, safe |-> FALSE, release |-> "no",
          retries |-> 0, exhausted |-> FALSE, given |-> FALSE, applied |-> FALSE]
Idle == [pc |-> "idle", by |-> "none", snap |-> NoJob, got |-> 0, seen |-> "none", err |-> "none"]

Init ==
    /\ job = [j \in Jobs |-> NoJob]
    /\ task = [t \in Tasks |-> [of |-> 0, state |-> "none"]]
    /\ pass = [j \in Jobs |-> Idle]
    /\ launched = {} /\ doomed = {} /\ exited = {}
    /\ confirmed = [j \in Jobs |-> 0]
    /\ used = [actions |-> 0, kills |-> 0, errors |-> 0, lists |-> 0]

Accepted == {"running", "completed", "failed", "cancelled"}
Paid(j) == {t \in Tasks : task[t].of = j /\ task[t].state \in Accepted}

----------------------------------------------------------------------------
(* Questions about a record, and the ways to change it.                    *)
OutcomeUnknown(r) == r.task = 0 /\ (r.risk \/ r.sub \in {"submitting", "uncertain"})

AutoRecovery(r) ==
    r.kind = "cli" /\ OutcomeUnknown(r) /\ ~ r.exhausted /\ ~ r.stopped /\ ~ r.given

CanBeDismissed(r) ==
    r.status \in Waiting \cup {"cancel_requested"} /\ r.task = 0 /\ r.risk /\ (r.given \/ r.stopped)
CanBeAbandoned(r) == r.status = "complete" /\ ~ r.applied /\ ~ r.stopped

Pending(r) ==
    /\ r.status \notin {"none", "cancelled"}
    /\ ~ (CanBeDismissed(r) /\ r.stopped)
    /\ \/ r.status \in Active
       \/ CanBeAbandoned(r)
       \/ r.status # "failed" /\ r.risk /\ ~ r.applied

Runnable(r) == ~ r.stopped /\ r.status \notin Final
Cleared(r) == [r EXCEPT !.retries = 0, !.exhausted = FALSE]
Cancelled(r) == [r EXCEPT !.status = "cancelled", !.stopped = TRUE]

(* updateJob, and updateRunnableMediaGenerationJob                         *)
Update(j, r) == job' = [job EXCEPT ![j] = r]
\* Mutant: what the user has stopped is written like any other record.
UpdateStopped(j, r) == Update(j, r)

UpdateRunnable(j, r) == IF Runnable(job[j]) THEN Update(j, r) ELSE UNCHANGED job

Go(j, pc) == pass' = [pass EXCEPT ![j] = [Idle EXCEPT !.pc = pc, !.by = pass[j].by]]
GoWith(j, pc, t) ==
    pass' = [pass EXCEPT ![j] = [Idle EXCEPT !.pc = pc, !.by = pass[j].by, !.got = t, !.seen = task[t].state]]
Settle(j, r) ==
    pass' = [pass EXCEPT ![j] = [Idle EXCEPT !.pc = "cancel", !.by = pass[j].by, !.snap = r]]
Leave(j) == pass' = [pass EXCEPT ![j] = Idle]
Throw(j, err) ==
    pass' = [pass EXCEPT ![j] = [Idle EXCEPT !.pc = "throw", !.by = pass[j].by, !.err = err]]

Spend(what) == used' = [used EXCEPT ![what] = @ + 1]
Erring == used.errors < MaxErrors /\ Spend("errors")
Acting == used.actions < MaxActions /\ Spend("actions")

----------------------------------------------------------------------------
(* The user, through the server.                                           *)
Abandoned(r) == IF CanBeAbandoned(r) THEN [r EXCEPT !.stopped = TRUE] ELSE Cancelled(r)

(* A new job takes the place of the card's earlier ones.                   *)
Generate(j, kind) ==
    LET replaced == {k \in Jobs : Pending(job[k])} IN
    /\ Acting
    /\ \A k \in Jobs : (job[k].status # "none") <=> (k < j)
    /\ job' = [k \in Jobs |-> IF k = j THEN [NoJob EXCEPT !.kind = kind, !.status = "queued"]
                              ELSE IF k \in replaced THEN Abandoned(job[k]) ELSE job[k]]
    /\ launched' = launched \cup ({j} \cap Jobs)
    /\ doomed' = doomed \cup replaced
    /\ UNCHANGED <<task, pass, exited, confirmed>>

Cancel(j) ==
    LET r == job[j] IN
    /\ Acting
    /\ r.status \notin {"none", "complete"} /\ ~ r.stopped
    /\ IF CanBeDismissed(r) \/ (r.status = "queued" /\ r.task = 0 /\ r.sub = "not_submitted")
       THEN Update(j, Cancelled(r)) /\ UNCHANGED launched
       ELSE /\ Update(j, [Cancelled(r) EXCEPT !.status = "cancel_requested"])
            /\ launched' = launched \cup {j}
    /\ UNCHANGED <<task, pass, doomed, exited, confirmed>>

Dismiss(j) ==
    /\ Acting
    /\ CanBeDismissed(job[j]) \/ CanBeAbandoned(job[j])
    /\ Update(j, Abandoned(job[j]))
    /\ UNCHANGED <<task, pass, server, confirmed>>

SafeToResubmit(r) == r.safe /\ r.sub = "not_submitted" /\ ~ r.risk

Resume(j) ==
    LET r == Cleared([job[j] EXCEPT !.explicit = (job[j].task = 0)]) IN
    /\ Acting
    /\ job[j].status \in Waiting /\ ~ job[j].stopped
    /\ IF r.task # 0 THEN Update(j, [r EXCEPT !.status = "polling"]) /\ UNCHANGED confirmed
       ELSE /\ Update(j, [r EXCEPT !.status = "queued", !.safe = (@ /\ ~ SafeToResubmit(r))])
            /\ confirmed' = [confirmed EXCEPT ![j] = IF SafeToResubmit(r) THEN @ ELSE @ + 1]
    /\ launched' = launched \cup {j}
    /\ UNCHANGED <<task, pass, doomed, exited>>

Reconcile(j) ==
    LET r == job[j] IN
    /\ Acting
    /\ r.kind = "cli" /\ r.status \in Waiting /\ ~ r.stopped /\ r.task = 0
    /\ Update(j, Cleared([r EXCEPT !.status = "retry_required", !.sub = "uncertain",
                                   !.risk = TRUE, !.given = FALSE]))
    /\ launched' = launched \cup {j}
    /\ UNCHANGED <<task, pass, doomed, exited, confirmed>>

(* Stopping for good: the intent is written, then the worker is terminated *)
(* (if it is found and can be), then the job is closed.                    *)
BeginStop(j) ==
    /\ Acting
    /\ job[j].status # "none" /\ job[j].release # "done"
    /\ Update(j, [job[j] EXCEPT !.stopped = TRUE, !.release = "pending"])
    /\ doomed' = doomed \cup {j}
    /\ UNCHANGED <<task, pass, launched, exited, confirmed>>

Terminate(j) ==
    /\ j \in doomed
    /\ doomed' = doomed \ {j}
    /\ \/ pass[j].by = "own" /\ Leave(j) /\ exited' = exited \cup {j}
       \/ UNCHANGED <<pass, exited>>
    /\ UNCHANGED <<job, task, launched, confirmed, used>>

FinishStop(j) ==
    /\ job[j].release = "pending" /\ j \notin doomed
    /\ Update(j, [Cancelled(job[j]) EXCEPT !.release = "done", !.given = TRUE])
    /\ UNCHANGED <<task, pass, server, confirmed, used>>

(* Half an hour after a stop the scan closes a job whose end it never saw. *)
Expire(j) ==
    /\ job[j].stopped /\ job[j].status \notin Final
    /\ Update(j, Cancelled(job[j]))
    /\ UNCHANGED <<task, pass, server, confirmed, used>>

(* A window reports that the result has its card. A stopped job is reported *)
(* too, once its card has been told that it was stopped, and so is one that *)
(* has been reported already.                                               *)
Apply(j) ==
    /\ job[j].status = "complete"
    /\ Update(j, [job[j] EXCEPT !.applied = TRUE])
    /\ UNCHANGED <<task, pass, server, confirmed, used>>

----------------------------------------------------------------------------
(* Workers come and go.                                                    *)
\* Mutant: the scan leaves a result whose download was cut off.
ListedUntilDownload(r) ==
    /\ r.release # "pending" /\ ~ r.exhausted
    /\ r.status \in Active \ {"downloading"} \/ (r.status = "retry_required" /\ r.kind = "cli" /\ OutcomeUnknown(r))

Listed(r) ==
    /\ r.release # "pending" /\ ~ r.exhausted
    /\ r.status \in Active \/ (r.status = "retry_required" /\ r.kind = "cli" /\ OutcomeUnknown(r))

Pick(j, by) == pass' = [pass EXCEPT ![j] = [Idle EXCEPT !.pc = "locked", !.by = by]]

Scan(j) ==
    /\ pass[j].pc = "idle" /\ Listed(job[j])
    /\ Pick(j, "scan")
    /\ UNCHANGED <<job, task, server, confirmed, used>>

StartWorker(j) ==
    /\ j \in launched
    /\ launched' = launched \ {j}
    /\ IF pass[j].pc = "idle" /\ ~ job[j].exhausted /\ job[j].release # "pending"
       THEN Pick(j, "own") ELSE UNCHANGED pass
    /\ exited' = exited \ {j}
    /\ UNCHANGED <<job, task, doomed, confirmed, used>>

Kill(j) ==
    /\ pass[j].pc # "idle"
    /\ used.kills < MaxKills /\ Spend("kills")
    /\ Leave(j)
    /\ exited' = IF pass[j].by = "own" THEN exited \cup {j} ELSE exited
    /\ UNCHANGED <<job, task, launched, doomed, confirmed>>

(* The server that started a worker records its abnormal end, if it is     *)
(* still the same server (recordMediaWorkerFailure).                       *)
RecordExit(j) ==
    LET r == job[j]
        uncertain == r.task = 0 /\ r.sub \in {"submitting", "uncertain"}
    IN
    /\ j \in exited
    /\ exited' = exited \ {j}
    /\ IF r.stopped \/ r.status \notin Active THEN UNCHANGED job
       ELSE Update(j, [r EXCEPT !.status = IF r.task # 0 \/ uncertain THEN "retry_required" ELSE "failed",
                                !.exhausted = TRUE, !.risk = (@ \/ uncertain),
                                !.sub = IF uncertain THEN "uncertain" ELSE @])
    /\ UNCHANGED <<task, pass, launched, doomed, confirmed, used>>

----------------------------------------------------------------------------
(* A worker's pass over a job it has locked.                               *)
\* Mutant: a submission that was cut off is made again, by a scan too.
MaySubmitAgain(r, by) == r.explicit \/ r.safe \/ r.status \in {"queued", "submitting"}

MaySubmit(r, by) == r.explicit \/ r.safe \/ (by = "own" /\ r.status = "queued" /\ ~ r.tried)

Enter(j) ==
    LET r == job[j]
        due == r.status = "retry_required" /\ r.kind = "cli" /\ OutcomeUnknown(r) /\ ~ r.given
    IN
    /\ pass[j].pc = "locked"
    /\ \/ due /\ Go(j, "lease")
       \/ IF r.status \in Final \cup {"none", "failed"} \/ (r.status = "retry_required" /\ ~ AutoRecovery(r))
          THEN Leave(j)
          ELSE IF r.status = "cancel_requested" THEN Settle(j, r)
          ELSE IF r.task # 0 THEN Go(j, "resume")
          ELSE IF r.kind = "cli" /\ OutcomeUnknown(r) THEN Go(j, "reconcile")
          ELSE Go(j, IF MaySubmit(r, pass[j].by) THEN "probe" ELSE "refuse")
    /\ UNCHANGED <<job, task, server, confirmed, used>>

(* The time for finding out about a submission has passed.                 *)
EndLease(j) ==
    /\ pass[j].pc = "lease"
    /\ Update(j, [job[j] EXCEPT !.status = "failed", !.sub = "uncertain", !.risk = TRUE, !.given = TRUE])
    /\ Leave(j)
    /\ UNCHANGED <<task, server, confirmed, used>>

(* Was a task created? The client's list is asked; it names no task that   *)
(* is not accepted yet.                                                    *)
AskList(j) ==
    /\ pass[j].pc = "reconcile"
    /\ \/ \E t \in Paid(j) : GoWith(j, "found", t) /\ UNCHANGED used
       \/ Paid(j) = {} /\ Throw(j, "transient") /\ UNCHANGED used
       \/ \E err \in {"transient", "fatal"} : Erring /\ Throw(j, err)
       \/ /\ used.errors < MaxErrors
          /\ used' = [used EXCEPT !.errors = @ + 1, !.lists = @ + 1]
          /\ Throw(j, "known")
    /\ UNCHANGED <<job, task, server, confirmed>>

Following(state) ==
    CASE state = "completed" -> "downloading" [] state = "running" -> "polling" [] OTHER -> state

RecordFound(j) ==
    LET seen == pass[j].seen IN
    /\ pass[j].pc = "found"
    /\ Update(j, [job[j] EXCEPT !.status = Following(seen), !.task = pass[j].got,
                                !.sub = "submitted", !.risk = FALSE])
    /\ IF seen \in {"failed", "cancelled"} THEN Leave(j) ELSE Go(j, "resume")
    /\ UNCHANGED <<task, server, confirmed, used>>

Refuse(j) ==
    /\ pass[j].pc = "refuse"
    /\ UpdateRunnable(j, [job[j] EXCEPT !.status = "retry_required"])
    /\ Leave(j)
    /\ UNCHANGED <<task, server, confirmed, used>>

Probe(j) ==
    /\ pass[j].pc = "probe"
    /\ \/ /\ Update(j, [job[j] EXCEPT !.explicit = FALSE])
          /\ Go(j, "mark") /\ UNCHANGED used
       \/ \E err \in {"fatal"} \cup (IF job[j].kind = "cli" THEN {"known"} ELSE {}) :
             Erring /\ Throw(j, err) /\ UNCHANGED job
    /\ UNCHANGED <<task, server, confirmed>>

\* Mutant: the status is written before the request, the submission state is not.
MarkStatusOnly(j) ==
    /\ pass[j].pc = "mark"
    /\ UpdateRunnable(j, [job[j] EXCEPT !.status = "submitting", !.tried = TRUE])
    /\ IF job'[j].status = "submitting" /\ ~ job'[j].stopped THEN Go(j, "submit") ELSE Leave(j)
    /\ UNCHANGED <<task, server, confirmed, used>>

MarkSubmitting(j) ==
    /\ pass[j].pc = "mark"
    /\ UpdateRunnable(j, [job[j] EXCEPT !.status = "submitting", !.sub = "submitting", !.tried = TRUE])
    /\ IF job'[j].status = "submitting" /\ ~ job'[j].stopped THEN Go(j, "submit") ELSE Leave(j)
    /\ UNCHANGED <<task, server, confirmed, used>>

(* The client looks into its journal and its list before it submits.       *)
Submit(j) ==
    /\ pass[j].pc = "submit"
    /\ IF job[j].kind = "cli" /\ Paid(j) # {}
       THEN \E t \in Paid(j) : GoWith(j, "record", t) /\ UNCHANGED task
       ELSE \E t \in Tasks :
              /\ task[t].state = "none" /\ \A u \in 1 .. (t - 1) : task[u].state # "none"
              /\ task' = [task EXCEPT ![t] = [of |-> j, state |-> "sent"]]
              /\ pass' = [pass EXCEPT ![j] = [Idle EXCEPT !.pc = "wait", !.by = pass[j].by, !.got = t]]
    /\ UNCHANGED <<job, server, confirmed, used>>

\* Mutant: a refusal reaches nobody.
AnsweredUnlessRefused(j) ==
    LET t == pass[j].got IN
    /\ pass[j].pc = "wait"
    /\ \/ task[t].state \in Accepted /\ GoWith(j, "record", t) /\ UNCHANGED task
       \/ /\ task[t].state = "refused"
          /\ task' = [task EXCEPT ![t] = [of |-> 0, state |-> "none"]]
          /\ UNCHANGED pass
    /\ UNCHANGED <<job, server, confirmed, used>>

Answered(j) ==
    LET t == pass[j].got IN
    /\ pass[j].pc = "wait"
    /\ \/ task[t].state \in Accepted /\ GoWith(j, "record", t) /\ UNCHANGED task
       \/ /\ task[t].state = "refused"
          /\ task' = [task EXCEPT ![t] = [of |-> 0, state |-> "none"]]
          /\ \E err \in IF job[j].kind = "cli" THEN {"known", "settled"} ELSE {"fatal"} : Throw(j, err)
    /\ UNCHANGED <<job, server, confirmed, used>>

(* No answer in time; the request may still be accepted.                   *)
TimeOut(j) ==
    /\ pass[j].pc = "wait" /\ Erring
    /\ Throw(j, "transient")
    /\ UNCHANGED <<job, task, server, confirmed>>

RecordTask(j) ==
    LET seen == pass[j].seen
        r == Cleared([job[j] EXCEPT !.status = Following(seen), !.task = pass[j].got,
                                    !.sub = "submitted", !.risk = FALSE, !.safe = FALSE])
    IN
    /\ pass[j].pc = "record"
    /\ Update(j, r)
    /\ IF seen \in {"failed", "cancelled"} THEN Leave(j)
       ELSE IF seen = "completed" THEN Go(j, "download")
       ELSE IF r.stopped THEN Settle(j, r) ELSE Go(j, "poll")
    /\ UNCHANGED <<task, server, confirmed, used>>

ResumeTask(j) ==
    LET status == IF job[j].status = "downloading" THEN "downloading" ELSE "polling" IN
    /\ pass[j].pc = "resume"
    /\ UpdateRunnable(j, [job[j] EXCEPT !.status = status, !.explicit = FALSE])
    /\ IF job[j].stopped THEN Settle(j, job[j])
       ELSE IF job[j].status \in Final THEN Leave(j)
       ELSE Go(j, IF status = "downloading" THEN "download" ELSE "poll")
    /\ UNCHANGED <<task, server, confirmed, used>>

(* One look at the provider's task.                                        *)
Poll(j) ==
    LET t == job[j].task IN
    /\ pass[j].pc = "poll"
    /\ IF job[j].stopped THEN Settle(j, job[j]) /\ UNCHANGED <<job, used>>
       ELSE \/ GoWith(j, "polled", t) /\ UNCHANGED <<job, used>>
            \/ job[j].kind = "cli" /\ Erring /\ Throw(j, "transient") /\ UNCHANGED job
            \/ Erring /\ Throw(j, "fatal") /\ UNCHANGED job
            \/ /\ job[j].kind = "api" /\ Erring
               /\ UpdateRunnable(j, [job[j] EXCEPT !.status = "polling"])
               /\ Leave(j)
    /\ UNCHANGED <<task, server, confirmed>>

RecordPoll(j) ==
    LET seen == pass[j].seen
        r == Cleared([job[j] EXCEPT !.status = "polling"])
    IN
    /\ pass[j].pc = "polled"
    /\ IF seen = "cancelled" /\ Runnable(job[j]) THEN Update(j, [r EXCEPT !.status = "cancelled"])
       ELSE UpdateRunnable(j, r)
    /\ IF job[j].stopped THEN Settle(j, job[j])
       ELSE IF seen = "failed" THEN Throw(j, "ended")
       ELSE IF seen = "completed" THEN Go(j, "download")
       ELSE Leave(j)
    /\ UNCHANGED <<task, server, confirmed, used>>

(* settleProviderCancellation works from the record its caller has read.   *)
SettleWithoutTask(j) ==
    LET r == pass[j].snap IN
    /\ pass[j].pc = "cancel" /\ r.task = 0
    /\ Update(j, IF ~ OutcomeUnknown(r) /\ r.sub = "not_submitted" /\ ~ r.tried
                 THEN [job[j] EXCEPT !.status = "cancelled"]
                 ELSE [job[j] EXCEPT !.status = "retry_required", !.risk = TRUE])
    /\ Leave(j)
    /\ UNCHANGED <<task, server, confirmed, used>>

AskCancel(j) ==
    LET t == pass[j].snap.task IN
    /\ pass[j].pc = "cancel" /\ t # 0
    /\ \/ /\ GoWith(j, "settle", t) /\ UNCHANGED <<task, used>>
       \/ /\ task[t].state = "running"
          /\ task' = [task EXCEPT ![t].state = "cancelled"]
          /\ pass' = [pass EXCEPT ![j] = [Idle EXCEPT !.pc = "settle", !.by = pass[j].by,
                                                      !.got = t, !.seen = "cancelled"]]
          /\ UNCHANGED used
       \/ Erring /\ Throw(j, "transient") /\ UNCHANGED task
    /\ UNCHANGED <<job, server, confirmed>>

RecordSettled(j) ==
    LET r == job[j]
        seen == pass[j].seen
    IN
    /\ pass[j].pc = "settle"
    /\ CASE seen = "cancelled" ->
              Update(j, IF r.status \in Final THEN r ELSE [r EXCEPT !.status = "cancelled"]) /\ Leave(j)
         [] seen = "completed" -> Update(j, [r EXCEPT !.status = "downloading"]) /\ Go(j, "fetch")
         [] seen = "failed"    -> Update(j, [r EXCEPT !.status = "failed"]) /\ Leave(j)
         [] OTHER              -> Update(j, [r EXCEPT !.status = "cancel_requested"]) /\ Leave(j)
    /\ UNCHANGED <<task, server, confirmed, used>>

Download(j) ==
    /\ pass[j].pc = "download"
    /\ UpdateRunnable(j, [job[j] EXCEPT !.status = "downloading"])
    /\ IF Runnable(job[j]) THEN Go(j, "fetch") ELSE Settle(j, job[j])
    /\ UNCHANGED <<task, server, confirmed, used>>

Fetch(j) ==
    /\ pass[j].pc = "fetch"
    /\ \/ Go(j, "land") /\ UNCHANGED used
       \/ \E err \in {"transient", "fatal"} : Erring /\ Throw(j, err)
    /\ UNCHANGED <<job, task, server, confirmed>>

(* completeMediaGenerationJob: a job the user has stopped is completed     *)
(* too, its result suppressed.                                             *)
Land(j) ==
    /\ pass[j].pc = "land"
    /\ IF job[j].status = "cancelled" /\ ~ job[j].stopped THEN UNCHANGED job
       ELSE Update(j, [job[j] EXCEPT !.status = "complete", !.sub = "submitted", !.risk = FALSE])
    /\ Leave(j)
    /\ UNCHANGED <<task, server, confirmed, used>>

----------------------------------------------------------------------------
(* A pass that fails. "known": the error says that no task was created, and *)
(* may be tried again; "settled": it says so and may not; "ended": the      *)
(* provider's task has failed; "transient" and "fatal" say neither.         *)
Knows(err) == err \in {"known", "settled"}

FailurePatch(r, err) ==
    LET retries == IF r.kind = "cli" THEN r.retries + 1 ELSE 0
        out == r.kind = "cli" /\ retries > RetryLimit
        q == [r EXCEPT !.retries = retries, !.exhausted = out]
        unknown == r.status = "submitting" /\ r.task = 0 /\ ~ Knows(err)
        finding == r.kind = "cli" /\ ~ Knows(err) /\ (unknown \/ OutcomeUnknown(r))
        following == err = "transient" /\ r.task # 0
        cleared == Knows(err) /\ r.task = 0
    IN
    IF out /\ (following \/ finding \/ Knows(err))
    THEN [q EXCEPT !.status = IF r.task # 0 \/ finding THEN "retry_required" ELSE "failed",
                   !.sub = IF cleared THEN "not_submitted" ELSE @, !.risk = (@ /\ ~ cleared)]
    ELSE IF finding
    THEN [q EXCEPT !.status = "retry_required", !.sub = "uncertain", !.risk = TRUE, !.given = FALSE]
    ELSE IF following
    THEN [q EXCEPT !.status = IF r.status = "downloading" THEN @ ELSE "polling"]
    ELSE IF cleared /\ err = "known"
    THEN [q EXCEPT !.status = "queued", !.sub = "not_submitted", !.risk = FALSE, !.safe = TRUE]
    ELSE [r EXCEPT !.status = IF unknown THEN "retry_required" ELSE "failed",
                   !.risk = (@ \/ unknown), !.given = (@ /\ ~ unknown),
                   !.sub = IF r.kind = "cli" /\ cleared THEN "not_submitted" ELSE @]

Catch(j) ==
    /\ pass[j].pc = "throw"
    /\ IF job[j].status \in Final THEN Leave(j)
       ELSE pass' = [pass EXCEPT ![j] = [@ EXCEPT !.pc = "catch", !.snap = job[j]]]
    /\ UNCHANGED <<job, task, server, confirmed, used>>

(* updateActiveMediaGenerationJob; the failure of a stopped job's pass is  *)
(* noted in its record and changes nothing else.                           *)
RecordFailure(j) ==
    LET r == pass[j].snap IN
    /\ pass[j].pc = "catch"
    /\ IF job[j].status = r.status /\ ~ job[j].stopped /\ ~ r.stopped
       THEN Update(j, FailurePatch(r, pass[j].err)) ELSE UNCHANGED job
    /\ Leave(j)
    /\ UNCHANGED <<task, server, confirmed, used>>

----------------------------------------------------------------------------
(* The provider: it takes or refuses a request, and does the task.         *)
Reach(t) ==
    /\ task[t].state = "sent"
    /\ \E state \in {"running", "refused"} : task' = [task EXCEPT ![t].state = state]
    /\ UNCHANGED <<job, pass, server, confirmed, used>>

Finish(t) ==
    /\ task[t].state = "running"
    /\ \E state \in {"completed", "failed"} : task' = [task EXCEPT ![t].state = state]
    /\ UNCHANGED <<job, pass, server, confirmed, used>>

----------------------------------------------------------------------------
User(j) ==
    \/ Cancel(j) \/ Dismiss(j) \/ Resume(j) \/ Reconcile(j) \/ BeginStop(j)

Step(j) ==
    \/ Enter(j) \/ EndLease(j) \/ AskList(j) \/ RecordFound(j) \/ Refuse(j) \/ Probe(j)
    \/ MarkSubmitting(j) \/ Submit(j) \/ Answered(j) \/ TimeOut(j) \/ RecordTask(j)
    \/ ResumeTask(j) \/ Poll(j) \/ RecordPoll(j)
    \/ SettleWithoutTask(j) \/ AskCancel(j) \/ RecordSettled(j)
    \/ Download(j) \/ Fetch(j) \/ Land(j) \/ Catch(j) \/ RecordFailure(j)

Service(j) ==
    \/ Terminate(j) \/ FinishStop(j) \/ Expire(j) \/ Apply(j)
    \/ Scan(j) \/ StartWorker(j) \/ Kill(j) \/ RecordExit(j)

Next ==
    \/ \E j \in Jobs \cup {MaxJobs + 1}, kind \in Kinds : Generate(j, kind)
    \/ \E j \in Jobs : User(j) \/ Step(j) \/ Service(j)
    \/ \E t \in Tasks : Reach(t) \/ Finish(t)

Spec == Init /\ [][Next]_vars

(* Workers run on, the watchdog scans for ever and closes what was stopped *)
(* long ago, the provider comes to an end with what it has taken.          *)
Fairness ==
    /\ \A j \in Jobs : WF_vars(Step(j)) /\ WF_vars(Scan(j)) /\ WF_vars(Expire(j))
    /\ \A t \in Tasks : WF_vars(Reach(t)) /\ WF_vars(Finish(t))
FairSpec == Spec /\ Fairness

----------------------------------------------------------------------------
(* Types; the worker only holds tasks of the job it works on.              *)
Statuses == {"none"} \cup Active \cup Waiting \cup Final
States == {"none", "sent", "refused"} \cup Accepted
Labels == {"idle", "locked", "lease", "reconcile", "found", "refuse", "probe", "mark", "submit",
           "wait", "record", "resume", "poll", "polled", "cancel", "settle", "download", "fetch",
           "land", "throw", "catch"}
Errors == {"none", "known", "settled", "transient", "fatal", "ended"}
Submissions == {"not_submitted", "submitting", "submitted", "uncertain"}
Records ==
    [kind : {"api", "cli"}, status : Statuses, task : 0 .. MaxTasks, sub : Submissions, risk : BOOLEAN,
     stopped : BOOLEAN, tried : BOOLEAN, explicit : BOOLEAN, safe : BOOLEAN,
     release : {"no", "pending", "done"}, retries : Nat, exhausted : BOOLEAN,
     given : BOOLEAN, applied : BOOLEAN]
Passes ==
    [pc : Labels, by : {"none", "own", "scan"}, snap : Records, got : 0 .. MaxTasks, seen : States, err : Errors]
TypeOK ==
    /\ job \in [Jobs -> Records]
    /\ task \in [Tasks -> [of : 0 .. MaxJobs, state : States]]
    /\ pass \in [Jobs -> Passes]
    /\ launched \cup doomed \cup exited \subseteq Jobs
    /\ confirmed \in [Jobs -> Nat]
    /\ used \in [actions : Nat, kills : Nat, errors : Nat, lists : Nat]
    /\ \A j \in Jobs : pass[j].got # 0 => task[pass[j].got].of = j

(* A job is paid for once, and once more for every new submission its user *)
(* has confirmed, whichever worker dies between the provider's acceptance  *)
(* and the record of the task (media-generation-worker.mjs 1124-1262) ...  *)
(* and once more for every failure of list_task that is taken for the      *)
(* answer that no task exists (1505-1780): that one the code gets wrong.   *)
PaidOnce == \A j \in Jobs : Cardinality(Paid(j)) <= 1 + confirmed[j] + used.lists

(* No paid task is forgotten, not even while a worker holds the answer:    *)
(* it is in its job's record, or the record says that the outcome of a     *)
(* submission is unknown; with the two exceptions of PaidOnce.             *)
PaidTasksKnown ==
    \A j \in Jobs : \A t \in Paid(j) :
        \/ job[j].task = t \/ OutcomeUnknown(job[j])
        \/ confirmed[j] + used.lists > 0

(* What the user has stopped stays stopped, whatever a worker, a window or *)
(* the server writes from a record read before, and no pass begins to      *)
(* submit it: only one that had begun before the stop may still do so      *)
(* (preserveStoppedMediaJobState, 609-622, and                             *)
(* updateRunnableMediaGenerationJob, 1888-1895).                           *)
StopHolds ==
    [][\A j \in Jobs : job[j].stopped =>
          /\ job'[j].stopped
          /\ job'[j].status = "submitting" => job[j].status = "submitting"]_vars

(* Every job comes to rest: complete, cancelled, given up after too many   *)
(* failures, or, if its user has not stopped it, waiting for a decision of *)
(* the user (listMediaGenerationJobsForWorker, 2099-2145).                 *)
AtRest(r) ==
    \/ r.status \in Final \cup {"none"} \/ r.exhausted
    \/ r.status \in Waiting /\ ~ r.stopped /\ ~ Listed(r)
EveryJobEnds == <>[](\A j \in Jobs : AtRest(job[j]))
=============================================================================
