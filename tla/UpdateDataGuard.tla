-------------------------- MODULE UpdateDataGuard --------------------------
(***************************************************************************)
(* The user's data across an update: src/server/update-data-guard.mjs      *)
(* takes a verified snapshot, migrates, and keeps one journal beside the   *)
(* data root that says whether the snapshot has to be restored.            *)
(*                                                                         *)
(* Three processes use it. The server recovers what an earlier run left    *)
(* behind when it starts, and prepares an update the user asks for         *)
(* (update-manager.mjs, install). The helper it launches then outlives it  *)
(* and runs the installer (scripts/update-installer-helper.mjs). The       *)
(* worker migrates the data before a server of a new build serves it       *)
(* (guardDesktopStartupDataVersion). Each dies at any step; file           *)
(* operations fail. There is one server at a time (the desktop shell's     *)
(* single-instance lock), one helper and one worker, but a worker may      *)
(* outlive its server, and a helper meet the next one.                     *)
(*                                                                         *)
(* The data root is a set of top-level entries with a version each, 0 for  *)
(* none. Users write through a server that serves, media workers of their  *)
(* own process whenever no update holds the write barrier (UpdateBarrier). *)
(***************************************************************************)
EXTENDS Naturals, FiniteSets

CONSTANTS
    Kept,        \* entries that are there at first
    Legacy,      \* entries a migration adds
    MaxUpdates,  \* updates the user asks for
    MaxWrites,
    MaxErrors,   \* file operations, migrations and launches that fail
    MaxCrashes

ASSUME GuardAssumption ==
    /\ Kept \cap Legacy = {}
    /\ {MaxUpdates, MaxWrites, MaxErrors, MaxCrashes} \subseteq Nat

VARIABLES
    root,       \* the data root
    aside,      \* what is kept in quarantine directories: pairs of entry and version
    snap,       \* the snapshot of each transaction: gone, partial or whole
    journal,    \* the journal file
    marker,     \* data-version-state.json: "old" if the build has another data schema
    proc,       \* where each process is, and its locals
    latest,     \* history: the version written last, per entry; 0 if never
    late,       \* history: versions written after the snapshot of a transaction, to the end
    risky,      \* history: versions the code may lose, see Write and PutBackFails
    overtaken,  \* history: a start goes on beside a live process that it should wait for
    used        \* how often each bounded thing has happened

disk == <<root, aside, snap, journal, marker>>
history == <<latest, late, risky, overtaken>>
vars == <<disk, proc, history, used>>

Entries == Kept \cup Legacy
Versions == 0 .. MaxWrites + 1
Empty == [e \in Entries |-> 0]
Tx == 1 .. 2          \* names of transactions; one that nobody holds is given again
Procs == {"server", "worker", "helper"}

Finished == {"installer_succeeded", "rolled_back"}
Phases == {"snapshot_verified", "migrating", "data_prepared", "installer_launch_pending",
           "installer_running"} \cup Finished
NoJournal == [tx |-> 0, phase |-> "none", retain |-> FALSE]

(* why is the errand: the start of a server, an update's preparation, the  *)
(* worker's or the helper's whole life. j is the local copy of the         *)
(* journal, aim the phase a mark is to write, left the entries still to be *)
(* moved or copied, away the quarantine of the restore under way.          *)
NoSnapshot == [state |-> "gone", of |-> Empty]
Partial == [NoSnapshot EXCEPT !.state = "partial"]
Nowhere == [at |-> "down", why |-> "none", j |-> NoJournal, aim |-> "none", left |-> {}, away |-> Empty]

At(p, place) == proc[p].at = place
Go(p, place) == proc' = [proc EXCEPT ![p].at = place]
GoWith(p, place, j) == proc' = [proc EXCEPT ![p].at = place, ![p].j = j]

Restoring == {"move", "putback", "copy", "wipe", "return"}
Live(p) == proc[p].at \notin {"down", "done", "failed"}
Serving == At("server", "serving")
\* withExclusiveUpdate holds the barrier from the request to the end of the process
Exclusive == proc["server"].why = "install"
OpenJournal == journal # NoJournal /\ journal.phase \notin Finished

Init ==
    /\ root = [e \in Entries |-> IF e \in Kept THEN 1 ELSE 0]
    /\ aside = {}
    /\ snap = [t \in Tx |-> NoSnapshot]
    /\ journal = NoJournal
    /\ marker \in {"old", "current"}
    /\ proc = [p \in Procs |-> Nowhere]
    /\ latest = [e \in Entries |-> root[e]]
    /\ late = {} /\ risky = {} /\ overtaken = FALSE
    /\ used = [updates |-> 0, writes |-> 0, errors |-> 0, crashes |-> 0]

Error == used.errors < MaxErrors /\ used' = [used EXCEPT !.errors = @ + 1]

(* What an exception or a return that ends the errand leads to.            *)
After(p, r) ==
    CASE p = "server" /\ r.why = "install" -> [Nowhere EXCEPT !.at = "serving"]
      [] p = "worker" -> [Nowhere EXCEPT !.at = "failed"]
      [] OTHER -> Nowhere
Throw(p) == proc' = [proc EXCEPT ![p] = After(p, @)]

----------------------------------------------------------------------------
(* prepareUserDataForUpdate                                                *)

Refuse(p) ==
    /\ At(p, "prepare") /\ journal # NoJournal
    /\ Throw(p)
    /\ UNCHANGED <<disk, history, used>>

Unnamed == {t \in Tx : journal.tx # t /\ \A p \in Procs : proc[p].j.tx # t}

BeginSnapshot(p) ==
    /\ At(p, "prepare") /\ journal = NoJournal /\ Unnamed # {}
    /\ LET t == CHOOSE t \in Unnamed : \A u \in Unnamed : t <= u
       IN  /\ snap' = [snap EXCEPT ![t] = Partial]
           /\ GoWith(p, "snapshot", [tx |-> t, phase |-> "snapshot_verified", retain |-> p = "worker"])
    /\ UNCHANGED <<root, aside, journal, marker, history, used>>

TakeSnapshot(p) ==
    /\ At(p, "snapshot")
    /\ snap' = [snap EXCEPT ![proc[p].j.tx] = [state |-> "whole", of |-> root]]
    /\ Go(p, "open")
    /\ UNCHANGED <<root, aside, journal, marker, history, used>>

WriteJournal(p, j, next) ==
    /\ journal' = j
    /\ GoWith(p, next, j)
    /\ UNCHANGED <<root, aside, snap, marker, history, used>>

Open(p) == At(p, "open") /\ WriteJournal(p, proc[p].j, "migrating")

\* createVerifiedDataSnapshot and the first record remove the snapshot again when they fail
PrepareFails(p) ==
    /\ proc[p].at \in {"snapshot", "open"} /\ Error
    /\ snap' = [snap EXCEPT ![proc[p].j.tx] = NoSnapshot]
    /\ Throw(p)
    /\ UNCHANGED <<root, aside, journal, marker, history>>

Phase(p, phase) == [proc[p].j EXCEPT !.phase = phase]

MarkMigrating(p) == At(p, "migrating") /\ WriteJournal(p, Phase(p, "migrating"), "migrate")

Migrate(p) ==
    /\ At(p, "migrate")
    /\ \/ \E e \in Legacy : root[e] = 0 /\ root' = [root EXCEPT ![e] = 1] /\ UNCHANGED proc
       \/ (\A e \in Legacy : root[e] # 0) /\ Go(p, "validate") /\ UNCHANGED root
    /\ UNCHANGED <<aside, snap, journal, marker, history, used>>

(* A migration that does away with something it should have kept; what     *)
(* somebody has written there since the snapshot is gone with it.          *)
MigrateHarms(p) ==
    /\ At(p, "migrate") /\ Error
    /\ \E e \in Kept :
        /\ root[e] # 0
        /\ root' = [root EXCEPT ![e] = 0]
        /\ risky' = risky \cup (late \cap {<<e, root[e]>>})
    /\ Go(p, "validate")
    /\ UNCHANGED <<aside, snap, journal, marker, latest, late, overtaken>>

(* containsInventory, and validateStartupMigrationInventory                *)
Contains(old, new) == \A e \in Entries : old[e] # 0 => new[e] = old[e]

Validate(p) ==
    /\ At(p, "validate")
    /\ IF Contains(snap[proc[p].j.tx].of, root)
         THEN WriteJournal(p, Phase(p, "data_prepared"), "mark")
         ELSE Go(p, "verify") /\ UNCHANGED <<disk, history, used>>

\* the catch of prepareUserDataForUpdate restores the snapshot
MigrationFails(p) ==
    /\ proc[p].at \in {"migrating", "migrate", "validate"} /\ Error
    /\ Go(p, "verify")
    /\ UNCHANGED <<disk, history>>

----------------------------------------------------------------------------
(* markPreparedUpdateInstallerState reads the journal and writes it back.  *)

Target(p) ==
    CASE p = "server" -> "installer_launch_pending"
      [] p = "worker" -> "installer_succeeded"
      [] OTHER -> proc[p].aim

(* What a mark's exception leads to: rollbackUserData in install, the      *)
(* catch around the installer; the first mark of the helper and the one of *)
(* the worker have no catch.                                               *)
MarkThrows(p) ==
    IF p = "server" \/ (p = "helper" /\ proc[p].aim = "installer_succeeded")
      THEN Go(p, "rollback")
      ELSE Throw(p)

ReadForMark(p) ==
    /\ At(p, "mark")
    /\ IF journal # NoJournal /\ journal.tx = proc[p].j.tx
         THEN GoWith(p, "marking", journal)
         ELSE MarkThrows(p)
    /\ UNCHANGED <<disk, history, used>>

WriteMark(p) ==
    /\ At(p, "marking")
    /\ LET next == CASE p = "server" -> "launch" [] p = "worker" -> "recover"
                     [] OTHER -> IF Target(p) = "installer_running" THEN "wait" ELSE "down"
       IN  /\ journal' = Phase(p, Target(p))
           /\ IF next = "down" THEN Throw(p) ELSE GoWith(p, next, journal')
    /\ UNCHANGED <<root, aside, snap, marker, history, used>>

MarkFails(p) ==
    /\ At(p, "marking") /\ Error
    /\ MarkThrows(p)
    /\ UNCHANGED <<disk, history>>

----------------------------------------------------------------------------
(* rollbackPreparedUserDataUpdate and restoreVerifiedDataSnapshot          *)

(* Where a process goes when a recovery is over: a start looks at the      *)
(* version, the worker writes the marker, everyone else has failed.        *)
\* Mutant: the worker takes a migration that was rolled back for one that was done.
RecoveredAnyway(p) ==
    proc' = [proc EXCEPT ![p] =
        CASE @.why = "start" -> [Nowhere EXCEPT !.at = "version", !.why = "start"]
          [] p = "worker" -> [Nowhere EXCEPT !.at = "marker", !.why = "worker"]
          [] OTHER -> After(p, @)]

Recovered(p) ==
    proc' = [proc EXCEPT ![p] =
        CASE @.why = "start" -> [Nowhere EXCEPT !.at = "version", !.why = "start"]
          [] p = "worker" /\ @.j.phase # "rolled_back" -> [Nowhere EXCEPT !.at = "marker", !.why = "worker"]
          [] OTHER -> After(p, @)]

ReadForRollback(p) ==
    /\ At(p, "rollback")
    /\ CASE journal = NoJournal -> Recovered(p)
         [] journal # NoJournal /\ journal.tx # proc[p].j.tx -> Throw(p)
         [] OTHER -> GoWith(p, "verify", journal)
    /\ UNCHANGED <<disk, history, used>>

Snapshot(p) == snap[proc[p].j.tx]
Whole(p) == Snapshot(p).state = "whole"

Verify(p) ==
    /\ At(p, "verify")
    /\ IF Whole(p)
         THEN proc' = [proc EXCEPT ![p].at = "move", ![p].left = {e \in Entries : root[e] # 0}]
         ELSE Throw(p)
    /\ UNCHANGED <<disk, history, used>>

\* an entry goes to the quarantine directory of this restore
Move(p) ==
    /\ At(p, "move")
    /\ \/ \E e \in proc[p].left :
            /\ root[e] # 0
            /\ proc' = [proc EXCEPT ![p].left = @ \ {e}, ![p].away[e] = root[e]]
            /\ root' = [root EXCEPT ![e] = 0]
       \/ /\ proc[p].left = {}
          /\ proc' = [proc EXCEPT ![p].at = "copy", ![p].left = {e \in Entries : Snapshot(p).of[e] # 0}]
          /\ UNCHANGED root
    /\ UNCHANGED <<aside, snap, journal, marker, history, used>>

MoveFails(p) ==
    /\ At(p, "move") /\ proc[p].left # {}
    /\ \/ Error
       \/ (\E e \in proc[p].left : root[e] = 0) /\ UNCHANGED used
    /\ Go(p, "putback")
    /\ UNCHANGED <<disk, history>>

(* What was moved goes back, except where something new has the name; the  *)
(* quarantine directory is then removed with whatever is left in it.       *)
Back(p) == [e \in Entries |-> IF root[e] = 0 THEN proc[p].away[e] ELSE root[e]]

PutBack(p) ==
    /\ At(p, "putback")
    /\ root' = Back(p)
    /\ Throw(p)
    /\ UNCHANGED <<aside, snap, journal, marker, history, used>>

PutBackFails(p) ==
    /\ At(p, "putback") /\ Error
    /\ \E e \in Entries :
        /\ proc[p].away[e] # 0
        /\ root' = [Back(p) EXCEPT ![e] = root[e]]
        /\ risky' = risky \cup {<<e, proc[p].away[e]>>}
    /\ Throw(p)
    /\ UNCHANGED <<aside, snap, journal, marker, latest, late, overtaken>>

\* of what stays in quarantines, only versions written last matter
Quarantine(p) == {<<e, latest[e]>> : e \in {f \in Entries : latest[f] # 0 /\ proc[p].away[f] = latest[f]}}
\* Mutant: the quarantine directory is removed once the snapshot is back.
DropAway(p) == UNCHANGED aside

KeepAway(p) == aside' = aside \cup Quarantine(p)

\* copyInventory, and the comparison of the result
Copy(p) ==
    /\ At(p, "copy")
    /\ \/ \E e \in proc[p].left :
            /\ Whole(p)
            /\ root' = [root EXCEPT ![e] = Snapshot(p).of[e]]
            /\ proc' = [proc EXCEPT ![p].left = @ \ {e}]
            /\ UNCHANGED aside
       \/ /\ proc[p].left = {} /\ root = Snapshot(p).of
          /\ KeepAway(p)
          /\ proc' = [proc EXCEPT ![p].at = "record", ![p].away = Empty]
          /\ UNCHANGED root
    /\ UNCHANGED <<snap, journal, marker, history, used>>

CopyFails(p) ==
    /\ At(p, "copy")
    /\ \/ Error
       \/ UNCHANGED used /\ IF proc[p].left = {} THEN root # Snapshot(p).of ELSE ~ Whole(p)
    /\ Go(p, "wipe")
    /\ UNCHANGED <<disk, history>>

Wipe(p) ==
    /\ At(p, "wipe")
    /\ root' = Empty
    /\ Go(p, "return")
    /\ UNCHANGED <<aside, snap, journal, marker, history, used>>

\* Mutant: what has been put back is still thought to be in the quarantine.
ReturnTwice(p) ==
    /\ At(p, "return") /\ root = Empty
    /\ root' = proc[p].away
    /\ Go(p, After(p, proc[p]).at)
    /\ UNCHANGED <<aside, snap, journal, marker, history, used>>

Return(p) ==
    /\ At(p, "return") /\ root = Empty
    /\ root' = proc[p].away
    /\ Throw(p)
    /\ UNCHANGED <<aside, snap, journal, marker, history, used>>

ReturnFails(p) ==
    /\ \/ proc[p].at \in {"wipe", "return"} /\ Error
       \/ At(p, "return") /\ root # Empty /\ UNCHANGED used
    /\ KeepAway(p)
    /\ Throw(p)
    /\ UNCHANGED <<root, snap, journal, marker, history>>

Record(p) == At(p, "record") /\ WriteJournal(p, Phase(p, "rolled_back"), "finalize")

\* that the snapshot has been restored is remembered, recorded or not
RecordFails(p) ==
    /\ At(p, "record") /\ Error
    /\ GoWith(p, "finalize", Phase(p, "rolled_back"))
    /\ UNCHANGED <<disk, history>>

----------------------------------------------------------------------------
(* finalizeUpdateTransactionArtifacts                                      *)

Retained(p) == proc[p].j.retain /\ proc[p].j.phase = "installer_succeeded"

RetainSnapshot(p) ==
    /\ At(p, "finalize") /\ Retained(p) /\ Whole(p)
    /\ Go(p, "unjournal")
    /\ UNCHANGED <<disk, history, used>>

\* rm of the directory takes its time
RemoveSnapshot(p) ==
    /\ \/ /\ At(p, "finalize") /\ ~ Retained(p)
          /\ snap' = [snap EXCEPT ![proc[p].j.tx] = IF @ = NoSnapshot THEN @ ELSE Partial]
          /\ Go(p, "removing")
       \/ /\ At(p, "removing")
          /\ snap' = [snap EXCEPT ![proc[p].j.tx] = NoSnapshot]
          /\ Go(p, "unjournal")
    /\ UNCHANGED <<root, aside, journal, marker, history, used>>

RemoveJournal(p) ==
    /\ At(p, "unjournal")
    /\ journal' = NoJournal
    /\ Recovered(p)
    /\ UNCHANGED <<root, aside, snap, marker, history, used>>

\* cleanupDeferred: the journal is written again, if that succeeds, and nothing is thrown
FinalizeFails(p) ==
    /\ proc[p].at \in {"finalize", "removing", "unjournal"}
    /\ \/ Error
       \/ At(p, "finalize") /\ Retained(p) /\ ~ Whole(p) /\ UNCHANGED used
    /\ journal' \in {journal, proc[p].j}
    /\ Recovered(p)
    /\ UNCHANGED <<root, aside, snap, marker, history>>

----------------------------------------------------------------------------
(* The server.                                                             *)

Start ==
    /\ At("server", "down")
    /\ proc' = [proc EXCEPT !["server"] = [Nowhere EXCEPT !.at = "recover", !.why = "start"]]
    /\ UNCHANGED <<disk, history, used>>

(* recoverInterruptedDataUpdate asks only for the pid of a running         *)
(* installer's helper, not for the process that prepares.                  *)
\* Mutant: nobody asks whether the helper is still running.
InstallerForgotten == FALSE
\* Mutant: the record is believed, whether its process is there or not.
InstallerBelieved == journal.phase = "installer_running"

InstallerAlive == journal.phase = "installer_running" /\ Live("helper") /\ proc["helper"].j.tx = journal.tx

\* a start takes care of a transaction one of whose processes is still at work
Overtakes(p) ==
    /\ p = "server" /\ journal # NoJournal /\ journal.phase # "installer_running"
    /\ \E q \in {"helper", "worker"} : Live(q) /\ proc[q].j.tx = journal.tx

\* Mutant: only a successful installer counts as the end of a transaction.
RecoverAgain(p) ==
    /\ At(p, "recover")
    /\ CASE journal = NoJournal -> Recovered(p)
         [] journal.phase = "installer_succeeded" -> GoWith(p, "finalize", journal)
         [] InstallerAlive -> Throw(p)
         [] OTHER -> GoWith(p, "rollback", journal)
    /\ overtaken' = Overtakes(p)
    /\ UNCHANGED <<disk, latest, late, risky, used>>

Recover(p) ==
    /\ At(p, "recover")
    /\ CASE journal = NoJournal -> Recovered(p)
         [] journal.phase \in Finished -> GoWith(p, "finalize", journal)
         [] InstallerAlive -> Throw(p)
         [] OTHER -> GoWith(p, "rollback", journal)
    /\ overtaken' = Overtakes(p)
    /\ UNCHANGED <<disk, latest, late, risky, used>>

(* guardDesktopStartupDataVersion does its work in the worker, which is    *)
(* spawned whether or not one lives that an earlier server has left.       *)
CheckVersion ==
    /\ At("server", "version")
    /\ IF marker = "old"
         THEN proc' = [proc EXCEPT !["server"].at = "await",
                                   !["worker"] = IF Live("worker") THEN @
                                                 ELSE [Nowhere EXCEPT !.at = "prepare", !.why = "worker"]]
         ELSE proc' = [proc EXCEPT !["server"] = [Nowhere EXCEPT !.at = "serving"]]
    /\ overtaken' = (marker = "old" /\ Live("worker"))
    /\ UNCHANGED <<disk, latest, late, risky, used>>

WriteMarker ==
    /\ At("worker", "marker")
    /\ marker' = "guarded"
    /\ Go("worker", "done")
    /\ UNCHANGED <<root, aside, snap, journal, history, used>>

WriteMarkerFails ==
    /\ At("worker", "marker") /\ Error
    /\ Throw("worker")
    /\ UNCHANGED <<disk, history>>

WorkerEnds ==
    /\ At("server", "await") /\ ~ Live("worker")
    /\ proc' = [proc EXCEPT !["worker"] = Nowhere,
                            !["server"] = IF At("worker", "done") THEN [Nowhere EXCEPT !.at = "serving"] ELSE Nowhere]
    /\ UNCHANGED <<disk, history, used>>

\* the request to /api/update/install, admitted by the write barrier
RequestUpdate ==
    /\ Serving /\ used.updates < MaxUpdates
    /\ used' = [used EXCEPT !.updates = @ + 1]
    /\ proc' = [proc EXCEPT !["server"] = [Nowhere EXCEPT !.at = "prepare", !.why = "install"]]
    /\ UNCHANGED <<disk, history>>

Launch ==
    /\ At("server", "launch")
    /\ proc' = [proc EXCEPT !["server"] = [Nowhere EXCEPT !.at = "frozen", !.why = "install"],
                            !["helper"] = [Nowhere EXCEPT !.at = "mark", !.why = "installer", !.j = proc["server"].j,
                                                          !.aim = "installer_running"]]
    /\ UNCHANGED <<disk, history, used>>

LaunchFails ==
    /\ At("server", "launch") /\ Error
    /\ Go("server", "rollback")
    /\ UNCHANGED <<disk, history>>

Exit ==
    /\ At("server", "frozen")
    /\ proc' = [proc EXCEPT !["server"] = Nowhere]
    /\ UNCHANGED <<disk, history, used>>

----------------------------------------------------------------------------
(* The helper: runInstallerUpdateTransaction.                              *)

Wait ==
    /\ At("helper", "wait")
    /\ IF At("server", "frozen") THEN Go("helper", "rollback") ELSE Go("helper", "install")
    /\ UNCHANGED <<disk, history, used>>

\* the new build may have another data schema
Install ==
    /\ At("helper", "install")
    /\ \/ /\ proc' = [proc EXCEPT !["helper"].at = "mark", !["helper"].aim = "installer_succeeded"]
          /\ marker' \in {marker, "old"}
       \/ Go("helper", "rollback") /\ UNCHANGED marker
    /\ UNCHANGED <<root, aside, snap, journal, history, used>>

----------------------------------------------------------------------------
(* The rest of the world.                                                  *)

(* A write by the user or by a media worker. One that meets a restore may  *)
(* be overwritten or removed by it: the restore holds no barrier.          *)
Write ==
    /\ ~ Exclusive /\ used.writes < MaxWrites
    /\ used' = [used EXCEPT !.writes = @ + 1]
    /\ \E e \in Entries :
        LET v == used.writes + 2
        IN  /\ root' = [root EXCEPT ![e] = v]
            /\ latest' = [latest EXCEPT ![e] = v]
            /\ late' = IF OpenJournal \/ \E p \in Procs : At(p, "open") THEN late \cup {<<e, v>>} ELSE late
            /\ risky' = IF \E p \in Procs : proc[p].at \in Restoring THEN risky \cup {<<e, v>>} ELSE risky
    /\ UNCHANGED <<aside, snap, journal, marker, proc, overtaken>>

(* A process is killed, or all of them are when the machine stops.         *)
Dead(p) == IF p = "worker" /\ At("server", "await") THEN [Nowhere EXCEPT !.at = "failed"] ELSE Nowhere

Crash ==
    /\ used.crashes < MaxCrashes
    /\ used' = [used EXCEPT !.crashes = @ + 1]
    /\ \E ps \in {{"server"}, {"worker"}, {"helper"}, Procs} :
        /\ \A p \in ps : ps = Procs \/ Live(p)
        /\ proc' = [p \in Procs |-> IF p \in ps THEN IF ps = Procs THEN Nowhere ELSE Dead(p) ELSE proc[p]]
        /\ aside' = aside \cup UNION {Quarantine(p) : p \in ps}
    /\ UNCHANGED <<root, snap, journal, marker, history>>

----------------------------------------------------------------------------
Prepare(p) == \/ Refuse(p) \/ BeginSnapshot(p) \/ TakeSnapshot(p) \/ Open(p)
              \/ MarkMigrating(p) \/ Migrate(p) \/ Validate(p)
Mark(p) == ReadForMark(p) \/ WriteMark(p)
Restore(p) == \/ ReadForRollback(p) \/ Verify(p) \/ Move(p) \/ PutBack(p) \/ Copy(p)
              \/ Wipe(p) \/ Return(p) \/ Record(p)
Finalize(p) == RetainSnapshot(p) \/ RemoveSnapshot(p) \/ RemoveJournal(p)
Fails(p) ==
    \/ MoveFails(p) \/ PutBackFails(p) \/ CopyFails(p) \/ ReturnFails(p) \/ RecordFails(p)
    \/ MarkFails(p) \/ FinalizeFails(p)
PreparationFails(p) == PrepareFails(p) \/ MigrateHarms(p) \/ MigrationFails(p)

Server == \/ Prepare("server") \/ Mark("server") \/ Restore("server") \/ Finalize("server")
          \/ Start \/ Recover("server") \/ CheckVersion \/ WorkerEnds \/ Launch \/ Exit
Worker == \/ Prepare("worker") \/ Mark("worker") \/ Restore("worker") \/ Finalize("worker")
          \/ Recover("worker") \/ WriteMarker
Helper == Mark("helper") \/ Restore("helper") \/ Finalize("helper") \/ Wait \/ Install

\* failures nobody has to cause: what the step needs is not there
Blocked(p) == Fails(p) /\ UNCHANGED used

Failure ==
    \/ \E p \in Procs : Fails(p)
    \/ PreparationFails("server") \/ PreparationFails("worker")
    \/ LaunchFails \/ WriteMarkerFails

(* The behaviours end where a start overtakes: it rolls a transaction back *)
(* that a live process is at work on, or has a second worker migrate the   *)
(* data beside one that lives. The code does so, and two of them can undo  *)
(* each other's work; the properties below say nothing about what follows. *)
Next == ~ overtaken /\ (Server \/ Worker \/ Helper \/ Failure \/ RequestUpdate \/ Write \/ Crash)

Spec == Init /\ [][Next]_vars

(* The processes go on, also after a failure, and a user starts the server *)
(* again; requests, writes, errors and crashes need never happen.          *)
FairSpec ==
    /\ Spec
    /\ WF_vars(~ overtaken /\ (Server \/ Blocked("server")))
    /\ WF_vars(~ overtaken /\ (Worker \/ Blocked("worker")))
    /\ WF_vars(~ overtaken /\ (Helper \/ Blocked("helper")))
----------------------------------------------------------------------------
Places == {"down", "recover", "version", "await", "serving", "prepare", "snapshot", "open", "migrating",
           "migrate", "validate", "mark", "marking", "launch", "frozen", "rollback", "verify", "record",
           "finalize", "removing", "unjournal", "marker", "done", "failed", "wait", "install"} \cup Restoring

(* Types, and what the locals hold: only a restore under way has a         *)
(* quarantine of its own, and whoever is past the snapshot knows its name. *)
TypeOK ==
    /\ root \in [Entries -> Versions] /\ latest \in [Entries -> Versions]
    /\ aside \cup late \cup risky \subseteq Entries \X Versions
    /\ snap \in [Tx -> [state : {"gone", "partial", "whole"}, of : [Entries -> Versions]]]
    /\ journal \in {NoJournal} \cup [tx : Tx, phase : Phases, retain : BOOLEAN]
    /\ marker \in {"old", "current", "guarded"} /\ overtaken \in BOOLEAN
    /\ \A p \in Procs :
        /\ proc[p].at \in Places
        /\ proc[p].left \subseteq Entries /\ proc[p].away \in [Entries -> Versions]
        /\ proc[p].away # Empty => proc[p].at \in Restoring
        /\ proc[p].at \in Restoring \cup {"verify", "record", "finalize"} => proc[p].j.tx \in Tx

(* No version the user has written last is lost by an update: it is in the *)
(* data root, in a quarantine directory, or in the snapshot that the open  *)
(* transaction will restore. Writes that meet a restore are exempt, and so *)
(* is everything once a start has overtaken a live process.                *)
NothingLost ==
    \A e \in Entries :
        LET v == latest[e]
        IN  v # 0 =>
                  \/ root[e] = v
                  \/ <<e, v>> \in aside \cup risky
                  \/ \E p \in Procs : proc[p].away[e] = v
                  \/ OpenJournal /\ snap[journal.tx].state = "whole" /\ snap[journal.tx].of[e] = v

(* A server that serves with no transaction open shows the versions that   *)
(* were written last, whichever of its predecessors, helpers and workers   *)
(* have died in whatever step, until a start overtakes one that lives;     *)
(* what was written after the snapshot of a transaction, rolled back or    *)
(* not, is exempt.                                                         *)
ServesLatest ==
    Serving /\ ~ OpenJournal =>
        \A e \in Entries : latest[e] # 0 => root[e] = latest[e] \/ <<e, latest[e]>> \in late

(* As long as no start overtakes a live process, nobody restores beside    *)
(* another restore or behind a server that serves: the helper of a running *)
(* installer keeps the next server from starting.                          *)
RestoresAlone ==
    /\ Cardinality({p \in Procs : proc[p].at \in Restoring}) <= 1
    /\ Serving => \A p \in Procs : proc[p].at \notin Restoring

(* The marker is written after the migration has been validated and closed *)
(* for good: as long as no start overtakes a live process, a server that   *)
(* serves under it has the migrated data.                                  *)
MarkedMeansMigrated ==
    marker = "guarded" /\ Serving /\ ~ OpenJournal => \A e \in Legacy : root[e] # 0

(* A start either succeeds in the end or finds what no start can repair:   *)
(* an open transaction whose snapshot is no longer whole.                  *)
Stranded == OpenJournal /\ snap[journal.tx].state # "whole"
StartsSucceed == []<>(Serving \/ Stranded \/ overtaken)
============================================================================
