---------------------------- MODULE NutstoreSync ----------------------------
(* One logical path kept in step between several devices through a WebDAV  *)
(* store (src/server/nutstore-sync/): the plan of a run, the upload with   *)
(* its staging file and conditional replacement, downloads, deletions with *)
(* tombstones, the three-way merge and the resolution of a conflict. Each  *)
(* request to the store and each local file operation is a step; users     *)
(* edit and delete the file at any time.                                   *)
(*                                                                         *)
(* A text is its number; 0 is no file. Hashes are compared as texts.       *)
EXTENDS Naturals, Sequences, FiniteSets

CONSTANTS
    Devices,
    Settings,   \* kinds of file with what the server supports
    MaxTexts,   \* texts written, by users and by merges
    MaxChanges, MaxDeletes, \* edits and deletions by users, deletions alone
    MaxChoices, \* conflicts users decide
    MaxFaults   \* failed requests and crashes

ASSUME SyncAssumption ==
    /\ Settings \subseteq [kind : {"text", "binary"},
                           store : SUBSET {"conditionalMove", "ifMatch"}]
    /\ MaxTexts \in Nat \ {0} /\ {MaxChanges, MaxDeletes, MaxChoices, MaxFaults} \subseteq Nat
    /\ IsFiniteSet(Devices)

VARIABLES
    local,      \* the device's file
    base,       \* state.baseline[path].baseHash
    kept,       \* bases/<hash>.base: the text stored under each hash
    trash,      \* texts in the device's recycle bin and its conflict copies
    conflict,   \* an unresolved conflict is on record
    data,       \* the remote file, with its ETag
    meta,       \* the remote entry: hash and ETag of the file
    tomb,       \* the remote tombstone; newer: not older than the entry
    backups,    \* texts left under staging/<transaction>.previous
    pc, job,    \* the run and the conflict resolution of each device
    setting,    \* kind of the path, capabilities of the store
    lineage,    \* history: the texts each text was built on
    discarded,  \* history: texts a user has deleted or decided against
    hasty,      \* history: texts written while their device was at work
    mistaken,   \* history: texts in a remote file taken for another of its size,
                \* or deleted from the store when its device had the file again
    used        \* edits, deletions and faults so far

vars == <<local, base, kept, trash, conflict, data, meta, tomb, backups, pc,
          job, setting, lineage, discarded, hasty, mistaken, used>>
device == <<local, base, kept, trash, conflict>>
store == <<data, meta, tomb, backups>>
story == <<lineage, discarded, hasty, mistaken, used>>

Tasks == Devices \X {"run", "resolve"}
Texts == 1 .. MaxTexts
None == [text |-> 0, etag |-> 0]
NoTomb == [there |-> FALSE, newer |-> FALSE]
NoRemote == [version |-> <<0, FALSE>>, etag |-> 0, tombed |-> FALSE]

(* The locals of a task: what was scanned (mine, baseline, remote), the    *)
(* text it moves, what the store must still hold, what it remembers.       *)
NoJob == [mine |-> 0, baseline |-> 0, remote |-> NoRemote, why |-> "plan",
          text |-> 0, stage |-> 0, mark |-> 0, choice |-> "none", ancestor |-> 0]

Init ==
    /\ setting \in Settings
    /\ \E t \in {0, 1} :
         /\ local = [d \in Devices |-> t]
         /\ base = local
         /\ kept = [d \in Devices |-> [h \in Texts |-> IF h = t THEN t ELSE 0]]
         /\ data = [text |-> t, etag |-> t]
         /\ meta = data
         /\ lineage = IF t = 0 THEN <<>> ELSE <<{1}>>
    /\ trash = [d \in Devices |-> {}]
    /\ conflict = [d \in Devices |-> FALSE]
    /\ tomb = NoTomb
    /\ backups = {}
    /\ pc = [p \in Tasks |-> "idle"]
    /\ job = [p \in Tasks |-> NoJob]
    /\ discarded = {}
    /\ hasty = {}
    /\ mistaken = {}
    /\ used = [changes |-> 0, deletes |-> 0, choices |-> 0, faults |-> 0]

----------------------------------------------------------------------------
(* Comparison.                                                             *)

(* A version is <<hash, exists>>. A tombstone has a hash, which no file    *)
(* that is missing has.                                                    *)
FileVersion(t) == <<t, t # 0>>
Deleted == <<MaxTexts + 1, FALSE>>

Compare(b, l, r) ==
    IF l = r THEN "baseline"
    ELSE IF r = b THEN IF l[2] THEN "upload" ELSE "delete_remote"
    ELSE IF l = b THEN IF r[2] THEN "download" ELSE "delete_local"
    ELSE IF ~ l[2] /\ ~ r[2] THEN "baseline"
    ELSE "conflict"

(* What an inventory says of the path: the tombstone hides an older entry. *)
Listing ==
    IF tomb.there /\ (meta = None \/ tomb.newer)
    THEN [version |-> Deleted, etag |-> 0, tombed |-> TRUE]
    ELSE [version |-> FileVersion(meta.text), etag |-> meta.etag, tombed |-> FALSE]

----------------------------------------------------------------------------
(* Control.                                                                *)

Goto(p, label) == pc' = [pc EXCEPT ![p] = label]
End(p) == Goto(p, "idle") /\ job' = [job EXCEPT ![p] = NoJob]

(* The state file is updated by one task at a time; a download and a merge *)
(* happen inside such an update.                                           *)
HoldsState(p) ==
    \/ pc[p] \in {"replace", "keep", "mergeFetch", "mergePut"}
    \/ job[p].why = "merge" /\ pc[p] # "unmerged"
StateFree(p) == \A q \in Tasks : q[1] = p[1] /\ q # p => ~ HoldsState(q)

(* An error ends the task; inside a merge it only ends the merge.          *)
Fail(p) == IF job[p].why = "merge"
           THEN Goto(p, "unmerged") /\ UNCHANGED job
           ELSE End(p)

(* REMOTE_CHANGED_DURING_SYNC: a run turns it into a conflict.             *)
Changed(p) == IF job[p].why = "plan"
              THEN Goto(p, "record") /\ UNCHANGED job
              ELSE Fail(p)

Done(p) == CASE job[p].why = "choice" -> Goto(p, "close") /\ UNCHANGED job
             [] job[p].why = "merge" -> Goto(p, "unmerged") /\ UNCHANGED job
             [] OTHER -> End(p)

Lineage(t) == IF t = 0 THEN {} ELSE lineage[t]

(* An ETag the store has not given to anybody who may still remember it.   *)
FreshEtag ==
    LET known == {data.etag, meta.etag} \cup {job[p].mark : p \in Tasks}
                   \cup {job[p].remote.etag : p \in Tasks}
    IN CHOOSE e \in 1 .. Cardinality(known) + 1 : e \notin known

----------------------------------------------------------------------------
(* A run scans, lists and plans.                                           *)

StartRun(d) ==
    LET p == <<d, "run">> IN
    /\ pc[p] = "idle"
    /\ Goto(p, "list")
    /\ job' = [job EXCEPT ![p].mine = local[d]]
    /\ UNCHANGED <<device, store, setting, story>>

Plan(p) ==
    LET d == p[1] IN
    /\ pc[p] = "list"
    /\ Goto(p, Compare(FileVersion(base[d]), FileVersion(job[p].mine), Listing.version))
    /\ job' = [job EXCEPT ![p].baseline = base[d], ![p].remote = Listing,
                          ![p].text = job[p].mine]
    /\ UNCHANGED <<device, store, setting, story>>

(* Nothing to do: the common version becomes the baseline. What a deletion *)
(* left is acknowledged, which fails when its tombstone is gone.           *)
Baseline(p) ==
    LET d == p[1] IN
    /\ pc[p] = "baseline"
    /\ StateFree(p)
    /\ base' = [base EXCEPT ![d] =
                  IF job[p].mine = 0 /\ job[p].remote.tombed /\ ~ tomb.there THEN @ ELSE job[p].mine]
    /\ End(p)
    /\ UNCHANGED <<local, kept, trash, conflict, store, setting, story>>

DeleteLocal(p) ==
    LET d == p[1] IN
    /\ pc[p] = "delete_local"
    /\ trash' = [trash EXCEPT ![d] = @ \cup ({local[d]} \ {0})]
    /\ local' = [local EXCEPT ![d] = 0]
    /\ IF job[p].why = "choice" THEN Done(p) ELSE Goto(p, "acknowledge") /\ UNCHANGED job
    /\ UNCHANGED <<base, kept, conflict, store, setting, story>>

Acknowledge(p) ==
    LET d == p[1] IN
    /\ pc[p] = "acknowledge"
    /\ StateFree(p)
    /\ base' = [base EXCEPT ![d] = IF job[p].remote.tombed /\ ~ tomb.there THEN @ ELSE 0]
    /\ End(p)
    /\ UNCHANGED <<local, kept, trash, conflict, store, setting, story>>

----------------------------------------------------------------------------
(* Upload: head, staging, head, replacement, head, entry, tombstone.       *)

(* assertRemoteSnapshot: the scanned state of the target still holds.      *)
SnapshotHolds(p) ==
    /\ job[p].remote.version[2] <=> data # None
    /\ job[p].remote.version[2] => job[p].remote.etag = data.etag

(* The staging file gets what the local file holds now.                    *)
Stage(p) ==
    /\ pc[p] = "upload"
    /\ IF ~ SnapshotHolds(p) THEN Changed(p)
       ELSE IF local[p[1]] = 0 THEN Fail(p)
       ELSE Goto(p, "recheck") /\ job' = [job EXCEPT ![p].stage = local[p[1]]]
    /\ UNCHANGED <<device, store, setting, story>>

Recheck(p) ==
    /\ pc[p] = "recheck"
    /\ IF SnapshotHolds(p)
       THEN Goto(p, "swap") /\ job' = [job EXCEPT ![p].mark = data.etag]
       ELSE Changed(p)
    /\ UNCHANGED <<device, store, setting, story>>

Can(capability) == capability \in setting.store
Confirmed(p) == job[p].why = "choice"

Replace(p, text) ==
    /\ data' = [text |-> text, etag |-> FreshEtag]
    /\ discarded' = IF Confirmed(p) THEN discarded \cup Lineage(data.text) ELSE discarded
    /\ Goto(p, "verify")
    /\ job' = [job EXCEPT ![p].stage = 0, ![p].mark = 0]
    /\ UNCHANGED backups

Refused(p) == Changed(p) /\ UNCHANGED <<data, backups, discarded>>

\* Mutant: the destination's ETag is not sent along.
SwapUnconditionally(p) ==
    /\ pc[p] = "swap"
    /\ IF job[p].mark = 0 /\ data # None
       THEN Refused(p)
       ELSE Replace(p, job[p].stage)
    /\ UNCHANGED <<device, meta, tomb, setting, lineage, hasty, mistaken, used>>

(* MOVE to a free name; MOVE conditional on the target's ETag; PUT with    *)
(* If-Match, which reads the local file again.                             *)
Swap(p) ==
    LET free == job[p].mark = 0
        text == IF free \/ Can("conditionalMove") THEN job[p].stage ELSE local[p[1]]
    IN
    /\ pc[p] = "swap"
    /\ free \/ setting.store # {}
    /\ IF text = 0 THEN Fail(p) /\ UNCHANGED <<data, backups, discarded>>
       ELSE IF data.etag = job[p].mark THEN Replace(p, text)
       ELSE Refused(p)
    /\ UNCHANGED <<device, meta, tomb, setting, lineage, hasty, mistaken, used>>

(* With neither capability only a confirmed replacement goes on: the old   *)
(* file is moved away, then the staging file takes its place.              *)
Rotate(p) ==
    /\ pc[p] = "swap" /\ job[p].mark # 0 /\ setting.store = {}
    /\ IF ~ Confirmed(p) THEN Refused(p)
       ELSE IF data = None THEN Fail(p) /\ UNCHANGED <<data, backups, discarded>>
       ELSE /\ backups' = backups \cup {data.text}
            /\ data' = None
            /\ Goto(p, "place")
            /\ job' = [job EXCEPT ![p].ancestor = data.text]
            /\ UNCHANGED discarded
    /\ UNCHANGED <<device, meta, tomb, setting, lineage, hasty, mistaken, used>>

Place(p) ==
    /\ pc[p] = "place"
    /\ IF data = None
       THEN /\ data' = [text |-> job[p].stage, etag |-> FreshEtag]
            /\ backups' = backups \ {job[p].ancestor}
            /\ discarded' = discarded \cup Lineage(job[p].ancestor)
            /\ Goto(p, "verify")
            /\ job' = [job EXCEPT ![p].stage = 0, ![p].mark = 0, ![p].ancestor = 0]
       ELSE Refused(p)
    /\ UNCHANGED <<device, meta, tomb, setting, lineage, hasty, mistaken, used>>

(* The check after the replacement compares sizes: another text of the     *)
(* same size is taken for the one of the plan.                             *)
Verify(p) ==
    /\ pc[p] = "verify"
    /\ \/ /\ data # None
          /\ Goto(p, "entry")
          /\ job' = [job EXCEPT ![p].mark = data.etag]
          /\ mistaken' = mistaken \cup (Lineage(data.text) \ Lineage(job[p].text))
       \/ data.text # job[p].text /\ Fail(p) /\ UNCHANGED mistaken
    /\ UNCHANGED <<device, store, setting, lineage, discarded, hasty, used>>

\* Mutant: the entry gets the ETag seen before the replacement.
PutOldEntry(p) ==
    /\ pc[p] = "entry"
    /\ meta' = [text |-> job[p].text, etag |-> job[p].remote.etag]
    /\ tomb' = [tomb EXCEPT !.newer = FALSE]
    /\ Goto(p, "untomb")
    /\ job' = [job EXCEPT ![p].mark = 0]
    /\ UNCHANGED <<device, data, backups, setting, story>>

PutEntry(p) ==
    /\ pc[p] = "entry"
    /\ meta' = [text |-> job[p].text, etag |-> job[p].mark]
    /\ tomb' = [tomb EXCEPT !.newer = FALSE]
    /\ Goto(p, "untomb")
    /\ job' = [job EXCEPT ![p].mark = 0]
    /\ UNCHANGED <<device, data, backups, setting, story>>

DropTombstone(p) ==
    /\ pc[p] = "untomb"
    /\ tomb' = NoTomb
    /\ Goto(p, "settle")
    /\ UNCHANGED <<device, data, meta, backups, job, setting, story>>

(* retainBase copies the local file under the scanned hash; setBaseline,   *)
(* which a merge does first.                                               *)
Settle(p) ==
    LET d == p[1] IN
    /\ pc[p] = "settle"
    /\ StateFree(p)
    /\ kept' = IF local[d] = 0 THEN kept ELSE [kept EXCEPT ![d][job[p].text] = local[d]]
    /\ IF local[d] = 0 /\ job[p].why # "merge"
       THEN Fail(p) /\ UNCHANGED base
       ELSE Done(p) /\ base' = [base EXCEPT ![d] = job[p].text]
    /\ UNCHANGED <<local, trash, conflict, store, setting, story>>

----------------------------------------------------------------------------
(* Removal of the remote file: tombstone, conditional DELETE, entry.       *)

MarkRemoval(p) ==
    /\ pc[p] = "delete_remote"
    /\ IF ~ SnapshotHolds(p) \/ (data # None /\ ~ Can("ifMatch") /\ ~ Confirmed(p))
       THEN Changed(p)
       ELSE Goto(p, "tombstone") /\ job' = [job EXCEPT ![p].mark = data.etag]
    /\ UNCHANGED <<device, store, setting, story>>

PutTombstone(p) ==
    /\ pc[p] = "tombstone"
    /\ tomb' = [there |-> TRUE, newer |-> TRUE]
    /\ Goto(p, "erase")
    /\ UNCHANGED <<device, data, meta, backups, job, setting, story>>

(* A file that was missing is deleted without a condition. A run that has  *)
(* scanned the file as deleted does not see that a resolution brought it   *)
(* back.                                                                   *)
Erase(p) ==
    /\ pc[p] = "erase"
    /\ IF data = None \/ data.etag = job[p].mark \/ job[p].mark = 0 \/ ~ Can("ifMatch")
       THEN /\ data' = None
            /\ discarded' = IF Confirmed(p) THEN discarded \cup Lineage(data.text) ELSE discarded
            /\ mistaken' = IF ~ Confirmed(p) /\ local[p[1]] # 0
                           THEN mistaken \cup Lineage(data.text) ELSE mistaken
            /\ Goto(p, "eraseEntry")
            /\ UNCHANGED <<job, tomb>>
       ELSE Changed(p) /\ tomb' = NoTomb /\ UNCHANGED <<data, discarded, mistaken>>
    /\ UNCHANGED <<device, meta, backups, setting, lineage, hasty, used>>

EraseEntry(p) ==
    /\ pc[p] = "eraseEntry"
    /\ meta' = None
    /\ Goto(p, "forget")
    /\ UNCHANGED <<device, data, tomb, backups, job, setting, story>>

(* Of the resolutions, only "keep both" forgets the baseline.              *)
Forget(p) ==
    /\ pc[p] = "forget"
    /\ StateFree(p)
    /\ base' = [base EXCEPT ![p[1]] = IF job[p].choice = "use_local" THEN @ ELSE 0]
    /\ Done(p)
    /\ UNCHANGED <<local, kept, trash, conflict, store, setting, story>>

----------------------------------------------------------------------------
(* Download: the text is checked against the listed hash and replaces the  *)
(* local file, whatever that holds by now.                                 *)

Fetch(p) ==
    /\ pc[p] = "download"
    /\ StateFree(p)
    /\ IF data.text = job[p].remote.version[1]
       THEN Goto(p, "replace") /\ UNCHANGED job
       ELSE Fail(p)
    /\ UNCHANGED <<device, store, setting, story>>

ReplaceLocal(p) ==
    LET d == p[1] IN
    /\ pc[p] = "replace"
    /\ local' = [local EXCEPT ![d] = job[p].remote.version[1]]
    /\ discarded' = IF Confirmed(p) THEN discarded \cup Lineage(local[d]) ELSE discarded
    /\ Goto(p, "keep")
    /\ UNCHANGED <<base, kept, trash, conflict, store, job, setting, lineage, hasty, mistaken, used>>

Keep(p) ==
    LET d == p[1] IN
    /\ pc[p] = "keep"
    /\ IF local[d] = 0
       THEN Fail(p) /\ UNCHANGED <<base, kept>>
       ELSE /\ kept' = [kept EXCEPT ![d][job[p].remote.version[1]] = local[d]]
            /\ base' = [base EXCEPT ![d] = job[p].remote.version[1]]
            /\ Done(p)
    /\ UNCHANGED <<local, trash, conflict, store, setting, story>>

----------------------------------------------------------------------------
(* A conflict: three-way merge, copy of a binary file, record.             *)

(* When the local or the remote side is not there at all, its "deleted" is *)
(* read from null: the run ends with a TypeError.                          *)
Conflict(p) ==
    LET remote == job[p].remote IN
    /\ pc[p] = "conflict"
    /\ IF job[p].mine = 0 \/ (~ remote.version[2] /\ ~ remote.tombed) THEN End(p)
       ELSE IF ~ remote.version[2] THEN Goto(p, "record") /\ UNCHANGED job
       ELSE Goto(p, IF setting.kind = "text" THEN "merge" ELSE "copy") /\ UNCHANGED job
    /\ UNCHANGED <<device, store, setting, story>>

Merge(p) ==
    LET d == p[1]
        ancestor == IF base[d] = 0 THEN 0 ELSE kept[d][base[d]]
    IN
    /\ pc[p] = "merge"
    /\ StateFree(p)
    /\ IF ancestor = 0 \/ local[d] = 0
       THEN Goto(p, "unmerged") /\ UNCHANGED job
       ELSE /\ Goto(p, "mergeFetch")
            /\ job' = [job EXCEPT ![p].why = "merge", ![p].text = local[d],
                                  ![p].ancestor = ancestor]
    /\ UNCHANGED <<device, store, setting, story>>

(* mergeTextThreeWay of the stored base, the local and the remote text:    *)
(* one of the two when the other is the base or equal to it, else a text   *)
(* built on both (Combined), or no merge when they overlap.                *)
Combined == 0

MergeFetch(p) ==
    LET mine == job[p].text
        theirs == job[p].remote.version[1]
        Use(t) == Goto(p, "mergePut") /\ job' = [job EXCEPT ![p].text = t]
    IN
    /\ pc[p] = "mergeFetch"
    /\ IF data.text # theirs THEN Fail(p)
       ELSE IF mine = job[p].ancestor THEN Use(theirs)
       ELSE IF theirs \in {mine, job[p].ancestor} THEN Use(mine)
       ELSE Fail(p) \/ (Len(lineage) < MaxTexts /\ Use(Combined))
    /\ UNCHANGED <<device, store, setting, story>>

\* Mutant: the merged text goes to the store and is not written to the file.
MergeOnly(p) ==
    /\ pc[p] = "mergePut"
    /\ job' = [job EXCEPT ![p].text = Len(lineage) + 1]
    /\ Goto(p, "upload")
    /\ UNCHANGED <<device, store, setting, story>>

(* The merged text replaces the local file, whatever that holds by now,    *)
(* and is uploaded with the hash it has there.                             *)
MergePut(p) ==
    LET d == p[1]
        both == Lineage(job[p].mine) \cup Lineage(job[p].remote.version[1])
        Write(t) == local' = [local EXCEPT ![d] = t] /\ job' = [job EXCEPT ![p].text = t]
    IN
    /\ pc[p] = "mergePut"
    /\ IF job[p].text # Combined THEN Write(job[p].text) /\ UNCHANGED lineage
       ELSE /\ Len(lineage) < MaxTexts
            /\ Write(Len(lineage) + 1)
            /\ lineage' = Append(lineage, both)
    /\ Goto(p, "upload")
    /\ UNCHANGED <<base, kept, trash, conflict, store, setting, discarded, hasty, mistaken, used>>

(* Whether a merge succeeded is read off the baseline.                     *)
Unmerged(p) ==
    LET d == p[1] IN
    /\ pc[p] = "unmerged"
    /\ StateFree(p)
    /\ conflict' = [conflict EXCEPT ![d] = @ \/ base[d] \in {0, job[p].baseline}]
    /\ End(p)
    /\ UNCHANGED <<local, base, kept, trash, store, setting, story>>

CopyRemote(p) ==
    /\ pc[p] = "copy"
    /\ IF data = None THEN Fail(p) /\ UNCHANGED trash
       ELSE /\ trash' = [trash EXCEPT ![p[1]] =
                          IF data.text = job[p].remote.version[1] THEN @ \cup {data.text} ELSE @]
            /\ Goto(p, "record")
            /\ UNCHANGED job
    /\ UNCHANGED <<local, base, kept, conflict, store, setting, story>>

Record(p) ==
    /\ pc[p] = "record"
    /\ StateFree(p)
    /\ conflict' = [conflict EXCEPT ![p[1]] = TRUE]
    /\ End(p)
    /\ UNCHANGED <<local, base, kept, trash, store, setting, story>>

----------------------------------------------------------------------------
(* resolveConflict: a task of its own, which a run does not wait for.      *)

(* The remote is listed again, and the local file scanned again.           *)
Push(d) == IF local[d] = 0 THEN "delete_remote" ELSE "upload"
Resolve(d, choice) ==
    LET p == <<d, "resolve">>
        there == Listing.version[2] IN
    /\ pc[p] = "idle" /\ conflict[d]
    /\ used' = [used EXCEPT !.choices = IF @ < MaxChoices THEN @ + 1 ELSE @]
    /\ Goto(p, CASE choice = "use_remote" -> IF there THEN "download" ELSE "delete_local"
                 [] choice = "use_local" -> Push(d)
                 [] choice = "keep_both" -> IF there THEN "copyBoth" ELSE "close")
    /\ job' = [job EXCEPT ![p].why = "choice", ![p].choice = choice, ![p].remote = Listing,
                          ![p].baseline = base[d], ![p].text = local[d]]
    /\ UNCHANGED <<device, store, setting, lineage, discarded, hasty, mistaken>>

CopyBoth(p) ==
    /\ pc[p] = "copyBoth"
    /\ IF data.text # job[p].remote.version[1]
       THEN Fail(p) /\ UNCHANGED trash
       ELSE /\ trash' = [trash EXCEPT ![p[1]] = @ \cup {data.text}]
            /\ Goto(p, Push(p[1]))
            /\ job' = [job EXCEPT ![p].text = local[p[1]]]
    /\ UNCHANGED <<local, base, kept, conflict, store, setting, story>>

Close(p) ==
    /\ pc[p] = "close"
    /\ StateFree(p)
    /\ conflict' = [conflict EXCEPT ![p[1]] = FALSE]
    /\ End(p)
    /\ UNCHANGED <<local, base, kept, trash, store, setting, story>>

----------------------------------------------------------------------------
(* Users and failures.                                                     *)

Busy(d) == \E p \in Tasks : p[1] = d /\ pc[p] # "idle"

Edit(d) ==
    LET new == Len(lineage) + 1 IN
    /\ used.changes < MaxChanges /\ new <= MaxTexts
    /\ local' = [local EXCEPT ![d] = new]
    /\ lineage' = Append(lineage, Lineage(local[d]) \cup {new})
    /\ hasty' = IF Busy(d) THEN hasty \cup {new} ELSE hasty
    /\ used' = [used EXCEPT !.changes = @ + 1]
    /\ UNCHANGED <<base, kept, trash, conflict, store, pc, job, setting, discarded, mistaken>>

Delete(d) ==
    /\ used.changes < MaxChanges /\ used.deletes < MaxDeletes /\ local[d] # 0
    /\ local' = [local EXCEPT ![d] = 0]
    /\ discarded' = discarded \cup Lineage(local[d])
    /\ used' = [used EXCEPT !.changes = @ + 1, !.deletes = @ + 1]
    /\ UNCHANGED <<base, kept, trash, conflict, store, pc, job, setting, lineage, hasty, mistaken>>

Requests == {"list", "upload", "recheck", "swap", "verify", "entry", "untomb",
             "delete_remote", "tombstone", "erase", "eraseEntry", "download",
             "acknowledge", "mergeFetch", "copy", "copyBoth"}

Spend == used.faults < MaxFaults /\ used' = [used EXCEPT !.faults = @ + 1]

(* A request fails; a request that was carried out and whose answer is     *)
(* lost is a failure at the next one.                                      *)
RequestFails(p) ==
    /\ pc[p] \in Requests
    /\ Spend
    /\ Fail(p)
    /\ UNCHANGED <<device, store, setting, lineage, discarded, hasty, mistaken>>

(* A failed replacement moves the old file back to its place.              *)
PlaceFails(p) ==
    /\ pc[p] = "place"
    /\ Spend
    /\ IF data = None
       THEN /\ data' = [text |-> job[p].ancestor, etag |-> FreshEtag]
            /\ backups' = backups \ {job[p].ancestor}
       ELSE UNCHANGED <<data, backups>>
    /\ Fail(p)
    /\ UNCHANGED <<device, meta, tomb, setting, lineage, discarded, hasty, mistaken>>

Crash(d) ==
    /\ Busy(d)
    /\ Spend
    /\ pc' = [p \in Tasks |-> IF p[1] = d THEN "idle" ELSE pc[p]]
    /\ job' = [p \in Tasks |-> IF p[1] = d THEN NoJob ELSE job[p]]
    /\ UNCHANGED <<device, store, setting, lineage, discarded, hasty, mistaken>>

----------------------------------------------------------------------------
Choices == {"use_local", "use_remote", "keep_both"}

Step(p) ==
    \/ Plan(p) \/ Baseline(p) \/ DeleteLocal(p) \/ Acknowledge(p)
    \/ Stage(p) \/ Recheck(p) \/ Swap(p) \/ Rotate(p) \/ Place(p)
    \/ Verify(p) \/ PutEntry(p) \/ DropTombstone(p) \/ Settle(p)
    \/ MarkRemoval(p) \/ PutTombstone(p) \/ Erase(p) \/ EraseEntry(p) \/ Forget(p)
    \/ Fetch(p) \/ ReplaceLocal(p) \/ Keep(p)
    \/ Conflict(p) \/ Merge(p) \/ MergeFetch(p) \/ MergePut(p) \/ Unmerged(p)
    \/ CopyRemote(p) \/ Record(p)
    \/ CopyBoth(p) \/ Close(p)

Others ==
    \/ \E d \in Devices : StartRun(d) \/ Edit(d) \/ Delete(d) \/ Crash(d)
    \/ \E p \in Tasks : Step(p) \/ RequestFails(p) \/ PlaceFails(p)
Decision == \E d \in Devices, choice \in Choices : Resolve(d, choice)

Next == Others \/ (used.choices < MaxChoices /\ Decision)

Spec == Init /\ [][Next]_vars

(* Requests are answered or fail, the timer starts runs again, and a user  *)
(* decides on a conflict that stays, in favour of the local text.          *)
Fairness ==
    /\ \A p \in Tasks : SF_vars(Step(p))
    /\ \A d \in Devices : WF_vars(StartRun(d)) /\ WF_vars(Resolve(d, "use_local"))

(* Users edit and decide only while their device is at rest.               *)
Orderly == hasty = {} /\ \A d \in Devices : \E task \in {"run", "resolve"} : pc[<<d, task>>] = "idle"
OrderlySpec == Init /\ [][(Others \/ Decision) /\ Orderly']_vars /\ Fairness

----------------------------------------------------------------------------
(* Types; the text in any place is one that was written.                   *)
Written == 0 .. Len(lineage)
Labels == {"idle", "list", "baseline", "upload", "delete_remote", "download", "delete_local",
           "conflict", "acknowledge", "recheck", "swap", "place", "verify", "entry", "untomb",
           "settle", "tombstone", "erase", "eraseEntry", "forget", "replace", "keep", "merge",
           "mergeFetch", "mergePut", "unmerged", "copy", "copyBoth", "record", "close"}
TypeOK ==
    /\ setting \in Settings
    /\ lineage \in Seq(SUBSET Texts) /\ Len(lineage) <= MaxTexts
    /\ local \in [Devices -> Written] /\ base \in [Devices -> Written]
    /\ kept \in [Devices -> [Texts -> Written]]
    /\ trash \in [Devices -> SUBSET Texts]
    /\ conflict \in [Devices -> BOOLEAN]
    /\ {data, meta} \subseteq [text : Written, etag : Nat]
    /\ tomb \in [there : BOOLEAN, newer : BOOLEAN]
    /\ pc \in [Tasks -> Labels]
    /\ job \in [Tasks -> [mine : Written, baseline : Written, text : Written, stage : Written,
                          ancestor : Written, mark : Nat, why : {"plan", "merge", "choice"},
                          choice : Choices \cup {"none"},
                          remote : [version : (Written \cup {MaxTexts + 1}) \X BOOLEAN,
                                    etag : Nat, tombed : BOOLEAN]]]
    /\ backups \cup discarded \cup hasty \cup mistaken \subseteq Written
    /\ used \in [changes : Nat, deletes : Nat, choices : Nat, faults : Nat]

Held == {local[d] : d \in Devices} \cup (UNION {trash[d] : d \in Devices})
            \cup {data.text} \cup backups

(* What a user wrote is not lost by synchronising, whatever devices do at  *)
(* the same time and whichever request fails: it, or a text built on it,   *)
(* is still a file of a device, in a recycle bin or conflict copy, in the  *)
(* store or in a backup there. Not so for what its user deleted, what was  *)
(* given up in resolving a conflict, what was typed while the device       *)
(* synchronised, and what the store had when a run took it for something   *)
(* else (the conditional requests of remote-repository.mjs 129-172 and     *)
(* 187-199; sync-engine.mjs 191-199, 217-242).                             *)
TextsSurvive ==
    \A t \in 1 .. Len(lineage) :
        t \in lineage[t] =>
            t \in discarded \cup hasty \cup mistaken \/ \E u \in Held \ {0} : t \in lineage[u]

InStep == \A d \in Devices : local[d] = data.text /\ ~ conflict[d]

(* "坚果云直连是最终一致同步" (src/app.js 8083): when changes stop, all the  *)
(* devices and the store end with one text and no open conflict            *)
(* (sync-engine.mjs 270-379).                                              *)
EventuallyConsistent == <>[]InStep
=============================================================================
