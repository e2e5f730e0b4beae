------------------------ MODULE NutstoreSyncProofs ------------------------
(***************************************************************************)
(* NutstoreSync for every finite set of devices, every kind of store and   *)
(* file, and every number of texts, edits, choices and faults: its types,  *)
(* and TextsSurvive.                                                       *)
(*                                                                         *)
(* The argument follows the texts a file stands for, its lineage. A file   *)
(* may be replaced or removed when all it stands for is in what replaces   *)
(* it, or stored elsewhere. That is known where the step is taken only     *)
(* because of what earlier steps found: a run that uploads has seen that   *)
(* the store held its baseline, which its file is built on; the ETag it    *)
(* remembers says that the store still holds it; a baseline is stored and  *)
(* covered by the device's file, whatever its user has done since. The     *)
(* invariant says what each task knows at each of its labels (TaskKnown),  *)
(* and which part of it nobody else can spoil (Lasting), which is kept by  *)
(* holding the device's state (Holding, OneHolder), and which a task needs *)
(* of a sibling that replaces the file under its hands (Later, Beside).    *)
(***************************************************************************)
EXTENDS NutstoreSync, FiniteSetTheorems, TLAPS

----------------------------------------------------------------------------
(* Types: tasks, texts, devices, store                                     *)

(* What a program counter may be with which locals.                        *)
Uploads == {"upload", "recheck", "swap", "place", "verify", "entry", "untomb", "settle"}
Merges == {"mergeFetch", "mergePut"}
Removals == {"delete_remote", "tombstone", "erase"}
AtResolve == Uploads \cup Removals \cup {"idle", "eraseEntry", "forget", "download", "replace", "keep",
                                         "delete_local", "copyBoth", "close"}

(* The versions a listing can show when n texts have been written, and the *)
(* locals a task can have then.                                            *)
Versions(n) == {FileVersion(t) : t \in 0 .. n} \cup {Deleted}
Jobs(n) == [mine : 0 .. n, baseline : 0 .. n, text : 0 .. n, stage : 0 .. n,
            ancestor : 0 .. n, mark : Nat, why : {"plan", "merge", "choice"},
            choice : Choices \cup {"none"},
            remote : [version : Versions(n), etag : Nat, tombed : BOOLEAN]]

(* The listing showed a file; the text of that file.                       *)
Listed(j) == j.remote.version[2]
Remote(j) == IF Listed(j) THEN j.remote.version[1] ELSE 0

(* Which labels go with which kind of task: a run plans and merges, a      *)
(* resolution works for a user's choice, and a task at rest has no locals. *)
Placed(p, l, j) ==
  /\ l = "idle" => j = NoJob
  /\ l # "idle" => IF p[2] = "resolve" THEN l \in AtResolve /\ j.why = "choice"
                                       ELSE l \notin {"copyBoth", "close"} /\ j.why # "choice"
  /\ j.why = "merge" => l \in Merges \cup Uploads \cup {"unmerged"}
  /\ l \in Merges => j.why = "merge"

(* What a task must have found by the time it is at a label: a download a  *)
(* listed file, a replacement its staging file, a conditional request the  *)
(* ETag it was planned with.                                               *)
Armed(s, l, j) ==
  /\ l \in {"download", "replace", "keep", "merge", "copy", "copyBoth"} \/ j.why = "merge" => Listed(j)
  /\ l \in {"recheck", "swap", "place"} => j.stage # 0
  /\ l = "place" => j.ancestor # 0 /\ s = {}
  /\ l = "mergeFetch" => j.text # 0
  /\ l = "swap" => j.mark = 0 \/ (Listed(j) /\ j.mark = j.remote.etag)
  /\ l \in Removals /\ j.why # "choice" => Listed(j)
  /\ l \in {"tombstone", "erase"} /\ j.why # "choice" => j.mark # 0 /\ j.mark = j.remote.etag /\ "ifMatch" \in s
Shaped(s, p, l, j) == Placed(p, l, j) /\ Armed(s, l, j)

(* The parts of the type invariant. Unlike TypeOK they also say that texts *)
(* are built on texts written before, that the store has no file of no     *)
(* text, and that every task is Shaped.                                    *)
TextsTyped ==
  /\ lineage \in Seq(SUBSET Texts) /\ Len(lineage) <= MaxTexts
  /\ \A t \in 1 .. Len(lineage) : lineage[t] \subseteq 1 .. Len(lineage)
DevicesTyped ==
  /\ local \in [Devices -> Written] /\ base \in [Devices -> Written]
  /\ kept \in [Devices -> [Texts -> Written]]
  /\ trash \in [Devices -> SUBSET (1 .. Len(lineage))]
  /\ conflict \in [Devices -> BOOLEAN]
StoreTyped ==
  /\ setting \in Settings
  /\ data = None \/ data \in [text : 1 .. Len(lineage), etag : Nat \ {0}]
  /\ meta \in [text : Written, etag : Nat]
  /\ tomb \in [there : BOOLEAN, newer : BOOLEAN]
  /\ backups \subseteq 1 .. Len(lineage)
StoryTyped ==
  /\ discarded \subseteq Written /\ hasty \subseteq Written /\ mistaken \subseteq Written
  /\ used \in [changes : Nat, deletes : Nat, choices : Nat, faults : Nat]
TasksTyped ==
  /\ pc \in [Tasks -> Labels] /\ job \in [Tasks -> Jobs(Len(lineage))]
  /\ \A p \in Tasks : Shaped(setting.store, p, pc[p], job[p])
Typed == TextsTyped /\ DevicesTyped /\ StoreTyped /\ StoryTyped /\ TasksTyped

(* A step of one task leaves the others alone.                             *)
Moves(p, l, j) == pc' = [pc EXCEPT ![p] = l] /\ job' = [job EXCEPT ![p] = j]

LEMMA Bounds == MaxTexts \in Nat /\ MaxChanges \in Nat /\ MaxDeletes \in Nat /\ MaxChoices \in Nat /\ MaxFaults \in Nat
  BY SyncAssumption

LEMMA LengthTyped == ASSUME TextsTyped PROVE Len(lineage) \in 0 .. MaxTexts
  BY Bounds DEF TextsTyped

LEMMA VersionFacts ==
  ASSUME NEW n \in Nat, NEW v \in Versions(n)
  PROVE  /\ v[2] \in BOOLEAN
         /\ v[2] => v[1] \in 1 .. n
         /\ ~ v[2] => v \in {FileVersion(0), Deleted}
  <1>1. CASE v = Deleted  BY <1>1 DEF Deleted
  <1>2. ASSUME NEW t \in 0 .. n, v = FileVersion(t) PROVE v[1] = t /\ v[2] \in BOOLEAN /\ (v[2] <=> t # 0) /\ (t = 0 => v = FileVersion(0))
    BY <1>2 DEF FileVersion
  <1>3. CASE v # Deleted
    <2>1. PICK t \in 0 .. n : v = FileVersion(t)  BY <1>3 DEF Versions
    <2>2. v[1] = t /\ v[2] \in BOOLEAN /\ (v[2] <=> t # 0) /\ (t = 0 => v = FileVersion(0))  BY <1>2, <2>1
    <2> QED  BY <2>2
  <1> QED  BY <1>1, <1>3

LEMMA FileVersionTyped ==
  ASSUME NEW n \in Nat, NEW t \in 0 .. n
  PROVE  FileVersion(t) \in Versions(n) /\ FileVersion(t)[1] = t /\ (FileVersion(t)[2] <=> t # 0)
  BY DEF Versions, FileVersion

LEMMA VersionsGrow == ASSUME NEW n \in Nat, NEW m \in Nat, n <= m PROVE Versions(n) \subseteq Versions(m)
  BY DEF Versions

LEMMA JobsGrow == ASSUME NEW n \in Nat, NEW m \in Nat, n <= m PROVE Jobs(n) \subseteq Jobs(m)
  BY VersionsGrow DEF Jobs

LEMMA NoJobTyped == ASSUME NEW n \in Nat PROVE NoJob \in Jobs(n)
  <1>1. <<0, FALSE>> \in Versions(n)
    <2>1. (0 # 0) = FALSE  OBVIOUS
    <2>2. FileVersion(0) = <<0, FALSE>>  BY <2>1, Zenon DEF FileVersion
    <2>3. 0 \in 0 .. n  OBVIOUS
    <2> QED  BY <2>2, <2>3 DEF Versions
  <1> QED  BY <1>1 DEF Jobs, NoJob, NoRemote, Choices

LEMMA NoJobPlaced == ASSUME NEW p \in Tasks, NEW s PROVE Shaped(s, p, "idle", NoJob)
  BY DEF Shaped, Placed, Armed, NoJob, NoRemote, Merges, Removals

LEMMA ListingTyped ==
  ASSUME Typed
  PROVE  /\ Listing \in [version : Versions(Len(lineage)), etag : Nat, tombed : BOOLEAN]
         /\ Listing.version[2] => Listing.version[1] = meta.text /\ meta.text # 0 /\ Listing.etag = meta.etag
  <1>1. Len(lineage) \in Nat  BY LengthTyped, Bounds DEF Typed
  <1>2. FileVersion(meta.text) \in Versions(Len(lineage))  BY <1>1 DEF Typed, StoreTyped, Versions, Written
  <1>3. Deleted \in Versions(Len(lineage))  BY DEF Versions
  <1> QED  BY <1>2, <1>3 DEF Typed, StoreTyped, Listing, FileVersion, Deleted

(* There is always an ETag nobody remembers, and FreshEtag is one: the     *)
(* devices, and so the ETags in use, are finitely many.                    *)
LEMMA EtagFresh ==
  ASSUME Typed
  PROVE  /\ FreshEtag \in Nat \ {0}
         /\ FreshEtag \notin {data.etag, meta.etag}
         /\ \A p \in Tasks : FreshEtag # job[p].mark /\ FreshEtag # job[p].remote.etag
  <1> DEFINE marks == {job[p].mark : p \in Tasks}
             remotes == {job[p].remote.etag : p \in Tasks}
             known == {data.etag, meta.etag} \cup marks \cup remotes
             n == Cardinality(known)
  <1>1. IsFiniteSet(Tasks)
    <2>1. IsFiniteSet({"run", "resolve"})
      <3>1. IsFiniteSet({"run"}) /\ IsFiniteSet({"resolve"})  BY FS_Singleton
      <3>2. IsFiniteSet({"run"} \cup {"resolve"})  BY <3>1, FS_Union
      <3>3. {"run", "resolve"} = {"run"} \cup {"resolve"}  OBVIOUS
      <3> QED  BY <3>2, <3>3
    <2> QED  BY <2>1, FS_Product, SyncAssumption DEF Tasks
  <1>2. IsFiniteSet(marks) /\ IsFiniteSet(remotes)
    <2>1. [p \in Tasks |-> job[p].mark] \in Surjection(Tasks, marks)  BY DEF Surjection
    <2>2. [p \in Tasks |-> job[p].remote.etag] \in Surjection(Tasks, remotes)  BY DEF Surjection
    <2> HIDE DEF marks, remotes
    <2>3. IsFiniteSet(marks)  BY <1>1, <2>1, FS_Surjection
    <2>4. IsFiniteSet(remotes)  BY <1>1, <2>2, FS_Surjection
    <2> QED  BY <2>3, <2>4
  <1>3. IsFiniteSet({data.etag, meta.etag})
    <2>1. IsFiniteSet({data.etag}) /\ IsFiniteSet({meta.etag})  BY FS_Singleton
    <2>2. IsFiniteSet({data.etag} \cup {meta.etag})  BY <2>1, FS_Union
    <2>3. {data.etag, meta.etag} = {data.etag} \cup {meta.etag}  OBVIOUS
    <2> QED  BY <2>2, <2>3
  <1>4. IsFiniteSet(known)  BY <1>2, <1>3, FS_Union
  <1> HIDE DEF known
  <1>5. n \in Nat  BY <1>4, FS_CardinalityType
  <1>6. \E e \in 1 .. n + 1 : e \notin known
    <2> SUFFICES ASSUME 1 .. n + 1 \subseteq known PROVE FALSE  OBVIOUS
    <2>1. IsFiniteSet(1 .. n + 1) /\ Cardinality(1 .. n + 1) = n + 1  BY <1>5, FS_Interval
    <2>2. Cardinality(1 .. n + 1) <= Cardinality(known)  BY <1>4, FS_Subset
    <2> QED  BY <1>5, <2>1, <2>2
  <1>7. FreshEtag \in 1 .. n + 1 /\ FreshEtag \notin known  BY <1>6 DEF FreshEtag, known
  <1> QED  BY <1>5, <1>7 DEF known

----------------------------------------------------------------------------
(* The steps of a task                                                     *)

(* A task goes on to a label it may be at, or it rests: it ends, or its    *)
(* merge ends, or it goes on to record a conflict or to close one.         *)
Turn(p, l, j) ==
  /\ Moves(p, l, j) /\ l \in Labels /\ j \in Jobs(Len(lineage')) /\ Shaped(setting.store, p, l, j)
Rests(p) ==
  \/ Moves(p, "idle", NoJob)
  \/ \E l \in {"unmerged", "record", "close"} :
       /\ Moves(p, l, job[p])
       /\ l = "unmerged" => job[p].why # "choice"
       /\ l = "record" => job[p].why = "plan"
       /\ l = "close" => job[p].why = "choice"

(* A task that goes on properly, or rests, keeps the tasks typed.          *)
LEMMA TurnTyped ==
  ASSUME TasksTyped, NEW p \in Tasks, NEW l, NEW j, Turn(p, l, j), UNCHANGED setting,
         Len(lineage) \in Nat, Len(lineage') \in Nat, Len(lineage) <= Len(lineage')
  PROVE  TasksTyped'
  <1>1. Jobs(Len(lineage)) \subseteq Jobs(Len(lineage'))  BY JobsGrow
  <1>2. pc' \in [Tasks -> Labels]  BY DEF Turn, Moves, TasksTyped
  <1>3. job' \in [Tasks -> Jobs(Len(lineage'))]
    <2>1. job \in [Tasks -> Jobs(Len(lineage'))]  BY <1>1 DEF TasksTyped
    <2> QED  BY <2>1 DEF Turn, Moves
  <1>4. ASSUME NEW q \in Tasks PROVE Shaped(setting.store, q, pc'[q], job'[q])
    <2>1. CASE q = p
      <3>1. pc'[q] = l /\ job'[q] = j  BY <2>1 DEF Turn, Moves, TasksTyped
      <3> QED  BY <2>1, <3>1 DEF Turn
    <2>2. CASE q # p
      <3>1. pc'[q] = pc[q] /\ job'[q] = job[q]  BY <2>2 DEF Turn, Moves, TasksTyped
      <3> QED  BY <3>1 DEF TasksTyped
    <2> QED  BY <2>1, <2>2
  <1> QED  BY <1>2, <1>3, <1>4 DEF TasksTyped

LEMMA RestsTurn ==
  ASSUME Typed, NEW p \in Tasks, pc[p] # "idle", Rests(p), UNCHANGED lineage
  PROVE  \E l, j : Turn(p, l, j)
  <1>1. Len(lineage) \in Nat  BY LengthTyped, Bounds DEF Typed
  <1>2. CASE Moves(p, "idle", NoJob)
    <2>1. NoJob \in Jobs(Len(lineage))  BY <1>1, NoJobTyped
    <2>2. Shaped(setting.store, p, "idle", NoJob)  BY NoJobPlaced
    <2> QED  BY <1>2, <2>1, <2>2 DEF Turn, Labels
  <1>3. ASSUME NEW l \in {"unmerged", "record", "close"}, Moves(p, l, job[p]),
               l = "unmerged" => job[p].why # "choice",
               l = "record" => job[p].why = "plan",
               l = "close" => job[p].why = "choice"
        PROVE  \E k, j : Turn(p, k, j)
    <2>1. job[p] \in Jobs(Len(lineage)) /\ Shaped(setting.store, p, pc[p], job[p])  BY DEF Typed, TasksTyped
    <2>2. Placed(p, l, job[p])
      BY <1>3, <2>1 DEF Shaped, Placed, AtResolve, Uploads, Merges, Removals, Tasks
    <2>3. Armed(setting.store, l, job[p])  BY <1>3, <2>1 DEF Shaped, Armed, Merges, Removals
    <2>4. l \in Labels  BY DEF Labels
    <2> QED  BY <1>3, <2>1, <2>2, <2>3, <2>4 DEF Turn, Shaped
  <1> QED  BY <1>2, <1>3 DEF Rests

LEMMA JobsSame == ASSUME TasksTyped, NEW p \in Tasks PROVE job = [job EXCEPT ![p] = job[p]]
  BY DEF TasksTyped

LEMMA EndRests == ASSUME NEW p \in Tasks, End(p) PROVE Rests(p)
  BY DEF End, Goto, Rests, Moves

LEMMA FailRests == ASSUME Typed, NEW p \in Tasks, Fail(p) PROVE Rests(p)
  <1>1. job = [job EXCEPT ![p] = job[p]]  BY JobsSame DEF Typed
  <1>2. CASE job[p].why = "merge"
    <2>1. Moves(p, "unmerged", job[p])  BY <1>1, <1>2 DEF Fail, Goto, Moves
    <2> QED  BY <1>2, <2>1 DEF Rests
  <1>3. CASE job[p].why # "merge"  BY <1>3, EndRests DEF Fail
  <1> QED  BY <1>2, <1>3

LEMMA ChangedRests == ASSUME Typed, NEW p \in Tasks, Changed(p) PROVE Rests(p)
  <1>1. job = [job EXCEPT ![p] = job[p]]  BY JobsSame DEF Typed
  <1>2. CASE job[p].why = "plan"
    <2>1. Moves(p, "record", job[p])  BY <1>1, <1>2 DEF Changed, Goto, Moves
    <2> QED  BY <1>2, <2>1 DEF Rests
  <1>3. CASE job[p].why # "plan"  BY <1>3, FailRests DEF Changed
  <1> QED  BY <1>2, <1>3

LEMMA DoneRests == ASSUME Typed, NEW p \in Tasks, Done(p) PROVE Rests(p)
  <1>1. job = [job EXCEPT ![p] = job[p]]  BY JobsSame DEF Typed
  <1>2. CASE job[p].why = "choice"
    <2>1. Moves(p, "close", job[p])  BY <1>1, <1>2 DEF Done, Goto, Moves
    <2> QED  BY <1>2, <2>1 DEF Rests
  <1>3. CASE job[p].why = "merge"
    <2>1. Moves(p, "unmerged", job[p])  BY <1>1, <1>3 DEF Done, Goto, Moves
    <2> QED  BY <1>3, <2>1 DEF Rests
  <1>4. CASE job[p].why \notin {"choice", "merge"}
    <2>1. End(p)  BY <1>4 DEF Done
    <2> QED  BY <2>1, EndRests
  <1> QED  BY <1>2, <1>3, <1>4

----------------------------------------------------------------------------
(* Where the actions take their tasks                                      *)

LEMMA TaskFacts ==
  ASSUME Typed, NEW p \in Tasks
  PROVE  /\ Len(lineage) \in Nat /\ 0 \in 0 .. Len(lineage)
         /\ p[1] \in Devices /\ p[2] \in {"run", "resolve"}
         /\ job[p] \in Jobs(Len(lineage)) /\ Shaped(setting.store, p, pc[p], job[p])
         /\ local[p[1]] \in 0 .. Len(lineage) /\ base[p[1]] \in 0 .. Len(lineage)
  <1>1. Len(lineage) \in Nat  BY LengthTyped, Bounds DEF Typed
  <1> QED  BY <1>1 DEF Typed, TasksTyped, DevicesTyped, Written, Tasks

LEMMA CompareFacts ==
  ASSUME NEW n \in Nat, NEW b \in 0 .. n, NEW m \in 0 .. n, NEW r \in Versions(n),
         NEW l, l = Compare(FileVersion(b), FileVersion(m), r)
  PROVE  /\ l \in {"baseline", "upload", "delete_remote", "download", "delete_local", "conflict"}
         /\ l = "baseline" => m = 0 \/ (r[2] /\ r[1] = m)
         /\ l \in {"upload", "delete_remote"} /\ r[2] => r[1] = b
         /\ l = "delete_remote" => m = 0 /\ r[2]
         /\ l = "download" => m = b /\ r[2]
  <1>1. FileVersion(b)[1] = b /\ FileVersion(m)[1] = m /\ (FileVersion(m)[2] <=> m # 0)  BY FileVersionTyped
  <1>2. r = FileVersion(b) \/ r # FileVersion(b)  OBVIOUS
  <1>3. r[2] \in BOOLEAN /\ (~ r[2] => r \in {FileVersion(0), Deleted})  BY VersionFacts
  <1>4. m = 0 => FileVersion(m) = FileVersion(0)  OBVIOUS
  <1>5. Deleted # FileVersion(b) 
    <2>1. Deleted[1] = MaxTexts + 1 /\ Deleted[2] = FALSE  BY DEF Deleted
    <2>2. FileVersion(b)[2] <=> b # 0  BY FileVersionTyped
    <2> QED  BY <2>1, <2>2, <1>1, Bounds
  <1>6. FileVersion(m) = FileVersion(b) => m = b  BY <1>1
  <1> HIDE DEF FileVersion, Deleted
  <1>7. CASE FileVersion(m) = r
    <2>1. l = "baseline"  BY <1>7 DEF Compare
    <2>2. r[1] = m /\ (r[2] <=> m # 0)  BY <1>1, <1>7
    <2> QED  BY <2>1, <2>2
  <1>8. CASE FileVersion(m) # r /\ r = FileVersion(b)
    <2>1. l = IF FileVersion(m)[2] THEN "upload" ELSE "delete_remote"  BY <1>8 DEF Compare
    <2>2. r[1] = b  BY <1>1, <1>8
    <2>3. m = 0 => r[2]  BY <1>3, <1>4, <1>5, <1>8
    <2> QED  BY <2>1, <2>2, <2>3, <1>1
  <1>9. CASE FileVersion(m) # r /\ r # FileVersion(b) /\ FileVersion(m) = FileVersion(b)
    <2>1. l = IF r[2] THEN "download" ELSE "delete_local"  BY <1>9 DEF Compare
    <2> QED  BY <2>1, <1>3, <1>6, <1>9
  <1>10. CASE FileVersion(m) # r /\ r # FileVersion(b) /\ FileVersion(m) # FileVersion(b)
    <2>1. l = IF ~ FileVersion(m)[2] /\ ~ r[2] THEN "baseline" ELSE "conflict"  BY <1>10 DEF Compare
    <2> QED  BY <2>1, <1>1, <1>3
  <1> QED  BY <1>7, <1>8, <1>9, <1>10

(* Where each action takes its task.                                       *)
LEMMA StartTurn ==
  ASSUME Typed, NEW d \in Devices, StartRun(d)
  PROVE  \E j : /\ Turn(<<d, "run">>, "list", j) /\ pc[<<d, "run">>] = "idle"
                /\ j = [job[<<d, "run">>] EXCEPT !.mine = local[d]]
  <1> DEFINE p == <<d, "run">>
             j == [job[p] EXCEPT !.mine = local[d]]
  <1>1. p \in Tasks /\ p[1] = d /\ p[2] = "run"  BY DEF Tasks
  <1> HIDE DEF p
  <1>2. job[p] \in Jobs(Len(lineage)) /\ Shaped(setting.store, p, pc[p], job[p]) /\ local[d] \in 0 .. Len(lineage)
    BY <1>1, TaskFacts
  <1>3. j \in Jobs(Len(lineage)) /\ j.why = job[p].why  BY <1>2 DEF Jobs
  <1>4. pc[p] = "idle" /\ lineage' = lineage /\ Moves(p, "list", j)
    BY DEF StartRun, Goto, Moves, p, story
  <1>5. job[p] = NoJob  BY <1>2, <1>4 DEF Shaped, Placed
  <1>6. Shaped(setting.store, p, "list", j)
    BY <1>1, <1>3, <1>5 DEF Shaped, Placed, Armed, NoJob, Merges, Removals
  <1>7. Turn(p, "list", j)  BY <1>3, <1>4, <1>6 DEF Turn, Labels
  <1> QED  BY <1>4, <1>7 DEF p

LEMMA PlanTurn ==
  ASSUME Typed, NEW p \in Tasks, Plan(p)
  PROVE  \E l, j : /\ Turn(p, l, j) /\ pc[p] = "list"
                   /\ l = Compare(FileVersion(base[p[1]]), FileVersion(job[p].mine), Listing.version)
                   /\ j = [job[p] EXCEPT !.baseline = base[p[1]], !.remote = Listing, !.text = job[p].mine]
  <1> DEFINE n == Len(lineage)
             l == Compare(FileVersion(base[p[1]]), FileVersion(job[p].mine), Listing.version)
             j == [job[p] EXCEPT !.baseline = base[p[1]], !.remote = Listing, !.text = job[p].mine]
  <1>1. n \in Nat /\ job[p] \in Jobs(n) /\ Shaped(setting.store, p, pc[p], job[p]) /\ base[p[1]] \in 0 .. n
    BY TaskFacts
  <1>2. Listing \in [version : Versions(n), etag : Nat, tombed : BOOLEAN]  BY ListingTyped
  <1>3. j \in Jobs(n) /\ j.why = job[p].why /\ j.remote = Listing  BY <1>1, <1>2 DEF Jobs
  <1>4. pc[p] = "list" /\ lineage' = lineage /\ Moves(p, l, j)  BY DEF Plan, Goto, Moves, story
  <1>5. job[p].mine \in 0 .. n /\ Listing.version \in Versions(n)  BY <1>1, <1>2 DEF Jobs
  <1>6. /\ l \in {"baseline", "upload", "delete_remote", "download", "delete_local", "conflict"}
        /\ l \in {"delete_remote", "download"} => Listing.version[2]
    BY <1>1, <1>5, CompareFacts
  <1> HIDE DEF l, j
  <1>7. p[2] = "run" /\ j.why = "plan"
    BY <1>1, <1>3, <1>4, TaskFacts DEF Shaped, Placed, AtResolve, Uploads, Merges, Removals, Jobs
  <1>8. Placed(p, l, j)  BY <1>6, <1>7 DEF Placed, Merges
  <1>9. Armed(setting.store, l, j)  BY <1>3, <1>6, <1>7 DEF Armed, Removals, Listed
  <1>10. Turn(p, l, j)  BY <1>3, <1>4, <1>6, <1>8, <1>9 DEF Turn, Labels, Shaped
  <1> QED  BY <1>4, <1>10 DEF l, j

(* A task that goes on with what it has.                                   *)
Onward(l, k, j) ==
  \/ <<l, k>> \in {<<"untomb", "settle">>, <<"tombstone", "erase">>, <<"erase", "eraseEntry">>,
                   <<"eraseEntry", "forget">>, <<"download", "replace">>, <<"replace", "keep">>}
  \/ l = "conflict" /\ k \in {"merge", "copy"} /\ Listed(j)
  \/ l = "delete_local" /\ k = "acknowledge" /\ j.why # "choice"

LEMMA OnwardTurn ==
  ASSUME Typed, NEW p \in Tasks, NEW l, Moves(p, l, job[p]), UNCHANGED lineage, Onward(pc[p], l, job[p])
  PROVE  Turn(p, l, job[p])
  <1>1. job[p] \in Jobs(Len(lineage)) /\ Shaped(setting.store, p, pc[p], job[p])  BY TaskFacts
  <1>2. l \in Labels  BY DEF Onward, Labels
  <1>3. Placed(p, l, job[p])
    BY <1>1 DEF Onward, Shaped, Placed, AtResolve, Uploads, Merges, Removals
  <1>4. Armed(setting.store, l, job[p])  BY <1>1 DEF Onward, Shaped, Armed, Removals
  <1> QED  BY <1>1, <1>2, <1>3, <1>4 DEF Turn, Shaped

LEMMA StageTurn ==
  ASSUME Typed, NEW p \in Tasks, Stage(p)
  PROVE  \/ Rests(p)
         \/ \E j : Turn(p, "recheck", j) /\ SnapshotHolds(p) /\ j = [job[p] EXCEPT !.stage = local[p[1]]]
  <1> DEFINE j == [job[p] EXCEPT !.stage = local[p[1]]]
  <1>1. CASE Changed(p) \/ Fail(p)  BY <1>1, ChangedRests, FailRests
  <1>2. CASE SnapshotHolds(p) /\ local[p[1]] # 0 /\ ~ Fail(p)
    <2>1. job[p] \in Jobs(Len(lineage)) /\ Shaped(setting.store, p, pc[p], job[p]) /\ local[p[1]] \in 0 .. Len(lineage)
      BY TaskFacts
    <2>2. /\ j \in Jobs(Len(lineage)) /\ j.why = job[p].why /\ j.stage # 0
          /\ j.remote = job[p].remote /\ j.text = job[p].text
      BY <1>2, <2>1 DEF Jobs
    <2>3. pc[p] = "upload" /\ lineage' = lineage /\ Moves(p, "recheck", j)
      BY <1>2 DEF Stage, Goto, Moves, story
    <2>4. Shaped(setting.store, p, "recheck", j)
      BY <2>1, <2>2, <2>3 DEF Shaped, Placed, Armed, AtResolve, Uploads, Merges, Removals, Listed
    <2>5. Turn(p, "recheck", j)  BY <2>2, <2>3, <2>4 DEF Turn, Labels
    <2> QED  BY <1>2, <2>5
  <1> QED  BY <1>1, <1>2 DEF Stage

LEMMA DataFacts ==
  ASSUME Typed
  PROVE  /\ data.text \in 0 .. Len(lineage) /\ data.etag \in Nat
         /\ data = None <=> data.etag = 0
         /\ data = None <=> data.text = 0
  <1>1. Len(lineage) \in Nat  BY LengthTyped, Bounds DEF Typed
  <1> QED  BY <1>1 DEF Typed, StoreTyped, None

LEMMA RecheckTurn ==
  ASSUME Typed, NEW p \in Tasks, Recheck(p)
  PROVE  \/ Rests(p)
         \/ \E j : /\ Turn(p, "swap", j) /\ pc[p] = "recheck"
                   /\ j = [job[p] EXCEPT !.mark = data.etag]
  <1> DEFINE j == [job[p] EXCEPT !.mark = data.etag]
  <1>1. CASE Changed(p)  BY <1>1, ChangedRests
  <1>2. CASE SnapshotHolds(p)
    <2>1. job[p] \in Jobs(Len(lineage)) /\ Shaped(setting.store, p, pc[p], job[p])  BY TaskFacts
    <2>2. data.etag \in Nat /\ (data = None <=> data.etag = 0)  BY DataFacts
    <2>3. /\ j \in Jobs(Len(lineage)) /\ j.why = job[p].why /\ j.stage = job[p].stage
          /\ j.remote = job[p].remote /\ j.mark = data.etag
      BY <2>1, <2>2 DEF Jobs
    <2>4. pc[p] = "recheck" /\ lineage' = lineage /\ Moves(p, "swap", j)
      BY <1>2 DEF Recheck, Goto, Moves, story
    <2>5. data.etag = 0 \/ (Listed(j) /\ data.etag = j.remote.etag)
      BY <1>2, <2>2, <2>3 DEF SnapshotHolds, Listed
    <2>6. Shaped(setting.store, p, "swap", j)
      BY <2>1, <2>3, <2>4, <2>5 DEF Shaped, Placed, Armed, AtResolve, Uploads, Merges, Removals, Listed
    <2>7. Turn(p, "swap", j)  BY <2>3, <2>4, <2>6 DEF Turn, Labels
    <2> QED  BY <2>4, <2>7
  <1> QED  BY <1>1, <1>2 DEF Recheck

(* The store has a new file, and the task verifies it.                     *)
Puts(p, text) ==
  /\ text \in 1 .. Len(lineage)
  /\ data' = [text |-> text, etag |-> FreshEtag]
  /\ \E j : Turn(p, "verify", j) /\ j \in {[job[p] EXCEPT !.stage = 0, !.mark = 0],
                                          [job[p] EXCEPT !.stage = 0, !.mark = 0, !.ancestor = 0]}

LEMMA PutsTurn ==
  ASSUME Typed, NEW p \in Tasks, UNCHANGED lineage, pc[p] \in {"swap", "place"},
         NEW j \in {[job[p] EXCEPT !.stage = 0, !.mark = 0], [job[p] EXCEPT !.stage = 0, !.mark = 0, !.ancestor = 0]},
         Moves(p, "verify", j)
  PROVE  Turn(p, "verify", j)
  <1>1. /\ job[p] \in Jobs(Len(lineage)) /\ Shaped(setting.store, p, pc[p], job[p])
        /\ 0 \in 0 .. Len(lineage)
    BY TaskFacts
  <1>2. j \in Jobs(Len(lineage)) /\ j.why = job[p].why /\ j.remote = job[p].remote
    <2>1. CASE j = [job[p] EXCEPT !.stage = 0, !.mark = 0]  BY <1>1, <2>1 DEF Jobs
    <2>2. CASE j = [job[p] EXCEPT !.stage = 0, !.mark = 0, !.ancestor = 0]  BY <1>1, <2>2 DEF Jobs
    <2> QED  BY <2>1, <2>2
  <1>3. Shaped(setting.store, p, "verify", j)
    BY <1>1, <1>2 DEF Shaped, Placed, Armed, AtResolve, Uploads, Merges, Removals, Listed
  <1> QED  BY <1>2, <1>3 DEF Turn, Labels

LEMMA SwapTurn ==
  ASSUME Typed, NEW p \in Tasks, Swap(p)
  PROVE  /\ pc[p] = "swap" /\ (job[p].mark = 0 \/ setting.store # {})
         /\ \/ Rests(p) /\ UNCHANGED <<data, backups, discarded>>
            \/ \E text \in {job[p].stage, local[p[1]]} :
                 /\ Puts(p, text) /\ UNCHANGED backups /\ data.etag = job[p].mark
                 /\ discarded' = IF Confirmed(p) THEN discarded \cup Lineage(data.text) ELSE discarded
  <1> DEFINE free == job[p].mark = 0
             text == IF free \/ Can("conditionalMove") THEN job[p].stage ELSE local[p[1]]
             j == [job[p] EXCEPT !.stage = 0, !.mark = 0]
  <1>1. CASE Fail(p) /\ UNCHANGED <<data, backups, discarded>>  BY <1>1, FailRests DEF Swap
  <1>2. CASE Refused(p)  BY <1>2, ChangedRests DEF Swap, Refused
  <1>3. CASE text # 0 /\ data.etag = job[p].mark /\ Replace(p, text)
    <2>1. job[p] \in Jobs(Len(lineage)) /\ local[p[1]] \in 0 .. Len(lineage)  BY TaskFacts
    <2>2. text \in 1 .. Len(lineage)  BY <1>3, <2>1 DEF Jobs
    <2>3. Moves(p, "verify", j) /\ lineage' = lineage /\ pc[p] = "swap"
      BY <1>3 DEF Swap, Replace, Goto, Moves
    <2>4. Turn(p, "verify", j)  BY <2>3, PutsTurn
    <2>5. Puts(p, text)  BY <1>3, <2>2, <2>4 DEF Puts, Replace
    <2>6. UNCHANGED backups /\ discarded' = IF Confirmed(p) THEN discarded \cup Lineage(data.text) ELSE discarded
      BY <1>3 DEF Replace
    <2>7. text \in {job[p].stage, local[p[1]]}  OBVIOUS
    <2> HIDE DEF text
    <2> QED  BY <1>3, <2>5, <2>6, <2>7 DEF Swap
  <1> QED  BY <1>1, <1>2, <1>3 DEF Swap

LEMMA RotateTurn ==
  ASSUME Typed, NEW p \in Tasks, Rotate(p)
  PROVE  /\ pc[p] = "swap" /\ setting.store = {}
         /\ \/ Rests(p) /\ UNCHANGED <<data, backups, discarded>>
            \/ \E j : /\ Turn(p, "place", j) /\ data # None /\ Confirmed(p)
                      /\ backups' = backups \cup {data.text} /\ data' = None /\ UNCHANGED discarded
                      /\ j = [job[p] EXCEPT !.ancestor = data.text]
  <1> DEFINE j == [job[p] EXCEPT !.ancestor = data.text]
  <1>1. CASE Fail(p) /\ UNCHANGED <<data, backups, discarded>>  BY <1>1, FailRests DEF Rotate
  <1>2. CASE Refused(p)  BY <1>2, ChangedRests DEF Rotate, Refused
  <1>3. CASE /\ Confirmed(p) /\ data # None
             /\ backups' = backups \cup {data.text} /\ data' = None /\ Goto(p, "place")
             /\ job' = [job EXCEPT ![p].ancestor = data.text] /\ UNCHANGED discarded
    <2>1. job[p] \in Jobs(Len(lineage)) /\ Shaped(setting.store, p, pc[p], job[p])  BY TaskFacts
    <2>2. data.text \in 0 .. Len(lineage) /\ data.text # 0  BY <1>3, DataFacts
    <2>3. /\ j \in Jobs(Len(lineage)) /\ j.why = job[p].why /\ j.stage = job[p].stage
          /\ j.remote = job[p].remote /\ j.ancestor # 0
      BY <2>1, <2>2 DEF Jobs
    <2>4. pc[p] = "swap" /\ lineage' = lineage /\ Moves(p, "place", j) /\ setting.store = {}
      BY <1>3 DEF Rotate, Goto, Moves
    <2>5. Shaped(setting.store, p, "place", j)
      BY <2>1, <2>3, <2>4 DEF Shaped, Placed, Armed, AtResolve, Uploads, Merges, Removals, Listed
    <2>6. Turn(p, "place", j)  BY <2>3, <2>4, <2>5 DEF Turn, Labels
    <2> QED  BY <1>3, <2>4, <2>6
  <1> QED  BY <1>1, <1>2, <1>3 DEF Rotate

LEMMA PlaceTurn ==
  ASSUME Typed, NEW p \in Tasks, Place(p)
  PROVE  /\ pc[p] = "place"
         /\ \/ Rests(p) /\ UNCHANGED <<data, backups, discarded>>
            \/ /\ Puts(p, job[p].stage) /\ data = None
               /\ backups' = backups \ {job[p].ancestor}
               /\ discarded' = discarded \cup Lineage(job[p].ancestor)
  <1> DEFINE j == [job[p] EXCEPT !.stage = 0, !.mark = 0, !.ancestor = 0]
  <1>1. CASE Refused(p)  BY <1>1, ChangedRests DEF Place, Refused
  <1>2. CASE /\ data = None /\ data' = [text |-> job[p].stage, etag |-> FreshEtag]
             /\ backups' = backups \ {job[p].ancestor}
             /\ discarded' = discarded \cup Lineage(job[p].ancestor)
             /\ Goto(p, "verify")
             /\ job' = [job EXCEPT ![p].stage = 0, ![p].mark = 0, ![p].ancestor = 0]
    <2>1. job[p] \in Jobs(Len(lineage)) /\ Shaped(setting.store, p, pc[p], job[p])  BY TaskFacts
    <2>2. Moves(p, "verify", j) /\ lineage' = lineage /\ pc[p] = "place"
      BY <1>2 DEF Place, Goto, Moves
    <2>3. Turn(p, "verify", j)  BY <2>2, PutsTurn
    <2>4. job[p].stage \in 1 .. Len(lineage)  BY <2>1, <2>2 DEF Shaped, Armed, Jobs
    <2>5. Puts(p, job[p].stage)  BY <1>2, <2>3, <2>4 DEF Puts
    <2> QED  BY <1>2, <2>2, <2>5
  <1> QED  BY <1>1, <1>2 DEF Place

LEMMA VerifyTurn ==
  ASSUME Typed, NEW p \in Tasks, Verify(p)
  PROVE  \/ Rests(p) /\ UNCHANGED mistaken
         \/ \E j : /\ Turn(p, "entry", j) /\ pc[p] = "verify"
                   /\ j = [job[p] EXCEPT !.mark = data.etag]
                   /\ mistaken' = mistaken \cup (Lineage(data.text) \ Lineage(job[p].text))
  <1> DEFINE j == [job[p] EXCEPT !.mark = data.etag]
  <1>1. CASE Fail(p) /\ UNCHANGED mistaken  BY <1>1, FailRests
  <1>2. CASE /\ Goto(p, "entry") /\ job' = [job EXCEPT ![p].mark = data.etag]
             /\ mistaken' = mistaken \cup (Lineage(data.text) \ Lineage(job[p].text))
    <2>1. job[p] \in Jobs(Len(lineage)) /\ Shaped(setting.store, p, pc[p], job[p])  BY TaskFacts
    <2>2. data.etag \in Nat  BY DataFacts
    <2>3. j \in Jobs(Len(lineage)) /\ j.why = job[p].why /\ j.remote = job[p].remote
      BY <2>1, <2>2 DEF Jobs
    <2>4. pc[p] = "verify" /\ lineage' = lineage /\ Moves(p, "entry", j)
      BY <1>2 DEF Verify, Goto, Moves
    <2>5. Shaped(setting.store, p, "entry", j)
      BY <2>1, <2>3, <2>4 DEF Shaped, Placed, Armed, AtResolve, Uploads, Merges, Removals, Listed
    <2>6. Turn(p, "entry", j)  BY <2>3, <2>4, <2>5 DEF Turn, Labels
    <2> QED  BY <1>2, <2>4, <2>6
  <1> QED  BY <1>1, <1>2 DEF Verify

LEMMA PutEntryTurn ==
  ASSUME Typed, NEW p \in Tasks, PutEntry(p)
  PROVE  /\ \E j : Turn(p, "untomb", j) /\ pc[p] = "entry" /\ j = [job[p] EXCEPT !.mark = 0]
         /\ meta' = [text |-> job[p].text, etag |-> job[p].mark]
         /\ meta' \in [text : Written, etag : Nat] /\ tomb' \in [there : BOOLEAN, newer : BOOLEAN]
  <1> DEFINE j == [job[p] EXCEPT !.mark = 0]
  <1>1. job[p] \in Jobs(Len(lineage)) /\ Shaped(setting.store, p, pc[p], job[p])  BY TaskFacts
  <1>2. j \in Jobs(Len(lineage)) /\ j.why = job[p].why /\ j.remote = job[p].remote  BY <1>1 DEF Jobs
  <1>3. pc[p] = "entry" /\ lineage' = lineage /\ Moves(p, "untomb", j)  BY DEF PutEntry, Goto, Moves, story
  <1>4. Shaped(setting.store, p, "untomb", j)
    BY <1>1, <1>2, <1>3 DEF Shaped, Placed, Armed, AtResolve, Uploads, Merges, Removals, Listed
  <1>5. Turn(p, "untomb", j)  BY <1>2, <1>3, <1>4 DEF Turn, Labels
  <1>6. meta' = [text |-> job[p].text, etag |-> job[p].mark]  BY DEF PutEntry
  <1>7. meta' \in [text : Written, etag : Nat]  BY <1>1, <1>6 DEF Jobs, Written
  <1>8. tomb' \in [there : BOOLEAN, newer : BOOLEAN]
    BY DEF PutEntry, Typed, StoreTyped
  <1> QED  BY <1>3, <1>5, <1>6, <1>7, <1>8

LEMMA MarkTurn ==
  ASSUME Typed, NEW p \in Tasks, MarkRemoval(p)
  PROVE  \/ Rests(p)
         \/ \E j : /\ Turn(p, "tombstone", j) /\ pc[p] = "delete_remote"
                   /\ j = [job[p] EXCEPT !.mark = data.etag]
  <1> DEFINE j == [job[p] EXCEPT !.mark = data.etag]
  <1>1. CASE Changed(p)  BY <1>1, ChangedRests
  <1>2. CASE SnapshotHolds(p) /\ (data = None \/ Can("ifMatch") \/ Confirmed(p)) /\ ~ Changed(p)
    <2>1. job[p] \in Jobs(Len(lineage)) /\ Shaped(setting.store, p, pc[p], job[p])  BY TaskFacts
    <2>2. data.etag \in Nat /\ (data = None <=> data.etag = 0)  BY DataFacts
    <2>3. /\ j \in Jobs(Len(lineage)) /\ j.why = job[p].why
          /\ j.remote = job[p].remote /\ j.mark = data.etag
      BY <2>1, <2>2 DEF Jobs
    <2>4. pc[p] = "delete_remote" /\ lineage' = lineage /\ Moves(p, "tombstone", j)
      BY <1>2 DEF MarkRemoval, Goto, Moves, story
    <2>5. job[p].why # "choice" => Listed(j) /\ data.etag # 0 /\ data.etag = j.remote.etag /\ "ifMatch" \in setting.store
      BY <1>2, <2>1, <2>2, <2>3, <2>4 DEF SnapshotHolds, Listed, Shaped, Armed, Removals, Can, Confirmed
    <2>6. Shaped(setting.store, p, "tombstone", j)
      BY <2>1, <2>3, <2>4, <2>5 DEF Shaped, Placed, Armed, AtResolve, Uploads, Merges, Removals, Listed
    <2>7. Turn(p, "tombstone", j)  BY <2>3, <2>4, <2>6 DEF Turn, Labels
    <2> QED  BY <2>4, <2>7
  <1> QED  BY <1>1, <1>2 DEF MarkRemoval

LEMMA MergeTurn ==
  ASSUME Typed, NEW p \in Tasks, Merge(p)
  PROVE  /\ pc[p] = "merge"
         /\ \/ Rests(p)
            \/ \E j : /\ Turn(p, "mergeFetch", j)
                      /\ base[p[1]] \in Texts /\ StateFree(p)
                      /\ j = [job[p] EXCEPT !.why = "merge", !.text = local[p[1]],
                                            !.ancestor = kept[p[1]][base[p[1]]]]
  <1> DEFINE ancestor == IF base[p[1]] = 0 THEN 0 ELSE kept[p[1]][base[p[1]]]
             j == [job[p] EXCEPT !.why = "merge", !.text = local[p[1]], !.ancestor = ancestor]
  <1>1. /\ job[p] \in Jobs(Len(lineage)) /\ Shaped(setting.store, p, pc[p], job[p]) /\ p[1] \in Devices
        /\ local[p[1]] \in 0 .. Len(lineage) /\ base[p[1]] \in 0 .. Len(lineage) /\ Len(lineage) \in 0 .. MaxTexts
    BY TaskFacts, LengthTyped DEF Typed
  <1>2. pc[p] = "merge"  BY DEF Merge
  <1>3. CASE Goto(p, "unmerged") /\ UNCHANGED job
    <2>1. job = [job EXCEPT ![p] = job[p]]  BY JobsSame DEF Typed
    <2>2. Moves(p, "unmerged", job[p])  BY <1>3, <2>1 DEF Moves, Goto
    <2>3. job[p].why # "choice"  BY <1>1, <1>2, TaskFacts DEF Shaped, Placed, AtResolve, Uploads, Removals
    <2> QED  BY <1>2, <2>2, <2>3 DEF Rests
  <1>4. CASE /\ ancestor # 0 /\ local[p[1]] # 0 /\ Goto(p, "mergeFetch")
             /\ job' = [job EXCEPT ![p].why = "merge", ![p].text = local[p[1]], ![p].ancestor = ancestor]
    <2>1. base[p[1]] \in Texts  BY <1>1, <1>4, Bounds DEF Texts
    <2>2. ancestor = kept[p[1]][base[p[1]]] /\ ancestor \in 0 .. Len(lineage)
      BY <1>1, <1>4, <2>1 DEF Typed, DevicesTyped, Written
    <2> HIDE DEF ancestor
    <2>3. /\ j \in Jobs(Len(lineage)) /\ j.why = "merge" /\ j.remote = job[p].remote /\ j.text # 0
      BY <1>1, <1>4, <2>2 DEF Jobs
    <2>4. lineage' = lineage /\ Moves(p, "mergeFetch", j) /\ StateFree(p)
      BY <1>4 DEF Merge, Goto, Moves, story
    <2>5. Shaped(setting.store, p, "mergeFetch", j)
      BY <1>1, <1>2, <2>3 DEF Shaped, Placed, Armed, AtResolve, Uploads, Merges, Removals, Listed
    <2>6. Turn(p, "mergeFetch", j)  BY <2>3, <2>4, <2>5 DEF Turn, Labels
    <2> QED  BY <1>2, <2>1, <2>2, <2>4, <2>6
  <1> QED  BY <1>2, <1>3, <1>4 DEF Merge

LEMMA MergeFetchTurn ==
  ASSUME Typed, NEW p \in Tasks, MergeFetch(p)
  PROVE  /\ pc[p] = "mergeFetch"
         /\ \/ Rests(p)
            \/ \E j, t : /\ Turn(p, "mergePut", j) /\ data.text = Remote(job[p])
                         /\ j = [job[p] EXCEPT !.text = t]
                         /\ \/ t = Remote(job[p]) /\ job[p].text = job[p].ancestor
                            \/ t = job[p].text /\ Remote(job[p]) \in {job[p].text, job[p].ancestor}
                            \/ t = 0
  <1> DEFINE theirs == job[p].remote.version[1]
             j(t) == [job[p] EXCEPT !.text = t]
  <1>1. /\ job[p] \in Jobs(Len(lineage)) /\ Shaped(setting.store, p, pc[p], job[p])
        /\ Len(lineage) \in Nat /\ 0 \in 0 .. Len(lineage)
    BY TaskFacts
  <1>2. pc[p] = "mergeFetch" /\ lineage' = lineage  BY DEF MergeFetch, story
  <1>3. Listed(job[p])  BY <1>1, <1>2 DEF Shaped, Armed, Placed, Merges
  <1>4. theirs = Remote(job[p]) /\ theirs \in 0 .. Len(lineage)
    <2>1. job[p].remote.version \in Versions(Len(lineage))  BY <1>1 DEF Jobs
    <2> QED  BY <1>1, <1>3, <2>1, VersionFacts DEF Remote, Listed
  <1>5. ASSUME NEW t \in 0 .. Len(lineage), Goto(p, "mergePut"), job' = [job EXCEPT ![p].text = t]
        PROVE  Turn(p, "mergePut", j(t))
    <2>1. Moves(p, "mergePut", j(t))  BY <1>5 DEF Goto, Moves
    <2>2. /\ j(t) \in Jobs(Len(lineage)) /\ j(t).why = job[p].why /\ j(t).remote = job[p].remote
      BY <1>1 DEF Jobs
    <2> HIDE DEF j
    <2>3. Shaped(setting.store, p, "mergePut", j(t))
      BY <1>1, <1>2, <2>2 DEF Shaped, Placed, Armed, AtResolve, Uploads, Merges, Removals, Listed
    <2> QED  BY <1>2, <2>1, <2>2, <2>3 DEF Turn, Labels
  <1>6. CASE Fail(p)  BY <1>2, <1>6, FailRests
  <1>7. CASE data.text = theirs /\ job[p].text = job[p].ancestor /\ Goto(p, "mergePut")
             /\ job' = [job EXCEPT ![p].text = theirs]
    BY <1>2, <1>4, <1>5, <1>7
  <1>8. CASE data.text = theirs /\ theirs \in {job[p].text, job[p].ancestor} /\ Goto(p, "mergePut")
             /\ job' = [job EXCEPT ![p].text = job[p].text]
    <2>1. job[p].text \in 0 .. Len(lineage)  BY <1>1 DEF Jobs
    <2> QED  BY <1>2, <1>4, <1>5, <1>8, <2>1
  <1>9. CASE data.text = theirs /\ Goto(p, "mergePut") /\ job' = [job EXCEPT ![p].text = 0]
    BY <1>1, <1>2, <1>4, <1>5, <1>9
  <1> QED  BY <1>6, <1>7, <1>8, <1>9 DEF MergeFetch, Combined

(* A new text is numbered next.                                            *)
Writes(new) ==
  /\ new = Len(lineage) + 1 /\ new <= MaxTexts
  /\ lineage' \in Seq(SUBSET Texts) /\ Len(lineage') = new
  /\ \A t \in 1 .. Len(lineage) : lineage'[t] = lineage[t]

LEMMA AppendWrites ==
  ASSUME Typed, NEW s \in SUBSET (1 .. Len(lineage) + 1), Len(lineage) < MaxTexts, lineage' = Append(lineage, s)
  PROVE  Writes(Len(lineage) + 1) /\ lineage'[Len(lineage) + 1] = s
  <1>1. Len(lineage) \in 0 .. MaxTexts /\ MaxTexts \in Nat /\ lineage \in Seq(SUBSET Texts)
    BY LengthTyped, Bounds DEF Typed, TextsTyped
  <1>2. s \in SUBSET Texts  BY <1>1 DEF Texts
  <1>3. lineage' \in Seq(SUBSET Texts)  BY <1>1, <1>2
  <1>4. Len(lineage') = Len(lineage) + 1  BY <1>1
  <1> QED  BY <1>1, <1>3, <1>4 DEF Writes

LEMMA LineageTyped ==
  ASSUME Typed, NEW t \in 0 .. Len(lineage)
  PROVE  Lineage(t) \subseteq 1 .. Len(lineage)
  <1>1. Len(lineage) \in Nat  BY LengthTyped, Bounds DEF Typed
  <1> QED  BY <1>1 DEF Lineage, Typed, TextsTyped

LEMMA RemoteTyped ==
  ASSUME NEW n \in Nat, NEW j \in Jobs(n)
  PROVE  /\ Remote(j) \in 0 .. n /\ (Listed(j) => Remote(j) = j.remote.version[1])
         /\ (Listed(j) => Remote(j) # 0)
  <1>1. j.remote.version \in Versions(n)  BY DEF Jobs
  <1> QED  BY <1>1, VersionFacts DEF Remote, Listed

LEMMA MergePutTurn ==
  ASSUME Typed, NEW p \in Tasks, MergePut(p)
  PROVE  /\ pc[p] = "mergePut" /\ UNCHANGED <<base, kept, trash, conflict, store, setting, discarded, hasty, mistaken, used>>
         /\ \E j, t : /\ Turn(p, "upload", j) /\ j = [job[p] EXCEPT !.text = t]
                      /\ local' = [local EXCEPT ![p[1]] = t] /\ t \in 1 .. Len(lineage')
                      /\ \/ t = job[p].text /\ UNCHANGED lineage
                         \/ /\ job[p].text = 0 /\ Writes(t)
                            /\ lineage'[t] = Lineage(job[p].mine) \cup Lineage(Remote(job[p]))
  <1> DEFINE d == p[1]
             both == Lineage(job[p].mine) \cup Lineage(job[p].remote.version[1])
             j(t) == [job[p] EXCEPT !.text = t]
  <1>1. /\ job[p] \in Jobs(Len(lineage)) /\ Shaped(setting.store, p, pc[p], job[p])
        /\ Len(lineage) \in Nat /\ 0 \in 0 .. Len(lineage)
    BY TaskFacts
  <1>2. /\ pc[p] = "mergePut" /\ Goto(p, "upload")
        /\ UNCHANGED <<base, kept, trash, conflict, store, setting, discarded, hasty, mistaken, used>>
    BY DEF MergePut
  <1>3. Listed(job[p]) /\ job[p].remote.version[1] = Remote(job[p]) /\ Remote(job[p]) \in 0 .. Len(lineage)
    BY <1>1, <1>2, RemoteTyped DEF Shaped, Armed, Placed, Merges
  <1>4. ASSUME NEW t \in 1 .. Len(lineage'), Len(lineage') \in Nat, Len(lineage) <= Len(lineage'),
               job' = [job EXCEPT ![p].text = t]
        PROVE  Turn(p, "upload", j(t))
    <2>1. Moves(p, "upload", j(t))  BY <1>2, <1>4 DEF Goto, Moves
    <2>2. job[p] \in Jobs(Len(lineage')) /\ t \in 0 .. Len(lineage')  BY <1>1, <1>4, JobsGrow
    <2>3. /\ j(t) \in Jobs(Len(lineage')) /\ j(t).why = job[p].why /\ j(t).remote = job[p].remote
      BY <2>2 DEF Jobs
    <2> HIDE DEF j
    <2>4. Shaped(setting.store, p, "upload", j(t))
      BY <1>1, <1>2, <2>3 DEF Shaped, Placed, Armed, AtResolve, Uploads, Merges, Removals, Listed
    <2> QED  BY <2>1, <2>3, <2>4 DEF Turn, Labels
  <1>5. CASE job[p].text # 0
    <2> PICK t : t = job[p].text  OBVIOUS
    <2>1. local' = [local EXCEPT ![d] = t] /\ job' = [job EXCEPT ![p].text = t] /\ UNCHANGED lineage
      BY <1>5 DEF MergePut, Combined
    <2>2. t \in 1 .. Len(lineage') /\ Len(lineage') = Len(lineage)  BY <1>1, <1>5, <2>1 DEF Jobs
    <2>3. Len(lineage') \in Nat /\ Len(lineage) <= Len(lineage')  BY <1>1, <2>2
    <2> HIDE DEF j
    <2>4. Turn(p, "upload", j(t))  BY <1>4, <2>1, <2>2, <2>3
    <2> USE DEF j
    <2> QED  BY <1>2, <2>1, <2>2, <2>4
  <1>6. CASE job[p].text = 0
    <2> PICK t : t = Len(lineage) + 1  OBVIOUS
    <2>1. /\ Len(lineage) < MaxTexts /\ local' = [local EXCEPT ![d] = t] /\ job' = [job EXCEPT ![p].text = t]
          /\ lineage' = Append(lineage, both)
      BY <1>6 DEF MergePut, Combined
    <2>2. both \in SUBSET (1 .. Len(lineage) + 1)
      <3>1. job[p].mine \in 0 .. Len(lineage)  BY <1>1 DEF Jobs
      <3>2. both \subseteq 1 .. Len(lineage)  BY <1>3, <3>1, LineageTyped
      <3> QED  BY <1>1, <3>2
    <2>3. Writes(t) /\ lineage'[t] = both  BY <2>1, <2>2, AppendWrites
    <2>4. Len(lineage') \in Nat /\ Len(lineage) <= Len(lineage') /\ t \in 1 .. Len(lineage')  BY <1>1, <2>1, <2>3 DEF Writes
    <2> HIDE DEF j
    <2>5. Turn(p, "upload", j(t))  BY <1>4, <2>1, <2>4
    <2> USE DEF j
    <2>6. lineage'[t] = Lineage(job[p].mine) \cup Lineage(Remote(job[p]))  BY <1>3, <2>3
    <2> QED  BY <1>2, <1>6, <2>1, <2>3, <2>4, <2>5, <2>6
  <1> QED  BY <1>5, <1>6

LEMMA CopyBothTurn ==
  ASSUME Typed, NEW p \in Tasks, CopyBoth(p)
  PROVE  /\ pc[p] = "copyBoth"
         /\ \/ Rests(p) /\ UNCHANGED trash
            \/ \E j : /\ Turn(p, Push(p[1]), j) /\ j = [job[p] EXCEPT !.text = local[p[1]]]
                      /\ data.text # 0 /\ trash' = [trash EXCEPT ![p[1]] = @ \cup {data.text}]
  <1> DEFINE j == [job[p] EXCEPT !.text = local[p[1]]]
  <1>1. pc[p] = "copyBoth" /\ lineage' = lineage  BY DEF CopyBoth, story
  <1>2. CASE Fail(p) /\ UNCHANGED trash  BY <1>1, <1>2, FailRests
  <1>3. CASE /\ data.text = job[p].remote.version[1]
             /\ trash' = [trash EXCEPT ![p[1]] = @ \cup {data.text}]
             /\ Goto(p, Push(p[1])) /\ job' = [job EXCEPT ![p].text = local[p[1]]]
    <2>1. /\ job[p] \in Jobs(Len(lineage)) /\ Shaped(setting.store, p, pc[p], job[p]) /\ local[p[1]] \in 0 .. Len(lineage)
          /\ Len(lineage) \in Nat
      BY TaskFacts
    <2>2. Listed(job[p]) /\ data.text # 0
      BY <1>1, <1>3, <2>1, RemoteTyped DEF Shaped, Armed, Remote
    <2>3. /\ j \in Jobs(Len(lineage)) /\ j.why = job[p].why /\ j.remote = job[p].remote
      BY <2>1 DEF Jobs
    <2>4. Moves(p, Push(p[1]), j)  BY <1>3 DEF Goto, Moves
    <2>5. Push(p[1]) \in {"upload", "delete_remote"}  BY DEF Push
    <2> HIDE DEF j
    <2>6. Shaped(setting.store, p, Push(p[1]), j)
      BY <1>1, <2>1, <2>3, <2>5 DEF Shaped, Placed, Armed, AtResolve, Uploads, Merges, Removals, Listed
    <2>7. Turn(p, Push(p[1]), j)  BY <1>1, <2>3, <2>4, <2>5, <2>6 DEF Turn, Labels
    <2> QED  BY <1>1, <1>3, <2>2, <2>7 DEF j
  <1> QED  BY <1>1, <1>2, <1>3 DEF CopyBoth

LEMMA ResolveTurn ==
  ASSUME Typed, NEW d \in Devices, NEW choice \in Choices, Resolve(d, choice)
  PROVE  LET p == <<d, "resolve">> IN
         /\ pc[p] = "idle"
         /\ \E l, j : /\ Turn(p, l, j) /\ l \in {"download", "delete_local", "delete_remote", "upload", "copyBoth", "close"}
                      /\ j = [job[p] EXCEPT !.why = "choice", !.choice = choice, !.remote = Listing,
                                            !.baseline = base[d], !.text = local[d]]
  <1> DEFINE p == <<d, "resolve">>
             l == CASE choice = "use_remote" -> IF Listing.version[2] THEN "download" ELSE "delete_local"
                    [] choice = "use_local" -> Push(d)
                    [] choice = "keep_both" -> IF Listing.version[2] THEN "copyBoth" ELSE "close"
             j == [job[p] EXCEPT !.why = "choice", !.choice = choice, !.remote = Listing,
                                 !.baseline = base[d], !.text = local[d]]
  <1>1. p \in Tasks /\ p[1] = d /\ p[2] = "resolve"  BY DEF Tasks
  <1>2. pc[p] = "idle" /\ lineage' = lineage /\ Moves(p, l, j)  BY DEF Resolve, Goto, Moves
  <1>3. /\ l \in {"download", "delete_local", "delete_remote", "upload", "copyBoth", "close"}
        /\ l \in {"download", "copyBoth"} => Listing.version[2]
    BY DEF Push, Choices
  <1> HIDE DEF p, l
  <1>4. /\ job[p] \in Jobs(Len(lineage)) /\ Shaped(setting.store, p, pc[p], job[p])
        /\ local[d] \in 0 .. Len(lineage) /\ base[d] \in 0 .. Len(lineage)
    BY <1>1, TaskFacts
  <1>5. Listing \in [version : Versions(Len(lineage)), etag : Nat, tombed : BOOLEAN]  BY ListingTyped
  <1>6. j \in Jobs(Len(lineage)) /\ j.why = "choice" /\ j.remote = Listing  BY <1>4, <1>5 DEF Jobs
  <1>7. Placed(p, l, j)
    BY <1>1, <1>3, <1>6 DEF Placed, AtResolve, Uploads, Merges, Removals
  <1>8. Armed(setting.store, l, j)  BY <1>3, <1>6 DEF Armed, Removals, Listed
  <1>9. Turn(p, l, j)  BY <1>2, <1>3, <1>6, <1>7, <1>8 DEF Turn, Labels, Shaped
  <1> QED  BY <1>2, <1>3, <1>9 DEF p, l

----------------------------------------------------------------------------
(* The actions keep the types                                              *)

LEMMA TaskStep ==
  ASSUME Typed, NEW p \in Tasks, UNCHANGED <<lineage, setting>>,
         (Rests(p) /\ pc[p] # "idle") \/ \E l, j : Turn(p, l, j)
  PROVE  TasksTyped'
  <1>1. \E l, j : Turn(p, l, j)  BY RestsTurn
  <1>2. Len(lineage) \in Nat  BY LengthTyped, Bounds DEF Typed
  <1> QED  BY <1>1, <1>2, TurnTyped DEF Typed

LEMMA RestTyped ==
  ASSUME Typed, UNCHANGED lineage
  PROVE  /\ TextsTyped'
         /\ UNCHANGED device => DevicesTyped'
         /\ UNCHANGED <<store, setting>> => StoreTyped'
         /\ UNCHANGED story => StoryTyped'
  BY DEF Typed, TextsTyped, DevicesTyped, StoreTyped, StoryTyped, device, store, story, Written

(* What a step of a task on its way may do to types: one group at a time.  *)
LEMMA StepsTyped ==
  ASSUME Typed, NEW p \in Tasks, UNCHANGED <<device, store, setting, story>>,
         (Rests(p) /\ pc[p] # "idle") \/ \E l, j : Turn(p, l, j)
  PROVE  Typed'
  <1>1. lineage' = lineage  BY DEF story
  <1> QED  BY <1>1, TaskStep, RestTyped DEF Typed

LEMMA BaselinesTyped ==
  ASSUME Typed, NEW p \in Tasks, UNCHANGED <<local, trash, conflict, store, setting, story>>,
         (Rests(p) /\ pc[p] # "idle") \/ \E l, j : Turn(p, l, j),
         base' \in [Devices -> Written], kept' \in [Devices -> [Texts -> Written]]
  PROVE  Typed'
  <1>1. lineage' = lineage  BY DEF story
  <1>2. DevicesTyped'  BY <1>1 DEF Typed, DevicesTyped, Written
  <1> QED  BY <1>1, <1>2, TaskStep, RestTyped DEF Typed

LEMMA StoresTyped ==
  ASSUME Typed, NEW p \in Tasks, UNCHANGED <<device, setting, story>>, StoreTyped',
         (Rests(p) /\ pc[p] # "idle") \/ \E l, j : Turn(p, l, j)
  PROVE  Typed'
  <1>1. lineage' = lineage  BY DEF story
  <1> QED  BY <1>1, TaskStep, RestTyped DEF Typed

LEMMA DataTyped ==
  ASSUME Typed, NEW p \in Tasks, UNCHANGED <<device, meta, setting, lineage, hasty, used>>,
         data' = None \/ data' = data \/ data' \in [text : 1 .. Len(lineage), etag : Nat \ {0}],
         backups' \subseteq 1 .. Len(lineage), discarded' \subseteq Written, mistaken' \subseteq Written,
         tomb' \in [there : BOOLEAN, newer : BOOLEAN],
         (Rests(p) /\ pc[p] # "idle") \/ \E l, j : Turn(p, l, j)
  PROVE  Typed'
  <1>1. StoreTyped'  BY DEF Typed, StoreTyped, Written
  <1>2. StoryTyped'  BY DEF Typed, StoryTyped, Written
  <1> QED  BY <1>1, <1>2, TaskStep, RestTyped DEF Typed

LEMMA PutsTyped ==
  ASSUME Typed, NEW p \in Tasks, NEW text, Puts(p, text)
  PROVE  data' \in [text : 1 .. Len(lineage), etag : Nat \ {0}] /\ \E l, j : Turn(p, l, j)
  <1>1. data' = [text |-> text, etag |-> FreshEtag] /\ text \in 1 .. Len(lineage)  BY DEF Puts
  <1>2. FreshEtag \in Nat \ {0}  BY EtagFresh
  <1>3. \E l, j : Turn(p, l, j)  BY DEF Puts
  <1> QED  BY <1>1, <1>2, <1>3

LEMMA SameJob == ASSUME Typed, NEW p \in Tasks, NEW l, Goto(p, l), UNCHANGED job PROVE Moves(p, l, job[p])
  BY JobsSame DEF Typed, Goto, Moves

(* The steps that only move on.                                            *)
LEMMA MovesTyped ==
  ASSUME Typed, NEW p \in Tasks,
         Plan(p) \/ Stage(p) \/ Recheck(p) \/ MarkRemoval(p) \/ Fetch(p) \/ Conflict(p) \/ Merge(p) \/ MergeFetch(p)
  PROVE  Typed'
  <1>1. UNCHANGED <<device, store, setting, story>>
    BY DEF Plan, Stage, Recheck, MarkRemoval, Fetch, Conflict, Merge, MergeFetch
  <1>2. lineage' = lineage  BY <1>1 DEF story
  <1>3. CASE Plan(p)  BY <1>1, <1>3, PlanTurn, StepsTyped
  <1>4. CASE Stage(p)  BY <1>1, <1>4, StageTurn, StepsTyped DEF Stage
  <1>5. CASE Recheck(p)  BY <1>1, <1>5, RecheckTurn, StepsTyped DEF Recheck
  <1>6. CASE MarkRemoval(p)  BY <1>1, <1>6, MarkTurn, StepsTyped DEF MarkRemoval
  <1>7. CASE Fetch(p)
    <2>1. pc[p] = "download"  BY <1>7 DEF Fetch
    <2>2. CASE Fail(p)  BY <1>1, <2>1, <2>2, FailRests, StepsTyped
    <2>3. CASE Goto(p, "replace") /\ UNCHANGED job
      <3>1. Turn(p, "replace", job[p])  BY <1>2, <2>1, <2>3, SameJob, OnwardTurn DEF Onward
      <3> QED  BY <1>1, <3>1, StepsTyped
    <2> QED  BY <1>7, <2>2, <2>3 DEF Fetch
  <1>8. CASE Conflict(p)
    <2>1. pc[p] = "conflict"  BY <1>8 DEF Conflict
    <2>2. CASE End(p)  BY <1>1, <2>1, <2>2, EndRests, StepsTyped
    <2>3. CASE Goto(p, "record") /\ UNCHANGED job
      <3>1. job[p].why = "plan"
        BY <2>1, TaskFacts DEF Shaped, Placed, AtResolve, Uploads, Merges, Removals, Jobs
      <3>2. Rests(p)  BY <2>3, <3>1, SameJob DEF Rests
      <3> QED  BY <1>1, <2>1, <3>2, StepsTyped
    <2>4. CASE Listed(job[p]) /\ Goto(p, IF setting.kind = "text" THEN "merge" ELSE "copy") /\ UNCHANGED job
      <3>1. \E l \in {"merge", "copy"} : Turn(p, l, job[p])  BY <1>2, <2>1, <2>4, SameJob, OnwardTurn DEF Onward
      <3> QED  BY <1>1, <3>1, StepsTyped
    <2> QED  BY <1>8, <2>2, <2>3, <2>4 DEF Conflict, Listed
  <1>9. CASE Merge(p)  BY <1>1, <1>9, MergeTurn, StepsTyped
  <1>10. CASE MergeFetch(p)  BY <1>1, <1>10, MergeFetchTurn, StepsTyped
  <1> QED  BY <1>3, <1>4, <1>5, <1>6, <1>7, <1>8, <1>9, <1>10

LEMMA BaselineTyped ==
  ASSUME Typed, NEW p \in Tasks,
         Baseline(p) \/ Acknowledge(p) \/ Settle(p) \/ Forget(p) \/ Keep(p)
  PROVE  Typed' /\ Rests(p) /\ pc[p] # "idle"
  <1>1. /\ p[1] \in Devices /\ local[p[1]] \in Written /\ job[p] \in Jobs(Len(lineage))
        /\ job[p].mine \in Written /\ job[p].text \in Written /\ 0 \in Written
    BY TaskFacts DEF Jobs, Written
  <1>2. base \in [Devices -> Written] /\ kept \in [Devices -> [Texts -> Written]]  BY DEF Typed, DevicesTyped
  <1>3. UNCHANGED <<local, trash, conflict, store, setting, story>> /\ pc[p] # "idle"
    BY DEF Baseline, Acknowledge, Settle, Forget, Keep
  <1>4. Rests(p)
    BY EndRests, FailRests, DoneRests DEF Baseline, Acknowledge, Settle, Forget, Keep
  <1>5. base' \in [Devices -> Written] /\ kept' \in [Devices -> [Texts -> Written]]
    <2>1. CASE Baseline(p)  BY <1>1, <1>2, <2>1 DEF Baseline
    <2>2. CASE Acknowledge(p)  BY <1>1, <1>2, <2>2 DEF Acknowledge
    <2>3. CASE Settle(p)
      <3>1. kept' \in [Devices -> [Texts -> Written]]  BY <1>1, <1>2, <2>3 DEF Settle
      <3>2. base' \in [Devices -> Written]  BY <1>1, <1>2, <2>3 DEF Settle
      <3> QED  BY <3>1, <3>2
    <2>4. CASE Forget(p)  BY <1>1, <1>2, <2>4 DEF Forget
    <2>5. CASE Keep(p)
      <3>1. job[p].remote.version[1] \in Written
        BY <1>1, <2>5, TaskFacts, RemoteTyped DEF Keep, Shaped, Armed, Written
      <3>2. kept' \in [Devices -> [Texts -> Written]]  BY <1>1, <1>2, <2>5, <3>1 DEF Keep
      <3>3. base' \in [Devices -> Written]  BY <1>1, <1>2, <2>5, <3>1 DEF Keep
      <3> QED  BY <3>2, <3>3
    <2> QED  BY <2>1, <2>2, <2>3, <2>4, <2>5
  <1>6. Typed'  BY <1>3, <1>4, <1>5, BaselinesTyped
  <1> QED  BY <1>3, <1>4, <1>6

LEMMA EntryTyped ==
  ASSUME Typed, NEW p \in Tasks,
         PutEntry(p) \/ DropTombstone(p) \/ PutTombstone(p) \/ EraseEntry(p)
  PROVE  Typed'
  <1>1. /\ UNCHANGED <<device, data, backups, setting, story>> /\ lineage' = lineage
    BY DEF PutEntry, DropTombstone, PutTombstone, EraseEntry, story
  <1>2. CASE PutEntry(p)
    <2>1. StoreTyped'  BY <1>1, <1>2, PutEntryTurn DEF Typed, StoreTyped, Written
    <2> QED  BY <1>1, <1>2, <2>1, PutEntryTurn, StoresTyped
  <1>3. CASE DropTombstone(p)
    <2>1. Turn(p, "settle", job[p])  BY <1>1, <1>3, SameJob, OnwardTurn DEF DropTombstone, Onward
    <2>2. StoreTyped'  BY <1>1, <1>3 DEF DropTombstone, NoTomb, Typed, StoreTyped, Written
    <2> QED  BY <1>1, <2>1, <2>2, StoresTyped
  <1>4. CASE PutTombstone(p)
    <2>1. Turn(p, "erase", job[p])  BY <1>1, <1>4, SameJob, OnwardTurn DEF PutTombstone, Onward
    <2>2. StoreTyped'  BY <1>1, <1>4 DEF PutTombstone, Typed, StoreTyped, Written
    <2> QED  BY <1>1, <2>1, <2>2, StoresTyped
  <1>5. CASE EraseEntry(p)
    <2>1. Turn(p, "forget", job[p])  BY <1>1, <1>5, SameJob, OnwardTurn DEF EraseEntry, Onward
    <2>2. None \in [text : Written, etag : Nat]  BY TaskFacts DEF None, Written
    <2>3. StoreTyped'  BY <1>1, <1>5, <2>2 DEF EraseEntry, Typed, StoreTyped, Written
    <2> QED  BY <1>1, <2>1, <2>3, StoresTyped
  <1> QED  BY <1>2, <1>3, <1>4, <1>5

LEMMA SwapsTyped ==
  ASSUME Typed, NEW p \in Tasks, Swap(p) \/ Rotate(p) \/ Place(p) \/ Verify(p) \/ Erase(p)
  PROVE  Typed'
  <1>1. /\ backups \subseteq 1 .. Len(lineage) /\ discarded \subseteq Written /\ mistaken \subseteq Written
        /\ tomb \in [there : BOOLEAN, newer : BOOLEAN]
    BY DEF Typed, StoreTyped, StoryTyped
  <1>2. /\ Len(lineage) \in Nat /\ job[p] \in Jobs(Len(lineage)) /\ data.text \in 0 .. Len(lineage)
        /\ Shaped(setting.store, p, pc[p], job[p])
    BY TaskFacts, DataFacts
  <1>3. /\ Lineage(data.text) \subseteq Written /\ Lineage(job[p].ancestor) \subseteq Written
        /\ Lineage(data.text) \ Lineage(job[p].text) \subseteq Written
    BY <1>2, LineageTyped DEF Jobs, Written
  <1>4. CASE Swap(p)
    <2>1. UNCHANGED <<device, meta, tomb, setting, lineage, hasty, mistaken, used>>  BY <1>4 DEF Swap
    <2>2. CASE Rests(p) /\ UNCHANGED <<data, backups, discarded>>
      BY <1>1, <1>4, <2>1, <2>2, SwapTurn, DataTyped
    <2>3. ASSUME NEW text \in {job[p].stage, local[p[1]]}, Puts(p, text), UNCHANGED backups,
                 discarded' = IF Confirmed(p) THEN discarded \cup Lineage(data.text) ELSE discarded
          PROVE  Typed'
      <3>1. discarded' \subseteq Written  BY <1>1, <1>3, <2>3
      <3> QED  BY <1>1, <2>1, <2>3, <3>1, PutsTyped, DataTyped
    <2> QED  BY <1>4, <2>2, <2>3, SwapTurn
  <1>5. CASE Rotate(p)
    <2>1. UNCHANGED <<device, meta, tomb, setting, lineage, hasty, mistaken, used>>  BY <1>5 DEF Rotate
    <2>2. CASE Rests(p) /\ UNCHANGED <<data, backups, discarded>>
      BY <1>1, <1>5, <2>1, <2>2, RotateTurn, DataTyped
    <2>3. ASSUME NEW j, Turn(p, "place", j), data # None, backups' = backups \cup {data.text}, data' = None,
                 UNCHANGED discarded
          PROVE  Typed'
      <3>1. data.text \in 1 .. Len(lineage)  BY <1>2, <2>3, DataFacts
      <3>2. backups' \subseteq 1 .. Len(lineage)  BY <1>1, <2>3, <3>1
      <3> QED  BY <1>1, <2>1, <2>3, <3>2, DataTyped
    <2> QED  BY <1>5, <2>2, <2>3, RotateTurn
  <1>6. CASE Place(p)
    <2>1. UNCHANGED <<device, meta, tomb, setting, lineage, hasty, mistaken, used>>  BY <1>6 DEF Place
    <2>2. CASE Rests(p) /\ UNCHANGED <<data, backups, discarded>>
      BY <1>1, <1>6, <2>1, <2>2, PlaceTurn, DataTyped
    <2>3. CASE /\ Puts(p, job[p].stage) /\ backups' = backups \ {job[p].ancestor}
               /\ discarded' = discarded \cup Lineage(job[p].ancestor)
      <3>1. discarded' \subseteq Written /\ backups' \subseteq 1 .. Len(lineage)  BY <1>1, <1>3, <2>3
      <3> QED  BY <1>1, <2>1, <2>3, <3>1, PutsTyped, DataTyped
    <2> QED  BY <1>6, <2>2, <2>3, PlaceTurn
  <1>7. CASE Verify(p)
    <2>1. UNCHANGED <<device, store, setting, lineage, discarded, hasty, used>> /\ pc[p] = "verify"  BY <1>7 DEF Verify
    <2>2. mistaken' \subseteq Written  BY <1>1, <1>3, <1>7, VerifyTurn
    <2>3. Rests(p) \/ \E j : Turn(p, "entry", j)  BY <1>7, VerifyTurn
    <2> QED  BY <1>1, <2>1, <2>2, <2>3, DataTyped DEF store
  <1>8. CASE Erase(p)
    <2>1. UNCHANGED <<device, meta, backups, setting, lineage, hasty, used>> /\ pc[p] = "erase"  BY <1>8 DEF Erase
    <2>2. CASE Changed(p) /\ tomb' = NoTomb /\ UNCHANGED <<data, discarded, mistaken>>
      <3>1. tomb' \in [there : BOOLEAN, newer : BOOLEAN]  BY <2>2 DEF NoTomb
      <3> QED  BY <1>1, <2>1, <2>2, <3>1, ChangedRests, DataTyped
    <2>3. CASE /\ data' = None
               /\ discarded' = IF Confirmed(p) THEN discarded \cup Lineage(data.text) ELSE discarded
               /\ mistaken' = IF ~ Confirmed(p) /\ local[p[1]] # 0
                              THEN mistaken \cup Lineage(data.text) ELSE mistaken
               /\ Goto(p, "eraseEntry") /\ UNCHANGED <<job, tomb>>
      <3>1. Turn(p, "eraseEntry", job[p])  BY <2>1, <2>3, SameJob, OnwardTurn DEF Onward
      <3>2. discarded' \subseteq Written /\ mistaken' \subseteq Written  BY <1>1, <1>3, <2>3
      <3> QED  BY <1>1, <2>1, <2>3, <3>1, <3>2, DataTyped
    <2> QED  BY <1>8, <2>2, <2>3 DEF Erase
  <1> QED  BY <1>4, <1>5, <1>6, <1>7, <1>8

LEMMA CopiesTyped ==
  ASSUME Typed, NEW p \in Tasks, CopyRemote(p) \/ CopyBoth(p) \/ DeleteLocal(p) \/ ReplaceLocal(p)
  PROVE  Typed'
  <1>1. /\ p[1] \in Devices /\ local[p[1]] \in Written /\ Len(lineage) \in Nat /\ job[p] \in Jobs(Len(lineage))
        /\ Shaped(setting.store, p, pc[p], job[p]) /\ 0 \in Written /\ data.text \in 0 .. Len(lineage)
        /\ (data = None <=> data.text = 0)
    BY TaskFacts, DataFacts DEF Written
  <1>2. trash \in [Devices -> SUBSET (1 .. Len(lineage))] /\ local \in [Devices -> Written]
    BY DEF Typed, DevicesTyped
  <1>3. CASE CopyRemote(p)
    <2>1. UNCHANGED <<local, base, kept, conflict, store, setting, story>> /\ pc[p] = "copy" /\ lineage' = lineage
      BY <1>3 DEF CopyRemote, story
    <2>2. trash' \in [Devices -> SUBSET (1 .. Len(lineage))]  BY <1>1, <1>2, <1>3 DEF CopyRemote
    <2>3. Rests(p)
      <3>1. CASE Fail(p)  BY <3>1, FailRests
      <3>2. CASE Goto(p, "record") /\ UNCHANGED job
        <4>1. job[p].why = "plan"
          BY <1>1, <2>1, TaskFacts DEF Shaped, Placed, AtResolve, Uploads, Merges, Removals, Jobs
        <4> QED  BY <3>2, <4>1, SameJob DEF Rests
      <3> QED  BY <1>3, <3>1, <3>2 DEF CopyRemote
    <2>4. DevicesTyped'  BY <2>1, <2>2 DEF Typed, DevicesTyped, Written
    <2> QED  BY <2>1, <2>3, <2>4, TaskStep, RestTyped DEF Typed
  <1>4. CASE CopyBoth(p)
    <2>1. UNCHANGED <<local, base, kept, conflict, store, setting, story>> /\ pc[p] = "copyBoth" /\ lineage' = lineage
      BY <1>4 DEF CopyBoth, story
    <2>2. trash' \in [Devices -> SUBSET (1 .. Len(lineage))]  BY <1>1, <1>2, <1>4, CopyBothTurn
    <2>3. DevicesTyped'  BY <2>1, <2>2 DEF Typed, DevicesTyped, Written
    <2> QED  BY <1>4, <2>1, <2>3, CopyBothTurn, TaskStep, RestTyped DEF Typed
  <1>5. CASE DeleteLocal(p)
    <2>1. UNCHANGED <<base, kept, conflict, store, setting, story>> /\ pc[p] = "delete_local" /\ lineage' = lineage
      BY <1>5 DEF DeleteLocal, story
    <2>2. trash' \in [Devices -> SUBSET (1 .. Len(lineage))]  BY <1>1, <1>2, <1>5 DEF DeleteLocal, Written
    <2>3. local' \in [Devices -> Written]  BY <1>1, <1>2, <1>5 DEF DeleteLocal
    <2>4. DevicesTyped'  BY <2>1, <2>2, <2>3 DEF Typed, DevicesTyped, Written
    <2>5. CASE Done(p)  BY <2>1, <2>4, <2>5, DoneRests, TaskStep, RestTyped DEF Typed
    <2>6. CASE job[p].why # "choice" /\ Goto(p, "acknowledge") /\ UNCHANGED job
      <3>1. Turn(p, "acknowledge", job[p])  BY <2>1, <2>6, SameJob, OnwardTurn DEF Onward
      <3> QED  BY <2>1, <2>4, <3>1, TaskStep, RestTyped DEF Typed
    <2> QED  BY <1>5, <2>5, <2>6 DEF DeleteLocal
  <1>6. CASE ReplaceLocal(p)
    <2>1. /\ UNCHANGED <<base, kept, trash, conflict, store, job, setting, lineage, hasty, mistaken, used>>
          /\ pc[p] = "replace" /\ Goto(p, "keep")
      BY <1>6 DEF ReplaceLocal
    <2>2. job[p].remote.version[1] \in Written
      BY <1>1, <2>1, RemoteTyped DEF Shaped, Armed, Written
    <2>3. local' \in [Devices -> Written]  BY <1>1, <1>2, <1>6, <2>2 DEF ReplaceLocal
    <2>4. DevicesTyped'  BY <2>1, <2>3 DEF Typed, DevicesTyped, Written
    <2>5. Lineage(local[p[1]]) \subseteq Written  BY <1>1, LineageTyped DEF Written
    <2>6. StoryTyped'  BY <1>6, <2>1, <2>5 DEF ReplaceLocal, Typed, StoryTyped, Written
    <2>7. Turn(p, "keep", job[p])  BY <2>1, SameJob, OnwardTurn DEF Onward
    <2> QED  BY <2>1, <2>4, <2>6, <2>7, TaskStep, RestTyped DEF Typed
  <1> QED  BY <1>3, <1>4, <1>5, <1>6

(* With a new text everything keeps its type.                              *)
LEMMA WritesTyped ==
  ASSUME Typed, NEW new, Writes(new), lineage'[new] \subseteq 1 .. new
  PROVE  /\ TextsTyped' /\ Written \subseteq Written' /\ new \in Written'
         /\ Len(lineage) \in Nat /\ Len(lineage') = Len(lineage) + 1
         /\ UNCHANGED <<store, setting>> => StoreTyped'
         /\ local' \in [Devices -> Written'] /\ UNCHANGED <<base, kept, trash, conflict>> => DevicesTyped'
  <1> DEFINE n == Len(lineage)
  <1>1. n \in 0 .. MaxTexts /\ MaxTexts \in Nat  BY LengthTyped, Bounds DEF Typed
  <1>2. new = n + 1 /\ Len(lineage') = new /\ new <= MaxTexts  BY DEF Writes
  <1>3. TextsTyped'
    <2>1. ASSUME NEW t \in 1 .. Len(lineage') PROVE lineage'[t] \subseteq 1 .. Len(lineage')
      <3>1. CASE t = new  BY <1>2, <3>1
      <3>2. CASE t \in 1 .. n  BY <1>1, <1>2, <3>2 DEF Writes, Typed, TextsTyped
      <3> QED  BY <1>1, <1>2, <3>1, <3>2
    <2> QED  BY <1>2, <2>1 DEF TextsTyped, Writes
  <1>4. Written \subseteq Written' /\ new \in Written' /\ 1 .. n \subseteq 1 .. Len(lineage')
    BY <1>1, <1>2 DEF Written
  <1>5. ASSUME UNCHANGED <<store, setting>> PROVE StoreTyped'
    BY <1>1, <1>2, <1>4, <1>5 DEF Typed, StoreTyped, store
  <1>6. ASSUME local' \in [Devices -> Written'], UNCHANGED <<base, kept, trash, conflict>> PROVE DevicesTyped'
    <2>1. base \in [Devices -> Written'] /\ kept \in [Devices -> [Texts -> Written']]
      BY <1>4 DEF Typed, DevicesTyped
    <2>2. trash \in [Devices -> SUBSET (1 .. Len(lineage'))]
      BY <1>4 DEF Typed, DevicesTyped
    <2> QED  BY <1>6, <2>1, <2>2 DEF Typed, DevicesTyped
  <1> QED  BY <1>1, <1>2, <1>3, <1>4, <1>5, <1>6

LEMMA MergePutTyped ==
  ASSUME Typed, NEW p \in Tasks, MergePut(p)
  PROVE  Typed'
  <1>1. /\ pc[p] = "mergePut"
        /\ UNCHANGED <<base, kept, trash, conflict, store, setting, discarded, hasty, mistaken, used>>
    BY MergePutTurn
  <1>2. PICK j, t : /\ Turn(p, "upload", j) /\ local' = [local EXCEPT ![p[1]] = t] /\ t \in 1 .. Len(lineage')
                    /\ \/ UNCHANGED lineage
                       \/ Writes(t) /\ lineage'[t] = Lineage(job[p].mine) \cup Lineage(Remote(job[p]))
    BY MergePutTurn
  <1>3. local \in [Devices -> Written] /\ job[p] \in Jobs(Len(lineage)) /\ Len(lineage) \in Nat
    BY TaskFacts DEF Typed, DevicesTyped
  <1>4. CASE UNCHANGED lineage
    <2>1. t \in Written
      <3>1. Len(lineage') = Len(lineage)  BY <1>4
      <3> QED  BY <1>2, <1>3, <3>1 DEF Written
    <2>3. local' \in [Devices -> Written]  BY <1>2, <1>3, <2>1
    <2>2. DevicesTyped'  BY <1>1, <1>4, <2>3 DEF Typed, DevicesTyped, Written
    <2> QED  BY <1>1, <1>2, <1>4, <2>2, TaskStep, RestTyped DEF Typed, story
  <1>5. CASE Writes(t) /\ lineage'[t] = Lineage(job[p].mine) \cup Lineage(Remote(job[p]))
    <2>1. Remote(job[p]) \in 0 .. Len(lineage) /\ job[p].mine \in 0 .. Len(lineage)
      BY <1>3, RemoteTyped DEF Jobs
    <2>2. lineage'[t] \subseteq 1 .. Len(lineage)  BY <1>5, <2>1, LineageTyped
    <2>3. 1 .. Len(lineage) \subseteq 1 .. t  BY <1>3, <1>5 DEF Writes
    <2>4. /\ TextsTyped' /\ Written \subseteq Written' /\ t \in Written' /\ StoreTyped'
          /\ Len(lineage') = Len(lineage) + 1
          /\ local' \in [Devices -> Written'] => DevicesTyped'
      BY <1>1, <1>5, <2>2, <2>3, WritesTyped
    <2>5. local' \in [Devices -> Written']  BY <1>2, <1>3, <2>4
    <2>6. StoryTyped'  BY <1>1, <2>4 DEF Typed, StoryTyped
    <2>7. TasksTyped'  BY <1>1, <1>2, <1>3, <2>4, TurnTyped DEF Typed
    <2> QED  BY <2>4, <2>5, <2>6, <2>7 DEF Typed
  <1> QED  BY <1>2, <1>4, <1>5

LEMMA EditTyped ==
  ASSUME Typed, NEW d \in Devices, Edit(d)
  PROVE  /\ Typed' /\ Writes(Len(lineage) + 1)
         /\ lineage'[Len(lineage) + 1] = Lineage(local[d]) \cup {Len(lineage) + 1}
  <1> DEFINE new == Len(lineage) + 1
  <1>1. /\ UNCHANGED <<base, kept, trash, conflict, store, pc, job, setting, discarded, mistaken>>
        /\ new <= MaxTexts /\ lineage' = Append(lineage, Lineage(local[d]) \cup {new})
    BY DEF Edit
  <1>2. Len(lineage) \in Nat /\ local \in [Devices -> Written]
    BY LengthTyped, Bounds DEF Typed, DevicesTyped
  <1>3. Lineage(local[d]) \subseteq 1 .. Len(lineage)  BY <1>2, LineageTyped DEF Written
  <1>4. Lineage(local[d]) \cup {new} \in SUBSET (1 .. new)  BY <1>2, <1>3
  <1>5. Writes(new) /\ lineage'[new] = Lineage(local[d]) \cup {new}
    <2>1. Len(lineage) < MaxTexts  BY <1>1, <1>2, Bounds
    <2> QED  BY <1>1, <1>4, <2>1, AppendWrites
  <1>6. /\ TextsTyped' /\ Written \subseteq Written' /\ new \in Written' /\ StoreTyped'
        /\ Len(lineage') = Len(lineage) + 1
        /\ local' \in [Devices -> Written'] => DevicesTyped'
    BY <1>1, <1>4, <1>5, WritesTyped
  <1>7. local' \in [Devices -> Written']  BY <1>2, <1>6 DEF Edit
  <1>8. StoryTyped'
    <2>1. used' \in [changes : Nat, deletes : Nat, choices : Nat, faults : Nat]  BY DEF Edit, Typed, StoryTyped
    <2>2. hasty' \subseteq Written'  BY <1>6 DEF Edit, Typed, StoryTyped
    <2> QED  BY <1>1, <1>6, <2>1, <2>2 DEF Typed, StoryTyped
  <1>9. TasksTyped'
    <2>1. Jobs(Len(lineage)) \subseteq Jobs(Len(lineage'))  BY <1>2, <1>6, JobsGrow
    <2>2. job \in [Tasks -> Jobs(Len(lineage'))]  BY <2>1 DEF Typed, TasksTyped
    <2> QED  BY <1>1, <2>2 DEF Typed, TasksTyped
  <1> QED  BY <1>5, <1>6, <1>7, <1>8, <1>9 DEF Typed

LEMMA DeleteTyped == ASSUME Typed, NEW d \in Devices, Delete(d) PROVE Typed'
  <1>1. /\ UNCHANGED <<base, kept, trash, conflict, store, pc, job, setting, lineage, hasty, mistaken>>
        /\ local' = [local EXCEPT ![d] = 0] /\ discarded' = discarded \cup Lineage(local[d])
    BY DEF Delete
  <1>2. Len(lineage) \in Nat /\ local \in [Devices -> Written] /\ 0 \in Written
    BY LengthTyped, Bounds DEF Typed, DevicesTyped, Written
  <1>3. Lineage(local[d]) \subseteq Written  BY <1>2, LineageTyped DEF Written
  <1>4. local' \in [Devices -> Written]  BY <1>1, <1>2
  <1>5. DevicesTyped'  BY <1>1, <1>4 DEF Typed, DevicesTyped, Written
  <1>6. used' \in [changes : Nat, deletes : Nat, choices : Nat, faults : Nat]
    <2>1. /\ used.changes \in Nat /\ used.deletes \in Nat
          /\ used \in [changes : Nat, deletes : Nat, choices : Nat, faults : Nat]
      BY DEF Typed, StoryTyped
    <2>2. used.changes + 1 \in Nat /\ used.deletes + 1 \in Nat  BY <2>1
    <2>3. used' = [used EXCEPT !.changes = @ + 1, !.deletes = @ + 1]  BY DEF Delete
    <2> QED  BY <2>1, <2>2, <2>3
  <1>7. StoryTyped'  BY <1>1, <1>3, <1>6 DEF Typed, StoryTyped, Written
  <1>8. TasksTyped'  BY <1>1 DEF Typed, TasksTyped
  <1> QED  BY <1>1, <1>5, <1>7, <1>8, RestTyped DEF Typed

LEMMA SpendTyped == ASSUME Typed, Spend PROVE used' \in [changes : Nat, deletes : Nat, choices : Nat, faults : Nat]
  BY DEF Spend, Typed, StoryTyped

LEMMA EndsTyped ==
  ASSUME Typed, NEW p \in Tasks, Unmerged(p) \/ Record(p) \/ Close(p)
  PROVE  Typed' /\ Rests(p) /\ pc[p] # "idle"
  <1>1. /\ UNCHANGED <<local, base, kept, trash, store, setting, story>> /\ End(p) /\ pc[p] # "idle" /\ lineage' = lineage
    BY DEF Unmerged, Record, Close, story
  <1>2. conflict' \in [Devices -> BOOLEAN]  BY DEF Unmerged, Record, Close, Typed, DevicesTyped
  <1>3. DevicesTyped'  BY <1>1, <1>2 DEF Typed, DevicesTyped, Written
  <1> QED  BY <1>1, <1>3, EndRests, TaskStep, RestTyped DEF Typed

LEMMA FaultsTyped ==
  ASSUME Typed, NEW p \in Tasks, RequestFails(p) \/ PlaceFails(p)
  PROVE  Typed' /\ Rests(p) /\ pc[p] # "idle"
  <1>1. used' \in [changes : Nat, deletes : Nat, choices : Nat, faults : Nat]
    BY SpendTyped DEF RequestFails, PlaceFails
  <1>2. CASE RequestFails(p)
    <2>1. UNCHANGED <<device, store, setting, lineage, discarded, hasty, mistaken>> /\ Fail(p) /\ pc[p] \in Requests
      BY <1>2 DEF RequestFails
    <2>2. pc[p] # "idle"  BY <2>1 DEF Requests
    <2>3. StoryTyped'  BY <1>1, <2>1 DEF Typed, StoryTyped, Written
    <2> QED  BY <2>1, <2>2, <2>3, FailRests, TaskStep, RestTyped DEF Typed
  <1>3. CASE PlaceFails(p)
    <2>1. UNCHANGED <<device, meta, tomb, setting, lineage, discarded, hasty, mistaken>> /\ Fail(p) /\ pc[p] = "place"
      BY <1>3 DEF PlaceFails
    <2>2. job[p] \in Jobs(Len(lineage)) /\ job[p].ancestor # 0
      BY <2>1, TaskFacts DEF Shaped, Armed
    <2>3. data' = data \/ data' \in [text : 1 .. Len(lineage), etag : Nat \ {0}]
      <3>1. FreshEtag \in Nat \ {0}  BY EtagFresh
      <3>2. job[p].ancestor \in 1 .. Len(lineage)  BY <2>2 DEF Jobs
      <3> QED  BY <1>3, <3>1, <3>2 DEF PlaceFails
    <2>4. backups' \subseteq 1 .. Len(lineage)  BY <1>3 DEF PlaceFails, Typed, StoreTyped
    <2>5. StoreTyped'  BY <2>1, <2>3, <2>4 DEF Typed, StoreTyped, Written
    <2>6. StoryTyped'  BY <1>1, <2>1 DEF Typed, StoryTyped, Written
    <2> QED  BY <2>1, <2>5, <2>6, FailRests, TaskStep, RestTyped DEF Typed
  <1> QED  BY <1>2, <1>3

LEMMA CrashTyped ==
  ASSUME Typed, NEW d \in Devices, Crash(d)
  PROVE  /\ Typed' /\ UNCHANGED <<device, store, setting, lineage, discarded, hasty, mistaken>>
         /\ \A p \in Tasks : /\ p[1] = d => pc'[p] = "idle" /\ job'[p] = NoJob
                             /\ p[1] # d => pc'[p] = pc[p] /\ job'[p] = job[p]
  <1>1. UNCHANGED <<device, store, setting, lineage, discarded, hasty, mistaken>>  BY DEF Crash
  <1>2. pc' = [p \in Tasks |-> IF p[1] = d THEN "idle" ELSE pc[p]]  BY DEF Crash
  <1>3. job' = [p \in Tasks |-> IF p[1] = d THEN NoJob ELSE job[p]]  BY DEF Crash
  <1>4. NoJob \in Jobs(Len(lineage))  BY LengthTyped, Bounds, NoJobTyped DEF Typed
  <1>5. used' \in [changes : Nat, deletes : Nat, choices : Nat, faults : Nat]  BY SpendTyped DEF Crash
  <1>6. StoryTyped'  BY <1>1, <1>5 DEF Typed, StoryTyped, Written
  <1>7. \A p \in Tasks : /\ p[1] = d => pc'[p] = "idle" /\ job'[p] = NoJob
                         /\ p[1] # d => pc'[p] = pc[p] /\ job'[p] = job[p]
    BY <1>2, <1>3
  <1>8. pc' \in [Tasks -> Labels]  BY <1>2 DEF Typed, TasksTyped, Labels
  <1>9. job' \in [Tasks -> Jobs(Len(lineage))]  BY <1>3, <1>4 DEF Typed, TasksTyped
  <1>10. ASSUME NEW p \in Tasks PROVE Shaped(setting.store, p, pc'[p], job'[p])
    BY <1>7, NoJobPlaced DEF Typed, TasksTyped
  <1>11. TasksTyped'  BY <1>1, <1>8, <1>9, <1>10 DEF TasksTyped
  <1> QED  BY <1>1, <1>6, <1>7, <1>11, RestTyped DEF Typed

LEMMA StartTyped == ASSUME Typed, NEW d \in Devices, StartRun(d) PROVE Typed'
  <1>1. UNCHANGED <<device, store, setting, story>>  BY DEF StartRun
  <1>2. <<d, "run">> \in Tasks  BY DEF Tasks
  <1> QED  BY <1>1, <1>2, StartTurn, StepsTyped

LEMMA ResolveTyped == ASSUME Typed, NEW d \in Devices, NEW choice \in Choices, Resolve(d, choice) PROVE Typed'
  <1>1. UNCHANGED <<device, store, setting, lineage, discarded, hasty, mistaken>>  BY DEF Resolve
  <1>2. used' \in [changes : Nat, deletes : Nat, choices : Nat, faults : Nat]
    BY Bounds DEF Resolve, Typed, StoryTyped
  <1>3. StoryTyped'  BY <1>1, <1>2 DEF Typed, StoryTyped, Written
  <1>4. <<d, "resolve">> \in Tasks  BY DEF Tasks
  <1>5. \E l, j : Turn(<<d, "resolve">>, l, j)  BY ResolveTurn
  <1> QED  BY <1>1, <1>3, <1>4, <1>5, TaskStep, RestTyped DEF Typed

(* Every step is of one of these forms.                                    *)
Acts ==
  \/ \E p \in Tasks :
       \/ Plan(p) \/ Stage(p) \/ Recheck(p) \/ MarkRemoval(p) \/ Fetch(p) \/ Conflict(p) \/ Merge(p) \/ MergeFetch(p)
       \/ Baseline(p) \/ Acknowledge(p) \/ Settle(p) \/ Forget(p) \/ Keep(p)
       \/ PutEntry(p) \/ DropTombstone(p) \/ PutTombstone(p) \/ EraseEntry(p)
       \/ Swap(p) \/ Rotate(p) \/ Place(p) \/ Verify(p) \/ Erase(p)
       \/ CopyRemote(p) \/ CopyBoth(p) \/ DeleteLocal(p) \/ ReplaceLocal(p)
       \/ MergePut(p) \/ Unmerged(p) \/ Record(p) \/ Close(p) \/ RequestFails(p) \/ PlaceFails(p)
  \/ \E d \in Devices : Edit(d) \/ Delete(d) \/ Crash(d) \/ StartRun(d)
  \/ \E d \in Devices : \E choice \in Choices : Resolve(d, choice)

(* Next is such a step.                                                    *)
LEMMA NextActs == Next => Acts
  BY DEF Next, Others, Decision, Step, Acts

LEMMA InitTyped == Init => Typed
  <1> SUFFICES ASSUME Init PROVE Typed  OBVIOUS
  <1>1. /\ setting \in Settings /\ trash = [d \in Devices |-> {}] /\ conflict = [d \in Devices |-> FALSE]
        /\ tomb = NoTomb /\ backups = {} /\ pc = [p \in Tasks |-> "idle"] /\ job = [p \in Tasks |-> NoJob]
        /\ discarded = {} /\ hasty = {} /\ mistaken = {}
        /\ used = [changes |-> 0, deletes |-> 0, choices |-> 0, faults |-> 0]
    BY DEF Init
  <1>2. PICK t \in {0, 1} :
          /\ local = [d \in Devices |-> t] /\ base = local
          /\ kept = [d \in Devices |-> [h \in Texts |-> IF h = t THEN t ELSE 0]]
          /\ data = [text |-> t, etag |-> t] /\ meta = data
          /\ lineage = IF t = 0 THEN <<>> ELSE <<{1}>>
    BY DEF Init
  <1>3. t \in 0 .. 1 /\ MaxTexts \in Nat \ {0}  BY <1>2, SyncAssumption
  <1>4. Len(lineage) = t /\ lineage \in Seq(SUBSET Texts) /\ \A u \in 1 .. Len(lineage) : lineage[u] \subseteq 1 .. Len(lineage)
    <2>1. CASE t = 0
      <3>1. lineage = <<>>  BY <1>2, <2>1
      <3> QED  BY <2>1, <3>1
    <2>2. CASE t = 1
      <3>1. lineage = <<{1}>>  BY <1>2, <2>2
      <3>2. {1} \in SUBSET Texts  BY <1>3 DEF Texts
      <3> QED  BY <2>2, <3>1, <3>2
    <2> QED  BY <1>2, <2>1, <2>2
  <1>5. TextsTyped  BY <1>3, <1>4 DEF TextsTyped
  <1>6. t \in Written /\ 0 \in Written /\ (t # 0 => t \in 1 .. Len(lineage))  BY <1>3, <1>4 DEF Written
  <1>7. DevicesTyped
    <2>1. local \in [Devices -> Written] /\ base \in [Devices -> Written]  BY <1>2, <1>6
    <2>2. kept \in [Devices -> [Texts -> Written]]  BY <1>2, <1>6
    <2>3. trash \in [Devices -> SUBSET (1 .. Len(lineage))] /\ conflict \in [Devices -> BOOLEAN]  BY <1>1
    <2> QED  BY <2>1, <2>2, <2>3 DEF DevicesTyped
  <1>8. StoreTyped
    <2>1. data = None \/ data \in [text : 1 .. Len(lineage), etag : Nat \ {0}]
      <3>1. CASE t = 0  BY <1>2, <3>1 DEF None
      <3>2. CASE t = 1  BY <1>2, <1>6, <3>2
      <3> QED  BY <1>2, <3>1, <3>2
    <2>2. meta \in [text : Written, etag : Nat]  BY <1>2, <1>3, <1>6
    <2> QED  BY <1>1, <2>1, <2>2 DEF StoreTyped, NoTomb
  <1>9. StoryTyped  BY <1>1 DEF StoryTyped
  <1>10. TasksTyped
    <2>1. NoJob \in Jobs(Len(lineage))  BY <1>3, <1>4, NoJobTyped
    <2>2. \A p \in Tasks : Shaped(setting.store, p, "idle", NoJob)  BY NoJobPlaced
    <2> QED  BY <1>1, <2>1, <2>2 DEF TasksTyped, Labels
  <1> QED  BY <1>5, <1>7, <1>8, <1>9, <1>10 DEF Typed

LEMMA TypedStep == Typed /\ [Next]_vars => Typed'
  <1> SUFFICES ASSUME Typed, [Next]_vars PROVE Typed'  OBVIOUS
  <1>1. CASE UNCHANGED vars
    BY <1>1 DEF vars, Typed, TextsTyped, DevicesTyped, StoreTyped, StoryTyped, TasksTyped, Written
  <1>2. ASSUME NEW p \in Tasks,
               \/ Plan(p) \/ Stage(p) \/ Recheck(p) \/ MarkRemoval(p) \/ Fetch(p) \/ Conflict(p) \/ Merge(p) \/ MergeFetch(p)
               \/ Baseline(p) \/ Acknowledge(p) \/ Settle(p) \/ Forget(p) \/ Keep(p)
               \/ PutEntry(p) \/ DropTombstone(p) \/ PutTombstone(p) \/ EraseEntry(p)
        PROVE  Typed'
    BY <1>2, MovesTyped, BaselineTyped, EntryTyped
  <1>3. ASSUME NEW p \in Tasks,
               \/ Swap(p) \/ Rotate(p) \/ Place(p) \/ Verify(p) \/ Erase(p)
               \/ CopyRemote(p) \/ CopyBoth(p) \/ DeleteLocal(p) \/ ReplaceLocal(p)
               \/ MergePut(p) \/ Unmerged(p) \/ Record(p) \/ Close(p) \/ RequestFails(p) \/ PlaceFails(p)
        PROVE  Typed'
    BY <1>3, SwapsTyped, CopiesTyped, MergePutTyped, EndsTyped, FaultsTyped
  <1>4. ASSUME NEW d \in Devices, Edit(d) \/ Delete(d) \/ Crash(d) \/ StartRun(d) PROVE Typed'
    BY <1>4, EditTyped, DeleteTyped, CrashTyped, StartTyped
  <1>5. ASSUME NEW d \in Devices, NEW choice \in Choices, Resolve(d, choice) PROVE Typed'
    BY <1>5, ResolveTyped
  <1> QED  BY <1>1, <1>2, <1>3, <1>4, <1>5, NextActs DEF Acts

(* Every variable keeps its type; in particular no task is ever at a label *)
(* without the locals that label needs.                                    *)
THEOREM TypeCorrect == Spec => []TypeOK
  <1>1. Typed => TypeOK
    <2> SUFFICES ASSUME Typed PROVE TypeOK  OBVIOUS
    <2>1. Len(lineage) \in 0 .. MaxTexts /\ MaxTexts \in Nat  BY LengthTyped, Bounds DEF Typed
    <2>2. 1 .. Len(lineage) \subseteq Texts /\ 1 .. Len(lineage) \subseteq Written /\ 0 \in Written
      BY <2>1 DEF Texts, Written
    <2>3. trash \in [Devices -> SUBSET Texts]  BY <2>2 DEF Typed, DevicesTyped
    <2>4. data \in [text : Written, etag : Nat] /\ meta \in [text : Written, etag : Nat]
      BY <2>2 DEF Typed, StoreTyped, None
    <2>5. Versions(Len(lineage)) \subseteq (Written \cup {MaxTexts + 1}) \X BOOLEAN
      <3>1. ASSUME NEW t \in Written PROVE FileVersion(t) \in (Written \cup {MaxTexts + 1}) \X BOOLEAN
        BY DEF FileVersion
      <3>2. Deleted \in (Written \cup {MaxTexts + 1}) \X BOOLEAN  BY DEF Deleted
      <3> QED  BY <3>1, <3>2 DEF Versions, Written
    <2>6. Jobs(Len(lineage)) \subseteq
            [mine : Written, baseline : Written, text : Written, stage : Written,
             ancestor : Written, mark : Nat, why : {"plan", "merge", "choice"},
             choice : Choices \cup {"none"},
             remote : [version : (Written \cup {MaxTexts + 1}) \X BOOLEAN, etag : Nat, tombed : BOOLEAN]]
      BY <2>5 DEF Jobs, Written
    <2>7. job \in [Tasks ->
            [mine : Written, baseline : Written, text : Written, stage : Written,
             ancestor : Written, mark : Nat, why : {"plan", "merge", "choice"},
             choice : Choices \cup {"none"},
             remote : [version : (Written \cup {MaxTexts + 1}) \X BOOLEAN, etag : Nat, tombed : BOOLEAN]]]
      BY <2>6 DEF Typed, TasksTyped
    <2>8. backups \cup discarded \cup hasty \cup mistaken \subseteq Written
      BY <2>2 DEF Typed, StoreTyped, StoryTyped
    <2> QED  BY <2>3, <2>4, <2>7, <2>8
             DEF Typed, TextsTyped, DevicesTyped, StoreTyped, StoryTyped, TasksTyped, TypeOK
  <1> QED  BY <1>1, InitTyped, TypedStep, PTL DEF Spec

----------------------------------------------------------------------------
(* The survival of texts: what is known                                    *)

(* What TextsSurvive asks for. Excused: the texts it exempts, and those    *)
(* that what is in a bin stands for, which nothing takes out again.        *)
(* InStore: these, and those of the store's file and of its backups. Safe: *)
(* those a device may leave to the rest. A store without conditional       *)
(* requests loses no file but by a user's decision, so what is in it is    *)
(* safe; where runs replace and remove files by themselves, only what is   *)
(* excused is.                                                             *)
Excused == discarded \cup hasty \cup mistaken
             \cup UNION {Lineage(t) : t \in UNION {trash[d] : d \in Devices}}
InStore == Excused \cup Lineage(data.text) \cup UNION {Lineage(t) : t \in backups}
Safe == IF setting.store = {} THEN InStore ELSE Excused

(* What the invariant needs to know of all this, as one value: lemmas about*)
(* two views then say what a step may do to any of its parts at once.      *)
View == [lin |-> [t \in Written |-> Lineage(t)], excused |-> Excused, stored |-> InStore, safe |-> Safe,
         local |-> local, text |-> data.text, etag |-> data.etag]

(* Text t can be given up for text u: all it stands for is in u or safe    *)
(* (Within), or is in u or stored (Above). A text is Stored when all it    *)
(* stands for is; it Matches the store when all the store's file stands for*)
(* is in it. A text is Covered when the device may forget it for its own   *)
(* file.                                                                   *)
Within(v, t, u) == v.lin[t] \subseteq v.lin[u] \cup v.safe
Above(v, t, u) == v.lin[t] \subseteq v.lin[u] \cup v.stored
Stored(v, t) == v.lin[t] \subseteq v.stored
Matches(v, t) == v.lin[v.text] \subseteq v.lin[t] \cup v.excused
Covered(v, d, t) == Within(v, t, v.local[d])

(* The remote entry: its text is stored, and as long as its ETag is the    *)
(* file's the file holds nothing beyond it. A device: its baseline and the *)
(* bases it keeps are stored and covered by its file.                      *)
EntryKnown(v, m) == Stored(v, m.text) /\ (m.etag = v.etag => Matches(v, m.text))
DeviceKnown(v, d, b, k) ==
  /\ Stored(v, b) /\ Covered(v, d, b)
  /\ \A h \in Texts : Stored(v, k[h]) /\ Covered(v, d, k[h])

(* What a task knows and no other can spoil. Of what it has seen: what it  *)
(* scanned is covered, what was listed is stored, and matches the store as *)
(* long as the ETag is that of the listing.                                *)
Seen(v, d, l, j) ==
  /\ Covered(v, d, j.mine)
  /\ l # "mergePut" => Covered(v, d, j.text)
  /\ Stored(v, Remote(j))
  /\ Listed(j) /\ j.remote.etag = v.etag => Matches(v, Remote(j))

(* Of an upload or a removal: what goes up covers what it replaces, unless *)
(* a user has decided so; what is up is stored.                            *)
Uploading(v, d, l, j) ==
  /\ l \in Uploads /\ j.why = "plan" => j.text = j.mine
  /\ l \in {"recheck", "swap", "place"} => Within(v, j.text, j.stage)
  /\ l \in {"upload", "recheck", "swap"} \cup Removals /\ j.why # "choice" => Covered(v, d, Remote(j))
  /\ l \in {"recheck", "swap"} /\ j.why # "choice" => Within(v, Remote(j), j.stage)
  /\ l \in {"verify", "entry", "untomb", "settle"} => Stored(v, j.text)
  /\ l = "entry" /\ j.mark = v.etag => Matches(v, j.text)

(* Of a download or a merge: what it replaces is stored or in the text it  *)
(* writes.                                                                 *)
Fetching(v, d, l, j) ==
  /\ l = "baseline" \/ (l = "download" /\ j.why = "plan") => Stored(v, j.mine)
  /\ l = "keep" => Covered(v, d, Remote(j))
  /\ l = "mergeFetch" => Stored(v, j.ancestor) /\ Within(v, j.ancestor, j.text)
  /\ l \in Merges => Above(v, j.text, j.mine)
  /\ l = "mergePut" /\ j.text # 0 => Within(v, Remote(j), j.text)
Lasting(v, d, l, j) == Seen(v, d, l, j) /\ Uploading(v, d, l, j) /\ Fetching(v, d, l, j)

(* What a task knows of the device's file, which no other task of the      *)
(* device may touch as long as this one holds the state: the file is within*)
(* what replaces it.                                                       *)
Holding(v, d, l, j) ==
  /\ l = "replace" /\ j.why = "plan" => Within(v, v.local[d], Remote(j))
  /\ l = "keep" => Stored(v, v.local[d])
  /\ l = "mergeFetch" => Within(v, v.local[d], j.text)
  /\ l = "mergePut" => IF j.text # 0 THEN Within(v, v.local[d], j.text)
                       ELSE v.lin[v.local[d]] \subseteq v.lin[j.mine] \cup v.lin[Remote(j)] \cup v.safe

(* What a task at work relies on, whichever task of its device replaces the*)
(* file meanwhile: the file stands for nothing that is neither stored nor  *)
(* in what the task scanned, or in what it sends.                          *)
Later(v, d, l, j) ==
  /\ l # "idle" /\ (j.why = "plan" \/ l \in Merges) => Above(v, v.local[d], j.mine)
  /\ l # "idle" /\ (j.why = "choice" \/ (l \in Uploads /\ j.why = "merge")) => Above(v, v.local[d], j.text)

(* All of this; and a resolution beside a run of its device sends what the *)
(* run scanned.                                                            *)
TaskKnown(v, d, l, j) == Lasting(v, d, l, j) /\ Holding(v, d, l, j) /\ Later(v, d, l, j)

Beside(v, j, l, k) == l # "idle" => Above(v, j.mine, k.text)

(* A view as it is, and what a step may make of it.                        *)
Plain(v) ==
  /\ 0 \in DOMAIN v.lin /\ v.lin[0] = {} /\ v.text \in DOMAIN v.lin
  /\ v.excused \subseteq v.safe /\ v.safe \subseteq v.stored /\ v.lin[v.text] \subseteq v.stored
  /\ v.local \in [Devices -> DOMAIN v.lin]
Grows(v, w) ==
  /\ \A t \in DOMAIN v.lin : t \in DOMAIN w.lin /\ w.lin[t] = v.lin[t]
  /\ v.excused \subseteq w.excused /\ v.safe \subseteq w.safe /\ v.stored \subseteq w.stored
  /\ \A d \in Devices : v.lin[v.local[d]] \subseteq w.lin[w.local[d]] \cup w.safe
Shows(v, w, e) == w.etag = e => w.text = 0 \/ (v.etag = e /\ w.text = v.text)
Still(v, w, d) == w.lin[w.local[d]] \subseteq v.lin[v.local[d]] \cup w.excused

Texting(n, j) == {j.mine, j.text, j.stage, j.ancestor, Remote(j)} \subseteq 0 .. n

(* What a task knows stays known in a view that has grown, unless the store*)
(* has got the ETag it remembers for something else.                       *)
LEMMA JobTexts == ASSUME NEW n \in Nat, NEW j \in Jobs(n) PROVE Texting(n, j)
  BY RemoteTyped DEF Texting, Jobs

LEMMA MatchesStays ==
  ASSUME NEW v, NEW w, Plain(v), Plain(w), Grows(v, w), NEW e, NEW t \in DOMAIN v.lin,
         Shows(v, w, e), e = v.etag => Matches(v, t), e = w.etag
  PROVE  Matches(w, t)
  BY DEF Plain, Grows, Shows, Matches

LEMMA CoverStays ==
  ASSUME NEW v, NEW w, Plain(v), Plain(w), Grows(v, w), NEW t \in DOMAIN v.lin
  PROVE  /\ Stored(v, t) => Stored(w, t)
         /\ \A d \in Devices : Covered(v, d, t) => Covered(w, d, t)
         /\ \A u \in DOMAIN v.lin : Within(v, t, u) => Within(w, t, u)
         /\ \A u \in DOMAIN v.lin : Above(v, t, u) => Above(w, t, u)
  BY DEF Plain, Grows, Stored, Covered, Within, Above

LEMMA LastingStays ==
  ASSUME NEW v, NEW w, Plain(v), Plain(w), Grows(v, w), NEW n, DOMAIN v.lin = 0 .. n,
         NEW d \in Devices, NEW l, NEW j, Texting(n, j), Lasting(v, d, l, j),
         Shows(v, w, j.remote.etag), Shows(v, w, j.mark)
  PROVE  Lasting(w, d, l, j)
  <1>1. {j.mine, j.text, j.stage, j.ancestor, Remote(j)} \subseteq DOMAIN v.lin  BY DEF Texting
  <1>2. ASSUME NEW t \in {j.mine, j.text, j.stage, j.ancestor, Remote(j)}
        PROVE  /\ Stored(v, t) => Stored(w, t)
               /\ Covered(v, d, t) => Covered(w, d, t)
               /\ \A u \in {j.mine, j.text, j.stage, j.ancestor, Remote(j)} :
                     (Within(v, t, u) => Within(w, t, u)) /\ (Above(v, t, u) => Above(w, t, u))
    BY <1>1, CoverStays
  <1>3. Seen(w, d, l, j)
    <2>1. ASSUME Listed(j), j.remote.etag = w.etag PROVE Matches(w, Remote(j))
      BY <1>1, <2>1, MatchesStays DEF Lasting, Seen
    <2> QED  BY <1>2, <2>1 DEF Lasting, Seen
  <1>4. Uploading(w, d, l, j)
    <2>1. ASSUME l = "entry", j.mark = w.etag PROVE Matches(w, j.text)
      BY <1>1, <2>1, MatchesStays DEF Lasting, Uploading
    <2> QED  BY <1>2, <2>1 DEF Lasting, Uploading
  <1>5. Fetching(w, d, l, j)  BY <1>2 DEF Lasting, Fetching
  <1> QED  BY <1>3, <1>4, <1>5 DEF Lasting

(* What a task knows of its device's file stays known when the file loses  *)
(* nothing but what is excused.                                            *)
LEMMA HoldingStays ==
  ASSUME NEW v, NEW w, Plain(v), Plain(w), Grows(v, w), NEW n, DOMAIN v.lin = 0 .. n,
         NEW d \in Devices, NEW l, NEW j, Texting(n, j), Still(v, w, d)
  PROVE  /\ Holding(v, d, l, j) => Holding(w, d, l, j)
         /\ Later(v, d, l, j) => Later(w, d, l, j)
  <1>1. {j.mine, j.text, Remote(j), v.local[d]} \subseteq DOMAIN v.lin  BY DEF Texting, Plain
  <1>2. w.lin[j.mine] = v.lin[j.mine] /\ w.lin[j.text] = v.lin[j.text] /\ w.lin[Remote(j)] = v.lin[Remote(j)]
    BY <1>1 DEF Grows
  <1>3. /\ w.lin[w.local[d]] \subseteq v.lin[v.local[d]] \cup w.excused
        /\ w.excused \subseteq w.safe /\ w.safe \subseteq w.stored
        /\ v.safe \subseteq w.safe /\ v.stored \subseteq w.stored
    BY DEF Still, Plain, Grows
  <1>4. ASSUME NEW t \in {j.mine, j.text, Remote(j)}
        PROVE  /\ Within(v, v.local[d], t) => Within(w, w.local[d], t)
               /\ Above(v, v.local[d], t) => Above(w, w.local[d], t)
    BY <1>2, <1>3 DEF Within, Above
  <1>5. Stored(v, v.local[d]) => Stored(w, w.local[d])  BY <1>3 DEF Stored
  <1>6. v.lin[v.local[d]] \subseteq v.lin[j.mine] \cup v.lin[Remote(j)] \cup v.safe
          => w.lin[w.local[d]] \subseteq w.lin[j.mine] \cup w.lin[Remote(j)] \cup w.safe
    BY <1>2, <1>3
  <1>7. Later(v, d, l, j) => Later(w, d, l, j)  BY <1>4 DEF Later
  <1>8. Holding(v, d, l, j) => Holding(w, d, l, j)  BY <1>4, <1>5, <1>6 DEF Holding
  <1> QED  BY <1>7, <1>8

(* The same of a device and of the entry.                                  *)
LEMMA DeviceStays ==
  ASSUME NEW v, NEW w, Plain(v), Plain(w), Grows(v, w),
         NEW d \in Devices, NEW b \in DOMAIN v.lin, NEW k \in [Texts -> DOMAIN v.lin], DeviceKnown(v, d, b, k)
  PROVE  DeviceKnown(w, d, b, k)
  BY CoverStays DEF DeviceKnown

LEMMA EntryStays ==
  ASSUME NEW v, NEW w, Plain(v), Plain(w), Grows(v, w), NEW m, m.text \in DOMAIN v.lin, EntryKnown(v, m),
         Shows(v, w, m.etag)
  PROVE  EntryKnown(w, m)
  BY CoverStays, MatchesStays DEF EntryKnown

(* A task at rest asks for nothing; ending inside a merge asks for less.    *)
LEMMA IdleKnown == ASSUME NEW v, Plain(v), NEW d \in Devices PROVE TaskKnown(v, d, "idle", NoJob)
  <1>1. Remote(NoJob) = 0 /\ ~ Listed(NoJob) /\ NoJob.mine = 0 /\ NoJob.text = 0  BY DEF Remote, Listed, NoJob, NoRemote
  <1>2. v.lin[0] = {}  BY DEF Plain
  <1> QED  BY <1>1, <1>2 DEF TaskKnown, Lasting, Seen, Uploading, Fetching, Holding, Later, Covered, Within, Stored,
                             Uploads, Removals, Merges

----------------------------------------------------------------------------
(* The invariant                                                           *)

(* HoldsState of a label and locals: the task is inside an update of the   *)
(* state file.                                                             *)
Holds(l, j) == l \in {"replace", "keep", "mergeFetch", "mergePut"} \/ (j.why = "merge" /\ l # "unmerged")

(* One task of a device at a time is inside an update of its state.        *)
OneHolder == \A p, q \in Tasks : p[1] = q[1] /\ HoldsState(p) /\ HoldsState(q) => p = q

Besides(d) == Beside(View, job[<<d, "run">>], pc[<<d, "resolve">>], job[<<d, "resolve">>])

(* Every text, unless a merge made it, is in the store or in a device's    *)
(* file.                                                                   *)
Kept == \A t \in 1 .. Len(lineage) :
          t \in lineage[t] => t \in InStore \/ \E d \in Devices : t \in Lineage(local[d])

(* The inductive invariant, with Typed: Known.                             *)
StoreKnown == (setting.store # {} => backups = {}) /\ EntryKnown(View, meta)
DevicesKnown == \A d \in Devices : DeviceKnown(View, d, base[d], kept[d]) /\ Besides(d)
TasksKnown == \A p \in Tasks : TaskKnown(View, p[1], pc[p], job[p])
Known == OneHolder /\ StoreKnown /\ DevicesKnown /\ TasksKnown /\ Kept

(* What a view is in a typed state, and after a step to one.               *)
LEMMA HoldsFacts == ASSUME NEW p \in Tasks PROVE HoldsState(p) <=> Holds(pc[p], job[p])
  BY DEF HoldsState, Holds

ViewFacts ==
  /\ Plain(View) /\ DOMAIN View.lin = 0 .. Len(lineage) /\ Len(lineage) \in Nat
  /\ \A t \in 0 .. Len(lineage) : View.lin[t] = Lineage(t)
  /\ View.excused = Excused /\ View.stored = InStore /\ View.safe = Safe
  /\ View.local = local /\ View.text = data.text /\ View.etag = data.etag
  /\ \A d \in Devices : local[d] \in 0 .. Len(lineage)
  /\ \A p \in Tasks : Texting(Len(lineage), job[p])

LEMMA ViewPlain == Typed => ViewFacts
  <1> SUFFICES ASSUME Typed PROVE ViewFacts  OBVIOUS
  <1>1. Len(lineage) \in Nat /\ data.text \in 0 .. Len(lineage) /\ 0 \in 0 .. Len(lineage)
    BY DataFacts, LengthTyped, Bounds DEF Typed
  <1>2. local \in [Devices -> 0 .. Len(lineage)]  BY DEF Typed, DevicesTyped, Written
  <1>3. /\ View.excused = Excused /\ View.stored = InStore /\ View.safe = Safe
        /\ View.local = local /\ View.text = data.text /\ View.etag = data.etag
        /\ View.lin = [t \in 0 .. Len(lineage) |-> Lineage(t)]
    BY DEF View, Written
  <1>4. Lineage(0) = {}  BY DEF Lineage
  <1>5. Excused \subseteq Safe /\ Safe \subseteq InStore /\ Lineage(data.text) \subseteq InStore
    BY DEF Safe, InStore
  <1>6. ASSUME NEW p \in Tasks PROVE Texting(Len(lineage), job[p])
    BY <1>1, JobTexts DEF Typed, TasksTyped
  <1> QED  BY <1>1, <1>2, <1>3, <1>4, <1>5, <1>6 DEF Plain, ViewFacts

LEMMA NextPlain ==
  ASSUME Typed'
  PROVE  /\ Plain(View') /\ DOMAIN View'.lin = 0 .. Len(lineage') /\ Len(lineage') \in Nat
            /\ \A t \in 0 .. Len(lineage') : View'.lin[t] = Lineage(t)'
            /\ View'.excused = Excused' /\ View'.stored = InStore' /\ View'.safe = Safe'
            /\ View'.local = local' /\ View'.text = data'.text /\ View'.etag = data'.etag
            /\ \A d \in Devices : local'[d] \in 0 .. Len(lineage')
            /\ \A p \in Tasks : Texting(Len(lineage'), job'[p])
  <1>1. ViewFacts'  BY ViewPlain, PTL
  <1> QED  BY <1>1 DEF ViewFacts

(* The store's file gets an ETag of its own whenever it changes, so nobody *)
(* takes it for what was there before.                                     *)
Renewed == data' = data \/ data' = None \/ data'.etag = FreshEtag
LEMMA RenewedShows ==
  ASSUME Typed, Typed', Renewed
  PROVE  /\ Shows(View, View', meta.etag)
         /\ \A p \in Tasks : Shows(View, View', job[p].remote.etag) /\ Shows(View, View', job[p].mark)
  <1>1. View.text = data.text /\ View.etag = data.etag /\ View'.text = data'.text /\ View'.etag = data'.etag
    BY ViewPlain, NextPlain DEF ViewFacts
  <1>2. CASE data' = data  BY <1>1, <1>2 DEF Shows
  <1>3. CASE data' = None  BY <1>1, <1>3 DEF Shows, None
  <1>4. CASE data'.etag = FreshEtag
    <2>1. /\ View'.etag # meta.etag
          /\ \A p \in Tasks : View'.etag # job[p].mark /\ View'.etag # job[p].remote.etag
      BY <1>1, <1>4, EtagFresh
    <2> QED  BY <2>1 DEF Shows
  <1> QED  BY <1>2, <1>3, <1>4 DEF Renewed

(* No text changes what it was built on.                                   *)
Extends ==
  /\ Len(lineage) <= Len(lineage')
  /\ \A t \in 1 .. Len(lineage) : lineage'[t] = lineage[t]

(* Texts stay written, what is excused stays excused, and the view grows   *)
(* when no step takes away more than it says it does.                      *)
LEMMA LineageStays ==
  ASSUME Typed, Typed', Extends, NEW t \in 0 .. Len(lineage)
  PROVE  Lineage(t)' = Lineage(t) /\ t \in 0 .. Len(lineage')
  <1>1. Len(lineage) \in Nat /\ Len(lineage') \in Nat  BY ViewPlain, NextPlain DEF ViewFacts
  <1> QED  BY <1>1 DEF Extends, Lineage

LEMMA ExcusedStays ==
  ASSUME Typed, Typed', Extends, discarded \subseteq discarded', hasty \subseteq hasty', mistaken \subseteq mistaken',
         \A d \in Devices : trash[d] \subseteq trash'[d]
  PROVE  Excused \subseteq Excused'
  <1>1. ASSUME NEW d \in Devices, NEW t \in trash[d] PROVE Lineage(t) \subseteq Excused'
    <2>1. t \in 0 .. Len(lineage)  BY ViewPlain DEF ViewFacts, Typed, DevicesTyped
    <2>2. Lineage(t)' = Lineage(t)  BY <2>1, LineageStays
    <2>3. t \in UNION {trash'[e] : e \in Devices}  OBVIOUS
    <2>4. Lineage(t)' \subseteq Excused'  BY <2>3 DEF Excused
    <2> QED  BY <2>2, <2>4
  <1> QED  BY <1>1 DEF Excused

LEMMA ViewGrows ==
  ASSUME Typed, Typed', Extends, UNCHANGED setting, Excused \subseteq Excused',
         Lineage(data.text) \subseteq InStore',
         \A t \in backups : Lineage(t) \subseteq InStore',
         \A d \in Devices : Lineage(local[d]) \subseteq Lineage(local[d])' \cup Safe \cup Safe'
  PROVE  Grows(View, View')
  <1>1. InStore \subseteq InStore'
    <2>1. Excused' \subseteq InStore'  BY DEF InStore
    <2> QED  BY <2>1 DEF InStore
  <1>2. Safe \subseteq Safe'  BY <1>1 DEF Safe
  <1>3. ASSUME NEW t \in DOMAIN View.lin PROVE t \in DOMAIN View'.lin /\ View'.lin[t] = View.lin[t]
    <2>1. t \in 0 .. Len(lineage)  BY ViewPlain DEF ViewFacts
    <2>2. Lineage(t)' = Lineage(t) /\ t \in 0 .. Len(lineage')  BY <2>1, LineageStays
    <2> QED  BY <2>1, <2>2, ViewPlain, NextPlain DEF ViewFacts
  <1>4. ASSUME NEW d \in Devices PROVE View.lin[View.local[d]] \subseteq View'.lin[View'.local[d]] \cup View'.safe
    BY <1>2, ViewPlain, NextPlain DEF ViewFacts
  <1>5. View.excused = Excused /\ View.safe = Safe /\ View.stored = InStore  BY ViewPlain DEF ViewFacts
  <1>6. View'.excused = Excused' /\ View'.safe = Safe' /\ View'.stored = InStore'  BY NextPlain
  <1> QED  BY <1>1, <1>2, <1>3, <1>4, <1>5, <1>6 DEF Grows

----------------------------------------------------------------------------
(* A step keeps it                                                         *)

(* One step of one task. What the step owes: its own task, its own device  *)
(* and the entry; the rest stays known because the view grows.             *)
LEMMA BesideStays ==
  ASSUME NEW v, NEW w, Plain(v), Plain(w), Grows(v, w), NEW j, NEW l, NEW k, Beside(v, j, l, k),
         j.mine \in DOMAIN v.lin, k.text \in DOMAIN v.lin
  PROVE  Beside(w, j, l, k)
  BY CoverStays DEF Beside

LEMMA OneHolderStep ==
  ASSUME Typed, OneHolder, NEW p \in Tasks, NEW l, NEW j, Moves(p, l, j),
         Holds(l, j) => HoldsState(p) \/ StateFree(p)
  PROVE  OneHolder'
  <1>1. /\ pc'[p] = l /\ job'[p] = j
        /\ \A q \in Tasks : q # p => pc'[q] = pc[q] /\ job'[q] = job[q]
    BY DEF Moves, Typed, TasksTyped
  <1>2. ASSUME NEW q \in Tasks, q # p, q[1] = p[1], HoldsState(p)', HoldsState(q)' PROVE FALSE
    <2>1. Holds(l, j)  BY <1>1, <1>2 DEF HoldsState, Holds
    <2>2. HoldsState(q)  BY <1>1, <1>2 DEF HoldsState
    <2>3. HoldsState(p) \/ StateFree(p)  BY <2>1
    <2> QED  BY <1>2, <2>2, <2>3 DEF OneHolder, StateFree
  <1>3. ASSUME NEW q \in Tasks, NEW r \in Tasks, q # p, r # p, q[1] = r[1], HoldsState(q)', HoldsState(r)' PROVE q = r
    <2>1. HoldsState(q) /\ HoldsState(r)  BY <1>1, <1>3 DEF HoldsState
    <2> QED  BY <1>3, <2>1 DEF OneHolder
  <1>4. ASSUME NEW q \in Tasks, NEW r \in Tasks, q[1] = r[1], HoldsState(q)', HoldsState(r)' PROVE q = r
    BY <1>2, <1>3, <1>4
  <1> QED  BY <1>4 DEF OneHolder

LEMMA KeptStep ==
  ASSUME Typed, Typed', Kept, Extends, Grows(View, View'),
         \A t \in 1 .. Len(lineage') : t > Len(lineage) /\ t \in lineage'[t] => \E d \in Devices : t \in Lineage(local[d])'
  PROVE  Kept'
  <1>1. Len(lineage) \in Nat /\ Len(lineage') \in Nat  BY ViewPlain, NextPlain DEF ViewFacts
  <1>2. ASSUME NEW t \in 1 .. Len(lineage), t \in lineage'[t]
        PROVE  t \in InStore' \/ \E d \in Devices : t \in Lineage(local[d])'
    <2>1. t \in lineage[t]  BY <1>2 DEF Extends
    <2>2. CASE t \in InStore  BY <2>2, ViewPlain, NextPlain DEF Grows, ViewFacts
    <2>3. ASSUME NEW d \in Devices, t \in Lineage(local[d])
          PROVE  t \in InStore' \/ t \in Lineage(local[d])'
      <3>1. View.lin[View.local[d]] = Lineage(local[d]) /\ View'.lin[View'.local[d]] = Lineage(local[d])'
        BY ViewPlain, NextPlain DEF ViewFacts
      <3>2. View'.safe \subseteq View'.stored /\ View'.stored = InStore'  BY NextPlain DEF Plain
      <3> QED  BY <2>3, <3>1, <3>2 DEF Grows
    <2> QED  BY <2>1, <2>2, <2>3 DEF Kept
  <1> QED  BY <1>1, <1>2 DEF Kept

(* What a step owes for its own task and device; the rest is a matter of   *)
(* growth.                                                                 *)
OnlyAt(p) ==
  \A d \in Devices \ {p[1]} : local'[d] = local[d] /\ base'[d] = base[d] /\ kept'[d] = kept[d]
Siblings(p) ==
  \/ Still(View, View', p[1])
  \/ /\ HoldsState(p)
     /\ \A q \in Tasks : q[1] = p[1] /\ q # p => Later(View', q[1], pc[q], job[q])

LEMMA TasksStep ==
  ASSUME Typed, Typed', Known, NEW p \in Tasks, NEW l, NEW j, Moves(p, l, j), Extends, Grows(View, View'),
         Renewed, OnlyAt(p), Siblings(p), TaskKnown(View', p[1], l, j)
  PROVE  TasksKnown'
  <1>1. /\ pc'[p] = l /\ job'[p] = j
        /\ \A q \in Tasks : q # p => pc'[q] = pc[q] /\ job'[q] = job[q]
    BY DEF Moves, Typed, TasksTyped
  <1>2. Plain(View) /\ Plain(View') /\ DOMAIN View.lin = 0 .. Len(lineage)  BY ViewPlain, NextPlain DEF ViewFacts
  <1>3. ASSUME NEW q \in Tasks, q # p PROVE TaskKnown(View', q[1], pc[q], job[q])
    <2>1. q[1] \in Devices /\ Texting(Len(lineage), job[q])  BY TaskFacts, ViewPlain DEF ViewFacts
    <2>2. Lasting(View, q[1], pc[q], job[q]) /\ Holding(View, q[1], pc[q], job[q]) /\ Later(View, q[1], pc[q], job[q])
      BY DEF Known, TasksKnown, TaskKnown
    <2>3. Lasting(View', q[1], pc[q], job[q])  BY <1>2, <2>1, <2>2, LastingStays, RenewedShows
    <2>4. CASE Still(View, View', q[1])
      <3>1. Holding(View', q[1], pc[q], job[q]) /\ Later(View', q[1], pc[q], job[q])
        BY <1>2, <2>1, <2>2, <2>4, HoldingStays
      <3> QED  BY <2>3, <3>1 DEF TaskKnown
    <2>5. CASE q[1] # p[1]
      <3>1. View'.local[q[1]] = View.local[q[1]]  BY <2>1, <2>5, ViewPlain, NextPlain DEF ViewFacts, OnlyAt
      <3>2. View.local[q[1]] \in DOMAIN View.lin  BY <1>2, <2>1 DEF Plain
      <3>3. Still(View, View', q[1])  BY <3>1, <3>2 DEF Still, Grows
      <3> QED  BY <2>4, <3>3
    <2>6. CASE q[1] = p[1] /\ HoldsState(p) /\ Later(View', q[1], pc[q], job[q])
      <3>1. ~ HoldsState(q)  BY <1>3, <2>6 DEF Known, OneHolder
      <3>2. pc[q] \notin {"replace", "keep", "mergeFetch", "mergePut"}  BY <3>1 DEF HoldsState
      <3>3. Holding(View', q[1], pc[q], job[q])  BY <3>2 DEF Holding
      <3> QED  BY <2>3, <2>6, <3>3 DEF TaskKnown
    <2> QED  BY <1>3, <2>4, <2>5, <2>6 DEF Siblings
  <1>4. ASSUME NEW q \in Tasks PROVE TaskKnown(View', q[1], pc'[q], job'[q])
    BY <1>1, <1>3
  <1> QED  BY <1>4 DEF TasksKnown

LEMMA DevicesStep ==
  ASSUME Typed, Typed', Known, NEW p \in Tasks, NEW l, NEW j, Moves(p, l, j), Extends, Grows(View, View'),
         OnlyAt(p), DeviceKnown(View', p[1], base'[p[1]], kept'[p[1]]), Besides(p[1])'
  PROVE  DevicesKnown'
  <1>1. \A q \in Tasks : q # p => pc'[q] = pc[q] /\ job'[q] = job[q]
    BY DEF Moves, Typed, TasksTyped
  <1>2. /\ Plain(View) /\ Plain(View') /\ DOMAIN View.lin = 0 .. Len(lineage)
        /\ \A q \in Tasks : Texting(Len(lineage), job[q])
    BY ViewPlain, NextPlain DEF ViewFacts
  <1>3. ASSUME NEW d \in Devices, d # p[1] PROVE DeviceKnown(View', d, base'[d], kept'[d]) /\ Besides(d)'
    <2>1. base[d] \in DOMAIN View.lin /\ kept[d] \in [Texts -> DOMAIN View.lin]
      BY <1>2 DEF Typed, DevicesTyped, Written
    <2>2. DeviceKnown(View', d, base[d], kept[d])
      BY <1>2, <2>1, DeviceStays DEF Known, DevicesKnown
    <2>3. <<d, "run">> \in Tasks /\ <<d, "resolve">> \in Tasks /\ <<d, "run">> # p /\ <<d, "resolve">> # p
      BY <1>3 DEF Tasks
    <2>4. {job[<<d, "run">>].mine, job[<<d, "resolve">>].text} \subseteq DOMAIN View.lin
      BY <1>2, <2>3 DEF Texting
    <2>5. Besides(d)'
      <3>1. /\ job'[<<d, "run">>] = job[<<d, "run">>] /\ job'[<<d, "resolve">>] = job[<<d, "resolve">>]
            /\ pc'[<<d, "resolve">>] = pc[<<d, "resolve">>]
        BY <1>1, <2>3
      <3>2. Beside(View, job[<<d, "run">>], pc[<<d, "resolve">>], job[<<d, "resolve">>])
        BY DEF Known, DevicesKnown, Besides
      <3>3. Beside(View', job[<<d, "run">>], pc[<<d, "resolve">>], job[<<d, "resolve">>])
        BY <1>2, <2>4, <3>2, BesideStays
      <3> QED  BY <3>1, <3>3 DEF Besides
    <2> QED  BY <1>3, <2>2, <2>5 DEF OnlyAt
  <1>4. p[1] \in Devices  BY TaskFacts
  <1>5. ASSUME NEW d \in Devices PROVE DeviceKnown(View', d, base'[d], kept'[d]) /\ Besides(d)'
    BY <1>3
  <1> QED  BY <1>5 DEF DevicesKnown

(* The frame all tasks' steps use.                                         *)
LEMMA KnownStep ==
  ASSUME Typed, Typed', Known, NEW p \in Tasks, NEW l, NEW j, Moves(p, l, j), Extends, Grows(View, View'),
         Holds(l, j) => HoldsState(p) \/ StateFree(p),
         Renewed, OnlyAt(p), Siblings(p), TaskKnown(View', p[1], l, j), StoreKnown',
         DeviceKnown(View', p[1], base'[p[1]], kept'[p[1]]), Besides(p[1])',
         \A t \in 1 .. Len(lineage') : t > Len(lineage) => t \notin lineage'[t]
  PROVE  Known'
  <1>1. OneHolder'  BY OneHolderStep DEF Known
  <1>2. Kept'  BY KeptStep DEF Known
  <1>3. TasksKnown'  BY TasksStep
  <1>4. DevicesKnown'  BY DevicesStep
  <1> QED  BY <1>1, <1>2, <1>3, <1>4 DEF Known

(* A step that leaves its task's locals alone, or brings it to rest, owes  *)
(* nothing for them.                                                       *)
LEMMA StayKnown ==
  ASSUME Typed, Typed', Known, NEW p \in Tasks, Grows(View, View'), Renewed, Still(View, View', p[1])
  PROVE  TaskKnown(View', p[1], pc[p], job[p])
  <1>1. Plain(View) /\ Plain(View') /\ DOMAIN View.lin = 0 .. Len(lineage)  BY ViewPlain, NextPlain DEF ViewFacts
  <1>2. p[1] \in Devices /\ Texting(Len(lineage), job[p])  BY TaskFacts, ViewPlain DEF ViewFacts
  <1>3. Lasting(View, p[1], pc[p], job[p]) /\ Holding(View, p[1], pc[p], job[p]) /\ Later(View, p[1], pc[p], job[p])
    BY DEF Known, TasksKnown, TaskKnown
  <1>4. Lasting(View', p[1], pc[p], job[p])  BY <1>1, <1>2, <1>3, LastingStays, RenewedShows
  <1>5. Holding(View', p[1], pc[p], job[p]) /\ Later(View', p[1], pc[p], job[p])
    BY <1>1, <1>2, <1>3, HoldingStays
  <1> QED  BY <1>4, <1>5 DEF TaskKnown

LEMMA EndingKnown ==
  ASSUME NEW v, NEW d, NEW k, NEW j, k \notin {"idle", "mergePut"}, TaskKnown(v, d, k, j),
         NEW l \in {"unmerged", "record", "close"},
         l = "unmerged" => j.why # "choice", l = "record" => j.why = "plan", l = "close" => j.why = "choice"
  PROVE  TaskKnown(v, d, l, j)
  BY DEF TaskKnown, Lasting, Seen, Uploading, Fetching, Holding, Later, Uploads, Removals, Merges

LEMMA BesidesStep ==
  ASSUME Typed, Typed', Known, NEW p \in Tasks, NEW l, NEW j, Moves(p, l, j), Grows(View, View'),
         p[2] = "run" => j.mine \in {job[p].mine, 0},
         p[2] = "resolve" => l = "idle" \/ (pc[p] # "idle" /\ j.text = job[p].text)
  PROVE  Besides(p[1])'
  <1> DEFINE d == p[1]
             r == <<d, "run">>
             s == <<d, "resolve">>
  <1>1. d \in Devices /\ r \in Tasks /\ s \in Tasks /\ r # s /\ p \in {r, s} /\ (p = r => p[2] = "run") /\ (p = s => p[2] = "resolve")
    BY TaskFacts DEF Tasks
  <1>2. /\ pc'[p] = l /\ job'[p] = j
        /\ \A q \in Tasks : q # p => pc'[q] = pc[q] /\ job'[q] = job[q]
    BY DEF Moves, Typed, TasksTyped
  <1>3. /\ Plain(View) /\ Plain(View') /\ DOMAIN View.lin = 0 .. Len(lineage)
        /\ job[r].mine \in DOMAIN View.lin /\ job[s].text \in DOMAIN View.lin /\ 0 \in DOMAIN View.lin
    BY <1>1, ViewPlain, NextPlain DEF ViewFacts, Texting, Plain
  <1>4. Beside(View, job[r], pc[s], job[s])  BY <1>1 DEF Known, DevicesKnown, Besides
  <1>5. Beside(View', job[r], pc[s], job[s])  BY <1>3, <1>4, BesideStays
  <1>6. Beside(View', job'[r], pc'[s], job'[s])
    <2>1. CASE p = r
      <3>1. pc'[s] = pc[s] /\ job'[s] = job[s] /\ job'[r].mine \in {job[r].mine, 0}  BY <1>1, <1>2, <2>1
      <3>2. View'.lin[0] = {}  BY <1>3 DEF Plain
      <3> QED  BY <1>5, <3>1, <3>2 DEF Beside, Above
    <2>2. CASE p = s
      <3>1. job'[r] = job[r] /\ (pc'[s] = "idle" \/ (pc[s] # "idle" /\ job'[s].text = job[s].text))  BY <1>1, <1>2, <2>2
      <3> QED  BY <1>5, <3>1 DEF Beside, Above
    <2> QED  BY <1>1, <2>1, <2>2
  <1> QED  BY <1>6 DEF Besides

LEMMA RestsKnown ==
  ASSUME Typed, Typed', Known, NEW p \in Tasks, Rests(p), pc[p] \notin {"idle", "mergePut"}, Extends, Grows(View, View'),
         Renewed, OnlyAt(p), Still(View, View', p[1]), StoreKnown',
         DeviceKnown(View', p[1], base'[p[1]], kept'[p[1]]),
         \A t \in 1 .. Len(lineage') : t > Len(lineage) => t \notin lineage'[t]
  PROVE  Known'
  <1>1. TaskKnown(View', p[1], pc[p], job[p])  BY StayKnown
  <1>2. p[1] \in Devices /\ Plain(View')  BY TaskFacts, NextPlain
  <1>3. CASE Moves(p, "idle", NoJob)
    <2>1. TaskKnown(View', p[1], "idle", NoJob)  BY <1>2, IdleKnown
    <2>2. ~ Holds("idle", NoJob) /\ NoJob.mine = 0  BY DEF Holds, NoJob
    <2>3. Besides(p[1])'  BY <1>3, <2>2, BesidesStep
    <2> QED  BY <1>3, <2>1, <2>2, <2>3, KnownStep DEF Siblings
  <1>4. ASSUME NEW l \in {"unmerged", "record", "close"}, Moves(p, l, job[p]),
               l = "unmerged" => job[p].why # "choice",
               l = "record" => job[p].why = "plan",
               l = "close" => job[p].why = "choice"
        PROVE  Known'
    <2>1. TaskKnown(View', p[1], l, job[p])  BY <1>1, <1>4, EndingKnown
    <2>2. ~ Holds(l, job[p])  BY <1>4 DEF Holds
    <2>3. Besides(p[1])'  BY <1>4, BesidesStep
    <2> QED  BY <1>4, <2>1, <2>2, <2>3, KnownStep DEF Siblings
  <1> QED  BY <1>3, <1>4 DEF Rests

Unseen == <<local, trash, data, backups, setting, lineage, discarded, hasty, mistaken>>

(* What the view is made of; where it stays, the view stays.               *)
LEMMA SameView ==
  ASSUME Typed, UNCHANGED Unseen
  PROVE  /\ View' = View /\ Extends /\ Grows(View, View') /\ Renewed
         /\ \A d : Still(View, View', d)
         /\ \A t \in 1 .. Len(lineage') : t > Len(lineage) => t \notin lineage'[t]
  <1>1. /\ local' = local /\ trash' = trash /\ data' = data /\ backups' = backups /\ setting' = setting
        /\ lineage' = lineage /\ discarded' = discarded /\ hasty' = hasty /\ mistaken' = mistaken
    BY DEF Unseen
  <1>2. Excused' = Excused  BY <1>1 DEF Excused, Lineage
  <1>3. InStore' = InStore  BY <1>1, <1>2 DEF InStore, Lineage
  <1>4. Safe' = Safe  BY <1>1, <1>2, <1>3 DEF Safe
  <1>5. View' = View  BY <1>1, <1>2, <1>3, <1>4 DEF View, Lineage, Written
  <1>6. Len(lineage) \in Nat  BY ViewPlain DEF ViewFacts
  <1>7. Extends /\ Renewed /\ \A t \in 1 .. Len(lineage') : t > Len(lineage) => t \notin lineage'[t]
    BY <1>1, <1>6 DEF Extends, Renewed
  <1>8. Grows(View, View') /\ \A d : Still(View, View', d)  BY <1>5 DEF Grows, Still
  <1> QED  BY <1>5, <1>7, <1>8

(* A step that leaves what is in the view, the entry and what a device has *)
(* agreed on has to be looked at for its own task only.                    *)
Calm == UNCHANGED <<Unseen, base, kept, meta>>
LEMMA CalmFacts ==
  ASSUME Typed, Known, Calm, NEW p \in Tasks
  PROVE  /\ View' = View /\ StoreKnown' /\ DeviceKnown(View', p[1], base'[p[1]], kept'[p[1]]) /\ OnlyAt(p)
         /\ UNCHANGED Unseen
  <1>1. UNCHANGED Unseen /\ base' = base /\ kept' = kept /\ meta' = meta  BY DEF Calm
  <1>2. local' = local /\ backups' = backups /\ setting' = setting  BY <1>1 DEF Unseen
  <1>3. View' = View  BY <1>1, SameView
  <1>4. p[1] \in Devices  BY TaskFacts
  <1>5. DeviceKnown(View, p[1], base[p[1]], kept[p[1]])  BY <1>4 DEF Known, DevicesKnown
  <1> QED  BY <1>1, <1>2, <1>3, <1>5 DEF Known, StoreKnown, OnlyAt

LEMMA CalmStep ==
  ASSUME Typed, Typed', Known, Calm, NEW p \in Tasks, NEW l, NEW j, Moves(p, l, j),
         Holds(l, j) => HoldsState(p) \/ StateFree(p), TaskKnown(View, p[1], l, j), Besides(p[1])'
  PROVE  Known'
  BY CalmFacts, SameView, KnownStep DEF Siblings

LEMMA CalmRests ==
  ASSUME Typed, Typed', Known, Calm, NEW p \in Tasks, Rests(p), pc[p] \notin {"idle", "mergePut"}
  PROVE  Known'
  BY CalmFacts, SameView, RestsKnown

(* Rules of Within, Above and Stored.                                      *)
LEMMA ZeroFacts ==
  ASSUME NEW v, Plain(v), NEW d \in Devices
  PROVE  /\ Stored(v, 0) /\ Covered(v, d, 0) /\ Covered(v, d, v.local[d]) /\ v.lin[0] = {}
         /\ \A t : Above(v, 0, t) /\ Within(v, 0, t) /\ Within(v, t, t) /\ Above(v, t, t)
  BY DEF Plain, Stored, Covered, Within, Above

LEMMA Weaken ==
  ASSUME NEW v, Plain(v), NEW t, NEW u
  PROVE  /\ Within(v, t, u) => Above(v, t, u)
         /\ Stored(v, t) => Above(v, t, u)
         /\ Within(v, t, u) /\ Stored(v, u) => Stored(v, t)
         /\ Above(v, t, u) /\ Stored(v, u) => Stored(v, t)
         /\ \A x : Within(v, t, u) /\ Within(v, u, x) => Within(v, t, x)
         /\ \A x : Above(v, t, u) /\ Above(v, u, x) => Above(v, t, x)
         /\ \A x : Within(v, t, u) /\ Above(v, u, x) => Above(v, t, x)
  BY DEF Plain, Stored, Within, Above

LEMMA TaskHas ==
  ASSUME Typed, Known, NEW p \in Tasks
  PROVE  /\ p[1] \in Devices /\ Plain(View) /\ View.local = local
         /\ TaskKnown(View, p[1], pc[p], job[p])
         /\ DeviceKnown(View, p[1], base[p[1]], kept[p[1]])
         /\ EntryKnown(View, meta)
  BY TaskFacts, ViewPlain DEF ViewFacts, Known, TasksKnown, DevicesKnown, StoreKnown

(* What a listing shows is stored, and is what the store has when the ETag *)
(* is the same.                                                            *)
LEMMA ListingKnown ==
  ASSUME Typed, Known, NEW j, j.remote = Listing
  PROVE  /\ Stored(View, Remote(j))
         /\ Listed(j) /\ j.remote.etag = View.etag => Matches(View, Remote(j))
  <1>1. Plain(View) /\ EntryKnown(View, meta)  BY ViewPlain DEF ViewFacts, Known, StoreKnown
  <1>2. CASE Listed(j)
    <2>1. Remote(j) = meta.text /\ j.remote.etag = meta.etag  BY <1>2, ListingTyped DEF Remote, Listed
    <2> QED  BY <1>1, <2>1 DEF EntryKnown
  <1>3. CASE ~ Listed(j)
    <2>1. Remote(j) = 0  BY <1>3 DEF Remote
    <2> QED  BY <1>1, <1>3, <2>1 DEF Plain, Stored
  <1> QED  BY <1>2, <1>3

----------------------------------------------------------------------------
(* Steps that only look                                                    *)

(* Planning: the comparison of the three versions says what is covered. An *)
(* upload is only planned where the listing shows the baseline, a download *)
(* where the file is the baseline.                                         *)
LEMMA PlanKnown ==
  ASSUME Typed, Typed', Known, NEW p \in Tasks, Plan(p)
  PROVE  Known'
  <1> DEFINE d == p[1]
             v == View
  <1>1. PICK l, j : /\ Turn(p, l, j) /\ pc[p] = "list"
                    /\ l = Compare(FileVersion(base[d]), FileVersion(job[p].mine), Listing.version)
                    /\ j = [job[p] EXCEPT !.baseline = base[d], !.remote = Listing, !.text = job[p].mine]
    BY PlanTurn
  <1>2. Calm  BY DEF Plan, Calm, Unseen, device, store, story
  <1>3. /\ d \in Devices /\ Plain(v) /\ v.local = local /\ TaskKnown(v, d, "list", job[p])
        /\ DeviceKnown(v, d, base[d], kept[d])
    BY <1>1, TaskHas
  <1>4. job[p] \in Jobs(Len(lineage)) /\ Len(lineage) \in Nat /\ job[p].why = "plan" /\ job[p].mine \in 0 .. Len(lineage)
        /\ base[d] \in 0 .. Len(lineage)
    BY <1>1, TaskFacts DEF Shaped, Placed, AtResolve, Uploads, Removals, Merges, Jobs
  <1>5. j.mine = job[p].mine /\ j.text = job[p].mine /\ j.why = "plan" /\ j.remote = Listing
    BY <1>1, <1>4 DEF Jobs
  <1>6. /\ Stored(v, Remote(j))
        /\ Listed(j) /\ j.remote.etag = v.etag => Matches(v, Remote(j))
    BY <1>5, ListingKnown
  <1>7. /\ l \in {"baseline", "upload", "delete_remote", "download", "delete_local", "conflict"}
        /\ l = "baseline" => job[p].mine = 0 \/ (Listed(j) /\ Remote(j) = job[p].mine)
        /\ l \in {"upload", "delete_remote"} => Remote(j) \in {0, base[d]}
        /\ l = "download" => job[p].mine = base[d]
    BY <1>1, <1>4, <1>5, ListingTyped, CompareFacts DEF Listed, Remote
  <1>8. Covered(v, d, j.mine) /\ Above(v, v.local[d], j.mine)
    BY <1>3, <1>4, <1>5 DEF TaskKnown, Lasting, Seen, Later
  <1>9. Stored(v, 0) /\ Covered(v, d, 0) /\ Stored(v, base[d]) /\ Covered(v, d, base[d])
    BY <1>3, ZeroFacts DEF DeviceKnown
  <1> HIDE DEF v, d
  <1>10. TaskKnown(v, d, l, j)
    BY <1>5, <1>6, <1>7, <1>8, <1>9
    DEF TaskKnown, Lasting, Seen, Uploading, Fetching, Holding, Later, Uploads, Removals, Merges
  <1>11. ~ Holds(l, j)  BY <1>5, <1>7 DEF Holds
  <1> USE DEF d, v
  <1>12. Besides(d)'
    <2>1. Grows(View, View')  BY <1>2, CalmFacts, SameView
    <2>2. p[2] = "run"  BY <1>1, TaskFacts DEF Shaped, Placed, AtResolve, Uploads, Removals
    <2> QED  BY <1>1, <1>5, <2>1, <2>2, BesidesStep DEF Turn
  <1> QED  BY <1>1, <1>2, <1>10, <1>11, <1>12, CalmStep DEF Turn

(* A run starts: it has scanned the file, and a resolution at work sends no*)
(* less. A resolution starts: it sends the file.                           *)
LEMMA StartKnown ==
  ASSUME Typed, Typed', Known, NEW d \in Devices, StartRun(d)
  PROVE  Known'
  <1> DEFINE r == <<d, "run">>
             s == <<d, "resolve">>
             v == View
  <1>1. PICK j : Turn(r, "list", j) /\ pc[r] = "idle" /\ j = [job[r] EXCEPT !.mine = local[d]]
    BY StartTurn
  <1>2. Calm  BY DEF StartRun, Calm, Unseen, device, store, story
  <1>3. r \in Tasks /\ s \in Tasks /\ r # s /\ r[1] = d /\ s[1] = d /\ s[2] = "resolve"  BY DEF Tasks
  <1>4. Plain(v) /\ v.local = local /\ TaskKnown(v, d, pc[s], job[s])  BY <1>3, TaskHas
  <1>5. job[r] = NoJob /\ Shaped(setting.store, s, pc[s], job[s])
    BY <1>1, <1>3, TaskFacts DEF Shaped, Placed
  <1>6. j.mine = local[d] /\ j.text = 0 /\ j.why = "plan" /\ Remote(j) = 0 /\ ~ Listed(j)
    <2>1. j = [NoJob EXCEPT !.mine = local[d]]  BY <1>1, <1>5
    <2>2. j.mine = local[d] /\ j.text = 0 /\ j.why = "plan" /\ j.remote = NoRemote  BY <2>1 DEF NoJob
    <2>3. ~ NoRemote.version[2]  BY DEF NoRemote
    <2> QED  BY <2>2, <2>3 DEF Remote, Listed
  <1>7. /\ Stored(v, 0) /\ Covered(v, d, 0) /\ Covered(v, d, local[d]) /\ Above(v, local[d], local[d])
    BY <1>4, ZeroFacts
  <1>8. pc[s] # "idle" => Above(v, local[d], job[s].text)
    BY <1>3, <1>4, <1>5 DEF TaskKnown, Later, Shaped, Placed
  <1> HIDE DEF v
  <1>9. TaskKnown(v, d, "list", j)
    BY <1>4, <1>6, <1>7
    DEF TaskKnown, Lasting, Seen, Uploading, Fetching, Holding, Later, Uploads, Removals, Merges
  <1>10. ~ Holds("list", j)  BY <1>6 DEF Holds
  <1> USE DEF v
  <1>11. Besides(d)'
    <2>1. job'[r] = j /\ job'[s] = job[s] /\ pc'[s] = pc[s]
      BY <1>1, <1>3 DEF Turn, Moves, Typed, TasksTyped
    <2>2. View' = View  BY <1>2, <1>3, CalmFacts
    <2> QED  BY <1>6, <1>8, <2>1, <2>2 DEF Besides, Beside
  <1> QED  BY <1>1, <1>2, <1>3, <1>9, <1>10, <1>11, CalmStep DEF Turn

LEMMA ResolveKnown ==
  ASSUME Typed, Typed', Known, NEW d \in Devices, NEW choice \in Choices, Resolve(d, choice)
  PROVE  Known'
  <1> DEFINE r == <<d, "run">>
             s == <<d, "resolve">>
             v == View
  <1>1. /\ pc[s] = "idle"
        /\ \E l, j : /\ Turn(s, l, j) /\ l \in {"download", "delete_local", "delete_remote", "upload", "copyBoth", "close"}
                     /\ j = [job[s] EXCEPT !.why = "choice", !.choice = choice, !.remote = Listing,
                                           !.baseline = base[d], !.text = local[d]]
    BY ResolveTurn
  <1>2. PICK l, j : /\ Turn(s, l, j) /\ l \in {"download", "delete_local", "delete_remote", "upload", "copyBoth", "close"}
                    /\ j = [job[s] EXCEPT !.why = "choice", !.choice = choice, !.remote = Listing,
                                          !.baseline = base[d], !.text = local[d]]
    BY <1>1
  <1>3. Calm  BY DEF Resolve, Calm, Unseen, device, store
  <1>4. r \in Tasks /\ s \in Tasks /\ r # s /\ r[1] = d /\ s[1] = d  BY DEF Tasks
  <1>5. Plain(v) /\ v.local = local /\ TaskKnown(v, d, pc[r], job[r])  BY <1>4, TaskHas
  <1>6. job[s] = NoJob  BY <1>1, <1>4, TaskFacts DEF Shaped, Placed
  <1>7. j.mine = 0 /\ j.text = local[d] /\ j.why = "choice" /\ j.remote = Listing
    BY <1>2, <1>6 DEF NoJob
  <1>8. /\ Stored(v, Remote(j))
        /\ Listed(j) /\ j.remote.etag = v.etag => Matches(v, Remote(j))
    BY <1>7, ListingKnown
  <1>9. Covered(v, d, 0) /\ Covered(v, d, local[d]) /\ Above(v, local[d], local[d])
    BY <1>5, ZeroFacts
  <1>10. Above(v, job[r].mine, local[d])
    <2>1. Within(v, job[r].mine, local[d])  BY <1>5 DEF TaskKnown, Lasting, Seen, Covered
    <2> QED  BY <1>5, <2>1, Weaken
  <1> HIDE DEF v
  <1>11. TaskKnown(v, d, l, j)
    BY <1>2, <1>5, <1>7, <1>8, <1>9
    DEF TaskKnown, Lasting, Seen, Uploading, Fetching, Holding, Later, Uploads, Removals, Merges
  <1>12. ~ Holds(l, j)  BY <1>2, <1>7 DEF Holds
  <1> USE DEF v
  <1>13. Besides(d)'
    <2>1. job'[s] = j /\ job'[r] = job[r]
      BY <1>2, <1>4 DEF Turn, Moves, Typed, TasksTyped
    <2>2. View' = View  BY <1>3, <1>4, CalmFacts
    <2> QED  BY <1>7, <1>10, <2>1, <2>2 DEF Besides, Beside
  <1> QED  BY <1>2, <1>3, <1>4, <1>11, <1>12, <1>13, CalmStep DEF Turn

(* A calm step that keeps mine and text needs no look at the other task.   *)
LEMMA CalmTurn ==
  ASSUME Typed, Typed', Known, Calm, NEW p \in Tasks, pc[p] # "idle", NEW l, NEW j, Turn(p, l, j),
         Holds(l, j) => HoldsState(p) \/ StateFree(p), TaskKnown(View, p[1], l, j),
         p[2] = "run" => j.mine = job[p].mine, p[2] = "resolve" => j.text = job[p].text
  PROVE  Known'
  <1>1. Moves(p, l, j)  BY DEF Turn
  <1>2. Grows(View, View')  BY CalmFacts, SameView
  <1>3. Besides(p[1])'  BY <1>1, <1>2, BesidesStep
  <1> QED  BY <1>1, <1>3, CalmStep

(* The checks before a replacement or a removal, which find the ETag of the*)
(* listing, so that the store matches it.                                  *)
LEMMA StageKnown ==
  ASSUME Typed, Typed', Known, NEW p \in Tasks, Stage(p) \/ Recheck(p) \/ MarkRemoval(p)
  PROVE  Known'
  <1> DEFINE d == p[1]
             v == View
             k == pc[p]
  <1>1. Calm /\ k \in {"upload", "recheck", "delete_remote"}
    BY DEF Stage, Recheck, MarkRemoval, Calm, Unseen, device, store, story
  <1>2. /\ d \in Devices /\ Plain(v) /\ v.local = local /\ TaskKnown(v, d, k, job[p])  BY TaskHas
  <1>3. job[p] \in Jobs(Len(lineage))  BY TaskFacts
  <1>4. CASE Rests(p)  BY <1>1, <1>4, CalmRests
  <1>5. ASSUME NEW j, Stage(p), Turn(p, "recheck", j), j = [job[p] EXCEPT !.stage = local[d]]
        PROVE  Known'
    <2>1. /\ j.mine = job[p].mine /\ j.text = job[p].text /\ j.why = job[p].why /\ j.stage = local[d]
          /\ j.remote = job[p].remote /\ Remote(j) = Remote(job[p]) /\ Listed(j) = Listed(job[p])
      BY <1>3, <1>5 DEF Jobs, Remote, Listed
    <2>2. k = "upload"  BY <1>5 DEF Stage
    <2> HIDE DEF v, k, d
    <2>3. TaskKnown(v, d, "recheck", j)
      BY <1>2, <2>1, <2>2
      DEF TaskKnown, Lasting, Seen, Uploading, Fetching, Holding, Later, Uploads, Removals, Merges, Covered
    <2>4. Holds("recheck", j) => HoldsState(p)
      <3>1. k = pc[p]  BY DEF k
      <3> QED  BY <2>1, <2>2, <3>1, HoldsFacts DEF Holds
    <2> USE DEF v, k, d
    <2> QED  BY <1>1, <1>5, <2>1, <2>3, <2>4, CalmTurn
  <1>6. ASSUME NEW j, pc[p] = "recheck", Turn(p, "swap", j), j = [job[p] EXCEPT !.mark = data.etag]
        PROVE  Known'
    <2>1. /\ j.mine = job[p].mine /\ j.text = job[p].text /\ j.why = job[p].why /\ j.stage = job[p].stage
          /\ j.remote = job[p].remote /\ Remote(j) = Remote(job[p]) /\ Listed(j) = Listed(job[p])
      BY <1>3, <1>6 DEF Jobs, Remote, Listed
    <2> HIDE DEF v, d
    <2>3. TaskKnown(v, d, "swap", j)
      BY <1>2, <1>6, <2>1
      DEF TaskKnown, Lasting, Seen, Uploading, Fetching, Holding, Later, Uploads, Removals, Merges
    <2>4. Holds("swap", j) => HoldsState(p)  BY <1>6, <2>1, HoldsFacts DEF Holds
    <2> USE DEF v, d
    <2> QED  BY <1>1, <1>6, <2>1, <2>3, <2>4, CalmTurn
  <1>7. ASSUME NEW j, pc[p] = "delete_remote", Turn(p, "tombstone", j), j = [job[p] EXCEPT !.mark = data.etag]
        PROVE  Known'
    <2>1. /\ j.mine = job[p].mine /\ j.text = job[p].text /\ j.why = job[p].why
          /\ j.remote = job[p].remote /\ Remote(j) = Remote(job[p]) /\ Listed(j) = Listed(job[p])
      BY <1>3, <1>7 DEF Jobs, Remote, Listed
    <2> HIDE DEF v, d
    <2>3. TaskKnown(v, d, "tombstone", j)
      BY <1>2, <1>7, <2>1
      DEF TaskKnown, Lasting, Seen, Uploading, Fetching, Holding, Later, Uploads, Removals, Merges
    <2>4. Holds("tombstone", j) => HoldsState(p)  BY <1>7, <2>1, HoldsFacts DEF Holds
    <2> USE DEF v, d
    <2> QED  BY <1>1, <1>7, <2>1, <2>3, <2>4, CalmTurn
  <1> QED  BY <1>4, <1>5, <1>6, <1>7, StageTurn, RecheckTurn, MarkTurn

(* A store that holds the listed text: its download is stored.             *)
LEMMA ShownIsAll == ASSUME Typed, Known PROVE View.stored \subseteq View.lin[View.text] \cup View.safe
  <1>1. /\ View.stored = InStore /\ View.safe = Safe /\ View.text = data.text
        /\ View.lin[data.text] = Lineage(data.text)
    <2>1. data.text \in 0 .. Len(lineage)  BY DataFacts
    <2> QED  BY <2>1, ViewPlain DEF ViewFacts
  <1>2. CASE setting.store = {}  BY <1>1, <1>2 DEF Safe
  <1>3. CASE setting.store # {}
    <2>1. backups = {}  BY <1>3 DEF Known, StoreKnown
    <2>2. InStore = Excused \cup Lineage(data.text)  BY <2>1 DEF InStore
    <2> QED  BY <1>1, <1>3, <2>2 DEF Safe
  <1> QED  BY <1>2, <1>3

LEMMA FetchKnown ==
  ASSUME Typed, Typed', Known, NEW p \in Tasks, Fetch(p)
  PROVE  Known'
  <1> DEFINE d == p[1]
             v == View
             j == job[p]
  <1>1. Calm /\ pc[p] = "download" /\ StateFree(p)
    BY DEF Fetch, Calm, Unseen, device, store, story
  <1>2. /\ d \in Devices /\ Plain(v) /\ v.local = local /\ TaskKnown(v, d, "download", j)
    BY <1>1, TaskHas
  <1>3. CASE Fail(p)  BY <1>1, <1>3, FailRests, CalmRests
  <1>4. CASE data.text = j.remote.version[1] /\ Goto(p, "replace") /\ UNCHANGED job
    <2>1. lineage' = lineage  BY <1>1 DEF Calm, Unseen
    <2>2. Turn(p, "replace", j)  BY <1>1, <1>4, <2>1, SameJob, OnwardTurn DEF Onward
    <2>3. Remote(j) = data.text
      <3>1. Listed(j)  BY <1>1, TaskFacts DEF Shaped, Armed
      <3> QED  BY <1>4, <3>1 DEF Remote
    <2>4. v.stored \subseteq v.lin[Remote(j)] \cup v.safe  BY <2>3, ShownIsAll, ViewPlain DEF ViewFacts
    <2> HIDE DEF v, d, j
    <2>5. j.why = "plan" => Within(v, v.local[d], Remote(j))
      <3>1. ASSUME j.why = "plan" PROVE Stored(v, v.local[d])
        <4>1. Stored(v, j.mine) /\ Above(v, v.local[d], j.mine)
          BY <1>2, <3>1 DEF TaskKnown, Lasting, Fetching, Later
        <4> QED  BY <1>2, <4>1, Weaken
      <3> QED  BY <2>4, <3>1 DEF Stored, Within
    <2>6. TaskKnown(v, d, "replace", j)
      BY <1>2, <2>5
      DEF TaskKnown, Lasting, Seen, Uploading, Fetching, Holding, Later, Uploads, Removals, Merges
    <2> USE DEF v, d, j
    <2> QED  BY <1>1, <2>2, <2>6, CalmTurn
  <1> QED  BY <1>3, <1>4 DEF Fetch

(* From a conflict to a merge, a copy or a record.                         *)
LEMMA OnwardKnown ==
  ASSUME Typed, Typed', Known, NEW p \in Tasks, Conflict(p)
  PROVE  Known'
  <1> DEFINE d == p[1]
             v == View
             j == job[p]
  <1>1. Calm /\ pc[p] = "conflict" /\ lineage' = lineage
    BY DEF Conflict, Calm, Unseen, device, store, story
  <1>2. /\ d \in Devices /\ Plain(v) /\ v.local = local /\ TaskKnown(v, d, "conflict", j)
    BY <1>1, TaskHas
  <1>3. j.why = "plan"
    BY <1>1, TaskFacts DEF Shaped, Placed, AtResolve, Uploads, Merges, Removals, Jobs
  <1>4. CASE End(p)  BY <1>1, <1>4, EndRests, CalmRests
  <1>5. CASE Goto(p, "record") /\ UNCHANGED job
    <2>1. Rests(p)  BY <1>3, <1>5, SameJob DEF Rests
    <2> QED  BY <1>1, <2>1, CalmRests
  <1>6. CASE Listed(j) /\ Goto(p, IF setting.kind = "text" THEN "merge" ELSE "copy") /\ UNCHANGED job
    <2>1. PICK l \in {"merge", "copy"} : Turn(p, l, j)  BY <1>1, <1>6, SameJob, OnwardTurn DEF Onward
    <2>2. ~ Holds(l, j)  BY <1>3 DEF Holds
    <2> HIDE DEF v, d, j
    <2>3. TaskKnown(v, d, l, j)
      BY <1>2 DEF TaskKnown, Lasting, Seen, Uploading, Fetching, Holding, Later, Uploads, Removals, Merges
    <2> USE DEF v, d, j
    <2> QED  BY <1>1, <2>1, <2>2, <2>3, CalmTurn
  <1> QED  BY <1>4, <1>5, <1>6 DEF Conflict, Listed

(* Tombstones concern no text.                                             *)
LEMMA TombsKnown ==
  ASSUME Typed, Typed', Known, NEW p \in Tasks, DropTombstone(p) \/ PutTombstone(p)
  PROVE  Known'
  <1> DEFINE d == p[1]
             v == View
             j == job[p]
             k == pc[p]
  <1>1. Calm /\ lineage' = lineage
    BY DEF DropTombstone, PutTombstone, Calm, Unseen, device, story
  <1>2. d \in Devices /\ Plain(v) /\ v.local = local /\ TaskKnown(v, d, k, j)  BY TaskHas
  <1>3. ASSUME NEW l, <<k, l>> \in {<<"untomb", "settle">>, <<"tombstone", "erase">>}, Goto(p, l), UNCHANGED job
        PROVE  Known'
    <2>1. Turn(p, l, j)  BY <1>1, <1>3, SameJob, OnwardTurn DEF Onward
    <2>2. Holds(l, j) => HoldsState(p)  BY <1>3, HoldsFacts DEF Holds
    <2>3. k # "idle"  BY <1>3
    <2> HIDE DEF v, d, j, k
    <2>4. TaskKnown(v, d, l, j)
      BY <1>2, <1>3 DEF TaskKnown, Lasting, Seen, Uploading, Fetching, Holding, Later, Uploads, Removals, Merges
    <2> USE DEF v, d, j, k
    <2> QED  BY <1>1, <2>1, <2>2, <2>3, <2>4, CalmTurn
  <1> QED  BY <1>3 DEF DropTombstone, PutTombstone

(* A merge takes the state, so the file it read can only be changed by     *)
(* users, who are excused; its base is stored and within the file.         *)
LEMMA MergeKnown ==
  ASSUME Typed, Typed', Known, NEW p \in Tasks, Merge(p)
  PROVE  Known'
  <1> DEFINE d == p[1]
             v == View
  <1>1. Calm /\ pc[p] = "merge"  BY DEF Merge, Calm, Unseen, device, store, story
  <1>2. /\ d \in Devices /\ Plain(v) /\ v.local = local /\ TaskKnown(v, d, "merge", job[p])
        /\ DeviceKnown(v, d, base[d], kept[d])
    BY <1>1, TaskHas
  <1>3. CASE Rests(p)  BY <1>1, <1>3, CalmRests
  <1>4. ASSUME NEW j, Turn(p, "mergeFetch", j), base[d] \in Texts, StateFree(p),
               j = [job[p] EXCEPT !.why = "merge", !.text = local[d], !.ancestor = kept[d][base[d]]]
        PROVE  Known'
    <2>1. job[p] \in Jobs(Len(lineage)) /\ job[p].why = "plan" /\ p[2] = "run"
      BY <1>1, TaskFacts DEF Shaped, Placed, AtResolve, Uploads, Removals, Merges, Jobs
    <2>2. /\ j.mine = job[p].mine /\ j.text = local[d] /\ j.why = "merge" /\ j.ancestor = kept[d][base[d]]
          /\ j.remote = job[p].remote /\ Remote(j) = Remote(job[p]) /\ Listed(j) = Listed(job[p])
      BY <1>4, <2>1 DEF Jobs, Remote, Listed
    <2>3. Stored(v, j.ancestor) /\ Covered(v, d, j.ancestor)  BY <1>2, <1>4, <2>2 DEF DeviceKnown
    <2>4. Covered(v, d, local[d]) /\ Within(v, local[d], local[d])  BY <1>2, ZeroFacts
    <2>5. Above(v, local[d], j.mine)  BY <1>2, <2>1, <2>2 DEF TaskKnown, Later
    <2> HIDE DEF v, d
    <2>6. TaskKnown(v, d, "mergeFetch", j)
      BY <1>2, <2>2, <2>3, <2>4, <2>5
      DEF TaskKnown, Lasting, Seen, Uploading, Fetching, Holding, Later, Uploads, Removals, Merges, Covered
    <2> USE DEF v, d
    <2> QED  BY <1>1, <1>4, <2>1, <2>2, <2>6, CalmTurn
  <1> QED  BY <1>3, <1>4, MergeTurn

(* The merged text: where one side is the base, the other covers both.     *)
LEMMA MergedFacts ==
  ASSUME NEW v, Plain(v), NEW d, NEW j, NEW k, TaskKnown(v, d, "mergeFetch", k), k.why = "merge",
         v.text = Remote(k), v.stored \subseteq v.lin[v.text] \cup v.safe,
         j.mine = k.mine, j.why = k.why, j.remote = k.remote, Remote(j) = Remote(k), Listed(j) = Listed(k),
         Remote(k) # 0, k.text # 0,
         \/ j.text = Remote(k) /\ k.text = k.ancestor
         \/ j.text = k.text /\ Remote(k) \in {k.text, k.ancestor}
         \/ j.text = 0
  PROVE  TaskKnown(v, d, "mergePut", j)
  <1>1. /\ Stored(v, k.ancestor) /\ Within(v, k.ancestor, k.text) /\ Above(v, k.text, k.mine)
        /\ Within(v, v.local[d], k.text) /\ Above(v, v.local[d], k.mine)
        /\ Covered(v, d, k.mine) /\ Stored(v, Remote(k))
        /\ Listed(k) /\ k.remote.etag = v.etag => Matches(v, Remote(k))
    BY DEF TaskKnown, Lasting, Seen, Fetching, Holding, Later, Merges
  <1>2. Above(v, j.text, j.mine)
    BY <1>1 DEF Above, Stored, Plain
  <1>3. j.text # 0 => Within(v, Remote(j), j.text) /\ Within(v, v.local[d], j.text)
    BY <1>1 DEF Within, Stored
  <1>4. v.lin[v.local[d]] \subseteq v.lin[j.mine] \cup v.lin[Remote(j)] \cup v.safe
    BY <1>1 DEF Within, Above
  <1> QED
    BY <1>1, <1>2, <1>3, <1>4
    DEF TaskKnown, Lasting, Seen, Uploading, Fetching, Holding, Later, Uploads, Removals, Merges

LEMMA MergeFetchKnown ==
  ASSUME Typed, Typed', Known, NEW p \in Tasks, MergeFetch(p)
  PROVE  Known'
  <1>1. Calm /\ pc[p] = "mergeFetch"  BY DEF MergeFetch, Calm, Unseen, device, store, story
  <1>2. p[1] \in Devices /\ Plain(View) /\ TaskKnown(View, p[1], "mergeFetch", job[p])  BY <1>1, TaskHas
  <1>3. CASE Rests(p)  BY <1>1, <1>3, CalmRests
  <1>4. ASSUME NEW j, NEW t, Turn(p, "mergePut", j), data.text = Remote(job[p]), j = [job[p] EXCEPT !.text = t],
               \/ t = Remote(job[p]) /\ job[p].text = job[p].ancestor
               \/ t = job[p].text /\ Remote(job[p]) \in {job[p].text, job[p].ancestor}
               \/ t = 0
        PROVE  Known'
    <2>1. /\ job[p] \in Jobs(Len(lineage)) /\ Len(lineage) \in Nat /\ job[p].why = "merge" /\ p[2] = "run"
          /\ Listed(job[p]) /\ job[p].text # 0
      BY <1>1, TaskFacts DEF Shaped, Placed, Armed, AtResolve, Uploads, Removals, Merges, Jobs
    <2>2. /\ j.mine = job[p].mine /\ j.text = t /\ j.why = job[p].why
          /\ j.remote = job[p].remote /\ Remote(j) = Remote(job[p]) /\ Listed(j) = Listed(job[p])
      BY <1>4, <2>1 DEF Jobs, Remote, Listed
    <2>3. Remote(job[p]) # 0  BY <2>1, RemoteTyped
    <2>4. View.text = Remote(job[p])  BY <1>4, ViewPlain DEF ViewFacts
    <2>5. TaskKnown(View, p[1], "mergePut", j)
      BY <1>2, <1>4, <2>1, <2>2, <2>3, <2>4, ShownIsAll, MergedFacts
    <2>6. HoldsState(p)  BY <1>1 DEF HoldsState
    <2> QED  BY <1>1, <1>4, <2>1, <2>2, <2>5, <2>6, CalmTurn
  <1> QED  BY <1>3, <1>4, MergeFetchTurn

(* Tasks end, by themselves or by a failed request.                        *)
LEMMA EndsKnown ==
  ASSUME Typed, Typed', Known, NEW p \in Tasks, Unmerged(p) \/ Record(p) \/ Close(p) \/ RequestFails(p)
  PROVE  Known'
  <1>1. Calm  BY DEF Unmerged, Record, Close, RequestFails, Calm, Unseen, device, store, story
  <1>2. Rests(p)  BY EndRests, FailRests DEF Unmerged, Record, Close, RequestFails
  <1>3. pc[p] \notin {"idle", "mergePut"}  BY DEF Unmerged, Record, Close, RequestFails, Requests
  <1> QED  BY <1>1, <1>2, <1>3, CalmRests

(* The entry of an upload says what the store has.                         *)
LEMMA EntriesKnown ==
  ASSUME Typed, Typed', Known, NEW p \in Tasks, PutEntry(p) \/ EraseEntry(p)
  PROVE  Known'
  <1> DEFINE d == p[1]
             v == View
             k == pc[p]
  <1>1. UNCHANGED <<Unseen, base, kept>>
    BY DEF PutEntry, EraseEntry, Unseen, device, story
  <1>2. /\ View' = View /\ Extends /\ Grows(View, View') /\ Renewed /\ Still(View, View', d)
        /\ \A t \in 1 .. Len(lineage') : t > Len(lineage) => t \notin lineage'[t]
    BY <1>1, SameView
  <1>3. /\ d \in Devices /\ Plain(v) /\ v.local = local /\ TaskKnown(v, d, k, job[p])
        /\ DeviceKnown(v, d, base[d], kept[d])
    BY TaskHas
  <1>4. local' = local /\ base' = base /\ kept' = kept /\ setting' = setting /\ backups' = backups /\ lineage' = lineage
    BY <1>1 DEF Unseen
  <1>5. DeviceKnown(View', d, base'[d], kept'[d]) /\ OnlyAt(p)  BY <1>2, <1>3, <1>4 DEF OnlyAt
  <1>6. ASSUME NEW l, NEW j, Turn(p, l, j), TaskKnown(v, d, l, j), EntryKnown(v, meta'), Holds(l, j) => HoldsState(p),
               k # "idle", j.mine = job[p].mine, j.text = job[p].text
        PROVE  Known'
    <2>1. StoreKnown'  BY <1>2, <1>4, <1>6 DEF Known, StoreKnown
    <2>2. Besides(d)'  BY <1>2, <1>6, BesidesStep DEF Turn
    <2> QED  BY <1>2, <1>5, <1>6, <2>1, <2>2, KnownStep DEF Turn, Siblings
  <1>7. CASE PutEntry(p)
    <2>1. PICK j : Turn(p, "untomb", j) /\ k = "entry" /\ j = [job[p] EXCEPT !.mark = 0]
      BY <1>7, PutEntryTurn
    <2>2. job[p] \in Jobs(Len(lineage))  BY TaskFacts
    <2>3. /\ j.mine = job[p].mine /\ j.text = job[p].text /\ j.why = job[p].why
          /\ j.remote = job[p].remote /\ Remote(j) = Remote(job[p]) /\ Listed(j) = Listed(job[p])
      BY <2>1, <2>2 DEF Jobs, Remote, Listed
    <2>4. Holds("untomb", j) => HoldsState(p)  BY <2>1, <2>3, HoldsFacts DEF Holds
    <2>5. meta'.text = job[p].text /\ meta'.etag = job[p].mark  BY <1>7, PutEntryTurn
    <2> HIDE DEF v, d, k
    <2>6. TaskKnown(v, d, "untomb", j)
      BY <1>3, <2>1, <2>3
      DEF TaskKnown, Lasting, Seen, Uploading, Fetching, Holding, Later, Uploads, Removals, Merges
    <2>7. EntryKnown(v, meta')
      BY <1>3, <2>1, <2>5 DEF TaskKnown, Lasting, Uploading, EntryKnown
    <2> QED  BY <1>6, <2>1, <2>3, <2>4, <2>6, <2>7
  <1>8. CASE EraseEntry(p)
    <2>1. Turn(p, "forget", job[p]) /\ k = "eraseEntry"
      BY <1>4, <1>8, SameJob, OnwardTurn DEF EraseEntry, Onward
    <2>2. Holds("forget", job[p]) => HoldsState(p)  BY <2>1, HoldsFacts DEF Holds
    <2>3. EntryKnown(v, meta')
      <3>1. meta' = None  BY <1>8 DEF EraseEntry
      <3>2. v.etag = 0 => v.text = 0  BY DataFacts, ViewPlain DEF ViewFacts
      <3>3. Stored(v, 0) /\ v.lin[0] = {}  BY <1>3, ZeroFacts
      <3> QED  BY <3>1, <3>2, <3>3 DEF EntryKnown, Matches, None
    <2> HIDE DEF v, d, k
    <2>4. TaskKnown(v, d, "forget", job[p])
      BY <1>3, <2>1
      DEF TaskKnown, Lasting, Seen, Uploading, Fetching, Holding, Later, Uploads, Removals, Merges
    <2> QED  BY <1>6, <2>1, <2>2, <2>3, <2>4
  <1> QED  BY <1>7, <1>8

----------------------------------------------------------------------------
(* Baselines                                                               *)

(* Settling: a new baseline and its base are stored and covered, for the   *)
(* task has seen or sent them.                                             *)
LEMMA SettledFacts ==
  ASSUME NEW v, Plain(v), NEW d \in Devices, NEW j, j.why \in {"plan", "merge", "choice"}
  PROVE  /\ TaskKnown(v, d, "baseline", j) => Stored(v, j.mine) /\ Covered(v, d, j.mine)
         /\ TaskKnown(v, d, "settle", j) => Stored(v, j.text) /\ Covered(v, d, j.text) /\ Stored(v, v.local[d])
         /\ TaskKnown(v, d, "keep", j) => Stored(v, Remote(j)) /\ Covered(v, d, Remote(j)) /\ Stored(v, v.local[d])
  <1>1. ASSUME TaskKnown(v, d, "settle", j)
        PROVE  Stored(v, j.text) /\ Covered(v, d, j.text) /\ Stored(v, v.local[d])
    <2>1. Stored(v, j.text) /\ Covered(v, d, j.text) /\ (j.why = "plan" => j.text = j.mine)
      BY <1>1 DEF TaskKnown, Lasting, Seen, Uploading, Uploads
    <2>2. Above(v, v.local[d], j.text)
      BY <1>1, <2>1 DEF TaskKnown, Later, Uploads
    <2> QED  BY <2>1, <2>2, Weaken
  <1>2. TaskKnown(v, d, "baseline", j) => Stored(v, j.mine) /\ Covered(v, d, j.mine)
    BY DEF TaskKnown, Lasting, Seen, Fetching
  <1>3. TaskKnown(v, d, "keep", j) => Stored(v, Remote(j)) /\ Covered(v, d, Remote(j)) /\ Stored(v, v.local[d])
    BY DEF TaskKnown, Lasting, Seen, Fetching, Holding
  <1> QED  BY <1>1, <1>2, <1>3

LEMMA BaselineKnown ==
  ASSUME Typed, Typed', Known, NEW p \in Tasks,
         Baseline(p) \/ Acknowledge(p) \/ Settle(p) \/ Forget(p) \/ Keep(p)
  PROVE  Known'
  <1> DEFINE d == p[1]
             v == View
             j == job[p]
  <1>1. UNCHANGED <<Unseen, meta>> /\ pc[p] \notin {"idle", "mergePut"} /\ Rests(p)
    BY BaselineTyped DEF Baseline, Acknowledge, Settle, Forget, Keep, Unseen, store, story
  <1>2. /\ View' = View /\ Extends /\ Grows(View, View') /\ Renewed /\ Still(View, View', d)
        /\ \A t \in 1 .. Len(lineage') : t > Len(lineage) => t \notin lineage'[t]
    BY <1>1, SameView
  <1>3. /\ d \in Devices /\ Plain(v) /\ v.local = local /\ TaskKnown(v, d, pc[p], j)
        /\ DeviceKnown(v, d, base[d], kept[d]) /\ j.why \in {"plan", "merge", "choice"}
    BY TaskHas, TaskFacts DEF Jobs
  <1>4. local' = local /\ setting' = setting /\ backups' = backups /\ meta' = meta
    BY <1>1 DEF Unseen
  <1>5. base \in [Devices -> Written] /\ kept \in [Devices -> [Texts -> Written]]  BY DEF Typed, DevicesTyped
  <1>6. ASSUME NEW e \in Devices, e # d PROVE base'[e] = base[e] /\ kept'[e] = kept[e]
    BY <1>3, <1>5, <1>6 DEF Baseline, Acknowledge, Settle, Forget, Keep
  <1>7. Stored(v, 0) /\ Covered(v, d, 0) /\ Covered(v, d, local[d])  BY <1>3, ZeroFacts
  <1>8. DeviceKnown(v, d, base'[d], kept'[d])
    <2>1. CASE Baseline(p)
      <3>1. base'[d] \in {base[d], j.mine} /\ kept' = kept /\ pc[p] = "baseline"  BY <1>3, <1>5, <2>1 DEF Baseline
      <3> QED  BY <1>3, <3>1, SettledFacts DEF DeviceKnown
    <2>2. CASE Acknowledge(p)
      <3>1. base'[d] \in {base[d], 0} /\ kept' = kept  BY <1>3, <1>5, <2>2 DEF Acknowledge
      <3> QED  BY <1>3, <1>7, <3>1 DEF DeviceKnown
    <2>3. CASE Settle(p)
      <3>1. base'[d] \in {base[d], j.text}  BY <1>3, <1>5, <2>3 DEF Settle
      <3>2. \A h \in Texts : kept'[d][h] \in {kept[d][h], local[d]}  BY <1>3, <1>5, <2>3 DEF Settle
      <3>3. pc[p] = "settle"  BY <2>3 DEF Settle
      <3>4. Stored(v, j.text) /\ Covered(v, d, j.text) /\ Stored(v, local[d])  BY <1>3, <3>3, SettledFacts
      <3> QED  BY <1>3, <1>7, <3>1, <3>2, <3>4 DEF DeviceKnown
    <2>4. CASE Forget(p)
      <3>1. base'[d] \in {base[d], 0} /\ kept' = kept  BY <1>3, <1>5, <2>4 DEF Forget
      <3> QED  BY <1>3, <1>7, <3>1 DEF DeviceKnown
    <2>5. CASE Keep(p)
      <3>1. pc[p] = "keep"  BY <2>5 DEF Keep
      <3>2. Remote(j) = j.remote.version[1]  BY <3>1, TaskFacts, RemoteTyped DEF Shaped, Armed
      <3>3. base'[d] \in {base[d], Remote(j)}  BY <1>3, <1>5, <2>5, <3>2 DEF Keep
      <3>4. \A h \in Texts : kept'[d][h] \in {kept[d][h], local[d]}  BY <1>3, <1>5, <2>5 DEF Keep
      <3>5. Stored(v, Remote(j)) /\ Covered(v, d, Remote(j)) /\ Stored(v, local[d])  BY <1>3, <3>1, SettledFacts
      <3> QED  BY <1>3, <1>7, <3>3, <3>4, <3>5 DEF DeviceKnown
    <2> QED  BY <2>1, <2>2, <2>3, <2>4, <2>5
  <1>9. StoreKnown'  BY <1>2, <1>4 DEF Known, StoreKnown
  <1>10. OnlyAt(p)  BY <1>4, <1>6 DEF OnlyAt
  <1> QED  BY <1>1, <1>2, <1>8, <1>9, <1>10, RestsKnown

----------------------------------------------------------------------------
(* The store's file changes                                                *)

(* A step on the data of the store, by a task.                             *)
DataStep ==
  /\ UNCHANGED <<device, meta, setting, lineage, hasty>> /\ Renewed
  /\ discarded \subseteq discarded' /\ mistaken \subseteq mistaken'
  /\ Lineage(data.text) \subseteq InStore' /\ \A t \in backups : Lineage(t) \subseteq InStore'
  /\ setting.store # {} => backups' = {}

(* The file of the store is replaced or taken away: what is in it must be  *)
(* stored afterwards, in the view as it will be.                           *)
LEMMA SameLineage ==
  ASSUME lineage' = lineage
  PROVE  (\A t : Lineage(t)' = Lineage(t))
  BY DEF Lineage

LEMMA DataGrows ==
  ASSUME Typed, Typed', Known, DataStep, NEW p \in Tasks
  PROVE  /\ Extends /\ Grows(View, View') /\ Still(View, View', p[1]) /\ StoreKnown' /\ OnlyAt(p) /\ Renewed
         /\ DeviceKnown(View', p[1], base'[p[1]], kept'[p[1]])
         /\ \A t \in 1 .. Len(lineage') : t > Len(lineage) => t \notin lineage'[t]
         /\ View'.local = local /\ View.local = local
  <1>1. /\ local' = local /\ base' = base /\ kept' = kept /\ trash' = trash /\ meta' = meta /\ setting' = setting
        /\ lineage' = lineage /\ hasty' = hasty
    BY DEF DataStep, device
  <1>2. Len(lineage) \in Nat  BY ViewPlain DEF ViewFacts
  <1>3. Extends /\ \A t \in 1 .. Len(lineage') : t > Len(lineage) => t \notin lineage'[t]
    BY <1>1, <1>2 DEF Extends
  <1>4. Excused \subseteq Excused'  BY <1>1, <1>3, ExcusedStays DEF DataStep
  <1>5. Grows(View, View')
    <2>1. \A d \in Devices : Lineage(local[d]) \subseteq Lineage(local[d])' \cup Safe \cup Safe'
      BY <1>1, SameLineage DEF Lineage
    <2> QED  BY <1>1, <1>3, <1>4, <2>1, ViewGrows DEF DataStep
  <1>6. View'.local = local /\ View.local = local  BY <1>1, ViewPlain, NextPlain DEF ViewFacts
  <1>7. /\ Plain(View) /\ Plain(View') /\ DOMAIN View.lin = 0 .. Len(lineage) /\ p[1] \in Devices
    BY TaskFacts, ViewPlain, NextPlain DEF ViewFacts
  <1>8. Still(View, View', p[1])
    <2>1. local[p[1]] \in DOMAIN View.lin  BY <1>6, <1>7 DEF Plain
    <2> QED  BY <1>5, <1>6, <2>1 DEF Still, Grows
  <1>9. StoreKnown'
    <2>1. meta.text \in DOMAIN View.lin  BY <1>7 DEF Typed, StoreTyped, Written
    <2>2. EntryKnown(View', meta)
      BY <1>5, <1>7, <2>1, EntryStays, RenewedShows DEF DataStep, Known, StoreKnown
    <2> QED  BY <1>1, <2>2 DEF StoreKnown, DataStep
  <1>10. DeviceKnown(View', p[1], base[p[1]], kept[p[1]])
    <2>1. base[p[1]] \in DOMAIN View.lin /\ kept[p[1]] \in [Texts -> DOMAIN View.lin]
      BY <1>7 DEF Typed, DevicesTyped, Written
    <2> QED  BY <1>5, <1>7, <2>1, DeviceStays DEF Known, DevicesKnown
  <1> QED  BY <1>1, <1>3, <1>5, <1>6, <1>8, <1>9, <1>10 DEF OnlyAt, DataStep

LEMMA DataRests ==
  ASSUME Typed, Typed', Known, DataStep, NEW p \in Tasks, Rests(p), pc[p] \notin {"idle", "mergePut"}
  PROVE  Known'
  BY DataGrows, RestsKnown

LEMMA DataTurn ==
  ASSUME Typed, Typed', Known, DataStep, NEW p \in Tasks, pc[p] # "idle", NEW l, NEW j, Turn(p, l, j),
         TaskKnown(View', p[1], pc[p], job[p]) => TaskKnown(View', p[1], l, j),
         Holds(l, j) => HoldsState(p), j.mine = job[p].mine, j.text = job[p].text
  PROVE  Known'
  <1>1. TaskKnown(View', p[1], l, j)  BY DataGrows, StayKnown
  <1>2. Besides(p[1])'  BY DataGrows, BesidesStep DEF Turn
  <1> QED  BY <1>1, <1>2, DataGrows, KnownStep DEF Turn, Siblings

(* What is in InStore of a step's new state.                               *)
LEMMA StoredNow ==
  ASSUME Typed, Typed', lineage' = lineage
  PROVE  /\ data'.text = data.text => Lineage(data.text) \subseteq InStore'
         /\ Lineage(data'.text) \subseteq InStore'
         /\ \A t \in backups' : Lineage(t) \subseteq InStore'
         /\ discarded' \subseteq InStore' /\ mistaken' \subseteq InStore'
         /\ \A d \in Devices : \A t \in trash'[d] : Lineage(t) \subseteq InStore'
  <1>1. \A t : Lineage(t)' = Lineage(t)  BY SameLineage
  <1>2. Lineage(data'.text) = Lineage(data.text)'  BY DEF Lineage
  <1> QED  BY <1>1, <1>2 DEF InStore, Excused

(* What the store has when it has the ETag of a task's listing.            *)
LEMMA ReplacedText ==
  ASSUME Typed, Known, NEW p \in Tasks, NEW r, r = Remote(job[p]), Listed(job[p]), job[p].remote.etag = data.etag,
         setting.store # {}, NEW u \in 0 .. Len(lineage), Within(View, r, u)
  PROVE  Lineage(data.text) \subseteq Lineage(u) \cup Excused
  <1>1. TaskKnown(View, p[1], pc[p], job[p]) /\ View.etag = data.etag /\ View.text = data.text /\ View.safe = Safe /\ View.excused = Excused
    BY TaskHas, ViewPlain DEF ViewFacts
  <1>2. Matches(View, r)  BY <1>1 DEF TaskKnown, Lasting, Seen
  <1>3. View.lin[data.text] = Lineage(data.text) /\ View.lin[u] = Lineage(u)
    BY DataFacts, ViewPlain DEF ViewFacts
  <1>4. Safe = Excused  BY DEF Safe
  <1> QED  BY <1>1, <1>2, <1>3, <1>4 DEF Matches, Within

(* A replacement: of a matching file by what covers it, of a file a user   *)
(* has decided against, of no file.                                        *)
LEMMA PutsKnown ==
  ASSUME Typed, Typed', Known, DataStep, NEW p \in Tasks, pc[p] \in {"swap", "place"}, NEW text, Puts(p, text),
         text \in {job[p].stage, local[p[1]]}
  PROVE  Known'
  <1>1. PICK j : Turn(p, "verify", j) /\ j \in {[job[p] EXCEPT !.stage = 0, !.mark = 0],
                                                [job[p] EXCEPT !.stage = 0, !.mark = 0, !.ancestor = 0]}
    BY DEF Puts
  <1>2. job[p] \in Jobs(Len(lineage)) /\ p[1] \in Devices  BY TaskFacts
  <1>3. /\ j.mine = job[p].mine /\ j.text = job[p].text /\ j.why = job[p].why
        /\ j.remote = job[p].remote /\ Remote(j) = Remote(job[p]) /\ Listed(j) = Listed(job[p])
    <2>1. CASE j = [job[p] EXCEPT !.stage = 0, !.mark = 0]  BY <1>2, <2>1 DEF Jobs, Remote, Listed
    <2>2. CASE j = [job[p] EXCEPT !.stage = 0, !.mark = 0, !.ancestor = 0]  BY <1>2, <2>2 DEF Jobs, Remote, Listed
    <2> QED  BY <1>1, <2>1, <2>2
  <1>4. Holds("verify", j) => HoldsState(p)  BY <1>3, HoldsFacts DEF Holds
  <1>5. View'.text = text /\ View'.local = local /\ Plain(View')
    BY NextPlain, DataGrows DEF ViewFacts, Puts
  <1>6. TaskKnown(View', p[1], pc[p], job[p]) => TaskKnown(View', p[1], "verify", j)
    <2> SUFFICES ASSUME TaskKnown(View', p[1], pc[p], job[p]) PROVE TaskKnown(View', p[1], "verify", j)
      OBVIOUS
    <2>1. Within(View', job[p].text, job[p].stage) /\ Within(View', job[p].text, local[p[1]])
      BY <1>5 DEF TaskKnown, Lasting, Seen, Uploading, Covered
    <2>2. Stored(View', text)  BY <1>5 DEF Plain, Stored
    <2>3. Stored(View', j.text)  BY <1>3, <1>5, <2>1, <2>2, Weaken
    <2> QED  BY <1>3, <2>3
             DEF TaskKnown, Lasting, Seen, Uploading, Fetching, Holding, Later, Uploads, Removals, Merges
  <1> QED  BY <1>1, <1>3, <1>4, <1>6, DataTurn

LEMMA SameData ==
  ASSUME Typed, Typed', Known, UNCHANGED <<device, data, meta, backups, setting, lineage, hasty>>,
         discarded \subseteq discarded', mistaken \subseteq mistaken'
  PROVE  DataStep
  <1>1. Lineage(data.text) \subseteq InStore' /\ \A t \in backups : Lineage(t) \subseteq InStore'
    BY StoredNow
  <1> QED  BY <1>1 DEF DataStep, Renewed, Known, StoreKnown

(* The replacements and the checks around them. Rotate moves the file to   *)
(* the backups, Place discards it by the user's decision, and a failed     *)
(* Place puts it back. Verify takes any file of the right size for the one *)
(* it put there: what that file has beyond is in mistaken.                 *)
LEMMA SwapKnown ==
  ASSUME Typed, Typed', Known, NEW p \in Tasks, Swap(p)
  PROVE  Known'
  <1> DEFINE d == p[1]
             j == job[p]
  <1>1. pc[p] = "swap" /\ (j.mark = 0 \/ setting.store # {})  BY SwapTurn
  <1>2. /\ UNCHANGED <<device, meta, tomb, setting, lineage, hasty, mistaken, used>> /\ setting' = setting /\ lineage' = lineage
    BY DEF Swap
  <1>3. CASE Rests(p) /\ UNCHANGED <<data, backups, discarded>>
    <2>1. DataStep  BY <1>2, <1>3, SameData
    <2> QED  BY <1>1, <1>3, <2>1, DataRests
  <1>4. ASSUME NEW text \in {j.stage, local[d]}, Puts(p, text), UNCHANGED backups, data.etag = j.mark,
               discarded' = IF Confirmed(p) THEN discarded \cup Lineage(data.text) ELSE discarded
        PROVE  Known'
    <2>1. data'.text = text /\ data'.etag = FreshEtag /\ text \in 0 .. Len(lineage)  BY <1>4 DEF Puts
    <2>2. /\ Lineage(data'.text) \subseteq InStore' /\ discarded' \subseteq InStore'
          /\ \A t \in backups' : Lineage(t) \subseteq InStore'
      BY <1>2, StoredNow
    <2>3. /\ TaskKnown(View, d, "swap", j) /\ Plain(View) /\ View.local = local /\ Shaped(setting.store, p, "swap", j)
      BY <1>1, TaskHas, TaskFacts
    <2>4. Lineage(data.text) \subseteq InStore'
      <3>1. CASE j.mark = 0
        <4>1. data.text = 0  BY <1>4, <3>1, DataFacts
        <4> QED  BY <4>1 DEF Lineage
      <3>2. CASE Confirmed(p)  BY <1>4, <2>2, <3>2
      <3>3. CASE j.mark # 0 /\ ~ Confirmed(p)
        <4>1. Listed(j) /\ j.remote.etag = data.etag /\ setting.store # {}
          BY <1>1, <1>4, <2>3, <3>3 DEF Shaped, Armed
        <4>2. Within(View, Remote(j), text)
          <5>1. Covered(View, d, Remote(j)) /\ Within(View, Remote(j), j.stage)
            BY <2>3, <3>3 DEF TaskKnown, Lasting, Uploading, Confirmed
          <5> QED  BY <1>4, <2>3, <5>1 DEF Covered
        <4>3. Lineage(data.text) \subseteq Lineage(text) \cup Excused  BY <2>1, <4>1, <4>2, ReplacedText
        <4>4. Excused \subseteq InStore'
          <5>1. Extends  BY <1>2, ViewPlain DEF Extends, ViewFacts
          <5>2. Excused \subseteq Excused'
            BY <1>2, <1>4, <5>1, ExcusedStays DEF device
          <5> QED  BY <5>2 DEF InStore
        <4> QED  BY <2>1, <2>2, <4>3, <4>4
      <3> QED  BY <3>1, <3>2, <3>3
    <2>5. DataStep
      <3>1. discarded \subseteq discarded' /\ mistaken' = mistaken /\ backups' = backups  BY <1>2, <1>4
      <3> QED  BY <1>2, <2>1, <2>2, <2>4, <3>1 DEF DataStep, Renewed, Known, StoreKnown
    <2> QED  BY <1>1, <1>4, <2>5, PutsKnown
  <1> QED  BY <1>3, <1>4, SwapTurn

LEMMA RotateKnown ==
  ASSUME Typed, Typed', Known, NEW p \in Tasks, Rotate(p)
  PROVE  Known'
  <1>1. pc[p] = "swap" /\ setting.store = {}  BY RotateTurn
  <1>2. UNCHANGED <<device, meta, tomb, setting, lineage, hasty, mistaken, used>> /\ lineage' = lineage
    BY DEF Rotate
  <1>3. CASE Rests(p) /\ UNCHANGED <<data, backups, discarded>>
    <2>1. DataStep  BY <1>2, <1>3, SameData
    <2> QED  BY <1>1, <1>3, <2>1, DataRests
  <1>4. ASSUME NEW j, Turn(p, "place", j), backups' = backups \cup {data.text}, data' = None, UNCHANGED discarded,
               j = [job[p] EXCEPT !.ancestor = data.text]
        PROVE  Known'
    <2>1. DataStep
      <3>1. data.text \in backups' /\ backups \subseteq backups'  BY <1>4
      <3>2. \A t \in backups' : Lineage(t) \subseteq InStore'  BY <1>2, StoredNow
      <3> QED  BY <1>1, <1>2, <1>4, <3>1, <3>2 DEF DataStep, Renewed
    <2>2. job[p] \in Jobs(Len(lineage))  BY TaskFacts
    <2>3. /\ j.mine = job[p].mine /\ j.text = job[p].text /\ j.why = job[p].why /\ j.stage = job[p].stage
          /\ j.remote = job[p].remote /\ Remote(j) = Remote(job[p]) /\ Listed(j) = Listed(job[p])
      BY <1>4, <2>2 DEF Jobs, Remote, Listed
    <2>4. Holds("place", j) => HoldsState(p)  BY <2>3, HoldsFacts, <1>1 DEF Holds
    <2>5. TaskKnown(View', p[1], "swap", job[p]) => TaskKnown(View', p[1], "place", j)
      BY <2>3 DEF TaskKnown, Lasting, Seen, Uploading, Fetching, Holding, Later, Uploads, Removals, Merges
    <2> QED  BY <1>1, <1>4, <2>1, <2>3, <2>4, <2>5, DataTurn
  <1> QED  BY <1>3, <1>4, RotateTurn

LEMMA PlaceKnown ==
  ASSUME Typed, Typed', Known, NEW p \in Tasks, Place(p)
  PROVE  Known'
  <1>1. pc[p] = "place" /\ setting.store = {}  BY PlaceTurn, TaskFacts DEF Shaped, Armed
  <1>2. UNCHANGED <<device, meta, tomb, setting, lineage, hasty, mistaken, used>> /\ lineage' = lineage
    BY DEF Place
  <1>3. CASE Rests(p) /\ UNCHANGED <<data, backups, discarded>>
    <2>1. DataStep  BY <1>2, <1>3, SameData
    <2> QED  BY <1>1, <1>3, <2>1, DataRests
  <1>4. CASE /\ Puts(p, job[p].stage) /\ data = None /\ backups' = backups \ {job[p].ancestor}
             /\ discarded' = discarded \cup Lineage(job[p].ancestor)
    <2>1. Lineage(data.text) = {}  BY <1>4 DEF None, Lineage
    <2>2. (\A t \in backups' : Lineage(t) \subseteq InStore') /\ discarded' \subseteq InStore'  BY <1>2, StoredNow
    <2>3. \A t \in backups : Lineage(t) \subseteq InStore'  BY <1>4, <2>2
    <2>4. DataStep  BY <1>1, <1>2, <1>4, <2>1, <2>3 DEF DataStep, Renewed, Puts
    <2> QED  BY <1>1, <1>4, <2>4, PutsKnown
  <1> QED  BY <1>3, <1>4, PlaceTurn

LEMMA PlaceFailsKnown ==
  ASSUME Typed, Typed', Known, NEW p \in Tasks, PlaceFails(p)
  PROVE  Known'
  <1>1. pc[p] = "place" /\ setting.store = {} /\ Rests(p)
    BY FailRests, TaskFacts DEF PlaceFails, Shaped, Armed
  <1>2. UNCHANGED <<device, meta, tomb, setting, lineage, discarded, hasty, mistaken>> /\ lineage' = lineage
    BY DEF PlaceFails
  <1>3. CASE UNCHANGED <<data, backups>>
    <2>1. DataStep  BY <1>2, <1>3, SameData
    <2> QED  BY <1>1, <2>1, DataRests
  <1>4. CASE /\ data = None /\ data' = [text |-> job[p].ancestor, etag |-> FreshEtag]
             /\ backups' = backups \ {job[p].ancestor}
    <2>1. Lineage(data.text) = {}  BY <1>4 DEF None, Lineage
    <2>2. (\A t \in backups' : Lineage(t) \subseteq InStore') /\ Lineage(data'.text) \subseteq InStore'
      BY <1>2, StoredNow
    <2>3. \A t \in backups : Lineage(t) \subseteq InStore'  BY <1>4, <2>2
    <2>4. DataStep  BY <1>1, <1>2, <1>4, <2>1, <2>3 DEF DataStep, Renewed
    <2> QED  BY <1>1, <2>4, DataRests
  <1> QED  BY <1>3, <1>4 DEF PlaceFails

LEMMA VerifyKnown ==
  ASSUME Typed, Typed', Known, NEW p \in Tasks, Verify(p)
  PROVE  Known'
  <1>1. UNCHANGED <<device, store, setting, lineage, discarded, hasty, used>> /\ pc[p] = "verify" /\ lineage' = lineage
        /\ data' = data
    BY DEF Verify, store
  <1>2. CASE Rests(p) /\ UNCHANGED mistaken
    <2>1. DataStep  BY <1>1, <1>2, SameData DEF store
    <2> QED  BY <1>1, <1>2, <2>1, DataRests
  <1>3. ASSUME NEW j, Turn(p, "entry", j), j = [job[p] EXCEPT !.mark = data.etag],
               mistaken' = mistaken \cup (Lineage(data.text) \ Lineage(job[p].text))
        PROVE  Known'
    <2>1. DataStep  BY <1>1, <1>3, SameData DEF store
    <2>2. job[p] \in Jobs(Len(lineage))  BY TaskFacts
    <2>3. /\ j.mine = job[p].mine /\ j.text = job[p].text /\ j.why = job[p].why
          /\ j.remote = job[p].remote /\ Remote(j) = Remote(job[p]) /\ Listed(j) = Listed(job[p])
      BY <1>3, <2>2 DEF Jobs, Remote, Listed
    <2>4. Holds("entry", j) => HoldsState(p)  BY <2>3, HoldsFacts, <1>1 DEF Holds
    <2>5. Matches(View', job[p].text)
      <3>1. ASSUME NEW t \in 0 .. Len(lineage) PROVE View'.lin[t] = Lineage(t)
        BY <1>1, <3>1, SameLineage, NextPlain DEF ViewFacts
      <3>2. View'.lin[data.text] = Lineage(data.text) /\ View'.lin[job[p].text] = Lineage(job[p].text)
        BY <2>2, <3>1, DataFacts DEF Jobs
      <3>3. mistaken' \subseteq View'.excused /\ View'.text = data.text
        BY <1>1, NextPlain DEF ViewFacts, Excused
      <3> QED  BY <1>3, <3>2, <3>3 DEF Matches
    <2>6. TaskKnown(View', p[1], "verify", job[p]) => TaskKnown(View', p[1], "entry", j)
      BY <2>3, <2>5 DEF TaskKnown, Lasting, Seen, Uploading, Fetching, Holding, Later, Uploads, Removals, Merges
    <2> QED  BY <1>1, <1>3, <2>1, <2>3, <2>4, <2>6, DataTurn
  <1> QED  BY <1>2, <1>3, VerifyTurn

(* A removal: the condition on the ETag makes the file match the listing,  *)
(* which the device had seen and its file lacks by now; when the device has*)
(* a file again, what is removed is in mistaken.                           *)
LEMMA EraseKnown ==
  ASSUME Typed, Typed', Known, NEW p \in Tasks, Erase(p)
  PROVE  Known'
  <1> DEFINE d == p[1]
             j == job[p]
  <1>1. UNCHANGED <<device, meta, backups, setting, lineage, hasty, used>> /\ pc[p] = "erase" /\ lineage' = lineage
        /\ backups' = backups
    BY DEF Erase
  <1>2. CASE Changed(p) /\ UNCHANGED <<data, discarded, mistaken>>
    <2>1. DataStep  BY <1>1, <1>2, SameData
    <2>2. Rests(p)  BY <1>2, ChangedRests
    <2> QED  BY <1>1, <2>1, <2>2, DataRests
  <1>3. CASE /\ data = None \/ data.etag = j.mark \/ j.mark = 0 \/ ~ Can("ifMatch")
             /\ data' = None
             /\ discarded' = IF Confirmed(p) THEN discarded \cup Lineage(data.text) ELSE discarded
             /\ mistaken' = IF ~ Confirmed(p) /\ local[p[1]] # 0 THEN mistaken \cup Lineage(data.text) ELSE mistaken
             /\ Goto(p, "eraseEntry") /\ UNCHANGED job
    <2>1. /\ discarded' \subseteq InStore' /\ mistaken' \subseteq InStore'
          /\ \A t \in backups' : Lineage(t) \subseteq InStore'
      BY <1>1, StoredNow
    <2>2. /\ TaskKnown(View, d, "erase", j) /\ Plain(View) /\ View.local = local /\ Shaped(setting.store, p, "erase", j)
          /\ local[d] \in 0 .. Len(lineage)
      BY <1>1, TaskHas, TaskFacts
    <2>3. Lineage(data.text) \subseteq InStore'
      <3>1. CASE data = None  BY <3>1 DEF None, Lineage
      <3>2. CASE Confirmed(p)  BY <1>3, <2>1, <3>2
      <3>3. CASE data # None /\ ~ Confirmed(p)
        <4>1. Listed(j) /\ j.remote.etag = data.etag /\ setting.store # {}
          BY <1>3, <2>2, <3>3 DEF Shaped, Armed, Can, Confirmed, Removals
        <4>2. Within(View, Remote(j), local[d])
          BY <2>2, <3>3 DEF TaskKnown, Lasting, Uploading, Confirmed, Covered, Removals
        <4>3. Lineage(data.text) \subseteq Lineage(local[d]) \cup Excused  BY <2>2, <4>1, <4>2, ReplacedText
        <4>4. Excused \subseteq InStore'
          <5>1. Extends  BY <1>1, ViewPlain DEF Extends, ViewFacts
          <5>2. Excused \subseteq Excused'  BY <1>1, <1>3, <5>1, ExcusedStays DEF device
          <5> QED  BY <5>2 DEF InStore
        <4>5. CASE local[d] = 0  BY <4>3, <4>4, <4>5 DEF Lineage
        <4>6. CASE local[d] # 0  BY <1>3, <2>1, <3>3, <4>6
        <4> QED  BY <4>5, <4>6
      <3> QED  BY <3>1, <3>2, <3>3
    <2>4. DataStep
      <3>1. discarded \subseteq discarded' /\ mistaken \subseteq mistaken'  BY <1>3
      <3> QED  BY <1>1, <1>3, <2>1, <2>3, <3>1 DEF DataStep, Renewed, Known, StoreKnown
    <2>5. Turn(p, "eraseEntry", j)  BY <1>1, <1>3, SameJob, OnwardTurn DEF Onward
    <2>6. Holds("eraseEntry", j) => HoldsState(p)  BY <1>1, HoldsFacts DEF Holds
    <2>7. TaskKnown(View', d, "erase", j) => TaskKnown(View', d, "eraseEntry", j)
      BY DEF TaskKnown, Lasting, Seen, Uploading, Fetching, Holding, Later, Uploads, Removals, Merges
    <2> QED  BY <1>1, <2>4, <2>5, <2>6, <2>7, DataTurn
  <1> QED  BY <1>2, <1>3 DEF Erase

----------------------------------------------------------------------------
(* A device's file changes                                                 *)

(* A step on the file and the bin of a device.                             *)
FileStep(d) ==
  /\ UNCHANGED <<base, kept, store, setting>> /\ Extends
  /\ discarded \subseteq discarded' /\ hasty \subseteq hasty' /\ mistaken \subseteq mistaken'
  /\ \A e \in Devices : trash[e] \subseteq trash'[e]
  /\ \A e \in Devices : e # d => local'[e] = local[e]
  /\ Lineage(local[d]) \subseteq Lineage(local[d])' \cup Safe \cup Safe'

LEMMA FileGrows ==
  ASSUME Typed, Typed', Known, NEW d \in Devices, FileStep(d)
  PROVE  /\ Grows(View, View') /\ StoreKnown' /\ Renewed /\ Extends
         /\ \A e \in Devices : DeviceKnown(View', e, base'[e], kept'[e])
         /\ \A e \in Devices : e # d => local'[e] = local[e] /\ base'[e] = base[e] /\ kept'[e] = kept[e]
         /\ View'.local = local' /\ View.local = local
  <1>1. /\ base' = base /\ kept' = kept /\ data' = data /\ meta' = meta /\ backups' = backups /\ setting' = setting
        /\ Extends
    BY DEF FileStep, store
  <1>2. Excused \subseteq Excused'  BY <1>1, ExcusedStays DEF FileStep
  <1>3. View'.local = local' /\ View.local = local  BY ViewPlain, NextPlain DEF ViewFacts
  <1>4. /\ Plain(View) /\ Plain(View') /\ DOMAIN View.lin = 0 .. Len(lineage)
    BY ViewPlain, NextPlain DEF ViewFacts
  <1>5. Grows(View, View')
    <2>1. ASSUME NEW t \in 0 .. Len(lineage), t \in backups \/ t = data.text PROVE Lineage(t) \subseteq InStore'
      <3>1. Lineage(t)' = Lineage(t)  BY <1>1, LineageStays
      <3>2. (t \in backups' \/ t = data'.text) => Lineage(t)' \subseteq InStore'
        <4>1. CASE t \in backups'  BY <4>1 DEF InStore
        <4>2. CASE t = data'.text
          <5>1. Lineage(data.text)' = Lineage(t)'  BY <4>2 DEF Lineage
          <5> QED  BY <5>1 DEF InStore
        <4> QED  BY <4>1, <4>2
      <3> QED  BY <1>1, <2>1, <3>1, <3>2
    <2>2. data.text \in 0 .. Len(lineage) /\ backups \subseteq 0 .. Len(lineage)
      BY DataFacts, ViewPlain DEF ViewFacts, Typed, StoreTyped
    <2>3. Lineage(data.text) \subseteq InStore' /\ \A t \in backups : Lineage(t) \subseteq InStore'
      BY <2>1, <2>2
    <2>4. ASSUME NEW e \in Devices PROVE Lineage(local[e]) \subseteq Lineage(local[e])' \cup Safe \cup Safe'
      <3>1. CASE e = d  BY <3>1 DEF FileStep
      <3>2. CASE e # d
        <4>1. local[e] \in 0 .. Len(lineage) /\ local'[e] = local[e]  BY <3>2, ViewPlain DEF ViewFacts, FileStep
        <4>2. (Lineage(local[e]))' = View'.lin[local'[e]] /\ View'.lin[local[e]] = View.lin[local[e]]
          <5>1. View'.lin[local[e]] = View.lin[local[e]] /\ local[e] \in 0 .. Len(lineage')
            BY <1>1, <4>1, LineageStays, ViewPlain, NextPlain DEF ViewFacts
          <5>2. local'[e] \in 0 .. Len(lineage')  BY <4>1, <5>1
          <5> QED  BY <5>1, <5>2, NextPlain DEF ViewFacts, Lineage
        <4> QED  BY <4>1, <4>2, ViewPlain DEF ViewFacts
      <3> QED  BY <3>1, <3>2
    <2> QED  BY <1>1, <1>2, <2>3, <2>4, ViewGrows
  <1>6. StoreKnown'
    <2>1. meta.text \in DOMAIN View.lin  BY <1>4 DEF Typed, StoreTyped, Written
    <2>2. EntryKnown(View', meta)
      BY <1>1, <1>4, <1>5, <2>1, EntryStays, RenewedShows DEF Renewed, Known, StoreKnown
    <2> QED  BY <1>1, <2>2 DEF StoreKnown, Known
  <1>7. ASSUME NEW e \in Devices PROVE DeviceKnown(View', e, base'[e], kept'[e])
    <2>1. base[e] \in DOMAIN View.lin /\ kept[e] \in [Texts -> DOMAIN View.lin]
      BY <1>4 DEF Typed, DevicesTyped, Written
    <2> QED  BY <1>1, <1>4, <1>5, <2>1, DeviceStays DEF Known, DevicesKnown
  <1> QED  BY <1>1, <1>3, <1>5, <1>6, <1>7 DEF FileStep, Renewed

(* Copies, deletions and replacements of the device's file.                *)
LEMMA LastStays ==
  ASSUME Typed, Typed', Known, NEW p \in Tasks, Grows(View, View'), Renewed
  PROVE  Lasting(View', p[1], pc[p], job[p])
  <1>1. Plain(View) /\ Plain(View') /\ DOMAIN View.lin = 0 .. Len(lineage)  BY ViewPlain, NextPlain DEF ViewFacts
  <1>2. p[1] \in Devices /\ Texting(Len(lineage), job[p])  BY TaskFacts, ViewPlain DEF ViewFacts
  <1>3. Lasting(View, p[1], pc[p], job[p])  BY DEF Known, TasksKnown, TaskKnown
  <1> QED  BY <1>1, <1>2, <1>3, LastingStays, RenewedShows

LEMMA CopiesKnown ==
  ASSUME Typed, Typed', Known, NEW p \in Tasks, CopyRemote(p) \/ CopyBoth(p)
  PROVE  Known'
  <1> DEFINE d == p[1]
             w == View'
  <1>1. /\ UNCHANGED <<local, base, kept, conflict, store, setting, story>> /\ pc[p] \in {"copy", "copyBoth"}
        /\ lineage' = lineage /\ local' = local
    BY DEF CopyRemote, CopyBoth, story
  <1>2. d \in Devices /\ local[d] \in 0 .. Len(lineage) /\ Len(lineage) \in Nat /\ trash \in [Devices -> SUBSET (1 .. Len(lineage))]
    BY TaskFacts DEF Typed, DevicesTyped
  <1>3. \A e \in Devices : trash[e] \subseteq trash'[e]  BY <1>2 DEF CopyRemote, CopyBoth
  <1>4. FileStep(d)
    <2>1. Extends  BY <1>1, <1>2 DEF Extends
    <2>2. Lineage(local[d])' = Lineage(local[d])  BY <1>1 DEF Lineage
    <2> QED  BY <1>1, <1>3, <2>1, <2>2 DEF FileStep, story
  <1>5. /\ Grows(View, w) /\ StoreKnown' /\ Renewed /\ Extends /\ DeviceKnown(w, d, base'[d], kept'[d]) /\ OnlyAt(p)
        /\ w.local = local /\ View.local = local
    BY <1>1, <1>2, <1>4, FileGrows DEF OnlyAt
  <1>6. Still(View, w, d)
    <2>1. local[d] \in DOMAIN View.lin  BY <1>2, ViewPlain DEF ViewFacts
    <2> QED  BY <1>5, <2>1 DEF Still, Grows
  <1>7. \A t \in 1 .. Len(lineage') : t > Len(lineage) => t \notin lineage'[t]  BY <1>1, <1>2
  <1>8. CASE Rests(p)  BY <1>1, <1>5, <1>6, <1>7, <1>8, RestsKnown
  <1>9. CASE CopyRemote(p)
    <2>1. CASE Fail(p)  BY <1>8, <2>1, FailRests
    <2>2. CASE Goto(p, "record") /\ UNCHANGED job
      <3>1. pc[p] = "copy"  BY <1>9 DEF CopyRemote
      <3>2. job[p].why = "plan"
        BY <3>1, TaskFacts DEF Shaped, Placed, AtResolve, Uploads, Merges, Removals, Jobs
      <3>3. Rests(p)  BY <2>2, <3>2, SameJob DEF Rests
      <3> QED  BY <1>8, <3>3
    <2> QED  BY <1>9, <2>1, <2>2 DEF CopyRemote
  <1>10. ASSUME NEW j, CopyBoth(p), Turn(p, Push(d), j), j = [job[p] EXCEPT !.text = local[d]]
         PROVE  Known'
    <2> DEFINE l == Push(d)
               r == <<d, "run">>
    <2>1. pc[p] = "copyBoth"  BY <1>10 DEF CopyBoth
    <2>2. job[p] \in Jobs(Len(lineage)) /\ job[p].why = "choice" /\ p = <<d, "resolve">> /\ r \in Tasks /\ r # p
      BY <2>1, TaskFacts DEF Shaped, Placed, Tasks
    <2>3. /\ j.mine = job[p].mine /\ j.text = local[d] /\ j.why = "choice"
          /\ j.remote = job[p].remote /\ Remote(j) = Remote(job[p]) /\ Listed(j) = Listed(job[p])
      BY <1>10, <2>2 DEF Jobs, Remote, Listed
    <2>4. Lasting(w, d, "copyBoth", job[p]) /\ Lasting(w, d, pc[r], job[r])
      <3>1. r[1] = d  OBVIOUS
      <3> QED  BY <1>5, <2>1, <2>2, <3>1, LastStays
    <2>5. Plain(w) /\ Covered(w, d, local[d]) /\ Above(w, local[d], local[d])
      BY <1>2, <1>5, NextPlain, ZeroFacts DEF ViewFacts
    <2>6. l \in {"upload", "delete_remote"} /\ Moves(p, l, j)  BY <1>10 DEF Push, Turn
    <2>7. Besides(d)'
      <3>1. job'[p] = j /\ job'[r] = job[r]  BY <2>2, <2>6 DEF Moves, Typed, TasksTyped
      <3>2. Within(w, job[r].mine, local[d])  BY <1>5, <2>4 DEF Lasting, Seen, Covered
      <3>3. Above(w, job[r].mine, local[d])  BY <2>5, <3>2, Weaken
      <3> QED  BY <2>2, <2>3, <3>1, <3>3 DEF Besides, Beside
    <2> HIDE DEF w, d, l
    <2>8. TaskKnown(w, d, l, j)
      BY <1>5, <2>3, <2>4, <2>5, <2>6
      DEF TaskKnown, Lasting, Seen, Uploading, Fetching, Holding, Later, Uploads, Removals, Merges
    <2>9. ~ Holds(l, j)  BY <2>3, <2>6 DEF Holds
    <2> USE DEF w, d
    <2> QED  BY <1>5, <1>6, <1>7, <2>6, <2>7, <2>8, <2>9, KnownStep DEF Siblings
  <1> QED  BY <1>8, <1>9, <1>10, CopyBothTurn

LEMMA DeleteLocalKnown ==
  ASSUME Typed, Typed', Known, NEW p \in Tasks, DeleteLocal(p)
  PROVE  Known'
  <1> DEFINE d == p[1]
             w == View'
  <1>1. /\ UNCHANGED <<base, kept, conflict, store, setting, story>> /\ pc[p] = "delete_local" /\ lineage' = lineage
        /\ trash' = [trash EXCEPT ![d] = @ \cup ({local[d]} \ {0})] /\ local' = [local EXCEPT ![d] = 0]
    BY DEF DeleteLocal, story
  <1>2. d \in Devices /\ local[d] \in 0 .. Len(lineage) /\ Len(lineage) \in Nat /\ trash \in [Devices -> SUBSET (1 .. Len(lineage))]
        /\ local \in [Devices -> Written]
    BY TaskFacts DEF Typed, DevicesTyped
  <1>3. local'[d] = 0 /\ (\A e \in Devices : e # d => local'[e] = local[e])
        /\ (\A e \in Devices : trash[e] \subseteq trash'[e]) /\ (local[d] # 0 => local[d] \in trash'[d])
    BY <1>1, <1>2
  <1>4. Lineage(local[d]) \subseteq Safe'
    <2>1. CASE local[d] = 0  BY <2>1 DEF Lineage
    <2>2. CASE local[d] # 0
      <3>1. Lineage(local[d])  \subseteq Excused'
        <4>1. ASSUME NEW t \in trash'[d] PROVE Lineage(t)' \subseteq Excused'  BY <1>2 DEF Excused
        <4>2. \A t : Lineage(t)' = Lineage(t)  BY <1>1, SameLineage
        <4> QED  BY <1>3, <2>2, <4>1, <4>2
      <3> QED  BY <3>1 DEF Safe, InStore
    <2> QED  BY <2>1, <2>2
  <1>5. FileStep(d)
    <2>1. Extends  BY <1>1, <1>2 DEF Extends
    <2> QED  BY <1>1, <1>3, <1>4, <2>1 DEF FileStep, story
  <1>6. /\ Grows(View, w) /\ StoreKnown' /\ Renewed /\ Extends /\ DeviceKnown(w, d, base'[d], kept'[d]) /\ OnlyAt(p)
        /\ w.local = local' /\ View.local = local
    BY <1>2, <1>5, FileGrows DEF OnlyAt
  <1>7. Still(View, w, d)  BY <1>3, <1>6, NextPlain DEF Still, Plain
  <1>8. \A t \in 1 .. Len(lineage') : t > Len(lineage) => t \notin lineage'[t]  BY <1>1, <1>2
  <1>9. CASE Done(p)
    <2>1. Rests(p)  BY <1>9, DoneRests
    <2> QED  BY <1>1, <1>6, <1>7, <1>8, <2>1, RestsKnown
  <1>10. CASE job[p].why # "choice" /\ Goto(p, "acknowledge") /\ UNCHANGED job
    <2>1. Turn(p, "acknowledge", job[p])  BY <1>1, <1>10, SameJob, OnwardTurn DEF Onward
    <2>2. TaskKnown(w, d, "delete_local", job[p])  BY <1>1, <1>6, <1>7, StayKnown
    <2>3. Besides(d)'  BY <1>1, <1>6, <2>1, BesidesStep DEF Turn
    <2>4. Holds("acknowledge", job[p]) => HoldsState(p)  BY <1>1, HoldsFacts DEF Holds
    <2> HIDE DEF w, d
    <2>5. TaskKnown(w, d, "acknowledge", job[p])
      BY <2>2 DEF TaskKnown, Lasting, Seen, Uploading, Fetching, Holding, Later, Uploads, Removals, Merges
    <2> USE DEF w, d
    <2> QED  BY <1>6, <1>7, <1>8, <2>1, <2>3, <2>4, <2>5, KnownStep DEF Siblings, Turn
  <1> QED  BY <1>9, <1>10 DEF DeleteLocal

(* A download replaces the file by what covers it, or by what its user has *)
(* decided for; a sibling task still finds the file in the store or in what*)
(* it holds.                                                               *)
LEMMA ReplaceKnown ==
  ASSUME Typed, Typed', Known, NEW p \in Tasks, ReplaceLocal(p)
  PROVE  Known'
  <1> DEFINE d == p[1]
             w == View'
             j == job[p]
             r == Remote(j)
  <1>1. /\ UNCHANGED <<base, kept, trash, conflict, store, job, setting, lineage, hasty, mistaken, used>> /\ pc[p] = "replace"
        /\ Goto(p, "keep") /\ lineage' = lineage /\ local' = [local EXCEPT ![d] = j.remote.version[1]]
        /\ discarded' = IF Confirmed(p) THEN discarded \cup Lineage(local[d]) ELSE discarded
    BY DEF ReplaceLocal
  <1>2. /\ d \in Devices /\ local[d] \in 0 .. Len(lineage) /\ Len(lineage) \in Nat /\ local \in [Devices -> Written]
        /\ r \in 0 .. Len(lineage) /\ r = j.remote.version[1] /\ j.why \in {"plan", "choice"}
    <2>1. /\ d \in Devices /\ local[d] \in 0 .. Len(lineage) /\ Len(lineage) \in Nat /\ j \in Jobs(Len(lineage))
          /\ Shaped(setting.store, p, "replace", j)
      BY <1>1, TaskFacts
    <2>2. Listed(j) /\ j.why # "merge"  BY <2>1 DEF Shaped, Placed, Armed, Merges, Uploads
    <2>3. j.why \in {"plan", "choice"}  BY <2>1, <2>2 DEF Jobs
    <2>4. r \in 0 .. Len(lineage) /\ r = j.remote.version[1]  BY <2>1, <2>2, RemoteTyped
    <2> QED  BY <2>1, <2>3, <2>4 DEF Typed, DevicesTyped
  <1>3. local'[d] = r /\ \A e \in Devices : e # d => local'[e] = local[e]  BY <1>1, <1>2
  <1>4. \A t : Lineage(t)' = Lineage(t)  BY <1>1, SameLineage
  <1>5. Lineage(local[d]) \subseteq Lineage(local[d])' \cup Safe \cup Safe'
    <2>1. CASE j.why = "choice"
      <3>1. Lineage(local[d]) \subseteq Excused'  BY <1>1, <2>1 DEF Confirmed, Excused
      <3> QED  BY <3>1 DEF Safe, InStore
    <2>2. CASE j.why = "plan"
      <3>1. TaskKnown(View, d, "replace", j) /\ View.local = local  BY <1>1, TaskHas
      <3>2. Within(View, local[d], r)  BY <2>2, <3>1 DEF TaskKnown, Holding
      <3>3. Lineage(local[d]) \subseteq Lineage(r) \cup Safe  BY <1>2, <3>2, ViewPlain DEF Within, ViewFacts
      <3>4. (Lineage(local[d]))' = Lineage(r)  BY <1>1, <1>3 DEF Lineage
      <3> QED  BY <3>3, <3>4
    <2> QED  BY <1>2, <2>1, <2>2
  <1>6. FileStep(d)
    <2>1. Extends  BY <1>1, <1>2 DEF Extends
    <2>2. discarded \subseteq discarded'  BY <1>1
    <2> QED  BY <1>1, <1>3, <1>5, <2>1, <2>2 DEF FileStep
  <1>7. /\ Grows(View, w) /\ StoreKnown' /\ Renewed /\ Extends /\ DeviceKnown(w, d, base'[d], kept'[d]) /\ OnlyAt(p)
        /\ w.local = local' /\ View.local = local
    BY <1>2, <1>6, FileGrows DEF OnlyAt
  <1>8. \A t \in 1 .. Len(lineage') : t > Len(lineage) => t \notin lineage'[t]  BY <1>1, <1>2
  <1>9. Lasting(w, d, "replace", j) /\ Plain(w)  BY <1>1, <1>7, LastStays, NextPlain DEF ViewFacts
  <1>10. w.local[d] = r /\ Stored(w, r) /\ Covered(w, d, r)
    BY <1>2, <1>3, <1>7, <1>9, ZeroFacts DEF Lasting, Seen
  <1>11. \A t : Above(w, w.local[d], t)  BY <1>9, <1>10, Weaken
  <1>12. Turn(p, "keep", j)  BY <1>1, SameJob, OnwardTurn DEF Onward
  <1>13. HoldsState(p)  BY <1>1 DEF HoldsState
  <1>14. Siblings(p)
    <2>1. \A q \in Tasks : q[1] = d => Later(w, q[1], pc[q], job[q])  BY <1>11 DEF Later
    <2> QED  BY <1>13, <2>1 DEF Siblings
  <1>15. Besides(d)'  BY <1>1, <1>7, <1>12, BesidesStep DEF Turn
  <1> HIDE DEF w, d, j, r
  <1>16. TaskKnown(w, d, "keep", j)
    BY <1>9, <1>10, <1>11
    DEF TaskKnown, Lasting, Seen, Uploading, Fetching, Holding, Later, Uploads, Removals, Merges, r
  <1> USE DEF w, d, j, r
  <1> QED  BY <1>7, <1>8, <1>12, <1>13, <1>14, <1>15, <1>16, KnownStep DEF Turn

(* The merged text stands for both sides and for all the file had when the *)
(* merge read it.                                                          *)
LEMMA MergePutKnown ==
  ASSUME Typed, Typed', Known, NEW p \in Tasks, MergePut(p)
  PROVE  Known'
  <1> DEFINE d == p[1]
             w == View'
             k == job[p]
             r == Remote(k)
             n == Len(lineage)
             s == <<d, "resolve">>
  <1>1. pc[p] = "mergePut" /\ UNCHANGED <<base, kept, trash, conflict, store, setting, discarded, hasty, mistaken, used>>
    BY MergePutTurn
  <1>2. PICK j, t : /\ Turn(p, "upload", j) /\ j = [k EXCEPT !.text = t]
                    /\ local' = [local EXCEPT ![d] = t] /\ t \in 1 .. Len(lineage')
                    /\ \/ t = k.text /\ UNCHANGED lineage
                       \/ k.text = 0 /\ Writes(t) /\ lineage'[t] = Lineage(k.mine) \cup Lineage(r)
    BY MergePutTurn
  <1>3. /\ d \in Devices /\ local[d] \in 0 .. n /\ n \in Nat /\ local \in [Devices -> Written]
        /\ k \in Jobs(n) /\ k.mine \in 0 .. n /\ r \in 0 .. n /\ k.why = "merge" /\ p = <<d, "run">>
    BY <1>1, TaskFacts, RemoteTyped
    DEF Typed, DevicesTyped, Shaped, Placed, Merges, Jobs, Tasks
  <1>4. local'[d] = t /\ \A e \in Devices : e # d => local'[e] = local[e]  BY <1>2, <1>3
  <1>5. Extends
    <2>1. CASE UNCHANGED lineage  BY <1>3, <2>1 DEF Extends
    <2>2. CASE Writes(t)  BY <1>3, <2>2 DEF Extends, Writes
    <2> QED  BY <1>2, <2>1, <2>2
  <1>6. /\ TaskKnown(View, d, "mergePut", k) /\ Plain(View) /\ View.local = local
        /\ Beside(View, k, pc[s], job[s]) /\ s \in Tasks /\ s # p
    BY <1>1, <1>3, TaskHas DEF Known, DevicesKnown, Besides, Tasks
  <1>7. \A u \in 0 .. n : View.lin[u] = Lineage(u) /\ w.lin[u] = Lineage(u) /\ u \in 0 .. Len(lineage')
    BY <1>5, LineageStays, ViewPlain, NextPlain DEF ViewFacts
  <1>8. w.lin[t] = IF t = k.text THEN Lineage(t) ELSE Lineage(k.mine) \cup Lineage(r)
    <2>1. CASE t = k.text /\ UNCHANGED lineage
      <3>1. t \in 0 .. n  BY <1>2, <1>3, <2>1 DEF Jobs
      <3> QED  BY <1>7, <2>1, <3>1
    <2>2. CASE k.text = 0 /\ Writes(t) /\ lineage'[t] = Lineage(k.mine) \cup Lineage(r)
      <3>1. t # k.text /\ t \in 0 .. Len(lineage') /\ t # 0  BY <1>2, <1>3, <2>2 DEF Writes
      <3>2. w.lin[t] = Lineage(t)'  BY <3>1, NextPlain DEF ViewFacts
      <3>3. Lineage(t)' = lineage'[t]  BY <3>1 DEF Lineage
      <3> QED  BY <2>2, <3>1, <3>2, <3>3
    <2> QED  BY <1>2, <2>1, <2>2
  <1>9. /\ t = k.text => Within(View, local[d], t)
        /\ t # k.text => View.lin[local[d]] \subseteq View.lin[k.mine] \cup View.lin[r] \cup View.safe
    <2>1. t # 0 /\ (t # k.text => k.text = 0)  BY <1>2, NextPlain DEF ViewFacts
    <2> QED  BY <1>6, <2>1 DEF TaskKnown, Holding
  <1>10. Lineage(local[d]) \subseteq w.lin[t] \cup Safe
    <2>1. View.lin[local[d]] = Lineage(local[d]) /\ View.lin[k.mine] = Lineage(k.mine) /\ View.lin[r] = Lineage(r)
          /\ View.safe = Safe /\ (t = k.text => View.lin[t] = Lineage(t))
      BY <1>3, <1>7, ViewPlain DEF ViewFacts, Jobs
    <2> QED  BY <1>8, <1>9, <2>1 DEF Within
  <1>11. FileStep(d)
    <2>1. (Lineage(local[d]))' = w.lin[t]
      <3>1. t \in 0 .. Len(lineage')  BY <1>2, NextPlain DEF ViewFacts
      <3> QED  BY <1>4, <3>1, NextPlain DEF ViewFacts, Lineage
    <2> QED  BY <1>1, <1>4, <1>5, <1>10, <2>1 DEF FileStep
  <1>12. /\ Grows(View, w) /\ StoreKnown' /\ Renewed /\ DeviceKnown(w, d, base'[d], kept'[d]) /\ OnlyAt(p)
         /\ w.local = local' /\ w.local[d] = t
    BY <1>3, <1>4, <1>11, FileGrows DEF OnlyAt
  <1>13. ASSUME NEW u \in 1 .. Len(lineage'), u > Len(lineage) PROVE u \notin lineage'[u]
    <2>1. u = t /\ lineage'[t] = Lineage(k.mine) \cup Lineage(r)
      <3>1. Len(lineage') # Len(lineage)  BY <1>3, <1>13, NextPlain DEF ViewFacts
      <3>2. Writes(t) /\ lineage'[t] = Lineage(k.mine) \cup Lineage(r)  BY <1>2, <3>1
      <3> QED  BY <1>3, <1>13, <3>2 DEF Writes
    <2>2. lineage'[t] \subseteq 1 .. n  BY <1>3, <2>1, LineageTyped
    <2> QED  BY <1>3, <1>13, <2>1, <2>2
  <1>14. Lasting(w, d, "mergePut", k) /\ Plain(w)  BY <1>1, <1>12, LastStays, NextPlain DEF ViewFacts
  <1>15. /\ j.mine = k.mine /\ j.text = t /\ j.why = "merge"
         /\ j.remote = k.remote /\ Remote(j) = r /\ Listed(j) = Listed(k)
    BY <1>2, <1>3 DEF Jobs, Remote, Listed
  <1>16. HoldsState(p)  BY <1>1 DEF HoldsState
  <1>17. Besides(d)'
    <2>1. p[2] = "run"  BY <1>3
    <2> QED  BY <1>2, <1>12, <1>15, <2>1, BesidesStep DEF Turn
  <1>18. Above(w, t, k.mine)
    <2>1. w.lin[k.mine] = Lineage(k.mine) /\ w.lin[r] = Lineage(r)  BY <1>3, <1>7
    <2>2. CASE t = k.text  BY <1>14, <2>2 DEF Lasting, Fetching, Merges
    <2>3. CASE t # k.text
      <3>1. Stored(w, r)  BY <1>14 DEF Lasting, Seen
      <3> QED  BY <1>8, <2>1, <2>3, <3>1 DEF Above, Stored
    <2> QED  BY <2>2, <2>3
  <1>19. Siblings(p)
    <2>1. ASSUME NEW q \in Tasks, q[1] = d, q # p PROVE Later(w, d, pc[q], job[q])
      <3>1. q = s  BY <1>3, <2>1 DEF Tasks
      <3>2. pc[s] # "idle" => job[s].why = "choice" /\ pc[s] \notin Merges
        BY <1>6, TaskFacts DEF Shaped, Placed, Merges
      <3>3. pc[s] # "idle" => Above(w, t, job[s].text)
        <4>1. DOMAIN View.lin = 0 .. n /\ job[s].text \in 0 .. n  BY <1>6, ViewPlain DEF ViewFacts, Texting
        <4>2. Beside(w, k, pc[s], job[s])  BY <1>3, <1>6, <1>12, <1>14, <4>1, BesideStays
        <4> QED  BY <1>14, <1>18, <4>2, Weaken DEF Beside
      <3> QED  BY <1>12, <3>1, <3>2, <3>3 DEF Later
    <2> QED  BY <1>16, <2>1 DEF Siblings
  <1>20. Within(w, r, t)
    <2>1. w.lin[r] = Lineage(r)  BY <1>3, <1>7
    <2>2. CASE t = k.text
      <3>1. k.text # 0  BY <1>2, <2>2, NextPlain DEF ViewFacts
      <3> QED  BY <1>14, <2>2, <3>1 DEF Lasting, Fetching
    <2>3. CASE t # k.text  BY <1>8, <2>1, <2>3 DEF Within
    <2> QED  BY <2>2, <2>3
  <1>21. Covered(w, d, t) /\ Above(w, t, t)  BY <1>3, <1>12, <1>14, ZeroFacts
  <1> HIDE DEF w, d, k, r, n
  <1>22. TaskKnown(w, d, "upload", j)
    BY <1>12, <1>14, <1>15, <1>20, <1>21
    DEF TaskKnown, Lasting, Seen, Uploading, Fetching, Holding, Later, Uploads, Removals, Merges, Covered, r
  <1> USE DEF w, d, k, r, n
  <1> QED  BY <1>2, <1>5, <1>12, <1>13, <1>16, <1>17, <1>19, <1>22, KnownStep DEF Turn

(* What users do, and crashes.                                             *)
LEMMA IdleHas ==
  ASSUME Typed, NEW p \in Tasks, pc[p] = "idle"
  PROVE  job[p] = NoJob /\ ~ HoldsState(p)
  <1>1. job[p] = NoJob  BY TaskFacts DEF Shaped, Placed
  <1>2. NoJob.why = "plan"  BY DEF NoJob
  <1> QED  BY <1>1, <1>2 DEF HoldsState

(* What a user does to a file while the device rests concerns no task;     *)
(* while it works, the file may only lose what is excused.                 *)
LEMMA UserKnown ==
  ASSUME Typed, Typed', Known, NEW d \in Devices, FileStep(d), UNCHANGED <<pc, job>>,
         Busy(d) => Still(View, View', d),
         \A t \in 1 .. Len(lineage') : t > Len(lineage) => t \in Lineage(local[d])'
  PROVE  Known'
  <1>1. /\ Grows(View, View') /\ StoreKnown' /\ Renewed /\ Extends
        /\ \A e \in Devices : DeviceKnown(View', e, base'[e], kept'[e])
        /\ \A e \in Devices : e # d => local'[e] = local[e]
        /\ View'.local = local' /\ View.local = local
    BY FileGrows
  <1>2. /\ Plain(View) /\ Plain(View') /\ DOMAIN View.lin = 0 .. Len(lineage)
        /\ \A q \in Tasks : Texting(Len(lineage), job[q])
    BY ViewPlain, NextPlain DEF ViewFacts
  <1>3. pc' = pc /\ job' = job  OBVIOUS
  <1>4. OneHolder'
    <2>1. \A p \in Tasks : HoldsState(p)' <=> HoldsState(p)  BY <1>3 DEF HoldsState
    <2> QED  BY <2>1 DEF Known, OneHolder
  <1>5. Kept'  BY <1>1, KeptStep DEF Known
  <1>6. ASSUME NEW q \in Tasks PROVE TaskKnown(View', q[1], pc[q], job[q])
    <2>1. q[1] \in Devices  BY TaskFacts
    <2>2. CASE pc[q] = "idle"
      <3>1. job[q] = NoJob  BY <2>2, IdleHas
      <3> QED  BY <1>2, <2>1, <2>2, <3>1, IdleKnown
    <2>3. CASE q[1] # d
      <3>1. Still(View, View', q[1])
        <4>1. View'.local[q[1]] = View.local[q[1]]  BY <1>1, <2>1, <2>3
        <4>2. View.local[q[1]] \in DOMAIN View.lin  BY <1>2, <2>1 DEF Plain
        <4> QED  BY <1>1, <4>1, <4>2 DEF Still, Grows
      <3> QED  BY <1>1, <3>1, StayKnown
    <2>4. CASE pc[q] # "idle" /\ q[1] = d
      <3>1. Still(View, View', q[1])  BY <2>4 DEF Busy
      <3> QED  BY <1>1, <3>1, StayKnown
    <2> QED  BY <2>2, <2>3, <2>4
  <1>7. TasksKnown'  BY <1>3, <1>6 DEF TasksKnown
  <1>8. ASSUME NEW e \in Devices PROVE Besides(e)'
    <2> DEFINE r == <<e, "run">>
               s == <<e, "resolve">>
    <2>1. r \in Tasks /\ s \in Tasks  BY DEF Tasks
    <2>2. {job[r].mine, job[s].text} \subseteq DOMAIN View.lin  BY <1>2, <2>1 DEF Texting
    <2>3. Beside(View, job[r], pc[s], job[s])  BY DEF Known, DevicesKnown, Besides
    <2>4. Beside(View', job[r], pc[s], job[s])  BY <1>1, <1>2, <2>2, <2>3, BesideStays
    <2> QED  BY <1>3, <2>4 DEF Besides
  <1>9. DevicesKnown'  BY <1>1, <1>8 DEF DevicesKnown
  <1> QED  BY <1>1, <1>4, <1>5, <1>7, <1>9 DEF Known

LEMMA EditKnown ==
  ASSUME Typed, Typed', Known, NEW d \in Devices, Edit(d)
  PROVE  Known'
  <1> DEFINE new == Len(lineage) + 1
             n == Len(lineage)
  <1>1. /\ UNCHANGED <<base, kept, trash, conflict, store, pc, job, setting, discarded, mistaken>>
        /\ local' = [local EXCEPT ![d] = new]
        /\ hasty' = IF Busy(d) THEN hasty \cup {new} ELSE hasty
    BY DEF Edit
  <1>2. Writes(new) /\ lineage'[new] = Lineage(local[d]) \cup {new}  BY EditTyped
  <1>3. n \in Nat /\ local \in [Devices -> Written] /\ local[d] \in 0 .. n  BY ViewPlain DEF ViewFacts, Typed, DevicesTyped
  <1>4. Extends /\ Len(lineage') = new  BY <1>2, <1>3 DEF Extends, Writes
  <1>5. local'[d] = new /\ \A e \in Devices : e # d => local'[e] = local[e]  BY <1>1, <1>3
  <1>6. Lineage(local[d])' = Lineage(local[d]) \cup {new}  BY <1>2, <1>3, <1>5 DEF Lineage
  <1>7. FileStep(d)  BY <1>1, <1>4, <1>5, <1>6 DEF FileStep
  <1>8. ASSUME Busy(d) PROVE Still(View, View', d)
    <2>1. new \in Excused'  BY <1>1, <1>8 DEF Excused
    <2>2. View.local[d] = local[d] /\ View.lin[local[d]] = Lineage(local[d])  BY <1>3, ViewPlain DEF ViewFacts
    <2>3. View'.local[d] = new /\ View'.lin[new] = Lineage(local[d])' /\ View'.excused = Excused'
      <3>1. View'.local[d] = local'[d] /\ local'[d] \in 0 .. Len(lineage') /\ View'.excused = Excused'  BY NextPlain
      <3>2. View'.lin[local'[d]] = Lineage(local[d])'  BY <3>1, NextPlain DEF Lineage
      <3> QED  BY <1>5, <3>1, <3>2
    <2> QED  BY <1>6, <2>1, <2>2, <2>3 DEF Still
  <1>9. \A t \in 1 .. Len(lineage') : t > n => t \in Lineage(local[d])'  BY <1>3, <1>4, <1>6
  <1> QED  BY <1>1, <1>7, <1>8, <1>9, UserKnown

LEMMA DeleteKnown ==
  ASSUME Typed, Typed', Known, NEW d \in Devices, Delete(d)
  PROVE  Known'
  <1>1. /\ UNCHANGED <<base, kept, trash, conflict, store, pc, job, setting, lineage, hasty, mistaken>>
        /\ local' = [local EXCEPT ![d] = 0] /\ discarded' = discarded \cup Lineage(local[d]) /\ lineage' = lineage
    BY DEF Delete
  <1>2. Len(lineage) \in Nat /\ local \in [Devices -> Written]  BY ViewPlain DEF ViewFacts, Typed, DevicesTyped
  <1>3. local'[d] = 0 /\ \A e \in Devices : e # d => local'[e] = local[e]  BY <1>1, <1>2
  <1>4. Lineage(local[d]) \subseteq Safe'
    <2>1. discarded' \subseteq Excused'  BY DEF Excused
    <2>2. Excused' \subseteq Safe'  BY DEF Safe, InStore
    <2> QED  BY <1>1, <2>1, <2>2
  <1>5. FileStep(d)
    <2>1. Extends  BY <1>1, <1>2 DEF Extends
    <2> QED  BY <1>1, <1>3, <1>4, <2>1 DEF FileStep
  <1>6. Still(View, View', d)
    <2>1. View'.local[d] = 0 /\ View'.lin[0] = {}  BY <1>3, NextPlain DEF Plain
    <2> QED  BY <2>1 DEF Still
  <1>7. \A t \in 1 .. Len(lineage') : t > Len(lineage) => t \in Lineage(local[d])'  BY <1>1, <1>2
  <1> QED  BY <1>1, <1>5, <1>6, <1>7, UserKnown

LEMMA CrashKnown ==
  ASSUME Typed, Typed', Known, NEW d \in Devices, Crash(d)
  PROVE  Known'
  <1>1. /\ UNCHANGED <<device, store, setting, lineage, discarded, hasty, mistaken>>
        /\ \A p \in Tasks : /\ p[1] = d => pc'[p] = "idle" /\ job'[p] = NoJob
                            /\ p[1] # d => pc'[p] = pc[p] /\ job'[p] = job[p]
    BY CrashTyped
  <1>2. UNCHANGED Unseen /\ base' = base /\ kept' = kept /\ meta' = meta /\ setting' = setting /\ backups' = backups
        /\ lineage' = lineage /\ local' = local
    BY <1>1 DEF Unseen, device, store
  <1>3. View' = View /\ Plain(View)  BY <1>2, SameView, ViewPlain DEF ViewFacts
  <1>4. ASSUME NEW q \in Tasks PROVE TaskKnown(View, q[1], pc'[q], job'[q])
    <2>1. CASE q[1] = d  BY <1>1, <1>3, <2>1, IdleKnown
    <2>2. CASE q[1] # d  BY <1>1, <2>2 DEF Known, TasksKnown
    <2> QED  BY <2>1, <2>2
  <1>5. ASSUME NEW e \in Devices PROVE Besides(e)'
    <2>1. <<e, "run">> \in Tasks /\ <<e, "resolve">> \in Tasks /\ <<e, "run">>[1] = e /\ <<e, "resolve">>[1] = e
      BY DEF Tasks
    <2>2. CASE e = d
      <3>1. pc'[<<e, "resolve">>] = "idle"  BY <1>1, <2>1, <2>2
      <3> QED  BY <3>1 DEF Besides, Beside
    <2>3. CASE e # d
      <3>1. /\ job'[<<e, "run">>] = job[<<e, "run">>] /\ job'[<<e, "resolve">>] = job[<<e, "resolve">>]
            /\ pc'[<<e, "resolve">>] = pc[<<e, "resolve">>]
        BY <1>1, <2>1, <2>3
      <3> QED  BY <1>3, <3>1 DEF Besides, Known, DevicesKnown
    <2> QED  BY <2>2, <2>3
  <1>6. OneHolder'
    <2>1. ASSUME NEW q \in Tasks, HoldsState(q)' PROVE HoldsState(q)
      <3>1. CASE q[1] = d
        <4>1. pc'[q] = "idle" /\ job'[q].why = "plan"  BY <1>1, <3>1 DEF NoJob
        <4> QED  BY <2>1, <4>1 DEF HoldsState
      <3>2. CASE q[1] # d  BY <1>1, <2>1, <3>2 DEF HoldsState
      <3> QED  BY <3>1, <3>2
    <2> QED  BY <2>1 DEF Known, OneHolder
  <1>7. Kept'
    <2>1. InStore' = InStore
      <3>1. View'.stored = InStore' /\ View.stored = InStore  BY ViewPlain, NextPlain DEF ViewFacts
      <3> QED  BY <1>3, <3>1
    <2>2. \A e : Lineage(local[e])' = Lineage(local[e])  BY <1>2 DEF Lineage
    <2> QED  BY <1>2, <2>1, <2>2 DEF Known, Kept
  <1>8. TasksKnown'  BY <1>3, <1>4 DEF TasksKnown
  <1>9. DevicesKnown'  BY <1>2, <1>3, <1>5 DEF Known, DevicesKnown
  <1>10. StoreKnown'  BY <1>2, <1>3 DEF Known, StoreKnown
  <1> QED  BY <1>6, <1>7, <1>8, <1>9, <1>10 DEF Known

----------------------------------------------------------------------------
(* The theorem                                                             *)

(* The invariant holds, and it is enough.                                  *)
LEMMA InitKnown == Init => Known
  <1> SUFFICES ASSUME Init PROVE Known  OBVIOUS
  <1>1. Typed  BY InitTyped
  <1>2. backups = {} /\ pc = [p \in Tasks |-> "idle"] /\ job = [p \in Tasks |-> NoJob]  BY DEF Init
  <1>3. PICK t \in {0, 1} :
          /\ local = [d \in Devices |-> t] /\ base = local
          /\ kept = [d \in Devices |-> [h \in Texts |-> IF h = t THEN t ELSE 0]]
          /\ data = [text |-> t, etag |-> t] /\ meta = data
          /\ lineage = IF t = 0 THEN <<>> ELSE <<{1}>>
    BY DEF Init
  <1>4. Plain(View) /\ View.local = local /\ View.text = data.text /\ View.stored = InStore  BY <1>1, ViewPlain DEF ViewFacts
  <1>5. Stored(View, t)  BY <1>3, <1>4 DEF Plain, Stored
  <1>6. ASSUME NEW d \in Devices PROVE DeviceKnown(View, d, base[d], kept[d])
    <2>1. local[d] = t /\ base[d] = t /\ \A h \in Texts : kept[d][h] \in {0, t}  BY <1>3
    <2>2. Covered(View, d, t) /\ Covered(View, d, 0) /\ Stored(View, 0)
      BY <1>4, <2>1, ZeroFacts
    <2> QED  BY <1>5, <2>1, <2>2 DEF DeviceKnown
  <1>7. \A p \in Tasks : pc[p] = "idle" /\ job[p] = NoJob /\ p[1] \in Devices  BY <1>1, <1>2, TaskFacts
  <1>8. TasksKnown  BY <1>4, <1>7, IdleKnown DEF TasksKnown
  <1>9. ASSUME NEW d \in Devices PROVE Besides(d)
    <2>1. <<d, "resolve">> \in Tasks  BY DEF Tasks
    <2> QED  BY <1>7, <2>1 DEF Besides, Beside
  <1>10. OneHolder
    <2>1. \A p \in Tasks : ~ HoldsState(p)  BY <1>1, <1>7, IdleHas
    <2> QED  BY <2>1 DEF OneHolder
  <1>11. StoreKnown
    <2>1. meta.text = t /\ View.text = t  BY <1>3, <1>4
    <2> QED  BY <1>2, <1>5, <2>1 DEF StoreKnown, EntryKnown, Matches
  <1>12. Kept
    <2>1. ASSUME NEW u \in 1 .. Len(lineage), u \in lineage[u] PROVE u \in InStore
      <3>1. t = 1
        <4>1. CASE t = 0
          <5>1. lineage = <<>>  BY <1>3, <4>1
          <5> QED  BY <5>1
        <4> QED  BY <4>1
      <3>2. lineage = <<{1}>>  BY <1>3, <3>1
      <3>3. u = 1 /\ Lineage(t) = {1}  BY <3>1, <3>2 DEF Lineage
      <3> QED  BY <1>3, <3>3 DEF InStore
    <2> QED  BY <2>1 DEF Kept
  <1> QED  BY <1>6, <1>8, <1>9, <1>10, <1>11, <1>12 DEF Known, DevicesKnown

LEMMA StillKnown ==
  ASSUME Typed, Known, UNCHANGED vars
  PROVE  Known'
  <1>1. /\ UNCHANGED Unseen /\ base' = base /\ kept' = kept /\ meta' = meta /\ setting' = setting /\ backups' = backups
        /\ lineage' = lineage /\ local' = local /\ pc' = pc /\ job' = job /\ data' = data
    BY DEF vars, Unseen
  <1>2. View' = View  BY <1>1, SameView
  <1>3. OneHolder'  BY <1>1 DEF Known, OneHolder, HoldsState
  <1>4. StoreKnown'  BY <1>1, <1>2 DEF Known, StoreKnown
  <1>5. DevicesKnown'  BY <1>1, <1>2 DEF Known, DevicesKnown, Besides
  <1>6. TasksKnown'  BY <1>1, <1>2 DEF Known, TasksKnown
  <1>7. Kept'
    <2>1. InStore' = InStore  BY <1>2 DEF View
    <2>2. \A e : Lineage(local[e])' = Lineage(local[e])  BY <1>1 DEF Lineage
    <2> QED  BY <1>1, <2>1, <2>2 DEF Known, Kept
  <1> QED  BY <1>3, <1>4, <1>5, <1>6, <1>7 DEF Known

LEMMA KnownKept == Typed /\ Known /\ [Next]_vars => Known'
  <1> SUFFICES ASSUME Typed, Known, [Next]_vars PROVE Known'  OBVIOUS
  <1>1. Typed'  BY TypedStep
  <1>2. CASE UNCHANGED vars  BY <1>2, StillKnown
  <1>3. ASSUME NEW p \in Tasks,
               \/ Plan(p) \/ Stage(p) \/ Recheck(p) \/ MarkRemoval(p) \/ Fetch(p) \/ Conflict(p) \/ Merge(p) \/ MergeFetch(p)
               \/ Baseline(p) \/ Acknowledge(p) \/ Settle(p) \/ Forget(p) \/ Keep(p)
               \/ PutEntry(p) \/ DropTombstone(p) \/ PutTombstone(p) \/ EraseEntry(p)
        PROVE  Known'
    BY <1>1, <1>3, PlanKnown, StageKnown, FetchKnown, OnwardKnown, MergeKnown, MergeFetchKnown, BaselineKnown,
       EntriesKnown, TombsKnown
  <1>4. ASSUME NEW p \in Tasks,
               \/ Swap(p) \/ Rotate(p) \/ Place(p) \/ Verify(p) \/ Erase(p)
               \/ CopyRemote(p) \/ CopyBoth(p) \/ DeleteLocal(p) \/ ReplaceLocal(p)
               \/ MergePut(p) \/ Unmerged(p) \/ Record(p) \/ Close(p) \/ RequestFails(p) \/ PlaceFails(p)
        PROVE  Known'
    BY <1>1, <1>4, SwapKnown, RotateKnown, PlaceKnown, VerifyKnown, EraseKnown, CopiesKnown, DeleteLocalKnown,
       ReplaceKnown, MergePutKnown, EndsKnown, PlaceFailsKnown
  <1>5. ASSUME NEW d \in Devices, Edit(d) \/ Delete(d) \/ Crash(d) \/ StartRun(d) PROVE Known'
    BY <1>1, <1>5, EditKnown, DeleteKnown, CrashKnown, StartKnown
  <1>6. ASSUME NEW d \in Devices, NEW choice \in Choices, Resolve(d, choice) PROVE Known'
    BY <1>1, <1>6, ResolveKnown
  <1> QED  BY <1>2, <1>3, <1>4, <1>5, <1>6, NextActs DEF Acts

LEMMA KeptSurvive == Typed /\ Kept => TextsSurvive
  <1> SUFFICES ASSUME Typed, Kept, NEW t \in 1 .. Len(lineage), t \in lineage[t],
                      t \notin discarded \cup hasty \cup mistaken
               PROVE  \E u \in Held \ {0} : t \in lineage[u]
    BY DEF TextsSurvive
  <1>1. ASSUME NEW u \in Held, t \in Lineage(u) PROVE \E x \in Held \ {0} : t \in lineage[x]
    BY <1>1 DEF Lineage
  <1>2. ASSUME NEW d \in Devices, t \in Lineage(local[d]) PROVE \E x \in Held \ {0} : t \in lineage[x]
    <2>1. local[d] \in Held  BY DEF Held
    <2> QED  BY <1>1, <1>2, <2>1
  <1>3. ASSUME NEW d \in Devices, NEW u \in trash[d], t \in Lineage(u) PROVE \E x \in Held \ {0} : t \in lineage[x]
    <2>1. u \in Held
      <3>1. u \in UNION {trash[e] : e \in Devices}  OBVIOUS
      <3> QED  BY <3>1, Zenon DEF Held
    <2> QED  BY <1>1, <1>3, <2>1
  <1>4. ASSUME NEW u \in backups \cup {data.text}, t \in Lineage(u) PROVE \E x \in Held \ {0} : t \in lineage[x]
    <2>1. u \in Held  BY DEF Held
    <2> QED  BY <1>1, <1>4, <2>1
  <1>5. CASE t \in InStore
    <2>1. CASE t \in Excused  BY <1>3, <2>1 DEF Excused
    <2>2. CASE t \in Lineage(data.text)  BY <1>4, <2>2
    <2>3. CASE t \in UNION {Lineage(u) : u \in backups}  BY <1>4, <2>3
    <2> QED  BY <1>5, <2>1, <2>2, <2>3 DEF InStore
  <1> QED  BY <1>2, <1>5 DEF Kept

(* What a user wrote is not lost by synchronising, except what its user    *)
(* deleted or gave up, typed while the device synchronised, or lost to a   *)
(* file taken for another.                                                 *)
THEOREM TextsKept == Spec => []TextsSurvive
  <1>1. Typed /\ Known => TextsSurvive  BY KeptSurvive DEF Known
  <1> QED  BY <1>1, InitTyped, TypedStep, InitKnown, KnownKept, PTL DEF Spec
=============================================================================
