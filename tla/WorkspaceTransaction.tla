------------------------ MODULE WorkspaceTransaction ------------------------
(***************************************************************************)
(* src/server/workspace.mjs, saveWorkspaceState: one save of a workspace   *)
(* is a transaction over many files (documents, manifest.json, the state   *)
(* with the recycle bin's entries, the isolated history), made atomic by a *)
(* journal with a rollback snapshot and a recovery that every later save   *)
(* and load runs first.                                                    *)
(*                                                                         *)
(* One writer at a time (workspace.lock, see WorkspaceLock); it may crash  *)
(* between any two steps and any of its writes may fail.  An editor such   *)
(* as Obsidian writes the document files at any moment.  Windows hold the  *)
(* state they loaded or saved last and save changes of it.                 *)
(*                                                                         *)
(* A document's text is a version: 0 is "no file", 1 the initial text,     *)
(* every save request and every external edit writes a version of its own. *)
(* A document keeps its path.  atomicWrite of an existing file moves it    *)
(* aside before the new one gets its name; a crash in between (CrashInGap) *)
(* leaves no file under the name.                                          *)
(*                                                                         *)
(* The archives under recycle-bin/ are left out: nothing reads a document  *)
(* back from one (4925-4934 skips managed paths, the windows restore an    *)
(* entry's own text), and the next pass, a rollback's too, removes the     *)
(* archives without an entry before it writes a document (4920-4936).      *)
(***************************************************************************)
EXTENDS Naturals, FiniteSets

CONSTANTS Doc, Window,
          Origins,       \* documents of the workspace at the start; {}: it is new
          Reverts,       \* may a save bring back version 1
          MaxSaves, MaxEdits, MaxFaults, MaxCrashes, MaxGaps,  \* bounds
          NewFaults      \* the bound of failures until a new workspace is saved

ASSUME WorkspaceAssumption ==
  /\ Origins \subseteq SUBSET Doc /\ Reverts \in BOOLEAN
  /\ MaxSaves \in Nat /\ MaxEdits \in Nat
  /\ MaxFaults \in Nat /\ MaxCrashes \in Nat /\ MaxGaps \in Nat /\ NewFaults \in 0 .. MaxFaults

VARIABLES
  file,       \* the documents' files
  manifest,   \* manifest.json: is it there, the hash of each managed document
  current,    \* current-state.json: is it there, savedAt, its documents' contentRefs,
              \* the bin's entries with their texts: <<document, version>>
  hist,       \* history-isolated, the full before-images: <<document, version>>
  tx,         \* the directory transactions/<id>, its journal and snapshots
  pc,         \* the writer
  mode,       \* which pass of saveWorkspaceStateCore, or the recovery, it is in
  req,        \* the request it serves
  todo,       \* documents the current pass has left
  checked,    \* <<document, version>> it has read and will replace
  loose,      \* first save: writes of the parallel batch still in flight
  win,        \* what each window has loaded
  stamp,      \* the last savedAt given out
  edits,      \* versions written by the editor
  used,       \* how often each bounded thing has happened
  lost,       \* history: how versions of the editor were overwritten and not kept
  once        \* history: <<document, version>> a committed save has written and none gave up

disk == <<file, manifest, current, hist, tx>>
memory == <<pc, mode, req, todo, checked, loose>>
ghosts == <<edits, lost, once>>
vars == <<disk, memory, win, stamp, used, ghosts>>

Nothing == [d \in Doc |-> 0]
Version == 0 .. (1 + MaxSaves + MaxEdits)
Versions == [Doc -> Version]
Texts == Doc \X Version
NoTx == [dir |-> FALSE, status |-> "none", desired |-> Nothing, trash |-> {},
         undo |-> Nothing, undoTrash |-> {}, hist |-> {}, fresh |-> FALSE]
NoState == [there |-> FALSE, saved |-> 0, ref |-> Nothing, trash |-> {}]
NoReq == [kind |-> "none"]
Blank == [saved |-> 0, docs |-> Nothing, ext |-> Nothing, seen |-> Nothing]
Requests ==
  {NoReq} \cup [kind : {"load"}, by : Window]
  \cup [kind : {"save"}, by : Window, desired : Versions, ext : Versions, prev : Versions,
        strict : BOOLEAN, delta : BOOLEAN, dirty : SUBSET Doc]
Statuses == {"none", "prepared", "applying", "committed", "rollback_pending", "rolled_back"}
SaveModes == {"first", "retry"}
UndoModes == {"rollback", "recovery"}

TypeOK ==
  /\ file \in Versions
  /\ manifest \in [there : BOOLEAN, entry : Versions]
  /\ current \in [there : BOOLEAN, saved : Nat, ref : Versions, trash : SUBSET Texts]
  /\ hist \in SUBSET Texts
  /\ tx \in [dir : BOOLEAN, status : Statuses, desired : Versions, trash : SUBSET Texts,
            undo : Versions, undoTrash : SUBSET Texts, hist : SUBSET Texts, fresh : BOOLEAN]
  /\ pc \in {"idle", "recover", "request", "journal", "history", "apply", "begin", "batch",
             "docs", "write", "bins", "manifest", "current", "isolated", "verify", "commit",
             "clean", "mark", "wipe", "pending", "rolledBack", "clear"}
  /\ mode \in SaveModes \cup UndoModes \cup {"none"}
  /\ req \in Requests
  /\ todo \in SUBSET Doc /\ checked \in {<<>>} \cup Texts
  /\ loose \in SUBSET (Doc \X Version \X (SaveModes \cup UndoModes))
  /\ win \in [Window -> [saved : Nat, docs : Versions, ext : Versions, seen : Versions]]
  /\ stamp \in Nat /\ edits \in SUBSET Version
  /\ lost \in SUBSET {"race", "save", "accepted", "rollback"}
  /\ once \in SUBSET Texts

Init ==
  /\ \E established \in Origins :
       /\ file = [d \in Doc |-> IF d \in established THEN 1 ELSE 0]
       /\ manifest = [there |-> established # {}, entry |-> file]
       /\ current = [there |-> established # {}, saved |-> IF established = {} THEN 0 ELSE 1,
                     ref |-> file, trash |-> {}]
       /\ once = {<<d, 1>> : d \in established}
  /\ hist = {} /\ tx = NoTx
  /\ pc = "idle" /\ mode = "none" /\ req = NoReq /\ todo = {} /\ checked = <<>> /\ loose = {}
  /\ win = [w \in Window |-> Blank]
  /\ stamp = 1 /\ edits = {}
  /\ used = [saves |-> 0, edits |-> 0, crashes |-> 0, gaps |-> 0, faults |-> 0]
  /\ lost = {}

NewVersion == 2 + used.saves + used.edits
Spend(what) == used' = [used EXCEPT ![what] = @ + 1]
Goto(label) == pc' = label
AnyFile == \E d \in Doc : file[d] # 0                    \* containsMarkdown

\* What the running pass of saveWorkspaceStateCore makes of the documents.
Target == IF mode \in SaveModes THEN tx.desired ELSE tx.undo
TargetTrash == IF mode \in SaveModes THEN tx.trash ELSE tx.undoTrash
Accepted(d) == mode \notin UndoModes /\ req.ext[d] # 0 /\ req.ext[d] = file[d]
Skips(d) == mode \in SaveModes /\ d \notin req.dirty /\ manifest.entry[d] # 0

(* The request ends, with an answer or an exception; the lock is released. *)
EndRequest ==
  /\ Goto("idle") /\ mode' = "none" /\ req' = NoReq /\ todo' = {} /\ checked' = <<>>

(* The texts the manifest names and the files have.                        *)
Managed == {<<d, file[d]>> : d \in {x \in Doc : file[x] # 0 /\ file[x] = manifest.entry[x]}}

(* How an editor's version that nobody else keeps is overwritten.          *)
Overwrites(d) ==
  IF file[d] \in edits /\ <<d, file[d]>> \notin hist
  THEN IF mode \in UndoModes THEN {"rollback"}
       ELSE IF Accepted(d) THEN {"accepted"} ELSE IF file[d] # checked[2] THEN {"race"} ELSE {"save"}
  ELSE {}

----------------------------------------------------------------------------
(* Windows and the editor                                                  *)

(* loadWorkspaceState: a pending transaction is recovered first.           *)
Snapshot(w) ==
  win' = [win EXCEPT ![w] =
    IF ~ current.there THEN Blank
    ELSE [saved |-> current.saved,
          docs  |-> [d \in Doc |-> IF current.ref[d] = 0 THEN 0 ELSE file[d]],
          ext   |-> [d \in Doc |-> IF file[d] = current.ref[d] \/ current.ref[d] = 0 THEN 0 ELSE file[d]],
          seen  |-> file]]

StartLoad(w) ==
  /\ pc = "idle"
  /\ \/ ~ tx.dir /\ Snapshot(w) /\ UNCHANGED memory
     \/ /\ tx.dir /\ Goto("recover") /\ req' = [kind |-> "load", by |-> w]
        /\ UNCHANGED <<mode, todo, checked, loose, win>>
  /\ UNCHANGED <<disk, stamp, used, ghosts>>

FinishLoad ==
  /\ pc = "recover" /\ ~ tx.dir /\ req.kind = "load"
  /\ Snapshot(req.by) /\ EndRequest
  /\ UNCHANGED <<disk, loose, stamp, used, ghosts>>

(* A save of window w: each document keeps the text the window has, gets a *)
(* new text or is dropped.  A delta save names the changed documents only. *)
StartSave(w) ==
  /\ pc = "idle" /\ used.saves < MaxSaves
  /\ \E desired \in [Doc -> Version], delta \in BOOLEAN, strict \in BOOLEAN :
       /\ \A d \in Doc : desired[d] \in {win[w].docs[d], NewVersion, 0} \cup (IF Reverts THEN {1} ELSE {})
       /\ desired # win[w].docs
       /\ win[w].saved = 0 => strict /\ ~ delta
       /\ req' = [kind |-> "save", by |-> w, desired |-> desired, strict |-> strict,
                  delta |-> delta, ext |-> win[w].ext, prev |-> Nothing,
                  dirty |-> IF delta THEN {d \in Doc : desired[d] # win[w].docs[d]} ELSE Doc]
  /\ Goto("recover") /\ Spend("saves")
  /\ UNCHANGED <<disk, mode, todo, checked, loose, win, stamp, ghosts>>

Edit(d) ==
  /\ used.edits < MaxEdits
  /\ file' = [file EXCEPT ![d] = NewVersion]
  /\ edits' = edits \cup {NewVersion} /\ once' = once \ {<<d, file[d]>>}
  /\ Spend("edits")
  /\ UNCHANGED <<manifest, current, hist, tx, memory, win, stamp, lost>>

----------------------------------------------------------------------------
(* recoverPendingWorkspaceTransactions                                     *)

DropTransaction ==
  /\ pc = "recover" /\ tx.dir /\ tx.status \in {"none", "prepared", "committed"}
  /\ tx' = NoTx
  /\ once' = IF tx.status = "committed" THEN once \cup Managed ELSE once
  /\ UNCHANGED <<file, manifest, current, hist, memory, win, stamp, used, edits, lost>>

BeginRecovery ==
  /\ pc = "recover" /\ tx.dir /\ tx.status \in {"applying", "rollback_pending"}
  /\ tx' = [tx EXCEPT !.status = "rollback_pending"]
  /\ mode' = "recovery" /\ Goto("begin")
  /\ UNCHANGED <<file, manifest, current, hist, req, todo, checked, loose, win, stamp, used, ghosts>>

(* The status is none of those the recovery knows: it refuses to go on.    *)
RecoveryRefuses ==
  /\ pc = "recover" /\ tx.dir /\ tx.status = "rolled_back"
  /\ EndRequest
  /\ UNCHANGED <<disk, loose, win, stamp, used, ghosts>>

----------------------------------------------------------------------------
(* saveWorkspaceState up to the journal                                    *)

StampMatches(w) ==
  /\ win[w].saved = (IF current.there THEN current.saved ELSE 0)
  /\ \A d \in Doc : manifest.entry[d] # 0 => file[d] = win[w].seen[d]

\* Mutant: the savedAt of the window is not compared.
NeverConflicts == req.strict /\ ~ StampMatches(req.by)

Conflicts ==
  \/ current.there /\ win[req.by].saved \notin {0, current.saved}
  \/ req.strict /\ ~ StampMatches(req.by)

(* Documents a delta save does not name are taken from current-state.json. *)
Desired(d) ==
  IF d \in req.dirty THEN req.desired[d]
  ELSE IF req.desired[d] = 0 \/ current.ref[d] = 0 THEN 0 ELSE manifest.entry[d]

(* validateWorkspaceSavePreconditions, for one document.                   *)
MayWrite(d) ==
  IF d \notin req.dirty /\ manifest.entry[d] # 0 THEN TRUE
  ELSE IF manifest.entry[d] = 0 THEN file[d] \in {0, Desired(d)}
  ELSE file[d] \in {0, manifest.entry[d], Desired(d)} \/ Accepted(d)
MayDrop(d) == manifest.entry[d] # 0 => file[d] \in {0, manifest.entry[d]}
Valid ==
  IF ~ manifest.there THEN ~ AnyFile
  ELSE \A d \in Doc : IF Desired(d) # 0 THEN MayWrite(d) ELSE MayDrop(d)

RefuseSave ==
  /\ pc = "request"
  /\ Conflicts \/ ~ Valid \/ (req.delta /\ ~ current.there)
  /\ EndRequest
  /\ UNCHANGED <<disk, loose, win, stamp, used, ghosts>>

EnterRequest ==
  /\ pc = "recover" /\ ~ tx.dir /\ req.kind = "save"
  /\ Goto("request")
  /\ UNCHANGED <<disk, mode, req, todo, checked, loose, win, stamp, used, ghosts>>

(* changedDocumentIds: what the save replaces and must keep in history.    *)
Replaced(undo, desired, prev) ==
  {d \in req.dirty : undo[d] # 0 /\ desired[d] # 0 /\ prev[d] # 0 /\ desired[d] # prev[d]}

\* Mutant: the list of the window replaces the histories on disk.
OwnHistories(undo, desired) ==
  {{<<d, undo[d]>> : d \in Replaced(undo, desired, manifest.entry)}}

(* The histories of both snapshots: the before-images on disk, whatever the *)
(* window's list has, and those of this save.  Without a current-state.json *)
(* the window's list is all there is.                                      *)
Histories(undo, desired) ==
  IF current.there
  THEN {hist \cup {<<d, undo[d]>> : d \in Replaced(undo, desired, manifest.entry)}}
  ELSE SUBSET hist

(* The checks pass and both snapshots are written.  The rollback snapshot  *)
(* takes the documents' texts from their files.  Of the bin's entries some *)
(* were taken out or have expired; a dropped document may have got one.    *)
AcceptSave ==
  /\ pc = "request" /\ ~ Conflicts /\ Valid /\ (req.delta => current.there)
  /\ LET desired == [d \in Doc |-> Desired(d)]
         undo == [d \in Doc |-> IF current.there /\ current.ref[d] # 0 THEN file[d] ELSE 0]
         known == win[req.by].docs
     IN \E kept \in SUBSET current.trash, entered \in SUBSET {d \in Doc : desired[d] = 0 /\ known[d] # 0},
           histories \in Histories(undo, desired) :
          tx' = [dir |-> TRUE, status |-> "none",
                 desired |-> desired, trash |-> kept \cup {<<d, known[d]>> : d \in entered},
                 undo |-> undo, undoTrash |-> current.trash,
                 hist |-> histories, fresh |-> ~ current.there]
  /\ req' = [req EXCEPT !.prev = manifest.entry]
  /\ Goto("journal")
  /\ UNCHANGED <<file, manifest, current, hist, mode, todo, checked, loose, win, stamp, used, ghosts>>

WriteJournal ==
  /\ pc = "journal"
  /\ tx' = [tx EXCEPT !.status = "prepared"]
  /\ Goto(IF Replaced(tx.undo, tx.desired, req.prev) = {} THEN "apply" ELSE "history")
  /\ UNCHANGED <<file, manifest, current, hist, mode, req, todo, checked, loose, win, stamp, used, ghosts>>

WriteHistory ==
  /\ pc = "history"
  /\ hist' = tx.hist
  /\ Goto("apply")
  /\ UNCHANGED <<file, manifest, current, tx, mode, req, todo, checked, loose, win, stamp, used, ghosts>>

\* Mutant: the journal still says "prepared" while documents are written.
ApplyUnmarked ==
  /\ pc = "apply" /\ mode' = "first" /\ Goto("begin")
  /\ UNCHANGED <<disk, req, todo, checked, loose, win, stamp, used, ghosts>>

MarkApplying ==
  /\ pc = "apply"
  /\ tx' = [tx EXCEPT !.status = "applying"]
  /\ mode' = "first" /\ Goto("begin")
  /\ UNCHANGED <<file, manifest, current, hist, req, todo, checked, loose, win, stamp, used, ghosts>>

----------------------------------------------------------------------------
(* saveWorkspaceStateCore                                                  *)

\* Mutant: every failed pass is tried again.
ThrowsForEver ==
  /\ todo' = {} /\ checked' = <<>>
  /\ IF mode \in SaveModes
     THEN mode' = "retry" /\ Goto("begin")
     ELSE Goto("pending") /\ UNCHANGED mode
  /\ UNCHANGED req

(* An exception: the first pass is tried again, the second one is rolled   *)
(* back, a rollback is left pending.                                       *)
Throws ==
  /\ todo' = {} /\ checked' = <<>>
  /\ CASE mode = "first" -> mode' = "retry" /\ Goto("begin")
       [] mode = "retry" -> Goto("mark") /\ UNCHANGED mode
       [] mode \in UndoModes -> Goto("pending") /\ UNCHANGED mode
  /\ UNCHANGED req

(* Without a manifest the documents are written by parallel atomicWrites.  *)
BeginPass ==
  /\ pc = "begin" /\ ~ (mode \in UndoModes /\ tx.fresh)
  /\ manifest.there \/ ~ AnyFile
  /\ todo' = {d \in Doc : Target[d] # 0}
  /\ IF manifest.there
     THEN Goto("docs") /\ UNCHANGED loose
     ELSE Goto("batch") /\ loose' = loose \cup {<<d, Target[d], mode>> : d \in todo'}
  /\ UNCHANGED <<disk, mode, req, checked, win, stamp, used, ghosts>>

RefusePass ==
  /\ pc = "begin" /\ ~ (mode \in UndoModes /\ tx.fresh)
  /\ ~ manifest.there /\ AnyFile
  /\ Throws
  /\ UNCHANGED <<disk, loose, win, stamp, used, ghosts>>

(* One write of a parallel batch lands, be its batch under way or failed.  *)
Land(l) ==
  /\ l \in loose
  /\ loose' = loose \ {l}
  /\ file' = [file EXCEPT ![l[1]] = l[2]]
  /\ lost' = lost \cup (IF file[l[1]] \in edits THEN {"race"} ELSE {})
  /\ todo' = IF pc = "batch" /\ mode = l[3] THEN todo \ {l[1]} ELSE todo
  /\ UNCHANGED <<manifest, current, hist, tx, pc, mode, req, checked, win, stamp, used, edits, once>>

(* A batch write that finds a file in its place fails its batch.           *)
LandsOnFile(l) ==
  /\ l \in loose /\ pc = "batch" /\ mode = l[3] /\ file[l[1]] # 0
  /\ loose' = loose \ {l} /\ Throws
  /\ UNCHANGED <<disk, win, stamp, used, ghosts>>

BatchDone ==
  /\ pc = "batch" /\ todo = {} /\ Goto("manifest")
  /\ UNCHANGED <<disk, mode, req, todo, checked, loose, win, stamp, used, ghosts>>

(* One document: its hash is read and judged ...                           *)
\* Mutant: a file that differs from the manifest is overwritten.
NeverForeign(d) == file[d] \notin {0, Target[d]} /\ manifest.entry[d] = 0

IsForeign(d) ==
  /\ file[d] \notin {0, Target[d]}
  /\ \/ manifest.entry[d] = 0
     \/ mode \in SaveModes /\ file[d] # manifest.entry[d] /\ ~ Accepted(d)

CheckDoc(d) ==
  /\ pc = "docs" /\ d \in todo
  /\ \/ /\ Skips(d) \/ file[d] = Target[d]
        /\ todo' = todo \ {d} /\ UNCHANGED <<pc, mode, req, checked>>
     \/ /\ ~ Skips(d) /\ IsForeign(d) /\ Throws
     \/ /\ ~ Skips(d) /\ file[d] # Target[d] /\ ~ IsForeign(d)
        /\ checked' = <<d, file[d]>> /\ Goto("write") /\ UNCHANGED <<mode, req, todo>>
  /\ UNCHANGED <<disk, loose, win, stamp, used, ghosts>>

(* ... and then the file is replaced.                                      *)
WriteDoc ==
  /\ pc = "write"
  /\ file' = [file EXCEPT ![checked[1]] = Target[checked[1]]]
  /\ lost' = lost \cup Overwrites(checked[1])
  /\ todo' = todo \ {checked[1]} /\ checked' = <<>> /\ Goto("docs")
  /\ UNCHANGED <<manifest, current, hist, tx, mode, req, loose, win, stamp, used, edits, once>>

DocsDone ==
  /\ pc = "docs" /\ todo = {}
  /\ todo' = {d \in Doc : manifest.entry[d] # 0 /\ Target[d] = 0}
  /\ Goto("bins")
  /\ UNCHANGED <<disk, mode, req, checked, loose, win, stamp, used, ghosts>>

(* A dropped document moves to an archive unless it was edited.            *)
BinDoc(d) ==
  /\ pc = "bins" /\ d \in todo
  /\ IF file[d] \in {0, manifest.entry[d]}
     THEN /\ file' = [file EXCEPT ![d] = 0]
          /\ todo' = todo \ {d} /\ UNCHANGED <<pc, mode, req, checked>>
     ELSE Throws /\ UNCHANGED file
  /\ UNCHANGED <<manifest, current, hist, tx, loose, win, stamp, used, ghosts>>

BinsDone ==
  /\ pc = "bins" /\ todo = {} /\ Goto("manifest")
  /\ UNCHANGED <<disk, mode, req, todo, checked, loose, win, stamp, used, ghosts>>

WriteManifest ==
  /\ pc = "manifest"
  /\ manifest' = [there |-> TRUE, entry |-> Target]
  /\ Goto("current")
  /\ UNCHANGED <<file, current, hist, tx, mode, req, todo, checked, loose, win, stamp, used, ghosts>>

WriteCurrent ==
  /\ pc = "current"
  /\ current' = [there |-> TRUE, saved |-> stamp + 1, ref |-> Target, trash |-> TargetTrash]
  /\ stamp' = stamp + 1
  /\ Goto("isolated")
  /\ UNCHANGED <<file, manifest, hist, tx, mode, req, todo, checked, loose, win, used, ghosts>>

(* saveIsolatedHistoryState: what the pass's histories do not name is      *)
(* pruned.                                                                 *)
RewriteHistory ==
  /\ pc = "isolated"
  /\ hist' = tx.hist
  /\ Goto(IF mode \in SaveModes THEN "verify" ELSE "rolledBack")
  /\ UNCHANGED <<file, manifest, current, tx, mode, req, todo, checked, loose, win, stamp, used, ghosts>>

----------------------------------------------------------------------------
(* The end of a save, and its rollback                                     *)

(* verifyCommittedWorkspaceDocuments reads the written files back.         *)
Candidates == {d \in Doc : manifest.entry[d] # 0 /\
                 IF req.delta THEN d \in req.dirty ELSE manifest.entry[d] # req.prev[d]}

Verify ==
  /\ pc = "verify"
  /\ IF \A d \in Candidates : file[d] = manifest.entry[d]
     THEN Goto("commit") /\ UNCHANGED <<mode, req, todo, checked>>
     ELSE Throws
  /\ UNCHANGED <<disk, loose, win, stamp, used, ghosts>>

(* What the save gives up for good: a document it drops without an entry,  *)
(* an entry it takes out of the bin without bringing the text back.        *)
GivenUp(t) ==
  /\ t \notin tx.trash \cup tx.hist /\ tx.desired[t[1]] # t[2]
  /\ t \in tx.undoTrash \/ (tx.undo[t[1]] = t[2] /\ tx.desired[t[1]] = 0)

Commit ==
  /\ pc = "commit"
  /\ tx' = [tx EXCEPT !.status = "committed"]
  /\ once' = {t \in once : ~ GivenUp(t)}
  /\ Goto("clean")
  /\ UNCHANGED <<file, manifest, current, hist, mode, req, todo, checked, loose, win, stamp, used, edits, lost>>

Answer ==
  /\ pc = "clean"
  /\ tx' = NoTx
  /\ win' = [win EXCEPT ![req.by] = [saved |-> current.saved, docs |-> current.ref,
                                      ext |-> Nothing, seen |-> file]]
  /\ once' = once \cup Managed
  /\ EndRequest
  /\ UNCHANGED <<file, manifest, current, hist, loose, stamp, used, edits, lost>>

MarkRollback ==
  /\ pc = "mark"
  /\ tx' = [tx EXCEPT !.status = "rollback_pending"]
  /\ mode' = "rollback" /\ Goto("begin")
  /\ UNCHANGED <<file, manifest, current, hist, req, todo, checked, loose, win, stamp, used, ghosts>>

(* rollbackFreshWorkspaceTransaction: nothing was there, nothing stays.    *)
WipeFresh ==
  /\ pc = "begin" /\ mode \in UndoModes /\ tx.fresh
  /\ file' = [d \in Doc |-> IF tx.desired[d] # 0 THEN 0 ELSE file[d]]
  /\ lost' = lost \cup UNION {Overwrites(d) : d \in {x \in Doc : tx.desired[x] # 0}}
  /\ manifest' = [there |-> FALSE, entry |-> Nothing]
  /\ current' = NoState
  /\ hist' = {}
  /\ Goto("rolledBack")
  /\ UNCHANGED <<tx, mode, req, todo, checked, loose, win, stamp, used, edits, once>>

MarkRolledBack ==
  /\ pc = "rolledBack"
  /\ tx' = [tx EXCEPT !.status = "rolled_back"]
  /\ Goto("clear")
  /\ UNCHANGED <<file, manifest, current, hist, mode, req, todo, checked, loose, win, stamp, used, ghosts>>

(* The recovery goes on to the request it was run for; a save whose own    *)
(* rollback this was fails.                                                *)
ClearTransaction ==
  /\ pc = "clear"
  /\ tx' = NoTx
  /\ IF mode = "recovery"
     THEN Goto("recover") /\ mode' = "none" /\ UNCHANGED <<req, todo, checked>>
     ELSE EndRequest
  /\ UNCHANGED <<file, manifest, current, hist, loose, win, stamp, used, ghosts>>

\* Mutant: the journal gets the status of an earlier journal format.
LeaveLegacyPending ==
  /\ pc = "pending"
  /\ tx' = [tx EXCEPT !.status = "pending"]
  /\ EndRequest
  /\ UNCHANGED <<file, manifest, current, hist, loose, win, stamp, used, ghosts>>

LeavePending ==
  /\ pc = "pending"
  /\ tx' = [tx EXCEPT !.status = "rollback_pending"]
  /\ EndRequest
  /\ UNCHANGED <<file, manifest, current, hist, loose, win, stamp, used, ghosts>>

----------------------------------------------------------------------------
(* Failures                                                                *)

(* A file operation of the running step throws (disk full, a locked file); *)
(* one write of a parallel batch fails, the others stay in flight.         *)
InPass == {"begin", "docs", "write", "bins", "manifest", "current", "isolated", "verify",
           "commit", "clean", "rolledBack", "clear"}

\* A bound: until a new workspace is saved it has one of its own.
Faults == IF tx.fresh \/ ~ current.there THEN NewFaults ELSE MaxFaults
Fault ==
  /\ used.faults < Faults /\ Spend("faults")
  /\ \/ pc \in InPass /\ Throws /\ UNCHANGED loose
     \/ \E l \in loose : /\ pc = "batch" /\ mode = l[3] /\ loose' = loose \ {l} /\ Throws
     \/ /\ pc \in {"journal", "history", "apply", "mark", "pending"}
        /\ EndRequest /\ UNCHANGED loose
  /\ UNCHANGED <<disk, win, stamp, ghosts>>

Dies ==
  /\ pc # "idle" /\ EndRequest /\ loose' = {}

Crash ==
  /\ used.crashes < MaxCrashes /\ Dies /\ Spend("crashes")
  /\ UNCHANGED <<disk, win, stamp, ghosts>>

(* The process ends while atomicWrite has moved the old file aside.        *)
CrashInGap ==
  /\ used.gaps < MaxGaps /\ Dies /\ Spend("gaps")
  /\ \/ /\ \/ pc \in {"apply", "commit", "mark", "pending", "rolledBack"}
           \/ pc = "recover" /\ tx.dir /\ tx.status \in {"applying", "rollback_pending"}
        /\ tx' = [tx EXCEPT !.status = "none"]
        /\ UNCHANGED <<file, manifest, current, hist>>
     \/ /\ pc = "write" /\ file[checked[1]] # 0
        /\ file' = [file EXCEPT ![checked[1]] = 0]
        /\ UNCHANGED <<manifest, current, hist, tx>>
     \/ /\ pc = "manifest" /\ manifest.there
        /\ manifest' = [there |-> FALSE, entry |-> Nothing]
        /\ UNCHANGED <<file, current, hist, tx>>
     \/ /\ pc = "current" /\ current.there
        /\ current' = NoState
        /\ UNCHANGED <<file, manifest, hist, tx>>
     \/ /\ pc \in {"history", "isolated"}
        /\ \E d \in Doc : hist' = {t \in hist : t[1] # d}
        /\ UNCHANGED <<file, manifest, current, tx>>
  /\ UNCHANGED <<win, stamp, ghosts>>

----------------------------------------------------------------------------
Windows == \E w \in Window : StartLoad(w) \/ StartSave(w)
Recovery == DropTransaction \/ BeginRecovery \/ RecoveryRefuses \/ FinishLoad \/ EnterRequest
Preparing == RefuseSave \/ AcceptSave \/ WriteJournal \/ WriteHistory \/ MarkApplying
Documents == \E d \in Doc : CheckDoc(d) \/ BinDoc(d)
Pass == BeginPass \/ RefusePass \/ BatchDone \/ Documents \/ WriteDoc \/ DocsDone
        \/ BinsDone \/ WriteManifest \/ WriteCurrent \/ RewriteHistory
Ending == Verify \/ Commit \/ Answer \/ MarkRollback \/ WipeFresh \/ MarkRolledBack
          \/ ClearTransaction \/ LeavePending
Landing == \E l \in loose : Land(l) \/ LandsOnFile(l)
Editor == \E d \in Doc : Edit(d)

Next == Windows \/ Recovery \/ Preparing \/ Pass \/ Ending \/ Landing \/ Editor
        \/ Fault \/ Crash \/ CrashInGap

Spec == Init /\ [][Next]_vars

(* The process's own steps go on; the events of the environment need not.  *)
Working == Recovery \/ Preparing \/ Pass \/ Ending \/ Landing
FairSpec == Spec /\ WF_vars(Working)

----------------------------------------------------------------------------
(* Properties                                                              *)

Settled == pc = "idle" /\ ~ tx.dir

(* Once a save has been answered or undone, whatever failed or crashed on  *)
(* the way, manifest.json, current-state.json and the document files tell  *)
(* the same story: a managed document's file is the version the manifest   *)
(* names unless an editor has changed it since (what the journal and its   *)
(* recovery, workspace.mjs 5371-5591, are for).                            *)
Coherent ==
  Settled => /\ manifest.there = current.there
             /\ manifest.entry = current.ref
             /\ \A d \in Doc : manifest.entry[d] # 0 => file[d] \in {manifest.entry[d]} \cup edits

(* No text a save has committed vanishes when a later save replaces or     *)
(* drops its document, at no moment and through any failure, unless that   *)
(* save commits to giving it up: it is in its file, in the history, in an  *)
(* entry of the recycle bin, or in the rollback snapshot of a transaction  *)
(* that will be undone (workspace.mjs 5495-5499, 5528-5535, 5144-5207).    *)
Undoable == tx.status \in {"applying", "rollback_pending"}
TextsSurvive ==
  \A t \in once :
    \/ file[t[1]] = t[2] \/ t \in hist \cup current.trash
    \/ Undoable /\ (tx.undo[t[1]] = t[2] \/ t \in tx.undoTrash)

(* A save never replaces a version of the editor that its window has not   *)
(* seen and that was there when the document's hash was last checked       *)
(* (workspace.mjs 5018, 5274, 5297).                                       *)
SavesKeepEdits == "save" \notin lost

(* Every load and save ends with an answer or an error.                    *)
RequestEnds == pc # "idle" ~> pc = "idle"

----------------------------------------------------------------------------
(* Seen from the windows, the workspace is a register written with         *)
(* compare-and-swap.  Until a save is answered, or its process ends after   *)
(* the commit record, the value is the one its rollback snapshot holds: a  *)
(* committed save whose clean-up fails is still undone.                    *)
Durable ==
  IF tx.dir /\ \/ tx.status \in {"applying", "rollback_pending"}
               \/ tx.status = "committed" /\ mode \in SaveModes
  THEN tx.undo ELSE manifest.entry

Abstract == INSTANCE AtomicWorkspace
  WITH content <- Durable, known <- [w \in Window |-> win[w].docs], Value <- Versions

(* Without an external editor the transaction machinery implements that    *)
(* register: a save takes effect at once or not at all, and only if its    *)
(* window had the state it replaces.                                       *)
ImplementsAtomicWorkspace == Abstract!Spec
============================================================================
