------------------------- MODULE RecoveryCheckpoints -------------------------
(***************************************************************************)
(* How what the author types gets to disk: the autosave of src/app.js      *)
(* (saves of the work, and between them checkpoints a crash can be         *)
(* recovered from), src/recovery-checkpoint.js, and its server side,       *)
(* src/server/recovery-store.mjs with the save handler of server.mjs.      *)
(*                                                                         *)
(* A text is the set of edits it contains and an edit is <<document,       *)
(* serial>>, so a document of a text is the edits of it.  Savedat times    *)
(* and stamps of the work are one number.  One page with one work; another *)
(* window or an agent saves into the same work (Foreign).                  *)
(*                                                                         *)
(* A save of the work is one step here (WorkspaceTransaction has its       *)
(* inside), and so is a checkpoint's replacement.                          *)
(***************************************************************************)
EXTENDS Integers, FiniteSets

CONSTANTS Docs,
          MaxEdits, MaxForeign, MaxCloses, MaxFailures, MaxReloads,  \* bounds
          MaxEvents                                                  \* on all but the edits together

ASSUME BoundsAssumption == {MaxEdits, MaxForeign, MaxCloses, MaxFailures, MaxReloads, MaxEvents} \subseteq Nat

VARIABLES
  canon,       \* the work on disk: [at (savedAt), text]
  checkpoint,  \* the client's checkpoint; a clean one is not told from none
  page,        \* closed, or how far bootstrap has come, see Shown
  mem,         \* state.documents
  base,        \* state.savedAt and activeWorkspaceStamp
  known,       \* workspaceDocumentHashes: the text the page knows to be on disk
  rev,         \* workspaceRevision
  dirty,       \* workspaceDirty
  ids,         \* workspaceDirtyDocumentIds; Docs also for workspaceDocumentChangesUnknown
  protected,   \* recoveryCheckpointRevision
  editTimer,   \* ui.saveTimer, which sets the timer of a save
  saveTimer, checkpointTimer,
  save,        \* the save under way: its locals, and whether another call waits for it
  error,       \* workspaceSaveError
  reload,      \* reloadWorkspaceFromDisk under way: what it has read
  wire,        \* requests to the server, those of a page that is gone included
  promised,    \* history: edits the page was told are in a checkpoint, until they are on disk
  givenUp,     \* history: edits the author gave up, or the code is known to
  overlooked,  \* history: edits that the end of start-up took for saved
  used         \* how often each bounded thing has happened

pageVars == <<page, mem, base, known, rev, dirty, ids, protected, editTimer, saveTimer, checkpointTimer, save, error, reload>>
vars == <<canon, checkpoint, pageVars, wire, promised, givenUp, overlooked, used>>

Counters == {"edits", "foreign", "closes", "failures", "reloads"}
Edits == Docs \X (1 .. MaxEdits + MaxForeign)
NoCheckpoint == [rev |-> 0, base |-> 0, docs |-> {}, text |-> {}]
NoSave == [on |-> FALSE, rev |-> 0, known |-> {}, tries |-> 0, waiting |-> FALSE, life |-> 0]
NoReload == [on |-> FALSE, at |-> 0, text |-> {}, rev |-> 0]

Part(text, docs) == {e \in text : e[1] \in docs}
Overlay(text, docs, other) == Part(text, Docs \ docs) \cup Part(other, docs)
Differing(a, b) == {d \in Docs : Part(a, {d}) # Part(b, {d})}

(* The work is read; hydrated, with a checkpoint (restored) or without     *)
(* (starting); saved for good if it was restored (flushing, awaiting); the *)
(* author can edit it long before the rest of start-up is over (up).       *)
Shown == page \in {"restored", "starting", "flushing", "awaiting", "opening", "up"}

TypeOK ==
  /\ canon \in [at : Nat, text : SUBSET Edits]
  /\ checkpoint \in [rev : Nat, base : Nat, docs : SUBSET Docs, text : SUBSET Edits]
  /\ Shown \/ page \in {"closed", "loading"}
  /\ mem \subseteq Edits /\ known \subseteq Edits /\ ids \subseteq Docs
  /\ base \in Nat /\ rev \in Nat /\ protected \in Nat
  /\ {dirty, editTimer, saveTimer, checkpointTimer, error} \subseteq BOOLEAN
  /\ save \in [on : BOOLEAN, rev : Nat, known : SUBSET Edits, tries : 0 .. 2, waiting : BOOLEAN, life : Nat]
  /\ reload \in [on : BOOLEAN, at : Nat, text : SUBSET Edits, rev : Nat]
  /\ wire \subseteq [kind : {"save", "checkpoint"}, mine : BOOLEAN, at : {"sent", "landed"},
                     rev : Nat, base : Nat, docs : SUBSET Docs, text : SUBSET Edits, life : Nat]
  /\ \A kind \in {"save", "checkpoint"} : Cardinality({r \in wire : r.kind = kind /\ r.mine}) <= 1
  /\ save.on <=> \E r \in wire : r.kind = "save" /\ r.mine
  /\ promised \subseteq Edits /\ givenUp \cup overlooked \subseteq Edits /\ used \in [Counters -> Nat]

Init ==
  /\ canon = [at |-> 1, text |-> {}] /\ checkpoint = NoCheckpoint
  /\ page = "up" /\ mem = {} /\ base = 1 /\ known = {} /\ rev = 0 /\ dirty = FALSE /\ ids = {} /\ protected = 0
  /\ editTimer = FALSE /\ saveTimer = FALSE /\ checkpointTimer = FALSE /\ save = NoSave /\ error = FALSE /\ reload = NoReload
  /\ wire = {} /\ promised = {} /\ givenUp = {} /\ overlooked = {}
  /\ used = [c \in Counters |-> 0]

Spend(what) ==
  /\ what # "edits" => used.foreign + used.closes + used.failures + used.reloads < MaxEvents
  /\ used' = [used EXCEPT ![what] = @ + 1]
NewEdit(d) == <<d, used.edits + used.foreign + 1>>
Mine(kind) == {r \in wire : r.kind = kind /\ r.mine}
Life == used.closes + used.reloads - (IF reload.on THEN 1 ELSE 0)
Request(kind, revision, life, at, docs, text) ==
  [kind |-> kind, mine |-> TRUE, at |-> "sent", rev |-> revision, base |-> at, docs |-> docs, text |-> Part(text, docs),
   life |-> life]

(* Revisions start again from 0 with a page and with a reload.  A request  *)
(* of an earlier life is compared with numbers of this one all the same,   *)
(* and a save of revision 0, which "try again" sends after a reload, with  *)
(* none: what they harm then is given up.                                  *)
Harmed(r, edits) == IF r.life = Life THEN givenUp ELSE givenUp \cup edits
Wiped(r) == IF r.rev = 0 THEN givenUp \cup checkpoint.text ELSE Harmed(r, checkpoint.text)

----------------------------------------------------------------------------
(* The page: edits and checkpoints                                         *)

\* Mutant: an edit clears the timer of the edit before it and sets none.
PersistClearsTimer(changed) ==
  /\ rev' = rev + 1 /\ dirty' = TRUE /\ ids' = ids \cup changed
  /\ editTimer' = ~ editTimer /\ UNCHANGED saveTimer
  /\ checkpointTimer' = (checkpointTimer \/ Mine("checkpoint") = {})

(* persist.  An edit names its document, or does not (persist() alone),    *)
(* and then every document counts as changed.  Before start-up has         *)
(* persisted, what a checkpoint brought back is in no list of changed      *)
(* documents: it is given up if a document is named then.                  *)
Persist(changed) ==
  /\ rev' = rev + 1 /\ dirty' = TRUE /\ ids' = ids \cup changed
  /\ editTimer' = TRUE /\ UNCHANGED saveTimer
  /\ checkpointTimer' = (checkpointTimer \/ Mine("checkpoint") = {})   \* else repeated after it: the revision has moved

Edit(d) ==
  /\ Shown /\ used.edits < MaxEdits
  /\ mem' = mem \cup {NewEdit(d)} /\ Persist({d}) /\ Spend("edits")
  /\ givenUp' = IF page = "restored" THEN givenUp \cup (mem \ canon.text) ELSE givenUp
  /\ UNCHANGED <<canon, checkpoint, page, base, known, protected, save, error, reload, wire, promised, overlooked>>

(* scheduleRecoveryCheckpoint's timer, flushRecoveryCheckpoint up to the   *)
(* request.                                                                *)
Current == protected >= rev
SendCheckpoint ==
  /\ Shown /\ checkpointTimer /\ checkpointTimer' = FALSE
  /\ wire' = IF Current THEN wire
             ELSE wire \cup {Request("checkpoint", rev, Life, base, ids, mem)}
  /\ UNCHANGED <<canon, checkpoint, page, mem, base, known, rev, dirty, ids, protected, editTimer, saveTimer, save, error, reload,
                 promised, givenUp, used, overlooked>>

----------------------------------------------------------------------------
(* The page: saves                                                         *)

\* Mutant: the promise of the save under way is not looked at.
NoneUnderWay == FALSE

(* ui.workspaceSavePromise                                                 *)
UnderWay == save.on

(* saveWorkspace up to the request: the documents that are listed and      *)
(* differ from what is known to be on disk.  A call that meets a save      *)
(* waits for it.                                                           *)
SaveWorkspace ==
  IF UnderWay THEN save' = [save EXCEPT !.waiting = TRUE] /\ UNCHANGED wire
  ELSE /\ save' = [NoSave EXCEPT !.on = TRUE, !.rev = rev, !.known = known, !.life = Life]
       /\ wire' = wire \cup {Request("save", rev, Life, base, ids \cap Differing(mem, known), mem)}

(* persist's timer: scheduleWorkspaceSave.                                 *)
ScheduleSave ==
  /\ Shown /\ editTimer /\ editTimer' = FALSE /\ saveTimer' = (saveTimer \/ dirty)
  /\ UNCHANGED <<canon, checkpoint, page, mem, base, known, rev, dirty, ids, protected, checkpointTimer, save, error, reload,
                 wire, promised, givenUp, used, overlooked>>

(* scheduleWorkspaceSave's timer.                                          *)
SaveWhenDue ==
  /\ Shown /\ saveTimer /\ saveTimer' = FALSE
  /\ IF dirty THEN SaveWorkspace ELSE UNCHANGED <<save, wire>>
  /\ UNCHANGED <<canon, checkpoint, page, mem, base, known, rev, dirty, ids, protected, editTimer, checkpointTimer, error,
                 reload, promised, givenUp, used, overlooked>>

(* The author's "try again".                                               *)
Retry ==
  /\ Shown /\ error /\ ~ UnderWay /\ SaveWorkspace /\ saveTimer' = FALSE
  /\ UNCHANGED <<canon, checkpoint, page, mem, base, known, rev, dirty, ids, protected, editTimer, checkpointTimer, error,
                  reload, promised, givenUp, used, overlooked>>

(* reloadWorkspaceFromDisk: the author gives up what is not saved.  Edits  *)
(* and saves go on until activateProjectState replaces the state.          *)
StartReload ==
  /\ Shown /\ error /\ ~ UnderWay /\ ~ reload.on /\ used.reloads < MaxReloads /\ Spend("reloads")
  /\ reload' = [on |-> TRUE, at |-> canon.at, text |-> canon.text, rev |-> rev]
  /\ UNCHANGED <<canon, checkpoint, page, mem, base, known, rev, dirty, ids, protected, editTimer, saveTimer,
                 checkpointTimer, save, error, wire, promised, givenUp, overlooked>>

\* Mutant: a commit does not compare revisions.
CommittedAlways(revision) == NoCheckpoint

(* commitWorkspaceRecoveryCheckpoint: a checkpoint of a later revision     *)
(* stays.                                                                  *)
Committed(revision) ==
  IF revision # 0 /\ checkpoint.rev > revision THEN checkpoint ELSE NoCheckpoint

FinishReload ==
  /\ Shown /\ reload.on /\ reload' = NoReload
  /\ checkpoint' = Committed(reload.rev)
  /\ mem' = reload.text /\ known' = reload.text /\ base' = reload.at
  /\ rev' = 0 /\ dirty' = FALSE /\ ids' = {} /\ error' = FALSE       \* recoveryCheckpointRevision stays
  /\ givenUp' = givenUp \cup (mem \ reload.text)
  /\ UNCHANGED <<canon, page, protected, editTimer, saveTimer, checkpointTimer, save, wire, promised, used, overlooked>>

----------------------------------------------------------------------------
(* The server, and what the page does with its answers                     *)

(* saveWorkspaceState, for a page that has seen the last save.             *)
Land(r) ==
  /\ r \in wire /\ r.kind = "save" /\ r.at = "sent" /\ r.base = canon.at
  /\ canon' = [at |-> canon.at + 1, text |-> Overlay(canon.text, r.docs, r.text)]
  /\ wire' = (wire \ {r}) \cup {[r EXCEPT !.at = "landed"]}
  /\ promised' = promised \ canon'.text
  /\ UNCHANGED <<checkpoint, pageVars, givenUp, used, overlooked>>

(* Edits came while the save was under way.                                *)
Moved == rev # save.rev

(* The end of saveWorkspace.  After a conflict the page takes over what    *)
(* was written: an edit made since the rebase is replaced                  *)
(* (reconcileWorkspaceSave keeps conversations only).                      *)
SaveDone(r) ==
  /\ save' = NoSave /\ error' = FALSE
  /\ base' = r.base + 1 /\ known' = Overlay(known, r.docs, r.text)
  /\ mem' = IF save.tries > 0 THEN r.text ELSE mem
  /\ dirty' = (dirty /\ Moved)
  /\ ids' = IF Moved THEN ids ELSE {}
  /\ saveTimer' = (saveTimer \/ dirty')
  /\ givenUp' = Harmed(r, mem) \cup Wiped(r) \cup (mem \ mem')
  /\ UNCHANGED <<page, rev, protected, editTimer, checkpointTimer, reload>>

(* The handler's commitWorkspaceRecoveryCheckpoint, whose errors are       *)
(* swallowed, and the answer, if there is still a page that waits for it.  *)
EndSave(r) ==
  /\ r \in wire /\ r.at = "landed" /\ wire' = wire \ {r}
  /\ \/ checkpoint' = Committed(r.rev) /\ UNCHANGED used
     \/ used.failures < MaxFailures /\ Spend("failures") /\ UNCHANGED checkpoint
  /\ IF r.mine THEN SaveDone(r) ELSE givenUp' = Wiped(r) /\ UNCHANGED pageVars
  /\ UNCHANGED <<canon, promised, overlooked>>

(* saveWorkspaceAfterConflict: read the work, rebaseWorkspaceConflict with *)
(* what the page holds now, and post the whole of it; twice at most.       *)
Refused(r) ==
  LET local == Differing(mem, save.known)
      remote == Differing(canon.text, save.known)
  IN /\ r \in wire /\ r.kind = "save" /\ r.at = "sent" /\ r.base # canon.at
     /\ IF ~ r.mine
        THEN wire' = wire \ {r} /\ UNCHANGED <<save, error, saveTimer>>
        ELSE IF save.tries < 2 /\ local \cap remote \cap Differing(mem, canon.text) = {}
        THEN /\ save' = [save EXCEPT !.tries = @ + 1]
             /\ wire' = (wire \ {r}) \cup {Request("save", save.rev, save.life, canon.at, Docs,
                                                   Overlay(canon.text, local, mem))}
             /\ UNCHANGED <<error, saveTimer>>
        ELSE /\ save' = NoSave /\ error' = TRUE /\ wire' = wire \ {r}
             /\ saveTimer' = (saveTimer \/ save.waiting)          \* the call that waited tries again
  /\ UNCHANGED <<canon, checkpoint, page, mem, base, known, rev, dirty, ids, protected, editTimer, checkpointTimer,
                 reload, promised, givenUp, used, overlooked>>

(* The server's error, or no answer in 90 seconds: then the request goes   *)
(* on without the page.  Nothing tries again but the author.               *)
SaveFails(r) ==
  /\ r \in Mine("save") /\ save' = NoSave /\ error' = TRUE /\ used.failures < MaxFailures /\ Spend("failures")
  /\ \/ r.at = "sent" /\ wire' = wire \ {r}
     \/ wire' = (wire \ {r}) \cup {[r EXCEPT !.mine = FALSE]}
  /\ UNCHANGED <<canon, checkpoint, page, mem, base, known, rev, dirty, ids, protected, editTimer, saveTimer, checkpointTimer, reload,
                 promised, givenUp, overlooked>>

(* saveWorkspaceRecoveryCheckpoint, and the end of flushRecoveryCheckpoint *)
(* if there is a page that waits.  A checkpoint of a later revision is     *)
(* kept, and the answer is ok nevertheless.                                *)
LandCheckpoint(r) ==
  LET kept == checkpoint.rev > r.rev
  IN /\ r \in wire /\ r.kind = "checkpoint" /\ wire' = wire \ {r}
     /\ checkpoint' = IF kept THEN checkpoint ELSE [rev |-> r.rev, base |-> r.base, docs |-> r.docs, text |-> r.text]
     /\ givenUp' = IF kept THEN givenUp \cup (r.text \ checkpoint.text) ELSE Harmed(r, checkpoint.text)
     /\ IF r.mine
        THEN /\ promised' = promised \cup (r.text \ canon.text)
             /\ protected' = IF r.rev > protected THEN r.rev ELSE protected
             /\ checkpointTimer' = (checkpointTimer \/ rev > r.rev)
        ELSE UNCHANGED <<promised, protected, checkpointTimer>>
     /\ UNCHANGED <<canon, page, mem, base, known, rev, dirty, ids, editTimer, saveTimer, save, error, reload, used, overlooked>>

CheckpointFails(r) ==
  /\ r \in Mine("checkpoint") /\ wire' = wire \ {r} /\ used.failures < MaxFailures /\ Spend("failures")
  /\ checkpointTimer' = (checkpointTimer \/ rev > r.rev)
  /\ UNCHANGED <<canon, checkpoint, page, mem, base, known, rev, dirty, ids, protected, editTimer, saveTimer, save, error, reload,
                 promised, givenUp, overlooked>>

(* Another window, or an agent, that has read the work as it is.           *)
Foreign(d) ==
  /\ used.foreign < MaxForeign /\ Spend("foreign")
  /\ canon' = [at |-> canon.at + 1, text |-> canon.text \cup {NewEdit(d)}]
  /\ UNCHANGED <<checkpoint, pageVars, wire, promised, givenUp, overlooked>>

----------------------------------------------------------------------------
(* The end of a page, and a new one                                        *)

(* The page ends: its requests go on, or everything stops with it.         *)
Close ==
  /\ page # "closed" /\ used.closes < MaxCloses /\ Spend("closes") /\ page' = "closed"
  /\ wire' \in {{}, {[r EXCEPT !.mine = FALSE] : r \in wire}}
  /\ mem' = {} /\ base' = 0 /\ known' = {} /\ rev' = 0 /\ dirty' = FALSE /\ ids' = {} /\ protected' = 0
  /\ editTimer' = FALSE /\ saveTimer' = FALSE /\ checkpointTimer' = FALSE /\ save' = NoSave /\ error' = FALSE /\ reload' = NoReload
  /\ UNCHANGED <<canon, checkpoint, promised, givenUp, overlooked>>

Load ==
  /\ page = "closed" /\ page' = "loading"
  /\ mem' = canon.text /\ known' = canon.text /\ base' = canon.at
  /\ UNCHANGED <<canon, checkpoint, rev, dirty, ids, protected, editTimer, saveTimer, checkpointTimer, save, error, reload,
                 wire, promised, givenUp, used, overlooked>>

\* Mutant: a checkpoint is restored over any state of the work.
RestorableAnyway == checkpoint.rev > 0

Restorable == checkpoint.rev > 0 /\ checkpoint.base = base

(* hydrateWorkspace: a checkpoint of another state of the work, or one     *)
(* that cannot be read in time, is left alone and its edits are given up.  *)
Hydrate ==
  /\ page = "loading"
  /\ \/ /\ Restorable /\ page' = "restored" /\ UNCHANGED <<givenUp, used>>
        /\ mem' = Overlay(mem, checkpoint.docs, checkpoint.text)
        /\ rev' = checkpoint.rev /\ protected' = checkpoint.rev /\ dirty' = TRUE
     \/ /\ page' = "starting"
        /\ IF Restorable THEN used.failures < MaxFailures /\ Spend("failures") ELSE UNCHANGED used
        /\ givenUp' = givenUp \cup (checkpoint.text \ mem) /\ UNCHANGED <<mem, rev, protected, dirty>>
  /\ UNCHANGED <<canon, checkpoint, base, known, ids, editTimer, saveTimer, checkpointTimer, save, error, reload, wire, promised, overlooked>>

(* bootstrap's persist(), which lists every document as changed.           *)
Startup ==
  /\ page \in {"restored", "starting"} /\ page' = IF page = "restored" THEN "flushing" ELSE "opening"
  /\ Persist(Docs)
  /\ UNCHANGED <<canon, checkpoint, mem, base, known, protected, save, error, reload, wire, promised, givenUp, used, overlooked>>

(* flushWorkspaceSave, for what a checkpoint has brought back: saves until *)
(* nothing is left to save, one has failed, or there were four of them.    *)
Flush ==
  /\ page = "flushing" /\ editTimer' = FALSE /\ saveTimer' = FALSE
  /\ IF dirty \/ UnderWay THEN page' = "awaiting" /\ SaveWorkspace
     ELSE page' = "opening" /\ UNCHANGED <<save, wire>>
  /\ UNCHANGED <<canon, checkpoint, mem, base, known, rev, dirty, ids, protected, checkpointTimer, error, reload, promised,
                 givenUp, overlooked, used>>

Flushed ==
  /\ page = "awaiting" /\ ~ UnderWay
  /\ \/ dirty /\ ~ error /\ SaveWorkspace /\ UNCHANGED page
     \/ page' = "opening" /\ UNCHANGED <<save, wire>>
  /\ UNCHANGED <<canon, checkpoint, mem, base, known, rev, dirty, ids, protected, editTimer, saveTimer, checkpointTimer,
                 error, reload, promised, givenUp, overlooked, used>>

(* The end of bootstrap, after awaits of its own: persist() after a change *)
(* of the work's structure; else, with a local model, the work counts as   *)
(* saved. Timers then find nothing to do, so what a save under way does    *)
(* not take stays where it is until the next edit.                         *)
Settle ==
  /\ page = "opening" /\ page' = "up"
  /\ \/ Persist(Docs) /\ UNCHANGED overlooked
     \/ /\ dirty' = FALSE /\ UNCHANGED <<rev, ids, editTimer, saveTimer, checkpointTimer>>
        /\ overlooked' = IF save.on /\ ~ Moved THEN overlooked ELSE overlooked \cup (mem \ canon.text)
     \/ UNCHANGED <<rev, dirty, ids, editTimer, saveTimer, checkpointTimer, overlooked>>
  /\ UNCHANGED <<canon, checkpoint, mem, base, known, protected, save, error, reload, wire, promised, givenUp, used>>

----------------------------------------------------------------------------
Author == (\E d \in Docs : Edit(d)) \/ Retry \/ StartReload
Serving == \E r \in wire : Land(r) \/ EndSave(r) \/ Refused(r) \/ LandCheckpoint(r)
Faults == \E r \in wire : SaveFails(r) \/ CheckpointFails(r)
Opening == Load \/ Hydrate \/ Startup

Next == Author \/ SendCheckpoint \/ ScheduleSave \/ SaveWhenDue \/ FinishReload \/ Serving \/ Faults
        \/ Opening \/ Flush \/ Flushed \/ Settle \/ Close \/ (\E d \in Docs : Foreign(d))

Spec == Init /\ [][Next]_vars

(* As long as a timer of a save, start-up or the server has something to   *)
(* do, one of them does something; nothing else has to happen.             *)
Busy == ScheduleSave \/ SaveWhenDue \/ Opening \/ Serving
Fairness == WF_vars(Busy)
FairSpec == Spec /\ Fairness

----------------------------------------------------------------------------
(* Properties                                                              *)

(* No save takes an edit out of the work on disk, whoever made it, stale   *)
(* as what the page or a checkpoint holds may be (saveWorkspaceState's     *)
(* stamp, rebaseWorkspaceConflict, hydrateWorkspace's base).               *)
WorkOnlyGrows == [][canon.text \ givenUp \subseteq canon'.text]_vars

(* An edit the page was told is in a checkpoint, and that is not yet on    *)
(* disk, is in the checkpoint still, whatever ends in between              *)
(* (commitWorkspaceRecoveryCheckpoint, flushRecoveryCheckpoint).           *)
ProtectedEditsSurvive == promised \ givenUp \subseteq checkpoint.text

(* Every edit is saved in the end, unless the author is told that saving   *)
(* failed, or gave it up, or the page has ended: an edit that is not is    *)
(* never left without a timer or a save that will take it (saveWorkspace,  *)
(* scheduleWorkspaceSave), but for those made before the end of start-up,  *)
(* which takes a work for saved that is not (overlooked).                  *)
EditsGetSaved == []<>(~ Shown \/ error \/ mem \subseteq canon.text \cup givenUp \cup overlooked)
=============================================================================
