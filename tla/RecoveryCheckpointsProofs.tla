---------------------- MODULE RecoveryCheckpointsProofs ----------------------
(***************************************************************************)
(* RecoveryCheckpoints for every set of documents and every number of      *)
(* edits, foreign saves, closed pages, failures and reloads.               *)
(***************************************************************************)
EXTENDS RecoveryCheckpoints, FiniteSetTheorems, TLAPS

OnDisk == canon.text \cup givenUp
Held == mem \cup givenUp
Saves == {r \in wire : r.kind = "save"}
Checkpoints == {r \in wire : r.kind = "checkpoint"}

(* TypeOK, but for its last conjuncts on the requests.                     *)
Types ==
  /\ canon \in [at : Nat, text : SUBSET Edits]
  /\ checkpoint \in [rev : Nat, base : Nat, docs : SUBSET Docs, text : SUBSET Edits]
  /\ Shown \/ page \in {"closed", "loading"}
  /\ mem \subseteq Edits /\ known \subseteq Edits /\ ids \subseteq Docs
  /\ base \in Nat /\ rev \in Nat /\ protected \in Nat
  /\ editTimer \in BOOLEAN /\ saveTimer \in BOOLEAN /\ checkpointTimer \in BOOLEAN
  /\ dirty \in BOOLEAN /\ error \in BOOLEAN
  /\ save \in [on : BOOLEAN, rev : Nat, known : SUBSET Edits, tries : 0 .. 2, waiting : BOOLEAN, life : Nat]
  /\ reload \in [on : BOOLEAN, at : Nat, text : SUBSET Edits, rev : Nat]
  /\ wire \subseteq [kind : {"save", "checkpoint"}, mine : BOOLEAN, at : {"sent", "landed"},
                     rev : Nat, base : Nat, docs : SUBSET Docs, text : SUBSET Edits, life : Nat]
  /\ promised \subseteq Edits /\ givenUp \subseteq Edits /\ overlooked \subseteq Edits
  /\ used \in [Counters -> Nat] /\ used.edits <= MaxEdits /\ used.foreign <= MaxForeign
  /\ reload.on => used.reloads > 0

(* A page that waits has at most one request of a kind, and only a page    *)
(* that is shown waits or has timers.                                      *)
OneOfAKind ==
  /\ \A r, s \in wire : r.kind = s.kind /\ r.mine /\ s.mine => r = s
  /\ save.on <=> \E r \in wire : r.kind = "save" /\ r.mine
  /\ (\E r \in wire : r.mine) \/ editTimer \/ saveTimer \/ checkpointTimer \/ error \/ reload.on => Shown
  /\ checkpointTimer => \A r \in Checkpoints : ~ r.mine
  /\ \A r \in Checkpoints : r.at = "sent"

(* Every stamp is one the work has had, and a request that has landed was  *)
(* made for an earlier state of the work.  Texts are of the documents that *)
(* are listed with them.                                                   *)
Stamped ==
  /\ 1 <= canon.at /\ base <= canon.at /\ reload.at <= canon.at /\ checkpoint.base <= canon.at
  /\ \A r \in wire : r.base <= canon.at /\ (r.at = "landed" => r.base < canon.at)
  /\ checkpoint.text = Part(checkpoint.text, checkpoint.docs)
  /\ \A r \in wire : r.text = Part(r.text, r.docs)

(* What is made for a state of the work has all of it in the documents it  *)
(* lists.                                                                  *)
Fits(c, at, text) == c.base = at => Part(text, c.docs) \subseteq c.text \cup givenUp

NothingStale ==
  /\ base = canon.at => canon.text \subseteq Held
  /\ reload.at = canon.at => canon.text \subseteq reload.text \cup givenUp
  /\ known \subseteq Held /\ (save.on => save.known \subseteq Held)
  /\ Fits(checkpoint, canon.at, canon.text)
  /\ \A r \in wire : Fits(r, canon.at, canon.text)
  /\ page = "loading" => /\ Fits(checkpoint, base, mem)
                         /\ \A r \in Checkpoints : Fits(r, base, mem)

(* The page's own save: of what the page has, or, once it has been         *)
(* refused, of everything.                                                 *)
OwnSave ==
  \A r \in Saves : r.mine =>
    /\ save.tries = 0 =>
         /\ r.text \subseteq Held
         /\ r.at = "sent" /\ r.base = canon.at => canon.text \subseteq Held
         /\ r.at = "landed" /\ r.base + 1 = canon.at => canon.text \subseteq Held
    /\ save.tries > 0 =>
         /\ r.docs = Docs
         /\ r.at = "landed" /\ r.base + 1 = canon.at => canon.text \subseteq r.text \cup givenUp

GrowthInv == Types /\ OneOfAKind /\ Stamped /\ NothingStale /\ OwnSave

(* Requests of this life of the page carry numbers it has had.             *)
Lives ==
  /\ \A r \in wire : r.life <= Life /\ (r.life = Life => Shown /\ r.rev <= rev)
  /\ \A r \in Checkpoints : r.life = Life => r.mine
  /\ \A r \in Saves : r.mine => r.rev = save.rev /\ r.life = save.life

(* No edit has a number that is still to come.                             *)
Made(text) == \A e \in text : e[2] <= used.edits + used.foreign
Numbered ==
  /\ Made(canon.text) /\ Made(checkpoint.text) /\ Made(mem) /\ Made(reload.text) /\ Made(promised)
  /\ \A r \in wire : Made(r.text)

(* What the page takes for the text on disk is on disk.                    *)
KnownIsOnDisk ==
  /\ known \subseteq OnDisk /\ (save.on => save.known \subseteq OnDisk) /\ reload.text \subseteq OnDisk
  /\ \A r \in wire : r.at = "landed" => r.text \subseteq OnDisk
  /\ page = "loading" => mem \subseteq OnDisk

(* A page that a checkpoint has been restored in and that has done nothing *)
(* yet.                                                                    *)
Quiet ==
  /\ page = "restored" /\ ~ editTimer /\ ~ saveTimer /\ ~ checkpointTimer /\ ~ error /\ ~ reload.on
  /\ \A r \in wire : ~ r.mine

(* A document with an edit that is not on disk is listed as changed.       *)
ChangesListed == Shown => Quiet \/ \A e \in mem : e[1] \in ids \/ e \in OnDisk

(* A save of this life takes to disk what the page had at its revision:    *)
(* what any checkpoint of that revision or of an earlier one has.          *)
SavesCover ==
  \A r \in Saves : r.life = Life =>
     /\ r.rev = rev => mem \subseteq r.text \cup OnDisk
     /\ \A c \in Checkpoints : c.mine /\ c.rev <= r.rev => c.text \subseteq r.text \cup OnDisk
     /\ checkpoint.rev <= r.rev => promised \cap checkpoint.text \subseteq r.text \cup OnDisk

(* What is promised is in the checkpoint, and until the page ends in the   *)
(* page too, and not on disk; the page's next checkpoint has it all.       *)
Promises ==
  /\ promised \subseteq checkpoint.text \cup givenUp
  /\ Shown => promised \subseteq Held
  /\ promised \cap canon.text \subseteq givenUp
  /\ \A c \in Checkpoints : c.mine => c.text \subseteq Held /\ (c.life = Life => promised \subseteq c.text \cup OnDisk)

PromiseInv == Lives /\ Numbered /\ KnownIsOnDisk /\ ChangesListed /\ SavesCover /\ Promises

USE BoundsAssumption

Requests == [kind : {"save", "checkpoint"}, mine : BOOLEAN, at : {"sent", "landed"},
             rev : Nat, base : Nat, docs : SUBSET Docs, text : SUBSET Edits, life : Nat]

LEMMA LifeType == Types => Life \in Nat
  BY DEF Types, Life, Counters

LEMMA RequestType ==
  ASSUME NEW kind \in {"save", "checkpoint"}, NEW revision \in Nat, NEW life \in Nat, NEW at \in Nat,
         NEW docs \in SUBSET Docs, NEW text \in SUBSET Edits
  PROVE  Request(kind, revision, life, at, docs, text) \in Requests
  BY DEF Request, Part, Requests

SaveLocals == [on : BOOLEAN, rev : Nat, known : SUBSET Edits, tries : 0 .. 2, waiting : BOOLEAN, life : Nat]

LEMMA RequestChanges ==
  ASSUME NEW r \in Requests
  PROVE  /\ [r EXCEPT !.mine = FALSE] \in Requests
         /\ [r EXCEPT !.at = "landed"] \in Requests
  BY DEF Requests

LEMMA NoSaveType == NoSave \in SaveLocals
  BY DEF NoSave, SaveLocals

LEMMA RetriedType ==
  ASSUME NEW s \in SaveLocals, s.tries < 2
  PROVE  [s EXCEPT !.tries = @ + 1] \in SaveLocals
<1>1. s.tries \in 0 .. 2 /\ s.tries + 1 \in 0 .. 2 BY DEF SaveLocals
<1> QED BY <1>1 DEF SaveLocals

LEMMA SaveWorkspaceTypes ==
  ASSUME Types, SaveWorkspace
  PROVE  /\ save' \in [on : BOOLEAN, rev : Nat, known : SUBSET Edits, tries : 0 .. 2, waiting : BOOLEAN, life : Nat]
         /\ wire' \subseteq Requests
<1>1. CASE UnderWay BY <1>1, ZenonT(60) DEF Types, SaveWorkspace, Requests
<1>2. CASE ~ UnderWay
  <2>1. Request("save", rev, Life, base, ids \cap Differing(mem, known), mem) \in Requests
    BY LifeType, RequestType DEF Types
  <2>2. wire' \subseteq Requests BY <1>2, <2>1 DEF Types, SaveWorkspace, Requests
  <2>3. save' = [NoSave EXCEPT !.on = TRUE, !.rev = rev, !.known = known, !.life = Life]
    BY <1>2 DEF SaveWorkspace
  <2>4. save' = [on |-> TRUE, rev |-> rev, known |-> known, tries |-> 0, waiting |-> FALSE, life |-> Life]
    BY <2>3 DEF NoSave
  <2>5. save' \in SaveLocals BY <2>4, LifeType DEF Types, SaveLocals
  <2> QED BY <2>2, <2>5 DEF SaveLocals
<1> QED BY <1>1, <1>2

LEMMA StepTypes ==
  ASSUME Types, [Next]_vars
  PROVE  Types'
<1> USE DEF Types, Shown, Edits, Part, Overlay, Counters
<1>1. ASSUME NEW d \in Docs, Edit(d) PROVE Types'
  BY <1>1 DEF Edit, Persist, Spend, NewEdit, Mine
<1>2. ASSUME SendCheckpoint PROVE Types'

  <2>1. Request("checkpoint", rev, Life, base, ids, mem) \in Requests
    BY LifeType, RequestType
  <2> QED BY <1>2, <2>1 DEF SendCheckpoint, Requests
<1>3. ASSUME ScheduleSave PROVE Types'
  BY <1>3 DEF ScheduleSave
<1>4. ASSUME SaveWhenDue PROVE Types'

  <2>1. CASE dirty BY <1>4, <2>1, SaveWorkspaceTypes DEF SaveWhenDue, Requests
  <2>2. CASE ~ dirty BY <1>4, <2>2 DEF SaveWhenDue
  <2> QED BY <2>1, <2>2
<1>5. ASSUME Retry PROVE Types'
  BY <1>5, SaveWorkspaceTypes DEF Retry, Requests
<1>6. ASSUME StartReload PROVE Types'
  BY <1>6 DEF StartReload, Spend
<1>7. ASSUME FinishReload PROVE Types'
  BY <1>7 DEF FinishReload, NoReload, Committed, NoCheckpoint
<1>8. ASSUME NEW r \in wire, Land(r) PROVE Types'
  BY <1>8 DEF Land, pageVars
<1>9. ASSUME NEW r \in wire, EndSave(r) PROVE Types'

  <2>1. wire' \subseteq Requests /\ r \in Requests BY <1>9 DEF EndSave, Requests
  <2>2. checkpoint' \in [rev : Nat, base : Nat, docs : SUBSET Docs, text : SUBSET Edits]
    BY <1>9 DEF EndSave, Committed, NoCheckpoint
  <2>3. /\ UNCHANGED <<canon, promised, overlooked>>
        /\ used' \in [Counters -> Nat] /\ used'.edits <= MaxEdits /\ used'.foreign <= MaxForeign
        /\ used'.reloads = used.reloads
    BY <1>9 DEF EndSave, Spend
  <2>4. Wiped(r) \subseteq Edits BY DEF Wiped, Harmed
  <2>5. CASE r.mine
    <3>1. SaveDone(r) BY <1>9, <2>5 DEF EndSave
    <3>2. mem' \subseteq Edits /\ known' \subseteq Edits /\ base' \in Nat /\ givenUp' \subseteq Edits
      BY <2>1, <2>4, <3>1 DEF SaveDone, Harmed, Requests
    <3>3. save' \in SaveLocals BY <3>1, NoSaveType DEF SaveDone
    <3>4. /\ ids' \subseteq Docs /\ dirty' \in BOOLEAN /\ saveTimer' \in BOOLEAN /\ error' \in BOOLEAN
          /\ UNCHANGED <<page, rev, protected, editTimer, checkpointTimer, reload>>
      BY <3>1 DEF SaveDone
    <3> QED BY <2>1, <2>2, <2>3, <3>2, <3>3, <3>4 DEF SaveLocals, Requests
  <2>6. CASE ~ r.mine BY <1>9, <2>1, <2>2, <2>3, <2>4, <2>6 DEF EndSave, pageVars, Requests
  <2> QED BY <2>5, <2>6
<1>10. ASSUME NEW r \in wire, Refused(r) PROVE Types'

  <2> DEFINE again == Request("save", save.rev, save.life, canon.at, Docs,
                              Overlay(canon.text, Differing(mem, save.known), mem))
  <2>1. Overlay(canon.text, Differing(mem, save.known), mem) \in SUBSET Edits BY DEF Overlay, Part
  <2>2. again \in Requests BY <2>1, RequestType
  <2>3. wire' \subseteq wire \cup {again} BY <1>10 DEF Refused
  <2>4. save' \in SaveLocals
    <3>1. save \in SaveLocals BY DEF SaveLocals
    <3>2. \/ save' = save \/ save' = NoSave
          \/ save.tries < 2 /\ save' = [save EXCEPT !.tries = @ + 1]
      BY <1>10 DEF Refused
    <3> QED BY <3>1, <3>2, NoSaveType, RetriedType
  <2>5. error' \in BOOLEAN /\ saveTimer' \in BOOLEAN BY <1>10 DEF Refused
  <2> HIDE DEF again
  <2> QED BY <1>10, <2>2, <2>3, <2>4, <2>5 DEF Refused, Requests, SaveLocals
<1>11. ASSUME NEW r \in wire, SaveFails(r) PROVE Types'

  <2>1. wire' \subseteq Requests
    <3>1. wire' \subseteq wire \cup {[r EXCEPT !.mine = FALSE]} BY <1>11 DEF SaveFails
    <3>2. wire \subseteq Requests BY DEF Requests
    <3>3. [r EXCEPT !.mine = FALSE] \in Requests BY <3>2, RequestChanges
    <3> HIDE DEF Types
    <3> QED BY <3>1, <3>2, <3>3
  <2> QED BY <1>11, <2>1 DEF SaveFails, Spend, NoSave, Requests
<1>12. ASSUME NEW r \in wire, LandCheckpoint(r) PROVE Types'
  BY <1>12 DEF LandCheckpoint, Harmed
<1>13. ASSUME NEW r \in wire, CheckpointFails(r) PROVE Types'
  BY <1>13 DEF CheckpointFails, Mine, Spend
<1>14. ASSUME NEW d \in Docs, Foreign(d) PROVE Types'
  BY <1>14 DEF Foreign, Spend, NewEdit, pageVars
<1>15. ASSUME Close PROVE Types'

  <2>1. wire' \subseteq Requests
    <3>1. wire \subseteq Requests BY DEF Requests
    <3>2. \A r \in wire : [r EXCEPT !.mine = FALSE] \in Requests BY <3>1, RequestChanges
    <3> HIDE DEF Types
    <3> QED BY <1>15, <3>2 DEF Close
  <2>2. save' \in SaveLocals BY <1>15, NoSaveType DEF Close
  <2>3. used' \in [Counters -> Nat] /\ used'.edits <= MaxEdits /\ used'.foreign <= MaxForeign
    BY <1>15 DEF Close, Spend
  <2> QED BY <1>15, <2>1, <2>2, <2>3 DEF Close, NoReload, Requests, SaveLocals
<1>16. ASSUME Load PROVE Types'
  BY <1>16 DEF Load
<1>17. ASSUME Hydrate PROVE Types'

  <2>1. Overlay(mem, checkpoint.docs, checkpoint.text) \subseteq Edits BY DEF Overlay, Part
  <2>2. used' \in [Counters -> Nat] /\ used'.edits <= MaxEdits /\ used'.foreign <= MaxForeign
        /\ used'.reloads = used.reloads
    BY <1>17 DEF Hydrate, Spend
  <2>3. mem' \subseteq Edits /\ givenUp' \subseteq Edits /\ rev' \in Nat /\ protected' \in Nat /\ dirty' \in BOOLEAN
    BY <1>17, <2>1 DEF Hydrate
  <2> QED BY <1>17, <2>2, <2>3 DEF Hydrate
<1>18. ASSUME Startup PROVE Types'
  BY <1>18 DEF Startup, Persist, Mine
<1>19. ASSUME UNCHANGED vars PROVE Types'
  BY <1>19 DEF vars, pageVars
<1>20. ASSUME Flush PROVE Types'

  <2>1. CASE dirty \/ UnderWay BY <1>20, <2>1, SaveWorkspaceTypes DEF Flush, Requests
  <2>2. CASE ~ (dirty \/ UnderWay) BY <1>20, <2>2 DEF Flush
  <2> QED BY <2>1, <2>2
<1>21. ASSUME Flushed PROVE Types'
  <2>1. CASE SaveWorkspace /\ UNCHANGED page BY <1>21, <2>1, SaveWorkspaceTypes DEF Flushed, Requests
  <2>2. CASE UNCHANGED <<save, wire>> /\ page' = "opening" BY <1>21, <2>2 DEF Flushed
  <2> QED BY <1>21, <2>1, <2>2 DEF Flushed
<1>22. ASSUME Settle PROVE Types'
  <2>1. /\ page' = "up" /\ overlooked' \subseteq overlooked \cup mem
        /\ rev' \in {rev, rev + 1} /\ dirty' \in BOOLEAN /\ ids' \subseteq ids \cup Docs
        /\ editTimer' \in BOOLEAN /\ saveTimer' = saveTimer /\ checkpointTimer' \in BOOLEAN
        /\ UNCHANGED <<canon, checkpoint, mem, base, known, protected, save, error, reload, wire, promised, givenUp, used>>
    BY <1>22 DEF Settle, Persist, Mine
  <2>2. overlooked' \subseteq Edits /\ ids' \subseteq Docs BY <2>1
  <2>3. Shown' /\ rev' \in Nat BY <2>1
  <2> QED BY <2>1, <2>2, <2>3
<1> QED BY <1>1, <1>2, <1>3, <1>4, <1>5, <1>6, <1>7, <1>8, <1>9, <1>10, <1>11, <1>12, <1>13, <1>14, <1>15, <1>16, <1>17, <1>18, <1>19, <1>20, <1>21, <1>22
   DEF Next, Author, Serving, Faults, Opening

LEMMA SaveWorkspaceOne ==
  ASSUME Types, OneOfAKind, Shown, Shown', SaveWorkspace, UNCHANGED <<checkpointTimer, error, reload>>
  PROVE  OneOfAKind'
<1> USE DEF Types, OneOfAKind, Shown, Checkpoints
<1>1. CASE UnderWay BY <1>1 DEF SaveWorkspace, UnderWay
<1>2. CASE ~ UnderWay
  <2> DEFINE new == Request("save", rev, Life, base, ids \cap Differing(mem, known), mem)
  <2>1. new.kind = "save" /\ new.mine BY DEF Request
  <2>2. wire' = wire \cup {new} /\ save'.on /\ ~ save.on BY <1>2 DEF SaveWorkspace, UnderWay, NoSave
  <2> HIDE DEF new
  <2> QED BY <2>1, <2>2
<1> QED BY <1>1, <1>2

LEMMA StepOne ==
  ASSUME Types, OneOfAKind, [Next]_vars
  PROVE  OneOfAKind'
<1> USE DEF Types, OneOfAKind, Shown, Checkpoints
<1>1. ASSUME NEW d \in Docs, Edit(d) PROVE OneOfAKind'
  BY <1>1 DEF Edit, Persist, Spend, NewEdit, Mine
<1>2. ASSUME SendCheckpoint PROVE OneOfAKind'

  <2>1. CASE Current BY <1>2, <2>1 DEF SendCheckpoint
  <2>2. CASE ~ Current
    <3> DEFINE new == Request("checkpoint", rev, Life, base, ids, mem)
    <3>1. new.kind = "checkpoint" /\ new.mine /\ new.at = "sent" BY DEF Request
    <3>2. wire' = wire \cup {new} BY <1>2, <2>2 DEF SendCheckpoint
    <3> HIDE DEF new
    <3> QED BY <1>2, <3>1, <3>2 DEF SendCheckpoint
  <2> QED BY <2>1, <2>2
<1>3. ASSUME ScheduleSave PROVE OneOfAKind'
  BY <1>3 DEF ScheduleSave
<1>4. ASSUME SaveWhenDue PROVE OneOfAKind'

  <2>1. CASE dirty BY <1>4, <2>1, SaveWorkspaceOne DEF SaveWhenDue
  <2>2. CASE ~ dirty BY <1>4, <2>2 DEF SaveWhenDue
  <2> QED BY <2>1, <2>2
<1>5. ASSUME Retry PROVE OneOfAKind'
  BY <1>5, SaveWorkspaceOne DEF Retry
<1>6. ASSUME StartReload PROVE OneOfAKind'
  BY <1>6 DEF StartReload, Spend
<1>7. ASSUME FinishReload PROVE OneOfAKind'
  BY <1>7 DEF FinishReload, NoReload, Committed, NoCheckpoint
<1>8. ASSUME NEW r \in wire, Land(r) PROVE OneOfAKind'

  <2> DEFINE landed == [r EXCEPT !.at = "landed"]
  <2>1. landed.mine = r.mine /\ landed.kind = r.kind /\ landed.at = "landed" BY DEF Types
  <2>2. wire' = (wire \ {r}) \cup {landed} /\ r.kind = "save" /\ UNCHANGED pageVars BY <1>8 DEF Land
  <2> HIDE DEF landed
  <2>3. \A s, t \in wire' : s.kind = t.kind /\ s.mine /\ t.mine => s = t BY <2>1, <2>2
  <2>4. (\E s \in wire' : s.kind = "save" /\ s.mine) <=> \E s \in wire : s.kind = "save" /\ s.mine BY <2>1, <2>2
  <2>5. \A s \in wire' : s.kind = "checkpoint" => s \in wire BY <2>1, <2>2
  <2>6. (\E s \in wire' : s.mine) => \E s \in wire : s.mine BY <2>1, <2>2
  <2> QED BY <2>2, <2>3, <2>4, <2>5, <2>6 DEF pageVars
<1>9. ASSUME NEW r \in wire, EndSave(r) PROVE OneOfAKind'
  BY <1>9 DEF EndSave, SaveDone, Committed, NoCheckpoint, Moved, Harmed, Wiped, Spend, pageVars, NoSave
<1>10. ASSUME NEW r \in wire, Refused(r) PROVE OneOfAKind'

  <2> DEFINE again == Request("save", save.rev, save.life, canon.at, Docs,
                              Overlay(canon.text, Differing(mem, save.known), mem))
  <2>1. again.kind = "save" /\ again.mine BY DEF Request
  <2>2. /\ r.kind = "save"
        /\ UNCHANGED <<page, editTimer, checkpointTimer, reload>>
        /\ \/ ~ r.mine /\ wire' = wire \ {r} /\ UNCHANGED <<save, error, saveTimer>>
           \/ r.mine /\ wire' = (wire \ {r}) \cup {again} /\ save'.on = save.on /\ UNCHANGED <<error, saveTimer>>
           \/ r.mine /\ wire' = wire \ {r} /\ save'.on = FALSE
    BY <1>10 DEF Refused, NoSave
  <2> HIDE DEF again
  <2> QED BY <2>1, <2>2
<1>11. ASSUME NEW r \in wire, SaveFails(r) PROVE OneOfAKind'
  BY <1>11 DEF SaveFails, Mine, Spend, NoSave
<1>12. ASSUME NEW r \in wire, LandCheckpoint(r) PROVE OneOfAKind'
  BY <1>12 DEF LandCheckpoint, Harmed
<1>13. ASSUME NEW r \in wire, CheckpointFails(r) PROVE OneOfAKind'
  BY <1>13 DEF CheckpointFails, Mine, Spend
<1>14. ASSUME NEW d \in Docs, Foreign(d) PROVE OneOfAKind'
  BY <1>14 DEF Foreign, Spend, NewEdit, pageVars
<1>15. ASSUME Close PROVE OneOfAKind'
  BY <1>15 DEF Close, Spend, NoSave, NoReload
<1>16. ASSUME Load PROVE OneOfAKind'
  BY <1>16 DEF Load
<1>17. ASSUME Hydrate PROVE OneOfAKind'
  BY <1>17 DEF Hydrate, Restorable, Spend
<1>18. ASSUME Startup PROVE OneOfAKind'
  BY <1>18 DEF Startup, Persist, Mine
<1>19. ASSUME UNCHANGED vars PROVE OneOfAKind'
  BY <1>19 DEF vars, pageVars
<1>20. ASSUME Flush PROVE OneOfAKind'

  <2>1. CASE dirty \/ UnderWay BY <1>20, <2>1, SaveWorkspaceOne DEF Flush
  <2>2. CASE ~ (dirty \/ UnderWay) BY <1>20, <2>2 DEF Flush
  <2> QED BY <2>1, <2>2
<1>21. ASSUME Flushed PROVE OneOfAKind'
  <2>1. CASE SaveWorkspace /\ UNCHANGED page BY <1>21, <2>1, SaveWorkspaceOne DEF Flushed
  <2>2. CASE UNCHANGED <<save, wire>> /\ page' = "opening" BY <1>21, <2>2 DEF Flushed
  <2> QED BY <1>21, <2>1, <2>2 DEF Flushed
<1>22. ASSUME Settle PROVE OneOfAKind'
  BY <1>22 DEF Settle, Persist, Mine
<1> QED BY <1>1, <1>2, <1>3, <1>4, <1>5, <1>6, <1>7, <1>8, <1>9, <1>10, <1>11, <1>12, <1>13, <1>14, <1>15, <1>16, <1>17, <1>18, <1>19, <1>20, <1>21, <1>22
   DEF Next, Author, Serving, Faults, Opening

LEMMA StepStamped ==
  ASSUME Types, Stamped, [Next]_vars
  PROVE  Stamped'
<1> USE DEF Types, Stamped, Part
<1>1. ASSUME NEW d \in Docs, Edit(d) PROVE Stamped'
  BY <1>1 DEF Edit, Persist, Spend, NewEdit, Mine
<1>2. ASSUME SendCheckpoint PROVE Stamped'
  BY <1>2 DEF SendCheckpoint, Current, Request, Life
<1>3. ASSUME ScheduleSave PROVE Stamped'
  BY <1>3 DEF ScheduleSave
<1>4. ASSUME SaveWhenDue PROVE Stamped'
  BY <1>4 DEF SaveWhenDue, SaveWorkspace, UnderWay, Request, NoSave, Life
<1>5. ASSUME Retry PROVE Stamped'
  BY <1>5 DEF Retry, SaveWorkspace, UnderWay, Request, NoSave, Life
<1>6. ASSUME StartReload PROVE Stamped'
  BY <1>6 DEF StartReload, Spend
<1>7. ASSUME FinishReload PROVE Stamped'
  BY <1>7 DEF FinishReload, NoReload, Committed, NoCheckpoint
<1>8. ASSUME NEW r \in wire, Land(r) PROVE Stamped'
  BY <1>8 DEF Land, pageVars
<1>9. ASSUME NEW r \in wire, EndSave(r) PROVE Stamped'
  BY <1>9 DEF EndSave, SaveDone, Committed, NoCheckpoint, Moved, Harmed, Wiped, Spend, pageVars, NoSave
<1>10. ASSUME NEW r \in wire, Refused(r) PROVE Stamped'
  BY <1>10 DEF Refused, Request, NoSave
<1>11. ASSUME NEW r \in wire, SaveFails(r) PROVE Stamped'
  BY <1>11 DEF SaveFails, Mine, Spend, NoSave
<1>12. ASSUME NEW r \in wire, LandCheckpoint(r) PROVE Stamped'
  BY <1>12 DEF LandCheckpoint, Harmed
<1>13. ASSUME NEW r \in wire, CheckpointFails(r) PROVE Stamped'
  BY <1>13 DEF CheckpointFails, Mine, Spend
<1>14. ASSUME NEW d \in Docs, Foreign(d) PROVE Stamped'
  BY <1>14 DEF Foreign, Spend, NewEdit, pageVars
<1>15. ASSUME Close PROVE Stamped'
  BY <1>15 DEF Close, Spend, NoSave, NoReload
<1>16. ASSUME Load PROVE Stamped'
  BY <1>16 DEF Load
<1>17. ASSUME Hydrate PROVE Stamped'
  BY <1>17 DEF Hydrate, Restorable, Spend
<1>18. ASSUME Startup PROVE Stamped'
  BY <1>18 DEF Startup, Persist, Mine
<1>19. ASSUME UNCHANGED vars PROVE Stamped'
  BY <1>19 DEF vars, pageVars
<1>20. ASSUME Flush PROVE Stamped'
  BY <1>20 DEF Flush, SaveWorkspace, UnderWay, Request, NoSave, Life
<1>21. ASSUME Flushed PROVE Stamped'
  BY <1>21 DEF Flushed, SaveWorkspace, UnderWay, Request, NoSave, Life
<1>22. ASSUME Settle PROVE Stamped'
  BY <1>22 DEF Settle, Persist, Mine
<1> QED BY <1>1, <1>2, <1>3, <1>4, <1>5, <1>6, <1>7, <1>8, <1>9, <1>10, <1>11, <1>12, <1>13, <1>14, <1>15, <1>16, <1>17, <1>18, <1>19, <1>20, <1>21, <1>22
   DEF Next, Author, Serving, Faults, Opening

(* A call of saveWorkspace waits, or sends the documents that are listed   *)
(* and differ.                                                             *)
LEMMA SaveSent ==
  ASSUME SaveWorkspace
  PROVE  \/ wire' = wire /\ save.on /\ save' = [save EXCEPT !.waiting = TRUE]
         \/ /\ ~ save.on /\ save'.on /\ save'.tries = 0 /\ save'.known = known /\ save'.rev = rev /\ save'.life = Life
            /\ \E new \in wire' :
                 /\ wire' = wire \cup {new}
                 /\ new.kind = "save" /\ new.mine /\ new.at = "sent" /\ new.rev = rev /\ new.base = base /\ new.life = Life
                 /\ new.docs = ids \cap Differing(mem, known) /\ new.text = Part(mem, new.docs)
<1>1. CASE UnderWay BY <1>1 DEF SaveWorkspace, UnderWay
<1>2. CASE ~ UnderWay
  <2> DEFINE new == Request("save", rev, Life, base, ids \cap Differing(mem, known), mem)
  <2>1. /\ new.kind = "save" /\ new.mine /\ new.at = "sent" /\ new.rev = rev /\ new.base = base /\ new.life = Life
        /\ new.docs = ids \cap Differing(mem, known) /\ new.text = Part(mem, new.docs)
    BY DEF Request
  <2>2. wire' = wire \cup {new} BY <1>2 DEF SaveWorkspace
  <2>3. ~ save.on /\ save'.on /\ save'.tries = 0 /\ save'.known = known /\ save'.rev = rev /\ save'.life = Life
    BY <1>2 DEF SaveWorkspace, UnderWay, NoSave
  <2> HIDE DEF new
  <2> QED BY <2>1, <2>2, <2>3
<1> QED BY <1>1, <1>2

LEMMA SaveWorkspaceFresh ==
  ASSUME GrowthInv, SaveWorkspace, UNCHANGED <<canon, checkpoint, mem, base, known, reload, givenUp>>,
         page' # "loading"
  PROVE  NothingStale' /\ OwnSave'
<1> USE DEF GrowthInv, Types, OneOfAKind, Stamped, NothingStale, OwnSave, Held, Saves, Fits, Part
<1>1. CASE wire' = wire /\ save' = [save EXCEPT !.waiting = TRUE] BY <1>1
<1>2. ASSUME NEW new \in wire', wire' = wire \cup {new}, new.kind = "save", new.mine, new.at = "sent", new.base = base,
             new.text = Part(mem, new.docs), save'.tries = 0, save'.known = known, ~ save.on
      PROVE  NothingStale' /\ OwnSave'
  <2>1. NothingStale' BY <1>2
  <2>2. OwnSave' BY <1>2
  <2> QED BY <2>1, <2>2
<1> QED BY <1>1, <1>2, SaveSent

LEMMA StepFresh ==
  ASSUME GrowthInv, [Next]_vars
  PROVE  NothingStale'
<1> USE DEF GrowthInv, Types, OneOfAKind, Stamped, NothingStale, OwnSave, Held, Saves, Checkpoints, Fits, Part, Overlay, Shown
<1>1. ASSUME NEW d \in Docs, Edit(d) PROVE NothingStale'
  BY <1>1 DEF Edit, Persist, Spend, NewEdit, Mine
<1>2. ASSUME SendCheckpoint PROVE NothingStale'
  BY <1>2 DEF SendCheckpoint, Current, Request, Life
<1>3. ASSUME ScheduleSave PROVE NothingStale'
  BY <1>3 DEF ScheduleSave
<1>4. ASSUME SaveWhenDue PROVE NothingStale'
  <2>1. CASE dirty BY <1>4, <2>1, SaveWorkspaceFresh DEF SaveWhenDue
  <2>2. CASE ~ dirty BY <1>4, <2>2 DEF SaveWhenDue
  <2> QED BY <2>1, <2>2
<1>5. ASSUME Retry PROVE NothingStale'
  BY <1>5, SaveWorkspaceFresh DEF Retry
<1>6. ASSUME StartReload PROVE NothingStale'
  BY <1>6 DEF StartReload, Spend
<1>7. ASSUME FinishReload PROVE NothingStale'
  BY <1>7 DEF FinishReload, NoReload, Committed, NoCheckpoint
<1>8. ASSUME NEW r \in wire, Land(r) PROVE NothingStale'
  BY <1>8 DEF Land, pageVars
<1>9. ASSUME NEW r \in wire, EndSave(r) PROVE NothingStale'
  BY <1>9 DEF EndSave, SaveDone, Committed, NoCheckpoint, Moved, Harmed, Wiped, Spend, pageVars, NoSave
<1>10. ASSUME NEW r \in wire, Refused(r) PROVE NothingStale'
  <2> DEFINE local == Differing(mem, save.known)
             again == Request("save", save.rev, save.life, canon.at, Docs, Overlay(canon.text, local, mem))
  <2>1. /\ UNCHANGED <<canon, checkpoint, page, mem, base, known, reload, givenUp>>
        /\ \/ wire' = wire \ {r}
           \/ /\ r.mine /\ wire' = (wire \ {r}) \cup {again}
              /\ local \cap Differing(canon.text, save.known) \cap Differing(mem, canon.text) = {}
        /\ save'.on => save.on /\ save'.known = save.known
    BY <1>10 DEF Refused, NoSave
  <2>2. again.kind = "save" /\ again.docs = Docs /\ again.text = Part(Overlay(canon.text, local, mem), Docs)
    BY DEF Request
  <2>3. ASSUME save.on, local \cap Differing(canon.text, save.known) \cap Differing(mem, canon.text) = {}, NEW e \in canon.text
        PROVE  e \in again.text \cup givenUp
    <3>1. e[1] \in Docs BY DEF Edits
    <3>2. CASE e[1] \notin local BY <2>2, <3>1, <3>2
    <3>3. CASE e[1] \in local /\ e[1] \notin Differing(mem, canon.text)
      <4>1. Part(mem, {e[1]}) = Part(canon.text, {e[1]}) BY <3>1, <3>3 DEF Differing
      <4>2. e \in mem BY <4>1
      <4> QED BY <2>2, <3>1, <3>3, <4>2
    <3>4. CASE e[1] \in local /\ e[1] \notin Differing(canon.text, save.known)
      <4>1. Part(save.known, {e[1]}) = Part(canon.text, {e[1]}) BY <3>1, <3>4 DEF Differing
      <4>2. e \in save.known BY <4>1
      <4>3. e \in mem \cup givenUp BY <2>3, <4>2
      <4> QED BY <2>2, <3>1, <3>4, <4>3
    <3> QED BY <2>3, <3>1, <3>2, <3>3, <3>4
  <2>4. r.kind = "save" BY <1>10 DEF Refused
  <2> HIDE DEF again, local
  <2>5. CASE wire' = wire \ {r} BY <2>1, <2>5
  <2>6. CASE wire' # wire \ {r}
    <3>1. save.on /\ canon.text \subseteq again.text \cup givenUp BY <2>1, <2>3, <2>4, <2>6
    <3>2. \A q \in wire' : q \in wire \/ q = again BY <2>1, <2>6
    <3>3. Fits(again, canon.at, canon.text) BY <3>1
    <3>4. \A q \in wire' : Fits(q, canon.at, canon.text) BY <3>2, <3>3
    <3>5. page # "loading" BY <3>1
    <3> QED BY <2>1, <3>4, <3>5
  <2> QED BY <2>5, <2>6
<1>11. ASSUME NEW r \in wire, SaveFails(r) PROVE NothingStale'
  BY <1>11 DEF SaveFails, Mine, Spend, NoSave
<1>12. ASSUME NEW r \in wire, LandCheckpoint(r) PROVE NothingStale'
  BY <1>12 DEF LandCheckpoint, Harmed
<1>13. ASSUME NEW r \in wire, CheckpointFails(r) PROVE NothingStale'
  BY <1>13 DEF CheckpointFails, Mine, Spend
<1>14. ASSUME NEW d \in Docs, Foreign(d) PROVE NothingStale'
  BY <1>14 DEF Foreign, Spend, NewEdit, pageVars
<1>15. ASSUME Close PROVE NothingStale'
  BY <1>15 DEF Close, Spend, NoSave, NoReload
<1>16. ASSUME Load PROVE NothingStale'
  BY <1>16 DEF Load
<1>17. ASSUME Hydrate PROVE NothingStale'
  <2>1. /\ page = "loading" /\ page' # "loading" /\ UNCHANGED <<canon, checkpoint, base, known, save, reload, wire>>
        /\ ~ save.on
    BY <1>17 DEF Hydrate
  <2>2. CASE Restorable /\ givenUp' = givenUp /\ mem' = Overlay(mem, checkpoint.docs, checkpoint.text)
    <3>1. Part(mem, checkpoint.docs) \subseteq checkpoint.text \cup givenUp BY <2>1, <2>2 DEF Restorable
    <3>2. \A e \in mem : e[1] \in Docs BY DEF Edits
    <3>3. mem \subseteq mem' \cup givenUp' BY <2>2, <3>1, <3>2
    <3> QED BY <2>1, <2>2, <3>3
  <2>3. CASE mem' = mem /\ givenUp \subseteq givenUp' BY <2>1, <2>3
  <2> QED BY <1>17, <2>2, <2>3 DEF Hydrate
<1>18. ASSUME Startup PROVE NothingStale'
  BY <1>18 DEF Startup, Persist, Mine
<1>19. ASSUME UNCHANGED vars PROVE NothingStale'
  BY <1>19 DEF vars, pageVars
<1>20. ASSUME Flush PROVE NothingStale'
  <2>1. CASE dirty \/ UnderWay BY <1>20, <2>1, SaveWorkspaceFresh DEF Flush
  <2>2. CASE ~ (dirty \/ UnderWay) BY <1>20, <2>2 DEF Flush
  <2> QED BY <2>1, <2>2
<1>21. ASSUME Flushed PROVE NothingStale'
  <2>1. CASE SaveWorkspace /\ UNCHANGED page BY <1>21, <2>1, SaveWorkspaceFresh DEF Flushed
  <2>2. CASE UNCHANGED <<save, wire>> /\ page' = "opening" BY <1>21, <2>2 DEF Flushed
  <2> QED BY <1>21, <2>1, <2>2 DEF Flushed
<1>22. ASSUME Settle PROVE NothingStale'
  BY <1>22 DEF Settle, Persist, Mine
<1> QED BY <1>1, <1>2, <1>3, <1>4, <1>5, <1>6, <1>7, <1>8, <1>9, <1>10, <1>11, <1>12, <1>13, <1>14, <1>15, <1>16, <1>17, <1>18, <1>19, <1>20, <1>21, <1>22
   DEF Next, Author, Serving, Faults, Opening

LEMMA StepOwn ==
  ASSUME GrowthInv, [Next]_vars
  PROVE  OwnSave'
<1> USE DEF GrowthInv, Types, OneOfAKind, Stamped, NothingStale, OwnSave, Held, Saves, Checkpoints, Fits, Part, Overlay, Shown
<1>1. ASSUME NEW d \in Docs, Edit(d) PROVE OwnSave'
  BY <1>1 DEF Edit, Persist, Spend, NewEdit, Mine
<1>2. ASSUME SendCheckpoint PROVE OwnSave'
  BY <1>2 DEF SendCheckpoint, Current, Request, Life
<1>3. ASSUME ScheduleSave PROVE OwnSave'
  BY <1>3 DEF ScheduleSave
<1>4. ASSUME SaveWhenDue PROVE OwnSave'
  <2>1. CASE dirty BY <1>4, <2>1, SaveWorkspaceFresh DEF SaveWhenDue
  <2>2. CASE ~ dirty BY <1>4, <2>2 DEF SaveWhenDue
  <2> QED BY <2>1, <2>2
<1>5. ASSUME Retry PROVE OwnSave'
  BY <1>5, SaveWorkspaceFresh DEF Retry
<1>6. ASSUME StartReload PROVE OwnSave'
  BY <1>6 DEF StartReload, Spend
<1>7. ASSUME FinishReload PROVE OwnSave'
  BY <1>7 DEF FinishReload, NoReload, Committed, NoCheckpoint
<1>8. ASSUME NEW r \in wire, Land(r) PROVE OwnSave'
  BY <1>8 DEF Land, pageVars
<1>9. ASSUME NEW r \in wire, EndSave(r) PROVE OwnSave'
  BY <1>9 DEF EndSave, SaveDone, Committed, NoCheckpoint, Moved, Harmed, Wiped, Spend, pageVars, NoSave
<1>10. ASSUME NEW r \in wire, Refused(r) PROVE OwnSave'
  BY <1>10 DEF Refused, Request, NoSave
<1>11. ASSUME NEW r \in wire, SaveFails(r) PROVE OwnSave'
  BY <1>11 DEF SaveFails, Mine, Spend, NoSave
<1>12. ASSUME NEW r \in wire, LandCheckpoint(r) PROVE OwnSave'
  BY <1>12 DEF LandCheckpoint, Harmed
<1>13. ASSUME NEW r \in wire, CheckpointFails(r) PROVE OwnSave'
  BY <1>13 DEF CheckpointFails, Mine, Spend
<1>14. ASSUME NEW d \in Docs, Foreign(d) PROVE OwnSave'
  BY <1>14 DEF Foreign, Spend, NewEdit, pageVars
<1>15. ASSUME Close PROVE OwnSave'
  BY <1>15 DEF Close, Spend, NoSave, NoReload
<1>16. ASSUME Load PROVE OwnSave'
  BY <1>16 DEF Load
<1>17. ASSUME Hydrate PROVE OwnSave'
  BY <1>17 DEF Hydrate, Restorable, Spend
<1>18. ASSUME Startup PROVE OwnSave'
  BY <1>18 DEF Startup, Persist, Mine
<1>19. ASSUME UNCHANGED vars PROVE OwnSave'
  BY <1>19 DEF vars, pageVars
<1>20. ASSUME Flush PROVE OwnSave'
  <2>1. CASE dirty \/ UnderWay BY <1>20, <2>1, SaveWorkspaceFresh DEF Flush
  <2>2. CASE ~ (dirty \/ UnderWay) BY <1>20, <2>2 DEF Flush
  <2> QED BY <2>1, <2>2
<1>21. ASSUME Flushed PROVE OwnSave'
  <2>1. CASE SaveWorkspace /\ UNCHANGED page BY <1>21, <2>1, SaveWorkspaceFresh DEF Flushed
  <2>2. CASE UNCHANGED <<save, wire>> /\ page' = "opening" BY <1>21, <2>2 DEF Flushed
  <2> QED BY <1>21, <2>1, <2>2 DEF Flushed
<1>22. ASSUME Settle PROVE OwnSave'
  BY <1>22 DEF Settle, Persist, Mine
<1> QED BY <1>1, <1>2, <1>3, <1>4, <1>5, <1>6, <1>7, <1>8, <1>9, <1>10, <1>11, <1>12, <1>13, <1>14, <1>15, <1>16, <1>17, <1>18, <1>19, <1>20, <1>21, <1>22
   DEF Next, Author, Serving, Faults, Opening

LEMMA InitGrowth == Init => GrowthInv
<1> SUFFICES ASSUME Init PROVE GrowthInv OBVIOUS
<1>1. Types
  <2>1. save \in SaveLocals BY NoSaveType DEF Init
  <2>2. used \in [Counters -> Nat] /\ used.edits = 0 /\ used.foreign = 0 BY DEF Init, Counters
  <2>3. reload \in [on : BOOLEAN, at : Nat, text : SUBSET Edits, rev : Nat] /\ ~ reload.on BY DEF Init, NoReload
  <2>4. checkpoint \in [rev : Nat, base : Nat, docs : SUBSET Docs, text : SUBSET Edits] BY DEF Init, NoCheckpoint
  <2>5. canon \in [at : Nat, text : SUBSET Edits] BY DEF Init
  <2>6. 0 <= MaxEdits /\ 0 <= MaxForeign OBVIOUS
  <2> QED BY <2>1, <2>2, <2>3, <2>4, <2>5, <2>6 DEF Init, Types, SaveLocals, Shown
<1>2. OneOfAKind BY DEF Init, OneOfAKind, NoSave, NoReload, Shown, Checkpoints
<1>3. Stamped BY DEF Init, Stamped, NoReload, NoCheckpoint, Part
<1>4. NothingStale BY DEF Init, NothingStale, NoSave, NoReload, NoCheckpoint, Held, Fits, Part
<1>5. OwnSave BY DEF Init, OwnSave, Saves
<1> QED BY <1>1, <1>2, <1>3, <1>4, <1>5 DEF GrowthInv

LEMMA NextGrowth == GrowthInv /\ [Next]_vars => GrowthInv'
<1> SUFFICES ASSUME GrowthInv, [Next]_vars PROVE GrowthInv' OBVIOUS
<1>1. Types' BY StepTypes DEF GrowthInv
<1>2. OneOfAKind' BY StepOne DEF GrowthInv
<1>3. Stamped' BY StepStamped DEF GrowthInv
<1>4. NothingStale' BY StepFresh
<1>5. OwnSave' BY StepOwn
<1> QED BY <1>1, <1>2, <1>3, <1>4, <1>5 DEF GrowthInv

LEMMA AtMostOne ==
  ASSUME NEW S, \A x, y \in S : x = y
  PROVE  Cardinality(S) <= 1
<1>1. CASE S = {} BY <1>1, FS_EmptySet
<1>2. ASSUME NEW x \in S PROVE Cardinality(S) <= 1
  <2>1. S = {x} BY <1>2
  <2>2. Cardinality({x}) = 1 BY FS_Singleton
  <2> QED BY <2>1, <2>2
<1> QED BY <1>1, <1>2

(* The state of the page, the disk and the requests keeps its type, and a  *)
(* page waits for at most one save and at most one checkpoint.             *)
THEOREM TypeCorrect == Spec => []TypeOK
<1>1. GrowthInv => TypeOK
  <2> SUFFICES ASSUME GrowthInv PROVE TypeOK OBVIOUS
  <2>1. ASSUME NEW kind PROVE Cardinality({r \in wire : r.kind = kind /\ r.mine}) <= 1
    BY AtMostOne DEF GrowthInv, OneOfAKind
  <2> QED BY <2>1 DEF GrowthInv, Types, OneOfAKind, TypeOK
<1> QED BY <1>1, InitGrowth, NextGrowth, PTL DEF Spec

LEMMA GivenUpGrows == [Next]_vars => givenUp \subseteq givenUp'
<1> SUFFICES ASSUME [Next]_vars PROVE givenUp \subseteq givenUp' OBVIOUS
<1>1. ASSUME NEW r \in wire, EndSave(r) PROVE givenUp \subseteq givenUp'
  BY <1>1 DEF EndSave, SaveDone, Harmed, Wiped, pageVars
<1>2. ASSUME NEW r \in wire, LandCheckpoint(r) PROVE givenUp \subseteq givenUp'
  BY <1>2 DEF LandCheckpoint, Harmed
<1> QED BY <1>1, <1>2 DEF Next, Author, Serving, Faults, Opening, Edit, Retry, StartReload, SendCheckpoint, ScheduleSave,
           SaveWhenDue, FinishReload, Land, Refused, SaveFails, CheckpointFails, Load, Hydrate, Startup,
           Flush, Flushed, Settle, Close, Foreign, vars

(* A save overlays the work it was made for, with texts that have all of   *)
(* it in their documents: the work on disk only grows.                     *)
LEMMA DiskGrows == GrowthInv /\ [Next]_vars => canon.text \ givenUp \subseteq canon'.text
<1> SUFFICES ASSUME GrowthInv, [Next]_vars PROVE canon.text \ givenUp \subseteq canon'.text OBVIOUS
<1>1. ASSUME NEW d \in Docs, Foreign(d) PROVE canon.text \subseteq canon'.text BY <1>1 DEF Foreign, GrowthInv, Types
<1>2. ASSUME NEW r \in wire, Land(r) PROVE canon.text \ givenUp \subseteq canon'.text
  BY <1>2 DEF Land, GrowthInv, Types, NothingStale, Fits, Part, Overlay, Edits
<1>3. CASE canon' = canon BY <1>3
<1> QED BY <1>1, <1>2, <1>3 DEF Next, Author, Serving, Faults, Opening, Edit, Retry, StartReload, SendCheckpoint,
           ScheduleSave, SaveWhenDue, FinishReload, EndSave, Refused, LandCheckpoint, SaveFails, CheckpointFails, Load,
           Hydrate, Startup, Flush, Flushed, Settle, Close, vars

LEMMA OnDiskGrows == GrowthInv /\ [Next]_vars => OnDisk \subseteq OnDisk'
  BY DiskGrows, GivenUpGrows DEF OnDisk

(* No save takes an edit out of the work on disk, whoever made it, stale   *)
(* as what the page or a checkpoint holds may be.                          *)
THEOREM WorkKept == Spec => WorkOnlyGrows
  BY InitGrowth, NextGrowth, DiskGrows, PTL DEF Spec, WorkOnlyGrows

(* A checkpoint that is sent has what is listed as changed.                *)
LEMMA CheckpointSent ==
  ASSUME SendCheckpoint
  PROVE  /\ checkpointTimer /\ ~ checkpointTimer' /\ Shown
         /\ UNCHANGED <<canon, checkpoint, page, mem, base, known, rev, dirty, ids, protected, editTimer, saveTimer, save, error,
                        reload, promised, givenUp, used>>
         /\ \/ wire' = wire
            \/ \E new \in wire' :
                 /\ wire' = wire \cup {new}
                 /\ new.kind = "checkpoint" /\ new.mine /\ new.at = "sent" /\ new.rev = rev /\ new.base = base /\ new.life = Life
                 /\ new.docs = ids /\ new.text = Part(mem, ids)
<1> USE DEF SendCheckpoint
<1> DEFINE new == Request("checkpoint", rev, Life, base, ids, mem)
<1>1. CASE Current BY <1>1
<1>2. CASE ~ Current
  <2>1. wire' = wire \cup {new} BY <1>2
  <2>2. /\ new.kind = "checkpoint" /\ new.mine /\ new.at = "sent" /\ new.rev = rev /\ new.base = base /\ new.life = Life
        /\ new.docs = ids /\ new.text = Part(mem, ids)
    BY DEF Request
  <2> HIDE DEF new
  <2> QED BY <2>1, <2>2
<1> QED BY <1>1, <1>2

(* A save that is refused is gone, or sent again as a save of everything,  *)
(* made of the work as it is and the page's own changes.                   *)
LEMMA SaveSentAgain ==
  ASSUME Types, NEW r \in wire, Refused(r)
  PROVE  /\ r.kind = "save"
         /\ UNCHANGED <<canon, checkpoint, page, mem, base, known, rev, dirty, ids, protected, editTimer, checkpointTimer, reload,
                        promised, givenUp, used>>
         /\ \/ /\ wire' = wire \ {r}
               /\ r.mine \/ UNCHANGED <<save, error, saveTimer>>
               /\ r.mine => ~ save'.on
            \/ /\ r.mine /\ save'.tries = save.tries + 1 /\ save'.on = save.on /\ save'.rev = save.rev
               /\ save'.known = save.known /\ save'.life = save.life /\ UNCHANGED <<error, saveTimer>>
               /\ \E again \in wire' :
                    /\ wire' = (wire \ {r}) \cup {again}
                    /\ again.kind = "save" /\ again.mine /\ again.at = "sent" /\ again.rev = save.rev /\ again.life = save.life
                    /\ again.text = Part(Overlay(canon.text, Differing(mem, save.known), mem), Docs)
<1> DEFINE again == Request("save", save.rev, save.life, canon.at, Docs, Overlay(canon.text, Differing(mem, save.known), mem))
<1>1. /\ again.kind = "save" /\ again.mine /\ again.at = "sent" /\ again.rev = save.rev /\ again.life = save.life
      /\ again.text = Part(Overlay(canon.text, Differing(mem, save.known), mem), Docs)
  BY DEF Request
<1>2. /\ r.kind = "save"
      /\ UNCHANGED <<canon, checkpoint, page, mem, base, known, rev, dirty, ids, protected, editTimer, checkpointTimer, reload,
                     promised, givenUp, used>>
  BY DEF Refused
<1>3. \/ wire' = wire \ {r} /\ (r.mine \/ UNCHANGED <<save, error, saveTimer>>) /\ (r.mine => ~ save'.on)
      \/ wire' = (wire \ {r}) \cup {again} /\ r.mine /\ save' = [save EXCEPT !.tries = @ + 1] /\ UNCHANGED <<error, saveTimer>>
  BY DEF Refused, NoSave
<1> HIDE DEF again
<1>4. CASE wire' = wire \ {r} /\ (r.mine \/ UNCHANGED <<save, error, saveTimer>>) /\ (r.mine => ~ save'.on)
  BY <1>2, <1>4
<1>5. CASE /\ wire' = (wire \ {r}) \cup {again} /\ r.mine /\ save' = [save EXCEPT !.tries = @ + 1]
           /\ UNCHANGED <<error, saveTimer>>
  <2>1. /\ save'.tries = save.tries + 1 /\ save'.on = save.on /\ save'.rev = save.rev
        /\ save'.known = save.known /\ save'.life = save.life
    BY <1>5 DEF Types
  <2> QED BY <1>1, <1>2, <1>5, <2>1
<1> QED BY <1>3, <1>4, <1>5

LEMMA StepLives ==
  ASSUME GrowthInv, Lives, [Next]_vars
  PROVE  Lives'
<1> USE DEF GrowthInv, Types, OneOfAKind, Stamped, Shown, Saves, Checkpoints, Lives, Life, Counters
<1>1. ASSUME NEW d \in Docs, Edit(d) PROVE Lives'
  BY <1>1 DEF Edit, Persist, Spend, NewEdit, Mine
<1>2. ASSUME SendCheckpoint PROVE Lives'
  BY <1>2, CheckpointSent
<1>3. ASSUME ScheduleSave PROVE Lives'
  BY <1>3 DEF ScheduleSave
<1>4. ASSUME SaveWhenDue PROVE Lives'
  BY <1>4, SaveSent DEF SaveWhenDue
<1>5. ASSUME Retry PROVE Lives'
  BY <1>5, SaveSent DEF Retry
<1>6. ASSUME StartReload PROVE Lives'
  BY <1>6 DEF StartReload, Spend
<1>7. ASSUME FinishReload PROVE Lives'
  BY <1>7 DEF FinishReload, NoReload, Committed, NoCheckpoint
<1>8. ASSUME NEW r \in wire, Land(r) PROVE Lives'
  BY <1>8 DEF Land, pageVars
<1>9. ASSUME NEW r \in wire, EndSave(r) PROVE Lives'
  BY <1>9 DEF EndSave, SaveDone, Committed, NoCheckpoint, Moved, Harmed, Wiped, Spend, pageVars, NoSave
<1>10. ASSUME NEW r \in wire, Refused(r) PROVE Lives'
  BY <1>10, SaveSentAgain
<1>11. ASSUME NEW r \in wire, SaveFails(r) PROVE Lives'
  BY <1>11 DEF SaveFails, Mine, Spend, NoSave
<1>12. ASSUME NEW r \in wire, LandCheckpoint(r) PROVE Lives'
  BY <1>12 DEF LandCheckpoint, Harmed
<1>13. ASSUME NEW r \in wire, CheckpointFails(r) PROVE Lives'
  BY <1>13 DEF CheckpointFails, Mine, Spend
<1>14. ASSUME NEW d \in Docs, Foreign(d) PROVE Lives'
  BY <1>14 DEF Foreign, Spend, NewEdit, pageVars
<1>15. ASSUME Close PROVE Lives'
  BY <1>15 DEF Close, Spend, NoSave, NoReload
<1>16. ASSUME Load PROVE Lives'
  BY <1>16 DEF Load
<1>17. ASSUME Hydrate PROVE Lives'
  BY <1>17 DEF Hydrate, Restorable, Spend
<1>18. ASSUME Startup PROVE Lives'
  BY <1>18 DEF Startup, Persist, Mine
<1>19. ASSUME UNCHANGED vars PROVE Lives'
  BY <1>19 DEF vars, pageVars
<1>20. ASSUME Flush PROVE Lives'
  BY <1>20, SaveSent DEF Flush
<1>21. ASSUME Flushed PROVE Lives'
  BY <1>21, SaveSent DEF Flushed
<1>22. ASSUME Settle PROVE Lives'
  BY <1>22 DEF Settle, Persist, Mine
<1> QED BY <1>1, <1>2, <1>3, <1>4, <1>5, <1>6, <1>7, <1>8, <1>9, <1>10, <1>11, <1>12, <1>13, <1>14, <1>15, <1>16, <1>17, <1>18, <1>19, <1>20, <1>21, <1>22
   DEF Next, Author, Serving, Faults, Opening

LEMMA StepNumbered ==
  ASSUME GrowthInv, Numbered, [Next]_vars
  PROVE  Numbered'
<1> USE DEF GrowthInv, Types, OneOfAKind, Stamped, Shown, Saves, Checkpoints, Counters, Numbered, Made, Part, Overlay
<1>1. ASSUME NEW d \in Docs, Edit(d) PROVE Numbered'
  <2>1. /\ mem' = mem \cup {NewEdit(d)} /\ NewEdit(d)[2] = used.edits + used.foreign + 1
        /\ UNCHANGED <<canon, checkpoint, reload, wire, promised>>
    BY <1>1 DEF Edit, NewEdit
  <2>2. used'.edits = used.edits + 1 /\ used'.foreign = used.foreign BY <1>1 DEF Edit, Spend
  <2>3. used.edits \in Nat /\ used.foreign \in Nat OBVIOUS
  <2>4. ASSUME NEW text \in SUBSET Edits, Made(text) PROVE Made(text)'
    BY <2>2, <2>3, <2>4 DEF Edits
  <2> QED BY <2>1, <2>2, <2>3, <2>4
<1>2. ASSUME SendCheckpoint PROVE Numbered'
  BY <1>2, CheckpointSent
<1>3. ASSUME ScheduleSave PROVE Numbered'
  BY <1>3 DEF ScheduleSave
<1>4. ASSUME SaveWhenDue PROVE Numbered'
  BY <1>4, SaveSent DEF SaveWhenDue
<1>5. ASSUME Retry PROVE Numbered'
  BY <1>5, SaveSent DEF Retry
<1>6. ASSUME StartReload PROVE Numbered'
  BY <1>6 DEF StartReload, Spend
<1>7. ASSUME FinishReload PROVE Numbered'
  BY <1>7 DEF FinishReload, NoReload, Committed, NoCheckpoint
<1>8. ASSUME NEW r \in wire, Land(r) PROVE Numbered'
  BY <1>8 DEF Land, pageVars
<1>9. ASSUME NEW r \in wire, EndSave(r) PROVE Numbered'
  BY <1>9 DEF EndSave, SaveDone, Committed, NoCheckpoint, Moved, Harmed, Wiped, Spend, pageVars, NoSave
<1>10. ASSUME NEW r \in wire, Refused(r) PROVE Numbered'
  BY <1>10, SaveSentAgain
<1>11. ASSUME NEW r \in wire, SaveFails(r) PROVE Numbered'
  BY <1>11 DEF SaveFails, Mine, Spend, NoSave
<1>12. ASSUME NEW r \in wire, LandCheckpoint(r) PROVE Numbered'
  <2>1. /\ checkpoint'.text \subseteq checkpoint.text \cup r.text /\ promised' \subseteq promised \cup r.text
        /\ wire' \subseteq wire /\ UNCHANGED <<canon, mem, reload, used>>
    BY <1>12 DEF LandCheckpoint
  <2> QED BY <2>1
<1>13. ASSUME NEW r \in wire, CheckpointFails(r) PROVE Numbered'
  BY <1>13 DEF CheckpointFails, Mine, Spend
<1>14. ASSUME NEW d \in Docs, Foreign(d) PROVE Numbered'
  <2>1. /\ canon'.text = canon.text \cup {NewEdit(d)} /\ NewEdit(d)[2] = used.edits + used.foreign + 1
        /\ UNCHANGED <<checkpoint, mem, reload, wire, promised>>
    BY <1>14 DEF Foreign, NewEdit, pageVars
  <2>2. used'.foreign = used.foreign + 1 /\ used'.edits = used.edits BY <1>14 DEF Foreign, Spend
  <2>3. used.edits \in Nat /\ used.foreign \in Nat OBVIOUS
  <2>4. ASSUME NEW text \in SUBSET Edits, Made(text) PROVE Made(text)'
    BY <2>2, <2>3, <2>4 DEF Edits
  <2> QED BY <2>1, <2>2, <2>3, <2>4
<1>15. ASSUME Close PROVE Numbered'
  BY <1>15 DEF Close, Spend, NoSave, NoReload
<1>16. ASSUME Load PROVE Numbered'
  BY <1>16 DEF Load
<1>17. ASSUME Hydrate PROVE Numbered'
  BY <1>17 DEF Hydrate, Restorable, Spend
<1>18. ASSUME Startup PROVE Numbered'
  BY <1>18 DEF Startup, Persist, Mine
<1>19. ASSUME UNCHANGED vars PROVE Numbered'
  BY <1>19 DEF vars, pageVars
<1>20. ASSUME Flush PROVE Numbered'
  BY <1>20, SaveSent DEF Flush
<1>21. ASSUME Flushed PROVE Numbered'
  BY <1>21, SaveSent DEF Flushed
<1>22. ASSUME Settle PROVE Numbered'
  BY <1>22 DEF Settle, Persist, Mine
<1> QED BY <1>1, <1>2, <1>3, <1>4, <1>5, <1>6, <1>7, <1>8, <1>9, <1>10, <1>11, <1>12, <1>13, <1>14, <1>15, <1>16, <1>17, <1>18, <1>19, <1>20, <1>21, <1>22
   DEF Next, Author, Serving, Faults, Opening

LEMMA StepKnown ==
  ASSUME GrowthInv, KnownIsOnDisk, OnDisk \subseteq OnDisk', [Next]_vars
  PROVE  KnownIsOnDisk'
<1> USE DEF GrowthInv, Types, OneOfAKind, Stamped, Shown, Saves, Checkpoints, KnownIsOnDisk, OnDisk, Part, Overlay
<1>1. ASSUME NEW d \in Docs, Edit(d) PROVE KnownIsOnDisk'
  BY <1>1 DEF Edit, Persist, Spend, NewEdit, Mine
<1>2. ASSUME SendCheckpoint PROVE KnownIsOnDisk'
  BY <1>2, CheckpointSent
<1>3. ASSUME ScheduleSave PROVE KnownIsOnDisk'
  BY <1>3 DEF ScheduleSave
<1>4. ASSUME SaveWhenDue PROVE KnownIsOnDisk'
  BY <1>4, SaveSent DEF SaveWhenDue
<1>5. ASSUME Retry PROVE KnownIsOnDisk'
  BY <1>5, SaveSent DEF Retry
<1>6. ASSUME StartReload PROVE KnownIsOnDisk'
  BY <1>6 DEF StartReload, Spend
<1>7. ASSUME FinishReload PROVE KnownIsOnDisk'
  BY <1>7 DEF FinishReload, NoReload, Committed, NoCheckpoint
<1>8. ASSUME NEW r \in wire, Land(r) PROVE KnownIsOnDisk'
  BY <1>8 DEF Land, pageVars
<1>9. ASSUME NEW r \in wire, EndSave(r) PROVE KnownIsOnDisk'
  BY <1>9 DEF EndSave, SaveDone, Committed, NoCheckpoint, Moved, Harmed, Wiped, Spend, pageVars, NoSave
<1>10. ASSUME NEW r \in wire, Refused(r) PROVE KnownIsOnDisk'
  BY <1>10, SaveSentAgain
<1>11. ASSUME NEW r \in wire, SaveFails(r) PROVE KnownIsOnDisk'
  BY <1>11 DEF SaveFails, Mine, Spend, NoSave
<1>12. ASSUME NEW r \in wire, LandCheckpoint(r) PROVE KnownIsOnDisk'
  BY <1>12 DEF LandCheckpoint, Harmed
<1>13. ASSUME NEW r \in wire, CheckpointFails(r) PROVE KnownIsOnDisk'
  BY <1>13 DEF CheckpointFails, Mine, Spend
<1>14. ASSUME NEW d \in Docs, Foreign(d) PROVE KnownIsOnDisk'
  BY <1>14 DEF Foreign, Spend, NewEdit, pageVars
<1>15. ASSUME Close PROVE KnownIsOnDisk'
  BY <1>15 DEF Close, Spend, NoSave, NoReload
<1>16. ASSUME Load PROVE KnownIsOnDisk'
  BY <1>16 DEF Load
<1>17. ASSUME Hydrate PROVE KnownIsOnDisk'
  BY <1>17 DEF Hydrate, Restorable, Spend
<1>18. ASSUME Startup PROVE KnownIsOnDisk'
  BY <1>18 DEF Startup, Persist, Mine
<1>19. ASSUME UNCHANGED vars PROVE KnownIsOnDisk'
  BY <1>19 DEF vars, pageVars
<1>20. ASSUME Flush PROVE KnownIsOnDisk'
  BY <1>20, SaveSent DEF Flush
<1>21. ASSUME Flushed PROVE KnownIsOnDisk'
  BY <1>21, SaveSent DEF Flushed
<1>22. ASSUME Settle PROVE KnownIsOnDisk'
  BY <1>22 DEF Settle, Persist, Mine
<1> QED BY <1>1, <1>2, <1>3, <1>4, <1>5, <1>6, <1>7, <1>8, <1>9, <1>10, <1>11, <1>12, <1>13, <1>14, <1>15, <1>16, <1>17, <1>18, <1>19, <1>20, <1>21, <1>22
   DEF Next, Author, Serving, Faults, Opening

LEMMA StepListed ==
  ASSUME PromiseInv, GrowthInv, OnDisk \subseteq OnDisk', [Next]_vars
  PROVE  ChangesListed'
<1> USE DEF GrowthInv, Types, OneOfAKind, Stamped, Shown, Saves, Checkpoints, PromiseInv, Lives, KnownIsOnDisk, ChangesListed, SavesCover, Quiet, OnDisk, Part, Overlay
<1>1. ASSUME NEW d \in Docs, Edit(d) PROVE ChangesListed'
  BY <1>1 DEF Edit, Persist, Spend, NewEdit, Mine
<1>2. ASSUME SendCheckpoint PROVE ChangesListed'
  BY <1>2, CheckpointSent
<1>3. ASSUME ScheduleSave PROVE ChangesListed'
  BY <1>3 DEF ScheduleSave
<1>4. ASSUME SaveWhenDue PROVE ChangesListed'
  BY <1>4, SaveSent DEF SaveWhenDue
<1>5. ASSUME Retry PROVE ChangesListed'
  BY <1>5, SaveSent DEF Retry
<1>6. ASSUME StartReload PROVE ChangesListed'
  BY <1>6 DEF StartReload, Spend
<1>7. ASSUME FinishReload PROVE ChangesListed'
  BY <1>7 DEF FinishReload, NoReload, Committed, NoCheckpoint
<1>8. ASSUME NEW r \in wire, Land(r) PROVE ChangesListed'
  BY <1>8 DEF Land, pageVars
<1>9. ASSUME NEW r \in wire, EndSave(r) PROVE ChangesListed'
  BY <1>9 DEF EndSave, SaveDone, Committed, NoCheckpoint, Moved, Harmed, Wiped, Spend, pageVars, NoSave
<1>10. ASSUME NEW r \in wire, Refused(r) PROVE ChangesListed'
  BY <1>10, SaveSentAgain
<1>11. ASSUME NEW r \in wire, SaveFails(r) PROVE ChangesListed'
  BY <1>11 DEF SaveFails, Mine, Spend, NoSave
<1>12. ASSUME NEW r \in wire, LandCheckpoint(r) PROVE ChangesListed'
  BY <1>12 DEF LandCheckpoint, Harmed
<1>13. ASSUME NEW r \in wire, CheckpointFails(r) PROVE ChangesListed'
  BY <1>13 DEF CheckpointFails, Mine, Spend
<1>14. ASSUME NEW d \in Docs, Foreign(d) PROVE ChangesListed'
  BY <1>14 DEF Foreign, Spend, NewEdit, pageVars
<1>15. ASSUME Close PROVE ChangesListed'
  BY <1>15 DEF Close, Spend, NoSave, NoReload
<1>16. ASSUME Load PROVE ChangesListed'
  BY <1>16 DEF Load
<1>17. ASSUME Hydrate PROVE ChangesListed'
  BY <1>17 DEF Hydrate, Restorable, Spend
<1>18. ASSUME Startup PROVE ChangesListed'
  <2>1. \A e \in mem : e[1] \in Docs BY DEF Edits
  <2> QED BY <1>18, <2>1 DEF Startup, Persist
<1>19. ASSUME UNCHANGED vars PROVE ChangesListed'
  BY <1>19 DEF vars, pageVars
<1>20. ASSUME Flush PROVE ChangesListed'
  BY <1>20, SaveSent DEF Flush
<1>21. ASSUME Flushed PROVE ChangesListed'
  BY <1>21, SaveSent DEF Flushed
<1>22. ASSUME Settle PROVE ChangesListed'
  <2>1. \A e \in mem : e[1] \in Docs BY DEF Edits
  <2> QED BY <1>22, <2>1 DEF Settle, Persist
<1> QED BY <1>1, <1>2, <1>3, <1>4, <1>5, <1>6, <1>7, <1>8, <1>9, <1>10, <1>11, <1>12, <1>13, <1>14, <1>15, <1>16, <1>17, <1>18, <1>19, <1>20, <1>21, <1>22
   DEF Next, Author, Serving, Faults, Opening

(* Where nothing is sent and no checkpoint is written, what covered still  *)
(* covers.                                                                 *)
LEMMA CoverKept ==
  ASSUME SavesCover, OnDisk \subseteq OnDisk',
         \A q \in Saves' : q.life = Life' => \E r \in Saves : r.life = Life /\ r.rev = q.rev /\ r.text = q.text,
         \A c \in Checkpoints' : c.mine => c \in Checkpoints,
         (\A q \in Saves' : q.life = Life' => q.rev # rev') \/ (rev' = rev /\ mem' \subseteq mem \cup OnDisk'),
         checkpoint'.text = {} \/ (checkpoint' = checkpoint /\ promised' \subseteq promised)
  PROVE  SavesCover'
<1> SUFFICES ASSUME NEW q \in Saves', q.life = Life'
             PROVE  /\ q.rev = rev' => mem' \subseteq q.text \cup OnDisk'
                    /\ \A c \in Checkpoints' : c.mine /\ c.rev <= q.rev => c.text \subseteq q.text \cup OnDisk'
                    /\ checkpoint'.rev <= q.rev => promised' \cap checkpoint'.text \subseteq q.text \cup OnDisk'
  BY DEF SavesCover
<1>1. PICK r \in Saves : r.life = Life /\ r.rev = q.rev /\ r.text = q.text OBVIOUS
<1>2. /\ r.rev = rev => mem \subseteq r.text \cup OnDisk
      /\ \A c \in Checkpoints : c.mine /\ c.rev <= r.rev => c.text \subseteq r.text \cup OnDisk
      /\ checkpoint.rev <= r.rev => promised \cap checkpoint.text \subseteq r.text \cup OnDisk
  BY <1>1 DEF SavesCover
<1> QED BY <1>1, <1>2

(* A save with all the page has that is not on disk covers whatever the    *)
(* page has sent or was promised.                                          *)
LEMMA CoverAdded ==
  ASSUME SavesCover, Promises, Shown, NEW new \in wire', NEW others \in SUBSET wire, wire' = others \cup {new},
         new.kind = "save", mem \subseteq new.text \cup OnDisk,
         UNCHANGED <<canon, checkpoint, mem, rev, givenUp, promised, reload, used>>
  PROVE  SavesCover'
<1>1. UNCHANGED <<Life, OnDisk, Held>> BY DEF Life, OnDisk, Held
<1>2. \A c \in Checkpoints' : c \in Checkpoints BY DEF Checkpoints
<1>3. /\ \A c \in Checkpoints : c.mine => c.text \subseteq new.text \cup OnDisk
      /\ promised \subseteq new.text \cup OnDisk
  BY DEF Promises, Held, OnDisk
<1>4. \A q \in Saves' : q \in Saves \/ q = new BY DEF Saves
<1>5. ASSUME NEW q \in Saves', q.life = Life'
      PROVE  /\ q.rev = rev' => mem' \subseteq q.text \cup OnDisk'
             /\ \A c \in Checkpoints' : c.mine /\ c.rev <= q.rev => c.text \subseteq q.text \cup OnDisk'
             /\ checkpoint'.rev <= q.rev => promised' \cap checkpoint'.text \subseteq q.text \cup OnDisk'
  <2>1. CASE q = new BY <1>1, <1>2, <1>3, <2>1
  <2>2. CASE q \in Saves BY <1>1, <1>2, <1>5, <2>2 DEF SavesCover
  <2> QED BY <1>4, <2>1, <2>2
<1> QED BY <1>5 DEF SavesCover

LEMMA SaveWorkspaceCover ==
  ASSUME GrowthInv, PromiseInv, SaveWorkspace, Shown, ~ Quiet,
         UNCHANGED <<canon, checkpoint, mem, rev, givenUp, promised, reload, used>>
  PROVE  SavesCover'
<1> USE DEF PromiseInv
<1>1. CASE wire' = wire BY <1>1 DEF SavesCover, Saves, Checkpoints, OnDisk, Life
<1>2. ASSUME NEW new \in wire', wire' = wire \cup {new}, new.kind = "save",
             new.docs = ids \cap Differing(mem, known), new.text = Part(mem, new.docs)
      PROVE  SavesCover'
  <2>1. ASSUME NEW e \in mem, e \notin OnDisk PROVE e \in new.text
    <3>1. e[1] \in ids BY <2>1 DEF ChangesListed
    <3>2. e \notin known BY <2>1 DEF KnownIsOnDisk
    <3>3. e \in Part(mem, {e[1]}) /\ e \notin Part(known, {e[1]}) BY <3>2 DEF Part
    <3>4. e[1] \in Differing(mem, known) BY <3>1, <3>3 DEF Differing, GrowthInv, Types
    <3> QED BY <1>2, <3>1, <3>4 DEF Part
  <2> QED BY <1>2, <2>1, CoverAdded
<1> QED BY <1>1, <1>2, SaveSent

LEMMA StepCover ==
  ASSUME GrowthInv, PromiseInv, OnDisk \subseteq OnDisk', [Next]_vars
  PROVE  SavesCover'
<1> USE DEF GrowthInv, Types, OneOfAKind, Shown, Saves, Checkpoints, PromiseInv, Lives
<1>1. ASSUME NEW d \in Docs, Edit(d) PROVE SavesCover'
  <2>1. \A q \in Saves' : q.life = Life' => \E r \in Saves : r.life = Life /\ r.rev = q.rev /\ r.text = q.text
    BY <1>1 DEF Edit, Persist, Spend, NewEdit, Mine, Life, Counters
  <2>2. \A c \in Checkpoints' : c.mine => c \in Checkpoints BY <1>1 DEF Edit, Persist, Spend, NewEdit, Mine
  <2>3. (\A q \in Saves' : q.life = Life' => q.rev # rev') \/ (rev' = rev /\ mem' \subseteq mem \cup OnDisk')
    BY <1>1 DEF Edit, Persist, Spend, NewEdit, Mine, Life, Counters
  <2>4. checkpoint'.text = {} \/ (checkpoint' = checkpoint /\ promised' \subseteq promised) BY <1>1 DEF Edit, Persist, Spend, NewEdit, Mine
  <2> QED BY <2>1, <2>2, <2>3, <2>4, CoverKept
<1>2. ASSUME SendCheckpoint PROVE SavesCover'
  <2>1. CASE wire' = wire BY <2>1, CheckpointSent, <1>2 DEF SavesCover, OnDisk, Life
  <2>2. ASSUME NEW new \in wire', wire' = wire \cup {new}, new.kind = "checkpoint", new.rev = rev, new.text = Part(mem, ids),
               UNCHANGED <<canon, checkpoint, mem, rev, reload, promised, givenUp, used>>
        PROVE  SavesCover'
    <3>1. UNCHANGED <<Life, OnDisk, Saves>> BY <2>2 DEF Life, OnDisk
    <3>2. \A c \in Checkpoints' : c \in Checkpoints \/ c = new BY <2>2
    <3>3. ASSUME NEW q \in Saves, q.life = Life, rev <= q.rev PROVE new.text \subseteq q.text \cup OnDisk
      <4>1. q.rev = rev BY <3>3
      <4> QED BY <2>2, <3>3, <4>1 DEF SavesCover, Part
    <3> QED BY <2>2, <3>1, <3>2, <3>3 DEF SavesCover
  <2> QED BY <1>2, <2>1, <2>2, CheckpointSent
<1>3. ASSUME ScheduleSave PROVE SavesCover'
  <2>1. \A q \in Saves' : q.life = Life' => \E r \in Saves : r.life = Life /\ r.rev = q.rev /\ r.text = q.text
    BY <1>3 DEF ScheduleSave, Life, Counters
  <2>2. \A c \in Checkpoints' : c.mine => c \in Checkpoints BY <1>3 DEF ScheduleSave
  <2>3. (\A q \in Saves' : q.life = Life' => q.rev # rev') \/ (rev' = rev /\ mem' \subseteq mem \cup OnDisk')
    BY <1>3 DEF ScheduleSave, Life, Counters
  <2>4. checkpoint'.text = {} \/ (checkpoint' = checkpoint /\ promised' \subseteq promised) BY <1>3 DEF ScheduleSave
  <2> QED BY <2>1, <2>2, <2>3, <2>4, CoverKept
<1>4. ASSUME SaveWhenDue PROVE SavesCover'
  <2>1. CASE dirty BY <1>4, <2>1, SaveWorkspaceCover DEF SaveWhenDue, Quiet
  <2>2. CASE ~ dirty BY <1>4, <2>2 DEF SaveWhenDue, SavesCover, OnDisk, Life
  <2> QED BY <2>1, <2>2
<1>5. ASSUME Retry PROVE SavesCover'
  BY <1>5, SaveWorkspaceCover DEF Retry, Quiet
<1>6. ASSUME StartReload PROVE SavesCover'
  <2>1. \A q \in Saves' : q.life = Life' => \E s \in Saves : s.life = Life /\ s.rev = q.rev /\ s.text = q.text
    BY <1>6 DEF StartReload, Spend, Life, Counters
  <2>2. \A c \in Checkpoints' : c.mine => c \in Checkpoints BY <1>6 DEF StartReload, Spend
  <2>3. (\A q \in Saves' : q.life = Life' => q.rev # rev') \/ (rev' = rev /\ mem' \subseteq mem \cup OnDisk')
    BY <1>6 DEF StartReload, Spend, Life, Counters
  <2>4. checkpoint'.text = {} \/ (checkpoint' = checkpoint /\ promised' \subseteq promised) BY <1>6 DEF StartReload, Spend
  <2> QED BY <2>1, <2>2, <2>3, <2>4, CoverKept
<1>7. ASSUME FinishReload PROVE SavesCover'
  <2>1. \A q \in Saves' : q.life # Life' BY <1>7 DEF FinishReload, NoReload, Committed, NoCheckpoint, Life, Counters
  <2> QED BY <2>1 DEF SavesCover
<1>8. ASSUME NEW r \in wire, Land(r) PROVE SavesCover'
  <2>1. \A q \in Saves' : q.life = Life' => \E s \in Saves : s.life = Life /\ s.rev = q.rev /\ s.text = q.text
    BY <1>8 DEF Land, pageVars, Life, Counters
  <2>2. \A c \in Checkpoints' : c.mine => c \in Checkpoints BY <1>8 DEF Land, pageVars
  <2>3. (\A q \in Saves' : q.life = Life' => q.rev # rev') \/ (rev' = rev /\ mem' \subseteq mem \cup OnDisk')
    BY <1>8 DEF Land, pageVars, Life, Counters
  <2>4. checkpoint'.text = {} \/ (checkpoint' = checkpoint /\ promised' \subseteq promised) BY <1>8 DEF Land, pageVars
  <2> QED BY <2>1, <2>2, <2>3, <2>4, CoverKept
<1>9. ASSUME NEW r \in wire, EndSave(r) PROVE SavesCover'
  <2>1. \A q \in Saves' : q.life = Life' => \E s \in Saves : s.life = Life /\ s.rev = q.rev /\ s.text = q.text
    BY <1>9 DEF EndSave, SaveDone, Committed, NoCheckpoint, Moved, Harmed, Wiped, Spend, pageVars, NoSave, OnDisk, Life, Counters
  <2>2. \A c \in Checkpoints' : c.mine => c \in Checkpoints BY <1>9 DEF EndSave, SaveDone, Committed, NoCheckpoint, Moved, Harmed, Wiped, Spend, pageVars, NoSave, OnDisk
  <2>3. (\A q \in Saves' : q.life = Life' => q.rev # rev') \/ (rev' = rev /\ mem' \subseteq mem \cup OnDisk')
    <3>1. CASE r.mine
      <4>1. rev' = rev /\ (mem' = mem \/ mem' = r.text) BY <1>9, <3>1 DEF EndSave, SaveDone
      <4>2. r.text \subseteq OnDisk BY <1>9 DEF EndSave, KnownIsOnDisk
      <4> QED BY <4>1, <4>2
    <3>2. CASE ~ r.mine BY <1>9, <3>2 DEF EndSave, pageVars
    <3> QED BY <3>1, <3>2
  <2>4. checkpoint'.text = {} \/ (checkpoint' = checkpoint /\ promised' \subseteq promised) BY <1>9 DEF EndSave, SaveDone, Committed, NoCheckpoint, Moved, Harmed, Wiped, Spend, pageVars, NoSave, OnDisk
  <2> QED BY <2>1, <2>2, <2>3, <2>4, CoverKept
<1>10. ASSUME NEW r \in wire, Refused(r) PROVE SavesCover'
  <2>1. /\ UNCHANGED <<canon, checkpoint, mem, rev, givenUp, promised, reload, used, Life, OnDisk>>
        /\ r.kind = "save"
    BY <1>10, SaveSentAgain DEF Life, OnDisk
  <2>2. CASE wire' = wire \ {r} BY <2>1, <2>2 DEF SavesCover
  <2>3. ASSUME NEW again \in wire', wire' = (wire \ {r}) \cup {again}, again.kind = "save", r.mine,
               again.text = Part(Overlay(canon.text, Differing(mem, save.known), mem), Docs)
        PROVE  SavesCover'
    <3>1. ASSUME NEW e \in mem, e \notin OnDisk PROVE e \in again.text
      <4>1. e[1] \in Docs BY DEF Edits
      <4>2. save.on BY <2>1, <2>3
      <4>3. e \notin save.known BY <3>1, <4>2 DEF KnownIsOnDisk
      <4>4. e \in Part(mem, {e[1]}) /\ e \notin Part(save.known, {e[1]}) BY <4>3 DEF Part
      <4>5. e[1] \in Differing(mem, save.known) BY <4>1, <4>4 DEF Differing
      <4> QED BY <2>3, <4>1, <4>5 DEF Part, Overlay
    <3>2. Shown /\ mem \subseteq again.text \cup OnDisk /\ wire \ {r} \in SUBSET wire BY <2>3, <3>1
    <3>3. SavesCover /\ Promises OBVIOUS
    <3> HIDE DEF GrowthInv, Shown, Saves, Checkpoints, PromiseInv, Lives
    <3> QED BY <2>1, <2>3, <3>2, <3>3, CoverAdded
  <2> QED BY <1>10, <2>2, <2>3, SaveSentAgain
<1>11. ASSUME NEW r \in wire, SaveFails(r) PROVE SavesCover'
  <2>1. \A q \in Saves' : q.life = Life' => \E s \in Saves : s.life = Life /\ s.rev = q.rev /\ s.text = q.text
    BY <1>11 DEF SaveFails, Mine, Spend, NoSave, Life, Counters
  <2>2. \A c \in Checkpoints' : c.mine => c \in Checkpoints BY <1>11 DEF SaveFails, Mine, Spend, NoSave
  <2>3. (\A q \in Saves' : q.life = Life' => q.rev # rev') \/ (rev' = rev /\ mem' \subseteq mem \cup OnDisk')
    BY <1>11 DEF SaveFails, Mine, Spend, NoSave, Life, Counters
  <2>4. checkpoint'.text = {} \/ (checkpoint' = checkpoint /\ promised' \subseteq promised) BY <1>11 DEF SaveFails, Mine, Spend, NoSave
  <2> QED BY <2>1, <2>2, <2>3, <2>4, CoverKept
<1>12. ASSUME NEW r \in wire, LandCheckpoint(r) PROVE SavesCover'
  <2>1. /\ r \in Checkpoints /\ wire' = wire \ {r} /\ UNCHANGED <<canon, mem, rev, reload, used, Life>>
        /\ Saves' = Saves /\ Checkpoints' \subseteq Checkpoints
    BY <1>12 DEF LandCheckpoint, Life
  <2>2. ASSUME NEW q \in Saves, q.life = Life, checkpoint'.rev <= q.rev
        PROVE  promised' \cap checkpoint'.text \subseteq q.text \cup OnDisk'
    <3>1. CASE r.mine
      <4>1. promised' = promised \cup (r.text \ canon.text) BY <1>12, <3>1 DEF LandCheckpoint
      <4>2. CASE checkpoint.rev > r.rev
        <5>1. checkpoint' = checkpoint /\ r.rev <= q.rev BY <1>12, <2>2, <4>2 DEF LandCheckpoint
        <5>2. r.text \subseteq q.text \cup OnDisk BY <2>1, <2>2, <3>1, <5>1 DEF SavesCover
        <5>3. promised \cap checkpoint.text \subseteq q.text \cup OnDisk BY <2>2, <5>1 DEF SavesCover
        <5> QED BY <4>1, <5>1, <5>2, <5>3
      <4>3. CASE ~ (checkpoint.rev > r.rev)
        <5>1. checkpoint'.text = r.text /\ checkpoint'.rev = r.rev BY <1>12, <4>3 DEF LandCheckpoint
        <5>2. r.text \subseteq q.text \cup OnDisk BY <2>1, <2>2, <3>1, <5>1 DEF SavesCover
        <5> QED BY <5>1, <5>2
      <4> QED BY <4>2, <4>3
    <3>2. CASE ~ r.mine
      <4>1. promised' = promised /\ r.life # Life BY <1>12, <2>1, <3>2 DEF LandCheckpoint
      <4>2. CASE checkpoint.rev > r.rev
        <5>1. checkpoint' = checkpoint BY <1>12, <4>2 DEF LandCheckpoint
        <5> QED BY <2>2, <4>1, <5>1 DEF SavesCover
      <4>3. CASE ~ (checkpoint.rev > r.rev)
        <5>1. givenUp' = givenUp \cup checkpoint.text BY <1>12, <4>1, <4>3 DEF LandCheckpoint, Harmed
        <5>2. promised \subseteq OnDisk' BY <5>1 DEF Promises, OnDisk
        <5> QED BY <4>1, <5>2
      <4> QED BY <4>2, <4>3
    <3> QED BY <3>1, <3>2
  <2> QED BY <2>1, <2>2 DEF SavesCover
<1>13. ASSUME NEW r \in wire, CheckpointFails(r) PROVE SavesCover'
  <2>1. \A q \in Saves' : q.life = Life' => \E s \in Saves : s.life = Life /\ s.rev = q.rev /\ s.text = q.text
    BY <1>13 DEF CheckpointFails, Mine, Spend, Life, Counters
  <2>2. \A c \in Checkpoints' : c.mine => c \in Checkpoints BY <1>13 DEF CheckpointFails, Mine, Spend
  <2>3. (\A q \in Saves' : q.life = Life' => q.rev # rev') \/ (rev' = rev /\ mem' \subseteq mem \cup OnDisk')
    BY <1>13 DEF CheckpointFails, Mine, Spend, Life, Counters
  <2>4. checkpoint'.text = {} \/ (checkpoint' = checkpoint /\ promised' \subseteq promised) BY <1>13 DEF CheckpointFails, Mine, Spend
  <2> QED BY <2>1, <2>2, <2>3, <2>4, CoverKept
<1>14. ASSUME NEW d \in Docs, Foreign(d) PROVE SavesCover'
  <2>1. \A q \in Saves' : q.life = Life' => \E s \in Saves : s.life = Life /\ s.rev = q.rev /\ s.text = q.text
    BY <1>14 DEF Foreign, Spend, NewEdit, pageVars, Life, Counters
  <2>2. \A c \in Checkpoints' : c.mine => c \in Checkpoints BY <1>14 DEF Foreign, Spend, NewEdit, pageVars
  <2>3. (\A q \in Saves' : q.life = Life' => q.rev # rev') \/ (rev' = rev /\ mem' \subseteq mem \cup OnDisk')
    BY <1>14 DEF Foreign, Spend, NewEdit, pageVars, Life, Counters
  <2>4. checkpoint'.text = {} \/ (checkpoint' = checkpoint /\ promised' \subseteq promised) BY <1>14 DEF Foreign, Spend, NewEdit, pageVars
  <2> QED BY <2>1, <2>2, <2>3, <2>4, CoverKept
<1>15. ASSUME Close PROVE SavesCover'
  <2>1. \A q \in Saves' : q.life # Life' BY <1>15 DEF Close, Spend, NoSave, NoReload, Life, Counters
  <2> QED BY <2>1 DEF SavesCover
<1>16. ASSUME Load PROVE SavesCover'
  <2>1. \A q \in Saves' : q.life # Life' BY <1>16 DEF Load, Life, Counters
  <2> QED BY <2>1 DEF SavesCover
<1>17. ASSUME Hydrate PROVE SavesCover'
  <2>1. \A q \in Saves' : q.life # Life' BY <1>17 DEF Hydrate, Restorable, Spend, Life, Counters
  <2> QED BY <2>1 DEF SavesCover
<1>18. ASSUME Startup PROVE SavesCover'
  <2>1. \A q \in Saves' : q.life = Life' => \E r \in Saves : r.life = Life /\ r.rev = q.rev /\ r.text = q.text
    BY <1>18 DEF Startup, Persist, Mine, Life, Counters
  <2>2. \A c \in Checkpoints' : c.mine => c \in Checkpoints BY <1>18 DEF Startup, Persist, Mine
  <2>3. (\A q \in Saves' : q.life = Life' => q.rev # rev') \/ (rev' = rev /\ mem' \subseteq mem \cup OnDisk')
    BY <1>18 DEF Startup, Persist, Mine, Life, Counters
  <2>4. checkpoint'.text = {} \/ (checkpoint' = checkpoint /\ promised' \subseteq promised) BY <1>18 DEF Startup, Persist, Mine
  <2> QED BY <2>1, <2>2, <2>3, <2>4, CoverKept
<1>19. ASSUME UNCHANGED vars PROVE SavesCover'
  <2>1. \A q \in Saves' : q.life = Life' => \E r \in Saves : r.life = Life /\ r.rev = q.rev /\ r.text = q.text
    BY <1>19 DEF vars, pageVars, Life, Counters
  <2>2. \A c \in Checkpoints' : c.mine => c \in Checkpoints BY <1>19 DEF vars, pageVars
  <2>3. (\A q \in Saves' : q.life = Life' => q.rev # rev') \/ (rev' = rev /\ mem' \subseteq mem \cup OnDisk')
    BY <1>19 DEF vars, pageVars, Life, Counters
  <2>4. checkpoint'.text = {} \/ (checkpoint' = checkpoint /\ promised' \subseteq promised) BY <1>19 DEF vars, pageVars
  <2> QED BY <2>1, <2>2, <2>3, <2>4, CoverKept
<1>20. ASSUME Flush PROVE SavesCover'
  <2>1. CASE dirty \/ UnderWay BY <1>20, <2>1, SaveWorkspaceCover DEF Flush, Quiet
  <2>2. CASE ~ (dirty \/ UnderWay) BY <1>20, <2>2 DEF Flush, SavesCover, OnDisk, Life
  <2> QED BY <2>1, <2>2
<1>21. ASSUME Flushed PROVE SavesCover'
  <2>1. CASE SaveWorkspace /\ UNCHANGED page BY <1>21, <2>1, SaveWorkspaceCover DEF Flushed, Quiet
  <2>2. CASE UNCHANGED <<save, wire>> /\ page' = "opening" BY <1>21, <2>2 DEF Flushed, SavesCover, OnDisk, Life
  <2> QED BY <1>21, <2>1, <2>2 DEF Flushed
<1>22. ASSUME Settle PROVE SavesCover'
  <2>1. \A q \in Saves' : q.life = Life' => \E r \in Saves : r.life = Life /\ r.rev = q.rev /\ r.text = q.text
    BY <1>22 DEF Settle, Persist, Mine, Life, Counters
  <2>2. \A c \in Checkpoints' : c.mine => c \in Checkpoints BY <1>22 DEF Settle, Persist, Mine
  <2>3. (\A q \in Saves' : q.life = Life' => q.rev # rev') \/ (rev' = rev /\ mem' \subseteq mem \cup OnDisk')
    BY <1>22 DEF Settle, Persist, Mine, Life, Counters
  <2>4. checkpoint'.text = {} \/ (checkpoint' = checkpoint /\ promised' \subseteq promised) BY <1>22 DEF Settle, Persist, Mine
  <2> QED BY <2>1, <2>2, <2>3, <2>4, CoverKept
<1> QED BY <1>1, <1>2, <1>3, <1>4, <1>5, <1>6, <1>7, <1>8, <1>9, <1>10, <1>11, <1>12, <1>13, <1>14, <1>15, <1>16, <1>17, <1>18, <1>19, <1>20, <1>21, <1>22
   DEF Next, Author, Serving, Faults, Opening

(* Where the checkpoint and the work stay, promises are kept.              *)
LEMMA PromisesKept ==
  ASSUME Promises, OnDisk \subseteq OnDisk', Held \subseteq Held', givenUp \subseteq givenUp', Shown' => Shown,
         UNCHANGED <<canon, checkpoint, promised>>,
         \A c \in Checkpoints' : c.mine => c \in Checkpoints /\ (c.life = Life' => c.life = Life)
  PROVE  Promises'
  BY DEF Promises

LEMMA StepPromises ==
  ASSUME GrowthInv, PromiseInv, OnDisk \subseteq OnDisk', givenUp \subseteq givenUp', [Next]_vars
  PROVE  Promises'
<1> USE DEF GrowthInv, Types, OneOfAKind, Shown, Checkpoints, PromiseInv, Lives
<1>1. ASSUME NEW d \in Docs, Edit(d) PROVE Promises'
  <2>1. UNCHANGED <<canon, checkpoint, promised>> /\ (Shown' => Shown) BY <1>1 DEF Edit, Persist, Spend, NewEdit, Mine
  <2>2. Held \subseteq Held' BY <1>1 DEF Edit, Persist, Spend, NewEdit, Mine, Held
  <2>3. \A c \in Checkpoints' : c.mine => c \in Checkpoints /\ (c.life = Life' => c.life = Life)
    BY <1>1 DEF Edit, Persist, Spend, NewEdit, Mine, Life, Counters
  <2> HIDE DEF GrowthInv, PromiseInv
  <2> QED BY <2>1, <2>2, <2>3, PromisesKept DEF PromiseInv
<1>2. ASSUME SendCheckpoint PROVE Promises'
  <2>1. UNCHANGED <<canon, checkpoint, mem, givenUp, promised, Life, OnDisk, Held, page>> /\ checkpointTimer
    BY <1>2, CheckpointSent DEF Life, OnDisk, Held
  <2>2. CASE wire' = wire BY <2>1, <2>2 DEF Promises
  <2>3. ASSUME NEW new \in wire', wire' = wire \cup {new}, new.kind = "checkpoint", new.text = Part(mem, ids)
        PROVE  Promises'
    <3>1. new.text \subseteq Held BY <2>3 DEF Part, Held
    <3>2. promised \subseteq new.text \cup OnDisk
      BY <2>1, <2>3 DEF Promises, ChangesListed, Quiet, Part, Held, OnDisk
    <3>3. \A c \in Checkpoints' : c \in Checkpoints \/ c = new BY <2>3
    <3> QED BY <2>1, <3>1, <3>2, <3>3 DEF Promises
  <2> QED BY <1>2, <2>2, <2>3, CheckpointSent
<1>3. ASSUME ScheduleSave PROVE Promises'
  <2>1. UNCHANGED <<canon, checkpoint, promised>> /\ (Shown' => Shown) BY <1>3 DEF ScheduleSave
  <2>2. Held \subseteq Held' BY <1>3 DEF ScheduleSave, Held
  <2>3. \A c \in Checkpoints' : c.mine => c \in Checkpoints /\ (c.life = Life' => c.life = Life)
    BY <1>3 DEF ScheduleSave, Life, Counters
  <2> HIDE DEF GrowthInv, PromiseInv
  <2> QED BY <2>1, <2>2, <2>3, PromisesKept DEF PromiseInv
<1>4. ASSUME SaveWhenDue PROVE Promises'
  <2>1. UNCHANGED <<canon, checkpoint, promised>> /\ (Shown' => Shown) BY <1>4 DEF SaveWhenDue
  <2>2. Held \subseteq Held' BY <1>4 DEF SaveWhenDue, Held
  <2>3. \A c \in Checkpoints' : c.mine => c \in Checkpoints /\ (c.life = Life' => c.life = Life)
    BY <1>4, SaveSent DEF SaveWhenDue, Life, Counters
  <2> HIDE DEF GrowthInv, PromiseInv
  <2> QED BY <2>1, <2>2, <2>3, PromisesKept DEF PromiseInv
<1>5. ASSUME Retry PROVE Promises'
  <2>1. UNCHANGED <<canon, checkpoint, promised>> /\ (Shown' => Shown) BY <1>5 DEF Retry
  <2>2. Held \subseteq Held' BY <1>5 DEF Retry, Held
  <2>3. \A c \in Checkpoints' : c.mine => c \in Checkpoints /\ (c.life = Life' => c.life = Life)
    BY <1>5, SaveSent DEF Retry, Life, Counters
  <2> HIDE DEF GrowthInv, PromiseInv
  <2> QED BY <2>1, <2>2, <2>3, PromisesKept DEF PromiseInv
<1>6. ASSUME StartReload PROVE Promises'
  <2>1. UNCHANGED <<canon, checkpoint, promised>> /\ (Shown' => Shown) BY <1>6 DEF StartReload, Spend
  <2>2. Held \subseteq Held' BY <1>6 DEF StartReload, Spend, Held
  <2>3. \A c \in Checkpoints' : c.mine => c \in Checkpoints /\ (c.life = Life' => c.life = Life)
    BY <1>6 DEF StartReload, Spend, Life, Counters
  <2> HIDE DEF GrowthInv, PromiseInv
  <2> QED BY <2>1, <2>2, <2>3, PromisesKept DEF PromiseInv
<1>7. ASSUME FinishReload PROVE Promises'
  <2>1. /\ UNCHANGED <<canon, promised, wire>> /\ givenUp' = givenUp \cup (mem \ reload.text) /\ Shown
        /\ checkpoint' = checkpoint \/ checkpoint' = NoCheckpoint
    BY <1>7 DEF FinishReload, Committed
  <2>2. promised \subseteq givenUp' BY <2>1 DEF Promises, KnownIsOnDisk, OnDisk, Held
  <2>3. Held \subseteq Held' BY <1>7 DEF FinishReload, Held
  <2> QED BY <2>1, <2>2, <2>3 DEF Promises, OnDisk, Held
<1>8. ASSUME NEW r \in wire, Land(r) PROVE Promises'
  <2>1. promised' = promised \ canon'.text /\ UNCHANGED <<checkpoint, page, givenUp, Life, Held>>
    BY <1>8 DEF Land, pageVars, Life, Held
  <2>2. \A c \in Checkpoints' : c \in Checkpoints BY <1>8 DEF Land
  <2> QED BY <2>1, <2>2 DEF Promises
<1>9. ASSUME NEW r \in wire, EndSave(r) PROVE Promises'
  <2>1. /\ UNCHANGED <<canon, promised, page, Life>> /\ Wiped(r) \subseteq givenUp' /\ Held \subseteq Held'
        /\ Checkpoints' \subseteq Checkpoints
    <3>1. UNCHANGED <<canon, promised, reload, page, used.closes, used.reloads>>
      BY <1>9 DEF EndSave, SaveDone, pageVars, Spend, Counters
    <3>2. CASE r.mine BY <1>9, <3>1, <3>2 DEF EndSave, SaveDone, Held, Life
    <3>3. CASE ~ r.mine BY <1>9, <3>1, <3>3 DEF EndSave, pageVars, Held, Life
    <3> QED BY <3>2, <3>3
  <2>2. promised \subseteq checkpoint'.text \cup givenUp'
    <3>1. CASE checkpoint' = checkpoint BY <3>1 DEF Promises
    <3>2. CASE r.rev = 0 \/ r.life # Life
      <4>1. checkpoint.text \subseteq givenUp' BY <2>1, <3>2 DEF Wiped, Harmed
      <4> QED BY <4>1 DEF Promises
    <3>3. CASE checkpoint' # checkpoint /\ r.rev # 0 /\ r.life = Life
      <4>1. checkpoint.rev <= r.rev BY <1>9, <3>3 DEF EndSave, Committed
      <4>2. r \in Saves /\ r.text \subseteq OnDisk BY <1>9 DEF EndSave, Saves, KnownIsOnDisk
      <4>3. promised \cap checkpoint.text \subseteq OnDisk BY <3>3, <4>1, <4>2 DEF SavesCover
      <4> QED BY <4>3 DEF Promises, OnDisk
    <3> QED BY <3>1, <3>2, <3>3
  <2> QED BY <2>1, <2>2 DEF Promises
<1>10. ASSUME NEW r \in wire, Refused(r) PROVE Promises'
  <2>1. UNCHANGED <<canon, checkpoint, promised>> /\ (Shown' => Shown) BY <1>10, SaveSentAgain
  <2>2. Held \subseteq Held' BY <1>10, SaveSentAgain DEF Held
  <2>3. \A c \in Checkpoints' : c.mine => c \in Checkpoints /\ (c.life = Life' => c.life = Life)
    BY <1>10, SaveSentAgain DEF Life, Counters
  <2> HIDE DEF GrowthInv, PromiseInv
  <2> QED BY <2>1, <2>2, <2>3, PromisesKept DEF PromiseInv
<1>11. ASSUME NEW r \in wire, SaveFails(r) PROVE Promises'
  <2>1. UNCHANGED <<canon, checkpoint, promised>> /\ (Shown' => Shown) BY <1>11 DEF SaveFails, Mine, Spend, NoSave
  <2>2. Held \subseteq Held' BY <1>11 DEF SaveFails, Mine, Spend, NoSave, Held
  <2>3. \A c \in Checkpoints' : c.mine => c \in Checkpoints /\ (c.life = Life' => c.life = Life)
    BY <1>11 DEF SaveFails, Mine, Spend, NoSave, Life, Counters
  <2> HIDE DEF GrowthInv, PromiseInv
  <2> QED BY <2>1, <2>2, <2>3, PromisesKept DEF PromiseInv
<1>12. ASSUME NEW r \in wire, LandCheckpoint(r) PROVE Promises'
  <2>1. /\ r \in Checkpoints /\ wire' = wire \ {r} /\ UNCHANGED <<canon, mem, page, Life>>
        /\ Checkpoints' \subseteq Checkpoints /\ Held \subseteq Held'
        /\ promised' = IF r.mine THEN promised \cup (r.text \ canon.text) ELSE promised
    BY <1>12 DEF LandCheckpoint, Life, Held
  <2>2. promised' \subseteq checkpoint'.text \cup givenUp'
    <3>1. CASE checkpoint.rev > r.rev
      <4>1. checkpoint' = checkpoint /\ r.text \subseteq checkpoint.text \cup givenUp' BY <1>12, <3>1 DEF LandCheckpoint
      <4> QED BY <2>1, <4>1 DEF Promises
    <3>2. CASE ~ (checkpoint.rev > r.rev)
      <4>1. checkpoint'.text = r.text /\ givenUp' = Harmed(r, checkpoint.text) BY <1>12, <3>2 DEF LandCheckpoint
      <4>2. CASE r.life = Life
        <5>1. promised \subseteq r.text \cup OnDisk BY <2>1, <4>2 DEF Promises
        <5>2. promised \subseteq r.text \cup givenUp BY <5>1 DEF Promises, OnDisk
        <5> QED BY <2>1, <4>1, <5>2
      <4>3. CASE r.life # Life
        <5>1. checkpoint.text \subseteq givenUp' BY <4>1, <4>3 DEF Harmed
        <5> QED BY <2>1, <4>1, <5>1 DEF Promises
      <4> QED BY <4>2, <4>3
    <3> QED BY <3>1, <3>2
  <2>3. CASE r.mine
    <3>1. \A c \in Checkpoints' : ~ c.mine BY <2>1, <2>3
    <3>2. r.text \subseteq Held BY <2>1, <2>3 DEF Promises
    <3>3. promised' = promised \cup (r.text \ canon.text) BY <2>1, <2>3
    <3> QED BY <2>1, <2>2, <3>1, <3>2, <3>3 DEF Promises
  <2>4. CASE ~ r.mine
    <3>1. promised' = promised BY <2>1, <2>4
    <3> QED BY <2>1, <2>2, <3>1 DEF Promises
  <2> QED BY <2>3, <2>4
<1>13. ASSUME NEW r \in wire, CheckpointFails(r) PROVE Promises'
  <2>1. UNCHANGED <<canon, checkpoint, promised>> /\ (Shown' => Shown) BY <1>13 DEF CheckpointFails, Mine, Spend
  <2>2. Held \subseteq Held' BY <1>13 DEF CheckpointFails, Mine, Spend, Held
  <2>3. \A c \in Checkpoints' : c.mine => c \in Checkpoints /\ (c.life = Life' => c.life = Life)
    BY <1>13 DEF CheckpointFails, Mine, Spend, Life, Counters
  <2> HIDE DEF GrowthInv, PromiseInv
  <2> QED BY <2>1, <2>2, <2>3, PromisesKept DEF PromiseInv
<1>14. ASSUME NEW d \in Docs, Foreign(d) PROVE Promises'
  <2>1. UNCHANGED <<checkpoint, mem, page, reload, wire, promised, givenUp>> BY <1>14 DEF Foreign, pageVars
  <2>2. UNCHANGED <<Life, Held>> BY <1>14, <2>1 DEF Foreign, Spend, Counters, Life, Held
  <2>3. canon'.text = canon.text \cup {NewEdit(d)} BY <1>14 DEF Foreign
  <2>4. NewEdit(d) \notin promised
    <3>1. NewEdit(d)[2] = used.edits + used.foreign + 1 BY DEF NewEdit
    <3>2. used.edits \in Nat /\ used.foreign \in Nat BY DEF Counters
    <3> QED BY <3>1, <3>2 DEF Numbered, Made
  <2> QED BY <2>1, <2>2, <2>3, <2>4 DEF Promises
<1>15. ASSUME Close PROVE Promises'
  <2>1. UNCHANGED <<canon, checkpoint, promised, givenUp>> /\ ~ Shown' BY <1>15 DEF Close
  <2>2. \A c \in Checkpoints' : ~ c.mine BY <1>15 DEF Close
  <2> QED BY <2>1, <2>2 DEF Promises
<1>16. ASSUME Load PROVE Promises'
  <2>1. UNCHANGED <<canon, checkpoint, promised, givenUp, wire>> /\ ~ Shown /\ ~ Shown' BY <1>16 DEF Load
  <2>2. \A c \in Checkpoints' : ~ c.mine BY <2>1
  <2> QED BY <2>1, <2>2 DEF Promises
<1>17. ASSUME Hydrate PROVE Promises'
  <2>1. UNCHANGED <<canon, checkpoint, promised, wire>> /\ ~ Shown BY <1>17 DEF Hydrate
  <2>2. \A c \in Checkpoints' : ~ c.mine BY <2>1
  <2>3. checkpoint.text \subseteq Held'
    <3>1. CASE mem' = Overlay(mem, checkpoint.docs, checkpoint.text) BY <3>1 DEF Overlay, Stamped, Held
    <3>2. CASE givenUp' = givenUp \cup (checkpoint.text \ mem) /\ mem' = mem BY <3>2 DEF Held
    <3> QED BY <1>17, <3>1, <3>2 DEF Hydrate
  <2> QED BY <2>1, <2>2, <2>3 DEF Promises, Held
<1>18. ASSUME Startup PROVE Promises'
  <2>1. UNCHANGED <<canon, checkpoint, promised>> /\ (Shown' => Shown) BY <1>18 DEF Startup, Persist, Mine
  <2>2. Held \subseteq Held' BY <1>18 DEF Startup, Persist, Mine, Held
  <2>3. \A c \in Checkpoints' : c.mine => c \in Checkpoints /\ (c.life = Life' => c.life = Life)
    BY <1>18 DEF Startup, Persist, Mine, Life, Counters
  <2> HIDE DEF GrowthInv, PromiseInv
  <2> QED BY <2>1, <2>2, <2>3, PromisesKept DEF PromiseInv
<1>19. ASSUME UNCHANGED vars PROVE Promises'
  <2>1. UNCHANGED <<canon, checkpoint, promised>> /\ (Shown' => Shown) BY <1>19 DEF vars, pageVars
  <2>2. Held \subseteq Held' BY <1>19 DEF vars, pageVars, Held
  <2>3. \A c \in Checkpoints' : c.mine => c \in Checkpoints /\ (c.life = Life' => c.life = Life)
    BY <1>19 DEF vars, pageVars, Life, Counters
  <2> HIDE DEF GrowthInv, PromiseInv
  <2> QED BY <2>1, <2>2, <2>3, PromisesKept DEF PromiseInv
<1>20. ASSUME Flush PROVE Promises'
  <2>1. UNCHANGED <<canon, checkpoint, promised>> /\ (Shown' => Shown) BY <1>20 DEF Flush
  <2>2. Held \subseteq Held' BY <1>20 DEF Flush, Held
  <2>3. \A c \in Checkpoints' : c.mine => c \in Checkpoints /\ (c.life = Life' => c.life = Life)
    BY <1>20, SaveSent DEF Flush, Life, Counters
  <2> HIDE DEF GrowthInv, PromiseInv
  <2> QED BY <2>1, <2>2, <2>3, PromisesKept DEF PromiseInv
<1>21. ASSUME Flushed PROVE Promises'
  <2>1. UNCHANGED <<canon, checkpoint, promised>> /\ (Shown' => Shown) BY <1>21 DEF Flushed
  <2>2. Held \subseteq Held' BY <1>21 DEF Flushed, Held
  <2>3. \A c \in Checkpoints' : c.mine => c \in Checkpoints /\ (c.life = Life' => c.life = Life)
    BY <1>21, SaveSent DEF Flushed, Life, Counters
  <2> HIDE DEF GrowthInv, PromiseInv
  <2> QED BY <2>1, <2>2, <2>3, PromisesKept DEF PromiseInv
<1>22. ASSUME Settle PROVE Promises'
  <2>1. UNCHANGED <<canon, checkpoint, promised>> /\ (Shown' => Shown) BY <1>22 DEF Settle, Persist, Mine
  <2>2. Held \subseteq Held' BY <1>22 DEF Settle, Persist, Mine, Held
  <2>3. \A c \in Checkpoints' : c.mine => c \in Checkpoints /\ (c.life = Life' => c.life = Life)
    BY <1>22 DEF Settle, Persist, Mine, Life, Counters
  <2> HIDE DEF GrowthInv, PromiseInv
  <2> QED BY <2>1, <2>2, <2>3, PromisesKept DEF PromiseInv
<1> QED BY <1>1, <1>2, <1>3, <1>4, <1>5, <1>6, <1>7, <1>8, <1>9, <1>10, <1>11, <1>12, <1>13, <1>14, <1>15, <1>16, <1>17, <1>18, <1>19, <1>20, <1>21, <1>22
   DEF Next, Author, Serving, Faults, Opening

LEMMA InitPromise == Init => PromiseInv
<1> SUFFICES ASSUME Init PROVE PromiseInv OBVIOUS
<1>1. Lives BY DEF Init, Lives, Saves, Checkpoints
<1>2. Numbered BY DEF Init, Numbered, Made, NoCheckpoint, NoReload
<1>3. KnownIsOnDisk /\ ChangesListed BY DEF Init, KnownIsOnDisk, ChangesListed, OnDisk, NoSave, NoReload
<1>4. SavesCover /\ Promises BY DEF Init, SavesCover, Promises, Saves, Checkpoints, NoCheckpoint
<1> QED BY <1>1, <1>2, <1>3, <1>4 DEF PromiseInv

LEMMA NextPromise == GrowthInv /\ PromiseInv /\ [Next]_vars => PromiseInv'
<1> SUFFICES ASSUME GrowthInv, PromiseInv, [Next]_vars PROVE PromiseInv' OBVIOUS
<1>1. OnDisk \subseteq OnDisk' /\ givenUp \subseteq givenUp' BY OnDiskGrows, GivenUpGrows
<1>2. Lives' BY StepLives DEF PromiseInv
<1>3. Numbered' BY StepNumbered DEF PromiseInv
<1>4. KnownIsOnDisk' BY <1>1, StepKnown DEF PromiseInv
<1>5. ChangesListed' BY <1>1, StepListed
<1>6. SavesCover' BY <1>1, StepCover
<1>7. Promises' BY <1>1, StepPromises
<1> QED BY <1>2, <1>3, <1>4, <1>5, <1>6, <1>7 DEF PromiseInv

(* An edit the page was told is in a checkpoint, and that is not yet on    *)
(* disk, is in the checkpoint still, unless it was given up: whatever      *)
(* ends, closes, fails or comes late in between.                           *)
THEOREM PromisesHold == Spec => []ProtectedEditsSurvive
<1>1. PromiseInv => ProtectedEditsSurvive BY DEF PromiseInv, Promises, ProtectedEditsSurvive
<1> QED BY <1>1, InitGrowth, NextGrowth, InitPromise, NextPromise, PTL DEF Spec

==============================================================================
