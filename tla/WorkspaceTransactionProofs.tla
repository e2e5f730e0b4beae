---------------------- MODULE WorkspaceTransactionProofs ----------------------
(***************************************************************************)
(* WorkspaceTransaction for every set of documents and windows, every      *)
(* choice of origins and every bound.                                      *)
(***************************************************************************)
EXTENDS WorkspaceTransaction, TLAPS

USE WorkspaceAssumption

----------------------------------------------------------------------------
(* Types                                                                   *)

(* The versions given out so far. The types are stated for a set of        *)
(* versions, so that a request or an edit that makes one more can be told  *)
(* from the steps that only move versions about.                           *)
Given == 0 .. (NewVersion - 1)

Modes == SaveModes \cup UndoModes
SaveOf(V) ==
  [kind : {"save"}, by : Window, desired : [Doc -> V], ext : [Doc -> V], prev : [Doc -> V],
   strict : BOOLEAN, delta : BOOLEAN, dirty : SUBSET Doc]
LoadBy == [kind : {"load"}, by : Window]
StateOf(V) == [there : BOOLEAN, saved : Nat, ref : [Doc -> V], trash : SUBSET (Doc \X V)]
TxOf(V) ==
  [dir : BOOLEAN, status : Statuses, desired : [Doc -> V], trash : SUBSET (Doc \X V),
   undo : [Doc -> V], undoTrash : SUBSET (Doc \X V), hist : SUBSET (Doc \X V), fresh : BOOLEAN]

Holds(V) ==
  /\ file \in [Doc -> V]
  /\ manifest \in [there : BOOLEAN, entry : [Doc -> V]]
  /\ current \in StateOf(V)
  /\ hist \subseteq Doc \X V
  /\ tx \in TxOf(V)
  /\ req \in {NoReq} \cup LoadBy \cup SaveOf(V)
  /\ checked \in {<<>>} \cup (Doc \X V)
  /\ loose \subseteq Doc \X V \X Modes
  /\ win \in [Window -> [saved : Nat, docs : [Doc -> V], ext : [Doc -> V], seen : [Doc -> V]]]
  /\ edits \subseteq V
  /\ once \subseteq Doc \X V

Counted ==
  used \in [saves : 0 .. MaxSaves, edits : 0 .. MaxEdits, crashes : Nat, gaps : Nat, faults : Nat]

Waiting == {"idle", "recover", "request", "journal", "history", "apply"}
Passing == {"begin", "batch", "docs", "write", "bins", "manifest", "current", "isolated"}
Saved == {"verify", "commit", "clean"}
Undoing == {"rolledBack", "clear", "pending"}

(* Which pass and which request the writer is busy with at each label.     *)
Places ==
  /\ pc \in Waiting \cup Passing \cup Saved \cup Undoing \cup {"mark", "wipe"}
  /\ mode \in Modes \cup {"none"} /\ todo \subseteq Doc /\ stamp \in Nat
  /\ lost \subseteq {"race", "save", "accepted", "rollback"}
  /\ pc \in Waiting <=> mode = "none"
  /\ pc \in Saved => mode \in SaveModes
  /\ pc = "mark" => mode = "retry"
  /\ pc \in Undoing => mode \in UndoModes
  /\ pc = "idle" => req = NoReq
  /\ pc # "idle" => req # NoReq
  /\ pc \in {"request", "journal", "history", "apply", "mark"} \/ mode \in SaveModes => req \notin LoadBy
  /\ pc = "write" => checked # <<>>

Sensible == Counted /\ Places /\ Holds(Given)

LEMMA InitSensible == Init => Sensible
<1> SUFFICES ASSUME Init PROVE Sensible OBVIOUS
<1>1. used.saves = 0 /\ used.edits = 0 /\ Counted BY DEF Init, Counted
<1>2. Given = 0 .. 1 BY <1>1 DEF Given, NewVersion
<1>3. Places BY DEF Init, Places, Waiting, Passing, Saved, Undoing, Modes, SaveModes, UndoModes
<1>4. PICK established \in Origins :
       /\ file = [d \in Doc |-> IF d \in established THEN 1 ELSE 0]
       /\ manifest = [there |-> established # {}, entry |-> file]
       /\ current = [there |-> established # {}, saved |-> IF established = {} THEN 0 ELSE 1,
                     ref |-> file, trash |-> {}]
       /\ once = {<<d, 1>> : d \in established}
  BY DEF Init
<1>5. established \subseteq Doc BY <1>4
<1>6. file \in [Doc -> 0 .. 1] /\ once \subseteq Doc \X (0 .. 1) BY <1>4, <1>5
<1>7. current \in StateOf(0 .. 1) BY <1>4, <1>6 DEF StateOf
<1>8. manifest \in [there : BOOLEAN, entry : [Doc -> 0 .. 1]] BY <1>4, <1>6
<1>9. Holds(0 .. 1)
  BY <1>6, <1>7, <1>8 DEF Init, Holds, NoTx, TxOf, Nothing, Statuses, NoReq, Blank, Versions
<1> QED BY <1>1, <1>2, <1>3, <1>9 DEF Sensible

(* What holds for some versions holds for more of them.                    *)
LEMMA HoldsMore ==
  ASSUME NEW V, NEW W, V \subseteq W, Holds(V) PROVE Holds(W)
<1>1. [Doc -> V] \subseteq [Doc -> W] /\ Doc \X V \subseteq Doc \X W OBVIOUS
<1>2. manifest \in [there : BOOLEAN, entry : [Doc -> W]] BY <1>1 DEF Holds
<1>3. current \in StateOf(W) BY <1>1 DEF Holds, StateOf
<1>4. tx \in TxOf(W)
  BY <1>1 DEF Holds, TxOf
<1>5. SaveOf(V) \subseteq SaveOf(W) BY <1>1 DEF SaveOf
<1>6. loose \subseteq Doc \X W \X Modes BY DEF Holds
<1>7. win \in [Window -> [saved : Nat, docs : [Doc -> W], ext : [Doc -> W], seen : [Doc -> W]]]
  <2>1. [saved : Nat, docs : [Doc -> V], ext : [Doc -> V], seen : [Doc -> V]]
          \subseteq [saved : Nat, docs : [Doc -> W], ext : [Doc -> W], seen : [Doc -> W]]
    BY <1>1
  <2> QED BY <2>1 DEF Holds
<1> QED BY <1>1, <1>2, <1>3, <1>4, <1>5, <1>6, <1>7 DEF Holds

LEMMA EndHolds ==
  ASSUME NEW V, Holds(V), EndRequest, UNCHANGED <<disk, win, ghosts>>, loose' \subseteq loose
  PROVE  Holds(V)'
  BY DEF EndRequest, Holds, disk, ghosts

LEMMA ThrowHolds ==
  ASSUME NEW V, Holds(V), Throws, UNCHANGED <<disk, win, ghosts>>, loose' \subseteq loose
  PROVE  Holds(V)'
  BY DEF Throws, Holds, disk, ghosts

LEMMA TargetHolds ==
  ASSUME NEW V, Holds(V) PROVE Target \in [Doc -> V] /\ TargetTrash \in SUBSET (Doc \X V)
  BY DEF Holds, TxOf, Target, TargetTrash

LEMMA SnapshotHolds ==
  ASSUME NEW V, 0 \in V, Holds(V), NEW w \in Window, Snapshot(w)
  PROVE  win' \in [Window -> [saved : Nat, docs : [Doc -> V], ext : [Doc -> V], seen : [Doc -> V]]]
<1> DEFINE Seen == IF ~ current.there THEN Blank
    ELSE [saved |-> current.saved,
          docs  |-> [d \in Doc |-> IF current.ref[d] = 0 THEN 0 ELSE file[d]],
          ext   |-> [d \in Doc |-> IF file[d] = current.ref[d] \/ current.ref[d] = 0 THEN 0 ELSE file[d]],
          seen  |-> file]
<1>1. file \in [Doc -> V] /\ current.saved \in Nat BY DEF Holds, StateOf
<1>2. Seen \in [saved : Nat, docs : [Doc -> V], ext : [Doc -> V], seen : [Doc -> V]]
  BY <1>1 DEF Blank, Nothing
<1>3. win' = [win EXCEPT ![w] = Seen] BY DEF Snapshot
<1> HIDE DEF Seen
<1> QED BY <1>2, <1>3 DEF Holds

(* The steps of windows and the editor.                                    *)
LEMMA LoadHolds ==
  ASSUME NEW V, 0 \in V, Holds(V), NEW w \in Window, StartLoad(w)
  PROVE  Holds(V)'
<1>1. CASE Snapshot(w) /\ UNCHANGED memory
  BY <1>1, SnapshotHolds DEF StartLoad, Holds, memory, disk, ghosts
<1>2. CASE ~ (Snapshot(w) /\ UNCHANGED memory)
  BY <1>2 DEF StartLoad, Holds, disk, ghosts, LoadBy
<1> QED BY <1>1, <1>2

LEMMA EnvironmentHolds ==
  ASSUME NEW V, 0 \in V, 1 \in V, NewVersion \in V, Holds(V), Editor \/ \E w \in Window : StartSave(w)
  PROVE  Holds(V)'
<1>1. ASSUME NEW w \in Window, StartSave(w) PROVE Holds(V)'
  <2>1. PICK desired \in [Doc -> Version], delta \in BOOLEAN, strict \in BOOLEAN :
       /\ \A d \in Doc : desired[d] \in {win[w].docs[d], NewVersion, 0} \cup (IF Reverts THEN {1} ELSE {})
       /\ req' = [kind |-> "save", by |-> w, desired |-> desired, strict |-> strict,
                  delta |-> delta, ext |-> win[w].ext, prev |-> Nothing,
                  dirty |-> IF delta THEN {d \in Doc : desired[d] # win[w].docs[d]} ELSE Doc]
    BY <1>1 DEF StartSave
  <2>2. win[w].docs \in [Doc -> V] /\ win[w].ext \in [Doc -> V] BY DEF Holds
  <2>3. desired \in [Doc -> V] BY <2>1, <2>2
  <2>4. req' \in SaveOf(V) BY <2>1, <2>2, <2>3 DEF SaveOf, Nothing
  <2> QED BY <1>1, <2>4 DEF StartSave, Holds, disk, ghosts
<1>2. ASSUME NEW d \in Doc, Edit(d) PROVE Holds(V)'
  BY <1>2 DEF Edit, Holds, memory
<1> QED BY <1>1, <1>2 DEF Editor

(* What a save that is accepted puts into the transaction.                 *)
LEMMA AcceptedForm ==
  ASSUME NEW V, 0 \in V, Holds(V), req \in SaveOf(V), \A d \in Doc : Desired(d) \in V, AcceptSave
  PROVE  /\ tx' \in TxOf(V)
         /\ tx'.dir /\ tx'.status = "none" /\ tx'.fresh = ~ current.there
         /\ \A d \in Doc : tx'.desired[d] = Desired(d)
         /\ tx'.undo = [d \in Doc |-> IF current.there /\ current.ref[d] # 0 THEN file[d] ELSE 0]
         /\ tx'.undoTrash = current.trash
         /\ tx'.trash \subseteq current.trash \cup
              {<<d, win[req.by].docs[d]>> : d \in {e \in Doc : win[req.by].docs[e] # 0}}
         /\ ~ current.there => tx'.hist \subseteq hist
         /\ current.there =>
              tx'.hist = hist \cup {<<d, tx'.undo[d]>> : d \in Replaced(tx'.undo, tx'.desired, manifest.entry)}
<1> DEFINE desired == [d \in Doc |-> Desired(d)]
           undo == [d \in Doc |-> IF current.there /\ current.ref[d] # 0 THEN file[d] ELSE 0]
           known == win[req.by].docs
<1>1. PICK kept \in SUBSET current.trash, entered \in SUBSET {d \in Doc : desired[d] = 0 /\ known[d] # 0},
           histories \in Histories(undo, desired) :
          tx' = [dir |-> TRUE, status |-> "none",
                 desired |-> desired, trash |-> kept \cup {<<d, known[d]>> : d \in entered},
                 undo |-> undo, undoTrash |-> current.trash,
                 hist |-> histories, fresh |-> ~ current.there]
  BY DEF AcceptSave
<1>2. desired \in [Doc -> V] OBVIOUS
<1>3. undo \in [Doc -> V] BY DEF Holds
<1>4. known \in [Doc -> V] BY DEF Holds, SaveOf
<1>5. current.trash \subseteq Doc \X V /\ current.there \in BOOLEAN BY DEF Holds, StateOf
<1>6. {<<d, known[d]>> : d \in entered} \subseteq Doc \X V BY <1>4
<1>7. req.dirty \subseteq Doc BY DEF SaveOf
<1>8. Replaced(undo, desired, manifest.entry) \subseteq Doc BY <1>7 DEF Replaced
<1>9. {<<d, undo[d]>> : d \in Replaced(undo, desired, manifest.entry)} \subseteq Doc \X V BY <1>3, <1>8
<1>10. /\ ~ current.there => histories \subseteq hist
       /\ current.there => histories = hist \cup {<<d, undo[d]>> : d \in Replaced(undo, desired, manifest.entry)}
  BY DEF Histories
<1>11. histories \subseteq Doc \X V BY <1>5, <1>9, <1>10 DEF Holds
<1>12. {<<d, known[d]>> : d \in entered} \subseteq {<<d, known[d]>> : d \in {e \in Doc : known[e] # 0}} OBVIOUS
<1>13. \A d \in Doc : desired[d] = Desired(d) OBVIOUS
<1> HIDE DEF desired, undo, known
<1>14. tx' \in TxOf(V) BY <1>1, <1>2, <1>3, <1>5, <1>6, <1>11 DEF TxOf, Statuses
<1>15. /\ tx'.dir /\ tx'.status = "none" /\ tx'.fresh = ~ current.there
       /\ tx'.desired = desired /\ tx'.undo = undo /\ tx'.undoTrash = current.trash
       /\ tx'.trash = kept \cup {<<d, known[d]>> : d \in entered} /\ tx'.hist = histories
  BY <1>1
<1>16. tx'.trash \subseteq current.trash \cup {<<d, known[d]>> : d \in {e \in Doc : known[e] # 0}}
  BY <1>12, <1>15
<1>17. /\ ~ current.there => tx'.hist \subseteq hist
       /\ current.there =>
            tx'.hist = hist \cup {<<d, tx'.undo[d]>> : d \in Replaced(tx'.undo, tx'.desired, manifest.entry)}
  BY <1>10, <1>15
<1>18. tx'.undo = [d \in Doc |-> IF current.there /\ current.ref[d] # 0 THEN file[d] ELSE 0] BY <1>15 DEF undo
<1>19. \A d \in Doc : tx'.desired[d] = Desired(d) BY <1>13, <1>15
<1>20. tx'.trash \subseteq current.trash \cup
         {<<d, win[req.by].docs[d]>> : d \in {e \in Doc : win[req.by].docs[e] # 0}}
  BY <1>16 DEF known
<1> QED BY <1>14, <1>15, <1>17, <1>18, <1>19, <1>20

(* The steps of the recovery, and those of a save up to its journal.       *)
LEMMA RequestHolds ==
  ASSUME NEW V, 0 \in V, Holds(V), Places, Recovery \/ Preparing
  PROVE  Holds(V)'
<1>1. CASE DropTransaction BY <1>1 DEF DropTransaction, Holds, NoTx, TxOf, Nothing, Statuses, Managed, memory
<1>2. CASE BeginRecovery   BY <1>2 DEF BeginRecovery, Holds, TxOf, Statuses, ghosts
<1>3. CASE RecoveryRefuses \/ RefuseSave BY <1>3, EndHolds DEF RecoveryRefuses, RefuseSave
<1>4. CASE FinishLoad
  <2>1. req.by \in Window /\ Snapshot(req.by) BY <1>4 DEF FinishLoad, Holds, NoReq, LoadBy, SaveOf
  <2> QED BY <1>4, <2>1, SnapshotHolds DEF FinishLoad, EndRequest, Holds, disk, ghosts
<1>5. CASE EnterRequest BY <1>5 DEF EnterRequest, Holds, disk, ghosts
<1>6. CASE AcceptSave
  <2>1. req \in SaveOf(V) BY <1>6 DEF AcceptSave, Places, Holds
  <2>2. \A d \in Doc : Desired(d) \in V BY <2>1 DEF Desired, Holds, StateOf, SaveOf
  <2>3. tx' \in TxOf(V) BY <1>6, <2>1, <2>2, AcceptedForm
  <2>4. req' \in SaveOf(V) BY <1>6, <2>1 DEF AcceptSave, Holds, SaveOf
  <2> QED BY <1>6, <2>3, <2>4 DEF AcceptSave, Holds, ghosts
<1>7. CASE WriteJournal BY <1>7 DEF WriteJournal, Holds, TxOf, Statuses, ghosts
<1>8. CASE WriteHistory BY <1>8 DEF WriteHistory, Holds, TxOf, ghosts
<1>9. CASE MarkApplying BY <1>9 DEF MarkApplying, Holds, TxOf, Statuses, ghosts
<1> QED BY <1>1, <1>2, <1>3, <1>4, <1>5, <1>6, <1>7, <1>8, <1>9 DEF Recovery, Preparing

(* The steps of a pass.                                                    *)
LEMMA PassHolds ==
  ASSUME NEW V, 0 \in V, Holds(V), Places, Pass
  PROVE  Holds(V)'
<1>1. CASE BeginPass
  <2>1. mode \in Modes BY <1>1 DEF BeginPass, Places, Passing, Waiting, Modes
  <2>2. \A d \in Doc : <<d, Target[d], mode>> \in Doc \X V \X Modes BY <2>1, TargetHolds
  <2>3. todo' \subseteq Doc BY <1>1 DEF BeginPass
  <2>4. loose' = loose \/ loose' = loose \cup {<<d, Target[d], mode>> : d \in todo'}
    BY <1>1 DEF BeginPass
  <2>5. loose' \subseteq Doc \X V \X Modes BY <2>2, <2>3, <2>4 DEF Holds
  <2> QED BY <1>1, <2>5 DEF BeginPass, Holds, disk, ghosts
<1>2. CASE RefusePass BY <1>2, ThrowHolds DEF RefusePass
<1>3. CASE BatchDone \/ DocsDone \/ BinsDone
  BY <1>3 DEF BatchDone, DocsDone, BinsDone, Holds, disk, ghosts
<1>4. ASSUME NEW d \in Doc, CheckDoc(d) PROVE Holds(V)'
  <2>1. CASE Throws BY <1>4, <2>1, ThrowHolds DEF CheckDoc
  <2>2. CASE UNCHANGED <<req, checked>> BY <1>4, <2>2 DEF CheckDoc, Holds, disk, ghosts
  <2>3. CASE checked' = <<d, file[d]>> /\ UNCHANGED req
    <3>1. checked' \in Doc \X V BY <2>3 DEF Holds
    <3> QED BY <1>4, <2>3, <3>1 DEF CheckDoc, Holds, disk, ghosts
  <2> QED BY <1>4, <2>1, <2>2, <2>3 DEF CheckDoc
<1>5. ASSUME NEW d \in Doc, BinDoc(d) PROVE Holds(V)'
  <2>1. CASE Throws /\ UNCHANGED file BY <1>5, <2>1, ThrowHolds DEF BinDoc, disk
  <2>2. CASE ~ (Throws /\ UNCHANGED file)
    <3>1. file' \in [Doc -> V] BY <1>5, <2>2 DEF BinDoc, Holds
    <3> QED BY <1>5, <2>2, <3>1 DEF BinDoc, Holds, ghosts
  <2> QED BY <2>1, <2>2
<1>6. CASE WriteDoc
  <2>1. checked[1] \in Doc BY <1>6 DEF WriteDoc, Places, Holds
  <2>2. Target[checked[1]] \in V BY <2>1, TargetHolds
  <2>3. file' \in [Doc -> V] BY <1>6, <2>2 DEF WriteDoc, Holds
  <2> QED BY <1>6, <2>3 DEF WriteDoc, Holds
<1>7. CASE WriteManifest BY <1>7, TargetHolds DEF WriteManifest, Holds, ghosts
<1>8. CASE WriteCurrent
  <2>1. current' \in StateOf(V)
    BY <1>8, TargetHolds DEF WriteCurrent, Places, StateOf
  <2> QED BY <1>8, <2>1 DEF WriteCurrent, Holds, ghosts
<1>9. CASE RewriteHistory BY <1>9 DEF RewriteHistory, Holds, TxOf, ghosts
<1> QED BY <1>1, <1>2, <1>3, <1>4, <1>5, <1>6, <1>7, <1>8, <1>9 DEF Pass, Documents

(* The steps that end a save or its rollback.                              *)
LEMMA EndingHolds ==
  ASSUME NEW V, 0 \in V, Holds(V), Places, Ending
  PROVE  Holds(V)'
<1>1. CASE Verify BY <1>1, ThrowHolds DEF Verify, Holds, disk, ghosts
<1>2. CASE Commit \/ MarkRollback \/ MarkRolledBack
  BY <1>2 DEF Commit, MarkRollback, MarkRolledBack, Holds, TxOf, Statuses, ghosts
<1>3. CASE Answer
  <2>1. req \in SaveOf(V) BY <1>3 DEF Answer, Places, Holds, Saved, Waiting
  <2>2. req.by \in Window BY <2>1 DEF SaveOf
  <2>3. win' \in [Window -> [saved : Nat, docs : [Doc -> V], ext : [Doc -> V], seen : [Doc -> V]]]
    BY <1>3, <2>2 DEF Answer, Holds, StateOf, Nothing
  <2>4. once' \subseteq Doc \X V BY <1>3 DEF Answer, Holds, Managed
  <2> QED BY <1>3, <2>3, <2>4 DEF Answer, EndRequest, Holds, NoTx, TxOf, Nothing, Statuses
<1>4. CASE WipeFresh BY <1>4 DEF WipeFresh, Holds, NoState, StateOf, Nothing
<1>5. CASE ClearTransaction BY <1>5 DEF ClearTransaction, EndRequest, Holds, NoTx, TxOf, Nothing, Statuses, ghosts
<1>6. CASE LeavePending BY <1>6 DEF LeavePending, EndRequest, Holds, TxOf, Statuses, ghosts
<1> QED BY <1>1, <1>2, <1>3, <1>4, <1>5, <1>6 DEF Ending

(* Writes in flight, failures and crashes.                                 *)
LEMMA TroubleHolds ==
  ASSUME NEW V, 0 \in V, Holds(V), Places, Landing \/ Fault \/ Crash \/ CrashInGap
  PROVE  Holds(V)'
<1>1. ASSUME NEW l \in loose, Land(l) PROVE Holds(V)'
  BY <1>1 DEF Land, Holds
<1>2. ASSUME NEW l \in loose, LandsOnFile(l) PROVE Holds(V)'
  BY <1>2, ThrowHolds DEF LandsOnFile
<1>3. CASE Fault
  <2>1. Throws \/ EndRequest BY <1>3 DEF Fault
  <2>2. loose' \subseteq loose BY <1>3 DEF Fault
  <2>3. UNCHANGED <<disk, win, ghosts>> BY <1>3 DEF Fault
  <2> QED BY <2>1, <2>2, <2>3, EndHolds, ThrowHolds
<1>4. CASE Crash BY <1>4, EndHolds DEF Crash, Dies
<1>5. CASE CrashInGap
  <2>1. UNCHANGED <<win, edits, once>> /\ hist' \subseteq hist /\ req' = NoReq /\ checked' = <<>> /\ loose' = {}
    BY <1>5 DEF CrashInGap, Dies, EndRequest, ghosts
  <2>0. Nothing \in [Doc -> V] BY DEF Nothing
  <2>2. file' \in [Doc -> V] BY <1>5 DEF CrashInGap, Holds
  <2>3. manifest' \in [there : BOOLEAN, entry : [Doc -> V]]
    <3>1. manifest' = manifest \/ manifest' = [there |-> FALSE, entry |-> Nothing] BY <1>5 DEF CrashInGap
    <3>2. manifest \in [there : BOOLEAN, entry : [Doc -> V]] BY DEF Holds
    <3>3. [there |-> FALSE, entry |-> Nothing] \in [there : BOOLEAN, entry : [Doc -> V]] BY <2>0
    <3> QED BY <3>1, <3>2, <3>3
  <2>4. current' \in StateOf(V)
    <3>1. current' = current \/ current' = NoState BY <1>5 DEF CrashInGap
    <3>2. NoState \in StateOf(V) BY <2>0 DEF NoState, StateOf
    <3> QED BY <3>1, <3>2 DEF Holds
  <2>5. tx' \in TxOf(V)
    BY <1>5 DEF CrashInGap, Holds, TxOf, Statuses
  <2> QED BY <2>1, <2>2, <2>3, <2>4, <2>5 DEF Holds
<1> QED BY <1>1, <1>2, <1>3, <1>4, <1>5 DEF Landing

(* Every step keeps the counts.                                            *)
LEMMA NextUsed ==
  ASSUME [Next]_vars
  PROVE  \/ UNCHANGED used
         \/ used.saves < MaxSaves /\ used' = [used EXCEPT !.saves = @ + 1]
         \/ used.edits < MaxEdits /\ used' = [used EXCEPT !.edits = @ + 1]
         \/ \E what \in {"crashes", "gaps", "faults"} : used' = [used EXCEPT ![what] = @ + 1]
<1>1. CASE Windows BY <1>1 DEF Windows, StartLoad, StartSave, Spend
<1>2. CASE Editor BY <1>2 DEF Editor, Edit, Spend
<1>3. CASE Fault \/ Crash \/ CrashInGap BY <1>3 DEF Fault, Crash, CrashInGap, Spend
<1>4. CASE Recovery \/ Preparing
  BY <1>4 DEF Recovery, DropTransaction, BeginRecovery, RecoveryRefuses, FinishLoad, EnterRequest,
              Preparing, RefuseSave, AcceptSave, WriteJournal, WriteHistory, MarkApplying
<1>5. CASE Pass \/ Landing
  BY <1>5 DEF Pass, BeginPass, RefusePass, BatchDone, Documents, CheckDoc, BinDoc, WriteDoc, DocsDone, BinsDone,
              WriteManifest, WriteCurrent, RewriteHistory, Landing, Land, LandsOnFile
<1>6. CASE Ending
  BY <1>6 DEF Ending, Verify, Commit, Answer, MarkRollback, WipeFresh, MarkRolledBack, ClearTransaction, LeavePending
<1>7. CASE UNCHANGED vars BY <1>7 DEF vars
<1> QED BY <1>1, <1>2, <1>3, <1>4, <1>5, <1>6, <1>7 DEF Next

LEMMA NextCounted ==
  ASSUME Counted, [Next]_vars
  PROVE  Counted' /\ NewVersion \in Nat /\ NewVersion' \in Nat /\ NewVersion' >= NewVersion
<1> DEFINE U == [saves : 0 .. MaxSaves, edits : 0 .. MaxEdits, crashes : Nat, gaps : Nat, faults : Nat]
<1>1. used \in U BY DEF Counted
<1>2. CASE UNCHANGED used BY <1>1, <1>2 DEF Counted, NewVersion
<1>3. CASE used.saves < MaxSaves /\ used' = [used EXCEPT !.saves = @ + 1]
  <2>1. used' \in U BY <1>1, <1>3
  <2>2. used'.saves = used.saves + 1 /\ used'.edits = used.edits BY <1>1, <1>3
  <2> QED BY <1>1, <2>1, <2>2 DEF Counted, NewVersion
<1>4. CASE used.edits < MaxEdits /\ used' = [used EXCEPT !.edits = @ + 1]
  <2>1. used' \in U BY <1>1, <1>4
  <2>2. used'.edits = used.edits + 1 /\ used'.saves = used.saves BY <1>1, <1>4
  <2> QED BY <1>1, <2>1, <2>2 DEF Counted, NewVersion
<1>5. CASE \E what \in {"crashes", "gaps", "faults"} : used' = [used EXCEPT ![what] = @ + 1]
  <2>1. used' \in U BY <1>1, <1>5
  <2>2. used'.edits = used.edits /\ used'.saves = used.saves BY <1>1, <1>5
  <2> QED BY <1>1, <2>1, <2>2 DEF Counted, NewVersion
<1> QED BY <1>2, <1>3, <1>4, <1>5, NextUsed

(* A request to save and an edit give out the new version.                 *)
LEMMA GivenOut ==
  ASSUME Counted, Editor \/ \E w \in Window : StartSave(w)
  PROVE  NewVersion \in Nat /\ NewVersion' = NewVersion + 1
<1>1. CASE used' = [used EXCEPT !.saves = @ + 1] BY <1>1 DEF Counted, NewVersion
<1>2. CASE used' = [used EXCEPT !.edits = @ + 1] BY <1>2 DEF Counted, NewVersion
<1>3. NewVersion \in Nat BY DEF Counted, NewVersion
<1> QED BY <1>1, <1>2, <1>3 DEF Editor, Edit, StartSave, Spend

(* Every step leads from one label to the next with the pass and the       *)
(* request that belong there.                                              *)
LEMMA PlacesKept ==
  ASSUME NEW V, Holds(V), Places, [Next]_vars
  PROVE  Places'
<1> USE DEF Places, Waiting, Passing, Saved, Undoing, Modes, SaveModes, UndoModes, Goto
<1>1. ASSUME NEW w \in Window, StartLoad(w) PROVE Places'
  BY <1>1 DEF StartLoad, memory, ghosts, LoadBy, NoReq
<1>2. ASSUME NEW w \in Window, StartSave(w) PROVE Places'
  <2>1. req'.kind = "save" BY <1>2 DEF StartSave
  <2> QED BY <1>2, <2>1 DEF StartSave, ghosts, LoadBy, NoReq
<1>3. CASE Editor BY <1>3 DEF Editor, Edit, memory
<1>4. CASE Recovery
  BY <1>4 DEF Recovery, DropTransaction, BeginRecovery, RecoveryRefuses, FinishLoad, EnterRequest, EndRequest,
              memory, ghosts, LoadBy
<1>5. CASE Preparing
  <2>1. CASE AcceptSave
    <3>1. req \in SaveOf(V) BY <2>1 DEF AcceptSave, Holds
    <3>2. req'.kind = "save" BY <2>1, <3>1 DEF AcceptSave, SaveOf
    <3> QED BY <2>1, <3>2 DEF AcceptSave, ghosts, LoadBy, NoReq
  <2> QED BY <1>5, <2>1 DEF Preparing, RefuseSave, WriteJournal, WriteHistory, MarkApplying, EndRequest, ghosts
<1>6. CASE Throws /\ pc \in InPass \cup {"batch"} /\ UNCHANGED <<stamp, ghosts>>
  BY <1>6 DEF Throws, InPass, ghosts
<1>7. CASE EndRequest /\ UNCHANGED <<stamp, ghosts>>
  BY <1>7 DEF EndRequest, ghosts
<1>8. CASE BeginPass \/ BatchDone \/ DocsDone \/ BinsDone \/ WriteManifest \/ WriteCurrent \/ RewriteHistory
  <2>1. CASE BeginPass BY <2>1 DEF BeginPass, ghosts
  <2>2. CASE BatchDone \/ DocsDone \/ BinsDone BY <2>2 DEF BatchDone, DocsDone, BinsDone, ghosts
  <2>3. CASE WriteManifest BY <2>3 DEF WriteManifest, ghosts
  <2>4. CASE WriteCurrent BY <2>4 DEF WriteCurrent, ghosts
  <2>5. CASE RewriteHistory BY <2>5 DEF RewriteHistory, ghosts
  <2> QED BY <1>8, <2>1, <2>2, <2>3, <2>4, <2>5
<1>9. CASE RefusePass BY <1>6, <1>9 DEF RefusePass, InPass
<1>10. ASSUME NEW d \in Doc, CheckDoc(d) PROVE Places'
  <2>1. CASE Throws BY <1>6, <1>10, <2>1 DEF CheckDoc, InPass
  <2>2. CASE ~ Throws BY <1>10, <2>2 DEF CheckDoc, ghosts
  <2> QED BY <2>1, <2>2
<1>11. ASSUME NEW d \in Doc, BinDoc(d) PROVE Places'
  <2>1. CASE Throws BY <1>6, <1>11, <2>1 DEF BinDoc, InPass
  <2>2. CASE ~ Throws BY <1>11, <2>2 DEF BinDoc, ghosts
  <2> QED BY <2>1, <2>2
<1>12. CASE WriteDoc
  <2>1. lost' \subseteq {"race", "save", "accepted", "rollback"} BY <1>12 DEF WriteDoc, Overwrites
  <2> QED BY <1>12, <2>1 DEF WriteDoc
<1>13. CASE Verify
  <2>1. CASE Throws BY <1>6, <1>13, <2>1 DEF Verify, InPass
  <2>2. CASE ~ Throws BY <1>13, <2>2 DEF Verify, ghosts
  <2> QED BY <2>1, <2>2
<1>14. CASE Commit \/ MarkRollback \/ MarkRolledBack
  BY <1>14 DEF Commit, MarkRollback, MarkRolledBack, ghosts
<1>15. CASE Answer \/ LeavePending
  BY <1>15 DEF Answer, LeavePending, EndRequest, ghosts
<1>16. CASE WipeFresh
  <2>0. \A d \in Doc : Overwrites(d) \subseteq {"race", "save", "accepted", "rollback"} BY DEF Overwrites
  <2>1. lost' \subseteq {"race", "save", "accepted", "rollback"} BY <1>16, <2>0 DEF WipeFresh
  <2> QED BY <1>16, <2>1 DEF WipeFresh
<1>17. CASE ClearTransaction BY <1>17 DEF ClearTransaction, EndRequest, ghosts
<1>18. ASSUME NEW l \in loose, Land(l) PROVE Places'
  BY <1>18 DEF Land
<1>19. ASSUME NEW l \in loose, LandsOnFile(l) PROVE Places'
  BY <1>6, <1>19 DEF LandsOnFile
<1>20. CASE Fault BY <1>6, <1>7, <1>20 DEF Fault
<1>21. CASE Crash \/ CrashInGap BY <1>7, <1>21 DEF Crash, CrashInGap, Dies
<1>22. CASE UNCHANGED vars BY <1>22 DEF vars, memory, ghosts
<1> QED BY <1>1, <1>2, <1>3, <1>4, <1>5, <1>8, <1>9, <1>10, <1>11, <1>12, <1>13, <1>14, <1>15, <1>16, <1>17,
           <1>18, <1>19, <1>20, <1>21, <1>22 DEF Next, Windows, Pass, Documents, Ending, Landing

LEMMA NextSensible == Sensible /\ [Next]_vars => Sensible'
<1> SUFFICES ASSUME Sensible, [Next]_vars PROVE Sensible' OBVIOUS
<1> USE DEF Sensible
<1>1. Counted' BY NextCounted
<1>2. Places' BY PlacesKept
<1>3. Given \subseteq Given' /\ 0 \in Given' /\ 1 \in Given'
  <2>1. NewVersion >= 2 BY DEF NewVersion, Counted
  <2> QED BY <2>1, NextCounted DEF Given
<1>4. PICK V : V = Given' OBVIOUS
<1>5. Holds(V) BY <1>3, <1>4, HoldsMore
<1>6. Holds(V)'
  <2>1. CASE Windows \/ Editor
    <3>1. CASE \E w \in Window : StartLoad(w)
      <4>1. PICK w \in Window : StartLoad(w) BY <3>1
      <4> QED BY <1>3, <1>4, <1>5, <4>1, LoadHolds
    <3>2. CASE Editor \/ \E w \in Window : StartSave(w)
      <4>1. NewVersion \in Given' BY <3>2, GivenOut DEF Given
      <4> QED BY <1>3, <1>4, <1>5, <3>2, <4>1, EnvironmentHolds
    <3> QED BY <2>1, <3>1, <3>2 DEF Windows
  <2>2. CASE Recovery \/ Preparing BY <1>3, <1>4, <1>5, <2>2, RequestHolds
  <2>3. CASE Pass BY <1>3, <1>4, <1>5, <2>3, PassHolds
  <2>4. CASE Ending BY <1>3, <1>4, <1>5, <2>4, EndingHolds
  <2>5. CASE Landing \/ Fault \/ Crash \/ CrashInGap BY <1>3, <1>4, <1>5, <2>5, TroubleHolds
  <2>6. CASE UNCHANGED vars BY <1>5, <2>6 DEF vars, disk, memory, ghosts, Holds
  <2> QED BY <2>1, <2>2, <2>3, <2>4, <2>5, <2>6 DEF Next
<1> QED BY <1>1, <1>2, <1>4, <1>6

LEMMA SensibleTypeOK == Sensible => TypeOK
<1> SUFFICES ASSUME Sensible PROVE TypeOK OBVIOUS
<1>1. Given \subseteq Version BY DEF Sensible, Counted, Given, NewVersion, Version
<1>2. Holds(Version) BY <1>1, HoldsMore DEF Sensible
<1>3. LoadBy \cup SaveOf(Version) \cup {NoReq} \subseteq Requests BY DEF LoadBy, SaveOf, Requests, Versions
<1> QED BY <1>2, <1>3 DEF Sensible, Places, Holds, StateOf, TxOf, TypeOK, Texts, Versions,
                          Waiting, Passing, Saved, Undoing, Modes

(* Every variable of the transaction keeps its type in every reachable     *)
(* state: in particular every version on disk is one that was given out.   *)
THEOREM TypeCorrect == Spec => []TypeOK
<1>1. Spec => []Sensible BY InitSensible, NextSensible, PTL DEF Spec
<1> QED BY <1>1, SensibleTypeOK, PTL

----------------------------------------------------------------------------
(* The files do not vanish under their names. If the workspace may be new, *)
(* nobody edits its files and no operation fails until its first save is   *)
(* through: a write of a batch that has failed may still land when the     *)
(* rest was undone, and without a manifest the code cannot tell its own    *)
(* files from others (README, section 5).                                  *)
Gapless == MaxGaps = 0
Undisturbed == Gapless /\ ({} \in Origins => NewFaults = 0 /\ MaxEdits = 0)

(* The transaction with another status.                                    *)
Marked(s) ==
  [dir |-> tx.dir, status |-> s, desired |-> tx.desired, trash |-> tx.trash,
   undo |-> tx.undo, undoTrash |-> tx.undoTrash, hist |-> tx.hist, fresh |-> tx.fresh]

(* What the steps use of the types.                                        *)
LEMMA Forms ==
  ASSUME Sensible
  PROVE  /\ file \in [Doc -> Nat] /\ manifest.entry \in [Doc -> Nat] /\ current.ref \in [Doc -> Nat]
         /\ tx.desired \in [Doc -> Nat] /\ tx.undo \in [Doc -> Nat]
         /\ Target \in [Doc -> Nat]
         /\ \A s : [tx EXCEPT !.status = s] = Marked(s)
         /\ todo \subseteq Doc
<1>1. Given \subseteq Nat BY DEF Given
<1>2. Holds(Nat) BY <1>1, HoldsMore DEF Sensible
<1>3. tx \in TxOf(Nat)
  BY <1>2 DEF Holds
<1>4. file \in [Doc -> Nat] /\ manifest.entry \in [Doc -> Nat] /\ current.ref \in [Doc -> Nat]
  BY <1>2 DEF Holds, StateOf
<1>5. tx.desired \in [Doc -> Nat] /\ tx.undo \in [Doc -> Nat] BY <1>3 DEF TxOf
<1>6. \A s : [tx EXCEPT !.status = s] = Marked(s) BY <1>3 DEF Marked, TxOf
<1>7. Target \in [Doc -> Nat] BY <1>2, TargetHolds
<1> QED BY <1>4, <1>5, <1>6, <1>7 DEF Sensible, Places

LEMMA Accepts ==
  ASSUME Sensible, AcceptSave
  PROVE  /\ req \in SaveOf(Given)
         /\ tx'.dir /\ tx'.status = "none" /\ tx'.fresh = ~ current.there
         /\ \A d \in Doc : tx'.desired[d] = Desired(d)
         /\ tx'.undo = [d \in Doc |-> IF current.there /\ current.ref[d] # 0 THEN file[d] ELSE 0]
         /\ tx'.undoTrash = current.trash
         /\ tx'.trash \subseteq current.trash \cup
              {<<d, win[req.by].docs[d]>> : d \in {e \in Doc : win[req.by].docs[e] # 0}}
         /\ ~ current.there => tx'.hist \subseteq hist
         /\ current.there =>
              tx'.hist = hist \cup {<<d, tx'.undo[d]>> : d \in Replaced(tx'.undo, tx'.desired, manifest.entry)}
<1>1. Holds(Given) /\ Places BY DEF Sensible
<1>2. 0 \in Given BY DEF Sensible, Counted, Given, NewVersion
<1>3. req \in SaveOf(Given) BY <1>1 DEF AcceptSave, Places, Holds
<1>4. \A d \in Doc : Desired(d) \in Given BY <1>1, <1>2, <1>3 DEF Desired, Holds, StateOf, SaveOf
<1> QED BY <1>1, <1>2, <1>3, <1>4, AcceptedForm

(* How far the journal is at each label, and what a workspace that exists  *)
(* never is: without manifest, or in the middle of a parallel batch.       *)
Orderly ==
  /\ loose = {} /\ manifest.there /\ current.there /\ ~ tx.fresh
  /\ ~ tx.dir => tx = NoTx
  /\ pc = "request" => ~ tx.dir
  /\ pc = "journal" => tx.dir /\ tx.status = "none"
  /\ pc \in {"history", "apply"} => tx.dir /\ tx.status = "prepared"
  /\ mode \in SaveModes => tx.dir /\ tx.status \in {"applying", "committed"}
  /\ mode \in UndoModes => tx.dir /\ tx.status \in {"rollback_pending", "rolled_back"}
  /\ mode \in UndoModes /\ tx.status = "rolled_back" => pc \in {"clear", "pending"}
  /\ pc = "clear" => tx.status = "rolled_back"
  /\ pc = "clean" => tx.status = "committed"
  /\ pc \notin {"batch", "wipe"}

LEMMA InitOrderly == Init /\ manifest.there => Orderly
<1> SUFFICES ASSUME Init, manifest.there PROVE Orderly OBVIOUS
<1>1. manifest.there /\ current.there
  <2>1. PICK established \in Origins :
          /\ manifest = [there |-> established # {}, entry |-> file]
          /\ current = [there |-> established # {}, saved |-> IF established = {} THEN 0 ELSE 1,
                     ref |-> file, trash |-> {}]
    BY DEF Init
  <2> QED BY <2>1
<1> QED BY <1>1 DEF Init, Orderly, NoTx, SaveModes, UndoModes

(* Neither the steps of a first save nor crashes in the gap are possible.  *)
LEMMA Excluded ==
  ASSUME Gapless, Sensible, Orderly
  PROVE  ~ Landing /\ ~ CrashInGap /\ ~ WipeFresh /\ ~ RefusePass /\ ~ BatchDone
  BY DEF Gapless, Sensible, Counted, Orderly, Landing, CrashInGap, WipeFresh, RefusePass, BatchDone

LEMMA OrderlyKept ==
  ASSUME Gapless, Sensible, Orderly, [Next]_vars
  PROVE  Orderly'
<1> USE DEF Orderly, Goto
<1> USE Forms DEF Marked, Places, Waiting, Passing, Saved, Undoing, Modes, SaveModes, UndoModes
<1>0. Places BY DEF Sensible
<1>1. CASE Windows BY <1>0, <1>1 DEF Windows, StartLoad, StartSave, disk, memory
<1>2. CASE Editor BY <1>2 DEF Editor, Edit, memory
<1>3. CASE Recovery
  <2>1. CASE DropTransaction BY <1>0, <2>1 DEF DropTransaction, memory, NoTx
  <2>2. CASE BeginRecovery BY <1>0, <2>2 DEF BeginRecovery
  <2>3. CASE EnterRequest BY <1>0, <2>3 DEF EnterRequest, disk
  <2>4. CASE RecoveryRefuses \/ FinishLoad BY <1>0, <2>4 DEF RecoveryRefuses, FinishLoad, EndRequest, disk
  <2> QED BY <1>3, <2>1, <2>2, <2>3, <2>4 DEF Recovery
<1>4. CASE Preparing
  <2>1. CASE RefuseSave BY <1>0, <2>1 DEF RefuseSave, EndRequest, disk
  <2>2. CASE AcceptSave
    <3>1. tx'.dir /\ tx'.status = "none" /\ ~ tx'.fresh BY <2>2, Accepts
    <3>2. pc' = "journal" /\ UNCHANGED <<manifest, current, mode, loose>> BY <2>2 DEF AcceptSave
    <3>3. mode = "none" BY <1>0, <2>2 DEF AcceptSave
    <3> QED BY <3>1, <3>2, <3>3
  <2>3. CASE WriteJournal BY <1>0, <2>3 DEF WriteJournal
  <2>4. CASE WriteHistory BY <1>0, <2>4 DEF WriteHistory
  <2>5. CASE MarkApplying BY <1>0, <2>5 DEF MarkApplying
  <2> QED BY <1>4, <2>1, <2>2, <2>3, <2>4, <2>5 DEF Preparing
<1>5. CASE Throws /\ pc \in InPass \cup {"batch"} /\ UNCHANGED disk /\ loose' \subseteq loose
  BY <1>0, <1>5 DEF Throws, InPass, disk
<1>6. CASE EndRequest /\ UNCHANGED disk /\ loose' \subseteq loose
  BY <1>0, <1>6 DEF EndRequest, disk
<1>7. CASE BeginPass BY <1>0, <1>7 DEF BeginPass, disk
<1>8. CASE DocsDone \/ BinsDone \/ WriteManifest \/ WriteCurrent \/ RewriteHistory
  <2>1. CASE DocsDone \/ BinsDone BY <1>0, <2>1 DEF DocsDone, BinsDone, disk
  <2>2. CASE WriteManifest BY <1>0, <2>2 DEF WriteManifest
  <2>3. CASE WriteCurrent BY <1>0, <2>3 DEF WriteCurrent
  <2>4. CASE RewriteHistory BY <1>0, <2>4 DEF RewriteHistory
  <2> QED BY <1>8, <2>1, <2>2, <2>3, <2>4
<1>9. ASSUME NEW d \in Doc, CheckDoc(d) PROVE Orderly'
  <2>1. CASE Throws BY <1>5, <1>9, <2>1 DEF CheckDoc, InPass
  <2>2. CASE ~ Throws BY <1>0, <1>9, <2>2 DEF CheckDoc, disk
  <2> QED BY <2>1, <2>2
<1>10. ASSUME NEW d \in Doc, BinDoc(d) PROVE Orderly'
  <2>1. CASE Throws /\ UNCHANGED file BY <1>5, <1>10, <2>1 DEF BinDoc, InPass, disk
  <2>2. CASE UNCHANGED <<pc, mode>> BY <1>0, <1>10, <2>2 DEF BinDoc
  <2> QED BY <1>10, <2>1, <2>2 DEF BinDoc
<1>11. CASE WriteDoc BY <1>0, <1>11 DEF WriteDoc
<1>12. CASE Verify
  <2>1. CASE Throws BY <1>5, <1>12, <2>1 DEF Verify, InPass
  <2>2. CASE ~ Throws BY <1>0, <1>12, <2>2 DEF Verify, disk
  <2> QED BY <2>1, <2>2
<1>13. CASE Commit \/ MarkRollback \/ MarkRolledBack
  BY <1>0, <1>13 DEF Commit, MarkRollback, MarkRolledBack
<1>14. CASE Answer \/ LeavePending \/ ClearTransaction
  <2>1. CASE Answer BY <1>0, <2>1 DEF Answer, EndRequest, NoTx
  <2>2. CASE LeavePending BY <1>0, <2>2 DEF LeavePending, EndRequest
  <2>3. CASE ClearTransaction BY <1>0, <2>3 DEF ClearTransaction, EndRequest, NoTx
  <2> QED BY <1>14, <2>1, <2>2, <2>3
<1>15. CASE Fault BY <1>5, <1>6, <1>15 DEF Fault
<1>16. CASE Crash BY <1>6, <1>16 DEF Crash, Dies
<1>17. CASE UNCHANGED vars BY <1>17 DEF vars, disk, memory
<1> QED BY <1>1, <1>2, <1>3, <1>4, <1>7, <1>8, <1>9, <1>10, <1>11, <1>12, <1>13, <1>14, <1>15, <1>16, <1>17,
           Excluded DEF Next, Pass, Documents, Ending

----------------------------------------------------------------------------
(* What a pass has done by each label                                      *)

(* A document has the version v, or an editor's that came after it: the    *)
(* editor has overwritten v, so v is no text that must survive.            *)
Has(d, v) == file[d] = v \/ (file[d] \in edits /\ <<d, v>> \notin once)

(* manifest.json and current-state.json tell the same story, and the files *)
(* bear it out: what Coherent asks of a workspace at rest.                 *)
Story ==
  /\ current.ref = manifest.entry
  /\ \A d \in Doc : manifest.entry[d] # 0 => Has(d, manifest.entry[d])

(* Only while documents are written or undone may the story be torn; what  *)
(* the journal says then leads to a pass that mends it. The histories that *)
(* a pass will write have all that is there.                               *)
Told ==
  /\ ~ Undoable => Story
  /\ tx.status = "committed" => /\ manifest.entry = tx.desired
                                /\ current.trash = tx.trash /\ hist = tx.hist
  /\ tx.status = "rolled_back" => manifest.entry = tx.undo
  /\ tx.dir => hist \subseteq tx.hist

Written(d) == Has(d, Target[d])

(* A pass goes through the documents it writes and then those it drops:    *)
(* what is not left to do has been done, unless an editor came later.      *)
Ahead ==
  /\ pc \in {"docs", "write"} => \A d \in todo : Target[d] # 0
  /\ pc \in {"docs", "write"} => \A d \in Doc \ todo : Target[d] # 0 => Written(d)
  /\ pc = "write" => checked[1] \in todo
  /\ pc = "bins" => \A d \in todo : Target[d] = 0
  /\ pc \in {"bins", "manifest", "current", "isolated", "verify", "commit", "rolledBack"} =>
       \A d \in Doc : Target[d] # 0 => Written(d)
  /\ pc \in {"current", "isolated", "verify", "commit", "rolledBack"} => manifest.entry = Target
  /\ pc \in {"isolated", "verify", "commit", "rolledBack"} =>
       current.ref = Target /\ current.trash = TargetTrash
  /\ pc \in {"verify", "commit", "rolledBack"} => hist = tx.hist

(* The before-images of the documents that the save replaces.              *)
Images == {<<d, tx.undo[d]>> : d \in Replaced(tx.undo, tx.desired, req.prev)}

(* How the request that is served and its transaction hang together. The   *)
(* fourth: a text that the request replaces and that is still in its file  *)
(* was there when the rollback snapshot was taken.                         *)
Serving == pc \in {"journal", "history", "apply"} \/ mode \in SaveModes
Asked ==
  Serving =>
    /\ manifest.entry \in {req.prev, tx.desired}
    /\ \A d \in Doc \ req.dirty : tx.desired[d] \in {0, req.prev[d]}
    /\ \A d \in Doc \ req.dirty : tx.desired[d] # 0 => Has(d, tx.desired[d])
    /\ \A d \in Doc : req.prev[d] # 0 /\ file[d] = req.prev[d] => file[d] \in {tx.undo[d], tx.desired[d]}
    /\ Images \subseteq tx.hist
    /\ pc \notin {"journal", "history"} => Images \subseteq hist

Steady == Sensible /\ Orderly /\ Told /\ Ahead /\ Asked

(* The steps that only go back, to the next pass or to the end, and the    *)
(* outcomes of the steps that may also go on.                              *)
GivesUp ==
  /\ UNCHANGED <<disk, win, stamp, ghosts>>
  /\ (Throws /\ pc \in InPass) \/ EndRequest
Passes(d) == CheckDoc(d) /\ UNCHANGED pc
Judges(d) == CheckDoc(d) /\ pc' = "write"
Drops(d) == BinDoc(d) /\ UNCHANGED pc
Verifies == Verify /\ pc' = "commit"

LEMMA StepKinds ==
  ASSUME Gapless, Sensible, Orderly, [Next]_vars
  PROVE  \/ Windows \/ Editor
         \/ DropTransaction \/ BeginRecovery \/ FinishLoad \/ EnterRequest
         \/ AcceptSave \/ WriteJournal \/ WriteHistory \/ MarkApplying
         \/ BeginPass \/ DocsDone \/ BinsDone \/ WriteManifest \/ WriteCurrent \/ RewriteHistory \/ WriteDoc
         \/ \E d \in Doc : Passes(d) \/ Judges(d) \/ Drops(d)
         \/ Verifies \/ Commit \/ MarkRollback \/ MarkRolledBack
         \/ Answer \/ LeavePending \/ ClearTransaction
         \/ GivesUp \/ UNCHANGED vars
<1>1. ASSUME NEW d \in Doc, CheckDoc(d) PROVE Passes(d) \/ Judges(d) \/ GivesUp
  BY <1>1 DEF CheckDoc, Passes, Judges, GivesUp, InPass, Goto
<1>2. ASSUME NEW d \in Doc, BinDoc(d) PROVE Drops(d) \/ GivesUp
  BY <1>2 DEF BinDoc, Drops, GivesUp, InPass, Goto, disk
<1>3. Verify => Verifies \/ GivesUp
  BY DEF Verify, Verifies, GivesUp, InPass, Goto
<1>4. RefuseSave \/ RecoveryRefuses => GivesUp
  BY DEF RefuseSave, RecoveryRefuses, GivesUp
<1>5. Fault => GivesUp BY DEF Fault, Orderly, GivesUp
<1>6. Crash => GivesUp BY DEF Crash, Dies, GivesUp
<1> QED BY <1>1, <1>2, <1>3, <1>4, <1>5, <1>6, Excluded
        DEF Next, Recovery, Preparing, Pass, Documents, Ending

LEMMA ThrowsBack ==
  ASSUME Sensible, Throws, pc \in InPass
  PROVE  pc' \in {"begin", "mark", "pending"}
  BY DEF Sensible, Places, Throws, InPass, Goto, Waiting, Modes, SaveModes, UndoModes

LEMMA Outcomes ==
  ASSUME Sensible, NEW d \in Doc
  PROVE  /\ Passes(d) => /\ pc = "docs" /\ pc' = "docs" /\ d \in todo /\ todo' = todo \ {d}
                         /\ Skips(d) \/ file[d] = Target[d]
                         /\ UNCHANGED <<mode, req, checked, disk, loose, win, stamp, used, ghosts>>
         /\ Judges(d) => /\ pc = "docs" /\ pc' = "write" /\ d \in todo /\ checked' = <<d, file[d]>>
                         /\ ~ Skips(d) /\ file[d] # Target[d] /\ ~ IsForeign(d)
                         /\ UNCHANGED <<mode, req, todo, disk, loose, win, stamp, used, ghosts>>
         /\ Drops(d) => /\ pc = "bins" /\ pc' = "bins" /\ d \in todo /\ todo' = todo \ {d}
                        /\ file[d] \in {0, manifest.entry[d]} /\ file' = [file EXCEPT ![d] = 0]
                        /\ UNCHANGED <<mode, req, checked, manifest, current, hist, tx, loose, win, stamp, used, ghosts>>
<1>1. ASSUME Passes(d) PROVE ~ Throws
  BY <1>1, ThrowsBack DEF Passes, CheckDoc, InPass
<1>2. ASSUME Judges(d) PROVE ~ Throws
  BY <1>2, ThrowsBack DEF Judges, CheckDoc, InPass
<1>3. ASSUME Drops(d) PROVE ~ Throws
  BY <1>3, ThrowsBack DEF Drops, BinDoc, InPass
<1>4. Passes(d) => d \in todo /\ pc = "docs" BY DEF Passes, CheckDoc
<1>5. ASSUME Passes(d) PROVE pc' # "write" BY <1>4, <1>5 DEF Passes
<1> QED BY <1>1, <1>2, <1>3, <1>4, <1>5 DEF Passes, Judges, Drops, CheckDoc, BinDoc, Goto

LEMMA InitTold == Init => Told /\ Ahead /\ Asked
<1> SUFFICES ASSUME Init PROVE Told /\ Ahead /\ Asked OBVIOUS
<1>1. Story
  <2>1. PICK established \in Origins :
       /\ file = [d \in Doc |-> IF d \in established THEN 1 ELSE 0]
       /\ manifest = [there |-> established # {}, entry |-> file]
       /\ current = [there |-> established # {}, saved |-> IF established = {} THEN 0 ELSE 1,
                     ref |-> file, trash |-> {}]
    BY DEF Init
  <2> QED BY <2>1 DEF Story, Has
<1> QED BY <1>1 DEF Init, Told, Ahead, Asked, NoTx, Serving, SaveModes

(* What the editor, and the texts that come to be saved, leave of Has.     *)
LEMMA EditHas ==
  ASSUME Sensible, NEW d \in Doc, Edit(d), NEW e \in Doc, NEW v, Has(e, v)
  PROVE  Has(e, v)'
<1>1. file'[e] = (IF e = d THEN NewVersion ELSE file[e]) /\ edits' = edits \cup {NewVersion}
      /\ once' = once \ {<<d, file[d]>>}
  BY Forms DEF Edit
<1> QED BY <1>1 DEF Has

LEMMA ManagedHas ==
  ASSUME NEW d \in Doc, Has(d, manifest.entry[d]), UNCHANGED <<file, manifest, edits>>, once' = once \cup Managed
  PROVE  Has(d, manifest.entry[d])'
<1>1. <<d, manifest.entry[d]>> \in Managed => file[d] = manifest.entry[d] BY DEF Managed
<1> QED BY <1>1 DEF Has


LEMMA AheadKept ==
  ASSUME Gapless, Steady, [Next]_vars
  PROVE  Ahead'
<1> USE DEF Ahead, Goto, TargetTrash
<1>0. Places /\ Orderly /\ Ahead /\ Asked BY DEF Steady, Sensible
<1>1. CASE Windows BY <1>0, <1>1 DEF Windows, StartLoad, StartSave, memory
<1>2. ASSUME NEW d \in Doc, Edit(d) PROVE Ahead'
  <2>1. UNCHANGED <<memory, tx, manifest, current, hist>> BY <1>2 DEF Edit
  <2>3. Target' = Target BY <2>1 DEF Target, memory
  <2>4. ASSUME NEW e \in Doc, Written(e) PROVE Written(e)'
    <3>1. PICK v : v = Target[e] OBVIOUS
    <3>2. Has(e, v)' BY <1>2, <2>4, <3>1, EditHas DEF Written, Steady
    <3> QED BY <2>3, <3>1, <3>2 DEF Written
  <2> QED BY <1>0, <2>1, <2>3, <2>4 DEF memory
<1>3. CASE DropTransaction \/ BeginRecovery \/ FinishLoad \/ EnterRequest
  BY <1>0, <1>3 DEF DropTransaction, BeginRecovery, FinishLoad, EnterRequest, EndRequest, memory
<1>4. CASE AcceptSave \/ WriteJournal \/ WriteHistory \/ MarkApplying
  BY <1>4 DEF AcceptSave, WriteJournal, WriteHistory, MarkApplying
<1>5. CASE BeginPass
  BY <1>0, <1>5 DEF BeginPass, Target, Orderly, disk
<1>6. CASE DocsDone
  BY <1>0, <1>6 DEF DocsDone, Target, Written, Has, disk, ghosts
<1>7. CASE BinsDone BY <1>0, <1>7 DEF BinsDone, Target, Written, Has, disk, ghosts
<1>8. CASE WriteManifest BY <1>0, <1>8 DEF WriteManifest, Target, Written, Has, ghosts
<1>9. CASE WriteCurrent \/ RewriteHistory
  <2>1. CASE WriteCurrent BY <1>0, <2>1 DEF WriteCurrent, Target, Written, Has, ghosts
  <2>2. CASE RewriteHistory BY <1>0, <2>2 DEF RewriteHistory, Target, Written, Has, ghosts
  <2> QED BY <1>9, <2>1, <2>2
<1>10. CASE WriteDoc
  <2>1. checked[1] \in Doc /\ checked[1] \in todo BY <1>0, <1>10, Forms DEF WriteDoc, Steady
  <2>2. Target' = Target /\ UNCHANGED edits /\ todo' = todo \ {checked[1]} /\ pc' = "docs"
    BY <1>10 DEF WriteDoc, Target
  <2>3. \A e \in Doc : file'[e] = IF e = checked[1] THEN Target[e] ELSE file[e]
    BY <1>10, <2>1, Forms DEF WriteDoc, Steady
  <2> QED BY <1>0, <1>10, <2>1, <2>2, <2>3 DEF WriteDoc, Written, Has
<1>11. ASSUME NEW d \in Doc, Passes(d) PROVE Ahead'
  <2>1. Target' = Target /\ UNCHANGED <<file, edits, once>> /\ todo' = todo \ {d} /\ pc' = "docs" /\ pc = "docs" /\ d \in todo
    BY <1>11, Outcomes DEF Target, disk, ghosts, Steady
  <2>2. Written(d)
    <3>1. CASE file[d] = Target[d] BY <3>1 DEF Written, Has
    <3>2. CASE Skips(d)
      BY <1>0, <2>1, <3>2 DEF Skips, Asked, Serving, Written, Target
    <3> QED BY <1>11, <3>1, <3>2, Outcomes DEF Steady
  <2> QED BY <1>0, <2>1, <2>2 DEF Written, Has
<1>12. ASSUME NEW d \in Doc, Judges(d) PROVE Ahead'
  BY <1>0, <1>12, Outcomes DEF Target, Written, Has, disk, ghosts, Steady
<1>13. ASSUME NEW d \in Doc, Drops(d) PROVE Ahead'
  <2>1. Target' = Target /\ UNCHANGED <<edits, once>> /\ todo' = todo \ {d} /\ UNCHANGED pc /\ pc = "bins" /\ d \in todo
    BY <1>13, Outcomes DEF Target, ghosts, Steady
  <2>2. \A e \in Doc : e # d => file'[e] = file[e]
    BY <1>13, Outcomes, Forms DEF Steady
  <2> QED BY <1>0, <2>1, <2>2 DEF Written, Has
<1>14. CASE Verifies
  <2>1. ~ Throws BY <1>14, ThrowsBack DEF Verifies, Verify, InPass, Steady
  <2> QED BY <1>0, <1>14, <2>1 DEF Verifies, Verify, Target, Written, Has, disk, ghosts
<1>15. CASE Commit \/ MarkRollback \/ MarkRolledBack
  BY <1>15 DEF Commit, MarkRollback, MarkRolledBack
<1>16. CASE Answer \/ LeavePending \/ ClearTransaction
  BY <1>16 DEF Answer, LeavePending, ClearTransaction, EndRequest
<1>17. CASE GivesUp BY <1>17, ThrowsBack DEF GivesUp, EndRequest, Steady
<1>18. CASE UNCHANGED vars BY <1>0, <1>18 DEF vars, disk, memory, ghosts, Target, Written, Has
<1> QED BY <1>1, <1>2, <1>3, <1>4, <1>5, <1>6, <1>7, <1>8, <1>9, <1>10, <1>11, <1>12, <1>13, <1>14, <1>15, <1>16,
           <1>17, <1>18, StepKinds DEF Editor, Steady

LEMMA ToldKept ==
  ASSUME Gapless, Steady, [Next]_vars
  PROVE  Told'
<1> USE DEF Told, Undoable
<1>0. Places /\ Orderly /\ Told /\ Ahead /\ Asked BY DEF Steady, Sensible
<1>1. CASE Windows \/ GivesUp \/ DocsDone \/ BinsDone \/ BeginPass \/ EnterRequest \/ FinishLoad \/ UNCHANGED vars
  <2>1. UNCHANGED <<disk, ghosts>>
    BY <1>1 DEF Windows, StartLoad, StartSave, GivesUp, DocsDone, BinsDone, BeginPass, EnterRequest, FinishLoad, vars
  <2> QED BY <1>0, <2>1 DEF disk, ghosts, Story, Has
<1>2. ASSUME NEW d \in Doc, Passes(d) \/ Judges(d) PROVE Told'
  <2>1. UNCHANGED <<disk, ghosts>> BY <1>2, Outcomes DEF Steady
  <2> QED BY <1>0, <2>1 DEF disk, ghosts, Story, Has
<1>3. CASE Verifies
  <2>1. UNCHANGED <<disk, ghosts>> BY <1>3 DEF Verifies, Verify
  <2> QED BY <1>0, <2>1 DEF disk, ghosts, Story, Has
<1>4. ASSUME NEW d \in Doc, Edit(d) PROVE Told'
  <2>1. UNCHANGED <<tx, manifest, current, hist>> BY <1>4 DEF Edit
  <2>2. ASSUME NEW e \in Doc, Has(e, manifest.entry[e]) PROVE Has(e, manifest.entry[e])'
    <3>1. PICK v : v = manifest.entry[e] OBVIOUS
    <3>2. Has(e, v)' BY <1>4, <2>2, <3>1, EditHas DEF Steady
    <3> QED BY <2>1, <3>1, <3>2
  <2>3. Story => Story' BY <2>1, <2>2 DEF Story
  <2> QED BY <1>0, <2>1, <2>3
<1>5. CASE DropTransaction
  <2>1. Story /\ tx' = NoTx /\ UNCHANGED <<file, manifest, current, edits>> /\ once' \in {once, once \cup Managed}
    BY <1>0, <1>5 DEF DropTransaction
  <2>2. Story' BY <2>1, ManagedHas DEF Story, Has
  <2> QED BY <2>1, <2>2 DEF NoTx
<1>6. CASE BeginRecovery BY <1>0, <1>6, Forms DEF BeginRecovery, Marked, Steady
<1>7. CASE AcceptSave
  <2>1. tx'.status = "none" /\ hist \subseteq tx'.hist BY <1>0, <1>7, Accepts DEF Orderly, Steady
  <2>2. Story /\ UNCHANGED <<file, manifest, current, hist, ghosts>>
    BY <1>0, <1>7 DEF AcceptSave, Orderly, NoTx
  <2> QED BY <2>1, <2>2 DEF Story, Has, ghosts
<1>8. CASE WriteJournal
  BY <1>0, <1>8, Forms DEF WriteJournal, Orderly, Marked, Story, Has, ghosts, Steady
<1>9. CASE WriteHistory
  BY <1>0, <1>9 DEF WriteHistory, Orderly, Story, Has, ghosts
<1>10. CASE MarkApplying BY <1>0, <1>10, Forms DEF MarkApplying, Marked, Steady
<1>11. CASE WriteManifest
  <2>1. tx.status # "rolled_back" /\ (tx.status = "committed" => mode \in SaveModes)
    BY <1>0, <1>11 DEF WriteManifest, Orderly, Places, Waiting, Modes
  <2>2. tx.status = "committed" => manifest' = [there |-> TRUE, entry |-> manifest.entry]
    BY <1>0, <1>11, <2>1 DEF WriteManifest, Target
  <2>3. tx.status \notin {"applying", "rollback_pending"} => tx.status = "committed"
    BY <1>0, <1>11 DEF WriteManifest, Orderly, Places, Waiting, Modes
  <2> QED BY <1>0, <1>11, <2>1, <2>2, <2>3 DEF WriteManifest, Story, Has, ghosts
<1>12. CASE WriteCurrent \/ RewriteHistory
  <2>1. tx.status # "rolled_back" /\ (tx.status \notin {"applying", "rollback_pending"} => tx.status = "committed")
        /\ (tx.status = "committed" => mode \in SaveModes) /\ tx.dir
    BY <1>0, <1>12 DEF WriteCurrent, RewriteHistory, Orderly, Places, Waiting, Modes
  <2>2. manifest.entry = Target BY <1>0, <1>12 DEF WriteCurrent, RewriteHistory, Ahead
  <2>3. CASE WriteCurrent BY <1>0, <2>1, <2>2, <2>3 DEF WriteCurrent, Target, TargetTrash, Story, Has, ghosts
  <2>4. CASE RewriteHistory BY <1>0, <2>1, <2>2, <2>4 DEF RewriteHistory, Story, Has, ghosts
  <2> QED BY <1>12, <2>3, <2>4
<1>13. CASE WriteDoc
  <2>1. checked[1] \in Doc /\ Target[checked[1]] # 0 BY <1>0, <1>13, Forms DEF WriteDoc, Steady, Ahead
  <2>2. tx.status # "rolled_back" /\ (tx.status \notin {"applying", "rollback_pending"} => tx.status = "committed")
        /\ (tx.status = "committed" => mode \in SaveModes)
    BY <1>0, <1>13 DEF WriteDoc, Orderly, Places, Waiting, Modes
  <2>3. \A e \in Doc : file'[e] = IF e = checked[1] THEN Target[e] ELSE file[e]
    BY <1>13, <2>1, Forms DEF WriteDoc, Steady
  <2>4. tx.status = "committed" => Target = manifest.entry BY <1>0, <2>2 DEF Target
  <2> QED BY <1>0, <1>13, <2>1, <2>2, <2>3, <2>4 DEF WriteDoc, Story, Has
<1>14. ASSUME NEW d \in Doc, Drops(d) PROVE Told'
  <2>1. pc = "bins" /\ Target[d] = 0 /\ UNCHANGED <<tx, manifest, current, hist, edits, once>>
    BY <1>0, <1>14, Outcomes DEF Ahead, Steady, ghosts
  <2>2. \A e \in Doc : e # d => file'[e] = file[e] BY <1>14, Outcomes, Forms DEF Steady
  <2>3. tx.status # "rolled_back" /\ (tx.status \notin {"applying", "rollback_pending"} => tx.status = "committed")
        /\ (tx.status = "committed" => mode \in SaveModes)
    BY <1>0, <2>1 DEF Orderly, Places, Waiting, Modes
  <2>4. tx.status = "committed" => manifest.entry[d] = 0 BY <1>0, <2>1, <2>3 DEF Target
  <2> QED BY <1>0, <2>1, <2>2, <2>3, <2>4 DEF Story, Has
<1>15. CASE Commit
  <2>1. manifest.entry = tx.desired /\ Story /\ current.trash = tx.trash /\ hist = tx.hist
    BY <1>0, <1>15 DEF Commit, Ahead, Target, TargetTrash, Places, Saved, Story, Written
  <2>2. once' \subseteq once /\ UNCHANGED <<file, manifest, current, hist, edits>> BY <1>15 DEF Commit
  <2>3. Story' BY <2>1, <2>2 DEF Story, Has
  <2> QED BY <1>15, <2>1, <2>2, <2>3, Forms DEF Commit, Marked, Steady
<1>16. CASE MarkRollback \/ LeavePending
  <2>1. tx' = [tx EXCEPT !.status = "rollback_pending"] /\ UNCHANGED hist
    BY <1>16 DEF MarkRollback, LeavePending
  <2>2. tx'.status = "rollback_pending" /\ tx'.dir = tx.dir /\ tx'.hist = tx.hist BY <2>1, Forms DEF Marked, Steady
  <2> QED BY <1>0, <2>1, <2>2
<1>17. CASE MarkRolledBack
  <2>1. manifest.entry = tx.undo /\ Story
    BY <1>0, <1>17 DEF MarkRolledBack, Ahead, Target, Places, Undoing, UndoModes, SaveModes, Story, Written
  <2> QED BY <1>17, <2>1, Forms DEF MarkRolledBack, Marked, Story, Has, ghosts, Steady
<1>18. CASE Answer
  <2>1. Story /\ tx' = NoTx /\ UNCHANGED <<file, manifest, current, edits>> /\ once' = once \cup Managed
    BY <1>0, <1>18 DEF Answer, Orderly
  <2>2. Story' BY <2>1, ManagedHas DEF Story
  <2> QED BY <2>1, <2>2 DEF NoTx
<1>19. CASE ClearTransaction
  BY <1>0, <1>19 DEF ClearTransaction, NoTx, Orderly, Story, Has, ghosts
<1> QED BY <1>1, <1>2, <1>3, <1>4, <1>5, <1>6, <1>7, <1>8, <1>9, <1>10, <1>11, <1>12, <1>13, <1>14, <1>15, <1>16,
           <1>17, <1>18, <1>19, StepKinds DEF Editor, Steady

(* What a step that neither begins nor prepares a request and changes no   *)
(* file leaves of Asked.                                                   *)
SameSnapshots == tx'.desired = tx.desired /\ tx'.undo = tx.undo /\ tx'.hist = tx.hist

LEMMA ImagesSame ==
  ASSUME SameSnapshots, UNCHANGED req PROVE Images' = Images
  BY DEF SameSnapshots, Images, Replaced

LEMMA AskedFrame ==
  ASSUME Asked, UNCHANGED <<file, manifest, edits>>, once' \subseteq once, hist \subseteq hist', SameSnapshots,
         Serving' => /\ Serving /\ UNCHANGED req
                     /\ pc' \notin {"journal", "history"} => pc \notin {"journal", "history"}
  PROVE  Asked'
<1> SUFFICES ASSUME Serving' PROVE Asked' BY DEF Asked
<1>1. Images' = Images BY ImagesSame
<1>2. \A d \in Doc : \A v : Has(d, v) => Has(d, v)' BY DEF Has
<1> QED BY <1>1, <1>2 DEF Asked, SameSnapshots

LEMMA AskedKept ==
  ASSUME Gapless, Steady, [Next]_vars
  PROVE  Asked'
<1> USE DEF Serving
<1>0. Places /\ Orderly /\ Told /\ Ahead /\ Asked /\ Holds(Given) BY DEF Steady, Sensible
<1>1. CASE Windows \/ FinishLoad \/ EnterRequest \/ DropTransaction \/ BeginRecovery
  <2>1. ~ Serving'
    BY <1>0, <1>1 DEF Windows, StartLoad, StartSave, FinishLoad, EnterRequest, DropTransaction, BeginRecovery,
                      EndRequest, memory, Places, Waiting, Modes, Goto, SaveModes
  <2> QED BY <2>1 DEF Asked
<1>2. ASSUME NEW d \in Doc, Edit(d) PROVE Asked'
  <2>1. UNCHANGED <<memory, tx, manifest, hist>> BY <1>2 DEF Edit
  <2>2. \A e \in Doc : file'[e] \in {file[e], NewVersion}
    BY <1>2, Forms DEF Edit, Steady
  <2>3. Serving => \A e \in Doc : req.prev[e] # NewVersion
    <3>1. NewVersion \notin Given BY NextCounted DEF Given, Steady, Sensible
    <3>2. Serving => req \in SaveOf(Given)
      BY <1>0 DEF Places, Holds, Waiting, Modes, SaveModes
    <3> QED BY <3>1, <3>2 DEF SaveOf
  <2>4. Images' = Images BY <2>1, ImagesSame DEF SameSnapshots, memory
  <2>5. ASSUME NEW e \in Doc, Has(e, tx.desired[e]) PROVE Has(e, tx.desired[e])'
    <3>1. PICK v : v = tx.desired[e] OBVIOUS
    <3>2. Has(e, v)' BY <1>2, <2>5, <3>1, EditHas DEF Steady
    <3> QED BY <2>1, <3>1, <3>2
  <2> QED BY <1>0, <2>1, <2>2, <2>3, <2>4, <2>5 DEF Asked, memory
<1>3. CASE AcceptSave
  <2>1. pc = "request" /\ ~ tx.dir /\ Story BY <1>0, <1>3 DEF AcceptSave, Orderly, Told, Undoable, NoTx
  <2>2. req \in SaveOf(Given) BY <1>0, <1>3 DEF AcceptSave, Places, Holds
  <2>3. req'.prev = manifest.entry /\ req'.dirty = req.dirty /\ req.dirty \subseteq Doc
    BY <1>3, <2>2 DEF AcceptSave, SaveOf
  <2>4. /\ \A d \in Doc : tx'.desired[d] = Desired(d) /\ tx'.undo[d] = IF current.ref[d] # 0 THEN file[d] ELSE 0
        /\ tx'.hist = hist \cup {<<d, tx'.undo[d]>> : d \in Replaced(tx'.undo, tx'.desired, manifest.entry)}
    BY <1>0, <1>3, Accepts DEF Orderly, Steady
  <2>5. \A d \in Doc \ req.dirty : Desired(d) \in {0, manifest.entry[d]} BY DEF Desired
  <2>6. pc' = "journal" /\ UNCHANGED <<file, manifest, edits, once>> BY <1>3 DEF AcceptSave, Goto, ghosts
  <2>7. Images' = {<<d, tx'.undo[d]>> : d \in Replaced(tx'.undo, tx'.desired, manifest.entry)}
    BY <2>3 DEF Images, Replaced
  <2>8. ASSUME NEW d \in Doc \ req.dirty, tx'.desired[d] # 0 PROVE Has(d, tx.desired[d])'
    <3>1. tx'.desired[d] = manifest.entry[d] BY <2>4, <2>5, <2>8
    <3>2. Has(d, manifest.entry[d]) BY <2>1, <2>8, <3>1 DEF Story
    <3> QED BY <2>6, <3>1, <3>2 DEF Has
  <2>9. ASSUME NEW d \in Doc, manifest.entry[d] # 0, file[d] = manifest.entry[d] PROVE tx'.undo[d] = file[d]
    BY <2>1, <2>4, <2>9 DEF Story
  <2> QED BY <2>3, <2>4, <2>5, <2>6, <2>7, <2>8, <2>9 DEF Asked
<1>4. CASE WriteJournal
  <2>1. SameSnapshots BY <1>4, Forms DEF WriteJournal, Marked, SameSnapshots, Steady
  <2>2. UNCHANGED <<file, manifest, edits, once, hist, mode, req>> /\ pc = "journal" /\ pc' \in {"history", "apply"}
    BY <1>4 DEF WriteJournal, Goto, ghosts
  <2>3. pc' = "apply" => Images = {} BY <1>4 DEF WriteJournal, Goto, Images
  <2>4. Images' = Images BY <2>1, <2>2, ImagesSame
  <2>5. \A d \in Doc : \A v : Has(d, v) => Has(d, v)' BY <2>2 DEF Has
  <2> QED BY <1>0, <2>1, <2>2, <2>3, <2>4, <2>5 DEF Asked, SameSnapshots
<1>5. CASE WriteHistory
  <2>1. UNCHANGED <<file, manifest, edits, once, tx, mode, req>> /\ pc = "history" /\ hist' = tx.hist
    BY <1>5 DEF WriteHistory, ghosts
  <2>2. Images' = Images BY <2>1, ImagesSame DEF SameSnapshots
  <2>3. \A d \in Doc : \A v : Has(d, v) => Has(d, v)' BY <2>1 DEF Has
  <2> QED BY <1>0, <2>1, <2>2, <2>3 DEF Asked
<1>6. CASE MarkApplying
  <2>1. SameSnapshots BY <1>6, Forms DEF MarkApplying, Marked, SameSnapshots, Steady
  <2> QED BY <1>0, <1>6, <2>1, AskedFrame DEF MarkApplying, ghosts, Goto
<1>7. CASE BeginPass \/ DocsDone \/ BinsDone
  <2>1. UNCHANGED <<disk, ghosts, mode, req>> /\ pc \in {"begin", "docs", "bins"} /\ mode' = mode
    BY <1>7 DEF BeginPass, DocsDone, BinsDone
  <2> QED BY <1>0, <1>7, <2>1, AskedFrame DEF BeginPass, DocsDone, BinsDone, disk, ghosts, Goto, SameSnapshots
<1>8. CASE WriteManifest
  <2>1. UNCHANGED <<file, hist, tx, mode, req, edits, once>> /\ pc = "manifest" /\ pc' = "current"
        /\ (mode \in SaveModes => manifest'.entry = tx.desired)
    BY <1>8 DEF WriteManifest, Target, ghosts, Goto
  <2>2. Images' = Images BY <2>1, ImagesSame DEF SameSnapshots
  <2>3. \A d \in Doc : \A v : Has(d, v) => Has(d, v)' BY <2>1 DEF Has
  <2> QED BY <1>0, <2>1, <2>2, <2>3 DEF Asked
<1>9. CASE WriteCurrent \/ RewriteHistory
  <2>1. UNCHANGED <<file, manifest, tx, mode, req, edits, once>> /\ pc \notin {"journal", "history"}
        /\ pc' \notin {"journal", "history", "apply"} /\ hist' \in {hist, tx.hist}
    BY <1>9 DEF WriteCurrent, RewriteHistory, ghosts, Goto
  <2>2. Serving' => Serving BY <2>1
  <2>3. mode \in SaveModes => hist \subseteq hist' BY <1>0, <2>1 DEF Orderly, Told
  <2> QED BY <1>0, <2>1, <2>2, <2>3, AskedFrame DEF SameSnapshots, Asked
<1>10. CASE WriteDoc
  <2>1. checked[1] \in Doc /\ Target[checked[1]] # 0 BY <1>0, <1>10, Forms DEF WriteDoc, Steady, Ahead
  <2>2. \A e \in Doc : file'[e] = IF e = checked[1] THEN Target[e] ELSE file[e]
    BY <1>10, <2>1, Forms DEF WriteDoc, Steady
  <2>3. mode \in SaveModes => Target = tx.desired BY DEF Target
  <2>4. pc = "write" /\ pc' = "docs" /\ UNCHANGED <<mode, req, tx, manifest, hist, edits, once>> BY <1>10 DEF WriteDoc, Goto
  <2>5. Images' = Images BY <2>4, ImagesSame DEF SameSnapshots
  <2>6. mode \in SaveModes => \A d \in Doc : Has(d, tx.desired[d]) => Has(d, tx.desired[d])'
    BY <2>2, <2>3, <2>4 DEF Has
  <2> QED BY <1>0, <2>1, <2>2, <2>3, <2>4, <2>5, <2>6 DEF Asked
<1>11. ASSUME NEW d \in Doc, Passes(d) \/ Judges(d) PROVE Asked'
  BY <1>0, <1>11, Outcomes, AskedFrame DEF disk, ghosts, Steady, SameSnapshots
<1>12. ASSUME NEW d \in Doc, Drops(d) PROVE Asked'
  <2>1. Target[d] = 0 /\ UNCHANGED <<pc, mode, req, tx, manifest, hist, edits, once>> /\ pc = "bins"
    BY <1>0, <1>12, Outcomes DEF Ahead, Steady, ghosts
  <2>2. \A e \in Doc : file'[e] = IF e = d THEN 0 ELSE file[e] BY <1>12, Outcomes, Forms DEF Steady
  <2>3. mode \in SaveModes => Target = tx.desired BY DEF Target
  <2>4. Images' = Images BY <2>1, ImagesSame DEF SameSnapshots
  <2>5. mode \in SaveModes => \A e \in Doc : tx.desired[e] # 0 /\ Has(e, tx.desired[e]) => Has(e, tx.desired[e])'
    BY <2>1, <2>2, <2>3 DEF Has
  <2> QED BY <1>0, <2>1, <2>2, <2>3, <2>4, <2>5 DEF Asked
<1>13. CASE Verifies
  <2>1. ~ Throws BY <1>13, ThrowsBack DEF Verifies, Verify, InPass, Steady
  <2> QED BY <1>0, <1>13, <2>1, AskedFrame DEF Verifies, Verify, disk, ghosts, SameSnapshots
<1>14. CASE Commit \/ MarkRollback \/ MarkRolledBack
  <2>1. SameSnapshots
    BY <1>14, Forms DEF Commit, MarkRollback, MarkRolledBack, Marked, SameSnapshots, Steady
  <2>2. Serving' => Serving /\ UNCHANGED req
    BY <1>14 DEF Commit, MarkRollback, MarkRolledBack, Goto, SaveModes
  <2> QED BY <1>0, <1>14, <2>1, <2>2, AskedFrame DEF Commit, MarkRollback, MarkRolledBack, Goto, ghosts
<1>15. CASE Answer \/ LeavePending \/ ClearTransaction
  <2>1. ~ Serving'
    BY <1>0, <1>15 DEF Answer, LeavePending, ClearTransaction, EndRequest, Goto, SaveModes, UndoModes, Places, Undoing
  <2> QED BY <2>1 DEF Asked
<1>16. CASE GivesUp
  <2>1. CASE EndRequest
    <3>1. ~ Serving' BY <2>1 DEF EndRequest, Goto, SaveModes
    <3> QED BY <3>1 DEF Asked
  <2>2. CASE Throws /\ pc \in InPass
    <3>1. mode' \in SaveModes => mode \in SaveModes
      BY <1>0, <2>2 DEF Throws, InPass, SaveModes, UndoModes, Places, Waiting, Modes, Goto
    <3> QED BY <1>0, <1>16, <2>2, <3>1, ThrowsBack, AskedFrame 
        DEF GivesUp, disk, ghosts, Throws, Steady, InPass, SameSnapshots
  <2> QED BY <1>16, <2>1, <2>2 DEF GivesUp
<1>17. CASE UNCHANGED vars BY <1>0, <1>17, AskedFrame DEF vars, disk, memory, ghosts, SameSnapshots
<1> QED BY <1>1, <1>2, <1>3, <1>4, <1>5, <1>6, <1>7, <1>8, <1>9, <1>10, <1>11, <1>12, <1>13, <1>14, <1>15, <1>16,
           <1>17, StepKinds DEF Editor, Steady

LEMMA InitSteady == Init /\ manifest.there => Steady
  BY InitSensible, InitOrderly, InitTold DEF Steady

LEMMA NextSteady == ASSUME Gapless PROVE Steady /\ [Next]_vars => Steady'
<1> SUFFICES ASSUME Steady, [Next]_vars PROVE Steady' OBVIOUS
<1>1. Sensible' /\ Orderly' BY NextSensible, OrderlyKept DEF Steady
<1>2. Told' /\ Ahead' /\ Asked' BY ToldKept, AheadKept, AskedKept
<1> QED BY <1>1, <1>2 DEF Steady

----------------------------------------------------------------------------
(* The first save of a workspace that is new                               *)

Untouched ==
  /\ file = Nothing /\ ~ manifest.there /\ manifest.entry = Nothing
  /\ ~ current.there /\ current.ref = Nothing
Whole ==
  /\ file = tx.desired /\ manifest.there /\ manifest.entry = tx.desired
  /\ current.there /\ current.ref = tx.desired /\ current.saved \in 1 .. stamp

(* Nothing was saved yet, so nothing was loaded, and nothing can be lost.  *)
Unsaved ==
  /\ MaxEdits = 0 /\ NewFaults = 0
  /\ edits = {} /\ lost = {} /\ once = {}
  /\ \A w \in Window : win[w] = Blank
  /\ req.kind = "save" => req.strict /\ ~ req.delta

(* How far the first transaction is: up to "applying" nothing was touched, *)
(* then each file is missing or has its text, and what a crash leaves is   *)
(* wiped; with "committed" everything is there.                            *)
Begun ==
  /\ tx = NoTx \/ (tx.dir /\ tx.fresh /\ tx.undo = Nothing)
  /\ pc # "batch" => loose = {}
  /\ pc = "request" => tx = NoTx
  /\ pc = "journal" => tx.dir /\ tx.status = "none"
  /\ pc = "apply" => tx.dir /\ tx.status = "prepared"
  /\ pc # "history"
  /\ mode \in SaveModes =>
       /\ mode = "first" /\ tx.dir /\ tx.status = IF pc = "clean" THEN "committed" ELSE "applying"
       /\ pc \in {"begin", "batch", "manifest", "current", "isolated", "verify", "commit", "clean"}
  /\ mode \in UndoModes =>
       /\ mode = "recovery" /\ tx.dir /\ tx.status = IF pc = "clear" THEN "rolled_back" ELSE "rollback_pending"
       /\ pc \in {"begin", "rolledBack", "clear"}
  /\ tx.status \in {"none", "prepared", "rolled_back"} => Untouched
  /\ pc = "rolledBack" \/ (pc = "begin" /\ mode = "first") => Untouched
  /\ tx.status \in {"applying", "rollback_pending"} => \A d \in Doc : file[d] \in {0, tx.desired[d]}
  /\ pc \in {"batch", "manifest"} => ~ manifest.there /\ ~ current.there
  /\ pc = "batch" => /\ loose = {<<d, tx.desired[d], "first">> : d \in todo}
                     /\ \A d \in Doc : file[d] = IF d \in todo THEN 0 ELSE tx.desired[d]
  /\ pc \in {"manifest", "current"} => file = tx.desired
  /\ pc = "current" => manifest.there /\ manifest.entry = tx.desired
  /\ pc \in {"isolated", "verify", "commit"} \/ tx.status = "committed" => Whole

Fresh == Sensible /\ Unsaved /\ Begun

LEMMA WindowForms ==
  ASSUME Sensible
  PROVE  /\ win \in [Window -> [saved : Nat, docs : [Doc -> Given], ext : [Doc -> Given], seen : [Doc -> Given]]]
         /\ current.ref \in [Doc -> Given] /\ manifest.entry \in [Doc -> Given]
         /\ file \in [Doc -> Given] /\ current.saved \in Nat /\ stamp \in Nat
  BY DEF Sensible, Holds, StateOf, Places

LEMMA InitFresh == ASSUME Undisturbed PROVE Init /\ ~ manifest.there => Fresh
<1> SUFFICES ASSUME Init, ~ manifest.there PROVE Fresh OBVIOUS
<1>1. PICK established \in Origins :
       /\ file = [d \in Doc |-> IF d \in established THEN 1 ELSE 0]
       /\ manifest = [there |-> established # {}, entry |-> file]
       /\ current = [there |-> established # {}, saved |-> IF established = {} THEN 0 ELSE 1,
                     ref |-> file, trash |-> {}]
       /\ once = {<<d, 1>> : d \in established}
  BY DEF Init
<1>2. established = {} BY <1>1
<1>3. NewFaults = 0 /\ MaxEdits = 0 BY <1>1, <1>2 DEF Undisturbed
<1>4. Untouched BY <1>1, <1>2 DEF Untouched, Nothing
<1>5. Unsaved BY <1>1, <1>2, <1>3 DEF Init, Unsaved, NoReq
<1>6. Begun BY <1>4 DEF Init, Begun, NoTx, SaveModes, UndoModes
<1> QED BY <1>5, <1>6, InitSensible DEF Fresh

(* The first save is through, by its answer or because the recovery found  *)
(* "committed": from then on the workspace is one that exists.             *)
Opened ==
  /\ Sensible /\ pc \in {"idle", "recover"} /\ loose = {} /\ tx = NoTx
  /\ manifest.there /\ current.there /\ current.saved \in 1 .. stamp
  /\ manifest.entry = file /\ current.ref = file
  /\ edits = {} /\ lost = {} /\ once \subseteq Managed
  /\ \A w \in Window : win[w].saved = 0 \/ (win[w].saved = current.saved /\ win[w].docs = current.ref)
  /\ req.kind = "save" => req.strict

LEMMA OpenedSteady == Opened => Steady
<1> SUFFICES ASSUME Opened PROVE Steady OBVIOUS
<1>1. mode = "none" BY DEF Opened, Sensible, Places, Waiting
<1>2. Orderly BY <1>1 DEF Opened, Orderly, NoTx, SaveModes, UndoModes
<1>3. Told BY DEF Opened, Told, Story, Has, NoTx
<1>4. Ahead /\ Asked BY <1>1 DEF Opened, Ahead, Asked, Serving, SaveModes
<1> QED BY <1>2, <1>3, <1>4 DEF Steady, Opened

(* The steps that the first save and its recovery take.                    *)
LEMMA FreshKinds ==
  ASSUME Gapless, Fresh, [Next]_vars
  PROVE  \/ Windows \/ DropTransaction \/ BeginRecovery \/ RecoveryRefuses \/ FinishLoad \/ EnterRequest
         \/ RefuseSave \/ AcceptSave \/ WriteJournal \/ MarkApplying
         \/ BeginPass \/ (\E l \in loose : Land(l)) \/ BatchDone \/ WriteManifest \/ WriteCurrent \/ RewriteHistory
         \/ Verifies \/ Commit \/ Answer \/ WipeFresh \/ MarkRolledBack \/ ClearTransaction
         \/ Crash \/ UNCHANGED vars
<1>0. Places /\ Counted /\ Unsaved /\ Begun BY DEF Fresh, Sensible
<1>1. ~ Editor /\ ~ Fault /\ ~ CrashInGap
  <2>1. tx.fresh \/ ~ current.there BY <1>0 DEF Begun, NoTx, Untouched
  <2> QED BY <1>0, <2>1 DEF Gapless, Unsaved, Counted, Editor, Edit, Fault, Faults, CrashInGap
<1>2. pc \notin {"history", "docs", "write", "bins", "mark", "pending"}
  BY <1>0 DEF Places, Begun, Waiting, Passing, Saved, Undoing, Modes
<1>3. ~ WriteHistory /\ ~ Documents /\ ~ WriteDoc /\ ~ DocsDone /\ ~ BinsDone /\ ~ MarkRollback /\ ~ LeavePending
  BY <1>2 DEF WriteHistory, Documents, CheckDoc, BinDoc, WriteDoc, DocsDone, BinsDone, MarkRollback, LeavePending
<1>4. ~ RefusePass
  <2> SUFFICES ASSUME RefusePass PROVE FALSE OBVIOUS
  <2>1. pc = "begin" /\ ~ (mode \in UndoModes /\ tx.fresh) /\ AnyFile BY DEF RefusePass
  <2>2. mode \in Modes BY <1>0, <2>1 DEF Places, Waiting, Modes
  <2>3. mode = "first" BY <1>0, <2>1, <2>2 DEF Begun, Modes, NoTx
  <2> QED BY <1>0, <2>1, <2>3 DEF Begun, Untouched, Nothing, AnyFile
<1>5. ASSUME NEW l \in loose, LandsOnFile(l) PROVE FALSE
  <2>1. pc = "batch" /\ file[l[1]] # 0 BY <1>5 DEF LandsOnFile
  <2>2. PICK d \in todo : l = <<d, tx.desired[d], "first">> BY <1>0, <2>1 DEF Begun
  <2>3. d \in Doc /\ l[1] = d BY <1>0, <2>2 DEF Places
  <2> QED BY <1>0, <2>1, <2>2, <2>3 DEF Begun
<1>6. Verify => Verifies
  <2> SUFFICES ASSUME Verify PROVE Verifies OBVIOUS
  <2>1. \A d \in Doc : file[d] = manifest.entry[d] BY <1>0 DEF Verify, Begun, Whole
  <2> QED BY <2>1 DEF Verify, Verifies, Candidates, Goto
<1> QED BY <1>1, <1>3, <1>4, <1>5, <1>6 DEF Next, Recovery, Preparing, Pass, Ending, Landing


LEMMA UnsavedKept ==
  ASSUME Gapless, Fresh, [Next]_vars, ~ Answer, ~ (DropTransaction /\ tx.status = "committed")
  PROVE  Unsaved'
<1>0. Places /\ Unsaved /\ Begun /\ Holds(Given) BY DEF Fresh, Sensible
<1>1. UNCHANGED <<edits, lost, once>>
  <2>1. ASSUME NEW l \in loose, Land(l) PROVE UNCHANGED <<edits, lost, once>>
    BY <1>0, <2>1 DEF Land, Unsaved
  <2>2. CASE WipeFresh
    <3>1. \A d \in Doc : Overwrites(d) = {} BY <1>0 DEF Overwrites, Unsaved
    <3> QED BY <1>0, <2>2, <3>1 DEF WipeFresh, Unsaved
  <2>3. CASE DropTransaction
    BY <2>3 DEF DropTransaction
  <2>4. CASE Commit BY <1>0, <2>4 DEF Commit, Unsaved
  <2> QED BY <2>1, <2>2, <2>3, <2>4, FreshKinds
          DEF Windows, StartLoad, StartSave, BeginRecovery, RecoveryRefuses, FinishLoad, EnterRequest, RefuseSave,
              AcceptSave, WriteJournal, MarkApplying, BeginPass, BatchDone, WriteManifest, WriteCurrent,
              RewriteHistory, Verifies, Verify,
              MarkRolledBack, ClearTransaction, Crash, vars, disk, ghosts
<1>2. \A w \in Window : win'[w] = Blank
  <2>1. ASSUME NEW w \in Window, Snapshot(w), ~ tx.dir PROVE \A v \in Window : win'[v] = Blank
    <3>1. ~ current.there BY <1>0, <2>1 DEF Begun, NoTx, Untouched
    <3>2. win' = [win EXCEPT ![w] = Blank] BY <2>1, <3>1 DEF Snapshot
    <3> QED BY <1>0, <3>2, WindowForms DEF Unsaved, Fresh
  <2>2. CASE FinishLoad
    <3>1. req.by \in Window /\ Snapshot(req.by) /\ ~ tx.dir
      BY <1>0, <2>2 DEF FinishLoad, Holds, NoReq, LoadBy, SaveOf
    <3> QED BY <2>1, <3>1
  <2>3. CASE Windows BY <1>0, <2>1, <2>3 DEF Windows, StartLoad, StartSave, Unsaved
  <2>4. CASE ~ FinishLoad /\ ~ Windows
    <3>1. UNCHANGED win
      BY <2>4, FreshKinds
         DEF DropTransaction, BeginRecovery, RecoveryRefuses, EnterRequest, RefuseSave, Land, WipeFresh,
             AcceptSave, WriteJournal, MarkApplying, BeginPass, BatchDone, WriteManifest, WriteCurrent,
              RewriteHistory, Verifies, Verify,
             Commit, MarkRolledBack, ClearTransaction, Crash, vars
    <3> QED BY <1>0, <3>1 DEF Unsaved
  <2> QED BY <2>2, <2>3, <2>4
<1>3. req'.kind = "save" => req'.strict /\ ~ req'.delta
  <2>1. ASSUME NEW w \in Window, StartSave(w) PROVE req'.strict /\ ~ req'.delta
    BY <1>0, <2>1 DEF StartSave, Unsaved, Blank
  <2>2. ASSUME NEW w \in Window, StartLoad(w) PROVE UNCHANGED req \/ req'.kind = "load"
    BY <2>2 DEF StartLoad, memory
  <2>3. CASE AcceptSave
    <3>1. req \in SaveOf(Given) BY <1>0, <2>3 DEF AcceptSave, Places, Holds
    <3> QED BY <1>0, <2>3, <3>1 DEF AcceptSave, Unsaved, SaveOf
  <2>4. CASE ~ Windows /\ ~ AcceptSave
    <3>1. UNCHANGED req \/ req' = NoReq
      BY <2>4, FreshKinds
         DEF DropTransaction, BeginRecovery, RecoveryRefuses, EnterRequest, FinishLoad, RefuseSave, Land, WipeFresh,
             WriteJournal, MarkApplying, BeginPass, BatchDone, WriteManifest, WriteCurrent,
              RewriteHistory, Verifies, Verify,
             Commit, MarkRolledBack, ClearTransaction, Crash, Dies, EndRequest, Throws, vars, memory, Goto
    <3> QED BY <1>0, <3>1 DEF Unsaved, NoReq
  <2> QED BY <1>0, <2>1, <2>2, <2>3, <2>4 DEF Windows, Unsaved
<1> QED BY <1>0, <1>1, <1>2, <1>3 DEF Unsaved

LEMMA BegunKept ==
  ASSUME Gapless, Fresh, [Next]_vars, ~ Answer, ~ (DropTransaction /\ tx.status = "committed")
  PROVE  Begun'
<1> USE DEF Begun, Goto, Untouched, Whole, Marked
<1> USE DEF Places, Waiting, Passing, Saved, Undoing, Modes, SaveModes, UndoModes
<1>0. Places /\ Unsaved /\ Begun /\ Sensible BY DEF Fresh, Sensible
<1>1. CASE Windows BY <1>0, <1>1 DEF Windows, StartLoad, StartSave, disk, memory, ghosts
<1>2. CASE DropTransaction /\ tx.status # "committed"
  BY <1>0, <1>2 DEF DropTransaction, NoTx, memory
<1>3. CASE BeginRecovery BY <1>0, <1>3, Forms DEF BeginRecovery, NoTx
<1>4. CASE EnterRequest BY <1>0, <1>4 DEF EnterRequest, disk
<1>5. CASE EndRequest /\ UNCHANGED <<disk, stamp>> /\ (loose' = {} \/ (loose' = loose /\ pc # "batch"))
  BY <1>0, <1>5 DEF EndRequest, disk
<1>6. CASE RecoveryRefuses \/ FinishLoad \/ RefuseSave \/ Crash
  BY <1>5, <1>6 DEF RecoveryRefuses, FinishLoad, RefuseSave, Crash, Dies
<1>7. CASE AcceptSave
  <2>1. pc = "request" /\ mode = "none" /\ Untouched /\ loose = {} BY <1>0, <1>7 DEF AcceptSave, NoTx
  <2>2. tx'.undo = Nothing /\ tx'.fresh /\ tx'.dir /\ tx'.status = "none"
    <3>1. /\ tx'.dir /\ tx'.status = "none" /\ tx'.fresh = ~ current.there
          /\ tx'.undo = [d \in Doc |-> IF current.there /\ current.ref[d] # 0 THEN file[d] ELSE 0]
      BY <1>0, <1>7, Accepts
    <3>2. ~ current.there BY <2>1
    <3>3. tx'.undo = [d \in Doc |-> 0] BY <3>1, <3>2
    <3> QED BY <3>1, <3>2, <3>3 DEF Nothing
  <2>3. pc' = "journal" /\ UNCHANGED <<file, manifest, current, mode, loose>> BY <1>7 DEF AcceptSave
  <2> QED BY <2>1, <2>2, <2>3
<1>8. CASE WriteJournal
  <2>1. Replaced(tx.undo, tx.desired, req.prev) = {}
    <3>1. req \in SaveOf(Given) BY <1>0, <1>8 DEF WriteJournal, Holds, Sensible
    <3> QED BY <1>0, <1>8, <3>1 DEF WriteJournal, Replaced, Nothing, NoTx, SaveOf
  <2> QED BY <1>0, <1>8, <2>1, Forms DEF WriteJournal, NoTx
<1>9. CASE MarkApplying BY <1>0, <1>9, Forms DEF MarkApplying, NoTx, Nothing
<1>10. CASE BeginPass
  <2>1. pc = "begin" /\ mode = "first" /\ tx.dir /\ Untouched BY <1>0, <1>10 DEF BeginPass, NoTx
  <2>2. Target = tx.desired BY <2>1 DEF Target
  <2>3. pc' = "batch" /\ todo' = {d \in Doc : tx.desired[d] # 0}
        /\ loose' = {<<d, tx.desired[d], "first">> : d \in todo'} /\ UNCHANGED <<disk, mode, req, stamp>>
    BY <1>0, <1>10, <2>1, <2>2 DEF BeginPass
  <2>4. \A d \in Doc : file[d] = IF d \in todo' THEN 0 ELSE tx.desired[d] BY <2>1, <2>3 DEF Nothing
  <2> QED BY <1>0, <2>1, <2>3, <2>4 DEF disk
<1>11. ASSUME NEW l \in loose, Land(l) PROVE Begun'
  <2>1. pc = "batch" BY <1>0
  <2>2. PICK d \in todo : l = <<d, tx.desired[d], "first">> BY <1>0, <2>1
  <2>3. d \in Doc /\ mode = "first" BY <1>0, <2>1, <2>2
  <2>4. todo' = todo \ {d} /\ loose' = loose \ {l} /\ UNCHANGED <<manifest, current, tx, pc, mode, req, stamp>>
    BY <1>11, <2>1, <2>2, <2>3 DEF Land
  <2>5. \A e \in Doc : file'[e] = IF e = d THEN tx.desired[d] ELSE file[e]
    BY <1>0, <1>11, <2>2, <2>3, Forms DEF Land
  <2>6. loose' = {<<e, tx.desired[e], "first">> : e \in todo'} BY <1>0, <2>1, <2>2, <2>4
  <2> QED BY <1>0, <2>1, <2>3, <2>4, <2>5, <2>6
<1>12. CASE BatchDone
  <2>1. file = tx.desired BY <1>0, <1>12, Forms DEF BatchDone
  <2> QED BY <1>0, <1>12, <2>1 DEF BatchDone, disk
<1>13. CASE WriteManifest BY <1>0, <1>13 DEF WriteManifest, Target
<1>14. CASE WriteCurrent \/ RewriteHistory
  <2>1. CASE WriteCurrent BY <1>0, <2>1 DEF WriteCurrent, Target
  <2>2. CASE RewriteHistory BY <1>0, <2>2 DEF RewriteHistory
  <2> QED BY <1>14, <2>1, <2>2
<1>15. CASE Verifies
  <2>1. ~ Throws BY <1>0, <1>15, ThrowsBack DEF Verifies, Verify, InPass
  <2> QED BY <1>0, <1>15, <2>1 DEF Verifies, Verify, disk
<1>16. CASE Commit BY <1>0, <1>16, Forms DEF Commit, NoTx
<1>17. CASE WipeFresh
  <2>1. file' = Nothing BY <1>0, <1>17 DEF WipeFresh, Nothing, NoTx
  <2> QED BY <1>0, <1>17, <2>1 DEF WipeFresh, NoState, Nothing
<1>18. CASE MarkRolledBack BY <1>0, <1>18, Forms DEF MarkRolledBack, NoTx
<1>19. CASE ClearTransaction BY <1>0, <1>19 DEF ClearTransaction, NoTx
<1>20. CASE UNCHANGED vars BY <1>0, <1>20 DEF vars, disk, memory
<1> QED BY <1>1, <1>2, <1>3, <1>4, <1>6, <1>7, <1>8, <1>9, <1>10, <1>11, <1>12, <1>13, <1>14, <1>15, <1>16, <1>17,
           <1>18, <1>19, <1>20, FreshKinds

(* The first save stays in its order until it is through.                  *)
LEMMA FreshKept ==
  ASSUME Gapless
  PROVE  Fresh /\ [Next]_vars => Fresh' \/ Opened'
<1> SUFFICES ASSUME Fresh, [Next]_vars PROVE Fresh' \/ Opened' OBVIOUS
<1>0. Places /\ Unsaved /\ Begun /\ Holds(Given) /\ Sensible' BY NextSensible DEF Fresh, Sensible
<1>1. CASE ~ Answer /\ ~ (DropTransaction /\ tx.status = "committed")
  BY <1>0, <1>1, UnsavedKept, BegunKept DEF Fresh
<1>2. CASE DropTransaction /\ tx.status = "committed"
  <2>1. Whole /\ loose = {} BY <1>0, <1>2 DEF Begun, DropTransaction
  <2>2. \A w \in Window : win[w].saved = 0 BY <1>0 DEF Unsaved, Blank
  <2>3. Managed' = Managed BY <1>2 DEF DropTransaction, Managed
  <2> QED BY <1>0, <1>2, <2>1, <2>2, <2>3 DEF DropTransaction, memory, Opened, Unsaved, Whole
<1>3. CASE Answer
  <2>1. Whole /\ loose = {} BY <1>0, <1>3 DEF Begun, Answer, Places, Saved, SaveModes
  <2>2. Managed' = Managed BY <1>3 DEF Answer, Managed
  <2>3. \A w \in Window : win'[w].saved = 0 \/ (win'[w].saved = current.saved /\ win'[w].docs = current.ref)
    <3> DEFINE Learnt == [saved |-> current.saved, docs |-> current.ref, ext |-> Nothing, seen |-> file]
    <3>1. win' = [win EXCEPT ![req.by] = Learnt] BY <1>3 DEF Answer
    <3>2. \A w \in Window : win'[w] = Blank \/ win'[w] = Learnt
      BY <1>0, <3>1, WindowForms DEF Unsaved, Fresh
    <3> QED BY <3>2 DEF Blank
  <2> QED BY <1>0, <1>3, <2>1, <2>2, <2>3 DEF Answer, EndRequest, Goto, NoReq, Opened, Unsaved, Whole
<1> QED BY <1>1, <1>2, <1>3

LEMMA SteadyCoherent == Steady => Coherent
<1> SUFFICES ASSUME Steady, ~ tx.dir PROVE Coherent BY DEF Coherent, Settled
<1>1. tx = NoTx /\ manifest.there /\ current.there BY DEF Steady, Orderly
<1>2. Story BY <1>1 DEF Steady, Told, Undoable, NoTx
<1>3. manifest.there \in BOOLEAN /\ current.there \in BOOLEAN BY DEF Steady, Sensible, Holds, StateOf
<1> QED BY <1>1, <1>2, <1>3 DEF Story, Has, Coherent

LEMMA FreshCoherent == Fresh => Coherent
<1> SUFFICES ASSUME Fresh, ~ tx.dir PROVE Coherent BY DEF Coherent, Settled
<1>1. Untouched BY DEF Fresh, Begun, NoTx
<1>2. manifest.there \in BOOLEAN /\ current.there \in BOOLEAN BY DEF Fresh, Sensible, Holds, StateOf
<1> QED BY <1>1, <1>2 DEF Untouched, Nothing, Coherent

(* Whenever no request is under way and no transaction is left,            *)
(* manifest.json and current-state.json name the same version of each      *)
(* document and its file holds it or a later one of the editor, whatever   *)
(* failed or died before; in a new workspace there is nothing, or all of   *)
(* the first save.                                                         *)
THEOREM StoryHolds == ASSUME Undisturbed PROVE Spec => []Coherent
<1>0. Gapless BY DEF Undisturbed
<1>1. Init => Fresh \/ Steady BY InitFresh, InitSteady
<1>2. (Fresh \/ Steady) /\ [Next]_vars => (Fresh \/ Steady)'
  <2>1. Fresh /\ [Next]_vars => Fresh' \/ Opened' BY <1>0, FreshKept
  <2>2. Steady /\ [Next]_vars => Steady' BY <1>0, NextSteady
  <2>3. Opened' => Steady' BY OpenedSteady, PTL
  <2> QED BY <2>1, <2>2, <2>3
<1>3. Fresh \/ Steady => Coherent BY FreshCoherent, SteadyCoherent
<1> QED BY <1>1, <1>2, <1>3, PTL DEF Spec

----------------------------------------------------------------------------
(* Texts that were saved                                                   *)

(* A committed text is found in one of two places, whichever way the       *)
(* transaction will end.  If nothing is to be undone: in the history, in   *)
(* an entry of the bin, or in its file with the manifest naming it.  If    *)
(* the transaction is undone: in the history, or in its rollback snapshot, *)
(* from which it will be written again.  A save cannot put it into the     *)
(* first place before it commits, nor a rollback into it before it ends,   *)
(* so both are kept side by side.                                          *)
AtRest(t) == file[t[1]] = t[2] /\ manifest.entry[t[1]] = t[2]
Undo(t) ==
  \/ t \in tx.undoTrash
  \/ tx.undo[t[1]] = t[2] /\ (Serving => req.prev[t[1]] = t[2])
Kept ==
  /\ \A t \in once : t[2] # 0
  /\ ~ Undoable => \A t \in once : t \in hist \cup current.trash \/ AtRest(t)
  /\ tx.dir => \A t \in once : t \in hist \/ Undo(t)

LEMMA InitKept == Init => Kept
<1> SUFFICES ASSUME Init PROVE Kept OBVIOUS
<1>1. PICK established \in Origins :
       /\ file = [d \in Doc |-> IF d \in established THEN 1 ELSE 0]
       /\ manifest = [there |-> established # {}, entry |-> file]
       /\ current = [there |-> established # {}, saved |-> IF established = {} THEN 0 ELSE 1,
                     ref |-> file, trash |-> {}]
       /\ once = {<<d, 1>> : d \in established}
  BY DEF Init
<1>2. established \subseteq Doc BY <1>1
<1>3. \A t \in once : t[2] # 0 /\ AtRest(t) BY <1>1, <1>2 DEF AtRest
<1>4. ~ tx.dir BY DEF Init, NoTx
<1> QED BY <1>3, <1>4 DEF Kept

LEMMA OnceForms ==
  ASSUME Sensible, NEW t \in once
  PROVE  t[1] \in Doc /\ t[2] \in Nat /\ t = <<t[1], t[2]>>
  BY DEF Sensible, Holds, Given

(* What a pass has written of a committed text is in its file: an editor   *)
(* that has overwritten it is what takes a text out of once.               *)
LEMMA HasKept ==
  ASSUME Sensible, NEW t \in once, Has(t[1], t[2])
  PROVE  file[t[1]] = t[2]
  BY OnceForms DEF Has

(* A save that has got to its commit record leaves the texts it does not   *)
(* give up where a later pass finds them.                                  *)
LEMMA CommitKeeps ==
  ASSUME Steady, Kept, Commit, NEW t \in once'
  PROVE  t \in hist \cup current.trash \/ AtRest(t)
<1>0. Places /\ Orderly /\ Told /\ Ahead /\ Asked /\ Sensible BY DEF Steady, Sensible
<1>1. pc = "commit" /\ mode \in SaveModes /\ tx.dir BY <1>0 DEF Commit, Places, Saved, Orderly
<1>2. t \in once /\ ~ GivenUp(t) /\ t[2] # 0 BY DEF Commit, Kept
<1>3. t[1] \in Doc /\ t = <<t[1], t[2]>> BY <1>0, <1>2, OnceForms
<1>4. /\ Target = tx.desired /\ manifest.entry = tx.desired /\ current.trash = tx.trash /\ hist = tx.hist
      /\ \A d \in Doc : tx.desired[d] # 0 => Has(d, tx.desired[d])
  BY <1>0, <1>1 DEF Ahead, Target, TargetTrash, Written
<1>5. CASE tx.desired[t[1]] = t[2]
  <2>1. Has(t[1], t[2]) BY <1>2, <1>3, <1>4, <1>5
  <2> QED BY <1>0, <1>2, <1>4, <1>5, <2>1, HasKept DEF AtRest
<1>6. CASE tx.desired[t[1]] # t[2] /\ t \notin tx.trash \cup tx.hist
  <2>1. t \notin tx.undoTrash /\ (tx.undo[t[1]] # t[2] \/ tx.desired[t[1]] # 0) BY <1>2, <1>6 DEF GivenUp
  <2>2. t \notin hist BY <1>4, <1>6
  <2>3. tx.undo[t[1]] = t[2] /\ req.prev[t[1]] = t[2] BY <1>1, <1>2, <2>1, <2>2 DEF Kept, Undo, Serving
  <2>4. t[1] \in req.dirty BY <1>0, <1>1, <1>3, <1>6, <2>1, <2>3 DEF Asked, Serving
  <2>5. t[1] \in Replaced(tx.undo, tx.desired, req.prev) BY <1>2, <1>6, <2>1, <2>3, <2>4 DEF Replaced
  <2>6. t \in Images BY <1>3, <2>3, <2>5 DEF Images
  <2> QED BY <1>0, <1>1, <1>6, <2>6 DEF Asked, Serving
<1> QED BY <1>4, <1>5, <1>6

(* A step that writes no document and no manifest, and prepares no request.*)
LEMMA KeptFrame ==
  ASSUME Kept, UNCHANGED <<file, manifest>>, current'.trash = current.trash, hist \subseteq hist', once' \subseteq once,
         tx'.undo = tx.undo, tx'.undoTrash = tx.undoTrash, tx'.dir => tx.dir, Undoable => Undoable',
         Serving' => Serving /\ UNCHANGED req
  PROVE  Kept'
<1>1. \A t \in once' : AtRest(t) => AtRest(t)' BY DEF AtRest
<1>2. \A t \in once' : Undo(t) => Undo(t)' BY DEF Undo
<1> QED BY <1>1, <1>2 DEF Kept

(* A step of a pass: only if the transaction is committed does it matter   *)
(* what it writes.                                                         *)
LEMMA PassKeeps ==
  ASSUME Kept, UNCHANGED <<tx, req, mode, once>>, pc' \notin {"journal", "history", "apply"}, hist \subseteq hist',
         ~ Undoable => /\ current'.trash = current.trash
                       /\ \A t \in once : AtRest(t) => AtRest(t)'
  PROVE  Kept'
<1>1. Undoable' <=> Undoable BY DEF Undoable
<1>2. \A t \in once : Undo(t) => Undo(t)' BY DEF Undo, Serving
<1> QED BY <1>1, <1>2 DEF Kept

LEMMA KeptKept ==
  ASSUME Gapless, Steady, Kept, [Next]_vars
  PROVE  Kept'
<1>0. Places /\ Orderly /\ Told /\ Ahead /\ Asked /\ Sensible BY DEF Steady, Sensible
<1>1. ASSUME NEW now, now \in {once, once \cup Managed}, once' = now, tx' = NoTx, ~ Undoable,
             UNCHANGED <<file, manifest, current, hist>>
      PROVE  Kept'
  <2>1. \A t \in Managed : t[2] # 0 /\ AtRest(t) BY DEF Managed, AtRest
  <2>2. \A t \in once' : t[2] # 0 /\ (t \in hist \cup current.trash \/ AtRest(t)) BY <1>1, <2>1 DEF Kept
  <2>3. \A t \in once' : AtRest(t) => AtRest(t)' BY <1>1 DEF AtRest
  <2>4. ~ tx'.dir BY <1>1 DEF NoTx
  <2> QED BY <1>1, <2>2, <2>3, <2>4 DEF Kept
<1>2. CASE DropTransaction
  <2>1. ~ Undoable BY <1>2 DEF DropTransaction, Undoable
  <2> QED BY <1>1, <1>2, <2>1 DEF DropTransaction
<1>3. CASE Answer
  <2>1. ~ Undoable BY <1>0, <1>3 DEF Answer, Orderly, Undoable
  <2> QED BY <1>1, <1>3, <2>1 DEF Answer
<1>4. CASE ClearTransaction
  <2>1. ~ Undoable BY <1>0, <1>4 DEF ClearTransaction, Orderly, Undoable
  <2> QED BY <1>1, <1>4, <2>1 DEF ClearTransaction, ghosts
<1>5. ASSUME NEW d \in Doc, Edit(d) PROVE Kept'
  <2>1. UNCHANGED <<manifest, current, hist, tx, memory>> /\ once' = once \ {<<d, file[d]>>} BY <1>5 DEF Edit
  <2>2. ASSUME NEW t \in once', AtRest(t) PROVE AtRest(t)'
    <3>1. t[1] # d BY <1>0, <2>1, <2>2, OnceForms DEF AtRest
    <3>2. file'[t[1]] = file[t[1]] BY <1>0, <1>5, <2>1, <3>1, Forms, OnceForms DEF Edit
    <3> QED BY <2>1, <2>2, <3>2 DEF AtRest
  <2>3. \A t \in once' : Undo(t) => Undo(t)' BY <2>1 DEF Undo, Serving, memory
  <2>4. Undoable' <=> Undoable BY <2>1 DEF Undoable
  <2> QED BY <2>1, <2>2, <2>3, <2>4 DEF Kept
<1>6. CASE AcceptSave
  <2>1. ~ tx.dir /\ ~ Undoable /\ Story /\ current.there
    BY <1>0, <1>6 DEF AcceptSave, Orderly, Told, NoTx, Undoable
  <2>2. /\ tx'.status = "none" /\ tx'.undoTrash = current.trash
        /\ \A d \in Doc : tx'.undo[d] = IF current.ref[d] # 0 THEN file[d] ELSE 0
    BY <1>0, <1>6, <2>1, Accepts
  <2>3. UNCHANGED <<file, manifest, current, hist, once>> BY <1>6 DEF AcceptSave, ghosts
  <2>4. req'.prev = manifest.entry
    <3>1. req \in SaveOf(Given) BY <1>0, <1>6 DEF AcceptSave, Places, Holds, Sensible
    <3> QED BY <1>6, <3>1 DEF AcceptSave, SaveOf
  <2>5. \A t \in once : t[2] # 0 /\ (t \in hist \cup current.trash \/ AtRest(t)) BY <2>1 DEF Kept
  <2>6. ASSUME NEW t \in once, AtRest(t) PROVE AtRest(t)' /\ Undo(t)'
    <3>1. t[1] \in Doc BY <1>0, OnceForms
    <3>2. tx'.undo[t[1]] = t[2] BY <2>1, <2>2, <2>5, <2>6, <3>1 DEF AtRest, Story
    <3> QED BY <2>3, <2>4, <2>6, <3>2 DEF AtRest, Undo
  <2>7. ~ Undoable' BY <2>2 DEF Undoable
  <2> QED BY <2>2, <2>3, <2>5, <2>6, <2>7 DEF Kept, Undo
<1>7. CASE Windows \/ BeginRecovery \/ FinishLoad \/ EnterRequest
  <2>1. ~ Serving'
    BY <1>0, <1>7 DEF Windows, StartLoad, StartSave, FinishLoad, EnterRequest, BeginRecovery,
                      EndRequest, memory, Places, Waiting, Modes, Goto, SaveModes, Serving
  <2>2. UNCHANGED <<file, manifest, current, hist, once>> /\ tx' \in {tx, [tx EXCEPT !.status = "rollback_pending"]}
    BY <1>7 DEF Windows, StartLoad, StartSave, FinishLoad, EnterRequest, BeginRecovery, disk, ghosts
  <2>3. tx'.undo = tx.undo /\ tx'.undoTrash = tx.undoTrash /\ tx'.dir = tx.dir /\ (Undoable => Undoable')
    BY <1>0, <2>2, Forms DEF Marked, Undoable
  <2> QED BY <2>1, <2>2, <2>3, KeptFrame
<1>8. CASE WriteJournal \/ MarkApplying
  <2>1. UNCHANGED <<file, manifest, current, hist, once, req>> /\ Serving
        /\ tx.status \in {"none", "prepared"} /\ \E s : tx' = [tx EXCEPT !.status = s]
    BY <1>0, <1>8 DEF WriteJournal, MarkApplying, ghosts, Serving, Orderly
  <2>2. tx'.undo = tx.undo /\ tx'.undoTrash = tx.undoTrash /\ tx'.dir = tx.dir BY <1>0, <2>1, Forms DEF Marked
  <2>3. ~ Undoable BY <2>1 DEF Undoable
  <2> QED BY <2>1, <2>2, <2>3, KeptFrame
<1>9. CASE WriteHistory
  <2>1. UNCHANGED <<file, manifest, current, tx, once, req>> /\ Serving /\ hist \subseteq hist'
    BY <1>0, <1>9 DEF WriteHistory, ghosts, Serving, Orderly, Told
  <2> QED BY <2>1, KeptFrame DEF Undoable
<1>10. CASE BeginPass \/ DocsDone \/ BinsDone
  <2>1. UNCHANGED <<disk, ghosts, mode, req>> /\ pc' \notin {"journal", "history", "apply"}
    BY <1>10 DEF BeginPass, DocsDone, BinsDone, Goto
  <2> QED BY <2>1, PassKeeps DEF disk, ghosts, AtRest
<1>11. CASE WriteManifest
  <2>1. UNCHANGED <<file, current, hist, tx, mode, req, once>> /\ pc' = "current" /\ manifest'.entry = Target
    BY <1>11 DEF WriteManifest, Goto, ghosts
  <2>2. ~ Undoable => Target = manifest.entry
    BY <1>0, <1>11 DEF WriteManifest, Undoable, Orderly, Told, Target, Places, Waiting, Modes
  <2> QED BY <2>1, <2>2, PassKeeps DEF AtRest
<1>12. CASE WriteCurrent \/ RewriteHistory
  <2>1. UNCHANGED <<file, manifest, tx, mode, req, once>> /\ pc' \notin {"journal", "history", "apply"}
        /\ current'.trash \in {current.trash, TargetTrash} /\ hist' \in {hist, tx.hist}
    BY <1>12 DEF WriteCurrent, RewriteHistory, Goto, ghosts, SaveModes
  <2>2. ~ Undoable => TargetTrash = current.trash
    BY <1>0, <1>12 DEF WriteCurrent, RewriteHistory, Undoable, Orderly, Told, TargetTrash, Places, Waiting, Modes
  <2>3. hist \subseteq hist'
    BY <1>0, <1>12, <2>1 DEF WriteCurrent, RewriteHistory, Orderly, Told, Places, Waiting, Modes
  <2> QED BY <2>1, <2>2, <2>3, PassKeeps DEF AtRest
<1>13. CASE WriteDoc
  <2>1. checked[1] \in Doc /\ Target[checked[1]] # 0 BY <1>0, <1>13, Forms DEF WriteDoc, Ahead
  <2>2. UNCHANGED <<manifest, current, hist, tx, mode, req, once>> /\ pc' = "docs" BY <1>13 DEF WriteDoc, Goto
  <2>3. ~ Undoable => Target = manifest.entry
    BY <1>0, <1>13 DEF WriteDoc, Undoable, Orderly, Told, Target, Places, Waiting, Modes
  <2>4. \A d \in Doc : file'[d] = IF d = checked[1] THEN Target[d] ELSE file[d]
    BY <1>0, <1>13, <2>1, Forms DEF WriteDoc
  <2>5. ~ Undoable => \A t \in once : AtRest(t) => AtRest(t)'
    BY <1>0, <2>2, <2>3, <2>4, OnceForms DEF AtRest
  <2> QED BY <2>2, <2>5, PassKeeps
<1>14. ASSUME NEW d \in Doc, Passes(d) \/ Judges(d) PROVE Kept'
  <2>1. UNCHANGED <<disk, ghosts, mode, req>> /\ pc' \notin {"journal", "history", "apply"}
    BY <1>0, <1>14, Outcomes
  <2> QED BY <2>1, PassKeeps DEF disk, ghosts, AtRest
<1>15. ASSUME NEW d \in Doc, Drops(d) PROVE Kept'
  <2>1. pc = "bins" /\ pc' = "bins" /\ Target[d] = 0 /\ UNCHANGED <<manifest, current, hist, tx, mode, req, once>>
    BY <1>0, <1>15, Outcomes DEF Ahead, ghosts
  <2>2. \A e \in Doc : e # d => file'[e] = file[e] BY <1>0, <1>15, Outcomes, Forms
  <2>3. ~ Undoable => manifest.entry[d] = 0
    BY <1>0, <2>1 DEF Undoable, Orderly, Told, Target, Places, Waiting, Modes
  <2>4. ~ Undoable => \A t \in once : AtRest(t) => AtRest(t)'
    BY <1>0, <2>1, <2>2, <2>3, OnceForms DEF AtRest, Kept
  <2> QED BY <2>1, <2>4, PassKeeps
<1>16. CASE Verifies
  <2>1. ~ Throws BY <1>0, <1>16, ThrowsBack DEF Verifies, Verify, InPass
  <2>2. UNCHANGED <<disk, ghosts, mode, req>> /\ pc' = "commit" BY <1>16, <2>1 DEF Verifies, Verify
  <2> QED BY <2>2, PassKeeps DEF disk, ghosts, AtRest
<1>17. CASE Commit
  <2>1. UNCHANGED <<file, manifest, current, hist, mode, req>> /\ once' \subseteq once /\ pc' = "clean"
        /\ tx' = [tx EXCEPT !.status = "committed"] /\ mode \in SaveModes /\ tx.dir
    BY <1>0, <1>17 DEF Commit, Goto, Places, Saved, Orderly
  <2>2. tx'.undo = tx.undo /\ tx'.undoTrash = tx.undoTrash BY <1>0, <2>1, Forms DEF Marked
  <2>3. \A t \in once' : Undo(t) => Undo(t)' BY <2>1, <2>2 DEF Undo, Serving
  <2>4. \A t \in once' : AtRest(t) => AtRest(t)' BY <2>1 DEF AtRest
  <2> QED BY <1>17, <2>1, <2>3, <2>4, CommitKeeps DEF Kept
<1>18. CASE MarkRollback \/ LeavePending
  <2>1. UNCHANGED <<file, manifest, current, hist, once>> /\ tx' = [tx EXCEPT !.status = "rollback_pending"]
    BY <1>18 DEF MarkRollback, LeavePending, ghosts
  <2>2. ~ Serving'
    BY <1>18 DEF MarkRollback, LeavePending, EndRequest, Serving, SaveModes, Goto
  <2>3. tx'.undo = tx.undo /\ tx'.undoTrash = tx.undoTrash /\ tx'.dir = tx.dir /\ Undoable'
    BY <1>0, <2>1, Forms DEF Marked, Undoable
  <2> QED BY <2>1, <2>2, <2>3, KeptFrame
<1>19. CASE MarkRolledBack
  <2>1. pc = "rolledBack" /\ mode \in UndoModes /\ mode \notin SaveModes /\ tx.dir
    BY <1>0, <1>19 DEF MarkRolledBack, Places, Undoing, Orderly, UndoModes, SaveModes
  <2>2. /\ Target = tx.undo /\ manifest.entry = tx.undo /\ current.trash = tx.undoTrash
        /\ \A d \in Doc : tx.undo[d] # 0 => Has(d, tx.undo[d])
    BY <1>0, <2>1 DEF Ahead, Target, TargetTrash, Written
  <2>3. UNCHANGED <<file, manifest, current, hist, once, req>> /\ tx' = [tx EXCEPT !.status = "rolled_back"]
    BY <1>19 DEF MarkRolledBack, ghosts
  <2>4. tx'.undo = tx.undo /\ tx'.undoTrash = tx.undoTrash BY <1>0, <2>3, Forms DEF Marked
  <2>5. ~ Serving' BY <1>19, <2>1 DEF MarkRolledBack, Serving, Goto
  <2>6. \A t \in once : Undo(t) => Undo(t)' BY <2>4, <2>5 DEF Undo
  <2>7. ASSUME NEW t \in once, tx.undo[t[1]] = t[2] PROVE AtRest(t)'
    <3>1. t[1] \in Doc /\ t[2] # 0 BY <1>0, OnceForms DEF Kept
    <3>2. Has(t[1], t[2]) BY <2>2, <2>7, <3>1
    <3>3. file[t[1]] = t[2] BY <1>0, <3>2, HasKept
    <3> QED BY <2>2, <2>3, <2>7, <3>3 DEF AtRest
  <2>8. \A t \in once : t \in hist \cup current.trash \/ AtRest(t)' BY <2>1, <2>2, <2>7 DEF Kept, Undo
  <2> QED BY <2>1, <2>3, <2>6, <2>8 DEF Kept
<1>20. CASE GivesUp
  <2>1. UNCHANGED <<disk, ghosts>> BY <1>20 DEF GivesUp
  <2>2. Serving' => Serving /\ UNCHANGED req
    <3>1. CASE EndRequest BY <3>1 DEF EndRequest, Serving, Goto, SaveModes
    <3>2. CASE Throws /\ pc \in InPass
      <4>1. mode' \in SaveModes => mode \in SaveModes
        BY <1>0, <3>2 DEF Throws, InPass, SaveModes, UndoModes, Places, Waiting, Modes, Goto
      <4> QED BY <1>0, <3>2, <4>1, ThrowsBack DEF Throws, Serving
    <3> QED BY <1>20, <3>1, <3>2 DEF GivesUp
  <2> QED BY <2>1, <2>2, KeptFrame DEF disk, ghosts, Undoable
<1>21. CASE UNCHANGED vars BY <1>21, KeptFrame DEF vars, disk, memory, ghosts, Undoable, Serving
<1> QED BY <1>2, <1>3, <1>4, <1>5, <1>6, <1>7, <1>8, <1>9, <1>10, <1>11, <1>12, <1>13, <1>14, <1>15, <1>16, <1>17,
           <1>18, <1>19, <1>20, <1>21, StepKinds DEF Editor, Steady

LEMMA OpenedKept == Opened => Kept
<1> SUFFICES ASSUME Opened PROVE Kept OBVIOUS
<1>1. \A t \in once : t[2] # 0 /\ AtRest(t) BY DEF Opened, Managed, AtRest
<1>2. ~ tx.dir BY DEF Opened, NoTx
<1> QED BY <1>1, <1>2 DEF Kept

LEMMA KeptSurvives == Steady /\ Kept => TextsSurvive
<1> SUFFICES ASSUME Steady, Kept, NEW t \in once
             PROVE  \/ file[t[1]] = t[2] \/ t \in hist \cup current.trash
                    \/ Undoable /\ (tx.undo[t[1]] = t[2] \/ t \in tx.undoTrash)
  BY DEF TextsSurvive
<1>1. Undoable => tx.dir BY DEF Undoable, Steady, Orderly, NoTx
<1> QED BY <1>1 DEF Kept, AtRest, Undo

(* A text a save has committed can always be got back, unless an editor    *)
(* overwrites it or a save that commits gives it up: it is in its file, in *)
(* the history or in an entry of the recycle bin, or a transaction is      *)
(* under way that will be undone and its rollback snapshot has it.  No     *)
(* later save, failure, crash, rollback or recovery takes the last copy.   *)
THEOREM TextsStay == ASSUME Undisturbed PROVE Spec => []TextsSurvive
<1> DEFINE Inv == Fresh \/ (Steady /\ Kept)
<1>0. Gapless BY DEF Undisturbed
<1>1. Init => Inv BY InitFresh, InitSteady, InitKept
<1>2. Inv /\ [Next]_vars => Inv'
  <2>1. Fresh /\ [Next]_vars => Fresh' \/ Opened' BY <1>0, FreshKept
  <2>2. Steady /\ Kept /\ [Next]_vars => Steady' /\ Kept' BY <1>0, NextSteady, KeptKept
  <2>3. Opened' => Steady' /\ Kept' BY OpenedSteady, OpenedKept, PTL
  <2> QED BY <2>1, <2>2, <2>3
<1>3. Inv => TextsSurvive BY KeptSurvives DEF Fresh, Unsaved, TextsSurvive
<1> QED BY <1>1, <1>2, <1>3, PTL DEF Spec

----------------------------------------------------------------------------
(* Versions of the editor                                                  *)

(* What the check of a document has found, until it is replaced: the text  *)
(* was none, the one the manifest names, or one the window has seen; and   *)
(* it is not what the document is to become.                               *)
Judged ==
  pc = "write" /\ mode \in SaveModes =>
    /\ checked[2] # Target[checked[1]]
    /\ \/ checked[2] \in {0, req.ext[checked[1]]}
       \/ checked[2] = manifest.entry[checked[1]] /\ checked[1] \in req.dirty
Spared == Judged /\ 0 \notin edits /\ SavesKeepEdits

LEMMA InitSpared == Init => Spared
  BY DEF Init, Spared, Judged, SavesKeepEdits, SaveModes

(* A save that replaces what it has checked has the version of an editor   *)
(* in the history, or its window has seen it.                              *)
LEMMA SaveSpares ==
  ASSUME Steady, Spared, WriteDoc
  PROVE  "save" \notin Overwrites(checked[1])
<1> DEFINE d == checked[1]
<1>1. Asked /\ Ahead /\ Orderly /\ Places BY DEF Steady, Sensible
<1>2. d \in Doc /\ Target[d] # 0 BY <1>1, Forms DEF WriteDoc, Steady, Ahead
<1> SUFFICES ASSUME file[d] \in edits, <<d, file[d]>> \notin hist, mode \notin UndoModes, ~ Accepted(d),
                    file[d] = checked[2]
             PROVE  FALSE
  BY DEF Overwrites
<1>3. mode \in SaveModes /\ Serving /\ pc = "write"
  BY <1>1 DEF WriteDoc, Places, Waiting, Modes, Serving
<1>4. Target[d] = tx.desired[d] BY <1>3 DEF Target
<1>5. file[d] # 0 BY DEF Spared
<1>6. file[d] # req.ext[d] BY <1>5 DEF Accepted
<1>7. file[d] = manifest.entry[d] /\ d \in req.dirty /\ file[d] # tx.desired[d]
  BY <1>3, <1>4, <1>5, <1>6 DEF Spared, Judged
<1>8. file[d] = req.prev[d] BY <1>1, <1>3, <1>7 DEF Asked
<1>9. file[d] = tx.undo[d] BY <1>1, <1>2, <1>3, <1>5, <1>7, <1>8 DEF Asked
<1>10. d \in Replaced(tx.undo, tx.desired, req.prev) BY <1>2, <1>4, <1>5, <1>7, <1>8, <1>9 DEF Replaced
<1>11. <<d, file[d]>> \in Images BY <1>9, <1>10 DEF Images
<1> QED BY <1>1, <1>3, <1>11 DEF Asked

LEMMA SparedKept ==
  ASSUME Gapless, Steady, Spared, [Next]_vars
  PROVE  Spared'
<1>0. Places /\ Ahead /\ Orderly BY DEF Steady, Sensible
<1>1. 0 \notin edits' /\ SavesKeepEdits'
  <2>1. CASE Editor
    <3>1. NewVersion # 0 BY <2>1, GivenOut DEF NewVersion, Steady, Sensible, Counted
    <3> QED BY <2>1, <3>1 DEF Editor, Edit, Spared, SavesKeepEdits
  <2>2. CASE WriteDoc BY <2>2, SaveSpares DEF WriteDoc, Spared, SavesKeepEdits
  <2>3. CASE ~ Editor /\ ~ WriteDoc
    <3>1. ASSUME NEW d \in Doc, Passes(d) \/ Judges(d) \/ Drops(d) PROVE UNCHANGED <<edits, lost>>
      BY <3>1, Outcomes DEF ghosts, Steady
    <3>2. UNCHANGED <<edits, lost>>
      BY <2>3, <3>1, StepKinds DEF Windows, StartLoad, StartSave, DropTransaction, BeginRecovery, FinishLoad, EnterRequest,
              AcceptSave, WriteJournal, WriteHistory, MarkApplying, BeginPass, DocsDone, BinsDone, WriteManifest,
              WriteCurrent, RewriteHistory, Verifies, Verify, Commit, MarkRollback, MarkRolledBack, Answer, LeavePending,
              ClearTransaction, GivesUp, vars, ghosts, Steady
    <3> QED BY <3>2 DEF Spared, SavesKeepEdits
  <2> QED BY <2>1, <2>2, <2>3
<1>2. Judged'
  <2>1. ASSUME NEW d \in Doc, Judges(d) PROVE Judged'
    <3>1. checked'[1] = d /\ checked'[2] = file[d] /\ UNCHANGED <<mode, req, tx, manifest>> /\ pc = "docs"
          /\ ~ Skips(d) /\ file[d] # Target[d] /\ ~ IsForeign(d)
      BY <2>1, Outcomes DEF disk, Steady
    <3>2. Target' = Target BY <3>1 DEF Target
    <3>3. ASSUME mode \in SaveModes
          PROVE  file[d] \in {0, req.ext[d]} \/ (file[d] = manifest.entry[d] /\ d \in req.dirty)
      BY <3>1, <3>3 DEF IsForeign, Accepted, Skips
    <3> QED BY <3>1, <3>2, <3>3 DEF Judged
  <2>2. ASSUME NEW d \in Doc, Edit(d) PROVE Judged'
    BY <2>2 DEF Edit, memory, Judged, Spared, Target
  <2>3. CASE UNCHANGED vars BY <2>3 DEF vars, disk, memory, Judged, Spared, Target
  <2>4. CASE Windows
    BY <1>0, <2>4 DEF Windows, StartLoad, StartSave, disk, memory, Judged, Spared, Target, Goto
  <2>5. CASE GivesUp
    BY <2>5, ThrowsBack DEF GivesUp, EndRequest, Goto, Judged, Steady
  <2>6. CASE ~ Editor /\ ~ Windows /\ ~ GivesUp /\ ~ UNCHANGED vars /\ ~ \E d \in Doc : Judges(d)
    <3>1. ASSUME NEW d \in Doc, Passes(d) \/ Drops(d) PROVE pc' # "write"
      BY <3>1, Outcomes DEF Steady
    <3>2. pc' # "write"
      BY <1>0, <2>6, <3>1, StepKinds DEF DropTransaction, BeginRecovery, FinishLoad, EnterRequest, EndRequest,
              AcceptSave, WriteJournal, WriteHistory, MarkApplying, BeginPass, DocsDone, BinsDone, WriteManifest,
              WriteCurrent, RewriteHistory, WriteDoc, Verifies, Commit, MarkRollback, MarkRolledBack, Answer, LeavePending,
              ClearTransaction, memory, Goto, Steady
    <3> QED BY <3>2 DEF Judged
  <2> QED BY <2>1, <2>2, <2>3, <2>4, <2>5, <2>6 DEF Editor
<1> QED BY <1>1, <1>2 DEF Spared

(* No save replaces a version of the editor that was there when the        *)
(* document was last checked, unless its window has seen it or the history *)
(* has it: an editor loses work to a save only between that check and the  *)
(* replacement.                                                            *)
THEOREM EditsSpared == ASSUME Undisturbed PROVE Spec => []SavesKeepEdits
<1> DEFINE Inv == Fresh \/ (Steady /\ Spared)
<1>0. Gapless BY DEF Undisturbed
<1>1. Init => Inv BY InitFresh, InitSteady, InitSpared
<1>2. Opened => Spared BY DEF Opened, Spared, Judged, SavesKeepEdits
<1>3. Inv /\ [Next]_vars => Inv'
  <2>1. Fresh /\ [Next]_vars => Fresh' \/ Opened' BY <1>0, FreshKept
  <2>2. Steady /\ Spared /\ [Next]_vars => Steady' /\ Spared' BY <1>0, NextSteady, SparedKept
  <2>3. Opened' => Steady' /\ Spared' BY <1>2, OpenedSteady, PTL
  <2> QED BY <2>1, <2>2, <2>3
<1>4. Inv => SavesKeepEdits BY DEF Fresh, Unsaved, Spared, SavesKeepEdits
<1> QED BY <1>1, <1>3, <1>4, PTL DEF Spec

----------------------------------------------------------------------------
(* The workspace as one register                                           *)

(* Every savedAt is given out once, so a window that has the one of        *)
(* current-state.json has its documents; the request that is served comes  *)
(* from such a window, and its rollback snapshot holds what that window    *)
(* replaces. This is where it is used that no editor is at work.           *)
Asking == pc \in {"recover", "request"} \/ mode = "recovery"
Stamped ==
  /\ edits = {}
  /\ current.saved \in 1 .. stamp
  /\ \A w \in Window : win[w].saved <= stamp
  /\ \A w \in Window : win[w].saved = current.saved => win[w].docs = current.ref
  /\ Asking /\ req.kind = "save" /\ win[req.by].saved = 0 => req.strict
  /\ Serving => tx.undo = win[req.by].docs /\ tx.undo = req.prev
  /\ pc \in {"journal", "history", "apply"} => manifest.entry = req.prev

Alone == Undisturbed /\ MaxEdits = 0

LEMMA InitStamped == Init /\ manifest.there => Stamped
<1> SUFFICES ASSUME Init, manifest.there PROVE Stamped OBVIOUS
<1>1. PICK established \in Origins :
       /\ manifest = [there |-> established # {}, entry |-> file]
       /\ current = [there |-> established # {}, saved |-> IF established = {} THEN 0 ELSE 1,
                     ref |-> file, trash |-> {}]
  BY DEF Init
<1>2. current.saved = 1 BY <1>1
<1> QED BY <1>2 DEF Init, Stamped, Asking, Blank, Serving, SaveModes

(* Without an editor a workspace at rest has exactly what the manifest     *)
(* names: a window that loads gets it.                                     *)
LEMMA LoadedWhole ==
  ASSUME Steady, Stamped, ~ tx.dir, NEW w \in Window, Snapshot(w)
  PROVE  /\ win'[w].saved = current.saved /\ win'[w].docs = current.ref
         /\ \A v \in Window : v # w => win'[v] = win[v]
<1>1. Story /\ current.there BY DEF Steady, Orderly, Told, Undoable, NoTx
<1>2. current.ref = [d \in Doc |-> current.ref[d]] BY WindowForms DEF Steady
<1>3. \A d \in Doc : current.ref[d] = IF current.ref[d] = 0 THEN 0 ELSE file[d]
  BY <1>1 DEF Story, Has, Stamped
<1>4. current.ref = [d \in Doc |-> IF current.ref[d] = 0 THEN 0 ELSE file[d]] BY <1>2, <1>3
<1> DEFINE Seen == [saved |-> current.saved,
          docs  |-> [d \in Doc |-> IF current.ref[d] = 0 THEN 0 ELSE file[d]],
          ext   |-> [d \in Doc |-> IF file[d] = current.ref[d] \/ current.ref[d] = 0 THEN 0 ELSE file[d]],
          seen  |-> file]
<1>5. win' = [win EXCEPT ![w] = Seen] BY <1>1 DEF Snapshot
<1>6. Seen.saved = current.saved /\ Seen.docs = current.ref BY <1>4
<1> HIDE DEF Seen
<1> QED BY <1>5, <1>6, WindowForms DEF Steady

(* A request that is accepted comes from a window with the current state,  *)
(* and that is what its rollback snapshot holds.                           *)
LEMMA AcceptedWhole ==
  ASSUME Steady, Stamped, AcceptSave
  PROVE  /\ req.by \in Window /\ win[req.by].docs = current.ref
         /\ tx'.undo = current.ref /\ current.ref = manifest.entry /\ req'.prev = manifest.entry /\ req'.by = req.by
<1>1. Orderly /\ Told /\ Places /\ Holds(Given) BY DEF Steady, Sensible
<1>2. Story /\ current.there BY <1>1 DEF AcceptSave, Orderly, Told, Undoable, NoTx
<1>3. req \in SaveOf(Given) BY <1>1 DEF AcceptSave, Places, Holds
<1>4. req.by \in Window /\ req'.prev = manifest.entry /\ req'.by = req.by BY <1>3 DEF AcceptSave, SaveOf
<1>5. win[req.by].saved = current.saved
  <2>1. req.kind = "save" BY <1>3 DEF SaveOf
  <2> QED BY <1>2, <1>4, <2>1 DEF AcceptSave, Conflicts, StampMatches, Stamped, Asking
<1>6. current.ref = [d \in Doc |-> current.ref[d]] BY WindowForms DEF Steady
<1>7. \A d \in Doc : current.ref[d] = IF current.there /\ current.ref[d] # 0 THEN file[d] ELSE 0
  BY <1>2 DEF Story, Has, Stamped
<1>8. tx'.undo = current.ref
  <2>1. tx'.undo = [d \in Doc |-> IF current.there /\ current.ref[d] # 0 THEN file[d] ELSE 0] BY Accepts DEF Steady
  <2> QED BY <1>6, <1>7, <2>1
<1> QED BY <1>2, <1>4, <1>5, <1>8 DEF Stamped, Story

LEMMA StampedFrame ==
  ASSUME Stamped, UNCHANGED <<win, current, manifest, stamp, edits>>, tx'.undo = tx.undo,
         Serving' => Serving /\ UNCHANGED req,
         pc' \in {"journal", "history", "apply"} => pc \in {"journal", "history", "apply"},
         Asking' => UNCHANGED req /\ Asking
  PROVE  Stamped'
<1>1. Serving' => tx'.undo = win'[req'.by].docs /\ tx'.undo = req'.prev BY DEF Stamped
<1>2. Asking' /\ req'.kind = "save" /\ win'[req'.by].saved = 0 => req'.strict BY DEF Stamped
<1>3. pc' \in {"journal", "history", "apply"} => Serving' /\ manifest'.entry = req'.prev BY DEF Stamped, Serving
<1> QED BY <1>1, <1>2, <1>3 DEF Stamped

LEMMA StampedKept ==
  ASSUME Alone, Steady, Stamped, [Next]_vars
  PROVE  Stamped'
<1> USE DEF Serving, Asking, Goto
<1>0. Places /\ Orderly /\ Told /\ Ahead /\ Gapless BY DEF Steady, Sensible, Alone, Undisturbed
<1>1. ~ Editor BY DEF Editor, Edit, Alone, Steady, Sensible, Counted
<1>2. ASSUME NEW w \in Window, StartLoad(w) PROVE Stamped'
  <2>1. CASE ~ tx.dir /\ Snapshot(w) /\ UNCHANGED memory
    <3>1. UNCHANGED <<current, manifest, tx, stamp, edits, pc, mode, req>>
      BY <1>2, <2>1 DEF StartLoad, memory, disk, ghosts
    <3>2. pc = "idle" /\ mode = "none" BY <1>0, <1>2 DEF StartLoad, Places, Waiting
    <3> QED BY <2>1, <3>1, <3>2, LoadedWhole DEF Stamped, SaveModes
  <2>2. CASE ~ (~ tx.dir /\ Snapshot(w) /\ UNCHANGED memory)
    <3>1. UNCHANGED <<current, manifest, tx, stamp, edits, mode, win>> /\ pc' = "recover" /\ req' = [kind |-> "load", by |-> w]
          /\ pc = "idle"
      BY <1>2, <2>2 DEF StartLoad, disk, ghosts
    <3>2. mode = "none" BY <1>0, <3>1 DEF Places, Waiting
    <3> QED BY <3>1, <3>2 DEF Stamped, SaveModes
  <2> QED BY <2>1, <2>2
<1>3. ASSUME NEW w \in Window, StartSave(w) PROVE Stamped'
  <2>1. req'.by = w /\ (win[w].saved = 0 => req'.strict) BY <1>3 DEF StartSave
  <2>2. UNCHANGED <<current, manifest, tx, stamp, edits, mode, win>> /\ pc' = "recover" /\ pc = "idle"
    BY <1>3 DEF StartSave, disk, ghosts
  <2>3. mode = "none" BY <1>0, <2>2 DEF Places, Waiting
  <2> QED BY <2>1, <2>2, <2>3 DEF Stamped, SaveModes
<1>4. CASE DropTransaction \/ BeginRecovery \/ EnterRequest \/ LeavePending \/ ClearTransaction
  <2>1. UNCHANGED <<current, manifest, stamp, edits, win>>
    BY <1>4 DEF DropTransaction, BeginRecovery, EnterRequest, LeavePending, ClearTransaction, disk, ghosts
  <2>2. ~ Serving'
    BY <1>0, <1>4 DEF DropTransaction, BeginRecovery, EnterRequest, LeavePending, ClearTransaction, EndRequest, memory,
                      Places, Waiting, Undoing, SaveModes, UndoModes
  <2>3. Asking' => UNCHANGED req /\ Asking
    BY <1>4 DEF DropTransaction, BeginRecovery, EnterRequest, LeavePending, ClearTransaction, EndRequest, memory
  <2> QED BY <2>1, <2>2, <2>3 DEF Stamped
<1>5. CASE FinishLoad
  <2>1. req.by \in Window /\ ~ tx.dir /\ Snapshot(req.by)
    BY <1>5 DEF FinishLoad, Steady, Sensible, Holds, NoReq, LoadBy, SaveOf
  <2>2. UNCHANGED <<current, manifest, stamp, edits>> /\ pc' = "idle" /\ mode' = "none"
    BY <1>5 DEF FinishLoad, EndRequest, disk, ghosts
  <2> QED BY <2>1, <2>2, LoadedWhole DEF Stamped, SaveModes
<1>6. CASE AcceptSave
  <2>1. UNCHANGED <<current, manifest, stamp, edits, win, mode>> /\ pc' = "journal" /\ mode = "none"
    BY <1>0, <1>6 DEF AcceptSave, ghosts, Places, Waiting
  <2> QED BY <1>6, <2>1, AcceptedWhole DEF Stamped
<1>7. CASE WriteJournal \/ WriteHistory \/ MarkApplying
  <2>1. tx'.undo = tx.undo BY <1>7, Forms DEF WriteJournal, WriteHistory, MarkApplying, Marked, Steady
  <2> QED BY <1>7, <2>1, StampedFrame DEF WriteJournal, WriteHistory, MarkApplying, ghosts
<1>8. CASE BeginPass \/ DocsDone \/ BinsDone \/ WriteDoc \/ RewriteHistory \/ Verifies
  <2>1. CASE Verifies
    <3>1. ~ Throws BY <2>1, ThrowsBack DEF Verifies, Verify, InPass, Steady
    <3> QED BY <2>1, <3>1, StampedFrame DEF Verifies, Verify, disk, ghosts
  <2> QED BY <1>8, <2>1, StampedFrame DEF BeginPass, DocsDone, BinsDone, WriteDoc, RewriteHistory, SaveModes, disk, ghosts
<1>9. CASE WriteManifest
  <2>1. UNCHANGED <<current, tx, mode, req, win, stamp, edits>> /\ pc' = "current" BY <1>9 DEF WriteManifest, ghosts
  <2> QED BY <2>1 DEF Stamped
<1>10. CASE WriteCurrent
  <2>1. UNCHANGED <<manifest, tx, mode, req, win, edits>> /\ pc' = "isolated" /\ stamp' = stamp + 1
        /\ current'.saved = stamp + 1
    BY <1>10 DEF WriteCurrent, ghosts
  <2>2. stamp \in Nat /\ \A w \in Window : win[w].saved \in Nat BY WindowForms DEF Steady
  <2> QED BY <2>1, <2>2 DEF Stamped
<1>11. ASSUME NEW d \in Doc, Passes(d) \/ Judges(d) \/ Drops(d) PROVE Stamped'
  BY <1>11, Outcomes, StampedFrame DEF disk, ghosts, Steady
<1>12. CASE Commit \/ MarkRollback \/ MarkRolledBack
  <2>1. tx'.undo = tx.undo BY <1>12, Forms DEF Commit, MarkRollback, MarkRolledBack, Marked, Steady
  <2> QED BY <1>12, <2>1, StampedFrame DEF Commit, MarkRollback, MarkRolledBack, SaveModes, ghosts
<1>13. CASE Answer
  <2>1. UNCHANGED <<current, manifest, stamp, edits>> /\ pc' = "idle" /\ mode' = "none"
    BY <1>13 DEF Answer, EndRequest
  <2>2. \A w \in Window : win'[w] = win[w] \/ (win'[w].saved = current.saved /\ win'[w].docs = current.ref)
    BY <1>13, WindowForms DEF Answer, Steady
  <2> QED BY <2>1, <2>2, WindowForms DEF Stamped, SaveModes, Steady
<1>14. CASE GivesUp
  <2>1. UNCHANGED <<current, manifest, tx, stamp, edits, win>> BY <1>14 DEF GivesUp, disk, ghosts
  <2>2. CASE EndRequest BY <2>1, <2>2 DEF EndRequest, Stamped, SaveModes
  <2>3. CASE Throws /\ pc \in InPass
    <3>1. (mode' \in SaveModes => mode \in SaveModes) /\ (mode' = "recovery" => mode = "recovery")
      BY <1>0, <2>3 DEF Throws, InPass, SaveModes, UndoModes, Places, Waiting, Modes
    <3>2. UNCHANGED req BY <2>3 DEF Throws
    <3> QED BY <2>1, <2>3, <3>1, <3>2, ThrowsBack, StampedFrame DEF Steady
  <2> QED BY <1>14, <2>2, <2>3 DEF GivesUp
<1>15. CASE UNCHANGED vars BY <1>15, StampedFrame DEF vars, disk, memory, ghosts
<1> QED BY <1>0, <1>1, <1>2, <1>3, <1>4, <1>5, <1>6, <1>7, <1>8, <1>9, <1>10, <1>11, <1>12, <1>13, <1>14, <1>15,
           StepKinds DEF Windows, Steady

(* A step on files that a window does not see: the register keeps its      *)
(* value.                                                                  *)
LEMMA DurableFrame ==
  ASSUME UNCHANGED <<manifest, mode>>, tx'.dir = tx.dir, tx'.undo = tx.undo, tx'.status = tx.status
  PROVE  Durable' = Durable
  BY DEF Durable

(* The value of the register at the steps that decide about a save.        *)
LEMMA DurableKept ==
  ASSUME Gapless, Steady, Stamped, [Next]_vars, ~ Answer, ~ GivesUp
  PROVE  Durable' = Durable
<1> USE DEF Goto
<1>0. Places /\ Orderly /\ Told /\ Ahead BY DEF Steady, Sensible
<1>1. ASSUME NEW w \in Window, StartLoad(w) PROVE Durable' = Durable
  BY <1>1, DurableFrame DEF StartLoad, disk, memory
<1>2. ASSUME NEW w \in Window, StartSave(w) PROVE Durable' = Durable
  BY <1>2, DurableFrame DEF StartSave, disk
<1>3. CASE Editor BY <1>3, DurableFrame DEF Editor, Edit, memory
<1>4. CASE DropTransaction
  <2>1. mode = "none" BY <1>0, <1>4 DEF DropTransaction, Places, Waiting
  <2> QED BY <1>4, <2>1 DEF DropTransaction, Durable, NoTx, SaveModes
<1>5. CASE BeginRecovery BY <1>5, Forms DEF BeginRecovery, Marked, Durable, Steady
<1>6. CASE FinishLoad BY <1>6 DEF FinishLoad, Durable, EndRequest, disk
<1>7. CASE EnterRequest \/ DocsDone \/ BinsDone \/ BeginPass \/ WriteCurrent \/ RewriteHistory \/ WriteDoc \/ UNCHANGED vars
  BY <1>7, DurableFrame 
     DEF EnterRequest, DocsDone, BinsDone, BeginPass, WriteCurrent, RewriteHistory, WriteDoc, vars, disk, memory
<1>8. CASE AcceptSave
  <2>1. tx'.status = "none" /\ ~ tx.dir BY <1>0, <1>8, Accepts DEF AcceptSave, Orderly, Steady
  <2> QED BY <1>8, <2>1 DEF AcceptSave, Durable
<1>9. CASE WriteJournal \/ WriteHistory
  BY <1>0, <1>9, Forms DEF WriteJournal, WriteHistory, Marked, Durable, Orderly, Steady
<1>10. CASE MarkApplying
  <2>1. manifest.entry = tx.undo /\ tx.status = "prepared" /\ tx.dir
    BY <1>0, <1>10 DEF MarkApplying, Stamped, Serving, Orderly
  <2> QED BY <1>10, <2>1, Forms DEF MarkApplying, Marked, Durable, Steady
<1>11. CASE WriteManifest
  <2>1. tx.dir /\ (tx.status \in {"applying", "rollback_pending"} \/ (tx.status = "committed" /\ mode \in SaveModes))
    BY <1>0, <1>11 DEF WriteManifest, Orderly, Places, Waiting, Modes
  <2> QED BY <1>11, <2>1 DEF WriteManifest, Durable
<1>12. ASSUME NEW d \in Doc, Passes(d) \/ Judges(d) \/ Drops(d) PROVE Durable' = Durable
  BY <1>12, Outcomes, DurableFrame DEF disk, Steady
<1>13. CASE Verifies
  <2>1. ~ Throws BY <1>13, ThrowsBack DEF Verifies, Verify, InPass, Steady
  <2> QED BY <1>13, <2>1, DurableFrame DEF Verifies, Verify, disk
<1>14. CASE Commit
  <2>1. mode \in SaveModes /\ tx.dir /\ tx.status \in {"applying", "committed"}
    BY <1>0, <1>14 DEF Commit, Places, Saved, Orderly
  <2> QED BY <1>14, <2>1, Forms DEF Commit, Marked, Durable, Steady
<1>15. CASE MarkRollback
  <2>1. mode \in SaveModes /\ tx.dir /\ tx.status \in {"applying", "committed"}
    BY <1>0, <1>15 DEF MarkRollback, Places, SaveModes, Orderly
  <2> QED BY <1>15, <2>1, Forms DEF MarkRollback, Marked, Durable, Steady
<1>16. CASE MarkRolledBack
  <2>1. mode \in UndoModes /\ tx.dir /\ tx.status = "rollback_pending"
    BY <1>0, <1>16 DEF MarkRolledBack, Places, Undoing, Orderly
  <2>2. manifest.entry = tx.undo
    BY <1>0, <1>16, <2>1 DEF MarkRolledBack, Ahead, Target, SaveModes, UndoModes
  <2> QED BY <1>16, <2>1, <2>2, Forms DEF MarkRolledBack, Marked, Durable, Steady
<1>17. CASE LeavePending
  <2>1. mode \in UndoModes /\ tx.dir /\ tx.status \in {"rollback_pending", "rolled_back"}
    BY <1>0, <1>17 DEF LeavePending, Places, Undoing, Orderly
  <2>2. tx.status = "rolled_back" => manifest.entry = tx.undo BY <1>0 DEF Told
  <2>3. tx' = Marked("rollback_pending") BY <1>17, Forms DEF LeavePending, Steady
  <2> QED BY <1>17, <2>1, <2>2, <2>3 DEF LeavePending, Marked, Durable
<1>18. CASE ClearTransaction
  BY <1>0, <1>18 DEF ClearTransaction, Orderly, NoTx, Durable
<1> QED BY <1>1, <1>2, <1>3, <1>4, <1>5, <1>6, <1>7, <1>8, <1>9, <1>10, <1>11, <1>12, <1>13, <1>14, <1>15, <1>16,
           <1>17, <1>18, StepKinds DEF Windows, Steady

(* What the windows believe.                                               *)
Belief == [w \in Window |-> win[w].docs]

(* A window that loads learns the value; a save that is answered, or whose *)
(* process ends after the commit record, replaces the value its window     *)
(* has; every other step changes nothing that a window could see.          *)
LEMMA LoadSimulates ==
  ASSUME Alone, Steady, Stamped, ~ tx.dir, NEW w \in Window, Snapshot(w), ~ tx'.dir, UNCHANGED manifest
  PROVE  Abstract!Load(w)
<1>1. Durable = manifest.entry /\ Durable' = manifest.entry BY DEF Durable
<1>2. Durable = current.ref BY <1>1 DEF Steady, Orderly, Told, Undoable, NoTx, Story
<1>3. win'[w].docs = current.ref /\ \A v \in Window : v # w => win'[v] = win[v] BY LoadedWhole
<1>4. Belief' = [Belief EXCEPT ![w] = Durable] BY <1>2, <1>3 DEF Belief
<1> QED BY <1>1, <1>4 DEF Abstract!Load, Belief

LEMMA AnswerSimulates ==
  ASSUME Alone, Steady, Stamped, Answer, (Durable \in Versions)'
  PROVE  \E w \in Window : Abstract!Save(w)
<1>1. Places /\ Orderly /\ Told /\ Holds(Given) BY DEF Steady, Sensible
<1>2. mode \in SaveModes /\ tx.dir /\ tx.status = "committed"
  BY <1>1 DEF Answer, Places, Saved, Orderly
<1>3. req.by \in Window
  <2>1. req \in SaveOf(Given) BY <1>1, <1>2 DEF Answer, Places, Holds, Waiting, SaveModes
  <2> QED BY <2>1 DEF SaveOf
<1>4. Durable = tx.undo BY <1>2 DEF Durable
<1>5. Durable = win[req.by].docs BY <1>2, <1>4 DEF Stamped, Serving
<1>6. Durable' = manifest.entry BY DEF Answer, Durable, NoTx
<1>7. current.ref = manifest.entry BY <1>1, <1>2 DEF Told, Undoable, Story
<1>8. win'[req.by].docs = current.ref /\ \A v \in Window : v # req.by => win'[v] = win[v]
  BY <1>3, WindowForms DEF Answer, Steady
<1>9. Belief' = [Belief EXCEPT ![req.by] = Durable'] BY <1>6, <1>7, <1>8 DEF Belief
<1> QED BY <1>3, <1>5, <1>9 DEF Abstract!Save, Belief

(* A pass that fails keeps the value. A request that ends without an       *)
(* answer keeps it too, unless the journal has "committed" by then: the    *)
(* next recovery lets such a save stand.                                   *)
LEMMA GivingUpSimulates ==
  ASSUME Alone, Steady, Stamped, GivesUp, (Durable \in Versions)'
  PROVE  UNCHANGED <<Durable, Belief>> \/ \E w \in Window : Abstract!Save(w)
<1>1. Places /\ Orderly /\ Holds(Given) BY DEF Steady, Sensible
<1>2. UNCHANGED <<tx, manifest, win>> BY DEF GivesUp, disk
<1>3. UNCHANGED Belief BY <1>2 DEF Belief
<1>4. CASE mode' \in SaveModes <=> mode \in SaveModes BY <1>2, <1>3, <1>4 DEF Durable
<1>5. CASE ~ (mode' \in SaveModes <=> mode \in SaveModes)
  <2>1. mode \in SaveModes
    BY <1>1, <1>5 DEF GivesUp, Throws, EndRequest, InPass, SaveModes, UndoModes, Places, Waiting, Modes
  <2>2. mode' \notin SaveModes BY <1>5, <2>1
  <2>3. tx.dir /\ tx.status \in {"applying", "committed"} BY <1>1, <2>1 DEF Orderly
  <2>4. Durable = win[req.by].docs BY <2>1, <2>3 DEF Stamped, Serving, Durable
  <2>5. req.by \in Window
    <3>1. req \in SaveOf(Given) BY <1>1, <2>1 DEF Places, Holds, Waiting, SaveModes
    <3> QED BY <3>1 DEF SaveOf
  <2> QED BY <1>3, <2>4, <2>5 DEF Abstract!Save, Belief
<1> QED BY <1>4, <1>5

LEMMA StepsSimulate ==
  ASSUME Alone, Steady, Stamped, [Next]_vars, (Durable \in Versions)'
  PROVE  [Abstract!Next]_<<Durable, Belief>>
<1>0. Gapless /\ Orderly BY DEF Alone, Undisturbed, Steady
<1>1. ~ Editor BY DEF Editor, Edit, Alone, Steady, Sensible, Counted
<1>2. CASE Answer BY <1>2, AnswerSimulates DEF Abstract!Next
<1>3. CASE GivesUp BY <1>3, GivingUpSimulates DEF Abstract!Next
<1>4. ASSUME NEW w \in Window, StartLoad(w), ~ tx.dir PROVE Abstract!Next
  BY <1>4, LoadSimulates DEF StartLoad, disk, Abstract!Next
<1>5. CASE FinishLoad
  <2>1. req.by \in Window /\ Snapshot(req.by) /\ ~ tx.dir /\ ~ tx'.dir /\ UNCHANGED manifest
    BY <1>5 DEF FinishLoad, Steady, Sensible, Holds, NoReq, LoadBy, SaveOf, disk
  <2> QED BY <2>1, LoadSimulates DEF Abstract!Next
<1>6. ASSUME ~ Answer, ~ GivesUp, UNCHANGED win PROVE UNCHANGED <<Durable, Belief>>
  BY <1>0, <1>6, DurableKept DEF Belief
<1>7. CASE ~ Answer /\ ~ GivesUp /\ ~ FinishLoad /\ ~ \E w \in Window : StartLoad(w) /\ ~ tx.dir
  <2>1. UNCHANGED win
    <3>1. ASSUME NEW w \in Window, StartLoad(w) \/ StartSave(w) PROVE UNCHANGED win
      BY <1>7, <3>1 DEF StartLoad, StartSave
    <3>2. CASE DropTransaction \/ BeginRecovery \/ EnterRequest \/ AcceptSave \/ WriteJournal \/ WriteHistory
      BY <3>2 DEF DropTransaction, BeginRecovery, EnterRequest, AcceptSave, WriteJournal, WriteHistory
    <3>3. CASE MarkApplying \/ BeginPass \/ DocsDone \/ BinsDone \/ WriteManifest \/ WriteCurrent \/ RewriteHistory
               \/ WriteDoc
      BY <3>3 DEF MarkApplying, BeginPass, DocsDone, BinsDone, WriteManifest, WriteCurrent, RewriteHistory, WriteDoc
    <3>4. ASSUME NEW d \in Doc, Passes(d) \/ Judges(d) \/ Drops(d) PROVE UNCHANGED win
      BY <3>4 DEF Passes, Judges, Drops, CheckDoc, BinDoc
    <3>5. CASE Verifies \/ Commit \/ MarkRollback \/ MarkRolledBack \/ LeavePending \/ ClearTransaction
      BY <3>5 DEF Verifies, Verify, Commit, MarkRollback, MarkRolledBack, LeavePending, ClearTransaction
    <3>6. CASE UNCHANGED vars BY <3>6 DEF vars
    <3> QED BY <1>0, <1>1, <1>7, <3>1, <3>2, <3>3, <3>4, <3>5, <3>6, StepKinds DEF Windows, Steady
  <2> QED BY <1>6, <1>7, <2>1
<1> QED BY <1>2, <1>3, <1>4, <1>5, <1>7

(* Until its first save is through, a new workspace is the empty value, or *)
(* the value of a save that ended after its commit record.                 *)
LEMMA FreshDurable ==
  ASSUME Fresh
  PROVE  Durable = IF tx.status = "committed" /\ mode \notin SaveModes THEN tx.desired ELSE Nothing
  BY DEF Fresh, Begun, Untouched, Whole, NoTx, Durable, Sensible, Holds, TxOf, Statuses

LEMMA FreshBelief ==
  ASSUME Fresh, NEW w \in Window
  PROVE  Belief[w] = Nothing
  BY DEF Fresh, Unsaved, Blank, Belief

(* The first save is answered, or its process ends after the commit record *)
(* and before the answer.                                                  *)
LEMMA FirstSaveSimulates ==
  ASSUME Fresh, pc = "clean", Answer \/ Crash, (Durable \in Versions)'
  PROVE  \E w \in Window : Abstract!Save(w)
<1>1. Places /\ Begun /\ Unsaved /\ Holds(Given) BY DEF Fresh, Sensible
<1>2. mode \in SaveModes BY <1>1 DEF Places, Saved
<1>3. req.by \in Window
  <2>1. req \in SaveOf(Given) BY <1>1, <1>2 DEF Places, Holds, Waiting, SaveModes
  <2> QED BY <2>1 DEF SaveOf
<1>4. Belief[req.by] = Durable BY <1>2, <1>3, FreshDurable, FreshBelief
<1>5. CASE Crash
  <2>1. UNCHANGED Belief BY <1>5 DEF Crash, Belief
  <2> QED BY <1>3, <1>4, <2>1 DEF Abstract!Save, Belief
<1>6. CASE Answer
  <2>1. Durable' = current.ref BY <1>1, <1>2, <1>6 DEF Answer, Durable, NoTx, Begun, Whole
  <2>2. win'[req.by].docs = current.ref /\ \A v \in Window : v # req.by => win'[v] = win[v]
    BY <1>3, <1>6, WindowForms DEF Answer, Fresh
  <2>3. Belief' = [Belief EXCEPT ![req.by] = Durable'] BY <2>1, <2>2 DEF Belief
  <2> QED BY <1>3, <1>4, <2>3 DEF Abstract!Save, Belief
<1> QED BY <1>5, <1>6

LEMMA FreshDurableKept ==
  ASSUME Gapless, Fresh, [Next]_vars, ~ Answer, ~ (pc = "clean" /\ Crash)
  PROVE  Durable' = Durable
<1> USE DEF Goto, Begun, Untouched, SaveModes
<1>0. Places /\ Begun /\ Sensible BY DEF Fresh, Sensible
<1>1. CASE Windows BY <1>1, DurableFrame DEF Windows, StartLoad, StartSave, disk, memory
<1>2. CASE DropTransaction
  <2>1. mode = "none" /\ tx.dir BY <1>0, <1>2 DEF DropTransaction, Places, Waiting
  <2> QED BY <1>2, <2>1 DEF DropTransaction, Durable, NoTx
<1>3. CASE BeginRecovery BY <1>3, Forms, <1>0 DEF BeginRecovery, Marked, Durable
<1>5. CASE RecoveryRefuses \/ FinishLoad \/ RefuseSave
  <2>1. mode = "none" /\ EndRequest /\ UNCHANGED disk
    BY <1>0, <1>5 DEF RecoveryRefuses, FinishLoad, RefuseSave, Places, Waiting
  <2> QED BY <2>1 DEF EndRequest, Durable, disk
<1>6. CASE Crash
  <2>1. EndRequest /\ UNCHANGED disk /\ pc # "clean" BY <1>6 DEF Crash, Dies
  <2> QED BY <1>0, <2>1 DEF EndRequest, Durable, disk
<1>7. CASE EnterRequest \/ BeginPass \/ BatchDone \/ WriteCurrent \/ RewriteHistory \/ UNCHANGED vars
  BY <1>7, DurableFrame DEF EnterRequest, BeginPass, BatchDone, WriteCurrent, RewriteHistory, vars, disk, memory
<1>8. CASE AcceptSave
  <2>1. tx'.status = "none" /\ tx = NoTx BY <1>0, <1>8, Accepts DEF AcceptSave
  <2> QED BY <1>8, <2>1 DEF AcceptSave, Durable, NoTx
<1>9. CASE WriteJournal BY <1>0, <1>9, Forms DEF WriteJournal, Marked, Durable
<1>10. CASE MarkApplying BY <1>0, <1>10, Forms DEF MarkApplying, Marked, Durable, Nothing, NoTx
<1>11. ASSUME NEW l \in loose, Land(l) PROVE Durable' = Durable BY <1>11, DurableFrame DEF Land
<1>12. CASE WriteManifest
  <2>1. mode \in {"first", "recovery"} BY <1>0, <1>12 DEF WriteManifest, Places, Passing, Waiting, Modes, UndoModes
  <2>2. tx.dir /\ tx.status \in {"applying", "rollback_pending"} BY <1>0, <1>12, <2>1 DEF WriteManifest, UndoModes
  <2> QED BY <1>12, <2>2 DEF WriteManifest, Durable
<1>13. CASE Verifies
  <2>1. ~ Throws BY <1>0, <1>13, ThrowsBack DEF Verifies, Verify, InPass
  <2> QED BY <1>13, <2>1, DurableFrame DEF Verifies, Verify, disk
<1>14. CASE Commit
  <2>1. mode = "first" /\ tx.dir /\ tx.status = "applying" BY <1>0, <1>14 DEF Commit, Places, Saved
  <2> QED BY <1>14, <2>1, Forms, <1>0 DEF Commit, Marked, Durable
<1>15. CASE WipeFresh
  <2>1. tx.dir /\ tx.status = "rollback_pending" BY <1>0, <1>15 DEF WipeFresh
  <2> QED BY <1>15, <2>1 DEF WipeFresh, Durable
<1>16. CASE MarkRolledBack
  <2>1. tx.dir /\ tx.status = "rollback_pending" /\ tx.undo = Nothing /\ manifest.entry = Nothing
    BY <1>0, <1>16 DEF MarkRolledBack, Places, Undoing, NoTx
  <2> QED BY <1>0, <1>16, <2>1, Forms DEF MarkRolledBack, Marked, Durable
<1>17. CASE ClearTransaction
  <2>1. tx.dir /\ tx.status = "rolled_back" BY <1>0, <1>17 DEF ClearTransaction, Places, Undoing
  <2> QED BY <1>17, <2>1 DEF ClearTransaction, Durable, NoTx
<1> QED BY <1>1, <1>2, <1>3, <1>5, <1>6, <1>7, <1>8, <1>9, <1>10, <1>11, <1>12, <1>13, <1>14, <1>15, <1>16,
           <1>17, FreshKinds

LEMMA FreshSimulates ==
  ASSUME Gapless, Fresh, [Next]_vars, (Durable \in Versions)'
  PROVE  [Abstract!Next]_<<Durable, Belief>>
<1>0. Unsaved /\ Holds(Given) /\ Begun BY DEF Fresh, Sensible
<1>1. CASE pc = "clean" /\ (Answer \/ Crash)
  <2>1. \E w \in Window : Abstract!Save(w) BY <1>1, FirstSaveSimulates
  <2> QED BY <2>1 DEF Abstract!Next
<1>2. CASE ~ (pc = "clean" /\ (Answer \/ Crash))
  <2>1. ~ Answer BY <1>2 DEF Answer
  <2>2. Durable' = Durable BY <1>2, <2>1, FreshDurableKept
  <2>3. UNCHANGED Belief
    <3>1. CASE DropTransaction BY <3>1 DEF DropTransaction, Belief
    <3>2. CASE ~ DropTransaction BY <1>0, <2>1, <3>2, UnsavedKept DEF Unsaved, Belief
    <3> QED BY <3>1, <3>2
  <2> QED BY <2>2, <2>3
<1> QED BY <1>1, <1>2

LEMMA InitSimulates == Init => Abstract!Init
<1> SUFFICES ASSUME Init PROVE Abstract!Init OBVIOUS
<1>1. TypeOK BY InitSensible, SensibleTypeOK
<1>2. Durable \in Versions BY <1>1 DEF TypeOK, Durable
<1> QED BY <1>2 DEF Init, Abstract!Init, Blank

LEMMA OpenedStamped == Opened => Stamped
<1> SUFFICES ASSUME Opened PROVE Stamped OBVIOUS
<1>1. mode = "none" BY DEF Opened, Sensible, Places, Waiting
<1>2. stamp \in Nat /\ current.saved \in Nat BY WindowForms DEF Opened
<1> QED BY <1>1, <1>2 DEF Opened, Stamped, Asking, Serving, SaveModes

(* Where nobody edits from outside, the journal, its recovery and the      *)
(* second pass make of the many files one register: a window reads it      *)
(* whole, and a save replaces it whole, or not at all, from the value its  *)
(* window had, through every death of the process and, once the workspace  *)
(* has been saved, every failure.                                          *)
THEOREM Refinement == ASSUME Alone PROVE Spec => ImplementsAtomicWorkspace
<1> DEFINE Inv == Fresh \/ (Steady /\ Stamped)
<1>0. Gapless /\ Undisturbed BY DEF Alone, Undisturbed
<1>1. Init => Abstract!Init BY InitSimulates
<1>2. Init => Inv BY <1>0, InitFresh, InitSteady, InitStamped
<1>3. Inv /\ [Next]_vars => Inv'
  <2>1. Fresh /\ [Next]_vars => Fresh' \/ Opened' BY <1>0, FreshKept
  <2>2. Steady /\ Stamped /\ [Next]_vars => Steady' /\ Stamped' BY <1>0, NextSteady, StampedKept
  <2>3. Opened' => Steady' /\ Stamped' BY OpenedSteady, OpenedStamped, PTL
  <2> QED BY <2>1, <2>2, <2>3
<1>4. Inv => Durable \in Versions
  <2>1. Inv => TypeOK BY SensibleTypeOK DEF Fresh, Steady
  <2> QED BY <2>1 DEF TypeOK, Durable
<1>5. Inv /\ [Next]_vars /\ (Durable \in Versions)'
        => [Abstract!Next]_<<Durable, [w \in Window |-> win[w].docs]>>
  <2>1. Fresh /\ [Next]_vars /\ (Durable \in Versions)' => [Abstract!Next]_<<Durable, Belief>>
    BY <1>0, FreshSimulates
  <2>2. Steady /\ Stamped /\ [Next]_vars /\ (Durable \in Versions)' => [Abstract!Next]_<<Durable, Belief>>
    BY StepsSimulate
  <2> QED BY <2>1, <2>2 DEF Belief
<1> QED BY <1>1, <1>2, <1>3, <1>4, <1>5, PTL DEF Spec, ImplementsAtomicWorkspace, Abstract!Spec
=============================================================================
