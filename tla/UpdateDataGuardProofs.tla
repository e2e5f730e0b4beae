------------------------ MODULE UpdateDataGuardProofs ------------------------
(***************************************************************************)
(* UpdateDataGuard for every set of entries and every bound.               *)
(***************************************************************************)
EXTENDS UpdateDataGuard, FiniteSetTheorems, TLAPS

USE GuardAssumption

----------------------------------------------------------------------------
(* Types                                                                   *)

(* What a process does at its places: taking the snapshot, working towards *)
(* the end of the transaction, restoring the snapshot, clearing away.      *)
Drafting == {"snapshot", "open"}
Applying == {"migrating", "migrate", "validate", "mark", "marking", "launch", "wait", "install"}
Undoing == {"rollback", "verify", "record"} \cup Restoring
Closing == {"finalize", "removing", "unjournal"}
Engaged == Applying \cup Undoing \cup Closing

JournalType == {NoJournal} \cup [tx : Tx, phase : Phases, retain : BOOLEAN]
Whys == {"none", "start", "install", "worker", "installer"}
Aims == Phases \cup {"none"}
Data == [Entries -> Versions]
ProcType == [at : Places, why : Whys, j : JournalType, aim : Aims, left : SUBSET Entries, away : Data]

Types ==
    /\ root \in Data /\ latest \in Data
    /\ aside \subseteq Entries \X Versions
    /\ late \subseteq Entries \X Versions
    /\ risky \subseteq Entries \X Versions
    /\ snap \in [Tx -> [state : {"gone", "partial", "whole"}, of : Data]]
    /\ journal \in JournalType /\ marker \in {"old", "current", "guarded"} /\ overtaken \in BOOLEAN
    /\ proc \in [Procs -> ProcType]
    /\ used \in [updates : Nat, writes : 0 .. MaxWrites, errors : Nat, crashes : Nat]

(* The locals of a process that a step uses are there.                     *)
Equipped(r) ==
    /\ r.away # Empty => r.at \in Restoring
    /\ r.at \in Drafting \cup Engaged => r.j # NoJournal
Aiming == proc["helper"].at \in {"mark", "marking"} => proc["helper"].aim \in {"installer_running", "installer_succeeded"}

Suited == proc["worker"].why \in {"none", "worker"}

Sensible == Types /\ Aiming /\ Suited /\ \A p \in Procs : Equipped(proc[p])

LEMMA EmptyData == Empty \in Data /\ NoSnapshot \in [state : {"gone", "partial", "whole"}, of : Data]
                   /\ Partial \in [state : {"gone", "partial", "whole"}, of : Data]
<1>1. 0 \in Versions BY DEF Versions
<1>2. Empty \in Data BY <1>1 DEF Empty, Data
<1> QED BY <1>2 DEF NoSnapshot, Partial

(* A process at rest, or at the beginning of an errand.                    *)
Fresh(b, w) == [at |-> b, why |-> w, j |-> NoJournal, aim |-> "none", left |-> {}, away |-> Empty]

LEMMA FreshForms ==
  /\ Nowhere = Fresh("down", "none")
  /\ \A b : [Nowhere EXCEPT !.at = b] = Fresh(b, "none")
  /\ \A b \in Places, w \in Whys : [Nowhere EXCEPT !.at = b, !.why = w] = Fresh(b, w)
  /\ \A b, w : /\ Fresh(b, w).at = b /\ Fresh(b, w).why = w /\ Fresh(b, w).j = NoJournal
               /\ Fresh(b, w).left = {} /\ Fresh(b, w).away = Empty
  /\ \A b \in Places, w \in Whys : Fresh(b, w) \in ProcType
<1>1. \A b \in Places, w \in Whys : Fresh(b, w) \in ProcType
  BY EmptyData DEF Fresh, ProcType, JournalType, Aims
<1>2. Nowhere = Fresh("down", "none") BY DEF Nowhere, Fresh
<1>3. \A b : [Nowhere EXCEPT !.at = b] = Fresh(b, "none") BY DEF Nowhere, Fresh
<1>4. \A b \in Places, w \in Whys : [Nowhere EXCEPT !.at = b, !.why = w] = Fresh(b, w)
  <2> TAKE b \in Places, w \in Whys
  <2>1. Nowhere \in ProcType BY <1>1, <1>2 DEF Places, Whys
  <2> DEFINE r == [Nowhere EXCEPT !.at = b, !.why = w]
  <2>2. r \in ProcType BY <2>1 DEF ProcType
  <2>3. /\ r.at = b /\ r.why = w /\ r.j = Nowhere.j /\ r.aim = Nowhere.aim /\ r.left = Nowhere.left /\ r.away = Nowhere.away
    BY <2>1 DEF ProcType
  <2>4. r = [at |-> r.at, why |-> r.why, j |-> r.j, aim |-> r.aim, left |-> r.left, away |-> r.away]
    <3> HIDE DEF r
    <3> QED BY <2>2 DEF ProcType
  <2> QED BY <2>3, <2>4 DEF Nowhere, Fresh
<1>5. \A b, w : /\ Fresh(b, w).at = b /\ Fresh(b, w).why = w /\ Fresh(b, w).j = NoJournal
                /\ Fresh(b, w).left = {} /\ Fresh(b, w).away = Empty
  BY DEF Fresh
<1> QED BY <1>1, <1>2, <1>3, <1>4, <1>5

(* How a process goes on: to another place, with another copy of the       *)
(* journal, to the end of its errand, or on from a recovery.               *)
Moves(p) == proc' \in [Procs -> ProcType] /\ proc' = [proc EXCEPT ![p] = proc'[p]]
Turns(p, b, j) ==
    /\ Moves(p) /\ proc'[p].at = b /\ proc'[p].j = j
    /\ proc'[p].why = proc[p].why /\ proc'[p].aim = proc[p].aim
    /\ proc'[p].left = proc[p].left /\ proc'[p].away = proc[p].away
Becomes(p, b, w) ==
    /\ Moves(p) /\ proc'[p].at = b /\ proc'[p].why = w
    /\ proc'[p].j = NoJournal /\ proc'[p].away = Empty
Ends(p) ==
    \/ p = "server" /\ proc[p].why = "install" /\ Becomes(p, "serving", "none")
    \/ p = "worker" /\ Becomes(p, "failed", "none")
    \/ p # "worker" /\ ~ (p = "server" /\ proc[p].why = "install") /\ Becomes(p, "down", "none")
Resumes(p) ==
    \/ proc[p].why = "start" /\ Becomes(p, "version", "start")
    \/ p = "worker" /\ proc[p].j.phase # "rolled_back" /\ Becomes(p, "marker", "worker")
    \/ proc[p].why # "start" /\ ~ (p = "worker" /\ proc[p].j.phase # "rolled_back") /\ Ends(p)

LEMMA GoForm ==
  ASSUME proc \in [Procs -> ProcType], NEW p \in Procs, NEW b \in Places, Go(p, b)
  PROVE  Turns(p, b, proc[p].j)
<1>1. proc[p] \in ProcType OBVIOUS
<1>2. /\ [proc[p] EXCEPT !.at = b].at = b /\ [proc[p] EXCEPT !.at = b].why = proc[p].why
      /\ [proc[p] EXCEPT !.at = b].j = proc[p].j /\ [proc[p] EXCEPT !.at = b].aim = proc[p].aim
      /\ [proc[p] EXCEPT !.at = b].left = proc[p].left /\ [proc[p] EXCEPT !.at = b].away = proc[p].away
  BY <1>1 DEF ProcType
<1>3. [proc[p] EXCEPT !.at = b] \in ProcType BY <1>1 DEF ProcType
<1>4. proc' = [proc EXCEPT ![p] = [proc[p] EXCEPT !.at = b]] BY DEF Go
<1> QED BY <1>2, <1>3, <1>4 DEF Turns, Moves

LEMMA GoWithForm ==
  ASSUME proc \in [Procs -> ProcType], NEW p \in Procs, NEW b \in Places, NEW j \in JournalType, GoWith(p, b, j)
  PROVE  Turns(p, b, j)
<1>1. proc[p] \in ProcType OBVIOUS
<1> DEFINE r == [proc[p] EXCEPT !.at = b, !.j = j]
<1>2. r.at = b /\ r.why = proc[p].why /\ r.j = j /\ r.aim = proc[p].aim /\ r.left = proc[p].left /\ r.away = proc[p].away
  BY <1>1 DEF ProcType
<1>3. r \in ProcType BY <1>1 DEF ProcType
<1>4. proc' = [proc EXCEPT ![p] = r] BY DEF GoWith
<1> HIDE DEF r
<1> QED BY <1>2, <1>3, <1>4 DEF Turns, Moves

LEMMA BecomesForm ==
  ASSUME proc \in [Procs -> ProcType], NEW p \in Procs, NEW b \in Places, NEW w \in Whys,
         proc' = [proc EXCEPT ![p] = Fresh(b, w)]
  PROVE  Becomes(p, b, w)
<1>1. Fresh(b, w) \in ProcType BY FreshForms
<1>2. Fresh(b, w).at = b /\ Fresh(b, w).why = w /\ Fresh(b, w).j = NoJournal /\ Fresh(b, w).away = Empty BY DEF Fresh
<1> QED BY <1>1, <1>2 DEF Becomes, Moves

LEMMA ThrowForm ==
  ASSUME proc \in [Procs -> ProcType], NEW p \in Procs, Throw(p)
  PROVE  Ends(p)
<1>1. proc' = [proc EXCEPT ![p] = After(p, proc[p])] BY DEF Throw
<1>2. After(p, proc[p]) = IF p = "server" /\ proc[p].why = "install" THEN Fresh("serving", "none")
                       ELSE IF p = "worker" THEN Fresh("failed", "none") ELSE Fresh("down", "none")
  BY FreshForms DEF After
<1>3. {"serving", "failed", "down"} \subseteq Places /\ "none" \in Whys BY DEF Places, Whys
<1> QED BY <1>1, <1>2, <1>3, BecomesForm DEF Ends

LEMMA RecoveredForm ==
  ASSUME proc \in [Procs -> ProcType], NEW p \in Procs, p = "worker" => proc[p].why # "start", Recovered(p)
  PROVE  Resumes(p)
<1>1. [Nowhere EXCEPT !.at = "version", !.why = "start"] = Fresh("version", "start")
  BY FreshForms DEF Places, Whys
<1>2. [Nowhere EXCEPT !.at = "marker", !.why = "worker"] = Fresh("marker", "worker")
  BY FreshForms DEF Places, Whys
<1>3. proc' = [proc EXCEPT ![p] =
    CASE proc[p].why = "start" -> Fresh("version", "start")
      [] p = "worker" /\ proc[p].j.phase # "rolled_back" -> Fresh("marker", "worker")
      [] OTHER -> After(p, proc[p])]
  BY <1>1, <1>2 DEF Recovered
<1>4. CASE proc[p].why = "start"
  <2>1. proc' = [proc EXCEPT ![p] = Fresh("version", "start")] BY <1>3, <1>4
  <2> QED BY <1>4, <2>1, BecomesForm DEF Resumes, Places, Whys
<1>5. CASE p = "worker" /\ proc[p].j.phase # "rolled_back"
  <2>1. proc' = [proc EXCEPT ![p] = Fresh("marker", "worker")] BY <1>3, <1>5
  <2> QED BY <1>5, <2>1, BecomesForm DEF Resumes, Places, Whys
<1>6. CASE proc[p].why # "start" /\ ~ (p = "worker" /\ proc[p].j.phase # "rolled_back")
  <2>1. proc' = [proc EXCEPT ![p] = After(p, proc[p])] BY <1>3, <1>6
  <2>2. Throw(p) BY <2>1 DEF Throw
  <2> QED BY <1>6, <2>2, ThrowForm DEF Resumes
<1> QED BY <1>4, <1>5, <1>6

(* The journals that are written.                                          *)
LEMMA JournalForms ==
  /\ \A j \in JournalType \ {NoJournal}, x \in Phases :
       /\ [j EXCEPT !.phase = x] \in JournalType /\ [j EXCEPT !.phase = x] # NoJournal
       /\ [j EXCEPT !.phase = x].tx = j.tx /\ [j EXCEPT !.phase = x].phase = x
       /\ [j EXCEPT !.phase = x].retain = j.retain
  /\ \A j \in JournalType \ {NoJournal} : j.tx \in Tx /\ j.phase \in Phases
  /\ NoJournal.tx = 0 /\ NoJournal.phase = "none" /\ 0 \notin Tx /\ NoJournal \in JournalType
<1>1. \A j \in [tx : Tx, phase : Phases, retain : BOOLEAN], x \in Phases :
       /\ [j EXCEPT !.phase = x] \in [tx : Tx, phase : Phases, retain : BOOLEAN]
       /\ [j EXCEPT !.phase = x].tx = j.tx /\ [j EXCEPT !.phase = x].phase = x
       /\ [j EXCEPT !.phase = x].retain = j.retain
  OBVIOUS
<1>2. NoJournal.tx = 0 /\ NoJournal.phase = "none" /\ 0 \notin Tx BY DEF NoJournal, Tx
<1>3. NoJournal \notin [tx : Tx, phase : Phases, retain : BOOLEAN] BY <1>2
<1> QED BY <1>1, <1>2, <1>3 DEF JournalType

LEMMA InitSensible == Init => Sensible
<1> SUFFICES ASSUME Init PROVE Sensible OBVIOUS
<1>1. root \in Data
  <2>1. 0 \in Versions /\ 1 \in Versions BY DEF Versions
  <2> QED BY <2>1 DEF Init, Data
<1>2. latest \in Data BY <1>1 DEF Init, Data
<1>3. proc \in [Procs -> ProcType] /\ \A p \in Procs : proc[p] = Fresh("down", "none")
  <2>1. Fresh("down", "none") \in ProcType BY FreshForms DEF Places, Whys
  <2> QED BY <2>1, FreshForms DEF Init
<1>4. Types
  <2>1. snap \in [Tx -> [state : {"gone", "partial", "whole"}, of : Data]] BY EmptyData DEF Init
  <2>2. used \in [updates : Nat, writes : 0 .. MaxWrites, errors : Nat, crashes : Nat] BY DEF Init, GuardAssumption
  <2> QED BY <1>1, <1>2, <1>3, <2>1, <2>2 DEF Init, Types, JournalType
<1>5. \A p \in Procs : Equipped(proc[p])
  <2>1. \A p \in Procs : proc[p].at = "down" /\ proc[p].away = Empty BY <1>3 DEF Fresh
  <2> QED BY <2>1 DEF Equipped, Drafting, Engaged, Applying, Undoing, Closing, Restoring
<1>6. Aiming /\ Suited
  <2>1. \A p \in Procs : proc[p].at = "down" /\ proc[p].why = "none" BY <1>3 DEF Fresh
  <2> QED BY <2>1 DEF Aiming, Suited, Procs
<1> QED BY <1>4, <1>5, <1>6 DEF Sensible

----------------------------------------------------------------------------
(* What each step does to its process                                      *)

(* A process of the transaction restores it: where it goes, the entries it *)
(* has left and its quarantine.                                            *)
Carries(p, b, l, a) ==
    /\ Moves(p) /\ proc'[p].at = b /\ proc'[p].j = proc[p].j
    /\ proc'[p].why = proc[p].why /\ proc'[p].aim = proc[p].aim
    /\ proc'[p].left = l /\ proc'[p].away = a
GivesIn(p) ==
    IF p = "server" \/ (p = "helper" /\ proc[p].aim = "installer_succeeded")
      THEN Turns(p, "rollback", proc[p].j)
      ELSE Ends(p)
Draft(p, t) == [tx |-> t, phase |-> "snapshot_verified", retain |-> p = "worker"]

LEMMA DraftForm ==
  ASSUME NEW p \in Procs, NEW t \in Tx
  PROVE  Draft(p, t) \in JournalType \ {NoJournal} /\ Draft(p, t).tx = t /\ Draft(p, t).phase = "snapshot_verified"
<1>1. Draft(p, t) \in [tx : Tx, phase : Phases, retain : BOOLEAN] BY DEF Phases, Draft
<1>2. Draft(p, t).tx = t /\ Draft(p, t).phase = "snapshot_verified" BY DEF Draft
<1> QED BY <1>1, <1>2, JournalForms DEF JournalType

LEMMA PrepareEffects ==
  ASSUME Sensible, NEW p \in Procs
  PROVE  /\ Refuse(p) => Ends(p)
         /\ BeginSnapshot(p) => \E t \in Unnamed : snap' = [snap EXCEPT ![t] = Partial] /\ Turns(p, "snapshot", Draft(p, t))
         /\ TakeSnapshot(p) => Turns(p, "open", proc[p].j)
         /\ Open(p) => Turns(p, "migrating", proc[p].j)
         /\ PrepareFails(p) => Ends(p)
         /\ MarkMigrating(p) => Turns(p, "migrate", Phase(p, "migrating"))
         /\ Migrate(p) => (\E e \in Legacy : root[e] = 0 /\ root' = [root EXCEPT ![e] = 1] /\ UNCHANGED proc)
                          \/ ((\A e \in Legacy : root[e] # 0) /\ Turns(p, "validate", proc[p].j) /\ UNCHANGED root)
         /\ MigrateHarms(p) => Turns(p, "validate", proc[p].j)
         /\ Validate(p) => \/ /\ Contains(snap[proc[p].j.tx].of, root) /\ Turns(p, "mark", Phase(p, "data_prepared"))
                              /\ journal' = Phase(p, "data_prepared") /\ UNCHANGED <<root, aside, snap, marker, history, used>>
                           \/ /\ ~ Contains(snap[proc[p].j.tx].of, root) /\ Turns(p, "verify", proc[p].j)
                              /\ UNCHANGED <<disk, history, used>>
         /\ MigrationFails(p) => Turns(p, "verify", proc[p].j)
<1>0. proc \in [Procs -> ProcType] /\ Equipped(proc[p]) /\ proc[p].j \in JournalType
  BY DEF Sensible, Types, ProcType
<1>1. ASSUME proc[p].at \in {"migrating", "validate"}, NEW x \in Phases PROVE Phase(p, x) \in JournalType
  BY <1>0, <1>1, JournalForms DEF Equipped, Engaged, Applying, Phase
<1>2. {"snapshot", "open", "migrating", "migrate", "validate", "mark", "verify"} \subseteq Places BY DEF Places
<1>3. Refuse(p) \/ PrepareFails(p) => Ends(p) BY <1>0, ThrowForm DEF Refuse, PrepareFails
<1>4. ASSUME BeginSnapshot(p)
      PROVE  \E t \in Unnamed : snap' = [snap EXCEPT ![t] = Partial] /\ Turns(p, "snapshot", Draft(p, t))
  <2>1. \E t \in Unnamed : \A u \in Unnamed : t <= u BY <1>4 DEF BeginSnapshot, Unnamed, Tx
  <2>2. PICK t \in Unnamed : snap' = [snap EXCEPT ![t] = Partial] /\ GoWith(p, "snapshot", Draft(p, t))
    BY <1>4, <2>1 DEF BeginSnapshot, Draft
  <2>3. Draft(p, t) \in JournalType BY DraftForm DEF Unnamed
  <2> QED BY <1>0, <1>2, <2>2, <2>3, GoWithForm
<1>5. TakeSnapshot(p) => Turns(p, "open", proc[p].j) BY <1>0, <1>2, GoForm DEF TakeSnapshot
<1>6. Open(p) => Turns(p, "migrating", proc[p].j) BY <1>0, <1>2, GoWithForm DEF Open, WriteJournal
<1>7. MarkMigrating(p) => Turns(p, "migrate", Phase(p, "migrating"))
  BY <1>0, <1>1, <1>2, GoWithForm DEF MarkMigrating, WriteJournal, At, Phases
<1>8. Migrate(p) => (\E e \in Legacy : root[e] = 0 /\ root' = [root EXCEPT ![e] = 1] /\ UNCHANGED proc)
                    \/ ((\A e \in Legacy : root[e] # 0) /\ Turns(p, "validate", proc[p].j) /\ UNCHANGED root)
  BY <1>0, <1>2, GoForm DEF Migrate
<1>9. MigrateHarms(p) => Turns(p, "validate", proc[p].j) BY <1>0, <1>2, GoForm DEF MigrateHarms
<1>10. ASSUME Validate(p)
       PROVE  \/ /\ Contains(snap[proc[p].j.tx].of, root) /\ Turns(p, "mark", Phase(p, "data_prepared"))
                 /\ journal' = Phase(p, "data_prepared") /\ UNCHANGED <<root, aside, snap, marker, history, used>>
              \/ /\ ~ Contains(snap[proc[p].j.tx].of, root) /\ Turns(p, "verify", proc[p].j)
                 /\ UNCHANGED <<disk, history, used>>
  <2>1. Phase(p, "data_prepared") \in JournalType BY <1>1, <1>10 DEF Validate, At, Phases
  <2> QED BY <1>0, <1>2, <1>10, <2>1, GoForm, GoWithForm DEF Validate, WriteJournal
<1>11. MigrationFails(p) => Turns(p, "verify", proc[p].j) BY <1>0, <1>2, GoForm DEF MigrationFails
<1> QED BY <1>3, <1>4, <1>5, <1>6, <1>7, <1>8, <1>9, <1>10, <1>11

LEMMA MarkEffects ==
  ASSUME Sensible, NEW p \in Procs
  PROVE  /\ ReadForMark(p) => IF journal # NoJournal /\ journal.tx = proc[p].j.tx
                                THEN Turns(p, "marking", journal) ELSE GivesIn(p)
         /\ WriteMark(p) => /\ Target(p) \in Phases /\ proc[p].j \in JournalType \ {NoJournal}
                            /\ p = "server" => Turns(p, "launch", Phase(p, Target(p)))
                            /\ p = "worker" => Turns(p, "recover", Phase(p, Target(p)))
                            /\ p = "helper" => IF proc[p].aim = "installer_running"
                                                 THEN Turns(p, "wait", Phase(p, Target(p))) ELSE Ends(p)
         /\ MarkFails(p) => GivesIn(p)
<1>0. proc \in [Procs -> ProcType] /\ Equipped(proc[p]) /\ proc[p].j \in JournalType /\ journal \in JournalType
  BY DEF Sensible, Types, ProcType
<1>1. {"rollback", "marking", "launch", "recover", "wait"} \subseteq Places BY DEF Places
<1>2. MarkThrows(p) => GivesIn(p) BY <1>0, <1>1, GoForm, ThrowForm DEF MarkThrows, GivesIn
<1>3. ReadForMark(p) => IF journal # NoJournal /\ journal.tx = proc[p].j.tx
                          THEN Turns(p, "marking", journal) ELSE GivesIn(p)
  BY <1>0, <1>1, <1>2, GoWithForm DEF ReadForMark
<1>4. ASSUME WriteMark(p)
      PROVE  /\ Target(p) \in Phases /\ proc[p].j \in JournalType \ {NoJournal}
             /\ p = "server" => Turns(p, "launch", Phase(p, Target(p)))
             /\ p = "worker" => Turns(p, "recover", Phase(p, Target(p)))
             /\ p = "helper" => IF proc[p].aim = "installer_running"
                                  THEN Turns(p, "wait", Phase(p, Target(p))) ELSE Ends(p)
  <2>1. Target(p) \in Phases /\ (p = "helper" => Target(p) = proc[p].aim)
    BY <1>4 DEF Target, Procs, Phases, Finished, WriteMark, At, Sensible, Aiming
  <2>2. proc[p].j \in JournalType \ {NoJournal} BY <1>0, <1>4 DEF WriteMark, At, Equipped, Engaged, Applying
  <2>3. Phase(p, Target(p)) \in JournalType BY <2>1, <2>2, JournalForms DEF Phase
  <2>4. CASE p = "server"
    <3>1. GoWith(p, "launch", Phase(p, Target(p))) BY <1>4, <2>4 DEF WriteMark
    <3> QED BY <1>0, <1>1, <2>1, <2>2, <2>3, <2>4, <3>1, GoWithForm
  <2>5. CASE p = "worker"
    <3>1. GoWith(p, "recover", Phase(p, Target(p))) BY <1>4, <2>5 DEF WriteMark
    <3> QED BY <1>0, <1>1, <2>1, <2>2, <2>3, <2>5, <3>1, GoWithForm
  <2>6. CASE p = "helper"
    <3>1. CASE proc[p].aim = "installer_running"
      <4>1. GoWith(p, "wait", Phase(p, Target(p))) BY <1>4, <2>1, <2>6, <3>1 DEF WriteMark
      <4> QED BY <1>0, <1>1, <2>1, <2>2, <2>3, <2>6, <3>1, <4>1, GoWithForm
    <3>2. CASE proc[p].aim # "installer_running"
      <4>1. Throw(p) BY <1>4, <2>1, <2>6, <3>2 DEF WriteMark
      <4> QED BY <1>0, <2>1, <2>2, <2>6, <3>2, <4>1, ThrowForm
    <3> QED BY <3>1, <3>2
  <2> QED BY <2>4, <2>5, <2>6 DEF Procs
<1>5. MarkFails(p) => GivesIn(p) BY <1>2 DEF MarkFails
<1> QED BY <1>3, <1>4, <1>5

LEMMA RestoreEffects ==
  ASSUME Sensible, NEW p \in Procs
  PROVE  /\ ReadForRollback(p) => \/ journal = NoJournal /\ Resumes(p)
                                  \/ journal # NoJournal /\ journal.tx # proc[p].j.tx /\ Ends(p)
                                  \/ journal # NoJournal /\ journal.tx = proc[p].j.tx /\ Turns(p, "verify", journal)
         /\ Verify(p) => \/ Whole(p) /\ Carries(p, "move", {e \in Entries : root[e] # 0}, proc[p].away)
                         \/ ~ Whole(p) /\ Ends(p)
         /\ Move(p) => \/ \E e \in proc[p].left :
                            /\ root[e] # 0 /\ root' = [root EXCEPT ![e] = 0]
                            /\ Carries(p, "move", proc[p].left \ {e}, [proc[p].away EXCEPT ![e] = root[e]])
                       \/ /\ proc[p].left = {} /\ UNCHANGED root
                          /\ Carries(p, "copy", {e \in Entries : Snapshot(p).of[e] # 0}, proc[p].away)
         /\ MoveFails(p) => Turns(p, "putback", proc[p].j)
         /\ PutBack(p) \/ PutBackFails(p) \/ Return(p) \/ ReturnFails(p) => Ends(p)
         /\ Copy(p) => \/ \E e \in proc[p].left :
                            /\ Whole(p) /\ root' = [root EXCEPT ![e] = Snapshot(p).of[e]] /\ UNCHANGED aside
                            /\ Carries(p, "copy", proc[p].left \ {e}, proc[p].away)
                       \/ /\ proc[p].left = {} /\ root = Snapshot(p).of /\ UNCHANGED root /\ KeepAway(p)
                          /\ Carries(p, "record", proc[p].left, Empty)
         /\ CopyFails(p) => Turns(p, "wipe", proc[p].j)
         /\ Wipe(p) => Turns(p, "return", proc[p].j)
         /\ Record(p) \/ RecordFails(p) => /\ Turns(p, "finalize", Phase(p, "rolled_back"))
                                           /\ proc[p].j \in JournalType \ {NoJournal}
<1>0. proc \in [Procs -> ProcType] /\ Equipped(proc[p]) /\ proc[p].j \in JournalType /\ journal \in JournalType
      /\ (p = "worker" => proc[p].why # "start")
  BY DEF Sensible, Types, ProcType, Suited
<1>1. {"verify", "move", "copy", "record", "putback", "wipe", "return", "finalize"} \subseteq Places
  BY DEF Places, Restoring
<1>2. ReadForRollback(p) => \/ journal = NoJournal /\ Resumes(p)
                            \/ journal # NoJournal /\ journal.tx # proc[p].j.tx /\ Ends(p)
                            \/ journal # NoJournal /\ journal.tx = proc[p].j.tx /\ Turns(p, "verify", journal)
  <2>1. CASE journal = NoJournal BY <1>0, <2>1, RecoveredForm DEF ReadForRollback
  <2>2. CASE journal # NoJournal /\ journal.tx # proc[p].j.tx BY <1>0, <2>2, ThrowForm DEF ReadForRollback
  <2>3. CASE journal # NoJournal /\ journal.tx = proc[p].j.tx
    <3>1. ReadForRollback(p) => GoWith(p, "verify", journal) BY <2>3 DEF ReadForRollback
    <3> QED BY <1>0, <1>1, <2>3, <3>1, GoWithForm
  <2> QED BY <2>1, <2>2, <2>3
<1>3. Verify(p) => \/ Whole(p) /\ Carries(p, "move", {e \in Entries : root[e] # 0}, proc[p].away)
                   \/ ~ Whole(p) /\ Ends(p)
  <2>1. ASSUME Verify(p), Whole(p) PROVE Carries(p, "move", {e \in Entries : root[e] # 0}, proc[p].away)
    <3> DEFINE l == {e \in Entries : root[e] # 0}
    <3>1. proc' = [proc EXCEPT ![p].at = "move", ![p].left = l] BY <2>1 DEF Verify
    <3>2. l \in SUBSET Entries OBVIOUS
    <3> HIDE DEF l
    <3>3. proc' \in [Procs -> ProcType] BY <1>0, <1>1, <3>1, <3>2 DEF ProcType
    <3>4. proc' = [proc EXCEPT ![p] = proc'[p]] BY <1>0, <3>1, <3>3
    <3>5. proc'[p].at = "move" /\ proc'[p].left = l /\ proc'[p].j = proc[p].j /\ proc'[p].why = proc[p].why
          /\ proc'[p].aim = proc[p].aim /\ proc'[p].away = proc[p].away
      BY <1>0, <3>1 DEF ProcType
    <3> QED BY <3>3, <3>4, <3>5 DEF Carries, Moves, l
  <2> QED BY <1>0, <2>1, ThrowForm DEF Verify
<1>4. Move(p) => \/ \E e \in proc[p].left :
                       /\ root[e] # 0 /\ root' = [root EXCEPT ![e] = 0]
                       /\ Carries(p, "move", proc[p].left \ {e}, [proc[p].away EXCEPT ![e] = root[e]])
                 \/ /\ proc[p].left = {} /\ UNCHANGED root
                    /\ Carries(p, "copy", {e \in Entries : Snapshot(p).of[e] # 0}, proc[p].away)
  <2>1. ASSUME NEW e \in proc[p].left, root[e] # 0, At(p, "move"),
               proc' = [proc EXCEPT ![p].left = @ \ {e}, ![p].away[e] = root[e]]
        PROVE  Carries(p, "move", proc[p].left \ {e}, [proc[p].away EXCEPT ![e] = root[e]])
    <3>1. e \in Entries /\ root[e] \in Versions BY <1>0 DEF ProcType, Sensible, Types, Data
    <3>2. proc' \in [Procs -> ProcType] BY <1>0, <2>1, <3>1 DEF ProcType, Data
    <3>3. proc' = [proc EXCEPT ![p] = proc'[p]] BY <1>0, <2>1, <3>2
    <3>4. proc'[p].at = "move" /\ proc'[p].left = proc[p].left \ {e} /\ proc'[p].j = proc[p].j
          /\ proc'[p].why = proc[p].why /\ proc'[p].aim = proc[p].aim
          /\ proc'[p].away = [proc[p].away EXCEPT ![e] = root[e]]
      BY <1>0, <2>1 DEF ProcType, At
    <3> QED BY <3>2, <3>3, <3>4 DEF Carries, Moves
  <2>2. ASSUME proc' = [proc EXCEPT ![p].at = "copy", ![p].left = {e \in Entries : Snapshot(p).of[e] # 0}]
        PROVE  Carries(p, "copy", {e \in Entries : Snapshot(p).of[e] # 0}, proc[p].away)
    <3> DEFINE l == {e \in Entries : Snapshot(p).of[e] # 0}
    <3>1. proc' = [proc EXCEPT ![p].at = "copy", ![p].left = l] BY <2>2
    <3>2. l \in SUBSET Entries OBVIOUS
    <3> HIDE DEF l
    <3>3. proc' \in [Procs -> ProcType] BY <1>0, <1>1, <3>1, <3>2 DEF ProcType
    <3>4. proc' = [proc EXCEPT ![p] = proc'[p]] BY <1>0, <3>1, <3>3
    <3>5. proc'[p].at = "copy" /\ proc'[p].left = l /\ proc'[p].j = proc[p].j /\ proc'[p].why = proc[p].why
          /\ proc'[p].aim = proc[p].aim /\ proc'[p].away = proc[p].away
      BY <1>0, <3>1 DEF ProcType
    <3> QED BY <3>3, <3>4, <3>5 DEF Carries, Moves, l
  <2> QED BY <2>1, <2>2 DEF Move
<1>5. Copy(p) => \/ \E e \in proc[p].left :
                       /\ Whole(p) /\ root' = [root EXCEPT ![e] = Snapshot(p).of[e]] /\ UNCHANGED aside
                       /\ Carries(p, "copy", proc[p].left \ {e}, proc[p].away)
                 \/ /\ proc[p].left = {} /\ root = Snapshot(p).of /\ UNCHANGED root /\ KeepAway(p)
                    /\ Carries(p, "record", proc[p].left, Empty)
  <2>1. ASSUME NEW e \in proc[p].left, At(p, "copy"), proc' = [proc EXCEPT ![p].left = @ \ {e}]
        PROVE  Carries(p, "copy", proc[p].left \ {e}, proc[p].away)
    <3>1. proc' \in [Procs -> ProcType] BY <1>0, <2>1 DEF ProcType
    <3>2. proc' = [proc EXCEPT ![p] = proc'[p]] BY <1>0, <2>1, <3>1
    <3>3. proc'[p].at = "copy" /\ proc'[p].left = proc[p].left \ {e} /\ proc'[p].j = proc[p].j
          /\ proc'[p].why = proc[p].why /\ proc'[p].aim = proc[p].aim /\ proc'[p].away = proc[p].away
      BY <1>0, <2>1 DEF ProcType, At
    <3> QED BY <3>1, <3>2, <3>3 DEF Carries, Moves
  <2>2. ASSUME proc' = [proc EXCEPT ![p].at = "record", ![p].away = Empty]
        PROVE  Carries(p, "record", proc[p].left, Empty)
    <3>1. proc' \in [Procs -> ProcType] BY <1>0, <1>1, <2>2, EmptyData DEF ProcType
    <3>2. proc' = [proc EXCEPT ![p] = proc'[p]] BY <1>0, <2>2, <3>1
    <3>3. proc'[p].at = "record" /\ proc'[p].left = proc[p].left /\ proc'[p].j = proc[p].j
          /\ proc'[p].why = proc[p].why /\ proc'[p].aim = proc[p].aim /\ proc'[p].away = Empty
      BY <1>0, <2>2 DEF ProcType
    <3> QED BY <3>1, <3>2, <3>3 DEF Carries, Moves
  <2> QED BY <2>1, <2>2 DEF Copy
<1>6. MoveFails(p) => Turns(p, "putback", proc[p].j) BY <1>0, <1>1, GoForm DEF MoveFails
<1>7. PutBack(p) \/ PutBackFails(p) \/ Return(p) \/ ReturnFails(p) => Ends(p)
  BY <1>0, ThrowForm DEF PutBack, PutBackFails, Return, ReturnFails
<1>8. CopyFails(p) => Turns(p, "wipe", proc[p].j) BY <1>0, <1>1, GoForm DEF CopyFails
<1>9. Wipe(p) => Turns(p, "return", proc[p].j) BY <1>0, <1>1, GoForm DEF Wipe
<1>10. ASSUME Record(p) \/ RecordFails(p)
       PROVE  Turns(p, "finalize", Phase(p, "rolled_back")) /\ proc[p].j \in JournalType \ {NoJournal}
  <2>1. proc[p].j \in JournalType \ {NoJournal}
    BY <1>0, <1>10 DEF Record, RecordFails, At, Equipped, Engaged, Undoing
  <2>2. Phase(p, "rolled_back") \in JournalType BY <2>1, JournalForms DEF Phase, Phases, Finished
  <2>3. GoWith(p, "finalize", Phase(p, "rolled_back")) BY <1>10 DEF Record, RecordFails, WriteJournal
  <2> QED BY <1>0, <1>1, <2>1, <2>2, <2>3, GoWithForm
<1> QED BY <1>2, <1>3, <1>4, <1>5, <1>6, <1>7, <1>8, <1>9, <1>10

LEMMA CloseEffects ==
  ASSUME Sensible, NEW p \in Procs
  PROVE  /\ RetainSnapshot(p) => Turns(p, "unjournal", proc[p].j)
         /\ RemoveSnapshot(p) => \/ At(p, "finalize") /\ Turns(p, "removing", proc[p].j)
                                 \/ At(p, "removing") /\ Turns(p, "unjournal", proc[p].j)
         /\ RemoveJournal(p) \/ FinalizeFails(p) => Resumes(p)
         /\ Recover(p) => \/ journal = NoJournal /\ Resumes(p)
                          \/ journal.phase \in Finished /\ journal # NoJournal /\ Turns(p, "finalize", journal)
                          \/ journal # NoJournal /\ journal.phase \notin Finished /\ InstallerAlive /\ Ends(p)
                          \/ journal # NoJournal /\ journal.phase \notin Finished /\ ~ InstallerAlive
                             /\ Turns(p, "rollback", journal)
<1>0. proc \in [Procs -> ProcType] /\ journal \in JournalType /\ (p = "worker" => proc[p].why # "start")
  BY DEF Sensible, Types, ProcType, Suited
<1>1. {"unjournal", "removing", "finalize", "rollback"} \subseteq Places BY DEF Places
<1>2. RetainSnapshot(p) => Turns(p, "unjournal", proc[p].j) BY <1>0, <1>1, GoForm DEF RetainSnapshot
<1>3. RemoveSnapshot(p) => \/ At(p, "finalize") /\ Turns(p, "removing", proc[p].j)
                           \/ At(p, "removing") /\ Turns(p, "unjournal", proc[p].j)
  BY <1>0, <1>1, GoForm DEF RemoveSnapshot
<1>4. RemoveJournal(p) \/ FinalizeFails(p) => Resumes(p)
  BY <1>0, RecoveredForm DEF RemoveJournal, FinalizeFails
<1>5. ASSUME Recover(p)
      PROVE  \/ journal = NoJournal /\ Resumes(p)
             \/ journal.phase \in Finished /\ journal # NoJournal /\ Turns(p, "finalize", journal)
             \/ journal # NoJournal /\ journal.phase \notin Finished /\ InstallerAlive /\ Ends(p)
             \/ journal # NoJournal /\ journal.phase \notin Finished /\ ~ InstallerAlive
                /\ Turns(p, "rollback", journal)
  <2>0. NoJournal.phase \notin Finished /\ (InstallerAlive => journal # NoJournal /\ journal.phase \notin Finished)
    BY JournalForms DEF Finished, InstallerAlive
  <2>1. CASE journal = NoJournal
    <3>1. Recovered(p) BY <1>5, <2>0, <2>1 DEF Recover
    <3> QED BY <1>0, <2>1, <3>1, RecoveredForm
  <2>2. CASE journal # NoJournal /\ journal.phase \in Finished
    <3>1. GoWith(p, "finalize", journal) BY <1>5, <2>0, <2>2 DEF Recover
    <3> QED BY <1>0, <1>1, <2>2, <3>1, GoWithForm
  <2>3. CASE journal # NoJournal /\ journal.phase \notin Finished /\ InstallerAlive
    <3>1. Throw(p) BY <1>5, <2>0, <2>3 DEF Recover
    <3> QED BY <1>0, <2>3, <3>1, ThrowForm
  <2>4. CASE journal # NoJournal /\ journal.phase \notin Finished /\ ~ InstallerAlive
    <3>1. GoWith(p, "rollback", journal) BY <1>5, <2>0, <2>4 DEF Recover
    <3> QED BY <1>0, <1>1, <2>4, <3>1, GoWithForm
  <2> QED BY <2>1, <2>2, <2>3, <2>4
<1> QED BY <1>2, <1>3, <1>4, <1>5

(* The steps of one process only, and of two.                              *)
LEMMA ErrandEffects ==
  ASSUME Sensible
  PROVE  /\ Start => Becomes("server", "recover", "start")
         /\ RequestUpdate => Becomes("server", "prepare", "install")
         /\ Exit => Becomes("server", "down", "none")
         /\ LaunchFails => Turns("server", "rollback", proc["server"].j)
         /\ WriteMarker => Turns("worker", "done", proc["worker"].j)
         /\ WriteMarkerFails => Ends("worker")
         /\ Wait => Turns("helper", IF At("server", "frozen") THEN "rollback" ELSE "install", proc["helper"].j)
         /\ CheckVersion => \/ marker # "old" /\ Becomes("server", "serving", "none")
                            \/ /\ marker = "old" /\ ~ Live("worker") /\ proc' \in [Procs -> ProcType]
                               /\ proc'["server"] = [proc["server"] EXCEPT !.at = "await"]
                               /\ proc'["worker"] = Fresh("prepare", "worker") /\ proc'["helper"] = proc["helper"]
                            \/ /\ marker = "old" /\ Live("worker") /\ overtaken'
                               /\ Turns("server", "await", proc["server"].j)
<1>0. proc \in [Procs -> ProcType] /\ Procs = {"server", "worker", "helper"} BY DEF Sensible, Types, Procs
<1>1. {"recover", "prepare", "down", "rollback", "done", "install", "serving", "await"} \subseteq Places
      /\ {"start", "install", "none", "worker"} \subseteq Whys
  BY DEF Places, Whys
<1>2. Start => Becomes("server", "recover", "start")
  BY <1>0, <1>1, FreshForms, BecomesForm DEF Start
<1>3. RequestUpdate => Becomes("server", "prepare", "install")
  BY <1>0, <1>1, FreshForms, BecomesForm DEF RequestUpdate
<1>4. Exit => Becomes("server", "down", "none")
  BY <1>0, <1>1, FreshForms, BecomesForm DEF Exit
<1>5. LaunchFails => Turns("server", "rollback", proc["server"].j) BY <1>0, <1>1, GoForm DEF LaunchFails
<1>6. WriteMarker => Turns("worker", "done", proc["worker"].j) BY <1>0, <1>1, GoForm DEF WriteMarker
<1>7. WriteMarkerFails => Ends("worker") BY <1>0, ThrowForm DEF WriteMarkerFails
<1>8. Wait => Turns("helper", IF At("server", "frozen") THEN "rollback" ELSE "install", proc["helper"].j)
  BY <1>0, <1>1, GoForm DEF Wait
<1>9. ASSUME CheckVersion
      PROVE  \/ marker # "old" /\ Becomes("server", "serving", "none")
             \/ /\ marker = "old" /\ ~ Live("worker") /\ proc' \in [Procs -> ProcType]
                /\ proc'["server"] = [proc["server"] EXCEPT !.at = "await"]
                /\ proc'["worker"] = Fresh("prepare", "worker") /\ proc'["helper"] = proc["helper"]
             \/ /\ marker = "old" /\ Live("worker") /\ overtaken'
                /\ Turns("server", "await", proc["server"].j)
  <2>1. CASE marker # "old"
    <3>1. proc' = [proc EXCEPT !["server"] = Fresh("serving", "none")] BY <1>9, <2>1, FreshForms DEF CheckVersion
    <3> QED BY <1>0, <1>1, <2>1, <3>1, BecomesForm
  <2>2. CASE marker = "old" /\ ~ Live("worker")
    <3>1. proc' = [proc EXCEPT !["server"].at = "await", !["worker"] = [Nowhere EXCEPT !.at = "prepare", !.why = "worker"]]
      BY <1>9, <2>2 DEF CheckVersion
    <3>2. [Nowhere EXCEPT !.at = "prepare", !.why = "worker"] = Fresh("prepare", "worker")
      BY FreshForms DEF Places, Whys
    <3>3. Fresh("prepare", "worker") \in ProcType BY <1>1, FreshForms DEF Places, Whys
    <3>4. proc["server"] \in ProcType /\ [proc["server"] EXCEPT !.at = "await"] \in ProcType
      BY <1>0, <1>1 DEF ProcType
    <3>5. /\ proc'["server"] = [proc["server"] EXCEPT !.at = "await"]
          /\ proc'["worker"] = Fresh("prepare", "worker") /\ proc'["helper"] = proc["helper"]
      BY <1>0, <3>1, <3>2
    <3>6. proc' \in [Procs -> ProcType] BY <1>0, <3>1, <3>3, <3>4, <3>5
    <3> QED BY <2>2, <3>5, <3>6
  <2>3. CASE marker = "old" /\ Live("worker")
    <3>1. overtaken' /\ proc' = [proc EXCEPT !["server"].at = "await", !["worker"] = @]
      BY <1>9, <2>3 DEF CheckVersion
    <3>2. Go("server", "await") BY <1>0, <3>1 DEF Go
    <3>3. Turns("server", "await", proc["server"].j) BY <1>0, <1>1, <3>2, GoForm
    <3> QED BY <2>3, <3>1, <3>3
  <2> QED BY <2>1, <2>2, <2>3
<1> QED BY <1>2, <1>3, <1>4, <1>5, <1>6, <1>7, <1>8, <1>9

(* The server takes what the worker has come to; the helper is launched;   *)
(* an installer runs; processes die.                                       *)
LEMMA PairEffects ==
  ASSUME Sensible
  PROVE  /\ WorkerEnds => /\ proc' \in [Procs -> ProcType]
                          /\ proc'["server"] = Fresh(IF At("worker", "done") THEN "serving" ELSE "down", "none")
                          /\ proc'["worker"] = Fresh("down", "none") /\ proc'["helper"] = proc["helper"]
         /\ Launch => /\ proc' \in [Procs -> ProcType]
                      /\ proc'["server"] = Fresh("frozen", "install") /\ proc'["worker"] = proc["worker"]
                      /\ proc'["helper"] = [at |-> "mark", why |-> "installer", j |-> proc["server"].j,
                                            aim |-> "installer_running", left |-> {}, away |-> Empty]
         /\ Install => \/ /\ Moves("helper") /\ marker' \in {marker, "old"}
                          /\ proc'["helper"] = [proc["helper"] EXCEPT !.at = "mark", !.aim = "installer_succeeded"]
                       \/ Turns("helper", "rollback", proc["helper"].j) /\ UNCHANGED marker
         /\ Crash => \E ps \in SUBSET Procs :
                       /\ proc' \in [Procs -> ProcType]
                       /\ \A p \in ps : proc'[p] = Fresh(proc'[p].at, "none")
                                        /\ (proc'[p].at = "down" \/ (proc'[p].at = "failed" /\ p = "worker" /\ At("server", "await") /\ "server" \notin ps))
                       /\ \A p \in Procs \ ps : proc'[p] = proc[p]
                       /\ aside' = aside \cup UNION {Quarantine(p) : p \in ps}
<1>0. proc \in [Procs -> ProcType] /\ Procs = {"server", "worker", "helper"} BY DEF Sensible, Types, Procs
<1>1. \A p \in Procs : proc[p] \in ProcType BY <1>0
<1>2. {"serving", "down", "frozen", "mark", "failed", "rollback"} \subseteq Places
      /\ {"install", "none", "installer"} \subseteq Whys /\ {"installer_running", "installer_succeeded"} \subseteq Aims
  BY DEF Places, Whys, Aims, Phases, Finished
<1>3. ASSUME WorkerEnds
      PROVE  /\ proc' \in [Procs -> ProcType]
             /\ proc'["server"] = Fresh(IF At("worker", "done") THEN "serving" ELSE "down", "none")
             /\ proc'["worker"] = Fresh("down", "none") /\ proc'["helper"] = proc["helper"]
  <2>1. [Nowhere EXCEPT !.at = "serving"] = Fresh("serving", "none") /\ Nowhere = Fresh("down", "none") BY FreshForms
  <2>2. proc' = [proc EXCEPT !["worker"] = Fresh("down", "none"),
                             !["server"] = IF At("worker", "done") THEN Fresh("serving", "none") ELSE Fresh("down", "none")]
    BY <1>3, <2>1 DEF WorkerEnds
  <2>3. Fresh("serving", "none") \in ProcType /\ Fresh("down", "none") \in ProcType BY <1>2, FreshForms
  <2> QED BY <1>0, <1>1, <2>2, <2>3
<1>4. ASSUME Launch
      PROVE  /\ proc' \in [Procs -> ProcType]
             /\ proc'["server"] = Fresh("frozen", "install") /\ proc'["worker"] = proc["worker"]
             /\ proc'["helper"] = [at |-> "mark", why |-> "installer", j |-> proc["server"].j,
                                   aim |-> "installer_running", left |-> {}, away |-> Empty]
  <2> DEFINE h == [at |-> "mark", why |-> "installer", j |-> proc["server"].j,
                   aim |-> "installer_running", left |-> {}, away |-> Empty]
             g == [Nowhere EXCEPT !.at = "mark", !.why = "installer", !.j = proc["server"].j, !.aim = "installer_running"]
  <2>1. [Nowhere EXCEPT !.at = "frozen", !.why = "install"] = Fresh("frozen", "install") BY <1>2, FreshForms
  <2>2. h \in ProcType BY <1>0, <1>1, <1>2, EmptyData DEF ProcType
  <2>3. g = h
    <3>1. Nowhere \in ProcType BY <1>2, FreshForms
    <3>2. g \in ProcType BY <1>0, <1>1, <1>2, <3>1 DEF ProcType
    <3>3. g.at = "mark" /\ g.why = "installer" /\ g.j = proc["server"].j /\ g.aim = "installer_running"
          /\ g.left = Nowhere.left /\ g.away = Nowhere.away
      BY <3>1 DEF ProcType
    <3>4. g = [at |-> g.at, why |-> g.why, j |-> g.j, aim |-> g.aim, left |-> g.left, away |-> g.away]
      <4> HIDE DEF g
      <4> QED BY <3>2 DEF ProcType
    <3> QED BY <3>3, <3>4 DEF Nowhere
  <2>4. proc' = [proc EXCEPT !["server"] = Fresh("frozen", "install"), !["helper"] = g]
    BY <1>4, <2>1 DEF Launch
  <2>5. Fresh("frozen", "install") \in ProcType BY <1>2, FreshForms
  <2> HIDE DEF g, h
  <2>6. proc' \in [Procs -> ProcType] /\ proc'["server"] = Fresh("frozen", "install") /\ proc'["worker"] = proc["worker"]
        /\ proc'["helper"] = h
    BY <1>0, <1>1, <2>2, <2>3, <2>4, <2>5
  <2> QED BY <2>6 DEF h
<1>5. ASSUME Install
      PROVE  \/ /\ Moves("helper") /\ marker' \in {marker, "old"}
                /\ proc'["helper"] = [proc["helper"] EXCEPT !.at = "mark", !.aim = "installer_succeeded"]
             \/ Turns("helper", "rollback", proc["helper"].j) /\ UNCHANGED marker
  <2>1. CASE Go("helper", "rollback") /\ UNCHANGED marker BY <1>0, <1>2, <2>1, GoForm
  <2>2. CASE /\ proc' = [proc EXCEPT !["helper"].at = "mark", !["helper"].aim = "installer_succeeded"]
             /\ marker' \in {marker, "old"}
    <3> DEFINE h == [proc["helper"] EXCEPT !.at = "mark", !.aim = "installer_succeeded"]
    <3>1. h \in ProcType BY <1>0, <1>1, <1>2 DEF ProcType
    <3>2. proc' = [proc EXCEPT !["helper"] = h] BY <2>2
    <3> HIDE DEF h
    <3>3. proc' \in [Procs -> ProcType] /\ proc' = [proc EXCEPT !["helper"] = proc'["helper"]] /\ proc'["helper"] = h
      BY <1>0, <3>1, <3>2
    <3> QED BY <2>2, <3>3 DEF Moves, h
  <2> QED BY <1>5, <2>1, <2>2 DEF Install
<1>6. ASSUME Crash
      PROVE  \E ps \in SUBSET Procs :
                       /\ proc' \in [Procs -> ProcType]
                       /\ \A p \in ps : proc'[p] = Fresh(proc'[p].at, "none")
                                        /\ (proc'[p].at = "down" \/ (proc'[p].at = "failed" /\ p = "worker" /\ At("server", "await") /\ "server" \notin ps))
                       /\ \A p \in Procs \ ps : proc'[p] = proc[p]
                       /\ aside' = aside \cup UNION {Quarantine(p) : p \in ps}
  <2>1. PICK ps \in {{"server"}, {"worker"}, {"helper"}, Procs} :
          /\ proc' = [p \in Procs |-> IF p \in ps THEN IF ps = Procs THEN Nowhere ELSE Dead(p) ELSE proc[p]]
          /\ aside' = aside \cup UNION {Quarantine(p) : p \in ps}
    BY <1>6 DEF Crash
  <2>2. Nowhere = Fresh("down", "none") /\ [Nowhere EXCEPT !.at = "failed"] = Fresh("failed", "none") BY FreshForms
  <2>3. Fresh("down", "none") \in ProcType /\ Fresh("failed", "none") \in ProcType
        /\ Fresh("down", "none").at = "down" /\ Fresh("failed", "none").at = "failed"
    BY <1>2, FreshForms DEF Fresh
  <2>4. \A p \in Procs : Dead(p) = Fresh("down", "none") \/ (Dead(p) = Fresh("failed", "none") /\ p = "worker" /\ At("server", "await"))
    BY <2>2 DEF Dead
  <2>5. ps \in SUBSET Procs BY <1>0
  <2>6. proc' \in [Procs -> ProcType] BY <1>0, <1>1, <2>1, <2>2, <2>3, <2>4
  <2>7. ASSUME NEW p \in ps
        PROVE  proc'[p] = Fresh(proc'[p].at, "none")
               /\ (proc'[p].at = "down" \/ (proc'[p].at = "failed" /\ p = "worker" /\ At("server", "await") /\ "server" \notin ps))
    <3>1. CASE ps = Procs BY <2>1, <2>2, <2>3, <2>5, <3>1
    <3>2. CASE ps # Procs
      <4>1. proc'[p] = Dead(p) BY <2>1, <2>5, <3>2
      <4>2. p = "worker" => "server" \notin ps BY <2>1, <3>2
      <4> QED BY <2>3, <2>4, <2>5, <4>1, <4>2
    <3> QED BY <3>1, <3>2
  <2>8. \A p \in Procs \ ps : proc'[p] = proc[p] BY <2>1
  <2> QED BY <2>1, <2>5, <2>6, <2>7, <2>8
<1> QED BY <1>3, <1>4, <1>5, <1>6

----------------------------------------------------------------------------
(* Type correctness                                                        *)

Stored ==
    /\ root \in Data /\ latest \in Data
    /\ aside \subseteq Entries \X Versions
    /\ late \subseteq Entries \X Versions
    /\ risky \subseteq Entries \X Versions
    /\ snap \in [Tx -> [state : {"gone", "partial", "whole"}, of : Data]]
    /\ journal \in JournalType /\ marker \in {"old", "current", "guarded"} /\ overtaken \in BOOLEAN
    /\ used \in [updates : Nat, writes : 0 .. MaxWrites, errors : Nat, crashes : Nat]
Manned == proc \in [Procs -> ProcType] /\ Aiming /\ Suited /\ \A p \in Procs : Equipped(proc[p])

LEMMA SensibleParts == (Sensible <=> Stored /\ Manned) /\ (Sensible' <=> Stored' /\ Manned')
BY DEF Sensible, Types, Stored, Manned

(* A step of one process leaves the others as they are.                    *)
LEMMA MannedFrame ==
  ASSUME Manned, NEW p \in Procs, Moves(p), Equipped(proc'[p]),
         p = "worker" => proc'[p].why \in {"none", "worker"},
         p = "helper" /\ proc'[p].at \in {"mark", "marking"} =>
            proc'[p].aim \in {"installer_running", "installer_succeeded"}
  PROVE  Manned'
<1>1. proc' \in [Procs -> ProcType] /\ \A q \in Procs : q = p \/ proc'[q] = proc[q] BY DEF Moves
<1>2. \A q \in Procs : Equipped(proc'[q]) BY <1>1 DEF Manned
<1>3. Aiming' BY <1>1 DEF Manned, Aiming, Procs
<1>4. Suited' BY <1>1 DEF Manned, Suited, Procs
<1> QED BY <1>1, <1>2, <1>3, <1>4 DEF Manned

LEMMA TurnsKeeps ==
  ASSUME Manned, NEW p \in Procs, NEW b, NEW j, Turns(p, b, j),
         proc[p].at \in Restoring => b \in Restoring, b \in Drafting \cup Engaged => j # NoJournal,
         p = "helper" /\ b \in {"mark", "marking"} => proc[p].at \in {"mark", "marking"}
  PROVE  Manned'
<1>1. Equipped(proc'[p]) BY DEF Manned, Equipped, Turns
<1>2. p = "worker" => proc'[p].why \in {"none", "worker"} BY DEF Manned, Suited, Turns
<1>3. p = "helper" /\ proc'[p].at \in {"mark", "marking"} => proc'[p].aim \in {"installer_running", "installer_succeeded"}
  BY DEF Manned, Aiming, Turns
<1> QED BY <1>1, <1>2, <1>3, MannedFrame DEF Turns

LEMMA CarriesKeeps ==
  ASSUME Manned, NEW p \in Procs, NEW b, NEW l, NEW a, Carries(p, b, l, a),
         proc[p].at \in Undoing, b \in Undoing, a = Empty \/ b \in Restoring
  PROVE  Manned'
<1>1. Equipped(proc'[p]) BY DEF Manned, Equipped, Carries, Engaged
<1>2. p = "worker" => proc'[p].why \in {"none", "worker"} BY DEF Manned, Suited, Carries
<1>3. proc'[p].at \notin {"mark", "marking"} BY DEF Carries, Undoing, Restoring
<1> QED BY <1>1, <1>2, <1>3, MannedFrame DEF Carries

LEMMA BecomesKeeps ==
  ASSUME Manned, NEW p \in Procs, NEW b, NEW w, Becomes(p, b, w),
         b \notin Drafting \cup Engaged, p = "worker" => w \in {"none", "worker"}
  PROVE  Manned'
<1>1. Equipped(proc'[p]) BY DEF Equipped, Becomes
<1>2. proc'[p].at \notin {"mark", "marking"} BY DEF Becomes, Engaged, Applying
<1> QED BY <1>1, <1>2, MannedFrame DEF Becomes

LEMMA EndsKeeps ==
  ASSUME Manned, NEW p \in Procs, Ends(p) \/ Resumes(p)
  PROVE  Manned'
<1>1. \E b \in {"serving", "failed", "down", "version", "marker"}, w \in {"none", "worker", "start"} :
         Becomes(p, b, w) /\ (p = "worker" => w \in {"none", "worker"})
  BY DEF Ends, Resumes, Manned, Suited
<1>2. \A b \in {"serving", "failed", "down", "version", "marker"} : b \notin Drafting \cup Engaged
  BY DEF Drafting, Engaged, Applying, Undoing, Closing, Restoring
<1> QED BY <1>1, <1>2, BecomesKeeps

(* The error counter goes up with a failure.                               *)
LEMMA ErrorForm ==
  ASSUME used \in [updates : Nat, writes : 0 .. MaxWrites, errors : Nat, crashes : Nat], Error
  PROVE  /\ used' \in [updates : Nat, writes : 0 .. MaxWrites, errors : Nat, crashes : Nat]
         /\ used'.writes = used.writes
BY DEF Error

LEMMA PrepareSensible ==
  ASSUME Sensible, NEW p \in Procs, p # "helper", Prepare(p)
  PROVE  Sensible'
<1> USE DEF Drafting, Engaged, Applying, Undoing, Closing, Restoring, At
<1>0. Stored /\ Manned /\ Equipped(proc[p]) /\ proc[p].j \in JournalType
  BY SensibleParts DEF Manned, ProcType
<1>1. CASE Refuse(p)
  <2>1. Manned' BY <1>0, <1>1, EndsKeeps, PrepareEffects
  <2>2. Stored' BY <1>0, <1>1 DEF Refuse, Stored, disk, history
  <2> QED BY <2>1, <2>2, SensibleParts
<1>2. CASE BeginSnapshot(p)
  <2>1. PICK t \in Unnamed : snap' = [snap EXCEPT ![t] = Partial] /\ Turns(p, "snapshot", Draft(p, t))
    BY <1>2, PrepareEffects
  <2>2. t \in Tx /\ Draft(p, t) # NoJournal BY <2>1, DraftForm DEF Unnamed
  <2>3. Manned' BY <1>0, <1>2, <2>1, <2>2, TurnsKeeps DEF BeginSnapshot
  <2>4. snap' \in [Tx -> [state : {"gone", "partial", "whole"}, of : Data]] BY <1>0, <2>1, <2>2, EmptyData DEF Stored
  <2>5. Stored' BY <1>0, <1>2, <2>4 DEF BeginSnapshot, Stored, history
  <2> QED BY <2>3, <2>5, SensibleParts
<1>3. CASE TakeSnapshot(p)
  <2>1. proc[p].j # NoJournal BY <1>0, <1>3 DEF TakeSnapshot, Equipped
  <2>2. Manned' BY <1>0, <1>3, <2>1, PrepareEffects, TurnsKeeps DEF TakeSnapshot
  <2>3. snap' \in [Tx -> [state : {"gone", "partial", "whole"}, of : Data]] BY <1>0, <1>3 DEF TakeSnapshot, Stored
  <2>4. Stored' BY <1>0, <1>3, <2>3 DEF TakeSnapshot, Stored, history
  <2> QED BY <2>2, <2>4, SensibleParts
<1>4. CASE Open(p)
  <2>1. proc[p].j # NoJournal BY <1>0, <1>4 DEF Open, Equipped
  <2>2. Manned' BY <1>0, <1>4, <2>1, PrepareEffects, TurnsKeeps DEF Open
  <2>3. Stored' BY <1>0, <1>4 DEF Open, WriteJournal, Stored, history
  <2> QED BY <2>2, <2>3, SensibleParts
<1>5. CASE MarkMigrating(p)
  <2>1. proc[p].j \in JournalType \ {NoJournal} BY <1>0, <1>5 DEF MarkMigrating, Equipped
  <2>2. Phase(p, "migrating") \in JournalType \ {NoJournal} BY <2>1, JournalForms DEF Phase, Phases
  <2>3. Manned' BY <1>0, <1>5, <2>2, PrepareEffects, TurnsKeeps DEF MarkMigrating
  <2>4. Stored' BY <1>0, <1>5, <2>2 DEF MarkMigrating, WriteJournal, Stored, history
  <2> QED BY <2>3, <2>4, SensibleParts
<1>6. CASE Migrate(p)
  <2>1. proc[p].j # NoJournal BY <1>0, <1>6 DEF Migrate, Equipped
  <2>2. CASE \E e \in Legacy : root[e] = 0 /\ root' = [root EXCEPT ![e] = 1] /\ UNCHANGED proc
    <3>1. 1 \in Versions BY DEF Versions
    <3>2. root' \in Data BY <1>0, <2>2, <3>1 DEF Stored, Data
    <3>3. Stored' BY <1>0, <1>6, <3>2 DEF Migrate, Stored, history
    <3>4. Manned' BY <1>0, <2>2 DEF Manned, Aiming, Suited
    <3> QED BY <3>3, <3>4, SensibleParts
  <2>3. CASE Turns(p, "validate", proc[p].j) /\ UNCHANGED root
    <3>1. Manned' BY <1>0, <1>6, <2>1, <2>3, TurnsKeeps DEF Migrate
    <3>2. Stored' BY <1>0, <1>6, <2>3 DEF Migrate, Stored, history
    <3> QED BY <3>1, <3>2, SensibleParts
  <2> QED BY <1>6, <2>2, <2>3, PrepareEffects
<1>7. CASE Validate(p)
  <2>1. proc[p].j \in JournalType \ {NoJournal} BY <1>0, <1>7 DEF Validate, Equipped
  <2>2. Phase(p, "data_prepared") \in JournalType \ {NoJournal} BY <2>1, JournalForms DEF Phase, Phases
  <2>3. proc[p].at = "validate" BY <1>7 DEF Validate
  <2>4. CASE /\ Turns(p, "mark", Phase(p, "data_prepared"))
             /\ journal' = Phase(p, "data_prepared") /\ UNCHANGED <<root, aside, snap, marker, history, used>>
    <3>1. p # "helper" => Manned' BY <1>0, <2>2, <2>3, <2>4, TurnsKeeps
    <3>2. Stored' BY <1>0, <2>2, <2>4 DEF Stored, history
    <3> QED BY <3>1, <3>2, SensibleParts
  <2>5. CASE Turns(p, "verify", proc[p].j) /\ UNCHANGED <<disk, history, used>>
    <3>1. Manned' BY <1>0, <2>1, <2>3, <2>5, TurnsKeeps
    <3>2. Stored' BY <1>0, <2>5 DEF Stored, disk, history
    <3> QED BY <3>1, <3>2, SensibleParts
  <2> QED BY <1>7, <2>4, <2>5, PrepareEffects
<1> QED BY <1>1, <1>2, <1>3, <1>4, <1>5, <1>6, <1>7 DEF Prepare


LEMMA PreparationFailsSensible ==
  ASSUME Sensible, NEW p \in Procs, PreparationFails(p)
  PROVE  Sensible'
<1> USE DEF Drafting, Engaged, Applying, Undoing, Closing, Restoring, At
<1>0. Stored /\ Manned /\ Equipped(proc[p]) /\ proc[p].j \in JournalType /\ 0 \in Versions
  BY SensibleParts DEF Manned, ProcType, Versions
<1>1. used' \in [updates : Nat, writes : 0 .. MaxWrites, errors : Nat, crashes : Nat]
  BY <1>0, ErrorForm DEF Stored, PreparationFails, PrepareFails, MigrateHarms, MigrationFails
<1>2. CASE PrepareFails(p)
  <2>1. Manned' BY <1>0, <1>2, EndsKeeps, PrepareEffects
  <2>2. snap' \in [Tx -> [state : {"gone", "partial", "whole"}, of : Data]]
    BY <1>0, <1>2, EmptyData DEF PrepareFails, Stored
  <2>3. Stored' BY <1>0, <1>1, <1>2, <2>2 DEF PrepareFails, Stored, history
  <2> QED BY <2>1, <2>3, SensibleParts
<1>3. CASE MigrateHarms(p)
  <2>1. proc[p].j # NoJournal BY <1>0, <1>3 DEF MigrateHarms, Equipped
  <2>2. Manned' BY <1>0, <1>3, <2>1, PrepareEffects, TurnsKeeps DEF MigrateHarms
  <2>3. PICK e \in Kept : root' = [root EXCEPT ![e] = 0] /\ risky' = risky \cup (late \cap {<<e, root[e]>>})
    BY <1>3 DEF MigrateHarms
  <2>4. root' \in Data BY <1>0, <2>3 DEF Stored, Data
  <2>5. risky' \subseteq Entries \X Versions BY <1>0, <2>3 DEF Stored
  <2>6. Stored' BY <1>0, <1>1, <1>3, <2>4, <2>5 DEF MigrateHarms, Stored
  <2> QED BY <2>2, <2>6, SensibleParts
<1>4. CASE MigrationFails(p)
  <2>1. proc[p].j # NoJournal BY <1>0, <1>4 DEF MigrationFails, Equipped
  <2>2. Manned' BY <1>0, <1>4, <2>1, PrepareEffects, TurnsKeeps DEF MigrationFails
  <2>3. Stored' BY <1>0, <1>1, <1>4 DEF MigrationFails, Stored, disk, history
  <2> QED BY <2>2, <2>3, SensibleParts
<1> QED BY <1>2, <1>3, <1>4 DEF PreparationFails

LEMMA MarkSensible ==
  ASSUME Sensible, NEW p \in Procs, Mark(p) \/ MarkFails(p)
  PROVE  Sensible'
<1> USE DEF Drafting, Engaged, Applying, Undoing, Closing, Restoring, At
<1>0. Stored /\ Manned /\ Equipped(proc[p]) BY SensibleParts DEF Manned
<1>1. proc[p].at \in {"mark", "marking"} /\ proc[p].j # NoJournal
  BY <1>0 DEF Mark, ReadForMark, WriteMark, MarkFails, Equipped
<1>2. GivesIn(p) => Manned' BY <1>0, <1>1, TurnsKeeps, EndsKeeps DEF GivesIn
<1>3. CASE ReadForMark(p)
  <2>1. Manned'
    <3>1. CASE journal # NoJournal /\ journal.tx = proc[p].j.tx
      <4>1. Turns(p, "marking", journal) BY <1>3, <3>1, MarkEffects
      <4> QED BY <1>0, <1>1, <3>1, <4>1, TurnsKeeps
    <3>2. CASE ~ (journal # NoJournal /\ journal.tx = proc[p].j.tx) BY <1>2, <1>3, <3>2, MarkEffects
    <3> QED BY <3>1, <3>2
  <2>2. Stored' BY <1>0, <1>3 DEF ReadForMark, Stored, disk, history
  <2> QED BY <2>1, <2>2, SensibleParts
<1>4. CASE WriteMark(p)
  <2>1. Phase(p, Target(p)) \in JournalType \ {NoJournal}
    BY <1>4, MarkEffects, JournalForms DEF Phase
  <2>2. Manned' BY <1>0, <1>1, <1>4, <2>1, MarkEffects, TurnsKeeps, EndsKeeps DEF Procs
  <2>3. Stored' BY <1>0, <1>4, <2>1 DEF WriteMark, Stored, history
  <2> QED BY <2>2, <2>3, SensibleParts
<1>5. CASE MarkFails(p)
  <2>1. Manned' BY <1>2, <1>5, MarkEffects
  <2>2. used' \in [updates : Nat, writes : 0 .. MaxWrites, errors : Nat, crashes : Nat]
    BY <1>0, <1>5, ErrorForm DEF Stored, MarkFails
  <2>3. Stored' BY <1>0, <1>5, <2>2 DEF MarkFails, Stored, disk, history
  <2> QED BY <2>1, <2>3, SensibleParts
<1> QED BY <1>3, <1>4, <1>5 DEF Mark

(* What a restore does to the data root and the quarantines.               *)
LEMMA BackForm ==
  ASSUME Sensible, NEW p \in Procs
  PROVE  Back(p) \in Data /\ proc[p].away \in Data /\ Quarantine(p) \subseteq Entries \X Versions
<1>1. root \in Data /\ latest \in Data /\ proc[p].away \in Data BY DEF Sensible, Types, ProcType
<1>2. Back(p) \in Data BY <1>1 DEF Back, Data
<1>3. Quarantine(p) \subseteq Entries \X Versions BY <1>1 DEF Quarantine, Data
<1> QED BY <1>1, <1>2, <1>3

LEMMA RestoreSensible ==
  ASSUME Sensible, NEW p \in Procs, Restore(p)
  PROVE  Sensible'
<1> USE DEF Drafting, Engaged, Applying, Undoing, Closing, Restoring, At
<1>0. Stored /\ Manned /\ Equipped(proc[p]) /\ journal \in JournalType /\ 0 \in Versions
  BY SensibleParts DEF Manned, Stored, Versions
<1>1. CASE ReadForRollback(p)
  <2>1. Manned' BY <1>0, <1>1, RestoreEffects, TurnsKeeps, EndsKeeps DEF ReadForRollback
  <2>2. Stored' BY <1>0, <1>1 DEF ReadForRollback, Stored, disk, history
  <2> QED BY <2>1, <2>2, SensibleParts
<1>2. CASE Verify(p)
  <2>1. Manned' BY <1>0, <1>2, RestoreEffects, CarriesKeeps, EndsKeeps DEF Verify
  <2>2. Stored' BY <1>0, <1>2 DEF Verify, Stored, disk, history
  <2> QED BY <2>1, <2>2, SensibleParts
<1>3. CASE Move(p)
  <2>1. CASE \E e \in proc[p].left :
               /\ root[e] # 0 /\ root' = [root EXCEPT ![e] = 0]
               /\ Carries(p, "move", proc[p].left \ {e}, [proc[p].away EXCEPT ![e] = root[e]])
    <3>1. Manned' BY <1>0, <1>3, <2>1, CarriesKeeps DEF Move
    <3>2. root' \in Data BY <1>0, <2>1 DEF Stored, Data
    <3>3. Stored' BY <1>0, <1>3, <3>2 DEF Move, Stored, history
    <3> QED BY <3>1, <3>3, SensibleParts
  <2>2. CASE UNCHANGED root /\ Carries(p, "copy", {e \in Entries : Snapshot(p).of[e] # 0}, proc[p].away)
    <3>1. Manned' BY <1>0, <1>3, <2>2, CarriesKeeps DEF Move
    <3>2. Stored' BY <1>0, <1>3, <2>2 DEF Move, Stored, history
    <3> QED BY <3>1, <3>2, SensibleParts
  <2> QED BY <1>3, <2>1, <2>2, RestoreEffects
<1>4. CASE PutBack(p)
  <2>1. Manned' BY <1>0, <1>4, RestoreEffects, EndsKeeps
  <2>2. Stored' BY <1>0, <1>4, BackForm DEF PutBack, Stored, history
  <2> QED BY <2>1, <2>2, SensibleParts
<1>5. CASE Copy(p)
  <2>1. CASE \E e \in proc[p].left :
               /\ Whole(p) /\ root' = [root EXCEPT ![e] = Snapshot(p).of[e]] /\ UNCHANGED aside
               /\ Carries(p, "copy", proc[p].left \ {e}, proc[p].away)
    <3>1. Manned' BY <1>0, <1>5, <2>1, CarriesKeeps DEF Copy
    <3>2. proc[p].j.tx \in Tx
      <4>1. proc[p].j \in JournalType \ {NoJournal} BY <1>0, <1>5 DEF Manned, ProcType, Copy, Equipped
      <4> QED BY <4>1, JournalForms
    <3>3. Snapshot(p).of \in Data BY <1>0, <3>2 DEF Stored, Snapshot
    <3>4. root' \in Data
      <4>1. PICK e \in proc[p].left : root' = [root EXCEPT ![e] = Snapshot(p).of[e]] BY <2>1
      <4>2. e \in Entries BY <1>0 DEF Manned, ProcType
      <4> QED BY <1>0, <3>3, <4>1, <4>2 DEF Stored, Data
    <3>5. Stored' BY <1>0, <1>5, <2>1, <3>4 DEF Copy, Stored, history
    <3> QED BY <3>1, <3>5, SensibleParts
  <2>2. CASE UNCHANGED root /\ KeepAway(p) /\ Carries(p, "record", proc[p].left, Empty)
    <3>1. Manned' BY <1>0, <1>5, <2>2, CarriesKeeps DEF Copy
    <3>2. aside' \subseteq Entries \X Versions BY <1>0, <2>2, BackForm DEF KeepAway, Stored
    <3>3. Stored' BY <1>0, <1>5, <2>2, <3>2 DEF Copy, Stored, history
    <3> QED BY <3>1, <3>3, SensibleParts
  <2> QED BY <1>5, <2>1, <2>2, RestoreEffects
<1>6. CASE Wipe(p)
  <2>1. proc[p].j # NoJournal BY <1>0, <1>6 DEF Wipe, Equipped
  <2>2. Manned' BY <1>0, <1>6, <2>1, RestoreEffects, TurnsKeeps DEF Wipe
  <2>3. Stored' BY <1>0, <1>6, EmptyData DEF Wipe, Stored, history
  <2> QED BY <2>2, <2>3, SensibleParts
<1>7. CASE Return(p)
  <2>1. Manned' BY <1>0, <1>7, RestoreEffects, EndsKeeps
  <2>2. Stored' BY <1>0, <1>7, BackForm DEF Return, Stored, history
  <2> QED BY <2>1, <2>2, SensibleParts
<1>8. CASE Record(p)
  <2>0. "rolled_back" \in Phases BY DEF Phases, Finished
  <2>a. proc[p].j \in JournalType \ {NoJournal} BY <1>8, RestoreEffects
  <2>1. Phase(p, "rolled_back") \in JournalType \ {NoJournal} BY <2>0, <2>a, JournalForms DEF Phase
  <2>2. Manned' BY <1>0, <1>8, <2>1, RestoreEffects, TurnsKeeps DEF Record
  <2>3. Stored' BY <1>0, <1>8, <2>1 DEF Record, WriteJournal, Stored, history
  <2> QED BY <2>2, <2>3, SensibleParts
<1> QED BY <1>1, <1>2, <1>3, <1>4, <1>5, <1>6, <1>7, <1>8 DEF Restore


LEMMA FailsSensible ==
  ASSUME Sensible, NEW p \in Procs, Fails(p)
  PROVE  Sensible'
<1> USE DEF Drafting, Engaged, Applying, Undoing, Closing, Restoring, At
<1>0. Stored /\ Manned /\ Equipped(proc[p]) /\ journal \in JournalType BY SensibleParts DEF Manned, Stored
<1>1. used' \in [updates : Nat, writes : 0 .. MaxWrites, errors : Nat, crashes : Nat]
  BY <1>0, ErrorForm DEF Stored, Fails, MoveFails, PutBackFails, CopyFails, ReturnFails, RecordFails, MarkFails, FinalizeFails
<1>2. CASE MoveFails(p)
  <2>1. proc[p].j # NoJournal BY <1>0, <1>2 DEF MoveFails, Equipped
  <2>2. Manned' BY <1>0, <1>2, <2>1, RestoreEffects, TurnsKeeps DEF MoveFails
  <2>3. Stored' BY <1>0, <1>1, <1>2 DEF MoveFails, Stored, disk, history
  <2> QED BY <2>2, <2>3, SensibleParts
<1>3. CASE PutBackFails(p)
  <2>1. Manned' BY <1>0, <1>3, RestoreEffects, EndsKeeps
  <2>2. PICK e \in Entries : /\ root' = [Back(p) EXCEPT ![e] = root[e]]
                             /\ risky' = risky \cup {<<e, proc[p].away[e]>>}
    BY <1>3 DEF PutBackFails
  <2>3. root' \in Data BY <1>0, <2>2, BackForm DEF Stored, Data
  <2>4. risky' \subseteq Entries \X Versions BY <1>0, <2>2, BackForm DEF Stored, Data
  <2>5. Stored' BY <1>0, <1>1, <1>3, <2>3, <2>4 DEF PutBackFails, Stored
  <2> QED BY <2>1, <2>5, SensibleParts
<1>4. CASE CopyFails(p)
  <2>1. proc[p].j # NoJournal BY <1>0, <1>4 DEF CopyFails, Equipped
  <2>2. Manned' BY <1>0, <1>4, <2>1, RestoreEffects, TurnsKeeps DEF CopyFails
  <2>3. Stored' BY <1>0, <1>1, <1>4 DEF CopyFails, Stored, disk, history
  <2> QED BY <2>2, <2>3, SensibleParts
<1>5. CASE ReturnFails(p)
  <2>1. Manned' BY <1>0, <1>5, RestoreEffects, EndsKeeps
  <2>2. aside' \subseteq Entries \X Versions BY <1>0, <1>5, BackForm DEF ReturnFails, KeepAway, Stored
  <2>3. Stored' BY <1>0, <1>1, <1>5, <2>2 DEF ReturnFails, Stored, history
  <2> QED BY <2>1, <2>3, SensibleParts
<1>6. CASE RecordFails(p)
  <2>1. "rolled_back" \in Phases BY DEF Phases, Finished
  <2>a. proc[p].j \in JournalType \ {NoJournal} BY <1>6, RestoreEffects
  <2>2. Phase(p, "rolled_back") \in JournalType \ {NoJournal} BY <2>1, <2>a, JournalForms DEF Phase
  <2>3. Manned' BY <1>0, <1>6, <2>2, RestoreEffects, TurnsKeeps DEF RecordFails
  <2>4. Stored' BY <1>0, <1>1, <1>6 DEF RecordFails, Stored, disk, history
  <2> QED BY <2>3, <2>4, SensibleParts
<1>7. CASE MarkFails(p) BY <1>7, MarkSensible
<1>8. CASE FinalizeFails(p)
  <2>1. Manned' BY <1>0, <1>8, CloseEffects, EndsKeeps
  <2>2. journal' \in JournalType BY <1>0, <1>8 DEF FinalizeFails, Manned, ProcType
  <2>3. Stored' BY <1>0, <1>1, <1>8, <2>2 DEF FinalizeFails, Stored, history
  <2> QED BY <2>1, <2>3, SensibleParts
<1> QED BY <1>2, <1>3, <1>4, <1>5, <1>6, <1>7, <1>8 DEF Fails

LEMMA CloseSensible ==
  ASSUME Sensible, NEW p \in Procs, Finalize(p) \/ Recover(p)
  PROVE  Sensible'
<1> USE DEF Drafting, Engaged, Applying, Undoing, Closing, Restoring, At
<1>0. Stored /\ Manned /\ Equipped(proc[p]) /\ journal \in JournalType BY SensibleParts DEF Manned, Stored
<1>1. CASE RetainSnapshot(p)
  <2>1. proc[p].j # NoJournal BY <1>0, <1>1 DEF RetainSnapshot, Equipped
  <2>2. Manned' BY <1>0, <1>1, <2>1, CloseEffects, TurnsKeeps DEF RetainSnapshot
  <2>3. Stored' BY <1>0, <1>1 DEF RetainSnapshot, Stored, disk, history
  <2> QED BY <2>2, <2>3, SensibleParts
<1>2. CASE RemoveSnapshot(p)
  <2>1. proc[p].j # NoJournal BY <1>0, <1>2 DEF RemoveSnapshot, Equipped
  <2>2. Manned' BY <1>0, <1>2, <2>1, CloseEffects, TurnsKeeps
  <2>3. snap' \in [Tx -> [state : {"gone", "partial", "whole"}, of : Data]]
    <3>1. \E c \in {NoSnapshot, Partial, snap[proc[p].j.tx]} : snap' = [snap EXCEPT ![proc[p].j.tx] = c]
      BY <1>2 DEF RemoveSnapshot
    <3>2. proc[p].j \in JournalType \ {NoJournal} BY <1>0, <2>1 DEF Manned, ProcType
    <3>3. proc[p].j.tx \in Tx BY <3>2, JournalForms
    <3> QED BY <1>0, <3>1, <3>3, EmptyData DEF Stored
  <2>4. Stored' BY <1>0, <1>2, <2>3 DEF RemoveSnapshot, Stored, history
  <2> QED BY <2>2, <2>4, SensibleParts
<1>3. CASE RemoveJournal(p)
  <2>1. Manned' BY <1>0, <1>3, CloseEffects, EndsKeeps
  <2>2. Stored' BY <1>0, <1>3, JournalForms DEF RemoveJournal, Stored, history
  <2> QED BY <2>1, <2>2, SensibleParts
<1>4. CASE Recover(p)
  <2>1. Manned'
    <3>1. CASE Resumes(p) \/ Ends(p) BY <1>0, <3>1, EndsKeeps
    <3>2. CASE journal # NoJournal /\ (Turns(p, "finalize", journal) \/ Turns(p, "rollback", journal))
      BY <1>0, <1>4, <3>2, TurnsKeeps DEF Recover
    <3> QED BY <1>4, <3>1, <3>2, CloseEffects
  <2>2. Stored' BY <1>0, <1>4 DEF Recover, Overtakes, Stored, disk
  <2> QED BY <2>1, <2>2, SensibleParts
<1> QED BY <1>1, <1>2, <1>3, <1>4 DEF Finalize

LEMMA ErrandSensible ==
  ASSUME Sensible, Start \/ RequestUpdate \/ Exit \/ LaunchFails \/ WriteMarker \/ WriteMarkerFails \/ Wait
  PROVE  Sensible'
<1> USE DEF Drafting, Engaged, Applying, Undoing, Closing, Restoring, At
<1>0. Stored /\ Manned /\ {"server", "worker", "helper"} \subseteq Procs /\ \A p \in Procs : Equipped(proc[p])
  BY SensibleParts DEF Manned, Procs
<1>1. CASE Start
  <2>1. Manned' BY <1>0, <1>1, ErrandEffects, BecomesKeeps
  <2>2. Stored' BY <1>0, <1>1 DEF Start, Stored, disk, history
  <2> QED BY <2>1, <2>2, SensibleParts
<1>2. CASE RequestUpdate
  <2>1. Manned' BY <1>0, <1>2, ErrandEffects, BecomesKeeps
  <2>2. Stored' BY <1>0, <1>2 DEF RequestUpdate, Stored, disk, history
  <2> QED BY <2>1, <2>2, SensibleParts
<1>3. CASE Exit
  <2>1. Manned' BY <1>0, <1>3, ErrandEffects, BecomesKeeps
  <2>2. Stored' BY <1>0, <1>3 DEF Exit, Stored, disk, history
  <2> QED BY <2>1, <2>2, SensibleParts
<1>4. CASE LaunchFails
  <2>1. proc["server"].j # NoJournal BY <1>0, <1>4 DEF LaunchFails, Equipped
  <2>2. Manned' BY <1>0, <1>4, <2>1, ErrandEffects, TurnsKeeps DEF LaunchFails
  <2>3. Stored' BY <1>0, <1>4, ErrorForm DEF LaunchFails, Stored, disk, history
  <2> QED BY <2>2, <2>3, SensibleParts
<1>5. CASE WriteMarker
  <2>1. Manned' BY <1>0, <1>5, ErrandEffects, TurnsKeeps DEF WriteMarker
  <2>2. Stored' BY <1>0, <1>5 DEF WriteMarker, Stored, history
  <2> QED BY <2>1, <2>2, SensibleParts
<1>6. CASE WriteMarkerFails
  <2>1. Manned' BY <1>0, <1>6, ErrandEffects, EndsKeeps
  <2>2. Stored' BY <1>0, <1>6, ErrorForm DEF WriteMarkerFails, Stored, disk, history
  <2> QED BY <2>1, <2>2, SensibleParts
<1>7. CASE Wait
  <2>1. proc["helper"].j # NoJournal BY <1>0, <1>7 DEF Wait, Equipped
  <2>2. Manned' BY <1>0, <1>7, <2>1, ErrandEffects, TurnsKeeps DEF Wait
  <2>3. Stored' BY <1>0, <1>7 DEF Wait, Stored, disk, history
  <2> QED BY <2>2, <2>3, SensibleParts
<1> QED BY <1>1, <1>2, <1>3, <1>4, <1>5, <1>6, <1>7


(* The steps of two processes, and of the world outside.                   *)
LEMMA PairSensible ==
  ASSUME Sensible, CheckVersion \/ WorkerEnds \/ Launch \/ Install
  PROVE  Sensible'
<1> USE DEF Drafting, Engaged, Applying, Undoing, Closing, Restoring, At
<1>0. Stored /\ Manned /\ Procs = {"server", "worker", "helper"} /\ \A p \in Procs : Equipped(proc[p]) /\ proc[p] \in ProcType
  BY SensibleParts DEF Manned, Procs
<1>1. Stored'
  <2>1. CASE CheckVersion BY <1>0, <2>1 DEF CheckVersion, Stored, disk, history
  <2>2. CASE WorkerEnds BY <1>0, <2>2 DEF WorkerEnds, Stored, disk, history
  <2>3. CASE Launch BY <1>0, <2>3 DEF Launch, Stored, disk, history
  <2>4. CASE Install BY <1>0, <2>4 DEF Install, Stored, history
  <2> QED BY <2>1, <2>2, <2>3, <2>4
<1>2. CASE CheckVersion
  <2>1. CASE Becomes("server", "serving", "none")
    <3>1. Manned' BY <1>0, <2>1, BecomesKeeps
    <3> QED BY <1>1, <3>1, SensibleParts
  <2>2. CASE /\ proc' \in [Procs -> ProcType]
             /\ proc'["server"] = [proc["server"] EXCEPT !.at = "await"]
             /\ proc'["worker"] = Fresh("prepare", "worker") /\ proc'["helper"] = proc["helper"]
    <3>1. Equipped(proc'["server"])
      <4>1. proc["server"].away = Empty BY <1>0, <1>2 DEF CheckVersion, Equipped
      <4>2. proc'["server"].at = "await" /\ proc'["server"].away = proc["server"].away BY <1>0, <2>2 DEF ProcType
      <4> QED BY <4>1, <4>2 DEF Equipped
    <3>2. Equipped(proc'["worker"]) /\ proc'["worker"].why = "worker"
      BY <2>2 DEF Equipped, Fresh
    <3>3. Manned' BY <1>0, <2>2, <3>1, <3>2 DEF Manned, Aiming, Suited
    <3> QED BY <1>1, <3>3, SensibleParts
  <2>3. CASE Turns("server", "await", proc["server"].j)
    <3>1. proc["server"].at \notin Restoring BY <1>2 DEF CheckVersion
    <3>2. Manned' BY <1>0, <2>3, <3>1, TurnsKeeps
    <3> QED BY <1>1, <3>2, SensibleParts
  <2> QED BY <1>2, <2>1, <2>2, <2>3, ErrandEffects
<1>3. CASE WorkerEnds
  <2>1. /\ proc' \in [Procs -> ProcType]
        /\ proc'["server"] = Fresh(IF At("worker", "done") THEN "serving" ELSE "down", "none")
        /\ proc'["worker"] = Fresh("down", "none") /\ proc'["helper"] = proc["helper"]
    BY <1>3, PairEffects
  <2>2. Equipped(proc'["server"]) /\ Equipped(proc'["worker"]) /\ proc'["worker"].why = "none"
    BY <2>1 DEF Equipped, Fresh
  <2>3. Manned' BY <1>0, <2>1, <2>2 DEF Manned, Aiming, Suited
  <2> QED BY <1>1, <2>3, SensibleParts
<1>4. CASE Launch
  <2>1. /\ proc' \in [Procs -> ProcType]
        /\ proc'["server"] = Fresh("frozen", "install") /\ proc'["worker"] = proc["worker"]
        /\ proc'["helper"] = [at |-> "mark", why |-> "installer", j |-> proc["server"].j,
                              aim |-> "installer_running", left |-> {}, away |-> Empty]
    BY <1>4, PairEffects
  <2>2. proc["server"].j # NoJournal BY <1>0, <1>4 DEF Launch, Equipped
  <2>3. Equipped(proc'["server"]) /\ Equipped(proc'["helper"]) /\ proc'["helper"].aim = "installer_running"
    BY <2>1, <2>2 DEF Equipped, Fresh
  <2>4. Manned' BY <1>0, <2>1, <2>3 DEF Manned, Aiming, Suited
  <2> QED BY <1>1, <2>4, SensibleParts
<1>5. CASE Install
  <2>1. CASE /\ Moves("helper")
             /\ proc'["helper"] = [proc["helper"] EXCEPT !.at = "mark", !.aim = "installer_succeeded"]
    <3>1. /\ proc'["helper"].at = "mark" /\ proc'["helper"].aim = "installer_succeeded"
          /\ proc'["helper"].away = proc["helper"].away /\ proc'["helper"].j = proc["helper"].j
      BY <1>0, <2>1 DEF ProcType
    <3>2. proc["helper"].away = Empty /\ proc["helper"].j # NoJournal BY <1>0, <1>5 DEF Install, Equipped
    <3>3. Equipped(proc'["helper"]) BY <3>1, <3>2 DEF Equipped
    <3>4. Manned' BY <1>0, <2>1, <3>1, <3>3, MannedFrame
    <3> QED BY <1>1, <3>4, SensibleParts
  <2>2. CASE Turns("helper", "rollback", proc["helper"].j)
    <3>1. proc["helper"].j # NoJournal BY <1>0, <1>5 DEF Install, Equipped
    <3>2. Manned' BY <1>0, <1>5, <2>2, <3>1, TurnsKeeps DEF Install
    <3> QED BY <1>1, <3>2, SensibleParts
  <2> QED BY <1>5, <2>1, <2>2, PairEffects
<1> QED BY <1>2, <1>3, <1>4, <1>5

LEMMA WorldSensible ==
  ASSUME Sensible, Write \/ Crash
  PROVE  Sensible'
<1>0. Stored /\ Manned BY SensibleParts
<1>1. CASE Write
  <2>1. PICK e \in Entries :
          LET v == used.writes + 2
          IN  /\ root' = [root EXCEPT ![e] = v] /\ latest' = [latest EXCEPT ![e] = v]
              /\ late' \in {late, late \cup {<<e, v>>}} /\ risky' \in {risky, risky \cup {<<e, v>>}}
    BY <1>1 DEF Write
  <2>2. used.writes + 2 \in Versions BY <1>0, <1>1 DEF Write, Versions, Stored, GuardAssumption
  <2>3. root' \in Data /\ latest' \in Data BY <1>0, <2>1, <2>2 DEF Stored, Data
  <2>4. late' \subseteq Entries \X Versions /\ risky' \subseteq Entries \X Versions BY <1>0, <2>1, <2>2 DEF Stored
  <2>5. used' \in [updates : Nat, writes : 0 .. MaxWrites, errors : Nat, crashes : Nat]
    BY <1>0, <1>1 DEF Write, Stored, GuardAssumption
  <2>6. Stored' BY <1>0, <1>1, <2>3, <2>4, <2>5 DEF Write, Stored
  <2>7. Manned' BY <1>0, <1>1 DEF Write, Manned, Aiming, Suited
  <2> QED BY <2>6, <2>7, SensibleParts
<1>2. CASE Crash
  <2>1. PICK ps \in SUBSET Procs :
          /\ proc' \in [Procs -> ProcType]
          /\ \A p \in ps : proc'[p] = Fresh(proc'[p].at, "none") /\ proc'[p].at \in {"down", "failed"}
          /\ \A p \in Procs \ ps : proc'[p] = proc[p]
          /\ aside' = aside \cup UNION {Quarantine(p) : p \in ps}
    BY <1>2, PairEffects
  <2>a. ASSUME NEW p \in ps PROVE proc'[p].away = Empty /\ proc'[p].why = "none" /\ proc'[p].at \in {"down", "failed"}
    <3> DEFINE b == proc'[p].at
    <3>1. proc'[p] = Fresh(b, "none") /\ b \in {"down", "failed"} BY <2>1
    <3>2. Fresh(b, "none").away = Empty /\ Fresh(b, "none").why = "none" /\ Fresh(b, "none").at = b BY DEF Fresh
    <3> HIDE DEF b
    <3> QED BY <3>1, <3>2
  <2>2. \A p \in ps : /\ Equipped(proc'[p]) /\ proc'[p].why = "none" /\ proc'[p].at \notin {"mark", "marking"}
    BY <2>a DEF Equipped, Drafting, Engaged, Applying, Undoing, Closing, Restoring
  <2>3. Manned' BY <1>0, <2>1, <2>2 DEF Manned, Aiming, Suited, Procs
  <2>4. aside' \subseteq Entries \X Versions BY <1>0, <2>1, BackForm DEF Stored
  <2>5. used' \in [updates : Nat, writes : 0 .. MaxWrites, errors : Nat, crashes : Nat] BY <1>0, <1>2 DEF Crash, Stored
  <2>6. Stored' BY <1>0, <1>2, <2>4, <2>5 DEF Crash, Stored, history
  <2> QED BY <2>3, <2>6, SensibleParts
<1> QED BY <1>1, <1>2

LEMMA SensibleSteps == Sensible /\ [Next]_vars => Sensible'
<1> SUFFICES ASSUME Sensible, [Next]_vars PROVE Sensible' OBVIOUS
<1>1. {"server", "worker", "helper"} = Procs BY DEF Procs
<1>2. CASE UNCHANGED vars
  <2>1. Stored' BY <1>2, SensibleParts DEF Stored, vars, disk, history
  <2>2. Manned' BY <1>2, SensibleParts DEF Manned, Aiming, Suited, vars
  <2> QED BY <2>1, <2>2, SensibleParts
<1>3. CASE Server
  BY <1>1, <1>3, PrepareSensible, MarkSensible, RestoreSensible, CloseSensible, ErrandSensible, PairSensible DEF Server
<1>4. CASE Worker
  BY <1>1, <1>4, PrepareSensible, MarkSensible, RestoreSensible, CloseSensible, ErrandSensible DEF Worker
<1>5. CASE Helper
  BY <1>1, <1>5, MarkSensible, RestoreSensible, CloseSensible, ErrandSensible, PairSensible DEF Helper
<1>6. CASE Failure
  BY <1>1, <1>6, FailsSensible, PreparationFailsSensible, ErrandSensible DEF Failure
<1>7. CASE RequestUpdate \/ Write \/ Crash BY <1>7, ErrandSensible, WorldSensible
<1> QED BY <1>2, <1>3, <1>4, <1>5, <1>6, <1>7 DEF Next

LEMMA SensibleTypes == Sensible => TypeOK
<1> SUFFICES ASSUME Sensible PROVE TypeOK OBVIOUS
<1>1. aside \cup late \cup risky \subseteq Entries \X Versions BY DEF Sensible, Types
<1>2. ASSUME NEW p \in Procs
      PROVE  /\ proc[p].at \in Places
             /\ proc[p].left \subseteq Entries /\ proc[p].away \in [Entries -> Versions]
             /\ proc[p].away # Empty => proc[p].at \in Restoring
             /\ proc[p].at \in Restoring \cup {"verify", "record", "finalize"} => proc[p].j.tx \in Tx
  <2>1. proc[p] \in ProcType /\ Equipped(proc[p]) BY DEF Sensible, Types
  <2>2. proc[p].at \in Restoring \cup {"verify", "record", "finalize"} => proc[p].j \in JournalType \ {NoJournal}
    BY <2>1 DEF ProcType, Equipped, Engaged, Undoing, Closing
  <2>3. proc[p].at \in Restoring \cup {"verify", "record", "finalize"} => proc[p].j.tx \in Tx BY <2>2, JournalForms
  <2> QED BY <2>1, <2>3 DEF ProcType, Equipped, Data
<1> QED BY <1>1, <1>2 DEF Sensible, Types, TypeOK, Data, JournalType

(* Whichever steps the three processes take, in whatever order they die:   *)
(* only a restore under way holds a quarantine, and whoever restores,      *)
(* verifies or clears away knows the transaction it does it for.           *)
THEOREM TypeCorrect == Spec => []TypeOK
<1>1. Init => Sensible BY InitSensible
<1>2. Sensible /\ [Next]_vars => Sensible' BY SensibleSteps
<1>3. Sensible => TypeOK BY SensibleTypes
<1> QED BY <1>1, <1>2, <1>3, PTL DEF Spec

----------------------------------------------------------------------------
(* Who does what when                                                      *)

(* Whoever holds a transaction: from its snapshot to the end of its errand.*)
Holder(p) == proc[p].at \in Drafting \cup Engaged \/ (p = "worker" /\ At(p, "recover"))

OneHolder == \A p, q \in Procs : Holder(p) /\ Holder(q) => p = q
(* There is no journal before the holder has written it; then it names the *)
(* holder's transaction.                                                   *)
Held(p) ==
    /\ proc[p].at \in Drafting => journal = NoJournal /\ proc[p].j.phase = "snapshot_verified"
    /\ Holder(p) /\ proc[p].at \notin Drafting => journal # NoJournal /\ journal.tx = proc[p].j.tx
    /\ proc[p].at \in Closing => proc[p].j.phase \in Finished
HelperRole ==
    Live("helper") => /\ proc["helper"].at \in Engaged /\ proc["helper"].why = "installer"
                      /\ ~ Live("worker") /\ proc["server"].at \in {"frozen", "down", "recover"}
WorkerRole ==
    /\ Live("worker") => marker = "old" /\ ~ Serving /\ ~ Exclusive
    /\ Holder("worker") => journal.phase # "installer_running" /\ ~ At("worker", "rollback")
    /\ At("worker", "recover") => journal.phase = "installer_succeeded"
ServerRole ==
    /\ proc["server"].at \in {"version", "await", "recover"} => proc["server"].why = "start"
    /\ proc["server"].at \in Drafting \cup Applying \cup {"prepare", "frozen"} => proc["server"].why = "install"
    /\ proc["server"].at \in Undoing \cup Closing => proc["server"].why \in {"install", "start"}
Roles == OneHolder /\ (\A p \in Procs : Held(p)) /\ HelperRole /\ WorkerRole /\ ServerRole

LEMMA Geography ==
  /\ \A b \in {"down", "done", "failed", "serving", "version", "marker", "prepare", "recover", "frozen", "await"} :
        b \notin Drafting /\ b \notin Engaged /\ b \notin Applying /\ b \notin Undoing /\ b \notin Closing
  /\ Engaged = Applying \cup Undoing \cup Closing /\ Restoring \subseteq Undoing
  /\ Drafting \cap Engaged = {} /\ Applying \cap (Undoing \cup Closing) = {} /\ Undoing \cap Closing = {}
  /\ Procs = {"server", "worker", "helper"} /\ "open" \in Drafting
BY DEF Drafting, Engaged, Applying, Undoing, Closing, Restoring, Procs

LEMMA RolesFrame ==
  ASSUME Roles, UNCHANGED <<proc, journal, marker>>
  PROVE  Roles'
BY DEF Roles, OneHolder, Held, Holder, HelperRole, WorkerRole, ServerRole, Live, Serving, Exclusive, At

(* The holder of a transaction goes on with it.                            *)
LEMMA Proceeds ==
  ASSUME Sensible, Roles, NEW p \in Procs, Holder(p), Moves(p), proc'[p].why = proc[p].why,
         proc'[p].at \in Engaged \/ (p = "worker" /\ proc'[p].at = "recover" /\ journal'.phase = "installer_succeeded"),
         journal' # NoJournal, journal'.tx = proc'[p].j.tx, marker' \in {marker, "old"},
         proc'[p].at \in Applying => proc[p].at \in Drafting \cup Applying,
         proc'[p].at \in Closing => proc'[p].j.phase \in Finished,
         p = "worker" => proc'[p].at # "rollback" /\ journal'.phase # "installer_running"
  PROVE  Roles'
<1>1. \A q \in Procs : q # p => proc'[q] = proc[q] /\ ~ Holder(q) BY DEF Moves, Roles, OneHolder
<1>2. \A q \in Procs : q # p => ~ Holder(q)' BY <1>1 DEF Holder, At
<1>3. OneHolder' BY <1>2 DEF OneHolder
<1>4. proc'[p].at \notin Drafting BY Geography
<1>5. \A q \in Procs : Held(q)'
  <2>1. Held(p)' BY <1>4, Geography DEF Held, At
  <2>2. ASSUME NEW q \in Procs, q # p PROVE Held(q)'
    BY <1>1, <1>2, <2>2, Geography DEF Held, Holder, At
  <2> QED BY <2>1, <2>2
<1>6. HelperRole'
  <2>1. CASE p = "helper"
    <3>1. Live("helper") BY <2>1, Geography DEF Holder, Live
    <3> QED BY <1>1, <2>1, <3>1, Geography DEF Roles, HelperRole, Live
  <2>2. CASE p # "helper"
    <3>1. ~ Live("helper") BY <1>1, <2>2, Geography DEF Roles, HelperRole, Holder
    <3> QED BY <1>1, <2>2, <3>1, Geography DEF HelperRole, Live
  <2> QED BY <2>1, <2>2
<1>7. WorkerRole'
  <2>1. CASE p = "worker"
    <3>1. Live("worker") BY <2>1, Geography DEF Holder, Live, At
    <3>2. At("worker", "recover")' => journal'.phase = "installer_succeeded" BY <2>1, Geography DEF At
    <3> QED BY <1>1, <2>1, <3>1, <3>2, Geography DEF Roles, WorkerRole, Live, Serving, Exclusive, At
  <2>2. CASE p # "worker"
    <3>1. ~ Holder("worker") /\ ~ Holder("worker")' /\ ~ At("worker", "recover")' BY <1>1, <1>2, <2>2, Geography DEF Holder, At
    <3>2. Live("worker")' => Live("worker") /\ ~ Exclusive' /\ ~ Serving'
      <4>1. Live("worker")' => Live("worker") BY <1>1, <2>2, Geography DEF Live
      <4>2. proc'["server"].why = proc["server"].why BY <1>1, Geography
      <4>3. p = "server" => proc'["server"].at # "serving" BY <2>2, Geography
      <4> QED BY <1>1, <4>1, <4>2, <4>3, Geography DEF Roles, WorkerRole, Serving, Exclusive, At
    <3> QED BY <3>1, <3>2 DEF Roles, WorkerRole
  <2> QED BY <2>1, <2>2
<1>8. ServerRole'
  <2>1. CASE p = "server" BY <2>1, Geography DEF Roles, ServerRole, Holder
  <2>2. CASE p # "server" BY <1>1, <2>2, Geography DEF Roles, ServerRole
  <2> QED BY <2>1, <2>2
<1> QED BY <1>3, <1>5, <1>6, <1>7, <1>8 DEF Roles

(* A process comes to the end of an errand, or on from a recovery.         *)
LEMMA Leaves ==
  ASSUME Sensible, Roles, NEW p \in Procs, Ends(p) \/ Resumes(p), Holder(p) \/ UNCHANGED journal, UNCHANGED marker,
         p = "helper" \/ p = "worker" => Live(p),
         p = "server" => proc[p].at \notin {"frozen", "down", "serving"},
         At("server", "recover") /\ p = "server" => journal = NoJournal \/ Ends(p)
  PROVE  Roles'
<1>1. \A q \in Procs : q # p => proc'[q] = proc[q] BY DEF Ends, Resumes, Becomes, Moves
<1>2. proc'[p].at \in {"serving", "failed", "down", "version", "marker"} BY DEF Ends, Resumes, Becomes
<1>3. ~ Holder(p)' /\ p # "server" => proc'[p].at # "serving" BY <1>2, Geography DEF Holder, At, Ends, Resumes, Becomes
<1>4. OneHolder' BY <1>1, <1>2, Geography DEF OneHolder, Roles, Holder, At
<1>5. \A q \in Procs : Held(q)'
  <2>1. Held(p)' BY <1>2, Geography DEF Held, Holder, At
  <2>2. ASSUME NEW q \in Procs, q # p PROVE Held(q)'
    <3>1. Held(q) /\ proc'[q] = proc[q] BY <1>1, <2>2 DEF Roles
    <3>2. CASE Holder(p)
      <4>1. ~ Holder(q) BY <2>2, <3>2 DEF Roles, OneHolder
      <4> QED BY <3>1, <4>1, Geography DEF Held, Holder, At
    <3>3. CASE UNCHANGED journal BY <3>1, <3>3 DEF Held, Holder, At
    <3> QED BY <3>2, <3>3
  <2> QED BY <2>1, <2>2
<1>6. HelperRole'
  <2>1. CASE p = "helper"
    <3>1. proc["helper"].why = "installer" BY <2>1 DEF Roles, HelperRole
    <3>2. ~ Live("helper")' BY <2>1, <3>1 DEF Ends, Resumes, Becomes, Live
    <3> QED BY <3>2 DEF HelperRole
  <2>2. CASE p = "worker"
    <3>1. ~ Live("helper") BY <2>2 DEF Roles, HelperRole
    <3> QED BY <1>1, <2>2, <3>1, Geography DEF HelperRole, Live
  <2>3. CASE p = "server"
    <3>1. CASE Live("helper")
      <4>1. At("server", "recover") BY <2>3, <3>1 DEF Roles, HelperRole, At
      <4>2. journal # NoJournal
        <5>1. Holder("helper") /\ proc["helper"].at \notin Drafting BY <3>1, Geography DEF Roles, HelperRole, Holder
        <5> QED BY <5>1, Geography DEF Roles, Held
      <4>3. Ends("server") /\ proc["server"].why = "start" BY <2>3, <4>1, <4>2 DEF Roles, ServerRole, At
      <4>4. proc'["server"].at = "down" BY <4>3 DEF Ends, Becomes
      <4> QED BY <1>1, <2>3, <3>1, <4>4, Geography DEF Roles, HelperRole, Live
    <3>2. CASE ~ Live("helper") BY <1>1, <2>3, <3>2, Geography DEF HelperRole, Live
    <3> QED BY <3>1, <3>2
  <2> QED BY <2>1, <2>2, <2>3, Geography
<1>7. WorkerRole'
  <2>1. CASE p = "worker"
    <3>1. Live("worker") BY <2>1
    <3>2. ~ Holder("worker")' /\ ~ At("worker", "recover")' BY <1>2, <2>1, Geography DEF Holder, At
    <3> QED BY <1>1, <2>1, <3>1, <3>2, Geography DEF Roles, WorkerRole, Live, Serving, Exclusive, At
  <2>2. CASE p # "worker"
    <3>1. proc'["worker"] = proc["worker"] BY <1>1, <2>2, Geography
    <3>2. Live("worker")' => Live("worker") /\ ~ Serving' /\ ~ Exclusive'
      <4>1. CASE p = "server" BY <3>1, <4>1 DEF Roles, WorkerRole, Live, Serving, Exclusive, At, Ends, Resumes, Becomes
      <4>2. CASE p = "helper" BY <1>1, <3>1, <4>2, Geography DEF Roles, WorkerRole, Live, Serving, Exclusive, At
      <4> QED BY <2>2, <4>1, <4>2, Geography
    <3>3. Holder("worker")' => Holder("worker") /\ (Holder(p) => FALSE)
      BY <2>2, <3>1, Geography DEF Holder, At, Roles, OneHolder
    <3>4. Holder("worker")' => UNCHANGED journal BY <3>3
    <3>5. At("worker", "recover") => Holder("worker") BY DEF Holder
    <3> QED BY <3>1, <3>2, <3>3, <3>4, <3>5 DEF Roles, WorkerRole, At, Holder
  <2> QED BY <2>1, <2>2
<1>8. ServerRole'
  <2>1. CASE p = "server" BY <1>2, <2>1, Geography DEF ServerRole, Ends, Resumes, Becomes
  <2>2. CASE p # "server" BY <1>1, <2>2, Geography DEF Roles, ServerRole
  <2> QED BY <2>1, <2>2
<1> QED BY <1>4, <1>5, <1>6, <1>7, <1>8 DEF Roles

(* Every step keeps the roles, but for a start that overtakes somebody.    *)
LEMMA PrepareRoles ==
  ASSUME Sensible, Roles, NEW p \in {"server", "worker"}, Prepare(p) \/ PreparationFails(p)
  PROVE  Roles'
<1> USE DEF At
<1>0. /\ p \in Procs /\ proc \in [Procs -> ProcType] /\ Equipped(proc[p]) /\ proc[p].j \in JournalType
      /\ journal \in JournalType /\ Held(p)
  BY Geography DEF Sensible, Types, ProcType, Roles
<1>1. CASE Refuse(p) \/ PrepareFails(p)
  <2>1. Ends(p) /\ UNCHANGED journal /\ UNCHANGED marker
    BY <1>0, <1>1, PrepareEffects DEF Refuse, PrepareFails, disk
  <2>2. proc[p].at \in {"prepare", "snapshot", "open"} BY <1>1 DEF Refuse, PrepareFails
  <2> QED BY <1>0, <2>1, <2>2, Leaves DEF Live
<1>2. CASE BeginSnapshot(p)
  <2>1. PICK t \in Unnamed : Turns(p, "snapshot", Draft(p, t)) BY <1>0, <1>2, PrepareEffects
  <2>2. /\ \A q \in Procs : q # p => proc'[q] = proc[q]
        /\ proc'[p].at = "snapshot" /\ proc'[p].why = proc[p].why /\ proc'[p].j.phase = "snapshot_verified"
    BY <1>0, <2>1, DraftForm DEF Turns, Moves, Unnamed
  <2>3. proc[p].at = "prepare" /\ journal = NoJournal /\ journal' = journal /\ marker' = marker BY <1>2 DEF BeginSnapshot
  <2>4. "snapshot" \in Drafting BY DEF Drafting
  <2>5. \A q \in Procs : Holder(q) => proc[q].at \in Drafting BY <2>3 DEF Roles, Held
  <2>6. ~ Live("helper") BY <2>3, <2>5, Geography DEF Roles, HelperRole, Holder
  <2>7. p = "server" => ~ Live("worker") BY <2>3 DEF Roles, WorkerRole, ServerRole, Exclusive
  <2>8. \A q \in Procs : q # p => ~ Holder(q)
    <3>1. CASE p = "server" BY <2>6, <2>7, <3>1, Geography DEF Holder, Live
    <3>2. CASE p = "worker"
      <4>1. Live("worker") BY <2>3, <3>2 DEF Live
      <4>2. proc["server"].at \notin Drafting BY <4>1 DEF Roles, WorkerRole, ServerRole, Exclusive
      <4>3. ~ Holder("server") BY <2>5, <4>2, Geography
      <4> QED BY <2>6, <3>2, <4>3, Geography DEF Holder, Live
    <3> QED BY <3>1, <3>2
  <2>9. \A q \in Procs : q # p => ~ Holder(q)' BY <2>2, <2>8 DEF Holder
  <2>10. OneHolder' BY <2>9 DEF OneHolder
  <2>11. \A q \in Procs : Held(q)'
    <3>1. Held(p)' BY <2>2, <2>3, <2>4, Geography DEF Held
    <3> QED BY <2>2, <2>3, <2>8, <2>9, <3>1, Geography DEF Roles, Held, Holder
  <2>12. HelperRole' BY <1>0, <2>2, <2>6, Geography DEF HelperRole, Live
  <2>13. WorkerRole'
    <3>1. NoJournal.phase # "installer_running" BY JournalForms
    <3>2. CASE p = "server"
      <4>1. ~ Live("worker")' /\ ~ Holder("worker")' /\ ~ At("worker", "recover")'
        BY <2>2, <2>7, <2>9, <3>2, Geography DEF Live, Holder
      <4> QED BY <4>1 DEF WorkerRole
    <3>3. CASE p = "worker"
      <4>1. Live("worker") /\ proc'["server"] = proc["server"] BY <2>2, <2>3, <3>3, Geography DEF Live
      <4> QED BY <2>2, <2>3, <3>1, <3>3, <4>1 DEF Roles, WorkerRole, Serving, Exclusive
    <3> QED BY <3>2, <3>3
  <2>14. ServerRole'
    <3>1. CASE p = "server"
      <4>1. proc["server"].why = "install" BY <2>3, <3>1 DEF Roles, ServerRole
      <4> QED BY <2>2, <2>4, <3>1, <4>1, Geography DEF ServerRole
    <3>2. CASE p = "worker" BY <2>2, <3>2, Geography DEF Roles, ServerRole
    <3> QED BY <3>1, <3>2
  <2> QED BY <2>10, <2>11, <2>12, <2>13, <2>14 DEF Roles
<1>3. CASE TakeSnapshot(p)
  <2>1. Turns(p, "open", proc[p].j) /\ journal' = journal /\ marker' = marker BY <1>0, <1>3, PrepareEffects DEF TakeSnapshot
  <2>2. /\ \A q \in Procs : q # p => proc'[q] = proc[q]
        /\ proc'[p].at = "open" /\ proc'[p].why = proc[p].why /\ proc'[p].j = proc[p].j
    BY <2>1 DEF Turns, Moves
  <2>3. proc[p].at \in Drafting /\ "open" \in Drafting BY <1>3 DEF TakeSnapshot, Drafting
  <2>4. \A q \in Procs : /\ (Holder(q)' <=> Holder(q)) /\ (proc'[q].at \in Drafting <=> proc[q].at \in Drafting)
                         /\ (proc'[q].at \in Engaged <=> proc[q].at \in Engaged) /\ proc'[q].why = proc[q].why
                         /\ proc'[q].j = proc[q].j /\ (q # p => proc'[q].at = proc[q].at)
    BY <2>2, <2>3, Geography DEF Holder
  <2>5. OneHolder' BY <2>4 DEF Roles, OneHolder
  <2>6. \A q \in Procs : Held(q)' BY <2>1, <2>2, <2>3, <2>4, Geography DEF Roles, Held
  <2>7. HelperRole'
    <3>1. p = "worker" => Live("worker") BY <2>3, Geography DEF Live
    <3>2. p = "server" => ~ Live("helper") BY <2>3, Geography DEF Roles, HelperRole
    <3> QED BY <2>2, <3>1, <3>2, Geography DEF Roles, HelperRole, Live
  <2>8. WorkerRole'
    <3>1. (Live("worker")' <=> Live("worker")) /\ (Serving' <=> Serving) /\ (Exclusive' <=> Exclusive)
      BY <2>2, <2>3, <2>4, Geography DEF Live, Serving, Exclusive
    <3>2. ~ At("worker", "rollback")' \/ ~ Holder("worker")'
      BY <2>2, <2>4, Geography DEF Roles, WorkerRole
    <3>3. At("worker", "recover")' => At("worker", "recover") BY <2>2, Geography
    <3>4. Holder("worker")' => Holder("worker") BY <2>4, Geography
    <3> QED BY <2>1, <3>1, <3>2, <3>3, <3>4 DEF Roles, WorkerRole
  <2>9. ServerRole'
    <3>1. CASE p = "server" BY <2>2, <2>3, <3>1, Geography DEF Roles, ServerRole
    <3>2. CASE p = "worker" BY <2>2, <3>2, Geography DEF Roles, ServerRole
    <3> QED BY <3>1, <3>2
  <2> QED BY <2>5, <2>6, <2>7, <2>8, <2>9 DEF Roles
<1>4. CASE Open(p)
  <2>1. Turns(p, "migrating", proc[p].j) /\ journal' = proc[p].j /\ marker' = marker
    BY <1>0, <1>4, PrepareEffects DEF Open, WriteJournal
  <2>2. proc[p].at = "open" /\ proc[p].j # NoJournal /\ Holder(p) BY <1>0, <1>4, Geography DEF Open, Equipped, Holder
  <2>3. proc[p].j.phase = "snapshot_verified" BY <1>0, <2>2, Geography DEF Held
  <2>4. "migrating" \in Applying BY DEF Applying
  <2> QED BY <1>0, <2>1, <2>2, <2>3, <2>4, Geography, Proceeds DEF Turns
<1>5. ASSUME NEW b \in Applying \cup {"verify"}, Turns(p, b, proc[p].j), proc[p].at \in Applying, UNCHANGED <<journal, marker>>
      PROVE  Roles'
  <2>1. Holder(p) /\ journal # NoJournal /\ journal.tx = proc[p].j.tx BY <1>0, <1>5, Geography DEF Holder, Held
  <2>2. p = "worker" => journal.phase # "installer_running" BY <2>1 DEF Roles, WorkerRole
  <2>3. b \in Engaged /\ b # "rollback" /\ b \notin Closing
    BY <1>5 DEF Engaged, Applying, Undoing, Closing
  <2> QED BY <1>0, <1>5, <2>1, <2>2, <2>3, Geography, Proceeds DEF Turns
<1>6. ASSUME NEW x \in {"migrating", "data_prepared"}, NEW b \in Applying, Turns(p, b, Phase(p, x)), proc[p].at \in Applying,
             journal' = Phase(p, x), UNCHANGED marker
      PROVE  Roles'
  <2>1. Holder(p) /\ proc[p].j \in JournalType \ {NoJournal} BY <1>0, <1>6, Geography DEF Holder, Equipped
  <2>2. x \in Phases BY DEF Phases
  <2>3. Phase(p, x) # NoJournal /\ Phase(p, x).phase = x BY <2>1, <2>2, JournalForms DEF Phase
  <2>4. b \in Engaged /\ b # "rollback" /\ b \notin Closing
    BY <1>6 DEF Engaged, Applying, Undoing, Closing
  <2> QED BY <1>0, <1>6, <2>1, <2>3, <2>4, Proceeds DEF Turns
<1>7. {"migrating", "migrate", "validate", "mark"} \subseteq Applying BY DEF Applying
<1>8. CASE MarkMigrating(p) BY <1>0, <1>6, <1>7, <1>8, PrepareEffects DEF MarkMigrating, WriteJournal
<1>9. CASE Migrate(p)
  <2>1. proc[p].at \in Applying /\ UNCHANGED <<journal, marker>> BY <1>7, <1>9 DEF Migrate
  <2>2. CASE UNCHANGED proc BY <2>1, <2>2, RolesFrame
  <2>3. CASE Turns(p, "validate", proc[p].j) BY <1>5, <1>7, <2>1, <2>3
  <2> QED BY <1>0, <1>9, <2>2, <2>3, PrepareEffects
<1>10. CASE MigrateHarms(p) \/ MigrationFails(p)
  <2>1. proc[p].at \in Applying /\ UNCHANGED <<journal, marker>>
    BY <1>7, <1>10 DEF MigrateHarms, MigrationFails, disk
  <2>2. Turns(p, "validate", proc[p].j) \/ Turns(p, "verify", proc[p].j) BY <1>0, <1>10, PrepareEffects
  <2> QED BY <1>5, <1>7, <2>1, <2>2
<1>11. CASE Validate(p)
  <2>1. proc[p].at \in Applying BY <1>7, <1>11 DEF Validate
  <2>2. CASE Turns(p, "mark", Phase(p, "data_prepared")) /\ journal' = Phase(p, "data_prepared") /\ UNCHANGED marker
    BY <1>6, <1>7, <2>1, <2>2
  <2>3. CASE Turns(p, "verify", proc[p].j) /\ UNCHANGED disk BY <1>5, <2>1, <2>3 DEF disk
  <2> QED BY <1>0, <1>11, <2>2, <2>3, PrepareEffects
<1> QED BY <1>1, <1>2, <1>3, <1>4, <1>8, <1>9, <1>10, <1>11 DEF Prepare, PreparationFails

LEMMA MarkRoles ==
  ASSUME Sensible, Roles, NEW p \in Procs, Mark(p) \/ MarkFails(p)
  PROVE  Roles'
<1> USE DEF At
<1>0. /\ proc \in [Procs -> ProcType] /\ Equipped(proc[p]) /\ proc[p].j \in JournalType
      /\ journal \in JournalType /\ Held(p)
  BY DEF Sensible, Types, ProcType, Roles
<1>1. proc[p].at \in {"mark", "marking"} /\ marker' = marker
  BY DEF Mark, ReadForMark, WriteMark, MarkFails, disk
<1>2. proc[p].at \in Applying /\ proc[p].at \in Engaged /\ Holder(p) /\ proc[p].at \notin Drafting /\ Live(p)
  BY <1>1, Geography DEF Holder, Applying, Live
<1>3. journal # NoJournal /\ journal.tx = proc[p].j.tx BY <1>0, <1>2 DEF Held
<1>4. p = "worker" => journal.phase # "installer_running" BY <1>2 DEF Roles, WorkerRole
<1>5. {"marking", "launch", "wait"} \subseteq Applying /\ "rollback" \in Undoing BY DEF Applying, Undoing
<1>6. CASE ReadForMark(p)
  <2>1. Turns(p, "marking", journal) /\ journal' = journal BY <1>0, <1>3, <1>6, MarkEffects DEF ReadForMark, disk
  <2> QED BY <1>1, <1>2, <1>3, <1>4, <1>5, <2>1, Geography, Proceeds DEF Turns
<1>7. CASE WriteMark(p)
  <2>1. Target(p) \in Phases /\ proc[p].j \in JournalType \ {NoJournal} BY <1>7, MarkEffects
  <2>2. journal' = Phase(p, Target(p)) BY <1>7 DEF WriteMark
  <2>3. journal' # NoJournal /\ journal'.phase = Target(p) BY <2>1, <2>2, JournalForms DEF Phase
  <2>4. CASE p = "server"
    <3>1. Turns(p, "launch", journal') BY <1>7, <2>2, <2>4, MarkEffects
    <3> QED BY <1>1, <1>2, <1>5, <2>3, <2>4, <3>1, Geography, Proceeds DEF Turns
  <2>5. CASE p = "worker"
    <3>1. Turns(p, "recover", journal') BY <1>7, <2>2, <2>5, MarkEffects
    <3>2. Target(p) = "installer_succeeded" BY <2>5 DEF Target
    <3> QED BY <1>1, <1>2, <2>3, <2>5, <3>1, <3>2, Geography, Proceeds DEF Turns
  <2>6. CASE p = "helper" /\ Turns(p, "wait", journal')
    BY <1>1, <1>2, <1>5, <2>3, <2>6, Geography, Proceeds DEF Turns
  <2>7. CASE p = "helper" /\ Ends(p) BY <1>1, <1>2, <2>7, Leaves
  <2> QED BY <1>7, <2>2, <2>4, <2>5, <2>6, <2>7, Geography, MarkEffects
<1>8. CASE MarkFails(p)
  <2>1. journal' = journal /\ GivesIn(p) BY <1>8, MarkEffects DEF MarkFails, disk
  <2>2. CASE Ends(p) BY <1>1, <1>2, <2>1, <2>2, Leaves
  <2>3. CASE p # "worker" /\ Turns(p, "rollback", proc[p].j)
    BY <1>1, <1>2, <1>3, <1>5, <2>1, <2>3, Geography, Proceeds DEF Turns
  <2> QED BY <2>1, <2>2, <2>3 DEF GivesIn
<1> QED BY <1>6, <1>7, <1>8 DEF Mark

LEMMA RestoreRoles ==
  ASSUME Sensible, Roles, NEW p \in Procs,
         Restore(p) \/ MoveFails(p) \/ PutBackFails(p) \/ CopyFails(p) \/ ReturnFails(p) \/ RecordFails(p)
  PROVE  Roles'
<1> USE DEF At
<1>0. /\ proc \in [Procs -> ProcType] /\ Equipped(proc[p]) /\ proc[p].j \in JournalType
      /\ journal \in JournalType /\ Held(p)
  BY DEF Sensible, Types, ProcType, Roles
<1>1. marker' = marker /\ proc[p].at \in Undoing
  BY DEF Restore, ReadForRollback, Verify, Move, PutBack, Copy, Wipe, Return, Record, WriteJournal,
         MoveFails, PutBackFails, CopyFails, ReturnFails, RecordFails, disk, Undoing, Restoring
<1>2. proc[p].at \in Engaged /\ Holder(p) /\ proc[p].at \notin Drafting /\ Live(p)
  BY <1>1, Geography DEF Holder, Live
<1>3. journal # NoJournal /\ journal.tx = proc[p].j.tx BY <1>0, <1>2 DEF Held
<1>4. p = "worker" => journal.phase # "installer_running" BY <1>2 DEF Roles, WorkerRole
<1>5. {"verify", "move", "putback", "copy", "wipe", "return", "record"} \subseteq Undoing /\ "finalize" \in Closing
      /\ "rollback" \notin {"verify", "move", "putback", "copy", "wipe", "return", "record", "finalize"}
  BY DEF Undoing, Restoring, Closing
<1>6. ASSUME NEW b \in {"verify", "move", "putback", "copy", "wipe", "return", "record"}, Moves(p), proc'[p].at = b,
             proc'[p].j.tx = journal.tx, proc'[p].why = proc[p].why, journal' = journal
      PROVE  Roles'
  <2>1. b \in Engaged /\ b \notin Applying /\ b \notin Closing /\ b # "rollback" BY <1>5, Geography
  <2> QED BY <1>1, <1>2, <1>3, <1>4, <1>6, <2>1, Proceeds
<1>7. CASE Ends(p)
  <2>1. proc[p].at \notin {"frozen", "down", "serving", "recover"} BY <1>1, Geography
  <2> QED BY <1>1, <1>2, <1>7, <2>1, Leaves
<1>8. CASE ReadForRollback(p)
  <2>1. Turns(p, "verify", journal) /\ journal' = journal BY <1>3, <1>8, RestoreEffects DEF ReadForRollback, disk
  <2> QED BY <1>6, <2>1 DEF Turns
<1>9. CASE Verify(p)
  <2>1. journal' = journal BY <1>9 DEF Verify, disk
  <2> QED BY <1>3, <1>6, <1>7, <1>9, <2>1, RestoreEffects DEF Carries
<1>10. CASE Move(p)
  <2>1. journal' = journal BY <1>10 DEF Move
  <2>2. \E b \in {"move", "copy"} : \E l, a : Carries(p, b, l, a) BY <1>10, RestoreEffects
  <2> QED BY <1>3, <1>6, <2>1, <2>2 DEF Carries
<1>11. CASE Copy(p)
  <2>1. journal' = journal BY <1>11 DEF Copy
  <2>2. \E b \in {"copy", "record"} : \E l, a : Carries(p, b, l, a) BY <1>11, RestoreEffects
  <2> QED BY <1>3, <1>6, <2>1, <2>2 DEF Carries
<1>12. CASE PutBack(p) \/ PutBackFails(p) \/ Return(p) \/ ReturnFails(p) BY <1>7, <1>12, RestoreEffects
<1>13. CASE MoveFails(p) \/ CopyFails(p) \/ Wipe(p)
  <2>1. journal' = journal BY <1>13 DEF MoveFails, CopyFails, Wipe, disk
  <2>2. \E b \in {"putback", "wipe", "return"} : Turns(p, b, proc[p].j) BY <1>13, RestoreEffects
  <2> QED BY <1>3, <1>6, <2>1, <2>2 DEF Turns
<1>14. CASE Record(p) \/ RecordFails(p)
  <2>1. Turns(p, "finalize", Phase(p, "rolled_back")) /\ proc[p].j \in JournalType \ {NoJournal}
    BY <1>14, RestoreEffects
  <2>2. "rolled_back" \in Phases /\ "rolled_back" \in Finished BY DEF Phases, Finished
  <2>3. /\ Phase(p, "rolled_back") # NoJournal /\ Phase(p, "rolled_back").phase = "rolled_back"
        /\ Phase(p, "rolled_back").tx = proc[p].j.tx
    BY <2>1, <2>2, JournalForms DEF Phase
  <2>4. journal' = Phase(p, "rolled_back") \/ journal' = journal BY <1>14 DEF Record, RecordFails, WriteJournal, disk
  <2>5. journal' # NoJournal /\ journal'.tx = proc'[p].j.tx /\ (p = "worker" => journal'.phase # "installer_running")
    BY <1>3, <1>4, <2>1, <2>3, <2>4 DEF Turns
  <2> QED BY <1>1, <1>2, <1>5, <2>1, <2>2, <2>3, <2>5, Geography, Proceeds DEF Turns
<1> QED BY <1>8, <1>9, <1>10, <1>11, <1>12, <1>13, <1>14 DEF Restore

LEMMA CloseRoles ==
  ASSUME Sensible, Roles, NEW p \in Procs, Finalize(p) \/ FinalizeFails(p)
  PROVE  Roles'
<1> USE DEF At
<1>0. Held(p) BY DEF Roles
<1>1. marker' = marker /\ proc[p].at \in Closing
  BY DEF Finalize, RetainSnapshot, RemoveSnapshot, RemoveJournal, FinalizeFails, disk, Closing
<1>2. /\ proc[p].at \in Engaged /\ Holder(p) /\ proc[p].at \notin Drafting /\ Live(p)
      /\ proc[p].at \notin {"frozen", "down", "serving", "recover"}
  BY <1>1, Geography DEF Holder, Live
<1>3. journal # NoJournal /\ journal.tx = proc[p].j.tx /\ proc[p].j.phase \in Finished BY <1>0, <1>1, <1>2 DEF Held
<1>4. CASE Resumes(p) BY <1>1, <1>2, <1>4, Leaves
<1>5. ASSUME NEW b \in {"removing", "unjournal"}, Turns(p, b, proc[p].j), journal' = journal
      PROVE  Roles'
  <2>1. b \in Closing /\ b # "rollback" BY DEF Closing
  <2>2. p = "worker" => journal.phase # "installer_running" BY <1>2 DEF Roles, WorkerRole
  <2> QED BY <1>1, <1>2, <1>3, <1>5, <2>1, <2>2, Geography, Proceeds DEF Turns
<1>6. CASE RetainSnapshot(p) BY <1>5, <1>6, CloseEffects DEF RetainSnapshot, disk
<1>7. CASE RemoveSnapshot(p) BY <1>5, <1>7, CloseEffects DEF RemoveSnapshot
<1>8. CASE RemoveJournal(p) \/ FinalizeFails(p) BY <1>4, <1>8, CloseEffects
<1> QED BY <1>6, <1>7, <1>8 DEF Finalize

(* Whoever recovers is the worker with what it has just closed, or the     *)
(* server with what nobody else is at work on.                             *)
LEMMA RecoverRoles ==
  ASSUME Sensible, Roles, NEW p \in {"server", "worker"}, Recover(p)
  PROVE  Roles' \/ overtaken'
<1> USE DEF At
<1>0. p \in Procs /\ journal \in JournalType /\ Held(p) /\ journal' = journal /\ marker' = marker
  BY Geography DEF Sensible, Types, Roles, Recover, disk
<1>1. proc[p].at = "recover" /\ Live(p) BY DEF Recover, Live
<1>2. overtaken' = Overtakes(p) BY DEF Recover
<1>3. CASE p = "worker"
  <2>1. Holder(p) /\ proc[p].at \notin Drafting BY <1>1, <1>3, Geography DEF Holder
  <2>2. journal # NoJournal /\ journal.tx = proc[p].j.tx /\ journal.phase = "installer_succeeded"
    BY <1>0, <1>1, <1>3, <2>1 DEF Held, Roles, WorkerRole
  <2>3. "installer_succeeded" \in Finished /\ "finalize" \in Closing /\ "finalize" # "rollback" BY DEF Finished, Closing
  <2>4. Turns(p, "finalize", journal) BY <1>0, <2>2, <2>3, CloseEffects
  <2> QED BY <1>0, <1>3, <2>1, <2>2, <2>3, <2>4, Geography, Proceeds DEF Turns
<1>4. CASE p = "server"
  <2>1. CASE Ends(p) \/ (journal = NoJournal /\ Resumes(p))
    BY <1>0, <1>1, <1>4, <2>1, Leaves
  <2>2. CASE /\ journal # NoJournal
             /\ \/ journal.phase \in Finished /\ Turns(p, "finalize", journal)
                \/ ~ InstallerAlive /\ Turns(p, "rollback", journal)
    <3>1. SUFFICES ASSUME ~ Overtakes(p) PROVE Roles' BY <1>2
    <3>2. ASSUME NEW q \in {"helper", "worker"}, Holder(q) PROVE FALSE
      <4>1. Live(q) /\ q \in Procs /\ proc[q].at \notin Drafting
        BY <2>2, <3>2, Geography DEF Holder, Live, Roles, Held
      <4>2. journal.tx = proc[q].j.tx BY <3>2, <4>1 DEF Roles, Held
      <4>3. journal.phase = "installer_running" BY <1>4, <2>2, <3>1, <4>1, <4>2 DEF Overtakes
      <4>4. q = "helper" BY <3>2, <4>3 DEF Roles, WorkerRole
      <4>5. InstallerAlive BY <4>1, <4>2, <4>3, <4>4 DEF InstallerAlive
      <4> QED BY <2>2, <4>3, <4>5 DEF Finished
    <3>3. \A q \in Procs : ~ Holder(q) BY <1>1, <1>4, <3>2, Geography DEF Holder
    <3>4. ~ Live("helper") BY <3>3, Geography DEF Roles, HelperRole, Holder
    <3>5. \E b \in {"finalize", "rollback"} :
            /\ \A q \in Procs : q # p => proc'[q] = proc[q]
            /\ proc'[p].at = b /\ proc'[p].j = journal /\ proc'[p].why = proc[p].why
            /\ b = "finalize" => journal.phase \in Finished
      BY <2>2 DEF Turns, Moves
    <3>6. proc'[p].at \in Engaged /\ proc'[p].at \in Undoing \cup Closing
          /\ (proc'[p].at \in Closing => proc'[p].j.phase \in Finished)
      BY <3>5 DEF Engaged, Undoing, Closing
    <3>7. \A q \in Procs : q # p => ~ Holder(q)' BY <3>3, <3>5 DEF Holder
    <3>8. OneHolder' BY <3>7 DEF OneHolder
    <3>9. \A q \in Procs : Held(q)'
      <4>1. Held(p)' BY <1>0, <2>2, <3>5, <3>6, Geography DEF Held
      <4> QED BY <1>0, <3>5, <3>7, <4>1, Geography DEF Roles, Held, Holder
    <3>10. HelperRole' BY <1>4, <3>4, <3>5, Geography DEF HelperRole, Live
    <3>11. proc["server"].why = "start" BY <1>1, <1>4 DEF Roles, ServerRole
    <3>12. WorkerRole'
      <4>1. ~ Holder("worker")' /\ ~ At("worker", "recover")' BY <1>4, <3>7, Geography DEF Holder
      <4>2. ~ Serving' /\ ~ Exclusive' BY <1>4, <3>5, <3>11 DEF Serving, Exclusive
      <4> QED BY <1>0, <1>4, <3>5, <4>1, <4>2, Geography DEF Roles, WorkerRole, Live
    <3>13. ServerRole' BY <1>4, <3>5, <3>6, <3>11, Geography DEF ServerRole
    <3> QED BY <3>8, <3>9, <3>10, <3>12, <3>13 DEF Roles
  <2> QED BY <1>0, <2>1, <2>2, CloseEffects
<1> QED BY <1>3, <1>4

LEMMA ErrandRoles ==
  ASSUME Sensible, Roles,
         Start \/ RequestUpdate \/ Exit \/ LaunchFails \/ WriteMarker \/ WriteMarkerFails \/ Wait \/ Install
  PROVE  Roles'
<1> USE DEF At
<1>0. proc \in [Procs -> ProcType] BY DEF Sensible, Types
<1>1. ASSUME NEW b, NEW w, Becomes("server", b, w), UNCHANGED <<journal, marker>>,
             \/ proc["server"].at = "down" /\ b = "recover" /\ w = "start"
             \/ proc["server"].at = "serving" /\ b = "prepare" /\ w = "install"
             \/ proc["server"].at = "frozen" /\ b = "down" /\ w = "none"
      PROVE  Roles'
  <2>1. /\ proc'["worker"] = proc["worker"] /\ proc'["helper"] = proc["helper"]
        /\ proc'["server"].at = b /\ proc'["server"].why = w
    BY <1>1, Geography DEF Becomes, Moves
  <2>2. \A q \in Procs : Holder(q)' => Holder(q) /\ q # "server" /\ proc'[q] = proc[q]
    BY <1>1, <2>1, Geography DEF Holder
  <2>3. OneHolder' BY <2>2 DEF Roles, OneHolder
  <2>4. \A q \in Procs : Held(q)' BY <1>1, <2>1, <2>2, Geography DEF Roles, Held
  <2>5. HelperRole' BY <1>1, <2>1 DEF Roles, HelperRole, Live
  <2>6. WorkerRole'
    <3>1. Live("worker") => proc["server"].at # "serving" BY DEF Roles, WorkerRole, Serving
    <3> QED BY <1>1, <2>1, <3>1 DEF Roles, WorkerRole, Live, Serving, Exclusive, Holder
  <2>7. ServerRole' BY <1>1, <2>1, Geography DEF ServerRole
  <2> QED BY <2>3, <2>4, <2>5, <2>6, <2>7 DEF Roles
<1>2. CASE Start BY <1>1, <1>2, ErrandEffects DEF Start, disk
<1>3. CASE RequestUpdate BY <1>1, <1>3, ErrandEffects DEF RequestUpdate, Serving, disk
<1>4. CASE Exit BY <1>1, <1>4, ErrandEffects DEF Exit, disk
<1>5. ASSUME NEW p \in {"server", "helper"}, NEW b \in {"rollback", "install", "mark"}, proc[p].at \in Applying,
             b = "rollback" \/ p = "helper", Moves(p), proc'[p].at = b, proc'[p].why = proc[p].why,
             proc'[p].j = proc[p].j, journal' = journal, marker' \in {marker, "old"}
      PROVE  Roles'
  <2>1. p \in Procs /\ Holder(p) /\ proc[p].at \notin Drafting BY <1>5, Geography DEF Holder
  <2>2. journal # NoJournal /\ journal.tx = proc[p].j.tx BY <2>1 DEF Roles, Held
  <2>3. b \in Engaged /\ b \notin Closing BY DEF Engaged, Applying, Undoing, Closing
  <2> QED BY <1>5, <2>1, <2>2, <2>3, Proceeds
<1>6. {"launch", "wait", "install"} \subseteq Applying BY DEF Applying
<1>7. CASE LaunchFails BY <1>5, <1>6, <1>7, ErrandEffects DEF LaunchFails, Turns, disk
<1>8. CASE Wait BY <1>5, <1>6, <1>8, ErrandEffects DEF Wait, Turns, disk
<1>9. CASE Install
  <2>1. proc["helper"].at \in Applying /\ journal' = journal BY <1>6, <1>9 DEF Install
  <2>2. CASE /\ Moves("helper") /\ marker' \in {marker, "old"}
             /\ proc'["helper"] = [proc["helper"] EXCEPT !.at = "mark", !.aim = "installer_succeeded"]
    <3>1. proc["helper"] \in ProcType BY <1>0, Geography
    <3>2. proc'["helper"].at = "mark" /\ proc'["helper"].why = proc["helper"].why /\ proc'["helper"].j = proc["helper"].j
      BY <2>2, <3>1 DEF ProcType
    <3> QED BY <1>5, <2>1, <2>2, <3>2
  <2>3. CASE Turns("helper", "rollback", proc["helper"].j) /\ UNCHANGED marker
    BY <1>5, <2>1, <2>3 DEF Turns
  <2> QED BY <1>9, <2>2, <2>3, PairEffects
<1>10. CASE WriteMarker
  <2>1. proc'["server"] = proc["server"] /\ proc'["helper"] = proc["helper"] /\ proc'["worker"].at = "done"
        /\ journal' = journal /\ proc["worker"].at = "marker"
    BY <1>10, ErrandEffects, Geography DEF WriteMarker, Turns, Moves
  <2>2. \A q \in Procs : Holder(q)' => Holder(q) /\ q # "worker" /\ proc'[q] = proc[q]
    BY <2>1, Geography DEF Holder
  <2>3. OneHolder' BY <2>2 DEF Roles, OneHolder
  <2>4. \A q \in Procs : Held(q)' BY <2>1, <2>2, Geography DEF Roles, Held
  <2>5. HelperRole' BY <2>1 DEF Roles, HelperRole, Live
  <2>6. WorkerRole' BY <2>1, Geography DEF WorkerRole, Live, Holder
  <2>7. ServerRole' BY <2>1 DEF Roles, ServerRole
  <2> QED BY <2>3, <2>4, <2>5, <2>6, <2>7 DEF Roles
<1>11. CASE WriteMarkerFails
  <2>1. Ends("worker") /\ UNCHANGED <<journal, marker>> /\ Live("worker")
    BY <1>11, ErrandEffects DEF WriteMarkerFails, disk, Live
  <2> QED BY <2>1, Geography, Leaves
<1> QED BY <1>2, <1>3, <1>4, <1>7, <1>8, <1>9, <1>10, <1>11

LEMMA PairRoles ==
  ASSUME Sensible, Roles, CheckVersion \/ WorkerEnds \/ Launch
  PROVE  Roles'
<1> USE DEF At
<1>0. proc \in [Procs -> ProcType] /\ journal' = journal /\ marker' = marker
  BY DEF Sensible, Types, CheckVersion, WorkerEnds, Launch, disk
<1>1. ASSUME proc'["helper"] = proc["helper"], proc["server"].at \in {"version", "await"},
             ~ Live("worker") \/ proc'["worker"] = proc["worker"],
             \/ /\ proc'["server"].at \in {"serving", "down"} /\ proc'["server"].why = "none"
                /\ proc'["worker"] = proc["worker"] \/ proc'["worker"].at = "down"
                /\ ~ Live("worker")
             \/ /\ proc'["server"].at = "await" /\ proc'["server"].why = proc["server"].why
                /\ marker = "old" /\ (proc'["worker"].at = "prepare" \/ proc'["worker"] = proc["worker"])
      PROVE  Roles'
  <2>1. ~ Live("helper") BY <1>1 DEF Roles, HelperRole
  <2>2. ~ Holder("server") /\ ~ Holder("server")' /\ proc["server"].why = "start"
    BY <1>1, Geography DEF Holder, Roles, ServerRole
  <2>3. ~ Holder("helper") /\ ~ Holder("helper")' BY <1>1, <2>1, Geography DEF Holder, Live
  <2>4. Holder("worker")' => proc'["worker"] = proc["worker"] /\ Holder("worker") BY <1>1, Geography DEF Holder
  <2>5. OneHolder' BY <2>2, <2>3, Geography DEF OneHolder
  <2>6. \A q \in Procs : Held(q)'
    <3>1. Held("worker")' BY <1>0, <1>1, <2>4, Geography DEF Roles, Held, Holder
    <3>2. Held("server")' /\ Held("helper")' BY <1>0, <1>1, <2>2, <2>3, Geography DEF Roles, Held, Holder
    <3> QED BY <3>1, <3>2, Geography
  <2>7. HelperRole' BY <1>1, <2>1 DEF HelperRole, Live
  <2>8. WorkerRole' BY <1>0, <1>1, <2>2, <2>4, Geography DEF Roles, WorkerRole, Live, Serving, Exclusive, Holder
  <2>9. ServerRole' BY <1>1, <2>2, Geography DEF ServerRole
  <2> QED BY <2>5, <2>6, <2>7, <2>8, <2>9 DEF Roles
<1>2. CASE CheckVersion
  <2>0. proc["server"].at = "version" BY <1>2 DEF CheckVersion
  <2>1. CASE marker # "old" /\ Becomes("server", "serving", "none")
    <3>1. proc'["helper"] = proc["helper"] /\ proc'["worker"] = proc["worker"] BY <2>1, Geography DEF Becomes, Moves
    <3>2. ~ Live("worker") BY <2>1 DEF Roles, WorkerRole
    <3> QED BY <1>1, <2>0, <2>1, <3>1, <3>2 DEF Becomes
  <2>2. CASE /\ marker = "old" /\ ~ Live("worker")
             /\ proc'["server"] = [proc["server"] EXCEPT !.at = "await"]
             /\ proc'["worker"] = Fresh("prepare", "worker") /\ proc'["helper"] = proc["helper"]
    <3>1. proc["server"] \in ProcType BY <1>0, Geography
    <3>2. proc'["server"].at = "await" /\ proc'["server"].why = proc["server"].why BY <2>2, <3>1 DEF ProcType
    <3>3. proc'["worker"].at = "prepare" BY <2>2 DEF Fresh
    <3> QED BY <1>1, <2>0, <2>2, <3>2, <3>3
  <2>3. CASE marker = "old" /\ Turns("server", "await", proc["server"].j)
    <3>1. proc'["helper"] = proc["helper"] /\ proc'["worker"] = proc["worker"] BY <2>3, Geography DEF Turns, Moves
    <3> QED BY <1>1, <2>0, <2>3, <3>1 DEF Turns
  <2> QED BY <1>2, <2>1, <2>2, <2>3, ErrandEffects
<1>3. CASE WorkerEnds
  <2>1. proc["server"].at = "await" /\ ~ Live("worker") BY <1>3 DEF WorkerEnds
  <2>2. /\ proc'["server"] = Fresh(IF At("worker", "done") THEN "serving" ELSE "down", "none")
        /\ proc'["worker"] = Fresh("down", "none") /\ proc'["helper"] = proc["helper"]
    BY <1>3, PairEffects
  <2>3. proc'["server"].at \in {"serving", "down"} /\ proc'["server"].why = "none" /\ proc'["worker"].at = "down"
    BY <2>2 DEF Fresh
  <2> QED BY <1>1, <2>1, <2>2, <2>3
<1>4. CASE Launch
  <2>1. proc["server"].at = "launch" BY <1>4 DEF Launch
  <2>2. /\ proc'["server"] = Fresh("frozen", "install") /\ proc'["worker"] = proc["worker"]
        /\ proc'["helper"] = [at |-> "mark", why |-> "installer", j |-> proc["server"].j,
                              aim |-> "installer_running", left |-> {}, away |-> Empty]
    BY <1>4, PairEffects
  <2>3. /\ proc'["server"].at = "frozen" /\ proc'["server"].why = "install"
        /\ proc'["helper"].at = "mark" /\ proc'["helper"].why = "installer" /\ proc'["helper"].j = proc["server"].j
    BY <2>2 DEF Fresh
  <2>4. "launch" \in Applying /\ "mark" \in Applying BY DEF Applying
  <2>5. Holder("server") /\ proc["server"].at \notin Drafting BY <2>1, <2>4, Geography DEF Holder
  <2>6. journal # NoJournal /\ journal.tx = proc["server"].j.tx BY <2>5, Geography DEF Roles, Held
  <2>7. ~ Live("worker")
    <3>1. proc["server"].why = "install" BY <2>1, <2>4 DEF Roles, ServerRole
    <3> QED BY <3>1 DEF Roles, WorkerRole, Exclusive
  <2>8. ~ Live("worker")' /\ ~ Holder("worker")' /\ ~ Holder("server")'
    BY <2>2, <2>3, <2>7, Geography DEF Live, Holder
  <2>9. OneHolder' BY <2>8, Geography DEF OneHolder
  <2>10. \A q \in Procs : Held(q)'
    <3>1. Held("helper")' BY <1>0, <2>3, <2>4, <2>6, Geography DEF Held
    <3>2. Held("server")' BY <1>0, <2>3, <2>8, Geography DEF Held
    <3>3. Held("worker")' BY <1>0, <2>2, <2>8, Geography DEF Roles, Held, Holder
    <3> QED BY <3>1, <3>2, <3>3, Geography
  <2>11. HelperRole' BY <2>3, <2>4, <2>8, Geography DEF HelperRole
  <2>12. WorkerRole' BY <2>8 DEF WorkerRole, Holder
  <2>13. ServerRole' BY <2>3, Geography DEF ServerRole
  <2> QED BY <2>9, <2>10, <2>11, <2>12, <2>13 DEF Roles
<1> QED BY <1>2, <1>3, <1>4

LEMMA WorldRoles ==
  ASSUME Sensible, Roles, Write \/ Crash
  PROVE  Roles'
<1> USE DEF At
<1>1. CASE Write BY <1>1, RolesFrame DEF Write
<1>2. CASE Crash
  <2>1. PICK ps \in SUBSET Procs :
          /\ \A p \in ps : proc'[p] = Fresh(proc'[p].at, "none")
                           /\ (proc'[p].at = "down" \/ (proc'[p].at = "failed" /\ p = "worker" /\ At("server", "await") /\ "server" \notin ps))
          /\ \A p \in Procs \ ps : proc'[p] = proc[p]
    BY <1>2, PairEffects
  <2>2. ASSUME NEW p \in ps PROVE proc'[p].why = "none" /\ (proc'[p].at = "down" \/ (p = "worker" /\ proc'[p].at = "failed"))
    <3> DEFINE b == proc'[p].at
    <3>1. proc'[p] = Fresh(b, "none") /\ (b = "down" \/ (p = "worker" /\ b = "failed")) BY <2>1
    <3>2. Fresh(b, "none").why = "none" BY DEF Fresh
    <3> HIDE DEF b
    <3>3. proc'[p].why = "none" BY <3>1, <3>2
    <3> QED BY <3>1, <3>3 DEF b
  <2>3. journal' = journal /\ marker' = marker BY <1>2 DEF Crash
  <2>4. \A q \in Procs : Live(q)' => q \notin ps /\ proc'[q] = proc[q] /\ Live(q) BY <2>1, <2>2 DEF Live
  <2>5. \A q \in Procs : Holder(q)' => proc'[q] = proc[q] /\ Holder(q) BY <2>1, <2>2, Geography DEF Holder
  <2>6. OneHolder' BY <2>5 DEF Roles, OneHolder
  <2>7. \A q \in Procs : Held(q)'
    <3>1. ASSUME NEW q \in ps PROVE Held(q)'
      <4>1. proc'[q].at \in {"down", "failed"} BY <2>2
      <4> QED BY <4>1, Geography DEF Held, Holder
    <3>2. ASSUME NEW q \in Procs \ ps PROVE Held(q)' BY <2>1, <2>3, <3>2 DEF Roles, Held, Holder
    <3> QED BY <3>1, <3>2
  <2>8. HelperRole' BY <2>1, <2>2, <2>4, Geography DEF Roles, HelperRole
  <2>9. WorkerRole'
    <3>1. proc'["server"].at = "serving" => proc["server"].at = "serving" BY <2>1, <2>2, Geography
    <3>2. proc'["server"].why = "install" => proc["server"].why = "install" BY <2>1, <2>2, Geography
    <3> QED BY <2>2, <2>3, <2>4, <2>5, <3>1, <3>2, Geography DEF Roles, WorkerRole, Serving, Exclusive, Holder
  <2>10. ServerRole'
    <3>1. CASE "server" \in ps BY <2>2, <3>1, Geography DEF ServerRole
    <3>2. CASE "server" \notin ps BY <2>1, <3>2, Geography DEF Roles, ServerRole
    <3> QED BY <3>1, <3>2
  <2> QED BY <2>6, <2>7, <2>8, <2>9, <2>10 DEF Roles
<1> QED BY <1>1, <1>2

LEMMA RolesSteps == Sensible /\ Roles /\ [Next]_vars => Roles' \/ (Recover("server") /\ overtaken')
<1> SUFFICES ASSUME Sensible, Roles, [Next]_vars PROVE Roles' \/ (Recover("server") /\ overtaken') OBVIOUS
<1>0. {"server", "worker"} \subseteq Procs /\ "helper" \in Procs BY Geography
<1>1. CASE UNCHANGED vars BY <1>1, RolesFrame DEF vars, disk
<1>2. CASE Server
  BY <1>0, <1>2, PrepareRoles, MarkRoles, RestoreRoles, CloseRoles, RecoverRoles, ErrandRoles, PairRoles DEF Server
<1>3. CASE Worker
  <2>1. Recover("worker") => ~ overtaken' BY DEF Recover, Overtakes
  <2> QED BY <1>0, <1>3, <2>1, PrepareRoles, MarkRoles, RestoreRoles, CloseRoles, RecoverRoles, ErrandRoles DEF Worker
<1>4. CASE Helper BY <1>0, <1>4, MarkRoles, RestoreRoles, CloseRoles, ErrandRoles DEF Helper
<1>5. CASE Failure
  BY <1>0, <1>5, PrepareRoles, MarkRoles, RestoreRoles, CloseRoles, ErrandRoles DEF Failure, Fails
<1>6. CASE RequestUpdate \/ Write \/ Crash BY <1>6, ErrandRoles, WorldRoles
<1> QED BY <1>1, <1>2, <1>3, <1>4, <1>5, <1>6 DEF Next

LEMMA InitRoles == Init => Roles
<1> SUFFICES ASSUME Init PROVE Roles OBVIOUS
<1>1. \A p \in Procs : proc[p].at = "down" /\ proc[p].why = "none" BY FreshForms DEF Init, Fresh
<1>2. \A p \in Procs : ~ Holder(p) BY <1>1, Geography DEF Holder, At
<1> QED BY <1>1, <1>2, Geography DEF Roles, OneHolder, Held, HelperRole, WorkerRole, ServerRole, Live, At

(* At most one process restores, and none beside a server that serves.     *)
LoneRestorer ==
    /\ \A p, q \in Procs : proc[p].at \in Restoring /\ proc[q].at \in Restoring => p = q
    /\ Serving => \A p \in Procs : proc[p].at \notin Restoring

Guarded == Sensible /\ LoneRestorer /\ (overtaken \/ Roles)

LEMMA RolesLone == Roles => LoneRestorer
<1> SUFFICES ASSUME Roles PROVE LoneRestorer OBVIOUS
<1>1. \A p \in Procs : proc[p].at \in Restoring => Holder(p) /\ Live(p) /\ proc[p].at # "serving"
  BY Geography DEF Holder, Live
<1> QED BY <1>1, Geography DEF Roles, OneHolder, HelperRole, WorkerRole, LoneRestorer, Serving, At

LEMMA GuardedSteps == Guarded /\ [Next]_vars => Guarded'
<1> SUFFICES ASSUME Guarded, [Next]_vars PROVE Guarded' OBVIOUS
<1>1. Sensible' BY SensibleSteps DEF Guarded
<1>2. CASE UNCHANGED vars
  BY <1>1, <1>2, RolesFrame DEF Guarded, LoneRestorer, Serving, At, vars, disk, history
<1>3. CASE Next
  <2>1. Roles BY <1>3 DEF Guarded, Next
  <2>2. CASE Roles' BY <1>1, <2>2, RolesLone, PTL DEF Guarded
  <2>3. CASE Recover("server") /\ overtaken'
    <3>1. Resumes("server") \/ Ends("server")
          \/ Turns("server", "finalize", journal) \/ Turns("server", "rollback", journal)
      BY <2>3, Geography, CloseEffects DEF Guarded
    <3>2. proc["server"].why = "start" BY <2>1, <2>3 DEF Recover, At, Roles, ServerRole
    <3>3. proc'["server"].at \in {"version", "down", "finalize", "rollback"}
      BY <3>1, <3>2 DEF Resumes, Ends, Becomes, Turns
    <3>4. proc'["helper"] = proc["helper"] /\ proc'["worker"] = proc["worker"]
      BY <3>1, Geography DEF Resumes, Ends, Becomes, Turns, Moves
    <3>5. LoneRestorer BY <2>1, RolesLone
    <3>6. LoneRestorer' BY <3>3, <3>4, <3>5, Geography DEF LoneRestorer, Serving, At, Restoring
    <3> QED BY <1>1, <2>3, <3>6 DEF Guarded
  <2> QED BY <2>1, <2>2, <2>3, RolesSteps DEF Guarded
<1> QED BY <1>2, <1>3

(* Nobody restores beside another restore or behind a server that serves,  *)
(* whoever dies when, until a start overtakes a live process: the record   *)
(* of a running installer and the barrier keep the three apart.            *)
THEOREM Alone == Spec => []RestoresAlone
<1>1. Init => Guarded BY InitSensible, InitRoles, RolesLone DEF Guarded
<1>2. Guarded /\ [Next]_vars => Guarded' BY GuardedSteps
<1>3. Guarded => RestoresAlone
  <2> SUFFICES ASSUME Guarded PROVE RestoresAlone OBVIOUS
  <2> DEFINE rs == {p \in Procs : proc[p].at \in Restoring}
  <2>1. rs = {} \/ \E p \in Procs : rs = {p} BY DEF Guarded, LoneRestorer
  <2> HIDE DEF rs
  <2>2. Cardinality(rs) <= 1
    <3>1. Cardinality({}) = 0 BY FS_EmptySet, Zenon
    <3>2. ASSUME NEW p \in Procs PROVE Cardinality({p}) = 1 BY FS_Singleton, Zenon
    <3>3. Cardinality(rs) = 0 \/ Cardinality(rs) = 1 BY <2>1, <3>1, <3>2, Zenon
    <3> QED BY <3>3
  <2> QED BY <2>2 DEF rs, Guarded, LoneRestorer, RestoresAlone
<1> QED BY <1>1, <1>2, <1>3, PTL DEF Spec

----------------------------------------------------------------------------
(* Where the versions are that were written last                           *)

(* The snapshot that the open transaction would restore is there.          *)
Backed == OpenJournal /\ snap[journal.tx].state = "whole"
Saved(e) == snap[journal.tx].of[e]
IsLate(e) == <<e, latest[e]>> \in late
(* The data root is what the transaction is to leave, one way or another.  *)
Settling == {"mark", "marking", "launch", "wait", "install", "record"} \cup Closing

Phased(p) ==
    /\ proc[p].at \in Applying \cup Undoing => OpenJournal
    /\ proc[p].at \in Applying \cup Restoring \cup {"record", "open"} => Whole(p)
Known(e) ==
    latest[e] # 0 => IsLate(e) \/ (IF Backed THEN Saved(e) = latest[e] ELSE root[e] = latest[e])
Taken(p, e) == At(p, "open") /\ latest[e] # 0 => IsLate(e) \/ Snapshot(p).of[e] = latest[e]
Settled(p, e) ==
    proc[p].at \in Settling /\ Backed /\ latest[e] # 0 /\ Saved(e) = latest[e] => root[e] = latest[e]
(* What a restore finds under a name it has cleared is its own, or was     *)
(* written meanwhile; what it still has to move is not in its quarantine.  *)
Cleared(p, e) ==
    /\ proc[p].at \in {"copy", "wipe", "return"} \/ (At(p, "move") /\ e \notin proc[p].left) =>
          root[e] \in {0, Snapshot(p).of[e]} \/ <<e, root[e]>> \in risky
    /\ At(p, "move") /\ e \in proc[p].left => proc[p].away[e] = 0
    /\ proc[p].at \in {"move", "putback"} /\ proc[p].away[e] # 0 /\ root[e] # 0 => root[e] = latest[e]
Found(e) ==
    latest[e] # 0 => \/ root[e] = latest[e]
                     \/ <<e, latest[e]>> \in aside \cup risky
                     \/ \E p \in Procs : proc[p].away[e] = latest[e]
                     \/ Backed /\ Saved(e) = latest[e]
Local(p, e) == Taken(p, e) /\ Settled(p, e) /\ Cleared(p, e)
Safe ==
    /\ \A p \in Procs : Phased(p)
    /\ \A e \in Entries : Known(e) /\ Found(e) /\ \A p \in Procs : Local(p, e)

LEMMA Regions ==
  /\ Restoring \subseteq Engaged /\ Settling \subseteq Engaged /\ "record" \in Undoing /\ "record" \notin Restoring
  /\ {"move", "putback", "copy", "wipe", "return"} = Restoring
  /\ Restoring \cap Settling = {} /\ Closing \subseteq Settling
BY DEF Restoring, Settling, Engaged, Applying, Undoing, Closing

(* Beside the holder of a transaction nobody has anything to do with it.   *)
LEMMA Sole ==
  ASSUME Sensible, Roles, NEW p \in Procs, Holder(p), NEW q \in Procs, q # p
  PROVE  proc[q].at \notin Drafting /\ proc[q].at \notin Engaged /\ proc[q].away = Empty
<1>1. ~ Holder(q) BY DEF Roles, OneHolder
<1>2. proc[q].at \notin Drafting /\ proc[q].at \notin Engaged BY <1>1 DEF Holder
<1>3. proc[q].at \notin Restoring BY <1>2, Geography
<1> QED BY <1>2, <1>3 DEF Sensible, Equipped

(* Whoever has nothing to do with a transaction is not asked anything.     *)
LEMMA Outside ==
  ASSUME NEW q \in Procs, proc'[q].at \notin Drafting, proc'[q].at \notin Engaged
  PROVE  Phased(q)' /\ \A e \in Entries : Local(q, e)'
<1>1. proc'[q].at \notin Applying /\ proc'[q].at \notin Undoing /\ proc'[q].at \notin Restoring
      /\ proc'[q].at \notin {"record", "open"} /\ proc'[q].at \notin Settling
  BY Geography, Regions
<1>2. Phased(q)' BY <1>1 DEF Phased
<1>3. proc'[q].at \notin {"move", "putback", "copy", "wipe", "return"} BY <1>1, Regions
<1>4. \A e \in Entries : Local(q, e)' BY <1>1, <1>3 DEF Local, Taken, Settled, Cleared, At
<1> QED BY <1>2, <1>4

(* A step of the holder has to be looked at for the holder only.           *)
LEMMA SafeByHolder ==
  ASSUME Sensible, Roles, NEW p \in Procs, Moves(p), Holder(p) \/ (Roles' /\ Holder(p)'),
         Phased(p)', \A e \in Entries : Known(e)' /\ Found(e)' /\ Local(p, e)'
  PROVE  Safe'
<1>1. ASSUME NEW q \in Procs, q # p PROVE Phased(q)' /\ \A e \in Entries : Local(q, e)'
  <2>1. proc'[q] = proc[q] BY <1>1 DEF Moves
  <2>2. proc'[q].at \notin Drafting /\ proc'[q].at \notin Engaged
    <3>1. CASE Holder(p) BY <1>1, <2>1, <3>1, Sole
    <3>2. CASE Roles' /\ Holder(p)'
      <4>1. ~ Holder(q)' BY <1>1, <3>2 DEF Roles, OneHolder
      <4> QED BY <4>1 DEF Holder
    <3> QED BY <3>1, <3>2
  <2> QED BY <2>2, Outside
<1> QED BY <1>1 DEF Safe

(* Nobody takes up anything; whoever ends leaves its quarantine behind.    *)
LEMMA SafeByIdle ==
  ASSUME Sensible, Safe, UNCHANGED <<root, snap, journal, latest, late, risky>>, aside \subseteq aside',
         NEW ps \in SUBSET Procs,
         \A q \in Procs \ ps : proc'[q] = proc[q],
         \A q \in ps : /\ proc'[q].at \notin Drafting /\ proc'[q].at \notin Engaged
                       /\ proc[q].away = Empty \/ Quarantine(q) \subseteq aside'
  PROVE  Safe'
<1>1. \A q \in ps : Phased(q)' /\ \A e \in Entries : Local(q, e)' BY Outside
<1>2. ASSUME NEW q \in Procs \ ps PROVE Phased(q)' /\ \A e \in Entries : Local(q, e)'
  BY DEF Safe, Phased, OpenJournal, Whole, Snapshot, Local, Taken, Settled, Cleared, IsLate, Backed, Saved, At
<1>3. ASSUME NEW e \in Entries PROVE Known(e)' /\ Found(e)'
  <2>1. Known(e)' BY DEF Safe, Known, IsLate, Backed, Saved, OpenJournal
  <2>2. Found(e)'
    <3>1. SUFFICES ASSUME latest[e] # 0, NEW p \in ps, proc[p].away[e] = latest[e]
                   PROVE  <<e, latest[e]>> \in aside'
      BY DEF Safe, Found, Backed, Saved, OpenJournal
    <3>2. proc[p].away # Empty BY <3>1 DEF Empty
    <3>3. <<e, latest[e]>> \in Quarantine(p) BY <3>1 DEF Quarantine
    <3> QED BY <3>2, <3>3
  <2> QED BY <2>1, <2>2
<1> QED BY <1>1, <1>2, <1>3 DEF Safe

(* The holder goes on while disk and quarantine stay as they are and the   *)
(* journal open, if it is.                                                 *)
LEMMA SafeByTurn ==
  ASSUME Sensible, Roles, Safe, NEW p \in Procs, Moves(p), proc[p].at \in Engaged, proc'[p].at \in Engaged,
         proc'[p].j.tx = proc[p].j.tx, proc'[p].away = proc[p].away,
         UNCHANGED <<root, snap, latest, late, risky, aside>>,
         journal' = journal \/ (OpenJournal' /\ journal'.tx = journal.tx),
         proc'[p].at \in Applying \cup Undoing => proc[p].at \in Applying \cup Undoing,
         proc'[p].at \in Applying \cup Restoring \cup {"record"} =>
            proc[p].at \in Applying \cup Restoring \cup {"record"} \/ Whole(p),
         (proc[p].at \in Settling /\ journal' = journal) \/ proc[p].at \in Applying \cup Undoing,
         proc'[p].at \in Settling => proc[p].at \in Settling \/ \A e \in Entries : Settled(p, e)',
         \A e \in Entries : Cleared(p, e)'
  PROVE  Safe'
<1>0. Holder(p) /\ proc[p].at \notin Drafting BY Geography DEF Holder
<1>1. journal.tx = proc[p].j.tx BY <1>0 DEF Roles, Held
<1>2. (OpenJournal' <=> OpenJournal) /\ journal'.tx = journal.tx
  BY DEF Safe, Phased, OpenJournal
<1>3. (Backed' <=> Backed) /\ \A e : Saved(e)' = Saved(e) BY <1>2 DEF Backed, Saved
<1>4. Phased(p)'
  <2>1. Whole(p)' <=> Whole(p) BY DEF Whole, Snapshot
  <2>2. proc'[p].at # "open" BY Geography
  <2>3. proc'[p].at \in Applying \cup Undoing => OpenJournal' BY <1>2 DEF Safe, Phased
  <2>4. proc'[p].at \in Applying \cup Restoring \cup {"record"} => Whole(p)' BY <2>1 DEF Safe, Phased
  <2> QED BY <2>2, <2>3, <2>4 DEF Phased
<1>5. ASSUME NEW e \in Entries PROVE Known(e)' /\ Found(e)' /\ Local(p, e)'
  <2>1. Known(e)' BY <1>3 DEF Safe, Known, IsLate
  <2>2. Found(e)'
    <3>1. \A q \in Procs : proc'[q].away = proc[q].away BY DEF Moves
    <3>2. Found(e) BY DEF Safe
    <3> QED BY <1>3, <3>1, <3>2 DEF Found
  <2>3. Taken(p, e)' BY Geography DEF Taken, At
  <2>4. Settled(p, e)'
    <3>1. CASE proc'[p].at \in Settling /\ proc[p].at \in Settling
      <4>1. Settled(p, e) BY DEF Safe, Local
      <4> QED BY <1>3, <3>1, <4>1 DEF Settled
    <3>2. CASE proc'[p].at \notin Settling BY <3>2 DEF Settled
    <3> QED BY <3>1, <3>2
  <2>5. Cleared(p, e)' OBVIOUS
  <2> QED BY <2>1, <2>2, <2>3, <2>4, <2>5 DEF Local
<1> QED BY <1>0, <1>4, <1>5, SafeByHolder

(* The holder closes the transaction when the data root is settled.        *)
LEMMA SafeByClosing ==
  ASSUME Sensible, Roles, Safe, NEW p \in Procs, Moves(p), proc[p].at \in Settling,
         proc[p].away = Empty, ~ OpenJournal', UNCHANGED <<root, snap, latest, late, risky, aside>>,
         proc'[p].at \notin Drafting, proc'[p].at \notin Applying, proc'[p].at \notin Undoing
  PROVE  Safe'
<1>0. Holder(p) BY Regions DEF Holder
<1>1. ~ Backed' BY DEF Backed
<1>2. proc'[p].at \notin Restoring \cup {"record", "open"} BY Geography, Regions
<1>3. Phased(p)' BY <1>2 DEF Phased
<1>4. ASSUME NEW e \in Entries PROVE Known(e)' /\ Found(e)' /\ Local(p, e)'
  <2>1. Known(e) /\ Found(e) /\ Settled(p, e) BY DEF Safe, Local
  <2>2. Known(e)' BY <1>1, <2>1 DEF Known, Settled, IsLate
  <2>3. Found(e)'
    <3>1. \A q \in Procs : q = p \/ proc'[q].away = proc[q].away BY DEF Moves
    <3>2. ASSUME latest[e] # 0, proc[p].away[e] = latest[e] PROVE FALSE BY <3>2 DEF Empty
    <3> QED BY <2>1, <3>1, <3>2 DEF Found, Settled
  <2>4. proc'[p].at \notin {"move", "putback", "copy", "wipe", "return"} BY <1>2, Regions
  <2>5. Local(p, e)' BY <1>1, <1>2, <2>4 DEF Local, Taken, Settled, Cleared, At
  <2> QED BY <2>2, <2>3, <2>5
<1> QED BY <1>0, <1>3, <1>4, SafeByHolder

(* What the holder of a transaction knows of it.                           *)
LEMMA HolderKnows ==
  ASSUME Sensible, Roles, Safe, NEW p \in Procs, proc[p].at \in Engaged
  PROVE  /\ Holder(p) /\ proc[p].at \notin Drafting /\ Live(p)
         /\ journal # NoJournal /\ journal.tx = proc[p].j.tx /\ journal.tx \in Tx
         /\ proc[p].j \in JournalType \ {NoJournal}
         /\ Snapshot(p) = snap[journal.tx] /\ \A e : Saved(e) = Snapshot(p).of[e]
         /\ proc[p].at \in Applying \cup Restoring \cup {"record"} => Backed
         /\ proc[p].at \notin Restoring => proc[p].away = Empty
<1>1. Holder(p) /\ proc[p].at \notin Drafting /\ Live(p) BY Geography DEF Holder, Live
<1>2. journal # NoJournal /\ journal.tx = proc[p].j.tx BY <1>1 DEF Roles, Held
<1>3. journal.tx \in Tx BY <1>2, JournalForms DEF Sensible, Types
<1>4. proc[p].j \in JournalType \ {NoJournal}
  <2>1. proc[p] \in ProcType /\ Equipped(proc[p]) BY DEF Sensible, Types
  <2> QED BY <2>1 DEF ProcType, Equipped
<1>5. Snapshot(p) = snap[journal.tx] /\ \A e : Saved(e) = Snapshot(p).of[e] BY <1>2 DEF Snapshot, Saved
<1>6. proc[p].at \in Applying \cup Restoring \cup {"record"} => Backed
  BY <1>5, Regions, Geography DEF Safe, Phased, Backed, Whole
<1>7. proc[p].at \notin Restoring => proc[p].away = Empty BY DEF Sensible, Equipped
<1> QED BY <1>1, <1>2, <1>3, <1>4, <1>5, <1>6, <1>7

LEMMA DraftSafe ==
  ASSUME Sensible, Roles, Roles', Safe, NEW p \in {"server", "worker"},
         Refuse(p) \/ BeginSnapshot(p) \/ TakeSnapshot(p) \/ Open(p) \/ PrepareFails(p)
  PROVE  Safe'
<1> USE DEF At
<1>0. p \in Procs /\ proc \in [Procs -> ProcType] /\ Equipped(proc[p]) /\ Held(p)
  BY Geography DEF Sensible, Types, Roles
<1>a. proc[p].at \in {"prepare", "snapshot", "open"} /\ UNCHANGED <<root, aside, latest, late, risky>>
  BY DEF Refuse, BeginSnapshot, TakeSnapshot, Open, PrepareFails, WriteJournal, disk, history
<1>b. proc[p].away = Empty
  <2>1. proc[p].at \notin Restoring BY <1>a DEF Restoring
  <2> QED BY <1>0, <2>1 DEF Equipped
<1>1. CASE Refuse(p)
  <2>1. Moves(p) /\ proc'[p].at \in {"serving", "failed", "down"} BY <1>0, <1>1, PrepareEffects DEF Ends, Becomes
  <2>2. UNCHANGED <<root, snap, journal, latest, late, risky, aside>> BY <1>1 DEF Refuse, disk, history
  <2>3. \A q \in Procs \ {p} : proc'[q] = proc[q] BY <2>1 DEF Moves
  <2>4. proc'[p].at \notin Drafting /\ proc'[p].at \notin Engaged BY <2>1, Geography
  <2>5. {p} \in SUBSET Procs BY <1>0
  <2>6. \A q \in {p} : proc'[q].at \notin Drafting /\ proc'[q].at \notin Engaged /\ proc[q].away = Empty BY <1>b, <2>4
  <2> QED BY <2>2, <2>3, <2>5, <2>6, SafeByIdle
<1>2. ASSUME ~ OpenJournal, ~ OpenJournal', Moves(p), Holder(p) \/ Holder(p)', proc'[p].away = Empty,
             proc'[p].at \in {"snapshot", "open", "serving", "failed", "down"},
             proc'[p].at = "open" => Whole(p)' /\ \A e \in Entries : Snapshot(p)'.of[e] = root[e]
      PROVE  Safe'
  <2>1. ~ Backed /\ ~ Backed' BY <1>2 DEF Backed
  <2>2. proc'[p].at \notin Applying /\ proc'[p].at \notin Undoing /\ proc'[p].at \notin Restoring
        /\ proc'[p].at \notin Settling /\ proc'[p].at # "record"
    BY <1>2 DEF Applying, Undoing, Restoring, Settling, Closing
  <2>3. Phased(p)' BY <1>2, <2>2 DEF Phased
  <2>4. ASSUME NEW e \in Entries PROVE Known(e)' /\ Found(e)' /\ Local(p, e)'
    <3>1. Known(e) /\ Found(e) BY DEF Safe
    <3>2. Known(e)' BY <1>a, <2>1, <3>1 DEF Known, IsLate
    <3>3. \A q \in Procs : proc'[q].away = proc[q].away BY <1>2, <1>b DEF Moves
    <3>4. Found(e)' BY <1>a, <2>1, <3>1, <3>3 DEF Found
    <3>5. Taken(p, e)' BY <1>2, <1>a, <2>1, <3>1 DEF Taken, Known, IsLate
    <3>6. Settled(p, e)' /\ Cleared(p, e)' BY <2>1, <2>2, Regions DEF Settled, Cleared
    <3> QED BY <3>2, <3>4, <3>5, <3>6 DEF Local
  <2> QED BY <1>0, <1>2, <2>3, <2>4, SafeByHolder
<1>3. CASE BeginSnapshot(p)
  <2>1. PICK t \in Unnamed : Turns(p, "snapshot", Draft(p, t)) BY <1>0, <1>3, PrepareEffects
  <2>2. ~ OpenJournal /\ ~ OpenJournal' BY <1>3 DEF BeginSnapshot, OpenJournal
  <2>3. Holder(p)' BY <2>1 DEF Turns, Holder, Drafting
  <2> QED BY <1>2, <1>b, <2>1, <2>2, <2>3 DEF Turns
<1>4. CASE TakeSnapshot(p)
  <2>1. Turns(p, "open", proc[p].j) BY <1>0, <1>4, PrepareEffects
  <2>2. Holder(p) /\ journal = NoJournal /\ proc[p].j # NoJournal
    BY <1>0, <1>4 DEF TakeSnapshot, Holder, Drafting, Held, Equipped
  <2>3. ~ OpenJournal /\ ~ OpenJournal' BY <1>4, <2>2 DEF TakeSnapshot, OpenJournal
  <2>4. proc[p].j.tx \in Tx
    <3>1. proc[p].j \in JournalType \ {NoJournal} BY <1>0, <2>2 DEF ProcType
    <3> QED BY <3>1, JournalForms
  <2>5. Snapshot(p)' = [state |-> "whole", of |-> root]
    BY <1>4, <2>1, <2>4 DEF TakeSnapshot, Snapshot, Turns, Sensible, Types
  <2> QED BY <1>2, <1>b, <2>1, <2>2, <2>3, <2>5 DEF Turns, Whole
<1>5. CASE PrepareFails(p)
  <2>1. Ends(p) BY <1>0, <1>5, PrepareEffects
  <2>2. Holder(p) /\ journal = NoJournal BY <1>0, <1>5 DEF PrepareFails, Holder, Drafting, Held
  <2>3. ~ OpenJournal /\ ~ OpenJournal' BY <1>5, <2>2 DEF PrepareFails, OpenJournal
  <2>4. proc'[p].at \in {"serving", "failed", "down"} /\ proc'[p].away = Empty /\ Moves(p) BY <2>1 DEF Ends, Becomes
  <2> QED BY <1>2, <2>2, <2>3, <2>4
<1>6. CASE Open(p)
  <2>1. Turns(p, "migrating", proc[p].j) /\ journal' = proc[p].j /\ UNCHANGED snap
    BY <1>0, <1>6, PrepareEffects DEF Open, WriteJournal
  <2>2. /\ proc[p].at = "open" /\ Holder(p) /\ journal = NoJournal /\ proc[p].j # NoJournal
        /\ proc[p].j.phase = "snapshot_verified"
    BY <1>0, <1>6 DEF Open, Holder, Drafting, Held, Equipped
  <2>3. OpenJournal' /\ ~ OpenJournal BY <2>1, <2>2 DEF OpenJournal, Finished
  <2>4. Whole(p) /\ Whole(p)' BY <1>0, <2>1, <2>2 DEF Safe, Phased, Turns, Whole, Snapshot
  <2>5. Phased(p)' BY <2>3, <2>4 DEF Phased
  <2>6. Backed' /\ (\A e : Saved(e)' = Snapshot(p).of[e]) /\ ~ Backed
    BY <2>1, <2>3, <2>4 DEF Backed, Saved, Whole, Snapshot
  <2>7. ASSUME NEW e \in Entries PROVE Known(e)' /\ Found(e)' /\ Local(p, e)'
    <3>1. Found(e) /\ Taken(p, e) BY <1>0 DEF Safe, Local
    <3>2. Known(e)' BY <1>a, <2>2, <2>6, <3>1 DEF Known, Taken, IsLate
    <3>3. \A q \in Procs : proc'[q].away = proc[q].away BY <2>1 DEF Turns, Moves
    <3>4. Found(e)' BY <1>a, <2>6, <3>1, <3>3 DEF Found
    <3>5. proc'[p].at = "migrating" BY <2>1 DEF Turns
    <3>6. Local(p, e)' BY <3>5 DEF Local, Taken, Settled, Cleared, Settling, Closing
    <3> QED BY <3>2, <3>4, <3>6
  <2> QED BY <1>0, <2>1, <2>2, <2>5, <2>7, SafeByHolder DEF Turns
<1> QED BY <1>1, <1>3, <1>4, <1>5, <1>6

LEMMA MigrateSafe ==
  ASSUME Sensible, Roles, Safe, NEW p \in {"server", "worker"},
         MarkMigrating(p) \/ Migrate(p) \/ Validate(p) \/ MigrateHarms(p) \/ MigrationFails(p)
  PROVE  Safe'
<1> USE DEF At
<1>0. p \in Procs /\ proc[p].at \in {"migrating", "migrate", "validate"}
  BY Geography DEF MarkMigrating, Migrate, Validate, MigrateHarms, MigrationFails
<1>1. proc[p].at \in Applying /\ proc[p].at \in Engaged /\ proc[p].at \notin Restoring /\ proc[p].at # "open"
  BY <1>0 DEF Applying, Engaged, Restoring
<1>2. /\ Holder(p) /\ journal # NoJournal /\ journal.tx = proc[p].j.tx /\ Backed
      /\ proc[p].j \in JournalType \ {NoJournal} /\ proc[p].away = Empty
      /\ Snapshot(p) = snap[journal.tx] /\ \A e : Saved(e) = Snapshot(p).of[e]
  BY <1>0, <1>1, HolderKnows
<1>3. ASSUME NEW x \in {"migrating", "data_prepared"}
      PROVE  Phase(p, x) # NoJournal /\ Phase(p, x).tx = journal.tx /\ Phase(p, x).phase \notin Finished
  <2>1. x \in Phases /\ x \notin Finished BY DEF Phases, Finished
  <2> QED BY <1>2, <2>1, JournalForms DEF Phase
<1>4. \A b : b \in {"migrate", "validate", "verify", "mark"} =>
         /\ b \in Engaged /\ b \in Applying \cup Undoing /\ b \notin Restoring
         /\ (b \in Settling <=> b = "mark") /\ b \notin {"move", "putback", "copy", "wipe", "return"}
  BY DEF Engaged, Applying, Undoing, Restoring, Settling, Closing
<1>5. ASSUME NEW b \in {"migrate", "validate", "verify", "mark"}, NEW j, Turns(p, b, j), j.tx = proc[p].j.tx,
             UNCHANGED <<root, snap, latest, late, risky, aside>>,
             journal' = journal \/ (OpenJournal' /\ journal'.tx = journal.tx),
             b = "mark" => \A e \in Entries : Settled(p, e)'
      PROVE  Safe'
  <2>1. \A e \in Entries : Cleared(p, e)' BY <1>4, <1>5 DEF Turns, Cleared
  <2> QED BY <1>0, <1>1, <1>4, <1>5, <2>1, SafeByTurn DEF Turns
<1>6. CASE MarkMigrating(p)
  <2>1. Turns(p, "migrate", Phase(p, "migrating")) BY <1>0, <1>6, PrepareEffects
  <2>2. journal' = Phase(p, "migrating") /\ UNCHANGED <<root, snap, latest, late, risky, aside>>
    BY <1>6 DEF MarkMigrating, WriteJournal, history
  <2> QED BY <1>2, <1>3, <1>5, <2>1, <2>2 DEF OpenJournal
<1>7. CASE MigrationFails(p)
  <2>1. Turns(p, "verify", proc[p].j) BY <1>0, <1>7, PrepareEffects
  <2> QED BY <1>5, <1>7, <2>1 DEF MigrationFails, disk, history
<1>8. CASE Validate(p)
  <2>1. CASE /\ Contains(snap[proc[p].j.tx].of, root) /\ Turns(p, "mark", Phase(p, "data_prepared"))
             /\ journal' = Phase(p, "data_prepared") /\ UNCHANGED <<root, aside, snap, marker, history, used>>
    <3>1. UNCHANGED <<root, snap, latest, late, risky, aside>> BY <2>1 DEF history
    <3>2. \A e \in Entries : Settled(p, e)'
      <4>1. \A e \in Entries : snap[journal.tx].of[e] # 0 => root[e] = snap[journal.tx].of[e] BY <1>2, <2>1 DEF Contains
      <4>2. \A e : Saved(e)' = snap[journal.tx].of[e] BY <1>2, <1>3, <2>1, <3>1 DEF Saved
      <4> QED BY <3>1, <4>1, <4>2 DEF Settled
    <3> QED BY <1>2, <1>3, <1>5, <2>1, <3>1, <3>2 DEF OpenJournal
  <2>2. CASE Turns(p, "verify", proc[p].j) /\ UNCHANGED <<disk, history, used>>
    BY <1>5, <2>2 DEF disk, history
  <2> QED BY <1>0, <1>8, <2>1, <2>2, PrepareEffects
(* The migration itself changes entries the snapshot has.                  *)
<1>9. ASSUME NEW b \in {"migrate", "validate"}, Moves(p), proc'[p].at = b, proc'[p].j = proc[p].j,
             proc'[p].away = proc[p].away, UNCHANGED <<snap, journal, latest, late, aside>>, risky \subseteq risky',
             \A e \in Entries : root'[e] = root[e]
                                \/ root[e] = 0 \/ (<<e, root[e]>> \in late => <<e, root[e]>> \in risky')
      PROVE  Safe'
  <2>1. Backed' /\ \A e : Saved(e)' = Saved(e) BY <1>2, <1>9 DEF Backed, Saved, OpenJournal
  <2>2. Phased(p)' BY <1>0, <1>1, <1>2, <1>9 DEF Safe, Phased, OpenJournal, Whole, Snapshot
  <2>3. ASSUME NEW e \in Entries PROVE Known(e)' /\ Found(e)' /\ Local(p, e)'
    <3>1. Known(e) /\ Found(e) BY DEF Safe
    <3>2. Known(e)' BY <1>2, <1>9, <2>1, <3>1 DEF Known, IsLate
    <3>3. \A q \in Procs : proc'[q].away = proc[q].away BY <1>9 DEF Moves
    <3>4. Found(e)'
      <4>1. CASE root'[e] = root[e] BY <1>2, <1>9, <2>1, <3>1, <3>3, <4>1 DEF Found
      <4>2. CASE root[e] # latest[e] BY <1>2, <1>9, <2>1, <3>1, <3>3, <4>2 DEF Found
      <4>3. CASE root[e] = latest[e] /\ (<<e, root[e]>> \in late => <<e, root[e]>> \in risky')
        BY <1>2, <1>9, <2>1, <3>1, <4>3 DEF Found, Known, IsLate
      <4>4. CASE root[e] = latest[e] /\ root[e] = 0 BY <1>9, <4>4 DEF Found
      <4> QED BY <1>9, <4>1, <4>2, <4>3, <4>4
    <3>5. Local(p, e)' BY <1>4, <1>9, Geography DEF Local, Taken, Settled, Cleared
    <3> QED BY <3>2, <3>4, <3>5
  <2> QED BY <1>0, <1>2, <1>9, <2>2, <2>3, SafeByHolder
<1>10. CASE Migrate(p)
  <2>1. CASE \E e \in Legacy : root[e] = 0 /\ root' = [root EXCEPT ![e] = 1] /\ UNCHANGED proc
    <3>1. proc' = [proc EXCEPT ![p] = proc'[p]] /\ proc' \in [Procs -> ProcType] BY <2>1 DEF Sensible, Types
    <3>2. \A e \in Entries : root'[e] = root[e] \/ root[e] = 0 BY <2>1 DEF Sensible, Types, Data
    <3> QED BY <1>9, <1>10, <2>1, <3>1, <3>2 DEF Migrate, Moves, history
  <2>2. CASE Turns(p, "validate", proc[p].j) /\ UNCHANGED root
    BY <1>5, <1>10, <2>2 DEF Migrate, history
  <2> QED BY <1>0, <1>10, <2>1, <2>2, PrepareEffects
<1>11. CASE MigrateHarms(p)
  <2>1. Turns(p, "validate", proc[p].j) BY <1>0, <1>11, PrepareEffects
  <2>2. PICK e \in Kept : root' = [root EXCEPT ![e] = 0] /\ risky' = risky \cup (late \cap {<<e, root[e]>>})
    BY <1>11 DEF MigrateHarms
  <2>3. \A f \in Entries : root'[f] = root[f] \/ (<<f, root[f]>> \in late => <<f, root[f]>> \in risky')
    BY <2>2 DEF Sensible, Types, Data
  <2> QED BY <1>9, <1>11, <2>1, <2>2, <2>3 DEF MigrateHarms, Turns
<1> QED BY <1>6, <1>7, <1>8, <1>10, <1>11

LEMMA MarkSafe ==
  ASSUME Sensible, Roles, Safe, NEW p \in Procs, Mark(p) \/ MarkFails(p)
  PROVE  Safe'
<1> USE DEF At
<1>0. proc[p].at \in {"mark", "marking"} /\ UNCHANGED <<root, snap, latest, late, risky, aside>>
  BY DEF Mark, ReadForMark, WriteMark, MarkFails, disk, history
<1>1. /\ proc[p].at \in Applying /\ proc[p].at \in Engaged /\ proc[p].at \notin Restoring
      /\ proc[p].at \in Settling
  BY <1>0 DEF Applying, Engaged, Restoring, Settling
<1>2. /\ Holder(p) /\ journal # NoJournal /\ journal.tx = proc[p].j.tx /\ Backed
      /\ proc[p].j \in JournalType \ {NoJournal} /\ proc[p].away = Empty
  BY <1>1, HolderKnows
<1>3. \A b : b \in {"marking", "launch", "wait", "rollback"} =>
         /\ b \in Engaged /\ b \in Applying \cup Undoing
         /\ b \notin {"move", "putback", "copy", "wipe", "return"}
         /\ b \in Applying \cup Restoring \cup {"record"} => b # "rollback"
         /\ b \in Settling => b # "rollback"
  BY DEF Engaged, Applying, Undoing, Restoring, Settling, Closing
<1>4. ASSUME NEW b \in {"marking", "launch", "wait", "rollback"}, NEW j, Turns(p, b, j), j.tx = proc[p].j.tx,
             journal' = journal \/ (OpenJournal' /\ journal'.tx = journal.tx)
      PROVE  Safe'
  <2>1. \A e \in Entries : Cleared(p, e)' BY <1>3, <1>4 DEF Turns, Cleared
  <2> QED BY <1>0, <1>1, <1>3, <1>4, <2>1, SafeByTurn DEF Turns
<1>5. CASE ReadForMark(p)
  <2>1. Turns(p, "marking", journal) /\ journal' = journal BY <1>2, <1>5, MarkEffects DEF ReadForMark, disk
  <2> QED BY <1>2, <1>4, <2>1
<1>6. CASE WriteMark(p)
  <2>1. Target(p) \in Phases /\ journal' = Phase(p, Target(p)) BY <1>6, MarkEffects DEF WriteMark
  <2>2. journal' # NoJournal /\ journal'.phase = Target(p) /\ journal'.tx = proc[p].j.tx
    BY <1>2, <2>1, JournalForms DEF Phase
  <2>3. CASE p = "server"
    <3>1. Turns(p, "launch", journal') BY <1>6, <2>1, <2>3, MarkEffects
    <3>2. OpenJournal' BY <2>2, <2>3 DEF OpenJournal, Target, Finished
    <3> QED BY <1>2, <1>4, <2>2, <3>1, <3>2
  <2>4. CASE p = "worker"
    <3>1. Turns(p, "recover", journal') BY <1>6, <2>1, <2>4, MarkEffects
    <3>2. ~ OpenJournal' BY <2>2, <2>4 DEF OpenJournal, Target, Finished
    <3> QED BY <1>0, <1>1, <1>2, <3>1, <3>2, Geography, SafeByClosing DEF Turns
  <2>5. CASE p = "helper" /\ proc[p].aim = "installer_running"
    <3>1. Turns(p, "wait", journal') BY <1>6, <2>1, <2>5, MarkEffects
    <3>2. OpenJournal' BY <2>2, <2>5 DEF OpenJournal, Target, Finished
    <3> QED BY <1>2, <1>4, <2>2, <3>1, <3>2
  <2>6. CASE p = "helper" /\ proc[p].aim # "installer_running"
    <3>1. Ends(p) BY <1>6, <2>6, MarkEffects
    <3>2. proc[p].aim = "installer_succeeded" BY <1>0, <2>6 DEF Sensible, Aiming
    <3>3. ~ OpenJournal' BY <2>2, <2>6, <3>2 DEF OpenJournal, Target, Finished
    <3>4. Moves(p) /\ proc'[p].at \in {"down", "failed", "serving"} BY <3>1 DEF Ends, Becomes
    <3> QED BY <1>0, <1>1, <1>2, <3>3, <3>4, Geography, SafeByClosing
  <2> QED BY <2>3, <2>4, <2>5, <2>6, Geography
<1>7. CASE MarkFails(p)
  <2>1. GivesIn(p) /\ journal' = journal BY <1>7, MarkEffects DEF MarkFails, disk
  <2>2. CASE Turns(p, "rollback", proc[p].j) BY <1>4, <2>1, <2>2
  <2>3. CASE Ends(p)
    <3>1. Moves(p) /\ proc'[p].at \in {"down", "failed", "serving"} BY <2>3 DEF Ends, Becomes
    <3>2. \A q \in {p} : proc'[q].at \notin Drafting /\ proc'[q].at \notin Engaged /\ proc[q].away = Empty
      BY <1>2, <3>1, Geography
    <3>3. \A q \in Procs \ {p} : proc'[q] = proc[q] BY <3>1 DEF Moves
    <3>4. {p} \in SUBSET Procs OBVIOUS
    <3> QED BY <1>0, <2>1, <3>2, <3>3, <3>4, SafeByIdle
  <2> QED BY <2>1, <2>2, <2>3 DEF GivesIn
<1> QED BY <1>5, <1>6, <1>7 DEF Mark

(* The restore: whatever it clears from the data root it keeps in its      *)
(* quarantine until the snapshot is back, and the snapshot is whole.       *)
LEMMA RestoreSafe ==
  ASSUME Sensible, Roles, Safe, NEW p \in Procs,
         Restore(p) \/ MoveFails(p) \/ PutBackFails(p) \/ CopyFails(p) \/ ReturnFails(p) \/ RecordFails(p)
  PROVE  Safe'
<1> USE DEF At
<1>0. proc[p].at \in Undoing /\ proc[p].at \in Engaged /\ UNCHANGED <<snap, latest, late>>
  BY DEF Restore, ReadForRollback, Verify, Move, PutBack, Copy, Wipe, Return, Record, WriteJournal, Engaged,
         MoveFails, PutBackFails, CopyFails, ReturnFails, RecordFails, disk, history, Undoing, Restoring
<1>1. /\ Holder(p) /\ journal # NoJournal /\ journal.tx = proc[p].j.tx
      /\ proc[p].j \in JournalType \ {NoJournal}
      /\ Snapshot(p) = snap[journal.tx] /\ \A e : Saved(e) = Snapshot(p).of[e]
      /\ proc[p].at \in Restoring \cup {"record"} => Backed
      /\ proc[p].at \notin Restoring => proc[p].away = Empty
      /\ OpenJournal
  BY <1>0, HolderKnows DEF Safe, Phased
<1>2. root \in Data /\ proc[p].away \in Data /\ Snapshot(p) \in [state : {"gone", "partial", "whole"}, of : Data]
      /\ proc[p].left \subseteq Entries /\ journal.tx \in Tx
  BY <1>0, <1>1, HolderKnows DEF Sensible, Types, ProcType
<1>3. \A b : b \in {"verify", "move", "putback", "copy", "wipe", "return", "record"} =>
         b \in Engaged /\ b \in Undoing /\ b \notin Applying /\ (b \in Settling <=> b = "record")
         /\ b # "open" /\ (b \in {"record"} \cup Restoring <=> b # "verify")
  BY DEF Engaged, Applying, Undoing, Restoring, Settling, Closing
(* The holder goes on; the disk stays as it is.                            *)
<1>4. ASSUME NEW b \in {"verify", "move", "putback", "copy", "wipe", "return"}, Moves(p), proc'[p].at = b,
             proc'[p].j.tx = proc[p].j.tx, proc'[p].away = proc[p].away,
             UNCHANGED <<root, risky, aside, journal>>,
             b = "verify" \/ Whole(p), \A e \in Entries : Cleared(p, e)'
      PROVE  Safe'
  BY <1>0, <1>3, <1>4, Geography, SafeByTurn
<1>5. CASE ReadForRollback(p)
  <2>1. Turns(p, "verify", journal) /\ UNCHANGED <<root, risky, aside, journal>>
    BY <1>1, <1>5, RestoreEffects DEF ReadForRollback, disk, history
  <2>2. \A e \in Entries : Cleared(p, e)' BY <2>1 DEF Turns, Cleared
  <2> QED BY <1>1, <1>4, <2>1, <2>2 DEF Turns
<1>6. CASE Verify(p)
  <2>0. UNCHANGED <<root, risky, aside, journal>> /\ proc[p].at = "verify" BY <1>6 DEF Verify, disk, history
  <2>1. CASE Whole(p) /\ Carries(p, "move", {e \in Entries : root[e] # 0}, proc[p].away)
    <3>1. proc[p].away = Empty BY <1>1, <1>3, <2>0
    <3>2. \A e \in Entries : Cleared(p, e)' BY <2>0, <2>1, <3>1 DEF Carries, Cleared, Empty
    <3> QED BY <1>4, <2>0, <2>1, <3>2 DEF Carries
  <2>2. CASE Ends(p)
    <3>1. Moves(p) /\ proc'[p].at \in {"down", "failed", "serving"} BY <2>2 DEF Ends, Becomes
    <3>2. \A q \in {p} : proc'[q].at \notin Drafting /\ proc'[q].at \notin Engaged /\ proc[q].away = Empty
      BY <1>1, <1>3, <2>0, <3>1, Geography
    <3>3. \A q \in Procs \ {p} : proc'[q] = proc[q] BY <3>1 DEF Moves
    <3>4. {p} \in SUBSET Procs OBVIOUS
    <3> QED BY <1>0, <2>0, <3>2, <3>3, <3>4, SafeByIdle
  <2> QED BY <1>6, <2>1, <2>2, RestoreEffects
(* The data root changes under the restore.                                *)
<1>7. ASSUME proc[p].at \in Restoring, Moves(p), UNCHANGED <<snap, journal>>,
             aside \subseteq aside', risky \subseteq risky',
             proc'[p].at \in Restoring \/ proc'[p].at \in {"record", "down", "failed", "serving"},
             proc'[p].at \in Restoring \cup {"record"} => proc'[p].j = proc[p].j,
             \A e \in Entries : /\ proc'[p].at = "record" => Settled(p, e)'
                                /\ Cleared(p, e)' /\ Found(e)'
      PROVE  Safe'
  <2>1. Backed /\ Backed' /\ \A e : Saved(e)' = Saved(e)
    BY <1>1, <1>7 DEF Backed, Saved, OpenJournal
  <2>2. Phased(p)'
    <3>1. proc'[p].at \notin Applying /\ proc'[p].at # "open" /\ OpenJournal'
      BY <1>1, <1>7, Geography, Regions DEF OpenJournal
    <3>2. proc'[p].at \in Restoring \cup {"record"} => Whole(p)'
      BY <1>1, <1>7, <2>1 DEF Whole, Snapshot, Backed
    <3> QED BY <3>1, <3>2 DEF Phased
  <2>3. ASSUME NEW e \in Entries PROVE Known(e)' /\ Found(e)' /\ Local(p, e)'
    <3>1. Known(e)' BY <1>0, <2>1 DEF Safe, Known, IsLate
    <3>2. Taken(p, e)' BY <1>7, Regions DEF Taken, Restoring
    <3>3. Settled(p, e)'
      <4>1. proc'[p].at \in Settling => proc'[p].at = "record" BY <1>7, Regions, Geography
      <4> QED BY <1>7, <4>1 DEF Settled
    <3> QED BY <1>7, <3>1, <3>2, <3>3 DEF Local
  <2> QED BY <1>1, <1>7, <2>2, <2>3, SafeByHolder
<1>8. \A e \in Entries : Found(e) /\ Cleared(p, e) /\ Known(e) BY DEF Safe, Local
<1>9. \A q \in Procs : q # p => proc[q].away = Empty BY <1>1, Sole
<1>10. {"move", "putback", "copy", "wipe", "return"} = Restoring BY Regions

<1>11. CASE Move(p)
  <2>0. proc[p].at = "move" /\ UNCHANGED <<aside, risky, journal>> BY <1>11 DEF Move, history
  <2>1. CASE \E e \in proc[p].left :
               /\ root[e] # 0 /\ root' = [root EXCEPT ![e] = 0]
               /\ Carries(p, "move", proc[p].left \ {e}, [proc[p].away EXCEPT ![e] = root[e]])
    <3>1. PICK f \in proc[p].left :
            /\ root[f] # 0 /\ root' = [root EXCEPT ![f] = 0]
            /\ Carries(p, "move", proc[p].left \ {f}, [proc[p].away EXCEPT ![f] = root[f]])
      BY <2>1
    <3>2. f \in Entries /\ proc[p].away[f] = 0 BY <1>2, <1>8, <2>0 DEF Cleared
    <3>3. /\ root'[f] = 0 /\ proc'[p].away[f] = root[f]
          /\ \A e \in Entries : e # f => root'[e] = root[e] /\ proc'[p].away[e] = proc[p].away[e]
      BY <1>2, <3>1, <3>2 DEF Data, Carries
    <3>4. ASSUME NEW e \in Entries PROVE Cleared(p, e)' /\ Found(e)'
      <4>1. CASE e = f
        <5>1. Cleared(p, e)' BY <3>1, <3>3, <4>1 DEF Cleared, Carries
        <5>2. \A q \in Procs : proc[q].away[e] = 0 BY <1>9, <3>2, <4>1 DEF Empty
        <5>3. Found(e) /\ latest' = latest /\ aside' = aside /\ risky' = risky BY <1>0, <1>8, <2>0
        <5>4. Saved(e)' = Saved(e) /\ (Backed' <=> Backed) BY <1>0, <2>0 DEF Backed, Saved, OpenJournal
        <5>5. proc'[p].away[e] = root[e] BY <3>3, <4>1
        <5>6. ASSUME root[e] = latest[e] PROVE Found(e)' BY <5>3, <5>5, <5>6 DEF Found
        <5>7. ASSUME root[e] # latest[e] PROVE Found(e)' BY <5>2, <5>3, <5>4, <5>7 DEF Found
        <5>8. Found(e)' BY <5>6, <5>7
        <5> QED BY <5>1, <5>8
      <4>2. CASE e # f
        <5>0. Cleared(p, e) /\ Found(e) BY <1>8
        <5>1. Snapshot(p)' = Snapshot(p) BY <1>0, <3>1 DEF Carries, Snapshot
        <5>2. Cleared(p, e)' BY <1>0, <2>0, <3>1, <3>3, <4>2, <5>0, <5>1 DEF Cleared, Carries
        <5>3. \A q \in Procs : proc'[q].away[e] = proc[q].away[e] BY <3>1, <3>3, <4>2 DEF Carries, Moves
        <5>4. Found(e)' BY <1>0, <2>0, <3>3, <4>2, <5>0, <5>3 DEF Found, Backed, Saved, OpenJournal
        <5> QED BY <5>2, <5>4
      <4> QED BY <4>1, <4>2
    <3>5. "move" \in Restoring /\ "move" # "record" BY <1>10
    <3> QED BY <1>0, <1>7, <2>0, <3>1, <3>4, <3>5 DEF Carries
  <2>2. CASE /\ proc[p].left = {} /\ UNCHANGED root
             /\ Carries(p, "copy", {e \in Entries : Snapshot(p).of[e] # 0}, proc[p].away)
    <3>1. Whole(p) BY <1>10, <2>0 DEF Safe, Phased
    <3>2. Snapshot(p)' = Snapshot(p) BY <1>0, <2>2 DEF Carries, Snapshot
    <3>3. \A e \in Entries : Cleared(p, e)'
      BY <1>0, <1>8, <2>0, <2>2, <3>2 DEF Cleared, Carries
    <3> QED BY <1>4, <2>0, <2>2, <3>1, <3>3 DEF Carries
  <2> QED BY <1>11, <2>1, <2>2, RestoreEffects
<1>12. CASE MoveFails(p)
  <2>1. Turns(p, "putback", proc[p].j) /\ proc[p].at = "move" /\ UNCHANGED <<root, risky, aside, journal>>
    BY <1>12, RestoreEffects DEF MoveFails, disk, history
  <2>2. Whole(p) BY <1>10, <2>1 DEF Safe, Phased
  <2>3. \A e \in Entries : Cleared(p, e)' BY <1>0, <1>8, <2>1 DEF Cleared, Turns
  <2> QED BY <1>4, <2>1, <2>2, <2>3 DEF Turns
<1>13. ASSUME Ends(p), proc[p].at \in Restoring, UNCHANGED journal, aside \subseteq aside', risky \subseteq risky',
              \A e \in Entries : Found(e)'
       PROVE  Safe'
  <2>1. Moves(p) /\ proc'[p].at \in {"down", "failed", "serving"} BY <1>13 DEF Ends, Becomes
  <2>2. \A e \in Entries : Cleared(p, e)' BY <2>1 DEF Cleared
  <2>3. proc'[p].at \notin Restoring \cup {"record"} BY <2>1, Regions, Geography
  <2> QED BY <1>0, <1>7, <1>13, <2>1, <2>2, <2>3
<1>14. CASE PutBack(p) \/ PutBackFails(p)
  <2>0. Ends(p) /\ proc[p].at = "putback" /\ UNCHANGED <<aside, journal>> /\ risky \subseteq risky'
    BY <1>14, RestoreEffects DEF PutBack, PutBackFails, history
  <2>1. \A e \in Entries : (proc[p].away[e] # 0 /\ root[e] # 0 => root[e] = latest[e]) BY <1>8, <2>0 DEF Cleared
  <2>2. ASSUME NEW e \in Entries PROVE root'[e] = Back(p)[e] \/ (root'[e] = root[e] /\ <<e, proc[p].away[e]>> \in risky')
    BY <1>14 DEF PutBack, PutBackFails, Back
  <2>3. ASSUME NEW e \in Entries PROVE Found(e)'
    <3>1. Back(p)[e] = IF root[e] = 0 THEN proc[p].away[e] ELSE root[e] BY DEF Back
    <3>2. \A q \in Procs : q # p => proc'[q].away = Empty BY <1>9, <2>0 DEF Ends, Becomes, Moves
    <3>3. Found(e) BY <1>8
    <3>4. \A q \in Procs : proc[q].away[e] # 0 => q = p BY <1>9 DEF Empty
    <3>5. SUFFICES ASSUME latest[e] # 0 PROVE Found(e)' BY <1>0 DEF Found
    <3>6. CASE root[e] = latest[e] BY <1>0, <2>2, <3>1, <3>5, <3>6 DEF Found
    <3>7. CASE <<e, latest[e]>> \in aside \cup risky BY <1>0, <2>0, <3>7 DEF Found
    <3>8. CASE proc[p].away[e] = latest[e] BY <1>0, <2>1, <2>2, <3>1, <3>5, <3>8 DEF Found
    <3>9. CASE Backed /\ Saved(e) = latest[e] BY <1>0, <2>0, <3>9 DEF Found, Backed, Saved, OpenJournal
    <3> QED BY <3>3, <3>4, <3>5, <3>6, <3>7, <3>8, <3>9 DEF Found
  <2> QED BY <1>10, <1>13, <2>0, <2>3
<1>15. CASE Copy(p)
  <2>0. proc[p].at = "copy" /\ UNCHANGED <<risky, journal>> BY <1>15 DEF Copy, history
  <2>a. Backed /\ \A e \in Entries : root[e] \in {0, Snapshot(p).of[e]} \/ <<e, root[e]>> \in risky
    BY <1>1, <1>8, <1>10, <2>0 DEF Cleared
  <2>1. CASE \E e \in proc[p].left :
               /\ Whole(p) /\ root' = [root EXCEPT ![e] = Snapshot(p).of[e]] /\ UNCHANGED aside
               /\ Carries(p, "copy", proc[p].left \ {e}, proc[p].away)
    <3>1. PICK f \in proc[p].left : /\ root' = [root EXCEPT ![f] = Snapshot(p).of[f]] /\ UNCHANGED aside
                                    /\ Carries(p, "copy", proc[p].left \ {f}, proc[p].away)
      BY <2>1
    <3>2. f \in Entries /\ Snapshot(p)' = Snapshot(p) BY <1>0, <1>2, <3>1 DEF Carries, Snapshot
    <3>3. \A e \in Entries : root'[e] = root[e] \/ (root'[e] = Snapshot(p).of[e] /\ e = f)
      BY <1>2, <3>1, <3>2 DEF Data
    <3>4. ASSUME NEW e \in Entries PROVE Cleared(p, e)' /\ Found(e)'
      <4>1. Cleared(p, e)' BY <2>0, <2>a, <3>1, <3>2, <3>3 DEF Cleared, Carries
      <4>2. \A q \in Procs : proc'[q].away = proc[q].away BY <3>1 DEF Carries, Moves
      <4>3. Saved(e)' = Saved(e) /\ Backed' BY <1>0, <2>0, <2>a DEF Saved, Backed, OpenJournal
      <4>4. Found(e) /\ Saved(e) = Snapshot(p).of[e] BY <1>1, <1>8
      <4>5. latest' = latest /\ aside' = aside /\ risky' = risky BY <1>0, <2>0, <3>1
      <4>6. root[e] \in {0, Saved(e)} \/ <<e, root[e]>> \in risky BY <2>a, <4>4
      <4>7. Found(e)'
        <5>1. CASE root'[e] = root[e] BY <2>a, <4>2, <4>3, <4>4, <4>5, <5>1 DEF Found
        <5>2. CASE root'[e] = Saved(e)
          <6>1. CASE root[e] = latest[e] BY <4>3, <4>5, <4>6, <6>1 DEF Found
          <6>2. CASE root[e] # latest[e] BY <4>2, <4>3, <4>4, <4>5, <6>2 DEF Found
          <6> QED BY <6>1, <6>2
        <5> QED BY <3>3, <4>4, <5>1, <5>2
      <4> QED BY <4>1, <4>7
    <3>5. "copy" \in Restoring /\ "copy" # "record" BY <1>10
    <3> QED BY <1>0, <1>7, <2>0, <3>1, <3>4, <3>5 DEF Carries
  <2>2. CASE /\ proc[p].left = {} /\ root = Snapshot(p).of /\ UNCHANGED root /\ KeepAway(p)
             /\ Carries(p, "record", proc[p].left, Empty)
    <3>1. aside \subseteq aside' /\ Quarantine(p) \subseteq aside' BY <2>2 DEF KeepAway
    <3>2. ASSUME NEW e \in Entries PROVE Settled(p, e)' /\ Cleared(p, e)' /\ Found(e)'
      <4>1. Settled(p, e)' BY <1>0, <1>1, <2>0, <2>2 DEF Settled, Saved
      <4>2. Cleared(p, e)' BY <2>2 DEF Cleared, Carries
      <4>3. \A q \in Procs : q # p => proc'[q] = proc[q] BY <2>2 DEF Carries, Moves
      <4>4. latest[e] # 0 /\ proc[p].away[e] = latest[e] => <<e, latest[e]>> \in Quarantine(p) BY DEF Quarantine
      <4>5. Found(e) BY <1>8
      <4>6. Found(e)' BY <1>0, <2>0, <2>2, <3>1, <4>3, <4>4, <4>5 DEF Found, Backed, Saved, OpenJournal
      <4> QED BY <4>1, <4>2, <4>6
    <3> QED BY <1>0, <1>7, <1>10, <2>0, <2>2, <3>1, <3>2 DEF Carries
  <2> QED BY <1>15, <2>1, <2>2, RestoreEffects
<1>16. CASE CopyFails(p)
  <2>1. Turns(p, "wipe", proc[p].j) /\ proc[p].at = "copy" /\ UNCHANGED <<root, risky, aside, journal>>
    BY <1>16, RestoreEffects DEF CopyFails, disk, history
  <2>2. Whole(p) BY <1>10, <2>1 DEF Safe, Phased
  <2>3. Snapshot(p)' = Snapshot(p) BY <1>0, <2>1 DEF Turns, Snapshot
  <2>4. \A e \in Entries : Cleared(p, e)' BY <1>8, <2>1, <2>3 DEF Cleared, Turns
  <2> QED BY <1>4, <2>1, <2>2, <2>4 DEF Turns
<1>17. CASE Wipe(p)
  <2>1. Turns(p, "return", proc[p].j) /\ proc[p].at = "wipe" /\ root' = Empty /\ UNCHANGED <<risky, aside, journal>>
    BY <1>17, RestoreEffects DEF Wipe, history
  <2>2. ASSUME NEW e \in Entries PROVE Cleared(p, e)' /\ Found(e)'
    <3>1. root'[e] = 0 BY <2>1 DEF Empty
    <3>2. Cleared(p, e)' BY <2>1, <3>1 DEF Cleared, Turns
    <3>3. Found(e) /\ Cleared(p, e) /\ Saved(e) = Snapshot(p).of[e] /\ Backed BY <1>1, <1>8, <1>10, <2>1
    <3>4. Saved(e)' = Saved(e) /\ Backed' BY <1>0, <2>1, <3>3 DEF Saved, Backed, OpenJournal
    <3>5. \A q \in Procs : proc'[q].away = proc[q].away BY <2>1 DEF Turns, Moves
    <3>6. Found(e)' BY <1>0, <2>1, <3>3, <3>4, <3>5 DEF Found, Cleared
    <3> QED BY <3>2, <3>6
  <2>3. "return" \in Restoring /\ "return" # "record" BY <1>10
  <2> QED BY <1>0, <1>7, <1>10, <2>1, <2>2, <2>3 DEF Turns
<1>18. CASE Return(p) \/ ReturnFails(p)
  <2>0. Ends(p) /\ proc[p].at \in {"wipe", "return"} /\ UNCHANGED <<journal, risky>> /\ aside \subseteq aside'
    BY <1>18, RestoreEffects DEF Return, ReturnFails, KeepAway, history
  <2>1. ASSUME NEW e \in Entries PROVE Found(e)'
    <3>1. \A q \in Procs : q # p => proc'[q].away[e] = proc[q].away[e] BY <2>0 DEF Ends, Becomes, Moves
    <3>2. Found(e) BY <1>8
    <3>3. Saved(e)' = Saved(e) /\ (Backed' <=> Backed) BY <1>0, <2>0 DEF Saved, Backed, OpenJournal
    <3>4. CASE Return(p)
      <4>1. root[e] = 0 /\ root'[e] = proc[p].away[e] BY <3>4 DEF Return, Empty
      <4> QED BY <1>0, <2>0, <3>1, <3>2, <3>3, <4>1 DEF Found
    <3>5. CASE ReturnFails(p)
      <4>1. UNCHANGED root /\ Quarantine(p) \subseteq aside' BY <3>5 DEF ReturnFails, KeepAway
      <4>2. latest[e] # 0 /\ proc[p].away[e] = latest[e] => <<e, latest[e]>> \in Quarantine(p) BY DEF Quarantine
      <4> QED BY <1>0, <2>0, <3>1, <3>2, <3>3, <4>1, <4>2 DEF Found
    <3> QED BY <1>18, <3>4, <3>5
  <2> QED BY <1>10, <1>13, <2>0, <2>1
<1>19. CASE Record(p) \/ RecordFails(p)
  <2>1. Turns(p, "finalize", Phase(p, "rolled_back")) /\ proc[p].at = "record" /\ UNCHANGED <<root, risky, aside>>
    BY <1>19, RestoreEffects DEF Record, RecordFails, WriteJournal, disk, history
  <2>2. "rolled_back" \in Phases /\ "rolled_back" \in Finished BY DEF Phases, Finished
  <2>3. Phase(p, "rolled_back").phase = "rolled_back" /\ Phase(p, "rolled_back").tx = proc[p].j.tx
    BY <1>1, <2>2, JournalForms DEF Phase
  <2>4. "record" \in Settling /\ "finalize" \in Closing /\ "finalize" \in Settling BY DEF Settling, Closing
  <2>5. proc[p].away = Empty BY <1>1, <2>1, Regions
  <2>6. CASE Record(p)
    <3>1. ~ OpenJournal' BY <2>2, <2>3, <2>6 DEF Record, WriteJournal, OpenJournal
    <3> QED BY <1>0, <2>1, <2>4, <2>5, <3>1, Geography, SafeByClosing DEF Turns
  <2>7. CASE RecordFails(p)
    <3>1. journal' = journal BY <2>7 DEF RecordFails, disk
    <3>2. \A e \in Entries : Cleared(p, e)' BY <2>1 DEF Turns, Cleared
    <3>3. "finalize" \in Engaged /\ "finalize" \notin Applying \cup Undoing /\ "finalize" \notin Restoring /\ "finalize" # "record"
      BY <2>4, Geography
    <3> QED BY <1>0, <2>1, <2>3, <2>4, <3>1, <3>2, <3>3, SafeByTurn DEF Turns
  <2> QED BY <1>19, <2>6, <2>7
<1> QED BY <1>5, <1>6, <1>11, <1>12, <1>14, <1>15, <1>16, <1>17, <1>18, <1>19 DEF Restore


LEMMA CloseSafe ==
  ASSUME Sensible, Roles, Safe, NEW p \in Procs, Finalize(p) \/ FinalizeFails(p)
  PROVE  Safe'
<1> USE DEF At
<1>0. proc[p].at \in Closing /\ UNCHANGED <<root, latest, late, risky, aside>>
  BY DEF Finalize, RetainSnapshot, RemoveSnapshot, RemoveJournal, FinalizeFails, Closing, disk, history
<1>1. proc[p].at \in Engaged /\ proc[p].at \in Settling /\ proc[p].at \notin Restoring BY <1>0, Regions, Geography
<1>2. /\ Holder(p) /\ journal # NoJournal /\ journal.tx = proc[p].j.tx /\ proc[p].away = Empty
      /\ proc[p].j.phase \in Finished
      /\ Snapshot(p) = snap[journal.tx] /\ \A e : Saved(e) = Snapshot(p).of[e]
  BY <1>0, <1>1, HolderKnows DEF Roles, Held
<1>3. \A b : b \in {"removing", "unjournal"} =>
         b \in Closing /\ b \in Engaged /\ b \in Settling /\ b \notin Applying \cup Undoing
         /\ b \notin Applying \cup Restoring \cup {"record"} /\ b \notin {"move", "putback", "copy", "wipe", "return"}
  BY DEF Closing, Engaged, Settling, Applying, Undoing, Restoring
<1>4. CASE RetainSnapshot(p)
  <2>1. Turns(p, "unjournal", proc[p].j) /\ UNCHANGED <<snap, journal>> BY <1>4, CloseEffects DEF RetainSnapshot, disk
  <2>2. \A e \in Entries : Cleared(p, e)' BY <2>1 DEF Turns, Cleared
  <2> QED BY <1>0, <1>1, <1>3, <2>1, <2>2, SafeByTurn DEF Turns
<1>5. CASE RemoveSnapshot(p)
  <2>1. PICK b \in {"removing", "unjournal"} : Turns(p, b, proc[p].j) BY <1>5, CloseEffects
  <2>2. Moves(p) /\ proc'[p].at = b /\ proc'[p].away = proc[p].away BY <2>1 DEF Turns
  <2>3. journal' = journal BY <1>5 DEF RemoveSnapshot
  <2>4. Phased(p)' BY <1>3, <2>2, Geography DEF Phased
  <2>5. ~ Backed' \/ (UNCHANGED snap /\ (Backed' <=> Backed))
    <3>1. journal.tx \in Tx BY <1>1, HolderKnows
    <3>2. snap' = [snap EXCEPT ![journal.tx] = NoSnapshot] \/ snap' = [snap EXCEPT ![journal.tx] = Partial]
          \/ snap' = [snap EXCEPT ![journal.tx] = snap[journal.tx]]
      BY <1>2, <1>5 DEF RemoveSnapshot
    <3>3. NoSnapshot.state = "gone" /\ Partial.state = "partial" BY DEF NoSnapshot, Partial
    <3>4. snap'[journal.tx].state \in {"gone", "partial"} \/ snap' = snap
      BY <3>1, <3>2, <3>3 DEF Sensible, Types
    <3> QED BY <2>3, <3>4 DEF Backed, OpenJournal
  <2>6. ASSUME NEW e \in Entries PROVE Known(e)' /\ Found(e)' /\ Local(p, e)'
    <3>1. Known(e) /\ Found(e) /\ Settled(p, e) BY DEF Safe, Local
    <3>2. UNCHANGED snap => Saved(e)' = Saved(e) BY <2>3 DEF Saved
    <3>3. Known(e)' BY <1>0, <1>1, <2>5, <3>1, <3>2 DEF Known, Settled, IsLate
    <3>4. \A q \in Procs : proc'[q].away = proc[q].away BY <2>2 DEF Moves
    <3>5. Found(e)' BY <1>0, <1>1, <2>5, <3>1, <3>2, <3>4 DEF Found, Settled
    <3>6. Settled(p, e)' BY <1>0, <1>1, <2>5, <3>1, <3>2 DEF Settled
    <3>7. Taken(p, e)' /\ Cleared(p, e)' BY <1>3, <2>2 DEF Taken, Cleared
    <3> QED BY <3>3, <3>5, <3>6, <3>7 DEF Local
  <2> QED BY <1>2, <2>2, <2>4, <2>6, SafeByHolder
<1>6. CASE RemoveJournal(p) \/ FinalizeFails(p)
  <2>1. Resumes(p) /\ UNCHANGED snap BY <1>6, CloseEffects DEF RemoveJournal, FinalizeFails
  <2>2. Moves(p) /\ proc'[p].at \in {"down", "failed", "serving", "version", "marker"}
    BY <2>1 DEF Resumes, Ends, Becomes
  <2>3. CASE journal' = journal
    <3>1. \A q \in {p} : proc'[q].at \notin Drafting /\ proc'[q].at \notin Engaged /\ proc[q].away = Empty
      BY <1>2, <2>2, Geography
    <3>2. \A q \in Procs \ {p} : proc'[q] = proc[q] BY <2>2 DEF Moves
    <3>3. {p} \in SUBSET Procs OBVIOUS
    <3> QED BY <1>0, <2>1, <2>3, <3>1, <3>2, <3>3, SafeByIdle
  <2>4. CASE journal' \in {NoJournal, proc[p].j}
    <3>1. ~ OpenJournal' BY <1>2, <2>4 DEF OpenJournal
    <3> QED BY <1>0, <1>1, <1>2, <2>1, <2>2, <3>1, Geography, SafeByClosing
  <2> QED BY <1>6, <2>3, <2>4 DEF RemoveJournal, FinalizeFails
<1> QED BY <1>4, <1>5, <1>6 DEF Finalize

(* A recovery that overtakes nobody takes up what it finds.                *)
LEMMA RecoverSafe ==
  ASSUME Sensible, Roles, Roles', Safe, NEW p \in {"server", "worker"}, Recover(p)
  PROVE  Safe'
<1> USE DEF At
<1>0. /\ p \in Procs /\ proc[p].at = "recover" /\ Equipped(proc[p])
      /\ UNCHANGED <<root, snap, journal, latest, late, risky, aside>>
  BY Geography DEF Recover, disk, Sensible
<1>1. proc[p].away = Empty
  <2>1. "recover" \notin Restoring BY DEF Restoring
  <2> QED BY <1>0, <2>1 DEF Equipped
<1>2. CASE Ends(p) \/ Resumes(p)
  <2>1. Moves(p) /\ proc'[p].at \in {"down", "failed", "serving", "version", "marker"}
    BY <1>2 DEF Resumes, Ends, Becomes
  <2>2. \A q \in {p} : proc'[q].at \notin Drafting /\ proc'[q].at \notin Engaged /\ proc[q].away = Empty
    BY <1>1, <2>1, Geography
  <2>3. \A q \in Procs \ {p} : proc'[q] = proc[q] BY <2>1 DEF Moves
  <2>4. {p} \in SUBSET Procs BY <1>0
  <2> QED BY <1>0, <2>2, <2>3, <2>4, SafeByIdle
<1>3. CASE \/ journal.phase \in Finished /\ journal # NoJournal /\ Turns(p, "finalize", journal)
           \/ journal # NoJournal /\ journal.phase \notin Finished /\ ~ InstallerAlive /\ Turns(p, "rollback", journal)
  <2>1. Moves(p) /\ proc'[p].away = proc[p].away BY <1>3 DEF Turns
  <2>2. (proc'[p].at = "finalize" /\ ~ OpenJournal) \/ (proc'[p].at = "rollback" /\ OpenJournal)
    BY <1>3 DEF Turns, OpenJournal
  <2>3. Holder(p)' BY <2>2 DEF Holder, Engaged, Undoing, Closing
  <2>4. "finalize" \notin Applying \cup Undoing \cup Restoring \cup {"record", "open"}
        /\ "rollback" \notin Applying \cup Restoring \cup {"record", "open"} /\ "rollback" \notin Settling
    BY DEF Applying, Undoing, Restoring, Settling, Closing
  <2>5. (OpenJournal' <=> OpenJournal) /\ (Backed' <=> Backed) /\ (Backed => OpenJournal) /\ \A e : Saved(e)' = Saved(e)
    BY <1>0 DEF OpenJournal, Backed, Saved
  <2>6. Phased(p)' BY <2>2, <2>4, <2>5 DEF Phased
  <2>7. ASSUME NEW e \in Entries PROVE Known(e)' /\ Found(e)' /\ Local(p, e)'
    <3>1. Known(e) /\ Found(e) BY DEF Safe
    <3>2. Known(e)' BY <1>0, <2>5, <3>1 DEF Known, IsLate
    <3>3. \A q \in Procs : proc'[q].away = proc[q].away BY <2>1 DEF Moves
    <3>4. Found(e)' BY <1>0, <2>5, <3>1, <3>3 DEF Found
    <3>5. Taken(p, e)' /\ Cleared(p, e)' BY <2>2 DEF Taken, Cleared
    <3>6. Settled(p, e)' BY <2>2, <2>4, <2>5 DEF Settled
    <3> QED BY <3>2, <3>4, <3>5, <3>6 DEF Local
  <2> QED BY <1>0, <2>1, <2>3, <2>6, <2>7, SafeByHolder
<1> QED BY <1>0, <1>2, <1>3, CloseEffects

LEMMA ErrandSafe ==
  ASSUME Sensible, Roles, Safe,
         Start \/ RequestUpdate \/ Exit \/ LaunchFails \/ WriteMarker \/ WriteMarkerFails \/ Wait \/ Install
  PROVE  Safe'
<1> USE DEF At
<1>0. UNCHANGED <<root, snap, journal, latest, late, risky, aside>>
  BY DEF Start, RequestUpdate, Exit, LaunchFails, WriteMarker, WriteMarkerFails, Wait, Install, disk, history
<1>1. ASSUME NEW p \in Procs, Moves(p), proc[p].at \in {"down", "serving", "frozen", "marker"},
             proc'[p].at \in {"recover", "prepare", "down", "done", "failed"}
      PROVE  Safe'
  <2>1. proc[p].away = Empty
    <3>1. proc[p].at \notin Restoring BY <1>1 DEF Restoring
    <3> QED BY <3>1 DEF Sensible, Equipped
  <2>2. \A q \in {p} : proc'[q].at \notin Drafting /\ proc'[q].at \notin Engaged /\ proc[q].away = Empty
    BY <1>1, <2>1, Geography
  <2>3. \A q \in Procs \ {p} : proc'[q] = proc[q] BY <1>1 DEF Moves
  <2>4. {p} \in SUBSET Procs OBVIOUS
  <2> QED BY <1>0, <2>2, <2>3, <2>4, SafeByIdle
<1>2. CASE Start BY <1>1, <1>2, ErrandEffects, Geography DEF Start, Becomes
<1>3. CASE RequestUpdate BY <1>1, <1>3, ErrandEffects, Geography DEF RequestUpdate, Serving, Becomes
<1>4. CASE Exit BY <1>1, <1>4, ErrandEffects, Geography DEF Exit, Becomes
<1>5. CASE WriteMarker BY <1>1, <1>5, ErrandEffects, Geography DEF WriteMarker, Turns
<1>6. CASE WriteMarkerFails
  <2>1. Moves("worker") /\ proc'["worker"].at = "failed" BY <1>6, ErrandEffects DEF Ends, Becomes
  <2> QED BY <1>1, <1>6, <2>1, Geography DEF WriteMarkerFails
<1>7. ASSUME NEW p \in Procs, NEW b \in {"rollback", "install", "mark"}, proc[p].at \in {"launch", "wait", "install"},
             Moves(p), proc'[p].at = b, proc'[p].j = proc[p].j, proc'[p].away = proc[p].away
      PROVE  Safe'
  <2>1. proc[p].at \in Applying /\ proc[p].at \in Engaged /\ proc[p].at \in Settling BY <1>7 DEF Applying, Engaged, Settling
  <2>2. b \in Engaged /\ b \in Applying \cup Undoing /\ b \notin {"move", "putback", "copy", "wipe", "return"}
    BY DEF Applying, Undoing, Engaged
  <2>3. \A e \in Entries : Cleared(p, e)' BY <1>7, <2>2 DEF Cleared
  <2> QED BY <1>0, <1>7, <2>1, <2>2, <2>3, SafeByTurn
<1>8. CASE LaunchFails BY <1>7, <1>8, ErrandEffects, Geography DEF LaunchFails, Turns
<1>9. CASE Wait BY <1>7, <1>9, ErrandEffects, Geography DEF Wait, Turns
<1>10. CASE Install
  <2>1. proc["helper"].at = "install" BY <1>10 DEF Install
  <2>2. CASE /\ Moves("helper") /\ marker' \in {marker, "old"}
             /\ proc'["helper"] = [proc["helper"] EXCEPT !.at = "mark", !.aim = "installer_succeeded"]
    <3>1. proc["helper"] \in ProcType BY Geography DEF Sensible, Types
    <3>2. proc'["helper"].at = "mark" /\ proc'["helper"].away = proc["helper"].away /\ proc'["helper"].j = proc["helper"].j
      BY <2>2, <3>1 DEF ProcType
    <3> QED BY <1>7, <2>1, <2>2, <3>2, Geography
  <2>3. CASE Turns("helper", "rollback", proc["helper"].j) BY <1>7, <2>1, <2>3, Geography DEF Turns
  <2> QED BY <1>10, <2>2, <2>3, PairEffects
<1> QED BY <1>2, <1>3, <1>4, <1>5, <1>6, <1>8, <1>9, <1>10

LEMMA PairSafe ==
  ASSUME Sensible, Roles, Safe, CheckVersion \/ WorkerEnds \/ Launch
  PROVE  Safe'
<1> USE DEF At
<1>0. UNCHANGED <<root, snap, journal, latest, late, risky, aside>>
  BY DEF CheckVersion, WorkerEnds, Launch, disk, history
<1>1. \A q \in Procs : proc[q].at \in {"down", "done", "failed", "version", "await"} => proc[q].away = Empty
  <2>1. {"down", "done", "failed", "version", "await"} \cap Restoring = {} BY DEF Restoring
  <2> QED BY <2>1 DEF Sensible, Equipped
<1>2. CASE CheckVersion \/ WorkerEnds
  <2>1. /\ proc["server"].at \in {"version", "await"} /\ proc'["helper"] = proc["helper"]
        /\ proc'["server"].at \in {"serving", "await", "down"}
        /\ proc'["worker"] = proc["worker"] \/ (proc'["worker"].at \in {"prepare", "down"} /\ ~ Live("worker"))
    <3>1. CASE CheckVersion
      <4>1. CASE Becomes("server", "serving", "none")
        BY <3>1, <4>1, Geography DEF CheckVersion, Becomes, Moves
      <4>2. CASE /\ marker = "old" /\ ~ Live("worker")
                 /\ proc'["server"] = [proc["server"] EXCEPT !.at = "await"]
                 /\ proc'["worker"] = Fresh("prepare", "worker") /\ proc'["helper"] = proc["helper"]
        <5>1. proc["server"] \in ProcType BY Geography DEF Sensible, Types
        <5>2. proc'["server"].at = "await" /\ proc'["worker"].at = "prepare" BY <4>2, <5>1 DEF ProcType, Fresh
        <5> QED BY <3>1, <4>2, <5>2 DEF CheckVersion
      <4>3. CASE Turns("server", "await", proc["server"].j)
        BY <3>1, <4>3, Geography DEF CheckVersion, Turns, Moves
      <4> QED BY <3>1, <4>1, <4>2, <4>3, ErrandEffects
    <3>2. CASE WorkerEnds
      <4>1. /\ proc'["server"] = Fresh(IF At("worker", "done") THEN "serving" ELSE "down", "none")
            /\ proc'["worker"] = Fresh("down", "none") /\ proc'["helper"] = proc["helper"]
        BY <3>2, PairEffects
      <4>2. proc'["server"].at \in {"serving", "down"} /\ proc'["worker"].at = "down" BY <4>1 DEF Fresh
      <4> QED BY <3>2, <4>1, <4>2 DEF WorkerEnds
    <3> QED BY <1>2, <3>1, <3>2
  <2>2. CASE proc'["worker"] = proc["worker"]
    <3>1. \A q \in {"server"} : proc'[q].at \notin Drafting /\ proc'[q].at \notin Engaged /\ proc[q].away = Empty
      BY <1>1, <2>1, Geography
    <3>2. \A q \in Procs \ {"server"} : proc'[q] = proc[q] BY <2>1, <2>2, Geography
    <3>3. {"server"} \in SUBSET Procs BY Geography
    <3> QED BY <1>0, <3>1, <3>2, <3>3, SafeByIdle
  <2>3. CASE proc'["worker"].at \in {"prepare", "down"} /\ ~ Live("worker")
    <3>1. \A q \in {"server", "worker"} : proc'[q].at \notin Drafting /\ proc'[q].at \notin Engaged /\ proc[q].away = Empty
      BY <1>1, <2>1, <2>3, Geography DEF Live
    <3>2. \A q \in Procs \ {"server", "worker"} : proc'[q] = proc[q] BY <2>1, Geography
    <3>3. {"server", "worker"} \in SUBSET Procs BY Geography
    <3> QED BY <1>0, <3>1, <3>2, <3>3, SafeByIdle
  <2> QED BY <2>1, <2>2, <2>3
<1>3. CASE Launch
  <2>1. /\ proc'["server"] = Fresh("frozen", "install") /\ proc'["worker"] = proc["worker"]
        /\ proc'["helper"] = [at |-> "mark", why |-> "installer", j |-> proc["server"].j,
                              aim |-> "installer_running", left |-> {}, away |-> Empty]
        /\ proc["server"].at = "launch"
    BY <1>3, PairEffects DEF Launch
  <2>2. /\ proc'["server"].at = "frozen" /\ proc'["server"].away = Empty
        /\ proc'["helper"].at = "mark" /\ proc'["helper"].j = proc["server"].j /\ proc'["helper"].away = Empty
    BY <2>1 DEF Fresh
  <2>3. "launch" \in Applying /\ "launch" \in Engaged /\ "launch" \in Settling /\ "launch" \notin Restoring
        /\ "mark" \in Settling /\ "mark" \notin Drafting
    BY DEF Applying, Engaged, Settling, Restoring, Drafting
  <2>4. Holder("server") /\ Backed /\ proc["server"].away = Empty /\ "server" \in Procs
    BY <2>1, <2>3, HolderKnows, Geography
  <2>5. \A q \in Procs : proc[q].away = Empty
    <3>1. ~ Live("helper") BY <2>1 DEF Roles, HelperRole
    <3>3. proc["helper"].away = Empty BY <1>1, <3>1, Geography DEF Live
    <3>2. proc["worker"].away = Empty BY <2>4, Sole, Geography
    <3> QED BY <2>4, <3>2, <3>3, Geography
  <2>6. Phased("helper")'
    <3>1. OpenJournal' BY <1>0, <2>4 DEF Backed, OpenJournal
    <3>2. Whole("server") BY <2>1, <2>3, <2>4 DEF Safe, Phased
    <3>3. Whole("helper")' BY <1>0, <2>2, <3>2 DEF Whole, Snapshot
    <3> QED BY <3>1, <3>3 DEF Phased
  <2>7. \A q \in {"server", "worker"} : proc'[q].at \notin Drafting /\ proc'[q].at \notin Engaged
    <3>1. proc["worker"].at \notin Drafting /\ proc["worker"].at \notin Engaged BY <2>4, Sole, Geography
    <3> QED BY <2>1, <2>2, <3>1, Geography
  <2>8. \A q \in {"server", "worker"} : Phased(q)' /\ \A e \in Entries : Local(q, e)'
    BY <2>7, Outside, Geography
  <2>9. ASSUME NEW e \in Entries PROVE Known(e)' /\ Found(e)' /\ Local("helper", e)'
    <3>1. Known(e) /\ Found(e) /\ Settled("server", e) BY <2>4 DEF Safe, Local
    <3>2. (Backed' <=> Backed) /\ Saved(e)' = Saved(e) BY <1>0 DEF Backed, Saved, OpenJournal
    <3>3. Known(e)' BY <1>0, <3>1, <3>2 DEF Known, IsLate
    <3>4. \A q \in Procs : proc[q].away[e] = 0 BY <2>5 DEF Empty
    <3>5. Found(e)' BY <1>0, <3>1, <3>2, <3>4 DEF Found
    <3>6. Settled("helper", e)' BY <1>0, <2>1, <2>3, <3>1, <3>2 DEF Settled
    <3>7. Taken("helper", e)' /\ Cleared("helper", e)' BY <2>2 DEF Taken, Cleared
    <3> QED BY <3>3, <3>5, <3>6, <3>7 DEF Local
  <2> QED BY <2>6, <2>8, <2>9, Geography DEF Safe
<1> QED BY <1>2, <1>3

LEMMA WorldSafe ==
  ASSUME Sensible, Roles, Safe, Write \/ Crash
  PROVE  Safe'
<1> USE DEF At
<1>1. CASE Write
  <2>1. PICK f \in Entries :
          LET v == used.writes + 2
          IN  /\ root' = [root EXCEPT ![f] = v] /\ latest' = [latest EXCEPT ![f] = v]
              /\ late' = IF OpenJournal \/ \E p \in Procs : At(p, "open") THEN late \cup {<<f, v>>} ELSE late
              /\ risky' = IF \E p \in Procs : proc[p].at \in Restoring THEN risky \cup {<<f, v>>} ELSE risky
    BY <1>1 DEF Write
  <2>2. UNCHANGED <<aside, snap, journal, proc>> BY <1>1 DEF Write
  <2> DEFINE v == used.writes + 2
  <2>3. /\ root'[f] = v /\ latest'[f] = v /\ late \subseteq late' /\ risky \subseteq risky'
        /\ \A e \in Entries : e # f => root'[e] = root[e] /\ latest'[e] = latest[e]
    BY <2>1 DEF Sensible, Types, Data
  <2>4. OpenJournal \/ (\E p \in Procs : At(p, "open")) => <<f, v>> \in late' BY <2>1
  <2>5. (\E p \in Procs : proc[p].at \in Restoring) => <<f, v>> \in risky' BY <2>1
  <2> HIDE DEF v
  <2>6. (Backed' <=> Backed) /\ (\A e : Saved(e)' = Saved(e)) /\ \A p : Snapshot(p)' = Snapshot(p)
    BY <2>2 DEF Backed, Saved, OpenJournal, Snapshot
  <2>7. \A p \in Procs : Phased(p)' BY <2>2 DEF Safe, Phased, Whole, Snapshot, OpenJournal
  <2>8. ASSUME NEW e \in Entries, e # f PROVE Known(e)' /\ Found(e)' /\ \A p \in Procs : Local(p, e)'
    <3>1. Known(e) /\ Found(e) /\ \A p \in Procs : Local(p, e) BY DEF Safe
    <3>2. root'[e] = root[e] /\ latest'[e] = latest[e] BY <2>3, <2>8
    <3>3. Known(e)' BY <2>3, <2>6, <3>1, <3>2 DEF Known, IsLate
    <3>4. Found(e)' BY <2>2, <2>3, <2>6, <3>1, <3>2 DEF Found
    <3>5. ASSUME NEW p \in Procs PROVE Local(p, e)'
      <4>1. Local(p, e) BY <3>1
      <4>2. Taken(p, e)' BY <2>2, <2>3, <2>6, <3>2, <4>1 DEF Local, Taken, IsLate
      <4>3. Settled(p, e)' BY <2>2, <2>6, <3>2, <4>1 DEF Local, Settled
      <4>4. Cleared(p, e)' BY <2>2, <2>3, <2>6, <3>2, <4>1 DEF Local, Cleared
      <4> QED BY <4>2, <4>3, <4>4 DEF Local
    <3> QED BY <3>3, <3>4, <3>5
  <2>9. Known(f)' /\ Found(f)' /\ \A p \in Procs : Local(p, f)'
    <3>1. Known(f)' BY <2>3, <2>4, <2>6 DEF Known, IsLate, Backed
    <3>2. Found(f)' BY <2>3 DEF Found
    <3>3. ASSUME NEW p \in Procs PROVE Local(p, f)'
      <4>1. Taken(p, f)' BY <2>2, <2>3, <2>4 DEF Taken, IsLate
      <4>2. Settled(p, f)' BY <2>3 DEF Settled
      <4>3. Cleared(p, f)
        BY DEF Safe, Local
      <4>4. Cleared(p, f)' BY <2>2, <2>3, <2>5, <4>3, Regions DEF Cleared
      <4> QED BY <4>1, <4>2, <4>4 DEF Local
    <3> QED BY <3>1, <3>2, <3>3
  <2> QED BY <2>7, <2>8, <2>9 DEF Safe
<1>2. CASE Crash
  <2>1. PICK ps \in SUBSET Procs :
          /\ \A p \in ps : proc'[p].at \in {"down", "failed"}
          /\ \A p \in Procs \ ps : proc'[p] = proc[p]
          /\ aside' = aside \cup UNION {Quarantine(p) : p \in ps}
    BY <1>2, PairEffects
  <2>2. UNCHANGED <<root, snap, journal, latest, late, risky>> BY <1>2 DEF Crash, history
  <2>3. aside \subseteq aside' /\ \A p \in ps : Quarantine(p) \subseteq aside' BY <2>1
  <2>4. \A p \in ps : proc'[p].at \notin Drafting /\ proc'[p].at \notin Engaged BY <2>1, Geography
  <2> QED BY <2>1, <2>2, <2>3, <2>4, SafeByIdle
<1> QED BY <1>1, <1>2

LEMMA SafeSteps ==
  ASSUME Sensible, Roles, Safe, [Next]_vars, Roles'
  PROVE  Safe'
<1>0. /\ {"server", "worker"} \subseteq Procs /\ "helper" \in Procs
      /\ "server" \in {"server", "worker"} /\ "worker" \in {"server", "worker"}
  BY Geography
<1>1. CASE UNCHANGED vars
  <2>1. UNCHANGED <<root, snap, journal, latest, late, risky, aside, proc>> BY <1>1 DEF vars, disk, history
  <2>2. {} \in SUBSET Procs OBVIOUS
  <2> QED BY <2>1, <2>2, SafeByIdle
<1>2. ASSUME NEW p \in {"server", "worker"}, Prepare(p) \/ PreparationFails(p) PROVE Safe'
  BY <1>2, DraftSafe, MigrateSafe DEF Prepare, PreparationFails
<1>3. ASSUME NEW p \in Procs, Mark(p) \/ Restore(p) \/ Finalize(p) \/ Fails(p) PROVE Safe'
  BY <1>3, MarkSafe, RestoreSafe, CloseSafe DEF Fails
<1>4. CASE Server BY <1>0, <1>2, <1>3, <1>4, RecoverSafe, ErrandSafe, PairSafe DEF Server
<1>5. CASE Worker BY <1>0, <1>2, <1>3, <1>5, RecoverSafe, ErrandSafe DEF Worker
<1>6. CASE Helper BY <1>0, <1>3, <1>6, ErrandSafe DEF Helper
<1>7. CASE Failure BY <1>0, <1>2, <1>3, <1>7, ErrandSafe DEF Failure
<1>8. CASE RequestUpdate \/ Write \/ Crash BY <1>8, ErrandSafe, WorldSafe
<1> QED BY <1>1, <1>4, <1>5, <1>6, <1>7, <1>8 DEF Next

LEMMA InitSafe == Init => Safe
<1> SUFFICES ASSUME Init PROVE Safe OBVIOUS
<1>1. \A p \in Procs : proc[p].at = "down" BY FreshForms DEF Init, Fresh
<1>2. "down" \notin Applying \cup Undoing \cup Restoring \cup Settling \cup {"record", "open"}
  BY DEF Applying, Undoing, Restoring, Settling, Closing
<1>3. \A p \in Procs : Phased(p) BY <1>1, <1>2 DEF Phased
<1>4. ~ Backed BY DEF Init, Backed, OpenJournal
<1>5. \A e \in Entries : latest[e] = root[e] BY DEF Init
<1>6. \A e \in Entries : Known(e) /\ Found(e) BY <1>4, <1>5 DEF Known, Found
<1>7. \A p \in Procs, e \in Entries : Local(p, e)
  BY <1>1, <1>2, Regions DEF Local, Taken, Settled, Cleared, At
<1> QED BY <1>3, <1>6, <1>7 DEF Safe

LEMMA OnlyStartsOvertake == Next /\ overtaken' => Recover("server") \/ CheckVersion
<1> USE DEF disk, history
<1>1. \A p : Prepare(p) \/ PreparationFails(p) => overtaken' = overtaken
  BY DEF Prepare, PreparationFails, Refuse, BeginSnapshot, TakeSnapshot, Open, WriteJournal, MarkMigrating, Migrate,
         Validate, PrepareFails, MigrateHarms, MigrationFails
<1>2. \A p : Mark(p) \/ Finalize(p) => overtaken' = overtaken
  BY DEF Mark, ReadForMark, WriteMark, Finalize, RetainSnapshot, RemoveSnapshot, RemoveJournal
<1>3. \A p : Restore(p) => overtaken' = overtaken
  BY DEF Restore, ReadForRollback, Verify, Move, PutBack, Copy, Wipe, Return, Record, WriteJournal
<1>4. \A p : Fails(p) => overtaken' = overtaken
  BY DEF Fails, MoveFails, PutBackFails, CopyFails, ReturnFails, RecordFails, MarkFails, FinalizeFails
<1>5. Start \/ WorkerEnds \/ Launch \/ Exit \/ WriteMarker \/ Wait \/ Install => overtaken' = overtaken
  BY DEF Start, WorkerEnds, Launch, Exit, WriteMarker, Wait, Install
<1>6. LaunchFails \/ WriteMarkerFails \/ RequestUpdate \/ Write \/ Crash => overtaken' = overtaken
  BY DEF LaunchFails, WriteMarkerFails, RequestUpdate, Write, Crash
<1>7. Recover("worker") => ~ overtaken' BY DEF Recover, Overtakes
<1> QED BY <1>1, <1>2, <1>3, <1>4, <1>5, <1>6, <1>7 DEF Next, Server, Worker, Helper, Failure

(* A start that overtakes a live process leaves all data where it is; the  *)
(* model ends there, with no server serving.                               *)
Sound ==
    /\ Guarded
    /\ overtaken \/ Safe
    /\ \A e \in Entries : Found(e)
    /\ overtaken => ~ Serving

LEMMA SoundSteps == Sound /\ [Next]_vars => Sound'
<1> SUFFICES ASSUME Sound, [Next]_vars PROVE Sound' OBVIOUS
<1>1. Guarded' BY GuardedSteps DEF Sound
<1>2. CASE UNCHANGED vars
  <2>1. UNCHANGED <<root, snap, journal, latest, late, risky, aside, proc, overtaken>>
    BY <1>2 DEF vars, disk, history
  <2>2. \A e \in Entries : Found(e)' BY <2>1 DEF Sound, Found, Backed, Saved, OpenJournal
  <2>3. overtaken' => ~ Serving' BY <2>1 DEF Sound, Serving, At
  <2>4. ~ overtaken => Safe'
    <3>1. {} \in SUBSET Procs OBVIOUS
    <3> QED BY <2>1, <3>1, SafeByIdle DEF Sound, Guarded
  <2> QED BY <1>1, <2>1, <2>2, <2>3, <2>4 DEF Sound
<1>3. CASE Next
  <2>1. ~ overtaken /\ Sensible /\ Roles /\ Safe BY <1>3 DEF Sound, Guarded, Next
  <2>2. CASE Roles' /\ ~ overtaken'
    <3>1. Safe' BY <1>3, <2>1, <2>2, SafeSteps
    <3> QED BY <1>1, <2>2, <3>1 DEF Sound, Safe
  <2>3. CASE overtaken'
    <3>0. CASE CheckVersion
      <4>1. Safe' /\ marker = "old" BY <2>1, <2>3, <3>0, PairSafe DEF CheckVersion
      <4>2. proc'["server"].at = "await" BY <2>1, <3>0, <4>1, ErrandEffects, Geography DEF Turns, Sensible, Types, ProcType
      <4>3. ~ Serving' BY <4>2 DEF Serving, At
      <4> QED BY <1>1, <2>3, <4>1, <4>3 DEF Sound, Safe
    <3>1. SUFFICES ASSUME Recover("server") PROVE Sound'
      BY <1>3, <2>1, <2>3, <3>0, OnlyStartsOvertake
    <3>2. Resumes("server") \/ Ends("server")
          \/ Turns("server", "finalize", journal) \/ Turns("server", "rollback", journal)
      BY <2>1, <3>1, Geography, CloseEffects
    <3>3. proc["server"].why = "start" BY <2>1, <3>1 DEF Recover, At, Roles, ServerRole
    <3>4. proc'["server"].at \in {"version", "down", "finalize", "rollback"}
      BY <3>2, <3>3 DEF Resumes, Ends, Becomes, Turns
    <3>5. ~ Serving' BY <3>4 DEF Serving, At
    <3>6. UNCHANGED <<root, snap, journal, latest, risky, aside>> BY <3>1 DEF Recover, disk
    <3>7. \A q \in Procs : proc[q].away = proc'[q].away
      <4>1. "recover" \notin Restoring BY DEF Restoring
      <4>2. proc["server"].away = Empty
        BY <2>1, <3>1, <4>1, Geography DEF Sensible, Equipped, Recover, At
      <4>3. proc'["server"].away = Empty
        BY <3>2, <4>2 DEF Resumes, Ends, Becomes, Turns
      <4> QED BY <3>2, <4>2, <4>3, Geography DEF Resumes, Ends, Becomes, Turns, Moves
    <3>8. \A e \in Entries : Found(e)'
      BY <3>6, <3>7 DEF Sound, Found, Backed, Saved, OpenJournal
    <3> QED BY <1>1, <2>3, <3>5, <3>8 DEF Sound
  <2> QED BY <2>1, <2>2, <2>3, RolesSteps
<1> QED BY <1>2, <1>3

LEMMA Soundness == Spec => []Sound
<1>1. Init => Sound
  <2> SUFFICES ASSUME Init PROVE Sound OBVIOUS
  <2>1. Guarded BY InitSensible, InitRoles, RolesLone DEF Guarded
  <2>2. Safe BY InitSafe
  <2> QED BY <2>1, <2>2 DEF Sound, Safe, Init
<1>2. Sound /\ [Next]_vars => Sound' BY SoundSteps
<1> QED BY <1>1, <1>2, PTL DEF Spec

(* No version the user has written last is lost by an update: at every     *)
(* step of a preparation, a migration, a restore and its undoing, whoever  *)
(* dies and whatever file operation fails, it is in the data root, in a    *)
(* quarantine directory, or in the snapshot the open transaction restores. *)
THEOREM KeepsTheData == Spec => []NothingLost
<1>1. Sound => NothingLost
  BY DEF Sound, Found, NothingLost, Backed, Saved
<1> QED BY <1>1, Soundness, PTL

(* A server that serves with no transaction open shows what was written    *)
(* last, whatever its predecessors, helpers and workers left behind.       *)
THEOREM ShowsTheData == Spec => []ServesLatest
<1>1. Sound => ServesLatest
  BY DEF Sound, Safe, Known, IsLate, ServesLatest, Backed
<1> QED BY <1>1, Soundness, PTL

----------------------------------------------------------------------------
(* What a migration has added stays                                        *)

(* An entry is in the data root or will be again when the snapshot is.     *)
HasLocal(p, e) ==
    /\ At(p, "open") => Snapshot(p).of[e] # 0
    /\ proc[p].at \in Settling /\ Backed /\ Saved(e) # 0 => root[e] # 0
Has(e) == (IF Backed THEN Saved(e) # 0 ELSE root[e] # 0) /\ \A p \in Procs : HasLocal(p, e)

LEMMA OutsideHas ==
  ASSUME NEW q \in Procs, proc'[q].at \notin Drafting, proc'[q].at \notin Engaged, NEW e
  PROVE  HasLocal(q, e)'
BY Geography, Regions DEF HasLocal, At

LEMMA HasByHolder ==
  ASSUME Sensible, Roles, NEW p \in Procs, Moves(p), Holder(p) \/ (Roles' /\ Holder(p)'), NEW e \in Entries,
         IF Backed' THEN Saved(e)' # 0 ELSE root'[e] # 0, HasLocal(p, e)'
  PROVE  Has(e)'
<1>1. ASSUME NEW q \in Procs, q # p PROVE HasLocal(q, e)'
  <2>1. proc'[q] = proc[q] BY <1>1 DEF Moves
  <2>2. proc'[q].at \notin Drafting /\ proc'[q].at \notin Engaged
    <3>1. CASE Holder(p) BY <1>1, <2>1, <3>1, Sole
    <3>2. CASE Roles' /\ Holder(p)'
      <4>1. ~ Holder(q)' BY <1>1, <3>2 DEF Roles, OneHolder
      <4> QED BY <4>1 DEF Holder
    <3> QED BY <3>1, <3>2
  <2> QED BY <2>2, OutsideHas
<1> QED BY <1>1 DEF Has

(* The holder goes on with the same transaction.                           *)
LEMMA HasByHolding ==
  ASSUME Sensible, Roles, NEW p \in Procs, Moves(p), Holder(p) \/ (Roles' /\ Holder(p)'), UNCHANGED snap,
         journal' = journal \/ (OpenJournal /\ OpenJournal' /\ journal'.tx = journal.tx),
         NEW e \in Entries, Has(e), UNCHANGED root \/ Backed, proc'[p].at # "open",
         proc'[p].at \in Settling => \/ ~ Backed \/ root'[e] = Saved(e)
                                     \/ proc[p].at \in Settling /\ UNCHANGED root
  PROVE  Has(e)'
<1>1. (Backed' <=> Backed) /\ Saved(e)' = Saved(e) BY DEF Backed, Saved, OpenJournal
<1>2. IF Backed' THEN Saved(e)' # 0 ELSE root'[e] # 0 BY <1>1 DEF Has
<1>3. HasLocal(p, e)' BY <1>1 DEF Has, HasLocal, At
<1> QED BY <1>2, <1>3, HasByHolder

LEMMA HasByClosing ==
  ASSUME Sensible, Roles, NEW p \in Procs, Moves(p), proc[p].at \in Settling, ~ OpenJournal',
         NEW e \in Entries, Has(e), UNCHANGED root, proc'[p].at # "open"
  PROVE  Has(e)'
<1>1. Holder(p) BY Regions DEF Holder
<1>2. ~ Backed' BY DEF Backed
<1>3. root'[e] # 0 BY DEF Has, HasLocal
<1>4. HasLocal(p, e)' BY <1>2 DEF HasLocal, At
<1> QED BY <1>1, <1>2, <1>3, <1>4, HasByHolder

LEMMA HasByIdle ==
  ASSUME UNCHANGED <<root, snap, journal>>, NEW ps \in SUBSET Procs,
         \A q \in Procs \ ps : proc'[q] = proc[q],
         \A q \in ps : proc'[q].at \notin Drafting /\ proc'[q].at \notin Engaged,
         NEW e \in Entries, Has(e)
  PROVE  Has(e)'
<1>1. \A q \in ps : HasLocal(q, e)' BY OutsideHas
<1>2. \A q \in Procs \ ps : HasLocal(q, e)' BY DEF Has, HasLocal, At, Snapshot, Backed, Saved, OpenJournal
<1>3. IF Backed' THEN Saved(e)' # 0 ELSE root'[e] # 0 BY DEF Has, Backed, Saved, OpenJournal
<1> QED BY <1>1, <1>2, <1>3 DEF Has

LEMMA HasByLeaving ==
  ASSUME UNCHANGED <<root, snap, journal>>, NEW p \in Procs, Moves(p),
         proc'[p].at \in {"down", "done", "failed", "serving", "version", "marker", "prepare", "recover", "frozen", "await"},
         NEW e \in Entries, Has(e)
  PROVE  Has(e)'
<1>1. \A q \in Procs \ {p} : proc'[q] = proc[q] BY DEF Moves
<1>2. {p} \in SUBSET Procs OBVIOUS
<1>3. \A q \in {p} : proc'[q].at \notin Drafting /\ proc'[q].at \notin Engaged BY Geography
<1> QED BY <1>1, <1>2, <1>3, HasByIdle

LEMMA DraftHas ==
  ASSUME Sensible, Roles, Roles', Safe, NEW p \in {"server", "worker"},
         Refuse(p) \/ BeginSnapshot(p) \/ TakeSnapshot(p) \/ Open(p) \/ PrepareFails(p), NEW e \in Entries, Has(e)
  PROVE  Has(e)'
<1> USE DEF At
<1>0. p \in Procs /\ proc \in [Procs -> ProcType] /\ Equipped(proc[p]) /\ Held(p)
  BY Geography DEF Sensible, Types, Roles
<1>1. CASE Refuse(p)
  <2>1. Moves(p) /\ proc'[p].at \in {"serving", "failed", "down"} BY <1>0, <1>1, PrepareEffects DEF Ends, Becomes
  <2> QED BY <1>0, <1>1, <2>1, HasByLeaving DEF Refuse, disk
<1>2. ASSUME ~ OpenJournal, ~ OpenJournal', Moves(p), Holder(p) \/ Holder(p)', UNCHANGED root,
             proc'[p].at = "open" => Snapshot(p)'.of[e] = root[e]
      PROVE  Has(e)'
  <2>1. ~ Backed /\ ~ Backed' BY <1>2 DEF Backed
  <2>2. HasLocal(p, e)' BY <1>2, <2>1 DEF HasLocal, Has
  <2> QED BY <1>0, <1>2, <2>1, <2>2, HasByHolder DEF Has
<1>3. CASE BeginSnapshot(p)
  <2>1. PICK t \in Unnamed : Turns(p, "snapshot", Draft(p, t)) BY <1>0, <1>3, PrepareEffects
  <2>2. ~ OpenJournal /\ ~ OpenJournal' /\ UNCHANGED root BY <1>3 DEF BeginSnapshot, OpenJournal
  <2>3. Holder(p)' BY <2>1 DEF Turns, Holder, Drafting
  <2> QED BY <1>2, <2>1, <2>2, <2>3 DEF Turns
<1>4. CASE TakeSnapshot(p)
  <2>1. Turns(p, "open", proc[p].j) BY <1>0, <1>4, PrepareEffects
  <2>2. Holder(p) /\ journal = NoJournal /\ proc[p].j # NoJournal
    BY <1>0, <1>4 DEF TakeSnapshot, Holder, Drafting, Held, Equipped
  <2>3. ~ OpenJournal /\ ~ OpenJournal' /\ UNCHANGED root BY <1>4, <2>2 DEF TakeSnapshot, OpenJournal
  <2>4. proc[p].j.tx \in Tx
    <3>1. proc[p].j \in JournalType \ {NoJournal} BY <1>0, <2>2 DEF ProcType
    <3> QED BY <3>1, JournalForms
  <2>5. Snapshot(p)' = [state |-> "whole", of |-> root]
    BY <1>4, <2>1, <2>4 DEF TakeSnapshot, Snapshot, Turns, Sensible, Types
  <2> QED BY <1>2, <2>1, <2>2, <2>3, <2>5 DEF Turns
<1>5. CASE PrepareFails(p)
  <2>1. Ends(p) BY <1>0, <1>5, PrepareEffects
  <2>2. Holder(p) /\ journal = NoJournal BY <1>0, <1>5 DEF PrepareFails, Holder, Drafting, Held
  <2>3. ~ OpenJournal /\ ~ OpenJournal' /\ UNCHANGED root BY <1>5, <2>2 DEF PrepareFails, OpenJournal
  <2>4. proc'[p].at \in {"serving", "failed", "down"} /\ Moves(p) BY <2>1 DEF Ends, Becomes
  <2> QED BY <1>2, <2>2, <2>3, <2>4
<1>6. CASE Open(p)
  <2>1. Turns(p, "migrating", proc[p].j) /\ journal' = proc[p].j /\ UNCHANGED snap
    BY <1>0, <1>6, PrepareEffects DEF Open, WriteJournal
  <2>2. proc[p].at = "open" /\ Holder(p) BY <1>6 DEF Open, Holder, Drafting
  <2>3. Saved(e)' = Snapshot(p).of[e] BY <2>1 DEF Saved, Snapshot
  <2>4. Backed'
    <3>1. Whole(p) BY <1>0, <2>2 DEF Safe, Phased
    <3>2. proc[p].j # NoJournal /\ proc[p].j.phase = "snapshot_verified" BY <1>0, <2>2, Geography DEF Held, Equipped
    <3> QED BY <2>1, <3>1, <3>2 DEF Backed, OpenJournal, Whole, Snapshot, Finished
  <2>5. Saved(e)' # 0 BY <1>0, <2>2, <2>3 DEF Has, HasLocal
  <2>6. HasLocal(p, e)' BY <2>1 DEF Turns, HasLocal, Settling, Closing
  <2> QED BY <1>0, <2>1, <2>2, <2>4, <2>5, <2>6, HasByHolder DEF Turns
<1> QED BY <1>1, <1>3, <1>4, <1>5, <1>6

LEMMA MigrateHas ==
  ASSUME Sensible, Roles, Safe, NEW p \in {"server", "worker"},
         MarkMigrating(p) \/ Migrate(p) \/ Validate(p) \/ MigrateHarms(p) \/ MigrationFails(p), NEW e \in Entries, Has(e)
  PROVE  Has(e)'
<1> USE DEF At
<1>0. p \in Procs /\ proc[p].at \in {"migrating", "migrate", "validate"} /\ UNCHANGED snap
  BY Geography DEF MarkMigrating, Migrate, Validate, MigrateHarms, MigrationFails, WriteJournal, disk
<1>1. proc[p].at \in Applying /\ proc[p].at \in Engaged BY <1>0 DEF Applying, Engaged
<1>2. /\ Holder(p) /\ journal # NoJournal /\ journal.tx = proc[p].j.tx /\ Backed
      /\ proc[p].j \in JournalType \ {NoJournal} /\ Saved(e) = Snapshot(p).of[e]
  BY <1>0, <1>1, HolderKnows
<1>3. ASSUME NEW x \in {"migrating", "data_prepared"}
      PROVE  Phase(p, x) # NoJournal /\ Phase(p, x).tx = journal.tx /\ Phase(p, x).phase \notin Finished
  <2>1. x \in Phases /\ x \notin Finished BY DEF Phases, Finished
  <2> QED BY <1>2, <2>1, JournalForms DEF Phase
<1>4. {"migrate", "validate", "verify"} \cap Settling = {} BY DEF Settling, Closing
<1>5. ASSUME NEW b \in {"migrate", "validate", "verify"}, Moves(p), proc'[p].at = b,
             journal' = journal \/ journal' = Phase(p, "migrating")
      PROVE  Has(e)'
  <2>1. OpenJournal BY <1>2 DEF Backed
  <2>2. journal' = journal \/ (OpenJournal' /\ journal'.tx = journal.tx) BY <1>3, <1>5 DEF OpenJournal
  <2> QED BY <1>0, <1>2, <1>4, <1>5, <2>1, <2>2, HasByHolding
<1>6. CASE MarkMigrating(p)
  BY <1>0, <1>5, <1>6, PrepareEffects DEF MarkMigrating, WriteJournal, Turns
<1>7. CASE MigrationFails(p)
  BY <1>0, <1>5, <1>7, PrepareEffects DEF MigrationFails, disk, Turns
<1>8. CASE Validate(p)
  <2>1. CASE /\ Contains(snap[proc[p].j.tx].of, root) /\ Turns(p, "mark", Phase(p, "data_prepared"))
             /\ journal' = Phase(p, "data_prepared") /\ UNCHANGED <<root, aside, snap, marker, history, used>>
    <3>1. root'[e] = Saved(e) BY <1>2, <2>1 DEF Contains, Snapshot, Has
    <3>2. OpenJournal /\ OpenJournal' /\ journal'.tx = journal.tx BY <1>2, <1>3, <2>1 DEF Backed, OpenJournal
    <3> QED BY <1>0, <1>2, <2>1, <3>1, <3>2, HasByHolding DEF Turns
  <2>2. CASE Turns(p, "verify", proc[p].j) /\ UNCHANGED <<disk, history, used>>
    BY <1>5, <2>2 DEF disk, Turns
  <2> QED BY <1>0, <1>8, <2>1, <2>2, PrepareEffects
<1>9. CASE Migrate(p)
  <2>1. CASE UNCHANGED proc
    <3>1. Moves(p) /\ proc'[p].at = "migrate" BY <1>9, <2>1 DEF Sensible, Types, Moves, Migrate
    <3> QED BY <1>5, <1>9, <3>1 DEF Migrate
  <2>2. CASE Turns(p, "validate", proc[p].j)
    BY <1>5, <1>9, <2>2 DEF Migrate, Turns
  <2> QED BY <1>0, <1>9, <2>1, <2>2, PrepareEffects
<1>10. CASE MigrateHarms(p)
  BY <1>0, <1>5, <1>10, PrepareEffects DEF MigrateHarms, Turns
<1> QED BY <1>6, <1>7, <1>8, <1>9, <1>10

LEMMA MarkHas ==
  ASSUME Sensible, Roles, Safe, NEW p \in Procs, Mark(p) \/ MarkFails(p), NEW e \in Entries, Has(e)
  PROVE  Has(e)'
<1> USE DEF At
<1>0. proc[p].at \in {"mark", "marking"} /\ UNCHANGED <<root, snap>>
  BY DEF Mark, ReadForMark, WriteMark, MarkFails, disk
<1>1. proc[p].at \in Applying /\ proc[p].at \in Engaged /\ proc[p].at \in Settling
  BY <1>0 DEF Applying, Engaged, Settling
<1>2. /\ Holder(p) /\ journal # NoJournal /\ journal.tx = proc[p].j.tx /\ Backed
      /\ proc[p].j \in JournalType \ {NoJournal}
  BY <1>1, HolderKnows
<1>3. ASSUME Moves(p), proc'[p].at # "open",
             journal' = journal \/ (OpenJournal' /\ journal'.tx = journal.tx)
      PROVE  Has(e)'
  BY <1>0, <1>1, <1>2, <1>3, HasByHolding DEF Backed
<1>4. CASE ReadForMark(p)
  BY <1>2, <1>3, <1>4, MarkEffects DEF ReadForMark, disk, Turns
<1>5. CASE WriteMark(p)
  <2>1. Target(p) \in Phases /\ journal' = Phase(p, Target(p)) BY <1>5, MarkEffects DEF WriteMark
  <2>2. journal'.tx = proc[p].j.tx /\ journal' # NoJournal BY <1>2, <2>1, JournalForms DEF Phase
  <2>3. Moves(p) /\ proc'[p].at \in {"launch", "recover", "wait", "down", "serving", "failed"}
    BY <1>5, MarkEffects, Geography DEF Turns, Ends, Becomes
  <2>4. CASE OpenJournal' BY <1>2, <1>3, <2>2, <2>3, <2>4
  <2>5. CASE ~ OpenJournal' BY <1>0, <1>1, <2>3, <2>5, HasByClosing
  <2> QED BY <2>4, <2>5
<1>6. CASE MarkFails(p)
  BY <1>3, <1>6, MarkEffects DEF MarkFails, disk, GivesIn, Turns, Ends, Becomes
<1> QED BY <1>4, <1>5, <1>6 DEF Mark

LEMMA RestoreHas ==
  ASSUME Sensible, Roles, Safe, NEW p \in Procs,
         Restore(p) \/ MoveFails(p) \/ PutBackFails(p) \/ CopyFails(p) \/ ReturnFails(p) \/ RecordFails(p),
         NEW e \in Entries, Has(e)
  PROVE  Has(e)'
<1> USE DEF At
<1>0. proc[p].at \in Undoing /\ proc[p].at \in Engaged /\ UNCHANGED snap
  BY DEF Restore, ReadForRollback, Verify, Move, PutBack, Copy, Wipe, Return, Record, WriteJournal, Engaged,
         MoveFails, PutBackFails, CopyFails, ReturnFails, RecordFails, disk, Undoing, Restoring
<1>1. /\ Holder(p) /\ journal # NoJournal /\ journal.tx = proc[p].j.tx
      /\ Saved(e) = Snapshot(p).of[e]
      /\ proc[p].at \in Restoring \cup {"record"} => Backed
  BY <1>0, HolderKnows
<1>2. {"verify", "move", "putback", "copy", "wipe", "return", "down", "failed", "serving", "version", "marker"} \cap Settling = {}
  BY DEF Settling, Closing
(* The restore goes on or is given up.                                     *)
<1>3. ASSUME Moves(p), UNCHANGED journal, UNCHANGED root \/ Backed,
             proc'[p].at \in {"verify", "move", "putback", "copy", "wipe", "return", "down", "failed", "serving", "version", "marker"}
      PROVE  Has(e)'
  BY <1>0, <1>1, <1>2, <1>3, HasByHolding
<1>4. CASE ReadForRollback(p)
  BY <1>1, <1>3, <1>4, RestoreEffects DEF ReadForRollback, disk, Turns
<1>5. CASE Verify(p)
  BY <1>3, <1>5, RestoreEffects DEF Verify, disk, Carries, Ends, Becomes
<1>6. CASE Move(p)
  <2>1. Backed /\ UNCHANGED journal BY <1>1, <1>6, Regions DEF Move
  <2>2. Moves(p) /\ proc'[p].at \in {"move", "copy"} BY <1>6, RestoreEffects DEF Carries
  <2> QED BY <1>3, <2>1, <2>2
<1>7. CASE MoveFails(p) \/ CopyFails(p) \/ Wipe(p)
  <2>1. Backed /\ UNCHANGED journal BY <1>1, <1>7, Regions DEF MoveFails, CopyFails, Wipe, disk
  <2>2. Moves(p) /\ proc'[p].at \in {"putback", "wipe", "return"} BY <1>7, RestoreEffects DEF Turns
  <2> QED BY <1>3, <2>1, <2>2
<1>8. CASE PutBack(p) \/ PutBackFails(p) \/ Return(p) \/ ReturnFails(p)
  <2>1. Backed /\ UNCHANGED journal BY <1>1, <1>8, Regions DEF PutBack, PutBackFails, Return, ReturnFails
  <2>2. Moves(p) /\ proc'[p].at \in {"down", "failed", "serving"} BY <1>8, RestoreEffects DEF Ends, Becomes
  <2> QED BY <1>3, <2>1, <2>2
<1>9. CASE Copy(p)
  <2>1. Backed /\ UNCHANGED journal BY <1>1, <1>9, Regions DEF Copy
  <2>2. \/ Moves(p) /\ proc'[p].at = "copy"
        \/ Moves(p) /\ proc'[p].at = "record" /\ root = Snapshot(p).of /\ UNCHANGED root
    BY <1>9, RestoreEffects DEF Carries
  <2>3. CASE Moves(p) /\ proc'[p].at = "record" /\ root = Snapshot(p).of /\ UNCHANGED root
    BY <1>0, <1>1, <2>1, <2>3, HasByHolding
  <2> QED BY <1>3, <2>1, <2>2, <2>3
<1>10. CASE Record(p) \/ RecordFails(p)
  <2>1. Turns(p, "finalize", Phase(p, "rolled_back")) /\ proc[p].at = "record" /\ UNCHANGED root
        /\ proc[p].j \in JournalType \ {NoJournal}
    BY <1>10, RestoreEffects DEF Record, RecordFails, WriteJournal, disk
  <2>2. "record" \in Settling BY DEF Settling
  <2>3. CASE Record(p)
    <3>1. "rolled_back" \in Phases /\ "rolled_back" \in Finished BY DEF Phases, Finished
    <3>2. Phase(p, "rolled_back").phase = "rolled_back" BY <2>1, <3>1, JournalForms DEF Phase
    <3>3. ~ OpenJournal' BY <2>3, <3>1, <3>2 DEF Record, WriteJournal, OpenJournal
    <3> QED BY <2>1, <2>2, <3>3, HasByClosing DEF Turns
  <2>4. CASE RecordFails(p)
    BY <1>0, <1>1, <2>1, <2>2, <2>4, HasByHolding DEF RecordFails, disk, Turns
  <2> QED BY <1>10, <2>3, <2>4
<1> QED BY <1>4, <1>5, <1>6, <1>7, <1>8, <1>9, <1>10 DEF Restore

LEMMA CloseHas ==
  ASSUME Sensible, Roles, Safe, NEW p \in Procs, Finalize(p) \/ FinalizeFails(p), NEW e \in Entries, Has(e)
  PROVE  Has(e)'
<1> USE DEF At
<1>0. proc[p].at \in Closing /\ UNCHANGED root
  BY DEF Finalize, RetainSnapshot, RemoveSnapshot, RemoveJournal, FinalizeFails, Closing, disk
<1>1. proc[p].at \in Engaged /\ proc[p].at \in Settling BY <1>0, Regions, Geography
<1>2. Holder(p) /\ journal.tx = proc[p].j.tx /\ journal.tx \in Tx /\ proc[p].j.phase \in Finished
  BY <1>0, <1>1, HolderKnows DEF Roles, Held
<1>3. CASE RetainSnapshot(p)
  BY <1>0, <1>1, <1>2, <1>3, CloseEffects, HasByHolding DEF RetainSnapshot, disk, Turns
<1>4. CASE RemoveSnapshot(p)
  <2>1. Moves(p) /\ proc'[p].at # "open" /\ UNCHANGED journal BY <1>4, CloseEffects DEF RemoveSnapshot, Turns
  <2>2. CASE UNCHANGED snap BY <1>0, <1>1, <1>2, <2>1, <2>2, HasByHolding
  <2>3. CASE snap'[journal.tx].state \in {"gone", "partial"}
    <3>1. ~ Backed' BY <2>1, <2>3 DEF Backed
    <3>2. root'[e] # 0 BY <1>0, <1>1 DEF Has, HasLocal
    <3>3. HasLocal(p, e)' BY <2>1, <3>1 DEF HasLocal
    <3> QED BY <1>2, <2>1, <3>1, <3>2, <3>3, HasByHolder
  <2>4. UNCHANGED snap \/ snap'[journal.tx].state \in {"gone", "partial"}
    <3>1. snap' = [snap EXCEPT ![journal.tx] = NoSnapshot] \/ snap' = [snap EXCEPT ![journal.tx] = Partial]
          \/ snap' = [snap EXCEPT ![journal.tx] = snap[journal.tx]]
      BY <1>2, <1>4 DEF RemoveSnapshot
    <3>2. NoSnapshot.state = "gone" /\ Partial.state = "partial" BY DEF NoSnapshot, Partial
    <3> QED BY <1>2, <3>1, <3>2 DEF Sensible, Types
  <2> QED BY <2>2, <2>3, <2>4
<1>5. CASE RemoveJournal(p) \/ FinalizeFails(p)
  <2>1. Moves(p) /\ proc'[p].at # "open" /\ UNCHANGED snap
    BY <1>5, CloseEffects DEF RemoveJournal, FinalizeFails, Resumes, Ends, Becomes
  <2>2. CASE journal' = journal BY <1>0, <1>1, <1>2, <2>1, <2>2, HasByHolding
  <2>3. CASE journal' \in {NoJournal, proc[p].j}
    <3>1. ~ OpenJournal' BY <1>2, <2>3 DEF OpenJournal
    <3> QED BY <1>0, <1>1, <2>1, <3>1, HasByClosing
  <2> QED BY <1>5, <2>2, <2>3 DEF RemoveJournal, FinalizeFails
<1> QED BY <1>3, <1>4, <1>5 DEF Finalize

LEMMA RecoverHas ==
  ASSUME Sensible, Roles, Roles', Safe, NEW p \in {"server", "worker"}, Recover(p), NEW e \in Entries, Has(e)
  PROVE  Has(e)'
<1> USE DEF At
<1>0. p \in Procs /\ UNCHANGED <<root, snap, journal>> BY Geography DEF Recover, disk
<1>1. CASE Ends(p) \/ Resumes(p)
  <2>1. Moves(p) /\ proc'[p].at \in {"down", "failed", "serving", "version", "marker"}
    BY <1>1 DEF Resumes, Ends, Becomes
  <2> QED BY <1>0, <2>1, HasByLeaving
<1>2. CASE \/ journal.phase \in Finished /\ journal # NoJournal /\ Turns(p, "finalize", journal)
           \/ journal # NoJournal /\ journal.phase \notin Finished /\ ~ InstallerAlive /\ Turns(p, "rollback", journal)
  <2>1. Moves(p) /\ ((proc'[p].at = "finalize" /\ ~ Backed) \/ proc'[p].at = "rollback")
    BY <1>2 DEF Turns, OpenJournal, Backed
  <2>2. Holder(p)' BY <2>1 DEF Holder, Engaged, Undoing, Closing
  <2>3. "rollback" \notin Settling BY DEF Settling, Closing
  <2> QED BY <1>0, <2>1, <2>2, <2>3, HasByHolding
<1> QED BY <1>0, <1>1, <1>2, CloseEffects

LEMMA ErrandHas ==
  ASSUME Sensible, Roles, Safe,
         Start \/ RequestUpdate \/ Exit \/ LaunchFails \/ WriteMarker \/ WriteMarkerFails \/ Wait \/ Install,
         NEW e \in Entries, Has(e)
  PROVE  Has(e)'
<1> USE DEF At
<1>0. UNCHANGED <<root, snap, journal>>
  BY DEF Start, RequestUpdate, Exit, LaunchFails, WriteMarker, WriteMarkerFails, Wait, Install, disk
<1>1. CASE Start \/ RequestUpdate \/ Exit \/ WriteMarker \/ WriteMarkerFails
  <2>1. PICK p \in Procs : Moves(p) /\ proc'[p].at \in {"recover", "prepare", "down", "done", "failed"}
    BY <1>1, ErrandEffects, Geography DEF Becomes, Turns, Ends
  <2> QED BY <1>0, <2>1, HasByLeaving
<1>2. CASE LaunchFails \/ Wait \/ Install
  <2>1. PICK p \in Procs : /\ proc[p].at \in {"launch", "wait", "install"}
                           /\ Moves(p) /\ proc'[p].at \in {"rollback", "install", "mark"}
    <3>1. ASSUME Moves("helper"), proc'["helper"] = [proc["helper"] EXCEPT !.at = "mark", !.aim = "installer_succeeded"]
          PROVE  proc'["helper"].at = "mark"
      <4>1. proc["helper"] \in ProcType BY Geography DEF Sensible, Types
      <4> QED BY <3>1, <4>1 DEF ProcType
    <3> QED BY <1>2, <3>1, ErrandEffects, PairEffects, Geography DEF LaunchFails, Wait, Install, Turns
  <2>2. proc[p].at \in Settling /\ Holder(p) BY <2>1, Regions DEF Settling, Holder
  <2> QED BY <1>0, <2>1, <2>2, HasByHolding
<1> QED BY <1>1, <1>2

LEMMA PairHas ==
  ASSUME Sensible, Roles, Safe, CheckVersion \/ WorkerEnds \/ Launch, NEW e \in Entries, Has(e)
  PROVE  Has(e)'
<1> USE DEF At
<1>0. UNCHANGED <<root, snap, journal>> BY DEF CheckVersion, WorkerEnds, Launch, disk
<1>1. CASE CheckVersion \/ WorkerEnds
  <2>1. /\ proc'["helper"] = proc["helper"]
        /\ proc'["server"].at \in {"serving", "await", "down"}
        /\ proc'["worker"] = proc["worker"] \/ proc'["worker"].at \in {"prepare", "down"}
    <3>1. CASE CheckVersion
      <4>1. CASE Becomes("server", "serving", "none") BY <3>1, <4>1, Geography DEF Becomes, Moves
      <4>2. CASE /\ proc'["server"] = [proc["server"] EXCEPT !.at = "await"]
                 /\ proc'["worker"] = Fresh("prepare", "worker") /\ proc'["helper"] = proc["helper"]
        <5>1. proc["server"] \in ProcType BY Geography DEF Sensible, Types
        <5> QED BY <4>2, <5>1 DEF ProcType, Fresh
      <4>3. CASE Turns("server", "await", proc["server"].j) BY <4>3, Geography DEF Turns, Moves
      <4> QED BY <3>1, <4>1, <4>2, <4>3, ErrandEffects
    <3>2. CASE WorkerEnds BY <3>2, PairEffects DEF Fresh
    <3> QED BY <1>1, <3>1, <3>2
  <2>2. CASE proc'["worker"] = proc["worker"]
    <3>1. \A q \in {"server"} : proc'[q].at \notin Drafting /\ proc'[q].at \notin Engaged BY <2>1, Geography
    <3>2. \A q \in Procs \ {"server"} : proc'[q] = proc[q] BY <2>1, <2>2, Geography
    <3>3. {"server"} \in SUBSET Procs BY Geography
    <3> QED BY <1>0, <3>1, <3>2, <3>3, HasByIdle
  <2>3. CASE proc'["worker"].at \in {"prepare", "down"}
    <3>1. \A q \in {"server", "worker"} : proc'[q].at \notin Drafting /\ proc'[q].at \notin Engaged
      BY <2>1, <2>3, Geography
    <3>2. \A q \in Procs \ {"server", "worker"} : proc'[q] = proc[q] BY <2>1, Geography
    <3>3. {"server", "worker"} \in SUBSET Procs BY Geography
    <3> QED BY <1>0, <3>1, <3>2, <3>3, HasByIdle
  <2> QED BY <2>1, <2>2, <2>3
<1>2. CASE Launch
  <2>1. /\ proc'["server"].at = "frozen" /\ proc'["worker"] = proc["worker"] /\ proc'["helper"].at = "mark"
        /\ proc["server"].at = "launch"
    <3>1. /\ proc'["server"] = Fresh("frozen", "install") /\ proc'["worker"] = proc["worker"]
          /\ proc'["helper"] = [at |-> "mark", why |-> "installer", j |-> proc["server"].j,
                                aim |-> "installer_running", left |-> {}, away |-> Empty]
      BY <1>2, PairEffects
    <3>2. proc["server"].at = "launch" BY <1>2 DEF Launch
    <3> QED BY <3>1, <3>2 DEF Fresh
  <2>2. "launch" \in Settling /\ Holder("server") BY <2>1, Regions DEF Settling, Holder
  <2>3. (Backed' <=> Backed) /\ Saved(e)' = Saved(e) BY <1>0 DEF Backed, Saved, OpenJournal
  <2>4. HasLocal("server", e)' BY <2>1, Geography, OutsideHas
  <2>5. HasLocal("helper", e)' BY <1>0, <2>1, <2>2, <2>3, Geography DEF Has, HasLocal
  <2>6. HasLocal("worker", e)'
    <3>1. proc["worker"].at \notin Drafting /\ proc["worker"].at \notin Engaged BY <2>2, Sole, Geography
    <3> QED BY <2>1, <3>1, OutsideHas, Geography
  <2> QED BY <1>0, <2>3, <2>4, <2>5, <2>6, Geography DEF Has
<1> QED BY <1>1, <1>2

LEMMA WorldHas ==
  ASSUME Sensible, Roles, Safe, Write \/ Crash, NEW e \in Entries, Has(e)
  PROVE  Has(e)'
<1> USE DEF At
<1>1. CASE Write
  <2>1. PICK f \in Entries : root' = [root EXCEPT ![f] = used.writes + 2] BY <1>1 DEF Write
  <2>2. root'[e] = root[e] \/ root'[e] # 0 BY <2>1 DEF Sensible, Types, Data
  <2>3. UNCHANGED <<snap, journal, proc>> BY <1>1 DEF Write
  <2>4. (Backed' <=> Backed) /\ Saved(e)' = Saved(e) /\ \A p : Snapshot(p)' = Snapshot(p)
    BY <2>3 DEF Backed, Saved, OpenJournal, Snapshot
  <2> QED BY <2>2, <2>3, <2>4 DEF Has, HasLocal
<1>2. CASE Crash
  <2>1. PICK ps \in SUBSET Procs :
          /\ \A p \in ps : proc'[p].at \in {"down", "failed"}
          /\ \A p \in Procs \ ps : proc'[p] = proc[p]
    BY <1>2, PairEffects
  <2>2. \A p \in ps : proc'[p].at \notin Drafting /\ proc'[p].at \notin Engaged BY <2>1, Geography
  <2> QED BY <1>2, <2>1, <2>2, HasByIdle DEF Crash
<1> QED BY <1>1, <1>2

LEMMA HasSteps ==
  ASSUME Sensible, Roles, Safe, [Next]_vars, Roles', NEW e \in Entries, Has(e)
  PROVE  Has(e)'
<1>0. /\ {"server", "worker"} \subseteq Procs /\ "helper" \in Procs
      /\ "server" \in {"server", "worker"} /\ "worker" \in {"server", "worker"}
  BY Geography
<1>1. CASE UNCHANGED vars
  <2>1. UNCHANGED <<root, snap, journal, proc>> BY <1>1 DEF vars, disk
  <2>2. {} \in SUBSET Procs OBVIOUS
  <2> QED BY <2>1, <2>2, HasByIdle
<1>2. ASSUME NEW p \in {"server", "worker"}, Prepare(p) \/ PreparationFails(p) PROVE Has(e)'
  BY <1>2, DraftHas, MigrateHas DEF Prepare, PreparationFails
<1>3. ASSUME NEW p \in Procs, Mark(p) \/ Restore(p) \/ Finalize(p) \/ Fails(p) PROVE Has(e)'
  BY <1>3, MarkHas, RestoreHas, CloseHas DEF Fails
<1>4. CASE Server BY <1>0, <1>2, <1>3, <1>4, RecoverHas, ErrandHas, PairHas DEF Server
<1>5. CASE Worker BY <1>0, <1>2, <1>3, <1>5, RecoverHas, ErrandHas DEF Worker
<1>6. CASE Helper BY <1>0, <1>3, <1>6, ErrandHas DEF Helper
<1>7. CASE Failure BY <1>0, <1>2, <1>3, <1>7, ErrandHas DEF Failure
<1>8. CASE RequestUpdate \/ Write \/ Crash BY <1>8, ErrandHas, WorldHas
<1> QED BY <1>1, <1>4, <1>5, <1>6, <1>7, <1>8 DEF Next

(* Versions are given out in ascending order.                              *)
Numbered ==
    \A e \in Entries : /\ root[e] <= used.writes + 1
                       /\ \A t \in Tx : snap[t].of[e] <= used.writes + 1
                       /\ \A p \in Procs : proc[p].away[e] <= used.writes + 1

LEMMA WritesGrow ==
  ASSUME Sensible, [Next]_vars
  PROVE  used'.writes = used.writes \/ (Write /\ used'.writes = used.writes + 1)
<1>0. used \in [updates : Nat, writes : 0 .. MaxWrites, errors : Nat, crashes : Nat] BY DEF Sensible, Types
<1>1. Error => used'.writes = used.writes BY <1>0 DEF Error
<1>2. \A p : Prepare(p) \/ Mark(p) \/ Restore(p) \/ Finalize(p) => UNCHANGED used
  BY DEF Prepare, Refuse, BeginSnapshot, TakeSnapshot, Open, WriteJournal, MarkMigrating, Migrate, Validate,
         Mark, ReadForMark, WriteMark, Restore, ReadForRollback, Verify, Move, PutBack, Copy, Wipe, Return, Record,
         Finalize, RetainSnapshot, RemoveSnapshot, RemoveJournal
<1>3. \A p : Fails(p) \/ PreparationFails(p) => Error \/ UNCHANGED used
  BY DEF Fails, MoveFails, PutBackFails, CopyFails, ReturnFails, RecordFails, MarkFails, FinalizeFails,
         PreparationFails, PrepareFails, MigrateHarms, MigrationFails
<1>4. Start \/ CheckVersion \/ WorkerEnds \/ Launch \/ Exit \/ WriteMarker \/ Wait \/ Install => UNCHANGED used
  BY DEF Start, CheckVersion, WorkerEnds, Launch, Exit, WriteMarker, Wait, Install
<1>5. \A p : Recover(p) => UNCHANGED used BY DEF Recover
<1>6. LaunchFails \/ WriteMarkerFails => Error BY DEF LaunchFails, WriteMarkerFails
<1>7. RequestUpdate \/ Crash => used'.writes = used.writes BY <1>0 DEF RequestUpdate, Crash
<1>8. Write => used'.writes = used.writes + 1 BY <1>0 DEF Write
<1> QED BY <1>1, <1>2, <1>3, <1>4, <1>5, <1>6, <1>7, <1>8 DEF Next, Server, Worker, Helper, Failure, vars

LEMMA NumberedForm ==
  ASSUME Sensible, Numbered, NEW e \in Entries
  PROVE  /\ used.writes \in Nat /\ root[e] \in Nat /\ root[e] <= used.writes + 1
         /\ \A t \in Tx : snap[t].of[e] \in Nat /\ snap[t].of[e] <= used.writes + 1
         /\ \A p \in Procs : proc[p].away[e] \in Nat /\ proc[p].away[e] <= used.writes + 1
<1>1. Versions \subseteq Nat BY DEF Versions
<1>2. used.writes \in Nat BY DEF Sensible, Types
<1>3. root[e] \in Nat BY <1>1 DEF Sensible, Types, Data
<1>4. ASSUME NEW t \in Tx PROVE snap[t].of[e] \in Nat
  <2>1. snap[t] \in [state : {"gone", "partial", "whole"}, of : Data] BY DEF Sensible, Types
  <2>2. snap[t].of \in Data BY <2>1
  <2> QED BY <1>1, <2>2 DEF Data
<1>5. ASSUME NEW p \in Procs PROVE proc[p].away[e] \in Nat
  <2>1. proc[p] \in ProcType BY DEF Sensible, Types
  <2>2. proc[p].away \in Data BY <2>1 DEF ProcType
  <2> QED BY <1>1, <2>2 DEF Data
<1> QED BY <1>2, <1>3, <1>4, <1>5 DEF Numbered

(* Whence what a step puts somewhere comes: nothing but a write is new.    *)
LEMMA NumberedFrame ==
  ASSUME Sensible, Numbered, used'.writes = used.writes,
         \A e \in Entries :
            /\ \/ root'[e] \in {0, 1, root[e]}
               \/ \E t \in Tx : root'[e] = snap[t].of[e]
               \/ \E p \in Procs : root'[e] = proc[p].away[e]
            /\ \A t \in Tx : snap'[t].of[e] \in {0, root[e], snap[t].of[e]}
            /\ \A p \in Procs : proc'[p].away[e] \in {0, root[e], proc[p].away[e]}
  PROVE  Numbered'
BY NumberedForm DEF Numbered

Keeps(p) == Moves(p) /\ (proc'[p].away = proc[p].away \/ proc'[p].away = Empty)

LEMMA NumberedByKeeping ==
  ASSUME Sensible, Numbered, used'.writes = used.writes, NEW p \in Procs, Keeps(p),
         \A e \in Entries :
            /\ root'[e] \in {0, 1, root[e], proc[p].away[e]} \/ \E t \in Tx : root'[e] = snap[t].of[e]
            /\ \A t \in Tx : snap'[t].of[e] \in {0, root[e], snap[t].of[e]}
  PROVE  Numbered'
<1>1. \A e \in Entries, q \in Procs : proc'[q].away[e] \in {0, root[e], proc[q].away[e]}
  BY DEF Keeps, Moves, Empty
<1> QED BY <1>1, NumberedFrame

LEMMA SnapForms ==
  ASSUME Sensible, NEW t, NEW s, s \in {NoSnapshot, Partial, [state |-> "whole", of |-> root]},
         snap' = [snap EXCEPT ![t] = s]
  PROVE  \A u \in Tx, e \in Entries : snap'[u].of[e] \in {0, root[e], snap[u].of[e]}
<1>1. s.of \in {Empty, root} BY DEF NoSnapshot, Partial
<1>2. \A u \in Tx : snap'[u] = snap[u] \/ snap'[u] = s BY DEF Sensible, Types
<1> QED BY <1>1, <1>2 DEF Empty

LEMMA OwnNumbered ==
  ASSUME Sensible, Numbered, used'.writes = used.writes, NEW p \in Procs,
         \/ Prepare(p) \/ PreparationFails(p) \/ Mark(p) \/ Restore(p) \/ Finalize(p) \/ Fails(p) \/ Recover(p)
  PROVE  Numbered'
<1>a. ASSUME Keeps(p), UNCHANGED <<root, snap>> PROVE Numbered' BY <1>a, NumberedByKeeping
<1>b. ASSUME Keeps(p), UNCHANGED root, NEW t, NEW s \in {NoSnapshot, Partial, [state |-> "whole", of |-> root]},
             snap' = [snap EXCEPT ![t] = s]
      PROVE  Numbered'
  <2>1. \A u \in Tx, e \in Entries : snap'[u].of[e] \in {0, root[e], snap[u].of[e]} BY <1>b, SnapForms
  <2> QED BY <1>b, <2>1, NumberedByKeeping
<1>c. ASSUME Keeps(p), UNCHANGED snap,
             \A e \in Entries : root'[e] \in {0, 1, root[e], proc[p].away[e]} \/ \E t \in Tx : root'[e] = snap[t].of[e]
      PROVE  Numbered'
  BY <1>c, NumberedByKeeping
<1>d. \A b, j : Turns(p, b, j) => Keeps(p) BY DEF Turns, Keeps
<1>e. Ends(p) \/ Resumes(p) => Keeps(p) BY DEF Ends, Resumes, Becomes, Keeps
<1>1. CASE Refuse(p) BY <1>1, <1>a, <1>e, PrepareEffects DEF Refuse, disk
<1>2. CASE BeginSnapshot(p)
  <2>1. PICK t \in Unnamed : snap' = [snap EXCEPT ![t] = Partial] /\ Turns(p, "snapshot", Draft(p, t)) BY <1>2, PrepareEffects
  <2> QED BY <1>2, <1>b, <1>d, <2>1 DEF BeginSnapshot
<1>3. CASE TakeSnapshot(p) BY <1>3, <1>b, <1>d, PrepareEffects DEF TakeSnapshot
<1>4. CASE PrepareFails(p) BY <1>4, <1>b, <1>e, PrepareEffects DEF PrepareFails
<1>5. CASE Open(p) \/ MarkMigrating(p)
  BY <1>5, <1>a, <1>d, PrepareEffects DEF Open, MarkMigrating, WriteJournal
<1>6. CASE Migrate(p)
  <2>1. \A e \in Entries : root'[e] \in {1, root[e]} BY <1>6 DEF Migrate, Sensible, Types, Data
  <2>2. Keeps(p)
    <3>1. UNCHANGED proc => Keeps(p) BY DEF Keeps, Moves, Sensible, Types
    <3> QED BY <1>6, <1>d, <3>1, PrepareEffects
  <2> QED BY <1>6, <1>c, <2>1, <2>2 DEF Migrate
<1>7. CASE Validate(p) BY <1>7, <1>a, <1>d, PrepareEffects DEF disk
<1>8. CASE MigrateHarms(p)
  <2>1. \A e \in Entries : root'[e] \in {0, root[e]} BY <1>8 DEF MigrateHarms, Sensible, Types, Data
  <2> QED BY <1>8, <1>c, <1>d, <2>1, PrepareEffects DEF MigrateHarms
<1>9. CASE MigrationFails(p) BY <1>9, <1>a, <1>d, PrepareEffects DEF MigrationFails, disk
<1>10. CASE Mark(p) \/ MarkFails(p)
  <2>1. UNCHANGED <<root, snap>> BY <1>10 DEF Mark, ReadForMark, WriteMark, MarkFails, disk
  <2> QED BY <1>10, <1>a, <1>d, <1>e, <2>1, MarkEffects, Geography DEF Mark, GivesIn
<1>11. CASE ReadForRollback(p) \/ Record(p) \/ RecordFails(p) \/ MoveFails(p) \/ CopyFails(p)
  <2>1. UNCHANGED <<root, snap>>
    BY <1>11 DEF ReadForRollback, Record, RecordFails, MoveFails, CopyFails, WriteJournal, disk
  <2> QED BY <1>11, <1>a, <1>d, <1>e, <2>1, RestoreEffects
<1>12. CASE Verify(p)
  <2>1. Keeps(p) BY <1>12, <1>e, RestoreEffects DEF Carries, Keeps
  <2> QED BY <1>12, <1>a, <2>1 DEF Verify, disk
<1>13. CASE Move(p)
  <2>1. CASE \E e \in proc[p].left :
               /\ root[e] # 0 /\ root' = [root EXCEPT ![e] = 0]
               /\ Carries(p, "move", proc[p].left \ {e}, [proc[p].away EXCEPT ![e] = root[e]])
    <3>1. PICK f \in proc[p].left :
            /\ root' = [root EXCEPT ![f] = 0]
            /\ Carries(p, "move", proc[p].left \ {f}, [proc[p].away EXCEPT ![f] = root[f]])
      BY <2>1
    <3>2. proc[p].away \in Data
      <4>1. proc[p] \in ProcType BY DEF Sensible, Types
      <4> QED BY <4>1 DEF ProcType
    <3>3. \A e \in Entries : root'[e] \in {0, root[e]} BY <3>1 DEF Sensible, Types, Data
    <3>4. \A e \in Entries : proc'[p].away[e] \in {root[e], proc[p].away[e]} BY <3>1, <3>2 DEF Carries, Data
    <3>5. \A q \in Procs : q # p => proc'[q].away = proc[q].away BY <3>1 DEF Carries, Moves
    <3>6. UNCHANGED snap BY <1>13 DEF Move
    <3> QED BY <3>3, <3>4, <3>5, <3>6, NumberedFrame
  <2>2. CASE UNCHANGED root /\ Carries(p, "copy", {e \in Entries : Snapshot(p).of[e] # 0}, proc[p].away)
    BY <1>13, <1>a, <2>2 DEF Carries, Keeps, Move
  <2> QED BY <1>13, <2>1, <2>2, RestoreEffects
<1>14. CASE PutBack(p) \/ PutBackFails(p)
  <2>1. \A e \in Entries : root'[e] \in {root[e], proc[p].away[e]} BY <1>14 DEF PutBack, PutBackFails, Back
  <2>2. UNCHANGED snap BY <1>14 DEF PutBack, PutBackFails
  <2> QED BY <1>14, <1>c, <1>e, <2>1, <2>2, RestoreEffects
<1>15. CASE Copy(p)
  <2>1. UNCHANGED snap BY <1>15 DEF Copy
  <2>2. CASE \E e \in proc[p].left :
               /\ root' = [root EXCEPT ![e] = Snapshot(p).of[e]] /\ Carries(p, "copy", proc[p].left \ {e}, proc[p].away)
    <3>1. proc[p].at = "copy" /\ "copy" \in Engaged BY <1>15 DEF Copy, At, Engaged, Undoing, Restoring
    <3>2. proc[p].j.tx \in Tx
      <4>1. proc[p] \in ProcType /\ Equipped(proc[p]) BY DEF Sensible, Types
      <4>2. proc[p].j \in JournalType \ {NoJournal} BY <3>1, <4>1 DEF ProcType, Equipped
      <4> QED BY <4>2, JournalForms
    <3>3. \A e \in Entries : root'[e] = root[e] \/ root'[e] = snap[proc[p].j.tx].of[e]
      BY <2>2 DEF Sensible, Types, Data, Snapshot
    <3>4. Keeps(p) BY <2>2 DEF Carries, Keeps
    <3> QED BY <1>c, <2>1, <3>2, <3>3, <3>4
  <2>3. CASE UNCHANGED root /\ Carries(p, "record", proc[p].left, Empty)
    BY <1>a, <2>1, <2>3 DEF Carries, Keeps
  <2> QED BY <1>15, <2>2, <2>3, RestoreEffects
<1>16. CASE Wipe(p)
  <2>1. \A e \in Entries : root'[e] = 0 BY <1>16 DEF Wipe, Empty
  <2> QED BY <1>16, <1>c, <1>d, <2>1, RestoreEffects DEF Wipe
<1>17. CASE Return(p) BY <1>17, <1>c, <1>e, RestoreEffects DEF Return
<1>18. CASE ReturnFails(p) BY <1>18, <1>a, <1>e, RestoreEffects DEF ReturnFails
<1>19. CASE RetainSnapshot(p) BY <1>19, <1>a, <1>d, CloseEffects DEF RetainSnapshot, disk
<1>20. CASE RemoveSnapshot(p)
  <2>1. Keeps(p) BY <1>20, <1>d, CloseEffects
  <2>2. UNCHANGED root /\ (UNCHANGED snap \/ \E s \in {NoSnapshot, Partial} : snap' = [snap EXCEPT ![proc[p].j.tx] = s])
    <3>1. \A t : [snap EXCEPT ![t] = snap[t]] = snap BY DEF Sensible, Types
    <3> QED BY <1>20, <3>1 DEF RemoveSnapshot
  <2> QED BY <1>a, <1>b, <2>1, <2>2
<1>21. CASE RemoveJournal(p) \/ FinalizeFails(p)
  <2>1. UNCHANGED <<root, snap>> BY <1>21 DEF RemoveJournal, FinalizeFails
  <2> QED BY <1>21, <1>a, <1>e, <2>1, CloseEffects
<1>22. CASE Recover(p) BY <1>22, <1>a, <1>d, <1>e, CloseEffects DEF Recover, disk
<1> QED
  BY <1>1, <1>2, <1>3, <1>4, <1>5, <1>6, <1>7, <1>8, <1>9, <1>10, <1>11, <1>12, <1>13, <1>14, <1>15, <1>16, <1>17,
     <1>18, <1>19, <1>20, <1>21, <1>22
  DEF Prepare, PreparationFails, Restore, Finalize, Fails

LEMMA NumberedSteps ==
  ASSUME Sensible, Numbered, [Next]_vars
  PROVE  Numbered'
<1>0. Procs = {"server", "worker", "helper"} BY DEF Procs
<1>1. CASE Write
  <2>1. PICK f \in Entries : root' = [root EXCEPT ![f] = used.writes + 2] BY <1>1 DEF Write
  <2>2. UNCHANGED <<snap, proc>> BY <1>1 DEF Write
  <2>3. \A e \in Entries : root'[e] = root[e] \/ root'[e] = used.writes + 2 BY <2>1 DEF Sensible, Types, Data
  <2>4. used'.writes = used.writes + 1
    <3>1. used \in [updates : Nat, writes : 0 .. MaxWrites, errors : Nat, crashes : Nat] BY DEF Sensible, Types
    <3> QED BY <1>1, <3>1 DEF Write
  <2> QED BY <2>2, <2>3, <2>4, NumberedForm DEF Numbered
<1>2. CASE ~ Write
  <2>0. used'.writes = used.writes BY <1>2, WritesGrow
  <2>1. ASSUME UNCHANGED <<root, snap>>, \A q \in Procs : proc'[q].away = proc[q].away \/ proc'[q].away = Empty
        PROVE  Numbered'
    <3>1. \A q \in Procs, e \in Entries : proc'[q].away[e] \in {0, proc[q].away[e]} BY <2>1 DEF Empty
    <3> QED BY <2>0, <2>1, <3>1, NumberedFrame
  <2>2. ASSUME NEW p \in Procs, \/ Prepare(p) \/ PreparationFails(p) \/ Mark(p) \/ Restore(p) \/ Finalize(p)
                                \/ Fails(p) \/ Recover(p)
        PROVE  Numbered'
    BY <2>0, <2>2, OwnNumbered
  <2>3. CASE Start \/ RequestUpdate \/ Exit \/ LaunchFails \/ WriteMarker \/ WriteMarkerFails \/ Wait
    <3>1. UNCHANGED <<root, snap>>
      BY <2>3 DEF Start, RequestUpdate, Exit, LaunchFails, WriteMarker, WriteMarkerFails, Wait, disk
    <3>2. PICK p \in Procs : Keeps(p)
      BY <1>0, <2>3, ErrandEffects DEF Keeps, Becomes, Turns, Ends
    <3> QED BY <2>1, <3>1, <3>2 DEF Keeps, Moves
  <2>4. CASE Install
    <3>1. UNCHANGED <<root, snap>> BY <2>4 DEF Install
    <3>2. proc["helper"] \in ProcType BY <1>0 DEF Sensible, Types
    <3>3. [proc["helper"] EXCEPT !.at = "mark", !.aim = "installer_succeeded"].away = proc["helper"].away
      BY <3>2 DEF ProcType
    <3>4. Keeps("helper") BY <2>4, <3>3, PairEffects DEF Keeps, Turns
    <3> QED BY <2>1, <3>1, <3>4 DEF Keeps, Moves
  <2>5. CASE CheckVersion
    <3>1. UNCHANGED <<root, snap>> BY <2>5 DEF CheckVersion, disk
    <3>2. proc["server"] \in ProcType BY <1>0 DEF Sensible, Types
    <3>3. [proc["server"] EXCEPT !.at = "await"].away = proc["server"].away BY <3>2 DEF ProcType
    <3>4. Fresh("prepare", "worker").away = Empty BY DEF Fresh
    <3>5. CASE Becomes("server", "serving", "none") BY <2>1, <3>1, <3>5 DEF Becomes, Moves
    <3>6. CASE Turns("server", "await", proc["server"].j) BY <2>1, <3>1, <3>6 DEF Turns, Moves
    <3> QED BY <1>0, <2>1, <2>5, <3>1, <3>3, <3>4, <3>5, <3>6, ErrandEffects
  <2>6. CASE WorkerEnds \/ Launch
    <3>1. UNCHANGED <<root, snap>> BY <2>6 DEF WorkerEnds, Launch, disk
    <3>2. \A b, w : Fresh(b, w).away = Empty BY DEF Fresh
    <3>3. CASE WorkerEnds
      <4>1. /\ proc'["server"] = Fresh(IF At("worker", "done") THEN "serving" ELSE "down", "none")
            /\ proc'["worker"] = Fresh("down", "none") /\ proc'["helper"] = proc["helper"]
        BY <3>3, PairEffects
      <4> QED BY <1>0, <2>1, <3>1, <3>2, <4>1
    <3>4. CASE Launch
      <4>1. /\ proc'["server"] = Fresh("frozen", "install") /\ proc'["worker"] = proc["worker"]
            /\ proc'["helper"] = [at |-> "mark", why |-> "installer", j |-> proc["server"].j,
                                  aim |-> "installer_running", left |-> {}, away |-> Empty]
        BY <3>4, PairEffects
      <4>2. proc'["helper"].away = Empty BY <4>1
      <4> QED BY <1>0, <2>1, <3>1, <3>2, <4>1, <4>2
    <3> QED BY <2>6, <3>3, <3>4
  <2>7. CASE Crash
    <3>1. PICK ps \in SUBSET Procs :
            /\ \A p \in ps : proc'[p] = Fresh(proc'[p].at, "none")
            /\ \A p \in Procs \ ps : proc'[p] = proc[p]
      BY <2>7, PairEffects
    <3>2. ASSUME NEW p \in ps PROVE proc'[p].away = Empty
      <4> DEFINE b == proc'[p].at
      <4>1. proc'[p] = Fresh(b, "none") BY <3>1
      <4> HIDE DEF b
      <4> QED BY <4>1 DEF Fresh
    <3> QED BY <2>1, <2>7, <3>1, <3>2 DEF Crash
  <2>8. CASE UNCHANGED vars BY <2>1, <2>8 DEF vars, disk
  <2> QED
    BY <1>0, <1>2, <2>2, <2>3, <2>4, <2>5, <2>6, <2>7, <2>8 DEF Next, Server, Worker, Helper, Failure
<1> QED BY <1>1, <1>2

(* The migration of the worker: where all it adds is there, and what it    *)
(* may not have broken.                                                    *)
Full == \A e \in Legacy : root[e] # 0
Spoilt == \E e \in Kept : Saved(e) # 0 /\ root[e] # Saved(e)
Closes == proc["worker"].at \in Closing /\ proc["worker"].j.phase # "rolled_back"
Worked ==
    /\ At("worker", "validate") => Spoilt \/ Full
    /\ proc["worker"].at \in {"mark", "marking", "recover", "marker"} \/ Closes => Full
    /\ Closes => journal = proc["worker"].j
    /\ At("worker", "marker") => ~ OpenJournal
Stays ==
    /\ Worked
    /\ \A e \in Kept : Has(e)
    /\ marker = "guarded" => \A e \in Legacy : Has(e)

(* Beside a worker that is at work nobody touches what it works on.        *)
LEMMA Bystanders ==
  ASSUME Sensible, Roles, Safe, Live("worker"),
         \/ Server \/ Helper \/ Fails("server") \/ Fails("helper") \/ PreparationFails("server") \/ LaunchFails
         \/ RequestUpdate \/ Crash \/ UNCHANGED vars
  PROVE  /\ Holder("worker") => UNCHANGED <<root, snap, journal>>
         /\ ~ OpenJournal => UNCHANGED root /\ ~ OpenJournal'
         /\ proc'["worker"] = proc["worker"] \/ proc'["worker"].at \in {"down", "failed"}
<1> USE DEF At
<1>0. Procs = {"server", "worker", "helper"} BY DEF Procs
<1>1. ~ Live("helper") /\ ~ Serving /\ ~ Exclusive BY DEF Roles, HelperRole, WorkerRole
<1>2. proc["helper"].at \in {"down", "done", "failed"} BY <1>1 DEF Live
<1>3. proc["server"].at \notin Drafting \cup Applying \cup {"prepare", "frozen", "serving"}
  BY <1>1 DEF Roles, ServerRole, Exclusive, Serving
<1>4. Holder("worker") => proc["server"].at \notin Engaged BY <1>0, Sole
<1>5. ~ OpenJournal => proc["server"].at \notin Undoing BY <1>0 DEF Safe, Phased
<1>6. ~ Helper /\ ~ Fails("helper")
  <2>1. {"down", "done", "failed"} \cap Engaged = {} /\ "mark" \in Engaged /\ "marking" \in Engaged
        /\ "wait" \in Engaged /\ "install" \in Engaged /\ {"finalize", "removing", "unjournal"} = Closing
        /\ {"rollback", "verify", "move", "putback", "copy", "wipe", "return", "record"} = Undoing
    BY DEF Engaged, Applying, Undoing, Closing, Restoring
  <2>2. proc["helper"].at \notin Engaged /\ proc["helper"].at \notin Undoing /\ proc["helper"].at \notin Closing
    BY <1>2, <2>1, Geography
  <2>3. ~ Mark("helper") /\ ~ Wait /\ ~ Install /\ ~ MarkFails("helper")
    BY <2>1, <2>2 DEF Mark, ReadForMark, WriteMark, Wait, Install, MarkFails
  <2>4. ~ Restore("helper")
    BY <2>1, <2>2 DEF Restore, ReadForRollback, Verify, Move, PutBack, Copy, Wipe, Return, Record
  <2>5. ~ Finalize("helper") /\ ~ FinalizeFails("helper")
    BY <2>1, <2>2 DEF Finalize, RetainSnapshot, RemoveSnapshot, RemoveJournal, FinalizeFails
  <2>6. ~ MoveFails("helper") /\ ~ PutBackFails("helper") /\ ~ CopyFails("helper") /\ ~ ReturnFails("helper")
        /\ ~ RecordFails("helper")
    BY <2>1, <2>2 DEF MoveFails, PutBackFails, CopyFails, ReturnFails, RecordFails
  <2> QED BY <2>3, <2>4, <2>5, <2>6 DEF Helper, Fails
<1>7. ~ Prepare("server") /\ ~ PreparationFails("server") /\ ~ Mark("server") /\ ~ MarkFails("server")
      /\ ~ Launch /\ ~ LaunchFails /\ ~ Exit /\ ~ RequestUpdate /\ ~ WorkerEnds
  <2>1. "snapshot" \in Drafting /\ "open" \in Drafting /\ "migrating" \in Applying /\ "migrate" \in Applying
        /\ "validate" \in Applying /\ "mark" \in Applying /\ "marking" \in Applying /\ "launch" \in Applying
    BY DEF Drafting, Applying
  <2>2. ~ Prepare("server") /\ ~ PreparationFails("server")
    BY <1>3, <2>1 DEF Prepare, Refuse, BeginSnapshot, TakeSnapshot, Open, MarkMigrating, Migrate, Validate,
                      PreparationFails, PrepareFails, MigrateHarms, MigrationFails
  <2>3. ~ Mark("server") /\ ~ MarkFails("server") BY <1>3, <2>1 DEF Mark, ReadForMark, WriteMark, MarkFails
  <2>4. ~ Launch /\ ~ LaunchFails /\ ~ Exit /\ ~ RequestUpdate
    BY <1>3, <2>1 DEF Launch, LaunchFails, Exit, RequestUpdate, Serving
  <2> QED BY <2>2, <2>3, <2>4 DEF WorkerEnds
(* Nobody's process changes but the server's, or some die.                 *)
<1>8. ASSUME NEW p \in Procs, p # "worker", Moves(p) PROVE proc'["worker"] = proc["worker"]
  BY <1>0, <1>8 DEF Moves
<1>9. CASE Crash \/ UNCHANGED vars \/ Start \/ CheckVersion \/ Recover("server")
  <2>1. UNCHANGED <<root, snap, journal>> BY <1>9 DEF Crash, vars, disk, Start, CheckVersion, Recover
  <2>2. proc'["worker"] = proc["worker"] \/ proc'["worker"].at \in {"down", "failed"}
    <3>1. CASE Crash BY <1>0, <3>1, PairEffects
    <3>2. CASE UNCHANGED vars BY <3>2 DEF vars
    <3>3. CASE Start BY <1>0, <1>8, <3>3, ErrandEffects DEF Becomes
    <3>4. CASE CheckVersion
      <4>1. Becomes("server", "serving", "none") \/ Turns("server", "await", proc["server"].j)
        BY <3>4, ErrandEffects DEF CheckVersion
      <4> QED BY <1>0, <1>8, <4>1 DEF Becomes, Turns
    <3>5. CASE Recover("server")
      BY <1>0, <1>8, <3>5, CloseEffects DEF Turns, Resumes, Ends, Becomes
    <3> QED BY <1>9, <3>1, <3>2, <3>3, <3>4, <3>5
  <2> QED BY <2>1, <2>2 DEF OpenJournal
<1>10. CASE Restore("server") \/ MoveFails("server") \/ PutBackFails("server") \/ CopyFails("server")
            \/ ReturnFails("server") \/ RecordFails("server")
  <2>1. proc["server"].at \in Undoing
    BY <1>10 DEF Restore, ReadForRollback, Verify, Move, PutBack, Copy, Wipe, Return, Record,
                 MoveFails, PutBackFails, CopyFails, ReturnFails, RecordFails, Undoing, Restoring
  <2>2. ~ Holder("worker") /\ OpenJournal BY <1>4, <1>5, <2>1, Geography
  <2>3. Moves("server")
    BY <1>0, <1>10, RestoreEffects DEF Restore, Turns, Ends, Resumes, Becomes, Carries
  <2> QED BY <1>0, <1>8, <2>2, <2>3
<1>11. CASE Finalize("server") \/ FinalizeFails("server")
  <2>1. proc["server"].at \in Closing
    BY <1>11 DEF Finalize, RetainSnapshot, RemoveSnapshot, RemoveJournal, FinalizeFails, Closing
  <2>2. ~ Holder("worker") BY <1>4, <2>1, Geography
  <2>3. Moves("server")
    BY <1>0, <1>11, CloseEffects DEF Finalize, Turns, Ends, Resumes, Becomes
  <2>4. proc["server"].j.phase \in Finished BY <1>0, <2>1 DEF Roles, Held
  <2>5. UNCHANGED root /\ journal' \in {journal, NoJournal, proc["server"].j}
    BY <1>11 DEF Finalize, RetainSnapshot, RemoveSnapshot, RemoveJournal, FinalizeFails, disk
  <2>6. ~ OpenJournal => ~ OpenJournal' BY <2>4, <2>5 DEF OpenJournal
  <2> QED BY <1>0, <1>8, <2>2, <2>3, <2>5, <2>6
<1> QED BY <1>6, <1>7, <1>9, <1>10, <1>11 DEF Server, Fails

LEMMA OwnMoves ==
  ASSUME Sensible, NEW p \in Procs,
         Prepare(p) \/ PreparationFails(p) \/ Mark(p) \/ Restore(p) \/ Finalize(p) \/ Fails(p) \/ Recover(p)
  PROVE  Moves(p)
<1>0. (\A b, j : Turns(p, b, j) => Moves(p)) /\ (Ends(p) \/ Resumes(p) => Moves(p))
  BY DEF Turns, Ends, Resumes, Becomes
<1>1. CASE Prepare(p) \/ PreparationFails(p)
  <2>1. UNCHANGED proc => Moves(p) BY DEF Moves, Sensible, Types
  <2> QED BY <1>0, <1>1, <2>1, PrepareEffects DEF Prepare, PreparationFails
<1>2. CASE Mark(p) \/ MarkFails(p) BY <1>0, <1>2, MarkEffects, Geography DEF Mark, GivesIn
<1>3. CASE Restore(p) \/ MoveFails(p) \/ PutBackFails(p) \/ CopyFails(p) \/ ReturnFails(p) \/ RecordFails(p)
  <2>1. \A b, l, a : Carries(p, b, l, a) => Moves(p) BY DEF Carries
  <2> QED BY <1>0, <1>3, <2>1, RestoreEffects DEF Restore
<1>4. CASE Finalize(p) \/ FinalizeFails(p) BY <1>0, <1>4, CloseEffects DEF Finalize
<1>5. CASE Recover(p) BY <1>0, <1>5, CloseEffects
<1> QED BY <1>1, <1>2, <1>3, <1>4, <1>5 DEF Fails

(* A worker that is over is only started again or forgotten.               *)
LEMMA Unmanned ==
  ASSUME Sensible, ~ Live("worker"),
         \/ Server \/ Helper \/ Fails("server") \/ Fails("helper") \/ PreparationFails("server") \/ LaunchFails
         \/ RequestUpdate \/ Crash \/ UNCHANGED vars
  PROVE  proc'["worker"] = proc["worker"] \/ proc'["worker"].at \in {"prepare", "down", "failed"}
<1>0. Procs = {"server", "worker", "helper"} BY DEF Procs
<1>1. ASSUME NEW p \in {"server", "helper"}, Moves(p) PROVE proc'["worker"] = proc["worker"]
  BY <1>0, <1>1 DEF Moves
<1>2. CASE Crash \/ UNCHANGED vars BY <1>0, <1>2, PairEffects DEF vars
<1>3. CASE Start \/ RequestUpdate \/ Exit \/ LaunchFails \/ Wait
  BY <1>1, <1>3, ErrandEffects DEF Becomes, Turns
<1>4. CASE CheckVersion BY <1>1, <1>4, ErrandEffects DEF Becomes, Fresh
<1>5. CASE WorkerEnds \/ Launch BY <1>5, PairEffects DEF Fresh
<1>6. CASE Install BY <1>1, <1>6, PairEffects DEF Turns
<1> QED BY <1>0, <1>1, <1>2, <1>3, <1>4, <1>5, <1>6, OwnMoves DEF Server, Helper

LEMMA OwnWorked ==
  ASSUME Sensible, Roles, Safe, Worked, \A e \in Kept : Has(e),
         \/ Prepare("worker") \/ PreparationFails("worker") \/ Mark("worker") \/ Restore("worker")
         \/ Finalize("worker") \/ Fails("worker") \/ Recover("worker") \/ WriteMarker \/ WriteMarkerFails
  PROVE  Worked'
<1> USE DEF At
<1> DEFINE w == "worker"
<1>0. w \in Procs /\ proc[w] \in ProcType /\ Equipped(proc[w]) /\ Held(w) BY DEF Procs, Sensible, Types, Roles
<1>1. \A b \in {"down", "done", "failed", "prepare", "snapshot", "open", "migrating", "migrate"} \cup Undoing :
         b \notin {"validate", "mark", "marking", "recover", "marker"} \cup Closing
  BY DEF Undoing, Restoring, Closing
<1>2. ASSUME proc'[w].at \in {"down", "done", "failed", "prepare", "snapshot", "open", "migrating", "migrate"} \cup Undoing
      PROVE  Worked'
  BY <1>1, <1>2 DEF Worked, Closes
<1>3. Ends(w) => proc'[w].at = "failed" BY DEF Ends, Becomes
<1>4. CASE Refuse(w) \/ PrepareFails(w) \/ WriteMarkerFails
  BY <1>0, <1>2, <1>3, <1>4, PrepareEffects, ErrandEffects
<1>5. CASE BeginSnapshot(w) \/ TakeSnapshot(w) \/ Open(w) \/ MarkMigrating(w) \/ MigrationFails(w) \/ WriteMarker
  <2>1. "verify" \in Undoing BY DEF Undoing
  <2> QED BY <1>0, <1>2, <1>5, <2>1, PrepareEffects, ErrandEffects DEF Turns
<1>6. CASE Migrate(w)
  <2>1. CASE UNCHANGED proc BY <1>2, <1>6, <2>1 DEF Migrate
  <2>2. CASE (\A e \in Legacy : root[e] # 0) /\ Turns(w, "validate", proc[w].j) /\ UNCHANGED root
    BY <2>2 DEF Worked, Closes, Closing, Turns, Full
  <2> QED BY <1>0, <1>6, <2>1, <2>2, PrepareEffects
<1>7. CASE MigrateHarms(w)
  <2>1. Turns(w, "validate", proc[w].j) /\ UNCHANGED <<snap, journal>> BY <1>0, <1>7, PrepareEffects DEF MigrateHarms
  <2>2. PICK e \in Kept : root' = [root EXCEPT ![e] = 0] BY <1>7 DEF MigrateHarms
  <2>3. e \in Entries /\ root'[e] = 0 BY <2>2 DEF Entries, Sensible, Types, Data
  <2>4. Backed
    <3>1. proc[w].at = "migrate" /\ "migrate" \in Applying /\ "migrate" \in Engaged
      BY <1>7 DEF MigrateHarms, Applying, Engaged
    <3> QED BY <1>0, <3>1, HolderKnows
  <2>5. Saved(e) # 0 BY <2>4 DEF Has
  <2>6. Saved(e)' = Saved(e) BY <2>1 DEF Saved
  <2>7. Spoilt' BY <2>3, <2>5, <2>6 DEF Spoilt
  <2> QED BY <2>1, <2>7 DEF Worked, Closes, Closing, Turns
<1>8. CASE Validate(w)
  <2>1. proc[w].at = "validate" /\ "validate" \in Applying /\ "validate" \in Engaged
    BY <1>8 DEF Validate, Applying, Engaged
  <2>2. journal.tx = proc[w].j.tx BY <1>0, <2>1, HolderKnows
  <2>3. CASE /\ Contains(snap[proc[w].j.tx].of, root) /\ Turns(w, "mark", Phase(w, "data_prepared"))
             /\ UNCHANGED root
    <3>1. ~ Spoilt BY <2>2, <2>3 DEF Spoilt, Contains, Saved, Entries
    <3>2. Full' BY <2>1, <2>3, <3>1 DEF Worked, Full
    <3> QED BY <2>3, <3>2 DEF Worked, Closes, Closing, Turns
  <2>4. CASE Turns(w, "verify", proc[w].j)
    <3>1. "verify" \in Undoing BY DEF Undoing
    <3> QED BY <1>2, <2>4, <3>1 DEF Turns
  <2> QED BY <1>0, <1>8, <2>3, <2>4, PrepareEffects
<1>9. CASE Mark(w) \/ MarkFails(w)
  <2>1. proc[w].at \in {"mark", "marking"} /\ UNCHANGED root BY <1>9 DEF Mark, ReadForMark, WriteMark, MarkFails, disk
  <2>2. Full' BY <2>1 DEF Worked, Full
  <2>3. proc'[w].at \in {"marking", "recover", "failed"}
    BY <1>0, <1>3, <1>9, MarkEffects DEF Mark, GivesIn, Turns
  <2> QED BY <2>2, <2>3 DEF Worked, Closes, Closing
<1>10. CASE Recover(w)
  <2>1. proc[w].at = "recover" /\ Holder(w) /\ proc[w].at \notin Drafting BY <1>10 DEF Recover, Holder, Drafting
  <2>2. journal # NoJournal /\ journal.phase = "installer_succeeded" BY <1>0, <2>1 DEF Roles, WorkerRole, Held
  <2>3. Turns(w, "finalize", journal)
    BY <1>0, <1>10, <2>2, CloseEffects DEF Finished
  <2>4. Full' BY <1>10, <2>1 DEF Worked, Full, Recover, disk
  <2>5. journal' = proc'[w].j BY <1>10, <2>3 DEF Turns, Recover, disk
  <2> QED BY <2>3, <2>4, <2>5 DEF Worked, Closes, Turns
<1>11. CASE Restore(w) \/ MoveFails(w) \/ PutBackFails(w) \/ CopyFails(w) \/ ReturnFails(w) \/ RecordFails(w)
  <2>1. CASE ReadForRollback(w)
    <3>1. proc[w].at = "rollback" /\ Holder(w) BY <2>1 DEF ReadForRollback, Holder, Engaged, Undoing
    <3> QED BY <3>1 DEF Roles, WorkerRole
  <2>2. CASE Record(w) \/ RecordFails(w)
    <3>1. Turns(w, "finalize", Phase(w, "rolled_back")) /\ proc[w].j \in JournalType \ {NoJournal}
      BY <1>0, <2>2, RestoreEffects
    <3>2. "rolled_back" \in Phases BY DEF Phases, Finished
    <3>3. proc'[w].j.phase = "rolled_back" BY <3>1, <3>2, JournalForms DEF Turns, Phase
    <3> QED BY <3>1, <3>3 DEF Worked, Closes, Turns
  <2>3. CASE ~ ReadForRollback(w) /\ ~ Record(w) /\ ~ RecordFails(w)
    <3>1. {"move", "copy", "putback", "wipe", "return", "record"} \subseteq Undoing BY DEF Undoing, Restoring
    <3>2. proc'[w].at \in {"move", "copy", "putback", "wipe", "return", "record", "failed"}
      BY <1>0, <1>3, <1>11, <2>3, RestoreEffects DEF Restore, Carries, Turns
    <3> QED BY <1>2, <3>1, <3>2
  <2> QED BY <2>1, <2>2, <2>3
<1>12. CASE Finalize(w) \/ FinalizeFails(w)
  <2>1. proc[w].at \in Closing /\ UNCHANGED root
    BY <1>12 DEF Finalize, RetainSnapshot, RemoveSnapshot, RemoveJournal, FinalizeFails, Closing, disk
  <2>2. proc[w].j.phase # "rolled_back" => Full' /\ journal = proc[w].j BY <2>1 DEF Worked, Closes, Full
  <2>3. proc[w].j.phase \in Finished BY <1>0, <2>1 DEF Held
  <2>4. CASE RetainSnapshot(w) \/ RemoveSnapshot(w)
    <3>1. proc'[w].at \in {"removing", "unjournal"} /\ proc'[w].j = proc[w].j BY <1>0, <2>4, CloseEffects DEF Turns
    <3>2. journal' = journal BY <2>4 DEF RetainSnapshot, RemoveSnapshot, disk
    <3> QED BY <2>2, <3>1, <3>2 DEF Worked, Closes
  <2>5. CASE RemoveJournal(w) \/ FinalizeFails(w)
    <3>1. Resumes(w) BY <1>0, <2>5, CloseEffects
    <3>2. proc[w].why # "start" BY DEF Sensible, Suited
    <3>3. CASE proc[w].j.phase = "rolled_back"
      BY <1>2, <1>3, <3>1, <3>2, <3>3 DEF Resumes
    <3>4. CASE proc[w].j.phase # "rolled_back"
      <4>1. journal' \in {NoJournal, proc[w].j} BY <2>2, <2>5, <3>4 DEF RemoveJournal, FinalizeFails
      <4>2. ~ OpenJournal' BY <2>3, <4>1 DEF OpenJournal
      <4>3. proc'[w].at = "marker" BY <3>1, <3>2, <3>4 DEF Resumes, Becomes, Ends
      <4> QED BY <2>2, <3>4, <4>2, <4>3 DEF Worked, Closes, Closing
    <3> QED BY <3>3, <3>4
  <2> QED BY <1>12, <2>4, <2>5 DEF Finalize
<1> QED
  BY <1>4, <1>5, <1>6, <1>7, <1>8, <1>9, <1>10, <1>11, <1>12 DEF Prepare, PreparationFails, Fails

LEMMA WorkedSteps ==
  ASSUME Sensible, Roles, Safe, Numbered, Worked, \A e \in Kept : Has(e), [Next]_vars
  PROVE  Worked'
<1> USE DEF At
<1>0. {"server", "worker", "helper"} = Procs BY DEF Procs
<1>1. CASE \/ Prepare("worker") \/ PreparationFails("worker") \/ Mark("worker") \/ Restore("worker")
           \/ Finalize("worker") \/ Fails("worker") \/ Recover("worker") \/ WriteMarker \/ WriteMarkerFails
  BY <1>1, OwnWorked
<1>2. CASE Write
  <2>1. PICK f \in Entries : root' = [root EXCEPT ![f] = used.writes + 2] BY <1>2 DEF Write
  <2>2. UNCHANGED <<snap, journal, proc>> BY <1>2 DEF Write
  <2>3. \A e \in Entries : root'[e] = root[e] \/ root'[e] = used.writes + 2 BY <2>1 DEF Sensible, Types, Data
  <2>4. used.writes \in Nat BY DEF Sensible, Types
  <2>5. Full => Full' BY <2>3, <2>4 DEF Full, Entries
  <2>6. At("worker", "validate") /\ Spoilt => Spoilt'
    <3>1. SUFFICES ASSUME proc["worker"].at = "validate", NEW e \in Kept, Saved(e) # 0, root[e] # Saved(e)
                   PROVE  Spoilt'
      BY DEF Spoilt
    <3>2. "validate" \in Engaged BY DEF Engaged, Applying
    <3>3. journal.tx \in Tx BY <1>0, <3>1, <3>2, HolderKnows
    <3>4. e \in Entries BY DEF Entries
    <3>5. Saved(e) <= used.writes + 1 /\ Saved(e) \in Nat BY <3>3, <3>4, NumberedForm DEF Saved
    <3>6. Saved(e)' = Saved(e) BY <2>2 DEF Saved
    <3>7. root'[e] # Saved(e) BY <2>3, <2>4, <3>1, <3>4, <3>5
    <3> QED BY <3>1, <3>6, <3>7 DEF Spoilt
  <2> QED BY <2>2, <2>5, <2>6 DEF Worked, Closes, OpenJournal
<1>3. CASE \/ Server \/ Helper \/ Fails("server") \/ Fails("helper") \/ PreparationFails("server") \/ LaunchFails
           \/ RequestUpdate \/ Crash \/ UNCHANGED vars
  <2>1. ASSUME proc'["worker"].at \in {"prepare", "down", "failed"} PROVE Worked'
    BY <2>1 DEF Worked, Closes, Closing
  <2>2. CASE ~ Live("worker")
    <3>1. proc["worker"].at \in {"down", "done", "failed"} BY <2>2 DEF Live
    <3>2. proc'["worker"] = proc["worker"] \/ proc'["worker"].at \in {"prepare", "down", "failed"}
      BY <1>3, <2>2, Unmanned
    <3> QED BY <2>1, <3>1, <3>2 DEF Worked, Closes, Closing
  <2>3. CASE Live("worker")
    <3>1. /\ Holder("worker") => UNCHANGED <<root, snap, journal>>
          /\ ~ OpenJournal => UNCHANGED root /\ ~ OpenJournal'
          /\ proc'["worker"] = proc["worker"] \/ proc'["worker"].at \in {"down", "failed"}
      BY <1>3, <2>3, Bystanders
    <3>2. CASE Holder("worker")
      BY <2>1, <3>1, <3>2 DEF Worked, Closes, Full, Spoilt, Saved, OpenJournal
    <3>3. CASE ~ Holder("worker")
      <4>1. proc["worker"].at \notin {"validate", "mark", "marking", "recover"} \cup Closing
        BY <3>3 DEF Holder, Engaged, Applying
      <4> QED BY <2>1, <3>1, <4>1 DEF Worked, Closes, Full
    <3> QED BY <3>2, <3>3
  <2> QED BY <2>2, <2>3
<1> QED BY <1>0, <1>1, <1>2, <1>3 DEF Next, Worker, Failure

LEMMA MarkerForm ==
  ASSUME Sensible, [Next]_vars, marker' = "guarded"
  PROVE  marker = "guarded" \/ WriteMarker
<1>1. \A p : Prepare(p) \/ PreparationFails(p) \/ Mark(p) \/ Restore(p) \/ Finalize(p) \/ Fails(p) \/ Recover(p)
             => UNCHANGED marker
  BY DEF Prepare, Refuse, BeginSnapshot, TakeSnapshot, Open, WriteJournal, MarkMigrating, Migrate, Validate,
         Mark, ReadForMark, WriteMark, Restore, ReadForRollback, Verify, Move, PutBack, Copy, Wipe, Return, Record,
         Finalize, RetainSnapshot, RemoveSnapshot, RemoveJournal, Recover,
         Fails, MoveFails, PutBackFails, CopyFails, ReturnFails, RecordFails, MarkFails, FinalizeFails,
         PreparationFails, PrepareFails, MigrateHarms, MigrationFails, disk
<1>2. Start \/ CheckVersion \/ WorkerEnds \/ Launch \/ LaunchFails \/ Exit \/ WriteMarkerFails \/ Wait
      \/ RequestUpdate \/ Crash \/ Write \/ UNCHANGED vars => UNCHANGED marker
  BY DEF Start, CheckVersion, WorkerEnds, Launch, LaunchFails, Exit, WriteMarkerFails, Wait, RequestUpdate, Crash,
         Write, vars, disk
<1>3. Install => marker' \in {marker, "old"} BY DEF Install
<1> QED BY <1>1, <1>2, <1>3 DEF Next, Server, Worker, Helper, Failure

LEMMA StaysSteps ==
  ASSUME Sensible, Roles, Safe, Numbered, Stays, [Next]_vars, Roles'
  PROVE  Stays'
<1>1. Worked' BY WorkedSteps DEF Stays
<1>2. \A e \in Kept : Has(e)' BY HasSteps DEF Stays, Entries
<1>3. ASSUME marker' = "guarded", NEW e \in Legacy PROVE Has(e)'
  <2>0. e \in Entries BY DEF Entries
  <2>1. CASE marker = "guarded" BY <2>0, <2>1, HasSteps DEF Stays
  <2>2. CASE WriteMarker
    <3>1. proc["worker"].at = "marker" /\ UNCHANGED <<root, journal>> BY <2>2 DEF WriteMarker, At
    <3>2. root[e] # 0 /\ ~ OpenJournal BY <3>1 DEF Stays, Worked, Full, At
    <3>3. ~ Backed' BY <3>1, <3>2 DEF Backed, OpenJournal
    <3>4. ~ Live("helper") /\ ~ Exclusive BY <3>1 DEF Roles, HelperRole, WorkerRole, Live
    <3>5. \A p \in Procs : proc[p].at # "open"
      BY <3>1, <3>4, Geography DEF Roles, ServerRole, Exclusive, Live
    <3>6. \A p \in Procs : proc'[p].at # "open"
      <4>1. Turns("worker", "done", proc["worker"].j) BY <2>2, ErrandEffects
      <4> QED BY <3>5, <4>1 DEF Turns, Moves
    <3> QED BY <3>1, <3>2, <3>3, <3>6 DEF Has, HasLocal, At
  <2> QED BY <1>3, <2>1, <2>2, MarkerForm
<1> QED BY <1>1, <1>2, <1>3 DEF Stays

Marked == Numbered /\ (overtaken \/ Stays)

LEMMA InitMarked == Init => Marked
<1> SUFFICES ASSUME Init PROVE Marked OBVIOUS
<1>1. \A p \in Procs : proc[p].at = "down" /\ proc[p].away = Empty BY FreshForms DEF Init, Fresh
<1>2. used.writes = 0 BY DEF Init
<1>3. \A e \in Entries : root[e] \in {0, 1} /\ (e \in Kept => root[e] = 1) BY DEF Init
<1>4. NoSnapshot.of = Empty BY DEF NoSnapshot
<1>5. \A t \in Tx : snap[t] = NoSnapshot BY DEF Init
<1>6. Numbered BY <1>1, <1>2, <1>3, <1>4, <1>5 DEF Numbered, Empty
<1>7. ~ Backed /\ marker # "guarded" BY DEF Init, Backed, OpenJournal
<1>8. \A e \in Kept : Has(e)
  BY <1>1, <1>3, <1>7 DEF Has, HasLocal, At, Entries
<1>9. Worked BY <1>1, Geography DEF Worked, Closes, At, Procs
<1> QED BY <1>6, <1>7, <1>8, <1>9 DEF Marked, Stays

LEMMA MarkedSteps == Sound /\ Marked /\ [Next]_vars => Marked'
<1> SUFFICES ASSUME Sound, Marked, [Next]_vars PROVE Marked' OBVIOUS
<1>1. Numbered' BY NumberedSteps DEF Sound, Guarded, Marked
<1>2. ASSUME ~ overtaken' PROVE Stays'
  <2>1. CASE UNCHANGED vars
    <3>1. ~ overtaken /\ Roles /\ Roles'
      BY <1>2, <2>1, RolesFrame DEF Sound, Guarded, vars, history, disk
    <3> QED BY <3>1, StaysSteps DEF Sound, Guarded, Marked
  <2>2. CASE Next
    <3>1. ~ overtaken /\ Sensible /\ Roles /\ Safe BY <2>2 DEF Sound, Guarded, Next
    <3>2. Roles' BY <1>2, <3>1, RolesSteps
    <3> QED BY <3>1, <3>2, StaysSteps DEF Marked
  <2> QED BY <2>1, <2>2
<1> QED BY <1>1, <1>2 DEF Marked

(* A server that serves under the marker has the migrated data, until a    *)
(* start overtakes a live process: the marker is written when the          *)
(* migration has been validated and the transaction closed, and no later   *)
(* update or restore takes the new entries away.                           *)
THEOREM MarkerIsTrue == Spec => []MarkedMeansMigrated
<1>1. Init => Marked BY InitMarked
<1>2. Sound /\ Marked /\ [Next]_vars => Marked' BY MarkedSteps
<1>3. Sound /\ Marked => MarkedMeansMigrated
  BY DEF Sound, Marked, Stays, Has, Backed, MarkedMeansMigrated
<1> QED BY <1>1, <1>2, <1>3, Soundness, PTL DEF Spec
=============================================================================
