------------------------ MODULE UpdateBarrierProofs ------------------------
(***************************************************************************)
(* For any number of processes and mutations: UpdateBarrier is type        *)
(* correct, a running mutation keeps its marker, an update has drained its *)
(* own process, and as long as no live lock was removed by the race of     *)
(* removeIfStale, updates exclude each other and every mutation.           *)
(***************************************************************************)
EXTENDS UpdateBarrier, FiniteSetTheorems, TLAPS

(* Only a running process is inside a function or keeps anything in memory. *)
OnlyUp ==
  \A p \in Proc : life[p] # "up" =>
    /\ pc[p] = "ready" /\ ~ doomed[p] /\ ~ held[p] /\ upd[p] = "idle"
    /\ live[p] = {}

(* What an update keeps while it is under way, and where a process that     *)
(* begins a mutation or an update can be.                                  *)
Phases ==
  \A p \in Proc :
    /\ upd[p] # "idle" => held[p] /\ frozen[p] /\ pc[p] \in {"ready", "scan"}
    /\ held[p] => upd[p] # "idle"
    /\ pc[p] = "scan" => upd[p] = "external"
    /\ pc[p] \in {"acquire", "open", "sign"} => frozen[p]
    /\ doomed[p] => pc[p] \in StaleChecks

(* A release closure stands for a marker that is still there; the mutation  *)
(* being begun has a marker and no closure yet.                            *)
ClosuresOf(p) ==
  /\ IsFiniteSet(live[p]) /\ activeMutations[p] = Cardinality(live[p])
  /\ \A n \in live[p] : n <= begun[p] /\ <<p, n>> \in markers \ bare
  /\ pc[p] \in {"stamp", "recheck"} =>
       /\ begun[p] \notin live[p] /\ begun[p] \in 1 .. MaxMutations
       /\ <<p, begun[p]>> \in markers
  /\ pc[p] = "recheck" => <<p, begun[p]>> \notin bare
  /\ pc[p] \in {"begin", "mark"} => begun[p] < MaxMutations

Closures == \A p \in Proc : ClosuresOf(p)

(* Until a live lock is removed, whoever holds or signs update.lock owns it. *)
Owned ==
  ~ stolen => \A p \in Proc :
    /\ held[p] => lock.there /\ lock.by = p /\ lock.signed
    /\ pc[p] = "sign" => lock.there /\ lock.by = p

(* A scan that has seen nothing alive still has every running mutation ahead. *)
ScanAhead ==
  ~ stolen => \A p, q \in Proc : pc[p] = "scan" /\ ~ seen[p] =>
    \A n \in live[q] : <<q, n>> \in todo[p]

IInv ==
  /\ TypeOK /\ OnlyUp /\ Phases /\ Closures
  /\ Owned /\ ScanAhead /\ OwnWritesDrained /\ WritesExcluded

----------------------------------------------------------------------------
(* AfterStaleCheck, the only step that admits a mutation.                   *)

LEMMA AdmissionTypes ==
  ASSUME IInv, NEW p \in Proc, pc[p] \in StaleChecks, AfterStaleCheck(p)
  PROVE  /\ pc' \in [Proc -> StaleChecks \cup
                         {"ready", "mark", "stamp", "open", "sign", "scan"}]
         /\ activeMutations' \in [Proc -> Nat]
         /\ live' \in [Proc -> SUBSET (1 .. MaxMutations)]
         /\ begun' = begun
<1> USE DEF IInv, TypeOK, Closures, ClosuresOf, StaleChecks, mutVars
<1>1. CASE pc[p] = "recheck"
  <2>1. Admit(p)
    BY <1>1 DEF AfterStaleCheck
  <2>2. begun[p] \in 1 .. MaxMutations
    BY <1>1
  <2>3. live' \in [Proc -> SUBSET (1 .. MaxMutations)]
    BY <2>1, <2>2 DEF Admit
  <2>4. activeMutations' \in [Proc -> Nat]
    BY <2>1 DEF Admit
  <2> QED BY <2>1, <2>3, <2>4 DEF Admit, Goto
<1>2. CASE pc[p] # "recheck"
  BY <1>2 DEF AfterStaleCheck, Goto
<1> QED BY <1>1, <1>2

(* activeMutations counts the closures: adding, removing, none left.        *)
LEMMA CountSteps ==
  ASSUME IInv, NEW p \in Proc
  PROVE  /\ activeMutations[p] = 0 => live[p] = {}
         /\ \A n \in live[p] :
              /\ IsFiniteSet(live[p] \ {n})
              /\ Cardinality(live[p] \ {n}) = activeMutations[p] - 1
              /\ activeMutations[p] - 1 \in Nat
         /\ \A n : n \notin live[p] =>
              /\ IsFiniteSet(live[p] \cup {n})
              /\ Cardinality(live[p] \cup {n}) = activeMutations[p] + 1
<1>1. IsFiniteSet(live[p]) /\ activeMutations[p] = Cardinality(live[p])
  BY DEF IInv, Closures, ClosuresOf
<1>2. activeMutations[p] = 0 => live[p] = {}
  BY <1>1, FS_EmptySet
<1>3. ASSUME NEW n \in live[p]
      PROVE  /\ IsFiniteSet(live[p] \ {n})
             /\ Cardinality(live[p] \ {n}) = activeMutations[p] - 1
             /\ activeMutations[p] - 1 \in Nat
  <2>1. /\ IsFiniteSet(live[p] \ {n})
        /\ Cardinality(live[p] \ {n}) = Cardinality(live[p]) - 1
    BY <1>1, FS_RemoveElement
  <2>2. Cardinality(live[p] \ {n}) \in Nat
    BY <2>1, FS_CardinalityType
  <2> QED BY <1>1, <2>1, <2>2
<1>4. ASSUME NEW n, n \notin live[p]
      PROVE  /\ IsFiniteSet(live[p] \cup {n})
             /\ Cardinality(live[p] \cup {n}) = activeMutations[p] + 1
  BY <1>1, <1>4, FS_AddElement
<1> QED BY <1>2, <1>3, <1>4

----------------------------------------------------------------------------
(* Each part of the invariant is preserved by every step.                   *)

LEMMA TypeStep ==
  ASSUME IInv, NEW p \in Proc, Step(p)
  PROVE  TypeOK'
<1> USE DEF IInv, TypeOK, StaleChecks, Marker, LockFile, NoFile,
            procVars, mutVars, updVars, scanVars, fileVars
<1>1. CASE JudgeLock(p) \/ InitKeepsLock(p) \/ BeginMutation(p) \/ RefuseMutation(p)
            \/ StampMarker(p) \/ StampFails(p) \/ UpdateRefused(p) \/ Poll(p)
  BY <1>1 DEF JudgeLock, Condemn, At, InitKeepsLock, Goto, BeginMutation, Idle,
              RefuseMutation, StampMarker, StampFails, UpdateRefused, Poll, ScanDone
<1>2. CASE RemoveStaleLock(p)
  <2>1. pc[p] \in StaleChecks /\ AfterStaleCheck(p)
    BY <1>2 DEF RemoveStaleLock, Phases
  <2> QED BY <1>2, <2>1, AdmissionTypes DEF RemoveStaleLock
<1>3. CASE FindNoLock(p)
  BY <1>3, AdmissionTypes DEF FindNoLock
<1>4. CASE Start(p)
  BY <1>4 DEF Start, Goto
<1>5. CASE Crash(p)
  BY <1>5 DEF Crash, Goto
<1>6. CASE CreateMarker(p)
  <2>1. begun[p] + 1 \in 1 .. MaxMutations /\ begun[p] + 1 \in 0 .. MaxMutations
    <3>1. pc[p] = "mark"
      BY <1>6 DEF CreateMarker, At
    <3>2. begun[p] < MaxMutations
      BY <3>1 DEF Closures, ClosuresOf
    <3> QED BY <3>2, MaxMutationsAssumption
  <2>2. <<p, begun[p] + 1>> \in Marker
    BY <2>1
  <2>3. markers' \in SUBSET Marker /\ bare' \in SUBSET Marker
    BY <1>6, <2>2 DEF CreateMarker
  <2>4. begun' \in [Proc -> 0 .. MaxMutations]
    BY <1>6, <2>1 DEF CreateMarker
  <2> QED BY <1>6, <2>3, <2>4 DEF CreateMarker, At, Goto
<1>7. CASE WithdrawMarker(p)
  BY <1>7 DEF WithdrawMarker, At, Goto
<1>8. CASE Finish(p)
  <2>1. PICK n \in 1 .. MaxMutations : Release(p, n)
    BY <1>8 DEF Finish
  <2>2. activeMutations[p] - 1 \in Nat
    BY <2>1, CountSteps DEF Release
  <2> QED BY <2>1, <2>2 DEF Release, Idle, NotifyDrained
<1>9. CASE BeginUpdate(p) \/ TaskReturns(p)
  BY <1>9 DEF BeginUpdate, Idle, Goto, TaskReturns
<1>10. CASE CreateLock(p)
  BY <1>10 DEF CreateLock, At, Goto
<1>11. CASE SignLock(p)
  BY <1>11 DEF SignLock, At, Goto
<1>12. CASE DrainTimeout(p) \/ ExternalTimeout(p) \/ TaskGivesUp(p)
  BY <1>12 DEF DrainTimeout, Idle, Unfreeze, ExternalTimeout, ScanDone, At, Goto, TaskGivesUp
<1>13. CASE ReadMarkerDirectory(p) \/ RunTask(p)
  BY <1>13 DEF ReadMarkerDirectory, Idle, Goto, RunTask, ScanDone, At
<1>14. CASE Scan(p)
  <2>1. PICK m \in Marker : ScanMarker(p, m)
    BY <1>14 DEF Scan
  <2>2. markers' \in SUBSET Marker /\ seen' \in [Proc -> BOOLEAN]
    BY <2>1 DEF ScanMarker
  <2>3. todo' \in [Proc -> SUBSET Marker]
    BY <2>1 DEF ScanMarker
  <2> QED BY <2>1, <2>2, <2>3 DEF ScanMarker
<1> QED BY <1>1, <1>2, <1>3, <1>4, <1>5, <1>6, <1>7, <1>8, <1>9, <1>10, <1>11, <1>12,
           <1>13, <1>14 DEF Step

LEMMA OnlyUpStep ==
  ASSUME IInv, NEW p \in Proc, Step(p)
  PROVE  OnlyUp'
<1> USE DEF IInv, TypeOK, StaleChecks, Marker, LockFile, NoFile, OnlyUp,
            Phases, procVars, mutVars, updVars, scanVars, fileVars
<1>1. CASE JudgeLock(p) \/ InitKeepsLock(p) \/ BeginMutation(p) \/
            RefuseMutation(p) \/ StampMarker(p) \/ StampFails(p) \/ UpdateRefused(p) \/ Poll(p)
  BY <1>1 DEF JudgeLock, Condemn, At, InitKeepsLock, Goto, BeginMutation,
              Idle, RefuseMutation, StampMarker, StampFails, UpdateRefused, Poll, ScanDone
<1>2. CASE RemoveStaleLock(p)
  BY <1>2 DEF RemoveStaleLock, LockInUse, AfterStaleCheck, Admit, Goto
<1>3. CASE FindNoLock(p)
  BY <1>3 DEF FindNoLock, AfterStaleCheck, Admit, Goto
<1>4. CASE Start(p)
  BY <1>4 DEF Start, Goto
<1>5. CASE Crash(p)
  BY <1>5 DEF Crash, Goto
<1>6. CASE CreateMarker(p) \/ WithdrawMarker(p)
  BY <1>6 DEF CreateMarker, At, Goto, WithdrawMarker
<1>7. CASE Finish(p)
  BY <1>7 DEF Finish, Release, Idle, NotifyDrained
<1>8. CASE BeginUpdate(p) \/ CreateLock(p) \/ TaskReturns(p)
  BY <1>8 DEF BeginUpdate, Idle, Goto, CreateLock, At, TaskReturns
<1>9. CASE SignLock(p)
  BY <1>9 DEF SignLock, At, Goto
<1>10. CASE DrainTimeout(p) \/ ExternalTimeout(p) \/ TaskGivesUp(p)
  BY <1>10 DEF DrainTimeout, Idle, Unfreeze, ExternalTimeout, ScanDone, At,
              Goto, TaskGivesUp
<1>11. CASE ReadMarkerDirectory(p)
  BY <1>11 DEF ReadMarkerDirectory, Idle, Goto
<1>12. CASE Scan(p)
  BY <1>12 DEF Scan, ScanMarker, At, MarkerStale, IsStale, DeadOwnerOrAged, MidWrite
<1>13. CASE RunTask(p)
  BY <1>13 DEF RunTask, ScanDone, At, Goto
<1> QED BY <1>1, <1>2, <1>3, <1>4, <1>5, <1>6, <1>7, <1>8, <1>9, <1>10, <1>11,
           <1>12, <1>13 DEF Step

LEMMA PhasesStep ==
  ASSUME IInv, NEW p \in Proc, Step(p)
  PROVE  Phases'
<1> USE DEF IInv, TypeOK, StaleChecks, Marker, LockFile, NoFile, OnlyUp,
            Phases, procVars, mutVars, updVars, scanVars, fileVars
<1>1. CASE JudgeLock(p) \/ InitKeepsLock(p) \/ BeginMutation(p) \/
            RefuseMutation(p) \/ StampMarker(p) \/ StampFails(p) \/ UpdateRefused(p) \/ Poll(p)
  BY <1>1 DEF JudgeLock, Condemn, At, InitKeepsLock, Goto, BeginMutation,
              Idle, RefuseMutation, StampMarker, StampFails, UpdateRefused, Poll, ScanDone
<1>2. CASE RemoveStaleLock(p)
  BY <1>2 DEF RemoveStaleLock, LockInUse, AfterStaleCheck, Admit, Goto
<1>3. CASE FindNoLock(p)
  BY <1>3 DEF FindNoLock, AfterStaleCheck, Admit, Goto
<1>4. CASE Start(p)
  BY <1>4 DEF Start, Goto
<1>5. CASE Crash(p)
  BY <1>5 DEF Crash, Goto
<1>6. CASE CreateMarker(p) \/ WithdrawMarker(p)
  BY <1>6 DEF CreateMarker, At, Goto, WithdrawMarker
<1>7. CASE Finish(p)
  BY <1>7 DEF Finish, Release, Idle, NotifyDrained
<1>8. CASE BeginUpdate(p) \/ CreateLock(p) \/ TaskReturns(p)
  BY <1>8 DEF BeginUpdate, Idle, Goto, CreateLock, At, TaskReturns
<1>9. CASE SignLock(p)
  BY <1>9 DEF SignLock, At, Goto
<1>10. CASE DrainTimeout(p) \/ ExternalTimeout(p) \/ TaskGivesUp(p)
  BY <1>10 DEF DrainTimeout, Idle, Unfreeze, ExternalTimeout, ScanDone, At,
              Goto, TaskGivesUp
<1>11. CASE ReadMarkerDirectory(p)
  BY <1>11 DEF ReadMarkerDirectory, Idle, Goto
<1>12. CASE Scan(p)
  BY <1>12 DEF Scan, ScanMarker, At, MarkerStale, IsStale, DeadOwnerOrAged, MidWrite
<1>13. CASE RunTask(p)
  BY <1>13 DEF RunTask, ScanDone, At, Goto
<1> QED BY <1>1, <1>2, <1>3, <1>4, <1>5, <1>6, <1>7, <1>8, <1>9, <1>10, <1>11,
           <1>12, <1>13 DEF Step

LEMMA AdmissionClosures ==
  ASSUME IInv, NEW p \in Proc, pc[p] \in StaleChecks, AfterStaleCheck(p),
         markers' = markers, bare' = bare
  PROVE  Closures'
<1> USE DEF IInv, TypeOK, StaleChecks, Closures, ClosuresOf, mutVars
<1>1. CASE pc[p] = "recheck"
  <2>1. Admit(p)
    BY <1>1 DEF AfterStaleCheck
  <2>2. begun[p] \notin live[p] /\ <<p, begun[p]>> \in markers \ bare
    BY <1>1
  <2>3. /\ live' = [live EXCEPT ![p] = @ \cup {begun[p]}]
        /\ activeMutations' = [activeMutations EXCEPT ![p] = @ + 1]
        /\ pc' = [pc EXCEPT ![p] = "ready"]
        /\ begun' = begun
    BY <2>1 DEF Admit, Goto
  <2>4. IsFiniteSet(live'[p]) /\ activeMutations'[p] = Cardinality(live'[p])
    <3>1. /\ IsFiniteSet(live[p] \cup {begun[p]})
          /\ Cardinality(live[p] \cup {begun[p]}) = activeMutations[p] + 1
      BY <2>2, CountSteps
    <3>2. live'[p] = live[p] \cup {begun[p]} /\ activeMutations'[p] = activeMutations[p] + 1
      BY <2>3
    <3> QED BY <3>1, <3>2
  <2>5. ClosuresOf(p)'
    BY <2>2, <2>3, <2>4
  <2> QED BY <2>3, <2>5
<1>2. CASE pc[p] # "recheck"
  BY <1>2 DEF AfterStaleCheck, Goto
<1> QED BY <1>1, <1>2

LEMMA ClosuresStep ==
  ASSUME IInv, NEW p \in Proc, Step(p)
  PROVE  Closures'
<1> USE DEF IInv, TypeOK, StaleChecks, Marker, OnlyUp, Phases, Closures, ClosuresOf,
            procVars, mutVars, updVars, scanVars, fileVars
<1>1. CASE JudgeLock(p) \/ InitKeepsLock(p) \/ BeginMutation(p) \/ RefuseMutation(p)
            \/ StampMarker(p) \/ StampFails(p) \/ UpdateRefused(p) \/ Poll(p)
  BY <1>1 DEF JudgeLock, Condemn, At, InitKeepsLock, Goto, BeginMutation, Idle,
              RefuseMutation, StampMarker, StampFails, UpdateRefused, Poll, ScanDone
<1>2. CASE RemoveStaleLock(p) \/ FindNoLock(p)
  <2>1. pc[p] \in StaleChecks /\ AfterStaleCheck(p) /\ UNCHANGED <<markers, bare>>
    BY <1>2 DEF RemoveStaleLock, FindNoLock
  <2> QED BY <2>1, AdmissionClosures
<1>3. CASE Start(p)
  BY <1>3 DEF Start, Goto
<1>4. CASE Crash(p)
  <2>1. IsFiniteSet({}) /\ Cardinality({}) = 0
    BY FS_EmptySet
  <2> QED BY <1>4, <2>1 DEF Crash, Goto
<1>5. CASE CreateMarker(p)
  <2>1. begun[p] < MaxMutations /\ begun[p] \in Nat
    <3>1. pc[p] = "mark" /\ begun[p] \in 0 .. MaxMutations
      BY <1>5 DEF CreateMarker, At
    <3>2. begun[p] < MaxMutations
      BY <3>1
    <3> QED BY <3>1, <3>2, MaxMutationsAssumption
  <2>2. begun[p] + 1 \notin live[p] /\ begun[p] + 1 \in 1 .. MaxMutations
    <3>1. \A n \in live[p] : n \in 1 .. MaxMutations /\ n <= begun[p]
      OBVIOUS
    <3> QED BY <2>1, <3>1, MaxMutationsAssumption
  <2>3. /\ begun' = [begun EXCEPT ![p] = @ + 1]
        /\ markers' = markers \cup {<<p, begun[p] + 1>>}
        /\ bare' = bare \cup {<<p, begun[p] + 1>>}
        /\ pc' = [pc EXCEPT ![p] = "stamp"]
        /\ UNCHANGED <<live, activeMutations>>
    BY <1>5 DEF CreateMarker, Goto
  <2>4. ASSUME NEW n \in live[p]
        PROVE  n <= begun[p] + 1 /\ <<p, n>> \in markers' \ bare'
    <3>1. n \in 1 .. MaxMutations /\ n <= begun[p] /\ <<p, n>> \in markers \ bare
      OBVIOUS
    <3>2. n <= begun[p] + 1
      BY <2>1, <3>1, MaxMutationsAssumption
    <3>3. n # begun[p] + 1
      BY <2>2
    <3> QED BY <2>3, <3>1, <3>2, <3>3
  <2>5. ClosuresOf(p)'
    BY <2>2, <2>3, <2>4
  <2> QED BY <2>3, <2>5
<1>6. CASE WithdrawMarker(p)
  BY <1>6 DEF WithdrawMarker, At, Goto
<1>7. CASE Finish(p)
  <2>1. PICK n \in 1 .. MaxMutations : Release(p, n)
    BY <1>7 DEF Finish
  <2>2. /\ n \in live[p] /\ pc[p] = "ready"
        /\ markers' = markers \ {<<p, n>>}
        /\ live' = [live EXCEPT ![p] = live[p] \ {n}]
        /\ activeMutations' = [activeMutations EXCEPT ![p] = activeMutations[p] - 1]
        /\ UNCHANGED <<pc, begun, bare>>
    BY <2>1 DEF Release, Idle
  <2>3. /\ IsFiniteSet(live[p] \ {n})
        /\ Cardinality(live[p] \ {n}) = activeMutations[p] - 1
    BY <2>2, CountSteps
  <2>4. ClosuresOf(p)'
    BY <2>2, <2>3
  <2> QED BY <2>2, <2>4
<1>8. CASE BeginUpdate(p) \/ CreateLock(p) \/ SignLock(p) \/ TaskReturns(p) \/ RunTask(p)
  BY <1>8 DEF BeginUpdate, Idle, Goto, CreateLock, At, SignLock, TaskReturns, RunTask, ScanDone
<1>9. CASE DrainTimeout(p) \/ ExternalTimeout(p) \/ TaskGivesUp(p)
  BY <1>9 DEF DrainTimeout, Idle, Unfreeze, ExternalTimeout, ScanDone, At, Goto, TaskGivesUp
<1>10. CASE ReadMarkerDirectory(p)
  BY <1>10 DEF ReadMarkerDirectory, Idle, Goto
<1>11. CASE Scan(p)
  BY <1>11 DEF Scan, ScanMarker, At, MarkerStale, IsStale, DeadOwnerOrAged, MidWrite
<1> QED BY <1>1, <1>2, <1>3, <1>4, <1>5, <1>6, <1>7, <1>8, <1>9, <1>10, <1>11 DEF Step

LEMMA OwnedStep ==
  ASSUME IInv, NEW p \in Proc, Step(p)
  PROVE  Owned'
<1> USE DEF IInv, TypeOK, StaleChecks, Marker, LockFile, NoFile, OnlyUp,
            Phases, Owned, procVars, mutVars, updVars, scanVars, fileVars
<1>1. CASE JudgeLock(p) \/ InitKeepsLock(p) \/ BeginMutation(p) \/
            RefuseMutation(p) \/ StampMarker(p) \/ StampFails(p) \/ UpdateRefused(p) \/ Poll(p)
  BY <1>1 DEF JudgeLock, Condemn, At, InitKeepsLock, Goto, BeginMutation,
              Idle, RefuseMutation, StampMarker, StampFails, UpdateRefused, Poll, ScanDone
<1>2. CASE RemoveStaleLock(p)
  BY <1>2 DEF RemoveStaleLock, LockInUse, AfterStaleCheck, Admit, Goto
<1>3. CASE FindNoLock(p)
  BY <1>3 DEF FindNoLock, AfterStaleCheck, Admit, Goto
<1>4. CASE Start(p)
  BY <1>4 DEF Start, Goto
<1>5. CASE Crash(p)
  BY <1>5 DEF Crash, Goto
<1>6. CASE CreateMarker(p) \/ WithdrawMarker(p)
  BY <1>6 DEF CreateMarker, At, Goto, WithdrawMarker
<1>7. CASE Finish(p)
  BY <1>7 DEF Finish, Release, Idle, NotifyDrained
<1>8. CASE BeginUpdate(p) \/ CreateLock(p) \/ TaskReturns(p)
  BY <1>8 DEF BeginUpdate, Idle, Goto, CreateLock, At, TaskReturns
<1>9. CASE SignLock(p)
  BY <1>9 DEF SignLock, At, Goto
<1>10. CASE DrainTimeout(p) \/ ExternalTimeout(p) \/ TaskGivesUp(p)
  BY <1>10 DEF DrainTimeout, Idle, Unfreeze, ExternalTimeout, ScanDone, At,
              Goto, TaskGivesUp
<1>11. CASE ReadMarkerDirectory(p)
  BY <1>11 DEF ReadMarkerDirectory, Idle, Goto
<1>12. CASE Scan(p)
  BY <1>12 DEF Scan, ScanMarker, At, MarkerStale, IsStale, DeadOwnerOrAged, MidWrite
<1>13. CASE RunTask(p)
  BY <1>13 DEF RunTask, ScanDone, At, Goto
<1> QED BY <1>1, <1>2, <1>3, <1>4, <1>5, <1>6, <1>7, <1>8, <1>9, <1>10, <1>11,
           <1>12, <1>13 DEF Step

LEMMA ScanAheadStep ==
  ASSUME IInv, NEW p \in Proc, Step(p)
  PROVE  ScanAhead'
<1> USE DEF IInv, TypeOK, StaleChecks, Marker, LockFile, NoFile, OnlyUp,
            Phases, Closures, ClosuresOf, Owned, ScanAhead, procVars, mutVars, updVars,
            scanVars, fileVars
<1>1. CASE JudgeLock(p) \/ InitKeepsLock(p) \/ BeginMutation(p) \/
            RefuseMutation(p) \/ StampMarker(p) \/ StampFails(p) \/ UpdateRefused(p) \/ Poll(p)
  BY <1>1 DEF JudgeLock, Condemn, At, InitKeepsLock, Goto, BeginMutation,
              Idle, RefuseMutation, StampMarker, StampFails, UpdateRefused, Poll, ScanDone
<1>2. CASE RemoveStaleLock(p)
  BY <1>2 DEF RemoveStaleLock, LockInUse, AfterStaleCheck, Admit, Goto
<1>3. CASE FindNoLock(p)
  BY <1>3 DEF FindNoLock, AfterStaleCheck, Admit, Goto
<1>4. CASE Start(p)
  BY <1>4 DEF Start, Goto
<1>5. CASE Crash(p)
  BY <1>5 DEF Crash, Goto
<1>6. CASE CreateMarker(p) \/ WithdrawMarker(p)
  BY <1>6 DEF CreateMarker, At, Goto, WithdrawMarker
<1>7. CASE Finish(p)
  BY <1>7 DEF Finish, Release, Idle, NotifyDrained
<1>8. CASE BeginUpdate(p) \/ CreateLock(p) \/ TaskReturns(p)
  BY <1>8 DEF BeginUpdate, Idle, Goto, CreateLock, At, TaskReturns
<1>9. CASE SignLock(p)
  BY <1>9 DEF SignLock, At, Goto
<1>10. CASE DrainTimeout(p) \/ ExternalTimeout(p) \/ TaskGivesUp(p)
  BY <1>10 DEF DrainTimeout, Idle, Unfreeze, ExternalTimeout, ScanDone, At,
              Goto, TaskGivesUp
<1>11. CASE ReadMarkerDirectory(p)
  <2>1. todo' = [todo EXCEPT ![p] = markers] /\ live' = live /\ stolen' = stolen
    BY <1>11 DEF ReadMarkerDirectory
  <2>2. \A r \in Proc : pc'[r] = "scan" /\ ~ seen'[r] => r = p \/ (pc[r] = "scan" /\ ~ seen[r])
    BY <1>11 DEF ReadMarkerDirectory, Goto
  <2>3. \A q \in Proc : \A n \in live[q] : <<q, n>> \in markers
    OBVIOUS
  <2> QED BY <2>1, <2>2, <2>3
<1>12. CASE Scan(p)
  <2>1. PICK m \in Marker : ScanMarker(p, m)
    BY <1>12 DEF Scan
  <2>2. /\ UNCHANGED <<pc, live, stolen>>
        /\ todo' = [todo EXCEPT ![p] = todo[p] \ {m}]
        /\ \A r \in Proc : seen[r] => seen'[r]
    BY <2>1 DEF ScanMarker
  <2>3. ASSUME NEW q \in Proc, NEW n \in live[q], m = <<q, n>> PROVE seen'[p]
    <3>1. m \in markers /\ life[q] = "up"
      BY <2>3
    <3>2. \A aged \in BOOLEAN : ~ MarkerStale(m, aged)
      BY <2>3, <3>1 DEF MarkerStale, IsStale, DeadOwnerOrAged, MidWrite
    <3> QED BY <2>1, <3>1, <3>2 DEF ScanMarker
  <2> QED BY <2>2, <2>3
<1>13. CASE RunTask(p)
  BY <1>13 DEF RunTask, ScanDone, At, Goto
<1> QED BY <1>1, <1>2, <1>3, <1>4, <1>5, <1>6, <1>7, <1>8, <1>9, <1>10, <1>11,
           <1>12, <1>13 DEF Step

LEMMA DrainStep ==
  ASSUME IInv, NEW p \in Proc, Step(p)
  PROVE  OwnWritesDrained'
<1> USE DEF IInv, TypeOK, StaleChecks, Marker, LockFile, NoFile, OnlyUp,
            Phases, Closures, ClosuresOf, OwnWritesDrained, procVars, mutVars, updVars,
            scanVars, fileVars
<1>1. CASE JudgeLock(p) \/ InitKeepsLock(p) \/ BeginMutation(p) \/
            RefuseMutation(p) \/ StampMarker(p) \/ StampFails(p) \/ UpdateRefused(p) \/ Poll(p)
  BY <1>1 DEF JudgeLock, Condemn, At, InitKeepsLock, Goto, BeginMutation,
              Idle, RefuseMutation, StampMarker, StampFails, UpdateRefused, Poll, ScanDone
<1>2. CASE RemoveStaleLock(p)
  BY <1>2 DEF RemoveStaleLock, LockInUse, AfterStaleCheck, Admit, Goto
<1>3. CASE FindNoLock(p)
  BY <1>3 DEF FindNoLock, AfterStaleCheck, Admit, Goto
<1>4. CASE Start(p)
  BY <1>4 DEF Start, Goto
<1>5. CASE Crash(p)
  BY <1>5 DEF Crash, Goto
<1>6. CASE CreateMarker(p) \/ WithdrawMarker(p)
  BY <1>6 DEF CreateMarker, At, Goto, WithdrawMarker
<1>7. CASE Finish(p)
  <2>1. PICK n \in 1 .. MaxMutations : Release(p, n)
    BY <1>7 DEF Finish
  <2>2. activeMutations[p] - 1 = 0 => live[p] \ {n} = {}
    <3>1. n \in live[p]
      BY <2>1 DEF Release
    <3>2. /\ IsFiniteSet(live[p] \ {n})
          /\ Cardinality(live[p] \ {n}) = activeMutations[p] - 1
      BY <3>1, CountSteps
    <3> QED BY <3>2, FS_EmptySet
  <2> QED BY <2>1, <2>2 DEF Release, Idle, NotifyDrained
<1>8. CASE BeginUpdate(p) \/ CreateLock(p) \/ TaskReturns(p)
  BY <1>8 DEF BeginUpdate, Idle, Goto, CreateLock, At, TaskReturns
<1>9. CASE SignLock(p)
  <2>1. activeMutations[p] = 0 => live[p] = {}
    BY CountSteps
  <2> QED BY <1>9, <2>1 DEF SignLock, At, Goto
<1>10. CASE DrainTimeout(p) \/ ExternalTimeout(p) \/ TaskGivesUp(p)
  BY <1>10 DEF DrainTimeout, Idle, Unfreeze, ExternalTimeout, ScanDone, At,
              Goto, TaskGivesUp
<1>11. CASE ReadMarkerDirectory(p)
  BY <1>11 DEF ReadMarkerDirectory, Idle, Goto
<1>12. CASE Scan(p)
  BY <1>12 DEF Scan, ScanMarker, At, MarkerStale, IsStale, DeadOwnerOrAged, MidWrite
<1>13. CASE RunTask(p)
  BY <1>13 DEF RunTask, ScanDone, At, Goto
<1> QED BY <1>1, <1>2, <1>3, <1>4, <1>5, <1>6, <1>7, <1>8, <1>9, <1>10, <1>11,
           <1>12, <1>13 DEF Step

LEMMA ExclusionStep ==
  ASSUME IInv, NEW p \in Proc, Step(p)
  PROVE  WritesExcluded'
<1> USE DEF IInv, TypeOK, StaleChecks, Marker, LockFile, NoFile, OnlyUp,
            Phases, Closures, ClosuresOf, Owned, ScanAhead, OwnWritesDrained,
            WritesExcluded, Updating, procVars, mutVars, updVars, scanVars,
            fileVars
<1>1. CASE JudgeLock(p) \/ InitKeepsLock(p) \/ BeginMutation(p) \/
            RefuseMutation(p) \/ StampMarker(p) \/ StampFails(p) \/ UpdateRefused(p) \/ Poll(p)
  BY <1>1 DEF JudgeLock, Condemn, At, InitKeepsLock, Goto, BeginMutation,
              Idle, RefuseMutation, StampMarker, StampFails, UpdateRefused, Poll, ScanDone
<1>2. CASE RemoveStaleLock(p)
  BY <1>2 DEF RemoveStaleLock, LockInUse, AfterStaleCheck, Admit, Goto
<1>3. CASE FindNoLock(p)
  BY <1>3 DEF FindNoLock, AfterStaleCheck, Admit, Goto
<1>4. CASE Start(p)
  BY <1>4 DEF Start, Goto
<1>5. CASE Crash(p)
  BY <1>5 DEF Crash, Goto
<1>6. CASE CreateMarker(p) \/ WithdrawMarker(p)
  BY <1>6 DEF CreateMarker, At, Goto, WithdrawMarker
<1>7. CASE Finish(p)
  BY <1>7 DEF Finish, Release, Idle, NotifyDrained
<1>8. CASE BeginUpdate(p) \/ CreateLock(p) \/ TaskReturns(p)
  BY <1>8 DEF BeginUpdate, Idle, Goto, CreateLock, At, TaskReturns
<1>9. CASE SignLock(p)
  BY <1>9 DEF SignLock, At, Goto
<1>10. CASE DrainTimeout(p) \/ ExternalTimeout(p) \/ TaskGivesUp(p)
  BY <1>10 DEF DrainTimeout, Idle, Unfreeze, ExternalTimeout, ScanDone, At,
              Goto, TaskGivesUp
<1>11. CASE ReadMarkerDirectory(p)
  BY <1>11 DEF ReadMarkerDirectory, Idle, Goto
<1>12. CASE Scan(p)
  BY <1>12 DEF Scan, ScanMarker, At, MarkerStale, IsStale, DeadOwnerOrAged, MidWrite
<1>13. CASE RunTask(p)
  BY <1>13 DEF RunTask, ScanDone, At, Goto
<1> QED BY <1>1, <1>2, <1>3, <1>4, <1>5, <1>6, <1>7, <1>8, <1>9, <1>10, <1>11,
           <1>12, <1>13 DEF Step

----------------------------------------------------------------------------
LEMMA InvariantInit == Init => IInv
<1> SUFFICES ASSUME Init PROVE IInv
  OBVIOUS
<1>1. TypeOK
  <2>1. 0 \in 0 .. MaxMutations
    BY MaxMutationsAssumption
  <2> QED BY <2>1 DEF Init, TypeOK, StaleChecks, NoFile
<1>2. OnlyUp /\ Phases /\ Owned /\ ScanAhead /\ OwnWritesDrained /\ WritesExcluded
  BY DEF Init, OnlyUp, Phases, Owned, ScanAhead, OwnWritesDrained, WritesExcluded, Updating
<1>3. Closures
  BY FS_EmptySet DEF Init, Closures, ClosuresOf
<1> QED BY <1>1, <1>2, <1>3 DEF IInv

LEMMA InvariantStep == IInv /\ [Next]_vars => IInv'
<1> SUFFICES ASSUME IInv, [Next]_vars PROVE IInv'
  OBVIOUS
<1>1. CASE Next
  <2>1. PICK p \in Proc : Step(p)
    BY <1>1 DEF Next
  <2> QED BY <2>1, TypeStep, OnlyUpStep, PhasesStep, ClosuresStep, OwnedStep,
             ScanAheadStep, DrainStep, ExclusionStep DEF IInv
<1>2. CASE UNCHANGED vars
  BY <1>2 DEF vars, procVars, mutVars, updVars, scanVars, fileVars, IInv, TypeOK, OnlyUp,
              Phases, Closures, ClosuresOf, Owned, ScanAhead, OwnWritesDrained, WritesExcluded, Updating
<1> QED BY <1>1, <1>2

THEOREM Invariance == Spec => []IInv
<1> QED BY InvariantInit, InvariantStep, PTL DEF Spec

(* Every variable keeps its type; in particular activeMutations, which      *)
(* releases decrement, never goes below zero.                              *)
THEOREM TypeCorrect == Spec => []TypeOK
<1>1. IInv => TypeOK
  BY DEF IInv
<1> QED BY <1>1, Invariance, PTL

(* The exclusion the barrier exists for: while no live lock has been        *)
(* removed by the race of removeIfStale, an update task (or the installer   *)
(* it launched) never runs beside a mutation of any process.               *)
THEOREM UpdateExcludesWrites == Spec => []WritesExcluded
<1>1. IInv => WritesExcluded
  BY DEF IInv
<1> QED BY <1>1, Invariance, PTL

(* At most one process is past acquireUpdateLock, under the same condition. *)
THEOREM UpdateExcludesUpdate == Spec => []OneUpdater
<1>1. IInv => OneUpdater
  BY DEF IInv, Owned, OneUpdater
<1> QED BY <1>1, Invariance, PTL

(* Unconditionally: the marker of a running mutation is never removed.      *)
THEOREM MarkersSurvive == Spec => []RunningMutationIsMarked
<1>1. IInv => RunningMutationIsMarked
  BY DEF IInv, Closures, ClosuresOf, RunningMutationIsMarked
<1> QED BY <1>1, Invariance, PTL

(* Unconditionally: waitForDrain ends only after the last release of its    *)
(* own process.                                                            *)
THEOREM DrainIsComplete == Spec => []OwnWritesDrained
<1>1. IInv => OwnWritesDrained
  BY DEF IInv
<1> QED BY <1>1, Invariance, PTL
============================================================================
