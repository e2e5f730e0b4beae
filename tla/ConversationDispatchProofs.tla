--------------------- MODULE ConversationDispatchProofs ---------------------
(***************************************************************************)
(* Proofs about ConversationDispatch, for any number of instructions,      *)
(* sources, runs, faults and edits.                                        *)
(*                                                                         *)
(* First the service: it never lets two agents work in the conversation at *)
(* a time, and never runs one source twice, as long as no two starts meet  *)
(* inside it.  What the window does with its queue is of no account there: *)
(* a request may come for any source at any time.  Its invariant, IInv, is *)
(* Typed, what the service's state looks like; Kept, whatever was started  *)
(* has a record, in the file and, while its agent is there, in memory;     *)
(* Alone, what the one start inside the service may rely on.               *)
(*                                                                         *)
(* Then the window with it: no instruction is forgotten, and none is given *)
(* to an agent twice that is not excused.  The lists the queue becomes are *)
(* described by what is in them; the invariant, QInv, says to which        *)
(* instruction each source belongs, where each instruction is, and what    *)
(* there can still be in the service for it, whichever window sent it.     *)
(***************************************************************************)
EXTENDS ConversationDispatch, FiniteSetTheorems, SequenceTheorems, TLAPS

(* What the service's variables hold, and what reaches it from the window: *)
(* the source of a gate that is about to ask and of the cards it watches.  *)
Counted == DOMAIN used = Counters /\ used.runs \in Nat /\ used.closes \in Nat
Gated ==
  /\ DOMAIN gate = {"id", "source", "queued", "phase"}
  /\ gate.source \in {0} \cup Sources /\ (gate.phase = "claimed" => gate.source # 0)
Carded == cards \subseteq Cards /\ saved.cards \subseteq Cards
Served ==
  /\ starts \subseteq [source : Sources, era : Nat, step : {"reading", "absent", "found"}]
  /\ mem \in [Sources -> Records] /\ disk \in [Sources -> Records]
  /\ live \subseteq [source : Sources, run : 1 .. MaxRuns]
  /\ \A g \in given : g.source \in {0} \cup Sources
Typed == Counted /\ Gated /\ Carded /\ Served

(* A record outlives its run: what was given as a start is on file, and an *)
(* agent that has not left has its entry in memory too.                    *)
Kept ==
  /\ \A r \in live : r.run <= used.runs /\ disk[r.source] # NoRecord /\ mem[r.source] # NoRecord
  /\ \A g \in given : g.source # 0 => disk[g.source] # NoRecord

(* Without a meeting there is one start at most, and nobody writes the     *)
(* record between its reading and its end; memory agrees with the file;    *)
(* an agent at work has the lane, and no start gets past it.               *)
Alone ==
  /\ \A a, b \in starts : a = b
  /\ \A a \in starts : a.step = "absent" => disk[a.source] = NoRecord
  /\ \A s \in Sources : mem[s] \in {NoRecord, disk[s]}
  /\ \A p, q \in live : p.source = q.source => p = q
  /\ \A r \in live : AtWork(r) => lane = r.source /\ starts = {}
  /\ \A a, b \in given : a.source = b.source /\ a.source # 0 => a = b

IInv == Typed /\ Kept /\ (~ crossed => Alone)

----------------------------------------------------------------------------
(* The window's actions and the service's variables                        *)

(* The part of the state the service's invariant is about stays as it is.  *)
Idle ==
  /\ UNCHANGED <<starts, mem, disk, lane, live, given, crossed>>
  /\ DOMAIN used' = Counters /\ used'.runs = used.runs /\ used'.closes \in Nat

LEMMA IdleServed == ASSUME Typed, Idle PROVE Served' /\ Counted'
  BY DEF Typed, Served, Idle, Counted, Records

LEMMA IdleKept == ASSUME Kept, Idle PROVE Kept'
  BY DEF Kept, Idle

LEMMA IdleAlone == ASSUME Alone, Idle PROVE Alone'
  BY DEF Alone, Idle, AtWork

(* Counting what is neither a run nor the end of a window.                 *)
LEMMA SpendOther ==
  ASSUME Counted, NEW what \in Counters \ {"runs", "closes"}, Spend(what)
  PROVE  DOMAIN used' = Counters /\ used'.runs = used.runs /\ used'.closes \in Nat
  BY DEF Counted, Spend

(* A dispatch draws or keeps a source, and has a card for it.              *)
LEMMA BeginTyped ==
  ASSUME Typed, NEW item, NEW queued, BeginDispatch(item, queued), saved' = saved
  PROVE  /\ Gated' /\ Carded'
         /\ DOMAIN used' = Counters /\ used'.runs = used.runs /\ used'.closes \in Nat
<1> DEFINE source == SourceFor(item)
<1>1. /\ source \in Sources
      /\ gate' = [id |-> item.id, source |-> source, queued |-> queued, phase |-> "claimed"]
      /\ cards' = cards \cup {[source |-> source, known |-> FALSE, busy |-> TRUE]}
      /\ used' = [used EXCEPT !.sources = IF source > @ THEN source ELSE @,
                              !.sent = IF item.id > @ THEN item.id ELSE @]
  BY DEF BeginDispatch
<1> HIDE DEF source
<1>2. Gated'
  BY <1>1 DEF Gated, Sources
<1>3. [source |-> source, known |-> FALSE, busy |-> TRUE] \in Cards
  BY <1>1 DEF Cards
<1>4. Carded'
  BY <1>1, <1>3 DEF Carded, Typed
<1>5. DOMAIN used' = Counters /\ used'.runs = used.runs /\ used'.closes = used.closes
  BY <1>1 DEF Counted, Typed, Counters
<1> QED  BY <1>2, <1>4, <1>5 DEF Typed, Counted

LEMMA SubmitTyped == ASSUME Typed, Submit PROVE Gated' /\ Carded' /\ Idle
<1> DEFINE item == [id |-> Count("sent"), state |-> "queued", source |-> 0]
<1>1. CASE BeginDispatch(item, FALSE)
  BY <1>1, BeginTyped DEF Submit, Idle, service
<1>2. CASE Spend("sent") /\ UNCHANGED <<gate, cards>>
  BY <1>2, SpendOther DEF Submit, Idle, service, Typed, Gated, Carded, Counters
<1> QED  BY <1>1, <1>2 DEF Submit

LEMMA DrainTyped == ASSUME Typed, DrainQueue PROVE Gated' /\ Carded' /\ Idle
<1> DEFINE k == CHOOSE j \in Ready : \A i \in Ready : j <= i
<1>1. CASE BeginDispatch(queue[k], TRUE)
  BY <1>1, BeginTyped DEF DrainQueue, Idle, service
<1>2. CASE UNCHANGED <<gate, cards, used>>
  BY <1>2 DEF DrainQueue, Idle, service, Typed, Gated, Carded, Counted
<1> QED  BY <1>1, <1>2 DEF DrainQueue

(* The window's other steps.                                               *)
LEMMA WindowTyped ==
  ASSUME Typed,
         \/ LoseAnswer \/ Started \/ NotStarted \/ ReleaseGate \/ Supplemented
         \/ Save \/ Open \/ Startup
         \/ \E id \in Ids : BeginEdit(id) \/ SendEdited(id) \/ Delete(id) \/ Supplement(id)
         \/ \E s \in marked : Reconcile(s)
  PROVE  Gated' /\ Carded' /\ Idle
<1>1. ASSUME UNCHANGED used PROVE DOMAIN used' = Counters /\ used'.runs = used.runs /\ used'.closes \in Nat
  BY <1>1 DEF Typed, Counted
<1>2. ASSUME UNCHANGED <<gate, cards, saved>> PROVE Gated' /\ Carded'
  BY <1>2 DEF Typed, Gated, Carded
<1>3. ASSUME gate' = NoGate PROVE Gated'
  BY <1>3 DEF Gated, NoGate
<1>4. CASE LoseAnswer
  <2>1. Gated'
    BY <1>4 DEF LoseAnswer, Typed, Gated
  <2> QED  BY <1>4, <2>1, SpendOther DEF LoseAnswer, Typed, Carded, Idle, service, ghosts, Counters
<1>5. CASE Started
  <2>1. Gated'
    BY <1>5 DEF Started, Typed, Gated
  <2>2. \A c \in Cards : [c EXCEPT !.known = TRUE] \in Cards
    BY DEF Cards
  <2>3. Carded'
    BY <1>5, <2>2 DEF Started, Typed, Carded
  <2> QED  BY <1>1, <1>5, <2>1, <2>3 DEF Started, Idle, service, ghosts
<1>6. CASE NotStarted
  BY <1>1, <1>3, <1>6 DEF NotStarted, Typed, Carded, Idle, service
<1>7. CASE ReleaseGate
  BY <1>1, <1>3, <1>7 DEF ReleaseGate, Typed, Carded, Idle, service, ghosts
<1>8. CASE Supplemented
  BY <1>1, <1>2, <1>8 DEF Supplemented, Idle, service, ghosts
<1>9. CASE Save
  <2>1. Carded' /\ Gated'
    BY <1>9 DEF Save, view, Typed, Carded, Gated
  <2> QED  BY <1>1, <1>9, <2>1 DEF Save, ghosts, Idle, service
<1>10. CASE Open
  <2>1. Carded' /\ Gated'
    BY <1>10 DEF Open, Typed, Carded, Gated
  <2> QED  BY <1>1, <1>10, <2>1 DEF Open, ghosts, Idle, service
<1>11. CASE Startup
  BY <1>1, <1>2, <1>11 DEF Startup, ghosts, Idle, service
<1>12. ASSUME NEW id \in Ids, BeginEdit(id) PROVE Gated' /\ Carded' /\ Idle
  BY <1>2, <1>12, SpendOther DEF BeginEdit, ghosts, Idle, service, Typed, Counters
<1>13. ASSUME NEW id \in Ids, SendEdited(id) PROVE Gated' /\ Carded' /\ Idle
  BY <1>1, <1>2, <1>13 DEF SendEdited, ghosts, Idle, service
<1>14. ASSUME NEW id \in Ids, Delete(id) PROVE Gated' /\ Carded' /\ Idle
  BY <1>2, <1>14, SpendOther DEF Delete, Idle, service, Typed, Counters
<1>15. ASSUME NEW id \in Ids, Supplement(id) PROVE Gated' /\ Carded' /\ Idle
  BY <1>2, <1>15, SpendOther DEF Supplement, ghosts, Idle, service, Typed, Counters
<1>16. ASSUME NEW s \in marked, Reconcile(s) PROVE Gated' /\ Carded' /\ Idle
  <2>1. \A c \in Cards : [c EXCEPT !.busy = FALSE] \in Cards
    BY DEF Cards
  <2>2. Carded' /\ Gated'
    BY <1>16, <2>1 DEF Reconcile, Typed, Carded, Gated
  <2> QED  BY <1>1, <1>16, <2>2 DEF Reconcile, ghosts, Idle, service
<1> QED  BY <1>4, <1>5, <1>6, <1>7, <1>8, <1>9, <1>10, <1>11, <1>12, <1>13, <1>14, <1>15, <1>16

(* The end of a window counts, and leaves the service as it is.            *)
LEMMA CloseTyped == ASSUME Typed, Close PROVE Gated' /\ Carded' /\ Idle
<1>1. Gated'
  BY DEF Close, Gated, NoGate
<1>2. Carded'
  BY DEF Close, Typed, Carded
<1>3. DOMAIN used' = Counters /\ used'.runs = used.runs /\ used'.closes \in Nat
  BY DEF Close, Spend, Typed, Counted, Counters
<1> QED  BY <1>1, <1>2, <1>3 DEF Close, Idle, service

----------------------------------------------------------------------------
(* The actions that change the service's variables: what they hold         *)

LEMMA Bounds == MaxRuns \in Nat
  BY DispatchAssumption

LEMMA RecordValues ==
  /\ NoRecord \in Records
  /\ \A s \in Sources : Typed => FromFile(s) \in Records /\ Restored(s) \in Records
<1>1. NoRecord \in Records
  BY Bounds DEF NoRecord, Records
<1>2. [status |-> "interrupted", run |-> 0] \in Records
  BY Bounds DEF Records
<1> QED  BY <1>1, <1>2 DEF Typed, Served, FromFile, Restored

LEMMA RequestTyped == ASSUME Typed, Request PROVE Typed'
<1> DEFINE s == gate.source
           known == IF mem[s] = NoRecord THEN "reading" ELSE "found"
           start == [source |-> s, era |-> Era, step |-> known]
<1>1. s \in Sources /\ Era \in Nat
  BY DEF Request, Typed, Gated, Counted, Era
<1>2. start \in [source : Sources, era : Nat, step : {"reading", "absent", "found"}]
  BY <1>1
<1>3. starts' = starts \/ starts' = starts \cup {start}
  BY DEF Request
<1>4. UNCHANGED <<mem, disk, live, given, used, cards, saved>>
  BY DEF Request
<1>5. Served'
  BY <1>2, <1>3, <1>4 DEF Typed, Served, Records
<1>6. \E answer \in {"refused", "accepted", "waiting"} : Answer(Era, answer)
  BY DEF Request
<1>7. Gated'
  BY <1>6 DEF Answer, Typed, Gated
<1> QED  BY <1>4, <1>5, <1>7 DEF Typed, Carded, Counted

LEMMA ReadTyped == ASSUME Typed, NEW start \in starts, ReadRecord(start) PROVE Typed'
<1> DEFINE s == start.source
<1>1. s \in Sources /\ FromFile(s) \in Records
  BY RecordValues DEF Typed, Served
<1>2. mem' \in [Sources -> Records] /\ disk' \in [Sources -> Records]
  BY <1>1 DEF ReadRecord, Typed, Served
<1>3. \A to \in {"absent", "found"} :
        [start EXCEPT !.step = to] \in [source : Sources, era : Nat, step : {"reading", "absent", "found"}]
  BY DEF Typed, Served
<1>4. starts' \subseteq [source : Sources, era : Nat, step : {"reading", "absent", "found"}]
  BY <1>3 DEF ReadRecord, Typed, Served
<1>5. Served'
  BY <1>2, <1>4 DEF ReadRecord, Typed, Served, ghosts
<1> QED  BY <1>5 DEF ReadRecord, Typed, Gated, Carded, Counted, view

LEMMA EndTyped == ASSUME Typed, NEW start \in starts, EndStart(start) PROVE Typed'
<1> DEFINE s == start.source  n == Count("runs")
<1>1. s \in Sources /\ n \in Nat \ {0}
  BY DEF Typed, Served, Counted, Count
<1>2. Gated'
  BY DEF EndStart, Answer, Typed, Gated
<1>3. Carded'
  BY DEF EndStart, Typed, Carded
<1>4. CASE UNCHANGED <<mem, disk, live, given, used>>
  BY <1>2, <1>3, <1>4 DEF EndStart, Typed, Served, Counted, Records
<1>5. CASE /\ n <= MaxRuns /\ Spend("runs") /\ live' = live \cup {[source |-> s, run |-> n]}
           /\ mem' = [mem EXCEPT ![s] = [status |-> "running", run |-> n]]
           /\ disk' = [disk EXCEPT ![s] = mem'[s]]
           /\ given' = given \cup {[id |-> owner[s], source |-> s, run |-> n]}
  <2>1. n \in 1 .. MaxRuns /\ [status |-> "running", run |-> n] \in Records
    BY <1>1, <1>5, Bounds DEF Records
  <2>2. mem' \in [Sources -> Records] /\ mem'[s] = [status |-> "running", run |-> n]
    BY <1>1, <1>5, <2>1 DEF Typed, Served
  <2>3. disk' \in [Sources -> Records]
    BY <1>1, <1>5, <2>1, <2>2 DEF Typed, Served
  <2>4. Served'
    BY <1>1, <1>5, <2>1, <2>2, <2>3 DEF EndStart, Typed, Served
  <2>5. Counted'
    BY <1>5 DEF Spend, Typed, Counted
  <2> QED  BY <1>2, <1>3, <2>4, <2>5 DEF Typed
<1> QED  BY <1>4, <1>5 DEF EndStart

LEMMA RunTyped == ASSUME Typed, NEW r \in live, EndRun(r) \/ LeaveLane(r) PROVE Typed'
<1>1. r.source \in Sources
  BY DEF Typed, Served
<1>2. CASE EndRun(r)
  <2>1. \A record \in Records : [record EXCEPT !.status = "ended"] \in Records
    BY DEF Records
  <2>2. mem' \in [Sources -> Records] /\ disk' \in [Sources -> Records]
    BY <1>1, <1>2, <2>1 DEF EndRun, Typed, Served
  <2>3. Served'
    BY <1>2, <2>2 DEF EndRun, Typed, Served, ghosts
  <2> QED  BY <1>2, <2>3 DEF EndRun, Typed, Gated, Carded, Counted, view
<1>3. CASE LeaveLane(r)
  <2>1. Served'
    BY <1>3 DEF LeaveLane, Typed, Served, ghosts
  <2> QED  BY <1>3, <2>1 DEF LeaveLane, Typed, Gated, Carded, Counted, view
<1> QED  BY <1>2, <1>3

LEMMA RestartTyped == ASSUME Typed, Restart PROVE Typed'
<1>1. Counted'
  BY SpendOther DEF Restart, Typed, Counters, Counted
<1>2. Gated' /\ Carded'
  BY DEF Restart, Typed, Gated, Carded
<1>3. Served'
  BY RecordValues DEF Restart, Typed, Served, ghosts
<1> QED  BY <1>1, <1>2, <1>3 DEF Typed

LEMMA WatchTyped == ASSUME Typed, NEW c \in cards, WatchEnds(c) PROVE Typed'
<1>1. c.source \in Sources
  BY DEF Typed, Carded, Cards
<1>2. Restored(c.source) \in Records
  BY <1>1, RecordValues
<1>3. Served'
  BY <1>1, <1>2 DEF WatchEnds, Typed, Served, ghosts
<1>4. Gated'
  BY DEF WatchEnds, Typed, Gated
<1> QED  BY <1>3, <1>4 DEF WatchEnds, Typed, Carded, Counted

LEMMA TakeTyped == ASSUME Typed, TakeSupplement PROVE Typed'
<1>1. Gated' /\ Carded'
  BY DEF TakeSupplement, Typed, Gated, Carded
<1>2. CASE Spend("runs") /\ \E n : given' = given \cup {[id |-> supp.id, source |-> 0, run |-> n]}
  <2>1. Counted'
    BY <1>2 DEF Typed, Counted, Spend
  <2>2. Served'
    BY <1>2 DEF TakeSupplement, Typed, Served, service
  <2> QED  BY <1>1, <2>1, <2>2 DEF Typed
<1>3. CASE UNCHANGED <<given, used>>
  BY <1>1, <1>3 DEF TakeSupplement, Typed, Counted, Served, service
<1> QED  BY <1>2, <1>3 DEF TakeSupplement

----------------------------------------------------------------------------
(* Whatever was started has a record                                       *)

\* What counts as a run that was there is not the absence of a record.
LEMMA NotAbsent ==
  /\ \A record : Terminal(record) => record # NoRecord
  /\ \A s \in Sources : Typed /\ disk[s] # NoRecord => FromFile(s) # NoRecord
  BY DEF Terminal, NoRecord, FromFile

LEMMA RequestKept == ASSUME Kept, Request PROVE Kept'
  BY DEF Request, Kept

LEMMA ReadKept == ASSUME Typed, Kept, NEW start \in starts, ReadRecord(start) PROVE Kept'
<1> DEFINE s == start.source
<1>1. s \in Sources
  BY DEF Typed, Served
<1>2. UNCHANGED <<live, given, used>>
  BY DEF ReadRecord, ghosts
<1>3. \A x \in Sources : disk[x] # NoRecord => disk'[x] # NoRecord
  BY <1>1, NotAbsent DEF ReadRecord, Typed, Served
<1>4. \A x \in Sources : disk[x] # NoRecord /\ mem[x] # NoRecord => mem'[x] # NoRecord
  BY <1>1, NotAbsent DEF ReadRecord, Typed, Served
<1> QED  BY <1>2, <1>3, <1>4 DEF Kept, Typed, Served

LEMMA EndStartKept == ASSUME Typed, Kept, NEW start \in starts, EndStart(start) PROVE Kept'
<1> DEFINE s == start.source  n == Count("runs")
<1>1. s \in Sources /\ n \in Nat /\ n = used.runs + 1
  BY DEF Typed, Served, Counted, Count
<1>2. CASE UNCHANGED <<mem, disk, live, given, used>>
  BY <1>2 DEF Kept
<1>3. CASE /\ n <= MaxRuns /\ Spend("runs") /\ live' = live \cup {[source |-> s, run |-> n]}
           /\ mem' = [mem EXCEPT ![s] = [status |-> "running", run |-> n]]
           /\ disk' = [disk EXCEPT ![s] = mem'[s]]
           /\ given' = given \cup {[id |-> owner[s], source |-> s, run |-> n]}
  <2>1. mem'[s] = [status |-> "running", run |-> n] /\ disk'[s] = mem'[s] /\ mem'[s] # NoRecord
    BY <1>1, <1>3 DEF Typed, Served, NoRecord
  <2>2. \A x \in Sources : x # s => mem'[x] = mem[x] /\ disk'[x] = disk[x]
    BY <1>1, <1>3 DEF Typed, Served
  <2>3. used'.runs = n
    BY <1>1, <1>3 DEF Spend, Typed, Counted, Counters
  <2>4. \A r \in live : r.source \in Sources /\ r.run \in Nat
    BY Bounds DEF Typed, Served
  <2>5. \A r \in live' : r.run <= used'.runs /\ disk'[r.source] # NoRecord /\ mem'[r.source] # NoRecord
    BY <1>1, <1>3, <2>1, <2>2, <2>3, <2>4 DEF Kept, Typed, Counted
  <2>6. \A g \in given' : g.source # 0 => disk'[g.source] # NoRecord
    BY <1>1, <1>3, <2>1, <2>2 DEF Kept, Typed, Served
  <2> QED  BY <2>5, <2>6 DEF Kept
<1> QED  BY <1>2, <1>3 DEF EndStart

LEMMA RunKept == ASSUME Typed, Kept, NEW r \in live, EndRun(r) \/ LeaveLane(r) PROVE Kept'
<1>1. r.source \in Sources
  BY DEF Typed, Served
<1>2. CASE EndRun(r)
  <2>1. \A record \in Records : [record EXCEPT !.status = "ended"] # NoRecord
    BY DEF Records, NoRecord
  <2>2. \A x \in Sources : /\ disk[x] # NoRecord => disk'[x] # NoRecord
                           /\ mem[x] # NoRecord => mem'[x] # NoRecord
    BY <1>1, <1>2, <2>1 DEF EndRun, Typed, Served
  <2> QED  BY <1>2, <2>2 DEF EndRun, Kept, Typed, Served, ghosts
<1>3. CASE LeaveLane(r)
  BY <1>3 DEF LeaveLane, Kept, ghosts
<1> QED  BY <1>2, <1>3

LEMMA RestartKept == ASSUME Typed, Kept, Restart PROVE Kept'
  BY DEF Restart, Kept, ghosts

LEMMA WatchKept == ASSUME Typed, Kept, NEW c \in cards, WatchEnds(c) PROVE Kept'
<1>1. c.source \in Sources
  BY DEF Typed, Carded, Cards
<1>2. Restored(c.source) # NoRecord
  BY NotAbsent DEF WatchEnds
<1>3. \A x \in Sources : /\ disk[x] # NoRecord => disk'[x] # NoRecord
                         /\ mem[x] # NoRecord => mem'[x] # NoRecord
  BY <1>1, <1>2 DEF WatchEnds, Typed, Served
<1> QED  BY <1>3 DEF WatchEnds, Kept, Typed, Served, ghosts

LEMMA TakeKept == ASSUME Typed, Kept, TakeSupplement PROVE Kept'
<1>1. CASE Spend("runs") /\ \E n : given' = given \cup {[id |-> supp.id, source |-> 0, run |-> n]}
  <2>1. used'.runs = used.runs + 1
    BY <1>1 DEF Spend, Typed, Counted, Counters
  <2>2. \A r \in live : r.run \in Nat
    BY Bounds DEF Typed, Served
  <2> QED  BY <1>1, <2>1, <2>2 DEF TakeSupplement, Kept, Typed, Counted, service
<1>2. CASE UNCHANGED <<given, used>>
  BY <1>2 DEF TakeSupplement, Kept, service
<1> QED  BY <1>1, <1>2 DEF TakeSupplement

----------------------------------------------------------------------------
(* One start, one agent, one run                                           *)

\* While a source is in the lane nobody else is at work, and it is not free.
LEMMA NobodyAtWork ==
  ASSUME Typed, Kept, Alone, ~ LaneTaken(gate.source),
         ~ (lane = gate.source /\ mem[gate.source].status = "running")
  PROVE  \A r \in live : ~ AtWork(r)
<1> SUFFICES ASSUME NEW r \in live, AtWork(r) PROVE FALSE
  OBVIOUS
<1>1. lane = r.source /\ r.source \in Sources /\ r.source # 0
  BY DEF Alone, Typed, Served, Sources
<1>2. mem[lane] = disk[lane]
  BY <1>1 DEF Alone, Kept
<1>3. mem[lane].status = "running"
  BY <1>1, <1>2 DEF AtWork
<1> QED  BY <1>1, <1>3 DEF LaneTaken, Terminal

LEMMA RequestAlone ==
  ASSUME Typed, Kept, ~ crossed => Alone, Request, ~ crossed' PROVE Alone'
<1> DEFINE s == gate.source
           known == IF mem[s] = NoRecord THEN "reading" ELSE "found"
           start == [source |-> s, era |-> Era, step |-> known]
<1>1. UNCHANGED <<mem, disk, live, given>>
  BY DEF Request
<1>2. CASE UNCHANGED <<starts, lane, crossed>>
  BY <1>1, <1>2 DEF Alone, AtWork
<1>3. CASE /\ ~ LaneTaken(s) /\ ~ (lane = s /\ mem[s].status = "running")
           /\ starts' = starts \cup {start} /\ crossed' = (crossed \/ starts # {})
  <2>1. starts = {} /\ ~ crossed /\ Alone
    BY <1>3
  <2>2. \A r \in live : ~ AtWork(r)
    BY <1>3, <2>1, NobodyAtWork
  <2>3. start.step # "absent"
    OBVIOUS
  <2>4. starts' = {start}
    BY <1>3, <2>1
  <2> HIDE DEF start
  <2> QED  BY <1>1, <2>1, <2>2, <2>3, <2>4 DEF Alone, AtWork
<1> QED  BY <1>2, <1>3 DEF Request

LEMMA ReadAlone ==
  ASSUME Typed, Kept, ~ crossed => Alone, NEW start \in starts, ReadRecord(start), ~ crossed' PROVE Alone'
<1> DEFINE s == start.source
           next == [start EXCEPT !.step = IF disk[s] = NoRecord THEN "absent" ELSE "found"]
<1>1. Alone /\ UNCHANGED <<lane, live, given>> /\ s \in Sources
  BY DEF ReadRecord, ghosts, Typed, Served
<1>2. starts = {start} /\ starts' = {next}
  BY <1>1 DEF ReadRecord, Alone
<1>3. next.source = s /\ (next.step = "absent" => disk[s] = NoRecord)
  BY DEF Typed, Served
<1>4. disk'[s] = FromFile(s) /\ \A x \in Sources : x # s => disk'[x] = disk[x]
  BY <1>1 DEF ReadRecord, Typed, Served
<1>5. disk[s] = NoRecord => FromFile(s) = NoRecord
  BY DEF FromFile, NoRecord
<1>6. mem'[s] \in {NoRecord, disk'[s]}
  BY <1>1, <1>4, <1>5 DEF ReadRecord, Typed, Served, Alone
<1>7. \A x \in Sources : x # s => mem'[x] = mem[x]
  BY <1>1 DEF ReadRecord, Typed, Served
<1>8. \A r \in live : ~ AtWork(r)'
  <2> SUFFICES ASSUME NEW r \in live PROVE ~ AtWork(r)'
    OBVIOUS
  <2>1. ~ AtWork(r)
    BY <1>1, <1>2 DEF Alone
  <2>2. FromFile(s).status # "running"
    BY DEF FromFile
  <2> QED  BY <1>4, <2>1, <2>2 DEF AtWork, Typed, Served
<1>9. \A a \in starts' : a.step = "absent" => disk'[a.source] = NoRecord
  BY <1>2, <1>3, <1>4, <1>5
<1> HIDE DEF next
<1> QED  BY <1>1, <1>2, <1>4, <1>6, <1>7, <1>8, <1>9 DEF Alone

LEMMA EndStartAlone ==
  ASSUME Typed, Kept, ~ crossed => Alone, NEW start \in starts, EndStart(start), ~ crossed' PROVE Alone'
<1> DEFINE s == start.source  n == Count("runs")
           agent == [source |-> s, run |-> n]
           gift == [id |-> owner[s], source |-> s, run |-> n]
<1>1. Alone /\ s \in Sources /\ s # 0 /\ starts = {start} /\ starts' = {}
  BY DEF EndStart, Typed, Served, Alone, Sources
<1>2. \A r \in live : ~ AtWork(r)
  BY <1>1 DEF Alone
<1>3. CASE UNCHANGED <<mem, disk, live, given>>
  BY <1>1, <1>2, <1>3 DEF Alone, AtWork
<1>4. CASE /\ ~ Exists(start) /\ lane' = s /\ live' = live \cup {agent}
           /\ mem' = [mem EXCEPT ![s] = [status |-> "running", run |-> n]]
           /\ disk' = [disk EXCEPT ![s] = mem'[s]]
           /\ given' = given \cup {gift}
  <2>1. start.step = "absent"
    BY <1>4 DEF EndStart, Exists, Typed, Served
  <2>2. disk[s] = NoRecord
    BY <1>1, <2>1 DEF Alone
  <2>3. \A r \in live : r.source # s
    BY <2>2 DEF Kept
  <2>4. \A g \in given : g.source # s
    BY <1>1, <2>2 DEF Kept
  <2>5. mem'[s] = disk'[s] /\ \A x \in Sources : x # s => mem'[x] = mem[x] /\ disk'[x] = disk[x]
    BY <1>1, <1>4 DEF Typed, Served
  <2>6. \A r \in live : ~ AtWork(r)'
    BY <1>2, <2>3, <2>5 DEF AtWork, Typed, Served
  <2>7. agent.source = s /\ gift.source = s
    OBVIOUS
  <2> HIDE DEF agent, gift
  <2>8. \A p, q \in live' : p.source = q.source => p = q
    BY <1>1, <1>4, <2>3, <2>7 DEF Alone
  <2>9. \A a, b \in given' : a.source = b.source /\ a.source # 0 => a = b
    BY <1>1, <1>4, <2>4, <2>7 DEF Alone
  <2>10. \A r \in live' : AtWork(r)' => lane' = r.source
    BY <1>4, <2>6, <2>7
  <2>11. \A x \in Sources : mem'[x] \in {NoRecord, disk'[x]}
    BY <1>1, <2>5 DEF Alone
  <2> QED  BY <1>1, <2>8, <2>9, <2>10, <2>11 DEF Alone
<1> QED  BY <1>3, <1>4 DEF EndStart

LEMMA EndRunAlone ==
  ASSUME Typed, Kept, Alone, NEW r \in live, EndRun(r) PROVE Alone'
<1> DEFINE s == r.source
<1>1. s \in Sources /\ UNCHANGED <<starts, lane, live, given>>
  BY DEF EndRun, Typed, Served, ghosts
<1>2. mem[s] = disk[s] /\ mem[s].run = r.run
  BY <1>1 DEF EndRun, AtWork, Kept, Alone
<1>3. disk' = [disk EXCEPT ![s].status = "ended"] /\ mem' = [mem EXCEPT ![s].status = "ended"]
  BY <1>2 DEF EndRun
<1>4. /\ mem'[s] = disk'[s] /\ disk'[s].status = "ended"
      /\ \A x \in Sources : x # s => mem'[x] = mem[x] /\ disk'[x] = disk[x]
  BY <1>1, <1>2, <1>3 DEF Typed, Served, Records
<1>5. \A p \in live : AtWork(p)' => AtWork(p)
  BY <1>4 DEF AtWork, Typed, Served
<1>6. starts = {}
  BY DEF EndRun, Alone
<1> QED  BY <1>1, <1>4, <1>5, <1>6 DEF Alone

LEMMA LeaveAlone ==
  ASSUME Typed, Alone, NEW r \in live, LeaveLane(r) PROVE Alone'
<1>1. UNCHANGED <<starts, mem, disk, given>> /\ live' = live \ {r} /\ ~ AtWork(r)
  BY DEF LeaveLane, ghosts
<1>2. \A p \in live' : AtWork(p)' => AtWork(p) /\ p # r
  BY <1>1 DEF AtWork
<1>3. \A p \in live' : AtWork(p)' => lane' = p.source
  BY <1>1, <1>2 DEF LeaveLane, LeavesLane, Alone
<1> QED  BY <1>1, <1>2, <1>3 DEF Alone

LEMMA RestartAlone == ASSUME Typed, Alone, Restart PROVE Alone'
  BY DEF Restart, Alone, ghosts

LEMMA WatchAlone ==
  ASSUME Typed, Kept, Alone, NEW c \in cards, WatchEnds(c) PROVE Alone'
<1> DEFINE s == c.source
<1>1. s \in Sources /\ UNCHANGED <<starts, lane, live, given>>
  BY DEF WatchEnds, Typed, Carded, Cards, ghosts
<1>2. /\ mem'[s] = Restored(s) /\ disk'[s] = Restored(s)
      /\ \A x \in Sources : x # s => mem'[x] = mem[x] /\ disk'[x] = disk[x]
  BY <1>1 DEF WatchEnds, Typed, Served
<1>3. Restored(s).status # "running"
  BY DEF WatchEnds, Terminal
<1>4. \A p \in live : AtWork(p)' => AtWork(p)
  BY <1>1, <1>2, <1>3 DEF AtWork, Typed, Served
<1>5. disk[s] # NoRecord
  <2> SUFFICES ASSUME disk[s] = NoRecord PROVE FALSE
    OBVIOUS
  <2>1. Restored(s) = NoRecord
    BY <1>1 DEF Alone, Restored, FromFile, NoRecord
  <2> QED  BY <2>1, NotAbsent DEF WatchEnds
<1>6. \A a \in starts : a.step = "absent" => disk'[a.source] = NoRecord
  BY <1>1, <1>2, <1>5 DEF Alone, Typed, Served
<1> QED  BY <1>1, <1>2, <1>4, <1>6 DEF Alone

LEMMA TakeAlone == ASSUME Typed, Alone, TakeSupplement PROVE Alone'
<1>1. UNCHANGED <<starts, mem, disk, lane, live>>
  BY DEF TakeSupplement, service
<1>2. \/ given' = given \/ \E n : given' = given \cup {[id |-> supp.id, source |-> 0, run |-> n]}
  BY DEF TakeSupplement
<1>3. \A a, b \in given' : a.source = b.source /\ a.source # 0 => a = b
  BY <1>2 DEF Alone
<1> QED  BY <1>1, <1>3 DEF Alone, AtWork

----------------------------------------------------------------------------
(* The invariant                                                           *)

LEMMA InitIInv == Init => IInv
<1> SUFFICES ASSUME Init PROVE IInv
  OBVIOUS
<1>1. Gated /\ Carded
  BY DEF Init, Gated, Carded, NoGate
<1>2. Counted
  BY DEF Init, Counted, Counters
<1>3. Served
  BY RecordValues DEF Init, Served
<1>4. Kept /\ Alone
  BY DEF Init, Kept, Alone
<1> QED  BY <1>1, <1>2, <1>3, <1>4 DEF IInv, Typed

\* A step that leaves the service alone keeps its invariant.
LEMMA IdleIInv == ASSUME IInv, Gated', Carded', Idle PROVE IInv'
<1>1. Typed'
  BY IdleServed DEF IInv, Typed
<1>2. Kept' /\ (Alone => Alone') /\ crossed' = crossed
  BY IdleKept, IdleAlone DEF IInv, Idle
<1> QED  BY <1>1, <1>2 DEF IInv

LEMMA StepIInv == IInv /\ [Next]_vars => IInv'
<1> SUFFICES ASSUME IInv, [Next]_vars PROVE IInv'
  OBVIOUS
<1> USE DEF IInv
<1>1. CASE UNCHANGED vars
  <2>1. Gated' /\ Carded' /\ Idle
    BY <1>1 DEF vars, view, service, ghosts, Typed, Counted, Gated, Carded, Idle
  <2> QED  BY <2>1, IdleIInv
<1>2. CASE User \/ Editing \/ LoseAnswer \/ Save \/ Close \/ Opening
  <2>1. Gated' /\ Carded' /\ Idle
    BY <1>2, SubmitTyped, WindowTyped, CloseTyped DEF User, Editing, Opening
  <2> QED  BY <2>1, IdleIInv
<1>3. CASE DrainQueue \/ Started \/ NotStarted \/ ReleaseGate \/ Supplemented
  <2>1. Gated' /\ Carded' /\ Idle
    BY <1>3, DrainTyped, WindowTyped
  <2> QED  BY <2>1, IdleIInv
<1>4. CASE Request
  BY <1>4, RequestTyped, RequestKept, RequestAlone
<1>5. ASSUME NEW c \in cards, WatchEnds(c) PROVE IInv'
  <2>1. crossed' = crossed
    BY <1>5 DEF WatchEnds, ghosts
  <2> QED  BY <1>5, <2>1, WatchTyped, WatchKept, WatchAlone
<1>6. ASSUME NEW start \in starts, ReadRecord(start) PROVE IInv'
  BY <1>6, ReadTyped, ReadKept, ReadAlone
<1>7. ASSUME NEW start \in starts, EndStart(start) PROVE IInv'
  BY <1>7, EndTyped, EndStartKept, EndStartAlone
<1>8. CASE TakeSupplement
  <2>1. crossed' = crossed
    BY <1>8 DEF TakeSupplement
  <2> QED  BY <1>8, <2>1, TakeTyped, TakeKept, TakeAlone
<1>9. ASSUME NEW r \in live, EndRun(r) \/ LeaveLane(r) PROVE IInv'
  <2>1. crossed' = crossed
    BY <1>9 DEF EndRun, LeaveLane, ghosts
  <2> QED  BY <1>9, <2>1, RunTyped, RunKept, EndRunAlone, LeaveAlone
<1>10. CASE Restart
  <2>1. crossed' = crossed
    BY <1>10 DEF Restart, ghosts
  <2> QED  BY <1>10, <2>1, RestartTyped, RestartKept, RestartAlone
<1> QED  BY <1>1, <1>2, <1>3, <1>4, <1>5, <1>6, <1>7, <1>8, <1>9, <1>10
         DEF Next, Sending, Serving, Running

(* The inductive invariant holds of every behaviour of window, service and *)
(* network.                                                                *)
THEOREM Invariance == Spec => []IInv
  BY InitIInv, StepIInv, PTL DEF Spec

(* An agent at work has the conversation's lane, and its source no second  *)
(* agent: two are never at work together.                                  *)
THEOREM AloneAtWork == Spec => []OneAtATime
<1>1. IInv => OneAtATime
  <2> SUFFICES ASSUME IInv, ~ crossed PROVE Cardinality({r \in live : AtWork(r)}) <= 1
    BY DEF OneAtATime
  <2> DEFINE working == {r \in live : AtWork(r)}
  <2>1. \A p, q \in working : p = q
    BY DEF IInv, Alone
  <2>2. CASE working = {}
    BY <2>2, FS_EmptySet
  <2>3. CASE \E r : working = {r}
    BY <2>3, FS_Singleton
  <2> HIDE DEF working
  <2>4. working = {} \/ \E r : working = {r}
    BY <2>1
  <2> QED  BY <2>2, <2>3, <2>4 DEF working
<1> QED  BY <1>1, Invariance, PTL

(* A start that is repeated with its source - after a lost answer, by a    *)
(* later dispatch of the instruction, by a window opened again - finds the *)
(* run of that source, also when the service was restarted in between      *)
(* (runIdFor, get and start of conversation-agent-service.mjs), unless two *)
(* starts met inside the service.                                          *)
OneRunPerSource == ~ crossed => \A a, b \in given : a.source = b.source /\ a.source # 0 => a = b

(* However often a source is started, it is run once: its record is on     *)
(* file from the first time on, and only the absence of a record lets a    *)
(* start run it.                                                           *)
THEOREM StartedOnce == Spec => []OneRunPerSource
<1>1. IInv => OneRunPerSource
  BY DEF IInv, Alone, OneRunPerSource
<1> QED  BY <1>1, Invariance, PTL

----------------------------------------------------------------------------
(* The lists of the window                                                 *)

(* The items of a list, and what every list of the window is: no           *)
(* instruction is in it twice (an instruction is queued under an id of its *)
(* own).                                                                   *)
Of(q) == {q[k] : k \in DOMAIN q}
Proper(q) == q \in Seq(Items) /\ \A i, j \in DOMAIN q : q[i].id = q[j].id => i = j

(* With a key of its own for each of finitely many places, the number of   *)
(* keys up to a place's is a number of its own too, and each number up to  *)
(* that of the places is one.                                              *)
LEMMA Ranks ==
  ASSUME NEW P, IsFiniteSet(P), NEW key \in [P -> Nat], \A j, k \in P : key[j] = key[k] => j = k
  PROVE  /\ \A n \in 1 .. Cardinality(P) : \E k \in P : Cardinality({j \in P : key[j] <= key[k]}) = n
         /\ \A k, l \in P : Cardinality({j \in P : key[j] <= key[k]}) = Cardinality({j \in P : key[j] <= key[l]}) => k = l
<1> DEFINE Upto(k) == {j \in P : key[j] <= key[k]}
           N == Cardinality(P)
           rank == [k \in P |-> Cardinality(Upto(k))]
<1>1. \A k \in P : IsFiniteSet(Upto(k)) /\ Cardinality(Upto(k)) \in Nat /\ Cardinality(Upto(k)) <= N
  BY FS_Subset, FS_CardinalityType
<1>2. \A k \in P : Cardinality(Upto(k)) # 0
  <2>1. \A k \in P : k \in Upto(k)
    OBVIOUS
  <2> QED  BY <1>1, <2>1, FS_EmptySet
<1>3. N \in Nat /\ IsFiniteSet(1 .. N) /\ Cardinality(1 .. N) = N
  BY FS_CardinalityType, FS_Interval
<1>4. ASSUME NEW k \in P, NEW l \in P, key[k] < key[l] PROVE Cardinality(Upto(k)) # Cardinality(Upto(l))
  <2>1. Upto(k) \in SUBSET Upto(l) /\ Upto(k) # Upto(l)
    <3>1. l \in Upto(l) /\ l \notin Upto(k)
      BY <1>4
    <3>2. Upto(k) \subseteq Upto(l)
      BY <1>4
    <3> QED  BY <3>1, <3>2
  <2> HIDE DEF Upto
  <2> QED  BY <1>1, <2>1, FS_Subset
<1>5. \A k, l \in P : Cardinality(Upto(k)) = Cardinality(Upto(l)) => k = l
  <2> TAKE k, l \in P
  <2>1. key[k] < key[l] \/ key[l] < key[k] \/ key[k] = key[l]
    OBVIOUS
  <2> HIDE DEF Upto
  <2> QED  BY <1>4, <2>1
<1>6. rank \in Injection(P, 1 .. N)
  <2> HIDE DEF Upto, N
  <2>1. rank \in [P -> 1 .. N]
    BY <1>1, <1>2, <1>3
  <2>2. \A k, l \in P : rank[k] = rank[l] => k = l
    BY <1>5
  <2> QED  BY <2>1, <2>2 DEF Injection, IsInjective
<1>7. rank \in Surjection(P, 1 .. N)
  <2> HIDE DEF rank, Upto
  <2> QED  BY <1>3, <1>6, FS_Injection
<1>8. \A n \in 1 .. N : \E k \in P : rank[k] = n
  <2> HIDE DEF rank, N
  <2> QED  BY <1>7 DEF Surjection
<1> QED  BY <1>5, <1>8

(* A list that is put in another order, or a part of it, holds what was at *)
(* the places it is made from, once.                                       *)
LEMMA InOrderFacts ==
  ASSUME NEW items, Proper(items), NEW places \in SUBSET DOMAIN items,
         NEW key \in [places -> Nat], \A j, k \in places : key[j] = key[k] => j = k
  PROVE  /\ Proper(InOrder(items, places, key))
         /\ Of(InOrder(items, places, key)) = {items[k] : k \in places}
<1> DEFINE Rank(k) == Cardinality({j \in places : key[j] <= key[k]})
           N == Cardinality(places)
           At(n) == CHOOSE k \in places : Rank(k) = n
           r == [n \in 1 .. N |-> items[At(n)]]
<1>1. items \in Seq(Items) /\ DOMAIN items = 1 .. Len(items) /\ Len(items) \in Nat
  BY LenProperties DEF Proper
<1>2. IsFiniteSet(places)
  <2>1. IsFiniteSet(1 .. Len(items)) /\ places \in SUBSET (1 .. Len(items))
    BY <1>1, FS_Interval
  <2> QED  BY <2>1, FS_Subset
<1>3. N \in Nat
  BY <1>2, FS_CardinalityType
<1>4. /\ \A n \in 1 .. N : \E k \in places : Rank(k) = n
      /\ \A k, l \in places : Rank(k) = Rank(l) => k = l
  BY <1>2, Ranks
<1>5. \A k \in places : Rank(k) \in 1 .. N
  <2> TAKE k \in places
  <2>1. {j \in places : key[j] <= key[k]} \in SUBSET places /\ k \in {j \in places : key[j] <= key[k]}
    OBVIOUS
  <2>2. IsFiniteSet({j \in places : key[j] <= key[k]}) /\ Rank(k) <= N
    BY <1>2, <2>1, FS_Subset
  <2>3. Rank(k) \in Nat /\ Rank(k) # 0
    BY <2>1, <2>2, FS_CardinalityType, FS_EmptySet
  <2> QED  BY <1>3, <2>2, <2>3
<1> HIDE DEF Rank, N
<1>6. \A n \in 1 .. N : At(n) \in places /\ Rank(At(n)) = n
  BY <1>4
<1>7. \A k \in places : At(Rank(k)) = k
  BY <1>4, <1>5, <1>6
<1>8. InOrder(items, places, key) = r
  BY DEF InOrder, Rank, N
<1>9. \A k \in places : items[k] \in Items
  BY <1>1, ElementOfSeq
<1> HIDE DEF At
<1>10. r \in Seq(Items)
  BY <1>3, <1>6, <1>9
<1>11. DOMAIN r = 1 .. N /\ \A n \in 1 .. N : r[n] = items[At(n)]
  OBVIOUS
<1> HIDE DEF r
<1>12. \A i, j \in DOMAIN r : r[i].id = r[j].id => i = j
  BY <1>6, <1>11 DEF Proper
<1>13. Of(r) = {items[k] : k \in places}
  BY <1>5, <1>6, <1>7, <1>11 DEF Of
<1> QED  BY <1>8, <1>10, <1>12, <1>13 DEF Proper

(* Filtering a list keeps its order and the items at the places kept.      *)
LEMMA FilterFacts ==
  ASSUME NEW items, Proper(items), NEW places \in SUBSET DOMAIN items
  PROVE  Proper(Filter(items, places)) /\ Of(Filter(items, places)) = {items[k] : k \in places}
<1> DEFINE key == [k \in places |-> k]
<1>1. DOMAIN items = 1 .. Len(items) /\ Len(items) \in Nat
  BY LenProperties DEF Proper
<1>2. key \in [places -> Nat] /\ \A j, k \in places : key[j] = key[k] => j = k
  BY <1>1
<1> HIDE DEF key
<1>3. Filter(items, places) = InOrder(items, places, key)
  BY DEF Filter, key
<1> QED  BY <1>2, <1>3, InOrderFacts

(* Sorting the queue by creation, as after a task, keeps every item.       *)
LEMMA OrderedFacts ==
  ASSUME NEW items, Proper(items)
  PROVE  Proper(Ordered(items)) /\ Of(Ordered(items)) = Of(items)
<1> DEFINE key == [k \in DOMAIN items |-> items[k].id]
<1>1. DOMAIN items = 1 .. Len(items) /\ items \in Seq(Items)
  BY LenProperties DEF Proper
<1>2. \A k \in DOMAIN items : items[k].id \in Nat
  <2>1. \A k \in DOMAIN items : items[k] \in Items
    BY <1>1, ElementOfSeq
  <2> QED  BY <2>1 DEF Items, Ids
<1>3. key \in [DOMAIN items -> Nat] /\ \A j, k \in DOMAIN items : key[j] = key[k] => j = k
  BY <1>2 DEF Proper
<1> HIDE DEF key
<1>4. Ordered(items) = InOrder(items, DOMAIN items, key)
  BY DEF Ordered, key
<1>5. Proper(Ordered(items)) /\ Of(Ordered(items)) = {items[k] : k \in DOMAIN items}
  BY <1>3, <1>4, InOrderFacts
<1> QED  BY <1>5 DEF Of

(* What can be said of the places and items of every such list.            *)
LEMMA ProperItem ==
  ASSUME NEW items, Proper(items)
  PROVE  /\ DOMAIN items = 1 .. Len(items) /\ Len(items) \in Nat
         /\ \A k \in DOMAIN items : items[k] \in Items
         /\ Of(items) \subseteq Items
         /\ \A x, y \in Of(items) : x.id = y.id => x = y
<1>1. DOMAIN items = 1 .. Len(items) /\ Len(items) \in Nat /\ items \in Seq(Items)
  BY LenProperties DEF Proper
<1>2. \A k \in DOMAIN items : items[k] \in Items
  BY <1>1, ElementOfSeq
<1>3. \A x, y \in Of(items) : x.id = y.id => x = y
  BY DEF Proper, Of
<1> QED  BY <1>1, <1>2, <1>3 DEF Of

(* What is taken out goes to the front, queued.                            *)
Queued(x) == [x EXCEPT !.state = "queued"]

(* A list whose dispatches are put back holds the same instructions: those *)
(* taken out are queued, the others are as they were.                      *)
LEMMA InFrontFacts ==
  ASSUME NEW items, Proper(items), NEW out \in SUBSET DOMAIN items
  PROVE  /\ Proper(InFrontAgain(items, out))
         /\ Of(InFrontAgain(items, out)) =
              {Queued(items[k]) : k \in out} \cup {items[k] : k \in DOMAIN items \ out}
<1> DEFINE nacked == Filter(items, out)
           back == [k \in DOMAIN nacked |-> [nacked[k] EXCEPT !.state = "queued"]]
           rest == Filter(items, DOMAIN items \ out)
           r == back \o rest
<1>1. Proper(nacked) /\ Of(nacked) = {items[k] : k \in out}
  BY FilterFacts
<1>2. Proper(rest) /\ Of(rest) = {items[k] : k \in DOMAIN items \ out}
  BY FilterFacts
<1>3. InFrontAgain(items, out) = r
  BY DEF InFrontAgain
<1> HIDE DEF nacked, rest
<1>4. /\ DOMAIN nacked = 1 .. Len(nacked) /\ Len(nacked) \in Nat
      /\ \A k \in DOMAIN nacked : nacked[k] \in Items
  BY <1>1, ProperItem
<1>5. /\ DOMAIN rest = 1 .. Len(rest) /\ Len(rest) \in Nat
      /\ \A k \in DOMAIN rest : rest[k] \in Items
  BY <1>2, ProperItem
<1>6. /\ \A x \in Items : Queued(x) \in Items /\ Queued(x).id = x.id
      /\ \A k \in 1 .. Len(nacked) : back[k] = Queued(nacked[k])
  BY <1>4 DEF Items, Queued
<1>7. back \in Seq(Items) /\ Len(back) = Len(nacked) /\ rest \in Seq(Items)
  <2>1. \A k \in 1 .. Len(nacked) : [nacked[k] EXCEPT !.state = "queued"] \in Items
    BY <1>4 DEF Items
  <2>2. back = [k \in 1 .. Len(nacked) |-> [nacked[k] EXCEPT !.state = "queued"]]
    BY <1>4
  <2>3. back \in Seq(Items) /\ DOMAIN back = 1 .. Len(nacked)
    BY <1>4, <2>1, <2>2
  <2> HIDE DEF back
  <2> QED  BY <1>2, <1>4, <2>3, LenProperties DEF Proper
<1> HIDE DEF back
<1>8. /\ r \in Seq(Items) /\ Len(r) = Len(nacked) + Len(rest)
      /\ \A i \in 1 .. Len(nacked) + Len(rest) : r[i] = IF i <= Len(nacked) THEN back[i] ELSE rest[i - Len(nacked)]
  <2>1. ASSUME NEW s \in Seq(Items), NEW t \in Seq(Items)
        PROVE  /\ s \o t \in Seq(Items) /\ Len(s \o t) = Len(s) + Len(t)
               /\ \A i \in 1 .. Len(s) + Len(t) : (s \o t)[i] = IF i <= Len(s) THEN s[i] ELSE t[i - Len(s)]
    BY ConcatProperties
  <2>2. back \in Seq(Items) /\ rest \in Seq(Items)
    BY <1>7
  <2>3. /\ r \in Seq(Items) /\ Len(r) = Len(back) + Len(rest)
        /\ \A i \in 1 .. Len(back) + Len(rest) : r[i] = IF i <= Len(back) THEN back[i] ELSE rest[i - Len(back)]
    BY <2>1, <2>2
  <2> QED  BY <1>7, <2>3
<1> HIDE DEF r
<1>9. DOMAIN r = 1 .. Len(nacked) + Len(rest)
  BY <1>8, LenProperties
<1>10. \A i \in DOMAIN r :
         \/ i \in 1 .. Len(nacked) /\ r[i] = Queued(nacked[i])
         \/ i - Len(nacked) \in 1 .. Len(rest) /\ r[i] = rest[i - Len(nacked)]
  BY <1>4, <1>5, <1>6, <1>8, <1>9
<1>11. \A i \in 1 .. Len(nacked), j \in 1 .. Len(rest) : nacked[i].id # rest[j].id
  <2> TAKE i \in 1 .. Len(nacked), j \in 1 .. Len(rest)
  <2>1. PICK k \in out : nacked[i] = items[k]
    BY <1>1, <1>4 DEF Of
  <2>2. PICK l \in DOMAIN items \ out : rest[j] = items[l]
    BY <1>2, <1>5 DEF Of
  <2> QED  BY <2>1, <2>2 DEF Proper
<1>12. \A i, j \in DOMAIN r : r[i].id = r[j].id => i = j
  <2> SUFFICES ASSUME NEW i \in DOMAIN r, NEW j \in DOMAIN r, r[i].id = r[j].id PROVE i = j
    OBVIOUS
  <2>1. i \in Nat /\ j \in Nat
    BY <1>9
  <2>2. CASE i \in 1 .. Len(nacked) /\ j \in 1 .. Len(nacked) /\ r[i] = Queued(nacked[i]) /\ r[j] = Queued(nacked[j])
    BY <1>1, <1>4, <1>6, <2>2 DEF Proper
  <2>3. CASE i - Len(nacked) \in 1 .. Len(rest) /\ j - Len(nacked) \in 1 .. Len(rest)
             /\ r[i] = rest[i - Len(nacked)] /\ r[j] = rest[j - Len(nacked)]
    <3>1. i - Len(nacked) = j - Len(nacked)
      BY <1>2, <1>5, <2>3 DEF Proper
    <3> QED  BY <1>4, <2>1, <3>1
  <2>4. CASE i \in 1 .. Len(nacked) /\ r[i] = Queued(nacked[i])
             /\ j - Len(nacked) \in 1 .. Len(rest) /\ r[j] = rest[j - Len(nacked)]
    BY <1>4, <1>6, <1>11, <2>4
  <2>5. CASE j \in 1 .. Len(nacked) /\ r[j] = Queued(nacked[j])
             /\ i - Len(nacked) \in 1 .. Len(rest) /\ r[i] = rest[i - Len(nacked)]
    BY <1>4, <1>6, <1>11, <2>5
  <2> QED  BY <1>10, <2>2, <2>3, <2>4, <2>5
<1>13. \A k \in out : Queued(items[k]) \in Of(r)
  <2> TAKE k \in out
  <2>1. PICK i \in 1 .. Len(nacked) : nacked[i] = items[k]
    BY <1>1, <1>4 DEF Of
  <2>2. i \in DOMAIN r /\ r[i] = Queued(nacked[i])
    BY <1>4, <1>5, <1>6, <1>8, <1>9
  <2> QED  BY <2>1, <2>2 DEF Of
<1>14. \A k \in DOMAIN items \ out : items[k] \in Of(r)
  <2> TAKE k \in DOMAIN items \ out
  <2>1. PICK j \in 1 .. Len(rest) : rest[j] = items[k]
    BY <1>2, <1>5 DEF Of
  <2>2. /\ j + Len(nacked) \in 1 .. Len(nacked) + Len(rest) /\ ~ (j + Len(nacked) <= Len(nacked))
        /\ (j + Len(nacked)) - Len(nacked) = j
    BY <1>4, <1>5
  <2>3. j + Len(nacked) \in DOMAIN r /\ r[j + Len(nacked)] = rest[j]
    BY <1>8, <1>9, <2>2
  <2> QED  BY <2>1, <2>3 DEF Of
<1>15. \A x \in Of(r) : x \in {Queued(items[k]) : k \in out} \cup {items[k] : k \in DOMAIN items \ out}
  <2> TAKE x \in Of(r)
  <2>1. PICK i \in DOMAIN r : x = r[i]
    BY DEF Of
  <2>2. CASE i \in 1 .. Len(nacked) /\ r[i] = Queued(nacked[i])
    <3>1. nacked[i] \in {items[k] : k \in out}
      BY <1>1, <1>4, <2>2 DEF Of
    <3> QED  BY <2>1, <2>2, <3>1
  <2>3. CASE i - Len(nacked) \in 1 .. Len(rest) /\ r[i] = rest[i - Len(nacked)]
    BY <1>2, <1>5, <2>1, <2>3 DEF Of
  <2> QED  BY <1>10, <2>2, <2>3
<1> QED  BY <1>3, <1>8, <1>12, <1>13, <1>14, <1>15 DEF Proper

(* The items of the one list come from the other; its instructions are all *)
(* in it.                                                                  *)
Comes(q, p) == \A x \in Of(q) : \E y \in Of(p) : y.id = x.id /\ y.source = x.source
Holds(q, p) == \A y \in Of(p) : \E x \in Of(q) : x.id = y.id

(* An instruction that is taken out of the queue is out of it, and only    *)
(* that one.                                                               *)
LEMMA WithoutFacts ==
  ASSUME Proper(queue), NEW id
  PROVE  Proper(Without(id)) /\ Of(Without(id)) = {x \in Of(queue) : x.id # id}
<1> DEFINE places == {k \in DOMAIN queue : queue[k].id # id}
<1>1. Without(id) = Filter(queue, places)
  BY DEF Without
<1>2. Proper(Without(id)) /\ Of(Without(id)) = {queue[k] : k \in places}
  <2>1. places \in SUBSET DOMAIN queue
    OBVIOUS
  <2> HIDE DEF places
  <2> QED  BY <1>1, <2>1, FilterFacts
<1> QED  BY <1>2 DEF Of

(* An acknowledgement takes out the one instruction it is for.             *)
LEMMA AckedFacts ==
  ASSUME Proper(queue), NEW id
  PROVE  /\ Proper(Acked(id)) /\ Of(Acked(id)) \subseteq Of(queue)
         /\ \A x \in Of(queue) : x.id # id => x \in Of(Acked(id))
<1> DEFINE places == {k \in DOMAIN queue : queue[k].id # id \/ k \notin Dispatching(queue)}
<1>1. Acked(id) = Filter(queue, places)
  BY DEF Acked
<1>2. Proper(Acked(id)) /\ Of(Acked(id)) = {queue[k] : k \in places}
  <2>1. places \in SUBSET DOMAIN queue
    OBVIOUS
  <2> HIDE DEF places
  <2> QED  BY <1>1, <2>1, FilterFacts
<1> QED  BY <1>2 DEF Of

(* Dispatches that are put back lose no instruction and keep their         *)
(* sources.                                                                *)
LEMMA InFrontSame ==
  ASSUME NEW items, Proper(items), NEW out \in SUBSET DOMAIN items
  PROVE  /\ Proper(InFrontAgain(items, out))
         /\ Comes(InFrontAgain(items, out), items) /\ Holds(InFrontAgain(items, out), items)
<1> DEFINE q == InFrontAgain(items, out)
<1>1. Proper(q) /\ Of(q) = {Queued(items[k]) : k \in out} \cup {items[k] : k \in DOMAIN items \ out}
  BY InFrontFacts
<1>2. \A k \in DOMAIN items : Queued(items[k]).id = items[k].id /\ Queued(items[k]).source = items[k].source
  BY ProperItem DEF Queued, Items
<1> HIDE DEF q
<1>3. Comes(q, items)
  BY <1>1, <1>2 DEF Comes, Of
<1>4. Holds(q, items)
  <2> SUFFICES ASSUME NEW k \in DOMAIN items PROVE \E x \in Of(q) : x.id = items[k].id
    BY DEF Holds, Of
  <2> QED  BY <1>1, <1>2
<1> QED  BY <1>1, <1>3, <1>4 DEF q

(* A refused dispatch stays in the queue.                                  *)
LEMMA NackedFacts ==
  ASSUME NEW items, Proper(items), NEW id
  PROVE  Proper(Nacked(items, id)) /\ Comes(Nacked(items, id), items) /\ Holds(Nacked(items, id), items)
<1>1. {k \in Dispatching(items) : items[k].id = id} \in SUBSET DOMAIN items
  BY DEF Dispatching
<1> QED  BY <1>1, InFrontSame DEF Nacked

(* So do the dispatches a window finds in its queue when it starts.        *)
LEMMA RecoveredFacts ==
  ASSUME Proper(queue)
  PROVE  Proper(Recovered) /\ Comes(Recovered, queue) /\ Holds(Recovered, queue)
<1>1. Dispatching(queue) \in SUBSET DOMAIN queue
  BY DEF Dispatching
<1> QED  BY <1>1, InFrontSame DEF Recovered

(* Editing changes the state of an item and nothing else.                  *)
LEMMA WithStateFacts ==
  ASSUME Proper(queue), NEW id, NEW from, NEW to \in {"queued", "editing"}
  PROVE  /\ Proper(WithState(id, from, to))
         /\ Comes(WithState(id, from, to), queue) /\ Holds(WithState(id, from, to), queue)
<1> DEFINE q == WithState(id, from, to)
<1>1. /\ DOMAIN queue = 1 .. Len(queue) /\ Len(queue) \in Nat
      /\ \A k \in DOMAIN queue : queue[k] \in Items
  BY ProperItem
<1>2. DOMAIN q = DOMAIN queue
  BY DEF WithState
<1>3. \A k \in DOMAIN queue : q[k] \in Items /\ q[k].id = queue[k].id /\ q[k].source = queue[k].source
  BY <1>1 DEF WithState, Items
<1>4. q = [k \in 1 .. Len(queue) |-> q[k]]
  BY <1>1 DEF WithState
<1> HIDE DEF q
<1>5. q \in Seq(Items)
  BY <1>1, <1>3, <1>4
<1>6. Proper(q)
  BY <1>2, <1>3, <1>5 DEF Proper
<1>7. Comes(q, queue) /\ Holds(q, queue)
  BY <1>2, <1>3 DEF Comes, Holds, Of
<1> QED  BY <1>6, <1>7 DEF q

(* A new instruction is added to those that are there.                     *)
LEMMA AppendFacts ==
  ASSUME NEW q, Proper(q), NEW item \in Items, \A x \in Of(q) : x.id # item.id
  PROVE  Proper(Append(q, item)) /\ Of(Append(q, item)) = Of(q) \cup {item}
<1> DEFINE r == Append(q, item)
<1>1. DOMAIN q = 1 .. Len(q) /\ Len(q) \in Nat /\ q \in Seq(Items)
  BY ProperItem DEF Proper
<1>2. r \in Seq(Items) /\ Len(r) = Len(q) + 1
  BY <1>1
<1>3. DOMAIN r = 1 .. Len(q) + 1
  BY <1>2, LenProperties
<1>4. \A i \in 1 .. Len(q) : r[i] = q[i]
  BY <1>1
<1>5. r[Len(q) + 1] = item
  BY <1>1
<1> HIDE DEF r
<1>6. \A i, j \in DOMAIN r : r[i].id = r[j].id => i = j
  <2> SUFFICES ASSUME NEW i \in DOMAIN r, NEW j \in DOMAIN r, r[i].id = r[j].id PROVE i = j
    OBVIOUS
  <2>1. CASE i \in 1 .. Len(q) /\ j \in 1 .. Len(q)
    BY <1>1, <1>4, <2>1 DEF Proper
  <2>2. \A k \in 1 .. Len(q) : r[k].id # item.id
    BY <1>1, <1>4 DEF Of
  <2> QED  BY <1>1, <1>3, <1>5, <2>1, <2>2
<1>7. Of(r) = Of(q) \cup {item}
  <2>1. \A i \in DOMAIN r : r[i] \in Of(q) \cup {item}
    BY <1>1, <1>3, <1>4, <1>5 DEF Of
  <2>2. \A x \in Of(q) : \E i \in DOMAIN r : r[i] = x
    BY <1>1, <1>3, <1>4 DEF Of
  <2>3. Len(q) + 1 \in DOMAIN r
    BY <1>1, <1>3
  <2> QED  BY <1>5, <2>1, <2>2, <2>3 DEF Of
<1> QED  BY <1>2, <1>6, <1>7 DEF Proper, r

(* The instruction at a place is dispatched under a source.                *)
LEMMA MarkedFacts ==
  ASSUME Proper(queue), NEW k \in DOMAIN queue, NEW source \in Sources,
         NEW q, q = [queue EXCEPT ![k].state = "dispatching", ![k].source = source]
  PROVE  /\ Proper(q) /\ Holds(q, queue)
         /\ \A x \in Of(q) : \/ x \in Of(queue) /\ x.id # queue[k].id
                             \/ x.id = queue[k].id /\ x.source = source
<1>1. /\ DOMAIN queue = 1 .. Len(queue) /\ Len(queue) \in Nat /\ queue \in Seq(Items)
      /\ \A j \in DOMAIN queue : queue[j] \in Items
  BY ProperItem DEF Proper
<1> DEFINE item == [queue[k] EXCEPT !.state = "dispatching", !.source = source]
<1>2. item \in Items /\ item.id = queue[k].id /\ item.source = source
  BY <1>1 DEF Items
<1>3. q = [queue EXCEPT ![k] = item]
  BY <1>1
<1> HIDE DEF item
<1>4. DOMAIN q = DOMAIN queue /\ \A j \in DOMAIN queue : q[j] = IF j = k THEN item ELSE queue[j]
  BY <1>1, <1>3
<1>5. q \in Seq(Items)
  <2>1. ASSUME NEW s \in Seq(Items), NEW i \in 1 .. Len(s), NEW e \in Items
        PROVE  [s EXCEPT ![i] = e] \in Seq(Items)
    BY ExceptSeq
  <2>2. k \in 1 .. Len(queue) /\ queue \in Seq(Items) /\ item \in Items
    BY <1>1, <1>2
  <2>3. [queue EXCEPT ![k] = item] \in Seq(Items)
    BY <2>1, <2>2, Zenon
  <2> QED  BY <1>3, <2>3, Zenon
<1>6. \A i, j \in DOMAIN q : q[i].id = q[j].id => i = j
  BY <1>2, <1>4 DEF Proper
<1>7. \A j \in DOMAIN queue : q[j].id = queue[j].id
  BY <1>2, <1>4
<1>8. Holds(q, queue)
  BY <1>4, <1>7 DEF Holds, Of
<1>9. \A j \in DOMAIN q : \/ q[j] \in Of(queue) /\ q[j].id # queue[k].id
                          \/ q[j].id = queue[k].id /\ q[j].source = source
  BY <1>2, <1>4, <1>7 DEF Of, Proper
<1>10. \A x \in Of(q) : \/ x \in Of(queue) /\ x.id # queue[k].id
                        \/ x.id = queue[k].id /\ x.source = source
  BY <1>9 DEF Of
<1> QED  BY <1>5, <1>6, <1>8, <1>10 DEF Proper

----------------------------------------------------------------------------
(* The invariant of the window and the service                             *)

(* The instructions an agent was given.                                    *)
Hands == {g.id : g \in given}

(* What the variables hold.                                                *)
Shapes ==
  /\ window \in {"closed", "open", "ready"} /\ front \in BOOLEAN /\ drain \in BOOLEAN /\ crossed \in BOOLEAN
  /\ Proper(queue) /\ Proper(saved.queue) /\ marked \subseteq Sources
  /\ lane \in {0} \cup Sources /\ gone \subseteq Ids /\ excused \subseteq Ids
  /\ used \in [Counters -> Nat] /\ used.sent <= MaxInstructions
(* The one dispatch of the open window is that of an instruction under a   *)
(* source drawn for it.                                                    *)
Dispatches ==
  \/ gate = NoGate
  \/ /\ Shown
     /\ gate \in [id : 1 .. used.sent, source : Sources, queued : BOOLEAN,
                  phase : {"claimed", "waiting", "accepted", "refused", "watching", "done"}]
     /\ owner[gate.source] = gate.id
(* So is a supplement, which outlives the window that sent it.             *)
Supplements ==
  \/ supp = NoSupp
  \/ supp \in [id : 1 .. used.sent, era : 0 .. Era, source : Sources, phase : {"sent", "taken", "deferred"}]

(* A source belongs to the instruction it was drawn for.                   *)
Owned ==
  /\ owner \in [Sources -> 0 .. used.sent]
  /\ \A s \in Sources : s > used.sources => owner[s] = 0
  /\ \A x \in Of(queue) \cup Of(saved.queue) : x.id <= used.sent /\ (x.source # 0 => owner[x.source] = x.id)
  /\ \A a \in starts : owner[a.source] # 0 /\ a.era <= Era
  /\ given \subseteq [id : Ids, source : {0} \cup Sources, run : 1 .. MaxRuns]
  /\ \A g \in given : g.id \in 1 .. used.sent /\ g.run \in 1 .. MaxRuns /\ (g.source # 0 => owner[g.source] = g.id)

(* What was accepted, taken or recorded is in an agent's hands, and what   *)
(* is dispatched from the queue is still known there.                      *)
Known ==
  /\ \A a \in starts : a.era = Era => gate.phase = "waiting" /\ gate.source = a.source
  /\ \A a, b \in starts : a.era = Era /\ b.era = Era => a = b
  /\ \A s \in Sources : mem[s] # NoRecord \/ disk[s] # NoRecord => owner[s] \in Hands
  /\ \A a \in starts : a.step = "found" => owner[a.source] \in Hands
  /\ gate.phase \in {"accepted", "watching", "done"} => gate.id \in Hands
  /\ supp.phase = "taken" => supp.id \in Hands
  /\ gate.queued => \/ gate.id \in gone \/ gate.id \in Hands
                    \/ \E x \in Of(queue) : x.id = gate.id

(* The queue, or the copy of it that will be opened.                       *)
Pending == IF Shown THEN Of(queue) ELSE Of(saved.queue)
(* No instruction is forgotten: it was given up, is being dispatched, was  *)
(* given to an agent or is pending.                                        *)
Told ==
  \A id \in 1 .. used.sent :
    id \in gone \/ gate.id = id \/ id \in Hands \/ \E x \in Pending : x.id = id

(* An instruction that is not excused has one source, and a source one     *)
(* start that may still run it.                                            *)
Once ==
  /\ \A a, b \in starts : a.source = b.source => a = b \/ owner[a.source] \in excused
  /\ \A a \in starts, g \in given : a.step = "absent" /\ g.source = a.source => owner[a.source] \in excused
  /\ \A s, t \in Sources : owner[s] = owner[t] /\ owner[s] # 0 => s = t \/ owner[s] \in excused

(* What is pending knows the source it was dispatched under, and does not  *)
(* outlive its supplement.                                                 *)
Again ==
  \A x \in Pending :
    /\ \A s \in Sources : owner[s] = x.id => s = x.source \/ x.id \in excused
    /\ x.id = supp.id /\ (supp.era # Era \/ ~ Shown) => x.id \in excused
    /\ \A g \in given : g.id = x.id /\ g.source = 0 =>
         x.id \in excused \/ (supp.id = x.id /\ supp.phase = "taken")
(* What was taken as a supplement is not dispatched any more, and no start *)
(* that is in the service can be for it, unless it is excused.             *)
Apart ==
  \A g \in given : g.source = 0 /\ g.id \notin excused =>
    gate.id # g.id /\ \A a \in starts : owner[a.source] # g.id

(* The invariant of window, service and network together.                  *)
QInv == Shapes /\ Dispatches /\ Supplements /\ Owned /\ Known /\ Told /\ Once /\ Again /\ Apart

(* What is assumed of the bounds.                                          *)
LEMMA Limits ==
  /\ MaxInstructions \in Nat /\ MaxSources \in Nat /\ MaxRuns \in Nat
  /\ InFront \subseteq BOOLEAN
  BY DispatchAssumption

(* The counters an action leaves alone.                                    *)
LEMMA Spends ==
  ASSUME used \in [Counters -> Nat], NEW what \in Counters, Spend(what)
  PROVE  used' \in [Counters -> Nat] /\ \A c \in Counters : c # what => used'[c] = used[c]
  BY DEF Spend

LEMMA Stays ==
  ASSUME used \in [Counters -> Nat], \/ UNCHANGED used
                                     \/ \E what \in Counters \ {"sent", "sources", "closes"} : Spend(what)
  PROVE  used' \in [Counters -> Nat] /\ used'.sent = used.sent /\ used'.sources = used.sources /\ used'.closes = used.closes
<1>1. CASE UNCHANGED used
  BY <1>1
<1>2. ASSUME NEW what \in Counters \ {"sent", "sources", "closes"}, Spend(what)
      PROVE  /\ used' \in [Counters -> Nat] /\ used'.sent = used.sent
             /\ used'.sources = used.sources /\ used'.closes = used.closes
  BY <1>2, Spends DEF Counters
<1> QED  BY <1>1, <1>2

(* A step that draws and gives nothing and starts nothing.                 *)
Calm ==
  /\ UNCHANGED <<owner, given>> /\ excused \subseteq excused' /\ starts' \subseteq starts
  /\ used'.sent = used.sent /\ used'.sources = used.sources /\ used'.closes = used.closes
(* The lists after it come from those before.                              *)
Flows ==
  /\ \A x \in Of(queue') \cup Of(saved'.queue) :
       \E y \in Of(queue) \cup Of(saved.queue) : y.id = x.id /\ y.source = x.source
  /\ \A x \in Pending' : \E y \in Pending : y.id = x.id /\ y.source = x.source
  /\ ~ Shown' => ~ Shown

(* After a calm step every source still belongs to its instruction.        *)
LEMMA CalmOwned == ASSUME Owned, Calm, Flows PROVE Owned'
<1>1. \A x \in Of(queue') \cup Of(saved'.queue) : x.id <= used.sent /\ (x.source # 0 => owner[x.source] = x.id)
  BY DEF Owned, Flows
<1> QED  BY <1>1 DEF Owned, Calm, Era

(* A calm step gives no instruction a second source or start.              *)
LEMMA CalmOnce == ASSUME Once, Calm PROVE Once'
  BY DEF Once, Calm

(* It starts nothing for what was a supplement.                            *)
LEMMA CalmApart == ASSUME Apart, Owned, Calm, gate'.id \in {0, gate.id} PROVE Apart'
<1>1. \A g \in given : g.id # 0
  BY DEF Owned
<1> QED  BY <1>1 DEF Apart, Calm

(* It brings back no instruction that was a supplement.                    *)
LEMMA CalmAgain ==
  ASSUME Again, Calm, Flows,
         supp' = supp \/ /\ supp.phase = "taken" => supp.id \in excused'
                         /\ \/ supp'.id = supp.id /\ supp'.era = supp.era
                            \/ supp'.era = Era /\ Shown'
  PROVE  Again'
<1> SUFFICES ASSUME NEW x \in Pending'
             PROVE  /\ \A s \in Sources : owner[s] = x.id => s = x.source \/ x.id \in excused'
                    /\ x.id = supp'.id /\ (supp'.era # Era \/ ~ Shown') => x.id \in excused'
                    /\ \A g \in given : g.id = x.id /\ g.source = 0 =>
                         x.id \in excused' \/ (supp'.id = x.id /\ supp'.phase = "taken")
  BY DEF Again, Calm, Era
<1>1. PICK y \in Pending : y.id = x.id /\ y.source = x.source
  BY DEF Flows
<1> QED  BY <1>1 DEF Again, Flows, Calm

(* It forgets nothing, if what leaves the gate or the lists is accounted   *)
(* for.                                                                    *)
LEMMA CalmTold ==
  ASSUME Told, Calm, gone \subseteq gone',
         gate.id # 0 => gate'.id = gate.id \/ gate.id \in Hands \/ gate.id \in gone' \/ \E x \in Pending' : x.id = gate.id,
         \A y \in Pending : \/ y.id \in gone' \/ gate'.id = y.id \/ y.id \in Hands
                            \/ \E x \in Pending' : x.id = y.id
  PROVE  Told'
<1> SUFFICES ASSUME NEW id \in 1 .. used.sent
             PROVE  id \in gone' \/ gate'.id = id \/ id \in Hands \/ \E x \in Pending' : x.id = id
  BY DEF Told, Calm, Hands
<1>1. id \in gone \/ gate.id = id \/ id \in Hands \/ \E x \in Pending : x.id = id
  BY DEF Told
<1>2. CASE gate.id = id
  BY <1>2
<1>3. CASE \E x \in Pending : x.id = id
  BY <1>3
<1> QED  BY <1>1, <1>2, <1>3

(* What was recorded or accepted before a calm step is in the same hands   *)
(* after it.                                                               *)
LEMMA CalmKnown ==
  ASSUME Known, Calm, gone \subseteq gone',
         gate' = gate \/ gate.phase # "waiting" \/ starts' = {},
         \A s \in Sources : mem'[s] # NoRecord \/ disk'[s] # NoRecord => mem[s] # NoRecord \/ disk[s] # NoRecord,
         gate'.phase \in {"accepted", "watching", "done"} =>
           gate'.id = gate.id /\ gate.phase \in {"accepted", "watching", "done"},
         supp'.phase = "taken" => supp' = supp,
         gate'.queued => gate.queued /\ gate'.id = gate.id,
         gate'.queued => \A y \in Of(queue) : y.id = gate.id =>
           gate.id \in gone' \/ gate.id \in Hands \/ \E x \in Of(queue') : x.id = gate.id
  PROVE  Known'
<1>1. Hands' = Hands
  BY DEF Calm, Hands
<1>2. \A a \in starts' : a \in starts
  BY DEF Calm
<1>3. \A a \in starts' : a.era = Era' => gate'.phase = "waiting" /\ gate'.source = a.source
  BY <1>2 DEF Known, Calm, Era
<1>4. \A a, b \in starts' : a.era = Era' /\ b.era = Era' => a = b
  BY <1>2 DEF Known, Calm, Era
<1>5. \A s \in Sources : mem'[s] # NoRecord \/ disk'[s] # NoRecord => owner'[s] \in Hands'
  BY <1>1 DEF Known, Calm
<1>6. \A a \in starts' : a.step = "found" => owner'[a.source] \in Hands'
  BY <1>1, <1>2 DEF Known, Calm
<1>7. gate'.phase \in {"accepted", "watching", "done"} => gate'.id \in Hands'
  BY <1>1 DEF Known
<1>8. supp'.phase = "taken" => supp'.id \in Hands'
  BY <1>1 DEF Known
<1>9. gate'.queued => \/ gate'.id \in gone' \/ gate'.id \in Hands'
                      \/ \E x \in Of(queue') : x.id = gate'.id
  BY <1>1 DEF Known
<1> QED  BY <1>3, <1>4, <1>5, <1>6, <1>7, <1>8, <1>9 DEF Known

(* The phases of a dispatch whose start was answered, and all of them.     *)
Given == {"accepted", "watching", "done"}
Phases == {"claimed", "waiting", "refused"} \cup Given

(* What a calm step may do to the gate, to a supplement, to the queue and  *)
(* to the records.                                                         *)
GateSteps ==
  /\ \/ gate' = gate \/ gate' = NoGate
     \/ gate # NoGate /\ \E p \in Phases : gate' = [gate EXCEPT !.phase = p]
  /\ gate' = gate \/ gate.phase # "waiting" \/ starts' = {}
  /\ gate'.phase \in Given => gate.phase \in Given
  /\ gate' = NoGate /\ gate # NoGate => gate.id \in Hands \cup gone' \/ \E x \in Pending' : x.id = gate.id
SuppSteps ==
  \/ supp' = supp
  \/ /\ supp.phase = "taken" => supp.id \in excused'
     /\ supp'.phase # "taken"
     /\ \/ supp'.id = supp.id /\ supp'.era = supp.era
        \/ supp'.era = Era /\ Shown'
QueueSteps ==
  /\ Flows /\ gone \subseteq gone'
  /\ \A y \in Pending : y.id \in gone' \cup Hands \/ gate'.id = y.id \/ \E x \in Pending' : x.id = y.id
  /\ \A y \in Of(queue) : y.id \in gone' \cup Hands \/ \E x \in Of(queue') : x.id = y.id
RecordSteps ==
  \A s \in Sources : mem'[s] # NoRecord \/ disk'[s] # NoRecord => mem[s] # NoRecord \/ disk[s] # NoRecord

(* What a calm step leaves of the dispatch.                                *)
LEMMA CalmGate ==
  ASSUME Dispatches, GateSteps
  PROVE  /\ gate'.id \in {0, gate.id}
         /\ gate'.phase \in Given => gate'.id = gate.id /\ gate.phase \in Given
         /\ gate'.queued => gate.queued /\ gate'.id = gate.id
         /\ gate.id # 0 => \/ gate'.id = gate.id \/ gate.id \in Hands \cup gone'
                           \/ \E x \in Pending' : x.id = gate.id
<1>1. CASE gate' = gate
  BY <1>1 DEF GateSteps
<1>2. CASE gate' = NoGate
  BY <1>2 DEF GateSteps, NoGate, Given
<1>3. ASSUME gate # NoGate, NEW p \in Phases, gate' = [gate EXCEPT !.phase = p]
      PROVE  gate'.id = gate.id /\ gate'.queued = gate.queued
  BY <1>3 DEF Dispatches
<1>4. CASE gate # NoGate /\ \E p \in Phases : gate' = [gate EXCEPT !.phase = p]
  BY <1>3, <1>4 DEF GateSteps
<1> QED  BY <1>1, <1>2, <1>4 DEF GateSteps

(* The dispatch keeps its instruction and its source.                      *)
LEMMA CalmDispatches == ASSUME Dispatches, Calm, Flows, GateSteps PROVE Dispatches'
<1>1. CASE gate' = gate
  BY <1>1 DEF Dispatches, Calm, Flows
<1>2. CASE gate' = NoGate
  BY <1>2 DEF Dispatches
<1>3. ASSUME gate # NoGate, NEW p \in Phases, gate' = [gate EXCEPT !.phase = p] PROVE Dispatches'
  BY <1>3 DEF Dispatches, Calm, Flows, Phases, Given
<1> QED  BY <1>1, <1>2, <1>3 DEF GateSteps

(* A calm step of these kinds preserves the whole invariant.               *)
LEMMA CalmQInv ==
  ASSUME QInv, Calm, Shapes', Supplements', GateSteps, SuppSteps, QueueSteps, RecordSteps
  PROVE  QInv'
<1>1. Flows
  BY DEF QueueSteps
<1>2. Dispatches'
  BY <1>1, CalmDispatches DEF QInv
<1>3. Owned' /\ Once'
  BY <1>1, CalmOwned, CalmOnce DEF QInv
<1>4. Again'
  BY <1>1, CalmAgain DEF QInv, SuppSteps
<1>5. /\ gate'.id \in {0, gate.id}
      /\ gate'.phase \in Given => gate'.id = gate.id /\ gate.phase \in Given
      /\ gate'.queued => gate.queued /\ gate'.id = gate.id
      /\ gate.id # 0 => \/ gate'.id = gate.id \/ gate.id \in Hands \cup gone'
                        \/ \E x \in Pending' : x.id = gate.id
  BY CalmGate DEF QInv
<1>6. Apart'
  BY <1>5, CalmApart DEF QInv
<1>7. Told'
  BY <1>5, CalmTold DEF QInv, QueueSteps
<1>8. Known'
  <2>1. Known /\ gone \subseteq gone'
    BY DEF QInv, QueueSteps
  <2>2. gate' = gate \/ gate.phase # "waiting" \/ starts' = {}
    BY DEF GateSteps
  <2>3. supp'.phase = "taken" => supp' = supp
    BY DEF SuppSteps
  <2>4. \A y \in Of(queue) : y.id = gate.id =>
          gate.id \in gone' \/ gate.id \in Hands \/ \E x \in Of(queue') : x.id = gate.id
    BY DEF QueueSteps
  <2> QED  BY <1>5, <2>1, <2>2, <2>3, <2>4, CalmKnown DEF RecordSteps, Given
<1> QED  BY <1>2, <1>3, <1>4, <1>6, <1>7, <1>8 DEF QInv

(* Steps that leave one of them as it is.                                  *)
LEMMA SameGate == ASSUME gate' = gate PROVE GateSteps
<1>1. ~ (gate' = NoGate /\ gate # NoGate)
  OBVIOUS
<1> QED  BY <1>1 DEF GateSteps

LEMMA SameSupp == ASSUME Supplements, Calm, supp' = supp PROVE SuppSteps /\ Supplements'
  BY DEF SuppSteps, Supplements, Calm, Era

LEMMA SameQueue == ASSUME UNCHANGED <<queue, saved, window, gone>> PROVE QueueSteps
  BY DEF QueueSteps, Flows, Pending, Shown

LEMMA SameRecords == ASSUME UNCHANGED <<mem, disk>> PROVE RecordSteps
  BY DEF RecordSteps

(* The open window's queue is another one with the same instructions.      *)
LEMMA MovedQueue ==
  ASSUME UNCHANGED <<saved, window>>, gone \subseteq gone', Comes(queue', queue),
         \A y \in Of(queue) : y.id \in gone' \cup Hands \/ \E x \in Of(queue') : x.id = y.id
  PROVE  QueueSteps
<1>1. Flows
  BY DEF Flows, Pending, Shown, Comes
<1> QED  BY <1>1 DEF QueueSteps, Pending, Shown

(* A supplement under way is that of an instruction.                       *)
LEMMA ExcusedIds == ASSUME Shapes, Supplements, supp # NoSupp PROVE supp.id \in Ids
<1>1. used.sent \in Nat /\ used.sent <= MaxInstructions
  BY DEF Shapes, Counters
<1> QED  BY <1>1, Limits DEF Supplements, Ids

(* The network loses the answer of a start, or of a supplement, which is   *)
(* excused from then on.                                                   *)
LEMMA LoseQ == ASSUME QInv, LoseAnswer PROVE QInv'
<1> USE DEF QInv
<1>1. used \in [Counters -> Nat] /\ "lost" \in Counters \ {"sent", "sources", "closes"}
  BY DEF Shapes, Counters
<1>2. Calm /\ used' \in [Counters -> Nat]
  BY <1>1, Stays DEF LoseAnswer, Calm, service
<1>3. Shapes'
  <2>1. excused' \subseteq Ids
    <3>1. excused \subseteq Ids
      BY DEF Shapes
    <3>2. excused' = excused \/ (supp # NoSupp /\ excused' = excused \cup {supp.id})
      BY DEF LoseAnswer, NoSupp
    <3> QED  BY <3>1, <3>2, ExcusedIds
  <2> QED  BY <1>2, <2>1 DEF Shapes, LoseAnswer, service, Calm
<1>4. GateSteps
  BY DEF LoseAnswer, GateSteps, Given, Phases, NoGate
<1>5. SuppSteps /\ Supplements'
  <2>1. CASE supp' = supp
    BY <1>2, <2>1, SameSupp
  <2>2. CASE supp.phase = "taken" /\ supp' = [supp EXCEPT !.phase = "deferred"] /\ excused' = excused \cup {supp.id}
    BY <1>2, <2>2 DEF SuppSteps, Supplements, NoSupp, Calm, Era
  <2> QED  BY <2>1, <2>2 DEF LoseAnswer
<1> QED  BY <1>2, <1>3, <1>4, <1>5, SameQueue, SameRecords, CalmQInv DEF LoseAnswer, service

(* An accepted start is acknowledged: its instruction leaves the queue,    *)
(* into an agent's hands.                                                  *)
LEMMA StartedQ == ASSUME QInv, Started PROVE QInv'
<1> USE DEF QInv
<1>1. Calm
  BY DEF Started, Calm, service, ghosts
<1> DEFINE q == IF gate.queued THEN Acked(gate.id) ELSE queue
<1>2. Proper(queue) /\ gate.id \in Hands
  BY DEF Started, Shapes, Known
<1>3. /\ Proper(q) /\ Of(q) \subseteq Of(queue)
      /\ \A x \in Of(queue) : x.id # gate.id => x \in Of(q)
  BY <1>2, AckedFacts
<1>4. queue' = Ordered(q)
  BY DEF Started
<1> HIDE DEF q
<1>5. Proper(queue') /\ Of(queue') = Of(q)
  BY <1>3, <1>4, OrderedFacts
<1>6. QueueSteps
  BY <1>2, <1>3, <1>5, MovedQueue DEF Started, ghosts, Comes
<1>7. Shapes'
  BY <1>5 DEF Shapes, Started, service, ghosts
<1>8. GateSteps
  BY DEF Started, GateSteps, Given, Phases, NoGate
<1> QED  BY <1>1, <1>6, <1>7, <1>8, SameSupp, SameRecords, CalmQInv DEF Started, service

(* A start that failed puts its instruction back at the front of the       *)
(* queue, or makes it one of the queue.                                    *)
LEMMA NotStartedQ == ASSUME QInv, NotStarted PROVE QInv'
<1> USE DEF QInv
<1>1. Calm /\ Shown /\ Shown' /\ gate.id \in Ids
  <2>1. gate # NoGate
    BY DEF NotStarted, NoGate
  <2>2. gate.id \in 1 .. used.sent /\ used.sent <= MaxInstructions /\ used.sent \in Nat
    BY <2>1 DEF Dispatches, Shapes, Counters
  <2> QED  BY <2>1, <2>2, Limits DEF NotStarted, Calm, service, Dispatches, Ids, Shown
<1>2. Proper(Ordered(queue)) /\ Of(Ordered(queue)) = Of(queue)
  BY OrderedFacts DEF Shapes
<1>3. Proper(queue') /\ Comes(queue', queue) /\ Holds(queue', queue)
  <2>1. CASE gate.queued
    BY <1>2, <2>1, NackedFacts DEF NotStarted, Comes, Holds
  <2>2. CASE ~ gate.queued
    BY <1>2, <2>2 DEF NotStarted, Comes, Holds
  <2> QED  BY <2>1, <2>2
<1>4. gone \subseteq gone' /\ gone' \subseteq gone \cup {gate.id} /\ (~ gate.queued => gate.id \in gone') /\ drain' \in BOOLEAN
  BY DEF NotStarted, Shapes
<1>5. QueueSteps
  BY <1>3, <1>4, MovedQueue DEF NotStarted, Holds
<1>6. Shapes'
  BY <1>1, <1>3, <1>4 DEF Shapes, NotStarted, service
<1>7. GateSteps
  <2>1. gate.id \in Hands \cup gone' \/ \E x \in Of(queue') : x.id = gate.id
    BY <1>3, <1>4 DEF Known, Holds
  <2>2. gate' = NoGate /\ gate.phase = "refused"
    BY DEF NotStarted
  <2> QED  BY <1>1, <2>1, <2>2 DEF GateSteps, Given, NoGate, Pending
<1> QED  BY <1>1, <1>5, <1>6, <1>7, SameSupp, SameRecords, CalmQInv DEF NotStarted, service

----------------------------------------------------------------------------
(* The actions of the window, and of the service without a start           *)

(* The gate is released only when its instruction is accounted for.        *)
LEMMA ReleaseQ == ASSUME QInv, ReleaseGate PROVE QInv'
<1> USE DEF QInv
<1>1. Calm
  BY DEF ReleaseGate, Calm, service, ghosts
<1>2. Shapes'
  BY DEF Shapes, ReleaseGate, service, ghosts
<1>3. GateSteps
  <2>1. gate.id \in Hands
    BY DEF ReleaseGate, Known
  <2> QED  BY <2>1 DEF ReleaseGate, GateSteps, Given, NoGate
<1> QED  BY <1>1, <1>2, <1>3, SameSupp, SameQueue, SameRecords, CalmQInv DEF ReleaseGate, service, ghosts

(* A task that ended leaves the queue sorted and its records as they are.  *)
LEMMA WatchQ == ASSUME IInv, QInv, NEW c \in cards, WatchEnds(c) PROVE QInv'
<1> USE DEF QInv
<1>1. Calm
  BY DEF WatchEnds, Calm, ghosts
<1>2. Proper(queue') /\ Of(queue') = Of(queue)
  BY OrderedFacts DEF Shapes, WatchEnds
<1>3. QueueSteps
  BY <1>2, MovedQueue DEF WatchEnds, ghosts, Comes
<1>4. Shapes'
  BY <1>2 DEF Shapes, WatchEnds, ghosts
<1>5. GateSteps
  BY DEF WatchEnds, GateSteps, Given, Phases, NoGate
<1>6. RecordSteps
  <2>1. c.source \in Sources /\ mem \in [Sources -> Records] /\ disk \in [Sources -> Records]
    BY DEF IInv, Typed, Carded, Served, Cards
  <2>2. mem[c.source] # NoRecord \/ disk[c.source] # NoRecord
    BY DEF WatchEnds, Terminal, Restored, FromFile, NoRecord
  <2> QED  BY <2>1, <2>2 DEF WatchEnds, RecordSteps
<1> QED  BY <1>1, <1>3, <1>4, <1>5, <1>6, SameSupp, CalmQInv DEF WatchEnds

(* The user edits an instruction that waits, and sends it again.           *)
LEMMA EditQ == ASSUME QInv, NEW id \in Ids, BeginEdit(id) \/ SendEdited(id) PROVE QInv'
<1> USE DEF QInv
<1>1. used \in [Counters -> Nat] /\ "edits" \in Counters \ {"sent", "sources", "closes"}
  BY DEF Shapes, Counters
<1>2. Calm /\ used' \in [Counters -> Nat]
  BY <1>1, Stays DEF BeginEdit, SendEdited, Calm, service, ghosts
<1>3. Proper(queue') /\ Comes(queue', queue) /\ Holds(queue', queue)
  BY WithStateFacts DEF Shapes, BeginEdit, SendEdited
<1>4. QueueSteps
  BY <1>3, MovedQueue DEF BeginEdit, SendEdited, ghosts, Holds
<1>5. Shapes'
  BY <1>2, <1>3 DEF Shapes, BeginEdit, SendEdited, service, ghosts, Calm
<1> QED  BY <1>2, <1>4, <1>5, SameGate, SameSupp, SameRecords, CalmQInv DEF BeginEdit, SendEdited, service

(* The user gives an instruction up.                                       *)
LEMMA DeleteQ == ASSUME QInv, NEW id \in Ids, Delete(id) PROVE QInv'
<1> USE DEF QInv
<1>1. used \in [Counters -> Nat] /\ "deletes" \in Counters \ {"sent", "sources", "closes"}
  BY DEF Shapes, Counters
<1>2. Calm /\ used' \in [Counters -> Nat]
  BY <1>1, Stays DEF Delete, Calm, service
<1>3. Proper(queue') /\ Of(queue') = {x \in Of(queue) : x.id # id} /\ gone' = gone \cup {id}
  BY WithoutFacts DEF Shapes, Delete
<1>4. QueueSteps
  BY <1>3, MovedQueue DEF Delete, Comes
<1>5. Shapes'
  BY <1>2, <1>3 DEF Shapes, Delete, service, Calm
<1> QED  BY <1>2, <1>4, <1>5, SameGate, SameSupp, SameRecords, CalmQInv DEF Delete, service

(* The user sends a waiting instruction to the agent at work.              *)
LEMMA SupplementQ == ASSUME IInv, QInv, NEW id \in Ids, Supplement(id) PROVE QInv'
<1> USE DEF QInv
<1>1. used \in [Counters -> Nat] /\ "supplements" \in Counters \ {"sent", "sources", "closes"}
  BY DEF Shapes, Counters
<1>2. Calm /\ used' \in [Counters -> Nat]
  BY <1>1, Stays DEF Supplement, Calm, service, ghosts
<1>3. Shapes'
  BY <1>2 DEF Shapes, Supplement, service, ghosts, Calm
<1>4. PICK c \in cards :
        supp' = [id |-> id, era |-> Era, source |-> c.source, phase |-> IF c.known THEN "sent" ELSE "deferred"]
  BY DEF Supplement
<1>5. c.source \in Sources
  BY DEF IInv, Typed, Carded, Cards
<1>6. id \in 1 .. used.sent /\ Era \in Nat
  <2>1. PICK x \in Of(queue) : x.id = id
    BY DEF Supplement, QueueIds, Of
  <2>2. used.sent \in Nat /\ Era \in Nat
    BY <1>1 DEF Counters, Era
  <2> QED  BY <2>1, <2>2 DEF Owned, Ids
<1>7. Supplements'
  BY <1>2, <1>4, <1>5, <1>6 DEF Supplements, Era, Calm
<1>8. SuppSteps
  BY <1>2, <1>4 DEF SuppSteps, Supplement, NoSupp, Shown
<1> QED  BY <1>2, <1>3, <1>7, <1>8, SameGate, SameQueue, SameRecords, CalmQInv DEF Supplement, service, ghosts

(* The window's state is saved.                                            *)
LEMMA SaveQ == ASSUME QInv, Save PROVE QInv'
<1> USE DEF QInv
<1>1. Calm
  BY DEF Save, Calm, service, ghosts
<1>2. Shapes'
  BY DEF Shapes, Save, service, ghosts, view
<1>3. QueueSteps
  BY DEF Save, QueueSteps, Flows, Pending, Shown, view, ghosts
<1> QED  BY <1>1, <1>2, <1>3, SameGate, SameSupp, SameRecords, CalmQInv DEF Save, view, service

(* A window opens with the queue that was saved.                           *)
LEMMA OpenQ == ASSUME QInv, Open PROVE QInv'
<1> USE DEF QInv
<1>1. Calm /\ gate = NoGate
  BY DEF Open, Calm, service, ghosts, Dispatches, Shown
<1>2. Shapes'
  BY Limits DEF Shapes, Open, service, ghosts
<1>3. Pending = Of(saved.queue) /\ Pending' = Of(saved.queue) /\ queue' = saved.queue /\ ~ Shown
  BY DEF Open, Pending, Shown
<1>4. QInv'
  <2>1. Flows
    BY <1>3 DEF Flows, Open
  <2>2. Owned' /\ Once'
    BY <1>1, <2>1, CalmOwned, CalmOnce
  <2>3. Again' /\ Apart'
    BY <1>1, <2>1, CalmAgain, CalmApart DEF Open
  <2>4. Told'
    BY <1>1, <1>3, CalmTold DEF Open, ghosts
  <2>5. Known'
    BY <1>1, CalmKnown DEF Open, ghosts, service, NoGate
  <2>6. Dispatches' /\ Supplements'
    BY <1>1, SameSupp DEF Open, Dispatches
  <2> QED  BY <1>2, <2>2, <2>3, <2>4, <2>5, <2>6
<1> QED  BY <1>4

(* It recovers the dispatches it finds in it.                              *)
LEMMA StartupQ == ASSUME IInv, QInv, Startup PROVE QInv'
<1> USE DEF QInv
<1>1. Calm
  BY DEF Startup, Calm, service, ghosts
<1>2. Proper(queue') /\ Comes(queue', queue) /\ Holds(queue', queue)
  BY RecoveredFacts DEF Shapes, Startup
<1>3. Shown /\ Shown'
  BY DEF Startup, Shown
<1>4. QueueSteps
  BY <1>2, <1>3 DEF QueueSteps, Flows, Pending, Comes, Holds, Startup, ghosts
<1>5. marked' \subseteq Sources /\ drain' \in BOOLEAN /\ window' = "ready"
  <2>1. \A x \in cards : x.source \in Sources
    BY DEF IInv, Typed, Carded, Cards
  <2>2. marked' \subseteq Sources
    BY <2>1 DEF Startup
  <2>3. drain' = TRUE \/ drain' = FALSE
    BY DEF Startup, Shapes
  <2> QED  BY <2>2, <2>3 DEF Startup
<1>6. Shapes'
  BY <1>2, <1>5 DEF Shapes, Startup, service, ghosts
<1> QED  BY <1>1, <1>4, <1>6, SameGate, SameSupp, SameRecords, CalmQInv DEF Startup, service

(* It asks after its cards.                                                *)
LEMMA ReconcileQ == ASSUME QInv, NEW s \in marked, Reconcile(s) PROVE QInv'
<1> USE DEF QInv
<1>1. Calm
  BY DEF Reconcile, Calm, service, ghosts
<1>2. Shapes'
  BY DEF Shapes, Reconcile, service, ghosts
<1> QED  BY <1>1, <1>2, SameGate, SameSupp, SameQueue, SameRecords, CalmQInv DEF Reconcile, service, ghosts

(* A run ends and leaves the lane.                                         *)
LEMMA RunQ == ASSUME IInv, QInv, NEW r \in live, EndRun(r) \/ LeaveLane(r) PROVE QInv'
<1> USE DEF QInv
<1>1. Calm
  BY DEF EndRun, LeaveLane, Calm, service, ghosts
<1>2. Shapes'
  BY DEF Shapes, EndRun, LeaveLane, ghosts, view
<1>3. RecordSteps
  <2>1. CASE EndRun(r)
    <3>1. /\ r.source \in Sources /\ r.run \in 1 .. MaxRuns
          /\ mem \in [Sources -> Records] /\ disk \in [Sources -> Records]
      BY DEF IInv, Typed, Served
    <3>2. disk[r.source] # NoRecord
      BY <2>1, <3>1 DEF EndRun, AtWork, NoRecord
    <3> QED  BY <2>1, <3>1, <3>2 DEF EndRun, RecordSteps
  <2> QED  BY <2>1, SameRecords DEF LeaveLane
<1> QED  BY <1>1, <1>2, <1>3, SameGate, SameSupp, SameQueue, CalmQInv DEF EndRun, LeaveLane, view, ghosts

(* The service restarts: the records are read from the file.               *)
LEMMA RestartQ == ASSUME IInv, QInv, Restart PROVE QInv'
<1> USE DEF QInv
<1>1. used \in [Counters -> Nat] /\ "restarts" \in Counters \ {"sent", "sources", "closes"}
  BY DEF Shapes, Counters
<1>2. Calm /\ used' \in [Counters -> Nat]
  BY <1>1, Stays DEF Restart, Calm
<1>3. Shapes'
  <2>1. excused' \subseteq Ids
    <3>1. excused \subseteq Ids
      BY DEF Shapes
    <3>2. excused' = excused \/ (supp # NoSupp /\ excused' = excused \cup {supp.id})
      BY DEF Restart, NoSupp
    <3> QED  BY <3>1, <3>2, ExcusedIds
  <2> QED  BY <1>2, <2>1 DEF Shapes, Restart, Calm
<1>4. GateSteps
  BY DEF Restart, GateSteps, Given, Phases, NoGate
<1>5. SuppSteps /\ Supplements'
  <2>1. CASE supp = NoSupp
    BY <2>1 DEF Restart, SuppSteps, Supplements, NoSupp
  <2>2. CASE supp \in [id : 1 .. used.sent, era : 0 .. Era, source : Sources, phase : {"sent", "taken", "deferred"}]
    BY <1>2, <2>2 DEF Restart, SuppSteps, Supplements, Calm, Era
  <2> QED  BY <2>1, <2>2 DEF Supplements
<1>6. RecordSteps
  BY DEF Restart, RecordSteps
<1> QED  BY <1>2, <1>3, <1>4, <1>5, <1>6, SameQueue, CalmQInv DEF Restart

----------------------------------------------------------------------------
(* Starts and supplements                                                  *)

(* A start reads its record.                                               *)
LEMMA ReadQ == ASSUME IInv, QInv, NEW start \in starts, ReadRecord(start) PROVE QInv'
<1> USE DEF QInv
<1> DEFINE s == start.source
           read == [start EXCEPT !.step = IF disk[s] = NoRecord THEN "absent" ELSE "found"]
<1>1. /\ starts \subseteq [source : Sources, era : Nat, step : {"reading", "absent", "found"}]
      /\ mem \in [Sources -> Records] /\ disk \in [Sources -> Records]
  BY DEF IInv, Typed, Served
<1>2. /\ read.source = s /\ read.era = start.era /\ s \in Sources
      /\ read.step = IF disk[s] = NoRecord THEN "absent" ELSE "found"
  BY <1>1
<1>3. starts' = (starts \ {start}) \cup {read}
  BY DEF ReadRecord
<1> HIDE DEF read
<1>4. UNCHANGED <<view, saved, lane, live, ghosts, used>>
  BY DEF ReadRecord
<1>5. Shapes' /\ Dispatches' /\ Supplements' /\ Told' /\ Again'
  BY <1>4 DEF view, ghosts, Shapes, Dispatches, Supplements, Told, Again, Era, Shown, Hands, Pending
<1>6. Hands' = Hands /\ Era' = Era
  BY <1>4 DEF Hands, ghosts, Era
<1>7. \A a \in starts' : \E b \in starts : b.source = a.source /\ b.era = a.era
  BY <1>2, <1>3
<1>8. Owned'
  BY <1>4, <1>7 DEF Owned, view, ghosts, Era
<1>9. Apart'
  BY <1>4, <1>7 DEF Apart, view, ghosts
<1>10. Once'
  <2>1. \A a, b \in starts' : a.source = b.source => a = b \/ owner[a.source] \in excused
    BY <1>2, <1>3 DEF Once
  <2>2. ASSUME NEW g \in given, g.source = s, read.step = "absent" PROVE FALSE
    BY <1>2, <2>2 DEF IInv, Kept, Sources
  <2>3. \A a \in starts', g \in given : a.step = "absent" /\ g.source = a.source => owner[a.source] \in excused
    BY <1>2, <1>3, <2>2 DEF Once
  <2> QED  BY <1>4, <2>1, <2>3 DEF Once, ghosts
<1>11. Known'
  <2>1. \A a, b \in starts' : a.era = Era /\ b.era = Era => a = b
    BY <1>2, <1>3 DEF Known
  <2>2. disk[s] # NoRecord => owner[s] \in Hands
    BY <1>2 DEF Known
  <2>3. \A t \in Sources : mem'[t] # NoRecord \/ disk'[t] # NoRecord => mem[t] # NoRecord \/ disk[t] # NoRecord
    BY <1>1, <1>2 DEF ReadRecord, FromFile, NoRecord
  <2>4. \A a \in starts' : a.step = "found" => owner[a.source] \in Hands
    BY <1>2, <1>3, <2>2 DEF Known
  <2>5. \A a \in starts' : a.era = Era => gate.phase = "waiting" /\ gate.source = a.source
    BY <1>7 DEF Known
  <2> QED  BY <1>4, <1>6, <2>1, <2>3, <2>4, <2>5 DEF Known, view, ghosts
<1> QED  BY <1>5, <1>8, <1>9, <1>10, <1>11

(* The window asks for a start: no other one with its era is in the        *)
(* service, and one with its source only of an excused instruction.        *)
LEMMA RequestQ == ASSUME IInv, QInv, Request PROVE QInv'
<1> USE DEF QInv
<1> DEFINE s == gate.source
           known == IF mem[s] = NoRecord THEN "reading" ELSE "found"
           new == [source |-> s, era |-> Era, step |-> known]
<1>1. /\ gate # NoGate /\ gate.phase = "claimed" /\ s \in Sources /\ owner[s] = gate.id /\ gate.id \in 1 .. used.sent
      /\ gate \in [id : 1 .. used.sent, source : Sources, queued : BOOLEAN,
                   phase : {"claimed", "waiting", "accepted", "refused", "watching", "done"}]
  <2>1. gate # NoGate
    BY DEF Request, NoGate
  <2> QED  BY <2>1 DEF Request, Dispatches
<1>2. used.sent \in Nat /\ used.sent <= MaxInstructions /\ used \in [Counters -> Nat] /\ Era \in Nat
  BY DEF Shapes, Counters, Era
<1>3. UNCHANGED <<window, front, queue, cards, drain, marked, supp, saved, mem, disk, live, owner, given, gone, used>>
  BY DEF Request
<1>4. Hands' = Hands /\ Era' = Era /\ Pending' = Pending /\ Supplements'
  BY <1>3 DEF Hands, Era, Pending, Shown, Supplements
<1>5. CASE gate' = [gate EXCEPT !.phase = "refused"] /\ UNCHANGED <<starts, lane, crossed, excused>>
  <2>1. Calm /\ Shapes'
    BY <1>3, <1>5 DEF Calm, Shapes
  <2>2. GateSteps
    BY <1>1, <1>5 DEF GateSteps, Given, Phases, NoGate
  <2> QED  BY <1>3, <1>4, <2>1, <2>2, SameSupp, SameQueue, SameRecords, CalmQInv
<1>6. CASE /\ gate' = [gate EXCEPT !.phase = "accepted"] /\ UNCHANGED <<starts, lane, crossed, excused>>
           /\ mem[s].status = "running"
  <2>1. Calm /\ Shapes' /\ Flows
    BY <1>3, <1>4, <1>6 DEF Calm, Shapes, Flows, Shown
  <2>2. gate'.id = gate.id /\ gate'.queued = gate.queued /\ gate'.source = s /\ gate'.phase = "accepted"
    BY <1>1, <1>6
  <2>3. Dispatches'
    BY <1>1, <1>3, <1>6 DEF Dispatches, Shown
  <2>4. Owned' /\ Once' /\ Again' /\ Apart'
    BY <1>3, <2>1, <2>2, CalmOwned, CalmOnce, CalmAgain, CalmApart
  <2>5. Told'
    BY <1>3, <1>4, <2>1, <2>2, CalmTold
  <2>6. gate.id \in Hands
    BY <1>1, <1>6 DEF Known, NoRecord
  <2>7. \A a \in starts : a.era # Era
    BY <1>1 DEF Known
  <2>8. Known'
    BY <1>3, <1>4, <1>6, <2>2, <2>6, <2>7 DEF Known
  <2> QED  BY <1>4, <2>1, <2>3, <2>4, <2>5, <2>8
<1>7. CASE /\ lane' = s /\ starts' = starts \cup {new} /\ gate' = [gate EXCEPT !.phase = "waiting"]
           /\ crossed' = (crossed \/ starts # {})
           /\ excused' = excused \cup {owner[x.source] : x \in {y \in starts : y.source = s}}
  <2>1. gate'.id = gate.id /\ gate'.queued = gate.queued /\ gate'.source = s /\ gate'.phase = "waiting"
    BY <1>1, <1>7
  <2>2. new.source = s /\ new.era = Era /\ new.step = known
    OBVIOUS
  <2> HIDE DEF new
  <2>3. Dispatches'
    BY <1>1, <1>3, <1>7 DEF Dispatches, Shown
  <2>4. \A a \in starts : a.era # Era
    BY <1>1 DEF Known
  <2>5. /\ excused \subseteq excused' /\ excused' \subseteq Ids
        /\ \A x \in starts : x.source = s => owner[s] \in excused'
    BY <1>1, <1>2, <1>7, Limits DEF Shapes, Ids
  <2>6. crossed' \in BOOLEAN
    BY <1>7
  <2>7. Shapes'
    BY <1>1, <1>3, <1>7, <2>5, <2>6 DEF Shapes
  <2>8. Owned'
    BY <1>1, <1>2, <1>3, <1>4, <1>7, <2>2 DEF Owned
  <2>9. Told'
    BY <1>3, <1>4, <2>1 DEF Told
  <2>10. Again'
    BY <1>3, <1>4, <2>5 DEF Again, Shown
  <2>11. Apart'
    BY <1>1, <1>3, <1>7, <2>1, <2>2, <2>5 DEF Apart
  <2>12. Once'
    <3>1. \A a, b \in starts' : a.source = b.source => a = b \/ owner[a.source] \in excused'
      BY <1>7, <2>2, <2>5 DEF Once
    <3>2. new.step # "absent"
      BY <2>2
    <3>3. \A a \in starts', g \in given : a.step = "absent" /\ g.source = a.source => owner[a.source] \in excused'
      BY <1>7, <2>5, <3>2 DEF Once
    <3> QED  BY <1>3, <2>5, <3>1, <3>3 DEF Once
  <2>13. Known'
    <3>1. \A a \in starts' : a.step = "found" => owner[a.source] \in Hands
      BY <1>1, <1>7, <2>2 DEF Known
    <3>2. \A a \in starts' : a.era = Era => gate'.phase = "waiting" /\ gate'.source = a.source
      BY <1>7, <2>1, <2>2, <2>4
    <3>3. \A a, b \in starts' : a.era = Era /\ b.era = Era => a = b
      BY <1>7, <2>4
    <3> QED  BY <1>3, <1>4, <2>1, <3>1, <3>2, <3>3 DEF Known
  <2> QED  BY <1>4, <2>3, <2>7, <2>8, <2>9, <2>10, <2>11, <2>12, <2>13
<1>8. \/ gate' = [gate EXCEPT !.phase = "refused"] /\ UNCHANGED <<starts, lane, crossed, excused>>
      \/ /\ gate' = [gate EXCEPT !.phase = "accepted"] /\ UNCHANGED <<starts, lane, crossed, excused>>
         /\ mem[s].status = "running"
      \/ /\ lane' = s /\ starts' = starts \cup {new} /\ gate' = [gate EXCEPT !.phase = "waiting"]
         /\ crossed' = (crossed \/ starts # {})
         /\ excused' = excused \cup {owner[x.source] : x \in {y \in starts : y.source = s}}
  BY <1>1 DEF Request, Answer
<1> QED  BY <1>5, <1>6, <1>7, <1>8

(* The answer of a start reaches the dispatch it is the answer to.         *)
LEMMA Answered ==
  ASSUME QInv, NEW start \in starts, Answer(start.era, "accepted")
  PROVE  /\ gate'.id = gate.id /\ gate'.queued = gate.queued /\ gate'.source = gate.source
         /\ gate' = gate \/ (start.era = Era /\ gate # NoGate /\ gate' = [gate EXCEPT !.phase = "accepted"])
         /\ start.era = Era => gate.source = start.source /\ gate.id = owner[start.source] /\ gate'.phase = "accepted"
<1>1. start.era = Era => gate.phase = "waiting" /\ gate.source = start.source
  BY DEF QInv, Known
<1>2. CASE start.era = Era
  <2>1. gate # NoGate
    BY <1>1, <1>2 DEF NoGate
  <2>2. /\ owner[gate.source] = gate.id
        /\ gate \in [id : 1 .. used.sent, source : Sources, queued : BOOLEAN,
                     phase : {"claimed", "waiting", "accepted", "refused", "watching", "done"}]
    BY <2>1 DEF QInv, Dispatches
  <2>3. gate' = [gate EXCEPT !.phase = "accepted"]
    BY <1>1, <1>2 DEF Answer
  <2> QED  BY <1>1, <1>2, <2>1, <2>2, <2>3
<1>3. CASE start.era # Era
  BY <1>3 DEF Answer
<1> QED  BY <1>2, <1>3

(* A start ends: its source is run, or was already.                        *)
LEMMA EndStartQ == ASSUME IInv, QInv, NEW start \in starts, EndStart(start) PROVE QInv'
<1> USE DEF QInv
<1> DEFINE s == start.source
           n == Count("runs")
           g0 == [id |-> owner[s], source |-> s, run |-> n]
<1>1. /\ starts \subseteq [source : Sources, era : Nat, step : {"reading", "absent", "found"}]
      /\ mem \in [Sources -> Records] /\ disk \in [Sources -> Records]
  BY DEF IInv, Typed, Served
<1>2. /\ gate'.id = gate.id /\ gate'.queued = gate.queued /\ gate'.source = gate.source
      /\ gate' = gate \/ (start.era = Era /\ gate # NoGate /\ gate' = [gate EXCEPT !.phase = "accepted"])
      /\ start.era = Era => gate.source = s /\ gate.id = owner[s] /\ gate'.phase = "accepted"
  BY Answered DEF EndStart
<1>3. /\ starts' = starts \ {start} /\ start.step # "reading"
      /\ UNCHANGED <<window, front, queue, cards, drain, marked, supp, saved, owner, gone, excused, crossed>>
  BY DEF EndStart
<1>4. used \in [Counters -> Nat] /\ "runs" \in Counters \ {"sent", "sources", "closes"}
  BY DEF Shapes, Counters
<1>5. /\ used' \in [Counters -> Nat] /\ used'.sent = used.sent
      /\ used'.sources = used.sources /\ used'.closes = used.closes
  BY <1>4, Stays DEF EndStart
<1>6. s \in Sources /\ owner[s] \in 1 .. used.sent
  BY <1>1 DEF Owned
<1>7. Shapes'
  BY <1>3, <1>5, <1>6 DEF Shapes, EndStart
<1>8. Dispatches' /\ Supplements'
  <2>1. CASE gate' = gate
    BY <1>3, <1>5, <2>1 DEF Dispatches, Supplements, Shown, Era
  <2>2. CASE gate # NoGate /\ gate' = [gate EXCEPT !.phase = "accepted"]
    BY <1>3, <1>5, <2>2 DEF Dispatches, Supplements, Shown, Era
  <2> QED  BY <1>2, <2>1, <2>2
<1>9. Pending' = Pending /\ Era' = Era /\ (Shown' <=> Shown)
  BY <1>3, <1>5 DEF Pending, Shown, Era
<1>10. \A a \in starts' : a.era = Era => gate'.phase = "waiting" /\ gate'.source = a.source
  BY <1>2, <1>3 DEF Known
<1>11. \A a, b \in starts' : a.era = Era /\ b.era = Era => a = b
  BY <1>3 DEF Known
<1>12. CASE start.step = "found" /\ UNCHANGED <<mem, disk, live, given, used>>
  <2>1. Calm /\ Flows
    BY <1>3, <1>5, <1>9, <1>12 DEF Calm, Flows
  <2>2. Owned' /\ Once' /\ Again' /\ Apart'
    BY <1>2, <1>3, <2>1, CalmOwned, CalmOnce, CalmAgain, CalmApart
  <2>3. Told'
    BY <1>2, <1>3, <1>9, <2>1, CalmTold
  <2>4. owner[s] \in Hands /\ Hands' = Hands
    BY <1>12 DEF Known, Hands
  <2>5. Known'
    <3>1. gate'.phase \in {"accepted", "watching", "done"} => gate'.id \in Hands
      BY <1>2, <2>4 DEF Known
    <3> QED  BY <1>2, <1>3, <1>9, <1>10, <1>11, <1>12, <2>4, <3>1 DEF Known
  <2> QED  BY <1>7, <1>8, <2>2, <2>3, <2>5
<1>13. CASE /\ start.step # "found" /\ n <= MaxRuns /\ given' = given \cup {g0}
            /\ mem' = [mem EXCEPT ![s] = [status |-> "running", run |-> n]]
            /\ disk' = [disk EXCEPT ![s] = mem'[s]]
  <2>0. g0 \in [id : {owner[s]}, source : {s}, run : {n}] /\ owner[s] \in Ids
    <3>1. used.sent \in Nat /\ used.sent <= MaxInstructions
      BY <1>4 DEF Shapes, Counters
    <3> QED  BY <1>6, <3>1, Limits DEF Ids
  <2>1. g0.id = owner[s] /\ g0.source = s /\ g0.run = n /\ s # 0
    BY <1>6 DEF Sources
  <2> HIDE DEF g0
  <2>2. Hands' = Hands \cup {owner[s]}
    BY <1>13, <2>1 DEF Hands
  <2>3. n \in 1 .. MaxRuns
    BY <1>4, <1>13, Limits DEF Count
  <2>4. Owned'
    <3>1. given' \subseteq [id : Ids, source : {0} \cup Sources, run : 1 .. MaxRuns]
      BY <1>6, <1>13, <2>0, <2>3 DEF Owned
    <3>2. \A g \in given' : g.id \in 1 .. used.sent /\ g.run \in 1 .. MaxRuns /\ (g.source # 0 => owner[g.source] = g.id)
      BY <1>6, <1>13, <2>1, <2>3 DEF Owned
    <3> QED  BY <1>3, <1>5, <1>9, <3>1, <3>2 DEF Owned
  <2>5. Told'
    BY <1>2, <1>3, <1>5, <1>9, <2>2 DEF Told
  <2>6. Once'
    <3>1. \A a, b \in starts' : a.source = b.source => a = b \/ owner[a.source] \in excused
      BY <1>3 DEF Once
    <3>2. \A a \in starts' : a.source = s => owner[a.source] \in excused
      BY <1>3 DEF Once
    <3>3. \A a \in starts', g \in given' : a.step = "absent" /\ g.source = a.source => owner[a.source] \in excused
      BY <1>3, <1>13, <2>1, <3>2 DEF Once
    <3> QED  BY <1>3, <3>1, <3>3 DEF Once
  <2>7. Again'
    BY <1>3, <1>9, <1>13, <2>1 DEF Again
  <2>8. Apart'
    BY <1>2, <1>3, <1>13, <2>1 DEF Apart
  <2>9. Known'
    <3>1. \A t \in Sources : mem'[t] # NoRecord \/ disk'[t] # NoRecord => owner[t] \in Hands'
      BY <1>1, <1>6, <1>13, <2>2 DEF Known
    <3>2. gate'.phase \in {"accepted", "watching", "done"} => gate'.id \in Hands'
      BY <1>2, <2>2 DEF Known
    <3> QED  BY <1>2, <1>3, <1>9, <1>10, <1>11, <2>2, <3>1, <3>2 DEF Known
  <2> QED  BY <1>7, <1>8, <2>4, <2>5, <2>6, <2>7, <2>8, <2>9
<1> QED  BY <1>12, <1>13, <1>3, <1>1 DEF EndStart, Exists

(* The agent at work takes a supplement: if its instruction is being       *)
(* dispatched, started or was given already, it is excused from then on.   *)
LEMMA TakeQ == ASSUME IInv, QInv, TakeSupplement PROVE QInv'
<1> USE DEF QInv
<1>1. /\ supp \in [id : 1 .. used.sent, era : 0 .. Era, source : Sources, phase : {"sent", "taken", "deferred"}]
      /\ supp.phase = "sent"
  BY DEF TakeSupplement, Supplements, NoSupp
<1>2. UNCHANGED <<window, front, queue, cards, gate, drain, marked, saved, service, owner, gone, crossed>>
  BY DEF TakeSupplement
<1>3. used \in [Counters -> Nat] /\ "runs" \in Counters \ {"sent", "sources", "closes"}
  BY DEF Shapes, Counters
<1>4. /\ used' \in [Counters -> Nat] /\ used'.sent = used.sent
      /\ used'.sources = used.sources /\ used'.closes = used.closes
  BY <1>3, Stays DEF TakeSupplement
<1>5. CASE supp' = [supp EXCEPT !.phase = "deferred"] /\ UNCHANGED <<given, excused, used>>
  <2>1. Calm /\ Shapes'
    BY <1>2, <1>4, <1>5 DEF Calm, Shapes, service
  <2>2. Supplements'
    BY <1>1, <1>4, <1>5 DEF Supplements, Era
  <2>3. SuppSteps
    BY <1>1, <1>5 DEF SuppSteps
  <2> QED  BY <1>2, <2>1, <2>2, <2>3, SameGate, SameQueue, SameRecords, CalmQInv DEF service
<1> DEFINE g0 == [id |-> supp.id, source |-> 0, run |-> Count("runs")]
<1>6. CASE /\ Count("runs") <= MaxRuns /\ given' = given \cup {g0}
           /\ excused' = IF \/ gate.id = supp.id \/ \E g \in given : g.id = supp.id
                            \/ \E x \in starts : owner[x.source] = supp.id
                         THEN excused \cup {supp.id} ELSE excused
           /\ supp' = [supp EXCEPT !.phase = "taken"]
  <2>0. g0 \in [id : {supp.id}, source : {0}, run : {Count("runs")}]
    OBVIOUS
  <2>1. g0.id = supp.id /\ g0.source = 0 /\ g0.run = Count("runs")
    OBVIOUS
  <2> HIDE DEF g0
  <2>2. supp.id \in Ids /\ supp.id # 0
    <3>1. used.sent \in Nat /\ used.sent <= MaxInstructions
      BY <1>3 DEF Shapes, Counters
    <3> QED  BY <1>1, <3>1, Limits DEF Ids
  <2>3. /\ excused \subseteq excused' /\ excused' \subseteq Ids
        /\ supp.id \notin excused' => gate.id # supp.id /\ \A x \in starts : owner[x.source] # supp.id
    BY <1>6, <2>2 DEF Shapes
  <2>4. Hands' = Hands \cup {supp.id}
    BY <1>6, <2>1 DEF Hands
  <2>5. supp'.id = supp.id /\ supp'.era = supp.era /\ supp'.phase = "taken"
    BY <1>1, <1>6
  <2>6. Shapes'
    BY <1>2, <1>4, <2>3 DEF Shapes, service
  <2>7. Dispatches' /\ Supplements'
    BY <1>1, <1>2, <1>4, <1>6 DEF Dispatches, Supplements, Era, Shown
  <2>8. Era' = Era /\ (Shown' <=> Shown) /\ Pending' = Pending
    BY <1>2, <1>4 DEF Era, Shown, Pending
  <2>9. Owned'
    <3>1. g0.run \in 1 .. MaxRuns
      BY <1>3, <1>6, <2>1, Limits DEF Count
    <3>2. given' \subseteq [id : Ids, source : {0} \cup Sources, run : 1 .. MaxRuns]
      BY <1>6, <2>0, <2>2, <3>1 DEF Owned
    <3>3. \A g \in given' : g.id \in 1 .. used.sent /\ g.run \in 1 .. MaxRuns /\ (g.source # 0 => owner[g.source] = g.id)
      BY <1>1, <1>6, <2>1, <3>1 DEF Owned
    <3> QED  BY <1>2, <1>4, <2>8, <3>2, <3>3 DEF Owned, service
  <2>10. Known'
    BY <1>2, <2>4, <2>5, <2>8 DEF Known, service
  <2>11. Told'
    BY <1>2, <1>4, <2>4, <2>8 DEF Told
  <2>12. Once'
    <3>1. \A a \in starts : a.source # 0
      BY DEF IInv, Typed, Served, Sources
    <3> QED  BY <1>2, <1>6, <2>1, <2>3, <3>1 DEF Once, service
  <2>13. Again'
    BY <1>2, <1>6, <2>1, <2>3, <2>5, <2>8 DEF Again
  <2>14. Apart'
    BY <1>2, <1>6, <2>1, <2>3 DEF Apart, service
  <2> QED  BY <2>6, <2>7, <2>9, <2>10, <2>11, <2>12, <2>13, <2>14
<1> QED  BY <1>5, <1>6 DEF TakeSupplement

(* The answer to a supplement takes its instruction out of the queue of    *)
(* the window that sent it.                                                *)
LEMMA SupplementedQ == ASSUME QInv, Supplemented PROVE QInv'
<1> USE DEF QInv
<1>1. Calm /\ UNCHANGED <<window, front, cards, gate, drain, marked, saved, mem, disk, gone, excused, lane, crossed, used>> /\ supp' = NoSupp
  BY DEF Supplemented, Calm, service, ghosts
<1>2. /\ Proper(queue') /\ Of(queue') \subseteq Of(queue)
      /\ \A x \in Of(queue) : x \in Of(queue') \/ (supp.phase = "taken" /\ x.id = supp.id)
      /\ supp.phase = "taken" /\ supp.era = Era => \A x \in Of(queue') : x.id # supp.id
  <2>1. CASE supp.phase = "taken" /\ supp.era = Era
    <3>1. Proper(queue') /\ Of(queue') = {x \in Of(queue) : x.id # supp.id}
      BY <2>1, WithoutFacts DEF Supplemented, Shapes
    <3> QED  BY <2>1, <3>1
  <2>2. CASE ~ (supp.phase = "taken" /\ supp.era = Era)
    BY <2>2 DEF Supplemented, Shapes
  <2> QED  BY <2>1, <2>2
<1>3. supp.phase = "taken" => supp.id \in Hands
  BY DEF Known
<1>4. Shapes' /\ Dispatches' /\ Supplements'
  BY <1>1, <1>2 DEF Shapes, Dispatches, Supplements, Shown, Calm
<1>5. Pending' \subseteq Pending /\ (Shown' <=> Shown) /\ Era' = Era
  BY <1>1, <1>2 DEF Pending, Shown, Era
<1>6. Flows
  BY <1>1, <1>2, <1>5 DEF Flows
<1>7. Owned' /\ Once' /\ Apart'
  BY <1>1, <1>6, CalmOwned, CalmOnce, CalmApart
<1>8. Told'
  <2>1. \A y \in Pending : y.id \in Hands \/ \E x \in Pending' : x.id = y.id
    BY <1>1, <1>2, <1>3 DEF Pending, Shown
  <2> QED  BY <1>1, <2>1, CalmTold
<1>9. Known'
  <2>1. \A y \in Of(queue) : y.id = gate.id => gate.id \in Hands \/ \E x \in Of(queue') : x.id = gate.id
    BY <1>2, <1>3
  <2> QED  BY <1>1, <2>1, CalmKnown DEF NoSupp
<1>10. Again'
  <2> SUFFICES ASSUME NEW x \in Pending'
               PROVE  /\ \A s \in Sources : owner[s] = x.id => s = x.source \/ x.id \in excused
                      /\ x.id # 0
                      /\ \A g \in given : g.id = x.id /\ g.source = 0 => x.id \in excused
    BY <1>1 DEF Again, Calm, NoSupp
  <2>1. x \in Pending
    BY <1>5
  <2>2. x.id # 0
    BY <2>1, ProperItem DEF Pending, Shapes, Items, Ids
  <2>3. CASE supp.phase = "taken" /\ supp.id = x.id
    <3>1. supp.era # Era \/ ~ Shown
      BY <1>2, <1>5, <2>3 DEF Pending
    <3> QED  BY <2>1, <2>2, <2>3, <3>1 DEF Again
  <2> QED  BY <2>1, <2>2, <2>3 DEF Again
<1> QED  BY <1>4, <1>7, <1>8, <1>9, <1>10

(* A dispatch draws a source, or keeps the one its instruction has.        *)
LEMMA Begins ==
  ASSUME Shapes, Owned, NEW item, item.id \in Ids, item.source \in {0} \cup Sources,
         item.source # 0 => owner[item.source] = item.id,
         NEW queued \in BOOLEAN, BeginDispatch(item, queued)
  PROVE  \E source \in Sources :
           /\ gate' = [id |-> item.id, source |-> source, queued |-> queued, phase |-> "claimed"]
           /\ owner' = [owner EXCEPT ![source] = item.id]
           /\ source = SourceFor(item) /\ (item.source # 0 => source = item.source)
           /\ owner[source] \in {0, item.id} /\ (item.source = 0 => owner[source] = 0)
           /\ used' \in [Counters -> Nat] /\ used'.closes = used.closes
           /\ used.sources <= used'.sources /\ source <= used'.sources
           /\ used'.sent = IF item.id > used.sent THEN item.id ELSE used.sent
<1> DEFINE source == SourceFor(item)
<1>1. /\ source \in Sources
      /\ gate' = [id |-> item.id, source |-> source, queued |-> queued, phase |-> "claimed"]
      /\ owner' = [owner EXCEPT ![source] = item.id]
      /\ used' = [used EXCEPT !.sources = IF source > @ THEN source ELSE @,
                              !.sent = IF item.id > @ THEN item.id ELSE @]
  BY DEF BeginDispatch
<1>2. used \in [Counters -> Nat] /\ used.sources \in Nat /\ used.sent \in Nat /\ source \in Nat /\ item.id \in Nat
  BY <1>1 DEF Shapes, Counters, Sources, Ids
<1>3. item.source # 0 => source = item.source
  BY DEF SourceFor
<1>4. item.source = 0 => source = used.sources + 1
  BY DEF SourceFor, Count
<1>5. item.source = 0 => owner[source] = 0
  BY <1>1, <1>2, <1>4 DEF Owned
<1> HIDE DEF source
<1>6. /\ used' \in [Counters -> Nat] /\ used'.closes = used.closes
      /\ used.sources <= used'.sources /\ source <= used'.sources
      /\ used'.sent = IF item.id > used.sent THEN item.id ELSE used.sent
  <2> DEFINE m == IF source > used.sources THEN source ELSE used.sources
             l == IF item.id > used.sent THEN item.id ELSE used.sent
  <2>1. m \in Nat /\ l \in Nat /\ used.sources <= m /\ source <= m
    BY <1>2
  <2>2. used' = [used EXCEPT !.sources = m, !.sent = l]
    BY <1>1, <1>2
  <2> HIDE DEF m, l
  <2>3. {"sources", "sent", "closes"} \subseteq Counters
    BY DEF Counters
  <2>4. used' \in [Counters -> Nat]
    BY <1>2, <2>1, <2>2
  <2>5. used'.sources = m /\ used'.sent = l /\ used'.closes = used.closes
    BY <1>2, <2>2, <2>3
  <2> QED  BY <2>1, <2>4, <2>5 DEF l
<1> QED  BY <1>1, <1>3, <1>5, <1>6 DEF source

----------------------------------------------------------------------------
(* Dispatches and closing                                                  *)

(* A dispatch begins for an instruction that no other one holds: what it   *)
(* does to the parts that do not depend on where it was taken from.        *)
LEMMA BeginParts ==
  ASSUME IInv, QInv, gate = NoGate, Shown, NEW id \in Ids, NEW source \in Sources, NEW queued \in BOOLEAN,
         gate' = [id |-> id, source |-> source, queued |-> queued, phase |-> "claimed"],
         owner' = [owner EXCEPT ![source] = id], owner[source] \in {0, id},
         used' \in [Counters -> Nat], used'.closes = used.closes,
         used.sources <= used'.sources, source <= used'.sources,
         used.sent <= used'.sent, id <= used'.sent,
         UNCHANGED <<window, starts, mem, disk, given, supp, gone>>,
         excused \subseteq excused',
         \A s \in Sources : owner[s] = id => s = source \/ id \in excused,
         \A g \in given : g.id = id /\ g.source = 0 => id \in excused',
         queued => \E x \in Of(queue') : x.id = id
  PROVE  /\ Dispatches' /\ Supplements' /\ Known' /\ Once' /\ Apart'
         /\ owner' \in [Sources -> 0 .. used'.sent] /\ \A s \in Sources : s > used'.sources => owner'[s] = 0
         /\ \A s \in Sources : owner'[s] = IF s = source THEN id ELSE owner[s]
         /\ \A a \in starts : owner'[a.source] = owner[a.source]
         /\ \A g \in given : g.source # 0 => owner'[g.source] = owner[g.source]
<1> USE DEF QInv
<1>1. /\ used.sent \in Nat /\ used.sources \in Nat /\ used'.sent \in Nat /\ used'.sources \in Nat
      /\ id \in Nat /\ id # 0 /\ \A s \in Sources : s \in Nat
  BY DEF Shapes, Counters, Ids, Sources
<1>2. owner \in [Sources -> 0 .. used.sent] /\ \A s \in Sources : s > used.sources => owner[s] = 0
  BY DEF Owned
<1>3. \A s \in Sources : owner'[s] = IF s = source THEN id ELSE owner[s]
  BY <1>2
<1>4. owner' \in [Sources -> 0 .. used'.sent] /\ \A s \in Sources : s > used'.sources => owner'[s] = 0
  <2>1. \A s \in Sources : owner'[s] \in 0 .. used'.sent
    BY <1>1, <1>2, <1>3
  <2>2. owner' \in [Sources -> 0 .. used'.sent]
    BY <1>2, <2>1
  <2>3. \A s \in Sources : s > used'.sources => s # source /\ s > used.sources
    BY <1>1
  <2> QED  BY <1>2, <1>3, <2>2, <2>3
<1>5. \A a \in starts : a.source \in Sources /\ owner'[a.source] = owner[a.source]
  <2>1. \A a \in starts : a.source \in Sources
    BY DEF IInv, Typed, Served
  <2> QED  BY <1>3, <2>1 DEF Owned
<1>6. \A g \in given : g.id # 0 /\ (g.source # 0 => owner'[g.source] = owner[g.source])
  <2>1. \A g \in given : g.source \in {0} \cup Sources
    BY DEF IInv, Typed, Served
  <2> QED  BY <1>3, <2>1 DEF Owned
<1>7. Dispatches' /\ Supplements'
  <2>1. Supplements'
    BY <1>1 DEF Supplements, Era
  <2> QED  BY <1>1, <1>3, <2>1 DEF Dispatches, Shown
<1>8. gate'.id = id /\ gate'.queued = queued /\ gate'.phase = "claimed" /\ gate'.source = source
  OBVIOUS
<1>9. Hands' = Hands /\ Era' = Era /\ 0 \notin Hands
  BY <1>6 DEF Hands, Era
<1>10. Once'
  <2>1. \A s, t \in Sources : owner'[s] = owner'[t] /\ owner'[s] # 0 => s = t \/ owner'[s] \in excused'
    BY <1>3 DEF Once
  <2> QED  BY <1>5, <2>1 DEF Once
<1>11. Apart'
  BY <1>5, <1>8 DEF Apart
<1>12. Known'
  <2>1. \A a \in starts : a.era # Era
    BY DEF Known, NoGate
  <2>2. \A s \in Sources : mem[s] # NoRecord \/ disk[s] # NoRecord => owner'[s] \in Hands
    BY <1>3, <1>9 DEF Known
  <2>3. \A a \in starts : a.step = "found" => owner'[a.source] \in Hands
    BY <1>5 DEF Known
  <2> QED  BY <1>8, <1>9, <2>1, <2>2, <2>3 DEF Known
<1> QED  BY <1>3, <1>4, <1>5, <1>6, <1>7, <1>10, <1>11, <1>12

(* An instruction is submitted: it is dispatched at once, or queued.       *)
LEMMA SubmitQ == ASSUME IInv, QInv, Submit PROVE QInv'
<1> USE DEF QInv
<1> DEFINE item == [id |-> Count("sent"), state |-> "queued", source |-> 0]
<1>1. /\ used \in [Counters -> Nat] /\ used.sent \in Nat /\ used.sent < MaxInstructions
      /\ item.id = used.sent + 1 /\ item.id \in Ids /\ item.source = 0 /\ item \in Items
  BY Limits DEF Shapes, Counters, Submit, Count, Ids, Items
<1>2. /\ UNCHANGED <<window, front, marked, supp, saved, service, given, gone, excused, crossed>>
      /\ Shown
  BY DEF Submit
<1>3. \A x \in Of(queue) \cup Of(saved.queue) : x.id <= used.sent /\ x.id \in Nat
  BY ProperItem DEF Owned, Shapes, Items, Ids
<1>4. CASE Free /\ BeginDispatch(item, FALSE) /\ UNCHANGED <<queue, drain>>
  <2> HIDE DEF item
  <2>1. PICK source \in Sources :
          /\ gate' = [id |-> item.id, source |-> source, queued |-> FALSE, phase |-> "claimed"]
          /\ owner' = [owner EXCEPT ![source] = item.id]
          /\ owner[source] = 0
          /\ used' \in [Counters -> Nat] /\ used'.closes = used.closes
          /\ used.sources <= used'.sources /\ source <= used'.sources
          /\ used'.sent = IF item.id > used.sent THEN item.id ELSE used.sent
    BY <1>1, <1>4, Begins
  <2>2. used'.sent = used.sent + 1
    BY <1>1, <2>1
  <2>3. /\ Dispatches' /\ Supplements' /\ Known' /\ Once' /\ Apart'
        /\ owner' \in [Sources -> 0 .. used'.sent] /\ \A s \in Sources : s > used'.sources => owner'[s] = 0
        /\ \A s \in Sources : owner'[s] = IF s = source THEN item.id ELSE owner[s]
        /\ \A a \in starts : owner'[a.source] = owner[a.source]
        /\ \A g \in given : g.source # 0 => owner'[g.source] = owner[g.source]
    <3>1. gate = NoGate /\ UNCHANGED <<window, starts, mem, disk, given, supp, gone>> /\ excused \subseteq excused'
      BY <1>2, <1>4 DEF Free, service
    <3>2. \A s \in Sources : owner[s] # item.id
      BY <1>1 DEF Owned
    <3>3. \A g \in given : g.id # item.id
      BY <1>1 DEF Owned
    <3>4. used.sent <= used'.sent /\ item.id <= used'.sent
      BY <1>1, <2>2
    <3> QED  BY <1>1, <1>2, <2>1, <3>1, <3>2, <3>3, <3>4, BeginParts
  <2>4. Shapes'
    BY Limits, <1>1, <1>2, <1>4, <2>1, <2>2 DEF Shapes, service
  <2>5. Pending' = Pending /\ Hands' = Hands /\ Era' = Era /\ (Shown' <=> Shown) /\ Pending = Of(queue)
    BY <1>2, <1>4, <2>1 DEF Pending, Shown, Hands, Era
  <2>6. Told'
    BY <1>1, <1>2, <1>4, <2>1, <2>2, <2>5 DEF Told, Free, NoGate
  <2>7. Again'
    <3>1. \A x \in Pending, s \in Sources : owner'[s] = x.id => owner[s] = x.id
      BY <1>1, <1>3, <2>3, <2>5
    <3> QED  BY <1>2, <2>5, <3>1 DEF Again
  <2>8. Owned'
    <3>1. \A x \in Of(queue') \cup Of(saved'.queue) : x.id <= used'.sent /\ (x.source # 0 => owner'[x.source] = x.id)
      <4>1. \A x \in Of(queue) \cup Of(saved.queue) : x.source \in {0} \cup Sources /\ x.id # 0
        BY ProperItem DEF Shapes, Items, Ids
      <4> QED  BY <1>1, <1>2, <1>3, <1>4, <2>1, <2>2, <2>3, <4>1 DEF Owned
    <3>2. \A g \in given : g.id \in 1 .. used'.sent /\ g.run \in 1 .. MaxRuns /\ (g.source # 0 => owner'[g.source] = g.id)
      BY <1>1, <2>2, <2>3 DEF Owned
    <3> QED  BY <1>2, <2>3, <2>5, <3>1, <3>2 DEF Owned, service
  <2> QED  BY <2>3, <2>4, <2>6, <2>7, <2>8
<1>5. CASE /\ queue' = Append(queue, item) /\ drain' = TRUE /\ Spend("sent")
           /\ UNCHANGED <<gate, cards, owner>>
  <2> HIDE DEF item
  <2>1. Proper(queue') /\ Of(queue') = Of(queue) \cup {item}
    <3>1. \A x \in Of(queue) : x.id # item.id
      BY <1>1, <1>3
    <3> QED  BY <1>1, <1>5, <3>1, AppendFacts DEF Shapes
  <2>2. /\ used' \in [Counters -> Nat] /\ used'.sent = used.sent + 1
        /\ used'.sources = used.sources /\ used'.closes = used.closes
    BY <1>1, <1>5, Spends DEF Counters, Spend
  <2>3. Shapes'
    BY Limits, <1>1, <1>2, <1>5, <2>1, <2>2 DEF Shapes, service
  <2>4. Dispatches' /\ Supplements'
    BY <1>1, <1>2, <1>5, <2>2 DEF Dispatches, Supplements, Shown, Era
  <2>5. Pending' = Pending \cup {item} /\ Hands' = Hands /\ Era' = Era /\ (Shown' <=> Shown)
    BY <1>2, <2>1, <2>2 DEF Pending, Shown, Hands, Era
  <2>6. Owned'
    <3>1. owner' \in [Sources -> 0 .. used'.sent]
      BY <1>1, <1>5, <2>2 DEF Owned
    <3>2. \A x \in Of(queue') \cup Of(saved'.queue) : x.id <= used'.sent /\ (x.source # 0 => owner'[x.source] = x.id)
      BY <1>1, <1>2, <1>3, <1>5, <2>1, <2>2 DEF Owned
    <3>3. \A g \in given : g.id \in 1 .. used'.sent
      BY <1>1, <2>2 DEF Owned
    <3> QED  BY <1>2, <1>5, <2>2, <2>5, <3>1, <3>2, <3>3 DEF Owned, service
  <2>7. Known'
    BY <1>2, <1>5, <2>1, <2>5 DEF Known, service
  <2>8. Told'
    BY <1>1, <1>2, <1>5, <2>2, <2>5 DEF Told
  <2>9. Once' /\ Apart'
    BY <1>2, <1>5 DEF Once, Apart, service
  <2>10. Again'
    <3>1. \A s \in Sources : owner[s] # item.id
      BY <1>1 DEF Owned
    <3>2. \A g \in given : g.id # item.id
      BY <1>1 DEF Owned
    <3>3. supp.id # item.id
      BY <1>1 DEF Supplements, NoSupp
    <3> QED  BY <1>2, <1>5, <2>5, <3>1, <3>2, <3>3 DEF Again
  <2> QED  BY <2>3, <2>4, <2>6, <2>7, <2>8, <2>9, <2>10
<1> QED  BY <1>4, <1>5 DEF Submit

(* Of finitely many places there is a first one.                           *)
LEMMA FirstPlace ==
  ASSUME NEW P \in SUBSET Nat, IsFiniteSet(P), P # {}
  PROVE  \E k \in P : \A i \in P : k <= i
<1> DEFINE key == [k \in P |-> k]
<1>1. key \in [P -> Nat] /\ \A j, k \in P : key[j] = key[k] => j = k
  OBVIOUS
<1>2. \A k \in P : key[k] = k
  OBVIOUS
<1> HIDE DEF key
<1>3. 1 \in 1 .. Cardinality(P)
  <2>1. Cardinality(P) \in Nat /\ Cardinality(P) # 0
    BY FS_CardinalityType, FS_EmptySet
  <2> QED  BY <2>1
<1> DEFINE Rank(k) == Cardinality({j \in P : key[j] <= key[k]})
<1>4. /\ \A n \in 1 .. Cardinality(P) : \E k \in P : Rank(k) = n
      /\ \A k, l \in P : Rank(k) = Rank(l) => k = l
  BY <1>1, Ranks
<1>5. PICK k \in P : Cardinality({j \in P : key[j] <= key[k]}) = 1
  BY <1>3, <1>4
<1> DEFINE U == {j \in P : key[j] <= key[k]}
<1>6. U \in SUBSET P
  OBVIOUS
<1>7. Cardinality(U) = 1
  BY <1>5
<1>8. k \in U /\ \A i \in P : i <= k => i \in U
  BY <1>2
<1> HIDE DEF U
<1>9. PICK x : U = {x}
  BY <1>6, <1>7, FS_Subset, FS_Singleton
<1>10. \A i \in P : i <= k => i = k
  BY <1>8, <1>9
<1> QED  BY <1>10

(* The first instruction that is queued is dispatched.                     *)
LEMMA DrainQ == ASSUME IInv, QInv, DrainQueue PROVE QInv'
<1> USE DEF QInv
<1> DEFINE k == CHOOSE j \in Ready : \A i \in Ready : j <= i
           item == queue[k]
<1>1. /\ UNCHANGED <<window, front, marked, supp, saved, service, given, gone, crossed>>
      /\ Shown
  BY DEF DrainQueue
<1>2. CASE Free /\ Ready # {}
  <2>1. /\ BeginDispatch(item, TRUE)
        /\ queue' = [queue EXCEPT ![k].state = "dispatching", ![k].source = SourceFor(queue[k])]
        /\ drain' = FALSE
        /\ excused' = IF supp.id = item.id THEN excused \cup {supp.id} ELSE excused
    BY <1>2 DEF DrainQueue
  <2>2. k \in DOMAIN queue
    <3>1. DOMAIN queue = 1 .. Len(queue) /\ Len(queue) \in Nat
      BY ProperItem DEF Shapes
    <3>2. Ready \subseteq Nat /\ Ready \subseteq DOMAIN queue
      BY <3>1 DEF Ready
    <3>3. IsFiniteSet(Ready)
      <4>1. IsFiniteSet(1 .. Len(queue))
        BY <3>1, FS_Interval
      <4> QED  BY <3>1, <3>2, <4>1, FS_Subset
    <3>4. \E j \in Ready : \A i \in Ready : j <= i
      BY <1>2, <3>2, <3>3, FirstPlace
    <3> QED  BY <3>2, <3>4
  <2> HIDE DEF k
  <2>3. /\ item \in Of(queue) /\ item.id \in Ids /\ item.source \in {0} \cup Sources
        /\ item.id <= used.sent /\ (item.source # 0 => owner[item.source] = item.id)
    BY <2>2, ProperItem DEF Shapes, Of, Items, Owned
  <2> HIDE DEF item
  <2>4. PICK source \in Sources :
          /\ gate' = [id |-> item.id, source |-> source, queued |-> TRUE, phase |-> "claimed"]
          /\ owner' = [owner EXCEPT ![source] = item.id]
          /\ source = SourceFor(item) /\ (item.source # 0 => source = item.source)
          /\ owner[source] \in {0, item.id} /\ (item.source = 0 => owner[source] = 0)
          /\ used' \in [Counters -> Nat] /\ used'.closes = used.closes
          /\ used.sources <= used'.sources /\ source <= used'.sources
          /\ used'.sent = IF item.id > used.sent THEN item.id ELSE used.sent
    BY <2>1, <2>3, Begins
  <2>5. used.sent \in Nat /\ used'.sent = used.sent /\ item.id \in 1 .. used.sent
    BY <2>3, <2>4 DEF Shapes, Counters, Ids
  <2>6. /\ Proper(queue') /\ Holds(queue', queue)
        /\ \A x \in Of(queue') : \/ x \in Of(queue) /\ x.id # item.id
                                 \/ x.id = item.id /\ x.source = source
    <3>1. queue' = [queue EXCEPT ![k].state = "dispatching", ![k].source = source]
      BY <2>1, <2>4 DEF item
    <3> QED  BY <2>2, <3>1, MarkedFacts DEF Shapes, item
  <2>7. /\ excused \subseteq excused' /\ excused' \subseteq Ids
        /\ supp.id = item.id => item.id \in excused'
    BY <2>1, <2>3 DEF Shapes
  <2>8. Pending = Of(queue) /\ Pending' = Of(queue') /\ Hands' = Hands /\ Era' = Era /\ Shown'
    BY <1>1, <2>4 DEF Pending, Shown, Hands, Era
  <2>9. \A s \in Sources : owner[s] = item.id => s = source \/ item.id \in excused
    BY <2>3, <2>4, <2>5, <2>8 DEF Again, Sources
  <2>10. \A g \in given : g.id = item.id /\ g.source = 0 => item.id \in excused'
    BY <2>3, <2>7, <2>8 DEF Again
  <2>11. /\ Dispatches' /\ Supplements' /\ Known' /\ Once' /\ Apart'
         /\ owner' \in [Sources -> 0 .. used'.sent] /\ \A s \in Sources : s > used'.sources => owner'[s] = 0
         /\ \A s \in Sources : owner'[s] = IF s = source THEN item.id ELSE owner[s]
         /\ \A a \in starts : owner'[a.source] = owner[a.source]
         /\ \A g \in given : g.source # 0 => owner'[g.source] = owner[g.source]
    <3>1. gate = NoGate /\ UNCHANGED <<window, starts, mem, disk, given, supp, gone>>
      BY <1>1, <1>2 DEF Free, service
    <3>2. \E x \in Of(queue') : x.id = item.id
      BY <2>3, <2>6 DEF Holds
    <3>3. used.sent <= used'.sent /\ item.id <= used'.sent
      BY <2>5
    <3> QED  BY <1>1, <2>3, <2>4, <2>7, <2>9, <2>10, <3>1, <3>2, <3>3, BeginParts
  <2>12. Shapes'
    BY <1>1, <2>1, <2>4, <2>5, <2>6, <2>7 DEF Shapes, service
  <2>13. Told'
    BY <1>1, <1>2, <2>5, <2>6, <2>8 DEF Told, Free, NoGate, Holds
  <2>14. Owned'
    <3>1. \A x \in Of(queue) \cup Of(saved.queue) : x.source \in {0} \cup Sources /\ x.id # 0
      BY ProperItem DEF Shapes, Items, Ids
    <3>2. \A x \in Of(queue) \cup Of(saved.queue) : x.id <= used'.sent /\ (x.source # 0 => owner'[x.source] = x.id)
      BY <2>4, <2>5, <2>11, <3>1 DEF Owned
    <3>3. \A x \in Of(queue') \cup Of(saved'.queue) : x.id <= used'.sent /\ (x.source # 0 => owner'[x.source] = x.id)
      BY <1>1, <2>5, <2>6, <2>11, <3>2
    <3>4. \A g \in given : g.id \in 1 .. used'.sent /\ g.run \in 1 .. MaxRuns /\ (g.source # 0 => owner'[g.source] = g.id)
      BY <2>5, <2>11 DEF Owned
    <3> QED  BY <1>1, <2>8, <2>11, <3>3, <3>4 DEF Owned, service
  <2>15. Again'
    <3> SUFFICES ASSUME NEW x \in Of(queue')
                 PROVE  /\ \A s \in Sources : owner'[s] = x.id => s = x.source \/ x.id \in excused'
                        /\ x.id = supp.id /\ supp.era # Era => x.id \in excused'
                        /\ \A g \in given : g.id = x.id /\ g.source = 0 =>
                             x.id \in excused' \/ (supp.id = x.id /\ supp.phase = "taken")
      BY <1>1, <2>8 DEF Again
    <3>1. CASE x \in Of(queue) /\ x.id # item.id
      BY <2>7, <2>8, <2>11, <3>1 DEF Again
    <3>2. CASE x.id = item.id /\ x.source = source
      BY <2>7, <2>9, <2>10, <2>11, <3>2
    <3> QED  BY <2>6, <3>1, <3>2
  <2> QED  BY <2>11, <2>12, <2>13, <2>14, <2>15
<1>3. CASE ~ (Free /\ Ready # {})
  <2>1. drain' = (Ready # {} /\ ~ Free) /\ UNCHANGED <<gate, queue, cards, owner, excused, used>>
    BY <1>3 DEF DrainQueue
  <2>2. Calm
    BY <1>1, <2>1 DEF Calm, service
  <2>3. drain' \in BOOLEAN
    BY <2>1
  <2>4. Shapes'
    BY <1>1, <2>1, <2>3 DEF Shapes, service
  <2> QED  BY <1>1, <2>1, <2>2, <2>4, SameGate, SameSupp, SameQueue, SameRecords, CalmQInv DEF service
<1> QED  BY <1>2, <1>3

(* The window closes: what was not saved is given up, and what was sent is *)
(* still on its way.                                                       *)
LEMMA CloseQ == ASSUME IInv, QInv, Close PROVE QInv'
<1> USE DEF QInv
<1>1. /\ Shown /\ window' = "closed" /\ queue' = <<>> /\ gate' = NoGate /\ drain' = FALSE /\ marked' = {}
      /\ gone' = gone \cup (QueueIds \ SavedIds) \cup (IF gate.queued THEN {} ELSE {gate.id} \ {0})
      /\ UNCHANGED <<front, supp, saved, service, owner, given, crossed>>
      /\ Spend("closes")
  BY DEF Close
<1>2. used \in [Counters -> Nat] /\ "closes" \in Counters /\ "sent" \in Counters /\ "sources" \in Counters
  BY DEF Shapes, Counters
<1>3. /\ used' \in [Counters -> Nat] /\ used'.sent = used.sent /\ used'.sources = used.sources
      /\ used'.closes = used.closes + 1 /\ used.sent \in Nat
  BY <1>1, <1>2 DEF Spend
<1>4. Era' = Era + 1 /\ Era \in Nat /\ ~ Shown' /\ Hands' = Hands /\ Pending = Of(queue) /\ Pending' = Of(saved.queue)
  BY <1>1, <1>2, <1>3 DEF Era, Shown, Hands, Pending
<1>5. Proper(queue') /\ Of(queue') = {}
  <2>1. queue' \in Seq(Items) /\ DOMAIN queue' = {}
    BY <1>1
  <2> QED  BY <2>1 DEF Proper, Of
<1>6. /\ excused \subseteq excused' /\ excused' \subseteq Ids
      /\ \A x \in Of(saved.queue) : Repeated(x) => x.id \in excused'
  <2>1. excused' = excused \cup {saved.queue[k].id : k \in {j \in DOMAIN saved.queue : Repeated(saved.queue[j])}}
    BY DEF Close
  <2>2. \A k \in DOMAIN saved.queue : saved.queue[k].id \in Ids
    BY ProperItem DEF Shapes, Items
  <2> QED  BY <2>1, <2>2 DEF Shapes, Of
<1>7. gone' \subseteq Ids
  <2>1. QueueIds \subseteq Ids
    BY ProperItem DEF QueueIds, Shapes, Items
  <2>2. gate.id # 0 => gate.id \in Ids
    BY <1>3, Limits DEF Dispatches, NoGate, Shapes, Ids
  <2> QED  BY <1>1, <2>1, <2>2 DEF Shapes
<1>8. Shapes'
  BY <1>1, <1>3, <1>5, <1>6, <1>7 DEF Shapes, service
<1>9. Dispatches' /\ Supplements'
  BY <1>1, <1>3, <1>4 DEF Dispatches, Supplements
<1>10. \A a \in starts : a.era <= Era' /\ a.era # Era'
  <2>1. \A a \in starts : a.era <= Era /\ a.era \in Nat
    BY DEF Owned, IInv, Typed, Served
  <2> QED  BY <1>4, <2>1
<1>11. Owned'
  BY <1>1, <1>3, <1>4, <1>5, <1>10 DEF Owned, service
<1>12. Known'
  BY <1>1, <1>4, <1>10 DEF Known, service, NoGate
<1>13. Once'
  BY <1>1, <1>6 DEF Once, service
<1>14. Apart'
  <2>1. \A g \in given : g.id # 0
    BY DEF Owned
  <2> QED  BY <1>1, <1>6, <2>1 DEF Apart, service, NoGate
<1>15. Told'
  <2> SUFFICES ASSUME NEW id \in 1 .. used.sent
               PROVE  id \in gone' \/ id \in Hands \/ \E x \in Of(saved.queue) : x.id = id
    BY <1>3, <1>4 DEF Told
  <2>1. id \in QueueIds => id \in gone' \/ \E x \in Of(saved.queue) : x.id = id
    BY <1>1 DEF SavedIds, Of
  <2>2. (\E x \in Of(queue) : x.id = id) => id \in QueueIds
    BY DEF QueueIds, Of
  <2>3. CASE gate.id = id
    BY <1>1, <2>1, <2>2, <2>3 DEF Known
  <2> QED  BY <1>1, <1>4, <2>1, <2>2, <2>3 DEF Told
<1>16. Again'
  <2> SUFFICES ASSUME NEW x \in Of(saved.queue)
               PROVE  /\ \A s \in Sources : owner[s] = x.id => s = x.source \/ x.id \in excused'
                      /\ x.id = supp.id => x.id \in excused'
                      /\ \A g \in given : g.id = x.id /\ g.source = 0 => x.id \in excused'
    BY <1>1, <1>4 DEF Again
  <2> QED  BY <1>6 DEF Repeated
<1> QED  BY <1>8, <1>9, <1>11, <1>12, <1>13, <1>14, <1>15, <1>16

----------------------------------------------------------------------------
(* The theorems                                                            *)

(* Nothing was submitted in the beginning.                                 *)
LEMMA InitQInv == Init => QInv
<1> SUFFICES ASSUME Init PROVE QInv
  OBVIOUS
<1>1. /\ queue = <<>> /\ saved.queue = <<>> /\ gate = NoGate /\ supp = NoSupp /\ window = "ready"
      /\ starts = {} /\ given = {} /\ owner = [s \in Sources |-> 0] /\ used = [c \in Counters |-> 0]
      /\ mem = [s \in Sources |-> NoRecord] /\ disk = mem
  BY DEF Init
<1>2. used \in [Counters -> Nat] /\ used.sent = 0 /\ used.sources = 0
  BY <1>1 DEF Counters
<1>3. Proper(<<>>) /\ Of(<<>>) = {}
  BY DEF Proper, Of
<1>4. Shapes
  <2>1. window \in {"closed", "open", "ready"} /\ front \in BOOLEAN /\ drain \in BOOLEAN /\ crossed \in BOOLEAN
    BY <1>1, Limits DEF Init
  <2>2. marked \subseteq Sources /\ lane \in {0} \cup Sources /\ gone \subseteq Ids /\ excused \subseteq Ids
    BY DEF Init
  <2>3. Proper(queue) /\ Proper(saved.queue)
    BY <1>1, <1>3
  <2> QED  BY <1>2, <2>1, <2>2, <2>3, Limits DEF Shapes
<1>5. Dispatches /\ Supplements
  BY <1>1 DEF Dispatches, Supplements
<1>6. Owned
  BY <1>1, <1>2, <1>3 DEF Owned
<1>7. Known
  BY <1>1 DEF Known, NoGate, NoSupp
<1>8. Pending = {}
  BY <1>1, <1>3 DEF Pending
<1>9. Told /\ Again /\ Apart
  BY <1>1, <1>2, <1>8 DEF Told, Again, Apart
<1>10. Once
  BY <1>1 DEF Once
<1> QED  BY <1>4, <1>5, <1>6, <1>7, <1>9, <1>10 DEF QInv

(* Every step of window, service and network preserves it.                 *)
LEMMA StepQInv == IInv /\ QInv /\ [Next]_vars => QInv'
<1> SUFFICES ASSUME IInv, QInv, [Next]_vars PROVE QInv'
  OBVIOUS
<1>1. CASE User
  BY <1>1, SubmitQ, EditQ, DeleteQ, SupplementQ DEF User
<1>2. CASE Sending
  BY <1>2, DrainQ, RequestQ, StartedQ, NotStartedQ, ReleaseQ, WatchQ DEF Sending
<1>3. CASE Serving
  BY <1>3, ReadQ, EndStartQ, TakeQ, SupplementedQ DEF Serving
<1>4. CASE Running
  BY <1>4, RunQ DEF Running
<1>5. CASE Opening
  BY <1>5, OpenQ, StartupQ, ReconcileQ DEF Opening
<1>6. CASE Editing
  BY <1>6, EditQ DEF Editing
<1>7. CASE UNCHANGED vars
  <2>1. Calm /\ Shapes'
    BY <1>7 DEF vars, view, service, ghosts, Calm, QInv, Shapes
  <2> QED  BY <1>7, <2>1, SameGate, SameSupp, SameQueue, SameRecords, CalmQInv DEF vars, view, service, ghosts, QInv
<1> QED  BY <1>1, <1>2, <1>3, <1>4, <1>5, <1>6, <1>7, LoseQ, RestartQ, SaveQ, CloseQ DEF Next

(* Only the end of a start and a supplement give an instruction to an      *)
(* agent, and nothing that was excused is ever not.                        *)
LEMMA StepGiven == IInv /\ QInv /\ GivenOnce /\ [Next]_vars => GivenOnce'
<1> SUFFICES ASSUME IInv, QInv, GivenOnce, [Next]_vars PROVE GivenOnce'
  OBVIOUS
<1>1. ASSUME given' = given, excused \subseteq excused' PROVE GivenOnce'
  BY <1>1 DEF GivenOnce
<1>2. ASSUME NEW start \in starts, EndStart(start) PROVE GivenOnce'
  <2> DEFINE s == start.source
             g0 == [id |-> owner[s], source |-> s, run |-> Count("runs")]
  <2>1. excused' = excused
    BY <1>2 DEF EndStart
  <2>2. CASE ~ Exists(start) /\ given' = given \cup {g0}
    <3>1. start.step = "absent" /\ s \in Sources /\ owner[s] # 0
      BY <1>2, <2>2 DEF Exists, EndStart, IInv, Typed, Served, QInv, Owned
    <3>2. ASSUME NEW g \in given, g.id = owner[s] PROVE owner[s] \in excused
      <4>1. CASE g.source = 0
        BY <3>2, <4>1 DEF QInv, Apart
      <4>2. CASE g.source = s
        BY <3>1, <4>2 DEF QInv, Once
      <4>3. CASE g.source # 0 /\ g.source # s
        <5>1. g.source \in Sources /\ owner[g.source] = owner[s]
          BY <3>2, <4>3 DEF IInv, Typed, Served, QInv, Owned
        <5> QED  BY <3>1, <4>3, <5>1 DEF QInv, Once
      <4> QED  BY <4>1, <4>2, <4>3
    <3>3. g0.id = owner[s]
      OBVIOUS
    <3> HIDE DEF g0
    <3> QED  BY <2>1, <2>2, <3>2, <3>3 DEF GivenOnce
  <2>3. CASE given' = given
    BY <1>1, <2>1, <2>3
  <2> QED  BY <1>2, <2>2, <2>3 DEF EndStart
<1>3. ASSUME TakeSupplement PROVE GivenOnce'
  <2> DEFINE g0 == [id |-> supp.id, source |-> 0, run |-> Count("runs")]
  <2>1. CASE /\ given' = given \cup {g0}
             /\ excused' = IF \/ gate.id = supp.id \/ \E g \in given : g.id = supp.id
                              \/ \E x \in starts : owner[x.source] = supp.id
                           THEN excused \cup {supp.id} ELSE excused
    <3>1. g0.id = supp.id
      OBVIOUS
    <3> HIDE DEF g0
    <3>2. excused \subseteq excused' /\ \A g \in given : g.id = supp.id => supp.id \in excused'
      BY <2>1
    <3> QED  BY <2>1, <3>1, <3>2 DEF GivenOnce
  <2>2. CASE UNCHANGED <<given, excused>>
    BY <1>1, <2>2
  <2> QED  BY <1>3, <2>1, <2>2 DEF TakeSupplement
<1>4. CASE User
  BY <1>1, <1>4 DEF User, Submit, BeginEdit, Delete, Supplement, ghosts
<1>5. CASE Sending
  <2>1. DrainQueue => given' = given /\ excused \subseteq excused'
    BY DEF DrainQueue
  <2>2. Request => given' = given /\ excused \subseteq excused'
    BY DEF Request
  <2> QED  BY <1>1, <1>5, <2>1, <2>2 DEF Sending, Started, NotStarted, ReleaseGate, WatchEnds, ghosts
<1>6. CASE Serving
  BY <1>1, <1>2, <1>3, <1>6 DEF Serving, ReadRecord, Supplemented, ghosts
<1>7. CASE Running \/ Opening \/ Editing \/ LoseAnswer \/ Restart \/ Save
  BY <1>1, <1>7 DEF Running, EndRun, LeaveLane, Opening, Open, Startup, Reconcile, Editing, SendEdited,
                    LoseAnswer, Restart, Save, ghosts
<1>8. CASE Close
  BY <1>1, <1>8 DEF Close
<1>9. CASE UNCHANGED vars
  BY <1>1, <1>9 DEF vars, ghosts
<1> QED  BY <1>4, <1>5, <1>6, <1>7, <1>8, <1>9 DEF Next

(* Service and window together: their invariants, and what they imply of   *)
(* what was given.                                                         *)
LEMMA WindowInvariance == Spec => [](IInv /\ QInv /\ GivenOnce)
<1>1. Init => QInv /\ GivenOnce
  BY InitQInv DEF Init, GivenOnce
<1>2. Spec => []IInv
  BY Invariance
<1> QED  BY <1>1, <1>2, StepQInv, StepGiven, PTL DEF Spec

(* The queue is as long as it has instructions.                            *)
LEMMA QueueLength == ASSUME Proper(queue) PROVE Len(queue) = Cardinality(QueueIds)
<1> DEFINE f == [k \in DOMAIN queue |-> queue[k].id]
<1>1. DOMAIN queue = 1 .. Len(queue) /\ Len(queue) \in Nat
  BY ProperItem
<1>2. f \in Bijection(DOMAIN queue, QueueIds)
  <2>1. f \in [DOMAIN queue -> QueueIds] /\ \A i, j \in DOMAIN queue : f[i] = f[j] => i = j
    BY DEF QueueIds, Proper
  <2>2. \A id \in QueueIds : \E k \in DOMAIN queue : f[k] = id
    BY DEF QueueIds
  <2> QED  BY <2>1, <2>2 DEF Bijection, Injection, Surjection, IsInjective
<1>3. ExistsBijection(1 .. Len(queue), QueueIds)
  BY <1>1, <1>2 DEF ExistsBijection
<1> QED  BY <1>1, <1>3, FS_CountingElements

(* The variables have their types in every behaviour; the queue of the     *)
(* window (conversation-task-queue.js) has no instruction twice, however   *)
(* often dispatches are put back, recovered and sorted.                    *)
THEOREM TypeCorrect == Spec => []TypeOK
<1>1. ASSUME IInv, QInv PROVE TypeOK
  <2> USE <1>1 DEF QInv
  <2>1. used.sent \in Nat /\ used.sent <= MaxInstructions /\ 1 .. used.sent \subseteq Ids /\ used \in [Counters -> Nat]
    BY Limits DEF Shapes, Counters, Ids
  <2>2. /\ gate \in [id : {0} \cup Ids, source : {0} \cup Sources, queued : BOOLEAN,
                     phase : {"free", "claimed", "waiting", "accepted", "refused", "watching", "done"}]
    <3>1. CASE gate = NoGate
      BY <3>1 DEF NoGate
    <3>2. CASE gate # NoGate
      BY <2>1, <3>2 DEF Dispatches
    <3> QED  BY <3>1, <3>2
  <2>3. supp \in [id : {0} \cup Ids, era : Nat, source : {0} \cup Sources, phase : {"none", "sent", "taken", "deferred"}]
    <3>1. 0 .. Era \subseteq Nat
      OBVIOUS
    <3> QED  BY <2>1, <3>1 DEF Supplements, NoSupp
  <2>4. /\ cards \subseteq Cards /\ saved.cards \subseteq Cards
        /\ starts \subseteq [source : Sources, era : Nat, step : {"reading", "absent", "found"}]
        /\ mem \in [Sources -> Records] /\ disk \in [Sources -> Records]
        /\ live \subseteq [source : Sources, run : 1 .. MaxRuns]
    BY DEF IInv, Typed, Carded, Served
  <2>5. owner \in [Sources -> {0} \cup Ids]
    BY <2>1 DEF Owned
  <2>6. given \subseteq [id : Ids, source : {0} \cup Sources, run : 1 .. MaxRuns]
    BY DEF Owned
  <2>7. queue \in Seq(Items) /\ saved.queue \in Seq(Items) /\ Len(queue) = Cardinality(QueueIds)
    BY QueueLength DEF Shapes, Proper
  <2> QED  BY <2>1, <2>2, <2>3, <2>4, <2>5, <2>6, <2>7 DEF TypeOK, Shapes
<1> QED  BY <1>1, WindowInvariance, PTL

(* No instruction is given to an agent a second time - by a dispatch, a    *)
(* repeated start, a window opened again or as a supplement - unless it is *)
(* one of the known repetitions (excused) that start and supplement of     *)
(* conversation-agent-service.mjs and the queue do not exclude.            *)
THEOREM NeverTwice == Spec => []GivenOnce
  BY WindowInvariance, PTL

(* What the user submitted is given up by the user or by a window that     *)
(* closed before it was saved, is being dispatched, was given to an agent, *)
(* or is in the queue of the window or in the copy that the next one opens *)
(* (ackConversationInstruction, nackConversationInstruction and            *)
(* recoverConversationTaskQueueForStartup of conversation-task-queue.js).  *)
THEOREM NeverLost == Spec => []NothingForgotten
<1>1. QInv => NothingForgotten
  <2> SUFFICES ASSUME QInv, NEW id \in 1 .. used.sent
               PROVE  \/ id \in gone \/ gate.id = id \/ \E g \in given : g.id = id
                      \/ id \in IF Shown THEN QueueIds ELSE SavedIds
    BY DEF NothingForgotten
  <2>1. id \in gone \/ gate.id = id \/ id \in Hands \/ \E x \in Pending : x.id = id
    BY DEF QInv, Told
  <2>2. (\E x \in Pending : x.id = id) => id \in IF Shown THEN QueueIds ELSE SavedIds
    BY DEF Pending, QueueIds, SavedIds, Of
  <2> QED  BY <2>1, <2>2 DEF Hands
<1> QED  BY <1>1, WindowInvariance, PTL

=============================================================================
