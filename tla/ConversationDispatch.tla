------------------------ MODULE ConversationDispatch ------------------------
(***************************************************************************)
(* How an instruction of a conversation reaches an agent, once:            *)
(* src/conversation-task-queue.js with its callers in src/app.js (a window *)
(* that queues and dispatches), and the start, the record and the lane of  *)
(* src/server/conversation-agent-service.mjs (which runs agents).          *)
(*                                                                         *)
(* The window keeps the queue, a card per dispatch and one dispatch at a   *)
(* time; all of it is written to disk some time later and read again when  *)
(* the window is opened again.  A dispatch draws a source id, from which    *)
(* the service derives the run's id: that id is what makes a repeated      *)
(* start harmless.  The window or the service may end at any moment and    *)
(* the answer of a start may be lost.                                      *)
(*                                                                         *)
(* One conversation of one window and workspace.  Leases are left out: the *)
(* gate keeps a dispatch from outliving its lease in one window.           *)
(***************************************************************************)
EXTENDS Naturals, Sequences, FiniteSets

CONSTANTS MaxInstructions, MaxSources, MaxRuns,                   \* bounds
          MaxCloses, MaxRestarts, MaxLost, MaxEdits, MaxSupplements, MaxDeletes,
          InFront    \* may this conversation be the open one when a window starts

ASSUME DispatchAssumption ==
  /\ {MaxInstructions, MaxSources, MaxRuns, MaxCloses, MaxRestarts, MaxLost, MaxEdits,
      MaxSupplements, MaxDeletes} \subseteq Nat
  /\ InFront \in SUBSET BOOLEAN /\ InFront # {}

VARIABLES
  window,     \* closed, open (state loaded), ready (start-up is over)
  front,      \* is the conversation the one shown since the window was opened
  queue,      \* conversation.queue: [id, state, source]
  cards,      \* pending answers: [source, known (nativeAgentRunId), busy (counts as running)]
  gate,       \* the sendMessage under way: the gate's holder and its locals
  drain,      \* conversationQueueDrainScheduled
  marked,     \* sources of the cards reconcileInterruptedTextGenerationAttempts looks into
  supp,       \* a supplement under way
  saved,      \* queue and cards as they are on disk
  starts,     \* start calls inside the service: [source, era, step]
  mem, disk,  \* the service's runs map and its record files, per source
  lane,       \* the source that holds the conversation's lane, or 0
  live,       \* agents at work: [source, run]
  owner,      \* history: the instruction a source was drawn for, or 0
  given,      \* history: what agents were given: [id, source, run]
  gone,       \* history: instructions the user deleted or was told the failure of
  excused,    \* history: instructions whose repetition is a known one
  crossed,    \* history: two starts were inside the service together
  used        \* how often each bounded thing has happened

view == <<window, front, queue, cards, gate, drain, marked, supp>>
service == <<starts, mem, disk, lane, live>>
ghosts == <<owner, given, gone, excused, crossed>>
vars == <<view, saved, service, ghosts, used>>

Ids == 1 .. MaxInstructions
Sources == 1 .. MaxSources
Counters == {"sent", "sources", "runs", "closes", "restarts", "lost", "edits", "supplements", "deletes"}
NoGate == [id |-> 0, source |-> 0, queued |-> FALSE, phase |-> "free"]
NoRecord == [status |-> "none", run |-> 0]
NoSupp == [id |-> 0, era |-> 0, source |-> 0, phase |-> "none"]

Items == [id : Ids, state : {"queued", "dispatching", "editing"}, source : {0} \cup Sources]
Cards == [source : Sources, known : BOOLEAN, busy : BOOLEAN]
Records == [status : {"none", "running", "ended", "interrupted"}, run : 0 .. MaxRuns]

QueueIds == {queue[k].id : k \in DOMAIN queue}

TypeOK ==
  /\ window \in {"closed", "open", "ready"} /\ front \in BOOLEAN
  /\ queue \in Seq(Items) /\ Len(queue) = Cardinality(QueueIds) /\ cards \subseteq Cards /\ marked \subseteq Sources
  /\ gate \in [id : {0} \cup Ids, source : {0} \cup Sources, queued : BOOLEAN,
               phase : {"free", "claimed", "waiting", "accepted", "refused", "watching", "done"}]
  /\ drain \in BOOLEAN
  /\ supp \in [id : {0} \cup Ids, era : Nat, source : {0} \cup Sources, phase : {"none", "sent", "taken", "deferred"}]
  /\ saved.queue \in Seq(Items) /\ saved.cards \subseteq Cards
  /\ starts \subseteq [source : Sources, era : Nat, step : {"reading", "absent", "found"}]
  /\ mem \in [Sources -> Records] /\ disk \in [Sources -> Records]
  /\ lane \in {0} \cup Sources /\ live \subseteq [source : Sources, run : 1 .. MaxRuns]
  /\ owner \in [Sources -> {0} \cup Ids] /\ crossed \in BOOLEAN
  /\ given \subseteq [id : Ids, source : {0} \cup Sources, run : 1 .. MaxRuns]
  /\ gone \subseteq Ids /\ excused \subseteq Ids
  /\ used \in [Counters -> Nat]

Init ==
  /\ window = "ready" /\ front \in InFront
  /\ queue = <<>> /\ cards = {} /\ gate = NoGate /\ drain = FALSE /\ marked = {} /\ supp = NoSupp
  /\ saved = [queue |-> <<>>, cards |-> {}]
  /\ starts = {} /\ mem = [s \in Sources |-> NoRecord] /\ disk = mem /\ lane = 0 /\ live = {}
  /\ owner = [s \in Sources |-> 0] /\ given = {} /\ gone = {} /\ excused = {} /\ crossed = FALSE
  /\ used = [c \in Counters |-> 0]

Spend(what) == used' = [used EXCEPT ![what] = @ + 1]
Count(what) == used[what] + 1
Shown == window # "closed"
Era == used.closes

(* The items at some of a list's places, in the order of their keys; no    *)
(* two of them have the same key.                                          *)
InOrder(items, places, key) ==
  LET Rank(k) == Cardinality({j \in places : key[j] <= key[k]})
  IN [n \in 1 .. Cardinality(places) |-> items[CHOOSE k \in places : Rank(k) = n]]
Filter(items, places) == InOrder(items, places, [k \in places |-> k])

Without(id) == Filter(queue, {k \in DOMAIN queue : queue[k].id # id})
WithState(id, from, to) ==
  [k \in DOMAIN queue |-> IF queue[k].id = id /\ queue[k].state = from
                          THEN [queue[k] EXCEPT !.state = to] ELSE queue[k]]
Ready == {k \in DOMAIN queue : queue[k].state = "queued"}
Free == gate = NoGate /\ ~ \E c \in cards : c.busy       \* ~ conversationHasRunningTask
Terminal(record) == record.status \in {"ended", "interrupted"}

----------------------------------------------------------------------------
(* The window: dispatch                                                    *)

(* executeConversationAgentMessage up to the request: the instruction keeps *)
(* the source id of an earlier dispatch, or draws one.                     *)
\* Mutant: every dispatch draws a source id of its own.
AlwaysFresh(item) == Count("sources")
SourceFor(item) == IF item.source # 0 THEN item.source ELSE Count("sources")

BeginDispatch(item, queued) ==
  LET source == SourceFor(item) IN
  /\ source \in Sources
  /\ gate' = [id |-> item.id, source |-> source, queued |-> queued, phase |-> "claimed"]
  /\ cards' = cards \cup {[source |-> source, known |-> FALSE, busy |-> TRUE]}
  /\ owner' = [owner EXCEPT ![source] = item.id]
  /\ used' = [used EXCEPT !.sources = IF source > @ THEN source ELSE @,
                          !.sent = IF item.id > @ THEN item.id ELSE @]

(* The composer: an instruction that finds the conversation free is sent,  *)
(* another one is queued.                                                  *)
Submit ==
  /\ Shown /\ used.sent < MaxInstructions
  /\ LET item == [id |-> Count("sent"), state |-> "queued", source |-> 0] IN
     \/ /\ Free /\ BeginDispatch(item, FALSE)
        /\ UNCHANGED <<queue, drain>>
     \/ /\ ~ Free
        /\ queue' = Append(queue, item) /\ drain' = TRUE /\ Spend("sent")
        /\ UNCHANGED <<gate, cards, owner>>
  /\ UNCHANGED <<window, front, marked, supp, saved, service, given, gone, excused, crossed>>

(* The timer of scheduleConversationQueueDrain, with                       *)
(* dequeueReadyConversationInstruction.                                    *)

DrainQueue ==
  /\ Shown /\ drain
  /\ IF Free /\ Ready # {}
     THEN LET k == CHOOSE j \in Ready : \A i \in Ready : j <= i IN
          /\ BeginDispatch(queue[k], TRUE)
          /\ queue' = [queue EXCEPT ![k].state = "dispatching", ![k].source = SourceFor(queue[k])]
          /\ drain' = FALSE
          /\ excused' = IF supp.id = queue[k].id THEN excused \cup {supp.id} ELSE excused
     ELSE /\ drain' = (Ready # {} /\ ~ Free)      \* once more a second later
          /\ UNCHANGED <<gate, queue, cards, owner, excused, used>>
  /\ UNCHANGED <<window, front, marked, supp, saved, service, given, gone, crossed>>

(* An answer reaches the window that asked.                                *)
Answer(era, answer) ==
  gate' = IF era = Era /\ gate.phase \in {"claimed", "waiting"} THEN [gate EXCEPT !.phase = answer] ELSE gate

(* The request of executeConversationAgentMessage enters the service's     *)
(* start, up to its first await: it is refused, answered from memory, or   *)
(* the record has to be read.                                              *)
\* Mutant: a run that has ended and not yet left its lane still refuses the next one.
LaneKept(source) == lane \notin {0, source}
LaneTaken(source) == lane \notin {0, source} /\ ~ Terminal(mem[lane])

Request ==
  /\ gate.phase = "claimed"
  /\ LET s == gate.source
         known == IF mem[s] = NoRecord THEN "reading" ELSE "found"
     IN IF LaneTaken(s) THEN Answer(Era, "refused") /\ UNCHANGED <<starts, lane, crossed, excused>>
        ELSE IF lane = s /\ mem[s].status = "running"
             THEN Answer(Era, "accepted") /\ UNCHANGED <<starts, lane, crossed, excused>>
             ELSE /\ lane' = s /\ starts' = starts \cup {[source |-> s, era |-> Era, step |-> known]}
                  /\ Answer(Era, "waiting")
                  /\ crossed' = (crossed \/ starts # {})
                  /\ excused' = excused \cup {owner[x.source] : x \in {y \in starts : y.source = s}}
  /\ UNCHANGED <<window, front, queue, cards, drain, marked, supp, saved, mem, disk, live, owner, given, gone, used>>

----------------------------------------------------------------------------
(* The service                                                             *)

(* get without an entry in memory: a run that the file says is running did *)
(* not survive a restart.                                                  *)
FromFile(s) == IF disk[s].status = "running" THEN [status |-> "interrupted", run |-> 0] ELSE disk[s]
Restored(s) == IF mem[s] = NoRecord THEN FromFile(s) ELSE mem[s]

ReadRecord(start) ==
  /\ start \in starts /\ start.step = "reading"
  /\ LET s == start.source IN
     /\ starts' = (starts \ {start}) \cup
                  {[start EXCEPT !.step = IF disk[s] = NoRecord THEN "absent" ELSE "found"]}
     /\ mem' = IF disk[s] = NoRecord THEN mem ELSE [mem EXCEPT ![s] = FromFile(s)]
     /\ disk' = [disk EXCEPT ![s] = FromFile(s)]
  /\ UNCHANGED <<view, saved, lane, live, ghosts, used>>

(* The rest of start: a run that exists is answered, another one recorded  *)
(* and executed.                                                           *)
Exists(start) == start.step = "found"

EndStart(start) ==
  /\ start \in starts /\ start.step # "reading" /\ starts' = starts \ {start}
  /\ Answer(start.era, "accepted")
  /\ LET s == start.source  n == Count("runs") IN
     \/ /\ Exists(start) /\ lane' = 0
        /\ UNCHANGED <<mem, disk, live, given, used>>
     \/ /\ ~ Exists(start) /\ n <= MaxRuns /\ Spend("runs")
        /\ lane' = s /\ live' = live \cup {[source |-> s, run |-> n]}
        /\ mem' = [mem EXCEPT ![s] = [status |-> "running", run |-> n]]
        /\ disk' = [disk EXCEPT ![s] = mem'[s]]
        /\ given' = given \cup {[id |-> owner[s], source |-> s, run |-> n]}
  /\ UNCHANGED <<window, front, queue, cards, drain, marked, supp, saved, owner, gone, excused, crossed>>

(* execute: the agent completes, fails or is cancelled; the record says so *)
(* before the lane is given up.                                            *)
AtWork(r) == disk[r.source] = [status |-> "running", run |-> r.run]

EndRun(r) ==
  /\ r \in live /\ AtWork(r)
  /\ disk' = [disk EXCEPT ![r.source].status = "ended"]
  /\ mem' = IF mem[r.source].run = r.run THEN [mem EXCEPT ![r.source].status = "ended"] ELSE mem
  /\ UNCHANGED <<view, saved, starts, lane, live, ghosts, used>>

\* Mutant: the lane is given up whoever has it.
LeavesAnyLane(r) == TRUE
LeavesLane(r) == lane = r.source

LeaveLane(r) ==
  /\ r \in live /\ ~ AtWork(r) /\ live' = live \ {r}
  /\ lane' = IF LeavesLane(r) THEN 0 ELSE lane
  /\ UNCHANGED <<view, saved, starts, mem, disk, ghosts, used>>

(* The service's process ends and starts again: its memory and its calls   *)
(* are lost, and so is what it has not answered yet, the supplement that   *)
(* an agent has taken included.                                            *)
Restart ==
  /\ used.restarts < MaxRestarts /\ Spend("restarts")
  /\ starts' = {} /\ mem' = [s \in Sources |-> NoRecord] /\ lane' = 0 /\ live' = {}
  /\ gate' = IF gate.phase = "waiting" THEN [gate EXCEPT !.phase = "refused"] ELSE gate
  /\ supp' = IF supp.phase \in {"sent", "taken"} THEN [supp EXCEPT !.phase = "deferred"] ELSE supp
  /\ excused' = IF supp.phase = "taken" THEN excused \cup {supp.id} ELSE excused
  /\ UNCHANGED <<window, front, queue, cards, drain, marked, saved, disk, owner, given, gone, crossed>>

----------------------------------------------------------------------------
(* The window: the end of a dispatch                                       *)

(* The answer of a start or of a supplement is lost: the window takes the  *)
(* request for failed.  An instruction that an agent has taken as a         *)
(* supplement then stays in the queue and is dispatched later.             *)
LoseAnswer ==
  /\ used.lost < MaxLost /\ Spend("lost")
  /\ \/ /\ gate.phase = "accepted"
        /\ gate' = [gate EXCEPT !.phase = "refused"] /\ UNCHANGED <<supp, excused>>
     \/ /\ supp.phase = "taken"
        /\ supp' = [supp EXCEPT !.phase = "deferred"] /\ excused' = excused \cup {supp.id}
        /\ UNCHANGED gate
  /\ UNCHANGED <<window, front, queue, cards, drain, marked, saved, service, owner, given, gone, crossed>>

(* persistNativeConversation: the queue is put in the order of queuedAt.   *)
Ordered(items) == InOrder(items, DOMAIN items, [k \in DOMAIN items |-> items[k].id])
Dispatching(items) == {k \in DOMAIN items : items[k].state = "dispatching"}
Acked(id) == Filter(queue, {k \in DOMAIN queue : queue[k].id # id \/ k \notin Dispatching(queue)})

(* The run has a name: markConversationInstructionAccepted and the         *)
(* acknowledgement.                                                        *)
Started ==
  /\ gate.phase = "accepted"
  /\ gate' = [gate EXCEPT !.phase = "watching"]
  /\ cards' = {IF c.source = gate.source THEN [c EXCEPT !.known = TRUE] ELSE c : c \in cards}
  /\ queue' = Ordered(IF gate.queued THEN Acked(gate.id) ELSE queue)
  /\ UNCHANGED <<window, front, drain, marked, supp, saved, service, ghosts, used>>

(* nackConversationInstruction: back to the front of the queue.            *)
\* Mutant: a dispatch that was not accepted is acknowledged.
AckAnyway(items, id) == Filter(items, {k \in DOMAIN items : items[k].id # id})
\* Mutant: the instruction is put in front and not taken from its old place.
NackedTwice(items, id) == Filter(items, {k \in DOMAIN items : items[k].id = id}) \o items
InFrontAgain(items, out) ==
  LET nacked == Filter(items, out)
  IN [k \in DOMAIN nacked |-> [nacked[k] EXCEPT !.state = "queued"]] \o Filter(items, DOMAIN items \ out)
Nacked(items, id) == InFrontAgain(items, {k \in Dispatching(items) : items[k].id = id})

(* The start failed, or its answer was lost: the card says so.             *)
NotStarted ==
  /\ gate.phase = "refused"
  /\ cards' = {c \in cards : c.source # gate.source \/ c.known}
  /\ IF gate.queued
     THEN queue' = Nacked(Ordered(queue), gate.id) /\ UNCHANGED <<gone, drain>>
     ELSE queue' = Ordered(queue) /\ gone' = gone \cup {gate.id} /\ drain' = TRUE
  /\ gate' = NoGate
  /\ UNCHANGED <<window, front, marked, supp, saved, service, owner, given, excused, crossed, used>>

(* The poll of monitorNativeConversation finds the run terminal: the card  *)
(* ends and the queue is woken.                                            *)
WatchEnds(c) ==
  /\ Shown /\ c \in cards /\ c.known /\ Terminal(Restored(c.source))
  /\ cards' = cards \ {c} /\ queue' = Ordered(queue) /\ drain' = TRUE
  /\ gate' = IF gate.phase = "watching" /\ gate.source = c.source THEN [gate EXCEPT !.phase = "done"] ELSE gate
  /\ mem' = [mem EXCEPT ![c.source] = Restored(c.source)]
  /\ disk' = [disk EXCEPT ![c.source] = Restored(c.source)]
  /\ UNCHANGED <<window, front, marked, supp, saved, starts, lane, live, ghosts, used>>

(* sendMessage is over: it lets go of the gate and wakes the queue again.  *)
ReleaseGate ==
  /\ gate.phase = "done" /\ gate' = NoGate /\ drain' = TRUE
  /\ UNCHANGED <<window, front, queue, cards, marked, supp, saved, service, ghosts, used>>

----------------------------------------------------------------------------
(* The window: the user and the queue                                      *)

BeginEdit(id) ==
  /\ Shown /\ used.edits < MaxEdits /\ \E k \in Ready : queue[k].id = id
  /\ queue' = WithState(id, "queued", "editing") /\ Spend("edits")
  /\ UNCHANGED <<window, front, cards, gate, drain, marked, supp, saved, service, ghosts>>

(* requeueEditedConversationInstruction: the source id stays.              *)
SendEdited(id) ==
  /\ Shown /\ \E k \in DOMAIN queue : queue[k].id = id /\ queue[k].state = "editing"
  /\ queue' = WithState(id, "editing", "queued") /\ drain' = TRUE
  /\ UNCHANGED <<window, front, cards, gate, marked, supp, saved, service, ghosts, used>>

Delete(id) ==
  /\ Shown /\ used.deletes < MaxDeletes /\ id \in QueueIds
  /\ queue' = Without(id) /\ gone' = gone \cup {id} /\ Spend("deletes")
  /\ UNCHANGED <<window, front, cards, gate, drain, marked, supp, saved, service, owner, given, excused, crossed>>

(* supplementQueuedMessage: a queued instruction is handed to the run whose *)
(* card is pending; it stays in the queue, and may be dispatched, until    *)
(* the answer is there.                                                    *)
Supplement(id) ==
  /\ Shown /\ used.supplements < MaxSupplements /\ Spend("supplements")
  /\ id \in QueueIds /\ supp = NoSupp
  /\ \E c \in cards :
       /\ c.busy
       /\ supp' = [id |-> id, era |-> Era, source |-> c.source, phase |-> IF c.known THEN "sent" ELSE "deferred"]
  /\ UNCHANGED <<window, front, queue, cards, gate, drain, marked, saved, service, ghosts>>

TakeSupplement ==
  /\ supp.phase = "sent"
  /\ \/ /\ \E r \in live : r.source = supp.source /\ mem[r.source] = [status |-> "running", run |-> r.run]
        /\ Count("runs") <= MaxRuns /\ Spend("runs")
        /\ given' = given \cup {[id |-> supp.id, source |-> 0, run |-> Count("runs")]}
        /\ excused' = IF \/ gate.id = supp.id \/ \E g \in given : g.id = supp.id
                         \/ \E x \in starts : owner[x.source] = supp.id
                      THEN excused \cup {supp.id} ELSE excused
        /\ supp' = [supp EXCEPT !.phase = "taken"]
     \/ supp' = [supp EXCEPT !.phase = "deferred"] /\ UNCHANGED <<given, excused, used>>
  /\ UNCHANGED <<window, front, queue, cards, gate, drain, marked, saved, service, owner, gone, crossed>>

(* The end of supplementQueuedMessage: the item leaves the queue, or stays *)
(* there if no agent took it or the request has failed.                    *)
Supplemented ==
  /\ supp.phase \in {"taken", "deferred"} /\ supp' = NoSupp
  /\ queue' = IF supp.phase = "taken" /\ supp.era = Era THEN Without(supp.id) ELSE queue
  /\ UNCHANGED <<window, front, cards, gate, drain, marked, saved, service, ghosts, used>>

----------------------------------------------------------------------------
(* The window is saved, closed and opened again                            *)

(* persist, 180 ms and a workspace save later.                             *)
Save ==
  /\ Shown /\ saved' = [queue |-> queue, cards |-> cards] /\ saved' # saved
  /\ UNCHANGED <<view, service, ghosts, used>>

SavedIds == {saved.queue[k].id : k \in DOMAIN saved.queue}
(* What the copy on disk knows nothing of, so that it will be done again.  *)
Repeated(item) ==
  \/ \E s \in Sources : owner[s] = item.id /\ s # item.source
  \/ supp.id = item.id \/ \E g \in given : g.id = item.id /\ g.source = 0

(* The window ends without another save; what was not saved is not there   *)
(* when it is opened again, and its user sees that.                        *)
Close ==
  /\ Shown /\ used.closes < MaxCloses /\ Spend("closes")
  /\ window' = "closed"
  /\ queue' = <<>> /\ cards' = {} /\ gate' = NoGate /\ drain' = FALSE /\ marked' = {}
  /\ gone' = gone \cup (QueueIds \ SavedIds) \cup (IF gate.queued THEN {} ELSE {gate.id} \ {0})
  /\ excused' = excused \cup {saved.queue[k].id : k \in {j \in DOMAIN saved.queue : Repeated(saved.queue[j])}}
  /\ UNCHANGED <<front, supp, saved, service, owner, given, crossed>>

Open ==
  /\ window = "closed" /\ window' = "open" /\ front' \in InFront
  /\ queue' = saved.queue /\ cards' = saved.cards
  /\ UNCHANGED <<gate, drain, marked, supp, saved, service, ghosts, used>>

(* The end of bootstrap: recoverConversationTaskQueueForStartup or         *)
(* recoverConversationTaskQueue, which give every dispatching item back,   *)
(* and reconcileInterruptedTextGenerationAttempts for the conversation     *)
(* that is shown.                                                          *)
Recovered == InFrontAgain(queue, Dispatching(queue))

Startup ==
  /\ window = "open" /\ window' = "ready"
  /\ queue' = Recovered
  /\ drain' = (drain \/ \E k \in DOMAIN queue' : queue'[k].state # "dispatching")
  /\ marked' = IF front THEN {c.source : c \in {x \in cards : x.busy}} ELSE {}
  /\ UNCHANGED <<front, cards, gate, supp, saved, service, ghosts, used>>

(* finalizeInterruptedTextGeneration: the attempts of agent runs are not   *)
(* in the store that is asked, so the card asks to generate again.         *)
Reconcile(s) ==
  /\ Shown /\ s \in marked /\ marked' = marked \ {s}
  /\ cards' = {IF c.source = s THEN [c EXCEPT !.busy = FALSE] ELSE c :
                c \in {x \in cards : x.source # s \/ x.known \/ gate.source = s}}
  /\ UNCHANGED <<window, front, queue, gate, drain, supp, saved, service, ghosts, used>>

----------------------------------------------------------------------------
User == Submit \/ \E id \in Ids : BeginEdit(id) \/ Delete(id) \/ Supplement(id)
Sending == DrainQueue \/ Request \/ Started \/ NotStarted \/ ReleaseGate \/ (\E c \in cards : WatchEnds(c))
Serving == (\E start \in starts : ReadRecord(start) \/ EndStart(start)) \/ TakeSupplement \/ Supplemented
Running == \E r \in live : EndRun(r) \/ LeaveLane(r)
Opening == Open \/ Startup \/ (\E s \in marked : Reconcile(s))
Editing == \E id \in Ids : SendEdited(id)

Next == User \/ Sending \/ Serving \/ Running \/ Opening \/ Editing
        \/ LoseAnswer \/ Restart \/ Save \/ Close

Spec == Init /\ [][Next]_vars

(* Timers fire, requests are answered, agents end, an edit that was begun  *)
(* is sent and a window that was closed is opened again.                   *)
FairSpec ==
  /\ Spec
  /\ WF_vars(DrainQueue) /\ WF_vars(Request) /\ WF_vars(Started) /\ WF_vars(NotStarted) /\ WF_vars(ReleaseGate)
  /\ \A s \in Sources, known \in BOOLEAN, busy \in BOOLEAN :
       WF_vars(WatchEnds([source |-> s, known |-> known, busy |-> busy]))
  /\ WF_vars(Serving) /\ WF_vars(Running) /\ WF_vars(Opening) /\ WF_vars(Editing)

----------------------------------------------------------------------------
(* Properties                                                              *)

(* An agent is given an instruction once, whatever is repeated: starts,    *)
(* dispatches, sessions (runIdFor, start).  Known repetitions: the window  *)
(* ended before the dispatch was saved; two starts of one source were in   *)
(* the service together; the instruction was taken as a supplement while   *)
(* it was dispatched or after an agent had it, or while a start of it,     *)
(* perhaps of an earlier window, was in the service; the answer of a       *)
(* supplement that an agent has taken was lost, or the service ended       *)
(* before it, so that the item is still queued (app.js 34387-34391).       *)
GivenOnce == \A a, b \in given : a.id = b.id => a = b \/ a.id \in excused

(* An instruction is in the queue, on its way, or in an agent's hands,     *)
(* until its user has deleted it, lost it unsaved or been told that it     *)
(* failed (nackConversationInstruction, start-up recovery).                *)
NothingForgotten ==
  \A id \in 1 .. used.sent :
    \/ id \in gone \/ gate.id = id \/ \E g \in given : g.id = id
    \/ id \in IF Shown THEN QueueIds ELSE SavedIds

(* Two agents never work in one conversation (the lane of                  *)
(* conversation-agent-service.mjs), unless two starts met inside the       *)
(* service.                                                                *)
OneAtATime == ~ crossed => Cardinality({r \in live : AtWork(r)}) <= 1

(* Every instruction is done, deleted or failed in the end: it leaves the  *)
(* queue, its dispatch and its card.                                       *)
Settled(id) ==
  /\ window = "ready" /\ id \notin QueueIds /\ gate.id # id
  /\ ~ \E c \in cards : owner[c.source] = id
EveryInstructionEnds == \A id \in Ids : used.sent >= id ~> Settled(id)
=============================================================================
