--------------------------- MODULE HSSWorkerQueue ---------------------------
(***************************************************************************)
(* Admission control of the S6a requests and the worker pool that runs     *)
(* them: QueueManager (include/worker.h), HSSWorkerQueue (src/fdhss.cpp),  *)
(* WorkerManager and WorkerThread (src/worker.cpp) over an SQueue.         *)
(*                                                                         *)
(* A freeDiameter dispatch thread wraps each Update-Location or            *)
(* Authentication-Information request in a processor, queues it, and tries *)
(* to start one queued processor.  A started processor occupies one of     *)
(* m_concurrent slots; its phases run on worker threads, one worker message*)
(* per completed database query, until it is deleted.  The worker that     *)
(* deletes it releases the slot and tries to start the next processor.     *)
(*                                                                         *)
(* What the phases compute is left to the modules ULRProcessor and         *)
(* AIRProcessor.  Here a processor is what the queue sees of it: it issues *)
(* queries, each query completes with one more worker message, and it ends *)
(* when it has come to its final phase and nothing it started is           *)
(* outstanding.  One that stops in another phase keeps its slot for good.  *)
(***************************************************************************)
EXTENDS Integers, Sequences, FiniteSets

CONSTANTS
    Procs,              \* the processors: one per request received
    FDThreads,          \* freeDiameter threads that dispatch requests
    Workers,            \* WorkerThreads of the WorkerManager
    DefaultConcurrent,  \* m_concurrent as the constructor sets it (10)
    ConfConcurrent,     \* Options::getconcurrent(), set at the end of init
    MaxQueries,         \* bound: the queries one processor issues
    NoProc              \* a thread that holds no processor

Threads == FDThreads \cup Workers

ASSUME QueueAssumption ==
    /\ IsFiniteSet(Procs) /\ IsFiniteSet(FDThreads) /\ IsFiniteSet(Workers)
    /\ FDThreads \cap Workers = {}
    /\ NoProc \notin Procs
    /\ DefaultConcurrent \in Nat \ {0}
    /\ ConfConcurrent \in Nat \ {0}
    /\ MaxQueries \in Nat

VARIABLES
    m_queue,        \* std::queue of processors waiting for a slot
    m_pending,      \* number of queued processors
    m_active,       \* number of occupied slots
    m_concurrent,   \* number of slots
    work,           \* the WorkerManager's SQueue of WORKER_EVENT messages
    pc,             \* what each thread does next
    cur,            \* the processor each thread works on
    life,           \* of each processor: new, queued, active, deleted, gone
    inflight,       \* of each processor: queries with the database
    left            \* of each processor: queries it may still issue

qvars == <<m_queue, m_pending, m_active, m_concurrent>>
vars == <<m_queue, m_pending, m_active, m_concurrent, work, pc, cur, life,
          inflight, left>>

Init ==
    /\ m_queue = <<>> /\ m_pending = 0 /\ m_active = 0
    /\ m_concurrent = DefaultConcurrent
    /\ work = <<>>
    /\ pc = [t \in Threads |-> "idle"]
    /\ cur = [t \in Threads |-> NoProc]
    /\ life = [p \in Procs |-> "new"]
    /\ inflight = [p \in Procs |-> 0]
    /\ left = [p \in Procs |-> MaxQueries]

-----------------------------------------------------------------------------
(* The worker messages of p that no worker has begun to run yet: what the  *)
(* processor counts in m_msgissued.  w is the worker that runs one now.    *)
OtherMessage(p, w) ==
    \/ \E i \in 1..Len(work) : work[i] = p
    \/ \E v \in Workers \ {w} : pc[v] = "run" /\ cur[v] = p

(* phaseReady(PHASEFINAL) once n more queries are out: m_dbissued and       *)
(* m_msgissued are both zero.                                               *)
FinalReady_NoMsgTest(p, w, n) == inflight[p] + n = 0
FinalReady(p, w, n) == inflight[p] + n = 0 /\ ~OtherMessage(p, w)

(* The limit test of startMessage.                                          *)
SlotFree_OffByOne == m_active <= m_concurrent
SlotFree == m_active < m_concurrent

(* The slot count that finishMessage leaves.                                *)
SlotsLeft_Leak == m_active
SlotsLeft == m_active - 1

(* What the worker does after finishProcessor(): startProcessor().          *)
AfterFinish_NoStart == "idle"
AfterFinish == "start"

(* m_dbissued after the tail of a callback.                                 *)
QueryDone_Twice(p) == inflight[p] - 2
QueryDone(p) == inflight[p] - 1

(* UPLRcmd::process and AUIRcmd::process: create the processor, addEntry.  *)
ReceiveRequest(t, p) ==
    /\ pc[t] = "idle" /\ life[p] = "new"
    /\ m_queue' = Append(m_queue, p)
    /\ m_pending' = m_pending + 1
    /\ life' = [life EXCEPT ![p] = "queued"]
    /\ pc' = [pc EXCEPT ![t] = "start"]
    /\ UNCHANGED <<m_active, m_concurrent, work, cur, inflight, left>>

(* startMessage, under the queue's mutex: take the oldest processor if a   *)
(* slot is free; startProcessor then triggers it, or returns.              *)
StartMessage(t) ==
    /\ pc[t] = "start"
    /\ IF SlotFree /\ m_pending > 0
       THEN /\ m_queue' = Tail(m_queue)
            /\ m_pending' = m_pending - 1
            /\ m_active' = m_active + 1
            /\ life' = [life EXCEPT ![Head(m_queue)] = "active"]
            /\ cur' = [cur EXCEPT ![t] = Head(m_queue)]
            /\ pc' = [pc EXCEPT ![t] = "trigger"]
       ELSE /\ pc' = [pc EXCEPT ![t] = "idle"]
            /\ UNCHANGED <<m_queue, m_pending, m_active, life, cur>>
    /\ UNCHANGED <<m_concurrent, work, inflight, left>>

(* triggerNextPhase of the processor just started: addWork.                *)
TriggerNextPhase(t) ==
    /\ pc[t] = "trigger"
    /\ work' = Append(work, cur[t])
    /\ pc' = [pc EXCEPT ![t] = "idle"]
    /\ cur' = [cur EXCEPT ![t] = NoProc]
    /\ UNCHANGED <<qvars, life, inflight, left>>

(* WorkerThread::threadProc: take one message and process it.              *)
GetWork(w) ==
    /\ pc[w] = "idle" /\ work # <<>>
    /\ cur' = [cur EXCEPT ![w] = Head(work)]
    /\ work' = Tail(work)
    /\ pc' = [pc EXCEPT ![w] = "run"]
    /\ UNCHANGED <<qvars, life, inflight, left>>

(* processNextPhase, under the processor's mutex: run the phases that are  *)
(* ready, issuing n queries.  If they come to PHASEFINAL, the processor is *)
(* deleted as soon as it has no query and no other message outstanding, and*)
(* leaves through finishMessage.  One that stops in another phase is left  *)
(* alone, even when nothing is outstanding that would bring another worker *)
(* to it.                                                                  *)
ProcessNextPhase(w, n) ==
    /\ pc[w] = "run"
    /\ LET p == cur[w] IN
       /\ n <= left[p]
       /\ left' = [left EXCEPT ![p] = left[p] - n]
       /\ inflight' = [inflight EXCEPT ![p] = inflight[p] + n]
       /\ \/ /\ FinalReady(p, w, n)
             /\ life' = [life EXCEPT ![p] = "deleted"]
             /\ pc' = [pc EXCEPT ![w] = "finish"]
             /\ UNCHANGED cur
          \/ /\ pc' = [pc EXCEPT ![w] = "idle"]
             /\ cur' = [cur EXCEPT ![w] = NoProc]
             /\ UNCHANGED life
    /\ UNCHANGED <<qvars, work>>

(* finishMessage, under the queue's mutex; startProcessor follows.         *)
FinishMessage(w) ==
    /\ pc[w] = "finish"
    /\ m_active' = SlotsLeft
    /\ life' = [life EXCEPT ![cur[w]] = "gone"]
    /\ pc' = [pc EXCEPT ![w] = AfterFinish]
    /\ cur' = [cur EXCEPT ![w] = NoProc]
    /\ UNCHANGED <<m_queue, m_pending, m_concurrent, work, inflight, left>>

(* A driver thread completes a query: the tail of on_ulr_callback and      *)
(* on_air_callback, under the processor's mutex.                           *)
Callback(p) ==
    /\ inflight[p] > 0
    /\ inflight' = [inflight EXCEPT ![p] = QueryDone(p)]
    /\ work' = Append(work, p)
    /\ UNCHANGED <<qvars, pc, cur, life, left>>

(* FDHss::init sets the limit after m_diameter.start() let requests in,    *)
(* and does not hold the queue's mutex.                                    *)
SetConcurrent ==
    /\ m_concurrent # ConfConcurrent
    /\ m_concurrent' = ConfConcurrent
    /\ UNCHANGED <<m_queue, m_pending, m_active, work, pc, cur, life,
                   inflight, left>>

Next ==
    \/ \E t \in FDThreads, p \in Procs : ReceiveRequest(t, p)
    \/ \E t \in Threads : StartMessage(t) \/ TriggerNextPhase(t)
    \/ \E w \in Workers : GetWork(w) \/ FinishMessage(w)
    \/ \E w \in Workers, n \in 0..MaxQueries : ProcessNextPhase(w, n)
    \/ \E p \in Procs : Callback(p)
    \/ SetConcurrent

(* Threads run to completion and the driver calls back for every query it  *)
(* accepted.  Nothing obliges a peer to send a request.                    *)
Fairness ==
    /\ \A t \in Threads : WF_vars(StartMessage(t)) /\ WF_vars(TriggerNextPhase(t))
    /\ \A w \in Workers : /\ WF_vars(GetWork(w))
                          /\ WF_vars(FinishMessage(w))
                          /\ WF_vars(\E n \in 0..MaxQueries : ProcessNextPhase(w, n))
    /\ \A p \in Procs : WF_vars(Callback(p))

Spec == Init /\ [][Next]_vars
FairSpec == Spec /\ Fairness

-----------------------------------------------------------------------------
TypeOK ==
    /\ m_queue \in Seq(Procs)
    /\ m_pending \in Nat /\ m_active \in Int
    /\ m_concurrent \in {DefaultConcurrent, ConfConcurrent}
    /\ work \in Seq(Procs)
    /\ pc \in [Threads -> {"idle", "start", "trigger", "run", "finish"}]
    /\ cur \in [Threads -> Procs \cup {NoProc}]
    /\ life \in [Procs -> {"new", "queued", "active", "deleted", "gone"}]
    /\ inflight \in [Procs -> Nat]
    /\ left \in [Procs -> 0..MaxQueries]

Holding == {p \in Procs : life[p] \in {"active", "deleted"}}
Starters == {t \in Threads : pc[t] = "start"}
Limit == IF m_concurrent < DefaultConcurrent THEN m_concurrent ELSE DefaultConcurrent

(* The slots are accounted for: m_active counts exactly the processors that *)
(* were started and whose slot finishMessage has not released, m_pending    *)
(* the queued ones, whatever the interleaving of dispatch threads, workers  *)
(* and callbacks (QueueManager::startMessage and finishMessage).            *)
SlotAccounting ==
    /\ m_active = Cardinality(Holding)
    /\ m_pending = Len(m_queue)

(* No slot is handed out beyond the larger of the default and the           *)
(* configured limit, even while FDHss::init changes the limit under load.   *)
ConcurrencyLimit ==
    Cardinality(Holding) <= IF DefaultConcurrent > ConfConcurrent
                            THEN DefaultConcurrent ELSE ConfConcurrent

(* No lost start: a request never sits in the queue beside a free slot      *)
(* unless enough threads are already about to call startMessage for it.     *)
(* Slots that setConcurrent adds count only once they are in use: raising   *)
(* the limit starts nobody.                                                 *)
NoLostStart ==
    \/ m_pending <= Cardinality(Starters)
    \/ Limit - m_active <= Cardinality(Starters)

(* A deleted processor is out of everyone's hands: no worker message names  *)
(* it, no query of it is with the database, no worker runs it.  This is     *)
(* what phaseReady's test of m_dbissued and m_msgissued is for.             *)
NoUseAfterDelete ==
    \A p \in Procs : life[p] \in {"deleted", "gone"} =>
        /\ \A i \in 1..Len(work) : work[i] # p
        /\ inflight[p] = 0
        /\ \A w \in Workers : pc[w] = "run" => cur[w] # p

(* The processors that stopped short of PHASEFINAL: they hold a slot, and    *)
(* no query, no worker message and no thread will come back to them.        *)
Abandoned ==
    {p \in Procs : /\ life[p] = "active" /\ inflight[p] = 0
                   /\ \A i \in 1..Len(work) : work[i] # p
                   /\ \A t \in Threads : cur[t] # p}

(* The queue loses no request: each one taken from the network is processed *)
(* to its end and its slot released, unless it stops short of PHASEFINAL    *)
(* itself, or requests that did so sit on all the slots that are handed out *)
(* (as in NoLostStart, a slot that setConcurrent adds starts nobody).  As   *)
(* long as one slot is left, everybody else gets through it.                *)
EveryRequestEnds ==
    \A p \in Procs : life[p] = "queued" ~>
        \/ life[p] = "gone"
        \/ p \in Abandoned
        \/ Cardinality(Abandoned) >= Limit
=============================================================================
