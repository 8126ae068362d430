---------------------------- MODULE AIRProcessor ----------------------------
(***************************************************************************)
(* Authentication-Information requests for one subscriber, run through the *)
(* admission queue and the worker pool (class AIRProcessor and AUIRcmd,    *)
(* src/s6as6d_impl.cpp; getImsiSec and updateRandSqn, src/dataaccess.cpp). *)
(*                                                                         *)
(* phase1 reads the subscriber's key and sequence number, phase2 computes  *)
(* the vectors, answers and writes the advanced sequence number back, and  *)
(* phase3 ends the request when the write is done.  Requests for the same  *)
(* subscriber share the users_imsi row and nothing orders them.            *)
(*                                                                         *)
(* HSSWorkerQueue abstracts from the phases; QueueSpec says that the       *)
(* phases implement it.                                                    *)
(***************************************************************************)
EXTENDS Integers, Sequences, FiniteSets

CONSTANTS
    Procs, FDThreads, Workers, NoProc,
    DefaultConcurrent,  \* slots as the constructor sets them
    ConfConcurrent,     \* slots as FDHss::init sets them later
    Kinds,          \* requests that occur: "plain", "resync", "rejected"
    MayNotIssue,    \* queries whose callback the driver may refuse
    WriteMayFail,   \* the update of the row may complete with an error
    InitSqn,        \* the subscriber's sequence number
    SqnMs,          \* the sequence number a resynchronising USIM reports
    SqnMod          \* stands for 2^48: a sequence number has six octets

Threads == FDThreads \cup Workers
DbOps == {"SEC", "UPD"}

(* A request: whether the subscriber is known is asked of the plain ones    *)
(* only, as a rejected request never gets as far as the database and the    *)
(* failure of the query ends a resynchronisation in the same way.           *)
Inputs == {i \in [kind : Kinds, known : BOOLEAN] : i.kind # "plain" => i.known}
NoSqn == -1

ASSUME AIRAssumption ==
    /\ IsFiniteSet(Procs) /\ IsFiniteSet(FDThreads) /\ IsFiniteSet(Workers)
    /\ FDThreads \cap Workers = {} /\ NoProc \notin Procs
    /\ DefaultConcurrent \in Nat \ {0} /\ ConfConcurrent \in Nat \ {0}
    /\ Kinds \subseteq {"plain", "resync", "rejected"}
    /\ MayNotIssue \subseteq DbOps /\ WriteMayFail \in BOOLEAN
    /\ SqnMod \in Nat \ {0} /\ InitSqn \in Nat /\ SqnMs \in 0..(SqnMod - 1)

VARIABLES
    m_queue, m_pending, m_active, m_concurrent,     \* QueueManager
    work, pc, cur, life,            \* worker messages, threads, processors
    in,             \* of each request: its kind, and whether its IMSI is known
    m_nextphase, m_msgissued, m_dbissued, m_dbexecuted, m_dbresult,
    cb,             \* of each request: the stage of each query's callback
    m_sec,          \* of each request: the sequence number it works with
    row,            \* users_imsi.sqn
    sent,           \* of each request: result codes sent
    used,           \* requests that handed out vectors, in order
    serial,         \* so far no two requests held a slot at once, and every
                    \* sequence number handed out was written (history only)
    batch           \* of each request: queries issued by the worker now in its
                    \* phases (for the refinement only)

qvars == <<m_queue, m_pending, m_active, m_concurrent>>
proc == <<m_nextphase, m_msgissued, m_dbissued, m_dbexecuted, m_dbresult>>
vars == <<qvars, work, pc, cur, life, in, proc, cb, m_sec, row, sent, used,
          serial, batch>>

Init ==
    /\ m_queue = <<>> /\ m_pending = 0 /\ m_active = 0
    /\ m_concurrent = DefaultConcurrent
    /\ work = <<>>
    /\ pc = [t \in Threads |-> "idle"] /\ cur = [t \in Threads |-> NoProc]
    /\ life = [p \in Procs |-> "new"]
    /\ in \in [Procs -> Inputs]
    /\ m_nextphase = [p \in Procs |-> "AIR1"]
    /\ m_msgissued = [p \in Procs |-> 0] /\ m_dbissued = [p \in Procs |-> 0]
    /\ m_dbexecuted = [p \in Procs |-> {}] /\ m_dbresult = [p \in Procs |-> DbOps]
    /\ cb = [p \in Procs |-> [o \in DbOps |-> "none"]]
    /\ m_sec = [p \in Procs |-> NoSqn]
    /\ row = InitSqn
    /\ sent = [p \in Procs |-> <<>>]
    /\ used = <<>> /\ serial = TRUE /\ batch = [p \in Procs |-> {}]

-----------------------------------------------------------------------------
(* QueueManager and WorkerManager, as in HSSWorkerQueue.                    *)
(* AUIRcmd::process.                                                        *)
ReceiveRequest(t, p) ==
    /\ pc[t] = "idle" /\ life[p] = "new"
    /\ m_queue' = Append(m_queue, p)
    /\ m_pending' = m_pending + 1
    /\ life' = [life EXCEPT ![p] = "queued"]
    /\ pc' = [pc EXCEPT ![t] = "start"]
    /\ UNCHANGED <<m_active, m_concurrent, work, cur, in, proc, cb, m_sec, row, sent,
                   used, serial, batch>>

StartMessage(t) ==
    /\ pc[t] = "start"
    /\ IF m_active < m_concurrent /\ m_pending > 0
       THEN /\ serial' = (serial /\ m_active = 0)
            /\ m_queue' = Tail(m_queue)
            /\ m_pending' = m_pending - 1
            /\ m_active' = m_active + 1
            /\ life' = [life EXCEPT ![Head(m_queue)] = "active"]
            /\ cur' = [cur EXCEPT ![t] = Head(m_queue)]
            /\ pc' = [pc EXCEPT ![t] = "trigger"]
       ELSE /\ pc' = [pc EXCEPT ![t] = "idle"]
            /\ UNCHANGED <<m_queue, m_pending, m_active, life, cur, serial>>
    /\ UNCHANGED <<m_concurrent, work, in, proc, cb, m_sec, row, sent, used, batch>>

TriggerNextPhase(t) ==
    /\ pc[t] = "trigger"
    /\ work' = Append(work, cur[t])
    /\ m_msgissued' = [m_msgissued EXCEPT ![cur[t]] = @ + 1]
    /\ pc' = [pc EXCEPT ![t] = "idle"] /\ cur' = [cur EXCEPT ![t] = NoProc]
    /\ UNCHANGED <<qvars, life, in, m_nextphase, m_dbissued, m_dbexecuted, m_dbresult,
                   cb, m_sec, row, sent, used, serial, batch>>

GetWork(w) ==
    /\ pc[w] = "idle" /\ work # <<>>
    /\ cur' = [cur EXCEPT ![w] = Head(work)]
    /\ work' = Tail(work)
    /\ pc' = [pc EXCEPT ![w] = "run"]
    /\ UNCHANGED <<qvars, life, in, proc, cb, m_sec, row, sent, used, serial, batch>>

FinishMessage(w) ==
    /\ pc[w] = "finish"
    /\ m_active' = m_active - 1
    /\ life' = [life EXCEPT ![cur[w]] = "gone"]
    /\ pc' = [pc EXCEPT ![w] = "start"] /\ cur' = [cur EXCEPT ![w] = NoProc]
    /\ UNCHANGED <<m_queue, m_pending, m_concurrent, work, in, proc, cb, m_sec, row,
                   sent, used, serial, batch>>

(* FDHss::init sets the limit after requests were let in.                   *)
SetConcurrent ==
    /\ m_concurrent # ConfConcurrent
    /\ m_concurrent' = ConfConcurrent
    /\ UNCHANGED <<m_queue, m_pending, m_active, work, pc, cur, life, in, proc, cb,
                   m_sec, row, sent, used, serial, batch>>

-----------------------------------------------------------------------------
Locked(p) == \E w \in Workers : pc[w] = "phases" /\ cur[w] = p

(* phaseReady: a phase that is none of the AIR's is never ready.            *)
PhaseReady_NoMsgTest(p) ==
    \/ m_nextphase[p] = "AIR1"
    \/ m_nextphase[p] = "AIR2" /\ "SEC" \in m_dbexecuted[p]
    \/ m_nextphase[p] = "AIR3" /\ "UPD" \in m_dbexecuted[p]
    \/ m_nextphase[p] = "AIRFINAL" /\ m_dbissued[p] = 0
PhaseReady(p) ==
    \/ m_nextphase[p] = "AIR1"
    \/ m_nextphase[p] = "AIR2" /\ "SEC" \in m_dbexecuted[p]
    \/ m_nextphase[p] = "AIR3" /\ "UPD" \in m_dbexecuted[p]
    \/ m_nextphase[p] = "AIRFINAL" /\ m_dbissued[p] = 0 /\ m_msgissued[p] = 0

(* The sequence number updateRandSqn writes, and the one getImsiSecData     *)
(* reads back from the column: only its six low octets.                     *)
WrittenSqn_Same(sqn) == sqn
WrittenSqn(sqn) == sqn + 32
ReadSqn_NoMask(n) == n
ReadSqn(n) == n % SqnMod

(* The sequence number phase2 makes its vectors with.                       *)
VectorSqn(p) ==
    IF in[p].kind = "resync" THEN (SqnMs + 32) % SqnMod ELSE m_sec[p]

Goto(p, phase) == m_nextphase' = [m_nextphase EXCEPT ![p] = phase]
Reply(p, code) == sent' = [sent EXCEPT ![p] = Append(@, code)]
Issue(p, o) ==
    /\ cb' = [cb EXCEPT ![p][o] = "db"]
    /\ m_dbissued' = [m_dbissued EXCEPT ![p] = @ + 1]
    /\ batch' = [batch EXCEPT ![p] = @ \cup {o}]

(* processNextPhase: take the processor's mutex.                            *)
Enter(w) ==
    /\ pc[w] = "run" /\ ~Locked(cur[w])
    /\ pc' = [pc EXCEPT ![w] = "phases"]
    /\ m_msgissued' = [m_msgissued EXCEPT ![cur[w]] = @ - 1]
    /\ UNCHANGED <<qvars, work, cur, life, in, m_nextphase, m_dbissued, m_dbexecuted,
                   m_dbresult, cb, m_sec, row, sent, used, serial, batch>>

Running(w, phase) ==
    pc[w] = "phases" /\ m_nextphase[cur[w]] = phase /\ PhaseReady(cur[w])

(* The phase a rejected request is left in: the ULR's final phase.          *)
RejectedPhase == "ULRFINAL"

(* The phase that waits for the key and the sequence number.                *)
AwaitSec_Final == "AIRFINAL"
AwaitSec == "AIR2"

(* phase1: check the request, then read the key and the sequence number.    *)
Phase1(w) ==
    LET p == cur[w] IN
    /\ Running(w, "AIR1")
    /\ \/ /\ in[p].kind = "rejected"
          /\ Reply(p, "REJECTED") /\ Goto(p, RejectedPhase)
          /\ UNCHANGED <<m_dbissued, cb, batch>>
       \/ /\ in[p].kind # "rejected"
          /\ Issue(p, "SEC") /\ Goto(p, AwaitSec)
          /\ UNCHANGED sent
       \/ /\ in[p].kind # "rejected" /\ "SEC" \in MayNotIssue
          /\ Reply(p, "UNAVAILABLE") /\ Goto(p, "AIRFINAL")
          /\ UNCHANGED <<m_dbissued, cb, batch>>
    /\ UNCHANGED <<qvars, work, pc, cur, life, in, m_msgissued, m_dbexecuted, m_dbresult,
                   m_sec, row, used, serial>>

(* phase2: all vectors of a request carry one sequence number.  The answer  *)
(* goes out before the new number is written.                               *)
Phase2(w) ==
    LET p == cur[w] IN
    /\ Running(w, "AIR2")
    /\ IF "SEC" \notin m_dbresult[p]
       THEN /\ Reply(p, "UNAVAILABLE") /\ Goto(p, "AIRFINAL")
            /\ UNCHANGED <<m_dbissued, cb, m_sec, used, serial, batch>>
       ELSE /\ m_sec' = [m_sec EXCEPT ![p] = VectorSqn(p)]
            /\ used' = Append(used, p)
            /\ Reply(p, "SUCCESS")
            /\ \/ Issue(p, "UPD") /\ Goto(p, "AIR3") /\ UNCHANGED serial
               \/ /\ "UPD" \in MayNotIssue
                  /\ Goto(p, "AIRFINAL") /\ serial' = FALSE
                  /\ UNCHANGED <<m_dbissued, cb, batch>>
    /\ UNCHANGED <<qvars, work, pc, cur, life, in, m_msgissued, m_dbexecuted, m_dbresult,
                   row>>

(* phase3: the write is done.                                               *)
AfterUpdate_UlrFinal == "ULRFINAL"
AfterUpdate == "AIRFINAL"
Phase3(w) ==
    /\ Running(w, "AIR3")
    /\ Goto(cur[w], AfterUpdate)
    /\ UNCHANGED <<qvars, work, pc, cur, life, in, m_msgissued, m_dbissued, m_dbexecuted,
                   m_dbresult, cb, m_sec, row, sent, used, serial, batch>>

Delete(w) ==
    /\ Running(w, "AIRFINAL")
    /\ life' = [life EXCEPT ![cur[w]] = "deleted"]
    /\ pc' = [pc EXCEPT ![w] = "finish"]
    /\ UNCHANGED <<qvars, work, cur, in, proc, cb, m_sec, row, sent, used, serial, batch>>

Leave(w) ==
    /\ pc[w] = "phases" /\ ~PhaseReady(cur[w])
    /\ pc' = [pc EXCEPT ![w] = "idle"] /\ cur' = [cur EXCEPT ![w] = NoProc]
    /\ batch' = [batch EXCEPT ![cur[w]] = {}]
    /\ UNCHANGED <<qvars, work, life, in, proc, cb, m_sec, row, sent, used, serial>>

-----------------------------------------------------------------------------
Completed(p, o, ok) ==
    /\ m_dbexecuted' = [m_dbexecuted EXCEPT ![p] = @ \cup {o}]
    /\ m_dbresult' = [m_dbresult EXCEPT ![p] = IF ok THEN @ \cup {o} ELSE {}]
    /\ cb' = [cb EXCEPT ![p][o] = "tail"]

(* getImsiSec: the row is read when the query completes.                    *)
GetImsiSec(p) ==
    /\ cb[p]["SEC"] = "db"
    /\ Completed(p, "SEC", in[p].known)
    /\ m_sec' = [m_sec EXCEPT ![p] = IF in[p].known THEN ReadSqn(row) ELSE @]
    /\ UNCHANGED <<qvars, work, pc, cur, life, in, m_nextphase, m_msgissued, m_dbissued,
                   row, sent, used, serial, batch>>

(* updateImsi: the write of the sequence number takes effect, or fails and  *)
(* may have taken effect or not.                                            *)
UpdateImsi(p) ==
    /\ cb[p]["UPD"] = "db"
    /\ \/ /\ Completed(p, "UPD", TRUE) /\ row' = WrittenSqn(m_sec[p])
          /\ UNCHANGED serial
       \/ /\ WriteMayFail /\ Completed(p, "UPD", FALSE) /\ serial' = FALSE
          /\ row' \in {row, WrittenSqn(m_sec[p])}
    /\ UNCHANGED <<qvars, work, pc, cur, life, in, m_nextphase, m_msgissued, m_dbissued,
                   m_sec, sent, used, batch>>

(* The end of on_air_callback, under the processor's mutex.                 *)
CallbackEnd(p, o) ==
    /\ cb[p][o] = "tail" /\ ~Locked(p)
    /\ cb' = [cb EXCEPT ![p][o] = "over"]
    /\ work' = Append(work, p)
    /\ m_msgissued' = [m_msgissued EXCEPT ![p] = @ + 1]
    /\ m_dbissued' = [m_dbissued EXCEPT ![p] = @ - 1]
    /\ UNCHANGED <<qvars, pc, cur, life, in, m_nextphase, m_dbexecuted, m_dbresult, m_sec,
                   row, sent, used, serial, batch>>

WorkerStep(w) == \/ GetWork(w) \/ Enter(w) \/ Phase1(w) \/ Phase2(w) \/ Phase3(w)
                 \/ Delete(w) \/ Leave(w) \/ FinishMessage(w)
StartStep(t) == StartMessage(t) \/ TriggerNextPhase(t)
DriverStep(p) == GetImsiSec(p) \/ UpdateImsi(p) \/ \E o \in DbOps : CallbackEnd(p, o)

Next ==
    \/ \E t \in FDThreads, p \in Procs : ReceiveRequest(t, p)
    \/ \E t \in Threads : StartStep(t)
    \/ \E w \in Workers : WorkerStep(w)
    \/ \E p \in Procs : DriverStep(p)
    \/ SetConcurrent

(* Threads run and Cassandra completes every query it accepted.             *)
Fairness ==
    /\ \A t \in Threads : WF_vars(StartStep(t))
    /\ \A w \in Workers : WF_vars(WorkerStep(w))
    /\ \A p \in Procs : WF_vars(DriverStep(p))

Spec == Init /\ [][Next]_vars
FairSpec == Spec /\ Fairness

-----------------------------------------------------------------------------
TypeOK ==
    /\ m_queue \in Seq(Procs) /\ m_pending \in Nat /\ m_active \in Nat
    /\ m_concurrent \in {DefaultConcurrent, ConfConcurrent}
    /\ work \in Seq(Procs)
    /\ pc \in [Threads -> {"idle", "start", "trigger", "run", "phases", "finish"}]
    /\ cur \in [Threads -> Procs \cup {NoProc}]
    /\ life \in [Procs -> {"new", "queued", "active", "deleted", "gone"}]
    /\ in \in [Procs -> Inputs]
    /\ m_nextphase \in [Procs -> {"AIR1", "AIR2", "AIR3", "AIRFINAL", "ULRFINAL"}]
    /\ m_msgissued \in [Procs -> Nat] /\ m_dbissued \in [Procs -> Nat]
    /\ m_dbexecuted \in [Procs -> SUBSET DbOps] /\ m_dbresult \in [Procs -> SUBSET DbOps]
    /\ cb \in [Procs -> [DbOps -> {"none", "db", "tail", "over"}]]
    /\ m_sec \in [Procs -> {NoSqn} \cup 0..(SqnMod - 1)]
    /\ row \in Nat
    /\ sent \in [Procs -> Seq({"REJECTED", "UNAVAILABLE", "SUCCESS"})]
    /\ used \in Seq(Procs) /\ serial \in BOOLEAN

(* What the admission queue sees of the phases.  A query counts as issued   *)
(* when the worker that issued it leaves: until then its callback cannot    *)
(* post a message.                                                          *)
Out(p) == {o \in DbOps : cb[p][o] \in {"db", "tail"}}
QueuePc == [t \in Threads |-> IF pc[t] = "phases" THEN "run" ELSE pc[t]]
QueueInflight == [p \in Procs |-> Cardinality(Out(p) \ batch[p])]
QueueLeft == [p \in Procs |-> Cardinality({o \in DbOps : cb[p][o] = "none"} \cup batch[p])]
Queue == INSTANCE HSSWorkerQueue WITH
    MaxQueries <- Cardinality(DbOps), pc <- QueuePc, inflight <- QueueInflight,
    left <- QueueLeft

(* The phases keep the discipline the admission queue relies on: each of    *)
(* their steps is a step of HSSWorkerQueue or invisible to it.              *)
QueueSpec == Queue!Init /\ [][Queue!Next]_(Queue!vars)

(* A worker that stops without deleting the processor leaves a query or a   *)
(* message behind that will bring another worker to it, in whatever order   *)
(* callbacks and workers come by; only a rejected request is left with      *)
(* neither, and keeps its slot.                                             *)
KeptOnlyIfRejected == \A p \in Queue!Abandoned : in[p].kind = "rejected"

(* While requests of the subscriber run one after the other and their       *)
(* writes land, a request that is no resynchronisation gets a sequence      *)
(* number ahead (modulo 2^48) of every number handed out before: no vector  *)
(* repeats one, though each answer leaves before its number is written.     *)
FreshSqn ==
    serial => \A i, j \in 1..Len(used) :
        i < j /\ in[used[j]].kind = "plain" =>
            (m_sec[used[j]] - m_sec[used[i]]) % SqnMod \in 32..(SqnMod - 32)

(* Exactly one answer for every request that was processed to its end.      *)
AnsweredOnce ==
    \A p \in Procs : /\ Len(sent[p]) <= 1
                      /\ life[p] \in {"deleted", "gone"} => Len(sent[p]) = 1

(* Unless a request is rejected (it keeps its slot, see PhaseRecognised),   *)
(* every request taken from the network is processed to its end.            *)
EveryRequestEnds ==
    \A p \in Procs : life[p] = "queued" /\ (\A q \in Procs : in[q].kind # "rejected")
                      ~> life[p] = "gone"

(* processNextPhase deletes a processor in AIRSTATE_PHASEFINAL; for anything*)
(* that is not one of its own phases it has "Unrecognized AIRSTATE".        *)
PhaseRecognised ==
    \A p \in Procs : m_nextphase[p] \in {"AIR1", "AIR2", "AIR3", "AIRFINAL"}
=============================================================================
