------------------------- MODULE AIRProcessor_proofs -------------------------
(***************************************************************************)
(* Proofs about AIRProcessor, for any number of requests, dispatch threads *)
(* and workers: the phases implement the admission queue, every request is *)
(* answered once, and the sequence numbers handed out are fresh.           *)
(*                                                                         *)
(* Who holds a processor is proved once, of HSSWorkerQueue; here it is     *)
(* carried over along the refinement mapping.                              *)
(***************************************************************************)
EXTENDS AIRProcessor, SequenceFacts

(* HSSWorkerQueue with its theorems, under the mapping of Queue.           *)
Q == INSTANCE HSSWorkerQueue_proofs WITH
    MaxQueries <- Cardinality(DbOps), pc <- QueuePc, inflight <- QueueInflight,
    left <- QueueLeft

-----------------------------------------------------------------------------
(* The inductive invariant.                                                *)

(* A processor's mutex has one owner.                                      *)
MutexOK ==
    \A v, w \in Workers : pc[v] = "phases" /\ pc[w] = "phases" /\ cur[v] = cur[w] => v = w

(* What a processor has issued, executed and answered in each phase.  s and *)
(* u are the stages of its two queries.                                     *)
PhaseFits(l, phase, s, u, executed, answers, kind) ==
    /\ l \in {"new", "queued"} => phase = "AIR1"
    /\ l \in {"deleted", "gone"} => phase = "AIRFINAL"
    /\ phase = "AIR1" => s = "none" /\ u = "none" /\ answers = <<>>
    /\ phase = "AIR2" => s # "none" /\ u = "none" /\ answers = <<>>
    /\ phase = "AIR3" => u # "none"
    /\ phase = "ULRFINAL" => s = "none" /\ u = "none"
    /\ kind = "rejected" => phase \in {"AIR1", "ULRFINAL"}
    /\ phase = "ULRFINAL" => kind = "rejected"
    /\ phase \in {"AIR3", "AIRFINAL", "ULRFINAL"} => Len(answers) = 1
    /\ "SEC" \in executed <=> s \in {"tail", "over"}
    /\ "UPD" \in executed <=> u \in {"tail", "over"}
PhaseOK ==
    \A p \in Procs : PhaseFits(life[p], m_nextphase[p], cb[p]["SEC"], cb[p]["UPD"],
                               m_dbexecuted[p], sent[p], in[p].kind)

(* m_dbissued counts the queries that are out.                              *)
IsOut(stage) == stage \in {"db", "tail"}
DbCount ==
    \A p \in Procs :
        m_dbissued[p] = One(IsOut(cb[p]["SEC"])) + One(IsOut(cb[p]["UPD"]))

(* m_msgissued counts the messages no worker has begun to run.              *)
Runners(p) == {w \in Workers : pc[w] = "run" /\ cur[w] = p}
MsgCount ==
    \A p \in Procs :
        m_msgissued[p] = Occ(work, Len(work), p) + Cardinality(Runners(p))

(* What the worker in the phases has issued is still out.                   *)
BatchOK == \A p \in Procs : batch[p] \subseteq Out(p) /\ (batch[p] # {} => Locked(p))

(* The rest of the types.                                                   *)
Phases == {"AIR1", "AIR2", "AIR3", "AIRFINAL", "ULRFINAL"}
Stages == {"none", "db", "tail", "over"}
Codes == {"REJECTED", "UNAVAILABLE", "SUCCESS"}
Data ==
    /\ pc \in [Threads -> {"idle", "start", "trigger", "run", "phases", "finish"}]
    /\ in \in [Procs -> Inputs] /\ m_nextphase \in [Procs -> Phases]
    /\ m_msgissued \in [Procs -> Int] /\ m_dbissued \in [Procs -> Int]
    /\ m_dbexecuted \in [Procs -> SUBSET DbOps] /\ m_dbresult \in [Procs -> SUBSET DbOps]
    /\ cb \in [Procs -> [DbOps -> Stages]]
    /\ m_sec \in [Procs -> {NoSqn} \cup 0..(SqnMod - 1)] /\ row \in Nat
    /\ sent \in [Procs -> Seq(Codes)]
    /\ used \in Seq(Procs) /\ serial \in BOOLEAN
    /\ batch \in [Procs -> SUBSET DbOps]

(* Who holds a processor, and how many hold a slot, as in the queue.        *)
Holding == {p \in Procs : life[p] \in {"active", "deleted"}}
Owned == Q!TypeOK /\ Q!Ownership /\ Q!ActiveBound /\ m_active = Cardinality(Holding)

Inner == Data /\ MutexOK /\ PhaseOK /\ DbCount /\ MsgCount /\ BatchOK
IInv == Owned /\ Inner

-----------------------------------------------------------------------------
(* What the queue assumes holds here.                                       *)
LEMMA OpsFinite == IsFiniteSet(DbOps) /\ Cardinality(DbOps) = 2
<1>1. IsFiniteSet({"SEC"}) /\ Cardinality({"SEC"}) = 1
  BY FS_Singleton
<1>2. DbOps = {"SEC"} \cup {"UPD"} /\ "UPD" \notin {"SEC"}
  BY DEF DbOps
<1> QED  BY <1>1, <1>2, FS_AddElement

LEMMA QueueAssumed ==
  /\ Q!IsFiniteSet(Procs) /\ Q!IsFiniteSet(FDThreads) /\ Q!IsFiniteSet(Workers)
  /\ FDThreads \cap Workers = {} /\ NoProc \notin Procs
  /\ DefaultConcurrent \in Nat \ {0} /\ ConfConcurrent \in Nat \ {0}
  /\ Cardinality(DbOps) \in Nat
<1>1. Cardinality(DbOps) \in Nat
  BY OpsFinite
<1> QED  BY <1>1, AIRAssumption DEF Q!IsFiniteSet, IsFiniteSet

LEMMA SameCardinality == ASSUME NEW S  PROVE Q!Cardinality(S) = Cardinality(S)
  BY DEF Q!Cardinality, Cardinality

LEMMA SameNext == [Q!Next]_(Q!vars) => [Queue!Next]_(Queue!vars)
<1>1. \A t \in FDThreads, p \in Procs : Q!ReceiveRequest(t, p) => Queue!ReceiveRequest(t, p)
  BY DEF Q!ReceiveRequest, Queue!ReceiveRequest
<1>2. \A t \in Threads : Q!StartMessage(t) => Queue!StartMessage(t)
  BY DEF Q!StartMessage, Queue!StartMessage, Q!SlotFree, Queue!SlotFree
<1>3. \A t \in Threads : Q!TriggerNextPhase(t) => Queue!TriggerNextPhase(t)
  BY DEF Q!TriggerNextPhase, Queue!TriggerNextPhase, Q!qvars, Queue!qvars
<1>4. \A w \in Workers : Q!GetWork(w) => Queue!GetWork(w)
  BY DEF Q!GetWork, Queue!GetWork, Q!qvars, Queue!qvars
<1>5. \A w \in Workers : Q!FinishMessage(w) => Queue!FinishMessage(w)
  BY DEF Q!FinishMessage, Queue!FinishMessage, Q!SlotsLeft, Queue!SlotsLeft, Q!AfterFinish,
         Queue!AfterFinish
<1>6. \A w \in Workers, n \in 0..Cardinality(DbOps) :
        Q!ProcessNextPhase(w, n) => Queue!ProcessNextPhase(w, n)
  BY DEF Q!ProcessNextPhase, Queue!ProcessNextPhase, Q!FinalReady, Queue!FinalReady,
         Q!OtherMessage, Queue!OtherMessage, Q!qvars, Queue!qvars
<1>7. \A p \in Procs : Q!Callback(p) => Queue!Callback(p)
  BY DEF Q!Callback, Queue!Callback, Q!QueryDone, Queue!QueryDone, Q!qvars, Queue!qvars
<1>8. Q!SetConcurrent => Queue!SetConcurrent
  BY DEF Q!SetConcurrent, Queue!SetConcurrent
<1>9. UNCHANGED Q!vars => UNCHANGED Queue!vars
  BY DEF Q!vars, Queue!vars
<1>10. Q!Threads = Threads /\ Queue!Threads = Threads
  BY DEF Q!Threads, Queue!Threads, Threads
<1> QED  BY <1>1, <1>2, <1>3, <1>4, <1>5, <1>6, <1>7, <1>8, <1>9, <1>10, Zenon
         DEF Q!Next, Queue!Next

(* The queue's invariant, one step further.                                 *)
LEMMA OwnedStep == ASSUME Owned, [Q!Next]_(Q!vars)  PROVE Owned'
<1>1. Q!TypeOK'
  BY Q!TypeNext, QueueAssumed DEF Owned
<1>2. Q!Ownership'
  BY <1>1, Q!OwnershipNext, QueueAssumed DEF Owned
<1>3. Holding = Q!Holding /\ Holding' = Q!Holding'
  BY DEF Holding, Q!Holding
<1>4. m_active = Q!Cardinality(Q!Holding)
  BY <1>3, SameCardinality DEF Owned
<1>5. m_active' = Q!Cardinality(Q!Holding')
  BY <1>1, <1>4, Q!SlotsNext, QueueAssumed DEF Owned
<1>6. Q!ActiveBound'
  BY Q!BoundNext, QueueAssumed DEF Owned
<1> QED  BY <1>1, <1>2, <1>3, <1>5, <1>6, SameCardinality DEF Owned

-----------------------------------------------------------------------------
(* Every step of the phases is a step of the queue, or invisible to it.     *)

LEMMA PcMoves ==
  ASSUME Data, NEW t \in Threads, NEW v, pc' = [pc EXCEPT ![t] = v]
  PROVE  QueuePc' = [QueuePc EXCEPT ![t] = IF v = "phases" THEN "run" ELSE v]
<1>1. \A u \in Threads : pc'[u] = IF u = t THEN v ELSE pc[u]
  BY DEF Data
<1> QED  BY <1>1 DEF QueuePc

LEMMA PcValue ==
  ASSUME NEW t \in Threads
  PROVE  QueuePc[t] = IF pc[t] = "phases" THEN "run" ELSE pc[t]
  BY DEF QueuePc

LEMMA SameQueries ==
  ASSUME cb' = cb, batch' = batch
  PROVE  QueueInflight' = QueueInflight /\ QueueLeft' = QueueLeft
  BY DEF QueueInflight, QueueLeft, Out

LEMMA SimReceive ==
  ASSUME IInv, NEW t \in FDThreads, NEW p \in Procs, ReceiveRequest(t, p)
  PROVE  Q!Next
<1>1. t \in Threads /\ QueuePc[t] = "idle"
  BY PcValue DEF ReceiveRequest, Threads
<1>2. QueuePc' = [QueuePc EXCEPT ![t] = "start"]
  BY <1>1, PcMoves DEF ReceiveRequest, IInv, Inner
<1>3. QueueInflight' = QueueInflight /\ QueueLeft' = QueueLeft
  BY SameQueries DEF ReceiveRequest
<1>4. Q!ReceiveRequest(t, p)
  BY <1>1, <1>2, <1>3 DEF ReceiveRequest, Q!ReceiveRequest
<1> QED  BY <1>4 DEF Q!Next

LEMMA SimStart ==
  ASSUME IInv, NEW t \in Threads, StartMessage(t)
  PROVE  Q!Next
<1>1. QueuePc[t] = "start"
  BY PcValue DEF StartMessage
<1>2. /\ pc' = [pc EXCEPT ![t] = "trigger"] => QueuePc' = [QueuePc EXCEPT ![t] = "trigger"]
      /\ pc' = [pc EXCEPT ![t] = "idle"] => QueuePc' = [QueuePc EXCEPT ![t] = "idle"]
  BY PcMoves DEF IInv, Inner
<1>3. QueueInflight' = QueueInflight /\ QueueLeft' = QueueLeft
  BY SameQueries DEF StartMessage
<1>4. Q!StartMessage(t)
  BY <1>1, <1>2, <1>3 DEF StartMessage, Q!StartMessage, Q!SlotFree
<1> QED  BY <1>4 DEF Q!Next, Q!Threads, Threads

LEMMA SimTrigger ==
  ASSUME IInv, NEW t \in Threads, TriggerNextPhase(t)
  PROVE  Q!Next
<1>1. QueuePc[t] = "trigger"
  BY PcValue DEF TriggerNextPhase
<1>2. QueuePc' = [QueuePc EXCEPT ![t] = "idle"]
  BY PcMoves DEF TriggerNextPhase, IInv, Inner
<1>3. QueueInflight' = QueueInflight /\ QueueLeft' = QueueLeft
  BY SameQueries DEF TriggerNextPhase
<1>4. Q!TriggerNextPhase(t)
  BY <1>1, <1>2, <1>3 DEF TriggerNextPhase, Q!TriggerNextPhase, Q!qvars, qvars
<1> QED  BY <1>4 DEF Q!Next, Q!Threads, Threads

LEMMA SimGetWork ==
  ASSUME IInv, NEW w \in Workers, GetWork(w)
  PROVE  Q!Next
<1>1. w \in Threads /\ QueuePc[w] = "idle"
  BY PcValue DEF GetWork, Threads
<1>2. QueuePc' = [QueuePc EXCEPT ![w] = "run"]
  BY <1>1, PcMoves DEF GetWork, IInv, Inner
<1>3. QueueInflight' = QueueInflight /\ QueueLeft' = QueueLeft
  BY SameQueries DEF GetWork
<1>4. Q!GetWork(w)
  BY <1>1, <1>2, <1>3 DEF GetWork, Q!GetWork, Q!qvars, qvars
<1> QED  BY <1>4 DEF Q!Next

LEMMA SimFinish ==
  ASSUME IInv, NEW w \in Workers, FinishMessage(w)
  PROVE  Q!Next
<1>1. w \in Threads /\ QueuePc[w] = "finish"
  BY PcValue DEF FinishMessage, Threads
<1>2. QueuePc' = [QueuePc EXCEPT ![w] = "start"]
  BY <1>1, PcMoves DEF FinishMessage, IInv, Inner
<1>3. QueueInflight' = QueueInflight /\ QueueLeft' = QueueLeft
  BY SameQueries DEF FinishMessage
<1>4. Q!FinishMessage(w)
  BY <1>1, <1>2, <1>3 DEF FinishMessage, Q!FinishMessage, Q!SlotsLeft, Q!AfterFinish
<1> QED  BY <1>4 DEF Q!Next

LEMMA SimSetConcurrent == ASSUME SetConcurrent  PROVE Q!Next
<1>1. QueueInflight' = QueueInflight /\ QueueLeft' = QueueLeft /\ QueuePc' = QueuePc
  BY SameQueries DEF SetConcurrent, QueuePc
<1>2. Q!SetConcurrent
  BY <1>1 DEF SetConcurrent, Q!SetConcurrent
<1> QED  BY <1>2 DEF Q!Next

LEMMA SimEnter ==
  ASSUME IInv, NEW w \in Workers, Enter(w)
  PROVE  UNCHANGED Q!vars
<1>1. w \in Threads /\ QueuePc[w] = "run"
  BY PcValue DEF Enter, Threads
<1>2. QueuePc' = [QueuePc EXCEPT ![w] = "run"]
  BY <1>1, PcMoves DEF Enter, IInv, Inner
<1>3. QueuePc' = QueuePc
  BY <1>1, <1>2 DEF QueuePc
<1>4. QueueInflight' = QueueInflight /\ QueueLeft' = QueueLeft
  BY SameQueries DEF Enter
<1> QED  BY <1>3, <1>4 DEF Enter, Q!vars, qvars

(* A worker runs an active processor, alone once it has the mutex.          *)
LEMMA RunningFacts ==
  ASSUME IInv, NEW w \in Workers, pc[w] \in {"run", "phases"}
  PROVE  w \in Threads /\ cur[w] \in Procs /\ life[cur[w]] = "active"
<1>1. w \in Threads /\ QueuePc[w] = "run"
  BY PcValue DEF Threads
<1>2. Q!ThreadOK
  BY DEF IInv, Owned, Q!Ownership
<1>3. \A t \in Threads : QueuePc[t] = "run" => cur[t] \in Procs /\ life[cur[t]] = "active"
  BY <1>2 DEF Q!ThreadOK, Q!Threads, Threads
<1> QED  BY <1>1, <1>3

(* The stages of a processor's queries.                                     *)
LEMMA PhaseFacts ==
  ASSUME IInv, NEW p \in Procs
  PROVE  PhaseFits(life[p], m_nextphase[p], cb[p]["SEC"], cb[p]["UPD"],
                   m_dbexecuted[p], sent[p], in[p].kind)
  BY DEF IInv, Inner, PhaseOK

LEMMA SameParts ==
  ASSUME \A q \in Procs :
             /\ Out(q)' \ batch'[q] = Out(q) \ batch[q]
             /\ {x \in DbOps : cb'[q][x] = "none"} \cup batch'[q]
                 = {x \in DbOps : cb[q][x] = "none"} \cup batch[q]
  PROVE  QueueInflight' = QueueInflight /\ QueueLeft' = QueueLeft
  BY DEF QueueInflight, QueueLeft

LEMMA IssueHidden ==
  ASSUME Data, NEW p \in Procs, NEW o \in DbOps, cb[p][o] = "none",
         cb' = [cb EXCEPT ![p][o] = "db"], batch' = [batch EXCEPT ![p] = @ \cup {o}]
  PROVE  QueueInflight' = QueueInflight /\ QueueLeft' = QueueLeft
<1>1. \A q \in Procs \ {p} : cb'[q] = cb[q] /\ batch'[q] = batch[q]
  BY DEF Data
<1>2. batch'[p] = batch[p] \cup {o} /\ \A x \in DbOps : cb'[p][x] = IF x = o THEN "db" ELSE cb[p][x]
  BY DEF Data
<1>3. ASSUME NEW q \in Procs
      PROVE  /\ Out(q)' \ batch'[q] = Out(q) \ batch[q]
             /\ {x \in DbOps : cb'[q][x] = "none"} \cup batch'[q]
                 = {x \in DbOps : cb[q][x] = "none"} \cup batch[q]
  <2>1. CASE q # p
    BY <1>1, <2>1 DEF Out
  <2>2. CASE q = p
    BY <1>2, <2>2 DEF Out
  <2> QED  BY <2>1, <2>2
<1> QED  BY <1>3, SameParts

LEMMA StageHidden ==
  ASSUME Data, NEW p \in Procs, NEW o \in DbOps, cb[p][o] = "db",
         cb' = [cb EXCEPT ![p][o] = "tail"], batch' = batch
  PROVE  QueueInflight' = QueueInflight /\ QueueLeft' = QueueLeft
<1>1. \A q \in Procs \ {p} : cb'[q] = cb[q]
  BY DEF Data
<1>2. \A x \in DbOps : cb'[p][x] = IF x = o THEN "tail" ELSE cb[p][x]
  BY DEF Data
<1>3. ASSUME NEW q \in Procs
      PROVE  /\ Out(q)' = Out(q)
             /\ {x \in DbOps : cb'[q][x] = "none"} = {x \in DbOps : cb[q][x] = "none"}
  <2>1. CASE q # p
    BY <1>1, <2>1 DEF Out
  <2>2. CASE q = p
    BY <1>2, <2>2 DEF Out
  <2> QED  BY <2>1, <2>2
<1> QED  BY <1>3 DEF QueueInflight, QueueLeft

LEMMA SimPhase1 ==
  ASSUME IInv, NEW w \in Workers, Phase1(w)
  PROVE  UNCHANGED Q!vars
<1> DEFINE p == cur[w]
<1>1. p \in Procs
  BY RunningFacts DEF Phase1, Running
<1>2. cb[p]["SEC"] = "none" /\ "SEC" \in DbOps
  BY <1>1, PhaseFacts DEF Phase1, Running, PhaseFits, DbOps
<1> HIDE DEF p
<1>3. \/ UNCHANGED <<cb, batch>>
      \/ cb' = [cb EXCEPT ![p]["SEC"] = "db"] /\ batch' = [batch EXCEPT ![p] = @ \cup {"SEC"}]
  BY Zenon DEF Phase1, Issue, p
<1>4. QueueInflight' = QueueInflight /\ QueueLeft' = QueueLeft
  BY <1>1, <1>2, <1>3, SameQueries, IssueHidden DEF IInv, Inner
<1>5. UNCHANGED <<qvars, work, pc, cur, life>>
  BY DEF Phase1
<1> QED  BY <1>4, <1>5 DEF Q!vars, qvars, QueuePc

LEMMA SimPhase2 ==
  ASSUME IInv, NEW w \in Workers, Phase2(w)
  PROVE  UNCHANGED Q!vars
<1> DEFINE p == cur[w]
<1>1. p \in Procs
  BY RunningFacts DEF Phase2, Running
<1>2. cb[p]["UPD"] = "none" /\ "UPD" \in DbOps
  BY <1>1, PhaseFacts DEF Phase2, Running, PhaseFits, DbOps
<1> HIDE DEF p
<1>3. \/ UNCHANGED <<cb, batch>>
      \/ cb' = [cb EXCEPT ![p]["UPD"] = "db"] /\ batch' = [batch EXCEPT ![p] = @ \cup {"UPD"}]
  BY Zenon DEF Phase2, Issue, p
<1>4. QueueInflight' = QueueInflight /\ QueueLeft' = QueueLeft
  BY <1>1, <1>2, <1>3, SameQueries, IssueHidden DEF IInv, Inner
<1>5. UNCHANGED <<qvars, work, pc, cur, life>>
  BY DEF Phase2
<1> QED  BY <1>4, <1>5 DEF Q!vars, qvars, QueuePc

LEMMA SimPhase3 ==
  ASSUME NEW w \in Workers, Phase3(w)
  PROVE  UNCHANGED Q!vars
<1>1. QueueInflight' = QueueInflight /\ QueueLeft' = QueueLeft
  BY SameQueries DEF Phase3
<1> QED  BY <1>1 DEF Phase3, Q!vars, qvars, QueuePc

LEMMA SimDriver ==
  ASSUME IInv, NEW p \in Procs, GetImsiSec(p) \/ UpdateImsi(p)
  PROVE  UNCHANGED Q!vars
<1>1. \E o \in DbOps : cb[p][o] = "db" /\ cb' = [cb EXCEPT ![p][o] = "tail"]
  <2>1. CASE GetImsiSec(p)
    BY <2>1, Zenon DEF GetImsiSec, Completed, DbOps
  <2>2. CASE UpdateImsi(p)
    BY <2>2, Zenon DEF UpdateImsi, Completed, DbOps
  <2> QED  BY <2>1, <2>2
<1>2. UNCHANGED <<qvars, work, pc, cur, life, batch>>
  BY DEF GetImsiSec, UpdateImsi
<1>3. QueueInflight' = QueueInflight /\ QueueLeft' = QueueLeft
  BY <1>1, <1>2, StageHidden DEF IInv, Inner
<1> QED  BY <1>2, <1>3 DEF Q!vars, qvars, QueuePc

LEMMA OutFinite ==
  ASSUME NEW p
  PROVE  /\ Out(p) \subseteq DbOps
         /\ \A S \in SUBSET DbOps : IsFiniteSet(S) /\ Cardinality(S) \in Nat
         /\ \A S \in SUBSET DbOps : Cardinality(S) = 0 <=> S = {}
<1>1. \A S \in SUBSET DbOps : IsFiniteSet(S)
  BY OpsFinite, FS_Subset
<1> QED  BY <1>1, FS_CardinalityType, FS_EmptySet DEF Out

LEMMA SimCallbackEnd ==
  ASSUME IInv, NEW p \in Procs, NEW o \in DbOps, CallbackEnd(p, o)
  PROVE  Q!Next
<1>1. batch[p] = {}
  BY DEF CallbackEnd, IInv, Inner, BatchOK
<1>2. o \in Out(p)
  BY DEF CallbackEnd, Out
<1>3. \A q \in Procs \ {p} : cb'[q] = cb[q]
  BY DEF CallbackEnd, IInv, Inner, Data
<1>4. \A x \in DbOps : cb'[p][x] = IF x = o THEN "over" ELSE cb[p][x]
  BY DEF CallbackEnd, IInv, Inner, Data
<1>5. batch' = batch
  BY DEF CallbackEnd
<1>6. Out(p)' = Out(p) \ {o}
  BY <1>4 DEF Out
<1>7. \A q \in Procs \ {p} : Out(q)' = Out(q)
  BY <1>3 DEF Out
<1>8. Cardinality(Out(p)') = Cardinality(Out(p)) - 1 /\ Cardinality(Out(p)) > 0
      /\ Cardinality(Out(p)) \in Nat
  <2>1. IsFiniteSet(Out(p)) /\ Cardinality(Out(p)) \in Nat /\ Cardinality(Out(p)) # 0
    BY <1>2, OutFinite
  <2>2. Cardinality(Out(p) \ {o}) = Cardinality(Out(p)) - 1
    BY <1>2, <2>1, FS_RemoveElement
  <2>3. Cardinality(Out(p)) > 0
    BY <2>1
  <2> QED  BY <1>6, <2>1, <2>2, <2>3
<1>9. Out(p) \ batch[p] = Out(p) /\ Out(p)' \ batch'[p] = Out(p)'
  BY <1>1, <1>5
<1>10. QueueInflight[p] = Cardinality(Out(p))
  BY <1>9 DEF QueueInflight
<1>11. QueueInflight' = [QueueInflight EXCEPT ![p] = QueueInflight[p] - 1]
  <2>1. \A q \in Procs : QueueInflight'[q] = IF q = p THEN QueueInflight[p] - 1 ELSE QueueInflight[q]
    BY <1>5, <1>7, <1>8, <1>9, <1>10 DEF QueueInflight
  <2> QED  BY <2>1 DEF QueueInflight
<1>12. QueueLeft' = QueueLeft
  <2>1. ASSUME NEW q \in Procs
        PROVE  {x \in DbOps : cb'[q][x] = "none"} = {x \in DbOps : cb[q][x] = "none"}
    <3>1. cb[p][o] = "tail"
      BY DEF CallbackEnd
    <3> QED  BY <1>3, <1>4, <3>1
  <2> QED  BY <1>5, <2>1 DEF QueueLeft
<1>13. QueuePc' = QueuePc /\ UNCHANGED <<qvars, cur, life>> /\ work' = Append(work, p)
  BY DEF CallbackEnd, QueuePc
<1>14. Q!Callback(p)
  BY <1>8, <1>10, <1>11, <1>12, <1>13 DEF Q!Callback, Q!QueryDone, Q!qvars, qvars
<1> QED  BY <1>14 DEF Q!Next

(* The counters tell whether a message or a query is outstanding.           *)
LEMMA MsgZero ==
  ASSUME IInv, NEW p \in Procs
  PROVE  /\ m_msgissued[p] \in Nat
         /\ m_msgissued[p] = 0 <=> /\ \A i \in 1..Len(work) : work[i] # p
                                   /\ \A v \in Workers : pc[v] = "run" => cur[v] # p
<1> DEFINE A == {i \in 1..Len(work) : work[i] = p}
           B == Runners(p)
<1>1. Len(work) \in Nat
  BY DEF IInv, Owned, Q!TypeOK
<1>2. IsFiniteSet(A) /\ Cardinality(A) \in Nat
  BY <1>1, OccFinite DEF Occ
<1>3. IsFiniteSet(B) /\ Cardinality(B) \in Nat
  BY AIRAssumption, FS_Subset, FS_CardinalityType DEF Runners
<1>4. m_msgissued[p] = Cardinality(A) + Cardinality(B)
  BY DEF IInv, Inner, MsgCount, Occ
<1>5. A = {} <=> \A i \in 1..Len(work) : work[i] # p
  OBVIOUS
<1>6. B = {} <=> \A v \in Workers : pc[v] = "run" => cur[v] # p
  BY DEF Runners
<1> HIDE DEF A, B
<1>7. (Cardinality(A) = 0 <=> A = {}) /\ (Cardinality(B) = 0 <=> B = {})
  BY <1>2, <1>3, FS_EmptySet
<1>8. m_msgissued[p] = 0 <=> Cardinality(A) = 0 /\ Cardinality(B) = 0
  BY <1>2, <1>3, <1>4
<1>9. m_msgissued[p] \in Nat
  BY <1>2, <1>3, <1>4
<1> QED  BY <1>5, <1>6, <1>7, <1>8, <1>9

LEMMA DbZero ==
  ASSUME IInv, NEW p \in Procs
  PROVE  m_dbissued[p] \in Nat /\ (m_dbissued[p] = 0 <=> Out(p) = {})
<1>1. Out(p) = {} <=> ~IsOut(cb[p]["SEC"]) /\ ~IsOut(cb[p]["UPD"])
  BY DEF Out, DbOps, IsOut
<1> QED  BY <1>1 DEF IInv, Inner, DbCount, One

LEMMA SimDelete ==
  ASSUME IInv, NEW w \in Workers, Delete(w)
  PROVE  Q!Next
<1> DEFINE p == cur[w]
<1>1. w \in Threads /\ p \in Procs
  BY RunningFacts DEF Delete, Running
<1>2. pc[w] = "phases" /\ m_dbissued[p] = 0 /\ m_msgissued[p] = 0
  BY DEF Delete, Running, PhaseReady
<1>3. Out(p) = {}
  BY <1>1, <1>2, DbZero
<1>4. /\ \A i \in 1..Len(work) : work[i] # p
      /\ \A v \in Workers : pc[v] = "run" => cur[v] # p
  BY <1>1, <1>2, MsgZero
<1>5. \A v \in Workers \ {w} : pc[v] = "phases" => cur[v] # p
  BY <1>2 DEF IInv, Inner, MutexOK
<1>6. ~Q!OtherMessage(p, w)
  <2>1. \A v \in Workers : QueuePc[v] = "run" => pc[v] \in {"run", "phases"}
    BY PcValue DEF Threads
  <2> QED  BY <1>4, <1>5, <2>1 DEF Q!OtherMessage
<1>7. QueueInflight[p] = 0
  <2>1. Out(p) \ batch[p] = {}
    BY <1>3
  <2> QED  BY <1>1, <2>1, FS_EmptySet DEF QueueInflight
<1>8. QueuePc[w] = "run" /\ QueuePc' = [QueuePc EXCEPT ![w] = "finish"]
  BY <1>1, <1>2, PcValue, PcMoves DEF Delete, IInv, Inner
<1>9. QueueInflight' = QueueInflight /\ QueueLeft' = QueueLeft
  BY SameQueries DEF Delete
<1>10. QueueLeft[p] \in Nat /\ QueueLeft = [QueueLeft EXCEPT ![p] = QueueLeft[p]]
       /\ QueueInflight = [QueueInflight EXCEPT ![p] = QueueInflight[p]]
  BY <1>1 DEF IInv, Owned, Q!TypeOK
<1>11. life' = [life EXCEPT ![p] = "deleted"] /\ UNCHANGED <<qvars, work, cur>>
  BY DEF Delete
<1> HIDE DEF p
<1>12. Q!FinalReady(p, w, 0)
  BY <1>6, <1>7 DEF Q!FinalReady
<1>13. QueueLeft[p] - 0 = QueueLeft[p] /\ QueueInflight[p] + 0 = QueueInflight[p] /\ 0 <= QueueLeft[p]
  BY <1>7, <1>10
<1>14. Q!ProcessNextPhase(w, 0)
  <2>1. /\ QueueLeft' = [QueueLeft EXCEPT ![p] = QueueLeft[p] - 0]
        /\ QueueInflight' = [QueueInflight EXCEPT ![p] = QueueInflight[p] + 0]
    BY <1>9, <1>10, <1>13
  <2> QED  BY <1>8, <1>11, <1>12, <1>13, <2>1 DEF Q!ProcessNextPhase, Q!qvars, qvars, p
<1>15. 0 \in 0..Cardinality(DbOps)
  BY OpsFinite
<1> QED  BY <1>14, <1>15, Zenon DEF Q!Next

(* A worker that lets go of an accepted request leaves a query or another   *)
(* message behind.                                                          *)
LEMMA LeavesWork ==
  ASSUME IInv, NEW w \in Workers, Leave(w), in[cur[w]].kind # "rejected"
  PROVE  Out(cur[w]) # {} \/ m_msgissued[cur[w]] # 0
<1> DEFINE p == cur[w]
<1>1. p \in Procs
  BY RunningFacts DEF Leave
<1>2. m_nextphase[p] \in Phases /\ cb[p] \in [DbOps -> Stages]
  BY <1>1 DEF IInv, Inner, Data
<1>3. ~PhaseReady(p)
  BY DEF Leave
<1>4. PhaseFits(life[p], m_nextphase[p], cb[p]["SEC"], cb[p]["UPD"],
                m_dbexecuted[p], sent[p], in[p].kind)
  BY <1>1, PhaseFacts
<1>5. m_dbissued[p] = 0 <=> Out(p) = {}
  BY <1>1, DbZero
<1> HIDE DEF p
<1>6. cb[p]["SEC"] \in Stages /\ cb[p]["UPD"] \in Stages
  BY <1>2 DEF DbOps
<1>7. m_nextphase[p] \in {"AIR2", "AIR3", "AIRFINAL"}
  BY <1>2, <1>3, <1>4 DEF PhaseReady, PhaseFits, Phases, p
<1>8. CASE m_nextphase[p] = "AIR2"
  <2>1. cb[p]["SEC"] = "db"
    BY <1>3, <1>4, <1>6, <1>8 DEF PhaseReady, PhaseFits, Stages
  <2> QED  BY <2>1 DEF Out, DbOps, p
<1>9. CASE m_nextphase[p] = "AIR3"
  <2>1. cb[p]["UPD"] = "db"
    BY <1>3, <1>4, <1>6, <1>9 DEF PhaseReady, PhaseFits, Stages
  <2> QED  BY <2>1 DEF Out, DbOps, p
<1>10. CASE m_nextphase[p] = "AIRFINAL"
  BY <1>3, <1>5, <1>10 DEF PhaseReady, p
<1> QED  BY <1>7, <1>8, <1>9, <1>10

(* The queries of the batch count as issued now.                            *)
LEMMA LeaveNumbers ==
  ASSUME IInv, NEW w \in Workers, Leave(w), NEW n, n = Cardinality(batch[cur[w]])
  PROVE  /\ n \in 0..Cardinality(DbOps) /\ n <= QueueLeft[cur[w]]
         /\ QueueInflight[cur[w]] + n = Cardinality(Out(cur[w]))
         /\ QueueLeft' = [QueueLeft EXCEPT ![cur[w]] = QueueLeft[cur[w]] - n]
         /\ QueueInflight' = [QueueInflight EXCEPT ![cur[w]] = QueueInflight[cur[w]] + n]
<1>1. PICK p \in Procs : p = cur[w]
  BY RunningFacts DEF Leave
<1> DEFINE B == batch[p]
           O == Out(p)
           F == {o \in DbOps : cb[p][o] = "none"}
<1>2. B \subseteq O /\ O \subseteq DbOps /\ F \subseteq DbOps
  BY <1>1 DEF IInv, Inner, BatchOK, Out
<1>3. F \cap B = {}
  BY <1>2 DEF Out
<1>4. /\ cb' = cb /\ batch'[p] = {} /\ \A q \in Procs \ {p} : batch'[q] = batch[q]
  BY <1>1 DEF Leave, IInv, Inner, Data
<1>5. Out(p)' \ batch'[p] = O /\ {o \in DbOps : cb'[p][o] = "none"} \cup batch'[p] = F
  BY <1>4 DEF Out
<1>6. ASSUME NEW q \in Procs \ {p}
      PROVE  /\ Out(q)' \ batch'[q] = Out(q) \ batch[q]
             /\ {o \in DbOps : cb'[q][o] = "none"} \cup batch'[q]
                 = {o \in DbOps : cb[q][o] = "none"} \cup batch[q]
  BY <1>4 DEF Out
<1>7. QueueInflight[p] = Cardinality(O \ B) /\ QueueLeft[p] = Cardinality(F \cup B)
  BY <1>1 DEF QueueInflight, QueueLeft
<1>8. /\ \A q \in Procs : QueueInflight'[q] = IF q = p THEN Cardinality(O) ELSE QueueInflight[q]
      /\ \A q \in Procs : QueueLeft'[q] = IF q = p THEN Cardinality(F) ELSE QueueLeft[q]
  BY <1>5, <1>6 DEF QueueInflight, QueueLeft
<1> HIDE DEF B, O, F
<1>9. /\ IsFiniteSet(B) /\ IsFiniteSet(O) /\ IsFiniteSet(F)
      /\ Cardinality(B) \in Nat /\ Cardinality(O) \in Nat /\ Cardinality(F) \in Nat
  <2>1. B \subseteq DbOps
    BY <1>2
  <2> QED  BY <1>2, <2>1, OutFinite
<1>10. Cardinality(O \ B) = Cardinality(O) - Cardinality(B)
  <2>1. O \cap B = B
    BY <1>2
  <2> QED  BY <1>9, <2>1, FS_Difference
<1>11. Cardinality(F \cup B) = Cardinality(F) + Cardinality(B)
  <2>1. Cardinality(F \cup B) = Cardinality(F) + Cardinality(B) - Cardinality({})
    BY <1>3, <1>9, FS_Union
  <2> QED  BY <1>9, <2>1, FS_EmptySet
<1>12. n = Cardinality(B) /\ n \in Nat /\ n <= Cardinality(DbOps)
  <2>1. B \in SUBSET DbOps
    BY <1>2
  <2> QED  BY <1>1, <1>9, <2>1, OpsFinite, FS_Subset DEF B
<1>13. QueueInflight[p] + n = Cardinality(O) /\ QueueLeft[p] - n = Cardinality(F) /\ n <= QueueLeft[p]
  BY <1>7, <1>9, <1>10, <1>11, <1>12
<1>14. QueueInflight' = [QueueInflight EXCEPT ![p] = QueueInflight[p] + n]
  BY <1>8, <1>13 DEF QueueInflight
<1>15. QueueLeft' = [QueueLeft EXCEPT ![p] = QueueLeft[p] - n]
  BY <1>8, <1>13 DEF QueueLeft
<1> QED  BY <1>1, <1>12, <1>13, <1>14, <1>15, OpsFinite DEF O

LEMMA SimLeave ==
  ASSUME IInv, NEW w \in Workers, Leave(w)
  PROVE  Q!Next
<1> DEFINE p == cur[w]
           n == Cardinality(batch[p])
<1>1. w \in Threads /\ p \in Procs /\ pc[w] = "phases"
  BY RunningFacts DEF Leave
<1>2. /\ n \in 0..Cardinality(DbOps) /\ n <= QueueLeft[p]
      /\ QueueInflight[p] + n = Cardinality(Out(p))
      /\ QueueLeft' = [QueueLeft EXCEPT ![p] = QueueLeft[p] - n]
      /\ QueueInflight' = [QueueInflight EXCEPT ![p] = QueueInflight[p] + n]
  BY LeaveNumbers
<1>3. QueuePc[w] = "run" /\ QueuePc' = [QueuePc EXCEPT ![w] = "idle"]
  BY <1>1, PcValue, PcMoves DEF Leave, IInv, Inner
<1>4. cur' = [cur EXCEPT ![w] = NoProc] /\ UNCHANGED <<qvars, work, life>>
  BY DEF Leave
<1> HIDE DEF n
<1>5. Q!ProcessNextPhase(w, n)
  BY <1>2, <1>3, <1>4 DEF Q!ProcessNextPhase, Q!qvars, qvars
<1> QED  BY <1>2, <1>5, Zenon DEF Q!Next

-----------------------------------------------------------------------------
(* The rest of the invariant.  First a thread that neither takes nor leaves *)
(* a processor's phases.                                                    *)
Moves(t, v) ==
    /\ pc'[t] = v
    /\ \A u \in Threads \ {t} : pc'[u] = pc[u] /\ cur'[u] = cur[u]

LEMMA RunnersSame ==
  ASSUME NEW t \in Threads, NEW v, Moves(t, v), pc[t] # "run", v # "run", NEW p
  PROVE  Runners(p)' = Runners(p)
  BY DEF Moves, Runners, Threads

LEMMA LockedSame ==
  ASSUME NEW t \in Threads, NEW v, Moves(t, v), pc[t] # "phases", v # "phases"
  PROVE  /\ \A p : Locked(p)' = Locked(p)
         /\ MutexOK => MutexOK'
  BY DEF Moves, Locked, MutexOK, Threads

LEMMA ShelfKeeps ==
  ASSUME IInv, NEW t \in Threads, NEW v, Moves(t, v),
         pc' \in [Threads -> {"idle", "start", "trigger", "run", "phases", "finish"}],
         pc[t] \notin {"run", "phases"}, v \notin {"run", "phases"},
         UNCHANGED <<work, in, proc, cb, m_sec, row, sent, used, batch>>, serial' \in BOOLEAN,
         \A p \in Procs : \/ life'[p] = life[p]
                          \/ life[p] = "new" /\ life'[p] = "queued"
                          \/ life[p] = "queued" /\ life'[p] = "active"
                          \/ life[p] = "deleted" /\ life'[p] = "gone"
  PROVE  Inner'
<1>1. Data'
  BY DEF IInv, Inner, Data, proc
<1>2. MutexOK' /\ \A p : Locked(p)' = Locked(p)
  BY LockedSame DEF IInv, Inner
<1>3. \A p : Runners(p)' = Runners(p)
  BY RunnersSame
<1>4. PhaseOK'
  <2>1. PhaseOK
    BY DEF IInv, Inner
  <2> QED  BY <2>1 DEF PhaseOK, PhaseFits, proc
<1>5. DbCount'
  BY DEF IInv, Inner, DbCount, proc
<1>6. MsgCount'
  BY <1>3 DEF IInv, Inner, MsgCount, proc
<1>7. BatchOK'
  BY <1>2 DEF IInv, Inner, BatchOK, Out
<1> QED  BY <1>1, <1>2, <1>4, <1>5, <1>6, <1>7 DEF Inner

LEMMA Typed ==
  ASSUME IInv
  PROVE  /\ Data /\ cur \in [Threads -> Procs \cup {NoProc}]
         /\ life \in [Procs -> {"new", "queued", "active", "deleted", "gone"}]
         /\ work \in Seq(Procs) /\ m_queue \in Seq(Procs) /\ m_pending = Len(m_queue)
         /\ \A i \in 1..Len(m_queue) : life[m_queue[i]] = "queued"
<1>1. Q!Threads = Threads
  BY DEF Q!Threads, Threads
<1> QED  BY <1>1 DEF IInv, Inner, Owned, Q!TypeOK, Q!Ownership, Q!PendingOK, Q!QueueOK

(* A thread outside the phases that holds a processor.                      *)
LEMMA HolderFacts ==
  ASSUME IInv, NEW t \in Threads
  PROVE  /\ pc[t] = "trigger" => cur[t] \in Procs /\ life[cur[t]] = "active"
         /\ pc[t] = "finish" => cur[t] \in Procs /\ life[cur[t]] = "deleted"
<1>1. QueuePc[t] = IF pc[t] = "phases" THEN "run" ELSE pc[t]
  BY PcValue
<1>2. \A u \in Threads :
        /\ QueuePc[u] \in {"trigger", "run"} => cur[u] \in Procs /\ life[cur[u]] = "active"
        /\ QueuePc[u] = "finish" => cur[u] \in Procs /\ life[cur[u]] = "deleted"
  BY DEF IInv, Owned, Q!Ownership, Q!ThreadOK, Q!Threads, Threads
<1> QED  BY <1>1, <1>2

LEMMA ReceiveInner ==
  ASSUME IInv, NEW t \in FDThreads, NEW p \in Procs, ReceiveRequest(t, p)
  PROVE  Inner'
<1>1. t \in Threads
  BY DEF Threads
<1>2. Moves(t, "start") /\ pc' \in [Threads -> {"idle", "start", "trigger", "run", "phases", "finish"}]
  BY <1>1, Typed DEF ReceiveRequest, Moves, Data
<1>3. pc[t] = "idle" /\ UNCHANGED <<work, in, proc, cb, m_sec, row, sent, used, batch, serial>>
  BY DEF ReceiveRequest
<1>4. \A q \in Procs : life'[q] = life[q] \/ (life[q] = "new" /\ life'[q] = "queued")
  BY Typed DEF ReceiveRequest
<1>5. serial' \in BOOLEAN
  BY <1>3, Typed DEF Data
<1> QED  BY <1>1, <1>2, <1>3, <1>4, <1>5, ShelfKeeps

LEMMA StartInner ==
  ASSUME IInv, NEW t \in Threads, StartMessage(t)
  PROVE  Inner'
<1>1. pc[t] = "start" /\ UNCHANGED <<work, in, proc, cb, m_sec, row, sent, used, batch>>
  BY DEF StartMessage
<1>2. serial' \in BOOLEAN
  BY Typed DEF StartMessage, Data
<1>3. CASE m_active < m_concurrent /\ m_pending > 0
  <2>1. m_queue # <<>> /\ Head(m_queue) \in Procs /\ life[Head(m_queue)] = "queued"
    BY <1>3, Typed
  <2>2. /\ pc' = [pc EXCEPT ![t] = "trigger"]
        /\ cur' = [cur EXCEPT ![t] = Head(m_queue)]
        /\ life' = [life EXCEPT ![Head(m_queue)] = "active"]
    BY <1>3 DEF StartMessage
  <2>3. Moves(t, "trigger")
        /\ pc' \in [Threads -> {"idle", "start", "trigger", "run", "phases", "finish"}]
    BY <2>2, Typed DEF Moves, Data
  <2>4. \A q \in Procs : life'[q] = life[q] \/ (life[q] = "queued" /\ life'[q] = "active")
    BY <2>1, <2>2, Typed
  <2> QED  BY <1>1, <1>2, <2>3, <2>4, ShelfKeeps
<1>4. CASE ~(m_active < m_concurrent /\ m_pending > 0)
  <2>1. pc' = [pc EXCEPT ![t] = "idle"] /\ cur' = cur /\ life' = life
    BY <1>4 DEF StartMessage
  <2>2. Moves(t, "idle")
        /\ pc' \in [Threads -> {"idle", "start", "trigger", "run", "phases", "finish"}]
    BY <2>1, Typed DEF Moves, Data
  <2>3. \A q \in Procs : life'[q] = life[q]
    BY <2>1
  <2> QED  BY <1>1, <1>2, <2>2, <2>3, ShelfKeeps
<1> QED  BY <1>3, <1>4

LEMMA FinishInner ==
  ASSUME IInv, NEW w \in Workers, FinishMessage(w)
  PROVE  Inner'
<1>1. w \in Threads /\ pc[w] = "finish"
  BY DEF Threads, FinishMessage
<1>2. cur[w] \in Procs /\ life[cur[w]] = "deleted"
  BY <1>1, HolderFacts
<1>3. Moves(w, "start") /\ pc' \in [Threads -> {"idle", "start", "trigger", "run", "phases", "finish"}]
  BY <1>1, Typed DEF FinishMessage, Moves, Data
<1>4. UNCHANGED <<work, in, proc, cb, m_sec, row, sent, used, batch, serial>>
  BY DEF FinishMessage
<1>5. \A q \in Procs : life'[q] = life[q] \/ (life[q] = "deleted" /\ life'[q] = "gone")
  BY <1>2, Typed DEF FinishMessage
<1>6. serial' \in BOOLEAN
  BY <1>4, Typed DEF Data
<1> QED  BY <1>1, <1>3, <1>4, <1>5, <1>6, ShelfKeeps

LEMMA SameInner ==
  ASSUME IInv, UNCHANGED <<work, pc, cur, life, in, proc, cb, m_sec, row, sent, used,
                           serial, batch>>
  PROVE  Inner'
  BY DEF IInv, Inner, Data, MutexOK, PhaseOK, DbCount, MsgCount, BatchOK, Runners, Locked, Out, proc

(* A message more, or one that a worker takes.                              *)
LEMMA MsgPosted ==
  ASSUME IInv, NEW p \in Procs, work' = Append(work, p),
         m_msgissued' = [m_msgissued EXCEPT ![p] = @ + 1],
         \A q \in Procs : Runners(q)' = Runners(q)
  PROVE  MsgCount'
<1> SUFFICES ASSUME NEW q \in Procs
             PROVE  m_msgissued'[q] = Occ(work', Len(work'), q) + Cardinality(Runners(q)')
  BY DEF MsgCount
<1>1. Len(work') = Len(work) + 1 /\ Len(work) \in Nat
  BY Typed
<1>2. Occ(work', Len(work'), q) = Occ(work, Len(work), q) + One(p = q)
  BY <1>1, Typed, OccAppend
<1>3. m_msgissued'[q] = m_msgissued[q] + One(p = q) /\ m_msgissued[q] \in Int
  BY Typed DEF Data, One
<1>4. m_msgissued[q] = Occ(work, Len(work), q) + Cardinality(Runners(q))
  BY DEF IInv, Inner, MsgCount
<1>5. Occ(work, Len(work), q) \in Nat /\ One(p = q) \in Nat
  BY <1>1, OccFinite, OneValue
<1>6. Cardinality(Runners(q)) \in Nat
  BY AIRAssumption, FS_Subset, FS_CardinalityType DEF Runners
<1> QED  BY <1>2, <1>3, <1>4, <1>5, <1>6

LEMMA TriggerInner ==
  ASSUME IInv, NEW t \in Threads, TriggerNextPhase(t)
  PROVE  Inner'
<1>1. PICK p \in Procs : p = cur[t]
  BY HolderFacts DEF TriggerNextPhase
<1>2. /\ pc[t] = "trigger" /\ work' = Append(work, p)
      /\ m_msgissued' = [m_msgissued EXCEPT ![p] = @ + 1]
      /\ UNCHANGED <<life, in, m_nextphase, m_dbissued, m_dbexecuted, m_dbresult, cb, m_sec,
                     row, sent, used, serial, batch>>
  BY <1>1 DEF TriggerNextPhase
<1>3. Moves(t, "idle") /\ pc' \in [Threads -> {"idle", "start", "trigger", "run", "phases", "finish"}]
  BY Typed DEF TriggerNextPhase, Moves, Data
<1>4. m_msgissued' \in [Procs -> Int]
  BY <1>2, Typed DEF Data
<1>5. Data'
  BY <1>2, <1>3, <1>4, Typed DEF Data
<1>6. MutexOK' /\ \A q : Locked(q)' = Locked(q)
  BY <1>2, <1>3, LockedSame DEF IInv, Inner
<1>7. MsgCount'
  BY <1>2, <1>3, RunnersSame, MsgPosted
<1>8. PhaseOK' /\ DbCount' /\ BatchOK'
  BY <1>2, <1>6 DEF IInv, Inner, PhaseOK, DbCount, BatchOK, Out
<1> QED  BY <1>5, <1>6, <1>7, <1>8 DEF Inner

LEMMA GetWorkInner ==
  ASSUME IInv, NEW w \in Workers, GetWork(w)
  PROVE  Inner'
<1>1. /\ pc[w] = "idle" /\ work # <<>> /\ work' = Tail(work)
      /\ UNCHANGED <<life, in, proc, cb, m_sec, row, sent, used, serial, batch>>
  BY DEF GetWork
<1>2. PICK p \in Procs : p = Head(work)
  BY <1>1, Typed
<1>3. w \in Threads /\ Moves(w, "run") /\ cur'[w] = p
      /\ pc' \in [Threads -> {"idle", "start", "trigger", "run", "phases", "finish"}]
  BY <1>2, Typed DEF GetWork, Moves, Data, Threads
<1>4. Data'
  BY <1>1, <1>3, Typed DEF Data, proc
<1>5. MutexOK' /\ \A q : Locked(q)' = Locked(q)
  BY <1>1, <1>3, LockedSame DEF IInv, Inner
<1>6. ASSUME NEW q \in Procs
      PROVE  m_msgissued'[q] = Occ(work', Len(work'), q) + Cardinality(Runners(q)')
  <2>1. Len(work) \in Nat /\ Len(work') = Len(work) - 1 /\ Len(work') \in Nat
    BY <1>1, Typed
  <2>2. Len(work') \in 0..(Len(work) - 1) /\ Len(work') + 1 = Len(work)
    BY <2>1
  <2>3. Occ(work, Len(work') + 1, q) = Occ(work', Len(work'), q) + One(p = q)
    BY <1>1, <1>2, <2>2, Typed, OccTail
  <2>4. IsFiniteSet(Runners(q)) /\ Cardinality(Runners(q)) \in Nat /\ w \notin Runners(q)
    BY <1>1, AIRAssumption, FS_Subset, FS_CardinalityType DEF Runners
  <2>5. Runners(q)' = IF p = q THEN Runners(q) \cup {w} ELSE Runners(q)
    <3>1. \A v \in Workers \ {w} : pc'[v] = pc[v] /\ cur'[v] = cur[v]
      BY <1>3 DEF Moves, Threads
    <3>2. pc'[w] = "run" /\ cur'[w] = p
      BY <1>3 DEF Moves
    <3>3. CASE p = q
      BY <2>4, <3>1, <3>2, <3>3 DEF Runners
    <3>4. CASE p # q
      BY <2>4, <3>1, <3>2, <3>4 DEF Runners
    <3> QED  BY <3>3, <3>4
  <2>6. Cardinality(Runners(q) \cup {w}) = Cardinality(Runners(q)) + 1
    BY <2>4, FS_AddElement
  <2>7. Cardinality(Runners(q)') = Cardinality(Runners(q)) + One(p = q)
    BY <2>4, <2>5, <2>6 DEF One
  <2>8. m_msgissued'[q] = Occ(work, Len(work), q) + Cardinality(Runners(q))
    BY <1>1 DEF IInv, Inner, MsgCount, proc
  <2>9. Occ(work', Len(work'), q) \in Nat /\ One(p = q) \in Nat
    BY <2>1, OccFinite, OneValue
  <2> QED  BY <2>2, <2>3, <2>4, <2>7, <2>8, <2>9
<1>7. MsgCount'
  BY <1>6 DEF MsgCount
<1>8. PhaseOK' /\ DbCount' /\ BatchOK'
  BY <1>1, <1>5 DEF IInv, Inner, PhaseOK, DbCount, BatchOK, Out, proc
<1> QED  BY <1>4, <1>5, <1>7, <1>8 DEF Inner

(* The mutex is taken and given back.                                       *)
LEMMA EnterInner ==
  ASSUME IInv, NEW w \in Workers, Enter(w)
  PROVE  Inner'
<1>1. PICK p \in Procs : p = cur[w]
  BY RunningFacts DEF Enter
<1>2. /\ pc[w] = "run" /\ ~Locked(p) /\ cur' = cur
      /\ m_msgissued' = [m_msgissued EXCEPT ![p] = @ - 1]
      /\ UNCHANGED <<work, life, in, m_nextphase, m_dbissued, m_dbexecuted, m_dbresult, cb,
                     m_sec, row, sent, used, serial, batch>>
  BY <1>1 DEF Enter
<1>3. w \in Threads /\ Moves(w, "phases")
      /\ pc' \in [Threads -> {"idle", "start", "trigger", "run", "phases", "finish"}]
  BY Typed DEF Enter, Moves, Data, Threads
<1>4. m_msgissued' \in [Procs -> Int]
  BY <1>2, Typed DEF Data
<1>5. Data'
  BY <1>2, <1>3, <1>4, Typed DEF Data
<1>6. MutexOK'
  BY <1>1, <1>2, <1>3 DEF IInv, Inner, MutexOK, Moves, Locked, Threads
<1>7. \A q \in Procs : Locked(q) => Locked(q)'
  BY <1>2, <1>3 DEF Moves, Locked, Threads
<1>8. ASSUME NEW q \in Procs
      PROVE  m_msgissued'[q] = Occ(work', Len(work'), q) + Cardinality(Runners(q)')
  <2>1. IsFiniteSet(Runners(q)) /\ Cardinality(Runners(q)) \in Nat
    BY AIRAssumption, FS_Subset, FS_CardinalityType DEF Runners
  <2>2. Runners(q)' = IF p = q THEN Runners(q) \ {w} ELSE Runners(q)
    BY <1>1, <1>2, <1>3 DEF Runners, Moves, Threads
  <2>3. p = q => Cardinality(Runners(q) \ {w}) = Cardinality(Runners(q)) - 1
    <3>1. p = q => w \in Runners(q)
      BY <1>1, <1>2 DEF Runners
    <3> QED  BY <2>1, <3>1, FS_RemoveElement
  <2>4. Cardinality(Runners(q)') = Cardinality(Runners(q)) - One(p = q)
    BY <2>1, <2>2, <2>3 DEF One
  <2>5. m_msgissued[q] = Occ(work, Len(work), q) + Cardinality(Runners(q))
    BY DEF IInv, Inner, MsgCount
  <2>6. m_msgissued'[q] = m_msgissued[q] - One(p = q)
    BY <1>2, Typed DEF Data, One
  <2>7. Len(work) \in Nat
    BY Typed
  <2>8. Occ(work, Len(work), q) \in Nat /\ One(p = q) \in Nat /\ work' = work
    BY <1>2, <2>7, OccFinite, OneValue
  <2> QED  BY <2>1, <2>4, <2>5, <2>6, <2>8
<1>9. MsgCount'
  BY <1>8 DEF MsgCount
<1>10. PhaseOK' /\ DbCount' /\ BatchOK'
  BY <1>2, <1>7 DEF IInv, Inner, PhaseOK, DbCount, BatchOK, Out
<1> QED  BY <1>5, <1>6, <1>9, <1>10 DEF Inner

LEMMA LeaveInner ==
  ASSUME IInv, NEW w \in Workers, Leave(w)
  PROVE  Inner'
<1>1. PICK p \in Procs : p = cur[w]
  BY RunningFacts DEF Leave
<1>2. /\ pc[w] = "phases" /\ batch' = [batch EXCEPT ![p] = {}]
      /\ UNCHANGED <<work, life, in, proc, cb, m_sec, row, sent, used, serial>>
  BY <1>1 DEF Leave
<1>3. w \in Threads /\ Moves(w, "idle")
      /\ pc' \in [Threads -> {"idle", "start", "trigger", "run", "phases", "finish"}]
  BY Typed DEF Leave, Moves, Data, Threads
<1>4. batch' \in [Procs -> SUBSET DbOps]
  BY <1>2, Typed DEF Data
<1>5. Data'
  BY <1>2, <1>3, <1>4, Typed DEF Data, proc
<1>6. MutexOK'
  BY <1>3 DEF IInv, Inner, MutexOK, Moves, Threads
<1>7. MsgCount'
  <2>1. \A q \in Procs : Runners(q)' = Runners(q)
    BY <1>2, <1>3, RunnersSame
  <2> QED  BY <1>2, <2>1 DEF IInv, Inner, MsgCount, proc
<1>8. PhaseOK' /\ DbCount'
  BY <1>2 DEF IInv, Inner, PhaseOK, DbCount, proc
<1>9. BatchOK'
  <2>1. \A q \in Procs \ {p} : Locked(q) => Locked(q)'
    BY <1>1, <1>3 DEF Moves, Locked, Threads
  <2>2. batch'[p] = {} /\ \A q \in Procs \ {p} : batch'[q] = batch[q]
    BY <1>2, Typed DEF Data
  <2> QED  BY <1>2, <2>1, <2>2 DEF IInv, Inner, BatchOK, Out
<1> QED  BY <1>5, <1>6, <1>7, <1>8, <1>9 DEF Inner

LEMMA DeleteInner ==
  ASSUME IInv, NEW w \in Workers, Delete(w)
  PROVE  Inner'
<1>1. PICK p \in Procs : p = cur[w]
  BY RunningFacts DEF Delete, Running
<1>2. /\ pc[w] = "phases" /\ m_nextphase[p] = "AIRFINAL" /\ m_dbissued[p] = 0 /\ cur' = cur
      /\ UNCHANGED <<work, in, proc, cb, m_sec, row, sent, used, serial, batch>>
  BY <1>1 DEF Delete, Running, PhaseReady
<1>3. w \in Threads /\ Moves(w, "finish")
      /\ pc' \in [Threads -> {"idle", "start", "trigger", "run", "phases", "finish"}]
  BY Typed DEF Delete, Moves, Data, Threads
<1>4. Data'
  BY <1>2, <1>3, Typed DEF Data, proc
<1>5. MutexOK'
  BY <1>3 DEF IInv, Inner, MutexOK, Moves, Threads
<1>6. MsgCount'
  <2>1. \A q \in Procs : Runners(q)' = Runners(q)
    BY <1>2, <1>3, RunnersSame
  <2> QED  BY <1>2, <2>1 DEF IInv, Inner, MsgCount, proc
<1>7. PhaseOK'
  <2>1. life'[p] = "deleted" /\ \A q \in Procs \ {p} : life'[q] = life[q]
    BY <1>1, Typed DEF Delete
  <2>2. PhaseOK
    BY DEF IInv, Inner
  <2> QED  BY <1>2, <2>1, <2>2 DEF PhaseOK, PhaseFits, proc
<1>8. DbCount'
  BY <1>2 DEF IInv, Inner, DbCount, proc
<1>9. BatchOK'
  <2>1. \A q \in Procs \ {p} : Locked(q) => Locked(q)'
    BY <1>1, <1>3 DEF Moves, Locked, Threads
  <2>2. Out(p) = {}
    BY <1>2, DbZero
  <2>3. batch[p] = {}
    BY <2>2 DEF IInv, Inner, BatchOK
  <2> QED  BY <1>2, <2>1, <2>3 DEF IInv, Inner, BatchOK, Out
<1> QED  BY <1>4, <1>5, <1>6, <1>7, <1>8, <1>9 DEF Inner

(* A step of one processor: its phase, its queries and its answer.          *)
LEMMA ProcKeeps ==
  ASSUME IInv, NEW p \in Procs, Data',
         UNCHANGED <<work, pc, cur, life, in, m_msgissued>>,
         \A q \in Procs \ {p} :
             /\ m_nextphase'[q] = m_nextphase[q] /\ cb'[q] = cb[q] /\ sent'[q] = sent[q]
             /\ m_dbissued'[q] = m_dbissued[q] /\ m_dbexecuted'[q] = m_dbexecuted[q]
             /\ batch'[q] = batch[q],
         PhaseFits(life[p], m_nextphase'[p], cb'[p]["SEC"], cb'[p]["UPD"],
                   m_dbexecuted'[p], sent'[p], in[p].kind),
         m_dbissued'[p] = One(IsOut(cb'[p]["SEC"])) + One(IsOut(cb'[p]["UPD"])),
         batch'[p] \subseteq Out(p)', batch'[p] # {} => Locked(p)
  PROVE  Inner'
<1>1. MutexOK' /\ \A q : Locked(q)' = Locked(q) /\ Runners(q)' = Runners(q)
  BY DEF IInv, Inner, MutexOK, Locked, Runners
<1>2. PhaseOK'
  <2>1. ASSUME NEW q \in Procs
        PROVE  PhaseFits(life[q], m_nextphase'[q], cb'[q]["SEC"], cb'[q]["UPD"],
                         m_dbexecuted'[q], sent'[q], in[q].kind)
    <3>1. CASE q = p
      BY <3>1
    <3>2. CASE q # p
      BY <3>2, PhaseFacts
    <3> QED  BY <3>1, <3>2
  <2> QED  BY <2>1 DEF PhaseOK
<1>3. DbCount'
  BY DEF IInv, Inner, DbCount
<1>4. MsgCount'
  BY <1>1 DEF IInv, Inner, MsgCount
<1>5. BatchOK'
  <2>1. ASSUME NEW q \in Procs  PROVE batch'[q] \subseteq Out(q)' /\ (batch'[q] # {} => Locked(q))
    <3>1. CASE q = p
      BY <3>1
    <3>2. CASE q # p
      <4>1. Out(q)' = Out(q)
        BY <3>2 DEF Out
      <4> QED  BY <3>2, <4>1 DEF IInv, Inner, BatchOK
    <3> QED  BY <3>1, <3>2
  <2> QED  BY <1>1, <2>1 DEF BatchOK
<1> QED  BY <1>1, <1>2, <1>3, <1>4, <1>5 DEF Inner

LEMMA IssueFacts ==
  ASSUME Data, NEW p \in Procs, NEW o \in DbOps, Issue(p, o)
  PROVE  /\ cb' \in [Procs -> [DbOps -> Stages]] /\ m_dbissued' \in [Procs -> Int]
         /\ batch' \in [Procs -> SUBSET DbOps]
         /\ \A q \in Procs \ {p} : /\ cb'[q] = cb[q] /\ m_dbissued'[q] = m_dbissued[q]
                                     /\ batch'[q] = batch[q]
         /\ \A x \in DbOps : cb'[p][x] = IF x = o THEN "db" ELSE cb[p][x]
         /\ m_dbissued'[p] = m_dbissued[p] + 1 /\ batch'[p] = batch[p] \cup {o}
<1>1. cb' \in [Procs -> [DbOps -> Stages]]
  BY DEF Issue, Data, Stages
<1>2. m_dbissued' \in [Procs -> Int]
  BY DEF Issue, Data
<1>3. batch' \in [Procs -> SUBSET DbOps]
  BY DEF Issue, Data
<1> QED  BY <1>1, <1>2, <1>3 DEF Issue, Data

LEMMA GotoFacts ==
  ASSUME Data, NEW p \in Procs, NEW phase \in Phases, Goto(p, phase)
  PROVE  /\ m_nextphase' \in [Procs -> Phases] /\ m_nextphase'[p] = phase
         /\ \A q \in Procs \ {p} : m_nextphase'[q] = m_nextphase[q]
  BY DEF Goto, Data

LEMMA ReplyFacts ==
  ASSUME Data, NEW p \in Procs, NEW code \in Codes, Reply(p, code), sent[p] = <<>>
  PROVE  /\ sent' \in [Procs -> Seq(Codes)] /\ Len(sent'[p]) = 1
         /\ \A q \in Procs \ {p} : sent'[q] = sent[q]
<1>1. sent[p] \in Seq(Codes) /\ Append(sent[p], code) \in Seq(Codes)
      /\ Len(Append(sent[p], code)) = 1
  BY DEF Data
<1>2. sent' = [sent EXCEPT ![p] = Append(sent[p], code)]
  BY DEF Reply
<1> QED  BY <1>1, <1>2 DEF Data

(* What a query adds to m_dbissued.                                         *)
LEMMA OneOut ==
  /\ One(IsOut("db")) = 1 /\ One(IsOut("tail")) = 1
  /\ One(IsOut("none")) = 0 /\ One(IsOut("over")) = 0
  /\ \A stage : One(IsOut(stage)) \in {0, 1}
  BY DEF One, IsOut

LEMMA OwnDb ==
  ASSUME IInv, NEW p \in Procs
  PROVE  /\ m_dbissued[p] = One(IsOut(cb[p]["SEC"])) + One(IsOut(cb[p]["UPD"]))
         /\ batch[p] \subseteq Out(p) /\ (batch[p] # {} => Locked(p))
         /\ cb[p]["SEC"] \in Stages /\ cb[p]["UPD"] \in Stages /\ DbOps = {"SEC", "UPD"}
  BY DEF IInv, Inner, DbCount, BatchOK, Data, DbOps

LEMMA Phase1Inner ==
  ASSUME IInv, NEW w \in Workers, Phase1(w)
  PROVE  Inner'
<1>1. PICK p \in Procs : p = cur[w]
  BY RunningFacts DEF Phase1, Running
<1>2. /\ m_nextphase[p] = "AIR1" /\ Locked(p)
      /\ UNCHANGED <<work, pc, cur, life, in, m_msgissued, m_dbexecuted, m_dbresult, m_sec,
                     row, used, serial>>
  BY <1>1 DEF Phase1, Running, Locked
<1>3. PhaseFits(life[p], "AIR1", cb[p]["SEC"], cb[p]["UPD"], m_dbexecuted[p], sent[p], in[p].kind)
      /\ life[p] = "active"
  BY <1>1, <1>2, PhaseFacts, RunningFacts DEF Phase1, Running
<1>4. cb[p]["SEC"] = "none" /\ cb[p]["UPD"] = "none" /\ sent[p] = <<>>
  BY <1>3 DEF PhaseFits
<1>5. ASSUME UNCHANGED <<m_dbissued, cb, batch>>, NEW code \in Codes, Reply(p, code),
             NEW phase \in Phases, Goto(p, phase),
             phase = (IF in[p].kind = "rejected" THEN "ULRFINAL" ELSE "AIRFINAL")
      PROVE  Inner'
  <2>1. /\ sent' \in [Procs -> Seq(Codes)] /\ Len(sent'[p]) = 1
        /\ \A q \in Procs \ {p} : sent'[q] = sent[q]
    BY <1>4, <1>5, Typed, ReplyFacts
  <2>2. /\ m_nextphase' \in [Procs -> Phases] /\ m_nextphase'[p] = phase
        /\ \A q \in Procs \ {p} : m_nextphase'[q] = m_nextphase[q]
    BY <1>5, Typed, GotoFacts
  <2>3. Data'
    BY <1>2, <1>5, <2>1, <2>2, Typed DEF Data
  <2>4. PhaseFits(life[p], m_nextphase'[p], cb'[p]["SEC"], cb'[p]["UPD"],
                  m_dbexecuted'[p], sent'[p], in[p].kind)
    BY <1>2, <1>3, <1>5, <2>1, <2>2 DEF PhaseFits
  <2>5. Out(p)' = Out(p)
    BY <1>5 DEF Out
  <2>6. /\ m_dbissued'[p] = One(IsOut(cb'[p]["SEC"])) + One(IsOut(cb'[p]["UPD"]))
        /\ batch'[p] \subseteq Out(p)' /\ (batch'[p] # {} => Locked(p))
    BY <1>5, <2>5, OwnDb
  <2> QED  BY <1>2, <1>5, <2>1, <2>2, <2>3, <2>4, <2>6, ProcKeeps
<1>6. ASSUME Issue(p, "SEC"), Goto(p, "AIR2"), sent' = sent, in[p].kind # "rejected"
      PROVE  Inner'
  <2>1. "SEC" \in DbOps /\ "UPD" \in DbOps /\ "AIR2" \in Phases
    BY DEF DbOps, Phases
  <2>2. /\ cb' \in [Procs -> [DbOps -> Stages]] /\ m_dbissued' \in [Procs -> Int]
        /\ batch' \in [Procs -> SUBSET DbOps]
        /\ \A q \in Procs \ {p} : /\ cb'[q] = cb[q] /\ m_dbissued'[q] = m_dbissued[q]
                                    /\ batch'[q] = batch[q]
        /\ \A x \in DbOps : cb'[p][x] = IF x = "SEC" THEN "db" ELSE cb[p][x]
        /\ m_dbissued'[p] = m_dbissued[p] + 1 /\ batch'[p] = batch[p] \cup {"SEC"}
    BY <1>6, <2>1, Typed, IssueFacts
  <2>3. /\ m_nextphase' \in [Procs -> Phases] /\ m_nextphase'[p] = "AIR2"
        /\ \A q \in Procs \ {p} : m_nextphase'[q] = m_nextphase[q]
    BY <1>6, <2>1, Typed, GotoFacts
  <2>4. Data'
    BY <1>2, <1>6, <2>2, <2>3, Typed DEF Data
  <2>5. cb'[p]["SEC"] = "db" /\ cb'[p]["UPD"] = "none"
    BY <1>4, <2>1, <2>2
  <2>6. PhaseFits(life[p], m_nextphase'[p], cb'[p]["SEC"], cb'[p]["UPD"],
                  m_dbexecuted'[p], sent'[p], in[p].kind)
    BY <1>2, <1>3, <1>4, <1>6, <2>3, <2>5 DEF PhaseFits
  <2>7. m_dbissued'[p] = One(IsOut(cb'[p]["SEC"])) + One(IsOut(cb'[p]["UPD"]))
    <3>1. m_dbissued'[p] = m_dbissued[p] + 1
      BY <2>2
    <3>2. m_dbissued[p] = One(IsOut(cb[p]["SEC"])) + One(IsOut(cb[p]["UPD"]))
      BY OwnDb
    <3> QED  BY <1>4, <2>5, <3>1, <3>2, OneOut
  <2>8. batch'[p] \subseteq Out(p)'
    BY <1>4, <2>2, <2>5, OwnDb DEF Out
  <2> QED  BY <1>2, <1>6, <2>2, <2>3, <2>4, <2>6, <2>7, <2>8, ProcKeeps
<1>7. \/ /\ in[p].kind = "rejected" /\ Reply(p, "REJECTED") /\ Goto(p, "ULRFINAL")
         /\ UNCHANGED <<m_dbissued, cb, batch>>
      \/ /\ in[p].kind # "rejected" /\ Issue(p, "SEC") /\ Goto(p, "AIR2") /\ sent' = sent
      \/ /\ in[p].kind # "rejected" /\ Reply(p, "UNAVAILABLE") /\ Goto(p, "AIRFINAL")
         /\ UNCHANGED <<m_dbissued, cb, batch>>
  BY <1>1, Zenon DEF Phase1, RejectedPhase, AwaitSec
<1>8. /\ "REJECTED" \in Codes /\ "UNAVAILABLE" \in Codes
      /\ "ULRFINAL" \in Phases /\ "AIRFINAL" \in Phases
  BY DEF Codes, Phases
<1> QED  BY <1>5, <1>6, <1>7, <1>8

LEMMA VectorSqnType ==
  ASSUME Data, NEW p \in Procs
  PROVE  VectorSqn(p) \in {NoSqn} \cup 0..(SqnMod - 1)
<1>1. SqnMod \in Nat \ {0} /\ SqnMs + 32 \in Nat
  BY AIRAssumption
<1>2. (SqnMs + 32) % SqnMod \in 0..(SqnMod - 1)
  BY <1>1
<1> QED  BY <1>2 DEF VectorSqn, Data

LEMMA Phase2Inner ==
  ASSUME IInv, NEW w \in Workers, Phase2(w)
  PROVE  Inner'
<1>1. PICK p \in Procs : p = cur[w]
  BY RunningFacts DEF Phase2, Running
<1>2. /\ m_nextphase[p] = "AIR2" /\ Locked(p)
      /\ UNCHANGED <<work, pc, cur, life, in, m_msgissued, m_dbexecuted, m_dbresult, row>>
  BY <1>1 DEF Phase2, Running, Locked
<1>3. PhaseFits(life[p], "AIR2", cb[p]["SEC"], cb[p]["UPD"], m_dbexecuted[p], sent[p], in[p].kind)
      /\ life[p] = "active"
  BY <1>1, <1>2, PhaseFacts, RunningFacts DEF Phase2, Running
<1>4. cb[p]["UPD"] = "none" /\ sent[p] = <<>>
  BY <1>3 DEF PhaseFits
<1>5. m_sec' \in [Procs -> {NoSqn} \cup 0..(SqnMod - 1)] /\ used' \in Seq(Procs)
      /\ serial' \in BOOLEAN
  <2>1. m_sec' = m_sec \/ m_sec' = [m_sec EXCEPT ![p] = VectorSqn(p)]
    BY <1>1, Zenon DEF Phase2
  <2>2. used' = used \/ used' = Append(used, p)
    BY <1>1, Zenon DEF Phase2
  <2>3. serial' = serial \/ serial' = FALSE
    BY Zenon DEF Phase2
  <2>4. VectorSqn(p) \in {NoSqn} \cup 0..(SqnMod - 1)
    BY Typed, VectorSqnType
  <2>5. m_sec \in [Procs -> {NoSqn} \cup 0..(SqnMod - 1)] /\ used \in Seq(Procs) /\ serial \in BOOLEAN
    BY Typed DEF Data
  <2>6. m_sec' \in [Procs -> {NoSqn} \cup 0..(SqnMod - 1)]
    BY <2>1, <2>4, <2>5
  <2>7. used' \in Seq(Procs)
    BY <2>2, <2>5
  <2>8. serial' \in BOOLEAN
    BY <2>3, <2>5
  <2> QED  BY <2>6, <2>7, <2>8
<1>6. PICK code \in Codes : Reply(p, code)
  <2>1. Reply(p, "UNAVAILABLE") \/ Reply(p, "SUCCESS")
    BY <1>1, Zenon DEF Phase2
  <2> QED  BY <2>1 DEF Codes
<1>7. /\ sent' \in [Procs -> Seq(Codes)] /\ Len(sent'[p]) = 1
      /\ \A q \in Procs \ {p} : sent'[q] = sent[q]
  BY <1>4, <1>6, Typed, ReplyFacts
<1>8. ASSUME UNCHANGED <<m_dbissued, cb, batch>>, Goto(p, "AIRFINAL")
      PROVE  Inner'
  <2>1. "AIRFINAL" \in Phases
    BY DEF Phases
  <2>2. /\ m_nextphase' \in [Procs -> Phases] /\ m_nextphase'[p] = "AIRFINAL"
        /\ \A q \in Procs \ {p} : m_nextphase'[q] = m_nextphase[q]
    BY <1>8, <2>1, Typed, GotoFacts
  <2>3. Data'
    BY <1>2, <1>5, <1>7, <1>8, <2>2, Typed DEF Data
  <2>4. PhaseFits(life[p], m_nextphase'[p], cb'[p]["SEC"], cb'[p]["UPD"],
                  m_dbexecuted'[p], sent'[p], in[p].kind)
    BY <1>2, <1>3, <1>7, <1>8, <2>2 DEF PhaseFits
  <2>5. Out(p)' = Out(p)
    BY <1>8 DEF Out
  <2>6. /\ m_dbissued'[p] = One(IsOut(cb'[p]["SEC"])) + One(IsOut(cb'[p]["UPD"]))
        /\ batch'[p] \subseteq Out(p)' /\ (batch'[p] # {} => Locked(p))
    BY <1>8, <2>5, OwnDb
  <2> QED  BY <1>2, <1>7, <1>8, <2>2, <2>3, <2>4, <2>6, ProcKeeps
<1>9. ASSUME Issue(p, "UPD"), Goto(p, "AIR3")
      PROVE  Inner'
  <2>1. "SEC" \in DbOps /\ "UPD" \in DbOps /\ "AIR3" \in Phases
    BY DEF DbOps, Phases
  <2>2. /\ cb' \in [Procs -> [DbOps -> Stages]] /\ m_dbissued' \in [Procs -> Int]
        /\ batch' \in [Procs -> SUBSET DbOps]
        /\ \A q \in Procs \ {p} : /\ cb'[q] = cb[q] /\ m_dbissued'[q] = m_dbissued[q]
                                    /\ batch'[q] = batch[q]
        /\ \A x \in DbOps : cb'[p][x] = IF x = "UPD" THEN "db" ELSE cb[p][x]
        /\ m_dbissued'[p] = m_dbissued[p] + 1 /\ batch'[p] = batch[p] \cup {"UPD"}
    BY <1>9, <2>1, Typed, IssueFacts
  <2>3. /\ m_nextphase' \in [Procs -> Phases] /\ m_nextphase'[p] = "AIR3"
        /\ \A q \in Procs \ {p} : m_nextphase'[q] = m_nextphase[q]
    BY <1>9, <2>1, Typed, GotoFacts
  <2>4. Data'
    BY <1>2, <1>5, <1>7, <2>2, <2>3, Typed DEF Data
  <2>5. cb'[p]["SEC"] = cb[p]["SEC"] /\ cb'[p]["UPD"] = "db"
    BY <2>1, <2>2
  <2>6. PhaseFits(life[p], m_nextphase'[p], cb'[p]["SEC"], cb'[p]["UPD"],
                  m_dbexecuted'[p], sent'[p], in[p].kind)
    BY <1>2, <1>3, <1>4, <1>7, <2>3, <2>5 DEF PhaseFits
  <2>7. m_dbissued'[p] = One(IsOut(cb'[p]["SEC"])) + One(IsOut(cb'[p]["UPD"]))
    <3>1. m_dbissued'[p] = m_dbissued[p] + 1
      BY <2>2
    <3>2. m_dbissued[p] = One(IsOut(cb[p]["SEC"])) + One(IsOut(cb[p]["UPD"]))
      BY OwnDb
    <3> QED  BY <1>4, <2>5, <3>1, <3>2, OneOut
  <2>8. batch'[p] \subseteq Out(p)'
    BY <1>4, <2>2, <2>5, OwnDb DEF Out
  <2> QED  BY <1>2, <1>7, <2>2, <2>3, <2>4, <2>6, <2>7, <2>8, ProcKeeps
<1>10. \/ UNCHANGED <<m_dbissued, cb, batch>> /\ Goto(p, "AIRFINAL")
       \/ Issue(p, "UPD") /\ Goto(p, "AIR3")
  BY <1>1, Zenon DEF Phase2
<1> QED  BY <1>8, <1>9, <1>10

LEMMA Phase3Inner ==
  ASSUME IInv, NEW w \in Workers, Phase3(w)
  PROVE  Inner'
<1>1. PICK p \in Procs : p = cur[w]
  BY RunningFacts DEF Phase3, Running
<1>2. /\ m_nextphase[p] = "AIR3" /\ Goto(p, "AIRFINAL")
      /\ UNCHANGED <<work, pc, cur, life, in, m_msgissued, m_dbissued, m_dbexecuted,
                     m_dbresult, cb, m_sec, row, sent, used, serial, batch>>
  BY <1>1 DEF Phase3, Running, AfterUpdate
<1>3. /\ m_nextphase' \in [Procs -> Phases] /\ m_nextphase'[p] = "AIRFINAL"
      /\ \A q \in Procs \ {p} : m_nextphase'[q] = m_nextphase[q]
  <2>1. "AIRFINAL" \in Phases
    BY DEF Phases
  <2> QED  BY <1>2, <2>1, Typed, GotoFacts
<1>4. Data'
  BY <1>2, <1>3, Typed DEF Data
<1>5. PhaseFits(life[p], m_nextphase'[p], cb'[p]["SEC"], cb'[p]["UPD"],
                m_dbexecuted'[p], sent'[p], in[p].kind)
  <2>1. PhaseFits(life[p], "AIR3", cb[p]["SEC"], cb[p]["UPD"], m_dbexecuted[p], sent[p],
                  in[p].kind) /\ life[p] = "active"
    BY <1>1, <1>2, PhaseFacts, RunningFacts DEF Phase3, Running
  <2> QED  BY <1>2, <1>3, <2>1 DEF PhaseFits
<1>6. /\ m_dbissued'[p] = One(IsOut(cb'[p]["SEC"])) + One(IsOut(cb'[p]["UPD"]))
      /\ batch'[p] \subseteq Out(p)' /\ (batch'[p] # {} => Locked(p))
  <2>1. Out(p)' = Out(p)
    BY <1>2 DEF Out
  <2> QED  BY <1>2, <2>1, OwnDb
<1> QED  BY <1>2, <1>3, <1>4, <1>5, <1>6, ProcKeeps

(* A query completes; its callback ends.                                    *)
LEMMA DriverInner ==
  ASSUME IInv, NEW p \in Procs, NEW o \in DbOps, NEW ok \in BOOLEAN,
         cb[p][o] = "db", Completed(p, o, ok),
         UNCHANGED <<work, pc, cur, life, in, m_nextphase, m_msgissued, m_dbissued, sent,
                     used, batch>>,
         m_sec' \in [Procs -> {NoSqn} \cup 0..(SqnMod - 1)], row' \in Nat, serial' \in BOOLEAN
  PROVE  Inner'
<1>1. /\ m_dbexecuted' \in [Procs -> SUBSET DbOps] /\ m_dbexecuted'[p] = m_dbexecuted[p] \cup {o}
      /\ \A q \in Procs \ {p} : m_dbexecuted'[q] = m_dbexecuted[q]
  BY Typed DEF Completed, Data
<1>2. m_dbresult' \in [Procs -> SUBSET DbOps]
  BY Typed DEF Completed, Data
<1>3. /\ cb' \in [Procs -> [DbOps -> Stages]]
      /\ \A q \in Procs \ {p} : cb'[q] = cb[q]
      /\ \A x \in DbOps : cb'[p][x] = IF x = o THEN "tail" ELSE cb[p][x]
  BY Typed DEF Completed, Data, Stages
<1>4. Data'
  BY <1>1, <1>2, <1>3, Typed DEF Data
<1>5. /\ cb'[p]["SEC"] = IF o = "SEC" THEN "tail" ELSE cb[p]["SEC"]
      /\ cb'[p]["UPD"] = IF o = "UPD" THEN "tail" ELSE cb[p]["UPD"]
      /\ o \in {"SEC", "UPD"}
  BY <1>3 DEF DbOps
<1>6. PhaseFits(life[p], m_nextphase'[p], cb'[p]["SEC"], cb'[p]["UPD"],
                m_dbexecuted'[p], sent'[p], in[p].kind)
  <2>1. PhaseFits(life[p], m_nextphase[p], cb[p]["SEC"], cb[p]["UPD"], m_dbexecuted[p], sent[p],
                  in[p].kind)
    BY PhaseFacts
  <2> QED  BY <1>1, <1>5, <2>1 DEF PhaseFits
<1>7. m_dbissued'[p] = One(IsOut(cb'[p]["SEC"])) + One(IsOut(cb'[p]["UPD"]))
  BY <1>5, OwnDb DEF One, IsOut
<1>8. Out(p)' = Out(p)
  BY <1>3 DEF Out
<1>9. batch'[p] \subseteq Out(p)' /\ (batch'[p] # {} => Locked(p))
  BY <1>8, OwnDb
<1> QED  BY <1>1, <1>3, <1>4, <1>6, <1>7, <1>9, ProcKeeps

LEMMA GetImsiSecInner ==
  ASSUME IInv, NEW p \in Procs, GetImsiSec(p)
  PROVE  Inner'
<1>1. ReadSqn(row) \in 0..(SqnMod - 1)
  BY AIRAssumption, Typed DEF ReadSqn, Data
<1>2. m_sec' \in [Procs -> {NoSqn} \cup 0..(SqnMod - 1)]
  BY <1>1, Typed DEF GetImsiSec, Data
<1>3. row' \in Nat /\ serial' \in BOOLEAN /\ in[p].known \in BOOLEAN /\ "SEC" \in DbOps
  BY Typed DEF GetImsiSec, Data, Inputs, DbOps
<1>4. /\ cb[p]["SEC"] = "db" /\ Completed(p, "SEC", in[p].known)
      /\ UNCHANGED <<work, pc, cur, life, in, m_nextphase, m_msgissued, m_dbissued, sent,
                     used, batch>>
  BY DEF GetImsiSec
<1> QED  BY <1>2, <1>3, <1>4, DriverInner

LEMMA UpdateImsiInner ==
  ASSUME IInv, NEW p \in Procs, UpdateImsi(p)
  PROVE  Inner'
<1>1. WrittenSqn(m_sec[p]) \in Nat
  <2>1. m_sec[p] \in {NoSqn} \cup 0..(SqnMod - 1)
    BY Typed DEF Data
  <2>2. m_sec[p] = -1 \/ m_sec[p] \in Nat
    BY <2>1, AIRAssumption DEF NoSqn
  <2> QED  BY <2>2 DEF WrittenSqn
<1>2. PICK ok \in BOOLEAN : Completed(p, "UPD", ok)
  BY Zenon DEF UpdateImsi
<1>3. row' \in Nat /\ serial' \in BOOLEAN
  BY <1>1, Typed DEF UpdateImsi, Data
<1>4. /\ cb[p]["UPD"] = "db" /\ m_sec' = m_sec
      /\ UNCHANGED <<work, pc, cur, life, in, m_nextphase, m_msgissued, m_dbissued, sent,
                     used, batch>>
  BY DEF UpdateImsi
<1>5. m_sec' \in [Procs -> {NoSqn} \cup 0..(SqnMod - 1)] /\ "UPD" \in DbOps
  BY <1>4, Typed DEF Data, DbOps
<1> QED  BY <1>2, <1>3, <1>4, <1>5, DriverInner

LEMMA CallbackEndInner ==
  ASSUME IInv, NEW p \in Procs, NEW o \in DbOps, CallbackEnd(p, o)
  PROVE  Inner'
<1>1. /\ cb[p][o] = "tail" /\ ~Locked(p) /\ work' = Append(work, p)
      /\ m_msgissued' = [m_msgissued EXCEPT ![p] = @ + 1]
      /\ m_dbissued' = [m_dbissued EXCEPT ![p] = @ - 1]
      /\ UNCHANGED <<pc, cur, life, in, m_nextphase, m_dbexecuted, m_dbresult, m_sec, row,
                     sent, used, serial, batch>>
  BY DEF CallbackEnd
<1>2. /\ cb' \in [Procs -> [DbOps -> Stages]]
      /\ \A q \in Procs \ {p} : cb'[q] = cb[q]
      /\ \A x \in DbOps : cb'[p][x] = IF x = o THEN "over" ELSE cb[p][x]
  BY Typed DEF CallbackEnd, Data, Stages
<1>3. m_msgissued' \in [Procs -> Int]
  BY <1>1, Typed DEF Data
<1>4. /\ m_dbissued' \in [Procs -> Int] /\ m_dbissued'[p] = m_dbissued[p] - 1
      /\ \A q \in Procs \ {p} : m_dbissued'[q] = m_dbissued[q]
  BY <1>1, Typed DEF Data
<1>5. Data'
  BY <1>1, <1>2, <1>3, <1>4, Typed DEF Data
<1>6. MutexOK' /\ \A q : Locked(q)' = Locked(q) /\ Runners(q)' = Runners(q)
  BY <1>1 DEF IInv, Inner, MutexOK, Locked, Runners
<1>7. MsgCount'
  BY <1>1, <1>6, MsgPosted
<1>8. /\ cb'[p]["SEC"] = IF o = "SEC" THEN "over" ELSE cb[p]["SEC"]
      /\ cb'[p]["UPD"] = IF o = "UPD" THEN "over" ELSE cb[p]["UPD"]
      /\ o \in {"SEC", "UPD"}
  BY <1>2 DEF DbOps
<1>9. PhaseOK'
  <2>1. PhaseFits(life[p], m_nextphase[p], cb'[p]["SEC"], cb'[p]["UPD"], m_dbexecuted[p],
                  sent[p], in[p].kind)
    <3>1. PhaseFits(life[p], m_nextphase[p], cb[p]["SEC"], cb[p]["UPD"], m_dbexecuted[p],
                    sent[p], in[p].kind)
      BY PhaseFacts
    <3> QED  BY <1>1, <1>8, <3>1 DEF PhaseFits
  <2>2. ASSUME NEW q \in Procs
        PROVE  PhaseFits(life[q], m_nextphase[q], cb'[q]["SEC"], cb'[q]["UPD"], m_dbexecuted[q],
                         sent[q], in[q].kind)
    <3>1. CASE q = p
      BY <2>1, <3>1
    <3>2. CASE q # p
      BY <1>2, <3>2, PhaseFacts
    <3> QED  BY <3>1, <3>2
  <2> QED  BY <1>1, <2>2 DEF PhaseOK
<1>10. DbCount'
  <2>1. m_dbissued'[p] = One(IsOut(cb'[p]["SEC"])) + One(IsOut(cb'[p]["UPD"]))
    BY <1>1, <1>4, <1>8, OwnDb DEF One, IsOut
  <2> QED  BY <1>2, <1>4, <2>1 DEF IInv, Inner, DbCount
<1>11. BatchOK'
  <2>1. batch[p] = {}
    BY <1>1, OwnDb
  <2>2. \A q \in Procs \ {p} : Out(q)' = Out(q)
    BY <1>2 DEF Out
  <2> QED  BY <1>1, <1>6, <2>1, <2>2 DEF IInv, Inner, BatchOK
<1> QED  BY <1>5, <1>6, <1>7, <1>9, <1>10, <1>11 DEF Inner

-----------------------------------------------------------------------------
LEMMA InitQueue ==
  ASSUME Init
  PROVE  /\ QueuePc = [t \in Threads |-> "idle"]
         /\ QueueInflight = [p \in Procs |-> 0]
         /\ QueueLeft = [p \in Procs |-> Cardinality(DbOps)]
<1>1. QueuePc = [t \in Threads |-> "idle"]
  BY DEF Init, QueuePc
<1>2. ASSUME NEW p \in Procs
      PROVE  Out(p) \ batch[p] = {} /\ {o \in DbOps : cb[p][o] = "none"} \cup batch[p] = DbOps
  BY DEF Init, Out
<1>3. Cardinality({}) = 0
  BY FS_EmptySet
<1> QED  BY <1>1, <1>2, <1>3 DEF QueueInflight, QueueLeft

LEMMA InitIInv == Init => IInv
<1> SUFFICES ASSUME Init  PROVE IInv
  OBVIOUS
<1>1. Q!Init
  BY InitQueue DEF Init, Q!Init, Q!Threads, Threads
<1>2. Q!TypeOK /\ Q!Ownership
  <2>1. Q!Ownership
    BY <1>1, Q!OwnershipInit, QueueAssumed
  <2>2. Q!TypeOK
    BY <1>1, QueueAssumed DEF Q!Init, Q!TypeOK
  <2> QED  BY <2>1, <2>2
<1>3. Q!ActiveBound /\ m_active = Cardinality(Holding)
  <2>1. Holding = {}
    BY DEF Init, Holding
  <2> QED  BY <2>1, FS_EmptySet, QueueAssumed DEF Init, Q!ActiveBound
<1>4. Data
  <2>1. /\ pc \in [Threads -> {"idle", "start", "trigger", "run", "phases", "finish"}]
        /\ in \in [Procs -> Inputs] /\ m_nextphase \in [Procs -> Phases]
        /\ m_msgissued \in [Procs -> Int] /\ m_dbissued \in [Procs -> Int]
    BY DEF Init, Phases
  <2>2. /\ m_dbexecuted \in [Procs -> SUBSET DbOps] /\ m_dbresult \in [Procs -> SUBSET DbOps]
        /\ cb \in [Procs -> [DbOps -> Stages]] /\ batch \in [Procs -> SUBSET DbOps]
    BY DEF Init, Stages
  <2>3. /\ m_sec \in [Procs -> {NoSqn} \cup 0..(SqnMod - 1)] /\ row \in Nat
        /\ used \in Seq(Procs) /\ serial \in BOOLEAN
    BY AIRAssumption DEF Init
  <2>4. sent \in [Procs -> Seq(Codes)]
    BY DEF Init
  <2> QED  BY <2>1, <2>2, <2>3, <2>4 DEF Data
<1>5. MutexOK /\ BatchOK
  BY DEF Init, MutexOK, BatchOK, Threads
<1>6. PhaseOK /\ DbCount
  BY DEF Init, PhaseOK, PhaseFits, DbCount, DbOps, IsOut, One
<1>7. MsgCount
  <2>1. ASSUME NEW p \in Procs  PROVE Occ(work, Len(work), p) = 0 /\ Cardinality(Runners(p)) = 0
    <3>1. work = <<>> /\ Len(<<>>) = 0
      BY DEF Init
    <3>2. Runners(p) = {}
      BY DEF Init, Runners, Threads
    <3> QED  BY <3>1, <3>2, OccZero, FS_EmptySet
  <2> QED  BY <2>1 DEF Init, MsgCount
<1> QED  BY <1>2, <1>3, <1>4, <1>5, <1>6, <1>7 DEF IInv, Owned, Inner

(* A step of the phases seen from the queue.                                *)
LEMMA NextSim == ASSUME IInv, [Next]_vars  PROVE [Q!Next]_(Q!vars)
<1>1. ASSUME NEW t \in FDThreads, NEW p \in Procs, ReceiveRequest(t, p)
      PROVE  [Q!Next]_(Q!vars)
  BY <1>1, SimReceive
<1>2. ASSUME NEW t \in Threads, StartStep(t)
      PROVE  [Q!Next]_(Q!vars)
  BY <1>2, SimStart, SimTrigger DEF StartStep
<1>3. ASSUME NEW w \in Workers, WorkerStep(w)
      PROVE  [Q!Next]_(Q!vars)
  BY <1>3, SimGetWork, SimEnter, SimPhase1, SimPhase2, SimPhase3, SimDelete, SimLeave,
     SimFinish DEF WorkerStep
<1>4. ASSUME NEW p \in Procs, DriverStep(p)
      PROVE  [Q!Next]_(Q!vars)
  BY <1>4, SimDriver, SimCallbackEnd DEF DriverStep
<1>5. CASE SetConcurrent
  BY <1>5, SimSetConcurrent
<1>6. CASE UNCHANGED vars
  <2>1. QueueInflight' = QueueInflight /\ QueueLeft' = QueueLeft /\ QueuePc' = QueuePc
    BY <1>6, SameQueries DEF vars, QueuePc
  <2>2. UNCHANGED Q!vars
    BY <1>6, <2>1 DEF vars, qvars, Q!vars
  <2> QED  BY <2>2
<1> QED  BY <1>1, <1>2, <1>3, <1>4, <1>5, <1>6 DEF Next

LEMMA NextIInv == ASSUME IInv, [Next]_vars  PROVE IInv'
<1>1. Owned'
  BY NextSim, OwnedStep DEF IInv
<1>2. Inner'
  <2>1. CASE SetConcurrent
    BY <2>1, SameInner DEF SetConcurrent
  <2>2. CASE UNCHANGED vars
    BY <2>2, SameInner DEF vars
  <2> QED  BY <2>1, <2>2, ReceiveInner, StartInner, TriggerInner, GetWorkInner, EnterInner,
              Phase1Inner, Phase2Inner, Phase3Inner, DeleteInner, LeaveInner, FinishInner,
              GetImsiSecInner, UpdateImsiInner, CallbackEndInner
           DEF Next, StartStep, WorkerStep, DriverStep
<1> QED  BY <1>1, <1>2 DEF IInv

(* The inductive invariant of the requests and their phases.                *)
THEOREM Invariance == Spec => []IInv
<1> QED  BY InitIInv, NextIInv, PTL DEF Spec

(* Every variable keeps its type; in particular neither counter of a        *)
(* processor, nor the count of slots, goes below zero.                      *)
THEOREM TypeCorrect == Spec => []TypeOK
<1>1. ASSUME IInv  PROVE TypeOK
  <2>1. Q!Threads = Threads
    BY DEF Q!Threads, Threads
  <2>2. m_active \in Nat
    <3>1. Holding \in SUBSET Procs
      BY DEF Holding
    <3> QED  BY <1>1, <3>1, AIRAssumption, FS_Subset, FS_CardinalityType DEF IInv, Owned
  <2>3. m_msgissued \in [Procs -> Nat] /\ m_dbissued \in [Procs -> Nat]
    <3>1. \A p \in Procs : m_msgissued[p] \in Nat /\ m_dbissued[p] \in Nat
      BY <1>1, MsgZero, DbZero
    <3> QED  BY <1>1, <3>1, Typed DEF Data
  <2>4. /\ m_queue \in Seq(Procs) /\ m_pending \in Nat /\ work \in Seq(Procs)
        /\ m_concurrent \in {DefaultConcurrent, ConfConcurrent}
        /\ cur \in [Threads -> Procs \cup {NoProc}]
        /\ life \in [Procs -> {"new", "queued", "active", "deleted", "gone"}]
    BY <1>1, <2>1 DEF IInv, Owned, Q!TypeOK
  <2> QED  BY <1>1, <2>2, <2>3, <2>4, Typed DEF TypeOK, Data, Phases, Stages, Codes
<1> QED  BY <1>1, Invariance, PTL

(* Every request is answered at most once, and has been answered when its   *)
(* processor is deleted, however workers and callbacks interleave.          *)
THEOREM AnsweredOnceHolds == Spec => []AnsweredOnce
<1>1. ASSUME IInv  PROVE AnsweredOnce
  <2>1. ASSUME NEW p \in Procs
        PROVE  /\ sent[p] = <<>> \/ Len(sent[p]) = 1
               /\ life[p] \in {"deleted", "gone"} => Len(sent[p]) = 1
    <3>1. m_nextphase[p] \in Phases
      BY <1>1, Typed DEF Data
    <3> QED  BY <1>1, <3>1, PhaseFacts DEF PhaseFits, Phases
  <2>2. Len(<<>>) = 0
    OBVIOUS
  <2>3. ASSUME NEW p \in Procs  PROVE Len(sent[p]) <= 1
    <3>1. PICK n \in {0, 1} : n = Len(sent[p])
      BY <2>1, <2>2, Zenon
    <3>2. n <= 1
      OBVIOUS
    <3> QED  BY <3>1, <3>2, Zenon
  <2> QED  BY <2>1, <2>3 DEF AnsweredOnce
<1> QED  BY <1>1, Invariance, PTL

(* The phases implement the admission queue: each step of a request is one  *)
(* of HSSWorkerQueue or invisible to it.                                    *)
THEOREM ImplementsQueue == Spec => QueueSpec
<1>1. Init => Queue!Init
  BY InitQueue DEF Init, Queue!Init, Queue!Threads, Threads
<1>2. ASSUME IInv, [Next]_vars  PROVE [Queue!Next]_(Queue!vars)
  BY <1>2, NextSim, SameNext
<1> QED  BY <1>1, <1>2, Invariance, PTL DEF Spec, QueueSpec

(* An accepted request that holds a slot is in a thread's hands, or a query *)
(* or a message of it is under way.                                         *)
InHand(p) == \E t \in Threads : pc[t] \in {"trigger", "run", "phases"} /\ cur[t] = p
InWork(p) == \E i \in 1..Len(work) : work[i] = p
Attended ==
    \A p \in Procs : life[p] = "active" /\ in[p].kind # "rejected" =>
        InHand(p) \/ Out(p) # {} \/ InWork(p)

(* A message posted stays in the queue of messages.                         *)
LEMMA WorkGrows ==
  ASSUME work \in Seq(Procs), NEW q \in Procs, work' = Append(work, q), NEW p
  PROVE  InWork(p) \/ p = q => InWork(p)'
<1>1. /\ Len(work') = Len(work) + 1 /\ Len(work) \in Nat /\ work'[Len(work) + 1] = q
      /\ \A i \in 1..Len(work) : work'[i] = work[i]
  OBVIOUS
<1> QED  BY <1>1 DEF InWork

(* A thread that has p in hand keeps it unless it is the one that moves.    *)
LEMMA HandKept ==
  ASSUME Data, cur \in [Threads -> Procs \cup {NoProc}], NEW t \in Threads, NEW v, NEW c, NEW p,
         pc' = [pc EXCEPT ![t] = v], cur' = [cur EXCEPT ![t] = c],
         InHand(p), ~(pc[t] \in {"trigger", "run", "phases"} /\ cur[t] = p)
  PROVE  InHand(p)'
  BY DEF Data, InHand

LEMMA AttendedNext ==
  ASSUME IInv, Attended, [Next]_vars
  PROVE  Attended'
<1> SUFFICES ASSUME NEW p \in Procs, life'[p] = "active", in'[p].kind # "rejected"
             PROVE  InHand(p)' \/ Out(p)' # {} \/ InWork(p)'
  BY DEF Attended
<1>0. /\ work \in Seq(Procs) /\ cur \in [Threads -> Procs \cup {NoProc}] /\ Data
      /\ life \in [Procs -> {"new", "queued", "active", "deleted", "gone"}]
  BY DEF IInv, Owned, Inner, Q!TypeOK, Q!Threads, Threads
<1>1. ASSUME life[p] = "active", in[p].kind # "rejected"
      PROVE  InHand(p) \/ Out(p) # {} \/ InWork(p)
  BY <1>1 DEF Attended
<1>2. ASSUME NEW t \in FDThreads, NEW q \in Procs, ReceiveRequest(t, q)
      PROVE  InHand(p)' \/ Out(p)' # {} \/ InWork(p)'
  <2>1. life[p] = "active" /\ UNCHANGED <<cur, work, cb, in>> /\ t \in Threads
    BY <1>0, <1>2 DEF ReceiveRequest, Threads
  <2>2. pc[t] = "idle" /\ pc' = [pc EXCEPT ![t] = "start"]
    BY <1>2 DEF ReceiveRequest
  <2>3. InHand(p) => InHand(p)'
    BY <1>0, <2>1, <2>2 DEF InHand, Data
  <2> QED  BY <1>1, <2>1, <2>3 DEF Out, InWork
<1>3. ASSUME NEW t \in Threads, StartMessage(t), life[p] = "active"
      PROVE  InHand(p)' \/ Out(p)' # {} \/ InWork(p)'
  <2>1. pc[t] = "start" /\ UNCHANGED <<work, cb, in>>
    BY <1>3 DEF StartMessage
  <2>2. \/ pc' = [pc EXCEPT ![t] = "trigger"] /\ cur' = [cur EXCEPT ![t] = Head(m_queue)]
        \/ pc' = [pc EXCEPT ![t] = "idle"] /\ cur' = cur
    BY <1>3 DEF StartMessage
  <2>3. InHand(p) => InHand(p)'
    BY <1>0, <2>1, <2>2 DEF InHand, Data
  <2> QED  BY <1>1, <1>3, <2>1, <2>3 DEF Out, InWork
<1>4. ASSUME NEW t \in Threads, StartMessage(t), life[p] # "active"
      PROVE  InHand(p)'
  <2>1. pc' = [pc EXCEPT ![t] = "trigger"] /\ cur' = [cur EXCEPT ![t] = Head(m_queue)]
        /\ life' = [life EXCEPT ![Head(m_queue)] = "active"]
    BY <1>4 DEF StartMessage
  <2>2. p = Head(m_queue)
    BY <1>0, <1>4, <2>1
  <2>3. pc'[t] = "trigger" /\ cur'[t] = p
    BY <1>0, <2>1, <2>2 DEF Data
  <2> QED  BY <2>3 DEF InHand
<1>5. ASSUME NEW t \in Threads, TriggerNextPhase(t)
      PROVE  InHand(p)' \/ Out(p)' # {} \/ InWork(p)'
  <2>1. /\ pc[t] = "trigger" /\ work' = Append(work, cur[t]) /\ UNCHANGED <<life, cb, in>>
        /\ pc' = [pc EXCEPT ![t] = "idle"] /\ cur' = [cur EXCEPT ![t] = NoProc]
    BY <1>5 DEF TriggerNextPhase
  <2>2. cur[t] \in Procs
    BY <2>1, HolderFacts
  <2>3. InWork(p) \/ p = cur[t] => InWork(p)'
    BY <1>0, <2>1, <2>2, WorkGrows
  <2>4. InHand(p) /\ p # cur[t] => InHand(p)'
    BY <1>0, <2>1, HandKept
  <2> QED  BY <1>1, <2>1, <2>3, <2>4 DEF Out
<1>6. ASSUME NEW w \in Workers, GetWork(w)
      PROVE  InHand(p)' \/ Out(p)' # {} \/ InWork(p)'
  <2>1. /\ w \in Threads /\ pc[w] = "idle" /\ UNCHANGED <<life, cb, in>>
        /\ work # <<>> /\ work' = Tail(work)
        /\ pc' = [pc EXCEPT ![w] = "run"] /\ cur' = [cur EXCEPT ![w] = Head(work)]
    BY <1>6 DEF GetWork, Threads
  <2>2. InHand(p) => InHand(p)'
    BY <1>0, <2>1, HandKept
  <2>3. /\ Len(work') = Len(work) - 1 /\ Len(work) \in Nat /\ Head(work) = work[1]
        /\ \A i \in 1..Len(work') : work'[i] = work[i + 1]
    BY <1>0, <2>1
  <2>4. pc'[w] = "run" /\ cur'[w] = work[1]
    BY <1>0, <2>1, <2>3 DEF Data
  <2>5. ASSUME InWork(p)  PROVE InHand(p)' \/ InWork(p)'
    <3>1. PICK i \in 1..Len(work) : work[i] = p
      BY <2>5 DEF InWork
    <3>2. CASE i = 1
      BY <2>1, <2>4, <3>1, <3>2 DEF InHand
    <3>3. CASE i # 1
      <4>1. i - 1 \in 1..Len(work') /\ work'[i - 1] = p
        BY <2>3, <3>1, <3>3
      <4> QED  BY <4>1 DEF InWork
    <3> QED  BY <3>2, <3>3
  <2> QED  BY <1>1, <2>1, <2>2, <2>5 DEF Out
<1>7. ASSUME NEW w \in Workers, Enter(w)
      PROVE  InHand(p)' \/ Out(p)' # {} \/ InWork(p)'
  <2>1. w \in Threads /\ pc' = [pc EXCEPT ![w] = "phases"] /\ UNCHANGED <<work, cur, life, cb, in>>
    BY <1>7 DEF Enter, Threads
  <2>2. InHand(p) => InHand(p)'
    BY <1>0, <2>1 DEF InHand, Data
  <2> QED  BY <1>1, <2>1, <2>2 DEF Out, InWork
<1>8. ASSUME NEW w \in Workers, Phase1(w) \/ Phase2(w) \/ Phase3(w) \/ Delete(w)
      PROVE  InHand(p)' \/ Out(p)' # {} \/ InWork(p)'
  <2>1. w \in Threads /\ pc[w] = "phases" /\ cur[w] \in Procs
    BY <1>8, RunningFacts DEF Phase1, Phase2, Phase3, Delete, Running
  <2>2. /\ UNCHANGED <<work, cur, in>>
        /\ UNCHANGED <<life, pc>> \/ life' = [life EXCEPT ![cur[w]] = "deleted"]
        /\ UNCHANGED pc \/ pc' = [pc EXCEPT ![w] = "finish"]
    BY <1>8 DEF Phase1, Phase2, Phase3, Delete
  <2>3. \/ cb' = cb \/ cb' = [cb EXCEPT ![cur[w]]["SEC"] = "db"]
        \/ cb' = [cb EXCEPT ![cur[w]]["UPD"] = "db"]
    BY <1>8, Zenon DEF Phase1, Phase2, Phase3, Delete, Issue
  <2>4. p # cur[w] => cb'[p] = cb[p]
    BY <1>0, <2>1, <2>3 DEF Data
  <2>5. life[p] = "active"
    BY <1>0, <2>1, <2>2
  <2>6. CASE p = cur[w]
    <3>1. life' = life /\ pc' = pc
      BY <1>0, <1>8, <2>1, <2>2, <2>6 DEF Phase1, Phase2, Phase3, Delete
    <3> QED  BY <2>1, <2>2, <2>6, <3>1 DEF InHand
  <2>7. CASE p # cur[w]
    <3>1. InHand(p) => InHand(p)'
      BY <1>0, <2>1, <2>2, <2>7 DEF InHand, Data
    <3>2. Out(p)' = Out(p) /\ InWork(p)' = InWork(p)
      BY <2>2, <2>4, <2>7 DEF Out, InWork
    <3> QED  BY <1>1, <2>2, <2>5, <3>1, <3>2
  <2> QED  BY <2>6, <2>7
<1>9. ASSUME NEW w \in Workers, Leave(w)
      PROVE  InHand(p)' \/ Out(p)' # {} \/ InWork(p)'
  <2>1. /\ w \in Threads /\ pc[w] = "phases" /\ UNCHANGED <<work, life, cb, in>>
        /\ pc' = [pc EXCEPT ![w] = "idle"] /\ cur' = [cur EXCEPT ![w] = NoProc]
    BY <1>9 DEF Leave, Threads
  <2>2. Out(p)' = Out(p) /\ InWork(p)' = InWork(p)
    BY <2>1 DEF Out, InWork
  <2>3. CASE p # cur[w]
    <3>1. InHand(p) => InHand(p)'
      BY <1>0, <2>1, <2>3, HandKept
    <3> QED  BY <1>1, <2>1, <2>2, <3>1
  <2>4. CASE p = cur[w]
    <3>1. Out(p) # {} \/ m_msgissued[p] # 0
      BY <1>9, <2>1, <2>4, LeavesWork
    <3>2. m_msgissued[p] # 0 => InWork(p) \/ \E v \in Workers : pc[v] = "run" /\ cur[v] = p
      BY MsgZero DEF InWork
    <3>3. ASSUME NEW v \in Workers, pc[v] = "run", cur[v] = p  PROVE InHand(p)'
      <4>1. v \in Threads /\ v # w
        BY <2>1, <3>3 DEF Threads
      <4>2. pc'[v] = "run" /\ cur'[v] = p
        BY <1>0, <2>1, <3>3, <4>1 DEF Data
      <4> QED  BY <4>1, <4>2 DEF InHand
    <3> QED  BY <2>2, <3>1, <3>2, <3>3
  <2> QED  BY <2>3, <2>4
<1>10. ASSUME NEW w \in Workers, FinishMessage(w)
       PROVE  InHand(p)' \/ Out(p)' # {} \/ InWork(p)'
  <2>1. /\ w \in Threads /\ pc[w] = "finish" /\ UNCHANGED <<work, cb, in>>
        /\ life' = [life EXCEPT ![cur[w]] = "gone"]
        /\ pc' = [pc EXCEPT ![w] = "start"] /\ cur' = [cur EXCEPT ![w] = NoProc]
    BY <1>10 DEF FinishMessage, Threads
  <2>2. life[p] = "active"
    BY <1>0, <2>1
  <2>3. InHand(p) => InHand(p)'
    BY <1>0, <2>1, HandKept
  <2> QED  BY <1>1, <2>1, <2>2, <2>3 DEF Out, InWork
<1>11. ASSUME NEW q \in Procs, GetImsiSec(q) \/ UpdateImsi(q)
       PROVE  InHand(p)' \/ Out(p)' # {} \/ InWork(p)'
  <2>1. UNCHANGED <<work, pc, cur, life, in>>
    BY <1>11 DEF GetImsiSec, UpdateImsi
  <2>2. \/ cb[q]["SEC"] = "db" /\ cb' = [cb EXCEPT ![q]["SEC"] = "tail"]
        \/ cb[q]["UPD"] = "db" /\ cb' = [cb EXCEPT ![q]["UPD"] = "tail"]
    BY <1>11 DEF GetImsiSec, UpdateImsi, Completed
  <2>3. PICK o \in DbOps : cb[q][o] = "db" /\ cb' = [cb EXCEPT ![q][o] = "tail"]
    BY <2>2 DEF DbOps
  <2>4. Out(p)' = Out(p)
    <3>1. CASE p # q
      BY <1>0, <2>3, <3>1 DEF Out, Data
    <3>2. CASE p = q
      <4>1. \A x \in DbOps : cb'[p][x] = IF x = o THEN "tail" ELSE cb[p][x]
        BY <1>0, <2>3, <3>2 DEF Data
      <4> QED  BY <2>3, <3>2, <4>1 DEF Out
    <3> QED  BY <3>1, <3>2
  <2> QED  BY <1>1, <2>1, <2>4 DEF InHand, InWork
<1>12. ASSUME NEW q \in Procs, NEW o \in DbOps, CallbackEnd(q, o)
       PROVE  InHand(p)' \/ Out(p)' # {} \/ InWork(p)'
  <2>1. work' = Append(work, q) /\ UNCHANGED <<pc, cur, life, in>> /\ cb' = [cb EXCEPT ![q][o] = "over"]
    BY <1>12 DEF CallbackEnd
  <2>2. InWork(p) \/ p = q => InWork(p)'
    BY <1>0, <2>1, WorkGrows
  <2>3. p # q => Out(p)' = Out(p)
    BY <1>0, <2>1 DEF Out, Data
  <2> QED  BY <1>1, <2>1, <2>2, <2>3 DEF InHand
<1>13. CASE SetConcurrent \/ UNCHANGED vars
  <2>1. UNCHANGED <<work, pc, cur, life, in, cb>>
    BY <1>13 DEF SetConcurrent, vars
  <2> QED  BY <1>1, <2>1 DEF InHand, Out, InWork
<1> QED  BY <1>2, <1>3, <1>4, <1>5, <1>6, <1>7, <1>8, <1>9, <1>10, <1>11, <1>12, <1>13
         DEF Next, StartStep, WorkerStep, DriverStep

(* Only a rejected request keeps its slot with nothing under way for it,    *)
(* however workers and callbacks interleave (the tests of phaseReady and    *)
(* the messages that on_air_callback posts).                                *)
THEOREM KeptOnlyIfRejectedHolds == Spec => []KeptOnlyIfRejected
<1>1. Init => Attended
  BY DEF Init, Attended
<1>2. Spec => []Attended
  BY <1>1, AttendedNext, Invariance, PTL DEF Spec
<1>3. ASSUME IInv, Attended  PROVE KeptOnlyIfRejected
  <2> SUFFICES ASSUME NEW p \in Queue!Abandoned  PROVE in[p].kind = "rejected"
    BY DEF KeptOnlyIfRejected
  <2>1. /\ p \in Procs /\ life[p] = "active" /\ QueueInflight[p] = 0 /\ ~InWork(p)
        /\ \A t \in Threads : cur[t] # p
    BY DEF Queue!Abandoned, Queue!Threads, Threads, InWork
  <2>2. ~InHand(p) /\ ~Locked(p)
    BY <2>1 DEF InHand, Locked, Threads
  <2>3. batch[p] = {}
    BY <1>3, <2>1, <2>2 DEF IInv, Inner, BatchOK
  <2>4. Cardinality(Out(p)) = 0
    <3>1. Out(p) \ batch[p] = Out(p)
      BY <2>3
    <3> QED  BY <2>1, <3>1 DEF QueueInflight
  <2>5. Out(p) = {}
    BY <2>4, OutFinite
  <2> QED  BY <1>3, <2>1, <2>2, <2>5 DEF Attended
<1> QED  BY <1>2, <1>3, Invariance, PTL

(* What the admission queue promises holds of the phases themselves, with   *)
(* rejected requests too: the slots are accounted for and within the limit, *)
(* and no message, query or worker refers to a deleted processor.           *)
THEOREM AdmissionHolds ==
  Spec => [](Queue!SlotAccounting /\ Queue!ConcurrencyLimit /\ Queue!NoUseAfterDelete)
<1>1. ASSUME IInv
      PROVE  Queue!SlotAccounting /\ Queue!ConcurrencyLimit /\ Queue!NoUseAfterDelete
  <2>1. Queue!Holding = Holding /\ \A S : Queue!Cardinality(S) = Cardinality(S)
    BY DEF Queue!Holding, Holding, Queue!Cardinality, Cardinality
  <2>2. Queue!SlotAccounting
    BY <1>1, <2>1, Typed DEF IInv, Owned, Queue!SlotAccounting
  <2>3. Queue!ConcurrencyLimit
    BY <1>1, <2>1 DEF IInv, Owned, Q!ActiveBound, Queue!ConcurrencyLimit
  <2>4. Queue!NoUseAfterDelete
    <3> SUFFICES ASSUME NEW p \in Procs, life[p] \in {"deleted", "gone"}
                 PROVE  /\ \A i \in 1..Len(work) : work[i] # p
                        /\ QueueInflight[p] = 0
                        /\ \A w \in Workers : QueuePc[w] = "run" => cur[w] # p
      BY DEF Queue!NoUseAfterDelete
    <3>1. QueueInflight[p] = 0 /\ \A i \in 1..Len(work) : work[i] # p
      BY <1>1 DEF IInv, Owned, Q!Ownership, Q!Quiet
    <3>2. \A w \in Workers : QueuePc[w] = "run" => cur[w] # p
      <4>1. ASSUME NEW w \in Workers, QueuePc[w] = "run"  PROVE pc[w] \in {"run", "phases"}
        BY <4>1, PcValue DEF Threads
      <4> QED  BY <1>1, <4>1, RunningFacts
    <3> QED  BY <3>1, <3>2
  <2> QED  BY <2>2, <2>3, <2>4
<1> QED  BY <1>1, Invariance, PTL

-----------------------------------------------------------------------------
(* Sequence numbers.  The USIM's numbers are not resynchronised, and there  *)
(* are no more requests than numbers of six octets in steps of 32.          *)
OneSeries == "resync" \notin Kinds /\ 32 * Cardinality(Procs) <= SqnMod

(* While serial, one request holds a slot at a time; those that handed out  *)
(* vectors did it once, in steps of 32; the row is one step ahead of the    *)
(* last, unless its write is under way; and the next one has read the row.  *)
Single == \A p, q \in Holding : p = q
UsedOnce ==
    /\ \A i, j \in 1..Len(used) : used[i] = used[j] => i = j
    /\ \A i \in 1..Len(used) : m_nextphase[used[i]] \in {"AIR3", "AIRFINAL"}
Step32(d, k) == d = 32 * k \/ d = 32 * k - SqnMod
InSteps ==
    /\ \A i \in 1..Len(used) : m_sec[used[i]] \in 0..(SqnMod - 1)
    /\ \A i, j \in 1..Len(used) : i <= j => Step32(m_sec[used[j]] - m_sec[used[i]], j - i)
RowAhead ==
    /\ \A p \in Procs : cb[p]["UPD"] = "db" => used # <<>> /\ p = used[Len(used)]
    /\ used # <<>> => \/ cb[used[Len(used)]]["UPD"] = "db"
                      \/ row = m_sec[used[Len(used)]] + 32
HasRead ==
    \A p \in Procs :
        /\ cb[p]["SEC"] = "db" => m_nextphase[p] = "AIR2"
        /\ /\ m_nextphase[p] = "AIR2" /\ cb[p]["SEC"] \in {"tail", "over"}
           /\ "SEC" \in m_dbresult[p]
           => m_sec[p] = row % SqnMod
Series == serial => Single /\ UsedOnce /\ InSteps /\ RowAhead /\ HasRead

(* Arithmetic of six octets.                                                *)
LEMMA ModValue ==
  ASSUME NEW M \in Nat \ {0}, NEW x \in Int
  PROVE  /\ 0 <= x /\ x < M => x % M = x
         /\ M <= x /\ x - M < M => x % M = x - M
         /\ 0 - M <= x /\ x < 0 => x % M = x + M
  OBVIOUS

(* A request with a query out is active.                                    *)
LEMMA OutActive ==
  ASSUME IInv, NEW p \in Procs, NEW o \in DbOps, cb[p][o] = "db"
  PROVE  life[p] = "active"
<1> SUFFICES ASSUME life[p] # "active"  PROVE FALSE
  OBVIOUS
<1>1. QueueInflight[p] = 0
  BY DEF IInv, Owned, Q!Ownership, Q!Quiet
<1>2. Cardinality(Out(p) \ batch[p]) = 0
  BY <1>1 DEF QueueInflight
<1>3. Out(p) \ batch[p] \in SUBSET DbOps
  BY DEF Out
<1>4. Out(p) \ batch[p] = {}
  BY <1>2, <1>3, OutFinite
<1>5. batch[p] # {}
  BY <1>4 DEF Out
<1>6. Locked(p)
  BY <1>5, OwnDb
<1> QED  BY <1>6, RunningFacts DEF Locked

LEMMA ReadingActive ==
  ASSUME IInv, NEW p \in Procs, m_nextphase[p] = "AIR2"
  PROVE  life[p] = "active"
<1>1. life[p] \in {"new", "queued", "active", "deleted", "gone"}
  BY Typed
<1> QED  BY <1>1, PhaseFacts DEF PhaseFits

(* A step that leaves the numbers and the row alone.                        *)
LEMMA SeriesKept ==
  ASSUME Series, UNCHANGED <<used, m_sec, row, m_nextphase, cb, m_dbresult>>,
         serial' => serial /\ Single'
  PROVE  Series'
<1>1. CASE ~serial'
  BY <1>1 DEF Series
<1>2. CASE serial'
  <2>1. serial /\ Single' /\ UsedOnce /\ InSteps /\ RowAhead /\ HasRead
    BY <1>2 DEF Series
  <2>2. UsedOnce' /\ InSteps'
    BY <2>1 DEF UsedOnce, InSteps
  <2>3. RowAhead' /\ HasRead'
    BY <2>1 DEF RowAhead, HasRead
  <2> QED  BY <2>1, <2>2, <2>3 DEF Series
<1> QED  BY <1>1, <1>2

(* A step of one request that hands out nothing and writes nothing.         *)
NotUsed(p) == m_nextphase[p] \notin {"AIR3", "AIRFINAL"}
LEMMA OneRequest ==
  ASSUME IInv, Series, NEW p \in Procs, UNCHANGED <<used, row, serial, life>>,
         \A q \in Procs \ {p} :
             /\ m_nextphase'[q] = m_nextphase[q] /\ cb'[q] = cb[q]
             /\ m_dbresult'[q] = m_dbresult[q] /\ m_sec'[q] = m_sec[q],
         m_sec'[p] = m_sec[p] \/ NotUsed(p),
         NotUsed(p)' => NotUsed(p),
         cb'[p]["UPD"] = "db" <=> cb[p]["UPD"] = "db",
         serial /\ cb'[p]["SEC"] = "db" => m_nextphase'[p] = "AIR2",
         serial /\ m_nextphase'[p] = "AIR2" /\ cb'[p]["SEC"] \in {"tail", "over"}
             /\ "SEC" \in m_dbresult'[p] => m_sec'[p] = row % SqnMod
  PROVE  Series'
<1> SUFFICES ASSUME serial'  PROVE Series'
  BY DEF Series
<1>1. serial /\ Single /\ UsedOnce /\ InSteps /\ RowAhead /\ HasRead
  BY DEF Series
<1>2. used \in Seq(Procs)
  BY Typed DEF Data
<1>3. \A i \in 1..Len(used) : used[i] \in Procs
  BY <1>2
<1>4. \A i \in 1..Len(used) : m_sec'[used[i]] = m_sec[used[i]]
  BY <1>1, <1>3 DEF UsedOnce, NotUsed
<1>5. Single'
  BY <1>1 DEF Single, Holding
<1>6. UsedOnce'
  BY <1>1, <1>3 DEF UsedOnce, NotUsed
<1>7. InSteps'
  BY <1>1, <1>4 DEF InSteps
<1>8. RowAhead'
  <2>1. used # <<>> => Len(used) \in 1..Len(used)
    BY <1>2
  <2>2. \A q \in Procs : cb'[q]["UPD"] = "db" <=> cb[q]["UPD"] = "db"
    OBVIOUS
  <2> QED  BY <1>1, <1>3, <1>4, <2>1, <2>2 DEF RowAhead
<1>9. HasRead'
  BY <1>1 DEF HasRead
<1> QED  BY <1>5, <1>6, <1>7, <1>8, <1>9 DEF Series

LEMMA StartSeries ==
  ASSUME IInv, Series, NEW t \in Threads, StartMessage(t)
  PROVE  Series'
<1>1. UNCHANGED <<used, m_sec, row, m_nextphase, cb, m_dbresult>>
  BY DEF StartMessage, proc
<1>2. CASE m_active < m_concurrent /\ m_pending > 0
  <2>1. serial' = (serial /\ m_active = 0) /\ life' = [life EXCEPT ![Head(m_queue)] = "active"]
    BY <1>2 DEF StartMessage
  <2>2. ASSUME serial'  PROVE serial /\ Single'
    <3>1. Holding \in SUBSET Procs /\ IsFiniteSet(Holding)
      BY AIRAssumption, FS_Subset DEF Holding
    <3>2. Holding = {}
      BY <2>1, <2>2, <3>1, FS_EmptySet DEF IInv, Owned
    <3>3. \A q \in Holding' : q = Head(m_queue)
      BY <2>1, <3>2, Typed DEF Holding
    <3> QED  BY <2>1, <2>2, <3>3 DEF Single
  <2> QED  BY <1>1, <2>2, SeriesKept
<1>3. CASE ~(m_active < m_concurrent /\ m_pending > 0)
  <2>1. serial' = serial /\ life' = life
    BY <1>3 DEF StartMessage
  <2>2. serial' => serial /\ Single'
    BY <2>1 DEF Series, Single, Holding
  <2> QED  BY <1>1, <2>2, SeriesKept
<1> QED  BY <1>2, <1>3

(* Steps that move no request into a slot, nor touch what Series speaks of. *)
LEMMA HoldingKept ==
  ASSUME Series, UNCHANGED <<used, m_sec, row, m_nextphase, cb, m_dbresult, serial>>,
         Holding' \subseteq Holding
  PROVE  Series'
<1>1. serial' => serial /\ Single'
  BY DEF Series, Single
<1> QED  BY <1>1, SeriesKept

LEMMA ShelfSeries ==
  ASSUME IInv, Series,
         \/ \E t \in FDThreads, p \in Procs : ReceiveRequest(t, p)
         \/ \E t \in Threads : TriggerNextPhase(t)
         \/ \E w \in Workers : GetWork(w) \/ Enter(w) \/ Leave(w)
         \/ SetConcurrent \/ UNCHANGED vars
  PROVE  Series'
<1>1. UNCHANGED <<used, m_sec, row, m_nextphase, cb, m_dbresult, serial>>
  BY DEF ReceiveRequest, TriggerNextPhase, GetWork, Enter, Leave, SetConcurrent, vars, proc
<1>2. Holding' \subseteq Holding
  BY Typed DEF ReceiveRequest, TriggerNextPhase, GetWork, Enter, Leave, SetConcurrent, vars,
     Holding
<1> QED  BY <1>1, <1>2, HoldingKept

LEMMA EndSeries ==
  ASSUME IInv, Series, NEW w \in Workers, Delete(w) \/ FinishMessage(w)
  PROVE  Series'
<1>1. UNCHANGED <<used, m_sec, row, m_nextphase, cb, m_dbresult, serial>>
  BY DEF Delete, FinishMessage, proc
<1>2. Holding' \subseteq Holding
  <2>1. CASE Delete(w)
    <3>1. cur[w] \in Procs /\ life[cur[w]] = "active"
      BY <2>1, RunningFacts DEF Delete, Running
    <3> QED  BY <2>1, <3>1, Typed DEF Delete, Holding
  <2>2. CASE FinishMessage(w)
    BY <2>2, Typed DEF FinishMessage, Holding
  <2> QED  BY <2>1, <2>2
<1> QED  BY <1>1, <1>2, HoldingKept

LEMMA Phase1Series ==
  ASSUME IInv, Series, NEW w \in Workers, Phase1(w)
  PROVE  Series'
<1>1. PICK p \in Procs : p = cur[w]
  BY RunningFacts DEF Phase1, Running
<1>2. /\ m_nextphase[p] = "AIR1"
      /\ UNCHANGED <<life, m_dbresult, m_sec, row, used, serial>>
  BY <1>1 DEF Phase1, Running
<1>3. \/ Goto(p, "ULRFINAL") /\ cb' = cb
      \/ Goto(p, "AIRFINAL") /\ cb' = cb
      \/ Goto(p, "AIR2") /\ Issue(p, "SEC")
  BY <1>1, Zenon DEF Phase1, RejectedPhase, AwaitSec
<1>4. /\ cb[p]["SEC"] = "none" /\ cb[p]["UPD"] = "none" /\ NotUsed(p)
      /\ "SEC" \in DbOps /\ "UPD" \in DbOps
  BY <1>2, PhaseFacts DEF PhaseFits, NotUsed, DbOps
<1>5. \A q \in Procs \ {p} : m_nextphase'[q] = m_nextphase[q] /\ cb'[q] = cb[q]
  BY <1>3, Typed DEF Goto, Issue, Data
<1>6. /\ cb'[p]["UPD"] # "db" /\ cb'[p]["SEC"] \in {"none", "db"}
      /\ cb'[p]["SEC"] = "db" => m_nextphase'[p] = "AIR2"
  BY <1>3, <1>4, Typed DEF Goto, Issue, Data
<1> QED  BY <1>2, <1>4, <1>5, <1>6, OneRequest

LEMMA Phase3Series ==
  ASSUME IInv, Series, NEW w \in Workers, Phase3(w)
  PROVE  Series'
<1>1. PICK p \in Procs : p = cur[w]
  BY RunningFacts DEF Phase3, Running
<1>2. /\ m_nextphase[p] = "AIR3" /\ m_nextphase' = [m_nextphase EXCEPT ![p] = "AIRFINAL"]
      /\ UNCHANGED <<life, m_dbresult, m_sec, row, used, serial, cb>>
  BY <1>1 DEF Phase3, Running, Goto, AfterUpdate
<1>3. m_nextphase'[p] = "AIRFINAL" /\ \A q \in Procs \ {p} : m_nextphase'[q] = m_nextphase[q]
  BY <1>2, Typed DEF Data
<1>4. serial => cb[p]["SEC"] # "db"
  BY <1>2 DEF Series, HasRead
<1> QED  BY <1>2, <1>3, <1>4, OneRequest DEF NotUsed

LEMMA GetImsiSecSeries ==
  ASSUME IInv, Series, NEW p \in Procs, GetImsiSec(p)
  PROVE  Series'
<1>1. /\ cb[p]["SEC"] = "db" /\ UNCHANGED <<life, m_nextphase, row, used, serial>>
      /\ cb' = [cb EXCEPT ![p]["SEC"] = "tail"]
      /\ m_dbresult' = [m_dbresult EXCEPT ![p] = IF in[p].known THEN @ \cup {"SEC"} ELSE {}]
      /\ m_sec' = [m_sec EXCEPT ![p] = IF in[p].known THEN row % SqnMod ELSE @]
  BY DEF GetImsiSec, Completed, ReadSqn
<1>2. \A q \in Procs \ {p} : cb'[q] = cb[q] /\ m_dbresult'[q] = m_dbresult[q] /\ m_sec'[q] = m_sec[q]
  BY <1>1, Typed DEF Data
<1>3. cb'[p]["SEC"] = "tail" /\ cb'[p]["UPD"] = cb[p]["UPD"]
  BY <1>1, Typed DEF Data, DbOps
<1>4. "SEC" \in m_dbresult'[p] => m_sec'[p] = row % SqnMod
  BY <1>1, Typed DEF Data
<1>5. CASE serial
  <2>1. NotUsed(p)
    BY <1>1, <1>5 DEF Series, HasRead, NotUsed
  <2> QED  BY <1>1, <1>2, <1>3, <1>4, <2>1, OneRequest DEF NotUsed
<1>6. CASE ~serial
  BY <1>1, <1>6 DEF Series
<1> QED  BY <1>5, <1>6

LEMMA CallbackEndSeries ==
  ASSUME IInv, Series, NEW p \in Procs, NEW o \in DbOps, CallbackEnd(p, o)
  PROVE  Series'
<1>1. /\ cb[p][o] = "tail" /\ cb' = [cb EXCEPT ![p][o] = "over"]
      /\ UNCHANGED <<life, m_nextphase, m_dbresult, m_sec, row, used, serial>>
  BY DEF CallbackEnd
<1>2. \A q \in Procs \ {p} : cb'[q] = cb[q]
  BY <1>1, Typed DEF Data
<1>3. \A x \in DbOps : cb'[p][x] = IF x = o THEN "over" ELSE cb[p][x]
  BY <1>1, Typed DEF Data
<1>4. \/ cb'[p]["SEC"] = "over" /\ cb[p]["SEC"] = "tail" /\ cb'[p]["UPD"] = cb[p]["UPD"]
      \/ cb'[p]["UPD"] = "over" /\ cb[p]["UPD"] = "tail" /\ cb'[p]["SEC"] = cb[p]["SEC"]
  BY <1>1, <1>3 DEF DbOps
<1>5. serial => /\ cb'[p]["SEC"] = "db" => m_nextphase[p] = "AIR2"
                /\ m_nextphase[p] = "AIR2" /\ cb'[p]["SEC"] \in {"tail", "over"}
                      /\ "SEC" \in m_dbresult[p] => m_sec[p] = row % SqnMod
  BY <1>4 DEF Series, HasRead
<1> QED  BY <1>1, <1>2, <1>4, <1>5, OneRequest DEF NotUsed

(* The write lands: the row is one step ahead again, and nobody else, being *)
(* out of its slot, has read the row before.                                *)
LEMMA UpdateImsiSeries ==
  ASSUME IInv, Series, NEW p \in Procs, UpdateImsi(p)
  PROVE  Series'
<1> SUFFICES ASSUME serial'  PROVE Series'
  BY DEF Series
<1>1. /\ cb[p]["UPD"] = "db" /\ UNCHANGED <<life, m_nextphase, m_sec, used>>
      /\ cb' = [cb EXCEPT ![p]["UPD"] = "tail"] /\ row' = m_sec[p] + 32 /\ serial
  BY DEF UpdateImsi, Completed, WrittenSqn
<1>2. Single /\ UsedOnce /\ InSteps /\ RowAhead /\ HasRead
  BY <1>1 DEF Series
<1>3. used # <<>> /\ p = used[Len(used)] /\ used \in Seq(Procs)
  BY <1>1, <1>2, Typed DEF RowAhead, Data
<1>4. Len(used) \in 1..Len(used)
  BY <1>3
<1>5. life[p] = "active" /\ m_nextphase[p] \in {"AIR3", "AIRFINAL"}
  <2>1. "UPD" \in DbOps
    BY DEF DbOps
  <2>2. life[p] = "active"
    BY <1>1, <2>1, OutActive
  <2> QED  BY <1>2, <1>3, <1>4, <2>2 DEF UsedOnce
<1>6. \A q \in Procs : m_nextphase[q] # "AIR2"
  <2>1. ASSUME NEW q \in Procs, m_nextphase[q] = "AIR2"  PROVE FALSE
    <3>1. life[q] = "active"
      BY <2>1, ReadingActive
    <3>2. p \in Holding /\ q \in Holding
      BY <1>5, <3>1 DEF Holding
    <3>3. p = q
      BY <1>2, <3>2 DEF Single
    <3> QED  BY <1>5, <2>1, <3>3
  <2> QED  BY <2>1
<1>7. \A q \in Procs : /\ cb'[q]["SEC"] = cb[q]["SEC"]
                         /\ cb'[q]["UPD"] = IF q = p THEN "tail" ELSE cb[q]["UPD"]
  BY <1>1, Typed DEF Data, DbOps
<1>8. Single' /\ UsedOnce' /\ InSteps'
  BY <1>1, <1>2 DEF Single, Holding, UsedOnce, InSteps
<1>9. RowAhead'
  BY <1>1, <1>2, <1>3, <1>7 DEF RowAhead
<1>10. HasRead'
  BY <1>1, <1>2, <1>6, <1>7 DEF HasRead
<1> QED  BY <1>8, <1>9, <1>10 DEF Series

(* No more requests hand out vectors than there are.                        *)
LEMMA NoMoreThanProcs ==
  ASSUME NEW s \in Seq(Procs), \A i, j \in 1..Len(s) : s[i] = s[j] => i = j
  PROVE  Len(s) <= Cardinality(Procs) /\ Cardinality(Procs) \in Nat
<1>1. Len(s) \in Nat /\ s \in [1..Len(s) -> Procs]
  OBVIOUS
<1>2. s \in Injection(1..Len(s), Procs)
  BY <1>1 DEF Injection, IsInjective
<1>3. Cardinality(1..Len(s)) <= Cardinality(Procs)
  BY <1>2, AIRAssumption, FS_Injection
<1>4. Cardinality(1..Len(s)) = Len(s)
  <2>1. 1 \in Int /\ Len(s) \in Int
    BY <1>1
  <2>2. Cardinality(1..Len(s)) = IF 1 > Len(s) THEN 0 ELSE Len(s) - 1 + 1
    BY <2>1, FS_Interval
  <2> QED  BY <1>1, <2>2
<1> QED  BY <1>3, <1>4, AIRAssumption, FS_CardinalityType

(* One step further in six octets.  The number cannot wrap twice, as it     *)
(* stays within one round.                                                  *)
LEMMA OneStepOn ==
  ASSUME NEW x \in 0..(SqnMod - 1), NEW y \in 0..(SqnMod - 1), NEW k \in Nat,
         Step32(y - x, k), 32 * (k + 1) <= SqnMod
  PROVE  /\ (y + 32) % SqnMod \in 0..(SqnMod - 1)
         /\ Step32(((y + 32) % SqnMod) - x, k + 1)
<1>1. SqnMod \in Nat \ {0} /\ 32 <= SqnMod /\ y + 32 \in Nat /\ y + 32 < 2 * SqnMod
  BY AIRAssumption
<1>2. PICK z \in Int : z = (y + 32) % SqnMod
  BY <1>1
<1>3. z = y + 32 \/ z = y + 32 - SqnMod
  <2>1. PICK v \in Int : v = y + 32 /\ 0 <= v
    BY <1>1
  <2>2. v < SqnMod => v % SqnMod = v
    BY <1>1, <2>1, ModValue, Zenon
  <2>3. SqnMod <= v /\ v - SqnMod < SqnMod => v % SqnMod = v - SqnMod
    BY <1>1, ModValue, Zenon
  <2>4. v < SqnMod \/ (SqnMod <= v /\ v - SqnMod < SqnMod)
    BY <1>1, <2>1
  <2>5. v % SqnMod = v \/ v % SqnMod = v - SqnMod
    BY <2>2, <2>3, <2>4, Zenon
  <2>6. z = v % SqnMod
    BY <1>2, <2>1
  <2>7. z = v \/ z = v - SqnMod
    BY <2>5, <2>6, Zenon
  <2> QED  BY <1>1, <2>1, <2>7
<1>4. z \in 0..(SqnMod - 1)
  BY <1>1, <1>2
<1>5. z - x = 32 * (k + 1) \/ z - x = 32 * (k + 1) - SqnMod
  BY <1>1, <1>3, <1>4 DEF Step32
<1> QED  BY <1>2, <1>4, <1>5 DEF Step32

LEMMA UsedMore ==
  ASSUME NEW s \in Seq(Procs), NEW p \in Procs, NEW r, r = Append(s, p)
  PROVE  /\ r \in Seq(Procs) /\ Len(r) = Len(s) + 1 /\ r # <<>> /\ r[Len(r)] = p
         /\ \A i \in 1..Len(s) : r[i] = s[i] /\ s[i] \in Procs
         /\ \A i \in 1..Len(r) : i \in 1..Len(s) \/ (i = Len(s) + 1 /\ r[i] = p)
  OBVIOUS

(* phase2 hands out the number it read: the next of the series.             *)
LEMMA HandsOutNext ==
  ASSUME IInv, Series, serial, OneSeries, NEW w \in Workers, Phase2(w), NEW p \in Procs,
         p = cur[w], "SEC" \in m_dbresult[p]
  PROVE  /\ \A i \in 1..Len(used) : used[i] # p
         /\ m_sec[p] \in 0..(SqnMod - 1) /\ VectorSqn(p) = m_sec[p]
         /\ \A i \in 1..Len(used) :
                Step32(m_sec[p] - m_sec[used[i]], Len(used) + 1 - i)
<1>1. Single /\ UsedOnce /\ InSteps /\ RowAhead /\ HasRead
  BY DEF Series
<1>2. m_nextphase[p] = "AIR2" /\ "SEC" \in m_dbexecuted[p] /\ life[p] = "active"
  BY RunningFacts DEF Phase2, Running, PhaseReady
<1>3. cb[p]["SEC"] \in {"tail", "over"}
  BY <1>2, PhaseFacts DEF PhaseFits
<1>4. m_sec[p] = row % SqnMod
  BY <1>1, <1>2, <1>3 DEF HasRead
<1>5. m_sec[p] \in 0..(SqnMod - 1)
  <2>1. row \in Nat /\ SqnMod \in Nat \ {0}
    BY Typed, AIRAssumption DEF Data
  <2>2. row % SqnMod \in 0..(SqnMod - 1)
    BY <2>1
  <2> QED  BY <1>4, <2>2
<1>6. VectorSqn(p) = m_sec[p]
  <2>1. in[p].kind # "resync"
    BY Typed DEF Data, Inputs, OneSeries
  <2> QED  BY <2>1 DEF VectorSqn
<1>7. \A i \in 1..Len(used) : used[i] # p
  BY <1>1, <1>2 DEF UsedOnce
<1>8. used \in Seq(Procs)
  BY Typed DEF Data
<1>9. ASSUME NEW i \in 1..Len(used)
      PROVE  Step32(m_sec[p] - m_sec[used[i]], Len(used) + 1 - i)
  <2>1. PICK n \in Nat \ {0} : n = Len(used) /\ used # <<>>
    BY <1>8, <1>9
  <2>2. PICK l \in Procs : l = used[n]
    BY <1>8, <2>1
  <2>3. l # p
    BY <1>7, <2>1, <2>2
  <2>4. cb[l]["UPD"] # "db"
    <3>1. ASSUME cb[l]["UPD"] = "db"  PROVE FALSE
      <4>1. "UPD" \in DbOps
        BY DEF DbOps
      <4>2. life[l] = "active"
        BY <3>1, <4>1, OutActive
      <4>3. l \in Holding /\ p \in Holding
        BY <1>2, <4>2 DEF Holding
      <4> QED  BY <1>1, <2>3, <4>3 DEF Single
    <3> QED  BY <3>1
  <2>5. row = m_sec[l] + 32
    BY <1>1, <2>1, <2>2, <2>4 DEF RowAhead
  <2>6. /\ m_sec[l] \in 0..(SqnMod - 1) /\ m_sec[used[i]] \in 0..(SqnMod - 1)
        /\ Step32(m_sec[l] - m_sec[used[i]], n - i)
    BY <1>1, <1>9, <2>1, <2>2 DEF InSteps
  <2>7. n - i \in Nat /\ 32 * ((n - i) + 1) <= SqnMod
    <3>1. n <= Cardinality(Procs) /\ Cardinality(Procs) \in Nat
      BY <1>1, <1>8, <2>1, NoMoreThanProcs DEF UsedOnce
    <3>2. i \in Nat /\ 1 <= i /\ i <= n
      BY <2>1, <1>9
    <3> QED  BY <3>1, <3>2, AIRAssumption DEF OneSeries
  <2>8. Step32(((m_sec[l] + 32) % SqnMod) - m_sec[used[i]], (n - i) + 1)
    BY <2>6, <2>7, OneStepOn
  <2>9. (n - i) + 1 = Len(used) + 1 - i
    BY <2>1, <1>9
  <2> QED  BY <1>4, <2>5, <2>8, <2>9
<1> QED  BY <1>5, <1>6, <1>7, <1>9

LEMMA Phase2Series ==
  ASSUME IInv, Series, OneSeries, NEW w \in Workers, Phase2(w)
  PROVE  Series'
<1>1. PICK p \in Procs : p = cur[w]
  BY RunningFacts DEF Phase2, Running
<1>2. /\ m_nextphase[p] = "AIR2" /\ "SEC" \in m_dbexecuted[p]
      /\ UNCHANGED <<life, m_dbresult, row>>
  BY <1>1 DEF Phase2, Running, PhaseReady
<1>3. cb[p]["SEC"] \in {"tail", "over"} /\ cb[p]["UPD"] = "none"
  BY <1>2, PhaseFacts DEF PhaseFits
<1>4. CASE "SEC" \notin m_dbresult[p]
  <2>1. Goto(p, "AIRFINAL") /\ UNCHANGED <<cb, m_sec, used, serial>>
    BY <1>1, <1>4 DEF Phase2
  <2>2. m_nextphase'[p] = "AIRFINAL" /\ \A q \in Procs \ {p} : m_nextphase'[q] = m_nextphase[q]
    BY <2>1, Typed DEF Goto, Data
  <2> QED  BY <1>2, <1>3, <2>1, <2>2, OneRequest DEF NotUsed
<1>5. CASE "SEC" \in m_dbresult[p]
  <2> SUFFICES ASSUME serial'  PROVE Series'
    BY DEF Series
  <2>1. /\ m_sec' = [m_sec EXCEPT ![p] = VectorSqn(p)] /\ used' = Append(used, p)
        /\ Issue(p, "UPD") /\ Goto(p, "AIR3") /\ serial
    BY <1>1, <1>5, Zenon DEF Phase2
  <2>2. Single /\ UsedOnce /\ InSteps /\ RowAhead /\ HasRead
    BY <2>1 DEF Series
  <2>3. /\ \A i \in 1..Len(used) : used[i] # p
        /\ m_sec[p] \in 0..(SqnMod - 1) /\ VectorSqn(p) = m_sec[p]
        /\ \A i \in 1..Len(used) : Step32(m_sec[p] - m_sec[used[i]], Len(used) + 1 - i)
    BY <1>1, <1>5, <2>1, HandsOutNext
  <2>4. m_sec' = m_sec
    BY <2>1, <2>3, Typed DEF Data
  <2>5. m_nextphase'[p] = "AIR3" /\ \A q \in Procs \ {p} : m_nextphase'[q] = m_nextphase[q]
    BY <2>1, Typed DEF Goto, Data
  <2>6. \A q \in Procs : /\ cb'[q]["SEC"] = cb[q]["SEC"]
                           /\ cb'[q]["UPD"] = IF q = p THEN "db" ELSE cb[q]["UPD"]
    BY <2>1, Typed DEF Issue, Data, DbOps
  <2>7. used \in Seq(Procs) /\ Len(used) \in Nat
    BY Typed DEF Data
  <2>8. /\ used' \in Seq(Procs) /\ Len(used') = Len(used) + 1 /\ used' # <<>>
        /\ used'[Len(used')] = p
        /\ \A i \in 1..Len(used) : used'[i] = used[i] /\ used[i] \in Procs
        /\ \A i \in 1..Len(used') : i \in 1..Len(used) \/ (i = Len(used) + 1 /\ used'[i] = p)
    BY <2>1, <2>7, UsedMore
  <2>9. Single'
    BY <1>2, <2>2 DEF Single, Holding
  <2>10. UsedOnce'
    <3>1. ASSUME NEW i \in 1..Len(used'), NEW j \in 1..Len(used'), used'[i] = used'[j]
          PROVE  i = j
      <4>1. CASE i \in 1..Len(used) /\ j \in 1..Len(used)
        <5>1. used[i] = used[j]
          BY <2>8, <3>1, <4>1
        <5> QED  BY <2>2, <4>1, <5>1 DEF UsedOnce
      <4>2. CASE i \in 1..Len(used) /\ j = Len(used) + 1 /\ used'[j] = p
        BY <2>3, <2>8, <3>1, <4>2
      <4>3. CASE j \in 1..Len(used) /\ i = Len(used) + 1 /\ used'[i] = p
        BY <2>3, <2>8, <3>1, <4>3
      <4> QED  BY <2>8, <4>1, <4>2, <4>3
    <3>2. ASSUME NEW i \in 1..Len(used')
          PROVE  m_nextphase'[used'[i]] \in {"AIR3", "AIRFINAL"}
      <4>1. CASE i \in 1..Len(used)
        <5>1. used'[i] = used[i] /\ used[i] \in Procs \ {p}
          BY <2>3, <2>8, <4>1
        <5> QED  BY <2>2, <2>5, <4>1, <5>1 DEF UsedOnce
      <4>2. CASE used'[i] = p
        BY <2>5, <4>2
      <4> QED  BY <2>8, <4>1, <4>2
    <3> QED  BY <3>1, <3>2 DEF UsedOnce
  <2>11. InSteps'
    <3>1. \A i \in 1..Len(used') : m_sec[used'[i]] \in 0..(SqnMod - 1)
      BY <2>2, <2>3, <2>8 DEF InSteps
    <3>2. ASSUME NEW i \in 1..Len(used'), NEW j \in 1..Len(used'), i <= j
          PROVE  Step32(m_sec[used'[j]] - m_sec[used'[i]], j - i)
      <4>1. CASE j \in 1..Len(used)
        <5>1. i \in 1..Len(used)
          BY <2>7, <3>2, <4>1
        <5> QED  BY <2>2, <2>8, <3>2, <4>1, <5>1 DEF InSteps
      <4>2. CASE j = Len(used) + 1 /\ i \in 1..Len(used)
        BY <2>3, <2>7, <2>8, <4>2
      <4>3. CASE j = Len(used) + 1 /\ i = Len(used) + 1
        <5>1. j - i = 0 /\ m_sec[used'[j]] - m_sec[used'[i]] = 0
          BY <2>3, <2>7, <2>8, <4>3
        <5> QED  BY <5>1 DEF Step32
      <4> QED  BY <2>8, <4>1, <4>2, <4>3
    <3> QED  BY <2>4, <3>1, <3>2 DEF InSteps
  <2>12. RowAhead'
    <3>1. \A q \in Procs : cb[q]["UPD"] # "db"
      <4>1. ASSUME NEW q \in Procs, cb[q]["UPD"] = "db"  PROVE FALSE
        <5>1. "UPD" \in DbOps
          BY DEF DbOps
        <5>2. q \in Holding /\ p \in Holding
          BY <1>2, <4>1, <5>1, OutActive, ReadingActive DEF Holding
        <5>3. p = q
          BY <2>2, <5>2 DEF Single
        <5> QED  BY <1>3, <4>1, <5>3
      <4> QED  BY <4>1
    <3> QED  BY <2>6, <2>8, <3>1 DEF RowAhead
  <2>13. HasRead'
    BY <1>2, <1>3, <2>2, <2>4, <2>5, <2>6 DEF HasRead
  <2> QED  BY <2>9, <2>10, <2>11, <2>12, <2>13 DEF Series
<1> QED  BY <1>4, <1>5

(* Sequence numbers handed out one request after the other, with their      *)
(* writes landing, are fresh: no vector repeats a number, though each       *)
(* answer leaves before its number is written and the numbers wrap.         *)
THEOREM FreshSqnHolds == OneSeries => (Spec => []FreshSqn)
<1> SUFFICES ASSUME OneSeries  PROVE Spec => []FreshSqn
  OBVIOUS
<1>1. Init => Series
  <2> SUFFICES ASSUME Init  PROVE Series
    OBVIOUS
  <2>1. used = <<>> /\ 1..Len(used) = {}
    BY DEF Init
  <2>2. Single /\ UsedOnce /\ InSteps
    BY <2>1 DEF Init, Single, Holding, UsedOnce, InSteps
  <2>3. RowAhead /\ HasRead
    BY <2>1 DEF Init, RowAhead, HasRead, DbOps
  <2> QED  BY <2>2, <2>3 DEF Series
<1>2. IInv /\ Series /\ [Next]_vars => Series'
  BY ShelfSeries, StartSeries, EndSeries, Phase1Series, Phase2Series, Phase3Series,
     GetImsiSecSeries, UpdateImsiSeries, CallbackEndSeries
  DEF Next, StartStep, WorkerStep, DriverStep
<1>3. IInv /\ Series => FreshSqn
  <2> SUFFICES ASSUME IInv, Series, serial, NEW i \in 1..Len(used), NEW j \in 1..Len(used), i < j
               PROVE  (m_sec[used[j]] - m_sec[used[i]]) % SqnMod \in 32..(SqnMod - 32)
    BY DEF FreshSqn
  <2>1. used \in Seq(Procs) /\ UsedOnce /\ InSteps /\ Len(used) \in Nat
    BY Typed DEF Series, Data
  <2>2. Len(used) <= Cardinality(Procs) /\ Cardinality(Procs) \in Nat
    BY <2>1, NoMoreThanProcs DEF UsedOnce
  <2>3. PICK k \in Nat \ {0} : k = j - i /\ k + 1 <= Cardinality(Procs)
    BY <2>1, <2>2
  <2>4. PICK d \in Int : d = m_sec[used[j]] - m_sec[used[i]] /\ Step32(d, k)
    <3>1. m_sec[used[j]] \in 0..(SqnMod - 1) /\ m_sec[used[i]] \in 0..(SqnMod - 1)
      BY <2>1 DEF InSteps
    <3>2. m_sec[used[j]] - m_sec[used[i]] \in Int
      BY <3>1, AIRAssumption
    <3>3. Step32(m_sec[used[j]] - m_sec[used[i]], k)
      BY <2>1, <2>3 DEF InSteps
    <3> QED  BY <3>2, <3>3
  <2>5. 32 <= 32 * k /\ 32 * k <= SqnMod - 32 /\ SqnMod \in Nat \ {0}
    BY <2>2, <2>3, AIRAssumption DEF OneSeries
  <2>6. d % SqnMod = 32 * k
    <3>1. CASE d = 32 * k
      <4>1. 0 <= d /\ d < SqnMod
        BY <2>5, <3>1
      <4>2. d % SqnMod = d
        BY <2>5, <4>1, ModValue
      <4> QED  BY <3>1, <4>2
    <3>2. CASE d = 32 * k - SqnMod
      <4>1. 0 - SqnMod <= d /\ d < 0
        BY <2>5, <3>2
      <4>2. d % SqnMod = d + SqnMod
        BY <2>5, <4>1, ModValue
      <4> QED  BY <2>5, <3>2, <4>2
    <3> QED  BY <2>4, <3>1, <3>2 DEF Step32
  <2> QED  BY <2>4, <2>5, <2>6
<1> QED  BY <1>1, <1>2, <1>3, Invariance, PTL DEF Spec
=============================================================================
