------------------------ MODULE HSSWorkerQueue_proofs ------------------------
(***************************************************************************)
(* Proofs about HSSWorkerQueue, for any number of requests, dispatch       *)
(* threads and workers, and any two limits: the slots are accounted for,   *)
(* no start is lost and nothing refers to a deleted processor.             *)
(***************************************************************************)
EXTENDS HSSWorkerQueue, FiniteSetTheorems, TLAPS

(* m_queue holds queued processors, each once.                             *)
QueueOK ==
    \A i \in 1..Len(m_queue) :
        /\ life[m_queue[i]] = "queued"
        /\ \A j \in 1..Len(m_queue) : m_queue[i] = m_queue[j] => i = j

(* What a thread holds fits what it is about to do.                        *)
ThreadOK ==
    /\ \A t \in FDThreads : pc[t] \in {"idle", "start", "trigger"}
    /\ \A t \in Threads :
        /\ pc[t] \in {"trigger", "run"} =>
               cur[t] \in Procs /\ life[cur[t]] = "active"
        /\ pc[t] = "finish" => cur[t] \in Procs /\ life[cur[t]] = "deleted"

(* A processor about to be triggered for the first time is nobody else's.  *)
TriggerOK ==
    \A t \in Threads : pc[t] = "trigger" =>
        /\ inflight[cur[t]] = 0
        /\ \A i \in 1..Len(work) : work[i] # cur[t]
        /\ \A u \in Threads :
               pc[u] \in {"trigger", "run"} /\ cur[u] = cur[t] => u = t

(* Two workers never release the slot of one processor.                    *)
FinishOK ==
    \A t, u \in Threads :
        pc[t] = "finish" /\ pc[u] = "finish" /\ cur[t] = cur[u] => t = u

(* Only an active processor has queries or worker messages.                *)
Quiet ==
    \A p \in Procs : life[p] # "active" =>
        /\ inflight[p] = 0
        /\ \A i \in 1..Len(work) : work[i] # p

PendingOK == m_pending = Len(m_queue)

Ownership == PendingOK /\ QueueOK /\ ThreadOK /\ TriggerOK /\ FinishOK /\ Quiet

-----------------------------------------------------------------------------
(* The processor startMessage takes: the oldest one, and the queue it      *)
(* leaves behind.                                                          *)
LEMMA StartFacts ==
  ASSUME TypeOK, PendingOK, NEW t \in Threads, StartMessage(t),
         SlotFree, m_pending > 0
  PROVE  /\ m_queue # <<>> /\ Len(m_queue) \in Nat \ {0}
         /\ m_queue[1] \in Procs
         /\ m_queue' \in Seq(Procs) /\ Len(m_queue') = Len(m_queue) - 1
         /\ \A i \in 1..Len(m_queue') : m_queue'[i] = m_queue[i + 1]
         /\ m_pending' = m_pending - 1
         /\ m_active' = m_active + 1
         /\ life' = [life EXCEPT ![m_queue[1]] = "active"]
         /\ cur' = [cur EXCEPT ![t] = m_queue[1]]
         /\ pc' = [pc EXCEPT ![t] = "trigger"]
         /\ UNCHANGED <<m_concurrent, work, inflight, left>>
<1>1. m_queue \in Seq(Procs) /\ m_queue # <<>>
  BY DEF TypeOK, PendingOK
<1>2. Head(m_queue) = m_queue[1] /\ m_queue' = Tail(m_queue)
  BY <1>1 DEF StartMessage
<1>3. QED
  BY <1>1, <1>2 DEF StartMessage

(* A startMessage that finds no slot or no processor changes only its       *)
(* thread.                                                                  *)
LEMMA StopFacts ==
  ASSUME NEW t \in Threads, StartMessage(t), ~(SlotFree /\ m_pending > 0)
  PROVE  /\ pc' = [pc EXCEPT ![t] = "idle"]
         /\ UNCHANGED <<m_queue, m_pending, m_active, m_concurrent, work, cur,
                        life, inflight, left>>
  BY DEF StartMessage

(* Every step of every thread keeps the types.                              *)
LEMMA TypeNext == TypeOK /\ Ownership /\ [Next]_vars => TypeOK'
<1> SUFFICES ASSUME TypeOK, Ownership, [Next]_vars PROVE TypeOK'
  OBVIOUS
<1> USE QueueAssumption
<1>1. ASSUME NEW t \in FDThreads, NEW p \in Procs, ReceiveRequest(t, p)
      PROVE  TypeOK'
  BY <1>1 DEF ReceiveRequest, Threads, TypeOK
<1>2. ASSUME NEW t \in Threads, StartMessage(t) PROVE TypeOK'
  <2>1. CASE SlotFree /\ m_pending > 0
    <3>1. PendingOK BY DEF Ownership
    <3>2. /\ m_queue[1] \in Procs /\ m_queue' \in Seq(Procs)
          /\ m_pending' = m_pending - 1
          /\ m_active' = m_active + 1
          /\ life' = [life EXCEPT ![m_queue[1]] = "active"]
          /\ cur' = [cur EXCEPT ![t] = m_queue[1]]
          /\ pc' = [pc EXCEPT ![t] = "trigger"]
          /\ UNCHANGED <<m_concurrent, work, inflight, left>>
      BY <1>2, <2>1, <3>1, StartFacts
    <3>3. m_pending' \in Nat /\ m_active' \in Int
      BY <2>1, <3>2 DEF TypeOK
    <3>4. /\ pc' \in [Threads -> {"idle", "start", "trigger", "run", "finish"}]
          /\ cur' \in [Threads -> Procs \cup {NoProc}]
          /\ life' \in [Procs -> {"new", "queued", "active", "deleted", "gone"}]
      BY <3>2 DEF TypeOK
    <3>5. QED BY <3>2, <3>3, <3>4 DEF TypeOK
  <2>2. CASE ~(SlotFree /\ m_pending > 0)
    BY <1>2, <2>2, StopFacts DEF TypeOK
  <2>3. QED BY <2>1, <2>2
<1>3. ASSUME NEW t \in Threads, TriggerNextPhase(t) PROVE TypeOK'
  <2>1. cur[t] \in Procs
    BY <1>3 DEF TriggerNextPhase, Ownership, ThreadOK
  <2>2. QED BY <1>3, <2>1 DEF TriggerNextPhase, qvars, TypeOK
<1>4. ASSUME NEW w \in Workers, GetWork(w) PROVE TypeOK'
  <2>1. Head(work) \in Procs /\ Tail(work) \in Seq(Procs)
    BY <1>4 DEF GetWork, TypeOK
  <2>2. QED BY <1>4, <2>1 DEF GetWork, qvars, TypeOK, Threads
<1>5. ASSUME NEW w \in Workers, NEW n \in 0..MaxQueries, ProcessNextPhase(w, n)
      PROVE  TypeOK'
  <2>1. cur[w] \in Procs /\ w \in Threads
    BY <1>5 DEF ProcessNextPhase, Ownership, ThreadOK, Threads
  <2>2. /\ n <= left[cur[w]]
        /\ left' = [left EXCEPT ![cur[w]] = left[cur[w]] - n]
        /\ inflight' = [inflight EXCEPT ![cur[w]] = inflight[cur[w]] + n]
        /\ UNCHANGED <<qvars, work>>
    BY <1>5 DEF ProcessNextPhase
  <2>3. left' \in [Procs -> 0..MaxQueries] /\ inflight' \in [Procs -> Nat]
    BY <2>1, <2>2 DEF TypeOK
  <2>4. /\ pc' \in [Threads -> {"idle", "start", "trigger", "run", "finish"}]
        /\ cur' \in [Threads -> Procs \cup {NoProc}]
        /\ life' \in [Procs -> {"new", "queued", "active", "deleted", "gone"}]
    BY <1>5, <2>1 DEF ProcessNextPhase, TypeOK
  <2>5. QED BY <2>2, <2>3, <2>4 DEF TypeOK, qvars
<1>6. ASSUME NEW w \in Workers, FinishMessage(w) PROVE TypeOK'
  <2>1. w \in Threads BY DEF Threads
  <2>2. /\ m_active' = m_active - 1
        /\ life' = [life EXCEPT ![cur[w]] = "gone"]
        /\ pc' = [pc EXCEPT ![w] = "start"]
        /\ cur' = [cur EXCEPT ![w] = NoProc]
        /\ UNCHANGED <<m_queue, m_pending, m_concurrent, work, inflight, left>>
    BY <1>6 DEF FinishMessage, SlotsLeft, AfterFinish
  <2>3. m_active' \in Int BY <2>2 DEF TypeOK
  <2>4. /\ pc' \in [Threads -> {"idle", "start", "trigger", "run", "finish"}]
        /\ cur' \in [Threads -> Procs \cup {NoProc}]
        /\ life' \in [Procs -> {"new", "queued", "active", "deleted", "gone"}]
    BY <2>1, <2>2 DEF TypeOK
  <2>5. QED BY <2>2, <2>3, <2>4 DEF TypeOK
<1>7. ASSUME NEW p \in Procs, Callback(p) PROVE TypeOK'
  BY <1>7 DEF Callback, QueryDone, qvars, TypeOK
<1>8. CASE SetConcurrent
  BY <1>8 DEF SetConcurrent, TypeOK
<1>9. CASE UNCHANGED vars
  BY <1>9 DEF vars, TypeOK
<1>10. QED
  BY <1>1, <1>2, <1>3, <1>4, <1>5, <1>6, <1>7, <1>8, <1>9 DEF Next

-----------------------------------------------------------------------------
(* At the start nobody holds a processor.                                   *)
LEMMA OwnershipInit == Init => Ownership
  BY QueueAssumption DEF Init, Ownership, PendingOK, QueueOK, ThreadOK,
     TriggerOK, FinishOK, Quiet, Threads

(* A step keeps every processor's owner unambiguous.                       *)
LEMMA OwnershipNext == TypeOK /\ TypeOK' /\ Ownership /\ [Next]_vars => Ownership'
<1> SUFFICES ASSUME TypeOK, TypeOK', Ownership, [Next]_vars PROVE Ownership'
  OBVIOUS
<1> USE QueueAssumption
<1>1. ASSUME NEW t \in FDThreads, NEW p \in Procs, ReceiveRequest(t, p)
      PROVE  Ownership'
  <2> USE <1>1 DEF ReceiveRequest
  <2>1. PendingOK' BY DEF TypeOK, Ownership, PendingOK
  <2>2. QueueOK' BY DEF TypeOK, Ownership, QueueOK
  <2>3. ThreadOK' BY DEF TypeOK, Ownership, ThreadOK, Threads
  <2>4. TriggerOK' BY DEF TypeOK, Ownership, TriggerOK, Threads
  <2>5. FinishOK' BY DEF TypeOK, Ownership, FinishOK, Threads
  <2>6. Quiet' BY DEF TypeOK, Ownership, Quiet
  <2>7. QED BY <2>1, <2>2, <2>3, <2>4, <2>5, <2>6 DEF Ownership
<1>2. ASSUME NEW t \in Threads, StartMessage(t), SlotFree /\ m_pending > 0
      PROVE  Ownership'
  <2>1. /\ m_queue # <<>> /\ Len(m_queue) \in Nat \ {0}
        /\ m_queue[1] \in Procs
        /\ m_queue' \in Seq(Procs) /\ Len(m_queue') = Len(m_queue) - 1
        /\ \A i \in 1..Len(m_queue') : m_queue'[i] = m_queue[i + 1]
        /\ m_pending' = m_pending - 1
        /\ life' = [life EXCEPT ![m_queue[1]] = "active"]
        /\ cur' = [cur EXCEPT ![t] = m_queue[1]]
        /\ pc' = [pc EXCEPT ![t] = "trigger"]
        /\ UNCHANGED <<m_concurrent, work, inflight, left>>
    BY <1>2, StartFacts DEF Ownership
  <2>2. life[m_queue[1]] = "queued"
    BY <2>1 DEF Ownership, QueueOK
  <2>3. PendingOK' BY <2>1 DEF TypeOK, Ownership, PendingOK
  <2>4. QueueOK'
    <3> SUFFICES ASSUME NEW i \in 1..Len(m_queue'), NEW j \in 1..Len(m_queue')
                 PROVE  /\ life'[m_queue'[i]] = "queued"
                        /\ m_queue'[i] = m_queue'[j] => i = j
      BY DEF QueueOK
    <3>1. Len(m_queue) \in Nat /\ Len(m_queue') = Len(m_queue) - 1
      BY <2>1
    <3>2. /\ i + 1 \in 1..Len(m_queue) /\ i + 1 # 1
          /\ j + 1 \in 1..Len(m_queue) /\ 1 \in 1..Len(m_queue)
      BY <3>1
    <3>3. m_queue'[i] = m_queue[i + 1] /\ m_queue'[j] = m_queue[j + 1]
      BY <2>1
    <3>4. m_queue[i + 1] \in Procs /\ m_queue[i + 1] # m_queue[1]
      BY <3>2 DEF TypeOK, Ownership, QueueOK
    <3>5. life'[m_queue[i + 1]] = life[m_queue[i + 1]]
      BY <2>1, <3>4 DEF TypeOK
    <3>6. m_queue[i + 1] = m_queue[j + 1] => i + 1 = j + 1
      BY <3>2 DEF Ownership, QueueOK
    <3>7. life[m_queue[i + 1]] = "queued"
      BY <3>2 DEF Ownership, QueueOK
    <3>8. QED BY <3>3, <3>5, <3>6, <3>7
  <2>5. ThreadOK' BY <2>1, <2>2 DEF TypeOK, Ownership, ThreadOK, Threads
  <2>6. TriggerOK'
    <3>1. /\ inflight[m_queue[1]] = 0
          /\ \A i \in 1..Len(work) : work[i] # m_queue[1]
      BY <2>1, <2>2 DEF Ownership, Quiet
    <3>2. \A u \in Threads : pc[u] \in {"trigger", "run"} => cur[u] # m_queue[1]
      BY <2>2 DEF Ownership, ThreadOK
    <3>3. /\ pc'[t] = "trigger" /\ cur'[t] = m_queue[1]
          /\ \A u \in Threads \ {t} : pc'[u] = pc[u] /\ cur'[u] = cur[u]
          /\ UNCHANGED <<work, inflight>>
      BY <2>1 DEF TypeOK
    <3>4. TriggerOK BY DEF Ownership
    <3>5. SUFFICES ASSUME NEW x \in Threads, pc'[x] = "trigger"
                   PROVE  /\ inflight'[cur'[x]] = 0
                          /\ \A i \in 1..Len(work') : work'[i] # cur'[x]
                          /\ \A u \in Threads :
                                pc'[u] \in {"trigger", "run"} /\ cur'[u] = cur'[x] => u = x
      BY DEF TriggerOK
    <3>6. CASE x = t BY <3>1, <3>2, <3>3, <3>6
    <3>7. CASE x # t
      <4>1. pc[x] = "trigger" /\ cur'[x] = cur[x] /\ cur[x] # m_queue[1]
        BY <3>2, <3>3, <3>5, <3>7
      <4>2. QED BY <3>3, <3>4, <4>1 DEF TriggerOK
    <3>8. QED BY <3>6, <3>7
  <2>7. FinishOK' BY <2>1 DEF TypeOK, Ownership, FinishOK
  <2>8. Quiet' BY <2>1 DEF TypeOK, Ownership, Quiet
  <2>9. QED BY <2>3, <2>4, <2>5, <2>6, <2>7, <2>8 DEF Ownership
<1>3. ASSUME NEW t \in Threads, StartMessage(t), ~(SlotFree /\ m_pending > 0)
      PROVE  Ownership'
  <2>1. /\ pc' = [pc EXCEPT ![t] = "idle"]
        /\ UNCHANGED <<m_queue, m_pending, work, cur, life, inflight>>
    BY <1>3, StopFacts
  <2>2. PendingOK' /\ QueueOK' /\ Quiet'
    BY <2>1 DEF Ownership, PendingOK, QueueOK, Quiet
  <2>3. ThreadOK' BY <2>1 DEF TypeOK, Ownership, ThreadOK, Threads
  <2>4. TriggerOK' BY <2>1 DEF TypeOK, Ownership, TriggerOK
  <2>5. FinishOK' BY <2>1 DEF TypeOK, Ownership, FinishOK
  <2>6. QED BY <2>2, <2>3, <2>4, <2>5 DEF Ownership
<1>4. ASSUME NEW t \in Threads, TriggerNextPhase(t) PROVE Ownership'
  <2> USE <1>4 DEF TriggerNextPhase, qvars
  <2>1. cur[t] \in Procs /\ life[cur[t]] = "active"
    BY DEF Ownership, ThreadOK
  <2>2. /\ work' \in Seq(Procs) /\ Len(work') = Len(work) + 1
        /\ \A i \in 1..Len(work') : \/ i \in 1..Len(work) /\ work'[i] = work[i]
                                    \/ work'[i] = cur[t]
    BY <2>1 DEF TypeOK
  <2>3. PendingOK' /\ QueueOK' BY DEF Ownership, PendingOK, QueueOK
  <2>4. ThreadOK' BY DEF TypeOK, Ownership, ThreadOK, Threads
  <2>5. TriggerOK' BY <2>1, <2>2 DEF TypeOK, Ownership, TriggerOK
  <2>6. FinishOK' BY DEF TypeOK, Ownership, FinishOK
  <2>7. Quiet'
    <3>1. Quiet /\ life' = life /\ inflight' = inflight BY DEF Ownership
    <3>2. QED BY <2>1, <2>2, <3>1, Zenon DEF Quiet
  <2>8. QED BY <2>3, <2>4, <2>5, <2>6, <2>7 DEF Ownership
<1>5. ASSUME NEW w \in Workers, GetWork(w) PROVE Ownership'
  <2> USE <1>5 DEF GetWork, qvars
  <2>1. w \in Threads /\ w \notin FDThreads BY DEF Threads
  <2>2. /\ Head(work) = work[1] /\ work[1] \in Procs /\ 1 \in 1..Len(work)
        /\ \A i \in 1..Len(work') : i + 1 \in 1..Len(work) /\ work'[i] = work[i + 1]
    BY DEF TypeOK
  <2>3. life[work[1]] = "active"
    BY <2>2 DEF Ownership, Quiet
  <2>4. PendingOK' /\ QueueOK' BY DEF Ownership, PendingOK, QueueOK
  <2>5. ThreadOK' BY <2>1, <2>2, <2>3 DEF TypeOK, Ownership, ThreadOK
  <2>6. TriggerOK' BY <2>1, <2>2 DEF TypeOK, Ownership, TriggerOK
  <2>7. FinishOK' BY <2>1 DEF TypeOK, Ownership, FinishOK
  <2>8. Quiet' BY <2>2 DEF TypeOK, Ownership, Quiet
  <2>9. QED BY <2>4, <2>5, <2>6, <2>7, <2>8 DEF Ownership
<1>6. ASSUME NEW w \in Workers, NEW n \in 0..MaxQueries, ProcessNextPhase(w, n),
             life' # life
      PROVE  Ownership'
  <2>1. w \in Threads /\ w \notin FDThreads /\ pc[w] = "run"
    BY <1>6 DEF Threads, ProcessNextPhase
  <2>2. cur[w] \in Procs /\ life[cur[w]] = "active"
    BY <2>1 DEF Ownership, ThreadOK
  <2>3. /\ inflight' = [inflight EXCEPT ![cur[w]] = inflight[cur[w]] + n]
        /\ life' = [life EXCEPT ![cur[w]] = "deleted"]
        /\ pc' = [pc EXCEPT ![w] = "finish"]
        /\ UNCHANGED <<qvars, work, cur>>
    BY <1>6 DEF ProcessNextPhase
  <2>4. FinalReady(cur[w], w, n)
    BY <1>6 DEF ProcessNextPhase
  <2>5. /\ inflight[cur[w]] + n = 0
        /\ \A i \in 1..Len(work) : work[i] # cur[w]
        /\ \A v \in Workers \ {w} : pc[v] = "run" => cur[v] # cur[w]
    BY <2>4 DEF FinalReady, OtherMessage
  <2>6. \A t \in Threads \ {w} :
            pc[t] \in {"trigger", "run"} => cur[t] # cur[w]
    BY <2>1, <2>5 DEF Ownership, ThreadOK, TriggerOK, Threads
  <2>7. PendingOK' BY <2>3 DEF Ownership, PendingOK, qvars
  <2>8. QueueOK'
    <3>1. QueueOK /\ m_queue' = m_queue BY <2>3 DEF Ownership, qvars
    <3>2. ASSUME NEW i \in 1..Len(m_queue)
          PROVE  m_queue[i] \in Procs /\ m_queue[i] # cur[w]
      <4>1. m_queue[i] \in Procs BY DEF TypeOK
      <4>2. life[m_queue[i]] = "queued" BY <3>1 DEF QueueOK
      <4>3. QED BY <2>2, <4>1, <4>2
    <3>3. \A p \in Procs : p # cur[w] => life'[p] = life[p]
      BY <2>3 DEF TypeOK
    <3>4. QED BY <3>1, <3>2, <3>3 DEF QueueOK
  <2>9. ThreadOK' BY <2>1, <2>2, <2>3, <2>6 DEF TypeOK, Ownership, ThreadOK
  <2>10. TriggerOK' BY <2>1, <2>2, <2>3, <2>6 DEF TypeOK, Ownership, ThreadOK, TriggerOK
  <2>11. FinishOK' BY <2>1, <2>2, <2>3 DEF TypeOK, Ownership, FinishOK, ThreadOK
  <2>12. Quiet' BY <2>2, <2>3, <2>5 DEF TypeOK, Ownership, Quiet
  <2>13. QED BY <2>7, <2>8, <2>9, <2>10, <2>11, <2>12 DEF Ownership
<1>7. ASSUME NEW w \in Workers, NEW n \in 0..MaxQueries, ProcessNextPhase(w, n),
             life' = life
      PROVE  Ownership'
  <2>1. w \in Threads /\ w \notin FDThreads /\ pc[w] = "run"
    BY <1>7 DEF Threads, ProcessNextPhase
  <2>2. cur[w] \in Procs /\ life[cur[w]] = "active"
    BY <2>1 DEF Ownership, ThreadOK
  <2>3. /\ inflight' = [inflight EXCEPT ![cur[w]] = inflight[cur[w]] + n]
        /\ pc' = [pc EXCEPT ![w] = "idle"]
        /\ cur' = [cur EXCEPT ![w] = NoProc]
        /\ UNCHANGED <<qvars, work, life>>
    <3>1. life # [life EXCEPT ![cur[w]] = "deleted"]
      BY <2>2 DEF TypeOK
    <3>2. QED BY <1>7, <3>1 DEF ProcessNextPhase
  <2>4. PendingOK' /\ QueueOK' BY <2>3 DEF Ownership, PendingOK, QueueOK, qvars
  <2>5. ThreadOK' BY <2>1, <2>3 DEF TypeOK, Ownership, ThreadOK
  <2>6. TriggerOK'
    <3>1. \A t \in Threads : pc[t] = "trigger" => cur[t] # cur[w] /\ cur[t] \in Procs
      BY <2>1 DEF Ownership, ThreadOK, TriggerOK
    <3>2. /\ pc'[w] = "idle"
          /\ \A u \in Threads \ {w} : pc'[u] = pc[u] /\ cur'[u] = cur[u]
          /\ \A p \in Procs : p # cur[w] => inflight'[p] = inflight[p]
          /\ UNCHANGED work
      BY <2>1, <2>3 DEF TypeOK
    <3>3. TriggerOK BY DEF Ownership
    <3>4. QED BY <3>1, <3>2, <3>3 DEF TriggerOK
  <2>7. FinishOK' BY <2>1, <2>3 DEF TypeOK, Ownership, FinishOK
  <2>8. Quiet' BY <2>2, <2>3 DEF TypeOK, Ownership, Quiet
  <2>9. QED BY <2>4, <2>5, <2>6, <2>7, <2>8 DEF Ownership
<1>8. ASSUME NEW w \in Workers, FinishMessage(w) PROVE Ownership'
  <2>1. w \in Threads /\ w \notin FDThreads /\ pc[w] = "finish"
    BY <1>8 DEF Threads, FinishMessage
  <2>2. cur[w] \in Procs /\ life[cur[w]] = "deleted"
    BY <2>1 DEF Ownership, ThreadOK
  <2>3. /\ life' = [life EXCEPT ![cur[w]] = "gone"]
        /\ pc' = [pc EXCEPT ![w] = "start"]
        /\ cur' = [cur EXCEPT ![w] = NoProc]
        /\ UNCHANGED <<m_queue, m_pending, m_concurrent, work, inflight, left>>
    BY <1>8 DEF FinishMessage, AfterFinish
  <2>4. PendingOK' BY <2>3 DEF Ownership, PendingOK
  <2>5. QueueOK' BY <2>2, <2>3 DEF TypeOK, Ownership, QueueOK
  <2>6. ThreadOK' BY <2>1, <2>2, <2>3 DEF TypeOK, Ownership, ThreadOK, FinishOK
  <2>7. TriggerOK' BY <2>1, <2>3 DEF TypeOK, Ownership, TriggerOK
  <2>8. FinishOK' BY <2>1, <2>3 DEF TypeOK, Ownership, FinishOK
  <2>9. Quiet' BY <2>2, <2>3 DEF TypeOK, Ownership, Quiet
  <2>10. QED BY <2>4, <2>5, <2>6, <2>7, <2>8, <2>9 DEF Ownership
<1>9. ASSUME NEW p \in Procs, Callback(p) PROVE Ownership'
  <2> USE <1>9 DEF Callback, QueryDone, qvars
  <2>1. inflight[p] # 0 /\ life[p] = "active"
    BY DEF TypeOK, Ownership, Quiet
  <2>2. /\ Len(work') = Len(work) + 1
        /\ \A i \in 1..Len(work') : \/ i \in 1..Len(work) /\ work'[i] = work[i]
                                    \/ work'[i] = p
    BY DEF TypeOK
  <2>3. PendingOK' /\ QueueOK' BY DEF Ownership, PendingOK, QueueOK
  <2>4. ThreadOK' BY DEF Ownership, ThreadOK
  <2>5. TriggerOK' BY <2>1, <2>2 DEF TypeOK, Ownership, ThreadOK, TriggerOK
  <2>6. FinishOK' BY DEF Ownership, FinishOK
  <2>7. Quiet' BY <2>1, <2>2 DEF TypeOK, Ownership, Quiet
  <2>8. QED BY <2>3, <2>4, <2>5, <2>6, <2>7 DEF Ownership
<1>10. CASE SetConcurrent \/ UNCHANGED vars
  BY <1>10 DEF SetConcurrent, vars, Ownership, PendingOK, QueueOK, ThreadOK,
               TriggerOK, FinishOK, Quiet
<1>11. QED
  BY <1>1, <1>2, <1>3, <1>4, <1>5, <1>6, <1>7, <1>8, <1>9, <1>10 DEF Next

(* ConcurrencyLimit as a bound on the counter m_active.                    *)
ActiveBound == m_active <= IF DefaultConcurrent > ConfConcurrent
                           THEN DefaultConcurrent ELSE ConfConcurrent

(* The sets that are counted are finite.                                    *)
LEMMA FiniteParts ==
  IsFiniteSet(Holding) /\ IsFiniteSet(Starters)
<1>1. IsFiniteSet(Threads)
  BY QueueAssumption, FS_Union DEF Threads
<1>2. Holding \subseteq Procs /\ Starters \subseteq Threads
  BY DEF Holding, Starters
<1>3. QED BY <1>1, <1>2, QueueAssumption, FS_Subset

(* How each action moves a processor in or out of the set of slot holders, *)
(* and a thread in or out of the set about to call startMessage.           *)
LEMMA SlotsNext ==
  ASSUME TypeOK, Ownership, TypeOK', m_active = Cardinality(Holding), [Next]_vars
  PROVE  m_active' = Cardinality(Holding')
<1>1. ASSUME NEW t \in FDThreads, NEW p \in Procs, ReceiveRequest(t, p)
      PROVE  Holding' = Holding /\ m_active' = m_active
  BY <1>1 DEF ReceiveRequest, Holding, TypeOK
<1>2. ASSUME NEW t \in Threads, StartMessage(t), SlotFree /\ m_pending > 0
      PROVE  m_active' = Cardinality(Holding')
  <2>1. /\ m_queue[1] \in Procs /\ 1 \in 1..Len(m_queue)
        /\ m_active' = m_active + 1
        /\ life' = [life EXCEPT ![m_queue[1]] = "active"]
    BY <1>2, StartFacts DEF Ownership
  <2>2. life[m_queue[1]] = "queued"
    BY <2>1 DEF Ownership, QueueOK
  <2>3. m_queue[1] \notin Holding /\ Holding' = Holding \cup {m_queue[1]}
    <3>1. life'[m_queue[1]] = "active"
      BY <2>1 DEF TypeOK
    <3>2. \A q \in Procs : q # m_queue[1] => life'[q] = life[q]
      BY <2>1 DEF TypeOK
    <3>3. QED BY <2>1, <2>2, <3>1, <3>2 DEF Holding
  <2>4. Cardinality(Holding') = Cardinality(Holding) + 1
    BY <2>3, FiniteParts, FS_AddElement
  <2>5. QED BY <2>1, <2>4
<1>3. ASSUME NEW t \in Threads, StartMessage(t), ~(SlotFree /\ m_pending > 0)
      PROVE  Holding' = Holding /\ m_active' = m_active
  BY <1>3, StopFacts DEF Holding
<1>4. ASSUME NEW t \in Threads, TriggerNextPhase(t)
      PROVE  Holding' = Holding /\ m_active' = m_active
  BY <1>4 DEF TriggerNextPhase, Holding, qvars
<1>5. ASSUME NEW w \in Workers, GetWork(w)
      PROVE  Holding' = Holding /\ m_active' = m_active
  BY <1>5 DEF GetWork, Holding, qvars
<1>6. ASSUME NEW w \in Workers, NEW n \in 0..MaxQueries, ProcessNextPhase(w, n)
      PROVE  Holding' = Holding /\ m_active' = m_active
  <2>1. w \in Threads /\ pc[w] = "run" BY <1>6 DEF ProcessNextPhase, Threads
  <2>2. cur[w] \in Procs /\ life[cur[w]] = "active"
    BY <2>1 DEF Ownership, ThreadOK
  <2>3. m_active' = m_active BY <1>6 DEF ProcessNextPhase, qvars
  <2>4. life' = life \/ life' = [life EXCEPT ![cur[w]] = "deleted"]
    BY <1>6 DEF ProcessNextPhase
  <2>5. life'[cur[w]] \in {"active", "deleted"}
    BY <2>2, <2>4 DEF TypeOK
  <2>6. \A q \in Procs : q # cur[w] => life'[q] = life[q]
    BY <2>2, <2>4 DEF TypeOK
  <2>7. QED BY <2>2, <2>3, <2>5, <2>6 DEF Holding
<1>7. ASSUME NEW w \in Workers, FinishMessage(w)
      PROVE  m_active' = Cardinality(Holding')
  <2>1. w \in Threads /\ pc[w] = "finish" BY <1>7 DEF FinishMessage, Threads
  <2>2. cur[w] \in Procs /\ life[cur[w]] = "deleted"
    BY <2>1 DEF Ownership, ThreadOK
  <2>3. m_active' = m_active - 1 /\ life' = [life EXCEPT ![cur[w]] = "gone"]
    BY <1>7 DEF FinishMessage, SlotsLeft
  <2>4. cur[w] \in Holding /\ Holding' = Holding \ {cur[w]}
    BY <2>2, <2>3 DEF Holding, TypeOK
  <2>5. Cardinality(Holding') = Cardinality(Holding) - 1
    BY <2>4, FiniteParts, FS_RemoveElement
  <2>6. QED BY <2>3, <2>5
<1>8. ASSUME NEW p \in Procs, Callback(p)
      PROVE  Holding' = Holding /\ m_active' = m_active
  BY <1>8 DEF Callback, Holding, qvars
<1>9. CASE SetConcurrent \/ UNCHANGED vars
  BY <1>9 DEF SetConcurrent, vars, Holding
<1>10. QED
  BY <1>1, <1>2, <1>3, <1>4, <1>5, <1>6, <1>7, <1>8, <1>9 DEF Next

(* No step takes a slot beyond the larger of the two limits: startMessage   *)
(* tests one of them, whichever init has put there.                         *)
LEMMA BoundNext ==
  ASSUME TypeOK, Ownership, ActiveBound, [Next]_vars
  PROVE  ActiveBound'
<1> USE QueueAssumption
<1>1. ASSUME NEW t \in Threads, StartMessage(t) PROVE ActiveBound'
  <2>1. m_active' = m_active \/ (m_active' = m_active + 1 /\ m_active < m_concurrent)
    BY <1>1 DEF StartMessage, SlotFree
  <2>2. m_active \in Int /\ m_concurrent \in {DefaultConcurrent, ConfConcurrent}
    BY DEF TypeOK
  <2>3. QED BY <2>1, <2>2 DEF ActiveBound
<1>2. ASSUME NEW w \in Workers, FinishMessage(w) PROVE ActiveBound'
  <2>1. m_active' = m_active - 1 /\ m_active \in Int
    BY <1>2 DEF FinishMessage, SlotsLeft, TypeOK
  <2>2. QED BY <2>1 DEF ActiveBound
<1>3. ASSUME m_active' = m_active PROVE ActiveBound'
  BY <1>3 DEF ActiveBound
<1>4. QED
  BY <1>1, <1>2, <1>3 DEF Next, ReceiveRequest, TriggerNextPhase, GetWork,
     ProcessNextPhase, Callback, SetConcurrent, vars, qvars

(* Each addEntry and each finishMessage makes a thread that will call       *)
(* startMessage, and each startMessage uses a slot or a request up.         *)
LEMMA StartersNext ==
  ASSUME TypeOK, TypeOK', Ownership, NoLostStart, [Next]_vars
  PROVE  NoLostStart'
<1> DEFINE S == Cardinality(Starters)
<1>1. S \in Nat /\ S' \in Nat
  <2>1. IsFiniteSet(Starters) BY FiniteParts
  <2>2. IsFiniteSet(Threads) BY QueueAssumption, FS_Union DEF Threads
  <2>3. Starters' \subseteq Threads BY DEF Starters
  <2>4. QED BY <2>1, <2>2, <2>3, FS_Subset, FS_CardinalityType
<1>2. /\ m_active \in Int /\ m_pending \in Nat
      /\ m_concurrent \in {DefaultConcurrent, ConfConcurrent}
      /\ DefaultConcurrent \in Nat /\ ConfConcurrent \in Nat
  BY QueueAssumption DEF TypeOK
<1>3. m_pending <= S \/ Limit - m_active <= S
  BY DEF NoLostStart
<1>4. ASSUME m_pending' <= S' \/ Limit' - m_active' <= S' PROVE NoLostStart'
  BY <1>4 DEF NoLostStart
<1>5. ASSUME Starters' = Starters,
             UNCHANGED <<m_active, m_pending, m_concurrent>>
      PROVE  NoLostStart'
  BY <1>5 DEF NoLostStart, Limit
<1>6. ASSUME NEW t \in FDThreads, NEW p \in Procs, ReceiveRequest(t, p)
      PROVE  NoLostStart'
  <2>1. t \in Threads BY DEF Threads
  <2>2. /\ t \notin Starters /\ Starters' = Starters \cup {t}
        /\ m_pending' = m_pending + 1 /\ UNCHANGED <<m_active, m_concurrent>>
    BY <1>6, <2>1 DEF ReceiveRequest, Starters, TypeOK
  <2>3. S' = S + 1 BY <2>2, FiniteParts, FS_AddElement
  <2>4. Limit' = Limit BY <2>2 DEF Limit
  <2>5. m_pending' <= S' \/ Limit' - m_active' <= S'
    BY <1>1, <1>2, <1>3, <2>2, <2>3, <2>4 DEF Limit
  <2>6. QED BY <1>4, <2>5
<1>7. ASSUME NEW t \in Threads, StartMessage(t) PROVE NoLostStart'
  <2>1. t \in Starters /\ Starters' = Starters \ {t} /\ m_concurrent' = m_concurrent
    BY <1>7 DEF StartMessage, Starters, TypeOK
  <2>2. S' = S - 1 BY <2>1, FiniteParts, FS_RemoveElement
  <2>3. Limit' = Limit BY <2>1 DEF Limit
  <2>4. CASE SlotFree /\ m_pending > 0
    <3>1. m_pending' = m_pending - 1 /\ m_active' = m_active + 1
      BY <1>7, <2>4 DEF StartMessage
    <3>2. m_pending' <= S' \/ Limit' - m_active' <= S'
      BY <1>1, <1>2, <1>3, <2>2, <2>3, <3>1 DEF Limit
    <3>3. QED BY <1>4, <3>2
  <2>5. CASE ~(SlotFree /\ m_pending > 0)
    <3>1. m_pending' = m_pending /\ m_active' = m_active
      BY <1>7, <2>5 DEF StartMessage
    <3>2. m_pending = 0 \/ m_active >= m_concurrent
      BY <1>2, <2>5 DEF SlotFree
    <3>3. m_pending' <= S' \/ Limit' - m_active' <= S'
      BY <1>1, <1>2, <2>3, <3>1, <3>2 DEF Limit
    <3>4. QED BY <1>4, <3>3
  <2>6. QED BY <2>4, <2>5
<1>8. ASSUME NEW t \in Threads, TriggerNextPhase(t) PROVE NoLostStart'
  <2>1. Starters' = Starters BY <1>8 DEF TriggerNextPhase, Starters, TypeOK
  <2>2. QED BY <1>5, <1>8, <2>1 DEF TriggerNextPhase, qvars
<1>9. ASSUME NEW w \in Workers, GetWork(w) PROVE NoLostStart'
  <2>1. Starters' = Starters BY <1>9 DEF GetWork, Starters, TypeOK
  <2>2. QED BY <1>5, <1>9, <2>1 DEF GetWork, qvars
<1>10. ASSUME NEW w \in Workers, NEW n \in 0..MaxQueries, ProcessNextPhase(w, n)
       PROVE  NoLostStart'
  <2>1. pc[w] = "run" /\ (\/ pc' = [pc EXCEPT ![w] = "finish"]
                          \/ pc' = [pc EXCEPT ![w] = "idle"])
    BY <1>10 DEF ProcessNextPhase
  <2>2. Starters' = Starters BY <2>1 DEF Starters, TypeOK
  <2>3. UNCHANGED <<m_active, m_pending, m_concurrent>>
    BY <1>10 DEF ProcessNextPhase, qvars
  <2>4. QED BY <1>5, <2>2, <2>3
<1>11. ASSUME NEW w \in Workers, FinishMessage(w) PROVE NoLostStart'
  <2>1. /\ w \in Threads /\ pc[w] = "finish" /\ pc' = [pc EXCEPT ![w] = "start"]
        /\ m_active' = m_active - 1 /\ UNCHANGED <<m_pending, m_concurrent>>
    BY <1>11 DEF FinishMessage, SlotsLeft, AfterFinish, Threads
  <2>2. w \notin Starters /\ Starters' = Starters \cup {w}
    BY <2>1 DEF Starters, TypeOK
  <2>3. S' = S + 1 BY <2>2, FiniteParts, FS_AddElement
  <2>4. Limit' = Limit BY <2>1 DEF Limit
  <2>5. m_pending' <= S' \/ Limit' - m_active' <= S'
    BY <1>1, <1>2, <1>3, <2>1, <2>3, <2>4 DEF Limit
  <2>6. QED BY <1>4, <2>5
<1>12. ASSUME NEW p \in Procs, Callback(p) PROVE NoLostStart'
  <2>1. Starters' = Starters BY <1>12 DEF Callback, Starters
  <2>2. QED BY <1>5, <1>12, <2>1 DEF Callback, qvars
<1>13. CASE SetConcurrent
  <2>1. /\ UNCHANGED <<m_active, m_pending, pc>>
        /\ m_concurrent = DefaultConcurrent /\ m_concurrent' = ConfConcurrent
    BY <1>2, <1>13 DEF SetConcurrent
  <2>2. Starters' = Starters BY <2>1 DEF Starters
  <2>3. Limit = DefaultConcurrent BY <1>2, <2>1 DEF Limit
  <2>4. Limit' <= DefaultConcurrent /\ Limit' \in Nat BY <1>2, <2>1 DEF Limit
  <2>5. m_pending' <= S' \/ Limit' - m_active' <= S'
    BY <1>1, <1>2, <1>3, <2>1, <2>2, <2>3, <2>4
  <2>6. QED BY <1>4, <2>5
<1>14. CASE UNCHANGED vars
  BY <1>14 DEF vars, NoLostStart, Limit, Starters
<1>15. QED
  BY <1>6, <1>7, <1>8, <1>9, <1>10, <1>11, <1>12, <1>13, <1>14 DEF Next

-----------------------------------------------------------------------------
(* The counters and the sets they count start out empty.                    *)
LEMMA InitFacts ==
  ASSUME Init
  PROVE  /\ TypeOK /\ m_active = Cardinality(Holding)
         /\ ActiveBound /\ NoLostStart
<1> USE QueueAssumption
<1>1. TypeOK BY DEF Init, TypeOK, Threads
<1>2. Holding = {} /\ Starters = {} BY DEF Init, Holding, Starters
<1>3. Cardinality(Holding) = 0 /\ Cardinality(Starters) = 0
  BY <1>2, FS_EmptySet
<1>4. m_active = 0 /\ m_pending = 0 BY DEF Init
<1>5. ActiveBound BY <1>4 DEF ActiveBound
<1>6. NoLostStart BY <1>3, <1>4 DEF NoLostStart
<1>7. QED BY <1>1, <1>3, <1>4, <1>5, <1>6

(* Every variable of the queue, the threads and the processors keeps its   *)
(* type, and the ownership of processors stays unambiguous: a queued one is *)
(* in m_queue once, a running one in the hands of messages and queries.     *)
THEOREM TypeCorrect == Spec => [](TypeOK /\ Ownership)
<1>1. Init => TypeOK /\ Ownership BY InitFacts, OwnershipInit
<1>2. TypeOK /\ Ownership /\ [Next]_vars => TypeOK' /\ Ownership'
  BY TypeNext, OwnershipNext
<1>3. QED BY <1>1, <1>2, PTL DEF Spec

(* phaseReady's final test is enough for any number of workers and queries: *)
(* nothing refers to a deleted processor.                                   *)
THEOREM NoUseAfterDeleteHolds == Spec => []NoUseAfterDelete
<1>1. TypeOK /\ Ownership => NoUseAfterDelete
  <2> SUFFICES ASSUME TypeOK, Ownership, NEW p \in Procs, life[p] \in {"deleted", "gone"}
               PROVE  /\ \A i \in 1..Len(work) : work[i] # p
                      /\ inflight[p] = 0
                      /\ \A w \in Workers : pc[w] = "run" => cur[w] # p
    BY DEF NoUseAfterDelete
  <2>1. inflight[p] = 0 /\ \A i \in 1..Len(work) : work[i] # p
    BY DEF Ownership, Quiet
  <2>2. \A w \in Workers : pc[w] = "run" => cur[w] # p
    BY DEF Ownership, ThreadOK, Threads
  <2>3. QED BY <2>1, <2>2
<1>2. QED BY <1>1, TypeCorrect, PTL

(* m_active is the number of processors between startMessage and            *)
(* finishMessage and m_pending the length of m_queue, for every interleaving*)
(* of any number of dispatch threads and workers.                           *)
THEOREM SlotAccountingHolds == Spec => []SlotAccounting
<1> DEFINE Inv == TypeOK /\ Ownership /\ m_active = Cardinality(Holding)
<1>1. Init => Inv BY InitFacts, OwnershipInit
<1>2. Inv /\ [Next]_vars => Inv'
  BY TypeNext, OwnershipNext, SlotsNext
<1>3. Inv => SlotAccounting
  BY DEF Ownership, PendingOK, SlotAccounting
<1>4. QED BY <1>1, <1>2, <1>3, PTL DEF Spec

(* No more slots are ever in use than the larger of the default and the     *)
(* configured limit, though FDHss::init changes the limit without the mutex.*)
THEOREM ConcurrencyLimitHolds == Spec => []ConcurrencyLimit
<1>1. Init => TypeOK /\ Ownership /\ ActiveBound BY InitFacts, OwnershipInit
<1>2. /\ TypeOK /\ Ownership /\ ActiveBound /\ [Next]_vars
      => (TypeOK /\ Ownership /\ ActiveBound)'
  BY TypeNext, OwnershipNext, BoundNext
<1>3. SlotAccounting /\ ActiveBound => ConcurrencyLimit
  BY DEF SlotAccounting, ActiveBound, ConcurrencyLimit
<1>4. QED BY <1>1, <1>2, <1>3, SlotAccountingHolds, PTL DEF Spec

(* A request never waits beside a free slot that nobody is about to fill:   *)
(* each addEntry and each finishMessage is followed by a startMessage.      *)
THEOREM NoLostStartHolds == Spec => []NoLostStart
<1>1. Init => TypeOK /\ Ownership /\ NoLostStart BY InitFacts, OwnershipInit
<1>2. /\ TypeOK /\ Ownership /\ NoLostStart /\ [Next]_vars
      => (TypeOK /\ Ownership /\ NoLostStart)'
  BY TypeNext, OwnershipNext, StartersNext
<1>3. QED BY <1>1, <1>2, PTL DEF Spec

=============================================================================
