------------------------ MODULE ULRProcessor_proofs ------------------------
(***************************************************************************)
(* Proofs about ULRProcessor, for any number of driver threads, any number *)
(* of event ids and SCEFs and any choice of queries that fail: a request   *)
(* is answered once and written after success; its queries are counted,    *)
(* so that nothing refers to the processor when it is deleted; and with    *)
(* one driver thread nothing changes the list another callback walks.      *)
(***************************************************************************)
EXTENDS ULRProcessor, FiniteSetTheorems, SequenceTheorems, TLAPS

(* phase1 counts its queries right only if the driver accepts those that   *)
(* follow the first; setCallback refuses a future that has a callback.     *)
LaterAccepted == {"EXT_IDS", "IDS_MSISDN", "MMEID"} \cap MayNotIssue = {}

(* Which queries have been made, by phase and by the answer that led to    *)
(* them.                                                                   *)
Order ==
    /\ m_nextphase = "PHASE1" => \A q \in Queries : cb[q] = "none"
    /\ cb[Query("UPDATE")] # "none" => m_nextphase \in {"PHASE5", "FINAL"}
    /\ cb[Query("EXT_IDS")] \in {"none", "db"} => cb[Query("IDS_EXTIDS")] = "none"
    /\ \A o \in IdOps : cb[Query(o)] \in {"none", "db", "walk"} =>
          \A i \in EventNos : cb[EventQuery(o, i)] = "none"

(* Who has added how many ids to the list.                                 *)
Added(o) == IF cb[Query(o)] \in {"none", "db"} THEN 0 ELSE MaxEvents
AddedByPhase3 == IF m_nextphase \in {"PHASE1", "PHASE2", "PHASE3"} THEN 0 ELSE MaxEvents
ListBounded ==
    Len(m_evtIdLst) <= Added("IDS_MSISDN") + Added("IDS_EXTIDS") + AddedByPhase3

(* What has been answered, by phase.                                       *)
Answers ==
    /\ m_nextphase \in {"PHASE1", "PHASE2", "PHASE3"} => sent = <<>>
    /\ m_nextphase \in {"PHASE4", "PHASE5"} => sent = <<"SUCCESS">>
    /\ m_nextphase = "FINAL" => Len(sent) = 1
    /\ m_nextphase = "FINAL" /\ sent = <<"SUCCESS">> => "UPDATE" \in m_dbexecuted
    /\ "UPDATE" \in m_dbexecuted \/ cb[Query("UPDATE")] # "none" => sent = <<"SUCCESS">>
    /\ mutex \in {"blocked", "woken"} => m_nextphase = "PHASE3"
    /\ ~alive => m_nextphase = "FINAL" /\ mutex = "free"

IInv == TypeOK /\ Order /\ ListBounded /\ Answers

(* The counter, and what its being 0 stands for.                           *)
Counted == DbIssuedCountsInFlight /\ NoUseAfterDelete

-----------------------------------------------------------------------------
(* Queries have different names.                                           *)
LEMMA QueryNames ==
  /\ \A o \in SingleOps : Query(o) \in Queries /\ Query(o).op = o
  /\ \A o \in IdOps, i \in EventNos : EventQuery(o, i) \in Queries
  /\ \A o, p : Query(o) = Query(p) => o = p
  /\ \A o \in SingleOps : \A p, i : Query(o) # EventQuery(p, i)
  /\ \A o, p, i, j : EventQuery(o, i) = EventQuery(p, j) => o = p /\ i = j
<1>1. \A o : Query(o).op = o /\ Query(o).no = 0
  BY DEF Query
<1>2. \A p, i : EventQuery(p, i).op = "EVENTS" /\ EventQuery(p, i).by = p
                /\ EventQuery(p, i).no = i
  BY DEF EventQuery
<1>3. "EVENTS" \notin SingleOps
  BY DEF SingleOps, IdOps
<1>4. \A o \in SingleOps : Query(o) \in [op : SingleOps, no : {0}]
  BY DEF Query
<1>5. \A o \in IdOps, i \in EventNos :
         EventQuery(o, i) \in [op : {"EVENTS"}, by : IdOps, no : EventNos]
  BY DEF EventQuery
<1>6. \A o \in SingleOps : Query(o) \in Queries /\ Query(o).op = o
  BY <1>1, <1>4 DEF Queries
<1>7. \A o \in IdOps, i \in EventNos : EventQuery(o, i) \in Queries
  BY <1>5 DEF Queries
<1>8. ASSUME NEW o, NEW p, Query(o) = Query(p)  PROVE o = p
  BY <1>1, <1>8
<1>9. ASSUME NEW o \in SingleOps, NEW p, NEW i, Query(o) = EventQuery(p, i)  PROVE FALSE
  BY <1>1, <1>2, <1>3, <1>9
<1>10. ASSUME NEW o, NEW p, NEW i, NEW j, EventQuery(o, i) = EventQuery(p, j)
       PROVE  o = p /\ i = j
  BY <1>2, <1>10
<1> QED  BY <1>6, <1>7, <1>8, <1>9, <1>10

(* The queries a request can make are finitely many.                       *)
LEMMA QueriesFinite == IsFiniteSet(Queries) /\ Cardinality(Queries) \in Nat
<1> DEFINE Of(o) == {EventQuery(o, i) : i \in EventNos}
<1>1. ASSUME NEW o  PROVE IsFiniteSet(Of(o))
  <2> DEFINE f == [i \in EventNos |-> EventQuery(o, i)]
  <2>1. f \in Surjection(EventNos, Of(o))
    BY DEF Surjection
  <2>2. IsFiniteSet(EventNos)
    BY FS_Interval, ULRAssumption DEF EventNos
  <2> QED  BY <2>1, <2>2, FS_Surjection
<1>2. IsFiniteSet({Query("IMSI_INFO"), Query("EXT_IDS"), Query("MMEID"), Query("UPDATE"),
                   Query("IDS_MSISDN"), Query("IDS_EXTIDS")})
  <2> DEFINE T == {Query("IMSI_INFO"), Query("EXT_IDS"), Query("MMEID"), Query("UPDATE"),
                   Query("IDS_MSISDN"), Query("IDS_EXTIDS")}
             f == [i \in 1..6 |-> IF i = 1 THEN Query("IMSI_INFO")
                                  ELSE IF i = 2 THEN Query("EXT_IDS")
                                  ELSE IF i = 3 THEN Query("MMEID")
                                  ELSE IF i = 4 THEN Query("UPDATE")
                                  ELSE IF i = 5 THEN Query("IDS_MSISDN")
                                  ELSE Query("IDS_EXTIDS")]
  <2>1. f \in Surjection(1..6, T)
    BY DEF Surjection
  <2>2. \A n \in Nat : IsFiniteSet(1..n)
    BY FS_Interval
  <2> HIDE DEF f, T
  <2>3. IsFiniteSet(T)
    BY <2>1, <2>2, 6 \in Nat, FS_Surjection
  <2> QED  BY <2>3 DEF T
<1>3. Queries = {Query("IMSI_INFO"), Query("EXT_IDS"), Query("MMEID"), Query("UPDATE"),
                   Query("IDS_MSISDN"), Query("IDS_EXTIDS")}
                \cup (Of("IDS_MSISDN") \cup Of("IDS_EXTIDS"))
  BY DEF Queries, SingleOps, IdOps, Query, EventQuery
<1> HIDE DEF Of
<1>4. IsFiniteSet(Queries)
  BY <1>1, <1>2, <1>3, FS_Union
<1> QED  BY <1>4, FS_CardinalityType

(* Numbers below the bound of the counters are not reduced.                *)
LEMMA SmallMod == \A x, u \in Nat : x < u => x % u = x
  OBVIOUS

(* A list of event ids from the tables.                                    *)
LEMMA EventListType ==
  ASSUME NEW l \in EventLists
  PROVE  l \in Seq(1..NumScefs) /\ Len(l) \in 0..MaxEvents
  BY ULRAssumption DEF EventLists

LEMMA EventListAdded ==
  ASSUME NEW l \in Seq(1..NumScefs), NEW m \in EventLists
  PROVE  l \o m \in Seq(1..NumScefs) /\ Len(l \o m) <= Len(l) + MaxEvents
<1>1. m \in Seq(1..NumScefs) /\ Len(m) \in 0..MaxEvents
  BY EventListType
<1>2. l \o m \in Seq(1..NumScefs) /\ Len(l \o m) = Len(l) + Len(m)
  BY <1>1, ConcatProperties
<1>3. Len(l) \in Nat
  BY LenProperties
<1> QED  BY <1>1, <1>2, <1>3, ULRAssumption

(* getEvents() makes at most one query per id of its list.                 *)
LEMMA EventQueriesBound ==
  ASSUME NEW l \in Seq(1..NumScefs)
  PROVE  EventQueries(l) \in 0..Len(l)
<1>1. CASE Len(l) < 2
  BY <1>1 DEF EventQueries
<1>2. CASE Len(l) >= 2
  <2> DEFINE S == {i \in 3..Len(l) : SortedList(l)[i] # SortedList(l)[i - 1]}
  <2>1. IsFiniteSet(3..Len(l)) /\ Cardinality(3..Len(l)) = Len(l) - 2
    BY <1>2, FS_Interval
  <2>2. IsFiniteSet(S) /\ Cardinality(S) <= Len(l) - 2
    BY <2>1, FS_Subset
  <2>3. Cardinality(S) \in Nat
    BY <2>2, FS_CardinalityType
  <2>4. EventQueries(l) = 2 + Cardinality(S)
    BY <1>2 DEF EventQueries
  <2> HIDE DEF S
  <2> QED  BY <1>2, <2>2, <2>3, <2>4
<1> QED  BY <1>1, <1>2

(* The queries of one walk.                                                *)
LEMMA WalkQueriesSize ==
  ASSUME NEW o \in IdOps, NEW k \in 0..(3 * MaxEvents)
  PROVE  /\ WalkQueries(o, k) \subseteq {EventQuery(o, i) : i \in EventNos}
         /\ WalkQueries(o, k) \subseteq Queries
         /\ IsFiniteSet(WalkQueries(o, k)) /\ Cardinality(WalkQueries(o, k)) = k
<1>1. WalkQueries(o, k) \subseteq {EventQuery(o, i) : i \in EventNos}
  BY ULRAssumption DEF WalkQueries, EventNos
<1>2. WalkQueries(o, k) \subseteq Queries
  BY <1>1, QueryNames
<1> DEFINE f == [i \in 1..k |-> EventQuery(o, i)]
<1>3. f \in Surjection(1..k, WalkQueries(o, k))
  BY DEF Surjection, WalkQueries
<1>4. f \in Injection(1..k, WalkQueries(o, k))
  BY <1>3, QueryNames DEF Injection, Surjection, IsInjective
<1>5. IsFiniteSet(1..k) /\ Cardinality(1..k) = k
  BY FS_Interval
<1> HIDE DEF f
<1>6. IsFiniteSet(WalkQueries(o, k)) /\ Cardinality(WalkQueries(o, k)) = k
  BY <1>3, <1>4, <1>5, FS_Surjection
<1> QED  BY <1>1, <1>2, <1>6

(* The result codes of answers.                                            *)
Codes == Verdicts \cup {"INVALID_AVP_VALUE", "USER_UNKNOWN", "SUCCESS"}
LEMMA AnswerType ==
  /\ <<>> \in Seq(Codes) /\ <<"INVALID_AVP_VALUE">> \in Seq(Codes)
  /\ <<"REFUSED">> \in Seq(Codes) /\ <<"USER_UNKNOWN">> \in Seq(Codes)
  /\ <<"SUCCESS">> \in Seq(Codes)
<1>1. \A c \in Codes : <<c>> \in Seq(Codes)
  OBVIOUS
<1> QED  BY <1>1 DEF Codes, Verdicts

(* The counters stay in their range.                                       *)
LEMMA CounterType ==
  ASSUME NEW x \in Int
  PROVE  x % U32 \in 0..(U32 - 1)
  BY ULRAssumption, QueriesFinite

(* What issuing queries does to their stages.                              *)
LEMMA IssueStages ==
  ASSUME NEW c \in [Queries -> Stages], NEW Q
  PROVE  /\ Issue(c, Q) \in [Queries -> Stages]
         /\ \A q \in Queries : Issue(c, Q)[q] = IF q \in Q THEN "db" ELSE c[q]
  BY DEF Issue, Stages

-----------------------------------------------------------------------------
LEMMA InvInit == Init => IInv
<1> SUFFICES ASSUME Init  PROVE IInv
  OBVIOUS
<1>1. TypeOK
  <2>1. m_dbissued \in 0..(U32 - 1) /\ m_dbevtissued \in 0..(U32 - 1)
    BY ULRAssumption, QueriesFinite DEF Init
  <2>2. m_evtIdLst \in Seq(1..NumScefs) /\ sent \in Seq(Codes)
    BY AnswerType DEF Init
  <2>3. cb \in [Queries -> Stages]
    BY DEF Init, Stages
  <2>4. m_nextphase \in Phases
    BY DEF Init, Phases
  <2> QED  BY <2>1, <2>2, <2>3, <2>4 DEF Init, TypeOK, Codes
<1>2. \A q \in Queries : cb[q] = "none"
  BY DEF Init
<1>3. Order
  BY <1>2, QueryNames DEF Init, Order, SingleOps, IdOps
<1>4. ListBounded
  BY ULRAssumption DEF Init, ListBounded, Added, AddedByPhase3
<1>5. Answers
  BY <1>2, QueryNames DEF Init, Answers, SingleOps
<1> QED  BY <1>1, <1>3, <1>4, <1>5 DEF IInv

(* The steps of the worker keep the invariant.                             *)
LEMMA WorkerInv == ASSUME IInv, Worker  PROVE IInv'
<1> USE QueryNames, ULRAssumption
<1>1. CASE Enter
  BY <1>1 DEF Enter, IInv, TypeOK, Order, ListBounded, Added, AddedByPhase3, Answers, bits, lists
<1>2. CASE Phase1
  <2>1. /\ m_nextphase = "PHASE1" /\ mutex = "worker" /\ sent = <<>>
        /\ \A q \in Queries : cb[q] = "none"
        /\ cb \in [Queries -> Stages] /\ m_evtIdLst = <<>>
        /\ "UPDATE" \notin m_dbexecuted
    <3>1. m_nextphase = "PHASE1" /\ mutex = "worker" /\ sent = <<>>
          /\ cb \in [Queries -> Stages] /\ (\A q \in Queries : cb[q] = "none")
          /\ "UPDATE" \notin m_dbexecuted
      BY <1>2 DEF Phase1, Running, IInv, TypeOK, Order, Answers
    <3>2. Len(m_evtIdLst) <= 0
      BY <3>1 DEF IInv, TypeOK, ListBounded, Added, AddedByPhase3, SingleOps, IdOps
    <3> QED  BY <3>1, <3>2 DEF IInv, TypeOK
  <2>2. CASE in.longImsi
    <3>1. /\ sent' = <<"INVALID_AVP_VALUE">> /\ m_nextphase' = "FINAL"
          /\ UNCHANGED <<m_dbissued, bits, cb, in, m_msgissued, m_dbevtissued, lists, mutex,
                         alive>>
      BY <1>2, <2>1, <2>2 DEF Phase1, Reply
    <3> QED  BY <2>1, <3>1 DEF IInv, TypeOK, Order, ListBounded, Added, AddedByPhase3, Answers,
                               bits, lists, Phases, SingleOps, IdOps
  <2>3. CASE ~in.longImsi
    <3>1. PICK k \in 0..4 :
               /\ cb' = Issue(cb, {Query(InitialQueries[i]) : i \in 1..k})
               /\ m_dbissued' = (m_dbissued + Phase1Issued(k)) % U32
               /\ m_dbexecuted' = m_dbexecuted \cup Phase1Failed(k)
               /\ m_dbresult' = ResultAfter(m_dbresult, {}, k = 4)
               /\ m_nextphase' = IF k = 4 THEN "PHASE2" ELSE "FINAL"
               /\ IF k = 4 THEN UNCHANGED sent ELSE Reply("USER_UNKNOWN")
      BY <1>2, <2>3, Zenon DEF Phase1
    <3>2. UNCHANGED <<in, m_msgissued, m_dbevtissued, lists, mutex, alive>>
      BY <1>2 DEF Phase1
    <3>3. sent' = IF k = 4 THEN <<>> ELSE <<"USER_UNKNOWN">>
      BY <2>1, <3>1 DEF Reply
    <3>4. /\ cb' \in [Queries -> Stages]
          /\ \A q \in Queries : cb'[q] # "none" =>
                \E i \in 1..4 : q = Query(InitialQueries[i]) /\ cb'[q] = "db"
      BY <2>1, <3>1, IssueStages
    <3>5. \A i \in 1..4 : InitialQueries[i] \in {"IMSI_INFO", "EXT_IDS", "IDS_MSISDN", "MMEID"}
      BY DEF InitialQueries
    <3>6. /\ cb'[Query("UPDATE")] = "none" /\ cb'[Query("IDS_EXTIDS")] = "none"
          /\ cb'[Query("IDS_MSISDN")] \in {"none", "db"}
          /\ \A o \in IdOps, i \in EventNos : cb'[EventQuery(o, i)] = "none"
      BY <3>4, <3>5 DEF SingleOps, IdOps
    <3>7. TypeOK'
      <4>1. m_dbissued' \in 0..(U32 - 1)
        BY <3>1 DEF IInv, TypeOK, Phase1Issued
      <4>2. m_dbexecuted' \subseteq Ops /\ m_dbresult' \subseteq Ops
        BY <3>1 DEF IInv, TypeOK, Phase1Failed, ResultAfter, Ops, SingleOps, IdOps
      <4>3. sent' \in Seq(Codes)
        BY <3>3, AnswerType
      <4>4. m_nextphase' \in Phases
        BY <3>1 DEF Phases
      <4> QED  BY <4>1, <4>2, <4>3, <4>4, <3>2, <3>4 DEF IInv, TypeOK, Codes, lists
    <3>8. Order'
      BY <3>1, <3>6 DEF Order
    <3>9. ListBounded'
      BY <2>1, <3>2, <3>6 DEF ListBounded, Added, AddedByPhase3, lists
    <3>10. Answers'
      BY <2>1, <3>1, <3>2, <3>3, <3>6 DEF IInv, Answers, Phase1Failed
    <3> QED  BY <3>7, <3>8, <3>9, <3>10 DEF IInv
  <2> QED  BY <2>2, <2>3
<1>3. CASE Phase2
  <2>1. m_nextphase = "PHASE2" /\ mutex = "worker" /\ sent = <<>> /\ "UPDATE" \notin m_dbexecuted
    BY <1>3 DEF Phase2, Running, IInv, Answers
  <2>2. UNCHANGED <<in, m_msgissued, m_dbissued, m_dbevtissued, bits, lists, mutex, cb, alive>>
    BY <1>3 DEF Phase2
  <2>3. \/ m_nextphase' = "PHASE3" /\ sent' = <<>>
        \/ /\ m_nextphase' = "FINAL"
           /\ sent' \in {<<"REFUSED">>, <<"USER_UNKNOWN">>}
    <3>1. in.verdict \in {"OK", "REFUSED"}
      BY DEF IInv, TypeOK, Verdicts
    <3>2. CASE "IMSI_INFO" \in m_dbresult
      BY <1>3, <2>1, <3>1, <3>2 DEF Phase2, Reply
    <3>3. CASE "IMSI_INFO" \notin m_dbresult
      BY <1>3, <2>1, <3>3 DEF Phase2, Reply
    <3> QED  BY <3>2, <3>3
  <2>4. TypeOK'
    <3>1. sent' \in Seq(Codes) /\ m_nextphase' \in Phases
      BY <2>3, AnswerType DEF Phases
    <3> QED  BY <2>2, <3>1 DEF IInv, TypeOK, Codes, bits, lists
  <2>5. Order' /\ ListBounded'
    BY <2>1, <2>2, <2>3 DEF IInv, TypeOK, Order, ListBounded, Added, AddedByPhase3, lists
  <2>6. Answers'
    BY <2>1, <2>2, <2>3 DEF IInv, Answers, Order, bits
  <2> QED  BY <2>4, <2>5, <2>6 DEF IInv
<1>4. CASE Phase3Wait
  BY <1>4 DEF Phase3Wait, Running, IInv, TypeOK, Order, ListBounded, Added, AddedByPhase3,
              Answers, bits, lists
<1>5. CASE Phase3Wake
  BY <1>5 DEF Phase3Wake, IInv, TypeOK, Order, ListBounded, Added, AddedByPhase3,
              Answers, bits, lists
<1>6. CASE Phase3
  <2>1. m_nextphase = "PHASE3" /\ in.evExt \in EventLists
    BY <1>6 DEF Phase3, Running, IInv, TypeOK, Answers
  <2>2. /\ m_evtIdLst' \in Seq(1..NumScefs)
        /\ Len(m_evtIdLst') <= Len(m_evtIdLst) + MaxEvents
    <3>1. m_evtIdLst \in Seq(1..NumScefs)
      BY DEF IInv, TypeOK
    <3>2. \/ m_evtIdLst' = m_evtIdLst
          \/ m_evtIdLst' = m_evtIdLst \o in.evExt
      BY <1>6 DEF Phase3
    <3>3. Len(m_evtIdLst) <= Len(m_evtIdLst) + MaxEvents
      BY <3>1, LenProperties
    <3>4. /\ m_evtIdLst \o in.evExt \in Seq(1..NumScefs)
          /\ Len(m_evtIdLst \o in.evExt) <= Len(m_evtIdLst) + MaxEvents
      BY <2>1, <3>1, EventListAdded
    <3> QED  BY <3>1, <3>2, <3>3, <3>4
  <2>3. TypeOK'
    <3>1. sent' = <<"SUCCESS">> /\ m_nextphase' = "PHASE4" /\ mutex' = "worker"
      BY <1>6, <2>1 DEF Phase3, Reply, NextAfterAnswer, IInv, Answers
    <3> QED  BY <1>6, <2>2, <3>1 DEF Phase3, IInv, TypeOK, bits, Phases
  <2>4. ListBounded'
    <3>1. UNCHANGED cb /\ m_nextphase' = "PHASE4"
      BY <1>6 DEF Phase3, NextAfterAnswer
    <3> QED  BY <2>1, <2>2, <3>1 DEF IInv, TypeOK, ListBounded, Added, AddedByPhase3
  <2>5. Order' /\ Answers'
    BY <1>6, <2>1 DEF Phase3, Running, Reply, NextAfterAnswer, IInv, TypeOK, Order, Answers,
                      bits
  <2> QED  BY <2>3, <2>4, <2>5 DEF IInv
<1>7. CASE Phase4
  <2>1. /\ m_nextphase = "PHASE4" /\ mutex = "worker" /\ sent = <<"SUCCESS">>
        /\ cb[Query("UPDATE")] = "none"
    BY <1>7 DEF Phase4, Running, IInv, Order, Answers
  <2>2. UNCHANGED <<in, m_msgissued, m_dbevtissued, lists, mutex, sent, alive>>
    BY <1>7 DEF Phase4
  <2>3. CASE /\ cb' = Issue(cb, {Query("UPDATE")})
             /\ m_dbissued' = (m_dbissued + 1) % U32
             /\ m_nextphase' = "PHASE5"
             /\ UNCHANGED bits
    <3>1. /\ cb' \in [Queries -> Stages]
          /\ \A q \in Queries : q # Query("UPDATE") => cb'[q] = cb[q]
      BY <2>3, IssueStages DEF IInv, TypeOK
    <3>2. /\ \A o \in SingleOps \ {"UPDATE"} : cb'[Query(o)] = cb[Query(o)]
          /\ \A o \in IdOps, i \in EventNos : cb'[EventQuery(o, i)] = cb[EventQuery(o, i)]
      BY <3>1 DEF SingleOps
    <3>3. TypeOK'
      <4>1. m_dbissued + 1 \in Int
        BY DEF IInv, TypeOK
      <4>2. m_dbissued' \in 0..(U32 - 1) /\ m_nextphase' \in Phases
        BY <2>3, <4>1, CounterType DEF Phases
      <4> QED  BY <2>2, <2>3, <3>1, <4>2 DEF IInv, TypeOK, lists, bits
    <3>4. Order' /\ ListBounded'
      BY <2>1, <2>2, <2>3, <3>2 DEF IInv, Order, ListBounded, Added, AddedByPhase3, lists,
                                    SingleOps, IdOps
    <3>5. Answers'
      BY <2>1, <2>2, <2>3 DEF IInv, Answers, bits
    <3> QED  BY <3>3, <3>4, <3>5 DEF IInv
  <2>4. CASE /\ m_dbexecuted' = m_dbexecuted \cup {"UPDATE"}
             /\ m_dbresult' = ResultAfter(m_dbresult, {"UPDATE"}, FALSE)
             /\ m_nextphase' = "FINAL"
             /\ UNCHANGED <<cb, m_dbissued>>
    <3>1. TypeOK'
      BY <2>2, <2>4 DEF IInv, TypeOK, lists, Phases, ResultAfter, Ops, SingleOps
    <3>2. Order' /\ ListBounded' /\ Answers'
      BY <2>1, <2>2, <2>4 DEF IInv, TypeOK, Order, ListBounded, Added, AddedByPhase3, Answers,
                              lists
    <3> QED  BY <3>1, <3>2 DEF IInv
  <2> QED  BY <1>7, <2>3, <2>4 DEF Phase4
<1>8. CASE Phase5
  BY <1>8 DEF Phase5, Running, PhaseReady, IInv, TypeOK, Order, ListBounded, Added,
              AddedByPhase3, Answers, bits, lists, Phases
<1>9. CASE Delete
  BY <1>9 DEF Delete, Running, IInv, TypeOK, Order, ListBounded, Added, AddedByPhase3,
              Answers, bits, lists
<1>10. CASE Leave
  BY <1>10 DEF Leave, IInv, TypeOK, Order, ListBounded, Added, AddedByPhase3,
              Answers, bits, lists
<1> QED  BY <1>1, <1>2, <1>3, <1>4, <1>5, <1>6, <1>7, <1>8, <1>9, <1>10 DEF Worker

(* A walk of the list makes no more queries than EventNos has numbers.       *)
LEMMA WalkBound == ASSUME IInv  PROVE EventQueries(m_evtIdLst) \in 0..(3 * MaxEvents)
<1>1. m_evtIdLst \in Seq(1..NumScefs) /\ Len(m_evtIdLst) <= 3 * MaxEvents
  BY ULRAssumption DEF IInv, TypeOK, ListBounded, Added, AddedByPhase3
<1>2. EventQueries(m_evtIdLst) \in 0..Len(m_evtIdLst)
  BY <1>1, EventQueriesBound
<1> QED  BY <1>1, <1>2, ULRAssumption

(* The callbacks keep the invariant.  None of them changes the phase, an    *)
(* answer, the mutex or the request, and each moves one query on.           *)
LEMMA DriverInv == ASSUME IInv, Driver  PROVE IInv'
<1> USE QueryNames, ULRAssumption
<1>1. ASSUME NEW o \in {"IMSI_INFO", "MMEID", "UPDATE"}, SimpleHandler(o)  PROVE IInv'
  <2>1. /\ cb[Query(o)] = "db" /\ cb' = [cb EXCEPT ![Query(o)] = "tail"] /\ o \in SingleOps
        /\ UNCHANGED <<in, m_nextphase, m_msgissued, m_dbissued, m_dbevtissued, lists, mutex,
                       sent, alive>>
        /\ m_dbexecuted' = m_dbexecuted \cup {o}
    BY <1>1 DEF SimpleHandler, Arriving, Handled, SingleOps
  <2>2. m_dbexecuted' \subseteq Ops /\ m_dbresult' \subseteq Ops
    BY <1>1 DEF SimpleHandler, ResultAfter, IInv, TypeOK, Ops, SingleOps
  <2>3. TypeOK'
    BY <2>1, <2>2 DEF IInv, TypeOK, lists, Stages
  <2>4. Order'
    BY <2>1 DEF IInv, TypeOK, Order, SingleOps, IdOps
  <2>5. ListBounded'
    BY <2>1 DEF IInv, TypeOK, ListBounded, Added, AddedByPhase3, lists, SingleOps, IdOps
  <2>6. Answers'
    BY <2>1 DEF IInv, TypeOK, Answers, SingleOps
  <2> QED  BY <2>3, <2>4, <2>5, <2>6 DEF IInv
<1>2. CASE GetExternalIds
  <2> DEFINE ExtIdsStep ==
        /\ cb' \in [Queries -> Stages] /\ cb'[Query("EXT_IDS")] = "tail"
        /\ cb'[Query("IDS_EXTIDS")] \in {"none", "db"}
        /\ \A q \in Queries : q \notin {Query("EXT_IDS"), Query("IDS_EXTIDS")} => cb'[q] = cb[q]
        /\ m_dbexecuted' \subseteq Ops /\ m_dbresult' \subseteq Ops
        /\ "UPDATE" \in m_dbexecuted' <=> "UPDATE" \in m_dbexecuted
        /\ m_dbissued' \in 0..(U32 - 1)
  <2> HIDE DEF ExtIdsStep
  <2>1. PICK ok \in Fails("EXT_IDS"), refused \in {FALSE, "IDS_EXTIDS" \in MayNotIssue} :
         /\ m_extIdLst' = (ok /\ in.ext)
         /\ IF ok /\ ~refused
            THEN /\ m_dbexecuted' = m_dbexecuted \cup {"EXT_IDS"}
                 /\ m_dbresult' = ResultAfter(m_dbresult, {"EXT_IDS"}, TRUE)
                 /\ m_dbissued' = (m_dbissued + 1) % U32
                 /\ cb' = Issue(Handled("EXT_IDS"), {Query("IDS_EXTIDS")})
            ELSE /\ m_dbexecuted' = m_dbexecuted \cup {"EXT_IDS", "IDS_EXTIDS"}
                                    \cup (IF ok THEN {"EVENTS"} ELSE {})
                 /\ m_dbresult' = ResultAfter(m_dbresult, {}, FALSE)
                 /\ cb' = Handled("EXT_IDS")
                 /\ UNCHANGED m_dbissued
    BY <1>2, Zenon DEF GetExternalIds
  <2>2. /\ cb[Query("EXT_IDS")] = "db" /\ cb[Query("IDS_EXTIDS")] = "none"
        /\ UNCHANGED <<in, m_nextphase, m_msgissued, m_dbevtissued, m_evtIdLst, mutex, sent,
                       alive>>
    BY <1>2 DEF GetExternalIds, Arriving, IInv, Order
  <2>3. /\ Handled("EXT_IDS") \in [Queries -> Stages]
        /\ Handled("EXT_IDS")[Query("EXT_IDS")] = "tail"
        /\ \A q \in Queries : q # Query("EXT_IDS") => Handled("EXT_IDS")[q] = cb[q]
    BY DEF Handled, IInv, TypeOK, Stages, SingleOps
  <2>4. ASSUME ok /\ ~refused  PROVE ExtIdsStep
    <3>1. /\ m_dbexecuted' = m_dbexecuted \cup {"EXT_IDS"}
          /\ m_dbresult' = m_dbresult \cup {"EXT_IDS"}
          /\ m_dbissued' = (m_dbissued + 1) % U32
          /\ cb' = Issue(Handled("EXT_IDS"), {Query("IDS_EXTIDS")})
      BY <2>1, <2>4 DEF ResultAfter
    <3>2. /\ cb' \in [Queries -> Stages]
          /\ \A q \in Queries :
                cb'[q] = IF q = Query("IDS_EXTIDS") THEN "db" ELSE Handled("EXT_IDS")[q]
      BY <2>3, <3>1, IssueStages
    <3>3. m_dbissued' \in 0..(U32 - 1)
      <4>1. m_dbissued + 1 \in Int
        BY DEF IInv, TypeOK
      <4> QED  BY <3>1, <4>1, CounterType
    <3>4. /\ cb'[Query("EXT_IDS")] = "tail" /\ cb'[Query("IDS_EXTIDS")] \in {"none", "db"}
          /\ \A q \in Queries : q \notin {Query("EXT_IDS"), Query("IDS_EXTIDS")} => cb'[q] = cb[q]
      BY <2>3, <3>2 DEF SingleOps, IdOps
    <3>5. m_dbexecuted' \subseteq Ops /\ m_dbresult' \subseteq Ops
      BY <3>1 DEF IInv, TypeOK, Ops, SingleOps
    <3> QED  BY <3>1, <3>2, <3>3, <3>4, <3>5 DEF ExtIdsStep
  <2>5. ASSUME ~(ok /\ ~refused)  PROVE ExtIdsStep
    <3>1. /\ \/ m_dbexecuted' = m_dbexecuted \cup {"EXT_IDS", "IDS_EXTIDS"} \cup {"EVENTS"}
             \/ m_dbexecuted' = m_dbexecuted \cup {"EXT_IDS", "IDS_EXTIDS"} \cup {}
          /\ m_dbresult' = {}
          /\ cb' = Handled("EXT_IDS") /\ UNCHANGED m_dbissued
      BY <2>1, <2>5 DEF ResultAfter
    <3> QED  BY <2>2, <2>3, <3>1 DEF ExtIdsStep, SingleOps, IdOps, Ops, IInv, TypeOK
  <2>6. ExtIdsStep
    BY <2>4, <2>5
  <2>7. /\ \A o \in SingleOps \ {"EXT_IDS", "IDS_EXTIDS"} : cb'[Query(o)] = cb[Query(o)]
        /\ \A o \in IdOps, i \in EventNos : cb'[EventQuery(o, i)] = cb[EventQuery(o, i)]
    BY <2>6 DEF ExtIdsStep, SingleOps, IdOps
  <2>8. m_extIdLst' \in BOOLEAN
    BY <2>1, Zenon
  <2>9. TypeOK'
    BY <2>2, <2>6, <2>8 DEF ExtIdsStep, IInv, TypeOK
  <2>10. Order' /\ ListBounded' /\ Answers'
    BY <2>2, <2>6, <2>7 DEF ExtIdsStep, IInv, Order, ListBounded, Added, AddedByPhase3, Answers,
                            SingleOps, IdOps
  <2> QED  BY <2>9, <2>10 DEF IInv
<1>3. ASSUME NEW o \in IdOps, GetEventIds(o)  PROVE IInv'
  <2>1. PICK ok \in Fails(o) :
         /\ m_evtIdLst' = IF ~ok THEN m_evtIdLst
                          ELSE m_evtIdLst \o (IF o = "IDS_MSISDN" THEN in.evMsisdn ELSE in.evExt)
         /\ m_dbexecuted' = m_dbexecuted \cup {"IDS_MSISDN"}
         /\ m_dbresult' = ResultAfter(m_dbresult, {"IDS_MSISDN"}, ok)
    BY <1>3, Zenon DEF GetEventIds
  <2>2. /\ cb[Query(o)] = "db" /\ o \in SingleOps
        /\ UNCHANGED <<in, m_nextphase, m_msgissued, m_dbissued, m_dbevtissued, m_extIdLst,
                       mutex, sent, alive>>
    BY <1>3 DEF GetEventIds, Arriving, SingleOps
  <2>3. PICK st \in {"walk", "tail"} : cb' = [cb EXCEPT ![Query(o)] = st]
    BY <1>3 DEF GetEventIds, Handled
  <2>4. /\ cb' \in [Queries -> Stages] /\ cb'[Query(o)] = st
        /\ \A q \in Queries : q # Query(o) => cb'[q] = cb[q]
    BY <2>2, <2>3 DEF IInv, TypeOK, Stages
  <2>5. /\ \A p \in SingleOps \ {o} : cb'[Query(p)] = cb[Query(p)]
        /\ \A p \in IdOps, i \in EventNos : cb'[EventQuery(p, i)] = cb[EventQuery(p, i)]
    BY <2>2, <2>4
  <2>6. /\ m_evtIdLst' \in Seq(1..NumScefs)
        /\ Len(m_evtIdLst') <= Len(m_evtIdLst) + MaxEvents
    <3>1. in.evMsisdn \in EventLists /\ in.evExt \in EventLists
          /\ m_evtIdLst \in Seq(1..NumScefs)
      BY DEF IInv, TypeOK
    <3>2. \/ m_evtIdLst' = m_evtIdLst
          \/ m_evtIdLst' = m_evtIdLst \o in.evMsisdn
          \/ m_evtIdLst' = m_evtIdLst \o in.evExt
      BY <2>1
    <3>3. Len(m_evtIdLst) <= Len(m_evtIdLst) + MaxEvents
      BY <3>1, LenProperties
    <3>4. \A l \in EventLists : /\ m_evtIdLst \o l \in Seq(1..NumScefs)
                                 /\ Len(m_evtIdLst \o l) <= Len(m_evtIdLst) + MaxEvents
      BY <3>1, EventListAdded
    <3> QED  BY <3>1, <3>2, <3>3, <3>4
  <2>7. m_dbexecuted' \subseteq Ops /\ m_dbresult' \subseteq Ops
    BY <2>1 DEF ResultAfter, IInv, TypeOK, Ops, SingleOps, IdOps
  <2>8. TypeOK'
    BY <2>2, <2>4, <2>6, <2>7 DEF IInv, TypeOK
  <2>9. Order'
    BY <2>2, <2>4, <2>5 DEF IInv, Order, SingleOps, IdOps
  <2>10. ListBounded'
    BY <2>2, <2>4, <2>5, <2>6 DEF IInv, TypeOK, ListBounded, Added, AddedByPhase3,
                                  SingleOps, IdOps
  <2>11. Answers'
    BY <2>1, <2>2, <2>5 DEF IInv, Answers, SingleOps, IdOps
  <2> QED  BY <2>8, <2>9, <2>10, <2>11 DEF IInv
<1>4. ASSUME NEW o \in IdOps, WalkEventIds(o)  PROVE IInv'
  <2> DEFINE n == EventQueries(m_evtIdLst)
  <2>1. n \in 0..(3 * MaxEvents)
    BY WalkBound
  <2>2. PICK k \in 0..n :
         /\ m_dbissued' = (m_dbissued + k) % U32
         /\ m_dbexecuted' = m_dbexecuted \cup (IF n = 0 \/ k < n THEN {"EVENTS"} ELSE {})
         /\ m_dbresult' = CASE k < n -> {}
                             [] n = 0 -> m_dbresult \cup {"EVENTS"}
                             [] OTHER -> m_dbresult
         /\ cb' = Issue(Handled(o), WalkQueries(o, k))
    BY <1>4, Zenon DEF WalkEventIds
  <2>3. /\ cb[Query(o)] = "walk" /\ o \in SingleOps
        /\ UNCHANGED <<in, m_nextphase, m_msgissued, m_dbevtissued, lists, mutex, sent, alive>>
    BY <1>4, Zenon DEF WalkEventIds, SingleOps
  <2> HIDE DEF n
  <2>4. k \in 0..(3 * MaxEvents)
    BY <2>1, <2>2
  <2>5. /\ Handled(o) \in [Queries -> Stages] /\ Handled(o)[Query(o)] = "tail"
        /\ \A q \in Queries : q # Query(o) => Handled(o)[q] = cb[q]
    BY <2>3 DEF Handled, IInv, TypeOK, Stages
  <2>6. /\ cb' \in [Queries -> Stages]
        /\ \A q \in Queries : cb'[q] = IF q \in WalkQueries(o, k) THEN "db" ELSE Handled(o)[q]
    BY <2>2, <2>5, IssueStages
  <2>7. \A q \in WalkQueries(o, k) : \E i \in EventNos : q = EventQuery(o, i)
    BY <2>4, WalkQueriesSize
  <2>8. /\ cb'[Query(o)] = "tail"
        /\ \A p \in SingleOps \ {o} : cb'[Query(p)] = cb[Query(p)]
        /\ \A p \in IdOps \ {o}, i \in EventNos : cb'[EventQuery(p, i)] = cb[EventQuery(p, i)]
    BY <2>3, <2>5, <2>6, <2>7
  <2>9. m_dbexecuted' \subseteq Ops /\ m_dbresult' \subseteq Ops
    BY <2>1, <2>2 DEF IInv, TypeOK, Ops
  <2>10. m_dbissued' \in 0..(U32 - 1)
    BY <2>2, <2>4, CounterType DEF IInv, TypeOK
  <2>11. TypeOK'
    BY <2>3, <2>6, <2>9, <2>10 DEF IInv, TypeOK, lists
  <2>12. m_nextphase # "PHASE1"
    BY <2>3 DEF IInv, Order
  <2>13. Order' /\ ListBounded'
    BY <2>3, <2>8, <2>12 DEF IInv, Order, ListBounded, Added, AddedByPhase3, lists,
                             SingleOps, IdOps
  <2>14. Answers'
    BY <2>2, <2>3, <2>8 DEF IInv, Answers, SingleOps, IdOps
  <2> QED  BY <2>11, <2>13, <2>14 DEF IInv
<1>5. ASSUME NEW q \in Queries, Callback(q)  PROVE IInv'
  <2>1. PICK st \in {"lock", "tail", "over"} : cb' = [cb EXCEPT ![q] = st]
    BY <1>5 DEF Callback, EventsArrive, GetEvents, CallbackEnd
  <2>2. /\ cb[q] \in {"db", "lock", "tail"} /\ (cb[q] = "db" => q.op = "EVENTS")
        /\ UNCHANGED <<in, m_nextphase, lists, mutex, sent, alive>>
    BY <1>5 DEF Callback, EventsArrive, Arriving, GetEvents, CallbackEnd
  <2>3. /\ cb' \in [Queries -> Stages] /\ cb'[q] = st
        /\ \A r \in Queries : r # q => cb'[r] = cb[r]
    BY <2>1 DEF IInv, TypeOK, Stages
  <2>4. \A o \in SingleOps : Query(o) = q => cb[q] # "db"
    BY <2>2 DEF SingleOps, IdOps
  <2>5. m_nextphase # "PHASE1"
    BY <2>2 DEF IInv, Order
  <2>6. /\ m_msgissued' \in Nat /\ m_dbissued' \in 0..(U32 - 1)
        /\ m_dbevtissued' \in 0..(U32 - 1)
    <3>1. /\ m_msgissued' \in {m_msgissued, m_msgissued + 1}
          /\ m_dbissued' \in {m_dbissued, (m_dbissued - 1) % U32}
          /\ m_dbevtissued' \in {m_dbevtissued, (m_dbevtissued - 1) % U32}
      BY <1>5 DEF Callback, EventsArrive, GetEvents, CallbackEnd, TailMessages
    <3>2. m_dbissued - 1 \in Int /\ m_dbevtissued - 1 \in Int
      BY DEF IInv, TypeOK
    <3>3. (m_dbissued - 1) % U32 \in 0..(U32 - 1) /\ (m_dbevtissued - 1) % U32 \in 0..(U32 - 1)
      BY <3>2, CounterType
    <3> QED  BY <3>1, <3>3 DEF IInv, TypeOK
  <2>7. m_dbexecuted' \subseteq Ops /\ m_dbresult' \subseteq Ops
        /\ (m_dbexecuted' = m_dbexecuted \/ m_dbexecuted' = m_dbexecuted \cup {"EVENTS"})
    <3>1. /\ m_dbexecuted' \in {m_dbexecuted, m_dbexecuted \cup {"EVENTS"}, m_dbexecuted \cup {}}
          /\ m_dbresult' \in {m_dbresult, m_dbresult \cup {}, {}}
      <4>1. CASE EventsArrive(q) \/ CallbackEnd(q)
        BY <4>1 DEF EventsArrive, CallbackEnd, bits
      <4>2. CASE GetEvents(q)
        BY <4>2 DEF GetEvents, ResultAfter
      <4> QED  BY <1>5, <4>1, <4>2 DEF Callback
    <3> QED  BY <3>1 DEF IInv, TypeOK, Ops
  <2>8. TypeOK'
    BY <2>2, <2>3, <2>6, <2>7 DEF IInv, TypeOK, lists
  <2>9. Order'
    <3>1. cb'[Query("UPDATE")] # "none" => m_nextphase' \in {"PHASE5", "FINAL"}
      BY <2>2, <2>3 DEF IInv, Order, SingleOps
    <3>2. cb'[Query("EXT_IDS")] \in {"none", "db"} => cb'[Query("IDS_EXTIDS")] = "none"
      BY <2>2, <2>3 DEF IInv, Order, SingleOps, IdOps
    <3>3. ASSUME NEW o \in IdOps, cb'[Query(o)] \in {"none", "db", "walk"}, NEW i \in EventNos
          PROVE  cb'[EventQuery(o, i)] = "none"
      <4>1. Query(o) # q /\ cb[Query(o)] \in {"none", "db", "walk"}
        BY <2>3, <3>3 DEF SingleOps
      <4>2. cb[EventQuery(o, i)] = "none"
        BY <4>1 DEF IInv, Order
      <4> QED  BY <2>2, <2>3, <4>2
    <3> QED  BY <2>2, <2>5, <3>1, <3>2, <3>3 DEF Order
  <2>10. ListBounded'
    <3>1. \A o \in IdOps : Added(o)' = Added(o)
      BY <2>2, <2>3, <2>4 DEF Added, SingleOps
    <3> QED  BY <2>2, <3>1 DEF IInv, ListBounded, AddedByPhase3, lists, IdOps
  <2>11. Answers'
    BY <2>2, <2>3, <2>7 DEF IInv, Answers, SingleOps
  <2> QED  BY <2>8, <2>9, <2>10, <2>11 DEF IInv
<1> QED  BY <1>1, <1>2, <1>3, <1>4, <1>5 DEF Driver

LEMMA InvNext == ASSUME IInv, [Next]_vars  PROVE IInv'
<1>1. CASE UNCHANGED vars
  BY <1>1 DEF vars, bits, lists, IInv, TypeOK, Order, ListBounded, Added, AddedByPhase3, Answers
<1> QED  BY <1>1, WorkerInv, DriverInv DEF Next

(* In every reachable state the phase, the answers, the queries made and    *)
(* the length of the list of event ids fit each other.                      *)
THEOREM Invariance == Spec => []IInv
  BY InvInit, InvNext, PTL DEF Spec

(* The processor's variables keep their types, for any number of driver     *)
(* threads and event ids.                                                   *)
THEOREM TypeCorrect == Spec => []TypeOK
<1>1. IInv => TypeOK
  BY DEF IInv
<1> QED  BY <1>1, Invariance, PTL

(* A request is answered exactly once before its processor is deleted, and  *)
(* the location is written for a request answered with success only, and    *)
(* always tried for such a one.                                             *)
THEOREM AnsweredThenWrittenHolds == Spec => []AnsweredThenWritten
<1>1. IInv => AnsweredThenWritten
  <2> SUFFICES ASSUME IInv  PROVE AnsweredThenWritten
    OBVIOUS
  <2>1. sent = <<>> \/ sent = <<"SUCCESS">> \/ (m_nextphase = "FINAL" /\ Len(sent) = 1)
    BY DEF IInv, TypeOK, Answers, Phases
  <2>2. Len(<<>>) = 0 /\ Len(<<"SUCCESS">>) = 1
    OBVIOUS
  <2>3. Len(sent) \in {0, 1}
    BY <2>1, <2>2
  <2>4. (Len(sent) <= 1) /\ (~alive => Len(sent) = 1)
    BY <2>3 DEF IInv, Answers
  <2> QED  BY <2>4 DEF IInv, Answers, AnsweredThenWritten
<1> QED  BY <1>1, Invariance, PTL

-----------------------------------------------------------------------------
(* Queries that start add to the count, one that ends leaves it; a 32-bit    *)
(* counter is wide enough for all of them.                                   *)
LEMMA CountAdd ==
  ASSUME NEW A \in SUBSET Queries, NEW B \in SUBSET Queries, A \cap B = {}
  PROVE  (Cardinality(A) + Cardinality(B)) % U32 = Cardinality(A \cup B)
<1>1. IsFiniteSet(A) /\ IsFiniteSet(B) /\ IsFiniteSet(A \cup B)
  BY QueriesFinite, FS_Subset
<1>2. Cardinality(A) \in Nat /\ Cardinality(B) \in Nat
  BY <1>1, FS_CardinalityType
<1>3. Cardinality(A \cup B) = Cardinality(A) + Cardinality(B)
  BY <1>1, <1>2, FS_Union, FS_EmptySet
<1>4. Cardinality(A \cup B) <= Cardinality(Queries)
  <2>1. A \cup B \in SUBSET Queries
    OBVIOUS
  <2> QED  BY <2>1, QueriesFinite, FS_Subset
<1>5. Cardinality(A) + Cardinality(B) < U32
  BY <1>2, <1>3, <1>4, QueriesFinite, ULRAssumption
<1> QED  BY <1>2, <1>3, <1>5, SmallMod, ULRAssumption

LEMMA CountRemove ==
  ASSUME NEW A \in SUBSET Queries, NEW q \in A
  PROVE  (Cardinality(A) - 1) % U32 = Cardinality(A \ {q})
<1>1. IsFiniteSet(A) /\ Cardinality(A) <= Cardinality(Queries)
  BY QueriesFinite, FS_Subset
<1>2. IsFiniteSet(A \ {q}) /\ Cardinality(A \ {q}) = Cardinality(A) - 1
  BY <1>1, FS_RemoveElement
<1>3. Cardinality(A) \in Nat /\ Cardinality(A \ {q}) \in Nat
  BY <1>1, <1>2, FS_CardinalityType
<1>4. Cardinality(A) - 1 < U32
  BY <1>1, <1>3, QueriesFinite, ULRAssumption
<1> QED  BY <1>2, <1>3, <1>4, SmallMod, ULRAssumption

(* Only a step of a processor that is not deleted is possible.               *)
LEMMA StepAlive == ASSUME IInv, Next  PROVE alive
<1>1. CASE Worker
  BY <1>1 DEF Worker, IInv, Answers, Enter, Phase1, Phase2, Phase3Wait, Phase3Wake, Phase3,
              Phase4, Phase5, Delete, Leave, Running
<1>2. CASE Driver
  BY <1>2, Zenon DEF Driver, SimpleHandler, GetExternalIds, GetEventIds, WalkEventIds, Callback,
              EventsArrive, GetEvents, CallbackEnd, Arriving
<1> QED  BY <1>1, <1>2 DEF Next

(* Each step changes the count as it changes the queries in flight.          *)
LEMMA CountNext ==
  ASSUME LaterAccepted, IInv, Next, DbIssuedCountsInFlight
  PROVE  DbIssuedCountsInFlight'
<1> USE QueryNames
<1>0. InFlight \in SUBSET Queries /\ m_dbissued = Cardinality(InFlight)
  BY DEF InFlight, DbIssuedCountsInFlight
<1>1. ASSUME UNCHANGED <<cb, m_dbissued>>  PROVE DbIssuedCountsInFlight'
  BY <1>1 DEF DbIssuedCountsInFlight, InFlight
<1>2. ASSUME NEW B \in SUBSET Queries, InFlight \cap B = {}, InFlight' = InFlight \cup B,
             m_dbissued' = (m_dbissued + Cardinality(B)) % U32
      PROVE  DbIssuedCountsInFlight'
  BY <1>0, <1>2, CountAdd DEF DbIssuedCountsInFlight
<1>3. ASSUME UNCHANGED m_dbissued, InFlight' = InFlight  PROVE DbIssuedCountsInFlight'
  BY <1>0, <1>3 DEF DbIssuedCountsInFlight
<1>4. CASE Worker
  <2>1. CASE Enter \/ Phase2 \/ Phase3Wait \/ Phase3Wake \/ Phase3 \/ Phase5 \/ Delete \/ Leave
    <3>1. UNCHANGED <<cb, m_dbissued>>
      BY <2>1, Zenon DEF Enter, Phase2, Phase3Wait, Phase3Wake, Phase3, Phase5, Delete, Leave
    <3> QED  BY <1>1, <3>1
  <2>2. CASE Phase1
    <3>1. /\ \A q \in Queries : cb[q] = "none"
          /\ cb \in [Queries -> Stages]
      BY <2>2 DEF Phase1, Running, IInv, TypeOK, Order
    <3>2. InFlight = {}
      BY <3>1 DEF InFlight
    <3>3. CASE in.longImsi
      BY <2>2, <3>3, <1>1 DEF Phase1
    <3>4. CASE ~in.longImsi
      <4>1. PICK k \in 0..4 :
               /\ k < 4 => InitialQueries[k + 1] \in MayNotIssue
               /\ cb' = Issue(cb, {Query(InitialQueries[i]) : i \in 1..k})
               /\ m_dbissued' = (m_dbissued + Phase1Issued(k)) % U32
        BY <2>2, <3>4, Zenon DEF Phase1
      <4>2. k \in {0, 4}
        BY <4>1 DEF LaterAccepted, InitialQueries
      <4> DEFINE B == {Query(InitialQueries[i]) : i \in 1..k}
      <4>3. B \in SUBSET Queries
        BY DEF InitialQueries, SingleOps, IdOps
      <4>4. InFlight' = B
        <5>1. \A q \in Queries : cb'[q] = IF q \in B THEN "db" ELSE cb[q]
          BY <3>1, <4>1, IssueStages
        <5> QED  BY <3>1, <4>3, <5>1 DEF InFlight
      <4>5. Cardinality(B) = Phase1Issued(k)
        <5>1. CASE k = 0
          <6>1. B = {}
            BY <5>1
          <6> QED  BY <5>1, <6>1, FS_EmptySet DEF Phase1Issued
        <5>2. CASE k = 4
          <6>1. B = {Query("IMSI_INFO")} \cup {Query("EXT_IDS")} \cup {Query("IDS_MSISDN")}
                    \cup {Query("MMEID")}
            BY <5>2 DEF InitialQueries
          <6>2. IsFiniteSet({Query("IMSI_INFO")}) /\ Cardinality({Query("IMSI_INFO")}) = 1
            BY FS_Singleton
          <6> DEFINE B2 == {Query("IMSI_INFO")} \cup {Query("EXT_IDS")}
                     B3 == B2 \cup {Query("IDS_MSISDN")}
                     B4 == B3 \cup {Query("MMEID")}
          <6>3. /\ Query("EXT_IDS") \notin {Query("IMSI_INFO")}
                /\ Query("IDS_MSISDN") \notin B2 /\ Query("MMEID") \notin B3
            OBVIOUS
          <6>4. IsFiniteSet(B2) /\ Cardinality(B2) = 1 + 1
            BY <6>2, <6>3, FS_AddElement, Zenon
          <6> HIDE DEF B2
          <6>5. IsFiniteSet(B3) /\ Cardinality(B3) = 1 + 1 + 1
            BY <6>3, <6>4, FS_AddElement, Zenon
          <6> HIDE DEF B3
          <6>6. IsFiniteSet(B4) /\ Cardinality(B4) = 1 + 1 + 1 + 1
            BY <6>3, <6>5, FS_AddElement, Zenon
          <6>7. B = B4
            BY <6>1 DEF B2, B3
          <6> HIDE DEF B, B4
          <6> QED  BY <5>2, <6>6, <6>7 DEF Phase1Issued
        <5> QED  BY <4>2, <5>1, <5>2
      <4> HIDE DEF B
      <4> QED  BY <1>2, <3>2, <4>1, <4>3, <4>4, <4>5
    <3> QED  BY <3>3, <3>4
  <2>3. CASE Phase4
    <3>1. CASE /\ cb' = Issue(cb, {Query("UPDATE")})
               /\ m_dbissued' = (m_dbissued + 1) % U32
      <4>1. cb[Query("UPDATE")] = "none"
        BY <2>3 DEF Phase4, Running, IInv, Order
      <4>2. \A q \in Queries : cb'[q] = IF q = Query("UPDATE") THEN "db" ELSE cb[q]
        BY <3>1, IssueStages DEF IInv, TypeOK
      <4>3. InFlight' = InFlight \cup {Query("UPDATE")} /\ InFlight \cap {Query("UPDATE")} = {}
        BY <4>1, <4>2 DEF InFlight, SingleOps
      <4>4. Cardinality({Query("UPDATE")}) = 1
        BY FS_Singleton
      <4> QED  BY <1>2, <3>1, <4>3, <4>4 DEF SingleOps
    <3>2. CASE UNCHANGED <<cb, m_dbissued>>
      BY <1>1, <3>2
    <3> QED  BY <2>3, <3>1, <3>2 DEF Phase4
  <2> QED  BY <1>4, <2>1, <2>2, <2>3 DEF Worker
<1>5. CASE Driver
  <2>1. ASSUME NEW o \in {"IMSI_INFO", "MMEID", "UPDATE"}, SimpleHandler(o)
        PROVE  DbIssuedCountsInFlight'
    <3>1. /\ cb[Query(o)] = "db" /\ cb' = [cb EXCEPT ![Query(o)] = "tail"]
          /\ UNCHANGED m_dbissued
      BY <2>1 DEF SimpleHandler, Arriving, Handled
    <3>2. InFlight' = InFlight
      BY <3>1 DEF InFlight, IInv, TypeOK, SingleOps
    <3> QED  BY <1>3, <3>1, <3>2
  <2>2. CASE GetExternalIds
    <3>1. /\ cb[Query("EXT_IDS")] = "db" /\ cb[Query("IDS_EXTIDS")] = "none"
      BY <2>2 DEF GetExternalIds, Arriving, IInv, Order
    <3>2. /\ Handled("EXT_IDS") \in [Queries -> Stages]
          /\ Handled("EXT_IDS")[Query("EXT_IDS")] = "tail"
          /\ \A q \in Queries : q # Query("EXT_IDS") => Handled("EXT_IDS")[q] = cb[q]
      BY DEF Handled, IInv, TypeOK, Stages, SingleOps
    <3>3. CASE /\ m_dbissued' = (m_dbissued + 1) % U32
               /\ cb' = Issue(Handled("EXT_IDS"), {Query("IDS_EXTIDS")})
      <4>1. \A q \in Queries :
               cb'[q] = IF q = Query("IDS_EXTIDS") THEN "db" ELSE Handled("EXT_IDS")[q]
        BY <3>2, <3>3, IssueStages
      <4>2. /\ InFlight' = InFlight \cup {Query("IDS_EXTIDS")}
            /\ InFlight \cap {Query("IDS_EXTIDS")} = {}
        BY <3>1, <3>2, <4>1 DEF InFlight, SingleOps, IdOps
      <4>3. Cardinality({Query("IDS_EXTIDS")}) = 1
        BY FS_Singleton
      <4> QED  BY <1>2, <3>3, <4>2, <4>3 DEF SingleOps, IdOps
    <3>4. CASE cb' = Handled("EXT_IDS") /\ UNCHANGED m_dbissued
      <4>1. InFlight' = InFlight
        BY <3>1, <3>2, <3>4 DEF InFlight
      <4> QED  BY <1>3, <3>4, <4>1
    <3> QED  BY <2>2, <3>3, <3>4, Zenon DEF GetExternalIds
  <2>3. ASSUME NEW o \in IdOps, GetEventIds(o)  PROVE DbIssuedCountsInFlight'
    <3>1. /\ cb[Query(o)] = "db" /\ UNCHANGED m_dbissued
      BY <2>3 DEF GetEventIds, Arriving
    <3>2. PICK st \in {"walk", "tail"} : cb' = [cb EXCEPT ![Query(o)] = st]
      BY <2>3 DEF GetEventIds, Handled
    <3>3. InFlight' = InFlight
      BY <3>1, <3>2 DEF InFlight, IInv, TypeOK, SingleOps
    <3> QED  BY <1>3, <3>1, <3>3
  <2>4. ASSUME NEW o \in IdOps, WalkEventIds(o)  PROVE DbIssuedCountsInFlight'
    <3>1. EventQueries(m_evtIdLst) \in 0..(3 * MaxEvents)
      BY WalkBound
    <3>2. PICK k \in 0..EventQueries(m_evtIdLst) :
             /\ m_dbissued' = (m_dbissued + k) % U32
             /\ cb' = Issue(Handled(o), WalkQueries(o, k))
      BY <2>4, Zenon DEF WalkEventIds
    <3>3. k \in 0..(3 * MaxEvents) /\ o \in SingleOps /\ cb[Query(o)] = "walk"
      <4>1. cb[Query(o)] = "walk"
        BY <2>4, Zenon DEF WalkEventIds
      <4> QED  BY <3>1, <3>2, <4>1, ULRAssumption DEF SingleOps
    <3>4. /\ Handled(o) \in [Queries -> Stages] /\ Handled(o)[Query(o)] = "tail"
          /\ \A q \in Queries : q # Query(o) => Handled(o)[q] = cb[q]
      BY <3>3 DEF Handled, IInv, TypeOK, Stages
    <3>5. \A q \in Queries : cb'[q] = IF q \in WalkQueries(o, k) THEN "db" ELSE Handled(o)[q]
      BY <3>2, <3>4, IssueStages
    <3>6. /\ WalkQueries(o, k) \subseteq Queries /\ Cardinality(WalkQueries(o, k)) = k
          /\ \A q \in WalkQueries(o, k) : \E i \in EventNos : q = EventQuery(o, i)
      BY <3>3, WalkQueriesSize
    <3>7. \A q \in WalkQueries(o, k) : cb[q] = "none" /\ q # Query(o)
      <4>1. \A i \in EventNos : cb[EventQuery(o, i)] = "none"
        BY <3>3 DEF IInv, Order
      <4> QED  BY <3>3, <3>6, <4>1
    <3>8. InFlight' = InFlight \cup WalkQueries(o, k) /\ InFlight \cap WalkQueries(o, k) = {}
      BY <3>3, <3>4, <3>5, <3>6, <3>7 DEF InFlight
    <3> QED  BY <1>2, <3>2, <3>6, <3>8
  <2>5. ASSUME NEW q \in Queries, Callback(q)  PROVE DbIssuedCountsInFlight'
    <3>1. CASE EventsArrive(q) \/ GetEvents(q)
      <4>1. PICK st \in {"lock", "tail"} : cb' = [cb EXCEPT ![q] = st]
        BY <3>1 DEF EventsArrive, GetEvents
      <4>2. cb[q] \in {"db", "lock"} /\ UNCHANGED m_dbissued
        BY <3>1 DEF EventsArrive, GetEvents, Arriving
      <4>3. InFlight' = InFlight
        BY <4>1, <4>2 DEF InFlight, IInv, TypeOK
      <4> QED  BY <1>3, <4>2, <4>3
    <3>2. CASE CallbackEnd(q)
      <4>1. /\ cb[q] = "tail" /\ cb' = [cb EXCEPT ![q] = "over"]
            /\ m_dbissued' = (m_dbissued - 1) % U32
        BY <3>2 DEF CallbackEnd
      <4>2. q \in InFlight /\ InFlight' = InFlight \ {q}
        BY <4>1 DEF InFlight, IInv, TypeOK
      <4> QED  BY <1>0, <4>1, <4>2, CountRemove DEF DbIssuedCountsInFlight
    <3> QED  BY <2>5, <3>1, <3>2 DEF Callback
  <2> QED  BY <1>5, <2>1, <2>2, <2>3, <2>4, <2>5 DEF Driver
<1> QED  BY <1>4, <1>5 DEF Next

LEMMA CountedNext == ASSUME LaterAccepted, IInv, Counted, [Next]_vars  PROVE Counted'
<1>1. CASE UNCHANGED vars
  BY <1>1 DEF vars, Counted, DbIssuedCountsInFlight, NoUseAfterDelete, InFlight
<1>2. CASE Next
  <2>1. DbIssuedCountsInFlight'
    BY <1>2, CountNext DEF Counted
  <2>2. CASE Delete
    <3>1. m_dbissued = 0 /\ m_msgissued = 0 /\ UNCHANGED <<cb, m_msgissued>>
      BY <2>2 DEF Delete, Running, PhaseReady
    <3>2. IsFiniteSet(InFlight)
      BY QueriesFinite, FS_Subset DEF InFlight
    <3>3. InFlight = {}
      BY <3>1, <3>2, FS_EmptySet DEF Counted, DbIssuedCountsInFlight
    <3>4. InFlight' = {} /\ m_msgissued' = 0
      BY <3>1, <3>3 DEF InFlight
    <3> QED  BY <2>1, <3>4 DEF Counted, NoUseAfterDelete
  <2>3. CASE ~Delete
    <3>1. UNCHANGED alive
      BY <1>2, <2>3, Zenon DEF Next, Worker, Driver, Enter, Phase1, Phase2, Phase3Wait, Phase3Wake,
         Phase3, Phase4, Phase5, Leave, SimpleHandler, GetExternalIds, GetEventIds, WalkEventIds,
         Callback, EventsArrive, GetEvents, CallbackEnd
    <3>2. alive'
      BY <1>2, <3>1, StepAlive
    <3> QED  BY <2>1, <3>2 DEF Counted, NoUseAfterDelete
  <2> QED  BY <2>2, <2>3
<1> QED  BY <1>1, <1>2

LEMMA CountedInit == Init => Counted
<1>1. Init => InFlight = {} /\ m_dbissued = 0 /\ alive
  BY DEF Init, InFlight
<1> QED  BY <1>1, FS_EmptySet DEF Counted, DbIssuedCountsInFlight, NoUseAfterDelete

(* m_dbissued is the number of queries in flight at every step of every      *)
(* thread, for any number of driver threads, event ids and failing queries,  *)
(* as long as the driver accepts the queries phase1 makes after its first.   *)
THEOREM DbIssuedCountsInFlightHolds == LaterAccepted => (Spec => []DbIssuedCountsInFlight)
<1> SUFFICES ASSUME LaterAccepted  PROVE Spec => []DbIssuedCountsInFlight
  OBVIOUS
<1>1. IInv /\ Counted /\ [Next]_vars => Counted'
  BY CountedNext
<1>2. Counted => DbIssuedCountsInFlight
  BY DEF Counted
<1> QED  BY <1>1, <1>2, CountedInit, Invariance, PTL DEF Spec

(* Under the same condition no callback and no worker message refers to a    *)
(* processor that processNextPhase has deleted.                              *)
THEOREM NoUseAfterDeleteHolds == LaterAccepted => (Spec => []NoUseAfterDelete)
<1> SUFFICES ASSUME LaterAccepted  PROVE Spec => []NoUseAfterDelete
  OBVIOUS
<1>1. IInv /\ Counted /\ [Next]_vars => Counted'
  BY CountedNext
<1>2. Counted => NoUseAfterDelete
  BY DEF Counted
<1> QED  BY <1>1, <1>2, CountedInit, Invariance, PTL DEF Spec
============================================================================
