---------------------------- MODULE ULRProcessor ----------------------------
(***************************************************************************)
(* One Update-Location request, from the worker message that starts it to  *)
(* the delete of its processor (class ULRProcessor, src/s6as6d_impl.cpp).  *)
(*                                                                         *)
(* phase1 sends four queries to Cassandra.  Each answer arrives on a driver*)
(* I/O thread: on_ulr_callback first runs the query's handler, which holds *)
(* no lock of the phases, and then, under m_mutex, posts a worker message  *)
(* and decrements m_dbissued.  A worker that gets such a message takes     *)
(* m_mutex and runs phases as long as the next one is ready.  Event ids    *)
(* found by two of the queries lead to further queries for the events.     *)
(*                                                                         *)
(* The bit masks m_dbexecuted and m_dbresult are sets of query names.  The *)
(* checks phase2 makes of the request and the subscriber's row are one     *)
(* verdict: each refusal answers and ends the request in the same way.  The*)
(* reports (RIR) of phase3 are left out: they change nothing the processor *)
(* reads again.                                                            *)
(***************************************************************************)
EXTENDS Integers, Sequences, FiniteSets

CONSTANTS
    SkipChoices,    \* whether the request sets ULR_SKIP_SUBSCRIBER_DATA
    NumScefs,       \* SCEF ids are 1..NumScefs, in the order the list sorts them
    MaxEvents,      \* bound: event ids one id query returns
    IOThreads,      \* driver threads that run callbacks
    MayFail,        \* queries that may complete with an error
    MayNotIssue,    \* queries whose callback the driver may refuse
    U32             \* stands for 2^32: the unsigned counters wrap here

IdOps == {"IDS_MSISDN", "IDS_EXTIDS"}
SingleOps == {"IMSI_INFO", "EXT_IDS", "MMEID", "UPDATE"} \cup IdOps
Ops == SingleOps \cup {"EVENTS"}

(* The queries: each single one is made at most once; the event queries are *)
(* numbered by the id query whose answer led to them.  Each makes at most   *)
(* one per id of a list to which two queries and phase3 add their ids.      *)
EventNos == 1..(3 * MaxEvents)
Queries == [op : SingleOps, no : {0}] \cup [op : {"EVENTS"}, by : IdOps, no : EventNos]
Query(o) == [op |-> o, no |-> 0]
EventQuery(o, i) == [op |-> "EVENTS", by |-> o, no |-> i]
Stages == {"none", "db", "walk", "lock", "tail", "over"}
Verdicts == {"OK", "REFUSED"}
Phases == {"PHASE1", "PHASE2", "PHASE3", "PHASE4", "PHASE5", "FINAL"}
EventLists == UNION {[1..n -> 1..NumScefs] : n \in 0..MaxEvents}

ASSUME ULRAssumption ==
    /\ SkipChoices \subseteq BOOLEAN /\ MayFail \subseteq Ops /\ MayNotIssue \subseteq Ops
    /\ NumScefs \in Nat /\ MaxEvents \in Nat
    /\ IOThreads \in Nat \ {0} /\ U32 \in Nat /\ U32 > Cardinality(Queries)

VARIABLES
    in,             \* the request, and what the database holds about it
    m_nextphase, m_msgissued, m_dbissued, m_dbevtissued, m_dbexecuted, m_dbresult,
    m_extIdLst,     \* whether the list of external ids has an element
    m_evtIdLst,     \* the SCEF of each event id
    mutex,          \* m_mutex: free, held by a worker, by a worker that waits
                    \* for a synchronous query ("blocked") or has its result
                    \* ("woken")
    cb,             \* of each query: not made, with the database, its callback
                    \* in getEvents(), or waiting for m_mutex inside or after
                    \* the handler, over
    sent,           \* result codes sent in answers
    alive           \* the processor is not deleted

vars == <<in, m_nextphase, m_msgissued, m_dbissued, m_dbevtissued, m_dbexecuted,
          m_dbresult, m_extIdLst, m_evtIdLst, mutex, cb, sent, alive>>
bits == <<m_dbexecuted, m_dbresult>>
lists == <<m_extIdLst, m_evtIdLst>>

(* The constructor, and the first triggerNextPhase (startProcessor).  The   *)
(* MSISDN whose event ids are read is never set: any list may come back.    *)
Init ==
    /\ in \in [longImsi : BOOLEAN, user : BOOLEAN, mme : BOOLEAN, skip : SkipChoices,
               verdict : Verdicts, ext : BOOLEAN,
               evMsisdn : EventLists, evExt : EventLists]
    /\ in.longImsi \/ ~in.user =>
          /\ in.verdict = "OK" /\ ~in.mme /\ ~in.ext /\ in.evMsisdn = <<>>
    /\ ~in.ext => in.evExt = <<>>
    /\ m_nextphase = "PHASE1" /\ m_msgissued = 1
    /\ m_dbissued = 0 /\ m_dbevtissued = 0
    /\ m_dbexecuted = {} /\ m_dbresult = Ops
    /\ m_extIdLst = FALSE /\ m_evtIdLst = <<>>
    /\ mutex = "free"
    /\ cb = [q \in Queries |-> "none"]
    /\ sent = <<>> /\ alive = TRUE

-----------------------------------------------------------------------------
InFlight == {q \in Queries : cb[q] \in {"db", "walk", "lock", "tail"}}
(* Callbacks that occupy an I/O thread.                                     *)
OnThread == {q \in Queries : cb[q] \in {"walk", "lock", "tail"}}
ThreadFree == Cardinality(OnThread) < IOThreads

(* DB_OP_COMPLETE_RESULT: a failure clears every bit, for it ands the mask  *)
(* with !item, which is 0, and not with ~item.                              *)
ResultAfter(r, E, ok) == IF ok THEN r \cup E ELSE {}

(* phaseReady.  The unsigned difference is <= 0 only when it is 0.          *)
PhaseReady_FinalAnyTime == TRUE
PhaseReady ==
    CASE m_nextphase = "PHASE1" -> TRUE
      [] m_nextphase = "PHASE2" -> "IMSI_INFO" \in m_dbexecuted
      [] m_nextphase = "PHASE3" -> in.skip \/ "EVENTS" \in m_dbexecuted
      [] m_nextphase = "PHASE4" -> "MMEID" \in m_dbexecuted
      [] m_nextphase = "PHASE5" -> "UPDATE" \in m_dbexecuted
      [] m_nextphase = "FINAL"  -> m_dbissued = 0 /\ m_msgissued = 0

Reply(code) == sent' = Append(sent, code)
Issue(c, Q) == [q \in Queries |-> IF q \in Q THEN "db" ELSE c[q]]

(* The order in which phase1 issues its queries, and what it leaves in      *)
(* m_dbissued when k of them were accepted: the first is counted last, and  *)
(* only if all four were.                                                   *)
InitialQueries == <<"IMSI_INFO", "EXT_IDS", "IDS_MSISDN", "MMEID">>
Phase1Issued_NoLast(k) == IF k = 0 THEN 0 ELSE k - 1
Phase1Issued(k) == IF k \in {0, 4} THEN k ELSE k - 1

(* The queries phase1 marks as complete and failed when number k + 1 is     *)
(* refused.                                                                 *)
Phase1Failed(k) ==
    CASE k = 0 -> {"IMSI_INFO"}
      [] k = 1 -> {"EXT_IDS", "IDS_EXTIDS", "EVENTS"}
      [] k = 2 -> {"IDS_MSISDN", "EVENTS"}
      [] k = 3 -> {"MMEID"}
      [] k = 4 -> {}

-----------------------------------------------------------------------------
(* processNextPhase takes m_mutex; acquire(FALSE) waits for it all the same.*)
Enter ==
    /\ alive /\ mutex = "free" /\ m_msgissued > 0
    /\ mutex' = "worker"
    /\ m_msgissued' = m_msgissued - 1
    /\ UNCHANGED <<in, m_nextphase, m_dbissued, m_dbevtissued, bits, lists, cb, sent, alive>>

Running(phase) == mutex = "worker" /\ m_nextphase = phase /\ PhaseReady

(* phase1: refuse an overlong IMSI, else issue the four queries.            *)
Phase1 ==
    /\ Running("PHASE1")
    /\ \/ /\ in.longImsi
          /\ Reply("INVALID_AVP_VALUE")
          /\ m_nextphase' = "FINAL"
          /\ UNCHANGED <<m_dbissued, bits, cb>>
       \/ /\ ~in.longImsi
          /\ \E k \in 0..4 :
               /\ k < 4 => InitialQueries[k + 1] \in MayNotIssue
               /\ cb' = Issue(cb, {Query(InitialQueries[i]) : i \in 1..k})
               /\ m_dbissued' = (m_dbissued + Phase1Issued(k)) % U32
               /\ m_dbexecuted' = m_dbexecuted \cup Phase1Failed(k)
               /\ m_dbresult' = ResultAfter(m_dbresult, {}, k = 4)
               /\ m_nextphase' = IF k = 4 THEN "PHASE2" ELSE "FINAL"
               /\ IF k = 4 THEN UNCHANGED sent ELSE Reply("USER_UNKNOWN")
    /\ UNCHANGED <<in, m_msgissued, m_dbevtissued, lists, mutex, alive>>

(* phase2: the subscriber is known and the request acceptable, or refuse.   *)
Phase2 ==
    /\ Running("PHASE2")
    /\ LET code == IF "IMSI_INFO" \in m_dbresult THEN in.verdict ELSE "USER_UNKNOWN"
       IN  IF code = "OK"
           THEN m_nextphase' = "PHASE3" /\ UNCHANGED sent
           ELSE m_nextphase' = "FINAL" /\ Reply(code)
    /\ UNCHANGED <<in, m_msgissued, m_dbissued, m_dbevtissued, bits, lists, mutex, cb, alive>>

(* phase3 without the skip flag reads events with synchronous queries: the  *)
(* worker waits for them with m_mutex held.                                 *)
QueriesEvents == ~in.skip /\ (m_extIdLst \/ m_evtIdLst # <<>>)
Phase3Wait ==
    /\ Running("PHASE3") /\ QueriesEvents
    /\ mutex' = "blocked"
    /\ UNCHANGED <<in, m_nextphase, m_msgissued, m_dbissued, m_dbevtissued, bits, lists,
                   cb, sent, alive>>

(* A synchronous query needs an I/O thread to complete it.                  *)
Phase3Wake ==
    /\ mutex = "blocked" /\ ThreadFree
    /\ mutex' = "woken"
    /\ UNCHANGED <<in, m_nextphase, m_msgissued, m_dbissued, m_dbevtissued, bits, lists,
                   cb, sent, alive>>

(* Then phase3 adds the ids of the external ids once more, without          *)
(* m_lstmutex, and answers.                                                 *)
NextAfterAnswer_Final == "FINAL"
NextAfterAnswer_AirState == "AIRSTATE_PHASE4"
NextAfterAnswer == "PHASE4"
Phase3 ==
    /\ \/ Running("PHASE3") /\ ~QueriesEvents
       \/ mutex = "woken"
    /\ mutex' = "worker"
    /\ m_evtIdLst' = IF ~in.skip /\ m_extIdLst THEN m_evtIdLst \o in.evExt ELSE m_evtIdLst
    /\ Reply("SUCCESS")
    /\ m_nextphase' = NextAfterAnswer
    /\ UNCHANGED <<in, m_msgissued, m_dbissued, m_dbevtissued, bits, m_extIdLst, cb, alive>>

(* phase4: issue the write of the location.                                 *)
Phase4 ==
    /\ Running("PHASE4")
    /\ \/ /\ cb' = Issue(cb, {Query("UPDATE")})
          /\ m_dbissued' = (m_dbissued + 1) % U32
          /\ m_nextphase' = "PHASE5"
          /\ UNCHANGED bits
       \/ /\ "UPDATE" \in MayNotIssue
          /\ m_dbexecuted' = m_dbexecuted \cup {"UPDATE"}
          /\ m_dbresult' = ResultAfter(m_dbresult, {"UPDATE"}, FALSE)
          /\ m_nextphase' = "FINAL"
          /\ UNCHANGED <<cb, m_dbissued>>
    /\ UNCHANGED <<in, m_msgissued, m_dbevtissued, lists, mutex, sent, alive>>

Phase5 ==
    /\ Running("PHASE5")
    /\ m_nextphase' = "FINAL"
    /\ UNCHANGED <<in, m_msgissued, m_dbissued, m_dbevtissued, bits, lists, mutex, cb,
                   sent, alive>>

(* PHASEFINAL: leave the lock's scope and delete.                           *)
Delete ==
    /\ Running("FINAL")
    /\ alive' = FALSE /\ mutex' = "free"
    /\ UNCHANGED <<in, m_nextphase, m_msgissued, m_dbissued, m_dbevtissued, bits, lists,
                   cb, sent>>

(* No phase is ready: the worker leaves.                                    *)
Leave ==
    /\ mutex = "worker" /\ ~PhaseReady
    /\ mutex' = "free"
    /\ UNCHANGED <<in, m_nextphase, m_msgissued, m_dbissued, m_dbevtissued, bits, lists,
                   cb, sent, alive>>

-----------------------------------------------------------------------------
Arriving(q) == alive /\ cb[q] = "db" /\ ThreadFree
Handled(o) == [cb EXCEPT ![Query(o)] = "tail"]
Fails(o) == IF o \in MayFail THEN {TRUE, FALSE} ELSE {TRUE}

(* getImsiInfo, getMmeIdentity, updateImsiInfo: record the outcome.         *)
Found(o) == CASE o = "IMSI_INFO" -> {in.user}
              [] o = "MMEID" -> {in.mme} \cup (Fails(o) \ {TRUE})
              [] o = "UPDATE" -> Fails(o)
SimpleHandler(o) ==
    /\ Arriving(Query(o))
    /\ \E ok \in Found(o) : m_dbresult' = ResultAfter(m_dbresult, {o}, ok)
    /\ m_dbexecuted' = m_dbexecuted \cup {o}
    /\ cb' = Handled(o)
    /\ UNCHANGED <<in, m_nextphase, m_msgissued, m_dbissued, m_dbevtissued, lists, mutex,
                   sent, alive>>

(* getExternalIds: on success ask for the event ids of the external ids.    *)
GetExternalIds ==
    /\ Arriving(Query("EXT_IDS"))
    /\ \E ok \in Fails("EXT_IDS"), refused \in {FALSE, "IDS_EXTIDS" \in MayNotIssue} :
         /\ m_extIdLst' = (ok /\ in.ext)
         /\ IF ok /\ ~refused
            THEN /\ m_dbexecuted' = m_dbexecuted \cup {"EXT_IDS"}
                 /\ m_dbresult' = ResultAfter(m_dbresult, {"EXT_IDS"}, TRUE)
                 /\ m_dbissued' = (m_dbissued + 1) % U32
                 /\ cb' = Issue(Handled("EXT_IDS"), {Query("IDS_EXTIDS")})
            ELSE /\ m_dbexecuted' = m_dbexecuted \cup {"EXT_IDS", "IDS_EXTIDS"}
                                    \cup (IF ok THEN {"EVENTS"} ELSE {})
                 /\ m_dbresult' = ResultAfter(m_dbresult, {}, FALSE)
                 /\ cb' = Handled("EXT_IDS")
                 /\ UNCHANGED m_dbissued
    /\ UNCHANGED <<in, m_nextphase, m_msgissued, m_dbevtissued, m_evtIdLst, mutex, sent, alive>>

(* The queries getEvents() makes of the sorted list: one per run of equal   *)
(* SCEF ids, but the first event id always goes alone, for scef_id starts   *)
(* empty and is set only after a query.                                     *)
SortedList(l) == CHOOSE s \in [1..Len(l) -> 1..NumScefs] :
    /\ \A i \in 2..Len(l) : s[i - 1] <= s[i]
    /\ \A v \in 1..NumScefs : Cardinality({i \in 1..Len(l) : s[i] = v})
                              = Cardinality({i \in 1..Len(l) : l[i] = v})
WalkQueries(o, k) == {EventQuery(o, i) : i \in 1..k}
EventQueries(l) ==
    IF Len(l) < 2 THEN Len(l)
    ELSE 2 + Cardinality({i \in 3..Len(l) : SortedList(l)[i] # SortedList(l)[i - 1]})

(* The test that follows an id query: any of the bits, both of which start  *)
(* out set in m_dbresult.                                                   *)
WantsEvents(executed, result) == executed \cap IdOps # {} /\ result \cap IdOps # {}

(* getEventIdsMsisdn and getEventIdsExternalIds, which both mark the MSISDN *)
(* query: add the ids to the list, under m_lstmutex.                        *)
GetEventIds(o) ==
    /\ Arriving(Query(o))
    /\ \E ok \in Fails(o) :
         /\ m_evtIdLst' = IF ~ok THEN m_evtIdLst
                          ELSE m_evtIdLst \o (IF o = "IDS_MSISDN" THEN in.evMsisdn ELSE in.evExt)
         /\ m_dbexecuted' = m_dbexecuted \cup {"IDS_MSISDN"}
         /\ m_dbresult' = ResultAfter(m_dbresult, {"IDS_MSISDN"}, ok)
    /\ cb' = IF WantsEvents(m_dbexecuted', m_dbresult')
             THEN [cb EXCEPT ![Query(o)] = "walk"] ELSE Handled(o)
    /\ UNCHANGED <<in, m_nextphase, m_msgissued, m_dbissued, m_dbevtissued, m_extIdLst,
                   mutex, sent, alive>>

(* getEvents(): sort and walk the list, m_lstmutex released, and ask for    *)
(* the events of its ids; k of the queries are accepted.                    *)
WalkEventIds(o) ==
    LET n == EventQueries(m_evtIdLst) IN
    /\ alive /\ cb[Query(o)] = "walk"
    /\ \E k \in 0..n :
         /\ k < n => "EVENTS" \in MayNotIssue
         /\ m_dbissued' = (m_dbissued + k) % U32
         /\ m_dbexecuted' = m_dbexecuted \cup (IF n = 0 \/ k < n THEN {"EVENTS"} ELSE {})
         /\ m_dbresult' = CASE k < n -> {}
                             [] n = 0 -> m_dbresult \cup {"EVENTS"}
                             [] OTHER -> m_dbresult
         /\ cb' = Issue(Handled(o), WalkQueries(o, k))
    /\ UNCHANGED <<in, m_nextphase, m_msgissued, m_dbevtissued, lists, mutex, sent, alive>>

(* getEvents(future) takes m_mutex first, on its I/O thread.                *)
EventsArrive(q) ==
    /\ q.op = "EVENTS" /\ Arriving(q)
    /\ cb' = [cb EXCEPT ![q] = "lock"]
    /\ UNCHANGED <<in, m_nextphase, m_msgissued, m_dbissued, m_dbevtissued, bits, lists,
                   mutex, sent, alive>>
GetEvents(q) ==
    /\ alive /\ cb[q] = "lock" /\ mutex = "free"
    /\ \E ok \in Fails("EVENTS") : m_dbresult' = ResultAfter(m_dbresult, {}, ok)
    /\ m_dbevtissued' = (m_dbevtissued - 1) % U32
    /\ m_dbexecuted' = m_dbexecuted \cup (IF m_dbevtissued' = 0 THEN {"EVENTS"} ELSE {})
    /\ cb' = [cb EXCEPT ![q] = "tail"]
    /\ UNCHANGED <<in, m_nextphase, m_msgissued, m_dbissued, lists, mutex, sent, alive>>

(* The end of on_ulr_callback, under m_mutex: triggerNextPhase and the      *)
(* decrement.                                                               *)
TailMessages_None == m_msgissued
TailMessages == m_msgissued + 1
CallbackEnd(q) ==
    /\ alive /\ cb[q] = "tail" /\ mutex = "free"
    /\ cb' = [cb EXCEPT ![q] = "over"]
    /\ m_msgissued' = TailMessages
    /\ m_dbissued' = (m_dbissued - 1) % U32
    /\ UNCHANGED <<in, m_nextphase, m_dbevtissued, bits, lists, mutex, sent, alive>>

Worker == Enter \/ Phase1 \/ Phase2 \/ Phase3Wait \/ Phase3Wake \/ Phase3 \/ Phase4
          \/ Phase5 \/ Delete \/ Leave
Callback(q) == EventsArrive(q) \/ GetEvents(q) \/ CallbackEnd(q)
Driver ==
    \/ \E o \in {"IMSI_INFO", "MMEID", "UPDATE"} : SimpleHandler(o)
    \/ GetExternalIds
    \/ \E o \in IdOps : GetEventIds(o) \/ WalkEventIds(o)
    \/ \E q \in Queries : Callback(q)

Next == Worker \/ Driver

(* Workers and driver threads run, and Cassandra answers or fails every     *)
(* query it accepted.                                                       *)
Fairness ==
    /\ WF_vars(Worker)
    /\ \A o \in {"IMSI_INFO", "MMEID", "UPDATE"} : WF_vars(SimpleHandler(o))
    /\ WF_vars(GetExternalIds)
    /\ \A o \in IdOps : WF_vars(GetEventIds(o) \/ WalkEventIds(o))
    /\ \A q \in Queries : WF_vars(Callback(q))

Spec == Init /\ [][Next]_vars
FairSpec == Spec /\ Fairness

-----------------------------------------------------------------------------
TypeOK ==
    /\ in \in [longImsi : BOOLEAN, user : BOOLEAN, mme : BOOLEAN, skip : SkipChoices,
               verdict : Verdicts, ext : BOOLEAN,
               evMsisdn : EventLists, evExt : EventLists]
    /\ m_nextphase \in Phases
    /\ m_msgissued \in Nat /\ m_dbissued \in 0..(U32 - 1) /\ m_dbevtissued \in 0..(U32 - 1)
    /\ m_dbexecuted \subseteq Ops /\ m_dbresult \subseteq Ops
    /\ m_extIdLst \in BOOLEAN /\ m_evtIdLst \in Seq(1..NumScefs)
    /\ mutex \in {"free", "worker", "blocked", "woken"}
    /\ cb \in [Queries -> Stages]
    /\ sent \in Seq(Verdicts \cup {"INVALID_AVP_VALUE", "USER_UNKNOWN", "SUCCESS"})
    /\ alive \in BOOLEAN

(* m_dbissued is what its declaration says, "# of queries in flight", at    *)
(* every step of every thread: phaseReady deletes the processor by it.      *)
DbIssuedCountsInFlight == m_dbissued = Cardinality(InFlight)

(* Once processNextPhase has deleted the processor, no callback and no      *)
(* worker message will ever touch it.                                       *)
NoUseAfterDelete == ~alive => InFlight = {} /\ m_msgissued = 0

(* A request is answered once, and never dropped unanswered: whatever fails,*)
(* the processor is deleted after exactly one answer.  The location is      *)
(* written only for a request that was answered with success, and such a    *)
(* request is not dropped before its write was tried.                       *)
AnsweredThenWritten ==
    /\ Len(sent) <= 1 /\ (~alive => Len(sent) = 1)
    /\ cb[Query("UPDATE")] # "none" \/ "UPDATE" \in m_dbexecuted => sent = <<"SUCCESS">>
    /\ ~alive /\ sent = <<"SUCCESS">> => "UPDATE" \in m_dbexecuted

(* A request that asks for no subscriber data, or whose subscriber has no   *)
(* external id and no event, always comes to its end, so that its slot is   *)
(* released, whichever queries fail, in whatever order they complete and    *)
(* with a single driver thread.  (One with events may wait for them forever,*)
(* see EvtIssuedCountsInFlight, or for the driver, see NoThreadStarved.)    *)
Completes == in.skip \/ (~in.ext /\ in.evMsisdn = <<>>) => <>(~alive)

(* s6as6d_impl.h says of m_dbevtissued "# of event queries in flight".      *)
EvtIssuedCountsInFlight ==
    m_dbevtissued = Cardinality({q \in Queries : q.op = "EVENTS" /\ cb[q] \in {"db", "lock"}})

(* s6as6d_impl.h calls m_dbresult the "query result bit mask": the outcome  *)
(* of a query does not rewrite the result bit of another.                   *)
ResultBitPerQuery ==
    [][\A o \in {"IMSI_INFO", "MMEID", "UPDATE"} :
          cb[Query(o)] = "db" /\ cb'[Query(o)] = "tail"
          => m_dbresult' \ {o} = m_dbresult \ {o}]_vars

(* processNextPhase's comment: acquire(false) is to "check to see if there  *)
(* is already a worker processing".  If it only checked, a callback would   *)
(* never hold an I/O thread while the worker in phase3 needs one.           *)
NoThreadStarved == ~(mutex = "blocked" /\ ~ThreadFree)
=============================================================================
