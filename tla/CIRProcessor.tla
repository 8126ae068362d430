---------------------------- MODULE CIRProcessor ----------------------------
(***************************************************************************)
(* One Configuration-Information request of an SCEF, which adds and removes*)
(* monitoring events of one subscriber or of a group (COIRcmd::process and *)
(* what it calls, src/s6t_impl.cpp; sendINSDRreq and IDRRreq,              *)
(* src/s6as6d_impl.cpp; RIRBuilder, src/fdhss.cpp; SEventThread,           *)
(* util/src/sthread.cpp; addEvent and deleteEvent, src/dataaccess.cpp).    *)
(*                                                                         *)
(* The dispatch thread stores or removes the long-term events, then sends  *)
(* one Insert-Subscriber-Data request (IDR) per subscriber.  For a single  *)
(* subscriber the thread that receives the MME's answer completes the      *)
(* answer to the SCEF (CIA).  For a group the CIA only says that the work  *)
(* is in progress; a RIRBuilder, an event thread of its own, collects the  *)
(* MMEs' answers and reports them in a RIR, early if a guard timer fires.  *)
(***************************************************************************)
EXTENDS Integers, Sequences, FiniteSets, SequencesExt

CONSTANTS
    Imsis,          \* subscribers
    Others,         \* MSISDNs of subscribers the request does not name
    Keys,           \* monitoring events: SCEF id and SCEF reference id
    MaxOps,         \* bound: events one request adds or removes
    MaxFirings,     \* bound: expiries of the guard timer
    DbMayFail,      \* a statement may fail in the database
    SendMayFail     \* sending an IDR may throw an FDException

Owners == {"msisdn", "extid"} \cup Others
ConfigOps == [op : {"delete", "addLong", "addShort"}, key : Keys]
Reach == {"active", "IMSI_NOT_ACTIVE", "MME_DOWN"}

ASSUME CIRAssumption ==
    /\ IsFiniteSet(Imsis) /\ Imsis # {} /\ IsFiniteSet(Keys)
    /\ MaxOps \in Nat /\ MaxFirings \in Nat
    /\ DbMayFail \in BOOLEAN /\ SendMayFail \in BOOLEAN

VARIABLES
    in,             \* the request: how it names the users, whether they are
                    \* known, who they are, its operations and its guard timer
    events,         \* of each event: the user its events row names, the MSISDN
                    \* or external id of the request or one of Others
    index,          \* of each event: its rows in events_msisdn and events_extid
    found,          \* history: the events rows before the request
    pc, done,       \* the dispatch thread, and the operations it has done
    evt_map,        \* status of each event of the request
    todo,           \* subscribers no IDR was considered for yet
    idr,            \* of each subscriber: its IDR
    req,            \* the request object: "stored" or "deleted"
    cias,           \* answers sent to the SCEF
    builder, m_events, m_nb_ida_proc, m_ciasent,    \* the RIRBuilder
    mapAlive,       \* evt_map is not deleted
    imsi_status,    \* what the RIR will report, in order
    rirs,           \* reports sent: how much of imsi_status, and whether final
    armed, fired,   \* the guard timer
    dead            \* the process was lost to a deleted object or a null function

db == <<events, index, found>>
thread == <<pc, done, todo>>
rir == <<builder, m_nb_ida_proc, m_ciasent, mapAlive, imsi_status, rirs, armed, fired>>
vars == <<in, db, thread, evt_map, idr, req, cias, rir, m_events, dead>>

NoMap == [k \in {} |-> 0]
Requests ==
    {r \in [user : {"msisdn", "extid", "none"}, known : BOOLEAN, imsis : SUBSET Imsis,
            ops : UNION {[1..n -> ConfigOps] : n \in 0..MaxOps}, guard : BOOLEAN] :
        /\ r.user = "msisdn" => Cardinality(r.imsis) = 1 /\ ~r.guard
        /\ r.user = "none" => ~r.known
        /\ ~r.known => r.imsis = {CHOOSE i \in Imsis : TRUE} /\ r.ops = <<>> /\ ~r.guard}

(* The index rows need not fit the events rows: a statement of addEvent or  *)
(* deleteEvent that failed, and an event added again for another user, leave*)
(* an events row without an index row or an index row of no event.          *)
Init ==
    /\ in \in Requests
    /\ events \in [Keys -> Owners \cup {"none"}]
    /\ index \in [Keys -> SUBSET Owners]
    /\ found = events
    /\ pc = "users" /\ done = 0 /\ todo = {}
    /\ evt_map = NoMap
    /\ idr = [i \in Imsis |-> "none"]
    /\ req = "stored" /\ cias = <<>>
    /\ builder = "none" /\ m_events = <<>> /\ m_nb_ida_proc = 0 /\ m_ciasent = FALSE
    /\ mapAlive = FALSE /\ imsi_status = <<>> /\ rirs = <<>>
    /\ armed = FALSE /\ fired = 0 /\ dead = FALSE

-----------------------------------------------------------------------------
(* COIRcmd::process: who is meant.  A database error counts as unknown.     *)
FindUsers ==
    /\ ~dead /\ pc = "users"
    /\ \/ in.known /\ pc' = "db" /\ mapAlive' = TRUE
       \/ (~in.known \/ DbMayFail) /\ pc' = "error" /\ UNCHANGED mapAlive
    /\ UNCHANGED <<in, db, done, todo, evt_map, idr, req, cias, builder, m_events,
                   m_nb_ida_proc, m_ciasent, imsi_status, rirs, armed, fired, dead>>

(* std::map::insert keeps an entry that is there.                           *)
Inserted_Overwrites(m, k, s) == [x \in DOMAIN m \cup {k} |-> IF x = k THEN s ELSE m[x]]
Inserted(m, k, s) ==
    [x \in DOMAIN m \cup {k} |-> IF x \in DOMAIN m THEN m[x] ELSE s]

(* The database after addEvent(k) and whether it threw: the events row is   *)
(* written first, the index row of the request's user second.               *)
AddEvent(k) ==
    LET row == [events EXCEPT ![k] = in.user]
    IN  {[events |-> row, index |-> [index EXCEPT ![k] = @ \cup {in.user}], threw |-> FALSE]}
        \cup IF ~DbMayFail THEN {}
             ELSE [events : {events, row}, index : {index}, threw : {TRUE}]

(* The same for deleteEvent(k) of a stored event.  Its last statement does  *)
(* not quote the external id, and the database refuses it.                  *)
DeleteEvent(k) ==
    LET row == [events EXCEPT ![k] = "none"]
    IN  (IF events[k] = "extid"
         THEN [events : {row}, index : {index}, threw : {TRUE}]
         ELSE [events : {row}, index : {[index EXCEPT ![k] = @ \ {events[k]}]},
               threw : {FALSE}])
        \cup IF ~DbMayFail THEN {}
             ELSE [events : {events, row}, index : {index}, threw : {TRUE}]

(* The outcome of one operation: the database it leaves and the status it   *)
(* reports.  Short-term events are left to the MME.                         *)
Nothing(s) == [events |-> events, index |-> index, status |-> s]
Status(long, result, remove) == [long |-> long, result |-> result, remove |-> remove]
RemoveOutcomes(k) ==
    IF events[k] = "none" THEN {Nothing(Status(FALSE, "NON_EXISTENT", TRUE))}
    ELSE {[events |-> d.events, index |-> d.index,
           status |-> IF d.threw THEN Status(FALSE, "NON_EXISTENT", TRUE)
                                 ELSE Status(TRUE, "SUCCESS", TRUE)] : d \in DeleteEvent(k)}
         \cup (IF DbMayFail THEN {Nothing(Status(FALSE, "NON_EXISTENT", TRUE))} ELSE {})
StoredResult(threw) == IF threw THEN "STORAGE_NOT_SUCCESSFUL" ELSE "SUCCESS"
AddOutcomes(k) ==
    {[events |-> d.events, index |-> d.index,
      status |-> Status(TRUE, StoredResult(d.threw), FALSE)] : d \in AddEvent(k)}
Outcomes(o) ==
    CASE o.op = "delete"   -> RemoveOutcomes(o.key)
      [] o.op = "addLong"  -> AddOutcomes(o.key)
      [] o.op = "addShort" -> {Nothing(Status(FALSE, "ZERO", FALSE))}

(* processHssDb: one operation after the other.                             *)
ProcessHssDb ==
    /\ ~dead /\ pc = "db" /\ done < Len(in.ops)
    /\ \E r \in Outcomes(in.ops[done + 1]) :
         /\ events' = r.events /\ index' = r.index
         /\ evt_map' = Inserted(evt_map, in.ops[done + 1].key, r.status)
    /\ done' = done + 1
    /\ UNCHANGED <<in, found, pc, todo, idr, req, cias, rir, m_events, dead>>

(* The configuration to add is first written as JSON.  A Time of the wrong  *)
(* length throws, back to COIRcmd::process, with the operations before it   *)
(* done; an AVP without dictionary entry calls the null errfunc.            *)
JsonThrows ==
    /\ ~dead /\ pc = "db" /\ done < Len(in.ops) /\ in.ops[done + 1].op # "delete"
    /\ \/ pc' = "error" /\ UNCHANGED dead
       \/ dead' = TRUE /\ UNCHANGED pc
    /\ UNCHANGED <<in, db, done, todo, evt_map, idr, req, cias, rir, m_events>>

(* processSimpleImsi goes on to its IDR; processMultiImsi first creates the *)
(* RIRBuilder and starts its thread.                                        *)
GroupSize_MinusOne == Cardinality(in.imsis) - 1
GroupSize == Cardinality(in.imsis)
StartBuilder ==
    /\ ~dead /\ pc = "db" /\ done = Len(in.ops)
    /\ pc' = "send" /\ todo' = in.imsis
    /\ IF in.user = "msisdn" THEN UNCHANGED <<builder, m_events, m_nb_ida_proc>>
       ELSE /\ builder' = "on" /\ m_events' = <<[id |-> "INIT"]>>
            /\ m_nb_ida_proc' = GroupSize
    /\ UNCHANGED <<in, db, done, evt_map, idr, req, cias, m_ciasent, mapAlive,
                   imsi_status, rirs, armed, fired, dead>>

-----------------------------------------------------------------------------
(* A CIA with the statuses of the events in K.                              *)
Cia(m, K, absent) == [code |-> "SUCCESS", absent |-> absent,
                      status |-> [k \in K |-> m[k]]]
Short(m) == {k \in DOMAIN m : ~m[k].long}
Overlaid(m, K, result) ==
    [k \in DOMAIN m |-> IF k \in K THEN [m[k] EXCEPT !.result = result] ELSE m[k]]
Response(i, reach, codes) ==
    [id |-> "MME_RESPONSE", imsi |-> i, reach |-> reach, codes |-> codes]

(* sendINSDRreq.  The subscriber's row and the peer's state are read now:   *)
(* the subscriber is active, or not, or its MME is down.  A failing read    *)
(* throws, back to COIRcmd::process; a failing send is only logged.         *)
FakeResponse_NotForInactive(i, reach) ==
    IF reach = "MME_DOWN" THEN <<Response(i, reach, NoMap)>> ELSE <<>>
FakeResponse(i, reach) == <<Response(i, reach, NoMap)>>

(* COIRcmd::process returns once processSimpleImsi has answered.            *)
AfterSimple_Break == "error"
AfterSimple == "done"

Send(i) ==
    /\ idr' = [idr EXCEPT ![i] = "out"]
    /\ UNCHANGED <<pc, evt_map, req, cias, m_events, mapAlive>>
SendFails(i) ==
    /\ SendMayFail
    /\ idr' = [idr EXCEPT ![i] = "failed"]
    /\ UNCHANGED <<pc, evt_map, req, cias, m_events, mapAlive>>
SendThrows ==
    /\ DbMayFail /\ pc' = "error"
    /\ UNCHANGED <<evt_map, idr, req, cias, m_events, mapAlive>>
NotSent(i, reach) ==
    /\ idr' = [idr EXCEPT ![i] = "over"]
    /\ \/ /\ builder = "none"
          /\ LET m == Overlaid(evt_map, Short(evt_map), "UNABLE_TO_COMPLY")
             IN  /\ cias' = Append(cias, Cia(m, DOMAIN m, reach = "IMSI_NOT_ACTIVE"))
                 /\ evt_map' = m
          /\ mapAlive' = FALSE /\ req' = "deleted" /\ pc' = AfterSimple
          /\ UNCHANGED m_events
       \/ /\ builder # "none"
          /\ m_events' = m_events \o FakeResponse(i, reach)
          /\ UNCHANGED <<pc, evt_map, req, cias, mapAlive>>

SendINSDRreq(i) ==
    /\ ~dead /\ pc = "send" /\ i \in todo
    /\ todo' = todo \ {i}
    /\ \/ Send(i) \/ SendFails(i) \/ SendThrows
       \/ \E reach \in Reach \ {"active"} : NotSent(i, reach)
    /\ UNCHANGED <<in, db, done, builder, m_nb_ida_proc, m_ciasent, imsi_status, rirs,
                   armed, fired, dead>>

(* After the last IDR.  A single subscriber's dispatch thread is done; a    *)
(* group's sends the CIA, deletes the request and tells the RIRBuilder.     *)
SendCia ==
    /\ ~dead /\ pc = "send" /\ todo = {}
    /\ pc' = "done"
    /\ IF builder = "none" THEN UNCHANGED <<req, cias, m_events>>
       ELSE /\ cias' = Append(cias, Cia(NoMap, {}, FALSE))
            /\ req' = "deleted"
            /\ m_events' = Append(m_events, [id |-> "CIA_SENT"])
    /\ UNCHANGED <<in, db, done, todo, evt_map, idr, rir, dead>>

(* The global error answer of COIRcmd::process.                             *)
SendError ==
    /\ ~dead /\ pc = "error"
    /\ cias' = Append(cias, [code |-> "USER_UNKNOWN", absent |-> FALSE, status |-> NoMap])
    /\ req' = "deleted" /\ pc' = "done"
    /\ UNCHANGED <<in, db, done, todo, evt_map, idr, rir, m_events, dead>>

-----------------------------------------------------------------------------
(* What an MME reports of the short-term events: nothing, a result, or an   *)
(* entry without one.                                                       *)
MmeAnswers == UNION {[K -> {"OK", "bare"}] : K \in SUBSET Short(evt_map)}

(* IDRRreq::processAnswer of a single subscriber.                           *)
AnswerSingle(codes) ==
    LET m == [k \in DOMAIN evt_map |->
                IF k \in DOMAIN codes /\ codes[k] = "OK"
                THEN [evt_map[k] EXCEPT !.result = "OK"] ELSE evt_map[k]]
    IN  /\ cias' = Append(cias, Cia(m, (DOMAIN m \ Short(m)) \cup DOMAIN codes, FALSE))
        /\ evt_map' = m
AnswerSingleError ==
    LET m == Overlaid(evt_map, Short(evt_map), "USER_UNKNOWN")
    IN  /\ cias' = Append(cias, Cia(m, DOMAIN m, TRUE))
        /\ evt_map' = m

(* IDRRreq::processAnswer.  It begins by building an answer from the stored *)
(* request, which a group's dispatch thread may have deleted: then either   *)
(* nothing comes of it or the process dies.                                 *)
ProcessAnswer(i) ==
    /\ ~dead /\ idr[i] = "out"
    /\ idr' = [idr EXCEPT ![i] = "over"]
    /\ \/ /\ builder = "none"
          /\ AnswerSingleError \/ \E codes \in MmeAnswers : AnswerSingle(codes)
          /\ mapAlive' = FALSE /\ req' = "deleted"
          /\ UNCHANGED <<m_events, dead>>
       \/ /\ builder # "none"
          /\ \/ m_events' = Append(m_events, Response(i, "MME_DOWN", NoMap))
             \/ \E codes \in MmeAnswers :
                  m_events' = Append(m_events, Response(i, "active", codes))
          /\ UNCHANGED <<evt_map, cias, mapAlive, req, dead>>
       \/ /\ builder # "none" /\ req = "deleted"
          /\ dead' = TRUE
          /\ UNCHANGED <<evt_map, cias, mapAlive, req, m_events>>
    /\ UNCHANGED <<in, db, thread, builder, m_nb_ida_proc, m_ciasent, imsi_status, rirs,
                   armed, fired>>

-----------------------------------------------------------------------------
(* SEventThread::dispatch: the builder takes its oldest message.            *)
Takes(id) == ~dead /\ builder = "on" /\ m_events # <<>> /\ Head(m_events).id = id

OnInit ==
    /\ Takes("INIT")
    /\ m_events' = Tail(m_events)
    /\ armed' = in.guard
    /\ UNCHANGED <<in, db, thread, evt_map, idr, req, cias, builder, m_nb_ida_proc,
                   m_ciasent, mapAlive, imsi_status, rirs, fired, dead>>

(* The timer repeats, and nothing stops it when the thread quits.           *)
TimerFires ==
    /\ ~dead /\ armed /\ fired < MaxFirings
    /\ fired' = fired + 1
    /\ m_events' = Append(m_events, [id |-> "TIMER"])
    /\ UNCHANGED <<in, db, thread, evt_map, idr, req, cias, builder, m_nb_ida_proc,
                   m_ciasent, mapAlive, imsi_status, rirs, armed, dead>>
OnTimer_Ignored ==
    /\ Takes("TIMER")
    /\ m_events' = Tail(m_events)
    /\ UNCHANGED <<in, db, thread, evt_map, idr, req, cias, rir, dead>>
OnTimer ==
    /\ Takes("TIMER")
    /\ m_events' = Append(Tail(m_events), [id |-> "GUARD_TIMEOUT"])
    /\ UNCHANGED <<in, db, thread, evt_map, idr, req, cias, rir, dead>>
GuardTimeout ==
    /\ Takes("GUARD_TIMEOUT")
    /\ m_events' = Tail(m_events)
    /\ rirs' = Append(rirs, [n |-> Len(imsi_status), final |-> FALSE])
    /\ UNCHANGED <<in, db, thread, evt_map, idr, req, cias, builder, m_nb_ida_proc,
                   m_ciasent, mapAlive, imsi_status, armed, fired, dead>>

(* The status a subscriber's entry gives an event: the database's for a     *)
(* long-term one, the MME's for a short-term one.                           *)
MixedResult(r, k) ==
    IF evt_map[k].long THEN evt_map[k].result
    ELSE CASE r.reach # "active" -> "UNABLE_TO_COMPLY"
           [] r.reach = "active" /\ k \in DOMAIN r.codes ->
                IF r.codes[k] = "OK" THEN "OK" ELSE "ZERO"
           [] r.reach = "active" /\ k \notin DOMAIN r.codes -> evt_map[k].result

(* The test after a response, and after CIA_SENT.                           *)
Finished_NoCia(nb, ciasent) == nb = 0
Finished(nb, ciasent) == nb = 0 /\ ciasent

(* sendRIR for the last time, delete the map and quit, if it is finished.   *)
Finish(queue, nb, ciasent, entries) ==
    IF Finished(nb, ciasent)
    THEN /\ rirs' = Append(rirs, [n |-> Len(entries), final |-> TRUE])
         /\ mapAlive' = FALSE
         /\ m_events' = Append(queue, [id |-> "QUIT"])
    ELSE m_events' = queue /\ UNCHANGED <<rirs, mapAlive>>

HandleMmeResponse ==
    /\ Takes("MME_RESPONSE")
    /\ LET r == Head(m_events)
           entry == [imsi |-> r.imsi, absent |-> r.reach = "IMSI_NOT_ACTIVE",
                     result |-> [k \in DOMAIN evt_map |-> MixedResult(r, k)]]
       IN  /\ imsi_status' = Append(imsi_status, entry)
           /\ m_nb_ida_proc' = m_nb_ida_proc - 1
           /\ Finish(Tail(m_events), m_nb_ida_proc', m_ciasent, imsi_status')
    /\ UNCHANGED <<in, db, thread, evt_map, idr, req, cias, builder, m_ciasent, armed,
                   fired, dead>>

HandleCiaSent ==
    /\ Takes("CIA_SENT")
    /\ m_ciasent' = TRUE
    /\ Finish(Tail(m_events), m_nb_ida_proc, TRUE, imsi_status)
    /\ UNCHANGED <<in, db, thread, evt_map, idr, req, cias, builder, m_nb_ida_proc,
                   imsi_status, armed, fired, dead>>

OnQuit ==
    /\ Takes("QUIT")
    /\ m_events' = Tail(m_events) /\ builder' = "off"
    /\ UNCHANGED <<in, db, thread, evt_map, idr, req, cias, m_nb_ida_proc, m_ciasent,
                   mapAlive, imsi_status, rirs, armed, fired, dead>>

-----------------------------------------------------------------------------
Dispatch == \/ FindUsers \/ ProcessHssDb \/ JsonThrows \/ StartBuilder
            \/ SendCia \/ SendError
            \/ \E i \in Imsis : SendINSDRreq(i)
Builder == \/ OnInit \/ OnTimer \/ GuardTimeout \/ HandleMmeResponse
           \/ HandleCiaSent \/ OnQuit
Next == Dispatch \/ Builder \/ TimerFires \/ \E i \in Imsis : ProcessAnswer(i)

(* The threads run and the timer expires.  Nothing makes an MME answer: an  *)
(* IDR is sent without a timeout.                                           *)
Fairness == WF_vars(Dispatch) /\ WF_vars(Builder) /\ WF_vars(TimerFires)
Spec == Init /\ [][Next]_vars
FairSpec == Spec /\ Fairness

-----------------------------------------------------------------------------
(* The SCEF gets exactly one answer: never two, though two threads can send *)
(* it, and one as soon as nothing is outstanding, unless the IDR of a single*)
(* subscriber could not be sent.                                            *)
AnsweredOnce ==
    /\ Len(cias) <= 1
    /\ pc = "done" /\ (\A i \in Imsis : idr[i] \notin {"out", "failed"}) => Len(cias) = 1

(* The final report of a group is sent once and after the CIA, and has one  *)
(* entry for every subscriber; a guard timer that fires around it repeats   *)
(* the whole report, never a part of it.                                    *)
FinalReport ==
    \A j \in 1..Len(rirs) : rirs[j].final =>
        /\ Len(cias) = 1
        /\ \A l \in j..Len(rirs) : rirs[l].n = Cardinality(in.imsis) /\ (rirs[l].final => l = j)
        /\ in.imsis = {imsi_status[l].imsi : l \in 1..Len(imsi_status)}
        /\ Len(imsi_status) = Cardinality(in.imsis)

(* The RIRBuilder reads the event map for every response: once the map is   *)
(* deleted, none is queued and none can come.                               *)
MapOutlivesResponses ==
    builder # "none" /\ ~mapAlive =>
        /\ todo = {} /\ \A i \in Imsis : idr[i] # "out"
        /\ \A j \in 1..Len(m_events) : m_events[j].id # "MME_RESPONSE"

(* A status is the outcome of an operation.  Of an event that a request     *)
(* names once, whoever reports it: stored means that the events row and the *)
(* user's index row are there, removed that the events row is gone and with *)
(* it the index row of the user it named, and no answer of an MME changes   *)
(* that.  Index rows that were stale before may stay.  Of an event named    *)
(* several times every report tells the outcome of the first operation, for *)
(* the status map keeps its first entry, whatever later operations and the  *)
(* MMEs did.                                                                *)
Reported(k) ==
    {c.status[k].result : c \in {d \in Range(cias) : k \in DOMAIN d.status}}
    \cup {e.result[k] : e \in Range(imsi_status)}
StatusTruthful ==
    \A k \in DOMAIN evt_map :
        LET named == {j \in 1..Len(in.ops) : in.ops[j].key = k}
            first == in.ops[Min(named)].op
        IN  /\ Cardinality(named) = 1 /\ "SUCCESS" \in Reported(k) =>
                  /\ Reported(k) = {"SUCCESS"}
                  /\ IF evt_map[k].remove THEN events[k] = "none" /\ found[k] \notin index[k]
                     ELSE events[k] = in.user /\ in.user \in index[k]
            /\ evt_map[k].remove <=> first = "delete"
            /\ evt_map[k].long => Cardinality(Reported(k)) <= 1
            /\ first = "addLong" => Reported(k) \subseteq {"SUCCESS", "STORAGE_NOT_SUCCESSFUL"}
            /\ first = "addShort" => Reported(k) \cap {"SUCCESS", "STORAGE_NOT_SUCCESSFUL"} = {}

(* If every MME answers the IDR it was sent, a known group is reported to   *)
(* the end, unless an IDR could not be sent, a read failed while they were  *)
(* sent, or the process died.                                               *)
MmesAnswer == \A i \in Imsis : []<>(idr[i] # "out")
GroupReported ==
    MmesAnswer =>
        (in.user = "extid" /\ pc = "db" ~>
            \/ builder = "off" \/ dead
            \/ \E i \in Imsis : idr[i] = "failed"
            \/ \E j \in 1..Len(cias) : cias[j].code # "SUCCESS")

(* A group with a guard timer is reported, if only in part, although MMEs   *)
(* stay silent, IDRs cannot be sent and reads fail: nothing but the death of*)
(* the process keeps the RIRBuilder from it.                                *)
GuardReports == in.guard /\ pc = "send" ~> rirs # <<>> \/ dead

(* IDRRreq::processAnswer says "Build the CIA from the stored request": the *)
(* request is still stored when an IDR's answer is processed.               *)
RequestStored ==
    [][\A i \in Imsis : idr[i] = "out" /\ idr'[i] = "over" => req = "stored"]_vars
=============================================================================
