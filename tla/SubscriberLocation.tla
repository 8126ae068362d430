------------------------- MODULE SubscriberLocation -------------------------
(***************************************************************************)
(* Where a subscriber is: the row of users_imsi that Update-Location (ULR) *)
(* and Purge-UE (PUR) write and Send-Routing-Info-For-SM (SRR) reads, the  *)
(* two tables of MME identities, the NIDD columns of the same row (NIR),   *)
(* and the acceptance of MMEs as Diameter peers.                           *)
(*                                                                         *)
(* Requests run on different worker threads; one step is what happens      *)
(* between two statements of the database.  ULRProcessor has the phases    *)
(* and callbacks of a ULR; here they are its reads, its verdict and its    *)
(* write.                                                                  *)
(***************************************************************************)
EXTENDS Tbcd, TLC

CONSTANTS
    Mmes,          \* MMEs, each with its Origin-Host and Origin-Realm
    FirstMmes,     \* the MMEs provisioned before the start
    HomeMme,       \* the serving node that the rows of users are provisioned with,
    HomeId,        \* and the MME of their id, which may be another
    Provisioned,   \* IMSIs of provisioned subscribers
    Strangers,     \* other values that may stand in the key of a statement
    MsisdnOf,      \* the number of each provisioned subscriber, canonical text
    Dialled,       \* texts a short message is addressed to
    Located,       \* IMSIs that MMEs send requests for
    Workers,       \* 1..n, the threads that process requests
    MaxRequests    \* bound: the requests of a behaviour

NoId == "-1"
Null == "null"

ASSUME LocationAssumption ==
    /\ FirstMmes \subseteq Mmes /\ HomeMme \in Mmes /\ HomeId \in FirstMmes
    /\ Provisioned \cap Strangers = {}
    /\ Located \subseteq Provisioned \cup Strangers
    /\ Mmes \cap {NoId, Null} = {} /\ "" \notin Located
    /\ MsisdnOf \in [Provisioned -> Seq(0..9)] /\ Dialled \subseteq Seq(0..9)
    /\ MaxRequests \in Nat

VARIABLES
    users,      \* the table users_imsi
    ids,        \* mmeidentity, keyed by the id; the id of an MME is its name
    hosts,      \* mmeidentity_host: the MMEs whose host can be looked up
    peers,      \* MMEs accepted as Diameter peers
    req,        \* the request each worker processes, or its last one
    started,    \* how many were started
    mixed,      \* history: subscribers that had two requests at once
    strange     \* history: keys whose row a NIDD request created

vars == <<users, ids, hosts, peers, req, started, mixed, strange>>

Keys == Provisioned \cup Strangers

\* A row that an UPDATE creates holds only the columns the UPDATE sets.
EmptyRow == [exists |-> TRUE, mme |-> Null, id |-> Null, status |-> Null,
             plmn |-> Null, data |-> FALSE]
NoRow == [EmptyRow EXCEPT !.exists = FALSE]

Upsert(key) == IF users[key].exists THEN users[key] ELSE EmptyRow

Idle == [kind |-> "none", pc |-> "done", ans |-> [code |-> "none"]]
Active(w) == req[w].pc # "done"

-----------------------------------------------------------------------------
(* MME identities and peers.                                                *)

\* The number for short messages that an MME is provisioned with.
MmeIsdn == <<1, 2, 3>>

\* data_provisioning_mme, run for one more MME with an id of its own while the
\* HSS runs: an insert into each table, the identity first; when the first
\* fails the second is not made, and the second may fail.
AddMme(m) ==
    /\ m \notin FirstMmes
    /\ \/ m \notin DOMAIN ids
          /\ ids' = [i \in DOMAIN ids \cup {m} |-> IF i = m THEN MmeIsdn ELSE ids[i]]
          /\ UNCHANGED hosts
       \/ m \in DOMAIN ids /\ m \notin hosts /\ hosts' = hosts \cup {m} /\ UNCHANGED ids
    /\ UNCHANGED <<users, peers, req, started, mixed, strange>>

\* s6a_peer_validate(): a peer is accepted when its host can be looked up.
Accept(m) ==
    /\ m \in hosts \ peers
    /\ peers' = peers \cup {m}
    /\ UNCHANGED <<users, ids, hosts, req, started, mixed, strange>>

-----------------------------------------------------------------------------
(* Requests.                                                                *)

Busy(key) == \E w \in Workers : Active(w) /\ req[w].key = key

\* Any worker may take a request; it is the first that has none.
MayStart(w) == started < MaxRequests /\ ~Active(w) /\ \A v \in 1..(w - 1) : Active(v)

Start(w, r) ==
    /\ MayStart(w)
    /\ req' = [req EXCEPT ![w] = r] /\ started' = started + 1
    /\ mixed' = mixed \cup {k \in {r.key} : Busy(k)}
    /\ UNCHANGED <<users, ids, hosts, peers, strange>>

\* The request ends, answered with ans.
Answer(w, ans) == req' = [req EXCEPT ![w] = [kind |-> @.kind, pc |-> "done", ans |-> ans]]

\* form: an initial attach, the same with a Software-Version, an update of the
\* serving node, or a request that one of phase2's other checks refuses; skip
\* is the flag to leave out the subscription data.
StartULR(w) ==
    \E m \in peers, k \in Located, f \in ({"attach", "update"} \X BOOLEAN)
                                   \cup ({"attach-sv", "refused"} \X {FALSE}) :
        Start(w, [kind |-> "ULR", pc |-> "read", mme |-> m, key |-> k, form |-> f[1],
                  skip |-> f[2], info |-> NoRow, id |-> NoId, todo |-> {"info", "id"}])

\* phase1 issued both queries; they are executed in any order.
ReadInfo(w) ==
    LET r == req[w]
    IN  /\ r.kind = "ULR" /\ r.pc = "read" /\ "info" \in r.todo
        /\ req' = [req EXCEPT ![w].info = users[r.key], ![w].todo = @ \ {"info"}]
        /\ UNCHANGED <<users, ids, hosts, peers, started, mixed, strange>>

\* getMmeIdFromHost(): a failed query leaves m_mmeidentity at -1, its initial
\* value, as does a host that is not in the table.
ReadId(w) ==
    LET r == req[w]
    IN  /\ r.kind = "ULR" /\ r.pc = "read" /\ "id" \in r.todo
        /\ \E i \in {NoId} \cup ({r.mme} \cap hosts) :
              req' = [req EXCEPT ![w].id = i, ![w].todo = @ \ {"id"}]
        /\ UNCHANGED <<users, ids, hosts, peers, started, mixed, strange>>

Verdict_NoRowCheck(r) ==
    CASE r.form = "refused" -> "REFUSED"
      [] r.form = "update" /\ r.info.mme # r.mme -> "UNKNOWN_SERVING_NODE"
      [] OTHER -> IF ~r.skip /\ ~r.info.data THEN "UNKNOWN_EPS_SUBSCRIPTION" ELSE "SUCCESS"

Verdict_AnyNode(r) ==
    CASE ~r.info.exists -> "USER_UNKNOWN"
      [] r.info.exists /\ r.form = "refused" -> "REFUSED"
      [] r.info.exists /\ r.form # "refused" -> "SUCCESS"

\* phase2: the checks of a ULR, in their order.  Only an update is compared
\* with the serving node, as the row was when it was read.
Verdict(r) ==
    IF ~r.info.exists THEN "USER_UNKNOWN"
    ELSE CASE r.form = "refused" -> "REFUSED"
           [] r.form = "update" /\ r.info.mme # r.mme -> "UNKNOWN_SERVING_NODE"
           [] OTHER -> IF ~r.skip /\ ~r.info.data
                       THEN "UNKNOWN_EPS_SUBSCRIPTION" ELSE "SUCCESS"

Reports_Always(r, roaming) == r.info.plmn # r.mme /\ roaming

\* phase3: a change of the visited network is reported for an attached
\* subscriber, by the row as it was read (an MME stands for its network), to
\* the SCEFs of the events of type Roaming-Status in m_evtLst.
Reports(r, roaming) == r.info.status = "ATTACHED" /\ r.info.plmn # r.mme /\ roaming

\* phase2 and phase3: the answer, and what phase4 is to write.  roaming says
\* that m_evtLst has an event of type Roaming-Status; a request that leaves out
\* the subscription data has read no events.  (Which requests with events come
\* to phase3 at all, ULRProcessor shows.)
AnswerULR(w) ==
    LET r == req[w]
        v == Verdict(r)
    IN  /\ r.kind = "ULR" /\ r.pc = "read" /\ r.todo = {}
        /\ IF v # "SUCCESS" THEN Answer(w, [code |-> v])
           ELSE \E roaming \in IF r.skip THEN {FALSE} ELSE BOOLEAN :
                  req' = [req EXCEPT ![w] = [kind |-> "ULR", pc |-> "write", mme |-> r.mme,
                            key |-> r.key, form |-> r.form, id |-> r.id, roaming |-> roaming,
                            report |-> Reports(r, roaming)]]
        /\ UNCHANGED <<users, ids, hosts, peers, started, mixed, strange>>

LocatedRow_IdAlways(row, r) ==
    [row EXCEPT !.mme = IF r.form = "update" THEN @ ELSE r.mme,
                !.id = r.id, !.status = "ATTACHED", !.plmn = r.mme]

\* updateLocation(): the serving node and its id only with MME_IDENTITY_PRESENT,
\* which an initial attach sets; the status and the network always.
LocatedRow(row, r) ==
    [row EXCEPT !.mme = IF r.form = "update" THEN @ ELSE r.mme,
                !.id = IF r.form = "update" THEN @ ELSE r.id,
                !.status = "ATTACHED", !.plmn = r.mme]

\* phase4's statement is executed or fails.  With a Software-Version it sets
\* the column imeisv, which the schema does not have, and always fails.
WriteLocation(w) ==
    LET r == req[w]
    IN  /\ r.kind = "ULR" /\ r.pc = "write"
        /\ \/ users' = users
           \/ r.form # "attach-sv"
              /\ users' = [users EXCEPT ![r.key] = LocatedRow(Upsert(r.key), r)]
        /\ Answer(w, [code |-> "SUCCESS"])
        /\ UNCHANGED <<ids, hosts, peers, started, mixed, strange>>

\* PUR: form is a request the first checks refuse, or one that goes on.
StartPUR(w) ==
    \E m \in peers, k \in Located, form \in {"purge", "refused"} :
        Start(w, [kind |-> "PUR", pc |-> "read", mme |-> m, key |-> k, form |-> form,
                  id |-> Null])

IdsRead_Null(column) == {column}

\* GET_EVENT_DATA does not set the variable when the column is null: any id may
\* stand there.
IdsRead(column) == IF column = Null THEN Mmes \cup {NoId} ELSE {column}

\* getMmeIdentityFromImsi(): the id of the row.
ReadIdOfImsi(w) ==
    LET r == req[w]
    IN  /\ r.kind = "PUR" /\ r.pc = "read"
        /\ \/ r.form = "refused" /\ Answer(w, [code |-> "REFUSED"])
           \/ r.form = "purge" /\ ~users[r.key].exists /\ Answer(w, [code |-> "USER_UNKNOWN"])
           \/ /\ r.form = "purge" /\ users[r.key].exists
              /\ \E i \in IdsRead(users[r.key].id) :
                    req' = [req EXCEPT ![w].id = i, ![w].pc = "lookup"]
        /\ UNCHANGED <<users, ids, hosts, peers, started, mixed, strange>>

\* getMmeIdentity().
LookupMme(w) ==
    LET r == req[w]
    IN  /\ r.kind = "PUR" /\ r.pc = "lookup"
        /\ IF r.id \in DOMAIN ids THEN req' = [req EXCEPT ![w].pc = "purge"]
           ELSE Answer(w, [code |-> "USER_UNKNOWN"])
        /\ UNCHANGED <<users, ids, hosts, peers, started, mixed, strange>>

PurgeCode_RealmOnly(r) == "SUCCESS"

\* The sender is compared with the MME that the id denoted, by host and realm.
PurgeCode(r) == IF r.id # r.mme THEN "UNKNOWN_SERVING_NODE" ELSE "SUCCESS"

\* purgeUE(): the row is marked as purged and only then the sender is compared;
\* a statement that fails ends the request.
PurgeUE(w) ==
    LET r == req[w]
    IN  /\ r.kind = "PUR" /\ r.pc = "purge"
        /\ \/ users' = users /\ Answer(w, [code |-> "USER_UNKNOWN"])
           \/ /\ users' = [users EXCEPT ![r.key] = [Upsert(r.key) EXCEPT !.status = "PURGED"]]
              /\ Answer(w, [code |-> PurgeCode(r)])
        /\ UNCHANGED <<ids, hosts, peers, started, mixed, strange>>

\* SRR: addressed by an MSISDN, as the sender encodes it, by an IMSI or by
\* neither; full is the absence of SM-Delivery-Not-Intended, without which the
\* serving node is left out.
StartSRR(w) ==
    \E by \in {[how |-> "msisdn", text |-> d, imsi |-> ""] : d \in Dialled}
              \cup {[how |-> "imsi", text |-> <<>>, imsi |-> k] : k \in Located}
              \cup {[how |-> "none", text |-> <<>>, imsi |-> ""]},
       full \in BOOLEAN :
        Start(w, [kind |-> "SRR", pc |-> "read", key |-> "", by |-> by, full |-> full,
                  info |-> NoRow])

\* The text that process() decodes from the request.
Asked(by) == Tbcd2Str(Str2Tbcd(by.text))

\* getImsiFromMsisdn(): by the number the text denotes.  An MSISDN without
\* digits is not looked up and leaves the IMSI empty.
ImsisOf(by) ==
    IF Asked(by) = <<>> THEN {by.imsi} \ {""}
    ELSE {k \in Provisioned : Number(MsisdnOf[k]) = Number(Asked(by))}

\* The subscriber of a routing request and its row, getImsiInfo().  An unknown
\* MSISDN is answered without any result: the result is built and not added.
ReadSubscriber(w) ==
    LET r == req[w]
        found == {k \in ImsisOf(r.by) : users[k].exists}
    IN  /\ r.kind = "SRR" /\ r.pc = "read"
        /\ \/ r.by.how = "none" /\ Answer(w, [code |-> "MISSING_AVP"])
           \/ Asked(r.by) # <<>> /\ found = {} /\ Answer(w, [code |-> "no result"])
           \/ /\ r.by.how # "none" /\ Asked(r.by) = <<>> /\ found = {}
              /\ Answer(w, [code |-> "USER_UNKNOWN"])
           \/ \E k \in found :
                 req' = [req EXCEPT ![w].key = k, ![w].info = users[k], ![w].pc = "lookup"]
        /\ UNCHANGED <<users, ids, hosts, peers, started, mixed, strange>>

\* The answer for an MME found by id: the name and realm from the row, the
\* number from the identity; the subscriber's own number when it is not the
\* text asked for (in a row without one the number is not set).
RouteAnswer(r, i) ==
    IF r.info.status # "ATTACHED" THEN [code |-> "ABSENT_USER"]
    ELSE [code |-> "SUCCESS", user |-> r.key, dialled |-> r.by.text, name |-> r.info.mme,
          of |-> i, number |-> Str2Tbcd(ids[i]), full |-> r.full,
          other |-> IF r.key \in Provisioned
                    THEN {Str2Tbcd(MsisdnOf[r.key])} \ {Str2Tbcd(Asked(r.by))} ELSE {<<>>}]

\* getMmeIdentity() and the answer.
RouteSM(w) ==
    LET r == req[w]
    IN  /\ r.kind = "SRR" /\ r.pc = "lookup"
        /\ \E i \in IdsRead(r.info.id) :
              Answer(w, IF i \in DOMAIN ids THEN RouteAnswer(r, i)
                        ELSE [code |-> "USER_UNKNOWN"])
        /\ UNCHANGED <<users, ids, hosts, peers, started, mixed, strange>>

\* The subscribers that a NIDD request names: the value decoded from User-Name
\* unseen, one with an MSISDN, or those of the external identifier (here all).
NiddSubscribers(by, k) ==
    CASE by = "imsi" -> {k}
      [] by = "msisdn" -> {k} \cap Provisioned
      [] by = "external" -> Provisioned
      [] by = "none" -> {}

\* NIR: timed is a requested validity time.  The validity is set in the rows of the subscriber
\* and the destination in the row of imsichar, which is set in the first case
\* only.  Nothing in the HSS reads these columns or writes the ones a NIR reads:
\* what is left is that an UPDATE creates its row.  A subscription to another
\* APN adds a result to the one already in the answer and stops nothing.
NIDD(w) ==
    /\ MayStart(w) /\ started' = started + 1
    /\ \E by \in {"imsi", "msisdn", "external", "none"}, k \in Located, garbage \in Located,
          timed \in BOOLEAN :
        LET named == IF timed THEN NiddSubscribers(by, k) ELSE {}
            dest == IF by = "imsi" \/ named = {} THEN named ELSE {garbage}
        IN  /\ users' = [x \in Keys |-> IF x \in named \cup dest THEN Upsert(x) ELSE users[x]]
            /\ strange' = strange \cup {x \in named \cup dest : ~users[x].exists}
    /\ req' = [req EXCEPT ![w] = Idle]
    /\ UNCHANGED <<ids, hosts, peers, mixed>>

-----------------------------------------------------------------------------

\* A provisioned row has a serving node and no status.  data_provisioning_users
\* writes the host name it is given and always the id 3, so that the two denote
\* one MME only if that one was provisioned with id 3.
Init ==
    /\ users = [k \in Keys |-> IF k \in Provisioned
                 THEN [EmptyRow EXCEPT !.mme = HomeMme, !.id = HomeId, !.data = TRUE]
                 ELSE NoRow]
    /\ ids = [m \in FirstMmes |-> MmeIsdn] /\ hosts = FirstMmes /\ peers = {}
    /\ req = [w \in Workers |-> Idle] /\ started = 0 /\ mixed = {} /\ strange = {}

Step(w) ==
    \/ ReadInfo(w) \/ ReadId(w) \/ AnswerULR(w) \/ WriteLocation(w)
    \/ ReadIdOfImsi(w) \/ LookupMme(w) \/ PurgeUE(w)
    \/ ReadSubscriber(w) \/ RouteSM(w)

Next ==
    \/ \E m \in Mmes : AddMme(m) \/ Accept(m)
    \/ \E w \in Workers : StartULR(w) \/ StartPUR(w) \/ StartSRR(w) \/ NIDD(w) \/ Step(w)

Spec == Init /\ [][Next]_vars

-----------------------------------------------------------------------------
(* Properties.                                                              *)

\* A row holds MMEs, or no id, and an id that is looked up is one that a row
\* could hold: the tables and requests of dataaccess.cpp keep their types.
TypeOK ==
    /\ users \in [Keys -> [exists : BOOLEAN, mme : Mmes \cup {Null},
                           id : Mmes \cup {NoId, Null}, status : {Null, "ATTACHED", "PURGED"},
                           plmn : Mmes \cup {Null}, data : BOOLEAN]]
    /\ DOMAIN ids \subseteq Mmes /\ peers \subseteq hosts /\ hosts \subseteq Mmes
    /\ \A w \in Workers : Active(w) /\ req[w].kind = "PUR" /\ req[w].pc # "read" =>
          req[w].id \in Mmes \cup {NoId}

\* The name and the id of different MMEs that provisioning wrote to the rows.
Mismatch(mme, id) == HomeMme # HomeId /\ mme = HomeMme /\ id = HomeId

\* The id of a row denotes the MME that the row names, however requests of
\* several MMEs overlap, and can be looked up in mmeidentity: Purge-UE and the
\* routing of short messages go by the id and Update-Location by the name.
\* updateLocation() writes both or neither, so that the only row where they
\* differ is one that provisioning wrote so, until an initial attach repairs it.
RowDenotesOneMme ==
    \A k \in Keys : LET row == users[k] IN
        row.id \in Mmes =>
            row.id \in DOMAIN ids /\ (row.mme = row.id \/ Mismatch(row.mme, row.id))

\* A successful routing answer gives the name and the number of one MME
\* (SERIFSRcmd::process takes the name from the row and the number by the id of
\* the row), unless provisioning mismatched them, and is about the subscriber whose number the sender meant, after
\* str2tbcd() at the sender and tbcd2str() in process().
RoutedRight ==
    \A w \in Workers : LET a == req[w].ans IN
        ~Active(w) /\ req[w].kind = "SRR" /\ a.code = "SUCCESS" =>
            /\ a.name = a.of \/ Mismatch(a.name, a.of)
            /\ a.dialled # <<>> =>
                  /\ Number(MsisdnOf[a.user]) = Number(a.dialled)
                  /\ a.other = {} => a.dialled = MsisdnOf[a.user]

\* Without overlapping requests for a subscriber, the network it is reported in
\* is the one of its serving node: phase2 refuses an update from another node.
\* With overlap it does not hold: phase2 compares the row as it was read.
ServedWhereSeen ==
    \A k \in Keys \ mixed : users[k].status = "ATTACHED" => users[k].plmn = users[k].mme

\* An IMSI that nobody provisioned is attached only if a NIDD request had
\* created its row: Update-Location and Purge-UE create none, though their
\* UPDATE would.
NoStrangerAttached ==
    \A k \in Strangers : users[k].exists => k \in strange

\* What a Purge-UE that reaches the UPDATE answers (PUURcmd::process): success
\* only for a subscriber that is purged then; and, unless the UPDATE fails,
\* success exactly for the serving node by name, although it is compared with
\* the MME of the id that was read before: if no other request of the
\* subscriber overlaps and the row has an id that provisioning did not mismatch.
PurgeOutcome ==
    [][\A w \in Workers : req[w].pc = "purge" /\ req'[w].pc = "done" =>
        LET k == req[w].key
            code == req'[w].ans.code IN
        /\ code = "SUCCESS" => users'[k].status = "PURGED"
        /\ /\ k \notin mixed /\ users[k].id # Null /\ code # "USER_UNKNOWN"
           /\ ~Mismatch(users[k].mme, users[k].id)
           => (code = "SUCCESS" <=> users[k].mme = req[w].mme)]_vars

\* To the Roaming-Status events that a ULR has in m_evtLst a report is sent when
\* the subscriber moves while attached, and only then, when its requests do not
\* overlap: phase3 decides by the row that phase1 read and phase4 writes.
ReportIffMoved ==
    [][\A w \in Workers : req[w].pc = "write" /\ req'[w].pc = "done"
                           /\ req[w].key \notin mixed =>
        LET old == users[req[w].key]
            new == users'[req[w].key] IN
        /\ req[w].report => req[w].roaming /\ old.status = "ATTACHED" /\ old.plmn # req[w].mme
        /\ req[w].roaming /\ old.status = "ATTACHED" /\ new.plmn # old.plmn
              => req[w].report]_vars
=============================================================================
