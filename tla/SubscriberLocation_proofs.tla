---------------------- MODULE SubscriberLocation_proofs ----------------------
(***************************************************************************)
(* Proofs about SubscriberLocation, for any sets of MMEs, subscribers and  *)
(* workers and any number of requests: a row denotes one MME, requests for *)
(* a subscriber that do not overlap find the row as they read it, and a    *)
(* short message is routed to the subscriber whose number was dialled.     *)
(***************************************************************************)
EXTENDS SubscriberLocation, SequenceFacts

Rows == [exists : BOOLEAN, mme : Mmes \cup {Null}, id : Mmes \cup {NoId, Null},
         status : {Null, "ATTACHED", "PURGED"}, plmn : Mmes \cup {Null}, data : BOOLEAN]

(* Requests, by how far they are.                                          *)
UlrRead == [kind : {"ULR"}, pc : {"read"}, mme : Mmes, key : Located,
            form : {"attach", "update", "attach-sv", "refused"}, skip : BOOLEAN,
            info : Rows, id : Mmes \cup {NoId}, todo : SUBSET {"info", "id"}]
UlrWrite == [kind : {"ULR"}, pc : {"write"}, mme : Mmes, key : Located,
             form : {"attach", "update", "attach-sv"}, id : Mmes \cup {NoId},
             roaming : BOOLEAN, report : BOOLEAN]
Purging == [kind : {"PUR"}, pc : {"read", "lookup", "purge"}, mme : Mmes, key : Located,
            form : {"purge", "refused"}, id : Mmes \cup {NoId, Null}]
Addresses == {[how |-> "msisdn", text |-> d, imsi |-> ""] : d \in Dialled}
             \cup {[how |-> "imsi", text |-> <<>>, imsi |-> k] : k \in Located}
             \cup {[how |-> "none", text |-> <<>>, imsi |-> ""]}
Routing == [kind : {"SRR"}, pc : {"read", "lookup"}, key : Keys \cup {""},
            by : Addresses, full : BOOLEAN, info : Rows]

(* The id a request holds is none, or its sender's and known.              *)
OwnId(r, known) == r.id = NoId \/ (r.id = r.mme /\ r.id \in known)

(* A ULR that read a row finds it again, unchanged without overlap.        *)
ReadFits(r, us, known, mx) ==
    /\ OwnId(r, known)
    /\ r.info.exists => /\ us[r.key].exists
                        /\ r.key \notin mx => us[r.key] = r.info

(* What a ULR is to write and report fits the row it will write.           *)
WriteFits(r, us, known, mx) ==
    /\ OwnId(r, known) /\ us[r.key].exists
    /\ r.key \notin mx =>
          /\ r.report <=> us[r.key].status = "ATTACHED" /\ us[r.key].plmn # r.mme /\ r.roaming
          /\ r.form = "update" => us[r.key].mme = r.mme

(* The id a PUR read is the row's, without overlap.                        *)
PurgeFits(r, us, known, mx) ==
    /\ r.pc # "read" => /\ us[r.key].exists /\ r.id # Null
                        /\ r.key \notin mx /\ us[r.key].id # Null => r.id = us[r.key].id
    /\ r.pc = "purge" => r.id \in known

(* A request fits the rows us, the known ids and the history mx.           *)
Fits(r, us, known, mx) ==
    \/ r.pc = "done"
    \/ r \in UlrRead /\ ReadFits(r, us, known, mx)
    \/ r \in UlrWrite /\ WriteFits(r, us, known, mx)
    \/ r \in Purging /\ PurgeFits(r, us, known, mx)
    \/ r \in Routing

(* A ULR or a PUR that is not done: one that may write its row.            *)
Writer(r) == r.pc # "done" /\ r.kind \in {"ULR", "PUR"}

Tables ==
    /\ users \in [Keys -> Rows]
    /\ DOMAIN ids \subseteq Mmes /\ hosts \subseteq DOMAIN ids /\ peers \subseteq hosts
    /\ req = [w \in Workers |-> req[w]]

(* A row that does not exist is empty.                                     *)
RowsOK == \A k \in Keys : ~users[k].exists => users[k] = NoRow

ReqsOK == \A w \in Workers : Fits(req[w], users, DOMAIN ids, mixed)

(* Writers of one row that are under way at once are recorded.             *)
Recorded ==
    \A v, w \in Workers :
        v # w /\ Writer(req[v]) /\ Writer(req[w]) /\ req[v].key = req[w].key
            => req[v].key \in mixed

IInv ==
    /\ Tables /\ RowsOK /\ ReqsOK /\ Recorded
    /\ RowDenotesOneMme /\ NoStrangerAttached /\ ServedWhereSeen

-----------------------------------------------------------------------------
(* A request keeps fitting while ids and the history grow, rows stay, and   *)
(* the row it found is unchanged or the history names it.                   *)
LEMMA StillFits ==
  ASSUME NEW r, NEW us, NEW us2, NEW known, NEW known2, NEW mx, NEW mx2,
         Fits(r, us, known, mx), known \subseteq known2, mx \subseteq mx2,
         Writer(r) /\ us[r.key].exists =>
            us2[r.key].exists /\ (r.key \notin mx2 => us2[r.key] = us[r.key])
  PROVE  Fits(r, us2, known2, mx2)
<1>1. CASE r \in UlrRead /\ ReadFits(r, us, known, mx)
  <2>1. Writer(r)
    BY <1>1 DEF UlrRead, Writer
  <2>2. ReadFits(r, us2, known2, mx2)
    BY <1>1, <2>1 DEF ReadFits, OwnId
  <2> QED  BY <1>1, <2>2 DEF Fits
<1>2. CASE r \in UlrWrite /\ WriteFits(r, us, known, mx)
  <2>1. Writer(r)
    BY <1>2 DEF UlrWrite, Writer
  <2>2. WriteFits(r, us2, known2, mx2)
    BY <1>2, <2>1 DEF WriteFits, OwnId
  <2> QED  BY <1>2, <2>2 DEF Fits
<1>3. CASE r \in Purging /\ PurgeFits(r, us, known, mx)
  <2>1. Writer(r)
    BY <1>3 DEF Purging, Writer
  <2>2. PurgeFits(r, us2, known2, mx2)
    BY <1>3, <2>1 DEF PurgeFits
  <2> QED  BY <1>3, <2>2 DEF Fits
<1> QED  BY <1>1, <1>2, <1>3 DEF Fits

(* A request that fits is of the kind and at the step its fields say.       *)
LEMMA FitsByStep ==
  ASSUME NEW r, NEW us, NEW known, NEW mx, Fits(r, us, known, mx), r.pc # "done"
  PROVE  /\ r.kind = "ULR" /\ r.pc = "read" =>
               r \in UlrRead /\ ReadFits(r, us, known, mx)
         /\ r.kind = "ULR" /\ r.pc = "write" =>
               r \in UlrWrite /\ WriteFits(r, us, known, mx)
         /\ r.kind = "PUR" => r \in Purging /\ PurgeFits(r, us, known, mx)
         /\ r.kind = "SRR" => r \in Routing
  BY DEF Fits, UlrRead, UlrWrite, Purging, Routing

(* A writer's key is the key of a row.                                      *)
LEMMA WriterKey ==
  ASSUME NEW r, NEW us, NEW known, NEW mx, Fits(r, us, known, mx), Writer(r)
  PROVE  r.key \in Located /\ r.key \in Keys
<1>1. Located \subseteq Keys
  BY LocationAssumption DEF Keys
<1>2. r.kind # "SRR" /\ r.pc # "done"
  BY DEF Writer
<1>3. r \notin Routing
  BY <1>2 DEF Routing
<1>4. r \in UlrRead \/ r \in UlrWrite \/ r \in Purging
  BY <1>2, <1>3 DEF Fits
<1> QED  BY <1>1, <1>4 DEF UlrRead, UlrWrite, Purging

LEMMA EmptyRowTyped == EmptyRow \in Rows /\ NoRow \in Rows
  BY DEF EmptyRow, NoRow, Rows

(* Upsert of a row that exists is the row.                                  *)
LEMMA UpsertFacts ==
  ASSUME Tables, NEW k \in Keys
  PROVE  /\ Upsert(k) \in Rows /\ Upsert(k).exists
         /\ users[k].exists => Upsert(k) = users[k]
         /\ ~users[k].exists => Upsert(k) = EmptyRow
  BY EmptyRowTyped DEF Tables, Upsert, Rows, EmptyRow

-----------------------------------------------------------------------------
(* Steps that write no row, one worker's request replaced by r: the rest of *)
(* the invariant follows when r fits and is no new writer.                  *)
LEMMA OneRequest ==
  ASSUME IInv, NEW w \in Workers, NEW r,
         req' = [req EXCEPT ![w] = r], users' = users, ids' = ids, hosts' = hosts,
         peers' = peers, mixed' = mixed, strange' = strange,
         Fits(r, users, DOMAIN ids, mixed),
         Writer(r) => Writer(req[w]) /\ r.key = req[w].key
  PROVE  IInv'
<1>1. Tables'
  BY DEF IInv, Tables
<1>2. ReqsOK'
  BY DEF IInv, Tables, ReqsOK
<1>3. Recorded'
  <2>1. \A v \in Workers : Writer(req'[v]) => Writer(req[v]) /\ req'[v].key = req[v].key
    BY DEF IInv, Tables
  <2> QED  BY <2>1 DEF IInv, Recorded
<1>4. RowsOK' /\ RowDenotesOneMme' /\ NoStrangerAttached' /\ ServedWhereSeen'
  BY DEF IInv, RowsOK, RowDenotesOneMme, NoStrangerAttached, ServedWhereSeen
<1> QED  BY <1>1, <1>2, <1>3, <1>4 DEF IInv

(* What RowDenotesOneMme says of a row.                                     *)
Denotes(row, known) ==
    row.id \in Mmes => row.id \in known /\ (row.mme = row.id \/ Mismatch(row.mme, row.id))

(* A writer w that replaces its row k by one that denotes one MME and, when *)
(* attached, was seen where it is served, and then is done.                 *)
LEMMA OneRow ==
  ASSUME IInv, NEW w \in Workers, NEW r, NEW row \in Rows,
         Writer(req[w]), r.pc = "done", users[req[w].key].exists, row.exists,
         Denotes(row, DOMAIN ids),
         req[w].key \notin mixed /\ row.status = "ATTACHED" => row.plmn = row.mme,
         req' = [req EXCEPT ![w] = r], users' = [users EXCEPT ![req[w].key] = row],
         ids' = ids, hosts' = hosts, peers' = peers, mixed' = mixed, strange' = strange
  PROVE  IInv'
<1> DEFINE k == req[w].key
<1>1. k \in Keys
  BY WriterKey DEF IInv, ReqsOK
<1>2. Tables'
  BY <1>1 DEF IInv, Tables
<1>3. \A v \in Workers : v # w => req'[v] = req[v]
  BY DEF IInv, Tables
<1>4. req'[w] = r
  BY DEF IInv, Tables
<1>5. ReqsOK'
  <2> SUFFICES ASSUME NEW v \in Workers
               PROVE  Fits(req'[v], users', DOMAIN ids', mixed')
    BY DEF ReqsOK
  <2>1. CASE v = w
    BY <1>4, <2>1 DEF Fits
  <2>2. CASE v # w
    <3>1. Fits(req[v], users, DOMAIN ids, mixed)
      BY DEF IInv, ReqsOK
    <3>2. ASSUME Writer(req[v]), users[req[v].key].exists
          PROVE  /\ users'[req[v].key].exists
                 /\ req[v].key \notin mixed' => users'[req[v].key] = users[req[v].key]
      <4>1. req[v].key \in Keys
        BY <3>1, <3>2, WriterKey
      <4>2. CASE req[v].key = k
        BY <1>1, <2>2, <3>2, <4>2 DEF IInv, Tables, Recorded
      <4>3. CASE req[v].key # k
        BY <1>1, <3>2, <4>1, <4>3 DEF IInv, Tables
      <4> QED  BY <4>2, <4>3
    <3>3. Fits(req[v], users', DOMAIN ids', mixed')
      BY <3>1, <3>2, StillFits
    <3> QED  BY <1>3, <2>2, <3>3
  <2> QED  BY <2>1, <2>2
<1>6. Recorded'
  BY <1>3, <1>4 DEF IInv, Recorded, Writer
<1>7. users'[k] = row /\ \A x \in Keys : x # k => users'[x] = users[x]
  BY <1>1 DEF IInv, Tables
<1>8. RowsOK' /\ RowDenotesOneMme' /\ ServedWhereSeen'
  BY <1>1, <1>7 DEF IInv, RowsOK, RowDenotesOneMme, Denotes, ServedWhereSeen
<1>9. NoStrangerAttached'
  BY <1>1, <1>7 DEF IInv, NoStrangerAttached, Keys
<1> QED  BY <1>2, <1>5, <1>6, <1>8, <1>9 DEF IInv

(* A request that starts: the history records it when it joins another.     *)
LEMMA StartStep ==
  ASSUME IInv, NEW w \in Workers, NEW r, Start(w, r),
         r \in Routing \/ Fits(r, users, DOMAIN ids, mixed')
  PROVE  IInv'
<1>1. Tables'
  BY DEF IInv, Tables, Start
<1>2. mixed \subseteq mixed' /\ mixed' = mixed \cup {k \in {r.key} : Busy(k)}
  BY DEF Start
<1>3. /\ req'[w] = r /\ \A v \in Workers : v # w => req'[v] = req[v]
      /\ users' = users /\ ids' = ids /\ strange' = strange
  BY DEF IInv, Tables, Start
<1>4. ReqsOK'
  <2> SUFFICES ASSUME NEW v \in Workers
               PROVE  Fits(req'[v], users', DOMAIN ids', mixed')
    BY DEF ReqsOK
  <2>1. CASE v = w
    BY <1>3, <2>1 DEF Fits
  <2>2. CASE v # w
    <3>1. Fits(req[v], users, DOMAIN ids, mixed)
      BY DEF IInv, ReqsOK
    <3>2. Fits(req[v], users', DOMAIN ids', mixed')
      BY <1>2, <1>3, <3>1, StillFits
    <3> QED  BY <1>3, <2>2, <3>2
  <2> QED  BY <2>1, <2>2
<1>5. Recorded'
  <2>1. ASSUME NEW v \in Workers, v # w, Writer(req[v]), req[v].key = r.key
        PROVE  r.key \in mixed'
    <3>1. Busy(r.key)
      BY <2>1 DEF Busy, Active, Writer
    <3> QED  BY <1>2, <3>1
  <2>2. \A u, v \in Workers :
           u # v /\ Writer(req[u]) /\ Writer(req[v]) /\ req[u].key = req[v].key
               => req[u].key \in mixed'
    BY <1>2 DEF IInv, Recorded
  <2> QED  BY <1>3, <2>1, <2>2 DEF Recorded
<1>6. RowsOK' /\ RowDenotesOneMme' /\ NoStrangerAttached' /\ ServedWhereSeen'
  BY <1>2, <1>3 DEF IInv, RowsOK, RowDenotesOneMme, NoStrangerAttached, ServedWhereSeen
<1> QED  BY <1>1, <1>4, <1>5, <1>6 DEF IInv

-----------------------------------------------------------------------------
(* The actions.                                                             *)

LEMMA InitHolds == Init => IInv
<1> SUFFICES ASSUME Init PROVE IInv
  OBVIOUS
<1>1. users = [k \in Keys |-> IF k \in Provisioned
                THEN [EmptyRow EXCEPT !.mme = HomeMme, !.id = HomeId, !.data = TRUE]
                ELSE NoRow]
  BY DEF Init
<1>2. /\ HomeMme \in Mmes /\ HomeId \in FirstMmes /\ FirstMmes \subseteq Mmes
      /\ Provisioned \cap Strangers = {}
  BY LocationAssumption
<1>3. LET row == [EmptyRow EXCEPT !.mme = HomeMme, !.id = HomeId, !.data = TRUE]
      IN  /\ row.exists /\ row.mme = HomeMme /\ row.id = HomeId /\ row.status = Null
          /\ row \in Rows
  BY <1>2 DEF EmptyRow, Rows
<1>4. \A k \in Keys : k \in Provisioned =>
         /\ users[k].exists /\ users[k].mme = HomeMme /\ users[k].id = HomeId
         /\ users[k].status = Null /\ users[k] \in Rows
  BY <1>1, <1>3
<1>5. \A k \in Keys : k \notin Provisioned => users[k] = NoRow
  BY <1>1
<1>6. ~NoRow.exists /\ NoRow.id = Null /\ NoRow.status = Null
  BY DEF NoRow, EmptyRow
<1>7. DOMAIN ids = FirstMmes /\ hosts = FirstMmes /\ peers = {}
      /\ req = [w \in Workers |-> Idle]
  BY DEF Init
<1>8. Tables
  BY <1>1, <1>2, <1>4, <1>5, <1>7, EmptyRowTyped DEF Tables
<1>9. ReqsOK /\ Recorded
  BY <1>7 DEF ReqsOK, Recorded, Fits, Writer, Idle
<1>10. RowsOK /\ RowDenotesOneMme
  BY <1>2, <1>4, <1>5, <1>6, <1>7, LocationAssumption DEF RowsOK, RowDenotesOneMme, Mismatch
<1>11. NoStrangerAttached
  BY <1>2, <1>5, <1>6 DEF NoStrangerAttached, Keys
<1>12. ServedWhereSeen
  BY <1>4, <1>5, <1>6 DEF ServedWhereSeen, Null
<1> QED  BY <1>8, <1>9, <1>10, <1>11, <1>12 DEF IInv

(* data_provisioning_mme inserts the identity first, so that what can be    *)
(* looked up by host has one.                                               *)
LEMMA AddMmeStep ==
  ASSUME IInv, NEW m \in Mmes, AddMme(m)
  PROVE  IInv'
<1>1. /\ users' = users /\ peers' = peers /\ req' = req /\ mixed' = mixed
      /\ strange' = strange
  BY DEF AddMme
<1>2. /\ DOMAIN ids \subseteq DOMAIN ids' /\ DOMAIN ids' \subseteq Mmes
      /\ hosts' \subseteq DOMAIN ids' /\ hosts \subseteq hosts'
  BY DEF AddMme, IInv, Tables
<1>3. Tables'
  BY <1>1, <1>2 DEF IInv, Tables
<1>4. ReqsOK'
  <2> SUFFICES ASSUME NEW v \in Workers
               PROVE  Fits(req'[v], users', DOMAIN ids', mixed')
    BY DEF ReqsOK
  <2>1. Fits(req[v], users, DOMAIN ids, mixed)
    BY DEF IInv, ReqsOK
  <2>2. Fits(req[v], users', DOMAIN ids', mixed')
    BY <1>1, <1>2, <2>1, StillFits
  <2> QED  BY <1>1, <2>2
<1>5. Recorded'
  BY <1>1 DEF IInv, Recorded
<1>6. RowsOK' /\ RowDenotesOneMme' /\ NoStrangerAttached' /\ ServedWhereSeen'
  BY <1>1, <1>2 DEF IInv, RowsOK, RowDenotesOneMme, NoStrangerAttached, ServedWhereSeen
<1> QED  BY <1>3, <1>4, <1>5, <1>6 DEF IInv

LEMMA AcceptStep ==
  ASSUME IInv, NEW m \in Mmes, Accept(m)
  PROVE  IInv'
<1>1. /\ users' = users /\ ids' = ids /\ hosts' = hosts /\ req' = req
      /\ mixed' = mixed /\ strange' = strange /\ peers' \subseteq hosts'
  BY DEF Accept, IInv, Tables
<1> QED
  BY <1>1 DEF IInv, Tables, ReqsOK, Recorded, RowsOK, RowDenotesOneMme,
              NoStrangerAttached, ServedWhereSeen

LEMMA NoRowExists == ~NoRow.exists
  BY DEF NoRow, EmptyRow

LEMMA StartULRStep ==
  ASSUME IInv, NEW w \in Workers, StartULR(w)
  PROVE  IInv'
<1>1. PICK m \in peers, k \in Located, f \in ({"attach", "update"} \X BOOLEAN)
                                   \cup ({"attach-sv", "refused"} \X {FALSE}) :
        Start(w, [kind |-> "ULR", pc |-> "read", mme |-> m, key |-> k, form |-> f[1],
                  skip |-> f[2], info |-> NoRow, id |-> NoId, todo |-> {"info", "id"}])
  BY DEF StartULR
<1> DEFINE r == [kind |-> "ULR", pc |-> "read", mme |-> m, key |-> k, form |-> f[1],
                 skip |-> f[2], info |-> NoRow, id |-> NoId, todo |-> {"info", "id"}]
<1>2. f[1] \in {"attach", "update", "attach-sv", "refused"} /\ f[2] \in BOOLEAN
  OBVIOUS
<1>3. m \in Mmes
  BY DEF IInv, Tables
<1>4. r \in UlrRead
  BY <1>2, <1>3, EmptyRowTyped DEF UlrRead
<1>5. ReadFits(r, users, DOMAIN ids, mixed')
  BY NoRowExists DEF ReadFits, OwnId
<1>6. Fits(r, users, DOMAIN ids, mixed')
  BY <1>4, <1>5 DEF Fits
<1> QED  BY <1>1, <1>6, StartStep

LEMMA StartPURStep ==
  ASSUME IInv, NEW w \in Workers, StartPUR(w)
  PROVE  IInv'
<1>1. PICK m \in peers, k \in Located, form \in {"purge", "refused"} :
        Start(w, [kind |-> "PUR", pc |-> "read", mme |-> m, key |-> k, form |-> form,
                  id |-> Null])
  BY DEF StartPUR
<1> DEFINE r == [kind |-> "PUR", pc |-> "read", mme |-> m, key |-> k, form |-> form,
                 id |-> Null]
<1>2. m \in Mmes
  BY DEF IInv, Tables
<1>3. r \in Purging
  BY <1>2 DEF Purging
<1>4. PurgeFits(r, users, DOMAIN ids, mixed')
  BY DEF PurgeFits
<1>5. Fits(r, users, DOMAIN ids, mixed')
  BY <1>3, <1>4 DEF Fits
<1> QED  BY <1>1, <1>5, StartStep

LEMMA StartSRRStep ==
  ASSUME IInv, NEW w \in Workers, StartSRR(w)
  PROVE  IInv'
<1>1. PICK by \in Addresses, full \in BOOLEAN :
        Start(w, [kind |-> "SRR", pc |-> "read", key |-> "", by |-> by, full |-> full,
                  info |-> NoRow])
  BY DEF StartSRR, Addresses
<1>2. [kind |-> "SRR", pc |-> "read", key |-> "", by |-> by, full |-> full,
       info |-> NoRow] \in Routing
  BY EmptyRowTyped DEF Routing
<1> QED  BY <1>1, <1>2, StartStep

(* A request that ends without a write.                                     *)
LEMMA AnswerOnly ==
  ASSUME IInv, NEW w \in Workers, NEW ans, Answer(w, ans),
         UNCHANGED <<users, ids, hosts, peers, started, mixed, strange>>
  PROVE  IInv'
<1> DEFINE r == [kind |-> req[w].kind, pc |-> "done", ans |-> ans]
<1>1. req' = [req EXCEPT ![w] = r]
  BY DEF Answer
<1>2. Fits(r, users, DOMAIN ids, mixed) /\ ~Writer(r)
  BY DEF Fits, Writer
<1> HIDE DEF r
<1> QED  BY <1>1, <1>2, OneRequest

LEMMA ReadInfoStep ==
  ASSUME IInv, NEW w \in Workers, ReadInfo(w)
  PROVE  IInv'
<1> DEFINE q == req[w]
           r == [q EXCEPT !.info = users[q.key], !.todo = @ \ {"info"}]
<1>1. q \in UlrRead /\ ReadFits(q, users, DOMAIN ids, mixed)
  BY FitsByStep DEF ReadInfo, IInv, ReqsOK
<1>2. users[q.key] \in Rows
  <2>1. q.key \in Keys
    BY <1>1, LocationAssumption DEF UlrRead, Keys
  <2> QED  BY <2>1 DEF IInv, Tables
<1>3. /\ r \in UlrRead /\ r.id = q.id /\ r.mme = q.mme /\ r.key = q.key
      /\ r.info = users[q.key] /\ r.pc = "read" /\ r.kind = "ULR"
  BY <1>1, <1>2 DEF UlrRead
<1>4. req' = [req EXCEPT ![w] = r]
  BY DEF ReadInfo
<1>5. Writer(q)
  BY <1>1 DEF UlrRead, Writer
<1> HIDE DEF r, q
<1>6. Fits(r, users, DOMAIN ids, mixed)
  BY <1>1, <1>3 DEF Fits, ReadFits, OwnId
<1> QED  BY <1>3, <1>4, <1>5, <1>6, OneRequest DEF ReadInfo, q

LEMMA ReadIdStep ==
  ASSUME IInv, NEW w \in Workers, ReadId(w)
  PROVE  IInv'
<1> DEFINE q == req[w]
<1>1. q \in UlrRead /\ ReadFits(q, users, DOMAIN ids, mixed)
  BY FitsByStep DEF ReadId, IInv, ReqsOK
<1>2. PICK i \in {NoId} \cup ({q.mme} \cap hosts) :
         req' = [req EXCEPT ![w] = [q EXCEPT !.id = i, !.todo = @ \ {"id"}]]
  BY DEF ReadId
<1> DEFINE r == [q EXCEPT !.id = i, !.todo = @ \ {"id"}]
<1>3. i = NoId \/ (i = q.mme /\ i \in DOMAIN ids /\ i \in Mmes)
  BY DEF IInv, Tables
<1>4. /\ r \in UlrRead /\ r.id = i /\ r.mme = q.mme /\ r.key = q.key
      /\ r.info = q.info /\ r.pc = "read" /\ r.kind = "ULR"
  BY <1>1, <1>3 DEF UlrRead
<1>5. Writer(q)
  BY <1>1 DEF UlrRead, Writer
<1>6. req' = [req EXCEPT ![w] = r]
  BY <1>2
<1> HIDE DEF r, q
<1>7. Fits(r, users, DOMAIN ids, mixed)
  BY <1>1, <1>3, <1>4 DEF Fits, ReadFits, OwnId
<1> QED  BY <1>4, <1>5, <1>6, <1>7, OneRequest DEF ReadId, q

(* phase2's verdict is a success only for a row that exists, and for an     *)
(* update only from the serving node.                                       *)
LEMMA VerdictFacts ==
  ASSUME NEW r \in UlrRead, Verdict(r) = "SUCCESS"
  PROVE  /\ r.info.exists /\ r.form # "refused"
         /\ r.form = "update" => r.info.mme = r.mme
  BY DEF UlrRead, Verdict

(* What a ULR with the verdict SUCCESS becomes.                             *)
ToWrite(q, roaming) ==
    [kind |-> "ULR", pc |-> "write", mme |-> q.mme, key |-> q.key, form |-> q.form,
     id |-> q.id, roaming |-> roaming, report |-> Reports(q, roaming)]

LEMMA AnswerULRCases ==
  ASSUME NEW w \in Workers, AnswerULR(w)
  PROVE  \/ Verdict(req[w]) # "SUCCESS" /\ Answer(w, [code |-> Verdict(req[w])])
         \/ /\ Verdict(req[w]) = "SUCCESS"
            /\ \E roaming \in BOOLEAN : req' = [req EXCEPT ![w] = ToWrite(req[w], roaming)]
<1>1. CASE Verdict(req[w]) # "SUCCESS"
  BY <1>1 DEF AnswerULR
<1>2. CASE Verdict(req[w]) = "SUCCESS"
  <2>1. PICK roaming \in IF req[w].skip THEN {FALSE} ELSE BOOLEAN :
           req' = [req EXCEPT ![w] = ToWrite(req[w], roaming)]
    BY <1>2 DEF AnswerULR, ToWrite
  <2>2. roaming \in BOOLEAN
    BY Zenon
  <2> QED  BY <1>2, <2>1, <2>2
<1> QED  BY <1>1, <1>2

LEMMA AnswerULRStep ==
  ASSUME IInv, NEW w \in Workers, AnswerULR(w)
  PROVE  IInv'
<1> DEFINE q == req[w]
<1>1. q \in UlrRead /\ ReadFits(q, users, DOMAIN ids, mixed)
  BY FitsByStep DEF AnswerULR, IInv, ReqsOK
<1>2. CASE Verdict(q) # "SUCCESS"
  <2>1. Answer(w, [code |-> Verdict(q)])
    BY <1>2, AnswerULRCases
  <2> QED  BY <2>1, AnswerOnly DEF AnswerULR
<1>3. CASE Verdict(q) = "SUCCESS"
  <2>1. PICK roaming \in BOOLEAN : req' = [req EXCEPT ![w] = ToWrite(q, roaming)]
    BY <1>3, AnswerULRCases
  <2> DEFINE r == ToWrite(q, roaming)
  <2>2. /\ q.info.exists /\ q.form # "refused"
        /\ q.form = "update" => q.info.mme = q.mme
    BY <1>1, <1>3, VerdictFacts
  <2>3. Reports(q, roaming) \in BOOLEAN
    BY DEF Reports
  <2>4. r \in UlrWrite
    BY <1>1, <2>2, <2>3 DEF UlrWrite, UlrRead, ToWrite
  <2>5. OwnId(r, DOMAIN ids) /\ users[r.key].exists
    BY <1>1, <2>2 DEF ReadFits, OwnId, ToWrite
  <2>6. r.key \notin mixed =>
          /\ r.report <=> /\ users[r.key].status = "ATTACHED"
                          /\ users[r.key].plmn # r.mme /\ r.roaming
          /\ r.form = "update" => users[r.key].mme = r.mme
    BY <1>1, <2>2 DEF ReadFits, Reports, ToWrite
  <2>7. Writer(q) /\ r.key = q.key
    BY <1>1 DEF UlrRead, Writer, ToWrite
  <2> HIDE DEF r, q
  <2>8. Fits(r, users, DOMAIN ids, mixed)
    BY <2>4, <2>5, <2>6 DEF Fits, WriteFits
  <2> QED  BY <2>1, <2>7, <2>8, OneRequest DEF AnswerULR, q, r
<1> QED  BY <1>2, <1>3

(* updateLocation() writes the name and the id of the MME, or neither.      *)
LEMMA LocatedRowFacts ==
  ASSUME NEW row \in Rows, NEW r \in UlrWrite, row.exists
  PROVE  LET new == LocatedRow(row, r)
         IN  /\ new \in Rows /\ new.exists /\ new.status = "ATTACHED"
             /\ new.plmn = r.mme
             /\ r.form = "update" => new.mme = row.mme /\ new.id = row.id
             /\ r.form # "update" => new.mme = r.mme /\ new.id = r.id
  BY DEF Rows, UlrWrite, LocatedRow

LEMMA WriteLocationStep ==
  ASSUME IInv, NEW w \in Workers, WriteLocation(w)
  PROVE  IInv'
<1> DEFINE q == req[w]
           new == LocatedRow(Upsert(q.key), q)
           r == [kind |-> q.kind, pc |-> "done", ans |-> [code |-> "SUCCESS"]]
<1>1. q \in UlrWrite /\ WriteFits(q, users, DOMAIN ids, mixed)
  BY FitsByStep DEF WriteLocation, IInv, ReqsOK
<1>2. CASE users' = users
  BY <1>2, AnswerOnly DEF WriteLocation
<1>3. CASE users' = [users EXCEPT ![q.key] = new]
  <2>1. q.key \in Keys
    BY <1>1, LocationAssumption DEF UlrWrite, Keys
  <2>2. Upsert(q.key) = users[q.key] /\ users[q.key] \in Rows
    BY <1>1, <2>1, UpsertFacts DEF WriteFits, IInv, Tables
  <2>3. /\ new \in Rows /\ new.exists /\ new.status = "ATTACHED" /\ new.plmn = q.mme
        /\ q.form = "update" => new.mme = users[q.key].mme /\ new.id = users[q.key].id
        /\ q.form # "update" => new.mme = q.mme /\ new.id = q.id
    BY <1>1, <2>2, LocatedRowFacts DEF WriteFits
  <2>4. req' = [req EXCEPT ![w] = r]
    BY DEF WriteLocation, Answer
  <2>5. Writer(q) /\ r.pc = "done"
    BY <1>1 DEF UlrWrite, Writer
  <2> HIDE DEF new, r
  <2>6. Denotes(new, DOMAIN ids)
    <3>1. CASE q.form = "update"
      BY <2>1, <2>3, <3>1 DEF IInv, RowDenotesOneMme, Denotes
    <3>2. CASE q.form # "update"
      BY <1>1, <2>3, <3>2, LocationAssumption DEF WriteFits, OwnId, Denotes
    <3> QED  BY <3>1, <3>2
  <2>7. q.key \notin mixed => new.plmn = new.mme
    BY <1>1, <2>3 DEF WriteFits
  <2>8. users[q.key].exists
    BY <1>1 DEF WriteFits
  <2> QED  BY <1>3, <2>3, <2>4, <2>5, <2>6, <2>7, <2>8, OneRow DEF WriteLocation
<1> QED  BY <1>2, <1>3 DEF WriteLocation

LEMMA ReadIdOfImsiStep ==
  ASSUME IInv, NEW w \in Workers, ReadIdOfImsi(w)
  PROVE  IInv'
<1> DEFINE q == req[w]
<1>1. q \in Purging /\ PurgeFits(q, users, DOMAIN ids, mixed)
  BY FitsByStep DEF ReadIdOfImsi, IInv, ReqsOK
<1>2. CASE Answer(w, [code |-> "REFUSED"]) \/ Answer(w, [code |-> "USER_UNKNOWN"])
  BY <1>2, AnswerOnly DEF ReadIdOfImsi
<1>3. ASSUME NEW i \in IdsRead(users[q.key].id), users[q.key].exists,
             req' = [req EXCEPT ![w] = [q EXCEPT !.id = i, !.pc = "lookup"]]
      PROVE  IInv'
  <2> DEFINE r == [q EXCEPT !.id = i, !.pc = "lookup"]
  <2>1. q.key \in Keys
    BY <1>1, LocationAssumption DEF Purging, Keys
  <2>2. users[q.key].id \in Mmes \cup {NoId, Null}
    BY <2>1 DEF IInv, Tables, Rows
  <2>3. /\ i \in Mmes \cup {NoId} /\ i # Null
        /\ users[q.key].id # Null => i = users[q.key].id
    BY <1>3, <2>2, LocationAssumption DEF IdsRead, NoId, Null
  <2>4. /\ r \in Purging /\ r.pc = "lookup" /\ r.key = q.key /\ r.id = i
        /\ r.kind = "PUR"
    BY <1>1, <2>3 DEF Purging
  <2>5. Writer(q)
    BY <1>1 DEF Purging, Writer
  <2>6. req' = [req EXCEPT ![w] = r]
    BY <1>3
  <2> HIDE DEF r
  <2>7. Fits(r, users, DOMAIN ids, mixed)
    BY <1>3, <2>3, <2>4 DEF Fits, PurgeFits
  <2> QED  BY <2>4, <2>5, <2>6, <2>7, OneRequest DEF ReadIdOfImsi
<1> QED  BY <1>2, <1>3 DEF ReadIdOfImsi

LEMMA LookupMmeStep ==
  ASSUME IInv, NEW w \in Workers, LookupMme(w)
  PROVE  IInv'
<1> DEFINE q == req[w]
           r == [q EXCEPT !.pc = "purge"]
<1>1. q \in Purging /\ PurgeFits(q, users, DOMAIN ids, mixed) /\ q.pc = "lookup"
  BY FitsByStep DEF LookupMme, IInv, ReqsOK
<1>2. CASE q.id \notin DOMAIN ids
  BY <1>2, AnswerOnly DEF LookupMme
<1>3. CASE q.id \in DOMAIN ids
  <2>1. req' = [req EXCEPT ![w] = r]
    BY <1>3 DEF LookupMme
  <2>2. /\ r \in Purging /\ r.pc = "purge" /\ r.key = q.key /\ r.id = q.id
        /\ r.kind = "PUR"
    BY <1>1 DEF Purging
  <2>3. Writer(q)
    BY <1>1 DEF Purging, Writer
  <2> HIDE DEF r
  <2>4. Fits(r, users, DOMAIN ids, mixed)
    BY <1>1, <1>3, <2>2 DEF Fits, PurgeFits
  <2> QED  BY <2>1, <2>2, <2>3, <2>4, OneRequest DEF LookupMme
<1> QED  BY <1>2, <1>3

LEMMA PurgeUEStep ==
  ASSUME IInv, NEW w \in Workers, PurgeUE(w)
  PROVE  IInv'
<1> DEFINE q == req[w]
           new == [Upsert(q.key) EXCEPT !.status = "PURGED"]
           r == [kind |-> q.kind, pc |-> "done", ans |-> [code |-> PurgeCode(q)]]
<1>1. q \in Purging /\ PurgeFits(q, users, DOMAIN ids, mixed) /\ q.pc = "purge"
  BY FitsByStep DEF PurgeUE, IInv, ReqsOK
<1>2. q.key \in Keys
  BY <1>1, LocationAssumption DEF Purging, Keys
<1>3. users[q.key].exists
  BY <1>1 DEF PurgeFits
<1>4. Upsert(q.key) = users[q.key] /\ users[q.key] \in Rows
  BY <1>2, <1>3, UpsertFacts DEF IInv, Tables
<1>5. /\ new \in Rows /\ new.exists /\ new.status = "PURGED"
      /\ new.mme = users[q.key].mme /\ new.id = users[q.key].id
  BY <1>3, <1>4 DEF Rows
<1>6. \/ users' = users /\ Answer(w, [code |-> "USER_UNKNOWN"])
      \/ req' = [req EXCEPT ![w] = r] /\ users' = [users EXCEPT ![q.key] = new]
  BY DEF PurgeUE, Answer
<1>7. Writer(q) /\ r.pc = "done"
  BY <1>1 DEF Purging, Writer
<1> HIDE DEF new, r
<1>8. Denotes(new, DOMAIN ids)
  BY <1>2, <1>5 DEF IInv, RowDenotesOneMme, Denotes
<1>9. CASE users' = users /\ Answer(w, [code |-> "USER_UNKNOWN"])
  BY <1>9, AnswerOnly DEF PurgeUE
<1>10. CASE req' = [req EXCEPT ![w] = r] /\ users' = [users EXCEPT ![q.key] = new]
  BY <1>3, <1>5, <1>7, <1>8, <1>10, OneRow DEF PurgeUE
<1> QED  BY <1>6, <1>9, <1>10

(* The subscriber a routing request finds is one with a row.                *)
LEMMA ImsisAreKeys ==
  ASSUME NEW by \in Addresses
  PROVE  ImsisOf(by) \subseteq Keys
<1>1. by.imsi \in Located \cup {""}
  <2>1. ASSUME NEW d \in Dialled, by = [how |-> "msisdn", text |-> d, imsi |-> ""]
        PROVE  by.imsi = ""
    BY <2>1
  <2>2. ASSUME NEW k \in Located, by = [how |-> "imsi", text |-> <<>>, imsi |-> k]
        PROVE  by.imsi = k
    BY <2>2
  <2>3. ASSUME by = [how |-> "none", text |-> <<>>, imsi |-> ""]
        PROVE  by.imsi = ""
    BY <2>3
  <2> QED  BY <2>1, <2>2, <2>3, Zenon DEF Addresses
<1> QED  BY <1>1, LocationAssumption DEF ImsisOf, Keys

LEMMA ReadSubscriberStep ==
  ASSUME IInv, NEW w \in Workers, ReadSubscriber(w)
  PROVE  IInv'
<1> DEFINE q == req[w]
<1>1. q \in Routing
  BY FitsByStep DEF ReadSubscriber, IInv, ReqsOK
<1>2. CASE \E ans : Answer(w, ans)
  BY <1>2, AnswerOnly DEF ReadSubscriber
<1>3. ASSUME NEW k \in ImsisOf(q.by),
             req' = [req EXCEPT ![w] = [q EXCEPT !.key = k, !.info = users[k],
                                                 !.pc = "lookup"]]
      PROVE  IInv'
  <2> DEFINE r == [q EXCEPT !.key = k, !.info = users[k], !.pc = "lookup"]
  <2>1. q.by \in Addresses
    BY <1>1 DEF Routing
  <2>2. k \in Keys
    BY <1>3, <2>1, ImsisAreKeys
  <2>3. users[k] \in Rows
    BY <2>2 DEF IInv, Tables
  <2>4. r \in Routing /\ r.kind = "SRR"
    BY <1>1, <2>2, <2>3 DEF Routing
  <2>5. req' = [req EXCEPT ![w] = r]
    BY <1>3
  <2> HIDE DEF r
  <2>6. Fits(r, users, DOMAIN ids, mixed) /\ ~Writer(r)
    BY <2>4 DEF Fits, Writer
  <2> QED  BY <2>5, <2>6, OneRequest DEF ReadSubscriber
<1> QED  BY <1>2, <1>3 DEF ReadSubscriber

LEMMA RouteSMStep ==
  ASSUME IInv, NEW w \in Workers, RouteSM(w)
  PROVE  IInv'
<1>1. PICK ans : Answer(w, ans)
  BY DEF RouteSM
<1> QED  BY <1>1, AnswerOnly DEF RouteSM

(* The rows of a set S are created where they do not exist.                 *)
LEMMA NIDDRows ==
  ASSUME NEW w \in Workers, NIDD(w)
  PROVE  \E S : /\ users' = [x \in Keys |-> IF x \in S THEN Upsert(x) ELSE users[x]]
                /\ strange' = strange \cup {x \in S : ~users[x].exists}
<1> DEFINE Named(by, k, timed) == IF timed THEN NiddSubscribers(by, k) ELSE {}
           Dest(by, named, garbage) ==
               IF by = "imsi" \/ named = {} THEN named ELSE {garbage}
<1>1. PICK by \in {"imsi", "msisdn", "external", "none"}, k \in Located,
           garbage \in Located, timed \in BOOLEAN :
        LET S == Named(by, k, timed) \cup Dest(by, Named(by, k, timed), garbage)
        IN  /\ users' = [x \in Keys |-> IF x \in S THEN Upsert(x) ELSE users[x]]
            /\ strange' = strange \cup {x \in S : ~users[x].exists}
  BY Zenon DEF NIDD
<1> HIDE DEF Named, Dest
<1> QED  BY <1>1

(* A NIDD request creates rows and changes none.                            *)
LEMMA NIDDStep ==
  ASSUME IInv, NEW w \in Workers, NIDD(w)
  PROVE  IInv'
<1>1. PICK S : /\ users' = [x \in Keys |-> IF x \in S THEN Upsert(x) ELSE users[x]]
               /\ strange' = strange \cup {x \in S : ~users[x].exists}
  BY NIDDRows
<1>2. /\ ids' = ids /\ hosts' = hosts /\ peers' = peers /\ mixed' = mixed
      /\ req' = [req EXCEPT ![w] = Idle]
  BY DEF NIDD
<1>3. \A x \in Keys : /\ users'[x] \in Rows
                      /\ users[x].exists => users'[x] = users[x]
                      /\ ~users[x].exists => users'[x] = users[x] \/
                            (users'[x] = EmptyRow /\ x \in strange')
  BY <1>1, UpsertFacts DEF IInv, Tables
<1>4. EmptyRow.exists /\ EmptyRow.id \notin Mmes /\ EmptyRow.status # "ATTACHED"
  BY LocationAssumption DEF EmptyRow, Null
<1>5. Tables'
  BY <1>1, <1>2, <1>3 DEF IInv, Tables
<1>6. ReqsOK'
  <2> SUFFICES ASSUME NEW v \in Workers
               PROVE  Fits(req'[v], users', DOMAIN ids', mixed')
    BY DEF ReqsOK
  <2>1. CASE v = w
    BY <1>2, <2>1 DEF Fits, Idle, IInv, Tables
  <2>2. CASE v # w
    <3>1. Fits(req[v], users, DOMAIN ids, mixed)
      BY DEF IInv, ReqsOK
    <3>2. Writer(req[v]) => req[v].key \in Keys
      BY <3>1, WriterKey
    <3>3. Fits(req[v], users', DOMAIN ids', mixed')
      BY <1>2, <1>3, <3>1, <3>2, StillFits
    <3> QED  BY <1>2, <2>2, <3>3 DEF IInv, Tables
  <2> QED  BY <2>1, <2>2
<1>7. Recorded'
  <2>1. ~Writer(Idle)
    BY DEF Idle, Writer
  <2> QED  BY <1>2, <2>1 DEF IInv, Tables, Recorded
<1>8. RowsOK' /\ RowDenotesOneMme' /\ ServedWhereSeen'
  BY <1>2, <1>3, <1>4 DEF IInv, RowsOK, RowDenotesOneMme, ServedWhereSeen
<1>9. NoStrangerAttached'
  BY <1>1, <1>3 DEF IInv, NoStrangerAttached, Keys
<1> QED  BY <1>5, <1>6, <1>7, <1>8, <1>9 DEF IInv

LEMMA NextHolds == IInv /\ [Next]_vars => IInv'
<1> SUFFICES ASSUME IInv, [Next]_vars PROVE IInv'
  OBVIOUS
<1>1. CASE UNCHANGED vars
  BY <1>1 DEF vars, IInv, Tables, ReqsOK, Recorded, RowsOK, RowDenotesOneMme,
              NoStrangerAttached, ServedWhereSeen
<1>2. ASSUME NEW m \in Mmes, AddMme(m) \/ Accept(m) PROVE IInv'
  BY <1>2, AddMmeStep, AcceptStep
<1>3. ASSUME NEW w \in Workers, StartULR(w) \/ StartPUR(w) \/ StartSRR(w) \/ NIDD(w)
      PROVE  IInv'
  BY <1>3, StartULRStep, StartPURStep, StartSRRStep, NIDDStep
<1>4. ASSUME NEW w \in Workers, Step(w) PROVE IInv'
  BY <1>4, ReadInfoStep, ReadIdStep, AnswerULRStep, WriteLocationStep, ReadIdOfImsiStep,
     LookupMmeStep, PurgeUEStep, ReadSubscriberStep, RouteSMStep DEF Step
<1> QED  BY <1>1, <1>2, <1>3, <1>4 DEF Next

(* The inductive invariant holds of every behaviour.                        *)
THEOREM Invariance == Spec => []IInv
  BY InitHolds, NextHolds, PTL DEF Spec

(* The tables of dataaccess.cpp and the ids that Purge-UE looks up keep     *)
(* their types.                                                             *)
THEOREM TypeCorrect == Spec => []TypeOK
<1>1. IInv => TypeOK
  <2> SUFFICES ASSUME IInv PROVE TypeOK
    OBVIOUS
  <2>1. users \in [Keys -> Rows] /\ DOMAIN ids \subseteq Mmes
        /\ peers \subseteq hosts /\ hosts \subseteq Mmes
    BY DEF IInv, Tables
  <2>2. ASSUME NEW w \in Workers, Active(w), req[w].kind = "PUR", req[w].pc # "read"
        PROVE  req[w].id \in Mmes \cup {NoId}
    <3>1. req[w] \in Purging /\ PurgeFits(req[w], users, DOMAIN ids, mixed)
      BY <2>2, FitsByStep DEF IInv, ReqsOK, Active
    <3> QED  BY <2>2, <3>1 DEF Purging, PurgeFits
  <2> QED  BY <2>1, <2>2 DEF TypeOK, Rows
<1> QED  BY <1>1, Invariance, PTL

(* The id of a row can be looked up and denotes the MME that the row names, *)
(* unless provisioning wrote two, for any number of MMEs and of overlapping *)
(* requests: updateLocation() writes both columns or neither.               *)
THEOREM RowDenotesOneMmeHolds == Spec => []RowDenotesOneMme
<1>1. IInv => RowDenotesOneMme
  BY DEF IInv
<1> QED  BY <1>1, Invariance, PTL

(* Only a NIDD request creates the row of an IMSI nobody provisioned: the   *)
(* checks of phase2 and of PUURcmd::process keep the UPDATEs of ULR and PUR *)
(* from it.                                                                 *)
THEOREM NoStrangerAttachedHolds == Spec => []NoStrangerAttached
<1>1. IInv => NoStrangerAttached
  BY DEF IInv
<1> QED  BY <1>1, Invariance, PTL

(* A subscriber whose requests never overlap is attached where its serving  *)
(* node is: phase2's comparison with the row it read is enough then.        *)
THEOREM ServedWhereSeenHolds == Spec => []ServedWhereSeen
<1>1. IInv => ServedWhereSeen
  BY DEF IInv
<1> QED  BY <1>1, Invariance, PTL

-----------------------------------------------------------------------------
(* The step by which a request that is about to write ends.                 *)
LEMMA EndOfWriter ==
  ASSUME IInv, [Next]_vars, NEW w \in Workers, req[w].pc \in {"write", "purge"},
         req'[w].pc = "done"
  PROVE  WriteLocation(w) \/ PurgeUE(w)
<1>1. CASE UNCHANGED vars
  BY <1>1 DEF vars
<1>2. ASSUME NEW m \in Mmes, AddMme(m) \/ Accept(m) PROVE FALSE
  BY <1>2 DEF AddMme, Accept
<1>3. ASSUME NEW v \in Workers, StartULR(v) \/ StartPUR(v) \/ StartSRR(v) \/ NIDD(v)
      PROVE  FALSE
  <2>1. /\ ~Active(v)
        /\ \E r : req' = [req EXCEPT ![v] = r]
    BY <1>3 DEF StartULR, StartPUR, StartSRR, NIDD, Start, MayStart
  <2> QED  BY <2>1 DEF Active, IInv, Tables
<1>4. ASSUME NEW v \in Workers, Step(v) PROVE WriteLocation(w) \/ PurgeUE(w)
  <2>1. \E r : req' = [req EXCEPT ![v] = r]
    BY <1>4 DEF Step, ReadInfo, ReadId, AnswerULR, WriteLocation, ReadIdOfImsi,
                LookupMme, PurgeUE, ReadSubscriber, RouteSM, Answer
  <2>2. v = w
    BY <2>1 DEF IInv, Tables
  <2> QED
    BY <1>4, <2>2 DEF Step, ReadInfo, ReadId, AnswerULR, ReadIdOfImsi, LookupMme,
                      ReadSubscriber, RouteSM
<1> QED  BY <1>1, <1>2, <1>3, <1>4 DEF Next

LEMMA PurgeOutcomeStep ==
  ASSUME IInv, [Next]_vars, NEW w \in Workers, req[w].pc = "purge", req'[w].pc = "done"
  PROVE  LET k == req[w].key
             code == req'[w].ans.code IN
         /\ code = "SUCCESS" => users'[k].status = "PURGED"
         /\ /\ k \notin mixed /\ users[k].id # Null /\ code # "USER_UNKNOWN"
            /\ ~Mismatch(users[k].mme, users[k].id)
            => (code = "SUCCESS" <=> users[k].mme = req[w].mme)
<1> DEFINE q == req[w]
           code == req'[w].ans.code
<1>1. PurgeUE(w)
  BY EndOfWriter DEF WriteLocation
<1>2. q \in Purging /\ PurgeFits(q, users, DOMAIN ids, mixed)
  BY <1>1, FitsByStep DEF PurgeUE, IInv, ReqsOK
<1>3. q.key \in Keys
  BY <1>2, LocationAssumption DEF Purging, Keys
<1>4. Upsert(q.key) \in Rows
  BY <1>3, UpsertFacts DEF IInv
<1>5. \/ code = "USER_UNKNOWN"
      \/ code = PurgeCode(q) /\ users'[q.key].status = "PURGED"
  <2>1. CASE Answer(w, [code |-> "USER_UNKNOWN"])
    BY <2>1 DEF Answer, IInv, Tables
  <2>2. CASE /\ users' = [users EXCEPT ![q.key] = [Upsert(q.key) EXCEPT !.status = "PURGED"]]
             /\ Answer(w, [code |-> PurgeCode(q)])
    BY <1>3, <1>4, <2>2 DEF Answer, IInv, Tables, Rows
  <2> QED  BY <1>1, <2>1, <2>2 DEF PurgeUE
<1>6. ASSUME q.key \notin mixed, users[q.key].id # Null,
             ~Mismatch(users[q.key].mme, users[q.key].id)
      PROVE  PurgeCode(q) = "SUCCESS" <=> users[q.key].mme = q.mme
  <2>1. q.id = users[q.key].id /\ q.id \in Mmes
    BY <1>2, <1>6 DEF PurgeFits, IInv, Tables
  <2>2. users[q.key].mme = q.id
    BY <1>3, <1>6, <2>1 DEF IInv, RowDenotesOneMme
  <2> QED  BY <2>2 DEF PurgeCode
<1> HIDE DEF code
<1>7. code = "SUCCESS" => users'[q.key].status = "PURGED"
  BY <1>5
<1>8. /\ q.key \notin mixed /\ users[q.key].id # Null /\ code # "USER_UNKNOWN"
      /\ ~Mismatch(users[q.key].mme, users[q.key].id)
      => (code = "SUCCESS" <=> users[q.key].mme = q.mme)
  BY <1>5, <1>6
<1> QED  BY <1>7, <1>8 DEF code

(* A Purge-UE answers success only when the subscriber is purged, and when  *)
(* it neither fails nor overlaps exactly to the serving node by name, though *)
(* it compares by the id: for any number of MMEs, subscribers and requests. *)
THEOREM PurgeOutcomeHolds == Spec => PurgeOutcome
<1>1. ASSUME IInv, [Next]_vars
      PROVE  [\A w \in Workers : req[w].pc = "purge" /\ req'[w].pc = "done" =>
         LET k == req[w].key
             code == req'[w].ans.code IN
         /\ code = "SUCCESS" => users'[k].status = "PURGED"
         /\ /\ k \notin mixed /\ users[k].id # Null /\ code # "USER_UNKNOWN"
            /\ ~Mismatch(users[k].mme, users[k].id)
            => (code = "SUCCESS" <=> users[k].mme = req[w].mme)]_vars
  BY <1>1, PurgeOutcomeStep, Zenon
<1> QED  BY <1>1, Invariance, PTL DEF Spec, PurgeOutcome

LEMMA ReportStep ==
  ASSUME IInv, [Next]_vars, NEW w \in Workers, req[w].pc = "write", req'[w].pc = "done",
         req[w].key \notin mixed
  PROVE  LET old == users[req[w].key]
             new == users'[req[w].key] IN
         /\ req[w].report =>
               req[w].roaming /\ old.status = "ATTACHED" /\ old.plmn # req[w].mme
         /\ req[w].roaming /\ old.status = "ATTACHED" /\ new.plmn # old.plmn
               => req[w].report
<1> DEFINE q == req[w]
<1>1. WriteLocation(w)
  BY EndOfWriter DEF PurgeUE
<1>2. q \in UlrWrite /\ WriteFits(q, users, DOMAIN ids, mixed)
  BY <1>1, FitsByStep DEF WriteLocation, IInv, ReqsOK
<1>3. q.report <=> /\ users[q.key].status = "ATTACHED" /\ users[q.key].plmn # q.mme
                   /\ q.roaming
  BY <1>2 DEF WriteFits
<1>4. users'[q.key].plmn \in {users[q.key].plmn, q.mme}
  <2>1. q.key \in Keys
    BY <1>2, LocationAssumption DEF UlrWrite, Keys
  <2>2. Upsert(q.key) \in Rows /\ Upsert(q.key).exists
    BY <2>1, UpsertFacts DEF IInv
  <2>3. LocatedRow(Upsert(q.key), q).plmn = q.mme
    BY <1>2, <2>2, LocatedRowFacts
  <2> QED  BY <1>1, <2>1, <2>3 DEF WriteLocation, IInv, Tables
<1> QED  BY <1>3, <1>4

(* Without overlap the Roaming-Status events that a ULR has read are sent a *)
(* report when the subscriber moves while attached and only then, though    *)
(* phase3 decides by the row that phase1 read.                              *)
THEOREM ReportIffMovedHolds == Spec => ReportIffMoved
<1>1. ASSUME IInv, [Next]_vars
      PROVE  [\A w \in Workers : req[w].pc = "write" /\ req'[w].pc = "done"
                           /\ req[w].key \notin mixed =>
        LET old == users[req[w].key]
            new == users'[req[w].key] IN
        /\ req[w].report => req[w].roaming /\ old.status = "ATTACHED" /\ old.plmn # req[w].mme
        /\ req[w].roaming /\ old.status = "ATTACHED" /\ new.plmn # old.plmn
              => req[w].report]_vars
  BY <1>1, ReportStep, Zenon
<1> QED  BY <1>1, Invariance, PTL DEF Spec, ReportIffMoved

-----------------------------------------------------------------------------
(* Telephone numbers.                                                      *)

(* The subsequences that one octet carries.                                *)
LEMMA OneOf ==
  ASSUME NEW S, NEW t \in Seq(S), NEW a \in 1..Len(t)
  PROVE  SubSeq(t, a, a) = <<t[a]>>
<1>1. t[a] \in S /\ a \in Int
  BY ElementOfSeq
<1>2. \A i \in a..a : t[i] \in S
  BY <1>1
<1>3. SubSeq(t, a, a) \in Seq(S) /\ Len(SubSeq(t, a, a)) = 1
  <2>1. SubSeq(t, a, a) \in Seq(S)
    BY <1>1, <1>2, SubSeqProperties
  <2>2. Len(SubSeq(t, a, a)) = 1
    BY <1>1, <1>2, SubSeqProperties
  <2> QED  BY <2>1, <2>2
<1>4. SubSeq(t, a, a)[1] = t[a]
  BY <1>1, <1>2, SubSeqProperties
<1> DEFINE r == SubSeq(t, a, a)
<1>5. r \in Seq(S) /\ Len(r) = 1 /\ r[1] = t[a] /\ <<t[a]>> \in Seq(S) /\ Len(<<t[a]>>) = 1
  BY <1>1, <1>3, <1>4
<1> HIDE DEF r
<1>6. \A i \in 1..Len(r) : r[i] = <<t[a]>>[i]
  BY <1>5
<1>7. r = <<t[a]>>
  BY <1>5, <1>6, SeqEqual
<1> QED  BY <1>7 DEF r

LEMMA TwoOf ==
  ASSUME NEW S, NEW t \in Seq(S), NEW a \in 1..Len(t), NEW b \in 1..Len(t), b = a + 1
  PROVE  SubSeq(t, a, b) = <<t[a], t[b]>>
<1> DEFINE r == SubSeq(t, a, b)
           p == <<t[a], t[b]>>
<1>1. t[a] \in S /\ t[b] \in S /\ a \in Int /\ b \in Int
  BY ElementOfSeq
<1>2. \A i \in a..b : t[i] \in S
  BY <1>1
<1>3. r \in Seq(S) /\ Len(r) = 2
  <2>1. SubSeq(t, a, b) \in Seq(S)
    BY <1>1, <1>2, SubSeqProperties
  <2>2. Len(SubSeq(t, a, b)) = 2
    BY <1>1, <1>2, SubSeqProperties
  <2> QED  BY <2>1, <2>2
<1>4. r[1] = t[a] /\ r[2] = t[b]
  <2>1. SubSeq(t, a, b)[1] = t[a]
    BY <1>1, <1>2, SubSeqProperties
  <2>2. SubSeq(t, a, b)[2] = t[b]
    BY <1>1, <1>2, SubSeqProperties
  <2> QED  BY <2>1, <2>2
<1>5. p \in Seq(S) /\ Len(p) = 2 /\ p[1] = t[a] /\ p[2] = t[b]
  BY <1>1
<1> HIDE DEF r, p
<1>6. \A i \in 1..Len(r) : r[i] = p[i]
  BY <1>3, <1>4, <1>5
<1>7. r = p
  BY <1>3, <1>5, <1>6, SeqEqual
<1> QED  BY <1>7 DEF r, p

(* tbcd2str() of one octet.                                                *)
LEMMA Unpacked ==
  ASSUME NEW o, NEW hi, NEW lo, o = <<hi, lo>>, hi # Filler
  PROVE  (CASE o[1] = Filler -> <<>>
            [] o[1] # Filler /\ o[2] = Filler -> <<o[1]>>
            [] o[1] # Filler /\ o[2] # Filler -> <<o[1], o[2]>>)
         = IF lo = Filler THEN <<hi>> ELSE <<hi, lo>>
<1>1. o[1] = hi /\ o[2] = lo
  OBVIOUS
<1> QED  BY <1>1

(* str2tbcd() and tbcd2str() are inverse for a text of any length, of even  *)
(* or odd length: the filler that str2tbcd() adds is the only one that      *)
(* tbcd2str() drops.                                                        *)
THEOREM RoundTrip ==
  ASSUME NEW t \in Seq(0..14)
  PROVE  Tbcd2Str(Str2Tbcd(t)) = t
<1> DEFINE l == Len(t)
           n == (l + 1) \div 2
           top(i) == IF 2 * i <= l THEN 2 * i ELSE l
           octets == Str2Tbcd(t)
           seqs == [i \in 1..n |-> SubSeq(t, 2 * i - 1, top(i))]
           g == [i \in 1..n |-> SubSeq(t, 1, top(i))]
<1>1. l \in Nat /\ n \in Nat /\ 2 * n >= l /\ 2 * n <= l + 1 /\ DOMAIN t = 1..l
      /\ \A i \in 1..l : t[i] \in 0..14
  BY LenProperties, ElementOfSeq
<1>2. /\ octets = [i \in 1..n |-> <<t[2 * i - 1], IF 2 * i <= l THEN t[2 * i] ELSE 15>>]
      /\ DOMAIN octets = 1..n
  BY DEF Str2Tbcd, Filler
<1>3. ASSUME NEW i \in 1..n
      PROVE  /\ 2 * i - 1 \in 1..l /\ top(i) \in 1..l /\ (2 * i <= l => 2 * i \in 1..l)
             /\ 2 * i > l => 2 * i - 1 = l
  BY <1>1
<1> HIDE DEF n, l, octets
<1>4. ASSUME NEW i \in 1..n
      PROVE  LET hi == octets[i][1]
                 lo == octets[i][2]
             IN  (CASE hi = Filler -> <<>>
                    [] hi # Filler /\ lo = Filler -> <<hi>>
                    [] hi # Filler /\ lo # Filler -> <<hi, lo>>)
                 = SubSeq(t, 2 * i - 1, top(i))
  <2> DEFINE hi == t[2 * i - 1]
             lo == IF 2 * i <= l THEN t[2 * i] ELSE 15
  <2>1. octets[i] = <<hi, lo>>
    BY <1>2
  <2>2. 2 * i - 1 \in 1..l /\ hi # Filler
    BY <1>1, <1>3 DEF Filler
  <2>3. SubSeq(t, 2 * i - 1, top(i)) = IF lo = Filler THEN <<hi>> ELSE <<hi, lo>>
    <3>1. CASE 2 * i <= l
      <4>1. 2 * i \in 1..l /\ lo = t[2 * i] /\ lo # Filler /\ top(i) = 2 * i
        BY <1>1, <1>3, <3>1 DEF Filler
      <4>2. SubSeq(t, 2 * i - 1, 2 * i) = <<t[2 * i - 1], t[2 * i]>>
        BY <2>2, <4>1, TwoOf DEF l
      <4> QED  BY <4>1, <4>2
    <3>2. CASE ~(2 * i <= l)
      <4>1. lo = Filler /\ top(i) = 2 * i - 1
        BY <1>1, <1>3, <3>2 DEF Filler
      <4>2. SubSeq(t, 2 * i - 1, 2 * i - 1) = <<t[2 * i - 1]>>
        BY <2>2, OneOf DEF l
      <4> QED  BY <4>1, <4>2
    <3> QED  BY <3>1, <3>2
  <2> HIDE DEF hi, lo
  <2>4. PICK o : o = octets[i]
    OBVIOUS
  <2>5. (CASE o[1] = Filler -> <<>>
           [] o[1] # Filler /\ o[2] = Filler -> <<o[1]>>
           [] o[1] # Filler /\ o[2] # Filler -> <<o[1], o[2]>>)
        = IF lo = Filler THEN <<hi>> ELSE <<hi, lo>>
    BY <2>1, <2>2, <2>4, Unpacked
  <2> QED  BY <2>3, <2>4, <2>5, Zenon
<1>5. Tbcd2Str(octets) = FlattenSeq(seqs)
  BY <1>2, <1>4 DEF Tbcd2Str
<1>6. CASE l = 0
  <2>1. n = 0 /\ t = <<>>
    BY <1>1, <1>6, EmptySeq DEF l
  <2>2. seqs = <<>>
    BY <2>1
  <2>3. FlattenSeq(<<>>) = <<>>
    BY DEF FlattenSeq
  <2> QED  BY <1>5, <2>1, <2>2, <2>3 DEF octets
<1>7. CASE l > 0
  <2>1. n > 0 /\ top(n) = l
    BY <1>1, <1>7
  <2>2. Len(seqs) = n
    BY <1>1
  <2>3. \A i \in 1..n : g[i] = IF i = 1 THEN seqs[i] ELSE g[i - 1] \o seqs[i]
    <3> SUFFICES ASSUME NEW i \in 1..n
                 PROVE  g[i] = IF i = 1 THEN seqs[i] ELSE g[i - 1] \o seqs[i]
      OBVIOUS
    <3>1. CASE i = 1
      <4>1. 2 * i - 1 = 1
        BY <3>1
      <4>2. seqs[i] = SubSeq(t, 1, top(i))
        BY <4>1
      <4> QED  BY <3>1, <4>2
    <3>2. CASE i # 1
      <4>1. /\ i - 1 \in 1..n /\ top(i - 1) = 2 * i - 2 /\ 2 * i - 2 \in 0..l
            /\ top(i) \in (2 * i - 2)..l
        BY <1>1, <1>3, <3>2
      <4>2. g[i - 1] = SubSeq(t, 1, 2 * i - 2) /\ seqs[i] = SubSeq(t, (2 * i - 2) + 1, top(i))
        BY <4>1
      <4>3. SubSeq(t, 1, 2 * i - 2) \o SubSeq(t, (2 * i - 2) + 1, top(i)) = SubSeq(t, 1, top(i))
        <5> DEFINE k == 2 * i - 2
                   m == top(i)
        <5>1. 1 \in 1..(Len(t) + 1) /\ k \in (1 - 1)..Len(t) /\ m \in k..Len(t)
          BY <1>1, <4>1 DEF l
        <5> HIDE DEF k, m
        <5>2. SubSeq(t, 1, k) \o SubSeq(t, k + 1, m) = SubSeq(t, 1, m)
          BY <5>1, ConcatAdjacentSubSeq
        <5> QED  BY <5>2 DEF k, m
      <4> QED  BY <3>2, <4>2, <4>3
    <3> QED  BY <3>1, <3>2
  <2> HIDE DEF seqs, g
  <2>4. FlattenSeq(seqs) = g[n]
    BY <1>1, <2>1, <2>2, <2>3, FlattenIs
  <2>5. g[n] = SubSeq(t, 1, l)
    BY <1>1, <2>1 DEF g
  <2>6. SubSeq(t, 1, l) = t
    BY SubSeqFull DEF l
  <2> QED  BY <1>5, <2>4, <2>5, <2>6 DEF octets
<1> QED  BY <1>1, <1>6, <1>7

-----------------------------------------------------------------------------
(* Routing of short messages.                                              *)

(* A row with the id of an MME names that MME (or is as provisioning wrote   *)
(* it), one without an id names none, and an attached subscriber has an id.  *)
RowRight(row) ==
    /\ row.id \in Mmes => row.mme = row.id \/ Mismatch(row.mme, row.id)
    /\ row.id = Null => row.mme = Null
    /\ row.status = "ATTACHED" => row.id # Null

(* What RoutedRight says of an answer.                                       *)
AnswerRight(a) ==
    a.code = "SUCCESS" =>
        /\ a.name = a.of \/ Mismatch(a.name, a.of)
        /\ a.dialled # <<>> =>
              /\ Number(MsisdnOf[a.user]) = Number(a.dialled)
              /\ a.other = {} => a.dialled = MsisdnOf[a.user]

(* A serving node that a ULR read, or is to confirm, is never lost; a        *)
(* routing request holds a right row of a subscriber it asked for.           *)
RouteFits(r, us) ==
    /\ r.kind = "ULR" /\ r.pc = "read" /\ r.info.mme # Null => us[r.key].mme # Null
    /\ r.kind = "ULR" /\ r.pc = "write" /\ r.form = "update" => us[r.key].mme # Null
    /\ r.kind = "SRR" /\ r.pc = "lookup" => r.key \in ImsisOf(r.by) /\ RowRight(r.info)
    /\ r.kind = "SRR" /\ r.pc = "done" => AnswerRight(r.ans)

RouteInv ==
    /\ \A k \in Keys : RowRight(users[k])
    /\ \A w \in Workers : RouteFits(req[w], users)

RInv == IInv /\ RouteInv

LEMMA EmptyRight ==
  /\ RowRight(EmptyRow) /\ RowRight(NoRow) /\ EmptyRow.mme = Null /\ NoRow.mme = Null
  BY LocationAssumption DEF RowRight, EmptyRow, NoRow, Null, NoId

(* One worker's request becomes r, rows stay right and keep a serving node.  *)
LEMMA RouteStep ==
  ASSUME RInv, NEW w \in Workers, NEW r, req' = [req EXCEPT ![w] = r],
         RouteFits(r, users'),
         \A k \in Keys : /\ RowRight(users'[k])
                         /\ users[k].mme # Null => users'[k].mme # Null
  PROVE  RouteInv'
<1> SUFFICES ASSUME NEW v \in Workers PROVE RouteFits(req'[v], users')
  BY DEF RouteInv
<1>1. CASE v = w
  BY <1>1 DEF RInv, IInv, Tables
<1>2. CASE v # w
  <2>1. req'[v] = req[v] /\ RouteFits(req[v], users)
    BY <1>2 DEF RInv, RouteInv, IInv, Tables
  <2>2. ASSUME req[v].kind = "ULR", req[v].pc # "done" PROVE req[v].key \in Keys
    <3>1. Writer(req[v])
      BY <2>2 DEF Writer
    <3> QED  BY <3>1, WriterKey DEF RInv, IInv, ReqsOK
  <2> QED  BY <2>1, <2>2 DEF RouteFits
<1> QED  BY <1>1, <1>2

(* The same when no row is written.                                          *)
LEMMA RouteStill ==
  ASSUME RInv, NEW w \in Workers, NEW r, req' = [req EXCEPT ![w] = r], users' = users,
         RouteFits(r, users)
  PROVE  RouteInv'
<1>1. \A k \in Keys : RowRight(users'[k])
  BY DEF RInv, RouteInv
<1> QED  BY <1>1, RouteStep

(* A request of another kind than SRR that ends.                             *)
LEMMA EndRight ==
  ASSUME NEW q, q.kind # "SRR", NEW ans, NEW us
  PROVE  RouteFits([kind |-> q.kind, pc |-> "done", ans |-> ans], us)
  BY DEF RouteFits

LEMMA FailRight ==
  ASSUME NEW q, NEW c, c # "SUCCESS", NEW us
  PROVE  RouteFits([kind |-> q.kind, pc |-> "done", ans |-> [code |-> c]], us)
  BY DEF RouteFits, AnswerRight

LEMMA InitRoute == Init => RouteInv
<1> SUFFICES ASSUME Init PROVE RouteInv
  OBVIOUS
<1> DEFINE row == [EmptyRow EXCEPT !.mme = HomeMme, !.id = HomeId, !.data = TRUE]
<1>1. users = [k \in Keys |-> IF k \in Provisioned THEN row ELSE NoRow]
  BY DEF Init
<1>2. row.mme = HomeMme /\ row.id = HomeId /\ row.status = Null /\ HomeId # Null
  BY LocationAssumption DEF EmptyRow, Null
<1> HIDE DEF row
<1>3. RowRight(row)
  BY <1>2 DEF RowRight, Mismatch, Null
<1>4. \A w \in Workers : RouteFits(req[w], users)
  BY DEF Init, Idle, RouteFits
<1> QED  BY <1>1, <1>3, <1>4, EmptyRight DEF RouteInv

LEMMA StartRoute ==
  ASSUME RInv, NEW w \in Workers, StartULR(w) \/ StartPUR(w) \/ StartSRR(w)
  PROVE  RouteInv'
<1>1. CASE StartULR(w)
  <2>1. PICK m \in peers, k \in Located, f \in ({"attach", "update"} \X BOOLEAN)
                                   \cup ({"attach-sv", "refused"} \X {FALSE}) :
        Start(w, [kind |-> "ULR", pc |-> "read", mme |-> m, key |-> k, form |-> f[1],
                  skip |-> f[2], info |-> NoRow, id |-> NoId, todo |-> {"info", "id"}])
    BY <1>1 DEF StartULR
  <2> DEFINE r == [kind |-> "ULR", pc |-> "read", mme |-> m, key |-> k, form |-> f[1],
                   skip |-> f[2], info |-> NoRow, id |-> NoId, todo |-> {"info", "id"}]
  <2>2. RouteFits(r, users)
    BY EmptyRight DEF RouteFits
  <2>3. req' = [req EXCEPT ![w] = r] /\ users' = users
    BY <2>1 DEF Start
  <2> QED  BY <2>2, <2>3, RouteStill
<1>2. CASE StartPUR(w)
  <2>1. PICK m \in peers, k \in Located, form \in {"purge", "refused"} :
        Start(w, [kind |-> "PUR", pc |-> "read", mme |-> m, key |-> k, form |-> form,
                  id |-> Null])
    BY <1>2 DEF StartPUR
  <2> DEFINE r == [kind |-> "PUR", pc |-> "read", mme |-> m, key |-> k, form |-> form,
                   id |-> Null]
  <2>2. RouteFits(r, users)
    BY DEF RouteFits
  <2>3. req' = [req EXCEPT ![w] = r] /\ users' = users
    BY <2>1 DEF Start
  <2> QED  BY <2>2, <2>3, RouteStill
<1>3. CASE StartSRR(w)
  <2>1. PICK by \in Addresses, full \in BOOLEAN :
        Start(w, [kind |-> "SRR", pc |-> "read", key |-> "", by |-> by, full |-> full,
                  info |-> NoRow])
    BY <1>3 DEF StartSRR, Addresses
  <2> DEFINE r == [kind |-> "SRR", pc |-> "read", key |-> "", by |-> by, full |-> full,
                   info |-> NoRow]
  <2>2. RouteFits(r, users)
    BY DEF RouteFits
  <2>3. req' = [req EXCEPT ![w] = r] /\ users' = users
    BY <2>1 DEF Start
  <2> QED  BY <2>2, <2>3, RouteStill
<1> QED  BY <1>1, <1>2, <1>3

(* phase1: the serving node that is read stays one.                          *)
LEMMA ReadRoute ==
  ASSUME RInv, NEW w \in Workers, ReadInfo(w) \/ ReadId(w)
  PROVE  RouteInv'
<1> DEFINE q == req[w]
<1>1. q \in UlrRead /\ users' = users /\ RouteFits(q, users)
  BY FitsByStep DEF ReadInfo, ReadId, RInv, RouteInv, IInv, ReqsOK
<1>2. CASE ReadInfo(w)
  <2> DEFINE r == [q EXCEPT !.info = users[q.key], !.todo = @ \ {"info"}]
  <2>1. r.kind = "ULR" /\ r.pc = "read" /\ r.info = users[q.key] /\ r.key = q.key
    BY <1>1 DEF UlrRead
  <2>2. req' = [req EXCEPT ![w] = r]
    BY <1>2 DEF ReadInfo
  <2> HIDE DEF r
  <2>3. RouteFits(r, users)
    BY <2>1 DEF RouteFits
  <2> QED  BY <1>1, <2>2, <2>3, RouteStill
<1>3. CASE ReadId(w)
  <2>1. PICK i : req' = [req EXCEPT ![w] = [q EXCEPT !.id = i, !.todo = @ \ {"id"}]]
    BY <1>3 DEF ReadId
  <2> DEFINE r == [q EXCEPT !.id = i, !.todo = @ \ {"id"}]
  <2>2. r.kind = "ULR" /\ r.pc = "read" /\ r.info = q.info /\ r.key = q.key
    BY <1>1 DEF UlrRead
  <2>3. req' = [req EXCEPT ![w] = r]
    BY <2>1
  <2> HIDE DEF r
  <2>4. RouteFits(r, users)
    BY <1>1, <2>2 DEF RouteFits, UlrRead
  <2> QED  BY <1>1, <2>3, <2>4, RouteStill
<1> QED  BY <1>2, <1>3

(* phase2 lets an update pass only from the serving node it read.            *)
LEMMA AnswerULRRoute ==
  ASSUME RInv, NEW w \in Workers, AnswerULR(w)
  PROVE  RouteInv'
<1> DEFINE q == req[w]
<1>1. q \in UlrRead /\ users' = users /\ RouteFits(q, users)
  BY FitsByStep DEF AnswerULR, RInv, RouteInv, IInv, ReqsOK
<1>2. CASE Verdict(q) # "SUCCESS"
  <2> DEFINE d == [kind |-> q.kind, pc |-> "done", ans |-> [code |-> Verdict(q)]]
  <2>1. req' = [req EXCEPT ![w] = d]
    BY <1>2, AnswerULRCases DEF Answer
  <2>2. RouteFits(d, users)
    BY <1>2, FailRight
  <2> QED  BY <1>1, <2>1, <2>2, RouteStill
<1>3. CASE Verdict(q) = "SUCCESS"
  <2>1. PICK roaming \in BOOLEAN : req' = [req EXCEPT ![w] = ToWrite(q, roaming)]
    BY <1>3, AnswerULRCases
  <2> DEFINE r == ToWrite(q, roaming)
  <2>2. q.form = "update" => q.info.mme = q.mme
    BY <1>1, <1>3, VerdictFacts
  <2>3. q.mme # Null
    BY <1>1, LocationAssumption DEF UlrRead
  <2>4. q.form = "update" => users[q.key].mme # Null
    BY <1>1, <2>2, <2>3 DEF RouteFits, UlrRead
  <2>5. RouteFits(r, users)
    BY <2>4 DEF RouteFits, ToWrite
  <2> QED  BY <1>1, <2>1, <2>5, RouteStill
<1> QED  BY <1>2, <1>3

(* updateLocation() leaves an attached row with an id: an initial attach     *)
(* writes one, an update finds one.                                          *)
LEMMA WriteRoute ==
  ASSUME RInv, NEW w \in Workers, WriteLocation(w)
  PROVE  RouteInv'
<1> DEFINE q == req[w]
           new == LocatedRow(Upsert(q.key), q)
           r == [kind |-> q.kind, pc |-> "done", ans |-> [code |-> "SUCCESS"]]
<1>1. q \in UlrWrite /\ WriteFits(q, users, DOMAIN ids, mixed) /\ RouteFits(q, users)
  BY FitsByStep DEF WriteLocation, RInv, RouteInv, IInv, ReqsOK
<1>2. req' = [req EXCEPT ![w] = r]
  BY DEF WriteLocation, Answer
<1>3. \A us : RouteFits(r, us)
  BY <1>1, EndRight DEF UlrWrite
<1> HIDE DEF r
<1>4. CASE users' = users
  BY <1>2, <1>3, <1>4, RouteStill
<1>5. CASE users' = [users EXCEPT ![q.key] = new]
  <2>1. q.key \in Keys
    BY <1>1, LocationAssumption DEF UlrWrite, Keys
  <2>2. Upsert(q.key) = users[q.key] /\ users[q.key] \in Rows /\ RowRight(users[q.key])
    BY <1>1, <2>1, UpsertFacts DEF WriteFits, RInv, RouteInv, IInv, Tables
  <2>3. /\ q.form = "update" => new.mme = users[q.key].mme /\ new.id = users[q.key].id
        /\ q.form # "update" => new.mme = q.mme /\ new.id = q.id
    BY <1>1, <2>2, LocatedRowFacts DEF WriteFits
  <2> HIDE DEF new
  <2>4. RowRight(new) /\ new.mme # Null
    <3>1. CASE q.form = "update"
      <4>1. users[q.key].mme # Null
        BY <1>1, <3>1 DEF RouteFits, UlrWrite
      <4> QED  BY <2>2, <2>3, <3>1, <4>1 DEF RowRight
    <3>2. CASE q.form # "update"
      <4>1. /\ q.id = NoId \/ q.id = q.mme
            /\ q.mme \in Mmes /\ NoId \notin Mmes /\ Null \notin Mmes /\ NoId # Null
        BY <1>1, LocationAssumption DEF WriteFits, OwnId, UlrWrite, NoId, Null
      <4> QED  BY <2>3, <3>2, <4>1 DEF RowRight
    <3> QED  BY <3>1, <3>2
  <2>5. \A k \in Keys : /\ RowRight(users'[k])
                        /\ users[k].mme # Null => users'[k].mme # Null
    BY <1>5, <2>1, <2>4 DEF RInv, RouteInv, IInv, Tables
  <2> QED  BY <1>2, <1>3, <2>5, RouteStep
<1> QED  BY <1>4, <1>5 DEF WriteLocation

(* Purge-UE leaves the serving node and its id as they are.                  *)
LEMMA PurgeRoute ==
  ASSUME RInv, NEW w \in Workers, ReadIdOfImsi(w) \/ LookupMme(w) \/ PurgeUE(w)
  PROVE  RouteInv'
<1> DEFINE q == req[w]
<1>1. q \in Purging /\ PurgeFits(q, users, DOMAIN ids, mixed)
  BY FitsByStep DEF ReadIdOfImsi, LookupMme, PurgeUE, RInv, IInv, ReqsOK
<1>2. PICK r : req' = [req EXCEPT ![w] = r] /\ r.kind = "PUR"
  <2>1. CASE \E ans : Answer(w, ans)
    BY <1>1, <2>1 DEF Answer, Purging
  <2>2. CASE \E i : req' = [req EXCEPT ![w] = [q EXCEPT !.id = i, !.pc = "lookup"]]
    BY <1>1, <2>2 DEF Purging
  <2>3. CASE req' = [req EXCEPT ![w] = [q EXCEPT !.pc = "purge"]]
    <3>1. [q EXCEPT !.pc = "purge"].kind = "PUR"
      BY <1>1 DEF Purging
    <3> QED  BY <2>3, <3>1
  <2> QED  BY <2>1, <2>2, <2>3 DEF ReadIdOfImsi, LookupMme, PurgeUE
<1>3. \A us : RouteFits(r, us)
  BY <1>2 DEF RouteFits
<1>4. CASE ReadIdOfImsi(w) \/ LookupMme(w)
  BY <1>2, <1>3, <1>4, RouteStill DEF ReadIdOfImsi, LookupMme
<1>5. CASE PurgeUE(w)
  <2> DEFINE new == [Upsert(q.key) EXCEPT !.status = "PURGED"]
  <2>1. q.key \in Keys /\ users[q.key].exists
    BY <1>1, <1>5, LocationAssumption DEF Purging, Keys, PurgeFits, PurgeUE
  <2>2. Upsert(q.key) = users[q.key] /\ users[q.key] \in Rows /\ RowRight(users[q.key])
    BY <2>1, UpsertFacts DEF RInv, RouteInv, IInv, Tables
  <2>3. /\ new.status = "PURGED" /\ new.mme = users[q.key].mme
        /\ new.id = users[q.key].id
    BY <2>2 DEF Rows
  <2>4. users' = users \/ users' = [users EXCEPT ![q.key] = new]
    BY <1>5 DEF PurgeUE
  <2> HIDE DEF new
  <2>5. RowRight(new)
    BY <2>2, <2>3 DEF RowRight
  <2>6. \A k \in Keys : /\ RowRight(users'[k])
                        /\ users[k].mme # Null => users'[k].mme # Null
    BY <2>1, <2>3, <2>4, <2>5 DEF RInv, RouteInv, IInv, Tables
  <2> QED  BY <1>2, <1>3, <2>6, RouteStep
<1> QED  BY <1>4, <1>5

(* process() finds a subscriber with the number it was asked for.            *)
LEMMA FindRoute ==
  ASSUME RInv, NEW w \in Workers, ReadSubscriber(w)
  PROVE  RouteInv'
<1> DEFINE q == req[w]
<1>1. q \in Routing /\ users' = users
  BY FitsByStep DEF ReadSubscriber, RInv, IInv, ReqsOK
<1>2. ASSUME NEW c \in {"MISSING_AVP", "no result", "USER_UNKNOWN"},
             Answer(w, [code |-> c])
      PROVE  RouteInv'
  <2> DEFINE d == [kind |-> q.kind, pc |-> "done", ans |-> [code |-> c]]
  <2>1. RouteFits(d, users)
    BY <1>2, FailRight
  <2>2. req' = [req EXCEPT ![w] = d]
    BY <1>2 DEF Answer
  <2> QED  BY <1>1, <2>1, <2>2, RouteStill
<1>3. ASSUME NEW k \in ImsisOf(q.by),
             req' = [req EXCEPT ![w] = [q EXCEPT !.key = k, !.info = users[k],
                                                 !.pc = "lookup"]]
      PROVE  RouteInv'
  <2> DEFINE r == [q EXCEPT !.key = k, !.info = users[k], !.pc = "lookup"]
  <2>1. q.by \in Addresses
    BY <1>1 DEF Routing
  <2>2. k \in Keys
    BY <1>3, <2>1, ImsisAreKeys
  <2>3. RowRight(users[k])
    BY <2>2 DEF RInv, RouteInv
  <2>4. /\ r.kind = "SRR" /\ r.pc = "lookup" /\ r.by = q.by /\ r.key = k
        /\ r.info = users[k]
    BY <1>1 DEF Routing
  <2>5. req' = [req EXCEPT ![w] = r]
    BY <1>3
  <2> HIDE DEF r
  <2>6. RouteFits(r, users)
    BY <1>3, <2>3, <2>4 DEF RouteFits
  <2> QED  BY <1>1, <2>5, <2>6, RouteStill
<1> QED  BY <1>2, <1>3 DEF ReadSubscriber

(* What is asked for is the text that was addressed.                         *)
LEMMA TextsOf ==
  ASSUME NEW by \in Addresses
  PROVE  by.text \in Seq(0..14)
<1>1. Seq(0..9) \subseteq Seq(0..14)
  <2>1. 0..9 \subseteq 0..14
    OBVIOUS
  <2> QED  BY <2>1
<1>2. <<>> \in Seq(0..14)
  OBVIOUS
<1>3. ASSUME NEW d \in Dialled, by = [how |-> "msisdn", text |-> d, imsi |-> ""]
      PROVE  by.text = d
  BY <1>3
<1>4. ASSUME NEW k \in Located, by = [how |-> "imsi", text |-> <<>>, imsi |-> k]
      PROVE  by.text = <<>>
  BY <1>4
<1>5. ASSUME by = [how |-> "none", text |-> <<>>, imsi |-> ""]
      PROVE  by.text = <<>>
  BY <1>5
<1>6. by.text \in Dialled \/ by.text = <<>>
  BY <1>3, <1>4, <1>5, Zenon DEF Addresses
<1> QED  BY <1>1, <1>2, <1>6, LocationAssumption

LEMMA AskedIs ==
  ASSUME NEW by \in Addresses
  PROVE  Asked(by) = by.text
  BY TextsOf, RoundTrip DEF Asked

(* The number of another subscriber, so encoded, is another number.          *)
LEMMA SameNumber ==
  ASSUME NEW k \in Provisioned, NEW t \in Seq(0..14),
         Str2Tbcd(MsisdnOf[k]) = Str2Tbcd(t)
  PROVE  t = MsisdnOf[k]
<1>1. MsisdnOf[k] \in Seq(0..9)
  BY LocationAssumption
<1>2. MsisdnOf[k] \in Seq(0..14)
  <2>1. 0..9 \subseteq 0..14
    OBVIOUS
  <2> QED  BY <1>1, <2>1
<1>3. Tbcd2Str(Str2Tbcd(MsisdnOf[k])) = MsisdnOf[k] /\ Tbcd2Str(Str2Tbcd(t)) = t
  BY <1>2, RoundTrip
<1> QED  BY <1>3

(* The answer of a request whose row is right and whose subscriber has the   *)
(* number asked for, for an MME found by the row's id.                       *)
LEMMA RouteAnswerRight ==
  ASSUME NEW r \in Routing, NEW i \in IdsRead(r.info.id), i \in Mmes,
         r.key \in ImsisOf(r.by), RowRight(r.info)
  PROVE  AnswerRight(RouteAnswer(r, i))
<1>1. CASE r.info.status # "ATTACHED"
  BY <1>1 DEF RouteAnswer, AnswerRight
<1>2. CASE r.info.status = "ATTACHED"
  <2> DEFINE a == RouteAnswer(r, i)
             ot == IF r.key \in Provisioned
                   THEN {Str2Tbcd(MsisdnOf[r.key])} \ {Str2Tbcd(Asked(r.by))} ELSE {<<>>}
  <2>1. /\ a.user = r.key /\ a.dialled = r.by.text /\ a.name = r.info.mme /\ a.of = i
        /\ a.other = ot
    BY <1>2 DEF RouteAnswer
  <2>2. r.by \in Addresses
    BY DEF Routing
  <2>3. r.info.mme = i \/ Mismatch(r.info.mme, i)
    <3>1. r.info.id # Null
      BY <1>2 DEF RowRight
    <3>2. i = r.info.id
      BY <3>1 DEF IdsRead
    <3> QED  BY <3>2 DEF RowRight
  <2>4. ASSUME r.by.text # <<>>
        PROVE  /\ r.key \in Provisioned
               /\ Number(MsisdnOf[r.key]) = Number(r.by.text)
    BY <2>2, <2>4, AskedIs DEF ImsisOf
  <2>5. ASSUME r.by.text # <<>>, ot = {}
        PROVE  r.by.text = MsisdnOf[r.key]
    <3>1. r.key \in Provisioned
      BY <2>4, <2>5
    <3>2. Asked(r.by) = r.by.text /\ r.by.text \in Seq(0..14)
      BY <2>2, AskedIs, TextsOf
    <3>3. Str2Tbcd(MsisdnOf[r.key]) = Str2Tbcd(r.by.text)
      BY <2>5, <3>1, <3>2
    <3> QED  BY <3>1, <3>2, <3>3, SameNumber
  <2> HIDE DEF a, ot
  <2>6. AnswerRight(a)
    BY <2>1, <2>3, <2>4, <2>5 DEF AnswerRight
  <2> QED  BY <2>6 DEF a
<1> QED  BY <1>1, <1>2

LEMMA RouteSMRoute ==
  ASSUME RInv, NEW w \in Workers, RouteSM(w)
  PROVE  RouteInv'
<1> DEFINE q == req[w]
<1>1. /\ q \in Routing /\ q.kind = "SRR" /\ q.pc = "lookup" /\ users' = users
      /\ RouteFits(q, users)
  BY FitsByStep DEF RouteSM, RInv, RouteInv, IInv, ReqsOK
<1>2. q.key \in ImsisOf(q.by) /\ RowRight(q.info)
  BY <1>1 DEF RouteFits
<1>3. PICK i \in IdsRead(q.info.id) :
         Answer(w, IF i \in DOMAIN ids THEN RouteAnswer(q, i) ELSE [code |-> "USER_UNKNOWN"])
  BY DEF RouteSM
<1>4. CASE i \in DOMAIN ids
  <2> DEFINE d == [kind |-> q.kind, pc |-> "done", ans |-> RouteAnswer(q, i)]
  <2>1. i \in Mmes
    BY <1>4 DEF RInv, IInv, Tables
  <2>2. AnswerRight(RouteAnswer(q, i))
    BY <1>1, <1>2, <2>1, RouteAnswerRight
  <2>3. RouteFits(d, users)
    BY <2>2 DEF RouteFits
  <2>4. req' = [req EXCEPT ![w] = d]
    BY <1>3, <1>4 DEF Answer
  <2> QED  BY <1>1, <2>3, <2>4, RouteStill
<1>5. CASE i \notin DOMAIN ids
  <2> DEFINE d == [kind |-> q.kind, pc |-> "done", ans |-> [code |-> "USER_UNKNOWN"]]
  <2>1. RouteFits(d, users)
    BY FailRight
  <2>2. req' = [req EXCEPT ![w] = d]
    BY <1>3, <1>5 DEF Answer
  <2> QED  BY <1>1, <2>1, <2>2, RouteStill
<1> QED  BY <1>4, <1>5

(* A row that a NIDD request creates has neither a serving node nor an id.   *)
LEMMA NIDDRoute ==
  ASSUME RInv, NEW w \in Workers, NIDD(w)
  PROVE  RouteInv'
<1>0. PICK S : users' = [x \in Keys |-> IF x \in S THEN Upsert(x) ELSE users[x]]
  BY NIDDRows
<1>1. \A x \in Keys : users'[x] \in {Upsert(x), users[x]}
  BY <1>0
<1>2. req' = [req EXCEPT ![w] = Idle]
  BY DEF NIDD
<1>3. ASSUME NEW k \in Keys
      PROVE  users'[k] = users[k] \/ (users'[k] = EmptyRow /\ users[k] = NoRow)
  <2>1. users[k].exists => Upsert(k) = users[k]
    BY DEF Upsert
  <2>2. ~users[k].exists => Upsert(k) = EmptyRow /\ users[k] = NoRow
    BY DEF Upsert, RInv, IInv, RowsOK
  <2> QED  BY <1>1, <2>1, <2>2
<1>4. \A k \in Keys : /\ RowRight(users'[k])
                      /\ users[k].mme # Null => users'[k].mme # Null
  BY <1>3, EmptyRight DEF RInv, RouteInv
<1>5. RouteFits(Idle, users')
  BY DEF Idle, RouteFits
<1> QED  BY <1>2, <1>4, <1>5, RouteStep

LEMMA NextRoute == RInv /\ [Next]_vars => RInv'
<1> SUFFICES ASSUME RInv, [Next]_vars PROVE RouteInv'
  BY NextHolds DEF RInv
<1>1. CASE req' = req /\ users' = users
  BY <1>1 DEF RInv, RouteInv
<1>2. CASE UNCHANGED vars
  BY <1>1, <1>2 DEF vars
<1>3. ASSUME NEW m \in Mmes, AddMme(m) \/ Accept(m) PROVE RouteInv'
  BY <1>1, <1>3 DEF AddMme, Accept
<1>4. ASSUME NEW w \in Workers, StartULR(w) \/ StartPUR(w) \/ StartSRR(w) \/ NIDD(w)
      PROVE  RouteInv'
  BY <1>4, StartRoute, NIDDRoute
<1>5. ASSUME NEW w \in Workers, Step(w) PROVE RouteInv'
  BY <1>5, ReadRoute, AnswerULRRoute, WriteRoute, PurgeRoute, FindRoute, RouteSMRoute
     DEF Step
<1> QED  BY <1>2, <1>3, <1>4, <1>5 DEF Next

(* RInv holds of every behaviour.                                            *)
THEOREM RouteInvariance == Spec => []RInv
<1>1. Init => RInv
  BY InitHolds, InitRoute DEF RInv
<1> QED  BY <1>1, NextRoute, PTL DEF Spec

(* A successful routing answer names the MME whose number it carries and is  *)
(* about the subscriber with the number the sender dialled, for any numbers, *)
(* MMEs and overlapping requests: process() takes the name from the row, the *)
(* number by the row's id, and the subscriber by a text that was encoded by  *)
(* str2tbcd() and decoded by tbcd2str().                                     *)
THEOREM RoutedRightHolds == Spec => []RoutedRight
<1>1. RInv => RoutedRight
  BY DEF RInv, RouteInv, RouteFits, AnswerRight, RoutedRight, Active
<1> QED  BY <1>1, RouteInvariance, PTL
=============================================================================
