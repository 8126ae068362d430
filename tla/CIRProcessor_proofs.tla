------------------------ MODULE CIRProcessor_proofs ------------------------
(***************************************************************************)
(* Proofs about the Configuration-Information request, for groups of any   *)
(* size, any number of operations and any number of timer expiries.        *)
(***************************************************************************)
EXTENDS CIRProcessor, FiniteSetTheorems, SequenceTheorems, TLAPS

IsSeq(s) == s \in Seq(Range(s))

(* The responses in a queue: of whom; messages that may be there once are.  *)
Resp(q) == {q[j].imsi : j \in {k \in 1..Len(q) : q[k].id = "MME_RESPONSE"}}
Has(q, id) == \E j \in 1..Len(q) : q[j].id = id
NoRepeat(q) ==
    \A j, k \in 1..Len(q) :
        /\ q[j].id = "CIA_SENT" /\ q[k].id = "CIA_SENT" => j = k
        /\ q[j].id = "MME_RESPONSE" /\ q[k].id = "MME_RESPONSE" /\ q[j].imsi = q[k].imsi => j = k

(* Those whose entry is in the report.                                      *)
Done(s) == {s[l].imsi : l \in 1..Len(s)}

Type ==
    /\ in \in Requests /\ IsSeq(m_events) /\ IsSeq(imsi_status) /\ IsSeq(rirs)
    /\ todo \subseteq in.imsis
    /\ idr \in [Imsis -> {"none", "out", "failed", "over"}]
    /\ pc \in {"users", "db", "send", "error", "done"}
    /\ builder \in {"none", "on", "off"}
    /\ mapAlive \in BOOLEAN /\ m_ciasent \in BOOLEAN /\ m_nb_ida_proc \in Int

(* The dispatch thread and the answers, of a single subscriber ...          *)
Single ==
    builder = "none" =>
        /\ pc \in {"users", "db"} => todo = {} /\ \A i \in Imsis : idr[i] = "none"
        /\ \A i, j \in todo : i = j
        /\ todo # {} => pc = "send" /\ cias = <<>> /\ \A i \in Imsis : idr[i] = "none"
        /\ \A i, j \in Imsis : idr[i] # "none" /\ idr[j] # "none" => i = j
        /\ \A i \in Imsis :
              /\ idr[i] # "none" => pc \in {"send", "done"}
              /\ idr[i] \in {"out", "failed"} => cias = <<>>
              /\ idr[i] = "over" => Len(cias) = 1
        /\ pc \in {"users", "db", "error"} => cias = <<>>
        /\ pc = "send" /\ todo = {} => \E i \in Imsis : idr[i] # "none"
        /\ pc = "done" => Len(cias) = 1 \/ \E i \in Imsis : idr[i] \in {"out", "failed"}
        /\ m_events = <<>> /\ imsi_status = <<>> /\ rirs = <<>> /\ ~m_ciasent /\ ~armed

(* ... and of a group.                                                      *)
Group ==
    builder # "none" =>
        /\ pc \in {"send", "error", "done"}
        /\ cias = <<>> \/ Len(cias) = 1
        /\ pc = "done" <=> cias # <<>>
        /\ m_nb_ida_proc = Cardinality(in.imsis) - Len(imsi_status)
        /\ ~mapAlive => m_ciasent /\ m_nb_ida_proc = 0
        /\ mapAlive => \A j \in 1..Len(rirs) : ~rirs[j].final
        /\ Has(m_events, "CIA_SENT") => pc = "done" /\ ~m_ciasent
        /\ m_ciasent => pc = "done"

(* Every subscriber is in one place: waiting, asked, in a response, or in   *)
(* the report.                                                              *)
Places ==
    /\ \A i \in Imsis : idr[i] # "none" => i \in in.imsis \ todo
    /\ Resp(m_events) \cup Done(imsi_status) \subseteq {i \in in.imsis : idr[i] = "over"}
    /\ Resp(m_events) \cap Done(imsi_status) = {}
    /\ Cardinality(Done(imsi_status)) = Len(imsi_status)
    /\ NoRepeat(m_events)
    /\ pc = "db" => mapAlive /\ builder = "none"

CInv == Type /\ Single /\ Group /\ Places /\ FinalReport

-----------------------------------------------------------------------------
(* Sequences of anything.                                                    *)

LEMMA AnySeq == ASSUME NEW S, NEW s \in Seq(S)  PROVE IsSeq(s)
  BY LenProperties DEF IsSeq, Range

LEMMA AppendAny ==
  ASSUME NEW s, IsSeq(s), NEW x
  PROVE  LET r == Append(s, x)
         IN  /\ IsSeq(r) /\ Len(s) \in Nat /\ Len(r) = Len(s) + 1
             /\ r[Len(s) + 1] = x /\ \A i \in 1..Len(s) : r[i] = s[i]
<1> DEFINE S == Range(s) \cup {x}
           r == Append(s, x)
<1>1. s \in Seq(S) /\ x \in S
  BY DEF IsSeq
<1>2. /\ r \in Seq(S) /\ Len(s) \in Nat /\ Len(r) = Len(s) + 1
      /\ r[Len(s) + 1] = x /\ \A i \in 1..Len(s) : r[i] = s[i]
  BY <1>1, AppendProperties, LenProperties
<1>3. IsSeq(r)
  BY <1>2, AnySeq
<1> QED  BY <1>2, <1>3

LEMMA TailAny ==
  ASSUME NEW s, IsSeq(s), s # <<>>
  PROVE  /\ IsSeq(Tail(s)) /\ Len(s) \in Nat /\ Len(s) > 0 /\ Len(Tail(s)) = Len(s) - 1
         /\ Head(s) = s[1] /\ \A i \in 1..(Len(s) - 1) : Tail(s)[i] = s[i + 1]
<1> DEFINE S == Range(s)
<1>1. s \in Seq(S)
  BY DEF IsSeq
<1>2. /\ Tail(s) \in Seq(S) /\ Len(s) \in Nat /\ Len(s) > 0 /\ Len(Tail(s)) = Len(s) - 1
      /\ Head(s) = s[1] /\ \A i \in 1..(Len(s) - 1) : Tail(s)[i] = s[i + 1]
  BY <1>1, HeadTailProperties, LenProperties, EmptySeq
<1>3. IsSeq(Tail(s))
  BY <1>2, AnySeq
<1> QED  BY <1>2, <1>3

LEMMA EmptyAny == IsSeq(<<>>) /\ Len(<<>>) = 0 /\ \A x : Append(<<>>, x) # <<>> /\ Len(Append(<<>>, x)) = 1
<1>1. IsSeq(<<>>) /\ Len(<<>>) = 0
  BY DEF IsSeq
<1>2. ASSUME NEW x  PROVE Len(Append(<<>>, x)) = 1
  BY <1>1, AppendAny
<1> QED  BY <1>1, <1>2

LEMMA ConcatOne == ASSUME NEW s, IsSeq(s), NEW x  PROVE s \o <<x>> = Append(s, x)
<1> DEFINE S == Range(s) \cup {x}
<1>1. s \in Seq(S) /\ <<x>> \in Seq(S) /\ x \in S /\ Len(<<x>>) = 1 /\ <<x>>[1] = x
  BY DEF IsSeq
<1>2. Len(s) \in Nat
  BY <1>1, LenProperties
<1>3. s \o <<x>> \in Seq(S) /\ Append(s, x) \in Seq(S)
  BY <1>1, ConcatProperties, AppendProperties
<1>4. Len(s \o <<x>>) = Len(s) + 1 /\ Len(Append(s, x)) = Len(s) + 1
  BY <1>1, ConcatProperties, AppendProperties
<1>5. \A i \in 1..(Len(s) + 1) : (s \o <<x>>)[i] = Append(s, x)[i]
  BY <1>1, <1>2, ConcatProperties, AppendProperties
<1> QED  BY <1>3, <1>4, <1>5, SeqEqual

(* A message joins the queue.                                                *)
LEMMA QueueAppend ==
  ASSUME NEW q, IsSeq(q), NEW e
  PROVE  LET r == Append(q, e)
         IN  /\ IsSeq(r) /\ \A id : Has(r, id) <=> Has(q, id) \/ e.id = id
             /\ Resp(r) = IF e.id = "MME_RESPONSE" THEN Resp(q) \cup {e.imsi} ELSE Resp(q)
             /\ /\ NoRepeat(q) /\ (e.id = "CIA_SENT" => ~Has(q, "CIA_SENT"))
                /\ e.id = "MME_RESPONSE" => e.imsi \notin Resp(q)
                => NoRepeat(r)
<1> DEFINE r == Append(q, e)
           n == Len(q)
<1>1. /\ IsSeq(r) /\ n \in Nat /\ Len(r) = n + 1 /\ r[n + 1] = e /\ \A i \in 1..n : r[i] = q[i]
  BY AppendAny
<1>2. 1..Len(r) = (1..n) \cup {n + 1} /\ n + 1 \notin 1..n
  BY <1>1
<1> HIDE DEF r, n
<1>3. \A id : Has(r, id) <=> Has(q, id) \/ e.id = id
  BY <1>1, <1>2 DEF Has, n
<1>4. Resp(r) = IF e.id = "MME_RESPONSE" THEN Resp(q) \cup {e.imsi} ELSE Resp(q)
  BY <1>1, <1>2 DEF Resp, n
<1>5. ASSUME NoRepeat(q), e.id = "CIA_SENT" => ~Has(q, "CIA_SENT"),
             e.id = "MME_RESPONSE" => e.imsi \notin Resp(q)
      PROVE  NoRepeat(r)
  BY <1>1, <1>2, <1>5 DEF NoRepeat, Has, Resp, n
<1> QED  BY <1>1, <1>3, <1>4, <1>5 DEF r

(* The oldest message leaves the queue.                                      *)
LEMMA QueueTail ==
  ASSUME NEW q, IsSeq(q), q # <<>>, NoRepeat(q)
  PROVE  LET r == Tail(q)
             e == Head(q)
         IN  /\ IsSeq(r) /\ NoRepeat(r) /\ Has(q, e.id) /\ (\A id : Has(r, id) => Has(q, id))
             /\ e.id = "CIA_SENT" => ~Has(r, "CIA_SENT")
             /\ e.id = "MME_RESPONSE" => /\ e.imsi \in Resp(q) /\ e.imsi \notin Resp(r)
                                         /\ Resp(r) \cup {e.imsi} = Resp(q)
             /\ e.id # "MME_RESPONSE" => Resp(r) = Resp(q)
<1> DEFINE r == Tail(q)
           n == Len(q)
<1>1. /\ IsSeq(r) /\ n \in Nat /\ n > 0 /\ Len(r) = n - 1 /\ Head(q) = q[1]
      /\ \A i \in 1..(n - 1) : r[i] = q[i + 1]
  BY TailAny
<1> HIDE DEF r, n
<1>2. \A i \in 1..Len(r) : i + 1 \in 1..n /\ i + 1 # 1 /\ r[i] = q[i + 1]
  BY <1>1
<1>3. \A k \in 1..n : k # 1 => k - 1 \in 1..Len(r) /\ r[k - 1] = q[k]
  BY <1>1
<1>4. 1 \in 1..n /\ Head(q) = q[1]
  BY <1>1
<1>5. \A i, j \in 1..Len(r) : i + 1 = j + 1 => i = j
  BY <1>1
<1>6. NoRepeat(r)
  <2> SUFFICES ASSUME NEW j \in 1..Len(r), NEW k \in 1..Len(r)
               PROVE  /\ r[j].id = "CIA_SENT" /\ r[k].id = "CIA_SENT" => j = k
                      /\ /\ r[j].id = "MME_RESPONSE" /\ r[k].id = "MME_RESPONSE"
                         /\ r[j].imsi = r[k].imsi
                         => j = k
    BY DEF NoRepeat
  <2>1. /\ j + 1 \in 1..n /\ r[j] = q[j + 1] /\ k + 1 \in 1..n /\ r[k] = q[k + 1]
        /\ j + 1 = k + 1 => j = k
    BY <1>2, <1>5
  <2> QED  BY <2>1 DEF NoRepeat, n
<1>7. Has(q, Head(q).id) /\ \A id : Has(r, id) => Has(q, id)
  BY <1>2, <1>4 DEF Has, n
<1>8. Head(q).id = "CIA_SENT" => ~Has(r, "CIA_SENT")
  BY <1>2, <1>4 DEF Has, NoRepeat, n
<1>9. ASSUME Head(q).id = "MME_RESPONSE"
      PROVE  /\ Head(q).imsi \in Resp(q) /\ Head(q).imsi \notin Resp(r)
             /\ Resp(r) \cup {Head(q).imsi} = Resp(q)
  <2>1. Head(q).imsi \in Resp(q)
    BY <1>4, <1>9 DEF Resp, n
  <2>2. Head(q).imsi \notin Resp(r)
    BY <1>2, <1>4, <1>9 DEF Resp, NoRepeat, n
  <2>3. \A i \in Resp(r) : i \in Resp(q)
    BY <1>2 DEF Resp, n
  <2>4. \A i \in Resp(q) : i = Head(q).imsi \/ i \in Resp(r)
    BY <1>3, <1>4 DEF Resp, n
  <2> QED  BY <2>1, <2>2, <2>3, <2>4
<1>10. ASSUME Head(q).id # "MME_RESPONSE"  PROVE Resp(r) = Resp(q)
  <2>3. \A i \in Resp(r) : i \in Resp(q)
    BY <1>2 DEF Resp, n
  <2>4. \A i \in Resp(q) : i \in Resp(r)
    BY <1>3, <1>4, <1>10 DEF Resp, n
  <2> QED  BY <2>3, <2>4
<1> QED  BY <1>1, <1>6, <1>7, <1>8, <1>9, <1>10 DEF r

-----------------------------------------------------------------------------
LEMMA RequestFacts ==
  ASSUME in \in Requests
  PROVE  /\ in.imsis \subseteq Imsis /\ IsFiniteSet(in.imsis) /\ Cardinality(in.imsis) \in Nat
         /\ in.user = "msisdn" => in.imsis # {} /\ \A i, j \in in.imsis : i = j
<1>1. in.imsis \subseteq Imsis /\ (in.user = "msisdn" => Cardinality(in.imsis) = 1)
  BY DEF Requests
<1>2. IsFiniteSet(in.imsis) /\ Cardinality(in.imsis) \in Nat
  BY <1>1, CIRAssumption, FS_Subset, FS_CardinalityType
<1>3. ASSUME in.user = "msisdn"  PROVE in.imsis # {} /\ \A i, j \in in.imsis : i = j
  <2>1. PICK x : in.imsis = {x}
    BY <1>1, <1>2, <1>3, FS_Singleton
  <2> QED  BY <2>1
<1> QED  BY <1>1, <1>2, <1>3

(* No final report is out while the dispatch thread runs.                    *)
LEMMA NoFinal ==
  ASSUME CInv, pc # "done" \/ builder = "none"
  PROVE  \A j \in 1..Len(rirs) : ~rirs[j].final
<1>1. CASE builder = "none"
  BY <1>1, EmptyAny DEF CInv, Single
<1>2. CASE builder # "none"
  BY <1>2 DEF CInv, Group, Type
<1> QED  BY <1>1, <1>2

(* A step that changes none of these.                                        *)
LEMMA OtherVars ==
  ASSUME CInv, UNCHANGED <<in, m_events, imsi_status, rirs, todo, idr, pc, builder, mapAlive,
                           m_ciasent, m_nb_ida_proc, cias, armed>>
  PROVE  CInv'
  BY DEF CInv, Type, Single, Group, Places, FinalReport

LEMMA FindUsersKeeps == ASSUME CInv, FindUsers  PROVE CInv'
<1> USE DEF CInv
<1>1. /\ pc = "users" /\ pc' \in {"db", "error"} /\ (pc' = "db" => mapAlive') /\ mapAlive' \in BOOLEAN
      /\ UNCHANGED <<in, m_events, imsi_status, rirs, todo, idr, builder, m_ciasent,
                     m_nb_ida_proc, cias, armed>>
  BY DEF FindUsers, Type
<1>2. builder = "none"
  BY <1>1 DEF Group
<1>3. Type' /\ Places' /\ FinalReport'
  BY <1>1, <1>2 DEF Type, Places, FinalReport
<1>4. Single'
  BY <1>1, <1>2 DEF Single
<1>5. Group'
  BY <1>1, <1>2 DEF Group
<1> QED  BY <1>3, <1>4, <1>5

LEMMA JsonThrowsKeeps == ASSUME CInv, JsonThrows  PROVE CInv'
<1> USE DEF CInv
<1>1. /\ pc = "db" /\ pc' \in {"db", "error"}
      /\ UNCHANGED <<in, m_events, imsi_status, rirs, todo, idr, builder, m_ciasent,
                     m_nb_ida_proc, cias, armed, mapAlive>>
  BY DEF JsonThrows, rir
<1>2. builder = "none"
  BY <1>1 DEF Group
<1>3. Type' /\ Places' /\ FinalReport'
  BY <1>1, <1>2 DEF Type, Places, FinalReport
<1>4. Single'
  BY <1>1, <1>2 DEF Single
<1>5. Group'
  BY <1>1, <1>2 DEF Group
<1> QED  BY <1>3, <1>4, <1>5

LEMMA StartBuilderKeeps == ASSUME CInv, StartBuilder  PROVE CInv'
<1> USE DEF CInv
<1>1. /\ pc = "db" /\ pc' = "send" /\ todo' = in.imsis
      /\ UNCHANGED <<in, imsi_status, rirs, idr, mapAlive, m_ciasent, cias, armed>>
  BY DEF StartBuilder
<1>2. /\ builder = "none" /\ mapAlive /\ m_events = <<>> /\ imsi_status = <<>> /\ rirs = <<>>
      /\ ~m_ciasent /\ ~armed /\ cias = <<>> /\ \A i \in Imsis : idr[i] = "none"
  BY <1>1 DEF Places, Single
<1>3. FinalReport'
  BY <1>1, <1>2, EmptyAny DEF FinalReport
<1>4. CASE in.user = "msisdn"
  <2>1. UNCHANGED <<builder, m_events, m_nb_ida_proc>>
    BY <1>4 DEF StartBuilder
  <2>2. in.imsis # {} /\ \A i, j \in in.imsis : i = j
    BY <1>4, RequestFacts DEF Type
  <2>3. Type'
    BY <1>1, <2>1 DEF Type
  <2>4. Places'
    BY <1>1, <1>2, <2>1 DEF Places
  <2>5. Single'
    BY <1>1, <1>2, <2>1, <2>2 DEF Single
  <2>6. Group'
    BY <1>2, <2>1 DEF Group
  <2> QED  BY <1>3, <2>3, <2>4, <2>5, <2>6
<1>5. CASE in.user # "msisdn"
  <2> DEFINE e == [id |-> "INIT"]
  <2>1. builder' = "on" /\ m_events' = <<e>> /\ m_nb_ida_proc' = Cardinality(in.imsis)
    BY <1>5 DEF StartBuilder, GroupSize
  <2>2. Cardinality(in.imsis) \in Nat
    BY RequestFacts DEF Type
  <2>3. e.id = "INIT" /\ <<e>> = Append(<<>>, e)
    BY EmptyAny, ConcatOne
  <2> HIDE DEF e
  <2>4. /\ IsSeq(<<e>>) /\ Resp(<<e>>) = Resp(m_events) /\ NoRepeat(<<e>>)
        /\ ~Has(<<e>>, "CIA_SENT")
    <3>1. ~Has(<<>>, "CIA_SENT")
      BY EmptyAny DEF Has
    <3>2. IsSeq(m_events) /\ NoRepeat(m_events)
      BY DEF Type, Places
    <3> QED  BY <1>2, <2>3, <3>1, <3>2, QueueAppend
  <2>5. Type'
    BY <1>1, <2>1, <2>2, <2>4 DEF Type
  <2>6. Places'
    BY <1>1, <1>2, <2>1, <2>4 DEF Places
  <2>7. Single'
    BY <2>1 DEF Single
  <2>8. Group'
    BY <1>1, <1>2, <2>1, <2>2, <2>4, EmptyAny DEF Group
  <2> QED  BY <1>3, <2>5, <2>6, <2>7, <2>8
<1> QED  BY <1>4, <1>5

LEMMA SendErrorKeeps == ASSUME CInv, SendError  PROVE CInv'
<1> USE DEF CInv
<1> DEFINE x == [code |-> "USER_UNKNOWN", absent |-> FALSE, status |-> NoMap]
<1>1. /\ pc = "error" /\ pc' = "done" /\ cias' = Append(cias, x)
      /\ UNCHANGED <<in, m_events, imsi_status, rirs, todo, idr, builder, mapAlive, m_ciasent,
                     m_nb_ida_proc, armed>>
  BY DEF SendError, rir
<1>2. cias = <<>>
  BY <1>1 DEF Single, Group
<1> HIDE DEF x
<1>3. Len(cias') = 1 /\ cias' # <<>>
  BY <1>1, <1>2, EmptyAny
<1>4. Type' /\ Places'
  BY <1>1 DEF Type, Places
<1>5. Single'
  BY <1>1, <1>2, <1>3 DEF Single
<1>6. Group'
  BY <1>1, <1>2, <1>3 DEF Group
<1>7. FinalReport'
  BY <1>1, NoFinal DEF FinalReport
<1> QED  BY <1>4, <1>5, <1>6, <1>7

LEMMA SendCiaKeeps == ASSUME CInv, SendCia  PROVE CInv'
<1> USE DEF CInv
<1>1. /\ pc = "send" /\ pc' = "done" /\ todo = {}
      /\ UNCHANGED <<in, imsi_status, rirs, todo, idr, builder, mapAlive, m_ciasent,
                     m_nb_ida_proc, armed>>
  BY DEF SendCia, rir
<1>2. CASE builder = "none"
  <2>1. UNCHANGED <<cias, m_events>>
    BY <1>2 DEF SendCia
  <2>2. Type' /\ Places' /\ FinalReport' /\ Group'
    BY <1>1, <1>2, <2>1 DEF Type, Places, FinalReport, Group
  <2>3. Single'
    BY <1>1, <1>2, <2>1 DEF Single, Type
  <2> QED  BY <2>2, <2>3
<1>3. CASE builder # "none"
  <2> DEFINE e == [id |-> "CIA_SENT"]
             x == Cia(NoMap, {}, FALSE)
  <2>1. cias' = Append(cias, x) /\ m_events' = Append(m_events, e)
    BY <1>3 DEF SendCia
  <2>2. e.id = "CIA_SENT" /\ cias = <<>> /\ ~Has(m_events, "CIA_SENT") /\ ~m_ciasent
    BY <1>1, <1>3 DEF Group
  <2> HIDE DEF e, x
  <2>3. Len(cias') = 1 /\ cias' # <<>>
    BY <2>1, <2>2, EmptyAny
  <2>4. IsSeq(m_events') /\ Resp(m_events') = Resp(m_events) /\ NoRepeat(m_events')
    BY <2>1, <2>2, QueueAppend DEF Type, Places
  <2>5. Type' /\ Single'
    BY <1>1, <1>3, <2>4 DEF Type, Single
  <2>6. Places'
    BY <1>1, <2>4 DEF Places
  <2>7. Group'
    BY <1>1, <1>3, <2>2, <2>3 DEF Group
  <2>8. FinalReport'
    BY <1>1, NoFinal DEF FinalReport
  <2> QED  BY <2>5, <2>6, <2>7, <2>8
<1> QED  BY <1>2, <1>3

-----------------------------------------------------------------------------
(* A subscriber that no IDR was considered for, or whose IDR is out, is in   *)
(* no response and not in the report.                                        *)
LEMMA NotYet ==
  ASSUME CInv, NEW i \in Imsis, i \in todo \/ idr[i] = "out"
  PROVE  i \in in.imsis /\ i \notin Resp(m_events) /\ i \notin Done(imsi_status)
  BY DEF CInv, Places, Type

LEMMA SendKeeps ==
  ASSUME CInv, NEW i \in Imsis, pc = "send", i \in todo, todo' = todo \ {i},
         \/ \E v \in {"out", "failed"} : idr' = [idr EXCEPT ![i] = v] /\ UNCHANGED pc
         \/ idr' = idr /\ pc' = "error",
         UNCHANGED <<in, m_events, imsi_status, rirs, builder, mapAlive, m_ciasent,
                     m_nb_ida_proc, cias, armed>>
  PROVE  CInv'
<1> USE DEF CInv
<1>1. i \in in.imsis /\ i \notin Resp(m_events) /\ i \notin Done(imsi_status) /\ idr[i] = "none"
  BY NotYet DEF Places, Type
<1>2. Type'
  BY DEF Type
<1>3. \A j \in Imsis : j # i => idr'[j] = idr[j]
  BY DEF Type
<1>4. Places'
  <2>1. in.imsis \subseteq Imsis
    BY RequestFacts DEF Type
  <2>2. Resp(m_events) \cup Done(imsi_status) \subseteq {j \in in.imsis : idr'[j] = "over"}
    BY <1>1, <1>3, <2>1 DEF Places
  <2>3. \A j \in Imsis : idr'[j] # "none" => j \in in.imsis \ todo'
    BY <1>1, <1>3 DEF Places, Type
  <2>4. pc' # "db"
    OBVIOUS
  <2> QED  BY <2>2, <2>3, <2>4 DEF Places
<1>5. Group'
  BY DEF Group
<1>6. FinalReport'
  BY DEF FinalReport
<1>7. Single'
  <2> SUFFICES ASSUME builder = "none"
               PROVE  Single'
    BY DEF Single
  <2>1. /\ todo = {i} /\ cias = <<>> /\ \A j \in Imsis : idr[j] = "none"
        /\ m_events = <<>> /\ imsi_status = <<>> /\ rirs = <<>> /\ ~m_ciasent /\ ~armed
    BY DEF Single
  <2>2. todo' = {}
    BY <2>1
  <2>3. CASE idr' = idr /\ pc' = "error"
    BY <2>1, <2>2, <2>3 DEF Single
  <2>4. CASE \E v \in {"out", "failed"} : idr' = [idr EXCEPT ![i] = v] /\ UNCHANGED pc
    <3>1. idr'[i] \in {"out", "failed"} /\ pc' = "send"
      BY <2>4 DEF Type
    <3> QED  BY <1>3, <2>1, <2>2, <3>1 DEF Single
  <2> QED  BY <2>3, <2>4
<1> QED  BY <1>2, <1>4, <1>5, <1>6, <1>7

(* A single subscriber's CIA is sent: by the dispatch thread, for an IDR it  *)
(* did not send, or by the thread that gets the MME's answer.                *)
LEMMA SingleCiaKeeps ==
  ASSUME CInv, NEW i \in Imsis, builder = "none",
         \/ i \in todo /\ todo' = todo \ {i} /\ pc' = "done"
         \/ idr[i] = "out" /\ UNCHANGED <<todo, pc>>,
         idr' = [idr EXCEPT ![i] = "over"], NEW x, cias' = Append(cias, x), mapAlive' = FALSE,
         UNCHANGED <<in, m_events, imsi_status, rirs, builder, m_ciasent, m_nb_ida_proc, armed>>
  PROVE  CInv'
<1> USE DEF CInv
<1>1. /\ cias = <<>> /\ todo' = {} /\ \A j \in Imsis : j # i => idr[j] = "none"
      /\ m_events = <<>> /\ imsi_status = <<>> /\ rirs = <<>> /\ ~m_ciasent /\ ~armed
      /\ pc \in {"send", "done"} /\ i \in in.imsis
  BY NotYet DEF Single
<1>2. idr'[i] = "over" /\ \A j \in Imsis : j # i => idr'[j] = idr[j]
  BY DEF Type
<1>3. Len(cias') = 1
  BY <1>1, EmptyAny
<1>4. Type'
  BY <1>1 DEF Type
<1>5. Places'
  BY <1>1, <1>2 DEF Places, Single
<1>6. Group' /\ FinalReport'
  BY <1>1, EmptyAny DEF Group, FinalReport
<1>7. Single'
  BY <1>1, <1>2, <1>3 DEF Single
<1> QED  BY <1>4, <1>5, <1>6, <1>7

(* A response about a subscriber of a group is queued.                       *)
LEMMA ResponseKeeps ==
  ASSUME CInv, NEW i \in Imsis, builder # "none",
         \/ i \in todo /\ todo' = todo \ {i}
         \/ idr[i] = "out" /\ UNCHANGED todo,
         idr' = [idr EXCEPT ![i] = "over"],
         \/ UNCHANGED m_events
         \/ \E e : e.id = "MME_RESPONSE" /\ e.imsi = i /\ m_events' = Append(m_events, e),
         UNCHANGED <<in, imsi_status, rirs, pc, builder, mapAlive, m_ciasent, m_nb_ida_proc,
                     cias, armed>>
  PROVE  CInv'
<1> USE DEF CInv
<1>1. i \in in.imsis /\ i \notin Resp(m_events) /\ i \notin Done(imsi_status)
  BY NotYet
<1>2. idr'[i] = "over" /\ \A j \in Imsis : j # i => idr'[j] = idr[j]
  BY DEF Type
<1>3. /\ IsSeq(m_events') /\ NoRepeat(m_events') /\ Resp(m_events') \subseteq Resp(m_events) \cup {i}
      /\ Has(m_events', "CIA_SENT") <=> Has(m_events, "CIA_SENT")
  <2>1. CASE UNCHANGED m_events
    BY <2>1 DEF Type, Places
  <2>2. CASE \E e : e.id = "MME_RESPONSE" /\ e.imsi = i /\ m_events' = Append(m_events, e)
    <3>1. PICK e : e.id = "MME_RESPONSE" /\ e.imsi = i /\ m_events' = Append(m_events, e)
      BY <2>2
    <3>2. IsSeq(m_events) /\ NoRepeat(m_events)
      BY DEF Type, Places
    <3> QED  BY <1>1, <3>1, <3>2, QueueAppend
  <2> QED  BY <2>1, <2>2
<1>4. Type'
  BY <1>3 DEF Type
<1>5. Places'
  BY <1>1, <1>2, <1>3 DEF Places, Type
<1>6. Single' /\ FinalReport'
  BY DEF Single, FinalReport
<1>7. Group'
  BY <1>3 DEF Group
<1> QED  BY <1>4, <1>5, <1>6, <1>7

LEMMA SendINSDRreqKeeps == ASSUME CInv, NEW i \in Imsis, SendINSDRreq(i)  PROVE CInv'
<1>1. /\ pc = "send" /\ i \in todo /\ todo' = todo \ {i}
      /\ UNCHANGED <<in, builder, m_nb_ida_proc, m_ciasent, imsi_status, rirs, armed>>
  BY DEF SendINSDRreq
<1>2. CASE Send(i) \/ SendFails(i) \/ SendThrows
  <2>1. /\ \/ \E v \in {"out", "failed"} : idr' = [idr EXCEPT ![i] = v] /\ UNCHANGED pc
           \/ idr' = idr /\ pc' = "error"
        /\ UNCHANGED <<m_events, mapAlive, cias>>
    BY <1>2 DEF Send, SendFails, SendThrows
  <2> QED  BY <1>1, <2>1, SendKeeps
<1>3. CASE \E reach \in Reach \ {"active"} : NotSent(i, reach)
  <2>1. PICK reach : NotSent(i, reach)
    BY <1>3
  <2>2. idr' = [idr EXCEPT ![i] = "over"]
    BY <2>1 DEF NotSent
  <2>3. CASE builder = "none"
    <3>1. PICK x : cias' = Append(cias, x)
      BY <2>1, <2>3 DEF NotSent
    <3>2. mapAlive' = FALSE /\ pc' = "done" /\ UNCHANGED m_events
      BY <2>1, <2>3 DEF NotSent, AfterSimple
    <3> QED  BY <1>1, <2>2, <2>3, <3>1, <3>2, SingleCiaKeeps
  <2>4. CASE builder # "none"
    <3> DEFINE e == Response(i, reach, NoMap)
    <3>1. m_events' = m_events \o <<e>> /\ UNCHANGED <<pc, cias, mapAlive>>
      BY <2>1, <2>4 DEF NotSent, FakeResponse
    <3>2. e.id = "MME_RESPONSE" /\ e.imsi = i
      BY DEF Response
    <3> HIDE DEF e
    <3>3. m_events' = Append(m_events, e)
      BY <3>1, ConcatOne DEF CInv, Type
    <3> QED  BY <1>1, <2>2, <2>4, <3>1, <3>2, <3>3, ResponseKeeps
  <2> QED  BY <2>3, <2>4
<1> QED  BY <1>2, <1>3 DEF SendINSDRreq

LEMMA ProcessAnswerKeeps == ASSUME CInv, NEW i \in Imsis, ProcessAnswer(i)  PROVE CInv'
<1>1. /\ idr[i] = "out" /\ idr' = [idr EXCEPT ![i] = "over"]
      /\ UNCHANGED <<in, pc, todo, builder, m_nb_ida_proc, m_ciasent, imsi_status, rirs, armed>>
  BY DEF ProcessAnswer, thread
<1>2. CASE builder = "none"
  <2>1. \/ AnswerSingleError
        \/ \E codes \in MmeAnswers : AnswerSingle(codes)
    BY <1>2, Zenon DEF ProcessAnswer
  <2>2. mapAlive' = FALSE /\ UNCHANGED m_events
    BY <1>2, Zenon DEF ProcessAnswer
  <2>3. PICK x : cias' = Append(cias, x)
    BY <2>1, Zenon DEF AnswerSingleError, AnswerSingle
  <2> QED  BY <1>1, <1>2, <2>2, <2>3, SingleCiaKeeps
<1>3. CASE builder # "none"
  <2>1. UNCHANGED <<cias, mapAlive>>
    BY <1>3, Zenon DEF ProcessAnswer
  <2>2. \/ m_events' = m_events
        \/ \E r, codes : m_events' = Append(m_events, Response(i, r, codes))
    BY <1>3, Zenon DEF ProcessAnswer
  <2>3. \A r, codes : Response(i, r, codes).id = "MME_RESPONSE" /\ Response(i, r, codes).imsi = i
    BY DEF Response
  <2>4. \/ UNCHANGED m_events
        \/ \E e : e.id = "MME_RESPONSE" /\ e.imsi = i /\ m_events' = Append(m_events, e)
    BY <2>2, <2>3
  <2> QED  BY <1>1, <1>3, <2>1, <2>4, ResponseKeeps
<1> QED  BY <1>2, <1>3

-----------------------------------------------------------------------------
(* Once the map is deleted everyone is in the report, and in no other place. *)
LEMMA MapDeleted ==
  ASSUME CInv, builder # "none", ~mapAlive
  PROVE  /\ Done(imsi_status) = in.imsis /\ Len(imsi_status) = Cardinality(in.imsis)
         /\ todo = {} /\ (\A i \in Imsis : idr[i] # "out") /\ Resp(m_events) = {}
         /\ ~Has(m_events, "CIA_SENT") /\ ~Has(m_events, "MME_RESPONSE") /\ Len(cias) = 1
<1> USE DEF CInv
<1>1. /\ IsFiniteSet(in.imsis) /\ Cardinality(in.imsis) \in Nat /\ in.imsis \subseteq Imsis
  BY RequestFacts DEF Type
<1>2. Len(imsi_status) \in Nat
  BY LenProperties DEF Type, IsSeq
<1>3. m_ciasent /\ m_nb_ida_proc = 0 /\ m_nb_ida_proc = Cardinality(in.imsis) - Len(imsi_status)
  BY DEF Group
<1>4. Len(imsi_status) = Cardinality(in.imsis)
  BY <1>1, <1>2, <1>3
<1>5. Done(imsi_status) \in SUBSET in.imsis /\ Cardinality(Done(imsi_status)) = Cardinality(in.imsis)
  BY <1>4 DEF Places
<1>6. Done(imsi_status) = in.imsis
  BY <1>1, <1>5, FS_Subset
<1>7. Resp(m_events) = {}
  BY <1>6 DEF Places
<1>8. ~Has(m_events, "MME_RESPONSE")
  BY <1>7 DEF Resp, Has
<1>9. todo = {}
  BY <1>1, <1>6 DEF Places, Type
<1>10. \A i \in Imsis : idr[i] # "out"
  BY <1>6 DEF Places
<1>11. ~Has(m_events, "CIA_SENT") /\ Len(cias) = 1
  BY <1>3 DEF Group
<1> QED  BY <1>4, <1>6, <1>7, <1>8, <1>9, <1>10, <1>11

(* A step of the builder that leaves the report alone: the queue loses its   *)
(* oldest message, which is neither a response nor CIA_SENT, or gains one    *)
(* that is neither.                                                          *)
LEMMA QueueKeeps ==
  ASSUME CInv, builder # "none", builder' \in {"on", "off"}, IsSeq(m_events'), NoRepeat(m_events'),
         Resp(m_events') = Resp(m_events), Has(m_events', "CIA_SENT") => Has(m_events, "CIA_SENT"),
         UNCHANGED <<in, imsi_status, rirs, todo, idr, pc, mapAlive, m_ciasent, m_nb_ida_proc,
                     cias>>
  PROVE  CInv'
<1> USE DEF CInv
<1>1. Type'
  BY DEF Type
<1>2. Single' /\ FinalReport'
  BY DEF Single, FinalReport
<1>3. Places'
  BY DEF Places
<1>4. Group'
  BY DEF Group
<1> QED  BY <1>1, <1>2, <1>3, <1>4

LEMMA TakesFacts ==
  ASSUME CInv, NEW id, Takes(id)
  PROVE  /\ builder = "on" /\ builder # "none" /\ IsSeq(m_events) /\ m_events # <<>> /\ NoRepeat(m_events)
         /\ Head(m_events).id = id
  BY DEF Takes, CInv, Type, Places

LEMMA DropKeeps ==
  ASSUME CInv, NEW id, Takes(id), id \notin {"MME_RESPONSE", "CIA_SENT"}
  PROVE  LET r == Tail(m_events)
         IN  /\ IsSeq(r) /\ NoRepeat(r) /\ Resp(r) = Resp(m_events)
             /\ Has(r, "CIA_SENT") => Has(m_events, "CIA_SENT")
  BY TakesFacts, QueueTail

LEMMA AddKeeps ==
  ASSUME NEW q, IsSeq(q), NoRepeat(q), NEW e, e.id \notin {"MME_RESPONSE", "CIA_SENT"}
  PROVE  LET r == Append(q, e)
         IN  /\ IsSeq(r) /\ NoRepeat(r) /\ Resp(r) = Resp(q)
             /\ Has(r, "CIA_SENT") => Has(q, "CIA_SENT")
  BY QueueAppend

LEMMA OnInitKeeps == ASSUME CInv, OnInit  PROVE CInv'
<1>1. /\ Takes("INIT") /\ m_events' = Tail(m_events)
      /\ UNCHANGED <<in, builder, imsi_status, rirs, todo, idr, pc, mapAlive, m_ciasent,
                     m_nb_ida_proc, cias>>
  BY DEF OnInit, thread
<1>2. builder # "none" /\ builder' = "on"
  BY <1>1, TakesFacts
<1>3. /\ IsSeq(m_events') /\ NoRepeat(m_events') /\ Resp(m_events') = Resp(m_events)
      /\ Has(m_events', "CIA_SENT") => Has(m_events, "CIA_SENT")
  BY <1>1, DropKeeps
<1> QED  BY <1>1, <1>2, <1>3, QueueKeeps

LEMMA OnQuitKeeps == ASSUME CInv, OnQuit  PROVE CInv'
<1>1. /\ Takes("QUIT") /\ m_events' = Tail(m_events) /\ builder' = "off"
      /\ UNCHANGED <<in, imsi_status, rirs, todo, idr, pc, mapAlive, m_ciasent,
                     m_nb_ida_proc, cias>>
  BY DEF OnQuit, thread
<1>2. builder # "none"
  BY <1>1, TakesFacts
<1>3. /\ IsSeq(m_events') /\ NoRepeat(m_events') /\ Resp(m_events') = Resp(m_events)
      /\ Has(m_events', "CIA_SENT") => Has(m_events, "CIA_SENT")
  BY <1>1, DropKeeps
<1> QED  BY <1>1, <1>2, <1>3, QueueKeeps

LEMMA TimerFiresKeeps == ASSUME CInv, TimerFires  PROVE CInv'
<1> DEFINE e == [id |-> "TIMER"]
<1>1. /\ armed /\ m_events' = Append(m_events, e)
      /\ UNCHANGED <<in, builder, imsi_status, rirs, todo, idr, pc, mapAlive, m_ciasent,
                     m_nb_ida_proc, cias>>
  BY DEF TimerFires, thread
<1>2. builder # "none" /\ builder' \in {"on", "off"}
  BY <1>1 DEF CInv, Single, Type
<1>3. e.id = "TIMER" /\ IsSeq(m_events) /\ NoRepeat(m_events)
  BY DEF CInv, Type, Places
<1> HIDE DEF e
<1>4. /\ IsSeq(m_events') /\ NoRepeat(m_events') /\ Resp(m_events') = Resp(m_events)
      /\ Has(m_events', "CIA_SENT") => Has(m_events, "CIA_SENT")
  BY <1>1, <1>3, AddKeeps
<1> QED  BY <1>1, <1>2, <1>4, QueueKeeps

LEMMA OnTimerKeeps == ASSUME CInv, OnTimer  PROVE CInv'
<1> DEFINE e == [id |-> "GUARD_TIMEOUT"]
<1>1. /\ Takes("TIMER") /\ m_events' = Append(Tail(m_events), e)
      /\ UNCHANGED <<in, builder, imsi_status, rirs, todo, idr, pc, mapAlive, m_ciasent,
                     m_nb_ida_proc, cias>>
  BY DEF OnTimer, thread, rir
<1>2. builder # "none" /\ builder' = "on"
  BY <1>1, TakesFacts
<1>3. /\ IsSeq(Tail(m_events)) /\ NoRepeat(Tail(m_events)) /\ Resp(Tail(m_events)) = Resp(m_events)
      /\ Has(Tail(m_events), "CIA_SENT") => Has(m_events, "CIA_SENT")
  BY <1>1, DropKeeps
<1>4. e.id = "GUARD_TIMEOUT"
  OBVIOUS
<1> HIDE DEF e
<1>5. /\ IsSeq(m_events') /\ NoRepeat(m_events') /\ Resp(m_events') = Resp(m_events)
      /\ Has(m_events', "CIA_SENT") => Has(m_events, "CIA_SENT")
  BY <1>1, <1>3, <1>4, AddKeeps
<1> QED  BY <1>1, <1>2, <1>5, QueueKeeps

(* An early report tells what there is.                                      *)
LEMMA GuardTimeoutKeeps == ASSUME CInv, GuardTimeout  PROVE CInv'
<1> USE DEF CInv
<1> DEFINE x == [n |-> Len(imsi_status), final |-> FALSE]
<1>1. /\ Takes("GUARD_TIMEOUT") /\ m_events' = Tail(m_events) /\ rirs' = Append(rirs, x)
      /\ UNCHANGED <<in, builder, imsi_status, todo, idr, pc, mapAlive, m_ciasent,
                     m_nb_ida_proc, cias, armed>>
  BY DEF GuardTimeout, thread
<1>2. builder # "none" /\ builder' = "on"
  BY <1>1, TakesFacts
<1>3. /\ IsSeq(m_events') /\ NoRepeat(m_events') /\ Resp(m_events') = Resp(m_events)
      /\ Has(m_events', "CIA_SENT") => Has(m_events, "CIA_SENT")
  BY <1>1, DropKeeps
<1>4. x.n = Len(imsi_status) /\ ~x.final
  OBVIOUS
<1> HIDE DEF x
<1>5. /\ IsSeq(rirs') /\ Len(rirs) \in Nat /\ Len(rirs') = Len(rirs) + 1
      /\ rirs'[Len(rirs) + 1] = x /\ \A j \in 1..Len(rirs) : rirs'[j] = rirs[j]
  BY <1>1, AppendAny DEF Type
<1>6. Type'
  BY <1>1, <1>2, <1>3, <1>5 DEF Type
<1>7. Single'
  BY <1>2 DEF Single
<1>8. Places'
  BY <1>1, <1>2, <1>3 DEF Places
<1>9. \A j \in 1..Len(rirs') : j \in 1..Len(rirs) \/ j = Len(rirs) + 1
  BY <1>5
<1>10. Group'
  <2>1. mapAlive => \A j \in 1..Len(rirs') : ~rirs'[j].final
    BY <1>2, <1>4, <1>5, <1>9 DEF Group
  <2> QED  BY <1>1, <1>2, <1>3, <2>1 DEF Group
<1>11. FinalReport'
  <2> SUFFICES ASSUME NEW j \in 1..Len(rirs'), rirs'[j].final
               PROVE  /\ Len(cias) = 1
                      /\ \A l \in j..Len(rirs') : rirs'[l].n = Cardinality(in.imsis)
                                                  /\ (rirs'[l].final => l = j)
                      /\ in.imsis = {imsi_status[l].imsi : l \in 1..Len(imsi_status)}
                      /\ Len(imsi_status) = Cardinality(in.imsis)
    BY <1>1 DEF FinalReport
  <2>1. j \in 1..Len(rirs) /\ rirs[j].final
    BY <1>4, <1>5, <1>9
  <2>2. /\ Len(cias) = 1 /\ Len(imsi_status) = Cardinality(in.imsis)
        /\ in.imsis = {imsi_status[l].imsi : l \in 1..Len(imsi_status)}
        /\ \A l \in j..Len(rirs) : rirs[l].n = Cardinality(in.imsis) /\ (rirs[l].final => l = j)
    BY <2>1 DEF FinalReport
  <2>3. ASSUME NEW l \in j..Len(rirs')
        PROVE  rirs'[l].n = Cardinality(in.imsis) /\ (rirs'[l].final => l = j)
    <3>1. l \in j..Len(rirs) \/ l = Len(rirs) + 1
      BY <1>5, <2>1
    <3>2. l \in j..Len(rirs) => rirs'[l] = rirs[l]
      BY <1>5, <2>1
    <3> QED  BY <1>4, <1>5, <2>2, <3>1, <3>2
  <2> QED  BY <2>2, <2>3
<1> QED  BY <1>6, <1>7, <1>8, <1>10, <1>11

-----------------------------------------------------------------------------
(* The builder has handled a response or CIA_SENT: q is what is left in its  *)
(* queue, s the report, nb how many responses are missing, and cs whether    *)
(* the CIA is out.                                                           *)
Handled(q, s, nb, cs) ==
    /\ IsSeq(q) /\ NoRepeat(q) /\ IsSeq(s)
    /\ Resp(q) \cup Done(s) \subseteq {i \in in.imsis : idr[i] = "over"}
    /\ Resp(q) \cap Done(s) = {} /\ Cardinality(Done(s)) = Len(s)
    /\ nb \in Int /\ cs \in BOOLEAN /\ nb = Cardinality(in.imsis) - Len(s)
    /\ cs => pc = "done"
    /\ Has(q, "CIA_SENT") => pc = "done" /\ ~cs

LEMMA FinishKeeps ==
  ASSUME CInv, builder = "on", mapAlive, NEW q, NEW s, NEW nb, NEW cs, Handled(q, s, nb, cs),
         Finish(q, nb, cs, s), imsi_status' = s, m_nb_ida_proc' = nb, m_ciasent' = cs,
         UNCHANGED <<in, todo, idr, pc, builder, cias, armed>>
  PROVE  CInv'
<1> USE DEF CInv
<1>1. builder # "none" /\ builder' = "on"
  OBVIOUS
<1>2. Single'
  BY <1>1 DEF Single
<1>3. \A j \in 1..Len(rirs) : ~rirs[j].final
  BY <1>1 DEF Group
<1>4. IsSeq(rirs)
  BY DEF Type
<1>5. CASE Finished(nb, cs)
  <2> DEFINE x == [n |-> Len(s), final |-> TRUE]
             e == [id |-> "QUIT"]
  <2>1. rirs' = Append(rirs, x) /\ mapAlive' = FALSE /\ m_events' = Append(q, e)
    BY <1>5 DEF Finish
  <2>2. x.n = Len(s) /\ x.final /\ e.id = "QUIT" /\ nb = 0 /\ cs
    BY <1>5 DEF Finished
  <2> HIDE DEF x, e
  <2>3. /\ IsSeq(m_events') /\ NoRepeat(m_events') /\ Resp(m_events') = Resp(q)
        /\ Has(m_events', "CIA_SENT") => Has(q, "CIA_SENT")
    BY <2>1, <2>2, AddKeeps DEF Handled
  <2>4. /\ IsSeq(rirs') /\ Len(rirs) \in Nat /\ Len(rirs') = Len(rirs) + 1
        /\ rirs'[Len(rirs) + 1] = x /\ \A j \in 1..Len(rirs) : rirs'[j] = rirs[j]
    BY <1>4, <2>1, AppendAny
  <2>5. IsFiniteSet(in.imsis) /\ Cardinality(in.imsis) \in Nat
    BY RequestFacts DEF Type
  <2>6. Len(s) \in Nat
    BY LenProperties DEF Handled, IsSeq
  <2>7. Len(s) = Cardinality(in.imsis)
    BY <2>2, <2>5, <2>6 DEF Handled
  <2>8. Done(s) = in.imsis
    <3>1. Done(s) \in SUBSET in.imsis /\ Cardinality(Done(s)) = Cardinality(in.imsis)
      BY <2>7 DEF Handled
    <3> QED  BY <2>5, <3>1, FS_Subset
  <2>9. pc = "done" /\ Len(cias) = 1
    BY <1>1, <2>2 DEF Handled, Group
  <2>10. Type'
    BY <2>1, <2>3, <2>4 DEF Type, Handled
  <2>11. Places'
    BY <1>1, <2>3, <2>9 DEF Places, Handled
  <2>12. Group'
    BY <1>1, <2>1, <2>2, <2>3, <2>9 DEF Group, Handled
  <2>13. FinalReport'
    <3> SUFFICES ASSUME NEW j \in 1..Len(rirs'), rirs'[j].final
                 PROVE  \A l \in j..Len(rirs') : rirs'[l].n = Cardinality(in.imsis)
                                                 /\ (rirs'[l].final => l = j)
      BY <2>7, <2>8, <2>9 DEF FinalReport, Done
    <3>1. j = Len(rirs) + 1
      BY <1>3, <2>4
    <3>2. \A l \in j..Len(rirs') : l = j
      BY <2>4, <3>1
    <3> QED  BY <2>2, <2>4, <2>7, <3>1, <3>2
  <2> QED  BY <1>2, <2>10, <2>11, <2>12, <2>13
<1>6. CASE ~Finished(nb, cs)
  <2>1. m_events' = q /\ UNCHANGED <<rirs, mapAlive>>
    BY <1>6 DEF Finish
  <2>2. Type'
    BY <2>1 DEF Type, Handled
  <2>3. Places'
    BY <1>1, <2>1 DEF Places, Handled
  <2>4. Group'
    BY <1>1, <2>1 DEF Group, Handled
  <2>5. FinalReport'
    BY <1>3, <2>1 DEF FinalReport
  <2> QED  BY <1>2, <2>2, <2>3, <2>4, <2>5
<1> QED  BY <1>5, <1>6

LEMMA HandleCiaSentKeeps == ASSUME CInv, HandleCiaSent  PROVE CInv'
<1> USE DEF CInv
<1> DEFINE q == Tail(m_events)
<1>1. /\ Takes("CIA_SENT") /\ m_ciasent' = TRUE /\ Finish(q, m_nb_ida_proc, TRUE, imsi_status)
      /\ UNCHANGED <<in, builder, imsi_status, todo, idr, pc, m_nb_ida_proc, cias, armed>>
  BY DEF HandleCiaSent, thread
<1>2. /\ builder = "on" /\ builder # "none" /\ IsSeq(m_events) /\ m_events # <<>>
      /\ NoRepeat(m_events) /\ Head(m_events).id = "CIA_SENT"
  BY <1>1, TakesFacts
<1>3. /\ IsSeq(q) /\ NoRepeat(q) /\ Has(m_events, "CIA_SENT") /\ ~Has(q, "CIA_SENT")
      /\ Resp(q) = Resp(m_events)
  BY <1>2, QueueTail
<1>4. mapAlive
  BY <1>2, <1>3, MapDeleted
<1>5. Handled(q, imsi_status, m_nb_ida_proc, TRUE)
  BY <1>2, <1>3 DEF Handled, Type, Places, Group
<1> HIDE DEF q
<1> QED  BY <1>1, <1>2, <1>4, <1>5, FinishKeeps

LEMMA HandleMmeResponseKeeps == ASSUME CInv, HandleMmeResponse  PROVE CInv'
<1> USE DEF CInv
<1> DEFINE q == Tail(m_events)
           i == Head(m_events).imsi
           nb == m_nb_ida_proc - 1
<1>1. /\ Takes("MME_RESPONSE") /\ m_nb_ida_proc' = nb /\ Finish(q, nb, m_ciasent, imsi_status')
      /\ UNCHANGED <<in, builder, m_ciasent, todo, idr, pc, cias, armed>>
  BY DEF HandleMmeResponse, thread
<1>2. PICK entry : entry.imsi = i /\ imsi_status' = Append(imsi_status, entry)
  BY DEF HandleMmeResponse
<1>3. /\ builder = "on" /\ builder # "none" /\ IsSeq(m_events) /\ m_events # <<>>
      /\ NoRepeat(m_events) /\ Head(m_events).id = "MME_RESPONSE"
  BY <1>1, TakesFacts
<1>4. /\ IsSeq(q) /\ NoRepeat(q) /\ (Has(q, "CIA_SENT") => Has(m_events, "CIA_SENT"))
      /\ Has(m_events, "MME_RESPONSE")
      /\ i \in Resp(m_events) /\ i \notin Resp(q) /\ Resp(q) \cup {i} = Resp(m_events)
  BY <1>3, QueueTail
<1>5. mapAlive
  BY <1>3, <1>4, MapDeleted
<1> DEFINE s == Append(imsi_status, entry)
<1>6. /\ IsSeq(s) /\ Len(imsi_status) \in Nat /\ Len(s) = Len(imsi_status) + 1
      /\ s[Len(imsi_status) + 1] = entry
      /\ \A j \in 1..Len(imsi_status) : s[j] = imsi_status[j]
  BY AppendAny DEF Type
<1> HIDE DEF q, i, s
<1>7. Done(s) = Done(imsi_status) \cup {i}
  <2>1. 1..Len(s) = (1..Len(imsi_status)) \cup {Len(imsi_status) + 1}
    BY <1>6
  <2> QED  BY <1>2, <1>6, <2>1 DEF Done
<1>8. i \notin Done(imsi_status)
  BY <1>4 DEF Places
<1>9. IsFiniteSet(Done(imsi_status))
  <2>1. IsFiniteSet(in.imsis) /\ Done(imsi_status) \in SUBSET in.imsis
    BY RequestFacts DEF Type, Places
  <2> QED  BY <2>1, FS_Subset
<1>10. Cardinality(Done(s)) = Len(s)
  <2>1. Cardinality(Done(imsi_status) \cup {i}) = Cardinality(Done(imsi_status)) + 1
    BY <1>8, <1>9, FS_AddElement
  <2> QED  BY <1>6, <1>7, <2>1 DEF Places
<1>11. nb = Cardinality(in.imsis) - Len(s) /\ nb \in Int
  <2>1. Cardinality(in.imsis) \in Nat /\ m_nb_ida_proc = Cardinality(in.imsis) - Len(imsi_status)
    BY <1>3, RequestFacts DEF Type, Group
  <2> QED  BY <1>6, <2>1
<1> HIDE DEF nb
<1>12. Resp(q) \cup Done(s) \subseteq {j \in in.imsis : idr[j] = "over"} /\ Resp(q) \cap Done(s) = {}
  BY <1>4, <1>7 DEF Places
<1>13. Handled(q, s, nb, m_ciasent)
  BY <1>3, <1>4, <1>6, <1>10, <1>11, <1>12 DEF Handled, Type, Group
<1>14. imsi_status' = s
  BY <1>2 DEF s
<1> QED  BY <1>1, <1>3, <1>5, <1>13, <1>14, FinishKeeps

-----------------------------------------------------------------------------
LEMMA InitCInv == Init => CInv
<1> SUFFICES ASSUME Init  PROVE CInv
  OBVIOUS
<1>1. Resp(<<>>) = {} /\ Done(<<>>) = {} /\ NoRepeat(<<>>) /\ IsSeq(<<>>) /\ Len(<<>>) = 0
  BY EmptyAny DEF Resp, Done, NoRepeat
<1>2. Cardinality({}) = 0
  BY FS_EmptySet
<1>3. Type
  <2>1. in \in Requests /\ IsSeq(m_events) /\ IsSeq(imsi_status) /\ IsSeq(rirs)
    BY <1>1 DEF Init
  <2>2. todo \subseteq in.imsis
    BY DEF Init
  <2>3. idr \in [Imsis -> {"none", "out", "failed", "over"}]
    BY DEF Init
  <2>4. /\ pc = "users" /\ builder = "none"
        /\ mapAlive \in BOOLEAN /\ m_ciasent \in BOOLEAN
    BY DEF Init
  <2>5. m_nb_ida_proc \in Int
    BY DEF Init
  <2> QED  BY <2>1, <2>2, <2>3, <2>4, <2>5 DEF Type
<1>4. Single /\ Group
  BY <1>1 DEF Init, Single, Group
<1>5. Places
  BY <1>1, <1>2 DEF Init, Places
<1>6. FinalReport
  BY <1>1 DEF Init, FinalReport
<1> QED  BY <1>3, <1>4, <1>5, <1>6 DEF CInv

LEMMA NextCInv == CInv /\ [Next]_vars => CInv'
<1> SUFFICES ASSUME CInv, [Next]_vars  PROVE CInv'
  OBVIOUS
<1>1. CASE ProcessHssDb
  BY <1>1, OtherVars DEF ProcessHssDb, rir
<1>2. CASE UNCHANGED vars
  BY <1>2, OtherVars DEF vars, rir, thread
<1> QED  BY <1>1, <1>2, FindUsersKeeps, JsonThrowsKeeps, StartBuilderKeeps, SendCiaKeeps, SendErrorKeeps,
            SendINSDRreqKeeps, OnInitKeeps, OnTimerKeeps, GuardTimeoutKeeps,
            HandleMmeResponseKeeps, HandleCiaSentKeeps, OnQuitKeeps, TimerFiresKeeps,
            ProcessAnswerKeeps
         DEF Next, Dispatch, Builder

(* The inductive invariant of the request's threads.                         *)
THEOREM Invariance == Spec => []CInv
<1> QED  BY InitCInv, NextCInv, PTL DEF Spec

(* The SCEF gets exactly one CIA, however the dispatch thread and the thread *)
(* that gets the MME's answer interleave, and whatever fails.                *)
THEOREM AnsweredOnceHolds == Spec => []AnsweredOnce
<1>1. ASSUME CInv  PROVE AnsweredOnce
  <2>1. Len(cias) <= 1
    <3>1. cias = <<>> \/ Len(cias) = 1
      BY <1>1 DEF CInv, Single, Group, Type
    <3>2. Len(<<>>) = 0
      OBVIOUS
    <3>3. PICK n \in {0, 1} : n = Len(cias)
      BY <3>1, <3>2, Zenon
    <3>4. n <= 1
      OBVIOUS
    <3> QED  BY <3>3, <3>4, Zenon
  <2>2. ASSUME pc = "done", \A i \in Imsis : idr[i] \notin {"out", "failed"}
        PROVE  Len(cias) = 1
    BY <1>1, <2>2 DEF CInv, Single, Group
  <2> QED  BY <2>1, <2>2 DEF AnsweredOnce
<1> QED  BY <1>1, Invariance, PTL

(* A group of any size is reported completely, once, and after the CIA.      *)
THEOREM FinalReportHolds == Spec => []FinalReport
<1>1. CInv => FinalReport
  BY DEF CInv
<1> QED  BY <1>1, Invariance, PTL

(* The builder never reads the event map after it deleted it.                *)
THEOREM MapOutlivesResponsesHolds == Spec => []MapOutlivesResponses
<1>1. CInv => MapOutlivesResponses
  BY MapDeleted DEF MapOutlivesResponses, Has
<1> QED  BY <1>1, Invariance, PTL

-----------------------------------------------------------------------------
(* The statuses of the events, and the rows they are about.                  *)
Results == {"SUCCESS", "STORAGE_NOT_SUCCESSFUL", "NON_EXISTENT", "ZERO", "OK", "UNABLE_TO_COMPLY",
            "USER_UNKNOWN"}
Statuses == [long : BOOLEAN, result : Results, remove : BOOLEAN]
Stored == {"SUCCESS", "STORAGE_NOT_SUCCESSFUL"}

(* A status the operation op can have, whatever happened since.              *)
StatusFits(op, s) ==
    /\ s.remove <=> op = "delete"
    /\ op = "addLong" => s.long
    /\ op = "addShort" => ~s.long
    /\ s.long /\ op # "addLong" => s.result = "SUCCESS"
    /\ s.long <=> s.result \in Stored

(* The map has the events of the operations done so far, each with a status  *)
(* of the first operation that names it.                                     *)
IsFirst(ops, f, k) == ops[f].key = k /\ \A j \in 1..Len(ops) : ops[j].key = k => f <= j
MapFits ==
    /\ done \in 0..Len(in.ops)
    /\ DOMAIN evt_map = {in.ops[j].key : j \in 1..done}
    /\ \A k \in DOMAIN evt_map :
          /\ evt_map[k] \in Statuses
          /\ \E f \in 1..done : IsFirst(in.ops, f, k) /\ StatusFits(in.ops[f].op, evt_map[k])

(* An event no operation was done for has the row found; the rows of an      *)
(* event named once are what its status says.                                *)
RowFits(s, row, ix, user, old) ==
    IF s.remove THEN row = "none" /\ old \notin ix ELSE row = user /\ user \in ix
RowsFit ==
    /\ events \in [Keys -> Owners \cup {"none"}] /\ index \in [Keys -> SUBSET (Owners \cup {"none"})]
    /\ \A k \in Keys \ DOMAIN evt_map : found[k] = events[k]
    /\ \A f \in 1..done :
         LET k == in.ops[f].key
         IN  /\ \A j \in 1..done : in.ops[j].key = k => j = f
             /\ evt_map[k].result = "SUCCESS"
             => RowFits(evt_map[k], events[k], index[k], in.user, found[k])

(* Whoever reports a long-term status reports the map's; no report of a      *)
(* short-term one is a result of the database.                               *)
Agrees(result, s) == IF s.long THEN result = s.result ELSE result \notin Stored
Reports(cs, es, m) ==
    /\ \A c \in Range(cs) : \A k \in DOMAIN c.status \cap DOMAIN m : Agrees(c.status[k].result, m[k])
    /\ \A e \in Range(es) : \A k \in DOMAIN m : Agrees(e.result[k], m[k])

StatusInv == IsSeq(cias) /\ MapFits /\ RowsFit /\ Reports(cias, imsi_status, evt_map)
SInv == CInv /\ StatusInv

LEMMA StatusKinds ==
  /\ LET s == Status(FALSE, "ZERO", FALSE)
     IN  s \in Statuses /\ StatusFits("addShort", s) /\ s.result # "SUCCESS"
  /\ LET s == Status(TRUE, "SUCCESS", FALSE)
     IN  s \in Statuses /\ StatusFits("addLong", s) /\ ~s.remove
  /\ LET s == Status(TRUE, "STORAGE_NOT_SUCCESSFUL", FALSE)
     IN  s \in Statuses /\ StatusFits("addLong", s) /\ s.result # "SUCCESS"
  /\ LET s == Status(FALSE, "NON_EXISTENT", TRUE)
     IN  s \in Statuses /\ StatusFits("delete", s) /\ s.result # "SUCCESS"
  /\ LET s == Status(TRUE, "SUCCESS", TRUE)
     IN  s \in Statuses /\ StatusFits("delete", s) /\ s.remove
  BY DEF Status, Statuses, StatusFits, Stored, Results

(* What one operation reports fits it and is true of its event's rows; the   *)
(* other rows stay.                                                          *)
LEMMA OutcomeFacts ==
  ASSUME in.user \in Owners \cup {"none"}, NEW o \in ConfigOps, NEW r \in Outcomes(o),
         events \in [Keys -> Owners \cup {"none"}], index \in [Keys -> SUBSET (Owners \cup {"none"})]
  PROVE  /\ r.status \in Statuses /\ StatusFits(o.op, r.status)
         /\ r.events \in [Keys -> Owners \cup {"none"}] /\ r.index \in [Keys -> SUBSET (Owners \cup {"none"})]
         /\ \A k \in Keys \ {o.key} : r.events[k] = events[k] /\ r.index[k] = index[k]
         /\ r.status.result = "SUCCESS"
            => RowFits(r.status, r.events[o.key], r.index[o.key], in.user, events[o.key])
<1>0. o.key \in Keys /\ o.op \in {"delete", "addLong", "addShort"}
  BY DEF ConfigOps
<1> DEFINE k == o.key
<1>1. CASE o.op = "addShort"
  <2>1. r = Nothing(Status(FALSE, "ZERO", FALSE))
    BY <1>1 DEF Outcomes
  <2>2. r.events = events /\ r.index = index /\ r.status = Status(FALSE, "ZERO", FALSE)
    BY <2>1 DEF Nothing
  <2> QED  BY <1>0, <1>1, <2>2, StatusKinds
<1>2. CASE o.op = "addLong"
  <2>1. r \in AddOutcomes(k)
    BY <1>2 DEF Outcomes
  <2> DEFINE Told(d) == Status(TRUE, StoredResult(d.threw), FALSE)
  <2>a. PICK d \in AddEvent(k) :
           r = [events |-> d.events, index |-> d.index, status |-> Told(d)]
    BY <2>1, Zenon DEF AddOutcomes
  <2>2. r.events = d.events /\ r.index = d.index /\ r.status = Told(d)
    BY <2>a
  <2> DEFINE row == [events EXCEPT ![k] = in.user]
             ix == [index EXCEPT ![k] = @ \cup {in.user}]
  <2>3. \/ d.events = row /\ d.index = ix /\ d.threw = FALSE
        \/ d.events \in {events, row} /\ d.index = index /\ d.threw = TRUE
    <3>1. \/ d = [events |-> row, index |-> ix, threw |-> FALSE]
          \/ d \in [events : {events, row}, index : {index}, threw : {TRUE}]
      BY <2>a, Zenon DEF AddEvent
    <3> HIDE DEF row, ix
    <3>2. CASE d = [events |-> row, index |-> ix, threw |-> FALSE]
      BY <3>2
    <3>3. CASE d \in [events : {events, row}, index : {index}, threw : {TRUE}]
      BY <3>3
    <3> QED  BY <3>1, <3>2, <3>3
  <2>4. /\ row \in [Keys -> Owners \cup {"none"}] /\ row[k] = in.user
        /\ \A x \in Keys \ {k} : row[x] = events[x]
    BY <1>0
  <2>5. ix \in [Keys -> SUBSET (Owners \cup {"none"})] /\ in.user \in ix[k] /\ \A x \in Keys \ {k} : ix[x] = index[x]
    BY <1>0 DEF Owners
  <2> HIDE DEF row, ix
  <2>6. CASE d.events = row /\ d.index = ix /\ d.threw = FALSE
    <3>1. r.status = Status(TRUE, "SUCCESS", FALSE)
      BY <2>2, <2>6 DEF StoredResult
    <3>2. r.status \in Statuses /\ StatusFits(o.op, r.status) /\ ~r.status.remove
      BY <1>2, <3>1, StatusKinds
    <3> QED  BY <2>2, <2>4, <2>5, <2>6, <3>2 DEF RowFits
  <2>7. CASE d.events \in {events, row} /\ d.index = index /\ d.threw = TRUE
    <3>1. r.status = Status(TRUE, "STORAGE_NOT_SUCCESSFUL", FALSE)
      BY <2>2, <2>7 DEF StoredResult
    <3>2. r.status \in Statuses /\ StatusFits(o.op, r.status) /\ r.status.result # "SUCCESS"
      BY <1>2, <3>1, StatusKinds
    <3> QED  BY <2>2, <2>4, <2>7, <3>2
  <2> QED  BY <2>3, <2>6, <2>7
<1>3. CASE o.op = "delete"
  <2> DEFINE no == Status(FALSE, "NON_EXISTENT", TRUE)
             yes == Status(TRUE, "SUCCESS", TRUE)
             row == [events EXCEPT ![k] = "none"]
             ix == [index EXCEPT ![k] = @ \ {events[k]}]
  <2>1. r \in RemoveOutcomes(k)
    BY <1>3 DEF Outcomes
  <2>2. /\ no \in Statuses /\ StatusFits(o.op, no) /\ no.result # "SUCCESS"
        /\ yes \in Statuses /\ StatusFits(o.op, yes) /\ yes.remove
    BY <1>3, StatusKinds
  <2>3. /\ row \in [Keys -> Owners \cup {"none"}] /\ row[k] = "none"
        /\ \A x \in Keys \ {k} : row[x] = events[x]
    BY <1>0
  <2>4. ix \in [Keys -> SUBSET (Owners \cup {"none"})] /\ ix[k] = index[k] \ {events[k]} /\ \A x \in Keys \ {k} : ix[x] = index[x]
    BY <1>0
  <2>5. \/ r = Nothing(no)
        \/ \E d \in DeleteEvent(k) : /\ r.events = d.events /\ r.index = d.index
                                     /\ r.status = IF d.threw THEN no ELSE yes
    <3>1. \/ r = Nothing(no)
          \/ \E d \in DeleteEvent(k) : r = [events |-> d.events, index |-> d.index,
                                           status |-> IF d.threw THEN no ELSE yes]
      BY <2>1, Zenon DEF RemoveOutcomes
    <3> HIDE DEF no, yes
    <3> QED  BY <3>1
  <2>6. CASE r = Nothing(no)
    <3>1. r.events = events /\ r.index = index /\ r.status = no
      BY <2>6 DEF Nothing
    <3> HIDE DEF no
    <3> QED  BY <2>2, <3>1
  <2>7. CASE \E d \in DeleteEvent(k) : /\ r.events = d.events /\ r.index = d.index
                                       /\ r.status = IF d.threw THEN no ELSE yes
    <3> HIDE DEF no, yes
    <3>1. PICK d \in DeleteEvent(k) : /\ r.events = d.events /\ r.index = d.index
                                     /\ r.status = IF d.threw THEN no ELSE yes
      BY <2>7
    <3>2. \/ d.events = row /\ d.index = ix /\ d.threw = FALSE
          \/ d.events \in {events, row} /\ d.index = index /\ d.threw = TRUE
      BY <3>1 DEF DeleteEvent
    <3> HIDE DEF row, ix
    <3>3. CASE d.events = row /\ d.index = ix /\ d.threw = FALSE
      <4>1. events[k] \notin ix[k]
        BY <2>4
      <4> QED  BY <2>2, <2>3, <2>4, <3>1, <3>3, <4>1 DEF RowFits
    <3>4. CASE d.events \in {events, row} /\ d.index = index /\ d.threw = TRUE
      <4>1. r.status = no
        BY <3>1, <3>4
      <4> QED  BY <2>2, <2>3, <3>1, <3>4, <4>1
    <3> QED  BY <3>2, <3>3, <3>4
  <2> QED  BY <2>5, <2>6, <2>7
<1> QED  BY <1>0, <1>1, <1>2, <1>3

LEMMA OpsFacts ==
  ASSUME in \in Requests
  PROVE  /\ Len(in.ops) \in Nat /\ in.user \in Owners \cup {"none"}
         /\ \A j \in 1..Len(in.ops) : in.ops[j] \in ConfigOps
<1>1. in.ops \in UNION {[1..n -> ConfigOps] : n \in 0..MaxOps} /\ in.user \in {"msisdn", "extid", "none"}
  BY DEF Requests
<1>2. PICK n \in 0..MaxOps : in.ops \in [1..n -> ConfigOps]
  BY <1>1
<1>3. n \in Nat
  BY CIRAssumption
<1>4. in.ops \in Seq(ConfigOps) /\ Len(in.ops) = n
  BY <1>2, <1>3
<1> QED  BY <1>1, <1>2, <1>3, <1>4 DEF Owners

LEMMA NoReports == \A m : Reports(<<>>, <<>>, m)
<1>1. Range(<<>>) = {}
  BY DEF Range
<1> QED  BY <1>1 DEF Reports

(* One operation is done.                                                    *)
LEMMA ProcessHssDbFits ==
  ASSUME SInv, ProcessHssDb
  PROVE  StatusInv'
<1> USE DEF SInv, StatusInv
<1> DEFINE n == done + 1
           o == in.ops[n]
           k == o.key
           m == evt_map'
<1>1. pc = "db" /\ done < Len(in.ops) /\ done' = n /\ UNCHANGED <<in, found, cias, imsi_status>>
  BY DEF ProcessHssDb, rir
<1>2. PICK r \in Outcomes(o) : events' = r.events /\ index' = r.index /\ m = Inserted(evt_map, k, r.status)
  BY Zenon DEF ProcessHssDb
<1>3. cias = <<>> /\ imsi_status = <<>>
  BY <1>1 DEF CInv, Places, Single
<1>4. /\ Len(in.ops) \in Nat /\ in.user \in Owners \cup {"none"}
      /\ \A j \in 1..Len(in.ops) : in.ops[j] \in ConfigOps
  BY OpsFacts DEF CInv, Type
<1>5. /\ n \in 1..Len(in.ops) /\ o \in ConfigOps /\ done \in Nat /\ n \in 0..Len(in.ops)
      /\ 1..n = (1..done) \cup {n} /\ n \notin 1..done /\ 1..done \subseteq 1..Len(in.ops)
      /\ \A j \in 1..Len(in.ops) : j \in 1..done \/ n <= j
  BY <1>1, <1>4 DEF MapFits
<1>6. k \in Keys /\ \A j \in 1..Len(in.ops) : in.ops[j].key \in Keys
  BY <1>4, <1>5 DEF ConfigOps
<1> HIDE DEF n
<1>7. /\ r.status \in Statuses /\ StatusFits(o.op, r.status)
      /\ r.events \in [Keys -> Owners \cup {"none"}] /\ r.index \in [Keys -> SUBSET (Owners \cup {"none"})]
      /\ \A x \in Keys \ {k} : r.events[x] = events[x] /\ r.index[x] = index[x]
      /\ r.status.result = "SUCCESS"
         => RowFits(r.status, r.events[k], r.index[k], in.user, events[k])
  BY <1>2, <1>4, <1>5, OutcomeFacts DEF RowsFit
<1>8. /\ DOMAIN m = DOMAIN evt_map \cup {k} /\ \A x \in DOMAIN evt_map : m[x] = evt_map[x]
      /\ k \notin DOMAIN evt_map => m[k] = r.status
  <2> HIDE DEF o, k, m
  <2>1. m = Inserted(evt_map, k, r.status)
    BY <1>2
  <2> QED  BY <2>1 DEF Inserted
<1> HIDE DEF o, k, m
<1>9. DOMAIN evt_map = {in.ops[j].key : j \in 1..done}
  BY DEF MapFits
<1>10. in.ops[n] = o /\ o.key = k
  BY DEF o, k
<1>11. MapFits'
  <2>1. DOMAIN m = {in.ops[j].key : j \in 1..n}
    BY <1>5, <1>8, <1>9, <1>10
  <2>2. ASSUME NEW x \in DOMAIN m
        PROVE  /\ m[x] \in Statuses
               /\ \E f \in 1..n : IsFirst(in.ops, f, x) /\ StatusFits(in.ops[f].op, m[x])
    <3>1. CASE x \in DOMAIN evt_map
      <4>1. /\ evt_map[x] \in Statuses
            /\ \E f \in 1..done : IsFirst(in.ops, f, x) /\ StatusFits(in.ops[f].op, evt_map[x])
        BY <3>1 DEF MapFits
      <4> QED  BY <1>5, <1>8, <3>1, <4>1
    <3>2. CASE x \notin DOMAIN evt_map
      <4>1. x = k /\ m[x] = r.status
        BY <1>8, <2>2, <3>2
      <4>2. \A j \in 1..Len(in.ops) : in.ops[j].key = k => n <= j
        BY <1>5, <1>9, <3>2, <4>1
      <4>3. IsFirst(in.ops, n, k) /\ StatusFits(in.ops[n].op, m[x]) /\ n \in 1..n
        BY <1>5, <1>7, <1>10, <4>1, <4>2 DEF IsFirst
      <4> QED  BY <1>7, <4>1, <4>3
    <3> QED  BY <3>1, <3>2
  <2> QED  BY <1>1, <1>5, <2>1, <2>2 DEF MapFits, m
<1>12. RowsFit'
  <2>1. events' \in [Keys -> Owners \cup {"none"}] /\ index' \in [Keys -> SUBSET (Owners \cup {"none"})]
    BY <1>2, <1>7
  <2>2. \A x \in Keys \ {k} : events'[x] = events[x] /\ index'[x] = index[x]
    BY <1>2, <1>7
  <2>3. \A x \in Keys \ DOMAIN m : found'[x] = events'[x]
    BY <1>1, <1>8, <2>2 DEF RowsFit
  <2>4. ASSUME NEW f \in 1..n, \A j \in 1..n : in.ops[j].key = in.ops[f].key => j = f,
               m[in.ops[f].key].result = "SUCCESS"
        PROVE  LET x == in.ops[f].key IN RowFits(m[x], events'[x], index'[x], in.user, found[x])
    <3>1. CASE f = n
      <4>1. k \notin DOMAIN evt_map
        BY <1>5, <1>9, <1>10, <2>4, <3>1
      <4>2. found[k] = events[k]
        BY <1>6, <4>1 DEF RowsFit
      <4> QED  BY <1>2, <1>7, <1>8, <1>10, <2>4, <3>1, <4>1, <4>2
    <3>2. CASE f \in 1..done
      <4> DEFINE x == in.ops[f].key
      <4>1. x \in Keys \ {k} /\ x \in DOMAIN evt_map
        BY <1>5, <1>6, <1>9, <1>10, <2>4, <3>2
      <4>2. /\ \A j \in 1..done : in.ops[j].key = x => j = f
            /\ evt_map[x].result = "SUCCESS"
        BY <1>5, <1>8, <2>4, <4>1
      <4>3. RowFits(evt_map[x], events[x], index[x], in.user, found[x])
        BY <3>2, <4>2 DEF RowsFit
      <4> QED  BY <1>8, <2>2, <4>1, <4>3
    <3> QED  BY <1>5, <3>1, <3>2
  <2>5. \A f \in 1..done' :
           LET x == in'.ops[f].key
           IN  /\ \A j \in 1..done' : in'.ops[j].key = x => j = f
               /\ evt_map'[x].result = "SUCCESS"
               => RowFits(evt_map'[x], events'[x], index'[x], in'.user, found'[x])
    BY <1>1, <2>4 DEF m
  <2> QED  BY <2>1, <2>3, <2>5 DEF RowsFit, m
<1>13. Reports(cias, imsi_status, evt_map)' /\ IsSeq(cias)'
  BY <1>1, <1>3, NoReports
<1> QED  BY <1>11, <1>12, <1>13

(* The status map after the long-term statuses are settled: an answer or a   *)
(* refusal changes only the short-term ones.                                 *)
SameLong(m, r) ==
    /\ DOMAIN r = DOMAIN m
    /\ \A k \in DOMAIN m :
          /\ r[k] \in Statuses /\ r[k].remove = m[k].remove /\ r[k].long = m[k].long
          /\ IF m[k].long THEN r[k].result = m[k].result ELSE r[k].result \notin Stored

LEMMA FitsResult ==
  ASSUME MapFits, NEW k \in DOMAIN evt_map
  PROVE  evt_map[k] \in Statuses /\ (evt_map[k].long <=> evt_map[k].result \in Stored)
  BY DEF MapFits, StatusFits

LEMMA SameLongFits ==
  ASSUME MapFits, RowsFit, SameLong(evt_map, evt_map'), UNCHANGED <<in, events, index, found, done>>,
         done \in Nat
  PROVE  MapFits' /\ RowsFit'
<1> DEFINE m == evt_map'
<1>1. DOMAIN m = DOMAIN evt_map
  BY DEF SameLong
<1>2. ASSUME NEW k \in DOMAIN evt_map
      PROVE  /\ m[k] \in Statuses /\ m[k].remove = evt_map[k].remove /\ m[k].long = evt_map[k].long
             /\ m[k].result = "SUCCESS" => evt_map[k].result = "SUCCESS"
             /\ \A op : StatusFits(op, evt_map[k]) => StatusFits(op, m[k])
  <2>1. /\ m[k] \in Statuses /\ m[k].remove = evt_map[k].remove /\ m[k].long = evt_map[k].long
        /\ IF evt_map[k].long THEN m[k].result = evt_map[k].result ELSE m[k].result \notin Stored
    BY DEF SameLong
  <2>2. evt_map[k] \in Statuses /\ (evt_map[k].long <=> evt_map[k].result \in Stored)
    BY FitsResult
  <2> HIDE DEF m
  <2>3. m[k].result = "SUCCESS" => evt_map[k].result = "SUCCESS"
    BY <2>1, <2>2 DEF Stored
  <2>4. ASSUME NEW op, StatusFits(op, evt_map[k])  PROVE StatusFits(op, m[k])
    BY <2>1, <2>2, <2>4 DEF StatusFits
  <2> QED  BY <2>1, <2>3, <2>4
<1> HIDE DEF m
<1>3. MapFits'
  <2>1. ASSUME NEW k \in DOMAIN m
        PROVE  /\ m[k] \in Statuses
               /\ \E f \in 1..done : IsFirst(in.ops, f, k) /\ StatusFits(in.ops[f].op, m[k])
    BY <1>1, <1>2 DEF MapFits
  <2> QED  BY <1>1, <2>1 DEF MapFits, m
<1>4. RowsFit'
  <2>1. ASSUME NEW f \in 1..done, NEW k, k = in.ops[f].key, m[k].result = "SUCCESS",
               \A j \in 1..done : in.ops[j].key = k => j = f
        PROVE  RowFits(m[k], events[k], index[k], in.user, found[k])
    <3>1. k \in DOMAIN evt_map
      BY <2>1 DEF MapFits
    <3>2. evt_map[k].result = "SUCCESS" /\ m[k].remove = evt_map[k].remove
      BY <1>2, <2>1, <3>1
    <3>3. RowFits(evt_map[k], events[k], index[k], in.user, found[k])
      BY <2>1, <3>2 DEF RowsFit
    <3> QED  BY <3>2, <3>3 DEF RowFits
  <2> QED  BY <1>1, <2>1 DEF RowsFit, m
<1> QED  BY <1>3, <1>4

LEMMA SameLongReports ==
  ASSUME NEW cs, NEW es, NEW m, NEW r, Reports(cs, es, m), SameLong(m, r)
  PROVE  Reports(cs, es, r)
<1>1. \A k \in DOMAIN m : \A x : Agrees(x, m[k]) => Agrees(x, r[k])
  BY DEF SameLong, Agrees
<1>2. DOMAIN r = DOMAIN m
  BY DEF SameLong
<1> QED  BY <1>1, <1>2 DEF Reports

LEMMA RangeAppend ==
  ASSUME NEW s, IsSeq(s), NEW x
  PROVE  Range(Append(s, x)) = Range(s) \cup {x}
<1> DEFINE r == Append(s, x)
           n == Len(s)
<1>1. /\ IsSeq(r) /\ n \in Nat /\ Len(r) = n + 1 /\ r[n + 1] = x /\ \A i \in 1..n : r[i] = s[i]
  BY AppendAny
<1>2. DOMAIN s = 1..n /\ DOMAIN r = 1..Len(r)
  <2>1. s \in Seq(Range(s)) /\ r \in Seq(Range(r))
    BY <1>1 DEF IsSeq
  <2> HIDE DEF r
  <2> QED  BY <2>1, LenProperties
<1>3. 1..(n + 1) = (1..n) \cup {n + 1}
  BY <1>1
<1> HIDE DEF r, n
<1>4. Range(r) = Range(s) \cup {x}
  BY <1>1, <1>2, <1>3 DEF Range
<1> QED  BY <1>4 DEF r

LEMMA ReportsCia ==
  ASSUME NEW cs, IsSeq(cs), NEW es, NEW m, Reports(cs, es, m), NEW x,
         \A k \in DOMAIN x.status \cap DOMAIN m : Agrees(x.status[k].result, m[k])
  PROVE  Reports(Append(cs, x), es, m)
  BY RangeAppend DEF Reports

LEMMA ReportsEntry ==
  ASSUME NEW cs, NEW es, IsSeq(es), NEW m, Reports(cs, es, m), NEW e,
         \A k \in DOMAIN m : Agrees(e.result[k], m[k])
  PROVE  Reports(cs, Append(es, e), m)
  BY RangeAppend DEF Reports

(* A CIA with statuses of the map tells what the map tells.                  *)
LEMMA CiaAgrees ==
  ASSUME NEW m, NEW K, NEW b, NEW k \in K \cap DOMAIN m,
         m[k] \in Statuses, m[k].long <=> m[k].result \in Stored
  PROVE  Cia(m, K, b).status = [x \in K |-> m[x]] /\ Agrees(Cia(m, K, b).status[k].result, m[k])
  BY DEF Cia, Agrees

LEMMA SelfReports ==
  ASSUME MapFits, NEW r, SameLong(evt_map, r), NEW K, NEW b,
         NEW k \in DOMAIN Cia(r, K, b).status \cap DOMAIN r
  PROVE  Agrees(Cia(r, K, b).status[k].result, r[k])
<1>1. k \in K \cap DOMAIN r
  BY DEF Cia
<1>2. k \in DOMAIN evt_map
  BY <1>1 DEF SameLong
<1>3. evt_map[k].long <=> evt_map[k].result \in Stored
  BY <1>2, FitsResult
<1>4. r[k] \in Statuses /\ (r[k].long <=> r[k].result \in Stored)
  BY <1>2, <1>3 DEF SameLong
<1> QED  BY <1>1, <1>4, CiaAgrees

(* A single subscriber's CIA is sent with a map that is changed so.          *)
LEMMA CiaFits ==
  ASSUME SInv, NEW K, NEW b, SameLong(evt_map, evt_map'), cias' = Append(cias, Cia(evt_map', K, b)),
         UNCHANGED <<in, events, index, found, done, imsi_status>>
  PROVE  StatusInv'
<1> USE DEF SInv, StatusInv
<1>1. done \in Nat
  BY OpsFacts DEF MapFits, CInv, Type
<1>2. MapFits' /\ RowsFit'
  BY <1>1, SameLongFits
<1>3. Reports(cias, imsi_status, evt_map')
  BY SameLongReports
<1> DEFINE x == Cia(evt_map', K, b)
<1>4. \A k \in DOMAIN x.status \cap DOMAIN evt_map' : Agrees(x.status[k].result, evt_map'[k])
  BY SelfReports
<1> HIDE DEF x
<1>5. Reports(Append(cias, x), imsi_status, evt_map')
  BY <1>3, <1>4, ReportsCia
<1>6. IsSeq(Append(cias, x))
  BY AppendAny
<1> QED  BY <1>2, <1>5, <1>6 DEF x

LEMMA OverlaidSame ==
  ASSUME MapFits, NEW x \in Results \ Stored
  PROVE  LET r == Overlaid(evt_map, Short(evt_map), x) IN DOMAIN r = DOMAIN evt_map /\ SameLong(evt_map, r)
<1> DEFINE r == Overlaid(evt_map, Short(evt_map), x)
<1>1. DOMAIN r = DOMAIN evt_map
  BY DEF Overlaid
<1>2. ASSUME NEW k \in DOMAIN evt_map
      PROVE  /\ r[k] \in Statuses /\ r[k].remove = evt_map[k].remove /\ r[k].long = evt_map[k].long
             /\ IF evt_map[k].long THEN r[k].result = evt_map[k].result ELSE r[k].result \notin Stored
  <2>1. r[k] = IF evt_map[k].long THEN evt_map[k] ELSE [evt_map[k] EXCEPT !.result = x]
    BY DEF Overlaid, Short
  <2>2. evt_map[k] \in Statuses
    BY DEF MapFits
  <2> HIDE DEF r
  <2>3. CASE evt_map[k].long
    BY <2>1, <2>2, <2>3
  <2>4. CASE ~evt_map[k].long
    BY <2>1, <2>2, <2>4 DEF Statuses
  <2> QED  BY <2>3, <2>4
<1> QED  BY <1>1, <1>2 DEF SameLong

LEMMA AnswerSingleFits ==
  ASSUME SInv, NEW codes \in MmeAnswers, AnswerSingle(codes),
         UNCHANGED <<in, events, index, found, done, imsi_status>>
  PROVE  StatusInv'
<1> DEFINE m == evt_map'
           K == (DOMAIN m \ Short(m)) \cup DOMAIN codes
<1>1. /\ m = [k \in DOMAIN evt_map |->
                IF k \in DOMAIN codes /\ codes[k] = "OK"
                THEN [evt_map[k] EXCEPT !.result = "OK"] ELSE evt_map[k]]
      /\ cias' = Append(cias, Cia(m, K, FALSE))
  BY Zenon DEF AnswerSingle
<1>2. DOMAIN codes \subseteq Short(evt_map)
  BY DEF MmeAnswers
<1>3. SameLong(evt_map, m)
  <2>1. ASSUME NEW k \in DOMAIN evt_map
        PROVE  /\ m[k] \in Statuses /\ m[k].remove = evt_map[k].remove /\ m[k].long = evt_map[k].long
               /\ IF evt_map[k].long THEN m[k].result = evt_map[k].result ELSE m[k].result \notin Stored
    <3>1. evt_map[k] \in Statuses /\ (evt_map[k].long <=> evt_map[k].result \in Stored)
      BY FitsResult DEF SInv, StatusInv
    <3>2. CASE k \in DOMAIN codes /\ codes[k] = "OK"
      <4>1. m[k] = [evt_map[k] EXCEPT !.result = "OK"] /\ ~evt_map[k].long
        BY <1>1, <1>2, <3>2 DEF Short
      <4> HIDE DEF m
      <4> QED  BY <3>1, <4>1 DEF Statuses, Results, Stored
    <3>3. CASE ~(k \in DOMAIN codes /\ codes[k] = "OK")
      <4>1. m[k] = evt_map[k]
        BY <1>1, <3>3
      <4> HIDE DEF m
      <4> QED  BY <3>1, <4>1
    <3> QED  BY <3>2, <3>3
  <2>2. DOMAIN m = DOMAIN evt_map
    BY <1>1
  <2> QED  BY <2>1, <2>2 DEF SameLong
<1> QED  BY <1>1, <1>3, CiaFits DEF StatusInv

LEMMA OverlayFits ==
  ASSUME SInv, NEW x \in Results \ Stored, NEW b,
         evt_map' = Overlaid(evt_map, Short(evt_map), x),
         cias' = Append(cias, Cia(evt_map', DOMAIN evt_map', b)),
         UNCHANGED <<in, events, index, found, done, imsi_status>>
  PROVE  StatusInv'
<1>1. SameLong(evt_map, evt_map')
  BY OverlaidSame DEF SInv, StatusInv
<1> DEFINE K == DOMAIN evt_map'
<1>2. cias' = Append(cias, Cia(evt_map', K, b))
  OBVIOUS
<1> HIDE DEF K
<1> QED  BY <1>1, <1>2, CiaFits DEF StatusInv

LEMMA SameStatus ==
  ASSUME SInv, UNCHANGED <<in, events, index, found, done, evt_map, cias, imsi_status>>
  PROVE  StatusInv'
  BY DEF SInv, StatusInv, MapFits, RowsFit

(* An answer that tells no status.                                           *)
LEMMA EmptyCia ==
  ASSUME SInv, NEW x, x.status = NoMap, cias' = Append(cias, x),
         UNCHANGED <<in, events, index, found, done, evt_map, imsi_status>>
  PROVE  StatusInv'
<1>1. MapFits' /\ RowsFit'
  BY DEF SInv, StatusInv, MapFits, RowsFit
<1>2. DOMAIN x.status = {}
  BY DEF NoMap
<1>3. Reports(Append(cias, x), imsi_status, evt_map)
  BY <1>2, ReportsCia DEF SInv, StatusInv
<1>4. IsSeq(Append(cias, x))
  BY AppendAny DEF SInv, StatusInv
<1> QED  BY <1>1, <1>3, <1>4 DEF StatusInv

LEMMA SendINSDRreqFits == ASSUME SInv, NEW i \in Imsis, SendINSDRreq(i)  PROVE StatusInv'
<1>1. UNCHANGED <<in, events, index, found, done, imsi_status>>
  BY DEF SendINSDRreq, db
<1>2. CASE Send(i) \/ SendFails(i) \/ SendThrows
  <2>1. UNCHANGED <<evt_map, cias>>
    BY <1>2 DEF Send, SendFails, SendThrows
  <2> QED  BY <1>1, <2>1, SameStatus
<1>3. CASE \E reach \in Reach \ {"active"} : NotSent(i, reach)
  <2>1. PICK reach : NotSent(i, reach)
    BY <1>3
  <2>2. CASE builder = "none"
    <3> DEFINE m == Overlaid(evt_map, Short(evt_map), "UNABLE_TO_COMPLY")
               b == reach = "IMSI_NOT_ACTIVE"
    <3>1. evt_map' = m /\ cias' = Append(cias, Cia(m, DOMAIN m, b))
      BY <2>1, <2>2, Zenon DEF NotSent
    <3>2. "UNABLE_TO_COMPLY" \in Results \ Stored
      BY DEF Results, Stored
    <3>3. cias' = Append(cias, Cia(evt_map', DOMAIN evt_map', b))
      BY <3>1
    <3> QED  BY <1>1, <3>1, <3>2, <3>3, OverlayFits
  <2>3. CASE builder # "none"
    <3>1. UNCHANGED <<evt_map, cias>>
      BY <2>1, <2>3 DEF NotSent
    <3> QED  BY <1>1, <3>1, SameStatus
  <2> QED  BY <2>2, <2>3
<1> QED  BY <1>2, <1>3 DEF SendINSDRreq

LEMMA ProcessAnswerFits == ASSUME SInv, NEW i \in Imsis, ProcessAnswer(i)  PROVE StatusInv'
<1>1. UNCHANGED <<in, events, index, found, done, imsi_status>>
  BY DEF ProcessAnswer, db, thread
<1>2. CASE builder = "none"
  <2>1. \/ AnswerSingleError
        \/ \E codes \in MmeAnswers : AnswerSingle(codes)
    BY <1>2, Zenon DEF ProcessAnswer
  <2>2. CASE AnswerSingleError
    <3> DEFINE m == Overlaid(evt_map, Short(evt_map), "USER_UNKNOWN")
    <3>1. evt_map' = m /\ cias' = Append(cias, Cia(m, DOMAIN m, TRUE))
      BY <2>2, Zenon DEF AnswerSingleError
    <3>2. "USER_UNKNOWN" \in Results \ Stored
      BY DEF Results, Stored
    <3>3. cias' = Append(cias, Cia(evt_map', DOMAIN evt_map', TRUE))
      BY <3>1
    <3> QED  BY <1>1, <3>1, <3>2, <3>3, OverlayFits
  <2>3. CASE \E codes \in MmeAnswers : AnswerSingle(codes)
    BY <1>1, <2>3, AnswerSingleFits
  <2> QED  BY <2>1, <2>2, <2>3
<1>3. CASE builder # "none"
  <2>1. UNCHANGED <<cias, evt_map>>
    BY <1>3, Zenon DEF ProcessAnswer
  <2> QED  BY <1>1, <2>1, SameStatus
<1> QED  BY <1>2, <1>3

LEMMA HandleMmeResponseFits == ASSUME SInv, HandleMmeResponse  PROVE StatusInv'
<1> DEFINE r == Head(m_events)
           e == [imsi |-> r.imsi, absent |-> r.reach = "IMSI_NOT_ACTIVE",
                 result |-> [k \in DOMAIN evt_map |-> MixedResult(r, k)]]
<1>1. imsi_status' = Append(imsi_status, e) /\ UNCHANGED <<in, events, index, found, done, evt_map, cias>>
  BY DEF HandleMmeResponse, db, thread
<1>2. MapFits' /\ RowsFit'
  BY <1>1 DEF SInv, StatusInv, MapFits, RowsFit
<1>3. ASSUME NEW k \in DOMAIN evt_map  PROVE Agrees(e.result[k], evt_map[k])
  <2>1. e.result[k] = MixedResult(r, k)
    OBVIOUS
  <2>2. evt_map[k] \in Statuses /\ (evt_map[k].long <=> evt_map[k].result \in Stored)
    BY FitsResult DEF SInv, StatusInv
  <2> HIDE DEF r
  <2>3. CASE evt_map[k].long
    BY <2>1, <2>3 DEF MixedResult, Agrees
  <2>4. CASE ~evt_map[k].long
    <3>1. MixedResult(r, k) \in {"UNABLE_TO_COMPLY", "OK", "ZERO", evt_map[k].result}
      BY <2>4 DEF MixedResult
    <3>2. MixedResult(r, k) \notin Stored
      BY <2>2, <2>4, <3>1 DEF Stored
    <3> QED  BY <2>1, <2>4, <3>2 DEF Agrees
  <2> QED  BY <2>3, <2>4
<1> HIDE DEF e
<1>4. Reports(cias, Append(imsi_status, e), evt_map)
  BY <1>3, ReportsEntry DEF SInv, StatusInv, CInv, Type
<1> QED  BY <1>1, <1>2, <1>4 DEF SInv, StatusInv

LEMMA NextStatus == ASSUME SInv, [Next]_vars  PROVE StatusInv'
<1>1. CASE ProcessHssDb
  BY <1>1, ProcessHssDbFits DEF StatusInv
<1>2. CASE SendCia
  <2>1. UNCHANGED <<in, events, index, found, done, evt_map, imsi_status>>
    BY <1>2 DEF SendCia, db, rir
  <2>2. CASE builder = "none"
    <3>1. UNCHANGED cias
      BY <1>2, <2>2 DEF SendCia
    <3> QED  BY <2>1, <3>1, SameStatus
  <2>3. CASE builder # "none"
    <3> DEFINE x == Cia(NoMap, {}, FALSE)
    <3>1. cias' = Append(cias, x)
      BY <1>2, <2>3 DEF SendCia
    <3>2. x.status = NoMap
      BY DEF Cia, NoMap
    <3> HIDE DEF x
    <3> QED  BY <2>1, <3>1, <3>2, EmptyCia
  <2> QED  BY <2>2, <2>3
<1>3. CASE SendError
  <2> DEFINE x == [code |-> "USER_UNKNOWN", absent |-> FALSE, status |-> NoMap]
  <2>1. cias' = Append(cias, x) /\ UNCHANGED <<in, events, index, found, done, evt_map, imsi_status>>
    BY <1>3 DEF SendError, db, rir
  <2>2. x.status = NoMap
    OBVIOUS
  <2> HIDE DEF x
  <2> QED  BY <2>1, <2>2, EmptyCia
<1>4. ASSUME \/ FindUsers \/ JsonThrows \/ StartBuilder \/ OnInit \/ OnTimer \/ GuardTimeout \/ HandleCiaSent
             \/ OnQuit \/ TimerFires \/ UNCHANGED vars
      PROVE  StatusInv'
  <2>1. UNCHANGED <<in, events, index, found, done, evt_map, cias, imsi_status>>
    BY <1>4 DEF FindUsers, JsonThrows, StartBuilder, OnInit, OnTimer, GuardTimeout, HandleCiaSent, OnQuit,
                TimerFires, vars, db, thread, rir
  <2> QED  BY <2>1, SameStatus
<1> QED  BY <1>1, <1>2, <1>3, <1>4, SendINSDRreqFits, ProcessAnswerFits, HandleMmeResponseFits
         DEF Next, Dispatch, Builder

LEMMA InitStatus == Init => SInv
<1> SUFFICES ASSUME Init  PROVE SInv
  OBVIOUS
<1>1. CInv
  BY InitCInv
<1>2. cias = <<>> /\ imsi_status = <<>> /\ evt_map = NoMap /\ done = 0
  BY DEF Init
<1>3. IsSeq(cias) /\ Reports(cias, imsi_status, evt_map)
  BY <1>2, EmptyAny, NoReports
<1>4. DOMAIN evt_map = {} /\ Len(in.ops) \in Nat /\ 1..done = {}
  BY <1>1, <1>2, OpsFacts DEF NoMap, CInv, Type
<1>5. MapFits
  BY <1>2, <1>4 DEF MapFits
<1>6. RowsFit
  <2>1. /\ events \in [Keys -> Owners \cup {"none"}] /\ found = events
        /\ index \in [Keys -> SUBSET Owners]
    BY DEF Init
  <2>2. index \in [Keys -> SUBSET (Owners \cup {"none"})]
    BY <2>1
  <2> QED  BY <1>4, <2>1, <2>2 DEF RowsFit
<1> QED  BY <1>1, <1>3, <1>5, <1>6 DEF SInv, StatusInv

(* The inductive invariant of the statuses and the rows they are about.      *)
THEOREM StatusInvariance == Spec => []SInv
<1>1. SInv /\ [Next]_vars => SInv'
  BY NextCInv, NextStatus DEF SInv, StatusInv
<1> QED  BY InitStatus, <1>1, PTL DEF Spec

(* The first of some operations.                                             *)
LEMMA MinIs ==
  ASSUME NEW S, NEW n \in Nat, S \subseteq 1..n, NEW f \in S, \A j \in S : f <= j
  PROVE  Min(S) = f
<1>1. \A x \in S : (\A y \in S : x <= y) => x = f
  OBVIOUS
<1> QED  BY <1>1 DEF Min

(* Whoever reports the status of an event, a CIA or a group's report, tells  *)
(* what the database has, however many events a request names, however often *)
(* and whatever fails: a status of an event named once is true of its rows,  *)
(* and of one named several times it is the first operation's.               *)
THEOREM StatusTruthfulHolds == Spec => []StatusTruthful
<1>1. ASSUME SInv, NEW k \in DOMAIN evt_map
      PROVE  LET named == {j \in 1..Len(in.ops) : in.ops[j].key = k}
                 first == in.ops[Min(named)].op
             IN  /\ Cardinality(named) = 1 /\ "SUCCESS" \in Reported(k) =>
                       /\ Reported(k) = {"SUCCESS"}
                       /\ IF evt_map[k].remove THEN events[k] = "none" /\ found[k] \notin index[k]
                          ELSE events[k] = in.user /\ in.user \in index[k]
                 /\ evt_map[k].remove <=> first = "delete"
                 /\ evt_map[k].long => Cardinality(Reported(k)) <= 1
                 /\ first = "addLong" => Reported(k) \subseteq {"SUCCESS", "STORAGE_NOT_SUCCESSFUL"}
                 /\ first = "addShort" => Reported(k) \cap {"SUCCESS", "STORAGE_NOT_SUCCESSFUL"} = {}
  <2> DEFINE named == {j \in 1..Len(in.ops) : in.ops[j].key = k}
             s == evt_map[k]
  <2>1. PICK f \in 1..done : IsFirst(in.ops, f, k) /\ StatusFits(in.ops[f].op, s)
    BY <1>1 DEF SInv, StatusInv, MapFits
  <2>2. Len(in.ops) \in Nat /\ 1..done \subseteq 1..Len(in.ops)
    BY <1>1, OpsFacts DEF SInv, StatusInv, CInv, Type, MapFits
  <2>3. f \in named /\ named \subseteq 1..Len(in.ops) /\ \A j \in named : f <= j
    BY <2>1, <2>2 DEF IsFirst
  <2>4. Min(named) = f
    BY <2>2, <2>3, MinIs
  <2>5. s \in Statuses
    BY <1>1 DEF SInv, StatusInv, MapFits
  <2>6. \A x \in Reported(k) : Agrees(x, s)
    BY <1>1 DEF SInv, StatusInv, Reports, Reported
  <2>7. s.long => Reported(k) \subseteq {s.result}
    BY <2>6 DEF Agrees
  <2>8. ~s.long => Reported(k) \cap Stored = {}
    BY <2>6 DEF Agrees
  <2>9. ASSUME Cardinality(named) = 1, "SUCCESS" \in Reported(k)
        PROVE  Reported(k) = {"SUCCESS"} /\ RowFits(s, events[k], index[k], in.user, found[k])
    <3>1. s.long /\ s.result = "SUCCESS"
      BY <2>7, <2>8, <2>9 DEF Stored
    <3>2. \A j \in named : j = f
      <4>1. IsFiniteSet(named)
        <5>1. IsFiniteSet(1..Len(in.ops))
          BY <2>2, FS_Interval
        <5> QED  BY <2>3, <5>1, FS_Subset
      <4>2. \E x : named = {x}
        BY <2>9, <4>1, FS_Singleton
      <4> QED  BY <2>3, <4>2
    <3>3. \A j \in 1..done : in.ops[j].key = in.ops[f].key => j = f
      BY <2>1, <2>2, <3>2 DEF IsFirst
    <3>4. RowFits(s, events[k], index[k], in.user, found[k])
      BY <1>1, <2>1, <3>1, <3>3 DEF SInv, StatusInv, RowsFit, IsFirst
    <3> QED  BY <2>7, <2>9, <3>1, <3>4
  <2>10. s.long => Cardinality(Reported(k)) <= 1
    <3> SUFFICES ASSUME s.long  PROVE Cardinality(Reported(k)) <= 1
      OBVIOUS
    <3>1. Cardinality({s.result}) = 1 /\ IsFiniteSet({s.result})
      BY FS_Singleton
    <3> QED  BY <2>7, <3>1, FS_Subset
  <2> HIDE DEF named
  <2>11. /\ s.remove <=> in.ops[f].op = "delete"
         /\ in.ops[f].op = "addLong" => Reported(k) \subseteq Stored
         /\ in.ops[f].op = "addShort" => Reported(k) \cap Stored = {}
    BY <2>1, <2>7, <2>8 DEF StatusFits
  <2> HIDE DEF s
  <2>12. /\ Cardinality(named) = 1 /\ "SUCCESS" \in Reported(k) =>
                       /\ Reported(k) = {"SUCCESS"}
                       /\ IF s.remove THEN events[k] = "none" /\ found[k] \notin index[k]
                          ELSE events[k] = in.user /\ in.user \in index[k]
         /\ s.remove <=> in.ops[Min(named)].op = "delete"
         /\ s.long => Cardinality(Reported(k)) <= 1
         /\ in.ops[Min(named)].op = "addLong" => Reported(k) \subseteq {"SUCCESS", "STORAGE_NOT_SUCCESSFUL"}
         /\ in.ops[Min(named)].op = "addShort" => Reported(k) \cap {"SUCCESS", "STORAGE_NOT_SUCCESSFUL"} = {}
    BY <2>4, <2>9, <2>10, <2>11 DEF RowFits, Stored
  <2> QED  BY <2>12 DEF named, s
<1>2. SInv => StatusTruthful
  BY <1>1, Zenon DEF StatusTruthful
<1> QED  BY <1>2, StatusInvariance, PTL
=============================================================================
