------------------------- MODULE HSSProcess_proofs -------------------------
(***************************************************************************)
(* Proofs about SQueue, for any queues, any finite set of threads and any  *)
(* client that only calls push() and pop() and posts from timer handlers:  *)
(* the semaphore counts the messages, and a pop(false) waits only for a    *)
(* message that another thread took.                                       *)
(*                                                                         *)
(* Proofs about the process, which is such a client, for any kinds of      *)
(* requests and any number of messages, callbacks and timer signals: the   *)
(* queues it uses keep their promises, and the counts it shows are right.  *)
(***************************************************************************)
EXTENDS HSSProcess, SequenceFacts

(* The most general client: every thread begins calls when it is idle, with *)
(* messages of S; the handler of timer signals only posts.                  *)
Uses(S) ==
    \/ \E t \in Threads : QueueStep(t)
    \/ \E t \in Threads \ {Timer}, q \in Queues :
          /\ (\E m \in S : BeginPush(t, q, m)) \/ (\E w \in BOOLEAN : BeginPop(t, q, w))
          /\ UNCHANGED <<items, sem, owner, host, stolen>>
    \/ \E t \in Threads, q \in Queues, m \in S : Interrupt(t, q, m)

Steps == {"returned", "lock", "post", "wait", "test", "claim", "take"}
Calls(S) == [op : {None, "push", "pop"}, q : Queues \cup {None}, pc : Steps, msg : S \cup {None}]

(* A call is of a queue, and a push is of a message.                        *)
CallOK(c, S) ==
    /\ c \in Calls(S)
    /\ c.op # None => c.q \in Queues
    /\ c.op = "push" => c.msg \in S

QueueType(S) ==
    /\ items \in [Queues -> Seq(S)] /\ sem \in [Queues -> Nat] /\ stolen \subseteq Queues
    /\ call = [t \in Threads |-> call[t]] /\ \A t \in Threads : CallOK(call[t], S)
    /\ host = None => call[Timer].op = None

QueueInv(S) == QueueType(S) /\ TokensMatch /\ BlocksOnlyWhenRaced

-----------------------------------------------------------------------------
(* Whether a call is at a step.                                             *)
Hit(c, q, op, pc) == IF c.q = q /\ c.op = op /\ c.pc = pc THEN 1 ELSE 0

LEMMA InFinite == \A q, op, pc : IsFiniteSet(In(q, op, pc)) /\ Cardinality(In(q, op, pc)) \in Nat
  BY QueueAssumption, FS_Subset, FS_CardinalityType DEF In

(* The calls at a step change by the one call that changes.                 *)
LEMMA InMoves ==
  ASSUME NEW t \in Threads, \A u \in Threads \ {t} : call'[u] = call[u],
         NEW q, NEW op, NEW pc
  PROVE  Cardinality(In(q, op, pc)')
            = Cardinality(In(q, op, pc)) - Hit(call[t], q, op, pc) + Hit(call'[t], q, op, pc)
<1> DEFINE A == In(q, op, pc)
           R == {u \in Threads \ {t} : call[u].q = q /\ call[u].op = op /\ call[u].pc = pc}
<1>1. IsFiniteSet(R) /\ Cardinality(R) \in Nat /\ t \notin R
  BY QueueAssumption, FS_Subset, FS_CardinalityType
<1>2. A = IF Hit(call[t], q, op, pc) = 1 THEN R \cup {t} ELSE R
  BY DEF In, Hit
<1>3. A' = IF Hit(call'[t], q, op, pc) = 1 THEN R \cup {t} ELSE R
  BY DEF In, Hit
<1>4. Cardinality(R \cup {t}) = Cardinality(R) + 1
  BY <1>1, FS_AddElement
<1>5. \A c : Hit(c, q, op, pc) \in {0, 1}
  BY DEF Hit
<1> HIDE DEF R
<1>6. Cardinality(A) = Cardinality(R) + Hit(call[t], q, op, pc)
  BY <1>1, <1>2, <1>4, <1>5
<1>7. Cardinality(A') = Cardinality(R) + Hit(call'[t], q, op, pc)
  BY <1>1, <1>3, <1>4, <1>5
<1> QED  BY <1>1, <1>5, <1>6, <1>7

-----------------------------------------------------------------------------
(* A call that goes on to another step keeps what else it holds.            *)
LEMMA NextStep ==
  ASSUME NEW S, NEW c, CallOK(c, S), NEW p \in Steps
  PROVE  /\ CallOK([c EXCEPT !.pc = p], S)
         /\ [c EXCEPT !.pc = p].op = c.op /\ [c EXCEPT !.pc = p].q = c.q
         /\ [c EXCEPT !.pc = p].pc = p
  BY DEF CallOK, Calls

LEMMA ReturnedOK ==
  ASSUME NEW S, NEW m \in S \cup {None}
  PROVE  CallOK(Returned(m), S) /\ Returned(m).op = None
  BY DEF CallOK, Calls, Returned, Steps, None

(* The step of one thread keeps the types.                                  *)
LEMMA TypeKept ==
  ASSUME NEW S, QueueType(S), NEW t \in Threads, NEW c, CallOK(c, S),
         call' = [call EXCEPT ![t] = c],
         items' \in [Queues -> Seq(S)], sem' \in [Queues -> Nat], stolen' \subseteq Queues,
         host' = None => IF t = Timer THEN c.op = None ELSE host = None
  PROVE  /\ QueueType(S)' /\ call'[t] = c
         /\ \A u \in Threads \ {t} : call'[u] = call[u]
<1>1. call'[t] = c /\ \A u \in Threads \ {t} : call'[u] = call[u]
  BY DEF QueueType
<1>2. call' = [u \in Threads |-> call'[u]]
  BY DEF QueueType
<1> QED  BY <1>1, <1>2, QueueAssumption DEF QueueType

-----------------------------------------------------------------------------
(* What a step does to the calls, and that it keeps the types.  c is the new *)
(* call of thread t.                                                         *)
Moves(t, c, S) ==
    /\ QueueType(S)' /\ call'[t] = c /\ \A u \in Threads \ {t} : call'[u] = call[u]

LEMMA EnqueueMoves ==
  ASSUME NEW S, QueueInv(S), NEW t \in Threads, Enqueue(t)
  PROVE  Moves(t, [call[t] EXCEPT !.pc = "post"], S)
<1> DEFINE c == [call[t] EXCEPT !.pc = "post"]
<1>1. CallOK(call[t], S) /\ call[t].op = "push" /\ call[t].q \in Queues /\ call[t].msg \in S
  BY DEF Enqueue, At, QueueInv, QueueType, CallOK, None
<1>2. CallOK(c, S) /\ c.op = "push"
  BY <1>1, NextStep DEF Steps
<1>3. call' = [call EXCEPT ![t] = c] /\ UNCHANGED <<sem, host, stolen>>
  BY DEF Enqueue
<1>4. items' \in [Queues -> Seq(S)]
  BY <1>1 DEF Enqueue, QueueInv, QueueType
<1>5. t = Timer => host # None
  BY <1>1 DEF QueueInv, QueueType, None
<1> HIDE DEF c
<1> QED  BY <1>2, <1>3, <1>4, <1>5, TypeKept DEF Moves, QueueInv, QueueType, c

LEMMA PostMoves ==
  ASSUME NEW S, QueueInv(S), NEW t \in Threads, Post(t)
  PROVE  Moves(t, Returned(None), S)
<1>1. CallOK(call[t], S) /\ call[t].op = "push" /\ call[t].q \in Queues
  BY DEF Post, At, QueueInv, QueueType, CallOK, None
<1>2. CallOK(Returned(None), S) /\ Returned(None).op = None
  BY ReturnedOK
<1>3. call' = [call EXCEPT ![t] = Returned(None)] /\ UNCHANGED <<items, stolen>>
      /\ (t # Timer => host' = host)
  BY DEF Post
<1>4. sem' \in [Queues -> Nat]
  BY <1>1 DEF Post, QueueInv, QueueType
<1> QED  BY <1>2, <1>3, <1>4, TypeKept DEF Moves, QueueInv, QueueType

LEMMA TestMoves ==
  ASSUME NEW S, QueueInv(S), NEW t \in Threads, Test(t)
  PROVE  /\ sem[call[t].q] = 0 => Moves(t, Returned(None), S)
         /\ sem[call[t].q] # 0 => Moves(t, [call[t] EXCEPT !.pc = "claim"], S)
<1>1. CallOK(call[t], S) /\ call[t].op = "pop" /\ call[t].q \in Queues
  BY DEF Test, At, QueueInv, QueueType, CallOK, None
<1>2. UNCHANGED <<items, sem, host, stolen>> /\ (t = Timer => host # None)
  BY <1>1 DEF Test, QueueInv, QueueType, None
<1>3. CASE sem[call[t].q] = 0
  <2>1. call' = [call EXCEPT ![t] = Returned(None)]
    BY <1>3 DEF Test
  <2>2. CallOK(Returned(None), S) /\ Returned(None).op = None
    BY ReturnedOK
  <2> QED  BY <1>2, <1>3, <2>1, <2>2, TypeKept DEF Moves, QueueInv, QueueType
<1>4. CASE sem[call[t].q] # 0
  <2> DEFINE c == [call[t] EXCEPT !.pc = "claim"]
  <2>1. call' = [call EXCEPT ![t] = c]
    BY <1>4 DEF Test
  <2>2. CallOK(c, S)
    BY <1>1, NextStep DEF Steps
  <2> HIDE DEF c
  <2> QED  BY <1>2, <1>4, <2>1, <2>2, TypeKept DEF Moves, QueueInv, QueueType, c
<1> QED  BY <1>3, <1>4

LEMMA WaitMoves ==
  ASSUME NEW S, QueueInv(S), NEW t \in Threads, Wait(t)
  PROVE  Moves(t, [call[t] EXCEPT !.pc = "take"], S)
<1> DEFINE c == [call[t] EXCEPT !.pc = "take"]
<1>1. CallOK(call[t], S) /\ call[t].op = "pop" /\ call[t].q \in Queues
  BY DEF Wait, At, QueueInv, QueueType, CallOK, None
<1>2. CallOK(c, S)
  BY <1>1, NextStep DEF Steps
<1>3. call' = [call EXCEPT ![t] = c] /\ UNCHANGED <<items, host>>
  BY DEF Wait
<1>4. sem' \in [Queues -> Nat] /\ stolen' \subseteq Queues
  BY <1>1 DEF Wait, QueueInv, QueueType
<1>5. t = Timer => host # None
  BY <1>1 DEF QueueInv, QueueType, None
<1> HIDE DEF c
<1> QED  BY <1>2, <1>3, <1>4, <1>5, TypeKept DEF Moves, QueueInv, QueueType, c

(* A thread that got past the semaphore finds a message.                     *)
LEMMA TakeFinds ==
  ASSUME NEW S, QueueInv(S), NEW t \in Threads, call[t].op = "pop", call[t].pc = "take"
  PROVE  call[t].q \in Queues /\ Len(items[call[t].q]) > 0 /\ items[call[t].q] \in Seq(S)
<1> DEFINE q == call[t].q
<1>1. q \in Queues /\ items[q] \in Seq(S) /\ sem[q] \in Nat
  BY DEF QueueInv, QueueType, CallOK, None
<1>2. In(q, "pop", "take") # {}
  BY DEF In
<1>3. Cardinality(In(q, "pop", "take")) # 0
  BY <1>2, InFinite, FS_EmptySet
<1>4. sem[q] + Cardinality(In(q, "pop", "take"))
            = Len(items[q]) - Cardinality(In(q, "push", "post"))
  BY <1>1 DEF QueueInv, TokensMatch
<1>5. Cardinality(In(q, "pop", "take")) \in Nat /\ Cardinality(In(q, "push", "post")) \in Nat
  BY InFinite
<1>6. Len(items[q]) \in Nat
  BY <1>1, LenProperties
<1> HIDE DEF q
<1>7. Len(items[q]) > 0
  BY <1>1, <1>3, <1>4, <1>5, <1>6
<1> QED  BY <1>1, <1>7 DEF q

LEMMA TakeMoves ==
  ASSUME NEW S, QueueInv(S), NEW t \in Threads, Take(t)
  PROVE  Moves(t, Returned(Head(items[call[t].q])), S)
<1> DEFINE q == call[t].q
<1>1. CallOK(call[t], S) /\ call[t].op = "pop" /\ call[t].pc = "take"
  BY DEF Take, At, QueueInv, QueueType, None
<1>2. q \in Queues /\ Len(items[q]) > 0 /\ items[q] \in Seq(S)
  BY <1>1, TakeFinds
<1>3. Head(items[q]) \in S /\ Tail(items[q]) \in Seq(S)
  BY <1>2
<1>4. CallOK(Returned(Head(items[q])), S)
  BY <1>3, ReturnedOK
<1>5. /\ call' = [call EXCEPT ![t] = Returned(Head(items[q]))]
      /\ items' = [items EXCEPT ![q] = Tail(items[q])]
      /\ UNCHANGED <<sem, host, stolen>> /\ (t = Timer => host # None)
  BY <1>1 DEF Take, QueueInv, QueueType, None
<1>6. items' \in [Queues -> Seq(S)]
  BY <1>2, <1>3, <1>5 DEF QueueInv, QueueType
<1> HIDE DEF q
<1> QED  BY <1>4, <1>5, <1>6, TypeKept DEF Moves, QueueInv, QueueType, q

(* A thread begins a call, or the timer's handler does.                      *)
LEMMA BeginMoves ==
  ASSUME NEW S, QueueInv(S), NEW t \in Threads \ {Timer}, NEW q \in Queues,
         (\E m \in S : BeginPush(t, q, m)) \/ (\E w \in BOOLEAN : BeginPop(t, q, w)),
         UNCHANGED <<items, sem, owner, host, stolen>>
  PROVE  \E c : Moves(t, c, S) /\ c.pc \in {"lock", "wait", "test"}
<1>1. ASSUME NEW m \in S, BeginPush(t, q, m)
      PROVE  \E c : Moves(t, c, S) /\ c.pc \in {"lock", "wait", "test"}
  <2> DEFINE c == [op |-> "push", q |-> q, pc |-> "lock", msg |-> m]
  <2>1. call' = [call EXCEPT ![t] = c]
    BY <1>1 DEF BeginPush
  <2>2. CallOK(c, S) /\ c.pc = "lock"
    BY DEF CallOK, Calls, Steps
  <2> HIDE DEF c
  <2>3. Moves(t, c, S)
    BY <2>1, <2>2, TypeKept DEF Moves, QueueInv, QueueType
  <2> QED  BY <2>2, <2>3
<1>2. ASSUME NEW w \in BOOLEAN, BeginPop(t, q, w)
      PROVE  \E c : Moves(t, c, S) /\ c.pc \in {"lock", "wait", "test"}
  <2>1. PICK p \in {"wait", "test"} :
            call' = [call EXCEPT ![t] = [op |-> "pop", q |-> q, msg |-> None, pc |-> p]]
    BY <1>2 DEF BeginPop
  <2> DEFINE c == [op |-> "pop", q |-> q, msg |-> None, pc |-> p]
  <2>2. CallOK(c, S) /\ c.pc = p
    BY DEF CallOK, Calls, Steps
  <2>3. call' = [call EXCEPT ![t] = c]
    BY <2>1
  <2> HIDE DEF c
  <2>4. Moves(t, c, S)
    BY <2>2, <2>3, TypeKept DEF Moves, QueueInv, QueueType
  <2> QED  BY <2>2, <2>4
<1> QED  BY <1>1, <1>2

LEMMA InterruptMoves ==
  ASSUME NEW S, QueueInv(S), NEW t \in Threads, NEW q \in Queues, NEW m \in S,
         Interrupt(t, q, m)
  PROVE  /\ call[Timer].op = None
         /\ \E c : Moves(Timer, c, S) /\ c.pc \in {"lock", "wait", "test"}
<1> DEFINE c == [op |-> "push", q |-> q, pc |-> "lock", msg |-> m]
<1>1. /\ call' = [call EXCEPT ![Timer] = c] /\ UNCHANGED <<items, sem, owner, stolen>>
      /\ host = None /\ host' # None /\ call[Timer].op = None
  BY QueueAssumption DEF Interrupt, QueueInv, QueueType
<1>2. CallOK(c, S) /\ c.pc = "lock"
  BY DEF CallOK, Calls, Steps
<1> HIDE DEF c
<1>3. Moves(Timer, c, S)
  BY <1>1, <1>2, QueueAssumption, TypeKept DEF Moves, QueueInv, QueueType
<1> QED  BY <1>1, <1>2, <1>3

-----------------------------------------------------------------------------
(* The tokens of a queue still match when the value, the messages and the    *)
(* call of the thread that moves change alike.                               *)
Msgs(r) == Len(items[r])
Gain(c, r) == Hit(c, r, "pop", "take") + Hit(c, r, "push", "post")

LEMMA HitValue == \A c, r, op, pc : Hit(c, r, op, pc) \in {0, 1}
  BY DEF Hit

LEMMA TokensStepAt ==
  ASSUME NEW S, QueueInv(S), NEW t \in Threads, NEW c, Moves(t, c, S), NEW r \in Queues,
         sem'[r] - sem[r] + Gain(c, r) - Gain(call[t], r) = Msgs(r)' - Msgs(r)
  PROVE  sem'[r] + Cardinality(In(r, "pop", "take")')
            = Msgs(r)' - Cardinality(In(r, "push", "post")')
<1>1. sem[r] + Cardinality(In(r, "pop", "take")) = Msgs(r) - Cardinality(In(r, "push", "post"))
  BY DEF QueueInv, TokensMatch, Msgs
<1>2. /\ Cardinality(In(r, "pop", "take")') = Cardinality(In(r, "pop", "take"))
            - Hit(call[t], r, "pop", "take") + Hit(c, r, "pop", "take")
      /\ Cardinality(In(r, "push", "post")') = Cardinality(In(r, "push", "post"))
            - Hit(call[t], r, "push", "post") + Hit(c, r, "push", "post")
  BY InMoves DEF Moves
<1>3. /\ sem[r] \in Nat /\ sem'[r] \in Nat /\ Msgs(r) \in Nat /\ Msgs(r)' \in Nat
  BY LenProperties DEF Moves, QueueInv, QueueType, Msgs
<1>4. Cardinality(In(r, "pop", "take")) \in Nat /\ Cardinality(In(r, "push", "post")) \in Nat
  BY InFinite
<1>5. /\ Hit(c, r, "pop", "take") \in Int /\ Hit(c, r, "push", "post") \in Int
      /\ Hit(call[t], r, "pop", "take") \in Int /\ Hit(call[t], r, "push", "post") \in Int
  BY HitValue
<1>6. PICK s1 \in Int, s2 \in Int, n1 \in Int, n2 \in Int :
         s1 = sem[r] /\ s2 = sem'[r] /\ n1 = Msgs(r) /\ n2 = Msgs(r)'
  BY <1>3
<1>7. PICK x \in Int, y \in Int :
         x = Cardinality(In(r, "pop", "take")) /\ y = Cardinality(In(r, "push", "post"))
  BY <1>4
<1>8. PICK h \in Int, i \in Int, j \in Int, k \in Int :
         /\ h = Hit(call[t], r, "pop", "take") /\ i = Hit(c, r, "pop", "take")
         /\ j = Hit(call[t], r, "push", "post") /\ k = Hit(c, r, "push", "post")
  BY <1>5
<1>9. /\ Cardinality(In(r, "pop", "take")') = x - h + i
      /\ Cardinality(In(r, "push", "post")') = y - j + k
  BY <1>2, <1>7, <1>8
<1>10. s2 - s1 + (i + k) - (h + j) = n2 - n1
  BY <1>6, <1>8 DEF Gain
<1>11. s1 + x = n1 - y
  BY <1>1, <1>6, <1>7
<1>12. s2 + (x - h + i) = n2 - (y - j + k)
  BY <1>10, <1>11
<1> QED  BY <1>6, <1>9, <1>12

LEMMA TokensStep ==
  ASSUME NEW S, QueueInv(S), NEW t \in Threads, NEW c, Moves(t, c, S),
         \A r \in Queues : sem'[r] - sem[r] + Gain(c, r) - Gain(call[t], r)
                              = Msgs(r)' - Msgs(r)
  PROVE  TokensMatch'
  BY TokensStepAt DEF TokensMatch, Msgs

(* A pop(false) still waits only when raced, if the value of a queue falls   *)
(* only where the history is kept, and nothing but a test that saw a message *)
(* comes to wait for it.                                                     *)
LEMMA BlocksStep ==
  ASSUME NEW S, QueueInv(S), NEW t \in Threads, NEW c, Moves(t, c, S),
         stolen \subseteq stolen', \A r \in Queues : sem'[r] >= sem[r],
         c.pc = "claim" => sem'[c.q] > 0
  PROVE  BlocksOnlyWhenRaced'
<1> SUFFICES ASSUME NEW r \in Queues, sem'[r] = 0, NEW u \in In(r, "pop", "claim")'
             PROVE  r \in stolen'
  BY DEF BlocksOnlyWhenRaced
<1>1. u \in Threads /\ call'[u].q = r /\ call'[u].op = "pop" /\ call'[u].pc = "claim"
  BY DEF In
<1>2. sem[r] \in Nat /\ sem'[r] \in Nat
  BY DEF Moves, QueueInv, QueueType
<1>3. u # t
  BY <1>1, <1>2 DEF Moves
<1>4. u \in In(r, "pop", "claim") /\ sem[r] = 0
  BY <1>1, <1>2, <1>3 DEF Moves, In
<1> QED  BY <1>4 DEF QueueInv, BlocksOnlyWhenRaced

(* The steps of the queue keep its invariant.                                *)
LEMMA EnqueueInv ==
  ASSUME NEW S, QueueInv(S), NEW t \in Threads, Enqueue(t)
  PROVE  QueueInv(S)'
<1> DEFINE c == [call[t] EXCEPT !.pc = "post"]
           k == call[t].q
<1>1. Moves(t, c, S)
  BY EnqueueMoves
<1>2. /\ CallOK(call[t], S) /\ call[t].op = "push" /\ call[t].pc = "lock" /\ k \in Queues
      /\ call[t].msg \in S
  BY DEF Enqueue, At, QueueInv, QueueType, CallOK, None
<1>3. c.op = "push" /\ c.q = k /\ c.pc = "post"
  BY <1>2, NextStep DEF Steps
<1>4. /\ UNCHANGED <<sem, stolen>> /\ items' = [items EXCEPT ![k] = Append(@, call[t].msg)]
  BY DEF Enqueue
<1>5. \A r \in Queues : Gain(call[t], r) = 0 /\ Gain(c, r) = IF r = k THEN 1 ELSE 0
  BY <1>2, <1>3 DEF Gain, Hit
<1>6. \A r \in Queues : Msgs(r) \in Nat /\ Msgs(r)' = IF r = k THEN Msgs(r) + 1 ELSE Msgs(r)
  <2> SUFFICES ASSUME NEW r \in Queues
               PROVE  /\ Len(items[r]) \in Nat
                      /\ Len(items'[r]) = IF r = k THEN Len(items[r]) + 1 ELSE Len(items[r])
    BY DEF Msgs
  <2>1. items[r] \in Seq(S) /\ items'[r] = IF r = k THEN Append(items[r], call[t].msg) ELSE items[r]
    BY <1>4 DEF QueueInv, QueueType
  <2>2. Len(items[r]) \in Nat
    BY <2>1, LenProperties
  <2>3. CASE r = k
    <3>1. Len(items'[r]) = Len(items[r]) + 1
      BY <1>2, <2>1, <2>3, AppendProperties
    <3> QED  BY <2>2, <2>3, <3>1
  <2>4. CASE r # k
    BY <2>1, <2>2, <2>4
  <2> QED  BY <2>3, <2>4
<1>7. \A r \in Queues : sem[r] \in Nat /\ sem'[r] = sem[r]
  BY <1>4 DEF QueueInv, QueueType
<1> HIDE DEF c, k
<1>8. TokensMatch'
  <2>1. \A r \in Queues : sem'[r] - sem[r] + Gain(c, r) - Gain(call[t], r)
                              = Msgs(r)' - Msgs(r)
    BY <1>5, <1>6, <1>7
  <2> QED  BY <1>1, <2>1, TokensStep
<1>9. BlocksOnlyWhenRaced'
  BY <1>1, <1>3, <1>4, <1>7, BlocksStep
<1> QED  BY <1>1, <1>8, <1>9 DEF QueueInv, Moves

LEMMA PostInv ==
  ASSUME NEW S, QueueInv(S), NEW t \in Threads, Post(t)
  PROVE  QueueInv(S)'
<1> DEFINE c == Returned(None)
           k == call[t].q
<1>1. Moves(t, c, S)
  BY PostMoves
<1>2. CallOK(call[t], S) /\ call[t].op = "push" /\ call[t].pc = "post" /\ k \in Queues
  BY DEF Post, At, QueueInv, QueueType, CallOK, None
<1>3. c.op = None /\ c.pc = "returned"
  BY DEF Returned
<1>4. UNCHANGED <<items, stolen>> /\ sem' = [sem EXCEPT ![k] = @ + 1]
  BY DEF Post
<1>5. \A r \in Queues : Gain(c, r) = 0 /\ Gain(call[t], r) = IF r = k THEN 1 ELSE 0
  BY <1>2, <1>3 DEF Gain, Hit
<1>6. \A r \in Queues : Msgs(r)' = Msgs(r) /\ Msgs(r) \in Nat
  BY <1>4, LenProperties DEF QueueInv, QueueType, Msgs
<1>7. \A r \in Queues : sem[r] \in Nat /\ sem'[r] = IF r = k THEN sem[r] + 1 ELSE sem[r]
  BY <1>4 DEF QueueInv, QueueType
<1> HIDE DEF c, k
<1>8. TokensMatch'
  <2>1. \A r \in Queues : sem'[r] - sem[r] + Gain(c, r) - Gain(call[t], r)
                              = Msgs(r)' - Msgs(r)
    BY <1>5, <1>6, <1>7
  <2> QED  BY <1>1, <2>1, TokensStep
<1>9. BlocksOnlyWhenRaced'
  BY <1>1, <1>3, <1>4, <1>7, BlocksStep
<1> QED  BY <1>1, <1>8, <1>9 DEF QueueInv, Moves

(* A step that leaves the queues alone and takes the thread to no step that  *)
(* counts.                                                                   *)
LEMMA QuietInv ==
  ASSUME NEW S, QueueInv(S), NEW t \in Threads, NEW c, Moves(t, c, S),
         UNCHANGED <<items, sem, stolen>>, \A r \in Queues : Gain(c, r) = Gain(call[t], r),
         c.pc = "claim" => sem'[c.q] > 0
  PROVE  QueueInv(S)'
<1>1. \A r \in Queues : /\ sem[r] \in Nat /\ sem'[r] = sem[r]
                        /\ Msgs(r)' = Msgs(r) /\ Msgs(r) \in Nat
  BY LenProperties DEF QueueInv, QueueType, Msgs
<1>2. \A r \in Queues : Gain(c, r) \in Nat
  BY HitValue DEF Gain
<1>3. \A r \in Queues : sem'[r] - sem[r] + Gain(c, r) - Gain(call[t], r)
                            = Msgs(r)' - Msgs(r)
  BY <1>1, <1>2
<1>4. TokensMatch'
  BY <1>3, TokensStep
<1>5. BlocksOnlyWhenRaced'
  BY <1>1, BlocksStep
<1> QED  BY <1>4, <1>5 DEF QueueInv, Moves

LEMMA TestInv ==
  ASSUME NEW S, QueueInv(S), NEW t \in Threads, Test(t)
  PROVE  QueueInv(S)'
<1>1. /\ CallOK(call[t], S) /\ call[t].op = "pop" /\ call[t].pc = "test" /\ call[t].q \in Queues
      /\ UNCHANGED <<items, sem, stolen>>
  BY DEF Test, At, QueueInv, QueueType, CallOK, None
<1>2. CASE sem[call[t].q] = 0
  <2> DEFINE c == Returned(None)
  <2>1. Moves(t, c, S)
    BY <1>2, TestMoves
  <2>2. \A r \in Queues : Gain(c, r) = Gain(call[t], r)
    BY <1>1 DEF Gain, Hit, Returned
  <2>3. c.pc # "claim"
    BY DEF Returned
  <2> HIDE DEF c
  <2> QED  BY <1>1, <2>1, <2>2, <2>3, QuietInv
<1>3. CASE sem[call[t].q] # 0
  <2> DEFINE c == [call[t] EXCEPT !.pc = "claim"]
  <2>1. Moves(t, c, S)
    BY <1>3, TestMoves
  <2>2. c.op = "pop" /\ c.q = call[t].q /\ c.pc = "claim"
    BY <1>1, NextStep DEF Steps
  <2> HIDE DEF c
  <2>3. \A r \in Queues : Gain(c, r) = Gain(call[t], r)
    BY <1>1, <2>2 DEF Gain, Hit
  <2>4. sem'[c.q] > 0
    BY <1>1, <1>3, <2>2 DEF QueueInv, QueueType
  <2> QED  BY <1>1, <2>1, <2>3, <2>4, QuietInv
<1> QED  BY <1>2, <1>3

LEMMA WaitInv ==
  ASSUME NEW S, QueueInv(S), NEW t \in Threads, Wait(t)
  PROVE  QueueInv(S)'
<1> DEFINE c == [call[t] EXCEPT !.pc = "take"]
           k == call[t].q
<1>1. Moves(t, c, S)
  BY WaitMoves
<1>2. /\ CallOK(call[t], S) /\ call[t].op = "pop" /\ call[t].pc \in {"wait", "claim"}
      /\ k \in Queues
  BY DEF Wait, At, QueueInv, QueueType, CallOK, None
<1>3. c.op = "pop" /\ c.q = k /\ c.pc = "take"
  BY <1>2, NextStep DEF Steps
<1>4. /\ UNCHANGED items /\ sem[k] > 0 /\ sem' = [sem EXCEPT ![k] = @ - 1]
      /\ stolen' = stolen \cup {p \in {k} : \E u \in Threads \ {t} :
                                     call[u].q = k /\ call[u].pc = "claim"}
  BY DEF Wait
<1>5. \A r \in Queues : Gain(call[t], r) = 0 /\ Gain(c, r) = IF r = k THEN 1 ELSE 0
  BY <1>2, <1>3 DEF Gain, Hit
<1>6. \A r \in Queues : Msgs(r)' = Msgs(r) /\ Msgs(r) \in Nat
  BY <1>4, LenProperties DEF QueueInv, QueueType, Msgs
<1>7. \A r \in Queues : sem[r] \in Nat /\ sem'[r] = IF r = k THEN sem[r] - 1 ELSE sem[r]
  BY <1>4 DEF QueueInv, QueueType
<1> HIDE DEF c, k
<1>8. TokensMatch'
  <2>1. \A r \in Queues : sem'[r] - sem[r] + Gain(c, r) - Gain(call[t], r)
                              = Msgs(r)' - Msgs(r)
    BY <1>5, <1>6, <1>7
  <2> QED  BY <1>1, <2>1, TokensStep
<1>9. BlocksOnlyWhenRaced'
  <2> SUFFICES ASSUME NEW r \in Queues, sem'[r] = 0, NEW u \in In(r, "pop", "claim")'
               PROVE  r \in stolen'
    BY DEF BlocksOnlyWhenRaced
  <2>1. u \in Threads /\ call'[u].q = r /\ call'[u].op = "pop" /\ call'[u].pc = "claim"
    BY DEF In
  <2>2. u # t
    BY <1>1, <1>3, <2>1 DEF Moves
  <2>3. call[u].q = r /\ call[u].op = "pop" /\ call[u].pc = "claim"
    BY <1>1, <2>1, <2>2 DEF Moves
  <2>4. CASE r = k
    BY <1>4, <2>1, <2>2, <2>3, <2>4
  <2>5. CASE r # k
    <3>1. sem[r] = 0 /\ u \in In(r, "pop", "claim")
      BY <1>7, <2>1, <2>3, <2>5 DEF In
    <3> QED  BY <1>4, <3>1 DEF QueueInv, BlocksOnlyWhenRaced
  <2> QED  BY <2>4, <2>5
<1> QED  BY <1>1, <1>8, <1>9 DEF QueueInv, Moves

LEMMA TakeInv ==
  ASSUME NEW S, QueueInv(S), NEW t \in Threads, Take(t)
  PROVE  QueueInv(S)'
<1> DEFINE k == call[t].q
           c == Returned(Head(items[k]))
<1>1. Moves(t, c, S)
  BY TakeMoves
<1>2. CallOK(call[t], S) /\ call[t].op = "pop" /\ call[t].pc = "take"
  BY DEF Take, At, QueueInv, QueueType
<1>3. k \in Queues /\ Len(items[k]) > 0
  BY <1>2, TakeFinds
<1>4. c.op = None /\ c.pc = "returned"
  BY DEF Returned
<1>5. UNCHANGED <<sem, stolen>> /\ items' = [items EXCEPT ![k] = Tail(@)]
  BY DEF Take
<1>6. \A r \in Queues : Gain(c, r) = 0 /\ Gain(call[t], r) = IF r = k THEN 1 ELSE 0
  BY <1>2, <1>4 DEF Gain, Hit
<1>7. \A r \in Queues : Msgs(r) \in Nat /\ Msgs(r)' = IF r = k THEN Msgs(r) - 1 ELSE Msgs(r)
  <2> SUFFICES ASSUME NEW r \in Queues
               PROVE  /\ Len(items[r]) \in Nat
                      /\ Len(items'[r]) = IF r = k THEN Len(items[r]) - 1 ELSE Len(items[r])
    BY DEF Msgs
  <2>1. items[r] \in Seq(S) /\ items'[r] = IF r = k THEN Tail(items[r]) ELSE items[r]
    BY <1>5 DEF QueueInv, QueueType
  <2>2. Len(items[r]) \in Nat
    BY <2>1, LenProperties
  <2>3. r = k => items[r] # <<>>
    BY <1>3
  <2>4. r = k => Len(Tail(items[r])) = Len(items[r]) - 1
    BY <2>1, <2>3, HeadTailProperties
  <2> QED  BY <2>1, <2>2, <2>4
<1>8. \A r \in Queues : sem[r] \in Nat /\ sem'[r] = sem[r]
  BY <1>5 DEF QueueInv, QueueType
<1> HIDE DEF c, k
<1>9. TokensMatch'
  <2>1. \A r \in Queues : sem'[r] - sem[r] + Gain(c, r) - Gain(call[t], r)
                              = Msgs(r)' - Msgs(r)
    BY <1>6, <1>7, <1>8
  <2> QED  BY <1>1, <2>1, TokensStep
<1>10. BlocksOnlyWhenRaced'
  BY <1>1, <1>4, <1>5, <1>8, BlocksStep
<1> QED  BY <1>1, <1>9, <1>10 DEF QueueInv, Moves

-----------------------------------------------------------------------------
LEMMA QueueInit == ASSUME NEW S, InitQueue  PROVE QueueInv(S)
<1>1. \A q \in Queues, op \in {"push", "pop"} : \A pc : In(q, op, pc) = {}
  BY DEF InitQueue, In, Returned, None
<1>2. QueueType(S)
  BY ReturnedOK, QueueAssumption DEF InitQueue, QueueType, Returned
<1>3. TokensMatch
  <2> SUFFICES ASSUME NEW q \in Queues
               PROVE  sem[q] + Cardinality(In(q, "pop", "take"))
                         = Len(items[q]) - Cardinality(In(q, "push", "post"))
    BY DEF TokensMatch
  <2>1. Cardinality(In(q, "pop", "take")) = 0 /\ Cardinality(In(q, "push", "post")) = 0
    BY <1>1, FS_EmptySet
  <2>2. sem[q] = 0 /\ Len(items[q]) = 0
    BY DEF InitQueue
  <2> QED  BY <2>1, <2>2
<1>4. BlocksOnlyWhenRaced
  BY <1>1 DEF BlocksOnlyWhenRaced
<1> QED  BY <1>2, <1>3, <1>4 DEF QueueInv

LEMMA QueueNext == ASSUME NEW S, QueueInv(S), [Uses(S)]_queueVars  PROVE QueueInv(S)'
<1>1. ASSUME NEW t \in Threads, QueueStep(t)  PROVE QueueInv(S)'
  BY <1>1, EnqueueInv, PostInv, TestInv, WaitInv, TakeInv DEF QueueStep
<1>2. ASSUME NEW t \in Threads \ {Timer}, NEW q \in Queues,
             (\E m \in S : BeginPush(t, q, m)) \/ (\E w \in BOOLEAN : BeginPop(t, q, w)),
             UNCHANGED <<items, sem, owner, host, stolen>>
      PROVE  QueueInv(S)'
  <2>1. PICK c : Moves(t, c, S) /\ c.pc \in {"lock", "wait", "test"}
    BY <1>2, BeginMoves
  <2>2. call[t].op = None
    BY <1>2 DEF BeginPush, BeginPop, Idle
  <2>3. \A r \in Queues : Gain(c, r) = Gain(call[t], r)
    BY <2>1, <2>2 DEF Gain, Hit, None
  <2> QED  BY <1>2, <2>1, <2>3, QuietInv
<1>3. ASSUME NEW t \in Threads, NEW q \in Queues, NEW m \in S, Interrupt(t, q, m)
      PROVE  QueueInv(S)'
  <2>1. PICK c : Moves(Timer, c, S) /\ c.pc \in {"lock", "wait", "test"}
    BY <1>3, InterruptMoves
  <2>2. call[Timer].op = None
    BY <1>3, InterruptMoves
  <2>3. \A r \in Queues : Gain(c, r) = Gain(call[Timer], r)
    BY <2>1, <2>2 DEF Gain, Hit, None
  <2>4. UNCHANGED <<items, sem, stolen>>
    BY <1>3 DEF Interrupt
  <2> QED  BY <2>1, <2>3, <2>4, QueueAssumption, QuietInv
<1>4. CASE UNCHANGED queueVars
  BY <1>4 DEF queueVars, QueueInv, QueueType, TokensMatch, BlocksOnlyWhenRaced, In
<1> QED  BY <1>1, <1>2, <1>3, <1>4 DEF Uses

(* However many threads push and pop and timer handlers post, the semaphore  *)
(* of a queue counts its unclaimed messages, and front() finds one.          *)
THEOREM QueueTokens ==
  ASSUME NEW S
  PROVE  InitQueue /\ [][Uses(S)]_queueVars => [](QueueInv(S) /\ TokensMatch)
<1>1. InitQueue => QueueInv(S)
  BY QueueInit
<1>2. QueueInv(S) /\ [Uses(S)]_queueVars => QueueInv(S)'
  BY QueueNext
<1>3. QueueInv(S) => TokensMatch
  BY DEF QueueInv
<1> QED  BY <1>1, <1>2, <1>3, PTL

(* A pop(false) of any queue waits for a message only when another thread    *)
(* took the one it had seen.                                                 *)
THEOREM QueueBlocks ==
  ASSUME NEW S
  PROVE  InitQueue /\ [][Uses(S)]_queueVars => []BlocksOnlyWhenRaced
<1>1. InitQueue => QueueInv(S)
  BY QueueInit
<1>2. QueueInv(S) /\ [Uses(S)]_queueVars => QueueInv(S)'
  BY QueueNext
<1>3. QueueInv(S) => BlocksOnlyWhenRaced
  BY DEF QueueInv
<1> QED  BY <1>1, <1>2, <1>3, PTL

-----------------------------------------------------------------------------
(* The process.                                                             *)

Messages == Types \cup {"INIT", "QUIT", "LIVE", "TIMER", "CONSOLIDATE", "work"}

-----------------------------------------------------------------------------
(* The ledger of the statistics: the queue, the message its thread has taken *)
(* and not handled, and the one that a thread is about to queue.             *)
Q == items["stats"]
Hold == IF call["stats"].op = None THEN call["stats"].msg ELSE None
Sending(c) == IF c.op = "push" /\ c.pc = "lock" /\ c.q = "stats" THEN c.msg ELSE None
Sends(t) == Sending(call[t])

(* How many of y are counted when the first n messages of a queue s and the  *)
(* one that is held are.                                                     *)
Reach(c, h, s, n, y) == c[y] + One(h = y) + Occ(s, n, y)

(* No message is lost and none is counted twice: d is what the Diameter      *)
(* thread is about to queue.                                                 *)
Balanced(passed, c, h, s, d) ==
    \A y \in Types : passed[y] = Reach(c, h, s, Len(s), y) + One(d = y)

(* What was registered before a message m was begun, b, is counted before m  *)
(* is handled: p is what the thread that sends m is about to queue.          *)
Covers(b, m, c, h, s, p) ==
    \A y \in Types :
        /\ p = m => b[y] <= Reach(c, h, s, Len(s), y)
        /\ \A i \in 1..Len(s) : s[i] = m => b[y] <= Reach(c, h, s, i, y)
        /\ h = m => b[y] <= c[y]

Absent(m, h, s, p) == p # m /\ h # m /\ \A i \in 1..Len(s) : s[i] # m

-----------------------------------------------------------------------------
(* The inductive invariant.                                                  *)

ProcType ==
    /\ count \in [Types -> Nat] /\ shown \in [Types -> Nat]
    /\ live \in [pc : {"idle", "waiting", "timed out", "answered"}, counts : [Types -> Nat]]
    /\ seen \in [passed : [Types -> Nat], beforeLive : [Types -> Int], beforeQuit : [Types -> Int]]

(* Who calls what on the queue of the statistics.                            *)
Role(t, c) ==
    c.op # None =>
        /\ t \in {"diameter", "stats"} => c.q = "stats"
        /\ t = "diameter" => c.op = "push"
        /\ c.q = "stats" =>
              /\ c.op = "pop" => t = "stats"
              /\ c.op = "push" => /\ c.msg \in Types => t = "diameter"
                                  /\ c.msg = "LIVE" => t = "oss"
                                  /\ c.msg = "QUIT" => t = "main"
Roles == \A t \in Threads : Role(t, call[t])

BeforeQuit == {"init", "rest", "create", "started", "wait", "shutdown", "quit"}

Balance == Balanced(seen.passed, count, Hold, Q, Sends("diameter"))

Ordered ==
    /\ Covers(seen.beforeLive, "LIVE", count, Hold, Q, Sends("oss"))
    /\ Covers(seen.beforeQuit, "QUIT", count, Hold, Q, Sends("main"))
    /\ live.pc = "idle" => Absent("LIVE", Hold, Q, Sends("oss"))
    /\ main \in BeforeQuit => Absent("QUIT", Hold, Q, Sends("main"))

(* The counts that were shown are not ahead of the collectors.               *)
Shows ==
    \A y \in Types :
        /\ live.pc = "answered" =>
              seen.beforeLive[y] <= live.counts[y] /\ live.counts[y] <= count[y]
        /\ y # "srr" => shown[y] <= count[y]

Ledger == ProcType /\ Balance /\ Ordered /\ Shows /\ CountedBeforeEnd

IInv == QueueInv(Messages) /\ Roles /\ Ledger

-----------------------------------------------------------------------------
(* The ledger when a message is queued, taken or handled.                    *)

LEMMA ReachType ==
  ASSUME NEW c \in [Types -> Nat], NEW h, NEW s, NEW n \in Nat, NEW y \in Types
  PROVE  Reach(c, h, s, n, y) \in Nat
<1>1. c[y] \in Nat /\ One(h = y) \in Nat /\ Occ(s, n, y) \in Nat
  BY OneValue, OccFinite
<1> QED  BY <1>1 DEF Reach

LEMMA NotAType ==
  \A y \in Types : y \notin {None, "INIT", "QUIT", "LIVE", "TIMER", "CONSOLIDATE", "work"}
  BY ProcessAssumption

LEMMA ReachAppend ==
  ASSUME NEW s \in Seq(Messages), NEW x \in Messages, NEW y \in Types,
         NEW c \in [Types -> Nat], NEW h
  PROVE  LET r == Append(s, x)
         IN  /\ Len(s) \in Nat /\ Len(r) = Len(s) + 1
             /\ r[Len(s) + 1] = x /\ \A i \in 1..Len(s) : r[i] = s[i]
             /\ \A n \in 1..Len(s) : Reach(c, h, r, n, y) = Reach(c, h, s, n, y)
             /\ Reach(c, h, r, Len(r), y) = Reach(c, h, s, Len(s), y) + One(x = y)
<1> DEFINE r == Append(s, x)
<1>1. /\ Len(s) \in Nat /\ Len(r) = Len(s) + 1
      /\ r[Len(s) + 1] = x /\ \A i \in 1..Len(s) : r[i] = s[i]
  BY LenProperties, AppendProperties
<1>2. \A n \in 1..Len(s) : Occ(r, n, y) = Occ(s, n, y)
  <2> SUFFICES ASSUME NEW n \in 1..Len(s)  PROVE Occ(r, n, y) = Occ(s, n, y)
    OBVIOUS
  <2>1. n \in 0..Len(s)
    BY <1>1
  <2> QED  BY <2>1, OccPrefix
<1>3. Occ(r, Len(s) + 1, y) = Occ(s, Len(s), y) + One(x = y)
  BY OccAppend
<1>4. Occ(r, Len(r), y) = Occ(s, Len(s), y) + One(x = y)
  BY <1>1, <1>3
<1>5. Occ(s, Len(s), y) \in Nat /\ One(x = y) \in Nat /\ One(h = y) \in Nat /\ c[y] \in Nat
  BY <1>1, OneValue, OccFinite
<1> HIDE DEF r
<1>6. Reach(c, h, r, Len(r), y) = Reach(c, h, s, Len(s), y) + One(x = y)
  <2>1. PICK k \in Int, l \in Int, o \in Int :
            k = c[y] /\ l = One(h = y) /\ o = Occ(s, Len(s), y)
    BY <1>5
  <2>2. PICK e \in Int : e = One(x = y)
    BY <1>5
  <2>3. k + l + (o + e) = k + l + o + e
    OBVIOUS
  <2> QED  BY <1>4, <2>1, <2>2, <2>3 DEF Reach
<1> QED  BY <1>1, <1>2, <1>6 DEF Reach, r

LEMMA AppendBalanced ==
  ASSUME NEW s \in Seq(Messages), NEW x \in Messages, NEW c \in [Types -> Nat], NEW h,
         NEW passed, NEW d, NEW d1, Balanced(passed, c, h, s, d),
         (d = x /\ d1 = None) \/ (x \notin Types /\ d1 = d)
  PROVE  Balanced(passed, c, h, Append(s, x), d1)
<1> DEFINE r == Append(s, x)
<1> SUFFICES ASSUME NEW y \in Types
             PROVE  passed[y] = Reach(c, h, r, Len(r), y) + One(d1 = y)
  BY DEF Balanced
<1>1. Reach(c, h, r, Len(r), y) = Reach(c, h, s, Len(s), y) + One(x = y)
  BY ReachAppend
<1>2. Reach(c, h, s, Len(s), y) \in Nat
  BY ReachType, LenProperties
<1>3. passed[y] = Reach(c, h, s, Len(s), y) + One(d = y)
  BY DEF Balanced
<1>4. One(x = y) + One(d1 = y) = One(d = y) /\ One(x = y) \in Nat /\ One(d1 = y) \in Nat
  BY NotAType DEF One
<1> HIDE DEF r
<1>5. PICK n \in Int, i \in Int, j \in Int :
         n = Reach(c, h, s, Len(s), y) /\ i = One(x = y) /\ j = One(d1 = y)
  BY <1>2, <1>4
<1>6. n + (i + j) = (n + i) + j
  OBVIOUS
<1> QED  BY <1>1, <1>3, <1>4, <1>5, <1>6

LEMMA AppendCovers ==
  ASSUME NEW s \in Seq(Messages), NEW x \in Messages, NEW c \in [Types -> Nat], NEW h,
         NEW b \in [Types -> Int], NEW m, m \notin Types \cup {None}, NEW p, NEW p1,
         Covers(b, m, c, h, s, p), (p = x /\ p1 = None) \/ (x # m /\ p1 = p)
  PROVE  Covers(b, m, c, h, Append(s, x), p1)
<1> DEFINE r == Append(s, x)
<1> SUFFICES ASSUME NEW y \in Types
             PROVE  /\ p1 = m => b[y] <= Reach(c, h, r, Len(r), y)
                    /\ \A i \in 1..Len(r) : r[i] = m => b[y] <= Reach(c, h, r, i, y)
                    /\ h = m => b[y] <= c[y]
  BY DEF Covers
<1>1. /\ Len(s) \in Nat /\ Len(r) = Len(s) + 1
      /\ r[Len(s) + 1] = x /\ \A i \in 1..Len(s) : r[i] = s[i]
      /\ \A n \in 1..Len(s) : Reach(c, h, r, n, y) = Reach(c, h, s, n, y)
      /\ Reach(c, h, r, Len(r), y) = Reach(c, h, s, Len(s), y) + One(x = y)
  BY ReachAppend
<1>2. Reach(c, h, s, Len(s), y) \in Nat
  BY ReachType, <1>1
<1>3. One(x = y) \in Nat
  BY OneValue
<1> HIDE DEF r
<1>4. Reach(c, h, s, Len(s), y) <= Reach(c, h, r, Len(r), y) /\ Reach(c, h, r, Len(r), y) \in Nat
  BY <1>1, <1>2, <1>3
<1>5. p = m => b[y] <= Reach(c, h, s, Len(s), y)
  BY DEF Covers
<1>6. p = m => b[y] <= Reach(c, h, r, Len(r), y)
  BY <1>2, <1>4, <1>5
<1>7. h = m => b[y] <= c[y]
  BY DEF Covers
<1>8. ASSUME NEW i \in 1..Len(r), r[i] = m  PROVE b[y] <= Reach(c, h, r, i, y)
  <2>1. CASE i \in 1..Len(s)
    <3>1. s[i] = m /\ Reach(c, h, r, i, y) = Reach(c, h, s, i, y)
      BY <1>1, <1>8, <2>1
    <3> QED  BY <2>1, <3>1 DEF Covers
  <2>2. CASE i = Len(r)
    BY <1>1, <1>6, <1>8, <2>2
  <2> QED  BY <1>1, <2>1, <2>2
<1> QED  BY <1>6, <1>7, <1>8 DEF r

LEMMA ReachTail ==
  ASSUME NEW s \in Seq(Messages), s # <<>>, NEW y \in Types, NEW c \in [Types -> Nat],
         NEW n \in 0..(Len(s) - 1)
  PROVE  Reach(c, None, s, n + 1, y) = Reach(c, Head(s), Tail(s), n, y)
<1>1. Occ(s, n + 1, y) = Occ(Tail(s), n, y) + One(Head(s) = y)
  BY OccTail
<1>2. n \in Nat
  BY LenProperties
<1>3. Occ(Tail(s), n, y) \in Nat /\ One(Head(s) = y) \in Nat /\ c[y] \in Nat
  BY <1>2, OccFinite, OneValue
<1>4. One(None = y) = 0
  BY NotAType DEF One
<1>5. PICK k \in Int, l \in Int, o \in Int :
          k = c[y] /\ l = One(Head(s) = y) /\ o = Occ(Tail(s), n, y)
  BY <1>3
<1>6. k + 0 + (o + l) = k + l + o
  OBVIOUS
<1> QED  BY <1>1, <1>4, <1>5, <1>6 DEF Reach

LEMMA TailFacts ==
  ASSUME NEW s \in Seq(Messages), s # <<>>
  PROVE  /\ Len(s) \in Nat /\ Len(s) > 0 /\ Len(Tail(s)) = Len(s) - 1 /\ Head(s) = s[1]
         /\ \A i \in 1..(Len(s) - 1) : Tail(s)[i] = s[i + 1]
         /\ Tail(s) \in Seq(Messages) /\ Head(s) \in Messages
  BY HeadTailProperties, LenProperties, EmptySeq

LEMMA TakeBalanced ==
  ASSUME NEW s \in Seq(Messages), s # <<>>, NEW c \in [Types -> Nat], NEW passed, NEW d,
         Balanced(passed, c, None, s, d)
  PROVE  Balanced(passed, c, Head(s), Tail(s), d)
<1> SUFFICES ASSUME NEW y \in Types
             PROVE  Reach(c, Head(s), Tail(s), Len(Tail(s)), y) = Reach(c, None, s, Len(s), y)
  BY DEF Balanced
<1>1. Len(s) \in Nat /\ Len(Tail(s)) = Len(s) - 1 /\ Len(s) > 0
  BY TailFacts
<1>2. Len(Tail(s)) \in 0..(Len(s) - 1) /\ Len(Tail(s)) + 1 = Len(s)
  BY <1>1
<1> QED  BY <1>2, ReachTail

LEMMA TakeCovers ==
  ASSUME NEW s \in Seq(Messages), s # <<>>, NEW c \in [Types -> Nat],
         NEW b \in [Types -> Int], NEW m, m \notin Types \cup {None}, NEW p,
         Covers(b, m, c, None, s, p)
  PROVE  Covers(b, m, c, Head(s), Tail(s), p)
<1> DEFINE r == Tail(s)
<1> SUFFICES ASSUME NEW y \in Types
             PROVE  /\ p = m => b[y] <= Reach(c, Head(s), r, Len(r), y)
                    /\ \A i \in 1..Len(r) : r[i] = m => b[y] <= Reach(c, Head(s), r, i, y)
                    /\ Head(s) = m => b[y] <= c[y]
  BY DEF Covers
<1>1. /\ Len(s) \in Nat /\ Len(s) > 0 /\ Len(r) = Len(s) - 1 /\ Head(s) = s[1]
      /\ \A i \in 1..(Len(s) - 1) : r[i] = s[i + 1]
  BY TailFacts
<1> HIDE DEF r
<1>2. p = m => b[y] <= Reach(c, Head(s), r, Len(r), y)
  <2>1. Len(r) \in 0..(Len(s) - 1) /\ Len(r) + 1 = Len(s)
    BY <1>1
  <2>2. Reach(c, None, s, Len(s), y) = Reach(c, Head(s), r, Len(r), y)
    BY <2>1, ReachTail DEF r
  <2> QED  BY <2>2 DEF Covers
<1>3. ASSUME NEW i \in 1..Len(r), r[i] = m  PROVE b[y] <= Reach(c, Head(s), r, i, y)
  <2>1. i \in 0..(Len(s) - 1) /\ i + 1 \in 1..Len(s) /\ s[i + 1] = m
    BY <1>1, <1>3
  <2>2. Reach(c, None, s, i + 1, y) = Reach(c, Head(s), r, i, y)
    BY <2>1, ReachTail DEF r
  <2>3. b[y] <= Reach(c, None, s, i + 1, y)
    BY <2>1 DEF Covers
  <2> QED  BY <2>2, <2>3
<1>4. ASSUME Head(s) = m  PROVE b[y] <= c[y]
  <2>1. 1 \in 1..Len(s) /\ 0 \in 0..(Len(s) - 1) /\ s[1] = m
    BY <1>1, <1>4
  <2>2. b[y] <= Reach(c, None, s, 1, y)
    BY <2>1 DEF Covers
  <2>3. Reach(c, None, s, 0 + 1, y) = Reach(c, Head(s), r, 0, y)
    BY <2>1, ReachTail DEF r
  <2>4. One(Head(s) = y) = 0 /\ Occ(r, 0, y) = 0
    BY <1>4, OccZero DEF One
  <2>5. Reach(c, Head(s), r, 0, y) = c[y]
    BY <2>4 DEF Reach
  <2> QED  BY <2>2, <2>3, <2>5
<1> QED  BY <1>2, <1>3, <1>4 DEF r

(* The collectors when the message h is handled.                             *)
Plus(c, h) == [y \in Types |-> c[y] + One(h = y)]

LEMMA CountGrows ==
  ASSUME NEW c \in [Types -> Nat], NEW h
  PROVE  /\ Plus(c, h) \in [Types -> Nat]
         /\ \A y \in Types : /\ Plus(c, h)[y] = c[y] + One(h = y) /\ c[y] \in Nat
                            /\ Plus(c, h)[y] \in Nat /\ c[y] <= Plus(c, h)[y]
         /\ h \notin Types => Plus(c, h) = c
<1> DEFINE c1 == Plus(c, h)
<1>1. \A y \in Types : One(h = y) \in Nat /\ c[y] \in Nat /\ c1[y] = c[y] + One(h = y)
  BY OneValue DEF Plus
<1>2. c1 = [z \in Types |-> c1[z]]
  BY DEF Plus
<1> HIDE DEF c1
<1>3. \A y \in Types : c1[y] \in Nat /\ c[y] <= c1[y]
  BY <1>1
<1>4. c1 \in [Types -> Nat]
  BY <1>2, <1>3
<1>5. ASSUME h \notin Types  PROVE c1 = c
  <2>1. \A y \in Types : One(h = y) = 0
    BY <1>5 DEF One
  <2>2. \A y \in Types : c1[y] = c[y]
    BY <1>1, <2>1
  <2> QED  BY <1>4, <2>2
<1> QED  BY <1>1, <1>3, <1>4, <1>5 DEF c1

LEMMA ReachCounted ==
  ASSUME NEW c \in [Types -> Nat], NEW h, NEW s, NEW n \in Nat, NEW y \in Types
  PROVE  Reach(Plus(c, h), None, s, n, y) = Reach(c, h, s, n, y)
<1>1. Plus(c, h)[y] = c[y] + One(h = y)
  BY CountGrows
<1>2. One(None = y) = 0 /\ One(h = y) \in Nat /\ Occ(s, n, y) \in Nat /\ c[y] \in Nat
  BY NotAType, OneValue, OccFinite DEF One
<1>3. PICK k \in Int, l \in Int, o \in Int : k = c[y] /\ l = One(h = y) /\ o = Occ(s, n, y)
  BY <1>2
<1>4. (k + l) + 0 + o = k + l + o
  OBVIOUS
<1> QED  BY <1>1, <1>2, <1>3, <1>4 DEF Reach

LEMMA CountBalanced ==
  ASSUME NEW s \in Seq(Messages), NEW c \in [Types -> Nat], NEW h, NEW passed, NEW d,
         Balanced(passed, c, h, s, d)
  PROVE  Balanced(passed, Plus(c, h), None, s, d)
  BY ReachCounted, LenProperties DEF Balanced

LEMMA CountCovers ==
  ASSUME NEW s \in Seq(Messages), NEW c \in [Types -> Nat], NEW h, NEW p,
         NEW b \in [Types -> Int], NEW m, m \notin Types \cup {None},
         Covers(b, m, c, h, s, p)
  PROVE  Covers(b, m, Plus(c, h), None, s, p)
<1> DEFINE c1 == Plus(c, h)
<1> SUFFICES ASSUME NEW y \in Types
             PROVE  /\ p = m => b[y] <= Reach(c1, None, s, Len(s), y)
                    /\ \A i \in 1..Len(s) : s[i] = m => b[y] <= Reach(c1, None, s, i, y)
  BY DEF Covers
<1>1. Len(s) \in Nat
  BY LenProperties
<1>2. \A n \in Nat : Reach(c1, None, s, n, y) = Reach(c, h, s, n, y)
  BY ReachCounted
<1>3. \A i \in 1..Len(s) : i \in Nat
  BY <1>1
<1> QED  BY <1>1, <1>2, <1>3 DEF Covers

-----------------------------------------------------------------------------
(* What the steps of the queue do to the ledger.                             *)

ledger == <<Q, Hold, Sends("diameter"), Sends("oss"), Sends("main")>>

Queued(t) ==
    /\ Q' = Append(Q, Sends(t)) /\ Sends(t) \in Messages /\ Hold' = Hold
    /\ \A u \in {"diameter", "oss", "main"} : Sends(u)' = IF u = t THEN None ELSE Sends(u)
    /\ Sends(t) \in Types => t = "diameter"
    /\ Sends(t) = "LIVE" => t = "oss"
    /\ Sends(t) = "QUIT" => t = "main"

Taken ==
    /\ Q # <<>> /\ Hold = None /\ Hold' = Head(Q) /\ Q' = Tail(Q)
    /\ UNCHANGED <<Sends("diameter"), Sends("oss"), Sends("main")>>

LEMMA Members ==
  /\ {"main", "diameter", "oss", "db", "stats", "worker"} \subseteq Threads \ {Timer}
  /\ {"stats", "work"} \subseteq Queues /\ "stats" # "work"
  BY ProcessAssumption

LEMMA StatsQueue == ASSUME QueueInv(Messages)  PROVE Q \in Seq(Messages)
  BY Members DEF QueueInv, QueueType, Q

LEMMA EnqueueLedger ==
  ASSUME QueueInv(Messages), Roles, NEW t \in Threads, Enqueue(t)
  PROVE  Roles' /\ (UNCHANGED ledger \/ Queued(t))
<1> DEFINE c == call[t]
           d == [c EXCEPT !.pc = "post"]
<1>1. /\ call'[t] = d /\ \A u \in Threads \ {t} : call'[u] = call[u]
  BY EnqueueMoves DEF Moves
<1>2. /\ c.op = "push" /\ c.pc = "lock" /\ c.q \in Queues /\ c.msg \in Messages
      /\ CallOK(c, Messages) /\ Role(t, c)
  BY DEF Enqueue, At, QueueInv, QueueType, CallOK, None, Roles
<1>3. d.op = "push" /\ d.pc = "post" /\ d.q = c.q /\ d.msg = c.msg
  BY <1>2 DEF CallOK, Calls
<1>4. items' = [items EXCEPT ![c.q] = Append(@, c.msg)]
  BY DEF Enqueue
<1>5. items \in [Queues -> Seq(Messages)]
  BY DEF QueueInv, QueueType
<1> HIDE DEF d
<1>6. Roles'
  BY <1>1, <1>2, <1>3 DEF Roles, Role
<1>7. Hold' = Hold
  BY <1>1, <1>2, <1>3, Members DEF Hold, None
<1>8. Sends(t)' = None
  BY <1>1, <1>3 DEF Sends, Sending
<1>9. \A u \in {"diameter", "oss", "main"} : u # t => Sends(u)' = Sends(u)
  BY <1>1, Members DEF Sends, Sending
<1>10. CASE c.q = "stats"
  <2>1. Sends(t) = c.msg
    BY <1>2, <1>10 DEF Sends, Sending
  <2>2. Q' = Append(Q, c.msg)
    BY <1>4, <1>5, <1>10, Members DEF Q
  <2>3. /\ c.msg \in Types => t = "diameter"
        /\ c.msg = "LIVE" => t = "oss"
        /\ c.msg = "QUIT" => t = "main"
    BY <1>2, <1>10 DEF Role, None
  <2>4. \A u \in {"diameter", "oss", "main"} : Sends(u)' = IF u = t THEN None ELSE Sends(u)
    BY <1>8, <1>9
  <2> QED  BY <1>2, <1>6, <1>7, <2>1, <2>2, <2>3, <2>4 DEF Queued
<1>11. CASE c.q # "stats"
  <2>1. Sends(t) = None
    BY <1>11 DEF Sends, Sending
  <2>2. Q' = Q
    BY <1>4, <1>5, <1>11, Members DEF Q
  <2>3. \A u \in {"diameter", "oss", "main"} : Sends(u)' = Sends(u)
    BY <1>8, <1>9, <2>1
  <2> QED  BY <1>6, <1>7, <2>2, <2>3 DEF ledger
<1> QED  BY <1>10, <1>11

(* A call that returns nothing, or goes on to pop, leaves the ledger alone.  *)
LEMMA QuietLedger ==
  ASSUME Roles, NEW t \in Threads, NEW c, items' = items,
         call'[t] = c, \A u \in Threads \ {t} : call'[u] = call[u],
         call[t].op # None, call[t].pc # "lock",
         \/ c.op = None /\ c.msg = None
         \/ c.op = "pop" /\ call[t].op = "pop" /\ c.q = call[t].q
  PROVE  Roles' /\ UNCHANGED ledger
<1>1. Roles'
  BY DEF Roles, Role, None
<1>2. Q' = Q /\ Hold' = Hold
  BY Members DEF Q, Hold, None
<1>3. \A u \in {"diameter", "oss", "main"} : Sends(u)' = Sends(u)
  BY Members DEF Sends, Sending, None
<1> QED  BY <1>1, <1>2, <1>3 DEF ledger

LEMMA PostLedger ==
  ASSUME QueueInv(Messages), Roles, NEW t \in Threads, Post(t)
  PROVE  Roles' /\ UNCHANGED ledger
<1>1. /\ call'[t] = Returned(None) /\ \A u \in Threads \ {t} : call'[u] = call[u]
  BY PostMoves DEF Moves
<1>2. call[t].op # None /\ call[t].pc # "lock" /\ items' = items
  BY DEF Post, At, None
<1>3. Returned(None).op = None /\ Returned(None).msg = None
  BY DEF Returned
<1> QED  BY <1>1, <1>2, <1>3, QuietLedger

LEMMA TestLedger ==
  ASSUME QueueInv(Messages), Roles, NEW t \in Threads, Test(t)
  PROVE  Roles' /\ UNCHANGED ledger
<1>1. /\ call[t].op = "pop" /\ call[t].op # None /\ call[t].pc # "lock" /\ items' = items
      /\ CallOK(call[t], Messages)
  BY DEF Test, At, None, QueueInv, QueueType
<1>2. CASE sem[call[t].q] = 0
  <2>1. /\ call'[t] = Returned(None) /\ \A u \in Threads \ {t} : call'[u] = call[u]
    BY <1>2, TestMoves DEF Moves
  <2>2. Returned(None).op = None /\ Returned(None).msg = None
    BY DEF Returned
  <2> QED  BY <1>1, <2>1, <2>2, QuietLedger
<1>3. CASE sem[call[t].q] # 0
  <2> DEFINE c == [call[t] EXCEPT !.pc = "claim"]
  <2>1. /\ call'[t] = c /\ \A u \in Threads \ {t} : call'[u] = call[u]
    BY <1>3, TestMoves DEF Moves
  <2>2. c.op = "pop" /\ c.q = call[t].q
    BY <1>1, NextStep DEF Steps
  <2> HIDE DEF c
  <2> QED  BY <1>1, <2>1, <2>2, QuietLedger
<1> QED  BY <1>2, <1>3

LEMMA WaitLedger ==
  ASSUME QueueInv(Messages), Roles, NEW t \in Threads, Wait(t)
  PROVE  Roles' /\ UNCHANGED ledger
<1> DEFINE c == [call[t] EXCEPT !.pc = "take"]
<1>1. /\ call[t].op = "pop" /\ call[t].op # None /\ call[t].pc # "lock" /\ items' = items
      /\ CallOK(call[t], Messages)
  BY DEF Wait, At, None, QueueInv, QueueType
<1>2. /\ call'[t] = c /\ \A u \in Threads \ {t} : call'[u] = call[u]
  BY WaitMoves DEF Moves
<1>3. c.op = "pop" /\ c.q = call[t].q
  BY <1>1, NextStep DEF Steps
<1> HIDE DEF c
<1> QED  BY <1>1, <1>2, <1>3, QuietLedger

LEMMA TakeLedger ==
  ASSUME QueueInv(Messages), Roles, NEW t \in Threads, Take(t)
  PROVE  Roles' /\ (UNCHANGED ledger \/ Taken)
<1> DEFINE q == call[t].q
           c == Returned(Head(items[q]))
<1>1. /\ call'[t] = c /\ \A u \in Threads \ {t} : call'[u] = call[u]
  BY TakeMoves DEF Moves
<1>2. call[t].op = "pop" /\ call[t].pc = "take" /\ Role(t, call[t])
  BY DEF Take, At, Roles
<1>3. q \in Queues /\ Len(items[q]) > 0
  BY <1>2, TakeFinds
<1>4. c.op = None /\ c.msg = Head(items[q])
  BY DEF Returned
<1>5. items' = [items EXCEPT ![q] = Tail(@)] /\ items \in [Queues -> Seq(Messages)]
  BY DEF Take, QueueInv, QueueType
<1> HIDE DEF c, q
<1>6. Roles'
  BY <1>1, <1>4 DEF Roles, Role
<1>7. \A u \in {"diameter", "oss", "main"} : Sends(u)' = Sends(u)
  BY <1>1, <1>2, <1>4, Members DEF Sends, Sending, None
<1>8. CASE q = "stats"
  <2>1. t = "stats"
    BY <1>2, <1>8 DEF Role, q, None
  <2>2. Hold = None /\ Hold' = Head(Q) /\ Q' = Tail(Q)
    BY <1>1, <1>2, <1>4, <1>5, <1>8, <2>1, Members DEF Hold, Q, None
  <2>3. Q # <<>>
    BY <1>3, <1>8 DEF Q
  <2> QED  BY <1>6, <1>7, <2>2, <2>3 DEF Taken
<1>9. CASE q # "stats"
  <2>1. t # "stats"
    BY <1>2, <1>9 DEF Role, q, None
  <2>2. Hold' = Hold /\ Q' = Q
    BY <1>1, <1>3, <1>5, <1>9, <2>1, Members DEF Hold, Q
  <2> QED  BY <1>6, <1>7, <2>2 DEF ledger
<1> QED  BY <1>8, <1>9

-----------------------------------------------------------------------------
(* The invariant is kept when a queue makes a step.                          *)

LEMMA LedgerSame ==
  ASSUME Ledger, UNCHANGED ledger, UNCHANGED <<count, shown, live, seen>>,
         thread' = "done" => thread = "done", main' \in BeforeQuit => main \in BeforeQuit
  PROVE  Ledger'
<1>1. /\ Q' = Q /\ Hold' = Hold /\ Sends("diameter")' = Sends("diameter")
      /\ Sends("oss")' = Sends("oss") /\ Sends("main")' = Sends("main")
  BY DEF ledger
<1>2. ProcType' /\ Shows'
  BY DEF Ledger, ProcType, Shows
<1>3. Balance' /\ Ordered'
  BY <1>1 DEF Ledger, Balance, Ordered
<1>4. CountedBeforeEnd'
  BY DEF Ledger, CountedBeforeEnd
<1> QED  BY <1>2, <1>3, <1>4 DEF Ledger

LEMMA AppendAbsent ==
  ASSUME NEW s \in Seq(Messages), NEW x \in Messages, NEW m, NEW h, NEW p, NEW p1,
         Absent(m, h, s, p), x # m, p1 # m
  PROVE  Absent(m, h, Append(s, x), p1)
<1> DEFINE r == Append(s, x)
<1>1. /\ Len(s) \in Nat /\ Len(r) = Len(s) + 1
      /\ r[Len(s) + 1] = x /\ \A i \in 1..Len(s) : r[i] = s[i]
  BY LenProperties, AppendProperties
<1> HIDE DEF r
<1>2. ASSUME NEW i \in 1..Len(r)  PROVE r[i] # m
  <2>1. i \in 1..Len(s) \/ i = Len(s) + 1
    BY <1>1
  <2> QED  BY <1>1, <2>1 DEF Absent
<1> QED  BY <1>2 DEF Absent, r

LEMMA TakeAbsent ==
  ASSUME NEW s \in Seq(Messages), s # <<>>, NEW m, NEW h, NEW p, Absent(m, h, s, p)
  PROVE  Absent(m, Head(s), Tail(s), p)
<1> DEFINE r == Tail(s)
<1>1. /\ Len(s) \in Nat /\ Len(s) > 0 /\ Len(r) = Len(s) - 1 /\ Head(s) = s[1]
      /\ \A i \in 1..(Len(s) - 1) : r[i] = s[i + 1]
  BY TailFacts
<1> HIDE DEF r
<1>2. ASSUME NEW i \in 1..Len(r)  PROVE r[i] # m
  <2>1. i + 1 \in 1..Len(s) /\ r[i] = s[i + 1]
    BY <1>1
  <2> QED  BY <2>1 DEF Absent
<1>3. Head(s) # m
  BY <1>1 DEF Absent
<1> QED  BY <1>2, <1>3 DEF Absent, r

LEMMA LedgerQueued ==
  ASSUME QueueInv(Messages), Ledger, NEW t, Queued(t), UNCHANGED procVars
  PROVE  Ledger'
<1> DEFINE x == Sends(t)
<1>1. UNCHANGED <<main, thread, count, shown, live, seen>>
  BY DEF procVars
<1>2. ProcType' /\ Shows' /\ CountedBeforeEnd'
  BY <1>1 DEF Ledger, ProcType, Shows, CountedBeforeEnd
<1>3. /\ Q \in Seq(Messages) /\ count \in [Types -> Nat] /\ x \in Messages
      /\ seen.beforeLive \in [Types -> Int] /\ seen.beforeQuit \in [Types -> Int]
  BY StatsQueue DEF Ledger, ProcType, Queued
<1>4. Q' = Append(Q, x) /\ Hold' = Hold
  BY DEF Queued
<1>5. \A u \in {"diameter", "oss", "main"} :
         (u = t /\ Sends(u) = x /\ Sends(u)' = None) \/ (u # t /\ Sends(u)' = Sends(u))
  BY DEF Queued
<1>6. (x \in Types => t = "diameter") /\ (x = "LIVE" => t = "oss") /\ (x = "QUIT" => t = "main")
  BY DEF Queued
<1> HIDE DEF x
<1>7. Balance'
  <2>1. Balanced(seen.passed, count, Hold, Append(Q, x), Sends("diameter")')
    BY <1>3, <1>5, <1>6, AppendBalanced DEF Ledger, Balance
  <2> QED  BY <1>1, <1>4, <2>1 DEF Balance
<1>8. "LIVE" \notin Types \cup {None} /\ "QUIT" \notin Types \cup {None}
  BY NotAType DEF None
<1>9. Covers(seen.beforeLive, "LIVE", count, Hold, Append(Q, x), Sends("oss")')
  BY <1>3, <1>5, <1>6, <1>8, AppendCovers DEF Ledger, Ordered
<1>10. Covers(seen.beforeQuit, "QUIT", count, Hold, Append(Q, x), Sends("main")')
  BY <1>3, <1>5, <1>6, <1>8, AppendCovers DEF Ledger, Ordered
<1>11. ASSUME live.pc = "idle"  PROVE Absent("LIVE", Hold, Append(Q, x), Sends("oss")')
  <2>1. Absent("LIVE", Hold, Q, Sends("oss"))
    BY <1>11 DEF Ledger, Ordered
  <2>2. x # "LIVE" /\ Sends("oss")' # "LIVE"
    BY <1>5, <1>6, <2>1 DEF Absent, None
  <2> QED  BY <1>3, <2>1, <2>2, AppendAbsent
<1>12. ASSUME main \in BeforeQuit  PROVE Absent("QUIT", Hold, Append(Q, x), Sends("main")')
  <2>1. Absent("QUIT", Hold, Q, Sends("main"))
    BY <1>12 DEF Ledger, Ordered
  <2>2. x # "QUIT" /\ Sends("main")' # "QUIT"
    BY <1>5, <1>6, <2>1 DEF Absent, None
  <2> QED  BY <1>3, <2>1, <2>2, AppendAbsent
<1>13. Ordered'
  BY <1>1, <1>4, <1>9, <1>10, <1>11, <1>12 DEF Ordered
<1> QED  BY <1>2, <1>7, <1>13 DEF Ledger

LEMMA LedgerTaken ==
  ASSUME QueueInv(Messages), Ledger, Taken, UNCHANGED procVars
  PROVE  Ledger'
<1>1. UNCHANGED <<main, thread, count, shown, live, seen>>
  BY DEF procVars
<1>2. ProcType' /\ Shows' /\ CountedBeforeEnd'
  BY <1>1 DEF Ledger, ProcType, Shows, CountedBeforeEnd
<1>3. /\ Q \in Seq(Messages) /\ count \in [Types -> Nat] /\ Q # <<>> /\ Hold = None
      /\ seen.beforeLive \in [Types -> Int] /\ seen.beforeQuit \in [Types -> Int]
  BY StatsQueue DEF Ledger, ProcType, Taken
<1>4. /\ Q' = Tail(Q) /\ Hold' = Head(Q) /\ Sends("diameter")' = Sends("diameter")
      /\ Sends("oss")' = Sends("oss") /\ Sends("main")' = Sends("main")
  BY DEF Taken
<1>5. Balanced(seen.passed, count, Head(Q), Tail(Q), Sends("diameter"))
  BY <1>3, TakeBalanced DEF Ledger, Balance
<1>6. "LIVE" \notin Types \cup {None} /\ "QUIT" \notin Types \cup {None}
  BY NotAType DEF None
<1>7. Covers(seen.beforeLive, "LIVE", count, Head(Q), Tail(Q), Sends("oss"))
  BY <1>3, <1>6, TakeCovers DEF Ledger, Ordered
<1>8. Covers(seen.beforeQuit, "QUIT", count, Head(Q), Tail(Q), Sends("main"))
  BY <1>3, <1>6, TakeCovers DEF Ledger, Ordered
<1>9. /\ live.pc = "idle" => Absent("LIVE", Head(Q), Tail(Q), Sends("oss"))
      /\ main \in BeforeQuit => Absent("QUIT", Head(Q), Tail(Q), Sends("main"))
  BY <1>3, TakeAbsent DEF Ledger, Ordered
<1>10. Balance' /\ Ordered'
  BY <1>1, <1>4, <1>5, <1>7, <1>8, <1>9 DEF Balance, Ordered
<1> QED  BY <1>2, <1>10 DEF Ledger

LEMMA QueueStepKeeps ==
  ASSUME QueueInv(Messages), Roles, Ledger, NEW t \in Threads, QueueStep(t), UNCHANGED procVars
  PROVE  Roles' /\ Ledger'
<1>1. ASSUME UNCHANGED ledger  PROVE Ledger'
  BY <1>1, LedgerSame DEF procVars
<1>2. CASE Enqueue(t)
  BY <1>1, <1>2, EnqueueLedger, LedgerQueued
<1>3. CASE Post(t)
  BY <1>1, <1>3, PostLedger
<1>4. CASE Test(t)
  BY <1>1, <1>4, TestLedger
<1>5. CASE Wait(t)
  BY <1>1, <1>5, WaitLedger
<1>6. CASE Take(t)
  BY <1>1, <1>6, TakeLedger, LedgerTaken
<1> QED  BY <1>2, <1>3, <1>4, <1>5, <1>6 DEF QueueStep

-----------------------------------------------------------------------------
(* The invariant is kept when a thread but that of the statistics begins a   *)
(* call, c.                                                                  *)

LEMMA BeginLedger ==
  ASSUME QueueInv(Messages), Roles, NEW t \in Threads \ {"stats"}, NEW c,
         call' = [call EXCEPT ![t] = c], call[t].op = None, items' = items, Role(t, c)
  PROVE  /\ Roles' /\ Q' = Q /\ Hold' = Hold
         /\ Sends(t) = None /\ Sends(t)' = Sending(c)
         /\ \A u \in {"diameter", "oss", "main"} \ {t} : Sends(u)' = Sends(u)
<1>1. call'[t] = c /\ \A u \in Threads \ {t} : call'[u] = call[u]
  BY DEF QueueInv, QueueType
<1>2. Roles'
  BY <1>1 DEF Roles
<1> QED  BY <1>1, <1>2, Members DEF Q, Hold, Sends, Sending, None

LEMMA BeginSame ==
  ASSUME QueueInv(Messages), Roles, NEW t \in Threads \ {"stats"}, NEW c,
         call' = [call EXCEPT ![t] = c], call[t].op = None, items' = items, Role(t, c),
         t \in {"diameter", "oss", "main"} => Sending(c) = None
  PROVE  Roles' /\ UNCHANGED ledger
<1>1. /\ Roles' /\ Q' = Q /\ Hold' = Hold
      /\ Sends(t) = None /\ Sends(t)' = Sending(c)
      /\ \A u \in {"diameter", "oss", "main"} \ {t} : Sends(u)' = Sends(u)
  BY BeginLedger
<1>2. \A u \in {"diameter", "oss", "main"} : Sends(u)' = Sends(u)
  BY <1>1
<1> QED  BY <1>1, <1>2 DEF ledger

LEMMA OtherMessage ==
  ASSUME NEW b, NEW m, NEW c, NEW h, NEW s, NEW p, NEW p1, Covers(b, m, c, h, s, p), p1 # m
  PROVE  Covers(b, m, c, h, s, p1)
  BY DEF Covers

(* A message m of which there is none is begun.                              *)
LEMMA FirstMessage ==
  ASSUME NEW b, NEW m, NEW c \in [Types -> Nat], NEW h, NEW s \in Seq(Messages), NEW p, NEW d,
         NEW passed, Absent(m, h, s, p), Balanced(passed, c, h, s, d),
         \A y \in Types : b[y] \in Int /\ b[y] <= passed[y] - One(d = y)
  PROVE  Covers(b, m, c, h, s, m)
<1> SUFFICES ASSUME NEW y \in Types  PROVE b[y] <= Reach(c, h, s, Len(s), y)
  BY DEF Covers, Absent
<1>1. Reach(c, h, s, Len(s), y) \in Nat
  BY ReachType, LenProperties
<1>2. passed[y] = Reach(c, h, s, Len(s), y) + One(d = y) /\ One(d = y) \in Nat
  BY OneValue DEF Balanced
<1>3. PICK n \in Int, i \in Int : n = Reach(c, h, s, Len(s), y) /\ i = One(d = y)
  BY <1>1, <1>2
<1>4. b[y] \in Int /\ b[y] <= (n + i) - i
  BY <1>2, <1>3
<1> QED  BY <1>3, <1>4

LEMMA PassBalanced ==
  ASSUME NEW passed \in [Types -> Nat], NEW c \in [Types -> Nat], NEW h,
         NEW s \in Seq(Messages), NEW y \in Types, Balanced(passed, c, h, s, None)
  PROVE  Balanced([passed EXCEPT ![y] = @ + 1], c, h, s, y)
<1> SUFFICES ASSUME NEW z \in Types
             PROVE  [passed EXCEPT ![y] = @ + 1][z]
                       = Reach(c, h, s, Len(s), z) + One(y = z)
  BY DEF Balanced
<1>1. Reach(c, h, s, Len(s), z) \in Nat
  BY ReachType, LenProperties
<1>2. passed[z] = Reach(c, h, s, Len(s), z) + One(None = z) /\ One(None = z) = 0
  BY NotAType DEF Balanced, One
<1>3. PICK n \in Int : n = Reach(c, h, s, Len(s), z)
  BY <1>1
<1>4. passed[z] = n
  BY <1>2, <1>3
<1> QED  BY <1>3, <1>4 DEF One

(* What is registered is at most what passed less what is about to be queued. *)
LEMMA RegisteredBound ==
  ASSUME ProcType
  PROVE  /\ Registered \in [Types -> Int]
         /\ \A y \in Types : Registered[y] <= seen.passed[y] - One(Sends("diameter") = y)
<1>1. seen.passed \in [Types -> Nat]
  BY DEF ProcType
<1>2. \A y \in Types : Sends("diameter") = y
                          => call["diameter"].op = "push" /\ call["diameter"].msg = y
  BY NotAType DEF Sends, Sending
<1> QED  BY <1>1, <1>2 DEF Registered, One

LEMMA PassKeeps ==
  ASSUME QueueInv(Messages), Roles, Ledger, NEW y \in Types, Pass(y)
  PROVE  Roles' /\ Ledger'
<1> DEFINE c == [op |-> "push", q |-> "stats", pc |-> "lock", msg |-> y]
<1>1. /\ call' = [call EXCEPT !["diameter"] = c] /\ call["diameter"].op = None
      /\ UNCHANGED <<items, main, thread, count, shown, live>>
      /\ seen' = [seen EXCEPT !.passed[y] = @ + 1]
  BY DEF Pass, BeginPush, Idle
<1>2. Role("diameter", c) /\ Sending(c) = y
  BY NotAType DEF Role, Sending
<1>3. "diameter" \in Threads \ {"stats"}
  BY Members
<1> HIDE DEF c
<1>4. /\ Roles' /\ Q' = Q /\ Hold' = Hold
      /\ Sends("diameter") = None /\ Sends("diameter")' = y
      /\ Sends("oss")' = Sends("oss") /\ Sends("main")' = Sends("main")
  BY <1>1, <1>2, <1>3, BeginLedger
<1>5. /\ seen'.passed = [seen.passed EXCEPT ![y] = @ + 1]
      /\ seen'.beforeLive = seen.beforeLive /\ seen'.beforeQuit = seen.beforeQuit
      /\ ProcType'
  <2> DEFINE n == [seen.passed EXCEPT ![y] = @ + 1]
  <2>1. seen' = [seen EXCEPT !.passed = n]
    BY <1>1
  <2>2. n \in [Types -> Nat]
    <3>1. seen.passed \in [Types -> Nat]
      BY DEF Ledger, ProcType
    <3> QED  BY <3>1
  <2> HIDE DEF n
  <2>3. seen'.passed = n /\ seen'.beforeLive = seen.beforeLive
        /\ seen'.beforeQuit = seen.beforeQuit /\ ProcType'
    BY <1>1, <2>1, <2>2 DEF Ledger, ProcType
  <2> QED  BY <2>3 DEF n
<1>6. Balance'
  <2>1. Balanced([seen.passed EXCEPT ![y] = @ + 1], count, Hold, Q, y)
    BY <1>4, PassBalanced, StatsQueue DEF Ledger, Balance, ProcType
  <2> QED  BY <1>1, <1>4, <1>5, <2>1 DEF Balance
<1>7. Ordered' /\ Shows' /\ CountedBeforeEnd'
  BY <1>1, <1>4, <1>5 DEF Ledger, Ordered, Shows, CountedBeforeEnd
<1> QED  BY <1>4, <1>5, <1>6, <1>7 DEF Ledger

LEMMA AskLiveKeeps ==
  ASSUME QueueInv(Messages), Roles, Ledger, AskLive
  PROVE  Roles' /\ Ledger'
<1> DEFINE c == [op |-> "push", q |-> "stats", pc |-> "lock", msg |-> "LIVE"]
<1>1. /\ call' = [call EXCEPT !["oss"] = c] /\ call["oss"].op = None
      /\ UNCHANGED <<items, main, thread, count, shown>> /\ live.pc = "idle"
      /\ live' = [live EXCEPT !.pc = "waiting"]
      /\ seen' = [seen EXCEPT !.beforeLive = Registered]
  BY DEF AskLive, BeginPush, Idle
<1>2. Role("oss", c) /\ Sending(c) = "LIVE"
  BY NotAType DEF Role, Sending
<1>3. "oss" \in Threads \ {"stats"}
  BY Members
<1> HIDE DEF c
<1>4. /\ Roles' /\ Q' = Q /\ Hold' = Hold
      /\ Sends("diameter")' = Sends("diameter") /\ Sends("oss")' = "LIVE"
      /\ Sends("main")' = Sends("main")
  BY <1>1, <1>2, <1>3, BeginLedger
<1>5. ProcType /\ Registered \in [Types -> Int]
  BY RegisteredBound DEF Ledger
<1> DEFINE b == Registered
<1>6. \A y \in Types : b[y] \in Int /\ b[y] <= seen.passed[y] - One(Sends("diameter") = y)
  BY <1>5, RegisteredBound
<1>7. b \in [Types -> Int]
  BY <1>5
<1>8. seen' = [seen EXCEPT !.beforeLive = b]
  BY <1>1
<1> HIDE DEF b
<1>9. /\ seen'.beforeLive = b /\ seen'.passed = seen.passed
      /\ seen'.beforeQuit = seen.beforeQuit /\ live'.pc = "waiting" /\ ProcType'
  BY <1>1, <1>5, <1>7, <1>8 DEF ProcType
<1>10. Covers(b, "LIVE", count, Hold, Q, "LIVE")
  BY <1>1, <1>6, FirstMessage, StatsQueue DEF Ledger, Balance, Ordered, ProcType
<1>11. Balance' /\ Ordered'
  BY <1>1, <1>4, <1>9, <1>10 DEF Ledger, Balance, Ordered
<1>12. Shows' /\ CountedBeforeEnd'
  BY <1>1, <1>9 DEF Ledger, Shows, CountedBeforeEnd
<1> QED  BY <1>4, <1>9, <1>11, <1>12 DEF Ledger

LEMMA QuitStatsKeeps ==
  ASSUME QueueInv(Messages), Roles, Ledger, QuitStats, thread = "running"
  PROVE  Roles' /\ Ledger'
<1> DEFINE c == [op |-> "push", q |-> "stats", pc |-> "lock", msg |-> "QUIT"]
<1>1. /\ call' = [call EXCEPT !["main"] = c] /\ call["main"].op = None
      /\ UNCHANGED <<items, thread, count, shown, live>> /\ main = "quit" /\ main' = "complete"
      /\ seen' = [seen EXCEPT !.beforeQuit = Registered]
  BY DEF QuitStats, BeginPush, Idle, MainIs, Go
<1>2. Role("main", c) /\ Sending(c) = "QUIT"
  BY NotAType DEF Role, Sending
<1>3. "main" \in Threads \ {"stats"}
  BY Members
<1> HIDE DEF c
<1>4. /\ Roles' /\ Q' = Q /\ Hold' = Hold
      /\ Sends("diameter")' = Sends("diameter") /\ Sends("oss")' = Sends("oss")
      /\ Sends("main")' = "QUIT"
  BY <1>1, <1>2, <1>3, BeginLedger
<1>5. ProcType /\ Registered \in [Types -> Int]
  BY RegisteredBound DEF Ledger
<1> DEFINE b == Registered
<1>6. \A y \in Types : b[y] \in Int /\ b[y] <= seen.passed[y] - One(Sends("diameter") = y)
  BY <1>5, RegisteredBound
<1>7. b \in [Types -> Int]
  BY <1>5
<1>8. seen' = [seen EXCEPT !.beforeQuit = b]
  BY <1>1
<1> HIDE DEF b
<1>9. /\ seen'.beforeQuit = b /\ seen'.passed = seen.passed
      /\ seen'.beforeLive = seen.beforeLive /\ ProcType'
  BY <1>1, <1>5, <1>7, <1>8 DEF ProcType
<1>10. Covers(b, "QUIT", count, Hold, Q, "QUIT")
  BY <1>1, <1>6, FirstMessage, StatsQueue DEF Ledger, Balance, Ordered, ProcType, BeforeQuit
<1>11. Balance' /\ Ordered'
  BY <1>1, <1>4, <1>9, <1>10 DEF Ledger, Balance, Ordered, BeforeQuit
<1>12. Shows' /\ CountedBeforeEnd'
  BY <1>1, <1>9 DEF Ledger, Shows, CountedBeforeEnd
<1> QED  BY <1>4, <1>9, <1>11, <1>12 DEF Ledger

LEMMA PostInitKeeps ==
  ASSUME QueueInv(Messages), Roles, Ledger, PostInit
  PROVE  Roles' /\ Ledger'
<1> DEFINE c == [op |-> "push", q |-> "stats", pc |-> "lock", msg |-> "INIT"]
<1>1. /\ call' = [call EXCEPT !["main"] = c] /\ call["main"].op = None
      /\ UNCHANGED <<items, thread, count, shown, live, seen>>
      /\ main = "started" /\ main' = "wait"
  BY DEF PostInit, BeginPush, Idle, MainIs, Go
<1>2. Role("main", c) /\ Sending(c) = "INIT"
  BY NotAType DEF Role, Sending
<1>3. "main" \in Threads \ {"stats"}
  BY Members
<1> HIDE DEF c
<1>4. /\ Roles' /\ Q' = Q /\ Hold' = Hold
      /\ Sends("diameter")' = Sends("diameter") /\ Sends("oss")' = Sends("oss")
      /\ Sends("main")' = "INIT"
  BY <1>1, <1>2, <1>3, BeginLedger
<1>5. Covers(seen.beforeQuit, "QUIT", count, Hold, Q, "INIT")
  BY OtherMessage DEF Ledger, Ordered
<1>6. Balance' /\ Ordered'
  BY <1>1, <1>4, <1>5 DEF Ledger, Balance, Ordered, BeforeQuit, Absent
<1>7. ProcType' /\ Shows' /\ CountedBeforeEnd'
  BY <1>1 DEF Ledger, ProcType, Shows, CountedBeforeEnd
<1> QED  BY <1>4, <1>6, <1>7 DEF Ledger

-----------------------------------------------------------------------------
(* The statistics thread handles a message.                                  *)

LEMMA DispatchCalls ==
  ASSUME QueueInv(Messages), Roles, Dispatch, Hold # "QUIT"
  PROVE  /\ Roles' /\ Q' = Q /\ Hold' = None
         /\ Sends("diameter")' = Sends("diameter") /\ Sends("oss")' = Sends("oss")
         /\ Sends("main")' = Sends("main")
<1>1. call["stats"].op = None /\ items' = items /\ Hold = call["stats"].msg
  BY DEF Dispatch, Idle, Hold
<1>2. PICK c : /\ call' = [call EXCEPT !["stats"] = c]
               /\ c.op # None /\ Role("stats", c)
  <2>1. CASE Hold = "TIMER"
    <3> DEFINE c == [op |-> "push", q |-> "stats", pc |-> "lock", msg |-> "CONSOLIDATE"]
    <3>1. call' = [call EXCEPT !["stats"] = c]
      BY <1>1, <2>1 DEF Dispatch, BeginPush
    <3>2. c.op # None /\ Role("stats", c)
      BY NotAType DEF Role, None
    <3> QED  BY <3>1, <3>2
  <2>2. CASE Hold # "TIMER"
    <3> DEFINE c == [op |-> "pop", q |-> "stats", msg |-> None, pc |-> "wait"]
    <3>1. call' = [call EXCEPT !["stats"] = c]
      BY <1>1, <2>2 DEF Dispatch, BeginPop
    <3>2. c.op # None /\ Role("stats", c)
      BY DEF Role, None
    <3> QED  BY <3>1, <3>2
  <2> QED  BY <2>1, <2>2
<1>3. call'["stats"] = c /\ \A u \in Threads \ {"stats"} : call'[u] = call[u]
  BY <1>2, Members DEF QueueInv, QueueType
<1>4. Roles'
  BY <1>2, <1>3 DEF Roles
<1> QED  BY <1>1, <1>2, <1>3, <1>4, Members DEF Q, Hold, Sends

LEMMA DispatchKeeps ==
  ASSUME QueueInv(Messages), Roles, Ledger, Dispatch
  PROVE  Roles' /\ Ledger'
<1>1. /\ call["stats"].op = None /\ items' = items /\ Hold = call["stats"].msg
      /\ UNCHANGED <<main, seen>> /\ thread = "running"
      /\ thread' = IF Hold = "QUIT" THEN "done" ELSE thread
      /\ count' = [y \in Types |-> count[y] + One(Hold = y)]
      /\ shown' = IF Hold = "CONSOLIDATE" THEN [y \in Types |-> count[Collector(y)]] ELSE shown
      /\ live' = Answered(Hold)
  BY DEF Dispatch, Idle, Hold, Counted, One
<1>2. /\ Q \in Seq(Messages) /\ count \in [Types -> Nat] /\ shown \in [Types -> Nat]
      /\ seen.beforeLive \in [Types -> Int] /\ seen.beforeQuit \in [Types -> Int]
      /\ live \in [pc : {"idle", "waiting", "timed out", "answered"}, counts : [Types -> Nat]]
  BY StatsQueue DEF Ledger, ProcType
<1> DEFINE c1 == Plus(count, Hold)
<1>3. count' = c1
  BY <1>1 DEF Plus
<1>4. /\ c1 \in [Types -> Nat] /\ (Hold \notin Types => c1 = count)
      /\ \A y \in Types : count[y] \in Nat /\ c1[y] \in Nat /\ count[y] <= c1[y]
  BY <1>2, CountGrows
<1> HIDE DEF c1
<1>5. shown' \in [Types -> Nat] /\ \A y \in Types : y # "srr" => shown'[y] <= c1[y]
  <2>1. \A y \in Types : Collector(y) \in Types /\ (y # "srr" => Collector(y) = y)
    BY DEF Collector
  <2>2. CASE Hold = "CONSOLIDATE"
    BY <1>1, <1>2, <1>4, <2>1, <2>2
  <2>3. CASE Hold # "CONSOLIDATE"
    <3>1. shown' = shown /\ \A y \in Types : y # "srr" => shown[y] <= count[y]
      BY <1>1, <2>3 DEF Ledger, Shows
    <3>2. \A y \in Types : shown[y] \in Nat
      BY <1>2
    <3>3. ASSUME NEW y \in Types, y # "srr"  PROVE shown[y] <= c1[y]
      BY <1>4, <3>1, <3>2, <3>3
    <3> QED  BY <1>2, <3>1, <3>3
  <2> QED  BY <2>2, <2>3
<1>6. ASSUME Hold = "LIVE"
      PROVE  /\ live'.counts = count
             /\ live'.pc \in {"idle", "waiting", "timed out", "answered"}
             /\ live' \in [pc : {"idle", "waiting", "timed out", "answered"}, counts : [Types -> Nat]]
             /\ \A y \in Types : seen.beforeLive[y] <= count[y]
             /\ live'.pc # "idle"
  <2>1. \A y \in Types : seen.beforeLive[y] <= count[y]
    BY <1>6 DEF Ledger, Ordered, Covers
  <2>2. live.pc # "idle"
    BY <1>6 DEF Ledger, Ordered, Absent
  <2> QED  BY <1>1, <1>2, <1>6, <2>1, <2>2 DEF Answered
<1>7. Hold # "LIVE" => live' = live
  BY <1>1 DEF Answered
<1>8. ProcType'
  BY <1>1, <1>2, <1>3, <1>4, <1>5, <1>6, <1>7 DEF Ledger, ProcType
<1>9. Shows'
  <2> SUFFICES ASSUME NEW y \in Types, live'.pc = "answered"
               PROVE  seen.beforeLive[y] <= live'.counts[y] /\ live'.counts[y] <= c1[y]
    BY <1>1, <1>3, <1>5 DEF Shows
  <2>1. CASE Hold = "LIVE"
    BY <1>4, <1>6, <2>1
  <2>2. CASE Hold # "LIVE"
    <3>1. seen.beforeLive[y] <= live.counts[y] /\ live.counts[y] <= count[y]
      BY <1>7, <2>2 DEF Ledger, Shows
    <3>2. live.counts[y] \in Nat
      BY <1>2
    <3> QED  BY <1>4, <1>7, <2>2, <3>1, <3>2
  <2> QED  BY <2>1, <2>2
<1>10. live'.pc = "idle" => live.pc = "idle"
  BY <1>6, <1>7
<1>11. CASE Hold = "QUIT"
  <2>1. c1 = count
    BY <1>4, <1>11, NotAType
  <2>2. call' = call
    BY <1>1, <1>11 DEF Dispatch
  <2>3. Roles' /\ UNCHANGED ledger
    BY <1>1, <2>2 DEF Roles, ledger, Q, Hold, Sends
  <2>4. Balance' /\ Ordered'
    BY <1>1, <1>3, <1>10, <2>1, <2>3 DEF Ledger, Balance, Ordered, ledger
  <2>5. CountedBeforeEnd'
    BY <1>1, <1>3, <1>11, <2>1 DEF Ledger, Ordered, Covers, CountedBeforeEnd
  <2> QED  BY <1>8, <1>9, <2>3, <2>4, <2>5 DEF Ledger
<1>12. CASE Hold # "QUIT"
  <2>1. /\ Roles' /\ Q' = Q /\ Hold' = None
        /\ Sends("diameter")' = Sends("diameter") /\ Sends("oss")' = Sends("oss")
        /\ Sends("main")' = Sends("main")
    BY <1>12, DispatchCalls
  <2>2. Balanced(seen.passed, c1, None, Q, Sends("diameter"))
    BY <1>2, CountBalanced DEF Ledger, Balance, c1
  <2>3. "LIVE" \notin Types \cup {None} /\ "QUIT" \notin Types \cup {None}
    BY NotAType DEF None
  <2>4. Covers(seen.beforeLive, "LIVE", c1, None, Q, Sends("oss"))
    BY <1>2, <2>3, CountCovers DEF Ledger, Ordered, c1
  <2>5. Covers(seen.beforeQuit, "QUIT", c1, None, Q, Sends("main"))
    BY <1>2, <2>3, CountCovers DEF Ledger, Ordered, c1
  <2>6. /\ live'.pc = "idle" => Absent("LIVE", None, Q, Sends("oss"))
        /\ main \in BeforeQuit => Absent("QUIT", None, Q, Sends("main"))
    BY <1>10, <2>3 DEF Ledger, Ordered, Absent
  <2>7. Balance' /\ Ordered'
    BY <1>1, <1>3, <2>1, <2>2, <2>4, <2>5, <2>6 DEF Balance, Ordered
  <2>8. CountedBeforeEnd'
    BY <1>1, <1>12 DEF CountedBeforeEnd
  <2> QED  BY <1>8, <1>9, <2>1, <2>7, <2>8 DEF Ledger
<1> QED  BY <1>11, <1>12

-----------------------------------------------------------------------------
(* The process.                                                              *)

LEMMA InitHolds == Init => IInv
<1> SUFFICES ASSUME Init  PROVE IInv
  OBVIOUS
<1>1. QueueInv(Messages)
  BY QueueInit DEF Init
<1>2. \A t \in Threads : call[t].op = None /\ call[t].msg = None
  BY DEF Init, InitQueue, Returned
<1>3. /\ Q = <<>> /\ Hold = None /\ Sends("diameter") = None
      /\ Sends("oss") = None /\ Sends("main") = None
  BY <1>2, Members DEF Init, InitQueue, Q, Hold, Sends, Sending, None
<1>4. Roles
  BY <1>2 DEF Roles, Role
<1>5. ProcType /\ Shows /\ CountedBeforeEnd
  BY DEF Init, Zero, ProcType, Shows, CountedBeforeEnd, None
<1>6. Balance
  <2> SUFFICES ASSUME NEW y \in Types
               PROVE  seen.passed[y] = Reach(count, None, <<>>, Len(<<>>), y) + One(None = y)
    BY <1>3 DEF Balance, Balanced
  <2>1. Len(<<>>) = 0 /\ Occ(<<>>, 0, y) = 0 /\ One(None = y) = 0
    BY OccZero, NotAType DEF One
  <2>2. seen.passed[y] = 0 /\ count[y] = 0
    BY DEF Init, Zero
  <2>3. Reach(count, None, <<>>, Len(<<>>), y) = 0
    BY <2>1, <2>2 DEF Reach
  <2> QED  BY <2>1, <2>2, <2>3
<1>7. Ordered
  BY <1>3 DEF Ordered, Covers, Absent, None
<1> QED  BY <1>1, <1>4, <1>5, <1>6, <1>7 DEF IInv, Ledger

(* Every step of the process uses the queues as their client may.            *)
LEMMA NextUses == Next => [Uses(Messages)]_queueVars
<1> SUFFICES ASSUME Next  PROVE [Uses(Messages)]_queueVars
  OBVIOUS
<1> USE Members
<1>1. ASSUME NEW t \in Threads, QueueStep(t)  PROVE Uses(Messages)
  BY <1>1 DEF Uses
<1>2. ASSUME NEW t \in Threads \ {Timer}, NEW q \in Queues, NEW m \in Messages,
             BeginPush(t, q, m), UNCHANGED <<items, sem, owner, host, stolen>>
      PROVE  Uses(Messages)
  BY <1>2 DEF Uses
<1>3. ASSUME NEW t \in Threads \ {Timer}, NEW q \in Queues, NEW w \in BOOLEAN,
             BeginPop(t, q, w), UNCHANGED <<items, sem, owner, host, stolen>>
      PROVE  Uses(Messages)
  BY <1>3 DEF Uses
<1>4. CASE \E t \in Threads : Fire(t)
  BY <1>4 DEF Fire, Uses, Messages
<1>5. CASE PostInit
  BY <1>2, <1>5 DEF PostInit, Messages
<1>6. CASE QuitStats
  <2>1. CASE thread = "running"
    BY <1>2, <1>6, <2>1 DEF QuitStats, Messages
  <2>2. CASE thread # "running"
    BY <1>6, <2>2 DEF QuitStats, queueVars
  <2> QED  BY <2>1, <2>2
<1>7. CASE Drain
  BY <1>3, <1>7 DEF Drain
<1>8. CASE GetWork
  BY <1>3, <1>8 DEF GetWork
<1>9. CASE AddWork
  BY <1>2, <1>9 DEF AddWork, Messages
<1>10. CASE AskLive
  BY <1>2, <1>10 DEF AskLive, Messages
<1>11. CASE \E y \in Types : Pass(y)
  BY <1>2, <1>11 DEF Pass, Messages
<1>12. CASE Dispatch
  <2>1. UNCHANGED <<items, sem, owner, host, stolen>>
    BY <1>12 DEF Dispatch
  <2>2. \/ BeginPush("stats", "stats", "CONSOLIDATE") \/ UNCHANGED call
        \/ BeginPop("stats", "stats", TRUE)
    BY <1>12 DEF Dispatch
  <2>3. "CONSOLIDATE" \in Messages /\ TRUE \in BOOLEAN
    BY DEF Messages
  <2> QED  BY <1>2, <1>3, <2>1, <2>2, <2>3 DEF queueVars
<1>13. CASE StartEngine \/ StartRest \/ CreateStats \/ AwaitShutdown \/ Shutdown \/ EngineStopped
            \/ Join \/ Drained \/ RunStats \/ LiveTimeout \/ Signal
  BY <1>13 DEF StartEngine, StartRest, CreateStats, AwaitShutdown, Shutdown, EngineStopped, Join,
               Drained, RunStats, LiveTimeout, Signal
<1> QED  BY <1>1, <1>4, <1>5, <1>6, <1>7, <1>8, <1>9, <1>10, <1>11, <1>12, <1>13
         DEF Next, Run, Environment, Main

LEMMA NextHolds == IInv /\ [Next]_vars => IInv'
<1> SUFFICES ASSUME IInv, [Next]_vars  PROVE IInv'
  OBVIOUS
<1> USE DEF IInv
<1>1. QueueInv(Messages)'
  <2>1. [Uses(Messages)]_queueVars
    BY NextUses DEF vars
  <2> QED  BY <2>1, QueueNext
<1> SUFFICES Roles' /\ Ledger'
  BY <1>1
<1>2. ASSUME UNCHANGED queueVars  PROVE Roles' /\ UNCHANGED ledger
  BY <1>2 DEF queueVars, Roles, ledger, Q, Hold, Sends
<1>3. ASSUME NEW t \in Threads, QueueStep(t), UNCHANGED procVars  PROVE Roles' /\ Ledger'
  BY <1>3, QueueStepKeeps
<1>4. ASSUME NEW t \in Threads, Fire(t)  PROVE Roles' /\ Ledger'
  <2> DEFINE c == [op |-> "push", q |-> "stats", pc |-> "lock", msg |-> "TIMER"]
  <2>1. /\ call' = [call EXCEPT ![Timer] = c] /\ host = None
        /\ UNCHANGED <<items, main, thread, count, shown, live, seen>>
    BY <1>4 DEF Fire, Interrupt
  <2>2. call[Timer].op = None
    BY <2>1 DEF QueueInv, QueueType
  <2>3. Role(Timer, c)
    BY NotAType, ProcessAssumption DEF Role
  <2>4. Timer \in Threads \ {"stats"} /\ Timer \notin {"diameter", "oss", "main"}
    BY ProcessAssumption
  <2> HIDE DEF c
  <2>5. Roles' /\ UNCHANGED ledger
    BY <2>1, <2>2, <2>3, <2>4, BeginSame
  <2> QED  BY <2>1, <2>5, LedgerSame
<1>5. CASE QuitStats
  <2>1. CASE thread = "running"
    BY <1>5, <2>1, QuitStatsKeeps
  <2>2. CASE thread # "running"
    <3>1. /\ UNCHANGED <<queueVars, thread, count, shown, live, seen>> /\ main' = "complete"
      BY <1>5, <2>2 DEF QuitStats, queueVars, Go
    <3> QED  BY <1>2, <3>1, LedgerSame DEF BeforeQuit
  <2> QED  BY <2>1, <2>2
<1>6. CASE Drain
  <2> DEFINE c == [op |-> "pop", q |-> "work", msg |-> None, pc |-> "test"]
  <2>1. /\ call' = [call EXCEPT !["main"] = c] /\ call["main"].op = None
        /\ UNCHANGED <<items, thread, count, shown, live, seen>> /\ main' = "drained"
    BY <1>6 DEF Drain, BeginPop, Idle, Go
  <2>2. Role("main", c) /\ Sending(c) = None
    BY DEF Role, Sending
  <2>3. "main" \in Threads \ {"stats"}
    BY Members
  <2> HIDE DEF c
  <2>4. Roles' /\ UNCHANGED ledger
    BY <2>1, <2>2, <2>3, BeginSame
  <2> QED  BY <2>1, <2>4, LedgerSame DEF BeforeQuit
<1>7. CASE GetWork
  <2> DEFINE c == [op |-> "pop", q |-> "work", msg |-> None, pc |-> "wait"]
  <2>1. /\ call' = [call EXCEPT !["worker"] = c] /\ call["worker"].op = None
        /\ UNCHANGED <<items, main, thread, count, shown, live, seen>>
    BY <1>7 DEF GetWork, BeginPop, Idle, procVars
  <2>2. Role("worker", c)
    BY DEF Role
  <2>3. "worker" \in Threads \ {"stats"}
    BY Members
  <2> HIDE DEF c
  <2>4. Roles' /\ UNCHANGED ledger
    BY <2>1, <2>2, <2>3, BeginSame
  <2> QED  BY <2>1, <2>4, LedgerSame
<1>8. CASE AddWork
  <2> DEFINE c == [op |-> "push", q |-> "work", pc |-> "lock", msg |-> "work"]
  <2>1. /\ call' = [call EXCEPT !["db"] = c] /\ call["db"].op = None
        /\ UNCHANGED <<items, main, thread, count, shown, live, seen>>
    BY <1>8 DEF AddWork, BeginPush, Idle
  <2>2. Role("db", c)
    BY DEF Role
  <2>3. "db" \in Threads \ {"stats"}
    BY Members
  <2> HIDE DEF c
  <2>4. Roles' /\ UNCHANGED ledger
    BY <2>1, <2>2, <2>3, BeginSame
  <2> QED  BY <2>1, <2>4, LedgerSame
<1>9. CASE LiveTimeout
  <2>1. /\ UNCHANGED <<queueVars, main, thread, count, shown, seen>> /\ live.pc = "waiting"
        /\ live' = [live EXCEPT !.pc = "timed out"]
    BY <1>9 DEF LiveTimeout
  <2>2. Roles' /\ UNCHANGED ledger
    BY <1>2, <2>1
  <2>3. live'.pc = "timed out" /\ ProcType'
    BY <2>1 DEF Ledger, ProcType
  <2>4. Balance' /\ Ordered'
    BY <2>1, <2>2, <2>3 DEF Ledger, Balance, Ordered, ledger
  <2>5. Shows' /\ CountedBeforeEnd'
    BY <2>1, <2>3 DEF Ledger, Shows, CountedBeforeEnd
  <2> QED  BY <2>2, <2>3, <2>4, <2>5 DEF Ledger
<1>10. CASE StartEngine \/ StartRest \/ CreateStats \/ AwaitShutdown \/ Shutdown \/ EngineStopped
            \/ Join \/ Drained \/ RunStats \/ Signal \/ UNCHANGED vars
  <2>1. /\ UNCHANGED <<queueVars, count, shown, live, seen>>
        /\ thread' = "done" => thread = "done"
        /\ main' \in BeforeQuit => main \in BeforeQuit
    BY <1>10 DEF StartEngine, StartRest, CreateStats, AwaitShutdown, Shutdown, EngineStopped, Join,
                 Drained, RunStats, Signal, vars, procVars, BeforeQuit, Go, MainIs
  <2> QED  BY <1>2, <2>1, LedgerSame
<1> QED  BY <1>3, <1>4, <1>5, <1>6, <1>7, <1>8, <1>9, <1>10, PostInitKeeps, DispatchKeeps,
            PassKeeps, AskLiveKeeps
         DEF Next, Run, Environment, Main

(* The inductive invariant holds of every behaviour of the process.          *)
THEOREM Invariance == Spec => []IInv
<1> QED  BY InitHolds, NextHolds, PTL DEF Spec

(* In the process as in any client, the semaphores of the workers' queue and *)
(* of the statistics' count their messages: SQueue::pop finds one.           *)
THEOREM TokensMatchHolds == Spec => []TokensMatch
<1>1. IInv => TokensMatch
  BY DEF IInv, QueueInv
<1> QED  BY <1>1, Invariance, PTL

(* The destructor of a queue waits only for a message that another thread    *)
(* took between its test and its wait.                                       *)
THEOREM BlocksOnlyWhenRacedHolds == Spec => []BlocksOnlyWhenRaced
<1>1. IInv => BlocksOnlyWhenRaced
  BY DEF IInv, QueueInv
<1> QED  BY <1>1, Invariance, PTL

(* The live counts and the reports are right, whatever passes meanwhile.     *)
THEOREM ShownCountsHolds == Spec => []ShownCounts
<1>1. ASSUME IInv  PROVE ShownCounts
  <2>1. ASSUME NEW y \in Types
        PROVE  count[y] <= seen.passed[y] /\ count[y] \in Nat /\ seen.passed[y] \in Nat
    <3>1. /\ count \in [Types -> Nat] /\ seen.passed \in [Types -> Nat] /\ Q \in Seq(Messages)
      BY <1>1, StatsQueue DEF IInv, Ledger, ProcType
    <3>2. seen.passed[y] = count[y] + One(Hold = y) + Occ(Q, Len(Q), y)
                              + One(Sends("diameter") = y)
      BY <1>1 DEF IInv, Ledger, Balance, Balanced, Reach
    <3>3. Occ(Q, Len(Q), y) \in Nat
      BY <3>1, LenProperties, OccFinite
    <3>4. PICK i \in Nat, j \in Nat, k \in Nat, n \in Nat :
             /\ i = One(Hold = y) /\ j = One(Sends("diameter") = y)
             /\ k = Occ(Q, Len(Q), y) /\ n = count[y]
      BY <3>1, <3>3, OneValue
    <3>5. n <= n + i + k + j
      OBVIOUS
    <3> QED  BY <3>1, <3>2, <3>4, <3>5
  <2>2. ASSUME live.pc = "answered", NEW y \in Types
        PROVE  seen.beforeLive[y] <= live.counts[y] /\ live.counts[y] <= seen.passed[y]
    <3>1. seen.beforeLive[y] <= live.counts[y] /\ live.counts[y] <= count[y]
      BY <1>1, <2>2 DEF IInv, Ledger, Shows
    <3>2. live.counts[y] \in Nat
      BY <1>1 DEF IInv, Ledger, ProcType
    <3> QED  BY <2>1, <3>1, <3>2
  <2>3. \A y \in Types \ {"srr"} : shown[y] <= count[y] /\ count[y] <= seen.passed[y]
    BY <1>1, <2>1 DEF IInv, Ledger, Shows
  <2> QED  BY <2>2, <2>3 DEF ShownCounts
<1> QED  BY <1>1, Invariance, PTL

(* What was registered before the statistics thread was told to quit is      *)
(* counted when it ends.                                                     *)
THEOREM CountedBeforeEndHolds == Spec => []CountedBeforeEnd
<1>1. IInv => CountedBeforeEnd
  BY DEF IInv, Ledger
<1> QED  BY <1>1, Invariance, PTL
=============================================================================
