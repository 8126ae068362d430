----------------------- MODULE DiameterMessage_proofs -----------------------
(***************************************************************************)
(* Proofs about DiameterMessage, for any set of its applications, for      *)
(* messages of any depth and for any conversions to and from JSON: what    *)
(* the lazy extractors find, whatever the order they are asked in, and who *)
(* frees the message.                                                      *)
(***************************************************************************)
EXTENDS DiameterMessage, SequenceFacts

(* The AVPs that some extractor of an application registers.                *)
Registered(a) == UNION {Tables[a].members[c] : c \in DOMAIN Tables[a].members}

(* The names an AVP or a command may have.                                  *)
Names == {"UpdateLocationAnswer", "SubscriptionData"}
         \cup UNION {Roots[a] \cup Registered(a) : a \in DOMAIN Tables}

(* A message that its reader still has.                                     *)
Held == phase \in {"read", "stored"}

MessageOK ==
    /\ app \in DOMAIN Tables /\ path \in Seq(Names) /\ path # <<>>
    /\ phase \in {"compose", "read", "stored", "sent", "expanded"}
    /\ Held => Depth >= 2 /\ at \in 1..(Depth - 1) /\ kids \in Spines \cup WithSide

Extractors(n) == [done : SUBSET (1..n), ref : [1..n -> {"none", "spine", "twin"}],
                  list : [1..n -> Seq({"spine", "twin"})], side : BOOLEAN,
                  threw : BOOLEAN]

(* The extractors of a message of n levels: one is resolved only when its   *)
(* AVP was found, nothing is found below one that is not resolved, and      *)
(* below an AVP that was not found nothing was.                             *)
ExtOK(e, n) ==
    /\ e \in Extractors(n) /\ e.ref[1] = "spine"
    /\ \A i \in e.done : e.ref[i] # "none"
    /\ \A i \in 2..n : i - 1 \notin e.done => e.ref[i] = "none" /\ e.list[i] = <<>>
    /\ \A i, j \in 1..n : i < j /\ e.ref[i] = "none" => e.ref[j] = "none" /\ e.list[j] = <<>>

(* Nothing is left to find out about the children of level i: it is         *)
(* resolved, or a level above it is and did not have the AVP below.         *)
Settled(e, i) ==
    i \in e.done \/ \E k \in 1..(i - 1) : k \in e.done /\ e.ref[k + 1] = "none"

HasSide == \E k \in DOMAIN kids : kids[k] = "side"

(* What a resolved level found of a message that respects the grammar.      *)
Right(e) ==
    Singles =>
        /\ ~e.threw
        /\ \A i \in 1..Depth : e.ref[i] # "twin"
        /\ \A i \in 2..Depth : i - 1 \in e.done /\ IsRegistered(i) =>
              e.ref[i] = "spine" /\ (IsMany(i) => e.list[i] = Occurrences(Kids(i - 1)))
        /\ at \in e.done /\ HasSide => e.side

AskedOK(e, as) ==
    /\ as \subseteq 0..Depth
    /\ \A j \in as \ {0} : /\ j >= 2 /\ Settled(e, j - 1)
                           /\ \A k \in 2..j : IsRegistered(k)
    /\ 0 \in as /\ Singles => e.side

Lives == [owner : {"none", "linked", "wrapper", "stack", "freed"}, reqdel : {FALSE},
          ansdel : BOOLEAN, req : BOOLEAN, frees : Nat]

(* Who is to free the message, by the phase; the request object never is.   *)
LifeOK ==
    /\ life \in Lives
    /\ phase \in {"compose", "expanded"} => life.owner = "none"
    /\ phase = "read" =>
          /\ life.frees = 0
          /\ path[1] \in Handled => life.owner = "linked"
          /\ path[1] \notin Handled => life.owner = "wrapper" /\ life.ansdel
    /\ phase = "sent" =>
          (life.owner = "stack" /\ life.frees = 0) \/ (life.owner = "freed" /\ life.frees = 1)

IInv ==
    /\ MessageOK /\ LifeOK
    /\ Held => ExtOK(ext, Depth) /\ Right(ext) /\ AskedOK(ext, asked)
-----------------------------------------------------------------------------
(* The message.                                                             *)

(* Whatever a sender nests has a name of the grammars.                      *)
LEMMA MembersNamed ==
  ASSUME NEW a \in DOMAIN Tables, NEW c
  PROVE  Members(a, c) \subseteq Names /\ Roots[a] \subseteq Names
<1>1. Roots[a] \subseteq Names /\ Registered(a) \subseteq Names
  BY DEF Names
<1>2. c \in DOMAIN Tables[a].members => Tables[a].members[c] \subseteq Registered(a)
  BY DEF Registered
<1> QED  BY <1>1, <1>2 DEF Members

LEMMA S6aIs == "S6a" \in DOMAIN Tables
  BY DEF Tables

LEMMA DepthNat ==
  ASSUME MessageOK
  PROVE  Depth \in Nat /\ Depth >= 1
  BY EmptySeq, LenProperties DEF MessageOK, Depth

(* The children of the levels of a message.                                 *)
LEMMA KidsAre ==
  ASSUME MessageOK, Held, NEW i \in 1..Depth
  PROVE  /\ i = Depth => Kids(i) = <<>>
         /\ i # Depth => Kids(i) \in Spines \cup WithSide
         /\ i # Depth /\ i # at => Kids(i) = <<"spine">>
         /\ i = at => i # Depth /\ Kids(i) = kids
<1>1. Depth \in Nat /\ at \in 1..(Depth - 1) /\ kids \in Spines \cup WithSide
  BY DepthNat DEF MessageOK
<1>2. <<"spine">> \in Spines
  BY DEF Spines
<1> QED  BY <1>1, <1>2 DEF Kids

-----------------------------------------------------------------------------
(* The loop over the children.                                              *)

(* What satisfies the recursion of SeeAll is what it denotes.               *)
LEMMA SeeAllIs ==
  ASSUME NEW e, NEW i, NEW toks, NEW n \in Nat, Len(toks) = n, NEW g,
         g = [k \in 0..n |-> IF k = 0 THEN e ELSE See(g[k - 1], i, toks[k])]
  PROVE  SeeAll(e, i, toks) = g[n]
<1> DEFINE After(f) == f = [k \in 0..n |-> IF k = 0 THEN e ELSE See(f[k - 1], i, toks[k])]
<1>1. SeeAll(e, i, toks) = (CHOOSE f : After(f))[n]
  BY DEF SeeAll
<1>2. After(g)
  OBVIOUS
<1>3. \A f : After(f) => f[n] = g[n]
  <2> SUFFICES ASSUME NEW f, After(f), f[n] # g[n]  PROVE FALSE
    OBVIOUS
  <2> DEFINE T == {k \in 0..n : f[k] # g[k]}
  <2>1. T \in SUBSET Nat /\ n \in T
    OBVIOUS
  <2>2. PICK x \in T : \A y \in T : x <= y
    BY <2>1, LeastNat
  <2>3. x # 0
    OBVIOUS
  <2>4. x - 1 \in 0..n /\ f[x - 1] = g[x - 1]
    BY <2>2, <2>3
  <2>5. f[x] = See(f[x - 1], i, toks[x]) /\ g[x] = See(g[x - 1], i, toks[x])
    BY <2>3
  <2> QED  BY <2>4, <2>5
<1>4. After(CHOOSE f : After(f))
  <2> HIDE DEF After
  <2> QED  BY <1>2
<1> QED  BY <1>1, <1>3, <1>4

LEMMA SeeNone == ASSUME NEW e, NEW i  PROVE SeeAll(e, i, <<>>) = e
<1> DEFINE g == [k \in 0..0 |-> e]
<1>1. g = [k \in 0..0 |-> IF k = 0 THEN e ELSE See(g[k - 1], i, <<>>[k])]
  OBVIOUS
<1>2. Len(<<>>) = 0 /\ g[0] = e
  OBVIOUS
<1> HIDE DEF g
<1> QED  BY <1>1, <1>2, SeeAllIs

LEMMA SeeOne ==
  ASSUME NEW e, NEW i, NEW a
  PROVE  SeeAll(e, i, <<a>>) = See(e, i, a)
<1> DEFINE e1 == See(e, i, a)
           toks == <<a>>
           g == [k \in 0..1 |-> IF k = 0 THEN e ELSE e1]
<1>1. Len(toks) = 1 /\ toks[1] = a
  OBVIOUS
<1>2. g[0] = e /\ g[1] = e1
  OBVIOUS
<1>3. g = [k \in 0..1 |-> IF k = 0 THEN e ELSE See(g[k - 1], i, toks[k])]
  <2>1. \A k \in 0..1 : k = 0 \/ k = 1
    OBVIOUS
  <2>2. 1 - 1 = 0
    OBVIOUS
  <2> HIDE DEF toks, e1
  <2>3. e1 = See(g[1 - 1], i, toks[1])
    BY <1>1, <1>2, <2>2 DEF e1
  <2> QED  BY <2>1, <2>3
<1>4. PICK n \in Nat : n = 1
  OBVIOUS
<1> HIDE DEF g, toks, e1
<1>5. g = [k \in 0..n |-> IF k = 0 THEN e ELSE See(g[k - 1], i, toks[k])]
  BY <1>3, <1>4
<1>6. Len(toks) = n /\ g[n] = e1
  BY <1>1, <1>2, <1>4
<1>7. SeeAll(e, i, toks) = g[n]
  <2>1. Len(toks) = n
    BY <1>6
  <2> QED  BY <1>5, <2>1, SeeAllIs, SMT
<1> QED  BY <1>6, <1>7 DEF toks, e1

LEMMA SeeTwo ==
  ASSUME NEW e, NEW i, NEW a, NEW b
  PROVE  SeeAll(e, i, <<a, b>>) = See(See(e, i, a), i, b)
<1> DEFINE e1 == See(e, i, a)
           e2 == See(e1, i, b)
           toks == <<a, b>>
           g == [k \in 0..2 |-> IF k = 0 THEN e ELSE IF k = 1 THEN e1 ELSE e2]
<1>1. Len(toks) = 2 /\ toks[1] = a /\ toks[2] = b
  OBVIOUS
<1>2. g[0] = e /\ g[1] = e1 /\ g[2] = e2
  OBVIOUS
<1>3. g = [k \in 0..2 |-> IF k = 0 THEN e ELSE See(g[k - 1], i, toks[k])]
  <2>1. \A k \in 0..2 : k = 0 \/ k = 1 \/ k = 2
    OBVIOUS
  <2>2. 1 - 1 = 0 /\ 2 - 1 = 1
    OBVIOUS
  <2> HIDE DEF toks, e1, e2
  <2>3. e1 = See(g[1 - 1], i, toks[1]) /\ e2 = See(g[2 - 1], i, toks[2])
    BY <1>1, <1>2, <2>2 DEF e1, e2
  <2> QED  BY <2>1, <2>3
<1>4. PICK n \in Nat : n = 2
  OBVIOUS
<1> HIDE DEF g, toks, e1, e2
<1>5. g = [k \in 0..n |-> IF k = 0 THEN e ELSE See(g[k - 1], i, toks[k])]
  BY <1>3, <1>4
<1>6. Len(toks) = n /\ g[n] = e2
  BY <1>1, <1>2, <1>4
<1>7. SeeAll(e, i, toks) = g[n]
  <2>1. Len(toks) = n
    BY <1>6
  <2> QED  BY <1>5, <2>1, SeeAllIs, SMT
<1> QED  BY <1>6, <1>7 DEF toks, e1, e2

LEMMA SeeThree ==
  ASSUME NEW e, NEW i, NEW a, NEW b, NEW c
  PROVE  SeeAll(e, i, <<a, b, c>>) = See(See(See(e, i, a), i, b), i, c)
<1> DEFINE e1 == See(e, i, a)
           e2 == See(e1, i, b)
           e3 == See(e2, i, c)
           toks == <<a, b, c>>
           g == [k \in 0..3 |-> IF k = 0 THEN e ELSE IF k = 1 THEN e1
                                ELSE IF k = 2 THEN e2 ELSE e3]
<1>1. Len(toks) = 3 /\ toks[1] = a /\ toks[2] = b /\ toks[3] = c
  OBVIOUS
<1>2. g[0] = e /\ g[1] = e1 /\ g[2] = e2 /\ g[3] = e3
  OBVIOUS
<1>3. g = [k \in 0..3 |-> IF k = 0 THEN e ELSE See(g[k - 1], i, toks[k])]
  <2>1. \A k \in 0..3 : k = 0 \/ k = 1 \/ k = 2 \/ k = 3
    OBVIOUS
  <2>2. 1 - 1 = 0 /\ 2 - 1 = 1 /\ 3 - 1 = 2
    OBVIOUS
  <2> HIDE DEF toks, e1, e2, e3
  <2>3. /\ e1 = See(g[1 - 1], i, toks[1]) /\ e2 = See(g[2 - 1], i, toks[2])
        /\ e3 = See(g[3 - 1], i, toks[3])
    BY <1>1, <1>2, <2>2 DEF e1, e2, e3
  <2> QED  BY <2>1, <2>3
<1>4. PICK n \in Nat : n = 3
  OBVIOUS
<1> HIDE DEF g, toks, e1, e2, e3
<1>5. g = [k \in 0..n |-> IF k = 0 THEN e ELSE See(g[k - 1], i, toks[k])]
  BY <1>3, <1>4
<1>6. Len(toks) = n /\ g[n] = e3
  BY <1>1, <1>2, <1>4
<1>7. SeeAll(e, i, toks) = g[n]
  <2>1. Len(toks) = n
    BY <1>6
  <2> QED  BY <1>5, <2>1, SeeAllIs, SMT
<1> QED  BY <1>6, <1>7 DEF toks, e1, e2, e3

(* The occurrences in the shapes that the children of a level have.         *)
Part(t) == IF t \in {"spine", "twin"} THEN <<t>> ELSE <<>>

LEMMA OccurrencesIs ==
  ASSUME NEW toks, NEW n \in 1..3, Len(toks) = n, DOMAIN toks = 1..n, NEW g,
         \A k \in 1..n : g[k] = IF k = 1 THEN Part(toks[k]) ELSE g[k - 1] \o Part(toks[k])
  PROVE  Occurrences(toks) = g[n]
<1> DEFINE s == [k \in 1..n |-> Part(toks[k])]
<1>1. Occurrences(toks) = FlattenSeq(s)
  BY DEF Occurrences, Part
<1>2. Len(s) = n /\ n \in Nat /\ n > 0
  OBVIOUS
<1>3. \A k \in 1..n : g[k] = IF k = 1 THEN s[k] ELSE g[k - 1] \o s[k]
  OBVIOUS
<1> HIDE DEF s
<1>4. FlattenSeq(s) = g[n]
  BY <1>2, <1>3, FlattenIs
<1> QED  BY <1>1, <1>4

LEMMA OccurrencesOne ==
  ASSUME NEW a
  PROVE  Occurrences(<<a>>) = Part(a)
<1> DEFINE toks == <<a>>
           g == <<Part(a)>>
<1>1. /\ Len(toks) = 1 /\ DOMAIN toks = 1..1 /\ toks[1] = a
      /\ g[1] = Part(a)
  OBVIOUS
<1>2. (\A k \in 1..1 : k = 1)
  OBVIOUS
<1> HIDE DEF toks, g
<1>3. \A k \in 1..1 : g[k] = IF k = 1 THEN Part(toks[k]) ELSE g[k - 1] \o Part(toks[k])
  BY <1>1, <1>2
<1>4. PICK n \in 1..3 : n = 1
  OBVIOUS
<1>5. /\ Len(toks) = n /\ DOMAIN toks = 1..n
      /\ \A k \in 1..n : g[k] = IF k = 1 THEN Part(toks[k]) ELSE g[k - 1] \o Part(toks[k])
  BY <1>1, <1>3, <1>4
<1>6. Occurrences(toks) = g[n]
  BY <1>5, OccurrencesIs
<1> QED  BY <1>1, <1>4, <1>6 DEF toks

LEMMA OccurrencesTwo ==
  ASSUME NEW a, NEW b
  PROVE  Occurrences(<<a, b>>) = Part(a) \o Part(b)
<1> DEFINE toks == <<a, b>>
           g == <<Part(a), Part(a) \o Part(b)>>
<1>1. /\ Len(toks) = 2 /\ DOMAIN toks = 1..2 /\ toks[1] = a /\ toks[2] = b
      /\ g[1] = Part(a) /\ g[2] = Part(a) \o Part(b)
  OBVIOUS
<1>2. (\A k \in 1..2 : k = 1 \/ k = 2) /\ 2 - 1 = 1
  OBVIOUS
<1> HIDE DEF toks, g
<1>3. \A k \in 1..2 : g[k] = IF k = 1 THEN Part(toks[k]) ELSE g[k - 1] \o Part(toks[k])
  BY <1>1, <1>2
<1>4. PICK n \in 1..3 : n = 2
  OBVIOUS
<1>5. /\ Len(toks) = n /\ DOMAIN toks = 1..n
      /\ \A k \in 1..n : g[k] = IF k = 1 THEN Part(toks[k]) ELSE g[k - 1] \o Part(toks[k])
  BY <1>1, <1>3, <1>4
<1>6. Occurrences(toks) = g[n]
  BY <1>5, OccurrencesIs
<1> QED  BY <1>1, <1>4, <1>6 DEF toks

LEMMA OccurrencesThree ==
  ASSUME NEW a, NEW b, NEW c
  PROVE  Occurrences(<<a, b, c>>) = (Part(a) \o Part(b)) \o Part(c)
<1> DEFINE toks == <<a, b, c>>
           g == <<Part(a), Part(a) \o Part(b), (Part(a) \o Part(b)) \o Part(c)>>
<1>1. /\ Len(toks) = 3 /\ DOMAIN toks = 1..3 /\ toks[1] = a /\ toks[2] = b /\ toks[3] = c
      /\ g[1] = Part(a) /\ g[2] = Part(a) \o Part(b) /\ g[3] = (Part(a) \o Part(b)) \o Part(c)
  OBVIOUS
<1>2. (\A k \in 1..3 : k = 1 \/ k = 2 \/ k = 3) /\ 2 - 1 = 1 /\ 3 - 1 = 2
  OBVIOUS
<1> HIDE DEF toks, g
<1>3. \A k \in 1..3 : g[k] = IF k = 1 THEN Part(toks[k]) ELSE g[k - 1] \o Part(toks[k])
  BY <1>1, <1>2
<1>4. PICK n \in 1..3 : n = 3
  OBVIOUS
<1>5. /\ Len(toks) = n /\ DOMAIN toks = 1..n
      /\ \A k \in 1..n : g[k] = IF k = 1 THEN Part(toks[k]) ELSE g[k - 1] \o Part(toks[k])
  BY <1>1, <1>3, <1>4
<1>6. Occurrences(toks) = g[n]
  BY <1>5, OccurrencesIs
<1> QED  BY <1>1, <1>4, <1>6 DEF toks

LEMMA Appended ==
  ASSUME NEW x, NEW y
  PROVE  Append(<<>>, x) = <<x>> /\ Append(<<x>>, y) = <<x, y>> /\ <<x>> \o <<y>> = <<x, y>>
<1> DEFINE S == {x, y}
<1>1. <<>> \in Seq(S) /\ <<x>> \in Seq(S) /\ <<x, y>> \in Seq(S) /\ x \in S /\ y \in S
  OBVIOUS
<1>2. Append(<<>>, x) = <<x>>
  OBVIOUS
<1>3. Append(<<x>>, y) = <<x, y>>
  <2> DEFINE p == Append(<<x>>, y)
             q == <<x, y>>
  <2>1. p \in Seq(S) /\ Len(p) = 2 /\ p[1] = x /\ p[2] = y
    BY <1>1, AppendProperties
  <2>2. q \in Seq(S) /\ Len(q) = 2 /\ q[1] = x /\ q[2] = y
    BY <1>1
  <2> HIDE DEF p, q, S
  <2>3. \A i \in 1..Len(p) : p[i] = q[i]
    BY <2>1, <2>2
  <2>4. p = q
    BY <2>1, <2>2, <2>3, SeqEqual
  <2> QED  BY <2>4 DEF p, q
<1>4. <<x>> \o <<y>> = Append(<<x>>, y)
  BY <1>1, AppendIsConcat
<1> QED  BY <1>2, <1>3, <1>4

(* The occurrences in each of the shapes.                                   *)
LEMMA OccurrencesOf ==
  /\ Occurrences(<<"spine">>) = <<"spine">>
  /\ Occurrences(<<"stray", "spine">>) = <<"spine">>
  /\ Occurrences(<<"spine", "twin">>) = <<"spine", "twin">>
  /\ Occurrences(<<"twin", "spine">>) = <<"twin", "spine">>
  /\ Occurrences(<<"spine", "side">>) = <<"spine">>
  /\ Occurrences(<<"side", "spine">>) = <<"spine">>
  /\ Occurrences(<<"spine", "twin", "side">>) = <<"spine", "twin">>
<1>1. /\ Part("spine") = <<"spine">> /\ Part("twin") = <<"twin">>
      /\ Part("stray") = <<>> /\ Part("side") = <<>>
  BY DEF Part
<1>2. \A q \in Seq({"spine", "twin"}) : <<>> \o q = q /\ q \o <<>> = q
  BY ConcatEmptySeq
<1>3. <<"spine">> \in Seq({"spine", "twin"}) /\ <<"spine", "twin">> \in Seq({"spine", "twin"})
  OBVIOUS
<1>4. Occurrences(<<"spine">>) = <<"spine">>
  BY <1>1, OccurrencesOne
<1>5. Occurrences(<<"stray", "spine">>) = <<"spine">>
  BY <1>1, <1>2, <1>3, OccurrencesTwo
<1>6. Occurrences(<<"spine", "twin">>) = <<"spine", "twin">>
  BY <1>1, OccurrencesTwo, Appended
<1>7. Occurrences(<<"twin", "spine">>) = <<"twin", "spine">>
  BY <1>1, OccurrencesTwo, Appended
<1>8. Occurrences(<<"spine", "side">>) = <<"spine">>
  BY <1>1, <1>2, <1>3, OccurrencesTwo
<1>9. Occurrences(<<"side", "spine">>) = <<"spine">>
  BY <1>1, <1>2, <1>3, OccurrencesTwo
<1>10. Occurrences(<<"spine", "twin", "side">>) = <<"spine", "twin">>
  <2>1. <<"spine">> \o <<"twin">> = <<"spine", "twin">>
    BY Appended
  <2>2. Part("spine") \o Part("twin") = <<"spine", "twin">>
    BY <1>1, <2>1
  <2>3. (Part("spine") \o Part("twin")) \o Part("side") = <<"spine", "twin">> \o <<>>
    BY <1>1, <2>2
  <2>4. <<"spine", "twin">> \o <<>> = <<"spine", "twin">>
    BY <1>2, <1>3
  <2>5. Occurrences(<<"spine", "twin", "side">>)
          = (Part("spine") \o Part("twin")) \o Part("side")
    BY OccurrencesThree
  <2> QED  BY <2>3, <2>4, <2>5
<1> QED  BY <1>4, <1>5, <1>6, <1>7, <1>8, <1>9, <1>10

-----------------------------------------------------------------------------
(* One turn of the loop.                                                    *)

(* What the loop over the children of level i leaves alone.                 *)
Beside(e, f, i, n) ==
    /\ f \in Extractors(n) /\ f.done = e.done /\ (e.side => f.side)
    /\ \A j \in 1..n : j # i + 1 => f.ref[j] = e.ref[j] /\ f.list[j] = e.list[j]

Toks == {"stray", "side", "spine", "twin"}

LEMMA SeeAvpBeside ==
  ASSUME NEW n \in Nat, NEW i \in Nat, i + 1 \in 1..n, NEW e \in Extractors(n),
         NEW tok \in {"spine", "twin"}
  PROVE  /\ Beside(e, SeeAvp(e, i + 1, tok), i, n)
         /\ Beside(e, SeeGroup(e, i + 1, tok), i, n)
         /\ Beside(e, SeeMany(e, i + 1, tok), i, n)
<1> DEFINE j == i + 1
<1>1. e.list[j] \in Seq({"spine", "twin"}) /\ e.ref[j] \in {"none", "spine", "twin"}
  BY DEF Extractors
<1>2. Append(e.list[j], tok) \in Seq({"spine", "twin"})
  BY <1>1, AppendProperties
<1> HIDE DEF j
<1>3. j \in 1..n
  BY DEF j
<1>4. Beside(e, SeeAvp(e, j, tok), i, n)
  BY <1>3 DEF Beside, SeeAvp, Extractors, j
<1>5. Beside(e, SeeGroup(e, j, tok), i, n)
  BY <1>3 DEF Beside, SeeGroup, Extractors, j
<1>6. Beside(e, SeeMany(e, j, tok), i, n)
  BY <1>1, <1>2, <1>3 DEF Beside, SeeMany, Extractors, j
<1> QED  BY <1>4, <1>5, <1>6 DEF j

(* One turn of the loop touches level i + 1 and no other.                   *)
LEMMA SeeBeside ==
  ASSUME NEW n \in Nat, NEW i \in Nat, i + 1 \in 1..n, NEW e \in Extractors(n),
         NEW tok \in Toks
  PROVE  Beside(e, See(e, i, tok), i, n)
<1>1. Beside(e, e, i, n)
  BY DEF Beside
<1>2. Beside(e, [e EXCEPT !.side = TRUE], i, n)
  BY DEF Beside, Extractors
<1>3. CASE e.threw \/ tok = "stray"
  BY <1>1, <1>3 DEF See
<1>4. CASE ~e.threw /\ tok = "side"
  BY <1>2, <1>4 DEF See
<1>5. CASE ~e.threw /\ tok \in {"spine", "twin"}
  <2>1. See(e, i, tok) \in {e, SeeAvp(e, i + 1, tok), SeeGroup(e, i + 1, tok),
                            SeeMany(e, i + 1, tok)}
    BY <1>5 DEF See
  <2> QED  BY <1>1, <1>5, <2>1, SeeAvpBeside
<1> QED  BY <1>3, <1>4, <1>5 DEF Toks

LEMMA BesideTrans ==
  ASSUME NEW n \in Nat, NEW i \in Nat, NEW e, NEW f, NEW g, Beside(e, f, i, n), Beside(f, g, i, n)
  PROVE  Beside(e, g, i, n)
  BY DEF Beside

(* The whole loop.                                                          *)
LEMMA SeeAllBeside ==
  ASSUME NEW n \in Nat, NEW i \in Nat, i + 1 \in 1..n, NEW e \in Extractors(n),
         NEW toks \in Spines \cup WithSide \cup {<<>>}
  PROVE  Beside(e, SeeAll(e, i, toks), i, n)
<1>0. Beside(e, e, i, n)
  BY DEF Beside
<1>1. ASSUME NEW a \in Toks, toks = <<a>>
      PROVE  Beside(e, SeeAll(e, i, toks), i, n)
  BY <1>1, SeeOne, SeeBeside
<1>2. ASSUME NEW a \in Toks, NEW b \in Toks, toks = <<a, b>>
      PROVE  Beside(e, SeeAll(e, i, toks), i, n)
  <2>1. Beside(e, See(e, i, a), i, n) /\ See(e, i, a) \in Extractors(n)
    BY SeeBeside DEF Beside
  <2>2. Beside(See(e, i, a), See(See(e, i, a), i, b), i, n)
    BY <2>1, SeeBeside
  <2> QED  BY <1>2, <2>1, <2>2, BesideTrans, SeeTwo
<1>3. ASSUME NEW a \in Toks, NEW b \in Toks, NEW c \in Toks, toks = <<a, b, c>>
      PROVE  Beside(e, SeeAll(e, i, toks), i, n)
  <2> DEFINE f == See(e, i, a)
             g == See(f, i, b)
  <2>1. Beside(e, f, i, n) /\ f \in Extractors(n)
    BY SeeBeside DEF Beside
  <2>2. Beside(f, g, i, n) /\ g \in Extractors(n)
    BY <2>1, SeeBeside DEF Beside
  <2>3. Beside(g, See(g, i, c), i, n)
    BY <2>2, SeeBeside
  <2>4. SeeAll(e, i, toks) = See(g, i, c)
    BY <1>3, SeeThree
  <2> HIDE DEF f, g
  <2> QED  BY <2>1, <2>2, <2>3, <2>4, BesideTrans
<1>4. CASE toks = <<>>
  BY <1>0, <1>4, SeeNone
<1> QED  BY <1>1, <1>2, <1>3, <1>4 DEF Spines, WithSide, Toks

-----------------------------------------------------------------------------
(* The loop over children that respect the grammar.                         *)

(* What level i + 1 of f has: its AVP found or not (s), and its list (l).   *)
Found(f, i, n, s, l) ==
    /\ f \in Extractors(n) /\ ~f.threw
    /\ IsRegistered(i + 1) => f.ref[i + 1] = s /\ (IsMany(i + 1) => f.list[i + 1] = l)
    /\ ~IsRegistered(i + 1) => f.ref[i + 1] = "none"

(* What each kind of child adds to what level i + 1 has.                    *)
LEMMA FoundStray ==
  ASSUME NEW n, NEW i, NEW f, NEW s, NEW l, Found(f, i, n, s, l)
  PROVE  Found(See(f, i, "stray"), i, n, s, l)
  BY DEF See, Found

LEMMA FoundSide ==
  ASSUME NEW n, NEW i, NEW f, NEW s, NEW l, Found(f, i, n, s, l)
  PROVE  Found(See(f, i, "side"), i, n, s, l) /\ See(f, i, "side").side
<1>1. See(f, i, "side") = [f EXCEPT !.side = TRUE]
  BY DEF See, Found
<1> QED  BY <1>1 DEF Found, Extractors

LEMMA FoundSpine ==
  ASSUME NEW n \in Nat, NEW i \in Nat, i + 1 \in 1..n, NEW f, NEW s, NEW l,
         Found(f, i, n, s, l), s = "none" \/ IsMany(i + 1)
  PROVE  Found(See(f, i, "spine"), i, n, "spine", Append(l, "spine"))
<1> DEFINE g == See(f, i, "spine")
<1>0. g \in Extractors(n)
  BY SeeBeside DEF Beside, Found, Toks
<1>1. CASE ~IsRegistered(i + 1)
  BY <1>1 DEF See, Found
<1>2. CASE IsRegistered(i + 1) /\ IsMany(i + 1)
  <2>1. g = SeeMany(f, i + 1, "spine")
    BY <1>2 DEF See, Found
  <2>2. f \in Extractors(n) /\ ~f.threw
    BY DEF Found
  <2>3. g = [f EXCEPT !.list[i + 1] = Append(@, "spine"), !.ref[i + 1] = "spine"]
    BY <2>1 DEF SeeMany
  <2>4. ~g.threw /\ g.ref[i + 1] = "spine" /\ g.list[i + 1] = Append(f.list[i + 1], "spine")
    BY <2>2, <2>3 DEF Extractors
  <2> QED  BY <1>0, <1>2, <2>4 DEF Found
<1>3. CASE IsRegistered(i + 1) /\ ~IsMany(i + 1)
  <2>1. f.ref[i + 1] = "none"
    BY <1>3 DEF Found
  <2>2. g = SeeGroup(f, i + 1, "spine") \/ g = SeeAvp(f, i + 1, "spine")
    BY <1>3 DEF See, Found
  <2>3. ~g.threw /\ g.ref[i + 1] = "spine"
    BY <2>1, <2>2 DEF SeeGroup, SeeAvp, Found, Extractors
  <2> QED  BY <1>0, <1>3, <2>3 DEF Found
<1> QED  BY <1>1, <1>2, <1>3

LEMMA FoundTwin ==
  ASSUME NEW n \in Nat, NEW i \in Nat, i + 1 \in 1..n, NEW f, NEW s, NEW l,
         Found(f, i, n, s, l), IsMany(i + 1)
  PROVE  Found(See(f, i, "twin"), i, n, s, Append(l, "twin"))
<1> DEFINE g == See(f, i, "twin")
<1>0. g \in Extractors(n)
  BY SeeBeside DEF Beside, Found, Toks
<1>1. CASE ~IsRegistered(i + 1)
  BY <1>1 DEF See, Found
<1>2. CASE IsRegistered(i + 1)
  <2>1. g = SeeMany(f, i + 1, "twin")
    BY <1>2 DEF See, Found
  <2>2. /\ ~g.threw /\ g.ref[i + 1] = f.ref[i + 1]
        /\ g.list[i + 1] = Append(f.list[i + 1], "twin")
    BY <2>1 DEF SeeMany, Found, Extractors
  <2> QED  BY <1>0, <1>2, <2>2 DEF Found
<1> QED  BY <1>1, <1>2

Has(toks, t) == \E k \in DOMAIN toks : toks[k] = t

(* Of children that respect the grammar the loop finds the AVP of the       *)
(* spine, every occurrence of a list in order, and the side AVP.            *)
LEMMA LoopRight ==
  ASSUME NEW n \in Nat, NEW i \in Nat, i + 1 \in 1..n, NEW e,
         Found(e, i, n, "none", <<>>), NEW toks \in Spines \cup WithSide,
         Has(toks, "twin") => IsMany(i + 1)
  PROVE  /\ Found(SeeAll(e, i, toks), i, n, "spine", Occurrences(toks))
         /\ Has(toks, "side") => SeeAll(e, i, toks).side
<1>1. CASE toks = <<"spine">>
  <2> DEFINE f == See(e, i, "spine")
  <2>1. Found(f, i, n, "spine", <<"spine">>)
    BY FoundSpine, Appended
  <2>2. SeeAll(e, i, toks) = f
    BY <1>1, SeeOne
  <2> HIDE DEF f
  <2>3. ~Has(toks, "side")
    BY <1>1 DEF Has
  <2> QED  BY <1>1, <2>2, <2>1, <2>3, OccurrencesOf
<1>2. CASE toks = <<"stray", "spine">>
  <2> DEFINE f == See(e, i, "stray")
             g == See(f, i, "spine")
  <2>1. Found(f, i, n, "none", <<>>)
    BY FoundStray
  <2>2. Found(g, i, n, "spine", <<"spine">>)
    BY <2>1, FoundSpine, Appended
  <2>3. SeeAll(e, i, toks) = g
    BY <1>2, SeeTwo
  <2> HIDE DEF f, g
  <2>4. ~Has(toks, "side")
    BY <1>2 DEF Has
  <2> QED  BY <1>2, <2>3, <2>2, <2>4, OccurrencesOf
<1>3. CASE toks = <<"spine", "twin">>
  <2>1. IsMany(i + 1)
    BY <1>3 DEF Has
  <2> DEFINE f == See(e, i, "spine")
             g == See(f, i, "twin")
  <2>2. Found(f, i, n, "spine", <<"spine">>)
    BY <2>1, FoundSpine, Appended
  <2>3. Found(g, i, n, "spine", <<"spine", "twin">>)
    BY <2>1, <2>2, FoundTwin, Appended
  <2>4. SeeAll(e, i, toks) = g
    BY <1>3, SeeTwo
  <2> HIDE DEF f, g
  <2>5. ~Has(toks, "side")
    BY <1>3 DEF Has
  <2> QED  BY <1>3, <2>4, <2>3, <2>5, OccurrencesOf
<1>4. CASE toks = <<"twin", "spine">>
  <2>1. IsMany(i + 1)
    BY <1>4 DEF Has
  <2> DEFINE f == See(e, i, "twin")
             g == See(f, i, "spine")
  <2>2. Found(f, i, n, "none", <<"twin">>)
    BY <2>1, FoundTwin, Appended
  <2>3. Found(g, i, n, "spine", <<"twin", "spine">>)
    BY <2>1, <2>2, FoundSpine, Appended
  <2>4. SeeAll(e, i, toks) = g
    BY <1>4, SeeTwo
  <2> HIDE DEF f, g
  <2>5. ~Has(toks, "side")
    BY <1>4 DEF Has
  <2> QED  BY <1>4, <2>4, <2>3, <2>5, OccurrencesOf
<1>5. CASE toks = <<"spine", "side">>
  <2> DEFINE f == See(e, i, "spine")
             g == See(f, i, "side")
  <2>1. Found(f, i, n, "spine", <<"spine">>)
    BY FoundSpine, Appended
  <2>2. Found(g, i, n, "spine", <<"spine">>) /\ g.side
    BY <2>1, FoundSide
  <2>3. SeeAll(e, i, toks) = g
    BY <1>5, SeeTwo
  <2> HIDE DEF f, g
  <2> QED  BY <1>5, <2>3, <2>2, OccurrencesOf
<1>6. CASE toks = <<"side", "spine">>
  <2> DEFINE f == See(e, i, "side")
             g == See(f, i, "spine")
  <2>1. Found(f, i, n, "none", <<>>) /\ f.side
    BY FoundSide
  <2>2. Found(g, i, n, "spine", <<"spine">>)
    BY <2>1, FoundSpine, Appended
  <2>3. g.side
    BY <2>1, SeeBeside DEF Found, Beside, Toks
  <2>4. SeeAll(e, i, toks) = g
    BY <1>6, SeeTwo
  <2> HIDE DEF f, g
  <2> QED  BY <1>6, <2>4, <2>2, <2>3, OccurrencesOf
<1>7. CASE toks = <<"spine", "twin", "side">>
  <2>1. IsMany(i + 1)
    BY <1>7 DEF Has
  <2> DEFINE f == See(e, i, "spine")
             g == See(f, i, "twin")
             h == See(g, i, "side")
  <2>2. Found(f, i, n, "spine", <<"spine">>)
    BY <2>1, FoundSpine, Appended
  <2>3. Found(g, i, n, "spine", <<"spine", "twin">>)
    BY <2>1, <2>2, FoundTwin, Appended
  <2>4. Found(h, i, n, "spine", <<"spine", "twin">>) /\ h.side
    BY <2>1, <2>3, FoundSide
  <2>5. SeeAll(e, i, toks) = h
    BY <1>7, SeeThree
  <2> HIDE DEF f, g, h
  <2> QED  BY <1>7, <2>5, <2>4, OccurrencesOf
<1> QED  BY <1>1, <1>2, <1>3, <1>4, <1>5, <1>6, <1>7 DEF Spines, WithSide

-----------------------------------------------------------------------------
(* The walk over the children of a level, and the levels above it.          *)

(* What an access leaves as it was: what had been found stays.              *)
Kept(e, f) ==
    /\ ExtOK(f, Depth) /\ e.done \subseteq f.done /\ (e.side => f.side)
    /\ \A j \in 2..Depth : j - 1 \in e.done => f.ref[j] = e.ref[j] /\ f.list[j] = e.list[j]
    /\ Right(e) => Right(f)

(* A walk marks its level and changes the level below.                      *)
LEMMA WalkBeside ==
  ASSUME MessageOK, Held, NEW e, ExtOK(e, Depth), NEW i \in 1..Depth
  PROVE  Beside([e EXCEPT !.done = @ \cup {i}], Walk(e, i), i, Depth)
<1> DEFINE n == Depth
           e1 == [e EXCEPT !.done = @ \cup {i}]
           toks == Below(e, i)
<1>1. n \in Nat /\ n >= 1
  BY DepthNat
<1>2. e1 \in Extractors(n)
  BY DEF ExtOK, Extractors
<1>3. Walk(e, i) = SeeAll(e1, i, toks)
  BY DEF Walk
<1>4. CASE i = n
  <2>1. toks = <<>>
    BY <1>4, KidsAre DEF Below
  <2>2. Walk(e, i) = e1
    BY <1>3, <2>1, SeeNone
  <2> HIDE DEF e1, n
  <2>3. Beside(e1, e1, i, n)
    BY <1>2 DEF Beside
  <2> QED  BY <2>2, <2>3 DEF e1, n
<1>5. CASE i # n
  <2>1. toks \in Spines \cup WithSide \cup {<<>>}
    BY <1>5, KidsAre DEF Below
  <2>2. i \in Nat /\ i + 1 \in 1..n
    BY <1>1, <1>5
  <2> HIDE DEF e1, n, toks
  <2>3. Beside(e1, SeeAll(e1, i, toks), i, n)
    BY <1>1, <1>2, <2>1, <2>2, SeeAllBeside
  <2> QED  BY <1>3, <2>3 DEF e1, n
<1> QED  BY <1>4, <1>5

(* A walk keeps the extractors consistent: the level below had nothing.     *)
LEMMA WalkExt ==
  ASSUME MessageOK, Held, NEW e, ExtOK(e, Depth), NEW i \in 1..Depth,
         i \notin e.done, e.ref[i] # "none"
  PROVE  /\ ExtOK(Walk(e, i), Depth) /\ Walk(e, i).done = e.done \cup {i}
         /\ \A j \in 1..Depth : j # i + 1 => /\ Walk(e, i).ref[j] = e.ref[j]
                                             /\ Walk(e, i).list[j] = e.list[j]
         /\ e.side => Walk(e, i).side
<1> DEFINE n == Depth
           f == Walk(e, i)
<1>1. n \in Nat /\ n >= 1
  BY DepthNat
<1>2. /\ f \in Extractors(n) /\ f.done = e.done \cup {i} /\ (e.side => f.side)
      /\ \A j \in 1..n : j # i + 1 => f.ref[j] = e.ref[j] /\ f.list[j] = e.list[j]
  BY WalkBeside DEF Beside, ExtOK, Extractors
<1> HIDE DEF f
<1>3. /\ e.done \in SUBSET (1..n) /\ e.ref[1] = "spine"
      /\ \A k \in e.done : e.ref[k] # "none"
      /\ \A k \in 2..n : k - 1 \notin e.done => e.ref[k] = "none" /\ e.list[k] = <<>>
      /\ \A a, b \in 1..n : a < b /\ e.ref[a] = "none" => e.ref[b] = "none" /\ e.list[b] = <<>>
  BY DEF ExtOK, Extractors
<1> HIDE DEF n
<1>4. i \in 1..n
  BY DEF n
<1>5. i + 1 \in 1..n => e.ref[i + 1] = "none" /\ e.list[i + 1] = <<>>
  <2>1. i + 1 \in 1..n => i + 1 \in 2..n /\ (i + 1) - 1 = i
    BY <1>1, <1>4
  <2> QED  BY <1>3, <2>1
<1>6. f.ref[1] = "spine"
  BY <1>1, <1>2, <1>3, <1>4
<1>7. ASSUME NEW k \in f.done  PROVE f.ref[k] # "none"
  <2>1. k \in 1..n
    BY <1>2, <1>3, <1>4
  <2>2. CASE k = i
    BY <1>1, <1>2, <1>4, <2>2
  <2>3. CASE k # i
    <3>1. k \in e.done /\ e.ref[k] # "none"
      BY <1>2, <1>3, <2>3
    <3>2. k # i + 1
      BY <1>5, <2>1, <3>1
    <3> QED  BY <1>2, <2>1, <3>1, <3>2
  <2> QED  BY <2>2, <2>3
<1>8. ASSUME NEW k \in 2..n, k - 1 \notin f.done  PROVE f.ref[k] = "none" /\ f.list[k] = <<>>
  <2>1. k - 1 \notin e.done /\ k # i + 1 /\ k \in 1..n
    BY <1>1, <1>2, <1>4, <1>8
  <2> QED  BY <1>2, <1>3, <2>1
<1>9. ASSUME NEW a \in 1..n, NEW b \in 1..n, a < b, f.ref[a] = "none"
      PROVE  f.ref[b] = "none" /\ f.list[b] = <<>>
  <2>1. CASE a = i + 1
    <3>1. e.ref[a] = "none" /\ b # i + 1
      BY <1>1, <1>5, <1>9, <2>1
    <3> QED  BY <1>2, <1>3, <1>9, <3>1
  <2>2. CASE a # i + 1
    <3>1. e.ref[a] = "none"
      BY <1>2, <1>9, <2>2
    <3>2. a # i
      BY <3>1
    <3>3. ~(a < i)
      BY <1>3, <1>4, <3>1
    <3>4. b # i + 1
      BY <1>1, <1>4, <1>9, <3>2, <3>3
    <3> QED  BY <1>2, <1>3, <1>9, <3>1, <3>4
  <2> QED  BY <2>1, <2>2
<1>10. ExtOK(f, n)
  BY <1>2, <1>6, <1>7, <1>8, <1>9 DEF ExtOK
<1> QED  BY <1>2, <1>10 DEF f, n

(* A walk of a message that respects the grammar finds what was sent.       *)
LEMMA WalkRight ==
  ASSUME MessageOK, Held, NEW e, ExtOK(e, Depth), NEW i \in 1..Depth,
         i \notin e.done, e.ref[i] # "none", Right(e)
  PROVE  Right(Walk(e, i))
<1> SUFFICES ASSUME Singles
             PROVE  /\ ~Walk(e, i).threw
                    /\ \A k \in 1..Depth : Walk(e, i).ref[k] # "twin"
                    /\ \A k \in 2..Depth : k - 1 \in Walk(e, i).done /\ IsRegistered(k) =>
                          /\ Walk(e, i).ref[k] = "spine"
                          /\ IsMany(k) => Walk(e, i).list[k] = Occurrences(Kids(k - 1))
                    /\ at \in Walk(e, i).done /\ HasSide => Walk(e, i).side
  BY DEF Right
<1> DEFINE n == Depth
           f == Walk(e, i)
           e1 == [e EXCEPT !.done = @ \cup {i}]
<1>1. n \in Nat /\ n >= 1 /\ at \in 1..(n - 1)
  BY DepthNat DEF MessageOK
<1>2. /\ f.done = e.done \cup {i} /\ (e.side => f.side)
      /\ \A j \in 1..n : j # i + 1 => f.ref[j] = e.ref[j] /\ f.list[j] = e.list[j]
  BY WalkExt
<1>3. /\ ~e.threw /\ \A k \in 1..n : e.ref[k] # "twin"
      /\ \A k \in 2..n : k - 1 \in e.done /\ IsRegistered(k) =>
              e.ref[k] = "spine" /\ (IsMany(k) => e.list[k] = Occurrences(Kids(k - 1)))
      /\ at \in e.done /\ HasSide => e.side
  BY DEF Right
<1>4. e \in Extractors(n) /\ e1 \in Extractors(n)
  BY DEF ExtOK, Extractors
<1>5. e.ref[i] = "spine"
  BY <1>3, <1>4 DEF Extractors
<1>6. f = SeeAll(e1, i, Kids(i))
  BY <1>5 DEF Walk, Below
<1>7. CASE i = n
  <2>1. f = e1
    BY <1>6, <1>7, KidsAre, SeeNone
  <2>2. ~f.threw /\ f.ref = e.ref /\ f.list = e.list /\ f.side = e.side
    BY <1>3, <1>4, <2>1 DEF Extractors
  <2> HIDE DEF f, n, e1
  <2>3. \A k \in 2..n : k - 1 \in f.done => k - 1 \in e.done
    BY <1>1, <1>2, <1>7
  <2>4. at \in f.done => at \in e.done
    BY <1>1, <1>2, <1>7
  <2> QED  BY <1>3, <2>2, <2>3, <2>4 DEF f, n
<1>8. CASE i # n
  <2>1. i \in Nat /\ i + 1 \in 2..n /\ i + 1 \in 1..n /\ (i + 1) - 1 = i
    BY <1>1, <1>8
  <2>2. e.ref[i + 1] = "none" /\ e.list[i + 1] = <<>>
    BY <2>1 DEF ExtOK
  <2>3. Found(e1, i, n, "none", <<>>)
    <3>1. ~e1.threw /\ e1.ref[i + 1] = "none" /\ e1.list[i + 1] = <<>>
      BY <1>3, <1>4, <2>2 DEF Extractors
    <3> QED  BY <1>4, <3>1 DEF Found
  <2>4. Kids(i) \in Spines \cup WithSide
    BY <1>8, KidsAre
  <2>5. Has(Kids(i), "twin") => IsMany(i + 1)
    <3>1. CASE i = at
      BY <3>1, KidsAre DEF Has, Singles
    <3>2. CASE i # at
      <4>1. Kids(i) = <<"spine">>
        BY <1>8, <3>2, KidsAre
      <4>2. ~Has(<<"spine">>, "twin")
        BY DEF Has
      <4> QED  BY <4>1, <4>2
    <3> QED  BY <3>1, <3>2
  <2> HIDE DEF n, e1
  <2>6. /\ Found(SeeAll(e1, i, Kids(i)), i, n, "spine", Occurrences(Kids(i)))
        /\ Has(Kids(i), "side") => SeeAll(e1, i, Kids(i)).side
    BY <1>1, <2>1, <2>3, <2>4, <2>5, LoopRight
  <2>7. /\ Found(f, i, n, "spine", Occurrences(Kids(i))) /\ (Has(Kids(i), "side") => f.side)
    BY <1>6, <2>6
  <2> HIDE DEF f
  <2>8. /\ ~f.threw
        /\ IsRegistered(i + 1) => /\ f.ref[i + 1] = "spine"
                                  /\ (IsMany(i + 1) => f.list[i + 1] = Occurrences(Kids(i)))
        /\ ~IsRegistered(i + 1) => f.ref[i + 1] = "none"
    BY <2>7 DEF Found
  <2>9. ASSUME NEW k \in 1..n  PROVE f.ref[k] # "twin"
    BY <1>2, <1>3, <2>8
  <2>10. ASSUME NEW k \in 2..n, k - 1 \in f.done, IsRegistered(k)
         PROVE  f.ref[k] = "spine" /\ (IsMany(k) => f.list[k] = Occurrences(Kids(k - 1)))
    <3>1. CASE k = i + 1
      BY <2>1, <2>8, <2>10, <3>1
    <3>2. CASE k # i + 1
      <4>1. k - 1 \in e.done /\ k \in 1..n
        BY <1>1, <1>2, <2>1, <2>10, <3>2
      <4> QED  BY <1>2, <1>3, <2>10, <3>2, <4>1
    <3> QED  BY <3>1, <3>2
  <2>11. ASSUME at \in f.done, HasSide  PROVE f.side
    <3>1. CASE at = i
      <4>1. Has(Kids(i), "side")
        BY <2>11, <3>1, KidsAre DEF Has, HasSide
      <4> QED  BY <2>7, <4>1
    <3>2. CASE at # i
      BY <1>2, <1>3, <2>11, <3>2
    <3> QED  BY <3>1, <3>2
  <2> QED  BY <2>8, <2>9, <2>10, <2>11 DEF f, n
<1> QED  BY <1>7, <1>8

(* A walk replaces nothing that had been found.                             *)
LEMMA WalkKept ==
  ASSUME MessageOK, Held, NEW e, ExtOK(e, Depth), NEW i \in 1..Depth,
         i \notin e.done, e.ref[i] # "none"
  PROVE  Kept(e, Walk(e, i)) /\ Walk(e, i).done = e.done \cup {i}
<1> DEFINE f == Walk(e, i)
<1>1. /\ ExtOK(f, Depth) /\ f.done = e.done \cup {i} /\ (e.side => f.side)
      /\ \A j \in 1..Depth : j # i + 1 => f.ref[j] = e.ref[j] /\ f.list[j] = e.list[j]
  BY WalkExt
<1>2. Right(e) => Right(f)
  BY WalkRight
<1> HIDE DEF f
<1>3. Depth \in Nat
  BY DepthNat
<1>4. \A j \in 2..Depth : j - 1 \in e.done => j \in 1..Depth /\ j # i + 1
  BY <1>3
<1> QED  BY <1>1, <1>2, <1>4 DEF Kept, f

(* Resolving level k when p is what resolving the level above it gave.      *)
Turn(e, k, p) ==
    IF k \in e.done THEN e
    ELSE IF e.ref[k] # "none" THEN Walk(e, k)
    ELSE IF p.threw \/ p.ref[k] = "none" THEN p ELSE Walk(p, k)

Up(e, m, g) == g = [k \in 1..m |-> Turn(e, k, g[k - 1])]

(* The recursion of Resolve ends at level 1, which has its reference.       *)
LEMMA UpExists ==
  ASSUME NEW e, e.ref[1] # "none", NEW i \in Nat
  PROVE  \E g : Up(e, i, g)
<1> SUFFICES ASSUME ~(\E g : Up(e, i, g))  PROVE FALSE
  OBVIOUS
<1> DEFINE T == {m \in 0..i : ~(\E g : Up(e, m, g))}
<1>1. T \in SUBSET Nat /\ i \in T
  OBVIOUS
<1>2. PICK m \in T : \A y \in T : m <= y
  BY <1>1, LeastNat
<1>3. m # 0
  <2>1. Up(e, 0, [k \in 1..0 |-> e])
    BY DEF Up
  <2> QED  BY <2>1
<1>4. m - 1 \in 0..i /\ m - 1 \notin T /\ m \in Nat
  BY <1>2, <1>3
<1>5. PICK g : Up(e, m - 1, g)
  BY <1>4
<1>6. \A k \in 1..(m - 1) : g[k] = Turn(e, k, g[k - 1])
  BY <1>5 DEF Up
<1> DEFINE h == [k \in 1..m |-> IF k < m THEN g[k] ELSE Turn(e, k, g[k - 1])]
<1>7. \A k \in 1..m : h[k] = Turn(e, k, g[k - 1])
  BY <1>4, <1>6
<1>8. \A p, q : Turn(e, 1, p) = Turn(e, 1, q)
  BY DEF Turn
<1>9. \A k \in 1..m : k # 1 => h[k - 1] = g[k - 1]
  BY <1>4
<1>10. \A k \in 1..m : h[k] = Turn(e, k, h[k - 1])
  <2> SUFFICES ASSUME NEW k \in 1..m  PROVE h[k] = Turn(e, k, h[k - 1])
    OBVIOUS
  <2>1. CASE k = 1
    <3>1. Turn(e, 1, h[k - 1]) = Turn(e, 1, g[k - 1])
      BY <1>8
    <3> HIDE DEF h
    <3> QED  BY <1>7, <2>1, <3>1
  <2>2. CASE k # 1
    <3>1. h[k - 1] = g[k - 1]
      BY <1>9, <2>2
    <3> HIDE DEF h
    <3> QED  BY <1>7, <3>1
  <2> QED  BY <2>1, <2>2
<1>11. h = [k \in 1..m |-> h[k]]
  OBVIOUS
<1> HIDE DEF h
<1>12. Up(e, m, h)
  BY <1>10, <1>11 DEF Up
<1> QED  BY <1>2, <1>12

(* Resolving level k: what an access keeps, and nothing is left to find out *)
(* about the children of the level, unless a duplicate threw.               *)
ResolveOK(e, k, f) ==
    /\ Kept(e, f) /\ f.done \subseteq e.done \cup (1..k)
    /\ f.threw \/ Settled(f, k)

(* What is kept by two accesses is kept by both.                            *)
LEMMA KeptRefl ==
  ASSUME NEW e, ExtOK(e, Depth)
  PROVE  Kept(e, e)
  BY DEF Kept

LEMMA KeptTrans ==
  ASSUME NEW e, NEW f, NEW g, Kept(e, f), Kept(f, g)
  PROVE  Kept(e, g)
<1>1. ExtOK(g, Depth) /\ e.done \subseteq g.done /\ (e.side => g.side)
  BY DEF Kept
<1>2. Right(e) => Right(g)
  BY DEF Kept
<1>3. ASSUME NEW j \in 2..Depth, j - 1 \in e.done
      PROVE  g.ref[j] = e.ref[j] /\ g.list[j] = e.list[j]
  <2>1. f.ref[j] = e.ref[j] /\ f.list[j] = e.list[j] /\ j - 1 \in f.done
    BY <1>3 DEF Kept
  <2> QED  BY <2>1 DEF Kept
<1> QED  BY <1>1, <1>2, <1>3 DEF Kept

(* The step from the level above to level k.                                *)
LEMMA TurnOK ==
  ASSUME MessageOK, Held, NEW e, ExtOK(e, Depth), NEW k \in 1..Depth, NEW p,
         k # 1 => ResolveOK(e, k - 1, p)
  PROVE  ResolveOK(e, k, Turn(e, k, p))
<1>0. Depth \in Nat
  BY DepthNat
<1>1. CASE k \in e.done
  <2>1. Turn(e, k, p) = e
    BY <1>1 DEF Turn
  <2> QED  BY <1>1, <2>1, KeptRefl DEF ResolveOK, Settled
<1>2. CASE k \notin e.done /\ e.ref[k] # "none"
  <2>1. Turn(e, k, p) = Walk(e, k)
    BY <1>2 DEF Turn
  <2>2. Kept(e, Walk(e, k)) /\ Walk(e, k).done = e.done \cup {k}
    BY <1>2, WalkKept
  <2>3. {k} \subseteq 1..k /\ k \in Walk(e, k).done
    BY <1>0, <2>2
  <2> QED  BY <2>1, <2>2, <2>3 DEF ResolveOK, Settled
<1>3. CASE k \notin e.done /\ e.ref[k] = "none"
  <2>1. k # 1
    BY <1>3 DEF ExtOK
  <2>2. /\ Kept(e, p) /\ p.done \subseteq e.done \cup (1..(k - 1))
        /\ p.threw \/ Settled(p, k - 1)
    BY <2>1 DEF ResolveOK
  <2>3. ExtOK(p, Depth)
    BY <2>2 DEF Kept
  <2>4. k \notin p.done /\ 1..(k - 1) \subseteq 1..k
    BY <1>0, <1>3, <2>2
  <2>5. CASE p.threw
    <3>1. Turn(e, k, p) = p
      BY <1>3, <2>5 DEF Turn
    <3> QED  BY <2>2, <2>4, <2>5, <3>1 DEF ResolveOK
  <2>6. CASE ~p.threw /\ p.ref[k] = "none"
    <3>1. Turn(e, k, p) = p
      BY <1>3, <2>6 DEF Turn
    <3>2. k - 1 \in 1..(k - 1) /\ (k - 1) + 1 = k /\ 1..((k - 1) - 1) \subseteq 1..(k - 1)
      BY <1>0, <2>1
    <3>3. Settled(p, k)
      BY <2>2, <2>6, <3>2 DEF Settled
    <3> QED  BY <2>2, <2>4, <3>1, <3>3 DEF ResolveOK
  <2>7. CASE ~p.threw /\ p.ref[k] # "none"
    <3>1. Turn(e, k, p) = Walk(p, k)
      BY <1>3, <2>7 DEF Turn
    <3>2. Kept(p, Walk(p, k)) /\ Walk(p, k).done = p.done \cup {k}
      BY <2>3, <2>4, <2>7, WalkKept
    <3>3. Kept(e, Walk(p, k))
      BY <2>2, <3>2, KeptTrans
    <3>4. k \in Walk(p, k).done /\ Walk(p, k).done \subseteq e.done \cup (1..k)
      BY <1>0, <2>2, <2>4, <3>2
    <3> QED  BY <3>1, <3>3, <3>4 DEF ResolveOK, Settled
  <2> QED  BY <2>5, <2>6, <2>7
<1> QED  BY <1>1, <1>2, <1>3

(* At the least level where resolving did not do this, the level above did. *)
LEMMA ResolveHolds ==
  ASSUME MessageOK, Held, NEW e, ExtOK(e, Depth), NEW i \in 1..Depth
  PROVE  ResolveOK(e, i, Resolve(e, i))
<1>0. Depth \in Nat /\ i \in Nat /\ e.ref[1] # "none"
  BY DepthNat DEF ExtOK
<1> DEFINE g == CHOOSE f : Up(e, i, f)
<1>1. Resolve(e, i) = g[i]
  BY DEF Resolve, Up, Turn
<1>2. Up(e, i, g)
  BY <1>0, UpExists
<1> HIDE DEF g
<1>3. \A k \in 1..i : g[k] = Turn(e, k, g[k - 1])
  BY <1>2 DEF Up
<1> SUFFICES ASSUME ~ResolveOK(e, i, g[i])  PROVE FALSE
  BY <1>1
<1> DEFINE T == {k \in 1..i : ~ResolveOK(e, k, g[k])}
<1>4. T \in SUBSET Nat /\ i \in T
  BY <1>0
<1>5. PICK k \in T : \A y \in T : k <= y
  BY <1>4, LeastNat
<1>6. k \in 1..Depth /\ k \in 1..i /\ ~ResolveOK(e, k, g[k])
  BY <1>0
<1>7. k # 1 => k - 1 \in 1..i /\ ~(k <= k - 1)
  BY <1>0, <1>6
<1>8. k # 1 => ResolveOK(e, k - 1, g[k - 1])
  BY <1>5, <1>7
<1>9. ResolveOK(e, k, Turn(e, k, g[k - 1]))
  BY <1>6, <1>8, TurnOK
<1> QED  BY <1>3, <1>6, <1>9

(* A level whose AVP was found, or that is settled, has a settled parent.   *)
LEMMA SettledAbove ==
  ASSUME MessageOK, Held, NEW e, ExtOK(e, Depth), NEW j \in 2..Depth,
         Settled(e, j) \/ e.ref[j] # "none" \/ e.list[j] # <<>>
  PROVE  Settled(e, j - 1)
<1>0. Depth \in Nat
  BY DepthNat
<1>1. j - 1 \notin e.done => e.ref[j] = "none" /\ e.list[j] = <<>>
  BY DEF ExtOK
<1>2. j \in e.done => e.ref[j] # "none"
  BY DEF ExtOK
<1>3. CASE j - 1 \in e.done
  BY <1>3 DEF Settled
<1>4. CASE j - 1 \notin e.done
  <2>1. Settled(e, j) /\ j \notin e.done
    BY <1>1, <1>2, <1>4
  <2>2. PICK k \in 1..(j - 1) : k \in e.done /\ e.ref[k + 1] = "none"
    BY <2>1 DEF Settled
  <2>3. k \in 1..((j - 1) - 1)
    BY <1>0, <1>4, <2>2
  <2> QED  BY <2>2, <2>3 DEF Settled
<1> QED  BY <1>3, <1>4

(* An accessor keeps what was found, and settles the level it asks.         *)
LEMMA AccessOK ==
  ASSUME MessageOK, Held, NEW e, ExtOK(e, Depth), NEW j \in 2..Depth
  PROVE  /\ Kept(e, Access(e, j))
         /\ Access(e, j).threw \/ Settled(Access(e, j), j - 1)
<1>0. j - 1 \in 1..Depth /\ j \in 1..Depth
  BY DepthNat
<1>1. CASE (IsMany(j) /\ e.list[j] # <<>>) \/ (~IsMany(j) /\ ~IsGrouped(j) /\ e.ref[j] # "none")
  <2>1. Access(e, j) = e
    BY <1>1 DEF Access
  <2> QED  BY <1>1, <2>1, KeptRefl, SettledAbove
<1>2. CASE (IsMany(j) /\ e.list[j] = <<>>) \/ (~IsMany(j) /\ ~IsGrouped(j) /\ e.ref[j] = "none")
  <2>1. Access(e, j) = Resolve(e, j - 1)
    BY <1>2 DEF Access
  <2> QED  BY <1>0, <2>1, ResolveHolds DEF ResolveOK
<1>3. CASE ~IsMany(j) /\ IsGrouped(j)
  <2>1. Access(e, j) = Resolve(e, j)
    BY <1>3 DEF Access
  <2>2. ResolveOK(e, j, Resolve(e, j))
    BY <1>0, ResolveHolds
  <2> HIDE DEF Resolve
  <2>3. ExtOK(Resolve(e, j), Depth)
    BY <2>2 DEF ResolveOK, Kept
  <2> QED  BY <2>1, <2>2, <2>3, SettledAbove DEF ResolveOK
<1> QED  BY <1>1, <1>2, <1>3

(* What was settled stays settled, so what was asked for stays answered.    *)
LEMMA KeptSettled ==
  ASSUME MessageOK, Held, NEW e, NEW f, ExtOK(e, Depth), Kept(e, f),
         NEW i \in 1..Depth, Settled(e, i)
  PROVE  Settled(f, i)
<1>0. Depth \in Nat
  BY DepthNat
<1>1. e.done \subseteq f.done
  BY DEF Kept
<1>2. CASE i \in e.done
  BY <1>1, <1>2 DEF Settled
<1>3. CASE i \notin e.done
  <2>1. PICK k \in 1..(i - 1) : k \in e.done /\ e.ref[k + 1] = "none"
    BY <1>3 DEF Settled
  <2>2. k + 1 \in 2..Depth /\ (k + 1) - 1 = k
    BY <1>0
  <2>3. f.ref[k + 1] = "none"
    BY <2>1, <2>2 DEF Kept
  <2> QED  BY <1>1, <2>1, <2>3 DEF Settled
<1> QED  BY <1>2, <1>3

(* An access does not undo the answers given before it.                     *)
LEMMA KeptAsked ==
  ASSUME MessageOK, Held, NEW e, NEW f, ExtOK(e, Depth), Kept(e, f), NEW as, AskedOK(e, as)
  PROVE  AskedOK(f, as)
<1>0. Depth \in Nat
  BY DepthNat
<1>1. ASSUME NEW j \in as \ {0}
      PROVE  j >= 2 /\ Settled(f, j - 1) /\ \A k \in 2..j : IsRegistered(k)
  <2>1. j \in 0..Depth /\ j >= 2 /\ Settled(e, j - 1) /\ \A k \in 2..j : IsRegistered(k)
    BY DEF AskedOK
  <2>2. j - 1 \in 1..Depth
    BY <1>0, <2>1
  <2> QED  BY <2>1, <2>2, KeptSettled
<1>2. e.side => f.side
  BY DEF Kept
<1> QED  BY <1>1, <1>2 DEF AskedOK

-----------------------------------------------------------------------------
(* The extractors of a message that just arrived.                           *)

LEMMA NewExtOK ==
  ASSUME NEW n \in Nat, n >= 1
  PROVE  /\ ExtOK(NewExt(n), n) /\ NewExt(n).done = {} /\ ~NewExt(n).threw
         /\ \A i \in 1..n : NewExt(n).ref[i] # "twin"
<1> DEFINE e == NewExt(n)
<1>1. <<>> \in Seq({"spine", "twin"})
  OBVIOUS
<1>2. e \in Extractors(n)
  BY <1>1 DEF NewExt, Extractors
<1>3. /\ e.done = {} /\ ~e.threw /\ \A i \in 1..n : e.list[i] = <<>>
      /\ \A i \in 1..n : e.ref[i] = IF i = 1 THEN "spine" ELSE "none"
  BY DEF NewExt
<1> HIDE DEF e
<1>4. e.ref[1] = "spine"
  BY <1>3
<1>5. \A i \in 2..n : e.ref[i] = "none" /\ e.list[i] = <<>>
  BY <1>3
<1>6. \A i, j \in 1..n : i < j => j \in 2..n
  OBVIOUS
<1> QED  BY <1>2, <1>3, <1>4, <1>5, <1>6 DEF ExtOK, e

(* In a message that respects the grammar, a settled level was resolved.    *)
LEMMA SettledDone ==
  ASSUME MessageOK, Held, Singles, NEW e, Right(e), NEW i \in 1..Depth, Settled(e, i),
         \A k \in 2..i : IsRegistered(k)
  PROVE  i \in e.done
<1>0. Depth \in Nat
  BY DepthNat
<1> SUFFICES ASSUME i \notin e.done  PROVE FALSE
  OBVIOUS
<1>1. PICK k \in 1..(i - 1) : k \in e.done /\ e.ref[k + 1] = "none"
  BY DEF Settled
<1>2. k + 1 \in 2..i /\ k + 1 \in 2..Depth /\ (k + 1) - 1 = k
  BY <1>0
<1>3. e.ref[k + 1] = "spine"
  BY <1>1, <1>2 DEF Right
<1> QED  BY <1>1, <1>3

-----------------------------------------------------------------------------
(* One access.                                                              *)

(* The access of an AVP of the spine.                                       *)
LEMMA AskOK ==
  ASSUME MessageOK, Held, ExtOK(ext, Depth), Right(ext), AskedOK(ext, asked),
         NEW j \in 2..Depth, Ask(j)
  PROVE  Kept(ext, ext') /\ Right(ext') /\ AskedOK(ext', asked')
<1>0. Depth \in Nat
  BY DepthNat
<1>1. Kept(ext, ext') /\ (ext'.threw \/ Settled(ext', j - 1))
  BY AccessOK DEF Ask
<1>2. Right(ext')
  BY <1>1 DEF Kept
<1>3. AskedOK(ext', asked)
  BY <1>1, KeptAsked
<1>4. CASE ext'.threw
  BY <1>1, <1>2, <1>3, <1>4 DEF Ask
<1>5. CASE ~ext'.threw
  <2>1. asked' = asked \cup {j}
    BY <1>5 DEF Ask
  <2>2. Settled(ext', j - 1) /\ \A k \in 2..j : IsRegistered(k)
    BY <1>1, <1>5 DEF Ask, Reachable
  <2>3. j \in 0..Depth /\ j >= 2 /\ j # 0
    BY <1>0
  <2>4. AskedOK(ext', asked')
    BY <1>3, <2>1, <2>2, <2>3 DEF AskedOK
  <2> QED  BY <1>1, <1>2, <2>4
<1> QED  BY <1>4, <1>5

(* The access of the side AVP: its level is resolved, or the message does   *)
(* not respect the grammar.                                                 *)
LEMMA AskSideOK ==
  ASSUME MessageOK, Held, ExtOK(ext, Depth), Right(ext), AskedOK(ext, asked), AskSide
  PROVE  Kept(ext, ext') /\ Right(ext') /\ AskedOK(ext', asked')
<1>0. Depth \in Nat /\ at \in 1..Depth
  BY DepthNat DEF MessageOK
<1>1. Kept(ext, ext') /\ (ext'.threw \/ ext'.side \/ Settled(ext', at))
  <2>1. CASE ext.side
    <3>1. ext' = ext
      BY <2>1 DEF AskSide
    <3> QED  BY <2>1, <3>1, KeptRefl
  <2>2. CASE ~ext.side
    <3>1. ext' = Resolve(ext, at)
      BY <2>2 DEF AskSide
    <3> QED  BY <1>0, <3>1, ResolveHolds DEF ResolveOK
  <2> QED  BY <2>1, <2>2
<1>2. Right(ext')
  BY <1>1 DEF Kept
<1>3. AskedOK(ext', asked)
  BY <1>1, KeptAsked
<1>4. \A k \in 2..at : IsRegistered(k)
  BY DEF AskSide, Reachable
<1>5. HasSide
  BY DEF AskSide, HasSide
<1>6. Singles => ext'.side
  <2> SUFFICES ASSUME Singles, ~ext'.side  PROVE FALSE
    OBVIOUS
  <2>1. ~ext'.threw
    BY <1>2 DEF Right
  <2>2. Settled(ext', at)
    BY <1>1, <2>1
  <2>3. at \in ext'.done
    BY <1>0, <1>2, <1>4, <2>2, SettledDone
  <2> QED  BY <1>2, <1>5, <2>3 DEF Right
<1>7. asked' = asked \/ asked' = asked \cup {0}
  BY DEF AskSide
<1>8. 0 \in 0..Depth
  BY <1>0
<1>9. AskedOK(ext', asked')
  BY <1>3, <1>6, <1>7, <1>8 DEF AskedOK
<1> QED  BY <1>1, <1>2, <1>9

(* A caught exception leaves the extractors as they are.                    *)
LEMMA CatchOK ==
  ASSUME ExtOK(ext, Depth), Right(ext), AskedOK(ext, asked), Catch
  PROVE  Kept(ext, ext') /\ Right(ext') /\ AskedOK(ext', asked')
<1>1. ext \in Extractors(Depth)
  BY DEF ExtOK
<1>2. ext' = [ext EXCEPT !.threw = FALSE] /\ asked' = asked
  BY DEF Catch
<1>3. /\ ext' \in Extractors(Depth) /\ ext'.done = ext.done /\ ext'.ref = ext.ref
      /\ ext'.list = ext.list /\ ext'.side = ext.side /\ ~ext'.threw
  BY <1>1, <1>2 DEF Extractors
<1>4. ExtOK(ext', Depth)
  BY <1>3 DEF ExtOK
<1>5. Right(ext')
  BY <1>3 DEF Right
<1>6. Kept(ext, ext')
  BY <1>3, <1>4, <1>5 DEF Kept
<1>7. AskedOK(ext', asked')
  BY <1>2, <1>3 DEF AskedOK, Settled
<1> QED  BY <1>5, <1>6, <1>7

(* The parts of the invariant about a message that stays.                   *)
LEMMA SameMessage ==
  ASSUME MessageOK, message' = message, phase' \in {"read", "stored"},
         Held,
         ExtOK(ext', Depth), Right(ext'), AskedOK(ext', asked')
  PROVE  MessageOK' /\ (ExtOK(ext, Depth) /\ Right(ext) /\ AskedOK(ext, asked))'
<1>1. app' = app /\ path' = path /\ at' = at /\ kids' = kids
  BY DEF message
<1>2. Depth' = Depth
  BY <1>1 DEF Depth
<1>3. MessageOK'
  BY <1>1, <1>2 DEF MessageOK, Held
<1>4. ExtOK(ext, Depth)'
  BY <1>2 DEF ExtOK
<1>5. Right(ext)'
  BY <1>1 DEF Right, Singles, Depth, IsMany, IsRegistered, HasSide, Kids
<1>6. AskedOK(ext, asked)'
  BY <1>1 DEF AskedOK, Singles, Depth, IsMany, IsRegistered, Settled
<1> QED  BY <1>3, <1>4, <1>5, <1>6

-----------------------------------------------------------------------------
(* The invariant.                                                           *)

LEMMA InitInv == Init => IInv
<1> SUFFICES ASSUME Init  PROVE IInv
  OBVIOUS
<1>1. app \in DOMAIN Tables
  BY MessageAssumption DEF Init
<1>2. PICK r \in Roots[app] : path = <<r>>
  BY DEF Init
<1>3. r \in Names
  BY <1>1, <1>2, MembersNamed
<1>4. path \in Seq(Names) /\ path # <<>>
  BY <1>2, <1>3
<1>5. ~Held /\ MessageOK
  BY <1>1, <1>4 DEF Init, Held, MessageOK
<1>6. LifeOK
  BY DEF Init, LifeOK, NoLife, Lives
<1> QED  BY <1>5, <1>6 DEF IInv

LEMMA NestInv ==
  ASSUME IInv, Nest
  PROVE  IInv'
<1>1. PICK x \in Members(app, path[Depth]) : path' = Append(path, x)
  BY DEF Nest
<1>2. app' = app /\ phase' = phase /\ life' = life /\ phase = "compose"
  BY DEF Nest
<1>3. app \in DOMAIN Tables /\ path \in Seq(Names)
  BY DEF IInv, MessageOK
<1>4. x \in Names
  BY <1>3, MembersNamed
<1>5. path' \in Seq(Names) /\ path' # <<>>
  BY <1>1, <1>3, <1>4, AppendProperties
<1>6. ~Held' /\ MessageOK'
  BY <1>2, <1>3, <1>5 DEF Held, MessageOK
<1>7. LifeOK'
  BY <1>2 DEF IInv, LifeOK
<1> QED  BY <1>6, <1>7 DEF IInv

(* The lives of a message that commandcb() wraps and of one the program     *)
(* wraps.                                                                   *)
LEMMA LivesOf ==
  /\ Accept \in Lives /\ Accept.owner = "linked" /\ Accept.frees = 0
  /\ Wrap \in Lives /\ Wrap.owner = "wrapper" /\ Wrap.frees = 0 /\ Wrap.ansdel
  BY DEF Accept, Wrap, AnswerFromRequest, NoLife, Lives

LEMMA ReceiveInv ==
  ASSUME IInv, Receive
  PROVE  IInv'
<1>0. MessageOK /\ Depth \in Nat /\ Depth >= 2
  BY DepthNat DEF IInv, Receive
<1>1. /\ app' = app /\ path' = path /\ phase' = "read" /\ ext' = NewExt(Depth) /\ asked' = {}
      /\ life' = IF path[1] \in Handled THEN Accept ELSE Wrap
  BY DEF Receive
<1>2. at' \in 1..(Depth - 1) /\ kids' \in Spines \cup WithSide
  BY DEF Receive
<1>3. Depth' = Depth
  BY <1>1 DEF Depth
<1>4. MessageOK'
  BY <1>0, <1>1, <1>2, <1>3 DEF MessageOK
<1>5. LifeOK'
  BY <1>1, LivesOf DEF LifeOK
<1>6. /\ ExtOK(ext', Depth) /\ ext'.done = {} /\ ~ext'.threw
      /\ \A i \in 1..Depth : ext'.ref[i] # "twin"
  BY <1>0, <1>1, NewExtOK
<1>7. ExtOK(ext, Depth)' /\ Right(ext)'
  BY <1>3, <1>6 DEF Right, ExtOK
<1>8. AskedOK(ext, asked)'
  BY <1>1 DEF AskedOK
<1> QED  BY <1>4, <1>5, <1>7, <1>8 DEF IInv

(* An access, as a step.                                                    *)
LEMMA ReadInv ==
  ASSUME IInv, Held, message' = message, phase' = phase,
         Kept(ext, ext'), Right(ext'), AskedOK(ext', asked')
  PROVE  MessageOK' /\ (ExtOK(ext, Depth) /\ Right(ext) /\ AskedOK(ext, asked))'
<1>1. ExtOK(ext', Depth)
  BY DEF Kept
<1>2. phase' \in {"read", "stored"}
  BY DEF IInv, MessageOK, Held
<1> QED  BY <1>1, <1>2, SameMessage DEF IInv

LEMMA AskInv ==
  ASSUME IInv, NEW j \in 2..Depth, Ask(j)
  PROVE  IInv'
<1>1. MessageOK /\ Held
  BY DEF IInv, Held, Ask
<1>2. ExtOK(ext, Depth) /\ Right(ext) /\ AskedOK(ext, asked)
  BY <1>1 DEF IInv
<1>3. message' = message /\ phase' = phase /\ life' = life
  BY DEF Ask, message
<1>4. Kept(ext, ext') /\ Right(ext') /\ AskedOK(ext', asked')
  BY <1>1, <1>2, AskOK
<1>5. LifeOK'
  BY <1>3 DEF IInv, LifeOK, message
<1> QED  BY <1>1, <1>3, <1>4, <1>5, ReadInv DEF IInv

LEMMA AskSideInv ==
  ASSUME IInv, AskSide
  PROVE  IInv'
<1>1. MessageOK /\ Held
  BY DEF IInv, Held, AskSide
<1>2. ExtOK(ext, Depth) /\ Right(ext) /\ AskedOK(ext, asked)
  BY <1>1 DEF IInv
<1>3. message' = message /\ phase' = phase /\ life' = life
  BY DEF AskSide, message
<1>4. Kept(ext, ext') /\ Right(ext') /\ AskedOK(ext', asked')
  BY <1>1, <1>2, AskSideOK
<1>5. LifeOK'
  BY <1>3 DEF IInv, LifeOK, message
<1> QED  BY <1>1, <1>3, <1>4, <1>5, ReadInv DEF IInv

LEMMA CatchInv ==
  ASSUME IInv, Catch
  PROVE  IInv'
<1>1. MessageOK /\ Held
  BY DEF IInv, Held, Catch
<1>2. ExtOK(ext, Depth) /\ Right(ext) /\ AskedOK(ext, asked)
  BY <1>1 DEF IInv
<1>3. message' = message /\ phase' = phase /\ life' = life
  BY DEF Catch, message
<1>4. Kept(ext, ext') /\ Right(ext') /\ AskedOK(ext', asked')
  BY <1>2, CatchOK
<1>5. LifeOK'
  BY <1>3 DEF IInv, LifeOK, message
<1> QED  BY <1>1, <1>3, <1>4, <1>5, ReadInv DEF IInv

(* Nobody holds what is left of a message when it was forgotten.            *)
LEMMA ForgetOK ==
  ASSUME MessageOK, Forget, phase' = "sent"
  PROVE  MessageOK' /\ ~Held' /\ path'[1] = path[1]
<1>1. path' = <<path[1]>> /\ app' = app
  BY DEF Forget
<1>2. path[1] \in Names
  BY DepthNat DEF MessageOK, Depth
<1>3. path' \in Seq(Names) /\ path' # <<>> /\ Len(path') = 1 /\ path'[1] = path[1]
  BY <1>1, <1>2
<1>4. ~Held'
  BY <1>3 DEF Held, Depth
<1> QED  BY <1>1, <1>3, <1>4 DEF MessageOK

LEMMA AnswerInv ==
  ASSUME IInv, Answer
  PROVE  IInv'
<1>1. /\ phase = "read" /\ phase' = "sent" /\ path[1] \in Handled /\ life' = SendAnswer(life)
      /\ Held /\ MessageOK /\ Depth > 1
  BY DepthNat DEF IInv, Answer, Held, MessageOK
<1>2. path'[1] = path[1] => LifeOK'
  <2>1. life \in Lives /\ life.frees = 0
    BY <1>1 DEF IInv, LifeOK
  <2>2. life' \in Lives /\ life'.owner = "stack" /\ life'.frees = 0
    BY <1>1, <2>1 DEF SendAnswer, Lives
  <2> QED  BY <1>1, <2>2 DEF LifeOK
<1>3. MessageOK' /\ ~Held' /\ path'[1] = path[1]
  BY <1>1, ForgetOK DEF Answer
<1> QED  BY <1>2, <1>3 DEF IInv

LEMMA DestroyInv ==
  ASSUME IInv, Destroy
  PROVE  IInv'
<1>1. /\ phase = "read" /\ phase' = "sent" /\ path[1] \notin Handled
      /\ life' = DropWrapper(life) /\ Forget
  BY DEF Destroy
<1>2. MessageOK' /\ ~Held' /\ path'[1] = path[1]
  BY <1>1, ForgetOK DEF IInv, Handled
<1>3. life \in Lives /\ life.frees = 0 /\ life.ansdel
  BY <1>1 DEF IInv, LifeOK
<1>4. life' \in Lives /\ life'.owner = "freed" /\ life'.frees = 1
  <2>1. life' = [life EXCEPT !.owner = "freed", !.frees = 1]
    BY <1>1, <1>3 DEF DropWrapper
  <2> QED  BY <1>3, <2>1 DEF Lives
<1>5. LifeOK'
  BY <1>1, <1>4 DEF LifeOK
<1> QED  BY <1>2, <1>5 DEF IInv

(* A step that leaves message and extractors alone.                         *)
LEMMA AsideOK ==
  ASSUME IInv, message' = message, ext' = ext, asked' = asked, phase' = phase, LifeOK'
  PROVE  IInv'
<1>1. path' = path /\ Depth' = Depth
  BY DEF message, Depth
<1>2. CASE Held
  <2>1. ExtOK(ext', Depth) /\ Right(ext') /\ AskedOK(ext', asked') /\ MessageOK
    BY <1>2 DEF IInv
  <2>2. phase' \in {"read", "stored"}
    BY <1>2 DEF Held
  <2>3. MessageOK' /\ (ExtOK(ext, Depth) /\ Right(ext) /\ AskedOK(ext, asked))'
    BY <1>2, <2>1, <2>2, SameMessage
  <2> QED  BY <2>3 DEF IInv
<1>3. CASE ~Held
  <2>1. ~Held'
    BY <1>1, <1>3 DEF Held
  <2>2. MessageOK'
    BY <1>1, <2>1 DEF IInv, MessageOK, message
  <2> QED  BY <2>1, <2>2 DEF IInv
<1> QED  BY <1>2, <1>3

LEMMA StackFreesInv ==
  ASSUME IInv, StackFrees
  PROVE  IInv'
<1>1. /\ message' = message /\ ext' = ext /\ asked' = asked /\ phase' = phase /\ path' = path
      /\ life.owner = "stack" /\ life' = StackFree(life) /\ life \in Lives
  BY DEF StackFrees, message, IInv, LifeOK
<1>2. /\ life' \in Lives /\ life'.owner = "freed" /\ life'.frees = life.frees + 1
  <2> DEFINE n == life.frees + 1
  <2>1. n \in Nat
    BY <1>1 DEF Lives
  <2>2. life' = [life EXCEPT !.owner = "freed", !.frees = n]
    BY <1>1 DEF StackFree
  <2> HIDE DEF n
  <2>3. /\ life' \in Lives /\ life'.owner = "freed" /\ life'.frees = n
    BY <1>1, <2>1, <2>2 DEF Lives
  <2> QED  BY <2>3 DEF n
<1>3. phase \in {"stored", "sent"}
  BY <1>1 DEF IInv, LifeOK, MessageOK
<1>4. LifeOK'
  <2>1. CASE phase = "stored"
    BY <1>1, <1>2, <2>1 DEF IInv, LifeOK
  <2>2. CASE phase = "sent"
    <3>1. life.frees = 0
      BY <1>1, <2>2 DEF IInv, LifeOK
    <3> QED  BY <1>1, <1>2, <2>2, <3>1 DEF LifeOK
  <2> QED  BY <1>3, <2>1, <2>2
<1> QED  BY <1>1, <1>4, AsideOK

LEMMA DeleteRequestInv ==
  ASSUME IInv, DeleteRequest
  PROVE  IInv'
<1>1. /\ message' = message /\ ext' = ext /\ asked' = asked /\ phase' = phase /\ path' = path
      /\ phase = "sent" /\ life' = DropRequest(life) /\ life \in Lives
  BY DEF DeleteRequest, message, IInv, LifeOK
<1>2. /\ life' \in Lives /\ life'.owner = life.owner /\ life'.frees = life.frees
  BY <1>1 DEF DropRequest, Lives
<1>3. LifeOK'
  BY <1>1, <1>2 DEF IInv, LifeOK
<1> QED  BY <1>1, <1>3, AsideOK

LEMMA StoreMecInv ==
  ASSUME IInv, StoreMec
  PROVE  IInv'
<1>1. /\ message' = message /\ ext' = ext /\ asked' = asked /\ phase = "read"
      /\ phase' = "stored" /\ life' \in {life, SendAnswer(life)}
  BY DEF StoreMec, message
<1>2. Held /\ MessageOK
  BY <1>1 DEF Held, IInv
<1>3. ExtOK(ext', Depth) /\ Right(ext') /\ AskedOK(ext', asked')
  BY <1>1, <1>2 DEF IInv
<1>4. MessageOK' /\ (ExtOK(ext, Depth) /\ Right(ext) /\ AskedOK(ext, asked))'
  BY <1>1, <1>2, <1>3, SameMessage
<1>5. life \in Lives
  BY <1>1 DEF IInv, LifeOK
<1>6. life' \in Lives
  BY <1>1, <1>5 DEF SendAnswer, Lives
<1>7. LifeOK'
  BY <1>1, <1>6 DEF LifeOK
<1> QED  BY <1>4, <1>7 DEF IInv

(* The configuration in the Subscription-Data is one level deeper than in   *)
(* the CIR.                                                                 *)
LEMMA MecPathIs ==
  ASSUME MessageOK, Depth >= 2
  PROVE  MecPath \in Seq(Names) /\ Len(MecPath) = Depth + 1 /\ MecPath[1] = "UpdateLocationAnswer"
<1> DEFINE s == <<"UpdateLocationAnswer", "SubscriptionData">>
           t == SubSeq(path, 2, Depth)
<1>1. Depth \in Nat /\ Depth = Len(path) /\ path \in Seq(Names)
  BY DepthNat DEF MessageOK, Depth
<1>2. t \in Seq(Names) /\ Len(t) = Depth - 1
  BY <1>1, SubSeqProperties
<1>3. s \in Seq(Names) /\ Len(s) = 2 /\ s[1] = "UpdateLocationAnswer"
  BY DEF Names
<1> HIDE DEF s, t
<1>4. s \o t \in Seq(Names) /\ Len(s \o t) = Len(s) + Len(t)
      /\ \A i \in 1..(Len(s) + Len(t)) : (s \o t)[i] = IF i <= Len(s) THEN s[i] ELSE t[i - Len(s)]
  BY <1>2, <1>3, ConcatProperties
<1>5. (s \o t)[1] = s[1]
  BY <1>1, <1>2, <1>3, <1>4
<1> QED  BY <1>1, <1>2, <1>3, <1>4, <1>5 DEF MecPath, s, t

LEMMA ExpandMecInv ==
  ASSUME IInv, ExpandMec
  PROVE  IInv'
<1>1. /\ app' = "S6a" /\ path' = MecPath /\ at' = at + 1 /\ ext' = NewExt(Depth + 1)
      /\ asked' = {} /\ phase = "stored" /\ phase' = "read" /\ life' = Wrap /\ kids' = kids
  BY DEF ExpandMec
<1>2. /\ MessageOK /\ Depth \in Nat /\ Depth >= 2 /\ at \in 1..(Depth - 1)
      /\ kids \in Spines \cup WithSide
  BY <1>1, DepthNat DEF IInv, MessageOK, Held
<1>3. MecPath \in Seq(Names) /\ Len(MecPath) = Depth + 1 /\ MecPath[1] = "UpdateLocationAnswer"
  BY <1>2, MecPathIs
<1>4. Depth' = Depth + 1 /\ path' # <<>>
  BY <1>1, <1>2, <1>3 DEF Depth
<1>5. MessageOK'
  <2>1. Depth' >= 2 /\ at' \in 1..(Depth' - 1)
    BY <1>1, <1>2, <1>4
  <2> QED  BY <1>1, <1>2, <1>3, <1>4, <2>1, S6aIs DEF MessageOK
<1>6. path'[1] \notin Handled
  BY <1>1, <1>3 DEF Handled
<1>7. LifeOK'
  BY <1>1, <1>6, LivesOf DEF LifeOK
<1>8. /\ ExtOK(ext', Depth + 1) /\ ext'.done = {} /\ ~ext'.threw
      /\ \A i \in 1..(Depth + 1) : ext'.ref[i] # "twin"
  BY <1>1, <1>2, NewExtOK
<1>9. ExtOK(ext, Depth)' /\ Right(ext)'
  BY <1>4, <1>8 DEF Right, ExtOK
<1>10. AskedOK(ext, asked)'
  BY <1>1 DEF AskedOK
<1> QED  BY <1>5, <1>7, <1>9, <1>10 DEF IInv

LEMMA ExpandSubscriptionInv ==
  ASSUME IInv, ExpandSubscription
  PROVE  IInv'
<1>1. message' = message /\ phase = "compose" /\ phase' = "expanded" /\ life' = life
  BY DEF ExpandSubscription, message
<1>2. MessageOK' /\ ~Held'
  BY <1>1 DEF IInv, MessageOK, Held, message
<1>3. LifeOK'
  BY <1>1 DEF IInv, LifeOK
<1> QED  BY <1>2, <1>3 DEF IInv

LEMMA NextInv ==
  ASSUME IInv, [Next]_vars
  PROVE  IInv'
<1>1. CASE UNCHANGED vars
  <2>1. /\ message' = message /\ ext' = ext /\ asked' = asked /\ phase' = phase
        /\ life' = life /\ path' = path
    BY <1>1 DEF vars, message
  <2>2. LifeOK'
    BY <2>1 DEF IInv, LifeOK
  <2> QED  BY <2>1, <2>2, AsideOK
<1>2. CASE \E j \in 2..Depth : Ask(j)
  BY <1>2, AskInv
<1> QED  BY <1>1, <1>2, NestInv, ReceiveInv, AskSideInv, CatchInv, AnswerInv, StackFreesInv,
            DeleteRequestInv, DestroyInv, StoreMecInv, ExpandMecInv, ExpandSubscriptionInv
         DEF Next

(* Whatever the order in which a handler asks, the extractors stay those of *)
(* the message: nothing is found below a level that was not resolved, a     *)
(* resolved level of a message that respects the grammar has found each of  *)
(* its AVPs, every answered access is settled, and exactly one party frees  *)
(* the message (FDExtractor::resolve, FDMessage::m_msgdel).                 *)
THEOREM Invariance == Spec => []IInv
<1>1. Init => IInv
  BY InitInv
<1>2. IInv /\ [Next]_vars => IInv'
  BY NextInv
<1> QED  BY <1>1, <1>2, PTL DEF Spec

(* For every set of applications, a message that respects the grammar is    *)
(* read back exactly as it was sent, in whatever order its AVPs are asked   *)
(* for (FDExtractor::resolve).                                              *)
THEOREM SeesWhatWasSentHolds == Spec => []SeesWhatWasSent
<1>1. IInv => SeesWhatWasSent
  <2> SUFFICES ASSUME IInv, phase = "read", Singles
               PROVE  /\ ~ext.threw
                      /\ \A j \in asked \ {0} :
                            /\ ext.ref[j] = "spine"
                            /\ IsMany(j) => ext.list[j] = Occurrences(Kids(j - 1))
                      /\ 0 \in asked => ext.side
    BY DEF SeesWhatWasSent
  <2>1. Held /\ MessageOK /\ Depth \in Nat
    BY DepthNat DEF IInv, Held
  <2>2. Right(ext) /\ AskedOK(ext, asked)
    BY <2>1 DEF IInv
  <2>3. ASSUME NEW j \in asked \ {0}
        PROVE  ext.ref[j] = "spine" /\ (IsMany(j) => ext.list[j] = Occurrences(Kids(j - 1)))
    <3>1. j \in 0..Depth /\ j >= 2 /\ Settled(ext, j - 1) /\ \A k \in 2..j : IsRegistered(k)
      BY <2>2 DEF AskedOK
    <3>2. j - 1 \in 1..Depth /\ j \in 2..Depth /\ 2..(j - 1) \subseteq 2..j /\ j \in 2..j
      BY <2>1, <3>1
    <3>3. \A k \in 2..(j - 1) : IsRegistered(k)
      BY <3>1, <3>2
    <3>4. j - 1 \in ext.done
      BY <2>1, <2>2, <3>1, <3>2, <3>3, SettledDone
    <3> QED  BY <2>2, <3>1, <3>2, <3>4 DEF Right
  <2> QED  BY <2>2, <2>3 DEF Right, AskedOK
<1> QED  BY <1>1, Invariance, PTL

(* For every set of applications, a message is freed exactly once           *)
(* (the constructor of FDMessageAnswer, ~FDMessage, sendAnswer).            *)
THEOREM FreedOnceHolds == Spec => []FreedOnce
<1>1. IInv => FreedOnce
  <2> SUFFICES ASSUME IInv, phase = "sent"
               PROVE  life.frees + (IF life.owner = "stack" THEN 1 ELSE 0)
                                 + (IF life.req /\ life.reqdel THEN 1 ELSE 0) = 1
    BY DEF FreedOnce
  <2>1. ~life.reqdel /\ life \in Lives
    BY DEF IInv, LifeOK, Lives
  <2>2. \/ life.owner = "stack" /\ life.frees = 0
        \/ life.owner = "freed" /\ life.frees = 1
    BY DEF IInv, LifeOK
  <2> QED  BY <2>1, <2>2
<1> QED  BY <1>1, Invariance, PTL

(* What the accesses of FoundStays keep.                                    *)
LEMMA KeptFound ==
  ASSUME MessageOK, Held, ExtOK(ext, Depth), AskedOK(ext, asked), Kept(ext, ext')
  PROVE  /\ \A j \in asked \ {0} : ext'.ref[j] = ext.ref[j] /\ ext'.list[j] = ext.list[j]
         /\ ext.done \subseteq ext'.done
<1>0. Depth \in Nat
  BY DepthNat
<1>1. ext.done \subseteq ext'.done /\ ExtOK(ext', Depth)
  BY DEF Kept
<1>2. ASSUME NEW j \in asked \ {0}
      PROVE  ext'.ref[j] = ext.ref[j] /\ ext'.list[j] = ext.list[j]
  <2>1. j \in 2..Depth /\ Settled(ext, j - 1)
    BY <1>0 DEF AskedOK
  <2>2. CASE j - 1 \in ext.done
    BY <2>1, <2>2 DEF Kept
  <2>3. CASE j - 1 \notin ext.done
    <3>1. PICK k \in 1..((j - 1) - 1) : k \in ext.done /\ ext.ref[k + 1] = "none"
      BY <2>1, <2>3 DEF Settled
    <3>2. k + 1 \in 2..Depth /\ (k + 1) - 1 = k /\ k + 1 \in 1..Depth /\ j \in 1..Depth /\ k + 1 < j
      BY <1>0, <2>1
    <3>3. ext'.ref[k + 1] = "none"
      BY <3>1, <3>2 DEF Kept
    <3>4. ext.ref[j] = "none" /\ ext.list[j] = <<>>
      BY <3>1, <3>2 DEF ExtOK
    <3>5. ext'.ref[j] = "none" /\ ext'.list[j] = <<>>
      BY <1>1, <3>2, <3>3 DEF ExtOK
    <3> QED  BY <3>4, <3>5
  <2> QED  BY <2>2, <2>3
<1> QED  BY <1>1, <1>2

(* For every set of applications, what an accessor handed out is not        *)
(* replaced by a later access, whether it throws or not (setAvp,            *)
(* setReference).                                                           *)
THEOREM FoundStaysHolds == Spec => FoundStays
<1> DEFINE Stays == phase = "read" /\ phase' = "read" /\ message' = message =>
        /\ \A j \in asked \ {0} : ext'.ref[j] = ext.ref[j] /\ ext'.list[j] = ext.list[j]
        /\ ext.done \subseteq ext'.done
<1>1. IInv /\ [Next]_vars => [Stays]_vars
  <2> SUFFICES ASSUME IInv, Next, phase = "read", phase' = "read", message' = message
               PROVE  /\ \A j \in asked \ {0} :
                            ext'.ref[j] = ext.ref[j] /\ ext'.list[j] = ext.list[j]
                      /\ ext.done \subseteq ext'.done
    OBVIOUS
  <2>1. MessageOK /\ Held
    BY DEF IInv, Held
  <2>2. ExtOK(ext, Depth) /\ Right(ext) /\ AskedOK(ext, asked)
    BY <2>1 DEF IInv
  <2>3. CASE \E j \in 2..Depth : Ask(j)
    BY <2>1, <2>2, <2>3, AskOK, KeptFound
  <2>4. CASE AskSide
    BY <2>1, <2>2, <2>4, AskSideOK, KeptFound
  <2>5. CASE Catch
    BY <2>1, <2>2, <2>5, CatchOK, KeptFound
  <2>6. CASE StackFrees \/ DeleteRequest
    BY <2>6 DEF StackFrees, DeleteRequest
  <2>7. ~(Nest \/ Receive \/ Answer \/ Destroy \/ StoreMec \/ ExpandMec \/ ExpandSubscription)
    BY DEF Nest, Receive, Answer, Destroy, StoreMec, ExpandMec, ExpandSubscription
  <2> QED  BY <2>3, <2>4, <2>5, <2>6, <2>7 DEF Next
<1>2. Spec => [][Stays]_vars
  BY <1>1, Invariance, PTL DEF Spec
<1> QED  BY <1>2 DEF FoundStays

=============================================================================
