-------------------------- MODULE DiameterMessage --------------------------
(***************************************************************************)
(* A Diameter message in the wrapper over freeDiameter (util/src/fd.cpp):  *)
(* the lazy extractors that read it, who frees it, and the monitoring      *)
(* configurations that travel from a CIR through JSON into a ULA.          *)
(*                                                                         *)
(* The message is a spine of nested AVPs, path, one of whose levels (at)   *)
(* may carry more than the AVP of the spine: an AVP that no extractor      *)
(* registers ("stray"), a second occurrence of the spine's AVP ("twin"),   *)
(* another registered AVP ("side").  Level 1 is the command; the extractor *)
(* of level i reads the children Kids(i), one of which is level i + 1.     *)
(***************************************************************************)
EXTENDS Naturals, SequencesExt, FiniteSets, S6aGrammar, S6tGrammar, SmsGrammar

CONSTANTS
    Apps,       \* the applications whose messages are read
    MaxMembers, \* bound: members of the object in a provisioned document
    FdJsonGetJSON(_, _, _), \* the JSON of an AVP: types, name, nested AVPs
    FdJsonAddAvps(_, _)     \* the AVPs of a document: types, members

Tables == [S6a |-> [members |-> S6aMembers, kinds |-> S6aKinds],
           S6t |-> [members |-> S6tMembers, kinds |-> S6tKinds],
           S6c |-> [members |-> S6cMembers, kinds |-> S6cKinds],
           SGd |-> [members |-> SGdMembers, kinds |-> SGdKinds]]

ASSUME MessageAssumption == Apps \subseteq DOMAIN Tables /\ MaxMembers \in Nat

Members(a, c) == IF c \in DOMAIN Tables[a].members THEN Tables[a].members[c] ELSE {}
KindsOf(a, c) == IF c \in DOMAIN Tables[a].kinds THEN Tables[a].kinds[c]
                 ELSE [many |-> {}, grouped |-> {}]

\* The extractors that are built over a message: no class has them as a member.
Roots == [a \in DOMAIN Tables |->
            DOMAIN Tables[a].members
              \ UNION {KindsOf(a, c).grouped : c \in DOMAIN Tables[a].members}]

\* The commands that a registered handler answers.
Handled == {"UpdateLocationRequest", "AuthenticationInformationRequest",
            "PurgeUeRequest", "ConfigurationInformationRequest",
            "NiddInformationRequest", "SendRoutingInfoForSmRequest",
            "MoForwardShortMessageRequest"}

\* The data types of the AVPs of a Monitoring-Event-Configuration and of a
\* Subscription-Data, as freeDiameter's dictionary gives them.
AvpTypes == [MonitoringEventConfiguration |-> "Grouped",
    UeReachabilityConfiguration |-> "Grouped",
    LocationInformationConfiguration |-> "Grouped",
    ScefId |-> "DiameterIdentity", ScefRealm |-> "DiameterIdentity",
    ChargedParty |-> "UTF8String", MonitoringDuration |-> "Time",
    ScefReferenceId |-> "Unsigned32", MonitoringType |-> "Unsigned32",
    ScefReferenceIdForDeletion |-> "Unsigned32",
    MaximumNumberOfReports |-> "Unsigned32",
    MaximumDetectionTime |-> "Unsigned32", AssociationType |-> "Integer32",
    DlBufferingSuggestedPacketCount |-> "Integer32",
    MaximumLatency |-> "Unsigned32", ReachabilityType |-> "Unsigned32",
    MaximumResponseTime |-> "Unsigned32",
    MonteLocationType |-> "Unsigned32", Accuracy |-> "Unsigned32",
    stray |-> "Unsigned32",
    SubscriptionData |-> "Grouped", Msisdn |-> "OctetString",
    SubscriberStatus |-> "Unsigned32", ContextIdentifier |-> "Unsigned32"]

VARIABLES
    app, path, at, kids,
    val,            \* the class of octets the last AVP of the spine holds
    ext,            \* the extractors over the message
    asked,          \* levels whose accessor returned; 0 is the side AVP
    phase,
    life,           \* who is to free the message, and how often it was freed
    doc             \* the JSON text that is stored, and how it was expanded

vars == <<app, path, at, kids, val, ext, asked, phase, life, doc>>
message == <<app, path, at, kids, val>>

-----------------------------------------------------------------------------
(* The message.                                                             *)

Depth == Len(path)
IsMany(j) == path[j] \in KindsOf(app, path[j - 1]).many
IsGrouped(j) == path[j] \in KindsOf(app, path[j - 1]).grouped
IsRegistered(j) == path[j] \in Members(app, path[j - 1])
Kids(i) == IF i = Depth THEN <<>> ELSE IF i = at THEN kids ELSE <<"spine">>

Sides(a, c, x) == Members(a, c) \ ({x} \cup KindsOf(a, c).many \cup KindsOf(a, c).grouped)
Side == CHOOSE s \in Sides(app, path[at], path[at + 1]) : TRUE

Spines == {<<"spine">>, <<"stray", "spine">>, <<"spine", "twin">>,
           <<"twin", "spine">>}
WithSide == {<<"spine", "side">>, <<"side", "spine">>, <<"spine", "twin", "side">>}

NoExt == [done |-> {}, ref |-> <<>>, list |-> <<>>, side |-> FALSE, threw |-> FALSE]

\* FDExtractor(FDMessage&): only the root has a reference.
NewExt(n) == [done |-> {}, ref |-> [j \in 1..n |-> IF j = 1 THEN "spine" ELSE "none"],
              list |-> [j \in 1..n |-> <<>>], side |-> FALSE, threw |-> FALSE]

-----------------------------------------------------------------------------
(* FDExtractor::resolve().                                                  *)

\* etAvp: setAvp() throws when the member already has its AVP.
SeeAvp(e, j, tok) == IF e.ref[j] = "none" THEN [e EXCEPT !.ref[j] = tok]
                     ELSE [e EXCEPT !.threw = TRUE]

\* etExtractor: setReference() overwrites.
SeeGroup(e, j, tok) == [e EXCEPT !.ref[j] = tok]

SeeMany_First(e, j, tok) ==
    IF e.list[j] = <<>> THEN [e EXCEPT !.list[j] = <<tok>>, !.ref[j] = tok] ELSE e

\* etAvpList and etExtractorList: a new element is appended.  Its reference
\* never changes; ref stands for the element of the spine.
SeeMany(e, j, tok) == [e EXCEPT !.list[j] = Append(@, tok),
                                !.ref[j] = IF tok = "spine" THEN tok ELSE @]

\* One turn of the loop over the children of level i.
See(e, i, tok) ==
    CASE e.threw \/ tok = "stray" -> e
      [] ~e.threw /\ tok = "side" -> [e EXCEPT !.side = TRUE]
      [] ~e.threw /\ tok \in {"spine", "twin"} ->
           CASE ~IsRegistered(i + 1) -> e
             [] IsRegistered(i + 1) /\ IsMany(i + 1) -> SeeMany(e, i + 1, tok)
             [] IsRegistered(i + 1) /\ ~IsMany(i + 1) ->
                  IF IsGrouped(i + 1) THEN SeeGroup(e, i + 1, tok)
                  ELSE SeeAvp(e, i + 1, tok)

\* The loop over the children toks of level i.
SeeAll(e, i, toks) ==
    LET after[k \in 0..Len(toks)] == IF k = 0 THEN e ELSE See(after[k - 1], i, toks[k])
    IN  after[Len(toks)]

\* A twin has no children.
Below(e, i) == IF e.ref[i] = "spine" THEN Kids(i) ELSE <<>>

Walk_Forget(e, i) == SeeAll(e, i, Below(e, i))

\* The walk.  The extractor is marked resolved first, so what the walk had not
\* reached when it threw is never looked for again.
Walk(e, i) == SeeAll([e EXCEPT !.done = @ \cup {i}], i, Below(e, i))

\* An extractor without a reference first has its parent resolved.
Resolve(e, i) ==
    LET up[k \in 1..i] ==
            IF k \in e.done THEN e
            ELSE IF e.ref[k] # "none" THEN Walk(e, k)
            ELSE LET p == up[k - 1]
                 IN  IF p.threw \/ p.ref[k] = "none" THEN p ELSE Walk(p, k)
    IN  up[i]

\* What an accessor of level j does: FDExtractor::exists(), getList() of the
\* lists, FDExtractorAvp::exists().
Access(e, j) ==
    CASE IsMany(j) -> IF e.list[j] = <<>> THEN Resolve(e, j - 1) ELSE e
      [] ~IsMany(j) /\ IsGrouped(j) -> Resolve(e, j)
      [] ~IsMany(j) /\ ~IsGrouped(j) ->
            IF e.ref[j] = "none" THEN Resolve(e, j - 1) ELSE e

\* A handler reaches a level below a list only through an element it was given.
Reachable(j) ==
    /\ \A k \in 2..j : IsRegistered(k)
    /\ \A k \in 2..(j - 1) : IsMany(k) => k \in asked /\ ext.ref[k] = "spine"

-----------------------------------------------------------------------------
(* Who frees the message.                                                   *)

NoLife == [owner |-> "none", reqdel |-> FALSE, ansdel |-> FALSE, req |-> FALSE, frees |-> 0]

\* FDMessageAnswer(req): neither object will free the message, which is the
\* query of the answer now.
AnswerFromRequest_KeepDelete(l) == [l EXCEPT !.owner = "linked"]
AnswerFromRequest(l) == [l EXCEPT !.owner = "linked", !.reqdel = FALSE, !.ansdel = FALSE]

\* commandcb() wraps the request, and the handler constructs its answer.
Accept == AnswerFromRequest([NoLife EXCEPT !.owner = "wrapper", !.reqdel = TRUE, !.req = TRUE])

\* anscb(), and a message the program builds: the wrapper frees it.
Wrap == [NoLife EXCEPT !.owner = "wrapper", !.ansdel = TRUE]

\* ~FDMessage() of the request object.
DropRequest(l) ==
    [l EXCEPT !.req = FALSE,
              !.frees = IF l.reqdel THEN @ + 1 ELSE @]

\* ~FDMessage() of the object that wraps a message which was not sent.
DropWrapper(l) == [l EXCEPT !.owner = "freed", !.frees = IF l.ansdel THEN @ + 1 ELSE @]

\* sendAnswer(): fd_msg_send() takes the answer, and with it the query.
SendAnswer(l) == [l EXCEPT !.owner = "stack"]

StackFree(l) == [l EXCEPT !.owner = "freed", !.frees = @ + 1]

-----------------------------------------------------------------------------
(* The AVPs below a level as the JSON conversion sees them.                 *)

NameOf(i, tok) ==
    CASE tok = "stray" -> "stray" [] tok = "side" -> Side [] OTHER -> path[i + 1]

Nodes(i) ==
    LET below[l \in i..Depth] ==
            [k \in 1..Len(Kids(l)) |->
                LET tok == Kids(l)[k]
                    last == l + 1 = Depth
                IN  [name |-> NameOf(l, tok), tok |-> tok,
                     val |-> IF tok = "spine" /\ last THEN val ELSE "plain",
                     kids |-> IF tok = "spine" /\ ~last THEN below[l + 1] ELSE <<>>]]
    IN  below[i]

IsMec == Depth >= 3 /\ path[2] = "MonitoringEventConfiguration"
MecPath == <<"UpdateLocationAnswer", "SubscriptionData">> \o SubSeq(path, 2, Depth)

\* The value of the last AVP of the spine in an expanded tree.
LeafOf(nodes) ==
    LET spine(ns) == SelectSeq(ns, LAMBDA n : n.tok = "spine")
        below[l \in 2..Depth] ==
            IF l = 2 THEN spine(nodes)
            ELSE IF below[l - 1] = <<>> THEN <<>> ELSE spine(below[l - 1][1].kids)
    IN  IF below[Depth] = <<>> THEN "lost" ELSE below[Depth][1].val

\* Documents an operator provisions as subscription data.
GoodMember == [name |-> "SubscriberStatus", tok |-> "good", form |-> "number", body |-> "plain"]
BadMember == [name |-> "SubscriberStatus", tok |-> "bad", form |-> "raw", body |-> "plain"]
UnknownMember == [name |-> "NoSuchAvp", tok |-> "bad", form |-> "number", body |-> "plain"]
ListMember(s) == [name |-> "ContextIdentifier", tok |-> "list", form |-> "array", body |-> s]
Menu == {GoodMember, BadMember, UnknownMember, ListMember(<<GoodMember, GoodMember>>),
         ListMember(<<GoodMember, BadMember, GoodMember>>)}

NoDoc == [stored |-> <<>>, out |-> "none", from |-> "none", sent |-> "plain"]

-----------------------------------------------------------------------------
(* Behaviour.                                                               *)

Init ==
    /\ app \in Apps /\ \E r \in Roots[app] : path = <<r>>
    /\ at = 1 /\ kids = <<"spine">> /\ val = "plain"
    /\ ext = NoExt /\ asked = {} /\ phase = "compose" /\ life = NoLife /\ doc = NoDoc

\* The sender nests one more AVP.
Nest ==
    /\ phase = "compose"
    /\ \E x \in Members(app, path[Depth]) : path' = Append(path, x)
    /\ UNCHANGED <<app, at, kids, val, ext, asked, phase, life, doc>>

\* The classes of octets the conversions tell apart: text may hold a zero or
\* read as hexadecimal digits, a Time may not be four octets long.
OctetClasses == [ScefId |-> {"plain", "nul", "hexlike"},
                 ChargedParty |-> {"plain", "nul", "hexlike"},
                 MonitoringDuration |-> {"plain", "misfit"}]

\* The message arrives: with one of its levels disturbed, and with octets of
\* any class in the last AVP of a monitoring configuration.
Receive ==
    /\ phase = "compose" /\ Depth >= 2
    /\ \E i \in 1..(Depth - 1) :
        /\ at' = i
        /\ kids' \in IF Sides(app, path[i], path[i + 1]) = {} THEN Spines
                     ELSE Spines \cup WithSide
    /\ val' \in IF app = "S6t" /\ IsMec /\ path[Depth] \in DOMAIN OctetClasses
               THEN OctetClasses[path[Depth]] ELSE {"plain"}
    /\ ext' = NewExt(Depth) /\ asked' = {} /\ phase' = "read"
    /\ life' = IF path[1] \in Handled THEN Accept ELSE Wrap
    /\ UNCHANGED <<app, path, doc>>

Ask(j) ==
    /\ phase = "read" /\ ~ext.threw /\ j \notin asked /\ Reachable(j)
    /\ ext' = Access(ext, j)
    /\ asked' = IF ext'.threw THEN asked ELSE asked \cup {j}
    /\ UNCHANGED <<message, phase, life, doc>>

AskSide ==
    /\ phase = "read" /\ ~ext.threw /\ 0 \notin asked
    /\ \E k \in DOMAIN kids : kids[k] = "side"
    /\ Reachable(at) /\ (at > 1 /\ IsMany(at) => ext.ref[at] = "spine")
    /\ ext' = IF ext.side THEN ext ELSE Resolve(ext, at)
    /\ asked' = IF ext'.threw THEN asked ELSE asked \cup {0}
    /\ UNCHANGED <<message, phase, life, doc>>

\* A handler catches the exception of an access and may ask again.
Catch ==
    /\ phase = "read" /\ ext.threw
    /\ ext' = [ext EXCEPT !.threw = FALSE]
    /\ UNCHANGED <<message, asked, phase, life, doc>>

\* What is left of the message when it is not the reader's any more.
Forget ==
    /\ path' = <<path[1]>> /\ at' = 1 /\ kids' = <<"spine">> /\ val' = "plain"
    /\ ext' = NoExt /\ asked' = {} /\ UNCHANGED app

\* From here on the request is freeDiameter's; what a handler still reads of
\* it is undefined and not modelled.
Answer ==
    /\ phase = "read" /\ path[1] \in Handled /\ ~ext.threw
    /\ life' = SendAnswer(life) /\ phase' = "sent" /\ Forget /\ UNCHANGED doc

\* freeDiameter has sent the answer and frees it with its query.
StackFrees ==
    /\ life.owner = "stack"
    /\ life' = StackFree(life)
    /\ UNCHANGED <<message, ext, asked, phase, doc>>

DeleteRequest ==
    /\ phase = "sent" /\ life.req
    /\ life' = DropRequest(life)
    /\ UNCHANGED <<message, ext, asked, phase, doc>>

\* The wrapper of an answer, or of a message of the program, goes out of scope.
Destroy ==
    /\ phase = "read" /\ path[1] \notin Handled /\ ~ext.threw
    /\ life' = DropWrapper(life) /\ phase' = "sent" /\ Forget /\ UNCHANGED doc

-----------------------------------------------------------------------------
(* JSON.                                                                    *)

\* The handler of a CIR stores each configuration as JSON (getJson).  The
\* dictionary need not have an entry for the stray AVP.  A runtimeInfo leaves
\* the handler with an error to answer, a runtimeError calls a null errfunc.
StoreMec ==
    /\ phase = "read" /\ app = "S6t" /\ path[1] = "ConfigurationInformationRequest"
    /\ IsMec /\ 2 \in asked /\ at >= 2
    /\ \E known \in BOOLEAN :
        LET types == IF known THEN AvpTypes ELSE [AvpTypes EXCEPT !.stray = "unknown"]
            m == FdJsonGetJSON(types, path[2], Nodes(2))
        IN  /\ doc' = [stored |-> m.members, out |-> "none", sent |-> val,
                       from |-> CASE m.err = "none" -> "mec" [] m.err = "info" -> "thrown"
                                  [] m.err = "error" -> "died"]
            /\ life' = IF m.err = "error" THEN life ELSE SendAnswer(life)
    /\ phase' = "stored"
    /\ UNCHANGED <<message, ext, asked>>

\* A later ULR expands it into the Subscription-Data of its answer (addJson),
\* whose extractor is the one the MME side of the grammar has.
ExpandMec ==
    /\ phase = "stored" /\ doc.from = "mec"
    /\ LET out == FdJsonAddAvps(AvpTypes, doc.stored)
       IN  /\ doc' = [doc EXCEPT !.out = out]
           /\ val' = LeafOf(out.avps)
    /\ app' = "S6a" /\ path' = MecPath /\ at' = at + 1
    /\ ext' = NewExt(Depth + 1) /\ asked' = {} /\ phase' = "read" /\ life' = Wrap
    /\ UNCHANGED kids

\* phase2 of a ULR expands the subscription data an operator provisioned.
ExpandSubscription ==
    /\ phase = "compose" /\ path = <<"UpdateLocationAnswer">>
    /\ \E ms \in UNION {[1..n -> Menu] : n \in 0..MaxMembers} :
        LET d == <<[name |-> "SubscriptionData", tok |-> "spine", form |-> "object",
                    body |-> ms]>>
        IN  doc' = [stored |-> ms, out |-> FdJsonAddAvps(AvpTypes, d),
                    from |-> "provisioned", sent |-> "plain"]
    /\ phase' = "expanded"
    /\ UNCHANGED <<message, ext, asked, life>>

Next ==
    \/ Nest \/ Receive \/ AskSide \/ Catch \/ Answer \/ StackFrees \/ DeleteRequest
    \/ Destroy \/ StoreMec \/ ExpandMec \/ ExpandSubscription
    \/ \E j \in 2..Depth : Ask(j)

Spec == Init /\ [][Next]_vars

-----------------------------------------------------------------------------
(* Properties.                                                              *)

\* No AVP that the grammar declares single occurs twice.
Singles ==
    \A k \in DOMAIN kids : kids[k] = "twin" => Depth > at /\ IsMany(at + 1)

\* The occurrences of the spine's AVP among the children toks.
Occurrences(toks) ==
    FlattenSeq([k \in DOMAIN toks |-> IF toks[k] \in {"spine", "twin"} THEN <<toks[k]>> ELSE <<>>])

(* A message that respects the grammar is read back exactly: whatever the   *)
(* order of the accesses, every AVP asked for is found, a list has each of  *)
(* its occurrences once and in order, and no access throws                  *)
(* (FDExtractor::resolve).                                                  *)
SeesWhatWasSent ==
    phase = "read" /\ Singles =>
        /\ ~ext.threw
        /\ \A j \in asked \ {0} :
            /\ ext.ref[j] = "spine"
            /\ IsMany(j) => ext.list[j] = Occurrences(Kids(j - 1))
        /\ 0 \in asked => ext.side

(* An AVP once found stays the one that was found: a pointer an accessor     *)
(* handed out is not replaced by a later access, not even by one that throws *)
(* because a single AVP occurs twice (setAvp, setReference).                 *)
FoundStays ==
    [][phase = "read" /\ phase' = "read" /\ message' = message =>
        /\ \A j \in asked \ {0} : ext'.ref[j] = ext.ref[j] /\ ext'.list[j] = ext.list[j]
        /\ ext.done \subseteq ext'.done]_vars

(* A message that a handler answers, and one that the wrapper owns, is freed *)
(* exactly once: at any time after the answer was sent, either it is freed   *)
(* or exactly one party is still to free it (m_msgdel, commandcb, anscb).    *)
FreedOnce ==
    phase = "sent" =>
        life.frees + (IF life.owner = "stack" THEN 1 ELSE 0)
                   + (IF life.req /\ life.reqdel THEN 1 ELSE 0) = 1

(* A monitoring configuration that is stored survives the database: it       *)
(* expands without an error, which nobody would report (errfunc is NULL      *)
(* there), and the last AVP has the octets the SCEF sent, unless a zero octet*)
(* cut them (the time text of Monitoring-Duration is outside the model).     *)
(* Two things only keep it from being stored: a Monitoring-Duration that is  *)
(* not four octets long, and an AVP the dictionary does not know, which is   *)
(* the end of the process.                                                   *)
MecSurvivesJson ==
    /\ doc.from = "thrown" => doc.sent = "misfit" /\ path[Depth] = "MonitoringDuration"
    /\ doc.from = "died" => \E k \in DOMAIN kids : kids[k] = "stray"
    /\ doc.from = "mec" /\ phase = "read" =>
        /\ doc.out.err = "none" /\ doc.out.reports = 0
        /\ val = (CASE path[Depth] = "MonitoringDuration" -> "reparsed"
                   [] doc.sent = "nul" -> "cut"
                   [] OTHER -> doc.sent)

\* What a member of a provisioned object should leave in the message.
ExpectedOf(m) ==
    CASE m.tok = "good" -> <<"good">>
      [] m.tok = "bad" -> <<>>
      [] m.tok = "list" -> IF Len(m.body) = 2 THEN <<"good", "good">> ELSE <<"good">>

(* A member of the subscription data that cannot be converted costs that     *)
(* member (of a list, the elements from the bad one on) and no other, and is *)
(* reported: the loop of fdJsonAddAvps goes on with the next member.         *)
BadMemberContained ==
    doc.from = "provisioned" =>
        /\ doc.out.err = "none" /\ Len(doc.out.avps) = 1
        /\ [k \in DOMAIN doc.out.avps[1].kids |-> doc.out.avps[1].kids[k].tok]
             = FlattenSeq([k \in DOMAIN doc.stored |-> ExpectedOf(doc.stored[k])])
        /\ doc.out.reports = Cardinality({k \in DOMAIN doc.stored :
              \/ doc.stored[k].tok = "bad"
              \/ doc.stored[k].tok = "list" /\ Len(doc.stored[k].body) = 3})

=============================================================================
