---- MODULE FDJson ----
(* The conversion between AVPs and JSON of util/src/fdjson.cpp.

   An AVP is a record of its name, the token that identifies the occurrence,
   its value and the AVPs nested in it.  A JSON member is a record of its
   name, its form and its body.  The octets of a value are abstracted to the
   class the conversion tells apart: "plain" text, octets with a zero in them
   ("nul"), text that reads as a hexadecimal string ("hexlike"), or octets
   that do not have the length of the type ("misfit"). *)
EXTENDS Naturals, Sequences, SequencesExt

\* Base types whose JSON form is a number (fd_dict base types, not derived).
NumberTypes == {"Unsigned32", "Integer32"}

\* Derived octet-string types that are written as their own text.
TextTypes == {"UTF8String", "DiameterIdentity"}

DerivedTypes == TextTypes \cup {"Address", "Time"}

\* AvpDictionaryEntry::init(): the data type of an AVP by its name, where
\* types is what freeDiameter's dictionary holds.
TypeOf(types, name) ==
    IF name \in DOMAIN types THEN types[name] ELSE "unknown"

OctetForm_AlwaysHex(d, type, val) == "hex"

(* How fdJsonAddMembers() writes an octet string.  d is the derived type the
   loop holds at this AVP: isDerived and derivedData are declared outside the
   loop and set only when a type is found, so a plain OctetString is written
   with the derived type of an earlier AVP of the same group, if there is one.
   A Time or an Address of the wrong length throws, and so does a plain value
   that is taken for one. *)
OctetForm(d, type, val) ==
    CASE d = "none" -> "hex"
      [] d \in TextTypes -> "raw"
      [] d \in DerivedTypes \ TextTypes ->
            IF d = type /\ val # "misfit" THEN "text" ELSE "throws"

RECURSIVE AddMembers(_, _)

\* One turn of the loop of fdJsonAddMembers().  err is "info" after a
\* runtimeInfo and "error" after a runtimeError, which an AVP without dictionary
\* entry is.
AddMember(types, acc, a) ==
    LET type == TypeOf(types, a.name)
        d == IF type \in DerivedTypes THEN type ELSE acc.derived
        octets == OctetForm(d, type, a.val)
        put(form, body) ==
            Append(acc.members, [name |-> a.name, tok |-> a.tok,
                                 form |-> form, body |-> body])
    IN  CASE acc.err # "none" -> acc
          [] acc.err = "none" /\ type = "unknown" -> [acc EXCEPT !.err = "error"]
          [] acc.err = "none" /\ type \in NumberTypes ->
                [acc EXCEPT !.members = put("number", a.val)]
          [] acc.err = "none" /\ type = "Grouped" ->
                LET g == AddMembers(types, a.kids)
                IN  [acc EXCEPT !.members = put("object", g.members), !.err = g.err]
          [] acc.err = "none" /\ type \in DerivedTypes \cup {"OctetString"} ->
                IF octets = "throws" THEN [acc EXCEPT !.err = "info"]
                ELSE [acc EXCEPT !.members = put(octets, a.val), !.derived = d]

\* fdJsonAddMembers(): the members of the object for a group.
AddMembers(types, kids) ==
    FoldLeft(LAMBDA acc, a : AddMember(types, acc, a),
             [members |-> <<>>, derived |-> "none", err |-> "none"], kids)

\* fdJsonGetJSON(): the text of an AVP is an object with one member, named
\* after the AVP (fdJsonGetName).  It catches a runtimeError only, to call
\* errfunc.
GetJSON(types, name, kids) ==
    LET m == AddMembers(types, kids)
    IN  [members |-> <<[name |-> name, tok |-> "spine", form |-> "object",
                        body |-> m.members]>>,
         err |-> m.err]

\* isHexString(): on the classes of octets.
IsHexString(val) == val = "hexlike"

(* The value an octet-string AVP gets back from a JSON string: the hex form
   is decoded for an OctetString, also when plain text looks like it; any
   other text is copied up to its first zero (strlen).  The text of a Time or
   an Address goes through STime or inet_pton(), which are not modelled: the
   value is left open. *)
OctetsFromText(type, form, val) ==
    CASE form = "hex" -> IF type = "OctetString" THEN val ELSE "hextext"
      [] form = "text" -> "reparsed"
      [] form = "raw" ->
            CASE val = "nul" -> "cut"
              [] IsHexString(val) /\ type = "OctetString" -> "decoded"
              [] OTHER -> val

NoAvps == [avps |-> <<>>, err |-> "none", reports |-> 0]

\* AVP::addTo(): the AVP becomes the last child of the message or group.
AddTo(acc, m, val, kids) ==
    [acc EXCEPT !.avps = Append(@, [name |-> m.name, tok |-> m.tok,
                                    val |-> val, kids |-> kids])]

RECURSIVE AddAvps(_, _)

\* fdJsonAddAvp(): adds one member to the AVPs of acc.  err is "info" after a
\* runtimeInfo and "error" after a runtimeError.
RECURSIVE AddAvp(_, _, _)
AddAvp(types, acc, m) ==
    LET type == TypeOf(types, m.name)
    IN  CASE acc.err # "none" -> acc
          [] acc.err = "none" /\ type = "unknown" -> [acc EXCEPT !.err = "info"]
          [] acc.err = "none" /\ type # "unknown" ->
             CASE m.form = "number" ->
                    IF type \in NumberTypes
                    THEN AddTo(acc, m, m.body, <<>>)
                    ELSE [acc EXCEPT !.err = "info"]
               [] m.form \in {"hex", "raw", "text"} ->
                    IF type \in NumberTypes \cup {"Grouped"}
                    THEN [acc EXCEPT !.err = "info"]
                    ELSE AddTo(acc, m, OctetsFromText(type, m.form, m.body), <<>>)
               [] m.form = "array" ->
                    FoldLeft(LAMBDA s, e : AddAvp(types, s, [e EXCEPT !.name = m.name]),
                             acc, m.body)
               [] m.form = "object" ->
                    LET g == AddAvps(types, m.body)
                    IN  [AddTo(acc, m, "plain", g.avps) EXCEPT
                                    !.reports = @ + g.reports,
                                    !.err = IF g.err = "error" \/ type # "Grouped"
                                            THEN "error" ELSE "none"]
               [] OTHER -> [acc EXCEPT !.err = "info"]

AddNested_NoCatch(types, acc, m) == AddAvp(types, acc, m)

\* fdJsonAddAvps() on a group: a runtimeInfo of one member is reported and
\* the loop goes on with the next member.
AddNested(types, acc, m) ==
    LET r == AddAvp(types, acc, m)
    IN  IF r.err = "info"
        THEN [r EXCEPT !.err = "none", !.reports = @ + 1]
        ELSE r

AddAvps(types, members) ==
    FoldLeft(LAMBDA acc, m : AddNested(types, acc, m), NoAvps, members)

\* fdJsonAddAvps() on a document: only a runtimeError is caught here, so a
\* runtimeInfo of a top-level member leaves the function ("info").
ExpandDocument(types, members) ==
    FoldLeft(LAMBDA acc, m : AddAvp(types, acc, m), NoAvps, members)
====
