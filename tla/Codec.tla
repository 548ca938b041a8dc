------------------------------- MODULE Codec -------------------------------
(***************************************************************************)
(* A message on its way from one node to another, or a value between a     *)
(* write and a later read of the store: it is marshalled, something may    *)
(* happen to the bytes, and the generated Unmarshal reads them.  What may  *)
(* happen is what the wire format is meant to cope with: the bytes are cut *)
(* off, a sender with a newer schema adds fields this node does not know,  *)
(* or a second encoding of the type follows the first.                     *)
(***************************************************************************)
EXTENDS ProtoWire

Dns == INSTANCE DnsCodec
Dao == INSTANCE DaoCodec

Packages == {"dns", "dao"}
Encoders(pkg) == IF pkg = "dns" THEN Dns!Encoders ELSE Dao!Encoders
Sizers(pkg) == IF pkg = "dns" THEN Dns!Sizers ELSE Dao!Sizers
Decoders(pkg) == IF pkg = "dns" THEN Dns!Decoders ELSE Dao!Decoders

Types == {<<pkg, t>> \in Packages \X (DOMAIN Dns!Decoders \cup DOMAIN Dao!Decoders) :
            t \in DOMAIN Decoders(pkg) \ DOMAIN SdkDecoders}

-----------------------------------------------------------------------------
(* The messages that are sent, three of each type.  "zero" has every field *)
(* unset.  In "small" every field is set, to a value of its own; lists     *)
(* have an empty second element.  "edge" has the largest word, a negative  *)
(* enum, strings whose length takes two bytes, pointers to empty messages. *)
Styles == {"zero", "small", "edge"}

RECURSIVE Sample(_, _, _)
Sample(decoders, t, style) ==
  LET value(n) ==
        LET f == decoders[t][n]
            inner(s) == Sample(decoders, f.of, s)
        IN  CASE style = "small" ->
                   (CASE f.kind = "uint64" -> n
                      [] f.kind = "enum" -> 2
                      [] f.kind = "bool" -> TRUE
                      [] f.kind = "string" -> <<64 + n>>
                      [] f.kind = "number" -> n
                      [] f.kind = "strings" -> <<<<64 + n>>, <<>>>>
                      [] f.kind = "struct" -> inner("small")
                      [] f.kind = "structs" -> <<inner("small"), inner("zero")>>
                      [] f.kind = "pointer" -> <<inner("small")>>)
              [] style = "edge" ->
                   (CASE f.kind = "uint64" -> 2^WordBits - 1
                      [] f.kind = "enum" -> -1
                      [] f.kind = "bool" -> TRUE
                      [] f.kind = "string" -> [i \in 1 .. 127 + n |-> 64 + n]
                      [] f.kind = "number" -> 120 + n
                      [] f.kind = "strings" -> <<<<>>>>
                      [] f.kind = "struct" -> inner("zero")
                      [] f.kind = "structs" -> <<inner("zero")>>
                      [] f.kind = "pointer" -> <<inner("zero")>>)
      number(name) == CHOOSE n \in DOMAIN decoders[t] :
                        decoders[t][n].name = name
  IN  IF style = "zero" THEN Zero(decoders, t)
      ELSE [name \in {f.name : f \in FieldsOf(decoders[t])} |->
              value(number(name))]

(* Fields that no message has: of every wire type, with a number that      *)
(* takes two bytes, and a group with a group inside.                       *)
Unknown ==
  {<<120, 5>>, <<121, 1, 2, 3, 4, 5, 6, 7, 8>>, <<122, 2, 10, 10>>,
   <<125, 1, 2, 3, 4>>, <<128, 1, 200, 1>>,
   <<123, 8, 1, 131, 1, 10, 0, 132, 1, 16, 1, 124>>}

VARIABLES
  type,    \* <<package, type>> of the message
  sent,    \* the messages written, the second one after a Join
  wire,    \* the bytes
  medium,  \* what happened to them: "idle", "intact", "cut", ...
  got      \* what Unmarshal returned: an error, "" if none, and a message

vars == <<type, sent, wire, medium, got>>

Nothing == [err |-> "not read", m |-> <<>>]

Encoded(ty, m) == Marshal(Encoders(ty[1]), Sizers(ty[1]), ty[2], m)

Init ==
  /\ type = <<"dns", "Domain">> /\ sent = <<>> /\ wire = <<>>
  /\ medium = "idle" /\ got = Nothing

Send(ty, style) ==
  LET m == Sample(Decoders(ty[1]), ty[2], style)
  IN  /\ medium = "idle"
      /\ type' = ty
      /\ sent' = <<m>>
      /\ wire' = Encoded(ty, m)
      /\ medium' = "intact"
      /\ UNCHANGED got

InFlight == medium = "intact" /\ got = Nothing

Cut(n) ==
  /\ InFlight
  /\ wire' = SubSeq(wire, 1, n)
  /\ medium' = "cut"
  /\ UNCHANGED <<type, sent, got>>

(* Where a field of the message ends: the bytes up to there, and the       *)
(* message with the fields up to there.                                    *)
FieldBoundaries ==
  LET table == Encoders(type[1])[type[2]]
      zero == Zero(Decoders(type[1]), type[2])
      m == sent[1]
      isList(k) == table[k][2].kind \in {"strings", "structs"}
      names(k) == {table[j][2].name : j \in 1 .. k}
      upTo(k, v) ==
        [bytes |-> MarshalToSizedBuffer(
                     [Encoders(type[1]) EXCEPT ![type[2]] = SubSeq(table, 1, k)],
                     type[2], v),
         m |-> [name \in DOMAIN zero |->
                  IF name \in names(k) THEN v[name] ELSE zero[name]]]
      shorter(k) ==
        IF ~isList(k) THEN {m}
        ELSE {[m EXCEPT ![table[k][2].name] = SubSeq(@, 1, j)] :
                j \in 0 .. Len(m[table[k][2].name])}
  IN  {upTo(0, m)} \cup
      UNION {{upTo(k, v) : v \in shorter(k)} : k \in DOMAIN table}

AddUnknown(u) ==
  /\ InFlight
  /\ \E p \in FieldBoundaries :
       wire' = p.bytes \o u \o SubSeq(wire, Len(p.bytes) + 1, Len(wire))
  /\ medium' = "extended"
  /\ UNCHANGED <<type, sent, got>>

Join(style) ==
  LET m == Sample(Decoders(type[1]), type[2], style)
  IN  /\ InFlight
      /\ sent' = Append(sent, m)
      /\ wire' = wire \o Encoded(type, m)
      /\ medium' = "joined"
      /\ UNCHANGED <<type, got>>

Receive ==
  /\ medium # "idle" /\ got = Nothing
  /\ got' = Unmarshal(Decoders(type[1]), type[2], wire)
  /\ UNCHANGED <<type, sent, wire, medium>>

Done ==
  /\ got # Nothing
  /\ type' = <<"dns", "Domain">> /\ sent' = <<>> /\ wire' = <<>>
  /\ medium' = "idle" /\ got' = Nothing

Next ==
  \/ \E ty \in Types, style \in Styles : Send(ty, style)
  \/ \E n \in 0 .. Len(wire) - 1 : Cut(n)
  \/ \E u \in Unknown : AddUnknown(u)
  \/ \E style \in Styles : Join(style)
  \/ Receive
  \/ Done

Spec == Init /\ [][Next]_vars

-----------------------------------------------------------------------------
Read(what) == medium = what /\ got # Nothing
Ok(m) == [err |-> "", m |-> m]

(* What is written is read back, for every type: the three generated       *)
(* functions of a type agree on its fields, tags, guards and lengths.  If  *)
(* Size counted a byte too many or too few, Marshal would panic or return  *)
(* a buffer that starts with zeros and lacks its end.                      *)
RoundTrip == Read("intact") => got = Ok(sent[1])

(* Bytes that are cut off are noticed, unless the cut falls between two    *)
(* fields: then the fields before it are read and the others are left      *)
(* unset (ZeroOf; a math.Int or LegacyDec is then nil in the code).  No    *)
(* cut yields part of a string, a number with fewer digits, or a list      *)
(* element that was never sent.                                            *)
CutIsNoticed ==
  Read("cut") =>
    LET whole == {p \in FieldBoundaries : p.bytes = wire}
    IN  IF whole = {} THEN got.err = "ErrUnexpectedEOF"
        ELSE \E p \in whole : got = Ok(p.m)

(* A node reads messages of a newer schema: a field it does not know, of   *)
(* any wire type and at any place between fields, changes nothing.         *)
UnknownFieldsIgnored == Read("extended") => got = Ok(sent[1])

(* What reading two encodings of a type one after the other must give.     *)
RECURSIVE Merge(_, _, _, _)
Merge(decoders, t, a, b) ==
  LET fs == FieldsOf(decoders[t])
      merged(f, x, y) ==
        CASE f.kind \in {"strings", "structs"} -> x \o y
          [] f.kind = "number" -> y
          [] f.kind = "struct" -> Merge(decoders, f.of, x, y)
          [] f.kind = "pointer" ->
               IF x = <<>> THEN y ELSE IF y = <<>> THEN x
               ELSE <<Merge(decoders, f.of, x[1], y[1])>>
          [] OTHER -> IF y = ZeroOf(f.kind) THEN x ELSE y
  IN  [name \in DOMAIN a |->
         merged(CHOOSE f \in fs : f.name = name, a[name], b[name])]

(* Fields that occur more than once: the last scalar or string counts,     *)
(* lists are joined, messages inside are merged field by field.  All nodes *)
(* must resolve such input in the same way.                                *)
RepeatedFieldsMerge ==
  Read("joined") =>
    got = Ok(Merge(Decoders(type[1]), type[2], sent[1], sent[2]))
=============================================================================
