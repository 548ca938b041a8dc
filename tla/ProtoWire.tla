----------------------------- MODULE ProtoWire -----------------------------
(***************************************************************************)
(* The wire format of the chain's messages and stored values, as the       *)
(* generated code of the *.pb.go files reads and writes it.  Every message *)
(* type has its own Marshal, Size and Unmarshal; the three do the same for *)
(* a field of a given kind in every message and differ in the fields.  So  *)
(* this module has the treatment of each kind, parameterised by tables of  *)
(* fields, and DnsCodec and DaoCodec have the tables, one for each         *)
(* generated function.                                                     *)
(*                                                                         *)
(* A buffer is a sequence of bytes.  A message is a function from the      *)
(* names of its fields to values: a number, a Boolean, a sequence of bytes *)
(* (string, []byte), a sequence of values (repeated field), a message      *)
(* (embedded struct), or a sequence of at most one message (pointer).      *)
(* A math.Int or LegacyDec is its integer.                                 *)
(*                                                                         *)
(* WordBits and IntBits stand for 64 and 32.  As there, the last byte of   *)
(* the longest varint has bits that do not fit into a word.                *)
(*                                                                         *)
(* The operators are recursive: messages contain messages.                 *)
(***************************************************************************)
EXTENDS Integers, Sequences, SequencesExt, FiniteSetsExt, TLC

CONSTANTS
  WordBits, \* bits of uint64, int64 and int
  IntBits   \* bits of int32

ASSUME ProtoAssumption ==
  /\ IntBits \in Nat /\ WordBits \in Nat
  /\ 7 < IntBits /\ IntBits < WordBits

AsWord(n) == n % 2^WordBits
Signed(n, bits) == LET u == n % 2^bits
                   IN  IF u >= 2^(bits - 1) THEN u - 2^bits ELSE u

-----------------------------------------------------------------------------
(* Tables.  The kind of a field says how its value is guarded, written and *)
(* read; of is the type of the message inside.  An Unmarshal table maps    *)
(* field numbers to fields, a Marshal table lists fields with their tag    *)
(* byte in the order of the buffer, a Size table lists fields.             *)
Field(kind, name, of) == [kind |-> kind, name |-> name, of |-> of]

Uint64(name) == Field("uint64", name, "")
Enum(name) == Field("enum", name, "")
Bool(name) == Field("bool", name, "")
String(name) == Field("string", name, "")
Number(name) == Field("number", name, "")       \* math.Int, math.LegacyDec
Strings(name) == Field("strings", name, "")
Pointer(name, of) == Field("pointer", name, of)
Struct(name, of) == Field("struct", name, of)
Structs(name, of) == Field("structs", name, of) \* of structs or of pointers

NoFields == [n \in {} |-> n]

WireType(kind) == IF kind \in {"uint64", "enum", "bool"} THEN 0 ELSE 2

(* What a field of a kind holds before anything is read into it.  A number *)
(* (a math.Int or a LegacyDec) that is absent is nil in Go and 0 here:     *)
(* Marshal writes either as the text of 0, and nothing stated of the codec *)
(* tells them apart.                                                       *)
ZeroOf(kind) ==
  CASE kind \in {"uint64", "enum", "number"} -> 0
    [] kind = "bool" -> FALSE
    [] kind \in {"string", "strings", "structs", "pointer"} -> <<>>

FieldsOf(decoder) == Range(decoder)

RECURSIVE Zero(_, _)
Zero(decoders, t) ==
  LET fs == FieldsOf(decoders[t])
      field(name) == CHOOSE f \in fs : f.name = name
  IN  [name \in {f.name : f \in fs} |->
         IF field(name).kind = "struct" THEN Zero(decoders, field(name).of)
                                        ELSE ZeroOf(field(name).kind)]

-----------------------------------------------------------------------------
(* encodeVarint: groups of seven bits, the lowest first, the eighth bit    *)
(* set on all but the last.                                                *)
RECURSIVE Varint(_)
Varint(v) ==
  IF v < 128 THEN <<v>> ELSE <<128 + (v % 128)>> \o Varint(v \div 128)

(* math_bits.Len64                                                         *)
Len64(x) == CHOOSE n \in 0 .. WordBits : x < 2^n /\ (n = 0 \/ 2^(n - 1) <= x)

(* sov: the bytes of a varint; x|1 makes zero one byte long.               *)
Sov(x) == (Len64(IF x = 0 THEN 1 ELSE x) + 6) \div 7

LengthDelimited(bytes) == Varint(Len(bytes)) \o bytes

(* The text of a math.Int: big.Int's MarshalText, decimal digits.          *)
RECURSIVE Text(_)
Text(n) == IF n < 10 THEN <<48 + n>> ELSE Text(n \div 10) \o <<48 + (n % 10)>>

Digits == 48 .. 57
ReadText(bytes) ==
  FoldLeft(LAMBDA acc, d : 10 * acc + d - 48, 0, bytes)

-----------------------------------------------------------------------------
(* MarshalToSizedBuffer.  Scalars, strings and pointers that are zero are  *)
(* left out; numbers and embedded structs are always written; of repeated  *)
(* fields every element is, the empty ones included.  The code fills the   *)
(* buffer from its end, so fields come out in the order of the table.      *)
RECURSIVE MarshalToSizedBuffer(_, _, _)
MarshalToSizedBuffer(encoders, t, m) ==
  LET body(of, v) == LengthDelimited(MarshalToSizedBuffer(encoders, of, v))
      written(f, v) ==
        CASE f.kind = "uint64" -> IF v = 0 THEN <<>> ELSE <<Varint(v)>>
          [] f.kind = "enum" -> IF v = 0 THEN <<>> ELSE <<Varint(AsWord(v))>>
          [] f.kind = "bool" -> IF v THEN <<<<1>>>> ELSE <<>>
          [] f.kind = "string" ->
               IF v = <<>> THEN <<>> ELSE <<LengthDelimited(v)>>
          [] f.kind = "number" -> <<LengthDelimited(Text(v))>>
          [] f.kind = "struct" -> <<body(f.of, v)>>
          [] f.kind = "strings" -> [i \in DOMAIN v |-> LengthDelimited(v[i])]
          [] f.kind \in {"structs", "pointer"} ->
               [i \in DOMAIN v |-> body(f.of, v[i])]
      field(e) ==
        LET items == written(e[2], m[e[2].name])
        IN  FlattenSeq([i \in DOMAIN items |-> <<e[1]>> \o items[i]])
  IN  FlattenSeq([k \in DOMAIN encoders[t] |-> field(encoders[t][k])])

(* Size, which follows the same guards by its own tables.                  *)
RECURSIVE Size(_, _, _)
Size(sizers, t, m) ==
  LET delimited(l) == 1 + l + Sov(l)
      sum(s) == FoldLeft(LAMBDA a, b : a + b, 0, s)
      size(f, v) ==
        CASE f.kind = "uint64" -> IF v = 0 THEN 0 ELSE 1 + Sov(v)
          [] f.kind = "enum" -> IF v = 0 THEN 0 ELSE 1 + Sov(AsWord(v))
          [] f.kind = "bool" -> IF v THEN 2 ELSE 0
          [] f.kind = "string" -> IF v = <<>> THEN 0 ELSE delimited(Len(v))
          [] f.kind = "number" -> delimited(Len(Text(v)))
          [] f.kind = "struct" -> delimited(Size(sizers, f.of, v))
          [] f.kind = "strings" ->
               sum([i \in DOMAIN v |-> delimited(Len(v[i]))])
          [] f.kind \in {"structs", "pointer"} ->
               sum([i \in DOMAIN v |-> delimited(Size(sizers, f.of, v[i]))])
  IN  sum([k \in DOMAIN sizers[t] |-> size(sizers[t][k], m[sizers[t][k].name])])

Panic == <<-1>>

(* Marshal: a zeroed buffer of Size bytes is filled from its end, and its  *)
(* first n bytes are returned, n being the number of bytes written.  Too   *)
(* small a size is an index out of range; too large a one leaves zeros in  *)
(* front and loses the tail.                                               *)
Marshal(encoders, sizers, t, m) ==
  LET written == MarshalToSizedBuffer(encoders, t, m)
      spare == Size(sizers, t, m) - Len(written)
  IN  IF spare < 0 THEN Panic
      ELSE SubSeq([i \in 1 .. spare |-> 0] \o written, 1, Len(written))

-----------------------------------------------------------------------------
(* Reading.  A reader returns an error, "" if there is none, the value and *)
(* the index of the first byte it has not read.                            *)
Failed(err) == [err |-> err, v |-> 0, i |-> 0]

(* The loop that reads a varint: at most as many bytes as a word has       *)
(* groups of seven bits; the bits beyond the word are dropped.  Whether    *)
(* there is room in the word is looked at before there is another byte.    *)
ReadVarint(buf, i) ==
  LET groups == (WordBits + 6) \div 7
      ends == {k \in i .. Len(buf) : k < i + groups /\ buf[k] < 128}
      last == Min(ends)
      value == FoldLeft(LAMBDA acc, k : acc + (buf[i + k] % 128) * 2^(7 * k),
                        0, [k \in 1 .. last - i + 1 |-> k - 1])
  IN  IF ends # {} THEN [err |-> "", v |-> AsWord(value), i |-> last + 1]
      ELSE IF i + groups <= Len(buf) + 1 THEN Failed("ErrIntOverflow")
      ELSE Failed("ErrUnexpectedEOF")

(* Mutant: the length is not compared with what is left of the buffer.     *)
LengthBelievedAsIs(buf, i) ==
  LET n == ReadVarint(buf, i)
      length == Signed(n.v, WordBits)
  IN  IF n.err # "" THEN n
      ELSE IF length < 0 THEN Failed("ErrInvalidLength")
      ELSE [err |-> "", v |-> SubSeq(buf, n.i, Min({n.i + length - 1, Len(buf)})),
            i |-> Min({n.i + length, Len(buf) + 1})]

(* The bytes of a length-delimited field.  The length is a signed word;    *)
(* neither it nor the end of the field may be negative, and the field may  *)
(* not reach beyond the buffer.                                            *)
ReadDelimited(buf, i) ==
  LET n == ReadVarint(buf, i)
      length == Signed(n.v, WordBits)
      post == Signed(n.i - 1 + length, WordBits)
  IN  IF n.err # "" THEN n
      ELSE IF length < 0 \/ post < 0 THEN Failed("ErrInvalidLength")
      ELSE IF post > Len(buf) THEN Failed("ErrUnexpectedEOF")
      ELSE [err |-> "", v |-> SubSeq(buf, n.i, post), i |-> post + 1]

(* Mutant: the end of an inner group ends the outer one.                   *)
AfterEndGroup(depth) == 0

(* The depth of nested groups after an end-group tag.                      *)
EndGroup(depth) == depth - 1

(* skip: the index after the field that starts at i, a group being skipped *)
(* with everything inside it.  Fixed-size fields and lengths advance the   *)
(* index without looking; the caller compares it with the buffer.          *)
RECURSIVE SkipFrom(_, _, _)
SkipFrom(buf, i, depth) ==
  LET tag == ReadVarint(buf, i)
      wireType == tag.v % 8
      varint == ReadVarint(buf, tag.i)
      next(j, d) == IF Signed(j - 1, WordBits) < 0
                      THEN Failed("ErrInvalidLength")
                    ELSE IF d = 0 THEN [err |-> "", v |-> 0, i |-> j]
                    ELSE SkipFrom(buf, j, d)
      after(j) == next(j, depth)
  IN  IF tag.err # "" THEN tag
      ELSE IF wireType \in {0, 2} /\ varint.err # "" THEN varint
      ELSE CASE wireType = 0 -> after(varint.i)
             [] wireType = 1 -> after(tag.i + 8)
             [] wireType = 2 -> IF Signed(varint.v, WordBits) < 0
                                  THEN Failed("ErrInvalidLength")
                                  ELSE after(varint.i + varint.v)
             [] wireType = 3 -> next(tag.i, depth + 1)
             [] wireType = 4 -> IF depth = 0
                                  THEN Failed("ErrUnexpectedEndOfGroup")
                                  ELSE next(tag.i, EndGroup(depth))
             [] wireType = 5 -> after(tag.i + 4)
             [] OTHER -> Failed("illegal wireType")

Skip(buf, i) ==
  LET s == SkipFrom(buf, i, 0)
  IN  IF s.err # "" THEN s
      ELSE IF s.i > Len(buf) + 1 THEN Failed("ErrUnexpectedEOF") ELSE s

-----------------------------------------------------------------------------
(* Mutant: the last element replaces the ones before it.                   *)
ReplaceElement(list, x) == <<x>>

(* A repeated field grows by one element for each occurrence.              *)
AppendElement(list, x) == Append(list, x)

(***************************************************************************)
(* Unmarshal: fields in any order and number.  A scalar or a string is     *)
(* overwritten by its last occurrence, an embedded struct or a pointer is  *)
(* read into what is there, a repeated field grows.  A number's text must  *)
(* be digits; an empty one changes nothing (math.Int.Unmarshal).  Fields   *)
(* the switch does not know are skipped.                                   *)
(***************************************************************************)
RECURSIVE UnmarshalFrom(_, _, _, _, _)

(* The value a varint gives to a field.                                    *)
ReadScalar(f, word) ==
  CASE f.kind = "uint64" -> word
    [] f.kind = "enum" -> Signed(word, IntBits)
    [] f.kind = "bool" -> word # 0

(* The value, [err, m], that the bytes of a length-delimited field give to *)
(* a field that held old.                                                  *)
ReadBytes(decoders, f, bytes, old) ==
  LET value(v) == [err |-> "", m |-> v]
      inner(target) == UnmarshalFrom(decoders, f.of, bytes, 1, target)
      fresh == inner(Zero(decoders, f.of))
      number == IF bytes = <<>> THEN old ELSE ReadText(bytes)
  IN  CASE f.kind = "string" -> value(bytes)
        [] f.kind = "strings" -> value(AppendElement(old, bytes))
        [] f.kind = "number" -> IF Range(bytes) \subseteq Digits
                                  THEN value(number)
                                  ELSE [err |-> "number", m |-> old]
        [] f.kind = "struct" -> inner(old)
        [] f.kind = "structs" ->
             [err |-> fresh.err, m |-> AppendElement(old, fresh.m)]
        [] f.kind = "pointer" ->
             LET r == IF old = <<>> THEN fresh ELSE inner(old[1])
             IN  [err |-> r.err, m |-> <<r.m>>]

UnmarshalFrom(decoders, t, buf, i, m) ==
  LET tag == ReadVarint(buf, i)
      number == Signed(tag.v \div 8, IntBits)
      wireType == tag.v % 8
      known == number \in DOMAIN decoders[t]
      f == decoders[t][number]
      payload == IF ~known THEN Skip(buf, i)
                 ELSE IF wireType = 0 THEN ReadVarint(buf, tag.i)
                 ELSE ReadDelimited(buf, tag.i)
      read == IF wireType = 0
                THEN [err |-> "", m |-> ReadScalar(f, payload.v)]
                ELSE ReadBytes(decoders, f, payload.v, m[f.name])
      fail(err) == [err |-> err, m |-> m]
      continue(next) == UnmarshalFrom(decoders, t, buf, payload.i, next)
  IN  IF i > Len(buf) THEN fail("")
      ELSE IF tag.err # "" THEN fail(tag.err)
      ELSE IF wireType = 4 THEN fail("end group for non-group")
      ELSE IF number <= 0 THEN fail("illegal tag")
      ELSE IF known /\ wireType # WireType(f.kind) THEN fail("wrong wireType")
      ELSE IF payload.err # "" THEN fail(payload.err)
      ELSE IF ~known THEN continue(m)
      ELSE IF read.err # "" THEN fail(read.err)
      ELSE continue([m EXCEPT ![f.name] = read.m])

Unmarshal(decoders, t, buf) ==
  UnmarshalFrom(decoders, t, buf, 1, Zero(decoders, t))

-----------------------------------------------------------------------------
(* Messages of the SDK inside the chain's own: external, generated by the  *)
(* same compiler.                                                          *)
CoinFields == <<<<10, String("Denom")>>, <<18, Number("Amount")>>>>
AnyFields == <<<<10, String("TypeUrl")>>, <<18, String("Value")>>>>
PageRequestFields ==
  <<<<10, String("Key")>>, <<16, Uint64("Offset")>>, <<24, Uint64("Limit")>>,
    <<32, Bool("CountTotal")>>, <<40, Bool("Reverse")>>>>
PageResponseFields == <<<<10, String("NextKey")>>, <<16, Uint64("Total")>>>>

SdkEncoders ==
  [Coin |-> CoinFields, Any |-> AnyFields, PageRequest |-> PageRequestFields,
   PageResponse |-> PageResponseFields]
SdkSizers ==
  [t \in DOMAIN SdkEncoders |->
     [k \in DOMAIN SdkEncoders[t] |-> SdkEncoders[t][k][2]]]
SdkDecoders ==
  [t \in DOMAIN SdkEncoders |->
     [n \in DOMAIN SdkEncoders[t] |-> SdkEncoders[t][n][2]]]
=============================================================================
