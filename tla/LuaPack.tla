------------------------------- MODULE LuaPack -------------------------------
(* string.pack, string.unpack and string.packsize (stdlib/string_pack.go).    *)
(* A format is a sequence of options.  A byte has ByteValues values and an    *)
(* integer IntegerSize bytes, so that a machine's eight bytes and the sixteen *)
(* of the widest option are a few here.                                       *)
EXTENDS LuaString

CONSTANTS
  ByteValues,    \* 256
  IntegerSize,   \* 8: the bytes of an integer
  MaxIntSize     \* 16: the widest integer, and the largest alignment

ASSUME IntegersFit == 2 * (MaxInteger + 1) = ByteValues ^ IntegerSize

\* -------------------------------------------------------------------------
\* Options and their alignment

IntOption(n, signed) == [kind |-> "int", n |-> n, signed |-> signed]
Option(kind, n) == [kind |-> kind, n |-> n, signed |-> FALSE]

Sized == {"int", "sized", "max"}
WrongSize(opt) == opt.kind \in Sized /\ opt.n \notin 1..MaxIntSize

GetNatAlign(opt) == IF opt.kind \in {"int", "float", "sized", "align"} THEN opt.n ELSE 1

IsPow2(n) == \E e \in 0..n : n = 2 ^ e
EffectiveAlign(st, opt) == Min({GetNatAlign(opt), st.maxAlign})
AddPadding(pos, align) == IF align <= 1 THEN 0 ELSE (align - (pos % align)) % align

\* What every option begins with, before it does its own: X before an option
\* that is none, a size that is none, an alignment that is no power of two.
OptionFault(st, opt) ==
  IF WrongSize(opt) THEN "out of limits"
  ELSE IF opt.kind = "align" /\ opt.n \notin 1..MaxIntSize THEN "invalid next option"
  ELSE IF opt.kind \in {"int", "float", "sized", "align"} /\ ~IsPow2(EffectiveAlign(st, opt))
  THEN "not power of 2"
  ELSE ""

Fault(st, word) == [st EXCEPT !.raise = word]

\* -------------------------------------------------------------------------
\* Bytes

Little(u, n) == [i \in 1..n |-> (u \div ByteValues ^ (i - 1)) % ByteValues]
InOrderOf(order, bytes) == IF order = "big" THEN Reverse(bytes) ELSE bytes
Unsigned(v) == v % (ByteValues ^ IntegerSize)
FromLittle(bytes) ==
  FoldLeft(LAMBDA u, i : u + bytes[i] * ByteValues ^ (i - 1), 0, [i \in DOMAIN bytes |-> i])
Zeros(n) == [i \in 1..n |-> 0]

\* An integer on n bytes, extended beyond its own size by its sign.
EncodeInt(v, n, signed) ==
  [i \in 1..n |-> IF i <= IntegerSize THEN Little(Unsigned(v), IntegerSize)[i]
                  ELSE IF signed /\ v < 0 THEN ByteValues - 1 ELSE 0]

IntInRange(v, n, signed) ==
  \/ n >= IntegerSize
  \/ IF signed THEN v \in -(ByteValues ^ n \div 2)..(ByteValues ^ n \div 2 - 1)
     ELSE v \in 0..(ByteValues ^ n - 1)

\* The surplus bytes of a wide integer may only repeat its sign.
DecodeFits(bytes, signed) ==
  LET v == Wrap(FromLittle(SubSeq(bytes, 1, IntegerSize)))
  IN \A i \in (IntegerSize + 1)..Len(bytes) :
       bytes[i] = IF signed /\ v < 0 THEN ByteValues - 1 ELSE 0

\* Mutant: the sign of a narrow integer is lost.
BugDecodeInt(bytes, signed) == Wrap(FromLittle(SubSeq(bytes, 1, Min({Len(bytes), IntegerSize}))))

DecodeInt(bytes, signed) ==
  LET n == Len(bytes)
      u == FromLittle(SubSeq(bytes, 1, Min({n, IntegerSize})))
  IN IF n >= IntegerSize THEN Wrap(u)
     ELSE IF signed /\ u >= ByteValues ^ n \div 2 THEN u - ByteValues ^ n ELSE u

\* -------------------------------------------------------------------------
\* string.pack.  st.out is the buffer, st.args what is left of the arguments.

Padded(st, opt) == st.out \o Zeros(AddPadding(Len(st.out), EffectiveAlign(st, opt)))
Emit(st, bytes) == [st EXCEPT !.out = bytes, !.args = Tail(@)]

PackInt(st, opt) ==
  LET v == st.args[1]
  IN IF st.args = <<>> \/ v.kind # "integer" THEN Fault(st, "number expected")
     ELSE IF ~IntInRange(v.at, opt.n, opt.signed) THEN Fault(st, "overflow")
     ELSE Emit(st, Padded(st, opt) \o InOrderOf(st.order, EncodeInt(v.at, opt.n, opt.signed)))

\* A float is its bits.
PackFloat(st, opt) ==
  LET v == st.args[1]
  IN IF st.args = <<>> \/ v.kind # "float" THEN Fault(st, "number expected")
     ELSE Emit(st, Padded(st, opt) \o InOrderOf(st.order, Little(v.at, opt.n)))

PackFixedString(st, opt) ==
  LET v == st.args[1]
  IN IF opt.n > MaxStrResult - Len(st.out) THEN Fault(st, "result too long")
     ELSE IF st.args = <<>> \/ v.kind # "string" THEN Fault(st, "string expected")
     ELSE IF Len(v.text) > opt.n THEN Fault(st, "longer than given size")
     ELSE Emit(st, st.out \o v.text \o Zeros(opt.n - Len(v.text)))

PackZeroTermString(st) ==
  LET v == st.args[1]
  IN IF st.args = <<>> \/ v.kind # "string" THEN Fault(st, "string expected")
     ELSE IF 0 \in Range(v.text) THEN Fault(st, "contains zeros")
     ELSE Emit(st, st.out \o v.text \o <<0>>)

PackSizedString(st, opt) ==
  LET v == st.args[1]
  IN IF st.args = <<>> \/ v.kind # "string" THEN Fault(st, "string expected")
     ELSE IF opt.n < IntegerSize /\ Len(v.text) > ByteValues ^ opt.n - 1 THEN Fault(st, "does not fit")
     ELSE Emit(st, Padded(st, opt) \o InOrderOf(st.order, EncodeInt(Len(v.text), opt.n, FALSE)) \o v.text)

PackOption(st, opt) ==
  IF st.raise # "" THEN st
  ELSE IF OptionFault(st, opt) # "" THEN Fault(st, OptionFault(st, opt))
  ELSE CASE opt.kind \in {"little", "big"} -> [st EXCEPT !.order = opt.kind]
         [] opt.kind = "max" -> [st EXCEPT !.maxAlign = opt.n]
         [] opt.kind = "int" -> PackInt(st, opt)
         [] opt.kind = "float" -> PackFloat(st, opt)
         [] opt.kind = "fixed" -> PackFixedString(st, opt)
         [] opt.kind = "zero" -> PackZeroTermString(st)
         [] opt.kind = "sized" -> PackSizedString(st, opt)
         [] opt.kind = "pad" -> [st EXCEPT !.out = Append(@, 0)]
         [] opt.kind = "align" -> [st EXCEPT !.out = Padded(st, opt)]

FormatState == [order |-> "little", maxAlign |-> 1, raise |-> "",
                out |-> <<>>, args |-> <<>>, offset |-> 0, values |-> <<>>]

StringPack(format, args) == FoldLeft(PackOption, [FormatState EXCEPT !.args = args], format)

\* -------------------------------------------------------------------------
\* string.unpack

PaddedOffset(st, opt) == st.offset + AddPadding(st.offset, EffectiveAlign(st, opt))
TooShort(st) == Fault(st, "data string too short")
Push(st, offset, v) == [st EXCEPT !.offset = offset, !.values = Append(@, v)]

UnpackInt(st, data, opt) ==
  LET at == PaddedOffset(st, opt)
      bytes == InOrderOf(st.order, SubSeq(data, at + 1, at + opt.n))
  IN IF at + opt.n > Len(data) THEN TooShort(st)
     ELSE IF ~DecodeFits(bytes, opt.signed) THEN Fault(st, "does not fit into Lua Integer")
     ELSE Push(st, at + opt.n, Integer(DecodeInt(bytes, opt.signed)))

UnpackFloat(st, data, opt) ==
  LET at == PaddedOffset(st, opt)
      bytes == InOrderOf(st.order, SubSeq(data, at + 1, at + opt.n))
  IN IF at + opt.n > Len(data) THEN TooShort(st)
     ELSE Push(st, at + opt.n, [Integer(FromLittle(bytes)) EXCEPT !.kind = "float"])

UnpackFixedString(st, data, opt) ==
  IF opt.n > Len(data) - st.offset THEN TooShort(st)
  ELSE Push(st, st.offset + opt.n, Text(SubSeq(data, st.offset + 1, st.offset + opt.n)))

UnpackZeroTermString(st, data) ==
  LET ends == {i \in (st.offset + 1)..Len(data) : data[i] = 0}
  IN IF ends = {} THEN Fault(st, "unfinished string")
     ELSE Push(st, Min(ends), Text(SubSeq(data, st.offset + 1, Min(ends) - 1)))

\* The length is compared without a sign, before it is an int.
UnpackSizedString(st, data, opt) ==
  LET at == PaddedOffset(st, opt)
      bytes == InOrderOf(st.order, SubSeq(data, at + 1, at + opt.n))
      len == Unsigned(FromLittle(SubSeq(bytes, 1, Min({opt.n, IntegerSize}))))
  IN IF at + opt.n > Len(data) THEN TooShort(st)
     ELSE IF \E i \in (IntegerSize + 1)..opt.n : bytes[i] # 0 THEN Fault(st, "does not fit into Lua Integer")
     ELSE IF len > Len(data) - (at + opt.n) THEN TooShort(st)
     ELSE Push(st, at + opt.n + len, Text(SubSeq(data, at + opt.n + 1, at + opt.n + len)))

UnpackOption(st, opt, data) ==
  IF st.raise # "" THEN st
  ELSE IF OptionFault(st, opt) # "" THEN Fault(st, OptionFault(st, opt))
  ELSE CASE opt.kind \in {"little", "big"} -> [st EXCEPT !.order = opt.kind]
         [] opt.kind = "max" -> [st EXCEPT !.maxAlign = opt.n]
         [] opt.kind = "int" -> UnpackInt(st, data, opt)
         [] opt.kind = "float" -> UnpackFloat(st, data, opt)
         [] opt.kind = "fixed" -> UnpackFixedString(st, data, opt)
         [] opt.kind = "zero" -> UnpackZeroTermString(st, data)
         [] opt.kind = "sized" -> UnpackSizedString(st, data, opt)
         [] opt.kind = "pad" ->
              IF st.offset + 1 > Len(data) THEN TooShort(st) ELSE [st EXCEPT !.offset = @ + 1]
         [] opt.kind = "align" ->
              IF PaddedOffset(st, opt) > Len(data) THEN TooShort(st)
              ELSE [st EXCEPT !.offset = PaddedOffset(st, opt)]

StringUnpack(format, data, pos) ==
  LET offset == Max({1, IF pos < 0 THEN Wrap(Len(data) + pos + 1) ELSE pos}) - 1
  IN IF offset > Len(data) THEN Fault(FormatState, "initial position out of string")
     ELSE FoldLeft(LAMBDA st, opt : UnpackOption(st, opt, data),
                   [FormatState EXCEPT !.offset = offset], format)

\* -------------------------------------------------------------------------
\* string.packsize

AddSize(st, pad, size) ==
  IF st.offset > MaxInteger - (pad + size) THEN Fault(st, "format result too large")
  ELSE [st EXCEPT !.offset = @ + pad + size]

PacksizeOption(st, opt) ==
  LET pad == AddPadding(st.offset, EffectiveAlign(st, opt))
  IN IF st.raise # "" THEN st
     ELSE IF OptionFault(st, opt) # "" THEN Fault(st, OptionFault(st, opt))
     ELSE CASE opt.kind \in {"little", "big"} -> st
            [] opt.kind = "max" -> [st EXCEPT !.maxAlign = opt.n]
            [] opt.kind \in {"int", "float"} -> AddSize(st, pad, opt.n)
            [] opt.kind = "fixed" -> AddSize(st, 0, opt.n)
            [] opt.kind = "pad" -> AddSize(st, 0, 1)
            [] opt.kind = "align" -> AddSize(st, pad, 0)
            [] opt.kind \in {"zero", "sized"} -> Fault(st, "variable-length format")

StringPacksize(format) == FoldLeft(PacksizeOption, FormatState, format)
=============================================================================
