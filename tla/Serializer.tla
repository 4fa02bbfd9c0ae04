---------------------------- MODULE Serializer ----------------------------
(***************************************************************************)
(* The byte serializer of serializer/serializer.go and serializable.go, as *)
(* pure operators: a Serializer is a record of the bytes written so far    *)
(* and the first error, a Deserializer a record of its source, its offset, *)
(* its error and `val', the destination of the last read.  Every method of *)
(* the two chains is an operator from such a record to the next one.       *)
(*                                                                         *)
(* A byte has Base values.  The widths keep their order and not their      *)
(* size: 3, 4 and 5 bytes stand for the 4, 8 and 32 of consts.go.          *)
(***************************************************************************)
EXTENDS Integers, Sequences, FiniteSets, SequencesExt

CONSTANTS Base,            \* the number of values of a byte
          NanosPerSecond,  \* does not divide the largest timestamp
          Nil              \* the nil pointer

ByteSize == [byte |-> 1, uint16 |-> 2, uint32 |-> 3, uint64 |-> 4, uint256 |-> 5]

MaxInt64 == (Base ^ ByteSize.uint64) \div 2 - 1

MaxNanoTimestampInt64Seconds == MaxInt64 \div NanosPerSecond

MinPayloadByteSize == ByteSize.uint32 + 1

ToBytes(n, w) == [i \in 1 .. w |-> (n \div Base ^ (i - 1)) % Base]

FromBytes(b) == MapThenSumSet(LAMBDA i : b[i] * Base ^ (i - 1), DOMAIN b)

Signed(n, w) == IF n >= Base ^ w \div 2 THEN n - Base ^ w ELSE n

(* bytes.Compare(a, b) < 0 *)
LexLess(a, b) ==
    \/ IsStrictPrefix(a, b)
    \/ \E i \in DOMAIN a \cap DOMAIN b :
          a[i] < b[i] /\ \A j \in 1 .. i - 1 : a[j] = b[j]

(***************************************************************************)
(* Array rules: bounds, types that must occur, guard, validation mode.     *)
(***************************************************************************)
CheckBounds(rules, count) ==
    CASE rules.min # 0 /\ count < rules.min -> "MinElementsNotReached"
      [] rules.max # 0 /\ count > rules.max -> "MaxElementsExceeded"
      [] OTHER -> ""

ElementUniqueValidator(elems, i) ==
    IF \E j \in 1 .. i - 1 : elems[j] = elems[i] THEN "ViolatesUniqueness" ELSE ""

LexicalOrderValidator(elems, i) ==
    IF i > 1 /\ LexLess(elems[i], elems[i - 1]) THEN "ViolatesLexicalOrder" ELSE ""

LexicalOrderWithoutDupsValidatorMutant(elems, i, writing) ==
    IF i > 1 /\ elems[i] = elems[i - 1] THEN "ViolatesUniqueness" ELSE ""

(* An empty element that is being written is a nil slice: it counts as no
   previous element.  One that is being read is an empty slice. *)
LexicalOrderWithoutDupsValidator(elems, i, writing) ==
    CASE i = 1 \/ (writing /\ elems[i - 1] = <<>>) -> ""
      [] LexLess(elems[i], elems[i - 1]) -> "ViolatesLexicalOrder"
      [] elems[i] = elems[i - 1] -> "ViolatesUniqueness"
      [] OTHER -> ""

AtMostOneOfEachTypeValidator(elems, i, w) ==
    CASE Len(elems[i]) < w -> "InvalidBytes"
      [] \E j \in 1 .. i - 1 : SubSeq(elems[j], 1, w) = SubSeq(elems[i], 1, w)
            -> "ViolatesTypeUniqueness"
      [] OTHER -> ""

(* The validators of the mode in the order of their bits, each asked for
   element i once all the elements before it have passed. *)
ElementValidationFunc(rules, elems, i, writing) ==
    LET has(m) == m \in rules.mode
        found ==
          << IF has("NoDuplicates") /\ ~ has("LexicalOrdering")
               THEN ElementUniqueValidator(elems, i) ELSE "",
             IF has("NoDuplicates") /\ has("LexicalOrdering")
               THEN LexicalOrderWithoutDupsValidator(elems, i, writing) ELSE "",
             IF ~ has("NoDuplicates") /\ has("LexicalOrdering")
               THEN LexicalOrderValidator(elems, i) ELSE "",
             IF has("AtMostOneOfEachTypeByte")
               THEN AtMostOneOfEachTypeValidator(elems, i, ByteSize.byte) ELSE "",
             IF has("AtMostOneOfEachTypeUint32")
               THEN AtMostOneOfEachTypeValidator(elems, i, ByteSize.uint32) ELSE "" >>
        errors == SelectSeq(found, LAMBDA e : e # "")
    IN  IF errors = <<>> THEN "" ELSE errors[1]

(***************************************************************************)
(* Writing.  `Then' is the first line of every method: a chain that has    *)
(* failed stays as it is.                                                  *)
(***************************************************************************)
NewSerializer == [buf |-> <<>>, err |-> ""]

Then(chain, next) == IF chain.err # "" THEN chain ELSE next

Fail(chain, e) == [chain EXCEPT !.err = e]

WriteBytes(s, data) == Then(s, [s EXCEPT !.buf = @ \o data])

WriteByte(s, data) == WriteBytes(s, <<data>>)

WriteNum(s, n, w) == WriteBytes(s, ToBytes(n, w))

WriteBool(s, v) == WriteByte(s, IF v THEN 1 ELSE 0)

WriteUint256(s, num) ==
    Then(s, CASE num = Nil -> Fail(s, "Uint256Nil")
              [] num # Nil /\ num < 0 -> Fail(s, "Uint256NumNegative")
              [] num # Nil /\ num >= Base ^ ByteSize.uint256 -> Fail(s, "Uint256TooBig")
              [] OTHER -> WriteNum(s, num, ByteSize.uint256))

(* TimeToUint64 on a time given in nanoseconds: what UnixNano returns beyond
   its range is the overflown int64. *)
TimeToUint64(t) ==
    LET unixSeconds == t \div NanosPerSecond
        unixNano == Signed(t % (2 * (MaxInt64 + 1)), ByteSize.uint64)
    IN  CASE unixSeconds > MaxNanoTimestampInt64Seconds -> MaxInt64
          [] unixSeconds < 0 \/ unixNano < 0 -> 0
          [] OTHER -> unixNano

WriteTime(s, t) == WriteNum(s, TimeToUint64(t), ByteSize.uint64)

writeSliceLength(s, l, lenType) ==
    Then(s, IF l >= Base ^ ByteSize[lenType] THEN Fail(s, "LengthOutOfRange")
            ELSE WriteNum(s, l, ByteSize[lenType]))

WriteVariableByteSlice(s, data, lenType, minLen, maxLen) ==
    Then(s, CASE maxLen > 0 /\ Len(data) > maxLen -> Fail(s, "SliceLengthTooLong")
              [] minLen > 0 /\ Len(data) < minLen -> Fail(s, "SliceLengthTooShort")
              [] OTHER -> WriteBytes(writeSliceLength(s, Len(data), lenType), data))

WriteString(s, str, lenType, minLen, maxLen) ==
    Then(s, CASE maxLen > 0 /\ Len(str) > maxLen -> Fail(s, "StringTooLong")
              [] minLen > 0 /\ Len(str) < minLen -> Fail(s, "StringTooShort")
              [] OTHER -> WriteBytes(writeSliceLength(s, Len(str), lenType), str))

(* The elements before the first one the rules refuse are in the buffer. *)
WriteSliceOfByteSlices(s, data, mode, lenType, rules) ==
    LET sorted == IF "order" \in mode /\ "LexicalOrdering" \in rules.mode
                    THEN SortSeq(data, LexLess) ELSE data
        write(acc, i) ==
          LET e == IF "validate" \in mode
                     THEN ElementValidationFunc(rules, sorted, i, TRUE) ELSE ""
          IN  Then(acc, IF e # "" THEN Fail(acc, e) ELSE WriteBytes(acc, sorted[i]))
        bounds == IF "validate" \in mode THEN CheckBounds(rules, Len(data)) ELSE ""
    IN  Then(s, IF bounds # "" THEN Fail(s, bounds)
                ELSE FoldLeft(write, writeSliceLength(s, Len(data), lenType),
                              [i \in DOMAIN sorted |-> i]))

(***************************************************************************)
(* A Serializable of the caller: a type prefix and one byte.               *)
(***************************************************************************)
ObjectBytes(o, typeDen) == ToBytes(o.type, ByteSize[typeDen]) \o <<o.body>>

WriteObject(s, o, mode, typeDen, rules) ==
    Then(s, IF "validate" \in mode /\ o.type \notin rules.allowed
              THEN Fail(s, "Guard") ELSE WriteBytes(s, ObjectBytes(o, typeDen)))

WriteSliceOfObjects(s, objs, mode, lenType, typeDen, rules) ==
    Then(s, IF "validate" \in mode /\ \E i \in DOMAIN objs : objs[i].type \notin rules.allowed
              THEN Fail(s, "Guard")
              ELSE WriteSliceOfByteSlices(s, [i \in DOMAIN objs |-> ObjectBytes(objs[i], typeDen)],
                                          mode, lenType, rules))

WritePayloadLength(s, length) ==
    WriteNum(s, length % Base ^ ByteSize.uint32, ByteSize.uint32)

WritePayload(s, payload, rules) ==
    Then(s, CASE payload = Nil -> WritePayloadLength(s, 0)
              [] payload # Nil /\ payload.type \notin rules.allowed -> Fail(s, "Guard")
              [] OTHER -> LET b == ObjectBytes(payload, "uint32")
                          IN  WriteBytes(WritePayloadLength(s, Len(b)), b))

(***************************************************************************)
(* Reading.                                                                *)
(***************************************************************************)
NewDeserializer(src) == [src |-> src, offset |-> 0, err |-> "", val |-> Nil]

After(b, n) == SubSeq(b, n + 1, Len(b))

RemainingBytes(d) == After(d.src, d.offset)

(* the next n bytes, once they are known to be there *)
Peek(d, n) == SubSeq(d.src, d.offset + 1, d.offset + n)

Lacks(d, n) == Len(d.src) - d.offset < n

Take(d, n, val) == [d EXCEPT !.offset = @ + n, !.val = val]

(* the number of bytes read, the error, and the value *)
Done(d) == [n |-> d.offset, err |-> d.err, val |-> d.val]

Skip(d, n) == Then(d, IF Lacks(d, n) THEN Fail(d, "NotEnoughData")
                      ELSE [d EXCEPT !.offset = @ + n])

ReadBytes(d, n) == Then(d, IF Lacks(d, n) THEN Fail(d, "NotEnoughData")
                           ELSE Take(d, n, Peek(d, n)))

ReadByte(d) == Then(d, IF Lacks(d, 1) THEN Fail(d, "NotEnoughData")
                       ELSE Take(d, 1, Peek(d, 1)[1]))

ReadNum(d, w, signed) ==
    Then(d, IF Lacks(d, w) THEN Fail(d, "NotEnoughData")
            ELSE LET n == FromBytes(Peek(d, w))
                 IN  Take(d, w, IF signed THEN Signed(n, w) ELSE n))

ReadUint256(d) == ReadNum(d, ByteSize.uint256, FALSE)

ReadBool(d) ==
    Then(d, CASE Lacks(d, 1) -> Fail(d, "NotEnoughData")
              [] ~ Lacks(d, 1) /\ Peek(d, 1)[1] \notin {0, 1} -> Fail(d, "InvalidBoolValue")
              [] OTHER -> Take(d, 1, Peek(d, 1)[1] = 1))

ReadTime(d) ==
    LET r == ReadNum(d, ByteSize.uint64, FALSE)
        nanoseconds == IF r.val \div NanosPerSecond > MaxNanoTimestampInt64Seconds
                         THEN MaxInt64 ELSE r.val
    IN  IF r.err # "" THEN r ELSE [r EXCEPT !.val = Signed(nanoseconds, ByteSize.uint64)]

readSliceLength(d, lenType) ==
    IF Lacks(d, ByteSize[lenType]) THEN Fail(d, "NotEnoughData")
    ELSE Take(d, ByteSize[lenType], FromBytes(Peek(d, ByteSize[lenType])))

(* A length out of bounds is recorded as the error, and the bytes are read
   nevertheless: too few of them overwrite the error. *)
ReadVariableByteSlice(d, lenType, minLen, maxLen) ==
    LET l == readSliceLength(d, lenType)
        bounds == CASE maxLen > 0 /\ l.val > maxLen -> "LengthMaxExceeded"
                    [] minLen > 0 /\ l.val < minLen -> "LengthMinNotReached"
                    [] OTHER -> ""
    IN  Then(d, CASE l.err # "" -> l
                  [] l.err = "" /\ Lacks(l, l.val) -> Fail(l, "NotEnoughData")
                  [] OTHER -> Fail(Take(l, l.val, Peek(l, l.val)), bounds))

ReadString(d, lenType, minLen, maxLen) ==
    ReadVariableByteSlice(d, lenType, minLen, maxLen)

GetObjectType(d, typeDen) ==
    IF Lacks(d, ByteSize[typeDen]) THEN Fail(d, "NotEnoughData")
    ELSE [d EXCEPT !.val = FromBytes(Peek(d, ByteSize[typeDen]))]

CheckTypePrefix(d, prefix, typeDen) ==
    LET ty == GetObjectType(d, typeDen)
    IN  Then(d, CASE ty.err # "" -> ty
                  [] ty.err = "" /\ ty.val # prefix -> Fail(d, "TypeMismatch")
                  [] OTHER -> Skip(d, ByteSize[typeDen]))

(* Deserialize of the caller's object, on the bytes from the offset. *)
ObjectFrom(b, typeDen) ==
    LET d == GetObjectType(NewDeserializer(b), typeDen)
    IN  [Done(ReadByte(Skip(d, ByteSize[typeDen]))) EXCEPT !.val = [type |-> d.val, body |-> @]]

ReadObject(d, typeDen, rules) ==
    LET ty == GetObjectType(d, typeDen)
        o == ObjectFrom(RemainingBytes(d), typeDen)
    IN  Then(d, CASE ty.err # "" -> ty
                  [] ty.err = "" /\ ty.val \notin rules.allowed -> Fail(d, "Guard")
                  [] ty.err = "" /\ ty.val \in rules.allowed /\ o.err # "" -> Fail(d, o.err)
                  [] OTHER -> Take(d, o.n, o.val))

(* itemDeserializer(b) is a record of the bytes it read, an error, a value. *)
(* acc is what was read before: the Deserializer, and the bytes of the items *)
ReadElement(acc, item, i, mode, rules) ==
    LET elems == Append(acc.elems, Peek(acc.d, item.n))
        e == IF "validate" \in mode THEN ElementValidationFunc(rules, elems, i, FALSE) ELSE ""
    IN  CASE acc.d.err # "" -> acc
          [] acc.d.err = "" /\ item.err # "" -> [acc EXCEPT !.d.err = item.err]
          [] OTHER -> [d |-> Fail(Take(acc.d, item.n, Append(acc.d.val, item.val)), e), elems |-> elems]

(* items[n] is what itemDeserializer makes of the bytes after the first n *)
ReadSequenceOfObjects(d, items, mode, lenType, rules) ==
    LET l == readSliceLength(d, lenType)
        bounds == IF "validate" \in mode THEN CheckBounds(rules, l.val) ELSE ""
        start == [d |-> [l EXCEPT !.val = <<>>], elems |-> <<>>]
        read(acc, i) == ReadElement(acc, items[acc.d.offset], i, mode, rules)
    IN  Then(d, CASE l.err # "" -> l
                  [] l.err = "" /\ bounds # "" -> Fail(l, bounds)
                  [] OTHER -> FoldLeft(read, start, [i \in 1 .. l.val |-> i]).d)

(* r has read the objects *)
MustOccur(r, mode, rules) ==
    IF r.err = "" /\ "validate" \in mode /\ ~ rules.mustOccur \subseteq {r.val[i].type : i \in DOMAIN r.val}
      THEN Fail(r, "TypesNotOccurred") ELSE r

ReadSliceOfObjects(d, mode, lenType, typeDen, rules) ==
    LET items == [n \in 0 .. Len(d.src) |-> Done(ReadObject(NewDeserializer(After(d.src, n)), typeDen, rules))]
    IN  Then(d, MustOccur(ReadSequenceOfObjects(d, items, mode, lenType, rules), mode, rules))

ReadPayloadLength(d) == ReadNum([d EXCEPT !.err = ""], ByteSize.uint32, FALSE)

ReadPayload(d, rules) ==
    LET l == ReadPayloadLength(d)
        ty == GetObjectType(l, "uint32")
        o == ObjectFrom(RemainingBytes(l), "uint32")
        fits == ~ Lacks(l, MinPayloadByteSize) /\ ~ Lacks(l, l.val)
    IN  Then(d, CASE l.err # "" -> l
                  [] l.err = "" /\ l.val = 0 -> [l EXCEPT !.val = Nil]
                  [] l.err = "" /\ l.val # 0 /\ ~ fits -> Fail(l, "NotEnoughData")
                  [] l.err = "" /\ l.val # 0 /\ fits ->
                       CASE ty.val \notin rules.allowed -> Fail(l, "Guard")
                         [] ty.val \in rules.allowed /\ o.err # "" -> Fail(l, o.err)
                         [] ty.val \in rules.allowed /\ o.err = "" /\ o.n # l.val
                              -> Fail(l, "InvalidBytes")
                         [] OTHER -> Take(l, o.n, o.val))

(***************************************************************************)
(* The steps of either chain that neither write nor read.                  *)
(***************************************************************************)
AbortIf(chain, aborts) == Then(chain, IF aborts THEN Fail(chain, "Aborted") ELSE chain)

WithValidation(chain, mode, fails) ==
    Then(chain, IF "validate" \in mode /\ fails THEN Fail(chain, "Validation") ELSE chain)

ConsumedAll(d) == Then(d, IF d.offset # Len(d.src) THEN Fail(d, "NotAllConsumed") ELSE d)
=============================================================================
