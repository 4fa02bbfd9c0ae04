------------------------- MODULE SerializerChain -------------------------
(***************************************************************************)
(* Chains of calls on a Serializer and on a Deserializer, and the writer   *)
(* and reader of serializer/stream, which do the same on a buffer with a   *)
(* position.  A chain writes the items of a script one by one; the bytes   *)
(* are then read back by the same script.  A second kind of chain reads    *)
(* bytes that come from elsewhere.                                         *)
(***************************************************************************)
EXTENDS Serializer

CONSTANTS Items,          \* what the chains write and read
          StreamItems,    \* what is written to and read from a stream
          ForeignSources, \* bytes that no chain of ours has written
          Modes,          \* sets of "validate" and "order"
          MaxItems        \* length of a script

VARIABLES phase, mode, script, ser, des, got

vars == <<phase, mode, script, ser, des, got>>

(***************************************************************************)
(* serializer/stream: an io.WriteSeeker in memory and a bytes.Reader.      *)
(***************************************************************************)
NewByteBuffer == [buf |-> <<>>, pos |-> 0, err |-> ""]

(* ByteBuffer.Write: pad up to the position, overwrite, then append. *)
BufferWrite(w, p) ==
    LET padded == w.buf \o [i \in 1 .. w.pos - Len(w.buf) |-> 0]
        at(i) == IF i > w.pos /\ i <= w.pos + Len(p) THEN p[i - w.pos] ELSE padded[i]
        end == w.pos + Len(p)
        size == IF end > Len(padded) THEN end ELSE Len(padded)
    IN  Then(w, [w EXCEPT !.buf = [i \in 1 .. size |-> at(i)], !.pos = end])

GoTo(w, offset) == Then(w, [w EXCEPT !.pos = offset])

writeFixedSize(w, l, lenType) ==
    Then(w, IF lenType # "uint64" /\ l >= Base ^ ByteSize[lenType] THEN Fail(w, "LengthOutOfRange")
            ELSE BufferWrite(w, ToBytes(l, ByteSize[lenType])))

WriteBytesWithSize(w, b, lenType) == BufferWrite(writeFixedSize(w, Len(b), lenType), b)
WriteObjectWithSize(w, b, lenType) == WriteBytesWithSize(w, b, lenType)

WriteCollectionMutant(w, elems, lenType) ==
    LET body == FoldLeft(LAMBDA acc, e : WriteBytesWithSize(acc, e, "byte"),
                         writeFixedSize(w, 0, lenType), elems)
    IN  writeFixedSize(GoTo(body, w.pos), Len(elems), lenType)

(* The count is written as zero, and put right when the elements are out. *)
WriteCollection(w, elems, lenType) ==
    LET body == FoldLeft(LAMBDA acc, e : WriteBytesWithSize(acc, e, "byte"),
                         writeFixedSize(w, 0, lenType), elems)
    IN  GoTo(writeFixedSize(GoTo(body, w.pos), Len(elems), lenType), body.pos)

(* bytes.Reader.Read answers EOF at the end of its bytes, also when it is
   asked for none, and fewer bytes than asked for when there are fewer. *)
StreamReadBytes(d, n) ==
    Then(d, IF Lacks(d, 1) \/ Lacks(d, n) THEN Fail(d, "NotEnoughData")
            ELSE Take(d, n, Peek(d, n)))

readFixedSize(d, lenType) == ReadNum(d, ByteSize[lenType], FALSE)

ReadBytesWithSize(d, lenType) ==
    LET size == readFixedSize(d, lenType)
    IN  CASE size.err # "" -> size
          [] size.err = "" /\ size.val = 0 -> [size EXCEPT !.val = <<>>]
          [] OTHER -> StreamReadBytes(size, size.val)

ReadObjectWithSize(d, lenType) ==
    LET size == readFixedSize(d, lenType)
    IN  IF size.err # "" THEN size ELSE StreamReadBytes(size, size.val)

PeekSize(d, lenType) == [readFixedSize(d, lenType) EXCEPT !.offset = d.offset]

Collect(acc, e) == Then(acc, IF e.err # "" THEN e ELSE [e EXCEPT !.val = Append(acc.val, @)])

ReadCollection(d, lenType) ==
    LET count == readFixedSize(d, lenType)
        read(acc, i) == Collect(acc, ReadBytesWithSize(acc, "byte"))
    IN  IF count.err # "" THEN count
        ELSE FoldLeft(read, [count EXCEPT !.val = <<>>], [i \in 1 .. count.val |-> i])

StreamWrite(w, it) ==
    CASE it.k = "number" -> BufferWrite(w, ToBytes(it.v, it.w))
      [] it.k = "raw" -> BufferWrite(w, it.v)
      [] it.k = "sized" -> WriteBytesWithSize(w, it.v, it.len)
      [] it.k = "sizedobject" -> WriteObjectWithSize(w, it.v, it.len)
      [] it.k = "collection" -> WriteCollection(w, it.v, it.len)

ComparePeeked(peeked, all) ==
    IF all.err = "" /\ peeked.val # Len(all.val) THEN Fail(all, "PeekDiffers") ELSE all

StreamRead(d, it) ==
    CASE it.k = "number" -> ReadNum(d, it.w, FALSE)
      [] it.k = "raw" -> StreamReadBytes(d, Len(it.v))
      [] it.k = "sized" -> ReadBytesWithSize(d, it.len)
      [] it.k = "sizedobject" -> ReadObjectWithSize(d, it.len)
      [] it.k = "collection" -> ComparePeeked(PeekSize(d, it.len), ReadCollection(d, it.len))

(***************************************************************************)
(* One call of a chain.  The elements of a sequence carry a length byte.   *)
(***************************************************************************)
ElementBytes(e) == ToBytes(Len(e), 1) \o e

ElementFrom(b) == Done(ReadVariableByteSlice(NewDeserializer(b), "byte", 0, 0))

WriteItem(s, it, m) ==
    CASE it.k = "bool" -> WriteBool(s, it.v)
      [] it.k = "byte" -> WriteByte(s, it.v)
      [] it.k = "num" -> WriteNum(s, it.v, it.w)
      [] it.k = "uint256" -> WriteUint256(s, it.v)
      [] it.k = "time" -> WriteTime(s, it.v)
      [] it.k = "bytes" -> WriteBytes(s, it.v)
      [] it.k = "slice" -> WriteVariableByteSlice(s, it.v, it.len, it.min, it.max)
      [] it.k = "string" -> WriteString(s, it.v, it.len, it.min, it.max)
      [] it.k = "prefix" -> WriteNum(s, it.v, ByteSize[it.den])
      [] it.k = "sequence" ->
           WriteSliceOfByteSlices(s, [i \in DOMAIN it.v |-> ElementBytes(it.v[i])], m, it.len, it.rules)
      [] it.k = "objects" -> WriteSliceOfObjects(s, it.v, m, it.len, it.den, it.rules)
      [] it.k = "object" -> WriteObject(s, it.v, m, it.den, it.rules)
      [] it.k = "payload" -> WritePayload(s, it.v, it.rules)
      [] it.k = "abort" -> AbortIf(s, it.v)
      [] it.k = "validation" -> WithValidation(s, m, it.v)

ReadItem(d, it, m) ==
    CASE it.k = "bool" -> ReadBool(d)
      [] it.k = "byte" -> ReadByte(d)
      [] it.k = "num" -> ReadNum(d, it.w, it.signed)
      [] it.k = "uint256" -> ReadUint256(d)
      [] it.k = "time" -> ReadTime(d)
      [] it.k = "bytes" -> ReadBytes(d, Len(it.v))
      [] it.k = "slice" -> ReadVariableByteSlice(d, it.len, it.min, it.max)
      [] it.k = "string" -> ReadString(d, it.len, it.min, it.max)
      [] it.k = "prefix" -> [CheckTypePrefix(d, it.v, it.den) EXCEPT !.val = it.v]
      [] it.k = "sequence" -> ReadSequenceOfObjects(d, [n \in 0 .. Len(d.src) |-> ElementFrom(After(d.src, n))], m, it.len, it.rules)
      [] it.k = "objects" -> ReadSliceOfObjects(d, m, it.len, it.den, it.rules)
      [] it.k = "object" -> ReadObject(d, it.den, it.rules)
      [] it.k = "payload" -> ReadPayload(d, it.rules)
      [] it.k = "abort" -> [AbortIf(d, it.v) EXCEPT !.val = it.v]
      [] it.k = "validation" -> [WithValidation(d, m, it.v) EXCEPT !.val = it.v]

(***************************************************************************)
(* The chains.                                                             *)
(***************************************************************************)
Init ==
    /\ mode \in Modes
    /\ script = <<>> /\ got = <<>>
    /\ \/ phase = "write" /\ ser = NewSerializer /\ des = NewDeserializer(<<>>)
       \/ phase = "stream" /\ ser = NewByteBuffer /\ des = NewDeserializer(<<>>)
       \/ phase = "foreign" /\ ser = NewSerializer
            /\ des \in {NewDeserializer(b) : b \in ForeignSources}

Write(it) ==
    /\ phase = "write" /\ Len(script) < MaxItems
    /\ ser' = WriteItem(ser, it, mode)
    /\ script' = Append(script, it)
    /\ UNCHANGED <<phase, mode, des, got>>

WriteToStream(it) ==
    /\ phase = "stream" /\ Len(script) < MaxItems
    /\ ser' = StreamWrite(ser, it)
    /\ script' = Append(script, it)
    /\ UNCHANGED <<phase, mode, des, got>>

(* Serialize, or ByteBuffer.Reader: there are bytes only without an error. *)
Serialize ==
    /\ phase \in {"write", "stream"} /\ script # <<>> /\ ser.err = ""
    /\ phase' = IF phase = "write" THEN "read" ELSE "streamread"
    /\ des' = NewDeserializer(ser.buf)
    /\ UNCHANGED <<mode, script, ser, got>>

Read ==
    /\ phase \in {"read", "streamread"} /\ Len(got) < Len(script)
    /\ LET it == script[Len(got) + 1]
       IN  des' = IF phase = "read" THEN ReadItem(des, it, mode) ELSE StreamRead(des, it)
    /\ got' = Append(got, des'.val)
    /\ UNCHANGED <<phase, mode, script, ser>>

ReadForeign(it) ==
    /\ phase = "foreign" /\ Len(script) < MaxItems /\ des.err = ""
    /\ des' = ReadItem(des, it, mode)
    /\ script' = Append(script, it)
    /\ got' = Append(got, des'.val)
    /\ UNCHANGED <<phase, mode, ser>>

Next ==
    \/ \E it \in Items : Write(it) \/ ReadForeign(it)
    \/ \E it \in StreamItems : WriteToStream(it)
    \/ Serialize
    \/ Read

Spec == Init /\ [][Next]_vars

(***************************************************************************)
(* What the chains promise.                                                *)
(***************************************************************************)
(* What reading an item back must give: the value written, in the order in
   which it was written. *)
Expected(it) ==
    IF it.k \in {"sequence", "objects"} /\ "order" \in mode /\ "LexicalOrdering" \in it.rules.mode
      THEN SortSeq(it.v, LAMBDA a, b :
             IF it.k = "sequence" THEN LexLess(ElementBytes(a), ElementBytes(b))
             ELSE LexLess(ObjectBytes(a, it.den), ObjectBytes(b, it.den)))
      ELSE it.v

(* The items a reader can be given back: the types that must occur do (the
   writer does not look), the types are ones the read guard knows (without
   validation the writer does not ask its guard), a time lies in the range
   of the timestamps, and no empty object ends a stream. *)
Readable(it) ==
    /\ it.k = "objects" => /\ \A i \in DOMAIN it.v : it.v[i].type \in it.rules.allowed
                           /\ "validate" \in mode =>
                                it.rules.mustOccur \subseteq {it.v[i].type : i \in DOMAIN it.v}
    /\ it.k = "object" => it.v.type \in it.rules.allowed
    /\ it.k = "time" => it.v \in 0 .. MaxInt64
    /\ it.k \in {"raw", "sizedobject"} => it.v # <<>>

(* What a chain has written without an error is read back by the same calls
   in the same mode: no error, the same values, and nothing left over. *)
ChainRoundTrip ==
    phase \in {"read", "streamread"} /\ (\A i \in DOMAIN script : Readable(script[i])) =>
      /\ des.err = ""
      /\ \A i \in DOMAIN got : got[i] = Expected(script[i])
      /\ Len(got) = Len(script) => ConsumedAll(des).err = ""

(* With validation there is one encoding: whatever bytes a validating reader
   accepts, writing the values it got from them gives these bytes again, and
   the writer's own validation accepts them.  (Times are the exception, they
   are cut to the largest timestamp.) *)
Canonical ==
    phase = "foreign" /\ "validate" \in mode /\ des.err = ""
      /\ (\A i \in DOMAIN script : script[i].k # "time") =>
      LET again == FoldLeft(LAMBDA s, i : WriteItem(s, [script[i] EXCEPT !.v = got[i]], mode),
                            NewSerializer, [i \in DOMAIN script |-> i])
      IN  again.err = "" /\ again.buf = SubSeq(des.src, 1, des.offset)
=============================================================================
