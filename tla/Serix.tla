------------------------------- MODULE Serix -------------------------------
(***************************************************************************)
(* serializer/serix: the reflection driven codec on top of Serializer.     *)
(*                                                                         *)
(* A Go type is a record: its kind k, its name id and what the kind needs  *)
(* (elem, key, n, w, fields).  A pointer or interface value is Nil or what *)
(* it holds; an interface value says which type it holds.  A struct is a   *)
(* function from field names, a map a function, a slice a sequence; nil    *)
(* and empty slices are one.  A string is a sequence of bytes and the byte *)
(* Base - 1 is not UTF-8.  Floats are left out.                            *)
(*                                                                         *)
(* JSON is a tree of records: num, str, bool, list or obj.  What a string  *)
(* holds is tagged with the format it was written in.                      *)
(***************************************************************************)
EXTENDS Serializer, TLC

CONSTANTS Schema,         \* the types of the program that have a name
          Registrations,  \* the calls the program makes when it starts
          Samples         \* the values it encodes: [type, v, ts]

VARIABLES typeSettings,   \* TypeSettingsRegistry: type name -> settings
          interfaces,     \* InterfacesRegistry: interface -> InterfaceObjects
          validators,     \* validatorsRegistry: type name -> refused values
          pending,        \* registrations not made yet
          doc             \* the value that is being encoded and decoded

vars == <<typeSettings, interfaces, validators, pending, doc>>

(***************************************************************************)
(* Type settings.                                                          *)
(***************************************************************************)
NoSettings == [lpt |-> Nil, obj |-> Nil, lex |-> Nil, rules |-> Nil, key |-> Nil]

NoRules == [min |-> 0, max |-> 0, mustOccur |-> {}, mode |-> {}]

merge(ts, other) ==
    [ts EXCEPT !.lpt = IF @ = Nil THEN other.lpt ELSE @,
               !.obj = IF @ = Nil THEN other.obj ELSE @,
               !.lex = IF @ = Nil THEN other.lex ELSE @,
               !.rules = IF @ = Nil THEN other.rules ELSE @,
               !.key = IF @ = Nil THEN other.key ELSE @]

Rules(ts) == IF ts.rules = Nil THEN NoRules ELSE ts.rules

WithMinLen(ts, l) == [ts EXCEPT !.rules = [Rules(ts) EXCEPT !.min = l]]

WithMaxLen(ts, l) == [ts EXCEPT !.rules = [Rules(ts) EXCEPT !.max = l]]

ensureOrdering(ts) ==
    [ts EXCEPT !.lex = TRUE,
               !.rules = [Rules(ts) EXCEPT !.mode = @ \cup {"LexicalOrdering"}]]

toModeMutant(ts, validation) ==
    IF ~ validation THEN {}
    ELSE {"validate"} \cup (IF ts.lex # Nil /\ ts.lex THEN {"order"} ELSE {})

toMode(ts, validation) ==
    (IF validation THEN {"validate"} ELSE {}) \cup (IF ts.lex # Nil /\ ts.lex THEN {"order"} ELSE {})

checkMinMaxBoundsLength(ts, length) == CheckBounds(Rules(ts), length)

hasLength(ty) == ty.k \in {"bytearray", "array", "map", "slice", "bytes", "string"}

LengthOf(ty, v) == IF ty.k = "map" THEN Cardinality(DOMAIN v) ELSE Len(v)

checkMinMaxBounds(ts, ty, v) ==
    IF hasLength(ty) THEN checkMinMaxBoundsLength(ts, LengthOf(ty, v)) ELSE ""

HasSettings(ty) ==
    ty.id \in DOMAIN typeSettings \/ (ty.k = "ptr" /\ ty.elem.id \in DOMAIN typeSettings)

GetByType(ty) ==
    CASE ty.id \in DOMAIN typeSettings -> typeSettings[ty.id]
      [] ty.id \notin DOMAIN typeSettings /\ HasSettings(ty) -> typeSettings[ty.elem.id]
      [] OTHER -> NoSettings

(* the settings of the type under the indirections of a value *)
GetByValue(ty, v) ==
    CASE ty.id \in DOMAIN typeSettings -> typeSettings[ty.id]
      [] ty.id \notin DOMAIN typeSettings /\ ty.k = "ptr" -> GetByType(ty.elem)
      [] ty.id \notin DOMAIN typeSettings /\ ty.k = "iface" -> GetByType(Schema[v.type])
      [] OTHER -> NoSettings

(* a nil value has nothing under its indirections: reflect panics *)
NoValueToAsk(ty) == ty.k \in {"ptr", "iface"} /\ ty.id \notin DOMAIN typeSettings

(***************************************************************************)
(* Struct fields.  A field is [name, words, type, exported, embedded, tag] *)
(* (words: its name as words with their case); a tag is Nil or             *)
(* [key, parts], a part [name, val].                                       *)
(***************************************************************************)
DeRefPointer(ty) == IF ty.k = "ptr" THEN ty.elem ELSE ty

NoTag == [err |-> "", opt |-> FALSE, inlined |-> FALSE, omitEmpty |-> FALSE, ts |-> NoSettings]

(* A part is looked for among the names of the parts before it as it stands,
   with its value: only a repeated flag is found. *)
ParseSerixSettings(tag) ==
    LET repeated(i) == \E j \in 1 .. i - 1 : tag.parts[j].name = tag.parts[i].name
                                             /\ tag.parts[i].val = Nil
        parse(acc, i) ==
          LET name == tag.parts[i].name
              val == tag.parts[i].val
          IN  Then(acc,
                CASE repeated(i) -> Fail(acc, "DuplicatedTagPart")
                  [] ~ repeated(i) /\ name = "optional" -> [acc EXCEPT !.opt = TRUE]
                  [] ~ repeated(i) /\ name = "inlined" -> [acc EXCEPT !.inlined = TRUE]
                  [] ~ repeated(i) /\ name = "omitempty" -> [acc EXCEPT !.omitEmpty = TRUE]
                  [] name \in {"lenPrefix", "minLen", "maxLen", "description"} /\ val = Nil
                       -> Fail(acc, "TagFormat")
                  [] name = "description" /\ val # Nil -> acc
                  [] name = "lenPrefix" /\ val # Nil ->
                       IF val \in DOMAIN ByteSize THEN [acc EXCEPT !.ts.lpt = val]
                       ELSE Fail(acc, "UnknownLengthPrefixType")
                  [] name = "minLen" /\ val # Nil -> [acc EXCEPT !.ts = WithMinLen(@, val)]
                  [] name = "maxLen" /\ val # Nil -> [acc EXCEPT !.ts = WithMaxLen(@, val)]
                  [] OTHER -> Fail(acc, "UnknownTagPart"))
    IN  FoldLeft(parse, [NoTag EXCEPT !.ts.key = tag.key], [i \in DOMAIN tag.parts |-> i])

FieldError(f, s) ==
    LET under == DeRefPointer(f.type).k
    IN  CASE s.err # "" -> s.err
          [] s.opt /\ f.type.k \notin {"ptr", "bigint", "iface"} -> "OptionalNeedsPointer"
          [] s.opt /\ f.embedded -> "OptionalEmbedded"
          [] s.inlined /\ ~ f.exported -> "InlinedUnexported"
          [] ~ s.inlined /\ f.embedded /\ under = "iface" -> "EmbeddedInterfaceNeedsInlined"
          [] OTHER -> ""

(* The tagged fields in the order of their positions, which is the order of
   the declarations; the structFieldsCache keeps this result per type. *)
Embeds(f) == f.embedded /\ DeRefPointer(f.type).k \in {"struct", "iface"}

Field(f, settings) ==
    [name |-> f.name, words |-> f.words, type |-> f.type, exported |-> f.exported, embedded |-> Embeds(f),
     opt |-> settings.opt, inlined |-> settings.inlined, omitEmpty |-> settings.omitEmpty,
     ts |-> settings.ts, err |-> FieldError(f, settings)]

FirstError(fields) ==
    LET errors == SelectSeq(fields, LAMBDA f : f.err # "")
    IN  [err |-> IF errors = <<>> THEN "" ELSE errors[1].err, fields |-> fields]

parseStructFields(ty) ==
    LET tagged == SelectSeq(ty.fields, LAMBDA f : f.tag # Nil /\ (f.exported \/ Embeds(f)))
    IN  FirstError([i \in DOMAIN tagged |-> Field(tagged[i], ParseSerixSettings(tagged[i].tag))])

(***************************************************************************)
(* Validation shared by the codecs.                                        *)
(***************************************************************************)
callSyntacticValidator(ty, v) ==
    LET own == ty.id \in DOMAIN validators
        elem == ~ own /\ ty.k = "ptr" /\ ty.elem.id \in DOMAIN validators
    IN  IF (own /\ v \in validators[ty.id]) \/ (elem /\ v \in validators[ty.elem.id])
          THEN "Validator" ELSE ""

(* the type of an element once its pointer or interface is resolved *)
Resolved(ty, v) == CASE ty.k = "iface" -> DeRefPointer(Schema[v.type])
                     [] OTHER -> DeRefPointer(ty)

checkArrayMustOccur(elem, v, ts) ==
    LET must == Rules(ts).mustOccur
        settings == [i \in DOMAIN v |-> GetByType(Resolved(elem, v[i]))]
    IN  CASE must = {} -> ""
          [] must # {} /\ \E i \in DOMAIN v : settings[i].obj = Nil -> "MissingTypeSettings"
          [] must # {} /\ (\A i \in DOMAIN v : settings[i].obj # Nil)
               /\ ~ must \subseteq {settings[i].obj.code : i \in DOMAIN v} -> "TypesNotOccurred"
          [] OTHER -> ""

(* utf8.ValidString *)
ValidString(s) == \A i \in DOMAIN s : s[i] # Base - 1

RECURSIVE ZeroOf(_)
ZeroOf(ty) ==
    CASE ty.k = "bool" -> FALSE
      [] ty.k \in {"num", "time"} -> 0
      [] ty.k \in {"string", "bytes", "slice"} -> <<>>
      [] ty.k = "bytearray" -> [i \in 1 .. ty.n |-> 0]
      [] ty.k = "array" -> [i \in 1 .. ty.n |-> ZeroOf(ty.elem)]
      [] ty.k = "struct" -> [n \in {ty.fields[i].name : i \in DOMAIN ty.fields} |->
                               ZeroOf((CHOOSE f \in Range(ty.fields) : f.name = n).type)]
      [] OTHER -> Nil

(***************************************************************************)
(* Encode.  The result is a Serializer: its bytes, or its error.           *)
(***************************************************************************)
Failed(e) == Fail(NewSerializer, e)

WriteObjectType(s, ts) == IF ts.obj = Nil THEN s ELSE WriteNum(s, ts.obj.code, ByteSize[ts.obj.den])

(* The type encodes itself: to one byte. *)
IsSerializable(ty, v) ==
    v # Nil /\ DeRefPointer(IF ty.k = "iface" THEN Schema[v.type] ELSE ty).k = "custom"

encodeSliceOfBytes(data, ts, validation) ==
    IF ts.lpt = Nil THEN Failed("NoLengthPrefixType")
    ELSE WriteSliceOfByteSlices(NewSerializer, data, toMode(ts, validation), ts.lpt, Rules(ts))

encodeBytes(v, ts) ==
    IF ts.lpt = Nil THEN Failed("NoLengthPrefixType")
    ELSE WriteVariableByteSlice(NewSerializer, v, ts.lpt, Rules(ts).min, Rules(ts).max)

encodeString(v, ts, validation) ==
    CASE ts.lpt = Nil -> Failed("NoLengthPrefixType")
      [] ts.lpt # Nil /\ validation /\ ~ ValidString(v) -> Failed("NonUTF8String")
      [] ts.lpt # Nil /\ validation /\ ValidString(v) ->
           WriteString(NewSerializer, v, ts.lpt, Rules(ts).min, Rules(ts).max)
      [] OTHER -> WriteString(NewSerializer, v, ts.lpt, 0, 0)

RECURSIVE encode(_, _, _, _)

(* the encodings of a sequence of values, or the first error among them *)
encodeElements(ty, v, validation) ==
    LET parts == [i \in DOMAIN v |-> encode(ty, v[i], NoSettings, validation)]
        errors == SelectSeq(parts, LAMBDA p : p.err # "")
    IN  [err |-> IF errors = <<>> THEN "" ELSE errors[1].err,
         data |-> [i \in DOMAIN v |-> parts[i].buf]]

encodeSlice(elem, v, ts, validation) ==
    LET must == IF validation THEN checkArrayMustOccur(elem, v, ts) ELSE ""
        elems == encodeElements(elem, v, validation)
    IN  CASE must # "" -> Failed(must)
          [] must = "" /\ elems.err # "" -> Failed(elems.err)
          [] OTHER -> encodeSliceOfBytes(elems.data, ts, validation)

encodeMapKVPair(ty, k, v, validation) ==
    LET key == encode(ty.key, k, GetByValue(ty.key, k), validation)
    IN  Then(key, LET elem == encode(ty.elem, v[k], GetByValue(ty.elem, v[k]), validation)
                  IN  IF elem.err # "" THEN elem ELSE WriteBytes(key, elem.buf))

(* in the order in which the map is iterated, whichever it is *)
encodeMap(ty, v, ts, validation) ==
    LET keys == SetToSeq(DOMAIN v)
        pairs == [i \in DOMAIN keys |-> encodeMapKVPair(ty, keys[i], v, validation)]
        errors == SelectSeq(pairs, LAMBDA p : p.err # "")
    IN  IF errors # <<>> THEN errors[1]
        ELSE encodeSliceOfBytes([i \in DOMAIN keys |-> pairs[i].buf], ensureOrdering(ts), validation)

RECURSIVE encodeStructFields(_, _, _, _)
encodeStructFields(s, ty, v, validation) ==
    LET parsed == parseStructFields(ty)
        write(acc, f) ==
          LET b == encode(f.type, v[f.name], f.ts, validation)
          IN  Then(acc,
                CASE f.embedded /\ ~ f.inlined ->
                       IF v[f.name] = Nil THEN acc
                       ELSE encodeStructFields(acc, DeRefPointer(f.type), v[f.name], validation)
                  [] ~ (f.embedded /\ ~ f.inlined) /\ f.opt /\ v[f.name] = Nil -> WritePayloadLength(acc, 0)
                  [] ~ (f.embedded /\ ~ f.inlined) /\ ~ (f.opt /\ v[f.name] = Nil) /\ b.err # ""
                       -> Fail(acc, b.err)
                  [] OTHER -> WriteBytes(IF f.opt THEN WritePayloadLength(acc, Len(b.buf)) ELSE acc, b.buf))
    IN  IF parsed.err # "" THEN Fail(s, parsed.err) ELSE FoldLeft(write, s, parsed.fields)

encodeStruct(ty, v, ts, validation) ==
    IF ty.k = "time" THEN WriteTime(NewSerializer, v)
    ELSE encodeStructFields(WriteObjectType(NewSerializer, ts), ty, v, validation)

encodeArray(ty, v, ts, validation) ==
    IF ty.k = "bytearray" THEN WriteBytes(WriteObjectType(NewSerializer, ts), v)
    ELSE encodeSlice(ty.elem, v, ts, validation)

encodeInterface(ty, v, ts, validation) ==
    CASE v = Nil -> Failed("NoUnderlyingValue")
      [] v # Nil /\ ty.id \notin DOMAIN interfaces -> Failed("InterfaceNotRegistered")
      [] v # Nil /\ ty.id \in DOMAIN interfaces ->
           IF v.type \notin DOMAIN interfaces[ty.id].fromTypeToCode THEN Failed("TypeNotRegistered")
           ELSE encode(Schema[v.type], v.v, ts, validation)

encodeBasedOnType(ty, v, ts, validation) ==
    LET bounds == IF validation THEN checkMinMaxBounds(ts, ty, v) ELSE ""
    IN  CASE bounds # "" -> Failed(bounds)
          [] bounds = "" /\ ty.k = "bigint" -> WriteUint256(NewSerializer, v)
          [] bounds = "" /\ ty.k = "ptr" ->
               CASE v = Nil -> Failed("NilPointer")
                 [] v # Nil /\ ty.elem.k \in {"struct", "time"} -> encodeStruct(ty.elem, v, ts, validation)
                 [] v # Nil /\ ty.elem.k \in {"array", "bytearray"} -> encodeArray(ty.elem, v, ts, validation)
                 [] OTHER -> Failed("UnsupportedType")
          [] bounds = "" /\ ty.k \in {"struct", "time"} -> encodeStruct(ty, v, ts, validation)
          [] bounds = "" /\ ty.k = "slice" -> encodeSlice(ty.elem, v, ts, validation)
          [] bounds = "" /\ ty.k = "bytes" -> encodeBytes(v, ts)
          [] bounds = "" /\ ty.k = "map" -> encodeMap(ty, v, ts, validation)
          [] bounds = "" /\ ty.k \in {"array", "bytearray"} -> encodeArray(ty, v, ts, validation)
          [] bounds = "" /\ ty.k = "iface" -> encodeInterface(ty, v, ts, validation)
          [] bounds = "" /\ ty.k = "string" -> encodeString(v, ts, validation)
          [] bounds = "" /\ ty.k = "bool" -> WriteBool(NewSerializer, v)
          [] bounds = "" /\ ty.k = "num" -> WriteNum(NewSerializer, v, ty.w)

encode(ty, v, ts, validation) ==
    LET refused == IF validation THEN callSyntacticValidator(ty, v) ELSE ""
        own == IF ty.k = "iface" THEN Schema[v.type] ELSE ty
    IN  CASE refused # "" -> Failed(refused)
          [] refused = "" /\ IsSerializable(ty, v) ->
               WriteByte(WriteObjectType(NewSerializer, merge(ts, GetByType(own))),
                         IF ty.k = "iface" THEN v.v ELSE v)
          [] OTHER -> encodeBasedOnType(ty, v, merge(ts, GetByType(ty)), validation)

(***************************************************************************)
(* Decode.  The result is [n, err, val]: bytes read, error, value.         *)
(***************************************************************************)
Refused(e) == [n |-> 0, err |-> e, val |-> Nil]

CheckObjectType(d, ts) == IF ts.obj = Nil THEN d ELSE CheckTypePrefix(d, ts.obj.code, ts.obj.den)

decodeSequence(b, items, ts, validation) ==
    IF ts.lpt = Nil THEN Refused("NoLengthPrefixType")
    ELSE Done(ReadSequenceOfObjects(NewDeserializer(b), items, toMode(ts, validation), ts.lpt, Rules(ts)))

decodeBytes(b, ts) ==
    IF ts.lpt = Nil THEN Refused("NoLengthPrefixType")
    ELSE Done(ReadVariableByteSlice(NewDeserializer(b), ts.lpt, Rules(ts).min, Rules(ts).max))

CheckUTF8(d, validation) ==
    IF validation /\ d.err = "" /\ ~ ValidString(d.val) THEN Refused("NonUTF8String") ELSE Done(d)

decodeString(b, ts, validation) ==
    LET rules == IF validation THEN Rules(ts) ELSE NoRules
    IN  IF ts.lpt = Nil THEN Refused("NoLengthPrefixType")
        ELSE CheckUTF8(ReadString(NewDeserializer(b), ts.lpt, rules.min, rules.max), validation)

RECURSIVE decode(_, _, _, _)

(* r is what was decoded *)
CheckMustOccur(elem, r, ts, validation) ==
    LET must == IF r.err = "" /\ validation THEN checkArrayMustOccur(elem, r.val, ts) ELSE ""
    IN  IF must # "" THEN Refused(must) ELSE r

decodeSlice(elem, b, ts, validation) ==
    LET items == [n \in 0 .. Len(b) |-> decode(elem, After(b, n), NoSettings, validation)]
    IN  CheckMustOccur(elem, decodeSequence(b, items, ts, validation), ts, validation)

decodeMapKVPair(ty, b, validation) ==
    LET key == decode(ty.key, b, GetByValue(ty.key, Nil), validation)
        elem == decode(ty.elem, After(b, key.n), GetByValue(ty.elem, Nil), validation)
    IN  CASE NoValueToAsk(ty.key) \/ NoValueToAsk(ty.elem) -> Refused("Panic")
          [] ~ (NoValueToAsk(ty.key) \/ NoValueToAsk(ty.elem)) /\ key.err # "" -> key
          [] ~ (NoValueToAsk(ty.key) \/ NoValueToAsk(ty.elem)) /\ key.err = "" /\ elem.err # "" -> elem
          [] OTHER -> [n |-> key.n + elem.n, err |-> "", val |-> <<key.val, elem.val>>]

(* the map of the entries that r has decoded *)
SetMapIndex(r, ts, validation) ==
    LET keys == {r.val[i][1] : i \in DOMAIN r.val}
        m == [k \in keys |-> (CHOOSE p \in Range(r.val) : p[1] = k)[2]]
        bounds == IF validation THEN checkMinMaxBoundsLength(ts, Cardinality(keys)) ELSE ""
    IN  CASE r.err # "" -> r
          [] r.err = "" /\ Cardinality(keys) # Len(r.val) -> Refused("MapViolatesUniqueness")
          [] r.err = "" /\ Cardinality(keys) = Len(r.val) /\ bounds # "" -> Refused(bounds)
          [] OTHER -> [r EXCEPT !.val = m]

decodeMap(ty, b, ts, validation) ==
    LET items == [n \in 0 .. Len(b) |-> decodeMapKVPair(ty, After(b, n), validation)]
    IN  SetMapIndex(decodeSequence(b, items, ensureOrdering(ts), validation), ts, validation)

(* d.val is the struct as far as its fields have been read *)
RECURSIVE decodeStructFields(_, _, _)
decodeStructFields(d, ty, validation) ==
    LET parsed == parseStructFields(ty)
        set(acc, f, rest, val) == [rest EXCEPT !.val = (f.name :> val) @@ acc.val]
        read(acc, f) ==
          LET inner == decodeStructFields(acc, DeRefPointer(f.type), validation)
              length == ReadPayloadLength(acc)
              from == IF f.opt THEN [length EXCEPT !.err = acc.err] ELSE acc
              r == decode(f.type, RemainingBytes(from), f.ts, validation)
          IN  CASE acc.failed -> acc
                [] ~ acc.failed /\ f.embedded /\ ~ f.inlined /\ f.type.k = "ptr" /\ ~ f.exported
                     -> [acc EXCEPT !.failed = TRUE, !.err = "UnexportedNilPointer"]
                [] ~ acc.failed /\ f.embedded /\ ~ f.inlined /\ (f.type.k # "ptr" \/ f.exported)
                     -> set(acc, f, inner, inner.val)
                [] ~ acc.failed /\ (~ f.embedded \/ f.inlined) /\ f.opt /\ length.err # ""
                     -> [acc EXCEPT !.failed = TRUE, !.err = length.err]
                [] ~ acc.failed /\ (~ f.embedded \/ f.inlined) /\ f.opt /\ length.err = "" /\ length.val = 0
                     -> set(acc, f, from, Nil)
                [] OTHER ->
                     IF r.err # "" THEN [acc EXCEPT !.failed = TRUE, !.err = r.err]
                     ELSE IF f.opt /\ r.n # length.val THEN [acc EXCEPT !.failed = TRUE, !.err = "LengthDiffers"]
                     ELSE set(acc, f, Skip(from, r.n), r.val)
    IN  IF parsed.err # "" THEN [d EXCEPT !.failed = TRUE, !.err = parsed.err]
        ELSE FoldLeft(read, [d EXCEPT !.val = ZeroOf(ty)], parsed.fields)

decodeStruct(ty, b, ts, validation) ==
    LET d == CheckObjectType(NewDeserializer(b), ts)
    IN  IF ty.k = "time" THEN Done(ReadTime(NewDeserializer(b)))
        ELSE Done(decodeStructFields(d @@ [failed |-> FALSE], ty, validation))

(* The slice made from an array of objects cannot be set: reflect panics as
   soon as there is an element. *)
Unsettable(r) == IF r.err = "" /\ r.val # <<>> THEN Refused("Panic") ELSE r

decodeArray(ty, b, ts, validation) ==
    IF ty.k = "bytearray" THEN Done(ReadBytes(CheckObjectType(NewDeserializer(b), ts), ty.n))
    ELSE Unsettable(decodeSlice(ty.elem, b, ts, validation))

decodeInterface(ty, b, ts, validation) ==
    LET objs == interfaces[ty.id]
        code == GetObjectType(NewDeserializer(b), objs.den)
    IN  CASE ty.id \notin DOMAIN interfaces -> Refused("InterfaceNotRegistered")
          [] ty.id \in DOMAIN interfaces /\ code.err # "" -> Refused(code.err)
          [] ty.id \in DOMAIN interfaces /\ code.err = "" ->
               IF code.val \notin DOMAIN objs.fromCodeToType THEN Refused("TypeNotRegistered")
               ELSE LET name == objs.fromCodeToType[code.val]
                        r == decode(Schema[name], b, ts, validation)
                    IN  IF r.err # "" THEN r ELSE [r EXCEPT !.val = [type |-> name, v |-> @]]

RECURSIVE decodeBasedOnType(_, _, _, _)
decodeBasedOnType(ty, b, given, validation) ==
    LET ts == merge(given, GetByType(ty))
        composite == {"struct", "time", "slice", "bytes", "iface", "map", "array", "bytearray"}
        elem == IF ty.k = "ptr" /\ ty.elem.k \in composite THEN ty.elem ELSE ty
    IN  CASE elem.k = "ptr" -> decodeBasedOnType(ty.elem, b, ts, validation)
          [] elem.k = "bigint" -> Done(ReadUint256(NewDeserializer(b)))
          [] elem.k \in {"struct", "time"} -> decodeStruct(elem, b, ts, validation)
          [] elem.k = "slice" -> decodeSlice(elem.elem, b, ts, validation)
          [] elem.k = "bytes" -> decodeBytes(b, ts)
          [] elem.k = "map" -> decodeMap(elem, b, ts, validation)
          [] elem.k \in {"array", "bytearray"} -> decodeArray(elem, b, ts, validation)
          [] elem.k = "iface" -> decodeInterface(elem, b, ts, validation)
          [] elem.k = "string" -> decodeString(b, ts, validation)
          [] elem.k = "bool" -> Done(ReadBool(NewDeserializer(b)))
          [] elem.k = "num" -> Done(ReadNum(NewDeserializer(b), elem.w, elem.signed))

Validated(ty, r, validation) ==
    LET refused == IF r.err = "" /\ validation THEN callSyntacticValidator(ty, r.val) ELSE ""
    IN  IF refused # "" THEN Refused(refused) ELSE r

decode(ty, b, ts, validation) ==
    Validated(ty, IF DeRefPointer(ty).k = "custom"
                    THEN Done(ReadByte(CheckObjectType(NewDeserializer(b), merge(ts, GetByType(ty)))))
                    ELSE decodeBasedOnType(ty, b, ts, validation), validation)

(***************************************************************************)
(* MapEncode, followed by json.Marshal.  The result is [err, j].           *)
(***************************************************************************)
Str(format, val) == [err |-> "", j |-> [str |-> <<format, val>>]]

NoJSON(e) == [err |-> e, j |-> Nil]

(* json.Marshal puts the replacement character, three bytes, for a byte that
   is not UTF-8. *)
ToValidUTF8(s) == FlattenSeq([i \in DOMAIN s |-> IF s[i] = Base - 1 THEN <<2, 2, 2>> ELSE <<s[i]>>])

(* hexutil.Encode of bytes: "" for none *)
EncodeHex(b) == IF b = <<>> THEN Str("text", <<>>) ELSE Str("hex", b)

(* a key of one word, as written *)
Key(word) == <<[w |-> word, case |-> "lower"]>>

TypeKey(ts) == IF ts.obj = Nil THEN <<>> ELSE Key("type") :> [num |-> ts.obj.code]

isValueEmpty(ty, v) == v = ZeroOf(ty)

(* A keyword in capitals keeps its first one; then the first letter of the
   name becomes a small one. *)
FieldKeyString(words) ==
    LET shortened(x) == IF x.w \in {"id", "nft", "url", "hrp"} /\ x.case = "upper" THEN "title" ELSE x.case
        lowered(case) == CASE case = "upper" -> "lowerUpper"
                           [] case # "upper" -> "lower"
    IN  [i \in DOMAIN words |-> [words[i] EXCEPT !.case =
           IF i = 1 THEN lowered(shortened(words[i])) ELSE shortened(words[i])]]

FieldKey(f) == IF f.ts.key # Nil THEN f.ts.key ELSE FieldKeyString(f.words)

RECURSIVE mapEncode(_, _, _, _)

mapEncodeSlice(ty, v, ts, validation) ==
    LET isBytes == ty.k \in {"bytes", "bytearray"}
        bounds == IF validation THEN checkMinMaxBoundsLength(ts, Len(v)) ELSE ""
        must == IF validation THEN checkArrayMustOccur(ty.elem, v, ts) ELSE ""
        elems == [i \in DOMAIN v |-> mapEncode(ty.elem, v[i], NoSettings, validation)]
        errors == SelectSeq(elems, LAMBDA e : e.err # "")
        data == IF ts.key = Nil THEN Key("data") ELSE ts.key
    IN  CASE ts.obj # Nil /\ ~ isBytes -> NoJSON("Panic")
          [] ts.obj # Nil /\ isBytes ->
               [err |-> "", j |-> [obj |-> (data :> EncodeHex(v).j) @@ TypeKey(ts)]]
          [] ts.obj = Nil /\ bounds # "" -> NoJSON(bounds)
          [] ts.obj = Nil /\ bounds = "" /\ isBytes -> EncodeHex(v)
          [] ts.obj = Nil /\ bounds = "" /\ ~ isBytes ->
               CASE must # "" -> NoJSON(must)
                 [] must = "" /\ errors # <<>> -> errors[1]
                 [] OTHER -> [err |-> "", j |-> [list |-> [i \in DOMAIN v |-> elems[i].j]]]

mapEncodeMap(ty, v, ts, validation) ==
    LET bounds == IF validation THEN checkMinMaxBounds(ts, ty, v) ELSE ""
        key == [k \in DOMAIN v |-> mapEncode(ty.key, k, GetByValue(ty.key, k), validation)]
        elem == [k \in DOMAIN v |-> mapEncode(ty.elem, v[k], GetByValue(ty.elem, v[k]), validation)]
        bad == {k \in DOMAIN v : key[k].err # "" \/ elem[k].err # ""}
        names == {key[k].j.str : k \in DOMAIN v}
    IN  CASE bounds # "" -> NoJSON(bounds)
          [] bounds = "" /\ bad # {} -> NoJSON("Entry")
          [] bounds = "" /\ bad = {} /\ ty.key.k # "string" /\ DOMAIN v # {} -> NoJSON("Panic")
          [] OTHER -> [err |-> "", j |-> [obj |-> [n \in names |->
                         elem[CHOOSE k \in DOMAIN v : key[k].j.str = n].j]]]

RECURSIVE mapEncodeStructFields(_, _, _, _)
mapEncodeStructFields(acc0, ty, v, validation) ==
    LET parsed == parseStructFields(ty)
        write(acc, f) ==
          LET val == v[f.name]
              e == mapEncode(f.type, val, f.ts, validation)
              nested == f.embedded /\ ~ f.inlined
          IN  CASE acc.err # "" -> acc
                [] acc.err = "" /\ nested ->
                     IF val = Nil THEN acc
                     ELSE mapEncodeStructFields(acc, DeRefPointer(f.type), val, validation)
                [] acc.err = "" /\ ~ nested /\ ((f.omitEmpty /\ isValueEmpty(f.type, val))
                                                \/ (f.opt /\ val = Nil)) -> acc
                [] OTHER ->
                     CASE e.err # "" -> [acc EXCEPT !.err = e.err]
                       [] e.err = "" /\ f.inlined /\ f.ts.key = Nil ->
                            [acc EXCEPT !.j.obj = e.j.obj @@ @]
                       [] OTHER -> [acc EXCEPT !.j.obj = (FieldKey(f) :> e.j) @@ @]
    IN  IF parsed.err # "" THEN NoJSON(parsed.err) ELSE FoldLeft(write, acc0, parsed.fields)

mapEncodeStruct(ty, v, ts, validation) ==
    IF ty.k = "time" THEN Str("dec", TimeToUint64(v))
    ELSE mapEncodeStructFields([err |-> "", j |-> [obj |-> TypeKey(ts)]], ty, v, validation)

mapEncodeInterface(ty, v, validation) ==
    CASE v = Nil -> NoJSON("NoUnderlyingValue")
      [] v # Nil /\ ty.id \notin DOMAIN interfaces -> NoJSON("InterfaceNotRegistered")
      [] v # Nil /\ ty.id \in DOMAIN interfaces ->
           IF v.type \notin DOMAIN interfaces[ty.id].fromTypeToCode THEN NoJSON("TypeNotRegistered")
           ELSE mapEncode(Schema[v.type], v.v, GetByType(Schema[v.type]), validation)

mapEncodeBasedOnType(ty, v, ts, validation) ==
    LET bounds == IF validation THEN checkMinMaxBoundsLength(ts, Len(v)) ELSE ""
    IN  CASE ty.k = "bigint" -> Str("hexbig", v)
          [] ty.k = "ptr" ->
               CASE v = Nil -> NoJSON("NilPointer")
                 [] v # Nil /\ ty.elem.k \in {"struct", "time"} -> mapEncodeStruct(ty.elem, v, ts, validation)
                 [] v # Nil /\ ty.elem.k \in {"array", "bytearray"} ->
                      mapEncodeSlice(ty.elem, v, GetByType(ty), validation)
                 [] OTHER -> NoJSON("UnsupportedType")
          [] ty.k \in {"struct", "time"} -> mapEncodeStruct(ty, v, ts, validation)
          [] ty.k \in {"slice", "bytes", "array", "bytearray"} -> mapEncodeSlice(ty, v, ts, validation)
          [] ty.k = "map" -> mapEncodeMap(ty, v, ts, validation)
          [] ty.k = "iface" -> mapEncodeInterface(ty, v, validation)
          [] ty.k = "string" ->
               IF bounds # "" THEN NoJSON(bounds)
               ELSE IF validation /\ ~ ValidString(v) THEN NoJSON("NonUTF8String")
               ELSE Str("text", ToValidUTF8(v))
          [] ty.k = "bool" -> [err |-> "", j |-> [bool |-> v]]
          [] ty.k = "num" -> IF ty.w = ByteSize.uint64 THEN Str("dec", v)
                             ELSE [err |-> "", j |-> [num |-> v]]

(* A type that encodes itself writes its type and its byte. *)
mapEncode(ty, v, ts, validation) ==
    LET refused == IF validation THEN callSyntacticValidator(ty, v) ELSE ""
        own == IF ty.k = "iface" THEN Schema[v.type] ELSE ty
    IN  CASE refused # "" -> NoJSON(refused)
          [] refused = "" /\ IsSerializable(ty, v) ->
               [err |-> "", j |-> [obj |-> TypeKey(GetByType(own)) @@
                  (Key("body") :> [num |-> IF ty.k = "iface" THEN v.v ELSE v])]]
          [] OTHER -> mapEncodeBasedOnType(ty, v, merge(ts, GetByType(ty)), validation)

(***************************************************************************)
(* json.Unmarshal, followed by MapDecode.  The result is [err, val].       *)
(***************************************************************************)
Value(v) == [err |-> "", val |-> v]

NoValue(e) == [err |-> e, val |-> Nil]

IsObj(j) == DOMAIN j = {"obj"}

DecodeHex(j) == j.str[2]

(* a shorter string of bytes leaves the end of the array as it was: zero *)
FillArray(ty, b) == [i \in 1 .. ty.n |-> IF i <= Len(b) THEN b[i] ELSE 0]

RECURSIVE mapDecode(_, _, _, _)

mapDecodeSlice(ty, j, ts, validation) ==
    LET n == IF ty.k = "bytes" THEN Len(DecodeHex(j)) ELSE Len(j.list)
        bounds == IF validation THEN checkMinMaxBoundsLength(ts, n) ELSE ""
        elems == [i \in DOMAIN j.list |-> mapDecode(ty.elem, j.list[i], NoSettings, validation)]
        errors == SelectSeq(elems, LAMBDA e : e.err # "")
        vals == [i \in DOMAIN elems |-> elems[i].val]
        must == IF validation THEN checkArrayMustOccur(ty.elem, vals, ts) ELSE ""
    IN  CASE ty.k = "bytes" -> IF bounds # "" THEN NoValue(bounds) ELSE Value(DecodeHex(j))
          [] ty.k # "bytes" /\ errors # <<>> -> errors[1]
          [] ty.k # "bytes" /\ errors = <<>> ->
               CASE ty.k = "array" /\ n > 0 -> NoValue("Panic")
                 [] ~ (ty.k = "array" /\ n > 0) /\ bounds # "" -> NoValue(bounds)
                 [] ~ (ty.k = "array" /\ n > 0) /\ bounds = "" /\ must # "" -> NoValue(must)
                 [] OTHER -> Value(vals)

mapDecodeMap(ty, j, ts, validation) ==
    LET names == SetToSeq(DOMAIN j.obj)
        key == [i \in DOMAIN names |->
                  mapDecode(ty.key, [str |-> names[i]], GetByValue(ty.key, Nil), validation)]
        elem == [i \in DOMAIN names |->
                  mapDecode(ty.elem, j.obj[names[i]], GetByValue(ty.elem, Nil), validation)]
        keys == {key[i].val : i \in DOMAIN names}
        bad == {i \in DOMAIN names : key[i].err # "" \/ elem[i].err # ""}
        bounds == IF validation THEN checkMinMaxBoundsLength(ts, Cardinality(keys)) ELSE ""
    IN  CASE ~ IsObj(j) -> NoValue("NotAMap")
          [] IsObj(j) /\ names # <<>> /\ (NoValueToAsk(ty.key) \/ NoValueToAsk(ty.elem)) -> NoValue("Panic")
          [] OTHER ->
               CASE bad # {} -> NoValue("Entry")
                 [] bad = {} /\ Cardinality(keys) # Len(names) -> NoValue("MapViolatesUniqueness")
                 [] bad = {} /\ Cardinality(keys) = Len(names) /\ bounds # "" -> NoValue(bounds)
                 [] OTHER -> Value([k \in keys |->
                               elem[CHOOSE i \in DOMAIN names : key[i].val = k].val])

RECURSIVE mapDecodeStructFields(_, _, _, _)
mapDecodeStructFields(acc0, ty, m, validation) ==
    LET parsed == parseStructFields(ty)
        set(acc, f, r) == IF r.err # "" THEN [acc EXCEPT !.err = r.err]
                          ELSE [acc EXCEPT !.val[f.name] = r.val]
        read(acc, f) ==
          LET inner == DeRefPointer(f.type)
              nested == f.embedded /\ ~ f.inlined
          IN  CASE acc.err # "" -> acc
                [] acc.err = "" /\ nested ->
                     IF f.type.k = "ptr" /\ ~ f.exported THEN [acc EXCEPT !.err = "UnexportedNilPointer"]
                     ELSE set(acc, f, mapDecodeStructFields(Value(ZeroOf(inner)), inner, m, validation))
                [] acc.err = "" /\ ~ nested /\ f.inlined -> set(acc, f, mapDecode(f.type, m, f.ts, validation))
                [] acc.err = "" /\ ~ nested /\ ~ f.inlined ->
                     CASE FieldKey(f) \in DOMAIN m.obj ->
                            set(acc, f, mapDecode(f.type, m.obj[FieldKey(f)], f.ts, validation))
                       [] FieldKey(f) \notin DOMAIN m.obj /\ (f.opt \/ f.omitEmpty) -> acc
                       [] OTHER -> [acc EXCEPT !.err = "MissingEntry"]
    IN  IF parsed.err # "" THEN NoValue(parsed.err) ELSE FoldLeft(read, acc0, parsed.fields)

(* A struct without its type key: the error that is wrapped is nil, and
   Wrap makes an error of its message. *)
mapDecodeStruct(ty, j, ts, validation) ==
    CASE ty.k = "time" -> Value(Signed(j.str[2], ByteSize.uint64))
      [] ty.k = "struct" /\ ~ IsObj(j) -> NoValue("NotAMap")
      [] ty.k = "struct" /\ IsObj(j) /\ ts.obj # Nil /\
           (Key("type") \notin DOMAIN j.obj \/ j.obj[Key("type")] # [num |-> ts.obj.code]) -> NoValue("TypeKey")
      [] OTHER -> mapDecodeStructFields(Value(ZeroOf(ty)), ty, j, validation)

mapDecodeInterface(ty, j, ts, validation) ==
    CASE ty.id \notin DOMAIN interfaces -> NoValue("InterfaceNotRegistered")
      [] ty.id \in DOMAIN interfaces /\ (~ IsObj(j) \/ Key("type") \notin DOMAIN j.obj) -> NoValue("NoType")
      [] OTHER ->
           LET types == interfaces[ty.id].fromCodeToType
               code == j.obj[Key("type")].num
               r == mapDecode(Schema[types[code]], j, ts, validation)
           IN  IF code \notin DOMAIN types THEN NoValue("TypeNotRegistered")
               ELSE IF r.err # "" THEN r ELSE Value([type |-> types[code], v |-> r.val])

(* A pointer to an array of bytes reads an object; its settings must be
   registered. *)
mapDecodeBytesPointer(ty, j, ts, validation) ==
    LET inner == GetByType(ty)
        b == DecodeHex(j.obj[IF inner.key = Nil THEN Key("data") ELSE inner.key])
        bounds == IF validation THEN checkMinMaxBoundsLength(ts, Len(b)) ELSE ""
    IN  CASE ~ HasSettings(ty) -> NoValue("MissingTypeSettings")
          [] HasSettings(ty) /\ ~ IsObj(j) -> NoValue("Panic")
          [] HasSettings(ty) /\ IsObj(j) ->
               IF bounds # "" THEN NoValue(bounds) ELSE Value(FillArray(ty.elem, b))

mapDecodeBasedOnType(ty, j, given, validation) ==
    LET ts == merge(given, GetByType(ty))
        bounds == IF validation THEN checkMinMaxBoundsLength(ts, Len(j.str[2])) ELSE ""
    IN  CASE ty.k = "ptr" ->
               CASE ty.elem.k \in {"struct", "time"} -> mapDecodeStruct(ty.elem, j, ts, validation)
                 [] ty.elem.k = "iface" -> mapDecodeInterface(ty.elem, j, ts, validation)
                 [] ty.elem.k = "bytearray" -> mapDecodeBytesPointer(ty, j, ts, validation)
                 [] ty.elem.k = "array" -> mapDecodeSlice(ty.elem, j, ts, validation)
                 [] OTHER -> NoValue("UnsupportedType")
          [] ty.k \in {"struct", "time"} -> mapDecodeStruct(ty, j, ts, validation)
          [] ty.k = "iface" -> mapDecodeInterface(ty, j, ts, validation)
          [] ty.k = "map" -> mapDecodeMap(ty, j, ts, validation)
          [] ty.k \in {"bytes", "bytearray"} /\ IsObj(j) -> NoValue("Panic")
          [] ty.k = "bytearray" /\ ~ IsObj(j) -> Value(FillArray(ty, DecodeHex(j)))
          [] (ty.k = "bytes" /\ ~ IsObj(j)) \/ ty.k \in {"slice", "array"} -> mapDecodeSlice(ty, j, ts, validation)
          [] ty.k = "string" -> IF bounds # "" THEN NoValue(bounds)
                                ELSE IF validation /\ ~ ValidString(j.str[2]) THEN NoValue("NonUTF8String")
                                ELSE Value(j.str[2])
          [] ty.k = "bigint" -> Value(j.str[2])
          [] ty.k = "bool" -> Value(j.bool)
          [] ty.k = "num" -> Value(IF ty.w = ByteSize.uint64 THEN j.str[2] ELSE j.num)

mapValidated(ty, r, validation) ==
    LET refused == IF r.err = "" /\ validation THEN callSyntacticValidator(ty, r.val) ELSE ""
    IN  IF refused # "" THEN NoValue(refused) ELSE r

mapDecode(ty, j, ts, validation) ==
    mapValidated(ty, IF DeRefPointer(ty).k = "custom" THEN Value(j.obj[Key("body")].num)
                     ELSE mapDecodeBasedOnType(ty, j, ts, validation), validation)

(***************************************************************************)
(* The API: a program registers its types when it starts, then encodes and *)
(* decodes.                                                                *)
(***************************************************************************)
TypeOK ==
    /\ DOMAIN typeSettings \subseteq DOMAIN Schema
    /\ \A i \in DOMAIN interfaces : DOMAIN interfaces[i].fromTypeToCode \subseteq DOMAIN Schema
    /\ DOMAIN validators \subseteq DOMAIN Schema
    /\ pending \subseteq Registrations

Init == /\ typeSettings = <<>>
        /\ interfaces = <<>>
        /\ validators = <<>>
        /\ pending = Registrations
        /\ doc = Nil

RegisterTypeSettings(r) ==
    /\ r.k = "settings"
    /\ typeSettings' = typeSettings @@ (r.type :> r.ts)
    /\ UNCHANGED <<interfaces, validators>>

(* A type that has a validator keeps it. *)
RegisterValidator(r) ==
    /\ r.k = "validator"
    /\ validators' = validators @@ (r.type :> r.refused)
    /\ UNCHANGED <<typeSettings, interfaces>>

AddObject(objs, code, name) ==
    [objs EXCEPT !.fromCodeToType = (code :> name) @@ @, !.fromTypeToCode = (name :> code) @@ @]

GetObjectMetadata(name) == GetByType(Schema[name]).obj

(* The objects in turn, up to the first one that has no code or the code of
   another denotation.  What was added before stays in the interface when it
   was registered already; a new interface is not registered. *)
RegisterInterfaceObjects(r) ==
    LET exists == r.iface \in DOMAIN interfaces
        first == GetObjectMetadata(r.objs[1])
        objs == IF exists THEN interfaces[r.iface]
                ELSE [den |-> first.den, fromCodeToType |-> <<>>, fromTypeToCode |-> <<>>]
        refused(i) == LET meta == GetObjectMetadata(r.objs[i])
                      IN  meta = Nil \/ meta.den # objs.den
        good == SelectSeq([i \in DOMAIN r.objs |-> i], LAMBDA i : \A j \in 1 .. i : ~ refused(j))
        added == FoldLeft(LAMBDA acc, i : AddObject(acc, GetObjectMetadata(r.objs[i]).code, r.objs[i]),
                          objs, good)
    IN  /\ r.k = "interface"
        /\ IF exists \/ (r.objs # <<>> /\ first # Nil /\ Len(good) = Len(r.objs))
             THEN interfaces' = (r.iface :> added) @@ interfaces
             ELSE UNCHANGED interfaces
        /\ UNCHANGED <<typeSettings, validators>>

Register ==
    /\ doc = Nil
    /\ \E r \in pending : /\ pending' = pending \ {r}
                          /\ \/ RegisterTypeSettings(r)
                             \/ RegisterValidator(r)
                             \/ RegisterInterfaceObjects(r)
    /\ UNCHANGED doc

Encode(s, validation) ==
    /\ doc = Nil
    /\ doc' = [format |-> "binary", sample |-> s, validation |-> validation,
               out |-> encode(s.type, s.v, s.ts, validation), back |-> Nil]
    /\ UNCHANGED <<typeSettings, interfaces, validators, pending>>

(* only a JSON object is given out *)
MapEncode(s, validation) ==
    LET r == mapEncode(s.type, s.v, s.ts, validation)
    IN  /\ doc = Nil
        /\ doc' = [format |-> "json", sample |-> s, validation |-> validation,
                   out |-> IF r.err = "" /\ ~ IsObj(r.j) THEN NoJSON("NotAMap") ELSE r, back |-> Nil]
        /\ UNCHANGED <<typeSettings, interfaces, validators, pending>>

(* The destination is a pointer to the value. *)
Destination(ty) ==
    LET pointers == {n \in DOMAIN Schema : Schema[n].k = "ptr" /\ Schema[n].elem = ty}
    IN  CASE ty.k = "ptr" -> ty
          [] ty.k # "ptr" /\ pointers # {} -> Schema[CHOOSE n \in pointers : TRUE]
          [] OTHER -> [k |-> "ptr", id |-> Nil, elem |-> ty]

Decode ==
    /\ doc # Nil
    /\ doc.format = "binary" /\ doc.out.err = "" /\ doc.back = Nil
    /\ doc' = [doc EXCEPT !.back =
                 decode(Destination(doc.sample.type), doc.out.buf, doc.sample.ts, doc.validation)]
    /\ UNCHANGED <<typeSettings, interfaces, validators, pending>>

MapDecode ==
    /\ doc # Nil
    /\ doc.format = "json" /\ doc.out.err = "" /\ doc.back = Nil
    /\ doc' = [doc EXCEPT !.back =
                 mapDecode(Destination(doc.sample.type), doc.out.j, doc.sample.ts, doc.validation)]
    /\ UNCHANGED <<typeSettings, interfaces, validators, pending>>

Next == \/ Register
        \/ \E s \in Samples, validation \in BOOLEAN : Encode(s, validation) \/ MapEncode(s, validation)
        \/ Decode
        \/ MapDecode

Spec == Init /\ [][Next]_vars

(***************************************************************************)
(* What the codec promises.                                                *)
(***************************************************************************)
Again(v) == IF doc.format = "binary"
              THEN encode(doc.sample.type, v, doc.sample.ts, doc.validation)
              ELSE mapEncode(doc.sample.type, v, doc.sample.ts, doc.validation)

Permuted(s, t) == /\ Len(s) = Len(t)
                  /\ \A x \in Range(s) : Cardinality({i \in DOMAIN s : s[i] = x})
                                         = Cardinality({i \in DOMAIN t : t[i] = x})

(* What the code cannot read back: an array of objects, entries of a map it
   has no settings for, an embedded pointer that is nil or unexported, an
   object whose type is not the one registered for its code; in JSON also bytes with an
   object code that are not behind a pointer, a pointer to bytes without
   settings, a pointer to what is not a struct, an inlined field with a key
   and two fields with one key. *)
RECURSIVE Readable(_, _, _)
Readable(ty, v, json) ==
    CASE ty.k = "array" -> v = <<>>
      [] ty.k = "slice" -> \A i \in DOMAIN v : Readable(ty.elem, v[i], json)
      [] ty.k = "map" -> /\ DOMAIN v = {} \/ ~ (NoValueToAsk(ty.key) \/ NoValueToAsk(ty.elem))
                         /\ \A k \in DOMAIN v : Readable(ty.key, k, json) /\ Readable(ty.elem, v[k], json)
      [] ty.k = "ptr" -> /\ v = Nil \/ Readable(ty.elem, v, FALSE)
                         /\ json => \/ ty.elem.k = "struct" /\ (v = Nil \/ Readable(ty.elem, v, TRUE))
                                    \/ ty.elem.k \in {"time", "custom"}
                                    \/ ty.elem.k = "bytearray" /\ GetByType(ty).obj # Nil
      [] ty.k = "iface" ->
           v = Nil \/ LET meta == GetByType(Schema[v.type]).obj
                     IN  /\ Readable(Schema[v.type], v.v, json)
                         /\ ty.id \in DOMAIN interfaces /\ meta # Nil
                         /\ <<meta.code, v.type>> \in {<<c, interfaces[ty.id].fromCodeToType[c]>> :
                                                         c \in DOMAIN interfaces[ty.id].fromCodeToType}
      [] ty.k \in {"bytes", "bytearray"} -> json => GetByType(ty).obj = Nil
      [] ty.k = "string" -> json => ValidString(v)
      [] ty.k = "struct" ->
           LET fields == parseStructFields(ty).fields
           IN  /\ \A i \in DOMAIN fields :
                    LET f == fields[i]
                    IN  /\ Readable(f.type, v[f.name], json)
                        /\ f.embedded /\ f.type.k = "ptr" => v[f.name] # Nil /\ (f.inlined \/ f.exported)
                        /\ json => ~ (f.inlined /\ f.ts.key # Nil)
               /\ json => /\ \A i, j \in DOMAIN fields : i # j => FieldKey(fields[i]) # FieldKey(fields[j])
                          /\ \A i \in DOMAIN fields : FieldKey(fields[i]) # Key("type")
      [] OTHER -> TRUE

(* What was encoded decodes, to the same value (the elements of a slice that
   is sorted by its bytes may be reordered) and to its last byte, and the
   decoded value encodes to the same bytes or JSON again. *)
RoundTrip ==
    doc # Nil /\ doc.back # Nil /\ Readable(Destination(doc.sample.type), doc.sample.v, doc.format = "json") =>
      LET back == doc.back
          v == doc.sample.v
      IN  /\ back.err = ""
          /\ \/ back.val = v
             \/ doc.format = "binary" /\ doc.sample.type.k = "slice" /\ Permuted(back.val, v)
          /\ doc.format = "binary" => back.n = Len(doc.out.buf)
          /\ Again(back.val) = doc.out

(* Validation only refuses: what encodes under validation encodes to the same
   without it, and what it lets through decodes to the same value. *)
ValidationOnlyNarrows ==
    doc # Nil /\ doc.validation /\ doc.out.err = "" =>
      LET ty == doc.sample.type
          ts == doc.sample.ts
      IN  IF doc.format = "binary"
            THEN /\ encode(ty, doc.sample.v, ts, FALSE) = doc.out
                 /\ doc.back # Nil /\ doc.back.err = "" =>
                      decode(Destination(ty), doc.out.buf, ts, FALSE) = doc.back
            ELSE /\ mapEncode(ty, doc.sample.v, ts, FALSE) = doc.out
                 /\ doc.back # Nil /\ doc.back.err = "" =>
                      mapDecode(Destination(ty), doc.out.j, ts, FALSE) = doc.back

=============================================================================
