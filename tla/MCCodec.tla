------------------------------ MODULE MCCodec ------------------------------
(***************************************************************************)
(* The serializer packages in one run.  A behaviour uses the chains of     *)
(* serializer and stream, or serix: its subject.  Every kind of value,     *)
(* length prefix, rule and tag occurs in the samples, at its bounds and    *)
(* beyond them.  The registrations of serix are made in every order, and   *)
(* values are encoded between any two of them.                             *)
(***************************************************************************)
EXTENDS Serix

CONSTANTS MaxItems
VARIABLES subject, phase, mode, script, ser, des, got

(* ------------------------------------------------------------ the chains *)
AnyTwo == [min |-> 0, max |-> 0, mustOccur |-> {}, allowed |-> {1, 2}, mode |-> {}]
ChainRules == {[AnyTwo EXCEPT !.mode = m] :
            m \in {{}, {"NoDuplicates"}, {"LexicalOrdering"}, {"NoDuplicates", "LexicalOrdering"},
                   {"AtMostOneOfEachTypeByte"}, {"AtMostOneOfEachTypeUint32"}}}
         \cup {[AnyTwo EXCEPT !.min = 1, !.max = 2, !.mustOccur = {1}]}
O(type, body) == [type |-> type, body |-> body]
Numbers ==
    {[k |-> "bool", v |-> TRUE], [k |-> "byte", v |-> 3],
     [k |-> "num", v |-> -1, w |-> 1, signed |-> TRUE], [k |-> "num", v |-> 9, w |-> 2, signed |-> FALSE]}
    \cup {[k |-> "uint256", v |-> n] : n \in {1000, 1024, -1, Nil}}
    \cup {[k |-> "time", v |-> t] : t \in {-1, 0, 5, 127, 128, 129, 300}}
Controls ==
    {[k |-> "bytes", v |-> <<1, 2>>],
     [k |-> "prefix", v |-> 1, den |-> "byte"], [k |-> "prefix", v |-> 2, den |-> "uint32"],
     [k |-> "abort", v |-> FALSE], [k |-> "abort", v |-> TRUE], [k |-> "validation", v |-> TRUE]}
Slices ==
    {[k |-> kind, v |-> b, len |-> l, min |-> 1, max |-> 3] :
        kind \in {"slice", "string"}, b \in {<<>>, <<1>>, <<1, 2, 3, 0>>}, l \in {"byte", "uint16"}}
    \cup {[k |-> "slice", v |-> <<1, 2, 3, 0>>, len |-> "byte", min |-> 0, max |-> 0]}
    \cup {[k |-> "sequence", v |-> s, len |-> "byte", rules |-> r] : r \in ChainRules,
            s \in {<<>>, <<<<1>>, <<>>>>, <<<<1>>, <<1>>>>, <<<<>>, <<1>>, <<0, 1>>>>}}
Objects ==
    {[k |-> "payload", v |-> x, rules |-> AnyTwo] : x \in {Nil, O(1, 2), O(3, 2)}}
    \cup {[k |-> "object", v |-> x, den |-> "byte", rules |-> AnyTwo] : x \in {O(1, 3), O(3, 3)}}
    \cup {[k |-> "objects", v |-> s, len |-> "uint16", den |-> "byte", rules |-> r] : r \in ChainRules,
            s \in {<<O(2, 1), O(1, 1)>>, <<O(1, 3), O(1, 1)>>, <<O(3, 0)>>}}
ChainItems == Numbers \cup Controls \cup Slices \cup Objects
ChainStream ==
    {[k |-> "number", v |-> 9, w |-> 2], [k |-> "raw", v |-> <<3, 1>>], [k |-> "raw", v |-> <<>>]}
    \cup {[k |-> kind, v |-> b, len |-> l] : kind \in {"sized", "sizedobject"},
            b \in {<<>>, <<1>>, <<1, 2, 3, 0>>}, l \in {"byte", "uint64"}}
    \cup {[k |-> "collection", v |-> s, len |-> l] : l \in {"byte", "uint16"},
            s \in {<<>>, <<<<1>>, <<>>>>, <<<<>>, <<1>>, <<0, 1>>, <<2>>>>}}
ChainForeign == UNION {[1 .. n -> 0 .. 1] : n \in 0 .. 4} \cup {<<2, 1, 1, 1, 0>>, <<2, 1, 0, 1, 1>>}
ChainModes == {{}, {"validate"}, {"validate", "order"}}

CH == INSTANCE SerializerChain WITH Items <- ChainItems, StreamItems <- ChainStream,
                                    ForeignSources <- ChainForeign, Modes <- ChainModes
chainVars == <<phase, mode, script, ser, des, got>>

(* ------------------------------------------------------ the types of serix *)
T(k) == [k |-> k, id |-> "-"]
U(w) == [k |-> "num", id |-> "-", w |-> w, signed |-> FALSE]
Named(ty, name) == [ty EXCEPT !.id = name]
Ptr(ty) == [k |-> "ptr", id |-> "-", elem |-> ty]
SliceOf(ty) == [k |-> "slice", id |-> "-", elem |-> ty]
ArrayOf(ty) == [k |-> "array", id |-> "-", elem |-> ty, n |-> 1]
MapOf(key, ty) == [k |-> "map", id |-> "-", key |-> key, elem |-> ty]
Title(w) == <<[w |-> w, case |-> "title"]>>
Caps(w) == <<[w |-> w, case |-> "upper"]>>
P(name, val) == [name |-> name, val |-> val]
Flag(f) == P(f, Nil)
LP == P("lenPrefix", "byte")
F(name, words, ty, parts) ==
    [name |-> name, words |-> words, type |-> ty, exported |-> TRUE, embedded |-> FALSE,
     tag |-> [key |-> Nil, parts |-> parts]]
Struct(name, fields) == [k |-> "struct", id |-> name, fields |-> fields]

Simple == Struct("Simple", <<F("On", Title("on"), T("bool"), <<>>), F("ID", Caps("id"), U(4), <<>>),
                             [F("skip", Title("skip"), T("bool"), <<>>) EXCEPT !.tag = Nil]>>)
Other == Struct("Other", <<F("Text", Title("text"), T("string"), <<LP, P("minLen", 1), P("maxLen", 2)>>)>>)
Clash == Struct("Clash", <<F("On", Title("on"), T("bool"), <<>>)>>)
Wide == Struct("Wide", <<F("On", Title("on"), T("bool"), <<>>)>>)
Own == Named(T("custom"), "Own")
Hash == [k |-> "bytearray", id |-> "Hash", n |-> 2]
PHash == Named(Ptr(Hash), "PHash")
Shape == [k |-> "iface", id |-> "Shape"]
Shapes == Named(SliceOf(Shape), "Shapes")
MCSchema == [Simple |-> Simple, Other |-> Other, Clash |-> Clash, Wide |-> Wide, Own |-> Own,
             Hash |-> Hash, PHash |-> PHash, Shapes |-> Shapes]

Code(c, den) == [NoSettings EXCEPT !.obj = [code |-> c, den |-> den]]
Settings(ty, ts) == [k |-> "settings", type |-> ty, ts |-> ts]
Interface(objs) == [k |-> "interface", iface |-> "Shape", objs |-> objs]
MCRegistrations ==
    {Settings("Simple", Code(1, "byte")), Settings("Clash", Code(1, "byte")),
     Settings("Own", Code(3, "byte")), Settings("Wide", Code(2, "uint32")), Settings("PHash", Code(0, "byte")),
     Settings("Shapes", [NoSettings EXCEPT !.lpt = "byte",
                                           !.rules = [NoRules EXCEPT !.mustOccur = {1}, !.max = 2]]),
     Interface(<<"Simple", "Own">>), Interface(<<"Clash", "PHash", "Wide">>),
     [k |-> "validator", type |-> "Simple", refused |-> {[On |-> FALSE, ID |-> 0, skip |-> FALSE]}]}

(* ----------------------------------------------------- the values of serix *)
VS(b, n) == [On |-> b, ID |-> n, skip |-> FALSE]
Holds(name, v) == [type |-> name, v |-> v]
Big == Struct("-", <<F("Opt", Title("opt"), Ptr(Simple), <<Flag("optional")>>),
                     F("When", Title("when"), T("time"), <<>>),
                     F("Amount", Title("amount"), T("bigint"), <<>>),
                     F("List", Title("list"), SliceOf(U(2)), <<LP, Flag("omitempty")>>)>>)
Outer == Struct("-", <<[F("Simple", Title("simple"), Ptr(Simple), <<>>) EXCEPT !.embedded = TRUE],
                       F("Rest", Title("rest"), T("bytes"), <<LP>>)>>)
Inl == Struct("-", <<[F("Shape", Title("shape"), Shape, <<Flag("inlined")>>) EXCEPT !.embedded = TRUE],
                     F("API", Caps("api"), U(1), <<>>)>>)
InlKey == Struct("-", <<[F("Simple", Title("simple"), Simple, <<Flag("inlined")>>) EXCEPT !.tag.key = Key("s")]>>)
Twins == Struct("-", <<F("URL", Caps("url"), U(1), <<>>), F("Url", Title("url"), U(1), <<>>)>>)
Twice == Struct("-", <<F("Bad", Title("bad"), U(1), <<Flag("omitempty"), Flag("omitempty")>>)>>)
S(ty, v) == [type |-> ty, v |-> v, ts |-> NoSettings]
H(ty, parts, v) == S(Struct("-", <<F("X", Title("x"), ty, parts)>>), [X |-> v])
Lex(m) == [NoSettings EXCEPT !.lpt = "byte", !.lex = TRUE, !.rules = [NoRules EXCEPT !.mode = m]]
Structs ==
    {S(Simple, VS(b, n)) : b \in BOOLEAN, n \in {0, 5}}
    \cup {S(Ptr(Simple), VS(TRUE, 7)), S(Ptr(Simple), Nil), S(InlKey, [Simple |-> VS(TRUE, 3)]),
          S(Twins, [URL |-> 1, Url |-> 2]), S(Twice, [Bad |-> 1]),
          S(Inl, [Shape |-> Holds("Simple", VS(TRUE, 3)), API |-> 2])}
    \cup {S(Other, [Text |-> t]) : t \in {<<>>, <<1>>, <<3>>, <<1, 2, 1>>}}
    \cup {S(Big, [Opt |-> o, When |-> 5, Amount |-> 300, List |-> l]) :
            o \in {Nil, VS(FALSE, 0), VS(TRUE, 9)}, l \in {<<>>, <<1, 9>>}}
    \cup {S(Outer, [Simple |-> x, Rest |-> <<1, 3>>]) : x \in {Nil, VS(TRUE, 3)}}
Interfaces ==
    {H(Shape, <<>>, x) : x \in {Nil, Holds("Simple", VS(TRUE, 1)), Holds("Own", 2), Holds("Clash", [On |-> TRUE]),
                                Holds("PHash", <<1, 2>>), Holds("Wide", [On |-> FALSE])}}
    \cup {H(Shapes, <<>>, x) : x \in {<<>>, <<Holds("Own", 2), Holds("Simple", VS(TRUE, 1))>>, <<Holds("Own", 2)>>,
                                      [i \in 1 .. 3 |-> Holds("Simple", VS(TRUE, i))]}}
Collections ==
    {[type |-> SliceOf(U(2)), v |-> x, ts |-> Lex(m)] : x \in {<<>>, <<5, 1>>, <<1, 1>>, <<2, 2, 0>>},
        m \in {{}, {"NoDuplicates"}, {"LexicalOrdering", "NoDuplicates"}}}
    \cup {H(MapOf(T("string"), U(2)), <<LP, P("maxLen", 1)>>, <<>>),
          H(MapOf(Other.fields[1].type, U(2)), <<LP>>, (<<1>> :> 2)), H(MapOf(U(2), U(2)), <<LP>>, 1 :> 1)}
    \cup {[type |-> MapOf(U(2), U(1)), v |-> x, ts |-> Lex({})] :
            x \in {<<>>, (1 :> 2), (4 :> 2 @@ 1 :> 2 @@ 0 :> 1)}}
    \cup {[type |-> MapOf(U(2), Ptr(Simple)), v |-> (1 :> VS(TRUE, 1)), ts |-> Lex({})],
          H(ArrayOf(U(2)), <<LP>>, <<3>>), H(Hash, <<>>, <<1, 2>>), H(Ptr(Hash), <<>>, <<1, 2>>),
          H(PHash, <<>>, <<1, 2>>), H(T("bytes"), <<>>, <<1>>), H(T("string"), <<LP>>, <<3, 1>>),
          H(Ptr(U(1)), <<>>, 1)}
MCSamples == Structs \cup Interfaces \cup Collections

(* --------------------------------------------------------------- the run *)
CodecInit == /\ subject \in {"chain", "serix"} /\ Init /\ CH!Init
             /\ subject = "serix" => phase = "write" /\ mode = {}
CodecNext == /\ \/ subject = "chain" /\ CH!Next /\ UNCHANGED vars
                \/ subject = "serix" /\ Next /\ UNCHANGED chainVars
             /\ UNCHANGED subject
CodecSpec == CodecInit /\ [][CodecNext]_<<subject, vars, chainVars>>

\* What a chain, or serix, has written without an error is read back to the same values, to the
\* last byte, and encodes to the same again.
ReadsBack == /\ subject = "chain" => CH!ChainRoundTrip
             /\ subject = "serix" => RoundTrip
\* With validation there is one encoding: bytes that a validating reader accepts are the ones
\* that are written for the values it got.
Canonical == subject = "chain" => CH!Canonical
=============================================================================
