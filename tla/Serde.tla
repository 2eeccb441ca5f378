------------------------------- MODULE Serde --------------------------------
(***************************************************************************)
(* The wire format of RPC packets (h2o_rpc core/src/packet.rs): typed      *)
(* values become bytes and handles, one after the other and without        *)
(* separators, and the receiver, who knows the type, takes them apart.     *)
(*                                                                         *)
(* A byte is a number below Base, a usize is two of them.  A type is a     *)
(* record; Option and Result values are sequences that start with a tag,   *)
(* Box<T> is T.                                                            *)
(***************************************************************************)
EXTENDS Integers, Sequences, FiniteSets, SequencesExt

CONSTANTS
    Base,       \* values of a byte
    MAGIC,      \* the number every packet starts with
    ObjId,      \* Object::ID of the kernel object type
    Hdl,        \* handles; 0, the null handle, is not one of them
    MaxVec      \* bound: elements of a vector

Octet == 0 .. Base - 1
Usize == 0 .. Base * Base - 1
IsUtf8(b) == \A i \in DOMAIN b : b[i] # Base - 1
IsCStr(b) == b # <<>> /\ Last(b) = 0 /\ \A i \in 1 .. Len(b) - 1 : b[i] # 0

VARIABLES
    ty,         \* the type of the data
    val,        \* the data
    method,     \* the method's number
    packet,     \* [buf, hdl]: the packet on its way
    gotten,        \* what `deserialize' returned, or Nothing
    change      \* how many bytes and handles the packet has gained or lost

sevars == <<ty, val, method, packet, gotten, change>>

Nothing == [res |-> "nothing"]
Ty(is) == [is |-> is]

-----------------------------------------------------------------------------
OnlyBytes(b) == [buf |-> b, hdl |-> <<>>]
OnlyHandles(h) == [buf |-> <<>>, hdl |-> h]
Cat(p, q) == [buf |-> p.buf \o q.buf, hdl |-> p.hdl \o q.hdl]
WordOf(n) == OnlyBytes(<<n % Base, n \div Base>>)
ObjectParts(h) == Cat(WordOf(ObjId), OnlyHandles(<<h>>))
OrDefault(o, d) == IF o = <<>> THEN d ELSE o[1]

(* SerdePacket::serialize.                                                 *)
RECURSIVE Ser(_, _), SerAll(_, _)
SerAll(t, vs) == IF vs = <<>> THEN OnlyBytes(<<>>) ELSE Cat(Ser(t, Head(vs)), SerAll(t, Tail(vs)))
Ser(t, v) ==
    CASE t.is = "unit"   -> OnlyBytes(<<>>)
      [] t.is \in {"bool", "u8"} -> OnlyBytes(<<v>>)
      [] t.is \in {"usize", "ptr"} -> WordOf(v)
      [] t.is = "array"  -> SerAll(t.of, v)
      [] t.is = "tuple"  -> Cat(Ser(t.fst, v[1]), Ser(t.snd, v[2]))
      [] t.is = "result" -> Cat(OnlyBytes(<<v[1]>>), Ser(IF v[1] = 0 THEN t.fst ELSE t.snd, v[2]))
      [] t.is = "vec"    -> Cat(WordOf(Len(v)), SerAll(t.of, v))
      [] t.is = "optvec" -> Ser([t EXCEPT !.is = "vec"], OrDefault(v, <<>>))
      [] t.is \in {"string", "cstring"} -> Cat(WordOf(Len(v)), OnlyBytes(v))
      [] t.is = "optstring" -> Ser(Ty("string"), OrDefault(v, <<>>))
      [] t.is = "optcstring" -> Ser(Ty("cstring"), OrDefault(v, <<0>>))
      [] t.is = "map"    -> Cat(WordOf(Len(v)), SerAll([is |-> "tuple", fst |-> t.fst, snd |-> t.snd], v))
      [] t.is = "handle" -> OnlyHandles(<<v>>)
      [] t.is \in {"opthandle", "optobject"} -> OnlyHandles(<<OrDefault(v, 0)>>)
      [] t.is = "object" -> ObjectParts(v)

-----------------------------------------------------------------------------
(* The Deserializer; the first error ends it.                              *)
Ok(v, d) == [res |-> "ok", val |-> v, de |-> d]
Err(e) == [res |-> e]
Then(r, Op(_, _)) == IF r.res = "ok" THEN Op(r.val, r.de) ELSE r

(* A bug: the last byte of the buffer is never enough.                     *)
NextBuffer_Less(d, n) ==
    IF Len(d.buf) > n THEN Ok(SubSeq(d.buf, 1, n), [d EXCEPT !.buf = SubSeq(@, n + 1, Len(@))])
    ELSE Err("too_short")
NextBuffer(d, n) ==
    IF Len(d.buf) >= n THEN Ok(SubSeq(d.buf, 1, n), [d EXCEPT !.buf = SubSeq(@, n + 1, Len(@))])
    ELSE Err("too_short")
NextHandle(d) ==
    IF d.hdl # <<>> THEN Ok(Head(d.hdl), [d EXCEPT !.hdl = Tail(@)]) ELSE Err("too_short")
NextWord(d) == Then(NextBuffer(d, 2), LAMBDA b, e : Ok(b[1] + Base * b[2], e))

Unless(bad, r) == IF bad THEN Err("type_mismatch") ELSE r

(* BTreeMap: sorted by key, a key that comes again replaces.               *)
Put(m, kv) ==
    SelectSeq(m, LAMBDA e : e[1] < kv[1]) \o <<kv>> \o SelectSeq(m, LAMBDA e : e[1] > kv[1])

(* SerdePacket::deserialize.                                               *)
RECURSIVE De(_, _), DeAll(_, _, _, _)
DeAll(t, n, acc, d) ==
    IF n = 0 THEN Ok(acc, d) ELSE Then(De(t, d), LAMBDA v, e : DeAll(t, n - 1, Append(acc, v), e))
De(t, d) ==
    CASE t.is = "unit"   -> Ok(0, d)
      [] t.is = "bool"   -> Then(NextBuffer(d, 1), LAMBDA b, e : Unless(b[1] \notin {0, 1}, Ok(b[1], e)))
      [] t.is = "u8"     -> Then(NextBuffer(d, 1), LAMBDA b, e : Ok(b[1], e))
      [] t.is = "usize"  -> NextWord(d)
      [] t.is = "ptr"    -> Then(NextWord(d), LAMBDA n, e : Unless(n = 0, Ok(n, e)))
      [] t.is = "array"  -> DeAll(t.of, t.n, <<>>, d)
      [] t.is = "tuple"  -> Then(De(t.fst, d), LAMBDA v, e : Then(De(t.snd, e), LAMBDA w, f : Ok(<<v, w>>, f)))
      [] t.is = "result" -> Then(NextBuffer(d, 1), LAMBDA b, e : Unless(b[1] \notin {0, 1},
                                Then(De(IF b[1] = 0 THEN t.fst ELSE t.snd, e), LAMBDA v, f : Ok(<<b[1], v>>, f))))
      [] t.is = "vec"    -> Then(NextWord(d), LAMBDA n, e : DeAll(t.of, n, <<>>, e))
      [] t.is = "optvec" -> Then(De([t EXCEPT !.is = "vec"], d), LAMBDA v, e : Ok(IF v = <<>> THEN <<>> ELSE <<v>>, e))
      [] t.is \in {"string", "cstring"} ->
             Then(Then(NextWord(d), LAMBDA n, e : NextBuffer(e, n)), LAMBDA b, e :
                  Unless(IF t.is = "string" THEN ~IsUtf8(b) ELSE ~IsCStr(b), Ok(b, e)))
      [] t.is = "optstring" -> Then(De(Ty("string"), d), LAMBDA v, e : Ok(IF v = <<>> THEN <<>> ELSE <<v>>, e))
      [] t.is = "optcstring" -> Then(De(Ty("cstring"), d), LAMBDA v, e : Ok(IF v = <<0>> THEN <<>> ELSE <<v>>, e))
      [] t.is = "map"    -> Then(De([is |-> "vec", of |-> [is |-> "tuple", fst |-> t.fst, snd |-> t.snd]], d),
                                LAMBDA v, e : Ok(FoldLeft(Put, <<>>, v), e))
      [] t.is = "handle" -> NextHandle(d)
      [] t.is = "opthandle" -> Then(NextHandle(d), LAMBDA h, e : Ok(IF h = 0 THEN <<>> ELSE <<h>>, e))
      [] t.is = "object" -> Then(NextWord(d), LAMBDA id, e : Unless(id # ObjId, NextHandle(e)))
      [] t.is = "optobject" -> Then(NextWord(d), LAMBDA id, e : Unless(id # ObjId, De(Ty("opthandle"), e)))

-----------------------------------------------------------------------------
(* serialize, deserialize_metadata and deserialize.                        *)
Serialize(m, t, v) == Cat(WordOf(MAGIC), Cat(WordOf(m), Ser(t, v)))
Metadata(p) ==
    Then(NextWord(p), LAMBDA g, d : IF g # MAGIC THEN Err("invalid_magic") ELSE NextWord(d))
Deserialize(m, t, p) ==
    Then(Metadata(p), LAMBDA n, d : IF n # m THEN Err("invalid_method")
        ELSE Then(De(t, d), LAMBDA v, e : [res |-> "ok", val |-> v, extra |-> <<Len(e.buf), Len(e.hdl)>>]))

(* The types and values to try.                                            *)
LeafTypes == {Ty("unit"), Ty("bool"), Ty("u8"), Ty("usize"), Ty("ptr"), Ty("string"), Ty("cstring"), Ty("optstring"),
           Ty("optcstring"), Ty("handle"), Ty("opthandle"), Ty("object"), Ty("optobject")}
Small == {Ty("bool"), Ty("u8"), Ty("opthandle"), Ty("object")}
Nested == {[is |-> k, of |-> t] : k \in {"vec", "optvec"}, t \in Small \cup {Ty("unit")}}
            \cup {[is |-> "array", of |-> t, n |-> 2] : t \in Small}
            \cup {[is |-> k, fst |-> s, snd |-> t] : k \in {"tuple", "result"}, s \in Small \cup {Ty("optstring")}, t \in Small}
            \cup {[is |-> "map", fst |-> Ty("u8"), snd |-> t] : t \in Small}
Types == LeafTypes \cup Nested
            \cup {[is |-> "tuple", fst |-> t, snd |-> Ty("u8")] : t \in Nested}
            \cup {[is |-> "result", fst |-> [is |-> "optvec", of |-> Ty("u8")], snd |-> Ty("usize")]}

Opt(S) == {<<>>} \cup {<<x>> : x \in S}
Texts(Good(_)) == {b \in SeqOf(Octet, 2) : Good(b)}
RECURSIVE Vals(_)
Vals(t) ==
    CASE t.is = "unit" -> {0} [] t.is = "bool" -> {0, 1} [] t.is = "u8" -> Octet [] t.is = "usize" -> Usize
      [] t.is = "ptr" -> Usize \ {0}
      [] t.is = "string" -> Texts(IsUtf8) [] t.is = "optstring" -> Opt(Texts(IsUtf8))
      [] t.is = "cstring" -> Texts(IsCStr) [] t.is = "optcstring" -> Opt(Texts(IsCStr))
      [] t.is \in {"handle", "object"} -> Hdl [] t.is \in {"opthandle", "optobject"} -> Opt(Hdl)
      [] t.is = "vec" -> SeqOf(Vals(t.of), MaxVec) [] t.is = "optvec" -> Opt(SeqOf(Vals(t.of), MaxVec))
      [] t.is = "array" -> {<<v, w>> : v \in Vals(t.of), w \in Vals(t.of)}
      [] t.is = "tuple" -> {<<v, w>> : v \in Vals(t.fst), w \in Vals(t.snd)}
      [] t.is = "result" -> {<<0, v>> : v \in Vals(t.fst)} \cup {<<1, v>> : v \in Vals(t.snd)}
      [] t.is = "map" -> {FoldLeft(Put, <<>>, s) : s \in SeqOf({<<k, v>> : k \in Vals(t.fst), v \in Vals(t.snd)}, 2)}

SeInit ==
    /\ ty \in Types /\ val \in Vals(ty) /\ method \in {1, 2}
    /\ packet = OnlyBytes(<<>>) /\ gotten = Nothing /\ change = <<0, 0>>

(* The sender: output.clear(), then the whole packet.                      *)
SendPacket == /\ packet = OnlyBytes(<<>>) /\ packet' = Serialize(method, ty, val)
              /\ UNCHANGED <<ty, val, method, gotten, change>>

(* What the receiver gets may be longer or shorter than what was sent.     *)
Lengthen(b, h) ==
    /\ packet.buf # <<>> /\ gotten = Nothing /\ change = <<0, 0>>
    /\ packet' = Cat(packet, [buf |-> b, hdl |-> h]) /\ change' = <<Len(b), Len(h)>>
    /\ UNCHANGED <<ty, val, method, gotten>>
Shorten(b, h) ==
    /\ packet.buf # <<>> /\ gotten = Nothing /\ change = <<0, 0>> /\ b + h > 0
    /\ b < Len(packet.buf) /\ h <= Len(packet.hdl)
    /\ packet' = [buf |-> SubSeq(packet.buf, 1, Len(packet.buf) - b), hdl |-> SubSeq(packet.hdl, 1, Len(packet.hdl) - h)]
    /\ change' = <<-b, -h>>
    /\ UNCHANGED <<ty, val, method, gotten>>

ParsePacket(m) ==
    /\ packet.buf # <<>> /\ gotten = Nothing
    /\ gotten' = Deserialize(m, ty, packet) @@ [asked |-> m]
    /\ UNCHANGED <<ty, val, method, packet, change>>

SeNext ==
    \/ SendPacket
    \/ \E b \in {<<>>, <<1>>}, h \in {<<>>, <<0>>} : b \o h # <<>> /\ Lengthen(b, h)
    \/ \E b \in 0 .. 3, h \in 0 .. 1 : Shorten(b, h)
    \/ \E m \in {1, 2} : ParsePacket(m)

SeSpec == SeInit /\ [][SeNext]_sevars

-----------------------------------------------------------------------------
(* An Option of something empty comes back as None.                        *)
RECURSIVE Norm(_, _)
Norm(t, v) ==
    CASE t.is \in {"optvec", "optstring"} -> IF v = <<<<>>>> THEN <<>> ELSE v
      [] t.is = "optcstring" -> IF v = <<<<0>>>> THEN <<>> ELSE v
      [] t.is = "tuple" -> <<Norm(t.fst, v[1]), Norm(t.snd, v[2])>>
      [] t.is = "result" -> <<v[1], Norm(IF v[1] = 0 THEN t.fst ELSE t.snd, v[2])>>
      [] OTHER -> v

(* The receiver gets the value that was sent (up to Option of something    *)
(* empty) and is told exactly how much followed it; from a packet that     *)
(* lost bytes or handles it gets none, never another value; and only the   *)
(* method that was called takes the data.  The format has no lengths but   *)
(* those of vectors, so this rests on each type reading exactly what it    *)
(* wrote.  An Option of a kernel object does not: it is written without    *)
(* the object's number and read with it, and so never arrives.             *)
WireExact ==
    gotten # Nothing =>
        LET lost == change[1] < 0 \/ change[2] < 0
            apt == gotten.asked = method
        IN  IF ty.is = "optobject" THEN change = <<0, 0>> => gotten.res # "ok"
            ELSE /\ apt /\ ~lost => gotten.res = "ok" /\ gotten.val = Norm(ty, val) /\ gotten.extra = change
                 /\ gotten.res = "ok" => apt /\ ~lost
                 /\ ~apt => gotten.res \in {"invalid_method", "too_short"}
=============================================================================
