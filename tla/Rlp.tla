--------------------------------- MODULE Rlp ---------------------------------
(***************************************************************************)
(* Package rlp: the encoder with its buffer of strings and list headers    *)
(* (encode.go), the Stream with its stack of lists (decode.go) and the     *)
(* functions on raw bytes (raw.go). A Go type is a record with its kind k: *)
(* "uint" (bits), "bool", "bigInt", "bytes", "byteArray" (len), "slice" and *)
(* "array" (elem, len), "struct" (fields), "nilPtr" (elem, nilKind),       *)
(* "interface" or "raw"; the last field of a struct may be a "tail".       *)
(***************************************************************************)
EXTENDS Integers, Sequences, SequencesExt

CONSTANTS
    Samples,      \* pairs of a type and a value of it
    Values,       \* bytes an alteration writes
    ReadSizes     \* sizes of the buffers given to an encReader

VARIABLE
    st            \* a sample, its encoding on the way, and a reader of it

To(d, n) == SubSeq(d, 1, n)
From(d, n) == SubSeq(d, n + 1, Len(d))
Least(a, b) == IF a < b THEN a ELSE b

-----------------------------------------------------------------------------
(* encode.go *)

(* putint: big endian, no leading zero. The model's integers have 31 bits. *)
RECURSIVE Putint(_)
Putint(i) == IF i < 256 THEN <<i>> ELSE Putint(i \div 256) \o <<i % 256>>

RECURSIVE Intsize(_)
Intsize(i) == IF i \div 256 = 0 THEN 1 ELSE 1 + Intsize(i \div 256)

Headsize(size) == IF size < 56 THEN 1 ELSE 1 + Intsize(size)

Puthead(small, large, size) ==
    IF size < 56 THEN <<small + size>> ELSE <<large + Len(Putint(size))>> \o Putint(size)

EmptyBuf == [str |-> <<>>, lheads |-> <<>>, lhsize |-> 0]

AppendStr(w, b) == [w EXCEPT !.str = @ \o b]

EncodeStringHeader(w, size) == AppendStr(w, Puthead(128, 183, size))

EncodeString(w, b) ==
    IF Len(b) = 1 /\ b[1] <= 127 THEN AppendStr(w, b) ELSE AppendStr(EncodeStringHeader(w, Len(b)), b)

BufSize(w) == Len(w.str) + w.lhsize

(* list: the header is kept apart from the string data, with the place it  *)
(* belongs to; size holds lhsize until listEnd.                            *)
BeginList(w) == [w EXCEPT !.lheads = Append(@, [offset |-> Len(w.str), size |-> w.lhsize])]

(* Mutant: the headers inside the list are not counted. *)
EndListFlat(w, i) ==
    LET size == Len(w.str) - w.lheads[i].offset
    IN  [w EXCEPT !.lheads[i].size = size, !.lhsize = @ + Headsize(size)]

(* listEnd of the i-th header *)
EndList(w, i) ==
    LET size == BufSize(w) - w.lheads[i].offset - w.lheads[i].size
    IN  [w EXCEPT !.lheads[i].size = size,
                  !.lhsize = IF size < 56 THEN @ + 1 ELSE @ + 1 + Intsize(size)]

WriteUint(i, w) ==
    IF i = 0 THEN AppendStr(w, <<128>>)
    ELSE IF i < 128 THEN AppendStr(w, <<i>>)
    ELSE AppendStr(w, <<128 + Len(Putint(i))>> \o Putint(i))

WriteBool(b, w) == AppendStr(w, IF b THEN <<1>> ELSE <<128>>)

WriteBigInt(i, w) == IF i = 0 THEN AppendStr(w, <<128>>) ELSE EncodeString(w, Putint(i))

(* The writer of a type; a tail writes its elements without a list. *)
RECURSIVE Writer(_, _, _), WriteElems(_, _, _)

WriteElems(t, v, w) == FoldLeft(LAMBDA acc, x : Writer(t, x, acc), w, v)

(* makeStructWriter *)
StructWriter(t, v, w) ==
    EndList(FoldLeft(LAMBDA acc, i : Writer(t.fields[i], v[i], acc), BeginList(w), [i \in DOMAIN v |-> i]),
            Len(w.lheads) + 1)

(* makeSliceWriter *)
SliceWriter(t, v, w) == EndList(WriteElems(t.elem, v, BeginList(w)), Len(w.lheads) + 1)

(* makePtrWriter: a nil pointer is an empty string or an empty list. *)
PtrWriter(t, v, w) ==
    IF v # <<>> THEN Writer(t.elem, v[1], w)
    ELSE IF t.nilKind = "String" THEN AppendStr(w, <<128>>)
    ELSE EndList(BeginList(w), Len(w.lheads) + 1)

(* writeInterface: what is inside decides, bytes or a list of interfaces *)
InterfaceWriter(t, v, w) ==
    IF v.list THEN SliceWriter([elem |-> t], v.v, w) ELSE EncodeString(w, v.v)

(* makeWriter *)
Writer(t, v, w) ==
    CASE t.k = "uint" -> WriteUint(v, w)
      [] t.k = "bool" -> WriteBool(v, w)
      [] t.k = "bigInt" -> WriteBigInt(v, w)
      [] t.k \in {"bytes", "byteArray"} -> EncodeString(w, v)
      [] t.k \in {"slice", "array"} -> SliceWriter(t, v, w)
      [] t.k = "tail" -> WriteElems(t.elem, v, w)
      [] t.k = "struct" -> StructWriter(t, v, w)
      [] t.k = "nilPtr" -> PtrWriter(t, v, w)
      [] t.k = "interface" -> InterfaceWriter(t, v, w)
      [] t.k = "raw" -> AppendStr(w, v)

HeadBytes(h) == Puthead(192, 247, h.size)

(* toBytes and toWriter: string data up to each header, the header, the rest *)
ToBytes(w) ==
    FlattenSeq([i \in DOMAIN w.lheads |->
                   SubSeq(w.str, (IF i = 1 THEN 0 ELSE w.lheads[i - 1].offset) + 1, w.lheads[i].offset)
                   \o HeadBytes(w.lheads[i])])
    \o From(w.str, IF w.lheads = <<>> THEN 0 ELSE w.lheads[Len(w.lheads)].offset)

Encode(t, v) == ToBytes(Writer(t, v, EmptyBuf))

(* encReader.next: the next piece and where the reader then is *)
NextPiece(w, r) ==
    IF r.eof \/ r.piece # <<>> THEN r
    ELSE IF r.lhpos < Len(w.lheads)
    THEN LET h == w.lheads[r.lhpos + 1]
         IN  IF h.offset > r.strpos
             THEN [r EXCEPT !.piece = SubSeq(w.str, r.strpos + 1, h.offset), !.strpos = h.offset]
             ELSE [r EXCEPT !.piece = HeadBytes(h), !.lhpos = @ + 1]
    ELSE [r EXCEPT !.piece = From(w.str, r.strpos), !.strpos = Len(w.str)]

(* encReader.Read into a buffer with room bytes left *)
RECURSIVE EncRead(_, _, _)
EncRead(w, r, room) ==
    LET next == NextPiece(w, r)
        n == Least(room, Len(next.piece))
        taken == [next EXCEPT !.out = @ \o To(next.piece, n), !.piece = From(@, n)]
    IN  IF next.piece = <<>> THEN [next EXCEPT !.eof = TRUE]
        ELSE IF n < Len(next.piece) THEN taken
        ELSE EncRead(w, taken, room - n)

-----------------------------------------------------------------------------
(* decode.go, the Stream. An operation returns the stream after it, an     *)
(* error or "" and a value.                                                *)

Rearmed == "none"       \* s.kind = -1
Huge == 16777216        \* stands for every size from here on

NewStream(data) ==
    [in |-> data, remaining |-> Len(data), kind |-> Rearmed, size |-> 0, byteval |-> 0, kinderr |-> "",
     stack |-> <<>>]

Ret(s, err, v) == [s |-> s, err |-> err, v |-> v]

(* if err != nil { return err } *)
Then(r, F(_)) == IF r.err # "" THEN r ELSE F(r)

Rearm(s) == [s EXCEPT !.kind = Rearmed]

Top(s) == s.stack[Len(s.stack)]
Inside(s) == s.stack # <<>>

(* willRead: the reading is accounted for in the innermost list, then in   *)
(* the input; an error of the second leaves the first counted.             *)
WillRead(s, n) ==
    LET s1 == [s EXCEPT !.kind = Rearmed]
        s2 == IF Inside(s) THEN [s1 EXCEPT !.stack[Len(s.stack)].pos = @ + n] ELSE s1
    IN  IF Inside(s) /\ n > Top(s).size - Top(s).pos THEN Ret(s1, "elemTooLarge", <<>>)
        ELSE IF n > s.remaining THEN Ret(s2, "valueTooLarge", <<>>)
        ELSE Ret([s2 EXCEPT !.remaining = @ - n], "", <<>>)

(* readFull and readByte; the input of a limited stream has what remains. *)
ReadFull(s, n) ==
    Then(WillRead(s, n), LAMBDA r : Ret([r.s EXCEPT !.in = From(@, n)], "", To(s.in, n)))

RECURSIVE BigEndian(_)
BigEndian(d) ==
    IF d = <<>> THEN 0
    ELSE LET high == BigEndian(Front(d))
         IN  IF high >= Huge \div 256 THEN Huge ELSE high * 256 + Last(d)

ReadUint(s, size) ==
    IF size = 0 THEN Ret(Rearm(s), "", 0)
    ELSE Then(ReadFull(s, size),
              LAMBDA r : IF size > 1 /\ r.v[1] = 0 THEN Ret(r.s, "canonSize", 0) ELSE Ret(r.s, "", BigEndian(r.v)))

(* readKind returns a kind and a size: the first byte, which is missing at *)
(* the end of the input, the size that follows it, and what they mean.     *)
FirstByte(r) == IF r.err = "" THEN r ELSE Ret(r.s, IF Inside(r.s) THEN r.err ELSE "eof", <<"Byte", 0>>)
LongSize(u, kind) ==
    IF u.err # "" THEN Ret(u.s, u.err, <<kind, 0>>) ELSE Ret(u.s, IF u.v < 56 THEN "canonSize" ELSE "", <<kind, u.v>>)
KindOfByte(s, b) ==
    IF b < 128 THEN Ret([s EXCEPT !.byteval = b], "", <<"Byte", 0>>)
    ELSE IF b < 184 THEN Ret(s, "", <<"String", b - 128>>)
    ELSE IF b < 192 THEN LongSize(ReadUint(s, b - 183), "String")
    ELSE IF b < 248 THEN Ret(s, "", <<"List", b - 192>>)
    ELSE LongSize(ReadUint(s, b - 247), "List")
ReadKind(s) == Then(FirstByte(ReadFull(s, 1)), LAMBDA r : KindOfByte([r.s EXCEPT !.byteval = 0], r.v[1]))

(* Kind: nothing is read at the end of the innermost list; what was read,  *)
(* an error too, is kept until the stream is rearmed.                      *)
SizeError(r) ==
    IF r.err # "" THEN r.err
    ELSE IF ~Inside(r.s) /\ r.v[2] > r.s.remaining THEN "valueTooLarge"
    ELSE IF Inside(r.s) /\ r.v[2] > Top(r.s).size - Top(r.s).pos THEN "elemTooLarge"
    ELSE ""
Armed(r) ==
    LET err == SizeError(r)
    IN  Ret([r.s EXCEPT !.kind = r.v[1], !.size = r.v[2], !.kinderr = err], err, r.v)
KindOf(s) ==
    IF s.kind # Rearmed THEN Ret(s, s.kinderr, <<s.kind, s.size>>)
    ELSE IF Inside(s) /\ Top(s).pos = Top(s).size THEN Ret([s EXCEPT !.kinderr = ""], "EOL", <<"Byte", 0>>)
    ELSE Armed(ReadKind(s))

(* A string of one byte below 128 should have been the byte itself. *)
NoSmallByte(r, n) == IF r.err = "" /\ n = 1 /\ r.v[1] < 128 THEN Ret(r.s, "canonSize", <<>>) ELSE r

(* Mutant: a string of one small byte is let through. *)
BytesOfAny(s) ==
    Then(KindOf(s), LAMBDA k : IF k.v[1] = "Byte" THEN Ret(Rearm(k.s), "", <<k.s.byteval>>)
                               ELSE IF k.v[1] = "List" THEN Ret(k.s, "expectedString", <<>>)
                               ELSE ReadFull(k.s, k.v[2]))

(* Bytes *)
BytesOf(s) ==
    Then(KindOf(s), LAMBDA k : IF k.v[1] = "Byte" THEN Ret(Rearm(k.s), "", <<k.s.byteval>>)
                               ELSE IF k.v[1] = "List" THEN Ret(k.s, "expectedString", <<>>)
                               ELSE NoSmallByte(ReadFull(k.s, k.v[2]), k.v[2]))

(* Raw: the header is written again. *)
RawHead(kind, size) == IF kind = "String" THEN Puthead(128, 183, size) ELSE Puthead(192, 247, size)
RawOf(s) ==
    Then(KindOf(s), LAMBDA k : IF k.v[1] = "Byte" THEN Ret(Rearm(k.s), "", <<k.s.byteval>>)
                               ELSE Then(ReadFull(k.s, k.v[2]),
                                         LAMBDA r : Ret(r.s, "", RawHead(k.v[1], k.v[2]) \o r.v)))

(* uint; the zero byte is refused without rearming the stream. *)
UintRead(u, size) ==
    IF u.err # "" THEN Ret(u.s, IF u.err = "canonSize" THEN "canonInt" ELSE u.err, 0)
    ELSE IF size > 0 /\ u.v < 128 THEN Ret(u.s, "canonSize", 0)
    ELSE u
UintOf(s, bits) ==
    Then(KindOf(s), LAMBDA k : CASE k.v[1] = "List" -> Ret(k.s, "expectedString", 0)
                                 [] k.v[1] = "Byte" -> IF k.s.byteval = 0 THEN Ret(k.s, "canonInt", 0)
                                                       ELSE Ret(Rearm(k.s), "", k.s.byteval)
                                 [] k.v[1] = "String" -> IF k.v[2] > bits \div 8 THEN Ret(k.s, "uintOverflow", 0)
                                                         ELSE UintRead(ReadUint(k.s, k.v[2]), k.v[2]))

BoolOf(s) == Then(UintOf(s, 8), LAMBDA u : Ret(u.s, IF u.v > 1 THEN "invalidBool" ELSE "", u.v = 1))

(* List *)
ListOf(s) ==
    Then(KindOf(s), LAMBDA k : IF k.v[1] # "List" THEN Ret(k.s, "expectedList", 0)
                               ELSE Ret([k.s EXCEPT !.stack = Append(@, [pos |-> 0, size |-> k.v[2]]),
                                                    !.kind = Rearmed, !.size = 0], "", k.v[2]))

(* ListEnd *)
ListEnd(s) ==
    LET outer == Front(s.stack)
    IN  IF ~Inside(s) THEN Ret(s, "notInList", <<>>)
        ELSE IF Top(s).pos # Top(s).size THEN Ret(s, "notAtEOL", <<>>)
        ELSE Ret([s EXCEPT !.stack = IF outer = <<>> THEN outer
                                     ELSE [outer EXCEPT ![Len(outer)].pos = @ + Top(s).size],
                           !.kind = Rearmed, !.size = 0], "", <<>>)

-----------------------------------------------------------------------------
(* decode.go, the decoders of types *)

RECURSIVE Decoder(_, _), DecodeSliceElems(_, _, _), DecodeFields(_, _, _), DecodeListArray(_, _, _)

(* decodeSliceElems, up to the end of the list *)
DecodeSliceElems(s, elem, sofar) ==
    LET after(r) == IF r.err = "EOL" THEN Ret(r.s, "", sofar)
                    ELSE IF r.err # "" THEN Ret(r.s, r.err, sofar)
                    ELSE DecodeSliceElems(r.s, elem, Append(sofar, r.v))
    IN  after(Decoder(elem, s))

AfterList(r) == Then(r, LAMBDA l : [ListEnd(l.s) EXCEPT !.v = l.v])

(* decodeListSlice *)
DecodeListSlice(s, elem) ==
    Then(ListOf(s), LAMBDA l : AfterList(IF l.v = 0 THEN Ret(l.s, "", <<>>) ELSE DecodeSliceElems(l.s, elem, <<>>)))

(* An element of a list that must not end before it *)
Needed(r, sofar) == IF r.err = "EOL" THEN Ret(r.s, "tooFew", sofar) ELSE r

(* decodeListArray, with the list already open: exactly n elements *)
DecodeListArray(s, t, sofar) ==
    IF Len(sofar) = t.len THEN AfterList(Ret(s, "", sofar))
    ELSE Then(Needed(Decoder(t.elem, s), sofar), LAMBDA r : DecodeListArray(r.s, t, Append(sofar, r.v)))

(* decodeByteArray; what Uint says of a single byte is not looked at. *)
DecodeByteArray(s, n) ==
    LET single(u) == Ret(u.s, "", <<u.v>>)
    IN  Then(KindOf(s), LAMBDA k : CASE k.v[1] = "List" -> Ret(k.s, "expectedString", <<>>)
                                     [] k.v[1] = "Byte" -> IF n # 1 THEN Ret(k.s, "wrongLength", <<>>)
                                                           ELSE single(UintOf(k.s, 64))
                                     [] k.v[1] = "String" -> IF k.v[2] # n THEN Ret(k.s, "wrongLength", <<>>)
                                                             ELSE NoSmallByte(ReadFull(k.s, n), n))

(* makeStructDecoder, with the list already open *)
DecodeFields(s, t, sofar) ==
    IF Len(sofar) = Len(t.fields) THEN AfterList(Ret(s, "", sofar))
    ELSE Then(Needed(Decoder(t.fields[Len(sofar) + 1], s), sofar),
              LAMBDA r : DecodeFields(r.s, t, Append(sofar, r.v)))

(* makeNilPtrDecoder: an empty value of the right kind is nil. *)
DecodeNilPtr(s, t) ==
    Then(KindOf(s), LAMBDA k : IF k.v[1] = "Byte" \/ k.v[2] # 0
                               THEN Then(Decoder(t.elem, k.s), LAMBDA r : Ret(r.s, "", <<r.v>>))
                               ELSE IF k.v[1] # t.nilKind THEN Ret(k.s, "wrongNil", <<>>)
                               ELSE Ret(Rearm(k.s), "", <<>>))

DecodeInterface(s, t) ==
    Then(KindOf(s), LAMBDA k : IF k.v[1] = "List"
                               THEN Then(DecodeListSlice(k.s, t), LAMBDA l : Ret(l.s, "", [list |-> TRUE, v |-> l.v]))
                               ELSE Then(BytesOf(k.s), LAMBDA b : Ret(b.s, "", [list |-> FALSE, v |-> b.v])))

DecodeBigInt(s) ==
    Then(BytesOf(s), LAMBDA b : IF b.v # <<>> /\ b.v[1] = 0 THEN Ret(b.s, "canonInt", 0)
                                ELSE Ret(b.s, "", BigEndian(b.v)))

(* makeDecoder *)
Decoder(t, s) ==
    CASE t.k = "uint" -> UintOf(s, t.bits)
      [] t.k = "bool" -> BoolOf(s)
      [] t.k = "bigInt" -> DecodeBigInt(s)
      [] t.k = "bytes" -> BytesOf(s)
      [] t.k = "byteArray" -> DecodeByteArray(s, t.len)
      [] t.k = "slice" -> DecodeListSlice(s, t.elem)
      [] t.k = "array" -> Then(ListOf(s), LAMBDA l : DecodeListArray(l.s, t, <<>>))
      [] t.k = "tail" -> DecodeSliceElems(s, t.elem, <<>>)
      [] t.k = "struct" -> Then(ListOf(s), LAMBDA l : DecodeFields(l.s, t, <<>>))
      [] t.k = "nilPtr" -> DecodeNilPtr(s, t)
      [] t.k = "interface" -> DecodeInterface(s, t)
      [] t.k = "raw" -> RawOf(s)

(* DecodeBytes: one value and nothing after it *)
DecodeBytes(t, data) ==
    Then(Decoder(t, NewStream(data)),
         LAMBDA r : IF r.s.in # <<>> THEN Ret(r.s, "moreThanOneValue", r.v) ELSE r)

-----------------------------------------------------------------------------
(* raw.go *)

(* readSize of d, the bytes after the tag: <<size>>, or <<>> for an error *)
ReadSize(d, slen) ==
    IF slen > Len(d) THEN <<>>
    ELSE IF d[1] = 0 \/ BigEndian(To(d, slen)) < 56 THEN <<>> ELSE <<BigEndian(To(d, slen))>>

(* readKind: <<kind, tagsize, contentsize>>, or <<>> for an error *)
RawKind(d) ==
    LET b == d[1]
        long(kind, n) == IF ReadSize(From(d, 1), n) = <<>> THEN <<>>
                         ELSE <<kind, n + 1, ReadSize(From(d, 1), n)[1]>>
        k == IF b < 128 THEN <<"Byte", 0, 1>>
             ELSE IF b < 184 THEN IF b = 129 /\ Len(d) > 1 /\ d[2] < 128 THEN <<>> ELSE <<"String", 1, b - 128>>
             ELSE IF b < 192 THEN long("String", b - 183)
             ELSE IF b < 248 THEN <<"List", 1, b - 192>>
             ELSE long("List", b - 247)
    IN  IF d = <<>> THEN <<>> ELSE IF k = <<>> THEN <<>>
        ELSE IF k[3] > Len(d) - k[2] THEN <<>> ELSE k

(* Split: <<kind, content, rest>>, or <<>> *)
Split(d) ==
    LET k == RawKind(d)
    IN  IF k = <<>> THEN <<>> ELSE <<k[1], To(From(d, k[2]), k[3]), From(d, k[2] + k[3])>>

(* CountValues, or -1 *)
RECURSIVE CountValues(_)
CountValues(d) ==
    IF d = <<>> THEN 0
    ELSE IF RawKind(d) = <<>> THEN -1
    ELSE LET n == CountValues(From(d, RawKind(d)[2] + RawKind(d)[3])) IN IF n = -1 THEN -1 ELSE n + 1

(* AppendUint64 *)
AppendUint64(b, i) ==
    b \o (IF i = 0 THEN <<128>> ELSE IF i < 128 THEN <<i>> ELSE <<128 + Intsize(i)>> \o Putint(i))

ListSize(size) == Headsize(size) + size

-----------------------------------------------------------------------------
Init ==
    \E sample \in Samples :
        st = [t |-> sample[1], v |-> sample[2], w |-> Writer(sample[1], sample[2], EmptyBuf),
              data |-> Encode(sample[1], sample[2]), how |-> "whole",
              r |-> [lhpos |-> 0, strpos |-> 0, piece |-> <<>>, out |-> <<>>, eof |-> FALSE]]

(* The reader of EncodeToReader is read with buffers of several sizes. *)
ReadEncoded ==
    /\ st.how \in {"whole", "reading"} /\ ~st.r.eof
    /\ \E n \in ReadSizes : st' = [st EXCEPT !.r = EncRead(st.w, st.r, n), !.how = "reading"]

Alter ==
    /\ st.how = "whole"
    /\ \E i \in DOMAIN st.data, v \in Values : st' = [st EXCEPT !.data[i] = v, !.how = "altered"]

Cut ==
    /\ st.how \in {"whole", "cut"} /\ st.data # <<>>
    /\ st' = [st EXCEPT !.data = Front(@), !.how = "cut"]

Grow ==
    /\ st.how = "whole"
    /\ \E i \in 0..Len(st.data), v \in Values :
          st' = [st EXCEPT !.data = To(@, i) \o <<v>> \o From(@, i), !.how = "altered"]

Next == ReadEncoded \/ Alter \/ Cut \/ Grow

-----------------------------------------------------------------------------
(* The encoding of RLP as its documentation defines it, without a buffer *)
RECURSIVE Reference(_, _)
Str(b) == IF Len(b) = 1 /\ b[1] < 128 THEN b ELSE Puthead(128, 183, Len(b)) \o b
Lst(b) == Puthead(192, 247, Len(b)) \o b
Reference(t, v) ==
    LET elems(e) == FlattenSeq([i \in DOMAIN v |-> Reference(e, v[i])])
    IN  CASE t.k \in {"uint", "bigInt"} -> IF v = 0 THEN <<128>> ELSE Str(Putint(v))
          [] t.k = "bool" -> IF v THEN <<1>> ELSE <<128>>
          [] t.k \in {"bytes", "byteArray"} -> Str(v)
          [] t.k \in {"slice", "array"} -> Lst(elems(t.elem))
          [] t.k = "tail" -> elems(t.elem)
          [] t.k = "struct" -> Lst(FlattenSeq([i \in DOMAIN v |-> Reference(t.fields[i], v[i])]))
          [] t.k = "nilPtr" -> IF v = <<>> THEN IF t.nilKind = "String" THEN <<128>> ELSE <<192>>
                               ELSE Reference(t.elem, v[1])
          [] t.k = "interface" -> IF v.list THEN Lst(FlattenSeq([i \in DOMAIN v.v |-> Reference(t, v.v[i])]))
                                  ELSE Str(v.v)
          [] t.k = "raw" -> v

(* The buffer, which keeps list headers apart from the strings and computes *)
(* the size of a list from two running totals, yields the encoding, and the *)
(* size that EncodeToReader announces.                                      *)
EncodingExact ==
    st.how = "whole" => /\ st.data = Reference(st.t, st.v) /\ BufSize(st.w) = Len(st.data)
                        /\ st.t.k = "uint" => AppendUint64(<<>>, st.v) = st.data

(* However the buffers are sized, a reader delivers the encoding, once. *)
ReaderExact ==
    IF st.r.eof THEN st.r.out = st.data ELSE IsPrefix(st.r.out, st.data)

(* A [1]byte{0} in a list: decodeByteArray (decode.go:360) leaves its byte *)
(* in front of the stream, which answers the next element with it again.   *)
RECURSIVE ZeroArray(_, _)
ZeroArray(t, v) ==
    CASE t.k = "byteArray" -> v = <<0>>
      [] t.k \in {"slice", "array", "tail"} -> \E i \in DOMAIN v : ZeroArray(t.elem, v[i])
      [] t.k = "struct" -> \E i \in DOMAIN v : ZeroArray(t.fields[i], v[i])
      [] t.k = "nilPtr" -> v # <<>> /\ ZeroArray(t.elem, v[1])
      [] OTHER -> FALSE
ZeroArrayInside(t, v) == t.k # "byteArray" /\ ZeroArray(t, v)

(* What was encoded decodes to itself, but for a zero array in a list. *)
RoundTrip ==
    LET kept(r) == r.err = "" /\ r.v = st.v
    IN  st.how = "whole" /\ ~ZeroArrayInside(st.t, st.v) => kept(DecodeBytes(st.t, st.data))

(* Every value has one encoding: bytes that decode, altered ones included, *)
(* are the encoding of the value they decode to. Excepted are values with  *)
(* a zero array in a list, which shorter lists decode to as well, and a    *)
(* RawValue, whose content is not looked into.                             *)
Canonical ==
    LET canonical(r) == r.err = "" /\ st.t.k # "raw" /\ ~ZeroArrayInside(st.t, r.v) => Encode(st.t, r.v) = st.data
    IN  canonical(DecodeBytes(st.t, st.data))

(* "Decoding returns an error if there are too few or too many elements    *)
(* for the struct" (doc.go:75): a list that decodes into a struct without  *)
(* a tail has one element for every field. It does not hold of fields of   *)
(* type [1]byte, which read a zero once and again (decodeByteArray).       *)
ElementsMatch ==
    LET tail == \E i \in DOMAIN st.t.fields : st.t.fields[i].k = "tail"
    IN  st.t.k = "struct" /\ DecodeBytes(st.t, st.data).err = "" /\ ~tail =>
            CountValues(Split(st.data)[2]) = Len(st.t.fields)

(* The Stream never reads past the lists it is in, and its count of the    *)
(* input that remains is right, whatever it is given.                      *)
StreamInBounds ==
    LET inBounds(s) == /\ s.remaining = Len(s.in)
                       /\ \A i \in DOMAIN s.stack : s.stack[i].pos <= s.stack[i].size
    IN  inBounds(DecodeBytes(st.t, st.data).s)

(* The functions on bytes and the Stream see the same values: what decodes *)
(* is one value for CountValues, and Split finds its kind and its content. *)
RawAgrees ==
    LET agree(k, x) == /\ x # <<>> /\ x[1] = k.v[1] /\ x[3] = <<>>
                       /\ x[1] # "Byte" => Len(x[2]) = k.v[2] /\ Len(st.data) = (IF x[1] = "List" THEN ListSize(k.v[2])
                                                                                    ELSE Headsize(k.v[2]) + k.v[2])
    IN  DecodeBytes(st.t, st.data).err = "" /\ st.t.k # "raw" =>
            CountValues(st.data) = 1 /\ agree(KindOf(NewStream(st.data)), Split(st.data))
=============================================================================
