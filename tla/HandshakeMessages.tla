-------------------------- MODULE HandshakeMessages --------------------------
(***************************************************************************)
(* The handshake messages of gmtls (handshake_messages.go and              *)
(* gm_handshake_messages.go) as sequences of bytes. marshal allocates      *)
(* what it has counted before and then writes into it: Size is the count,  *)
(* Body is what is written. unmarshal is a parser of bytes anyone sent:    *)
(* a message is encoded and then altered on its way.                       *)
(***************************************************************************)
EXTENDS Integers, Sequences, SequencesExt

CONSTANTS
    RandomLen,   \* bytes of a random, 32 in the code
    MaxId,       \* longest session id, 32 in the code
    Messages,    \* the messages that are sent
    Values,      \* bytes an alteration writes
    MaxAlter     \* alterations of one message

VARIABLE
    st           \* the message that was sent, its bytes on the way, alterations so far

(* Fixed part of a hello before its session id: header, version, random *)
HelloLen == 6 + RandomLen

(* data[:n] and data[n:] *)
To(d, n) == SubSeq(d, 1, n)
From(d, n) == SubSeq(d, n + 1, Len(d))

U8(n) == <<n % 256>>
U16(n) == <<(n \div 256) % 256, n % 256>>
U24(n) == <<(n \div 65536) % 256>> \o U16(n)
U16s(s) == FlattenSeq([i \in DOMAIN s |-> U16(s[i])])
Vec8(s) == U8(Len(s)) \o s
Vec16(s) == U16(Len(s)) \o s
Vec24(s) == U24(Len(s)) \o s
Vecs8(s) == FlattenSeq([i \in DOMAIN s |-> Vec8(s[i])])
Vecs16(s) == FlattenSeq([i \in DOMAIN s |-> Vec16(s[i])])
Vecs24(s) == FlattenSeq([i \in DOMAIN s |-> Vec24(s[i])])
Total(s) == Len(FlattenSeq(s))
If(b, x) == IF b THEN x ELSE <<>>

Num16(d) == d[1] * 256 + d[2]
Num24(d) == d[1] * 65536 + d[2] * 256 + d[3]
Nums16(d) == [i \in 1..Len(d) \div 2 |-> Num16(From(d, 2 * (i - 1)))]

(* A parser returns <<x>>, or Bad. *)
Bad == <<>>
When(b, x) == IF b THEN <<x>> ELSE Bad

(* What a loop over length-prefixed items makes of d. w is the width of a  *)
(* length, least the shortest item, need the bytes a next item must have.  *)
RECURSIVE Items(_, _, _, _)
Items(d, w, least, need) ==
    IF d = <<>> THEN << <<>> >>
    ELSE IF Len(d) < need THEN Bad
    ELSE LET l == IF w = 1 THEN d[1] ELSE IF w = 2 THEN Num16(d) ELSE Num24(d)
             d1 == From(d, w)
             rest == Items(From(d1, l), w, least, need)
         IN  IF l < least \/ l > Len(d1) \/ rest = Bad THEN Bad ELSE << <<To(d1, l)>> \o rest[1] >>

-----------------------------------------------------------------------------
(* clientHelloMsg *)

ExtServerName == 0
ExtStatusRequest == 5
ExtSupportedCurves == 10
ExtSupportedPoints == 11
ExtSignatureAlgorithms == 13
ExtALPN == 16
ExtSCT == 18
ExtSessionTicket == 35
ExtNextProtoNeg == 13172
ExtRenegotiationInfo == 65281
ScsvRenegotiation == 255
StatusTypeOCSP == 1

Ext(id, data) == U16(id) \o Vec16(data)

(* marshal: length, numExtensions and extensionsLength *)
ClientHelloSize(m) ==
    LET exts == <<If(m.npn, <<0>>), If(m.ocsp, <<5>>), If(m.serverName # <<>>, <<5 + Len(m.serverName)>>),
                  If(m.curves # <<>>, <<2 + 2 * Len(m.curves)>>), If(m.points # <<>>, <<1 + Len(m.points)>>),
                  If(m.tickets, <<Len(m.ticket)>>), If(m.sigAlgs # <<>>, <<2 + 2 * Len(m.sigAlgs)>>),
                  If(m.reneg, <<1 + Len(m.renegData)>>),
                  If(m.alpn # <<>>, <<2 + Len(m.alpn) + Total(m.alpn)>>), If(m.scts, <<0>>)>>
        lengths == FlattenSeq(exts)
    IN  HelloLen - 4 + 1 + Len(m.sessionId) + 2 + 2 * Len(m.suites) + 1 + Len(m.compression)
        + (IF lengths # <<>> THEN 2 + FoldSeq(+, 0, lengths) + 4 * Len(lengths) ELSE 0)

(* marshal: the fixed fields *)
ClientHelloFields(m) ==
    U16(m.vers) \o m.random \o Vec8(m.sessionId) \o Vec16(U16s(m.suites)) \o Vec8(m.compression)

(* marshal: the extensions, in the order they are written *)
ClientHelloExtensions(m) ==
    If(m.npn, Ext(ExtNextProtoNeg, <<>>))
    \o If(m.serverName # <<>>, Ext(ExtServerName, Vec16(<<0>> \o Vec16(m.serverName))))
    \o If(m.ocsp, Ext(ExtStatusRequest, <<StatusTypeOCSP, 0, 0, 0, 0>>))
    \o If(m.curves # <<>>, Ext(ExtSupportedCurves, Vec16(U16s(m.curves))))
    \o If(m.points # <<>>, Ext(ExtSupportedPoints, Vec8(m.points)))
    \o If(m.tickets, Ext(ExtSessionTicket, m.ticket))
    \o If(m.sigAlgs # <<>>, Ext(ExtSignatureAlgorithms, Vec16(U16s(m.sigAlgs))))
    \o If(m.reneg, Ext(ExtRenegotiationInfo, Vec8(m.renegData)))
    \o If(m.alpn # <<>>, Ext(ExtALPN, Vec16(Vecs8(m.alpn))))
    \o If(m.scts, Ext(ExtSCT, <<>>))

WithExtensions(exts) == If(exts # <<>>, Vec16(exts))

(* unmarshal, the extension server_name: the first name of type 0; what    *)
(* follows it is not looked at.                                            *)
RECURSIVE ServerNameOf(_, _)
ServerNameOf(d, name) ==
    IF d = <<>> THEN <<name>>
    ELSE IF Len(d) < 3 \/ Len(d) - 3 < Num16(From(d, 1)) THEN Bad
    ELSE IF d[1] = 0 THEN <<To(From(d, 3), Num16(From(d, 1)))>>
    ELSE ServerNameOf(From(d, 3 + Num16(From(d, 1))), name)

(* An extension's data is one vector with a length of two bytes, or one. *)
Whole16(d) == Len(d) >= 2 /\ Num16(d) = Len(d) - 2
Whole8(d) == Len(d) >= 1 /\ d[1] = Len(d) - 1

(* unmarshal, one extension *)
ClientHelloExtension(m, id, d) ==
    CASE id = ExtServerName ->
           LET name == IF Whole16(d) THEN ServerNameOf(From(d, 2), m.serverName) ELSE Bad
           IN  When(name # Bad, [m EXCEPT !.serverName = name[1]])
      [] id = ExtNextProtoNeg -> When(d = <<>>, [m EXCEPT !.npn = TRUE])
      [] id = ExtStatusRequest -> <<[m EXCEPT !.ocsp = d # <<>> /\ d[1] = StatusTypeOCSP]>>
      [] id = ExtSupportedCurves ->
           When(Whole16(d) /\ Len(d) % 2 = 0, [m EXCEPT !.curves = Nums16(From(d, 2))])
      [] id = ExtSupportedPoints -> When(Whole8(d), [m EXCEPT !.points = From(d, 1)])
      [] id = ExtSessionTicket -> <<[m EXCEPT !.tickets = TRUE, !.ticket = d]>>
      [] id = ExtSignatureAlgorithms ->
           When(Whole16(d) /\ Len(d) % 2 = 0, [m EXCEPT !.sigAlgs = Nums16(From(d, 2))])
      [] id = ExtRenegotiationInfo -> When(Whole8(d), [m EXCEPT !.renegData = From(d, 1), !.reneg = TRUE])
      [] id = ExtALPN ->
           LET protos == IF Whole16(d) THEN Items(From(d, 2), 1, 1, 1) ELSE Bad
           IN  When(protos # Bad, [m EXCEPT !.alpn = @ \o protos[1]])
      [] id = ExtSCT -> When(d = <<>>, [m EXCEPT !.scts = TRUE])
      [] OTHER -> <<m>>

(* Mutant: what follows the vector is ignored. *)
ExtensionsOfLoose(d) ==
    IF d = <<>> THEN <<d>> ELSE When(Len(d) >= 2 /\ Num16(d) <= Len(d) - 2, To(From(d, 2), Num16(d)))

(* unmarshal, the extensions after the fixed fields: none, or a vector *)
ExtensionsOf(d) == IF d = <<>> THEN <<d>> ELSE When(Whole16(d), From(d, 2))

(* unmarshal, the loop over the extensions of a client's hello *)
RECURSIVE ClientHelloLoop(_, _)
ClientHelloLoop(r, d) ==
    IF r = Bad \/ d = <<>> THEN r
    ELSE IF Len(d) < 4 \/ Len(d) - 4 < Num16(From(d, 2)) THEN Bad
    ELSE LET length == Num16(From(d, 2))
         IN  ClientHelloLoop(ClientHelloExtension(r[1], Num16(d), To(From(d, 4), length)), From(d, 4 + length))

(* unmarshal of a client's hello *)
UnmarshalClientHello(data) ==
    LET idLen == data[HelloLen + 1]
        d1 == From(data, HelloLen + 1 + idLen)          \* from the cipher suites on
        d2 == From(d1, 2 + Num16(d1))                   \* from the compression methods on
        d3 == From(d2, 1 + d2[1])                       \* the extensions
        suites == Nums16(To(From(d1, 2), Num16(d1)))
        m == [type |-> "clientHello", vers |-> Num16(From(data, 4)), random |-> To(From(data, 6), RandomLen),
              sessionId |-> To(From(data, HelloLen + 1), idLen), suites |-> suites,
              compression |-> To(From(d2, 1), d2[1]), npn |-> FALSE, serverName |-> <<>>, ocsp |-> FALSE,
              curves |-> <<>>, points |-> <<>>, tickets |-> FALSE, ticket |-> <<>>, sigAlgs |-> <<>>,
              reneg |-> \E i \in DOMAIN suites : suites[i] = ScsvRenegotiation, renegData |-> <<>>,
              alpn |-> <<>>, scts |-> FALSE]
    IN  IF \/ Len(data) < HelloLen + 4 \/ idLen > MaxId \/ Len(data) < HelloLen + 1 + idLen
           \/ Len(d1) < 2 \/ Num16(d1) % 2 = 1 \/ Len(d1) < 2 + Num16(d1)
           \/ Len(d2) < 1 \/ Len(d2) < 1 + d2[1] \/ ExtensionsOf(d3) = Bad
        THEN Bad
        ELSE ClientHelloLoop(<<m>>, ExtensionsOf(d3)[1])

-----------------------------------------------------------------------------
(* serverHelloMsg *)

(* marshal: length, numExtensions and extensionsLength *)
ServerHelloSize(m) ==
    LET lengths == If(m.npn, <<Total(m.protos) + Len(m.protos)>>)
                   \o If(m.ocsp, <<0>>) \o If(m.tickets, <<0>>) \o If(m.reneg, <<1 + Len(m.renegData)>>)
                   \o If(m.alpn # <<>>, <<2 + 1 + Len(m.alpn)>>)
                   \o If(m.scts # <<>>, <<2 + Total(m.scts) + 2 * Len(m.scts)>>)
    IN  HelloLen + Len(m.sessionId)
        + (IF lengths # <<>> THEN 2 + FoldSeq(+, 0, lengths) + 4 * Len(lengths) ELSE 0)

(* marshal: the fixed fields and the extensions *)
ServerHelloBody(m) ==
    U16(m.vers) \o m.random \o Vec8(m.sessionId) \o U16(m.suite) \o <<m.compression>>
    \o WithExtensions(If(m.npn, Ext(ExtNextProtoNeg, Vecs8(m.protos)))
                      \o If(m.ocsp, Ext(ExtStatusRequest, <<>>))
                      \o If(m.tickets, Ext(ExtSessionTicket, <<>>))
                      \o If(m.reneg, Ext(ExtRenegotiationInfo, Vec8(m.renegData)))
                      \o If(m.alpn # <<>>, Ext(ExtALPN, Vec16(Vec8(m.alpn))))
                      \o If(m.scts # <<>>, Ext(ExtSCT, Vec16(Vecs16(m.scts)))))

(* unmarshal, one extension *)
ServerHelloExtension(m, id, d) ==
    CASE id = ExtNextProtoNeg ->
           LET protos == Items(d, 1, 1, 1)
           IN  When(protos # Bad, [m EXCEPT !.npn = TRUE, !.protos = @ \o protos[1]])
      [] id = ExtStatusRequest -> When(d = <<>>, [m EXCEPT !.ocsp = TRUE])
      [] id = ExtSessionTicket -> When(d = <<>>, [m EXCEPT !.tickets = TRUE])
      [] id = ExtRenegotiationInfo -> When(Whole8(d), [m EXCEPT !.renegData = From(d, 1), !.reneg = TRUE])
      [] id = ExtALPN ->
           When(Len(d) >= 3 /\ Whole16(d) /\ Whole8(From(d, 2)) /\ Len(d) > 3, [m EXCEPT !.alpn = From(d, 3)])
      [] id = ExtSCT ->
           LET scts == IF Whole16(d) /\ Len(d) > 2 THEN Items(From(d, 2), 2, 1, 2) ELSE Bad
           IN  When(scts # Bad, [m EXCEPT !.scts = scts[1]])
      [] OTHER -> <<m>>

(* unmarshal, the loop over the extensions of a server's hello *)
RECURSIVE ServerHelloLoop(_, _)
ServerHelloLoop(r, d) ==
    IF r = Bad \/ d = <<>> THEN r
    ELSE IF Len(d) < 4 \/ Len(d) - 4 < Num16(From(d, 2)) THEN Bad
    ELSE LET length == Num16(From(d, 2))
         IN  ServerHelloLoop(ServerHelloExtension(r[1], Num16(d), To(From(d, 4), length)), From(d, 4 + length))

(* unmarshal of a server's hello *)
UnmarshalServerHello(data) ==
    LET idLen == data[HelloLen + 1]
        d1 == From(data, HelloLen + 1 + idLen)          \* from the cipher suite on
        d2 == From(d1, 3)                               \* the extensions
        m == [type |-> "serverHello", vers |-> Num16(From(data, 4)), random |-> To(From(data, 6), RandomLen),
              sessionId |-> To(From(data, HelloLen + 1), idLen), suite |-> Num16(d1), compression |-> d1[3],
              npn |-> FALSE, protos |-> <<>>, ocsp |-> FALSE, tickets |-> FALSE, reneg |-> FALSE,
              renegData |-> <<>>, alpn |-> <<>>, scts |-> <<>>]
    IN  IF \/ Len(data) < HelloLen + 4 \/ idLen > MaxId \/ Len(data) < HelloLen + 1 + idLen
           \/ Len(d1) < 3 \/ ExtensionsOf(d2) = Bad
        THEN Bad
        ELSE ServerHelloLoop(<<m>>, ExtensionsOf(d2)[1])

-----------------------------------------------------------------------------
(* The other messages. Checked is the comparison of the header's length    *)
(* with the data that some of them make.                                   *)

Checked(data) == Len(data) >= 4 /\ Num24(From(data, 1)) = Len(data) - 4

CertificateSize(m) == 3 + 3 * Len(m.certs) + Total(m.certs)
CertificateBody(m) == Vec24(Vecs24(m.certs))

(* A certificate is looked for only where four bytes are left, so an empty *)
(* one at the end is refused.                                              *)
UnmarshalCertificate(data) ==
    LET certs == IF Len(data) >= 7 /\ Len(data) = Num24(From(data, 4)) + 7
                 THEN Items(From(data, 7), 3, 0, 4) ELSE Bad
    IN  When(certs # Bad, [type |-> "certificate", certs |-> certs[1]])

UnmarshalServerKeyExchange(data) ==
    When(Len(data) >= 4, [type |-> "serverKeyExchange", data |-> From(data, 4)])

CertificateStatusSize(m) == IF m.status = StatusTypeOCSP THEN Len(m.response) + 4 ELSE 1
CertificateStatusBody(m) ==
    <<m.status>> \o If(m.status = StatusTypeOCSP, Vec24(m.response))

UnmarshalCertificateStatus(data) ==
    IF Len(data) < 5 THEN Bad
    ELSE IF data[5] # StatusTypeOCSP THEN <<[type |-> "certificateStatus", status |-> data[5], response |-> <<>>]>>
    ELSE When(Len(data) >= 8 /\ Len(data) = 8 + Num24(From(data, 5)),
              [type |-> "certificateStatus", status |-> data[5], response |-> From(data, 8)])

UnmarshalServerHelloDone(data) == When(Len(data) = 4, [type |-> "serverHelloDone"])

UnmarshalClientKeyExchange(data) ==
    When(Checked(data), [type |-> "clientKeyExchange", data |-> From(data, 4)])

UnmarshalFinished(data) == When(Len(data) >= 4, [type |-> "finished", data |-> From(data, 4)])

(* The padding makes the message a multiple of 32 bytes. *)
NextProtoBody(m) ==
    LET padding == 32 - ((Len(m.proto) + 2) % 32)
    IN  Vec8(m.proto) \o <<padding>> \o [i \in 1..padding |-> 0]

UnmarshalNextProto(data) ==
    LET l == data[5]
        d == From(data, 5 + l)
    IN  When(Len(data) >= 5 /\ Len(data) - 5 >= l /\ Len(d) >= 1 /\ Len(d) - 1 = d[1],
             [type |-> "nextProto", proto |-> To(From(data, 5), l)])

CertificateRequestSize(m) ==
    1 + Len(m.kinds) + 2 + (2 * Len(m.cas) + Total(m.cas)) + (IF m.hasSig THEN 2 + 2 * Len(m.sigAlgs) ELSE 0)
CertificateRequestBody(m) ==
    Vec8(m.kinds) \o If(m.hasSig, Vec16(U16s(m.sigAlgs))) \o Vec16(Vecs16(m.cas))

(* unmarshal, from the list of authorities on: nothing may follow it. *)
AuthoritiesOf(d) ==
    IF Len(d) < 2 \/ Len(d) - 2 # Num16(d) THEN Bad ELSE Items(From(d, 2), 2, 0, 2)

UnmarshalCertificateRequest(data, hasSig) ==
    LET n == data[5]
        d1 == From(data, 5 + n)
        sig == IF hasSig THEN Num16(d1) ELSE 0
        d2 == IF hasSig THEN From(d1, 2 + sig) ELSE d1
        fits == /\ Len(data) >= 5 /\ Checked(data) /\ n # 0 /\ Len(data) - 5 > n
                /\ hasSig => Len(d1) >= 2 /\ sig % 2 = 0 /\ Len(d1) - 2 >= sig
    IN  When(fits /\ AuthoritiesOf(d2) # Bad,
             [type |-> "certificateRequest", hasSig |-> hasSig, kinds |-> To(From(data, 5), n),
              sigAlgs |-> IF hasSig THEN Nums16(To(From(d1, 2), sig)) ELSE <<>>, cas |-> AuthoritiesOf(d2)[1]])

(* The GM message has no signature algorithms. *)
CertificateRequestGMSize(m) == 1 + Len(m.kinds) + 2 + 2 * Len(m.cas) + Total(m.cas)
CertificateRequestGMBody(m) == Vec8(m.kinds) \o Vec16(Vecs16(m.cas))

UnmarshalCertificateRequestGM(data) ==
    LET n == data[5]
        d == From(data, 5 + n)
    IN  When(/\ Len(data) >= 5 /\ Checked(data) /\ n # 0 /\ Len(data) - 5 > n
             /\ AuthoritiesOf(d) # Bad,
             [type |-> "certificateRequestGM", kinds |-> To(From(data, 5), n), cas |-> AuthoritiesOf(d)[1]])

CertificateVerifySize(m) == 2 + Len(m.sig) + (IF m.hasSig THEN 2 ELSE 0)
CertificateVerifyBody(m) == If(m.hasSig, U16(m.alg)) \o Vec16(m.sig)

UnmarshalCertificateVerify(data, hasSig) ==
    LET d == From(data, IF hasSig THEN 6 ELSE 4)
    IN  When(Len(data) >= 6 /\ Checked(data) /\ Whole16(d),
             [type |-> "certificateVerify", hasSig |-> hasSig,
              alg |-> IF hasSig THEN Num16(From(data, 4)) ELSE 0, sig |-> From(d, 2)])

NewSessionTicketSize(m) == 2 + 4 + Len(m.ticket)
NewSessionTicketBody(m) == <<0, 0, 0, 0>> \o Vec16(m.ticket)

UnmarshalNewSessionTicket(data) ==
    When(Len(data) >= 10 /\ Checked(data) /\ Whole16(From(data, 8)),
         [type |-> "newSessionTicket", ticket |-> From(data, 10)])

UnmarshalHelloRequest(data) == When(Len(data) = 4, [type |-> "helloRequest"])

-----------------------------------------------------------------------------
TypeByte(type) ==
    CASE type = "helloRequest" -> 0 [] type = "clientHello" -> 1 [] type = "serverHello" -> 2
      [] type = "newSessionTicket" -> 4 [] type = "certificate" -> 11 [] type = "serverKeyExchange" -> 12
      [] type \in {"certificateRequest", "certificateRequestGM"} -> 13 [] type = "serverHelloDone" -> 14
      [] type = "certificateVerify" -> 15 [] type = "clientKeyExchange" -> 16 [] type = "finished" -> 20
      [] type = "certificateStatus" -> 22 [] type = "nextProto" -> 67

Size(m) ==
    CASE m.type = "clientHello" -> ClientHelloSize(m)
      [] m.type = "serverHello" -> ServerHelloSize(m)
      [] m.type = "certificate" -> CertificateSize(m)
      [] m.type = "certificateStatus" -> CertificateStatusSize(m)
      [] m.type = "certificateRequest" -> CertificateRequestSize(m)
      [] m.type = "certificateRequestGM" -> CertificateRequestGMSize(m)
      [] m.type = "certificateVerify" -> CertificateVerifySize(m)
      [] m.type = "newSessionTicket" -> NewSessionTicketSize(m)
      [] m.type = "nextProto" -> Len(NextProtoBody(m))
      [] m.type \in {"serverKeyExchange", "clientKeyExchange", "finished"} -> Len(m.data)
      [] OTHER -> 0

Body(m) ==
    CASE m.type = "clientHello" -> ClientHelloFields(m) \o WithExtensions(ClientHelloExtensions(m))
      [] m.type = "serverHello" -> ServerHelloBody(m)
      [] m.type = "certificate" -> CertificateBody(m)
      [] m.type = "certificateStatus" -> CertificateStatusBody(m)
      [] m.type = "certificateRequest" -> CertificateRequestBody(m)
      [] m.type = "certificateRequestGM" -> CertificateRequestGMBody(m)
      [] m.type = "certificateVerify" -> CertificateVerifyBody(m)
      [] m.type = "newSessionTicket" -> NewSessionTicketBody(m)
      [] m.type = "nextProto" -> NextProtoBody(m)
      [] m.type \in {"serverKeyExchange", "clientKeyExchange", "finished"} -> m.data
      [] OTHER -> <<>>

(* The length of a Finished is one byte, the two before it stay zero. *)
LengthBytes(m) == IF m.type = "finished" THEN <<0, 0, Len(m.data) % 256>> ELSE U24(Size(m))

Marshal(m) == <<TypeByte(m.type)>> \o LengthBytes(m) \o Body(m)

(* readHandshake picks the message by its type; hasSig is the version's. *)
Unmarshal(type, hasSig, data) ==
    CASE type = "clientHello" -> UnmarshalClientHello(data)
      [] type = "serverHello" -> UnmarshalServerHello(data)
      [] type = "certificate" -> UnmarshalCertificate(data)
      [] type = "certificateStatus" -> UnmarshalCertificateStatus(data)
      [] type = "certificateRequest" -> UnmarshalCertificateRequest(data, hasSig)
      [] type = "certificateRequestGM" -> UnmarshalCertificateRequestGM(data)
      [] type = "certificateVerify" -> UnmarshalCertificateVerify(data, hasSig)
      [] type = "newSessionTicket" -> UnmarshalNewSessionTicket(data)
      [] type = "nextProto" -> UnmarshalNextProto(data)
      [] type = "serverKeyExchange" -> UnmarshalServerKeyExchange(data)
      [] type = "clientKeyExchange" -> UnmarshalClientKeyExchange(data)
      [] type = "finished" -> UnmarshalFinished(data)
      [] type = "serverHelloDone" -> UnmarshalServerHelloDone(data)
      [] type = "helloRequest" -> UnmarshalHelloRequest(data)

HasSig(m) == "hasSig" \in DOMAIN m /\ m.hasSig

Init == \E m \in Messages : st = [sent |-> m, data |-> Marshal(m), how |-> "whole", n |-> 0]

(* Bytes are altered, the end is cut off, or something follows. *)
Alter ==
    /\ st.n < MaxAlter
    /\ \E i \in DOMAIN st.data, v \in Values :
          st' = [st EXCEPT !.data[i] = v, !.how = "altered", !.n = @ + 1]

Cut ==
    /\ st.how \in {"whole", "cut"} /\ st.data # <<>>
    /\ st' = [st EXCEPT !.data = Front(@), !.how = "cut"]

Grow ==
    /\ st.how = "whole"
    /\ \E v \in Values : st' = [st EXCEPT !.data = Append(@, v), !.how = "grown"]

Next == Alter \/ Cut \/ Grow

Result == Unmarshal(st.sent.type, HasSig(st.sent), st.data)

(* The bytes a marshal method writes are the bytes it has counted: more    *)
(* would be an index out of range, fewer would leave zeros at the end.     *)
SizeExact == Size(st.sent) = Len(Body(st.sent))

(* What arrives unaltered is what was sent, field by field. *)
RoundTrip == st.how = "whole" => Result = <<st.sent>>

(* A message that lost its end, or got one, is refused: all lengths in it  *)
(* are compared with what is there. ServerKeyExchange and Finished take    *)
(* whatever there is, a CertificateStatus of another type is not looked    *)
(* into, and a hello may end before its extensions.                        *)
NoSlack ==
    LET m == st.sent
        plain == HelloLen - 4 + 1 + Len(m.sessionId)
                 + (IF m.type = "clientHello" THEN 2 + 2 * Len(m.suites) + 1 + Len(m.compression) ELSE 3)
    IN  st.how \in {"cut", "grown"} /\ Result # Bad =>
            \/ m.type \in {"serverKeyExchange", "finished"}
            \/ m.type = "certificateStatus" /\ m.status # StatusTypeOCSP /\ st.how = "grown"
            \/ m.type \in {"clientHello", "serverHello"} /\ st.how = "cut" /\ Len(st.data) = 4 + plain

(* Whatever bytes unmarshal accepts, it makes a message of them that       *)
(* marshal can write and unmarshal reads as the same message again: no     *)
(* field takes a value that the encoding cannot carry.                     *)
DecodesStable ==
    Result # Bad => LET m == Result[1]
                    IN  Size(m) = Len(Body(m)) /\ Unmarshal(m.type, HasSig(m), Marshal(m)) = Result
=============================================================================
