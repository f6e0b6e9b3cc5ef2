---------------------------- MODULE MCAlgorithms ----------------------------
(***************************************************************************)
(* The algorithms and codecs, checked in one run: each behaviour is one of *)
(* one of them, the active one. The values of their parameters are here    *)
(* and in Algorithms.cfg, which has those of the pairing.                  *)
(***************************************************************************)
EXTENDS Bn256Api

VARIABLE
    active       \* the machine whose state st is

-----------------------------------------------------------------------------
(* Package bn256: the curve of the family for u = 1 and its twist *)

SmallTwistX == gfP2(98, 42)
SmallTwistY == gfP2(47, 88)
SmallNAF == <<0, 0, 0, 1>>
SmallOtherNAF == <<0, 0, 0, -1, 1>>
SmallPairs == {<<1, 1>>, <<2, 3>>, <<96, 48>>, <<0, 5>>, <<7, 97>>, <<33, 50>>}
SmallEncodings1 == ((0..5) \X (0..105)) \cup {<<1>>, <<2, 42, 0>>, <<205, 42>>}

(* The generator and its negative, a coordinate from P on, points off the  *)
(* twist and outside the subgroup, and wrong lengths                       *)
SmallEncodings2 ==
    {<<0, 0, 0, 0>>, <<0, 3, 17, 3>>, <<0, 7, 32, 37>>, <<98, 42, 47, 88>>, <<98, 42, 56, 15>>, <<98, 42, 47, 191>>,
     <<98, 42, 47, 89>>, <<0, 0, 0, 1>>, <<1>>, <<98, 42, 47, 88, 5>>}

-----------------------------------------------------------------------------
(* The messages of gmtls *)

Hello ==
    [type |-> "clientHello", vers |-> 771, random |-> <<7, 8>>, sessionId |-> <<>>, suites |-> <<57363, 5>>,
     compression |-> <<0>>, npn |-> FALSE, serverName |-> <<>>, ocsp |-> FALSE, curves |-> <<>>, points |-> <<>>,
     tickets |-> FALSE, ticket |-> <<>>, sigAlgs |-> <<>>, reneg |-> FALSE, renegData |-> <<>>, alpn |-> <<>>,
     scts |-> FALSE]
ServerHello ==
    [type |-> "serverHello", vers |-> 771, random |-> <<7, 8>>, sessionId |-> <<4>>, suite |-> 57363,
     compression |-> 0, npn |-> FALSE, protos |-> <<>>, ocsp |-> FALSE, tickets |-> FALSE, reneg |-> FALSE,
     renegData |-> <<>>, alpn |-> <<>>, scts |-> <<>>]
CertRequest ==
    [type |-> "certificateRequest", hasSig |-> TRUE, kinds |-> <<1, 64>>, sigAlgs |-> <<1025>>,
     cas |-> << <<9, 9>>, <<>> >>]
SampleMessages ==
    {Hello,
     [Hello EXCEPT !.sessionId = <<1, 2>>, !.serverName = <<97, 98>>, !.tickets = TRUE, !.ticket = <<5>>, !.reneg = TRUE],
     [Hello EXCEPT !.npn = TRUE, !.ocsp = TRUE, !.curves = <<23, 24>>, !.points = <<0>>, !.scts = TRUE],
     [Hello EXCEPT !.sigAlgs = <<1025, 1027>>, !.reneg = TRUE, !.renegData = <<3>>, !.alpn = << <<104>>, <<50, 49>> >>],
     ServerHello,
     [ServerHello EXCEPT !.npn = TRUE, !.protos = << <<104>>, <<50, 49>> >>, !.ocsp = TRUE, !.tickets = TRUE],
     [ServerHello EXCEPT !.reneg = TRUE, !.renegData = <<3>>, !.alpn = <<104, 50>>, !.scts = << <<1>>, <<2, 2>> >>],
     CertRequest, [CertRequest EXCEPT !.hasSig = FALSE, !.sigAlgs = <<>>],
     [type |-> "certificateRequestGM", kinds |-> <<1>>, cas |-> << <<9>> >>],
     [type |-> "certificate", certs |-> <<>>], [type |-> "certificate", certs |-> << <<>>, <<1, 2>> >>],
     [type |-> "certificateStatus", status |-> 1, response |-> <<6>>],
     [type |-> "certificateStatus", status |-> 2, response |-> <<>>],
     [type |-> "certificateVerify", hasSig |-> TRUE, alg |-> 1025, sig |-> <<8, 8>>],
     [type |-> "certificateVerify", hasSig |-> FALSE, alg |-> 0, sig |-> <<>>],
     [type |-> "newSessionTicket", ticket |-> <<4, 4>>], [type |-> "nextProto", proto |-> <<104>>],
     [type |-> "serverKeyExchange", data |-> <<1, 2, 3>>], [type |-> "clientKeyExchange", data |-> <<1, 2>>],
     [type |-> "finished", data |-> <<1, 2>>], [type |-> "serverHelloDone"], [type |-> "helloRequest"]}

TlsMessages == INSTANCE HandshakeMessages WITH
    RandomLen <- 2, MaxId <- 2, Messages <- SampleMessages, Values <- {0, 1, 2, 3, 5, 16, 35, 255}, MaxAlter <- 1

-----------------------------------------------------------------------------
(* Package rlp *)

Uint(bits) == [k |-> "uint", bits |-> bits]
ByteSlice == [k |-> "bytes"]
Bool == [k |-> "bool"]
Slice(elem) == [k |-> "slice", elem |-> elem]
Struct(fields) == [k |-> "struct", fields |-> fields]
ByteArray(n) == [k |-> "byteArray", len |-> n]
NilPtr(elem, nilKind) == [k |-> "nilPtr", elem |-> elem, nilKind |-> nilKind]
Repeat(n, b) == [i \in 1..n |-> b]
Bytes(b) == [list |-> FALSE, v |-> b]
List(l) == [list |-> TRUE, v |-> l]
SampleValues ==
    {<<Uint(32), 0>>, <<Uint(32), 127>>, <<Uint(32), 128>>, <<Uint(16), 256>>, <<Bool, TRUE>>, <<Bool, FALSE>>,
     <<[k |-> "bigInt"], 300>>, <<ByteSlice, <<>> >>, <<ByteSlice, <<0>> >>, <<ByteSlice, <<128>> >>,
     <<ByteSlice, Repeat(56, 7)>>,
     <<ByteArray(2), <<0, 1>> >>, <<ByteArray(1), <<0>> >>,
     <<Struct(<<ByteSlice, ByteArray(1), ByteArray(1)>>), << <<9>>, <<200>>, <<0>> >> >>,
     <<[k |-> "array", elem |-> ByteArray(1), len |-> 2], << <<0>>, <<5>> >> >>,
     <<Struct(<<ByteArray(2), NilPtr(ByteArray(1), "String"), Uint(8)>>), << <<0, 0>>, << <<9>> >>, 4>> >>,
     <<Slice(Uint(16)), <<>> >>, <<Slice(ByteSlice), <<Repeat(54, 1), <<200>> >> >>,
     <<Slice(Slice(Uint(16))), << <<1, 0>>, <<>> , <<500>> >> >>,
     <<[k |-> "array", elem |-> Uint(8), len |-> 2], <<5, 130>> >>,
     <<Struct(<<Uint(32), Struct(<<ByteSlice, Bool>>), [k |-> "tail", elem |-> Uint(8)]>>),
       <<1, << <<9, 9>>, TRUE>>, <<2, 0>> >> >>,
     <<Struct(<<NilPtr(Uint(8), "String"), NilPtr(Slice(Uint(8)), "List")>>), << <<>>, <<>> >> >>,
     <<Struct(<<NilPtr(Uint(8), "String"), NilPtr(Slice(Uint(8)), "List")>>), << <<3>>, << <<4>> >> >> >>,
     <<[k |-> "interface"], List(<<Bytes(<<1, 2>>), List(<<>>), List(<<Bytes(Repeat(56, 3))>>)>>)>>,
     <<Slice([k |-> "raw"]), << <<5>>, <<193, 4>> >> >>}

RlpValues == INSTANCE Rlp WITH
    Samples <- SampleValues, ReadSizes <- {1, 2, 7, 60},
    Values <- {0, 1, 127, 128, 129, 130, 183, 184, 185, 191, 192, 193, 194, 247, 248, 249, 255}

-----------------------------------------------------------------------------
(* Package x509: two roots of one name, the second with a limit and a key  *)
(* id; A and B, which also certify each other; an intermediate that is no  *)
(* authority, one with a name constraint and one that expires              *)

Authority(raw, subject, key, issuer, signer) ==
    [raw |-> raw, subject |-> subject, issuer |-> issuer, key |-> key, signer |-> signer, version |-> 3,
     basicConstraintsValid |-> TRUE, isCA |-> TRUE, maxPathLen |-> -1, keyUsage |-> {}, ski |-> "", aki |-> "",
     notBefore |-> 0, notAfter |-> 2, permitted |-> <<>>, dnsNames |-> <<>>, commonName |-> <<>>,
     ipAddresses |-> <<>>, extKeyUsage |-> {}, critical |-> {}]
ExCom == <<[dot |-> TRUE, labels |-> <<"ex", "com">>]>>
SampleCerts ==
    {Authority("R", "R", "r", "R", "r"),
     [Authority("R1", "R", "r", "R", "r") EXCEPT !.maxPathLen = 0, !.ski = "1"],
     Authority("A", "A", "a", "R", "r"), Authority("A2", "A", "a", "B", "b"),
     Authority("B", "B", "b", "R", "r"), Authority("B2", "B", "b", "A", "a"),
     [Authority("B3", "B", "b", "R", "r") EXCEPT !.notAfter = 1, !.aki = "1", !.extKeyUsage = {"ClientAuth"}],
     [Authority("N", "A", "a", "R", "r") EXCEPT !.isCA = FALSE, !.permitted = ExCom],
     [Authority("P", "A", "a", "R", "r") EXCEPT !.permitted = ExCom, !.keyUsage = {"CertSign"}]}
SampleLeaves ==
    {[Authority("l", "l", "l", "A", "a") EXCEPT !.isCA = FALSE, !.dnsNames = << <<"*", "ex", "com">> >>,
                                                !.extKeyUsage = {"ServerAuth", "ClientAuth"}],
     [Authority("m", "m", "m", "B", "b") EXCEPT !.isCA = FALSE, !.commonName = <<"ex", "com">>,
                                                !.ipAddresses = << <<"ip", "4">> >>],
     Authority("R", "R", "r", "R", "r")}
SampleOptions ==
    {[dnsName |-> d, now |-> n, keyUsages |-> u] : d \in {<<>>, <<"w", "ex", "com">>}, n \in {0, 2}, u \in {{"Any"}, {}}}
    \cup {[dnsName |-> <<"ip", "4">>, now |-> 1, keyUsages |-> {"ClientAuth", "ServerAuth"}]}
Denied == [readable |-> FALSE, blocks |-> <<>>, files |-> <<>>]
PemFile(blocks) == [readable |-> TRUE, blocks |-> blocks]

CertChains == INSTANCE CertVerify WITH
    Certs <- SampleCerts, Leaves <- SampleLeaves, Options <- SampleOptions, EntrustKey <- "entrust",
    SystemFiles <- <<Denied>>,
    SystemDirs <- <<Denied, [readable |-> TRUE,
                             files |-> <<PemFile(<<{}>>), Denied, PemFile(<<{Authority("R", "R", "r", "R", "r")}, {}>>)>>]>>,
    MaxRoots <- 2, MaxIntermediates <- 3

(* Templates, requests and BER *)

EmptyTemplate ==
    [subject |-> "leaf", serial |-> 1, keyUsage |-> 0, extKeyUsage |-> <<>>, unknownExtKeyUsage |-> <<>>,
     basicConstraintsValid |-> FALSE, isCA |-> FALSE, maxPathLen |-> 0, maxPathLenZero |-> FALSE, subjectKeyId |-> "",
     authorityKeyId |-> "", ocspServer |-> <<>>, issuingURL |-> <<>>, dnsNames |-> <<>>, emails |-> <<>>,
     ips |-> <<>>, policies |-> <<>>, permitted |-> <<>>, permittedCritical |-> FALSE, crlPoints |-> <<>>,
     extra |-> <<>>]
FullTemplate ==
    [EmptyTemplate EXCEPT
        !.extKeyUsage = <<"ServerAuth">>, !.unknownExtKeyUsage = <<"oid">>, !.subjectKeyId = "id", !.ocspServer = <<"o">>,
        !.issuingURL = <<"i", "j">>, !.dnsNames = <<"d">>, !.emails = <<"m">>, !.policies = <<"p">>,
        !.permitted = <<"n">>, !.permittedCritical = TRUE, !.crlPoints = <<"c">>,
        !.ips = <<[len |-> 16, mapped |-> TRUE, v |-> "a"], [len |-> 16, mapped |-> FALSE, v |-> "b"]>>]
Extension(id, critical, v) == [id |-> id, critical |-> critical, ok |-> TRUE, v |-> v]
DigitalSignature == Extension("keyUsage", TRUE, [bytes |-> <<128>>, bitLength |-> 1])
ExtraExtensions ==
    {<<DigitalSignature>>, <<Extension("other", TRUE, [raw |-> 0])>>,
     <<Extension("other", FALSE, [raw |-> 0]), DigitalSignature>>,
     <<Extension("subjectAltName", TRUE, [names |-> <<[tag |-> 6, v |-> "uri"]>>])>>,
     <<Extension("nameConstraints", TRUE, [permitted |-> <<"">>, excluded |-> <<>>])>>,
     <<Extension("nameConstraints", FALSE, [permitted |-> <<"", "x">>, excluded |-> <<"y">>])>>,
     <<[DigitalSignature EXCEPT !.ok = FALSE]>>}
SampleTemplates ==
    {[EmptyTemplate EXCEPT !.keyUsage = u] : u \in {0, 1, 2, 32, 96, 128, 256, 257, 511}}
    \cup {[EmptyTemplate EXCEPT !.serial = 0]}
    \cup {[b EXCEPT !.basicConstraintsValid = v, !.isCA = ca, !.maxPathLen = n, !.maxPathLenZero = z] :
             b \in {EmptyTemplate, FullTemplate}, v \in BOOLEAN, ca \in BOOLEAN, n \in {-1, 0, 2}, z \in BOOLEAN}
    \cup {[FullTemplate EXCEPT !.keyUsage = 5, !.extra = x] : x \in ExtraExtensions}
EmptyRequest == [subject |-> "req", dnsNames |-> <<>>, extra |-> <<>>, attributes |-> <<>>]
SampleRequests ==
    {EmptyRequest, [EmptyRequest EXCEPT !.extra = <<DigitalSignature>>],
     [EmptyRequest EXCEPT !.attributes =
         <<[type |-> "challenge", value |-> <<Extension("other", FALSE, [raw |-> 0])>>],
           [type |-> "extensionRequest", value |-> <<[DigitalSignature EXCEPT !.critical = FALSE]>>]>>]}
SampleKeys ==
    {[type |-> "rsa", curve |-> "", id |-> "k"], [type |-> "ecdsa", curve |-> "P384", id |-> "k"],
     [type |-> "sm2", curve |-> "SM2", id |-> "k"], [type |-> "dsa", curve |-> "", id |-> "k"]}
Encoded(algo, params, numbers) == [algo |-> algo, params |-> params, numbers |-> numbers, id |-> "other"]
SampleForeignKeys ==
    {Encoded("RSA", "NULL", "good"), Encoded("RSA", "", "good"), Encoded("DSA", "pqg", "good"),
     Encoded("ECDSA", "P224", "good"), Encoded("ECDSA", "P25519", "good"), Encoded("ECDSA", "SM2", "off the curve"),
     Encoded("other", "", "good")}
SampleAlgorithms ==
    {"", "MD2WithRSA", "SHA1WithRSA", "SHA512WithRSA", "SHA256WithRSAPSS", "SHA512WithRSAPSS", "DSAWithSHA1",
     "ECDSAWithSHA1", "ECDSAWithSHA384", "SM2WithSM3", "SM2WithSHA1", "SHA3"}

(* Indefinite lengths, also nested, lengths longer than needed, a long tag *)
(* and contents of 128 bytes                                               *)
SampleEncodings ==
    {<<48, 128, 2, 1, 5, 0, 0>>, <<48, 6, 2, 1, 5, 4, 1, 9>>, <<48, 129, 3, 2, 1, 5>>, <<63, 129, 2, 3, 2, 1, 5>>,
     <<48, 128, 48, 128, 4, 1, 1, 0, 0, 4, 0, 0, 0>>, <<48, 130, 0, 131, 4, 129, 128>> \o Repeat(128, 7),
     <<48, 129, 131, 4, 129, 128>> \o Repeat(128, 7), <<48, 0>>, <<36, 128, 4, 2, 1, 2, 4, 1, 3, 0, 0>>}

CertDocs == INSTANCE CertCodec WITH
    Templates <- SampleTemplates, Requests <- SampleRequests, Names <- {<<"d">>, <<"d", "e">>, <<>>},
    Keys <- SampleKeys, ForeignKeys <- SampleForeignKeys, Algorithms <- SampleAlgorithms, Encodings <- SampleEncodings,
    Values <- {0, 1, 2, 4, 31, 36, 48, 127, 128, 129, 130, 132, 133, 255}

-----------------------------------------------------------------------------
AllInit ==
    \/ active = "messages" /\ TlsMessages!Init
    \/ active = "rlp" /\ RlpValues!Init
    \/ active = "chains" /\ CertChains!Init
    \/ active = "codec" /\ CertDocs!Init
    \/ active = "pairing" /\ Init

AllNext ==
    /\ UNCHANGED active
    /\ \/ active = "messages" /\ TlsMessages!Next
       \/ active = "rlp" /\ RlpValues!Next
       \/ active = "chains" /\ CertChains!Next
       \/ active = "codec" /\ CertDocs!Next
       \/ active = "pairing" /\ Next

Spec == AllInit /\ [][AllNext]_<<active, st>>

-----------------------------------------------------------------------------
(* Handshake messages, marshal and unmarshal: the bytes written are the    *)
(* bytes counted, what arrives unaltered is what was sent, a message that  *)
(* lost its end or got one is refused, and whatever is accepted can be     *)
(* written and read again.                                                 *)
MessagesExact ==
    active = "messages" =>
        /\ TlsMessages!SizeExact
        /\ TlsMessages!RoundTrip
        /\ TlsMessages!NoSlack
        /\ TlsMessages!DecodesStable

(* rlp, encbuf and encReader: the buffer with its list headers apart       *)
(* yields the encoding and its size, readers with buffers of any sizes get *)
(* it once, and it decodes to what was encoded.                            *)
RlpEncodes ==
    active = "rlp" =>
        /\ RlpValues!EncodingExact
        /\ RlpValues!ReaderExact
        /\ RlpValues!RoundTrip

(* rlp, Stream and raw.go, on bytes of any origin: no list is left behind  *)
(* its end, bytes that decode are the encoding of the value they decode    *)
(* to (but for zero byte arrays in lists), and Split and CountValues see   *)
(* what the Stream sees.                                                   *)
RlpDecodes ==
    active = "rlp" =>
        /\ RlpValues!StreamInBounds
        /\ RlpValues!Canonical
        /\ RlpValues!RawAgrees

(* x509, Verify and buildChains: every chain returned proves the           *)
(* certificate, and the cache of the search loses none that has a chain.   *)
ChainsExact ==
    active = "chains" =>
        /\ CertChains!ChainsProve
        /\ CertChains!SearchComplete

(* x509: what a template says is what is parsed from the certificate made  *)
(* of it, a request asks for the names of its template, used again or not, *)
(* and the result of ber2der converts to itself.                           *)
DocumentsKept ==
    active = "codec" =>
        /\ CertDocs!TemplateKept
        /\ CertDocs!RequestNames
        /\ CertDocs!DerStable

(* x509: SignedVerifies, what is created with a fitting algorithm verifies *)
(* with the signer's key, and not when it was changed.                     *)
CertSignedVerifies == active = "codec" => CertDocs!SignedVerifies

(* bn256, the groups: any sequence of operations yields the multiple of    *)
(* the generator its exponent says, in either library, no part of a        *)
(* decomposed scalar is negative, and Unmarshal accepts exactly the        *)
(* encodings of elements.                                                  *)
PairingGroups ==
    active = "pairing" =>
        /\ GroupLaw
        /\ PartsAreNatural
        /\ EncodingExact

(* bn256, the pairing: it follows the exponents in both libraries,         *)
(* PairingCheck is one exactly when they cancel, squares, inverses and     *)
(* Frobenius maps of gfP12 are what their names say, and another           *)
(* signed-digit form of the loop counter gives the same pairing.           *)
PairingBilinear ==
    active = "pairing" =>
        /\ Bilinear
        /\ CheckExact
        /\ FieldsAgree
        /\ DigitsImmaterial
=============================================================================
