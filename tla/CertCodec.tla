----------------------------- MODULE CertCodec ------------------------------
(***************************************************************************)
(* Package x509 of gmsm: the choice of signature algorithms, the building  *)
(* and the parsing of certificates, requests and revocation lists          *)
(* (x509.go, utils.go) and the conversion of BER to DER (ber.go). What     *)
(* encoding/asn1 makes of a structure is that structure, with ok FALSE for *)
(* bytes that do not parse; a digest is the hash with what was hashed.     *)
(***************************************************************************)
EXTENDS Integers, Sequences, SequencesExt, Bitwise

CONSTANTS
    Templates,    \* certificate templates
    Requests,     \* request templates
    Names,        \* DNS names a caller may put into a request template
    Keys,         \* signers: [type, curve]
    ForeignKeys,  \* encoded public keys that replace the one of a document
    Algorithms,   \* requested signature algorithms, "" for UnknownSignatureAlgorithm
    Encodings,    \* BER encodings
    Values        \* bytes an alteration of one of them writes

VARIABLE st

-----------------------------------------------------------------------------
(* Signature algorithms *)

(* signatureAlgorithmDetails *)
D(algo, oid, pub, hash) == [algo |-> algo, oid |-> oid, pub |-> pub, hash |-> hash]
SignatureAlgorithmDetails ==
    <<D("MD2WithRSA", "MD2WithRSA", "RSA", ""), D("MD5WithRSA", "MD5WithRSA", "RSA", "MD5"),
      D("SHA1WithRSA", "SHA1WithRSA", "RSA", "SHA1"), D("SHA1WithRSA", "ISOSHA1WithRSA", "RSA", "SHA1"),
      D("SHA256WithRSA", "SHA256WithRSA", "RSA", "SHA256"), D("SHA384WithRSA", "SHA384WithRSA", "RSA", "SHA384"),
      D("SHA512WithRSA", "SHA512WithRSA", "RSA", "SHA512"),
      D("SHA256WithRSAPSS", "RSAPSS", "RSA", "SHA256"), D("SHA384WithRSAPSS", "RSAPSS", "RSA", "SHA384"),
      D("SHA512WithRSAPSS", "RSAPSS", "RSA", "SHA512"),
      D("DSAWithSHA1", "DSAWithSHA1", "DSA", "SHA1"), D("DSAWithSHA256", "DSAWithSHA256", "DSA", "SHA256"),
      D("ECDSAWithSHA1", "ECDSAWithSHA1", "ECDSA", "SHA1"), D("ECDSAWithSHA256", "ECDSAWithSHA256", "ECDSA", "SHA256"),
      D("ECDSAWithSHA384", "ECDSAWithSHA384", "ECDSA", "SHA384"), D("ECDSAWithSHA512", "ECDSAWithSHA512", "ECDSA", "SHA512"),
      D("SM2WithSM3", "SM2WithSM3", "ECDSA", "SM3"), D("SM2WithSHA1", "SM2WithSHA1", "ECDSA", "SHA1"),
      D("SM2WithSHA256", "SM2WithSHA256", "ECDSA", "SHA256")>>

IsRSAPSS(algo) == algo \in {"SHA256WithRSAPSS", "SHA384WithRSAPSS", "SHA512WithRSAPSS"}

DigestSize(hash) ==
    CASE hash \in {"SHA256", "SM3"} -> 32 [] hash = "SHA384" -> 48 [] hash = "SHA512" -> 64 [] hash = "SHA1" -> 20
      [] hash = "MD5" -> 16

RsaPSSParameters(hash) == [hash |-> hash, mgf1Hash |-> hash, saltLength |-> DigestSize(hash), trailer |-> 1]

NoParams == [hash |-> "", mgf1Hash |-> "", saltLength |-> 0, trailer |-> 0]

(* getSignatureAlgorithmFromAI *)
GetSignatureAlgorithmFromAI(ai) ==
    LET known == SelectSeq(SignatureAlgorithmDetails, LAMBDA d : d.oid = ai.oid)
        p == ai.params
    IN  IF ai.oid # "RSAPSS" THEN IF known = <<>> THEN "" ELSE known[1].algo
        ELSE IF p.mgf1Hash # p.hash \/ p.trailer # 1 THEN ""
        ELSE IF p.hash = "SHA256" /\ p.saltLength = 32 THEN "SHA256WithRSAPSS"
        ELSE IF p.hash = "SHA384" /\ p.saltLength = 48 THEN "SHA384WithRSAPSS"
        ELSE IF p.hash = "SHA512" /\ p.saltLength = 64 THEN "SHA512WithRSAPSS"
        ELSE ""

(* signingParamsForPublicKey: [err, hash, ai] *)
SigningParamsForPublicKey(pub, requested) ==
    LET ret(err, hash, oid, params) == [err |-> err, hash |-> hash, ai |-> [oid |-> oid, params |-> params]]
        default == CASE pub.type = "rsa" -> <<"RSA", "SHA256", "SHA256WithRSA">>
                     [] pub.type = "ecdsa" /\ pub.curve \in {"P224", "P256"} -> <<"ECDSA", "SHA256", "ECDSAWithSHA256">>
                     [] pub.type = "ecdsa" /\ pub.curve = "P384" -> <<"ECDSA", "SHA384", "ECDSAWithSHA384">>
                     [] pub.type = "ecdsa" /\ pub.curve = "P521" -> <<"ECDSA", "SHA512", "ECDSAWithSHA512">>
                     [] pub.type = "sm2" /\ pub.curve = "SM2" -> <<"ECDSA", "SM3", "SM2WithSM3">>
                     [] OTHER -> <<>>
        found == SelectSeq(SignatureAlgorithmDetails, LAMBDA d : d.algo = requested)
    IN  IF default = <<>> THEN ret("unknown curve or key", "", "", NoParams)
        ELSE IF requested = "" THEN ret("", default[2], default[3], NoParams)
        ELSE IF found = <<>> THEN ret("unknown SignatureAlgorithm", "", "", NoParams)
        ELSE IF found[1].pub # default[1] THEN ret("does not match private key type", "", "", NoParams)
        ELSE IF found[1].hash = "" THEN ret("cannot sign with hash function requested", "", "", NoParams)
        ELSE ret("", found[1].hash, found[1].oid,
                 IF IsRSAPSS(requested) THEN RsaPSSParameters(found[1].hash) ELSE NoParams)

(* h.Write and h.Sum; "" is the content itself *)
Digest(hash, content) == [hash |-> hash, content |-> content]

(* The signers: RSA refuses what is no digest of the hash it is told, SM2  *)
(* hashes what it is given and looks at no option.                         *)
Sign(key, digest, hash, pss) ==
    IF key.type = "rsa" /\ digest.hash # hash THEN [err |-> "length", by |-> key, over |-> digest, pss |-> pss]
    ELSE [err |-> "", by |-> key, over |-> digest, pss |-> key.type = "rsa" /\ pss]

NamedCurves == {"P224", "P256", "P384", "P521", "SM2"}

(* marshalPublicKey, of a key on a named curve or of RSA: the parameters   *)
(* are the curve, or NULL. numbers stands for the numbers of the key.      *)
MarshalPublicKey(pub) ==
    IF pub.type = "rsa" THEN [algo |-> "RSA", params |-> "NULL", numbers |-> "good", id |-> pub.id]
    ELSE [algo |-> "ECDSA", params |-> pub.curve, numbers |-> "good", id |-> pub.id]

(* parsePublicKey: a key of SM2 comes back as an ECDSA key on its curve,   *)
(* and a key of an unknown algorithm as nil.                               *)
ParsePublicKey(k) ==
    LET ret(type, curve) == [err |-> "", type |-> type, curve |-> curve, id |-> k.id]
        bad == [err |-> "public key", type |-> "nil", curve |-> "", id |-> k.id]
    IN  CASE k.algo = "RSA" -> IF k.params = "NULL" /\ k.numbers = "good" THEN ret("rsa", "") ELSE bad
          [] k.algo = "DSA" -> IF k.numbers = "good" THEN ret("dsa", "") ELSE bad
          [] k.algo = "ECDSA" -> IF k.params \in NamedCurves /\ k.numbers = "good" THEN ret("ecdsa", k.params) ELSE bad
          [] OTHER -> ret("nil", "")

(* checkSignature: "" or an error *)
CheckSignature(algo, signed, sig, pub) ==
    LET hash == CASE algo \in {"SHA1WithRSA", "DSAWithSHA1", "ECDSAWithSHA1", "SM2WithSHA1"} -> "SHA1"
                  [] algo \in {"SHA256WithRSA", "SHA256WithRSAPSS", "DSAWithSHA256", "ECDSAWithSHA256", "SM2WithSHA256"} -> "SHA256"
                  [] algo \in {"SHA384WithRSA", "SHA384WithRSAPSS", "ECDSAWithSHA384"} -> "SHA384"
                  [] algo \in {"SHA512WithRSA", "SHA512WithRSAPSS", "ECDSAWithSHA512"} -> "SHA512"
                  [] algo = "SM2WithSM3" -> "SM3"
                  [] OTHER -> ""
        over == IF pub.type = "ecdsa" /\ pub.curve = "SM2" THEN Digest("", signed) ELSE Digest(hash, signed)
        good == sig.by.id = pub.id /\ sig.over = over /\ (pub.type = "rsa" => sig.pss = IsRSAPSS(algo))
    IN  IF algo \in {"MD2WithRSA", "MD5WithRSA"} THEN "insecure"
        ELSE IF hash = "" \/ pub.type = "nil" THEN "unsupported"
        ELSE IF good THEN "" ELSE "verification"

-----------------------------------------------------------------------------
(* Extensions *)

Ext(id, critical, v) == [id |-> id, critical |-> critical, ok |-> TRUE, v |-> v]

(* Mutant: the last pair of bits is not swapped. *)
ReverseBitsInAByteTwo(in) ==
    LET b1 == shiftR(in, 4) | ((in * 16) % 256)
    IN  (shiftR(b1, 2) & 51) | (((b1 * 4) % 256) & 204)

ReverseBitsInAByte(in) ==
    LET b1 == shiftR(in, 4) | ((in * 16) % 256)
        b2 == (shiftR(b1, 2) & 51) | (((b1 * 4) % 256) & 204)
    IN  (shiftR(b2, 1) & 85) | (((b2 * 2) % 256) & 170)

(* bit i of a bit string, as BitString.At reads it *)
BitOf(bytes, i) == (bytes[i \div 8 + 1] \div 2^(7 - (i % 8))) % 2

(* asn1BitLength: up to the last bit that is set *)
Asn1BitLength(bytes) ==
    LET set == {i \in 0..(8 * Len(bytes) - 1) : BitOf(bytes, i) = 1}
    IN  IF set = {} THEN 0 ELSE 1 + (CHOOSE i \in set : \A j \in set : j <= i)

KeyUsageBits(usage) ==
    LET low == ReverseBitsInAByte(usage % 256)
        high == ReverseBitsInAByte(usage \div 256)
        bitString(bytes) == [bytes |-> bytes, bitLength |-> Asn1BitLength(bytes)]
    IN  bitString(IF high # 0 THEN <<low, high>> ELSE <<low>>)

OidInExtensions(id, extensions) == \E i \in DOMAIN extensions : extensions[i].id = id

Tagged(tag, s) == [i \in DOMAIN s |-> [tag |-> tag, v |-> s[i]]]

(* marshalSANs; To4 makes an IPv4 address of an IPv6 one that contains it. *)
To4(ip) == IF ip.mapped THEN [len |-> 4, mapped |-> FALSE, v |-> ip.v] ELSE ip
MarshalSANs(dns, emails, ips) ==
    Tagged(2, dns) \o Tagged(1, emails) \o Tagged(7, [i \in DOMAIN ips |-> To4(ips[i])])

(* buildExtensions: each extension unless ExtraExtensions has one of its id *)
BuildExtensions(t) ==
    LET maxPathLen == IF t.maxPathLen = 0 /\ ~t.maxPathLenZero THEN -1 ELSE t.maxPathLen
        known ==
          <<[on |-> t.keyUsage # 0, e |-> Ext("keyUsage", TRUE, KeyUsageBits(t.keyUsage))],
            [on |-> t.extKeyUsage \o t.unknownExtKeyUsage # <<>>,
             e |-> Ext("extKeyUsage", FALSE, [purposes |-> Tagged("known", t.extKeyUsage) \o Tagged("unknown", t.unknownExtKeyUsage)])],
            [on |-> t.basicConstraintsValid,
             e |-> Ext("basicConstraints", TRUE, [isCA |-> t.isCA, maxPathLen |-> maxPathLen])],
            [on |-> t.subjectKeyId # "", e |-> Ext("subjectKeyId", FALSE, [keyid |-> t.subjectKeyId])],
            [on |-> t.authorityKeyId # "", e |-> Ext("authorityKeyId", FALSE, [id |-> t.authorityKeyId])],
            [on |-> t.ocspServer \o t.issuingURL # <<>>,
             e |-> Ext("authorityInfoAccess", FALSE, [aia |-> Tagged("ocsp", t.ocspServer) \o Tagged("issuers", t.issuingURL)])],
            [on |-> t.dnsNames \o t.emails # <<>> \/ t.ips # <<>>,
             e |-> Ext("subjectAltName", FALSE, [names |-> MarshalSANs(t.dnsNames, t.emails, t.ips)])],
            [on |-> t.policies # <<>>, e |-> Ext("certificatePolicies", FALSE, [policies |-> t.policies])],
            [on |-> t.permitted # <<>>,
             e |-> Ext("nameConstraints", t.permittedCritical, [permitted |-> t.permitted, excluded |-> <<>>])],
            [on |-> t.crlPoints # <<>>, e |-> Ext("crlDistributionPoints", FALSE, [cdp |-> Tagged(6, t.crlPoints)])]>>
        extensions(kept) == [i \in DOMAIN kept |-> kept[i].e]
    IN  extensions(SelectSeq(known, LAMBDA k : k.on /\ ~OidInExtensions(k.e.id, t.extra))) \o t.extra

(* parseSANExtension: other kinds of names are skipped. *)
NamesOf(v, tag) == LET s == SelectSeq(v, LAMBDA n : n.tag = tag) IN [i \in DOMAIN s |-> s[i].v]
BadIP(v) == \E i \in DOMAIN v : v[i].tag = 7 /\ v[i].v.len \notin {4, 16}

(* parseCertificate, case 15: the first nine bits *)
ParseKeyUsage(out, e) ==
    LET bit(i) == IF i < e.v.bitLength THEN BitOf(e.v.bytes, i) * 2^i ELSE 0
    IN  [out EXCEPT !.keyUsage = FoldLeft(LAMBDA u, i : u + bit(i - 1), 0, [i \in 1..9 |-> i])]

(* case 19 *)
ParseBasicConstraints(out, e) ==
    [out EXCEPT !.basicConstraintsValid = TRUE, !.isCA = e.v.isCA, !.maxPathLen = e.v.maxPathLen,
                !.maxPathLenZero = e.v.maxPathLen = 0]

Unhandled(out, e) == [out EXCEPT !.unhandled = IF e.critical THEN Append(@, e.id) ELSE @]

(* case 17: the names replace earlier ones; none at all is unhandled. *)
ParseSubjectAltName(out, e) ==
    LET new == [out EXCEPT !.dnsNames = NamesOf(e.v.names, 2), !.emails = NamesOf(e.v.names, 1),
                           !.ips = NamesOf(e.v.names, 7)]
    IN  IF new.dnsNames \o new.emails = <<>> /\ new.ips = <<>> THEN Unhandled(new, e) ELSE new

(* case 30: excluded names, or names of another kind, when critical *)
NamesNotUnderstood(e) ==
    e.critical /\ (e.v.excluded # <<>> \/ \E i \in DOMAIN e.v.permitted : e.v.permitted[i] = "")
ParseNameConstraints(out, e) == [out EXCEPT !.permitted = @ \o SelectSeq(e.v.permitted, LAMBDA n : n # "")]

(* parseCertificate, one extension; id "other" is one it does not know. *)
ParseExtension(acc, e) ==
    LET out == acc.out
        set(new) == [acc EXCEPT !.out = new]
    IN  IF acc.err # "" THEN acc
        ELSE IF e.id = "other" THEN set(Unhandled(out, e))
        ELSE IF ~e.ok THEN [acc EXCEPT !.err = "extension"]
        ELSE CASE e.id = "keyUsage" -> set(ParseKeyUsage(out, e))
               [] e.id = "basicConstraints" -> set(ParseBasicConstraints(out, e))
               [] e.id = "subjectAltName" ->
                    IF BadIP(e.v.names) THEN [acc EXCEPT !.err = "extension"] ELSE set(ParseSubjectAltName(out, e))
               [] e.id = "nameConstraints" ->
                    IF NamesNotUnderstood(e) THEN [acc EXCEPT !.err = "unhandled"] ELSE set(ParseNameConstraints(out, e))
               [] e.id = "crlDistributionPoints" -> set([out EXCEPT !.crlPoints = @ \o NamesOf(e.v.cdp, 6)])
               [] e.id = "authorityKeyId" -> set([out EXCEPT !.authorityKeyId = e.v.id])
               [] e.id = "subjectKeyId" -> set([out EXCEPT !.subjectKeyId = e.v.keyid])
               [] e.id = "extKeyUsage" ->
                    set([out EXCEPT !.extKeyUsage = @ \o NamesOf(e.v.purposes, "known"),
                                    !.unknownExtKeyUsage = @ \o NamesOf(e.v.purposes, "unknown")])
               [] e.id = "certificatePolicies" -> set([out EXCEPT !.policies = e.v.policies])
               [] e.id = "authorityInfoAccess" ->
                    set([out EXCEPT !.ocspServer = @ \o NamesOf(e.v.aia, "ocsp"), !.issuingURL = @ \o NamesOf(e.v.aia, "issuers")])

(* new(Certificate) with what is no extension *)
NewCertificate(subject) ==
    [subject |-> subject, keyUsage |-> 0, extKeyUsage |-> <<>>, unknownExtKeyUsage |-> <<>>, basicConstraintsValid |-> FALSE,
     isCA |-> FALSE, maxPathLen |-> 0, maxPathLenZero |-> FALSE, subjectKeyId |-> "", authorityKeyId |-> "",
     ocspServer |-> <<>>, issuingURL |-> <<>>, dnsNames |-> <<>>, emails |-> <<>>, ips |-> <<>>, policies |-> <<>>,
     permitted |-> <<>>, crlPoints |-> <<>>, unhandled |-> <<>>]

(* parseCertificate: [err, out, algo, pub] *)
ParseCertificate(doc) ==
    LET pub == ParsePublicKey(doc.tbs.pub)
        r == FoldLeft(ParseExtension, [err |-> pub.err, out |-> NewCertificate(doc.tbs.subject)], doc.tbs.extensions)
    IN  [err |-> r.err, out |-> r.out, algo |-> GetSignatureAlgorithmFromAI(doc.tbs.ai), pub |-> pub]

-----------------------------------------------------------------------------
(* Creation *)

Failed(kind, err) == [kind |-> kind, err |-> err]

(* Mutant: what is signed is always hashed first. *)
ToBeSignedHashed(algo, hash, content, plain) == Digest(hash, content)

(* The switch in front of each signing: for some algorithms the content    *)
(* itself is signed, as SM2 hashes it.                                     *)
ToBeSigned(algo, hash, content, plain) == IF algo \in plain THEN Digest("", content) ELSE Digest(hash, content)

(* The end of each creation: no document without a signature *)
Signed(kind, p, tbs, sig) ==
    IF sig.err # "" THEN Failed(kind, sig.err) ELSE [kind |-> kind, err |-> "", tbs |-> tbs, ai |-> p.ai, sig |-> sig]

(* The template a document was made of is kept beside it. *)
From(template, doc) == IF doc.err = "" THEN doc @@ [template |-> template] ELSE doc

(* CreateCertificate (utils.go) for a public key of SM2; the template is   *)
(* given the parent's key id.                                              *)
Named(t, parent) ==
    IF parent.subject # t.subject /\ parent.subjectKeyId # ""
    THEN [t EXCEPT !.authorityKeyId = parent.subjectKeyId] ELSE t
CertificateTbs(t, parent, pub, p) ==
    [subject |-> t.subject, issuer |-> parent.subject, ai |-> p.ai, pub |-> MarshalPublicKey(pub),
     extensions |-> BuildExtensions(t)]
SignCertificate(p, tbs, signer, algo) ==
    Signed("cert", p, tbs,
           Sign(signer, ToBeSigned(algo, p.hash, tbs, {"SM2WithSM3", "SM2WithSHA1", "SM2WithSHA256"}), p.hash, IsRSAPSS(algo)))
CreateCertificate(t, parent, pub, signer, algo) ==
    LET create(p, named) == IF p.err # "" THEN Failed("cert", p.err)
                            ELSE From(named, SignCertificate(p, CertificateTbs(named, parent, pub, p), signer, algo))
    IN  IF t.serial = 0 THEN Failed("cert", "no SerialNumber given")
        ELSE create(SigningParamsForPublicKey(signer, algo), Named(t, parent))

(* CreateCRL: the algorithm is always the default of the key. *)
SignCRL(p, tbs, signer) ==
    Signed("crl", p, tbs, Sign(signer, IF p.hash = "SM3" THEN Digest("", tbs) ELSE Digest(p.hash, tbs), p.hash, FALSE))
CreateCRL(c, signer, revoked) ==
    LET create(p) == IF p.err # "" THEN Failed("crl", p.err)
                     ELSE SignCRL(p, [issuer |-> c.subject, revoked |-> revoked, aki |-> c.subjectKeyId], signer)
    IN  create(SigningParamsForPublicKey(signer, ""))

ExtensionRequest == "extensionRequest"

(* The attributes of a request, with the extensions added to the one that  *)
(* requests extensions, or in one of their own. The first case writes into *)
(* the slices of the template.                                             *)
RequestAttributes(t) ==
    LET san == IF t.dnsNames # <<>> /\ ~OidInExtensions("subjectAltName", t.extra)
               THEN <<Ext("subjectAltName", FALSE, [names |-> MarshalSANs(t.dnsNames, <<>>, <<>>)])>> ELSE <<>>
        specified == {a.value[j].id : <<a, j>> \in {<<x, k>> \in Range(t.attributes) \X (1..4) :
                                                        x.type = ExtensionRequest /\ k \in DOMAIN x.value}}
        wanted == SelectSeq(san \o t.extra, LAMBDA e : e.id \notin specified)
        atvs == [i \in DOMAIN wanted |-> Ext(wanted[i].id, FALSE, wanted[i].v)]
        own == SelectInSeq(t.attributes, LAMBDA a : a.type = ExtensionRequest /\ a.value # <<>>)
    IN  IF san \o t.extra = <<>> THEN t.attributes
        ELSE IF own # 0 THEN [t.attributes EXCEPT ![own].value = @ \o atvs]
        ELSE Append(t.attributes, [type |-> ExtensionRequest, value |-> atvs])

(* CreateCertificateRequest; what is written into the attributes of the    *)
(* template stays in it.                                                   *)
SignRequest(p, tbs, signer, algo) ==
    Signed("csr", p, tbs,
           Sign(signer, ToBeSigned(algo, p.hash, tbs, {"SM2WithSM3", "SM2WithSHA1", "SM2WithSHA256", ""}), p.hash, FALSE))
CreateCertificateRequest(t, signer, algo) ==
    LET written(attributes) == IF Len(attributes) = Len(t.attributes) THEN [t EXCEPT !.attributes = attributes] ELSE t
        create(p, attributes) ==
            IF p.err # "" THEN Failed("csr", p.err)
            ELSE From(written(attributes),
                      SignRequest(p, [subject |-> t.subject, pub |-> MarshalPublicKey(signer), attributes |-> attributes],
                                  signer, algo))
    IN  create(SigningParamsForPublicKey(signer, algo), RequestAttributes(t))

(* parseCSRExtensions: of every attribute that requests extensions *)
ParseCSRExtensions(attributes) ==
    FlattenSeq([i \in DOMAIN attributes |-> IF attributes[i].type = ExtensionRequest THEN attributes[i].value ELSE <<>>])

(* parseCertificateRequest; a later list of names replaces an earlier one. *)
ParseCertificateRequest(doc) ==
    LET exts == ParseCSRExtensions(doc.tbs.attributes)
        sans == SelectSeq(exts, LAMBDA e : e.id = "subjectAltName")
        pub == ParsePublicKey(doc.tbs.pub)
    IN  [err |-> pub.err, algo |-> GetSignatureAlgorithmFromAI(doc.ai), pub |-> pub, extensions |-> exts,
         dnsNames |-> IF sans = <<>> THEN <<>> ELSE NamesOf(Last(sans).v.names, 2)]

-----------------------------------------------------------------------------
(* ber.go: readObject returns [err, obj, next], with next the offset after  *)
(* it; reading past the end is a panic of the slice.                        *)

RECURSIVE ReadObject(_, _), ReadSubObjects(_, _, _, _, _), TagEnd(_, _), LengthOf(_, _, _), EncodeTo(_)

TagEnd(ber, i) == IF i >= Len(ber) THEN Len(ber) + 1 ELSE IF ber[i + 1] >= 128 THEN TagEnd(ber, i + 1) ELSE i + 1

LengthOf(ber, i, n) == IF n = 0 THEN 0 ELSE LengthOf(ber, i, n - 1) * 256 + ber[i + n]

Bad(err) == [err |-> err, obj |-> <<>>, next |-> 0]

(* isIndefiniteTermination *)
Terminated(ber, i) == ber[i + 1] = 0 /\ ber[i + 2] = 0

(* The loop over the content; an indefinite one is read before it is asked *)
(* whether it ends.                                                        *)
ReadSubObjects(ber, i, end, indefinite, sofar) ==
    LET after(r) ==
            IF r.err # "" THEN r
            ELSE IF ~indefinite THEN ReadSubObjects(ber, r.next, end, indefinite, Append(sofar, r.obj))
            ELSE IF Len(ber) - r.next < 2 THEN Bad("invalid")
            ELSE IF Terminated(ber, r.next) THEN [err |-> "", obj |-> Append(sofar, r.obj), next |-> r.next]
            ELSE ReadSubObjects(ber, r.next, end, indefinite, Append(sofar, r.obj))
    IN  IF i >= end /\ ~indefinite THEN [err |-> "", obj |-> sofar, next |-> i] ELSE after(ReadObject(ber, i))

ReadObject(ber, i) ==
    LET tagEnd == IF i < Len(ber) /\ ber[i + 1] % 32 = 31 THEN TagEnd(ber, i + 1) ELSE i + 1
        constructed == (ber[i + 1] \div 32) % 2 = 1
        l == ber[tagEnd + 1]
        n == IF l > 128 THEN l - 128 ELSE 0
        start == tagEnd + 1 + n
        indefinite == l = 128
        length == IF l > 128 THEN LengthOf(ber, tagEnd + 1, n) ELSE IF indefinite THEN 0 ELSE l
        tag == SubSeq(ber, i + 1, tagEnd)
        sub == ReadSubObjects(ber, start, start + length, indefinite, <<>>)
    IN  IF tagEnd >= Len(ber) THEN Bad("panic")
        ELSE IF n > 4 THEN Bad("too long")
        ELSE IF n > 0 /\ start > Len(ber) THEN Bad("panic")
        ELSE IF n = 4 /\ ber[tagEnd + 2] > 127 THEN Bad("negative")
        ELSE IF n > 0 /\ ber[tagEnd + 2] = 0 THEN Bad("leading zero")
        ELSE IF n = 4 \/ start + length > Len(ber) THEN Bad("more than available")
        ELSE IF indefinite /\ ~constructed THEN Bad("must be constructed")
        ELSE IF ~constructed
        THEN [err |-> "", next |-> start + length,
              obj |-> [tag |-> tag, inner |-> <<>>, bytes |-> SubSeq(ber, start + 1, start + length), constructed |-> FALSE]]
        ELSE IF sub.err # "" THEN sub
        ELSE [err |-> "", next |-> IF indefinite THEN sub.next + 2 ELSE start + length,
              obj |-> [tag |-> tag, inner |-> sub.obj, bytes |-> <<>>, constructed |-> TRUE]]

(* encodeLength with marshalLongLength and lengthLength *)
EncodeLength(length) ==
    IF length >= 256 THEN <<130, length \div 256, length % 256>>
    ELSE IF length >= 128 THEN <<129, length>> ELSE <<length>>

(* asn1Structured.EncodeTo and asn1Primitive.EncodeTo *)
EncodeTo(obj) ==
    LET content == IF obj.constructed THEN FlattenSeq([i \in DOMAIN obj.inner |-> EncodeTo(obj.inner[i])]) ELSE obj.bytes
    IN  obj.tag \o EncodeLength(Len(content)) \o content

Ber2der(ber) ==
    LET encoded(r) == [err |-> r.err, der |-> IF r.err # "" THEN <<>> ELSE EncodeTo(r.obj)]
    IN  IF ber = <<>> THEN [err |-> "empty", der |-> <<>>] ELSE encoded(ReadObject(ber, 0))

-----------------------------------------------------------------------------
None == [kind |-> "none", err |-> ""]

Init ==
    \/ \E t \in Templates, k \in Keys : st = [t |-> t, key |-> k, algo |-> "", doc |-> None, ber |-> <<>>, altered |-> FALSE]
    \/ \E r \in Requests, k \in Keys : st = [t |-> r, key |-> k, algo |-> "", doc |-> None, ber |-> <<>>, altered |-> FALSE]
    \/ \E b \in Encodings : st = [t |-> None, key |-> None, algo |-> "", doc |-> None, ber |-> b, altered |-> FALSE]

Parent == [subject |-> "ca", subjectKeyId |-> "caid"]
SubjectKey == [type |-> "sm2", curve |-> "SM2", id |-> "subject"]

Certify == \E algo \in Algorithms :
    /\ st.doc.kind = "none" /\ st.t \in Templates
    /\ st' = [st EXCEPT !.algo = algo, !.doc = CreateCertificate(st.t, Parent, SubjectKey, st.key, algo)]

Revoke ==
    /\ st.doc.kind = "none" /\ st.t \in Templates
    /\ st' = [st EXCEPT !.doc = CreateCRL(st.t, st.key, <<1, 2>>)]

(* A request is made from a template that may be used again. *)
Requested(algo, doc) == [st EXCEPT !.algo = algo, !.doc = doc, !.t = IF doc.err = "" THEN doc.template ELSE @]
Request == \E algo \in Algorithms :
    /\ st.doc.kind \in {"none", "csr"} /\ st.t \notin Templates /\ st.ber = <<>> /\ ~st.altered
    /\ st' = Requested(algo, CreateCertificateRequest(st.t, st.key, algo))

Rename == \E names \in Names :
    /\ st.t \notin Templates /\ st.ber = <<>> /\ ~st.altered
    /\ st' = [st EXCEPT !.t.dnsNames = names, !.doc = None]

(* The signed content is changed on the way: a name, or the public key. *)
Tamper ==
    /\ st.doc.kind \in {"cert", "csr", "crl"} /\ st.doc.err = "" /\ ~st.altered
    /\ st' = [st EXCEPT !.altered = TRUE,
                        !.doc.tbs = IF st.doc.kind = "crl" THEN [@ EXCEPT !.issuer = "changed"] ELSE [@ EXCEPT !.subject = "changed"]]

Rekey == \E pub \in ForeignKeys :
    /\ st.doc.kind \in {"cert", "csr"} /\ st.doc.err = "" /\ ~st.altered
    /\ st' = [st EXCEPT !.altered = TRUE, !.doc.tbs.pub = pub]

Alter ==
    /\ st.ber # <<>> /\ ~st.altered
    /\ \E i \in DOMAIN st.ber, v \in Values : st' = [st EXCEPT !.ber[i] = v, !.altered = TRUE]

Next == Certify \/ Revoke \/ Request \/ Rename \/ Tamper \/ Rekey \/ Alter

-----------------------------------------------------------------------------
(* The fields of a template that a certificate states *)
Stated(t) ==
    [f \in DOMAIN NewCertificate("") |->
        CASE f = "unhandled" -> <<>>
          [] f = "ips" -> [i \in DOMAIN t.ips |-> To4(t.ips[i])]
          [] f = "maxPathLen" -> IF ~t.basicConstraintsValid THEN 0 ELSE IF t.maxPathLen = 0 /\ ~t.maxPathLenZero THEN -1 ELSE t.maxPathLen
          [] f = "maxPathLenZero" -> t.basicConstraintsValid /\ t.maxPathLen = 0 /\ t.maxPathLenZero
          [] f = "isCA" -> t.basicConstraintsValid /\ t.isCA
          [] OTHER -> t[f]]

(* What a template says is what is parsed from the certificate made of it, *)
(* field by field; an extension of ExtraExtensions replaces the template's *)
(* and nothing else, and a critical one that is not understood is listed.  *)
TemplateKept ==
    st.doc.kind = "cert" /\ st.doc.err = "" /\ ~st.altered =>
        LET r == ParseCertificate(st.doc)
            want == Stated(st.doc.template)
            extra == st.t.extra
            unknown(e) == e.id = "other" \/ (e.id = "subjectAltName" /\ \A i \in DOMAIN e.v.names : e.v.names[i].tag = 6)
        IN  IF extra = <<>> THEN r.err = "" /\ r.out = want
            ELSE r.err = "" => /\ \A f \in DOMAIN want \ {"unhandled", "keyUsage", "dnsNames", "emails", "ips", "permitted"} : r.out[f] = want[f]
                               /\ Len(r.out.unhandled) = Len(SelectSeq(extra, LAMBDA e : e.critical /\ unknown(e)))
                               /\ \A i \in DOMAIN extra : extra[i].id = "keyUsage" => r.out.keyUsage = 1

(* The algorithms that fit a key; for a request, and for a list, none may  *)
(* be named (the README says what happens otherwise).                      *)
Fits(key, algo, kind) ==
    \/ kind = "crl" /\ key.type # "dsa"
    \/ key.type = "sm2" /\ algo \in {"SM2WithSM3", "SM2WithSHA1", "SM2WithSHA256"} \cup (IF kind = "csr" THEN {""} ELSE {})
    \/ key.type = "ecdsa" /\ algo \in {"ECDSAWithSHA1", "ECDSAWithSHA256", "ECDSAWithSHA384"} \cup (IF kind = "cert" THEN {""} ELSE {})
    \/ key.type = "rsa" /\ algo \in {"SHA1WithRSA", "SHA256WithRSA", "SHA384WithRSA", "SHA512WithRSA"}
                                \cup (IF kind = "cert" THEN {"", "SHA256WithRSAPSS", "SHA384WithRSAPSS", "SHA512WithRSAPSS"} ELSE {})

(* What is created with an algorithm that fits the key verifies with the   *)
(* public key of the signer, as it is read back from its encoding (a       *)
(* request's from the request), and with the algorithm that is named; not  *)
(* when a name or the key was replaced.                                    *)
SignedVerifies ==
    st.doc.kind \in {"cert", "csr", "crl"} /\ Fits(st.key, st.algo, st.doc.kind) /\ (st.doc.kind = "cert" => st.t.serial # 0) =>
        /\ st.doc.err = ""
        /\ LET algo == GetSignatureAlgorithmFromAI(st.doc.ai)
               pub == IF st.doc.kind = "csr" THEN ParseCertificateRequest(st.doc).pub
                      ELSE ParsePublicKey(MarshalPublicKey(st.key))
           IN  (pub.err = "" /\ CheckSignature(algo, st.doc.tbs, st.doc.sig, pub) = "") <=> ~st.altered

(* signingParamsForPublicKey refuses an algorithm of another key's type:   *)
(* "requested SignatureAlgorithm does not match private key type"          *)
(* (x509.go:1867). An SM2 key and an ECDSA key have one type there, so     *)
(* each passes with the algorithms of the other: it does not hold.         *)
KeyTypeMatches ==
    st.doc.kind \in {"cert", "csr"} /\ st.doc.err = "" /\ st.algo # "" =>
        (st.key.type = "sm2") = (st.algo \in {"SM2WithSM3", "SM2WithSHA1", "SM2WithSHA256"})

(* A request asks for the names of its template, also when the template is *)
(* used again with other names, as long as the template has no extension   *)
(* request of its own: that one would be kept from the first use.          *)
RequestNames ==
    st.doc.kind = "csr" /\ st.doc.err = "" /\ st.t.attributes = <<>> /\ ~OidInExtensions("subjectAltName", st.t.extra) =>
        ParseCertificateRequest(st.doc).dnsNames = st.t.dnsNames

(* The result of ber2der is definite and minimal: it converts to itself,   *)
(* whatever the lengths of the input were.                                 *)
DerStable ==
    st.ber # <<>> =>
        LET stable(r) == r.err = "" => Ber2der(r.der) = r IN stable(Ber2der(st.ber))
=============================================================================
