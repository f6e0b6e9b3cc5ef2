----------------------------- MODULE MCHandshake -----------------------------
(***************************************************************************)
(* Configurations of a client and a server for TLC: each differs from a    *)
(* plain GM or TLS pair in what the handshake code branches on.            *)
(***************************************************************************)
EXTENDS Handshake

Cert(id, kind, issuer) ==
    [id |-> id, kind |-> kind, signs |-> TRUE, enciphers |-> TRUE, issuer |-> issuer,
     host |-> "host", ca |-> FALSE]

SignCert == Cert("sign", "sm2", "root")

EncCert == Cert("enc", "sm2", "root")

RsaCert == Cert("rsa", "rsa", "root")

EcdsaCert == Cert("ecdsa", "ecdsa", "root")

ClientCert == Cert("me", "sm2", "clientRoot")

InterCert == [Cert("inter", "rsa", "clientRoot") EXCEPT !.ca = TRUE]

GmClient ==
    [gm |-> TRUE, suites |-> <<>>, certs |-> <<>>, skipVerify |-> FALSE, host |-> "host",
     roots |-> {"root"}, cache |-> TRUE, noTickets |-> FALSE, protos |-> <<>>, min |-> 0, max |-> 0,
     curves |-> <<"P256">>, veto |-> FALSE]

GmServer ==
    [gm |-> TRUE, suites |-> <<>>, certs |-> << <<SignCert>>, <<EncCert>> >>, prefer |-> FALSE, auth |-> 0,
     clientCAs |-> {"clientRoot"}, noTickets |-> FALSE, staticKey |-> FALSE, protos |-> <<>>, ocsp |-> FALSE,
     min |-> 0, max |-> 0, curves |-> <<"P256">>, veto |-> FALSE, getConfigFails |-> FALSE]

TlsClient == [GmClient EXCEPT !.gm = FALSE]

TlsServer == [GmServer EXCEPT !.gm = FALSE, !.certs = << <<RsaCert>> >>, !.staticKey = TRUE]

Pairs(clients, servers) == {[client |-> c, server |-> s] : c \in clients, s \in servers}

(* The chains a client may have: none, one of the client CA, a stranger's, *)
(* one with an intermediate, and keys no one can use                       *)
Chains(kind) ==
    {<<>>, << <<Cert("me", kind, "clientRoot")>> >>, << <<Cert("other", kind, "nobody")>> >>}

GmAuth ==
    Pairs({[GmClient EXCEPT !.certs = ch] : ch \in Chains("sm2")},
          {[GmServer EXCEPT !.auth = a] : a \in {0, 1, 2, 3, 4}})

GmFaulty ==
    Pairs({GmClient},
          {[GmServer EXCEPT !.certs[1] = <<c>>] :
                  c \in {RsaCert, EcdsaCert, [SignCert EXCEPT !.signs = FALSE], Cert("bad", "garbage", "root"),
                         [SignCert EXCEPT !.issuer = "nobody"]}}
          \cup {[GmServer EXCEPT !.certs = << <<SignCert>> >>],
                [GmServer EXCEPT !.certs[2] = <<[EncCert EXCEPT !.enciphers = FALSE]>>],
                [GmServer EXCEPT !.max = VersionSSL30], [GmServer EXCEPT !.min = VersionTLS10],
                [GmServer EXCEPT !.getConfigFails = TRUE]})
    \cup Pairs({[GmClient EXCEPT !.skipVerify = TRUE]},
               {[GmServer EXCEPT !.certs[1] = <<[SignCert EXCEPT !.host = "elsewhere"]>>]})

GmSuites ==
    Pairs({GmClient, [GmClient EXCEPT !.suites = <<"ECDHE_SM2_SM4", "SM2_SM4">>],
           [GmClient EXCEPT !.suites = <<"RSA_CBC">>], [GmClient EXCEPT !.suites = <<"SM2_SM4">>]},
          {[GmServer EXCEPT !.suites = <<"SM2_SM4">>], [GmServer EXCEPT !.prefer = TRUE]})

GmOther ==
    Pairs({[GmClient EXCEPT !.host = None], [GmClient EXCEPT !.veto = TRUE], [GmClient EXCEPT !.cache = FALSE]},
          {GmServer})
    \cup Pairs({GmClient}, {[GmServer EXCEPT !.noTickets = TRUE], [GmServer EXCEPT !.veto = TRUE]})

Mixed == Pairs({TlsClient}, {GmServer}) \cup Pairs({GmClient}, {TlsServer})

TlsAuth ==
    Pairs({[TlsClient EXCEPT !.certs = ch] :
             ch \in Chains("rsa") \cup {<< <<Cert("leaf", "ecdsa", "inter"), InterCert>> >>, << <<Cert("leaf", "dsa", "clientRoot")>> >>}},
          {[TlsServer EXCEPT !.auth = a] : a \in {0, 1, 2, 3, 4}})

TlsVersions ==
    Pairs({TlsClient, [TlsClient EXCEPT !.max = VersionTLS11], [TlsClient EXCEPT !.max = VersionSSL30]},
          {TlsServer, [TlsServer EXCEPT !.max = VersionTLS11], [TlsServer EXCEPT !.max = VersionSSL30]})

TlsSuites ==
    Pairs({TlsClient, [TlsClient EXCEPT !.suites = <<"RSA_CBC">>],
           [TlsClient EXCEPT !.suites = <<"RSA_CBC", "FALLBACK_SCSV">>],
           [TlsClient EXCEPT !.curves = <<"X25519", "P256">>]},
          {TlsServer, [TlsServer EXCEPT !.prefer = TRUE, !.suites = <<"RSA_CBC", "ECDHE_RSA_CBC">>],
           [TlsServer EXCEPT !.certs = << <<EcdsaCert>> >>],
           [TlsServer EXCEPT !.certs = << <<SignCert>> >>], [TlsServer EXCEPT !.certs = <<>>]})

TlsProtocols ==
    Pairs({TlsClient, [TlsClient EXCEPT !.protos = <<"h2", "http">>]},
          {[TlsServer EXCEPT !.protos = <<"http">>, !.ocsp = TRUE],
           [TlsServer EXCEPT !.protos = <<"other">>], [TlsServer EXCEPT !.staticKey = FALSE]})

AllConfigs ==
    GmAuth \cup GmFaulty \cup GmSuites \cup GmOther \cup Mixed
    \cup TlsAuth \cup TlsVersions \cup TlsSuites \cup TlsProtocols

(* A plain pair of TLS ends *)
PlainTls == Pairs({TlsClient}, {TlsServer})
=============================================================================
