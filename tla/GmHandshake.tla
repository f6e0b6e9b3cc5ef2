----------------------------- MODULE GmHandshake -----------------------------
(***************************************************************************)
(* The GM/T 0024 handshake of package gmtls: gm_handshake_client_double.go *)
(* and gm_handshake_server_double.go with the key agreements of            *)
(* gm_key_agreement.go. The server has two certificates, the first for     *)
(* signatures and the second for encryption. What the files repeat of the  *)
(* TLS handshake is taken from TlsHandshake.                               *)
(***************************************************************************)
EXTENDS TlsHandshake

(* generateServerKeyExchange of eccKeyAgreementGM: the signature covers    *)
(* the random values and the encryption certificate.                       *)
EccServerKeyExchange(e, c) ==
    [type |-> "serverKeyExchange", pub |-> <<>>, alg |-> None,
     sig |-> Sign(c.certs[1][1], <<e.hello.random, e.sh.random, c.certs[2][1].id>>)]

(* processServerKeyExchange of eccKeyAgreementGM and ecdheKeyAgreementGM: *)
(* is the message accepted?                                               *)
EccProcessServerKeyExchange(e, m) ==
    /\ e.peer[1].kind = "sm2"
    /\ m.sig = Sign(e.peer[1], <<e.hello.random, e.sh.random, e.peer[2].id>>)

EcdheGmProcessServerKeyExchange(e, m) ==
    /\ m.pub # <<>>
    /\ VerifyHandshakeSignature(e.peer[1], "ecdsa", m.sig, <<e.hello.random, e.sh.random, m.pub>>)

(* generateClientKeyExchange of eccKeyAgreementGM: to the second certificate *)
EccClientKeyExchange(e) ==
    [type |-> "clientKeyExchange", to |-> e.peer[2].id, pub |-> <<>>, pre |-> PreMasterSecret(e)]

(* processClientKeyExchange of eccKeyAgreementGM: decrypted with the key  *)
(* of the server's second certificate                                     *)
EccProcessClientKeyExchange(m, c) == IF m.to = c.certs[2][1].id THEN m.pre ELSE Nil

-----------------------------------------------------------------------------
(* Client *)

(* makeClientHelloGM: no extension but those clientHandshake adds *)
MakeClientHelloGM(c) ==
    [type |-> "clientHello", vers |-> VersionGMSSL, random |-> <<"client", conn>>,
     suites |-> SelectSeq(GetCipherSuites(c), LAMBDA id : id \in Ids(GmCipherSuites)),
     sid |-> 0, tickets |-> FALSE, ticket |-> Nil, ocsp |-> FALSE, curves |-> <<>>,
     npn |-> FALSE, alpn |-> <<>>, sigAlgs |-> <<>>]

(* processServerHello of the GM client *)
GmProcessServerHello(e, c) == ProcessServerHello(e, c)

(* handshake and pickCipherSuite of the GM client *)
GmReadServerHello ==
    /\ Gets("client", {"serverHello"}, "serverHello")
    /\ LET m == Next1("client").m
           suite == MutualCipherSuiteGM(Client.hello.suites, m.suite)
           e == [Client EXCEPT !.sh = m, !.suite = suite]
       IN  Consume("client",
               Checked(Client, << <<m.vers # VersionGMSSL, "protocolVersion">>,
                                  <<suite = None, "handshakeFailure">> >>,
                       GmProcessServerHello(e, conf.client)))
    /\ UNCHANGED cache

(* What the client finds wrong with the i-th certificate of the server. A  *)
(* key that is no ECDSA key at all is a nil dereference.                   *)
GmCertFault(cert, i) ==
    IF cert.kind = "garbage" THEN "badCertificate"
    ELSE IF cert.kind \notin {"sm2", "ecdsa"} THEN "panic"
    ELSE IF cert.kind # "sm2" THEN "unsupportedCertificate"
    ELSE IF i = 1 /\ ~cert.signs THEN "insufficientSecurity"
    ELSE IF i = 2 /\ ~cert.enciphers THEN "insufficientSecurity"
    ELSE None

(* doFullHandshake of the GM client, the Certificate: at least two, each   *)
(* with its key usage, and every one of them verified against the roots    *)
(* and those after the second that were verified before it.                *)
GmReadCertificate ==
    /\ Gets("client", {"certificate"}, "certificate")
    /\ LET m == Next1("client").m
           c == conf.client
           certs == m.certs
           faulty == {i \in DOMAIN certs : GmCertFault(certs[i], i) # None}
           first == CHOOSE i \in faulty : \A j \in faulty : i <= j
           fault == IF faulty = {} THEN None ELSE GmCertFault(certs[first], first)
           verified == \A i \in DOMAIN certs :
                           Verifies(certs[i], {certs[j] : j \in 3..i-1}, c.roots, c.host)
       IN  Consume("client",
               IF certs = <<>> THEN Fail(Client, "unexpectedMessage")
               ELSE IF Len(certs) < 2 THEN Fail(Client, "insufficientSecurity")
               ELSE IF fault = "panic" THEN Panic(Client, "notEcdsa")
               ELSE IF fault # None THEN Fail(Client, fault)
               ELSE IF (~c.skipVerify /\ ~verified) \/ c.veto THEN Fail(Client, "badCertificate")
               ELSE [Client EXCEPT !.sum = Append(@, m), !.peer = certs,
                                   !.verified = ~c.skipVerify, !.pc = "skx"])
    /\ UNCHANGED cache

(* doFullHandshake of the GM client, the ServerKeyExchange *)
GmReadServerKeyExchange ==
    ReadServerKeyExchange(
        IF Client.suite = "SM2_SM4" THEN EccProcessServerKeyExchange(Client, Next1("client").m)
                                    ELSE EcdheGmProcessServerKeyExchange(Client, Next1("client").m))

(* doFullHandshake and getCertificate of the GM client, the request *)
GmReadCertificateRequest == ReadCertificateRequest({"sm2"})

(* The end of doFullHandshake of the GM client, establishKeys and           *)
(* sendFinished; without a ServerKeyExchange ecdheKeyAgreementGM has no     *)
(* curve.                                                                   *)
GmReadServerHelloDone ==
    /\ Gets("client", {"skx", "certReq", "serverHelloDone"}, "serverHelloDone")
    /\ LET e == [Client EXCEPT !.sum = Append(@, Next1("client").m)]
           ckx == EccClientKeyExchange(e)
       IN  Consume("client",
               IF e.suite # "SM2_SM4" THEN Fail(e, "internalError")
               ELSE SendClientFlight(e, conf.client, ckx, ckx.pre, None, FALSE))
    /\ UNCHANGED cache

(* readSessionTicket of the GM client *)
GmReadSessionTicket == ReadSessionTicket

(* readFinished of the GM client and the end of handshake *)
GmReadServerFinished == ReadServerFinished(FALSE)

-----------------------------------------------------------------------------
(* Server *)

(* setCipherSuite of the GM server *)
GmSetCipherSuite(id, vers) ==
    vers >= VersionTLS12 \/ ~SuiteOf(GmCipherSuites, id).tls12

(* checkForResumption of the GM server asks for Config.cipherSuites, which *)
(* has no GM suite unless the list is configured.                          *)
GmCheckForResumption(hello, c, vers) ==
    CheckForResumption(hello, c, vers, {id \in Ids(GmCipherSuites) : GmSetCipherSuite(id, vers)})

(* doResumeHandshake of the GM server takes newFinishedHash, whose MD5      *)
(* hash is nil for this version, and writes to it.                         *)
GmResumeServer(e) == Panic(e, "nilMD5")

(* doFullHandshake of the GM server up to ServerHelloDone; the certificates *)
(* of all chains go into one message. ecdheKeyAgreementGM panics.           *)
GmFullServer(e, c, sh, suite) ==
    LET status == e.hello.ocsp /\ c.ocsp
        sh1 == [sh EXCEPT !.suite = suite, !.ocsp = status, !.tickets = e.hello.tickets /\ ~c.noTickets]
        e1 == [e EXCEPT !.sh = sh1, !.suite = suite]
        certs == c.certs[1] \o c.certs[2]
    IN  IF SuiteOf(GmCipherSuites, suite).ka = "ecdheGM" THEN Panic(e1, "ecdheGM")
        ELSE SendServerFlight(e1, c, certs, TRUE, EccServerKeyExchange(e1, c), status, <<>>)

(* serverHandshakeGM and readClientHello of the GM server *)
GmReadClientHello ==
    /\ Gets("server", {"clientHello"}, "clientHello")
    /\ LET m == Next1("server").m
           c == conf.server
           vers == MutualVersion(c, m.vers)
           suite == ChooseSuite(m, c, GetCipherSuites(c),
                                {id \in Ids(GmCipherSuites) : GmSetCipherSuite(id, vers)})
           sh == PrepareServerHello(m, c, vers)
           e == [Server EXCEPT !.hello = m, !.vers = vers, !.proto = sh.alpn]
       IN  Consume("server",
               Checked(Server, << <<c.getConfigFails, "internalError">>,
                                  <<vers = 0, "protocolVersion">>,
                                  <<Len(c.certs) < 2, "internalError">> >>,
                   IF GmCheckForResumption(m, c, vers) THEN GmResumeServer(e)
                   ELSE Checked(e, << <<suite = None, "handshakeFailure">>,
                                      <<FallsBack(m, c), "inappropriateFallback">> >>,
                                GmFullServer(e, c, sh, suite))))
    /\ UNCHANGED cache

(* doFullHandshake and processCertsFromClient of the GM server, the *)
(* Certificate of the client                                        *)
GmReadClientCertificate == ReadClientCertificate

(* doFullHandshake of the GM server, the ClientKeyExchange *)
GmReadClientKeyExchange ==
    ReadClientKeyExchange(EccProcessClientKeyExchange(Next1("server").m, conf.server))

(* doFullHandshake of the GM server, the CertificateVerify *)
GmReadCertificateVerify == ReadCertificateVerify

(* serverHandshakeGM sets handshakeStatus. *)
ServerHandshakeGmDone(e) == [e EXCEPT !.status = 1, !.pc = "end"]

(* readFinished, sendSessionTicket and sendFinished of the GM server; its  *)
(* NPN message is left out: a GM client never offers the extension.        *)
GmReadClientFinished == ReadClientFinished(FALSE, ServerHandshakeGmDone(AfterClientFinished))

-----------------------------------------------------------------------------
GmClientStep ==
    \/ StartClient(conf.client, MakeClientHelloGM(conf.client), VersionGMSSL)
    \/ GmReadServerHello
    \/ GmReadCertificate
    \/ GmReadServerKeyExchange
    \/ GmReadCertificateRequest
    \/ GmReadServerHelloDone
    \/ GmReadSessionTicket
    \/ GmReadServerFinished

GmServerStep ==
    \/ GmReadClientHello
    \/ GmReadClientCertificate
    \/ GmReadClientKeyExchange
    \/ GmReadCertificateVerify
    \/ GmReadClientFinished
=============================================================================
