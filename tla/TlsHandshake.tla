---------------------------- MODULE TlsHandshake -----------------------------
(***************************************************************************)
(* The TLS 1.0 - 1.2 handshake of package gmtls (handshake_client.go,      *)
(* handshake_server.go, key_agreement.go). A step of an end reads one      *)
(* message, does all that the code does up to its next read, and writes    *)
(* what it writes. The operators that the GM handshake repeats word for    *)
(* word are parameterised by what differs.                                 *)
(***************************************************************************)
EXTENDS TlsEndpoint

Client == ends["client"]

Server == ends["server"]

SupportedSignatureAlgorithms == <<"rsa", "ecdsa">>

-----------------------------------------------------------------------------
(* Key agreement *)

(* generateServerKeyExchange: nothing for RSA; for ECDHE the first curve   *)
(* the server prefers that the client offers, and a signature over it.     *)
(* Nil stands for an error.                                                *)
EcdheServerKeyExchange(e, c) ==
    LET cert  == c.certs[1][1]
        curve == First(c.curves, LAMBDA x : In(x, e.hello.curves))
        alg   == PickSignatureAlgorithm(cert.kind, e.hello.sigAlgs, SupportedSignatureAlgorithms, e.vers)
        isRSA == ~SuiteOf(CipherSuites, e.suite).ecdsa
        pub   == <<curve, "server", conn>>
    IN  IF curve = None \/ alg = None \/ (alg = "rsa") # isRSA THEN Nil
        ELSE [type |-> "serverKeyExchange", pub |-> pub, alg |-> alg,
              sig |-> Sign(cert, <<e.hello.random, e.sh.random, pub>>)]

(* processServerKeyExchange of rsaKeyAgreement and ecdheKeyAgreement: is *)
(* the message accepted?                                                 *)
RsaProcessServerKeyExchange(e, m) == FALSE

EcdheProcessServerKeyExchange(e, m) ==
    LET alg == PickSignatureAlgorithm(e.peer[1].kind, <<m.alg>>, e.hello.sigAlgs, e.vers)
    IN  /\ alg # None
        /\ (alg = "rsa") = ~SuiteOf(CipherSuites, e.suite).ecdsa
        /\ VerifyHandshakeSignature(e.peer[1], alg, m.sig, <<e.hello.random, e.sh.random, m.pub>>)

(* generateClientKeyExchange: RSA encrypts a fresh secret to the server's  *)
(* key (a type assertion panics on any other key), ECDHE answers with a    *)
(* share on the server's curve and fails without a ServerKeyExchange.      *)
PreMasterSecret(e) == [type |-> "pre", vers |-> e.hello.vers, fresh |-> conn]

RsaClientKeyExchange(e) ==
    [type |-> "clientKeyExchange", to |-> e.peer[1].id, pub |-> <<>>, pre |-> PreMasterSecret(e)]

EcdheClientKeyExchange(e) ==
    [type |-> "clientKeyExchange", to |-> None, pub |-> <<e.ka.pub[1], "client", conn>>, pre |-> Nil]

EcdhSecret(ours, theirs) == [type |-> "ecdh", of |-> {ours, theirs}]

(* processClientKeyExchange: Nil is an error. The RSA version in the      *)
(* secret is deliberately not compared.                                   *)
RsaProcessClientKeyExchange(m, c) ==
    IF m.to = c.certs[1][1].id THEN m.pre ELSE Nil

EcdheProcessClientKeyExchange(e, m) ==
    IF m.pub = <<>> \/ m.pub[1] # e.ka.pub[1] THEN Nil ELSE EcdhSecret(e.ka.pub, m.pub)

-----------------------------------------------------------------------------
(* Client *)

(* makeClientHello *)
MakeClientHello(c) ==
    LET vers == MaxVersion(c)
    IN  [type |-> "clientHello", vers |-> vers, random |-> <<"client", conn>>,
         suites |-> SelectSeq(ConfigCipherSuites(c), LAMBDA id :
                        /\ id \in Ids(CipherSuites)
                        /\ vers >= VersionTLS12 \/ ~SuiteOf(CipherSuites, id).tls12),
         sid |-> 0, tickets |-> FALSE, ticket |-> Nil, ocsp |-> TRUE, curves |-> c.curves,
         npn |-> c.protos # <<>>, alpn |-> c.protos,
         sigAlgs |-> IF vers >= VersionTLS12 THEN SupportedSignatureAlgorithms ELSE <<>>]

(* clientHandshake: with a session cache the hello offers tickets, and the *)
(* cached session when its suite is offered and its version configured.    *)
WithSession(c, hello) ==
    IF ~c.cache \/ c.noTickets THEN [hello |-> hello, session |-> Nil]
    ELSE IF cache # Nil /\ In(cache.suite, hello.suites)
            /\ MinVersion(c) <= cache.vers /\ cache.vers <= MaxVersion(c)
    THEN [hello |-> [hello EXCEPT !.tickets = TRUE, !.ticket = cache.ticket, !.sid = conn],
          session |-> cache]
    ELSE [hello |-> [hello EXCEPT !.tickets = TRUE], session |-> Nil]

StartClient(c, hello, vers) ==
    /\ Client.pc = "start"
    /\ LET w == WithSession(c, hello)
           e == [Client EXCEPT !.hello = w.hello, !.session = w.session, !.offered = w.session,
                               !.vers = vers, !.pc = "serverHello"]
       IN  ends' = [ends EXCEPT !["client"] =
                       IF c.host = None /\ ~c.skipVerify THEN Abort(Client, "noServerName")
                       ELSE Write(e, Record(e, "handshake", w.hello))]
    /\ UNCHANGED <<conf, net, ticketKeys, cache, conn, rotates, faults>>

(* serverResumedSession *)
ServerResumedSession(e) ==
    e.session # Nil /\ e.hello.sid # 0 /\ e.sh.sid = e.hello.sid

(* processServerHello, then the start of the handshake hash; e has its     *)
(* serverHello, version and suite.                                         *)
ProcessServerHello(e, c) ==
    LET resumed == ServerResumedSession(e)
        hasNPN  == e.sh.npn # <<>>
        hasALPN == e.sh.alpn # None
        e1 == [e EXCEPT !.proto = IF hasALPN THEN e.sh.alpn ELSE @,
                        !.sum = <<e.hello, e.sh>>,
                        !.keep = ~resumed /\ c.certs # <<>>,
                        !.buffering = TRUE]
    IN  Checked(e, << <<~e.hello.npn /\ hasNPN, "handshakeFailure">>,
                      <<e.hello.alpn = <<>> /\ hasALPN, "handshakeFailure">>,
                      <<hasNPN /\ hasALPN, "handshakeFailure">>,
                      <<resumed /\ e.session.vers # e.vers, "handshakeFailure">>,
                      <<resumed /\ e.session.suite # e.suite, "handshakeFailure">> >>,
                IF ~resumed THEN [e1 EXCEPT !.pc = "certificate"]
                ELSE EstablishKeys([e1 EXCEPT !.resumed = TRUE, !.master = e.session.master,
                                              !.peer = e.session.peer, !.verified = e.session.verified,
                                              !.pc = IF e.sh.tickets THEN "newSessionTicket" ELSE "ccs"],
                                   "s2c", "c2s"))

(* handshake, pickTLSVersion and pickCipherSuite of the client *)
TlsReadServerHello ==
    /\ Gets("client", {"serverHello"}, "serverHello")
    /\ LET m == Next1("client").m
           vers == MutualVersion(conf.client, m.vers)
           suite == MutualCipherSuite(Client.hello.suites, m.suite)
           e == [Client EXCEPT !.sh = m, !.vers = vers, !.suite = suite]
       IN  Consume("client",
               Checked(Client, << <<vers < VersionTLS10, "protocolVersion">>,
                                  <<suite = None, "handshakeFailure">> >>,
                       ProcessServerHello(e, conf.client)))
    /\ UNCHANGED cache

(* doFullHandshake, the Certificate of the server *)
TlsReadCertificate ==
    /\ Gets("client", {"certificate"}, "certificate")
    /\ LET m == Next1("client").m
           c == conf.client
           certs == m.certs
       IN  Consume("client",
               Checked(Client,
                   << <<certs = <<>>, "unexpectedMessage">>,
                      <<\E i \in DOMAIN certs : certs[i].kind = "garbage", "badCertificate">>,
                      <<certs # <<>> /\ ~c.skipVerify
                          /\ ~Verifies(certs[1], {certs[i] : i \in 2..Len(certs)}, c.roots, c.host),
                        "badCertificate">>,
                      <<c.veto, "badCertificate">>,
                      <<certs # <<>> /\ certs[1].kind \notin {"rsa", "ecdsa", "sm2"}, "unsupportedCertificate">> >>,
                   [Client EXCEPT !.sum = Append(@, m), !.peer = certs,
                                  !.verified = ~c.skipVerify, !.pc = "status"]))
    /\ UNCHANGED cache

(* doFullHandshake, the optional CertificateStatus *)
TlsReadCertificateStatus ==
    /\ Gets("client", {"status"}, "certificateStatus")
    /\ Consume("client",
           Checked(Client, << <<~Client.sh.ocsp, "unexpectedMessage">> >>,
                   [Client EXCEPT !.sum = Append(@, Next1("client").m), !.pc = "skx"]))
    /\ UNCHANGED cache

(* doFullHandshake, the optional ServerKeyExchange *)
ReadServerKeyExchange(accepted) ==
    /\ Gets("client", {"status", "skx"}, "serverKeyExchange")
    /\ LET m == Next1("client").m
       IN  Consume("client",
               Checked(Client, << <<~accepted, "unexpectedMessage">> >>,
                       [Client EXCEPT !.sum = Append(@, m), !.ka = m, !.pc = "certReq"]))
    /\ UNCHANGED cache

TlsReadServerKeyExchange ==
    ReadServerKeyExchange(
        IF SuiteOf(CipherSuites, Client.suite).ka = "rsa"
        THEN RsaProcessServerKeyExchange(Client, Next1("client").m)
        ELSE EcdheProcessServerKeyExchange(Client, Next1("client").m))

(* getCertificate: the first chain with a certificate that has an          *)
(* acceptable issuer, before any certificate with the wrong kind of key;   *)
(* <<>> when there is none.                                                *)
GetCertificate(c, req, kinds) ==
    LET fits(chain) == \E j \in DOMAIN chain :
                          /\ \A i \in 1..j : chain[i].kind \in kinds
                          /\ req.cas = {} \/ chain[j].issuer \in req.cas
        hits == {i \in DOMAIN c.certs : fits(c.certs[i])}
    IN  IF hits = {} THEN <<>> ELSE c.certs[CHOOSE i \in hits : \A j \in hits : i <= j]

(* doFullHandshake, the optional CertificateRequest *)
ReadCertificateRequest(kinds) ==
    /\ Gets("client", {"status", "skx", "certReq"}, "certificateRequest")
    /\ LET m == Next1("client").m
       IN  Consume("client", [Client EXCEPT !.sum = Append(@, m), !.req = m, !.pc = "serverHelloDone",
                                            !.chain = GetCertificate(conf.client, m, kinds)])
    /\ UNCHANGED cache

TlsReadCertificateRequest == ReadCertificateRequest({"rsa", "ecdsa", "sm2"})

(* sendFinished of the client, and the flush *)
SendClientFinished(e, c) ==
    LET e1 == WriteChangeCipherSpec(e)
        proto == MutualProtocol(c.protos, e.sh.npn).proto
        e2 == IF e.sh.npn = <<>> THEN e1
              ELSE WriteHandshake([e1 EXCEPT !.proto = proto], [type |-> "nextProto", proto |-> proto])
        sum == FinishedSum(e2, "client")
    IN  Flush(WriteHandshake([e2 EXCEPT !.finished = sum], [type |-> "finished", data |-> sum]))

(* CertificateVerify: signs all messages so far with the key of the chain *)
WriteCertificateVerify(e, alg) ==
    IF e.chain = <<>> THEN e
    ELSE WriteHandshake(e, [type |-> "certificateVerify", alg |-> alg, sig |-> Sign(e.chain[1], e.sum)])

(* The end of doFullHandshake: the Certificate if one was requested, the   *)
(* ClientKeyExchange, the CertificateVerify; then the keys and Finished.   *)
SendClientFlight(e, c, ckx, pre, alg, nilPrf) ==
    LET e1 == IF e.req = Nil THEN e
              ELSE WriteHandshake(e, [type |-> "certificate", certs |-> e.chain])
        e2 == WriteCertificateVerify(WriteHandshake(e1, ckx), alg)
        e3 == [e2 EXCEPT !.keep = FALSE,
                         !.master = MasterFromPreMasterSecret(e.vers, e.suite, pre, e.hello.random, e.sh.random),
                         !.pc = IF e.sh.tickets THEN "newSessionTicket" ELSE "ccs"]
    IN  IF nilPrf THEN Panic(e3, "nilPrf")
        ELSE SendClientFinished(EstablishKeys(e3, "s2c", "c2s"), c)

TlsReadServerHelloDone ==
    /\ Gets("client", {"status", "skx", "certReq", "serverHelloDone"}, "serverHelloDone")
    /\ LET e == [Client EXCEPT !.sum = Append(@, Next1("client").m)]
           rsa == SuiteOf(CipherSuites, e.suite).ka = "rsa"
           alg == IF e.chain = <<>> THEN None
                  ELSE PickSignatureAlgorithm(e.chain[1].kind, e.req.algs, e.hello.sigAlgs, e.vers)
           ckx == IF rsa THEN RsaClientKeyExchange(e) ELSE EcdheClientKeyExchange(e)
           pre == IF rsa THEN ckx.pre ELSE EcdhSecret(e.ka.pub, ckx.pub)
       IN  Consume("client",
               IF rsa /\ e.peer[1].kind # "rsa" THEN Panic(e, "notRsa")
               ELSE IF ~rsa /\ e.ka = Nil THEN Fail(e, "internalError")
               ELSE IF e.chain # <<>> /\ alg = None THEN Fail(e, "internalError")
               ELSE IF e.chain # <<>> /\ e.vers >= VersionTLS12 /\ ~e.keep THEN Panic(e, "bufferDiscarded")
               ELSE SendClientFlight(e, conf.client, ckx, pre, alg, PrfIsNil(e.vers)))
    /\ UNCHANGED cache

Session(e, ticket) ==
    [type |-> "session", ticket |-> ticket, vers |-> e.vers, suite |-> e.suite,
     master |-> e.master, peer |-> e.peer, verified |-> e.verified]

(* Mutant: the session is cached before the server's Finished is checked. *)
ReadSessionTicketCaches ==
    /\ Gets("client", {"newSessionTicket"}, "newSessionTicket")
    /\ LET m == Next1("client").m
       IN  /\ Consume("client", [Client EXCEPT !.sum = Append(@, m), !.pc = "ccs",
                                               !.session = Session(Client, m.ticket)])
           /\ cache' = Session(Client, m.ticket)

(* readSessionTicket *)
ReadSessionTicket ==
    /\ Gets("client", {"newSessionTicket"}, "newSessionTicket")
    /\ LET m == Next1("client").m
       IN  Consume("client", [Client EXCEPT !.sum = Append(@, m), !.pc = "ccs",
                                            !.session = Session(Client, m.ticket)])
    /\ UNCHANGED cache

(* Mutant: any Finished message is taken. *)
VerifyServerFinishedNot(m) == m.type = "finished"

(* readFinished of the client, the comparison of the verify data *)
VerifyServerFinished(m) == m.data = FinishedSum(Client, "server")

(* readFinished of the client and the end of handshake: in a resumption    *)
(* the client's Finished is still to be sent. A new session is cached.     *)
ReadServerFinished(nilPrf) ==
    /\ Gets("client", {"finished"}, "finished")
    /\ LET m  == Next1("client").m
           c  == conf.client
           e  == [Client EXCEPT !.sum = Append(@, m)]
           e1 == IF e.resumed THEN SendClientFinished(e, c) ELSE e
           ok == VerifyServerFinished(m)
       IN  /\ Consume("client",
                  IF nilPrf THEN Panic(Client, "nilPrf")
                  ELSE IF ~ok THEN Fail(Client, "handshakeFailure")
                  ELSE [e1 EXCEPT !.status = 1, !.pc = "end"])
           /\ cache' = IF ~nilPrf /\ ok /\ c.cache /\ ~c.noTickets /\ e.session # e.offered
                       THEN e.session ELSE cache

TlsReadServerFinished == ReadServerFinished(PrfIsNil(Client.vers))

-----------------------------------------------------------------------------
(* Server *)

RequestClientCert == 1

RequireAnyClientCert == 2

VerifyClientCertIfGiven == 3

RequireAndVerifyClientCert == 4

(* readClientHello, the ServerHello it prepares: ALPN, or NPN when the     *)
(* client has no ALPN list                                                 *)
PrepareServerHello(hello, c, vers) ==
    LET alpn == IF hello.alpn = <<>> THEN [proto |-> None, fallback |-> TRUE]
                ELSE MutualProtocol(hello.alpn, c.protos)
    IN  [type |-> "serverHello", vers |-> vers, random |-> <<"server", conn>>, sid |-> 0,
         suite |-> None, tickets |-> FALSE, ocsp |-> FALSE,
         alpn |-> IF alpn.fallback THEN None ELSE alpn.proto,
         npn |-> IF hello.alpn = <<>> /\ hello.npn THEN c.protos ELSE <<>>]

(* setCipherSuite: the suite must be usable with this client, certificate  *)
(* and version; that it is supported is looked at by its callers.          *)
SetCipherSuite(id, vers, hello, c) ==
    LET kind == c.certs[1][1].kind
        elliptic == \E x \in DOMAIN hello.curves : In(hello.curves[x], c.curves)
        s == SuiteOf(CipherSuites, id)
    IN  /\ IF s.ka = "ecdhe" THEN elliptic /\ kind = (IF s.ecdsa THEN "ecdsa" ELSE "rsa")
                             ELSE kind = "rsa"
        /\ vers >= VersionTLS12 \/ ~s.tls12

(* Mutant: the client certificates in the ticket are not compared with the *)
(* policy.                                                                 *)
CheckForResumptionAnyPolicy(hello, c, vers, usable) ==
    LET t == DecryptTicket(c, hello.ticket)
    IN  /\ t # Nil
        /\ t.state.vers = vers
        /\ In(t.state.suite, hello.suites)
        /\ In(t.state.suite, ConfigCipherSuites(c)) /\ t.state.suite \in usable

(* checkForResumption: the ticket, its version and suite, and the client   *)
(* certificates the policy now asks for                                    *)
CheckForResumption(hello, c, vers, usable) ==
    LET t == DecryptTicket(c, hello.ticket)
        has == t # Nil /\ t.state.certs # <<>>
    IN  /\ t # Nil
        /\ t.state.vers = vers
        /\ In(t.state.suite, hello.suites)
        /\ In(t.state.suite, ConfigCipherSuites(c)) /\ t.state.suite \in usable
        /\ c.auth \in {RequireAnyClientCert, RequireAndVerifyClientCert} => has
        /\ has => c.auth # 0

(* The suite: the first one of the preference list that can be used *)
ChooseSuite(hello, c, ours, usable) ==
    LET preference == IF c.prefer THEN ours ELSE hello.suites
        supported  == IF c.prefer THEN hello.suites ELSE ours
    IN  First(preference, LAMBDA id : In(id, supported) /\ id \in usable)

(* TLS_FALLBACK_SCSV with a version below the server's best *)
FallsBack(hello, c) == In("FALLBACK_SCSV", hello.suites) /\ hello.vers < MaxVersion(c)

(* processCertsFromClient, for a Certificate message or for a ticket *)
ProcessCertsFromClient(e, c, certs, ok) ==
    Checked(e, << <<\E i \in DOMAIN certs : certs[i].kind = "garbage", "badCertificate">>,
                  <<certs # <<>> /\ c.auth >= VerifyClientCertIfGiven
                      /\ ~Verifies(certs[1], {certs[i] : i \in 2..Len(certs)}, c.clientCAs, None),
                    "badCertificate">>,
                  <<c.veto, "badCertificate">>,
                  <<certs # <<>> /\ certs[1].kind \notin {"rsa", "ecdsa", "sm2"}, "unsupportedCertificate">> >>,
            ok)

(* sendSessionTicket *)
SendSessionTicket(e) ==
    IF ~e.sh.tickets THEN e
    ELSE WriteHandshake(e, [type |-> "newSessionTicket",
                            ticket |-> EncryptTicket([vers |-> e.vers, suite |-> e.suite,
                                                      master |-> e.master, certs |-> e.chain])])

(* sendFinished of the server, and the flush *)
SendServerFinished(e) ==
    LET e1 == WriteChangeCipherSpec(e)
        sum == FinishedSum(e1, "server")
    IN  Flush(WriteHandshake([e1 EXCEPT !.finished = sum], [type |-> "finished", data |-> sum]))

(* doResumeHandshake and what serverHandshake does after it up to the read *)
(* of the client's ChangeCipherSpec                                        *)
ResumeServer(e, c, sh) ==
    LET t   == DecryptTicket(c, e.hello.ticket)
        sh1 == [sh EXCEPT !.suite = t.state.suite, !.sid = e.hello.sid, !.tickets = t.usedOldKey]
        e1  == WriteHandshake([e EXCEPT !.sh = sh1, !.suite = t.state.suite, !.sum = <<e.hello>>,
                                        !.keep = FALSE, !.buffering = TRUE, !.resumed = TRUE], sh1)
        e2  == [e1 EXCEPT !.chain = t.state.certs, !.peer = t.state.certs, !.master = t.state.master,
                          !.verified = c.auth >= VerifyClientCertIfGiven /\ t.state.certs # <<>>,
                          !.pc = "ccs"]
        e3  == SendServerFinished(SendSessionTicket(EstablishKeys(e2, "c2s", "s2c")))
    IN  IF t.state.certs = <<>> THEN e3 ELSE ProcessCertsFromClient(e1, c, t.state.certs, e3)

(* doFullHandshake up to its first read: ServerHello, Certificate, and the *)
(* optional status, key exchange and request; skx is Nil after an error.   *)
SendServerFlight(e, c, certs, hasSkx, skx, status, algs) ==
    LET e0 == WriteHandshake([e EXCEPT !.sum = <<e.hello>>, !.keep = c.auth # 0, !.buffering = TRUE], e.sh)
        e1 == WriteHandshake(e0, [type |-> "certificate", certs |-> certs])
        e2 == IF status THEN WriteHandshake(e1, [type |-> "certificateStatus"]) ELSE e1
        e3 == IF hasSkx THEN WriteHandshake([e2 EXCEPT !.ka = skx], skx) ELSE e2
        e4 == IF c.auth >= RequestClientCert
              THEN WriteHandshake(e3, [type |-> "certificateRequest", cas |-> c.clientCAs, algs |-> algs])
              ELSE e3
    IN  IF hasSkx /\ skx = Nil THEN Fail(e2, "handshakeFailure")
        ELSE Flush(WriteHandshake([e4 EXCEPT !.pc = IF c.auth >= RequestClientCert THEN "certificate"
                                                    ELSE "clientKeyExchange"],
                                  [type |-> "serverHelloDone"]))

(* doFullHandshake of the server, from the ClientHello to ServerHelloDone *)
TlsFullServer(e, c, sh, suite) ==
    LET status == e.hello.ocsp /\ c.ocsp
        sh1 == [sh EXCEPT !.suite = suite, !.ocsp = status, !.tickets = e.hello.tickets /\ ~c.noTickets]
        e1 == [e EXCEPT !.sh = sh1, !.suite = suite]
        ecdhe == SuiteOf(CipherSuites, suite).ka = "ecdhe"
    IN  SendServerFlight(e1, c, c.certs[1], ecdhe, EcdheServerKeyExchange(e1, c), status,
                         IF e.vers >= VersionTLS12 THEN SupportedSignatureAlgorithms ELSE <<>>)

(* serverHandshake and readClientHello *)
TlsReadClientHello ==
    /\ Gets("server", {"clientHello"}, "clientHello")
    /\ LET m == Next1("server").m
           c == conf.server
           vers == MutualVersion(c, m.vers)
           usable == {id \in Ids(CipherSuites) : SetCipherSuite(id, vers, m, c)}
           suite == ChooseSuite(m, c, ConfigCipherSuites(c), usable)
           sh == PrepareServerHello(m, c, vers)
           e == [Server EXCEPT !.hello = m, !.vers = vers, !.proto = sh.alpn]
       IN  Consume("server",
               Checked(Server, << <<c.getConfigFails, "internalError">>,
                                  <<vers = 0, "protocolVersion">>,
                                  <<c.certs = <<>>, "internalError">> >>,
                   IF c.certs[1][1].kind \notin {"rsa", "ecdsa"} THEN Fail(e, "internalError")
                   ELSE IF CheckForResumption(m, c, vers, usable)
                   THEN IF PrfIsNil(vers) THEN Panic(e, "nilPrf") ELSE ResumeServer(e, c, sh)
                   ELSE Checked(e, << <<suite = None, "handshakeFailure">>,
                                      <<FallsBack(m, c), "inappropriateFallback">> >>,
                                TlsFullServer(e, c, sh, suite))))
    /\ UNCHANGED cache

(* doFullHandshake, the Certificate of the client, which may be empty only *)
(* when none is required                                                   *)
ReadClientCertificate ==
    /\ Gets("server", {"certificate"}, "certificate")
    /\ LET m == Next1("server").m
           c == conf.server
           e == [Server EXCEPT !.sum = Append(@, m), !.chain = m.certs, !.peer = m.certs,
                               !.verified = c.auth >= VerifyClientCertIfGiven /\ m.certs # <<>>,
                               !.pc = "clientKeyExchange"]
       IN  Consume("server",
               Checked(Server,
                   << <<m.certs = <<>> /\ c.auth \in {RequireAnyClientCert, RequireAndVerifyClientCert},
                        "badCertificate">> >>,
                   ProcessCertsFromClient(Server, c, m.certs, e)))
    /\ UNCHANGED cache

(* doFullHandshake, the ClientKeyExchange *)
ReadClientKeyExchange(secret) ==
    /\ Gets("server", {"clientKeyExchange"}, "clientKeyExchange")
    /\ LET m == Next1("server").m
           e == Server
           e1 == [e EXCEPT !.sum = Append(@, m), !.pc = IF e.peer # <<>> THEN "certificateVerify" ELSE "ccs",
                           !.master = MasterFromPreMasterSecret(e.vers, e.suite, secret,
                                                                e.hello.random, e.sh.random)]
       IN  Consume("server",
               Checked(e, << <<secret = Nil, "handshakeFailure">> >>,
                       IF e.peer # <<>> THEN e1 ELSE EstablishKeys(e1, "c2s", "s2c")))
    /\ UNCHANGED cache

TlsReadClientKeyExchange ==
    ReadClientKeyExchange(
        IF SuiteOf(CipherSuites, Server.suite).ka = "rsa"
        THEN RsaProcessClientKeyExchange(Next1("server").m, conf.server)
        ELSE EcdheProcessClientKeyExchange(Server, Next1("server").m))

(* doFullHandshake, the CertificateVerify that follows a certificate *)
ReadCertificateVerify ==
    /\ Gets("server", {"certificateVerify"}, "certificateVerify")
    /\ LET m == Next1("server").m
           e == Server
           alg == PickSignatureAlgorithm(e.peer[1].kind, <<m.alg>>, SupportedSignatureAlgorithms, e.vers)
       IN  Consume("server",
               Checked(e, << <<alg = None, "illegalParameter">>,
                             <<~VerifyHandshakeSignature(e.peer[1], alg, m.sig, e.sum), "badCertificate">> >>,
                       EstablishKeys([e EXCEPT !.sum = Append(@, m), !.keep = FALSE, !.pc = "ccs"],
                                     "c2s", "s2c")))
    /\ UNCHANGED cache

(* readFinished of the server, the NPN message *)
ReadNextProto ==
    /\ Gets("server", {"nextProto"}, "nextProto")
    /\ LET m == Next1("server").m
       IN  Consume("server", [Server EXCEPT !.sum = Append(@, m), !.proto = m.proto, !.pc = "finished"])
    /\ UNCHANGED cache

(* The rest of serverHandshake: after a full handshake the ticket and the  *)
(* server's Finished are still to be sent.                                 *)
AfterClientFinished ==
    LET e == [Server EXCEPT !.sum = Append(@, Next1("server").m)]
    IN  IF e.resumed THEN e
        ELSE SendServerFinished(SendSessionTicket([e EXCEPT !.buffering = TRUE]))

(* readFinished of the server; done is what the caller makes of the end. *)
ReadClientFinished(nilPrf, done) ==
    /\ Gets("server", {"finished"}, "finished")
    /\ Consume("server",
           IF nilPrf THEN Panic(Server, "nilPrf")
           ELSE IF Next1("server").m.data # FinishedSum(Server, "client") THEN Fail(Server, "handshakeFailure")
           ELSE done)
    /\ UNCHANGED cache

(* serverHandshake returns without setting handshakeStatus, and            *)
(* Conn.Handshake panics on a nil error with an incomplete handshake.      *)
ServerHandshakeDone(e) == Panic(e, "noResult")

TlsReadClientFinished == 
    ReadClientFinished(PrfIsNil(Server.vers), ServerHandshakeDone(AfterClientFinished))

-----------------------------------------------------------------------------
TlsClientStep ==
    \/ StartClient(conf.client, MakeClientHello(conf.client), 0)
    \/ TlsReadServerHello
    \/ TlsReadCertificate
    \/ TlsReadCertificateStatus
    \/ TlsReadServerKeyExchange
    \/ TlsReadCertificateRequest
    \/ TlsReadServerHelloDone
    \/ ReadSessionTicket
    \/ TlsReadServerFinished

TlsServerStep ==
    \/ TlsReadClientHello
    \/ ReadClientCertificate
    \/ TlsReadClientKeyExchange
    \/ ReadCertificateVerify
    \/ ReadNextProto
    \/ TlsReadClientFinished

(* The steps of the record layer *)
RecordStep ==
    \E s \in Sides : ReadRecordFails(s) \/ ReadEof(s) \/ ReadChangeCipherSpec(s) \/ UnexpectedMessage(s)
=============================================================================
