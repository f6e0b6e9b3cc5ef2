----------------------------- MODULE TlsEndpoint -----------------------------
(***************************************************************************)
(* What the handshakes of package gmtls share: the two ends of a          *)
(* connection, the records between them, versions, cipher suites, the      *)
(* handshake hash, key derivation, session tickets and certificates.       *)
(*                                                                         *)
(* ends[s] is the Conn and the handshake state of side s, ends[s].wire the *)
(* records s has written to the transport and the other side has not read. *)
(* Cryptography is symbolic: a key, a signature or a digest is the value   *)
(* it was computed from, so that two of them are equal exactly when they   *)
(* were computed from the same inputs.                                     *)
(***************************************************************************)
EXTENDS Integers, Sequences, FiniteSets

CONSTANTS
    Configs,     \* the configurations of a connection: [client, server]
    MaxConns,    \* connections made one after the other
    MaxRotates,  \* calls of SetSessionTicketKeys
    MaxFaults    \* transmission faults

ASSUME TlsAssumption ==
    /\ MaxConns \in Nat \ {0}
    /\ MaxRotates \in Nat
    /\ MaxFaults \in Nat

(* Config.MaxVersion and Config.ClientAuth are numbers, Certificates is a  *)
(* list of chains, none of which is empty (X509KeyPair).                   *)
ASSUME ConfigsAssumption ==
    \A c \in Configs :
        /\ c.client.max \in Nat /\ c.server.max \in Nat /\ c.server.auth \in 0..4
        /\ LET certs == c.server.certs
           IN  /\ certs \in Seq({certs[i] : i \in DOMAIN certs})
               /\ \A i \in DOMAIN certs :
                     certs[i] # <<>> /\ certs[i] \in Seq({certs[i][j] : j \in DOMAIN certs[i]})

VARIABLES
    conf,        \* the configurations in use
    ends,        \* the two ends of the current connection
    net,         \* sides that closed the transport; "lost" when it broke
    ticketKeys,  \* Config.sessionTicketKeys of the server, newest first
    cache,       \* the ClientSessionCache of the client
    conn,        \* number of the current connection
    rotates,     \* SetSessionTicketKeys calls so far
    faults       \* transmission faults so far

vars == <<conf, ends, net, ticketKeys, cache, conn, rotates, faults>>

Sides == {"client", "server"}

Peer(s) == IF s = "client" THEN "server" ELSE "client"

(* No string, and no message, key or session *)
None == "none"

Nil == [type |-> "nil"]

-----------------------------------------------------------------------------
(* Versions and cipher suites *)

VersionGMSSL == 257

VersionSSL30 == 768

VersionTLS10 == 769

VersionTLS11 == 770

VersionTLS12 == 771

(* Config.minVersion and Config.maxVersion: 0 stands for the default. *)
MinVersion(c) == IF c.min = 0 THEN VersionGMSSL ELSE c.min

MaxVersion(c) == IF c.max = 0 THEN VersionTLS12 ELSE c.max

(* Config.mutualVersion: 0 when the peer's version is too old. *)
MutualVersion(c, vers) ==
    IF vers < MinVersion(c) THEN 0
    ELSE IF vers > MaxVersion(c) THEN MaxVersion(c) ELSE vers

(* One suite for each combination of flags that the code tells apart. *)
CipherSuites == <<
    [id |-> "ECDHE_RSA_AEAD",   ka |-> "ecdhe", ecdsa |-> FALSE, tls12 |-> TRUE,  off |-> FALSE],
    [id |-> "ECDHE_ECDSA_AEAD", ka |-> "ecdhe", ecdsa |-> TRUE,  tls12 |-> TRUE,  off |-> FALSE],
    [id |-> "ECDHE_RSA_CBC",    ka |-> "ecdhe", ecdsa |-> FALSE, tls12 |-> FALSE, off |-> FALSE],
    [id |-> "RSA_CBC",          ka |-> "rsa",   ecdsa |-> FALSE, tls12 |-> FALSE, off |-> FALSE],
    [id |-> "RSA_RC4",          ka |-> "rsa",   ecdsa |-> FALSE, tls12 |-> FALSE, off |-> TRUE]>>

GmCipherSuites == <<
    [id |-> "SM2_SM4",       ka |-> "ecc",     ecdsa |-> TRUE, tls12 |-> FALSE, off |-> FALSE],
    [id |-> "ECDHE_SM2_SM4", ka |-> "ecdheGM", ecdsa |-> TRUE, tls12 |-> FALSE, off |-> FALSE]>>

Ids(table) == {table[i].id : i \in DOMAIN table}

SuiteOf(table, id) == table[CHOOSE i \in DOMAIN table : table[i].id = id]

(* initDefaultCipherSuites: the table is in the order of preference, the  *)
(* suites that are off by default are left out.                           *)
DefaultCipherSuites ==
    LET on == SelectSeq(CipherSuites, LAMBDA s : ~s.off)
    IN  [i \in DOMAIN on |-> on[i].id]

(* Config.cipherSuites *)
ConfigCipherSuites(c) == IF c.suites = <<>> THEN DefaultCipherSuites ELSE c.suites

(* getCipherSuites of gm_support.go *)
GetCipherSuites(c) == IF c.suites = <<>> THEN <<"SM2_SM4", "ECDHE_SM2_SM4">> ELSE c.suites

In(x, seq) == \E i \in DOMAIN seq : seq[i] = x

(* The first element of seq that satisfies P, or None *)
First(seq, P(_)) ==
    LET hits == {i \in DOMAIN seq : P(seq[i])}
    IN  IF hits = {} THEN None ELSE seq[CHOOSE i \in hits : \A j \in hits : i <= j]

(* mutualCipherSuite and mutualCipherSuiteGM *)
MutualCipherSuite(have, want) ==
    IF In(want, have) /\ want \in Ids(CipherSuites) THEN want ELSE None

MutualCipherSuiteGM(have, want) ==
    IF In(want, have) /\ want \in Ids(GmCipherSuites) THEN want ELSE None

(* mutualProtocol: the first preferred protocol that is offered, otherwise *)
(* the first one offered, as a fallback.                                   *)
MutualProtocol(protos, preference) ==
    LET p == First(preference, LAMBDA x : In(x, protos))
    IN  IF p = None THEN [proto |-> protos[1], fallback |-> TRUE]
        ELSE [proto |-> p, fallback |-> FALSE]

-----------------------------------------------------------------------------
(* An end of the connection *)

NoCipher == Nil

(* Conn and the handshake state as Client or Server make them *)
NewEnd(s) ==
    [pc |-> IF s = "client" THEN "start" ELSE "clientHello",
     vers |-> 0, suite |-> None, master |-> Nil, sum |-> <<>>, keep |-> TRUE,
     hello |-> Nil, sh |-> Nil, session |-> Nil, offered |-> Nil,
     peer |-> <<>>, verified |-> FALSE, req |-> Nil, chain |-> <<>>, ka |-> Nil,
     in |-> NoCipher, out |-> NoCipher, nextIn |-> NoCipher, nextOut |-> NoCipher,
     buffering |-> FALSE, buf |-> <<>>, wire |-> <<>>,
     status |-> 0, err |-> None, resumed |-> FALSE, proto |-> None, finished |-> Nil]

(* Conn.write: into sendBuf while buffering, otherwise to the transport *)
Write(e, r) == IF e.buffering THEN [e EXCEPT !.buf = Append(@, r)]
                              ELSE [e EXCEPT !.wire = Append(@, r)]

(* Mutant: the buffer is forgotten. *)
FlushForgets(e) == [e EXCEPT !.buf = <<>>, !.buffering = FALSE]

(* Conn.flush: with an empty sendBuf it does not even end the buffering. *)
Flush(e) == IF e.buf = <<>> THEN e
            ELSE [e EXCEPT !.wire = @ \o e.buf, !.buf = <<>>, !.buffering = FALSE]

Record(e, type, m) == [type |-> type, m |-> m, key |-> e.out]

(* finishedHash.Write and writeRecord of a handshake message *)
WriteHandshake(e, m) == [Write(e, Record(e, "handshake", m)) EXCEPT !.sum = Append(@, m)]

(* writeRecordLocked of a ChangeCipherSpec: what follows is written under  *)
(* the cipher that prepareCipherSpec left.                                 *)
WriteChangeCipherSpec(e) ==
    [Write(e, Record(e, "ccs", Nil)) EXCEPT !.out = e.nextOut, !.nextOut = NoCipher]

(* An error return without an alert: Handshake flushes what is buffered. *)
Abort(e, why) == Flush([e EXCEPT !.err = why, !.pc = "failed"])

(* sendAlert and the error return that follows it *)
Fail(e, alert) == Abort(Write(e, Record(e, "alert", [type |-> alert])), alert)

(* A run-time panic: the process ends, nothing is flushed. *)
Panic(e, why) == [e EXCEPT !.err = why, !.pc = "panicked"]

(* A chain of early returns: the alert of the first check that fires, *)
(* otherwise the result of going on.                                  *)
Checked(e, checks, ok) ==
    LET fired == {i \in DOMAIN checks : checks[i][1]}
    IN  IF fired = {} THEN ok
        ELSE Fail(e, checks[CHOOSE i \in fired : \A j \in fired : i <= j][2])

-----------------------------------------------------------------------------
(* Keys and the handshake hash *)

(* masterFromPreMasterSecret and prfForVersion: the random values in the   *)
(* order of the seed, the version and the suite choose the function.       *)
MasterFromPreMasterSecret(vers, suite, pre, clientRandom, serverRandom) ==
    [vers |-> vers, suite |-> suite, pre |-> pre, seed |-> <<clientRandom, serverRandom>>]

(* Mutant: both directions get the first key of the block. *)
KeysFromMasterSecretOneKey(master, clientRandom, serverRandom, dir) ==
    [master |-> master, seed |-> <<serverRandom, clientRandom>>, dir |-> "both"]

(* keysFromMasterSecret: the key, MAC key and IV of one direction *)
KeysFromMasterSecret(master, clientRandom, serverRandom, dir) ==
    [master |-> master, seed |-> <<serverRandom, clientRandom>>, dir |-> dir]

(* establishKeys: c.in and c.out prepareCipherSpec *)
EstablishKeys(e, inDir, outDir) ==
    [e EXCEPT !.nextIn = KeysFromMasterSecret(e.master, e.hello.random, e.sh.random, inDir),
              !.nextOut = KeysFromMasterSecret(e.master, e.hello.random, e.sh.random, outDir)]

(* finishedHash.clientSum and serverSum over the messages so far *)
FinishedSum(e, who) == [who |-> who, master |-> e.master, sum |-> e.sum]

(* newFinishedHash: below TLS 1.2 the inner declaration of prf hides the   *)
(* outer one, which is returned nil; SSL 3.0 does not call it.             *)
PrfIsNil(vers) == vers \in {VersionTLS10, VersionTLS11}

-----------------------------------------------------------------------------
(* Session tickets *)

(* Config.serverInit: keys are kept; otherwise the first handshake takes   *)
(* the configured SessionTicketKey, or makes a key up.                     *)
StaticKey == 1

ServerInit(c, keys, number) ==
    IF c.noTickets \/ keys # <<>> THEN keys
    ELSE IF c.staticKey THEN <<StaticKey>> ELSE <<10 * number>>

(* Conn.encryptTicket: always under the newest key *)
EncryptTicket(state) == [key |-> ticketKeys[1], state |-> state]

(* Conn.decryptTicket: Nil, or the state and whether its key is an old one *)
DecryptTicket(c, ticket) ==
    IF c.noTickets \/ ticket = Nil \/ ~In(ticket.key, ticketKeys) THEN Nil
    ELSE [state |-> ticket.state, usedOldKey |-> ticket.key # ticketKeys[1]]

-----------------------------------------------------------------------------
(* Certificates and signatures *)

(* x509.Certificate.Verify, reduced to the host name and a chain to a root *)
(* through at most one of the intermediates                                *)
Verifies(cert, intermediates, roots, host) ==
    /\ host \in {None, cert.host}
    /\ \/ cert.issuer \in roots
       \/ \E i \in intermediates : i.ca /\ i.id = cert.issuer /\ i.issuer \in roots

(* pickSignatureAlgorithm: below TLS 1.2, and when the peer sent no list,  *)
(* the key decides; otherwise the peer's first algorithm that both know    *)
(* and the key can make. None is an error.                                 *)
PickSignatureAlgorithm(kind, peerAlgs, ourAlgs, vers) ==
    IF vers < VersionTLS12 \/ peerAlgs = <<>>
    THEN IF kind = "rsa" THEN "rsa" ELSE IF kind \in {"ecdsa", "sm2"} THEN "ecdsa" ELSE None
    ELSE First(peerAlgs, LAMBDA a : In(a, ourAlgs) /\ a = (IF kind = "sm2" THEN "ecdsa" ELSE kind))

(* verifyHandshakeSignature: made by the owner of the certificate over the *)
(* same input, with an algorithm of its key                                *)
VerifyHandshakeSignature(cert, alg, sig, input) ==
    /\ alg = (IF cert.kind = "sm2" THEN "ecdsa" ELSE cert.kind)
    /\ sig = [by |-> cert.id, over |-> input]

Sign(cert, input) == [by |-> cert.id, over |-> input]

-----------------------------------------------------------------------------
(* Reading records *)

Over(s) == ends[s].pc \in {"end", "failed", "panicked"}

Reading(s) == ~Over(s) /\ ends[s].pc # "start"

(* The next record for side s *)
Next1(s) == Head(ends[Peer(s)].wire)

HasRecord(s) == Reading(s) /\ "lost" \notin net /\ ends[Peer(s)].wire # <<>>

(* s has read the next record and is e afterwards *)
Consume(s, e) ==
    /\ ends' = [ends EXCEPT ![s] = e, ![Peer(s)].wire = Tail(@)]
    /\ UNCHANGED <<conf, net, ticketKeys, conn, rotates, faults>>

WantedType(e) == IF e.pc = "ccs" THEN "ccs" ELSE "handshake"

(* The record is sound and of the type that is wanted *)
Sound(s) == HasRecord(s) /\ Next1(s).key = ends[s].in /\ Next1(s).type = WantedType(ends[s])

(* Conn.readRecord, the records it does not accept: a fatal alert ends the *)
(* handshake; a record that does not decrypt, or that was encrypted for a  *)
(* reader who has no key yet, and a record of the wrong type are answered  *)
(* with an alert.                                                          *)
ReadRecordFails(s) ==
    /\ HasRecord(s)
    /\ LET e == ends[s]
           r == Next1(s)
       IN  \/ /\ r.key = e.in /\ r.type = "alert"
              /\ Consume(s, Abort(e, "remoteError"))
           \/ /\ r.key # e.in
              /\ Consume(s, Fail(e, IF e.in = NoCipher THEN "unexpectedMessage" ELSE "badRecordMAC"))
           \/ /\ r.key = e.in /\ r.type \notin {"alert", WantedType(e)}
              /\ Consume(s, Fail(e, "unexpectedMessage"))
    /\ UNCHANGED cache

(* Conn.readRecord at the end of the stream *)
ReadEof(s) ==
    /\ Reading(s)
    /\ "lost" \in net \/ (Peer(s) \in net /\ ends[Peer(s)].wire = <<>>)
    /\ ends' = [ends EXCEPT ![s] = Abort(@, "EOF")]
    /\ UNCHANGED <<conf, net, ticketKeys, cache, conn, rotates, faults>>

(* After the ChangeCipherSpec a server that offered NPN reads nextProto. *)
AfterCcs(s) == IF s = "server" /\ ends[s].sh.npn # <<>> THEN "nextProto" ELSE "finished"

(* Conn.readRecord(recordTypeChangeCipherSpec): halfConn.changeCipherSpec  *)
(* switches to the prepared cipher, without one it is an internal error.   *)
ReadChangeCipherSpec(s) ==
    /\ ends[s].pc = "ccs" /\ Sound(s)
    /\ Consume(s, IF ends[s].nextIn = NoCipher THEN Fail(ends[s], "internalError")
                  ELSE [ends[s] EXCEPT !.in = ends[s].nextIn, !.nextIn = NoCipher,
                                       !.pc = AfterCcs(s)])
    /\ UNCHANGED cache

(* readHandshake returned a message of this type in one of these places *)
Gets(s, pcs, type) == ends[s].pc \in pcs /\ Sound(s) /\ Next1(s).m.type = type

(* The messages that each place of the handshake accepts *)
Accepts(pc) ==
    CASE pc = "status"  -> {"certificateStatus", "serverKeyExchange", "certificateRequest", "serverHelloDone"}
      [] pc = "skx"     -> {"serverKeyExchange", "certificateRequest", "serverHelloDone"}
      [] pc = "certReq" -> {"certificateRequest", "serverHelloDone"}
      [] OTHER          -> {pc}

(* readHandshake returned a message the place does not accept. *)
UnexpectedMessage(s) ==
    /\ Sound(s) /\ ends[s].pc # "ccs"
    /\ Next1(s).m.type \notin Accepts(ends[s].pc)
    /\ Consume(s, Fail(ends[s], "unexpectedMessage"))
    /\ UNCHANGED cache

=============================================================================
