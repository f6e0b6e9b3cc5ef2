------------------------------ MODULE Handshake ------------------------------
(***************************************************************************)
(* Connections of a client and a server of package gmtls, one after the    *)
(* other, over a transport that may alter a record or break, while the     *)
(* server's ticket keys are rotated and either process may be restarted    *)
(* between two connections.                                                *)
(***************************************************************************)
EXTENDS GmHandshake

Init ==
    /\ conf \in Configs
    /\ ends = [s \in Sides |-> NewEnd(s)]
    /\ net = {}
    /\ ticketKeys = ServerInit(conf.server, <<>>, 1)
    /\ cache = Nil
    /\ conn = 1
    /\ rotates = 0
    /\ faults = 0

(* Conn.Handshake: GMSupport chooses the dialect of each side. *)
ClientStep ==
    \/ conf.client.gm /\ GmClientStep
    \/ ~conf.client.gm /\ TlsClientStep

ServerStep ==
    \/ conf.server.gm /\ GmServerStep
    \/ ~conf.server.gm /\ TlsServerStep

(* The ways a record may be altered on its way; what is encrypted can only *)
(* be made unreadable.                                                     *)
Altered(r) ==
    IF r.key # NoCipher THEN {[r EXCEPT !.key = [type |-> "altered"]]}
    ELSE IF r.type # "handshake" THEN {[r EXCEPT !.type = IF @ = "ccs" THEN "alert" ELSE "ccs"]}
    ELSE LET m == r.m
             ms == CASE m.type = "clientHello" ->
                          {[m EXCEPT !.vers = VersionTLS12], [m EXCEPT !.vers = VersionTLS11],
                           [m EXCEPT !.suites = SubSeq(@, 2, Len(@))], [m EXCEPT !.alpn = <<>>],
                           [m EXCEPT !.ticket = Nil], [m EXCEPT !.tickets = ~@]}
                     [] m.type = "serverHello" ->
                          {[m EXCEPT !.tickets = ~@], [m EXCEPT !.sid = 1 - @],
                           [m EXCEPT !.suite = "RSA_CBC"], [m EXCEPT !.alpn = None]}
                     [] m.type = "certificate" -> {[m EXCEPT !.certs = <<>>]}
                     [] m.type = "serverKeyExchange" -> {[m EXCEPT !.pub = <<"P256", "server", 0>>]}
                     [] m.type = "clientKeyExchange" -> {[m EXCEPT !.pre = [type |-> "pre", vers |-> 0, fresh |-> 0]]}
                     [] m.type = "certificateRequest" -> {[m EXCEPT !.cas = {}]}
                     [] m.type = "newSessionTicket" -> {[m EXCEPT !.ticket.key = 0]}
                     [] OTHER -> {[m EXCEPT !.type = "helloRequest"]}
         IN  {[r EXCEPT !.m = x] : x \in ms \ {m}}

(* A record of side s is altered while it is under way. *)
Corrupt(s) ==
    /\ faults < MaxFaults /\ ends[s].wire # <<>>
    /\ \E r \in Altered(Head(ends[s].wire)) :
          ends' = [ends EXCEPT ![s].wire = <<r>> \o Tail(@)]
    /\ faults' = faults + 1
    /\ UNCHANGED <<conf, net, ticketKeys, cache, conn, rotates>>

(* The transport breaks: what is under way is gone. *)
LoseConnection ==
    /\ faults < MaxFaults /\ "lost" \notin net
    /\ \E s \in Sides : ~Over(s)
    /\ net' = net \cup {"lost"} /\ faults' = faults + 1
    /\ UNCHANGED <<conf, ends, ticketKeys, cache, conn, rotates>>

(* DialWithDialer closes the transport when its handshake failed, and so   *)
(* does a server; the end of a process closes it as well.                  *)
CloseTransport(s) ==
    /\ ends[s].pc \in {"failed", "panicked"} /\ s \notin net
    /\ net' = net \cup {s}
    /\ UNCHANGED <<conf, ends, ticketKeys, cache, conn, rotates, faults>>

(* Config.SetSessionTicketKeys as a rotation: a new key, and the last one  *)
(* to decrypt the tickets it encrypted                                     *)
SetSessionTicketKeys ==
    /\ rotates < MaxRotates /\ ticketKeys # <<>>
    /\ ticketKeys' = <<100 + rotates, ticketKeys[1]>>
    /\ rotates' = rotates + 1
    /\ UNCHANGED <<conf, ends, net, cache, conn, faults>>

(* The client connects again. Either process may have been restarted: the  *)
(* server loses the keys it made up, the client its cache. The server's    *)
(* configuration may have been replaced (GetConfigForClient).              *)
NewConnection ==
    /\ \A s \in Sides : Over(s) /\ (ends[s].pc # "end" => s \in net)
    /\ conn < MaxConns
    /\ conf' \in {c \in Configs : c.client = conf.client /\ c.server.certs = conf.server.certs}
    /\ ends' = [s \in Sides |-> NewEnd(s)]
    /\ net' = {}
    /\ conn' = conn + 1
    /\ \/ ends["server"].pc # "panicked" /\ ticketKeys' = ServerInit(conf'.server, ticketKeys, conn + 1)
       \/ ticketKeys' = ServerInit(conf'.server, <<>>, conn + 1)
    /\ \/ ends["client"].pc # "panicked" /\ cache' = cache
       \/ cache' = Nil
    /\ UNCHANGED <<rotates, faults>>

Step == ClientStep \/ ServerStep \/ RecordStep

Next ==
    \/ Step
    \/ \E s \in Sides : Corrupt(s) \/ CloseTransport(s)
    \/ LoseConnection \/ SetSessionTicketKeys \/ NewConnection

(* An end that has something to read, or the end of the stream, can go on. *)
Runnable(s) ==
    \/ ends[s].pc = "start"
    \/ HasRecord(s)
    \/ Reading(s) /\ ("lost" \in net \/ (Peer(s) \in net /\ ends[Peer(s)].wire = <<>>))

(* Weak fairness of Step, with Runnable written out for its ENABLED, and   *)
(* of the close by a process that failed or ended                          *)
Fairness ==
    /\ []<>(\A s \in Sides : ~Runnable(s)) \/ []<><<Step>>_ends
    /\ \A s \in Sides : WF_vars(CloseTransport(s))

Spec == Init /\ [][Next]_vars /\ Fairness

-----------------------------------------------------------------------------
(* The handshake function of side s returned without an error. *)
Finished(s) == ends[s].status = 1 \/ ends[s].err = "noResult"

(* The ends, the transport and the ticket keys have their types, and an    *)
(* end writes under its own keys only.                                     *)
TypeOK ==
    /\ conf \in Configs
    /\ net \subseteq Sides \cup {"lost"}
    /\ Len(ticketKeys) <= 2 /\ conn \in 1..MaxConns
    /\ rotates \in 0..MaxRotates /\ faults \in 0..MaxFaults
    /\ \A s \in Sides : /\ ends[s].status \in {0, 1}
                        /\ (ends[s].status = 1) = (ends[s].pc = "end")
                        /\ ends[s].pc = "end" => ends[s].buf = <<>> /\ ends[s].err = None
                        /\ (ends[s].pc \in {"failed", "panicked"}) = (ends[s].err # None)

(* When both handshake functions returned, the two ends have the same       *)
(* version, suite, master secret, kind of handshake, protocol and view of   *)
(* all messages, and each reads with the keys the other writes with         *)
(* (establishKeys, readFinished and sendFinished of both sides).            *)
Agreement ==
    LET a == ends["client"]
        b == ends["server"]
    IN  Finished("client") /\ Finished("server") =>
            /\ a.vers = b.vers /\ a.suite = b.suite /\ a.master = b.master
            /\ (a.resumed <=> b.resumed) /\ a.proto = b.proto /\ a.sum = b.sum
            /\ a.in = b.out /\ a.out = b.in /\ a.in # a.out

(* The same, with both ends well formed: a result is stored exactly when   *)
(* the handshake function returned, and nothing is left to be flushed      *)
(* (clientHandshake, serverHandshakeGM and their error paths).             *)
HandshakeInv == TypeOK /\ Agreement

(* A client only ends its handshake when the server saw exactly the        *)
(* ClientHello it sent and it saw the ServerHello that was sent: no        *)
(* alteration under way, such as a lower version, a shorter list of        *)
(* suites or a dropped ticket, survives the Finished messages.             *)
FinishedProtects ==
    Finished("client") =>
        /\ ends["server"].hello = ends["client"].hello
        /\ ends["server"].sh = ends["client"].sh
        /\ ends["server"].master = ends["client"].master

(* Whatever the handshake was, full or resumed from a ticket that was made *)
(* under another configuration, a server ends it only with the client      *)
(* certificates its current ClientAuth asks for (checkForResumption,       *)
(* processCertsFromClient), and a client that verifies only with the       *)
(* certificate of this server.                                             *)
PolicyHolds ==
    LET c == conf.server
        peer == ends["server"].peer
    IN  /\ Finished("server") =>
             /\ c.auth \in {RequireAnyClientCert, RequireAndVerifyClientCert} => peer # <<>>
             /\ c.auth = 0 => peer = <<>>
             /\ c.auth >= VerifyClientCertIfGiven /\ peer # <<>> =>
                   Verifies(peer[1], {peer[i] : i \in 2..Len(peer)}, c.clientCAs, None)
        /\ Finished("client") /\ ~conf.client.skipVerify =>
             /\ ends["client"].verified
             /\ ends["client"].peer[1] = c.certs[1][1]

(* What the client caches is what the ticket holds for the server: version, *)
(* suite and master secret agree, whatever happened to the ticket under way *)
(* and however old it is (readSessionTicket, sendSessionTicket).            *)
CacheMatchesTicket ==
    cache # Nil =>
        /\ cache.ticket.key # 0
        /\ cache.ticket.state.master = cache.master
        /\ cache.ticket.state.vers = cache.vers
        /\ cache.ticket.state.suite = cache.suite

(* Every handshake ends on both sides, with a result, an error or a panic,  *)
(* although records are altered and the transport breaks: no pair of states *)
(* makes the two ends wait for each other.                                  *)
HandshakeEnds == []<>(\A s \in Sides : Over(s))

(* Conn.Handshake of a server always returns a result: the panic           *)
(* "handshake should have had a result." is an assertion that holds.       *)
HandshakeHasResult == ends["server"].err # "noResult"
=============================================================================
