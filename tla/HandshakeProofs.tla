--------------------------- MODULE HandshakeProofs ---------------------------
(***************************************************************************)
(* Proofs about Handshake, for any configurations and any number of        *)
(* connections, rotations and faults: what the Finished messages protect,  *)
(* what both ends agree on, the policies, and the cached sessions.         *)
(***************************************************************************)
EXTENDS Handshake, FiniteSetTheorems, SequenceTheorems, TLAPS

-----------------------------------------------------------------------------
\* An end: its fields, and sequences of what it sent and of the messages so far.
Fields ==
    {"pc", "vers", "suite", "master", "sum", "keep", "hello", "sh", "session", "offered", "peer",
     "verified", "req", "chain", "ka", "in", "out", "nextIn", "nextOut", "buffering", "buf", "wire",
     "status", "err", "resumed", "proto", "finished"}

Elements(q) == {q[i] : i \in DOMAIN q}
IsSeq(q) == q \in Seq(Elements(q))

FinishedMessage(data) == [type |-> "finished", data |-> data]

\* A Finished message of an end under way is the last one it made, and nothing
\* that is done to records under way makes one.
Sent(e, r) ==
    /\ DOMAIN r = {"type", "m", "key"}
    /\ r.type = "handshake" =>
          /\ "type" \in DOMAIN r.m
          /\ r.m.type = "finished" => e.finished # Nil /\ r.m = FinishedMessage(e.finished)

Proper(e) ==
    /\ DOMAIN e = Fields
    /\ IsSeq(e.wire) /\ IsSeq(e.buf) /\ IsSeq(e.sum)
    /\ \A r \in Elements(e.wire) \cup Elements(e.buf) : Sent(e, r)

Stopped == {"failed", "panicked"}

\* How an end is left: nothing is buffered unless the process panicked, and there
\* is a result or an error.
Left(e) ==
    /\ e.pc # "panicked" => e.buf = <<>>
    /\ e.status = IF e.pc = "end" THEN 1 ELSE 0
    /\ e.pc \in Stopped <=> e.err # None

Ended(e) == e.status = 1 \/ e.err = "noResult"
Keys(e, dir) == KeysFromMasterSecret(e.master, e.hello.random, e.sh.random, dir)
NoKeys(e) == e.in = Nil /\ e.out = Nil /\ e.nextIn = Nil /\ e.nextOut = Nil
Latest(q) == q[Len(q)]

-----------------------------------------------------------------------------
\* The server, with configuration c
Policy(c, peer) ==
    /\ c.auth \in {RequireAnyClientCert, RequireAndVerifyClientCert} => peer # <<>>
    /\ c.auth = 0 => peer = <<>>
    /\ c.auth >= VerifyClientCertIfGiven /\ peer # <<>> =>
          Verifies(peer[1], {peer[i] : i \in 2..Len(peer)}, c.clientCAs, None)

\* Once there is a handshake hash it begins with the two hellos, and after them
\* the certificate in a full handshake.
ServerHash(e, c) ==
    e.sum # <<>> =>
        /\ Len(e.sum) >= 2 /\ e.sum[1] = e.hello /\ e.sum[2] = e.sh
        /\ e.vers = MutualVersion(c, e.hello.vers) /\ e.sh.vers = e.vers /\ e.sh.suite = e.suite
        /\ e.resumed => e.hello.ticket # Nil /\ e.sh.sid = e.hello.sid
        /\ ~e.resumed => e.sh.sid = 0 /\ Len(e.sum) >= 3 /\ e.sum[3].certs[1] = c.certs[1][1]
        /\ e.sh.tickets => ~c.noTickets
        /\ e.sh.npn = <<>> => e.proto = e.sh.alpn

\* A ticket for this session, under a key of the server
TicketOf(e, ticket) ==
    /\ ticket.key # 0
    /\ ticket.state.vers = e.vers /\ ticket.state.suite = e.suite /\ ticket.state.master = e.master

\* What the server's Finished is over
ServerFinished(e) ==
    e.finished # Nil =>
        /\ e.sum # <<>>
        /\ e.finished = [who |-> "server", master |-> e.master, sum |-> e.finished.sum]
        /\ IsSeq(e.finished.sum) /\ Len(e.finished.sum) >= 2
        /\ e.finished.sum[1] = e.hello /\ e.finished.sum[2] = e.sh
        /\ ~e.resumed => /\ Len(e.finished.sum) >= 3
                         /\ e.sum = Append(e.finished.sum, FinishedMessage(e.finished))
        /\ e.sh.tickets => TicketOf(e, Latest(e.finished.sum).ticket)
        /\ e.out = Keys(e, "s2c")

\* What it has and knows at each place
ServerPlace(e, c) ==
    /\ e.pc \in {"clientHello", "certificate", "clientKeyExchange", "certificateVerify", "ccs", "nextProto",
                 "finished", "end"} \cup Stopped
    /\ e.pc = "clientHello" => e.sum = <<>> /\ e.peer = <<>>
    /\ e.pc \in {"certificate", "clientKeyExchange", "certificateVerify"} => e.sum # <<>>
    /\ e.pc \in {"clientHello", "certificate", "clientKeyExchange", "certificateVerify"} =>
          ~e.resumed /\ e.finished = Nil /\ NoKeys(e)
    /\ e.pc = "certificate" => c.auth # 0
    /\ e.pc \in {"clientKeyExchange", "certificateVerify", "ccs", "nextProto", "finished"} \/ Ended(e) =>
          Policy(c, e.peer)
    /\ e.pc \in {"ccs", "nextProto", "finished"} =>
          /\ e.sum # <<>>
          /\ e.resumed => e.finished # Nil
          /\ ~e.resumed => e.finished = Nil /\ e.nextOut = Keys(e, "s2c")
    /\ e.pc = "ccs" => e.nextIn = Keys(e, "c2s")
    /\ e.pc \in {"nextProto", "finished"} \/ Ended(e) => e.in = Keys(e, "c2s")
    /\ e.pc = "nextProto" => e.sh.npn # <<>>
    /\ e.pc = "finished" /\ e.sh.npn # <<>> => Latest(e.sum).proto = e.proto
    /\ Ended(e) => e.finished # Nil

ServerInv(e, c) == Proper(e) /\ Left(e) /\ ServerHash(e, c) /\ ServerFinished(e) /\ ServerPlace(e, c)

-----------------------------------------------------------------------------
\* The client, with configuration c, of a server with chains
AboutServer(c, chains, peer, verified) ==
    ~c.skipVerify => verified /\ peer[1] = chains[1][1]

Offer(e, c, chains) ==
    /\ e.offered # Nil => AboutServer(c, chains, e.offered.peer, e.offered.verified)
    /\ e.hello # Nil =>
          /\ e.hello.sid # 0 <=> e.offered # Nil
          /\ e.hello.ticket # Nil => e.offered # Nil
          /\ e.hello.vers \in Nat /\ (~c.gm => e.hello.vers = MaxVersion(c))

ClientHash(e) ==
    e.sum # <<>> =>
        /\ e.hello # Nil
        /\ Len(e.sum) >= 2 /\ e.sum[1] = e.hello /\ e.sum[2] = e.sh
        /\ e.vers = e.sh.vers \/ e.sh.vers > e.hello.vers
        /\ e.suite = e.sh.suite
        /\ e.resumed <=> e.offered # Nil /\ e.hello.sid # 0 /\ e.sh.sid = e.hello.sid
        /\ e.resumed => e.peer = e.offered.peer /\ e.verified = e.offered.verified
        /\ e.sh.npn = <<>> => e.proto = e.sh.alpn

ClientFinished(e) ==
    e.finished # Nil =>
        /\ e.sum # <<>>
        /\ e.finished = [who |-> "client", master |-> e.master, sum |-> e.finished.sum]
        /\ e.sh.npn # <<>> => Latest(e.finished.sum).proto = e.proto
        /\ e.resumed => e.sum = Append(e.finished.sum, FinishedMessage(e.finished))
        /\ e.out = Keys(e, "c2s")

ClientPlace(e, c, chains) ==
    /\ e.pc \in {"start", "serverHello", "certificate", "status", "skx", "certReq", "serverHelloDone",
                 "newSessionTicket", "ccs", "finished", "end"} \cup Stopped
    /\ e.err # "noResult"
    /\ e.pc \in {"start", "serverHello"} => e.sum = <<>> /\ e.proto = None
    /\ e.pc = "start" => e.hello = Nil /\ e.session = Nil /\ e.offered = Nil /\ ~e.buffering
    /\ e.pc = "serverHello" => e.hello # Nil /\ (c.gm => e.vers = VersionGMSSL)
    /\ e.pc \in {"certificate", "status", "skx", "certReq", "serverHelloDone"} => e.sum # <<>>
    /\ e.pc \in {"start", "serverHello", "certificate", "status", "skx", "certReq", "serverHelloDone"} =>
          ~e.resumed /\ e.finished = Nil /\ NoKeys(e)
    /\ e.pc \in {"start", "serverHello", "certificate", "status", "skx", "certReq", "serverHelloDone",
                 "newSessionTicket"} => e.session = e.offered
    /\ e.pc = "certificate" => Len(e.sum) = 2
    /\ e.pc \in {"status", "skx", "certReq", "serverHelloDone", "newSessionTicket", "ccs", "finished"} /\ ~e.resumed =>
          Len(e.sum) >= 3 /\ e.sum[3].certs = e.peer /\ (e.verified <=> ~c.skipVerify)
    /\ e.pc \in {"newSessionTicket", "ccs", "finished"} =>
          /\ e.sum # <<>>
          /\ e.resumed => e.finished = Nil /\ e.nextOut = Keys(e, "c2s")
          /\ ~e.resumed => e.finished # Nil
    /\ e.pc \in {"newSessionTicket", "ccs"} => e.nextIn = Keys(e, "s2c")
    /\ e.pc = "newSessionTicket" => e.sh.tickets
    /\ e.pc \in {"ccs", "finished"} =>
          e.session = IF e.sh.tickets THEN Session(e, Latest(e.sum).ticket) ELSE e.offered
    /\ e.pc \in {"finished", "end"} => e.in = Keys(e, "s2c")
    /\ e.pc = "end" => e.finished # Nil /\ AboutServer(c, chains, e.peer, e.verified)

ClientInv(e, c, chains) ==
    Proper(e) /\ Left(e) /\ Offer(e, c, chains) /\ ClientHash(e) /\ ClientFinished(e) /\ ClientPlace(e, c, chains)

-----------------------------------------------------------------------------
\* What an end that returned knows of the other one: it read its Finished.
ClientReturned(a, b) ==
    a.pc = "end" =>
        /\ b.finished # Nil /\ a.master = b.finished.master
        /\ a.sum[1] = b.finished.sum[1] /\ a.sum[2] = b.finished.sum[2]
        /\ ~a.resumed => a.sum = Append(b.finished.sum, FinishedMessage(b.finished))

ServerReturned(a, b) ==
    Ended(b) =>
        /\ a.finished # Nil /\ b.master = a.finished.master
        /\ b.resumed => b.sum = Append(a.finished.sum, FinishedMessage(a.finished))
        /\ b.sh.npn # <<>> => Latest(a.finished.sum).proto = b.proto

\* A session in the cache is one with this server, and with a ticket for it.
CacheInv ==
    cache # Nil =>
        /\ AboutServer(conf.client, conf.server.certs, cache.peer, cache.verified)
        /\ TicketOf(cache, cache.ticket)

\* The server can encrypt tickets, under the latest of at most two keys.
EnvInv ==
    /\ conf \in Configs
    /\ net \subseteq Sides \cup {"lost"}
    /\ ticketKeys \in Seq(Nat \ {0}) /\ Len(ticketKeys) <= 2
    /\ ~conf.server.noTickets => ticketKeys # <<>>
    /\ conn \in 1..MaxConns /\ rotates \in 0..MaxRotates /\ faults \in 0..MaxFaults

Inv ==
    /\ EnvInv
    /\ CacheInv
    /\ DOMAIN ends = Sides
    /\ ServerInv(Server, conf.server)
    /\ ClientInv(Client, conf.client, conf.server.certs)
    /\ ClientReturned(Client, Server)
    /\ ServerReturned(Client, Server)

-----------------------------------------------------------------------------
\* Sequences, whatever they are of
LEMMA SeqAppend ==
    ASSUME NEW q, IsSeq(q), NEW x
    PROVE  /\ IsSeq(Append(q, x)) /\ Elements(Append(q, x)) = Elements(q) \cup {x}
           /\ Len(q) \in Nat /\ Len(Append(q, x)) = Len(q) + 1 /\ Append(q, x) # <<>>
           /\ Append(q, x)[Len(q) + 1] = x
           /\ \A i \in 1..Len(q) : Append(q, x)[i] = q[i]
<1>1. PICK S : S = Elements(q) \cup {x}
  OBVIOUS
<1>2. q \in Seq(S) /\ x \in S
  <2>1. q \in Seq(Elements(q)) /\ Elements(q) \subseteq S
    BY <1>1 DEF IsSeq
  <2>. QED
    BY <1>1, <2>1, SeqMonotonic
<1>3. PICK p : p = Append(q, x)
  OBVIOUS
<1>4. /\ p \in Seq(S) /\ Len(p) = Len(q) + 1 /\ Len(q) \in Nat
      /\ p[Len(q) + 1] = x /\ \A i \in 1..Len(q) : p[i] = q[i]
  BY <1>2, <1>3, AppendProperties, LenProperties
<1>5. DOMAIN p = 1..Len(q) + 1 /\ DOMAIN q = 1..Len(q)
  BY <1>2, <1>4, LenProperties
<1>6. Elements(p) = S
  BY <1>1, <1>4, <1>5 DEF Elements
<1>7. p # <<>>
  BY <1>4
<1>. QED
  BY <1>1, <1>3, <1>4, <1>6, <1>7 DEF IsSeq

\* The rest of a sequence
LEMMA SeqTail ==
    ASSUME NEW q, IsSeq(q), q # <<>>
    PROVE  /\ IsSeq(Tail(q)) /\ Elements(Tail(q)) \subseteq Elements(q)
           /\ Head(q) \in Elements(q) /\ Len(q) \in Nat \ {0}
<1>1. PICK S : S = Elements(q)
  OBVIOUS
<1>2. q \in Seq(S) /\ Len(q) \in Nat \ {0}
  BY <1>1, EmptySeq DEF IsSeq
<1>3. PICK t : t = Tail(q)
  OBVIOUS
<1>4. /\ t \in Seq(S) /\ Len(t) = Len(q) - 1 /\ Head(q) \in S
      /\ \A i \in 1..Len(t) : t[i] = q[i + 1]
  BY <1>2, <1>3, HeadTailProperties
<1>5. DOMAIN t = 1..Len(q) - 1 /\ DOMAIN q = 1..Len(q)
  BY <1>2, <1>4, LenProperties
<1>6. Elements(t) \subseteq S
  <2>1. \A i \in 1..Len(q) - 1 : i + 1 \in 1..Len(q) /\ t[i] = q[i + 1]
    BY <1>2, <1>4
  <2>. QED
    BY <2>1, <1>1, <1>5 DEF Elements
<1>7. t \in Seq(Elements(t))
  <2>1. t \in [1..Len(q) - 1 -> Elements(t)]
    BY <1>4, <1>5, LenProperties DEF Elements
  <2>. QED
    BY <2>1, <1>2, SeqDef
<1>. QED
  BY <1>1, <1>2, <1>3, <1>4, <1>6, <1>7 DEF IsSeq

\* One sequence after another
LEMMA SeqConcat ==
    ASSUME NEW p, IsSeq(p), NEW q, IsSeq(q)
    PROVE  IsSeq(p \o q) /\ Elements(p \o q) = Elements(p) \cup Elements(q)
<1>1. PICK S : S = Elements(p) \cup Elements(q)
  OBVIOUS
<1>2. p \in Seq(S) /\ q \in Seq(S)
  BY <1>1, SeqMonotonic DEF IsSeq
<1>3. PICK r : r = p \o q
  OBVIOUS
<1>4. PICK m \in Nat, n \in Nat : m = Len(p) /\ n = Len(q)
  BY <1>2, LenProperties
<1>5. /\ r \in Seq(S) /\ Len(r) = m + n
      /\ \A i \in 1..m + n : r[i] = IF i <= m THEN p[i] ELSE q[i - m]
  BY <1>2, <1>3, <1>4, ConcatProperties
<1>6. DOMAIN r = 1..m + n /\ DOMAIN p = 1..m /\ DOMAIN q = 1..n
  BY <1>2, <1>4, <1>5, LenProperties
<1>7. Elements(r) \subseteq S
  BY <1>5, <1>6, LenProperties DEF Elements
<1>8. ASSUME NEW x \in S PROVE x \in Elements(r)
  <2>1. CASE x \in Elements(p)
    <3>1. PICK i \in 1..m : x = p[i]
      BY <2>1, <1>6 DEF Elements
    <3>2. i \in 1..m + n /\ i <= m
      BY <1>4
    <3>. QED
      BY <3>1, <3>2, <1>5, <1>6 DEF Elements
  <2>2. CASE x \in Elements(q)
    <3>1. PICK i \in 1..n : x = q[i]
      BY <2>2, <1>6 DEF Elements
    <3>2. m + i \in 1..m + n /\ ~(m + i <= m) /\ m + i - m = i
      BY <1>4
    <3>3. r[m + i] = q[i]
      BY <3>2, <1>5
    <3>. QED
      BY <3>1, <3>2, <3>3, <1>6 DEF Elements
  <2>. QED
    BY <2>1, <2>2, <1>1
<1>9. Elements(r) = S
  BY <1>7, <1>8
<1>. QED
  BY <1>1, <1>3, <1>5, <1>9 DEF IsSeq

\* The shortest sequences
LEMMA SeqShort ==
    ASSUME NEW x, NEW y
    PROVE  /\ IsSeq(<<>>) /\ Elements(<<>>) = {}
           /\ IsSeq(<<x>>) /\ Elements(<<x>>) = {x} /\ <<x>> # <<>> /\ Len(<<x>>) = 1 /\ <<x>>[1] = x
           /\ IsSeq(<<x, y>>) /\ Len(<<x, y>>) = 2 /\ <<x, y>> # <<>>
           /\ <<x, y>>[1] = x /\ <<x, y>>[2] = y
<1>1. DOMAIN <<>> = {} /\ DOMAIN <<x>> = {1} /\ DOMAIN <<x, y>> = {1, 2}
  OBVIOUS
<1>2. Elements(<<>>) = {} /\ Elements(<<x>>) = {x} /\ Elements(<<x, y>>) = {x, y}
  BY <1>1 DEF Elements
<1>. QED
  BY <1>2 DEF IsSeq

-----------------------------------------------------------------------------
\* Ends: f is e but for some fields
Same(e, f, changed) == \A x \in Fields \ changed : f[x] = e[x]

\* What was sent stays as good, where nothing is sent and no new Finished is made.
LEMMA ProperSame ==
    ASSUME NEW e, Proper(e), NEW f, DOMAIN f = Fields, IsSeq(f.sum),
           f.wire = e.wire, f.buf = e.buf,
           f.finished = e.finished \/ e.finished = Nil
    PROVE  Proper(f)
<1>1. \A r : Sent(e, r) => Sent(f, r)
  BY DEF Sent
<1>. QED
  BY <1>1 DEF Proper

\* Conn.write
LEMMA WriteEnd ==
    ASSUME NEW e, Proper(e), NEW r, Sent(e, r)
    PROVE  /\ Proper(Write(e, r)) /\ Same(e, Write(e, r), {"wire", "buf"})
           /\ ~e.buffering => Write(e, r).buf = e.buf
<1>1. PICK w, b : w = Append(e.wire, r) /\ b = Append(e.buf, r)
  OBVIOUS
<1>2. /\ IsSeq(w) /\ Elements(w) = Elements(e.wire) \cup {r}
      /\ IsSeq(b) /\ Elements(b) = Elements(e.buf) \cup {r}
  BY <1>1, SeqAppend DEF Proper
<1>3. PICK f : f = Write(e, r)
  OBVIOUS
<1>4. CASE e.buffering
  <2>1. f = [e EXCEPT !.buf = b]
    BY <1>1, <1>3, <1>4 DEF Write
  <2>2. DOMAIN f = Fields /\ f.buf = b /\ Same(e, f, {"wire", "buf"}) /\ f.wire = e.wire
    BY <2>1 DEF Proper, Same, Fields
  <2>3. f.finished = e.finished /\ f.sum = e.sum
    BY <2>2 DEF Same, Fields
  <2>4. \A x : Sent(e, x) => Sent(f, x)
    BY <2>3 DEF Sent
  <2>5. Proper(f)
    BY <1>2, <2>2, <2>3, <2>4 DEF Proper
  <2>. QED
    BY <1>3, <1>4, <2>2, <2>5
<1>5. CASE ~e.buffering
  <2>1. f = [e EXCEPT !.wire = w]
    BY <1>1, <1>3, <1>5 DEF Write
  <2>2. DOMAIN f = Fields /\ f.wire = w /\ Same(e, f, {"wire", "buf"}) /\ f.buf = e.buf
    BY <2>1 DEF Proper, Same, Fields
  <2>3. f.finished = e.finished /\ f.sum = e.sum
    BY <2>2 DEF Same, Fields
  <2>4. \A x : Sent(e, x) => Sent(f, x)
    BY <2>3 DEF Sent
  <2>5. Proper(f)
    BY <1>2, <2>2, <2>3, <2>4 DEF Proper
  <2>. QED
    BY <1>3, <2>2, <2>5
<1>. QED
  BY <1>4, <1>5

\* Conn.flush
LEMMA FlushEnd ==
    ASSUME NEW e, Proper(e)
    PROVE  /\ Proper(Flush(e)) /\ Same(e, Flush(e), {"wire", "buf", "buffering"})
           /\ Flush(e).buf = <<>>
<1>1. CASE e.buf = <<>>
  BY <1>1 DEF Flush, Same
<1>2. CASE e.buf # <<>>
  <2>1. PICK w : w = e.wire \o e.buf
    OBVIOUS
  <2>2. IsSeq(w) /\ Elements(w) = Elements(e.wire) \cup Elements(e.buf)
    BY <2>1, SeqConcat DEF Proper
  <2>3. PICK f : f = Flush(e)
    OBVIOUS
  <2>4. f = [e EXCEPT !.wire = w, !.buf = <<>>, !.buffering = FALSE]
    BY <1>2, <2>1, <2>3 DEF Flush
  <2>5. /\ DOMAIN f = Fields /\ f.wire = w /\ f.buf = <<>>
        /\ Same(e, f, {"wire", "buf", "buffering"})
    BY <2>4 DEF Proper, Same, Fields
  <2>6. f.finished = e.finished /\ f.sum = e.sum
    BY <2>5 DEF Same, Fields
  <2>7. \A x : Sent(e, x) => Sent(f, x)
    BY <2>6 DEF Sent
  <2>8. Proper(f)
    BY <2>2, <2>5, <2>6, <2>7, SeqShort DEF Proper
  <2>. QED
    BY <2>3, <2>5, <2>8
<1>. QED
  BY <1>1, <1>2

\* finishedHash.Write and writeRecord
LEMMA WriteHandshakeEnd ==
    ASSUME NEW e, Proper(e), NEW m, "type" \in DOMAIN m,
           m.type # "finished" \/ (e.finished # Nil /\ m = FinishedMessage(e.finished))
    PROVE  /\ Proper(WriteHandshake(e, m)) /\ Same(e, WriteHandshake(e, m), {"wire", "buf", "sum"})
           /\ WriteHandshake(e, m).sum = Append(e.sum, m)
           /\ ~e.buffering => WriteHandshake(e, m).buf = e.buf
<1>1. PICK r : r = Record(e, "handshake", m)
  OBVIOUS
<1>2. Sent(e, r)
  BY <1>1 DEF Sent, Record
<1>3. PICK w : w = Write(e, r)
  OBVIOUS
<1>4. /\ Proper(w) /\ Same(e, w, {"wire", "buf"})
      /\ ~e.buffering => w.buf = e.buf
  BY <1>2, <1>3, WriteEnd
<1>5. PICK q : q = Append(e.sum, m)
  OBVIOUS
<1>6. IsSeq(q)
  BY <1>5, SeqAppend DEF Proper
<1>7. w.sum = e.sum
  BY <1>4 DEF Same, Fields
<1>8. PICK f : f = WriteHandshake(e, m)
  OBVIOUS
<1>9. f = [w EXCEPT !.sum = q]
  BY <1>1, <1>3, <1>5, <1>7, <1>8 DEF WriteHandshake
<1>10. DOMAIN f = Fields /\ f.sum = q /\ Same(w, f, {"sum"})
  BY <1>4, <1>9 DEF Proper, Same, Fields
<1>11. f.wire = w.wire /\ f.buf = w.buf /\ f.finished = w.finished
  BY <1>10 DEF Same, Fields
<1>12. Proper(f)
  BY <1>4, <1>6, <1>10, <1>11, ProperSame
<1>13. Same(e, f, {"wire", "buf", "sum"})
  BY <1>4, <1>10 DEF Same
<1>. QED
  BY <1>4, <1>5, <1>8, <1>10, <1>11, <1>12, <1>13

\* writeRecordLocked of a ChangeCipherSpec
LEMMA WriteChangeCipherSpecEnd ==
    ASSUME NEW e, Proper(e)
    PROVE  /\ Proper(WriteChangeCipherSpec(e))
           /\ Same(e, WriteChangeCipherSpec(e), {"wire", "buf", "out", "nextOut"})
           /\ WriteChangeCipherSpec(e).out = e.nextOut
<1>1. PICK r : r = Record(e, "ccs", Nil)
  OBVIOUS
<1>2. Sent(e, r)
  BY <1>1 DEF Sent, Record
<1>3. PICK w : w = Write(e, r)
  OBVIOUS
<1>4. Proper(w) /\ Same(e, w, {"wire", "buf"})
  BY <1>2, <1>3, WriteEnd
<1>5. PICK f, k : f = WriteChangeCipherSpec(e) /\ k = e.nextOut
  OBVIOUS
<1>6. f = [w EXCEPT !.out = k, !.nextOut = Nil]
  BY <1>1, <1>3, <1>5 DEF WriteChangeCipherSpec, NoCipher
<1>7. DOMAIN f = Fields /\ f.out = k /\ Same(w, f, {"out", "nextOut"})
  BY <1>4, <1>6 DEF Proper, Same, Fields
<1>8. f.wire = w.wire /\ f.buf = w.buf /\ f.finished = w.finished /\ f.sum = w.sum
  BY <1>7 DEF Same, Fields
<1>9. Proper(f)
  BY <1>4, <1>7, <1>8, ProperSame DEF Proper
<1>10. Same(e, f, {"wire", "buf", "out", "nextOut"})
  BY <1>4, <1>7 DEF Same
<1>. QED
  BY <1>5, <1>7, <1>9, <1>10

\* How an end stops: with an error, and nothing else that counts
Stops(e, f) ==
    /\ Proper(f) /\ Same(e, f, {"pc", "err", "wire", "buf", "buffering"})
    /\ f.pc \in Stopped /\ f.err \notin {None, "noResult"}
    /\ f.pc # "panicked" => f.buf = <<>>

\* An error return
LEMMA AbortStops ==
    ASSUME NEW e, Proper(e), NEW why, why \notin {None, "noResult"}
    PROVE  Stops(e, Abort(e, why))
<1>1. PICK g : g = [e EXCEPT !.err = why, !.pc = "failed"]
  OBVIOUS
<1>2. /\ DOMAIN g = Fields /\ g.err = why /\ g.pc = "failed" /\ Same(e, g, {"pc", "err"})
  BY <1>1 DEF Proper, Same, Fields
<1>3. g.wire = e.wire /\ g.buf = e.buf /\ g.finished = e.finished /\ g.sum = e.sum
  BY <1>2 DEF Same, Fields
<1>4. Proper(g)
  BY <1>2, <1>3, ProperSame DEF Proper
<1>5. PICK f : f = Flush(g)
  OBVIOUS
<1>6. Proper(f) /\ Same(g, f, {"wire", "buf", "buffering"}) /\ f.buf = <<>>
  BY <1>4, <1>5, FlushEnd
<1>7. f.err = why /\ f.pc = "failed"
  BY <1>2, <1>6 DEF Same, Fields
<1>8. Same(e, f, {"pc", "err", "wire", "buf", "buffering"})
  BY <1>2, <1>6 DEF Same
<1>9. f = Abort(e, why)
  BY <1>1, <1>5 DEF Abort
<1>. QED
  BY <1>6, <1>7, <1>8, <1>9 DEF Stops, Stopped

\* An alert and the error return
LEMMA FailStops ==
    ASSUME NEW e, Proper(e), NEW alert, alert \notin {None, "noResult"}
    PROVE  Stops(e, Fail(e, alert))
<1>1. PICK r : r = Record(e, "alert", [type |-> alert])
  OBVIOUS
<1>2. Sent(e, r)
  BY <1>1 DEF Sent, Record
<1>3. PICK w : w = Write(e, r)
  OBVIOUS
<1>4. Proper(w) /\ Same(e, w, {"wire", "buf"})
  BY <1>2, <1>3, WriteEnd
<1>5. PICK f : f = Abort(w, alert)
  OBVIOUS
<1>6. Stops(w, f)
  BY <1>4, <1>5, AbortStops
<1>7. f = Fail(e, alert)
  BY <1>1, <1>3, <1>5 DEF Fail
<1>. QED
  BY <1>4, <1>6, <1>7 DEF Stops, Same

\* A panic
LEMMA PanicStops ==
    ASSUME NEW e, Proper(e), NEW why, why \notin {None, "noResult"}
    PROVE  Stops(e, Panic(e, why))
<1>1. PICK f : f = Panic(e, why)
  OBVIOUS
<1>2. DOMAIN f = Fields /\ f.err = why /\ f.pc = "panicked" /\ Same(e, f, {"pc", "err"})
  BY <1>1 DEF Panic, Proper, Same, Fields
<1>3. f.wire = e.wire /\ f.buf = e.buf /\ f.finished = e.finished /\ f.sum = e.sum
  BY <1>2 DEF Same, Fields
<1>4. Proper(f)
  BY <1>2, <1>3, ProperSame DEF Proper
<1>. QED
  BY <1>1, <1>2, <1>4 DEF Stops, Stopped, Same

\* A chain of early returns: it stops, or no check fires.
LEMMA CheckedEnd ==
    ASSUME NEW e, Proper(e), NEW checks, NEW ok,
           DOMAIN checks \subseteq 1..5,
           \A i \in DOMAIN checks : checks[i][2] \notin {None, "noResult"}
    PROVE  \/ Stops(e, Checked(e, checks, ok))
           \/ Checked(e, checks, ok) = ok /\ \A i \in DOMAIN checks : ~checks[i][1]
<1>1. PICK fired : fired = {i \in DOMAIN checks : checks[i][1]}
  OBVIOUS
<1>2. CASE fired = {}
  BY <1>1, <1>2 DEF Checked
<1>3. CASE fired # {}
  <2>1. fired \subseteq 1..5
    BY <1>1
  <2>2. \E i \in fired : \A j \in fired : i <= j
    <3>1. CASE 1 \in fired
      BY <2>1, <3>1
    <3>2. CASE 1 \notin fired /\ 2 \in fired
      BY <2>1, <3>2
    <3>3. CASE 1 \notin fired /\ 2 \notin fired /\ 3 \in fired
      BY <2>1, <3>3
    <3>4. CASE 1 \notin fired /\ 2 \notin fired /\ 3 \notin fired /\ 4 \in fired
      BY <2>1, <3>4
    <3>5. CASE 1 \notin fired /\ 2 \notin fired /\ 3 \notin fired /\ 4 \notin fired
      <4>1. 5 \in fired
        <5>1. PICK x \in fired : TRUE
          BY <1>3
        <5>2. x \in 1..5 /\ x # 1 /\ x # 2 /\ x # 3 /\ x # 4
          BY <5>1, <2>1, <3>5
        <5>3. x = 5
          BY <5>2
        <5>. QED
          BY <5>1, <5>3
      <4>2. \A j \in fired : 5 <= j
        BY <2>1, <3>5
      <4>. QED
        BY <4>1, <4>2
    <3>. QED
      BY <3>1, <3>2, <3>3, <3>4, <3>5
  <2>3. PICK i : i = CHOOSE n \in fired : \A j \in fired : n <= j
    OBVIOUS
  <2>4. i \in fired
    BY <2>2, <2>3
  <2>5. Checked(e, checks, ok) = Fail(e, checks[i][2])
    BY <1>1, <1>3, <2>3 DEF Checked
  <2>. QED
    BY <1>1, <2>4, <2>5, FailStops
<1>. QED
  BY <1>2, <1>3

\* establishKeys
LEMMA EstablishKeysEnd ==
    ASSUME NEW e, Proper(e), NEW inDir, NEW outDir
    PROVE  /\ Proper(EstablishKeys(e, inDir, outDir))
           /\ Same(e, EstablishKeys(e, inDir, outDir), {"nextIn", "nextOut"})
           /\ EstablishKeys(e, inDir, outDir).nextIn = Keys(e, inDir)
           /\ EstablishKeys(e, inDir, outDir).nextOut = Keys(e, outDir)
<1>1. PICK f, i, o : f = EstablishKeys(e, inDir, outDir) /\ i = Keys(e, inDir) /\ o = Keys(e, outDir)
  OBVIOUS
<1>2. f = [e EXCEPT !.nextIn = i, !.nextOut = o]
  BY <1>1 DEF EstablishKeys, Keys
<1>3. DOMAIN f = Fields /\ f.nextIn = i /\ f.nextOut = o /\ Same(e, f, {"nextIn", "nextOut"})
  BY <1>2 DEF Proper, Same, Fields
<1>4. f.wire = e.wire /\ f.buf = e.buf /\ f.finished = e.finished /\ f.sum = e.sum
  BY <1>3 DEF Same, Fields
<1>5. Proper(f)
  BY <1>3, <1>4, ProperSame DEF Proper
<1>. QED
  BY <1>1, <1>3, <1>5

\* Keys are never no keys, and those of the two directions differ.
LEMMA KeysDiffer ==
    ASSUME NEW e PROVE Keys(e, "s2c") # Nil /\ Keys(e, "c2s") # Nil /\ Keys(e, "s2c") # Keys(e, "c2s")
<1>1. \A dir : Keys(e, dir).dir = dir
  BY DEF Keys, KeysFromMasterSecret
<1>2. \A dir : DOMAIN Keys(e, dir) = {"master", "seed", "dir"}
  BY DEF Keys, KeysFromMasterSecret
<1>3. DOMAIN Nil = {"type"}
  BY DEF Nil
<1>. QED
  BY <1>1, <1>2, <1>3

-----------------------------------------------------------------------------
\* The Finished of an end that has made none, and the flush
LEMMA SendFinishedEnd ==
    ASSUME NEW e, Proper(e), e.finished = Nil, NEW who,
           NEW F, F = FinishedSum(e, who),
           NEW g, g = Flush(WriteHandshake([e EXCEPT !.finished = F], FinishedMessage(F)))
    PROVE  /\ Proper(g) /\ Same(e, g, {"wire", "buf", "buffering", "sum", "finished"})
           /\ F # Nil /\ g.finished = F /\ g.sum = Append(e.sum, FinishedMessage(F)) /\ g.buf = <<>>
<1>1. F # Nil
  <2>1. DOMAIN F = {"who", "master", "sum"} /\ DOMAIN Nil = {"type"}
    BY DEF FinishedSum, Nil
  <2>. QED
    BY <2>1
<1>2. PICK f : f = [e EXCEPT !.finished = F]
  OBVIOUS
<1>3. DOMAIN f = Fields /\ f.finished = F /\ Same(e, f, {"finished"})
  BY <1>2 DEF Proper, Same, Fields
<1>4. f.wire = e.wire /\ f.buf = e.buf /\ f.sum = e.sum
  BY <1>3 DEF Same, Fields
<1>5. Proper(f)
  BY <1>3, <1>4, ProperSame DEF Proper
<1>6. PICK m : m = FinishedMessage(F)
  OBVIOUS
<1>7. "type" \in DOMAIN m /\ m = FinishedMessage(f.finished) /\ f.finished # Nil
  BY <1>1, <1>3, <1>6 DEF FinishedMessage
<1>8. PICK h : h = WriteHandshake(f, m)
  OBVIOUS
<1>9. Proper(h) /\ Same(f, h, {"wire", "buf", "sum"}) /\ h.sum = Append(f.sum, m)
  BY <1>5, <1>7, <1>8, WriteHandshakeEnd
<1>10. g = Flush(h)
  BY <1>2, <1>6, <1>8
<1>11. Proper(g) /\ Same(h, g, {"wire", "buf", "buffering"}) /\ g.buf = <<>>
  BY <1>9, <1>10, FlushEnd
<1>12. g.finished = F
  BY <1>3, <1>9, <1>11 DEF Same, Fields
<1>13. g.sum = Append(e.sum, m)
  BY <1>4, <1>9, <1>11 DEF Same, Fields
<1>14. Same(e, g, {"wire", "buf", "buffering", "sum", "finished"})
  BY <1>3, <1>9, <1>11 DEF Same
<1>. QED
  BY <1>1, <1>6, <1>11, <1>12, <1>13, <1>14

\* sendFinished of the server
LEMMA SendServerFinishedEnd ==
    ASSUME NEW e, Proper(e), e.finished = Nil, NEW g, g = SendServerFinished(e)
    PROVE  /\ Proper(g) /\ g.finished # Nil /\ g.buf = <<>> /\ g.out = e.nextOut
           /\ Same(e, g, {"wire", "buf", "buffering", "sum", "finished", "out", "nextOut"})
           /\ g.finished = [who |-> "server", master |-> e.master, sum |-> e.sum]
           /\ g.sum = Append(e.sum, FinishedMessage(g.finished))
<1>1. PICK f : f = WriteChangeCipherSpec(e)
  OBVIOUS
<1>2. Proper(f) /\ Same(e, f, {"wire", "buf", "out", "nextOut"}) /\ f.out = e.nextOut
  BY <1>1, WriteChangeCipherSpecEnd
<1>3. f.finished = Nil /\ f.sum = e.sum /\ f.master = e.master
  BY <1>2 DEF Same, Fields
<1>4. PICK F : F = FinishedSum(f, "server")
  OBVIOUS
<1>5. g = Flush(WriteHandshake([f EXCEPT !.finished = F], FinishedMessage(F)))
  BY <1>1, <1>4 DEF SendServerFinished, FinishedMessage
<1>6. /\ Proper(g) /\ Same(f, g, {"wire", "buf", "buffering", "sum", "finished"})
      /\ F # Nil /\ g.finished = F /\ g.sum = Append(f.sum, FinishedMessage(F)) /\ g.buf = <<>>
  BY <1>2, <1>3, <1>4, <1>5, SendFinishedEnd
<1>7. g.out = e.nextOut
  BY <1>2, <1>6 DEF Same, Fields
<1>8. F = [who |-> "server", master |-> e.master, sum |-> e.sum]
  BY <1>3, <1>4 DEF FinishedSum
<1>9. Same(e, g, {"wire", "buf", "buffering", "sum", "finished", "out", "nextOut"})
  BY <1>2, <1>6 DEF Same
<1>. QED
  BY <1>3, <1>6, <1>7, <1>8, <1>9

\* sendFinished of the client, after the protocol it takes of those offered
LEMMA SendClientFinishedEnd ==
    ASSUME NEW e, Proper(e), e.finished = Nil, NEW c, NEW g, g = SendClientFinished(e, c)
    PROVE  /\ Proper(g) /\ g.finished # Nil /\ g.buf = <<>> /\ g.out = e.nextOut
           /\ Same(e, g, {"wire", "buf", "buffering", "sum", "finished", "out", "nextOut", "proto"})
           /\ g.finished = [who |-> "client", master |-> e.master, sum |-> g.finished.sum]
           /\ g.sum = Append(g.finished.sum, FinishedMessage(g.finished))
           /\ e.sh.npn = <<>> => g.proto = e.proto
           /\ e.sh.npn # <<>> => Latest(g.finished.sum).proto = g.proto
           /\ IsSeq(g.finished.sum) /\ Len(g.sum) > Len(e.sum) /\ Len(e.sum) \in Nat
           /\ \A i \in 1..Len(e.sum) : g.sum[i] = e.sum[i]
<1>1. PICK f : f = WriteChangeCipherSpec(e)
  OBVIOUS
<1>2. Proper(f) /\ Same(e, f, {"wire", "buf", "out", "nextOut"}) /\ f.out = e.nextOut
  BY <1>1, WriteChangeCipherSpecEnd
<1>3. f.finished = Nil /\ f.sum = e.sum /\ f.master = e.master /\ f.proto = e.proto
  BY <1>2 DEF Same, Fields
<1>4. PICK p : p = MutualProtocol(c.protos, e.sh.npn).proto
  OBVIOUS
<1>5. PICK h : h = IF e.sh.npn = <<>> THEN f
                   ELSE WriteHandshake([f EXCEPT !.proto = p], [type |-> "nextProto", proto |-> p])
  OBVIOUS
<1>6. /\ Proper(h) /\ Same(f, h, {"wire", "buf", "sum", "proto"})
      /\ e.sh.npn = <<>> => h.proto = e.proto
      /\ e.sh.npn # <<>> => Latest(h.sum).proto = h.proto
      /\ IsSeq(h.sum) /\ Len(h.sum) >= Len(e.sum) /\ Len(e.sum) \in Nat /\ Len(h.sum) \in Nat
      /\ \A i \in 1..Len(e.sum) : h.sum[i] = e.sum[i]
  <2>1. CASE e.sh.npn = <<>>
    <3>1. h = f
      BY <1>5, <2>1
    <3>2. Len(e.sum) \in Nat
      BY SeqAppend DEF Proper
    <3>. QED
      BY <1>2, <1>3, <2>1, <3>1, <3>2 DEF Same, Proper
  <2>2. CASE e.sh.npn # <<>>
    <3>1. PICK k, m : k = [f EXCEPT !.proto = p] /\ m = [type |-> "nextProto", proto |-> p]
      OBVIOUS
    <3>2. DOMAIN k = Fields /\ k.proto = p /\ Same(f, k, {"proto"})
      BY <1>2, <3>1 DEF Proper, Same, Fields
    <3>3. k.wire = f.wire /\ k.buf = f.buf /\ k.sum = f.sum /\ k.finished = f.finished
      BY <3>2 DEF Same, Fields
    <3>4. Proper(k)
      BY <1>2, <3>2, <3>3, ProperSame DEF Proper
    <3>5. "type" \in DOMAIN m /\ m.type # "finished" /\ m.proto = p
      BY <3>1
    <3>6. h = WriteHandshake(k, m)
      BY <1>5, <2>2, <3>1
    <3>7. Proper(h) /\ Same(k, h, {"wire", "buf", "sum"}) /\ h.sum = Append(e.sum, m)
      BY <1>3, <3>3, <3>4, <3>5, <3>6, WriteHandshakeEnd
    <3>8. /\ Len(e.sum) \in Nat /\ Len(h.sum) = Len(e.sum) + 1 /\ h.sum[Len(e.sum) + 1] = m
          /\ \A i \in 1..Len(e.sum) : h.sum[i] = e.sum[i]
      BY <3>7, SeqAppend DEF Proper
    <3>9. h.proto = p
      BY <3>2, <3>7 DEF Same, Fields
    <3>10. Same(f, h, {"wire", "buf", "sum", "proto"})
      BY <3>2, <3>7 DEF Same
    <3>11. Latest(h.sum).proto = p /\ Len(h.sum) >= Len(e.sum) /\ Len(h.sum) \in Nat
      BY <3>5, <3>8 DEF Latest
    <3>. QED
      BY <2>2, <3>7, <3>8, <3>9, <3>10, <3>11 DEF Proper
  <2>. QED
    BY <2>1, <2>2
<1>7. h.finished = Nil /\ h.master = e.master /\ h.out = e.nextOut
  BY <1>2, <1>3, <1>6 DEF Same, Fields
<1>8. PICK F : F = FinishedSum(h, "client")
  OBVIOUS
<1>9. g = Flush(WriteHandshake([h EXCEPT !.finished = F], FinishedMessage(F)))
  BY <1>1, <1>4, <1>5, <1>8 DEF SendClientFinished, FinishedMessage
<1>10. /\ Proper(g) /\ Same(h, g, {"wire", "buf", "buffering", "sum", "finished"})
       /\ F # Nil /\ g.finished = F /\ g.sum = Append(h.sum, FinishedMessage(F)) /\ g.buf = <<>>
  BY <1>6, <1>7, <1>8, <1>9, SendFinishedEnd
<1>11. F = [who |-> "client", master |-> e.master, sum |-> h.sum] /\ F.sum = h.sum
  BY <1>7, <1>8 DEF FinishedSum
<1>12. g.out = e.nextOut /\ g.proto = h.proto
  BY <1>7, <1>10 DEF Same, Fields
<1>13. Same(e, g, {"wire", "buf", "buffering", "sum", "finished", "out", "nextOut", "proto"})
  BY <1>2, <1>6, <1>10 DEF Same
<1>14. Len(g.sum) = Len(h.sum) + 1 /\ \A i \in 1..Len(h.sum) : g.sum[i] = h.sum[i]
  BY <1>6, <1>10, SeqAppend
<1>15. Len(g.sum) > Len(e.sum) /\ \A i \in 1..Len(e.sum) : g.sum[i] = e.sum[i]
  <2>1. \A i \in 1..Len(e.sum) : i \in 1..Len(h.sum)
    BY <1>6
  <2>. QED
    BY <2>1, <1>6, <1>14
<1>. QED
  BY <1>6, <1>10, <1>11, <1>12, <1>13, <1>15

\* sendSessionTicket
LEMMA SendSessionTicketEnd ==
    ASSUME NEW e, Proper(e), EnvInv, e.sh.tickets => ~conf.server.noTickets,
           NEW g, g = SendSessionTicket(e)
    PROVE  /\ Proper(g) /\ Same(e, g, {"wire", "buf", "sum"})
           /\ ~e.sh.tickets => g = e
           /\ e.sh.tickets => \E m : g.sum = Append(e.sum, m) /\ TicketOf(e, m.ticket)
<1>1. CASE ~e.sh.tickets
  BY <1>1 DEF SendSessionTicket, Same
<1>2. CASE e.sh.tickets
  <2>1. PICK k : k = ticketKeys[1]
    OBVIOUS
  <2>2. k # 0
    <3>1. ticketKeys \in Seq(Nat \ {0}) /\ ticketKeys # <<>>
      BY <1>2 DEF EnvInv
    <3>2. 1 \in 1..Len(ticketKeys)
      BY <3>1, EmptySeq
    <3>3. ticketKeys[1] \in Nat \ {0}
      BY <3>1, <3>2, ElementOfSeq
    <3>. QED
      BY <2>1, <3>3
  <2>3. PICK state : state = [vers |-> e.vers, suite |-> e.suite, master |-> e.master, certs |-> e.chain]
    OBVIOUS
  <2>4. PICK m : m = [type |-> "newSessionTicket", ticket |-> [key |-> k, state |-> state]]
    OBVIOUS
  <2>5. g = WriteHandshake(e, m)
    BY <1>2, <2>1, <2>3, <2>4 DEF SendSessionTicket, EncryptTicket
  <2>6. "type" \in DOMAIN m /\ m.type # "finished"
    BY <2>4
  <2>7. Proper(g) /\ Same(e, g, {"wire", "buf", "sum"}) /\ g.sum = Append(e.sum, m)
    BY <2>5, <2>6, WriteHandshakeEnd
  <2>8. TicketOf(e, m.ticket)
    BY <2>2, <2>3, <2>4 DEF TicketOf
  <2>. QED
    BY <1>2, <2>7, <2>8
<1>. QED
  BY <1>1, <1>2

-----------------------------------------------------------------------------
\* What the server knows is kept when it stops before its handshake has ended.
LEMMA ServerStops ==
    ASSUME NEW e, NEW c, NEW f, Stops(e, f), e.status = 0, ServerHash(e, c), ServerFinished(e)
    PROVE  ServerInv(f, c) /\ ~Ended(f) /\ f.finished = e.finished
<1>1. /\ f.status = 0 /\ f.sum = e.sum /\ f.hello = e.hello /\ f.sh = e.sh /\ f.vers = e.vers
      /\ f.suite = e.suite /\ f.resumed = e.resumed /\ f.proto = e.proto /\ f.finished = e.finished
      /\ f.master = e.master /\ f.out = e.out
  BY DEF Stops, Same, Fields
<1>2. Proper(f) /\ f.pc \in Stopped /\ f.err \notin {None, "noResult"} /\ (f.pc # "panicked" => f.buf = <<>>)
  BY DEF Stops
<1>3. ~Ended(f)
  BY <1>1, <1>2 DEF Ended
<1>4. Left(f)
  BY <1>1, <1>2 DEF Left, Stopped
<1>5. ServerHash(f, c)
  BY <1>1 DEF ServerHash
<1>6. ServerFinished(f)
  <2>1. Keys(f, "s2c") = Keys(e, "s2c")
    BY <1>1 DEF Keys
  <2>. QED
    BY <1>1, <2>1 DEF ServerFinished, TicketOf
<1>7. ServerPlace(f, c)
  BY <1>2, <1>3 DEF ServerPlace, Stopped
<1>. QED
  BY <1>1, <1>2, <1>3, <1>4, <1>5, <1>6, <1>7 DEF ServerInv

\* The same of the client
LEMMA ClientStops ==
    ASSUME NEW e, NEW c, NEW chains, NEW f, Stops(e, f), e.status = 0,
           Offer(e, c, chains), ClientHash(e), ClientFinished(e)
    PROVE  ClientInv(f, c, chains) /\ f.pc # "end" /\ f.finished = e.finished
<1>1. /\ f.status = 0 /\ f.sum = e.sum /\ f.hello = e.hello /\ f.sh = e.sh /\ f.vers = e.vers
      /\ f.suite = e.suite /\ f.resumed = e.resumed /\ f.proto = e.proto /\ f.finished = e.finished
      /\ f.master = e.master /\ f.out = e.out /\ f.offered = e.offered /\ f.peer = e.peer
      /\ f.verified = e.verified
  BY DEF Stops, Same, Fields
<1>2. Proper(f) /\ f.pc \in Stopped /\ f.err \notin {None, "noResult"} /\ (f.pc # "panicked" => f.buf = <<>>)
  BY DEF Stops
<1>3. Left(f)
  BY <1>1, <1>2 DEF Left, Stopped
<1>4. Offer(f, c, chains)
  BY <1>1 DEF Offer
<1>5. ClientHash(f)
  BY <1>1 DEF ClientHash
<1>6. ClientFinished(f)
  <2>1. Keys(f, "c2s") = Keys(e, "c2s")
    BY <1>1 DEF Keys
  <2>. QED
    BY <1>1, <2>1 DEF ClientFinished
<1>7. ClientPlace(f, c, chains)
  BY <1>2 DEF ClientPlace, Stopped
<1>. QED
  BY <1>1, <1>2, <1>3, <1>4, <1>5, <1>6, <1>7 DEF ClientInv, Stopped

\* What an end knows does not depend on what it has under way.
LEMMA ServerKept ==
    ASSUME NEW e, NEW c, ServerInv(e, c), NEW f, Proper(f), Same(e, f, {"wire"})
    PROVE  ServerInv(f, c) /\ f.finished = e.finished /\ (\A a : ServerReturned(a, e) => ServerReturned(a, f))
<1>1. /\ f.pc = e.pc /\ f.vers = e.vers /\ f.suite = e.suite /\ f.master = e.master /\ f.sum = e.sum
      /\ f.hello = e.hello /\ f.sh = e.sh /\ f.peer = e.peer /\ f.in = e.in /\ f.out = e.out
      /\ f.nextIn = e.nextIn /\ f.nextOut = e.nextOut /\ f.buf = e.buf /\ f.status = e.status
      /\ f.err = e.err /\ f.resumed = e.resumed /\ f.proto = e.proto /\ f.finished = e.finished
  BY DEF Same, Fields
<1>2. Keys(f, "s2c") = Keys(e, "s2c") /\ Keys(f, "c2s") = Keys(e, "c2s") /\ NoKeys(f) = NoKeys(e)
  BY <1>1 DEF Keys, NoKeys
<1>3. Ended(f) = Ended(e)
  BY <1>1 DEF Ended
<1>4. Left(f)
  BY <1>1 DEF Left, ServerInv
<1>5. ServerHash(f, c)
  BY <1>1 DEF ServerHash, ServerInv
<1>6. ServerFinished(f)
  BY <1>1, <1>2 DEF ServerFinished, TicketOf, ServerInv
<1>7. ServerPlace(f, c)
  <2>1. ServerPlace(e, c)
    BY DEF ServerInv
  <2>. QED
    BY <2>1, <1>1, <1>2, <1>3 DEF ServerPlace
<1>8. \A a : ServerReturned(a, e) => ServerReturned(a, f)
  BY <1>1, <1>3 DEF ServerReturned
<1>. QED
  BY <1>1, <1>4, <1>5, <1>6, <1>7, <1>8 DEF ServerInv

\* The same of the client
LEMMA ClientKept ==
    ASSUME NEW e, NEW c, NEW chains, ClientInv(e, c, chains), NEW f, Proper(f), Same(e, f, {"wire"})
    PROVE  /\ ClientInv(f, c, chains) /\ f.finished = e.finished
           /\ \A b : ClientReturned(e, b) => ClientReturned(f, b)
<1>1. /\ f.pc = e.pc /\ f.vers = e.vers /\ f.suite = e.suite /\ f.master = e.master /\ f.sum = e.sum
      /\ f.hello = e.hello /\ f.sh = e.sh /\ f.peer = e.peer /\ f.in = e.in /\ f.out = e.out
      /\ f.nextIn = e.nextIn /\ f.nextOut = e.nextOut /\ f.buf = e.buf /\ f.status = e.status
      /\ f.err = e.err /\ f.resumed = e.resumed /\ f.proto = e.proto /\ f.finished = e.finished
      /\ f.session = e.session /\ f.offered = e.offered /\ f.verified = e.verified
      /\ f.buffering = e.buffering
  BY DEF Same, Fields
<1>2. Keys(f, "s2c") = Keys(e, "s2c") /\ Keys(f, "c2s") = Keys(e, "c2s") /\ NoKeys(f) = NoKeys(e)
  BY <1>1 DEF Keys, NoKeys
<1>3. \A t : Session(f, t) = Session(e, t)
  BY <1>1 DEF Session
<1>4. Left(f)
  BY <1>1 DEF Left, ClientInv
<1>5. Offer(f, c, chains)
  BY <1>1 DEF Offer, ClientInv
<1>6. ClientHash(f)
  BY <1>1 DEF ClientHash, ClientInv
<1>7. ClientFinished(f)
  BY <1>1, <1>2 DEF ClientFinished, ClientInv
<1>8. ClientPlace(f, c, chains)
  <2>1. ClientPlace(e, c, chains)
    BY DEF ClientInv
  <2>2. f.session = (IF f.sh.tickets THEN Session(f, Latest(f.sum).ticket) ELSE f.offered)
        <=> e.session = (IF e.sh.tickets THEN Session(e, Latest(e.sum).ticket) ELSE e.offered)
    BY <1>1, <1>3
  <2>. QED
    BY <2>1, <2>2, <1>1, <1>2 DEF ClientPlace
<1>9. \A b : ClientReturned(e, b) => ClientReturned(f, b)
  BY <1>1 DEF ClientReturned
<1>. QED
  BY <1>1, <1>4, <1>5, <1>6, <1>7, <1>8, <1>9 DEF ClientInv

\* A record of an end is read.
LEMMA ReadFrom ==
    ASSUME NEW e, Proper(e), e.wire # <<>>, NEW f, f = [e EXCEPT !.wire = Tail(@)]
    PROVE  Proper(f) /\ Same(e, f, {"wire"})
<1>1. PICK w : w = Tail(e.wire)
  OBVIOUS
<1>2. IsSeq(w) /\ Elements(w) \subseteq Elements(e.wire)
  BY <1>1, SeqTail DEF Proper
<1>3. f = [e EXCEPT !.wire = w]
  BY <1>1
<1>4. DOMAIN f = Fields /\ f.wire = w /\ Same(e, f, {"wire"})
  BY <1>3 DEF Proper, Same, Fields
<1>5. f.buf = e.buf /\ f.sum = e.sum /\ f.finished = e.finished
  BY <1>4 DEF Same, Fields
<1>6. \A r : Sent(e, r) => Sent(f, r)
  BY <1>5 DEF Sent
<1>7. Proper(f)
  BY <1>2, <1>4, <1>5, <1>6 DEF Proper
<1>. QED
  BY <1>4, <1>7

-----------------------------------------------------------------------------
\* What is left of the invariant when only the ends change
LEMMA InvOf ==
    ASSUME Inv, UNCHANGED <<conf, net, ticketKeys, conn, rotates, faults>>, CacheInv', DOMAIN ends' = Sides,
           NEW a, a = ends'["client"], NEW b, b = ends'["server"],
           ServerInv(b, conf.server), ClientInv(a, conf.client, conf.server.certs),
           ClientReturned(a, b), ServerReturned(a, b)
    PROVE  Inv'
<1>1. EnvInv'
  BY DEF Inv, EnvInv
<1>2. Client' = a /\ Server' = b /\ conf' = conf
  BY DEF Client, Server
<1>3. ServerInv(Server, conf.server)'
  BY <1>2
<1>4. ClientInv(Client, conf.client, conf.server.certs)'
  BY <1>2
<1>5. ClientReturned(Client, Server)' /\ ServerReturned(Client, Server)'
  BY <1>2
<1>. QED
  BY <1>1, <1>3, <1>4, <1>5 DEF Inv

\* The record an end reads was sent by the other one.
LEMMA NextRecord ==
    ASSUME Inv, NEW s \in Sides, HasRecord(s)
    PROVE  /\ Sent(ends[Peer(s)], Next1(s)) /\ ends[Peer(s)].wire # <<>> /\ Proper(ends[Peer(s)])
           /\ ends[s].pc # "end" /\ ends[s].status = 0 /\ Proper(ends[s])
<1>1. Proper(ends[Peer(s)]) /\ Proper(ends[s]) /\ Left(ends[s])
  BY DEF Inv, ServerInv, ClientInv, Server, Client, Peer, Sides
<1>2. ends[Peer(s)].wire # <<>> /\ ends[s].pc # "end"
  BY DEF HasRecord, Reading, Over
<1>3. Next1(s) \in Elements(ends[Peer(s)].wire)
  BY <1>1, <1>2, SeqTail DEF Proper, Next1
<1>. QED
  BY <1>1, <1>2, <1>3 DEF Proper, Left

\* The server reads a record.
LEMMA ServerReads ==
    ASSUME Inv, HasRecord("server"), NEW f, Consume("server", f), cache' = cache,
           ServerInv(f, conf.server), Server.finished = Nil \/ f.finished = Server.finished,
           ServerReturned(Client, f)
    PROVE  Inv'
<1>1. PICK a : a = [Client EXCEPT !.wire = Tail(@)]
  OBVIOUS
<1>2. ends' = [ends EXCEPT !["server"] = f, !["client"] = a]
  BY <1>1 DEF Consume, Peer, Client
<1>3. DOMAIN ends' = Sides /\ ends'["client"] = a /\ ends'["server"] = f
  BY <1>2 DEF Inv, Sides
<1>4. Proper(a) /\ Same(Client, a, {"wire"})
  BY <1>1, NextRecord, ReadFrom DEF Peer, Sides, Client
<1>5. /\ ClientInv(a, conf.client, conf.server.certs) /\ a.finished = Client.finished
      /\ ClientReturned(a, Server)
  BY <1>4, ClientKept DEF Inv
<1>6. ClientReturned(a, f)
  BY <1>5 DEF ClientReturned
<1>7. ServerReturned(a, f)
  BY <1>5 DEF ServerReturned
<1>8. UNCHANGED <<conf, net, ticketKeys, conn, rotates, faults>>
  BY DEF Consume
<1>9. CacheInv'
  BY <1>8 DEF Inv, CacheInv
<1>. QED
  BY <1>3, <1>5, <1>6, <1>7, <1>8, <1>9, InvOf

\* The client reads a record.
LEMMA ClientReads ==
    ASSUME Inv, HasRecord("client"), NEW f, Consume("client", f), CacheInv',
           ClientInv(f, conf.client, conf.server.certs), Client.finished = Nil \/ f.finished = Client.finished,
           ClientReturned(f, Server)
    PROVE  Inv'
<1>1. PICK b : b = [Server EXCEPT !.wire = Tail(@)]
  OBVIOUS
<1>2. ends' = [ends EXCEPT !["client"] = f, !["server"] = b]
  BY <1>1 DEF Consume, Peer, Server
<1>3. DOMAIN ends' = Sides /\ ends'["client"] = f /\ ends'["server"] = b
  BY <1>2 DEF Inv, Sides
<1>4. Proper(b) /\ Same(Server, b, {"wire"})
  BY <1>1, NextRecord, ReadFrom DEF Peer, Sides, Server
<1>5. /\ ServerInv(b, conf.server) /\ b.finished = Server.finished
      /\ ServerReturned(Client, b)
  BY <1>4, ServerKept DEF Inv
<1>6. ClientReturned(f, b)
  BY <1>5 DEF ClientReturned
<1>7. ServerReturned(f, b)
  BY <1>5 DEF ServerReturned
<1>8. UNCHANGED <<conf, net, ticketKeys, conn, rotates, faults>>
  BY DEF Consume
<1>. QED
  BY <1>3, <1>5, <1>6, <1>7, <1>8, InvOf

\* An end that reads a record and stops, having sent something or not
LEMMA ServerReadsStops ==
    ASSUME Inv, HasRecord("server"), NEW f, Consume("server", f), cache' = cache, Stops(Server, f)
    PROVE  Inv'
<1>1. Server.status = 0 /\ ServerHash(Server, conf.server) /\ ServerFinished(Server)
  BY NextRecord DEF Inv, ServerInv, Sides, Server
<1>2. ServerInv(f, conf.server) /\ ~Ended(f) /\ f.finished = Server.finished
  BY <1>1, ServerStops
<1>. QED
  BY <1>2, ServerReads DEF ServerReturned

\* The same of the client
LEMMA ClientReadsStops ==
    ASSUME Inv, HasRecord("client"), NEW f, Consume("client", f), cache' = cache, Stops(Client, f)
    PROVE  Inv'
<1>1. /\ Client.status = 0 /\ Offer(Client, conf.client, conf.server.certs)
      /\ ClientHash(Client) /\ ClientFinished(Client)
  BY NextRecord DEF Inv, ClientInv, Sides, Client
<1>2. ClientInv(f, conf.client, conf.server.certs) /\ f.pc # "end" /\ f.finished = Client.finished
  BY <1>1, ClientStops
<1>3. CacheInv'
  BY DEF Inv, CacheInv, Consume
<1>. QED
  BY <1>2, <1>3, ClientReads DEF ClientReturned

\* Both at once
LEMMA ReadsStops ==
    ASSUME Inv, NEW s \in Sides, HasRecord(s), NEW f, Consume(s, f), cache' = cache, Stops(ends[s], f)
    PROVE  Inv'
<1>1. CASE s = "server"
  BY <1>1, ServerReadsStops DEF Server
<1>2. CASE s = "client"
  BY <1>2, ClientReadsStops DEF Client
<1>. QED
  BY <1>1, <1>2 DEF Sides

-----------------------------------------------------------------------------
\* Conn.readRecord refuses the record.
LEMMA ReadRecordFailsKeeps ==
    ASSUME Inv, NEW s \in Sides, ReadRecordFails(s)
    PROVE  Inv'
<1>1. Proper(ends[s]) /\ HasRecord(s) /\ cache' = cache
  BY NextRecord DEF ReadRecordFails
<1>2. CASE Consume(s, Abort(ends[s], "remoteError"))
  <2>1. PICK f : f = Abort(ends[s], "remoteError")
    OBVIOUS
  <2>2. Stops(ends[s], f)
    BY <1>1, <2>1, AbortStops DEF None
  <2>. QED
    BY <1>1, <1>2, <2>1, <2>2, ReadsStops
<1>3. ASSUME NEW x, x \notin {None, "noResult"}, Consume(s, Fail(ends[s], x))
      PROVE  Inv'
  <2>1. PICK f : f = Fail(ends[s], x)
    OBVIOUS
  <2>2. Stops(ends[s], f)
    BY <1>1, <1>3, <2>1, FailStops
  <2>. QED
    BY <1>1, <1>3, <2>1, <2>2, ReadsStops
<1>4. \E x : x \notin {None, "noResult"} /\ (Consume(s, Fail(ends[s], x)) \/ Consume(s, Abort(ends[s], "remoteError")))
  <2>1. PICK x : x = IF ends[s].in = NoCipher THEN "unexpectedMessage" ELSE "badRecordMAC"
    OBVIOUS
  <2>2. x \notin {None, "noResult"} /\ "unexpectedMessage" \notin {None, "noResult"}
    BY <2>1 DEF None
  <2>3. Consume(s, Fail(ends[s], x)) \/ Consume(s, Fail(ends[s], "unexpectedMessage"))
           \/ Consume(s, Abort(ends[s], "remoteError"))
    BY <2>1 DEF ReadRecordFails
  <2>. QED
    BY <2>2, <2>3
<1>. QED
  BY <1>2, <1>3, <1>4

\* The end of the stream
LEMMA ReadEofKeeps ==
    ASSUME Inv, NEW s \in Sides, ReadEof(s)
    PROVE  Inv'
<1>1. PICK f : f = Abort(ends[s], "EOF")
  OBVIOUS
<1>2. ends[s].status = 0 /\ Proper(ends[s]) /\ cache' = cache /\ conf' = conf
  BY DEF Inv, ServerInv, ClientInv, Server, Client, Sides, ReadEof, Reading, Over, Left
<1>3. Stops(ends[s], f)
  BY <1>1, <1>2, AbortStops DEF None
<1>4. ends' = [ends EXCEPT ![s] = f]
  BY <1>1 DEF ReadEof
<1>5. CacheInv' /\ UNCHANGED <<conf, net, ticketKeys, conn, rotates, faults>>
  BY <1>2 DEF Inv, CacheInv, ReadEof
<1>6. CASE s = "server"
  <2>1. DOMAIN ends' = Sides /\ ends'["client"] = Client /\ ends'["server"] = f
    BY <1>4, <1>6 DEF Inv, Sides, Client
  <2>2. ServerInv(f, conf.server) /\ ~Ended(f) /\ f.finished = Server.finished
    BY <1>2, <1>3, <1>6, ServerStops DEF Inv, ServerInv, Server
  <2>3. ServerReturned(Client, f) /\ ClientReturned(Client, f)
    BY <2>2 DEF Inv, ServerReturned, ClientReturned
  <2>4. ClientInv(Client, conf.client, conf.server.certs)
    BY DEF Inv
  <2>. QED
    BY <1>5, <2>1, <2>2, <2>3, <2>4, InvOf
<1>7. CASE s = "client"
  <2>1. DOMAIN ends' = Sides /\ ends'["client"] = f /\ ends'["server"] = Server
    BY <1>4, <1>7 DEF Inv, Sides, Server
  <2>2. ClientInv(f, conf.client, conf.server.certs) /\ f.pc # "end" /\ f.finished = Client.finished
    BY <1>2, <1>3, <1>7, ClientStops DEF Inv, ClientInv, Client
  <2>3. ServerReturned(f, Server) /\ ClientReturned(f, Server)
    BY <2>2 DEF Inv, ServerReturned, ClientReturned
  <2>4. ServerInv(Server, conf.server)
    BY DEF Inv
  <2>. QED
    BY <1>5, <2>1, <2>2, <2>3, <2>4, InvOf
<1>. QED
  BY <1>6, <1>7 DEF Sides

\* A message that the place does not accept
LEMMA UnexpectedMessageKeeps ==
    ASSUME Inv, NEW s \in Sides, UnexpectedMessage(s)
    PROVE  Inv'
<1>1. HasRecord(s) /\ Consume(s, Fail(ends[s], "unexpectedMessage")) /\ cache' = cache
  BY DEF UnexpectedMessage, Sound
<1>2. PICK f : f = Fail(ends[s], "unexpectedMessage")
  OBVIOUS
<1>3. Stops(ends[s], f)
  BY <1>1, <1>2, NextRecord, FailStops DEF None
<1>. QED
  BY <1>1, <1>2, <1>3, ReadsStops

\* The ChangeCipherSpec
LEMMA ReadChangeCipherSpecKeeps ==
    ASSUME Inv, NEW s \in Sides, ReadChangeCipherSpec(s)
    PROVE  Inv'
<1>1. HasRecord(s) /\ ends[s].pc = "ccs" /\ cache' = cache
  BY DEF ReadChangeCipherSpec, Sound
<1>2. Proper(ends[s]) /\ ends[s].status = 0
  BY <1>1, NextRecord
<1>3. CASE ends[s].nextIn = NoCipher
  <2>1. PICK f : f = Fail(ends[s], "internalError")
    OBVIOUS
  <2>2. Stops(ends[s], f)
    BY <1>2, <2>1, FailStops DEF None
  <2>3. Consume(s, f)
    BY <1>3, <2>1 DEF ReadChangeCipherSpec
  <2>. QED
    BY <1>1, <2>2, <2>3, ReadsStops
<1>4. CASE ends[s].nextIn # NoCipher
  <2>1. PICK p, k : p = AfterCcs(s) /\ k = ends[s].nextIn
    OBVIOUS
  <2>2. PICK f : f = [ends[s] EXCEPT !.in = k, !.nextIn = Nil, !.pc = p]
    OBVIOUS
  <2>3. Consume(s, f)
    BY <1>4, <2>1, <2>2 DEF ReadChangeCipherSpec, NoCipher
  <2>4. /\ DOMAIN f = Fields /\ f.in = k /\ f.nextIn = Nil /\ f.pc = p
        /\ Same(ends[s], f, {"in", "nextIn", "pc"})
    BY <1>2, <2>2 DEF Proper, Same, Fields
  <2>5. PICK e : e = ends[s]
    OBVIOUS
  <2>6. /\ f.vers = e.vers /\ f.suite = e.suite /\ f.master = e.master /\ f.sum = e.sum
        /\ f.hello = e.hello /\ f.sh = e.sh /\ f.peer = e.peer /\ f.out = e.out
        /\ f.nextOut = e.nextOut /\ f.buf = e.buf /\ f.status = e.status
        /\ f.err = e.err /\ f.resumed = e.resumed /\ f.proto = e.proto /\ f.finished = e.finished
        /\ f.session = e.session /\ f.offered = e.offered /\ f.verified = e.verified
        /\ f.buffering = e.buffering /\ f.wire = e.wire
    BY <2>4, <2>5 DEF Same, Fields
  <2>7. Proper(f)
    BY <1>2, <2>4, <2>5, <2>6, ProperSame DEF Proper
  <2>8. Keys(f, "s2c") = Keys(e, "s2c") /\ Keys(f, "c2s") = Keys(e, "c2s")
    BY <2>6 DEF Keys
  <2>9. CASE s = "server"
    <3>1. e = Server /\ p \in {"nextProto", "finished"} /\ (p = "nextProto" <=> e.sh.npn # <<>>)
      BY <2>1, <2>5, <2>9 DEF Server, AfterCcs
    <3>2. /\ ServerHash(e, conf.server) /\ ServerFinished(e) /\ ServerPlace(e, conf.server) /\ Left(e)
          /\ e.pc = "ccs" /\ e.status = 0
      BY <1>1, <1>2, <2>5, <3>1 DEF Inv, ServerInv
    <3>3. e.nextIn = Keys(e, "c2s") /\ ~Ended(e)
      BY <3>2 DEF ServerPlace, Left, Ended, Stopped, None
    <3>4. ~Ended(f)
      BY <2>6, <3>3 DEF Ended
    <3>5. Left(f)
      BY <2>4, <2>6, <3>1, <3>2 DEF Left, Stopped
    <3>6. ServerHash(f, conf.server)
      BY <2>6, <3>2 DEF ServerHash
    <3>7. ServerFinished(f)
      BY <2>6, <2>8, <3>2 DEF ServerFinished, TicketOf
    <3>8. ServerPlace(f, conf.server)
      BY <2>1, <2>4, <2>5, <2>6, <2>8, <3>1, <3>2, <3>3, <3>4 DEF ServerPlace, Stopped
    <3>9. ServerInv(f, conf.server)
      BY <2>7, <3>5, <3>6, <3>7, <3>8 DEF ServerInv
    <3>. QED
      BY <1>1, <2>3, <2>6, <2>9, <3>1, <3>4, <3>9, ServerReads DEF ServerReturned
  <2>10. CASE s = "client"
    <3>1. e = Client /\ p = "finished"
      BY <2>1, <2>5, <2>10 DEF Client, AfterCcs
    <3>2. /\ Offer(e, conf.client, conf.server.certs) /\ ClientHash(e) /\ ClientFinished(e)
          /\ ClientPlace(e, conf.client, conf.server.certs) /\ Left(e)
          /\ e.pc = "ccs" /\ e.status = 0
      BY <1>1, <1>2, <2>5, <3>1 DEF Inv, ClientInv
    <3>3. e.nextIn = Keys(e, "s2c") /\ \A t : Session(f, t) = Session(e, t)
      BY <2>6, <3>2 DEF ClientPlace, Session
    <3>5. Left(f)
      BY <2>4, <2>6, <3>1, <3>2 DEF Left, Stopped
    <3>6. Offer(f, conf.client, conf.server.certs) /\ ClientHash(f)
      BY <2>6, <3>2 DEF Offer, ClientHash
    <3>7. ClientFinished(f)
      BY <2>6, <2>8, <3>2 DEF ClientFinished
    <3>8. ClientPlace(f, conf.client, conf.server.certs)
      BY <2>1, <2>4, <2>5, <2>6, <2>8, <3>1, <3>2, <3>3 DEF ClientPlace, Stopped
    <3>9. ClientInv(f, conf.client, conf.server.certs)
      BY <2>7, <3>5, <3>6, <3>7, <3>8 DEF ClientInv
    <3>10. ClientReturned(f, Server) /\ CacheInv'
      BY <1>1, <2>3, <2>4, <3>1 DEF ClientReturned, Inv, CacheInv, Consume
    <3>. QED
      BY <1>1, <2>3, <2>6, <2>10, <3>1, <3>9, <3>10, ClientReads
  <2>. QED
    BY <2>9, <2>10 DEF Sides
<1>. QED
  BY <1>3, <1>4

-----------------------------------------------------------------------------
\* No alteration makes a Finished message.
LEMMA AlteredSent ==
    ASSUME NEW e, NEW r, Sent(e, r), NEW x \in Altered(r)
    PROVE  Sent(e, x)
<1>1. CASE r.key # NoCipher
  <2>1. x = [r EXCEPT !.key = [type |-> "altered"]]
    BY <1>1 DEF Altered
  <2>. QED
    BY <2>1 DEF Sent
<1>2. CASE r.key = NoCipher /\ r.type # "handshake"
  <2>1. PICK t : t = IF r.type = "ccs" THEN "alert" ELSE "ccs"
    OBVIOUS
  <2>2. x = [r EXCEPT !.type = t]
    BY <1>2, <2>1 DEF Altered
  <2>3. t # "handshake"
    BY <2>1
  <2>. QED
    BY <2>2, <2>3 DEF Sent
<1>3. CASE r.key = NoCipher /\ r.type = "handshake"
  <2>1. PICK m : m = r.m
    OBVIOUS
  <2>2. "type" \in DOMAIN m
    BY <1>3, <2>1 DEF Sent
  <2>3. PICK y : x = [r EXCEPT !.m = y] /\ "type" \in DOMAIN y /\ y.type # "finished"
    <3>1. CASE m.type = "clientHello"
      <4>1. PICK y : /\ x = [r EXCEPT !.m = y]
                     /\ y \in {[m EXCEPT !.vers = VersionTLS12], [m EXCEPT !.vers = VersionTLS11],
                               [m EXCEPT !.suites = SubSeq(@, 2, Len(@))], [m EXCEPT !.alpn = <<>>],
                               [m EXCEPT !.ticket = Nil], [m EXCEPT !.tickets = ~@]}
        BY <1>3, <2>1, <3>1 DEF Altered
      <4>2. DOMAIN y = DOMAIN m /\ y.type = m.type
        <5>1. PICK q, t : q = SubSeq(m.suites, 2, Len(m.suites)) /\ t = ~m.tickets
          OBVIOUS
        <5>2. y \in {[m EXCEPT !.vers = VersionTLS12], [m EXCEPT !.vers = VersionTLS11],
                     [m EXCEPT !.suites = q], [m EXCEPT !.alpn = <<>>],
                     [m EXCEPT !.ticket = Nil], [m EXCEPT !.tickets = t]}
          BY <4>1, <5>1
        <5>. QED
          BY <2>2, <5>2
      <4>. QED
        BY <2>2, <3>1, <4>1, <4>2
    <3>2. CASE m.type = "serverHello"
      <4>1. PICK y : /\ x = [r EXCEPT !.m = y]
                     /\ y \in {[m EXCEPT !.tickets = ~@], [m EXCEPT !.sid = 1 - @],
                               [m EXCEPT !.suite = "RSA_CBC"], [m EXCEPT !.alpn = None]}
        BY <1>3, <2>1, <3>2 DEF Altered
      <4>2. DOMAIN y = DOMAIN m /\ y.type = m.type
        <5>1. PICK q, t : q = 1 - m.sid /\ t = ~m.tickets
          OBVIOUS
        <5>2. y \in {[m EXCEPT !.tickets = t], [m EXCEPT !.sid = q],
                     [m EXCEPT !.suite = "RSA_CBC"], [m EXCEPT !.alpn = None]}
          BY <4>1, <5>1
        <5>. QED
          BY <2>2, <5>2
      <4>. QED
        BY <2>2, <3>2, <4>1, <4>2
    <3>3. CASE m.type = "certificate"
      <4>1. PICK y : x = [r EXCEPT !.m = y] /\ y = [m EXCEPT !.certs = <<>>]
        BY <1>3, <2>1, <3>3 DEF Altered
      <4>. QED
        BY <2>2, <3>3, <4>1
    <3>4. CASE m.type = "serverKeyExchange"
      <4>1. PICK y : x = [r EXCEPT !.m = y] /\ y = [m EXCEPT !.pub = <<"P256", "server", 0>>]
        BY <1>3, <2>1, <3>4 DEF Altered
      <4>. QED
        BY <2>2, <3>4, <4>1, SMTT(60)
    <3>5. CASE m.type = "clientKeyExchange"
      <4>1. PICK y : x = [r EXCEPT !.m = y] /\ y = [m EXCEPT !.pre = [type |-> "pre", vers |-> 0, fresh |-> 0]]
        BY <1>3, <2>1, <3>5 DEF Altered
      <4>2. PICK t : t = [type |-> "pre", vers |-> 0, fresh |-> 0]
        OBVIOUS
      <4>3. y = [m EXCEPT !.pre = t]
        BY <4>1, <4>2
      <4>. QED
        BY <2>2, <3>5, <4>1, <4>3
    <3>6. CASE m.type = "certificateRequest"
      <4>1. PICK y : x = [r EXCEPT !.m = y] /\ y = [m EXCEPT !.cas = {}]
        BY <1>3, <2>1, <3>6 DEF Altered
      <4>. QED
        BY <2>2, <3>6, <4>1, SMTT(60)
    <3>7. CASE m.type = "newSessionTicket"
      <4>1. PICK y : x = [r EXCEPT !.m = y] /\ y = [m EXCEPT !.ticket.key = 0]
        BY <1>3, <2>1, <3>7 DEF Altered
      <4>2. PICK t : t = [m.ticket EXCEPT !.key = 0]
        OBVIOUS
      <4>3. y = [m EXCEPT !.ticket = t]
        BY <4>1, <4>2
      <4>. QED
        BY <2>2, <3>7, <4>1, <4>3
    <3>8. CASE m.type \notin {"clientHello", "serverHello", "certificate", "serverKeyExchange",
                              "clientKeyExchange", "certificateRequest", "newSessionTicket"}
      <4>1. PICK y : x = [r EXCEPT !.m = y] /\ y = [m EXCEPT !.type = "helloRequest"]
        BY <1>3, <2>1, <3>8 DEF Altered
      <4>. QED
        BY <2>2, <4>1, SMTT(60)
    <3>. QED
      BY <3>1, <3>2, <3>3, <3>4, <3>5, <3>6, <3>7, <3>8
  <2>4. DOMAIN x = DOMAIN r /\ x.m = y /\ x.type = r.type
    BY <2>3 DEF Sent
  <2>. QED
    BY <2>3, <2>4 DEF Sent
<1>. QED
  BY <1>1, <1>2, <1>3

\* An altered record in the place of the next one
LEMMA CorruptEnd ==
    ASSUME NEW e, Proper(e), e.wire # <<>>, NEW r \in Altered(Head(e.wire)),
           NEW f, f = [e EXCEPT !.wire = <<r>> \o Tail(@)]
    PROVE  Proper(f) /\ Same(e, f, {"wire"})
<1>1. PICK t, w : t = Tail(e.wire) /\ w = <<r>> \o t
  OBVIOUS
<1>2. IsSeq(t) /\ Elements(t) \subseteq Elements(e.wire) /\ Head(e.wire) \in Elements(e.wire)
  BY <1>1, SeqTail DEF Proper
<1>3. IsSeq(<<r>>) /\ Elements(<<r>>) = {r}
  BY SeqShort
<1>4. IsSeq(w) /\ Elements(w) = {r} \cup Elements(t)
  BY <1>1, <1>2, <1>3, SeqConcat
<1>5. Sent(e, r)
  BY <1>2, AlteredSent DEF Proper
<1>6. f = [e EXCEPT !.wire = w]
  BY <1>1
<1>7. DOMAIN f = Fields /\ f.wire = w /\ Same(e, f, {"wire"})
  BY <1>6 DEF Proper, Same, Fields
<1>8. f.buf = e.buf /\ f.sum = e.sum /\ f.finished = e.finished
  BY <1>7 DEF Same, Fields
<1>9. \A x : Sent(e, x) => Sent(f, x)
  BY <1>8 DEF Sent
<1>10. Proper(f)
  BY <1>2, <1>4, <1>5, <1>7, <1>8, <1>9 DEF Proper
<1>. QED
  BY <1>7, <1>10

\* A record is altered while it is under way.
LEMMA CorruptKeeps ==
    ASSUME Inv, NEW s \in Sides, Corrupt(s)
    PROVE  Inv'
<1>1. PICK r \in Altered(Head(ends[s].wire)) : ends' = [ends EXCEPT ![s].wire = <<r>> \o Tail(@)]
  BY DEF Corrupt
<1>2. PICK f : f = [ends[s] EXCEPT !.wire = <<r>> \o Tail(@)]
  OBVIOUS
<1>3. ends' = [ends EXCEPT ![s] = f] /\ ends[s].wire # <<>>
  BY <1>1, <1>2 DEF Corrupt
<1>4. Proper(ends[s])
  BY DEF Inv, ServerInv, ClientInv, Server, Client, Sides
<1>5. Proper(f) /\ Same(ends[s], f, {"wire"})
  BY <1>2, <1>3, <1>4, CorruptEnd
<1>6. EnvInv' /\ CacheInv' /\ conf' = conf
  BY TlsAssumption DEF Corrupt, Inv, EnvInv, CacheInv
<1>7. PICK a, b : a = ends'["client"] /\ b = ends'["server"]
  OBVIOUS
<1>8. ServerInv(b, conf.server) /\ ClientInv(a, conf.client, conf.server.certs)
      /\ ClientReturned(a, b) /\ ServerReturned(a, b) /\ DOMAIN ends' = Sides
  <2>1. CASE s = "server"
    <3>1. a = Client /\ b = f /\ DOMAIN ends' = Sides
      BY <1>3, <1>7, <2>1 DEF Inv, Sides, Client
    <3>2. ServerInv(f, conf.server) /\ f.finished = Server.finished /\ ServerReturned(Client, f)
      BY <1>5, <2>1, ServerKept DEF Inv, Server
    <3>. QED
      BY <3>1, <3>2 DEF Inv, ClientReturned
  <2>2. CASE s = "client"
    <3>1. b = Server /\ a = f /\ DOMAIN ends' = Sides
      BY <1>3, <1>7, <2>2 DEF Inv, Sides, Server
    <3>2. /\ ClientInv(f, conf.client, conf.server.certs) /\ f.finished = Client.finished
          /\ ClientReturned(f, Server)
      BY <1>5, <2>2, ClientKept DEF Inv, Client
    <3>. QED
      BY <3>1, <3>2 DEF Inv, ServerReturned
  <2>. QED
    BY <2>1, <2>2 DEF Sides
<1>9. Client' = a /\ Server' = b
  BY <1>7 DEF Client, Server
<1>10. ServerInv(Server, conf.server)' /\ ClientInv(Client, conf.client, conf.server.certs)'
  BY <1>6, <1>8, <1>9
<1>11. ClientReturned(Client, Server)' /\ ServerReturned(Client, Server)'
  BY <1>8, <1>9
<1>. QED
  BY <1>6, <1>8, <1>10, <1>11 DEF Inv

\* The transport breaks or is closed, and the keys are rotated.
LEMMA EnvironmentKeeps ==
    ASSUME Inv, LoseConnection \/ SetSessionTicketKeys \/ (\E s \in Sides : CloseTransport(s))
    PROVE  Inv'
<1>1. UNCHANGED <<conf, ends, cache, conn>>
  BY DEF LoseConnection, SetSessionTicketKeys, CloseTransport
<1>2. EnvInv'
  <2>1. CASE LoseConnection
    BY <2>1, TlsAssumption DEF LoseConnection, Inv, EnvInv
  <2>2. CASE SetSessionTicketKeys
    <3>1. ticketKeys # <<>> /\ ticketKeys \in Seq(Nat \ {0}) /\ rotates \in 0..MaxRotates /\ rotates < MaxRotates
      BY <2>2 DEF SetSessionTicketKeys, Inv, EnvInv
    <3>2. ticketKeys[1] \in Nat \ {0} /\ 100 + rotates \in Nat \ {0} /\ rotates + 1 \in 0..MaxRotates
      <4>1. 1 \in 1..Len(ticketKeys)
        BY <3>1, EmptySeq
      <4>2. ticketKeys[1] \in Nat \ {0}
        BY <3>1, <4>1, ElementOfSeq
      <4>. QED
        BY <3>1, <4>2, TlsAssumption
    <3>3. PICK p : p = <<100 + rotates, ticketKeys[1]>>
      OBVIOUS
    <3>4. p \in Seq(Nat \ {0}) /\ Len(p) = 2 /\ p # <<>>
      BY <3>2, <3>3
    <3>5. ticketKeys' = p /\ rotates' = rotates + 1 /\ UNCHANGED <<net, faults>>
      BY <2>2, <3>3 DEF SetSessionTicketKeys
    <3>6. ticketKeys' \in Seq(Nat \ {0}) /\ Len(ticketKeys') <= 2 /\ ticketKeys' # <<>>
      <4>1. Len(p) <= 2
        BY <3>4
      <4>. QED
        BY <4>1, <3>4, <3>5
    <3>7. rotates' \in 0..MaxRotates /\ net' = net /\ faults' = faults /\ conf' = conf /\ conn' = conn
      BY <1>1, <3>2, <3>5
    <3>8. EnvInv
      BY DEF Inv
    <3>. QED
      BY <3>6, <3>7, <3>8 DEF EnvInv
  <2>3. CASE \E s \in Sides : CloseTransport(s)
    BY <2>3 DEF CloseTransport, Inv, EnvInv, Sides
  <2>. QED
    BY <2>1, <2>2, <2>3
<1>3. CacheInv'
  BY <1>1 DEF Inv, CacheInv
<1>4. Client' = Client /\ Server' = Server
  BY <1>1 DEF Client, Server
<1>5. ServerInv(Server, conf.server)' /\ ClientInv(Client, conf.client, conf.server.certs)'
  BY <1>1, <1>4 DEF Inv
<1>6. ClientReturned(Client, Server)' /\ ServerReturned(Client, Server)' /\ DOMAIN ends' = Sides
  BY <1>1, <1>4 DEF Inv
<1>. QED
  BY <1>2, <1>3, <1>5, <1>6 DEF Inv

-----------------------------------------------------------------------------
\* Conn and the handshake state as they are made
LEMMA NewEnds ==
    ASSUME NEW c, NEW chains, NEW a, a = NewEnd("client"), NEW b, b = NewEnd("server")
    PROVE  ServerInv(b, c) /\ ClientInv(a, c, chains) /\ ClientReturned(a, b) /\ ServerReturned(a, b)
<1>1. /\ DOMAIN a = Fields /\ a.sum = <<>> /\ a.wire = <<>> /\ a.buf = <<>> /\ a.finished = Nil
      /\ DOMAIN b = Fields /\ b.sum = <<>> /\ b.wire = <<>> /\ b.buf = <<>> /\ b.finished = Nil
  BY DEF NewEnd, Fields
<1>2. Proper(a) /\ Proper(b)
  BY <1>1, SeqShort DEF Proper
<1>3. /\ a.pc = "start" /\ a.status = 0 /\ a.err = None /\ a.hello = Nil /\ a.session = Nil
      /\ a.offered = Nil /\ a.proto = None /\ a.resumed = FALSE /\ a.buffering = FALSE
      /\ a.in = Nil /\ a.out = Nil /\ a.nextIn = Nil /\ a.nextOut = Nil
  BY DEF NewEnd, NoCipher
<1>4. /\ b.pc = "clientHello" /\ b.status = 0 /\ b.err = None /\ b.peer = <<>> /\ b.resumed = FALSE
      /\ b.in = Nil /\ b.out = Nil /\ b.nextIn = Nil /\ b.nextOut = Nil
  BY DEF NewEnd, NoCipher
<1>5. ~Ended(b) /\ Left(a) /\ Left(b)
  BY <1>1, <1>3, <1>4 DEF Ended, Left, Stopped, None
<1>6. ServerInv(b, c)
  BY <1>1, <1>2, <1>4, <1>5 DEF ServerInv, ServerHash, ServerFinished, ServerPlace, NoKeys, Stopped
<1>7. ClientInv(a, c, chains)
  <2>1. ClientPlace(a, c, chains)
    BY <1>1, <1>3 DEF ClientPlace, NoKeys, Stopped, None
  <2>. QED
    BY <1>1, <1>2, <1>3, <1>5, <2>1 DEF ClientInv, Offer, ClientHash, ClientFinished
<1>. QED
  BY <1>3, <1>5, <1>6, <1>7 DEF ClientReturned, ServerReturned

\* Config.serverInit
LEMMA ServerInitKeys ==
    ASSUME NEW c, NEW keys \in Seq(Nat \ {0}), Len(keys) <= 2, NEW number \in Nat \ {0},
           NEW k, k = ServerInit(c, keys, number)
    PROVE  k \in Seq(Nat \ {0}) /\ Len(k) <= 2 /\ (~c.noTickets => k # <<>>)
<1>1. PICK n : n = 10 * number
  OBVIOUS
<1>2. n \in Nat \ {0}
  BY <1>1
<1>3. k = IF c.noTickets \/ keys # <<>> THEN keys ELSE IF c.staticKey THEN <<1>> ELSE <<n>>
  BY <1>1 DEF ServerInit, StaticKey
<1>4. <<1>> \in Seq(Nat \ {0}) /\ <<n>> \in Seq(Nat \ {0}) /\ Len(<<1>>) = 1 /\ Len(<<n>>) = 1
      /\ <<1>> # <<>> /\ <<n>> # <<>>
  BY <1>2
<1>5. CASE c.noTickets \/ keys # <<>>
  BY <1>3, <1>5
<1>6. CASE ~(c.noTickets \/ keys # <<>>) /\ c.staticKey
  BY <1>3, <1>4, <1>6
<1>7. CASE ~(c.noTickets \/ keys # <<>>) /\ ~c.staticKey
  BY <1>3, <1>4, <1>7
<1>. QED
  BY <1>5, <1>6, <1>7

\* The first connection
LEMMA InitInv == Init => Inv
<1>. SUFFICES ASSUME Init PROVE Inv
  OBVIOUS
<1>1. PICK a, b : a = NewEnd("client") /\ b = NewEnd("server")
  OBVIOUS
<1>2. Client = a /\ Server = b /\ DOMAIN ends = Sides
  BY <1>1 DEF Init, Client, Server, Sides
<1>3. EnvInv
  <2>1. <<>> \in Seq(Nat \ {0}) /\ Len(<<>>) <= 2 /\ 1 \in Nat \ {0}
    OBVIOUS
  <2>2. /\ ticketKeys \in Seq(Nat \ {0}) /\ Len(ticketKeys) <= 2
        /\ ~conf.server.noTickets => ticketKeys # <<>>
    BY <2>1, ServerInitKeys DEF Init
  <2>. QED
    BY <2>2, TlsAssumption DEF Init, EnvInv
<1>4. CacheInv
  BY DEF Init, CacheInv
<1>. QED
  BY <1>1, <1>2, <1>3, <1>4, NewEnds DEF Inv

\* The next connection, with the same client and the same certificates
LEMMA NewConnectionKeeps ==
    ASSUME Inv, NewConnection
    PROVE  Inv'
<1>1. PICK a, b, d : a = NewEnd("client") /\ b = NewEnd("server") /\ d = conf'
  OBVIOUS
<1>2. Client' = a /\ Server' = b /\ DOMAIN ends' = Sides
  BY <1>1 DEF NewConnection, Client, Server, Sides
<1>3. EnvInv'
  <2>1. <<>> \in Seq(Nat \ {0}) /\ Len(<<>>) <= 2
    OBVIOUS
  <2>2. conn + 1 \in 1..MaxConns /\ conn + 1 \in Nat \ {0}
    BY TlsAssumption DEF NewConnection, Inv, EnvInv
  <2>3. PICK k : k = ticketKeys'
    OBVIOUS
  <2>4. k = ServerInit(d.server, ticketKeys, conn + 1) \/ k = ServerInit(d.server, <<>>, conn + 1)
    BY <1>1, <2>3 DEF NewConnection
  <2>5. k \in Seq(Nat \ {0}) /\ Len(k) <= 2 /\ (~d.server.noTickets => k # <<>>)
    BY <2>1, <2>2, <2>4, ServerInitKeys DEF Inv, EnvInv
  <2>6. d \in Configs /\ net' = {} /\ conn' = conn + 1 /\ UNCHANGED <<rotates, faults>>
    BY <1>1 DEF NewConnection
  <2>. QED
    BY <1>1, <2>2, <2>3, <2>5, <2>6 DEF Inv, EnvInv
<1>4. CacheInv'
  <2>1. d.client = conf.client /\ d.server.certs = conf.server.certs /\ (cache' = cache \/ cache' = Nil)
    BY <1>1 DEF NewConnection
  <2>. QED
    BY <1>1, <2>1 DEF Inv, CacheInv
<1>5. /\ ServerInv(b, d.server) /\ ClientInv(a, d.client, d.server.certs)
      /\ ClientReturned(a, b) /\ ServerReturned(a, b)
  BY <1>1, NewEnds
<1>6. ServerInv(Server, conf.server)' /\ ClientInv(Client, conf.client, conf.server.certs)'
  BY <1>1, <1>2, <1>5
<1>7. ClientReturned(Client, Server)' /\ ServerReturned(Client, Server)'
  BY <1>2, <1>5
<1>. QED
  BY <1>2, <1>3, <1>4, <1>6, <1>7 DEF Inv

-----------------------------------------------------------------------------
\* A message that a place accepts
LEMMA NextMessage ==
    ASSUME Inv, NEW s \in Sides, NEW pcs, NEW type, Gets(s, pcs, type), "ccs" \notin pcs
    PROVE  /\ HasRecord(s) /\ ends[s].pc \in pcs /\ ends[s].status = 0 /\ ends[s].err = None
           /\ Proper(ends[s]) /\ Next1(s).m.type = type
           /\ "type" \in DOMAIN Next1(s).m
           /\ type = "finished" => /\ ends[Peer(s)].finished # Nil
                                   /\ Next1(s).m = FinishedMessage(ends[Peer(s)].finished)
<1>1. HasRecord(s) /\ ends[s].pc \in pcs /\ Next1(s).type = "handshake" /\ Next1(s).m.type = type
  BY DEF Gets, Sound, WantedType
<1>2. Sent(ends[Peer(s)], Next1(s)) /\ Proper(ends[s]) /\ ends[s].status = 0
  BY <1>1, NextRecord
<1>3. ends[s].err = None
  <2>1. ends[s].pc \notin Stopped
    BY <1>1 DEF HasRecord, Reading, Over, Stopped
  <2>2. Left(ends[s])
    BY DEF Inv, ServerInv, ClientInv, Server, Client, Sides
  <2>. QED
    BY <2>1, <2>2 DEF Left
<1>. QED
  BY <1>1, <1>2, <1>3 DEF Sent

\* A handshake hash that grows begins as before.
Longer(p, q) == Len(p) \in Nat /\ Len(q) \in Nat /\ Len(p) <= Len(q) /\ \A i \in 1..Len(p) : q[i] = p[i]

\* What the server's handshake hash begins with stays when messages are appended
\* to it (finishedHash.Write).
LEMMA ServerHashGrows ==
    ASSUME NEW e, NEW c, ServerHash(e, c), e.sum # <<>>, NEW f, Longer(e.sum, f.sum),
           f.hello = e.hello, f.sh = e.sh, f.vers = e.vers, f.suite = e.suite, f.resumed = e.resumed,
           f.proto = e.proto \/ e.sh.npn # <<>>
    PROVE  ServerHash(f, c) /\ Len(f.sum) >= 2 /\ f.sum # <<>>
<1>1. Len(e.sum) >= 2 /\ Len(e.sum) \in Nat /\ Len(f.sum) \in Nat /\ Len(e.sum) <= Len(f.sum)
  BY DEF ServerHash, Longer
<1>2. f.sum[1] = e.sum[1] /\ f.sum[2] = e.sum[2] /\ (Len(e.sum) >= 3 => f.sum[3] = e.sum[3])
  BY <1>1 DEF Longer
<1>3. Len(f.sum) >= 2 /\ f.sum # <<>> /\ (Len(e.sum) >= 3 => Len(f.sum) >= 3)
  BY <1>1
<1>. QED
  BY <1>1, <1>2, <1>3 DEF ServerHash

\* One message more
LEMMA AppendLonger ==
    ASSUME NEW e, Proper(e), NEW m, NEW q, q = Append(e.sum, m)
    PROVE  IsSeq(q) /\ Longer(e.sum, q) /\ Latest(q) = m /\ Len(q) = Len(e.sum) + 1
<1>1. /\ IsSeq(q) /\ Len(e.sum) \in Nat /\ Len(q) = Len(e.sum) + 1 /\ q[Len(e.sum) + 1] = m
      /\ \A i \in 1..Len(e.sum) : q[i] = e.sum[i]
  BY SeqAppend DEF Proper
<1>. QED
  BY <1>1 DEF Longer, Latest

\* The Certificate of the client
LEMMA ReadClientCertificateKeeps ==
    ASSUME Inv, ReadClientCertificate
    PROVE  Inv'
<1>1. PICK m, c, e : m = Next1("server").m /\ c = conf.server /\ e = Server
  OBVIOUS
<1>2. HasRecord("server") /\ e.pc = "certificate" /\ e.status = 0 /\ e.err = None /\ Proper(e) /\ cache' = cache
  <2>1. Gets("server", {"certificate"}, "certificate")
    BY DEF ReadClientCertificate
  <2>. QED
    BY <1>1, <2>1, NextMessage DEF ReadClientCertificate, Server, Sides
<1>3. PICK q, v : q = Append(e.sum, m) /\ v = (c.auth >= VerifyClientCertIfGiven /\ m.certs # <<>>)
  OBVIOUS
<1>4. PICK f : f = [e EXCEPT !.sum = q, !.chain = m.certs, !.peer = m.certs, !.verified = v,
                             !.pc = "clientKeyExchange"]
  OBVIOUS
<1>5. PICK checks2 : checks2 =
        << <<\E i \in DOMAIN m.certs : m.certs[i].kind = "garbage", "badCertificate">>,
           <<m.certs # <<>> /\ c.auth >= VerifyClientCertIfGiven
               /\ ~Verifies(m.certs[1], {m.certs[i] : i \in 2..Len(m.certs)}, c.clientCAs, None),
             "badCertificate">>,
           <<c.veto, "badCertificate">>,
           <<m.certs # <<>> /\ m.certs[1].kind \notin {"rsa", "ecdsa", "sm2"}, "unsupportedCertificate">> >>
  OBVIOUS
<1>6. PICK checks1 : checks1 =
        << <<m.certs = <<>> /\ c.auth \in {RequireAnyClientCert, RequireAndVerifyClientCert}, "badCertificate">> >>
  OBVIOUS
<1>7. PICK g, h : h = Checked(e, checks2, f) /\ g = Checked(e, checks1, h)
  OBVIOUS
<1>8. Consume("server", g)
  BY <1>1, <1>3, <1>4, <1>5, <1>6, <1>7, ZenonT(90) DEF ReadClientCertificate, ProcessCertsFromClient
<1>9. Stops(e, g) \/ (g = f /\ ~checks1[1][1] /\ ~checks2[2][1])
  <2>1. DOMAIN checks1 \subseteq 1..5 /\ 1 \in DOMAIN checks1
        /\ \A i \in DOMAIN checks1 : checks1[i][2] \notin {None, "noResult"}
    BY <1>6 DEF None
  <2>2. DOMAIN checks2 \subseteq 1..5 /\ 2 \in DOMAIN checks2
        /\ \A i \in DOMAIN checks2 : checks2[i][2] \notin {None, "noResult"}
    <3>1. PICK x1, x2, x3, x4 : checks2 = << <<x1, "badCertificate">>, <<x2, "badCertificate">>,
                                             <<x3, "badCertificate">>, <<x4, "unsupportedCertificate">> >>
      BY <1>5, Zenon
    <3>. QED
      BY <3>1 DEF None
  <2>3. Stops(e, h) \/ (h = f /\ ~checks2[2][1])
    BY <1>2, <1>7, <2>2, CheckedEnd
  <2>4. Stops(e, g) \/ (g = h /\ ~checks1[1][1])
    BY <1>2, <1>7, <2>1, CheckedEnd
  <2>. QED
    BY <2>3, <2>4
<1>10. CASE Stops(e, g)
  BY <1>1, <1>2, <1>8, <1>10, ServerReadsStops
<1>11. CASE g = f /\ ~checks1[1][1] /\ ~checks2[2][1]
  <2>1. /\ ~(m.certs = <<>> /\ c.auth \in {RequireAnyClientCert, RequireAndVerifyClientCert})
        /\ m.certs # <<>> /\ c.auth >= VerifyClientCertIfGiven =>
              Verifies(m.certs[1], {m.certs[i] : i \in 2..Len(m.certs)}, c.clientCAs, None)
    BY <1>5, <1>6, <1>11
  <2>2. /\ DOMAIN f = Fields /\ f.sum = q /\ f.peer = m.certs /\ f.pc = "clientKeyExchange"
        /\ Same(e, f, {"sum", "chain", "peer", "verified", "pc"})
    BY <1>2, <1>4 DEF Proper, Same, Fields
  <2>3. /\ f.vers = e.vers /\ f.suite = e.suite /\ f.master = e.master
        /\ f.hello = e.hello /\ f.sh = e.sh /\ f.in = e.in /\ f.out = e.out
        /\ f.nextIn = e.nextIn /\ f.nextOut = e.nextOut /\ f.buf = e.buf /\ f.status = e.status
        /\ f.err = e.err /\ f.resumed = e.resumed /\ f.proto = e.proto /\ f.finished = e.finished
        /\ f.wire = e.wire
    BY <2>2 DEF Same, Fields
  <2>4. IsSeq(q) /\ Longer(e.sum, q)
    BY <1>2, <1>3, AppendLonger
  <2>5. Proper(f)
    BY <1>2, <2>2, <2>3, <2>4, ProperSame
  <2>6. ServerHash(e, c) /\ ServerPlace(e, c) /\ Left(e)
    BY <1>1 DEF Inv, ServerInv
  <2>7. e.sum # <<>> /\ ~e.resumed /\ e.finished = Nil /\ NoKeys(e) /\ c.auth # 0
    BY <1>2, <2>6 DEF ServerPlace
  <2>8. ServerHash(f, c) /\ f.sum # <<>>
    BY <2>2, <2>3, <2>4, <2>6, <2>7, ServerHashGrows
  <2>9. Left(f) /\ ~Ended(f) /\ NoKeys(f) /\ ServerFinished(f)
    BY <1>2, <2>2, <2>3, <2>6, <2>7 DEF Left, Ended, NoKeys, ServerFinished, Stopped, None
  <2>10. Policy(c, f.peer)
    BY <2>1, <2>2, <2>7 DEF Policy
  <2>11. ServerPlace(f, c)
    BY <2>2, <2>3, <2>7, <2>8, <2>9, <2>10 DEF ServerPlace, Stopped
  <2>12. ServerInv(f, c)
    BY <2>5, <2>8, <2>9, <2>11 DEF ServerInv
  <2>. QED
    BY <1>1, <1>2, <1>8, <1>11, <2>3, <2>9, <2>12, ServerReads DEF ServerReturned
<1>. QED
  BY <1>9, <1>10, <1>11

\* establishKeys of the server, at the end of its part of a full handshake
LEMMA ServerKeys ==
    ASSUME NEW e, NEW c, Proper(e), Left(e), e.status = 0, e.err = None, e.pc = "ccs", ServerHash(e, c),
           e.sum # <<>>, ~e.resumed, e.finished = Nil, Policy(c, e.peer),
           NEW f, f = EstablishKeys(e, "c2s", "s2c")
    PROVE  ServerInv(f, c) /\ ~Ended(f)
<1>1. /\ Proper(f) /\ Same(e, f, {"nextIn", "nextOut"}) /\ f.nextIn = Keys(e, "c2s") /\ f.nextOut = Keys(e, "s2c")
  BY EstablishKeysEnd
<1>2. /\ f.vers = e.vers /\ f.suite = e.suite /\ f.master = e.master /\ f.pc = "ccs" /\ f.sum = e.sum
      /\ f.hello = e.hello /\ f.sh = e.sh /\ f.buf = e.buf /\ f.status = e.status /\ f.peer = e.peer
      /\ f.err = e.err /\ f.resumed = e.resumed /\ f.proto = e.proto /\ f.finished = e.finished
  BY <1>1 DEF Same, Fields
<1>3. Keys(f, "s2c") = Keys(e, "s2c") /\ Keys(f, "c2s") = Keys(e, "c2s")
  BY <1>2 DEF Keys
<1>4. Left(f) /\ ~Ended(f) /\ ServerFinished(f)
  BY <1>2 DEF Left, Ended, ServerFinished, Stopped, None
<1>5. ServerHash(f, c)
  BY <1>2 DEF ServerHash
<1>6. ServerPlace(f, c)
  BY <1>1, <1>2, <1>3, <1>4 DEF ServerPlace, Stopped
<1>. QED
  BY <1>1, <1>4, <1>5, <1>6 DEF ServerInv

\* The ClientKeyExchange
LEMMA ReadClientKeyExchangeKeeps ==
    ASSUME Inv, NEW secret, ReadClientKeyExchange(secret)
    PROVE  Inv'
<1>1. PICK m, c, e : m = Next1("server").m /\ c = conf.server /\ e = Server
  OBVIOUS
<1>2. /\ HasRecord("server") /\ e.pc = "clientKeyExchange" /\ e.status = 0 /\ e.err = None
      /\ Proper(e) /\ cache' = cache
  <2>1. Gets("server", {"clientKeyExchange"}, "clientKeyExchange")
    BY DEF ReadClientKeyExchange
  <2>. QED
    BY <1>1, <2>1, NextMessage DEF ReadClientKeyExchange, Server, Sides
<1>3. PICK q, p, k : /\ q = Append(e.sum, m) /\ p = IF e.peer # <<>> THEN "certificateVerify" ELSE "ccs"
                     /\ k = MasterFromPreMasterSecret(e.vers, e.suite, secret, e.hello.random, e.sh.random)
  OBVIOUS
<1>4. PICK f : f = [e EXCEPT !.sum = q, !.pc = p, !.master = k]
  OBVIOUS
<1>5. PICK checks : checks = << <<secret = Nil, "handshakeFailure">> >>
  OBVIOUS
<1>6. PICK h, g : h = (IF e.peer # <<>> THEN f ELSE EstablishKeys(f, "c2s", "s2c")) /\ g = Checked(e, checks, h)
  OBVIOUS
<1>7. Consume("server", g)
  BY <1>1, <1>3, <1>4, <1>5, <1>6 DEF ReadClientKeyExchange
<1>8. Stops(e, g) \/ g = h
  <2>1. DOMAIN checks \subseteq 1..5 /\ \A i \in DOMAIN checks : checks[i][2] \notin {None, "noResult"}
    BY <1>5 DEF None
  <2>. QED
    BY <1>2, <1>6, <2>1, CheckedEnd
<1>9. CASE Stops(e, g)
  BY <1>1, <1>2, <1>7, <1>9, ServerReadsStops
<1>10. CASE g = h
  <2>1. /\ DOMAIN f = Fields /\ f.sum = q /\ f.pc = p /\ f.master = k
        /\ Same(e, f, {"sum", "pc", "master"})
    BY <1>2, <1>4 DEF Proper, Same, Fields
  <2>2. /\ f.vers = e.vers /\ f.suite = e.suite /\ f.peer = e.peer
        /\ f.hello = e.hello /\ f.sh = e.sh /\ f.in = e.in /\ f.out = e.out
        /\ f.nextIn = e.nextIn /\ f.nextOut = e.nextOut /\ f.buf = e.buf /\ f.status = e.status
        /\ f.err = e.err /\ f.resumed = e.resumed /\ f.proto = e.proto /\ f.finished = e.finished
        /\ f.wire = e.wire
    BY <2>1 DEF Same, Fields
  <2>3. IsSeq(q) /\ Longer(e.sum, q)
    BY <1>2, <1>3, AppendLonger
  <2>4. Proper(f)
    BY <1>2, <2>1, <2>2, <2>3, ProperSame
  <2>5. ServerHash(e, c) /\ ServerPlace(e, c) /\ Left(e)
    BY <1>1 DEF Inv, ServerInv
  <2>6. e.sum # <<>> /\ ~e.resumed /\ e.finished = Nil /\ NoKeys(e) /\ Policy(c, e.peer)
    BY <1>2, <2>5 DEF ServerPlace
  <2>7. ServerHash(f, c) /\ f.sum # <<>>
    BY <2>1, <2>2, <2>3, <2>5, <2>6, ServerHashGrows
  <2>8. Left(f) /\ ~Ended(f) /\ NoKeys(f) /\ ServerFinished(f)
    BY <1>2, <1>3, <2>1, <2>2, <2>5, <2>6 DEF Left, Ended, NoKeys, ServerFinished, Stopped, None
  <2>9. ServerInv(h, c) /\ ~Ended(h)
    <3>1. CASE e.peer # <<>>
      <4>1. ServerPlace(f, c)
        BY <1>3, <2>1, <2>2, <2>6, <2>7, <2>8, <3>1 DEF ServerPlace, Stopped
      <4>. QED
        BY <1>6, <2>4, <2>7, <2>8, <3>1, <4>1 DEF ServerInv
    <3>2. CASE e.peer = <<>>
      BY <1>2, <1>3, <1>6, <2>1, <2>2, <2>4, <2>6, <2>7, <2>8, <3>2, ServerKeys
    <3>. QED
      BY <3>1, <3>2
  <2>. QED
    BY <1>1, <1>2, <1>7, <1>10, <2>6, <2>9, ServerReads DEF ServerReturned
<1>. QED
  BY <1>8, <1>9, <1>10

\* The CertificateVerify
LEMMA ReadCertificateVerifyKeeps ==
    ASSUME Inv, ReadCertificateVerify
    PROVE  Inv'
<1>1. PICK m, c, e : m = Next1("server").m /\ c = conf.server /\ e = Server
  OBVIOUS
<1>2. /\ HasRecord("server") /\ e.pc = "certificateVerify" /\ e.status = 0 /\ e.err = None
      /\ Proper(e) /\ cache' = cache
  <2>1. Gets("server", {"certificateVerify"}, "certificateVerify")
    BY DEF ReadCertificateVerify
  <2>. QED
    BY <1>1, <2>1, NextMessage DEF ReadCertificateVerify, Server, Sides
<1>3. PICK q, alg : /\ q = Append(e.sum, m)
                    /\ alg = PickSignatureAlgorithm(e.peer[1].kind, <<m.alg>>, SupportedSignatureAlgorithms, e.vers)
  OBVIOUS
<1>4. PICK f : f = [e EXCEPT !.sum = q, !.keep = FALSE, !.pc = "ccs"]
  OBVIOUS
<1>5. PICK checks : checks =
        << <<alg = None, "illegalParameter">>,
           <<~VerifyHandshakeSignature(e.peer[1], alg, m.sig, e.sum), "badCertificate">> >>
  OBVIOUS
<1>6. PICK h, g : h = EstablishKeys(f, "c2s", "s2c") /\ g = Checked(e, checks, h)
  OBVIOUS
<1>7. Consume("server", g)
  BY <1>1, <1>3, <1>4, <1>5, <1>6 DEF ReadCertificateVerify
<1>8. Stops(e, g) \/ g = h
  <2>1. DOMAIN checks \subseteq 1..5 /\ \A i \in DOMAIN checks : checks[i][2] \notin {None, "noResult"}
    BY <1>5 DEF None
  <2>. QED
    BY <1>2, <1>6, <2>1, CheckedEnd
<1>9. CASE Stops(e, g)
  BY <1>1, <1>2, <1>7, <1>9, ServerReadsStops
<1>10. CASE g = h
  <2>1. /\ DOMAIN f = Fields /\ f.sum = q /\ f.pc = "ccs" /\ Same(e, f, {"sum", "pc", "keep"})
    BY <1>2, <1>4 DEF Proper, Same, Fields
  <2>2. /\ f.vers = e.vers /\ f.suite = e.suite /\ f.peer = e.peer /\ f.master = e.master
        /\ f.hello = e.hello /\ f.sh = e.sh /\ f.buf = e.buf /\ f.status = e.status
        /\ f.err = e.err /\ f.resumed = e.resumed /\ f.proto = e.proto /\ f.finished = e.finished
        /\ f.wire = e.wire
    BY <2>1 DEF Same, Fields
  <2>3. IsSeq(q) /\ Longer(e.sum, q)
    BY <1>2, <1>3, AppendLonger
  <2>4. Proper(f)
    BY <1>2, <2>1, <2>2, <2>3, ProperSame
  <2>5. ServerHash(e, c) /\ ServerPlace(e, c) /\ Left(e)
    BY <1>1 DEF Inv, ServerInv
  <2>6. e.sum # <<>> /\ ~e.resumed /\ e.finished = Nil /\ Policy(c, e.peer)
    BY <1>2, <2>5 DEF ServerPlace
  <2>7. ServerHash(f, c) /\ f.sum # <<>>
    BY <2>1, <2>2, <2>3, <2>5, <2>6, ServerHashGrows
  <2>8. Left(f)
    BY <1>2, <2>1, <2>2, <2>5 DEF Left, Stopped, None
  <2>9. ServerInv(h, c) /\ ~Ended(h)
    BY <1>2, <1>6, <2>1, <2>2, <2>4, <2>6, <2>7, <2>8, ServerKeys
  <2>. QED
    BY <1>1, <1>2, <1>7, <1>10, <2>6, <2>9, ServerReads DEF ServerReturned
<1>. QED
  BY <1>8, <1>9, <1>10

\* The NPN message
LEMMA ReadNextProtoKeeps ==
    ASSUME Inv, ReadNextProto
    PROVE  Inv'
<1>1. PICK m, c, e : m = Next1("server").m /\ c = conf.server /\ e = Server
  OBVIOUS
<1>2. /\ HasRecord("server") /\ e.pc = "nextProto" /\ e.status = 0 /\ e.err = None
      /\ Proper(e) /\ cache' = cache
  <2>1. Gets("server", {"nextProto"}, "nextProto")
    BY DEF ReadNextProto
  <2>. QED
    BY <1>1, <2>1, NextMessage DEF ReadNextProto, Server, Sides
<1>3. PICK q, p : q = Append(e.sum, m) /\ p = m.proto
  OBVIOUS
<1>4. PICK f : f = [e EXCEPT !.sum = q, !.proto = p, !.pc = "finished"]
  OBVIOUS
<1>5. Consume("server", f)
  BY <1>1, <1>3, <1>4 DEF ReadNextProto
<1>6. /\ DOMAIN f = Fields /\ f.sum = q /\ f.pc = "finished" /\ f.proto = p /\ Same(e, f, {"sum", "pc", "proto"})
  BY <1>2, <1>4 DEF Proper, Same, Fields
<1>7. /\ f.vers = e.vers /\ f.suite = e.suite /\ f.peer = e.peer /\ f.master = e.master
      /\ f.hello = e.hello /\ f.sh = e.sh /\ f.buf = e.buf /\ f.status = e.status
      /\ f.err = e.err /\ f.resumed = e.resumed /\ f.finished = e.finished
      /\ f.wire = e.wire /\ f.in = e.in /\ f.out = e.out /\ f.nextOut = e.nextOut
  BY <1>6 DEF Same, Fields
<1>8. IsSeq(q) /\ Longer(e.sum, q) /\ Latest(q) = m
  BY <1>2, <1>3, AppendLonger
<1>9. Proper(f)
  BY <1>2, <1>6, <1>7, <1>8, ProperSame
<1>10. ServerHash(e, c) /\ ServerPlace(e, c) /\ Left(e) /\ ServerFinished(e)
  BY <1>1 DEF Inv, ServerInv
<1>11. /\ e.sum # <<>> /\ Policy(c, e.peer) /\ e.sh.npn # <<>> /\ e.in = Keys(e, "c2s")
       /\ e.resumed => e.finished # Nil
       /\ ~e.resumed => e.finished = Nil /\ e.nextOut = Keys(e, "s2c")
  BY <1>2, <1>10 DEF ServerPlace
<1>12. ServerHash(f, c) /\ f.sum # <<>>
  BY <1>6, <1>7, <1>8, <1>10, <1>11, ServerHashGrows
<1>13. Keys(f, "s2c") = Keys(e, "s2c") /\ Keys(f, "c2s") = Keys(e, "c2s")
  BY <1>7 DEF Keys
<1>14. Left(f) /\ ~Ended(f)
  BY <1>2, <1>6, <1>7, <1>10 DEF Left, Ended, Stopped, None
<1>15. ServerFinished(f)
  BY <1>7, <1>10, <1>11, <1>12, <1>13 DEF ServerFinished, TicketOf
<1>16. ServerPlace(f, c)
  BY <1>3, <1>6, <1>7, <1>8, <1>11, <1>12, <1>13, <1>14 DEF ServerPlace, Stopped
<1>17. ServerInv(f, c)
  BY <1>9, <1>12, <1>14, <1>15, <1>16 DEF ServerInv
<1>. QED
  BY <1>1, <1>2, <1>5, <1>7, <1>14, <1>17, ServerReads DEF ServerReturned

-----------------------------------------------------------------------------
\* What a server knows that has read the client's Finished and sent its own
Concluded(g, c, a) ==
    /\ Proper(g) /\ ServerHash(g, c) /\ ServerFinished(g) /\ g.sum # <<>> /\ Policy(c, g.peer)
    /\ g.finished # Nil /\ g.buf = <<>> /\ g.in = Keys(g, "c2s") /\ g.status = 0 /\ g.err = None
    /\ a.finished # Nil /\ g.master = a.finished.master
    /\ g.resumed => g.sum = Append(a.finished.sum, FinishedMessage(a.finished))
    /\ g.sh.npn # <<>> => Latest(a.finished.sum).proto = g.proto

\* Its handshake function returns.
LEMMA ConcludedReturns ==
    ASSUME NEW g, NEW c, NEW a, Concluded(g, c, a), NEW f,
           \/ f = [g EXCEPT !.status = 1, !.pc = "end"]
           \/ f = [g EXCEPT !.err = "noResult", !.pc = "panicked"]
    PROVE  ServerInv(f, c) /\ ServerReturned(a, f) /\ f.finished = g.finished
<1>1. Proper(g)
  BY DEF Concluded
<1>2. /\ DOMAIN f = Fields /\ Same(g, f, {"status", "err", "pc"})
      /\ \/ f.status = 1 /\ f.pc = "end" /\ f.err = g.err
         \/ f.status = g.status /\ f.pc = "panicked" /\ f.err = "noResult"
  BY <1>1 DEF Proper, Same, Fields
<1>3. /\ f.vers = g.vers /\ f.suite = g.suite /\ f.peer = g.peer /\ f.master = g.master
      /\ f.hello = g.hello /\ f.sh = g.sh /\ f.buf = g.buf /\ f.sum = g.sum
      /\ f.resumed = g.resumed /\ f.finished = g.finished /\ f.proto = g.proto
      /\ f.wire = g.wire /\ f.in = g.in /\ f.out = g.out /\ f.nextOut = g.nextOut
  BY <1>2 DEF Same, Fields
<1>4. Keys(f, "s2c") = Keys(g, "s2c") /\ Keys(f, "c2s") = Keys(g, "c2s")
  BY <1>3 DEF Keys
<1>5. Proper(f)
  BY <1>1, <1>2, <1>3, ProperSame DEF Proper
<1>6. Left(f) /\ Ended(f)
  BY <1>2, <1>3 DEF Left, Ended, Stopped, None, Concluded
<1>7. ServerHash(f, c)
  BY <1>3 DEF ServerHash, Concluded
<1>8. ServerFinished(f)
  BY <1>3, <1>4 DEF ServerFinished, TicketOf, Concluded
<1>9. ServerPlace(f, c)
  BY <1>2, <1>3, <1>4 DEF ServerPlace, Concluded, Stopped
<1>10. ServerReturned(a, f)
  BY <1>3 DEF ServerReturned, Concluded
<1>. QED
  BY <1>3, <1>5, <1>6, <1>7, <1>8, <1>9, <1>10 DEF ServerInv

\* The rest of serverHandshake after the client's Finished was accepted
LEMMA AfterClientFinishedEnd ==
    ASSUME Inv, Gets("server", {"finished"}, "finished"), Next1("server").m.data = FinishedSum(Server, "client"),
           NEW g, g = AfterClientFinished
    PROVE  Concluded(g, conf.server, Client) /\ (Server.finished = Nil \/ g.finished = Server.finished)
<1>1. PICK m, c, e, a : m = Next1("server").m /\ c = conf.server /\ e = Server /\ a = Client
  OBVIOUS
<1>2. /\ e.pc = "finished" /\ e.status = 0 /\ e.err = None /\ Proper(e)
      /\ a.finished # Nil /\ m = FinishedMessage(a.finished)
  BY <1>1, NextMessage DEF Server, Client, Sides, Peer
<1>3. /\ a.finished = FinishedSum(e, "client") /\ a.finished.master = e.master /\ a.finished.sum = e.sum
  <2>1. m.data = FinishedSum(e, "client") /\ m.data = a.finished
    BY <1>1, <1>2 DEF FinishedMessage
  <2>. QED
    BY <2>1 DEF FinishedSum
<1>4. PICK q : q = Append(e.sum, m)
  OBVIOUS
<1>5. PICK f, f2 : f = [e EXCEPT !.sum = q] /\ f2 = [f EXCEPT !.buffering = TRUE]
  OBVIOUS
<1>6. DOMAIN f = Fields /\ f.sum = q /\ Same(e, f, {"sum"})
  BY <1>2, <1>5 DEF Proper, Same, Fields
<1>7. /\ f.vers = e.vers /\ f.suite = e.suite /\ f.peer = e.peer /\ f.master = e.master
      /\ f.hello = e.hello /\ f.sh = e.sh /\ f.buf = e.buf /\ f.status = e.status
      /\ f.err = e.err /\ f.resumed = e.resumed /\ f.finished = e.finished /\ f.proto = e.proto
      /\ f.wire = e.wire /\ f.in = e.in /\ f.out = e.out /\ f.nextOut = e.nextOut
  BY <1>6 DEF Same, Fields
<1>8. IsSeq(q) /\ Longer(e.sum, q) /\ Len(q) = Len(e.sum) + 1
  BY <1>2, <1>4, AppendLonger
<1>9. Proper(f)
  BY <1>2, <1>6, <1>7, <1>8, ProperSame
<1>10. ServerHash(e, c) /\ ServerPlace(e, c) /\ Left(e) /\ ServerFinished(e)
  BY <1>1 DEF Inv, ServerInv
<1>11. /\ e.sum # <<>> /\ Policy(c, e.peer) /\ e.in = Keys(e, "c2s") /\ e.buf = <<>>
       /\ e.resumed => e.finished # Nil
       /\ ~e.resumed => e.finished = Nil /\ e.nextOut = Keys(e, "s2c")
       /\ e.sh.npn # <<>> => Latest(e.sum).proto = e.proto
  BY <1>2, <1>10 DEF ServerPlace, Left
<1>12. ServerHash(f, c) /\ f.sum # <<>> /\ Len(f.sum) >= 2
  BY <1>6, <1>7, <1>8, <1>10, <1>11, ServerHashGrows
<1>13. Keys(f, "s2c") = Keys(e, "s2c") /\ Keys(f, "c2s") = Keys(e, "c2s")
  BY <1>7 DEF Keys
<1>14. g = IF f.resumed THEN f ELSE SendServerFinished(SendSessionTicket(f2))
  BY <1>1, <1>4, <1>5 DEF AfterClientFinished
<1>15. CASE e.resumed
  <2>1. g = f
    BY <1>7, <1>14, <1>15
  <2>2. ServerFinished(f)
    BY <1>7, <1>10, <1>11, <1>12, <1>13, <1>15 DEF ServerFinished, TicketOf
  <2>3. f.sum = Append(a.finished.sum, FinishedMessage(a.finished))
    BY <1>2, <1>3, <1>4, <1>6
  <2>4. Concluded(f, c, a)
    BY <1>2, <1>3, <1>7, <1>9, <1>11, <1>12, <1>13, <1>15, <2>2, <2>3 DEF Concluded
  <2>. QED
    BY <1>1, <1>7, <2>1, <2>4
<1>16. CASE ~e.resumed
  <2>1. DOMAIN f2 = Fields /\ Same(f, f2, {"buffering"})
    BY <1>5, <1>9 DEF Proper, Same, Fields
  <2>2. /\ f2.wire = f.wire /\ f2.buf = f.buf /\ f2.sum = f.sum /\ f2.finished = Nil /\ f2.sh = f.sh
        /\ f2.vers = f.vers /\ f2.suite = f.suite /\ f2.master = f.master
    BY <1>7, <1>11, <1>16, <2>1 DEF Same, Fields
  <2>3. Proper(f2)
    BY <1>7, <1>9, <1>11, <1>16, <2>1, <2>2, ProperSame DEF Proper
  <2>4. PICK t : t = SendSessionTicket(f2)
    OBVIOUS
  <2>5. EnvInv /\ (f2.sh.tickets => ~conf.server.noTickets)
    BY <1>1, <1>12, <2>2 DEF Inv, ServerHash
  <2>6. /\ Proper(t) /\ Same(f2, t, {"wire", "buf", "sum"}) /\ (~f2.sh.tickets => t = f2)
        /\ f2.sh.tickets => \E x : t.sum = Append(f2.sum, x) /\ TicketOf(f2, x.ticket)
    BY <2>3, <2>4, <2>5, SendSessionTicketEnd
  <2>7. t.finished = Nil
    BY <2>2, <2>6 DEF Same, Fields
  <2>8. g = SendServerFinished(t)
    BY <1>7, <1>14, <1>16, <2>4
  <2>9. /\ Proper(g) /\ g.finished # Nil /\ g.buf = <<>> /\ g.out = t.nextOut
        /\ Same(t, g, {"wire", "buf", "buffering", "sum", "finished", "out", "nextOut"})
        /\ g.finished = [who |-> "server", master |-> t.master, sum |-> t.sum]
        /\ g.sum = Append(t.sum, FinishedMessage(g.finished))
    BY <2>6, <2>7, <2>8, SendServerFinishedEnd
  <2>10. Same(f, g, {"wire", "buf", "buffering", "sum", "finished", "out", "nextOut"})
    BY <2>1, <2>6, <2>9 DEF Same
  <2>11. /\ g.vers = f.vers /\ g.suite = f.suite /\ g.peer = f.peer /\ g.master = f.master
         /\ g.hello = f.hello /\ g.sh = f.sh /\ g.status = f.status
         /\ g.err = f.err /\ g.resumed = f.resumed /\ g.proto = f.proto /\ g.in = f.in
    BY <2>10 DEF Same, Fields
  <2>12. t.master = f.master /\ t.nextOut = f.nextOut /\ t.vers = f.vers /\ t.suite = f.suite
    BY <2>1, <2>6 DEF Same, Fields
  <2>13. Longer(f.sum, t.sum) /\ (f.sh.tickets => TicketOf(f, Latest(t.sum).ticket))
    <3>1. CASE ~f2.sh.tickets
      <4>1. t.sum = f.sum /\ Len(f.sum) \in Nat
        BY <1>9, <2>2, <2>6, <3>1, SeqAppend DEF Proper
      <4>. QED
        BY <2>2, <3>1, <4>1 DEF Longer
    <3>2. CASE f2.sh.tickets
      <4>1. PICK x : t.sum = Append(f2.sum, x) /\ TicketOf(f2, x.ticket)
        BY <2>6, <3>2
      <4>2. Longer(f2.sum, t.sum) /\ Latest(t.sum) = x
        BY <2>3, <4>1, AppendLonger
      <4>. QED
        BY <2>2, <4>1, <4>2 DEF TicketOf
    <3>. QED
      BY <3>1, <3>2
  <2>14. Longer(t.sum, g.sum)
    BY <2>6, <2>9, AppendLonger
  <2>15. ServerHash(t, c) /\ t.sum # <<>>
    <3>1. t.hello = f.hello /\ t.sh = f.sh /\ t.resumed = f.resumed /\ t.proto = f.proto
      BY <2>1, <2>6 DEF Same, Fields
    <3>. QED
      BY <1>12, <2>12, <2>13, <3>1, ServerHashGrows
  <2>16. ServerHash(g, c) /\ g.sum # <<>>
    <3>1. g.hello = t.hello /\ g.sh = t.sh /\ g.resumed = t.resumed /\ g.proto = t.proto
          /\ g.vers = t.vers /\ g.suite = t.suite
      BY <2>9 DEF Same, Fields
    <3>. QED
      BY <2>14, <2>15, <3>1, ServerHashGrows
  <2>17. Keys(g, "s2c") = Keys(e, "s2c") /\ Keys(g, "c2s") = Keys(e, "c2s")
    BY <1>7, <2>11 DEF Keys
  <2>18. ServerFinished(g)
    <3>1. g.finished.sum = t.sum /\ g.finished = [who |-> "server", master |-> g.master, sum |-> g.finished.sum]
      BY <2>9, <2>11, <2>12
    <3>2. IsSeq(t.sum)
      BY <2>6 DEF Proper
    <3>3. ~t.resumed /\ t.hello = g.hello /\ t.sh = g.sh
      BY <1>7, <1>16, <2>1, <2>6, <2>11 DEF Same, Fields
    <3>4. Len(t.sum) >= 3 /\ Len(t.sum) >= 2 /\ t.sum[1] = g.hello /\ t.sum[2] = g.sh
      BY <2>15, <3>3 DEF ServerHash
    <3>5. g.sh.tickets => TicketOf(g, Latest(t.sum).ticket)
      BY <2>11, <2>13 DEF TicketOf
    <3>6. g.out = Keys(g, "s2c")
      BY <1>7, <1>11, <1>16, <2>9, <2>12, <2>17
    <3>7. g.sum = Append(g.finished.sum, FinishedMessage(g.finished))
      BY <2>9, <3>1
    <3>. QED
      BY <2>16, <3>1, <3>2, <3>4, <3>5, <3>6, <3>7 DEF ServerFinished
  <2>19. Concluded(g, c, a)
    <3>1. ~g.resumed
      BY <1>7, <1>16, <2>11
    <3>2. g.in = Keys(g, "c2s") /\ g.status = 0 /\ g.err = None /\ Policy(c, g.peer)
      BY <1>2, <1>7, <1>11, <2>11, <2>17
    <3>3. g.master = a.finished.master /\ (g.sh.npn # <<>> => Latest(a.finished.sum).proto = g.proto)
      BY <1>3, <1>7, <1>11, <2>11
    <3>. QED
      BY <1>2, <2>9, <2>16, <2>18, <3>1, <3>2, <3>3 DEF Concluded
  <2>. QED
    BY <1>1, <1>11, <1>16, <2>19
<1>. QED
  BY <1>15, <1>16

\* readFinished of the server
LEMMA ReadClientFinishedKeeps ==
    ASSUME Inv, NEW nilPrf, NEW done, ReadClientFinished(nilPrf, done),
           \/ done = ServerHandshakeDone(AfterClientFinished)
           \/ done = ServerHandshakeGmDone(AfterClientFinished)
    PROVE  Inv'
<1>1. Gets("server", {"finished"}, "finished") /\ cache' = cache
  BY DEF ReadClientFinished
<1>2. HasRecord("server") /\ Proper(Server)
  BY <1>1, NextMessage DEF Server, Sides
<1>3. CASE nilPrf
  <2>1. PICK f : f = Panic(Server, "nilPrf")
    OBVIOUS
  <2>2. Stops(Server, f)
    BY <1>2, <2>1, PanicStops DEF None
  <2>3. Consume("server", f)
    BY <1>3, <2>1 DEF ReadClientFinished
  <2>. QED
    BY <1>1, <1>2, <2>2, <2>3, ServerReadsStops
<1>4. CASE ~nilPrf /\ Next1("server").m.data # FinishedSum(Server, "client")
  <2>1. PICK f : f = Fail(Server, "handshakeFailure")
    OBVIOUS
  <2>2. Stops(Server, f)
    BY <1>2, <2>1, FailStops DEF None
  <2>3. Consume("server", f)
    BY <1>4, <2>1 DEF ReadClientFinished
  <2>. QED
    BY <1>1, <1>2, <2>2, <2>3, ServerReadsStops
<1>5. CASE ~nilPrf /\ Next1("server").m.data = FinishedSum(Server, "client")
  <2>1. PICK g : g = AfterClientFinished
    OBVIOUS
  <2>2. Concluded(g, conf.server, Client) /\ (Server.finished = Nil \/ g.finished = Server.finished)
    BY <1>1, <1>5, <2>1, AfterClientFinishedEnd
  <2>3. PICK f : f = done
    OBVIOUS
  <2>4. \/ f = [g EXCEPT !.status = 1, !.pc = "end"]
        \/ f = [g EXCEPT !.err = "noResult", !.pc = "panicked"]
    BY <2>1, <2>3 DEF ServerHandshakeDone, ServerHandshakeGmDone, Panic
  <2>5. ServerInv(f, conf.server) /\ ServerReturned(Client, f) /\ f.finished = g.finished
    BY <2>2, <2>4, ConcludedReturns
  <2>6. Consume("server", f)
    BY <1>5, <2>3 DEF ReadClientFinished
  <2>. QED
    BY <1>1, <1>2, <2>2, <2>5, <2>6, ServerReads
<1>. QED
  BY <1>3, <1>4, <1>5

-----------------------------------------------------------------------------
\* An end that has written handshake messages
Grows(e, f, changed) ==
    /\ Proper(f) /\ Same(e, f, {"wire", "buf", "sum"} \cup changed) /\ Longer(e.sum, f.sum)

\* A handshake message that an end writes grows its hash by that message and
\* leaves it proper (writeRecord after finishedHash.Write).
LEMMA GrowsReads ==
    ASSUME NEW e, Proper(e), NEW m, "type" \in DOMAIN m,
           m.type # "finished" \/ (e.finished # Nil /\ m = FinishedMessage(e.finished)),
           NEW f, f = WriteHandshake(e, m)
    PROVE  Grows(e, f, {}) /\ f.sum = Append(e.sum, m) /\ f.sum # <<>> /\ Len(f.sum) = Len(e.sum) + 1 /\ Latest(f.sum) = m
<1>1. Proper(f) /\ Same(e, f, {"wire", "buf", "sum"}) /\ f.sum = Append(e.sum, m)
  BY WriteHandshakeEnd
<1>2. Longer(e.sum, f.sum) /\ Len(f.sum) = Len(e.sum) + 1 /\ Latest(f.sum) = m
  BY <1>1, AppendLonger
<1>3. f.sum # <<>>
  BY <1>1, SeqAppend DEF Proper
<1>. QED
  BY <1>1, <1>2, <1>3 DEF Grows

\* An end that has not written
LEMMA GrowsNot ==
    ASSUME NEW e, Proper(e), NEW changed
    PROVE  Grows(e, e, changed)
<1>1. Len(e.sum) \in Nat
  BY SeqAppend DEF Proper
<1>. QED
  BY <1>1 DEF Grows, Same, Longer

\* Writing on
LEMMA GrowsOn ==
    ASSUME NEW e, NEW f, NEW g, NEW s, NEW t, Grows(e, f, s), Grows(f, g, t)
    PROVE  Grows(e, g, s \cup t)
<1>1. Same(e, g, {"wire", "buf", "sum"} \cup (s \cup t))
  BY DEF Grows, Same
<1>2. PICK k \in Nat, l \in Nat, n \in Nat : k = Len(e.sum) /\ l = Len(f.sum) /\ n = Len(g.sum) /\ k <= l /\ l <= n
  BY DEF Grows, Longer
<1>3. \A i \in 1..k : i \in 1..l
  BY <1>2
<1>4. \A i \in 1..k : g.sum[i] = e.sum[i]
  BY <1>2, <1>3 DEF Grows, Longer
<1>5. k <= n
  BY <1>2
<1>. QED
  BY <1>1, <1>2, <1>4, <1>5 DEF Grows, Longer

\* A server that has read the ClientHello and not answered
Greeted(e, c) ==
    /\ Proper(e) /\ e.sum = <<>> /\ e.peer = <<>> /\ ~e.resumed /\ e.finished = Nil /\ NoKeys(e)
    /\ e.status = 0 /\ e.err = None /\ e.buf = <<>> /\ e.vers = MutualVersion(c, e.hello.vers)

\* It stops.
LEMMA GreetedStops ==
    ASSUME NEW e, NEW c, Greeted(e, c), NEW f, Stops(e, f)
    PROVE  ServerInv(f, c) /\ ~Ended(f)
<1>1. ServerHash(e, c) /\ ServerFinished(e) /\ e.status = 0
  BY DEF Greeted, ServerHash, ServerFinished
<1>. QED
  BY <1>1, ServerStops

\* doFullHandshake up to its first read
LEMMA SendServerFlightEnd ==
    ASSUME NEW e, NEW c, Greeted(e, c), c.auth \in 0..4,
           "type" \in DOMAIN e.sh, e.sh.type # "finished", e.sh.vers = e.vers, e.sh.suite = e.suite,
           e.sh.sid = 0, e.sh.tickets => ~c.noTickets, e.proto = e.sh.alpn,
           NEW certs, certs[1] = c.certs[1][1], NEW hasSkx, NEW skx,
           "type" \in DOMAIN skx, skx.type # "finished",
           NEW status, NEW algs, NEW g, g = SendServerFlight(e, c, certs, hasSkx, skx, status, algs)
    PROVE  ServerInv(g, c) /\ ~Ended(g)
<1>1. PICK q, k : q = <<e.hello>> /\ k = (c.auth # 0)
  OBVIOUS
<1>2. PICK d : d = [e EXCEPT !.sum = q, !.keep = k, !.buffering = TRUE]
  OBVIOUS
<1>3. DOMAIN d = Fields /\ d.sum = q /\ Same(e, d, {"sum", "keep", "buffering"}) /\ Proper(e)
  BY <1>2 DEF Greeted, Proper, Same, Fields
<1>4. d.wire = e.wire /\ d.buf = e.buf /\ d.finished = e.finished
  BY <1>3 DEF Same, Fields
<1>5. Proper(d)
  <2>1. IsSeq(q)
    BY <1>1, SeqShort
  <2>. QED
    BY <1>3, <1>4, <2>1, ProperSame
<1>6. PICK m0, m1, m2, m4, m5 :
         /\ m0 = e.sh /\ m1 = [type |-> "certificate", certs |-> certs]
         /\ m2 = [type |-> "certificateStatus"]
         /\ m4 = [type |-> "certificateRequest", cas |-> c.clientCAs, algs |-> algs]
         /\ m5 = [type |-> "serverHelloDone"]
  OBVIOUS
<1>7. /\ "type" \in DOMAIN m0 /\ m0.type # "finished" /\ "type" \in DOMAIN m1 /\ m1.type # "finished"
      /\ "type" \in DOMAIN m2 /\ m2.type # "finished" /\ "type" \in DOMAIN m4 /\ m4.type # "finished"
      /\ "type" \in DOMAIN m5 /\ m5.type # "finished" /\ m1.certs[1] = c.certs[1][1]
  BY <1>6
<1>8. PICK e0 : e0 = WriteHandshake(d, m0)
  OBVIOUS
<1>9. Grows(d, e0, {}) /\ e0.sum = Append(q, m0) /\ Len(e0.sum) = Len(q) + 1 /\ Latest(e0.sum) = m0 /\ Proper(e0)
  BY <1>3, <1>5, <1>7, <1>8, GrowsReads DEF Grows
<1>10. PICK e1 : e1 = WriteHandshake(e0, m1)
  OBVIOUS
<1>11. Grows(e0, e1, {}) /\ Len(e1.sum) = Len(e0.sum) + 1 /\ Latest(e1.sum) = m1 /\ Proper(e1)
  BY <1>7, <1>9, <1>10, GrowsReads DEF Grows
<1>12. Len(e1.sum) = 3 /\ e1.sum[1] = e.hello /\ e1.sum[2] = e.sh /\ e1.sum[3] = m1
  <2>1. Len(q) = 1 /\ q[1] = e.hello
    BY <1>1, SeqShort
  <2>2. Len(e0.sum) = 2 /\ e0.sum[1] = e.hello /\ e0.sum[2] = e.sh
    BY <1>3, <1>6, <1>9, <2>1 DEF Grows, Longer, Latest
  <2>. QED
    BY <1>11, <2>2 DEF Grows, Longer, Latest
<1>13. PICK e2 : e2 = IF status THEN WriteHandshake(e1, m2) ELSE e1
  OBVIOUS
<1>14. Grows(e1, e2, {}) /\ Proper(e2)
  BY <1>7, <1>11, <1>13, GrowsReads, GrowsNot DEF Grows
<1>15. Grows(e1, e2, {"ka", "pc", "buffering"})
  BY <1>14 DEF Grows, Same
\* What every end from e1 on knows
<1>16. ASSUME NEW f, Grows(e1, f, {"ka", "pc", "buffering"})
       PROVE  /\ ServerHash(f, c) /\ f.sum # <<>> /\ ServerFinished(f) /\ f.finished = Nil /\ ~f.resumed /\ NoKeys(f)
              /\ f.status = 0 /\ f.err = None /\ f.peer = <<>>
  <2>1. Same(e, f, {"wire", "buf", "buffering", "sum", "ka", "pc", "keep"})
    BY <1>3, <1>9, <1>11, <1>16 DEF Grows, Same
  <2>2. /\ f.vers = e.vers /\ f.suite = e.suite /\ f.peer = e.peer /\ f.hello = e.hello /\ f.sh = e.sh
        /\ f.status = e.status /\ f.err = e.err /\ f.resumed = e.resumed /\ f.finished = e.finished
        /\ f.proto = e.proto /\ f.in = e.in /\ f.out = e.out /\ f.nextIn = e.nextIn /\ f.nextOut = e.nextOut
    BY <2>1 DEF Same, Fields
  <2>3. Len(f.sum) >= 3 /\ Len(f.sum) \in Nat /\ f.sum[1] = e.hello /\ f.sum[2] = e.sh /\ f.sum[3] = m1
    BY <1>12, <1>16 DEF Grows, Longer
  <2>4. Len(f.sum) >= 2 /\ f.sum # <<>>
    BY <2>3
  <2>5. f.finished = Nil /\ ~f.resumed /\ NoKeys(f) /\ f.status = 0 /\ f.err = None /\ f.peer = <<>>
    BY <2>2 DEF Greeted, NoKeys
  <2>6. f.vers = MutualVersion(c, f.hello.vers)
    BY <2>2 DEF Greeted
  <2>7. ServerHash(f, c)
    BY <1>7, <2>2, <2>3, <2>4, <2>5, <2>6 DEF ServerHash
  <2>. QED
    BY <2>4, <2>5, <2>7 DEF ServerFinished
<1>17. CASE hasSkx /\ skx = Nil
  <2>1. g = Fail(e2, "handshakeFailure")
    BY <1>1, <1>2, <1>6, <1>8, <1>10, <1>13, <1>17 DEF SendServerFlight
  <2>2. Stops(e2, g)
    BY <1>14, <2>1, FailStops DEF None
  <2>. QED
    BY <1>15, <1>16, <2>2, ServerStops
<1>18. CASE ~(hasSkx /\ skx = Nil)
  <2>1. PICK d2 : d2 = [e2 EXCEPT !.ka = skx]
    OBVIOUS
  <2>2. DOMAIN d2 = Fields /\ Same(e2, d2, {"ka"})
    BY <1>14, <2>1 DEF Proper, Same, Fields
  <2>3. d2.wire = e2.wire /\ d2.buf = e2.buf /\ d2.sum = e2.sum /\ d2.finished = e2.finished
    BY <2>2 DEF Same, Fields
  <2>4. Proper(d2)
    BY <1>14, <2>2, <2>3, ProperSame DEF Proper
  <2>5. Grows(e2, d2, {"ka"})
    BY <1>14, <2>2, <2>3, <2>4, SeqAppend DEF Grows, Same, Longer, Proper
  <2>6. PICK w : w = WriteHandshake(d2, skx)
    OBVIOUS
  <2>7. Grows(d2, w, {})
    BY <2>4, <2>6, GrowsReads
  <2>8. PICK e3 : e3 = IF hasSkx THEN w ELSE e2
    OBVIOUS
  <2>9. Grows(e2, e3, {"ka"}) /\ Proper(e3)
    <3>1. Grows(e2, w, {"ka"} \cup {})
      BY <2>5, <2>7, GrowsOn
    <3>2. {"ka"} \cup {} = {"ka"}
      OBVIOUS
    <3>3. Grows(e2, w, {"ka"})
      BY <3>1, <3>2
    <3>. QED
      BY <1>14, <2>8, <3>3, GrowsNot DEF Grows
  <2>10. c.auth >= RequestClientCert <=> c.auth # 0
    BY DEF RequestClientCert
  <2>11. PICK e4 : e4 = IF c.auth >= RequestClientCert THEN WriteHandshake(e3, m4) ELSE e3
    OBVIOUS
  <2>12. Grows(e3, e4, {}) /\ Proper(e4)
    BY <1>7, <2>9, <2>11, GrowsReads, GrowsNot DEF Grows
  <2>13. PICK p : p = IF c.auth >= RequestClientCert THEN "certificate" ELSE "clientKeyExchange"
    OBVIOUS
  <2>14. PICK d4 : d4 = [e4 EXCEPT !.pc = p]
    OBVIOUS
  <2>15. DOMAIN d4 = Fields /\ d4.pc = p /\ Same(e4, d4, {"pc"})
    BY <2>12, <2>14 DEF Proper, Same, Fields
  <2>16. d4.wire = e4.wire /\ d4.buf = e4.buf /\ d4.sum = e4.sum /\ d4.finished = e4.finished
    BY <2>15 DEF Same, Fields
  <2>17. Proper(d4)
    BY <2>12, <2>15, <2>16, ProperSame DEF Proper
  <2>18. PICK e5 : e5 = WriteHandshake(d4, m5)
    OBVIOUS
  <2>19. Grows(d4, e5, {}) /\ Proper(e5)
    BY <1>7, <2>17, <2>18, GrowsReads DEF Grows
  <2>20. g = Flush(e5)
    BY <1>1, <1>2, <1>6, <1>8, <1>10, <1>13, <1>18, <2>1, <2>6, <2>8, <2>11, <2>13, <2>14, <2>18
       DEF SendServerFlight
  <2>21. Proper(g) /\ Same(e5, g, {"wire", "buf", "buffering"}) /\ g.buf = <<>>
    BY <2>19, <2>20, FlushEnd
  <2>22. g.pc = p /\ g.sum = e5.sum
    BY <2>15, <2>19, <2>21 DEF Same, Fields, Grows
  <2>23. Grows(e1, g, {"ka", "pc", "buffering"})
    <3>1. Same(e1, g, {"wire", "buf", "sum", "ka", "pc", "buffering"})
      BY <1>14, <2>9, <2>12, <2>15, <2>19, <2>21 DEF Grows, Same
    <3>2. Longer(e1.sum, g.sum)
      <4>1. Grows(e1, e3, {} \cup {"ka"})
        BY <1>14, <2>9, GrowsOn
      <4>2. Grows(e1, e4, ({} \cup {"ka"}) \cup {})
        BY <2>12, <4>1, GrowsOn
      <4>3. Grows(e4, d4, {"pc"})
        BY <2>12, <2>15, <2>16, <2>17, SeqAppend DEF Grows, Same, Longer, Proper
      <4>4. Grows(e4, e5, {"pc"} \cup {})
        BY <2>19, <4>3, GrowsOn
      <4>5. Grows(e1, e5, (({} \cup {"ka"}) \cup {}) \cup ({"pc"} \cup {}))
        BY <4>2, <4>4, GrowsOn
      <4>. QED
        BY <2>22, <4>5 DEF Grows
    <3>. QED
      BY <2>21, <3>1, <3>2 DEF Grows, Same
  <2>24. /\ ServerHash(g, c) /\ g.sum # <<>> /\ ServerFinished(g) /\ g.finished = Nil /\ ~g.resumed /\ NoKeys(g)
         /\ g.status = 0 /\ g.err = None /\ g.peer = <<>>
    BY <1>16, <2>23
  <2>25. ~Ended(g) /\ Left(g)
    BY <2>13, <2>21, <2>22, <2>24 DEF Ended, Left, Stopped, None
  <2>26. (p = "certificate" => c.auth # 0) /\ (p # "certificate" => c.auth = 0)
    BY <2>10, <2>13
  <2>27. p = "clientKeyExchange" => Policy(c, g.peer)
    BY <2>24, <2>26 DEF Policy, RequireAnyClientCert, RequireAndVerifyClientCert, VerifyClientCertIfGiven
  <2>28. ServerPlace(g, c)
    BY <2>13, <2>22, <2>24, <2>25, <2>26, <2>27 DEF ServerPlace, Stopped
  <2>. QED
    BY <2>21, <2>24, <2>25, <2>28 DEF ServerInv
<1>. QED
  BY <1>17, <1>18

\* doResumeHandshake and what serverHandshake does after it
LEMMA ResumeServerEnd ==
    ASSUME Inv, NEW c, c = conf.server, NEW e, Greeted(e, c), NEW sh,
           {"type", "suite", "sid", "tickets"} \subseteq DOMAIN sh, sh.type = "serverHello", sh.vers = e.vers,
           e.proto = sh.alpn, NEW usable, CheckForResumption(e.hello, c, e.vers, usable),
           NEW g, g = ResumeServer(e, c, sh)
    PROVE  ServerInv(g, c) /\ ~Ended(g)
<1>1. PICK t : t = DecryptTicket(c, e.hello.ticket)
  OBVIOUS
<1>2. /\ t # Nil /\ t.state.vers = e.vers
      /\ c.auth \in {RequireAnyClientCert, RequireAndVerifyClientCert} => t.state.certs # <<>>
      /\ t.state.certs # <<>> => c.auth # 0
  BY <1>1 DEF CheckForResumption
<1>3. ~c.noTickets /\ e.hello.ticket # Nil
  BY <1>1, <1>2 DEF DecryptTicket
<1>4. PICK s, u, q : s = t.state /\ u = t.usedOldKey /\ q = <<e.hello>>
  OBVIOUS
<1>5. PICK sh1 : sh1 = [sh EXCEPT !.suite = s.suite, !.sid = e.hello.sid, !.tickets = u]
  OBVIOUS
<1>6. /\ DOMAIN sh1 = DOMAIN sh /\ sh1.type = "serverHello" /\ sh1.suite = s.suite /\ sh1.sid = e.hello.sid
      /\ sh1.tickets = u /\ sh1.vers = e.vers /\ sh1.alpn = e.proto
  BY <1>5
<1>7. PICK d : d = [e EXCEPT !.sh = sh1, !.suite = s.suite, !.sum = q, !.keep = FALSE, !.buffering = TRUE,
                             !.resumed = TRUE]
  OBVIOUS
<1>8. /\ DOMAIN d = Fields /\ d.sh = sh1 /\ d.suite = s.suite /\ d.sum = q /\ d.resumed = TRUE
      /\ Same(e, d, {"sh", "suite", "sum", "keep", "buffering", "resumed"}) /\ Proper(e)
  BY <1>7 DEF Greeted, Proper, Same, Fields
<1>9. d.wire = e.wire /\ d.buf = e.buf /\ d.finished = e.finished /\ d.hello = e.hello /\ d.vers = e.vers /\ d.proto = e.proto
  BY <1>8 DEF Same, Fields
<1>10. Proper(d) /\ Len(q) = 1 /\ q[1] = e.hello
  <2>1. IsSeq(q) /\ Len(q) = 1 /\ q[1] = e.hello
    BY <1>4, SeqShort
  <2>. QED
    BY <1>8, <1>9, <2>1, ProperSame
<1>11. PICK e1 : e1 = WriteHandshake(d, sh1)
  OBVIOUS
<1>12. Grows(d, e1, {}) /\ Proper(e1) /\ Len(e1.sum) = 2 /\ e1.sum[1] = e.hello /\ e1.sum[2] = sh1
  <2>1. Grows(d, e1, {}) /\ Len(e1.sum) = Len(d.sum) + 1 /\ Latest(e1.sum) = sh1
    BY <1>6, <1>10, <1>11, GrowsReads
  <2>2. Proper(e1) /\ Longer(q, e1.sum) /\ Len(e1.sum) = 2
    <3>1. Len(e1.sum) = Len(q) + 1
      BY <1>8, <2>1
    <3>2. Len(e1.sum) = 2
      BY <1>10, <3>1
    <3>. QED
      BY <1>8, <2>1, <3>2 DEF Grows
  <2>3. e1.sum[1] = q[1]
    BY <1>10, <2>2 DEF Longer
  <2>. QED
    BY <1>10, <2>1, <2>2, <2>3 DEF Latest
\* What every end from e1 on knows
<1>13. ASSUME NEW f, Proper(f), Longer(e1.sum, f.sum),
              Same(e1, f, {"wire", "buf", "buffering", "sum", "chain", "peer", "master", "verified", "pc", "nextIn",
                           "nextOut", "out", "finished"})
       PROVE  /\ ServerHash(f, c) /\ f.sum # <<>> /\ Len(f.sum) >= 2 /\ f.sum[1] = f.hello /\ f.sum[2] = f.sh
              /\ f.resumed /\ f.status = 0 /\ f.err = None
  <2>1. /\ f.vers = e1.vers /\ f.suite = e1.suite /\ f.hello = e1.hello /\ f.sh = e1.sh
        /\ f.status = e1.status /\ f.err = e1.err /\ f.resumed = e1.resumed /\ f.proto = e1.proto
    BY <1>13 DEF Same, Fields
  <2>2. /\ e1.vers = d.vers /\ e1.suite = d.suite /\ e1.hello = d.hello /\ e1.sh = d.sh
        /\ e1.status = d.status /\ e1.err = d.err /\ e1.resumed = d.resumed /\ e1.proto = d.proto
    BY <1>12 DEF Same, Fields, Grows
  <2>3. d.status = 0 /\ d.err = None /\ d.vers = MutualVersion(c, e.hello.vers)
    BY <1>8 DEF Same, Fields, Greeted
  <2>4. Len(f.sum) \in Nat /\ Len(f.sum) >= 2 /\ f.sum[1] = e.hello /\ f.sum[2] = sh1
    BY <1>12, <1>13 DEF Longer
  <2>5. f.sum # <<>>
    BY <2>4
  <2>6. f.resumed /\ f.status = 0 /\ f.err = None /\ f.sh = sh1 /\ f.hello = e.hello
    BY <1>8, <1>9, <2>1, <2>2, <2>3
  <2>7. ServerHash(f, c)
    BY <1>3, <1>6, <1>8, <1>9, <2>1, <2>2, <2>3, <2>4, <2>5, <2>6 DEF ServerHash
  <2>. QED
    BY <2>4, <2>5, <2>6, <2>7
<1>14. PICK e2 : e2 = [e1 EXCEPT !.chain = s.certs, !.peer = s.certs, !.master = s.master,
                                 !.verified = c.auth >= VerifyClientCertIfGiven /\ s.certs # <<>>, !.pc = "ccs"]
  OBVIOUS
<1>15. /\ DOMAIN e2 = Fields /\ e2.peer = s.certs /\ e2.pc = "ccs"
       /\ Same(e1, e2, {"chain", "peer", "master", "verified", "pc"})
  <2>1. PICK v : v = (c.auth >= VerifyClientCertIfGiven /\ s.certs # <<>>)
    OBVIOUS
  <2>2. e2 = [e1 EXCEPT !.chain = s.certs, !.peer = s.certs, !.master = s.master, !.verified = v, !.pc = "ccs"]
    BY <1>14, <2>1
  <2>. QED
    BY <1>12, <2>2 DEF Proper, Same, Fields
<1>16. e2.wire = e1.wire /\ e2.buf = e1.buf /\ e2.sum = e1.sum /\ e2.finished = e1.finished
  BY <1>15 DEF Same, Fields
<1>17. Proper(e2)
  BY <1>12, <1>15, <1>16, ProperSame DEF Proper
<1>18. PICK k : k = EstablishKeys(e2, "c2s", "s2c")
  OBVIOUS
<1>19. /\ Proper(k) /\ Same(e2, k, {"nextIn", "nextOut"})
       /\ k.nextIn = Keys(e2, "c2s") /\ k.nextOut = Keys(e2, "s2c")
  BY <1>17, <1>18, EstablishKeysEnd
<1>20. /\ k.sum = e1.sum /\ k.finished = Nil /\ k.vers = e2.vers /\ k.suite = e2.suite /\ k.master = e2.master
       /\ k.hello = e2.hello /\ k.sh = e2.sh /\ k.peer = s.certs /\ k.pc = "ccs"
  <2>1. e1.finished = d.finished /\ e.finished = Nil
    BY <1>12 DEF Grows, Same, Fields, Greeted
  <2>. QED
    BY <1>9, <1>15, <1>16, <1>19, <2>1 DEF Same, Fields
<1>21. PICK w : w = SendSessionTicket(k)
  OBVIOUS
<1>22. /\ Proper(w) /\ Same(k, w, {"wire", "buf", "sum"}) /\ (~k.sh.tickets => w = k)
       /\ k.sh.tickets => \E x : w.sum = Append(k.sum, x) /\ TicketOf(k, x.ticket)
  BY <1>3, <1>19, <1>21, SendSessionTicketEnd DEF Inv
<1>23. w.finished = Nil
  BY <1>20, <1>22 DEF Same, Fields
<1>24. PICK e3 : e3 = SendServerFinished(w)
  OBVIOUS
<1>25. /\ Proper(e3) /\ e3.finished # Nil /\ e3.buf = <<>> /\ e3.out = w.nextOut
       /\ Same(w, e3, {"wire", "buf", "buffering", "sum", "finished", "out", "nextOut"})
       /\ e3.finished = [who |-> "server", master |-> w.master, sum |-> w.sum]
       /\ e3.sum = Append(w.sum, FinishedMessage(e3.finished))
  BY <1>22, <1>23, <1>24, SendServerFinishedEnd
<1>26. Longer(e1.sum, w.sum) /\ (k.sh.tickets => TicketOf(k, Latest(w.sum).ticket))
  <2>1. CASE ~k.sh.tickets
    <3>1. w.sum = e1.sum /\ Len(e1.sum) \in Nat
      BY <1>12, <1>20, <1>22, <2>1
    <3>. QED
      BY <2>1, <3>1 DEF Longer
  <2>2. CASE k.sh.tickets
    <3>1. PICK x : w.sum = Append(k.sum, x) /\ TicketOf(k, x.ticket)
      BY <1>22, <2>2
    <3>2. Longer(k.sum, w.sum) /\ Latest(w.sum) = x
      BY <1>19, <3>1, AppendLonger
    <3>. QED
      BY <1>20, <3>1, <3>2
  <2>. QED
    BY <2>1, <2>2
<1>27. Longer(w.sum, e3.sum)
  BY <1>22, <1>25, AppendLonger
<1>28. Longer(e1.sum, e3.sum)
  <2>1. Grows(w, w, {})
    BY <1>22, GrowsNot
  <2>2. \A i \in 1..Len(e1.sum) : i \in 1..Len(w.sum)
    BY <1>26 DEF Longer
  <2>. QED
    BY <1>26, <1>27, <2>2 DEF Longer
<1>29. CASE Stops(e1, g)
  <2>1. Same(e1, e1, {"wire", "buf", "buffering", "sum", "chain", "peer", "master", "verified", "pc", "nextIn",
                      "nextOut", "out", "finished"}) /\ Longer(e1.sum, e1.sum)
    BY <1>12 DEF Same, Longer
  <2>2. ServerHash(e1, c) /\ e1.status = 0
    BY <1>12, <1>13, <2>1
  <2>3. ServerFinished(e1)
    <3>1. e1.finished = d.finished /\ e.finished = Nil
      BY <1>12 DEF Grows, Same, Fields, Greeted
    <3>. QED
      BY <1>9, <3>1 DEF ServerFinished
  <2>. QED
    BY <1>29, <2>2, <2>3, ServerStops
<1>30. CASE /\ g = e3
            /\ s.certs # <<>> /\ c.auth >= VerifyClientCertIfGiven =>
                  Verifies(s.certs[1], {s.certs[i] : i \in 2..Len(s.certs)}, c.clientCAs, None)
  <2>1. Same(e1, g, {"wire", "buf", "buffering", "sum", "chain", "peer", "master", "verified", "pc", "nextIn",
                     "nextOut", "out", "finished"})
    BY <1>15, <1>19, <1>22, <1>25, <1>30 DEF Same
  <2>2. /\ ServerHash(g, c) /\ g.sum # <<>> /\ g.resumed /\ g.status = 0 /\ g.err = None
    BY <1>13, <1>25, <1>28, <1>30, <2>1
  <2>3. /\ g.vers = k.vers /\ g.suite = k.suite /\ g.master = k.master /\ g.hello = k.hello /\ g.sh = k.sh
        /\ g.peer = k.peer /\ g.pc = k.pc /\ g.nextIn = k.nextIn
    BY <1>22, <1>25, <1>30 DEF Same, Fields
  <2>4. Keys(g, "s2c") = Keys(e2, "s2c") /\ Keys(g, "c2s") = Keys(e2, "c2s")
    BY <1>20, <2>3 DEF Keys
  <2>5. ServerFinished(g)
    <3>1. w.nextOut = k.nextOut /\ w.master = g.master /\ w.hello = g.hello /\ w.sh = g.sh
      BY <1>22, <2>3 DEF Same, Fields
    <3>2. g.finished = [who |-> "server", master |-> g.master, sum |-> g.finished.sum] /\ g.finished.sum = w.sum
      BY <1>25, <1>30, <3>1
    <3>3. Same(e1, w, {"wire", "buf", "buffering", "sum", "chain", "peer", "master", "verified", "pc", "nextIn",
                       "nextOut", "out", "finished"})
      BY <1>15, <1>19, <1>22 DEF Same
    <3>4. Len(w.sum) >= 2 /\ w.sum[1] = g.hello /\ w.sum[2] = g.sh
      BY <1>13, <1>22, <1>26, <3>1, <3>3
    <3>5. g.sh.tickets => TicketOf(g, Latest(w.sum).ticket)
      BY <1>26, <2>3 DEF TicketOf
    <3>6. g.out = Keys(g, "s2c")
      BY <1>19, <1>25, <1>30, <2>4, <3>1
    <3>7. IsSeq(w.sum)
      BY <1>22 DEF Proper
    <3>. QED
      BY <2>2, <3>2, <3>4, <3>5, <3>6, <3>7 DEF ServerFinished
  <2>6. Policy(c, g.peer)
    <3>1. g.peer = s.certs /\ s.certs = t.state.certs
      BY <1>4, <1>20, <2>3
    <3>. QED
      BY <1>2, <1>30, <3>1 DEF Policy
  <2>7. Left(g) /\ ~Ended(g)
    BY <1>20, <1>25, <1>30, <2>2, <2>3 DEF Left, Ended, Stopped, None
  <2>8. g.finished # Nil /\ g.pc = "ccs" /\ g.nextIn = Keys(g, "c2s")
    BY <1>19, <1>20, <1>25, <1>30, <2>3, <2>4
  <2>9. ServerPlace(g, c)
    BY <2>2, <2>6, <2>7, <2>8 DEF ServerPlace, Stopped
  <2>. QED
    BY <1>25, <1>30, <2>2, <2>5, <2>7, <2>9 DEF ServerInv
<1>31. \/ Stops(e1, g)
       \/ /\ g = e3
          /\ s.certs # <<>> /\ c.auth >= VerifyClientCertIfGiven =>
                Verifies(s.certs[1], {s.certs[i] : i \in 2..Len(s.certs)}, c.clientCAs, None)
  <2>1. g = IF s.certs = <<>> THEN e3 ELSE ProcessCertsFromClient(e1, c, s.certs, e3)
    <3>1. sh1 = [sh EXCEPT !.suite = t.state.suite, !.sid = e.hello.sid, !.tickets = t.usedOldKey]
      BY <1>4, <1>5
    <3>2. d = [e EXCEPT !.sh = sh1, !.suite = t.state.suite, !.sum = <<e.hello>>, !.keep = FALSE,
                        !.buffering = TRUE, !.resumed = TRUE]
      BY <1>4, <1>7
    <3>3. e2 = [e1 EXCEPT !.chain = t.state.certs, !.peer = t.state.certs, !.master = t.state.master,
                          !.verified = c.auth >= VerifyClientCertIfGiven /\ t.state.certs # <<>>, !.pc = "ccs"]
      BY <1>4, <1>14
    <3>4. e3 = SendServerFinished(SendSessionTicket(EstablishKeys(e2, "c2s", "s2c")))
      BY <1>18, <1>21, <1>24
    <3>5. g = IF t.state.certs = <<>> THEN e3 ELSE ProcessCertsFromClient(e1, c, t.state.certs, e3)
      BY <1>1, <1>11, <3>1, <3>2, <3>3, <3>4, ZenonT(90) DEF ResumeServer
    <3>. QED
      BY <1>4, <3>5
  <2>2. CASE s.certs = <<>>
    BY <2>1, <2>2
  <2>3. CASE s.certs # <<>>
    <3>1. PICK checks : checks =
            << <<\E i \in DOMAIN s.certs : s.certs[i].kind = "garbage", "badCertificate">>,
               <<s.certs # <<>> /\ c.auth >= VerifyClientCertIfGiven
                   /\ ~Verifies(s.certs[1], {s.certs[i] : i \in 2..Len(s.certs)}, c.clientCAs, None),
                 "badCertificate">>,
               <<c.veto, "badCertificate">>,
               <<s.certs # <<>> /\ s.certs[1].kind \notin {"rsa", "ecdsa", "sm2"}, "unsupportedCertificate">> >>
      OBVIOUS
    <3>2. g = Checked(e1, checks, e3)
      BY <2>1, <2>3, <3>1 DEF ProcessCertsFromClient
    <3>3. DOMAIN checks \subseteq 1..5 /\ 2 \in DOMAIN checks
          /\ \A i \in DOMAIN checks : checks[i][2] \notin {None, "noResult"}
      <4>1. PICK x1, x2, x3, x4 : checks = << <<x1, "badCertificate">>, <<x2, "badCertificate">>,
                                              <<x3, "badCertificate">>, <<x4, "unsupportedCertificate">> >>
        BY <3>1, Zenon
      <4>. QED
        BY <4>1 DEF None
    <3>4. Stops(e1, g) \/ (g = e3 /\ ~checks[2][1])
      BY <1>12, <3>2, <3>3, CheckedEnd
    <3>5. checks[2][1] <=> (s.certs # <<>> /\ c.auth >= VerifyClientCertIfGiven
                              /\ ~Verifies(s.certs[1], {s.certs[i] : i \in 2..Len(s.certs)}, c.clientCAs, None))
      BY <3>1
    <3>. QED
      BY <3>4, <3>5
  <2>. QED
    BY <2>2, <2>3
<1>. QED
  BY <1>29, <1>30, <1>31

-----------------------------------------------------------------------------
\* The server once it has read the ClientHello, the ServerHello of a full
\* handshake, and the server with it
HelloEnd(m, vers, sh) == [Server EXCEPT !.hello = m, !.vers = vers, !.proto = sh.alpn]

FullHello(e, c, sh, suite, status) ==
    [sh EXCEPT !.suite = suite, !.ocsp = status, !.tickets = e.hello.tickets /\ ~c.noTickets]

FullEnd(e, sh, suite) == [e EXCEPT !.sh = sh, !.suite = suite]

\* readClientHello: what the server has read, and the ServerHello it prepares
LEMMA HelloRead ==
    ASSUME Inv, NEW c, c = conf.server, Gets("server", {"clientHello"}, "clientHello"),
           NEW m, m = Next1("server").m, NEW vers, vers = MutualVersion(c, m.vers),
           NEW sh, sh = PrepareServerHello(m, c, vers),
           NEW e, e = HelloEnd(m, vers, sh)
    PROVE  /\ Greeted(e, c) /\ e.hello = m /\ e.vers = vers /\ e.proto = sh.alpn
           /\ {"type", "vers", "alpn", "suite", "sid", "tickets", "ocsp"} \subseteq DOMAIN sh /\ sh.type = "serverHello"
           /\ sh.vers = vers /\ sh.sid = 0
           /\ HasRecord("server") /\ Proper(Server) /\ Server.finished = Nil
<1>1. PICK b, p : b = Server /\ p = sh.alpn
  OBVIOUS
<1>2. HasRecord("server") /\ b.pc = "clientHello" /\ b.status = 0 /\ b.err = None /\ Proper(b)
  BY <1>1, NextMessage DEF Server, Sides
<1>3. ServerPlace(b, c) /\ Left(b)
  BY <1>1 DEF Inv, ServerInv
<1>4. b.sum = <<>> /\ b.peer = <<>> /\ ~b.resumed /\ b.finished = Nil /\ NoKeys(b) /\ b.buf = <<>>
  BY <1>2, <1>3 DEF ServerPlace, Left
<1>5. e = [b EXCEPT !.hello = m, !.vers = vers, !.proto = p]
  BY <1>1 DEF HelloEnd
<1>6. /\ DOMAIN e = Fields /\ e.hello = m /\ e.vers = vers /\ e.proto = p
      /\ Same(b, e, {"hello", "vers", "proto"})
  BY <1>2, <1>5 DEF Proper, Same, Fields
<1>7. /\ e.sum = b.sum /\ e.peer = b.peer /\ e.resumed = b.resumed /\ e.finished = b.finished
      /\ e.status = b.status /\ e.err = b.err /\ e.buf = b.buf /\ e.wire = b.wire
      /\ e.in = b.in /\ e.out = b.out /\ e.nextIn = b.nextIn /\ e.nextOut = b.nextOut
  BY <1>6 DEF Same, Fields
<1>8. Proper(e)
  <2>1. IsSeq(e.sum)
    BY <1>2, <1>7 DEF Proper
  <2>2. DOMAIN e = Fields /\ e.wire = b.wire /\ e.buf = b.buf /\ e.finished = b.finished
    BY <1>6, <1>7
  <2>. QED
    BY <1>2, <2>1, <2>2, ProperSame
<1>9. Greeted(e, c)
  BY <1>2, <1>4, <1>6, <1>7, <1>8 DEF Greeted, NoKeys
<1>10. /\ {"type", "vers", "alpn", "suite", "sid", "tickets", "ocsp"} \subseteq DOMAIN sh /\ sh.type = "serverHello"
       /\ sh.vers = vers /\ sh.sid = 0
  BY DEF PrepareServerHello
<1>. QED
  BY <1>1, <1>2, <1>4, <1>6, <1>9, <1>10

\* doFullHandshake, the ServerHello of a full handshake
LEMMA FullServer ==
    ASSUME NEW c, NEW e, Greeted(e, c), NEW sh, {"type", "vers", "alpn", "suite", "sid", "tickets", "ocsp"} \subseteq DOMAIN sh,
           sh.type = "serverHello", sh.vers = e.vers, sh.sid = 0, e.proto = sh.alpn, NEW suite, NEW status,
           NEW sh1, sh1 = FullHello(e, c, sh, suite, status), NEW f, f = FullEnd(e, sh1, suite)
    PROVE  /\ Greeted(f, c) /\ Proper(f) /\ f.sh = sh1 /\ "type" \in DOMAIN f.sh /\ f.sh.type # "finished"
           /\ f.sh.vers = f.vers /\ f.sh.suite = f.suite /\ f.sh.sid = 0
           /\ f.sh.tickets => ~c.noTickets
           /\ f.proto = f.sh.alpn
<1>1. PICK t : t = (e.hello.tickets /\ ~c.noTickets)
  OBVIOUS
<1>2. sh1 = [sh EXCEPT !.suite = suite, !.ocsp = status, !.tickets = t]
  BY <1>1 DEF FullHello
<1>3. /\ "type" \in DOMAIN sh1 /\ sh1.type = "serverHello" /\ sh1.suite = suite /\ sh1.tickets = t
      /\ sh1.vers = sh.vers /\ sh1.sid = 0 /\ sh1.alpn = sh.alpn
  BY <1>2
<1>4. t => ~c.noTickets
  BY <1>1
<1>5. DOMAIN f = Fields /\ f.sh = sh1 /\ f.suite = suite /\ Same(e, f, {"sh", "suite"}) /\ Proper(e)
  BY DEF FullEnd, Greeted, Proper, Same, Fields
<1>6. /\ f.hello = e.hello /\ f.vers = e.vers /\ f.proto = e.proto
      /\ f.sum = e.sum /\ f.peer = e.peer /\ f.resumed = e.resumed /\ f.finished = e.finished
      /\ f.status = e.status /\ f.err = e.err /\ f.buf = e.buf /\ f.wire = e.wire
      /\ f.in = e.in /\ f.out = e.out /\ f.nextIn = e.nextIn /\ f.nextOut = e.nextOut
  BY <1>5 DEF Same, Fields
<1>7. Proper(f)
  BY <1>5, <1>6, ProperSame DEF Proper
<1>8. Greeted(f, c)
  BY <1>6, <1>7 DEF Greeted, NoKeys
<1>9. f.sh.tickets => ~c.noTickets
  BY <1>3, <1>4, <1>5
<1>. QED
  BY <1>3, <1>5, <1>6, <1>7, <1>8, <1>9

\* readClientHello and what follows it up to the next read: an end that has read
\* the hello stops, resumes, or goes on with a full handshake.
LEMMA HelloAnswered ==
    ASSUME Inv, NEW c, c = conf.server, Gets("server", {"clientHello"}, "clientHello"), cache' = cache,
           Server.finished = Nil, NEW g, Consume("server", g), Stops(Server, g) \/ (ServerInv(g, c) /\ ~Ended(g))
    PROVE  Inv'
<1>1. HasRecord("server")
  BY DEF Gets, Sound
<1>. QED
  BY <1>1, ServerReadsStops, ServerReads DEF ServerReturned

\* The ClientHello of TLS
LEMMA TlsReadClientHelloKeeps ==
    ASSUME Inv, TlsReadClientHello
    PROVE  Inv'
<1>1. Gets("server", {"clientHello"}, "clientHello") /\ cache' = cache
  BY DEF TlsReadClientHello
<1>2. PICK m, c : m = Next1("server").m /\ c = conf.server
  OBVIOUS
<1>3. PICK vers : vers = MutualVersion(c, m.vers)
  OBVIOUS
<1>4. PICK usable : usable = {id \in Ids(CipherSuites) : SetCipherSuite(id, vers, m, c)}
  OBVIOUS
<1>5. PICK suite : suite = ChooseSuite(m, c, ConfigCipherSuites(c), usable)
  OBVIOUS
<1>6. PICK sh : sh = PrepareServerHello(m, c, vers)
  OBVIOUS
<1>7. PICK e : e = HelloEnd(m, vers, sh)
  OBVIOUS
<1>8. /\ Greeted(e, c) /\ e.hello = m /\ e.vers = vers /\ e.proto = sh.alpn
      /\ {"type", "vers", "alpn", "suite", "sid", "tickets", "ocsp"} \subseteq DOMAIN sh /\ sh.type = "serverHello"
      /\ sh.vers = vers /\ sh.sid = 0
      /\ HasRecord("server") /\ Proper(Server) /\ Server.finished = Nil
  BY <1>1, <1>2, <1>3, <1>6, <1>7, HelloRead
<1>9. Proper(e)
  BY <1>8 DEF Greeted
<1>10. PICK full : full = TlsFullServer(e, c, sh, suite)
  OBVIOUS
<1>11. PICK checks2 : checks2 = << <<suite = None, "handshakeFailure">>, <<FallsBack(m, c), "inappropriateFallback">> >>
  OBVIOUS
<1>12. PICK h2 : h2 = Checked(e, checks2, full)
  OBVIOUS
<1>13. PICK h : h = IF c.certs[1][1].kind \notin {"rsa", "ecdsa"} THEN Fail(e, "internalError")
                    ELSE IF CheckForResumption(m, c, vers, usable)
                    THEN IF PrfIsNil(vers) THEN Panic(e, "nilPrf") ELSE ResumeServer(e, c, sh)
                    ELSE h2
  OBVIOUS
<1>14. PICK checks : checks = << <<c.getConfigFails, "internalError">>, <<vers = 0, "protocolVersion">>,
                                 <<c.certs = <<>>, "internalError">> >>
  OBVIOUS
<1>15. PICK g : g = Checked(Server, checks, h)
  OBVIOUS
<1>16. Consume("server", g)
  BY <1>2, <1>3, <1>4, <1>5, <1>6, <1>7, <1>10, <1>11, <1>12, <1>13, <1>14, <1>15, ZenonT(90) DEF TlsReadClientHello, HelloEnd
<1>17. Stops(Server, g) \/ g = h
  <2>1. DOMAIN checks \subseteq 1..5 /\ \A i \in DOMAIN checks : checks[i][2] \notin {None, "noResult"}
    BY <1>14 DEF None
  <2>. QED
    BY <1>8, <1>15, <2>1, CheckedEnd
<1>18. ServerInv(full, c) /\ ~Ended(full)
  <2>1. PICK status : status = (e.hello.ocsp /\ c.ocsp)
    OBVIOUS
  <2>2. PICK sh1 : sh1 = FullHello(e, c, sh, suite, status)
    OBVIOUS
  <2>3. PICK f : f = FullEnd(e, sh1, suite)
    OBVIOUS
  <2>4. /\ Greeted(f, c) /\ Proper(f) /\ f.sh = sh1 /\ "type" \in DOMAIN f.sh /\ f.sh.type # "finished"
        /\ f.sh.vers = f.vers /\ f.sh.suite = f.suite /\ f.sh.sid = 0
        /\ f.sh.tickets => ~c.noTickets
        /\ f.proto = f.sh.alpn
    BY <1>8, <2>2, <2>3, FullServer
  <2>5. PICK skx, ecdhe, algs : /\ skx = EcdheServerKeyExchange(f, c)
                                /\ ecdhe = (SuiteOf(CipherSuites, suite).ka = "ecdhe")
                                /\ algs = IF e.vers >= VersionTLS12 THEN SupportedSignatureAlgorithms ELSE <<>>
    OBVIOUS
  <2>6. full = SendServerFlight(f, c, c.certs[1], ecdhe, skx, status, algs)
    BY <1>10, <2>1, <2>2, <2>3, <2>5, Zenon DEF TlsFullServer, FullHello, FullEnd
  <2>7. "type" \in DOMAIN skx /\ skx.type # "finished"
    BY <2>5 DEF EcdheServerKeyExchange, Nil
  <2>8. c.auth \in 0..4
    BY <1>2, ConfigsAssumption DEF Inv, EnvInv
  <2>. QED
    BY <2>4, <2>6, <2>7, <2>8, SendServerFlightEnd
<1>19. Stops(e, h2) \/ h2 = full
  <2>1. DOMAIN checks2 \subseteq 1..5 /\ \A i \in DOMAIN checks2 : checks2[i][2] \notin {None, "noResult"}
    BY <1>11 DEF None
  <2>. QED
    BY <1>9, <1>12, <2>1, CheckedEnd
<1>20. ServerInv(h, c) /\ ~Ended(h)
  <2>1. CASE h = Fail(e, "internalError")
    BY <1>8, <1>9, <2>1, FailStops, GreetedStops DEF None
  <2>2. CASE h = Panic(e, "nilPrf")
    BY <1>8, <1>9, <2>2, PanicStops, GreetedStops DEF None
  <2>3. CASE CheckForResumption(m, c, vers, usable) /\ h = ResumeServer(e, c, sh)
    BY <1>2, <1>8, <2>3, ResumeServerEnd
  <2>4. CASE h = h2
    BY <1>8, <1>18, <1>19, <2>4, GreetedStops
  <2>. QED
    BY <1>13, <2>1, <2>2, <2>3, <2>4
<1>. QED
  BY <1>1, <1>2, <1>8, <1>16, <1>17, <1>20, HelloAnswered

\* The ClientHello of GM
LEMMA GmReadClientHelloKeeps ==
    ASSUME Inv, GmReadClientHello
    PROVE  Inv'
<1>1. Gets("server", {"clientHello"}, "clientHello") /\ cache' = cache
  BY DEF GmReadClientHello
<1>2. PICK m, c : m = Next1("server").m /\ c = conf.server
  OBVIOUS
<1>3. PICK vers : vers = MutualVersion(c, m.vers)
  OBVIOUS
<1>4. PICK suite : suite = ChooseSuite(m, c, GetCipherSuites(c),
                                       {id \in Ids(GmCipherSuites) : GmSetCipherSuite(id, vers)})
  OBVIOUS
<1>5. PICK sh : sh = PrepareServerHello(m, c, vers)
  OBVIOUS
<1>6. PICK e : e = HelloEnd(m, vers, sh)
  OBVIOUS
<1>7. /\ Greeted(e, c) /\ e.hello = m /\ e.vers = vers /\ e.proto = sh.alpn
      /\ {"type", "vers", "alpn", "suite", "sid", "tickets", "ocsp"} \subseteq DOMAIN sh /\ sh.type = "serverHello"
      /\ sh.vers = vers /\ sh.sid = 0
      /\ HasRecord("server") /\ Proper(Server) /\ Server.finished = Nil
  BY <1>1, <1>2, <1>3, <1>5, <1>6, HelloRead
<1>8. Proper(e)
  BY <1>7 DEF Greeted
<1>9. PICK full : full = GmFullServer(e, c, sh, suite)
  OBVIOUS
<1>10. PICK checks2 : checks2 = << <<suite = None, "handshakeFailure">>, <<FallsBack(m, c), "inappropriateFallback">> >>
  OBVIOUS
<1>11. PICK h2 : h2 = Checked(e, checks2, full)
  OBVIOUS
<1>12. PICK h : h = IF GmCheckForResumption(m, c, vers) THEN Panic(e, "nilMD5") ELSE h2
  OBVIOUS
<1>13. PICK checks : checks = << <<c.getConfigFails, "internalError">>, <<vers = 0, "protocolVersion">>,
                                 <<Len(c.certs) < 2, "internalError">> >>
  OBVIOUS
<1>14. PICK g : g = Checked(Server, checks, h)
  OBVIOUS
<1>15. Consume("server", g)
  BY <1>2, <1>3, <1>4, <1>5, <1>6, <1>9, <1>10, <1>11, <1>12, <1>13, <1>14, ZenonT(90)
     DEF GmReadClientHello, GmResumeServer, HelloEnd
<1>16. Stops(Server, g) \/ (g = h /\ ~(Len(c.certs) < 2))
  <2>1. DOMAIN checks \subseteq 1..5 /\ 3 \in DOMAIN checks
        /\ \A i \in DOMAIN checks : checks[i][2] \notin {None, "noResult"}
    BY <1>13 DEF None
  <2>2. checks[3][1] = (Len(c.certs) < 2)
    BY <1>13
  <2>. QED
    BY <1>7, <1>14, <2>1, <2>2, CheckedEnd
<1>17. ASSUME ~(Len(c.certs) < 2)
       PROVE  ServerInv(full, c) /\ ~Ended(full)
  <2>1. PICK status : status = (e.hello.ocsp /\ c.ocsp)
    OBVIOUS
  <2>2. PICK sh1 : sh1 = FullHello(e, c, sh, suite, status)
    OBVIOUS
  <2>3. PICK f : f = FullEnd(e, sh1, suite)
    OBVIOUS
  <2>4. /\ Greeted(f, c) /\ Proper(f) /\ f.sh = sh1 /\ "type" \in DOMAIN f.sh /\ f.sh.type # "finished"
        /\ f.sh.vers = f.vers /\ f.sh.suite = f.suite /\ f.sh.sid = 0
        /\ f.sh.tickets => ~c.noTickets
        /\ f.proto = f.sh.alpn
    BY <1>7, <2>2, <2>3, FullServer
  <2>5. PICK skx, certs : skx = EccServerKeyExchange(f, c) /\ certs = c.certs[1] \o c.certs[2]
    OBVIOUS
  <2>6. full = IF SuiteOf(GmCipherSuites, suite).ka = "ecdheGM" THEN Panic(f, "ecdheGM")
               ELSE SendServerFlight(f, c, certs, TRUE, skx, status, <<>>)
    BY <1>9, <2>1, <2>2, <2>3, <2>5, Zenon DEF GmFullServer, FullHello, FullEnd
  <2>7. "type" \in DOMAIN skx /\ skx.type # "finished"
    BY <2>5 DEF EccServerKeyExchange
  <2>8. c.auth \in 0..4
    BY <1>2, ConfigsAssumption DEF Inv, EnvInv
  <2>9. certs[1] = c.certs[1][1]
    <3>1. PICK cs, p, q : cs = c.certs /\ p = cs[1] /\ q = cs[2]
      OBVIOUS
    <3>2. /\ IsSeq(cs) /\ \A i \in DOMAIN cs : cs[i] # <<>> /\ IsSeq(cs[i])
      <4>1. conf \in Configs
        BY DEF Inv, EnvInv
      <4>2. /\ conf.server.certs \in Seq(Elements(conf.server.certs))
            /\ \A i \in DOMAIN conf.server.certs :
                  /\ conf.server.certs[i] # <<>>
                  /\ conf.server.certs[i] \in Seq(Elements(conf.server.certs[i]))
        BY <4>1, ConfigsAssumption, Zenon DEF Elements
      <4>. QED
        BY <1>2, <3>1, <4>2 DEF IsSeq
    <3>3. Len(cs) \in Nat /\ DOMAIN cs = 1..Len(cs)
      BY <3>2, LenProperties DEF IsSeq
    <3>4. 1 \in DOMAIN cs /\ 2 \in DOMAIN cs
      BY <1>17, <3>1, <3>3
    <3>5. p # <<>> /\ IsSeq(p) /\ IsSeq(q)
      BY <3>1, <3>2, <3>4
    <3>6. (p \o q)[1] = p[1]
      <4>1. PICK S : S = Elements(p) \cup Elements(q)
        OBVIOUS
      <4>2. p \in Seq(S) /\ q \in Seq(S)
        BY <3>5, <4>1, SeqMonotonic DEF IsSeq
      <4>3. Len(p) \in Nat \ {0} /\ Len(q) \in Nat
        BY <3>5, <4>2, EmptySeq, LenProperties
      <4>4. 1 \in 1..Len(p) + Len(q) /\ 1 <= Len(p)
        BY <4>3
      <4>. QED
        BY <4>2, <4>4, ConcatProperties
    <3>. QED
      BY <2>5, <3>1, <3>6
  <2>10. CASE full = Panic(f, "ecdheGM")
    BY <2>4, <2>10, PanicStops, GreetedStops DEF None
  <2>11. CASE full = SendServerFlight(f, c, certs, TRUE, skx, status, <<>>)
    BY <2>4, <2>7, <2>8, <2>9, <2>11, SendServerFlightEnd
  <2>. QED
    BY <2>6, <2>10, <2>11
<1>18. Stops(e, h2) \/ h2 = full
  <2>1. DOMAIN checks2 \subseteq 1..5 /\ \A i \in DOMAIN checks2 : checks2[i][2] \notin {None, "noResult"}
    BY <1>10 DEF None
  <2>. QED
    BY <1>8, <1>11, <2>1, CheckedEnd
<1>19. ~(Len(c.certs) < 2) => ServerInv(h, c) /\ ~Ended(h)
  <2>1. CASE h = Panic(e, "nilMD5")
    BY <1>7, <1>8, <2>1, PanicStops, GreetedStops DEF None
  <2>2. CASE h = h2
    BY <1>7, <1>17, <1>18, <2>2, GreetedStops
  <2>. QED
    BY <1>12, <2>1, <2>2
<1>. QED
  BY <1>1, <1>2, <1>7, <1>15, <1>16, <1>19, HelloAnswered

-----------------------------------------------------------------------------
\* clientHandshake: the hello, with the cached session if there is one
LEMMA WithSessionEnd ==
    ASSUME Inv, NEW c, c = conf.client, NEW hello,
           {"type", "vers", "sid", "ticket", "tickets"} \subseteq DOMAIN hello, hello.type = "clientHello",
           hello.sid = 0, hello.ticket = Nil,
           NEW w, w = WithSession(c, hello), NEW h, h = w.hello, NEW t, t = w.session
    PROVE  /\ "type" \in DOMAIN h /\ h.type = "clientHello" /\ h.vers = hello.vers
           /\ (h.sid # 0 <=> t # Nil) /\ (h.ticket # Nil => t # Nil)
           /\ t # Nil => AboutServer(c, conf.server.certs, t.peer, t.verified)
<1>1. conn # 0
  BY TlsAssumption DEF Inv, EnvInv
<1>2. CASE h = hello /\ t = Nil
  BY <1>2
<1>3. CASE h = [hello EXCEPT !.tickets = TRUE] /\ t = Nil
  BY <1>3
<1>4. CASE h = [hello EXCEPT !.tickets = TRUE, !.ticket = cache.ticket, !.sid = conn] /\ t = cache /\ cache # Nil
  <2>1. AboutServer(c, conf.server.certs, t.peer, t.verified)
    BY <1>4 DEF Inv, CacheInv
  <2>2. "type" \in DOMAIN h /\ h.type = "clientHello" /\ h.vers = hello.vers /\ h.sid = conn
    BY <1>4
  <2>. QED
    BY <1>1, <1>4, <2>1, <2>2
<1>. QED
  BY <1>2, <1>3, <1>4 DEF WithSession

\* handshake of the client, up to its first read
LEMMA StartClientKeeps ==
    ASSUME Inv, NEW hello, NEW vers, StartClient(conf.client, hello, vers),
           {"type", "vers", "sid", "ticket", "tickets"} \subseteq DOMAIN hello, hello.type = "clientHello",
           hello.sid = 0, hello.ticket = Nil,
           hello.vers \in Nat, conf.client.gm \/ hello.vers = MaxVersion(conf.client),
           conf.client.gm => vers = VersionGMSSL
    PROVE  Inv'
<1>1. PICK e, c, chains : e = Client /\ c = conf.client /\ chains = conf.server.certs
  OBVIOUS
<1>2. e.pc = "start" /\ Proper(e) /\ Left(e) /\ Offer(e, c, chains) /\ ClientPlace(e, c, chains)
  BY <1>1 DEF StartClient, Inv, ClientInv
<1>3. /\ e.sum = <<>> /\ e.proto = None /\ e.hello = Nil /\ ~e.buffering /\ ~e.resumed
      /\ e.finished = Nil /\ NoKeys(e) /\ e.status = 0 /\ e.err = None /\ e.buf = <<>> /\ e.offered = Nil
  BY <1>2 DEF ClientPlace, Left, Stopped
<1>4. PICK w, h, t : w = WithSession(c, hello) /\ h = w.hello /\ t = w.session
  OBVIOUS
<1>5. /\ "type" \in DOMAIN h /\ h.type = "clientHello" /\ h.vers = hello.vers
      /\ (h.sid # 0 <=> t # Nil) /\ (h.ticket # Nil => t # Nil)
      /\ t # Nil => AboutServer(c, chains, t.peer, t.verified)
  BY <1>1, <1>4, WithSessionEnd
<1>6. PICK f : f = [e EXCEPT !.hello = h, !.session = t, !.offered = t, !.vers = vers, !.pc = "serverHello"]
  OBVIOUS
<1>7. PICK r : r = Record(f, "handshake", h)
  OBVIOUS
<1>8. PICK g : g = IF c.host = None /\ ~c.skipVerify THEN Abort(e, "noServerName") ELSE Write(f, r)
  OBVIOUS
<1>9. /\ ends' = [ends EXCEPT !["client"] = g]
      /\ UNCHANGED <<conf, net, ticketKeys, cache, conn, rotates, faults>>
  BY <1>1, <1>4, <1>6, <1>7, <1>8, ZenonT(90) DEF StartClient
<1>10. ClientInv(g, c, chains) /\ g.pc # "end"
  <2>1. CASE g = Abort(e, "noServerName")
    <3>1. Stops(e, g)
      BY <1>2, <2>1, AbortStops DEF None
    <3>2. ClientHash(e) /\ ClientFinished(e)
      BY <1>3 DEF ClientHash, ClientFinished
    <3>. QED
      BY <1>2, <1>3, <3>1, <3>2, ClientStops
  <2>2. CASE g = Write(f, r)
    <3>1. /\ DOMAIN f = Fields /\ f.hello = h /\ f.session = t /\ f.offered = t /\ f.vers = vers
          /\ f.pc = "serverHello" /\ Same(e, f, {"hello", "session", "offered", "vers", "pc"})
      BY <1>2, <1>6 DEF Proper, Same, Fields
    <3>2. /\ f.sum = e.sum /\ f.wire = e.wire /\ f.buf = e.buf /\ f.finished = e.finished
          /\ f.buffering = e.buffering
      BY <3>1 DEF Same, Fields
    <3>3. Proper(f)
      BY <1>2, <3>1, <3>2, ProperSame DEF Proper
    <3>4. Sent(f, r)
      BY <1>5, <1>7 DEF Record, Sent
    <3>5. Proper(g) /\ Same(f, g, {"wire", "buf"}) /\ g.buf = f.buf
      BY <1>3, <2>2, <3>2, <3>3, <3>4, WriteEnd
    <3>6. /\ g.hello = h /\ g.session = t /\ g.offered = t /\ g.vers = vers /\ g.pc = "serverHello"
          /\ g.sum = e.sum /\ g.proto = e.proto /\ g.resumed = e.resumed /\ g.finished = e.finished
          /\ g.in = e.in /\ g.out = e.out /\ g.nextIn = e.nextIn /\ g.nextOut = e.nextOut
          /\ g.status = e.status /\ g.err = e.err /\ g.buf = e.buf
      BY <3>1, <3>2, <3>5 DEF Same, Fields
    <3>7. Left(g) /\ NoKeys(g)
      BY <1>3, <3>6 DEF Left, NoKeys, Stopped
    <3>8. Offer(g, c, chains)
      BY <1>1, <1>5, <3>6 DEF Offer
    <3>9. ClientHash(g) /\ ClientFinished(g)
      BY <1>3, <3>6 DEF ClientHash, ClientFinished
    <3>10. h # Nil
      BY <1>5 DEF Nil
    <3>11. ClientPlace(g, c, chains)
      BY <1>1, <1>3, <3>6, <3>7, <3>10 DEF ClientPlace, Stopped, None
    <3>. QED
      BY <3>5, <3>6, <3>7, <3>8, <3>9, <3>11 DEF ClientInv
  <2>. QED
    BY <1>8, <2>1, <2>2
<1>11. /\ DOMAIN ends = Sides /\ ServerInv(Server, conf.server) /\ ServerReturned(Client, Server) /\ CacheInv
  BY DEF Inv
<1>12. DOMAIN ends' = Sides /\ g = ends'["client"] /\ Server = ends'["server"]
  BY <1>9, <1>11 DEF Sides, Server
<1>13. CacheInv'
  BY <1>9, <1>11 DEF CacheInv, AboutServer, TicketOf
<1>14. ServerReturned(g, Server) /\ ClientReturned(g, Server)
  BY <1>1, <1>3, <1>10, <1>11 DEF ServerReturned, ClientReturned
<1>. QED
  BY <1>1, <1>9, <1>10, <1>11, <1>12, <1>13, <1>14, InvOf

-----------------------------------------------------------------------------
\* What the client knows before it reads the ServerHello
Offered(e, c, chains) ==
    /\ Proper(e) /\ Offer(e, c, chains) /\ e.status = 0 /\ e.err = None /\ e.buf = <<>>
    /\ e.sum = <<>> /\ e.proto = None /\ e.hello # Nil /\ ~e.resumed /\ e.finished = Nil /\ NoKeys(e)
    /\ e.session = e.offered /\ (c.gm => e.vers = VersionGMSSL)

\* It stops.
LEMMA OfferedStops ==
    ASSUME NEW e, NEW c, NEW chains, Offered(e, c, chains), NEW f, Stops(e, f)
    PROVE  ClientInv(f, c, chains) /\ f.pc # "end"
<1>1. Offer(e, c, chains) /\ e.status = 0
  BY DEF Offered
<1>2. ClientHash(e) /\ ClientFinished(e)
  BY DEF Offered, ClientHash, ClientFinished
<1>. QED
  BY <1>1, <1>2, ClientStops

\* The client with the ServerHello, the version and the suite
HelloTaken(e, sh, vers, suite) == [e EXCEPT !.sh = sh, !.vers = vers, !.suite = suite]

\* A client that takes the ServerHello has offered what it offered before
\* (processServerHello).
LEMMA HelloTakenEnd ==
    ASSUME NEW e, NEW c, NEW chains, Offered(e, c, chains), NEW sh, NEW vers, NEW suite, c.gm => vers = VersionGMSSL,
           NEW f, f = HelloTaken(e, sh, vers, suite)
    PROVE  Offered(f, c, chains) /\ f.sh = sh /\ f.vers = vers /\ f.suite = suite /\ f.hello = e.hello
<1>1. Proper(e)
  BY DEF Offered
<1>2. /\ DOMAIN f = Fields /\ f.sh = sh /\ f.vers = vers /\ f.suite = suite
      /\ Same(e, f, {"sh", "vers", "suite"})
  BY <1>1 DEF HelloTaken, Proper, Same, Fields
<1>3. /\ f.status = e.status /\ f.err = e.err /\ f.buf = e.buf /\ f.sum = e.sum /\ f.proto = e.proto
      /\ f.hello = e.hello /\ f.resumed = e.resumed /\ f.finished = e.finished /\ f.wire = e.wire
      /\ f.in = e.in /\ f.out = e.out /\ f.nextIn = e.nextIn /\ f.nextOut = e.nextOut
      /\ f.session = e.session /\ f.offered = e.offered
  BY <1>2 DEF Same, Fields
<1>4. Proper(f)
  BY <1>1, <1>2, <1>3, ProperSame DEF Proper
<1>. QED
  BY <1>2, <1>3, <1>4 DEF Offered, Offer, NoKeys

\* processServerHello
LEMMA ProcessServerHelloEnd ==
    ASSUME NEW e, NEW c, NEW chains, Offered(e, c, chains),
           e.vers = e.sh.vers \/ e.sh.vers > e.hello.vers, e.suite = e.sh.suite,
           NEW g, g = ProcessServerHello(e, c)
    PROVE  ClientInv(g, c, chains) /\ g.pc # "end"
<1>1. PICK keep, proto, q : /\ keep = (~ServerResumedSession(e) /\ c.certs # <<>>)
                            /\ proto = IF e.sh.alpn # None THEN e.sh.alpn ELSE e.proto
                            /\ q = <<e.hello, e.sh>>
  OBVIOUS
<1>2. PICK e1 : e1 = [e EXCEPT !.proto = proto, !.sum = q, !.keep = keep, !.buffering = TRUE]
  OBVIOUS
<1>3. PICK full : full = [e1 EXCEPT !.pc = "certificate"]
  OBVIOUS
<1>4. PICK pc : pc = IF e.sh.tickets THEN "newSessionTicket" ELSE "ccs"
  OBVIOUS
<1>5. PICK e2 : e2 = [e1 EXCEPT !.resumed = TRUE, !.master = e.session.master,
                                !.peer = e.session.peer, !.verified = e.session.verified, !.pc = pc]
  OBVIOUS
<1>6. PICK resumed : resumed = EstablishKeys(e2, "s2c", "c2s")
  OBVIOUS
<1>7. PICK ok : ok = IF ~ServerResumedSession(e) THEN full ELSE resumed
  OBVIOUS
<1>8. PICK x1, x2, x3, x4, x5 : /\ x1 = (~e.hello.npn /\ e.sh.npn # <<>>)
                                /\ x2 = (e.hello.alpn = <<>> /\ e.sh.alpn # None)
                                /\ x3 = (e.sh.npn # <<>> /\ e.sh.alpn # None)
                                /\ x4 = (ServerResumedSession(e) /\ e.session.vers # e.vers)
                                /\ x5 = (ServerResumedSession(e) /\ e.session.suite # e.suite)
  OBVIOUS
<1>9. PICK checks : checks = << <<x1, "handshakeFailure">>, <<x2, "handshakeFailure">>, <<x3, "handshakeFailure">>,
                                <<x4, "handshakeFailure">>, <<x5, "handshakeFailure">> >>
  OBVIOUS
<1>10. g = Checked(e, checks, ok)
  BY <1>1, <1>2, <1>3, <1>4, <1>5, <1>6, <1>7, <1>8, <1>9, SMTT(60) DEF ProcessServerHello
<1>11. Proper(e)
  BY DEF Offered
<1>12. Stops(e, g) \/ g = ok
  <2>1. DOMAIN checks \subseteq 1..5 /\ \A i \in DOMAIN checks : checks[i][2] \notin {None, "noResult"}
    BY <1>9 DEF None
  <2>. QED
    BY <1>10, <1>11, <2>1, CheckedEnd
<1>13. /\ DOMAIN e1 = Fields /\ e1.proto = proto /\ e1.sum = q
       /\ Same(e, e1, {"proto", "sum", "keep", "buffering"})
  BY <1>2, <1>11 DEF Proper, Same, Fields
<1>14. /\ e1.status = e.status /\ e1.err = e.err /\ e1.buf = e.buf /\ e1.hello = e.hello /\ e1.sh = e.sh
       /\ e1.resumed = e.resumed /\ e1.finished = e.finished /\ e1.wire = e.wire /\ e1.vers = e.vers
       /\ e1.in = e.in /\ e1.out = e.out /\ e1.nextIn = e.nextIn /\ e1.nextOut = e.nextOut
       /\ e1.session = e.session /\ e1.offered = e.offered /\ e1.suite = e.suite
  BY <1>13 DEF Same, Fields
<1>15. IsSeq(q) /\ q # <<>> /\ Len(q) = 2 /\ q[1] = e.hello /\ q[2] = e.sh
  BY <1>1, SeqShort
<1>16. Proper(e1)
  BY <1>11, <1>13, <1>14, <1>15, ProperSame
<1>17. /\ e.status = 0 /\ e.err = None /\ e.buf = <<>> /\ e.proto = None /\ e.hello # Nil /\ ~e.resumed
       /\ e.finished = Nil /\ NoKeys(e) /\ e.session = e.offered /\ Offer(e, c, chains)
  BY DEF Offered
<1>18. e.sh.npn = <<>> => proto = e.sh.alpn
  BY <1>1, <1>17
<1>19. CASE g = full /\ ~ServerResumedSession(e)
  <2>1. DOMAIN g = Fields /\ g.pc = "certificate" /\ Same(e1, g, {"pc"})
    BY <1>3, <1>16, <1>19 DEF Proper, Same, Fields
  <2>2. /\ g.status = e.status /\ g.err = e.err /\ g.buf = e.buf /\ g.hello = e.hello /\ g.sh = e.sh
        /\ g.resumed = e.resumed /\ g.finished = e.finished /\ g.wire = e1.wire /\ g.vers = e.vers
        /\ g.in = e.in /\ g.out = e.out /\ g.nextIn = e.nextIn /\ g.nextOut = e.nextOut
        /\ g.session = e.session /\ g.offered = e.offered /\ g.suite = e.suite
        /\ g.proto = proto /\ g.sum = q
    BY <1>13, <1>14, <2>1 DEF Same, Fields
  <2>3. Proper(g)
    BY <1>13, <1>14, <1>15, <1>16, <2>1, <2>2, ProperSame
  <2>4. Left(g) /\ NoKeys(g)
    BY <1>17, <2>1, <2>2 DEF Left, NoKeys, Stopped
  <2>5. Offer(g, c, chains)
    BY <1>17, <2>2 DEF Offer
  <2>6. ClientHash(g)
    <3>1. g.sum[1] = g.hello /\ g.sum[2] = g.sh /\ Len(g.sum) >= 2
      <4>1. g.sum[1] = g.hello /\ g.sum[2] = g.sh /\ Len(g.sum) = 2
        BY <1>15, <2>2, Zenon
      <4>. QED
        BY <4>1
    <3>2. (g.vers = g.sh.vers \/ g.sh.vers > g.hello.vers) /\ g.suite = g.sh.suite
      BY <2>2
    <3>3. ~g.resumed /\ ~(g.offered # Nil /\ g.hello.sid # 0 /\ g.sh.sid = g.hello.sid)
      BY <1>17, <1>19, <2>2 DEF ServerResumedSession
    <3>4. g.hello # Nil /\ (g.sh.npn = <<>> => g.proto = g.sh.alpn)
      BY <1>17, <1>18, <2>2
    <3>. QED
      BY <3>1, <3>2, <3>3, <3>4, Zenon DEF ClientHash
  <2>7. ClientFinished(g)
    BY <1>17, <2>2 DEF ClientFinished
  <2>8. ClientPlace(g, c, chains)
    BY <1>15, <1>17, <2>1, <2>2, <2>4 DEF ClientPlace, Stopped, None
  <2>. QED
    BY <2>1, <2>3, <2>4, <2>5, <2>6, <2>7, <2>8 DEF ClientInv
<1>20. CASE g = resumed /\ ServerResumedSession(e)
  <2>1. /\ DOMAIN e2 = Fields /\ e2.pc = pc /\ e2.resumed = TRUE /\ e2.peer = e.session.peer
        /\ e2.verified = e.session.verified
        /\ Same(e1, e2, {"resumed", "master", "peer", "verified", "pc"})
    BY <1>5, <1>16 DEF Proper, Same, Fields
  <2>2. /\ e2.wire = e1.wire /\ e2.buf = e1.buf /\ e2.finished = e1.finished /\ e2.sum = e1.sum
        /\ e2.status = e1.status /\ e2.err = e1.err /\ e2.hello = e1.hello /\ e2.sh = e1.sh
        /\ e2.vers = e1.vers /\ e2.in = e1.in /\ e2.out = e1.out
        /\ e2.session = e1.session /\ e2.offered = e1.offered /\ e2.suite = e1.suite /\ e2.proto = e1.proto
    BY <2>1 DEF Same, Fields
  <2>3. Proper(e2)
    BY <1>13, <1>15, <1>16, <2>1, <2>2, ProperSame
  <2>4. /\ Proper(g) /\ Same(e2, g, {"nextIn", "nextOut"})
        /\ g.nextIn = Keys(e2, "s2c") /\ g.nextOut = Keys(e2, "c2s")
    BY <1>6, <1>20, <2>3, EstablishKeysEnd
  <2>5. /\ g.status = e.status /\ g.err = e.err /\ g.buf = e.buf /\ g.hello = e.hello /\ g.sh = e.sh
        /\ g.resumed = TRUE /\ g.finished = e.finished /\ g.vers = e.vers
        /\ g.session = e.session /\ g.offered = e.offered /\ g.suite = e.suite
        /\ g.proto = proto /\ g.sum = q /\ g.pc = pc
        /\ g.peer = e.session.peer /\ g.verified = e.session.verified
        /\ g.master = e2.master /\ e2.hello = e.hello /\ e2.sh = e.sh
    BY <1>13, <1>14, <2>1, <2>2, <2>4 DEF Same, Fields
  <2>6. g.nextIn = Keys(g, "s2c") /\ g.nextOut = Keys(g, "c2s")
    BY <2>4, <2>5 DEF Keys
  <2>7. pc \in {"newSessionTicket", "ccs"} /\ (pc = "newSessionTicket" <=> e.sh.tickets)
    BY <1>4
  <2>8. Left(g)
    BY <1>17, <2>5, <2>7 DEF Left, Stopped
  <2>9. Offer(g, c, chains)
    BY <1>17, <2>5 DEF Offer
  <2>10. e.session # Nil /\ e.hello.sid # 0 /\ e.sh.sid = e.hello.sid
    BY <1>20 DEF ServerResumedSession
  <2>11. ClientHash(g)
    <3>1. g.sum[1] = g.hello /\ g.sum[2] = g.sh /\ Len(g.sum) >= 2
      <4>1. g.sum[1] = g.hello /\ g.sum[2] = g.sh /\ Len(g.sum) = 2
        BY <1>15, <2>5, Zenon
      <4>. QED
        BY <4>1
    <3>2. (g.vers = g.sh.vers \/ g.sh.vers > g.hello.vers) /\ g.suite = g.sh.suite
      BY <2>5
    <3>3. g.resumed /\ g.offered # Nil /\ g.hello.sid # 0 /\ g.sh.sid = g.hello.sid
      BY <1>17, <2>5, <2>10
    <3>4. g.hello # Nil /\ (g.sh.npn = <<>> => g.proto = g.sh.alpn)
      BY <1>17, <1>18, <2>5
    <3>5. g.peer = g.offered.peer /\ g.verified = g.offered.verified
      BY <1>17, <2>5
    <3>. QED
      BY <3>1, <3>2, <3>3, <3>4, <3>5, Zenon DEF ClientHash
  <2>12. ClientFinished(g)
    BY <1>17, <2>5 DEF ClientFinished
  <2>13. ClientPlace(g, c, chains)
    BY <1>15, <1>17, <2>5, <2>6, <2>7 DEF ClientPlace, Stopped, None
  <2>. QED
    BY <2>4, <2>5, <2>7, <2>8, <2>9, <2>11, <2>12, <2>13 DEF ClientInv
<1>21. CASE Stops(e, g)
  BY <1>21, OfferedStops
<1>. QED
  BY <1>7, <1>12, <1>19, <1>20, <1>21

\* The client at its first read
LEMMA ClientOffered ==
    ASSUME Inv, Gets("client", {"serverHello"}, "serverHello")
    PROVE  /\ Offered(Client, conf.client, conf.server.certs) /\ HasRecord("client")
           /\ (~conf.client.gm => Client.hello.vers = MaxVersion(conf.client))
<1>1. PICK e, c, chains : e = Client /\ c = conf.client /\ chains = conf.server.certs
  OBVIOUS
<1>2. HasRecord("client") /\ e.pc = "serverHello" /\ e.status = 0 /\ e.err = None /\ Proper(e)
  BY <1>1, NextMessage DEF Client, Sides
<1>3. Left(e) /\ Offer(e, c, chains) /\ ClientPlace(e, c, chains)
  BY <1>1 DEF Inv, ClientInv
<1>4. /\ e.sum = <<>> /\ e.proto = None /\ e.hello # Nil /\ (c.gm => e.vers = VersionGMSSL) /\ ~e.resumed
      /\ e.finished = Nil /\ NoKeys(e) /\ e.session = e.offered /\ e.buf = <<>>
  BY <1>2, <1>3 DEF ClientPlace, Left
<1>5. ~c.gm => e.hello.vers = MaxVersion(c)
  BY <1>3, <1>4 DEF Offer
<1>6. Offered(e, c, chains)
  BY <1>2, <1>3, <1>4 DEF Offered
<1>. QED
  BY <1>1, <1>2, <1>5, <1>6

\* The ServerHello is answered.
LEMMA ServerHelloRead ==
    ASSUME Inv, Gets("client", {"serverHello"}, "serverHello"), cache' = cache,
           NEW g, Consume("client", g),
           Stops(Client, g) \/ (ClientInv(g, conf.client, conf.server.certs) /\ g.pc # "end")
    PROVE  Inv'
<1>1. Offered(Client, conf.client, conf.server.certs) /\ HasRecord("client")
  BY ClientOffered
<1>2. Client.finished = Nil
  BY <1>1 DEF Offered
<1>3. CacheInv'
  BY DEF Inv, CacheInv, AboutServer, TicketOf, Consume
<1>4. CASE Stops(Client, g)
  BY <1>1, <1>4, ClientReadsStops
<1>5. CASE ClientInv(g, conf.client, conf.server.certs) /\ g.pc # "end"
  BY <1>1, <1>2, <1>3, <1>5, ClientReads DEF ClientReturned
<1>. QED
  BY <1>4, <1>5

\* The ServerHello of TLS
LEMMA TlsReadServerHelloKeeps ==
    ASSUME Inv, TlsReadServerHello, ~conf.client.gm
    PROVE  Inv'
<1>1. Gets("client", {"serverHello"}, "serverHello") /\ cache' = cache
  BY DEF TlsReadServerHello
<1>2. PICK b, m, c, chains : b = Client /\ m = Next1("client").m /\ c = conf.client /\ chains = conf.server.certs
  OBVIOUS
<1>3. Offered(b, c, chains) /\ Proper(b) /\ b.hello.vers = MaxVersion(c) /\ ~c.gm
  BY <1>1, <1>2, ClientOffered DEF Offered
<1>4. PICK vers, suite : vers = MutualVersion(c, m.vers) /\ suite = MutualCipherSuite(b.hello.suites, m.suite)
  OBVIOUS
<1>5. PICK e : e = HelloTaken(b, m, vers, suite)
  OBVIOUS
<1>6. PICK h : h = ProcessServerHello(e, c)
  OBVIOUS
<1>7. PICK checks : checks = << <<vers < VersionTLS10, "protocolVersion">>, <<suite = None, "handshakeFailure">> >>
  OBVIOUS
<1>8. PICK g : g = Checked(b, checks, h)
  OBVIOUS
<1>9. Consume("client", g)
  BY <1>2, <1>4, <1>5, <1>6, <1>7, <1>8, ZenonT(90) DEF TlsReadServerHello, HelloTaken
<1>10. Stops(b, g) \/ (g = h /\ ~(vers < VersionTLS10) /\ suite # None)
  <2>1. DOMAIN checks = 1..2 /\ \A i \in DOMAIN checks : checks[i][2] \notin {None, "noResult"}
    BY <1>7 DEF None
  <2>2. checks[1][1] = (vers < VersionTLS10) /\ checks[2][1] = (suite = None)
    BY <1>7
  <2>3. Stops(b, g) \/ (g = h /\ ~checks[1][1] /\ ~checks[2][1])
    BY <1>3, <1>8, <2>1, CheckedEnd
  <2>. QED
    BY <2>2, <2>3
<1>11. CASE g = h /\ ~(vers < VersionTLS10) /\ suite # None
  <2>1. Offered(e, c, chains) /\ e.sh = m /\ e.vers = vers /\ e.suite = suite /\ e.hello = b.hello
    BY <1>3, <1>5, HelloTakenEnd
  <2>2. suite = m.suite
    BY <1>4, <1>11 DEF MutualCipherSuite
  <2>3. vers = m.vers \/ m.vers > b.hello.vers
    BY <1>3, <1>4, <1>11 DEF MutualVersion, VersionTLS10
  <2>. QED
    BY <1>1, <1>2, <1>6, <1>9, <1>11, <2>1, <2>2, <2>3, ProcessServerHelloEnd, ServerHelloRead
<1>12. CASE Stops(b, g)
  BY <1>1, <1>2, <1>9, <1>12, ServerHelloRead
<1>. QED
  BY <1>10, <1>11, <1>12

\* The ServerHello of GM
LEMMA GmReadServerHelloKeeps ==
    ASSUME Inv, GmReadServerHello, conf.client.gm
    PROVE  Inv'
<1>1. Gets("client", {"serverHello"}, "serverHello") /\ cache' = cache
  BY DEF GmReadServerHello
<1>2. PICK b, m, c, chains : b = Client /\ m = Next1("client").m /\ c = conf.client /\ chains = conf.server.certs
  OBVIOUS
<1>3. Offered(b, c, chains) /\ Proper(b) /\ c.gm /\ b.vers = VersionGMSSL
  BY <1>1, <1>2, ClientOffered DEF Offered
<1>4. PICK suite : suite = MutualCipherSuiteGM(b.hello.suites, m.suite)
  OBVIOUS
<1>5. PICK e : e = [b EXCEPT !.sh = m, !.suite = suite]
  OBVIOUS
<1>6. PICK h : h = ProcessServerHello(e, c)
  OBVIOUS
<1>7. PICK checks : checks = << <<m.vers # VersionGMSSL, "protocolVersion">>, <<suite = None, "handshakeFailure">> >>
  OBVIOUS
<1>8. PICK g : g = Checked(b, checks, h)
  OBVIOUS
<1>9. Consume("client", g)
  BY <1>2, <1>4, <1>5, <1>6, <1>7, <1>8, ZenonT(90) DEF GmReadServerHello, GmProcessServerHello
<1>10. Stops(b, g) \/ (g = h /\ m.vers = VersionGMSSL /\ suite # None)
  <2>1. DOMAIN checks = 1..2 /\ \A i \in DOMAIN checks : checks[i][2] \notin {None, "noResult"}
    BY <1>7 DEF None
  <2>2. checks[1][1] = (m.vers # VersionGMSSL) /\ checks[2][1] = (suite = None)
    BY <1>7
  <2>3. Stops(b, g) \/ (g = h /\ ~checks[1][1] /\ ~checks[2][1])
    BY <1>3, <1>8, <2>1, CheckedEnd
  <2>. QED
    BY <2>2, <2>3
<1>11. CASE g = h /\ m.vers = VersionGMSSL /\ suite # None
  <2>1. e = HelloTaken(b, m, VersionGMSSL, suite)
    BY <1>3, <1>5 DEF HelloTaken, Proper
  <2>2. Offered(e, c, chains) /\ e.sh = m /\ e.vers = m.vers /\ e.suite = suite
    BY <1>3, <1>11, <2>1, HelloTakenEnd
  <2>3. suite = m.suite
    BY <1>4, <1>11 DEF MutualCipherSuiteGM
  <2>. QED
    BY <1>1, <1>2, <1>6, <1>9, <1>11, <2>2, <2>3, ProcessServerHelloEnd, ServerHelloRead
<1>12. CASE Stops(b, g)
  BY <1>1, <1>2, <1>9, <1>12, ServerHelloRead
<1>. QED
  BY <1>10, <1>11, <1>12

-----------------------------------------------------------------------------
\* The handshake hash of the client grows.
LEMMA ClientHashGrows ==
    ASSUME NEW e, ClientHash(e), e.sum # <<>>, NEW f, Longer(e.sum, f.sum),
           f.hello = e.hello, f.sh = e.sh, f.vers = e.vers, f.suite = e.suite, f.resumed = e.resumed,
           f.offered = e.offered, f.proto = e.proto \/ e.sh.npn # <<>>,
           e.resumed => f.peer = e.peer /\ f.verified = e.verified
    PROVE  ClientHash(f) /\ Len(f.sum) >= 2 /\ f.sum # <<>>
<1>1. Len(e.sum) >= 2 /\ Len(e.sum) \in Nat /\ Len(f.sum) \in Nat /\ Len(e.sum) <= Len(f.sum)
  BY DEF ClientHash, Longer
<1>2. f.sum[1] = e.sum[1] /\ f.sum[2] = e.sum[2]
  BY <1>1 DEF Longer
<1>3. Len(f.sum) >= 2 /\ f.sum # <<>>
  BY <1>1
<1>. QED
  BY <1>2, <1>3 DEF ClientHash

Full == {"certificate", "status", "skx", "certReq"}

\* doFullHandshake, what every message read before ServerHelloDone does
LEMMA ClientGoesOn ==
    ASSUME NEW e, NEW c, NEW chains, ClientInv(e, c, chains), e.pc \in Full \cup {"serverHelloDone"},
           NEW m, NEW f, DOMAIN f = Fields, f.sum = Append(e.sum, m),
           Same(e, f, {"sum", "pc", "ka", "req", "chain", "peer", "verified"}),
           f.pc \in (Full \ {"certificate"}) \cup {"serverHelloDone"},
           e.pc = "certificate" => f.peer = m.certs /\ (f.verified <=> ~c.skipVerify),
           e.pc # "certificate" => f.peer = e.peer /\ f.verified = e.verified
    PROVE  /\ ClientInv(f, c, chains) /\ f.pc # "end" /\ f.finished = Nil /\ e.finished = Nil
           /\ f.status = 0 /\ f.sum # <<>>
<1>1. Proper(e) /\ Left(e) /\ Offer(e, c, chains) /\ ClientHash(e) /\ ClientFinished(e) /\ ClientPlace(e, c, chains)
  BY DEF ClientInv
<1>2. e.sum # <<>> /\ ~e.resumed /\ e.finished = Nil /\ NoKeys(e) /\ e.session = e.offered
  BY <1>1 DEF ClientPlace, Full
<1>3. e.status = 0 /\ e.err = None /\ e.buf = <<>>
  BY <1>1 DEF Left, Stopped, Full
<1>4. /\ f.vers = e.vers /\ f.suite = e.suite /\ f.master = e.master /\ f.hello = e.hello /\ f.sh = e.sh
      /\ f.in = e.in /\ f.out = e.out /\ f.nextIn = e.nextIn /\ f.nextOut = e.nextOut
      /\ f.buf = e.buf /\ f.status = e.status /\ f.err = e.err /\ f.resumed = e.resumed
      /\ f.proto = e.proto /\ f.finished = e.finished /\ f.wire = e.wire
      /\ f.session = e.session /\ f.offered = e.offered
  BY DEF Same, Fields
<1>5. IsSeq(f.sum) /\ Longer(e.sum, f.sum) /\ Latest(f.sum) = m /\ Len(f.sum) = Len(e.sum) + 1
  BY <1>1, AppendLonger
<1>6. Proper(f)
  BY <1>1, <1>4, <1>5, ProperSame
<1>7. Left(f) /\ NoKeys(f)
  BY <1>2, <1>3, <1>4 DEF Left, NoKeys, Stopped, Full
<1>8. Offer(f, c, chains)
  BY <1>1, <1>4 DEF Offer
<1>9. ClientHash(f) /\ Len(f.sum) >= 2 /\ f.sum # <<>>
  BY <1>1, <1>2, <1>4, <1>5, ClientHashGrows
<1>10. ClientFinished(f)
  BY <1>2, <1>4 DEF ClientFinished
<1>11. Len(f.sum) >= 3 /\ f.sum[3].certs = f.peer /\ (f.verified <=> ~c.skipVerify)
  <2>1. CASE e.pc = "certificate"
    <3>1. Len(e.sum) = 2
      BY <1>1, <2>1 DEF ClientPlace
    <3>. QED
      BY <1>5, <2>1, <3>1 DEF Latest
  <2>2. CASE e.pc # "certificate"
    <3>1. Len(e.sum) >= 3 /\ e.sum[3].certs = e.peer /\ (e.verified <=> ~c.skipVerify)
      BY <1>1, <1>2, <2>2 DEF ClientPlace, Full
    <3>2. f.sum[3] = e.sum[3] /\ Len(f.sum) >= 3
      BY <1>5, <3>1 DEF Longer
    <3>. QED
      BY <2>2, <3>1, <3>2
  <2>. QED
    BY <2>1, <2>2
<1>12. ClientPlace(f, c, chains)
  BY <1>2, <1>3, <1>4, <1>7, <1>9, <1>11 DEF ClientPlace, Stopped, Full, None
<1>. QED
  BY <1>2, <1>3, <1>4, <1>6, <1>7, <1>8, <1>9, <1>10, <1>12 DEF ClientInv, Full

\* A message of the full handshake is read: the client stops, or goes on.
LEMMA ClientFullReads ==
    ASSUME Inv, NEW pcs, pcs \subseteq Full \cup {"serverHelloDone"}, NEW type, Gets("client", pcs, type),
           cache' = cache, NEW g, Consume("client", g),
           \/ Stops(Client, g)
           \/ ClientInv(g, conf.client, conf.server.certs) /\ g.pc # "end"
    PROVE  Inv'
<1>1. HasRecord("client") /\ Client.pc \in pcs
  BY NextMessage DEF Full, Sides, Client
<1>2. ClientPlace(Client, conf.client, conf.server.certs)
  BY DEF Inv, ClientInv
<1>3. Client.finished = Nil
  BY <1>1, <1>2 DEF ClientPlace, Full
<1>4. CacheInv'
  BY DEF Inv, CacheInv, AboutServer, TicketOf, Consume
<1>5. CASE Stops(Client, g)
  BY <1>1, <1>5, ClientReadsStops
<1>6. CASE ClientInv(g, conf.client, conf.server.certs) /\ g.pc # "end"
  BY <1>1, <1>3, <1>4, <1>6, ClientReads DEF ClientReturned
<1>. QED
  BY <1>5, <1>6

\* What the client is before a message of the full handshake
LEMMA ClientInFull ==
    ASSUME Inv, NEW pcs, pcs \subseteq Full \cup {"serverHelloDone"}, NEW type, Gets("client", pcs, type)
    PROVE  /\ ClientInv(Client, conf.client, conf.server.certs) /\ Client.pc \in pcs
           /\ Proper(Client) /\ DOMAIN Client = Fields
<1>1. Client.pc \in pcs
  BY NextMessage DEF Full, Sides, Client
<1>. QED
  BY <1>1 DEF Inv, ClientInv, Proper

\* The Certificate of the server, once it is accepted
CertificateEnd(e, c, q, certs, pc) == [e EXCEPT !.sum = q, !.peer = certs, !.verified = ~c.skipVerify, !.pc = pc]

\* The client's part of the invariant survives the Certificate it accepts
\* (doFullHandshake).
LEMMA CertificateTaken ==
    ASSUME NEW e, NEW c, NEW chains, ClientInv(e, c, chains), e.pc = "certificate", DOMAIN e = Fields,
           NEW m, NEW certs, certs = m.certs, NEW pc, pc \in {"status", "skx"},
           NEW q, q = Append(e.sum, m), NEW f, f = CertificateEnd(e, c, q, certs, pc)
    PROVE  ClientInv(f, c, chains) /\ f.pc # "end"
<1>0. PICK v : v = ~c.skipVerify
  OBVIOUS
<1>1. /\ DOMAIN f = Fields /\ f.sum = q /\ f.pc = pc /\ f.peer = certs /\ f.verified = v
      /\ Same(e, f, {"sum", "peer", "verified", "pc"})
  <2>1. f = [e EXCEPT !.sum = q, !.peer = certs, !.verified = v, !.pc = pc]
    BY <1>0 DEF CertificateEnd
  <2>. QED
    BY <2>1, ZenonT(90) DEF Same, Fields
<1>2. Same(e, f, {"sum", "pc", "ka", "req", "chain", "peer", "verified"})
  BY <1>1 DEF Same
<1>3. f.verified <=> ~c.skipVerify
  BY <1>0, <1>1
<1>. QED
  BY <1>1, <1>2, <1>3, ClientGoesOn, SMTT(60) DEF Full

\* Reading the Certificate of the server preserves the invariant, whether it is
\* accepted or not (doFullHandshake).
LEMMA TlsReadCertificateKeeps ==
    ASSUME Inv, TlsReadCertificate
    PROVE  Inv'
<1>1. Gets("client", {"certificate"}, "certificate") /\ cache' = cache
  BY DEF TlsReadCertificate
<1>2. PICK e, m, c, chains, certs : /\ e = Client /\ m = Next1("client").m /\ c = conf.client
                                    /\ chains = conf.server.certs /\ certs = m.certs
  OBVIOUS
<1>3. ClientInv(e, c, chains) /\ e.pc = "certificate" /\ Proper(e) /\ DOMAIN e = Fields
  BY <1>1, <1>2, ClientInFull DEF Full
<1>4. PICK q : q = Append(e.sum, m)
  OBVIOUS
<1>5. PICK f : f = CertificateEnd(e, c, q, certs, "status")
  OBVIOUS
<1>6. PICK x1, x2, x3, x4, x5 :
          /\ x1 = (certs = <<>>)
          /\ x2 = (\E i \in DOMAIN certs : certs[i].kind = "garbage")
          /\ x3 = (certs # <<>> /\ ~c.skipVerify
                     /\ ~Verifies(certs[1], {certs[i] : i \in 2..Len(certs)}, c.roots, c.host))
          /\ x4 = c.veto
          /\ x5 = (certs # <<>> /\ certs[1].kind \notin {"rsa", "ecdsa", "sm2"})
  OBVIOUS
<1>7. PICK checks : checks = << <<x1, "unexpectedMessage">>, <<x2, "badCertificate">>, <<x3, "badCertificate">>,
                                <<x4, "badCertificate">>, <<x5, "unsupportedCertificate">> >>
  OBVIOUS
<1>8. PICK g : g = Checked(e, checks, f)
  OBVIOUS
<1>9. Consume("client", g)
  BY <1>2, <1>4, <1>5, <1>6, <1>7, <1>8, ZenonT(90) DEF TlsReadCertificate, CertificateEnd
<1>10. Stops(e, g) \/ g = f
  <2>1. DOMAIN checks \subseteq 1..5 /\ \A i \in DOMAIN checks : checks[i][2] \notin {None, "noResult"}
    BY <1>7 DEF None
  <2>. QED
    BY <1>3, <1>8, <2>1, CheckedEnd
<1>11. ClientInv(f, c, chains) /\ f.pc # "end"
  <2>1. certs = m.certs /\ "status" \in {"status", "skx"}
    BY <1>2
  <2>. QED
    BY <1>3, <1>4, <1>5, <2>1, CertificateTaken, Zenon
<1>. QED
  BY <1>1, <1>2, <1>9, <1>10, <1>11, ClientFullReads DEF Full

\* The same of GM
LEMMA GmReadCertificateKeeps ==
    ASSUME Inv, GmReadCertificate
    PROVE  Inv'
<1>1. Gets("client", {"certificate"}, "certificate") /\ cache' = cache
  BY DEF GmReadCertificate
<1>2. PICK e, m, c, chains, certs : /\ e = Client /\ m = Next1("client").m /\ c = conf.client
                                    /\ chains = conf.server.certs /\ certs = m.certs
  OBVIOUS
<1>3. ClientInv(e, c, chains) /\ e.pc = "certificate" /\ Proper(e) /\ DOMAIN e = Fields
  BY <1>1, <1>2, ClientInFull DEF Full
<1>4. PICK q : q = Append(e.sum, m)
  OBVIOUS
<1>5. PICK f : f = CertificateEnd(e, c, q, certs, "skx")
  OBVIOUS
<1>6. PICK faulty : faulty = {i \in DOMAIN certs : GmCertFault(certs[i], i) # None}
  OBVIOUS
<1>7. PICK first : first = CHOOSE i \in faulty : \A j \in faulty : i <= j
  OBVIOUS
<1>8. PICK fault, verified :
          /\ fault = IF faulty = {} THEN None ELSE GmCertFault(certs[first], first)
          /\ verified = \A i \in DOMAIN certs : Verifies(certs[i], {certs[j] : j \in 3..i-1}, c.roots, c.host)
  OBVIOUS
<1>9. PICK g : g = IF certs = <<>> THEN Fail(e, "unexpectedMessage")
                   ELSE IF Len(certs) < 2 THEN Fail(e, "insufficientSecurity")
                   ELSE IF fault = "panic" THEN Panic(e, "notEcdsa")
                   ELSE IF fault # None THEN Fail(e, fault)
                   ELSE IF (~c.skipVerify /\ ~verified) \/ c.veto THEN Fail(e, "badCertificate")
                   ELSE f
  OBVIOUS
<1>10. Consume("client", g)
  BY <1>2, <1>4, <1>5, <1>6, <1>7, <1>8, <1>9, ZenonT(90) DEF GmReadCertificate, CertificateEnd
<1>11. fault # "noResult"
  <2>1. fault = None \/ fault = GmCertFault(certs[first], first)
    BY <1>8, Zenon
  <2>. QED
    BY <2>1 DEF GmCertFault, None
<1>12. Stops(e, g) \/ g = f
  <2>1. g \in {Fail(e, "unexpectedMessage"), Fail(e, "insufficientSecurity"), Panic(e, "notEcdsa"),
               Fail(e, "badCertificate"), f} \/ (fault # None /\ g = Fail(e, fault))
    BY <1>9, Zenon
  <2>. QED
    BY <1>3, <1>11, <2>1, FailStops, PanicStops DEF None
<1>13. ClientInv(f, c, chains) /\ f.pc # "end"
  <2>1. certs = m.certs /\ "skx" \in {"status", "skx"}
    BY <1>2
  <2>. QED
    BY <1>3, <1>4, <1>5, <2>1, CertificateTaken, Zenon
<1>. QED
  BY <1>1, <1>2, <1>10, <1>12, <1>13, ClientFullReads DEF Full

\* The CertificateStatus
LEMMA TlsReadCertificateStatusKeeps ==
    ASSUME Inv, TlsReadCertificateStatus
    PROVE  Inv'
<1>1. Gets("client", {"status"}, "certificateStatus") /\ cache' = cache
  BY DEF TlsReadCertificateStatus
<1>2. PICK e, m, c, chains : /\ e = Client /\ m = Next1("client").m /\ c = conf.client /\ chains = conf.server.certs
  OBVIOUS
<1>3. ClientInv(e, c, chains) /\ e.pc = "status" /\ Proper(e) /\ DOMAIN e = Fields
  BY <1>1, <1>2, ClientInFull DEF Full
<1>4. PICK q, x : q = Append(e.sum, m) /\ x = ~e.sh.ocsp
  OBVIOUS
<1>5. PICK f : f = [e EXCEPT !.sum = q, !.pc = "skx"]
  OBVIOUS
<1>6. PICK checks : checks = << <<x, "unexpectedMessage">> >>
  OBVIOUS
<1>7. PICK g : g = Checked(e, checks, f)
  OBVIOUS
<1>8. Consume("client", g)
  BY <1>2, <1>4, <1>5, <1>6, <1>7, ZenonT(90) DEF TlsReadCertificateStatus
<1>9. Stops(e, g) \/ g = f
  <2>1. DOMAIN checks \subseteq 1..5 /\ \A i \in DOMAIN checks : checks[i][2] \notin {None, "noResult"}
    BY <1>6 DEF None
  <2>. QED
    BY <1>3, <1>7, <2>1, CheckedEnd
<1>10. ClientInv(f, c, chains) /\ f.pc # "end"
  <2>1. DOMAIN f = Fields /\ f.sum = q /\ f.pc = "skx" /\ Same(e, f, {"sum", "pc"})
    BY <1>3, <1>5 DEF Same, Fields
  <2>2. f.peer = e.peer /\ f.verified = e.verified
        /\ Same(e, f, {"sum", "pc", "ka", "req", "chain", "peer", "verified"})
    BY <2>1 DEF Same, Fields
  <2>. QED
    BY <1>3, <1>4, <2>1, <2>2, ClientGoesOn DEF Full
<1>. QED
  BY <1>1, <1>2, <1>8, <1>9, <1>10, ClientFullReads DEF Full

\* The ServerKeyExchange
LEMMA ReadServerKeyExchangeKeeps ==
    ASSUME Inv, NEW accepted, ReadServerKeyExchange(accepted)
    PROVE  Inv'
<1>1. Gets("client", {"status", "skx"}, "serverKeyExchange") /\ cache' = cache
  BY DEF ReadServerKeyExchange
<1>2. PICK e, m, c, chains : /\ e = Client /\ m = Next1("client").m /\ c = conf.client /\ chains = conf.server.certs
  OBVIOUS
<1>3. ClientInv(e, c, chains) /\ e.pc \in {"status", "skx"} /\ Proper(e) /\ DOMAIN e = Fields
  BY <1>1, <1>2, ClientInFull DEF Full
<1>4. PICK q, x : q = Append(e.sum, m) /\ x = ~accepted
  OBVIOUS
<1>5. PICK f : f = [e EXCEPT !.sum = q, !.ka = m, !.pc = "certReq"]
  OBVIOUS
<1>6. PICK checks : checks = << <<x, "unexpectedMessage">> >>
  OBVIOUS
<1>7. PICK g : g = Checked(e, checks, f)
  OBVIOUS
<1>8. Consume("client", g)
  BY <1>2, <1>4, <1>5, <1>6, <1>7, ZenonT(90) DEF ReadServerKeyExchange
<1>9. Stops(e, g) \/ g = f
  <2>1. DOMAIN checks \subseteq 1..5 /\ \A i \in DOMAIN checks : checks[i][2] \notin {None, "noResult"}
    BY <1>6 DEF None
  <2>. QED
    BY <1>3, <1>7, <2>1, CheckedEnd
<1>10. ClientInv(f, c, chains) /\ f.pc # "end"
  <2>1. DOMAIN f = Fields /\ f.sum = q /\ f.pc = "certReq" /\ Same(e, f, {"sum", "ka", "pc"})
    BY <1>3, <1>5 DEF Same, Fields
  <2>2. f.peer = e.peer /\ f.verified = e.verified
        /\ Same(e, f, {"sum", "pc", "ka", "req", "chain", "peer", "verified"})
    BY <2>1 DEF Same, Fields
  <2>. QED
    BY <1>3, <1>4, <2>1, <2>2, ClientGoesOn DEF Full
<1>. QED
  BY <1>1, <1>2, <1>8, <1>9, <1>10, ClientFullReads DEF Full

\* The CertificateRequest
LEMMA ReadCertificateRequestKeeps ==
    ASSUME Inv, NEW kinds, ReadCertificateRequest(kinds)
    PROVE  Inv'
<1>1. Gets("client", {"status", "skx", "certReq"}, "certificateRequest") /\ cache' = cache
  BY DEF ReadCertificateRequest
<1>2. PICK e, m, c, chains : /\ e = Client /\ m = Next1("client").m /\ c = conf.client /\ chains = conf.server.certs
  OBVIOUS
<1>3. ClientInv(e, c, chains) /\ e.pc \in {"status", "skx", "certReq"} /\ Proper(e) /\ DOMAIN e = Fields
  BY <1>1, <1>2, ClientInFull DEF Full
<1>4. PICK q, chain : q = Append(e.sum, m) /\ chain = GetCertificate(c, m, kinds)
  OBVIOUS
<1>5. PICK g : g = [e EXCEPT !.sum = q, !.req = m, !.pc = "serverHelloDone", !.chain = chain]
  OBVIOUS
<1>6. Consume("client", g)
  BY <1>2, <1>4, <1>5, Zenon DEF ReadCertificateRequest
<1>7. ClientInv(g, c, chains) /\ g.pc # "end"
  <2>1. DOMAIN g = Fields /\ g.sum = q /\ g.pc = "serverHelloDone" /\ Same(e, g, {"sum", "req", "chain", "pc"})
    BY <1>3, <1>5 DEF Same, Fields
  <2>2. g.peer = e.peer /\ g.verified = e.verified
        /\ Same(e, g, {"sum", "pc", "ka", "req", "chain", "peer", "verified"})
    BY <2>1 DEF Same, Fields
  <2>. QED
    BY <1>3, <1>4, <2>1, <2>2, ClientGoesOn DEF Full
<1>. QED
  BY <1>1, <1>2, <1>6, <1>7, ClientFullReads DEF Full

-----------------------------------------------------------------------------
\* The end of doFullHandshake of the client, from ServerHelloDone to its Finished
LEMMA SendClientFlightEnd ==
    ASSUME NEW e, NEW c, NEW chains, ClientInv(e, c, chains),
           e.pc \in (Full \ {"certificate"}) \cup {"serverHelloDone"},
           NEW ckx, "type" \in DOMAIN ckx, ckx.type # "finished", NEW pre, NEW alg, NEW nilPrf,
           NEW g, g = SendClientFlight(e, c, ckx, pre, alg, nilPrf)
    PROVE  ClientInv(g, c, chains) /\ g.pc # "end"
<1>1. Proper(e) /\ Left(e) /\ Offer(e, c, chains) /\ ClientHash(e) /\ ClientPlace(e, c, chains)
  BY DEF ClientInv
<1>2. /\ e.sum # <<>> /\ ~e.resumed /\ e.finished = Nil /\ e.session = e.offered
      /\ Len(e.sum) >= 3 /\ e.sum[3].certs = e.peer /\ (e.verified <=> ~c.skipVerify)
  BY <1>1 DEF ClientPlace, Full
<1>3. e.status = 0 /\ e.err = None
  BY <1>1 DEF Left, Stopped, Full
<1>4. PICK e1 : e1 = IF e.req = Nil THEN e ELSE WriteHandshake(e, [type |-> "certificate", certs |-> e.chain])
  OBVIOUS
<1>5. Grows(e, e1, {}) /\ Proper(e1) /\ e1.finished = Nil
  <2>1. CASE e1 = e
    BY <1>1, <1>2, <2>1, GrowsNot
  <2>2. PICK m : m = [type |-> "certificate", certs |-> e.chain]
    OBVIOUS
  <2>3. CASE e1 = WriteHandshake(e, m)
    <3>1. "type" \in DOMAIN m /\ m.type # "finished"
      BY <2>2
    <3>2. Grows(e, e1, {})
      BY <1>1, <2>3, <3>1, GrowsReads
    <3>. QED
      BY <1>2, <3>2 DEF Grows, Same, Fields
  <2>. QED
    BY <1>4, <2>1, <2>2, <2>3
<1>6. PICK e2 : e2 = WriteHandshake(e1, ckx)
  OBVIOUS
<1>7. Grows(e1, e2, {}) /\ Proper(e2) /\ e2.finished = Nil
  <2>1. Grows(e1, e2, {})
    BY <1>5, <1>6, GrowsReads
  <2>. QED
    BY <1>5, <2>1 DEF Grows, Same, Fields
<1>8. PICK e3 : e3 = WriteCertificateVerify(e2, alg)
  OBVIOUS
<1>9. Grows(e2, e3, {})
  <2>1. CASE e3 = e2
    BY <1>7, <2>1, GrowsNot
  <2>2. PICK m : m = [type |-> "certificateVerify", alg |-> alg, sig |-> Sign(e2.chain[1], e2.sum)]
    OBVIOUS
  <2>3. CASE e3 = WriteHandshake(e2, m)
    <3>1. "type" \in DOMAIN m /\ m.type # "finished"
      BY <2>2
    <3>. QED
      BY <1>7, <2>3, <3>1, GrowsReads
  <2>. QED
    BY <1>8, <2>1, <2>2, <2>3 DEF WriteCertificateVerify
<1>10. Grows(e, e3, {})
  <2>1. Grows(e, e2, {} \cup {})
    BY <1>5, <1>7, GrowsOn
  <2>2. Grows(e, e3, ({} \cup {}) \cup {})
    BY <1>9, <2>1, GrowsOn
  <2>. QED
    BY <2>2
<1>11. Proper(e3) /\ Longer(e.sum, e3.sum)
       /\ e3.vers = e.vers /\ e3.suite = e.suite /\ e3.hello = e.hello /\ e3.sh = e.sh
       /\ e3.session = e.session /\ e3.offered = e.offered /\ e3.peer = e.peer /\ e3.verified = e.verified
       /\ e3.status = e.status /\ e3.err = e.err /\ e3.resumed = e.resumed /\ e3.proto = e.proto
       /\ e3.finished = e.finished
  BY <1>10 DEF Grows, Same, Fields
<1>12. PICK master, pc : /\ master = MasterFromPreMasterSecret(e.vers, e.suite, pre, e.hello.random, e.sh.random)
                         /\ pc = IF e.sh.tickets THEN "newSessionTicket" ELSE "ccs"
  OBVIOUS
<1>13. PICK f : f = [e3 EXCEPT !.keep = FALSE, !.master = master, !.pc = pc]
  OBVIOUS
<1>14. DOMAIN f = Fields /\ f.master = master /\ f.pc = pc /\ Same(e3, f, {"keep", "master", "pc"})
  BY <1>11, <1>13 DEF Proper, Same, Fields
<1>15. /\ f.vers = e.vers /\ f.suite = e.suite /\ f.hello = e.hello /\ f.sh = e.sh
       /\ f.session = e.session /\ f.offered = e.offered /\ f.peer = e.peer /\ f.verified = e.verified
       /\ f.status = e.status /\ f.err = e.err /\ f.resumed = e.resumed /\ f.proto = e.proto
       /\ f.finished = e.finished /\ f.sum = e3.sum /\ f.wire = e3.wire /\ f.buf = e3.buf
  BY <1>11, <1>14 DEF Same, Fields
<1>16. IsSeq(e3.sum)
  BY <1>11 DEF Proper
<1>17. Proper(f)
  BY <1>11, <1>14, <1>15, <1>16, ProperSame
<1>18. Offer(f, c, chains) /\ f.status = 0
  BY <1>1, <1>3, <1>15 DEF Offer
<1>19. Longer(e.sum, f.sum)
  BY <1>11, <1>15
<1>20. g = IF nilPrf THEN Panic(f, "nilPrf") ELSE SendClientFinished(EstablishKeys(f, "s2c", "c2s"), c)
  BY <1>4, <1>6, <1>8, <1>12, <1>13, ZenonT(90) DEF SendClientFlight
<1>21. CASE g = Panic(f, "nilPrf")
  <2>1. ClientHash(f)
    BY <1>1, <1>2, <1>15, <1>19, ClientHashGrows
  <2>2. ClientFinished(f)
    BY <1>2, <1>15 DEF ClientFinished
  <2>3. Stops(f, g)
    BY <1>17, <1>21, PanicStops DEF None
  <2>. QED
    BY <1>18, <2>1, <2>2, <2>3, ClientStops
<1>22. CASE g = SendClientFinished(EstablishKeys(f, "s2c", "c2s"), c)
  <2>1. PICK k : k = EstablishKeys(f, "s2c", "c2s")
    OBVIOUS
  <2>2. /\ Proper(k) /\ Same(f, k, {"nextIn", "nextOut"})
        /\ k.nextIn = Keys(f, "s2c") /\ k.nextOut = Keys(f, "c2s")
    BY <1>17, <2>1, EstablishKeysEnd
  <2>3. k.finished = Nil /\ k.sum = f.sum /\ k.sh = f.sh /\ k.master = f.master /\ k.proto = f.proto
    BY <1>2, <1>15, <2>2 DEF Same, Fields
  <2>4. g = SendClientFinished(k, c)
    BY <1>22, <2>1
  <2>5. /\ Proper(g) /\ g.finished # Nil /\ g.buf = <<>> /\ g.out = k.nextOut
        /\ Same(k, g, {"wire", "buf", "buffering", "sum", "finished", "out", "nextOut", "proto"})
        /\ g.finished = [who |-> "client", master |-> k.master, sum |-> g.finished.sum]
        /\ k.sh.npn = <<>> => g.proto = k.proto
        /\ k.sh.npn # <<>> => Latest(g.finished.sum).proto = g.proto
        /\ Len(g.sum) > Len(k.sum) /\ Len(k.sum) \in Nat
        /\ \A i \in 1..Len(k.sum) : g.sum[i] = k.sum[i]
    BY <2>2, <2>3, <2>4, SendClientFinishedEnd
  <2>6. IsSeq(g.sum) /\ Len(g.sum) \in Nat
    <3>1. IsSeq(g.sum)
      BY <2>5 DEF Proper
    <3>. QED
      BY <3>1, SeqAppend
  <2>7. /\ g.vers = e.vers /\ g.suite = e.suite /\ g.hello = e.hello /\ g.sh = e.sh
        /\ g.session = e.session /\ g.offered = e.offered /\ g.peer = e.peer /\ g.verified = e.verified
        /\ g.status = e.status /\ g.err = e.err /\ g.resumed = e.resumed /\ g.pc = pc
        /\ g.nextIn = k.nextIn /\ g.master = k.master
    BY <1>14, <1>15, <2>2, <2>5 DEF Same, Fields
  <2>8. g.nextIn = Keys(g, "s2c") /\ g.out = Keys(g, "c2s")
    BY <1>15, <2>2, <2>3, <2>5, <2>7 DEF Keys
  <2>9. Longer(e.sum, g.sum)
    <3>1. Len(e.sum) \in Nat /\ Len(e.sum) <= Len(k.sum) /\ \A i \in 1..Len(e.sum) : k.sum[i] = e.sum[i]
      BY <1>19, <2>3 DEF Longer
    <3>. QED
      BY <2>5, <2>6, <3>1 DEF Longer
  <2>10. g.proto = e.proto \/ e.sh.npn # <<>>
    BY <1>15, <2>3, <2>5
  <2>11. ClientHash(g) /\ g.sum # <<>>
    BY <1>1, <1>2, <2>7, <2>9, <2>10, ClientHashGrows
  <2>12. Len(g.sum) >= 3 /\ g.sum[3] = e.sum[3]
    <3>1. Len(e.sum) \in Nat /\ Len(g.sum) \in Nat /\ Len(e.sum) <= Len(g.sum) /\ \A i \in 1..Len(e.sum) : g.sum[i] = e.sum[i]
      BY <2>9 DEF Longer
    <3>2. 3 \in 1..Len(e.sum)
      BY <1>2, <3>1
    <3>. QED
      BY <3>1, <3>2
  <2>13. Offer(g, c, chains)
    BY <1>1, <2>7 DEF Offer
  <2>14. pc \in {"newSessionTicket", "ccs"} /\ (pc = "newSessionTicket" <=> g.sh.tickets)
    BY <1>12, <2>7
  <2>15. Left(g)
    BY <1>3, <2>5, <2>7, <2>14 DEF Left, Stopped
  <2>16. ClientFinished(g)
    BY <1>2, <1>15, <2>3, <2>5, <2>7, <2>8, <2>11 DEF ClientFinished
  <2>17. ClientPlace(g, c, chains)
    BY <1>2, <1>3, <2>5, <2>7, <2>8, <2>11, <2>12, <2>14 DEF ClientPlace, Stopped, None
  <2>. QED
    BY <2>5, <2>7, <2>11, <2>13, <2>14, <2>15, <2>16, <2>17 DEF ClientInv
<1>. QED
  BY <1>20, <1>21, <1>22

\* The client with ServerHelloDone in its hash
DoneEnd == [Client EXCEPT !.sum = Append(@, Next1("client").m)]

\* ServerHelloDone is read: the hash has it, and the client stops or sends its flight.
LEMMA DoneRead ==
    ASSUME Inv, NEW pcs, pcs \subseteq (Full \ {"certificate"}) \cup {"serverHelloDone"},
           Gets("client", pcs, "serverHelloDone"), cache' = cache, NEW g, Consume("client", g),
           NEW e, e = DoneEnd,
           NEW ckx, "type" \in DOMAIN ckx, ckx.type # "finished", NEW pre, NEW alg, NEW nilPrf,
           Stops(e, g) \/ g = SendClientFlight(e, conf.client, ckx, pre, alg, nilPrf)
    PROVE  Inv'
<1>1. PICK b, m, c, chains : /\ b = Client /\ m = Next1("client").m /\ c = conf.client /\ chains = conf.server.certs
  OBVIOUS
<1>2. ClientInv(b, c, chains) /\ b.pc \in pcs /\ Proper(b) /\ DOMAIN b = Fields
  BY <1>1, ClientInFull DEF Full
<1>3. PICK q : q = Append(b.sum, m)
  OBVIOUS
<1>4. e = [b EXCEPT !.sum = q]
  BY <1>1, <1>3 DEF DoneEnd
<1>5. DOMAIN e = Fields /\ e.sum = q /\ Same(b, e, {"sum"})
  BY <1>2, <1>4 DEF Same, Fields
<1>6. e.pc = b.pc /\ e.peer = b.peer /\ e.verified = b.verified
      /\ Same(b, e, {"sum", "pc", "ka", "req", "chain", "peer", "verified"})
  BY <1>5 DEF Same, Fields
<1>7. ClientInv(e, c, chains) /\ e.pc # "end" /\ e.status = 0 /\ e.pc \in pcs
  BY <1>2, <1>3, <1>5, <1>6, ClientGoesOn DEF Full
<1>8. ClientInv(g, c, chains) /\ g.pc # "end"
  <2>1. CASE Stops(e, g)
    <3>1. Offer(e, c, chains) /\ ClientHash(e) /\ ClientFinished(e)
      BY <1>7 DEF ClientInv
    <3>. QED
      BY <1>7, <2>1, <3>1, ClientStops
  <2>2. CASE g = SendClientFlight(e, c, ckx, pre, alg, nilPrf)
    BY <1>7, <2>2, SendClientFlightEnd DEF Full
  <2>. QED
    BY <1>1, <2>1, <2>2
<1>. QED
  BY <1>1, <1>8, ClientFullReads DEF Full

\* The client that has ServerHelloDone in its hash is proper (doFullHandshake).
LEMMA DoneProper ==
    ASSUME Inv, NEW pcs, pcs \subseteq (Full \ {"certificate"}) \cup {"serverHelloDone"},
           Gets("client", pcs, "serverHelloDone"),
           NEW e, e = DoneEnd
    PROVE  Proper(e)
<1>1. PICK b, m : b = Client /\ m = Next1("client").m
  OBVIOUS
<1>2. Proper(b)
  BY <1>1, ClientInFull DEF Full
<1>3. PICK q : q = Append(b.sum, m)
  OBVIOUS
<1>4. e = [b EXCEPT !.sum = q]
  BY <1>1, <1>3 DEF DoneEnd
<1>5. DOMAIN e = Fields /\ e.sum = q /\ e.wire = b.wire /\ e.buf = b.buf /\ e.finished = b.finished
  BY <1>2, <1>4 DEF Proper, Fields
<1>6. IsSeq(q)
  BY <1>2, <1>3, AppendLonger
<1>. QED
  BY <1>2, <1>5, <1>6, ProperSame

\* ServerHelloDone of TLS
LEMMA TlsReadServerHelloDoneKeeps ==
    ASSUME Inv, TlsReadServerHelloDone
    PROVE  Inv'
<1>1. PICK pcs : pcs = {"status", "skx", "certReq", "serverHelloDone"}
  OBVIOUS
<1>2. Gets("client", pcs, "serverHelloDone") /\ cache' = cache /\ pcs \subseteq (Full \ {"certificate"}) \cup {"serverHelloDone"}
  BY <1>1 DEF TlsReadServerHelloDone, Full
<1>3. PICK e : e = DoneEnd
  OBVIOUS
<1>4. Proper(e)
  BY <1>2, <1>3, DoneProper
<1>5. PICK alg, ka : /\ alg = IF e.chain = <<>> THEN None
                              ELSE PickSignatureAlgorithm(e.chain[1].kind, e.req.algs, e.hello.sigAlgs, e.vers)
                     /\ ka = SuiteOf(CipherSuites, e.suite).ka
  OBVIOUS
<1>6. PICK ckx : ckx = IF ka = "rsa" THEN RsaClientKeyExchange(e) ELSE EcdheClientKeyExchange(e)
  OBVIOUS
<1>7. PICK pre : pre = IF ka = "rsa" THEN ckx.pre ELSE EcdhSecret(e.ka.pub, ckx.pub)
  OBVIOUS
<1>8. PICK flight : flight = SendClientFlight(e, conf.client, ckx, pre, alg, PrfIsNil(e.vers))
  OBVIOUS
<1>9. PICK g : g = IF ka = "rsa" /\ e.peer[1].kind # "rsa" THEN Panic(e, "notRsa")
                   ELSE IF ~(ka = "rsa") /\ e.ka = Nil THEN Fail(e, "internalError")
                   ELSE IF e.chain # <<>> /\ alg = None THEN Fail(e, "internalError")
                   ELSE IF e.chain # <<>> /\ e.vers >= VersionTLS12 /\ ~e.keep THEN Panic(e, "bufferDiscarded")
                   ELSE flight
  OBVIOUS
<1>10. Consume("client", g)
  BY <1>3, <1>5, <1>6, <1>7, <1>8, <1>9 DEF TlsReadServerHelloDone, DoneEnd
<1>11. g \in {Panic(e, "notRsa"), Fail(e, "internalError"), Panic(e, "bufferDiscarded"), flight}
  BY <1>9, Zenon
<1>12. Stops(e, g) \/ g = flight
  BY <1>4, <1>11, FailStops, PanicStops DEF None
<1>13. "type" \in DOMAIN ckx /\ ckx.type # "finished"
  BY <1>6 DEF RsaClientKeyExchange, EcdheClientKeyExchange
<1>. QED
  BY <1>2, <1>3, <1>8, <1>10, <1>12, <1>13, DoneRead, Zenon

\* ServerHelloDone of GM
LEMMA GmReadServerHelloDoneKeeps ==
    ASSUME Inv, GmReadServerHelloDone
    PROVE  Inv'
<1>1. PICK pcs : pcs = {"skx", "certReq", "serverHelloDone"}
  OBVIOUS
<1>2. Gets("client", pcs, "serverHelloDone") /\ cache' = cache /\ pcs \subseteq (Full \ {"certificate"}) \cup {"serverHelloDone"}
  BY <1>1 DEF GmReadServerHelloDone, Full
<1>3. PICK e : e = DoneEnd
  OBVIOUS
<1>4. Proper(e)
  BY <1>2, <1>3, DoneProper
<1>5. PICK ckx : ckx = EccClientKeyExchange(e)
  OBVIOUS
<1>6. PICK flight : flight = SendClientFlight(e, conf.client, ckx, ckx.pre, None, FALSE)
  OBVIOUS
<1>7. PICK g : g = IF e.suite # "SM2_SM4" THEN Fail(e, "internalError") ELSE flight
  OBVIOUS
<1>8. Consume("client", g)
  BY <1>3, <1>5, <1>6, <1>7, ZenonT(90) DEF GmReadServerHelloDone, DoneEnd
<1>9. Stops(e, g) \/ g = flight
  <2>1. g \in {Fail(e, "internalError"), flight}
    BY <1>7, Zenon
  <2>. QED
    BY <1>4, <2>1, FailStops DEF None
<1>10. "type" \in DOMAIN ckx /\ ckx.type # "finished"
  BY <1>5 DEF EccClientKeyExchange
<1>. QED
  BY <1>2, <1>3, <1>6, <1>8, <1>9, <1>10, DoneRead, Zenon

\* readSessionTicket
LEMMA ReadSessionTicketKeeps ==
    ASSUME Inv, ReadSessionTicket
    PROVE  Inv'
<1>1. PICK e, m, c, chains : /\ e = Client /\ m = Next1("client").m /\ c = conf.client /\ chains = conf.server.certs
  OBVIOUS
<1>2. /\ HasRecord("client") /\ e.pc = "newSessionTicket" /\ e.status = 0 /\ e.err = None /\ cache' = cache
  <2>1. Gets("client", {"newSessionTicket"}, "newSessionTicket")
    BY DEF ReadSessionTicket
  <2>. QED
    BY <1>1, <2>1, NextMessage DEF ReadSessionTicket, Client, Sides
<1>3. /\ Proper(e) /\ Left(e) /\ Offer(e, c, chains) /\ ClientHash(e) /\ ClientFinished(e)
      /\ ClientPlace(e, c, chains)
  BY <1>1 DEF Inv, ClientInv
<1>4. /\ e.sum # <<>> /\ e.sh.tickets /\ e.nextIn = Keys(e, "s2c") /\ e.session = e.offered
      /\ (e.resumed => e.finished = Nil /\ e.nextOut = Keys(e, "c2s"))
      /\ (~e.resumed => e.finished # Nil)
      /\ (~e.resumed => Len(e.sum) >= 3 /\ e.sum[3].certs = e.peer /\ (e.verified <=> ~c.skipVerify))
  BY <1>2, <1>3 DEF ClientPlace
<1>5. PICK q, t : q = Append(e.sum, m) /\ t = Session(e, m.ticket)
  OBVIOUS
<1>6. PICK g : g = [e EXCEPT !.sum = q, !.pc = "ccs", !.session = t]
  OBVIOUS
<1>7. Consume("client", g)
  BY <1>1, <1>5, <1>6, Zenon DEF ReadSessionTicket
<1>8. DOMAIN g = Fields /\ g.sum = q /\ g.pc = "ccs" /\ g.session = t /\ Same(e, g, {"sum", "pc", "session"})
  BY <1>3, <1>6 DEF Proper, Same, Fields
<1>9. /\ g.vers = e.vers /\ g.suite = e.suite /\ g.master = e.master /\ g.hello = e.hello /\ g.sh = e.sh
      /\ g.in = e.in /\ g.out = e.out /\ g.nextIn = e.nextIn /\ g.nextOut = e.nextOut
      /\ g.buf = e.buf /\ g.status = e.status /\ g.err = e.err /\ g.resumed = e.resumed
      /\ g.proto = e.proto /\ g.finished = e.finished /\ g.wire = e.wire
      /\ g.offered = e.offered /\ g.peer = e.peer /\ g.verified = e.verified
  BY <1>8 DEF Same, Fields
<1>10. IsSeq(q) /\ Longer(e.sum, q) /\ Latest(q) = m /\ Len(q) = Len(e.sum) + 1
  BY <1>3, <1>5, AppendLonger
<1>11. Proper(g)
  BY <1>3, <1>8, <1>9, <1>10, ProperSame
<1>12. Left(g)
  BY <1>2, <1>3, <1>8, <1>9 DEF Left, Stopped
<1>13. Offer(g, c, chains)
  BY <1>3, <1>9 DEF Offer
<1>14. ClientHash(g) /\ g.sum # <<>>
  BY <1>3, <1>4, <1>8, <1>9, <1>10, ClientHashGrows
<1>15. Keys(g, "s2c") = Keys(e, "s2c") /\ Keys(g, "c2s") = Keys(e, "c2s") /\ Session(g, m.ticket) = t
  BY <1>5, <1>9 DEF Keys, Session
<1>16. ClientFinished(g)
  BY <1>3, <1>4, <1>9, <1>14, <1>15 DEF ClientFinished
<1>17. ~g.resumed => Len(g.sum) >= 3 /\ g.sum[3].certs = g.peer /\ (g.verified <=> ~c.skipVerify)
  <2>1. ASSUME ~e.resumed PROVE Len(q) >= 3 /\ q[3] = e.sum[3]
    <3>1. Len(e.sum) >= 3 /\ Len(e.sum) \in Nat /\ Len(q) \in Nat
      BY <1>4, <1>10, <2>1 DEF Longer
    <3>2. 3 \in 1..Len(e.sum)
      BY <3>1
    <3>. QED
      BY <1>10, <3>1, <3>2 DEF Longer
  <2>. QED
    BY <1>4, <1>8, <1>9, <2>1
<1>18. g.session = IF g.sh.tickets THEN Session(g, Latest(g.sum).ticket) ELSE g.offered
  BY <1>4, <1>8, <1>9, <1>10, <1>15
<1>19. ClientPlace(g, c, chains)
  BY <1>2, <1>4, <1>8, <1>9, <1>14, <1>15, <1>17, <1>18 DEF ClientPlace, Stopped, None
<1>20. ClientInv(g, c, chains)
  BY <1>11, <1>12, <1>13, <1>14, <1>16, <1>19 DEF ClientInv
<1>21. CacheInv'
  BY <1>2, <1>7 DEF Inv, CacheInv, AboutServer, TicketOf, Consume
<1>. QED
  BY <1>1, <1>2, <1>7, <1>8, <1>9, <1>20, <1>21, ClientReads DEF ClientReturned

-----------------------------------------------------------------------------
\* A version that was agreed on is not above the one that was offered.
LEMMA MutualVersionBound ==
    ASSUME NEW c, c.max \in Nat, NEW vers \in Nat
    PROVE  ~(MutualVersion(c, vers) > vers)
<1>1. MaxVersion(c) \in Nat
  BY DEF MaxVersion, VersionTLS12
<1>2. PICK least, most : least = MinVersion(c) /\ most = MaxVersion(c)
  OBVIOUS
<1>3. MutualVersion(c, vers) = IF vers < least THEN 0 ELSE IF vers > most THEN most ELSE vers
  BY <1>2 DEF MutualVersion
<1>. QED
  BY <1>1, <1>2, <1>3

\* Two ends that have the same hellos under a Finished of the server have the
\* same version, suite and kind of handshake.
LEMMA SameHellos ==
    ASSUME NEW a, NEW cc, NEW chains, Offer(a, cc, chains), ClientHash(a), a.sum # <<>>,
           NEW b, NEW c, c.max \in Nat, ServerHash(b, c), ServerFinished(b), b.finished # Nil,
           a.sum[1] = b.finished.sum[1], a.sum[2] = b.finished.sum[2]
    PROVE  /\ a.hello = b.hello /\ a.sh = b.sh /\ a.vers = b.vers /\ a.suite = b.suite
           /\ a.resumed <=> b.resumed
<1>1. b.sum # <<>> /\ b.finished.sum[1] = b.hello /\ b.finished.sum[2] = b.sh
  BY DEF ServerFinished
<1>2. a.sum[1] = a.hello /\ a.sum[2] = a.sh
  BY DEF ClientHash
<1>3. a.hello = b.hello /\ a.sh = b.sh
  BY <1>1, <1>2, Zenon
<1>4. b.vers = MutualVersion(c, b.hello.vers) /\ b.sh.vers = b.vers /\ b.sh.suite = b.suite
  BY <1>1 DEF ServerHash
<1>5. a.suite = b.suite
  BY <1>3, <1>4 DEF ClientHash
<1>6. a.hello # Nil
  BY DEF ClientHash
<1>7. a.hello.vers \in Nat
  BY <1>6 DEF Offer
<1>8. a.vers = b.vers
  <2>1. ~(MutualVersion(c, a.hello.vers) > a.hello.vers)
    BY <1>7, MutualVersionBound
  <2>2. a.vers = a.sh.vers \/ a.sh.vers > a.hello.vers
    BY DEF ClientHash
  <2>3. a.sh.vers = b.vers /\ b.vers = MutualVersion(c, a.hello.vers)
    BY <1>3, <1>4
  <2>. QED
    BY <2>1, <2>2, <2>3
<1>9. a.resumed => b.resumed
  <2>1. a.resumed => a.hello.sid # 0 /\ a.sh.sid = a.hello.sid
    BY DEF ClientHash
  <2>2. ~b.resumed => b.sh.sid = 0
    BY <1>1 DEF ServerHash
  <2>. QED
    BY <1>3, <2>1, <2>2
<1>10. b.resumed => a.resumed
  <2>1. b.resumed => b.hello.ticket # Nil /\ b.sh.sid = b.hello.sid
    BY <1>1 DEF ServerHash
  <2>2. a.hello.ticket # Nil => a.offered # Nil /\ a.hello.sid # 0
    BY <1>6 DEF Offer
  <2>3. a.offered # Nil /\ a.hello.sid # 0 /\ a.sh.sid = a.hello.sid => a.resumed
    BY DEF ClientHash
  <2>. QED
    BY <1>3, <2>1, <2>2, <2>3
<1>. QED
  BY <1>3, <1>5, <1>8, <1>9, <1>10

\* The client accepts the server's Finished: both saw the same messages.
LEMMA ServerFinishedTaken ==
    ASSUME Inv, NEW e, e = Client, NEW b, b = Server, e.pc = "finished", b.finished = FinishedSum(e, "server"),
           NEW c, c = conf.client, NEW chains, chains = conf.server.certs
    PROVE  /\ b.finished # Nil /\ b.finished.sum = e.sum /\ b.finished.master = e.master
           /\ Len(e.sum) >= 2 /\ e.sum # <<>>
           /\ AboutServer(c, chains, e.peer, e.verified)
           /\ e.sh.tickets => TicketOf(e, Latest(e.sum).ticket)
<1>1. b.finished # Nil /\ b.finished.sum = e.sum /\ b.finished.master = e.master
  BY DEF FinishedSum, Nil
<1>2. /\ Offer(e, c, chains) /\ ClientHash(e) /\ ClientPlace(e, c, chains)
      /\ ServerHash(b, conf.server) /\ ServerFinished(b)
  BY DEF Inv, ServerInv, ClientInv
<1>3. e.sum # <<>>
  BY <1>2 DEF ClientPlace
<1>4. Len(e.sum) >= 2
  BY <1>2, <1>3 DEF ClientHash
<1>5. conf.server.max \in Nat
  <2>1. conf \in Configs
    BY DEF Inv, EnvInv
  <2>. QED
    BY <2>1, ConfigsAssumption
<1>6. e.hello = b.hello /\ e.sh = b.sh /\ e.vers = b.vers /\ e.suite = b.suite /\ (e.resumed <=> b.resumed)
  <2>1. e.sum[1] = b.finished.sum[1] /\ e.sum[2] = b.finished.sum[2]
    BY <1>1
  <2>. QED
    BY <1>1, <1>2, <1>3, <1>5, <2>1, SameHellos
<1>7. b.sum # <<>> /\ b.finished.master = b.master
  BY <1>1, <1>2 DEF ServerFinished
<1>8. e.sh.tickets => TicketOf(e, Latest(e.sum).ticket)
  <2>1. b.sh.tickets => TicketOf(b, Latest(b.finished.sum).ticket)
    BY <1>1, <1>2 DEF ServerFinished
  <2>. QED
    BY <1>1, <1>6, <1>7, <2>1 DEF TicketOf
<1>9. AboutServer(c, chains, e.peer, e.verified)
  <2>1. CASE e.resumed
    <3>1. e.offered # Nil /\ e.peer = e.offered.peer /\ e.verified = e.offered.verified
      BY <1>2, <1>3, <2>1 DEF ClientHash
    <3>. QED
      BY <1>2, <3>1 DEF Offer
  <2>2. CASE ~e.resumed
    <3>1. Len(e.sum) >= 3 /\ e.sum[3].certs = e.peer /\ (e.verified <=> ~c.skipVerify)
      BY <1>2, <2>2 DEF ClientPlace
    <3>2. b.sum[3].certs[1] = chains[1][1]
      BY <1>2, <1>6, <1>7, <2>2 DEF ServerHash
    <3>3. b.sum = Append(b.finished.sum, FinishedMessage(b.finished)) /\ IsSeq(b.finished.sum)
      BY <1>1, <1>2, <1>6, <2>2 DEF ServerFinished
    <3>4. b.sum[3] = e.sum[3]
      <4>1. b.sum = Append(e.sum, FinishedMessage(b.finished)) /\ IsSeq(e.sum)
        BY <1>1, <3>3
      <4>2. 3 \in 1..Len(e.sum)
        BY <3>1, <4>1, SeqAppend
      <4>. QED
        BY <4>1, <4>2, SeqAppend
    <3>. QED
      BY <3>1, <3>2, <3>4 DEF AboutServer
  <2>. QED
    BY <2>1, <2>2
<1>. QED
  BY <1>1, <1>3, <1>4, <1>8, <1>9

\* The end with one message more, and the end of its handshake
SumEnd(e, q) == [e EXCEPT !.sum = q]
HandshakeEnd(h) == [h EXCEPT !.status = 1, !.pc = "end"]
AnswerServer(f, c) == IF f.resumed THEN SendClientFinished(f, c) ELSE f

\* What the client has kept, and got
Served(e, c, chains, m, g) ==
    /\ ClientInv(g, c, chains) /\ g.finished # Nil /\ (e.finished = Nil \/ g.finished = e.finished)
    /\ g.master = e.master /\ g.sum[1] = e.sum[1] /\ g.sum[2] = e.sum[2] /\ (g.resumed <=> e.resumed)
    /\ ~g.resumed => g.sum = Append(e.sum, m)

\* The client after the server's Finished; in a resumption it has sent its own.
LEMMA AfterServerFinishedEnd ==
    ASSUME NEW e, NEW c, NEW chains, ClientInv(e, c, chains), e.pc = "finished",
           AboutServer(c, chains, e.peer, e.verified),
           NEW m, m.type = "finished", NEW g, g = HandshakeEnd(AnswerServer(SumEnd(e, Append(e.sum, m)), c))
    PROVE  Served(e, c, chains, m, g)
<1>1. PICK q : q = Append(e.sum, m)
  OBVIOUS
<1>2. PICK f : f = SumEnd(e, q)
  OBVIOUS
<1>3. PICK h : h = AnswerServer(f, c)
  OBVIOUS
<1>4. g = HandshakeEnd(h)
  BY <1>1, <1>2, <1>3
<1>5. /\ Proper(e) /\ Left(e) /\ Offer(e, c, chains) /\ ClientHash(e) /\ ClientFinished(e)
      /\ ClientPlace(e, c, chains)
  BY DEF ClientInv
<1>6. /\ e.status = 0 /\ e.err = None /\ e.buf = <<>>
  BY <1>5 DEF Left, Stopped
<1>7. /\ e.sum # <<>> /\ e.in = Keys(e, "s2c")
      /\ (e.resumed => e.finished = Nil /\ e.nextOut = Keys(e, "c2s"))
      /\ (~e.resumed => e.finished # Nil)
  BY <1>5 DEF ClientPlace
<1>8. DOMAIN f = Fields /\ f.sum = q /\ Same(e, f, {"sum"})
  BY <1>5, <1>2 DEF SumEnd, Proper, Same, Fields
<1>9. /\ f.vers = e.vers /\ f.suite = e.suite /\ f.master = e.master /\ f.hello = e.hello /\ f.sh = e.sh
      /\ f.in = e.in /\ f.out = e.out /\ f.nextIn = e.nextIn /\ f.nextOut = e.nextOut
      /\ f.buf = e.buf /\ f.status = e.status /\ f.err = e.err /\ f.resumed = e.resumed
      /\ f.proto = e.proto /\ f.finished = e.finished /\ f.wire = e.wire
      /\ f.offered = e.offered /\ f.peer = e.peer /\ f.verified = e.verified /\ f.pc = e.pc
  BY <1>8 DEF Same, Fields
<1>10. IsSeq(q) /\ Longer(e.sum, q)
  BY <1>5, <1>1, AppendLonger
<1>11. Proper(f)
  BY <1>5, <1>8, <1>9, <1>10, ProperSame
<1>12. /\ Proper(h) /\ Longer(e.sum, h.sum) /\ h.finished # Nil /\ (e.finished = Nil \/ h.finished = e.finished)
      /\ h.vers = e.vers /\ h.suite = e.suite /\ h.master = e.master /\ h.hello = e.hello /\ h.sh = e.sh
      /\ h.in = e.in /\ h.err = e.err /\ h.resumed = e.resumed /\ h.buf = <<>>
      /\ h.offered = e.offered /\ h.peer = e.peer /\ h.verified = e.verified
      /\ (h.proto = e.proto \/ e.sh.npn # <<>>)
      /\ h.finished = [who |-> "client", master |-> e.master, sum |-> h.finished.sum]
      /\ (e.sh.npn # <<>> => Latest(h.finished.sum).proto = h.proto)
      /\ (h.resumed => h.sum = Append(h.finished.sum, FinishedMessage(h.finished)))
      /\ (~h.resumed => h.sum = q)
      /\ h.out = Keys(e, "c2s")
  <2>1. CASE ~e.resumed
    <3>1. h = f
      BY <1>3, <1>9, <2>1 DEF AnswerServer
    <3>2. /\ e.finished = [who |-> "client", master |-> e.master, sum |-> e.finished.sum]
          /\ (e.sh.npn # <<>> => Latest(e.finished.sum).proto = e.proto)
          /\ e.out = Keys(e, "c2s")
      BY <1>5, <1>7, <2>1 DEF ClientFinished
    <3>. QED
      BY <1>6, <1>7, <1>8, <1>9, <1>10, <1>11, <2>1, <3>1, <3>2
  <2>2. CASE e.resumed
    <3>1. h = SendClientFinished(f, c) /\ f.finished = Nil
      BY <1>3, <1>7, <1>9, <2>2 DEF AnswerServer
    <3>2. /\ Proper(h) /\ h.finished # Nil /\ h.buf = <<>> /\ h.out = f.nextOut
          /\ Same(f, h, {"wire", "buf", "buffering", "sum", "finished", "out", "nextOut", "proto"})
          /\ h.finished = [who |-> "client", master |-> f.master, sum |-> h.finished.sum]
          /\ h.sum = Append(h.finished.sum, FinishedMessage(h.finished))
          /\ (f.sh.npn = <<>> => h.proto = f.proto)
          /\ (f.sh.npn # <<>> => Latest(h.finished.sum).proto = h.proto)
          /\ Len(h.sum) > Len(f.sum) /\ Len(f.sum) \in Nat
          /\ \A i \in 1..Len(f.sum) : h.sum[i] = f.sum[i]
      BY <1>11, <3>1, SendClientFinishedEnd
    <3>3. /\ h.vers = e.vers /\ h.suite = e.suite /\ h.master = e.master /\ h.hello = e.hello /\ h.sh = e.sh
          /\ h.in = e.in /\ h.err = e.err /\ h.resumed = e.resumed
          /\ h.offered = e.offered /\ h.peer = e.peer /\ h.verified = e.verified
      BY <1>9, <3>2 DEF Same, Fields
    <3>4. Longer(e.sum, h.sum)
      <4>1. IsSeq(h.sum)
        BY <3>2 DEF Proper
      <4>2. Len(h.sum) \in Nat
        BY <4>1, SeqAppend
      <4>3. Len(e.sum) \in Nat /\ Len(e.sum) <= Len(f.sum) /\ \A i \in 1..Len(e.sum) : f.sum[i] = e.sum[i]
        BY <1>8, <1>10 DEF Longer
      <4>. QED
        BY <3>2, <4>2, <4>3, SMTT(60) DEF Longer
    <3>5. h.out = Keys(e, "c2s")
      BY <1>7, <1>9, <2>2, <3>2
    <3>6. h.finished = [who |-> "client", master |-> e.master, sum |-> h.finished.sum]
      BY <1>9, <3>2
    <3>7. (h.proto = e.proto \/ e.sh.npn # <<>>) /\ (e.sh.npn # <<>> => Latest(h.finished.sum).proto = h.proto)
      BY <1>9, <3>2
    <3>8. /\ (h.resumed => h.sum = Append(h.finished.sum, FinishedMessage(h.finished)))
          /\ (~h.resumed => h.sum = q)
      BY <2>2, <3>2, <3>3
    <3>9. Proper(h) /\ h.finished # Nil /\ e.finished = Nil /\ h.buf = <<>>
      BY <1>7, <2>2, <3>2
    <3>. QED
      BY <3>3, <3>4, <3>5, <3>6, <3>7, <3>8, <3>9
  <2>. QED
    BY <2>1, <2>2
<1>13. DOMAIN g = Fields /\ g.status = 1 /\ g.pc = "end" /\ Same(h, g, {"status", "pc"})
  BY <1>12, <1>4 DEF HandshakeEnd, Proper, Same, Fields
<1>14. /\ g.vers = e.vers /\ g.suite = e.suite /\ g.master = e.master /\ g.hello = e.hello /\ g.sh = e.sh
       /\ g.in = e.in /\ g.err = e.err /\ g.resumed = e.resumed /\ g.buf = <<>>
       /\ g.offered = e.offered /\ g.peer = e.peer /\ g.verified = e.verified
       /\ g.proto = h.proto /\ g.finished = h.finished /\ g.sum = h.sum /\ g.out = h.out
       /\ g.wire = h.wire /\ h.buf = g.buf
  BY <1>12, <1>13 DEF Same, Fields
<1>15. Proper(g)
  <2>1. IsSeq(g.sum)
    BY <1>12, <1>14 DEF Proper
  <2>2. Proper(h)
    BY <1>12
  <2>3. DOMAIN g = Fields /\ g.wire = h.wire /\ g.buf = h.buf /\ g.finished = h.finished
    BY <1>13, <1>14
  <2>. QED
    BY <2>1, <2>2, <2>3, ProperSame
<1>16. Left(g)
  BY <1>6, <1>13, <1>14 DEF Left, Stopped
<1>17. Offer(g, c, chains)
  BY <1>5, <1>14 DEF Offer
<1>18. ClientHash(g) /\ g.sum # <<>>
  <2>1. Longer(e.sum, g.sum)
    BY <1>12, <1>14
  <2>2. g.proto = e.proto \/ e.sh.npn # <<>>
    BY <1>12, <1>14
  <2>. QED
    BY <1>5, <1>7, <1>14, <2>1, <2>2, ClientHashGrows
<1>19. Keys(g, "s2c") = Keys(e, "s2c") /\ Keys(g, "c2s") = Keys(e, "c2s")
  BY <1>14 DEF Keys
<1>20. ClientFinished(g)
  <2>1. g.finished = [who |-> "client", master |-> g.master, sum |-> g.finished.sum]
    BY <1>12, <1>14
  <2>2. g.resumed => g.sum = Append(g.finished.sum, FinishedMessage(g.finished))
    BY <1>12, <1>14
  <2>3. (g.sh.npn # <<>> => Latest(g.finished.sum).proto = g.proto) /\ g.out = Keys(g, "c2s")
    BY <1>12, <1>14, <1>19
  <2>. QED
    BY <1>18, <2>1, <2>2, <2>3 DEF ClientFinished
<1>21. ClientPlace(g, c, chains)
  BY <1>6, <1>7, <1>12, <1>13, <1>14, <1>19 DEF ClientPlace, Stopped, None
<1>22. g.sum[1] = e.sum[1] /\ g.sum[2] = e.sum[2]
  <2>1. Len(e.sum) >= 2
    BY <1>5, <1>7 DEF ClientHash
  <2>2. Longer(e.sum, h.sum) /\ g.sum = h.sum
    BY <1>12, <1>14
  <2>3. Len(e.sum) \in Nat /\ \A i \in 1..Len(e.sum) : g.sum[i] = e.sum[i]
    BY <2>2 DEF Longer
  <2>. QED
    BY <2>1, <2>3
<1>. QED
  <2>1. ClientInv(g, c, chains)
    BY <1>15, <1>16, <1>17, <1>18, <1>20, <1>21 DEF ClientInv
  <2>2. /\ g.finished # Nil /\ (e.finished = Nil \/ g.finished = e.finished)
        /\ g.master = e.master /\ (g.resumed <=> e.resumed) /\ (~g.resumed => g.sum = Append(e.sum, m))
    BY <1>1, <1>12, <1>14
  <2>. QED
    BY <2>1, <2>2, <1>22 DEF Served

\* readFinished of the client and the end of its handshake
LEMMA ReadServerFinishedKeeps ==
    ASSUME Inv, NEW nilPrf, ReadServerFinished(nilPrf)
    PROVE  Inv'
<1>1. PICK e, b, m, c, chains : /\ e = Client /\ b = Server /\ m = Next1("client").m /\ c = conf.client
                                /\ chains = conf.server.certs
  OBVIOUS
<1>2. Gets("client", {"finished"}, "finished")
  BY DEF ReadServerFinished
<1>3. /\ HasRecord("client") /\ e.pc = "finished" /\ e.status = 0 /\ Proper(e) /\ m.type = "finished"
      /\ m = FinishedMessage(b.finished) /\ b.finished # Nil
  BY <1>1, <1>2, NextMessage DEF Client, Server, Sides, Peer
<1>4. PICK f : f = SumEnd(e, Append(e.sum, m))
  OBVIOUS
<1>5. PICK ended : ended = HandshakeEnd(AnswerServer(f, c))
  OBVIOUS
<1>6. PICK g : g = IF nilPrf THEN Panic(e, "nilPrf")
                   ELSE IF m.data # FinishedSum(e, "server") THEN Fail(e, "handshakeFailure")
                   ELSE ended
  OBVIOUS
<1>7. /\ Consume("client", g)
      /\ cache' = IF ~nilPrf /\ m.data = FinishedSum(e, "server") /\ c.cache /\ ~c.noTickets /\ f.session # f.offered
                  THEN f.session ELSE cache
  BY <1>1, <1>4, <1>5, <1>6 DEF ReadServerFinished, VerifyServerFinished, SumEnd, AnswerServer, HandshakeEnd
<1>8. CASE cache' = cache /\ g \in {Panic(e, "nilPrf"), Fail(e, "handshakeFailure")}
  <2>1. Stops(e, g)
    BY <1>3, <1>8, PanicStops, FailStops DEF None
  <2>. QED
    BY <1>1, <1>3, <1>7, <1>8, <2>1, ClientReadsStops
<1>9. CASE ~nilPrf /\ m.data = FinishedSum(e, "server") /\ g = ended
  <2>1. b.finished = FinishedSum(e, "server")
    BY <1>3, <1>9 DEF FinishedMessage
  <2>2. /\ b.finished.sum = e.sum /\ b.finished.master = e.master /\ Len(e.sum) >= 2 /\ e.sum # <<>>
        /\ AboutServer(c, chains, e.peer, e.verified)
        /\ e.sh.tickets => TicketOf(e, Latest(e.sum).ticket)
    BY <1>1, <1>3, <2>1, ServerFinishedTaken
  <2>3. ClientInv(e, c, chains)
    BY <1>1 DEF Inv
  <2>4. Served(e, c, chains, m, g)
    <3>1. AboutServer(c, chains, e.peer, e.verified) /\ e.pc = "finished" /\ m.type = "finished"
      BY <1>3, <2>2
    <3>2. g = HandshakeEnd(AnswerServer(SumEnd(e, Append(e.sum, m)), c))
      BY <1>4, <1>5, <1>9
    <3>. QED
      BY <2>3, <3>1, <3>2, AfterServerFinishedEnd
  <2>5. ClientReturned(g, b)
    BY <1>3, <2>2, <2>4 DEF Served, ClientReturned
  <2>6. f.session = e.session /\ f.offered = e.offered
    BY <1>3, <1>4 DEF SumEnd, Proper, Fields
  <2>7. e.session = IF e.sh.tickets THEN Session(e, Latest(e.sum).ticket) ELSE e.offered
    BY <1>3, <2>3 DEF ClientInv, ClientPlace
  <2>8. CacheInv'
    <3>1. conf' = conf /\ CacheInv
      BY <1>7 DEF Consume, Inv
    <3>2. CASE cache' = cache
      BY <3>1, <3>2 DEF CacheInv, AboutServer, TicketOf
    <3>3. CASE cache' = e.session /\ e.session # e.offered
      <4>1. PICK s : s = Session(e, Latest(e.sum).ticket)
        OBVIOUS
      <4>2. cache' = s /\ e.sh.tickets
        BY <2>7, <3>3, <4>1
      <4>3. s.peer = e.peer /\ s.verified = e.verified /\ s.vers = e.vers /\ s.suite = e.suite
            /\ s.master = e.master /\ s.ticket = Latest(e.sum).ticket
        BY <4>1 DEF Session
      <4>4. AboutServer(c, chains, s.peer, s.verified) /\ TicketOf(s, s.ticket)
        BY <2>2, <4>2, <4>3 DEF TicketOf
      <4>. QED
        BY <1>1, <3>1, <4>2, <4>4 DEF CacheInv
    <3>. QED
      BY <1>7, <2>6, <3>2, <3>3
  <2>. QED
    BY <1>1, <1>3, <1>7, <2>4, <2>5, <2>8, ClientReads DEF Served
<1>. QED
  BY <1>6, <1>7, <1>8, <1>9

-----------------------------------------------------------------------------
\* Conn.Handshake of the client
LEMMA ClientStepKeeps ==
    ASSUME Inv, ClientStep
    PROVE  Inv'
<1>1. conf.client.max \in Nat
  <2>1. conf \in Configs
    BY DEF Inv, EnvInv
  <2>. QED
    BY <2>1, ConfigsAssumption
<1>2. ASSUME StartClient(conf.client, MakeClientHello(conf.client), 0), ~conf.client.gm
      PROVE  Inv'
  <2>1. PICK h, c : h = MakeClientHello(conf.client) /\ c = conf.client
    OBVIOUS
  <2>2. /\ {"type", "vers", "sid", "ticket", "tickets"} \subseteq DOMAIN h /\ h.type = "clientHello"
        /\ h.sid = 0 /\ h.ticket = Nil /\ h.vers = MaxVersion(c)
    BY <2>1 DEF MakeClientHello
  <2>3. h.vers \in Nat
    BY <1>1, <2>1, <2>2 DEF MaxVersion, VersionTLS12
  <2>. QED
    BY <1>2, <2>1, <2>2, <2>3, StartClientKeeps
<1>3. ASSUME StartClient(conf.client, MakeClientHelloGM(conf.client), VersionGMSSL), conf.client.gm
      PROVE  Inv'
  <2>1. PICK h : h = MakeClientHelloGM(conf.client)
    OBVIOUS
  <2>2. /\ {"type", "vers", "sid", "ticket", "tickets"} \subseteq DOMAIN h /\ h.type = "clientHello"
        /\ h.sid = 0 /\ h.ticket = Nil /\ h.vers \in Nat
    BY <2>1 DEF MakeClientHelloGM, VersionGMSSL
  <2>. QED
    BY <1>3, <2>1, <2>2, StartClientKeeps
<1>4. CASE conf.client.gm /\ GmClientStep
  BY <1>3, <1>4, GmReadServerHelloKeeps, GmReadCertificateKeeps, ReadServerKeyExchangeKeeps,
     ReadCertificateRequestKeeps, GmReadServerHelloDoneKeeps, ReadSessionTicketKeeps, ReadServerFinishedKeeps
     DEF GmClientStep, GmReadServerKeyExchange, GmReadCertificateRequest, GmReadSessionTicket, GmReadServerFinished
<1>5. CASE ~conf.client.gm /\ TlsClientStep
  BY <1>2, <1>5, TlsReadServerHelloKeeps, TlsReadCertificateKeeps, TlsReadCertificateStatusKeeps,
     ReadServerKeyExchangeKeeps, ReadCertificateRequestKeeps, TlsReadServerHelloDoneKeeps,
     ReadSessionTicketKeeps, ReadServerFinishedKeeps
     DEF TlsClientStep, TlsReadServerKeyExchange, TlsReadCertificateRequest, TlsReadServerFinished
<1>. QED
  BY <1>4, <1>5 DEF ClientStep

\* Conn.Handshake of the server
LEMMA ServerStepKeeps ==
    ASSUME Inv, ServerStep
    PROVE  Inv'
<1>1. CASE GmServerStep
  BY <1>1, GmReadClientHelloKeeps, ReadClientCertificateKeeps, ReadClientKeyExchangeKeeps,
     ReadCertificateVerifyKeeps, ReadClientFinishedKeeps
     DEF GmServerStep, GmReadClientCertificate, GmReadClientKeyExchange, GmReadCertificateVerify, GmReadClientFinished
<1>2. CASE TlsServerStep
  BY <1>2, TlsReadClientHelloKeeps, ReadClientCertificateKeeps, ReadClientKeyExchangeKeeps,
     ReadCertificateVerifyKeeps, ReadNextProtoKeeps, ReadClientFinishedKeeps
     DEF TlsServerStep, TlsReadClientKeyExchange, TlsReadClientFinished
<1>. QED
  BY <1>1, <1>2 DEF ServerStep

\* Every step keeps the invariant.
LEMMA NextKeeps ==
    ASSUME Inv, [Next]_vars
    PROVE  Inv'
<1>1. CASE RecordStep
  BY <1>1, ReadRecordFailsKeeps, ReadEofKeeps, ReadChangeCipherSpecKeeps, UnexpectedMessageKeeps DEF RecordStep
<1>2. CASE Step
  BY <1>1, <1>2, ClientStepKeeps, ServerStepKeeps DEF Step
<1>3. CASE \E s \in Sides : Corrupt(s)
  BY <1>3, CorruptKeeps
<1>4. CASE LoseConnection \/ SetSessionTicketKeys \/ (\E s \in Sides : CloseTransport(s))
  BY <1>4, EnvironmentKeeps
<1>5. CASE NewConnection
  BY <1>5, NewConnectionKeeps
<1>6. CASE UNCHANGED vars
  BY <1>6 DEF vars, Inv, EnvInv, CacheInv, AboutServer, TicketOf, Client, Server
<1>. QED
  BY <1>2, <1>3, <1>4, <1>5, <1>6 DEF Next

\* The invariant holds throughout.
LEMMA InvAlways == Spec => []Inv
<1>1. Spec => Init /\ [][Next]_vars
  BY DEF Spec
<1>2. Inv /\ [Next]_vars => Inv'
  BY NextKeeps
<1>. QED
  BY <1>1, <1>2, InitInv, PTL

-----------------------------------------------------------------------------
\* What the invariant says of the two ends, for the theorems
LEMMA Known ==
    ASSUME Inv
    PROVE  /\ ServerInv(Server, conf.server) /\ ClientInv(Client, conf.client, conf.server.certs)
           /\ ClientReturned(Client, Server) /\ ServerReturned(Client, Server)
           /\ conf.server.max \in Nat
           /\ (Finished("client") <=> Client.pc = "end") /\ (Finished("server") <=> Ended(Server))
<1>1. conf.server.max \in Nat
  <2>1. conf \in Configs
    BY DEF Inv, EnvInv
  <2>. QED
    BY <2>1, ConfigsAssumption
<1>2. Finished("client") <=> Client.pc = "end"
  BY DEF Inv, ClientInv, ClientPlace, Left, Finished, Client
<1>. QED
  BY <1>1, <1>2 DEF Inv, Finished, Ended, Server

\* The ends, the transport and the ticket keys have their types.
LEMMA TypeHolds ==
    ASSUME Inv
    PROVE  TypeOK
<1>1. /\ conf \in Configs /\ net \subseteq Sides \cup {"lost"} /\ Len(ticketKeys) <= 2 /\ conn \in 1..MaxConns
      /\ rotates \in 0..MaxRotates /\ faults \in 0..MaxFaults
  BY DEF Inv, EnvInv
<1>2. ASSUME NEW s \in Sides
      PROVE  /\ ends[s].status \in {0, 1} /\ (ends[s].status = 1) = (ends[s].pc = "end")
             /\ ends[s].pc = "end" => ends[s].buf = <<>> /\ ends[s].err = None
             /\ (ends[s].pc \in {"failed", "panicked"}) = (ends[s].err # None)
  <2>1. Left(ends[s])
    BY DEF Inv, ServerInv, ClientInv, Server, Client, Sides
  <2>2. PICK e : e = ends[s]
    OBVIOUS
  <2>3. /\ e.status \in {0, 1} /\ (e.status = 1 <=> e.pc = "end")
        /\ e.pc = "end" => e.buf = <<>> /\ e.err = None
        /\ (e.pc \in {"failed", "panicked"} <=> e.err # None)
    BY <2>1, <2>2 DEF Left, Stopped
  <2>. QED
    BY <2>2, <2>3
<1>. QED
  BY <1>1, <1>2 DEF TypeOK

\* When both handshake functions returned, the two ends agree.
LEMMA AgreementHolds ==
    ASSUME Inv
    PROVE  Agreement
<1>1. SUFFICES ASSUME NEW a, a = Client, NEW b, b = Server, Finished("client"), Finished("server")
               PROVE  /\ a.vers = b.vers /\ a.suite = b.suite /\ a.master = b.master
                      /\ (a.resumed <=> b.resumed) /\ a.proto = b.proto /\ a.sum = b.sum
                      /\ a.in = b.out /\ a.out = b.in /\ a.in # a.out
  BY DEF Agreement, Client, Server
<1>2. PICK c, cc, chains : c = conf.server /\ cc = conf.client /\ chains = conf.server.certs
  OBVIOUS
<1>3. /\ ServerInv(b, c) /\ ClientInv(a, cc, chains) /\ ClientReturned(a, b) /\ ServerReturned(a, b)
      /\ c.max \in Nat /\ a.pc = "end" /\ Ended(b)
  BY <1>1, <1>2, Known
<1>4. /\ Offer(a, cc, chains) /\ ClientHash(a) /\ ClientFinished(a) /\ ClientPlace(a, cc, chains)
      /\ ServerHash(b, c) /\ ServerFinished(b) /\ ServerPlace(b, c)
  BY <1>3 DEF ClientInv, ServerInv
<1>5. /\ b.finished # Nil /\ a.master = b.finished.master
      /\ a.sum[1] = b.finished.sum[1] /\ a.sum[2] = b.finished.sum[2]
      /\ (~a.resumed => a.sum = Append(b.finished.sum, FinishedMessage(b.finished)))
  BY <1>3 DEF ClientReturned
<1>6. /\ a.finished # Nil
      /\ (b.resumed => b.sum = Append(a.finished.sum, FinishedMessage(a.finished)))
      /\ (b.sh.npn # <<>> => Latest(a.finished.sum).proto = b.proto)
  BY <1>3 DEF ServerReturned
<1>7. /\ a.sum # <<>> /\ a.out = Keys(a, "c2s")
      /\ (a.sh.npn # <<>> => Latest(a.finished.sum).proto = a.proto)
      /\ (a.resumed => a.sum = Append(a.finished.sum, FinishedMessage(a.finished)))
  BY <1>4, <1>6 DEF ClientFinished
<1>8. /\ b.sum # <<>> /\ b.out = Keys(b, "s2c") /\ b.finished.master = b.master
      /\ (~b.resumed => b.sum = Append(b.finished.sum, FinishedMessage(b.finished)))
  BY <1>4, <1>5 DEF ServerFinished
<1>9. /\ a.hello = b.hello /\ a.sh = b.sh /\ a.vers = b.vers /\ a.suite = b.suite /\ (a.resumed <=> b.resumed)
  BY <1>3, <1>4, <1>5, <1>7, SameHellos
<1>10. a.master = b.master
  BY <1>5, <1>8
<1>11. a.sum = b.sum
  BY <1>5, <1>6, <1>7, <1>8, <1>9
<1>12. a.proto = b.proto
  <2>1. a.sh.npn = <<>> => a.proto = a.sh.alpn
    BY <1>4, <1>7 DEF ClientHash
  <2>2. b.sh.npn = <<>> => b.proto = b.sh.alpn
    BY <1>4, <1>8 DEF ServerHash
  <2>. QED
    BY <1>6, <1>7, <1>9, <2>1, <2>2
<1>13. a.in = Keys(a, "s2c") /\ b.in = Keys(b, "c2s")
  BY <1>3, <1>4 DEF ClientPlace, ServerPlace
<1>14. Keys(a, "s2c") = Keys(b, "s2c") /\ Keys(a, "c2s") = Keys(b, "c2s") /\ Keys(a, "s2c") # Keys(a, "c2s")
  BY <1>9, <1>10, KeysDiffer DEF Keys
<1>. QED
  BY <1>7, <1>8, <1>9, <1>10, <1>11, <1>12, <1>13, <1>14

\* Both ends are well formed in every reachable state, and once both handshake
\* functions have returned they agree on the version, the suite, the master
\* secret, the kind of handshake, the protocol, all messages and the keys
\* (clientHandshake, serverHandshake, readFinished, sendFinished).
THEOREM HandshakeHolds == Spec => []HandshakeInv
<1>1. Inv => HandshakeInv
  BY TypeHolds, AgreementHolds DEF HandshakeInv
<1>. QED
  BY <1>1, InvAlways, PTL

\* The client returns only when the server saw the ClientHello that it sent and
\* it saw the ServerHello that the server sent, and both have one master secret:
\* what readFinished of the client compares covers all of it.
THEOREM FinishedProtectsAlways == Spec => []FinishedProtects
<1>1. ASSUME Inv PROVE FinishedProtects
  <2>1. SUFFICES ASSUME NEW a, a = Client, NEW b, b = Server, Finished("client")
                 PROVE  b.hello = a.hello /\ b.sh = a.sh /\ b.master = a.master
    BY DEF FinishedProtects, Client, Server
  <2>2. PICK c, cc, chains : c = conf.server /\ cc = conf.client /\ chains = conf.server.certs
    OBVIOUS
  <2>3. /\ ServerInv(b, c) /\ ClientInv(a, cc, chains) /\ ClientReturned(a, b) /\ c.max \in Nat /\ a.pc = "end"
    BY <1>1, <2>1, <2>2, Known
  <2>4. /\ Offer(a, cc, chains) /\ ClientHash(a) /\ ClientFinished(a) /\ ClientPlace(a, cc, chains)
        /\ ServerHash(b, c) /\ ServerFinished(b)
    BY <2>3 DEF ClientInv, ServerInv
  <2>5. /\ b.finished # Nil /\ a.master = b.finished.master
        /\ a.sum[1] = b.finished.sum[1] /\ a.sum[2] = b.finished.sum[2]
    BY <2>3 DEF ClientReturned
  <2>6. a.sum # <<>>
    BY <2>3, <2>4 DEF ClientPlace, ClientFinished
  <2>7. b.finished.master = b.master
    BY <2>4, <2>5 DEF ServerFinished
  <2>8. a.hello = b.hello /\ a.sh = b.sh
    BY <2>3, <2>4, <2>5, <2>6, SameHellos
  <2>. QED
    BY <2>5, <2>7, <2>8
<1>. QED
  BY <1>1, InvAlways, PTL

\* A server returns only with the client certificates that its ClientAuth asks
\* for, in a resumption too, and a client that verifies only with the certificate
\* of this server (processCertsFromClient, checkForResumption, doFullHandshake).
THEOREM PolicyAlways == Spec => []PolicyHolds
<1>1. ASSUME Inv PROVE PolicyHolds
  <2>1. PICK a, b, c, cc, chains : /\ a = Client /\ b = Server /\ c = conf.server /\ cc = conf.client
                                   /\ chains = conf.server.certs
    OBVIOUS
  <2>2. /\ ServerInv(b, c) /\ ClientInv(a, cc, chains)
        /\ (Finished("client") <=> a.pc = "end") /\ (Finished("server") <=> Ended(b))
    BY <1>1, <2>1, Known
  <2>3. ServerPlace(b, c) /\ ClientPlace(a, cc, chains)
    BY <2>2 DEF ServerInv, ClientInv
  <2>4. Finished("server") => Policy(c, b.peer)
    BY <2>2, <2>3 DEF ServerPlace
  <2>5. Finished("client") /\ ~cc.skipVerify => a.verified /\ a.peer[1] = chains[1][1]
    BY <2>2, <2>3 DEF ClientPlace, AboutServer
  <2>. QED
    BY <2>1, <2>4, <2>5 DEF PolicyHolds, Policy, Client, Server
<1>. QED
  BY <1>1, InvAlways, PTL

\* A session in the client's cache is what its ticket holds for the server,
\* although the ticket may have been altered on its way (readSessionTicket,
\* sendSessionTicket).
THEOREM CacheMatchesAlways == Spec => []CacheMatchesTicket
<1>1. Inv => CacheMatchesTicket
  BY DEF Inv, CacheInv, TicketOf, CacheMatchesTicket
<1>. QED
  BY <1>1, InvAlways, PTL
=============================================================================
