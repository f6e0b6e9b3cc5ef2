----------------------------- MODULE CertVerify -----------------------------
(***************************************************************************)
(* Package x509 of gmsm: certificate pools (cert_pool.go), the building of *)
(* chains with its cache, validity, host names and key usages (verify.go). *)
(* A certificate is a record; a name is its sequence of labels in lower    *)
(* case, a key is a model value and a signature the key it was made with.  *)
(***************************************************************************)
EXTENDS Integers, Sequences, FiniteSets, SequencesExt

CONSTANTS
    Certs,          \* the certificates that may be added to a pool
    Leaves,         \* the certificates that are verified
    Options,        \* the VerifyOptions, without the pools
    SystemFiles,    \* the certFiles, [readable, blocks] each, blocks a sequence of PEM blocks
    SystemDirs,     \* the certDirectories, [readable, files] each
    EntrustKey,     \* the key of entrustBrokenSPKI
    MaxRoots, MaxIntermediates

VARIABLE
    st              \* [roots, intermediates]: two pools that grow

Subjects == {c.subject : c \in Certs \cup Leaves}
KeyIds == {c.ski : c \in Certs} \cup {c.aki : c \in Certs \cup Leaves} \cup {""}

-----------------------------------------------------------------------------
(* cert_pool.go *)

NewCertPool == [certs |-> <<>>, byName |-> [n \in Subjects |-> <<>>], bySubjectKeyId |-> [k \in KeyIds |-> <<>>]]

PoolContains(s, cert) ==
    \E n \in Range(s.byName[cert.subject]) : s.certs[n].raw = cert.raw

AddCert(s, cert) ==
    LET n == Len(s.certs) + 1
        withId == IF cert.ski = "" THEN s.bySubjectKeyId
                  ELSE [s.bySubjectKeyId EXCEPT ![cert.ski] = Append(@, n)]
    IN  IF PoolContains(s, cert) THEN s
        ELSE [certs |-> Append(s.certs, cert), bySubjectKeyId |-> withId,
              byName |-> [s.byName EXCEPT ![cert.subject] = Append(@, n)]]

(* AppendCertsFromPEM: a block that is no certificate or does not parse    *)
(* ({}) is skipped, and does not count.                                    *)
AppendCertsFromPEM(s, blocks) ==
    [pool |-> FoldLeft(LAMBDA p, b : IF b = {} THEN p ELSE AddCert(p, CHOOSE c \in b : TRUE), s, blocks),
     ok |-> \E i \in DOMAIN blocks : blocks[i] # {}]

Readable(f) == f.readable

(* loadSystemRoots: the first file that can be read is all, whatever it    *)
(* holds; then the first directory with a certificate. <<>> is nil.        *)
LoadSystemRoots ==
    LET files == SelectSeq(SystemFiles, Readable)
        blocks(dir) == [i \in DOMAIN dir.files |-> IF dir.files[i].readable THEN dir.files[i].blocks ELSE <<>>]
        added(dir) == AppendCertsFromPEM(NewCertPool, FlattenSeq(blocks(dir)))
        dirs == SelectSeq(SystemDirs, LAMBDA d : Readable(d) /\ added(d).ok)
    IN  IF files # <<>> THEN <<AppendCertsFromPEM(NewCertPool, files[1].blocks).pool>>
        ELSE IF dirs # <<>> THEN <<added(dirs[1]).pool>>
        ELSE <<>>

(* CheckSignatureFrom, with the verification of a signature at the end *)
CheckSignatureFrom(c, parent) ==
    /\ \/ (parent.version = 3 => parent.basicConstraintsValid) /\ (parent.basicConstraintsValid => parent.isCA)
       \/ c.key = EntrustKey
    /\ parent.keyUsage # {} => "CertSign" \in parent.keyUsage
    /\ c.signer = parent.key

(* findVerifiedParents: by the authority key id, and by name when the pool *)
(* has no certificate with that id.                                        *)
FindVerifiedParents(s, cert) ==
    LET byId == IF cert.aki = "" THEN <<>> ELSE s.bySubjectKeyId[cert.aki]
        byName == IF cert.issuer \in Subjects THEN s.byName[cert.issuer] ELSE <<>>
    IN  SelectSeq(IF byId # <<>> THEN byId ELSE byName, LAMBDA n : CheckSignatureFrom(cert, s.certs[n]))

-----------------------------------------------------------------------------
(* verify.go *)

IsSuffixOf(a, b) == Len(a) <= Len(b) /\ SubSeq(b, Len(b) - Len(a) + 1, Len(b)) = a

(* matchNameConstraint; a constraint with a leading dot wants a subdomain. *)
MatchNameConstraint(domain, constraint) ==
    \/ constraint.labels = <<>>
    \/ /\ IsSuffixOf(constraint.labels, domain)
       /\ constraint.dot => Len(domain) > Len(constraint.labels)

(* isValid: "" or the reason *)
IsValid(c, type, chain, opts) ==
    IF chain # <<>> /\ Last(chain).issuer # c.subject THEN "NameMismatch"
    ELSE IF opts.now < c.notBefore \/ opts.now > c.notAfter THEN "Expired"
    ELSE IF c.permitted # <<>> /\ \A i \in DOMAIN c.permitted : ~MatchNameConstraint(opts.dnsName, c.permitted[i])
    THEN "CANotAuthorizedForThisName"
    ELSE IF type = "intermediate" /\ ~(c.basicConstraintsValid /\ c.isCA) THEN "NotAuthorizedToSign"
    ELSE IF c.basicConstraintsValid /\ c.maxPathLen >= 0 /\ Len(chain) - 1 > c.maxPathLen THEN "TooManyIntermediates"
    ELSE ""

InChain(c, chain) == \E i \in DOMAIN chain : chain[i].raw = c.raw

(* Roots of buildChains: [chains, err] after one more possible root *)
TryRoot(acc, root, chain, opts) ==
    LET bad == IsValid(root, "root", chain, opts)
    IN  IF InChain(root, chain) THEN acc
        ELSE IF bad # "" THEN [acc EXCEPT !.err = bad]
        ELSE [acc EXCEPT !.err = "", !.chains = Append(@, Append(chain, root))]

RECURSIVE BuildChains(_, _, _, _, _)

(* Mutant: only one intermediate is ever followed. *)
TryIntermediateOnce(acc, n, chain, opts, pools) ==
    LET c == pools.intermediates.certs[n]
        bad == IsValid(c, "intermediate", chain, opts)
        r == BuildChains(c, acc.cache, Append(chain, c), opts, pools)
    IN  IF InChain(c, chain) THEN acc
        ELSE IF bad # "" THEN [acc EXCEPT !.err = bad]
        ELSE IF DOMAIN acc.cache # {} THEN [acc EXCEPT !.err = ""]
        ELSE [chains |-> acc.chains \o r.chains, err |-> r.err,
              cache |-> [m \in DOMAIN r.cache \cup {n} |-> IF m = n THEN r.chains ELSE r.cache[m]]]

(* One more possible intermediate. The cache is kept by number: what was   *)
(* found below it first, by whatever chain led there, is used again.       *)
TryIntermediate(acc, n, chain, opts, pools) ==
    LET c == pools.intermediates.certs[n]
        bad == IsValid(c, "intermediate", chain, opts)
        r == BuildChains(c, acc.cache, Append(chain, c), opts, pools)
    IN  IF InChain(c, chain) THEN acc
        ELSE IF bad # "" THEN [acc EXCEPT !.err = bad]
        ELSE IF n \in DOMAIN acc.cache THEN [acc EXCEPT !.err = "", !.chains = @ \o acc.cache[n]]
        ELSE [chains |-> acc.chains \o r.chains, err |-> r.err,
              cache |-> [m \in DOMAIN r.cache \cup {n} |-> IF m = n THEN r.chains ELSE r.cache[m]]]

(* buildChains *)
BuildChains(c, cache, chain, opts, pools) ==
    LET roots == FoldLeft(LAMBDA acc, n : TryRoot(acc, pools.roots.certs[n], chain, opts),
                          [chains |-> <<>>, err |-> ""], FindVerifiedParents(pools.roots, c))
        all == FoldLeft(LAMBDA acc, n : TryIntermediate(acc, n, chain, opts, pools),
                        [chains |-> roots.chains, err |-> roots.err, cache |-> cache],
                        FindVerifiedParents(pools.intermediates, c))
    IN  [all EXCEPT !.err = IF all.chains # <<>> THEN "" ELSE IF @ = "" THEN "UnknownAuthority" ELSE @]

(* matchHostnames: as many labels, and a first label * matches any. *)
MatchHostnames(pattern, host) ==
    /\ pattern # <<>> /\ Len(pattern) = Len(host)
    /\ \A i \in DOMAIN pattern : (i = 1 /\ pattern[i] = "*") \/ pattern[i] = host[i]

(* VerifyHostname: an address is only looked up among the addresses, and   *)
(* the common name only counts without DNS names.                          *)
VerifyHostname(c, h) ==
    IF h[1] = "ip" THEN h \in Range(c.ipAddresses)
    ELSE IF c.dnsNames # <<>> THEN \E i \in DOMAIN c.dnsNames : MatchHostnames(c.dnsNames[i], h)
    ELSE MatchHostnames(c.commonName, h)

(* checkChainForKeyUsage: from the root down, usages that a certificate    *)
(* does not support are crossed out; one must be left.                     *)
CheckChainForKeyUsage(chain, usages) ==
    LET supports(c, u) ==
            \/ c.extKeyUsage = {} \/ "Any" \in c.extKeyUsage \/ u \in c.extKeyUsage
            \/ u = "ServerAuth" /\ c.extKeyUsage \cap {"NetscapeSGC", "MicrosoftSGC"} # {}
        left == FoldLeft(LAMBDA us, c : {u \in us : supports(c, u)}, usages, Reverse(chain))
    IN  chain # <<>> /\ left # {}

(* Verify: [chains, err] *)
Verify(c, opts, pools) ==
    LET fail(e) == [chains |-> <<>>, err |-> e]
        bad == IsValid(c, "leaf", <<>>, opts)
        built == IF PoolContains(pools.roots, c) THEN [chains |-> << <<c>> >>, err |-> ""]
                 ELSE BuildChains(c, <<>>, <<c>>, opts, pools)
        usages == IF opts.keyUsages = {} THEN {"ServerAuth"} ELSE opts.keyUsages
        good == SelectSeq(built.chains, LAMBDA chain : CheckChainForKeyUsage(chain, usages))
    IN  IF c.critical # {} THEN fail("UnhandledCriticalExtension")
        ELSE IF bad # "" THEN fail(bad)
        ELSE IF opts.dnsName # <<>> /\ ~VerifyHostname(c, opts.dnsName) THEN fail("Hostname")
        ELSE IF built.err # "" THEN fail(built.err)
        ELSE IF "Any" \in usages THEN [chains |-> built.chains, err |-> ""]
        ELSE [chains |-> good, err |-> IF good = <<>> THEN "IncompatibleUsage" ELSE ""]

-----------------------------------------------------------------------------
Init == \E roots \in {NewCertPool} \cup Range(LoadSystemRoots) :
            st = [roots |-> roots, intermediates |-> NewCertPool]

AddRoot == \E c \in Certs :
    /\ Len(st.roots.certs) < MaxRoots
    /\ st' = [st EXCEPT !.roots = AddCert(@, c)]

AddIntermediate == \E c \in Certs :
    /\ Len(st.intermediates.certs) < MaxIntermediates
    /\ st' = [st EXCEPT !.intermediates = AddCert(@, c)]

Next == AddRoot \/ AddIntermediate

-----------------------------------------------------------------------------
(* A chain that proves a certificate, without the search that finds one *)
Proves(chain, c, opts) ==
    /\ chain[1] = c /\ InChain(Last(chain), st.roots.certs)
    /\ \A i, j \in DOMAIN chain : i # j => chain[i].raw # chain[j].raw
    /\ \A i \in DOMAIN chain :
          /\ chain[i].notBefore <= opts.now /\ opts.now <= chain[i].notAfter
          /\ chain[i].permitted # <<>> =>
                \E k \in DOMAIN chain[i].permitted : MatchNameConstraint(opts.dnsName, chain[i].permitted[k])
    /\ \A i \in 2..Len(chain) :
          /\ CheckSignatureFrom(chain[i - 1], chain[i]) /\ chain[i - 1].issuer = chain[i].subject
          /\ i < Len(chain) => chain[i].basicConstraintsValid /\ InChain(chain[i], st.intermediates.certs)
          /\ chain[i].basicConstraintsValid /\ chain[i].maxPathLen >= 0 => i - 2 <= chain[i].maxPathLen

(* Every chain that Verify returns proves the certificate, in whatever     *)
(* order the pools were filled, and allows one of the usages asked for in  *)
(* every certificate of it.                                                *)
ChainsProve ==
    \A c \in Leaves, opts \in Options :
        LET r == Verify(c, opts, st)
            usages == IF opts.keyUsages = {} THEN {"ServerAuth"} ELSE opts.keyUsages
        IN  /\ r.err = "" <=> r.chains # <<>>
            /\ \A i \in DOMAIN r.chains :
                  /\ Proves(r.chains[i], c, opts)
                  /\ "Any" \notin usages => \E u \in usages : \A k \in DOMAIN r.chains[i] :
                        LET x == r.chains[i][k].extKeyUsage
                        IN  \/ x = {} \/ x \cap {u, "Any"} # {}
                            \/ u = "ServerAuth" /\ x \cap {"NetscapeSGC", "MicrosoftSGC"} # {}

(* The cache loses no certificate: when no certificate limits the length   *)
(* of a path and any usage will do, a certificate that some chain proves   *)
(* is accepted, cross-signed intermediates and their cycles included.      *)
SearchComplete ==
    LET pool == {c \in Range(st.roots.certs) \cup Range(st.intermediates.certs) : TRUE}
        paths == UNION {[1..n -> pool] : n \in 0..MaxIntermediates}
    IN  \A c \in Leaves, opts \in Options :
            /\ \A x \in pool : x.maxPathLen < 0 /\ x.ski = ""
            /\ "Any" \in opts.keyUsages /\ opts.dnsName = <<>> /\ c.critical = {}
            /\ Verify(c, opts, st).err # ""
            => \A p \in paths : ~Proves(<<c>> \o p, c, opts)
=============================================================================
