# Verification of the PDX chain package

This directory holds TLA+ models of the programs in this repository, the TLC
configurations that check them on small instances, and TLAPS proofs of the
main results. `PROJECT.json` lists the components, runs, mutants, the line of
code behind every definition, the findings, the hazards and the theorems.

Paths below are short: `pdx-chain/` is
`src/工程化实践/pdx-chain-so/pkg/pdx-chain/`, `state/` is `pdx-chain/core/state/`,
`gmtls/` and `x509/` are below `pdx-chain/crypto/gmsm/`.

## 1. Inventory

The repository collects course work in Go. The one large program is
`工程化实践/pdx-chain-so`: the world state of a blockchain, an executor API that
lets several goroutines run transactions on it, a small interface through which
"smart objects" read and write that state, and the packages these rest on: TLS
with the Chinese GM suites and its certificates, the pairing library, RLP,
logging, a priority queue. Around it are three small programs
(`并行编程/httpserver`, `并行编程/singal`, `Error部分/sqlSearch`).

| Part | State it keeps | Operations | What is hard | What makes it correct |
|---|---|---|---|---|
| **Account locks**, `MContext` in `state/multi_statedb.go` | `lockedAccount`, `accountLock`, `txLockQueue`, `executedTxs`, `mLock`; per worker the current hash | `Prepare`, `requestAndLock` with `_checkDeadLock`, `UnLockAccounts`, `GetTxs` | goroutines between two critical sections; deadlock detection on tables that lag behind the mutexes; a panic in the middle of a transaction; entries that are never removed | an account has one user; only own mutexes are unlocked; no cycle of waiting; a panic is a real deadlock; `executedTxs` can be replayed; waiters are served |
| **StateDB**, `stateObject`, `journal` in `state/statedb.go`, `state_object.go`, `journal.go` | trie, live objects with two caches and two dirty maps each, journal with dirty counters, stack of revisions, refund, preimages | getters, setters, `CreateAccount`, `Suicide`, `AddRefund`, `AddPreimage`, `Snapshot`, `RevertToSnapshot`, `Finalise`, `Copy` | long sequences of changes and nested reverts; counters that must follow the journal; objects that are deleted, replaced or missing | a revert restores all that could be read; what changed is written; nothing dereferences nil |
| **MStateDB objects**, `getStateObject` to `Finalise` in `state/multi_statedb.go` | one StateDB per worker, `MContext.stateObjects` shared by all, `stLock`, `trieLock` | the StateDB operations, each after `requestAndLock` | two levels of object tables; a revert that knows one level only | transactions in parallel end in the state of their replay |
| **Trie and database**, `state/database.go` | (external, interface only) | `TryGet`, `TryUpdate`, `TryDelete`, `Hash`, `ContractCode` | - | - |
| **SO handler and stub**, `so/` | none of its own: a request is answered from an `MStateDB`, history from old states | get, put, put several, delete, history | error paths, the end of the ranges, keys of any length | a smart object reads what `interface.go` says |
| **TLS and GM handshake**, `gmtls/handshake_*.go`, `gm_handshake_*_double.go`, `key_agreement.go`, `ticket.go` | per end: version, suite, transcript, keys, peer certificates; the server's ticket keys; the client's session cache | the flights of both ends in two dialects, resumption, client authentication, key rotation | messages altered or lost, tickets that outlive a configuration or a restart, many combinations of configurations | both ends agree or fail; Finished catches every change; policies hold when resuming too; a handshake ends |
| **TLS connection**, `gmtls/conn.go`, `tls.go` | three locks, sequence numbers, error flags, `activeCall`, a look-ahead buffer | `Read`, `Write`, `Close`, `CloseWrite`, `Handshake`, renegotiation, `DialWithDialer` | five goroutines on one connection, a full transport, a timer against a handshake | records leave in order; no data after close_notify; Close frees everybody |
| **TLS messages**, `gmtls/handshake_messages.go` | none | `marshal`, `unmarshal` | hand-written lengths of 1, 2 and 3 bytes | what is written is what is read, and nothing else is |
| **Certificates**, `x509/` | pools with two indexes; the cache of the chain search | create and parse certificates, requests and lists, `Verify`, `ber2der` | signature algorithms by key and document; cross-signed chains with limits | what a template says is what is parsed; what is signed verifies; every chain found proves, and one is found if there is one |
| **Pairing**, `pdx-chain/crypto/bn256` | none (points are values) | group operations, pairing, encodings, in two libraries chosen at build time | unreduced numbers in one library, Montgomery form in the other, special cases of the addition, a lattice, signed digits | a group, a bilinear map, the same bytes from both libraries |
| **RLP**, `pdx-chain/rlp` | the encoder's buffer; the Stream's list stack; the cache of type infos | encode, decode, split, count | nested sizes, limits; the cache's lock | decoding inverts encoding, and accepts canonical input only (section 5 has an exception) |
| **Priority queue**, `pdx-chain/common/prque` | blocks of items, a heap; the owners' indexes | push, pop, remove, reset | block boundaries, wrapped priorities, stale indexes | pops come in order; Remove takes out the right value |
| **Logging**, `pdx-chain/log` | handler chain, swap handler, levels, patterns and the site cache; files, a byte counter | the handlers, `Vmodule`, `Verbosity`, `BacktraceAt`, `Crit`, rotation | filters that change during a call, full channels, sinks that fail, a crash in a write, a full disk, a file that cannot be opened | a record is in one place; verdicts are justified; files hold the records once, in order and whole as far as the writes were |
| **Integers, bytes, hex**, `pdx-chain/common` | none | conversions, checked arithmetic | width and overflow | inverse functions, right overflow flags |
| **Blocks**, `pdx-chain/core/types` | a header, cached hash and size | copies, accessors | unsynchronised caches | a cached value equals the computed one |
| **Servers and signals**, `并行编程` | goroutines, channels, an errgroup | start, stop | a signal before anyone listens; shutdown order | the program can be stopped, and stops for a reason only |
| **Other cryptography** (SM2, hashes, ciphers, other curves), **SQL lookup**, **parameters** | - | - | - | not modelled, see section 7 |

How they interact: a worker owns one `MStateDB`, which wraps a `StateDB` of its
own and points to the `MContext` it shares with the other workers. Every
operation on an account first calls `requestAndLock`, then works on the worker's
StateDB; `Finalise` writes to the trie all workers share; `UnLockAccounts` ends
the transaction. A stub calls the handler, the handler calls an `MStateDB`. A TLS
connection runs the handshake under its locks; the handshake encodes its messages
with `marshal`, verifies certificates with `x509` and keeps tickets over
connections. Nodes compute with one of the two pairing libraries each. The
code that creates the workers and calls `Prepare`, `Snapshot` and
`UnLockAccounts` is not in the repository, so it is modelled as a caller that
may make any call the API allows.

## 2. Modules

### AccountLock

Models `state/multi_statedb.go:33-239`: one worker is one goroutine with its
`MStateDB`.

| Variable | Code |
|---|---|
| `thash` | `stdb.thash` of the worker |
| `lockedAccount`, `txLockQueue`, `executedTxs` | the fields of `MContext` |
| `accountLock` | the `sync.Mutex` of the account: who has locked it |
| `unlocking` | the local `accountLocks` of `UnLockAccounts` |
| `pc`, `want` | where the goroutine is and which account it asked for |
| `granted`, `grantOrder`, `attempts` | history: for which accounts `requestAndLock` has returned, in which order, how often a hash was prepared |

A critical section of `mLock` is one action, because everything in it is only
read and written under that lock. What lies between two sections is where
goroutines really interleave, so these are steps of their own: blocking on the
account's mutex (`AcquireMutex`), recording the new owner afterwards
(`RecordOwner`), and every `Unlock` of the loop at the end (`UnlockNext`). The
four outcomes of `requestAndLock` are `RequestOwn`, `RequestFresh`,
`RequestContended` and `RequestPanics`. A panicking worker has not queued the
account (the code panics before that), and may only give the transaction up.

`checkDeadLock` in this module is the first pass of `_checkDeadLock`'s loop. It is
the only one: the loop's condition then compares two expressions that are equal
(finding 1). So the module the proofs are about needs no recursion.

`LockService` is what the code above the locks may rely on: an account is granted
to one worker at a time and comes back when that worker ends its transaction.
`AccountLock` implements it (`ImplementsLockService`, proved), with the holder
of an account being the worker `requestAndLock` has returned for.

### WorldState and StateDB

`WorldState` is what a caller expects: a table of accounts, a refund counter, a
set of preimages, and snapshots that are full copies. Its revert assigns the
copy.

`StateDB` is the code: `stateObjects` over a `trie`, per object `data` (the
account, with `root` the content of the storage trie), the maps `cached`,
`dirty`, `pdxCached`, `pdxDirty`, and the flags `suicided` and `deleted`; the
`journal` with one record per entry type, `dirties`, `validRevisions`. A StateDB
belongs to one goroutine, so a call is one action, except that the loop of
`journal.revert` takes one action per entry (a nil dereference can stop it in
the middle). `Set` is the common shape of the setters: get or create the object,
append the entries, change the object. `Finalise` loops over a Go map in an
arbitrary order, but a pass touches its own address only, so it is one action.
`views` is a history variable: what could be read before each journal entry. It
gives the refinement mapping of `snapshots`.

Abstractions: a root hash is the content it stands for; code and its hash are
one value; addresses are model values, and `Ripemd` says which of them, if any,
is the address `touch` treats specially. Getters that only differ in what they
return are one action, `Read`, which loads the object; `GetState` also fills the
cache. The database does not fail.

### SerialState and MStateDB

`MStateDB` models the objects under parallel execution,
`state/multi_statedb.go:420-593`. Each worker has its table `own`
(`stdb.stateObjects`), all share `shared` (`MContext.stateObjects`) and `trie`.
Objects are shared by reference, so `heap` holds the objects and the tables hold
indices: two workers may see one object, or each a different one, which is
where things can go wrong. `Loaded` is the three-level lookup of
`getStateObject`. Every operation is one action that begins with
`requestAndLock`, here `Locks!Grant` of `LockService`: an operation only touches
the objects, table entries and trie entry of its own account, so its inner steps
commute with those of the other workers. `RevertEntry` undoes one entry in the
worker's own StateDB, as `journal.revert` does. What is left to `StateDB` is
nesting of snapshots and the storage caches inside an object; `nonce` stands for
all the fields that are only assigned. `Dirty` reads the dirty addresses off the
journal, which `DirtiesExact` of `StateDB` justifies.

The caller is external. It is assumed to call `Prepare`, then operations, then
either `Finalise` and `UnLockAccounts`, or `UnLockAccounts` alone when nothing is
left in the journal. `Calls` says which kinds of calls it makes: `create` (an
account that does not exist is written), `reset` (`CreateAccount` over an existing
account), `remove` (`Suicide`, or `Finalise` with `deleteEmptyObjects`), `revert`
(of a transaction that created nothing), `uncreate` (of one that did). It says so
for each account, since a transaction may do one thing to one account and another
to the next. `Calm` are the accounts with `create` and `revert` only: of the others
parallel execution is not serial (section 5), and what is claimed of
the calm ones holds whatever is done to the others.

`SerialState` is the promise: one copy of each account, changed only by its
holder, reverted or committed as a whole, and released only when what can be
read is what is stored.

### TlsEndpoint, TlsHandshake, GmHandshake, Handshake

A handshake is a client and a server that exchange records over a transport.
`TlsEndpoint` has the state of an end, versions, suites, tickets and
certificates; `TlsHandshake` the steps of `handshake_client.go`,
`handshake_server.go` and `key_agreement.go`; `GmHandshake` the GM dialect of the
`*_double.go` files, taking from `TlsHandshake` what those files repeat word for
word; `Handshake` puts them together: connections one after the other, the
transport altering a record or breaking, `SetSessionTicketKeys`, and a restart of
either process between two connections. A step of an end reads one message and
does all the code does up to its next read. Panics of the code are states
(`panicked`). Cryptography is symbolic: a key, a digest or a signature is what it
was computed from. `MCHandshake` has the configurations: about one hundred pairs of a
client and a server, each different in what the code branches on (client
authentication, chains, suites, versions, curves, protocols, tickets, faulty
certificates, a dialect on one side only).

### GmConn

One connection and the goroutines on it: a reader, a writer, a closer, the
dialer, and the goroutine of its handshake. What happens under a lock between two
blocking operations is one step; taking a lock, waiting for the transport and
waiting for a record are steps of their own. A handshake is one exchange here
(hello, answer, finished): its contents are `Handshake`'s. The peer answers
hellos, sends data, warnings, empty records, HelloRequests (also one in two
records) and messages that are too long, and may close or stop sending. Whether
it goes on reading is a matter of fairness, see below.

Two places of the code use what `c.out` protects without holding it. `readHandshake`
sends its alert for an oversized message with `sendAlertLocked`
(`SendAlertLocked`, `NumberUnlocked`), and a handshake buffers and flushes its
flight (`Buffer`, `FlushBegins`, `Flush`). When another goroutine holds or takes `c.out`
meanwhile, `raced` is set. The model has what such a race makes of the order of
records, of their sequence numbers and of the buffer: two records with one
number, a number that is skipped, a record that is left out of a flush or cleared with
it. It has not what it makes of the bytes: `c.tmp`, the free list of blocks and the
state of the cipher, nor a re-sent stale buffer or a crash, so after a race
nothing is claimed of the wire. A renegotiation that fails leaves its alert in the buffer.

### HandshakeMessages, Rlp, CertCodec, CertVerify

Codecs and algorithms as operators, each over a small machine that produces their
inputs. `HandshakeMessages` and `Rlp` start with a sample, encode it, and then
alter, cut or extend the bytes. `Rlp` describes Go types as records; its encoder
keeps strings and list headers apart as `encbuf` does, its decoder is the Stream
with the stack of open lists, and the reference is a short recursive definition of
the encoding. `CertCodec` builds, signs, alters and parses documents; asn.1 is
external and is the structure it encodes. `CertVerify` grows two pools and
verifies leaves against them; the reference for `Verify` is the set of all chains.

### Bn256, Bn256Tower, Bn256Fast, Bn256Api

`Bn256` is the google library (integers that are reduced by products only),
`Bn256Fast` the cloudflare one (Montgomery form, lattice decomposition), both
instances of `Bn256Tower` for what they compute with the same formulas.
`Bn256Api` is a caller of either: registers of G1 and G2 with the exponent each
should hold, pairings with the operations of GT, and encodings. The primes are
those of the family for u = 1, P = 103 with groups of order 97, so all points
and all scalars can be met; the control of the code does not depend on u but for
the digits of 6u+2, which are a parameter with two different values. Raising to the
power u is the identity for u = 1, so powers of u that are swapped in the hard part of
the final exponentiation would not show, nor would a digit 1 in the middle of the loop.
As in `constants.go` the numbers are given, not computed: P, Order and the powers
of R are constants of the modules, and `FamilyAssumption` and
`MontgomeryAssumption` say how they hang together.

### Prque, LogFiles, LogDispatch, SoHandler, Shutdown

`Prque` keeps the blocks of `sstack.go` as they are, with a block size of 2, and
tells owners their index at every move; `container/heap` is external and written
out, its two loops as functions of the number of rounds (`UpRound`, `DownRound`).
`LogFiles` is the rotating handler over a directory of bytes: a write may be
cut anywhere by a crash, or be short and return an error (`WriteBytes`), and the
rotation may fail to open the next file (`OpenFails`), after which the next `Log` closes a
nil writer and panics (`LogPanics`). `torn` are the records whose `Log` returned an
error, `acked` those whose `Log` returned nil. `LogDispatch` follows a record from
the logger through `GlogHandler` (every atomic load and every critical section is a step) into
`MultiHandler(BufferedHandler(FailoverHandler), LvlFilterHandler(SyncHandler))`.
`Shutdown` has both mains. `MCServices` runs `Prque`, `LogDispatch` and `Shutdown`
side by side with `LogFiles` and `SoHandler`, one at a time: it extends those whose
properties are proved, and has instances of the others.
`SoHandler` is the handler and the stub with all their error paths over a ledger
with history, whose old blocks may be pruned; the ledger's entries are hashes of
which `BytesToHash` keeps the last bytes; two of the instance's keys share an entry.

## 3. Runs

| Run | Instance | Checks | Result |
|---|---|---|---|
| `locks_two` | 2 workers, 3 hashes, 2 accounts, fair | `UnlocksOwnMutexes`, `ReplayOrder`, `WaiterServed`, no deadlock of TLC's kind | holds |
| `locks_three` | 3 workers, 3 hashes, 3 accounts, symmetric | `MutualExclusion`, `NoMutualWait`, `PanicIsDeadlock`, `ImplementsLockService` | holds |
| `locks_cycle` | as `locks_three` | `NoDeadlock` | **violated**, finding 1 |
| `statedb_fields` | 2 addresses, one of them ripemd; balance, code, refund; 2 snapshots | `ImplementsWorldState` | holds |
| `statedb_storage` | 1 address, one key of each kind, a preimage, 2 snapshots, 2 transactions, no reset of an existing account | `MarksExact`, `Sound`, `ImplementsWorldState` | holds |
| `mstate` | 2 workers, 3 transactions, 2 accounts: one calm, the other with all calls | `Coherent`, `ImplementsSerialState`, `Isolation` | holds |
| `tls_handshake` | the configurations of `MCHandshake`, 2 connections, 1 rotation of the ticket keys, 1 fault of the transport | `HandshakeInv`, `FinishedProtects`, `PolicyHolds`, `CacheMatchesTicket`, `HandshakeEnds` | holds |
| `tls_server` | one plain TLS pair, no fault | `HandshakeHasResult` | **violated**, finding 2 |
| `tls_conn` | renegotiation never and once, 2 reads, 1 write, 2 records of the peer, a transport that holds 1 record | `WireInv`, `CloseNotifyLast`, `ReadersInSync` | holds |
| `tls_conn_ends` | the same with 1 record of the peer, fair | `CloseReleases`, `DialEnds` | holds |
| `algorithms` | samples in `MCAlgorithms` | `MessagesExact`, `RlpEncodes`, `RlpDecodes`, `ChainsExact`, `DocumentsKept`, `CertSignedVerifies`, `PairingGroups`, `PairingBilinear` | holds |
| `services` | `Services.cfg`: 4 values in blocks of 2 with words of 6; 4 records over 4 times and 3 faults; 2 goroutines that log 2 calls while the filters change once, or one while they change twice; the instances in `MCServices` | `QueueExact`, `FilesKept`, `LogsVerdicts`, `LogsRecords`, `WritesHeld`, `HistoryExact`, `CallsReturn`, `ProgramsEnd` | holds |

Several properties are conjunctions of parts with names of their own in the
modules:

- `MarksExact`: `DirtiesExact` (the counters follow the journal) and
  `ChangedIsDirty`. `Sound`: `TypeOK`, `NeverPanics`, and `DirtyIsLive` (what `Copy`
  dereferences exists). `Coherent`: `TypeOK` and `CachesCoherent`.
- `HandshakeInv`: `TypeOK` and `Agreement`. `WireInv`: `TypeOK` and `WireOrder`.
  `CloseNotifyLast`: `NothingAfterCloseNotify` (no data and no second close_notify;
  an alert or the messages of a renegotiation may follow) and `EofAfterAllData`.
  `WireOrder` and `NothingAfterCloseNotify` except a connection that has `raced`
  (section 2), `ReadersInSync` a Read that waits for the second part of a
  renegotiation's message (`RenegotiationUnread`).
- `MessagesExact`: `SizeExact` (bytes counted are bytes written), `RoundTrip`,
  `NoSlack` (a message that lost its end or has one too many is refused),
  `DecodesStable` (what is accepted can be written and read again).
- `RlpEncodes`: `EncodingExact`, `ReaderExact` (buffers of any size get the encoding
  once), `RoundTrip`. `RlpDecodes`: `StreamInBounds`, `Canonical` (bytes that decode
  are the encoding of what they decode to, but for a zero `[1]byte` within a list,
  `ZeroArrayInside`), `RawAgrees` (`raw.go` sees what the Stream sees).
- `ChainsExact`: `ChainsProve` and `SearchComplete`, soundness and completeness of
  `buildChains` with its cache. `DocumentsKept`: `TemplateKept`, `RequestNames`,
  `DerStable`.
- `PairingGroups`: `GroupLaw`, `PartsAreNatural`, `EncodingExact`.
  `PairingBilinear`: `Bilinear`, `CheckExact`, `FieldsAgree`, `DigitsImmaterial`;
  all in both libraries.
- `QueueExact`: `LayoutExact`, `IndexExact`, `RootFirst`. `FilesKept`:
  `LinesWhole` (the bytes of a record follow each other, after a newline or after
  what a failed write left), `RecordsKept` (a record whose `Log` returned nil is there,
  in order and once), `SizeBounded`, `RefusesOnlyEmpty`; all over crashes, short
  writes and failed opens.
- `LogsVerdicts`: `CacheCurrent`, `VerdictJustified` (by configurations in force
  during the call). `LogsRecords`: `OnePlace`, `StreamWhole`, `CritWritten`.
- `ProgramsEnd`: `WaitsForSignal`, `SignalEnds`, `FailureEnds`.

Bounds. Two workers are enough for mutual waiting, three for the shortest cycle
the code does not detect; three hashes on two workers make a worker run a second
transaction while `lockedAccount` still names the first. `MaxAttempts` says how
often a hash may be prepared; it is 1 in the runs, and every theorem says which
value it is about. In `locks_three` TLC's deadlock check is off, because the cycle of
`locks_cycle` is one. `MaxJournal` bounds the length of the journal when an
operation begins: one operation adds up to two entries, so with the value 2 the
journal has up to three entries of one or two accounts, which is enough for
create, change and change again, with snapshots between them. `MaxFinalise` is
2 where what one transaction leaves behind matters to the next one (objects
marked deleted, cached storage, `stateObjectsDirty`).
In `MStateDB` three transactions on two workers let a worker come back to an
account the other one has used meanwhile; `MaxObjects` and `MaxJournal` bound an
operation when it begins. The second account of `mstate` has every call, `remove`,
`reset` and `uncreate` too, in the same transactions as the calm one.
Two connections are what resumption needs; with one rotation a ticket is met
under the newest key, an older one and after a restart under none. One fault
reaches every record of every handshake. Two reads let one of them look ahead
into what the next returns; a transport of one record makes every second write
block. One alteration of a message reaches every length byte. Certificate pools
of up to two roots and three intermediates contain loops of cross-signed
authorities. Four values in blocks of two fill a second block and leave it;
six priorities wrap. Four records of two lengths and a limit of 4 rotate twice;
with three faults a short write can be followed by a failed rotation and a crash, or
by a restart that is cut in its turn. Two calls of two goroutines fill a channel
of one; where only one of them logs, two changes can come during its call, so that
it may read a level and patterns that were never in force together. The longest SO key
exceeds a hash of two bytes by one; a history of two values over three blocks is
cut, ends at a pruned block and runs past the head. Deadlock checking is off where
programs end (`tls_*`, `algorithms`, `services`).

Assumptions of the instances. One goroutine at a time logs to a rotating
handler; a restart takes longer than the unit of the file names; priorities in
one queue lie within half of the range of a word, for otherwise their order is
not one; after `Reset` nobody uses an index; certificate templates name
algorithms that fit the key (section 5).

Fairness (`FairSpec`, used by `WaiterServed`): weak fairness of a goroutine's own
steps, because the Go scheduler runs every runnable goroutine; weak fairness of
`UnLockAccounts`, because the caller ends every transaction it began, a
panicked one too; strong fairness of `AcquireMutex`, because `sync.Mutex` in
starvation mode hands the mutex to the waiter at the front. No fairness is
assumed of `Prepare` and of requests. With three workers `WaiterServed` is false
(finding 1), so it is checked with two.
In `Handshake` weak fairness of a side's steps and of closing a transport that is
no longer used: a blocked read returns when the other side closed. In `GmConn`
weak fairness of the goroutines and the timer (`SilentSpec`), which assumes nothing of
the peer, is enough for `DialEnds`, and for a Write that is stuck when `Close` begins. For the
other calls `CloseReleases` has the peer's reading in its premise (`Fairness`), since a
peer that neither reads nor closes can block `Close` for ever (section 5). In
`MCServices` weak fairness of each logging goroutine, of the goroutine of the
`BufferedHandler` with its sinks, of the end of `Vmodule` and `BacktraceAt`, and of
the goroutines of the two programs; calls, changes, signals and failures need not
happen.

Every property has a mutant in `PROJECT.json`: a plausible slip in the modelled
code, under which TLC finds that property violated. They are defined next to the
definitions they change and are used nowhere else.

## 4. Findings

1. **Cycles of three are not detected** (`locks_cycle`). The loop in
   `_checkDeadLock` sets `addr = lockingAddr` and `tx = lockedAccount[lockingAddr]`,
   and then its condition compares `tx` with `lockedAccount[addr]`: they are
   equal, so the loop ends after the first pass. The comment above the function
   has three transactions. Three workers that hold A, B and C and ask for B, C
   and A block for ever.
2. **A TLS server's handshake panics when it succeeds** (`tls_server`).
   `serverHandshake` returns nil without setting `handshakeStatus`, which the
   client and both GM functions set; `Handshake` then panics with "handshake should
   have had a result." The GM server is not affected.

## 5. Other behaviour met while modelling

The models contain these as the code has them, or keep them out of a run by a
bound or a condition that is named here. Where a statement of the repository is not
kept, the modules have it as a definition that no run checks; it is named in
brackets, with the change that lets a run violate it. Each of them was seen violated.

State and locks:
- `lockedAccount` is never cleared, and `requestAndLock` returns at once where it
  names the worker's hash: a transaction that gave up and runs again under the same
  hash gets accounts without their mutex. [`MaxAttempts = 2`, `GrantedMeansLocked`]
- `createObject` says it sets the object to dirty, but over an existing account
  `resetObjectChange.dirtied()` is nil and `setNonce(0)` only assigns. If nothing
  else changes, `Finalise` leaves the old account in the trie.
  [`ResetExisting = TRUE`, `ChangedIsDirty`]
- A reverted touch of the ripemd address leaves a dirty mark; `Finalise` finds no
  object and dereferences nil. `Copy` and `MStateDB.Finalise` check for that.
  [`Ripemd = a`, `NeverPanics`]
- A worker that has an object of an account does not see that another one has removed
  the account or created it again: its own table is asked first. [`InOrder`]
- An undone creation stays in the shared table: `createObjectChange.revert` knows the
  worker's own table only. [`Reverted`]

SO handler, against `interface.go`:
- `GET_STATE` answers nil for a key with a value and the stub dereferences it.
  [`GetStateReturns`]
- `GetState` "doesn't read data from the writeset"; it does. [`GetStateCommitted`]
- Keys that differ only in leading zeros, or before their last 32 bytes, are one key.
  [`KeysApart`]
- A history is never returned: the handler answers each one with
  `SoCallError_History_Limit_Reached`. [`HistoryReturned`] Its records have no exported
  fields, so RLP writes empty lists. A history that runs past the head dereferences a
  nil block, unless a pruned block or its size has stopped it before (`HistoryExact`).
- `PUT_STATES` acknowledges and writes nothing: its loop runs to
  `len(inputs) % 2`.

Logging:
- After a short write the next record is appended to the part of the last one, in a line
  that `prepFile` takes for a valid record. [`LinesValid`]
- The comment has a new file when the size reaches the limit; the rotation asks for more
  than the limit, so a file of exactly the limit gets one more record. [`LeftAtLimit`]
- `BacktraceAt` "raises" a record to Info, which lowers Error and Crit; with a low
  verbosity the Crit is dropped (`CritWritten` excepts that location). `Crit` ends
  the process with records still in the channel. A crash within the first record
  of a file makes the next start refuse. A rotation within one unit of the time
  stamp returns to the same file with the count at 0. After a rotation that could not
  open its file the next `Log` closes a nil writer and panics. The rotation itself is
  not synchronised. A record handed to a `BufferedHandler` is still changed by the
  next handler.

TLS:
- `readHandshake` answers an oversized message with `sendAlertLocked` without holding
  `c.out`: a Write at the same time sends a record with the same sequence number.
  [`NumbersApart`]
- A HelloRequest in two records ends the connection: Read asks for the second with
  the handshake complete, which `readRecord` takes for an internal error.
  [`CallersInSync`]
- Resumption of a GM session between ends with explicitly configured GM suites,
  the ECDHE_SM2 suites, and an RSA certificate presented to a GM client end in a
  panic (the state `panicked` of an end); TLS 1.0 and 1.1 have a nil prf.
- A `Write` during a renegotiation fails although the connection lives. A warning
  or HelloRequest that `Read` finds while it looks ahead makes it block with data
  in hand. `Close` waits for a peer that never reads, when no Write is under way.

Certificates:
- With no algorithm named, a certificate signed by an SM2 key does not verify;
  a request signed by an RSA or ECDSA key is signed over its unhashed bytes and
  does not verify either; a request with a PSS algorithm is signed with PKCS1v15.
  An SM2 algorithm with an ECDSA key, or the reverse, is accepted although
  `signingParamsForPublicKey` checks the type, and does not verify. [`KeyTypeMatches`]
  `SignedVerifies` is about the pairs in `Fits`. `CreateCertificateRequest` appends to the template's attributes, and loses `Critical`. The cache of
  `buildChains` ignores that a chain was cut by `MaxPathLen` below another parent, so
  that chains are lost: `SearchComplete` is about pools without such a limit.
  `loadSystemRoots` stops at the first readable file. `readObject` of `ber.go`
  indexes beyond a truncated input.

bn256:
- cloudflare: `Neg` of a G2 in affine form leaves t = 0, and a pairing with it is
  wrong (`StaleT` keeps it out); `Unmarshal` of G2 and GT adds to what the receiver
  holds, so it is right for new elements only, and the model decodes into such ones.
  Neither library's addition is right for `e.Add(e, e)` with one point in place
  (`SumOf` leaves out what such a call gives). google: `IsOne` takes -1 for 1,
  `Conjugate` of gfP12 returns its argument, `Unmarshal` of GT checks nothing and
  wants the exact length, where cloudflare accepts a longer one.

RLP, queue, programs:
- `decodeByteArray` ignores the error of a zero byte and does not read the next kind, so
  a following `[1]byte` gets the same byte again: a list with too few elements decodes
  into a struct with two such fields. [`ElementsMatch`] `Canonical` excepts the zero
  `[1]byte` within a list. Slices and arrays of `[1]byte` are not among the samples: of the
  bytes C1 00 the decoder of such a slice reads the zero again and again and does not
  end.
- `Reset` of the queue leaves owners with stale indexes, which `IndexExact` excepts, and
  `Remove` returns the item, not its value. In `httpserver` the branch of Shutdown
  cannot be reached.

## 6. Proofs

Eight modules hold theorems about seven components, each for every value of the
constants that the named assumptions allow. None needs a bound of a run: how many
workers, accounts, calls, connections, records or faults there are is a parameter.

Induction over numbers is proved where it is needed. The library's induction
theorems take an operator as a parameter, which the provers cannot instantiate;
`SetInduction` (in `LogFilesProofs` and `PrqueProofs`) is about a set instead: a set
that has 0 and with every number the next one has all numbers, because otherwise
adding one would map its finite beginning one to one into a smaller set
(`FS_Injection`). It gives the greatest element of a bounded set (`Greatest`), the
existence of a loop's states (`UpLoops`, `DownLoops`) and what a loop keeps.

### AccountLockProofs

Any sets of workers, hashes and accounts. The assumptions on constants are that
the sentinels are none of the proper values (`SentinelAssumption`) and
`MaxAttempts` is a positive number (`AttemptsAssumption`).

- `TypeCorrect`: `Spec => []TypeOK`, with retries too. Like `LockInv` below it is
  proved, and needs no run.
- Under `NoRetry == MaxAttempts = 1`, which a retried hash shows is needed (section 5):
  `LockInvariant` (`[]LockInv`), `Exclusion` (`[]MutualExclusion`), `UnlockSafe`
  (`[](GrantedMeansLocked /\ UnlocksOwnMutexes)`), `PairsNeverWait`
  (`[]NoMutualWait`), `PanicsJustified` (`PanicIsDeadlock`), `ReplayIsOrdered`
  (`[]ReplayOrder`) and `LocksAreService` (`Spec => ImplementsLockService`): the
  holder of an account is well defined because grants exclude each other, a
  returning `requestAndLock` maps to `Grant`, the start of `UnLockAccounts` to
  `Release`, all other steps to stuttering.

Why the invariant is as it is. Exclusion follows if a granted account's mutex is
held by the worker (`GrantedMeansLocked`). The steps that could break this are
the fast path of `requestAndLock`, which trusts `lockedAccount`, and the loop of
`UnLockAccounts`, which trusts the queue. The first needs that an account
recorded for a running transaction is held by its worker (`OwnerHolds`), and
this needs that two workers never run the same hash (`DistinctTxs`) and that a
new hash is recorded nowhere (`UnusedHash`). The second needs that the queue of a
transaction has exactly the mutexes its worker holds, each once (`QueueHeld`,
`QueueDistinct`, `HolderQueued`), except the last one while the worker waits for
it (`WaitsForLast`). `NoMutualWait` and `PanicIsDeadlock` say that the table the
deadlock check reads agrees with the mutexes where it matters: `lockedAccount[a]`
is stale only while the mutex of `a` is free, or taken and not yet recorded, and
in both cases the recorded transaction has an empty queue (`QueueOwner` and the
lemmas `ContendedHolder` and `PanicHolder`). `ReplayOrder` needs one invariant
more, `ReplayInv`: the transactions that were granted an account and have ended
are in `executedTxs` in the order of their grants, before the one that has it
now. `LockStep` has one step per action and below it one per conjunct the action
can disturb.

### StateDBProofs

Any accounts, keys, values and bounds. From the module: storage keys of the two
tries are disjoint (`KeysAssumption`), what is stored is an account
(`StoredAssumption`), and the sentinels are no values (`NoObjectAssumption`,
`ValuesAssumption`).

- `RevertRestores`: `Spec => ImplementsWorldState`, with no further assumption. A
  caller of `StateDB` cannot tell it from a table whose snapshots are full copies,
  whatever it calls in whatever order, resets of existing accounts and the Ripemd
  address included.
- `SoundUnlessRipemd` (`[]Sound`) under `NoRipemd`: nothing dereferences nil, each
  account that is marked dirty is live. Of the Ripemd address it is false
  (section 5): `touch` marks such an account for good, also when it is reverted.
- `MarksAreExact` (`[]MarksExact`) under `NoReset`: `dirties` counts exactly the
  entries of the journal, and an account that reads differently from what is
  stored is marked. A reset of an existing account marks nothing (section 5).
- `Invariance` (`[]Inv`) is what they rest on.

`Inv` says what an undo relies on. `Chain`: each entry of the journal, undone in
what callers read after it, gives what callers read before it. It relates the
journal with the history variable `views`, so it is about every suffix that a
revert may undo, not only the last entry. An undo dereferences an object, so an
account with an entry must exist from that entry on (`Touched`); undoing a
creation deletes the object and the account is then read from the trie, so it
must not be there (`Created`); `Finalise` deletes an account that committed
suicide only if it is marked (`Killed`), and an account with no entry must read as
it is stored (`Untouched`, only under `NoReset`). `Objects` ties the two caches
of an object to its dirty maps and its root (`Cached`), for the object that a
reset replaced too. `DirtiesExact` counts the entries of an account, `Revisions`
orders the snapshots.

### MStateDBProofs

Any workers, accounts and calls; `FieldsAssumption`, `NilAssumption`,
`CallsAssumption`, `BoundsAssumption` and `AbsentAssumption` say that sentinels
are no values and bounds are numbers.

- `WorkersAreIsolated`: `Spec => Isolation`, an action property, for all calls:
  what a worker reads of an account it holds is changed by no step of another
  worker, although objects are shared by reference. `TypeCorrect` is `[]TypeOK`.
- `TablesAreCoherent` (`[]Coherent`) and `TransactionsAreSerial`
  (`Spec => ImplementsSerialState`), for all calls. What they claim is about the `Calm`
  accounts: those the caller may create and change, undoing the changes, but never
  removes, creates again or un-creates. It may do all that to the other
  accounts of the same transactions, and of those both statements are false
  (section 5).

Isolation rests on `Distinct` (no object serves two accounts, counting the
references a reset will restore) and `JournalInv` (a worker journals accounts it
holds, and what its entries undo exists). `SerialInv` adds what holds of a calm
account: an entry of a worker is nil or the shared object, and the first entry
of a field has as `prev` what the trie stores, so that undoing everything gives
back what is stored. That the calls on other accounts keep it is part of the proof:
journals, heap and tables are common to all accounts.

### GmConnProofs

Every renegotiation policy, any number of calls, of records of the peer, of
window slots and of the limits in `conn.go` (`ConnAssumption`).

- `RecordsInOrder` (`[]WireInv`): a sequence number is taken and its record
  written or buffered under the same hold of `out`, so what the peer sees is 0, 1,
  2 and so on, whoever writes. Excepted is a connection that has `raced`: one on
  which the alert for an oversized message, or a flush, has used the output without
  `out` while another goroutine held or took it (section 5). While nobody else
  does, these two are in order as well, and that is proved.
- `CloseNotifyIsLast` (`[]CloseNotifyLast`): after our close_notify no data and no
  second one, with the same exception; EOF after all data, without.
- `ReadersFollowHandshake` (`[]ReadersInSync`): who calls `readRecord` wants what the
  handshake status says, so its internal errors cannot be reached, except by Read
  in the middle of a renegotiation's message (section 5).
- `ReadErrorIsPermanent`, an action property: after an error in `c.in` no
  goroutine takes a record any more.

`Inv` says of each goroutine where it may be and what it holds there (`Control`,
`MutexInv`, `OutInv`), that `Read` is past its handshake (`ReadInv`), that
`activeCall` counts the Write in flight (`ActiveInv`), that data and close_notify
are chosen under one hold of `out` (`CloseInv`), that nobody who reads has met an
error (`ErrorInv`), and that no data is lost until a record is rejected
(`StreamInv`).

### LogDispatchProofs

Any goroutines, calls, rules and sinks. `Arguments` (assumed as `LogConstants`) is
what Go's types say of them: levels are numbers, a rule set is a list, a goroutine
has a name. The theorems are about `Init` and `Next` without fairness.

- `CacheIsCurrent`: a cached level is what the patterns in force say of the site.
  `Vmodule` clears the cache and sets the patterns under one lock, and `compute`
  holds it while it evaluates and stores.
- `VerdictsAreJustified`: the five atomic loads of one `Log` call may see five
  different configurations, but each verdict is due to a level or to patterns that
  were in force during the call (`Watched` and `Decided`, by place).
- `LinesAreWhole`, `RecordsAreKept` (no accepted record is in two places or in
  none, and each sink has a goroutine's records in order) and `CritIsWritten`.
- `LogsVerdictsHold` (`[]LogsVerdicts`) and `LogsRecordsHold` (`[]LogsRecords`) put
  these together as the run checks them.

### LogFilesProofs

Any limit, lengths of records, and numbers of records, crashes and times.
`FileConstants`: these are numbers, a line has at least its newline, and there is
a longest one.

- `LinesAreWhole`, `RecordsAreKept`, `SizeIsBounded` and, with
  `RefusesOnlyEmpty`, `FilesAreKept` (`[]FilesKept`).

A process may die in any write, so a file may end in the middle of a line, and
`prepFile` cuts it there when the file is continued. A write may also be short,
and then the file goes on behind a part of a record; and a rotation may fail
to open its file, after which there is no writer until the panic and the restart.
`Inv` says why that suffices: an open file is the newest one and ends with a line,
or with what a failed write left (`Opening`), so a write never goes behind a
part of a record that is still unreported; within a file records follow each other
(`Ordered`), and those of a file come before those of every newer one (`Apart`),
because after a crash the clock has moved on before the next file gets its name.
The size needs the number of times the rotation opened the file: within one unit
of the clock it comes back to a file it left and counts from 0 (`Sized`).
`PrepareIs` says what `prepFile` computes, `CutFile` and `ExtendFile` what a cut
and a write, whole or interrupted, do to all files at once.

### PrqueProofs

Any values, size of a block and size of a word (`PrqueConstants`: the sizes are
not 0).

- `LayoutIsExact`, `IndexIsExact`, `RootIsFirst` and together `QueueIsExact`
  (`[]QueueExact`).

The order of priorities that wrap around is no order: it is one only as long as
the queued priorities are less than half the words apart, which the comment on
`item` asks for and `Close` is the guard of `Push`. `Inv` has such a window, and
inside it `Less` compares distances from its low end (`Differences`, `DecidedIs`).
The window moves with every `Push`; the heap is therefore stated with `Less`, and
the distances are used within one call only. `Sound` is what every swap keeps: the
numbers of the blocks, what is at each place, the owners' indexes (`SwapIs`,
`PushIs`, `PopIs`, with the arithmetic of blocks in `Division`, `Compose`,
`PlacesDiffer`). The loops of `container/heap` have the usual invariants (`Rising`,
`Sinking`) over lists of numbers, and end because every round brings the place
nearer to the root or further down. `heap.Remove` lets the item rise only when it
did not sink; `DownHeap` shows that this is right: either it has sunk into a heap,
or nothing has changed and only that place may have to rise.

### HandshakeProofs

Any set of configurations (`ConfigsAssumption`: what `Config` and `X509KeyPair`
guarantee, versions and `ClientAuth` are numbers and no certificate chain is
empty) and any numbers of connections, key rotations and transmission faults
(`TlsAssumption`).

- `FinishedProtectsAlways` (`[]FinishedProtects`): a client that has returned saw
  the hellos the server saw, and both have one master secret, although the
  transport may have altered, dropped or broken anything before.
- `HandshakeHolds` (`[]HandshakeInv`): when both have returned they agree on the
  version, suite, master secret, kind of handshake, protocol, messages and keys.
- `PolicyAlways` (`[]PolicyHolds`): what `ClientAuth` and `InsecureSkipVerify`
  require holds of whoever returns, in a resumption too.
- `CacheMatchesAlways` (`[]CacheMatchesTicket`): a cached session is what its
  ticket holds.

The argument is the one of the protocol. `ServerFinished` and `ClientFinished`
say what an end's Finished is over: its hellos, its certificate, its master
secret. `Proper` says that a Finished among an end's records is its own, and the
transport makes none. So an end that reads a Finished equal to the one it
computed knows what the other end had at that time (`ClientReturned`,
`ServerReturned`). Digests are symbolic and injective here: this is what the
proof says of the code, not of SM3 or SHA-256. The policies need two more facts:
the flag `verified` and the peer of an offered session are those of an earlier full
handshake with this server (`Offer`, `CacheInv`), and the server's certificate is
the third message of a full handshake (`ServerHash`), so the client's checks were
about what the server sent. `ServerPlace` and `ClientPlace` give, for every place
an end can be at, which keys it has and what its hash begins with. There is one
lemma per handler of the two dialects, and one per way in which a handler can end
(`ServerStops`, `ClientStops`, `ClientGoesOn`).

### Only model-checked

- Every liveness property (`WaiterServed`, and those of `GmConn`, `Handshake`,
  `LogDispatch` and `Shutdown`): the prover has no reasoning about fairness, nor
  about ENABLED.
- The properties of `Rlp`, `CertCodec`, `CertVerify`, the
  `Bn256` modules and `HandshakeMessages`: their loops are recursive
  operators, which take the SMT backend from the prover. `Prque` had them too; its
  loops became functions of the number of rounds, for which induction is proved.
  The codecs recurse over trees of data, for which nothing of the kind is there.
- The properties of `SoHandler`, which has no proofs yet (section 7).
- `ProgramsEnd` of `Shutdown`, most of which is liveness.

## 7. Not modelled, and the plan

Next, in order:

1. Proofs of `SoHandler`, with its history as a loop of rounds like those of
   `Prque`.
2. `Exclusion` with retries: which part of `LockInv` survives a hash that is
   prepared twice.
3. `Copy` and `deepCopy`: two StateDBs over one database.
4. The lock protocol of RLP's `typecache.go`, which leaves a nil codec behind when
   a recursive type fails.

Left out, and why:

- `gm_handshake_client.go` and `gm_handshake_server.go` are under the build tag
  `single_cert` and do not compile with the rest.
- SM2, hashes, block ciphers, bls12381, secp256k1, ecies, vrf and the vendored JWT
  library: fixed-width arithmetic and bit mixing, for which a model would be the
  same program again; test vectors are the right check. `p256.go` computes with
  limbs of 28 and 29 bits, beyond the integers of the model checker.
- The bytes of the record layer (padding, MAC), of the key schedule and of
  signatures: symbolic in `Handshake` and `GmConn`.
- `pkcs7.go`, `pkcs8.go`, PEM: containers around external ASN.1.
- Text (log formats, hex, JSON, names), terminal probes, SQL, parameters, data
  types without operations, and code that is commented out (the database cache).
- `SetDirties`, `Setjournal`, `CommitTrie` and `server.Stop` are called by nothing
  in the repository.
