# A TLA+ verification of leanp2p

leanp2p is a C++ implementation of a libp2p subset: QUIC transport, protocol
negotiation, connection management, a few protocols on top, and the gossipsub
publish/subscribe protocol. This directory holds TLA+ models of its parts, TLC
configurations that check them on small instances, and TLAPS proofs of the most
important invariants for all values of the constants. `PROJECT.json` lists
components, runs, mutants, the source lines behind each definition, the findings,
the hazards and the theorems.

Paths below are relative to the repository: `src/...` and `include/libp2p/...`.

## How the program runs, and what a step is

All components of a node share one `boost::asio::io_context` that a single thread
runs. There are no data races between them; concurrency is the interleaving of
coroutines and callbacks. What runs between two suspensions is one step:

- `coroSpawn` inside the executor runs the coroutine at once, up to its first
  suspension (`include/libp2p/coro/spawn.hpp`), so a spawned loop can even end
  before the statement after `coroSpawn`;
- `coroYield` posts the rest of a coroutine;
- the event bus calls its subscribers synchronously, inside `publish`;
- `close()` and `reset()` of the transport only mark the object; the callbacks of
  lsquic come later, from `Engine::process`;
- an exception that a coroutine lets out leaves `io_context::run`
  (`spawn.hpp:22`), and `run` can be called again.

Each action of the models is such a step, with all the calls it makes. The exception
is the C interface, whose `libp2p_context_stop` may come from another thread.

## Parts and modules

| Module | Models | State and actions |
|---|---|---|
| `BackoffHorizon` | what a topic's backoff promises | heartbeats left per peer; `Extend`, `Tick` |
| `TopicBackoff` | `TopicBackoff` of Gossip and its callers | `slots_`, `slot_`, `peers_`; lists are sets, since their order is never used; `update_backoff`, `prune_default`, `shift` |
| `GossipMesh` | the mesh of one topic | `Gossip::peers_` (`connected`), members of `Peer` and `Topic`, `mesh_active` of Score, the topic's part of the batches; one action per handler, three for the kinds of heartbeat |
| `GossipPeer` | the Peer object of a remote and sending to it | `start`, connections before and after it, `handle`; `stream_out_`, `is_connecting_`, `batch_`, the writer's position and its remaining RPCs |
| `GossipCache` | messages of a node | `history_`, `message_cache_`, duplicate cache, promises, IDONTWANT, budgets; publish, each part of `onMessage`, heartbeat, clock |
| `ScoreBook` | `Score` | statistics of peers, delivery records, caches; every operation and the decay, in integer units |
| `ConnectionManager` | table, events and stream loops, and what `BasicHost` says of a peer | `connections_`, position of each loop, state of each connection; `known` is what a subscriber of the events believes; the answers of the host are operators |
| `Listener` | `ListenerManager` and its accept loops | listed listeners, engines, accept coroutines, pending connections, and the handlers that throw when an engine is destroyed |
| `ProtocolTable`, `ProtocolRegistry` | the table of handlers and its use for inbound streams | names in order of registration; register, stream, negotiation |
| `Dialer` | dialling one peer | `DialCtx`, the waiting call, results of all calls |
| `Multiselect` | both ends of `selectOneOf` | position of each end, lines under way in each direction |
| `QuicEngine` | engine, connection and stream of the QUIC transport | contexts, readers, writers, flush queue, flag of `process`; one action per lsquic callback and per call |
| `Ping` | loop, single pings and the answering side | position of each (waiting for its stream to be negotiated is one), stream, timer, queued handlers |
| `Identify` | both sides of the exchange | offers, the stream, the message under way and when it was published, over the repositories and their garbage collection |
| `AddressRepository`, `PeerRepository` | the repositories of addresses, keys, protocols and user agents | the containers; every operation, the clock |
| `ByteQueue`, `ReadBuffer` | what a read buffer promises, and `ReadBuffer` | fragments, offsets, spare room |
| `FixedBufferCollector` | the collector of fixed size messages | buffer, capacity, expected size |
| `Varint`, `VarintReader` | both varint decoders and encoders | operators; a reader fed piece by piece |
| `Framing` | read and write loops, length prefixed messages, the echo server | what is under way in each direction |
| `Multiaddress` | multiaddress, its converters and readers | text and bytes of one address, created of text or of bytes, under encapsulate and decapsulate |
| `Formats` | bases 16, 32, 58 and 64; multihash, peer id, content identifier and its codec | operators, applied to enumerated bytes, texts and identifiers |
| `Crypto`, `Keys` | the crypto provider, its key types, validator and marshaller, ephemeral and stretched keys | operators; a generated pair and a key that was received |
| `Digests` | contexts of Sha256, Hmac and AES | context and initialisation flag; every call, any of which can fail |
| `Tls` | a host's certificate, and whom a certificate is taken for | certificates made, the one shown, the result of the handshake callback |
| `EventBus` | channels and handles of the bus | slots, handles, calls under way |
| `CInterface` | the C interface | context, hosts with their listeners and connections, streams, operations, the event loop and the ways it returns |

The `MC...` modules instantiate them for TLC; the `...Proofs` modules hold the
theorems. A proof module extends one component and instantiates those that are proved
beside it, and a bench extends the proof module of its layer, so that what TLC checks
and what is proved are the same definitions:

| Proof module | Extends | Instantiates | Bench |
|---|---|---|---|
| `GossipProofs` | `TopicBackoff` | `ScoreBook`, `GossipPeer` | `MCGossip` |
| `GossipMeshProofs` | `GossipMesh` | | `MCGossipMesh` (extends `GossipMesh`) |
| `GossipCacheProofs` | `GossipCache` | | `MCGossipCache` (extends `GossipCache`) |
| `ConnectionProofs` | `ConnectionManager` | `Listener` | `MCConnections` |
| `TransportProofs` | `Dialer` | `QuicEngine` | `MCTransport` |
| `RepositoryProofs` | `Identify` | | `MCStreams`, through `StreamProofs` |
| `StreamProofs` | `Multiselect` | `Ping`, `ProtocolRegistry`, `RepositoryProofs` | `MCStreams` |
| `InterfaceProofs` | `EventBus` | `CInterface` | `MCBasic` |

Definitions named `Faulty_...` are mutations of a definition after
them: `PROJECT.json` pairs each property with one that violates it.

### How the modules fit together

- `TopicBackoff` implements `BackoffHorizon`, and `GossipMesh` keeps its backoffs as
  such a countdown, so the mesh is checked without the ring. `ReadBuffer` implements
  `ByteQueue`.
- `GossipMesh` abstracts the sending of a batch to `TakeBatch`, which `GossipPeer`
  models in detail, and takes scores as integers that change on their own, which
  `ScoreBook` computes. `GossipCache` takes the mesh as fixed.
- The answers of the host are checked in all states of the table of
  `ConnectionManager`, which abstracts a negotiation to one step that ends when
  `selectOneOf` does; `Multiselect` is that step. Its transport events are the
  callbacks of `QuicEngine`, its inbound connections come from the accept loop of
  `Listener`. `Dialer` sees only whether there is a connection.
- `Identify` extends `PeerRepository`, which extends `AddressRepository`.
- `VarintReader`, `Framing`, `Multiaddress` and `Formats` use `Varint`; `Keys` and `Tls`
  extend `Crypto`; the C interface and the registry share `ProtocolTable`.

### Abstractions

- Gossip: a score of the mesh is a small integer. `mesh_active` is what Score keeps
  for a topic with score parameters. `Medians` lets the opportunistic graft read any
  score where the code reads past the end of its vector. One topic is modelled, since
  topics share only scores and batches. A message is a model value. Decay is halving
  of integers with a threshold of one.
- Negotiation: a line is one message. Transport: lsquic is its callbacks; a stream's
  bytes are a flag. Datagrams are not modelled.
- Bytes: digits of varints have 1, 2 or 7 bits, numbers the width of a constant, and
  shifts and sums wrap at it. Addresses are sequences of tokens; where code compares
  characters, tokens are characters. Bases, hashes and identifiers work on real bytes
  with shorter digests and limits. Received addresses are bytes too (`Received`): with
  numbers in more bytes than they take, with empty values, cut or unknown.
- The marshalled key is bytes in protobuf's wire format, with one byte lengths; the
  reader takes fields in any order, repeated, unknown or as longer numbers, but no
  groups. A peer id is the bytes of the key as they came.
- C interface: an application may destroy a host whenever it has the thread. Whether
  sockets outlive the wrapper depends on who else holds the `BasicHost`, and is a
  choice. Calls with a freed pointer are not made.
- Cryptography: the libraries are marked external. A key is bytes of its type's shape,
  a public key and a signature are injective functions of it, and a digest is a
  sequence around its message. What is modelled is the code around them: sizes,
  copies, tags, orders of checks, error paths. Where the code would read beyond
  the bytes it was given, the result is `Undefined`, and a property says where that
  can not happen.
- Undefined behaviour is a choice of outcomes, or a flag `crashed`, and a property
  speaks of it.

## Runs

Parts that share no state are checked side by side: a bench has a variable `part`
that is chosen initially and says which instance moves, so one run asks one
question of a layer. The header of the `MC...` module describes its parts.

| Run | Parts and instances | Checks |
|---|---|---|
| `mesh` | `kinds`: 2 peers of all protocol versions, scores -2..1; `trim`: 3 peers, mesh size 1 | `MeshSound`: members of the mesh are announced gossipsub peers, score counts exactly these, and in a subscribed topic none has a backoff beyond the slack; `NoGraftInBackoff`; `TrimRepairs` |
| `gossip` | `backoff`: 2 peers, ring of 4 slots, all words of an 18-valued type; `score`: a peer and a message; `peer`: 2 connections, made before or after `start`, 3 messages, failing streams | `BackoffSound`, the refinement `CountsDown`; `ScoreSound`, `NoGainByLeaving`; `PeerSound`; the liveness `NothingKept` |
| `gossip_cache` | `relay`: a mesh peer and another; `ask`: more announcements than may be asked for; `settle`: a local and a remote message, with fairness | `CacheSound`, `HeartbeatKeeps`, `DeliveredOnce`, and the liveness `PromisesKept` |
| `connections` | `host`: 2 peers, 3 connections, two of them to one peer; `listener`: 2 listeners, 3 addresses | `TableSound`, `ConnectedIsTrue`, `ListenersSound`, and the liveness `ConnectionsHandled` |
| `transport` | `dialer`: 3 calls, 3 addresses, one not supported; `engine`: 2 streams of which one may be open; `fairEngine`: one stream; `keys`: pairs of four types and a received key, cut, lengthened or mistyped; `digests`: 3 contexts; `tls`: 3 hosts, certificates with up to 2 extensions, keys re-encoded or altered | `DialSound`, `TriedOnce`, `GivesUpLast`, `EngineSound`, `KeysSound`, `PeersProven`, and the liveness `CallsReturn` |
| `streams` | `negotiation`, `steady`: lists of up to 3 proposals; `registry`: 3 handlers with overlapping names; `ping`: the loop and a caller; `addresses`, `store`: a peer with 2 addresses, a clock of 5 bits; `identify`: 2 connections of a peer, with repositories of their own | `NegotiationSound`, `HandlersServe`, `PingSound`, `StoredWhole`, `AddressesKept`, and the liveness `EndsReturn`, `PingGoes` |
| `basic` | `buffer`, `collector`, `varint`, `framing`, `forever`, `address`, `formats`, `bus`, `calls`, `stop` | `VarintsAgree`, `BytesKept`, `ReturnsStretch`, the refinement `QueueSpec`; `AddressesAgree`; `FormatsAgree`; `CalledOnce`; `LiveHandles`; the liveness `AllReturn` |

A property named for a layer is the conjunction of what its modules state one by one;
the comment above each says what it means for the code.

Five runs check what a comment of the repository says and find that the code does
otherwise:

- `accept_loop`: a listener "will react to every new connection". The accept loop
  ends with the first error: one failed inbound handshake, or a `listen` inside the
  executor, which finds no engine yet.
- `quic_flush`: `Engine::process` checks for a stream that is gone, through the very
  pointer that `on_close` has reset.
- `propose_all`: the initiator "proposes protocols in order until accepted or list is
  exhausted". After the first "na" it writes the next proposal and then compares the
  "na" with it, and returns PROTOCOL_VIOLATION.
- `announce`: `subscribe` is to "create Topic, announce to peers, and seed mesh". For a
  topic that is new to the node no peer with an open stream is told.
- `c_stop_early`: `libp2p_context_stop` causes "libp2p_context_run() to return". A stop
  that comes just before `run` sets its flag is lost.

### Bounds and why they are enough

`MaxSlot` lets the ring of `TopicBackoff` turn nearly three times, so that every list is
reused; `WordLimit` is small and even, so every value a PRUNE can carry, the negative
ones included, is tried. A mesh that wants one peer out of two or three can be too
small, too large and short of outbound peers; the scores lie on both sides of every
threshold. Two connections and three messages let a message be written, lost and queued
around one change of stream. The caches of gossip live one to three ticks, so that each
can forget a message before and after each other one; budgets are zero to two. Two
connections to one peer are what the events of an old and a new connection need to
cross; a third, to another peer, shows that peers do not disturb each other;
`MaxStreams` is 1 since the loop handles one stream at a time. Three calls are a
dialling call, one that adds addresses, and one that comes after. Lists of three
proposals have a first, a middle and a last one. One stream is enough for the waiters of
the engine, two for its queue. The clock of the repositories (`MaxTime`, as wide as a
power of two) jumps over the times to live and stops before its end, and the permanent
time to live overflows it as in the code. Fragments, sizes and numbers lie around each
threshold: below, at and above it. Texts of addresses are one of each kind of protocol,
well formed and not; an address is changed twice (`MaxChanges`), so that a part can be
added behind another and one taken from the middle. Bytes of formats are 0, 1, the flag
of a varint, the largest byte and the numbers of codes, up to the length where the
estimate of base 58 is exact. Keys have two bytes, and raw keys are cut or lengthened by
one.

The symmetry of `mesh` is sound: peers are only told apart by their state, and the run
checks no liveness. Deadlock is allowed where the bounded system stops: all
connections closed, all calls returned, the negotiation over, the clock at its end.

### Fairness

Fairness is assumed only for what the executor or the transport guarantees:

- posted handlers run: `Accept`, `AcceptStream`, `WriterResumes`, `process`, the steps of
  both ends of a negotiation, the accept coroutines, the steps of pings (a stream of
  which is negotiated if the remote answers or the connection ends: `PingGoes` promises
  nothing to a ping whose remote is silent in the negotiation);
- time passes: timers expire, heartbeats and decays come;
- a connection asked to close is closed by lsquic, and its waiters get an error:
  `onClose` while closing, `AcceptStreamFails`, `StreamError`; the callbacks of a stream
  or connection that lsquic owes come (strongly fair, since `process` is over and comes
  again in between); the end of a connection is reported to Gossip;
- a negotiation of the stream loop ends if its connection is closed; on an open one it
  may wait for ever, since `selectOneOf` has no timeout;
- a dial attempt ends, at the latest by the handshake timeout of the transport;
- `StreamOpened \/ StreamFailed` and `WriteDone \/ WriteFailed` in `GossipPeer` assume a
  remote that answers or a connection that fails; `EndsReturn` that both ends run;
  `forever` that the connection works; `stop` that the event loop runs. These are
  assumptions about the environment, stronger than the code alone.

No fairness is assumed for what users or remotes do: calls, messages, new
connections, failures.

## Proofs

Every theorem holds for all values of the constants that satisfy the named
assumptions; TLC evaluates the assumptions in the benches. Each theorem follows from an
inductive invariant: one lemma shows that it holds initially, one that every step
keeps it, with one case per action. Where a checked property is not inductive, this is
what had to be added.

`GossipProofs`:

- `TopicBackoff` (the configuration is natural, the interval positive, the number of
  words even, and the longest backoff fits a signed word). `IInv` is the type, lists
  matching the index, and all backoffs within one turn. None is inductive alone:
  `shift` empties a list, which removes the right peers only because two slot numbers
  within one turn that fall on the same list are equal (`SameSlot`). Theorems:
  `TypeCorrect`, `ListsAgree`, `NeverOverdue`, together `AlwaysSound`, and `Refines`, the
  refinement of `BackoffHorizon`.
- `ScoreBook` (`ScoreAssumption`: caps, thresholds and times are natural, the weights of
  penalties are not positive, and a failure in the mesh weighs no less than a deficit).
  `SInv` is `BookInv`, that a peer is connected exactly if its statistics do not expire
  and that the retained ones are out of the mesh; `RecordInv`, that a credited peer is
  in the record of the message; and `LeftInv`, that the score of an absent peer is not
  above the one it left with, and its statistics are there until `retain_score` unless
  that was positive. `LeavingCosts` and `DecayOK` follow each term of the score.
  Theorems: `ScoreAlwaysSound`, `LeavingNeverPays`. A credit is counted per delivery
  record: when the record of a message has expired, a duplicate can be credited anew.
- `GossipPeer` (`MaxMessages` natural). `PeerInv` adds `InOrder`: the messages written, in
  the writer's hands and in the batch are in order within and across these places,
  and all were published. Theorem: `PeerAlwaysSound`.

`GossipMeshProofs` (finite peers, natural mesh parameters, integer scores and
thresholds, 0 among the scores, slack not above the prune backoff; no relation between
the mesh bounds is needed). `IInv` is the four parts of `MeshSound`; they need each other
because a disconnect removes only announced topics and a fanout mesh has no score. One
lemma per stage of the heartbeat says whom it can add. Theorems: `TypeCorrect`,
`MeshPeersAnnounced`, `ScoreAgrees`, `BackoffRespected`, together `AlwaysSound`, and
`GraftRespectsBackoff`.

`GossipCacheProofs` (`CacheAssumption`: finitely many messages and peers, natural
lifetimes and budgets, less history announced than kept, and a duplicate cache that
outlives the history). `IInv` adds that what is in the history is known
(`HistoryKnown`) and there once (`HistoryOnce`), that answers and requests are counted
(`ServedCounted`, `AskedCounted`), that a message received is in the duplicate cache for
its time (`ReceivedKnown`), and that the time since a publish is what the topic counts
(`PublishCounted`). Theorems: `AlwaysSound`; `KeepsWhatItNeeds`, in which the part about
a topic that is only published to (`KeepsFanout`) speaks of signed messages without
`flood_publish`; and `NeverTwice`.

`ConnectionProofs`:

- `ConnectionManager` (every connection has a peer). `IInv` adds `FreshUntouched` to the
  checked invariants: a connection has a loop exactly if it was established, and no
  closed event before it was accepted; without it a new connection could be one that
  was announced closed. Theorems: `TypeCorrect`, `EventsMatchTable`, `OneClosedEvent`,
  `NoConnectionLost`, and `TableAgrees` for `TableSound` as a whole.
- The host's answer needs two more facts (`HInv`): a listed connection is closed, or open
  with a running loop, because `closeConnectionsToPeer` forgets what it asks to close in
  the same step; and a connection that waits to be accepted was not asked to close.
  Theorem: `HostTellsTruth`.
- `Listener` (`ListenerAssumption`: the supported addresses are addresses). `LInv` adds
  that a listener that was not created has no engine. Theorem: `ListenersAlwaysSound`.

`TransportProofs`:

- `Dialer` (the supported addresses are addresses, the bounds are natural, and the
  values for no call and no context are neither). `IInv` adds `NothingForgotten`: a
  supported address offered to the context is queued or was tried. `DialledOnce` rests
  on `TriesBounded`, which counts an address in the queue and among those tried
  together. Theorems: `TypeCorrect`, `OneOwner`, `NoInconsistency`, together
  `AlwaysSound`; `AllTried`; `DialledOnce`.
- `QuicEngine`. `EInv` adds that the callback of connect is held exactly during the
  handshake (`EConnInv`), and that the flag of a held stream says that it is queued
  (`EFlushInv`). Theorem: `EngineAlwaysSound`.

`StreamProofs`:

- `Multiselect` (`LinesDistinct`: the two lines of multistream are no protocols). `IInv`
  says for each pair of positions of the ends what is under way between them. Theorem:
  `AlwaysSound`.
- `Ping`. `PInv` adds that a coroutine that opens a stream holds none. Theorem:
  `PingAlwaysSound`.
- `ProtocolRegistry` (`RegistryAssumption`: handlers register sets of names). `RInv`
  adds that the table holds, for each name, the first handler that registered it.
  Theorem: `HandlersAlwaysServe`.
- `AddressesAlwaysKept` and `StoredAlwaysWhole` apply the theorems of `RepositoryProofs` to
  both instances of the repositories: those used on their own and those Identify fills.

`RepositoryProofs` (`RepositoryAssumption`: the clock counts to a power of two less one
and stops before, a time to live is permanent or fits it; `IdentifyAssumption`: every
connection has a peer):

- `AddressRepository`. `AInv` says of each entry that its list holds each address of its
  table once, of the listener that it believes in exactly these, and of each time to
  live that the entry's expiry time is not before its end, or is the end of the clock.
  `eraseOrder` is recursive over the list; what it returns is shown by the least
  position for which it would not hold (`LeastNat`). Theorem: `AddressesAlwaysKept`.
- `PeerRepository` and `Identify`. `OInv` and `IdInv` say that the protocols of a peer
  are those told and not removed, and that a user agent expires no sooner than told.
  `IdInv` adds what was published when (`Heard`): a peer's protocols are the union of
  those of its published messages (`Whole`), its addresses come from them (`Come`), its
  agent is that of the last (`Last`), and the times to live of their addresses and agent
  are not over before those of the messages (`Due`). Theorems: `StoreAlwaysKept`,
  `IdentifyAlwaysWhole`.

`InterfaceProofs`:

- `EventBus`. `BInv` is `SlotInv` (handles and slots belong together, one to one), `DueInv`
  (each publish has the slots of its moment), `CallInv` (a publish in progress has called
  what is no longer to do and still connected, and nothing that is to do, and nested
  publishes are of different events) and `Told`. Theorem: `AlwaysCalledOnce`.
- `CInterface`. A host may be destroyed while something of it is left for the loop to go
  on with; `LiveHandles` says that these hosts (`early`) are the only freed ones a
  callback can get. `CInv` adds that a freed host outside `early` has no operation, no
  listener and no connection left, or the loop is stopped for good (`AtRest`); a stopped
  loop stays stopped, since `run` does not restart the context. Theorem:
  `HandlesAlwaysLive`.

Only model-checked:

- all liveness properties (`NothingKept`, `PromisesKept`, `ConnectionsHandled`,
  `CallsReturn`, `EndsReturn`, `PingGoes`, `AllReturn`), since fairness and ENABLED are
  beyond TLAPS;
- `TrimRepairs`, which needs cardinalities of chosen sets;
- `VarintsAgree`, `BytesKept`, `AddressesAgree`, `FormatsAgree`, `KeysSound` and
  `PeersProven`: what a definition that is recursive over its input computes for every
  input takes an induction the installed provers do not do;
- `QueueSpec` and `ReturnsStretch`, which concatenate fragments.

## Further disagreements with comments and documentation

Met while modelling, and not among the runs; the models follow the code.

Gossip:

- If the stream's connection dies while another one to the peer lives, no outbound
  stream is opened again (`gossip.cpp:378`, "open outbound streams on new
  connections"). A batch queued before the stream opens waits if the node has no
  topic then (`gossip.cpp:409`).
- A message for a topic dropped since does not settle its promise, and the peer that
  delivered it is penalised (`gossip.cpp:681`). The entries of a dropped publish only
  topic stay in `message_cache_` (`gossip.cpp:1117`). With `flood_publish` such a topic
  lives until the next heartbeat, not for `fanout_ttl` (`gossip.cpp:871`).
- Peers that sent IDONTWANT are sent the message all the same (`gossip.cpp:855`), and the
  peers that promised a message are forgotten before they would be told
  (`gossip.cpp:838`). All anonymous messages have one id (`gossip.cpp:70`).
- `as_secs_f64` makes the default quantum 0, so a fresh mesh peer's score is NaN and
  below no threshold (`score.hpp:103`).

Network, transport and host:

- A connection that closed while it waited in `conn_signal_` is listed after its stream
  loop has ended, and `PeerDisconnected`, "fired when all connections to peer closed",
  is not fired for it (`listener_manager.cpp:285`).
- `removeListener` keeps the accept loop of a listener that `stop` no longer reaches
  (`listener_manager.cpp:94`); `closeListener` erases `end()` where it found an entry
  (`listener_manager.cpp:78`); the fallback of `getProtocol` asks no predicate
  (`listener_manager.cpp:308`).
- Closing or stopping a listener destroys the channel its accept loop waits in: the
  handlers of `async_receive` and of `async_send` get an error and throw it out of
  `io_context::run` (`channel.hpp:18`, `channel.hpp:27`, `spawn.hpp:24`).
- A stream that lsquic opens later than asked is handled as a remote one
  (`engine.cpp:306`).
- `connectedness` never returns NOT_CONNECTED (`basic_host.cpp:144`), and CAN_CONNECT
  counts addresses of the repository that `Dialer::dial` does not look at
  (`dialer.cpp:57`).
- `clear(p)` of the key repository drops this node's own key pairs
  (`inmem_key_repository.cpp:23`); `recv_identify` never removes protocols
  (`identify.cpp:116`); a queued timer of a ping that was answered resets the stream of
  the next one (`ping.cpp:133`), and the "Timeout for the ping operation"
  (`ping.hpp:75`) does not cover the negotiation of its stream (`ping.cpp:78`,
  `ping.cpp:99`), which has none.
- The id of a peer is made of the key's bytes as the extension holds them
  (`tls_details.cpp:416`), and protobuf reads a key in several spellings, so one key can
  have several ids; none of them is that of another key.

Formats:

- An incomplete prefix gives the stream's error, not DECODE_SIZE
  (`read_varint.hpp:53`).
- The assertion of `Multiaddress::create` (`multiaddress.cpp:66`) fails for `/unix/...`
  and for DNS names with other characters than letters, digits, `-` and `.`; what
  `splitFirst` says of its parts (`multiaddress.cpp:133`, "guaranteed to be valid") is
  not so for a protocol without a value, nor for received bytes with an empty value,
  whose text `create` refuses; received numbers are kept in the bytes they came in, so
  equal texts can have different bytes; `getValuesForProtocol` takes any value that
  begins with `ipfs` for the legacy name of `p2p` (`multiaddress.cpp:186`);
  `decapsulate` finds a protocol inside a longer word.
- The decoders of base 58 and 64 read to the terminator of `string.data()`, not to the
  view's size (`base58.cpp:177`, `base64.cpp:82`); the models read whole strings.
- Base 16 in lower case rejects a text without letters and accepts mixed case. The id
  of a peer whose key has 41 or 42 bytes can not be read back. `encodeCIDV1` keeps 8
  bits of the content type. An empty multihash can be made and not read.
- RSA keys of 1024 bits are generated and not valid; ECDSA keys are not validated;
  `verify` of Ed25519 expects 64 bytes of signature. `cryptoProvider` of TLS
  has no provider for RSA and ECDSA identities (`tls_details.cpp:22`), so such hosts make
  no certificate. An Hmac of an unsupported type works, as SHA512,
  after `reset`.

Bus and C interface:

- An exception of a subscriber leaves `publish` (`bus.hpp:38`; "catch and drop").
- `libp2p_c.cpp`: a failed dial reports the requested id (385); without a seed every
  host has the same identity (186); registering a protocol again keeps the first
  handler (264); `is_closed` is always false (350); `close` keeps the wrapper (335); the
  string of a listening address is shared by all hosts (544); a host destroyed while
  something of it is pending leaves raw pointers to it (97, 385, 416).

## Not modelled

- `ConnectionManager::collectGarbage` and `isNewDnsAddr`, which nothing calls; the
  resolving of DNS names.
- The read loop of Gossip's `handle`, which passes messages to `onMessage`; what `handle`
  does first, the Peer object and its kind, is modelled. After `Host::disconnect` the
  streams of a closing connection are taken to deliver nothing more: if lsquic did let
  a negotiation end there, `handle` would make a Peer object that no event removes.
- The size limits of `splitBatch`, whose order is kept.
- Datagrams and sockets of the engine (`packets_out`), and the inside of lsquic, TLS
  and X509: I/O and libraries. The negotiated parameters are not state of the code.
- Doubles: the score is in integer units, with NaN left to the list above.
- Sha1 and Sha512, which differ from Sha256 only in the library's context and sizes;
  Keccak, which is arithmetic on 64 bit words; the generator of random numbers;
  protobuf's encoding of messages other than keys; logging and the injector.
- `CoroHandler` and the other coroutine helpers appear as the steps of the modules that
  use them.
