# Verification of krusty-kms

TLA+ models of the stateful parts of krusty-kms, TLC configurations that check
them on small instances, and TLAPS proofs of the properties that matter most
for every value of the constants. Definitions keep the names of the Rust
code, and `PROJECT.json` maps each one to the lines it stands for.

## 1. The system

krusty-kms is a Rust workspace. What a request passes through:

    peer --lines--> oracle (stdio) --> gateway --> secret resolver (external)
                                          |---> operation store, clock
                                          |---> snapshot cache
                                          '---> Starknet backend --RPC--> node (external)

    application --> client wallet / controller wallet --> wallet-api Tx --RPC--> node

| Part | Source | Here |
|---|---|---|
| Operation store: bounded, TTL-pruned table of request states | `gateway/src/operations.rs`, `types.rs`, `gateway.rs` | `OperationStore` |
| Clock: monotonic timeline anchored to the wall clock | `gateway/src/clock.rs` | `SystemClock` |
| Snapshot cache: shared, bounded, with freshness metadata | `gateway/src/snapshot.rs`, `snapshot_cache.rs` | `SnapshotCache` |
| Account deployment: check, estimate, submit, wait | `gateway/src/accounts.rs`, `backend/*.rs`, `errors.rs` | `Deploy`, `AbstractDeploy` |
| Request handlers: checks, resolver, backend, status, provenance | `gateway/src/{gateway,accounts,signing,snapshot,account_class}.rs` | `Gateway` |
| Stdio oracle: bounded line reader and serve loop | `oracle/src/*.rs` | `StdioOracle` |
| Transaction tracking: `Tx::wait`, `Tx::receipt` | `wallet-api/src/lib.rs` | `TxWait` |
| Bounded RPC transport | `wallet-api/src/rpc_transport.rs` | timeout only |
| Domain types | `domain/src/*.rs` | as `Gateway` uses them |
| Client: wallet, multisig, events, discovery, staking, contracts | `client/src/` | planned |
| Common: fee ceilings, amounts, tokens | `common/src/` | fee ceilings planned |
| Tongo SDK: confidential account and its operations | `sdk/src/` | planned |
| FFI: handle registry, marshalling | `ffi/src/` | registry planned |
| Controller wallet | `controller/src/` | planned |
| Games: mental poker, blackjack, crossy, qb-game | `crates/experimental/` | planned |
| KMS keys, signatures, hashes; curve and proofs | `kms/src/`, `crypto/src/` | not modelled |
| wasm bindings, language packages, contracts | `wasm/src/`, `packages/`, `contracts/` | not modelled |

Paths are under `src/crates/` unless they say otherwise. What is left out and
why is in section 7; every part, modelled or not, is listed in `PROJECT.json`.

## 2. Modules and how they correspond to the code

**OperationStore.** `entries` and `next_revision` are the fields of the Rust
struct. `Insert` is `OperationStore::insert` and `Get` is `OperationStore::get`,
each with the `prune` it contains, in one step because the caller holds the
write lock. `Sample` and `SampleLookup` are the calls of `now_ms()` that
precede the lock: they are separate steps, so a stale reading may be applied
after a newer one. `Prune` is a relation, since `sort_unstable` leaves the order
of equal keys open. `Drop` is a request future that is dropped at an await.
`handler` also carries the history that the properties compare with the table:
the last state, revision and stamp written.

**SystemClock.** `Lock`, `SampleWall`, `SampleInstant` and `Advance` are
`now_ms()` of one thread; the mutex is the guard of `Lock`. `StepWall` moves
the wall clock anywhere at any moment. Instants are finer than milliseconds
(`TicksPerMs`), because `as_millis()` truncates; milliseconds saturate at
`MaxMs`. `best` is a history variable: the highest line "wall sample plus elapsed
time" so far.

**SnapshotCache.** One `task` per `query_account_snapshot` in progress. Each RPC
of `fetch_snapshot` is a step (`CheckDeployed`, `Nonce`, `TokenBalance`,
`BlockMetadata`), between which the chain may grow. A key has one of the block
selectors: latest, pending (the block being filled, one above the chain) or a
pinned block. The content of a snapshot is abstracted to `low`, the height up to
which its reads show every block, `high`, the highest block they show anything
of, and the height in its metadata. `answer` is what the last step returned to
its caller. `StoreSnapshot` is the locked store with the whole eviction loop: the loop ends at the first number
of pops that is enough (`PopsEnough`). `OrderMatchesEntries` says, among other
things, that there always is one.

**Deploy.** One `task` per deploy request, all for the same account. `Prepare` is
what comes before the secret resolver, a suspension of its own (`"resolve"`), and
`OnResolve` what comes between it and the first RPC. Every RPC is two steps: the
node serves it (`Serve`, `Admit`, `Refuse`), and the handler resumes with the answer (`OnCheck`, `OnEstimate`, `OnSend`, `OnReceipt`,
`OnStatus`), which may be out of date by then. `Poll`, `NapFor`, `Wake` and
`Expire` are the loop of `wait_for_acceptance` and its `tokio::time::timeout`.
`Sequence` is the network: it executes, confirms, discards or takes back
transactions. A request (`submission`) is not a transaction (`hash`, `tx`): only
the figures of the fee estimate tell two deployments of an account apart, so two
requests may build the same transaction, and the node turns the second down as a
duplicate. `AbstractDeploy` states the promise to the caller: every
operation is queued, runs and settles once, and settles as deployed only if
the account is.

**Gateway.** Extends `OperationStore` with the request handlers. Every status
write is the store's `Record` (the sample) followed by `Write` (its
`Insert`). `Validate`, `SecretResolved`/`SecretUnavailable` and `Backend` follow
the order of checks, resolver and backend in the five handlers; a request is its
kind, whether it names the backend's chain, and what is wrong with it. The
inside of deployment and snapshot query is abstracted to their outcomes, which
are the subject of `Deploy` and `SnapshotCache`.

**StdioOracle.** `Fetch`, `TakeChunk`, `EndLine` and `EndOfInput` are
`read_line_limited` over a `BufReader` whose chunks have any size; `Dispatch` and
`Handle` are `serve`. Bytes are what the code tells apart: newline, CR, blank,
the halves of a two-byte character, and one letter per request. The reference
(`ExpectedOutput`) judges the lines of the whole input. Both use `Verdict` for
what one line gets, so `AnswersMatchLines` is about splitting, order and
exactly one response, and not about the verdict itself.

**TxWait.** `Wait` and `Receipt` start a call, `Poll`, `OnReceipt`, `OnStatus` and
`Wake` are its steps. In contrast to `Deploy`, an RPC here is ended by the HTTP
client only (`RequestTimesOut`).

`MCOperationStore`, `MCSnapshotCache`, `MCDeploy`, `MCGateway` and `MCTxWait`
hold the values of constants that a configuration cannot write down and the
symmetry sets. Definitions whose names begin with `Bug` are plausible mistakes
in the definition that follows them; replacing it by the mistake makes the
property named in `PROJECT.json` fail, which shows that the property depends on
the code.

### Time, the node and other assumptions

- In `Deploy` and `TxWait`, code between two awaits takes no time and timers
  fire when they are due (`Tick` waits for both). RPCs take any time. Deadline
  properties are therefore exact in the model and, in the program, up to the
  time the executor needs to run a ready task. The part of
  `WaitEndsByDeadline` (`Deploy`) that concerns an RPC in flight rests on this guard of
  `Tick`; the part about the poll sleep is what the code computes.
- The HTTP timeout (`RpcTimeout`, `RequestTimesOut`) is the one `create_provider` gives
  its client (`client/src/provider.rs:47`). `BoundedHttpTransport::new` alone sets
  none: an embedder that builds the transport itself must bring one, or the
  progress properties of `Deploy` and `TxWait` do not hold for it.
- The secret resolver belongs to the embedder and is awaited without a timeout
  (`gateway.rs:125`). `ResolveTime` bounds it, and `deploy_progress` assumes that it
  returns.
- The node answers truthfully about the state it is in at the moment it serves
  a request. It may fail, answer late, or never answer.
- The sequencer may take pre-confirmed results back. In `deploy_safety` this holds
  for successes and reverts (`TakenBack`), and no theorem of `DeployProofs`
  restricts it. `classify_execution` treats a pre-confirmed revert as final, and the
  tests of the repository intend that. `FinalFailureNeverLandsItself` therefore names
  the revised revert as a way in which such a transaction still lands. In
  `TxWait`, `ResultMatchesChain` depends on reverts not being revised, and its
  theorem states the condition.
- `map_deploy_starknet_error` reports `DuplicateTx` as an invalid request that is not
  retryable (`backend/deploy.rs:55`). A retry after a lost answer can meet it while
  the first submission is on its way to deploy the account. No document says what
  `retryable = false` promises about the chain. `FinalFailureNeverLandsItself` states
  what it does promise: the failing request's own submission was not taken, or
  its transaction was seen reverted.
- Fee estimation and submission are one RPC each. The Starknet library may make
  more; they fail in the same ways and only add time.
- Operation ids are 128 random bits and never repeat. A failure of the entropy
  source ends `begin_operation` before anything is recorded and is left out.

## 3. Hazards

`PROJECT.json` lists the hazards with the lines where they bite. The ones the
models are built around:

- a clock value read before a lock is awaited, and applied after it
  (`gateway.rs:97`, `:267`, `:285`; `snapshot.rs:59`);
- tables at their ceiling: which record goes (`operations.rs:47`,
  `snapshot.rs:207`);
- reads that belong together but are separate RPCs (`snapshot.rs:127`,
  `backend/starknet.rs:160`);
- answers that are lost, late or stale: a submission that went through although
  its answer did not (`backend/starknet.rs:105`), a pre-confirmed result that
  is revised (`backend/wait.rs:146`);
- deadlines that race answers, and RPCs outside any deadline
  (`backend/wait.rs:25`, `wallet-api/src/lib.rs:171`);
- futures dropped between two writes;
- bytes that arrive in chunks that cut a line anywhere (`line_reader.rs:43`).

## 4. Runs

Passing runs:

| Run | Configuration | What it shows |
|---|---|---|
| `store` | `OperationStore.cfg` | Three handlers, a poller, a table for two, stale clock readings: the table is bounded, forgets only when full, never recent work before older active work nor active before expired; a write is visible when it returns, expiry is never early, and a lookup answers the truth: a dropped request is not reported as Running after its TTL. |
| `clock` | `SystemClock.cfg` | Two threads and an arbitrary wall clock: readings never go back, never freeze and follow the highest timeline exactly. |
| `snapshot` | `SnapshotCache.cfg` | Overlapping queries, repeated, over a latest, a pending and a pinned key, room for two, while the chain grows and entries outlive their window: the metadata never claims more freshness than there is, staleness is within the clamped policy, state is never newer than the block it names; `order` and `entries` agree and a store displaces one entry at most. |
| `deploy_safety` | `Deploy.cfg` | Two deployments of one account in any overlap: claims of success are true, a final failure is never about a submission that may still land by itself, the deadline holds, a retry of a deployment that went through does not submit; `Deploy` implements `AbstractDeploy`. |
| `deploy_progress` | `DeployProgress.cfg` | Every deploy call ends even if the node never answers, provided the secret resolver returns. |
| `gateway` | `Gateway.cfg` | Each kind of request with each flaw, racing a deployment for a table of one: provenance only ever names the verified chain, what a caller is told is what is recorded, and the handlers refine `OperationStore`'s specification. |
| `stdio` | `StdioOracle.cfg` | All inputs of up to five bytes (current, outdated and unconfirmed requests, newline, CR, half characters), chunked in every way, with the confirm gate on: the responses are those of the lines, in order, and `serve` ends. |
| `tx_wait` | `TxWait.cfg` | `Tx::wait` and `Tx::receipt` with all options around the bounds: results match the chain, the overrun is at most two requests, no RPC flood, every call returns. |

Runs whose property is a sentence of the documentation that the code does not
keep (each is a finding in `PROJECT.json`, with the sentence):

| Run | Sentence | What the code does |
|---|---|---|
| `store_expiry` | "Expired tracked operations remain queryable" (`docs/oracle-stdio-v1.md:55`) | Expired entries are the first to be evicted when the table is full. The comment at `gateway/src/types.rs:59` admits the eviction; the protocol document does not. |
| `deploy_occupancy` | `MAX_WAIT_TIMEOUT_MS` is "the worst case one request can monopolize the pipe" (`gateway.rs:25`) | The deployed check, the estimate and the submission come before the wait and are not counted: three RPCs, each a quarter of the ceiling, and part of the wait already exceed it. |
| `deploy_tracking` | Slower deployments "should use `SubmitOnly` and poll `GetOperationStatus`" (`gateway.rs:27`) | Nothing updates a Submitted operation; it stays Submitted until it expires. |
| `tx_wait_deadline` | `timeout_secs` is the "Maximum wait time in seconds" (`wallet-api/src/lib.rs:59`) | An observation begun before the deadline may end up to two HTTP timeouts later. |

A smaller imprecision has no run: `docs/oracle-stdio-v1.md:34` promises a response
per "non-empty" line, while lines of blanks get none, as the comment at
`oracle/src/stdio.rs:158` says and `Expected` states.

### Bounds

- `OperationStore`: one operation more than the table holds is the least that
  evicts; `TtlMs = 1` and `MaxTime = 2` give entries that are fresh, at the limit
  and beyond it; `RevisionLimit = 6` is reached, so saturation happens.
- `SystemClock`: two ticks per millisecond make truncation visible, `MaxMs = 3`
  saturation.
- `SnapshotCache`: quantum 2, so timestamps fall on and between its multiples; a
  policy whose TTL is clamped to the server's ceiling. The clamped window is 2 and
  `MaxTime = 4`: an entry can be past it when a request meets it. Three keys and
  room for two, so a store has another entry to spare, and evicting one too many
  shows. Three requests in all (`MaxRequests`), two at a time, fill the cache and
  evict; requests for the pending and the pinned key come early only
  (`AskedUntil`). A chain that grows by one block (`MaxHeight`) tears a snapshot.
- `Deploy`: two requests and two transactions, so they build the same one or not;
  modes below, at and above what `validate_wait_mode` admits, with a poll interval
  longer than the wait. `held` counts only in the occupancy run, where the ceiling
  of 4 exceeds three HTTP timeouts.
- `Gateway`: every request against a deployment that races it for a table of
  one. `RevisionLimit = 100` is not reached.
- `StdioOracle`: a limit of two bytes and inputs of five cover lines below, at
  and over the limit, followed by another line. CR stands for blanks too, since
  `trim` removes both.
- `TxWait`: every pair of options from 0 to 5 around floors of 1 and a ceiling of 4.

Symmetry is used in safety runs only, over operations, requests, tasks or transactions that
the specifications treat alike. `CHECK_DEADLOCK FALSE` is set where the system
may stop: all requests served and the clock at its bound, the input at its end,
the call returned.

### Fairness

- `Deploy`, `TxWait`: the executor runs ready tasks, timers fire and time passes.
  Nothing is assumed of the node. In `Deploy` the secret resolver returns.
- `StdioOracle`: the peer sends or closes, and handlers return, since every
  RPC they make is bounded by the HTTP client or by a deadline.
- The other specifications are checked for safety only and have no fairness.

A dropped future, a broken pipe and anything the environment does are never
under fairness.

## 5. What is proved

The theorems hold for every value of the constants that satisfies the named
assumptions (any number of requests, threads or operations; any policy, timeout
or interval).

**OperationStoreProofs** (from `RetentionAssumption`: TTL and ceiling are
positive, as `OperationRetentionPolicy::new` enforces; and the bounds' types).
`TypeCorrect`, `StoreSafe` (`Bounded`, `ForgetsOnlyWhenFull`,
`RecentOperationsRetained`, `ExpiredOnlyAfterTtl`), `WritesAreVisible`,
`LookupsTruthful` and `ExpiredGoFirst`. The
invariant `IInv` adds to these that every sampled clock value lies in the past
(`SamplesInPast`: otherwise an early lookup could expire an entry) and that an
entry is the last write of its handler, with a revision below `next_revision` until that
saturates (`EntriesMatchWrites`: otherwise eviction in order of revision says
nothing about handlers). `PruneFacts` is the lemma everything rests on: what one
prune may remove and change. `WriteVisible` follows because a new entry has the
highest revision and age zero, hence is the last to be evicted. `LookupTruthful`
needs `SamplesInPast` as well: what expires by an old reading has expired by now.

**SystemClockProofs** (from `ClockAssumption`). `ClockAdvances` and
`ClockIsHighestLine`. The invariant says that the mutex excludes (`Exclusive`),
that the samples held under it are in order (`SamplesInOrder`), and that the
anchor lies on the highest line so far (`AnchorIsBest`). The arithmetic is in lemmas
about truncating division: truncation loses less on a sum than on its parts, and
whole milliseconds move out of it.

**DeployProofs** (from `WaitAssumption`). `TypeCorrect`, `DeployedClaimsTrue`,
`FinalFailureFinal` (`FinalFailureNeverLandsItself`, whatever the sequencer revises),
`DeadlineKept`, `RetriesNeverResubmit`, and the refinement `DeployKeepsPromise`. The invariant
`IInv` is local to each request except for `SharedInv`: where a handler is
fixes what its status, its transaction and the answer it holds can be; an answer
it holds is still true in the sense that matters (a final state stays final); a
final failure goes with a submission that was never sent or turned down, or whose
transaction was seen reverted (`Told`); and the time waited plus the
timer stays within the deadline. `SharedInv` relates requests: an answer "deployed"
and a status Completed mean that some transaction succeeded, and a request that
asked late has sent nothing. `KnownInv` says where transactions come from: one the
network knows was taken from some request, which is what leaves another request
as the only explanation after a `DuplicateTx`. `Forward` describes what a move of
the network may do to one transaction. `OneTask` reduces every action of one request to
the local part. For the refinement each action is a step of `AbstractDeploy` or a
stutter, and landing is the only step that changes `Deployed`.

**TxWaitProofs** (from `TxWaitAssumption`). `TypeCorrect`, `WaitOverrun`,
`WaitNeverFloods`, and `WaitTruthful` (if pre-confirmed reverts are not revised). The invariant keeps a time
budget per place in the code (in the second RPC one request may be left, at the
head of the loop none) and spaces the observations: between two of them lies a
full interval, or what remained of the timeout.

## 6. What is only model-checked

- Liveness (`EveryDeploySettles`, `ServeEnds`, `CallReturns`): fairness is out of
  the prover's reach.
- `StdioOracle`: its properties compare with a reference computed from the whole
  input, which needs induction over sequences.
- `SnapshotCache` and `Gateway`: not proved yet.

## 7. What is not modelled

- Keys, signatures, hashes, encryption and zero-knowledge proofs (`kms`,
  `crypto`): functions on 252- and 256-bit values without state. They are covered by
  the repository's test vectors; a bounded instance would say nothing.
- Bindings (`wasm`, most of `ffi`, `packages`): they convert arguments and results.
- Contracts: presets of OpenZeppelin contracts.
- JSON payloads, log lines and error texts.
- What section 8 plans.

## 8. Plan

In this order, each with its runs and, where it has a safety invariant, proofs:

1. `DeployedCache` and `FeeCeiling`: the client wallet (`client/src/wallet/`,
   `common/src/fee.rs`): concurrent `is_deployed` calls, deploy, and the ceiling
   between estimate and signature, with overflow.
2. `MultisigCoordination`: proposals, confirmations and execution over a
   coordinator that stores and broadcasts separately, may lag, replay and reorder;
   the on-chain multisig external; abstract specification: confirmations are
   counted once per signer.
3. `EventPagination`: budgets, repeated tokens, the deadline; `get_all_events`.
4. `TongoAccount`: the SDK's account state under fund, transfer, rollover, withdraw
   and ragequit, composed with the contract's view.
5. `HandleRegistry`, `RpcBatch`, `ControllerWallet`, `Staking`, `Discovery`: small
   modules for the hazards listed without a property.
6. The games: the phases of the card protocol, hand values against a reference
   definition, one play of qb-game.
7. Proofs: `SnapshotCache` (`OrderMatchesEntries`, `StalenessBounded`), `Gateway`
   (`ProvenanceVerified`, the refinement of the store), and the
   invariants of the modules above.
