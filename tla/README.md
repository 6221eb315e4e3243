# A TLA+ model of the IBC attestor

The IBC attestor (`apps/ibc-attestor`) answers gRPC requests with signed
statements about a chain it watches: *block h has time t* (state attestation),
and *under block h these paths hold these commitments, or nothing* (packet
attestation). Relayers collect such signatures from m of n attestors and submit
them to a light client on another chain, which releases, or refunds, tokens on
their word. A signature cannot be taken back. So the questions this development
asks are about time: between the check of a height, the reads of its data and
the signature there are awaits, during which the watched chain grows, finalizes
and forks, RPC nodes lag behind each other, checks of a batch overtake each
other, and the caller may leave.

Paths below are relative to `apps/ibc-attestor/src/` unless they start elsewhere.

## 1. The system

| Part | State | Operations | Talks to |
|---|---|---|---|
| Attestation service (`rpc/attestor.rs`, `lib.rs`, `error.rs`) | none between calls; a call holds its request, the results of its checks, its unsigned attestation | `latest_height`, `state_attestation`, `packet_attestation`; inside them `validate_height`, `create_packets_attestation`, three commitment handlers | adapter, signer, metrics |
| Adapters (`adapter/{evm,cosmos,solana,mod}.rs`) | configuration only | `get_last_height_at_configured_finality`, `get_block_timestamp`, `get_commitment` | RPC endpoint of the chain, through the retry helper |
| Retry helper (`adapter/retry.rs`) | an attempt counter per call | `with_retry_backoff` | adapters, metrics |
| Payload and signing (`attestation_payload.rs`, `attestation.rs`) | none | `tagged_signing_input`, `sign_attestation` | signer |
| Signers (`signer/*.rs`, `libs/ethereum/keys`) | a key, or an endpoint, a wallet id and a token file | `sign` | keystore file; remote signing service |
| Metrics and middleware (`metrics.rs`, `rpc/middleware.rs`) | counters of the process | `track_rpc`, `inc_*`, `encode_text` | scraped over HTTP |
| Servers (`rpc/server.rs`, `rpc/health.rs`, `bin/.../main.rs`) | two tasks, a broadcast channel | start, health check, signals, graceful shutdown | operating system |
| Key commands (`bin/.../main.rs`, `cli.rs`) | the keystore file | `key generate`, `key show` | file system |
| Configuration, logging, tracing | read once | | |
| Watched chain, relayer, light client | outside the repository | | |

What makes each part correct, and what is hard about it:

* **Attestation service.** Whatever is signed is true and stays true; nothing is
  signed twice with different content; a batch is all or nothing, its entries in
  request order, its error that of the first failing packet; absence of a receipt
  attested after the timeout means that the packet can never arrive; every call
  ends. Hard: interleaving of awaits with the chain and with other calls, checks
  that end in any order, one of several failing, dropped calls.
* **Adapters.** What is reported as final is final; a query speaks of the height
  it was asked about. Hard: lagging nodes, a finality offset on a short chain, a
  Solana account that can only be read *now*, height 0 on Cosmos.
* **Retry helper.** A bounded number of attempts, each exhausted query counted
  once, and nothing that must not be repeated is repeated along with a query. Hard:
  answers that arrive and are of no use, callers that leave between two attempts.
* **Signing.** A state attestation never verifies as a packet attestation; an
  accepted signature recovers to the attestor's key. Hard: a remote service that
  signs and whose answer is lost, wallet and token read per call.
* **Metrics.** The counters account for the replies, also when calls are dropped.
* **Servers.** A signal drains the calls in flight and ends the process; the exit
  status tells what happened. Hard: bind failures, a server that breaks while it
  serves, signals before the handlers exist, two tasks that fail in either order.
* **Key commands.** A key is never replaced, and half a key is never used. Hard:
  check then write, crash in between.

`PROJECT.json` lists all parts with their status, and the hazards at their lines.

## 2. The modules

    Chain                     the watched chain (external)
      Adapter                 the three adapters: what each query may answer
        Attestor              the service: calls, signers, metrics; its properties
          AttestorRefinement  the service as a Notary, and as a user of Signing
            MCAttestor        instances for TLC
      Notary                  abstract: an attestor that decides in one step
    Signing                   abstract: what a signer promises
    Payload                   the tagged message, hashing, what a verifier accepts
      RemoteSigner            the remote signer and the signing service (external)
    Retry                     the retry helper
        Outgoing              a call's queries with retries and its remote signature
          MCOutgoing          instances for TLC
    Keystore                  the keystore file and the key commands
      Lifecycle               the server processes
        MCLifecycle           instances for TLC

    AttestorProofs                what is signed is true
      RefinementProofs            the service as a Notary, and as a user of Signing
        RepliesProofs             the replies of concurrent batches
          MetricsProofs           the counters
          ProgressProofs          no call turns in circles
      HistoryProofs               signatures of different calls
    OutgoingProofs                queries with their retries, and the remote signer
    LifecycleProofs               the keystore and the server processes

**Chain.** A list of blocks, each with a time and the router's store of
commitments. `Grow` appends a block whose transaction may send a packet, clear
its commitment (acknowledged or timed out), receive a packet before its timeout,
or write an acknowledgement. `Finalize` settles a block by the chain's own rule,
`Reorg` replaces blocks above the settled ones, never more than `MaxReorg` deep.
`MaxReorg = 0` is instant finality. Sequence numbers are not reused, so a cleared
commitment (`Cleared`) reads as zero and stays so. Assumptions on packets
(`PacketAssumption`): a commitment determines destination and timeout (it is a
hash of them), and genuine packets do not share a path.

**Adapter.** For each adapter, the set of answers a query may have at this
moment; every query may also fail. An endpoint may be a pool of nodes that are up
to `NodeLag` blocks behind, and successive queries of one call may be answered by
different ones.

| Code | Definition |
|---|---|
| `EvmAdapter::get_last_height...` (`evm.rs:80-128`) | `EvmLastHeights`: the settled block, or latest minus `FinalityOffset` with `SaturatingSub` |
| `EvmAdapter::get_commitment` at a block number | `EvmReads` |
| `CosmosAdapter` (`cosmos.rs`) | `CosmosLastHeights`, `CosmosTimestamps`, `CosmosReads`; an ABCI query at height 0 means the newest block (`AbciQueryHeights`); a receipt that exists is an error (`CosmosRefuses`) |
| `SolanaAdapter` (`solana.rs`) | `SolanaLastHeights`; `SolanaReads` ignores the height asked for, as the code does |

`AdapterAssumption` names what an operator must ensure: the finality offset is at
least as deep as any reorg, and a Cosmos chain has no reorgs.

**Attestor.** Each of `Calls` makes one request. Because the service keeps no
state between calls, calls of one process and of other attestors of the same
chain look alike: two calls model two requests, two attestors, or a retry. `pc`
is the await a call is suspended at:

| Position | Suspended at | Left by |
|---|---|---|
| `idle` | not made yet | `Receive`: decoding errors are answered at once |
| `height` | `get_last_height...` in `latest_height` or `validate_height` | `LatestHeight`, `RejectHeight`, `AcceptHeight`, `AdapterFails` |
| `timestamp` | `get_block_timestamp` | `BlockTimestamp`, `AdapterFails` |
| `packets` | `futures.collect()` | `CheckPacket`, `CommitmentFails`, one per packet, in any order; the last one collects the batch in the same step (`EndCheck`) |
| `signing` | `signer.sign` | `SignLocally`, `SignRemotely`, `SignFails` |
| `signed` | the remote service has signed, its answer is under way | `SignatureArrives`, `SignFails` |
| `done`, `dropped` | | |

`Drop` ends a call at any await: tonic drops the handler's future when the caller
goes away. A local signer never suspends, so such a call cannot be dropped while
signing. `signed` is the set of attestations that carry a signature, whether or
not a caller received it. `metrics` holds the counters; `Return` is where
`track_rpc` counts the reply, so a dropped call is not counted there.

Data is abstracted to what the properties tell apart. A commitment is a model
value; a packet has a path for each commitment type, a commitment (`body`) and a
timeout; hashing and ABI are the identity of paths and values. What is dropped of
the counters: the lag histogram, the latency histogram and the finalized-height
gauge, which no control depends on. `SignLate` is a signing service that finishes a
request after its client has given up.

**Notary.** What the service promises to its callers and to verifiers, without its
awaits: an attestor that, in one step, refuses a request, or looks at the chain as
it is *now*, and signs a statement about final blocks that is true and answers the
request. `MaySpeakOf(h, v)` is the one place where adapters show: the blocks an
attestation for height h may speak of. `AttestorRefinement` maps the service to it:
`req` is what was asked, `Told` what a call has been told of (nothing until it
returns; every error is a refusal). `ImplementsNotary` is the refinement.

**Signing.** What `Signer::sign` promises, as little as the service needs: nothing
is signed that no call wanted signed, and a call that is told of success has its
signature. For the refinement a success whose bytes do not verify is an outcome of
its own, which the contract does not have. `AttestorRefinement` shows that the
service relies on no more (`UsesSigner`), `Outgoing` that the remote signer keeps it
(`ImplementsSigning`): this is how the two halves of the development fit together.

**Payload.** `AttestationPayload::tagged_signing_input`, the signature over the hash
of it, and a verifier. SHA-256 is ideal: `Sha256(x)` is a record that holds `x`, so
equal digests mean equal inputs; nothing else of a hash is used.

**Retry.** `with_retry_backoff` per query:

| State of a query | Code |
|---|---|
| `attempt` | `request()` is awaited |
| `pause` | the strategy's delay, `Backoff(k)` after attempt k |
| `answered`, `unusable` | the helper has returned `Ok`; the caller can, or cannot, use the answer (a null block, a commitment of the wrong length) |
| `failed` | three attempts failed; `inc_retry_failure` |
| `dropped` | the call's future was dropped |

The closures of all three adapters turn every error of their RPC client into
`RetrievalError`, permanent errors included, so in the model every failed attempt
is one that may be repeated.

**RemoteSigner.** `RemoteSigner::sign`: `Connect`, `ReadToken` (only if a token is
configured), `GetWallet` (which also sends the request to sign), `ReceiveAnswer`;
`SignerFails` is every error and the deadline. The request names the wallet by its
id, which does not change with its key, and nothing of the lookup is kept. The
service is external: it keeps messages in `inbox`, looks at them whenever it likes,
and signs with the key that the wallet has by then (`ServiceSigns`, `RotateKey`). It
answers in any of `Forms`; what the bytes of an answer are worth as the signature that
was asked for is `Carried`: one form carries it, the others (a byte short, an
impossible recovery id, the signature of a transaction, another kind, none) carry
nothing that verifies. The code does not verify what it returns, so that `Acceptable`,
the code's inspection of the form, is all that keeps such bytes from a relayer.

**Outgoing.** Composes the two as a call does: the query for the last height, then
those for the timestamp or the commitments, at once, each with its retries, then the
signer. What `Attestor` does in one step (an adapter operation, a signature) has
here its inner failures; what `Attestor` says of contents is left out here.

**Keystore.** The file and the commands: `Check`, `Create` (the file exists and is
empty), `Write`, with a failure possible after each, any number of operators at
once, and `ReadKey`, which `key show` and the start of a server with a local signer do.

**Lifecycle.** The server command, on top of the keystore. `main` is where the
process stands:

| Position | Code (`bin/ibc_attestor/main.rs`) | Left by |
|---|---|---|
| `off` | before `RuntimeConfig::from_file` | `StartServer` (the key is read, by the processes with a local signer, `KeyHolders`; both tasks are spawned, both receivers exist), `Misconfigured` |
| `spawned` | 88-90, no signal handler yet | `RegisterHandlers`, which may panic (155-164); a `Signal` kills the process |
| `awaiting` | `select!` in `wait_for_shutdown_signal` | `Signal`: the shutdown is broadcast |
| `draining` | 93, `grpc_handle.await` | `AwaitGrpc` |
| `joining` | 94, `health_handle.await` | `AwaitHealth` |
| `exit_ok`, `exit_err`, `panicked`, `killed` | | |

The two tasks (`grpc`, `health`) bind, serve, drain and stop, or fail to bind; the
gRPC server may also break while it serves or drains (`GrpcBreaks`: a fatal error or a
panic, `rpc/server.rs:15-17` and `73-76`), which main hears of only when it awaits that
task. `messages` are the tasks that have the broadcast before them. The end of a process
aborts its tasks and cuts off its calls (`Exit`, `cut`). The calls themselves are
tonic's: it accepts them, runs each in a task of its own, and counts them when it
drains (`CallArrives`, `CallEnds`, external). Several processes share the addresses
and the keystore, as an old and a new one do in a restart.

## 3. Properties and runs

### The service: `MCAttestor`

Bounds: two calls, three packets (one the chain sends, an altered copy of it, one
the chain may receive), one acknowledgement value (two on Solana, where forks could
disagree about it), heights up to 3, reorgs one block deep where the chain has
reorgs, nodes one block behind. They are enough for the cases that matter: two
blocks above the one attested to let the chain grow past a reorg and past a timeout
between two awaits; two calls show disagreement and mixing; three packets in a batch
(`OffsetRequests`) show order and partial failure. Calls are interchangeable, which
the safety runs use as a symmetry.

| Run | Configuration | Checks | Shows |
|---|---|---|---|
| `evm_tag` | finalized tag, lag 1, reorgs, remote signer, uneven block times | `SignedStatementsTrue` | every signature is true of a final block and stays true, also those nobody received and those made late |
| `evm_offset` | offset 1, chain starting below the offset, lag 1; batches of two and three, empty, malformed; local signer | `TypeOK`, `SignedStatementsTrue`, `TimeoutsAreSound`, `SignsWhatWasAsked`, `RepliesAreSequential`, `MetricsAccountForReplies`, `EveryFailureCountedOnce`, `ReceiptFailuresCounted`, `SignerCallsCounted`, `ImplementsNotary` | the offset is as good as the tag, down to the first blocks; a concurrent batch is indistinguishable from a sequential one that reads block h and stops at the first bad packet; the counters account for all replies, for every failed check, also of a batch that is refused for another or never answered, and for every call of a local signer; the two sentences about counters that the code departs from on Cosmos and with a remote signer hold here |
| `cosmos` | instant finality, lag 1, remote signer, fairness | `RepliesAreSequential`, `TimeoutsAreSound`, `EveryCallEnds`, `EveryStepAdvances`, `UsesSigner` | no await leaves a call without an end, and each step brings it nearer; the signer is used as its contract allows |
| `solana` | account reads at the newest finalized slot, lag 1, remote signer | `SignedStatementsTrue`, `SignaturesAgree`, `TimeoutsAreSound`, `ImplementsNotary` | reading *now* instead of at the slot asked for stays sound under the lag that is allowed |

`SignedStatementsTrue` says of a packet attestation that each entry is what a
block of `Sources(h)` holds: block h itself on EVM and on Cosmos, and on Solana a
final slot at most `NodeLag` below h, or any later one. `TimeoutsAreSound` joins
two signatures: a state attestation whose time has reached a packet's timeout and
a packet attestation of the same height that the receipt is absent; then the
packet is not, and never will be, received. On Solana this needs `NodeLag <= 1`:
a node two slots behind may still show an account as absent that was created
before the timeout, and with `NodeLag = 2` TLC finds the two signatures that
contradict each other. `SignaturesAgree` is checked on Solana, where the block read
is not the block asked for, and proved for all adapters.

### What goes out: `MCOutgoing`

`outgoing`: two attestations with one query for the height and two checks each, a
token, one data string that may be wanted as either type, two keys. Checks
`OutgoingTypeOK`, `ExhaustionCounted`, `SignaturesBindTypeAndData`,
`SignedAtMostOnce`, `ReturnedSignatureVerifies`, `NoAttestationIsStuck`,
`ImplementsSigning`, `EveryAttestationEnds` and `EveryRequestAdvances`. The last one
says that retries stay inside the helper: a query that has ended is never attempted
again, and no step of the signing is tried twice; `NoAttestationIsStuck` that what a
call waits for has been sent and is not taken away by another call that leaves.
`ReturnedSignatureVerifies` and `ImplementsSigning` fail as soon as the code takes an
answer of one more form: the r, s and v of a transaction, or a short signature filled
up with zeros. Two checks are what it takes for one to be retried while the
other has failed; three attempts and the pauses are the code's own numbers; one
string under two types is the case that domain separation is about; two keys make
one rotation, between any two steps.

### The processes: `MCLifecycle`

`process`: two operators, two processes, one with a local signer and one with a remote
one, up to two calls in flight in each. Checks `LifecycleTypeOK` (which includes that
only whole keys are ever shown or loaded), `OneKeyPerKeystore`, `KeystoreIsFinal`,
`CallsCutOnlyByFailure`, `SuccessMeansServed`, `NoShutdownIsStuck` (main never waits for
a server that the broadcast has missed), `EveryProcessAdvances` (each step brings main or
a server nearer to its end or ends a call, a server that has failed is not started
again, and one that drains takes no calls) and `SignalledProcessExits`. Two operators
are the ones that overlap, or do not; two processes collide on the addresses; two calls
make a drain that takes several steps.

`CallsCutOnlyByFailure` says by which ends of a process calls are lost: those of a
process that is killed (also by a signal before it handles signals), that panics because
it cannot register its handlers, or whose gRPC server broke after it had served, for
then `grpc_handle.await??` returns the error at once. By no other: not when the server
could not bind, when the health server failed, or whenever the signal comes after the
handlers are there.

`OneKeyPerKeystore` is stated for runs of `key generate` that do not overlap: two
that do both pass the check, both report their key as saved, and the file holds the
one that was written last. `KeystoreIsFinal` holds for those as well: once no run is
between its check and its write, what the file holds stays, a key or the half of one
that a crash left behind, which no later run repairs.

Every one of these properties fails when the code is changed as `PROJECT.json`
lists under `mutants` (the offset not applied, receipts not looked at, entries in
completion order, signing retried like a query, one tag for both types, the file not
looked for, a short answer of the signing service filled up, main not waiting for the
gRPC server and so on). Those mutated forms
stand in the modules, marked `Fault`.

### Where documents and code part

Six runs end in a counterexample, each for one sentence of the repository:

| Run | Sentence | What the code does |
|---|---|---|
| `offset_genesis` | "If there's no finalized block yet, it should return an error." (`adapter/mod.rs:145`) | with a finality offset, `saturating_sub` reports height 0 as final (`evm.rs:112`) |
| `solana_height` | "...the height at which the commitments were found" (`README.md:23` of the repository) | the height asked for is attested; the account was read later (`solana.rs:157`; known, see `docs/internal-audits/solana-attestation.md`) |
| `cosmos_height_zero` | the same | height 0 passes `validate_height` and reads the newest block (`cosmos.rs:75`) |
| `cosmos_receipt` | "Increment when a commitment validation fails." (`metrics.rs:190`) | the Cosmos adapter turns a receipt into an error that skips the counter (`cosmos.rs:164`) |
| `signer_dropped` | "Increment for each signer call." (`metrics.rs:219`) | the counter comes after the await, so a dropped call is not counted (`signer/mod.rs:77`) |
| `retry_delays` | "Initial delay: 200ms", "Backoff factor: 2x" (`README.md:98-99` of the repository) | `from_millis(200).factor(2)` of tokio-retry is 200^k * 2: 400 ms, then 2 s (`adapter/retry.rs:24`) |

None of them falsifies a statement that is signed, except in the sense of the
second and third: the height of a packet attestation is not that of the read.

Met while modelling, and left without a run because they are about text or about a
single call:

* the signing algorithm of the repository's `README.md:110-113` sends the encoded
  data to the signer; the code sends the type tag and the hash of the data
  (`attestation_payload.rs:46`);
* `README.md:103` retries "only transient retrieval failures"; the adapters turn
  permanent RPC errors into the same `RetrievalError`;
* `keystore_path` may be "file or directory" (`signer/local.rs:17`), but a directory
  that starts with `~/` is not recognised as one: `is_dir` is asked before `~` is
  expanded (`local.rs:45`, `local.rs:51`);
* `/healthz` is 200 "when the gRPC server is accepting connections"
  (`rpc/health.rs:49`); it is also when another process listens on that address;
* Solana account data must be "at least 40" bytes (`solana.rs:194`), but longer data
  is an error as well (`solana.rs:199`).

### Fairness

Safety runs use `Spec`, without fairness; the runs with a liveness property use
`FairSpec`.

* `Attestor`, `EveryCallEnds`: weak fairness of `Progress(c)` for each call, the
  disjunction of everything that may end its current await, with an answer or with
  an error.
* `Outgoing`, `EveryAttestationEnds`: the same, over the steps of queries and of
  the signer. That the retries end is not assumed but follows: three attempts.
* `Lifecycle`, `SignalledProcessExits`: weak fairness of main, of each task, and of
  the end of calls. Nothing is assumed of arrivals, signals, crashes, or of a server
  that breaks.

The code justifies it as far as it can: the runtime polls ready tasks, an RPC to the
signer has a 30 s deadline (`signer/remote.rs:74`), and a call ends by
`EveryCallEnds`. That a single RPC query to a node ends, and that connecting to the
signer does, is an assumption on the transport: the EVM client (`evm.rs:53`), for
one, has no deadline. Nothing is assumed of the chain, of the signing service, of
other calls or of callers.

## 4. Proofs

All theorems hold for every value of the constants that satisfies the assumptions
named in the modules: any number of calls, batches of any length, any reorg depth,
covering offset, lag, adapter and signer; any finite set of queries, number of keys,
processes and operators.

**`AttestorProofs`**: `TypeCorrect`, `SignedTruth` (`SignedStatementsTrue`), from the
inductive invariant `IInv` (`InvariantHolds`). `SignedStatementsTrue` alone is not
inductive: a call that is about to sign has read its data in earlier states. `IInv`
adds what is known at each position (`CallInv`): past `validate_height` the height
is final; each check that came out ok is witnessed by a final block (`Witnessed`); a
draft is a true statement, also after its call has ended (`DraftsTrue`). It also
adds `settled >= latest - MaxReorg`, which makes a height `FinalityOffset` below a
latest height final. The argument has three parts: no step of the chain removes or
changes a final block (`FinalBlocksKept`, hence `WitnessKept`, `TruthKept`);
whatever an adapter answers as last height is final, and it reads blocks an
attestation may speak of (`LastHeightsFinal`, `ReadHeightsAreSources`); and one lemma
per action (`...KeepsInv`) on top of `StepKeepsInv`.

**`RefinementProofs`**: `SignedAsAsked` (`SignsWhatWasAsked`), `ServiceUsesSigner`
(`UsesSigner`) and `ServiceImplementsNotary` (`ImplementsNotary`), from `AInv`
(`DraftsAnswer`): a draft answers the request of its call, entry by entry, and every
signature is of a draft. Each action is first shown to be of one of nine kinds
(`Moves`), by where the call stands before and after; the three results are then
about kinds. The notary signs at the moment of the signature and answers at the
moment of the reply: it can, because what was true when it was read is still true.

**`RepliesProofs`**: `RepliesSequential` (`RepliesAreSequential`), from `RInv`
(`ChecksHold`). The reply of a batch is only known to be sequential once all its
checks have ended, at different times; `RInv` says what each one that has ended came
to: the verdict of the one final block the request names (`ChecksAreOfBlock`), which
no later block or reorg changes, and that a reply is `Collected` from them: the code
of a failure that has nothing but ok before it. The reference, `SequentialReply`, is a
recursive function over the batch. No induction is needed for it: it has a solution
(`SequentialSolution`, built from the first refusal from each packet on), and
any solution passes over the packets that are not refused, or there would be a
least number of packets that it does not pass (`SequentialPasses`, `LeastNat`).
The same invariant shows where three findings end: `FoundAtHeight`
(`CommitmentsFoundAtHeight` on every adapter but Solana's, and on Cosmos if no packets
are asked for at height 0) and `OffsetHeightsFinal` (`NoHeightBeforeFinality` if
requests are for heights other than 0, or there is no offset).

**`MetricsProofs`**: `FailuresCountedOnce` (`EveryFailureCountedOnce`),
`MetricsAccount` (`MetricsAccountForReplies`), `ReceiptsCounted`
(`ReceiptFailuresCounted` on every adapter but Cosmos's) and `SignerCallsAreCounted`
(`SignerCallsCounted` with a local signer), from `MInv` (`CountersHold`), which
equates each counter with the cardinality of the set it is about. Calls may be
infinitely many; only finitely many have been received (`Began`), so the sets are
finite. Each action is shown to add its call, or its check, to just the sets whose
counters it increments (`Tells`); the replies then follow from `RInv`.

**`ProgressProofs`**: `StepsAdvance` (`EveryStepAdvances`), from `WInv`
(`BatchesWait`): a call that waits for its batch has a check under way, because the
end of the last one collects the batch, for its first failure or into a draft
(`BatchIsCollected`). Every step of the service or of the caller then decreases
`StepsLeft`, which starts at four and the number of packets. This is `EveryCallEnds`
but for the fairness: a call that keeps stepping ends.

**`HistoryProofs`**: `SignaturesAgreeAlways` (`SignaturesAgree`) and `TimeoutsSound`
(`TimeoutsAreSound`; on Solana assuming `NodeLag <= 1`), from an invariant of the
whole chain (`History`, `HistoryHolds`) that relates any two blocks: times do not
decrease; acknowledgements and receipts, once written, stay (`Permanent`); a receipt
that block i lacks and block j has was written before block i + 1 reached the timeout
(`InTime`); a packet commitment is that of the packet sent, until cleared
(`Genuine`). A reorg only removes blocks, so it keeps relations between those that
stay.

**`OutgoingProofs`**: `RetryCounterIsExact` (`ExhaustionCounted`),
`SignaturesAreBound` (`SignaturesBindTypeAndData`), `OneSignaturePerCall`
(`SignedAtMostOnce`), `ReturnedSignaturesVerify` (`ReturnedSignatureVerifies`) and
`SignerKeepsItsContract` (`ImplementsSigning`), from `Inv` (`InvariantHolds`):
whatever the service holds for a call was made from the one payload the call wants
signed, with a key of the wallet since it began, and an answer of the one acceptable
form carries such a signature (`CallSigns`). Separation of the
domains is the lemma `DomainSeparation`. The counter needs the queries to be finite
(`RetryAssumption`): it is a cardinality. Of the retries, `AttemptsInv`
(`AttemptsBounded`) says that attempts stay within `MaxAttempts` and that a pause is
the backoff of the attempts made; with it, `OutgoingTypes` (`OutgoingTypeOK`),
`RequestsAdvance` (`EveryRequestAdvances`), and `PausesAreLonger`: every pause, not only
the one of the counterexample, is longer than the documented one. `AttestationsWait`
(`NoAttestationIsStuck`) has an invariant that ties the stage of a call to its queries
and to its signing (`WaitInv`).

**`LifecycleProofs`**: `TypesHold` (`LifecycleTypeOK`), `OneKey`
(`OneKeyPerKeystore`), `KeystoreStays` (`KeystoreIsFinal`), `ShutdownIsGraceful` (`CallsCutOnlyByFailure`),
`ExitStatusIsTrue` (`SuccessMeansServed`), `ShutdownReachesServers`
(`NoShutdownIsStuck`) and `ProcessesAdvance` (`EveryProcessAdvances`: every step of a
process lowers `StepsLeft`, a sum over main and its two servers, or is of a call), from
`Inv` (`InvariantHolds`): without overlap the one command between its check and its
write finds the file as it left it; calls are in flight only while the gRPC server
serves or drains, or after it broke; main gets past that server only when it has
stopped, and returns with calls in flight only when it broke; both receivers exist as long as there are tasks, and nothing is in them
before the signal.

Every invariant and every safety property that a run checks, the refinements
included, is the statement of a theorem, on the conditions given above for those that
another run violates; of `PausesAsDocumented`, which holds of no pause, the contrary is
proved (`PausesAreLonger`).

Only model-checked: liveness (`EveryCallEnds`, `EveryAttestationEnds`,
`SignalledProcessExits`), since the proof system reaches neither fairness nor
`ENABLED`. What is proved of it is the part about steps: `StepsAdvance`,
`RequestsAdvance` and `ProcessesAdvance` (no way to go on for ever), `BatchesWait`, `AttestationsWait` and
`ShutdownReachesServers` (nobody waits for what cannot come). That the step they wait
for is taken is the fairness of section 3.

## 5. Not modelled

Assumed rather than modelled: honest and complete RPC answers up to lag (the trust
assumption of the repository's README), ideal signatures and hashes, packets whose
hash determines them.

Left out: logging and tracing, command-line declarations, generated code; parsing of
the configuration and the resolution of the keystore path, which are sequential and
keep no state; the layout of ABI data, PDAs and accounts; the bytes of signatures
(65 bytes that are split unevenly over r, s and v); histograms, the finalized-height
gauge and the text encoding of the metrics; the HTTP routes of the health server.
On Solana a cleared commitment reads as absent, because the router closes the account;
had it left the account with zeros, the check would fail as a mismatch instead of not
found (`solana.rs:199-205` does not look for zeros, as `evm.rs:194` does), and no other
statement would be signed.
Heights are natural numbers: `i64`, to which the Cosmos adapter converts them, is not
exceeded, since `validate_height` refuses what is above the chain's own height and
CometBFT's heights are `i64` (a call that asks the chain for a block has a height of
`0..latest`, by `CallInv` of `AttestorProofs`). The aggregation of m-of-n signatures and the light client are outside the
repository; what they need of the attestors is `SignaturesAgree` and
`TimeoutsAreSound`.

## 6. Running

    tlc -config evm_tag.cfg MCAttestor      # also evm_offset, cosmos, solana,
                                            # offset_genesis, solana_height, ...
    tlc -config outgoing.cfg MCOutgoing     # also retry_delays
    tlc -config process.cfg MCLifecycle
    tlapm AttestorProofs.tla                # and the other ...Proofs.tla

The largest run (`evm_tag`) has about a million distinct states; every run takes
about a minute on two workers or less, and so do the proofs from nothing.
