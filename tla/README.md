# A TLA+ verification of the IPC client

The repository is the client side of IPC (interplanetary consensus): a library
(`ipc/provider`), a command line (`ipc/cli`), wallets (`ipc/identity`) and shared
types (`ipc/sdk`) with which users create and join subnets, move funds between a
subnet and its parent, and relay the subnet's bottom-up checkpoints to the parent.
The chains and the contracts (gateway, subnet actor) are not in the repository:
the client talks to them over RPC.

Paths below are relative to the repository's root.

## 1. Inventory

| Component | State | Operations | Interaction | What is hard | What makes it correct |
|---|---|---|---|---|---|
| Checkpoint relayer (`ipc/provider/src/checkpoint.rs`, `cli/.../checkpoint/relayer.rs`) | none that survives an iteration; locals of the scan | `run`, `submit_last_epoch`, `submit_next_epoch`, `next_submission_height` | calls the managers of parent and child; several relayers run at once and know nothing of each other | every call sees a newer chain; child reorganisations; late receipts; restarts; refused submissions | only final certified checkpoints are sent; the parent's log has no gap; progress |
| Bottom-up calls (`ipc/provider/src/manager/evm/manager.rs` 960-1112) | a transaction in the mempool | `submit_checkpoint`, `checkpoint_bundle_at`, `quorum_reached_events`, height queries | contracts of parent and child | receipt timeout, revert after estimation, reads that are not atomic | what a return value says has happened |
| EVM key store (`ipc/identity/src/evm`) | key map and default in memory; one JSON file | `put`, `remove`, `set_default`, `get_default`, flush, load | every command and the relayer daemon open the same file | crash inside a flush, several processes, the default stored twice | a default that is a key; nothing lost over restarts |
| FVM wallet (`ipc/identity/src/fvm`) | key store map, cache of keys, clear or encrypted file | `import`, `generate_addr`, `set_default`, `remove`, `find_key` | provider and wallet commands | operations of two flushes, swallowed errors, names with and without a prefix | the same, and operations that take effect on the keys the others stored |
| Subnet identifiers (`ipc/sdk/src/subnet_id.rs`, `cross.rs`) | none | `parent`, `common_parent`, `up`, `down`, `apply_type` | gateway and message handling | boundaries at the root | agreement with the way a message travels |
| Top-down queries (`manager.rs` 99-204, two commands) | none | `get_validator_changeset`, `get_top_down_msgs`, `get_block_hash` | parent node | several reads per answer, reorganisations | payload and hash belong together |
| Subnet management (`manager.rs` 219-783, `provider/src/lib.rs`, `cli/.../subnet`, `cli/.../crossmsg`) | the remembered sender; the subnet actor's on chain | create, join, stake, unstake, leave, kill, claim, fund, release, send, bootstrap nodes, genesis and validator info | subnet actor, gateway, key file; commands of several processes share accounts | two transactions per command, lost replies, replaced and reverted transactions, a default account that changes, reads that are not atomic | what a command reports has happened |
| Gas estimation (`manager.rs` 1124-1240) | none | `premium_estimation`, `base_fee_surged`, `estimate_priority_fee` | every transaction; two requests to a chain that grows | numeric edges, a base fee that is old when it is used | a median; a cap above the base fee |
| Configuration (`ipc/provider/src/config`) | current config, path, broadcast channel | load, `reload`, `set_path`, subscribe | provider | order of concurrent reloads | no older config installed last |
| Lotus and JSON-RPC clients (`ipc/provider/src/lotus`, `jsonrpc`) | none | `mpool_push`, `state_wait_msg`, requests | Lotus node | nonce read and used in two calls, requests that fail after the node has acted, receipts of replacements, waits without end | only a race loses a push; what is reported as pushed is pushed |
| Command line (`ipc/cli`) | none | argument handling | provider | - | - |
| Conversions (`ipc/sdk/src/evm.rs`, `address.rs`) | none | `TryFrom` between bindings and types | all calls | width of integers | round trips |
| Test infrastructure (`ipc/testing`) | - | - | - | - | not part of the client |

`PROJECT.json` lists, under "hazards", the lines where these difficulties bite.

## 2. Modules

| Module | Models |
|---|---|
| `CheckpointRelayer` | the relayer daemons with the calls they make, the subnet actor, the mempool and the child chain |
| `CheckpointLog` | abstract: a gap-free log of finally certified checkpoints with its credited submitters |
| `CheckpointRelayerProofs` | theorems about `CheckpointRelayer` |
| `EvmKeyStore` | memory store, file and flush of any number of processes |
| `DurableKeyMap` | abstract: a set of keys, one of them possibly the default, that restarts do not change |
| `EvmKeyStoreProofs` | theorems about `EvmKeyStore` |
| `FvmWallet` | wallet, its cache, its key store and the file, clear or encrypted |
| `FvmWalletProofs` | theorems about `FvmWallet` |
| `SubnetId` | the path operators, as pure operators |
| `CrossMessage` | a message on its way, the reference for `SubnetId` |
| `CrossMessageProofs` | theorems about `CrossMessage` and `SubnetId` |
| `TopDownQuery` | one client's queries against a parent that grows and is reorganised |
| `TopDownQueryProofs` | theorems about `TopDownQuery` |
| `SubnetClient` | the subnet and cross-msg commands, the provider and the transactions and reads behind them, the subnet actor's life cycle and the mempools |
| `SubnetClientProofs` | theorems about `SubnetClient` |
| `LotusClient` | concurrent users of the Lotus client over JSON-RPC, the node's mempool and chain |
| `LotusClientProofs` | theorems about `LotusClient` |
| `GasEstimation` | the fee estimation of one transaction while the chain grows |
| `GasEstimationProofs` | theorems about `GasEstimation` |
| `MCCheckpointRelayer`, `MCEvmKeyStore`, `MCFvmWallet`, `MCSubnetClient` | instances for TLC |

### CheckpointRelayer

An iteration of `run` is `Wake`, then one action per remote call in the order of
the code: `CheckSubmitted`, `ReadLastHeight`, `ReadBundle`, `ReadMessages`, `Send`,
`GotReceipt` in `submit_last_epoch`, and `ReadNextHeight`, `ReadEpoch`,
`ReadEvents` with the same four calls for each event in `submit_next_epoch`. An
error of any call (`Abort`, the refusal branch of `Send`, `ReceiptTimeout`) ends
the iteration: `run` logs it and sleeps. Nothing survives an iteration, so a
restart of the daemon is the same step. The locals that no later call reads are
reset at the end of an iteration.

What the code relies on but does not contain is external:

- `submitCheckpoint` of the subnet actor accepts the next height (last + period)
  with a quorum of signatures and messages that belong to the checkpoint, or the
  last height again with the same content, which credits a further relayer.
- Gas estimation fails for a call that would revert. A second transaction of the
  same submitter gets the same nonce while the first is in the mempool, because
  the nonce is the transaction count of the latest block: the node refuses it or
  replaces the first one. A node that counts pending transactions, too, would
  queue the second behind the first; this is left for the extension of section 5.
- A transaction may be mined at any later time, or dropped. The parent is not
  reorganised; a checkpoint, once committed, stays.
- The child may be reorganised above its final block. Blocks deeper than
  `FinalityDepth` are final, and the operator's `finalization_blocks` is at least
  that (`FinalityAssumption`); this is what the parameter is for.
- A checkpoint gets its quorum within `QuorumDelay` blocks, at most two quorums in
  one block. `InOrder` says whether quorums come in the order of the heights.

A block is identified by its height and the fork that produced it, so a bundle
carries a height, the fork its checkpoint is of, the fork its messages are of, and
whether its signatures make a quorum.

### EvmKeyStore

A key stands for the private key and for the address derived from it. `data` and
`default` are the fields of `MemoryKeyStore`, one per process; `file` and `disk`
are the shared key file. `Put`, `Remove`, `SetDefault` and `GetDefault` change the
memory and are followed by a flush in two steps, `Truncate` (`File::create`) and
`Write`; `get_default` flushes, too. When two flushes overlap, the shorter of two
texts leaves the end of the longer one behind and the file no longer parses
(`Longer`). `CutOff` is a flush that fails or whose process is killed. `orderly` is a history
variable: so far a process has only opened the file when no other had it open, no flush was cut off, and
`remove` was called with addresses of keys.

### FvmWallet

`keyInfo` is `KeyStore.key_info`, whose names are `wallet-` with an address,
a bare address, and `default`. The network prefix of addresses is a process-wide
setting, chosen when the process starts. `put` refuses a name that exists and
`remove` one that does not. An operation with two flushes (`generate_addr` for the
first key, `set_default` over an old default) keeps the rest of its work in `then`
and goes on in `Resume` when the flush has ended; an error drops the rest.
`WriteLost` is a write error that strikes in the drop of the `BufWriter`, after
which the operation goes on. `faulted` is a history variable: some flush has not
completed.

### SubnetId, CrossMessage

An identifier is a root and a sequence of children. The operators keep the early
returns of the code; an index underflow is the value `Panic`. `CrossMessage`
moves a message hop by hop, by prefixes of paths and without the operators of
`SubnetId`, so that it can serve as their reference.

### TopDownQuery

The hash of a block commits to the chain below it and is modelled by it. A node
answers `eth_getLogs` with the logs of the block of that height and possibly with
those of a removed block, marked as removed unless the block was removed while the
query ran. Changes carry their number, so a set of them stands for their sequence.
`get_top_down_msgs` asks for the state at a hash, which a node may have dropped. Any
call may fail (`CallFails`), which the commands return as an error. `before` is a
history variable: the block of the epoch when the query began.

### SubnetClient

A client is a process that runs one command after the other (`Start...`, `Exit`).
A command is a call of `IpcProvider`, which chooses the sender (`CheckSender`,
`Remembers`) and calls the manager. Choosing the default account flushes the key store
(`Flushes`): the default that the process has loaded is written over the one that
another process may have set since. Every transaction goes through `Transact`: it
may be refused before anything is sent (no such subnet in the configuration, a
gateway other than the configured one, no key, no default account, an amount that
does not fit, a failed request), or be sent, after which the reply may be lost.
Then the client waits: `GetReceipt`, or `GiveUp` when the polls are used up. What a
command reports for a receipt is `Result`: `join`, `fund` and `release` need one and
do not look at its status, `create` needs the event of the deployment, and all others
ignore what they have waited for. `pre_fund` does not wait. `join` with an initial
balance is two transactions, `PreFundJoin` and `JoinSubnet`.

`get_genesis_info`, `get_validator_info` and `genesis_epoch` are one action per read
that can differ between two states of the actor; the parameters of the subnet never
change and are left out.

External: the subnet actor (`Accepts`, `Executed`: collateral is confirmed at once
until the subnet is bootstrapped and by `Confirm` afterwards, the genesis is fixed when
there are enough validators and collateral), its registration in the gateway, and the
nodes. A node estimates the gas of a call first and refuses one that would revert; `node` says
whether it takes the nonce of the next transaction from the state (then a second
transaction replaces the pending one) or counts its mempool (then it is queued). A
transaction may be mined at any later time, revert, or be dropped with the ones behind it.
`SetDefault` is another process that changes the default account in the key file,
which a client reads when it starts. Three history variables serve the properties:
`fate` says what became of a pre-funding, `raced` holds the joins that wait while another command's
join from the same account, or a kill of the subnet, is executed (`Overtaken`), and `late`
the genesis queries that began after the bootstrap.
`propagate` and `send_cross_message` are left out: their functions in the provider are
`todo!()`.

### LotusClient

`mpool_push` is `MpoolNonce` (unless the message has a nonce), `EstimateMessageGas`,
`SignMpoolMessage` and `MpoolPush`; `mpool_push_message` is one request. `Outcome`
is what `request` makes of a response: errors of parsing, of the id and the version, the
error field, the result, or no result. `Fails` is a request that does not bring a
result, possibly after the node has acted. `Timeout` ends the request of
`state_wait_msg`. External: the node's mempool, in which a message that pays more
replaces the one with its nonce, and the chain, whose last message a reorganisation may put
back. `taken` records the nonces others have used since the caller read one. The client
is a library type that only tests of the repository use; the callers are unrestricted.
A gas limit, fee cap or premium beyond 64 bits panics in the code; the model ends the
push with an error instead.

### GasEstimation

`GetBlock` and `PremiumEstimation` are the two requests of `premium_estimation`,
`SendValue` and `CallWithPremiumEstimation` its two users. `EstimatePriorityFee` is
the code's algorithm on sequences. `Sorted` says what the code's filter and stable sort return:
the k-th reward is that of the paying block with k paying blocks up to it in the
order of rewards. `EstimateIsMedian` states the result by counting rewards, without
positions. The chain grows by `NewBlock`, which by the rule of EIP-1559 raises the base fee
by at most an eighth and at least by 1 when it rises (`Rise`). A base fee is positive. Two panics of the code are
left out: a block without a reward (`r[0]` in `estimate_priority_fee`), which no node answers for a request
with one percentile, and an overflow of 256 bits. The tiers of `base_fee_surged` are constants, so that small fees cross them.

## 3. Runs

| Run | Shows | Bounds |
|---|---|---|
| `RelayerSafety` | types, `InFlightIsFinal`, refinement of `CheckpointLog` | 2 relayers, period 2, 6 blocks (the checkpoints 2 and 4 can get a quorum; 6 is cut with the last block), quorums at any time and in any order, 1 reorganisation, 1 fault |
| `RelayerTimely` | progress, credit of every relayer, refusals only of overtaken submissions | 2 relayers, 6 blocks, quorums before the next checkpoint is cut, 1 fault, no reorganisation |
| `RelayerWedge` | violation: two late quorums stop the relayer forever | 1 relayer, 7 blocks, quorums in order and up to 3 blocks late, no fault, no reorganisation |
| `KeyStore` | types; the default is a stored key in memory and in the file; while `orderly`: refinement of `DurableKeyMap`, and the file names the default a process signs with | 2 processes, 3 keys, flushes cut off anywhere |
| `KeyStoreRace` | violation: a put is erased by another process | 2 processes |
| `WalletFaults` | types, the default is a listed key; refinement of `DurableKeyMap` until the first fault (`KeyMapUntilFault`) | 3 keys, both file formats, both networks, all faults |
| `CrossMessage` | the path operators agree with the way of a message | 2 roots, 2 actors, depth 3: all pairs of 30 subnets |
| `TopDownQuery` | changes belong to their hash; a settled block is returned with its changes, and its messages are | 2 blocks, 2 changes per block, 2 reorganisations |
| `TopDownEmpty` | violation: no changes with the hash of a block that has some | as `TopDownQuery` |
| `SubnetClient` | types; the pre-funding of a reported join is decided; a reported join was executed unless it was overtaken; genesis info is the genesis | 2 clients, 2 accounts, 3 commands or changes of the default in any order, 1 active validator, both kinds of nodes, 1 lost reply, dropped transaction or late receipt |
| `LotusClient` | types; refusals and shared receipts need a race; what is reported as pushed is there; every call ends | 2 callers, 1 sender, 2 calls, 2 fees, 3 pushes, 1 failed request or reorganisation |
| `GasEstimation` | types, tip under the cap; the cap covers the next block; the tip covers most blocks; the estimate is a median | every history of up to 5 rewards of 5 values, a base fee in every tier, 2 new blocks |

Why the bounds are enough: two checkpoints with a quorum let a relayer be one and two
checkpoints behind the log; two relayers suffice for every interference, since a
relayer sees the others only through the actor; one reorganisation can change any
block above the final one between any two reads, and the theorems lift the bounds
for the safety properties. Three keys are a default, its successor and a
bystander. Depth three has subnets that part at the root, below it, and not at all.
Two blocks and two reorganisations give a query the logs of two removed blocks.
Three commands are a join with its two transactions, a second one that bootstraps the
subnet, leaves it or takes the same nonce, and a query or a change of the default account;
one validator suffices for a bootstrap and two for a waiting one. A kill that overtakes
a join takes four commands (join, leave, kill and the join that is overtaken): TLC does not
reach it, the theorem `ReportedJoinsCount` covers it. Three pushes are two that race
and one after them. Five rewards have a jump in the upper and in the lower half, ties and zeros.
Deadlock is not checked where the system may stop: a message that has arrived, a
key file that no longer opens, commands, pushes or blocks used up.

### Fairness

`RelayerTimely`, `RelayerWedge`: weak fairness of every daemon's next step (the
loop of `run` never ends and every awaited call returns, with a result or an
error), of mining (a transaction that stays in the mempool is mined) and of block
production up to the bound. Faults are bounded by `MaxFaults` and have no
fairness. `LotusClient`: weak fairness of each caller's next request, since every request
ends within `DEFAULT_REQ_TIMEOUT`; the node and the chain have no fairness, so a message may
stay in the mempool forever. All other runs check safety and assume no fairness.

### What the violations say

Each violation run states what a comment, document or message of the repository
says, and TLC finds a behaviour of the code that differs; `PROJECT.json` quotes
the lines under "findings".

- `RelayerWedge`, the one with the largest consequence. The scan of
  `submit_next_epoch` starts one block after the last committed checkpoint and takes every event from
  there on. With a period of 2, let the quorums of the checkpoints 2, 4 and 6 come in this
  order at the blocks 5, 6 and 7. The relayer commits 2 and 4. Every later scan starts at block
  5, meets the event of 2 again, submits a height below the last committed one, is
  refused and gives up before block 7: checkpoint 6 is never committed. No fault and no other
  relayer is needed. Quorums before the next checkpoint is cut (`RelayerTimely`) exclude
  it.
- `KeyStoreRace`: a flush writes the whole file from memory that may be older than it.
- `TopDownEmpty`: when the logs of an epoch are empty, `get_validator_changeset` reads the
  hash in a later call; a block that arrives or is replaced in between comes back with an
  empty change set. `ChangesMatchTheirHash` and `SettledBlockIsReturned` say that nothing else
  goes wrong.

The models contain further behaviour of the code that a reader may not expect,
and that no run singles out:

- `block_number_from_receipt` does not read the status of a receipt, so a reverted
  transaction is reported with the epoch of its block, although the trait documents the epoch "that
  the execution is successful". Of two joins of one account that both pass the estimate of their gas the
  second reverts, stakes nothing, and `ipc-cli` prints `joined at epoch`. `ReportedJoinCounts` and, for
  checkpoints, `RefusedOnlyWhenOvertaken` say exactly when this can happen. The calls that end in a
  plain `.await?` do not even need a receipt.
- `join` with an initial balance may report its epoch although the pre-funding was lost, or
  reverted because somebody else bootstrapped the subnet; and when only the join fails, a
  second attempt pre-funds again.
- `get_genesis_info` reads the balances first: when a pre-funding is executed and the subnet is bootstrapped
  between its reads, it answers with the genesis validators and the balances of before.
  `GenesisInfoIsGenesis` excuses the balances of a query that began before the bootstrap, and nothing else.
- `get_validator_info` may combine the stake of before a checkpoint with the activity of after it.
- `Wallet::remove` looks for the bare address while keys are stored with the prefix
  `wallet-`, so it fails for every key the wallet lists (`RemovedName`), and no action of the model takes a
  key out of the wallet. `KeyMapUntilFault` holds of this, since an operation of the abstract map may be refused.
- `check_sender` without `--from` writes the key file: a default account that another process
  has set since the command started is undone (`Flushes`).
- `call_with_premium_estimation` drops the fee cap: the tip becomes the gas price and is the
  cap as well, so `CapCoversNextBlock` is only true of `send_value`.
- `state_wait_msg` accepts the receipt of a replacement and asks for no confidence: two
  callers may be told of one execution, and a reorganisation may undo it.
- `submit_next_epoch` does not ask whether its submitter has submitted a
  checkpoint already, so a relayer may send one twice. `ImplementsLog` says that
  this does no harm.
- `PersistentKeyStore::new` fails on a torn file, although the text of its error
  announces a new key store: `Open` has no branch for it, and after a crash between
  `Truncate` and `Write` the store stays closed.
- `up` of two subnets that share no child underflows (`Panic` in `Up`).
  `UpAndDownAreHops` says that this does not happen on the way of a message.
- `KeyStore::put` may return without an error and without a written file
  (`WriteLost`).

## 4. Proofs

TLAPS proves, for all values of the constants that satisfy the named assumptions:

- `CheckpointRelayerProofs`: `TypeCorrect`, `RelayersSendFinalCheckpoints`
  (`InFlightIsFinal`) and `RelayersImplementLog` (`ImplementsLog`), for any set of
  relayers, any period, any chain length, any number of reorganisations and
  faults, quorums in any order; and `RefusalIsOvertaking` (`RefusedOnlyWhenOvertaken`)
  when every quorum comes before the next checkpoint is cut
  (`Timely`: `0 < QuorumDelay <= Period`). Without that it is false: `RelayerWedge`
  shows a refusal that no other relayer has caused.
- `EvmKeyStoreProofs`: `TypeCorrect` and `DefaultStaysStored`
  (`DefaultKeyIsStored`) for any number of processes and keys, when `set_default`
  is called with addresses of keys (the address of the default slot itself is never passed);
  `DefaultStaysSaved` (`DefaultIsSaved`) and `OrderlyImplementsKeyMap` (`KeyMapWhileOrderly`)
  as well, for as long as the processes open the file one after the other and no flush is
  cut off (`orderly`).
- `LotusClientProofs`: `TypeCorrect`, `RefusalIsARace` (`RefusedOnlyInARace`),
  `SharedReceiptIsARace` (`SharedReceiptNeedsARace`) and `ReportIsTrue`
  (`ReportedIsPushed`), for any callers, senders, calls and fees and any number of pushes,
  failed requests and reorganisations.
- `FvmWalletProofs`: `TypeCorrect`, `DefaultStaysListed` (`DefaultIsListed`)
  and `WalletImplementsKeyMap`
  (`KeyMapUntilFault`), for any keys, with every fault in every place.
- `TopDownQueryProofs`: `ChangesAreOfTheirBlock` (`ChangesMatchTheirHash`),
  `SettledBlocksAreReturned` (`SettledBlockIsReturned`) and `SettledMessagesReturned`
  (`SettledMessagesAreReturned`), for chains of any length, any
  number of changes in a block and any number of reorganisations.
- `CrossMessageProofs`: `AppliedTheRightWay` (`AppliedAsTravelled`),
  `CommonParentsAreLowest` (`CommonParentIsLowest`) and `HopsAreUpAndDown`
  (`UpAndDownAreHops`), for any roots and actors and hierarchies of any depth.
- `SubnetClientProofs`: `TypeCorrect`, `InitialBalancesAreDecided`
  (`InitialBalanceIsDecided`), `ReportedJoinsCount` (`ReportedJoinCounts`) and
  `GenesisInfosAreOfTheGenesis` (`GenesisInfoIsGenesis`), for any clients, accounts, amounts, commands and faults, any
  thresholds of the subnet and any limit of active validators.
- `GasEstimationProofs`: `TypeCorrect`, `CapsCoverTheNextBlock` (`CapCoversNextBlock`),
  `TipsCoverMostBlocks` (`TipCoversMostBlocks`) and `EstimatesAreMedians`
  (`EstimateIsMedian`), for fee histories of any length and content, any positive base fee and any
  tiers from 4 on (`GasAssumption`; the lowest tier of the code is 40 GWei). The threshold of a jump, a constant of the library `ethers`, is taken to be positive.

The inductive invariant of the relayer (`Inv`) has these parts. `ChildInv`: what is
final is on the chain and at most `FinalityDepth` blocks below the head, every
block of the chain has a fork, and the quorum of a checkpoint comes after it. `DaemonInv`: what a daemon has left to
submit was certified on the final part when it was read. This is where
`FinalityDepth <= FinalizationBlocks` enters: `finalized` is at most `final` (or is
the 1 of `max(1, ..)`, and block 1 has no quorum), and stays so because `final`
never falls (`FinalIsStable`). `ActorInv`: the committed
heights are final, so `submit_last_epoch`, which takes a height from the parent and
not from an event, is safe, too. `FetchedInv`: between the two calls of
`checkpoint_bundle_at` there is a checkpoint. From these, the bundle and the messages, although read in two calls,
are of the same fork, and `Mine` is a step of the log or a stutter.

`RefusalIsOvertaking` needs `TimelyInv` on top of it. `QuorumInv`: a block has one quorum at most, it
is that of a checkpoint at most `QuorumDelay` blocks older, and every checkpoint whose time
is over has its quorum; with heights a period apart (`EpochsApart`) the quorums are in
the order of the heights. `ScanInv`: what a daemon has scanned is committed, so the
next event it finds is at most one period beyond the log. `HeldInv` keeps this
for what the daemon holds, has sent or has a receipt for, while other relayers move the log.

For the key store, `DefaultKeyIsStored` is strengthened by `Cached`: a
process whose default slot holds a copy has that key as its cached default, which
is what makes `remove` take the copy away with the key. `Synced` adds what `orderly` means for the state: one process is up at most, and between two of its operations the
file holds what it has in memory; what the file says of the default, and the
refinement, follow from it.

For the wallet, `Sound` is the default property with what it rests on: an entry
named after a key holds that key, in memory and in the file. `RestInv` is the state between the two flushes
of one operation: the key of the second half is stored, and `set_default` has no default in its way, so that its
`put` cannot be refused. `FileInv` says which files stand for no entries, and that before the first fault
an idle process and its file agree; with it every step is a step of the key map or
a stutter.

For the top-down queries, `ForkInv` says that a removed block is on an older fork than the next
block, so nothing that is on the chain was ever removed. `QueryInv` follows the block of the epoch through the calls of a
query: as long as it is not removed it is the block of that height, and when the hash is
asked for in a call of its own it has no changes; and whatever head is read, the messages of
a settled block are the same in its state. What the node's logs hold after the filter is
all the changes of one block or none (a block's number of changes is part of its
hash).

For cross-net messages, a message that came up is in an ancestor of its source, not above the common
parent, and one that came down in an ancestor of its destination below it. The length
of the common part, which the code finds in a loop, is shown to exist for any two paths by the
least index where they differ and to be unique (`CommonIs`, `CommonIsUnique`).

For the subnet commands, `InitialBalanceIsDecided` relates a transaction that nobody waits for
to the receipt of another. `OrderInv`: in the queue of the account the pre-funding is before the
join, so it is gone when the join is mined. `PreInv`
and `MainInv`: both are of the account that the command started with (which needs
`CheckSender` to keep it), and while a pre-funding is pending its client has not bootstrapped the
subnet; `RevertInv` follows from this, since with a positive amount (`AmountInv`) a
bootstrap is the only reason for it to revert. `PendingInv`: a join that waits and was not overtaken
would still be accepted, since nothing but another join of its account or a kill can change
that. `MinedInv`: so it is executed when it is mined, or it was overtaken. `GenesisInv`
says of each read what is still true of it at the next one.

For gas estimation, `SinceRead` relates the base fee of the chain to the one that was read.
The median needs no invariant but facts about `Sorted`: the positions of
paying blocks differ (`PositionFacts`) and there are as many as blocks, so every one is taken
(`EveryPositionIsTaken`), the rewards ascend, and the k-th has at least k paying blocks at or below it and
fewer than k below it. The first largest jump is then a pair of consecutive values, which
is what `Cuts` counts (`JumpsAreRises`, `CutsAre`). This way no induction over the
sequence is needed.

For the Lotus client, a nonce must be followed from the request that reads it to the
one that uses it. `StepInv`: from then on it is free (`Free`: not on the chain, not in
the mempool) or another message has taken it (`Raced`), and what is signed is what is
pushed. `NodeInv` says what the node must guarantee for this to survive a block or a
reorganisation: nonces on the chain are below the sender's next one and used once, and a
sender without an actor, for whom `mpool_nonce` answers 0, has no message. `Shared`
extends the claim on receipts to all messages reported as pushed, since the race is
over before the first receipt comes. That the nonce the node answers is free rests on a
minimum of a set of naturals (`MinOfNats`), which the library gives through the
well-foundedness of finite subsets.

Every type invariant, safety invariant, action property and refinement that a passing run checks is
stated by a theorem. Only model-checked are the liveness properties `EveryQuorumIsCommitted`,
`EveryRelayerIsCredited` and `EveryCallEnds`: liveness under fairness is out of the prover's reach.

## 5. Not modelled yet, and the plan

Parsing and formatting of subnet identifiers in `SubnetId`, which depend on the text of
addresses.

Not planned:

- `ReloadableConfig` is used by tests and by `daemon.rs`, which is not compiled; the commands
  read the configuration once.
- `subscribe` of the JSON-RPC client is called by tests only.
- The lists of subnets and bootstrap nodes, balances and chain ids are single reads.
- `f64_to_token_amount` is a conversion of floating point numbers, which TLC does not have;
  the models start from converted amounts.
- Panics of the fee estimation and of the Lotus client on values beyond their width, and on an
  empty reward list.
- Argument parsing and output of the command line, cryptography, generated bindings and the
  conversions from and to them, and the test infrastructure.
