# TLA+ models of the zkEVM trace decoder

This directory holds TLA+ models of the repository's Rust sources, the TLC
configurations that check them, and `PROJECT.json`. `PROJECT.json` maps every
modelling definition to the source lines it translates, and lists the runs,
the mutants, the findings and the hazards.

## The system

The repository snapshot has two source files:

* `src/trace_decoder/src/decoding.rs` is the block-trace decoder.
  `ProcessedBlockTrace::into_proof_gen_ir` calls `process_txns`. That
  function takes the pre-block partial tries (state, storage, transactions,
  receipts), the block's processed transactions and its withdrawals. It
  returns one `GenerationInputs` (an *IR unit*) per transaction, or a
  `TraceParsingError`. For each transaction, `process_txn_info` does these
  steps in order:
  1. seeds the storage tries the transaction needs
     (`init_any_needed_empty_storage_tries`);
  2. advances the "after" counters;
  3. clones the live tries;
  4. inserts the txn and receipt nodes;
  5. applies the deltas (`apply_deltas_to_trie_state`): storage writes, then
     state writes, then self-destructs. A delete reports any branch it
     collapses;
  6. cuts the minimal sub-tries out of the clone
     (`create_minimal_partial_tries_needed_by_txn`), keeping the reported
     paths;
  7. assembles the unit with the live roots as `trie_roots_after`;
  8. advances the "before" counters.

  After the loop, `pad_gen_inputs_with_dummy_inputs_if_needed` pads the IR to
  at least two units using dummy units. `add_withdrawals_to_txns` then puts
  the withdrawals into the last unit. If that unit is a dummy, it first widens
  the unit's state sub-trie to the recipients. It then credits the balances
  in the live state and overwrites the last unit's state root.
* `src/evm_arithmetization/src/witness/traces.rs` holds the per-STARK-table
  operation buffers. Their operations are `checkpoint`, `rollback`,
  `mem_ops_since`, `get_lengths`, `clock` and `into_tables`.

The decoder is sequential: there is no concurrency, no persistence and no
messaging. Its hard behaviours are these:

* the order of the steps inside one transaction, and across transactions;
* which snapshot each output is computed from;
* the boundary cases of 0 and 1 transactions;
* branch collapse on deletion;
* which error context reaches the caller.

## Modules

| Module | Models | Correspondence |
|---|---|---|
| `TraceDecoding` | `decoding.rs`: `process_txns` and everything it calls | See below |
| `MCTraceDecoding` | Instantiation for TLC | Two accounts, two slots, 16 pre-images, 96 transaction shapes, 2 withdrawal lists |
| `MCDeleteOrder` | Instantiation for TLC | One account, three slots whose keys form a nested branch, transactions writing or deleting any non-empty set of them |
| `MCHashedState` | Instantiation for TLC | Three accounts (keys `<<0>>`, `<<1,0>>`, `<<1,1>>`), a state witness with no hash node, one at the branch `<<1>>` or one at a2's leaf, balance-writing transactions, withdrawals to a witnessed or a hidden account |
| `BlockReplay` | What a decoded block promises | Abstract: world states and one proven (pre, post) pair per transaction; no tries, padding or write order |
| `Traces` | `traces.rs`: `Traces` | See below |
| `MCTraces` | Instantiation for TLC | The row rules of each table (keccak rounds 24, sponge rate 136 bytes) and small operation kinds |

### TraceDecoding: state

* `tries` is `curr_block_tries`.
* `initTries` is `initial_tries_for_dummies`.
* `extra` is `extra_data`.
* `ir` is the IR vector.
* `txns` is the transactions consumed so far, which is the loop's input.
* `withdrawals` is the block's withdrawals. They are first read after the
  loop, so they are chosen at the finish step.
* `phase` is `txns`, `done` or `failed`.
* `err` is the returned error.

### TraceDecoding: abstraction

* A trie's root hash is the content the trie commits to. Equal hashes mean
  equal contents.
* A sub-partial trie is its root plus the set of nibble paths it keeps.
* Keys are nibble sequences, so branch collapse is computed from the key
  structure (`RemainingKeyIfBranchCollapsed`).
* The live state trie's witness may replace subtrees by hash nodes; their
  paths are `state_hashed`. What `mpt_trie` (outside the snapshot) does there
  is an assumption of the model: a `get` through a hash node finds nothing
  (`StateGet`), and an `insert` into one returns an error. The code ignores
  that error (line 528), so the write is lost. The subset builder fails on a
  requested key under a hash node.
* A storage trie is its contents plus a flag, `hashed`. The flag is set for
  the hash-only trie that `init_any_needed_empty_storage_tries` creates from
  `state_accounts_with_no_accesses_but_storage_tries`.
* RLP is the value it encodes.
* A storage delete has no error path:
  `delete_node_and_report_remaining_key_if_branch_collapsed` returns an
  `Option`. Only the insert of a non-zero value maps a trie error
  (`InsertSlot`).

### TraceDecoding: actions

* `ProcessTxn` and `ProcessTxnFails` are one iteration of the loop. The
  storage writes of the transaction are applied in an order chosen from
  `SlotOrders`: every iteration order of each account's slot `HashMap` (line
  480). The accounts of line 469 come in the one order `FoldSet` fixes, which
  loses nothing here because each transaction of the instances writes the
  storage of one account. The step ends in
  success or in error. On failure, the error is stamped with the transaction
  index, the block number and the chain id. The whole block then aborts.
* `FinishBlock` and `FinishBlockFails` are padding followed by withdrawals.
* `Terminated` is the return.

The padding assertions are guards of the finish actions (`PaddingAssertionsHold`):
the `debug_assert!`s of the empty-block arm (lines 580-581) that the block
changed neither the state trie nor the extra data, and the dummy-counter
asserts of `create_dummy_gen_input_common`. A panic there is a deadlock
only when the block is full. None of them can fail when it is reached: an
empty block has changed nothing, and the "before" counters have caught up
with the "after" ones at line 733. So the guards never block a step.

### BlockReplay and the refinement

`BlockReplay` states what decoding a block promises: a world state (each
account's balance and storage contents, the txn and receipt entries), and for
every successful transaction one proven pair from the world before it to the
world after it; closing the block credits the withdrawals and moves the last
pair's end. `TraceDecoding` instantiates it as `Replay` with this mapping:

* `world` is the contents the live tries' roots commit to (`WorldOf`);
* `proven` is, for each real (non-dummy) unit, the contents of its sub-tries'
  roots and of its `trie_roots_after` (`ProvenPairs`);
* `applied` is the transactions consumed; `status` follows `phase`.

`ReplayRefined` (the abstract `ReplaySpec` as a property) shows that every
unit proves exactly its transaction's effect whatever the write order, and
that padding and withdrawals amend the last real unit only as the abstract
`Close` does. The mapping definitions are not code and are not in the map.

### Traces

* `tr` is the seven buffers; an operation is its kind, its input size where
  the row count depends on it, and a serial number so no two are equal.
* `Checkpoint`, `Rollback`, `MemOpsSince` and `GetLengths` translate the
  methods. `Truncate` is `Vec::truncate`, a no-op past the length.
* The interpreter that calls them is not in the snapshot. It is the
  environment: `Push` appends to a buffer, `TakeCheckpoint` keeps
  `checkpoint()`, `Release` drops the innermost one, `RollbackTo(i)` rolls back
  to any held checkpoint and drops the later ones, and `ReadMemOpsSince(i)`
  reads from a held one. This nested, last-in first-out use is the
  assumption under which the properties hold; `Release` has no code. It
  also rules out the hazard at line 112: reading from a checkpoint taken
  after the point a rollback went back to. No property checks that case.

### Code not under `src/`

Some of the code the decoder calls is not under `src/`. It is modelled from
`spec.md` and marked `spec_modelled` in the map:

* `delete_node_and_report_remaining_key_if_branch_collapsed`;
* `create_minimal_partial_tries_needed_by_txn` and `create_trie_subset`;
* `create_minimal_state_partial_trie`;
* the upstream derivation of `NodesUsedByTxn`.

For the subset builder, spec section 8 says a missing storage trie is a
hard error, and the model fails with `MissingAccountStorageTrie` for an
accessed account that has none. The seeding step makes this unreachable
unless seeding is wrong.

The model assumes the upstream trace never reads or writes slots of a storage
trie that the witness omitted (`WellFormedTxn`).

## Runs

| Run | Cfg | Result | Shows |
|---|---|---|---|
| `trace_decoding` | `TraceDecoding.cfg` | pass, 305,584 distinct states, about 1 minute | The seven invariants below hold for every block of up to 2 transactions |
| `empty_block_withdrawals` | `EmptyBlockWithdrawals.cfg` | violation of `WithdrawalsFailOnlyOnMissingAccount` | An empty block with a withdrawal fails with `MissingKeysCreatingSubPartialTrie` whenever the pre-state is non-empty, even when the recipient is absent and the spec expects `MissingWithdrawalAccount` |
| `block_replay_refinement` | `BlockReplayRefinement.cfg` | pass, 305,584 distinct states, about 1 minute | `TraceDecoding` implements `BlockReplay`, and no step changes a unit other than the last |
| `delete_order` | `DeleteOrder.cfg` | pass, 12,748 distinct states | With several writes and deletes to one storage trie in every HashMap order, every collapse keeps its sibling and the world effect does not depend on the order |
| `traces` | `Traces.cfg` | pass, 872,149 distinct states, about 40 s | Rollback restores all buffers; `mem_ops_since` is in bounds and exact for held checkpoints |
| `hashed_state` | `HashedState.cfg` | pass, 287 distinct states | A transaction whose write is lost under a hash node never yields a unit, so the refinement still holds |

The invariants of `trace_decoding` are:

* `TypeOK` is the type invariant.
* `CountersMatchBlock`: dummy units have equal before/after counters. Real
  unit *j* has `txn_number_before = j-1`, and its gas before/after values are
  the prefix sums of the gas used.
* `RootsChain`: the first unit starts from the pre-block roots. Each unit
  starts where the previous one ended. The last unit ends at the live roots,
  after withdrawals.
* `CollapsedSiblingsKept`: whenever a delete collapsed a branch, both in the
  state trie and in a storage trie, the remaining sibling's path is kept
  un-hashed in the unit's sub-trie.
* `StorageRootsConsistent`: every account's `storage_root` equals the
  contents of its live storage trie.
* `SelfDestructRemoves`: a self-destructed account is absent from both the
  state trie and the storage map.
* `StorageTrieLostOnlyBySelfDestruct`: a storage trie disappears from the
  map shared by the block's transactions only through a self-destruct.
  Suppose a transaction fails with `MissingAccountStorageTrie` for an
  account. Then the transaction does not access that account's storage,
  because the seeding step would have created the trie. Also, the trie was
  either never witnessed or removed when an earlier transaction
  self-destructed the account. A repeated self-destruct in the second
  transaction reaches this error.

Each invariant has a mutant in `PROJECT.json`. The mutant is a plausible bug
in the mapped code, and TLC finds it violates the invariant. The mutants are:

* an off-by-one trie key;
* a "before" gas value that is not carried forward;
* padding from the final tries;
* a delete that does not report the collapsed branch;
* state writes applied before storage writes;
* self-destructs applied before state writes;
* seeding that creates no trie when no storage root is known (the
  `unwrap_or_default` of line 455 dropped).

The other properties are:

* `ReplayRefined` (`block_replay_refinement`, `delete_order`): see above.
  Mutants: a state write that drops the new balance; a zero written as a value
  instead of a delete.
* `ReplayRefined` under `hashed_state`. A balance write to an account under a
  hash node reads "nothing" (so the account looks new), and its insert is
  refused and ignored. The transaction must still fail, because the subset
  builder cannot reach the same key (it is a state access). Mutant: the
  subset builder's error dropped in `process_txn_info`, which lets a unit
  claim a balance change the live state never made.
* `UnitsOnlyLastAmended`: every step only appends units, and may rewrite only
  the last unit's withdrawals, state sub-trie (widening it) and state root.
  Mutant: withdrawals put into the first unit.
* `CollapsedSiblingsKept` under `delete_order`. Mutant: a reported path that
  replaces the account's earlier reported paths instead of adding to them,
  which loses a collapse when two deletes of one transaction both collapse.
* `Traces`: `TypeOK`; `CheckpointsInBounds` (no held checkpoint makes the
  slice of `mem_ops_since` panic); `MemOpsSinceExact` (it returns exactly the
  memory operations pushed after the checkpoint and not rolled back);
  `RollbackRestores` (an action property: a rollback makes every buffer what
  it was at the checkpoint). Mutants: a checkpoint in rows (`get_lengths`),
  memory truncated to the logic length, the slice started at the cpu length,
  memory not truncated.

The HashMap order matters for which paths are kept: when a transaction
deletes slot `<<1,0>>` and inserts `<<1,1>>` next to `<<0>>`, applying the
delete first reports `<<0>>` (the root branch collapses for a moment), and
applying the insert first does not. Both sub-tries contain every node the
final state's collapses need, which is what `CollapsedSiblingsKept` checks;
whether the prover replays the writes in the decoder's order is outside this
snapshot.

### Bounds

There are two accounts and two slots. Their hashed keys differ in the first
nibble, so a trie holding both is a branch, and deleting one collapses it.

Each account's pre-image is one of four shapes:

* absent;
* empty with a trie;
* full with a trie;
* full with the trie omitted (hash-only after seeding).

Each transaction acts on one account. Its storage part is one of: nothing, a
slot-less touch, a read, a write, a zero write (a delete) of either slot. It
may also set a balance, self-destruct, and have or lack signed bytes.

`MaxTxns = 2` covers all of these:

* 0, 1 and 2 transactions, which are all three padding cases;
* consecutive units chaining;
* a transaction acting on the result of an earlier one, including a
  self-destruct followed by a write.

A withdrawal list is either empty or a single withdrawal to `a1`. This covers
both a present and an absent recipient, since `a1` is absent in some
pre-images.

`MCDeleteOrder` uses slot keys `<<0>>`, `<<1,0>>`, `<<1,1>>`: deleting two of
them collapses two nested branches in one transaction, in either order, and
`MaxTxns = 2` lets a second transaction act on the result. `MCTraces` pushes up
to 4 operations and holds up to 2 checkpoints, enough for a rollback to the
outer checkpoint while an inner one is held, followed by a read from a
checkpoint taken after it.

`MCHashedState` puts a hash node over an existing account's leaf, and over a
branch that holds one account and the empty place of another. So it covers a
refused update and a refused creation, each in the first or second
transaction, with a withdrawal to a witnessed or a hidden recipient.
Self-destructs are left out there: how `mpt_trie` collapses a branch onto a
hash node is not in the snapshot.

### Fairness

None. Every property is a safety property. The decoder is a sequential loop
over a finite input, with no scheduling to assume. Its only way not to
return is a panic of the padding assertions, and those cannot fail when
reached (see the finish actions above). So a termination property would
hold only because fairness was assumed. `Traces` is driven by a caller
outside the snapshot, and the code promises nothing about that caller's
progress.

## Not modelled

* `into_tables` hands each buffer to its STARK's `generate_trace`, which is
  outside the snapshot, and returns the seven traces. There is no control
  state to check.
* A judgement of the `signed_txn == None` test of `add_withdrawals_to_txns`
  (hazard at line 616). The model takes the branch as the code does, and
  transactions without raw bytes are among the inputs. No property judges
  the branch, though. Whether a real unit's sub-trie already holds the
  recipients depends on how the upstream code derives the accesses.
* Display formatting of the errors.
* The RLP, `mpt_trie` and compact-witness crates, which are external to the
  snapshot.
* `create_dummy_gen_input_with_state_addrs_accessed`, which is never called.
* `clock`, a read of the cpu buffer's length with no effect.
* Self-destructs of accounts under a hash node of the state witness (see
  `MCHashedState`). The insert at line 660 follows a successful `get` of the
  same key, so it cannot be refused.

## Plan for later work

1. The upstream contract that the last transaction accesses the withdrawal
   recipients, stated as a block-level input constraint. It would let a
   property cover the hazard at line 616.
2. More accounts in `MCDeleteOrder`, for state-trie collapses with several
   self-destructs in one transaction.
