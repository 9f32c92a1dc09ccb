---------------------------- MODULE TraceDecoding ----------------------------
(***************************************************************************)
(* The block-trace decoder of trace_decoder/src/decoding.rs.  process_txns *)
(* replays the transactions of one block, in index order, against a live   *)
(* partial-trie state and emits one GenerationInputs (an "IR unit") per    *)
(* transaction; afterwards it pads the IR list to two entries and folds    *)
(* the block's withdrawals into the last entry.                            *)
(*                                                                         *)
(* Abstraction.  A trie root hash is represented by the content the trie   *)
(* commits to (a function from keys to values): two tries have the same    *)
(* hash iff they hold the same entries.  A sub-partial trie is a root      *)
(* together with the set of nibble paths it keeps un-hashed.  Keys are     *)
(* nibble sequences (HashedAddr, HashedSlot), so the branch collapses a    *)
(* deletion causes are computed from the key structure.  RLP encodings are *)
(* the values they encode.                                                 *)
(***************************************************************************)
EXTENDS Naturals, Sequences, FiniteSets, SequencesExt

CONSTANTS
  Accounts,        \* hashed account addresses
  Slots,           \* storage slot keys
  HashedAddr,      \* [Accounts -> Seq(nibble)]: path of an account in the state trie
  HashedSlot,      \* [Slots -> Seq(nibble)]: path of a slot in a storage trie
  SlotVals,        \* the non-zero storage values
  ZeroSlotVal,     \* ZERO_STORAGE_SLOT_VAL_RLPED: writing it deletes the slot
  MaxTxns,         \* bound on the number of transactions in a block
  TxnInfos,        \* the ProcessedSectionTxnInfo records a block may contain
  PreImages,       \* the trie states a block may start from (get_trie_pre_image)
  WithdrawalLists, \* the (address, amount) lists a block may carry
  BlockNum,        \* other_data.b_data.b_meta.block_number
  ChainId,         \* other_data.b_data.b_meta.block_chain_id
  NoVal            \* None, and the absence of a trie entry

ASSUME MaxTxns \in Nat
ASSUME ZeroSlotVal \notin SlotVals

VARIABLES
  tries,       \* curr_block_tries: the live trie state
  initTries,   \* initial_tries_for_dummies: the clone taken before the loop
  extra,       \* extra_data: the running MptExtraBlockData counters
  ir,          \* the Vec<GenerationInputs> built so far
  txns,        \* the block's transactions consumed so far (the loop's input)
  withdrawals, \* the block's withdrawals: an input first read after the
               \* loop, so chosen there (<<>> until then)
  phase,       \* "txns" while the loop runs, then "done" or "failed"
  err          \* the TraceParsingError process_txns returned, or NoVal

vars == <<tries, initTries, extra, ir, txns, withdrawals, phase, err>>

-----------------------------------------------------------------------------
(* Data *)

TxnIdx == 0 .. (MaxTxns - 1)
StorageContents == [Slots -> SlotVals \cup {NoVal}]
EmptyStorage == [s \in Slots |-> NoVal]

\* EMPTY_ACCOUNT_BYTES_RLPED decoded: where a created account starts from.
EMPTY_ACCOUNT == [balance |-> 0, storage_root |-> EmptyStorage]

\* extra_data as process_txns creates it (also extra_data_for_dummies).
InitialExtraData ==
  [txn_number_before |-> 0, txn_number_after |-> 0,
   gas_used_before |-> 0, gas_used_after |-> 0]

\* TraceParsingError::new: a reason and no context.
NewError(reason) ==
  [reason |-> reason, block_num |-> NoVal, block_chain_id |-> NoVal,
   txn_idx |-> NoVal, addr |-> NoVal, h_addr |-> NoVal, slot |-> NoVal,
   slot_value |-> NoVal]

\* The variants of TraceParsingErrorReason.
Reasons == {"AccountDecode", "MissingAccountStorageTrie", "NonExistentTrieEntry",
            "MissingKeysCreatingSubPartialTrie", "MissingWithdrawalAccount",
            "TrieOpError", "CompactParsingError"}

\* struct TraceParsingError: a reason and the optional context fields.
TraceParsingErrors ==
  [reason : Reasons, block_num : {BlockNum, NoVal}, block_chain_id : {ChainId, NoVal},
   txn_idx : TxnIdx \cup {NoVal}, addr : Accounts \cup {NoVal},
   h_addr : Accounts \cup {NoVal}, slot : Slots \cup {NoVal},
   slot_value : SlotVals \cup {ZeroSlotVal, NoVal}]

\* TrieDeltaApplicationOutput::default(): no paths to keep un-hashed.
NoDeltaOutput == [state_paths |-> {}, storage_paths |-> [a \in Accounts |-> {}]]

MissingStorageTrieError(acc) ==
  [NewError("MissingAccountStorageTrie") EXCEPT !.h_addr = acc]

-----------------------------------------------------------------------------
(* Trie structure *)

AccountPaths(state) == {HashedAddr[a] : a \in {b \in Accounts : state[b] # NoVal}}
SlotPaths(kv) == {HashedSlot[s] : s \in {t \in Slots : kv[t] # NoVal}}

\* The nibbles at which the trie holding the keys P branches below path p.
Children(P, p) == {k[Len(p) + 1] : k \in {q \in P : IsStrictPrefix(p, q)}}

\* delete_node_and_report_remaining_key_if_branch_collapsed: the path of
\* the node left alone under the branch that deleting key k collapses
\* (a set of at most one path).
RemainingKeyIfBranchCollapsed(P, k) ==
  LET branches == {p \in Prefixes(k) \ {k} : Cardinality(Children(P, p)) >= 2}
      deepest  == CHOOSE p \in branches : \A q \in branches : Len(q) <= Len(p)
  IN  IF k \notin P \/ branches = {} THEN {}
      ELSE LET left == Children(P \ {k}, deepest)
           IN  IF Cardinality(left) = 1 THEN {Append(deepest, x) : x \in left} ELSE {}

\* Walking path k through a sub-partial trie holding the keys P never
\* enters a hashed-out subtree: create_trie_subset can keep it.
Keepable(sub, P, k) ==
  \/ P = {}
  \/ \E p \in sub.kept : IsPrefix(k, p)
  \/ \E q \in Prefixes(k) \ {k} :
        /\ \E p \in sub.kept : IsPrefix(q, p)
        /\ ~\E x \in P : IsPrefix(Append(q, k[Len(q) + 1]), x)

\* The state trie's witness replaces whole subtrees by hash nodes; their
\* paths are state_hashed.  Path k lies under one of them.
HiddenPath(t, k) == \E p \in t.state_hashed : IsPrefix(p, k)

\* PartialTrie::get of an account: a walk that meets a hash node finds
\* nothing (mpt_trie, outside this repository).
StateGet(t, a) == IF HiddenPath(t, HashedAddr[a]) THEN NoVal ELSE t.state[a]

-----------------------------------------------------------------------------
(* Transaction processing *)

\* state_accounts_with_no_accesses_but_storage_tries, as the upstream trace
\* processing derives it: storage-touched accounts with no slot accessed
\* whose account record carries a non-empty storage root.
NoAccessButStorageRoots(tx, t) ==
  LET accs == {a \in DOMAIN tx.storage_accesses :
                 /\ tx.storage_accesses[a] = {}
                 /\ t.state[a] # NoVal
                 /\ t.state[a].storage_root # EmptyStorage}
  IN  [a \in accs |-> t.state[a].storage_root]

\* A plausible bug: an account without a known storage root gets no trie
\* (the unwrap_or_default dropped).
InitAnyNeededEmptyStorageTriesNoDefault(storage, accountsWithStorage, noAccessRoots) ==
  [a \in DOMAIN storage \cup (accountsWithStorage \cap DOMAIN noAccessRoots) |->
     IF a \in DOMAIN storage THEN storage[a]
     ELSE [kv |-> noAccessRoots[a], hashed |-> TRUE]]

\* init_any_needed_empty_storage_tries: an account without a storage trie
\* gets a hash-only one when its root is known, an empty one otherwise.
InitAnyNeededEmptyStorageTries(storage, accountsWithStorage, noAccessRoots) ==
  [a \in DOMAIN storage \cup accountsWithStorage |->
     IF a \in DOMAIN storage THEN storage[a]
     ELSE IF a \in DOMAIN noAccessRoots THEN [kv |-> noAccessRoots[a], hashed |-> TRUE]
     ELSE [kv |-> EmptyStorage, hashed |-> FALSE]]

\* TxnMetaState::txn_bytes: the raw transaction, or empty bytes.
TxnBytes(tx) == IF tx.txn_bytes THEN "signed_txn" ELSE "empty_bytes"

\* A plausible bug: the key encodes the index one too high.
UpdateTxnAndReceiptTriesKeyOffByOne(t, tx, idx) ==
  [t EXCEPT !.txn = ((idx + 1) :> TxnBytes(tx)) @@ @,
            !.receipt = ((idx + 1) :> "receipt") @@ @]

\* update_txn_and_receipt_tries: both tries keyed by the txn index.
UpdateTxnAndReceiptTries(t, tx, idx) ==
  [t EXCEPT !.txn = (idx :> TxnBytes(tx)) @@ @,
            !.receipt = (idx :> "receipt") @@ @]

\* The insert of a non-zero value, whose trie error is mapped with the slot
\* and the value; inserting into a hash-only trie is such an error.
InsertSlot(r, acc, slot, val) ==
  IF r.tries.storage[acc].hashed
  THEN [r EXCEPT !.err = [NewError("TrieOpError") EXCEPT !.slot = slot, !.slot_value = val]]
  ELSE [r EXCEPT !.tries.storage[acc].kv[slot] = val]

\* A plausible bug: a delete that does not report the collapsed branch.
WriteSlotNoCollapsePath(r, acc, slot, val) ==
  IF val # ZeroSlotVal THEN InsertSlot(r, acc, slot, val)
  ELSE [r EXCEPT !.tries.storage[acc].kv[slot] = NoVal]

\* A plausible bug: each delete's report replaces the account's earlier ones.
WriteSlotOverwritesPath(r, acc, slot, val) ==
  IF val # ZeroSlotVal THEN InsertSlot(r, acc, slot, val)
  ELSE [r EXCEPT !.tries.storage[acc].kv[slot] = NoVal,
                 !.out.storage_paths[acc] =
                    RemainingKeyIfBranchCollapsed(SlotPaths(r.tries.storage[acc].kv), HashedSlot[slot])]

\* A plausible bug: a zero value is stored instead of deleting the slot.
WriteSlotStoresZero(r, acc, slot, val) == InsertSlot(r, acc, slot, val)

\* One storage write.  A zero value is a delete, which has no error path
\* (delete_node_and_report_remaining_key_if_branch_collapsed returns an
\* Option) and may report the child a collapsed branch leaves alone.
WriteSlot(r, acc, slot, val) ==
  IF val # ZeroSlotVal THEN InsertSlot(r, acc, slot, val)
  ELSE [r EXCEPT !.tries.storage[acc].kv[slot] = NoVal,
                 !.out.storage_paths[acc] =
                    @ \cup RemainingKeyIfBranchCollapsed(SlotPaths(r.tries.storage[acc].kv), HashedSlot[slot])]

\* The orders in which a HashMap of storage writes may yield each account's
\* slots (iteration order is unspecified).
SlotOrders(sw) ==
  {f \in [DOMAIN sw -> UNION {SetToSeqs(DOMAIN sw[a]) : a \in DOMAIN sw}] :
     \A a \in DOMAIN sw : f[a] \in SetToSeqs(DOMAIN sw[a])}

\* The storage-write loop; ord gives the order each account's slots come in.
ApplyStorageWrites(r, sw, ord) ==
  FoldSet(LAMBDA acc, r1 :
            IF r1.err # NoVal THEN r1
            ELSE IF acc \notin DOMAIN r1.tries.storage
            THEN [r1 EXCEPT !.err = MissingStorageTrieError(acc)]
            ELSE FoldLeft(LAMBDA r2, slot :
                            IF r2.err # NoVal THEN r2
                            ELSE WriteSlot(r2, acc, slot, sw[acc][slot]),
                          r1, ord[acc]),
          r, DOMAIN sw)

\* A plausible bug: the balance field of the delta is not applied.
ApplyWritesToStateNodeNoBalance(account, w, storageRoot) ==
  [account EXCEPT !.storage_root = IF w.storage_trie_change THEN storageRoot ELSE @]

\* StateTrieWrites::apply_writes_to_state_node: only the fields the delta
\* carries change; the storage root is the hash of the live storage trie.
ApplyWritesToStateNode(account, w, storageRoot) ==
  [account EXCEPT !.balance = IF w.balance = NoVal THEN @ ELSE w.balance,
                  !.storage_root = IF w.storage_trie_change THEN storageRoot ELSE @]

ApplyStateWrites(r, sw) ==
  FoldSet(LAMBDA acc, r1 :
            IF r1.err # NoVal THEN r1
            ELSE IF sw[acc].storage_trie_change /\ acc \notin DOMAIN r1.tries.storage
            THEN [r1 EXCEPT !.err = MissingStorageTrieError(acc)]
            ELSE LET old  == StateGet(r1.tries, acc)
                     base == IF old = NoVal THEN EMPTY_ACCOUNT ELSE old
                     root == IF sw[acc].storage_trie_change
                             THEN r1.tries.storage[acc].kv ELSE NoVal
                 \* an insert under a hash node fails; its result is ignored
                 IN  IF HiddenPath(r1.tries, HashedAddr[acc]) THEN r1
                     ELSE [r1 EXCEPT !.tries.state[acc] =
                                       ApplyWritesToStateNode(base, sw[acc], root)],
          r, DOMAIN sw)

\* A self-destruct drops the storage trie, then deletes the account.
SelfDestruct(acc, r) ==
  LET storage == r.tries.storage
  IN  IF acc \notin DOMAIN storage
      THEN [r EXCEPT !.err = MissingStorageTrieError(acc)]
      ELSE [r EXCEPT !.tries.storage = [a \in DOMAIN storage \ {acc} |-> storage[a]],
                     !.tries.state[acc] = NoVal,
                     !.out.state_paths =
                        @ \cup RemainingKeyIfBranchCollapsed(AccountPaths(r.tries.state),
                                                             HashedAddr[acc])]

\* A plausible bug: state writes hash the storage tries before they are written.
ApplyDeltasStateFirst(t, tx, ord) ==
  LET r0 == [tries |-> t, err |-> NoVal, out |-> NoDeltaOutput]
      r1 == ApplyStateWrites(r0, tx.state_writes)
      r2 == IF r1.err # NoVal THEN r1 ELSE ApplyStorageWrites(r1, tx.storage_writes, ord)
  IN  FoldSet(LAMBDA acc, r : IF r.err # NoVal THEN r ELSE SelfDestruct(acc, r),
              r2, tx.self_destructed)

\* A plausible bug: self-destructs run before the state writes.
ApplyDeltasDestructFirst(t, tx, ord) ==
  LET r0 == [tries |-> t, err |-> NoVal, out |-> NoDeltaOutput]
      r1 == ApplyStorageWrites(r0, tx.storage_writes, ord)
      r2 == FoldSet(LAMBDA acc, r : IF r.err # NoVal THEN r ELSE SelfDestruct(acc, r),
                    r1, tx.self_destructed)
  IN  IF r2.err # NoVal THEN r2 ELSE ApplyStateWrites(r2, tx.state_writes)

\* apply_deltas_to_trie_state: storage writes, state writes, self-destructs,
\* stopping at the first error.
ApplyDeltasToTrieState(t, tx, ord) ==
  LET r0 == [tries |-> t, err |-> NoVal, out |-> NoDeltaOutput]
      r1 == ApplyStorageWrites(r0, tx.storage_writes, ord)
      r2 == IF r1.err # NoVal THEN r1 ELSE ApplyStateWrites(r1, tx.state_writes)
  IN  FoldSet(LAMBDA acc, r : IF r.err # NoVal THEN r ELSE SelfDestruct(acc, r),
              r2, tx.self_destructed)

\* create_minimal_partial_tries_needed_by_txn: subsets of the pre-txn tries
\* keeping the accessed keys and the paths delta application reported; a
\* key that reaches a hash node (of a hash-only storage trie, or of the
\* state trie's witness) is missing.  An accessed account with no storage
\* trie is a hard error (spec section 8: the registry's lookup reports it).
CreateMinimalPartialTries(snap, tx, idx, out) ==
  LET accs == DOMAIN tx.storage_accesses \cap DOMAIN snap.storage
      noTrie == DOMAIN tx.storage_accesses \ DOMAIN snap.storage
      slotKeys(a) == {HashedSlot[s] : s \in tx.storage_accesses[a]} \cup out.storage_paths[a]
      stateKeys == {HashedAddr[a] : a \in tx.state_accesses} \cup out.state_paths
      missing == \/ \E a \in accs : snap.storage[a].hashed /\ slotKeys(a) # {}
                 \/ \E k \in stateKeys : HiddenPath(snap, k)
  IN  [err   |-> CASE noTrie # {} -> MissingStorageTrieError(CHOOSE a \in noTrie : TRUE)
                   [] missing     -> NewError("MissingKeysCreatingSubPartialTrie")
                   [] OTHER       -> NoVal,
       tries |->
         [state   |-> [root |-> snap.state, kept |-> stateKeys],
          storage |-> [a \in accs |-> [root |-> snap.storage[a].kv, kept |-> slotKeys(a)]],
          txn     |-> [root |-> snap.txn, kept |-> {<<idx>>}],
          receipt |-> [root |-> snap.receipt, kept |-> {<<idx>>}]]]

\* calculate_trie_input_hashes of the live tries.
CalculateTrieInputHashes(t) ==
  [state_root |-> t.state, transactions_root |-> t.txn, receipts_root |-> t.receipt]

\* The roots of a unit's sub-partial tries (what the prover starts from).
SubTrieRoots(sub) ==
  [state_root |-> sub.state.root, transactions_root |-> sub.txn.root,
   receipts_root |-> sub.receipt.root]

\* The "after" counters advance before the txn is processed.
AdvanceAfterCounters(ex, tx) ==
  [ex EXCEPT !.txn_number_after = @ + 1, !.gas_used_after = @ + tx.gas_used]

\* A plausible bug: the "before" gas is not carried forward.
AdvanceBeforeCountersStaleGas(ex) ==
  [ex EXCEPT !.txn_number_before = @ + 1]

\* The "before" counters catch up once the unit is assembled.
AdvanceBeforeCounters(ex) ==
  [ex EXCEPT !.txn_number_before = @ + 1, !.gas_used_before = ex.gas_used_after]

\* The steps of process_txn_info up to the subsets: seed storage tries,
\* advance the "after" counters, snapshot, insert txn and receipt, apply
\* the deltas, build the subsets from the snapshot.
TxnSteps(idx, tx, t, ex, ord) ==
  LET t1 == [t EXCEPT !.storage = InitAnyNeededEmptyStorageTries(
                                    @, DOMAIN tx.storage_accesses,
                                    NoAccessButStorageRoots(tx, t))]
      d  == ApplyDeltasToTrieState(UpdateTxnAndReceiptTries(t1, tx, idx), tx, ord)
  IN  [ex1 |-> AdvanceAfterCounters(ex, tx), d |-> d,
       sub |-> CreateMinimalPartialTries(t1, tx, idx, d.out)]

\* The GenerationInputs of the txn, with the live roots after it, and the
\* "before" counters advanced.
GenInputs(tx, st) ==
  [err   |-> NoVal,
   tries |-> st.d.tries,
   extra |-> AdvanceBeforeCounters(st.ex1),
   unit  |-> [signed_txn |-> tx.txn_bytes,
              txn_number_before |-> st.ex1.txn_number_before,
              gas_used_before |-> st.ex1.gas_used_before,
              gas_used_after |-> st.ex1.gas_used_after,
              tries |-> st.sub.tries,
              trie_roots_after |-> CalculateTrieInputHashes(st.d.tries),
              withdrawals |-> <<>>]]

\* A plausible bug: the subset builder's error is dropped, as the state
\* inserts' errors are.
ProcessTxnInfoIgnoresSubsetError(idx, tx, t, ex, ord) ==
  LET st == TxnSteps(idx, tx, t, ex, ord)
  IN  IF st.d.err # NoVal THEN [err |-> st.d.err] ELSE GenInputs(tx, st)

\* process_txn_info: the first error of delta application or of the
\* subset builder (the ? operators), else the unit.
ProcessTxnInfo(idx, tx, t, ex, ord) ==
  LET st == TxnSteps(idx, tx, t, ex, ord)
  IN  CASE st.d.err # NoVal   -> [err |-> st.d.err]
        [] st.sub.err # NoVal -> [err |-> st.sub.err]
        [] OTHER              -> GenInputs(tx, st)

\* The map_err closures of process_txns: txn index, then block context.
StampTxnError(e, idx) ==
  [e EXCEPT !.txn_idx = idx, !.block_num = BlockNum, !.block_chain_id = ChainId]

-----------------------------------------------------------------------------
(* Padding and withdrawals *)

\* create_dummy_proof_trie_inputs: every trie of the given state hashed out,
\* except the state trie passed in.
CreateDummyProofTrieInputs(t, stateSub) ==
  [state   |-> stateSub,
   storage |-> [a \in DOMAIN t.storage |-> [root |-> t.storage[a].kv, kept |-> {}]],
   txn     |-> [root |-> t.txn, kept |-> {}],
   receipt |-> [root |-> t.receipt, kept |-> {}]]

\* The sanity assertions of create_dummy_gen_input_common (a panic if false).
DummyCountersEqual(ex) ==
  /\ ex.txn_number_before = ex.txn_number_after
  /\ ex.gas_used_before = ex.gas_used_after

\* create_fully_hashed_out_sub_partial_trie: a subset keeping no key.
CreateFullyHashedOutSubPartialTrie(trie) == [root |-> trie, kept |-> {}]

\* create_dummy_gen_input_common: a non-mutating unit whose roots are the
\* roots of its own sub-tries (the counter asserts are PaddingAssertionsHold).
CreateDummyGenInputCommon(ex, sub) ==
  [signed_txn |-> FALSE,
   txn_number_before |-> ex.txn_number_before,
   gas_used_before |-> ex.gas_used_before,
   gas_used_after |-> ex.gas_used_after,
   tries |-> sub,
   trie_roots_after |-> SubTrieRoots(sub),
   withdrawals |-> <<>>]

\* create_dummy_gen_input: a dummy over a fully hashed-out state trie.
CreateDummyGenInput(ex, t) ==
  CreateDummyGenInputCommon(
    ex, CreateDummyProofTrieInputs(t, CreateFullyHashedOutSubPartialTrie(t.state)))

\* create_dummy_txn_pair_for_empty_block: two identical dummies.
CreateDummyTxnPairForEmptyBlock(ex, t) ==
  << CreateDummyGenInput(ex, t), CreateDummyGenInput(ex, t) >>

\* A plausible bug: the prepended dummy is built from the final tries.
PadFromFinalTries(gen, finalExtra, initialExtra, initial, final) ==
  CASE Len(gen) = 0 -> CreateDummyTxnPairForEmptyBlock(finalExtra, initial)
    [] Len(gen) = 1 -> << CreateDummyGenInput(initialExtra, final) >> \o gen
    [] OTHER        -> gen

\* pad_gen_inputs_with_dummy_inputs_if_needed: two dummies for an empty
\* block, one dummy from the pre-block tries prepended to a single txn
\* (the final tries only feed a debug assertion).
PadGenInputsWithDummyInputsIfNeeded(gen, finalExtra, initialExtra, initial, final) ==
  CASE Len(gen) = 0 -> CreateDummyTxnPairForEmptyBlock(finalExtra, initial)
    [] Len(gen) = 1 -> << CreateDummyGenInput(initialExtra, initial) >> \o gen
    [] OTHER        -> gen

\* The assertions padding runs into (a panic if false): in the empty-block
\* arm the debug_assert!s that the block changed nothing, and in both arms
\* the counter checks of create_dummy_gen_input_common on the extra data
\* the dummies are built from.
PaddingAssertionsHold(gen, finalExtra, initialExtra, initial, final) ==
  /\ Len(gen) = 0 => initial.state = final.state /\ initialExtra = finalExtra
  /\ Len(gen) = 0 => DummyCountersEqual(finalExtra)
  /\ Len(gen) = 1 => DummyCountersEqual(initialExtra)

\* create_minimal_state_partial_trie of a sub-partial trie: fails when a
\* requested key lies under a hashed-out node.
CreateMinimalStatePartialTrie(sub, keys) ==
  IF \A k \in keys : Keepable(sub, AccountPaths(sub.root), k)
  THEN [err |-> NoVal, sub |-> [sub EXCEPT !.kept = @ \cup keys]]
  ELSE [err |-> NewError("MissingKeysCreatingSubPartialTrie")]

\* update_trie_state_from_withdrawals: credit each recipient in list order;
\* an absent account is an error carrying the address.
UpdateTrieStateFromWithdrawals(ws, t) ==
  FoldLeft(LAMBDA r, w :
             IF r.err # NoVal THEN r
             ELSE IF StateGet([t EXCEPT !.state = r.state], w[1]) = NoVal
             THEN [r EXCEPT !.err = [NewError("MissingWithdrawalAccount")
                                       EXCEPT !.addr = w[1], !.h_addr = w[1]]]
             ELSE [r EXCEPT !.state[w[1]].balance = @ + w[2]],
           [state |-> t.state, err |-> NoVal], ws)

\* A plausible bug: the withdrawals are put into the first unit.
AddWithdrawalsToFirstUnit(gen, t, ws) ==
  LET first   == gen[1]
      widened == IF first.signed_txn THEN [err |-> NoVal, sub |-> first.tries.state]
                 ELSE CreateMinimalStatePartialTrie(
                        first.tries.state, {HashedAddr[ws[i][1]] : i \in DOMAIN ws})
      upd     == UpdateTrieStateFromWithdrawals(ws, t)
  IN  IF widened.err # NoVal THEN [err |-> widened.err]
      ELSE IF upd.err # NoVal THEN [err |-> upd.err]
      ELSE [err   |-> NoVal,
            tries |-> [t EXCEPT !.state = upd.state],
            ir    |-> [gen EXCEPT ![1] =
                         [first EXCEPT !.tries.state = widened.sub,
                                       !.withdrawals = ws,
                                       !.trie_roots_after.state_root = upd.state]]]

\* add_withdrawals_to_txns: a dummy last unit first widens its state
\* sub-trie to the recipients; then the live balances are credited and the
\* last unit carries the withdrawals and the post-withdrawal state root.
AddWithdrawalsToTxns(gen, t, ws) ==
  LET last    == gen[Len(gen)]
      widened == IF last.signed_txn THEN [err |-> NoVal, sub |-> last.tries.state]
                 ELSE CreateMinimalStatePartialTrie(
                        last.tries.state, {HashedAddr[ws[i][1]] : i \in DOMAIN ws})
      upd     == UpdateTrieStateFromWithdrawals(ws, t)
  IN  IF widened.err # NoVal THEN [err |-> widened.err]
      ELSE IF upd.err # NoVal THEN [err |-> upd.err]
      ELSE [err   |-> NoVal,
            tries |-> [t EXCEPT !.state = upd.state],
            ir    |-> [gen EXCEPT ![Len(gen)] =
                         [last EXCEPT !.tries.state = widened.sub,
                                      !.withdrawals = ws,
                                      !.trie_roots_after.state_root = upd.state]]]

\* The part of process_txns after the loop: padding, then withdrawals.
FinishTxns(ws) ==
  LET padded == PadGenInputsWithDummyInputsIfNeeded(ir, extra, InitialExtraData, initTries, tries)
  IN  IF ws = <<>> THEN [err |-> NoVal, ir |-> padded, tries |-> tries]
      ELSE AddWithdrawalsToTxns(padded, tries, ws)

-----------------------------------------------------------------------------
(* The specification *)

\* The pre-block storage tries the block's witness did not include: accounts
\* whose storage root is non-empty but that have no storage trie.
Unwitnessed ==
  {a \in Accounts : /\ initTries.state[a] # NoVal
                    /\ initTries.state[a].storage_root # EmptyStorage
                    /\ a \notin DOMAIN initTries.storage}

\* The upstream trace never accesses slots of storage it did not witness.
WellFormedTxn(tx) ==
  \A a \in Unwitnessed :
    /\ a \in DOMAIN tx.storage_accesses => tx.storage_accesses[a] = {}
    /\ a \notin DOMAIN tx.storage_writes

Init ==
  /\ tries \in PreImages
  /\ initTries = tries
  /\ extra = InitialExtraData
  /\ ir = <<>>
  /\ txns = <<>>
  /\ withdrawals = <<>>
  /\ phase = "txns"
  /\ err = NoVal

\* One iteration of the loop in process_txns that succeeds.
ProcessTxn ==
  /\ phase = "txns"
  /\ Len(txns) < MaxTxns
  /\ \E tx \in TxnInfos : \E ord \in SlotOrders(tx.storage_writes) :
       LET res == ProcessTxnInfo(Len(txns), tx, tries, extra, ord)
       IN  /\ WellFormedTxn(tx)
           /\ res.err = NoVal
           /\ tries' = res.tries
           /\ extra' = res.extra
           /\ ir' = Append(ir, res.unit)
           /\ txns' = Append(txns, tx)
  /\ UNCHANGED <<initTries, withdrawals, phase, err>>

\* One iteration that fails: process_txns returns the stamped error and
\* no IR (the live tries it mutated are dropped with it).
ProcessTxnFails ==
  /\ phase = "txns"
  /\ Len(txns) < MaxTxns
  /\ \E tx \in TxnInfos : \E ord \in SlotOrders(tx.storage_writes) :
       LET res == ProcessTxnInfo(Len(txns), tx, tries, extra, ord)
       IN  /\ WellFormedTxn(tx)
           /\ res.err # NoVal
           /\ err' = StampTxnError(res.err, Len(txns))
           /\ txns' = Append(txns, tx)
  /\ phase' = "failed"
  /\ UNCHANGED <<tries, initTries, extra, ir, withdrawals>>

\* The loop ends (the block had Len(txns) transactions); padding and
\* withdrawals succeed.
FinishBlock ==
  /\ phase = "txns"
  /\ PaddingAssertionsHold(ir, extra, InitialExtraData, initTries, tries)
  /\ \E ws \in WithdrawalLists :
       LET res == FinishTxns(ws)
       IN  /\ res.err = NoVal
           /\ ir' = res.ir
           /\ tries' = res.tries
           /\ withdrawals' = ws
  /\ phase' = "done"
  /\ UNCHANGED <<initTries, extra, txns, err>>

\* The withdrawal step fails; its error is returned as it is.
FinishBlockFails ==
  /\ phase = "txns"
  /\ PaddingAssertionsHold(ir, extra, InitialExtraData, initTries, tries)
  /\ \E ws \in WithdrawalLists :
       LET res == FinishTxns(ws)
       IN  /\ res.err # NoVal
           /\ err' = res.err
           /\ withdrawals' = ws
  /\ phase' = "failed"
  /\ UNCHANGED <<tries, initTries, extra, ir, txns>>

\* into_proof_gen_ir has returned.
Terminated ==
  /\ phase \in {"done", "failed"}
  /\ UNCHANGED vars

Next ==
  \/ ProcessTxn
  \/ ProcessTxnFails
  \/ FinishBlock
  \/ FinishBlockFails
  \/ Terminated

Spec == Init /\ [][Next]_vars

-----------------------------------------------------------------------------
(* Properties *)

StorageTries == [kv : StorageContents, hashed : BOOLEAN]
AccountRlp == [balance : Nat, storage_root : StorageContents]
SubTrie(Roots, Paths) == [root : Roots, kept : SUBSET Paths]
AnyPath == UNION {Prefixes(k) : k \in {HashedAddr[a] : a \in Accounts}
                                      \cup {HashedSlot[s] : s \in Slots}}
StateContents == [Accounts -> AccountRlp \cup {NoVal}]
TxnContents == [TxnIdx -> {NoVal, "signed_txn", "empty_bytes"}]
ReceiptContents == [TxnIdx -> {NoVal, "receipt"}]
TrieRoots == [state_root : StateContents, transactions_root : TxnContents,
              receipts_root : ReceiptContents]

IsTrieState(t) ==
  /\ t.state \in StateContents
  /\ t.state_hashed \subseteq AnyPath
  /\ DOMAIN t.storage \subseteq Accounts
  /\ \A a \in DOMAIN t.storage : t.storage[a] \in StorageTries
  /\ t.txn \in TxnContents
  /\ t.receipt \in ReceiptContents

IsUnit(u) ==
  /\ u.signed_txn \in BOOLEAN
  /\ {u.txn_number_before, u.gas_used_before, u.gas_used_after} \subseteq Nat
  /\ u.tries.state \in SubTrie(StateContents, AnyPath)
  /\ DOMAIN u.tries.storage \subseteq Accounts
  /\ \A a \in DOMAIN u.tries.storage : u.tries.storage[a] \in SubTrie(StorageContents, AnyPath)
  /\ u.tries.txn \in SubTrie(TxnContents, {<<i>> : i \in TxnIdx})
  /\ u.tries.receipt \in SubTrie(ReceiptContents, {<<i>> : i \in TxnIdx})
  /\ u.trie_roots_after \in TrieRoots
  /\ u.withdrawals \in WithdrawalLists

\* Every variable holds a value of its type; in particular the txn and
\* receipt tries are keyed by the block's transaction indices only.
TypeOK ==
  /\ IsTrieState(tries) /\ IsTrieState(initTries)
  /\ extra \in [txn_number_before : Nat, txn_number_after : Nat,
                gas_used_before : Nat, gas_used_after : Nat]
  /\ \A i \in DOMAIN ir : IsUnit(ir[i])
  /\ txns \in Seq(TxnInfos)
  /\ withdrawals \in WithdrawalLists
  /\ phase \in {"txns", "done", "failed"}
  /\ err = NoVal <=> phase # "failed"
  /\ err # NoVal => err \in TraceParsingErrors

\* Units before the real ones are padding dummies.
NumDummies == Len(ir) - Len(txns)

GasPrefix(n) == FoldLeft(LAMBDA g, tx : g + tx.gas_used, 0, SubSeq(txns, 1, n))

\* Counter bookkeeping of process_txn_info and the padding: the j-th real
\* unit starts at txn number j-1 and at the gas the j-1 earlier txns used,
\* and ends at the gas the first j used; every dummy, prepended or padding
\* an empty block, carries zero counters.  (spec section 8, "counter
\* monotonicity", in its strongest form.)
CountersMatchBlock ==
  phase # "failed" =>
    \A i \in 1 .. Len(ir) :
      IF i <= NumDummies
      THEN /\ ir[i].txn_number_before = 0
           /\ ir[i].gas_used_before = 0
           /\ ir[i].gas_used_after = 0
      ELSE LET j == i - NumDummies
           IN  /\ ir[i].txn_number_before = j - 1
               /\ ir[i].gas_used_before = GasPrefix(j - 1)
               /\ ir[i].gas_used_after = GasPrefix(j)

\* Continuity of state across the IR list: the first unit's sub-tries hash
\* to the pre-block roots, each unit's sub-tries hash to the roots the
\* previous unit ends at, and the last unit ends at the live roots (after
\* withdrawals).  This is what the pre-txn clone in process_txn_info, the
\* pre-block clone used for a prepended dummy and the state-root overwrite
\* in add_withdrawals_to_txns are for.
RootsChain ==
  (phase # "failed" /\ ir # <<>>) =>
    /\ SubTrieRoots(ir[1].tries) = CalculateTrieInputHashes(initTries)
    /\ \A i \in 1 .. Len(ir) - 1 : SubTrieRoots(ir[i + 1].tries) = ir[i].trie_roots_after
    /\ ir[Len(ir)].trie_roots_after = CalculateTrieInputHashes(tries)

\* A sub-partial trie keeps the node at path p un-hashed.
NodeKept(sub, p) == \E r \in sub.kept : IsPrefix(p, r)

\* Every branch of the pre-txn trie (keys pre) that the txn leaves with a
\* single child (keys post) has that child kept in the sub-trie.
CollapseKept(sub, pre, post) ==
  \A p \in UNION {Prefixes(k) : k \in pre} :
    (Cardinality(Children(pre, p)) >= 2 /\ Cardinality(Children(post, p)) = 1)
       => \A x \in Children(post, p) : NodeKept(sub, Append(p, x))

\* A unit's sub-tries let the prover replay its deletions: whenever a
\* self-destruct or a zero storage write collapses a branch of the state
\* trie or of a storage trie, the surviving sibling is not hashed out.
\* This is what TrieDeltaApplicationOutput carries from
\* apply_deltas_to_trie_state to the subset builder.
CollapsedSiblingsKept ==
  \A i \in 1 .. Len(ir) :
    LET u    == ir[i]
        post == u.trie_roots_after.state_root
    IN  /\ CollapseKept(u.tries.state, AccountPaths(u.tries.state.root), AccountPaths(post))
        /\ \A a \in DOMAIN u.tries.storage :
             post[a] # NoVal =>
               CollapseKept(u.tries.storage[a], SlotPaths(u.tries.storage[a].root),
                            SlotPaths(post[a].storage_root))

\* The live state trie records, for every account that has a storage trie,
\* that trie's root: storage writes are applied before the state writes
\* that hash them, self-destructs drop both, and seeding never replaces a
\* known root with an empty trie.
StorageRootsConsistent ==
  \A a \in DOMAIN tries.storage :
    tries.state[a] # NoVal => tries.state[a].storage_root = tries.storage[a].kv

\* A self-destruct wins over the same txn's state writes: the post-txn
\* state root of the unit has no entry for the account, and after the
\* latest txn the account has no storage trie either.
SelfDestructRemoves ==
  phase # "failed" =>
    /\ \A j \in 1 .. Len(txns) :
         \A a \in txns[j].self_destructed :
           ir[NumDummies + j].trie_roots_after.state_root[a] = NoVal
    /\ txns # <<>> =>
         \A a \in txns[Len(txns)].self_destructed : a \notin DOMAIN tries.storage

\* A storage trie is lost only by a self-destruct: when a txn fails with
\* MissingAccountStorageTrie, the txn does not access the account's storage
\* (init_any_needed_empty_storage_tries would have created the trie), and
\* the trie was never witnessed or an earlier txn of the block
\* self-destructed the account.  It is about the storage-trie map shared by
\* the txns of a block: the init step, the delta application and the
\* self-destruct loop.
StorageTrieLostOnlyBySelfDestruct ==
  (phase = "failed" /\ Len(txns) = Len(ir) + 1
                    /\ err.reason = "MissingAccountStorageTrie") =>
    LET a == err.h_addr
    IN  /\ a \notin DOMAIN txns[Len(txns)].storage_accesses
        /\ \/ a \notin DOMAIN initTries.storage
           \/ \E j \in 1 .. Len(txns) - 1 : a \in txns[j].self_destructed

\* spec section 4.4: after the loop, adding withdrawals fails only when a
\* recipient account is absent ("missing withdrawal account"); a dummy last
\* unit is first widened to the recipients.
WithdrawalsFailOnlyOnMissingAccount ==
  (phase = "failed" /\ Len(txns) = Len(ir)) => err.reason = "MissingWithdrawalAccount"

\* spec section 3: a unit is never changed once created, except that the
\* last one receives the withdrawals, a widened state sub-trie and the
\* post-withdrawal state root; padding only adds units around the existing
\* ones.  It is about the in-place updates of add_withdrawals_to_txns and
\* the insert(0, ..) of the padding.
UnitsOnlyLastAmended ==
  [][\E k \in 0 .. (Len(ir') - Len(ir)) :
       \A i \in 1 .. Len(ir) :
         LET new == ir'[k + i]
         IN  \/ new = ir[i]
             \/ /\ i = Len(ir) /\ k + i = Len(ir')
                /\ ir[i].tries.state.kept \subseteq new.tries.state.kept
                /\ new = [ir[i] EXCEPT !.withdrawals = new.withdrawals,
                                      !.tries.state.kept = new.tries.state.kept,
                                      !.trie_roots_after.state_root =
                                         new.trie_roots_after.state_root]]_ir

-----------------------------------------------------------------------------
(* Refinement of BlockReplay *)

\* A trie-roots record read as a world.
WorldOf(r) == [state |-> r.state_root, txn |-> r.transactions_root, receipt |-> r.receipts_root]

\* Dummy units exist only once padding has run.
PaddingUnits == IF phase = "done" THEN NumDummies ELSE 0

\* The real units as [pre, post] world pairs: the roots of a unit's
\* sub-tries and the roots it ends at.
ProvenPairs ==
  [i \in 1 .. Len(ir) - PaddingUnits |->
     [pre  |-> WorldOf(SubTrieRoots(ir[PaddingUnits + i].tries)),
      post |-> WorldOf(ir[PaddingUnits + i].trie_roots_after)]]

Replay == INSTANCE BlockReplay
            WITH world      <- WorldOf(CalculateTrieInputHashes(tries)),
                 proven     <- ProvenPairs,
                 applied    <- txns,
                 status     <- CASE phase = "txns" -> "open"
                                 [] phase = "done" -> "closed"
                                 [] OTHER          -> "failed",
                 InitWorlds <- {WorldOf(CalculateTrieInputHashes(t)) : t \in PreImages}

\* The decoder implements BlockReplay: the live tries always hold the
\* world the block's transactions produce, each real unit proves exactly
\* one transaction's effect from the world before it, and a withdrawal
\* credit moves the last unit's end.  It is about the whole of
\* process_txn_info and apply_deltas_to_trie_state (every delta, in the
\* order they are applied) and about add_withdrawals_to_txns.
ReplayRefined == Replay!ReplaySpec
=============================================================================
