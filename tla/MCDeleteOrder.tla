---------------------------- MODULE MCDeleteOrder ----------------------------
(***************************************************************************)
(* Instantiates TraceDecoding for transactions that write and delete      *)
(* several slots of one account at once.  The slot keys form a two-level   *)
(* trie: s1 sits under the root's nibble 0, s2 and s3 under a branch at    *)
(* nibble 1, so deleting two of them can collapse two branches, and which  *)
(* node is left alone first depends on the order of the deletes.           *)
(***************************************************************************)
EXTENDS TraceDecoding

CONSTANTS a1, s1, s2, s3, v1, zero

MCAccounts == {a1}
MCSlots == {s1, s2, s3}
MCHashedAddr == (a1 :> <<0>>)
MCHashedSlot == (s1 :> <<0>>) @@ (s2 :> <<1, 0>>) @@ (s3 :> <<1, 1>>)
MCSlotVals == {v1}
NoFn == [x \in {} |-> NoVal]

\* a1 holds any subset of the slots, its storage trie witnessed.
MCPreImages ==
  { LET kv == [s \in MCSlots |-> IF s \in present THEN v1 ELSE NoVal]
    IN  [state_hashed |-> {},
         state   |-> (a1 :> [balance |-> 0, storage_root |-> kv]),
         storage |-> (a1 :> [kv |-> kv, hashed |-> FALSE]),
         txn     |-> [i \in TxnIdx |-> NoVal],
         receipt |-> [i \in TxnIdx |-> NoVal]]
    : present \in SUBSET MCSlots }

\* A txn writing v1 or zero to each slot of a non-empty set, as the
\* upstream trace presents it (the written slots accessed, the account's
\* state write flagged storage_trie_change).
MCTxnInfos ==
  { [storage_accesses |-> (a1 :> DOMAIN w),
     storage_writes   |-> (a1 :> w),
     state_writes     |-> (a1 :> [balance |-> NoVal, storage_trie_change |-> TRUE]),
     self_destructed  |-> {},
     state_accesses   |-> {a1},
     txn_bytes        |-> TRUE,
     gas_used         |-> 1]
    : w \in UNION {[W -> {v1, zero}] : W \in SUBSET MCSlots \ {{}}} }

MCWithdrawalLists == {<<>>}
=============================================================================
