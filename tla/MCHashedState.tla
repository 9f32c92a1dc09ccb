---------------------------- MODULE MCHashedState ----------------------------
(***************************************************************************)
(* Instantiates TraceDecoding with a state-trie witness that hides part of *)
(* the state behind hash nodes.  The account keys form a two-level trie:   *)
(* a1 under the root's nibble 0, a2 and a3 under a branch at nibble 1.  A  *)
(* hash node sits at the branch <<1>> (hiding a2 and a3, and the place a   *)
(* new a3 would go) or at a2's leaf <<1, 0>>.  Transactions set a balance; *)
(* a1 is always witnessed.  Self-destructs are left out: how the trie      *)
(* collapses a branch onto a hash node is up to mpt_trie, which is not in  *)
(* this repository.                                                        *)
(***************************************************************************)
EXTENDS TraceDecoding

CONSTANTS a1, a2, a3, s1, v1, zero

MCAccounts == {a1, a2, a3}
MCSlots == {s1}
MCHashedAddr == (a1 :> <<0>>) @@ (a2 :> <<1, 0>>) @@ (a3 :> <<1, 1>>)
MCHashedSlot == (s1 :> <<0>>)
MCSlotVals == {v1}
NoFn == [x \in {} |-> NoVal]

EmptyKv == [s \in MCSlots |-> NoVal]
Acc == [balance |-> 0, storage_root |-> EmptyKv]

\* The hash nodes a witness of the accounts in P may have: none, the
\* branch at <<1>> when it holds an account, a2's leaf when a3 is there
\* too (otherwise a2's leaf would sit at <<1>>).
HashNodes(P) ==
  {{}} \cup (IF P \cap {a2, a3} # {} THEN {{<<1>>}} ELSE {})
       \cup (IF {a2, a3} \subseteq P THEN {{<<1, 0>>}} ELSE {})

\* Witnessed accounts come with their (empty) storage trie.
MCPreImages ==
  UNION { { [state_hashed |-> H,
             state   |-> [a \in MCAccounts |-> IF a \in P THEN Acc ELSE NoVal],
             storage |-> [a \in {b \in P : ~\E p \in H : IsPrefix(p, MCHashedAddr[b])}
                            |-> [kv |-> EmptyKv, hashed |-> FALSE]],
             txn     |-> [i \in TxnIdx |-> NoVal],
             receipt |-> [i \in TxnIdx |-> NoVal]]
          : H \in HashNodes(P) }
        : P \in {{a1} \cup Q : Q \in SUBSET {a2, a3}} }

\* A balance write to one account, which is also its state access.
MCTxnInfos ==
  { [storage_accesses |-> NoFn,
     storage_writes   |-> NoFn,
     state_writes     |-> (a :> [balance |-> 1, storage_trie_change |-> FALSE]),
     self_destructed  |-> {},
     state_accesses   |-> {a},
     txn_bytes        |-> TRUE,
     gas_used         |-> 1]
    : a \in MCAccounts }

MCWithdrawalLists == {<<>>, << <<a1, 1>> >>, << <<a2, 1>> >>}
=============================================================================
