--------------------------- MODULE MCTraceDecoding ---------------------------
(***************************************************************************)
(* Instantiates TraceDecoding for TLC: two accounts and two slots whose    *)
(* hashed keys differ in the first nibble (so a trie of both is a branch   *)
(* and deleting one collapses it), blocks of up to MaxTxns transactions,   *)
(* each transaction acting on one account.                                 *)
(***************************************************************************)
EXTENDS TraceDecoding

CONSTANTS a1, a2, s1, s2, v1, zero

MCAccounts == {a1, a2}
MCSlots == {s1, s2}
MCHashedAddr == (a1 :> <<0>>) @@ (a2 :> <<1>>)
MCHashedSlot == (s1 :> <<0>>) @@ (s2 :> <<1>>)
MCSlotVals == {v1}

FullStorage == [s \in MCSlots |-> v1]
EmptyKv == [s \in MCSlots |-> NoVal]
NoFn == [x \in {} |-> NoVal]

(* What a pre-image may hold for one account: nothing; an account whose    *)
(* storage trie is present (empty or with both slots); an account with     *)
(* both slots whose storage trie the witness omitted.                      *)
AccountImages ==
  { [acc |-> NoVal,                                           st |-> NoVal],
    [acc |-> [balance |-> 0, storage_root |-> EmptyKv],     st |-> [kv |-> EmptyKv, hashed |-> FALSE]],
    [acc |-> [balance |-> 0, storage_root |-> FullStorage], st |-> [kv |-> FullStorage, hashed |-> FALSE]],
    [acc |-> [balance |-> 0, storage_root |-> FullStorage], st |-> NoVal] }

MCPreImages ==
  { LET withTrie == {a \in MCAccounts : img[a].st # NoVal}
    IN  [state_hashed |-> {},
         state   |-> [a \in MCAccounts |-> img[a].acc],
         storage |-> [a \in withTrie |-> img[a].st],
         txn     |-> [i \in TxnIdx |-> NoVal],
         receipt |-> [i \in TxnIdx |-> NoVal]]
    : img \in [MCAccounts -> AccountImages] }

(* The storage part of a transaction on one account: none, a slot-less     *)
(* touch, a read, a write, or a zero write (a delete) of either slot; the  *)
(* two slots are alike, so one of them stands for both where they are.     *)
StorageOps ==
  {[kind |-> "none", slot |-> NoVal, val |-> NoVal],
   [kind |-> "touch", slot |-> NoVal, val |-> NoVal]}
  \cup {[kind |-> "read", slot |-> s1, val |-> NoVal],
       [kind |-> "write", slot |-> s1, val |-> v1],
       [kind |-> "write", slot |-> s1, val |-> zero],
       [kind |-> "write", slot |-> s2, val |-> zero]}

(* A NodesUsedByTxn as the upstream trace processing builds it: written    *)
(* slots are accessed, an account with storage writes has a state write    *)
(* flagged storage_trie_change, the account is in the state accesses.     *)
MkTxn(a, sop, setBalance, destruct, signed) ==
  LET writes == sop.kind = "write"
  IN  [storage_accesses |-> CASE sop.kind = "none"  -> NoFn
                              [] sop.kind = "touch" -> (a :> {})
                              [] OTHER              -> (a :> {sop.slot}),
       storage_writes   |-> IF writes THEN (a :> (sop.slot :> sop.val)) ELSE NoFn,
       state_writes     |-> IF setBalance \/ writes
                            THEN (a :> [balance |-> IF setBalance THEN 1 ELSE NoVal,
                                        storage_trie_change |-> writes])
                            ELSE NoFn,
       self_destructed  |-> IF destruct THEN {a} ELSE {},
       state_accesses   |-> {a},
       txn_bytes        |-> signed,
       gas_used         |-> 1]

MCTxnInfos ==
  {MkTxn(a, sop, b, d, sg) : a \in MCAccounts, sop \in StorageOps,
                             b \in BOOLEAN, d \in BOOLEAN, sg \in BOOLEAN}

MCWithdrawalLists == {<<>>, << <<a1, 1>> >>}
=============================================================================
