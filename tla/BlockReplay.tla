---------------------------- MODULE BlockReplay -----------------------------
(***************************************************************************)
(* What decoding a block promises, stated over world states instead of    *)
(* tries.  A block's transactions are replayed in order; each successful  *)
(* one turns the world state into its effect and is proven by one entry   *)
(* from the world before it to the world after it.  Closing the block     *)
(* credits the withdrawals and moves the last entry's end to the credited *)
(* world.  Any step may fail instead, and a failed block proves nothing   *)
(* further.  Padding, sub-tries, storage tries and the order in which the *)
(* decoder applies a delta do not appear here.                            *)
(*                                                                         *)
(* A world is [state, txn, receipt]: the state maps each account to its    *)
(* record (balance and storage contents) or to NoVal, txn and receipt map  *)
(* each transaction index to its entry.                                    *)
(***************************************************************************)
EXTENDS Naturals, Sequences, SequencesExt

CONSTANTS
  Accounts, Slots, ZeroSlotVal, NoVal,
  MaxTxns,          \* bound on the number of transactions in a block
  TxnInfos,         \* the transactions a block may contain
  WithdrawalLists,  \* the (account, amount) lists a block may carry
  InitWorlds        \* the worlds a block may start from

VARIABLES
  world,    \* the world state after the transactions replayed so far
  proven,   \* one [pre, post] world pair per successful transaction
  applied,  \* the transactions consumed so far
  status    \* "open", "closed" or "failed"

replayVars == <<world, proven, applied, status>>

\* The account a state write creates when the account does not exist.
EmptyAccount == [balance |-> 0, storage_root |-> [s \in Slots |-> NoVal]]

\* Storage contents after a transaction's writes: a zero value removes.
Written(kv, w) ==
  [s \in Slots |-> IF s \notin DOMAIN w THEN kv[s]
                   ELSE IF w[s] = ZeroSlotVal THEN NoVal ELSE w[s]]

\* The record of account a after transaction tx: a self-destructed account
\* is gone; a written one takes the new balance and storage.
AccountAfter(s, tx, a) ==
  LET base == IF s[a] = NoVal THEN EmptyAccount ELSE s[a]
      sw   == tx.state_writes[a]
  IN  CASE a \in tx.self_destructed     -> NoVal
        [] a \in DOMAIN tx.state_writes ->
             [balance |-> IF sw.balance = NoVal THEN base.balance ELSE sw.balance,
              storage_root |-> IF a \in DOMAIN tx.storage_writes
                               THEN Written(base.storage_root, tx.storage_writes[a])
                               ELSE base.storage_root]
        [] OTHER                        -> s[a]

\* The world after the idx-th transaction (indices from 0).
Effect(w, tx, idx) ==
  [state   |-> [a \in Accounts |-> AccountAfter(w.state, tx, a)],
   txn     |-> (idx :> IF tx.txn_bytes THEN "signed_txn" ELSE "empty_bytes") @@ w.txn,
   receipt |-> (idx :> "receipt") @@ w.receipt]

\* The total a withdrawal list pays to account a.
AmountTo(ws, a) == FoldLeft(LAMBDA g, w : IF w[1] = a THEN g + w[2] ELSE g, 0, ws)

\* Withdrawals credit existing accounts.
Credited(s, ws) ==
  [a \in Accounts |->
     IF s[a] = NoVal THEN NoVal
     ELSE [s[a] EXCEPT !.balance = @ + AmountTo(ws, a)]]

ReplayInit ==
  /\ world \in InitWorlds
  /\ proven = <<>>
  /\ applied = <<>>
  /\ status = "open"

ReplayTxn ==
  /\ status = "open"
  /\ Len(applied) < MaxTxns
  /\ \E tx \in TxnInfos :
       /\ world' = Effect(world, tx, Len(applied))
       /\ proven' = Append(proven, [pre |-> world, post |-> world'])
       /\ applied' = Append(applied, tx)
  /\ UNCHANGED status

FailTxn ==
  /\ status = "open"
  /\ Len(applied) < MaxTxns
  /\ \E tx \in TxnInfos : applied' = Append(applied, tx)
  /\ status' = "failed"
  /\ UNCHANGED <<world, proven>>

\* Only withdrawals to existing accounts can be credited.
Close ==
  /\ status = "open"
  /\ \E ws \in WithdrawalLists :
       /\ \A i \in DOMAIN ws : world.state[ws[i][1]] # NoVal
       /\ world' = [world EXCEPT !.state = Credited(@, ws)]
       /\ proven' = IF proven = <<>> THEN proven
                    ELSE [proven EXCEPT ![Len(proven)].post = world']
  /\ status' = "closed"
  /\ UNCHANGED applied

Abort ==
  /\ status = "open"
  /\ status' = "failed"
  /\ UNCHANGED <<world, proven, applied>>

ReplayNext == ReplayTxn \/ FailTxn \/ Close \/ Abort

ReplaySpec == ReplayInit /\ [][ReplayNext]_replayVars
=============================================================================
