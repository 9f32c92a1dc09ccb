------------------------------- MODULE Traces -------------------------------
(***************************************************************************)
(* The per-STARK-table operation buffers of                                *)
(* evm_arithmetization/src/witness/traces.rs.  The interpreter appends     *)
(* operations to the seven buffers, takes a TraceCheckpoint before an      *)
(* instruction, rolls back to it when the instruction fails, and reads the *)
(* memory operations appended since a checkpoint.                          *)
(*                                                                         *)
(* A buffer is a sequence of operations; an operation is a record with its *)
(* kind, its size in bytes where the row count depends on it, and a serial *)
(* number (id) so that two operations are never equal.  The interpreter   *)
(* (not in this repository) is the environment: it pushes, takes and      *)
(* releases checkpoints in nested, last-in first-out order, rolls back to  *)
(* any checkpoint it still holds and then discards the later ones.         *)
(***************************************************************************)
EXTENDS Naturals, Sequences, SequencesExt

CONSTANTS
  OpChoices,        \* [Tables -> set of [kind, size]]: operations the interpreter emits
  NumRounds,        \* keccak::keccak_stark::NUM_ROUNDS
  KeccakRateBytes,  \* keccak_sponge::columns::KECCAK_RATE_BYTES
  MaxOps,           \* bound on the operations pushed in a behaviour
  MaxHeld,          \* bound on the checkpoints held at once
  NoVal

\* The seven buffers of struct Traces, by the STARK table they feed.
Tables == {"arithmetic", "byte_packing", "cpu", "keccak", "keccak_sponge", "logic", "memory"}

ASSUME DOMAIN OpChoices = Tables

VARIABLES
  tr,      \* the Traces value: [Tables -> Seq(op)]
  held,    \* the interpreter's live checkpoints, oldest first
  nextId,  \* serial number of the next operation pushed
  since    \* the last mem_ops_since result, with what it should be, or NoVal

vars == <<tr, held, nextId, since>>

\* Traces::new: every buffer empty.
New == [t \in Tables |-> <<>>]

\* The rows one operation occupies in its table (the closures of get_lengths).
RowsOf(t, op) ==
  CASE t = "arithmetic"    -> IF op.kind \in {"ternary", "binary_div", "binary_mod"} THEN 2 ELSE 1
    [] t = "byte_packing"  -> IF op.size = 0 THEN 0 ELSE 1
    [] t = "keccak"        -> NumRounds
    [] t = "keccak_sponge" -> op.size \div KeccakRateBytes + 1
    [] OTHER               -> 1

\* Traces::get_lengths: the trace length of each table, in rows.
GetLengths(s) == [t \in Tables |-> FoldLeft(LAMBDA n, op : n + RowsOf(t, op), 0, s[t])]

\* A plausible bug: a checkpoint in rows, as get_lengths reports them.
CheckpointByRows(s) == GetLengths(s)

\* Traces::checkpoint: the number of operations in each buffer.
Checkpoint(s) == [t \in Tables |-> Len(s[t])]

\* Vec::truncate: no effect when n is not below the length.
Truncate(q, n) == IF n >= Len(q) THEN q ELSE SubSeq(q, 1, n)

\* A plausible bug: the memory buffer is left as it is.
RollbackKeepsMemory(s, cp) ==
  [t \in Tables |-> IF t = "memory" THEN s[t] ELSE Truncate(s[t], cp[t])]

\* A plausible bug: the memory buffer truncated to another table's length.
RollbackMemoryToLogicLen(s, cp) ==
  [t \in Tables |-> Truncate(s[t], IF t = "memory" THEN cp["logic"] ELSE cp[t])]

\* Traces::rollback: every buffer truncated to its checkpoint length.
Rollback(s, cp) == [t \in Tables |-> Truncate(s[t], cp[t])]

\* A plausible bug: the slice starts at the clock the checkpoint recorded.
MemOpsSinceByClock(s, cp) == SubSeq(s["memory"], cp["cpu"] + 1, Len(s["memory"]))

\* Traces::mem_ops_since: the memory operations from the checkpoint's
\* length on (the slice &memory_ops[memory_len..], 0-based in Rust).
MemOpsSince(s, cp) == SubSeq(s["memory"], cp["memory"] + 1, Len(s["memory"]))

\* The slice of mem_ops_since panics unless the start is within the buffer.
MemOpsSinceDefined(s, cp) == cp["memory"] <= Len(s["memory"])

Init ==
  /\ tr = New
  /\ held = <<>>
  /\ nextId = 0
  /\ since = NoVal

\* The interpreter appends one operation to a buffer.
Push(t) ==
  /\ nextId < MaxOps
  /\ \E c \in OpChoices[t] :
       tr' = [tr EXCEPT ![t] = Append(@, [kind |-> c.kind, size |-> c.size, id |-> nextId])]
  /\ nextId' = nextId + 1
  /\ UNCHANGED <<held, since>>

\* A checkpoint is taken; the serial number at that point is kept to say
\* which operations come after it.
TakeCheckpoint ==
  /\ Len(held) < MaxHeld
  /\ held' = Append(held, [cp |-> Checkpoint(tr), snap |-> tr, idAt |-> nextId])
  /\ UNCHANGED <<tr, nextId, since>>

\* The innermost checkpoint goes out of use (its instruction succeeded).
Release ==
  /\ held # <<>>
  /\ held' = SubSeq(held, 1, Len(held) - 1)
  /\ UNCHANGED <<tr, nextId, since>>

\* The interpreter rolls back to checkpoint i; the later ones are dropped.
RollbackTo(i) ==
  /\ tr' = Rollback(tr, held[i].cp)
  /\ held' = SubSeq(held, 1, i)
  /\ UNCHANGED <<nextId, since>>

\* The interpreter reads the memory operations since checkpoint i.
ReadMemOpsSince(i) ==
  /\ MemOpsSinceDefined(tr, held[i].cp)
  /\ since' = [got  |-> MemOpsSince(tr, held[i].cp),
               want |-> SelectSeq(tr["memory"], LAMBDA op : op.id >= held[i].idAt)]
  /\ UNCHANGED <<tr, held, nextId>>

Next ==
  \/ \E t \in Tables : Push(t)
  \/ TakeCheckpoint
  \/ Release
  \/ \E i \in DOMAIN held : RollbackTo(i) \/ ReadMemOpsSince(i)

Spec == Init /\ [][Next]_vars

-----------------------------------------------------------------------------
(* Properties *)

Op == [kind : STRING, size : Nat, id : 0 .. MaxOps - 1]

\* Every buffer holds operations and every checkpoint counts at most the
\* operations ever pushed.
TypeOK ==
  /\ tr \in [Tables -> Seq(Op)]
  /\ \A i \in DOMAIN held : held[i].cp \in [Tables -> 0 .. MaxOps]
  /\ nextId \in 0 .. MaxOps
  /\ since = NoVal \/ since \in [got : Seq(Op), want : Seq(Op)]

\* No checkpoint the interpreter still holds makes mem_ops_since panic: a
\* rollback never shortens the memory buffer below a live checkpoint.
CheckpointsInBounds ==
  \A i \in DOMAIN held : MemOpsSinceDefined(tr, held[i].cp)

\* mem_ops_since returns exactly the memory operations pushed after the
\* checkpoint and not rolled back, in push order.
MemOpsSinceExact ==
  since # NoVal => since.got = since.want

\* A rollback to a checkpoint taken by checkpoint() restores every buffer to
\* what it held when the checkpoint was taken (rollback truncates all seven
\* buffers, and checkpoint counts operations, not rows).
RollbackRestores ==
  [][\A i \in DOMAIN held : RollbackTo(i) => tr' = held[i].snap]_vars
=============================================================================
