------------------------------ MODULE MCTraces ------------------------------
(***************************************************************************)
(* Instantiates Traces for TLC: up to MaxOps operations and MaxHeld nested *)
(* checkpoints.  The operation kinds are the ones whose row count differs  *)
(* from one (a two-row division, an empty byte packing, a sponge input one *)
(* rate long) and one plain kind per other table.                          *)
(***************************************************************************)
EXTENDS Traces

MCNumRounds == 24
MCKeccakRateBytes == 136

MCOpChoices ==
  [t \in Tables |->
     CASE t = "arithmetic"    -> {[kind |-> "binary_div", size |-> 0],
                                  [kind |-> "binary_other", size |-> 0]}
       [] t = "byte_packing"  -> {[kind |-> "pack", size |-> 0], [kind |-> "pack", size |-> 1]}
       [] t = "keccak_sponge" -> {[kind |-> "sponge", size |-> 0],
                                  [kind |-> "sponge", size |-> MCKeccakRateBytes]}
       [] OTHER               -> {[kind |-> t, size |-> 0]}]
=============================================================================
