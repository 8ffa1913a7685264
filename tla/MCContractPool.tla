--------------------------- MODULE MCContractPool ---------------------------
(***************************************************************************)
(* The driver as a pool: more contracts than it may run at once and ticks   *)
(* that overlap.  Slots and tickers are interchangeable.                   *)
(***************************************************************************)
EXTENDS ContractDriver, TLC

Interchangeable == Permutations(Slot) \cup Permutations(Ticker)
=============================================================================
