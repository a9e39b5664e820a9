------------------------- MODULE MCExecutionEngine --------------------------
(* Model values and symmetry for the runs of ExecutionEngine. *)
EXTENDS ExecutionEngine, TLC

CONSTANTS t1, t2, AAPL, MSFT

OneTrade == {t1}
TwoTrades == {t1, t2}
OneSym == {AAPL}
TwoSyms == {AAPL, MSFT}
Long == {"buy"}
BothSides == {"buy", "sell"}

Symmetry == Permutations(TwoTrades)
SymSymmetry == Permutations(TwoTrades) \cup Permutations(TwoSyms)
=============================================================================
