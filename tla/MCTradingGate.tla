---------------------------- MODULE MCTradingGate ----------------------------
(* Values for the runs of TradingGate. *)
EXTENDS TradingGate

\* Three tenths down from the peak is beyond every limit.
SomeEquities == {10, 7}
LossOrNothing == {-1, 0}
OneLimit == {5}
TwoLimits == {5, 40}
=============================================================================
