---------------------------- MODULE EventLedger ----------------------------
(***************************************************************************)
(* What the event store promises: a ledger of events that grows at its end *)
(* only, holds no event twice, and files each event under the session of   *)
(* the program that first recorded it, the latest there is.                *)
(***************************************************************************)
EXTENDS Naturals, Sequences

VARIABLE ledger     \* the rows, oldest first: [id, session]

Recorded == {ledger[i].id : i \in 1 .. Len(ledger)}

Init == ledger = << >>

Record(row) ==
    /\ row.id \notin Recorded
    /\ \A i \in 1 .. Len(ledger) : ledger[i].session <= row.session
    /\ ledger' = Append(ledger, row)

Next == ledger' # << >> /\ Record(ledger'[Len(ledger')])

Spec == Init /\ [][Next]_ledger
=============================================================================
