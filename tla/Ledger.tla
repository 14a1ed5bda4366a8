------------------------------- MODULE Ledger --------------------------------
(***************************************************************************)
(* What the metrics reporter promises of its counts, whatever buckets,     *)
(* posts and back-off do: a count is made once, waits, and is settled at   *)
(* most once, by a report to the server or by its loss.  Nothing settled   *)
(* comes back, and the server learns of nothing that did not wait.         *)
(***************************************************************************)
EXTENDS Naturals

CONSTANT Cells   \* what is counted

VARIABLES
  counted,      \* how often each cell was counted
  outstanding,  \* how many of these counts wait to be reported
  reported      \* how many the server has taken in

ledger == <<counted, outstanding, reported>>

Amounts == [Cells -> Nat]

Init == counted = [c \in Cells |-> 0] /\ outstanding = counted /\ reported = counted

Count(cell) ==
  /\ counted' = [counted EXCEPT ![cell] = @ + 1]
  /\ outstanding' = [outstanding EXCEPT ![cell] = @ + 1]
  /\ UNCHANGED reported

\* Counts that no longer wait were reported or lost.
Settle ==
  /\ UNCHANGED counted
  /\ outstanding' \in Amounts /\ reported' \in Amounts
  /\ \A c \in Cells : /\ reported[c] <= reported'[c]
                      /\ outstanding'[c] + reported'[c] <= outstanding[c] + reported[c]

Next == (\E cell \in Cells : Count(cell)) \/ Settle

Spec == Init /\ [][Next]_ledger
==============================================================================
