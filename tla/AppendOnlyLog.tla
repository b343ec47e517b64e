--------------------------- MODULE AppendOnlyLog ---------------------------
(***************************************************************************)
(* What a saved drawer count promises (POST reports/reconciliation,        *)
(* "Earlier revisions are never modified"): per day a log that only grows, *)
(* by one entry at a time.                                                 *)
(***************************************************************************)
EXTENDS Sequences

CONSTANT Keys
VARIABLE log

Grow(k) ==
  /\ log'[k] # << >>
  /\ log'[k] = Append(log[k], log'[k][Len(log'[k])])
  /\ \A other \in Keys \ {k} : log'[other] = log[other]

Init == log = [k \in Keys |-> << >>]

Next == \E k \in Keys : Grow(k)

Spec == Init /\ [][Next]_log
=============================================================================
