------------------------------ MODULE EventLog ------------------------------
(***************************************************************************)
(* What the event-sourced core of FormicOS promises, whoever emits and      *)
(* whatever is emitted (README.md:29 of the repository: "Crash, replay,     *)
(* same state"; docs/ARCHITECTURE.md:63).  One ledger only ever grows; its  *)
(* rows reach the in-memory projections in ledger order; a crash may lose   *)
(* rows nobody was shown, never one that was shown; a restart shows the     *)
(* ledger again, row by row and without a gap, before it accepts requests.  *)
(***************************************************************************)
EXTENDS Naturals, Sequences

CONSTANT Event

VARIABLES ledger,   \* the rows of the events table
          shown,    \* positions of the rows the projections have applied
          serving   \* FALSE from a crash until the replay is over

vars == <<ledger, shown, serving>>

Init == ledger = <<>> /\ shown = {} /\ serving = TRUE

Insert ==
    /\ serving
    /\ \E e \in Event : ledger' = Append(ledger, e)
    /\ UNCHANGED <<shown, serving>>

(* A row may be passed over for good (its writer was cancelled), but rows   *)
(* are never shown out of order.                                            *)
Show ==
    /\ serving
    /\ \E i \in 1..Len(ledger) :
          /\ \A j \in shown : j < i
          /\ shown' = shown \cup {i}
    /\ UNCHANGED <<ledger, serving>>

Crash ==
    /\ \E n \in 0..Len(ledger) :
          /\ shown \subseteq 1..n
          /\ ledger' = SubSeq(ledger, 1, n)
    /\ shown' = {}
    /\ serving' = FALSE

Replay ==
    /\ ~serving
    /\ \E i \in 1..Len(ledger) :
          /\ shown = 1..(i - 1)
          /\ shown' = 1..i
    /\ UNCHANGED <<ledger, serving>>

Resume ==
    /\ ~serving
    /\ shown = 1..Len(ledger)
    /\ serving' = TRUE
    /\ UNCHANGED <<ledger, shown>>

Next == Insert \/ Show \/ Crash \/ Replay \/ Resume

Spec == Init /\ [][Next]_vars
=============================================================================
