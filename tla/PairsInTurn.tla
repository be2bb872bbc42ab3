---------------------------- MODULE PairsInTurn ----------------------------
(***************************************************************************)
(* What the search of a list of pairs promises to the run that started it, *)
(* with none of its trials, waits and time limits: the pairs come to hand  *)
(* one at a time, a pair at hand gets a result that stays or is given up,  *)
(* a process that is started again goes on with just the pairs it finds no *)
(* result of, and the run is over when no pair is left over.  Where writes *)
(* may fail it finds the results as they were before the last one, or none.*)
(***************************************************************************)
CONSTANTS Pairs,
          Results, \* what may be found for a pair
          None,    \* no result
          Lossy    \* whether writes may fail

VARIABLES result,  \* result[p]: what the process has of pair p
          kept,    \* what is written down of that
          waiting, \* pairs that have yet to come to hand
          hand,    \* the pair at hand: a set of at most one
          refused, \* pairs given up since the process was started
          state    \* "open" or "over"

pvars == <<result, kept, waiting, hand, refused, state>>

Nothing == [p \in Pairs |-> None]

Init == /\ result = Nothing
        /\ kept = Nothing
        /\ waiting = Pairs
        /\ hand = {}
        /\ refused = {}
        /\ state = "open"

Take == /\ state = "open" /\ hand = {}
        /\ \E p \in waiting : hand' = {p} /\ waiting' = waiting \ {p}
        /\ UNCHANGED <<result, kept, refused, state>>

\* What else may be found written down.
OrLess(S) == IF Lossy THEN S \cup {Nothing} ELSE {}

\* A result is kept where there was none, and is not touched again.
Keep == /\ \E p \in hand : /\ result[p] = None
                           /\ result'[p] \in Results
                           /\ result' = [result EXCEPT ![p] = result'[p]]
        /\ kept' \in {result'} \cup OrLess({kept})
        /\ hand' = {}
        /\ UNCHANGED <<waiting, refused, state>>

Refuse == /\ hand # {}
          /\ refused' = refused \cup hand
          /\ hand' = {}
          /\ UNCHANGED <<result, kept, waiting, state>>

Restart == /\ hand # {}
           /\ kept' \in {kept} \cup OrLess({})
           /\ result' = kept'
           /\ waiting' = {p \in Pairs : result'[p] = None}
           /\ hand' = {}
           /\ refused' = {}
           /\ UNCHANGED state

End == /\ state = "open" /\ hand = {}
       /\ \A p \in Pairs : result[p] # None \/ p \in refused
       /\ state' = "over"
       /\ UNCHANGED <<result, kept, waiting, hand, refused>>

Next == Take \/ Keep \/ Refuse \/ Restart \/ End

Spec == Init /\ [][Next]_pvars
=============================================================================
