------------------------- MODULE ConsecutiveNumbers -------------------------
(***************************************************************************)
(* What the users of SequenceService rely on: the numbers of a document    *)
(* type are given out one by one, none twice and none left out, starting   *)
(* with 1 or with the number an administrator has configured, until        *)
(* something disturbs the sequence.                                        *)
(***************************************************************************)
EXTENDS Integers, Sequences

VARIABLES
    issued,     \* the numbers given out, in the order of the commits
    start,      \* the number configured last, and how many were given out before
    disturbed

vars == <<issued, start, disturbed>>

StartAt(n) == [from |-> n, at |-> Len(issued)]

Init == issued = <<>> /\ start = StartAt(1) /\ disturbed = FALSE

Promised == start.from + (Len(issued) - start.at)

Issue ==
    /\ ~disturbed
    /\ issued' = Append(issued, Promised)
    /\ UNCHANGED <<start, disturbed>>

(* An administrator says which number comes next.                          *)
Restart ==
    /\ start' \in [from : Nat \ {0}, at : {Len(issued)}]
    /\ UNCHANGED <<issued, disturbed>>

(* With the step that disturbs it, and after it, any number may come.      *)
Disturbed == disturbed' = TRUE

Next == Issue \/ Restart \/ Disturbed

Spec == Init /\ [][Next]_vars
=============================================================================
