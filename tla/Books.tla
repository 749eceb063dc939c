------------------------------- MODULE Books -------------------------------
(* What the income ledger promises: the share due of a source is booked in  *)
(* whole and in one step, as income that waits or as what is burned; after  *)
(* that money only moves between waiting, released and destroyed.           *)
EXTENDS Integers

CONSTANT Sources

VARIABLES
    due,        \* the share of a source
    booked,     \* how often it was booked
    waiting, released, destroyed

booksVars == <<due, booked, waiting, released, destroyed>>

Init == booked = [s \in Sources |-> 0] /\ waiting = 0 /\ released = 0 /\ destroyed = 0

\* The share of a source is fixed when it is booked first.
Book(s) ==
    /\ booked' = [booked EXCEPT ![s] = @ + 1]
    /\ \A r \in Sources : due'[r] # due[r] => r = s /\ booked[s] = 0
    /\ \E burnt \in 0..due'[s] :
        /\ destroyed' = destroyed + burnt
        /\ waiting' = waiting + due'[s] - burnt
    /\ UNCHANGED released

\* Income that waits no longer never waits again.
Settle ==
    /\ waiting' + released' + destroyed' = waiting + released + destroyed
    /\ waiting' <= waiting
    /\ UNCHANGED <<due, booked>>

Next == Settle \/ \E s \in Sources : Book(s)

Spec == Init /\ [][Next]_booksVars
=============================================================================
