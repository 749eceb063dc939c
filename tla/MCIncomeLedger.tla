--------------------------- MODULE MCIncomeLedger ---------------------------
(* A member and the parent who brought it in. A day is two ticks and a      *)
(* period three, so that some periods start at midnight and others do not.  *)
EXTENDS IncomeLedger, TLC

CONSTANTS member, parent, a1, r1

MCSponsor == (member :> parent) @@ (parent :> NoUser)
MCLevels == (member :> 1) @@ (parent :> 1)
MCAnchor == (member :> 0) @@ (parent :> 0)
MCCap == (member :> 50) @@ (parent :> 20)
MCActivation ==
    a1 :> [user |-> member, sponsor |-> NoUser, time |-> 0, price |-> 100]
MCResale == r1 :> [seller |-> parent, extra |-> 15, time |-> 0]
MCSplit == [direct |-> 20, network |-> 40, creator |-> 10,
            burn |-> 20, liquidity |-> 5, global |-> 5]

\* Compliance is judged in the behaviours that no restart interrupts.
RestartFocus == crashes > 0 => \A u \in Users, t \in 0..MaxTime : verdict[u][t] = "none"

Symmetry == Permutations(Callers)
=============================================================================
