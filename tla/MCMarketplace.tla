--------------------------- MODULE MCMarketplace ---------------------------
(* Instances of Marketplace for TLC: prices are small integers and the     *)
(* appreciation is 50%: a mint and one resale raise the next mint to the   *)
(* burn threshold, and five ids leave room for the three that it spawns.   *)
EXTENDS Marketplace, TLC

MCPackages == {1, 2}
MCPackagePrice == <<10, 25>>
MCTradingLimit == <<40, 75>>
OneSaleADay == <<33, 33>>

Base == [mintPrice |-> 10, burnThreshold |-> 30, appreciationBps |-> 50]
Flat == [mintPrice |-> 20, burnThreshold |-> 24, appreciationBps |-> 10]

Default == [seller |-> 30, team |-> 20, creator |-> 5,
            burn |-> 25, liquidity |-> 10, global |-> 10]
NoTeam == [seller |-> 100, team |-> 0, creator |-> 0,
           burn |-> 0, liquidity |-> 0, global |-> 0]

MCPricings == {Base, Flat}
Short == [Default EXCEPT !.global = 0]
MCSplits == {Default, NoTeam, Short}
OnlyUsers == Users
UsersAndMarket == Users \cup {Market}
OnePricing == {Base}
OneSplit == {Default}

\* Leaves pausing, deactivation and the bots to the accounts run.  The limits
\* let a user buy anything on sale once a day; that both spend on the same day
\* makes no difference to the queue.
QueueFocus ==
    /\ ~paused
    /\ \A u \in Users : ~inactive[u] /\ ~botEnabled[u]
    /\ \A u, v \in Users : volume[u] > 0 /\ volume[v] > 0 => u = v

Symmetry == Permutations(Users)
=============================================================================
