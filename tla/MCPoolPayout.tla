---------------------------- MODULE MCPoolPayout ----------------------------
(* Two members of different ranks and a rank nobody has reached. Days,      *)
(* periods and locks are one tick; a period starts at midnight.             *)
EXTENDS PoolPayout, TLC

CONSTANTS first, second, prime, elite, royal

Nothing == [s \in {} |-> 0]
MCSponsor == (first :> NoUser) @@ (second :> first)
MCLevels == (first :> 1) @@ (second :> 1)
MCAnchor == (first :> 0) @@ (second :> 1)
MCCap == (first :> 15) @@ (second :> 30)
MCSplit == [direct |-> 20, network |-> 40, creator |-> 10,
            burn |-> 20, liquidity |-> 5, global |-> 5]
MCRanks == <<prime, elite, royal>>
MCRankPct == <<50, 30, 20>>
MCRankOf == (first :> prime) @@ (second :> elite)
=============================================================================
