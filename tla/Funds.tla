-------------------------------- MODULE Funds --------------------------------
(***************************************************************************)
(* Where the contracts' shares go: Registration composed with GlobalPool,  *)
(* Treasury and LiquidityManager.  A step of Registration delivers, in its *)
(* transaction, the global, liquidity and burn payments to the other three *)
(* contracts; a sale of the marketplace delivers a global payment too.     *)
(* GlobalPool reads ranks, team sizes and volumes from Registration.       *)
(***************************************************************************)
EXTENDS Registration, Sums

CONSTANTS
    Ranks,          \* 1..5 in the code
    RankDirects,    \* [Ranks -> directCount a rank needs]
    RankTeam,       \* [Ranks -> teamSize a rank needs]
    InitRankBps,    \* [Ranks -> bps] of the constructor
    RankBpsOnOffer, \* values setRankBps may give
    SaleGlobals,    \* global payments of marketplace sales
    MaxCredits,     \* bound: the largest pool of a day
    MaxCandidates   \* bound: the longest list of candidates of a rank

ASSUME RanksAssumption ==
    /\ IsFiniteSet(Ranks)
    /\ RankDirects \in [Ranks -> Nat]
    /\ RankTeam \in [Ranks -> Nat]
    /\ InitRankBps \in [Ranks -> Nat] /\ SumOver(Ranks, InitRankBps) = BPS
    /\ RankBpsOnOffer \subseteq [Ranks -> Nat]
    /\ SaleGlobals \subseteq Nat \ {0}

VARIABLES
    dayPool,        \* dayPool of each day
    distributed,    \* the days with dayDistributed
    rankBps,
    poolUsdt,       \* USDT that GlobalPool holds
    burned,         \* totalBurned of Treasury
    liquidityUsdt,  \* USDT that LiquidityManager holds
    received,       \* totalReceived of LiquidityManager
    forwarded       \* totalForwarded of LiquidityManager

poolVars == <<dayPool, distributed, rankBps, poolUsdt>>
managerVars == <<liquidityUsdt, received, forwarded>>
fundsVars == <<vars, poolVars, burned, managerVars>>

FundsTypeOK ==
    /\ TypeOK
    /\ dayPool \in [Days -> Nat]
    /\ distributed \subseteq Days
    /\ rankBps \in [Ranks -> Nat] /\ SumOver(Ranks, rankBps) = BPS
    /\ poolUsdt \in Nat
    /\ burned \in Nat
    /\ liquidityUsdt \in Nat /\ received \in Nat /\ forwarded \in Nat

Credit(amount) ==
    /\ dayPool[day] + amount <= MaxCredits
    /\ dayPool' = [dayPool EXCEPT ![day] = @ + amount]
    /\ poolUsdt' = poolUsdt + amount
    /\ UNCHANGED <<distributed, rankBps>>

ReceiveBurn(amount) == burned' = burned + amount

ReceiveLiquidity(amount) ==
    /\ received' = received + amount
    /\ liquidityUsdt' = liquidityUsdt + amount
    /\ UNCHANGED forwarded

\* Any transaction of Registration, with the payments it makes.
RegistrationStep ==
    /\ Next
    /\ Credit(paid'.global)
    /\ ReceiveBurn(paid'.burn)
    /\ ReceiveLiquidity(paid'.liquidity)

SaleCredit(amount) ==
    /\ Credit(amount)
    /\ UNCHANGED <<vars, burned, managerVars>>

(***************************************************************************)
(* GlobalPool.distributeDay.                                               *)
(***************************************************************************)

\* _countTeam: everybody below u in the sponsor tree.
Team(u) ==
    LET below[n \in 0 .. Cardinality(Accounts)] ==
            IF n = 0 THEN {}
            ELSE {v \in Accounts : users[v].sponsor \in {u} \cup below[n - 1]}
    IN  below[Cardinality(Accounts)]

Qualifies(u, rank) ==
    /\ users[u].registered
    /\ ~users[u].inactive
    /\ users[u].directs >= RankDirects[rank]
    /\ Cardinality(Team(u)) >= RankTeam[rank]

\* The positions of the candidates that are paid: an account named twice by
\* the caller is paid twice.
Winners(candidates, rank, d) ==
    {i \in 1 .. Len(candidates) :
        Qualifies(candidates[i], rank) /\ volume[candidates[i]][d] > 0}

Slice(total, rank) == Share(total, rankBps[rank])

Bug_RemainderKept(total, candidates, rank, d) ==
    IF Winners(candidates, rank, d) = {} THEN Slice(total, rank) ELSE 0
\* What _payRank sends to the treasury: the slice of a rank nobody holds, or
\* the remainder of the equal division.
RankBurned(total, candidates, rank, d) ==
    LET w == Cardinality(Winners(candidates, rank, d))
    IN  IF w = 0 THEN Slice(total, rank) ELSE Slice(total, rank) % w

RankPaid(total, candidates, rank, d) ==
    LET w == Cardinality(Winners(candidates, rank, d))
    IN  IF w = 0 THEN 0 ELSE w * (Slice(total, rank) \div w)

Distributable(d) ==
    /\ d \notin distributed
    /\ dayPool[d] # 0
    /\ d < day

Candidates == UNION {[1 .. n -> Accounts] : n \in 0 .. MaxCandidates}

\* `lists' gives the candidates of each rank.
DistributeDay(d, lists) ==
    LET total == dayPool[d]
        burns == [r \in Ranks |-> RankBurned(total, lists[r], r, d)]
        pays  == [r \in Ranks |-> RankPaid(total, lists[r], r, d)]
    IN  /\ Distributable(d)
        /\ distributed' = distributed \cup {d}
        /\ dayPool' = [dayPool EXCEPT ![d] = 0]
        /\ poolUsdt' = poolUsdt - SumOver(Ranks, pays) - SumOver(Ranks, burns)
        /\ ReceiveBurn(SumOver(Ranks, burns))
        /\ UNCHANGED <<vars, rankBps, managerVars>>

SetRankBps(f) ==
    /\ SumOver(Ranks, f) = BPS
    /\ rankBps' = f
    /\ UNCHANGED <<vars, dayPool, distributed, poolUsdt, burned, managerVars>>

(***************************************************************************)
(* LiquidityManager.                                                       *)
(***************************************************************************)

ForwardLiquidity(amount) ==
    /\ amount <= liquidityUsdt
    /\ liquidityUsdt' = liquidityUsdt - amount
    /\ forwarded' = forwarded + amount
    /\ UNCHANGED <<vars, poolVars, burned, received>>

ForwardAll ==
    /\ liquidityUsdt # 0
    /\ ForwardLiquidity(liquidityUsdt)

FundsInit ==
    /\ Init
    /\ dayPool = [d \in Days |-> 0]
    /\ distributed = {}
    /\ rankBps = InitRankBps
    /\ poolUsdt = 0
    /\ burned = 0
    /\ liquidityUsdt = 0
    /\ received = 0
    /\ forwarded = 0

FundsNext ==
    \/ RegistrationStep
    \/ \E amount \in SaleGlobals : SaleCredit(amount)
    \/ \E d \in Days, lists \in [Ranks -> Candidates] : DistributeDay(d, lists)
    \/ \E f \in RankBpsOnOffer : SetRankBps(f)
    \/ \E amount \in 1 .. liquidityUsdt : ForwardLiquidity(amount)
    \/ ForwardAll

FundsSpec == FundsInit /\ [][FundsNext]_fundsVars

(***************************************************************************)
(* Properties.                                                             *)
(***************************************************************************)

Undistributed == SumOver(Days, dayPool)

\* GlobalPool can always pay what it owes: its USDT covers every day not yet
\* distributed, and beyond that it keeps at most the rounding of one division
\* per rank and distributed day.  A rank table over 100 percent, or a slice
\* that is paid and burned, would have one day's distribution eat the next
\* day's pool.
PoolCoversDays ==
    /\ poolUsdt >= Undistributed
    /\ poolUsdt - Undistributed <=
           (Cardinality(Ranks) - 1) * Cardinality(distributed)

=============================================================================
