----------------------------- MODULE MCContracts -----------------------------
(* The two sides of Registration: where its payments go (Funds) and the      *)
(* income escrow that reads its days and compliance (Rewards). They share    *)
(* nothing else: a behaviour exercises one of them, chosen at the start.     *)
(* Two ranks instead of five: the lower one open to everybody, so that two   *)
(* accounts can share a slice, the higher one to accounts with a direct.     *)
EXTENDS Funds, Rewards, TLC

CONSTANTS m1, root

VARIABLE part

contractVars == <<part, fundsVars, rewardsVars>>

TwoPackages == 1 :> [price |-> 60, limit |-> 10] @@ 2 :> [price |-> 70, limit |-> 20]
NewTerms == {[price |-> 80, limit |-> 10], [price |-> 0, limit |-> 10]}
DefaultSplit == [direct |-> 4, network |-> 8, creator |-> 2,
                 burn |-> 4, liquidity |-> 1, global |-> 1]
OtherSplits == {
    [direct |-> 8, network |-> 3, creator |-> 0,
     burn |-> 5, liquidity |-> 3, global |-> 1],
    [direct |-> 9, network |-> 9, creator |-> 9,
     burn |-> 9, liquidity |-> 9, global |-> 9]}
DefaultUnlock == 1 :> 1 @@ 2 :> 2
DefaultRules == [volumeBps |-> 10, inactiveDays |-> 2]
OtherRules == {[volumeBps |-> 10, inactiveDays |-> 1],
               [volumeBps |-> 20, inactiveDays |-> 2]}
NeededDirects == 1 :> 0 @@ 2 :> 1
NeededTeam == 1 :> 0 @@ 2 :> 1
DefaultRankBps == 1 :> 13 @@ 2 :> 7
OtherRankBps == {1 :> 10 @@ 2 :> 10, 1 :> 14 @@ 2 :> 14}

ContractsInit ==
    /\ part \in {"funds", "rewards"}
    /\ FundsInit /\ RewardsInit

ContractsNext ==
    /\ UNCHANGED part
    /\ \/ part = "funds" /\ FundsNext /\ UNCHANGED rewardsVars
       \/ /\ part = "rewards" /\ RewardsNext
          /\ UNCHANGED <<poolVars, burned, managerVars>>

ContractsSpec == ContractsInit /\ [][ContractsNext]_contractVars

\* Two days, one package and one set of rules for the funds, one split for the
\* escrow, where an upgrade and a stricter ratio double the required volume.
\* Pausing and the platform token touch neither; the member, not the root,
\* stands for the accounts that are deactivated or have income.
Focus ==
    /\ ~paused /\ ~tokenOn /\ ~users[root].inactive
    /\ unlock = InitUnlock /\ terms = InitTerms
    /\ part = "funds" =>
        /\ day <= 2 /\ rules = InitRules
        /\ \A u \in Accounts : users[u].package # 2
    /\ part = "rewards" =>
        /\ split = InitSplit /\ ~users[root].activated
        /\ \A d \in Days : pending[root][d] = 0
=============================================================================
