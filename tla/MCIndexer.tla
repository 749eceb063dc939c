----------------------------- MODULE MCIndexer -----------------------------
(* Constants for the runs of Indexer.                                        *)
EXTENDS Indexer, TLC

CONSTANTS u1, u2, t1, t2, w1, w2, r1, nobody, none

Log(kind, user, token, price, package) ==
    [kind |-> kind, user |-> user, token |-> token, price |-> price,
     package |-> package]
Buy(user, token) == Log("Purchased", user, token, 3, 0)
List == Log("Listed", nobody, t1, 4, 0)
Join(user, package) == Log("Activated", user, none, 0, package)
Grow(user, package) == Log("Upgraded", user, none, 0, package)

\* The bot buys two tokens in one transaction and, in the next period, one twice.
TradeMenu == {<<Join(u1, 1)>>, <<Buy(u1, t1), Buy(u1, t2)>>, <<Buy(u1, t1), Buy(u1, t1)>>}
TradeOrder == <<<<Join(u1, 1)>>, <<Buy(u1, t1), Buy(u1, t2)>>, <<Buy(u1, t1), Buy(u1, t1)>>>>
TradeFocus ==
    /\ chain # <<>> => linked = Users
    /\ \A b \in DOMAIN chain : chain[b].events = TradeOrder[b]
    /\ period > 0 => Len(chain) > 1
    /\ Len(chain) > 2 => period > 0
    \* One row of the user's own words, before those of the purchases, meets one
    \* call at a time until it is named.
    /\ \A i \in DOMAIN rows : rows[i].tx = NoTx => i = 1
    /\ (\E i \in DOMAIN rows : rows[i].tx = NoTx) \/ (\E r \in Requests : request[r] # NoRequest)
           => Len(chain) = MaxBlock /\ period = MaxPeriod /\ \E w \in Workers : worker[w] = Idle
\* The income of a sale is left to the run of one worker: here it is settled at
\* once, and the income pages are not read.
IncomeAtOnce ==
    /\ due \cup granting # {} => <<due, granting>>' # <<due, granting>>
    /\ due' \subseteq due \/ worker' # worker
TwoWorkers == Permutations(Workers)

\* Activations, upgrades, and a package without a tier.
PackageMenu == {<<Log("Registered", u1, none, 0, 0), Join(u1, 1)>>,
                <<Grow(u1, 2)>>, <<Join(u2, 3)>>, <<Buy(u1, t1)>>, <<Buy(u2, t1)>>}
\* What the calls store does not matter to their order.
CallMenu == {<<List>>}
TwoTiers == 1 :> 8 @@ 2 :> 20
=============================================================================
