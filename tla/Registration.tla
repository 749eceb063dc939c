---------------------------- MODULE Registration ----------------------------
(***************************************************************************)
(* The Registration contract: the sponsor tree, the packages, the split of *)
(* an activation's USDT over sponsors and sinks, the NFTAIX tokens an      *)
(* activation earns, the daily trading volume, and inactivity.             *)
(*                                                                         *)
(* A transaction is atomic, so an entry point is one action.  An entry     *)
(* point that registers and then activates is a composition of operators   *)
(* on the whole `users' mapping, as it is one of internal functions there. *)
(***************************************************************************)
EXTENDS Integers, Sequences, FiniteSets

CONSTANTS
    Accounts,       \* addresses
    Root,           \* rootSponsor, registered by the constructor
    NoOne,          \* address(0)
    Packages,       \* package ids
    NoPackage,      \* packageId of a user that has not activated
    BPS,            \* BPS_DENOMINATOR
    MaxLevels,      \* MAX_LEVELS
    PerLevelBps,    \* NETWORK_PER_LEVEL_BPS
    MidDirects,     \* from here an unset unlock counts two levels a direct (6)
    TopDirects,     \* from here every direct unlocks the same levels (10)
    TokensPerUsdt,  \* TOKENS_PER_USDT of the platform token
    MaxSupply,      \* MAX_SUPPLY of the platform token
    InitTerms,      \* [Packages -> Terms] of the constructor
    TermsOnOffer,   \* values setPackage may give
    InitSplit,      \* the activation split of the constructor
    Splits,         \* values setSplit may give
    InitUnlock,     \* [1..TopDirects -> levels] of the constructor
    UnlockLevels,   \* values setLevelUnlock may give
    InitRules,      \* requiredVolumeBps and inactiveDays of the constructor
    RulesOnOffer,   \* values setComplianceConfig may give
    Volumes,        \* amounts recordVolume is called with
    MaxVolume,      \* bound: the largest volume of a user in a day
    MaxDay          \* bound: the last day

Days == 1 .. MaxDay

Terms == [price : Nat, limit : Nat]
Split == [direct : Nat, network : Nat, creator : Nat,
          burn : Nat, liquidity : Nat, global : Nat]
Rules == [volumeBps : Nat, inactiveDays : Nat]

SplitTotal(s) ==
    s.direct + s.network + s.creator + s.burn + s.liquidity + s.global

ASSUME AccountsAssumption ==
    /\ Root \in Accounts
    /\ NoOne \notin Accounts
    /\ IsFiniteSet(Accounts)

ASSUME BoundsAssumption ==
    /\ BPS \in Nat \ {0}
    /\ MaxLevels \in Nat \ {0}
    /\ PerLevelBps \in Nat
    /\ MidDirects \in Nat \ {0}
    /\ TopDirects \in Nat \ {0}
    /\ TokensPerUsdt \in Nat
    /\ MaxSupply \in Nat
    /\ MaxDay \in Nat \ {0}
    /\ MaxVolume \in Nat
    /\ Volumes \subseteq Nat

ASSUME SettingsAssumption ==
    /\ InitTerms \in [Packages -> Terms]
    /\ TermsOnOffer \subseteq Terms
    /\ InitSplit \in Split
    /\ SplitTotal(InitSplit) = BPS
    /\ Splits \subseteq Split
    /\ InitUnlock \in [1 .. TopDirects -> Nat]
    /\ UnlockLevels \subseteq Nat
    /\ InitRules \in Rules
    /\ RulesOnOffer \subseteq Rules

VARIABLES
    users,          \* users, without the unused lastUpgradeAt
    referrals,      \* _directReferrals
    terms,          \* packages
    split,          \* the activation split in basis points
    unlock,         \* levelUnlock
    rules,          \* requiredVolumeBps and inactiveDays
    tokenOn,        \* platformToken is set
    tokens,         \* NFTAIX tokens left in the token's treasury
    held,           \* USDT the contract holds
    paid,           \* what the last transaction paid out, from its events
    day,            \* currentDay
    volume,         \* dailyVolume of each user and day
    lastTradeDay,   \* lastTradeDay of each user, 0 for never
    paused

treeVars == <<users, referrals>>
configVars == <<terms, split, unlock, rules, tokenOn, paused>>
moneyVars == <<tokens, held, paid>>
activityVars == <<day, volume, lastTradeDay>>
vars == <<treeVars, configVars, moneyVars, activityVars>>

User == [registered : BOOLEAN, activated : BOOLEAN, inactive : BOOLEAN,
         sponsor : Accounts \cup {NoOne},
         package : Packages \cup {NoPackage}, limit : Nat,
         activatedAt : 0 .. MaxDay, directs : Nat]

\* A user that has not activated.
Newcomer(registered, sponsor) ==
    [registered |-> registered, activated |-> FALSE, inactive |-> FALSE,
     sponsor |-> sponsor, package |-> NoPackage, limit |-> 0,
     activatedAt |-> 0, directs |-> 0]

Payment == [direct : Int, network : Int, creator : Int,
            liquidity : Int, global : Int, burn : Int]
NoPayment == [direct |-> 0, network |-> 0, creator |-> 0,
              liquidity |-> 0, global |-> 0, burn |-> 0]

TypeOK ==
    /\ users \in [Accounts -> User]
    /\ referrals \in [Accounts -> Seq(Accounts)]
    /\ terms \in [Packages -> Terms]
    /\ split \in Split /\ SplitTotal(split) = BPS
    /\ unlock \in [1 .. TopDirects -> Nat]
    /\ rules \in Rules
    /\ tokenOn \in BOOLEAN
    /\ tokens \in 0 .. MaxSupply
    /\ held \in Int
    /\ paid \in Payment
    /\ day \in Days
    /\ volume \in [Accounts -> [Days -> Nat]]
    /\ lastTradeDay \in [Accounts -> 0 .. MaxDay]
    /\ paused \in BOOLEAN

(***************************************************************************)
(* The sponsor tree.                                                       *)
(***************************************************************************)

Bug_RegisterTwice(us, u, s) == s # u /\ us[s].registered /\ ~us[s].inactive
CanRegister(us, u, s) ==
    /\ ~us[u].registered
    /\ s # u
    /\ us[s].registered
    /\ ~us[s].inactive

Bug_DirectsNotCounted(us, u, s) == [us EXCEPT ![u] = Newcomer(TRUE, s)]
WithRegistered(us, u, s) ==
    [us EXCEPT ![u] = Newcomer(TRUE, s), ![s].directs = @ + 1]

LevelsForDirects(directs) ==
    CASE directs = 0          -> 0
      [] directs >= TopDirects -> unlock[TopDirects]
      [] OTHER -> IF unlock[directs] = 0 /\ directs >= MidDirects
                  THEN 2 * directs ELSE unlock[directs]

\* The account `level' steps up from sponsor s, NoOne past the root.
Upline(us, s) ==
    LET up[level \in 1 .. MaxLevels] ==
            IF level = 1 THEN s
            ELSE IF up[level - 1] = NoOne THEN NoOne
            ELSE us[up[level - 1]].sponsor
    IN  up

EligiblePayee(us, a) == a # NoOne /\ us[a].registered /\ ~us[a].inactive

PaidLevels(us, s) ==
    {level \in 1 .. MaxLevels :
        LET a == Upline(us, s)[level]
        IN  EligiblePayee(us, a) /\ LevelsForDirects(us[a].directs) >= level}

(***************************************************************************)
(* The split of an activation.  Integer division, as in the contract.      *)
(***************************************************************************)

Share(amount, bps) == (amount * bps) \div BPS

\* _distributeNetwork pays the same amount to each eligible level and stops
\* before the payment that would exceed the budget.
Bug_BudgetIgnored(amount, levels) == levels * Share(amount, PerLevelBps)
NetworkPaid(amount, levels) ==
    LET perLevel == Share(amount, PerLevelBps)
        budget   == Share(amount, split.network)
    IN  IF levels * perLevel <= budget
        THEN levels * perLevel
        ELSE (budget \div perLevel) * perLevel

\* `toSponsor' says whether the sponsor may be paid, `levels' is how many
\* upline accounts are eligible for the network income.
Payments(amount, toSponsor, levels) ==
    LET direct    == Share(amount, split.direct)
        network   == Share(amount, split.network)
        creator   == Share(amount, split.creator)
        burn      == Share(amount, split.burn)
        liquidity == Share(amount, split.liquidity)
        leftover  == IF network > NetworkPaid(amount, levels)
                     THEN network - NetworkPaid(amount, levels) ELSE 0
    IN  [direct    |-> IF toSponsor THEN direct ELSE 0,
         network   |-> NetworkPaid(amount, levels),
         creator   |-> creator,
         liquidity |-> liquidity,
         global    |-> amount - direct - network - creator - burn - liquidity,
         burn      |-> burn + leftover + (IF toSponsor THEN 0 ELSE direct)]

PaidOut(p) ==
    p.direct + p.network + p.creator + p.liquidity + p.global + p.burn

DistributeActivation(us, u, amount) ==
    LET s == us[u].sponsor
        p == Payments(amount, EligiblePayee(us, s),
                      Cardinality(PaidLevels(us, s)))
    IN  /\ paid' = p
        /\ held' = held + amount - PaidOut(p)

\* distributeForPackage reverts when the token's treasury is short.
DistributePlatformTokens(price) ==
    IF tokenOn /\ price # 0
    THEN /\ tokens >= price * TokensPerUsdt
         /\ tokens' = tokens - price * TokensPerUsdt
    ELSE UNCHANGED tokens

\* Only an activation paid for by the user distributes USDT.
TakePayment(us, u, price, pullUsdt) ==
    /\ IF pullUsdt THEN DistributeActivation(us, u, price)
                   ELSE paid' = NoPayment /\ UNCHANGED held
    /\ DistributePlatformTokens(price)

(***************************************************************************)
(* Packages.                                                               *)
(***************************************************************************)

ExistsPackage(p) == terms[p].price # 0

CanActivate(us, u, p) ==
    /\ us[u].registered
    /\ ~us[u].activated
    /\ ~us[u].inactive
    /\ ExistsPackage(p)

WithActivated(us, u, p) ==
    [us EXCEPT ![u] = [@ EXCEPT !.activated = TRUE, !.package = p,
                                !.limit = terms[p].limit, !.activatedAt = day]]

CanUpgrade(u, p) ==
    /\ users[u].registered
    /\ users[u].activated
    /\ ~users[u].inactive
    /\ ExistsPackage(p)
    /\ terms[p].price >
           (IF users[u].package = NoPackage THEN 0
            ELSE terms[users[u].package].price)

WithUpgraded(u, p) ==
    [users EXCEPT ![u] = [@ EXCEPT !.package = p, !.limit = terms[p].limit]]

(***************************************************************************)
(* Entry points of the users.                                              *)
(***************************************************************************)

Register(u, s) ==
    /\ ~paused
    /\ CanRegister(users, u, s)
    /\ users' = WithRegistered(users, u, s)
    /\ referrals' = [referrals EXCEPT ![s] = Append(@, u)]
    /\ paid' = NoPayment
    /\ UNCHANGED <<configVars, tokens, held, activityVars>>

\* registerAndActivate and adminRegisterAndActivate: a user who is registered
\* already keeps the sponsor, whatever sponsor the call names.
RegisterAndActivate(u, s, p, pullUsdt) ==
    LET fresh == ~users[u].registered
        us    == IF fresh THEN WithRegistered(users, u, s) ELSE users
    IN  /\ ~paused
        /\ fresh => CanRegister(users, u, s)
        /\ CanActivate(us, u, p)
        /\ users' = WithActivated(us, u, p)
        /\ referrals' = IF fresh THEN [referrals EXCEPT ![s] = Append(@, u)]
                        ELSE referrals
        /\ TakePayment(us, u, terms[p].price, pullUsdt)
        /\ UNCHANGED <<configVars, activityVars>>

Activate(u, p) ==
    /\ ~paused
    /\ CanActivate(users, u, p)
    /\ users' = WithActivated(users, u, p)
    /\ TakePayment(users, u, terms[p].price, TRUE)
    /\ UNCHANGED <<referrals, configVars, activityVars>>

\* upgrade and adminUpgrade.
Upgrade(u, p, pullUsdt) ==
    /\ ~paused
    /\ CanUpgrade(u, p)
    /\ users' = WithUpgraded(u, p)
    /\ TakePayment(users, u, terms[p].price, pullUsdt)
    /\ UNCHANGED <<referrals, configVars, activityVars>>

(***************************************************************************)
(* Volume, compliance and inactivity.                                      *)
(***************************************************************************)

RequiredDailyVolume(u) == Share(users[u].limit, rules.volumeBps)

IsCompliant(u, d) ==
    /\ RequiredDailyVolume(u) # 0
    /\ volume[u][d] >= RequiredDailyVolume(u)

\* Called by the marketplace in the transaction of a purchase.
RecordVolume(u, amount) ==
    /\ users[u].activated /\ ~users[u].inactive
    /\ volume[u][day] + amount <= MaxVolume
    /\ volume' = [volume EXCEPT ![u][day] = @ + amount]
    /\ lastTradeDay' = [lastTradeDay EXCEPT ![u] = day]
    /\ paid' = NoPayment
    /\ UNCHANGED <<treeVars, configVars, tokens, held, day>>

Bug_IdleSinceActivation(u) == day - users[u].activatedAt
DaysSinceLastTrade(u) ==
    IF lastTradeDay[u] # 0 THEN day - lastTradeDay[u]
    ELSE IF users[u].activatedAt = 0 THEN 0
    ELSE day - users[u].activatedAt

ShouldDeactivate(u) ==
    /\ users[u].registered
    /\ users[u].activated
    /\ ~users[u].inactive
    /\ DaysSinceLastTrade(u) >= rules.inactiveDays

DeactivateIfInactive(u) ==
    /\ ShouldDeactivate(u)
    /\ users' = [users EXCEPT ![u] = [@ EXCEPT !.inactive = TRUE]]
    /\ paid' = NoPayment
    /\ UNCHANGED <<referrals, configVars, tokens, held, activityVars>>

SetPermanentlyInactive(u, value) ==
    /\ users[u].registered
    /\ users[u].inactive # value
    /\ users' = [users EXCEPT ![u] = [@ EXCEPT !.inactive = value]]
    /\ paid' = NoPayment
    /\ UNCHANGED <<referrals, configVars, tokens, held, activityVars>>

NextDay ==
    /\ day < MaxDay
    /\ day' = day + 1
    /\ paid' = NoPayment
    /\ UNCHANGED <<treeVars, configVars, tokens, held, volume, lastTradeDay>>

(***************************************************************************)
(* Settings of the contract's owner.                                       *)
(***************************************************************************)

SetSplit(s) ==
    /\ SplitTotal(s) = BPS
    /\ split' = s
    /\ paid' = NoPayment
    /\ UNCHANGED <<treeVars, terms, unlock, rules, tokenOn, paused, tokens,
                   held, activityVars>>

SetPackage(p, t) ==
    /\ t.price # 0
    /\ terms' = [terms EXCEPT ![p] = t]
    /\ paid' = NoPayment
    /\ UNCHANGED <<treeVars, split, unlock, rules, tokenOn, paused, tokens,
                   held, activityVars>>

SetLevelUnlock(directs, levels) ==
    /\ unlock' = [unlock EXCEPT ![directs] = levels]
    /\ paid' = NoPayment
    /\ UNCHANGED <<treeVars, terms, split, rules, tokenOn, paused, tokens,
                   held, activityVars>>

SetComplianceConfig(r) ==
    /\ rules' = r
    /\ paid' = NoPayment
    /\ UNCHANGED <<treeVars, terms, split, unlock, tokenOn, paused, tokens,
                   held, activityVars>>

SetPlatformToken(on) ==
    /\ tokenOn' = on
    /\ paid' = NoPayment
    /\ UNCHANGED <<treeVars, terms, split, unlock, rules, paused, tokens,
                   held, activityVars>>

SetPaused(value) ==
    /\ paused # value
    /\ paused' = value
    /\ paid' = NoPayment
    /\ UNCHANGED <<treeVars, terms, split, unlock, rules, tokenOn, tokens,
                   held, activityVars>>

Init ==
    /\ users = [a \in Accounts |-> Newcomer(a = Root, NoOne)]
    /\ referrals = [a \in Accounts |-> <<>>]
    /\ terms = InitTerms
    /\ split = InitSplit
    /\ unlock = InitUnlock
    /\ rules = InitRules
    /\ tokenOn = FALSE
    /\ tokens = MaxSupply
    /\ held = 0
    /\ paid = NoPayment
    /\ day = 1
    /\ volume = [a \in Accounts |-> [d \in Days |-> 0]]
    /\ lastTradeDay = [a \in Accounts |-> 0]
    /\ paused = FALSE

TreeNext ==
    \/ \E u, s \in Accounts : Register(u, s)
    \/ \E u, s \in Accounts, p \in Packages, pullUsdt \in BOOLEAN :
           RegisterAndActivate(u, s, p, pullUsdt)
    \/ \E u \in Accounts, p \in Packages : Activate(u, p)
    \/ \E u \in Accounts, p \in Packages, pullUsdt \in BOOLEAN :
           Upgrade(u, p, pullUsdt)

ActivityNext ==
    \/ \E u \in Accounts, amount \in Volumes : RecordVolume(u, amount)
    \/ \E u \in Accounts : DeactivateIfInactive(u)
    \/ \E u \in Accounts, value \in BOOLEAN : SetPermanentlyInactive(u, value)
    \/ NextDay

SettingsNext ==
    \/ \E s \in Splits : SetSplit(s)
    \/ \E p \in Packages, t \in TermsOnOffer : SetPackage(p, t)
    \/ \E directs \in 1 .. TopDirects, levels \in UnlockLevels :
           SetLevelUnlock(directs, levels)
    \/ \E r \in RulesOnOffer : SetComplianceConfig(r)
    \/ \E on \in BOOLEAN : SetPlatformToken(on)
    \/ \E value \in BOOLEAN : SetPaused(value)

Next == TreeNext \/ ActivityNext \/ SettingsNext

Spec == Init /\ [][Next]_vars

(***************************************************************************)
(* Properties.                                                             *)
(***************************************************************************)

Members == {a \in Accounts : users[a].registered} \ {Root}

\* The sponsors form a tree: every member has a registered sponsor, and no set
\* of members is closed under sponsorship, so no chain of sponsors comes back
\* on itself.  teamSize's recursion ends and an activation never pays its own
\* user as an upline, however registrations interleave.
SponsorTree ==
    /\ \A u \in Members : users[u].sponsor \in Members \cup {Root}
    /\ \A S \in SUBSET Members :
           S # {} => \E u \in S : users[u].sponsor \notin S

\* directCount, which unlocks the income levels and the ranks, is the number of
\* users that name the account as their sponsor, and each of them is in its
\* referral list once: no path through registration counts a direct twice or
\* loses one.
DirectsCounted ==
    \A a \in Accounts :
        LET directs == {u \in Accounts : users[u].sponsor = a}
        IN  /\ users[a].directs = Cardinality(directs)
            /\ users[a].directs = Len(referrals[a])
            /\ \A u \in directs :
                   \E i \in 1 .. Len(referrals[a]) : referrals[a][i] = u

\* _distributeActivation pays out all of the price: the contract keeps no USDT,
\* whatever the split, the eligibility of the sponsor and the levels unlocked.
NothingHeld == held = 0

\* The public deactivateIfInactive cannot strike a user who traded, or who
\* activated, less than inactiveDays ago, whatever rules the owner sets.
RecentTradeProtects ==
    [][\A u \in Accounts :
           DeactivateIfInactive(u) =>
               /\ day - users[u].activatedAt >= rules.inactiveDays
               /\ day - lastTradeDay[u] >= rules.inactiveDays]_vars
=============================================================================
