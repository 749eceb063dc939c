---------------------------- MODULE Marketplace ----------------------------
(***************************************************************************)
(* The NFTMarketplace contract: a first-in first-out queue of NFTs on sale *)
(* that the contract owns, a primary mint when the queue is empty, at most *)
(* one NFT on personal hold per user, the burn-and-split of an NFT whose   *)
(* price reached the burn threshold, and the split of each sale's USDT.    *)
(*                                                                         *)
(* A transaction is atomic, so an entry point is one action.  runBot, the  *)
(* only entry point with a loop of purchases, is a sequence of steps under *)
(* the lock `bot': while it is set no other action is enabled.             *)
(*                                                                         *)
(* What the contract reads from Registration (package, permanent           *)
(* inactivity, today's volume) is state of this module too, changed by the *)
(* Registration calls that change it.                                      *)
(***************************************************************************)
EXTENDS Integers, Sequences

CONSTANTS
    Users,          \* accounts that trade
    Market,         \* the contract itself, as an owner of NFTs
    NoOne,          \* address(0)
    MaxToken,       \* bound: the largest token id minted
    BPS,            \* basis points in the whole (10_000 in the code)
    MaxLevels,      \* levels of upline that share the team slice (20)
    Packages,       \* ids of the packages on sale
    PackagePrice,   \* [Packages -> price]
    TradingLimit,   \* [Packages -> daily trading limit]
    NoHoldMax,      \* packages up to this price never hold (10 USDT)
    Pricings,       \* values setPricing may give
    InitPricing,    \* the pricing of the constructor
    Splits,         \* values setSaleSplit may give
    InitSplit,      \* the sale split of the constructor
    Recipients,     \* accounts a user may transfer an NFT to
    MintQuantities  \* values of adminMintToQueue's quantity (1..50)

Token == 1 .. MaxToken
NoToken == 0
NoPackage == 0

Pricing == [mintPrice : Nat, burnThreshold : Nat, appreciationBps : Nat]
SaleSplit == [seller : Nat, team : Nat, creator : Nat,
              burn : Nat, liquidity : Nat, global : Nat]

SplitTotal(s) ==
    s.seller + s.team + s.creator + s.burn + s.liquidity + s.global

ASSUME AccountsAssumption ==
    /\ Market \notin Users
    /\ NoOne \notin Users
    /\ Market # NoOne
    /\ Recipients \subseteq Users \cup {Market}

ASSUME BoundsAssumption ==
    /\ MaxToken \in Nat
    /\ BPS \in Nat \ {0}
    /\ MaxLevels \in Nat \ {0}
    /\ MintQuantities \subseteq Nat \ {0}

ASSUME PackagesAssumption ==
    /\ Packages \subseteq Nat \ {NoPackage}
    /\ PackagePrice \in [Packages -> Nat \ {0}]
    /\ TradingLimit \in [Packages -> Nat]
    /\ NoHoldMax \in Nat

ASSUME PricingAssumption ==
    /\ Pricings \subseteq Pricing
    /\ InitPricing \in Pricing

ASSUME SplitAssumption ==
    /\ Splits \subseteq SaleSplit
    /\ InitSplit \in SaleSplit
    /\ SplitTotal(InitSplit) = BPS

VARIABLES
    owner,          \* ERC-721 owner of each token id, NoOne if unminted or burned
    queue,          \* the live part of _queue, from _queueHead on
    listing,        \* listPrice, listed and _sellerOf of each token id
    heldTokenId,    \* the NFT on personal hold of each user, or NoToken
    holdPaidPrice,  \* price paid when the NFT entered a hold
    nextTokenId,    \* _nextTokenId
    nextListPrice,  \* price of the next primary mint
    pricing,        \* mintPrice, burnThreshold, appreciationBps
    split,          \* the sale split in basis points
    paused,
    botEnabled,
    bot,            \* the user a runBot loop is trading for, or NoOne
    vault,          \* USDT the contract holds
    package,        \* Registration: packageId of each user
    inactive,       \* Registration: permanentlyInactive of each user
    volume          \* Registration: dailyVolume of each user today

nftVars == <<owner, queue, listing, heldTokenId, holdPaidPrice, nextTokenId,
             nextListPrice>>
configVars == <<pricing, split, paused, botEnabled>>
accountVars == <<package, inactive, volume>>
vars == <<nftVars, configVars, bot, vault, accountVars>>

Listing == [price : Nat, listed : BOOLEAN, seller : Users \cup {NoOne}]
NoListing == [price |-> 0, listed |-> FALSE, seller |-> NoOne]
Ask(price, seller) == [price |-> price, listed |-> TRUE, seller |-> seller]

TypeOK ==
    /\ owner \in [Token -> Users \cup {Market, NoOne}]
    /\ queue \in Seq(Token)
    /\ listing \in [Token -> Listing]
    /\ heldTokenId \in [Users -> Token \cup {NoToken}]
    /\ holdPaidPrice \in [Token -> Nat]
    /\ nextTokenId \in 1 .. MaxToken + 1
    /\ nextListPrice \in Nat
    /\ pricing \in Pricing
    /\ split \in SaleSplit /\ SplitTotal(split) = BPS
    /\ paused \in BOOLEAN
    /\ botEnabled \in [Users -> BOOLEAN]
    /\ bot \in Users \cup {NoOne}
    /\ vault \in Int
    /\ package \in [Users -> Packages \cup {NoPackage}]
    /\ inactive \in [Users -> BOOLEAN]
    /\ volume \in [Users -> Nat]

(***************************************************************************)
(* Prices.  Integer division throughout, as in the contract.               *)
(***************************************************************************)

Appreciated(price) == (price * (BPS + pricing.appreciationBps)) \div BPS

Share(amount, bps) == (amount * bps) \div BPS

CostBasis(price) == (price * BPS) \div (BPS + pricing.appreciationBps)

(***************************************************************************)
(* The amounts a sale pays out.  `levels' is the number of uplines the     *)
(* walk up the sponsor chain finds eligible, `hasSeller' says that the NFT *)
(* was listed by a user.                                                   *)
(***************************************************************************)
TeamSlice(price) == Share(price - CostBasis(price), split.team)

TeamPaid(price, levels) == levels * (TeamSlice(price) \div MaxLevels)

Bug_LeftoverKept(price, levels) == 0
TeamLeftover(price, levels) == TeamSlice(price) - TeamPaid(price, levels)

SalePayments(price, hasSeller, levels) ==
    LET cost      == CostBasis(price)
        profit    == price - cost
        toSeller  == cost + Share(profit, split.seller)
        team      == TeamSlice(price)
        creator   == Share(profit, split.creator)
        liquidity == Share(profit, split.liquidity)
        burned    == Share(profit, split.burn)
        global    == profit - Share(profit, split.seller) - team - creator
                            - burned - liquidity
    IN  [seller    |-> IF hasSeller THEN toSeller ELSE 0,
         team      |-> TeamPaid(price, levels),
         creator   |-> creator,
         liquidity |-> liquidity,
         global    |-> global,
         burn      |-> burned + TeamLeftover(price, levels)
                              + (IF hasSeller THEN 0 ELSE toSeller)]

PaidOut(p) == p.seller + p.team + p.creator + p.liquidity + p.global + p.burn

(***************************************************************************)
(* The purchase: what is on offer, what buying it does to the sale state   *)
(* and the four places the bought NFT may go.                              *)
(***************************************************************************)

Fresh == queue = <<>>
Offer == IF Fresh THEN nextTokenId ELSE Head(queue)
OfferPrice == IF Fresh THEN nextListPrice ELSE listing[Offer].price
Bug_RestSwapsLast == IF Len(queue) < 2 THEN <<>>
    ELSE <<queue[Len(queue)]>> \o SubSeq(queue, 2, Len(queue) - 1)
Rest == IF Fresh THEN <<>> ELSE Tail(queue)
NextId == IF Fresh THEN nextTokenId + 1 ELSE nextTokenId

\* A fresh mint is marked listed but not queued, and its mark is not cleared.
Taken == [listing EXCEPT ![Offer] =
             IF Fresh THEN Ask(OfferPrice, NoOne) ELSE NoListing]

PriceOf(p) == IF p = NoPackage THEN 0 ELSE PackagePrice[p]

HoldEligible(u) == PriceOf(package[u]) > NoHoldMax

\* The three NFTs spawned in place of a burned one share its price.
Bug_WholePrice == OfferPrice
SpawnUnit == OfferPrice \div 3
Bug_TwoSpawned == <<NextId, NextId + 1>>
Spawned == <<NextId, NextId + 1, NextId + 2>>

BurnAndSplit(u) ==
    LET unit  == SpawnUnit
        ask   == IF Appreciated(unit) >= pricing.burnThreshold
                 THEN unit ELSE Appreciated(unit)
        spawn == NextId .. NextId + 2
    IN  /\ OfferPrice >= pricing.burnThreshold
        /\ NextId + 2 <= MaxToken
        /\ owner' = [t \in Token |-> IF t = Offer THEN NoOne
                                     ELSE IF t \in spawn THEN Market
                                     ELSE owner[t]]
        /\ listing' = [t \in Token |->
                          IF t \in spawn THEN Ask(ask, u) ELSE Taken[t]]
        /\ queue' = Rest \o Spawned
        /\ nextTokenId' = NextId + 3
        /\ nextListPrice' = Appreciated(unit)
        /\ UNCHANGED <<heldTokenId, holdPaidPrice>>

HoldAtThreshold(u) ==
    /\ OfferPrice < pricing.burnThreshold
    /\ Appreciated(OfferPrice) >= pricing.burnThreshold
    /\ owner' = [owner EXCEPT ![Offer] = u]
    /\ heldTokenId' = [heldTokenId EXCEPT ![u] = Offer]
    /\ holdPaidPrice' = [holdPaidPrice EXCEPT ![Offer] = OfferPrice]
    /\ nextListPrice' = Appreciated(OfferPrice)
    /\ listing' = Taken
    /\ queue' = Rest
    /\ nextTokenId' = NextId

BelowThreshold == Appreciated(OfferPrice) < pricing.burnThreshold
                  /\ OfferPrice < pricing.burnThreshold

AutoList(u) ==
    LET ask == Appreciated(OfferPrice)
    IN  /\ BelowThreshold
        /\ ~HoldEligible(u)
        /\ owner' = [owner EXCEPT ![Offer] = Market]
        /\ listing' = [Taken EXCEPT ![Offer] = Ask(ask, u)]
        /\ queue' = Append(Rest, Offer)
        /\ nextListPrice' = Appreciated(ask)
        /\ nextTokenId' = NextId
        /\ UNCHANGED <<heldTokenId, holdPaidPrice>>

HoldFirst(u) ==
    /\ BelowThreshold
    /\ HoldEligible(u)
    /\ heldTokenId[u] = NoToken
    /\ owner' = [owner EXCEPT ![Offer] = u]
    /\ heldTokenId' = [heldTokenId EXCEPT ![u] = Offer]
    /\ holdPaidPrice' = [holdPaidPrice EXCEPT ![Offer] = OfferPrice]
    /\ nextListPrice' = Appreciated(OfferPrice)
    /\ listing' = Taken
    /\ queue' = Rest
    /\ nextTokenId' = NextId

DisplacedAsk(prev) ==
    LET paid == IF holdPaidPrice[prev] = 0 THEN OfferPrice
                ELSE holdPaidPrice[prev]
    IN  IF Appreciated(paid) >= pricing.burnThreshold
        THEN paid ELSE Appreciated(paid)

HoldDisplacing(u) ==
    LET prev == heldTokenId[u]
        ask  == DisplacedAsk(prev)
    IN  /\ BelowThreshold
        /\ HoldEligible(u)
        /\ prev # NoToken
        /\ owner[prev] \in {u, Market}     \* otherwise _transfer reverts
        /\ owner' = [owner EXCEPT ![prev] = Market, ![Offer] = u]
        /\ heldTokenId' = [heldTokenId EXCEPT ![u] = Offer]
        /\ holdPaidPrice' = [holdPaidPrice EXCEPT ![prev] = 0,
                                                  ![Offer] = OfferPrice]
        /\ listing' = [Taken EXCEPT ![prev] = Ask(ask, u)]
        /\ queue' = Append(Rest, prev)
        /\ nextListPrice' = Appreciated(ask)
        /\ nextTokenId' = NextId

PlaceAfterPurchase(u) ==
    \/ HoldAtThreshold(u)
    \/ AutoList(u)
    \/ HoldFirst(u)
    \/ HoldDisplacing(u)

RequireActive(u) == package[u] # NoPackage /\ ~inactive[u]

Bug_LimitBeforePrice(u) ==
    package[u] # NoPackage /\ volume[u] < TradingLimit[package[u]]
WithinDailyLimit(u) ==
    /\ package[u] # NoPackage
    /\ volume[u] + OfferPrice <= TradingLimit[package[u]]

DistributeSale ==
    \E levels \in 0 .. MaxLevels :
        LET hasSeller == ~Fresh /\ listing[Offer].seller # NoOne
        IN  vault' = vault + OfferPrice
                       - PaidOut(SalePayments(OfferPrice, hasSeller, levels))

Purchase(u) ==
    /\ RequireActive(u)
    /\ Offer <= MaxToken
    /\ WithinDailyLimit(u)
    /\ DistributeSale
    /\ BurnAndSplit(u) \/ PlaceAfterPurchase(u)
    /\ volume' = [volume EXCEPT ![u] = @ + OfferPrice]
    /\ UNCHANGED <<configVars, package, inactive>>

(***************************************************************************)
(* Entry points.                                                           *)
(***************************************************************************)

Idle == bot = NoOne

Buy(u) ==
    /\ Idle
    /\ ~paused
    /\ Purchase(u)
    /\ UNCHANGED bot

BotBuy(u) ==
    /\ Idle
    /\ ~paused
    /\ botEnabled[u]
    /\ Purchase(u)
    /\ UNCHANGED bot

\* runBot(user, maxTrades): the loop ends after any number of purchases (the
\* count, the user's balance or the allowance), and runs even while paused.
RunBotStart(u) ==
    /\ Idle
    /\ botEnabled[u]
    /\ bot' = u
    /\ UNCHANGED <<nftVars, configVars, vault, accountVars>>

RunBotTrade ==
    /\ ~Idle
    /\ Purchase(bot)
    /\ UNCHANGED bot

RunBotStop ==
    /\ ~Idle
    /\ bot' = NoOne
    /\ UNCHANGED <<nftVars, configVars, vault, accountVars>>

AdminMintToQueue ==
    LET ask == Appreciated(pricing.mintPrice)
    IN  \E quantity \in MintQuantities :
            LET minted == nextTokenId .. nextTokenId + quantity - 1
            IN  /\ Idle
                /\ ~paused
                /\ ask > 0 /\ ask < pricing.burnThreshold
                /\ nextTokenId + quantity - 1 <= MaxToken
                /\ owner' = [t \in Token |->
                                IF t \in minted THEN Market ELSE owner[t]]
                /\ listing' = [t \in Token |->
                                IF t \in minted THEN Ask(ask, NoOne)
                                ELSE listing[t]]
                /\ queue' = queue \o
                      [i \in 1 .. quantity |-> nextTokenId + i - 1]
                /\ nextTokenId' = nextTokenId + quantity
                /\ nextListPrice' = IF nextListPrice < ask THEN ask
                                    ELSE nextListPrice
                /\ UNCHANGED <<heldTokenId, holdPaidPrice, configVars, bot,
                               vault, accountVars>>

Bug_HoldsKept(t) == heldTokenId
\* What _update does to the holds when token t leaves its owner.
Unheld(t) == [u \in Users |-> IF u = owner[t] /\ heldTokenId[u] = t
                              THEN NoToken ELSE heldTokenId[u]]

Bug_AnyListedBurns(t) == queue # <<>>
AtHead(t) == queue # <<>> /\ Head(queue) = t

Exists(t) == owner[t] # NoOne

BurnHead(t) ==
    /\ listing[t].listed
    /\ AtHead(t)
    /\ queue' = Tail(queue)
    /\ listing' = [listing EXCEPT ![t] = NoListing]
    /\ UNCHANGED heldTokenId

BurnUnlisted(t) ==
    /\ ~listing[t].listed
    /\ heldTokenId' = Unheld(t)
    /\ UNCHANGED <<queue, listing>>

AdminBurnToken(t) ==
    /\ Idle
    /\ Exists(t)
    /\ BurnHead(t) \/ BurnUnlisted(t)
    /\ owner' = [owner EXCEPT ![t] = NoOne]
    /\ UNCHANGED <<holdPaidPrice, nextTokenId, nextListPrice, configVars,
                   bot, vault, accountVars>>

ListHeld(u) ==
    LET t == heldTokenId[u]
    IN  /\ Idle
        /\ ~paused
        /\ t # NoToken
        /\ owner[t] = u
        /\ nextListPrice < pricing.burnThreshold
        /\ heldTokenId' = [heldTokenId EXCEPT ![u] = NoToken]
        /\ owner' = [owner EXCEPT ![t] = Market]
        /\ listing' = [listing EXCEPT ![t] = Ask(nextListPrice, u)]
        /\ queue' = Append(queue, t)
        /\ nextListPrice' = Appreciated(nextListPrice)
        /\ UNCHANGED <<holdPaidPrice, nextTokenId, configVars, bot, vault,
                       accountVars>>

\* ERC-721 transferFrom by the owner of t.
TransferFrom(t, to) ==
    /\ Idle
    /\ owner[t] \in Users \ {to}
    /\ owner' = [owner EXCEPT ![t] = to]
    /\ heldTokenId' = Unheld(t)
    /\ UNCHANGED <<queue, listing, holdPaidPrice, nextTokenId, nextListPrice,
                   configVars, bot, vault, accountVars>>

SetUserBot(u, enabled) ==
    /\ Idle
    /\ botEnabled' = [botEnabled EXCEPT ![u] = enabled]
    /\ UNCHANGED <<nftVars, pricing, split, paused, bot, vault, accountVars>>

SetPricing(p) ==
    /\ Idle
    /\ pricing' = p
    /\ UNCHANGED <<nftVars, split, paused, botEnabled, bot, vault, accountVars>>

SetSaleSplit(s) ==
    /\ Idle
    /\ SplitTotal(s) = BPS
    /\ split' = s
    /\ UNCHANGED <<nftVars, pricing, paused, botEnabled, bot, vault,
                   accountVars>>

SetPaused(value) ==
    /\ Idle
    /\ paused # value
    /\ paused' = value
    /\ UNCHANGED <<nftVars, pricing, split, botEnabled, bot, vault, accountVars>>

(***************************************************************************)
(* Registration, as far as the marketplace reads it.                       *)
(***************************************************************************)

\* activate and upgrade: a first package, or a dearer one.
TakePackage(u, p) ==
    /\ Idle
    /\ ~inactive[u]
    /\ PriceOf(package[u]) < PackagePrice[p]
    /\ package' = [package EXCEPT ![u] = p]
    /\ UNCHANGED <<nftVars, configVars, bot, vault, inactive, volume>>

SetPermanentlyInactive(u, value) ==
    /\ Idle
    /\ inactive[u] # value
    /\ inactive' = [inactive EXCEPT ![u] = value]
    /\ UNCHANGED <<nftVars, configVars, bot, vault, package, volume>>

NextDay ==
    /\ Idle
    /\ volume' = [u \in Users |-> 0]
    /\ UNCHANGED <<nftVars, configVars, bot, vault, package, inactive>>

Init ==
    /\ owner = [t \in Token |-> NoOne]
    /\ queue = <<>>
    /\ listing = [t \in Token |-> NoListing]
    /\ heldTokenId = [u \in Users |-> NoToken]
    /\ holdPaidPrice = [t \in Token |-> 0]
    /\ nextTokenId = 1
    /\ pricing = InitPricing
    /\ nextListPrice = Appreciated(pricing.mintPrice)
    /\ split = InitSplit
    /\ paused = FALSE
    /\ botEnabled = [u \in Users |-> FALSE]
    /\ bot = NoOne
    /\ vault = 0
    /\ package = [u \in Users |-> NoPackage]
    /\ inactive = [u \in Users |-> FALSE]
    /\ volume = [u \in Users |-> 0]

Next ==
    \/ \E u \in Users : Buy(u)
    \/ \E u \in Users : BotBuy(u)
    \/ \E u \in Users : RunBotStart(u)
    \/ RunBotTrade
    \/ RunBotStop
    \/ AdminMintToQueue
    \/ \E t \in Token : AdminBurnToken(t)
    \/ \E u \in Users : ListHeld(u)
    \/ \E t \in Token, to \in Recipients : TransferFrom(t, to)
    \/ \E u \in Users, enabled \in BOOLEAN : SetUserBot(u, enabled)
    \/ \E p \in Pricings : SetPricing(p)
    \/ \E s \in Splits : SetSaleSplit(s)
    \/ \E value \in BOOLEAN : SetPaused(value)
    \/ \E u \in Users, p \in Packages : TakePackage(u, p)
    \/ \E u \in Users, value \in BOOLEAN : SetPermanentlyInactive(u, value)
    \/ NextDay

Spec == Init /\ [][Next]_vars

(***************************************************************************)
(* Properties.                                                             *)
(***************************************************************************)

InQueue(t) == \E i \in 1 .. Len(queue) : queue[i] = t

\* Every live queue entry is a distinct NFT that the contract owns and has on
\* its books as listed.  A second entry for an NFT, or one for an NFT that was
\* burned or left the contract, would revert every later buy at the head.
QueueSound ==
    /\ \A i, j \in 1 .. Len(queue) : queue[i] = queue[j] => i = j
    /\ \A i \in 1 .. Len(queue) : owner[queue[i]] = Market
    /\ \A i \in 1 .. Len(queue) : listing[queue[i]].listed

\* An NFT recorded as a user's hold belongs to that user.  _placeAfterPurchase
\* transfers the previous hold away from the buyer and reverts if it cannot, so
\* a stale hold would stop the user from ever buying again.
HoldSound ==
    \A u \in Users : heldTokenId[u] # NoToken => owner[heldTokenId[u]] = u

\* Everything the contract owns is for sale: an NFT that leaves the queue, is
\* displaced from a hold or is spawned by a split is never left in the contract
\* where nobody could buy it.  (For users that do not send NFTs to the contract.)
StockIsQueued ==
    \A t \in Token : owner[t] = Market => InQueue(t)

\* _distributeSale pays out all of a sale's price: the contract keeps no USDT
\* ("no deposit vault"), whatever the split, the seller and the team found.
NoVault == vault = 0

\* What a user bought today never exceeds the trading limit of the package,
\* across buy, botBuy and the purchases of one runBot loop.
VolumeWithinLimit ==
    \A u \in Users : volume[u] > 0 =>
        package[u] # NoPackage /\ volume[u] <= TradingLimit[package[u]]

\* While the pricing stays as constructed no resale reaches the burn
\* threshold: only a primary mint is burned and split.
AsksBelowThreshold ==
    \A i \in 1 .. Len(queue) : listing[queue[i]].price < pricing.burnThreshold

\* First in, first out: a step removes at most the head of the queue and never
\* reorders or drops any other entry.
FifoStep ==
    \E k \in 0 .. 1 :
        /\ k <= Len(queue)
        /\ \A i \in 1 .. Len(queue) - k :
               i <= Len(queue') /\ queue'[i] = queue[i + k]
Fifo == [][FifoStep]_vars

=============================================================================
