------------------------- MODULE MarketplaceProofs -------------------------
(***************************************************************************)
(* Theorems of Marketplace, for every set of users, bound on tokens, list  *)
(* of packages, pricing and split.                                         *)
(***************************************************************************)
EXTENDS Marketplace, TLAPS

(***************************************************************************)
(* Integer arithmetic of prices and shares.                                *)
(***************************************************************************)

\* Solidity's multiply-then-divide on unsigned integers stays unsigned.
LEMMA MulDivNat ==
    ASSUME NEW a \in Nat, NEW b \in Nat, NEW c \in Nat \ {0}
    PROVE  (a * b) \div c \in Nat
<1>1. a * b \in Nat
    OBVIOUS
<1>2. \A x \in Nat : x \div c \in Nat
    OBVIOUS
<1> QED
    BY <1>1, <1>2

\* The price after appreciation is a price.
LEMMA AppreciatedNat ==
    ASSUME TypeOK, NEW price \in Nat
    PROVE  Appreciated(price) \in Nat
<1>1. BPS + pricing.appreciationBps \in Nat /\ BPS \in Nat \ {0}
    BY BoundsAssumption DEF TypeOK, Pricing
<1> QED
    BY <1>1, MulDivNat DEF Appreciated

LEMMA ShareNat ==
    ASSUME NEW amount \in Nat, NEW bps \in Nat
    PROVE  Share(amount, bps) \in Nat
    BY MulDivNat, BoundsAssumption DEF Share

\* What buying the next NFT starts from is well typed.
LEMMA OfferType ==
    ASSUME TypeOK, Offer <= MaxToken
    PROVE  /\ Offer \in Token
           /\ OfferPrice \in Nat
           /\ Rest \in Seq(Token)
           /\ NextId \in 1 .. MaxToken + 1
           /\ Taken \in [Token -> Listing]
<1>1. Offer \in Token
    BY BoundsAssumption DEF TypeOK, Offer, Fresh, Token
<1>2. OfferPrice \in Nat
    BY <1>1 DEF TypeOK, OfferPrice, Listing
<1>3. Rest \in Seq(Token)
    BY DEF TypeOK, Rest, Fresh
<1>4. NextId \in 1 .. MaxToken + 1
    BY BoundsAssumption DEF TypeOK, NextId, Offer
<1>5. Taken \in [Token -> Listing]
    BY <1>1, <1>2 DEF TypeOK, Taken, Listing, Ask, NoListing
<1> QED
    BY <1>1, <1>2, <1>3, <1>4, <1>5

(***************************************************************************)
(* Type correctness.                                                       *)
(***************************************************************************)

\* The part of the type invariant that the NFTs' state must satisfy.
NftTypeOK ==
    /\ owner \in [Token -> Users \cup {Market, NoOne}]
    /\ queue \in Seq(Token)
    /\ listing \in [Token -> Listing]
    /\ heldTokenId \in [Users -> Token \cup {NoToken}]
    /\ holdPaidPrice \in [Token -> Nat]
    /\ nextTokenId \in 1 .. MaxToken + 1
    /\ nextListPrice \in Nat

LEMMA AskType ==
    ASSUME NEW price \in Nat, NEW seller \in Users \cup {NoOne}
    PROVE  Ask(price, seller) \in Listing
    BY DEF Ask, Listing

LEMMA BurnAndSplitType ==
    ASSUME TypeOK, NEW u \in Users, Offer <= MaxToken, BurnAndSplit(u)
    PROVE  NftTypeOK'
<1> DEFINE unit == OfferPrice \div 3
           ask  == IF Appreciated(unit) >= pricing.burnThreshold
                   THEN unit ELSE Appreciated(unit)
<1>1. unit \in Nat /\ Appreciated(unit) \in Nat /\ ask \in Nat
    <2>1. unit \in Nat
        BY OfferType
    <2>2. Appreciated(unit) \in Nat
        BY <2>1, AppreciatedNat
    <2> QED
        BY <2>1, <2>2
<1>2. Ask(ask, u) \in Listing
    BY <1>1, AskType
<1>3. listing' \in [Token -> Listing]
    BY <1>2, OfferType DEF BurnAndSplit, SpawnUnit, Spawned
<1>4. owner' \in [Token -> Users \cup {Market, NoOne}]
    BY DEF BurnAndSplit, SpawnUnit, Spawned, TypeOK
<1>5. queue' \in Seq(Token) /\ nextTokenId' \in 1 .. MaxToken + 1
    <2>1. <<NextId, NextId + 1, NextId + 2>> \in Seq(Token)
        BY OfferType, BoundsAssumption DEF BurnAndSplit, SpawnUnit, Spawned, Token
    <2> QED
        BY <2>1, OfferType, BoundsAssumption DEF BurnAndSplit, SpawnUnit, Spawned
<1>6. nextListPrice' \in Nat
    BY <1>1 DEF BurnAndSplit, SpawnUnit, Spawned
<1>7. UNCHANGED <<heldTokenId, holdPaidPrice>>
    BY DEF BurnAndSplit, SpawnUnit, Spawned
<1> QED
    BY <1>3, <1>4, <1>5, <1>6, <1>7 DEF NftTypeOK, TypeOK

LEMMA PlaceAfterPurchaseType ==
    ASSUME TypeOK, NEW u \in Users, Offer <= MaxToken, PlaceAfterPurchase(u)
    PROVE  NftTypeOK'
<1>1. /\ Offer \in Token /\ OfferPrice \in Nat /\ Rest \in Seq(Token)
      /\ NextId \in 1 .. MaxToken + 1 /\ Taken \in [Token -> Listing]
      /\ Appreciated(OfferPrice) \in Nat
      /\ Appreciated(Appreciated(OfferPrice)) \in Nat
    BY OfferType, AppreciatedNat
<1>2. CASE HoldAtThreshold(u)
    BY <1>1, <1>2 DEF HoldAtThreshold, NftTypeOK, TypeOK
<1>3. CASE AutoList(u)
    <2>1. Ask(Appreciated(OfferPrice), u) \in Listing
        BY <1>1, AskType
    <2> QED
        BY <1>1, <1>3, <2>1 DEF AutoList, NftTypeOK, TypeOK
<1>4. CASE HoldFirst(u)
    BY <1>1, <1>4 DEF HoldFirst, NftTypeOK, TypeOK
<1>5. CASE HoldDisplacing(u)
    <2> DEFINE prev == heldTokenId[u]
    <2>1. prev \in Token
        BY <1>5 DEF HoldDisplacing, TypeOK
    <2>2. DisplacedAsk(prev) \in Nat /\ Appreciated(DisplacedAsk(prev)) \in Nat
        <3>1. holdPaidPrice[prev] \in Nat
            BY <2>1 DEF TypeOK
        <3>2. DisplacedAsk(prev) \in Nat
            BY <1>1, <3>1, AppreciatedNat DEF DisplacedAsk
        <3> QED
            BY <3>2, AppreciatedNat
    <2>3. Ask(DisplacedAsk(prev), u) \in Listing
        BY <2>2, AskType
    <2>4. owner' \in [Token -> Users \cup {Market, NoOne}]
        BY <1>5 DEF HoldDisplacing, TypeOK
    <2>5. listing' \in [Token -> Listing]
        BY <1>1, <1>5, <2>3 DEF HoldDisplacing
    <2>6. queue' \in Seq(Token) /\ nextTokenId' \in 1 .. MaxToken + 1
        BY <1>1, <1>5, <2>1 DEF HoldDisplacing
    <2>7. /\ heldTokenId' \in [Users -> Token \cup {NoToken}]
          /\ holdPaidPrice' \in [Token -> Nat]
        BY <1>1, <1>5 DEF HoldDisplacing, TypeOK
    <2>8. nextListPrice' \in Nat
        BY <1>5, <2>2 DEF HoldDisplacing
    <2> QED
        BY <2>4, <2>5, <2>6, <2>7, <2>8 DEF NftTypeOK
<1> QED
    BY <1>2, <1>3, <1>4, <1>5 DEF PlaceAfterPurchase

\* The sale's price is split completely: the six payments add up to it.
LEMMA SaleConserved ==
    ASSUME TypeOK, NEW price \in Nat, NEW hasSeller \in BOOLEAN,
           NEW levels \in Nat
    PROVE  PaidOut(SalePayments(price, hasSeller, levels)) = price
<1>1. CostBasis(price) \in Nat
    <2>1. BPS + pricing.appreciationBps \in Nat \ {0} /\ BPS \in Nat
        BY BoundsAssumption DEF TypeOK, Pricing
    <2> QED
        BY <2>1, MulDivNat DEF CostBasis
<1> DEFINE profit == price - CostBasis(price)
<1>2. \A bps \in Nat : Share(profit, bps) \in Int
    BY <1>1, BoundsAssumption DEF Share
<1>3. /\ Share(profit, split.seller) \in Int
      /\ Share(profit, split.creator) \in Int
      /\ Share(profit, split.liquidity) \in Int
      /\ Share(profit, split.burn) \in Int
      /\ TeamSlice(price) \in Int
    BY <1>2 DEF TypeOK, SaleSplit, TeamSlice
<1>4. TeamPaid(price, levels) \in Int /\ TeamLeftover(price, levels) \in Int
    BY <1>3, BoundsAssumption DEF TeamPaid, TeamLeftover
<1>5. TeamPaid(price, levels) + TeamLeftover(price, levels) = TeamSlice(price)
    BY <1>3, <1>4 DEF TeamLeftover
<1> HIDE DEF profit
<1> QED
    BY <1>1, <1>3, <1>4, <1>5 DEF PaidOut, SalePayments, profit

LEMMA PurchaseType ==
    ASSUME TypeOK, NEW u \in Users, Purchase(u), UNCHANGED bot \/ bot' \in Users
    PROVE  TypeOK'
<1>1. NftTypeOK'
    BY BurnAndSplitType, PlaceAfterPurchaseType DEF Purchase
<1>2. vault' \in Int
    <2>1. PICK levels \in 0 .. MaxLevels, hasSeller \in BOOLEAN :
              vault' = vault + OfferPrice
                       - PaidOut(SalePayments(OfferPrice, hasSeller, levels))
        BY DEF Purchase, DistributeSale
    <2>2. OfferPrice \in Nat /\ levels \in Nat
        BY OfferType, BoundsAssumption DEF Purchase
    <2>3. PaidOut(SalePayments(OfferPrice, hasSeller, levels)) = OfferPrice
        BY <2>2, SaleConserved
    <2> QED
        BY <2>1, <2>2, <2>3 DEF TypeOK
<1>3. volume' \in [Users -> Nat]
    BY OfferType DEF Purchase, TypeOK
<1>4. UNCHANGED <<configVars, package, inactive>> /\ bot' \in Users \cup {NoOne}
    BY DEF Purchase, TypeOK
<1> QED
    BY <1>1, <1>2, <1>3, <1>4 DEF NftTypeOK, TypeOK, configVars

LEMMA AdminMintType ==
    ASSUME TypeOK, AdminMintToQueue
    PROVE  TypeOK'
<1> DEFINE ask == Appreciated(pricing.mintPrice)
<1>1. ask \in Nat
    BY AppreciatedNat DEF TypeOK, Pricing
<1>2. Ask(ask, NoOne) \in Listing
    BY <1>1, AskType
<1>3. PICK quantity \in MintQuantities :
          /\ nextTokenId + quantity - 1 <= MaxToken
          /\ owner' = [t \in Token |->
                IF t \in nextTokenId .. nextTokenId + quantity - 1
                THEN Market ELSE owner[t]]
          /\ listing' = [t \in Token |->
                IF t \in nextTokenId .. nextTokenId + quantity - 1
                THEN Ask(ask, NoOne) ELSE listing[t]]
          /\ queue' = queue \o [i \in 1 .. quantity |-> nextTokenId + i - 1]
          /\ nextTokenId' = nextTokenId + quantity
          /\ nextListPrice' = IF nextListPrice < ask THEN ask ELSE nextListPrice
          /\ UNCHANGED <<heldTokenId, holdPaidPrice, configVars, bot, vault,
                         accountVars>>
    BY DEF AdminMintToQueue
<1>4. quantity \in Nat \ {0}
    BY BoundsAssumption
<1>5. queue' \in Seq(Token)
    <2> DEFINE minted == [i \in 1 .. quantity |-> nextTokenId + i - 1]
    <2>1. \A i \in 1 .. quantity : nextTokenId + i - 1 \in Token
        BY <1>3, <1>4, BoundsAssumption DEF TypeOK, Token
    <2>2. minted \in [1 .. quantity -> Token]
        BY <2>1
    <2>3. minted \in Seq(Token)
        BY <1>4, <2>2
    <2>4. queue' = queue \o minted
        BY <1>3
    <2> HIDE DEF minted
    <2> QED
        BY <2>3, <2>4 DEF TypeOK
<1>6. listing' \in [Token -> Listing]
    BY <1>2, <1>3 DEF TypeOK
<1>7. nextTokenId' \in 1 .. MaxToken + 1
    BY <1>3, <1>4, BoundsAssumption DEF TypeOK
<1> QED
    BY <1>1, <1>3, <1>5, <1>6, <1>7 DEF TypeOK, configVars, accountVars

LEMMA UnheldType ==
    ASSUME TypeOK, NEW t \in Token
    PROVE  Unheld(t) \in [Users -> Token \cup {NoToken}]
    BY DEF TypeOK, Unheld

LEMMA ListHeldType ==
    ASSUME TypeOK, NEW u \in Users, ListHeld(u)
    PROVE  TypeOK'
<1>1. heldTokenId[u] \in Token
    BY DEF ListHeld, TypeOK
<1>2. Ask(nextListPrice, u) \in Listing
    BY AskType DEF TypeOK
<1>3. Appreciated(nextListPrice) \in Nat
    BY AppreciatedNat DEF TypeOK
<1>4. queue' \in Seq(Token)
    BY <1>1 DEF ListHeld, TypeOK
<1>5. listing' \in [Token -> Listing]
    BY <1>1, <1>2 DEF ListHeld, TypeOK
<1>6. /\ owner' \in [Token -> Users \cup {Market, NoOne}]
      /\ heldTokenId' \in [Users -> Token \cup {NoToken}]
      /\ nextListPrice' \in Nat
    BY <1>3 DEF ListHeld, TypeOK
<1>7. UNCHANGED <<holdPaidPrice, nextTokenId, configVars, bot, vault, accountVars>>
    BY DEF ListHeld
<1> QED
    BY <1>4, <1>5, <1>6, <1>7 DEF TypeOK, configVars, accountVars

LEMMA AdminBurnType ==
    ASSUME TypeOK, NEW t \in Token, AdminBurnToken(t)
    PROVE  TypeOK'
<1>1. NoListing \in Listing
    BY DEF NoListing, Listing
<1>2. CASE BurnHead(t)
    <2>1. queue' \in Seq(Token)
        BY <1>2 DEF BurnHead, AtHead, TypeOK
    <2>2. listing' \in [Token -> Listing]
        BY <1>1, <1>2 DEF BurnHead, TypeOK
    <2> QED
        BY <1>2, <2>1, <2>2
        DEF BurnHead, AdminBurnToken, TypeOK, configVars, accountVars
<1>3. CASE BurnUnlisted(t)
    BY <1>3, UnheldType
    DEF BurnUnlisted, AdminBurnToken, TypeOK, configVars, accountVars
<1> QED
    BY <1>2, <1>3 DEF AdminBurnToken

\* Every variable keeps its type (TypeOK): in particular an ask, a price and a
\* volume never go negative, token ids stay in the minted range, and the sale
\* split in force always adds up to the whole.
THEOREM TypeCorrect == Spec => []TypeOK
<1>1. Init => TypeOK
    <2> SUFFICES ASSUME Init PROVE TypeOK
        OBVIOUS
    <2>1. nextListPrice \in Nat
        <3>1. pricing.mintPrice \in Nat /\ pricing.appreciationBps \in Nat
            BY PricingAssumption DEF Init, Pricing
        <3>2. /\ BPS \in Nat \ {0}
              /\ BPS + pricing.appreciationBps \in Nat
            BY <3>1, BoundsAssumption
        <3>3. Appreciated(pricing.mintPrice) \in Nat
            BY <3>1, <3>2, MulDivNat DEF Appreciated
        <3> QED
            BY <3>3 DEF Init
    <2>2. listing \in [Token -> Listing]
        BY DEF Init, NoListing, Listing
    <2>3. /\ queue \in Seq(Token)
          /\ nextTokenId \in 1 .. MaxToken + 1
          /\ pricing \in Pricing
          /\ split \in SaleSplit /\ SplitTotal(split) = BPS
        BY BoundsAssumption, PricingAssumption, SplitAssumption DEF Init
    <2>4. /\ owner \in [Token -> Users \cup {Market, NoOne}]
          /\ heldTokenId \in [Users -> Token \cup {NoToken}]
          /\ bot \in Users \cup {NoOne}
          /\ package \in [Users -> Packages \cup {NoPackage}]
        BY DEF Init
    <2>5. /\ paused \in BOOLEAN
          /\ botEnabled \in [Users -> BOOLEAN]
          /\ inactive \in [Users -> BOOLEAN]
        BY Zenon DEF Init
    <2>6. /\ holdPaidPrice \in [Token -> Nat]
          /\ volume \in [Users -> Nat]
          /\ vault \in Int
        BY DEF Init
    <2> QED
        BY <2>1, <2>2, <2>3, <2>4, <2>5, <2>6 DEF TypeOK
<1>2. TypeOK /\ [Next]_vars => TypeOK'
    <2> SUFFICES ASSUME TypeOK, [Next]_vars PROVE TypeOK'
        OBVIOUS
    <2>1. ASSUME NEW u \in Users, Buy(u) \/ BotBuy(u) PROVE TypeOK'
        BY <2>1, PurchaseType DEF Buy, BotBuy
    <2>2. ASSUME NEW u \in Users, RunBotStart(u) PROVE TypeOK'
        BY <2>2 DEF RunBotStart, TypeOK, nftVars, configVars, accountVars
    <2>3. CASE RunBotTrade
        BY <2>3, PurchaseType DEF RunBotTrade, Idle, TypeOK
    <2>4. CASE RunBotStop
        BY <2>4 DEF RunBotStop, TypeOK, nftVars, configVars, accountVars
    <2>5. CASE AdminMintToQueue
        BY <2>5, AdminMintType
    <2>6. ASSUME NEW t \in Token, AdminBurnToken(t) PROVE TypeOK'
        BY <2>6, AdminBurnType
    <2>7. ASSUME NEW u \in Users, ListHeld(u) PROVE TypeOK'
        BY <2>7, ListHeldType
    <2>8. ASSUME NEW t \in Token, NEW to \in Recipients, TransferFrom(t, to)
          PROVE  TypeOK'
        BY <2>8, UnheldType, AccountsAssumption
        DEF TransferFrom, TypeOK, configVars, accountVars
    <2>9. ASSUME NEW u \in Users, NEW enabled \in BOOLEAN, SetUserBot(u, enabled)
          PROVE  TypeOK'
        BY <2>9 DEF SetUserBot, TypeOK, nftVars, accountVars
    <2>10. ASSUME NEW p \in Pricings, SetPricing(p) PROVE TypeOK'
        BY <2>10, PricingAssumption DEF SetPricing, TypeOK, nftVars, accountVars
    <2>11. ASSUME NEW s \in Splits, SetSaleSplit(s) PROVE TypeOK'
        BY <2>11, SplitAssumption DEF SetSaleSplit, TypeOK, nftVars, accountVars
    <2>12. ASSUME NEW value \in BOOLEAN, SetPaused(value) PROVE TypeOK'
        BY <2>12 DEF SetPaused, TypeOK, nftVars, accountVars
    <2>13. ASSUME NEW u \in Users, NEW p \in Packages, TakePackage(u, p)
           PROVE  TypeOK'
        BY <2>13 DEF TakePackage, TypeOK, nftVars, configVars
    <2>14. ASSUME NEW u \in Users, NEW value \in BOOLEAN,
                  SetPermanentlyInactive(u, value)
           PROVE  TypeOK'
        BY <2>14 DEF SetPermanentlyInactive, TypeOK, nftVars, configVars
    <2>15. CASE NextDay
        BY <2>15 DEF NextDay, TypeOK, nftVars, configVars
    <2>16. CASE UNCHANGED vars
        BY <2>16 DEF TypeOK, vars, nftVars, configVars, accountVars
    <2> QED
        BY <2>1, <2>2, <2>3, <2>4, <2>5, <2>6, <2>7, <2>8, <2>9, <2>10, <2>11,
           <2>12, <2>13, <2>14, <2>15, <2>16 DEF Next
<1> QED
    BY <1>1, <1>2, PTL DEF Spec

(***************************************************************************)
(* Soundness of the queue and of the holds.  They depend on each other: a  *)
(* displaced hold is appended to the queue, which stays free of duplicates *)
(* because a held NFT is the user's and a queued one the contract's; and   *)
(* an NFT minted during a purchase is new because ids are not handed out   *)
(* before nextTokenId reaches them.                                        *)
(***************************************************************************)

UnmintedFree == \A t \in Token : t >= nextTokenId => owner[t] = NoOne

NftInv == QueueSound /\ HoldSound /\ UnmintedFree

\* Appending an entry that is not in a duplicate-free sequence.
LEMMA AppendDistinct ==
    ASSUME NEW S, NEW q \in Seq(S), NEW t \in S,
           \A i, j \in 1 .. Len(q) : q[i] = q[j] => i = j,
           \A i \in 1 .. Len(q) : q[i] # t
    PROVE  \A i, j \in 1 .. Len(Append(q, t)) :
               Append(q, t)[i] = Append(q, t)[j] => i = j
    OBVIOUS

\* Where the entries of a concatenation come from.
LEMMA ConcatIndex ==
    ASSUME NEW S, NEW q \in Seq(S), NEW r \in Seq(S)
    PROVE  /\ Len(q \o r) = Len(q) + Len(r)
           /\ \A i \in 1 .. Len(q) : (q \o r)[i] = q[i]
           /\ \A i \in 1 .. Len(r) : (q \o r)[Len(q) + i] = r[i]
    OBVIOUS

\* What is left of the queue, and the NFT on offer, while a purchase runs.
LEMMA OfferSound ==
    ASSUME TypeOK, NftInv, Offer <= MaxToken
    PROVE  /\ \A i, j \in 1 .. Len(Rest) : Rest[i] = Rest[j] => i = j
           /\ \A i \in 1 .. Len(Rest) :
                  /\ Rest[i] \in Token
                  /\ Rest[i] # Offer
                  /\ Rest[i] < NextId
                  /\ owner[Rest[i]] = Market
                  /\ Taken[Rest[i]].listed
           /\ Offer < NextId
           /\ owner[Offer] \in {Market, NoOne}
           /\ \A t \in Token : t >= NextId => owner[t] = NoOne
<1>1. Offer \in Token
    BY OfferType
<1>2. CASE Fresh
    <2>1. Rest = <<>> /\ Offer = nextTokenId /\ NextId = nextTokenId + 1
        BY <1>2 DEF Rest, Offer, NextId
    <2> QED
        BY <1>1, <2>1 DEF TypeOK, NftInv, UnmintedFree, Token
<1>3. CASE ~Fresh
    <2>1. /\ Rest = Tail(queue) /\ Offer = queue[1] /\ NextId = nextTokenId
          /\ Len(queue) > 0 /\ Len(Rest) = Len(queue) - 1
          /\ \A i \in 1 .. Len(Rest) : Rest[i] = queue[i + 1]
        BY <1>3 DEF Rest, Offer, NextId, Fresh, TypeOK
    <2>2. \A i \in 1 .. Len(queue) :
              queue[i] \in Token /\ owner[queue[i]] = Market
                                 /\ listing[queue[i]].listed
        BY DEF TypeOK, NftInv, QueueSound
    <2>3. \A i \in 1 .. Len(queue) : queue[i] < nextTokenId
        BY <2>2, AccountsAssumption DEF NftInv, UnmintedFree, TypeOK, Token
    <2>4. \A i \in 1 .. Len(Rest) : i + 1 \in 1 .. Len(queue) /\ 1 \in 1 .. Len(queue)
        BY <2>1 DEF TypeOK
    <2>5. \A i \in 1 .. Len(Rest) : Rest[i] # Offer
        BY <2>1, <2>4 DEF NftInv, QueueSound
    <2>6. \A i \in 1 .. Len(Rest) : Taken[Rest[i]].listed
        BY <2>1, <2>2, <2>4, <2>5 DEF Taken, TypeOK
    <2>7. \A i, j \in 1 .. Len(Rest) : Rest[i] = Rest[j] => i = j
        <3>1. \A i, j \in 1 .. Len(Rest) : queue[i + 1] = queue[j + 1] => i + 1 = j + 1
            BY <2>4 DEF NftInv, QueueSound
        <3> QED
            BY <2>1, <3>1
    <2>8. \A i \in 1 .. Len(Rest) :
              Rest[i] \in Token /\ Rest[i] < NextId /\ owner[Rest[i]] = Market
        BY <2>1, <2>2, <2>3, <2>4
    <2>9. Offer < NextId /\ owner[Offer] = Market
        BY <2>1, <2>2, <2>3
    <2>10. \A t \in Token : t >= NextId => owner[t] = NoOne
        BY <2>1 DEF NftInv, UnmintedFree
    <2> QED
        BY <2>5, <2>6, <2>7, <2>8, <2>9, <2>10
<1> QED
    BY <1>2, <1>3

LEMMA BurnAndSplitSound ==
    ASSUME TypeOK, NftInv, NEW u \in Users, Offer <= MaxToken, BurnAndSplit(u)
    PROVE  NftInv'
<1> DEFINE unit  == OfferPrice \div 3
           ask   == IF Appreciated(unit) >= pricing.burnThreshold
                    THEN unit ELSE Appreciated(unit)
           new   == <<NextId, NextId + 1, NextId + 2>>
           spawn == NextId .. NextId + 2
<1>1. /\ owner' = [t \in Token |-> IF t = Offer THEN NoOne
                                   ELSE IF t \in spawn THEN Market
                                   ELSE owner[t]]
      /\ listing' = [t \in Token |->
                        IF t \in spawn THEN Ask(ask, u) ELSE Taken[t]]
      /\ queue' = Rest \o new
      /\ nextTokenId' = NextId + 3
      /\ heldTokenId' = heldTokenId
      /\ NextId + 2 <= MaxToken
    BY DEF BurnAndSplit, SpawnUnit, Spawned
<1>2. NextId \in Nat /\ spawn \subseteq Token /\ NextId >= 1
    BY <1>1, OfferType, BoundsAssumption DEF Token
<1>3. Ask(ask, u).listed
    BY DEF Ask
<1>4. /\ Len(queue') = Len(Rest) + 3
      /\ \A i \in 1 .. Len(Rest) : queue'[i] = Rest[i]
      /\ queue'[Len(Rest) + 1] = NextId
      /\ queue'[Len(Rest) + 2] = NextId + 1
      /\ queue'[Len(Rest) + 3] = NextId + 2
    <2>1. Rest \in Seq(Nat) /\ new \in Seq(Nat) /\ Len(new) = 3
        BY <1>2, OfferType DEF Token
    <2>2. /\ Len(Rest \o new) = Len(Rest) + 3
          /\ \A i \in 1 .. Len(Rest) : (Rest \o new)[i] = Rest[i]
          /\ \A i \in 1 .. 3 : (Rest \o new)[Len(Rest) + i] = new[i]
        BY <2>1
    <2> QED
        BY <1>1, <2>2
<1> HIDE DEF ask, unit, new, spawn
<1>5. \A i \in 1 .. Len(queue') :
          \/ i \in 1 .. Len(Rest) /\ queue'[i] = Rest[i]
          \/ i = Len(Rest) + 1 /\ queue'[i] = NextId
          \/ i = Len(Rest) + 2 /\ queue'[i] = NextId + 1
          \/ i = Len(Rest) + 3 /\ queue'[i] = NextId + 2
    BY <1>4, OfferType
<1>6. QueueSound'
    <2>1. \A i, j \in 1 .. Len(queue') : queue'[i] = queue'[j] => i = j
        BY <1>2, <1>5, OfferSound
    <2>2. \A i \in 1 .. Len(queue') :
              owner'[queue'[i]] = Market /\ listing'[queue'[i]].listed
        <3> SUFFICES ASSUME NEW i \in 1 .. Len(queue')
                     PROVE  owner'[queue'[i]] = Market
                            /\ listing'[queue'[i]].listed
            OBVIOUS
        <3>1. CASE i \in 1 .. Len(Rest) /\ queue'[i] = Rest[i]
            BY <1>1, <1>2, <3>1, OfferSound DEF spawn
        <3>2. CASE queue'[i] \in spawn
            <4>1. queue'[i] # Offer
                BY <1>2, <3>2, OfferSound, OfferType DEF spawn, Token
            <4> QED
                BY <1>1, <1>2, <1>3, <3>2, <4>1
        <3> QED
            BY <1>2, <1>5, <3>1, <3>2 DEF spawn
    <2> QED
        BY <2>1, <2>2 DEF QueueSound
<1>7. HoldSound'
    <2> SUFFICES ASSUME NEW v \in Users, heldTokenId[v] # NoToken
                 PROVE  owner'[heldTokenId[v]] = v
        BY <1>1 DEF HoldSound
    <2>1. heldTokenId[v] \in Token /\ owner[heldTokenId[v]] = v
        BY DEF TypeOK, NftInv, HoldSound
    <2>2. heldTokenId[v] # Offer
        BY <2>1, OfferSound, AccountsAssumption
    <2>3. heldTokenId[v] \notin spawn
        BY <1>2, <2>1, OfferSound, AccountsAssumption DEF spawn, Token
    <2> QED
        BY <1>1, <2>1, <2>2, <2>3
<1>8. UnmintedFree'
    BY <1>1, <1>2, OfferSound, OfferType DEF UnmintedFree, spawn, Token
<1> QED
    BY <1>6, <1>7, <1>8 DEF NftInv

\* The two holds that take the offer off the market and queue nothing.
LEMMA HoldOfferSound ==
    ASSUME TypeOK, NftInv, NEW u \in Users, Offer <= MaxToken,
           HoldAtThreshold(u) \/ HoldFirst(u)
    PROVE  NftInv'
<1>1. /\ owner' = [owner EXCEPT ![Offer] = u]
      /\ heldTokenId' = [heldTokenId EXCEPT ![u] = Offer]
      /\ listing' = Taken
      /\ queue' = Rest
      /\ nextTokenId' = NextId
    BY DEF HoldAtThreshold, HoldFirst
<1>2. QueueSound'
    BY <1>1, OfferSound, OfferType DEF QueueSound, TypeOK
<1>3. HoldSound'
    <2> SUFFICES ASSUME NEW v \in Users, heldTokenId'[v] # NoToken
                 PROVE  owner'[heldTokenId'[v]] = v
        BY DEF HoldSound
    <2>1. CASE v = u
        BY <1>1, <2>1, OfferType DEF TypeOK
    <2>2. CASE v # u
        <3>1. heldTokenId'[v] = heldTokenId[v] /\ heldTokenId[v] \in Token
            BY <1>1, <2>2 DEF TypeOK
        <3>2. owner[heldTokenId[v]] = v
            BY <3>1 DEF NftInv, HoldSound
        <3>3. heldTokenId[v] # Offer
            BY <3>2, OfferSound, AccountsAssumption
        <3> QED
            BY <1>1, <3>1, <3>2, <3>3 DEF TypeOK
    <2> QED
        BY <2>1, <2>2
<1>4. UnmintedFree'
    BY <1>1, OfferSound, OfferType DEF UnmintedFree, TypeOK, Token
<1> QED
    BY <1>2, <1>3, <1>4 DEF NftInv

LEMMA AutoListSound ==
    ASSUME TypeOK, NftInv, NEW u \in Users, Offer <= MaxToken, AutoList(u)
    PROVE  NftInv'
<1>1. /\ owner' = [owner EXCEPT ![Offer] = Market]
      /\ listing' = [Taken EXCEPT ![Offer] = Ask(Appreciated(OfferPrice), u)]
      /\ queue' = Append(Rest, Offer)
      /\ nextTokenId' = NextId
      /\ heldTokenId' = heldTokenId
    BY DEF AutoList
<1>2. /\ Len(queue') = Len(Rest) + 1
      /\ \A i \in 1 .. Len(Rest) : queue'[i] = Rest[i]
      /\ queue'[Len(Rest) + 1] = Offer
    BY <1>1, OfferType
<1>3. QueueSound'
    <2>1. \A i, j \in 1 .. Len(queue') : queue'[i] = queue'[j] => i = j
        BY <1>1, AppendDistinct, OfferSound, OfferType
    <2>2. \A i \in 1 .. Len(Rest) :
              owner'[Rest[i]] = Market /\ listing'[Rest[i]].listed
        BY <1>1, OfferSound, OfferType DEF TypeOK
    <2>3. owner'[Offer] = Market /\ listing'[Offer].listed
        BY <1>1, OfferType DEF TypeOK, Ask
    <2>4. \A i \in 1 .. Len(queue') : i \in 1 .. Len(Rest) \/ i = Len(Rest) + 1
        BY <1>2, OfferType
    <2> QED
        BY <1>2, <2>1, <2>2, <2>3, <2>4 DEF QueueSound
<1>4. HoldSound'
    <2> SUFFICES ASSUME NEW v \in Users, heldTokenId[v] # NoToken
                 PROVE  owner'[heldTokenId[v]] = v
        BY <1>1 DEF HoldSound
    <2>1. heldTokenId[v] \in Token /\ owner[heldTokenId[v]] = v
        BY DEF TypeOK, NftInv, HoldSound
    <2>2. heldTokenId[v] # Offer
        BY <2>1, OfferSound, AccountsAssumption
    <2> QED
        BY <1>1, <2>1, <2>2 DEF TypeOK
<1>5. UnmintedFree'
    BY <1>1, OfferSound, OfferType DEF UnmintedFree, TypeOK, Token
<1> QED
    BY <1>3, <1>4, <1>5 DEF NftInv

LEMMA HoldDisplacingSound ==
    ASSUME TypeOK, NftInv, NEW u \in Users, Offer <= MaxToken, HoldDisplacing(u)
    PROVE  NftInv'
<1> DEFINE prev == heldTokenId[u]
<1>1. /\ prev # NoToken
      /\ owner' = [owner EXCEPT ![prev] = Market, ![Offer] = u]
      /\ heldTokenId' = [heldTokenId EXCEPT ![u] = Offer]
      /\ listing' = [Taken EXCEPT ![prev] = Ask(DisplacedAsk(prev), u)]
      /\ queue' = Append(Rest, prev)
      /\ nextTokenId' = NextId
    BY DEF HoldDisplacing
<1>2. prev \in Token /\ owner[prev] = u
    BY <1>1 DEF TypeOK, NftInv, HoldSound
<1>3. prev # Offer /\ prev < NextId /\ \A i \in 1 .. Len(Rest) : Rest[i] # prev
    BY <1>2, OfferSound, OfferType, AccountsAssumption DEF Token
<1> HIDE DEF prev
<1>4. /\ Len(queue') = Len(Rest) + 1
      /\ \A i \in 1 .. Len(Rest) : queue'[i] = Rest[i]
      /\ queue'[Len(Rest) + 1] = prev
    BY <1>1, <1>2, OfferType
<1>5. QueueSound'
    <2>1. \A i, j \in 1 .. Len(queue') : queue'[i] = queue'[j] => i = j
        BY <1>1, <1>2, <1>3, AppendDistinct, OfferSound, OfferType
    <2>2. \A i \in 1 .. Len(Rest) :
              owner'[Rest[i]] = Market /\ listing'[Rest[i]].listed
        BY <1>1, <1>2, <1>3, OfferSound, OfferType DEF TypeOK
    <2>3. owner'[prev] = Market /\ listing'[prev].listed
        BY <1>1, <1>2, <1>3, OfferType DEF TypeOK, Ask
    <2>4. \A i \in 1 .. Len(queue') : i \in 1 .. Len(Rest) \/ i = Len(Rest) + 1
        BY <1>4, OfferType
    <2> QED
        BY <1>4, <2>1, <2>2, <2>3, <2>4 DEF QueueSound
<1>6. HoldSound'
    <2> SUFFICES ASSUME NEW v \in Users, heldTokenId'[v] # NoToken
                 PROVE  owner'[heldTokenId'[v]] = v
        BY DEF HoldSound
    <2>1. CASE v = u
        BY <1>1, <2>1, OfferType DEF TypeOK
    <2>2. CASE v # u
        <3>1. heldTokenId'[v] = heldTokenId[v] /\ heldTokenId[v] \in Token
            BY <1>1, <2>2 DEF TypeOK
        <3>2. owner[heldTokenId[v]] = v
            BY <3>1 DEF NftInv, HoldSound
        <3>3. heldTokenId[v] # Offer /\ heldTokenId[v] # prev
            BY <1>2, <2>2, <3>2, OfferSound, AccountsAssumption
        <3> QED
            BY <1>1, <3>1, <3>2, <3>3 DEF TypeOK
    <2> QED
        BY <2>1, <2>2
<1>7. UnmintedFree'
    <2> SUFFICES ASSUME NEW t \in Token, t >= NextId
                 PROVE  owner'[t] = NoOne
        BY <1>1 DEF UnmintedFree
    <2>1. t # Offer /\ t # prev
        BY <1>2, <1>3, OfferSound, OfferType DEF Token
    <2>2. owner[t] = NoOne
        BY OfferSound
    <2> QED
        BY <1>1, <2>1, <2>2 DEF TypeOK
<1> QED
    BY <1>5, <1>6, <1>7 DEF NftInv

LEMMA PurchaseSound ==
    ASSUME TypeOK, NftInv, NEW u \in Users, Purchase(u)
    PROVE  NftInv'
    BY BurnAndSplitSound, HoldOfferSound, AutoListSound, HoldDisplacingSound
    DEF Purchase, PlaceAfterPurchase

LEMMA AdminMintSound ==
    ASSUME TypeOK, NftInv, AdminMintToQueue
    PROVE  NftInv'
<1> DEFINE ask == Appreciated(pricing.mintPrice)
<1>1. PICK quantity \in MintQuantities :
          /\ nextTokenId + quantity - 1 <= MaxToken
          /\ owner' = [t \in Token |->
                IF t \in nextTokenId .. nextTokenId + quantity - 1
                THEN Market ELSE owner[t]]
          /\ listing' = [t \in Token |->
                IF t \in nextTokenId .. nextTokenId + quantity - 1
                THEN Ask(ask, NoOne) ELSE listing[t]]
          /\ queue' = queue \o [i \in 1 .. quantity |-> nextTokenId + i - 1]
          /\ nextTokenId' = nextTokenId + quantity
          /\ heldTokenId' = heldTokenId
    BY DEF AdminMintToQueue
<1> DEFINE minted == [i \in 1 .. quantity |-> nextTokenId + i - 1]
<1>2. quantity \in Nat \ {0} /\ nextTokenId \in Nat \ {0}
    BY BoundsAssumption DEF TypeOK
<1>3. /\ minted \in Seq(Token) /\ Len(minted) = quantity
      /\ queue \in Seq(Token) /\ Len(queue) \in Nat
    <2>1. \A i \in 1 .. quantity : nextTokenId + i - 1 \in Token
        BY <1>1, <1>2, BoundsAssumption DEF Token
    <2>2. minted \in [1 .. quantity -> Token]
        BY <2>1
    <2>3. minted \in Seq(Token)
        BY <1>2, <2>2
    <2>4. Len(minted) = quantity
        BY <1>2
    <2>5. queue \in Seq(Token)
        BY DEF TypeOK
    <2>6. Len(queue) \in Nat
        BY <2>5
    <2> HIDE DEF minted
    <2> QED
        BY <2>3, <2>4, <2>5, <2>6
<1>4. \A i \in 1 .. quantity : minted[i] = nextTokenId + i - 1
    OBVIOUS
<1> HIDE DEF minted, ask
<1>5. /\ Len(queue') = Len(queue) + quantity
      /\ \A i \in 1 .. Len(queue) : queue'[i] = queue[i]
      /\ \A i \in 1 .. quantity : queue'[Len(queue) + i] = minted[i]
    <2>1. queue' = queue \o minted
        BY <1>1 DEF minted
    <2> QED
        BY <1>3, <2>1, ConcatIndex
<1>6. \A i \in 1 .. Len(queue') :
          \/ i \in 1 .. Len(queue) /\ queue'[i] = queue[i]
          \/ /\ i - Len(queue) \in 1 .. quantity
             /\ queue'[i] = nextTokenId + (i - Len(queue)) - 1
    <2> SUFFICES ASSUME NEW i \in 1 .. Len(queue'), i \notin 1 .. Len(queue)
                 PROVE  /\ i - Len(queue) \in 1 .. quantity
                        /\ queue'[i] = nextTokenId + (i - Len(queue)) - 1
        BY <1>5
    <2>1. i - Len(queue) \in 1 .. quantity
        BY <1>2, <1>3, <1>5
    <2>2. queue'[Len(queue) + (i - Len(queue))] = minted[i - Len(queue)]
        BY <1>5, <2>1
    <2> QED
        BY <1>3, <1>4, <1>5, <2>1, <2>2
<1>7. \A i \in 1 .. Len(queue) :
          /\ queue[i] \in Token /\ queue[i] < nextTokenId
          /\ owner[queue[i]] = Market /\ listing[queue[i]].listed
    <2>1. \A i \in 1 .. Len(queue) :
              queue[i] \in Token /\ owner[queue[i]] = Market
                                 /\ listing[queue[i]].listed
        BY DEF TypeOK, NftInv, QueueSound
    <2> QED
        BY <1>2, <2>1, AccountsAssumption DEF NftInv, UnmintedFree, Token
<1>8. QueueSound'
    <2>1. \A i, j \in 1 .. Len(queue') : queue'[i] = queue'[j] => i = j
        <3> SUFFICES ASSUME NEW i \in 1 .. Len(queue'), NEW j \in 1 .. Len(queue'),
                            queue'[i] = queue'[j]
                     PROVE  i = j
            OBVIOUS
        <3>1. i \in 1 .. Len(queue) /\ j \in 1 .. Len(queue) => i = j
            BY <1>5 DEF NftInv, QueueSound
        <3>2. i \in 1 .. Len(queue) => j \in 1 .. Len(queue)
            BY <1>2, <1>3, <1>5, <1>6, <1>7 DEF Token
        <3>3. j \in 1 .. Len(queue) => i \in 1 .. Len(queue)
            BY <1>2, <1>3, <1>5, <1>6, <1>7 DEF Token
        <3> QED
            BY <1>2, <1>3, <1>5, <1>6, <3>1, <3>2, <3>3
    <2>2. \A i \in 1 .. Len(queue) :
              owner'[queue'[i]] = Market /\ listing'[queue'[i]].listed
        BY <1>1, <1>2, <1>5, <1>7 DEF Token
    <2>3. \A t \in nextTokenId .. nextTokenId + quantity - 1 :
              t \in Token /\ owner'[t] = Market /\ listing'[t].listed
        BY <1>1, <1>2, BoundsAssumption DEF Token, Ask
    <2>4. \A i \in 1 .. Len(queue') : i \in 1 .. Len(queue)
              \/ queue'[i] \in nextTokenId .. nextTokenId + quantity - 1
        BY <1>2, <1>3, <1>6
    <2> QED
        BY <2>1, <2>2, <2>3, <2>4 DEF QueueSound
<1>9. HoldSound'
    <2> SUFFICES ASSUME NEW v \in Users, heldTokenId[v] # NoToken
                 PROVE  owner'[heldTokenId[v]] = v
        BY <1>1 DEF HoldSound
    <2>1. heldTokenId[v] \in Token /\ owner[heldTokenId[v]] = v
        BY DEF TypeOK, NftInv, HoldSound
    <2>2. heldTokenId[v] \notin nextTokenId .. nextTokenId + quantity - 1
        BY <1>2, <2>1, AccountsAssumption DEF NftInv, UnmintedFree, Token
    <2> QED
        BY <1>1, <2>1, <2>2
<1>10. UnmintedFree'
    BY <1>1, <1>2 DEF NftInv, UnmintedFree, Token
<1> QED
    BY <1>8, <1>9, <1>10 DEF NftInv

LEMMA ListHeldSound ==
    ASSUME TypeOK, NftInv, NEW u \in Users, ListHeld(u)
    PROVE  NftInv'
<1> DEFINE t == heldTokenId[u]
<1>1. /\ t # NoToken
      /\ owner[t] = u
      /\ heldTokenId' = [heldTokenId EXCEPT ![u] = NoToken]
      /\ owner' = [owner EXCEPT ![t] = Market]
      /\ listing' = [listing EXCEPT ![t] = Ask(nextListPrice, u)]
      /\ queue' = Append(queue, t)
      /\ nextTokenId' = nextTokenId
    BY DEF ListHeld
<1>2. t \in Token
    BY <1>1 DEF TypeOK
<1> HIDE DEF t
<1>3. /\ queue \in Seq(Token)
      /\ \A i \in 1 .. Len(queue) :
            /\ queue[i] \in Token /\ queue[i] # t
            /\ owner[queue[i]] = Market /\ listing[queue[i]].listed
    BY <1>1, AccountsAssumption DEF TypeOK, NftInv, QueueSound
<1>4. /\ Len(queue') = Len(queue) + 1
      /\ \A i \in 1 .. Len(queue) : queue'[i] = queue[i]
      /\ queue'[Len(queue) + 1] = t
    BY <1>1, <1>2, <1>3
<1>5. QueueSound'
    <2>1. \A i, j \in 1 .. Len(queue') : queue'[i] = queue'[j] => i = j
        <3>1. \A i, j \in 1 .. Len(queue) : queue[i] = queue[j] => i = j
            BY DEF NftInv, QueueSound
        <3> QED
            BY <1>1, <1>2, <1>3, <3>1, AppendDistinct
    <2>2. \A i \in 1 .. Len(queue) :
              owner'[queue[i]] = Market /\ listing'[queue[i]].listed
        BY <1>1, <1>2, <1>3 DEF TypeOK
    <2>3. owner'[t] = Market /\ listing'[t].listed
        BY <1>1, <1>2 DEF TypeOK, Ask
    <2>4. \A i \in 1 .. Len(queue') : i \in 1 .. Len(queue) \/ i = Len(queue) + 1
        BY <1>3, <1>4
    <2> QED
        BY <1>4, <2>1, <2>2, <2>3, <2>4 DEF QueueSound
<1>6. HoldSound'
    <2> SUFFICES ASSUME NEW v \in Users, heldTokenId'[v] # NoToken
                 PROVE  owner'[heldTokenId'[v]] = v
        BY DEF HoldSound
    <2>1. v # u /\ heldTokenId'[v] = heldTokenId[v] /\ heldTokenId[v] \in Token
        BY <1>1 DEF TypeOK
    <2>2. owner[heldTokenId[v]] = v /\ heldTokenId[v] # t
        BY <1>1, <2>1 DEF NftInv, HoldSound
    <2> QED
        BY <1>1, <2>1, <2>2 DEF TypeOK
<1>7. UnmintedFree'
    <2>1. t < nextTokenId
        BY <1>1, <1>2, AccountsAssumption
        DEF NftInv, UnmintedFree, TypeOK, Token
    <2> QED
        BY <1>1, <1>2, <2>1 DEF NftInv, UnmintedFree, TypeOK, Token
<1> QED
    BY <1>5, <1>6, <1>7 DEF NftInv

\* Taking t away from its owner, who loses the hold on it, leaves the other
\* holds sound: what adminBurnToken and a transfer do outside the queue.
LEMMA UnheldSound ==
    ASSUME TypeOK, NftInv, NEW t \in Token, NEW to \in Users \cup {Market, NoOne},
           owner' = [owner EXCEPT ![t] = to],
           heldTokenId' = Unheld(t)
    PROVE  HoldSound'
<1> SUFFICES ASSUME NEW v \in Users, heldTokenId'[v] # NoToken
             PROVE  owner'[heldTokenId'[v]] = v
    BY DEF HoldSound
<1>1. heldTokenId'[v] = heldTokenId[v]
      /\ ~(v = owner[t] /\ heldTokenId[v] = t)
    BY DEF Unheld, TypeOK
<1>2. heldTokenId[v] \in Token /\ owner[heldTokenId[v]] = v
    BY <1>1 DEF TypeOK, NftInv, HoldSound
<1>3. heldTokenId[v] # t
    BY <1>1, <1>2
<1> QED
    BY <1>1, <1>2, <1>3 DEF TypeOK

LEMMA AdminBurnSound ==
    ASSUME TypeOK, NftInv, NEW t \in Token, AdminBurnToken(t)
    PROVE  NftInv'
<1>1. /\ owner' = [owner EXCEPT ![t] = NoOne]
      /\ nextTokenId' = nextTokenId
    BY DEF AdminBurnToken
<1>2. UnmintedFree'
    BY <1>1 DEF NftInv, UnmintedFree, TypeOK
<1>3. CASE BurnHead(t)
    <2>1. /\ queue # <<>> /\ queue[1] = t /\ queue' = Tail(queue)
          /\ listing' = [listing EXCEPT ![t] = NoListing]
          /\ heldTokenId' = heldTokenId
        BY <1>3 DEF BurnHead, AtHead, TypeOK
    <2>2. /\ Len(queue') = Len(queue) - 1 /\ 1 \in 1 .. Len(queue)
          /\ \A i \in 1 .. Len(queue') :
                 i + 1 \in 1 .. Len(queue) /\ queue'[i] = queue[i + 1]
        BY <2>1 DEF TypeOK
    <2>3. \A i \in 1 .. Len(queue') :
              queue'[i] \in Token \ {t} /\ owner[queue'[i]] = Market
                                        /\ listing[queue'[i]].listed
        BY <2>1, <2>2 DEF NftInv, QueueSound, TypeOK
    <2>4. \A i, j \in 1 .. Len(queue') : queue'[i] = queue'[j] => i = j
        <3>1. \A i, j \in 1 .. Len(queue') :
                  queue[i + 1] = queue[j + 1] => i + 1 = j + 1
            BY <2>2 DEF NftInv, QueueSound
        <3> QED
            BY <2>2, <3>1
    <2>5. QueueSound'
        BY <1>1, <2>1, <2>3, <2>4 DEF QueueSound, TypeOK
    <2>6. HoldSound'
        <3> SUFFICES ASSUME NEW v \in Users, heldTokenId[v] # NoToken
                     PROVE  owner'[heldTokenId[v]] = v
            BY <2>1 DEF HoldSound
        <3>1. heldTokenId[v] \in Token /\ owner[heldTokenId[v]] = v
            BY DEF TypeOK, NftInv, HoldSound
        <3>2. owner[t] = Market
            BY <2>1, <2>2 DEF NftInv, QueueSound
        <3>3. heldTokenId[v] # t
            BY <3>1, <3>2, AccountsAssumption
        <3> QED
            BY <1>1, <3>1, <3>3 DEF TypeOK
    <2> QED
        BY <1>2, <2>5, <2>6 DEF NftInv
<1>4. CASE BurnUnlisted(t)
    <2>1. /\ ~listing[t].listed /\ heldTokenId' = Unheld(t)
          /\ queue' = queue /\ listing' = listing
        BY <1>4 DEF BurnUnlisted
    <2>2. HoldSound'
        BY <1>1, <2>1, UnheldSound
    <2>3. QueueSound'
        BY <1>1, <2>1 DEF NftInv, QueueSound, TypeOK
    <2> QED
        BY <1>2, <2>2, <2>3 DEF NftInv
<1> QED
    BY <1>3, <1>4 DEF AdminBurnToken

LEMMA TransferFromSound ==
    ASSUME TypeOK, NftInv, NEW t \in Token, NEW to \in Recipients,
           TransferFrom(t, to)
    PROVE  NftInv'
<1>1. /\ owner[t] \in Users /\ owner' = [owner EXCEPT ![t] = to]
      /\ heldTokenId' = Unheld(t)
      /\ queue' = queue /\ listing' = listing /\ nextTokenId' = nextTokenId
    BY DEF TransferFrom
<1>2. to \in Users \cup {Market, NoOne}
    BY AccountsAssumption
<1>3. HoldSound'
    BY <1>1, <1>2, UnheldSound
<1>4. QueueSound'
    BY <1>1, AccountsAssumption DEF NftInv, QueueSound, TypeOK
<1>5. UnmintedFree'
    <2>1. t < nextTokenId
        BY <1>1, AccountsAssumption DEF NftInv, UnmintedFree, TypeOK, Token
    <2> QED
        BY <1>1, <2>1 DEF NftInv, UnmintedFree, TypeOK, Token
<1> QED
    BY <1>3, <1>4, <1>5 DEF NftInv

\* Steps that leave the NFTs alone.
LEMMA OtherSound ==
    ASSUME NftInv, UNCHANGED nftVars
    PROVE  NftInv'
    BY DEF NftInv, QueueSound, HoldSound, UnmintedFree, nftVars

LEMMA NftInvariant == Spec => []NftInv
<1>1. Init => NftInv
    BY AccountsAssumption
    DEF Init, NftInv, QueueSound, HoldSound, UnmintedFree
<1>2. TypeOK /\ NftInv /\ [Next]_vars => NftInv'
    <2> SUFFICES ASSUME TypeOK, NftInv, [Next]_vars PROVE NftInv'
        OBVIOUS
    <2>1. ASSUME NEW u \in Users, Buy(u) \/ BotBuy(u) PROVE NftInv'
        BY <2>1, PurchaseSound DEF Buy, BotBuy
    <2>2. ASSUME NEW u \in Users, RunBotStart(u) PROVE NftInv'
        BY <2>2, OtherSound DEF RunBotStart
    <2>3. CASE RunBotTrade
        BY <2>3, PurchaseSound DEF RunBotTrade, Idle, TypeOK
    <2>4. CASE RunBotStop
        BY <2>4, OtherSound DEF RunBotStop
    <2>5. CASE AdminMintToQueue
        BY <2>5, AdminMintSound
    <2>6. ASSUME NEW t \in Token, AdminBurnToken(t) PROVE NftInv'
        BY <2>6, AdminBurnSound
    <2>7. ASSUME NEW u \in Users, ListHeld(u) PROVE NftInv'
        BY <2>7, ListHeldSound
    <2>8. ASSUME NEW t \in Token, NEW to \in Recipients, TransferFrom(t, to)
          PROVE  NftInv'
        BY <2>8, TransferFromSound
    <2>9. ASSUME NEW u \in Users, NEW enabled \in BOOLEAN, SetUserBot(u, enabled)
          PROVE  NftInv'
        BY <2>9, OtherSound DEF SetUserBot
    <2>10. ASSUME NEW p \in Pricings, SetPricing(p) PROVE NftInv'
        BY <2>10, OtherSound DEF SetPricing
    <2>11. ASSUME NEW s \in Splits, SetSaleSplit(s) PROVE NftInv'
        BY <2>11, OtherSound DEF SetSaleSplit
    <2>12. ASSUME NEW value \in BOOLEAN, SetPaused(value) PROVE NftInv'
        BY <2>12, OtherSound DEF SetPaused
    <2>13. ASSUME NEW u \in Users, NEW p \in Packages, TakePackage(u, p)
           PROVE  NftInv'
        BY <2>13, OtherSound DEF TakePackage
    <2>14. ASSUME NEW u \in Users, NEW value \in BOOLEAN,
                  SetPermanentlyInactive(u, value)
           PROVE  NftInv'
        BY <2>14, OtherSound DEF SetPermanentlyInactive
    <2>15. CASE NextDay
        BY <2>15, OtherSound DEF NextDay
    <2>16. CASE UNCHANGED vars
        BY <2>16, OtherSound DEF vars
    <2> QED
        BY <2>1, <2>2, <2>3, <2>4, <2>5, <2>6, <2>7, <2>8, <2>9, <2>10, <2>11,
           <2>12, <2>13, <2>14, <2>15, <2>16 DEF Next
<1> QED
    BY <1>1, <1>2, TypeCorrect, PTL DEF Spec

\* The queue is always sellable: its entries are distinct, the contract's and
\* on its books as listed (QueueSound), whatever the order of purchases, lists,
\* burns and transfers.
THEOREM QueueAlwaysSound == Spec => []QueueSound
<1>1. NftInv => QueueSound
    BY DEF NftInv
<1> QED
    BY <1>1, NftInvariant, PTL

\* A recorded hold is always the user's own NFT (HoldSound), so displacing it
\* never reverts a purchase.
THEOREM HoldAlwaysSound == Spec => []HoldSound
<1>1. NftInv => HoldSound
    BY DEF NftInv
<1> QED
    BY <1>1, NftInvariant, PTL

\* The sale of an NFT leaves nothing in the contract.
LEMMA SaleKeepsVault ==
    ASSUME TypeOK, NEW u \in Users, Purchase(u)
    PROVE  vault' = vault
<1>1. PICK levels \in 0 .. MaxLevels, hasSeller \in BOOLEAN :
          vault' = vault + OfferPrice
                   - PaidOut(SalePayments(OfferPrice, hasSeller, levels))
    BY DEF Purchase, DistributeSale
<1>2. OfferPrice \in Nat /\ levels \in Nat
    BY OfferType, BoundsAssumption DEF Purchase
<1>3. PaidOut(SalePayments(OfferPrice, hasSeller, levels)) = OfferPrice
    BY <1>2, SaleConserved
<1> QED
    BY <1>1, <1>2, <1>3 DEF TypeOK

\* No USDT stays in the marketplace (NoVault), for every pricing, every split
\* that adds up to the whole and every number of eligible uplines: what
\* _distributeSale rounds down or cannot pay goes to the pool or is burned.
THEOREM NothingRetained == Spec => []NoVault
<1>1. Init => NoVault
    BY DEF Init, NoVault
<1>2. TypeOK /\ NoVault /\ [Next]_vars => NoVault'
    <2> SUFFICES ASSUME TypeOK, NoVault, [Next]_vars PROVE vault' = vault
        BY DEF NoVault
    <2>1. ASSUME NEW u \in Users, Buy(u) \/ BotBuy(u) PROVE vault' = vault
        BY <2>1, SaleKeepsVault DEF Buy, BotBuy
    <2>2. CASE RunBotTrade
        BY <2>2, SaleKeepsVault DEF RunBotTrade, Idle, TypeOK
    <2> QED
        BY <2>1, <2>2
        DEF Next, RunBotStart, RunBotStop, AdminMintToQueue, AdminBurnToken,
            ListHeld, TransferFrom, SetUserBot, SetPricing, SetSaleSplit,
            SetPaused, TakePackage, SetPermanentlyInactive, NextDay, vars
<1> QED
    BY <1>1, <1>2, TypeCorrect, PTL DEF Spec

(***************************************************************************)
(* First in, first out.                                                    *)
(***************************************************************************)

\* A queue that still starts with what was left of it lost only its head.
LEMMA RestFifo ==
    ASSUME TypeOK, Len(Rest) <= Len(queue'),
           \A i \in 1 .. Len(Rest) : queue'[i] = Rest[i]
    PROVE  FifoStep
<1>1. CASE Fresh
    BY <1>1 DEF Fresh, FifoStep
<1>2. CASE ~Fresh
    <2>1. /\ queue \in Seq(Token) /\ 1 <= Len(queue)
          /\ Len(Rest) = Len(queue) - 1
          /\ \A i \in 1 .. Len(Rest) : Rest[i] = queue[i + 1]
        BY <1>2 DEF Fresh, Rest, TypeOK
    <2>2. \A i \in 1 .. Len(queue) - 1 :
              i <= Len(queue') /\ queue'[i] = queue[i + 1]
        BY <2>1, Len(Rest) <= Len(queue')
    <2> QED
        BY <2>1, <2>2 DEF FifoStep
<1> QED
    BY <1>1, <1>2

\* A queue that still starts with all of what it was lost nothing.
LEMMA WholeFifo ==
    ASSUME TypeOK, Len(queue) <= Len(queue'),
           \A i \in 1 .. Len(queue) : queue'[i] = queue[i]
    PROVE  FifoStep
<1>1. queue \in Seq(Token)
    BY DEF TypeOK
<1>2. \A i \in 1 .. Len(queue) - 0 :
          i <= Len(queue') /\ queue'[i] = queue[i + 0]
    BY <1>1, Len(queue) <= Len(queue')
<1> QED
    BY <1>1, <1>2 DEF FifoStep

LEMMA SameFifo ==
    ASSUME TypeOK, UNCHANGED queue
    PROVE  FifoStep
    BY WholeFifo DEF TypeOK

LEMMA PurchaseFifo ==
    ASSUME TypeOK, NEW u \in Users, Purchase(u)
    PROVE  FifoStep
<1>1. /\ Offer \in Token /\ Rest \in Seq(Token)
      /\ NextId \in 1 .. MaxToken + 1
    BY OfferType DEF Purchase
<1>2. CASE BurnAndSplit(u)
    <2>1. <<NextId, NextId + 1, NextId + 2>> \in Seq(Token)
        BY <1>1, <1>2, BoundsAssumption DEF BurnAndSplit, SpawnUnit, Spawned, Token
    <2>2. queue' = Rest \o <<NextId, NextId + 1, NextId + 2>>
        BY <1>2 DEF BurnAndSplit, SpawnUnit, Spawned
    <2> QED
        BY <1>1, <2>1, <2>2, ConcatIndex, RestFifo
<1>3. CASE HoldAtThreshold(u) \/ HoldFirst(u)
    BY <1>1, <1>3, RestFifo DEF HoldAtThreshold, HoldFirst
<1>4. CASE AutoList(u)
    <2>1. queue' = Append(Rest, Offer)
        BY <1>4 DEF AutoList
    <2> QED
        BY <1>1, <2>1, RestFifo
<1>5. CASE HoldDisplacing(u)
    <2>1. heldTokenId[u] \in Token /\ queue' = Append(Rest, heldTokenId[u])
        BY <1>5 DEF HoldDisplacing, TypeOK
    <2> QED
        BY <1>1, <2>1, RestFifo
<1> QED
    BY <1>2, <1>3, <1>4, <1>5 DEF Purchase, PlaceAfterPurchase

LEMMA AdminMintFifo ==
    ASSUME TypeOK, AdminMintToQueue
    PROVE  FifoStep
<1>1. PICK quantity \in MintQuantities :
          /\ nextTokenId + quantity - 1 <= MaxToken
          /\ queue' = queue \o [i \in 1 .. quantity |-> nextTokenId + i - 1]
    BY DEF AdminMintToQueue
<1> DEFINE minted == [i \in 1 .. quantity |-> nextTokenId + i - 1]
<1>2. \A i \in 1 .. quantity : nextTokenId + i - 1 \in Token
    BY <1>1, BoundsAssumption DEF TypeOK, Token
<1>3. minted \in Seq(Token)
    <2>1. quantity \in Nat /\ minted \in [1 .. quantity -> Token]
        BY <1>2, BoundsAssumption
    <2> QED
        BY <2>1
<1>4. queue' = queue \o minted /\ queue \in Seq(Token)
    BY <1>1 DEF TypeOK
<1> HIDE DEF minted
<1>5. /\ Len(queue') = Len(queue) + Len(minted)
      /\ \A i \in 1 .. Len(queue) : queue'[i] = queue[i]
    BY <1>3, <1>4, ConcatIndex
<1> QED
    BY <1>3, <1>4, <1>5, WholeFifo

\* The queue is served in order (Fifo): every step keeps all its entries in
\* their order, but for the head that a purchase or a burn takes.
THEOREM QueueServedInOrder == Spec => Fifo
<1>1. TypeOK /\ [Next]_vars => [FifoStep]_vars
    <2> SUFFICES ASSUME TypeOK, [Next]_vars PROVE FifoStep
        OBVIOUS
    <2>1. ASSUME NEW u \in Users, Buy(u) \/ BotBuy(u) PROVE FifoStep
        BY <2>1, PurchaseFifo DEF Buy, BotBuy
    <2>2. CASE RunBotTrade
        BY <2>2, PurchaseFifo DEF RunBotTrade, Idle, TypeOK
    <2>3. CASE AdminMintToQueue
        BY <2>3, AdminMintFifo
    <2>4. ASSUME NEW t \in Token, AdminBurnToken(t) PROVE FifoStep
        <3>1. CASE BurnHead(t)
            <4>1. ~Fresh /\ queue' = Rest
                BY <3>1 DEF BurnHead, AtHead, Fresh, Rest
            <4>2. Rest \in Seq(Token)
                BY <4>1 DEF TypeOK, Rest, Fresh
            <4> QED
                BY <4>1, <4>2, RestFifo
        <3>2. CASE BurnUnlisted(t)
            BY <3>2, SameFifo DEF BurnUnlisted
        <3> QED
            BY <2>4, <3>1, <3>2 DEF AdminBurnToken
    <2>5. ASSUME NEW u \in Users, ListHeld(u) PROVE FifoStep
        <3>1. heldTokenId[u] \in Token /\ queue' = Append(queue, heldTokenId[u])
              /\ queue \in Seq(Token)
            BY <2>5 DEF ListHeld, TypeOK
        <3> QED
            BY <3>1, WholeFifo
    <2>6. CASE UNCHANGED queue
        BY <2>6, SameFifo
    <2> QED
        BY <2>1, <2>2, <2>3, <2>4, <2>5, <2>6
        DEF Next, RunBotStart, RunBotStop, TransferFrom, SetUserBot,
            SetPricing, SetSaleSplit, SetPaused, TakePackage,
            SetPermanentlyInactive, NextDay, vars, nftVars
<1> QED
    BY <1>1, TypeCorrect, PTL DEF Spec, Fifo

(***************************************************************************)
(* Everything the contract owns is on sale.                                *)
(***************************************************************************)

\* Before the offer is placed, all of the contract's other NFTs are queued.
LEMMA StockInRest ==
    ASSUME TypeOK, StockIsQueued, Offer <= MaxToken,
           NEW t \in Token, owner[t] = Market, t # Offer
    PROVE  \E i \in 1 .. Len(Rest) : Rest[i] = t
<1>1. PICK i \in 1 .. Len(queue) : queue[i] = t
    BY DEF StockIsQueued, InQueue
<1>2. /\ Rest = Tail(queue) /\ Offer = queue[1] /\ queue \in Seq(Token)
      /\ Len(queue) > 0 /\ Len(Rest) = Len(queue) - 1
      /\ \A j \in 1 .. Len(Rest) : Rest[j] = queue[j + 1]
    BY <1>1 DEF Rest, Offer, Fresh, TypeOK
<1>3. i - 1 \in 1 .. Len(Rest) /\ Rest[i - 1] = t
    BY <1>1, <1>2
<1> QED
    BY <1>3

LEMMA PurchaseStock ==
    ASSUME TypeOK, NftInv, StockIsQueued, NEW u \in Users, Purchase(u)
    PROVE  StockIsQueued'
<1>1. /\ Offer \in Token /\ Rest \in Seq(Token) /\ Offer <= MaxToken
      /\ NextId \in 1 .. MaxToken + 1
    BY OfferType DEF Purchase
<1> SUFFICES ASSUME NEW t \in Token, owner'[t] = Market
             PROVE  InQueue(t)'
    BY DEF StockIsQueued
<1>3. CASE BurnAndSplit(u)
    <2> DEFINE new == <<NextId, NextId + 1, NextId + 2>>
    <2>1. new \in Seq(Token) /\ Len(new) = 3 /\ queue' = Rest \o new
        BY <1>1, <1>3, BoundsAssumption DEF BurnAndSplit, SpawnUnit, Spawned, Token
    <2>2. new[1] = NextId /\ new[2] = NextId + 1 /\ new[3] = NextId + 2
        OBVIOUS
    <2> HIDE DEF new
    <2>3. /\ Len(queue') = Len(Rest) + 3
          /\ \A i \in 1 .. Len(Rest) : queue'[i] = Rest[i]
          /\ \A i \in 1 .. 3 : queue'[Len(Rest) + i] = new[i]
        <3>1. /\ Len(Rest \o new) = Len(Rest) + Len(new)
              /\ \A i \in 1 .. Len(Rest) : (Rest \o new)[i] = Rest[i]
              /\ \A i \in 1 .. Len(new) : (Rest \o new)[Len(Rest) + i] = new[i]
            BY <1>1, <2>1, ConcatIndex
        <3> QED
            BY <2>1, <3>1
    <2>4. CASE t \in NextId .. NextId + 2
        <3>1. PICK i \in 1 .. 3 : t = new[i]
            BY <1>1, <2>2, <2>4
        <3>2. Len(Rest) + i \in 1 .. Len(queue') /\ queue'[Len(Rest) + i] = t
            BY <1>1, <2>3, <3>1
        <3> QED
            BY <3>2 DEF InQueue
    <2>5. CASE t \notin NextId .. NextId + 2
        <3>1. t # Offer /\ owner[t] = Market
            BY <1>3, <2>5, AccountsAssumption DEF BurnAndSplit, SpawnUnit, Spawned
        <3>2. PICK i \in 1 .. Len(Rest) : Rest[i] = t
            BY <1>1, <3>1, StockInRest
        <3>3. i \in 1 .. Len(queue') /\ queue'[i] = t
            BY <1>1, <2>3, <3>2
        <3> QED
            BY <3>3 DEF InQueue
    <2> QED
        BY <2>4, <2>5
<1>4. CASE HoldAtThreshold(u) \/ HoldFirst(u)
    <2>1. queue' = Rest /\ owner' = [owner EXCEPT ![Offer] = u]
        BY <1>4 DEF HoldAtThreshold, HoldFirst
    <2>2. t # Offer /\ owner[t] = Market
        BY <1>1, <2>1, AccountsAssumption DEF TypeOK
    <2> QED
        BY <1>1, <2>1, <2>2, StockInRest DEF InQueue
<1>5. CASE AutoList(u)
    <2>1. queue' = Append(Rest, Offer) /\ owner' = [owner EXCEPT ![Offer] = Market]
        BY <1>5 DEF AutoList
    <2>2. /\ Len(queue') = Len(Rest) + 1 /\ Len(Rest) \in Nat
          /\ \A i \in 1 .. Len(Rest) : queue'[i] = Rest[i]
          /\ queue'[Len(Rest) + 1] = Offer
        BY <1>1, <2>1
    <2>3. CASE t = Offer
        <3>1. Len(Rest) + 1 \in 1 .. Len(queue')
            BY <2>2
        <3> QED
            BY <2>2, <2>3, <3>1 DEF InQueue
    <2>4. CASE t # Offer
        <3>1. owner[t] = Market
            BY <2>1, <2>4 DEF TypeOK
        <3>2. PICK i \in 1 .. Len(Rest) : Rest[i] = t
            BY <1>1, <2>4, <3>1, StockInRest
        <3>3. i \in 1 .. Len(queue') /\ queue'[i] = t
            BY <2>2, <3>2
        <3> QED
            BY <3>3 DEF InQueue
    <2> QED
        BY <2>3, <2>4
<1>6. CASE HoldDisplacing(u)
    <2> DEFINE prev == heldTokenId[u]
    <2>1. /\ prev \in Token
          /\ queue' = Append(Rest, prev)
          /\ owner' = [owner EXCEPT ![prev] = Market, ![Offer] = u]
        BY <1>6 DEF HoldDisplacing, TypeOK
    <2> HIDE DEF prev
    <2>2. /\ Len(queue') = Len(Rest) + 1 /\ Len(Rest) \in Nat
          /\ \A i \in 1 .. Len(Rest) : queue'[i] = Rest[i]
          /\ queue'[Len(Rest) + 1] = prev
        BY <1>1, <2>1
    <2>3. CASE t = prev
        <3>1. Len(Rest) + 1 \in 1 .. Len(queue')
            BY <2>2
        <3> QED
            BY <2>2, <2>3, <3>1 DEF InQueue
    <2>4. CASE t # prev
        <3>1. t # Offer /\ owner[t] = Market
            BY <1>1, <2>1, <2>4, AccountsAssumption DEF TypeOK
        <3>2. PICK i \in 1 .. Len(Rest) : Rest[i] = t
            BY <1>1, <3>1, StockInRest
        <3>3. i \in 1 .. Len(queue') /\ queue'[i] = t
            BY <2>2, <3>2
        <3> QED
            BY <3>3 DEF InQueue
    <2> QED
        BY <2>3, <2>4
<1> QED
    BY <1>3, <1>4, <1>5, <1>6 DEF Purchase, PlaceAfterPurchase

LEMMA AdminMintStock ==
    ASSUME TypeOK, StockIsQueued, AdminMintToQueue
    PROVE  StockIsQueued'
<1>1. PICK quantity \in MintQuantities :
          /\ nextTokenId + quantity - 1 <= MaxToken
          /\ owner' = [t \in Token |->
                IF t \in nextTokenId .. nextTokenId + quantity - 1
                THEN Market ELSE owner[t]]
          /\ queue' = queue \o [i \in 1 .. quantity |-> nextTokenId + i - 1]
    BY DEF AdminMintToQueue
<1> DEFINE minted == [i \in 1 .. quantity |-> nextTokenId + i - 1]
<1>2. quantity \in Nat \ {0} /\ nextTokenId \in Nat \ {0}
    BY BoundsAssumption DEF TypeOK
<1>3. minted \in Seq(Token) /\ Len(minted) = quantity
    <2>1. \A i \in 1 .. quantity : nextTokenId + i - 1 \in Token
        BY <1>1, <1>2, BoundsAssumption DEF Token
    <2>2. minted \in [1 .. quantity -> Token]
        BY <2>1
    <2> QED
        BY <1>2, <2>2
<1>4. \A i \in 1 .. quantity : minted[i] = nextTokenId + i - 1
    OBVIOUS
<1>5. queue' = queue \o minted /\ queue \in Seq(Token)
    BY <1>1 DEF TypeOK
<1> HIDE DEF minted
<1>6. /\ Len(queue') = Len(queue) + quantity /\ Len(queue) \in Nat
      /\ \A i \in 1 .. Len(queue) : queue'[i] = queue[i]
      /\ \A i \in 1 .. quantity : queue'[Len(queue) + i] = minted[i]
    <2>1. Len(queue) \in Nat
        BY <1>5
    <2>2. queue \in Seq(Token) /\ minted \in Seq(Token)
        BY <1>3, <1>5
    <2> QED
        <3>1. /\ Len(queue \o minted) = Len(queue) + Len(minted)
              /\ \A i \in 1 .. Len(queue) : (queue \o minted)[i] = queue[i]
              /\ \A i \in 1 .. Len(minted) :
                     (queue \o minted)[Len(queue) + i] = minted[i]
            BY <2>2, ConcatIndex
        <3> QED
            BY <1>3, <1>5, <2>1, <3>1
<1> SUFFICES ASSUME NEW t \in Token, owner'[t] = Market
             PROVE  InQueue(t)'
    BY DEF StockIsQueued
<1>7. CASE t \in nextTokenId .. nextTokenId + quantity - 1
    <2> DEFINE i == t - nextTokenId + 1
    <2>1. i \in 1 .. quantity /\ minted[i] = t
        BY <1>2, <1>4, <1>7
    <2>2. Len(queue) + i \in 1 .. Len(queue') /\ queue'[Len(queue) + i] = t
        BY <1>2, <1>6, <2>1
    <2> QED
        BY <2>2 DEF InQueue
<1>8. CASE t \notin nextTokenId .. nextTokenId + quantity - 1
    <2>1. PICK i \in 1 .. Len(queue) : queue[i] = t
        BY <1>1, <1>8 DEF StockIsQueued, InQueue
    <2>2. i \in 1 .. Len(queue') /\ queue'[i] = t
        BY <1>2, <1>6, <2>1
    <2> QED
        BY <2>2 DEF InQueue
<1> QED
    BY <1>7, <1>8

LEMMA ListHeldStock ==
    ASSUME TypeOK, StockIsQueued, NEW u \in Users, ListHeld(u)
    PROVE  StockIsQueued'
<1> DEFINE held == heldTokenId[u]
<1>1. /\ held \in Token
      /\ owner' = [owner EXCEPT ![held] = Market]
      /\ queue' = Append(queue, held) /\ queue \in Seq(Token)
    BY DEF ListHeld, TypeOK
<1> HIDE DEF held
<1>2. /\ Len(queue') = Len(queue) + 1 /\ Len(queue) \in Nat
      /\ \A i \in 1 .. Len(queue) : queue'[i] = queue[i]
      /\ queue'[Len(queue) + 1] = held
    BY <1>1
<1> SUFFICES ASSUME NEW t \in Token, owner'[t] = Market
             PROVE  InQueue(t)'
    BY DEF StockIsQueued
<1>3. CASE t = held
    <2>1. Len(queue) + 1 \in 1 .. Len(queue')
        BY <1>2
    <2> QED
        BY <1>2, <1>3, <2>1 DEF InQueue
<1>4. CASE t # held
    <2>1. PICK i \in 1 .. Len(queue) : queue[i] = t
        BY <1>1, <1>4 DEF StockIsQueued, InQueue, TypeOK
    <2>2. i \in 1 .. Len(queue') /\ queue'[i] = t
        BY <1>2, <2>1
    <2> QED
        BY <2>2 DEF InQueue
<1> QED
    BY <1>3, <1>4

LEMMA AdminBurnStock ==
    ASSUME TypeOK, StockIsQueued, NEW t \in Token, AdminBurnToken(t)
    PROVE  StockIsQueued'
<1>1. owner' = [owner EXCEPT ![t] = NoOne]
    BY DEF AdminBurnToken
<1> SUFFICES ASSUME NEW s \in Token, owner'[s] = Market
             PROVE  InQueue(s)'
    BY DEF StockIsQueued
<1>2. s # t /\ owner[s] = Market
    BY <1>1, AccountsAssumption DEF TypeOK
<1>3. PICK i \in 1 .. Len(queue) : queue[i] = s
    BY <1>2 DEF StockIsQueued, InQueue
<1>4. CASE BurnHead(t)
    <2>1. queue # <<>> /\ queue[1] = t /\ queue' = Tail(queue)
          /\ queue \in Seq(Token)
        BY <1>4 DEF BurnHead, AtHead, TypeOK
    <2>2. i - 1 \in 1 .. Len(queue') /\ queue'[i - 1] = s
        BY <1>2, <1>3, <2>1
    <2> QED
        BY <2>2 DEF InQueue
<1>5. CASE BurnUnlisted(t)
    BY <1>3, <1>5 DEF BurnUnlisted, InQueue
<1> QED
    BY <1>4, <1>5 DEF AdminBurnToken

\* While users do not send NFTs to the contract, it owns no NFT that is not in
\* the queue (StockIsQueued): what is listed, displaced, spawned or minted can
\* be bought.
THEOREM StockAlwaysQueued ==
    ASSUME Market \notin Recipients
    PROVE  Spec => []StockIsQueued
<1>1. Init => StockIsQueued
    BY AccountsAssumption DEF Init, StockIsQueued
<1>2. TypeOK /\ NftInv /\ StockIsQueued /\ [Next]_vars => StockIsQueued'
    <2> SUFFICES ASSUME TypeOK, NftInv, StockIsQueued, [Next]_vars
                 PROVE  StockIsQueued'
        OBVIOUS
    <2>1. ASSUME NEW u \in Users, Buy(u) \/ BotBuy(u) PROVE StockIsQueued'
        BY <2>1, PurchaseStock DEF Buy, BotBuy
    <2>2. CASE RunBotTrade
        BY <2>2, PurchaseStock DEF RunBotTrade, Idle, TypeOK
    <2>3. CASE AdminMintToQueue
        BY <2>3, AdminMintStock
    <2>4. ASSUME NEW t \in Token, AdminBurnToken(t) PROVE StockIsQueued'
        BY <2>4, AdminBurnStock
    <2>5. ASSUME NEW u \in Users, ListHeld(u) PROVE StockIsQueued'
        BY <2>5, ListHeldStock
    <2>6. ASSUME NEW t \in Token, NEW to \in Recipients, TransferFrom(t, to)
          PROVE  StockIsQueued'
        <3>1. /\ owner' = [owner EXCEPT ![t] = to] /\ to # Market
              /\ queue' = queue
            BY <2>6, Market \notin Recipients DEF TransferFrom
        <3> QED
            BY <3>1 DEF StockIsQueued, InQueue, TypeOK
    <2>7. CASE UNCHANGED <<owner, queue>>
        BY <2>7 DEF StockIsQueued, InQueue
    <2> QED
        BY <2>1, <2>2, <2>3, <2>4, <2>5, <2>6, <2>7
        DEF Next, RunBotStart, RunBotStop, SetUserBot,
            SetPricing, SetSaleSplit, SetPaused, TakePackage,
            SetPermanentlyInactive, NextDay, vars, nftVars
<1> QED
    BY <1>1, <1>2, TypeCorrect, NftInvariant, PTL DEF Spec

(***************************************************************************)
(* Daily volume.                                                           *)
(***************************************************************************)

\* A dearer package does not lower the daily limit.
LimitsRiseWithPrice ==
    \A p, q \in Packages :
        PackagePrice[p] < PackagePrice[q] => TradingLimit[p] <= TradingLimit[q]

LEMMA PurchaseVolume ==
    ASSUME TypeOK, VolumeWithinLimit, NEW u \in Users, Purchase(u)
    PROVE  VolumeWithinLimit'
<1>1. /\ volume' = [volume EXCEPT ![u] = @ + OfferPrice]
      /\ package' = package
      /\ package[u] # NoPackage
      /\ volume[u] + OfferPrice <= TradingLimit[package[u]]
    BY DEF Purchase, WithinDailyLimit
<1>2. volume'[u] <= TradingLimit[package[u]]
    BY <1>1 DEF TypeOK
<1>3. \A v \in Users \ {u} : volume'[v] = volume[v]
    BY <1>1 DEF TypeOK
<1> QED
    BY <1>1, <1>2, <1>3 DEF VolumeWithinLimit

\* No user buys more in a day than the daily limit of the package owned then
\* (VolumeWithinLimit), however purchases, bot purchases, upgrades and the end
\* of the day interleave; upgrading in the middle of a day keeps it so as long
\* as a dearer package has no lower limit.
THEOREM VolumeAlwaysWithinLimit ==
    ASSUME LimitsRiseWithPrice
    PROVE  Spec => []VolumeWithinLimit
<1>1. Init => VolumeWithinLimit
    BY DEF Init, VolumeWithinLimit
<1>2. TypeOK /\ VolumeWithinLimit /\ [Next]_vars => VolumeWithinLimit'
    <2> SUFFICES ASSUME TypeOK, VolumeWithinLimit, [Next]_vars
                 PROVE  VolumeWithinLimit'
        OBVIOUS
    <2>1. ASSUME NEW u \in Users, Buy(u) \/ BotBuy(u) PROVE VolumeWithinLimit'
        BY <2>1, PurchaseVolume DEF Buy, BotBuy
    <2>2. CASE RunBotTrade
        BY <2>2, PurchaseVolume DEF RunBotTrade, Idle, TypeOK
    <2>3. ASSUME NEW u \in Users, NEW p \in Packages, TakePackage(u, p)
          PROVE  VolumeWithinLimit'
        <3>1. /\ package' = [package EXCEPT ![u] = p]
              /\ volume' = volume
              /\ PriceOf(package[u]) < PackagePrice[p]
            BY <2>3 DEF TakePackage
        <3>2. package[u] \in Packages => TradingLimit[package[u]] <= TradingLimit[p]
            BY <3>1, PackagesAssumption, LimitsRiseWithPrice
            DEF LimitsRiseWithPrice, PriceOf
        <3>3. package'[u] = p /\ p # NoPackage
            BY <3>1, PackagesAssumption DEF TypeOK
        <3>4. volume[u] > 0 => volume[u] <= TradingLimit[p]
            <4> SUFFICES ASSUME volume[u] > 0 PROVE volume[u] <= TradingLimit[p]
                OBVIOUS
            <4>1. package[u] \in Packages /\ volume[u] <= TradingLimit[package[u]]
                BY DEF VolumeWithinLimit, TypeOK
            <4>2. /\ TradingLimit[package[u]] \in Nat /\ TradingLimit[p] \in Nat
                  /\ volume[u] \in Nat
                BY <4>1, PackagesAssumption DEF TypeOK
            <4> QED
                BY <3>2, <4>1, <4>2
        <3>5. \A v \in Users \ {u} : package'[v] = package[v]
            BY <3>1 DEF TypeOK
        <3> QED
            BY <3>1, <3>3, <3>4, <3>5 DEF VolumeWithinLimit
    <2>4. CASE NextDay
        BY <2>4 DEF NextDay, VolumeWithinLimit
    <2>5. CASE UNCHANGED <<package, volume>>
        BY <2>5 DEF VolumeWithinLimit
    <2> QED
        BY <2>1, <2>2, <2>3, <2>4, <2>5
        DEF Next, RunBotStart, RunBotStop, AdminMintToQueue, AdminBurnToken,
            ListHeld, TransferFrom, SetUserBot, SetPricing, SetSaleSplit,
            SetPaused, SetPermanentlyInactive, vars, accountVars
<1> QED
    BY <1>1, <1>2, TypeCorrect, PTL DEF Spec

(***************************************************************************)
(* Asks stay below the burn threshold.                                     *)
(***************************************************************************)

LEMMA QuotientBound ==
    ASSUME NEW y \in Nat, NEW z \in Nat, NEW b \in Nat \ {0}, y <= z * b
    PROVE  y \div b <= z
<1> DEFINE d == y \div b
<1>1. d \in Nat /\ b * d <= y
    OBVIOUS
<1> HIDE DEF d
<1> SUFFICES ASSUME d >= z + 1 PROVE FALSE
    BY <1>1 DEF d
<1>2. b * d >= b * (z + 1)
    BY <1>1
<1>3. b * (z + 1) = z * b + b
    OBVIOUS
<1>4. b * d \in Nat /\ z * b \in Nat /\ b * (z + 1) \in Nat
    BY <1>1
<1> QED
    BY <1>1, <1>2, <1>3, <1>4

\* An appreciation of at most 200% at most triples a price.
LEMMA AppreciatedTriple ==
    ASSUME NEW price \in Nat, pricing \in Pricing,
           pricing.appreciationBps <= 2 * BPS
    PROVE  Appreciated(price) <= 3 * price
<1> DEFINE rate == BPS + pricing.appreciationBps
<1>1. BPS \in Nat \ {0} /\ rate \in Nat /\ rate <= 3 * BPS
    BY BoundsAssumption DEF Pricing
<1> HIDE DEF rate
<1>2. price * rate <= price * (3 * BPS)
    BY <1>1
<1>3. price * (3 * BPS) = (3 * price) * BPS
    BY <1>1
<1>4. price * rate \in Nat /\ 3 * price \in Nat
    BY <1>1
<1>5. price * rate <= (3 * price) * BPS
    BY <1>2, <1>3
<1> QED
    BY <1>1, <1>4, <1>5, QuotientBound DEF Appreciated, rate

\* The pricing stays the constructor's, which mints below the threshold and
\* adds at most 200%.
PricingFixed ==
    /\ Pricings \subseteq {InitPricing}
    /\ InitPricing.mintPrice < InitPricing.burnThreshold
    /\ InitPricing.appreciationBps <= 2 * BPS

\* An ask below the threshold needs the price that the next one is made from
\* to be below it: the price kept with a hold, a third of the primary price.
AskInv ==
    /\ pricing = InitPricing
    /\ AsksBelowThreshold
    /\ \A t \in Token : holdPaidPrice[t] < pricing.burnThreshold
    /\ nextListPrice < 3 * pricing.burnThreshold

\* The next price of a sale below the threshold.
LEMMA NextPriceBound ==
    ASSUME TypeOK, PricingFixed, pricing = InitPricing, NEW price \in Nat,
           price < pricing.burnThreshold
    PROVE  Appreciated(price) < 3 * pricing.burnThreshold
<1>1. Appreciated(price) <= 3 * price /\ Appreciated(price) \in Nat
    BY AppreciatedTriple, AppreciatedNat DEF TypeOK, PricingFixed
<1>2. pricing.burnThreshold \in Nat
    BY DEF TypeOK, Pricing
<1> QED
    BY <1>1, <1>2

LEMMA OfferAsk ==
    ASSUME TypeOK, NftInv, AskInv, PricingFixed, Offer <= MaxToken
    PROVE  /\ OfferPrice < 3 * pricing.burnThreshold
           /\ \A i \in 1 .. Len(Rest) :
                  Taken[Rest[i]].price < pricing.burnThreshold
<1>1. pricing.burnThreshold \in Nat
    BY DEF TypeOK, Pricing
<1>2. CASE Fresh
    BY <1>2 DEF OfferPrice, AskInv, Rest
<1>3. CASE ~Fresh
    <2>1. /\ Rest = Tail(queue) /\ Offer = queue[1] /\ queue \in Seq(Token)
          /\ Len(queue) > 0 /\ Len(Rest) = Len(queue) - 1
          /\ \A j \in 1 .. Len(Rest) : Rest[j] = queue[j + 1]
        BY <1>3 DEF Rest, Offer, Fresh, TypeOK
    <2>2. \A i \in 1 .. Len(queue) : listing[queue[i]].price < pricing.burnThreshold
        BY DEF AskInv, AsksBelowThreshold
    <2>3. OfferPrice \in Nat /\ OfferPrice < pricing.burnThreshold
        BY <1>3, <2>1, <2>2, OfferType DEF OfferPrice
    <2>4. \A i \in 1 .. Len(Rest) : Rest[i] # Offer /\ i + 1 \in 1 .. Len(queue)
        BY <2>1, OfferSound
    <2>5. \A i \in 1 .. Len(Rest) : Taken[Rest[i]] = listing[Rest[i]]
        BY <2>1, <2>4 DEF Taken, TypeOK
    <2> QED
        BY <1>1, <2>1, <2>2, <2>3, <2>4, <2>5
<1> QED
    BY <1>2, <1>3

\* An NFT put behind a queue of asks below the threshold, at such an ask.
LEMMA AppendAsk ==
    ASSUME TypeOK, NEW q \in Seq(Token), NEW t \in Token, NEW T \in Nat,
           queue' = Append(q, t),
           \A i \in 1 .. Len(q) : listing'[q[i]].price < T,
           listing'[t].price < T
    PROVE  \A i \in 1 .. Len(queue') : listing'[queue'[i]].price < T
<1>1. \A i \in 1 .. Len(queue') :
          (i \in 1 .. Len(q) /\ queue'[i] = q[i]) \/ queue'[i] = t
    OBVIOUS
<1> QED
    BY <1>1

LEMMA BurnAndSplitAsk ==
    ASSUME TypeOK, NftInv, AskInv, PricingFixed, NEW u \in Users,
           Offer <= MaxToken, BurnAndSplit(u)
    PROVE  /\ \A i \in 1 .. Len(queue') :
                  listing'[queue'[i]].price < pricing.burnThreshold
           /\ holdPaidPrice' = holdPaidPrice
           /\ nextListPrice' < 3 * pricing.burnThreshold
<1> DEFINE T     == pricing.burnThreshold
           unit  == OfferPrice \div 3
           ask   == IF Appreciated(unit) >= pricing.burnThreshold
                    THEN unit ELSE Appreciated(unit)
           new   == <<NextId, NextId + 1, NextId + 2>>
           spawn == NextId .. NextId + 2
<1>1. /\ listing' = [t \in Token |->
                        IF t \in spawn THEN Ask(ask, u) ELSE Taken[t]]
      /\ queue' = Rest \o new
      /\ nextListPrice' = Appreciated(unit)
      /\ holdPaidPrice' = holdPaidPrice
      /\ NextId + 2 <= MaxToken
    BY DEF BurnAndSplit, SpawnUnit, Spawned
<1>2. T \in Nat /\ OfferPrice \in Nat /\ OfferPrice < 3 * T
    BY OfferAsk, OfferType DEF TypeOK, Pricing
<1>3. unit \in Nat /\ unit < T
    BY <1>2
<1>4. Appreciated(unit) \in Nat /\ Appreciated(unit) < 3 * T
    BY <1>3, AppreciatedNat, NextPriceBound DEF AskInv
<1>5. ask < T
    BY <1>2, <1>3, <1>4
<1>6. /\ NextId \in Nat /\ spawn \subseteq Token
      /\ Rest \in Seq(Token) /\ new \in Seq(Token) /\ Len(new) = 3
    BY <1>1, OfferType, BoundsAssumption DEF Token
<1>7. \A i \in 1 .. 3 : new[i] \in spawn
    BY <1>6
<1> HIDE DEF ask, unit, new, T
<1>8. \A t \in spawn : listing'[t].price < T
    BY <1>1, <1>5, <1>6 DEF Ask
<1>9. \A i \in 1 .. Len(Rest) : listing'[Rest[i]].price < T
    <2> SUFFICES ASSUME NEW i \in 1 .. Len(Rest) PROVE listing'[Rest[i]].price < T
        OBVIOUS
    <2>1. Rest[i] \in Token /\ Rest[i] \notin spawn
        BY <1>6, OfferSound DEF Token
    <2> QED
        BY <1>1, <2>1, OfferAsk DEF T
<1>10. \A i \in 1 .. Len(queue') :
           (i \in 1 .. Len(Rest) /\ queue'[i] = Rest[i]) \/ queue'[i] \in spawn
    <2>1. /\ Len(Rest \o new) = Len(Rest) + Len(new)
          /\ \A i \in 1 .. Len(Rest) : (Rest \o new)[i] = Rest[i]
          /\ \A i \in 1 .. Len(new) : (Rest \o new)[Len(Rest) + i] = new[i]
        BY <1>6, ConcatIndex
    <2> SUFFICES ASSUME NEW i \in 1 .. Len(queue'), i \notin 1 .. Len(Rest)
                 PROVE  queue'[i] \in spawn
        BY <1>1, <2>1
    <2>2. i - Len(Rest) \in 1 .. 3 /\ Len(Rest) + (i - Len(Rest)) = i
        BY <1>1, <1>6, <2>1
    <2>3. queue'[Len(Rest) + (i - Len(Rest))] = new[i - Len(Rest)]
        BY <1>1, <1>6, <2>1, <2>2
    <2> QED
        BY <1>7, <2>2, <2>3
<1> QED
    BY <1>1, <1>4, <1>8, <1>9, <1>10 DEF T

LEMMA PlaceAsk ==
    ASSUME TypeOK, NftInv, AskInv, PricingFixed, NEW u \in Users,
           Offer <= MaxToken, PlaceAfterPurchase(u)
    PROVE  /\ \A i \in 1 .. Len(queue') :
                  listing'[queue'[i]].price < pricing.burnThreshold
           /\ \A t \in Token : holdPaidPrice'[t] < pricing.burnThreshold
           /\ nextListPrice' < 3 * pricing.burnThreshold
<1> DEFINE T == pricing.burnThreshold
<1>1. /\ T \in Nat /\ OfferPrice \in Nat /\ OfferPrice < T
      /\ Offer \in Token /\ Rest \in Seq(Token)
      /\ Taken \in [Token -> Listing]
    BY OfferType
    DEF PlaceAfterPurchase, HoldAtThreshold, AutoList, HoldFirst,
        HoldDisplacing, BelowThreshold, TypeOK, Pricing
<1>2. Appreciated(OfferPrice) \in Nat /\ Appreciated(OfferPrice) < 3 * T
    BY <1>1, AppreciatedNat, NextPriceBound DEF AskInv
<1>3. \A i \in 1 .. Len(Rest) : Rest[i] \in Token /\ Taken[Rest[i]].price < T
    BY OfferAsk, OfferSound
<1>4. \A t \in Token : holdPaidPrice[t] < T
    BY DEF AskInv
<1> HIDE DEF T
<1>5. CASE HoldAtThreshold(u) \/ HoldFirst(u)
    <2>1. /\ holdPaidPrice' = [holdPaidPrice EXCEPT ![Offer] = OfferPrice]
          /\ nextListPrice' = Appreciated(OfferPrice)
          /\ listing' = Taken
          /\ queue' = Rest
        BY <1>5 DEF HoldAtThreshold, HoldFirst
    <2>2. \A t \in Token : holdPaidPrice'[t] < T
        BY <1>1, <1>4, <2>1 DEF TypeOK
    <2> QED
        BY <1>2, <1>3, <2>1, <2>2 DEF T
<1>6. CASE AutoList(u)
    <2> DEFINE ask == Appreciated(OfferPrice)
    <2>1. /\ listing' = [Taken EXCEPT ![Offer] = Ask(ask, u)]
          /\ queue' = Append(Rest, Offer)
          /\ nextListPrice' = Appreciated(ask)
          /\ holdPaidPrice' = holdPaidPrice
          /\ ask < T
        BY <1>6 DEF AutoList, BelowThreshold, T
    <2>2. Appreciated(ask) < 3 * T
        BY <1>2, <2>1, NextPriceBound DEF AskInv, T
    <2> HIDE DEF ask
    <2>3. \A t \in Token : listing'[t] = IF t = Offer THEN Ask(ask, u) ELSE Taken[t]
        BY <1>1, <2>1
    <2>4. listing'[Offer].price < T
        BY <1>1, <2>1, <2>3 DEF Ask
    <2>5. \A i \in 1 .. Len(Rest) : listing'[Rest[i]].price < T
        BY <1>3, <2>3, <2>4
    <2>6. \A i \in 1 .. Len(queue') : listing'[queue'[i]].price < T
        BY <1>1, <2>1, <2>4, <2>5, AppendAsk
    <2> QED
        BY <1>4, <2>1, <2>2, <2>6 DEF T
<1>7. CASE HoldDisplacing(u)
    <2> DEFINE prev == heldTokenId[u]
               ask  == DisplacedAsk(prev)
    <2>1. /\ prev \in Token
          /\ holdPaidPrice' = [holdPaidPrice EXCEPT ![prev] = 0,
                                                    ![Offer] = OfferPrice]
          /\ listing' = [Taken EXCEPT ![prev] = Ask(ask, u)]
          /\ queue' = Append(Rest, prev)
          /\ nextListPrice' = Appreciated(ask)
        BY <1>7 DEF HoldDisplacing, TypeOK
    <2>2. ask \in Nat /\ ask < T
        <3> DEFINE paid == IF holdPaidPrice[prev] = 0 THEN OfferPrice
                           ELSE holdPaidPrice[prev]
        <3>1. paid \in Nat /\ paid < T
            BY <1>1, <1>4, <2>1 DEF TypeOK
        <3>2. Appreciated(paid) \in Nat
            BY <3>1, AppreciatedNat
        <3>3. ask = IF Appreciated(paid) >= T THEN paid ELSE Appreciated(paid)
            BY DEF DisplacedAsk, T
        <3> HIDE DEF paid
        <3> QED
            BY <1>1, <3>1, <3>2, <3>3
    <2>3. Appreciated(ask) < 3 * T
        BY <2>2, NextPriceBound DEF AskInv, T
    <2> HIDE DEF ask, prev
    <2>4. \A t \in Token : listing'[t] = IF t = prev THEN Ask(ask, u) ELSE Taken[t]
        BY <1>1, <2>1
    <2>5. listing'[prev].price < T
        BY <2>1, <2>2, <2>4 DEF Ask
    <2>6. \A i \in 1 .. Len(Rest) : listing'[Rest[i]].price < T
        BY <1>3, <2>4, <2>5
    <2>7. \A i \in 1 .. Len(queue') : listing'[queue'[i]].price < T
        BY <1>1, <2>1, <2>5, <2>6, AppendAsk
    <2>8. \A t \in Token : holdPaidPrice'[t] < T
        <3>1. \A t \in Token :
                  holdPaidPrice'[t] = IF t = Offer THEN OfferPrice
                                      ELSE IF t = prev THEN 0
                                      ELSE holdPaidPrice[t]
            BY <1>1, <2>1 DEF TypeOK
        <3> QED
            BY <1>1, <1>4, <3>1
    <2> QED
        BY <2>1, <2>3, <2>7, <2>8 DEF T
<1> QED
    BY <1>5, <1>6, <1>7 DEF PlaceAfterPurchase

LEMMA PurchaseAsk ==
    ASSUME TypeOK, NftInv, AskInv, PricingFixed, NEW u \in Users, Purchase(u)
    PROVE  AskInv'
<1>1. pricing' = pricing /\ Offer <= MaxToken
    BY DEF Purchase, configVars
<1>2. CASE BurnAndSplit(u)
    BY <1>1, <1>2, BurnAndSplitAsk DEF AskInv, AsksBelowThreshold
<1>3. CASE PlaceAfterPurchase(u)
    BY <1>1, <1>3, PlaceAsk DEF AskInv, AsksBelowThreshold
<1> QED
    BY <1>2, <1>3 DEF Purchase

LEMMA AdminMintAsk ==
    ASSUME TypeOK, NftInv, AskInv, PricingFixed, AdminMintToQueue
    PROVE  AskInv'
<1> DEFINE ask == Appreciated(pricing.mintPrice)
           T   == pricing.burnThreshold
<1>1. PICK quantity \in MintQuantities :
          /\ ask < T
          /\ nextTokenId + quantity - 1 <= MaxToken
          /\ listing' = [t \in Token |->
                IF t \in nextTokenId .. nextTokenId + quantity - 1
                THEN Ask(ask, NoOne) ELSE listing[t]]
          /\ queue' = queue \o [i \in 1 .. quantity |-> nextTokenId + i - 1]
          /\ nextListPrice' = IF nextListPrice < ask THEN ask ELSE nextListPrice
          /\ holdPaidPrice' = holdPaidPrice /\ pricing' = pricing
    BY DEF AdminMintToQueue, configVars
<1> DEFINE minted == [i \in 1 .. quantity |-> nextTokenId + i - 1]
<1>2. quantity \in Nat \ {0} /\ nextTokenId \in Nat \ {0} /\ T \in Nat
    BY BoundsAssumption DEF TypeOK, Pricing
<1>3. minted \in Seq(Token)
    <2>1. \A i \in 1 .. quantity : nextTokenId + i - 1 \in Token
        BY <1>1, <1>2, BoundsAssumption DEF Token
    <2>2. minted \in [1 .. quantity -> Token]
        BY <2>1
    <2> QED
        BY <1>2, <2>2
<1>4. queue' = queue \o minted /\ queue \in Seq(Token)
    BY <1>1 DEF TypeOK
<1>5. ask \in Nat
    BY AppreciatedNat DEF TypeOK, Pricing
<1> HIDE DEF minted, ask, T
<1>6. \A t \in Token : listing[t].price < T => listing'[t].price < T
    BY <1>1 DEF Ask
<1>7. \A i \in 1 .. Len(queue) : listing'[queue[i]].price < T
    <2>1. \A i \in 1 .. Len(queue) : queue[i] \in Token
        BY <1>4
    <2> QED
        BY <1>6, <2>1 DEF AskInv, AsksBelowThreshold, T
<1>8. \A i \in 1 .. Len(minted) : listing'[minted[i]].price < T
    <2>1. \A i \in 1 .. Len(minted) :
              minted[i] \in Token
              /\ minted[i] \in nextTokenId .. nextTokenId + quantity - 1
        BY <1>2, <1>3 DEF minted
    <2> QED
        BY <1>1, <2>1 DEF Ask
<1>9. \A i \in 1 .. Len(queue') : listing'[queue'[i]].price < T
    <2>1. minted \in Seq(Token) /\ queue \in Seq(Token)
        BY <1>3, <1>4
    <2>2. /\ Len(queue \o minted) = Len(queue) + Len(minted)
          /\ \A i \in 1 .. Len(queue) : (queue \o minted)[i] = queue[i]
          /\ \A i \in 1 .. Len(minted) :
                 (queue \o minted)[Len(queue) + i] = minted[i]
        BY <2>1, ConcatIndex
    <2> SUFFICES ASSUME NEW i \in 1 .. Len(queue'), i \notin 1 .. Len(queue)
                 PROVE  listing'[queue'[i]].price < T
        BY <1>4, <1>7, <2>2
    <2>3. i - Len(queue) \in 1 .. Len(minted) /\ Len(queue) + (i - Len(queue)) = i
        BY <1>4, <2>1, <2>2
    <2>4. queue'[Len(queue) + (i - Len(queue))] = minted[i - Len(queue)]
        BY <1>4, <2>2, <2>3
    <2> QED
        BY <1>8, <2>3, <2>4
<1>10. nextListPrice' < 3 * T
    BY <1>1, <1>2, <1>5 DEF AskInv, T
<1> QED
    BY <1>1, <1>9, <1>10 DEF AskInv, AsksBelowThreshold, T

LEMMA ListHeldAsk ==
    ASSUME TypeOK, NftInv, AskInv, PricingFixed, NEW u \in Users, ListHeld(u)
    PROVE  AskInv'
<1> DEFINE held == heldTokenId[u]
           T    == pricing.burnThreshold
<1>1. /\ held \in Token
      /\ listing' = [listing EXCEPT ![held] = Ask(nextListPrice, u)]
      /\ queue' = Append(queue, held) /\ queue \in Seq(Token)
      /\ nextListPrice < T
      /\ nextListPrice' = Appreciated(nextListPrice)
      /\ holdPaidPrice' = holdPaidPrice /\ pricing' = pricing
    BY DEF ListHeld, TypeOK, configVars
<1>2. T \in Nat /\ nextListPrice \in Nat
    BY DEF TypeOK, Pricing
<1> HIDE DEF held
<1>3. nextListPrice' < 3 * T
    BY <1>1, <1>2, NextPriceBound DEF AskInv
<1> HIDE DEF T
<1>4. \A t \in Token :
          listing'[t] = IF t = held THEN Ask(nextListPrice, u) ELSE listing[t]
    BY <1>1 DEF TypeOK
<1>5. listing'[held].price < T
    BY <1>1, <1>4 DEF Ask
<1>6. \A i \in 1 .. Len(queue) : listing'[queue[i]].price < T
    <2>1. \A i \in 1 .. Len(queue) : queue[i] \in Token
        BY <1>1
    <2> QED
        BY <1>4, <1>5, <2>1 DEF AskInv, AsksBelowThreshold, T
<1>7. \A i \in 1 .. Len(queue') : listing'[queue'[i]].price < T
    BY <1>1, <1>2, <1>5, <1>6, AppendAsk
<1> QED
    BY <1>1, <1>3, <1>7 DEF AskInv, AsksBelowThreshold, T

LEMMA AdminBurnAsk ==
    ASSUME TypeOK, NftInv, AskInv, NEW t \in Token, AdminBurnToken(t)
    PROVE  AskInv'
<1>1. UNCHANGED <<pricing, holdPaidPrice, nextListPrice>>
    BY DEF AdminBurnToken, configVars
<1>2. CASE BurnHead(t)
    <2>1. queue # <<>> /\ queue[1] = t /\ queue' = Tail(queue)
          /\ listing' = [listing EXCEPT ![t] = NoListing]
          /\ queue \in Seq(Token)
        BY <1>2 DEF BurnHead, AtHead, TypeOK
    <2>2. \A i \in 1 .. Len(queue') :
              /\ 1 \in 1 .. Len(queue) /\ i + 1 \in 1 .. Len(queue)
              /\ queue'[i] = queue[i + 1] /\ queue[i + 1] \in Token
        BY <2>1
    <2>3. \A i \in 1 .. Len(queue') : listing'[queue'[i]] = listing[queue[i + 1]]
        BY <2>1, <2>2 DEF NftInv, QueueSound, TypeOK
    <2> QED
        BY <1>1, <2>2, <2>3 DEF AskInv, AsksBelowThreshold
<1>3. CASE BurnUnlisted(t)
    BY <1>1, <1>3 DEF BurnUnlisted, AskInv, AsksBelowThreshold
<1> QED
    BY <1>2, <1>3 DEF AdminBurnToken

\* While the pricing stays the constructor's, no resale is asked at the burn
\* threshold or above (AsksBelowThreshold): only a primary mint is split.
THEOREM AsksStayBelowThreshold ==
    ASSUME PricingFixed
    PROVE  Spec => []AsksBelowThreshold
<1>1. Init => AskInv
    <2> SUFFICES ASSUME Init PROVE AskInv
        OBVIOUS
    <2>1. /\ pricing = InitPricing /\ pricing \in Pricing
          /\ pricing.mintPrice < pricing.burnThreshold
          /\ pricing.appreciationBps <= 2 * BPS
          /\ pricing.mintPrice \in Nat /\ pricing.burnThreshold \in Nat
        BY PricingAssumption DEF Init, PricingFixed, Pricing
    <2>2. Appreciated(pricing.mintPrice) <= 3 * pricing.mintPrice
        BY <2>1, AppreciatedTriple
    <2>3. nextListPrice = Appreciated(pricing.mintPrice)
        BY DEF Init
    <2>4. nextListPrice \in Nat
        <3>1. /\ BPS \in Nat \ {0} /\ BPS + pricing.appreciationBps \in Nat
            BY <2>1, BoundsAssumption DEF Pricing
        <3> QED
            BY <2>1, <2>3, <3>1, MulDivNat DEF Appreciated
    <2>5. nextListPrice < 3 * pricing.burnThreshold
        BY <2>1, <2>2, <2>3, <2>4
    <2>6. queue = <<>> /\ holdPaidPrice = [t \in Token |-> 0]
        BY DEF Init
    <2> QED
        BY <2>1, <2>5, <2>6 DEF AskInv, AsksBelowThreshold
<1>2. TypeOK /\ NftInv /\ AskInv /\ [Next]_vars => AskInv'
    <2> SUFFICES ASSUME TypeOK, NftInv, AskInv, [Next]_vars PROVE AskInv'
        OBVIOUS
    <2>1. ASSUME NEW u \in Users, Buy(u) \/ BotBuy(u) PROVE AskInv'
        BY <2>1, PurchaseAsk DEF Buy, BotBuy
    <2>2. CASE RunBotTrade
        BY <2>2, PurchaseAsk DEF RunBotTrade, Idle, TypeOK
    <2>3. CASE AdminMintToQueue
        BY <2>3, AdminMintAsk
    <2>4. ASSUME NEW t \in Token, AdminBurnToken(t) PROVE AskInv'
        BY <2>4, AdminBurnAsk
    <2>5. ASSUME NEW u \in Users, ListHeld(u) PROVE AskInv'
        BY <2>5, ListHeldAsk
    <2>6. ASSUME NEW p \in Pricings, SetPricing(p) PROVE AskInv'
        <3>1. pricing' = pricing
            BY <2>6 DEF SetPricing, PricingFixed, AskInv
        <3> QED
            BY <2>6, <3>1 DEF SetPricing, AskInv, AsksBelowThreshold, nftVars
    <2>7. CASE UNCHANGED <<pricing, queue, listing, holdPaidPrice, nextListPrice>>
        BY <2>7 DEF AskInv, AsksBelowThreshold
    <2> QED
        BY <2>1, <2>2, <2>3, <2>4, <2>5, <2>6, <2>7
        DEF Next, RunBotStart, RunBotStop, TransferFrom, SetUserBot,
            SetSaleSplit, SetPaused, TakePackage, SetPermanentlyInactive,
            NextDay, vars, nftVars, configVars
<1>3. AskInv => AsksBelowThreshold
    BY DEF AskInv
<1> QED
    BY <1>1, <1>2, <1>3, TypeCorrect, NftInvariant, PTL DEF Spec

=============================================================================
