------------------------------- MODULE Checkout -------------------------------
(* A purchase as the web application makes it with the member's wallet: it     *)
(* reads the price, approves USDT where the allowance is short, simulates the  *)
(* call and has it signed. The calls name no price, so a window relies on what *)
(* it has read while the market, the owner and other windows go on             *)
(* (lib/onChainMarketplace.ts, onChainSubscription.ts, onChainRegistration.ts).*)
EXTENDS Integers, FiniteSets

CONSTANTS
    Windows,
    Asks,        \* prices at the head of the market's queue
    Fees,        \* prices of a package
    Cap,         \* the standing approval of auto trading
    InitFunds,   \* USDT in the wallet at first
    Minted,      \* test USDT the sign-up page mints for a short wallet
    TopPackage,
    MaxMoves     \* bound on what others do

ASSUME CheckoutAssumption ==
    /\ Asks \subseteq Nat \ {0} /\ Fees \subseteq Nat \ {0}
    /\ Cap \in Nat /\ InitFunds \in Nat /\ Minted \in Nat
    /\ TopPackage \in Nat \ {0} /\ MaxMoves \in Nat

VARIABLES
    head,       \* of the queue: its price, and whether the wallet is its seller
    fee,        \* package |-> price
    holds,      \* the wallet's package, 0 before it has activated one
    funds,      \* the wallet's USDT
    allowance,  \* spender |-> USDT it may take
    window,     \* what each window is doing
    moves

checkoutVars == <<head, fee, holds, funds, allowance, window, moves>>

Closed == [at |-> "closed"]
Shows(w, stage) == window[w].at = stage
Proceeds(w, stage) == window' = [window EXCEPT ![w].at = stage]
Moved == moves < MaxMoves /\ moves' = moves + 1

Heads == [price : Asks, own : BOOLEAN]

\* Windows that have settled their allowance learn nothing of a new one.
Crossed(spender) ==
    [w \in Windows |->
        IF window[w].at \in {"covered", "sent"} /\ window[w].spender = spender
        THEN [window[w] EXCEPT !.crossed = TRUE] ELSE window[w]]
-----------------------------------------------------------------------------
Looks(w, spender, item, price) ==
    /\ Shows(w, "closed")
    /\ price <= funds
    /\ window' = [window EXCEPT ![w] =
            [at |-> "looked", spender |-> spender, item |-> item, first |-> holds = 0,
             shown |-> price, cover |-> 0, crossed |-> FALSE]]
    /\ UNCHANGED <<head, fee, holds, funds, allowance, moves>>

\* approveAndBuyNft, whichever listing was clicked: the queue's head. The pause
\* and the daily limit may refuse it as well.
LookAtMarket(w) ==
    /\ holds # 0 /\ ~head.own
    /\ Looks(w, "market", 0, head.price)

\* The gate of both pages: the entry package, then the next one.
LookAtPackage(w) ==
    /\ holds < TopPackage
    /\ Looks(w, "registration", holds + 1, fee[holds + 1])

\* The sign-up page mints, which only a test token allows.
MintTest ==
    /\ Moved
    /\ holds = 0 /\ funds < fee[1]
    /\ funds' = funds + Minted
    /\ UNCHANGED <<head, fee, holds, allowance, window>>

ReadAllowance(w) ==
    /\ Shows(w, "looked")
    /\ LET allowed == allowance[window[w].spender] IN
        window' = [window EXCEPT ![w].at = IF allowed >= window[w].shown THEN "covered" ELSE "short",
                                 ![w].cover = allowed]
    /\ UNCHANGED <<head, fee, holds, funds, allowance, moves>>

Bug_ApprovesAll(w) == funds
ToApprove(w) == window[w].shown

\* The approval replaces the allowance that there was.
Approve(w) ==
    /\ Shows(w, "short")
    /\ LET spender == window[w].spender IN
        /\ allowance' = [allowance EXCEPT ![spender] = ToApprove(w)]
        /\ \/ window' = [Crossed(spender) EXCEPT ![w].at = "covered", ![w].cover = window[w].shown]
           \/ window' = [Crossed(spender) EXCEPT ![w] = Closed]   \* its receipt is not awaited to the end
    /\ UNCHANGED <<head, fee, holds, funds, moves>>
-----------------------------------------------------------------------------
(* The call. buy takes the head, whoever sells it. *)

PriceNow(w) ==
    IF window[w].spender = "market" THEN head.price ELSE fee[window[w].item]

\* activate is called if the wallet had no package when it was looked at.
Allows(w) ==
    LET item == window[w].item IN
    CASE window[w].spender = "market" -> holds # 0
      [] window[w].first -> holds = 0
      [] OTHER -> holds # 0 /\ fee[item] > fee[holds]

Succeeds(w) ==
    /\ Allows(w)
    /\ PriceNow(w) <= funds /\ PriceNow(w) <= allowance[window[w].spender]

\* Simulated at the state of now, then put before the user and sent.
Send(w) ==
    /\ Shows(w, "covered") /\ Succeeds(w)
    /\ Proceeds(w, "sent")
    /\ UNCHANGED <<head, fee, holds, funds, allowance, moves>>

Pays(spender, price) ==
    /\ funds' = funds - price
    /\ allowance' = [allowance EXCEPT ![spender] = @ - price]

Buys(w) ==
    /\ Shows(w, "sent") /\ Succeeds(w)
    /\ Pays(window[w].spender, PriceNow(w))
    /\ IF window[w].spender = "market"
       THEN head' \in Heads /\ UNCHANGED holds
       ELSE holds' = window[w].item /\ UNCHANGED head
    /\ window' = [window EXCEPT ![w] = Closed]
    /\ UNCHANGED <<fee, moves>>

\* An error, a refusal in the wallet, a simulation that would revert, or a
\* transaction that does.
GivesUp(w) ==
    /\ ~Shows(w, "closed")
    /\ window' = [window EXCEPT ![w] = Closed]
    /\ UNCHANGED <<head, fee, holds, funds, allowance, moves>>
-----------------------------------------------------------------------------
(* What others do, and the member on other pages. *)

QueueMoves ==
    /\ Moved
    /\ head' \in Heads
    /\ UNCHANGED <<fee, holds, funds, allowance, window>>

Reprice ==
    /\ Moved
    /\ \E item \in 1 .. TopPackage, price \in Fees : fee' = [fee EXCEPT ![item] = price]
    /\ UNCHANGED <<head, holds, funds, allowance, window>>

\* adminRegisterAndActivate and adminUpgrade take no USDT.
GrantPackage ==
    /\ Moved
    /\ \E item \in 1 .. TopPackage :
        /\ holds # 0 => fee[item] > fee[holds]
        /\ holds' = item
    /\ UNCHANGED <<head, fee, funds, allowance, window>>

\* Unlimited or limited, for the bot; nothing is sent where it is there already.
ApproveStanding ==
    /\ Moved
    /\ allowance["market"] < Cap
    /\ allowance' = [allowance EXCEPT !["market"] = Cap]
    /\ window' = Crossed("market")
    /\ UNCHANGED <<head, fee, holds, funds>>

BotBuys ==
    /\ Moved
    /\ holds # 0 /\ head.price <= funds /\ head.price <= allowance["market"]
    /\ Pays("market", head.price)
    /\ head' \in Heads
    /\ UNCHANGED <<fee, holds, window>>
-----------------------------------------------------------------------------
CheckoutInit ==
    /\ head \in Heads
    /\ fee \in [1 .. TopPackage -> Fees] /\ \A i, j \in 1 .. TopPackage : i < j => fee[i] < fee[j]
    /\ holds = 0 /\ funds = InitFunds
    /\ allowance = [s \in {"market", "registration"} |-> 0]
    /\ window = [w \in Windows |-> Closed]
    /\ moves = 0

CheckoutNext ==
    \/ \E w \in Windows :
        \/ LookAtMarket(w) \/ LookAtPackage(w) \/ ReadAllowance(w) \/ Approve(w)
        \/ Send(w) \/ Buys(w) \/ GivesUp(w)
    \/ MintTest \/ QueueMoves \/ Reprice \/ GrantPackage \/ ApproveStanding \/ BotBuys

CheckoutSpec == CheckoutInit /\ [][CheckoutNext]_checkoutVars
-----------------------------------------------------------------------------
\* A click costs no more than the price it was shown, or than an allowance that
\* was in force when it looked, wherever the price has gone by the time it is
\* mined: only another window's approval, or a standing one, that landed
\* meanwhile lets it cost more (onChainMarketplace.ts 54-101, 232-294,
\* onChainSubscription.ts 123-222, onChainRegistration.ts 103-232).
PaidAsShown ==
    [][\A w \in Windows :
        Buys(w) => \/ funds - funds' <= window[w].cover
                   \/ window[w].crossed]_checkoutVars
=============================================================================
