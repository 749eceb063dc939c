------------------------------- MODULE WebProofs -------------------------------
(* Theorems of Checkout and of Browser: what a click may cost and how long a   *)
(* session goes on, for every number of windows and tabs, every price and      *)
(* every length of a session.                                                  *)
EXTENDS Checkout, Browser, SequenceTheorems, TLAPS

(***************************************************************************)
(* Checkout.                                                               *)
(***************************************************************************)

Spenders == {"market", "registration"}
Looking == [at : {"looked", "short", "covered", "sent"}, spender : Spenders, item : Nat,
            first : BOOLEAN, shown : Nat, cover : Int, crossed : BOOLEAN]

CheckoutTypeOK ==
    /\ head \in Heads
    /\ fee \in [1 .. TopPackage -> Fees]
    /\ holds \in 0 .. TopPackage
    /\ funds \in Int
    /\ allowance \in [Spenders -> Int]
    /\ window \in [Windows -> {Closed} \cup Looking]
    /\ \A w \in Windows : window[w].at # "closed" /\ window[w].spender = "registration" =>
            window[w].item \in 1 .. TopPackage

\* A window that has settled its allowance knows how much there is at most,
\* unless an approval has come in between.
CoverInv ==
    \A w \in Windows : window[w].at \in {"covered", "sent"} =>
        window[w].crossed \/ allowance[window[w].spender] <= window[w].cover

LEMMA WindowType ==
    ASSUME CheckoutTypeOK, NEW w \in Windows
    PROVE  /\ window[w].at = "closed" <=> window[w] = Closed
           /\ window[w].at # "closed" =>
                /\ window[w] \in Looking
                /\ window[w].spender \in Spenders
                /\ window[w].shown \in Nat /\ window[w].cover \in Int /\ window[w].crossed \in BOOLEAN
                /\ allowance[window[w].spender] \in Int
<1>1. window[w] = Closed \/ window[w] \in Looking
    BY DEF CheckoutTypeOK
<1> QED
    BY <1>1 DEF CheckoutTypeOK, Closed, Looking

LEMMA PricesNat ==
    ASSUME CheckoutTypeOK
    PROVE  /\ head.price \in Nat
           /\ \A item \in 1 .. TopPackage : fee[item] \in Nat
           /\ \A w \in Windows : window[w].at # "closed" => PriceNow(w) \in Nat
<1>1. head.price \in Nat
    BY CheckoutAssumption DEF CheckoutTypeOK, Heads
<1>2. \A item \in 1 .. TopPackage : fee[item] \in Nat
    BY CheckoutAssumption DEF CheckoutTypeOK
<1>3. \A w \in Windows : window[w].at # "closed" => PriceNow(w) \in Nat
    BY <1>1, <1>2, WindowType DEF PriceNow, CheckoutTypeOK, Spenders
<1> QED
    BY <1>1, <1>2, <1>3

\* Telling the settled windows of an approval changes only their "crossed".
LEMMA CrossedWindows ==
    ASSUME CheckoutTypeOK, NEW spender \in Spenders
    PROVE  /\ Crossed(spender) \in [Windows -> {Closed} \cup Looking]
           /\ \A w \in Windows :
                /\ Crossed(spender)[w].at = window[w].at
                /\ window[w].at # "closed" =>
                    /\ Crossed(spender)[w].spender = window[w].spender
                    /\ Crossed(spender)[w].item = window[w].item
                    /\ Crossed(spender)[w].cover = window[w].cover
                    /\ window[w].crossed => Crossed(spender)[w].crossed
                    /\ window[w].spender = spender /\ window[w].at \in {"covered", "sent"} =>
                           Crossed(spender)[w].crossed
<1> SUFFICES ASSUME NEW w \in Windows
             PROVE  /\ Crossed(spender)[w] \in {Closed} \cup Looking
                    /\ Crossed(spender)[w].at = window[w].at
                    /\ window[w].at # "closed" =>
                        /\ Crossed(spender)[w].spender = window[w].spender
                        /\ Crossed(spender)[w].item = window[w].item
                        /\ Crossed(spender)[w].cover = window[w].cover
                        /\ window[w].crossed => Crossed(spender)[w].crossed
                        /\ window[w].spender = spender /\ window[w].at \in {"covered", "sent"} =>
                               Crossed(spender)[w].crossed
    BY DEF Crossed
<1>1. CASE window[w].at \in {"covered", "sent"} /\ window[w].spender = spender
    <2>1. Crossed(spender)[w] = [window[w] EXCEPT !.crossed = TRUE] /\ window[w] \in Looking
        BY <1>1, WindowType DEF Crossed
    <2> QED
        BY <1>1, <2>1 DEF Looking
<1>2. CASE ~(window[w].at \in {"covered", "sent"} /\ window[w].spender = spender)
    <2>1. Crossed(spender)[w] = window[w]
        BY <1>2 DEF Crossed
    <2> QED
        BY <1>2, <2>1 DEF CheckoutTypeOK
<1> QED
    BY <1>1, <1>2

CheckoutInv == CheckoutTypeOK /\ CoverInv

\* A step that changes one window, to one that has settled nothing.
LEMMA OneWindow ==
    ASSUME CheckoutInv, NEW w \in Windows, NEW now \in {Closed} \cup Looking,
           window' = [window EXCEPT ![w] = now],
           now.at # "closed" /\ now.spender = "registration" => now.item \in 1 .. TopPackage,
           now.at \in {"covered", "sent"} => now.crossed \/ allowance[now.spender] <= now.cover,
           UNCHANGED <<head, fee, holds, funds, allowance>>
    PROVE  CheckoutInv'
<1>1. CheckoutTypeOK'
    BY DEF CheckoutInv, CheckoutTypeOK
<1>2. CoverInv'
    BY DEF CheckoutInv, CheckoutTypeOK, CoverInv
<1> QED
    BY <1>1, <1>2 DEF CheckoutInv

LEMMA LooksKeeps ==
    ASSUME CheckoutInv, NEW w \in Windows, NEW spender \in Spenders, NEW item \in Nat, NEW price \in Nat,
           Looks(w, spender, item, price),
           spender = "registration" => item \in 1 .. TopPackage
    PROVE  CheckoutInv'
<1> DEFINE now == [at |-> "looked", spender |-> spender, item |-> item, first |-> holds = 0,
                   shown |-> price, cover |-> 0, crossed |-> FALSE]
<1>1. now \in Looking
    <2>1. (holds = 0) \in BOOLEAN
        BY Zenon
    <2> QED
        BY <2>1 DEF Looking
<1>2. now.at = "looked" /\ now.spender = spender /\ now.item = item
    OBVIOUS
<1>3. window' = [window EXCEPT ![w] = now] /\ UNCHANGED <<head, fee, holds, funds, allowance>>
    BY DEF Looks
<1> HIDE DEF now
<1> QED
    BY <1>1, <1>2, <1>3, OneWindow

LEMMA ReadAllowanceKeeps ==
    ASSUME CheckoutInv, NEW w \in Windows, ReadAllowance(w)
    PROVE  CheckoutInv'
<1> DEFINE allowed == allowance[window[w].spender]
           stage   == IF allowed >= window[w].shown THEN "covered" ELSE "short"
           now     == [window[w] EXCEPT !.at = stage, !.cover = allowed]
<1>1. window[w] \in Looking /\ allowed \in Int
    BY WindowType DEF CheckoutInv, ReadAllowance, Shows
<1>2. /\ now \in Looking /\ now.spender = window[w].spender /\ now.item = window[w].item
      /\ now.cover = allowed
    BY <1>1 DEF Looking
<1>3. window' = [window EXCEPT ![w] = now] /\ UNCHANGED <<head, fee, holds, funds, allowance>>
    BY <1>1 DEF ReadAllowance, CheckoutInv, CheckoutTypeOK, Looking
<1>4. window[w].spender = "registration" => window[w].item \in 1 .. TopPackage
    BY DEF CheckoutInv, CheckoutTypeOK, ReadAllowance, Shows
<1>5. allowance[now.spender] <= now.cover
    BY <1>1, <1>2
<1> HIDE DEF now
<1> QED
    BY <1>2, <1>3, <1>4, <1>5, OneWindow

\* The window that approved is covered by exactly what it asked for; the others
\* with that spender have been crossed.
LEMMA ApproveKeeps ==
    ASSUME CheckoutInv, NEW w \in Windows, Approve(w)
    PROVE  CheckoutInv'
<1> DEFINE spender == window[w].spender
           shown   == window[w].shown
           others  == Crossed(spender)
<1>1. window[w] \in Looking /\ spender \in Spenders /\ shown \in Nat /\ window[w].at = "short"
    BY WindowType DEF CheckoutInv, Approve, Shows
<1>2. /\ others \in [Windows -> {Closed} \cup Looking]
      /\ \A v \in Windows :
            /\ others[v].at = window[v].at
            /\ window[v].at # "closed" =>
                /\ others[v].spender = window[v].spender
                /\ others[v].item = window[v].item
                /\ others[v].cover = window[v].cover
                /\ window[v].crossed => others[v].crossed
                /\ window[v].spender = spender /\ window[v].at \in {"covered", "sent"} => others[v].crossed
    BY <1>1, CrossedWindows DEF CheckoutInv
<1>3. /\ allowance' = [allowance EXCEPT ![spender] = shown]
      /\ UNCHANGED <<head, fee, holds, funds>>
    BY DEF Approve, ToApprove
<1>4. \/ window' = [others EXCEPT ![w] = [others[w] EXCEPT !.at = "covered", !.cover = shown]]
      \/ window' = [others EXCEPT ![w] = Closed]
    BY <1>2 DEF Approve
<1>5. others[w] \in Looking
    BY <1>1, <1>2 DEF Closed
<1> HIDE DEF others
<1>6. /\ window' \in [Windows -> {Closed} \cup Looking]
      /\ \A v \in Windows \ {w} : window'[v] = others[v]
      /\ \/ window'[w] = Closed
         \/ /\ window'[w].at = "covered" /\ window'[w].cover = shown
            /\ window'[w].spender = spender /\ window'[w].item = window[w].item
    <2> DEFINE now == [others[w] EXCEPT !.at = "covered", !.cover = shown]
    <2>1. now \in Looking
        <3>1. shown \in Int
            BY <1>1
        <3> HIDE DEF shown
        <3> QED
            BY <1>5, <3>1 DEF Looking
    <2>2. now.at = "covered" /\ now.cover = shown
        BY <1>5 DEF Looking
    <2>3. now.spender = others[w].spender /\ now.item = others[w].item
        BY <1>5 DEF Looking
    <2> HIDE DEF now
    <2>4. others[w].spender = spender /\ others[w].item = window[w].item
        BY <1>1, <1>2
    <2>5. window' = [others EXCEPT ![w] = now] \/ window' = [others EXCEPT ![w] = Closed]
        BY <1>4 DEF now
    <2> QED
        BY <1>2, <2>1, <2>2, <2>3, <2>4, <2>5
<1>7. CheckoutTypeOK'
    <2>1. allowance' \in [Spenders -> Int]
        BY <1>1, <1>3 DEF CheckoutInv, CheckoutTypeOK
    <2>2. \A v \in Windows : window'[v].at # "closed" /\ window'[v].spender = "registration" =>
                window'[v].item \in 1 .. TopPackage
        BY <1>1, <1>2, <1>6 DEF CheckoutInv, CheckoutTypeOK, Closed
    <2> QED
        BY <1>3, <1>6, <2>1, <2>2 DEF CheckoutInv, CheckoutTypeOK
<1>8. CoverInv'
    <2> SUFFICES ASSUME NEW v \in Windows, window'[v].at \in {"covered", "sent"}
                 PROVE  window'[v].crossed \/ allowance'[window'[v].spender] <= window'[v].cover
        BY DEF CoverInv
    <2>1. CASE v = w
        BY <1>1, <1>3, <1>6, <2>1 DEF CheckoutInv, CheckoutTypeOK, Closed
    <2>2. CASE v # w
        <3>1. window'[v] = others[v] /\ window[v].at \in {"covered", "sent"} /\ window[v].spender \in Spenders
            BY <1>2, <1>6, <2>2, WindowType DEF CheckoutInv
        <3>2. CASE window[v].spender = spender
            BY <1>2, <3>1, <3>2
        <3>3. CASE window[v].spender # spender
            <4>1. allowance'[window[v].spender] = allowance[window[v].spender]
                BY <1>3, <3>1, <3>3 DEF CheckoutInv, CheckoutTypeOK
            <4> QED
                BY <1>2, <3>1, <4>1 DEF CheckoutInv, CoverInv
        <3> QED
            BY <3>2, <3>3
    <2> QED
        BY <2>1, <2>2
<1> QED
    BY <1>7, <1>8 DEF CheckoutInv

LEMMA SendKeeps ==
    ASSUME CheckoutInv, NEW w \in Windows, Send(w)
    PROVE  CheckoutInv'
<1> DEFINE now == [window[w] EXCEPT !.at = "sent"]
<1>1. window[w] \in Looking /\ window[w].at = "covered"
    BY WindowType DEF CheckoutInv, Send, Shows
<1>2. /\ now \in Looking /\ now.spender = window[w].spender /\ now.item = window[w].item
      /\ now.cover = window[w].cover /\ now.crossed = window[w].crossed
    BY <1>1 DEF Looking
<1>3. window' = [window EXCEPT ![w] = now] /\ UNCHANGED <<head, fee, holds, funds, allowance>>
    BY <1>1 DEF Send, Proceeds
<1>4. window[w].spender = "registration" => window[w].item \in 1 .. TopPackage
    BY <1>1 DEF CheckoutInv, CheckoutTypeOK
<1>5. now.crossed \/ allowance[now.spender] <= now.cover
    BY <1>1, <1>2 DEF CheckoutInv, CoverInv
<1> HIDE DEF now
<1> QED
    BY <1>2, <1>3, <1>4, <1>5, OneWindow

\* A payment takes from the allowance, so what covered the windows still does.
LEMMA PaysKeeps ==
    ASSUME CheckoutInv, NEW spender \in Spenders, NEW price \in Nat, Pays(spender, price)
    PROVE  /\ funds' \in Int /\ allowance' \in [Spenders -> Int]
           /\ \A s \in Spenders : allowance'[s] <= allowance[s]
    BY DEF CheckoutInv, CheckoutTypeOK, Pays

\* Windows that stay as they are, or close, stay covered by a smaller allowance.
LEMMA CoverStays ==
    ASSUME CheckoutInv, window' \in [Windows -> {Closed} \cup Looking],
           \A w \in Windows : window'[w] = window[w] \/ window'[w] = Closed,
           allowance' \in [Spenders -> Int],
           \A s \in Spenders : allowance'[s] <= allowance[s]
    PROVE  CoverInv'
<1> SUFFICES ASSUME NEW w \in Windows, window'[w].at \in {"covered", "sent"}
             PROVE  window'[w].crossed \/ allowance'[window'[w].spender] <= window'[w].cover
    BY DEF CoverInv
<1>1. window'[w] = window[w] /\ window[w].at \in {"covered", "sent"}
    BY DEF Closed
<1>2. /\ window[w].spender \in Spenders /\ window[w].cover \in Int
      /\ allowance[window[w].spender] \in Int /\ allowance'[window[w].spender] \in Int
    BY <1>1, WindowType DEF CheckoutInv
<1> QED
    BY <1>1, <1>2 DEF CheckoutInv, CoverInv

LEMMA BuysKeeps ==
    ASSUME CheckoutInv, NEW w \in Windows, Buys(w)
    PROVE  CheckoutInv'
<1>1. /\ window[w] \in Looking /\ window[w].spender \in Spenders /\ PriceNow(w) \in Nat
      /\ window[w].at = "sent"
    BY WindowType, PricesNat DEF CheckoutInv, Buys, Shows
<1>2. /\ funds' \in Int /\ allowance' \in [Spenders -> Int]
      /\ \A s \in Spenders : allowance'[s] <= allowance[s]
    BY <1>1, PaysKeeps DEF Buys
<1>3. /\ window' \in [Windows -> {Closed} \cup Looking]
      /\ \A v \in Windows : window'[v] = window[v] \/ window'[v] = Closed
    BY DEF Buys, CheckoutInv, CheckoutTypeOK
<1>4. head' \in Heads /\ holds' \in 0 .. TopPackage /\ fee' = fee
    <2>1. window[w].spender # "market" => window[w].item \in 1 .. TopPackage
        BY <1>1 DEF CheckoutInv, CheckoutTypeOK, Spenders
    <2> QED
        BY <2>1 DEF Buys, CheckoutInv, CheckoutTypeOK
<1>5. CheckoutTypeOK'
    BY <1>2, <1>3, <1>4 DEF CheckoutInv, CheckoutTypeOK, Closed
<1> QED
    BY <1>2, <1>3, <1>5, CoverStays DEF CheckoutInv

LEMMA OneWindowActionsKeep ==
    ASSUME CheckoutInv, NEW w \in Windows,
           \/ LookAtMarket(w) \/ LookAtPackage(w) \/ ReadAllowance(w) \/ Approve(w)
           \/ Send(w) \/ Buys(w) \/ GivesUp(w)
    PROVE  CheckoutInv'
<1>1. CASE LookAtMarket(w)
    BY <1>1, PricesNat, LooksKeeps DEF LookAtMarket, CheckoutInv, Spenders
<1>2. CASE LookAtPackage(w)
    <2>1. holds + 1 \in 1 .. TopPackage /\ holds + 1 \in Nat
        BY <1>2, CheckoutAssumption DEF LookAtPackage, CheckoutInv, CheckoutTypeOK
    <2>2. fee[holds + 1] \in Nat
        BY <2>1, PricesNat DEF CheckoutInv
    <2>3. Looks(w, "registration", holds + 1, fee[holds + 1])
        BY <1>2 DEF LookAtPackage
    <2> QED
        BY <2>1, <2>2, <2>3, LooksKeeps DEF Spenders
<1>3. CASE GivesUp(w)
    BY <1>3, OneWindow DEF GivesUp, Closed
<1> QED
    BY <1>1, <1>2, <1>3, ReadAllowanceKeeps, ApproveKeeps, SendKeeps, BuysKeeps

LEMMA MovesKeep ==
    ASSUME CheckoutInv,
           MintTest \/ QueueMoves \/ Reprice \/ GrantPackage \/ ApproveStanding \/ BotBuys
    PROVE  CheckoutInv'
<1>1. CASE MintTest
    BY <1>1, CheckoutAssumption DEF MintTest, CheckoutInv, CheckoutTypeOK, CoverInv
<1>2. CASE QueueMoves
    BY <1>2 DEF QueueMoves, CheckoutInv, CheckoutTypeOK, CoverInv
<1>3. CASE Reprice
    BY <1>3 DEF Reprice, CheckoutInv, CheckoutTypeOK, CoverInv
<1>4. CASE GrantPackage
    BY <1>4 DEF GrantPackage, CheckoutInv, CheckoutTypeOK, CoverInv
<1>5. CASE ApproveStanding
    <2>1. allowance' = [allowance EXCEPT !["market"] = Cap] /\ window' = Crossed("market")
        BY <1>5 DEF ApproveStanding
    <2>2. CheckoutTypeOK'
        <3>1. allowance' \in [Spenders -> Int]
            <4>1. Cap \in Int
                BY CheckoutAssumption
            <4>2. allowance \in [Spenders -> Int]
                BY DEF CheckoutInv, CheckoutTypeOK
            <4> QED
                BY <2>1, <4>1, <4>2
        <3>2. "market" \in Spenders
            BY DEF Spenders
        <3>3. /\ window' \in [Windows -> {Closed} \cup Looking]
              /\ \A w \in Windows :
                    /\ window'[w].at = window[w].at
                    /\ window[w].at # "closed" => /\ window'[w].spender = window[w].spender
                                                  /\ window'[w].item = window[w].item
            BY <2>1, <3>2, CrossedWindows DEF CheckoutInv
        <3>4. \A w \in Windows : window'[w].at # "closed" /\ window'[w].spender = "registration" =>
                    window'[w].item \in 1 .. TopPackage
            BY <3>3 DEF CheckoutInv, CheckoutTypeOK
        <3> QED
            BY <1>5, <3>1, <3>3, <3>4 DEF ApproveStanding, CheckoutInv, CheckoutTypeOK
    <2>3. CoverInv'
        <3> SUFFICES ASSUME NEW w \in Windows, window'[w].at \in {"covered", "sent"}
                     PROVE  window'[w].crossed \/ allowance'[window'[w].spender] <= window'[w].cover
            BY DEF CoverInv
        <3>1. "market" \in Spenders
            BY DEF Spenders
        <3>2. /\ window[w].at \in {"covered", "sent"} /\ window'[w].spender = window[w].spender
              /\ window'[w].cover = window[w].cover /\ window[w].spender \in Spenders
              /\ window[w].crossed => window'[w].crossed
              /\ window[w].spender = "market" => window'[w].crossed
            BY <2>1, <3>1, CrossedWindows, WindowType DEF CheckoutInv
        <3>3. window[w].spender # "market" => allowance'[window[w].spender] = allowance[window[w].spender]
            BY <2>1, <3>2 DEF CheckoutInv, CheckoutTypeOK
        <3> QED
            BY <3>2, <3>3 DEF CheckoutInv, CoverInv
    <2> QED
        BY <2>2, <2>3 DEF CheckoutInv
<1>6. CASE BotBuys
    <2>1. /\ funds' \in Int /\ allowance' \in [Spenders -> Int]
          /\ \A s \in Spenders : allowance'[s] <= allowance[s]
        BY <1>6, PricesNat, PaysKeeps DEF BotBuys, CheckoutInv, Spenders
    <2>2. CheckoutTypeOK'
        BY <1>6, <2>1 DEF BotBuys, CheckoutInv, CheckoutTypeOK
    <2>3. CoverInv'
        BY <1>6, <2>1, CoverStays DEF BotBuys, CheckoutInv, CheckoutTypeOK
    <2> QED
        BY <2>2, <2>3 DEF CheckoutInv
<1> QED
    BY <1>1, <1>2, <1>3, <1>4, <1>5, <1>6

\* Settled windows are covered, or crossed by an approval, in every reachable state.
THEOREM WindowsCovered == CheckoutSpec => []CheckoutInv
<1>1. CheckoutInit => CheckoutInv
    BY CheckoutAssumption DEF CheckoutInit, CheckoutInv, CheckoutTypeOK, CoverInv, Closed, Spenders
<1>2. CheckoutInv /\ [CheckoutNext]_checkoutVars => CheckoutInv'
    <2> SUFFICES ASSUME CheckoutInv, [CheckoutNext]_checkoutVars PROVE CheckoutInv'
        OBVIOUS
    <2>1. CASE UNCHANGED checkoutVars
        BY <2>1 DEF checkoutVars, CheckoutInv, CheckoutTypeOK, CoverInv
    <2> QED
        BY <2>1, OneWindowActionsKeep, MovesKeep DEF CheckoutNext
<1> QED
    BY <1>1, <1>2, PTL DEF CheckoutSpec

\* No click costs more than the price it was shown or the allowance it found,
\* unless an approval crossed it (onChainMarketplace.ts 54-101, 232-294,
\* onChainSubscription.ts 123-222, onChainRegistration.ts 103-232).
THEOREM ClicksPayAsShown == CheckoutSpec => PaidAsShown
<1>1. CheckoutInv /\ [CheckoutNext]_checkoutVars =>
        [\A w \in Windows : Buys(w) => \/ funds - funds' <= window[w].cover
                                       \/ window[w].crossed]_checkoutVars
    <2> SUFFICES ASSUME CheckoutInv, NEW w \in Windows, Buys(w)
                 PROVE  funds - funds' <= window[w].cover \/ window[w].crossed
        OBVIOUS
    <2>1. /\ PriceNow(w) \in Nat /\ window[w].cover \in Int /\ window[w].at = "sent"
          /\ allowance[window[w].spender] \in Int /\ funds \in Int
        BY WindowType, PricesNat DEF CheckoutInv, CheckoutTypeOK, Buys, Shows
    <2>2. funds - funds' = PriceNow(w) /\ PriceNow(w) <= allowance[window[w].spender]
        BY <2>1 DEF Buys, Succeeds, Pays
    <2> QED
        BY <2>1, <2>2 DEF CheckoutInv, CoverInv
<1> QED
    BY <1>1, WindowsCovered, PTL DEF CheckoutSpec, PaidAsShown

(***************************************************************************)
(* Browser.                                                                *)
(***************************************************************************)

Pair == [at : Nat, session : Nat, since : Nat]
Refused == [at : {"refused"}, session : Nat]
Renewing == [at : {"renewing"}, session : Nat, pair : Nat]
Leaving == [at : {"leaving"}, repeats : BOOLEAN]

\* localStorage with one of the first n pairs, or none.
Storage(n) == [pair : 0 .. n, start : Nat \cup {Unset}, last : Nat \cup {Unset}]

BrowserTypeOK ==
    /\ ticks \in Nat /\ touched \in Nat
    /\ pairs \in Seq(Pair)
    /\ kept \in Storage(Len(pairs))
    /\ tab \in [Tabs -> {Browsing, Shut} \cup Refused \cup Renewing \cup Leaving]
    /\ \A w \in Tabs : tab[w].at = "renewing" => tab[w].pair \in DOMAIN pairs

\* A tab deals with a 401 of the session.
DealsWith(w, session) == tab[w].at \in {"refused", "renewing"} /\ tab[w].session = session

\* The pairs of a session have one login, which is in the past; a tab
\* deals with the 401 of a session only when its hour is over; LAST_ACTIVITY,
\* where it is set, is the user's.
SessionInv ==
    /\ \A i \in DOMAIN pairs : pairs[i].session \in 1 .. Len(pairs) /\ pairs[i].since <= pairs[i].at /\ pairs[i].at <= ticks
    /\ \A i, j \in DOMAIN pairs : pairs[i].session = pairs[j].session => pairs[i].since = pairs[j].since
    /\ kept.last # Unset => kept.last = touched
    /\ \A w \in Tabs : tab[w].at \in {"refused", "renewing"} => tab[w].session <= Len(pairs)
    /\ \A w \in Tabs, i \in DOMAIN pairs :
        DealsWith(w, pairs[i].session) => ticks - pairs[i].since >= HourTicks

BrowserInv == BrowserTypeOK /\ SessionInv

LEMMA TabType ==
    ASSUME BrowserTypeOK, NEW w \in Tabs
    PROVE  /\ tab[w].at = "refused" => tab[w] \in Refused /\ tab[w].session \in Nat
           /\ tab[w].at = "renewing" => tab[w] \in Renewing /\ tab[w].session \in Nat /\ tab[w].pair \in DOMAIN pairs
    BY DEF BrowserTypeOK, Browsing, Shut, Refused, Renewing, Leaving

LEMMA KeptType ==
    ASSUME BrowserTypeOK
    PROVE  /\ Len(pairs) \in Nat /\ DOMAIN pairs = 1 .. Len(pairs)
           /\ kept.pair \in 0 .. Len(pairs)
           /\ kept.start \in Int /\ kept.last \in Int
           /\ SignedIn => kept.pair \in DOMAIN pairs
           /\ \A i \in DOMAIN pairs : /\ pairs[i] \in Pair
                                      /\ pairs[i].at \in Nat /\ pairs[i].since \in Nat /\ pairs[i].session \in Nat
<1>1. Len(pairs) \in Nat /\ DOMAIN pairs = 1 .. Len(pairs)
    BY DEF BrowserTypeOK
<1>2. kept.pair \in 0 .. Len(pairs) /\ kept.start \in Int /\ kept.last \in Int
    BY DEF BrowserTypeOK, Storage, Unset
<1>3. \A i \in DOMAIN pairs : pairs[i] \in Pair
    BY DEF BrowserTypeOK
<1>4. \A i \in DOMAIN pairs : pairs[i].at \in Nat /\ pairs[i].since \in Nat /\ pairs[i].session \in Nat
    BY <1>3 DEF Pair
<1> QED
    BY <1>1, <1>2, <1>3, <1>4 DEF SignedIn, NoPair

\* Storage with another pair, another time of activity, or a SESSION_START where
\* there was none.
LEMMA StartedType ==
    ASSUME NEW n \in Nat, NEW time \in Nat, NEW storage \in Storage(n)
    PROVE  Started(storage, time) \in Storage(n) /\ Started(storage, time).last = storage.last
    BY DEF Storage, Started, Unset

LEMMA PairStoredType ==
    ASSUME NEW n \in Nat, NEW m \in Nat, NEW pair \in 0 .. n, NEW storage \in Storage(m)
    PROVE  /\ [storage EXCEPT !.pair = pair] \in Storage(n)
           /\ [storage EXCEPT !.pair = pair].last = storage.last
    BY DEF Storage

LEMMA TouchedType ==
    ASSUME NEW n \in Nat, NEW time \in Nat, NEW storage \in Storage(n)
    PROVE  /\ [storage EXCEPT !.last = time] \in Storage(n)
           /\ [storage EXCEPT !.last = time].last = time
    BY DEF Storage

\* What an issued pair leaves of the ones before it.
LEMMA IssueType ==
    ASSUME BrowserTypeOK, NEW session \in Nat, NEW since \in Nat, Issue(session, since)
    PROVE  /\ pairs' \in Seq(Pair) /\ Len(pairs') = Len(pairs) + 1
           /\ DOMAIN pairs = 1 .. Len(pairs) /\ DOMAIN pairs' = 1 .. Len(pairs) + 1
           /\ \A i \in DOMAIN pairs : pairs'[i] = pairs[i]
           /\ LET new == pairs'[Len(pairs) + 1]
              IN  new.at = ticks /\ new.session = session /\ new.since = since
<1> DEFINE new == [at |-> ticks, session |-> session, since |-> since]
<1>1. new \in Pair /\ new.at = ticks /\ new.session = session /\ new.since = since
    BY DEF BrowserTypeOK, Pair
<1>2. pairs' = Append(pairs, new) /\ pairs \in Seq(Pair)
    BY DEF Issue, BrowserTypeOK
<1> HIDE DEF new
<1> QED
    BY <1>1, <1>2

\* A login begins a session that no tab deals with; any other pair joins the
\* session of a pair that is there.
LEMMA IssueKeeps ==
    ASSUME BrowserInv, NEW session \in Nat, NEW since \in Nat, Issue(session, since),
           since <= ticks, ticks' = ticks,
           \/ session = Len(pairs) + 1
           \/ \E i \in DOMAIN pairs : session = pairs[i].session /\ since = pairs[i].since,
           \A w \in Tabs : tab'[w] = tab[w] \/ tab'[w].at \notin {"refused", "renewing"},
           kept'.last # Unset => kept'.last = touched'
    PROVE  SessionInv'
<1> DEFINE last == Len(pairs) + 1
<1>1. /\ Len(pairs) \in Nat /\ ticks \in Nat
      /\ Len(pairs') = last /\ DOMAIN pairs = 1 .. Len(pairs) /\ DOMAIN pairs' = 1 .. last
      /\ \A i \in DOMAIN pairs : pairs'[i] = pairs[i]
      /\ pairs'[last].at = ticks /\ pairs'[last].session = session /\ pairs'[last].since = since
      /\ \A i \in DOMAIN pairs : pairs[i].since \in Nat /\ pairs[i].session \in Nat
    BY IssueType, KeptType DEF BrowserInv, BrowserTypeOK
<1>2. session \in 1 .. last
    BY <1>1 DEF BrowserInv, SessionInv
<1>3. \A i \in DOMAIN pairs' :
            pairs'[i].session \in 1 .. Len(pairs') /\ pairs'[i].since <= pairs'[i].at /\ pairs'[i].at <= ticks'
    BY <1>1, <1>2 DEF BrowserInv, SessionInv
<1>4. \A i \in DOMAIN pairs : session = pairs[i].session => since = pairs[i].since
    BY <1>1 DEF BrowserInv, SessionInv
<1>5. \A i, j \in DOMAIN pairs' : pairs'[i].session = pairs'[j].session => pairs'[i].since = pairs'[j].since
    BY <1>1, <1>4 DEF BrowserInv, SessionInv
<1>6. \A w \in Tabs : DealsWith(w, session) =>
            \E i \in DOMAIN pairs : session = pairs[i].session /\ since = pairs[i].since
    BY <1>1, TabType DEF BrowserInv, SessionInv, DealsWith
<1>7. \A w \in Tabs, i \in DOMAIN pairs' : DealsWith(w, pairs'[i].session) => ticks - pairs'[i].since >= HourTicks
    BY <1>1, <1>6 DEF BrowserInv, SessionInv
<1>8. \A w \in Tabs, i \in DOMAIN pairs' : DealsWith(w, pairs[i].session)' => ticks' - pairs'[i].since >= HourTicks
    BY <1>7 DEF DealsWith
<1>9. \A w \in Tabs : tab'[w].at \in {"refused", "renewing"} => tab'[w].session <= Len(pairs')
    BY <1>1, TabType DEF BrowserInv, SessionInv
<1> QED
    BY <1>3, <1>5, <1>8, <1>9 DEF SessionInv

\* Steps that issue no pair and leave the tabs' 401s alone, or end one.
LEMMA NoIssueKeeps ==
    ASSUME BrowserInv, UNCHANGED pairs, ticks' \in Nat, ticks' >= ticks,
           \A w \in Tabs : tab'[w] = tab[w] \/ tab'[w].at \notin {"refused", "renewing"},
           kept'.last # Unset => kept'.last = touched'
    PROVE  SessionInv'
<1>1. \A w \in Tabs, i \in DOMAIN pairs : DealsWith(w, pairs[i].session)' => DealsWith(w, pairs[i].session)
    BY DEF DealsWith
<1>2. \A i \in DOMAIN pairs : pairs[i].since \in Nat /\ pairs[i].at \in Nat
    BY KeptType DEF BrowserInv
<1>3. \A w \in Tabs, i \in DOMAIN pairs : DealsWith(w, pairs[i].session)' => ticks' - pairs[i].since >= HourTicks
    BY <1>1, <1>2, BrowserAssumption DEF BrowserInv, BrowserTypeOK, SessionInv
<1>4. \A i \in DOMAIN pairs : pairs[i].at <= ticks'
    BY <1>2 DEF BrowserInv, BrowserTypeOK, SessionInv
<1> QED
    BY <1>3, <1>4 DEF BrowserInv, SessionInv

LEMMA TurnsType ==
    ASSUME BrowserTypeOK, NEW w \in Tabs, NEW doing, Turn(w, doing),
           doing \in {Browsing, Shut} \cup Refused \cup Renewing \cup Leaving
    PROVE  /\ tab' \in [Tabs -> {Browsing, Shut} \cup Refused \cup Renewing \cup Leaving]
           /\ tab'[w] = doing
           /\ \A v \in Tabs \ {w} : tab'[v] = tab[v]
    BY DEF BrowserTypeOK, Turn

\* A tab that turns to something else than a 401, the storage kept in type.
LEMMA TurnKeeps ==
    ASSUME BrowserInv, NEW w \in Tabs, NEW doing, Turn(w, doing),
           doing \in {Browsing, Shut} \cup Leaving,
           UNCHANGED <<ticks, pairs, touched>>,
           kept' \in Storage(Len(pairs)),
           kept'.last # Unset => kept'.last = touched
    PROVE  BrowserInv'
<1>1. doing.at \notin {"refused", "renewing"}
    BY DEF Browsing, Shut, Leaving
<1>2. /\ tab' \in [Tabs -> {Browsing, Shut} \cup Refused \cup Renewing \cup Leaving]
      /\ tab'[w] = doing
      /\ \A v \in Tabs \ {w} : tab'[v] = tab[v]
    BY TurnsType DEF BrowserInv
<1>3. BrowserTypeOK'
    BY <1>1, <1>2 DEF BrowserInv, BrowserTypeOK
<1>4. SessionInv'
    BY <1>1, <1>2, NoIssueKeeps DEF BrowserInv, BrowserTypeOK
<1> QED
    BY <1>3, <1>4 DEF BrowserInv

\* Opening and closing a tab, and leaving.
LEMMA ComingAndGoingKeeps ==
    ASSUME BrowserInv, NEW w \in Tabs,
           \/ OpenTab(w) \/ CloseTab(w) \/ Rejected(w) \/ TimerFires(w) \/ LogOut(w) \/ Leave(w)
    PROVE  BrowserInv'
<1>1. CASE OpenTab(w)
    <2>1. SignedIn => Session.at \in Nat
        BY KeptType DEF BrowserInv, Session
    <2>2. /\ kept' \in Storage(Len(pairs))
          /\ kept'.last = kept.last
        <3>1. kept \in Storage(Len(pairs)) /\ Len(pairs) \in 0 .. Len(pairs) /\ Len(pairs) \in Nat
            BY KeptType DEF BrowserInv, BrowserTypeOK
        <3>2. SignedIn => kept' = Started(kept, Session.at)
            BY <1>1 DEF OpenTab
        <3>3. ~SignedIn => kept' = kept
            BY <1>1 DEF OpenTab
        <3> QED
            BY <2>1, <3>1, <3>2, <3>3, StartedType
    <2>3. Turn(w, Browsing) /\ UNCHANGED <<ticks, pairs, touched>>
        BY <1>1 DEF OpenTab
    <2> QED
        BY <2>2, <2>3, TurnKeeps DEF BrowserInv, SessionInv
<1>2. CASE CloseTab(w)
    BY <1>2, TurnKeeps DEF CloseTab, BrowserInv, BrowserTypeOK, SessionInv
<1>3. CASE Rejected(w)
    <2>1. /\ kept' \in Storage(Len(pairs))
          /\ kept'.last = kept.last
        BY <1>3, KeptType DEF Rejected, NoPair, BrowserInv, BrowserTypeOK, Storage
    <2> QED
        BY <1>3, <2>1, TurnKeeps DEF Rejected, BrowserInv, SessionInv
<1>4. CASE TimerFires(w) \/ LogOut(w)
    <2> DEFINE doing == [at |-> "leaving", repeats |-> Expired(kept.pair)]
    <2>1. doing \in Leaving
        <3>1. Expired(kept.pair) \in BOOLEAN
            BY DEF Expired
        <3> QED
            BY <3>1 DEF Leaving
    <2>2. Turn(w, doing) /\ UNCHANGED <<ticks, kept, pairs, touched>>
        BY <1>4 DEF TimerFires, LogOut, BeginLogout
    <2> HIDE DEF doing
    <2> QED
        BY <2>1, <2>2, TurnKeeps DEF BrowserInv, BrowserTypeOK, SessionInv
<1>5. CASE Leave(w)
    <2>1. /\ kept' \in Storage(Len(pairs))
          /\ kept'.last = Unset
        BY <1>5, KeptType DEF Leave, Nothing, NoPair, BrowserInv, Storage
    <2> QED
        BY <1>5, <2>1, TurnKeeps DEF Leave
<1> QED
    BY <1>1, <1>2, <1>3, <1>4, <1>5

\* Another pair stored by a step of a tab, which is then at no 401.
LEMMA StoresKeeps ==
    ASSUME BrowserInv, NEW w \in Tabs, NEW session \in Nat, NEW since \in Nat, Issue(session, since),
           since <= ticks, ticks' = ticks, touched' \in Nat,
           \/ session = Len(pairs) + 1
           \/ \E i \in DOMAIN pairs : session = pairs[i].session /\ since = pairs[i].since,
           tab' = tab \/ Turn(w, Browsing),
           kept' \in Storage(Len(pairs) + 1),
           kept'.last # Unset => kept'.last = touched'
    PROVE  BrowserInv'
<1>1. /\ pairs' \in Seq(Pair) /\ Len(pairs') = Len(pairs) + 1
      /\ DOMAIN pairs = 1 .. Len(pairs) /\ DOMAIN pairs' = 1 .. Len(pairs) + 1 /\ Len(pairs) \in Nat
    BY IssueType, KeptType DEF BrowserInv
<1>2. /\ tab' \in [Tabs -> {Browsing, Shut} \cup Refused \cup Renewing \cup Leaving]
      /\ \A v \in Tabs : tab'[v] = tab[v] \/ tab'[v] = Browsing
    BY DEF BrowserInv, BrowserTypeOK, Turn
<1>3. Browsing.at = "open"
    BY DEF Browsing
<1>4. BrowserTypeOK'
    BY <1>1, <1>2, <1>3 DEF BrowserInv, BrowserTypeOK
<1>5. SessionInv'
    BY <1>2, <1>3, IssueKeeps
<1> QED
    BY <1>4, <1>5 DEF BrowserInv

\* The user's own steps, and the clock.
LEMMA EnterKeeps ==
    ASSUME BrowserInv, NEW w \in Tabs, EnterSession(w)
    PROVE  BrowserInv'
<1> DEFINE n == Len(pairs) + 1
<1>1. n \in Nat /\ Len(pairs) \in Nat /\ n \in 0 .. n /\ ticks \in Nat /\ kept \in Storage(Len(pairs))
    BY KeptType DEF BrowserInv, BrowserTypeOK
<1>2. Issue(n, ticks) /\ UNCHANGED <<ticks, tab>> /\ touched' = ticks
    BY DEF EnterSession
<1> DEFINE entered == [kept EXCEPT !.pair = n, !.last = ticks]
<1>3. entered \in Storage(n) /\ entered.last = ticks
    <2>1. entered \in Storage(n)
        BY <1>1 DEF Storage
    <2>2. entered.last = ticks
        BY <1>1 DEF Storage
    <2> QED
        BY <2>1, <2>2
<1>4. kept' = Started(entered, ticks)
    BY DEF EnterSession
<1> HIDE DEF entered
<1>5. kept' \in Storage(n) /\ kept'.last = ticks
    BY <1>1, <1>3, <1>4, StartedType
<1> QED
    BY <1>1, <1>2, <1>5, StoresKeeps

LEMMA UpgradeKeeps ==
    ASSUME BrowserInv, NEW w \in Tabs, UpgradeSession(w)
    PROVE  BrowserInv'
<1> DEFINE n == Len(pairs) + 1
<1>1. n \in Nat /\ Len(pairs) \in Nat /\ n \in 0 .. n /\ ticks \in Nat /\ kept \in Storage(Len(pairs))
    BY KeptType DEF BrowserInv, BrowserTypeOK
<1>2. /\ kept.pair \in DOMAIN pairs /\ Issue(Session.session, Session.since)
      /\ UNCHANGED <<ticks, tab>> /\ touched' = ticks
    BY KeptType DEF UpgradeSession, BrowserInv
<1>3. Session.session \in Nat /\ Session.since \in Nat /\ Session.at \in Nat
    BY <1>2, KeptType DEF BrowserInv, Session
<1>4. kept' \in Storage(n) /\ kept'.last = ticks
    <2>1. kept' = [kept EXCEPT !.pair = n, !.last = ticks]
        BY DEF UpgradeSession
    <2>2. kept' \in Storage(n)
        BY <1>1, <2>1 DEF Storage
    <2>3. kept'.last = ticks
        BY <1>1, <2>1 DEF Storage
    <2> QED
        BY <2>2, <2>3
<1>5. Session.since <= ticks
    BY <1>1, <1>2, <1>3 DEF BrowserInv, SessionInv, Session
<1> QED
    BY <1>1, <1>2, <1>3, <1>4, <1>5, StoresKeeps DEF Session

LEMMA TouchKeeps ==
    ASSUME BrowserInv, NEW w \in Tabs, Touch(w)
    PROVE  BrowserInv'
<1>1. Len(pairs) \in Nat /\ ticks \in Nat /\ kept \in Storage(Len(pairs))
    BY KeptType DEF BrowserInv, BrowserTypeOK
<1>2. kept' \in Storage(Len(pairs)) /\ kept'.last = ticks
    BY <1>1, TouchedType DEF Touch
<1>3. UNCHANGED <<ticks, pairs, tab>> /\ touched' = ticks
    BY DEF Touch
<1>4. BrowserTypeOK'
    BY <1>1, <1>2, <1>3 DEF BrowserInv, BrowserTypeOK
<1>5. SessionInv'
    BY <1>1, <1>2, <1>3, NoIssueKeeps
<1> QED
    BY <1>4, <1>5 DEF BrowserInv

LEMMA TickKeeps ==
    ASSUME BrowserInv, Tick
    PROVE  BrowserInv'
<1>1. ticks' \in Nat /\ ticks' >= ticks /\ UNCHANGED <<kept, pairs, tab, touched>>
    BY DEF BrowserInv, BrowserTypeOK, Tick
<1>2. BrowserTypeOK'
    BY <1>1 DEF BrowserInv, BrowserTypeOK
<1>3. SessionInv'
    BY <1>1, NoIssueKeeps DEF BrowserInv, SessionInv
<1> QED
    BY <1>2, <1>3 DEF BrowserInv

\* A tab asks to renew when its pair has expired: the pair's session began no later.
LEMMA AskKeeps ==
    ASSUME BrowserInv, NEW w \in Tabs, Ask(w)
    PROVE  BrowserInv'
<1> DEFINE doing == [at |-> "refused", session |-> Session.session]
<1>1. /\ kept.pair \in DOMAIN pairs /\ Expired(kept.pair)
      /\ Turn(w, doing) /\ UNCHANGED <<ticks, kept, pairs, touched>>
    BY KeptType DEF Ask, BrowserInv
<1>2. /\ Session.session \in 1 .. Len(pairs) /\ Session.session \in Nat
      /\ pairs[kept.pair].since \in Nat /\ pairs[kept.pair].at \in Nat /\ ticks \in Nat
    BY <1>1, KeptType DEF BrowserInv, BrowserTypeOK, SessionInv, Session
<1>3. doing \in Refused /\ doing.at = "refused" /\ doing.session = Session.session
    BY <1>2 DEF Refused
<1> HIDE DEF doing
<1>4. /\ tab' \in [Tabs -> {Browsing, Shut} \cup Refused \cup Renewing \cup Leaving]
      /\ tab'[w] = doing
      /\ \A v \in Tabs \ {w} : tab'[v] = tab[v]
    BY <1>1, <1>3, TurnsType DEF BrowserInv
<1>5. ticks - pairs[kept.pair].since >= HourTicks
    BY <1>1, <1>2, BrowserAssumption DEF Expired, BrowserInv, SessionInv
<1>6. \A i \in DOMAIN pairs : pairs[i].session = Session.session => ticks - pairs[i].since >= HourTicks
    BY <1>1, <1>5 DEF BrowserInv, SessionInv, Session
<1>7. BrowserTypeOK'
    BY <1>1, <1>3, <1>4 DEF BrowserInv, BrowserTypeOK
<1>8. \A v \in Tabs, i \in DOMAIN pairs : DealsWith(v, pairs[i].session)' => ticks - pairs[i].since >= HourTicks
    BY <1>1, <1>3, <1>4, <1>6 DEF BrowserInv, SessionInv, DealsWith
<1>9. SessionInv'
    BY <1>1, <1>2, <1>3, <1>4, <1>8 DEF BrowserInv, SessionInv
<1> QED
    BY <1>7, <1>9 DEF BrowserInv

LEMMA ReadPairKeeps ==
    ASSUME BrowserInv, NEW w \in Tabs, ReadPair(w)
    PROVE  BrowserInv'
<1>1. CASE SignedIn
    <2> DEFINE doing == [at |-> "renewing", session |-> tab[w].session, pair |-> kept.pair]
    <2>1. /\ kept.pair \in DOMAIN pairs /\ kept.pair \in Nat
          /\ tab[w].at = "refused" /\ tab[w].session \in Nat
          /\ Turn(w, doing) /\ UNCHANGED <<ticks, kept, pairs, touched>>
        BY <1>1, KeptType, TabType DEF ReadPair, BrowserInv, IsIn
    <2>2. /\ doing \in Renewing /\ doing.at = "renewing" /\ doing.session = tab[w].session
          /\ doing.pair = kept.pair
        BY <2>1 DEF Renewing
    <2> HIDE DEF doing
    <2>3. /\ tab' \in [Tabs -> {Browsing, Shut} \cup Refused \cup Renewing \cup Leaving]
          /\ tab'[w] = doing
          /\ \A v \in Tabs \ {w} : tab'[v] = tab[v]
        BY <2>1, <2>2, TurnsType DEF BrowserInv
    <2>4. BrowserTypeOK'
        BY <2>1, <2>2, <2>3 DEF BrowserInv, BrowserTypeOK
    <2>5. \A v \in Tabs, i \in DOMAIN pairs : DealsWith(v, pairs[i].session)' => DealsWith(v, pairs[i].session)
        BY <2>1, <2>2, <2>3 DEF DealsWith
    <2>6. SessionInv'
        BY <2>1, <2>2, <2>3, <2>5 DEF BrowserInv, SessionInv
    <2> QED
        BY <2>4, <2>6 DEF BrowserInv
<1>2. CASE ~SignedIn
    BY <1>2, TurnKeeps DEF ReadPair, BrowserInv, BrowserTypeOK, SessionInv
<1> QED
    BY <1>1, <1>2

LEMMA RenewedKeeps ==
    ASSUME BrowserInv, NEW w \in Tabs, Renewed(w)
    PROVE  BrowserInv'
<1> DEFINE n == Len(pairs) + 1
           pair == pairs[tab[w].pair]
<1>1. tab[w].pair \in DOMAIN pairs
    BY TabType DEF Renewed, IsIn, BrowserInv
<1>2. n \in Nat /\ Len(pairs) \in Nat /\ n \in 0 .. n /\ ticks \in Nat /\ kept \in Storage(Len(pairs)) /\ touched \in Nat
    BY KeptType DEF BrowserInv, BrowserTypeOK
<1>3. pair.session \in Nat /\ pair.since \in Nat /\ pair.at \in Nat /\ pair.since <= ticks
    BY <1>1, <1>2, KeptType DEF BrowserInv, SessionInv
<1>4. /\ Issue(pair.session, pair.since) /\ Turn(w, Browsing) /\ UNCHANGED <<ticks, touched>>
      /\ kept' = Started([kept EXCEPT !.pair = n], ticks)
    BY DEF Renewed
<1>5. [kept EXCEPT !.pair = n] \in Storage(n) /\ [kept EXCEPT !.pair = n].last = kept.last
    BY <1>2, PairStoredType
<1>6. kept' \in Storage(n) /\ kept'.last = kept.last
    BY <1>2, <1>4, <1>5, StartedType
<1>7. kept'.last # Unset => kept'.last = touched'
    BY <1>4, <1>6 DEF BrowserInv, SessionInv
<1> QED
    BY <1>1, <1>2, <1>3, <1>4, <1>6, <1>7, StoresKeeps

\* The sessions of the pairs, the tabs at a 401 and the storage agree in every
\* reachable state.
THEOREM SessionsInvariant == BrowserSpec => []BrowserInv
<1>1. BrowserInit => BrowserInv
    <2> SUFFICES ASSUME BrowserInit PROVE BrowserInv
        OBVIOUS
    <2>1. pairs \in Seq(Pair) /\ Len(pairs) = 0 /\ DOMAIN pairs = {}
        BY DEF BrowserInit
    <2>2. \A w \in Tabs : tab[w].at = "shut"
        BY DEF BrowserInit, Shut
    <2>3. kept \in Storage(0) /\ kept.last = Unset
        BY DEF BrowserInit, Nothing, Storage, NoPair
    <2>4. BrowserTypeOK
        BY <2>1, <2>2, <2>3 DEF BrowserInit, BrowserTypeOK
    <2>5. SessionInv
        BY <2>1, <2>2, <2>3 DEF SessionInv, DealsWith
    <2> QED
        BY <2>4, <2>5 DEF BrowserInv
<1>2. BrowserInv /\ [BrowserNext]_browserVars => BrowserInv'
    <2> SUFFICES ASSUME BrowserInv, [BrowserNext]_browserVars PROVE BrowserInv'
        OBVIOUS
    <2>1. CASE Tick
        BY <2>1, TickKeeps
    <2>2. ASSUME NEW w \in Tabs,
                 \/ OpenTab(w) \/ CloseTab(w) \/ EnterSession(w) \/ UpgradeSession(w) \/ Touch(w)
                 \/ Ask(w) \/ ReadPair(w) \/ Renewed(w) \/ Rejected(w)
                 \/ TimerFires(w) \/ LogOut(w) \/ Leave(w)
          PROVE  BrowserInv'
        BY <2>2, ComingAndGoingKeeps, EnterKeeps, UpgradeKeeps, TouchKeeps, AskKeeps, ReadPairKeeps,
           RenewedKeeps
    <2>3. CASE UNCHANGED browserVars
        BY <2>3 DEF browserVars, BrowserInv, BrowserTypeOK, SessionInv, DealsWith
    <2> QED
        BY <2>1, <2>2, <2>3 DEF BrowserNext
<1> QED
    BY <1>1, <1>2, PTL DEF BrowserSpec

\* A session in use goes on for its hour, but for a SESSION_START that an earlier
\* session left and a 401 that was an earlier session's (AuthContext.tsx 85-97,
\* 162-174, client.ts 44-93).
THEOREM UsedSessionsGoOn == BrowserSpec => SessionGoesOn
<1>1. BrowserInv /\ [BrowserNext]_browserVars =>
        [\A w \in Tabs :
            /\ TimerFires(w) =>
                 \/ IsOld \/ ticks - touched >= IdleTicks
                 \/ kept.start < Session.since /\ ticks - kept.start >= HourTicks
            /\ (Rejected(w) /\ SignedIn) =>
                 IsOld \/ tab[w].session # Session.session]_browserVars
    <2> SUFFICES ASSUME BrowserInv, NEW w \in Tabs
                 PROVE  /\ TimerFires(w) =>
                             \/ IsOld \/ ticks - touched >= IdleTicks
                             \/ kept.start < Session.since /\ ticks - kept.start >= HourTicks
                        /\ (Rejected(w) /\ SignedIn) =>
                             IsOld \/ tab[w].session # Session.session
        OBVIOUS
    <2>1. /\ ticks \in Nat /\ touched \in Nat /\ kept.start \in Int /\ kept.last \in Int
          /\ SignedIn => kept.pair \in DOMAIN pairs /\ Session.since \in Nat
        BY KeptType DEF BrowserInv, BrowserTypeOK, Session
    <2>2. ASSUME TimerFires(w)
          PROVE  \/ IsOld \/ ticks - touched >= IdleTicks
                 \/ kept.start < Session.since /\ ticks - kept.start >= HourTicks
        BY <2>1, <2>2, BrowserAssumption DEF TimerFires, BrowserInv, SessionInv, IsOld
    <2>3. ASSUME Rejected(w), SignedIn, tab[w].session = Session.session PROVE IsOld
        BY <2>1, <2>3 DEF Rejected, IsIn, BrowserInv, SessionInv, DealsWith, IsOld, Session
    <2> QED
        BY <2>2, <2>3
<1> QED
    BY <1>1, SessionsInvariant, PTL DEF BrowserSpec, SessionGoesOn
=============================================================================
