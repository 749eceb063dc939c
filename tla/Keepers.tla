-------------------------------- MODULE Keepers --------------------------------
(* Auto trading: a run of the keeper buys for every enrolled wallet, an        *)
(* administrator's "Trade Now" for one. Both send transactions with the same   *)
(* executor and record what became of them in the run's attempts. Several runs *)
(* may be under way: the period's timer, a job worker and administrators.      *)
EXTENDS Integers, Sequences, FiniteSets

CONSTANTS
    Enrolled,   \* wallets of the users with autoTradeBotEnabled, in order
    MaxRuns,
    MaxTrades,  \* purchases of one runBot
    Room,       \* purchases that limit, balance and allowance of a wallet allow
    MaxFaults   \* lost answers, refused writes, stops of the process and changes of mind

Wallets == {Enrolled[i] : i \in DOMAIN Enrolled}

\* A user is listed once, and has one primary wallet.
ASSUME KeepersAssumption ==
    /\ Enrolled \in Seq(Wallets)
    /\ \A i, j \in DOMAIN Enrolled : Enrolled[i] = Enrolled[j] => i = j
    /\ MaxRuns \in Nat /\ MaxTrades \in Nat \ {0} /\ Room \in Nat /\ MaxFaults \in Nat

VARIABLES
    executor,   \* the key is the marketplace's "owner" or a "bot" of its
    fallback,   \* ADMIN_MANUAL_TRADE_PRIMARY_FALLBACK
    willing,    \* botEnabled on chain, and the account is active
    room,
    runs,       \* BotPurchaseRun with its BotPurchaseAttempts
    txs,        \* transactions sent
    keeper,     \* run |-> what its call is doing
    missed,     \* history: transactions whose hash or receipt was lost, or row refused
    cut,        \* history: runs that were left without a last write
    faults

chainVars == <<executor, fallback, willing, room>>
keeperVars == <<chainVars, runs, txs, keeper, missed, cut, faults>>

Done == [at |-> "done"]
At(r, stage) == keeper[r].at = stage
Goes(r, stage) == keeper' = [keeper EXCEPT ![r].at = stage]
Awaiting(r) == At(r, "receipt") \/ At(r, "bought")
IsManual(r) == runs[r].kind = "manual"
Fault == faults < MaxFaults /\ faults' = faults + 1
-----------------------------------------------------------------------------
(* The chain. *)

SetUserBot(u) ==
    /\ Fault
    /\ willing' = [willing EXCEPT ![u] = ~@]
    /\ UNCHANGED <<executor, fallback, room, runs, txs, keeper, missed, cut>>

\* runBot breaks off where limit, balance or allowance end, botBuy reverts
\* there; either reverts if the wallet has left, or if a purchase does.
Buyable(t) ==
    LET most == IF txs[t].call = "runBot" THEN MaxTrades ELSE 1
        left == room[txs[t].user]
    IN  IF willing[txs[t].user] THEN {0, IF most < left THEN most ELSE left} ELSE {0}

Mine(t) ==
    /\ ~txs[t].mined
    /\ \E n \in Buyable(t) :
        /\ txs' = [txs EXCEPT ![t].mined = TRUE, ![t].bought = n]
        /\ room' = [room EXCEPT ![txs[t].user] = @ - n]
    /\ UNCHANGED <<executor, fallback, willing, runs, keeper, missed, cut, faults>>
-----------------------------------------------------------------------------
(* One transaction of a run: runBotForWallet and runManualBotBuy. *)

\* runBot is the owner's alone; botBuy is a bot's as well. (getKeeperClients lets
\* the owner register itself as a bot first, and throws for any other key.)
MayCall(call) == executor = "owner" \/ call = "botBuy"

\* The node estimates the call before it is sent, so one that would revert
\* fails before.
Estimates(r) ==
    /\ MayCall(keeper[r].call) /\ willing[keeper[r].user]
    /\ keeper[r].call = "botBuy" => room[keeper[r].user] > 0

Send(r) ==
    /\ At(r, "send") /\ Estimates(r)
    /\ txs' = Append(txs, [run |-> r, user |-> keeper[r].user, call |-> keeper[r].call,
                           mined |-> FALSE, bought |-> 0])
    /\ \/ /\ keeper' = [keeper EXCEPT ![r].at = "receipt", ![r].tx = Len(txs) + 1]
          /\ UNCHANGED <<missed, faults>>
       \/ /\ Fault                      \* sent, but the answer is lost
          /\ Goes(r, "failed")
          /\ missed' = missed \cup {Len(txs) + 1}
    /\ UNCHANGED <<chainVars, runs, cut>>

\* The estimate reverts, the market is paused, or the nonce went to another run.
Refused(r) ==
    /\ At(r, "send")
    /\ Goes(r, "failed")
    /\ UNCHANGED <<chainVars, runs, txs, missed, cut, faults>>

\* Whether the transaction succeeded, and what it bought, is not looked at.
Receipt(r) ==
    /\ At(r, "receipt") /\ txs[keeper[r].tx].mined
    /\ keeper' = [keeper EXCEPT ![r].at = "bought", ![r].successes = @ + 1]
    /\ UNCHANGED <<chainVars, runs, txs, missed, cut, faults>>

\* waitForTransactionReceipt throws after a while.
GiveUp(r) ==
    /\ At(r, "receipt")
    /\ Goes(r, "failed")
    /\ missed' = missed \cup {keeper[r].tx}
    /\ UNCHANGED <<chainVars, runs, txs, cut, faults>>
-----------------------------------------------------------------------------
(* The rows of a run. *)

AttemptRow(r, status) ==
    [order |-> keeper[r].order, user |-> keeper[r].user, status |-> status,
     tx |-> IF status = "success" THEN keeper[r].tx ELSE 0]

\* @@unique([runId, sortOrder])
Taken(r) == \E a \in runs[r].attempts : a.order = keeper[r].order
Stored(r, status) ==
    runs' = [runs EXCEPT ![r].attempts = @ \cup {AttemptRow(r, status)}]

Records(r, status) == ~Taken(r) /\ Stored(r, status)

\* The write throws: refused, of a row that is there already, or committed with
\* its answer lost.
WriteThrows(r, status) ==
    \/ Taken(r) /\ UNCHANGED <<runs, faults>>
    \/ Fault /\ UNCHANGED runs
    \/ Fault /\ Records(r, status)

\* A success is recorded inside the try whose catch records a failure.
RecordSuccess(r) ==
    /\ At(r, "bought")
    /\ \/ Records(r, "success") /\ Goes(r, "next") /\ UNCHANGED <<missed, faults>>
       \/ /\ WriteThrows(r, "success")
          /\ Goes(r, "failed")
          /\ missed' = missed \cup {keeper[r].tx}
    /\ UNCHANGED <<chainVars, txs, cut>>

\* "Trade Now" then buys one NFT by botBuy if so configured.
FallBack(r) ==
    /\ At(r, "failed")
    /\ IsManual(r) /\ fallback /\ keeper[r].call = "runBot"
    /\ keeper' = [keeper EXCEPT ![r].at = "send", ![r].call = "botBuy"]
    /\ UNCHANGED <<chainVars, runs, txs, missed, cut, faults>>

RecordFailure(r) ==
    /\ At(r, "failed")
    /\ ~(IsManual(r) /\ fallback /\ keeper[r].call = "runBot")
    /\ \/ /\ Records(r, "failed") /\ UNCHANGED faults
          /\ keeper' = [keeper EXCEPT ![r].at = "next", ![r].failures = @ + 1]
       \/ WriteThrows(r, "failed") /\ Goes(r, "abort")
    /\ UNCHANGED <<chainVars, txs, missed, cut>>

RecordSkip(r) ==
    /\ At(r, "skip")
    /\ \/ Records(r, "skipped") /\ Goes(r, "next") /\ UNCHANGED faults
       \/ WriteThrows(r, "skipped") /\ Goes(r, "abort")
    /\ UNCHANGED <<chainVars, txs, missed, cut>>
-----------------------------------------------------------------------------
(* A run: runSequentialResaleBot and runManualTradeForUser. *)

Begin(kind, wallets) ==
    /\ Len(runs) < MaxRuns
    /\ runs' = Append(runs, [kind |-> kind, status |-> "running", attempts |-> {}])
    /\ keeper' = Append(keeper,
                    [at |-> "list", todo |-> wallets, user |-> "none", order |-> 0,
                     call |-> "runBot", tx |-> 0, successes |-> 0, failures |-> 0])
    /\ UNCHANGED <<chainVars, txs, missed, cut, faults>>

RunForAll == Begin("scheduled", Enrolled)
TradeNow(u) == Begin("manual", <<u>>)

\* The users are listed; "Trade Now" looks for its user's wallet before its try.
LookUp(r) ==
    /\ At(r, "list")
    /\ \/ Goes(r, "next") /\ UNCHANGED <<cut, faults>>
       \/ /\ Fault
          /\ IF IsManual(r)
             THEN keeper' = [keeper EXCEPT ![r] = Done] /\ cut' = cut \cup {r}
             ELSE Goes(r, "abort") /\ UNCHANGED cut
    /\ UNCHANGED <<chainVars, runs, txs, missed>>

\* "Trade Now" for a user without a primary wallet: a row, then the run's end.
Unlinked(r) ==
    /\ At(r, "list") /\ IsManual(r)
    /\ LET row == [order |-> 1, user |-> Head(keeper[r].todo), status |-> "skipped", tx |-> 0]
            skipped == [runs EXCEPT ![r].attempts = {row}]
        IN  \/ /\ runs' = [skipped EXCEPT ![r].status = "completed"]
               /\ UNCHANGED <<cut, faults>>
            \/ /\ Fault
               /\ runs' \in {runs, skipped}
               /\ cut' = cut \cup {r}
    /\ keeper' = [keeper EXCEPT ![r] = Done]
    /\ UNCHANGED <<chainVars, txs, missed>>

Bug_StaysListed(r) ==
    IF keeper[r].order < Len(Enrolled) THEN keeper[r].todo ELSE <<>>
Remaining(r) == Tail(keeper[r].todo)

\* isBotEligibleWallet; a user without a primary wallet is skipped as well.
Choose(r) ==
    /\ At(r, "next") /\ keeper[r].todo # <<>>
    /\ LET u == Head(keeper[r].todo) IN
        \E stage \in (IF willing[u] THEN {"send", "skip"} ELSE {"skip"}) :
            keeper' = [keeper EXCEPT ![r] =
                          [keeper[r] EXCEPT !.at = stage, !.todo = Remaining(r), !.user = u,
                                            !.order = @ + 1, !.call = "runBot"]]
    /\ UNCHANGED <<chainVars, runs, txs, missed, cut, faults>>

\* A scheduled run is completed whatever became of its attempts.
Verdict(r) ==
    IF IsManual(r) /\ keeper[r].failures > 0 /\ keeper[r].successes = 0
    THEN "failed" ELSE "completed"

Ends(r, status) ==
    /\ runs' = [runs EXCEPT ![r].status = status]
    /\ keeper' = [keeper EXCEPT ![r] = Done]

Finish(r) ==
    /\ At(r, "next") /\ keeper[r].todo = <<>>
    /\ \/ Ends(r, Verdict(r)) /\ UNCHANGED faults
       \/ Fault /\ Goes(r, "abort") /\ UNCHANGED runs
    /\ UNCHANGED <<chainVars, txs, missed, cut>>

Bug_RethrowsOnly(r) ==
    /\ At(r, "abort")
    /\ keeper' = [keeper EXCEPT ![r] = Done]
    /\ UNCHANGED <<chainVars, runs, txs, missed, cut, faults>>

\* The catch around the run; nothing follows if its own write fails.
Abort(r) ==
    /\ At(r, "abort")
    /\ \/ Ends(r, "failed") /\ UNCHANGED <<cut, faults>>
       \/ /\ Fault
          /\ keeper' = [keeper EXCEPT ![r] = Done]
          /\ cut' = cut \cup {r}
          /\ UNCHANGED runs
    /\ UNCHANGED <<chainVars, txs, missed>>

\* Nothing resumes a run when the process starts again.
Stop ==
    /\ Fault
    /\ cut' = cut \cup {r \in DOMAIN runs : ~At(r, "done")}
    /\ missed' = missed \cup {keeper[r].tx : r \in {o \in DOMAIN runs : Awaiting(o)}}
    /\ keeper' = [r \in DOMAIN runs |-> Done]
    /\ UNCHANGED <<chainVars, runs, txs>>
-----------------------------------------------------------------------------
KeepersInit ==
    /\ executor \in {"owner", "bot"}
    /\ fallback \in BOOLEAN
    /\ willing = [u \in Wallets |-> TRUE]
    /\ room = [u \in Wallets |-> Room]
    /\ runs = <<>> /\ txs = <<>>
    /\ keeper = <<>>
    /\ missed = {} /\ cut = {} /\ faults = 0

Step(r) ==
    \/ LookUp(r) \/ Unlinked(r) \/ Choose(r) \/ Finish(r) \/ Abort(r)
    \/ Send(r) \/ Refused(r) \/ Receipt(r) \/ GiveUp(r)
    \/ RecordSuccess(r) \/ FallBack(r) \/ RecordFailure(r) \/ RecordSkip(r)

KeepersNext ==
    \/ RunForAll \/ (\E u \in Wallets : TradeNow(u))
    \/ \E r \in DOMAIN runs : Step(r)
    \/ \E u \in Wallets : SetUserBot(u)
    \/ \E t \in DOMAIN txs : Mine(t)
    \/ Stop

\* A call goes on: every request it awaits is answered or throws in the end.
\* The chain owes nothing.
KeepersFairness ==
    \A r \in 1 .. MaxRuns : WF_keeperVars(r \in DOMAIN runs /\ Step(r))
-----------------------------------------------------------------------------
Awaited(t) == \E r \in DOMAIN runs : Awaiting(r) /\ keeper[r].tx = t
HasRow(t) == \E a \in runs[txs[t].run].attempts : a.status = "success" /\ a.tx = t

\* What a run bought is in its rows, awaited or missed, and of two purchases of a
\* run for a wallet one was missed: an answer about it was lost, or the row that
\* should have told of it was refused. A refused row counts as a failed attempt,
\* and "Trade Now" buys again by botBuy although it knows the first one's hash
\* (resale-bot-keeper.service.ts 167-199, 345-381).
RowsTellTrades ==
    \A t \in DOMAIN txs : txs[t].bought > 0 =>
        /\ HasRow(t) \/ Awaited(t) \/ t \in missed
        /\ \A s \in DOMAIN txs :
             (s # t /\ txs[s].bought > 0 /\ txs[s].run = txs[t].run /\ txs[s].user = txs[t].user)
                => {s, t} \cap missed # {}

\* No run stays "running": it is completed or failed in the end, unless the
\* process stopped, or the write that ends it or "Trade Now"'s first look-up
\* failed (resale-bot-keeper.service.ts 202-237, 277-315, 430-460).
EveryRunEnds ==
    \A r \in 1 .. MaxRuns :
        (r \in DOMAIN runs) ~> (r \in DOMAIN runs /\ (runs[r].status # "running" \/ r \in cut))
=============================================================================
