------------------------------ MODULE Indexer ------------------------------
(***************************************************************************)
(* The chain indexer of the API                                            *)
(* (apps/api/src/modules/chain/chain-indexer.service.ts): it copies the    *)
(* events of Registration and NFTMarketplace into the database and derives *)
(* rows from them.  Several calls run interleaved: the timer's syncRange,  *)
(* the head window and the per-user backfill that page reads start, and    *)
(* the sync of one transaction after a purchase.  A call is a worker here, *)
(* and every database transaction, or group of adjacent reads, one step.   *)
(*                                                                         *)
(* Volume rows and verdicts have a second writer, the users themselves     *)
(* (trading.routes.ts): POST /trading/submit adds a row of any volume, and *)
(* the page of trades names such rows after purchases of that volume.      *)
(*                                                                         *)
(* One transaction per block, so a block number also stands for a          *)
(* transaction hash, and <<block, position>> for a log.                    *)
(***************************************************************************)
EXTENDS Naturals, Sequences, FiniteSets, SequencesExt, Sums

CONSTANTS
    Users,          \* the users, each with one wallet
    NoUser,
    Tokens,         \* NFT token ids
    NoToken,
    Tiers,          \* package ids that an active PackageTier row matches
    Required,       \* volume a tier asks for in a trading period
    TxMenu,         \* the event lists a transaction may emit
    MaxLogs,        \* bound: events of a transaction
    MaxBlock,       \* bound: blocks of the chain
    MaxPeriod,      \* bound: the last trading period
    Chunk,          \* blocks that one syncRange covers
    Lookback,       \* blocks that the head window looks back
    HeadChunk,      \* blocks that the head window reads at a time
    Workers,        \* calls that may be under way at the same time
    Requests,       \* requests of users that may be under way at the same time
    SubmitVolumes,  \* volumes that a user may submit
    MaxSubmits,     \* bound: submitted rows that have no transaction hash
    MaxRows,        \* bound: PackageActivation rows
    MaxFaults       \* bound: failed calls and process restarts

ASSUME BoundsAssumption ==
    /\ {MaxLogs, MaxBlock, Chunk, HeadChunk} \subseteq Nat \ {0}
    /\ {MaxPeriod, Lookback, MaxRows, MaxFaults, MaxSubmits} \subseteq Nat
    /\ SubmitVolumes \subseteq Nat
    /\ Required \in [Tiers -> Nat]
    /\ NoUser \notin Users
    /\ NoToken \notin Tokens

Kinds == {"Registered", "Activated", "Upgraded", "Purchased", "Listed"}
Event == [kind : Kinds, user : Users \cup {NoUser},
          token : Tokens \cup {NoToken}, price : Nat, package : Nat]

EventIds == (1 .. MaxBlock) \X (1 .. MaxLogs)

ASSUME MenuAssumption ==
    \A tx \in TxMenu :
        /\ tx \in Seq(Event) /\ Len(tx) <= MaxLogs
        /\ \A i \in DOMAIN tx :
               tx[i].kind \in {"Purchased", "Listed"} => tx[i].token \in Tokens

VARIABLES
    chain,          \* the blocks mined: their trading period and their events
    period,         \* the current trading period
    linked,         \* users with a WalletConnection row
    indexed,        \* ChainEvent: the logs stored
    cursor,         \* ChainSyncState.lastBlock
    record,         \* NFTRecord of a token: its user and currentValue
    rows,           \* TradingLog
    compliance,     \* DailyTradingCompliance.status of a user and a period
    acts,           \* PackageActivation, with its number of distributions
    worker,         \* the call each worker is in
    request,        \* the requests of users under way
    due,            \* purchases whose income call has not looked yet
    granting,       \* purchases whose income row is in, its grant is not
    sales,          \* NftSaleTradingIncome: the purchases with a row
    granted,        \* IncomeLedger: grants made for each purchase
    faults          \* failed calls and restarts so far

chainVars == <<chain, period, linked>>
marketVars == <<record, rows, compliance>>
incomeVars == <<due, granting, sales, granted>>
callVars == <<worker, request>>
vars == <<chainVars, indexed, cursor, marketVars, acts, callVars, incomeVars,
          faults>>

NoRecord == [user |-> NoUser, value |-> 0, burned |-> FALSE]
NoVerdict == "none"
Verdicts == {NoVerdict, "compliant", "non_compliant"}

Jobs == {"idle", "range", "head", "tx", "backfill", "registration", "mirror"}
Phases == {"look", "clear", "store", "check", "pay", "repair", "adopt",
           "measure", "judge", "burn"}

\* A worker between calls.  `user', `act', `current', `row' and `volume' are what
\* the call has read and still relies on; `new' marks a purchase it has just
\* stored.
Idle == [job |-> "idle", todo |-> <<>>, to |-> 0, phase |-> "look",
         user |-> NoUser, act |-> 0, current |-> {}, row |-> 0, volume |-> 0,
         new |-> FALSE]

Call == [job : Jobs, todo : Seq(EventIds), to : 0 .. MaxBlock, phase : Phases,
         user : Users \cup {NoUser}, act : 0 .. MaxRows,
         current : SUBSET (1 .. MaxRows), row : Nat, volume : Nat, new : BOOLEAN]

\* A request of a user: a submission that has added its row and goes on to the
\* verdict of its period, or a page of trades about to name a row after a log.
NoRequest == [phase |-> "idle", user |-> NoUser, act |-> 0, period |-> 0,
              volume |-> 0, row |-> 0, log |-> <<0, 0>>]
Request == [phase : {"idle", "measure", "judge", "burn", "name"},
            user : Users \cup {NoUser}, act : 0 .. MaxRows,
            period : 0 .. MaxPeriod, volume : Nat, row : Nat,
            log : EventIds \cup {<<0, 0>>}]

Activation == [user : Users, package : Tiers, tx : 0 .. MaxBlock,
               current : BOOLEAN, paid : Nat]
\* chainTxHash and relatedTokenId name the purchase a row stands for; a submitted
\* row has neither.
NoTx == 0
Row == [user : Users, tx : 0 .. MaxBlock, token : Tokens \cup {NoToken},
        act : 1 .. MaxRows, period : 0 .. MaxPeriod, volume : Nat]

TypeOK ==
    /\ chain \in Seq([period : 0 .. MaxPeriod, events : Seq(Event)])
    /\ period \in 0 .. MaxPeriod
    /\ linked \subseteq Users
    /\ indexed \subseteq EventIds
    /\ cursor \in 0 .. MaxBlock
    /\ record \in [Tokens -> [user : Users \cup {NoUser}, value : Nat,
                              burned : BOOLEAN]]
    /\ rows \in Seq(Row)
    /\ compliance \in [Users -> [0 .. MaxPeriod -> Verdicts]]
    /\ acts \in Seq(Activation) /\ Len(acts) <= MaxRows
    /\ worker \in [Workers -> Call]
    /\ request \in [Requests -> Request]
    /\ due \subseteq EventIds /\ granting \subseteq sales
    /\ sales \subseteq EventIds
    /\ granted \in [EventIds -> Nat]
    /\ faults \in 0 .. MaxFaults

Init ==
    /\ chain = <<>> /\ period = 0 /\ linked = {}
    /\ indexed = {} /\ cursor = 0
    /\ record = [t \in Tokens |-> NoRecord]
    /\ rows = <<>>
    /\ compliance = [u \in Users |-> [p \in 0 .. MaxPeriod |-> NoVerdict]]
    /\ acts = <<>>
    /\ worker = [w \in Workers |-> Idle]
    /\ request = [r \in Requests |-> NoRequest]
    /\ due = {} /\ granting = {} /\ sales = {}
    /\ granted = [e \in EventIds |-> 0]
    /\ faults = 0

(***************************************************************************)
(* The chain and the users.                                                *)
(***************************************************************************)

EventAt(e) == chain[e[1]].events[e[2]]
OnChain == {e \in EventIds : e[1] <= Len(chain) /\ e[2] <= Len(chain[e[1]].events)}

\* Registration activates a user once, and upgrades only the activated.
HasActivated(u) ==
    \E e \in OnChain : EventAt(e).kind = "Activated" /\ EventAt(e).user = u
Legal(tx) ==
    \A i \in DOMAIN tx : /\ tx[i].kind = "Activated" => ~HasActivated(tx[i].user)
                         /\ tx[i].kind = "Upgraded" => HasActivated(tx[i].user)

\* A transaction is mined; blocks already mined never change.
Mine(tx) ==
    /\ Len(chain) < MaxBlock
    /\ Legal(tx)
    /\ chain' = Append(chain, [period |-> period, events |-> tx])
    /\ UNCHANGED <<period, linked, indexed, cursor, marketVars, acts, callVars,
                   incomeVars, faults>>

\* A user signs in with the wallet for the first time.
LinkWallet(u) ==
    /\ u \notin linked
    /\ linked' = linked \cup {u}
    /\ UNCHANGED <<chain, period, indexed, cursor, marketVars, acts, callVars,
                   incomeVars, faults>>

NextPeriod ==
    /\ period < MaxPeriod
    /\ period' = period + 1
    /\ UNCHANGED <<chain, linked, indexed, cursor, marketVars, acts, callVars,
                   incomeVars, faults>>

\* Logs in the order of the chain.
Before(a, b) == a[1] < b[1] \/ (a[1] = b[1] /\ a[2] < b[2])
Rank(e, S) == Cardinality({x \in S : Before(x, e)})
InOrder(S) == [i \in 1 .. Cardinality(S) |-> CHOOSE e \in S : Rank(e, S) + 1 = i]

\* eth_getLogs of one event over a range of blocks.
LogsOf(kind, from, to) ==
    InOrder({e \in OnChain : e[1] \in from .. to /\ EventAt(e).kind = kind})

\* sellerOf(token) read at the block before the purchase: the last buyer.
SellerBefore(e) ==
    LET earlier == {x \in OnChain : /\ x[1] < e[1]
                                    /\ EventAt(x).kind = "Purchased"
                                    /\ EventAt(x).token = EventAt(e).token}
        latest == CHOOSE x \in earlier : \A y \in earlier : ~Before(x, y)
    IN  IF earlier = {} THEN NoUser ELSE EventAt(latest).user

(***************************************************************************)
(* The calls.                                                              *)
(***************************************************************************)

RegistrationLogs(from, to) ==
    LogsOf("Registered", from, to) \o LogsOf("Activated", from, to)
        \o LogsOf("Upgraded", from, to)

MarketplaceLogs(from, to) ==
    LogsOf("Purchased", from, to) \o LogsOf("Listed", from, to)

Lesser(a, b) == IF a <= b THEN a ELSE b

Begin(w, call) ==
    /\ worker[w].job = "idle"
    /\ worker' = [worker EXCEPT ![w] = call]
    /\ UNCHANGED <<chainVars, indexed, cursor, marketVars, acts, request,
                   incomeVars, faults>>

\* The 20 s timer, or an administrator, calls syncRange.
Bug_ShortRange == Lesser(cursor + Chunk - 1, Len(chain))
RangeEnd == Lesser(cursor + Chunk, Len(chain))
StartRange(w) ==
    /\ cursor < Len(chain)
    /\ Begin(w, [Idle EXCEPT
                   !.job = "range",
                   !.to = RangeEnd,
                   !.todo = RegistrationLogs(cursor + 1, RangeEnd)
                                \o MarketplaceLogs(cursor + 1, RangeEnd)])

\* A page read calls syncMarketplaceHeadWindow.
HeadLogs ==
    LET from == IF Len(chain) > Lookback THEN Len(chain) - Lookback ELSE 1
        chunks == (Len(chain) - from) \div HeadChunk + 1
        start(k) == from + (k - 1) * HeadChunk
    IN  FlattenSeq([k \in 1 .. chunks |->
            MarketplaceLogs(start(k), Lesser(start(k) + HeadChunk - 1, Len(chain)))])

StartHeadWindow(w) ==
    /\ chain # <<>>
    /\ Begin(w, [Idle EXCEPT !.job = "head", !.todo = HeadLogs])

\* The web app reports a purchase: syncMarketplaceTx, in the order of the receipt.
TxLogs(b) ==
    InOrder({e \in OnChain : e[1] = b /\ EventAt(e).kind \in {"Purchased", "Listed"}})

StartTx(w, b) ==
    /\ TxLogs(b) # <<>>
    /\ Begin(w, [Idle EXCEPT !.job = "tx", !.todo = TxLogs(b)])

\* backfillTradingLogsFromChainEventsForUser: the purchases stored for the user.
StoredPurchases(u) ==
    Reverse(InOrder({e \in OnChain \cap indexed : /\ EventAt(e).kind = "Purchased"
                                                 /\ EventAt(e).user = u}))

StartBackfill(w, u) ==
    /\ u \in linked
    /\ StoredPurchases(u) # <<>>
    /\ Begin(w, [Idle EXCEPT !.job = "backfill", !.todo = StoredPurchases(u)])

\* The call goes on with its next log; what it had read is forgotten.
AfterLog(w) == [Idle EXCEPT !.job = worker[w].job, !.to = worker[w].to,
                            !.todo = Tail(worker[w].todo)]
Current(w) == Head(worker[w].todo)
AtLog(w, phase) == worker[w].todo # <<>> /\ worker[w].phase = phase
Goto(w, call) == worker' = [worker EXCEPT ![w] = call] /\ UNCHANGED request

CurrentActs(u) == {i \in DOMAIN acts : acts[i].user = u /\ acts[i].current}
ActsOfTx(b) == {i \in DOMAIN acts : acts[i].tx = b}
SomeAct(S) == IF S = {} THEN 0 ELSE CHOOSE i \in S : \A j \in S : i <= j

HasTradingRow(u, e) ==
    \E i \in DOMAIN rows : /\ rows[i].user = u
                           /\ rows[i].tx = e[1]
                           /\ rows[i].token = EventAt(e).token

\* The user of a wallet, when somebody has linked it.
UserOf(wallet) == IF wallet \in linked THEN wallet ELSE NoUser

\* Adjacent reads, before a log is handled: is it stored, whose wallet is it,
\* which activation is current.  Only a stored purchase without a volume row is
\* looked at again; other stored logs are skipped.
Stored(w) == worker[w].job = "backfill" \/ Current(w) \in indexed
NeedsRepair(w) ==
    LET ev == EventAt(Current(w))
    IN  /\ ev.kind = "Purchased"
        /\ UserOf(ev.user) # NoUser
        /\ CurrentActs(UserOf(ev.user)) # {}
        /\ ~HasTradingRow(UserOf(ev.user), Current(w))

SkipStored(w) ==
    /\ AtLog(w, "look")
    /\ Stored(w) /\ ~NeedsRepair(w)
    /\ Goto(w, AfterLog(w))
    /\ UNCHANGED <<chainVars, indexed, cursor, marketVars, acts, incomeVars,
                   faults>>

LookAgain(w) ==
    LET user == UserOf(EventAt(Current(w)).user)
    IN  /\ AtLog(w, "look")
        /\ Stored(w) /\ NeedsRepair(w)
        /\ Goto(w, [worker[w] EXCEPT !.phase = "repair", !.user = user,
                                     !.act = SomeAct(CurrentActs(user))])
        /\ UNCHANGED <<chainVars, indexed, cursor, marketVars, acts, incomeVars,
                       faults>>

\* repairTradingLogChainTxFromIndexedEvent first takes a row of the user without
\* a hash for this purchase, when its volume is the price and it was created
\* about when the log was stored (any time, here).  The backfill does not.
Nameless(i, u, e) ==
    /\ rows[i].user = u /\ rows[i].tx = NoTx
    /\ rows[i].volume = EventAt(e).price /\ rows[i].volume > 0

FindRow(w) ==
    LET e == Current(w)
        user == UserOf(EventAt(e).user)
    IN  /\ AtLog(w, "look")
        /\ Stored(w) /\ worker[w].job # "backfill"
        /\ EventAt(e).kind = "Purchased"
        /\ \E i \in DOMAIN rows :
               /\ Nameless(i, user, e)
               /\ Goto(w, [worker[w] EXCEPT !.phase = "adopt", !.user = user,
                                            !.row = i])
        /\ UNCHANGED <<chainVars, indexed, cursor, marketVars, acts, incomeVars,
                       faults>>

LookMarket(w) ==
    LET user == UserOf(EventAt(Current(w)).user)
    IN  /\ AtLog(w, "look")
        /\ ~Stored(w)
        /\ EventAt(Current(w)).kind \in {"Purchased", "Listed"}
        /\ Goto(w, [worker[w] EXCEPT !.phase = "store", !.user = user,
                                     !.act = SomeAct(CurrentActs(user))])
        /\ UNCHANGED <<chainVars, indexed, cursor, marketVars, acts, incomeVars,
                       faults>>

\* An Activated or Upgraded log of an unknown wallet or package is stored and
\* nothing else; for a known one `act' is the activation its transaction already
\* has, if any.
LookPackage(w) ==
    LET ev == EventAt(Current(w))
        known == UserOf(ev.user) # NoUser /\ ev.package \in Tiers
        dup == SomeAct(ActsOfTx(Current(w)[1]))
    IN  /\ AtLog(w, "look")
        /\ ~Stored(w)
        /\ ev.kind \in {"Registered", "Activated", "Upgraded"}
        /\ Goto(w, IF ev.kind # "Registered" /\ known
                   THEN [worker[w] EXCEPT !.phase = IF dup = 0 THEN "clear" ELSE "store",
                                          !.user = ev.user, !.act = dup]
                   ELSE [worker[w] EXCEPT !.phase = "store"])
        /\ UNCHANGED <<chainVars, indexed, cursor, marketVars, acts, incomeVars,
                       faults>>

(***************************************************************************)
(* Purchases and listings.                                                 *)
(***************************************************************************)

\* persistListed: the record, when there is one, takes the asked price.
StoreListed(w) ==
    LET ev == EventAt(Current(w))
    IN  /\ AtLog(w, "store")
        /\ ev.kind = "Listed"
        /\ record' = IF record[ev.token].user = NoUser THEN record
                     ELSE [record EXCEPT ![ev.token].value = ev.price]
        /\ indexed' = indexed \cup {Current(w)}
        /\ Goto(w, AfterLog(w))
        /\ UNCHANGED <<chainVars, cursor, rows, compliance, acts, incomeVars,
                       faults>>

\* createTradingLogIdempotent: TradingLog is unique in (userId, chainTxHash,
\* relatedTokenId).
TradingRow(u, a, e) ==
    [user |-> u, tx |-> e[1], token |-> EventAt(e).token, act |-> a,
     period |-> chain[e[1]].period, volume |-> EventAt(e).price]
Bug_RowAlways(u, a, e) == Append(rows, TradingRow(u, a, e))
WithTradingRow(u, a, e) ==
    IF HasTradingRow(u, e) THEN rows ELSE Append(rows, TradingRow(u, a, e))

\* Without a current activation there is no volume row and nothing to evaluate.
CountsVolume(call) == call.act # 0

\* The transaction of persistPurchased: owner, volume row and log together.
\* For a wallet nobody has linked the log alone is stored.
StorePurchase(w) ==
    LET e == Current(w)
        ev == EventAt(e)
        call == worker[w]
    IN  /\ AtLog(w, "store")
        /\ ev.kind = "Purchased"
        /\ record' = IF call.user = NoUser THEN record
                     ELSE [record EXCEPT ![ev.token] =
                             [@ EXCEPT !.user = call.user, !.value = ev.price]]
        /\ rows' = IF CountsVolume(call) THEN WithTradingRow(call.user, call.act, e)
                   ELSE rows
        /\ indexed' = indexed \cup {e}
        /\ due' = IF CountsVolume(call) THEN due ELSE due \cup {e}
        /\ Goto(w, IF CountsVolume(call)
                   THEN [call EXCEPT !.phase = "measure", !.new = TRUE]
                   ELSE AfterLog(w))
        /\ UNCHANGED <<chainVars, cursor, compliance, acts, granting, sales,
                       granted, faults>>

\* ensureTradingLogFromChainEventIfMissing, for a stored purchase.
Repair(w) ==
    /\ AtLog(w, "repair")
    /\ rows' = WithTradingRow(worker[w].user, worker[w].act, Current(w))
    /\ Goto(w, [worker[w] EXCEPT !.phase = "measure"])
    /\ UNCHANGED <<chainVars, indexed, cursor, record, compliance, acts,
                   incomeVars, faults>>

\* The row found is named after the purchase, whatever became of it meanwhile.
\* When the purchase has its row, the unique key refuses and the error is caught.
Named(i, u, e) ==
    IF HasTradingRow(u, e) THEN rows
    ELSE [rows EXCEPT ![i] = [@ EXCEPT !.tx = e[1], !.token = EventAt(e).token]]

AdoptRow(w) ==
    /\ AtLog(w, "adopt")
    /\ rows' = Named(worker[w].row, worker[w].user, Current(w))
    /\ Goto(w, AfterLog(w))
    /\ UNCHANGED <<chainVars, indexed, cursor, record, compliance, acts,
                   incomeVars, faults>>

VolumeIn(u, p) ==
    SumOver({i \in DOMAIN rows : rows[i].user = u /\ rows[i].period = p},
            [i \in DOMAIN rows |-> rows[i].volume])

\* The aggregate of the period's volume, if the purchase falls in the current
\* one.  The income call that a new purchase starts comes last.
Measure(w) ==
    LET e == Current(w)
        inPeriod == chain[e[1]].period = period
    IN  /\ AtLog(w, "measure")
        /\ due' = IF worker[w].new /\ ~inPeriod THEN due \cup {e} ELSE due
        /\ Goto(w, IF inPeriod
                   THEN [worker[w] EXCEPT !.phase = "judge",
                                          !.volume = VolumeIn(worker[w].user, period)]
                   ELSE AfterLog(w))
        /\ UNCHANGED <<chainVars, indexed, cursor, marketVars, acts, granting,
                       sales, granted, faults>>

\* TradingComplianceService.evaluateDay, with the default of 50 percent: the
\* verdict is written, and then, when it is non_compliant, the user's records are
\* burned.  (The count of misses beside the verdict is only shown on a page.)
Bug_AnyVolume(volume, required) == volume > 0
Meets(volume, required) == 2 * volume >= required

WithVerdict(u, p, met) ==
    [compliance EXCEPT ![u][p] = IF met THEN "compliant" ELSE "non_compliant"]

WithBurned(u) ==
    [t \in Tokens |-> IF record[t].user = u THEN [record[t] EXCEPT !.burned = TRUE]
                      ELSE record[t]]

Judge(w) ==
    LET e == Current(w)
        call == worker[w]
        met == Meets(call.volume, Required[acts[call.act].package])
    IN  /\ AtLog(w, "judge")
        /\ compliance' = WithVerdict(call.user, chain[e[1]].period, met)
        /\ due' = IF met /\ call.new THEN due \cup {e} ELSE due
        /\ Goto(w, IF met THEN AfterLog(w) ELSE [call EXCEPT !.phase = "burn"])
        /\ UNCHANGED <<chainVars, indexed, cursor, record, rows, acts, granting,
                       sales, granted, faults>>

BurnRecords(w) ==
    /\ AtLog(w, "burn")
    /\ record' = WithBurned(worker[w].user)
    /\ due' = IF worker[w].new THEN due \cup {Current(w)} ELSE due
    /\ Goto(w, AfterLog(w))
    /\ UNCHANGED <<chainVars, indexed, cursor, rows, compliance, acts, granting,
                   sales, granted, faults>>

(***************************************************************************)
(* The requests of users.                                                  *)
(***************************************************************************)

\* POST /trading/submit: the volume, the date and the activation, whoever's it
\* is, are the caller's own words.
SubmittedRow(u, i, p, v) ==
    [user |-> u, tx |-> NoTx, token |-> NoToken, act |-> i, period |-> p,
     volume |-> v]

SubmitRow(r, u, i, p, v) ==
    /\ request[r] = NoRequest
    /\ Cardinality({k \in DOMAIN rows : rows[k].tx = NoTx}) < MaxSubmits
    /\ rows' = Append(rows, SubmittedRow(u, i, p, v))
    /\ request' = [request EXCEPT ![r] =
           [NoRequest EXCEPT !.phase = "measure", !.user = u, !.act = i, !.period = p]]
    /\ UNCHANGED <<chainVars, indexed, cursor, record, compliance, acts, worker,
                   incomeVars, faults>>

\* The request goes on: nothing but its own record changes.
Proceed(r, next) ==
    /\ request' = [request EXCEPT ![r] = next]
    /\ UNCHANGED <<chainVars, indexed, cursor, acts, worker, incomeVars, faults>>

SubmitMeasure(r) ==
    /\ request[r].phase = "measure"
    /\ Proceed(r, [request[r] EXCEPT
                      !.phase = "judge",
                      !.volume = VolumeIn(request[r].user, request[r].period)])
    /\ UNCHANGED marketVars

SubmitJudge(r) ==
    LET call == request[r]
        met == Meets(call.volume, Required[acts[call.act].package])
    IN  /\ call.phase = "judge"
        /\ compliance' = WithVerdict(call.user, call.period, met)
        /\ Proceed(r, IF met THEN NoRequest ELSE [call EXCEPT !.phase = "burn"])
        /\ UNCHANGED <<record, rows>>

SubmitBurns(r) ==
    /\ request[r].phase = "burn"
    /\ record' = WithBurned(request[r].user)
    /\ Proceed(r, NoRequest)
    /\ UNCHANGED <<rows, compliance>>

\* The page of trades finds a stored purchase of the user for a row without a
\* hash (enrichTradingLogsChainTxFromChainEvents), and then names the row.
FindPurchase(r, u, i, e) ==
    /\ request[r] = NoRequest
    /\ EventAt(e).kind = "Purchased" /\ UserOf(EventAt(e).user) = u
    /\ Nameless(i, u, e)
    /\ Proceed(r, [NoRequest EXCEPT !.phase = "name", !.user = u, !.row = i, !.log = e])
    /\ UNCHANGED marketVars

NameRow(r) ==
    /\ request[r].phase = "name"
    /\ rows' = Named(request[r].row, request[r].user, request[r].log)
    /\ Proceed(r, NoRequest)
    /\ UNCHANGED <<record, compliance>>

\* An error ends the request; what it has written stays.
RequestFails(r) ==
    /\ request[r] # NoRequest
    /\ Proceed(r, NoRequest)
    /\ UNCHANGED marketVars

(***************************************************************************)
(* The income of a resale (marketplace-purchased-income.ts), called without *)
(* waiting for it.                                                         *)
(***************************************************************************)

\* The seller's profit is the price less the seller's own basis, when the
\* record is still the seller's, and a fixed share of the price otherwise.
HasProfit(e) ==
    LET nft == record[EventAt(e).token]
    IN  /\ UserOf(SellerBefore(e)) # NoUser
        /\ nft.user = SellerBefore(e) => nft.value < EventAt(e).price

\* createMany with skipDuplicates: only the call that inserts the row grants.
Bug_GrantAgain(e) == HasProfit(e)
Inserts(e) == HasProfit(e) /\ e \notin sales

RecordSale(e) ==
    /\ e \in due
    /\ due' = due \ {e}
    /\ sales' = IF HasProfit(e) THEN sales \cup {e} ELSE sales
    /\ granting' = IF Inserts(e) THEN granting \cup {e} ELSE granting
    /\ UNCHANGED <<chainVars, indexed, cursor, marketVars, acts, callVars,
                   granted, faults>>

GrantSale(e) ==
    /\ e \in granting
    /\ granting' = granting \ {e}
    /\ granted' = [granted EXCEPT ![e] = @ + 1]
    /\ UNCHANGED <<chainVars, indexed, cursor, marketVars, acts, callVars, due,
                   sales, faults>>

\* backfillMarketplacePurchasedIncomeForUser, from the income pages: every
\* stored purchase again.
BackfillIncome ==
    /\ due' = due \cup {e \in indexed : EventAt(e).kind = "Purchased"}
    /\ UNCHANGED <<chainVars, indexed, cursor, marketVars, acts, callVars,
                   granting, sales, granted, faults>>

(***************************************************************************)
(* Registrations, activations and upgrades.                                *)
(***************************************************************************)

\* persistChainEventOnly; an Activated of a transaction that has its activation
\* goes on to the distribution, if none is logged.
StoreEventOnly(w) ==
    LET ev == EventAt(Current(w))
        repays == ev.kind = "Activated" /\ worker[w].act # 0
    IN  /\ AtLog(w, "store")
        /\ ev.kind \in {"Registered", "Activated", "Upgraded"}
        /\ worker[w].user = NoUser \/ worker[w].act # 0
        /\ indexed' = indexed \cup {Current(w)}
        /\ Goto(w, IF repays THEN [worker[w] EXCEPT !.phase = "check"]
                   ELSE AfterLog(w))
        /\ UNCHANGED <<chainVars, cursor, marketVars, acts, incomeVars, faults>>

\* The transaction begins: updateMany sees the rows that are current now, and
\* not those that another open transaction is about to create.
ClearCurrent(w) ==
    /\ AtLog(w, "clear")
    /\ Goto(w, [worker[w] EXCEPT !.phase = "store",
                                 !.current = CurrentActs(worker[w].user)])
    /\ UNCHANGED <<chainVars, indexed, cursor, marketVars, acts, incomeVars,
                   faults>>

\* The rows after the transaction: those seen are no longer current, one is new.
Activated(seen, u, p, b) ==
    Append([i \in DOMAIN acts |-> IF i \in seen THEN [acts[i] EXCEPT !.current = FALSE]
                                  ELSE acts[i]],
           [user |-> u, package |-> p, tx |-> b, current |-> TRUE, paid |-> 0])

StoreActivation(w) ==
    LET e == Current(w)
        call == worker[w]
    IN  /\ AtLog(w, "store")
        /\ EventAt(e).kind \in {"Activated", "Upgraded"}
        /\ call.user # NoUser /\ call.act = 0
        /\ Len(acts) < MaxRows
        /\ acts' = Activated(call.current, call.user, EventAt(e).package, e[1])
        /\ indexed' = indexed \cup {e}
        /\ Goto(w, [call EXCEPT !.phase = "check", !.act = Len(acts) + 1])
        /\ UNCHANGED <<chainVars, cursor, marketVars, incomeVars, faults>>

\* processActivationDistribution reads tokenDistributionLog first ...
CheckDistribution(w) ==
    /\ AtLog(w, "check")
    /\ Goto(w, IF acts[worker[w].act].paid > 0 THEN AfterLog(w)
               ELSE [worker[w] EXCEPT !.phase = "pay"])
    /\ UNCHANGED <<chainVars, indexed, cursor, marketVars, acts, incomeVars,
                   faults>>

\* ... and writes the shares and the log in a transaction of its own.
Distribute(w) ==
    /\ AtLog(w, "pay")
    /\ acts' = [acts EXCEPT ![worker[w].act].paid = @ + 1]
    /\ Goto(w, AfterLog(w))
    /\ UNCHANGED <<chainVars, indexed, cursor, marketVars, incomeVars, faults>>

(***************************************************************************)
(* The end of a call, and its failures.                                    *)
(***************************************************************************)

\* Only syncRange moves the cursor, and whatever it is by then.
Bug_ToLatest(w) == Len(chain)
NewCursor(w) == worker[w].to
Finish(w) ==
    /\ worker[w].todo = <<>>
    /\ worker[w].job \in {"range", "head", "tx", "backfill"}
    /\ cursor' = IF worker[w].job = "range" THEN NewCursor(w) ELSE cursor
    /\ Goto(w, Idle)
    /\ UNCHANGED <<chainVars, indexed, marketVars, acts, incomeVars, faults>>

\* A read or a write fails.  The sync of one transaction, the backfill, a
\* repair and a distribution swallow the error and go on with the next log;
\* syncRange and the head window give up.
Swallowed(w) ==
    \/ worker[w].job \in {"tx", "backfill"}
    \/ worker[w].phase \in {"repair", "adopt", "check", "pay"}
    \/ worker[w].phase \in {"measure", "judge", "burn"} /\ ~worker[w].new

AfterError(w) == IF Swallowed(w) THEN AfterLog(w) ELSE Idle

Fail(w) ==
    /\ faults < MaxFaults
    /\ worker[w].todo # <<>>
    /\ faults' = faults + 1
    /\ Goto(w, AfterError(w))
    /\ UNCHANGED <<chainVars, indexed, cursor, marketVars, acts, incomeVars>>

\* Another call has stored the purchase since this one looked: its insert of the
\* owner or the volume row then breaks a unique key, and the database aborts the
\* whole transaction, whatever createTradingLogIdempotent catches.
LoseRace(w) ==
    /\ AtLog(w, "store")
    /\ EventAt(Current(w)).kind = "Purchased"
    /\ worker[w].user # NoUser
    /\ Current(w) \in indexed
    /\ Goto(w, AfterError(w))
    /\ UNCHANGED <<chainVars, indexed, cursor, marketVars, acts, incomeVars,
                   faults>>

\* The process restarts: every call under way is lost, the database is not.
Restart ==
    /\ faults < MaxFaults
    /\ faults' = faults + 1
    /\ worker' = [w \in Workers |-> Idle]
    /\ request' = [r \in Requests |-> NoRequest]
    /\ due' = {} /\ granting' = {}
    /\ UNCHANGED <<chainVars, indexed, cursor, marketVars, acts, sales, granted>>

LogStep(w) ==
    \/ SkipStored(w) \/ LookAgain(w) \/ FindRow(w)
    \/ LookMarket(w) \/ LookPackage(w)
    \/ StoreListed(w) \/ StorePurchase(w) \/ LoseRace(w)
    \/ Repair(w) \/ AdoptRow(w) \/ Measure(w) \/ Judge(w) \/ BurnRecords(w)
    \/ StoreEventOnly(w) \/ ClearCurrent(w) \/ StoreActivation(w)
    \/ CheckDistribution(w) \/ Distribute(w)
    \/ Finish(w)

Calls(w) ==
    \/ StartRange(w)
    \/ StartHeadWindow(w)
    \/ \E b \in DOMAIN chain : StartTx(w, b)
    \/ \E u \in Users : StartBackfill(w, u)

RequestStep(r) ==
    \/ \E u \in Users, i \in DOMAIN acts, p \in 0 .. MaxPeriod, v \in SubmitVolumes :
           SubmitRow(r, u, i, p, v)
    \/ SubmitMeasure(r) \/ SubmitJudge(r) \/ SubmitBurns(r)
    \/ \E u \in Users, i \in DOMAIN rows, e \in indexed : FindPurchase(r, u, i, e)
    \/ NameRow(r)
    \/ RequestFails(r)

Incomes == (\E e \in due : RecordSale(e)) \/ (\E e \in granting : GrantSale(e))

Next ==
    \/ \E tx \in TxMenu : Mine(tx)
    \/ \E u \in Users : LinkWallet(u)
    \/ NextPeriod
    \/ \E w \in Workers : Calls(w) \/ LogStep(w) \/ Fail(w)
    \/ \E r \in Requests : RequestStep(r)
    \/ Incomes
    \/ BackfillIncome
    \/ Restart

Spec == Init /\ [][Next]_vars

\* The timer keeps calling syncRange, and a call under way goes on.  The timer
\* waits for nothing, while here it needs a worker that is idle: hence SF.
Fairness ==
    /\ SF_vars(\E w \in Workers : StartRange(w))
    /\ \A w \in Workers : WF_vars(LogStep(w))

FairSpec == Spec /\ Fairness

(***************************************************************************)
(* Properties.                                                             *)
(***************************************************************************)

\* No log is skipped: everything up to the cursor of syncRange is stored,
\* whatever other calls ran in between, failed or moved the cursor back.
CursorSound == \A e \in OnChain : e[1] <= cursor => e \in indexed

\* The volume of a purchase is counted once: head window, receipt sync, backfill
\* and timer may all handle it, and it may be taken for a row that the user
\* submitted, but the rows that name the purchases of a user and a period never
\* add up to more than what the user bought in it on the chain.
Bought(u, p) ==
    {e \in OnChain : /\ EventAt(e).kind = "Purchased"
                     /\ EventAt(e).user = u
                     /\ chain[e[1]].period = p}
Naming(u, p) ==
    {i \in DOMAIN rows : /\ rows[i].user = u
                         /\ rows[i].tx # NoTx /\ chain[rows[i].tx].period = p}
VolumeCountedOnce ==
    \A u \in Users, p \in 0 .. MaxPeriod :
        SumOver(Naming(u, p), [i \in DOMAIN rows |-> rows[i].volume])
            <= SumOver(Bought(u, p), [e \in OnChain |-> EventAt(e).price])

\* A verdict of compliant is borne out by the rows of its period: purchases and
\* what the user submitted add up to what one of the user's packages asks for,
\* or a package that the user named in a submission, although the sum is read
\* before other calls and requests write their rows and verdicts.  (The
\* submitted volume is the user's word, so purchases alone need not reach it.)
CompliantEarned ==
    \A u \in Users, p \in 0 .. MaxPeriod :
        compliance[u][p] = "compliant" =>
            \E i \in DOMAIN acts :
                /\ \/ acts[i].user = u
                   \/ \E k \in DOMAIN rows : rows[k].user = u /\ rows[k].act = i
                /\ 2 * VolumeIn(u, p) >= Required[acts[i].package]

\* The seller's income of a purchase reaches the ledger at most once, although
\* every income page starts the backfill of all purchases again.
SaleIncomeOnce ==
    \A e \in EventIds : granted[e] <= 1 /\ (granted[e] = 1 => e \in sales)

\* Every block is stored in the end: overlapping calls that move the cursor
\* back, failures and restarts only delay it.
EventuallyStored ==
    \A b \in 1 .. MaxBlock :
        (b <= Len(chain)) ~> (\A e \in OnChain : e[1] = b => e \in indexed)
=============================================================================
