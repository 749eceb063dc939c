---------------------------- MODULE IncomeLedger ----------------------------
(* The income ledger of the API: the distribution of an activation and the *)
(* income of a resale, both cut at the recipient's daily cap, and the two  *)
(* jobs that settle locked income. A database transaction is drafted from  *)
(* the rows committed when it reads and appears when it commits; every     *)
(* await between two of them is a point where another call goes on. Time   *)
(* is counted in ticks: a UTC day is DayTicks of them, and the trading     *)
(* periods of a user are PeriodTicks each, from the moment of joining.     *)
EXTENDS Integers, Sequences, FiniteSets, SequencesExt, FiniteSetsExt, Sums

CONSTANTS
    Users, NoUser,
    Sponsor,     \* the user who brought a user in, or NoUser
    Levels,      \* how many levels of the network a user's directs unlock
    Anchor,      \* when a user joined
    Creator,     \* the user who receives the creator's share, or NoUser
    Cap,         \* the most income a user may be granted in a day
    Activation,  \* activation |-> its user, its sponsor on the chain, its time, its price
    Resale,      \* resale |-> its seller, the seller's income, its time
    Split,       \* percentages of an activation's price
    MaxLevels,   \* 20 in the code
    DayTicks, PeriodTicks, LockTicks,
    Callers,     \* requests and jobs that grant income at the same time
    Runner,      \* the daily job of the global pool
    Unlockers, Burners,  \* runs of the two timers that may be under way
    Take,        \* how many locked incomes the burn job looks at, 500 in the code
    MaxTime, MaxVerdicts, MaxCrashes, MaxRuns

Runs == 1..MaxRuns   \* of the global pool, see PoolPayout
Sources == DOMAIN Activation \cup DOMAIN Resale \cup Runs

ASSUME UserAssumption ==
    /\ IsFiniteSet(Users) /\ NoUser \notin Users /\ Creator \in Users \cup {NoUser}
    /\ Runner \notin Callers
ASSUME TreeAssumption ==
    /\ Sponsor \in [Users -> Users \cup {NoUser}]
    /\ Levels \in [Users -> 0..MaxLevels]
    /\ Anchor \in [Users -> 0..MaxTime]
    /\ Cap \in [Users -> Nat]
ASSUME BoundAssumption ==
    /\ {MaxLevels, DayTicks, PeriodTicks, LockTicks, Take} \subseteq Nat \ {0}
    /\ {MaxTime, MaxVerdicts, MaxCrashes, MaxRuns} \subseteq Nat
ASSUME SourceAssumption ==
    /\ DOMAIN Activation \cap DOMAIN Resale = {}
    /\ (DOMAIN Activation \cup DOMAIN Resale) \cap Runs = {} /\ IsFiniteSet(Sources)
    /\ \A a \in DOMAIN Activation :
        Activation[a] \in [user: Users, sponsor: Users \cup {NoUser}, time: Nat, price: Nat]
    /\ \A s \in DOMAIN Resale : Resale[s] \in [seller: Users, extra: Nat, time: Nat]
    /\ Split \in [direct: Nat, network: Nat, creator: Nat, burn: Nat, liquidity: Nat, global: Nat]
    /\ Split.direct + Split.network + Split.creator + Split.burn
        + Split.liquidity + Split.global = 100

VARIABLES
    now,
    verdict,        \* the compliance row of a user and a period's start
    activated,      \* activations stored so far
    recorded,       \* resales whose row of trading income is stored
    distributions,  \* TokenDistributionLog rows of an activation, bookings of others
    income,         \* IncomeLedger
    log,            \* IncomeLog: what the jobs did to an income
    burnt,          \* BurnLog: amounts burned of a source
    caller,         \* a grant under way
    batch, doomed,  \* incomes a job has found, and judged, but not yet updated
    loose,          \* history: <<user, day>> whose cap a grant could not see
    contended,      \* history: incomes in the hands of two jobs at once
    overlapped,     \* history: activations distributed by two calls at once
    crashes

ledger == <<income, log, burnt, distributions>>
jobs == <<batch, doomed, contended>>
stored == <<activated, recorded>>
clock == <<now, verdict, crashes>>
calls == <<caller, loose, overlapped>>
ledgerVars == <<clock, stored, ledger, calls, jobs>>

Idle == [at |-> "idle"]
Nobody == [c \in Callers \cup {Runner} |-> Idle]
NoDraft == [rows |-> <<>>, burnt |-> 0]
-----------------------------------------------------------------------------
(* Days and trading periods. *)

DayStart(t) == (t \div DayTicks) * DayTicks

PeriodStart(u, t) ==
    IF t < Anchor[u] THEN Anchor[u]
    ELSE Anchor[u] + ((t - Anchor[u]) \div PeriodTicks) * PeriodTicks

Bug_MustBeMet(u, t) == verdict[u][DayStart(t)] = "met"

\* The row is looked for at the day's start. It was written at a period's.
TradingCompliant(u, t) == verdict[u][DayStart(t)] # "missed"
-----------------------------------------------------------------------------
(* The upline. *)

Above(u) == IF u = NoUser THEN NoUser ELSE Sponsor[u]

\* The n-th user above u; the walk stops where nobody is recorded.
Ancestor(u, n) ==
    LET up[i \in 0..MaxLevels] == IF i = 0 THEN u ELSE Above(up[i - 1]) IN up[n]

EffectiveSponsor(a) ==
    IF Sponsor[Activation[a].user] # NoUser
    THEN Sponsor[Activation[a].user] ELSE Activation[a].sponsor

\* A user nobody is recorded above is paid out along the sponsor of the chain.
PayoutChain(a, depth) == Ancestor(EffectiveSponsor(a), depth - 1)

Entitled(a, depth) ==
    LET upline == PayoutChain(a, depth) IN
    IF upline # NoUser /\ Levels[upline] >= depth THEN upline ELSE NoUser
-----------------------------------------------------------------------------
(* The daily cap. *)

Share(to, amount) == [to |-> to, amount |-> amount]

Sum(S) == SumOver(S, [i \in DOMAIN income |-> income[i].amount])

CreatedOn(u, day) ==
    {i \in DOMAIN income : income[i].user = u /\ DayStart(income[i].created) = day}

Drafted(rows, u) ==
    SumOver({i \in DOMAIN rows : rows[i].user = u}, [i \in DOMAIN rows |-> rows[i].amount])

Bug_CommittedOnly(u, day, draft) == Sum(CreatedOn(u, day))

\* sumIncomeCreatedUtcDay: committed rows and the transaction's own.
Used(u, day, draft) ==
    Sum(CreatedOn(u, day)) + IF day = DayStart(now) THEN Drafted(draft.rows, u) ELSE 0

Room(u, day, draft) == Max({0, Cap[u] - Used(u, day, draft)})

Row(u, amount, source) ==
    [user |-> u, amount |-> amount, of |-> source, created |-> now,
     until |-> now + LockTicks, status |-> "locked"]

WithRow(rows, u, amount, source) ==
    IF amount > 0 THEN Append(rows, Row(u, amount, source)) ELSE rows

Bug_ExcessForgotten(draft, share, day, source) ==
    LET grant == Min({share.amount, Room(share.to, day, draft)}) IN
    [draft EXCEPT !.rows = WithRow(@, share.to, grant, source)]

\* grantIncomeCapped: what exceeds the room is burned.
Granted(draft, share, day, source) ==
    LET grant == Min({share.amount, Room(share.to, day, draft)}) IN
    [rows |-> WithRow(draft.rows, share.to, grant, source),
     burnt |-> draft.burnt + share.amount - grant]

Booked(draft, share, day, source) ==
    IF share.to = NoUser
    THEN [draft EXCEPT !.burnt = @ + share.amount]
    ELSE Granted(draft, share, day, source)

Draft(shares, day, source) ==
    FoldLeft(LAMBDA draft, share : Booked(draft, share, day, source), NoDraft, shares)
-----------------------------------------------------------------------------
(* What an activation and a resale are split into. *)

Pct(a, part) == (Activation[a].price * part) \div 100

DirectShare(a) ==
    IF EffectiveSponsor(a) = NoUser THEN <<>>
    ELSE <<Share(EffectiveSponsor(a), Pct(a, Split.direct))>>

NetworkShares(a) ==
    [depth \in 1..MaxLevels |-> Share(Entitled(a, depth), Pct(a, Split.network) \div MaxLevels)]

CreatorShare(a, compliant) ==
    <<Share(IF compliant THEN Creator ELSE NoUser, Pct(a, Split.creator))>>

BurnShare(a) == <<Share(NoUser, Pct(a, Split.burn))>>

ActivationShares(a, compliant) ==
    DirectShare(a) \o NetworkShares(a) \o CreatorShare(a, compliant) \o BurnShare(a)

ResaleShares(s) == <<Share(Resale[s].seller, Resale[s].extra)>>

TimeOf(source) ==
    IF source \in DOMAIN Resale THEN Resale[source].time ELSE Activation[source].time
-----------------------------------------------------------------------------
(* Grants: processActivationDistribution and recordTradingIncome. *)

At(c, stage) == caller[c].at = stage
Goes(c, next) == caller' = [caller EXCEPT ![c] = next]
InHand(a) == \E c \in Callers : caller[c].at # "idle" /\ caller[c].source = a

StoreActivation(a) ==
    /\ a \in DOMAIN Activation \ activated
    /\ Activation[a].time <= now
    /\ activated' = activated \cup {a}
    /\ UNCHANGED <<clock, recorded, ledger, calls, jobs>>

Bug_NoCheck(c, a) ==
    /\ At(c, "idle") /\ a \in activated
    /\ Goes(c, [at |-> "checked", source |-> a, compliant |-> TRUE])
    /\ overlapped' = IF InHand(a) THEN overlapped \cup {a} ELSE overlapped
    /\ UNCHANGED <<clock, stored, ledger, loose, jobs>>

\* The log and the activator's compliance are read outside the transaction.
CheckDistribution(c, a) ==
    /\ At(c, "idle") /\ a \in activated
    /\ distributions[a] = 0
    /\ Goes(c, [at |-> "checked", source |-> a,
                compliant |-> TradingCompliant(Activation[a].user, Activation[a].time)])
    /\ overlapped' = IF InHand(a) THEN overlapped \cup {a} ELSE overlapped
    /\ UNCHANGED <<clock, stored, ledger, loose, jobs>>

\* The row that is unique for a resale is stored first, its grant comes after.
RecordResale(c, s) ==
    /\ At(c, "idle")
    /\ Resale[s].time <= now /\ s \notin recorded
    /\ recorded' = recorded \cup {s}
    /\ Goes(c, [at |-> "checked", source |-> s, compliant |-> TRUE])
    /\ UNCHANGED <<clock, activated, ledger, loose, overlapped, jobs>>

SharesOf(source, compliant) ==
    IF source \in DOMAIN Resale THEN ResaleShares(source)
    ELSE ActivationShares(source, compliant)

InTransaction(source, shares, at) ==
    [at |-> "drafted", source |-> source, day |-> DayStart(now), seen |-> Len(income),
     asOf |-> DayStart(at), draft |-> Draft(shares, DayStart(at), source)]

DraftGrant(c) ==
    /\ At(c, "checked")
    /\ now + LockTicks <= MaxTime
    /\ LET source == caller[c].source IN
        Goes(c, InTransaction(source, SharesOf(source, caller[c].compliant), TimeOf(source)))
    /\ UNCHANGED <<clock, stored, ledger, loose, overlapped, jobs>>

\* History only: grants that were not judged against all the rows of their day.
Unseen(c) ==
    {<<u, caller[c].day>> : u \in {u \in Users :
        /\ Drafted(caller[c].draft.rows, u) > 0
        /\ \/ caller[c].asOf # caller[c].day
           \/ \E i \in DOMAIN income : i > caller[c].seen /\ income[i].user = u}}

Appended(c) ==
    /\ At(c, "drafted")
    /\ income' = income \o caller[c].draft.rows
    /\ log' = log \o [i \in DOMAIN caller[c].draft.rows |-> <<>>]
    /\ burnt' = [burnt EXCEPT ![caller[c].source] = @ + caller[c].draft.burnt]
    /\ distributions' = [distributions EXCEPT ![caller[c].source] = @ + 1]
    /\ loose' = loose \cup Unseen(c)
    /\ UNCHANGED <<clock, stored, overlapped, jobs>>

Commit(c) == Appended(c) /\ Goes(c, Idle)
-----------------------------------------------------------------------------
(* The two timers. Neither waits for its previous run. *)

Locked == {i \in DOMAIN income : income[i].status = "locked"}
Bug_DueAny == {i \in DOMAIN income : income[i].until <= now}
Bug_DueNow == {i \in Locked : income[i].until = now}
Due == {i \in Locked : income[i].until <= now}

\* Each row is updated by its key: its status is not looked at again.
Settle(i, status) ==
    /\ income' = [income EXCEPT ![i].status = status]
    /\ log' = [log EXCEPT ![i] = Append(@, status)]

Held == UNION ({batch[j] : j \in Unlockers \cup Burners} \cup {doomed[j] : j \in Burners})

Finds(j, found) ==
    /\ batch[j] = {} /\ found # {}
    /\ batch' = [batch EXCEPT ![j] = found]
    /\ contended' = contended \cup (found \cap Held)
    /\ UNCHANGED <<clock, stored, ledger, calls, doomed>>

FindDue(j) == Finds(j, Due)

Unlock(j, i) ==
    /\ i \in batch[j]
    /\ Settle(i, "unlocked")
    /\ batch' = [batch EXCEPT ![j] = @ \ {i}]
    /\ UNCHANGED <<clock, stored, burnt, distributions, calls, doomed, contended>>

FindLocked(j) ==
    /\ doomed[j] = {}
    /\ \E found \in SUBSET Locked :
        /\ Cardinality(found) = Min({Take, Cardinality(Locked)})
        /\ Finds(j, found)

Judge(j, i) ==
    /\ i \in batch[j] /\ doomed[j] = {}
    /\ batch' = [batch EXCEPT ![j] = @ \ {i}]
    /\ doomed' = [doomed EXCEPT ![j] =
        IF TradingCompliant(income[i].user, income[i].created) THEN {} ELSE {i}]
    /\ UNCHANGED <<clock, stored, ledger, calls, contended>>

Burn(j, i) ==
    /\ i \in doomed[j]
    /\ Settle(i, "burned")
    /\ doomed' = [doomed EXCEPT ![j] = {}]
    /\ UNCHANGED <<clock, stored, burnt, distributions, calls, batch, contended>>
-----------------------------------------------------------------------------
(* Time, the compliance that the indexer writes, and restarts. *)

Verdicts == {p \in Users \X (0..MaxTime) : verdict[p[1]][p[2]] # "none"}

\* A purchase of the current period, judged by evaluateDay.
Evaluate(u, met) ==
    /\ Anchor[u] <= now
    /\ Cardinality(Verdicts \cup {<<u, PeriodStart(u, now)>>}) <= MaxVerdicts
    /\ verdict' = [verdict EXCEPT ![u][PeriodStart(u, now)] = IF met THEN "met" ELSE "missed"]
    /\ UNCHANGED <<now, crashes, stored, ledger, calls, jobs>>

Tick ==
    /\ now < MaxTime
    /\ now' = now + 1
    /\ UNCHANGED <<verdict, crashes, stored, ledger, calls, jobs>>

NoBatch == [j \in Unlockers \cup Burners |-> {}]
NoneDoomed == [j \in Burners |-> {}]

\* A restart forgets every call and every batch under way.
Restart ==
    /\ crashes < MaxCrashes
    /\ crashes' = crashes + 1
    /\ caller' = Nobody
    /\ batch' = NoBatch /\ doomed' = NoneDoomed
    /\ UNCHANGED <<now, verdict, stored, ledger, loose, contended, overlapped>>
-----------------------------------------------------------------------------
LedgerInit ==
    /\ now = 0
    /\ verdict = [u \in Users |-> [t \in 0..MaxTime |-> "none"]]
    /\ activated = {} /\ recorded = {}
    /\ distributions = [s \in Sources |-> 0]
    /\ income = <<>> /\ log = <<>>
    /\ burnt = [s \in Sources |-> 0]
    /\ caller = Nobody
    /\ batch = NoBatch /\ doomed = NoneDoomed
    /\ loose = {} /\ contended = {} /\ overlapped = {} /\ crashes = 0

Grant(c) ==
    \/ \E a \in DOMAIN Activation : CheckDistribution(c, a)
    \/ \E s \in DOMAIN Resale : RecordResale(c, s)
    \/ DraftGrant(c)
    \/ Commit(c)

UnlockRun(j) == FindDue(j) \/ \E i \in DOMAIN income : Unlock(j, i)
BurnRun(j) == FindLocked(j) \/ \E i \in DOMAIN income : Judge(j, i) \/ Burn(j, i)

LedgerNext ==
    \/ \E a \in DOMAIN Activation : StoreActivation(a)
    \/ \E c \in Callers : Grant(c)
    \/ \E j \in Unlockers : UnlockRun(j)
    \/ \E j \in Burners : BurnRun(j)
    \/ \E u \in Users, met \in BOOLEAN : Evaluate(u, met)
    \/ Tick
    \/ Restart

LedgerSpec == LedgerInit /\ [][LedgerNext]_ledgerVars
-----------------------------------------------------------------------------
(* What Books promises of it. *)

\* The network's slice is rounded level by level; a direct share without a
\* sponsor is booked by nobody.
DueOf(source) ==
    CASE source \in DOMAIN Resale -> Resale[source].extra
      [] source \in DOMAIN Activation ->
            Pct(source, Split.creator) + Pct(source, Split.burn)
            + MaxLevels * (Pct(source, Split.network) \div MaxLevels)
            + IF EffectiveSponsor(source) = NoUser THEN 0 ELSE Pct(source, Split.direct)
      [] OTHER -> 0

With(status) == Sum({i \in DOMAIN income : income[i].status = status})

Promised == INSTANCE Books WITH
    due <- [s \in Sources |-> DueOf(s)], booked <- distributions,
    waiting <- With("locked"), released <- With("unlocked"),
    destroyed <- With("burned") + MapThenSumSet(LAMBDA s : burnt[s], Sources)

\* Every call books the whole share due of an activation or a resale at once,
\* granted or burned, however calls, jobs and restarts interleave.
KeepsBooks == Promised!Spec
-----------------------------------------------------------------------------
(* Properties. *)

\* Every row has a lock that ends in the model's time and one log; counters of
\* what was burned and distributed are of the ledger's sources.
LedgerTypeOK ==
    /\ now \in 0..MaxTime
    /\ verdict \in [Users -> [0..MaxTime -> {"none", "met", "missed"}]]
    /\ activated \subseteq DOMAIN Activation /\ recorded \subseteq DOMAIN Resale
    /\ \A i \in DOMAIN income :
        /\ income[i].user \in Users /\ income[i].of \in Sources
        /\ income[i].until \in 0..MaxTime
        /\ income[i].status \in {"locked", "unlocked", "burned"}
    /\ DOMAIN log = DOMAIN income
    /\ {burnt, distributions} \subseteq [Sources -> Nat]
    /\ Held \subseteq DOMAIN income

\* What a user is granted in a day stays within the cap, unless a grant of that
\* day was judged without seeing another, or by the room of another day
\* (splitAmountByDailyCap and grantIncomeCapped).
CapKept ==
    \A u \in Users, t \in 0..MaxTime :
        <<u, DayStart(t)>> \notin loose => Sum(CreatedOn(u, DayStart(t))) <= Cap[u]

\* An income leaves "locked" once and keeps the status it was given, unless two
\* job runs had found it before either updated it (unlockEligibleIncomes and
\* runBurnNonCompliantLockedIncomes).
SettledOnce ==
    \A i \in DOMAIN income :
        /\ i \notin contended => Len(log[i]) <= 1
        /\ income[i].status = IF log[i] = <<>> THEN "locked" ELSE Last(log[i])

\* An activation is distributed once, unless a second call checked the log while
\* the first was between its check and its commit.
DistributedOnce ==
    \A a \in DOMAIN Activation : a \notin overlapped => distributions[a] <= 1

\* The burn job burns nothing of a day at whose start none of the user's periods
\* starts: it looks for the compliance row there (isUserTradingCompliantForDay).
BurnsNeedAlignedPeriod ==
    \A i \in DOMAIN income :
        income[i].status = "burned" =>
            LET day == DayStart(income[i].created) IN PeriodStart(income[i].user, day) = day

\* Every income that was granted is settled in the end: a restart of the process
\* or a burn job beside it does not leave it locked.
LockedIsSettled ==
    \A n \in 1..MaxTime :
        Len(income) >= n ~> (Len(income) >= n /\ income[n].status # "locked")
=============================================================================
