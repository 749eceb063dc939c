----------------------------- MODULE PoolPayout -----------------------------
(* The daily run of the global pool: it reads the pool's size on the chain, *)
(* books every rank's amount in the income ledger, sends the contract a     *)
(* finished day to distribute, and marks the rows as paid when that call is *)
(* mined, whether or not it was reverted. A restart between two steps       *)
(* leaves what was done; the queue may repeat the job.                      *)
EXTENDS IncomeLedger

CONSTANTS
    Ranks,      \* sequence of the ranks
    RankPct,    \* percentage of the pool of a rank
    RankOf,     \* the rank a user's counts give, or NoUser
    CreditOf,   \* the amount of a credit to the pool
    MaxCredits

ASSUME RankAssumption ==
    /\ RankOf \in [Users -> {Ranks[r] : r \in DOMAIN Ranks} \cup {NoUser}]
    /\ Ranks \in Seq(Range(Ranks)) /\ RankPct \in [DOMAIN Ranks -> Nat]
    /\ CreditOf \in Nat \ {0} /\ MaxCredits \in Nat

VARIABLES
    dayPool, dayDistributed,  \* of the GlobalPool contract
    inFlight,   \* <<run, day>> of the distributions sent and not yet mined
    reverted,   \* history: runs whose distribution was mined and reverted
    fired,      \* the day the timer fired last
    retry,      \* the queue holds a run that the process did not finish
    run,        \* the last run: its number, its day, what it read and found
    pools,      \* GlobalPool: the day of a run and what it had to book
    paid,       \* incomes with the hash of a distribution
    payment,    \* run |-> the day its rows and burns were marked with
    seenAlive,  \* history: incomes a run found that were not burned
    credits

chain == <<dayPool, dayDistributed, inFlight, reverted, credits>>
marks == <<paid, payment>>
timer == <<fired, retry>>
poolVars == <<chain, timer, run, pools, marks, seenAlive>>

Days == 0..(MaxTime \div DayTicks)
NoDay == -1
Today == now \div DayTicks
-----------------------------------------------------------------------------
(* The contract. *)

Credit ==
    /\ credits < MaxCredits
    /\ credits' = credits + 1
    /\ dayPool' = [dayPool EXCEPT ![Today] = @ + CreditOf]
    /\ UNCHANGED <<ledgerVars, dayDistributed, inFlight, reverted,
                   timer, run, pools, marks, seenAlive>>

Distributable(d) == d \in Days /\ d < Today /\ ~dayDistributed[d] /\ dayPool[d] > 0

\* distributeDay qualifies the candidates and burns what nobody wins, so that
\* all of the day's pool leaves it. A call that comes second, or that runs out
\* of its gas, is mined as well.
Mine(n, d) ==
    /\ <<n, d>> \in inFlight
    /\ inFlight' = inFlight \ {<<n, d>>}
    /\ \/ /\ Distributable(d)
          /\ dayDistributed' = [dayDistributed EXCEPT ![d] = TRUE]
          /\ dayPool' = [dayPool EXCEPT ![d] = 0]
          /\ UNCHANGED reverted
       \/ reverted' = reverted \cup {n} /\ UNCHANGED <<dayPool, dayDistributed>>
    /\ UNCHANGED <<ledgerVars, credits, timer, run, pools, marks, seenAlive>>
-----------------------------------------------------------------------------
(* What a run books. *)

Balance == MapThenSumSet(LAMBDA d : dayPool[d], Days)

\* The pool of the day under way, or everything the contract holds.
TotalPool == IF dayPool[Today] > 0 THEN dayPool[Today] ELSE Balance

Members(r) == {u \in Users : RankOf[u] = Ranks[r]}
Amount(r, total) == (total * RankPct[r]) \div 100
PerMember(r, total) == Amount(r, total) \div Cardinality(Members(r))

\* Only a row counts here; a user without one is not compliant.
WasCompliant(u) ==
    verdict[u][PeriodStart(u, PeriodStart(u, now) - 1)] = "met"

Bug_OnlyCompliant(r, total, compliant) ==
    LET members == SetToSeq(Members(r) \cap compliant)
    IN  [m \in DOMAIN members |-> Share(members[m], PerMember(r, total))]

RankShares(r, total, compliant) ==
    IF Members(r) = {} THEN <<Share(NoUser, Amount(r, total))>>
    ELSE LET to(u) == IF u \in compliant THEN u ELSE NoUser
             members == SetToSeq(Members(r))
         IN  [m \in DOMAIN members |-> Share(to(members[m]), PerMember(r, total))]

RunShares(total, compliant) ==
    FlattenSeq([r \in DOMAIN Ranks |-> RankShares(r, total, compliant)])

\* Of a rank with members only whole shares are booked.
ToBook(total) ==
    SumOver(DOMAIN Ranks, [r \in DOMAIN Ranks |->
        IF Members(r) = {} THEN Amount(r, total)
        ELSE Cardinality(Members(r)) * PerMember(r, total)])
-----------------------------------------------------------------------------
(* The run: persistGlobalPoolRun. *)

Bug_FiresAgain == now = DayStart(now)
Fires == now = DayStart(now) /\ fired # Today

ReadPool ==
    /\ At(Runner, "idle")
    /\ Fires \/ retry
    /\ Len(pools) < MaxRuns
    /\ fired' = Today /\ retry' = FALSE
    /\ IF TotalPool = 0 THEN UNCHANGED <<caller, run>>
       ELSE /\ Goes(Runner, [at |-> "checked", source |-> Len(pools) + 1])
            /\ run' = [day |-> Today, total |-> TotalPool,
                       compliant |-> {u \in Users : WasCompliant(u)}, rows |-> {}]
    /\ UNCHANGED <<clock, stored, ledger, loose, overlapped, jobs,
                   chain, pools, marks, seenAlive>>

DraftRun ==
    /\ At(Runner, "checked")
    /\ now + LockTicks <= MaxTime
    /\ Goes(Runner, InTransaction(caller[Runner].source, RunShares(run.total, run.compliant), now))
    /\ UNCHANGED <<clock, stored, ledger, loose, overlapped, jobs, poolVars>>

CommitRun ==
    /\ Appended(Runner)
    /\ pools' = Append(pools, [day |-> run.day, due |-> ToBook(run.total)])
    /\ Goes(Runner, [at |-> "recorded", source |-> caller[Runner].source])
    /\ UNCHANGED <<chain, timer, run, marks, seenAlive>>

Bug_AnyStatus(n) == {i \in DOMAIN income : income[i].of = n /\ i \notin paid}

Unpaid(n) ==
    {i \in DOMAIN income :
        income[i].of = n /\ i \notin paid /\ income[i].status \in {"locked", "unlocked"}}

Moves(stage) == Goes(Runner, [caller[Runner] EXCEPT !.at = stage])

\* Without a row that can be paid the contract is not called.
FindUnpaid ==
    /\ At(Runner, "recorded")
    /\ LET rows == Unpaid(caller[Runner].source) IN
        /\ run' = [run EXCEPT !.rows = rows]
        /\ seenAlive' = seenAlive \cup {i \in rows : income[i].status # "burned"}
        /\ Moves(IF rows = {} THEN "settled" ELSE "found")
    /\ UNCHANGED <<clock, stored, ledger, loose, overlapped, jobs, chain, timer, pools, marks>>

\* The day before, or the day of a run that passed midnight.
DayToPay == IF run.day < Today THEN run.day ELSE Today - 1

\* A call whose estimate reverts is not sent.
Distribute ==
    /\ At(Runner, "found")
    /\ IF Distributable(DayToPay)
       THEN /\ inFlight' = inFlight \cup {<<caller[Runner].source, DayToPay>>}
            /\ Goes(Runner, [at |-> "sent", source |-> caller[Runner].source, paying |-> DayToPay])
       ELSE Moves("settled") /\ UNCHANGED inFlight
    /\ UNCHANGED <<clock, stored, ledger, loose, overlapped, jobs, dayPool, dayDistributed,
                   reverted, credits, timer, run, pools, marks, seenAlive>>

Bug_SentIsMined == TRUE
Mined == <<caller[Runner].source, caller[Runner].paying>> \notin inFlight

\* All rows found are marked, whatever became of them meanwhile; the receipt is
\* awaited and its status is not looked at.
MarkPaid ==
    /\ At(Runner, "sent") /\ Mined
    /\ income' = [i \in DOMAIN income |->
        IF i \in run.rows THEN [income[i] EXCEPT !.status = "unlocked"] ELSE income[i]]
    /\ paid' = paid \cup run.rows
    /\ payment' = [payment EXCEPT ![caller[Runner].source] = caller[Runner].paying]
    /\ Moves("settled")
    /\ UNCHANGED <<clock, stored, log, burnt, distributions, loose, overlapped, jobs,
                   chain, timer, run, pools, seenAlive>>

\* The wait for the receipt fails or times out; the call may still be mined.
LoseReceipt ==
    /\ At(Runner, "sent")
    /\ Moves("settled")
    /\ UNCHANGED <<clock, stored, ledger, loose, overlapped, jobs, poolVars>>

\* The burns of the run take the hash that its rows have; nothing else changes.
EndRun ==
    /\ At(Runner, "settled")
    /\ Goes(Runner, Idle)
    /\ UNCHANGED <<clock, stored, ledger, loose, overlapped, jobs, poolVars>>

\* A restart; a queue gives the job it interrupted to the next process.
RestartPool ==
    /\ Restart
    /\ retry' \in {retry, retry \/ ~At(Runner, "idle")}
    /\ UNCHANGED <<chain, fired, run, pools, marks, seenAlive>>
-----------------------------------------------------------------------------
PoolInit ==
    /\ LedgerInit
    /\ dayPool = [d \in Days |-> 0] /\ dayDistributed = [d \in Days |-> FALSE]
    /\ inFlight = {} /\ reverted = {}
    /\ fired = 0 /\ retry = FALSE   \* the first process starts after five past midnight
    /\ run = [day |-> NoDay, total |-> 0, compliant |-> {}, rows |-> {}]
    /\ pools = <<>>
    /\ paid = {} /\ payment = [n \in Runs |-> NoDay]
    /\ seenAlive = {} /\ credits = 0

RunStep ==
    \/ ReadPool \/ DraftRun \/ CommitRun
    \/ FindUnpaid \/ Distribute \/ MarkPaid \/ EndRun

LedgerStep ==
    /\ \/ \E a \in DOMAIN Activation : StoreActivation(a)
       \/ \E c \in Callers : Grant(c)
       \/ \E j \in Unlockers : UnlockRun(j)
       \/ \E j \in Burners : BurnRun(j)
       \/ \E u \in Users, met \in BOOLEAN : Evaluate(u, met)
       \/ Tick
    /\ UNCHANGED poolVars

ChainStep == Credit \/ \E n \in Runs, d \in Days : Mine(n, d)

PoolNext == LedgerStep \/ RunStep \/ LoseReceipt \/ ChainStep \/ RestartPool

allVars == <<ledgerVars, poolVars>>

PoolSpec == PoolInit /\ [][PoolNext]_allVars

\* The timers of the jobs fire and time passes; a run that is under way goes on:
\* its wait for a receipt has a timeout.
FairPool ==
    /\ PoolSpec
    /\ WF_allVars(RunStep \/ LoseReceipt) /\ WF_allVars(Tick /\ UNCHANGED poolVars)
    /\ \A j \in Unlockers : WF_allVars(UnlockRun(j) /\ UNCHANGED poolVars)
-----------------------------------------------------------------------------
PoolPromised == INSTANCE Books WITH
    due <- [s \in Sources |->
        IF s \in DOMAIN pools THEN pools[s].due ELSE DueOf(s)],
    booked <- distributions,
    waiting <- With("locked"), released <- With("unlocked"),
    destroyed <- With("burned") + MapThenSumSet(LAMBDA s : burnt[s], Sources)

\* A run books all ranks' amounts at once, to members or as burned, and paying
\* the rows changes no total (persistGlobalPoolRun, executeGlobalPoolOnChainPayouts).
PoolKeepsBooks == PoolPromised!Spec

\* A row marked as paid carries a day that the contract has distributed, or the
\* call its run waited for was mined and reverted: neither a restart, nor a
\* second run of the day, nor a lost receipt marks a row
\* (executeGlobalPoolOnChainPayouts).
PaidIsDistributed ==
    \A i \in paid : LET n == income[i].of IN
        payment[n] # NoDay /\ (dayDistributed[payment[n]] \/ n \in reverted)

\* A burned income becomes unlocked only when a payment had found it before the
\* burn job reached it.
RevivedOnlyByRace ==
    \A i \in DOMAIN income :
        /\ log[i] # <<>> /\ Last(log[i]) = "burned" /\ income[i].status = "unlocked"
        => i \in seenAlive

\* A day is booked by one run, unless a restart interrupted one.
OneRunADay ==
    crashes = 0 => \A m, n \in DOMAIN pools : pools[m].day = pools[n].day => m = n
=============================================================================
