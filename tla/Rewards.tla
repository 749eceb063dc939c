------------------------------- MODULE Rewards -------------------------------
(***************************************************************************)
(* The Rewards contract: an escrow of income per user and day, released to *)
(* a user who was compliant on the day and burned otherwise.  It reads the *)
(* day and the compliance from Registration, whose calls interleave.       *)
(***************************************************************************)
EXTENDS Registration, Sums

CONSTANTS
    Credits,        \* amounts creditIncome is called with
    MaxPending      \* bound: the largest pending income of a user and day

ASSUME CreditsAssumption == Credits \subseteq Nat /\ MaxPending \in Nat

VARIABLES
    pending,        \* pending income of each user and day
    outcome,        \* settled, with the event: Open, Claimed or Burned
    escrow,         \* USDT the contract holds
    met,            \* history: the days each user ended compliant
    regraded        \* history: past days of each user by the time the volume
                    \* required of the user last changed

historyVars == <<met, regraded>>
rewardsVars == <<pending, outcome, escrow, historyVars>>
allVars == <<vars, rewardsVars>>

Open == "open"
Claimed == "claimed"
Burned == "burned"

RewardsTypeOK ==
    /\ TypeOK
    /\ pending \in [Accounts -> [Days -> Nat]]
    /\ outcome \in [Accounts -> [Days -> {Open, Claimed, Burned}]]
    /\ escrow \in Nat
    /\ met \in [Accounts -> SUBSET Days]
    /\ regraded \in [Accounts -> SUBSET Days]

PastDays == {d \in Days : d < day}

\* Any transaction of Registration.  A day is noted as met or missed as it
\* ends; an upgrade or a setting that moves the bar moves it for past days too.
MembersStep ==
    /\ Next
    /\ met' = IF day' = day THEN met
              ELSE [u \in Accounts |-> IF IsCompliant(u, day)
                                       THEN met[u] \cup {day} ELSE met[u]]
    /\ regraded' = [u \in Accounts |->
           IF RequiredDailyVolume(u)' = RequiredDailyVolume(u) THEN regraded[u]
           ELSE PastDays]
    /\ UNCHANGED <<pending, outcome, escrow>>

CreditIncome(u, amount) ==
    /\ amount # 0
    /\ pending[u][day] + amount <= MaxPending
    /\ pending' = [pending EXCEPT ![u][day] = @ + amount]
    /\ escrow' = escrow + amount
    /\ UNCHANGED <<vars, outcome, historyVars>>

Unsettled(u, d) == outcome[u][d] = Open /\ pending[u][d] # 0

Bug_PendingKept(u, d, result) ==
    /\ outcome' = [outcome EXCEPT ![u][d] = result]
    /\ escrow' = escrow - pending[u][d]
    /\ UNCHANGED <<vars, pending, historyVars>>
Settled(u, d, result) ==
    /\ outcome' = [outcome EXCEPT ![u][d] = result]
    /\ pending' = [pending EXCEPT ![u][d] = 0]
    /\ escrow' = escrow - pending[u][d]
    /\ UNCHANGED <<vars, historyVars>>

Bug_CompliantToday(u, d) == IsCompliant(u, day)
Compliant(u, d) == IsCompliant(u, d)

\* _settle for a compliant user: claim by the user, settle by the user or the
\* contract's owner.
Release(u, d) ==
    /\ Unsettled(u, d)
    /\ Compliant(u, d)
    /\ Settled(u, d, Claimed)

\* _settle otherwise: anybody once the day has ended, the owner at any time.
BurnMissed(u, d, byOwner) ==
    /\ Unsettled(u, d)
    /\ ~Compliant(u, d)
    /\ d < day \/ byOwner
    /\ Settled(u, d, Burned)

RewardsInit ==
    /\ Init
    /\ pending = [u \in Accounts |-> [d \in Days |-> 0]]
    /\ outcome = [u \in Accounts |-> [d \in Days |-> Open]]
    /\ escrow = 0
    /\ met = [u \in Accounts |-> {}]
    /\ regraded = [u \in Accounts |-> {}]

RewardsNext ==
    \/ MembersStep
    \/ \E u \in Accounts, amount \in Credits : CreditIncome(u, amount)
    \/ \E u \in Accounts, d \in Days : Release(u, d)
    \/ \E u \in Accounts, d \in Days, byOwner \in BOOLEAN :
           BurnMissed(u, d, byOwner)

RewardsSpec == RewardsInit /\ [][RewardsNext]_allVars

(***************************************************************************)
(* Properties.                                                             *)
(***************************************************************************)

\* The escrow holds exactly the income it owes, for any order of credits,
\* claims, settlements and burns: an income is never paid and burned, nor paid
\* a second time by a settlement after a later credit.
EscrowSolvent ==
    escrow = SumOver(Accounts, [u \in Accounts |-> SumOver(Days, pending[u])])

\* An ended day is settled the way it ended ("Claim if compliant; else burn"):
\* income of a day that the user ended compliant is not burned, and income of a
\* missed day is not claimed, however late it is settled and whatever the user
\* trades since.  The one exception is a day regraded in between: isCompliant
\* judges it by the limit and the ratio of today, so that an upgrade, or a
\* stricter ratio, burns what was earned, and a laxer one releases it.
SettledAsEnded ==
    [][\A u \in Accounts, d \in PastDays :
           outcome[u][d] = Open /\ outcome'[u][d] # Open /\ d \notin regraded[u] =>
               (outcome'[u][d] = Claimed <=> d \in met[u])
      ]_allVars

=============================================================================
