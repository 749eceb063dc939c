----------------------------- MODULE Activations -----------------------------
(* The package rows of one member: what the member buys on the chain reaches *)
(* the database by three ways that do not know each other, the event, the    *)
(* sign-up that names its transaction, and the page that copies the          *)
(* contract's state. Rows that no event has distributed are distributed when *)
(* the sponsor looks at an income page. Members do not share rows.           *)
EXTENDS Naturals, Sequences, FiniteSets, SequencesExt

CONSTANTS
    Packages,      \* identifiers; 1 is the entry package
    Requests,      \* calls that can be under way together
    MaxDisturbed,  \* calls that end half-way and packages an administrator gives
    MaxRows        \* rows the calls can create

ASSUME PackagesAssumption == Packages \subseteq Nat /\ 1 \in Packages

VARIABLES
    bought,     \* packages activated on the chain; a position is a transaction
    account,    \* "none", "recovered" from the chain, "signed" up with bought 1
    events,     \* transactions whose event is stored
    rows,       \* PackageActivation, in the order they were created
    request,    \* what each call is doing
    synced,     \* history: purchases the last finished copy had seen
    missed,     \* history: a row was created between a call's look and its own
    failures, grants

activationVars ==
    <<bought, account, events, rows, request, synced, missed, failures, grants>>

NoTx == 0
Txs == DOMAIN bought
ChainPackage == Last(bought)

Row(package, tx, onChain, by) ==
    [package |-> package, tx |-> tx, onChain |-> onChain,
     current |-> TRUE, by |-> by, booked |-> FALSE]

Rows == [package: Packages, tx: Nat, onChain: BOOLEAN, current: BOOLEAN,
         by: {"event", "signup", "copy", "admin"}, booked: BOOLEAN]

Current == {i \in DOMAIN rows : rows[i].current}
OnChain == {i \in DOMAIN rows : rows[i].onChain}
Unbooked == {i \in OnChain : ~rows[i].booked}
RowsOf(t) == {i \in OnChain : rows[i].tx = t}

Idle == [at |-> "idle"]
At(r, stage) == request[r].at = stage
Goes(r, doing) == request' = [request EXCEPT ![r] = doing]
Moves(r, stage) == Goes(r, [request[r] EXCEPT !.at = stage])
-----------------------------------------------------------------------------
(* Creating the current row.                                                *)

\* Calls that have looked at the rows and will create one because of it.
Deciding == {r \in Requests : request[r].at \in {"activate", "ensure", "clear", "create"}}

Bug_KeepsCurrent(seen) == rows

\* updateMany clears the rows that were there when it ran.
Cleared(seen) == [i \in DOMAIN rows |->
    IF i <= seen THEN [rows[i] EXCEPT !.current = FALSE] ELSE rows[i]]

\* A row whose statement or transaction ran after the call's last look.
Creates(r, row) ==
    /\ Len(rows) < MaxRows
    /\ \E seen \in request[r].seen..Len(rows) : rows' = Append(Cleared(seen), row)
    /\ missed' = (missed \/ Deciding \ {r} # {})
-----------------------------------------------------------------------------
(* Distribution: tryMirrorActivationRewardsForActivation and the indexer's. *)
(* Its own interleavings are those of IncomeLedger.                         *)

Book(i) == rows' = [rows EXCEPT ![i].booked = TRUE]

\* A row without a transaction is given the last Activated of the wallet,
\* which is the entry, whatever the row is for: an upgrade is an Upgraded.
Attached(i) ==
    IF rows[i].tx = NoTx /\ 1 \in events THEN [rows[i] EXCEPT !.tx = 1] ELSE rows[i]

Mirror(i) ==
    rows' = IF rows[i].booked THEN rows
            ELSE [rows EXCEPT ![i] = [Attached(i) EXCEPT !.booked = TRUE]]
-----------------------------------------------------------------------------
(* On the chain. *)

\* The contract activates with any package, the entry or not; an upgrade is to a
\* dearer one.
Buy ==
    \E p \in Packages :
        /\ bought # <<>> => p > ChainPackage
        /\ bought' = Append(bought, p)
        /\ UNCHANGED <<account, events, rows, request, synced, missed, failures, grants>>
-----------------------------------------------------------------------------
(* The indexer: persistActivated and persistUpgraded. *)

\* Events are taken in the order of the chain.
NextEvent(t) == t \in Txs \ events /\ 1..(t - 1) \subseteq events

Store(t) == events' = events \cup {t}

\* No wallet of the event is known: it is stored and never looked at again.
SkipEvent(t) ==
    /\ NextEvent(t) /\ account = "none"
    /\ Store(t)
    /\ UNCHANGED <<bought, account, rows, request, synced, missed, failures, grants>>

Bug_NoLookForTx(r, t) ==
    /\ At(r, "idle") /\ account # "none" /\ NextEvent(t)
    /\ Goes(r, [at |-> "activate", tx |-> t, seen |-> Len(rows)])
    /\ UNCHANGED <<bought, account, events, rows, synced, missed, failures, grants>>

\* An Activated whose row is there already is distributed if it was not; an
\* Upgraded is not.
TakeEvent(r, t) ==
    /\ At(r, "idle") /\ account # "none" /\ NextEvent(t)
    /\ IF RowsOf(t) = {}
       THEN /\ Goes(r, [at |-> "activate", tx |-> t, seen |-> Len(rows)])
            /\ UNCHANGED events
       ELSE /\ Store(t)
            /\ IF t = 1
               THEN \E i \in RowsOf(t) : Goes(r, [at |-> "distribute", row |-> i])
               ELSE UNCHANGED request
    /\ UNCHANGED <<bought, account, rows, synced, missed, failures, grants>>

\* The row and the event in one transaction.
Activate(r) ==
    /\ At(r, "activate")
    /\ LET t == request[r].tx IN
        /\ Creates(r, Row(bought[t], t, TRUE, "event"))
        /\ Store(t)
    /\ Goes(r, [at |-> "distribute", row |-> Len(rows) + 1])
    /\ UNCHANGED <<bought, account, synced, failures, grants>>

Distribute(r) ==
    /\ At(r, "distribute")
    /\ Book(request[r].row)
    /\ Goes(r, Idle)
    /\ UNCHANGED <<bought, account, events, synced, missed, failures, grants>>
-----------------------------------------------------------------------------
(* Accounts, and the sign-up's own row: ensureActivationFromRegistrationTx.  *)

\* Login of a wallet the chain knows and the database does not.
Recover ==
    /\ account = "none" /\ bought # <<>>
    /\ account' = "recovered"
    /\ UNCHANGED <<bought, events, rows, request, synced, missed, failures, grants>>

\* verifyPaidRegistrationTx: the transaction named is the wallet's own entry.
PaidEntry == bought # <<>> /\ bought[1] = 1

SignUp(r) ==
    /\ At(r, "idle") /\ account = "none" /\ PaidEntry
    /\ account' = "signed"
    /\ Goes(r, [at |-> "look", then |-> "stop"])
    /\ UNCHANGED <<bought, events, rows, synced, missed, failures, grants>>

\* The row of the transaction, or else any row not distributed, is mirrored;
\* only when there is neither is a row created.
LookForRow(r) ==
    /\ At(r, "look")
    /\ LET known == IF RowsOf(1) # {} THEN RowsOf(1) ELSE Unbooked IN
        IF known = {}
        THEN Goes(r, [at |-> "ensure", then |-> request[r].then, seen |-> Len(rows)])
        ELSE \E i \in known :
                Goes(r, [at |-> "mirror", then |-> request[r].then, todo |-> {i}])
    /\ UNCHANGED <<bought, account, events, rows, synced, missed, failures, grants>>

Ensure(r) ==
    /\ At(r, "ensure")
    /\ Creates(r, Row(1, 1, TRUE, "signup"))
    /\ Goes(r, [at |-> "mirror", then |-> request[r].then, todo |-> {Len(rows) + 1}])
    /\ UNCHANGED <<bought, account, events, synced, failures, grants>>
-----------------------------------------------------------------------------
(* The sponsor's income page, and the administrator's backfill, which does   *)
(* the same without the sign-up's row.                                       *)

Visit(r) ==
    /\ At(r, "idle") /\ account # "none"
    /\ \E from \in IF account = "signed" THEN {"look", "list"} ELSE {"list"} :
        Goes(r, [at |-> from, then |-> "list"])
    /\ UNCHANGED <<bought, account, events, rows, synced, missed, failures, grants>>

ListRows(r) ==
    /\ At(r, "list")
    /\ Goes(r, [at |-> "mirror", then |-> "stop", todo |-> Unbooked])
    /\ UNCHANGED <<bought, account, events, rows, synced, missed, failures, grants>>

MirrorRow(r) ==
    /\ At(r, "mirror")
    /\ \E i \in request[r].todo :
        /\ Mirror(i)
        /\ Goes(r, [request[r] EXCEPT !.todo = @ \ {i}])
    /\ UNCHANGED <<bought, account, events, synced, missed, failures, grants>>

Mirrored(r) ==
    /\ At(r, "mirror") /\ request[r].todo = {}
    /\ Goes(r, IF request[r].then = "list" THEN [at |-> "list", then |-> "list"] ELSE Idle)
    /\ UNCHANGED <<bought, account, events, rows, synced, missed, failures, grants>>
-----------------------------------------------------------------------------
(* The copy of the contract's state: syncPackageActivationFromRegistration.  *)
(* Every load of the member's page runs it; its statements are not in one    *)
(* transaction and its row has no transaction hash.                          *)

ReadChain(r) ==
    /\ At(r, "idle") /\ account # "none" /\ bought # <<>>
    /\ Goes(r, [at |-> "compare", package |-> ChainPackage, upTo |-> Len(bought)])
    /\ UNCHANGED <<bought, account, events, rows, synced, missed, failures, grants>>

IsCopied(i, package) == rows[i].package = package /\ rows[i].onChain

\* One current row is read; nothing says which when there are two.
Compare(r) ==
    /\ At(r, "compare")
    /\ LET package == request[r].package IN
        \/ /\ \E i \in Current : IsCopied(i, package)
           /\ synced' = request[r].upTo
           /\ Goes(r, Idle)
        \/ /\ Current = {} \/ \E i \in Current : ~IsCopied(i, package)
           /\ Moves(r, "clear")
           /\ UNCHANGED synced
    /\ UNCHANGED <<bought, account, events, rows, missed, failures, grants>>

ClearCurrent(r) ==
    /\ At(r, "clear")
    /\ rows' = Cleared(Len(rows))
    /\ Moves(r, "create")
    /\ UNCHANGED <<bought, account, events, synced, missed, failures, grants>>

CreateCopy(r) ==
    /\ At(r, "create") /\ Len(rows) < MaxRows
    /\ rows' = Append(rows, Row(request[r].package, NoTx, TRUE, "copy"))
    /\ missed' = (missed \/ Deciding \ {r} # {})
    /\ synced' = request[r].upTo
    /\ Goes(r, Idle)
    /\ UNCHANGED <<bought, account, events, failures, grants>>
-----------------------------------------------------------------------------
(* An administrator's package is a row that is not on the chain. *)

Grant ==
    /\ account # "none" /\ failures + grants < MaxDisturbed
    /\ Len(rows) < MaxRows
    /\ \E p \in Packages :
        rows' = Append(Cleared(Len(rows)), Row(p, NoTx, FALSE, "admin"))
    /\ grants' = grants + 1
    /\ missed' = (missed \/ Deciding # {})
    /\ UNCHANGED <<bought, account, events, request, synced, failures>>

\* The process stops, or a statement fails and the call with it.
Fail(r) ==
    /\ ~At(r, "idle") /\ failures + grants < MaxDisturbed
    /\ failures' = failures + 1
    /\ Goes(r, Idle)
    /\ UNCHANGED <<bought, account, events, rows, synced, missed, grants>>
-----------------------------------------------------------------------------
ActivationsInit ==
    /\ bought = <<>> /\ account = "none" /\ events = {} /\ rows = <<>>
    /\ request = [r \in Requests |-> Idle]
    /\ synced = 0 /\ missed = FALSE /\ failures = 0 /\ grants = 0

Index(r) == (\E t \in Txs : TakeEvent(r, t)) \/ Activate(r) \/ Distribute(r)

Mirrors(r) ==
    \/ SignUp(r) \/ LookForRow(r) \/ Ensure(r)
    \/ Visit(r) \/ ListRows(r) \/ MirrorRow(r) \/ Mirrored(r)

Copy(r) == ReadChain(r) \/ Compare(r) \/ ClearCurrent(r) \/ CreateCopy(r)

ActivationsNext ==
    \/ Buy \/ Recover \/ Grant
    \/ \E t \in Txs : SkipEvent(t)
    \/ \E r \in Requests : Index(r) \/ Mirrors(r) \/ Copy(r) \/ Fail(r)

ActivationsSpec == ActivationsInit /\ [][ActivationsNext]_activationVars
-----------------------------------------------------------------------------
Quiet == \A r \in Requests : At(r, "idle")
Overtakes(i) == rows[i].by = "signup" /\ \E j \in 1..(i - 1) : rows[j].package > rows[i].package
Undisturbed == ~missed /\ failures = 0 /\ grants = 0

\* The package a member is shown, and paid by, is the one bought last on the
\* chain: once every event is stored and the contract's state was copied since
\* the last purchase, and no call took a decision that another one overtook,
\* exactly one row is current and it is of that package
\* (registration-sync.service.ts 77-100, chain-indexer.service.ts 1303-1335).
\* One exception: the sign-up's row, when it is created after a newer
\* package's, becomes the current one (activation-reward-mirror.service.ts 187-203).
CurrentFollowsChain ==
    (Quiet /\ Undisturbed /\ bought # <<>> /\ events = Txs /\ synced = Len(bought))
        => \E i \in Current :
            /\ Current = {i}
            /\ rows[i].package = ChainPackage \/ Overtakes(i)

\* A transaction of the chain has one row, whether its event or the sign-up
\* came first, also after calls that failed half-way: two only if a call
\* created a row while another had looked for one and found none
\* (chain-indexer.service.ts 1265-1302, activation-reward-mirror.service.ts 150-168).
OneRowPerPurchase ==
    ~missed => \A t \in Txs :
        Cardinality({i \in RowsOf(t) : rows[i].by \in {"event", "signup"}}) <= 1

\* What activation-reward-mirror.service.ts 72-75 says of the mirror: it
\* writes the rewards of an activation "when the indexer never ran
\* processActivationDistribution" and is idempotent, so a member's purchases
\* are never distributed more often than they were made.
PurchaseBookedOnce ==
    Quiet => Cardinality({i \in OnChain : rows[i].booked}) <= Len(bought)
=============================================================================
