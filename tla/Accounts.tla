------------------------------- MODULE Accounts -------------------------------
(* What one account's own requests share: the nonce a wallet signs to log in, *)
(* the refresh tokens of its sessions, and the custodial balance that         *)
(* activations are charged to. Every request reads, decides and writes in     *)
(* separate statements.                                                       *)
EXTENDS Integers, Sequences, FiniteSets

CONSTANTS
    Doors,         \* requests that can be under way together
    SessionTicks,  \* life of a token: one hour
    NonceTicks,    \* life of a nonce
    MaxHours,      \* bound of the clock
    MaxNonces, MaxTokens, MaxLogouts, MaxStatus, MaxCharges,
    Tiers,         \* tier |-> price
    Requires,      \* tiers that need another one first: tier |-> that tier
    NoTier,
    Credit         \* USDT credited at sign-up

ASSUME AccountsAssumption ==
    /\ SessionTicks \in Nat \ {0} /\ NonceTicks \in Nat \ {0}
    /\ \A t \in DOMAIN Tiers : Tiers[t] \in Nat
    /\ NoTier \notin DOMAIN Tiers /\ Credit \in Nat

VARIABLES
    store,      \* nonces are in "redis", or without one in a "table"
    hour,       \* the clock
    nonces,     \* those a login may still use, each with its end
    issued,     \* nonces issued so far
    issuing,    \* requests that have emptied the table and not added their nonce
    tokens,     \* rows of RefreshToken
    active, blocked,  \* of the user
    door,       \* what each request is doing
    shared,     \* history: nonces and tokens two requests had both read
    logouts, statuses,
    balance, tier,    \* custodialUsdtBalance and the current package
    charging,   \* what each activation is doing
    charges,
    chargedTogether   \* history: two activations had both read the balance

sessionVars == <<store, hour, nonces, issued, issuing, tokens, active, blocked, door, shared,
                 logouts, statuses>>
custodyVars == <<balance, tier, charging, charges, chargedTogether>>
accountVars == <<sessionVars, custodyVars>>

Waiting == [at |-> "waiting"]
Stands(d, stage) == door[d].at = stage
Opens(d, doing) == door' = [door EXCEPT ![d] = doing]

Live(i) == ~tokens[i].revoked /\ hour < tokens[i].expires
Nonce(n) == [kind |-> "nonce", id |-> n]
TokenKey(i) == [kind |-> "token", id |-> i]
Public == [kind |-> "public", id |-> 0]
MaySignIn == active /\ ~blocked
-----------------------------------------------------------------------------
(* Nonces: issueWalletNonce and consumeWalletNonce. *)

NewNonce == [id |-> issued + 1, expires |-> hour + NonceTicks]

\* In redis a wallet has one nonce: the next one replaces it.
IssueNonce ==
    /\ store = "redis" /\ issued < MaxNonces
    /\ issued' = issued + 1
    /\ nonces' = {NewNonce}
    /\ UNCHANGED <<store, hour, issuing, tokens, active, blocked, door, shared, logouts, statuses, custodyVars>>

\* In the table its rows are deleted and then one is created, so that of two
\* requests both may leave one.
ClearNonces ==
    /\ store = "table" /\ issued + issuing < MaxNonces
    /\ nonces' = {}
    /\ issuing' = issuing + 1
    /\ UNCHANGED <<store, hour, issued, tokens, active, blocked, door, shared, logouts, statuses, custodyVars>>

CreateNonce ==
    /\ issuing > 0
    /\ issuing' = issuing - 1
    /\ issued' = issued + 1
    /\ nonces' = nonces \cup {NewNonce}
    /\ UNCHANGED <<store, hour, tokens, active, blocked, door, shared, logouts, statuses, custodyVars>>

\* Another request has read the same nonce or token and has not finished.
AlsoReading(d, stage, key) == \E e \in Doors \ {d} : Stands(e, stage) /\ door[e].key = key

Reads(d, stage, key) ==
    /\ Opens(d, [at |-> stage, key |-> key, epoch |-> logouts])
    /\ shared' = IF AlsoReading(d, stage, key) THEN shared \cup {key} ELSE shared

ReadNonce(d) ==
    /\ Stands(d, "waiting")
    /\ \E n \in nonces :
        /\ hour < n.expires
        /\ Reads(d, "nonce", Nonce(n.id))
    /\ UNCHANGED <<store, hour, nonces, issued, issuing, tokens, active, blocked, logouts, statuses, custodyVars>>

Bug_NotDeleted(key) == nonces' = nonces

\* Redis deletes the wallet's key, which may hold a newer nonce by then.
Deletes(key) ==
    nonces' = IF store = "redis" THEN {} ELSE {n \in nonces : n.id # key.id}

\* Redis deletes whether or not the key is still there; the table's delete
\* throws when another request was first.
\* Then the signature is verified and the user's flags are read.
ConsumeNonce(d) ==
    /\ Stands(d, "nonce")
    /\ LET key == door[d].key
           isThere == \E n \in nonces : n.id = key.id IN
        /\ Deletes(key)
        /\ Opens(d, IF (store = "redis" \/ isThere) /\ MaySignIn
                    THEN [door[d] EXCEPT !.at = "login"] ELSE Waiting)
    /\ UNCHANGED <<store, hour, issued, issuing, tokens, active, blocked, shared, logouts, statuses, custodyVars>>
-----------------------------------------------------------------------------
(* Sessions. *)

\* "from" is the nonce, the row or the public identifier it was issued for.
Token(from, epoch) ==
    [from |-> from, epoch |-> epoch, late |-> epoch < logouts,
     expires |-> hour + SessionTicks, revoked |-> FALSE]

Issues(d, from) ==
    /\ Len(tokens) < MaxTokens
    /\ tokens' = Append(tokens, Token(from, door[d].epoch))
    /\ Opens(d, Waiting)

\* loginWithWallet, and registerWithWallet and linkWalletForUser of a known wallet.
OpenSession(d) ==
    /\ Stands(d, "login")
    /\ Issues(d, door[d].key)
    /\ UNCHANGED <<store, hour, nonces, issued, issuing, active, blocked, shared, logouts, statuses, custodyVars>>

\* Anyone may open a view-only session by the user's number or wallet; by the
\* number a blocked user's too.
LoginPublic(d) ==
    /\ Stands(d, "waiting") /\ active
    /\ Len(tokens) < MaxTokens
    /\ tokens' = Append(tokens, Token(Public, logouts))
    /\ UNCHANGED <<store, hour, nonces, issued, issuing, active, blocked, door, shared, logouts, statuses, custodyVars>>

\* The presented token is compared with the hash of each live row. bcrypt hashes
\* 72 bytes, which the tokens of one user share, so it may find any of them.
FindToken(d, i) ==
    /\ Stands(d, "waiting") /\ Live(i)
    /\ Reads(d, "found", TokenKey(i))
    /\ UNCHANGED <<store, hour, nonces, issued, issuing, tokens, active, blocked, logouts, statuses, custodyVars>>

\* Only isActive is asked for here; a blocked user's requests are refused later.
RevokeToken(d) ==
    /\ Stands(d, "found")
    /\ IF active
       THEN /\ tokens' = [tokens EXCEPT ![door[d].key.id].revoked = TRUE]
            /\ Opens(d, [door[d] EXCEPT !.at = "revoked"])
       ELSE Opens(d, Waiting) /\ UNCHANGED tokens
    /\ UNCHANGED <<store, hour, nonces, issued, issuing, active, blocked, shared, logouts, statuses, custodyVars>>

RenewToken(d) ==
    /\ Stands(d, "revoked")
    /\ Issues(d, door[d].key)
    /\ UNCHANGED <<store, hour, nonces, issued, issuing, active, blocked, shared, logouts, statuses, custodyVars>>

Bug_LogoutNewest ==
    /\ logouts < MaxLogouts /\ MaySignIn /\ tokens # <<>>
    /\ logouts' = logouts + 1
    /\ tokens' = [tokens EXCEPT ![Len(tokens)].revoked = TRUE]
    /\ UNCHANGED <<store, hour, nonces, issued, issuing, active, blocked, door, shared, statuses, custodyVars>>

\* One statement for every token of the user. The access token that asked for
\* it stays valid for its hour: requests only look at the user's flags.
LogoutAll ==
    /\ logouts < MaxLogouts /\ MaySignIn /\ tokens # <<>>
    /\ logouts' = logouts + 1
    /\ tokens' = [i \in DOMAIN tokens |-> [tokens[i] EXCEPT !.revoked = TRUE]]
    /\ UNCHANGED <<store, hour, nonces, issued, issuing, active, blocked, door, shared, statuses, custodyVars>>

\* An administrator's PATCH of a user's status; it touches no token.
SetStatus ==
    /\ statuses < MaxStatus
    /\ statuses' = statuses + 1
    /\ active' \in BOOLEAN /\ blocked' \in BOOLEAN
    /\ UNCHANGED <<store, hour, nonces, issued, issuing, tokens, door, shared, logouts, custodyVars>>

HourPasses ==
    /\ hour < MaxHours
    /\ hour' = hour + 1
    /\ UNCHANGED <<store, nonces, issued, issuing, tokens, active, blocked, door, shared, logouts, statuses, custodyVars>>
-----------------------------------------------------------------------------
(* The custodial balance: POST /packages/activate. *)

Free == [at |-> "free"]
Charges(d, doing) == charging' = [charging EXCEPT ![d] = doing]

Price(t) == IF t = NoTier THEN 0 ELSE Tiers[t]
Owed(t) == IF Price(t) > Price(tier) THEN Price(t) - Price(tier) ELSE 0

\* Days in the required tier and trading days are left out: any wait may be over.
Eligible(t) == t \in DOMAIN Requires => tier = Requires[t]

Bug_NoFunds(d, t) ==
    /\ charging[d].at = "free" /\ charges < MaxCharges
    /\ Eligible(t)
    /\ charges' = charges + 1
    /\ Charges(d, [at |-> "priced", tier |-> t, owed |-> Owed(t)])
    /\ chargedTogether' = (chargedTogether \/ \E e \in Doors \ {d} : charging[e].at = "priced")
    /\ UNCHANGED <<sessionVars, balance, tier>>

\* The tier, the balance and the current package are read outside the transaction.
PriceActivation(d, t) ==
    /\ charging[d].at = "free" /\ charges < MaxCharges
    /\ Eligible(t) /\ Owed(t) <= balance
    /\ charges' = charges + 1
    /\ Charges(d, [at |-> "priced", tier |-> t, owed |-> Owed(t)])
    /\ chargedTogether' = (chargedTogether \/ \E e \in Doors \ {d} : charging[e].at = "priced")
    /\ UNCHANGED <<sessionVars, balance, tier>>

\* The distribution that follows is IncomeLedger's.
ChargeActivation(d) ==
    /\ charging[d].at = "priced"
    /\ balance' = balance - charging[d].owed
    /\ tier' = charging[d].tier
    /\ Charges(d, Free)
    /\ UNCHANGED <<sessionVars, charges, chargedTogether>>
-----------------------------------------------------------------------------
\* After sign-up: registerWithWallet has credited the balance and charged the
\* entry tier to it.
AccountsInit ==
    /\ store \in {"redis", "table"}
    /\ hour = 0 /\ nonces = {} /\ issued = 0 /\ issuing = 0 /\ tokens = <<>>
    /\ active = TRUE /\ blocked = FALSE
    /\ door = [d \in Doors |-> Waiting]
    /\ shared = {} /\ logouts = 0 /\ statuses = 0
    /\ \E entry \in DOMAIN Tiers :
        /\ \A t \in DOMAIN Tiers : Tiers[entry] <= Tiers[t]
        /\ Credit >= Tiers[entry]
        /\ tier = entry /\ balance = Credit - Tiers[entry]
    /\ charging = [d \in Doors |-> Free]
    /\ charges = 0 /\ chargedTogether = FALSE

Login(d) == ReadNonce(d) \/ ConsumeNonce(d) \/ OpenSession(d) \/ LoginPublic(d)
Refresh(d) == (\E i \in DOMAIN tokens : FindToken(d, i)) \/ RevokeToken(d) \/ RenewToken(d)
Custody(d) == (\E t \in DOMAIN Tiers : PriceActivation(d, t)) \/ ChargeActivation(d)

Sessions ==
    \/ IssueNonce \/ ClearNonces \/ CreateNonce
    \/ LogoutAll \/ SetStatus \/ HourPasses
    \/ \E d \in Doors : Login(d) \/ Refresh(d)

AccountsNext == Sessions \/ \E d \in Doors : Custody(d)

AccountsSpec == AccountsInit /\ [][AccountsNext]_accountVars
-----------------------------------------------------------------------------
\* A nonce opens one session and a row of a refresh token is exchanged once, unless two
\* requests had both read it before either deleted or revoked it; in the table
\* not even then for a nonce (auth.service.ts 321-338, 818-854).
CredentialsUsedOnce ==
    \A i, j \in DOMAIN tokens :
        (i # j /\ tokens[i].from = tokens[j].from /\ tokens[i].from # Public) =>
            /\ tokens[i].from \in shared
            /\ store = "redis" \/ tokens[i].from.kind = "token"

\* Logging out ends every row: one that lives on was issued by
\* a request that had begun before the logout and ended after it
\* (auth.service.ts 859-864, 837-854).
LogoutEndsSessions ==
    \A i \in DOMAIN tokens : (Live(i) /\ tokens[i].epoch < logouts) => tokens[i].late

\* An account is never charged more than it holds, unless two of its
\* activations read the balance before either was charged
\* (package.routes.ts 81-112).
NeverOverdrawn == balance >= 0 \/ chargedTogether
=============================================================================
