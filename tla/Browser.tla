-------------------------------- MODULE Browser --------------------------------
(* The session as the web application keeps it: localStorage, which all tabs   *)
(* share, holds the pair of tokens and two times. Each tab refreshes the pair  *)
(* on a 401 and ends the session by its own timer, and awaits the server in    *)
(* between (api/client.ts, context/AuthContext.tsx, services/authService.ts).  *)
EXTENDS Integers, Sequences

CONSTANTS
    Tabs,
    HourTicks,   \* life of both tokens of a pair, and MAX_SESSION_MS
    IdleTicks,   \* DEFAULT_IDLE_MS
    MaxTicks, MaxPairs   \* bounds

ASSUME BrowserAssumption ==
    /\ HourTicks \in Nat \ {0} /\ IdleTicks \in Nat \ {0}
    /\ MaxTicks \in Nat /\ MaxPairs \in Nat

VARIABLES
    ticks,     \* the clock
    kept,      \* localStorage: the pair, SESSION_START and LAST_ACTIVITY
    pairs,     \* the pairs issued, in order
    ended,     \* pairs whose row of RefreshToken is revoked
    tab,       \* what each tab is doing
    touched    \* history: when the user last did something in this session

browserVars == <<ticks, kept, pairs, ended, tab, touched>>

Unset == -1
NoPair == 0
Nothing == [pair |-> NoPair, start |-> Unset, last |-> Unset]

SignedIn == kept.pair # NoPair
Expired(i) == ticks >= pairs[i].at + HourTicks
HasRow(i) == i \notin ended /\ ~Expired(i)

IsIn(w, stage) == tab[w].at = stage
Turn(w, doing) == tab' = [tab EXCEPT ![w] = doing]
Browsing == [at |-> "open"]
Shut == [at |-> "shut"]

\* AuthProvider's effect writes SESSION_START where there is none; the token
\* carries the time of its issue.
Started(storage, time) == [storage EXCEPT !.start = IF @ = Unset THEN time ELSE @]

\* The session of a pair is the login it comes from, by refresh after refresh.
Issue(session, since) ==
    /\ Len(pairs) < MaxPairs
    /\ pairs' = Append(pairs, [at |-> ticks, session |-> session, since |-> since])

Session == pairs[kept.pair]
-----------------------------------------------------------------------------
OpenTab(w) ==
    /\ IsIn(w, "shut")
    /\ Turn(w, Browsing)
    /\ kept' = IF SignedIn THEN Started(kept, Session.at) ELSE kept
    /\ UNCHANGED <<ticks, pairs, ended, touched>>

\* logoutKeepalive: the user's rows are revoked, localStorage is left alone.
\* A reload closes a tab as well.
CloseTab(w) ==
    /\ ~IsIn(w, "shut")
    /\ Turn(w, Shut)
    /\ ended' = IF SignedIn /\ ~Expired(kept.pair) THEN DOMAIN pairs ELSE ended
    /\ UNCHANGED <<ticks, kept, pairs, touched>>

\* A login ends in setSession, which keeps a SESSION_START that it finds.
EnterSession(w) ==
    /\ IsIn(w, "open") /\ ~SignedIn
    /\ Issue(Len(pairs) + 1, ticks)
    /\ kept' = Started([kept EXCEPT !.pair = Len(pairs) + 1, !.last = ticks], ticks)
    /\ touched' = ticks
    /\ UNCHANGED <<ticks, ended, tab>>

\* A view-only session is made a wallet session by a login of its own: SESSION_START
\* stays the view-only session's, and so does its row.
UpgradeSession(w) ==
    /\ IsIn(w, "open") /\ SignedIn
    /\ Issue(Session.session, Session.since)
    /\ kept' = [kept EXCEPT !.pair = Len(pairs) + 1, !.last = ticks]
    /\ touched' = ticks
    /\ UNCHANGED <<ticks, ended, tab>>

Touch(w) ==
    /\ ~IsIn(w, "shut") /\ SignedIn
    /\ kept' = [kept EXCEPT !.last = ticks]
    /\ touched' = ticks
    /\ UNCHANGED <<ticks, pairs, ended, tab>>

Tick ==
    /\ ticks < MaxTicks
    /\ ticks' = ticks + 1
    /\ UNCHANGED <<kept, pairs, ended, tab, touched>>
-----------------------------------------------------------------------------
(* The interceptor: a request whose access token has expired gets a 401. *)

Bug_AskOnAnyError(w) ==
    /\ IsIn(w, "open") /\ SignedIn
    /\ Turn(w, [at |-> "refused", session |-> Session.session])
    /\ UNCHANGED <<ticks, kept, pairs, ended, touched>>

Ask(w) ==
    /\ IsIn(w, "open") /\ SignedIn /\ Expired(kept.pair)
    /\ Turn(w, [at |-> "refused", session |-> Session.session])
    /\ UNCHANGED <<ticks, kept, pairs, ended, touched>>

\* refreshAccessToken reads the refresh token when the 401 arrives; another tab
\* may have stored a new one, or removed it.
ReadPair(w) ==
    /\ IsIn(w, "refused")
    /\ IF SignedIn
       THEN Turn(w, [at |-> "renewing", session |-> tab[w].session, pair |-> kept.pair])
       ELSE Turn(w, Browsing)
    /\ UNCHANGED <<ticks, kept, pairs, ended, touched>>

\* The server revokes a live row of the user and issues the next pair.
Renewed(w) ==
    /\ IsIn(w, "renewing") /\ ~Expired(tab[w].pair)
    /\ \E i \in DOMAIN pairs :
        /\ HasRow(i)
        /\ ended' = ended \cup {i}
        /\ Issue(pairs[tab[w].pair].session, pairs[tab[w].pair].since)
        /\ kept' = Started([kept EXCEPT !.pair = Len(pairs) + 1], ticks)
    /\ Turn(w, Browsing)
    /\ UNCHANGED <<ticks, touched>>

\* clearTokens: SESSION_START and LAST_ACTIVITY stay. Any error of the request
\* has the same end.
Rejected(w) ==
    /\ IsIn(w, "renewing")
    /\ kept' = [kept EXCEPT !.pair = NoPair]
    /\ Turn(w, Browsing)
    /\ UNCHANGED <<ticks, pairs, ended, touched>>
-----------------------------------------------------------------------------
(* logout, by the user or by the tab's timer. *)

\* POST /api/auth/logout revokes all rows of the user, if the access token is
\* still valid.
BeginLogout(w) ==
    /\ Turn(w, [at |-> "leaving", repeats |-> Expired(kept.pair)])
    /\ ended' = IF Expired(kept.pair) THEN ended ELSE DOMAIN pairs
    /\ UNCHANGED <<ticks, kept, pairs, touched>>

LogOut(w) == IsIn(w, "open") /\ SignedIn /\ BeginLogout(w)

\* Every 10 seconds.
TimerFires(w) ==
    /\ IsIn(w, "open") /\ SignedIn
    /\ \/ ticks - kept.start >= HourTicks
       \/ kept.last # Unset /\ ticks - kept.last >= IdleTicks
    /\ BeginLogout(w)

\* A request that got a 401 is repeated with the pair another tab has stored by
\* then. Whatever the answer, all of localStorage goes.
Leave(w) ==
    /\ IsIn(w, "leaving")
    /\ ended' \in IF tab[w].repeats /\ SignedIn /\ ~Expired(kept.pair)
                  THEN {ended, DOMAIN pairs} ELSE {ended}
    /\ kept' = Nothing
    /\ Turn(w, Browsing)
    /\ UNCHANGED <<ticks, pairs, touched>>
-----------------------------------------------------------------------------
BrowserInit ==
    /\ ticks = 0 /\ touched = 0
    /\ kept = Nothing
    /\ pairs = <<>> /\ ended = {}
    /\ tab = [w \in Tabs |-> Shut]

BrowserNext ==
    \/ Tick
    \/ \E w \in Tabs :
        \/ OpenTab(w) \/ CloseTab(w) \/ EnterSession(w) \/ UpgradeSession(w) \/ Touch(w)
        \/ Ask(w) \/ ReadPair(w) \/ Renewed(w) \/ Rejected(w)
        \/ TimerFires(w) \/ LogOut(w) \/ Leave(w)

BrowserSpec == BrowserInit /\ [][BrowserNext]_browserVars
-----------------------------------------------------------------------------
IsOld == ticks - Session.since >= HourTicks

\* A session in use goes on for its hour. Its timer does not end it before,
\* unless it runs from the SESSION_START of an earlier session, which the 401
\* interceptor leaves behind; and the interceptor does not end it, unless the
\* tab's request was an earlier session's (AuthContext.tsx 85-97, 162-174,
\* client.ts 44-93).
SessionGoesOn ==
    [][\A w \in Tabs :
        /\ TimerFires(w) =>
             \/ IsOld \/ ticks - touched >= IdleTicks
             \/ kept.start < Session.since /\ ticks - kept.start >= HourTicks
        /\ (Rejected(w) /\ SignedIn) =>
             IsOld \/ tab[w].session # Session.session]_browserVars
=============================================================================
