------------------------------ MODULE Referrals ------------------------------
(* The sponsor tree as the database keeps it: the sponsor of a member, one   *)
(* edge for every ancestor up to a depth, and two counters on every member.  *)
(* Signing up writes them one statement after the other, outside any         *)
(* transaction; an administrator rewires a leaf or recounts everybody.       *)
EXTENDS Naturals, FiniteSets, Sums

CONSTANTS
    Members, Founder,  \* the first account has no sponsor
    NoMember,
    Attaching,         \* calls that can be under way together
    Depth,             \* levels an edge is kept for: 20
    MaxRare            \* rewires, recounts and lost calls

ASSUME TreeAssumption ==
    /\ Founder \in Members /\ NoMember \notin Members
    /\ IsFiniteSet(Members) /\ IsFiniteSet(Attaching)
    /\ Depth \in Nat \ {0}

VARIABLES
    joined,      \* members with an account
    sponsor,     \* User.sponsorId
    edges,       \* ReferralEdge: <<ancestor, member>> |-> how many rows
    directs,     \* User.directReferralCount
    team,        \* User.teamCount
    attaching,   \* what each call is doing
    alone,       \* the calls under way began when nothing was
    countsOff, edgesOff,  \* history: something since may have disturbed them
    bothRewire,  \* history: two rewires were under way together
    rare

calls == <<attaching, alone, countsOff, edgesOff, bothRewire>>
treeVars == <<joined, sponsor, edges, directs, team, calls, rare>>

Pairs == Members \X Members

TreeTypeOK ==
    /\ joined \subseteq Members
    /\ sponsor \in [Members -> Members \cup {NoMember}]
    /\ edges \in [Pairs -> Nat]
    /\ directs \in [Members -> Nat] /\ team \in [Members -> Nat]
    /\ countsOff \in BOOLEAN /\ edgesOff \in BOOLEAN /\ bothRewire \in BOOLEAN

Resting == [at |-> "resting"]
Does(c, stage) == attaching[c].at = stage
Turns(c, doing) == attaching' = [attaching EXCEPT ![c] = doing]
IsResting(c) == Does(c, "resting")
Calm == \A c \in Attaching : IsResting(c)

Rarely == rare < MaxRare /\ rare' = rare + 1

IsSignUp(c) == attaching[c].at \in {"direct", "edge", "team"}
IsRewire(c) == attaching[c].at \in {"checked", "rewired"}

Children(s) == {u \in joined : sponsor[u] = s}

\* Members counted below a.
Team(a) == SumOver(Members, [m \in Members |-> edges[<<a, m>>]])

\* Ancestor of a level under these sponsors, NoMember above the top.
Climb(sponsors, u) ==
    LET up[k \in Nat] ==
            IF k = 0 THEN u
            ELSE IF up[k - 1] = NoMember THEN NoMember ELSE sponsors[up[k - 1]]
    IN  up

Upline(u) == Climb(sponsor, u)

Ancestors(u, depth) == {Upline(u)[k] : k \in 1..depth} \ {NoMember}

\* A call begins. Sign-ups may overlap; a rewire or a recount beside another
\* call may leave the tree as neither would have.
Begins(c, doing, isSignUp) ==
    LET mixed == ~Calm /\ ~(isSignUp /\ \A d \in Attaching : IsResting(d) \/ IsSignUp(d)) IN
    /\ IsResting(c)
    /\ Turns(c, doing)
    /\ alone' = Calm
    /\ countsOff' = (countsOff \/ mixed)
    /\ edgesOff' = (edgesOff \/ mixed)
-----------------------------------------------------------------------------
(* Sign-up: the account, then attachNewUserToTree. *)

SignUpUnder(c, u, s) ==
    /\ u \notin joined /\ s \in joined
    /\ joined' = joined \cup {u}
    /\ sponsor' = [sponsor EXCEPT ![u] = s]
    /\ Begins(c, [at |-> "direct", member |-> u, above |-> s], TRUE)
    /\ UNCHANGED <<edges, directs, team, bothRewire, rare>>

CountDirect(c) ==
    /\ Does(c, "direct")
    /\ LET call == attaching[c] IN
        /\ directs' = [directs EXCEPT ![call.above] = @ + 1]
        /\ Turns(c, [at |-> "edge", member |-> call.member, above |-> call.above, level |-> 1])
    /\ UNCHANGED <<joined, sponsor, edges, team, alone, countsOff, edgesOff, bothRewire, rare>>

AddEdge(c) ==
    /\ Does(c, "edge")
    /\ edges' = [edges EXCEPT ![<<attaching[c].above, attaching[c].member>>] = @ + 1]
    /\ Turns(c, [attaching[c] EXCEPT !.at = "team"])
    /\ UNCHANGED <<joined, sponsor, directs, team, alone, countsOff, edgesOff, bothRewire, rare>>

MoreLevels(level) == level < Depth

\* Counts the member for the ancestor and reads the next one.
CountTeam(c) ==
    /\ Does(c, "team")
    /\ LET call == attaching[c]
           next == sponsor[call.above] IN
        /\ team' = [team EXCEPT ![call.above] = @ + 1]
        /\ Turns(c, IF next # NoMember /\ MoreLevels(call.level)
                    THEN [call EXCEPT !.at = "edge", !.above = next, !.level = @ + 1]
                    ELSE Resting)
    /\ UNCHANGED <<joined, sponsor, edges, directs, alone, countsOff, edgesOff, bothRewire, rare>>
-----------------------------------------------------------------------------
(* Recount: every user's two counts are read and then written. *)

Recount(c) ==
    /\ Rarely
    /\ Begins(c, [at |-> "count", todo |-> joined], FALSE)
    /\ UNCHANGED <<joined, sponsor, edges, directs, team, bothRewire>>

CountOne(c) ==
    /\ Does(c, "count")
    /\ \E u \in attaching[c].todo :
        Turns(c, [at |-> "write", todo |-> attaching[c].todo \ {u}, member |-> u,
                  directs |-> Cardinality(Children(u)),
                  team |-> Team(u)])
    /\ UNCHANGED <<joined, sponsor, edges, directs, team, alone, countsOff, edgesOff, bothRewire, rare>>

Bug_AddsCounts(c) ==
    /\ Does(c, "write")
    /\ LET call == attaching[c] IN
        /\ directs' = [directs EXCEPT ![call.member] = call.directs]
        /\ team' = [team EXCEPT ![call.member] = @ + call.team]
        /\ Turns(c, [at |-> "count", todo |-> call.todo])
    /\ UNCHANGED <<joined, sponsor, edges, alone, countsOff, edgesOff, bothRewire, rare>>

WriteOne(c) ==
    /\ Does(c, "write")
    /\ LET call == attaching[c] IN
        /\ directs' = [directs EXCEPT ![call.member] = call.directs]
        /\ team' = [team EXCEPT ![call.member] = call.team]
        /\ Turns(c, [at |-> "count", todo |-> call.todo])
    /\ UNCHANGED <<joined, sponsor, edges, alone, countsOff, edgesOff, bothRewire, rare>>

\* Nothing else was under way from its beginning to its end.
CountedAll(c) ==
    /\ Does(c, "count") /\ attaching[c].todo = {}
    /\ countsOff' = (countsOff /\ ~alone)
    /\ Turns(c, Resting)
    /\ UNCHANGED <<joined, sponsor, edges, directs, team, alone, edgesOff, bothRewire, rare>>
-----------------------------------------------------------------------------
(* Rewire: rewireSponsorForLeafUser. It checks outside its transaction that  *)
(* the member has no directs and that the new sponsor is not below it.       *)

Bug_Unchecked(c, u, s) ==
    /\ Rarely
    /\ u \in joined /\ s \in (joined \cup {NoMember}) \ {u}
    /\ bothRewire' = (bothRewire \/ \E d \in Attaching : IsRewire(d))
    /\ Begins(c, [at |-> "checked", member |-> u, to |-> s], FALSE)
    /\ UNCHANGED <<joined, sponsor, edges, directs, team>>

Rewire(c, u, s) ==
    /\ Rarely
    /\ u \in joined /\ s \in (joined \cup {NoMember}) \ {u}
    /\ Children(u) = {}
    /\ s # NoMember => u \notin Ancestors(s, Cardinality(Members))
    /\ bothRewire' = (bothRewire \/ \E d \in Attaching : IsRewire(d))
    /\ Begins(c, [at |-> "checked", member |-> u, to |-> s], FALSE)
    /\ UNCHANGED <<joined, sponsor, edges, directs, team>>

\* The transaction: the member's edges are deleted and it is attached again.
\* Its old ancestors keep their counts until the recount that follows.
Reattach(c) ==
    /\ Does(c, "checked")
    /\ LET u == attaching[c].member
           s == attaching[c].to
           newSponsor == [sponsor EXCEPT ![u] = s]
           times(a) == Cardinality({k \in 1..Depth : Climb(newSponsor, u)[k] = a})
       IN
        /\ sponsor' = newSponsor
        /\ edges' = [p \in Pairs |-> IF p[2] = u THEN times(p[1]) ELSE edges[p]]
        /\ directs' = IF s = NoMember THEN directs ELSE [directs EXCEPT ![s] = @ + 1]
        /\ team' = [m \in Members |-> team[m] + times(m)]
    /\ Turns(c, [at |-> "count", todo |-> joined])
    /\ UNCHANGED <<joined, alone, countsOff, edgesOff, bothRewire, rare>>

\* The process stops, or a statement fails.
Lose(c) ==
    /\ ~IsResting(c) /\ Rarely
    /\ Turns(c, Resting)
    /\ countsOff' = TRUE /\ edgesOff' = TRUE
    /\ UNCHANGED <<joined, sponsor, edges, directs, team, alone, bothRewire>>
-----------------------------------------------------------------------------
TreeInit ==
    /\ joined = {Founder}
    /\ sponsor = [u \in Members |-> NoMember]
    /\ edges = [p \in Pairs |-> 0]
    /\ directs = [u \in Members |-> 0] /\ team = [u \in Members |-> 0]
    /\ attaching = [c \in Attaching |-> Resting]
    /\ alone = TRUE /\ countsOff = FALSE /\ edgesOff = FALSE /\ bothRewire = FALSE
    /\ rare = 0

Attach(c) == CountDirect(c) \/ AddEdge(c) \/ CountTeam(c)
RecountStep(c) == CountOne(c) \/ WriteOne(c) \/ CountedAll(c)

TreeNext ==
    \E c \in Attaching :
        \/ \E u, s \in Members : SignUpUnder(c, u, s)
        \/ \E u \in Members, s \in Members \cup {NoMember} : Rewire(c, u, s)
        \/ Attach(c) \/ Recount(c) \/ RecountStep(c) \/ Reattach(c) \/ Lose(c)

TreeSpec == TreeInit /\ [][TreeNext]_treeVars
-----------------------------------------------------------------------------
\* The edges are the sponsor chain, once each, up to the depth: any number of
\* sign-ups under way together write them right, and so does a rewire that
\* runs alone (referral.service.ts 81-95, 147-155).
EdgesFollowSponsors ==
    (Calm /\ ~edgesOff) =>
        \A a, u \in Members :
            edges[<<a, u>>] = IF a \in Ancestors(u, Depth) THEN 1 ELSE 0

\* The counters a member is paid and ranked by are those of the tree, and a
\* recount that ran alone makes them so whatever happened before: lost calls,
\* or calls that raced (referral.service.ts 73-90, 98-110).
CountsFollowTree ==
    (Calm /\ ~countsOff) =>
        \A s \in Members :
            /\ directs[s] = Cardinality(Children(s))
            /\ team[s] = Team(s)

\* What every page, payout and rank reads of the tree is what the sponsors say:
\* the edges and the counters both (referral.service.ts 68-110, 147-157).
TreeRowsFollowSponsors == EdgesFollowSponsors /\ CountsFollowTree

\* No member is its own ancestor unless two rewires were under way together,
\* each checked before the other's transaction (referral.service.ts 112-125, 139).
LoopsNeedTwoRewires ==
    bothRewire \/ \A u \in Members : u \notin Ancestors(u, Cardinality(Members))
=============================================================================
