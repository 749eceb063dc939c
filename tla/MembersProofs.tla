---------------------------- MODULE MembersProofs ----------------------------
(***************************************************************************)
(* Theorems of Referrals, for every finite set of members and of calls     *)
(* under way together, every depth of the tree and any number of rewires,  *)
(* recounts and lost calls; and of Activations, for every set of packages  *)
(* and of calls, and any number of purchases, rows, failures and grants.   *)
(***************************************************************************)
EXTENDS Referrals, Activations, SumsProofs

(***************************************************************************)
(* The chain of sponsors as the orbit of one function.                     *)
(***************************************************************************)

\* The member one level further up.
Above(sp, x) == IF x = NoMember THEN NoMember ELSE sp[x]

Climbing(sp, u, D, g) ==
    g = [k \in D |-> IF k = 0 THEN u
                     ELSE IF g[k - 1] = NoMember THEN NoMember ELSE sp[g[k - 1]]]

\* A climb of n levels, level by level.
LEMMA ClimbingAt ==
    ASSUME NEW sp, NEW u, NEW D, NEW g, Climbing(sp, u, D, g)
    PROVE  \A k \in D : g[k] = IF k = 0 THEN u ELSE Above(sp, g[k - 1])
    BY DEF Climbing, Above

\* There is one climb of a length ...
LEMMA ClimbingUnique ==
    ASSUME NEW sp, NEW u, NEW m \in Nat, NEW n \in Nat, NEW g, NEW h,
           Climbing(sp, u, 0 .. m, g), Climbing(sp, u, 0 .. n, h)
    PROVE  \A k \in Nat : k <= m /\ k <= n => g[k] = h[k]
<1>4. \A k \in 0 .. m : g[k] = IF k = 0 THEN u ELSE Above(sp, g[k - 1])
    BY DEF Climbing, Above
<1>5. \A k \in 0 .. n : h[k] = IF k = 0 THEN u ELSE Above(sp, h[k - 1])
    BY DEF Climbing, Above
<1> DEFINE P == {k \in Nat : k <= m /\ k <= n => g[k] = h[k]}
<1>1. 0 \in P
    <2>1. 0 \in 0 .. m /\ 0 \in 0 .. n
        OBVIOUS
    <2> QED
        BY <1>4, <1>5, <2>1
<1>2. ASSUME NEW k \in Nat, k \in P PROVE k + 1 \in P
    <2> SUFFICES ASSUME k + 1 <= m, k + 1 <= n PROVE g[k + 1] = h[k + 1]
        OBVIOUS
    <2>1. k + 1 \in 0 .. m /\ k + 1 \in 0 .. n /\ k + 1 # 0 /\ (k + 1) - 1 = k
        OBVIOUS
    <2>2. g[k] = h[k]
        BY <1>2
    <2>3. g[k + 1] = Above(sp, g[k]) /\ h[k + 1] = Above(sp, h[k])
        BY <1>4, <1>5, <2>1
    <2> QED
        BY <2>2, <2>3
<1>3. \A k \in Nat : k \in P
    <2> HIDE DEF P
    <2> QED
        BY <1>1, <1>2, AllNaturals
<1> QED
    BY <1>3

\* ... and it exists.
LEMMA ClimbingExists ==
    ASSUME NEW sp, NEW u
    PROVE  \A n \in Nat : \E g : Climbing(sp, u, 0 .. n, g)
<1> DEFINE P == {n \in Nat : \E g : Climbing(sp, u, 0 .. n, g)}
<1>1. 0 \in P
    <2> DEFINE g == [k \in 0 .. 0 |-> u]
    <2>1. \A k \in 0 .. 0 : k = 0
        OBVIOUS
    <2>2. Climbing(sp, u, 0 .. 0, g)
        BY <2>1 DEF Climbing
    <2> QED
        BY <2>2
<1>2. ASSUME NEW n \in Nat, n \in P PROVE n + 1 \in P
    <2>1. PICK g : Climbing(sp, u, 0 .. n, g)
        BY <1>2
    <2> DEFINE h == [k \in 0 .. n + 1 |-> IF k <= n THEN g[k] ELSE Above(sp, g[n])]
    <2>2. ASSUME NEW k \in 0 .. n + 1
          PROVE  h[k] = IF k = 0 THEN u
                        ELSE IF h[k - 1] = NoMember THEN NoMember ELSE sp[h[k - 1]]
        <3>1. CASE k = n + 1
            <4>1. h[k] = Above(sp, g[n]) /\ k - 1 \in 0 .. n + 1 /\ k - 1 = n /\ k # 0
                BY <3>1
            <4>2. h[k - 1] = g[n]
                BY <4>1
            <4> QED
                BY <4>1, <4>2 DEF Above
        <3>2. CASE k # n + 1
            <4>1. k \in 0 .. n /\ h[k] = g[k]
                BY <3>2
            <4>4. \A i \in 0 .. n : g[i] = IF i = 0 THEN u ELSE Above(sp, g[i - 1])
                BY <2>1, ClimbingAt
            <4>2. g[k] = IF k = 0 THEN u ELSE Above(sp, g[k - 1])
                BY <4>1, <4>4
            <4>3. k # 0 => k - 1 \in 0 .. n + 1 /\ h[k - 1] = g[k - 1]
                BY <4>1
            <4> HIDE DEF h
            <4> QED
                BY <4>1, <4>2, <4>3 DEF Above
        <3> QED
            BY <3>1, <3>2
    <2>3. h = [k \in 0 .. n + 1 |-> h[k]]
        OBVIOUS
    <2>4. Climbing(sp, u, 0 .. n + 1, h)
        <3> HIDE DEF h
        <3> QED
            BY <2>2, <2>3 DEF Climbing
    <2> QED
        BY <2>4
<1>3. \A k \in Nat : k \in P
    <2> HIDE DEF P
    <2> QED
        BY <1>1, <1>2, AllNaturals
<1> QED
    BY <1>3

\* Climb is the orbit of Above.
LEMMA ClimbSteps ==
    ASSUME NEW sp, NEW u
    PROVE  /\ Climb(sp, u)[0] = u
           /\ \A k \in Nat : Climb(sp, u)[k + 1] = Above(sp, Climb(sp, u)[k])
<1> DEFINE V(n) == (CHOOSE g : Climbing(sp, u, 0 .. n, g))[n]
           f == [n \in Nat |-> V(n)]
<1>1. \A n \in Nat : Climbing(sp, u, 0 .. n, CHOOSE g : Climbing(sp, u, 0 .. n, g))
    BY ClimbingExists
<1>2. f[0] = u
    <2> DEFINE g == CHOOSE x : Climbing(sp, u, 0 .. 0, x)
    <2>1. Climbing(sp, u, 0 .. 0, g) /\ 0 \in 0 .. 0
        BY <1>1
    <2>2. f[0] = g[0]
        OBVIOUS
    <2> HIDE DEF f, g
    <2>3. g[0] = u
        BY <2>1, ClimbingAt
    <2> QED
        BY <2>2, <2>3
<1>3. ASSUME NEW k \in Nat PROVE f[k + 1] = Above(sp, f[k])
    <2> DEFINE g == CHOOSE x : Climbing(sp, u, 0 .. k, x)
               h == CHOOSE x : Climbing(sp, u, 0 .. k + 1, x)
    <2>1. Climbing(sp, u, 0 .. k, g) /\ Climbing(sp, u, 0 .. k + 1, h)
        BY <1>1
    <2>2. f[k] = g[k] /\ f[k + 1] = h[k + 1]
        OBVIOUS
    <2> HIDE DEF f, g, h
    <2>3. g[k] = h[k]
        BY <2>1, ClimbingUnique
    <2>4. k + 1 \in 0 .. k + 1 /\ k + 1 # 0 /\ (k + 1) - 1 = k
        OBVIOUS
    <2>6. \A i \in 0 .. k + 1 : h[i] = IF i = 0 THEN u ELSE Above(sp, h[i - 1])
        BY <2>1, ClimbingAt
    <2>5. h[k + 1] = Above(sp, h[k])
        BY <2>4, <2>6
    <2> QED
        BY <2>2, <2>3, <2>5
<1>4. Climbing(sp, u, Nat, f)
    <2>1. f = [k \in Nat |-> f[k]]
        OBVIOUS
    <2> HIDE DEF f
    <2>2. ASSUME NEW k \in Nat
          PROVE  f[k] = IF k = 0 THEN u
                        ELSE IF f[k - 1] = NoMember THEN NoMember ELSE sp[f[k - 1]]
        <3>1. k # 0 => k - 1 \in Nat /\ (k - 1) + 1 = k
            OBVIOUS
        <3> QED
            BY <1>2, <1>3, <3>1 DEF Above
    <2> QED
        BY <2>1, <2>2 DEF Climbing
<1> DEFINE c == CHOOSE g : Climbing(sp, u, Nat, g)
<1>5. Climb(sp, u) = c
    BY DEF Climb, Climbing
<1>6. Climbing(sp, u, Nat, c)
    <2> HIDE DEF f
    <2> QED
        BY <1>4
<1> HIDE DEF c
<1>7. c[0] = u
    BY <1>6, ClimbingAt
<1>8. ASSUME NEW k \in Nat PROVE c[k + 1] = Above(sp, c[k])
    <2>1. k + 1 \in Nat /\ k + 1 # 0 /\ (k + 1) - 1 = k
        OBVIOUS
    <2> QED
        BY <1>6, <2>1, ClimbingAt
<1> QED
    BY <1>5, <1>7, <1>8

\* The chain stays in a set of members that the sponsors do not leave.
LEMMA ClimbStays ==
    ASSUME NEW sp, NEW S, NEW u \in S \cup {NoMember},
           \A x \in S : sp[x] \in S \cup {NoMember}
    PROVE  \A k \in Nat : Climb(sp, u)[k] \in S \cup {NoMember}
<1> DEFINE up == Climb(sp, u)
           P == {k \in Nat : up[k] \in S \cup {NoMember}}
<1>0. up[0] = u /\ \A k \in Nat : up[k + 1] = Above(sp, up[k])
    BY ClimbSteps
<1> HIDE DEF up
<1>1. 0 \in P
    BY <1>0
<1>2. ASSUME NEW k \in Nat, k \in P PROVE k + 1 \in P
    BY <1>0, <1>2 DEF Above
<1>3. \A k \in Nat : k \in P
    <2> HIDE DEF P
    <2> QED
        BY <1>1, <1>2, AllNaturals
<1> QED
    BY <1>3 DEF up

(***************************************************************************)
(* Types.                                                                  *)
(***************************************************************************)

MaybeMember == Members \cup {NoMember}

Doings ==
    [at : {"resting"}] \cup [at : {"direct"}, member : Members, above : Members]
    \cup [at : {"edge", "team"}, member : Members, above : Members, level : 1 .. Depth]
    \cup [at : {"count"}, todo : SUBSET Members]
    \cup [at : {"write"}, todo : SUBSET Members, member : Members, directs : Nat, team : Nat]
    \cup [at : {"checked"}, member : Members, to : MaybeMember]

\* The types with those of the calls.
TreeTyped == TreeTypeOK /\ attaching \in [Attaching -> Doings]

Steps(c) ==
    \/ \E u, s \in Members : SignUpUnder(c, u, s)
    \/ \E u \in Members, s \in MaybeMember : Rewire(c, u, s)
    \/ CountDirect(c) \/ AddEdge(c) \/ CountTeam(c)
    \/ Recount(c) \/ CountOne(c) \/ WriteOne(c) \/ CountedAll(c)
    \/ Reattach(c) \/ Lose(c)

\* Next, one action after the other.
LEMMA NextSteps == TreeNext => \E c \in Attaching : Steps(c)
BY DEF TreeNext, Steps, Attach, RecountStep, MaybeMember

\* What a call at a stage holds.
LEMMA DoingAt ==
    ASSUME NEW d \in Doings
    PROVE  /\ d.at \in {"resting", "direct", "edge", "team", "count", "write", "checked"}
           /\ d.at = "direct" => d \in [at : {"direct"}, member : Members, above : Members]
           /\ d.at \in {"edge", "team"} =>
                 d \in [at : {"edge", "team"}, member : Members, above : Members, level : 1 .. Depth]
           /\ d.at = "count" => d \in [at : {"count"}, todo : SUBSET Members]
           /\ d.at = "write" =>
                 d \in [at : {"write"}, todo : SUBSET Members, member : Members, directs : Nat, team : Nat]
           /\ d.at = "checked" => d \in [at : {"checked"}, member : Members, to : MaybeMember]
BY DEF Doings

LEMMA TeamIsNat ==
    ASSUME TreeTypeOK, NEW a \in Members
    PROVE  Team(a) \in Nat
<1> DEFINE f == [x \in Members |-> edges[<<a, x>>]]
<1>1. \A m \in Members : f[m] \in Nat
    BY DEF TreeTypeOK, Pairs
<1>2. Team(a) = SumOver(Members, f)
    BY DEF Team
<1> HIDE DEF f
<1>3. SumOver(Members, f) \in Nat
    BY <1>1, SumNat, TreeAssumption
<1> QED
    BY <1>2, <1>3

LEMMA ChildrenFinite ==
    ASSUME TreeTypeOK, NEW s
    PROVE  IsFiniteSet(Children(s)) /\ Cardinality(Children(s)) \in Nat
<1>1. Children(s) \in SUBSET Members
    BY DEF Children, TreeTypeOK
<1> QED
    BY <1>1, FS_Subset, FS_CardinalityType, TreeAssumption

LEMMA TimesIsNat ==
    ASSUME NEW sp, NEW u, NEW a
    PROVE  Cardinality({k \in 1 .. Depth : Climb(sp, u)[k] = a}) \in Nat
<1> DEFINE S == {k \in 1 .. Depth : Climb(sp, u)[k] = a}
<1>1. IsFiniteSet(1 .. Depth) /\ S \in SUBSET (1 .. Depth)
    BY FS_Interval, TreeAssumption
<1> HIDE DEF S
<1>2. IsFiniteSet(S)
    BY <1>1, FS_Subset
<1>3. Cardinality(S) \in Nat
    BY <1>2, FS_CardinalityType
<1> QED
    BY <1>3 DEF S

LEMMA TypedInit == TreeInit => TreeTyped
<1> SUFFICES ASSUME TreeInit PROVE TreeTyped
    OBVIOUS
<1>1. Resting \in Doings
    BY DEF Resting, Doings
<1>2. attaching \in [Attaching -> Doings]
    BY <1>1 DEF TreeInit
<1>3. edges \in [Pairs -> Nat]
    BY DEF TreeInit
<1>4. TreeTypeOK
    BY <1>3, TreeAssumption DEF TreeInit, TreeTypeOK
<1> QED
    BY <1>2, <1>4 DEF TreeTyped

LEMMA TypedStep ==
    ASSUME TreeTyped, NEW c \in Attaching, Steps(c)
    PROVE  TreeTyped'
<1> DEFINE call == attaching[c]
<1>0. TreeTypeOK /\ attaching \in [Attaching -> Doings] /\ call \in Doings
    BY DEF TreeTyped
<1>t. /\ joined \subseteq Members /\ sponsor \in [Members -> MaybeMember]
      /\ edges \in [Pairs -> Nat] /\ directs \in [Members -> Nat] /\ team \in [Members -> Nat]
      /\ countsOff \in BOOLEAN /\ edgesOff \in BOOLEAN /\ bothRewire \in BOOLEAN
    BY <1>0 DEF TreeTypeOK, MaybeMember
<1>r. Resting \in Doings
    BY DEF Resting, Doings
<1>1. ASSUME NEW d \in Doings, Turns(c, d) PROVE attaching' \in [Attaching -> Doings]
    BY <1>0, <1>1 DEF Turns
<1>2. CASE \E u, s \in Members : SignUpUnder(c, u, s)
    <2>1. PICK u \in Members, s \in Members : SignUpUnder(c, u, s)
        BY <1>2
    <2>2. [at |-> "direct", member |-> u, above |-> s] \in Doings
        BY DEF Doings
    <2>3. /\ u \notin joined /\ s \in joined /\ joined' = joined \cup {u}
          /\ sponsor' = [sponsor EXCEPT ![u] = s]
          /\ UNCHANGED <<edges, directs, team, bothRewire>>
          /\ countsOff' \in BOOLEAN /\ edgesOff' \in BOOLEAN
          /\ Turns(c, [at |-> "direct", member |-> u, above |-> s])
        BY <2>1 DEF SignUpUnder, Begins
    <2>4. attaching' \in [Attaching -> Doings]
        BY <1>1, <2>2, <2>3
    <2> QED
        BY <1>0, <1>t, <2>3, <2>4 DEF TreeTyped, TreeTypeOK, MaybeMember
<1>3. CASE \E u \in Members, s \in MaybeMember : Rewire(c, u, s)
    <2>1. PICK u \in Members, s \in MaybeMember : Rewire(c, u, s)
        BY <1>3
    <2>2. [at |-> "checked", member |-> u, to |-> s] \in Doings
        BY DEF Doings
    <2>3. /\ UNCHANGED <<joined, sponsor, edges, directs, team>>
          /\ countsOff' \in BOOLEAN /\ edgesOff' \in BOOLEAN /\ bothRewire' \in BOOLEAN
          /\ Turns(c, [at |-> "checked", member |-> u, to |-> s])
        BY <2>1 DEF Rewire, Begins
    <2>4. attaching' \in [Attaching -> Doings]
        BY <1>1, <2>2, <2>3
    <2> QED
        BY <1>0, <1>t, <2>3, <2>4 DEF TreeTyped, TreeTypeOK, MaybeMember
<1>4. CASE CountDirect(c)
    <2>0. call \in [at : {"direct"}, member : Members, above : Members]
        BY <1>0, <1>4, DoingAt DEF CountDirect, Does
    <2>2. [at |-> "edge", member |-> call.member, above |-> call.above, level |-> 1] \in Doings
        BY <2>0, TreeAssumption DEF Doings
    <2>3. /\ directs' = [directs EXCEPT ![call.above] = @ + 1]
          /\ UNCHANGED <<joined, sponsor, edges, team, countsOff, edgesOff, bothRewire>>
          /\ Turns(c, [at |-> "edge", member |-> call.member, above |-> call.above, level |-> 1])
        BY <1>4 DEF CountDirect
    <2>4. attaching' \in [Attaching -> Doings]
        BY <1>1, <2>2, <2>3
    <2>5. directs' \in [Members -> Nat]
        BY <1>t, <2>0, <2>3
    <2> QED
        BY <1>0, <1>t, <2>3, <2>4, <2>5 DEF TreeTyped, TreeTypeOK, MaybeMember
<1>5. CASE AddEdge(c)
    <2>0. call \in [at : {"edge", "team"}, member : Members, above : Members, level : 1 .. Depth]
        BY <1>0, <1>5, DoingAt DEF AddEdge, Does
    <2>2. [call EXCEPT !.at = "team"] \in Doings
        BY <2>0 DEF Doings
    <2>3. /\ edges' = [edges EXCEPT ![<<call.above, call.member>>] = @ + 1]
          /\ UNCHANGED <<joined, sponsor, directs, team, countsOff, edgesOff, bothRewire>>
          /\ Turns(c, [call EXCEPT !.at = "team"])
        BY <1>5 DEF AddEdge
    <2>4. attaching' \in [Attaching -> Doings]
        BY <1>1, <2>2, <2>3
    <2>5. <<call.above, call.member>> \in Pairs
        BY <2>0 DEF Pairs
    <2>6. edges' \in [Pairs -> Nat]
        BY <1>t, <2>3, <2>5
    <2> QED
        BY <1>0, <1>t, <2>3, <2>4, <2>6 DEF TreeTyped, TreeTypeOK, MaybeMember
<1>6. CASE CountTeam(c)
    <2> DEFINE next == sponsor[call.above]
               then == IF next # NoMember /\ MoreLevels(call.level)
                       THEN [call EXCEPT !.at = "edge", !.above = next, !.level = @ + 1]
                       ELSE Resting
    <2>0. call \in [at : {"edge", "team"}, member : Members, above : Members, level : 1 .. Depth]
        BY <1>0, <1>6, DoingAt DEF CountTeam, Does
    <2>2. then \in Doings
        <3>1. next \in MaybeMember
            BY <1>t, <2>0
        <3>2. CASE next # NoMember /\ MoreLevels(call.level)
            <4>1. next \in Members /\ call.level + 1 \in 1 .. Depth
                BY <2>0, <3>1, <3>2, TreeAssumption DEF MaybeMember, MoreLevels
            <4>2. [call EXCEPT !.at = "edge", !.above = next, !.level = @ + 1]
                    \in [at : {"edge", "team"}, member : Members, above : Members, level : 1 .. Depth]
                BY <2>0, <4>1
            <4> QED
                BY <3>2, <4>2 DEF Doings
        <3> QED
            BY <1>r, <3>2
    <2>3. /\ team' = [team EXCEPT ![call.above] = @ + 1]
          /\ UNCHANGED <<joined, sponsor, edges, directs, countsOff, edgesOff, bothRewire>>
          /\ Turns(c, then)
        BY <1>6 DEF CountTeam
    <2> HIDE DEF then
    <2>4. attaching' \in [Attaching -> Doings]
        BY <1>1, <2>2, <2>3
    <2>5. team' \in [Members -> Nat]
        BY <1>t, <2>0, <2>3
    <2> QED
        BY <1>0, <1>t, <2>3, <2>4, <2>5 DEF TreeTyped, TreeTypeOK, MaybeMember
<1>7. CASE Recount(c)
    <2>2. [at |-> "count", todo |-> joined] \in Doings
        BY <1>t DEF Doings
    <2>3. /\ UNCHANGED <<joined, sponsor, edges, directs, team, bothRewire>>
          /\ countsOff' \in BOOLEAN /\ edgesOff' \in BOOLEAN
          /\ Turns(c, [at |-> "count", todo |-> joined])
        BY <1>7 DEF Recount, Begins
    <2>4. attaching' \in [Attaching -> Doings]
        BY <1>1, <2>2, <2>3
    <2> QED
        BY <1>0, <1>t, <2>3, <2>4 DEF TreeTyped, TreeTypeOK, MaybeMember
<1>8. CASE CountOne(c)
    <2>0. call \in [at : {"count"}, todo : SUBSET Members]
        BY <1>0, <1>8, DoingAt DEF CountOne, Does
    <2>1. PICK u \in call.todo :
            Turns(c, [at |-> "write", todo |-> call.todo \ {u}, member |-> u,
                      directs |-> Cardinality(Children(u)), team |-> Team(u)])
        BY <1>8 DEF CountOne
    <2>2. u \in Members
        BY <2>0
    <2>5. Cardinality(Children(u)) \in Nat /\ Team(u) \in Nat
        BY <1>0, <2>2, ChildrenFinite, TeamIsNat
    <2>6. [at |-> "write", todo |-> call.todo \ {u}, member |-> u,
           directs |-> Cardinality(Children(u)), team |-> Team(u)] \in Doings
        BY <2>0, <2>2, <2>5 DEF Doings
    <2>3. UNCHANGED <<joined, sponsor, edges, directs, team, countsOff, edgesOff, bothRewire>>
        BY <1>8 DEF CountOne
    <2>4. attaching' \in [Attaching -> Doings]
        BY <1>1, <2>1, <2>6
    <2> QED
        BY <1>0, <1>t, <2>3, <2>4 DEF TreeTyped, TreeTypeOK, MaybeMember
<1>9. CASE WriteOne(c)
    <2>0. call \in [at : {"write"}, todo : SUBSET Members, member : Members, directs : Nat, team : Nat]
        BY <1>0, <1>9, DoingAt DEF WriteOne, Does
    <2>2. [at |-> "count", todo |-> call.todo] \in Doings
        BY <2>0 DEF Doings
    <2>3. /\ directs' = [directs EXCEPT ![call.member] = call.directs]
          /\ team' = [team EXCEPT ![call.member] = call.team]
          /\ UNCHANGED <<joined, sponsor, edges, countsOff, edgesOff, bothRewire>>
          /\ Turns(c, [at |-> "count", todo |-> call.todo])
        BY <1>9 DEF WriteOne
    <2>4. attaching' \in [Attaching -> Doings]
        BY <1>1, <2>2, <2>3
    <2>5. directs' \in [Members -> Nat] /\ team' \in [Members -> Nat]
        BY <1>t, <2>0, <2>3
    <2> QED
        BY <1>0, <1>t, <2>3, <2>4, <2>5 DEF TreeTyped, TreeTypeOK, MaybeMember
<1>10. CASE CountedAll(c)
    <2>3. /\ UNCHANGED <<joined, sponsor, edges, directs, team, edgesOff, bothRewire>>
          /\ countsOff' \in BOOLEAN
          /\ Turns(c, Resting)
        BY <1>10 DEF CountedAll
    <2>4. attaching' \in [Attaching -> Doings]
        BY <1>1, <1>r, <2>3
    <2> QED
        BY <1>0, <1>t, <2>3, <2>4 DEF TreeTyped, TreeTypeOK, MaybeMember
<1>11. CASE Reattach(c)
    <2>0. call \in [at : {"checked"}, member : Members, to : MaybeMember]
        BY <1>0, <1>11, DoingAt DEF Reattach, Does
    <2> DEFINE u == call.member
               s == call.to
               times(a) == Cardinality({k \in 1 .. Depth : Climb([sponsor EXCEPT ![u] = s], u)[k] = a})
    <2>1. ASSUME NEW a PROVE times(a) \in Nat
        <3> DEFINE sp == [sponsor EXCEPT ![u] = s]
        <3>1. times(a) = Cardinality({k \in 1 .. Depth : Climb(sp, u)[k] = a})
            OBVIOUS
        <3> HIDE DEF times, sp, u
        <3> QED
            BY <3>1, TimesIsNat
    <2>2. [at |-> "count", todo |-> joined] \in Doings
        BY <1>t DEF Doings
    <2>3. /\ sponsor' = [sponsor EXCEPT ![u] = s]
          /\ edges' = [p \in Pairs |-> IF p[2] = u THEN times(p[1]) ELSE edges[p]]
          /\ directs' = IF s = NoMember THEN directs ELSE [directs EXCEPT ![s] = @ + 1]
          /\ team' = [m \in Members |-> team[m] + times(m)]
          /\ UNCHANGED <<joined, countsOff, edgesOff, bothRewire>>
          /\ Turns(c, [at |-> "count", todo |-> joined])
        BY <1>11 DEF Reattach
    <2> HIDE DEF times
    <2>4. attaching' \in [Attaching -> Doings]
        BY <1>1, <2>2, <2>3
    <2>5. edges' \in [Pairs -> Nat]
        BY <1>t, <2>1, <2>3
    <2>6. team' \in [Members -> Nat]
        BY <1>t, <2>1, <2>3
    <2>7. directs' \in [Members -> Nat]
        BY <1>t, <2>0, <2>3 DEF MaybeMember
    <2>8. sponsor' \in [Members -> MaybeMember]
        BY <1>t, <2>0, <2>3
    <2> QED
        BY <1>0, <1>t, <2>3, <2>4, <2>5, <2>6, <2>7, <2>8 DEF TreeTyped, TreeTypeOK, MaybeMember
<1>12. CASE Lose(c)
    <2>3. /\ UNCHANGED <<joined, sponsor, edges, directs, team, bothRewire>>
          /\ countsOff' \in BOOLEAN /\ edgesOff' \in BOOLEAN
          /\ Turns(c, Resting)
        BY <1>12 DEF Lose
    <2>4. attaching' \in [Attaching -> Doings]
        BY <1>1, <1>r, <2>3
    <2> QED
        BY <1>0, <1>t, <2>3, <2>4 DEF TreeTyped, TreeTypeOK, MaybeMember
<1> QED
    BY <1>2, <1>3, <1>4, <1>5, <1>6, <1>7, <1>8, <1>9, <1>10, <1>11, <1>12 DEF Steps

(***************************************************************************)
(* What steps write of the tree.                                           *)
(***************************************************************************)

\* A call changes what it does itself.
LEMMA Turned ==
    ASSUME TreeTyped, NEW c \in Attaching, NEW d, Turns(c, d)
    PROVE  /\ attaching'[c] = d
           /\ \A e \in Attaching : e # c => attaching'[e] = attaching[e]
BY DEF TreeTyped, Turns

\* The steps that change neither who has joined nor whose sponsor is whose.
QuietStep(c) ==
    \/ CountDirect(c) \/ AddEdge(c) \/ CountTeam(c)
    \/ Recount(c) \/ CountOne(c) \/ WriteOne(c) \/ CountedAll(c) \/ Lose(c)

\* Who has an account has a sponsor with an account or none, and so has every
\* call under way.
Sponsored ==
    /\ \A u \in joined : sponsor[u] \in joined \cup {NoMember}
    /\ \A u \in Members \ joined : sponsor[u] = NoMember
    /\ \A c \in Attaching :
        /\ IsSignUp(c) => attaching[c].member \in joined /\ attaching[c].above \in joined
        /\ Does(c, "checked") =>
             attaching[c].member \in joined /\ attaching[c].to \in joined \cup {NoMember}

\* What they leave behind.
LEMMA QuietFrame ==
    ASSUME TreeTyped, Sponsored, NEW c \in Attaching, QuietStep(c)
    PROVE  /\ joined' = joined /\ sponsor' = sponsor /\ bothRewire' = bothRewire
           /\ \A e \in Attaching : e # c => attaching'[e] = attaching[e]
           /\ attaching'[c].at # "checked"
           /\ attaching'[c].at \in {"direct", "edge", "team"} =>
                 attaching'[c].member \in joined /\ attaching'[c].above \in joined
<1> DEFINE call == attaching[c]
<1>0. TreeTypeOK /\ call \in Doings
    BY DEF TreeTyped
<1>1. CASE CountDirect(c)
    <2> DEFINE d == [at |-> "edge", member |-> call.member, above |-> call.above, level |-> 1]
    <2>1. /\ Turns(c, d) /\ UNCHANGED <<joined, sponsor, bothRewire>> /\ Does(c, "direct")
        BY <1>1 DEF CountDirect
    <2>2. d.at = "edge" /\ d.member = call.member /\ d.above = call.above
        OBVIOUS
    <2> HIDE DEF d
    <2> QED
        BY <2>1, <2>2, Turned DEF Sponsored, IsSignUp, Does
<1>2. CASE AddEdge(c)
    <2> DEFINE d == [call EXCEPT !.at = "team"]
    <2>1. /\ Turns(c, d) /\ UNCHANGED <<joined, sponsor, bothRewire>> /\ Does(c, "edge")
        BY <1>2 DEF AddEdge
    <2>0. call \in [at : {"edge", "team"}, member : Members, above : Members, level : 1 .. Depth]
        BY <1>0, <2>1, DoingAt DEF Does
    <2>2. d.at = "team" /\ d.member = call.member /\ d.above = call.above
        BY <2>0
    <2> HIDE DEF d
    <2> QED
        BY <2>1, <2>2, Turned DEF Sponsored, IsSignUp, Does
<1>3. CASE CountTeam(c)
    <2> DEFINE next == sponsor[call.above]
               goes == next # NoMember /\ MoreLevels(call.level)
               e == [call EXCEPT !.at = "edge", !.above = next, !.level = @ + 1]
               d == IF goes THEN e ELSE Resting
    <2>1. /\ Turns(c, d) /\ UNCHANGED <<joined, sponsor, bothRewire>> /\ Does(c, "team")
        BY <1>3 DEF CountTeam
    <2>0. call \in [at : {"edge", "team"}, member : Members, above : Members, level : 1 .. Depth]
        BY <1>0, <2>1, DoingAt DEF Does
    <2>2. e.at = "edge" /\ e.member = call.member /\ e.above = next
        BY <2>0
    <2>3. call.member \in joined /\ call.above \in joined
        BY <2>1 DEF Sponsored, IsSignUp, Does
    <2>4. next \in joined \cup {NoMember}
        BY <2>3 DEF Sponsored
    <2>5. d.at = "resting" \/ (d.at = "edge" /\ d.member \in joined /\ d.above \in joined)
        <3> HIDE DEF e
        <3> QED
            BY <2>2, <2>3, <2>4 DEF Resting
    <2> HIDE DEF d
    <2> QED
        BY <2>1, <2>5, Turned
<1>4. CASE Recount(c)
    <2> DEFINE d == [at |-> "count", todo |-> joined]
    <2>1. Turns(c, d) /\ UNCHANGED <<joined, sponsor, bothRewire>> /\ d.at = "count"
        BY <1>4 DEF Recount, Begins
    <2> HIDE DEF d
    <2> QED
        BY <2>1, Turned
<1>5. CASE CountOne(c)
    <2>1. PICK u \in attaching[c].todo :
            Turns(c, [at |-> "write", todo |-> attaching[c].todo \ {u}, member |-> u,
                      directs |-> Cardinality(Children(u)), team |-> Team(u)])
        BY <1>5 DEF CountOne
    <2> DEFINE d == [at |-> "write", todo |-> attaching[c].todo \ {u}, member |-> u,
                      directs |-> Cardinality(Children(u)), team |-> Team(u)]
    <2>2. Turns(c, d) /\ UNCHANGED <<joined, sponsor, bothRewire>> /\ d.at = "write"
        BY <1>5, <2>1 DEF CountOne
    <2> HIDE DEF d
    <2> QED
        BY <2>2, Turned
<1>6. CASE WriteOne(c)
    <2> DEFINE d == [at |-> "count", todo |-> attaching[c].todo]
    <2>1. Turns(c, d) /\ UNCHANGED <<joined, sponsor, bothRewire>> /\ d.at = "count"
        BY <1>6 DEF WriteOne
    <2> HIDE DEF d
    <2> QED
        BY <2>1, Turned
<1>7. CASE CountedAll(c)
    <2>1. Turns(c, Resting) /\ UNCHANGED <<joined, sponsor, bothRewire>> /\ Resting.at = "resting"
        BY <1>7 DEF CountedAll, Resting
    <2> QED
        BY <2>1, Turned
<1>8. CASE Lose(c)
    <2>1. Turns(c, Resting) /\ UNCHANGED <<joined, sponsor, bothRewire>> /\ Resting.at = "resting"
        BY <1>8 DEF Lose, Resting
    <2> QED
        BY <2>1, Turned
<1> QED
    BY <1>1, <1>2, <1>3, <1>4, <1>5, <1>6, <1>7, <1>8 DEF QuietStep

\* What the steps that are not quiet write of the tree.
LEMMA SignUpFrame ==
    ASSUME TreeTyped, NEW c \in Attaching, NEW u \in Members, NEW s \in Members,
           SignUpUnder(c, u, s)
    PROVE  /\ u \notin joined /\ s \in joined /\ joined' = joined \cup {u}
           /\ sponsor' = [sponsor EXCEPT ![u] = s] /\ bothRewire' = bothRewire
           /\ \A e \in Attaching : e # c => attaching'[e] = attaching[e]
           /\ attaching'[c] = [at |-> "direct", member |-> u, above |-> s]
<1>1. Turns(c, [at |-> "direct", member |-> u, above |-> s])
    BY DEF SignUpUnder, Begins
<1> QED
    BY <1>1, Turned DEF SignUpUnder

LEMMA RewireFrame ==
    ASSUME TreeTyped, NEW c \in Attaching, NEW u \in Members, NEW s \in MaybeMember,
           Rewire(c, u, s)
    PROVE  /\ u \in joined /\ s \in (joined \cup {NoMember}) \ {u}
           /\ UNCHANGED <<joined, sponsor>>
           /\ \A e \in Attaching : e # c => attaching'[e] = attaching[e]
           /\ attaching'[c] = [at |-> "checked", member |-> u, to |-> s]
<1>1. Turns(c, [at |-> "checked", member |-> u, to |-> s])
    BY DEF Rewire, Begins
<1> QED
    BY <1>1, Turned DEF Rewire

LEMMA ReattachFrame ==
    ASSUME TreeTyped, NEW c \in Attaching, Reattach(c)
    PROVE  /\ attaching[c] \in [at : {"checked"}, member : Members, to : MaybeMember]
           /\ joined' = joined /\ bothRewire' = bothRewire
           /\ sponsor' = [sponsor EXCEPT ![attaching[c].member] = attaching[c].to]
           /\ \A e \in Attaching : e # c => attaching'[e] = attaching[e]
           /\ attaching'[c] = [at |-> "count", todo |-> joined]
<1>1. Turns(c, [at |-> "count", todo |-> joined]) /\ attaching[c].at = "checked"
    BY DEF Reattach, Does
<1>2. attaching[c] \in Doings
    BY DEF TreeTyped
<1> QED
    BY <1>1, <1>2, Turned, DoingAt DEF Reattach

LEMMA StepKinds ==
    ASSUME NEW c \in Attaching, Steps(c)
    PROVE  \/ \E u, s \in Members : SignUpUnder(c, u, s)
           \/ \E u \in Members, s \in MaybeMember : Rewire(c, u, s)
           \/ Reattach(c) \/ QuietStep(c)
BY DEF Steps, QuietStep

LEMMA SponsoredInit == TreeInit => Sponsored
BY TreeAssumption DEF TreeInit, Sponsored, IsSignUp, Does, Resting

LEMMA SponsoredStep ==
    ASSUME TreeTyped, Sponsored, NEW c \in Attaching, Steps(c)
    PROVE  Sponsored'
<1>0. joined \subseteq Members /\ sponsor \in [Members -> MaybeMember]
    BY DEF TreeTyped, TreeTypeOK, MaybeMember
<1>1. CASE \E u, s \in Members : SignUpUnder(c, u, s)
    <2>1. PICK u \in Members, s \in Members : SignUpUnder(c, u, s)
        BY <1>1
    <2>2. /\ s \in joined /\ joined' = joined \cup {u}
          /\ sponsor' = [sponsor EXCEPT ![u] = s]
          /\ \A e \in Attaching : e # c => attaching'[e] = attaching[e]
          /\ attaching'[c] = [at |-> "direct", member |-> u, above |-> s]
        BY <2>1, SignUpFrame
    <2>3. /\ \A x \in joined' : sponsor'[x] \in joined' \cup {NoMember}
          /\ \A x \in Members \ joined' : sponsor'[x] = NoMember
        BY <1>0, <2>2 DEF Sponsored
    <2>4. ASSUME NEW e \in Attaching
          PROVE  /\ IsSignUp(e)' => attaching'[e].member \in joined' /\ attaching'[e].above \in joined'
                 /\ Does(e, "checked")' =>
                      attaching'[e].member \in joined' /\ attaching'[e].to \in joined' \cup {NoMember}
        <3>1. CASE e = c
            BY <2>2, <3>1 DEF Does
        <3>2. CASE e # c
            BY <2>2, <3>2 DEF Does, IsSignUp, Sponsored
        <3> QED
            BY <3>1, <3>2
    <2> QED
        BY <2>3, <2>4 DEF Sponsored
<1>2. CASE \E u \in Members, s \in MaybeMember : Rewire(c, u, s)
    <2>1. PICK u \in Members, s \in MaybeMember : Rewire(c, u, s)
        BY <1>2
    <2>2. /\ u \in joined /\ s \in joined \cup {NoMember}
          /\ UNCHANGED <<joined, sponsor>>
          /\ \A e \in Attaching : e # c => attaching'[e] = attaching[e]
          /\ attaching'[c] = [at |-> "checked", member |-> u, to |-> s]
        BY <2>1, RewireFrame
    <2>4. ASSUME NEW e \in Attaching
          PROVE  /\ IsSignUp(e)' => attaching'[e].member \in joined' /\ attaching'[e].above \in joined'
                 /\ Does(e, "checked")' =>
                      attaching'[e].member \in joined' /\ attaching'[e].to \in joined' \cup {NoMember}
        <3>1. CASE e = c
            BY <2>2, <3>1 DEF IsSignUp
        <3>2. CASE e # c
            BY <2>2, <3>2 DEF Does, IsSignUp, Sponsored
        <3> QED
            BY <3>1, <3>2
    <2> QED
        BY <2>2, <2>4 DEF Sponsored
<1>3. CASE Reattach(c)
    <2>1. PICK u : u = attaching[c].member
        OBVIOUS
    <2>2. PICK s : s = attaching[c].to
        OBVIOUS
    <2>3. /\ joined' = joined /\ sponsor' = [sponsor EXCEPT ![u] = s]
          /\ \A e \in Attaching : e # c => attaching'[e] = attaching[e]
          /\ attaching'[c] = [at |-> "count", todo |-> joined]
          /\ attaching[c].at = "checked"
        BY <1>3, <2>1, <2>2, ReattachFrame
    <2>4. u \in joined /\ s \in joined \cup {NoMember}
        BY <2>1, <2>2, <2>3 DEF Sponsored, Does
    <2>5. /\ \A x \in joined' : sponsor'[x] \in joined' \cup {NoMember}
          /\ \A x \in Members \ joined' : sponsor'[x] = NoMember
        BY <1>0, <2>3, <2>4 DEF Sponsored
    <2>6. ASSUME NEW e \in Attaching
          PROVE  /\ IsSignUp(e)' => attaching'[e].member \in joined' /\ attaching'[e].above \in joined'
                 /\ Does(e, "checked")' =>
                      attaching'[e].member \in joined' /\ attaching'[e].to \in joined' \cup {NoMember}
        <3>1. CASE e = c
            BY <2>3, <3>1 DEF IsSignUp, Does
        <3>2. CASE e # c
            BY <2>3, <3>2 DEF Does, IsSignUp, Sponsored
        <3> QED
            BY <3>1, <3>2
    <2> QED
        BY <2>5, <2>6 DEF Sponsored
<1>4. CASE QuietStep(c)
    <2>1. /\ joined' = joined /\ sponsor' = sponsor
          /\ \A e \in Attaching : e # c => attaching'[e] = attaching[e]
          /\ attaching'[c].at # "checked"
          /\ attaching'[c].at \in {"direct", "edge", "team"} =>
                attaching'[c].member \in joined /\ attaching'[c].above \in joined
        BY <1>4, QuietFrame
    <2>2. ASSUME NEW e \in Attaching
          PROVE  /\ IsSignUp(e)' => attaching'[e].member \in joined' /\ attaching'[e].above \in joined'
                 /\ Does(e, "checked")' =>
                      attaching'[e].member \in joined' /\ attaching'[e].to \in joined' \cup {NoMember}
        <3>1. CASE e = c
            BY <2>1, <3>1 DEF IsSignUp, Does
        <3>2. CASE e # c
            BY <2>1, <3>2 DEF Does, IsSignUp, Sponsored
        <3> QED
            BY <3>1, <3>2
    <2> QED
        BY <2>1, <2>2 DEF Sponsored
<1> QED
    BY <1>1, <1>2, <1>3, <1>4, StepKinds

(***************************************************************************)
(* No loops.  The sponsors are ranked; the one rewire under way holds a    *)
(* sponsor that is not below its member.                                   *)
(***************************************************************************)

\* A rank that rises from the sponsor to the sponsored.
Ranks(sp, rank) ==
    /\ rank \in [Members -> Nat]
    /\ \A x \in Members : sp[x] # NoMember => rank[sp[x]] < rank[x]

\* A holds s and everybody above it, and u is not among them.
Apart(base, sp, A, u, s) ==
    /\ A \subseteq base /\ s \in A /\ u \notin A
    /\ \A x \in A : sp[x] \in A \cup {NoMember}

LoopFree ==
    /\ \E rank : Ranks(sponsor, rank)
    /\ \A c, d \in Attaching : Does(c, "checked") /\ Does(d, "checked") => c = d
    /\ \A c \in Attaching :
         Does(c, "checked") =>
            attaching[c].to = NoMember \/ \E A : Apart(joined, sponsor, A, attaching[c].member, attaching[c].to)

\* Without two rewires under way together the sponsors are ranked, and the one
\* rewire under way holds a sponsor that is not below its member, however many
\* have signed up since it looked.
LoopInv == bothRewire \/ LoopFree

\* Ranks fall on the way up.
LEMMA ClimbDescends ==
    ASSUME NEW sp \in [Members -> MaybeMember], NEW rank, Ranks(sp, rank), NEW u \in Members
    PROVE  \A i, j \in Nat : i < j /\ Climb(sp, u)[j] # NoMember =>
              /\ Climb(sp, u)[i] \in Members /\ Climb(sp, u)[j] \in Members
              /\ rank[Climb(sp, u)[j]] < rank[Climb(sp, u)[i]]
<1> DEFINE up == Climb(sp, u)
<1>0. up[0] = u /\ \A k \in Nat : up[k + 1] = Above(sp, up[k])
    BY ClimbSteps
<1>1. \A k \in Nat : up[k] \in MaybeMember
    BY ClimbStays DEF MaybeMember
<1> HIDE DEF up
<1> SUFFICES ASSUME NEW i \in Nat
             PROVE  \A j \in Nat : i < j /\ up[j] # NoMember =>
                        up[i] \in Members /\ up[j] \in Members /\ rank[up[j]] < rank[up[i]]
    BY DEF up
<1> DEFINE P == {j \in Nat : i < j /\ up[j] # NoMember =>
                        up[i] \in Members /\ up[j] \in Members /\ rank[up[j]] < rank[up[i]]}
<1>2. 0 \in P
    OBVIOUS
<1>3. ASSUME NEW j \in Nat, j \in P PROVE j + 1 \in P
    <2> SUFFICES ASSUME i < j + 1, up[j + 1] # NoMember
                 PROVE  up[i] \in Members /\ up[j + 1] \in Members /\ rank[up[j + 1]] < rank[up[i]]
        OBVIOUS
    <2>1. up[j + 1] = Above(sp, up[j]) /\ up[j] \in MaybeMember /\ up[j + 1] \in MaybeMember
        BY <1>0, <1>1
    <2>2. up[j] \in Members /\ up[j + 1] = sp[up[j]] /\ up[j + 1] \in Members
        BY <2>1 DEF Above, MaybeMember
    <2>3. rank[up[j + 1]] < rank[up[j]]
        BY <2>2 DEF Ranks
    <2>4. CASE i = j
        BY <2>2, <2>3, <2>4
    <2>5. CASE i # j
        <3>1. i < j /\ up[j] # NoMember
            BY <2>2, <2>5, TreeAssumption
        <3>2. up[i] \in Members /\ rank[up[j]] < rank[up[i]]
            BY <1>3, <3>1
        <3>3. rank[up[i]] \in Nat /\ rank[up[j]] \in Nat /\ rank[up[j + 1]] \in Nat
            BY <2>2, <3>2 DEF Ranks
        <3> QED
            BY <2>2, <2>3, <3>2, <3>3
    <2> QED
        BY <2>4, <2>5
<1>4. \A j \in Nat : j \in P
    <2> HIDE DEF P
    <2> QED
        BY <1>2, <1>3, AllNaturals
<1> QED
    BY <1>4

\* Ranked members are not their own ancestors.
LEMMA RankedIsLoopFree ==
    ASSUME sponsor \in [Members -> MaybeMember], NEW rank, Ranks(sponsor, rank),
           NEW u \in Members
    PROVE  u \notin Ancestors(u, Cardinality(Members))
<1> SUFFICES ASSUME u \in Ancestors(u, Cardinality(Members)) PROVE FALSE
    OBVIOUS
<1> DEFINE N == Cardinality(Members)
           up == Climb(sponsor, u)
<1>0. N \in Nat
    BY FS_CardinalityType, TreeAssumption
<1> HIDE DEF N
<1>1. PICK k \in 1 .. N : up[k] = u
    BY DEF Ancestors, Upline, N
<1>2. k \in Nat /\ 0 < k /\ up[0] = u
    BY <1>0, ClimbSteps
<1>3. u # NoMember
    BY TreeAssumption
<1>4. rank[up[k]] < rank[up[0]]
    BY <1>1, <1>2, <1>3, ClimbDescends
<1>5. rank[u] \in Nat
    BY DEF Ranks
<1> QED
    BY <1>1, <1>2, <1>4, <1>5

\* There is no room for a chain longer than the members.
LEMMA ClimbEnds ==
    ASSUME NEW sp \in [Members -> MaybeMember], NEW rank, Ranks(sp, rank), NEW u \in Members
    PROVE  Climb(sp, u)[Cardinality(Members)] = NoMember
<1> DEFINE N == Cardinality(Members)
           up == Climb(sp, u)
           f == [i \in 0 .. N |-> up[i]]
<1>0. N \in Nat
    BY FS_CardinalityType, TreeAssumption
<1> SUFFICES ASSUME up[N] # NoMember PROVE FALSE
    OBVIOUS
<1>1. \A i, j \in Nat : i < j /\ up[j] # NoMember =>
              /\ up[i] \in Members /\ up[j] \in Members /\ rank[up[j]] < rank[up[i]]
    BY ClimbDescends
<1>6. up[0] = u
    BY ClimbSteps
<1> HIDE DEF N, up
<1>2. \A i \in 0 .. N : up[i] \in Members
    <2> SUFFICES ASSUME NEW i \in 0 .. N PROVE up[i] \in Members
        OBVIOUS
    <2>1. i \in Nat /\ (i < N \/ i = N)
        BY <1>0
    <2>2. CASE i < N
        BY <1>0, <1>1, <2>1, <2>2
    <2>3. CASE i = N /\ N # 0
        <3>1. 0 < N
            BY <1>0, <2>3
        <3> QED
            BY <1>0, <1>1, <2>3, <3>1
    <2>4. CASE i = N /\ N = 0
        BY <1>6, <2>4
    <2> QED
        BY <2>1, <2>2, <2>3, <2>4
<1>3. f \in [0 .. N -> Members]
    BY <1>2
<1>4. IsFiniteSet(0 .. N) /\ Cardinality(0 .. N) = N + 1
    BY <1>0, FS_Interval
<1>5. Cardinality(Members) < Cardinality(0 .. N)
    BY <1>0, <1>4 DEF N
<1>10. IsFiniteSet(Members)
    BY TreeAssumption
<1> HIDE DEF f
<1>7. PICK i \in 0 .. N, j \in 0 .. N : i # j /\ f[i] = f[j]
    BY <1>3, <1>4, <1>5, <1>10, FS_PigeonHole
<1>8. up[i] = up[j] /\ up[i] \in Members /\ rank[up[i]] \in Nat /\ up[i] # NoMember
    BY <1>2, <1>7, TreeAssumption DEF Ranks, f
<1>9. i \in Nat /\ j \in Nat /\ (i < j \/ j < i)
    BY <1>0, <1>7
<1> QED
    BY <1>1, <1>8, <1>9

\* What rewireSponsorForLeafUser has looked at.
LEMMA LookedApart ==
    ASSUME sponsor \in [Members -> MaybeMember], joined \subseteq Members,
           \A x \in joined : sponsor[x] \in joined \cup {NoMember},
           NEW rank, Ranks(sponsor, rank),
           NEW s \in joined, NEW u \in Members, u # s,
           u \notin Ancestors(s, Cardinality(Members))
    PROVE  \E A : Apart(joined, sponsor, A, u, s)
<1> DEFINE N == Cardinality(Members)
           up == Climb(sponsor, s)
           A == {up[k] : k \in 0 .. N} \ {NoMember}
<1>0. N \in Nat /\ up[N] = NoMember
    BY FS_CardinalityType, TreeAssumption, ClimbEnds
<1>1. up[0] = s /\ \A k \in Nat : up[k + 1] = Above(sponsor, up[k])
    BY ClimbSteps
<1>2. \A k \in Nat : up[k] \in joined \cup {NoMember}
    BY ClimbStays
<1>3. \A k \in 1 .. N : up[k] # u \/ up[k] = NoMember
    BY DEF Ancestors, Upline
<1> HIDE DEF N, up
<1>4. A \subseteq joined
    BY <1>2
<1>5. s \in A
    <2>1. s # NoMember /\ 0 \in 0 .. N
        BY <1>0, TreeAssumption
    <2> QED
        BY <1>1, <2>1
<1>6. u \notin A
    <2> SUFFICES ASSUME NEW k \in 0 .. N, up[k] = u, up[k] # NoMember PROVE FALSE
        OBVIOUS
    <2>1. k = 0 \/ k \in 1 .. N
        BY <1>0
    <2> QED
        BY <1>1, <1>3, <2>1
<1>7. ASSUME NEW x \in A PROVE sponsor[x] \in A \cup {NoMember}
    <2>1. PICK k \in 0 .. N : up[k] = x /\ x # NoMember
        OBVIOUS
    <2>2. k # N /\ k \in Nat
        BY <1>0, <2>1
    <2>3. k + 1 \in 0 .. N
        BY <1>0, <2>1, <2>2
    <2>4. up[k + 1] = sponsor[x]
        BY <1>1, <2>1, <2>2 DEF Above
    <2> QED
        BY <2>3, <2>4
<1> HIDE DEF A
<1> QED
    BY <1>4, <1>5, <1>6, <1>7 DEF Apart

LEMMA LoopInit == TreeInit => LoopInv
<1> SUFFICES ASSUME TreeInit PROVE LoopFree
    BY DEF LoopInv
<1>1. \A c \in Attaching : ~Does(c, "checked")
    BY DEF TreeInit, Does, Resting
<1>2. Ranks(sponsor, [x \in Members |-> 0])
    BY DEF TreeInit, Ranks
<1> QED
    BY <1>1, <1>2 DEF LoopFree

LEMMA LoopSignUp ==
    ASSUME TreeTyped, Sponsored, LoopInv, NEW c \in Attaching,
           NEW u \in Members, NEW s \in Members, SignUpUnder(c, u, s)
    PROVE  LoopInv'
<1>0. /\ u \notin joined /\ s \in joined /\ joined' = joined \cup {u}
      /\ sponsor' = [sponsor EXCEPT ![u] = s] /\ bothRewire' = bothRewire
      /\ \A e \in Attaching : e # c => attaching'[e] = attaching[e]
      /\ attaching'[c].at = "direct"
    <2>1. attaching'[c] = [at |-> "direct", member |-> u, above |-> s]
        BY SignUpFrame
    <2> QED
        BY <2>1, SignUpFrame
<1> SUFFICES ASSUME LoopFree PROVE LoopFree'
    BY <1>0 DEF LoopInv
<1>1. /\ joined \subseteq Members /\ sponsor \in [Members -> MaybeMember]
      /\ \A x \in joined : sponsor[x] \in joined \cup {NoMember}
      /\ \A x \in Members \ joined : sponsor[x] = NoMember
    BY DEF TreeTyped, TreeTypeOK, MaybeMember, Sponsored
<1>2. \A x \in Members : sponsor[x] # u
    BY <1>0, <1>1, TreeAssumption
<1>3. PICK rank : Ranks(sponsor, rank)
    BY DEF LoopFree
<1> DEFINE r == [rank EXCEPT ![u] = rank[s] + 1]
<1>4. Ranks(sponsor', r)
    <2>1. rank \in [Members -> Nat] /\ s # u
        BY <1>0, <1>3 DEF Ranks
    <2>2. r \in [Members -> Nat] /\ r[u] = rank[s] + 1
        BY <2>1
    <2>3. \A x \in Members : x # u => r[x] = rank[x]
        BY <2>1
    <2>4. ASSUME NEW x \in Members, sponsor'[x] # NoMember PROVE r[sponsor'[x]] < r[x]
        <3>1. CASE x = u
            BY <1>0, <1>1, <2>1, <2>2, <2>3, <3>1
        <3>2. CASE x # u
            <4>1. sponsor'[x] = sponsor[x] /\ sponsor[x] \in Members /\ sponsor[x] # u
                BY <1>0, <1>1, <1>2, <2>4, <3>2 DEF MaybeMember
            <4>2. rank[sponsor[x]] < rank[x]
                BY <1>3, <2>4, <4>1 DEF Ranks
            <4> HIDE DEF r
            <4> QED
                BY <2>3, <3>2, <4>1, <4>2
        <3> QED
            BY <3>1, <3>2
    <2> HIDE DEF r
    <2> QED
        BY <2>2, <2>4 DEF Ranks
<1>5. \A e \in Attaching : Does(e, "checked")' => Does(e, "checked") /\ e # c
    BY <1>0 DEF Does
<1>6. \A e, d \in Attaching : Does(e, "checked")' /\ Does(d, "checked")' => e = d
    BY <1>5 DEF LoopFree
<1>7. ASSUME NEW e \in Attaching, Does(e, "checked")'
      PROVE  attaching'[e].to = NoMember
             \/ \E A : Apart(joined', sponsor', A, attaching'[e].member, attaching'[e].to)
    <2>1. Does(e, "checked") /\ attaching'[e] = attaching[e]
        BY <1>0, <1>5, <1>7
    <2>2. CASE attaching[e].to = NoMember
        BY <2>1, <2>2
    <2>3. CASE attaching[e].to # NoMember
        <3>1. PICK A : Apart(joined, sponsor, A, attaching[e].member, attaching[e].to)
            BY <2>1, <2>3 DEF LoopFree
        <3>2. A \subseteq joined'
            BY <1>0, <3>1 DEF Apart
        <3>3. \A x \in A : x # u /\ x \in Members /\ sponsor'[x] = sponsor[x]
            BY <1>0, <1>1, <3>1 DEF Apart
        <3>4. Apart(joined', sponsor', A, attaching[e].member, attaching[e].to)
            BY <3>1, <3>2, <3>3 DEF Apart
        <3> QED
            BY <2>1, <3>4
    <2> QED
        BY <2>2, <2>3
<1> HIDE DEF r
<1> QED
    BY <1>4, <1>6, <1>7 DEF LoopFree

LEMMA LoopRewire ==
    ASSUME TreeTyped, Sponsored, LoopInv, NEW c \in Attaching,
           NEW u \in Members, NEW s \in MaybeMember, Rewire(c, u, s)
    PROVE  LoopInv'
<1>0. /\ u \in joined /\ s \in (joined \cup {NoMember}) \ {u}
      /\ UNCHANGED <<joined, sponsor>>
      /\ \A e \in Attaching : e # c => attaching'[e] = attaching[e]
      /\ attaching'[c] = [at |-> "checked", member |-> u, to |-> s]
    BY RewireFrame
<1>1. /\ bothRewire' = (bothRewire \/ \E d \in Attaching : IsRewire(d))
      /\ s # NoMember => u \notin Ancestors(s, Cardinality(Members))
    BY DEF Rewire
<1> SUFFICES ASSUME ~bothRewire' PROVE LoopFree'
    BY DEF LoopInv
<1>2. LoopFree /\ \A d \in Attaching : ~Does(d, "checked")
    BY <1>1 DEF LoopInv, IsRewire, Does
<1>3. PICK rank : Ranks(sponsor, rank)
    BY <1>2 DEF LoopFree
<1>4. \A e \in Attaching : Does(e, "checked")' => e = c
    BY <1>0, <1>2 DEF Does
<1>5. s # NoMember => \E A : Apart(joined, sponsor, A, u, s)
    <2>1. /\ joined \subseteq Members /\ sponsor \in [Members -> MaybeMember]
          /\ \A x \in joined : sponsor[x] \in joined \cup {NoMember}
        BY DEF TreeTyped, TreeTypeOK, MaybeMember, Sponsored
    <2> SUFFICES ASSUME s # NoMember PROVE \E A : Apart(joined, sponsor, A, u, s)
        OBVIOUS
    <2>2. s \in joined /\ u # s /\ u \notin Ancestors(s, Cardinality(Members))
        BY <1>0, <1>1
    <2> QED
        BY <1>3, <2>1, <2>2, LookedApart
<1>6. ASSUME NEW A, Apart(joined, sponsor, A, u, s) PROVE Apart(joined', sponsor', A, u, s)
    BY <1>0, <1>6 DEF Apart
<1>7. ASSUME NEW e \in Attaching, Does(e, "checked")'
      PROVE  attaching'[e].to = NoMember
             \/ \E A : Apart(joined', sponsor', A, attaching'[e].member, attaching'[e].to)
    <2>1. attaching'[e].member = u /\ attaching'[e].to = s
        BY <1>0, <1>4, <1>7
    <2>2. CASE s = NoMember
        BY <2>1, <2>2
    <2>3. CASE s # NoMember
        <3>1. PICK A : Apart(joined, sponsor, A, u, s)
            BY <1>5, <2>3
        <3>2. Apart(joined', sponsor', A, u, s)
            BY <1>6, <3>1
        <3> QED
            BY <2>1, <3>2
    <2> QED
        BY <2>2, <2>3
<1>8. \E r : Ranks(sponsor', r)
    BY <1>0, <1>3
<1> QED
    BY <1>4, <1>7, <1>8 DEF LoopFree

LEMMA LoopReattach ==
    ASSUME TreeTyped, Sponsored, LoopInv, NEW c \in Attaching, Reattach(c)
    PROVE  LoopInv'
<1>1. PICK u : u = attaching[c].member
    OBVIOUS
<1>2. PICK s : s = attaching[c].to
    OBVIOUS
<1>0. /\ attaching[c].at = "checked" /\ u \in Members /\ s \in MaybeMember
      /\ joined' = joined /\ bothRewire' = bothRewire
      /\ sponsor' = [sponsor EXCEPT ![u] = s]
      /\ \A e \in Attaching : e # c => attaching'[e] = attaching[e]
      /\ attaching'[c].at = "count"
    BY <1>1, <1>2, ReattachFrame
<1> SUFFICES ASSUME LoopFree PROVE LoopFree'
    BY <1>0 DEF LoopInv
<1>3. sponsor \in [Members -> MaybeMember] /\ joined \subseteq Members
    BY DEF TreeTyped, TreeTypeOK, MaybeMember
<1>4. \A e \in Attaching : ~Does(e, "checked")'
    BY <1>0 DEF LoopFree, Does
<1>5. PICK rank : Ranks(sponsor, rank)
    BY DEF LoopFree
<1>6. rank \in [Members -> Nat] /\ \A x \in Members : sponsor[x] # NoMember => rank[sponsor[x]] < rank[x]
    BY <1>5 DEF Ranks
<1>7. \E r : Ranks(sponsor', r)
    <2>1. CASE s = NoMember
        <3>1. ASSUME NEW x \in Members, sponsor'[x] # NoMember PROVE rank[sponsor'[x]] < rank[x]
            BY <1>0, <1>3, <1>6, <2>1, <3>1
        <3> QED
            BY <1>6, <3>1 DEF Ranks
    <2>2. CASE s # NoMember
        <3>1. PICK A : Apart(joined, sponsor, A, u, s)
            BY <1>0, <1>1, <1>2, <2>2 DEF LoopFree, Does
        <3>2. /\ A \subseteq Members /\ s \in A /\ u \notin A
              /\ \A x \in A : sponsor[x] \in A \cup {NoMember}
            BY <1>3, <3>1 DEF Apart
        <3> DEFINE r == [x \in Members |-> IF x \in A THEN rank[x] ELSE rank[x] + rank[s] + 1]
        <3>3. rank[s] \in Nat /\ s \in Members
            BY <1>6, <3>2
        <3>4. r \in [Members -> Nat]
            BY <1>6, <3>3
        <3>5. ASSUME NEW x \in Members, sponsor'[x] # NoMember PROVE r[sponsor'[x]] < r[x]
            <4>1. CASE x = u
                <5>1. sponsor'[x] = s /\ rank[x] \in Nat
                    BY <1>0, <1>3, <1>6, <4>1
                <5>2. r[s] = rank[s] /\ r[x] = rank[x] + rank[s] + 1
                    BY <3>2, <3>3, <4>1
                <5> HIDE DEF r
                <5> QED
                    BY <3>3, <5>1, <5>2
            <4>2. CASE x # u
                <5>1. PICK y : y = sponsor[x]
                    OBVIOUS
                <5>2. sponsor'[x] = y /\ y \in Members /\ rank[y] < rank[x]
                    BY <1>0, <1>3, <1>6, <3>5, <4>2, <5>1 DEF MaybeMember
                <5>3. rank[y] \in Nat /\ rank[x] \in Nat
                    BY <1>6, <5>2
                <5>4. CASE x \in A
                    <6>1. y \in A
                        BY <3>2, <3>5, <5>1, <5>2, <5>4
                    <6>2. r[x] = rank[x] /\ r[y] = rank[y]
                        BY <5>2, <5>4, <6>1
                    <6> HIDE DEF r
                    <6> QED
                        BY <5>2, <6>2
                <5>5. CASE x \notin A
                    <6>1. r[x] = rank[x] + rank[s] + 1
                        BY <5>5
                    <6>2. r[y] = rank[y] \/ r[y] = rank[y] + rank[s] + 1
                        BY <5>2
                    <6> HIDE DEF r
                    <6> QED
                        BY <3>3, <5>2, <5>3, <6>1, <6>2
                <5> QED
                    BY <5>4, <5>5
            <4> QED
                BY <4>1, <4>2
        <3> HIDE DEF r
        <3> QED
            BY <3>4, <3>5 DEF Ranks
    <2> QED
        BY <2>1, <2>2
<1> QED
    BY <1>4, <1>7 DEF LoopFree

LEMMA LoopQuiet ==
    ASSUME TreeTyped, Sponsored, LoopInv, NEW c \in Attaching, QuietStep(c)
    PROVE  LoopInv'
<1>0. /\ joined' = joined /\ sponsor' = sponsor /\ bothRewire' = bothRewire
      /\ \A e \in Attaching : e # c => attaching'[e] = attaching[e]
      /\ attaching'[c].at # "checked"
    BY QuietFrame
<1> SUFFICES ASSUME LoopFree PROVE LoopFree'
    BY <1>0 DEF LoopInv
<1>1. \A e \in Attaching : Does(e, "checked")' => Does(e, "checked") /\ attaching'[e] = attaching[e]
    BY <1>0 DEF Does
<1>2. \A e, d \in Attaching : Does(e, "checked")' /\ Does(d, "checked")' => e = d
    BY <1>1 DEF LoopFree
<1>3. \E rank : Ranks(sponsor', rank)
    BY <1>0 DEF LoopFree
<1>4. ASSUME NEW A, NEW x, NEW s, Apart(joined, sponsor, A, x, s) PROVE Apart(joined', sponsor', A, x, s)
    BY <1>0, <1>4 DEF Apart
<1>5. ASSUME NEW e \in Attaching, Does(e, "checked")'
      PROVE  attaching'[e].to = NoMember
             \/ \E A : Apart(joined', sponsor', A, attaching'[e].member, attaching'[e].to)
    <2>1. Does(e, "checked") /\ attaching'[e] = attaching[e]
        BY <1>1, <1>5
    <2>2. CASE attaching[e].to = NoMember
        BY <2>1, <2>2
    <2>3. CASE attaching[e].to # NoMember
        <3>1. PICK A : Apart(joined, sponsor, A, attaching[e].member, attaching[e].to)
            BY <2>1, <2>3 DEF LoopFree
        <3>2. Apart(joined', sponsor', A, attaching[e].member, attaching[e].to)
            BY <1>0, <3>1 DEF Apart
        <3> QED
            BY <2>1, <3>2
    <2> QED
        BY <2>2, <2>3
<1> QED
    BY <1>2, <1>3, <1>5 DEF LoopFree

(***************************************************************************)
(* The levels at which an ancestor is met.                                 *)
(***************************************************************************)

\* Whether a is within n levels above u.
Counted(sp, a, u, n) == IF \E k \in 1 .. n : Climb(sp, u)[k] = a THEN 1 ELSE 0

\* Two sponsor functions that agree on a closed set agree on the way up from it.
LEMMA ClimbSame ==
    ASSUME NEW sp, NEW tp, NEW S, NEW u \in S \cup {NoMember},
           \A x \in S : sp[x] \in S \cup {NoMember} /\ tp[x] = sp[x]
    PROVE  \A k \in Nat : Climb(tp, u)[k] = Climb(sp, u)[k]
<1> DEFINE up == Climb(sp, u)
           vp == Climb(tp, u)
           P == {k \in Nat : vp[k] = up[k]}
<1>0. \A k \in Nat : up[k] \in S \cup {NoMember}
    BY ClimbStays
<1>1. up[0] = u /\ \A k \in Nat : up[k + 1] = Above(sp, up[k])
    BY ClimbSteps
<1>2. vp[0] = u /\ \A k \in Nat : vp[k + 1] = Above(tp, vp[k])
    BY ClimbSteps
<1> HIDE DEF up, vp
<1>3. 0 \in P
    BY <1>1, <1>2
<1>4. ASSUME NEW k \in Nat, k \in P PROVE k + 1 \in P
    BY <1>0, <1>1, <1>2, <1>4 DEF Above
<1>5. \A k \in Nat : k \in P
    <2> HIDE DEF P
    <2> QED
        BY <1>3, <1>4, AllNaturals
<1> QED
    BY <1>5 DEF up, vp

\* After a step up, the climb is that of the sponsor.
LEMMA ClimbOver ==
    ASSUME NEW sp, NEW u, NEW i \in Nat, Climb(sp, u)[i] = NoMember
    PROVE  \A j \in Nat : i <= j => Climb(sp, u)[j] = NoMember
<1> DEFINE up == Climb(sp, u)
           P == {j \in Nat : i <= j => up[j] = NoMember}
<1>1. \A k \in Nat : up[k + 1] = Above(sp, up[k])
    BY ClimbSteps
<1>2. up[i] = NoMember
    OBVIOUS
<1> HIDE DEF up
<1>3. 0 \in P
    <2>1. i <= 0 => i = 0
        OBVIOUS
    <2> QED
        BY <1>2, <2>1
<1>4. ASSUME NEW k \in Nat, k \in P PROVE k + 1 \in P
    <2>1. i <= k + 1 => i <= k \/ i = k + 1
        OBVIOUS
    <2> QED
        BY <1>1, <1>2, <1>4, <2>1 DEF Above
<1>5. \A k \in Nat : k \in P
    <2> HIDE DEF P
    <2> QED
        BY <1>3, <1>4, AllNaturals
<1> QED
    BY <1>5 DEF up

\* A ranked chain meets nobody twice.
LEMMA ClimbOnce ==
    ASSUME NEW sp \in [Members -> MaybeMember], NEW rank, Ranks(sp, rank), NEW u \in Members,
           NEW i \in Nat, NEW j \in Nat, Climb(sp, u)[i] = Climb(sp, u)[j], Climb(sp, u)[i] # NoMember
    PROVE  i = j
<1>0. Climb(sp, u)[j] # NoMember
    OBVIOUS
<1>1. Climb(sp, u)[i] \in Members
    <2>1. Climb(sp, u)[i] \in Members \cup {NoMember}
        BY ClimbStays DEF MaybeMember
    <2> QED
        BY <2>1
<1>2. rank[Climb(sp, u)[i]] \in Nat
    BY <1>1 DEF Ranks
<1>3. ~(i < j)
    BY <1>0, <1>2, ClimbDescends
<1>4. ~(j < i)
    BY <1>2, ClimbDescends
<1> QED
    BY <1>3, <1>4

\* Reattaching counts an ancestor once.
LEMMA TimesOnce ==
    ASSUME NEW sp \in [Members -> MaybeMember], NEW rank, Ranks(sp, rank), NEW u \in Members,
           NEW a \in Members, NEW n \in Nat
    PROVE  Cardinality({k \in 1 .. n : Climb(sp, u)[k] = a}) = Counted(sp, a, u, n)
<1> DEFINE S == {k \in 1 .. n : Climb(sp, u)[k] = a}
<1>0. a # NoMember
    BY TreeAssumption
<1>1. CASE \E k \in 1 .. n : Climb(sp, u)[k] = a
    <2>1. PICK k \in 1 .. n : Climb(sp, u)[k] = a
        BY <1>1
    <2>2. ASSUME NEW j \in S PROVE j = k
        <3>1. j \in Nat /\ k \in Nat /\ Climb(sp, u)[j] = Climb(sp, u)[k] /\ Climb(sp, u)[j] # NoMember
            BY <1>0, <2>1
        <3> QED
            BY <3>1, ClimbOnce
    <2>3. S = {k}
        BY <2>1, <2>2
    <2> HIDE DEF S
    <2>4. Cardinality(S) = 1
        BY <2>3, FS_Singleton
    <2> QED
        BY <1>1, <2>4 DEF S, Counted
<1>2. CASE ~ \E k \in 1 .. n : Climb(sp, u)[k] = a
    <2>1. S = {}
        BY <1>2
    <2> HIDE DEF S
    <2>2. Cardinality(S) = 0
        BY <2>1, FS_EmptySet
    <2> QED
        BY <1>2, <2>2 DEF S, Counted
<1> QED
    BY <1>1, <1>2

\* One level more.
LEMMA CountedMore ==
    ASSUME NEW sp \in [Members -> MaybeMember], NEW rank, Ranks(sp, rank), NEW u \in Members,
           NEW a \in Members, NEW l \in Nat, l # 0
    PROVE  /\ Climb(sp, u)[l] = a =>
                Counted(sp, a, u, l - 1) = 0 /\ Counted(sp, a, u, l) = 1
           /\ Climb(sp, u)[l] # a => Counted(sp, a, u, l) = Counted(sp, a, u, l - 1)
<1>0. a # NoMember
    BY TreeAssumption
<1>1. ASSUME Climb(sp, u)[l] = a
      PROVE  Counted(sp, a, u, l - 1) = 0 /\ Counted(sp, a, u, l) = 1
    <2>1. ASSUME NEW k \in 1 .. l - 1, Climb(sp, u)[k] = a PROVE FALSE
        <3>1. k \in Nat /\ k # l /\ Climb(sp, u)[k] # NoMember /\ Climb(sp, u)[k] = Climb(sp, u)[l]
            BY <1>0, <1>1, <2>1
        <3> QED
            BY <3>1, ClimbOnce
    <2>2. l \in 1 .. l
        OBVIOUS
    <2> QED
        BY <1>1, <2>1, <2>2 DEF Counted
<1>2. ASSUME Climb(sp, u)[l] # a
      PROVE  Counted(sp, a, u, l) = Counted(sp, a, u, l - 1)
    <2>1. ASSUME NEW k \in 1 .. l, Climb(sp, u)[k] = a PROVE k \in 1 .. l - 1
        BY <1>2, <2>1
    <2>2. \A k \in 1 .. l - 1 : k \in 1 .. l
        OBVIOUS
    <2> QED
        BY <2>1, <2>2 DEF Counted
<1> QED
    BY <1>1, <1>2

\* Nobody is above the end of the chain.
LEMMA CountedAllOf ==
    ASSUME NEW sp, NEW u, NEW a \in Members, NEW l \in Nat, NEW n \in Nat, l <= n,
           l = n \/ Climb(sp, u)[l + 1] = NoMember
    PROVE  Counted(sp, a, u, l) = Counted(sp, a, u, n)
<1>0. a # NoMember
    BY TreeAssumption
<1>1. CASE l = n
    BY <1>1
<1>2. CASE Climb(sp, u)[l + 1] = NoMember
    <2>0. \A j \in Nat : l + 1 <= j => Climb(sp, u)[j] = NoMember
        BY <1>2, ClimbOver
    <2>1. ASSUME NEW k \in 1 .. n, Climb(sp, u)[k] = a PROVE k \in 1 .. l
        <3>1. ~(l + 1 <= k)
            BY <1>0, <2>0, <2>1
        <3> QED
            BY <3>1
    <2>2. \A k \in 1 .. l : k \in 1 .. n
        OBVIOUS
    <2> QED
        BY <2>1, <2>2 DEF Counted
<1> QED
    BY <1>1, <1>2

\* Nothing is counted within no levels.
LEMMA CountedNone ==
    ASSUME NEW sp, NEW u, NEW a
    PROVE  Counted(sp, a, u, 0) = 0
<1>1. 1 .. 0 = {}
    OBVIOUS
<1> QED
    BY <1>1 DEF Counted

\* The same climb counts the same ancestors.
LEMMA CountedSame ==
    ASSUME NEW sp, NEW tp, NEW S, NEW u \in S \cup {NoMember},
           \A x \in S : sp[x] \in S \cup {NoMember} /\ tp[x] = sp[x],
           NEW a, NEW n \in Nat
    PROVE  Counted(tp, a, u, n) = Counted(sp, a, u, n)
<1>1. \A k \in Nat : Climb(tp, u)[k] = Climb(sp, u)[k]
    BY ClimbSame
<1>2. \A k \in 1 .. n : k \in Nat
    OBVIOUS
<1> QED
    BY <1>1, <1>2 DEF Counted

(***************************************************************************)
(* The edges.  Sign-ups have written theirs up to their level, and         *)
(* everybody else's are complete.                                          *)
(***************************************************************************)

Signs(d) == d.at \in {"direct", "edge", "team"}

\* The levels a sign-up has written an edge for, and the one it is at.
Reached(d) == IF d.at = "direct" THEN 0 ELSE IF d.at = "edge" THEN d.level - 1 ELSE d.level
LevelOf(d) == IF d.at = "direct" THEN 1 ELSE d.level

Placed(sp, d) == Climb(sp, d.member)[LevelOf(d)] = d.above
WrittenTo(es, sp, u, n) == \A a \in Members : es[<<a, u>>] = Counted(sp, a, u, n)

\* A call that is no sign-up has nothing beside it.
Solo ==
    \A c, d \in Attaching :
        c # d /\ attaching[c].at # "resting" /\ ~Signs(attaching[c]) => attaching[d].at = "resting"

OwnMember ==
    \A c, d \in Attaching :
        Signs(attaching[c]) /\ Signs(attaching[d]) /\ attaching[c].member = attaching[d].member => c = d

StillLeaf ==
    \A c \in Attaching :
        attaching[c].at = "checked" => \A x \in Members : sponsor[x] # attaching[c].member

SignUpsWrite ==
    \A c \in Attaching :
        Signs(attaching[c]) =>
            /\ Placed(sponsor, attaching[c])
            /\ WrittenTo(edges, sponsor, attaching[c].member, Reached(attaching[c]))

OthersWritten ==
    \A u \in Members :
        (\A c \in Attaching : Signs(attaching[c]) => attaching[c].member # u) =>
            WrittenTo(edges, sponsor, u, Depth)

\* Every sign-up under way has written the edges up to its level, everybody
\* else's are complete, and a rewire under way still finds a leaf.
EdgesHold == ~bothRewire /\ Solo /\ OwnMember /\ StillLeaf /\ SignUpsWrite /\ OthersWritten
EdgesInv == edgesOff \/ EdgesHold

\* Who is alone stays so as calls go on and end, ...
LEMMA SoloKept ==
    ASSUME Solo, NEW c \in Attaching,
           \A e \in Attaching : e # c => attaching'[e] = attaching[e],
           \/ attaching'[c].at = "resting"
           \/ Signs(attaching[c]) /\ Signs(attaching'[c])
           \/ attaching[c].at # "resting" /\ ~Signs(attaching[c])
    PROVE  Solo'
<1> SUFFICES ASSUME NEW d \in Attaching, NEW e \in Attaching, d # e,
                    attaching'[d].at # "resting", ~Signs(attaching'[d])
             PROVE  attaching'[e].at = "resting"
    BY DEF Solo
<1>1. CASE d = c
    <2>1. attaching[c].at # "resting" /\ ~Signs(attaching[c]) /\ attaching'[e] = attaching[e]
        BY <1>1
    <2> QED
        BY <1>1, <2>1 DEF Solo
<1>2. CASE d # c
    <2>1. attaching'[d] = attaching[d]
        BY <1>2
    <2>2. \A x \in Attaching : x # d => attaching[x].at = "resting"
        BY <2>1 DEF Solo
    <2>3. attaching[c].at = "resting" /\ ~Signs(attaching[c])
        BY <1>2, <2>2 DEF Signs
    <2>4. attaching'[c].at = "resting"
        BY <2>3
    <2> QED
        BY <2>2, <2>4
<1> QED
    BY <1>1, <1>2

\* ... and begin.
LEMMA SoloBegins ==
    ASSUME TreeTyped, Solo, NEW c \in Attaching, NEW doing, NEW isSignUp \in BOOLEAN,
           Begins(c, doing, isSignUp), isSignUp => Signs(doing),
           Calm \/ (isSignUp /\ \A d \in Attaching : IsResting(d) \/ IsSignUp(d))
    PROVE  Solo'
<1>0. attaching'[c] = doing /\ \A e \in Attaching : e # c => attaching'[e] = attaching[e]
    BY Turned DEF Begins
<1>1. CASE Calm
    <2>1. \A e \in Attaching : e # c => attaching'[e].at = "resting"
        BY <1>0, <1>1 DEF Calm, IsResting, Does
    <2> QED
        BY <2>1 DEF Solo
<1>2. CASE isSignUp /\ \A d \in Attaching : IsResting(d) \/ IsSignUp(d)
    <2>1. ASSUME NEW d \in Attaching PROVE attaching'[d].at = "resting" \/ Signs(attaching'[d])
        BY <1>0, <1>2 DEF IsResting, IsSignUp, Does, Signs
    <2> QED
        BY <2>1 DEF Solo
<1> QED
    BY <1>1, <1>2

\* The edges stay: a call that writes none begins, goes on or ends, and a sign-up
\* that ends has written them all.
LEMMA EdgesStay ==
    ASSUME EdgesHold, NEW c \in Attaching,
           sponsor' = sponsor, edges' = edges, ~bothRewire', Solo',
           \A e \in Attaching : e # c => attaching'[e] = attaching[e],
           \/ /\ ~Signs(attaching[c]) /\ ~Signs(attaching'[c])
              /\ attaching'[c].at = "checked" => \A x \in Members : sponsor[x] # attaching'[c].member
           \/ /\ Signs(attaching[c]) /\ Signs(attaching'[c])
              /\ attaching'[c].member = attaching[c].member
              /\ Reached(attaching'[c]) = Reached(attaching[c])
              /\ Placed(sponsor, attaching'[c])
           \/ /\ Signs(attaching[c]) /\ attaching'[c].at = "resting"
              /\ \A a \in Members : Counted(sponsor, a, attaching[c].member, Reached(attaching[c]))
                                      = Counted(sponsor, a, attaching[c].member, Depth)
    PROVE  EdgesHold'
<1>0. OwnMember /\ StillLeaf /\ SignUpsWrite /\ OthersWritten
    BY DEF EdgesHold
<1>1. \A e \in Attaching : Signs(attaching'[e]) =>
          Signs(attaching[e]) /\ attaching'[e].member = attaching[e].member
    BY DEF Signs
<1>2. OwnMember'
    BY <1>0, <1>1 DEF OwnMember
<1>3. StillLeaf'
    <2> SUFFICES ASSUME NEW e \in Attaching, attaching'[e].at = "checked", NEW x \in Members
                 PROVE  sponsor[x] # attaching'[e].member
        BY DEF StillLeaf
    <2>1. CASE e = c
        BY <2>1 DEF Signs
    <2>2. CASE e # c
        BY <1>0, <2>2 DEF StillLeaf
    <2> QED
        BY <2>1, <2>2
<1>4. SignUpsWrite'
    <2> SUFFICES ASSUME NEW e \in Attaching, Signs(attaching'[e])
                 PROVE  /\ Placed(sponsor, attaching'[e])
                        /\ WrittenTo(edges, sponsor, attaching'[e].member, Reached(attaching'[e]))
        BY DEF SignUpsWrite
    <2>1. CASE e = c
        BY <1>0, <2>1 DEF SignUpsWrite, Signs
    <2>2. CASE e # c
        BY <1>0, <2>2 DEF SignUpsWrite
    <2> QED
        BY <2>1, <2>2
<1>5. OthersWritten'
    <2> SUFFICES ASSUME NEW u \in Members,
                        \A e \in Attaching : Signs(attaching'[e]) => attaching'[e].member # u
                 PROVE  WrittenTo(edges, sponsor, u, Depth)
        BY DEF OthersWritten
    <2>1. CASE \A e \in Attaching : Signs(attaching[e]) => attaching[e].member # u
        BY <1>0, <2>1 DEF OthersWritten
    <2>2. CASE \E e \in Attaching : Signs(attaching[e]) /\ attaching[e].member = u
        <3>0. PICK e \in Attaching : Signs(attaching[e]) /\ attaching[e].member = u
            BY <2>2
        <3>4. e = c
            BY <3>0
        <3>1. Signs(attaching[c]) /\ attaching[c].member = u /\ ~Signs(attaching'[c])
            BY <3>0, <3>4 DEF Signs
        <3>2. WrittenTo(edges, sponsor, u, Reached(attaching[c]))
            BY <1>0, <3>1 DEF SignUpsWrite
        <3>3. \A a \in Members : Counted(sponsor, a, u, Reached(attaching[c]))
                                      = Counted(sponsor, a, u, Depth)
            BY <3>1
        <3> QED
            BY <3>2, <3>3 DEF WrittenTo
    <2> QED
        BY <2>1, <2>2
<1> QED
    BY <1>2, <1>3, <1>4, <1>5 DEF EdgesHold

(***************************************************************************)
(* Steps that add edges: a sign-up begins, and goes on.                    *)
(***************************************************************************)

\* A step that is not lost and keeps the edges in order begins alone, or as a
\* sign-up among sign-ups.
LEMMA BeginsUnmixed ==
    ASSUME NEW c \in Attaching, NEW doing, NEW isSignUp \in BOOLEAN, Begins(c, doing, isSignUp)
    PROVE  /\ attaching[c].at = "resting"
           /\ ~edgesOff' => ~edgesOff
           /\ ~countsOff' => ~countsOff
           /\ ~edgesOff' \/ ~countsOff' =>
                 Calm \/ (isSignUp /\ \A d \in Attaching : IsResting(d) \/ IsSignUp(d))
           /\ alone' = Calm
BY DEF Begins, IsResting, Does

\* A sign-up adds a leaf: no other climb changes.
LEMMA EdgesSignUp ==
    ASSUME TreeTyped, Sponsored, EdgesInv, NEW c \in Attaching,
           NEW u \in Members, NEW s \in Members, SignUpUnder(c, u, s)
    PROVE  EdgesInv'
<1> SUFFICES ASSUME ~edgesOff' PROVE EdgesHold'
    BY DEF EdgesInv
<1> DEFINE doing == [at |-> "direct", member |-> u, above |-> s]
<1>0. /\ u \notin joined /\ s \in joined /\ joined' = joined \cup {u}
      /\ sponsor' = [sponsor EXCEPT ![u] = s] /\ bothRewire' = bothRewire
      /\ \A e \in Attaching : e # c => attaching'[e] = attaching[e]
      /\ attaching'[c] = doing /\ edges' = edges
    BY SignUpFrame DEF SignUpUnder
<1>1. Begins(c, doing, TRUE)
    BY DEF SignUpUnder
<1>2. /\ attaching[c].at = "resting" /\ ~edgesOff
      /\ Calm \/ \A d \in Attaching : IsResting(d) \/ IsSignUp(d)
    BY <1>1, BeginsUnmixed
<1>3. EdgesHold
    BY <1>2 DEF EdgesInv
<1>t. doing.at = "direct" /\ doing.member = u /\ doing.above = s
    OBVIOUS
<1> HIDE DEF doing
<1>4. Solo'
    <2>1. Signs(doing)
        BY <1>t DEF Signs
    <2> QED
        BY <1>1, <1>2, <1>3, <2>1, SoloBegins DEF EdgesHold
<1>5. /\ joined \subseteq Members /\ sponsor \in [Members -> MaybeMember]
      /\ \A x \in joined : sponsor[x] \in joined \cup {NoMember}
      /\ \A x \in Members \ joined : sponsor[x] = NoMember
    BY DEF TreeTyped, TreeTypeOK, MaybeMember, Sponsored
<1>6. \A e \in Attaching : e # c /\ Signs(attaching[e]) => attaching[e].member \in joined
    BY DEF Sponsored, Signs, IsSignUp
<1>7. OwnMember'
    <2>1. \A e \in Attaching : Signs(attaching'[e]) =>
              e = c \/ (Signs(attaching[e]) /\ attaching'[e].member = attaching[e].member
                        /\ attaching'[e].member \in joined)
        BY <1>0, <1>6
    <2>2. attaching'[c].member = u
        BY <1>0, <1>t
    <2> QED
        BY <1>0, <1>3, <2>1, <2>2 DEF EdgesHold, OwnMember
<1>8. \A e \in Attaching : attaching'[e].at # "checked"
    <2>1. \A e \in Attaching : attaching[e].at # "checked"
        BY <1>2 DEF Calm, IsResting, IsSignUp, Does
    <2> QED
        BY <1>0, <1>t, <2>1
<1>9. StillLeaf'
    BY <1>8 DEF StillLeaf
<1> DEFINE S == Members \ {u}
<1>10. \A x \in S : sponsor[x] \in S \cup {NoMember} /\ sponsor'[x] = sponsor[x]
    <2>1. \A x \in S : sponsor[x] # u
        BY <1>0, <1>5, TreeAssumption
    <2> QED
        BY <1>0, <1>5, <2>1 DEF MaybeMember
<1>11. ASSUME NEW x \in S PROVE \A k \in Nat : Climb(sponsor', x)[k] = Climb(sponsor, x)[k]
    <2>1. x \in S \cup {NoMember}
        OBVIOUS
    <2> HIDE DEF S
    <2> QED
        BY <1>10, <2>1, ClimbSame
<1>12. ASSUME NEW x \in S, NEW n \in Nat, WrittenTo(edges, sponsor, x, n)
       PROVE  WrittenTo(edges', sponsor', x, n)
    <2>1. \A a : Counted(sponsor', a, x, n) = Counted(sponsor, a, x, n)
        <3>1. \A k \in 1 .. n : k \in Nat
            OBVIOUS
        <3> QED
            BY <1>11, <3>1 DEF Counted
    <2> QED
        BY <1>0, <1>12, <2>1 DEF WrittenTo
<1>13. \A e \in Attaching : attaching[e] \in Doings
    BY DEF TreeTyped
<1>14. SignUpsWrite'
    <2> SUFFICES ASSUME NEW e \in Attaching, Signs(attaching'[e])
                 PROVE  /\ Placed(sponsor', attaching'[e])
                        /\ WrittenTo(edges', sponsor', attaching'[e].member, Reached(attaching'[e]))
        BY DEF SignUpsWrite
    <2>1. CASE e = c
        <3>1. attaching'[e] = doing /\ LevelOf(doing) = 1 /\ Reached(doing) = 0
            BY <1>0, <1>t, <2>1 DEF LevelOf, Reached
        <3>2. Climb(sponsor', u)[0] = u /\ Climb(sponsor', u)[0 + 1] = Above(sponsor', Climb(sponsor', u)[0])
            BY ClimbSteps
        <3>3. Climb(sponsor', u)[1] = s
            BY <1>0, <1>5, <3>2, TreeAssumption DEF Above
        <3>4. Placed(sponsor', doing)
            BY <1>t, <3>1, <3>3 DEF Placed
        <3>5. \A e2 \in Attaching : Signs(attaching[e2]) => attaching[e2].member # u
            BY <1>0, <1>2, <1>6 DEF Signs
        <3>6. WrittenTo(edges, sponsor, u, Depth)
            BY <1>3, <3>5 DEF EdgesHold, OthersWritten
        <3>7. ASSUME NEW a \in Members PROVE edges[<<a, u>>] = 0
            <4>1. Climb(sponsor, u)[0] = u /\ Climb(sponsor, u)[0 + 1] = Above(sponsor, Climb(sponsor, u)[0])
                BY ClimbSteps
            <4>2. Climb(sponsor, u)[0 + 1] = NoMember
                BY <1>0, <1>5, <4>1, TreeAssumption DEF Above
            <4>3. Counted(sponsor, a, u, 0) = Counted(sponsor, a, u, Depth)
                BY <4>2, CountedAllOf, TreeAssumption
            <4> QED
                BY <3>6, <4>3, CountedNone DEF WrittenTo
        <3>8. WrittenTo(edges', sponsor', u, 0)
            BY <1>0, <3>7, CountedNone DEF WrittenTo
        <3> QED
            BY <1>t, <3>1, <3>4, <3>8
    <2>2. CASE e # c
        <3>1. attaching'[e] = attaching[e] /\ Signs(attaching[e])
            BY <1>0, <2>2
        <3>2. attaching[e].member \in S /\ attaching[e].member \in Members
            BY <1>0, <1>5, <1>6, <2>2, <3>1
        <3>3. Reached(attaching[e]) \in Nat /\ LevelOf(attaching[e]) \in Nat
            <4>1. attaching[e].at = "direct" \/ attaching[e].level \in 1 .. Depth
                BY <1>13, <3>1, DoingAt DEF Signs
            <4> QED
                BY <4>1, TreeAssumption DEF Reached, LevelOf
        <3>4. Placed(sponsor, attaching[e])
              /\ WrittenTo(edges, sponsor, attaching[e].member, Reached(attaching[e]))
            BY <1>3, <3>1 DEF EdgesHold, SignUpsWrite
        <3> HIDE DEF S
        <3>5. Placed(sponsor', attaching[e])
            BY <1>11, <3>2, <3>3, <3>4 DEF Placed
        <3>6. WrittenTo(edges', sponsor', attaching[e].member, Reached(attaching[e]))
            BY <1>12, <3>2, <3>3, <3>4
        <3> QED
            BY <3>1, <3>5, <3>6
    <2> QED
        BY <2>1, <2>2
<1>15. OthersWritten'
    <2> SUFFICES ASSUME NEW x \in Members,
                        \A e \in Attaching : Signs(attaching'[e]) => attaching'[e].member # x
                 PROVE  WrittenTo(edges', sponsor', x, Depth)
        BY DEF OthersWritten
    <2>1. x # u
        BY <1>0, <1>t DEF Signs
    <2>2. \A e \in Attaching : Signs(attaching[e]) => attaching[e].member # x
        BY <1>0, <1>2 DEF Signs
    <2>3. WrittenTo(edges, sponsor, x, Depth)
        BY <1>3, <2>2 DEF EdgesHold, OthersWritten
    <2>4. x \in S /\ Depth \in Nat
        BY <2>1, TreeAssumption
    <2> HIDE DEF S
    <2> QED
        BY <1>12, <2>3, <2>4
<1> QED
    BY <1>0, <1>3, <1>4, <1>7, <1>9, <1>14, <1>15 DEF EdgesHold

\* It writes the edge of its level.
LEMMA EdgesAdd ==
    ASSUME TreeTyped, Sponsored, LoopInv, EdgesInv, NEW c \in Attaching, AddEdge(c)
    PROVE  EdgesInv'
<1>0. TreeTypeOK /\ attaching[c] \in Doings /\ attaching[c].at = "edge"
    BY DEF TreeTyped, AddEdge, Does
<1> SUFFICES ASSUME ~edgesOff' PROVE EdgesHold'
    BY DEF EdgesInv
<1>1. EdgesHold /\ bothRewire' = bothRewire /\ sponsor' = sponsor
    BY DEF AddEdge, EdgesInv
<1>2. attaching[c] \in [at : {"edge", "team"}, member : Members, above : Members, level : 1 .. Depth]
    BY <1>0, DoingAt
<1>3. PICK u \in Members : u = attaching[c].member
    BY <1>2
<1>4. PICK b \in Members : b = attaching[c].above
    BY <1>2
<1>5. PICK l \in 1 .. Depth : l = attaching[c].level
    BY <1>2
<1> DEFINE d == [attaching[c] EXCEPT !.at = "team"]
<1>6. Turns(c, d) /\ edges' = [edges EXCEPT ![<<b, u>>] = @ + 1]
    BY <1>3, <1>4 DEF AddEdge
<1>7. d.at = "team" /\ d.member = u /\ d.above = b /\ d.level = l
    BY <1>2, <1>3, <1>4, <1>5
<1> HIDE DEF d
<1>8. attaching'[c] = d /\ \A e \in Attaching : e # c => attaching'[e] = attaching[e]
    BY <1>6, Turned
<1>9. Signs(attaching[c]) /\ Signs(d) /\ Reached(attaching[c]) = l - 1 /\ Reached(d) = l
      /\ LevelOf(attaching[c]) = l /\ LevelOf(d) = l
    BY <1>0, <1>5, <1>7 DEF Signs, Reached, LevelOf
<1>10. Solo'
    BY <1>1, <1>8, <1>9, SoloKept DEF EdgesHold
<1>11. \A e \in Attaching : /\ Signs(attaching'[e]) <=> Signs(attaching[e])
                            /\ Signs(attaching[e]) => attaching'[e].member = attaching[e].member
    BY <1>3, <1>7, <1>8, <1>9
<1>12. OwnMember'
    BY <1>1, <1>11 DEF EdgesHold, OwnMember
<1>13. StillLeaf'
    <2>1. \A e \in Attaching : attaching'[e].at = "checked" => attaching'[e] = attaching[e]
        BY <1>7, <1>8
    <2> QED
        BY <1>1, <2>1 DEF EdgesHold, StillLeaf
<1>14. \A a, x \in Members : edges'[<<a, x>>] = IF a = b /\ x = u THEN edges[<<a, x>>] + 1 ELSE edges[<<a, x>>]
    BY <1>0, <1>6 DEF TreeTypeOK, Pairs
<1>15. Placed(sponsor, attaching[c]) /\ WrittenTo(edges, sponsor, u, l - 1)
    BY <1>1, <1>3, <1>9 DEF EdgesHold, SignUpsWrite
<1>16. PICK rank : Ranks(sponsor, rank)
    BY <1>1 DEF EdgesHold, LoopInv, LoopFree
<1>17. sponsor \in [Members -> MaybeMember]
    BY <1>0 DEF TreeTypeOK, MaybeMember
<1>18. Climb(sponsor, u)[l] = b
    BY <1>3, <1>4, <1>9, <1>15 DEF Placed
<1>19. WrittenTo(edges', sponsor, u, l)
    <2> SUFFICES ASSUME NEW a \in Members PROVE edges'[<<a, u>>] = Counted(sponsor, a, u, l)
        BY DEF WrittenTo
    <2>1. edges[<<a, u>>] = Counted(sponsor, a, u, l - 1)
        BY <1>15 DEF WrittenTo
    <2>2. l \in Nat /\ l # 0
        BY TreeAssumption
    <2>3. CASE a = b
        BY <1>14, <1>16, <1>17, <1>18, <2>1, <2>2, <2>3, CountedMore
    <2>4. CASE a # b
        BY <1>14, <1>16, <1>17, <1>18, <2>1, <2>2, <2>4, CountedMore
    <2> QED
        BY <2>3, <2>4
<1>20. \A n : \A x \in Members : x # u /\ WrittenTo(edges, sponsor, x, n) => WrittenTo(edges', sponsor, x, n)
    BY <1>14 DEF WrittenTo
<1>21. SignUpsWrite'
    <2> SUFFICES ASSUME NEW e \in Attaching, Signs(attaching'[e])
                 PROVE  /\ Placed(sponsor, attaching'[e])
                        /\ WrittenTo(edges', sponsor, attaching'[e].member, Reached(attaching'[e]))
        BY <1>1 DEF SignUpsWrite
    <2>1. CASE e = c
        <3>1. Placed(sponsor, d)
            BY <1>7, <1>9, <1>18 DEF Placed
        <3> QED
            BY <1>7, <1>8, <1>9, <1>19, <2>1, <3>1
    <2>2. CASE e # c
        <3>1. attaching'[e] = attaching[e] /\ Signs(attaching[e])
            BY <1>8, <2>2
        <3>2. attaching[e].member # u
            BY <1>1, <1>3, <1>9, <2>2, <3>1 DEF EdgesHold, OwnMember
        <3>3. attaching[e].member \in Members
            BY <3>1 DEF Sponsored, Signs, IsSignUp, TreeTyped, TreeTypeOK
        <3>4. Placed(sponsor, attaching[e])
              /\ WrittenTo(edges, sponsor, attaching[e].member, Reached(attaching[e]))
            BY <1>1, <3>1 DEF EdgesHold, SignUpsWrite
        <3> QED
            BY <1>20, <3>1, <3>2, <3>3, <3>4
    <2> QED
        BY <2>1, <2>2
<1>22. OthersWritten'
    <2> SUFFICES ASSUME NEW x \in Members,
                        \A e \in Attaching : Signs(attaching'[e]) => attaching'[e].member # x
                 PROVE  WrittenTo(edges', sponsor, x, Depth)
        BY <1>1 DEF OthersWritten
    <2>1. x # u
        BY <1>7, <1>8, <1>9
    <2>2. \A e \in Attaching : Signs(attaching[e]) => attaching[e].member # x
        BY <1>11
    <2>3. WrittenTo(edges, sponsor, x, Depth)
        BY <1>1, <2>2 DEF EdgesHold, OthersWritten
    <2> QED
        BY <1>20, <2>1, <2>3
<1> QED
    BY <1>1, <1>10, <1>12, <1>13, <1>21, <1>22 DEF EdgesHold

(***************************************************************************)
(* A rewire replaces the edges of its leaf; the other steps leave them.    *)
(***************************************************************************)

\* The transaction of a rewire writes what the new climb says.
LEMMA EdgesReattach ==
    ASSUME TreeTyped, Sponsored, LoopInv, LoopInv', EdgesInv, NEW c \in Attaching, Reattach(c)
    PROVE  EdgesInv'
<1> SUFFICES ASSUME ~edgesOff' PROVE EdgesHold'
    BY DEF EdgesInv
<1>1. PICK u : u = attaching[c].member
    OBVIOUS
<1>2. PICK s : s = attaching[c].to
    OBVIOUS
<1>0. /\ attaching[c].at = "checked" /\ u \in Members /\ s \in MaybeMember
      /\ joined' = joined /\ bothRewire' = bothRewire /\ edgesOff' = edgesOff
      /\ sponsor' = [sponsor EXCEPT ![u] = s]
      /\ \A e \in Attaching : e # c => attaching'[e] = attaching[e]
      /\ attaching'[c].at = "count"
    <2>1. attaching'[c] = [at |-> "count", todo |-> joined]
        BY ReattachFrame
    <2>2. edgesOff' = edgesOff
        BY DEF Reattach
    <2>3. attaching[c] \in [at : {"checked"}, member : Members, to : MaybeMember]
        BY ReattachFrame
    <2> QED
        BY <1>1, <1>2, <2>1, <2>2, <2>3, ReattachFrame
<1>3. EdgesHold
    BY <1>0 DEF EdgesInv
<1>4. ASSUME NEW p \in Pairs
      PROVE  edges'[p] = IF p[2] = u
                         THEN Cardinality({k \in 1 .. Depth : Climb(sponsor', u)[k] = p[1]})
                         ELSE edges[p]
    BY <1>0, <1>1, <1>2 DEF Reattach
<1>5. \A e \in Attaching : e # c => attaching[e].at = "resting"
    BY <1>0, <1>3 DEF EdgesHold, Solo, Signs
<1>6. \A e \in Attaching : ~Signs(attaching'[e]) /\ ~Signs(attaching[e]) /\ attaching'[e].at # "checked"
    BY <1>0, <1>5 DEF Signs
<1>7. Solo'
    BY <1>0, <1>3, SoloKept DEF EdgesHold, Signs
<1>8. PICK rank : Ranks(sponsor', rank)
    BY <1>0, <1>3 DEF LoopInv, LoopFree, EdgesHold
<1>9. sponsor \in [Members -> MaybeMember] /\ sponsor' \in [Members -> MaybeMember]
    BY <1>0 DEF TreeTyped, TreeTypeOK, MaybeMember
<1> DEFINE S == Members \ {u}
<1>10. \A x \in S : sponsor[x] \in S \cup {NoMember} /\ sponsor'[x] = sponsor[x]
    <2>1. \A x \in S : sponsor[x] # u
        BY <1>0, <1>1, <1>3 DEF EdgesHold, StillLeaf
    <2> QED
        BY <1>0, <1>9, <2>1 DEF MaybeMember
<1>11. OthersWritten'
    <2> SUFFICES ASSUME NEW x \in Members, NEW a \in Members
                 PROVE  edges'[<<a, x>>] = Counted(sponsor', a, x, Depth)
        BY DEF OthersWritten, WrittenTo
    <2>1. <<a, x>> \in Pairs /\ Depth \in Nat
        BY TreeAssumption DEF Pairs
    <2>2. CASE x = u
        <3>1. edges'[<<a, x>>] = Cardinality({k \in 1 .. Depth : Climb(sponsor', u)[k] = a})
            BY <1>4, <2>1, <2>2
        <3> QED
            BY <1>0, <1>8, <1>9, <2>1, <2>2, <3>1, TimesOnce
    <2>3. CASE x # u
        <3>1. edges'[<<a, x>>] = edges[<<a, x>>]
            BY <1>4, <2>1, <2>3
        <3>2. WrittenTo(edges, sponsor, x, Depth)
            BY <1>3, <1>6 DEF EdgesHold, OthersWritten
        <3>3. x \in S \cup {NoMember}
            BY <2>3
        <3> HIDE DEF S
        <3>4. Counted(sponsor', a, x, Depth) = Counted(sponsor, a, x, Depth)
            BY <1>10, <2>1, <3>3, CountedSame
        <3> QED
            BY <3>1, <3>2, <3>4 DEF WrittenTo
    <2> QED
        BY <2>2, <2>3
<1>12. OwnMember' /\ StillLeaf' /\ SignUpsWrite'
    BY <1>6 DEF OwnMember, StillLeaf, SignUpsWrite
<1> QED
    BY <1>0, <1>3, <1>7, <1>11, <1>12 DEF EdgesHold

\* All other steps.
LEMMA EdgesOther ==
    ASSUME TreeTyped, Sponsored, LoopInv, EdgesInv, NEW c \in Attaching,
           \/ \E u \in Members, s \in MaybeMember : Rewire(c, u, s)
           \/ CountDirect(c) \/ CountTeam(c) \/ Recount(c) \/ CountOne(c) \/ WriteOne(c)
           \/ CountedAll(c) \/ Lose(c)
    PROVE  EdgesInv'
<1> SUFFICES ASSUME ~edgesOff' PROVE EdgesHold'
    BY DEF EdgesInv
<1>0. TreeTypeOK /\ attaching[c] \in Doings
    BY DEF TreeTyped
<1>1. CASE \E u \in Members, s \in MaybeMember : Rewire(c, u, s)
    <2>1. PICK u \in Members, s \in MaybeMember : Rewire(c, u, s)
        BY <1>1
    <2> DEFINE doing == [at |-> "checked", member |-> u, to |-> s]
    <2>2. /\ Begins(c, doing, FALSE) /\ Children(u) = {} /\ edges' = edges
          /\ bothRewire' = (bothRewire \/ \E d \in Attaching : IsRewire(d))
        BY <2>1 DEF Rewire
    <2>3. attaching[c].at = "resting" /\ ~edgesOff /\ Calm
        BY <2>2, BeginsUnmixed
    <2>4. EdgesHold /\ ~bothRewire'
        BY <2>2, <2>3 DEF EdgesInv, EdgesHold, Calm, IsResting, IsRewire, Does
    <2>5. /\ sponsor' = sponsor /\ attaching'[c] = doing
          /\ \A e \in Attaching : e # c => attaching'[e] = attaching[e]
        BY <2>1, RewireFrame
    <2>6. doing.at = "checked" /\ doing.member = u
        OBVIOUS
    <2> HIDE DEF doing
    <2>7. Solo'
        BY <2>2, <2>3, <2>4, SoloBegins DEF EdgesHold
    <2>8. \A x \in Members : sponsor[x] # u
        BY <2>2, TreeAssumption DEF Children, Sponsored
    <2> QED
        BY <2>2, <2>3, <2>4, <2>5, <2>6, <2>7, <2>8, EdgesStay DEF Signs
<1>2. CASE CountDirect(c)
    <2> DEFINE doing == [at |-> "edge", member |-> attaching[c].member,
                         above |-> attaching[c].above, level |-> 1]
    <2>1. /\ Turns(c, doing) /\ attaching[c].at = "direct" /\ EdgesHold
          /\ UNCHANGED <<sponsor, edges, bothRewire>>
        BY <1>2 DEF CountDirect, Does, EdgesInv
    <2>2. doing.at = "edge" /\ doing.member = attaching[c].member
          /\ doing.above = attaching[c].above /\ doing.level = 1
        OBVIOUS
    <2> HIDE DEF doing
    <2>3. attaching'[c] = doing /\ \A e \in Attaching : e # c => attaching'[e] = attaching[e]
        BY <2>1, Turned
    <2>4. Signs(attaching[c]) /\ Signs(doing) /\ Reached(doing) = Reached(attaching[c])
          /\ LevelOf(doing) = LevelOf(attaching[c])
        BY <2>1, <2>2 DEF Signs, Reached, LevelOf
    <2>5. Solo'
        BY <2>1, <2>3, <2>4, SoloKept DEF EdgesHold
    <2>6. Placed(sponsor, doing)
        BY <2>1, <2>2, <2>4 DEF EdgesHold, SignUpsWrite, Placed
    <2>7. ~bothRewire'
        BY <2>1 DEF EdgesHold
    <2> QED
        BY <2>1, <2>2, <2>3, <2>4, <2>5, <2>6, <2>7, EdgesStay
<1>3. CASE CountTeam(c)
    <2>0. attaching[c].at = "team"
        BY <1>3 DEF CountTeam, Does
    <2>1. attaching[c] \in [at : {"edge", "team"}, member : Members, above : Members, level : 1 .. Depth]
        BY <1>0, <2>0, DoingAt
    <2>2. PICK u \in Members : u = attaching[c].member
        BY <2>1
    <2>3. PICK b \in Members : b = attaching[c].above
        BY <2>1
    <2>4. PICK l \in 1 .. Depth : l = attaching[c].level
        BY <2>1
    <2> DEFINE more == sponsor[b] # NoMember /\ MoreLevels(l)
               e == [attaching[c] EXCEPT !.at = "edge", !.above = sponsor[b], !.level = @ + 1]
               d == IF more THEN e ELSE Resting
    <2>5. Turns(c, d) /\ EdgesHold /\ UNCHANGED <<sponsor, edges, bothRewire>>
        BY <1>3, <2>3, <2>4 DEF CountTeam, EdgesInv
    <2>6. e.at = "edge" /\ e.member = u /\ e.above = sponsor[b] /\ e.level = l + 1
        BY <2>1, <2>2, <2>3, <2>4
    <2>7. Resting.at = "resting" /\ l \in Nat /\ Depth \in Nat /\ l <= Depth
        BY TreeAssumption DEF Resting
    <2> HIDE DEF e, d, more
    <2>8. attaching'[c] = d /\ \A x \in Attaching : x # c => attaching'[x] = attaching[x]
        BY <2>5, Turned
    <2>9. Signs(attaching[c]) /\ Reached(attaching[c]) = l /\ LevelOf(attaching[c]) = l
        BY <2>0, <2>4 DEF Signs, Reached, LevelOf
    <2>10. Climb(sponsor, u)[l] = b
        BY <2>2, <2>3, <2>5, <2>9 DEF EdgesHold, SignUpsWrite, Placed
    <2>11. Climb(sponsor, u)[l + 1] = sponsor[b]
        <3>1. Climb(sponsor, u)[l + 1] = Above(sponsor, Climb(sponsor, u)[l])
            BY <2>7, ClimbSteps
        <3> QED
            BY <2>10, <3>1, TreeAssumption DEF Above
    <2>12. ~bothRewire'
        BY <2>5 DEF EdgesHold
    <2>13. CASE more
        <3>1. d = e
            BY <2>13 DEF d
        <3>2. Signs(e) /\ Reached(e) = l /\ LevelOf(e) = l + 1
            BY <2>6, <2>7 DEF Signs, Reached, LevelOf
        <3>3. Placed(sponsor, e)
            BY <2>6, <2>11, <3>2 DEF Placed
        <3>4. Solo'
            BY <2>5, <2>8, <2>9, <3>1, <3>2, SoloKept DEF EdgesHold
        <3> QED
            BY <2>2, <2>5, <2>6, <2>8, <2>9, <2>12, <3>1, <3>2, <3>3, <3>4, EdgesStay
    <2>14. CASE ~more
        <3>1. d = Resting
            BY <2>14 DEF d
        <3>2. l = Depth \/ Climb(sponsor, u)[l + 1] = NoMember
            BY <2>7, <2>11, <2>14 DEF more, MoreLevels
        <3>3. ASSUME NEW a \in Members
              PROVE  Counted(sponsor, a, u, l) = Counted(sponsor, a, u, Depth)
            BY <2>7, <3>2, CountedAllOf
        <3>4. Solo'
            BY <2>5, <2>7, <2>8, <3>1, SoloKept DEF EdgesHold
        <3> QED
            BY <2>2, <2>5, <2>7, <2>8, <2>9, <2>12, <3>1, <3>3, <3>4, EdgesStay
    <2> QED
        BY <2>13, <2>14
<1>4. CASE Recount(c)
    <2> DEFINE doing == [at |-> "count", todo |-> joined]
    <2>1. Begins(c, doing, FALSE) /\ UNCHANGED <<sponsor, edges, bothRewire>> /\ doing.at = "count"
        BY <1>4 DEF Recount
    <2> HIDE DEF doing
    <2>2. attaching[c].at = "resting" /\ ~edgesOff /\ Calm
        BY <2>1, BeginsUnmixed
    <2>3. attaching'[c] = doing /\ \A e \in Attaching : e # c => attaching'[e] = attaching[e]
        BY <2>1, Turned DEF Begins
    <2>4. EdgesHold /\ ~bothRewire'
        BY <2>1, <2>2 DEF EdgesInv, EdgesHold
    <2>5. Solo'
        BY <2>1, <2>2, <2>4, SoloBegins DEF EdgesHold
    <2> QED
        BY <2>1, <2>2, <2>3, <2>4, <2>5, EdgesStay DEF Signs
<1>5. CASE CountOne(c) \/ WriteOne(c) \/ CountedAll(c)
    <2>1. /\ attaching[c].at \in {"count", "write"}
          /\ UNCHANGED <<sponsor, edges, bothRewire, edgesOff>>
        BY <1>5 DEF CountOne, WriteOne, CountedAll, Does
    <2>2. /\ attaching'[c].at \in {"count", "write", "resting"}
          /\ \A e \in Attaching : e # c => attaching'[e] = attaching[e]
        <3>1. CASE CountOne(c)
            <4>1. PICK m \in attaching[c].todo :
                    Turns(c, [at |-> "write", todo |-> attaching[c].todo \ {m}, member |-> m,
                              directs |-> Cardinality(Children(m)), team |-> Team(m)])
                BY <3>1 DEF CountOne
            <4> DEFINE d == [at |-> "write", todo |-> attaching[c].todo \ {m}, member |-> m,
                              directs |-> Cardinality(Children(m)), team |-> Team(m)]
            <4>2. Turns(c, d) /\ d.at = "write"
                BY <4>1
            <4> HIDE DEF d
            <4> QED
                BY <4>2, Turned
        <3>2. CASE WriteOne(c)
            <4> DEFINE d == [at |-> "count", todo |-> attaching[c].todo]
            <4>1. Turns(c, d) /\ d.at = "count"
                BY <3>2 DEF WriteOne
            <4> HIDE DEF d
            <4> QED
                BY <4>1, Turned
        <3>3. CASE CountedAll(c)
            <4>1. Turns(c, Resting) /\ Resting.at = "resting"
                BY <3>3 DEF CountedAll, Resting
            <4> QED
                BY <4>1, Turned
        <3> QED
            BY <1>5, <3>1, <3>2, <3>3
    <2>3. EdgesHold /\ ~bothRewire'
        BY <2>1 DEF EdgesInv, EdgesHold
    <2>4. Solo'
        BY <2>1, <2>2, <2>3, SoloKept DEF EdgesHold, Signs
    <2> QED
        BY <2>1, <2>2, <2>3, <2>4, EdgesStay DEF Signs
<1>6. CASE Lose(c)
    BY <1>6 DEF Lose
<1> QED
    BY <1>1, <1>2, <1>3, <1>4, <1>5, <1>6

LEMMA EdgesInit == TreeInit => EdgesInv
<1> SUFFICES ASSUME TreeInit PROVE EdgesHold
    BY DEF EdgesInv
<1>1. /\ \A c \in Attaching : attaching[c].at = "resting"
      /\ sponsor = [u \in Members |-> NoMember] /\ edges = [p \in Pairs |-> 0] /\ ~bothRewire
    BY DEF TreeInit, Resting
<1>2. OthersWritten
    <2> SUFFICES ASSUME NEW u \in Members, NEW a \in Members
                 PROVE  edges[<<a, u>>] = Counted(sponsor, a, u, Depth)
        BY DEF OthersWritten, WrittenTo
    <2>1. Climb(sponsor, u)[0] = u /\ Climb(sponsor, u)[0 + 1] = Above(sponsor, Climb(sponsor, u)[0])
        BY ClimbSteps
    <2>2. Climb(sponsor, u)[0 + 1] = NoMember
        BY <1>1, <2>1 DEF Above
    <2>3. Counted(sponsor, a, u, 0) = Counted(sponsor, a, u, Depth)
        BY <2>2, CountedAllOf, TreeAssumption
    <2>4. edges[<<a, u>>] = 0
        BY <1>1 DEF Pairs
    <2> QED
        BY <2>3, <2>4, CountedNone
<1> QED
    BY <1>1, <1>2 DEF EdgesHold, Solo, OwnMember, StillLeaf, SignUpsWrite, Signs

LEMMA EdgesStep ==
    ASSUME TreeTyped, Sponsored, LoopInv, LoopInv', EdgesInv, NEW c \in Attaching, Steps(c)
    PROVE  EdgesInv'
BY EdgesSignUp, EdgesAdd, EdgesReattach, EdgesOther DEF Steps

LEMMA EdgesFollow == TreeTyped /\ EdgesInv => EdgesFollowSponsors
<1> SUFFICES ASSUME TreeTyped, EdgesHold, Calm, NEW a \in Members, NEW u \in Members
             PROVE  edges[<<a, u>>] = IF a \in Ancestors(u, Depth) THEN 1 ELSE 0
    BY DEF EdgesFollowSponsors, EdgesInv
<1>1. edges[<<a, u>>] = Counted(sponsor, a, u, Depth)
    BY DEF EdgesHold, OthersWritten, WrittenTo, Calm, IsResting, Does, Signs
<1>2. a # NoMember
    BY TreeAssumption
<1> QED
    BY <1>1, <1>2 DEF Counted, Ancestors, Upline

(***************************************************************************)
(* The counters.  Each lacks what the sign-ups under way have yet to       *)
(* count, or the recount that runs alone has been to it.                   *)
(***************************************************************************)

Counting(d) == d.at \in {"count", "write"}
Right(s) == directs[s] = Cardinality(Children(s)) /\ team[s] = Team(s)

\* Sign-ups that have yet to count for s what is written already.
Matches(d, stage, s) == d.at = stage /\ d.above = s
Pending(doings, stage, s) == {c \in Attaching : Matches(doings[c], stage, s)}

OutsidersCountNothing ==
    /\ \A s \in Members \ joined :
         directs[s] = 0 /\ team[s] = 0 /\ \A m \in Members : edges[<<s, m>>] = 0
    /\ \A c \in Attaching :
         Counting(attaching[c]) =>
            /\ attaching[c].todo \subseteq joined
            /\ attaching[c].at = "write" =>
                  attaching[c].member \in joined /\ attaching[c].member \notin attaching[c].todo

AloneMeansOne ==
    alone => \A c, d \in Attaching : c # d /\ attaching[c].at # "resting" => attaching[d].at = "resting"

OthersAlone ==
    countsOff \/ \A c \in Attaching : attaching[c].at # "resting" /\ ~Signs(attaching[c]) => alone

CountsPend ==
    (~countsOff /\ \A c \in Attaching : ~Counting(attaching[c])) =>
        \A s \in Members :
            /\ directs[s] + Cardinality(Pending(attaching, "direct", s)) = Cardinality(Children(s))
            /\ team[s] + Cardinality(Pending(attaching, "team", s)) = Team(s)

RecountRight ==
    alone => \A c \in Attaching :
        Counting(attaching[c]) =>
            /\ \A s \in joined \ attaching[c].todo :
                  ~(attaching[c].at = "write" /\ attaching[c].member = s) => Right(s)
            /\ attaching[c].at = "write" =>
                  /\ attaching[c].directs = Cardinality(Children(attaching[c].member))
                  /\ attaching[c].team = Team(attaching[c].member)

\* Every counter lacks what is pending, or a recount that runs alone has put
\* right what it has been to.
CountsInv ==
    OutsidersCountNothing /\ AloneMeansOne /\ OthersAlone /\ CountsPend /\ RecountRight

LEMMA PendingNat ==
    ASSUME NEW doings, NEW stage, NEW s
    PROVE  IsFiniteSet(Pending(doings, stage, s)) /\ Cardinality(Pending(doings, stage, s)) \in Nat
<1>1. Pending(doings, stage, s) \in SUBSET Attaching
    BY DEF Pending
<1> QED
    BY <1>1, FS_Subset, FS_CardinalityType, TreeAssumption

LEMMA PendingNone ==
    ASSUME NEW doings, NEW stage, NEW s, \A c \in Attaching : doings[c].at # stage
    PROVE  Cardinality(Pending(doings, stage, s)) = 0
<1>1. Pending(doings, stage, s) = {}
    BY DEF Pending, Matches
<1> QED
    BY <1>1, FS_EmptySet

\* One call moves on.
LEMMA PendingStep ==
    ASSUME NEW before, NEW after, NEW stage, NEW s, NEW c \in Attaching,
           \A e \in Attaching : e # c => after[e] = before[e]
    PROVE  Cardinality(Pending(after, stage, s)) + (IF Matches(before[c], stage, s) THEN 1 ELSE 0)
             = Cardinality(Pending(before, stage, s)) + (IF Matches(after[c], stage, s) THEN 1 ELSE 0)
<1> DEFINE P == Pending(before, stage, s)
           Q == Pending(after, stage, s)
<1>0. IsFiniteSet(P) /\ Cardinality(P) \in Nat /\ IsFiniteSet(Q) /\ Cardinality(Q) \in Nat
    BY PendingNat
<1>1. (c \in P <=> Matches(before[c], stage, s)) /\ (c \in Q <=> Matches(after[c], stage, s))
    BY DEF Pending
<1>2. P \ {c} = Q \ {c}
    BY DEF Pending
<1> HIDE DEF P, Q
<1>3. Cardinality(P \ {c}) = IF c \in P THEN Cardinality(P) - 1 ELSE Cardinality(P)
    BY <1>0, FS_RemoveElement
<1>4. Cardinality(Q \ {c}) = IF c \in Q THEN Cardinality(Q) - 1 ELSE Cardinality(Q)
    BY <1>0, FS_RemoveElement
<1>5. Cardinality(Q) + (IF c \in P THEN 1 ELSE 0) = Cardinality(P) + (IF c \in Q THEN 1 ELSE 0)
    BY <1>0, <1>2, <1>3, <1>4
<1> QED
    BY <1>1, <1>5 DEF P, Q

\* Whom nobody sponsors and whom nobody's edge names counts nobody.
LEMMA NobodyBelow ==
    ASSUME TreeTyped, Sponsored, OutsidersCountNothing, NEW s \in Members \ joined
    PROVE  Right(s)
<1>1. Children(s) = {}
    BY TreeAssumption DEF Children, Sponsored
<1>2. Cardinality(Children(s)) = 0
    BY <1>1, FS_EmptySet
<1> DEFINE f == [m \in Members |-> edges[<<s, m>>]]
<1>3. \A m \in Members : f[m] = 0
    BY DEF OutsidersCountNothing
<1>4. Team(s) = SumOver(Members, f)
    BY DEF Team
<1> HIDE DEF f
<1>5. SumOver(Members, f) = 0
    BY <1>3, SumZero, TreeAssumption
<1> QED
    BY <1>2, <1>4, <1>5 DEF Right, OutsidersCountNothing

\* One edge more below b.
LEMMA TeamGrows ==
    ASSUME TreeTyped, NEW b \in Members, NEW u \in Members, edges' = [edges EXCEPT ![<<b, u>>] = @ + 1]
    PROVE  \A s \in Members : Team(s)' = IF s = b THEN Team(s) + 1 ELSE Team(s)
<1>0. edges \in [Pairs -> Nat]
    BY DEF TreeTyped, TreeTypeOK
<1> SUFFICES ASSUME NEW s \in Members
             PROVE  Team(s)' = IF s = b THEN Team(s) + 1 ELSE Team(s)
    OBVIOUS
<1>1. PICK f : f = [m \in Members |-> edges[<<s, m>>]]
    OBVIOUS
<1>2. PICK g : g = [m \in Members |-> edges'[<<s, m>>]]
    OBVIOUS
<1>3. Team(s) = SumOver(Members, f) /\ Team(s)' = SumOver(Members, g)
    BY <1>1, <1>2 DEF Team
<1>4. \A m \in Members : f[m] \in Nat /\ g[m] = IF s = b /\ m = u THEN f[m] + 1 ELSE f[m]
    BY <1>0, <1>1, <1>2 DEF Pairs
<1>5. CASE s = b
    <2>1. /\ \A m \in Members : f[m] \in Int
          /\ \A m \in Members \ {u} : g[m] = f[m]
          /\ g[u] = f[u] + 1 /\ g[u] \in Int
        BY <1>4, <1>5
    <2>2. SumOver(Members, g) = SumOver(Members, f) + g[u] - f[u]
        <3>1. IsFiniteSet(Members)
            BY TreeAssumption
        <3> QED
            BY <2>1, <3>1, SumChange
    <2>3. SumOver(Members, f) \in Int
        BY <2>1, SumInt, TreeAssumption
    <2> QED
        BY <1>3, <1>4, <1>5, <2>1, <2>2, <2>3
<1>6. CASE s # b
    <2>1. \A m \in Members : g[m] = f[m]
        BY <1>4, <1>6
    <2>2. SumOver(Members, g) = SumOver(Members, f)
        <3>1. g = f
            BY <1>1, <1>2, <2>1
        <3> QED
            BY <3>1
    <2> QED
        BY <1>3, <1>6, <2>2
<1> QED
    BY <1>5, <1>6

\* Counters and edges are written for who has an account.
LEMMA OutsidersStep ==
    ASSUME TreeTyped, Sponsored, Sponsored', TreeTyped', OutsidersCountNothing, NEW c \in Attaching, Steps(c)
    PROVE  OutsidersCountNothing'
<1>0. /\ joined \subseteq Members /\ sponsor \in [Members -> MaybeMember]
      /\ edges \in [Pairs -> Nat] /\ directs \in [Members -> Nat] /\ team \in [Members -> Nat]
      /\ attaching[c] \in Doings
    BY DEF TreeTyped, TreeTypeOK, MaybeMember
<1> DEFINE Blank(s) == directs'[s] = 0 /\ team'[s] = 0 /\ \A m \in Members : edges'[<<s, m>>] = 0
           Inside(d) == Counting(d) =>
                            /\ d.todo \subseteq joined'
                            /\ d.at = "write" => d.member \in joined' /\ d.member \notin d.todo
<1>1. ASSUME joined \subseteq joined', \A s \in Members \ joined' : Blank(s),
             \A e \in Attaching : e # c => attaching'[e] = attaching[e], Inside(attaching'[c])
      PROVE  OutsidersCountNothing'
    <2>1. ASSUME NEW e \in Attaching PROVE Inside(attaching'[e])
        BY <1>1 DEF OutsidersCountNothing
    <2> QED
        BY <1>1, <2>1 DEF OutsidersCountNothing
<1>s. \A s \in Members \ joined :
         directs[s] = 0 /\ team[s] = 0 /\ \A m \in Members : edges[<<s, m>>] = 0
    BY DEF OutsidersCountNothing
<1>2. CASE \E u, s \in Members : SignUpUnder(c, u, s)
    <2>1. PICK u \in Members, s \in Members : SignUpUnder(c, u, s)
        BY <1>2
    <2>2. /\ joined' = joined \cup {u} /\ UNCHANGED <<edges, directs, team>>
          /\ \A e \in Attaching : e # c => attaching'[e] = attaching[e]
          /\ attaching'[c] = [at |-> "direct", member |-> u, above |-> s]
        BY <2>1, SignUpFrame DEF SignUpUnder
    <2>3. ~Counting(attaching'[c])
        BY <2>2 DEF Counting
    <2> QED
        BY <1>1, <1>s, <2>2, <2>3
<1>3. CASE \E u \in Members, s \in MaybeMember : Rewire(c, u, s)
    <2>1. PICK u \in Members, s \in MaybeMember : Rewire(c, u, s)
        BY <1>3
    <2>2. /\ joined' = joined /\ UNCHANGED <<edges, directs, team>>
          /\ \A e \in Attaching : e # c => attaching'[e] = attaching[e]
          /\ attaching'[c] = [at |-> "checked", member |-> u, to |-> s]
        <3>1. UNCHANGED <<edges, directs, team>>
            BY <2>1 DEF Rewire
        <3> QED
            BY <2>1, <3>1, RewireFrame
    <2>3. ~Counting(attaching'[c])
        BY <2>2 DEF Counting
    <2> QED
        BY <1>1, <1>s, <2>2, <2>3
<1>4. CASE CountDirect(c)
    <2>1. PICK b : b = attaching[c].above
        OBVIOUS
    <2> DEFINE d == [at |-> "edge", member |-> attaching[c].member, above |-> attaching[c].above, level |-> 1]
    <2>2. /\ joined' = joined /\ UNCHANGED <<edges, team>> /\ directs' = [directs EXCEPT ![b] = @ + 1]
          /\ attaching[c].at = "direct" /\ Turns(c, d) /\ ~Counting(d)
        BY <1>4, <2>1 DEF CountDirect, Counting, Does
    <2> HIDE DEF d
    <2>3. b \in joined
        BY <2>1, <2>2 DEF Sponsored, IsSignUp
    <2>4. \A e \in Attaching : e # c => attaching'[e] = attaching[e]
        BY <2>2, Turned
    <2>5. attaching'[c] = d
        BY <2>2, Turned
    <2>6. \A s \in Members \ joined' : Blank(s)
        BY <1>0, <1>s, <2>2, <2>3
    <2> QED
        BY <1>1, <2>2, <2>4, <2>5, <2>6
<1>5. CASE AddEdge(c)
    <2>1. PICK b : b = attaching[c].above
        OBVIOUS
    <2> DEFINE d == [attaching[c] EXCEPT !.at = "team"]
    <2>2. /\ joined' = joined /\ UNCHANGED <<directs, team>>
          /\ edges' = [edges EXCEPT ![<<b, attaching[c].member>>] = @ + 1]
          /\ attaching[c].at = "edge" /\ Turns(c, d)
        BY <1>5, <2>1 DEF AddEdge, Does
    <2>7. ~Counting(d)
        <3>1. attaching[c] \in [at : {"edge", "team"}, member : Members, above : Members, level : 1 .. Depth]
            BY <1>0, <2>2, DoingAt
        <3>2. d.at = "team"
            BY <3>1
        <3> QED
            BY <3>2 DEF Counting
    <2> HIDE DEF d
    <2>3. b \in joined
        BY <2>1, <2>2 DEF Sponsored, IsSignUp
    <2>4. \A e \in Attaching : e # c => attaching'[e] = attaching[e]
        BY <2>2, Turned
    <2>5. attaching'[c] = d
        BY <2>2, Turned
    <2>6. \A s \in Members \ joined' : Blank(s)
        BY <1>0, <1>s, <2>2, <2>3 DEF Pairs
    <2> QED
        BY <1>1, <2>2, <2>4, <2>5, <2>6, <2>7
<1>6. CASE CountTeam(c)
    <2>1. PICK b : b = attaching[c].above
        OBVIOUS
    <2>2. /\ joined' = joined /\ UNCHANGED <<edges, directs>> /\ team' = [team EXCEPT ![b] = @ + 1]
          /\ attaching[c].at = "team" /\ QuietStep(c)
        BY <1>6, <2>1 DEF CountTeam, Does, QuietStep
    <2>3. b \in joined
        BY <2>1, <2>2 DEF Sponsored, IsSignUp
    <2>4. attaching[c] \in [at : {"edge", "team"}, member : Members, above : Members, level : 1 .. Depth]
        BY <1>0, <2>2, DoingAt
    <2>5. ~Counting(attaching'[c]) /\ \A e \in Attaching : e # c => attaching'[e] = attaching[e]
        <3> DEFINE n == [attaching[c] EXCEPT !.at = "edge", !.above = sponsor[b], !.level = @ + 1]
                   d == IF sponsor[b] # NoMember /\ MoreLevels(attaching[c].level) THEN n ELSE Resting
        <3>1. Turns(c, d)
            BY <1>6, <2>1 DEF CountTeam
        <3>2. n.at = "edge"
            BY <2>4
        <3> HIDE DEF n
        <3>3. ~Counting(d)
            BY <3>2 DEF Counting, Resting
        <3> HIDE DEF d
        <3> QED
            BY <3>1, <3>3, Turned
    <2>6. \A s \in Members \ joined' : Blank(s)
        BY <1>0, <1>s, <2>2, <2>3
    <2> QED
        BY <1>1, <2>2, <2>5, <2>6
<1>7. CASE Recount(c)
    <2> DEFINE d == [at |-> "count", todo |-> joined]
    <2>1. Turns(c, d) /\ UNCHANGED <<joined, edges, directs, team>>
        BY <1>7 DEF Recount, Begins
    <2>2. d.at = "count" /\ d.todo = joined
        OBVIOUS
    <2> HIDE DEF d
    <2>3. attaching'[c] = d /\ \A e \in Attaching : e # c => attaching'[e] = attaching[e]
        BY <2>1, Turned
    <2> QED
        BY <1>1, <1>s, <2>1, <2>2, <2>3
<1>8. CASE CountOne(c)
    <2>1. PICK m \in attaching[c].todo :
            Turns(c, [at |-> "write", todo |-> attaching[c].todo \ {m}, member |-> m,
                      directs |-> Cardinality(Children(m)), team |-> Team(m)])
        BY <1>8 DEF CountOne
    <2> DEFINE d == [at |-> "write", todo |-> attaching[c].todo \ {m}, member |-> m,
                      directs |-> Cardinality(Children(m)), team |-> Team(m)]
    <2>2. Turns(c, d) /\ UNCHANGED <<joined, edges, directs, team>> /\ attaching[c].at = "count"
        BY <1>8, <2>1 DEF CountOne, Does
    <2>3. d.todo = attaching[c].todo \ {m} /\ d.member = m
        OBVIOUS
    <2> HIDE DEF d
    <2>4. attaching[c].todo \subseteq joined
        BY <2>2 DEF OutsidersCountNothing, Counting
    <2>5. attaching'[c] = d /\ \A e \in Attaching : e # c => attaching'[e] = attaching[e]
        BY <2>2, Turned
    <2> QED
        BY <1>1, <1>s, <2>1, <2>2, <2>3, <2>4, <2>5
<1>9. CASE WriteOne(c)
    <2>1. PICK m : m = attaching[c].member
        OBVIOUS
    <2> DEFINE d == [at |-> "count", todo |-> attaching[c].todo]
    <2>2. /\ Turns(c, d) /\ UNCHANGED <<joined, edges>> /\ attaching[c].at = "write"
          /\ directs' = [directs EXCEPT ![m] = attaching[c].directs]
          /\ team' = [team EXCEPT ![m] = attaching[c].team]
        BY <1>9, <2>1 DEF WriteOne, Does
    <2>3. d.at = "count" /\ d.todo = attaching[c].todo
        OBVIOUS
    <2> HIDE DEF d
    <2>4. attaching[c].todo \subseteq joined /\ m \in joined
        BY <2>1, <2>2 DEF OutsidersCountNothing, Counting
    <2>5. attaching'[c] = d /\ \A e \in Attaching : e # c => attaching'[e] = attaching[e]
        BY <2>2, Turned
    <2>6. \A s \in Members \ joined' : Blank(s)
        BY <1>0, <1>s, <2>2, <2>4
    <2> QED
        BY <1>1, <2>2, <2>3, <2>4, <2>5, <2>6
<1>10. CASE CountedAll(c) \/ Lose(c)
    <2>1. Turns(c, Resting) /\ UNCHANGED <<joined, edges, directs, team>> /\ ~Counting(Resting)
        BY <1>10 DEF CountedAll, Lose, Counting, Resting
    <2>2. attaching'[c] = Resting /\ \A e \in Attaching : e # c => attaching'[e] = attaching[e]
        BY <2>1, Turned
    <2> QED
        BY <1>1, <1>s, <2>1, <2>2
<1>11. CASE Reattach(c)
    <2>1. PICK u : u = attaching[c].member
        OBVIOUS
    <2>2. PICK t : t = attaching[c].to
        OBVIOUS
    <2> DEFINE d == [at |-> "count", todo |-> joined]
               times(a) == Cardinality({k \in 1 .. Depth : Climb(sponsor', u)[k] = a})
    <2>3. /\ joined' = joined /\ attaching[c].at = "checked" /\ sponsor' = [sponsor EXCEPT ![u] = t]
          /\ Turns(c, d)
          /\ edges' = [p \in Pairs |-> IF p[2] = u THEN times(p[1]) ELSE edges[p]]
          /\ directs' = IF t = NoMember THEN directs ELSE [directs EXCEPT ![t] = @ + 1]
          /\ team' = [m \in Members |-> team[m] + times(m)]
        BY <1>11, <2>1, <2>2 DEF Reattach, Does
    <2>4. u \in joined /\ t \in joined \cup {NoMember}
        BY <2>1, <2>2, <2>3 DEF Sponsored, Does
    <2>5. \A k \in Nat : Climb(sponsor', u)[k] \in joined \cup {NoMember}
        <3>1. \A x \in joined : sponsor'[x] \in joined \cup {NoMember}
            BY <2>3 DEF Sponsored
        <3> QED
            BY <2>4, <3>1, ClimbStays
    <2>6. ASSUME NEW s \in Members \ joined PROVE times(s) = 0
        <3>1. \A k \in 1 .. Depth : Climb(sponsor', u)[k] # s
            BY <2>5, TreeAssumption
        <3>2. {k \in 1 .. Depth : Climb(sponsor', u)[k] = s} = {}
            BY <3>1
        <3> QED
            BY <3>2, FS_EmptySet
    <2>7. d.at = "count" /\ d.todo = joined
        OBVIOUS
    <2> HIDE DEF d, times
    <2>8. \A s \in Members \ joined' : Blank(s)
        <3> SUFFICES ASSUME NEW s \in Members \ joined PROVE Blank(s)
            BY <2>3
        <3>1. directs'[s] = 0
            BY <1>0, <1>s, <2>3, <2>4
        <3>2. team'[s] = 0
            BY <1>0, <1>s, <2>3, <2>6
        <3>3. \A m \in Members : edges'[<<s, m>>] = 0
            BY <1>0, <1>s, <2>3, <2>6 DEF Pairs
        <3> QED
            BY <3>1, <3>2, <3>3
    <2>9. attaching'[c] = d /\ \A e \in Attaching : e # c => attaching'[e] = attaching[e]
        BY <2>3, Turned
    <2> QED
        BY <1>1, <2>3, <2>7, <2>8, <2>9
<1> QED
    BY <1>2, <1>3, <1>4, <1>5, <1>6, <1>7, <1>8, <1>9, <1>10, <1>11 DEF Steps

(***************************************************************************)
(* Calls start and go on.                                                  *)
(***************************************************************************)

GoesOn(c) ==
    \/ CountDirect(c) \/ AddEdge(c) \/ CountTeam(c) \/ CountOne(c) \/ WriteOne(c)
    \/ CountedAll(c) \/ Reattach(c) \/ Lose(c)

Starts(c) ==
    \/ \E u, s \in Members : SignUpUnder(c, u, s)
    \/ \E u \in Members, s \in MaybeMember : Rewire(c, u, s)
    \/ Recount(c)

LEMMA StartsOrGoesOn == ASSUME NEW c \in Attaching, Steps(c) PROVE Starts(c) \/ GoesOn(c)
BY DEF Steps, Starts, GoesOn

\* What a call that starts leaves behind it.
LEMMA StartsFrame ==
    ASSUME TreeTyped, NEW c \in Attaching, Starts(c)
    PROVE  /\ attaching[c].at = "resting" /\ alone' = Calm
           /\ \A e \in Attaching : e # c => attaching'[e] = attaching[e]
           /\ ~countsOff' => ~countsOff
           /\ ~countsOff' /\ ~Signs(attaching'[c]) => Calm
           /\ ~countsOff' => \A d \in Attaching : IsResting(d) \/ IsSignUp(d)
           /\ attaching'[c].at # "write" /\ attaching'[c].at # "resting"
           /\ attaching'[c].at = "count" => attaching'[c].todo = joined
           /\ UNCHANGED <<edges, directs, team>>
<1>1. CASE \E u, s \in Members : SignUpUnder(c, u, s)
    <2>1. PICK u \in Members, s \in Members : SignUpUnder(c, u, s)
        BY <1>1
    <2> DEFINE d == [at |-> "direct", member |-> u, above |-> s]
    <2>2. Begins(c, d, TRUE) /\ UNCHANGED <<edges, directs, team>>
        BY <2>1 DEF SignUpUnder
    <2>3. d.at = "direct" /\ Signs(d)
        BY DEF Signs
    <2> HIDE DEF d
    <2>4. attaching'[c] = d /\ \A e \in Attaching : e # c => attaching'[e] = attaching[e]
        BY <2>2, Turned DEF Begins
    <2> QED
        BY <2>2, <2>3, <2>4, BeginsUnmixed DEF Calm
<1>2. CASE \E u \in Members, s \in MaybeMember : Rewire(c, u, s)
    <2>1. PICK u \in Members, s \in MaybeMember : Rewire(c, u, s)
        BY <1>2
    <2> DEFINE d == [at |-> "checked", member |-> u, to |-> s]
    <2>2. Begins(c, d, FALSE) /\ UNCHANGED <<edges, directs, team>>
        BY <2>1 DEF Rewire
    <2>3. d.at = "checked"
        OBVIOUS
    <2> HIDE DEF d
    <2>4. attaching'[c] = d /\ \A e \in Attaching : e # c => attaching'[e] = attaching[e]
        BY <2>2, Turned DEF Begins
    <2> QED
        BY <2>2, <2>3, <2>4, BeginsUnmixed DEF Calm
<1>3. CASE Recount(c)
    <2> DEFINE d == [at |-> "count", todo |-> joined]
    <2>2. Begins(c, d, FALSE) /\ UNCHANGED <<edges, directs, team>>
        BY <1>3 DEF Recount
    <2>3. d.at = "count" /\ d.todo = joined
        OBVIOUS
    <2> HIDE DEF d
    <2>4. attaching'[c] = d /\ \A e \in Attaching : e # c => attaching'[e] = attaching[e]
        BY <2>2, Turned DEF Begins
    <2> QED
        BY <2>2, <2>3, <2>4, BeginsUnmixed DEF Calm
<1> QED
    BY <1>1, <1>2, <1>3 DEF Starts

\* Where a call goes next.
LEMMA GoesOnFrame ==
    ASSUME TreeTyped, NEW c \in Attaching, GoesOn(c)
    PROVE  /\ attaching[c].at # "resting" /\ alone' = alone
           /\ \A e \in Attaching : e # c => attaching'[e] = attaching[e]
           /\ \/ CountDirect(c) /\ attaching[c].at = "direct" /\ attaching'[c].at = "edge"
              \/ AddEdge(c) /\ attaching[c].at = "edge" /\ attaching'[c].at = "team"
                            /\ attaching'[c].above = attaching[c].above
              \/ CountTeam(c) /\ attaching[c].at = "team" /\ attaching'[c].at \in {"edge", "resting"}
              \/ CountOne(c) /\ attaching[c].at = "count" /\ attaching'[c].at = "write"
              \/ WriteOne(c) /\ attaching[c].at = "write" /\ attaching'[c].at = "count"
                             /\ attaching'[c].todo = attaching[c].todo
              \/ CountedAll(c) /\ attaching[c].at = "count" /\ attaching'[c].at = "resting"
              \/ Reattach(c) /\ attaching[c].at = "checked" /\ attaching'[c].at = "count"
                             /\ attaching'[c].todo = joined
              \/ Lose(c) /\ attaching'[c].at = "resting"
<1>0. attaching[c] \in Doings
    BY DEF TreeTyped
<1> DEFINE Frame == \A e \in Attaching : e # c => attaching'[e] = attaching[e]
<1>1. CASE CountDirect(c)
    <2> DEFINE d == [at |-> "edge", member |-> attaching[c].member,
                     above |-> attaching[c].above, level |-> 1]
    <2>1. Turns(c, d) /\ alone' = alone /\ attaching[c].at = "direct" /\ d.at = "edge"
        BY <1>1 DEF CountDirect, Does
    <2> HIDE DEF d
    <2>2. attaching'[c].at = "edge" /\ Frame
        BY <2>1, Turned
    <2> QED
        BY <1>1, <2>1, <2>2
<1>2. CASE AddEdge(c)
    <2> DEFINE d == [attaching[c] EXCEPT !.at = "team"]
    <2>1. Turns(c, d) /\ alone' = alone /\ attaching[c].at = "edge"
        BY <1>2 DEF AddEdge, Does
    <2>3. attaching[c] \in [at : {"edge", "team"}, member : Members, above : Members, level : 1 .. Depth]
        BY <1>0, <2>1, DoingAt
    <2>4. d.at = "team" /\ d.above = attaching[c].above
        BY <2>3
    <2> HIDE DEF d
    <2>2. attaching'[c].at = "team" /\ attaching'[c].above = attaching[c].above /\ Frame
        BY <2>1, <2>4, Turned
    <2> QED
        BY <1>2, <2>1, <2>2
<1>3. CASE CountTeam(c)
    <2>1. PICK x : x = sponsor[attaching[c].above]
        OBVIOUS
    <2> DEFINE n == [attaching[c] EXCEPT !.at = "edge", !.above = x, !.level = @ + 1]
               d == IF x # NoMember /\ MoreLevels(attaching[c].level) THEN n ELSE Resting
    <2>2. Turns(c, d) /\ alone' = alone /\ attaching[c].at = "team"
        BY <1>3, <2>1 DEF CountTeam, Does
    <2>3. attaching[c] \in [at : {"edge", "team"}, member : Members, above : Members, level : 1 .. Depth]
        BY <1>0, <2>2, DoingAt
    <2>4. n.at = "edge" /\ Resting.at = "resting"
        BY <2>3 DEF Resting
    <2> HIDE DEF n
    <2>5. d.at \in {"edge", "resting"}
        BY <2>4
    <2> HIDE DEF d
    <2>6. attaching'[c].at \in {"edge", "resting"} /\ Frame
        BY <2>2, <2>5, Turned
    <2> QED
        BY <1>3, <2>2, <2>6
<1>4. CASE CountOne(c)
    <2>1. PICK m \in attaching[c].todo :
            Turns(c, [at |-> "write", todo |-> attaching[c].todo \ {m}, member |-> m,
                      directs |-> Cardinality(Children(m)), team |-> Team(m)])
        BY <1>4 DEF CountOne
    <2> DEFINE d == [at |-> "write", todo |-> attaching[c].todo \ {m}, member |-> m,
                      directs |-> Cardinality(Children(m)), team |-> Team(m)]
    <2>2. Turns(c, d) /\ alone' = alone /\ attaching[c].at = "count" /\ d.at = "write"
        BY <1>4, <2>1 DEF CountOne, Does
    <2> HIDE DEF d
    <2>3. attaching'[c].at = "write" /\ Frame
        BY <2>2, Turned
    <2> QED
        BY <1>4, <2>2, <2>3
<1>5. CASE WriteOne(c)
    <2> DEFINE d == [at |-> "count", todo |-> attaching[c].todo]
    <2>1. Turns(c, d) /\ alone' = alone /\ attaching[c].at = "write"
          /\ d.at = "count" /\ d.todo = attaching[c].todo
        BY <1>5 DEF WriteOne, Does
    <2> HIDE DEF d
    <2>2. attaching'[c].at = "count" /\ attaching'[c].todo = attaching[c].todo /\ Frame
        BY <2>1, Turned
    <2> QED
        BY <1>5, <2>1, <2>2
<1>6. CASE CountedAll(c)
    <2>1. Turns(c, Resting) /\ alone' = alone /\ attaching[c].at = "count" /\ Resting.at = "resting"
        BY <1>6 DEF CountedAll, Does, Resting
    <2>2. attaching'[c].at = "resting" /\ Frame
        BY <2>1, Turned
    <2> QED
        BY <1>6, <2>1, <2>2
<1>7. CASE Reattach(c)
    <2>1. alone' = alone /\ attaching[c].at = "checked"
        BY <1>7 DEF Reattach, Does
    <2> DEFINE d == [at |-> "count", todo |-> joined]
    <2>2. attaching'[c] = d /\ Frame /\ d.at = "count" /\ d.todo = joined
        BY <1>7, ReattachFrame
    <2> HIDE DEF d
    <2> QED
        BY <1>7, <2>1, <2>2
<1>8. CASE Lose(c)
    <2>1. Turns(c, Resting) /\ alone' = alone /\ attaching[c].at # "resting" /\ Resting.at = "resting"
        BY <1>8 DEF Lose, IsResting, Does, Resting
    <2>2. attaching'[c].at = "resting" /\ Frame
        BY <2>1, Turned
    <2> QED
        BY <1>8, <2>1, <2>2
<1> QED
    BY <1>1, <1>2, <1>3, <1>4, <1>5, <1>6, <1>7, <1>8 DEF GoesOn

LEMMA AloneStep ==
    ASSUME TreeTyped, AloneMeansOne, NEW c \in Attaching, Steps(c)
    PROVE  AloneMeansOne'
<1> SUFFICES ASSUME alone' PROVE \A d \in Attaching : d # c => attaching'[d].at = "resting"
    BY DEF AloneMeansOne
<1>1. CASE Starts(c)
    BY <1>1, StartsFrame DEF Calm, IsResting, Does
<1>2. CASE GoesOn(c)
    BY <1>2, GoesOnFrame DEF AloneMeansOne
<1> QED
    BY <1>1, <1>2, StartsOrGoesOn

LEMMA OthersAloneStep ==
    ASSUME TreeTyped, AloneMeansOne, OthersAlone, NEW c \in Attaching, Steps(c)
    PROVE  OthersAlone'
<1> SUFFICES ASSUME ~countsOff', NEW d \in Attaching,
                    attaching'[d].at # "resting", ~Signs(attaching'[d])
             PROVE  alone'
    BY DEF OthersAlone
<1>1. CASE Starts(c)
    <2>1. CASE d = c
        BY <1>1, <2>1, StartsFrame
    <2>2. CASE d # c
        BY <1>1, <2>2, StartsFrame DEF IsResting, IsSignUp, Does, Signs
    <2> QED
        BY <2>1, <2>2
<1>2. CASE GoesOn(c)
    <2>1. /\ attaching[c].at # "resting" /\ alone' = alone
          /\ \A e \in Attaching : e # c => attaching'[e] = attaching[e]
        BY <1>2, GoesOnFrame
    <2>2. countsOff => alone
        BY <1>2 DEF GoesOn, CountDirect, AddEdge, CountTeam, CountOne, WriteOne, CountedAll, Reattach, Lose
    <2>3. CASE d = c
        <3>1. ~Signs(attaching[c])
            BY <1>2, <2>3, GoesOnFrame DEF Signs
        <3> QED
            BY <2>1, <2>2, <3>1 DEF OthersAlone
    <2>4. CASE d # c
        BY <2>1, <2>2, <2>4 DEF OthersAlone
    <2> QED
        BY <2>3, <2>4
<1> QED
    BY <1>1, <1>2, StartsOrGoesOn

(***************************************************************************)
(* Sign-ups count what they announce.                                      *)
(***************************************************************************)

\* While a sign-up is under way and counts are right, nobody recounts.
LEMMA NobodyRecounts ==
    ASSUME AloneMeansOne, OthersAlone, ~countsOff, NEW c \in Attaching, Signs(attaching[c])
    PROVE  \A e \in Attaching : ~Counting(attaching[e])
<1> SUFFICES ASSUME NEW e \in Attaching, Counting(attaching[e]) PROVE FALSE
    OBVIOUS
<1>1. e # c /\ attaching[e].at # "resting" /\ ~Signs(attaching[e]) /\ attaching[c].at # "resting"
    BY DEF Counting, Signs
<1>2. alone
    BY <1>1 DEF OthersAlone
<1> QED
    BY <1>1, <1>2 DEF AloneMeansOne

LEMMA TeamKept ==
    ASSUME edges' = edges
    PROVE  \A s \in Members : Team(s)' = Team(s)
BY DEF Team

LEMMA ChildrenKept ==
    ASSUME joined' = joined, sponsor' = sponsor
    PROVE  \A s \in Members : Children(s)' = Children(s)
BY DEF Children

\* The numbers of a state in which nobody recounts.
LEMMA CountsNat ==
    ASSUME TreeTyped, NEW s \in Members
    PROVE  /\ directs[s] \in Nat /\ team[s] \in Nat
           /\ Cardinality(Children(s)) \in Nat /\ Team(s) \in Nat
           /\ \A stage : Cardinality(Pending(attaching, stage, s)) \in Nat
<1>1. TreeTypeOK
    BY DEF TreeTyped
<1> QED
    BY <1>1, ChildrenFinite, TeamIsNat, PendingNat DEF TreeTypeOK

\* A sign-up adds a child and one direct that is pending.
LEMMA PendSignUp ==
    ASSUME TreeTyped, Sponsored, CountsPend, ~countsOff', NEW c \in Attaching,
           NEW u \in Members, NEW t \in Members, SignUpUnder(c, u, t)
    PROVE  CountsPend'
<1>1. Starts(c)
    BY DEF Starts
<1>2. /\ ~countsOff /\ attaching[c].at = "resting"
      /\ \A d \in Attaching : ~Counting(attaching[d])
      /\ UNCHANGED <<edges, directs, team>>
    BY <1>1, StartsFrame DEF Counting, IsResting, IsSignUp, Does
<1>3. /\ u \notin joined /\ t \in joined /\ joined' = joined \cup {u}
      /\ sponsor' = [sponsor EXCEPT ![u] = t]
      /\ \A e \in Attaching : e # c => attaching'[e] = attaching[e]
      /\ attaching'[c] = [at |-> "direct", member |-> u, above |-> t]
    BY SignUpFrame
<1>4. attaching'[c].at = "direct" /\ attaching'[c].above = t
    BY <1>3
<1> SUFFICES ASSUME NEW s \in Members
             PROVE  /\ directs'[s] + Cardinality(Pending(attaching', "direct", s)) = Cardinality(Children(s)')
                    /\ team'[s] + Cardinality(Pending(attaching', "team", s)) = Team(s)'
    BY DEF CountsPend
<1>5. /\ directs[s] + Cardinality(Pending(attaching, "direct", s)) = Cardinality(Children(s))
      /\ team[s] + Cardinality(Pending(attaching, "team", s)) = Team(s)
    BY <1>2 DEF CountsPend
<1>n. /\ directs[s] \in Nat /\ team[s] \in Nat /\ Cardinality(Children(s)) \in Nat
      /\ Cardinality(Pending(attaching, "direct", s)) \in Nat
      /\ Cardinality(Pending(attaching, "team", s)) \in Nat
      /\ Cardinality(Pending(attaching', "direct", s)) \in Nat
      /\ Cardinality(Pending(attaching', "team", s)) \in Nat
    BY CountsNat, PendingNat
<1>6. Cardinality(Pending(attaching', "direct", s))
        = Cardinality(Pending(attaching, "direct", s)) + (IF s = t THEN 1 ELSE 0)
    <2>1. Cardinality(Pending(attaching', "direct", s)) + (IF Matches(attaching[c], "direct", s) THEN 1 ELSE 0)
            = Cardinality(Pending(attaching, "direct", s)) + (IF Matches(attaching'[c], "direct", s) THEN 1 ELSE 0)
        BY <1>3, PendingStep
    <2>2. ~Matches(attaching[c], "direct", s) /\ (Matches(attaching'[c], "direct", s) <=> s = t)
        BY <1>2, <1>4 DEF Matches
    <2> QED
        BY <1>n, <2>1, <2>2
<1>7. Cardinality(Pending(attaching', "team", s)) = Cardinality(Pending(attaching, "team", s))
    <2>1. Cardinality(Pending(attaching', "team", s)) + (IF Matches(attaching[c], "team", s) THEN 1 ELSE 0)
            = Cardinality(Pending(attaching, "team", s)) + (IF Matches(attaching'[c], "team", s) THEN 1 ELSE 0)
        BY <1>3, PendingStep
    <2>2. ~Matches(attaching[c], "team", s) /\ ~Matches(attaching'[c], "team", s)
        BY <1>2, <1>4 DEF Matches
    <2> QED
        BY <1>n, <2>1, <2>2
<1>8. Cardinality(Children(s)') = Cardinality(Children(s)) + (IF s = t THEN 1 ELSE 0)
    <2>1. u \notin Children(s) /\ sponsor[u] = NoMember
        BY <1>3 DEF Children, Sponsored
    <2>2. Children(s)' = IF s = t THEN Children(s) \cup {u} ELSE Children(s)
        BY <1>3, TreeAssumption DEF Children, TreeTyped, TreeTypeOK
    <2>3. IsFiniteSet(Children(s))
        BY ChildrenFinite DEF TreeTyped
    <2>4. Cardinality(Children(s) \cup {u}) = Cardinality(Children(s)) + 1
        BY <2>1, <2>3, FS_AddElement
    <2> QED
        BY <1>n, <2>2, <2>4
<1>9. Team(s)' = Team(s)
    BY <1>2, TeamKept
<1> QED
    BY <1>2, <1>5, <1>6, <1>7, <1>8, <1>9, <1>n

\* It counts the direct.
LEMMA PendCountDirect ==
    ASSUME TreeTyped, AloneMeansOne, OthersAlone, CountsPend, ~countsOff', NEW c \in Attaching, CountDirect(c)
    PROVE  CountsPend'
<1>0. GoesOn(c)
    BY DEF GoesOn
<1>1. PICK b : b = attaching[c].above
    OBVIOUS
<1>2. /\ ~countsOff /\ attaching[c].at = "direct" /\ UNCHANGED <<joined, sponsor, edges, team>>
      /\ directs' = [directs EXCEPT ![b] = @ + 1]
      /\ \A e \in Attaching : e # c => attaching'[e] = attaching[e]
    BY <1>0, <1>1, GoesOnFrame DEF CountDirect, Does
<1>3. attaching'[c].at = "edge"
    <2> DEFINE d == [at |-> "edge", member |-> attaching[c].member, above |-> attaching[c].above, level |-> 1]
    <2>1. Turns(c, d) /\ d.at = "edge"
        BY DEF CountDirect
    <2> HIDE DEF d
    <2> QED
        BY <2>1, Turned
<1>4. \A d \in Attaching : ~Counting(attaching[d])
    BY <1>2, NobodyRecounts DEF Signs
<1>5. b \in Members
    <2>1. attaching[c] \in Doings
        BY DEF TreeTyped
    <2> QED
        BY <1>1, <1>2, <2>1, DoingAt
<1> SUFFICES ASSUME NEW s \in Members
             PROVE  /\ directs'[s] + Cardinality(Pending(attaching', "direct", s)) = Cardinality(Children(s)')
                    /\ team'[s] + Cardinality(Pending(attaching', "team", s)) = Team(s)'
    BY DEF CountsPend
<1>6. /\ directs[s] + Cardinality(Pending(attaching, "direct", s)) = Cardinality(Children(s))
      /\ team[s] + Cardinality(Pending(attaching, "team", s)) = Team(s)
    BY <1>2, <1>4 DEF CountsPend
<1>n. /\ directs[s] \in Nat /\ team[s] \in Nat /\ Cardinality(Children(s)) \in Nat
      /\ Cardinality(Pending(attaching, "direct", s)) \in Nat
      /\ Cardinality(Pending(attaching, "team", s)) \in Nat
      /\ Cardinality(Pending(attaching', "direct", s)) \in Nat
      /\ Cardinality(Pending(attaching', "team", s)) \in Nat
    BY CountsNat, PendingNat
<1>7. Cardinality(Pending(attaching', "direct", s)) + (IF s = b THEN 1 ELSE 0)
        = Cardinality(Pending(attaching, "direct", s))
    <2>1. Cardinality(Pending(attaching', "direct", s)) + (IF Matches(attaching[c], "direct", s) THEN 1 ELSE 0)
            = Cardinality(Pending(attaching, "direct", s)) + (IF Matches(attaching'[c], "direct", s) THEN 1 ELSE 0)
        BY <1>2, PendingStep
    <2>2. ~Matches(attaching'[c], "direct", s) /\ (Matches(attaching[c], "direct", s) <=> s = b)
        BY <1>1, <1>2, <1>3 DEF Matches
    <2> QED
        BY <1>n, <2>1, <2>2
<1>8. Cardinality(Pending(attaching', "team", s)) = Cardinality(Pending(attaching, "team", s))
    <2>1. Cardinality(Pending(attaching', "team", s)) + (IF Matches(attaching[c], "team", s) THEN 1 ELSE 0)
            = Cardinality(Pending(attaching, "team", s)) + (IF Matches(attaching'[c], "team", s) THEN 1 ELSE 0)
        BY <1>2, PendingStep
    <2>2. ~Matches(attaching[c], "team", s) /\ ~Matches(attaching'[c], "team", s)
        BY <1>2, <1>3 DEF Matches
    <2> QED
        BY <1>n, <2>1, <2>2
<1>9. directs'[s] = directs[s] + (IF s = b THEN 1 ELSE 0)
    BY <1>2, <1>5 DEF TreeTyped, TreeTypeOK
<1>10. Children(s)' = Children(s) /\ Team(s)' = Team(s)
    BY <1>2, TeamKept, ChildrenKept
<1> QED
    BY <1>2, <1>6, <1>7, <1>8, <1>9, <1>10, <1>n

\* It adds an edge and one count that is pending.
LEMMA PendAddEdge ==
    ASSUME TreeTyped, AloneMeansOne, OthersAlone, CountsPend, ~countsOff', NEW c \in Attaching, AddEdge(c)
    PROVE  CountsPend'
<1>0. attaching[c] \in Doings /\ attaching[c].at = "edge"
    BY DEF TreeTyped, AddEdge, Does
<1>1. attaching[c] \in [at : {"edge", "team"}, member : Members, above : Members, level : 1 .. Depth]
    BY <1>0, DoingAt
<1>2. PICK b \in Members : b = attaching[c].above
    BY <1>1
<1>3. PICK u \in Members : u = attaching[c].member
    BY <1>1
<1> DEFINE d == [attaching[c] EXCEPT !.at = "team"]
<1>4. /\ ~countsOff /\ UNCHANGED <<joined, sponsor, directs, team>>
      /\ edges' = [edges EXCEPT ![<<b, u>>] = @ + 1] /\ Turns(c, d)
    BY <1>2, <1>3 DEF AddEdge
<1>5. d.at = "team" /\ d.above = b
    BY <1>1, <1>2
<1> HIDE DEF d
<1>6. attaching'[c] = d /\ \A e \in Attaching : e # c => attaching'[e] = attaching[e]
    BY <1>4, Turned
<1>7. \A e \in Attaching : ~Counting(attaching[e])
    BY <1>0, <1>4, NobodyRecounts DEF Signs
<1>13. \A x \in Members : Team(x)' = IF x = b THEN Team(x) + 1 ELSE Team(x)
    BY <1>4, TeamGrows
<1> SUFFICES ASSUME NEW s \in Members
             PROVE  /\ directs'[s] + Cardinality(Pending(attaching', "direct", s)) = Cardinality(Children(s)')
                    /\ team'[s] + Cardinality(Pending(attaching', "team", s)) = Team(s)'
    BY DEF CountsPend
<1>8. /\ directs[s] + Cardinality(Pending(attaching, "direct", s)) = Cardinality(Children(s))
      /\ team[s] + Cardinality(Pending(attaching, "team", s)) = Team(s)
    BY <1>4, <1>7 DEF CountsPend
<1>n. /\ directs[s] \in Nat /\ team[s] \in Nat /\ Cardinality(Children(s)) \in Nat /\ Team(s) \in Nat
      /\ Cardinality(Pending(attaching, "direct", s)) \in Nat
      /\ Cardinality(Pending(attaching, "team", s)) \in Nat
      /\ Cardinality(Pending(attaching', "direct", s)) \in Nat
      /\ Cardinality(Pending(attaching', "team", s)) \in Nat
    BY CountsNat, PendingNat
<1>9. Cardinality(Pending(attaching', "direct", s)) = Cardinality(Pending(attaching, "direct", s))
    <2>1. Cardinality(Pending(attaching', "direct", s)) + (IF Matches(attaching[c], "direct", s) THEN 1 ELSE 0)
            = Cardinality(Pending(attaching, "direct", s)) + (IF Matches(attaching'[c], "direct", s) THEN 1 ELSE 0)
        BY <1>6, PendingStep
    <2>2. ~Matches(attaching'[c], "direct", s) /\ ~Matches(attaching[c], "direct", s)
        BY <1>0, <1>5, <1>6 DEF Matches
    <2> QED
        BY <1>n, <2>1, <2>2
<1>10. Cardinality(Pending(attaching', "team", s))
        = Cardinality(Pending(attaching, "team", s)) + (IF s = b THEN 1 ELSE 0)
    <2>1. Cardinality(Pending(attaching', "team", s)) + (IF Matches(attaching[c], "team", s) THEN 1 ELSE 0)
            = Cardinality(Pending(attaching, "team", s)) + (IF Matches(attaching'[c], "team", s) THEN 1 ELSE 0)
        BY <1>6, PendingStep
    <2>2. ~Matches(attaching[c], "team", s) /\ (Matches(attaching'[c], "team", s) <=> s = b)
        BY <1>0, <1>5, <1>6 DEF Matches
    <2> QED
        BY <1>n, <2>1, <2>2
<1>11. Team(s)' = Team(s) + (IF s = b THEN 1 ELSE 0)
    BY <1>13, <1>n
<1>12. Children(s)' = Children(s)
    BY <1>4, ChildrenKept
<1> QED
    BY <1>4, <1>8, <1>9, <1>10, <1>11, <1>12, <1>n

\* It counts the edge.
LEMMA PendCountTeam ==
    ASSUME TreeTyped, AloneMeansOne, OthersAlone, CountsPend, ~countsOff', NEW c \in Attaching, CountTeam(c)
    PROVE  CountsPend'
<1>0. attaching[c] \in Doings /\ attaching[c].at = "team" /\ GoesOn(c)
    BY DEF TreeTyped, CountTeam, Does, GoesOn
<1>1. attaching[c] \in [at : {"edge", "team"}, member : Members, above : Members, level : 1 .. Depth]
    BY <1>0, DoingAt
<1>2. PICK b \in Members : b = attaching[c].above
    BY <1>1
<1>3. /\ ~countsOff /\ UNCHANGED <<joined, sponsor, directs, edges>>
      /\ team' = [team EXCEPT ![b] = @ + 1]
    BY <1>2 DEF CountTeam
<1>4. \A e \in Attaching : e # c => attaching'[e] = attaching[e]
    BY <1>0, GoesOnFrame
<1>5. attaching'[c].at # "direct" /\ attaching'[c].at # "team"
    <2>1. PICK x : x = sponsor[attaching[c].above]
        OBVIOUS
    <2> DEFINE n == [attaching[c] EXCEPT !.at = "edge", !.above = x, !.level = @ + 1]
               d == IF x # NoMember /\ MoreLevels(attaching[c].level) THEN n ELSE Resting
    <2>2. Turns(c, d)
        BY <2>1 DEF CountTeam
    <2>3. n.at = "edge" /\ Resting.at = "resting"
        BY <1>1 DEF Resting
    <2> HIDE DEF n
    <2>4. d.at \in {"edge", "resting"}
        BY <2>3
    <2> HIDE DEF d
    <2> QED
        BY <2>2, <2>4, Turned
<1>6. \A e \in Attaching : ~Counting(attaching[e])
    BY <1>0, <1>3, NobodyRecounts DEF Signs
<1> SUFFICES ASSUME NEW s \in Members
             PROVE  /\ directs'[s] + Cardinality(Pending(attaching', "direct", s)) = Cardinality(Children(s)')
                    /\ team'[s] + Cardinality(Pending(attaching', "team", s)) = Team(s)'
    BY DEF CountsPend
<1>7. /\ directs[s] + Cardinality(Pending(attaching, "direct", s)) = Cardinality(Children(s))
      /\ team[s] + Cardinality(Pending(attaching, "team", s)) = Team(s)
    BY <1>3, <1>6 DEF CountsPend
<1>n. /\ directs[s] \in Nat /\ team[s] \in Nat /\ Cardinality(Children(s)) \in Nat
      /\ Cardinality(Pending(attaching, "direct", s)) \in Nat
      /\ Cardinality(Pending(attaching, "team", s)) \in Nat
      /\ Cardinality(Pending(attaching', "direct", s)) \in Nat
      /\ Cardinality(Pending(attaching', "team", s)) \in Nat
    BY CountsNat, PendingNat
<1>8. Cardinality(Pending(attaching', "direct", s)) = Cardinality(Pending(attaching, "direct", s))
    <2>1. Cardinality(Pending(attaching', "direct", s)) + (IF Matches(attaching[c], "direct", s) THEN 1 ELSE 0)
            = Cardinality(Pending(attaching, "direct", s)) + (IF Matches(attaching'[c], "direct", s) THEN 1 ELSE 0)
        BY <1>4, PendingStep
    <2>2. ~Matches(attaching'[c], "direct", s) /\ ~Matches(attaching[c], "direct", s)
        BY <1>0, <1>5 DEF Matches
    <2> QED
        BY <1>n, <2>1, <2>2
<1>9. Cardinality(Pending(attaching', "team", s)) + (IF s = b THEN 1 ELSE 0)
        = Cardinality(Pending(attaching, "team", s))
    <2>1. Cardinality(Pending(attaching', "team", s)) + (IF Matches(attaching[c], "team", s) THEN 1 ELSE 0)
            = Cardinality(Pending(attaching, "team", s)) + (IF Matches(attaching'[c], "team", s) THEN 1 ELSE 0)
        BY <1>4, PendingStep
    <2>2. ~Matches(attaching'[c], "team", s) /\ (Matches(attaching[c], "team", s) <=> s = b)
        BY <1>0, <1>2, <1>5 DEF Matches
    <2> QED
        BY <1>n, <2>1, <2>2
<1>10. team'[s] = team[s] + (IF s = b THEN 1 ELSE 0)
    BY <1>3 DEF TreeTyped, TreeTypeOK
<1>11. Children(s)' = Children(s) /\ Team(s)' = Team(s)
    BY <1>3, TeamKept, ChildrenKept
<1> QED
    BY <1>3, <1>7, <1>8, <1>9, <1>10, <1>11, <1>n

(***************************************************************************)
(* A recount leaves every counter right.                                   *)
(***************************************************************************)

\* What is right stays so where nobody counts and the tree stays.
LEMMA RightStays ==
    ASSUME TreeTyped, \A s \in Members : Right(s),
           UNCHANGED <<joined, sponsor, edges, directs, team>>,
           \A d \in Attaching : attaching'[d].at \notin {"direct", "team"}
    PROVE  CountsPend'
<1> SUFFICES ASSUME NEW s \in Members
             PROVE  /\ directs'[s] + Cardinality(Pending(attaching', "direct", s)) = Cardinality(Children(s)')
                    /\ team'[s] + Cardinality(Pending(attaching', "team", s)) = Team(s)'
    BY DEF CountsPend
<1>1. directs[s] = Cardinality(Children(s)) /\ team[s] = Team(s)
    BY DEF Right
<1>2. directs[s] \in Nat /\ team[s] \in Nat
    BY CountsNat
<1>3. Cardinality(Pending(attaching', "direct", s)) = 0
    BY PendingNone
<1>4. Cardinality(Pending(attaching', "team", s)) = 0
    BY PendingNone
<1>5. Children(s)' = Children(s) /\ Team(s)' = Team(s)
    BY TeamKept, ChildrenKept
<1> QED
    BY <1>1, <1>2, <1>3, <1>4, <1>5

\* Nothing under way, nothing pending.
LEMMA CalmIsRight ==
    ASSUME TreeTyped, CountsPend, ~countsOff, Calm
    PROVE  \A s \in Members : Right(s)
<1>0. \A c \in Attaching : attaching[c].at = "resting"
    BY DEF Calm, IsResting, Does
<1>1. \A c \in Attaching : ~Counting(attaching[c])
    BY <1>0 DEF Counting
<1> SUFFICES ASSUME NEW s \in Members PROVE Right(s)
    OBVIOUS
<1>2. /\ directs[s] + Cardinality(Pending(attaching, "direct", s)) = Cardinality(Children(s))
      /\ team[s] + Cardinality(Pending(attaching, "team", s)) = Team(s)
    BY <1>1 DEF CountsPend
<1>3. Cardinality(Pending(attaching, "direct", s)) = 0
    BY <1>0, PendingNone
<1>4. Cardinality(Pending(attaching, "team", s)) = 0
    BY <1>0, PendingNone
<1>5. directs[s] \in Nat /\ team[s] \in Nat
    BY CountsNat
<1> QED
    BY <1>2, <1>3, <1>4, <1>5 DEF Right

\* A rewire begins with nothing pending.
LEMMA PendRewire ==
    ASSUME TreeTyped, CountsPend, ~countsOff', NEW c \in Attaching,
           NEW u \in Members, NEW t \in MaybeMember, Rewire(c, u, t)
    PROVE  CountsPend'
<1>1. Starts(c)
    BY DEF Starts
<1>2. /\ UNCHANGED <<joined, sponsor>>
      /\ \A e \in Attaching : e # c => attaching'[e] = attaching[e]
      /\ attaching'[c] = [at |-> "checked", member |-> u, to |-> t]
    BY RewireFrame
<1>3. attaching'[c].at = "checked"
    BY <1>2
<1>4. /\ ~countsOff /\ Calm /\ UNCHANGED <<edges, directs, team>>
    BY <1>1, <1>3, StartsFrame DEF Signs
<1>5. \A s \in Members : Right(s)
    BY <1>4, CalmIsRight
<1>6. \A d \in Attaching : attaching'[d].at \notin {"direct", "team"}
    BY <1>2, <1>3, <1>4 DEF Calm, IsResting, Does
<1> QED
    BY <1>2, <1>4, <1>5, <1>6, RightStays

\* A recount ends, having been to every member.
LEMMA PendCountedAll ==
    ASSUME TreeTyped, Sponsored, CountsInv, ~countsOff', NEW c \in Attaching, CountedAll(c)
    PROVE  CountsPend'
<1>1. /\ attaching[c].at = "count" /\ attaching[c].todo = {}
      /\ countsOff' = (countsOff /\ ~alone)
      /\ UNCHANGED <<joined, sponsor, edges, directs, team>>
    BY DEF CountedAll, Does
<1>2. alone
    BY <1>1 DEF CountsInv, OthersAlone, Signs
<1>3. \A d \in Attaching : d # c => attaching[d].at = "resting"
    BY <1>1, <1>2 DEF CountsInv, AloneMeansOne
<1>4. GoesOn(c)
    BY DEF GoesOn
<1>5. \A d \in Attaching : attaching'[d].at \notin {"direct", "team"}
    <2>1. \A e \in Attaching : e # c => attaching'[e] = attaching[e]
        BY <1>4, GoesOnFrame
    <2>2. attaching'[c].at = "resting"
        <3>1. Turns(c, Resting)
            BY DEF CountedAll
        <3> QED
            BY <3>1, Turned DEF Resting
    <2> QED
        BY <1>3, <2>1, <2>2
<1>6. \A s \in joined : Right(s)
    BY <1>1, <1>2 DEF CountsInv, RecountRight, Counting
<1>7. \A s \in Members \ joined : Right(s)
    BY NobodyBelow DEF CountsInv
<1>8. \A s \in Members : Right(s)
    BY <1>6, <1>7
<1> QED
    BY <1>1, <1>5, <1>8, RightStays

LEMMA PendStep ==
    ASSUME TreeTyped, Sponsored, CountsInv, NEW c \in Attaching, Steps(c)
    PROVE  CountsPend'
<1> SUFFICES ASSUME ~countsOff', \A d \in Attaching : ~Counting(attaching'[d]) PROVE CountsPend'
    BY DEF CountsPend
<1>0. AloneMeansOne /\ OthersAlone /\ CountsPend
    BY DEF CountsInv
<1>1. CASE \E u, s \in Members : SignUpUnder(c, u, s)
    BY <1>0, <1>1, PendSignUp
<1>2. CASE \E u \in Members, s \in MaybeMember : Rewire(c, u, s)
    BY <1>0, <1>2, PendRewire
<1>3. CASE Recount(c)
    <2>1. Turns(c, [at |-> "count", todo |-> joined])
        BY <1>3 DEF Recount, Begins
    <2>2. attaching'[c].at = "count"
        BY <2>1, Turned
    <2> QED
        BY <2>2 DEF Counting
<1>4. CASE CountDirect(c)
    BY <1>0, <1>4, PendCountDirect
<1>5. CASE AddEdge(c)
    BY <1>0, <1>5, PendAddEdge
<1>6. CASE CountTeam(c)
    BY <1>0, <1>6, PendCountTeam
<1>7. CASE CountedAll(c)
    BY <1>7, PendCountedAll
<1>8. CASE CountOne(c)
    <2>1. PICK m \in attaching[c].todo :
            Turns(c, [at |-> "write", todo |-> attaching[c].todo \ {m}, member |-> m,
                      directs |-> Cardinality(Children(m)), team |-> Team(m)])
        BY <1>8 DEF CountOne
    <2>2. attaching'[c].at = "write"
        BY <2>1, Turned
    <2> QED
        BY <2>2 DEF Counting
<1>9. CASE WriteOne(c)
    <2>1. Turns(c, [at |-> "count", todo |-> attaching[c].todo])
        BY <1>9 DEF WriteOne
    <2>2. attaching'[c].at = "count"
        BY <2>1, Turned
    <2> QED
        BY <2>2 DEF Counting
<1>10. CASE Reattach(c)
    <2>1. attaching'[c] = [at |-> "count", todo |-> joined]
        BY <1>10, ReattachFrame
    <2>2. attaching'[c].at = "count"
        BY <2>1
    <2> QED
        BY <2>2 DEF Counting
<1>11. CASE Lose(c)
    BY <1>11 DEF Lose
<1> QED
    BY <1>1, <1>2, <1>3, <1>4, <1>5, <1>6, <1>7, <1>8, <1>9, <1>10, <1>11 DEF Steps

(***************************************************************************)
(* A recount that runs alone reads what it writes.                         *)
(***************************************************************************)

\* The rule of RecountRight for one call.
RecountedBy(d) ==
    /\ \A s \in joined \ d.todo : ~(d.at = "write" /\ d.member = s) => Right(s)
    /\ d.at = "write" =>
          d.directs = Cardinality(Children(d.member)) /\ d.team = Team(d.member)

\* It reads ...
LEMMA RecountOne ==
    ASSUME TreeTyped, OutsidersCountNothing, NEW c \in Attaching, RecountedBy(attaching[c]), CountOne(c)
    PROVE  RecountedBy(attaching[c])'
<1>1. PICK m \in attaching[c].todo :
        Turns(c, [at |-> "write", todo |-> attaching[c].todo \ {m}, member |-> m,
                  directs |-> Cardinality(Children(m)), team |-> Team(m)])
    BY DEF CountOne
<1>2. attaching[c].at = "count" /\ UNCHANGED <<joined, sponsor, edges, directs, team>>
    BY DEF CountOne, Does
<1>3. attaching[c].todo \subseteq Members
    BY <1>2 DEF OutsidersCountNothing, Counting, TreeTyped, TreeTypeOK
<1>4. /\ attaching'[c].at = "write" /\ attaching'[c].todo = attaching[c].todo \ {m}
      /\ attaching'[c].member = m
      /\ attaching'[c].directs = Cardinality(Children(m)) /\ attaching'[c].team = Team(m)
    BY <1>1, Turned
<1>5. \A s \in Members : Children(s)' = Children(s) /\ Team(s)' = Team(s)
    BY <1>2, TeamKept, ChildrenKept
<1>6. ASSUME NEW s \in joined', s \notin attaching'[c].todo, s # m
      PROVE  Right(s)'
    <2>1. s \in joined /\ s \notin attaching[c].todo /\ s \in Members
        BY <1>2, <1>4, <1>6 DEF TreeTyped, TreeTypeOK
    <2>2. Right(s)
        BY <1>2, <2>1 DEF RecountedBy
    <2> QED
        BY <1>2, <1>5, <2>1, <2>2 DEF Right
<1>7. m \in Members
    BY <1>3
<1>8. attaching'[c].directs = Cardinality(Children(m)') /\ attaching'[c].team = Team(m)'
    BY <1>4, <1>5, <1>7
<1>9. \A s \in joined' \ attaching'[c].todo :
        ~(attaching'[c].at = "write" /\ attaching'[c].member = s) => Right(s)'
    BY <1>4, <1>6
<1>10. Children(attaching[c].member)' = Children(m)' /\ Team(attaching[c].member)' = Team(m)'
    <2>1. PICK n : n = attaching'[c].member
        OBVIOUS
    <2>2. n = m
        BY <1>4, <2>1
    <2> QED
        BY <1>4 DEF Children, Team
<1> QED
    BY <1>8, <1>9, <1>10 DEF RecountedBy

\* ... writes ...
LEMMA RecountWrites ==
    ASSUME TreeTyped, OutsidersCountNothing, NEW c \in Attaching, RecountedBy(attaching[c]), WriteOne(c)
    PROVE  RecountedBy(attaching[c])'
<1>1. PICK m : m = attaching[c].member
    OBVIOUS
<1>2. PICK n : n = attaching[c].directs
    OBVIOUS
<1>3. PICK k : k = attaching[c].team
    OBVIOUS
<1>4. /\ attaching[c].at = "write" /\ UNCHANGED <<joined, sponsor, edges>>
      /\ directs' = [directs EXCEPT ![m] = n] /\ team' = [team EXCEPT ![m] = k]
      /\ Turns(c, [at |-> "count", todo |-> attaching[c].todo])
    BY <1>1, <1>2, <1>3 DEF WriteOne, Does
<1>5. attaching'[c].at = "count" /\ attaching'[c].todo = attaching[c].todo
    BY <1>4, Turned
<1>6. m \in Members
    BY <1>1, <1>4 DEF OutsidersCountNothing, Counting, TreeTyped, TreeTypeOK
<1>7. n = Cardinality(Children(m)) /\ k = Team(m)
    BY <1>1, <1>2, <1>3, <1>4 DEF RecountedBy
<1>8. \A s \in Members : Children(s)' = Children(s) /\ Team(s)' = Team(s)
    BY <1>4, TeamKept, ChildrenKept
<1>9. ASSUME NEW s \in joined, s \notin attaching[c].todo
      PROVE  Right(s)'
    <2>0. s \in Members /\ directs \in [Members -> Nat] /\ team \in [Members -> Nat]
        BY DEF TreeTyped, TreeTypeOK
    <2>1. CASE s = m
        BY <1>4, <1>7, <1>8, <2>0, <2>1 DEF Right
    <2>2. CASE s # m
        <3>1. Right(s)
            BY <1>1, <1>9, <2>2 DEF RecountedBy
        <3> QED
            BY <1>4, <1>8, <2>0, <2>2, <3>1 DEF Right
    <2> QED
        BY <2>1, <2>2
<1> QED
    BY <1>4, <1>5, <1>9 DEF RecountedBy

\* ... and begins with everybody to do.
LEMMA RecountBegins ==
    ASSUME NEW c \in Attaching, joined' = joined, attaching'[c].at = "count", attaching'[c].todo = joined
    PROVE  RecountedBy(attaching[c])'
BY DEF RecountedBy

LEMMA RecountStepRight ==
    ASSUME TreeTyped, Sponsored, CountsInv, NEW c \in Attaching, Steps(c)
    PROVE  RecountRight'
<1> SUFFICES ASSUME alone', NEW e \in Attaching, Counting(attaching'[e])
             PROVE  RecountedBy(attaching[e])'
    BY DEF RecountRight, RecountedBy
<1>1. CASE Starts(c)
    <2>1. e = c
        BY <1>1, StartsFrame DEF Calm, IsResting, Does, Counting
    <2>2. attaching'[c].at = "count" /\ attaching'[c].todo = joined
        BY <1>1, <2>1, StartsFrame DEF Counting
    <2>3. CASE \E u, s \in Members : SignUpUnder(c, u, s)
        <3>1. PICK u \in Members, s \in Members : SignUpUnder(c, u, s)
            BY <2>3
        <3>2. attaching'[c] = [at |-> "direct", member |-> u, above |-> s]
            BY <3>1, SignUpFrame
        <3>3. attaching'[c].at = "direct"
            BY <3>2
        <3> QED
            BY <2>2, <3>3
    <2>4. CASE \E u \in Members, s \in MaybeMember : Rewire(c, u, s)
        <3>1. PICK u \in Members, s \in MaybeMember : Rewire(c, u, s)
            BY <2>4
        <3>2. joined' = joined
            BY <3>1, RewireFrame
        <3> QED
            BY <2>1, <2>2, <3>2, RecountBegins
    <2>5. CASE Recount(c)
        <3>1. joined' = joined
            BY <2>5 DEF Recount
        <3> QED
            BY <2>1, <2>2, <3>1, RecountBegins
    <2> QED
        BY <1>1, <2>3, <2>4, <2>5 DEF Starts
<1>2. CASE GoesOn(c)
    <2>0. /\ attaching[c].at # "resting" /\ alone' = alone
          /\ \A d \in Attaching : d # c => attaching'[d] = attaching[d]
        BY <1>2, GoesOnFrame
    <2>1. e = c
        BY <2>0 DEF CountsInv, AloneMeansOne, Counting
    <2>2. OutsidersCountNothing /\ (Counting(attaching[c]) => RecountedBy(attaching[c]))
        BY <2>0 DEF CountsInv, RecountRight, RecountedBy
    <2>3. CASE CountOne(c)
        <3>1. Counting(attaching[c])
            BY <2>3 DEF CountOne, Does, Counting
        <3> QED
            BY <2>1, <2>2, <2>3, <3>1, RecountOne
    <2>4. CASE WriteOne(c)
        <3>1. Counting(attaching[c])
            BY <2>4 DEF WriteOne, Does, Counting
        <3> QED
            BY <2>1, <2>2, <2>4, <3>1, RecountWrites
    <2>5. CASE Reattach(c) /\ attaching'[c].at = "count" /\ attaching'[c].todo = joined
        <3>1. joined' = joined
            BY <2>5, ReattachFrame
        <3> QED
            BY <2>1, <2>5, <3>1, RecountBegins
    <2>6. attaching'[c].at \in {"count", "write"}
        BY <2>1 DEF Counting
    <2> QED
        BY <1>2, <2>3, <2>4, <2>5, <2>6, GoesOnFrame
<1> QED
    BY <1>1, <1>2, StartsOrGoesOn

LEMMA CountsStep ==
    ASSUME TreeTyped, Sponsored, CountsInv, TreeTyped', Sponsored', NEW c \in Attaching, Steps(c)
    PROVE  CountsInv'
<1>1. OutsidersCountNothing'
    BY OutsidersStep DEF CountsInv
<1>2. AloneMeansOne' /\ OthersAlone'
    BY AloneStep, OthersAloneStep DEF CountsInv
<1>3. CountsPend' /\ RecountRight'
    BY PendStep, RecountStepRight
<1> QED
    BY <1>1, <1>2, <1>3 DEF CountsInv

LEMMA CountsInit == TreeInit => CountsInv
<1> SUFFICES ASSUME TreeInit PROVE CountsInv
    OBVIOUS
<1>1. /\ \A c \in Attaching : attaching[c].at = "resting"
      /\ sponsor = [u \in Members |-> NoMember] /\ edges = [p \in Pairs |-> 0]
      /\ directs = [u \in Members |-> 0] /\ team = [u \in Members |-> 0]
    BY DEF TreeInit, Resting
<1>2. \A s \in Members : directs[s] = 0 /\ team[s] = 0 /\ \A m \in Members : edges[<<s, m>>] = 0
    BY <1>1 DEF Pairs
<1>3. OutsidersCountNothing
    BY <1>1, <1>2 DEF OutsidersCountNothing, Counting
<1>4. AloneMeansOne /\ OthersAlone /\ RecountRight
    BY <1>1 DEF AloneMeansOne, OthersAlone, RecountRight, Counting
<1>5. CountsPend
    <2> SUFFICES ASSUME NEW s \in Members
                 PROVE  /\ directs[s] + Cardinality(Pending(attaching, "direct", s)) = Cardinality(Children(s))
                        /\ team[s] + Cardinality(Pending(attaching, "team", s)) = Team(s)
        BY DEF CountsPend
    <2>1. Cardinality(Pending(attaching, "direct", s)) = 0
        BY <1>1, PendingNone
    <2>2. Cardinality(Pending(attaching, "team", s)) = 0
        BY <1>1, PendingNone
    <2>3. Children(s) = {}
        BY <1>1, TreeAssumption DEF Children, TreeInit
    <2>4. Cardinality(Children(s)) = 0
        BY <2>3, FS_EmptySet
    <2> DEFINE f == [m \in Members |-> edges[<<s, m>>]]
    <2>5. \A m \in Members : f[m] = 0
        BY <1>2
    <2>6. Team(s) = SumOver(Members, f)
        BY DEF Team
    <2> HIDE DEF f
    <2>7. SumOver(Members, f) = 0
        BY <2>5, SumZero, TreeAssumption
    <2> QED
        BY <1>2, <2>1, <2>2, <2>4, <2>6, <2>7
<1> QED
    BY <1>3, <1>4, <1>5 DEF CountsInv

\* What every step keeps.
TreeInv == TreeTyped /\ Sponsored /\ LoopInv /\ EdgesInv /\ CountsInv

LEMMA RowsInvariant == TreeSpec => []TreeInv
<1>1. TreeInit => TreeInv
    BY TypedInit, SponsoredInit, LoopInit, EdgesInit, CountsInit DEF TreeInv
<1>2. TreeInv /\ [TreeNext]_treeVars => TreeInv'
    <2> SUFFICES ASSUME TreeInv, [TreeNext]_treeVars PROVE TreeInv'
        OBVIOUS
    <2>1. TreeTyped /\ Sponsored /\ LoopInv /\ EdgesInv /\ CountsInv
        BY DEF TreeInv
    <2>2. CASE TreeNext
        <3>1. PICK c \in Attaching : Steps(c)
            BY <2>2, NextSteps
        <3>2. TreeTyped' /\ Sponsored'
            BY <2>1, <3>1, TypedStep, SponsoredStep
        <3>3. LoopInv'
            BY <2>1, <3>1, StepKinds, LoopSignUp, LoopRewire, LoopReattach, LoopQuiet
        <3>4. EdgesInv'
            BY <2>1, <3>1, <3>3, EdgesStep
        <3>5. CountsInv'
            BY <2>1, <3>1, <3>2, CountsStep
        <3> QED
            BY <3>2, <3>3, <3>4, <3>5 DEF TreeInv
    <2>3. CASE UNCHANGED treeVars
        <3>1. /\ UNCHANGED <<joined, sponsor, edges, directs, team, attaching>>
              /\ UNCHANGED <<alone, countsOff, edgesOff, bothRewire>>
            BY <2>3 DEF treeVars, calls
        <3>2. TreeTyped'
            BY <2>1, <3>1 DEF TreeTyped, TreeTypeOK
        <3>3. Sponsored'
            BY <2>1, <3>1 DEF Sponsored, IsSignUp, Does
        <3>4. LoopInv'
            BY <2>1, <3>1 DEF LoopInv, LoopFree, Does, Apart
        <3>5. EdgesInv'
            BY <2>1, <3>1 DEF EdgesInv, EdgesHold, Solo, OwnMember, StillLeaf, SignUpsWrite, OthersWritten
        <3>6. CountsInv'
            <4>1. \A s \in Members : Children(s)' = Children(s) /\ Team(s)' = Team(s)
                BY <3>1, TeamKept, ChildrenKept
            <4>2. OutsidersCountNothing' /\ AloneMeansOne' /\ OthersAlone'
                BY <2>1, <3>1 DEF CountsInv, OutsidersCountNothing, AloneMeansOne, OthersAlone
            <4>3. CountsPend'
                BY <2>1, <3>1, <4>1 DEF CountsInv, CountsPend
            <4>4. RecountRight'
                BY <2>1, <3>1 DEF CountsInv, RecountRight, Right, Children, Team
            <4> QED
                BY <4>2, <4>3, <4>4 DEF CountsInv
        <3> QED
            BY <3>2, <3>3, <3>4, <3>5, <3>6 DEF TreeInv
    <2> QED
        BY <2>2, <2>3
<1> QED
    BY <1>1, <1>2, PTL DEF TreeSpec

\* LoopsNeedTwoRewires: checks and sign-ups in between, in any order, close no
\* loop; rewireSponsorForLeafUser closes one only beside another.
THEOREM LoopsTakeTwoRewires == TreeSpec => []LoopsNeedTwoRewires
<1>1. TreeInv => LoopsNeedTwoRewires
    <2> SUFFICES ASSUME TreeInv, ~bothRewire, NEW u \in Members
                 PROVE  u \notin Ancestors(u, Cardinality(Members))
        BY DEF LoopsNeedTwoRewires
    <2>1. sponsor \in [Members -> MaybeMember]
        BY DEF TreeInv, TreeTyped, TreeTypeOK, MaybeMember
    <2>2. PICK rank : Ranks(sponsor, rank)
        BY DEF TreeInv, LoopInv, LoopFree
    <2> QED
        BY <2>1, <2>2, RankedIsLoopFree
<1> QED
    BY <1>1, RowsInvariant, PTL

\* The tables of the tree stay well typed: every sponsor is a member or none, and
\* every count a natural number.
THEOREM TreeTypeCorrect == TreeSpec => []TreeTypeOK
<1>1. TreeInv => TreeTypeOK
    BY DEF TreeInv, TreeTyped
<1> QED
    BY <1>1, RowsInvariant, PTL

\* TreeRowsFollowSponsors: sign-ups under way together write edges and counters
\* right whatever their order, a rewire does that runs alone, and a recount that
\* runs alone puts right what lost and racing calls left.
THEOREM RowsFollowSponsors == TreeSpec => []TreeRowsFollowSponsors
<1>1. TreeInv => EdgesFollowSponsors
    BY EdgesFollow DEF TreeInv
<1>2. TreeInv => CountsFollowTree
    BY CalmIsRight DEF TreeInv, CountsInv, CountsFollowTree, Right
<1> QED
    BY <1>1, <1>2, RowsInvariant, PTL DEF TreeRowsFollowSponsors

(***************************************************************************)
(* The package rows of a member.  Rows are changed in place or one is      *)
(* added.  What a call has seen of the rows stays true as long as no row   *)
(* is added by another: that is what `missed' records.                     *)
(***************************************************************************)

Afterwards == {"stop", "list"}
Stages ==
    {Idle}
    \cup [at : {"activate"}, tx : Nat, seen : Nat]
    \cup [at : {"distribute"}, row : Nat]
    \cup [at : {"look", "list"}, then : Afterwards]
    \cup [at : {"ensure"}, then : Afterwards, seen : Nat]
    \cup [at : {"mirror"}, then : Afterwards, todo : SUBSET Nat]
    \cup [at : {"compare", "clear", "create"}, package : Packages, upTo : Nat]

PurchasesTyped ==
    /\ bought \in Seq(Packages) /\ events \subseteq DOMAIN bought
    /\ rows \in Seq(Rows) /\ request \in [Requests -> Stages]
    /\ synced \in Nat /\ synced <= Len(bought)
    /\ failures \in Nat /\ grants \in Nat

\* Packages are bought in order, and their events taken in order; a call knows
\* which purchase it is about.
ChainHolds ==
    /\ \A t \in events : \A s \in 1 .. (t - 1) : s \in events
    /\ account = "none" => rows = <<>> /\ \A r \in Requests : request[r].at = "idle"
    /\ \A r \in Requests : request[r].at = "activate" =>
           /\ request[r].tx \in DOMAIN bought
           /\ \A s \in 1 .. (request[r].tx - 1) : s \in events
    /\ \A r \in Requests : request[r].at \in {"compare", "clear", "create"} =>
           request[r].upTo \in DOMAIN bought /\ request[r].package = bought[request[r].upTo]

\* Only a member who signed up with the entry package has calls that look for
\* the sign-up's row; who bought another package first has none.
EntryHolds ==
    /\ \A k \in DOMAIN bought : bought[k] >= bought[1]
    /\ account = "signed" => bought # <<>> /\ bought[1] = 1
    /\ \A r \in Requests : request[r].at \in {"look", "ensure"} => account = "signed"

\* What made a row tells its package and transaction.
RowsKnown ==
    \A i \in DOMAIN rows :
        /\ rows[i].by = "event" =>
               rows[i].tx \in events /\ rows[i].package = bought[rows[i].tx]
        /\ rows[i].by = "signup" => rows[i].tx = 1 /\ rows[i].package = 1
        /\ rows[i].by \in {"event", "signup"} => rows[i].onChain
        /\ rows[i].by \in {"copy", "admin"} => rows[i].tx = 0 \/ (rows[i].tx = 1 /\ 1 \in events)

Buys(i) == rows[i].by \in {"event", "signup"}

\* Nobody has created a row for what a call has found without one.
LooksHold ==
    ~missed =>
        /\ \A i, j \in DOMAIN rows : Buys(i) /\ Buys(j) /\ rows[i].tx = rows[j].tx => i = j
        /\ \A r \in Requests : request[r].at = "activate" =>
               /\ request[r].tx \notin events
               /\ \A i \in DOMAIN rows : rows[i].onChain => rows[i].tx # request[r].tx
        /\ \A r \in Requests : request[r].at = "ensure" =>
               \A i \in DOMAIN rows : Buys(i) => rows[i].tx # 1

\* The rows keep what they are about.
KeepsRow(i) ==
    /\ rows'[i].package = rows[i].package /\ rows'[i].by = rows[i].by
    /\ rows'[i].onChain = rows[i].onChain
    /\ rows'[i].tx = rows[i].tx \/ (rows[i].tx = 0 /\ 1 \in events /\ rows'[i].tx = 1)
    /\ rows'[i].current => rows[i].current

InPlace ==
    /\ rows' \in Seq(Rows) /\ DOMAIN rows' = DOMAIN rows /\ Len(rows') = Len(rows)
    /\ \A i \in DOMAIN rows : KeepsRow(i)

Grows(row) ==
    LET n == Len(rows) + 1 IN
    /\ rows' \in Seq(Rows) /\ DOMAIN rows' = DOMAIN rows \cup {n}
    /\ n \notin DOMAIN rows /\ Len(rows') = n
    /\ rows'[n] = row
    /\ \A i \in DOMAIN rows : KeepsRow(i) /\ rows'[i].tx = rows[i].tx

LEMMA RowType ==
    ASSUME rows \in Seq(Rows), NEW i \in DOMAIN rows
    PROVE  /\ rows[i] \in Rows /\ i \in Nat
           /\ rows[i] = [package |-> rows[i].package, tx |-> rows[i].tx,
                         onChain |-> rows[i].onChain, current |-> rows[i].current,
                         by |-> rows[i].by, booked |-> rows[i].booked]
<1>1. rows[i] \in Rows /\ i \in Nat
    OBVIOUS
<1> QED
    BY <1>1 DEF Rows

LEMMA SameRows ==
    ASSUME rows \in Seq(Rows), rows' = rows PROVE InPlace
    BY DEF InPlace, KeepsRow

LEMMA BookInPlace ==
    ASSUME rows \in Seq(Rows), NEW i, Book(i)
    PROVE  InPlace /\ \A j \in DOMAIN rows : rows'[j].current = rows[j].current
<1>1. ASSUME NEW j \in DOMAIN rows
      PROVE  /\ rows'[j] \in Rows /\ KeepsRow(j) /\ rows'[j].current = rows[j].current
    <2>1. rows[j] \in Rows
        OBVIOUS
    <2>2. rows'[j] = IF i = j THEN [rows[j] EXCEPT !.booked = TRUE] ELSE rows[j]
        BY DEF Book
    <2> QED
        BY <2>1, <2>2 DEF KeepsRow, Rows
<1>2. DOMAIN rows' = DOMAIN rows /\ rows' = [j \in DOMAIN rows |-> rows'[j]]
    BY DEF Book
<1>3. rows' \in Seq(Rows) /\ Len(rows') = Len(rows)
    BY <1>1, <1>2
<1> QED
    BY <1>1, <1>2, <1>3 DEF InPlace

LEMMA MirrorInPlace ==
    ASSUME rows \in Seq(Rows), NEW i, Mirror(i)
    PROVE  InPlace /\ \A j \in DOMAIN rows : rows'[j].current = rows[j].current
<1>1. ASSUME NEW j \in DOMAIN rows
      PROVE  /\ rows'[j] \in Rows /\ KeepsRow(j) /\ rows'[j].current = rows[j].current
    <2>1. rows[j] \in Rows
        OBVIOUS
    <2>2. CASE rows'[j] = rows[j]
        BY <2>1, <2>2 DEF KeepsRow
    <2>3. CASE rows'[j] = [rows[j] EXCEPT !.booked = TRUE]
        BY <2>1, <2>3 DEF KeepsRow, Rows
    <2>4. CASE /\ rows[j].tx = 0 /\ 1 \in events
               /\ rows'[j] = [[rows[j] EXCEPT !.tx = 1] EXCEPT !.booked = TRUE]
        <3> DEFINE row == [rows[j] EXCEPT !.tx = 1]
        <3>1. /\ row \in Rows /\ row.tx = 1 /\ row.package = rows[j].package
              /\ row.by = rows[j].by /\ row.onChain = rows[j].onChain
              /\ row.current = rows[j].current
            BY <2>1 DEF Rows
        <3>2. rows'[j] = [row EXCEPT !.booked = TRUE]
            BY <2>4
        <3> HIDE DEF row
        <3>3. /\ rows'[j] \in Rows /\ rows'[j].tx = 1 /\ rows'[j].package = row.package
              /\ rows'[j].by = row.by /\ rows'[j].onChain = row.onChain
              /\ rows'[j].current = row.current
            BY <3>1, <3>2 DEF Rows
        <3> QED
            BY <2>4, <3>1, <3>3 DEF KeepsRow
    <2> QED
        BY <2>2, <2>3, <2>4 DEF Mirror, Attached, NoTx
<1>2. DOMAIN rows' = DOMAIN rows /\ rows' = [j \in DOMAIN rows |-> rows'[j]]
    <2>1. rows = [j \in DOMAIN rows |-> rows[j]]
        OBVIOUS
    <2>2. CASE rows' = rows
        BY <2>1, <2>2
    <2>3. CASE rows' = [rows EXCEPT ![i] = [Attached(i) EXCEPT !.booked = TRUE]]
        BY <2>3
    <2> QED
        BY <2>2, <2>3 DEF Mirror
<1>3. rows' \in Seq(Rows) /\ Len(rows') = Len(rows)
    BY <1>1, <1>2
<1> QED
    BY <1>1, <1>2, <1>3 DEF InPlace

LEMMA ClearedRows ==
    ASSUME rows \in Seq(Rows), NEW seen
    PROVE  LET cleared == Cleared(seen) IN
           /\ cleared \in Seq(Rows) /\ DOMAIN cleared = DOMAIN rows /\ Len(cleared) = Len(rows)
           /\ \A i \in DOMAIN rows :
                  /\ cleared[i].package = rows[i].package /\ cleared[i].by = rows[i].by
                  /\ cleared[i].onChain = rows[i].onChain /\ cleared[i].tx = rows[i].tx
                  /\ cleared[i].current => rows[i].current
                  /\ i <= seen => ~cleared[i].current
<1> DEFINE cleared == Cleared(seen)
<1>1. ASSUME NEW i \in DOMAIN rows
      PROVE  /\ cleared[i] \in Rows
             /\ cleared[i].package = rows[i].package /\ cleared[i].by = rows[i].by
             /\ cleared[i].onChain = rows[i].onChain /\ cleared[i].tx = rows[i].tx
             /\ cleared[i].current => rows[i].current
             /\ i <= seen => ~cleared[i].current
    <2>1. rows[i] \in Rows
        OBVIOUS
    <2>2. cleared[i] = IF i <= seen THEN [rows[i] EXCEPT !.current = FALSE] ELSE rows[i]
        BY DEF Cleared
    <2> HIDE DEF cleared
    <2>3. CASE i <= seen
        BY <2>1, <2>2, <2>3 DEF Rows
    <2>4. CASE ~(i <= seen)
        BY <2>1, <2>2, <2>4
    <2> QED
        BY <2>3, <2>4
<1>2. DOMAIN cleared = DOMAIN rows /\ cleared = [i \in DOMAIN rows |-> cleared[i]]
    BY DEF Cleared
<1> HIDE DEF cleared
<1>3. cleared \in Seq(Rows) /\ Len(cleared) = Len(rows)
    BY <1>1, <1>2
<1>4. /\ cleared \in Seq(Rows) /\ DOMAIN cleared = DOMAIN rows /\ Len(cleared) = Len(rows)
      /\ \A i \in DOMAIN rows :
             /\ cleared[i].package = rows[i].package /\ cleared[i].by = rows[i].by
             /\ cleared[i].onChain = rows[i].onChain /\ cleared[i].tx = rows[i].tx
             /\ cleared[i].current => rows[i].current
             /\ i <= seen => ~cleared[i].current
    BY <1>1, <1>2, <1>3
<1> QED
    BY <1>4 DEF cleared

LEMMA ClearInPlace ==
    ASSUME rows \in Seq(Rows), rows' = Cleared(Len(rows))
    PROVE  InPlace /\ \A j \in DOMAIN rows : ~rows'[j].current
<1>1. \A j \in DOMAIN rows : j <= Len(rows)
    OBVIOUS
<1> QED
    BY <1>1, ClearedRows DEF InPlace, KeepsRow

LEMMA AppendGrows ==
    ASSUME rows \in Seq(Rows), NEW seen, NEW row \in Rows, rows' = Append(Cleared(seen), row)
    PROVE  Grows(row) /\ \A i \in DOMAIN rows : i <= seen => ~rows'[i].current
<1> DEFINE cleared == Cleared(seen)
<1>1. /\ cleared \in Seq(Rows) /\ DOMAIN cleared = DOMAIN rows /\ Len(cleared) = Len(rows)
      /\ \A i \in DOMAIN rows :
             /\ cleared[i].package = rows[i].package /\ cleared[i].by = rows[i].by
             /\ cleared[i].onChain = rows[i].onChain /\ cleared[i].tx = rows[i].tx
             /\ cleared[i].current => rows[i].current
             /\ i <= seen => ~cleared[i].current
    BY ClearedRows
<1>2. rows' = Append(cleared, row)
    OBVIOUS
<1> HIDE DEF cleared
<1>3. /\ rows' \in Seq(Rows) /\ DOMAIN rows' = DOMAIN rows \cup {Len(rows) + 1}
      /\ Len(rows) + 1 \notin DOMAIN rows /\ Len(rows') = Len(rows) + 1
      /\ rows'[Len(rows) + 1] = row
      /\ \A i \in DOMAIN rows : rows'[i] = cleared[i]
    BY <1>1, <1>2
<1> QED
    BY <1>1, <1>3 DEF Grows, KeepsRow

LEMMA PlainGrows ==
    ASSUME rows \in Seq(Rows), NEW row \in Rows, rows' = Append(rows, row)
    PROVE  Grows(row) /\ \A i \in DOMAIN rows : rows'[i] = rows[i]
    BY DEF Grows, KeepsRow

LEMMA CallFields ==
    ASSUME PurchasesTyped, NEW r \in Requests
    PROVE  LET q == request[r] IN
           /\ q.at \in {"idle", "activate", "distribute", "look", "list", "ensure", "mirror",
                        "compare", "clear", "create"}
           /\ q.at = "activate" => q.tx \in Nat /\ q.seen \in Nat
           /\ q.at = "distribute" => q.row \in Nat
           /\ q.at \in {"look", "list", "ensure", "mirror"} => q.then \in Afterwards
           /\ q.at = "ensure" => q.seen \in Nat
           /\ q.at = "mirror" => q \in [at : {"mirror"}, then : Afterwards, todo : SUBSET Nat]
           /\ q.at \in {"compare", "clear", "create"} =>
                  q \in [at : {"compare", "clear", "create"}, package : Packages, upTo : Nat]
<1>1. request[r] \in Stages
    BY DEF PurchasesTyped
<1> QED
    BY <1>1 DEF Stages, Idle

LEMMA GoesTyped ==
    ASSUME PurchasesTyped, NEW r \in Requests, NEW d \in Stages, Goes(r, d)
    PROVE  /\ request' \in [Requests -> Stages] /\ request'[r] = d
           /\ \A o \in Requests \ {r} : request'[o] = request[o]
<1>1. request \in [Requests -> Stages] /\ request' = [request EXCEPT ![r] = d]
    BY DEF PurchasesTyped, Goes
<1> QED
    BY <1>1

LEMMA StagesIn ==
    /\ Idle \in Stages /\ Idle.at = "idle"
    /\ \A tx, seen \in Nat : [at |-> "activate", tx |-> tx, seen |-> seen] \in Stages
    /\ \A row \in Nat : [at |-> "distribute", row |-> row] \in Stages
    /\ \A then \in Afterwards :
           /\ [at |-> "look", then |-> then] \in Stages
           /\ [at |-> "list", then |-> then] \in Stages
    /\ \A then \in Afterwards, seen \in Nat :
           [at |-> "ensure", then |-> then, seen |-> seen] \in Stages
    /\ \A then \in Afterwards, todo \in SUBSET Nat :
           [at |-> "mirror", then |-> then, todo |-> todo] \in Stages
    /\ \A stage \in {"compare", "clear", "create"}, package \in Packages, upTo \in Nat :
           [at |-> stage, package |-> package, upTo |-> upTo] \in Stages
    BY DEF Stages, Idle

\* A call's next stage, by action.
LEMMA TakeEventMoves ==
    ASSUME PurchasesTyped, NEW r \in Requests, NEW t \in Txs, TakeEvent(r, t)
    PROVE  \/ /\ RowsOf(t) = {} /\ events' = events
              /\ \E d \in Stages : /\ Goes(r, d) /\ d.at = "activate"
                                   /\ d.tx = t /\ d.seen = Len(rows)
           \/ /\ RowsOf(t) # {} /\ events' = events \cup {t}
              /\ \/ request' = request
                 \/ \E d \in Stages : Goes(r, d) /\ d.at = "distribute"
<1>1. t \in Nat /\ Len(rows) \in Nat /\ \A i \in DOMAIN rows : i \in Nat
    BY DEF PurchasesTyped, Txs
<1>2. CASE RowsOf(t) = {}
    <2> DEFINE d == [at |-> "activate", tx |-> t, seen |-> Len(rows)]
    <2>1. d \in Stages /\ d.at = "activate" /\ d.tx = t /\ d.seen = Len(rows)
        BY <1>1, StagesIn
    <2>2. Goes(r, d) /\ events' = events
        BY <1>2 DEF TakeEvent
    <2> QED
        BY <1>2, <2>1, <2>2
<1>3. CASE RowsOf(t) # {}
    <2>1. events' = events \cup {t}
        BY <1>3 DEF TakeEvent, Store
    <2>2. CASE t = 1
        <3>1. PICK i \in RowsOf(t) : Goes(r, [at |-> "distribute", row |-> i])
            BY <1>3, <2>2 DEF TakeEvent
        <3>2. i \in Nat
            BY <1>1 DEF RowsOf, OnChain
        <3>3. [at |-> "distribute", row |-> i] \in Stages
            BY <3>2, StagesIn
        <3> QED
            BY <1>3, <2>1, <3>1, <3>3
    <2>3. CASE t # 1
        BY <1>3, <2>1, <2>3 DEF TakeEvent
    <2> QED
        BY <2>2, <2>3
<1> QED
    BY <1>2, <1>3

LEMMA LookMoves ==
    ASSUME PurchasesTyped, NEW r \in Requests, LookForRow(r)
    PROVE  \E d \in Stages :
               /\ Goes(r, d)
               /\ \/ RowsOf(1) = {} /\ d.at = "ensure" /\ d.seen = Len(rows)
                  \/ d.at = "mirror"
<1>1. request[r].at = "look" /\ Len(rows) \in Nat /\ \A i \in DOMAIN rows : i \in Nat
    BY DEF LookForRow, At, PurchasesTyped
<1>2. request[r].then \in Afterwards
    BY <1>1, CallFields
<1> DEFINE known == IF RowsOf(1) # {} THEN RowsOf(1) ELSE Unbooked
<1>3. CASE known = {}
    <2> DEFINE d == [at |-> "ensure", then |-> request[r].then, seen |-> Len(rows)]
    <2>1. d \in Stages /\ d.at = "ensure" /\ d.seen = Len(rows)
        BY <1>1, <1>2, StagesIn
    <2>2. Goes(r, d) /\ RowsOf(1) = {}
        BY <1>3 DEF LookForRow
    <2> QED
        BY <2>1, <2>2
<1>4. CASE known # {}
    <2>1. PICK i \in known :
              Goes(r, [at |-> "mirror", then |-> request[r].then, todo |-> {i}])
        BY <1>4 DEF LookForRow
    <2>2. {i} \in SUBSET Nat
        BY <1>1, <2>1 DEF RowsOf, Unbooked, OnChain
    <2>3. [at |-> "mirror", then |-> request[r].then, todo |-> {i}] \in Stages
        BY <1>2, <2>2, StagesIn
    <2> QED
        BY <2>1, <2>3
<1> QED
    BY <1>3, <1>4

\* The stages in which a call looks for a row or creates one.
Quietly(d) == d.at \notin {"activate", "ensure", "compare", "clear", "create"}

LEMMA MirrorMoves ==
    ASSUME PurchasesTyped, NEW r \in Requests,
           SignUp(r) \/ Visit(r) \/ ListRows(r) \/ MirrorRow(r) \/ Mirrored(r) \/ Distribute(r) \/ Fail(r)
    PROVE  \E d \in Stages : Goes(r, d) /\ Quietly(d)
<1>1. /\ "stop" \in Afterwards /\ "list" \in Afterwards /\ Unbooked \in SUBSET Nat
      /\ Idle \in Stages /\ Quietly(Idle)
    BY StagesIn DEF Afterwards, Unbooked, OnChain, PurchasesTyped, Quietly
<1>2. CASE SignUp(r)
    BY <1>1, <1>2, StagesIn DEF SignUp, Quietly
<1>3. CASE Visit(r)
    <2>1. PICK from \in {"look", "list"} : Goes(r, [at |-> from, then |-> "list"])
        BY <1>3 DEF Visit
    <2>2. [at |-> from, then |-> "list"] \in Stages /\ Quietly([at |-> from, then |-> "list"])
        BY <1>1, <2>1, StagesIn DEF Quietly
    <2> QED
        BY <2>1, <2>2
<1>4. CASE ListRows(r)
    BY <1>1, <1>4, StagesIn DEF ListRows, Quietly
<1>5. CASE MirrorRow(r)
    <2>1. request[r] \in [at : {"mirror"}, then : Afterwards, todo : SUBSET Nat]
        BY <1>5, CallFields DEF MirrorRow, At
    <2>2. PICK i \in request[r].todo : Goes(r, [request[r] EXCEPT !.todo = @ \ {i}])
        BY <1>5 DEF MirrorRow
    <2> DEFINE d == [request[r] EXCEPT !.todo = @ \ {i}]
    <2>3. /\ d \in [at : {"mirror"}, then : Afterwards, todo : SUBSET Nat]
          /\ d.at = "mirror"
        BY <2>1
    <2>4. d \in Stages /\ Quietly(d)
        <3> HIDE DEF d
        <3> QED
            BY <2>3 DEF Stages, Quietly
    <2> QED
        BY <2>2, <2>4
<1>6. CASE Mirrored(r)
    BY <1>1, <1>6, StagesIn DEF Mirrored, Quietly
<1>7. CASE Distribute(r)
    BY <1>1, <1>7 DEF Distribute
<1>8. CASE Fail(r)
    BY <1>1, <1>8 DEF Fail
<1> QED
    BY <1>2, <1>3, <1>4, <1>5, <1>6, <1>7, <1>8

LEMMA CopyMoves ==
    ASSUME PurchasesTyped, ChainHolds, NEW r \in Requests
    PROVE  /\ ReadChain(r) => \E d \in Stages :
                  /\ Goes(r, d) /\ d.at = "compare"
                  /\ d.upTo \in DOMAIN bought /\ d.package = bought[d.upTo]
           /\ \A stage \in {"clear", "create"} :
                  (Moves(r, stage) /\ request[r].at \in {"compare", "clear"}) =>
                      \E d \in Stages :
                          /\ Goes(r, d) /\ d.at = stage
                          /\ d.upTo \in DOMAIN bought /\ d.package = bought[d.upTo]
<1>1. ASSUME ReadChain(r)
      PROVE  \E d \in Stages : /\ Goes(r, d) /\ d.at = "compare"
                               /\ d.upTo \in DOMAIN bought /\ d.package = bought[d.upTo]
    <2> DEFINE d == [at |-> "compare", package |-> ChainPackage, upTo |-> Len(bought)]
    <2>1. /\ Len(bought) \in DOMAIN bought /\ ChainPackage = bought[Len(bought)]
          /\ ChainPackage \in Packages /\ Len(bought) \in Nat
        BY <1>1 DEF ReadChain, ChainPackage, Last, PurchasesTyped
    <2>2. d \in Stages /\ d.at = "compare" /\ d.upTo = Len(bought) /\ d.package = ChainPackage
        BY <2>1, StagesIn
    <2>3. Goes(r, d)
        BY <1>1 DEF ReadChain
    <2> QED
        BY <2>1, <2>2, <2>3
<1>2. ASSUME NEW stage \in {"clear", "create"}, Moves(r, stage),
             request[r].at \in {"compare", "clear"}
      PROVE  \E d \in Stages : /\ Goes(r, d) /\ d.at = stage
                               /\ d.upTo \in DOMAIN bought /\ d.package = bought[d.upTo]
    <2>1. request[r] \in [at : {"compare", "clear", "create"}, package : Packages, upTo : Nat]
        BY <1>2, CallFields
    <2>2. request[r].upTo \in DOMAIN bought /\ request[r].package = bought[request[r].upTo]
        BY <1>2 DEF ChainHolds
    <2> DEFINE d == [request[r] EXCEPT !.at = stage]
    <2>3. /\ d \in [at : {"compare", "clear", "create"}, package : Packages, upTo : Nat]
          /\ d.at = stage /\ d.upTo = request[r].upTo /\ d.package = request[r].package
        BY <2>1
    <2>4. Goes(r, d)
        BY <1>2 DEF Moves
    <2> HIDE DEF d
    <2>5. d \in Stages
        BY <2>3 DEF Stages
    <2> QED
        BY <2>2, <2>3, <2>4, <2>5
<1> QED
    BY <1>1, <1>2

LEMMA CreatesGrows ==
    ASSUME PurchasesTyped, NEW r \in Requests, NEW row \in Rows, Creates(r, row)
    PROVE  /\ Grows(row)
           /\ request[r].seen = Len(rows) => \A i \in DOMAIN rows : ~rows'[i].current
<1>1. PICK seen \in request[r].seen .. Len(rows) : rows' = Append(Cleared(seen), row)
    BY DEF Creates
<1>2. rows \in Seq(Rows) /\ Len(rows) \in Nat /\ \A i \in DOMAIN rows : i <= Len(rows)
    BY DEF PurchasesTyped
<1>3. Grows(row) /\ \A i \in DOMAIN rows : i <= seen => ~rows'[i].current
    BY <1>1, <1>2, AppendGrows
<1>4. request[r].seen = Len(rows) => seen = Len(rows)
    BY <1>1, <1>2
<1> QED
    BY <1>2, <1>3, <1>4

\* What the steps that create a row do.
LEMMA ActivateMoves ==
    ASSUME PurchasesTyped, ChainHolds, NEW r \in Requests, Activate(r)
    PROVE  LET t == request[r].tx
               row == Row(bought[t], t, TRUE, "event") IN
           /\ t \in DOMAIN bought /\ t \in Nat
           /\ row \in Rows /\ row.package = bought[t] /\ row.tx = t /\ row.onChain
           /\ row.by = "event" /\ row.current
           /\ Creates(r, row) /\ Grows(row) /\ events' = events \cup {t}
           /\ request[r].seen = Len(rows) => \A i \in DOMAIN rows : ~rows'[i].current
           /\ \E d \in Stages : Goes(r, d) /\ Quietly(d)
<1> DEFINE t == request[r].tx
           row == Row(bought[t], t, TRUE, "event")
<1>1. request[r].at = "activate" /\ Creates(r, row) /\ events' = events \cup {t}
    BY DEF Activate, At, Store
<1>2. t \in DOMAIN bought /\ t \in Nat /\ bought[t] \in Packages
    BY <1>1 DEF ChainHolds, PurchasesTyped
<1>3. /\ row \in Rows /\ row.package = bought[t] /\ row.tx = t /\ row.onChain
      /\ row.by = "event" /\ row.current
    BY <1>2 DEF Row, Rows
<1>4. Grows(row) /\ (request[r].seen = Len(rows) => \A i \in DOMAIN rows : ~rows'[i].current)
    <2> HIDE DEF row
    <2> QED
        BY <1>1, <1>3, CreatesGrows
<1>5. \E d \in Stages : Goes(r, d) /\ Quietly(d)
    <2> DEFINE d == [at |-> "distribute", row |-> Len(rows) + 1]
    <2>1. Len(rows) + 1 \in Nat
        BY DEF PurchasesTyped
    <2>2. d \in Stages /\ Quietly(d) /\ Goes(r, d)
        BY <2>1, StagesIn DEF Activate, Quietly
    <2> QED
        BY <2>2
<1> QED
    BY <1>1, <1>2, <1>3, <1>4, <1>5

LEMMA EnsureMoves ==
    ASSUME PurchasesTyped, NEW r \in Requests, Ensure(r)
    PROVE  LET row == Row(1, 1, TRUE, "signup") IN
           /\ row \in Rows /\ row.package = 1 /\ row.tx = 1 /\ row.onChain
           /\ row.by = "signup" /\ row.current
           /\ Creates(r, row) /\ Grows(row) /\ events' = events
           /\ request[r].seen = Len(rows) => \A i \in DOMAIN rows : ~rows'[i].current
           /\ \E d \in Stages : Goes(r, d) /\ Quietly(d)
<1> DEFINE row == Row(1, 1, TRUE, "signup")
<1>1. request[r].at = "ensure" /\ Creates(r, row) /\ events' = events
    BY DEF Ensure, At
<1>2. 1 \in Packages
    BY PackagesAssumption
<1>3. /\ row \in Rows /\ row.package = 1 /\ row.tx = 1 /\ row.onChain
      /\ row.by = "signup" /\ row.current
    BY <1>2 DEF Row, Rows
<1>4. Grows(row) /\ (request[r].seen = Len(rows) => \A i \in DOMAIN rows : ~rows'[i].current)
    <2> HIDE DEF row
    <2> QED
        BY <1>1, <1>3, CreatesGrows
<1>5. \E d \in Stages : Goes(r, d) /\ Quietly(d)
    <2> DEFINE d == [at |-> "mirror", then |-> request[r].then, todo |-> {Len(rows) + 1}]
    <2>1. {Len(rows) + 1} \in SUBSET Nat /\ request[r].then \in Afterwards
        BY <1>1, CallFields DEF PurchasesTyped
    <2>2. d \in Stages /\ Quietly(d) /\ Goes(r, d)
        BY <2>1, StagesIn DEF Ensure, Quietly
    <2> QED
        BY <2>2
<1> QED
    BY <1>1, <1>3, <1>4, <1>5

LEMMA CreateCopyMoves ==
    ASSUME PurchasesTyped, ChainHolds, NEW r \in Requests, CreateCopy(r)
    PROVE  LET upTo == request[r].upTo
               row == Row(request[r].package, NoTx, TRUE, "copy") IN
           /\ upTo \in DOMAIN bought /\ synced' = upTo
           /\ row \in Rows /\ row.package = bought[upTo] /\ row.tx = 0 /\ row.by = "copy" /\ row.current
           /\ Grows(row) /\ (\A i \in DOMAIN rows : rows'[i] = rows[i])
           /\ missed' = (missed \/ Deciding \ {r} # {})
           /\ request[r].at = "create" /\ Goes(r, Idle) /\ events' = events
<1> DEFINE upTo == request[r].upTo
           row == Row(request[r].package, NoTx, TRUE, "copy")
<1>1. /\ request[r].at = "create" /\ rows' = Append(rows, row) /\ synced' = upTo
      /\ missed' = (missed \/ Deciding \ {r} # {}) /\ Goes(r, Idle) /\ events' = events
    BY DEF CreateCopy, At
<1>2. upTo \in DOMAIN bought /\ request[r].package = bought[upTo]
    BY <1>1 DEF ChainHolds
<1>3. request[r].package \in Packages /\ rows \in Seq(Rows)
    BY <1>2 DEF PurchasesTyped
<1>4. /\ row \in Rows /\ row.package = bought[upTo] /\ row.tx = 0 /\ row.by = "copy" /\ row.current
    BY <1>2, <1>3 DEF NoTx, Row, Rows
<1>5. Grows(row) /\ (\A i \in DOMAIN rows : rows'[i] = rows[i])
    <2> HIDE DEF row
    <2> QED
        BY <1>1, <1>3, <1>4, PlainGrows
<1> QED
    BY <1>1, <1>2, <1>4, <1>5

LEMMA GrantMoves ==
    ASSUME PurchasesTyped, Grant
    PROVE  \E row \in Rows :
               /\ row.tx = 0 /\ row.by = "admin" /\ Grows(row)
               /\ request' = request /\ events' = events /\ bought' = bought /\ synced' = synced
               /\ missed' = (missed \/ Deciding # {}) /\ grants' = grants + 1
               /\ failures' = failures /\ account' = account /\ account # "none"
<1>1. PICK p \in Packages : rows' = Append(Cleared(Len(rows)), Row(p, NoTx, FALSE, "admin"))
    BY DEF Grant
<1> DEFINE row == Row(p, NoTx, FALSE, "admin")
<1>2. row \in Rows /\ row.tx = 0 /\ row.by = "admin"
    BY DEF NoTx, Row, Rows
<1>3. rows \in Seq(Rows) /\ rows' = Append(Cleared(Len(rows)), row)
    BY <1>1 DEF PurchasesTyped
<1> HIDE DEF row
<1>4. Grows(row)
    BY <1>2, <1>3, AppendGrows
<1> QED
    BY <1>2, <1>4 DEF Grant

\* A step that creates no row, looks for none and copies nothing.
QuietMove ==
    /\ bought' = bought /\ events' = events /\ synced' = synced
    /\ missed' = missed /\ grants' = grants
    /\ failures' = failures \/ failures' = failures + 1
    /\ InPlace /\ \A i \in DOMAIN rows : rows'[i].current = rows[i].current
    /\ account' = account \/ account' # "none"
    /\ \/ request' = request
       \/ /\ account' # "none"
          /\ \E r \in Requests, d \in Stages :
                 /\ Goes(r, d) /\ Quietly(d)
                 /\ failures' = failures => request[r].at # "create"

LEMMA MirrorsQuietly ==
    ASSUME PurchasesTyped, ChainHolds, NEW r \in Requests,
           SignUp(r) \/ Visit(r) \/ ListRows(r) \/ MirrorRow(r) \/ Mirrored(r) \/ Distribute(r) \/ Fail(r)
    PROVE  QuietMove
<1>1. PICK d \in Stages : Goes(r, d) /\ Quietly(d)
    BY MirrorMoves
<1>2. rows \in Seq(Rows)
    BY DEF PurchasesTyped
<1>3. InPlace /\ \A i \in DOMAIN rows : rows'[i].current = rows[i].current
    <2>1. CASE rows' = rows
        BY <1>2, <2>1, SameRows
    <2>2. CASE MirrorRow(r)
        BY <1>2, <2>2, MirrorInPlace DEF MirrorRow
    <2>3. CASE Distribute(r)
        BY <1>2, <2>3, BookInPlace DEF Distribute
    <2> QED
        BY <2>1, <2>2, <2>3 DEF SignUp, Visit, ListRows, Mirrored, Fail
<1>4. account' # "none"
    <2>1. request[r].at # "idle" => account # "none"
        BY DEF ChainHolds
    <2> QED
        BY <2>1 DEF SignUp, Visit, ListRows, MirrorRow, Mirrored, Distribute, Fail, At
<1>5. failures' = failures => request[r].at # "create"
    <2>1. failures \in Nat
        BY DEF PurchasesTyped
    <2> QED
        BY <2>1 DEF SignUp, Visit, ListRows, MirrorRow, Mirrored, Distribute, Fail, At
<1>6. /\ bought' = bought /\ events' = events /\ synced' = synced
      /\ missed' = missed /\ grants' = grants
      /\ failures' = failures \/ failures' = failures + 1
    BY DEF SignUp, Visit, ListRows, MirrorRow, Mirrored, Distribute, Fail
<1> QED
    BY <1>1, <1>3, <1>4, <1>5, <1>6 DEF QuietMove

LEMMA ActivationSteps ==
    ASSUME PurchasesTyped, ChainHolds, [ActivationsNext]_activationVars
    PROVE  \/ QuietMove \/ Buy \/ Grant
           \/ \E t \in Txs : SkipEvent(t)
           \/ \E r \in Requests :
                  \/ \E t \in Txs : TakeEvent(r, t)
                  \/ Activate(r) \/ LookForRow(r) \/ Ensure(r)
                  \/ ReadChain(r) \/ Compare(r) \/ ClearCurrent(r) \/ CreateCopy(r)
<1>1. rows \in Seq(Rows)
    BY DEF PurchasesTyped
<1>2. CASE UNCHANGED activationVars
    BY <1>1, <1>2, SameRows DEF QuietMove, activationVars
<1>3. CASE Recover
    BY <1>1, <1>3, SameRows DEF QuietMove, Recover
<1>4. ASSUME NEW r \in Requests, Index(r) \/ Mirrors(r) \/ Copy(r) \/ Fail(r)
      PROVE  \/ QuietMove
             \/ \E t \in Txs : TakeEvent(r, t)
             \/ Activate(r) \/ LookForRow(r) \/ Ensure(r)
             \/ ReadChain(r) \/ Compare(r) \/ ClearCurrent(r) \/ CreateCopy(r)
    BY <1>4, MirrorsQuietly DEF Index, Mirrors, Copy
<1> QED
    BY <1>2, <1>3, <1>4 DEF ActivationsNext

\* Everything but the rows and the stages stays as it was.
LEMMA TypedMoves ==
    ASSUME PurchasesTyped, bought' = bought, events' \subseteq DOMAIN bought,
           rows' \in Seq(Rows), request' \in [Requests -> Stages],
           synced' \in Nat, synced' <= Len(bought), failures' \in Nat, grants' \in Nat
    PROVE  PurchasesTyped'
    BY DEF PurchasesTyped

LEMMA PurchasesStep ==
    ASSUME PurchasesTyped, ChainHolds, [ActivationsNext]_activationVars
    PROVE  PurchasesTyped'
<1>1. /\ bought \in Seq(Packages) /\ events \subseteq DOMAIN bought
      /\ rows \in Seq(Rows) /\ request \in [Requests -> Stages]
      /\ synced \in Nat /\ synced <= Len(bought) /\ Len(bought) \in Nat
      /\ failures \in Nat /\ grants \in Nat /\ DOMAIN bought = 1 .. Len(bought)
    BY DEF PurchasesTyped
<1>2. CASE QuietMove
    <2>1. request' \in [Requests -> Stages]
        BY <1>1, <1>2, GoesTyped DEF QuietMove
    <2> QED
        BY <1>1, <1>2, <2>1, TypedMoves DEF QuietMove, InPlace
<1>3. CASE Buy
    <2>1. PICK p \in Packages : bought' = Append(bought, p)
        BY <1>3 DEF Buy
    <2>2. bought' \in Seq(Packages) /\ DOMAIN bought \subseteq DOMAIN bought' /\ Len(bought') = Len(bought) + 1
        BY <1>1, <2>1
    <2>3. UNCHANGED <<events, rows, request, synced, failures, grants>>
        BY <1>3 DEF Buy
    <2> QED
        BY <1>1, <2>2, <2>3 DEF PurchasesTyped
<1>4. CASE Grant
    BY <1>1, <1>4, GrantMoves, TypedMoves DEF Grows
<1>5. ASSUME NEW t \in Txs, SkipEvent(t) PROVE PurchasesTyped'
    BY <1>1, <1>5, TypedMoves DEF SkipEvent, Store, Txs
<1>6. ASSUME NEW r \in Requests, NEW t \in Txs, TakeEvent(r, t) PROVE PurchasesTyped'
    <2>1. request' \in [Requests -> Stages] /\ events' \subseteq DOMAIN bought
        BY <1>1, <1>6, TakeEventMoves, GoesTyped DEF Txs
    <2> QED
        BY <1>1, <1>6, <2>1, TypedMoves DEF TakeEvent
<1>7. ASSUME NEW r \in Requests, Activate(r) PROVE PurchasesTyped'
    <2>1. /\ request' \in [Requests -> Stages] /\ events' \subseteq DOMAIN bought
          /\ rows' \in Seq(Rows)
        BY <1>1, <1>7, ActivateMoves, GoesTyped DEF Grows
    <2> QED
        BY <1>1, <1>7, <2>1, TypedMoves DEF Activate
<1>8. ASSUME NEW r \in Requests, LookForRow(r) PROVE PurchasesTyped'
    <2>1. request' \in [Requests -> Stages]
        BY <1>8, LookMoves, GoesTyped
    <2> QED
        BY <1>1, <1>8, <2>1, TypedMoves DEF LookForRow
<1>9. ASSUME NEW r \in Requests, Ensure(r) PROVE PurchasesTyped'
    <2>1. request' \in [Requests -> Stages] /\ rows' \in Seq(Rows)
        BY <1>9, EnsureMoves, GoesTyped DEF Grows
    <2> QED
        BY <1>1, <1>9, <2>1, TypedMoves DEF Ensure
<1>10. ASSUME NEW r \in Requests, ReadChain(r) PROVE PurchasesTyped'
    <2>1. request' \in [Requests -> Stages]
        BY <1>10, CopyMoves, GoesTyped
    <2> QED
        BY <1>1, <1>10, <2>1, TypedMoves DEF ReadChain
<1>11. ASSUME NEW r \in Requests, Compare(r) PROVE PurchasesTyped'
    <2>1. request[r].at = "compare"
        BY <1>11 DEF Compare, At
    <2>2. request[r].upTo \in DOMAIN bought
        BY <2>1 DEF ChainHolds
    <2>3. request' \in [Requests -> Stages]
        <3>1. CASE Goes(r, Idle)
            BY <3>1, StagesIn, GoesTyped
        <3>2. CASE Moves(r, "clear")
            BY <2>1, <3>2, CopyMoves, GoesTyped
        <3> QED
            BY <1>11, <3>1, <3>2 DEF Compare
    <2>4. synced' \in Nat /\ synced' <= Len(bought)
        BY <1>1, <1>11, <2>2 DEF Compare
    <2> QED
        BY <1>1, <1>11, <2>3, <2>4, TypedMoves DEF Compare
<1>12. ASSUME NEW r \in Requests, ClearCurrent(r) PROVE PurchasesTyped'
    <2>1. request[r].at = "clear" /\ Moves(r, "create") /\ rows' = Cleared(Len(rows))
        BY <1>12 DEF ClearCurrent, At
    <2>2. request' \in [Requests -> Stages]
        BY <2>1, CopyMoves, GoesTyped
    <2>3. rows' \in Seq(Rows)
        BY <1>1, <2>1, ClearInPlace DEF InPlace
    <2> QED
        BY <1>1, <1>12, <2>2, <2>3, TypedMoves DEF ClearCurrent
<1>13. ASSUME NEW r \in Requests, CreateCopy(r) PROVE PurchasesTyped'
    <2>1. /\ request[r].upTo \in DOMAIN bought /\ synced' = request[r].upTo
          /\ rows' \in Seq(Rows) /\ Goes(r, Idle)
        BY <1>13, CreateCopyMoves DEF Grows
    <2>2. request' \in [Requests -> Stages]
        BY <2>1, StagesIn, GoesTyped
    <2> QED
        BY <1>1, <1>13, <2>1, <2>2, TypedMoves DEF CreateCopy
<1> QED
    BY <1>2, <1>3, <1>4, <1>5, <1>6, <1>7, <1>8, <1>9, <1>10, <1>11, <1>12, <1>13, ActivationSteps

LEMMA ChainMoves ==
    ASSUME PurchasesTyped, ChainHolds, bought' = bought, events \subseteq events',
           \A t \in events' : \A s \in 1 .. (t - 1) : s \in events',
           account' # "none", NEW r \in Requests, NEW d \in Stages, Goes(r, d),
           d.at = "activate" => d.tx \in DOMAIN bought /\ \A s \in 1 .. (d.tx - 1) : s \in events',
           d.at \in {"compare", "clear", "create"} =>
               d.upTo \in DOMAIN bought /\ d.package = bought[d.upTo]
    PROVE  ChainHolds'
<1>1. request'[r] = d /\ \A o \in Requests \ {r} : request'[o] = request[o]
    BY GoesTyped
<1>2. \A o \in Requests : request'[o].at = "activate" =>
          /\ request'[o].tx \in DOMAIN bought'
          /\ \A s \in 1 .. (request'[o].tx - 1) : s \in events'
    <2> SUFFICES ASSUME NEW o \in Requests, request'[o].at = "activate"
                 PROVE  /\ request'[o].tx \in DOMAIN bought'
                        /\ \A s \in 1 .. (request'[o].tx - 1) : s \in events'
        OBVIOUS
    <2>1. CASE o = r
        BY <1>1, <2>1
    <2>2. CASE o # r
        BY <1>1, <2>2 DEF ChainHolds
    <2> QED
        BY <2>1, <2>2
<1>3. \A o \in Requests : request'[o].at \in {"compare", "clear", "create"} =>
          request'[o].upTo \in DOMAIN bought' /\ request'[o].package = bought'[request'[o].upTo]
    <2> SUFFICES ASSUME NEW o \in Requests, request'[o].at \in {"compare", "clear", "create"}
                 PROVE  /\ request'[o].upTo \in DOMAIN bought'
                        /\ request'[o].package = bought'[request'[o].upTo]
        OBVIOUS
    <2>1. CASE o = r
        BY <1>1, <2>1
    <2>2. CASE o # r
        BY <1>1, <2>2 DEF ChainHolds
    <2> QED
        BY <2>1, <2>2
<1> QED
    BY <1>2, <1>3 DEF ChainHolds

LEMMA NextEventClosed ==
    ASSUME PurchasesTyped, ChainHolds, NEW t \in DOMAIN bought,
           \A s \in 1 .. (t - 1) : s \in events
    PROVE  \A e \in events \cup {t} : \A s \in 1 .. (e - 1) : s \in events \cup {t}
    BY DEF ChainHolds

LEMMA ChainStep ==
    ASSUME PurchasesTyped, ChainHolds, [ActivationsNext]_activationVars
    PROVE  ChainHolds'
<1>1. /\ bought \in Seq(Packages) /\ events \subseteq DOMAIN bought /\ rows \in Seq(Rows)
      /\ Len(bought) \in Nat /\ DOMAIN bought = 1 .. Len(bought)
      /\ \A e \in events : \A s \in 1 .. (e - 1) : s \in events
      /\ \A r \in Requests : request[r].at # "idle" => account # "none"
    BY DEF PurchasesTyped, ChainHolds
<1>2. CASE QuietMove
    <2>1. CASE request' = request
        <3>1. account' = "none" => rows' = <<>>
            <4>1. rows = <<>> => rows' = <<>>
                BY <1>1, <1>2 DEF QuietMove, InPlace
            <4> QED
                BY <1>2, <4>1 DEF QuietMove, ChainHolds
        <3>2. account' = "none" => account = "none"
            BY <1>2 DEF QuietMove
        <3> QED
            BY <1>2, <2>1, <3>1, <3>2 DEF QuietMove, ChainHolds
    <2>2. CASE account' # "none" /\ \E r \in Requests, d \in Stages : Goes(r, d) /\ Quietly(d)
        BY <1>1, <1>2, <2>2, ChainMoves DEF QuietMove, Quietly
    <2> QED
        BY <1>2, <2>1, <2>2 DEF QuietMove
<1>3. CASE Buy
    <2>1. PICK p \in Packages : bought' = Append(bought, p)
        BY <1>3 DEF Buy
    <2>2. /\ DOMAIN bought' = DOMAIN bought \cup {Len(bought) + 1}
          /\ \A k \in DOMAIN bought : bought'[k] = bought[k]
        BY <1>1, <2>1
    <2>3. UNCHANGED <<account, events, rows, request>>
        BY <1>3 DEF Buy
    <2> QED
        BY <2>2, <2>3 DEF ChainHolds
<1>4. CASE Grant
    BY <1>4, GrantMoves DEF ChainHolds
<1>5. ASSUME NEW t \in Txs, SkipEvent(t) PROVE ChainHolds'
    <2>1. /\ t \in DOMAIN bought /\ \A s \in 1 .. (t - 1) : s \in events
          /\ events' = events \cup {t} /\ UNCHANGED <<bought, account, rows, request>>
        BY <1>5 DEF SkipEvent, Store, NextEvent, Txs
    <2>2. \A e \in events' : \A s \in 1 .. (e - 1) : s \in events'
        BY <2>1, NextEventClosed
    <2> QED
        BY <2>1, <2>2 DEF ChainHolds
<1>6. ASSUME NEW r \in Requests, NEW t \in Txs, TakeEvent(r, t) PROVE ChainHolds'
    <2>1. /\ t \in DOMAIN bought /\ \A s \in 1 .. (t - 1) : s \in events
          /\ account # "none" /\ UNCHANGED <<bought, account, rows>>
        BY <1>6 DEF TakeEvent, NextEvent, Txs
    <2>2. \A e \in events \cup {t} : \A s \in 1 .. (e - 1) : s \in events \cup {t}
        BY <2>1, NextEventClosed
    <2>3. CASE /\ events' = events
               /\ \E d \in Stages : /\ Goes(r, d) /\ d.at = "activate" /\ d.tx = t
        <3>1. PICK d \in Stages : Goes(r, d) /\ d.at = "activate" /\ d.tx = t
            BY <2>3
        <3>2. events \subseteq events' /\ \A e \in events' : \A s \in 1 .. (e - 1) : s \in events'
            BY <1>1, <2>3
        <3> QED
            BY <2>1, <2>3, <3>1, <3>2, ChainMoves
    <2>4. CASE events' = events \cup {t} /\ request' = request
        BY <2>1, <2>2, <2>4 DEF ChainHolds
    <2>5. CASE /\ events' = events \cup {t}
               /\ \E d \in Stages : Goes(r, d) /\ d.at = "distribute"
        <3>1. PICK d \in Stages : Goes(r, d) /\ d.at = "distribute"
            BY <2>5
        <3>2. events \subseteq events' /\ \A e \in events' : \A s \in 1 .. (e - 1) : s \in events'
            BY <2>2, <2>5
        <3> QED
            BY <2>1, <3>1, <3>2, ChainMoves
    <2> QED
        BY <1>6, <2>3, <2>4, <2>5, TakeEventMoves
<1>7. ASSUME NEW r \in Requests, Activate(r) PROVE ChainHolds'
    <2> DEFINE t == request[r].tx
    <2>1. /\ t \in DOMAIN bought /\ events' = events \cup {t}
          /\ request[r].at = "activate" /\ UNCHANGED <<bought, account>>
        BY <1>7 DEF Activate, At, ChainHolds, Store
    <2>2. \A s \in 1 .. (t - 1) : s \in events
        BY <2>1 DEF ChainHolds
    <2>3. PICK d \in Stages : Goes(r, d) /\ Quietly(d)
        BY <1>7, ActivateMoves
    <2> HIDE DEF t
    <2>4. events \subseteq events' /\ \A e \in events' : \A s \in 1 .. (e - 1) : s \in events'
        BY <2>1, <2>2, NextEventClosed
    <2>5. account' # "none"
        BY <1>1, <2>1
    <2> QED
        BY <2>1, <2>3, <2>4, <2>5, ChainMoves DEF Quietly
<1>8. ASSUME NEW r \in Requests, LookForRow(r) PROVE ChainHolds'
    <2>1. PICK d \in Stages : Goes(r, d) /\ d.at \in {"ensure", "mirror"}
        BY <1>8, LookMoves
    <2>2. bought' = bought /\ events' = events /\ account' = account /\ request[r].at = "look"
        BY <1>8 DEF LookForRow, At
    <2>3. account' # "none" /\ \A e \in events' : \A s \in 1 .. (e - 1) : s \in events'
        BY <1>1, <2>2
    <2> QED
        BY <2>1, <2>2, <2>3, ChainMoves
<1>9. ASSUME NEW r \in Requests, Ensure(r) PROVE ChainHolds'
    <2>1. PICK d \in Stages : Goes(r, d) /\ Quietly(d)
        BY <1>9, EnsureMoves
    <2>2. bought' = bought /\ events' = events /\ account' = account /\ request[r].at = "ensure"
        BY <1>9 DEF Ensure, At
    <2>3. account' # "none" /\ \A e \in events' : \A s \in 1 .. (e - 1) : s \in events'
        BY <1>1, <2>2
    <2> QED
        BY <2>1, <2>2, <2>3, ChainMoves DEF Quietly
<1>10. ASSUME NEW r \in Requests, ReadChain(r) PROVE ChainHolds'
    <2>1. PICK d \in Stages : /\ Goes(r, d) /\ d.at = "compare"
                              /\ d.upTo \in DOMAIN bought /\ d.package = bought[d.upTo]
        BY <1>10, CopyMoves
    <2>2. bought' = bought /\ events' = events /\ account' = account /\ account # "none"
        BY <1>10 DEF ReadChain
    <2>3. \A e \in events' : \A s \in 1 .. (e - 1) : s \in events'
        BY <1>1, <2>2
    <2> QED
        BY <2>1, <2>2, <2>3, ChainMoves
<1>11. ASSUME NEW r \in Requests, Compare(r) \/ ClearCurrent(r) \/ CreateCopy(r) PROVE ChainHolds'
    <2>1. /\ request[r].at \in {"compare", "clear", "create"}
          /\ bought' = bought /\ events' = events /\ account' = account
          /\ Goes(r, Idle) \/ (request[r].at \in {"compare", "clear"} /\ \E stage \in {"clear", "create"} : Moves(r, stage))
        BY <1>11 DEF Compare, ClearCurrent, CreateCopy, At
    <2>2. account' # "none" /\ \A e \in events' : \A s \in 1 .. (e - 1) : s \in events'
        BY <1>1, <2>1
    <2>3. PICK d \in Stages : /\ Goes(r, d) /\ d.at # "activate"
                              /\ d.at \in {"compare", "clear", "create"} =>
                                     d.upTo \in DOMAIN bought /\ d.package = bought[d.upTo]
        <3>1. CASE Goes(r, Idle)
            BY <3>1, StagesIn
        <3>2. CASE /\ request[r].at \in {"compare", "clear"}
                   /\ \E stage \in {"clear", "create"} : Moves(r, stage)
            BY <3>2, CopyMoves
        <3> QED
            BY <2>1, <3>1, <3>2
    <2> QED
        BY <2>1, <2>2, <2>3, ChainMoves
<1> QED
    BY <1>2, <1>3, <1>4, <1>5, <1>6, <1>7, <1>8, <1>9, <1>10, <1>11, ActivationSteps

\* The sign-up names the entry; no other step begins to look for its row.
LEMMA EntryMoves ==
    ASSUME EntryHolds, bought' = bought,
           account' = account \/ (account = "none" /\ account' = "recovered"),
           \A o \in Requests :
               \/ request'[o] = request[o]
               \/ (request'[o].at \in {"look", "ensure"} => account = "signed")
    PROVE  EntryHolds'
<1>1. \A o \in Requests : request'[o].at \in {"look", "ensure"} => account = "signed"
    BY DEF EntryHolds
<1>2. account = "signed" => account' = "signed"
    OBVIOUS
<1>3. account' = "signed" => account = "signed"
    OBVIOUS
<1> QED
    BY <1>1, <1>2, <1>3 DEF EntryHolds

\* A call's next stage, on its own.
LEMMA GoesAlone ==
    ASSUME PurchasesTyped, NEW r \in Requests, NEW d, Goes(r, d)
    PROVE  request'[r] = d /\ \A o \in Requests : o # r => request'[o] = request[o]
    BY DEF Goes, PurchasesTyped

LEMMA EntryStep ==
    ASSUME PurchasesTyped, ChainHolds, EntryHolds, [ActivationsNext]_activationVars
    PROVE  EntryHolds'
<1>1. /\ bought \in Seq(Packages) /\ Len(bought) \in Nat /\ DOMAIN bought = 1 .. Len(bought)
      /\ \A k \in DOMAIN bought : bought[k] \in Nat
    <2>1. /\ bought \in Seq(Packages) /\ Len(bought) \in Nat /\ DOMAIN bought = 1 .. Len(bought)
          /\ \A k \in DOMAIN bought : bought[k] \in Packages
        BY DEF PurchasesTyped
    <2> QED
        BY <2>1, PackagesAssumption
<1>2. CASE UNCHANGED activationVars
    BY <1>2, EntryMoves DEF activationVars
<1>3. CASE Buy
    <2>1. PICK p \in Packages : bought' = Append(bought, p) /\ (bought # <<>> => p > ChainPackage)
        BY <1>3 DEF Buy
    <2>2. /\ p \in Nat /\ DOMAIN bought' = DOMAIN bought \cup {Len(bought) + 1}
          /\ bought'[Len(bought) + 1] = p /\ \A k \in DOMAIN bought : bought'[k] = bought[k]
          /\ bought' # <<>>
        BY <1>1, <2>1, PackagesAssumption
    <2>3. \A k \in DOMAIN bought' : bought'[k] >= bought'[1]
        <3>1. CASE bought = <<>>
            BY <2>2, <3>1
        <3>2. CASE bought # <<>>
            <4>1. /\ ChainPackage = bought[Len(bought)] /\ Len(bought) \in DOMAIN bought
                  /\ 1 \in DOMAIN bought
                BY <1>1, <3>2 DEF ChainPackage, Last
            <4>2. bought[Len(bought)] >= bought[1] /\ bought[Len(bought)] \in Nat /\ bought[1] \in Nat
                BY <1>1, <4>1 DEF EntryHolds
            <4>3. p >= bought[1]
                BY <2>1, <2>2, <3>2, <4>1, <4>2
            <4> QED
                BY <2>2, <4>1, <4>3 DEF EntryHolds
        <3> QED
            BY <3>1, <3>2
    <2>4. account' = account /\ request' = request
        BY <1>3 DEF Buy
    <2>5. account = "signed" => bought'[1] = 1
        BY <1>1, <2>2 DEF EntryHolds
    <2> QED
        BY <2>2, <2>3, <2>4, <2>5 DEF EntryHolds
<1>4. CASE Grant \/ Recover \/ \E t \in Txs : SkipEvent(t)
    BY <1>4, EntryMoves DEF Grant, Recover, SkipEvent
<1>5. ASSUME NEW r \in Requests, SignUp(r) PROVE EntryHolds'
    <2>1. account' = "signed" /\ bought' = bought /\ bought # <<>> /\ bought[1] = 1
        BY <1>5 DEF SignUp, PaidEntry
    <2> QED
        BY <2>1 DEF EntryHolds
<1>6. ASSUME NEW r \in Requests, Visit(r) PROVE EntryHolds'
    <2>1. PICK from \in IF account = "signed" THEN {"look", "list"} ELSE {"list"} :
              Goes(r, [at |-> from, then |-> "list"])
        BY <1>6 DEF Visit
    <2>2. request'[r].at \in {"look", "ensure"} => account = "signed"
        BY <2>1, GoesAlone
    <2>3. \A o \in Requests : o # r => request'[o] = request[o]
        BY <2>1, GoesAlone
    <2>4. bought' = bought /\ account' = account
        BY <1>6 DEF Visit
    <2> QED
        BY <2>2, <2>3, <2>4, EntryMoves
<1>7. ASSUME NEW r \in Requests, LookForRow(r) PROVE EntryHolds'
    <2>1. account = "signed" /\ bought' = bought /\ account' = account
        BY <1>7 DEF LookForRow, At, EntryHolds
    <2> QED
        BY <2>1, EntryMoves
<1>8. ASSUME NEW r \in Requests, NEW d \in Stages, Goes(r, d), bought' = bought,
             account' = account, d.at \notin {"look", "ensure"}
      PROVE  EntryHolds'
    <2>1. request'[r] = d /\ \A o \in Requests : o # r => request'[o] = request[o]
        BY <1>8, GoesAlone
    <2> QED
        BY <1>8, <2>1, EntryMoves
<1>9. ASSUME NEW r \in Requests, Index(r) PROVE EntryHolds'
    <2>1. CASE Activate(r)
        <3>1. PICK d \in Stages : Goes(r, d) /\ d.at = "distribute"
            <4>1. Len(rows) + 1 \in Nat
                BY DEF PurchasesTyped
            <4> QED
                BY <2>1, <4>1, StagesIn DEF Activate
        <3> QED
            BY <1>8, <2>1, <3>1 DEF Activate
    <2>2. CASE Distribute(r)
        BY <1>8, <2>2, StagesIn DEF Distribute
    <2>3. ASSUME NEW t \in Txs, TakeEvent(r, t) PROVE EntryHolds'
        <3>1. bought' = bought /\ account' = account
            BY <2>3 DEF TakeEvent
        <3>2. CASE request' = request
            BY <3>1, <3>2, EntryMoves
        <3>3. CASE \E d \in Stages : Goes(r, d) /\ d.at \in {"activate", "distribute"}
            BY <1>8, <3>1, <3>3
        <3> QED
            BY <2>3, <3>2, <3>3, TakeEventMoves
    <2> QED
        BY <1>9, <2>1, <2>2, <2>3 DEF Index
<1>10. ASSUME NEW r \in Requests,
              Ensure(r) \/ ListRows(r) \/ MirrorRow(r) \/ Mirrored(r) \/ Copy(r) \/ Fail(r)
       PROVE  EntryHolds'
    <2>1. bought' = bought /\ account' = account
        BY <1>10 DEF Ensure, ListRows, MirrorRow, Mirrored, Fail,
                     Copy, ReadChain, Compare, ClearCurrent, CreateCopy
    <2>2. \/ request' = request
          \/ request'[r].at \notin {"look", "ensure"} /\ \A o \in Requests : o # r => request'[o] = request[o]
        <3>1. CASE Ensure(r)
            BY <3>1, GoesAlone DEF Ensure
        <3>2. CASE ListRows(r)
            BY <3>2, GoesAlone DEF ListRows
        <3>3. CASE MirrorRow(r)
            <4>1. request[r].at = "mirror" /\ request[r] \in [at : {"mirror"}, then : Afterwards, todo : SUBSET Nat]
                BY <3>3, CallFields DEF MirrorRow, At
            <4>2. PICK i \in request[r].todo : Goes(r, [request[r] EXCEPT !.todo = @ \ {i}])
                BY <3>3 DEF MirrorRow
            <4>3. [request[r] EXCEPT !.todo = @ \ {i}].at = "mirror"
                BY <4>1
            <4> QED
                BY <4>2, <4>3, GoesAlone
        <3>4. CASE Mirrored(r)
            BY <3>4, GoesAlone DEF Mirrored, Idle
        <3>5. CASE ReadChain(r)
            BY <3>5, GoesAlone DEF ReadChain
        <3>6. CASE Compare(r) \/ ClearCurrent(r)
            <4>1. Goes(r, Idle) \/ \E stage \in {"clear", "create"} : Moves(r, stage)
                BY <3>6 DEF Compare, ClearCurrent
            <4>2. request[r].at \in {"compare", "clear"}
                BY <3>6 DEF Compare, ClearCurrent, At
            <4>3. ASSUME NEW stage \in {"clear", "create"}, Moves(r, stage)
                  PROVE  \E d \in Stages : Goes(r, d) /\ d.at = stage
                BY <4>2, <4>3, CopyMoves
            <4> QED
                BY <4>1, <4>3, GoesAlone DEF Idle
        <3>7. CASE CreateCopy(r) \/ Fail(r)
            <4>1. Goes(r, Idle)
                BY <3>7 DEF CreateCopy, Fail
            <4> QED
                BY <4>1, GoesAlone DEF Idle
        <3> QED
            BY <1>10, <3>1, <3>2, <3>3, <3>4, <3>5, <3>6, <3>7 DEF Copy
    <2> QED
        BY <2>1, <2>2, EntryMoves
<1> QED
    BY <1>2, <1>3, <1>4, <1>5, <1>6, <1>7, <1>9, <1>10 DEF ActivationsNext, Mirrors

\* What is known of the rows stays, and holds of one that is added.
LEMMA KnownInPlace ==
    ASSUME PurchasesTyped, RowsKnown, InPlace, events \subseteq events',
           \A k \in DOMAIN bought : bought'[k] = bought[k]
    PROVE  RowsKnown'
<1> SUFFICES ASSUME NEW i \in DOMAIN rows
             PROVE  /\ rows'[i].by = "event" =>
                           rows'[i].tx \in events' /\ rows'[i].package = bought'[rows'[i].tx]
                    /\ rows'[i].by = "signup" => rows'[i].tx = 1 /\ rows'[i].package = 1
                    /\ rows'[i].by \in {"event", "signup"} => rows'[i].onChain
                    /\ rows'[i].by \in {"copy", "admin"} =>
                           rows'[i].tx = 0 \/ (rows'[i].tx = 1 /\ 1 \in events')
    BY DEF RowsKnown, InPlace
<1>1. KeepsRow(i)
    BY DEF InPlace
<1>2. events \subseteq DOMAIN bought /\ \A e \in events : e # 0
    BY DEF PurchasesTyped
<1>3. rows[i].by \in {"event", "signup", "copy", "admin"} /\ rows[i].tx \in Nat
    BY RowType DEF PurchasesTyped, Rows
<1> QED
    BY <1>1, <1>2, <1>3 DEF RowsKnown, KeepsRow

LEMMA KnownGrows ==
    ASSUME PurchasesTyped, RowsKnown, NEW row \in Rows, Grows(row),
           events \subseteq events', bought' = bought,
           row.by = "event" => row.tx \in events' /\ row.package = bought[row.tx] /\ row.onChain,
           row.by = "signup" => row.tx = 1 /\ row.package = 1 /\ row.onChain,
           row.by \in {"copy", "admin"} => row.tx = 0
    PROVE  RowsKnown'
<1> SUFFICES ASSUME NEW i \in DOMAIN rows'
             PROVE  /\ rows'[i].by = "event" =>
                           rows'[i].tx \in events' /\ rows'[i].package = bought'[rows'[i].tx]
                    /\ rows'[i].by = "signup" => rows'[i].tx = 1 /\ rows'[i].package = 1
                    /\ rows'[i].by \in {"event", "signup"} => rows'[i].onChain
                    /\ rows'[i].by \in {"copy", "admin"} =>
                           rows'[i].tx = 0 \/ (rows'[i].tx = 1 /\ 1 \in events')
    BY DEF RowsKnown
<1>1. CASE i \in DOMAIN rows
    <2>1. KeepsRow(i) /\ rows'[i].tx = rows[i].tx
        BY <1>1 DEF Grows
    <2> QED
        BY <1>1, <2>1 DEF RowsKnown, KeepsRow
<1>2. CASE i = Len(rows) + 1
    <2>1. rows'[i] = row
        BY <1>2 DEF Grows
    <2> QED
        BY <2>1
<1> QED
    BY <1>1, <1>2 DEF Grows

LEMMA KnownStep ==
    ASSUME PurchasesTyped, ChainHolds, RowsKnown, [ActivationsNext]_activationVars
    PROVE  RowsKnown'
<1>1. rows \in Seq(Rows) /\ bought \in Seq(Packages)
    BY DEF PurchasesTyped
<1>2. CASE QuietMove
    BY <1>2, KnownInPlace DEF QuietMove
<1>3. CASE Buy
    <2>1. /\ \A k \in DOMAIN bought : bought'[k] = bought[k]
          /\ rows' = rows /\ events' = events
        BY <1>1, <1>3 DEF Buy
    <2> QED
        BY <1>1, <2>1, SameRows, KnownInPlace
<1>4. CASE Grant
    BY <1>4, GrantMoves, KnownGrows
<1>5. CASE \E t \in Txs : SkipEvent(t)
    BY <1>1, <1>5, SameRows, KnownInPlace DEF SkipEvent, Store
<1>6. ASSUME NEW r \in Requests, NEW t \in Txs, TakeEvent(r, t) PROVE RowsKnown'
    BY <1>1, <1>6, TakeEventMoves, SameRows, KnownInPlace DEF TakeEvent
<1>7. ASSUME NEW r \in Requests, Activate(r) PROVE RowsKnown'
    <2> DEFINE row == Row(bought[request[r].tx], request[r].tx, TRUE, "event")
    <2>1. /\ row \in Rows /\ row.package = bought[request[r].tx] /\ row.tx = request[r].tx
          /\ row.onChain /\ row.by = "event" /\ Grows(row)
          /\ events' = events \cup {request[r].tx}
        BY <1>7, ActivateMoves
    <2>2. bought' = bought
        BY <1>7 DEF Activate
    <2> HIDE DEF row
    <2> QED
        BY <2>1, <2>2, KnownGrows
<1>8. ASSUME NEW r \in Requests, Ensure(r) PROVE RowsKnown'
    <2> DEFINE row == Row(1, 1, TRUE, "signup")
    <2>1. /\ row \in Rows /\ row.package = 1 /\ row.tx = 1
          /\ row.onChain /\ row.by = "signup" /\ Grows(row) /\ events' = events
        BY <1>8, EnsureMoves
    <2>2. bought' = bought
        BY <1>8 DEF Ensure
    <2> HIDE DEF row
    <2> QED
        BY <2>1, <2>2, KnownGrows
<1>9. ASSUME NEW r \in Requests, LookForRow(r) \/ ReadChain(r) \/ Compare(r) PROVE RowsKnown'
    <2>1. rows' = rows /\ events' = events /\ bought' = bought
        BY <1>9 DEF LookForRow, ReadChain, Compare
    <2> QED
        BY <1>1, <2>1, SameRows, KnownInPlace
<1>10. ASSUME NEW r \in Requests, ClearCurrent(r) PROVE RowsKnown'
    <2>1. rows' = Cleared(Len(rows)) /\ events' = events /\ bought' = bought
        BY <1>10 DEF ClearCurrent
    <2> QED
        BY <1>1, <2>1, ClearInPlace, KnownInPlace
<1>11. ASSUME NEW r \in Requests, CreateCopy(r) PROVE RowsKnown'
    <2> DEFINE row == Row(request[r].package, NoTx, TRUE, "copy")
    <2>1. row \in Rows /\ row.tx = 0 /\ row.by = "copy" /\ Grows(row) /\ events' = events
        BY <1>11, CreateCopyMoves
    <2>2. bought' = bought
        BY <1>11 DEF CreateCopy
    <2> HIDE DEF row
    <2> QED
        BY <2>1, <2>2, KnownGrows
<1> QED
    BY <1>2, <1>3, <1>4, <1>5, <1>6, <1>7, <1>8, <1>9, <1>10, <1>11, ActivationSteps

\* A look is still good where no row was added: the calls that look for one
\* were doing so before.
LEMMA LooksInPlace ==
    ASSUME PurchasesTyped, RowsKnown, LooksHold, InPlace, missed' = missed,
           NEW new, events' = events \cup new,
           \A r \in Requests : request[r].at = "activate" => request[r].tx \notin new \/ missed,
           \A r \in Requests : request'[r] = request[r] \/ request'[r].at \notin {"activate", "ensure"}
    PROVE  LooksHold'
<1> SUFFICES ASSUME ~missed PROVE LooksHold'
    BY DEF LooksHold
<1>1. \A i \in DOMAIN rows : KeepsRow(i) /\ rows[i].tx \in Nat
                             /\ rows[i].by \in {"event", "signup", "copy", "admin"}
    BY RowType DEF InPlace, PurchasesTyped, Rows
<1>2. /\ DOMAIN rows' = DOMAIN rows
      /\ \A i \in DOMAIN rows : (Buys(i) <=> Buys(i)') /\ (Buys(i) => rows'[i].tx = rows[i].tx)
    <2>1. events \subseteq DOMAIN bought /\ \A e \in events : e # 0
        BY DEF PurchasesTyped
    <2> QED
        BY <1>1, <2>1 DEF InPlace, Buys, KeepsRow, RowsKnown
<1>3. \A i, j \in DOMAIN rows' : (Buys(i) /\ Buys(j))' /\ rows'[i].tx = rows'[j].tx => i = j
    BY <1>2 DEF LooksHold
<1>4. ASSUME NEW r \in Requests, request'[r].at = "activate"
      PROVE  /\ request'[r].tx \notin events'
             /\ \A i \in DOMAIN rows' : rows'[i].onChain => rows'[i].tx # request'[r].tx
    <2>1. request'[r] = request[r] /\ request[r].at = "activate"
        BY <1>4
    <2>2. /\ request[r].tx \notin events /\ request[r].tx \notin new
          /\ \A i \in DOMAIN rows : rows[i].onChain => rows[i].tx # request[r].tx
        BY <2>1 DEF LooksHold
    <2> QED
        BY <1>1, <1>2, <2>1, <2>2 DEF KeepsRow
<1>5. ASSUME NEW r \in Requests, request'[r].at = "ensure"
      PROVE  \A i \in DOMAIN rows' : Buys(i)' => rows'[i].tx # 1
    <2>1. request[r].at = "ensure"
        BY <1>5
    <2> QED
        BY <1>2, <2>1 DEF LooksHold
<1> QED
    BY <1>3, <1>4, <1>5 DEF LooksHold

\* A row is added, and no other call had looked for one.
LEMMA LooksGrow ==
    ASSUME PurchasesTyped, LooksHold, NEW row \in Rows, Grows(row),
           ~missed' => ~missed /\ \A r \in Requests : request'[r].at \notin {"activate", "ensure"},
           row.by \in {"event", "signup"} =>
               missed \/ \A i \in DOMAIN rows : Buys(i) => rows[i].tx # row.tx
    PROVE  LooksHold'
<1> SUFFICES ASSUME ~missed' PROVE LooksHold'
    BY DEF LooksHold
<1>1. ~missed /\ \A r \in Requests : request'[r].at \notin {"activate", "ensure"}
    OBVIOUS
<1>2. \A i \in DOMAIN rows : (Buys(i) <=> Buys(i)') /\ rows'[i].tx = rows[i].tx
    BY DEF Grows, KeepsRow, Buys
<1> PICK n : n = Len(rows) + 1
    OBVIOUS
<1>3. /\ DOMAIN rows' = DOMAIN rows \cup {n} /\ rows'[n] = row
      /\ Buys(n)' <=> row.by \in {"event", "signup"}
    BY DEF Grows, Buys
<1>4. \A i, j \in DOMAIN rows' : (Buys(i) /\ Buys(j))' /\ rows'[i].tx = rows'[j].tx => i = j
    <2> SUFFICES ASSUME NEW i \in DOMAIN rows', NEW j \in DOMAIN rows',
                        Buys(i)', Buys(j)', rows'[i].tx = rows'[j].tx
                 PROVE  i = j
        OBVIOUS
    <2>1. CASE i \in DOMAIN rows /\ j \in DOMAIN rows
        BY <1>1, <1>2, <2>1 DEF LooksHold
    <2>2. CASE i = n /\ j \in DOMAIN rows
        BY <1>1, <1>2, <1>3, <2>2
    <2>3. CASE j = n /\ i \in DOMAIN rows
        BY <1>1, <1>2, <1>3, <2>3
    <2> QED
        BY <1>3, <2>1, <2>2, <2>3
<1> QED
    BY <1>1, <1>4 DEF LooksHold

LEMMA LooksStay ==
    ASSUME PurchasesTyped, RowsKnown, LooksHold, InPlace, missed' = missed, events' = events,
           \A r \in Requests : request'[r] = request[r] \/ request'[r].at \notin {"activate", "ensure"}
    PROVE  LooksHold'
<1> PICK new : new = {}
    OBVIOUS
<1>1. /\ events' = events \cup new
      /\ \A r \in Requests : request[r].at = "activate" => request[r].tx \notin new \/ missed
    OBVIOUS
<1> QED
    BY <1>1, LooksInPlace

\* A call looks and finds no row.
LEMMA LooksBegin ==
    ASSUME PurchasesTyped, RowsKnown, LooksHold, rows' = rows, events' = events, missed' = missed,
           NEW r \in Requests, NEW d \in Stages, Goes(r, d),
           d.at = "activate" => d.tx \notin events /\ RowsOf(d.tx) = {},
           d.at = "ensure" => RowsOf(1) = {}
    PROVE  LooksHold'
<1> SUFFICES ASSUME ~missed PROVE LooksHold'
    BY DEF LooksHold
<1>1. request'[r] = d /\ \A o \in Requests \ {r} : request'[o] = request[o]
    BY GoesTyped
<1>2. \A i, j \in DOMAIN rows' : (Buys(i) /\ Buys(j))' /\ rows'[i].tx = rows'[j].tx => i = j
    BY DEF LooksHold, Buys
<1>3. ASSUME NEW o \in Requests, request'[o].at = "activate"
      PROVE  /\ request'[o].tx \notin events'
             /\ \A i \in DOMAIN rows' : rows'[i].onChain => rows'[i].tx # request'[o].tx
    <2>1. CASE o = r
        BY <1>1, <1>3, <2>1 DEF RowsOf, OnChain
    <2>2. CASE o # r
        BY <1>1, <1>3, <2>2 DEF LooksHold
    <2> QED
        BY <2>1, <2>2
<1>4. ASSUME NEW o \in Requests, request'[o].at = "ensure"
      PROVE  \A i \in DOMAIN rows' : Buys(i)' => rows'[i].tx # 1
    <2>1. CASE o = r
        BY <1>1, <1>4, <2>1 DEF RowsOf, OnChain, Buys, RowsKnown
    <2>2. CASE o # r
        BY <1>1, <1>4, <2>2 DEF LooksHold, Buys
    <2> QED
        BY <2>1, <2>2
<1> QED
    BY <1>2, <1>3, <1>4 DEF LooksHold

\* Whoever creates a row while others decide is recorded.
LEMMA AloneCreates ==
    ASSUME PurchasesTyped, NEW r \in Requests, NEW d \in Stages, Goes(r, d), Quietly(d),
           missed' = (missed \/ Deciding \ {r} # {}), ~missed'
    PROVE  /\ ~missed
           /\ \A o \in Requests :
                  request'[o].at \notin {"activate", "ensure", "clear", "create"}
<1>1. request'[r] = d /\ \A o \in Requests \ {r} : request'[o] = request[o]
    BY GoesTyped
<1>2. ~missed /\ \A o \in Requests \ {r} : o \notin Deciding
    OBVIOUS
<1> QED
    BY <1>1, <1>2 DEF Deciding, Quietly

LEMMA LooksStep ==
    ASSUME PurchasesTyped, ChainHolds, RowsKnown, LooksHold, [ActivationsNext]_activationVars
    PROVE  LooksHold'
<1>1. rows \in Seq(Rows)
    BY DEF PurchasesTyped
<1>2. CASE QuietMove
    <2>1. \A r \in Requests : request'[r] = request[r] \/ request'[r].at \notin {"activate", "ensure"}
        <3>1. CASE request' = request
            BY <3>1
        <3>2. ASSUME NEW r \in Requests, NEW d \in Stages, Goes(r, d), Quietly(d)
              PROVE  \A o \in Requests : \/ request'[o] = request[o]
                                         \/ request'[o].at \notin {"activate", "ensure"}
            BY <3>2, GoesTyped DEF Quietly
        <3> QED
            BY <1>2, <3>1, <3>2 DEF QuietMove
    <2>2. events' = events /\ missed' = missed /\ InPlace
        BY <1>2 DEF QuietMove
    <2> QED
        BY <2>1, <2>2, LooksStay
<1>3. CASE Buy
    <2>1. rows' = rows /\ events' = events /\ missed' = missed /\ request' = request
        BY <1>3 DEF Buy
    <2>2. InPlace
        BY <1>1, <2>1, SameRows
    <2> QED
        BY <2>1, <2>2, LooksStay
<1>4. CASE Grant
    <2>1. PICK row \in Rows :
              /\ row.by = "admin" /\ Grows(row) /\ request' = request
              /\ missed' = (missed \/ Deciding # {})
        BY <1>4, GrantMoves
    <2>2. ~missed' => ~missed /\ \A r \in Requests : request'[r].at \notin {"activate", "ensure"}
        BY <2>1 DEF Deciding
    <2> QED
        BY <2>1, <2>2, LooksGrow
<1>5. ASSUME NEW t \in Txs, SkipEvent(t) PROVE LooksHold'
    <2>1. /\ account = "none" /\ rows' = rows /\ missed' = missed /\ request' = request
          /\ events' = events \cup {t}
        BY <1>5 DEF SkipEvent, Store
    <2>2. \A r \in Requests : request[r].at # "activate"
        BY <2>1 DEF ChainHolds
    <2>3. InPlace
        BY <1>1, <2>1, SameRows
    <2> QED
        BY <2>1, <2>2, <2>3, LooksInPlace
<1>6. ASSUME NEW r \in Requests, NEW t \in Txs, TakeEvent(r, t) PROVE LooksHold'
    <2>1. rows' = rows /\ missed' = missed /\ t \notin events
        BY <1>6 DEF TakeEvent, NextEvent
    <2>2. CASE /\ RowsOf(t) = {} /\ events' = events
               /\ \E d \in Stages : /\ Goes(r, d) /\ d.at = "activate" /\ d.tx = t
        BY <2>1, <2>2, LooksBegin
    <2>3. CASE /\ RowsOf(t) # {} /\ events' = events \cup {t}
               /\ \/ request' = request
                  \/ \E d \in Stages : Goes(r, d) /\ d.at = "distribute"
        <3>1. InPlace
            BY <1>1, <2>1, SameRows
        <3>2. \A o \in Requests : request'[o] = request[o] \/ request'[o].at \notin {"activate", "ensure"}
            <4>1. CASE request' = request
                BY <4>1
            <4>2. ASSUME NEW d \in Stages, Goes(r, d), d.at = "distribute"
                  PROVE  \A o \in Requests : \/ request'[o] = request[o]
                                             \/ request'[o].at \notin {"activate", "ensure"}
                BY <4>2, GoesTyped
            <4> QED
                BY <2>3, <4>1, <4>2
        <3>3. \A o \in Requests : request[o].at = "activate" => request[o].tx \notin {t} \/ missed
            BY <2>3 DEF LooksHold, RowsOf, OnChain
        <3> QED
            BY <2>1, <2>3, <3>1, <3>2, <3>3, LooksInPlace
    <2> QED
        BY <1>6, <2>2, <2>3, TakeEventMoves
<1>7. ASSUME NEW r \in Requests, Activate(r) PROVE LooksHold'
    <2> DEFINE t == request[r].tx
               row == Row(bought[t], t, TRUE, "event")
    <2>1. /\ row \in Rows /\ row.tx = t /\ row.by = "event" /\ Creates(r, row) /\ Grows(row)
          /\ \E d \in Stages : Goes(r, d) /\ Quietly(d)
        BY <1>7, ActivateMoves
    <2>2. request[r].at = "activate"
        BY <1>7 DEF Activate, At
    <2>3. missed \/ \A i \in DOMAIN rows : Buys(i) => rows[i].tx # t
        BY <2>2 DEF LooksHold, RowsKnown, Buys
    <2> HIDE DEF row
    <2>4. missed' = (missed \/ Deciding \ {r} # {})
        BY <2>1 DEF Creates
    <2>5. ~missed' => ~missed /\ \A o \in Requests : request'[o].at \notin {"activate", "ensure"}
        BY <2>1, <2>4, AloneCreates
    <2>6. row.by \in {"event", "signup"} =>
              missed \/ \A i \in DOMAIN rows : Buys(i) => rows[i].tx # row.tx
        BY <2>1, <2>3
    <2> QED
        BY <2>1, <2>5, <2>6, LooksGrow
<1>8. ASSUME NEW r \in Requests, Ensure(r) PROVE LooksHold'
    <2> DEFINE row == Row(1, 1, TRUE, "signup")
    <2>1. /\ row \in Rows /\ row.tx = 1 /\ row.by = "signup" /\ Creates(r, row) /\ Grows(row)
          /\ \E d \in Stages : Goes(r, d) /\ Quietly(d)
        BY <1>8, EnsureMoves
    <2>2. request[r].at = "ensure"
        BY <1>8 DEF Ensure, At
    <2>3. missed \/ \A i \in DOMAIN rows : Buys(i) => rows[i].tx # 1
        BY <2>2 DEF LooksHold
    <2> HIDE DEF row
    <2>4. missed' = (missed \/ Deciding \ {r} # {})
        BY <2>1 DEF Creates
    <2>5. ~missed' => ~missed /\ \A o \in Requests : request'[o].at \notin {"activate", "ensure"}
        BY <2>1, <2>4, AloneCreates
    <2>6. row.by \in {"event", "signup"} =>
              missed \/ \A i \in DOMAIN rows : Buys(i) => rows[i].tx # row.tx
        BY <2>1, <2>3
    <2> QED
        BY <2>1, <2>5, <2>6, LooksGrow
<1>9. ASSUME NEW r \in Requests, LookForRow(r) PROVE LooksHold'
    <2>1. rows' = rows /\ events' = events /\ missed' = missed
        BY <1>9 DEF LookForRow
    <2>2. PICK d \in Stages :
              /\ Goes(r, d)
              /\ \/ RowsOf(1) = {} /\ d.at = "ensure" /\ d.seen = Len(rows)
                 \/ d.at = "mirror"
        BY <1>9, LookMoves
    <2> QED
        BY <2>1, <2>2, LooksBegin
<1>10. ASSUME NEW r \in Requests, ReadChain(r) \/ Compare(r) \/ ClearCurrent(r) PROVE LooksHold'
    <2>1. events' = events /\ missed' = missed
        BY <1>10 DEF ReadChain, Compare, ClearCurrent
    <2>2. InPlace
        BY <1>1, <1>10, SameRows, ClearInPlace DEF ReadChain, Compare, ClearCurrent
    <2>3. \E d \in Stages : Goes(r, d) /\ d.at \notin {"activate", "ensure"}
        <3>1. CASE ReadChain(r)
            BY <3>1, CopyMoves
        <3>2. CASE Compare(r)
            <4>1. request[r].at = "compare" /\ (Goes(r, Idle) \/ Moves(r, "clear"))
                BY <3>2 DEF Compare, At
            <4> QED
                BY <4>1, CopyMoves, StagesIn
        <3>3. CASE ClearCurrent(r)
            <4>1. request[r].at = "clear" /\ Moves(r, "create")
                BY <3>3 DEF ClearCurrent, At
            <4> QED
                BY <4>1, CopyMoves
        <3> QED
            BY <1>10, <3>1, <3>2, <3>3
    <2>4. \A o \in Requests : request'[o] = request[o] \/ request'[o].at \notin {"activate", "ensure"}
        BY <2>3, GoesTyped
    <2> QED
        BY <2>1, <2>2, <2>4, LooksStay
<1>11. ASSUME NEW r \in Requests, CreateCopy(r) PROVE LooksHold'
    <2> DEFINE row == Row(request[r].package, NoTx, TRUE, "copy")
    <2>1. /\ row \in Rows /\ row.by = "copy" /\ Grows(row) /\ Goes(r, Idle)
          /\ missed' = (missed \/ Deciding \ {r} # {})
        BY <1>11, CreateCopyMoves
    <2> HIDE DEF row
    <2>2. Idle \in Stages /\ Quietly(Idle)
        BY StagesIn DEF Quietly
    <2>3. ~missed' => ~missed /\ \A o \in Requests : request'[o].at \notin {"activate", "ensure"}
        BY <2>1, <2>2, AloneCreates
    <2> QED
        BY <2>1, <2>3, LooksGrow
<1> QED
    BY <1>2, <1>3, <1>4, <1>5, <1>6, <1>7, <1>8, <1>9, <1>10, <1>11, ActivationSteps

(***************************************************************************)
(* Which row is current, as long as no call overtook another, failed, or   *)
(* was given a package: the last row, unless a copy has just cleared it.   *)
(* A row of what the last copy saw is there; the last row is that one, or  *)
(* the sign-up's, created late, or that of the last event.                 *)
(***************************************************************************)

LastRow == rows[Len(rows)]

SeenAll ==
    \A r \in Requests : request[r].at \in {"activate", "ensure"} => request[r].seen = Len(rows)

LastIsCurrent ==
    /\ \A i \in DOMAIN rows : rows[i].current => i = Len(rows)
    /\ \A r \in Requests : request[r].at = "create" => \A i \in DOMAIN rows : ~rows[i].current
    /\ rows # <<>> /\ ~LastRow.current => \E r \in Requests : request[r].at = "create"

CopyHolds ==
    synced >= 1 =>
        /\ rows # <<>> /\ \E j \in DOMAIN rows : rows[j].package = bought[synced]
        /\ \/ LastRow.package = bought[synced]
           \/ Overtakes(Len(rows))
           \/ LastRow.by = "event"

LastEvent ==
    rows # <<>> /\ LastRow.by = "event" => \A e \in events : e <= LastRow.tx

CurrentKnown == Undisturbed => SeenAll /\ LastIsCurrent /\ CopyHolds /\ LastEvent

LEMMA CurrentInPlace ==
    ASSUME PurchasesTyped, RowsKnown, CurrentKnown, InPlace,
           missed' = missed, grants' = grants, failures' = failures \/ failures' = failures + 1,
           \A k \in DOMAIN bought : bought'[k] = bought[k],
           synced' = synced \/ (/\ synced' \in DOMAIN bought
                                /\ Undisturbed => rows # <<>> /\ LastRow.package = bought[synced']),
           events' = events \/ rows = <<>> \/ (Undisturbed => LastRow.by # "event"),
           \A r \in Requests : request'[r].at \in {"activate", "ensure"} =>
               request'[r] = request[r] \/ request'[r].seen = Len(rows),
           Undisturbed' =>
               \/ /\ \A i \in DOMAIN rows : rows'[i].current = rows[i].current
                  /\ \A r \in Requests : request'[r].at = "create" <=> request[r].at = "create"
               \/ /\ \A i \in DOMAIN rows : ~rows'[i].current
                  /\ \E r \in Requests : request'[r].at = "create"
    PROVE  CurrentKnown'
<1> SUFFICES ASSUME Undisturbed' PROVE (SeenAll /\ LastIsCurrent /\ CopyHolds /\ LastEvent)'
    BY DEF CurrentKnown
<1>1. Undisturbed /\ SeenAll /\ LastIsCurrent /\ CopyHolds /\ LastEvent
    <2>1. failures \in Nat
        BY DEF PurchasesTyped
    <2> QED
        BY <2>1 DEF Undisturbed, CurrentKnown
<1>2. /\ DOMAIN rows' = DOMAIN rows /\ Len(rows') = Len(rows) /\ Len(rows) \in Nat
      /\ rows # <<>> => Len(rows) \in DOMAIN rows
      /\ rows' # <<>> <=> rows # <<>>
    BY DEF InPlace, PurchasesTyped
<1>3. \A i \in DOMAIN rows : /\ rows'[i].package = rows[i].package /\ rows'[i].by = rows[i].by
                             /\ rows[i].by = "event" => rows'[i].tx = rows[i].tx
    <2>1. events \subseteq DOMAIN bought /\ \A e \in events : e # 0
        BY DEF PurchasesTyped
    <2> QED
        BY <2>1 DEF InPlace, KeepsRow, RowsKnown
<1>4. SeenAll'
    BY <1>1, <1>2 DEF SeenAll
<1>5. LastIsCurrent'
    <2>1. CASE /\ \A i \in DOMAIN rows : rows'[i].current = rows[i].current
               /\ \A r \in Requests : request'[r].at = "create" <=> request[r].at = "create"
        BY <1>1, <1>2, <2>1 DEF LastIsCurrent, LastRow
    <2>2. CASE /\ \A i \in DOMAIN rows : ~rows'[i].current
               /\ \E r \in Requests : request'[r].at = "create"
        BY <1>2, <2>2 DEF LastIsCurrent
    <2> QED
        BY <2>1, <2>2
<1>6. CopyHolds'
    <2> SUFFICES ASSUME synced' >= 1 PROVE CopyHolds'
        BY DEF CopyHolds
    <2>1. CASE synced' = synced
        <3>1. synced \in DOMAIN bought
            BY <2>1 DEF PurchasesTyped
        <3>2. bought'[synced'] = bought[synced]
            BY <2>1, <3>1
        <3>3. /\ rows # <<>> /\ \E j \in DOMAIN rows : rows[j].package = bought[synced]
              /\ \/ LastRow.package = bought[synced]
                 \/ Overtakes(Len(rows))
                 \/ LastRow.by = "event"
            BY <1>1, <2>1 DEF CopyHolds
        <3>4. Overtakes(Len(rows)) => Overtakes(Len(rows))'
            <4>1. \A j \in 1 .. (Len(rows) - 1) : j \in DOMAIN rows
                BY <1>2 DEF PurchasesTyped
            <4> QED
                BY <1>2, <1>3, <3>3, <4>1 DEF Overtakes
        <3> QED
            BY <1>2, <1>3, <3>2, <3>3, <3>4 DEF CopyHolds, LastRow
    <2>2. CASE synced' \in DOMAIN bought /\ rows # <<>> /\ LastRow.package = bought[synced']
        <3>1. bought'[synced'] = bought[synced']
            BY <2>2
        <3> QED
            BY <1>2, <1>3, <2>2, <3>1 DEF CopyHolds, LastRow
    <2> QED
        BY <1>1, <2>1, <2>2
<1>7. LastEvent'
    BY <1>1, <1>2, <1>3 DEF LastEvent, LastRow
<1> QED
    BY <1>4, <1>5, <1>6, <1>7

LEMMA CurrentGrows ==
    ASSUME PurchasesTyped, ChainHolds, CurrentKnown, NEW row \in Rows, Grows(row),
           bought' = bought, failures' = failures, grants' = grants,
           Undisturbed' =>
               /\ ~missed /\ row.current /\ \A i \in DOMAIN rows : ~rows'[i].current
               /\ \A r \in Requests : request'[r].at \notin {"activate", "ensure", "clear", "create"},
           \/ synced' = synced /\ row.by = "event"
           \/ /\ synced' = synced /\ row.by = "signup" /\ row.package = 1
              /\ \A k \in DOMAIN bought : bought[k] >= 1
           \/ synced' \in DOMAIN bought /\ row.package = bought[synced'],
           row.by = "event" => \A e \in events' : e <= row.tx
    PROVE  CurrentKnown'
<1> SUFFICES ASSUME Undisturbed' PROVE (SeenAll /\ LastIsCurrent /\ CopyHolds /\ LastEvent)'
    BY DEF CurrentKnown
<1>1. Undisturbed /\ CopyHolds
    BY DEF Undisturbed, CurrentKnown
<1> PICK n : n = Len(rows) + 1
    OBVIOUS
<1>2. /\ n \in Nat /\ DOMAIN rows = 1 .. (n - 1)
      /\ DOMAIN rows' = DOMAIN rows \cup {n} /\ Len(rows') = n /\ rows'[n] = row
      /\ rows' # <<>> /\ LastRow' = row
      /\ \A i \in DOMAIN rows : rows'[i].package = rows[i].package
    BY DEF Grows, KeepsRow, LastRow, PurchasesTyped
<1>3. SeenAll'
    BY DEF SeenAll
<1>4. LastIsCurrent'
    BY <1>2 DEF LastIsCurrent
<1>5. CopyHolds'
    <2> SUFFICES ASSUME synced' >= 1
                 PROVE  /\ \E j \in DOMAIN rows' : rows'[j].package = bought'[synced']
                        /\ \/ row.package = bought'[synced']
                           \/ Overtakes(Len(rows))'
                           \/ row.by = "event"
        BY <1>2 DEF CopyHolds
    <2>1. CASE synced' = synced
        <3>1. PICK j \in DOMAIN rows : rows[j].package = bought[synced]
            BY <1>1, <2>1 DEF CopyHolds
        <3>2. /\ synced \in DOMAIN bought
              /\ row.by = "signup" => row.package = bought[synced] \/ bought[synced] >= 1
            BY <2>1 DEF PurchasesTyped
        <3>3. bought[synced] \in Nat
            <4>1. bought[synced] \in Packages
                BY <3>2 DEF PurchasesTyped
            <4> QED
                BY <4>1, PackagesAssumption
        <3>4. row.by = "signup" /\ row.package = 1 =>
                  row.package = bought[synced] \/ Overtakes(Len(rows))'
            <4> SUFFICES ASSUME row.by = "signup", row.package = 1, row.package # bought[synced]
                         PROVE  Overtakes(Len(rows))'
                OBVIOUS
            <4>1. j \in 1 .. (n - 1) /\ rows'[j].package > rows'[n].package
                BY <1>2, <3>1, <3>2, <3>3
            <4> QED
                BY <1>2, <4>1 DEF Overtakes
        <3>5. rows'[j].package = bought'[synced'] /\ j \in DOMAIN rows'
            BY <1>2, <2>1, <3>1
        <3> QED
            BY <1>2, <2>1, <3>4, <3>5
    <2>2. CASE row.package = bought[synced']
        BY <1>2, <2>2
    <2> QED
        BY <2>1, <2>2
<1>6. LastEvent'
    BY <1>2 DEF LastEvent
<1> QED
    BY <1>3, <1>4, <1>5, <1>6

\* A call that moves on at another stage leaves the stages that matter alone.
LEMMA StagesStay ==
    ASSUME PurchasesTyped, NEW r \in Requests, NEW d \in Stages, Goes(r, d),
           d.at # "create", request[r].at # "create"
    PROVE  \A o \in Requests : /\ request'[o].at = "create" <=> request[o].at = "create"
                               /\ o # r => request'[o] = request[o]
                               /\ o = r => request'[o] = d
    BY GoesTyped

LEMMA CurrentStep ==
    ASSUME PurchasesTyped, ChainHolds, EntryHolds, RowsKnown, LooksHold,
           CurrentKnown, [ActivationsNext]_activationVars
    PROVE  CurrentKnown'
<1>1. /\ rows \in Seq(Rows) /\ bought \in Seq(Packages) /\ events \subseteq DOMAIN bought
      /\ \A k \in DOMAIN bought : k >= 1 /\ k \in Nat
      /\ failures \in Nat /\ grants \in Nat
    BY DEF PurchasesTyped
<1>2. CASE QuietMove
    <2>1. Undisturbed' => failures' = failures
        BY <1>1, <1>2 DEF QuietMove, Undisturbed
    <2>2. /\ \A o \in Requests : request'[o].at \in {"activate", "ensure"} => request'[o] = request[o]
          /\ failures' = failures =>
                 \A o \in Requests : request'[o].at = "create" <=> request[o].at = "create"
        <3>1. CASE request' = request
            BY <3>1
        <3>2. ASSUME NEW r \in Requests, NEW d \in Stages, Goes(r, d), Quietly(d),
                     failures' = failures => request[r].at # "create"
              PROVE  /\ \A o \in Requests : request'[o].at \in {"activate", "ensure"} => request'[o] = request[o]
                     /\ failures' = failures =>
                            \A o \in Requests : request'[o].at = "create" <=> request[o].at = "create"
            BY <3>2, GoesTyped DEF Quietly
        <3> QED
            BY <1>2, <3>1, <3>2 DEF QuietMove
    <2> QED
        BY <1>2, <2>1, <2>2, CurrentInPlace DEF QuietMove
<1>3. CASE Buy
    <2>1. /\ \A k \in DOMAIN bought : bought'[k] = bought[k]
          /\ UNCHANGED <<events, rows, request, synced, missed, failures, grants>>
        BY <1>1, <1>3 DEF Buy
    <2>2. InPlace
        BY <1>1, <2>1, SameRows
    <2> QED
        BY <2>1, <2>2, CurrentInPlace
<1>4. CASE Grant
    BY <1>1, <1>4 DEF Grant, CurrentKnown, Undisturbed
<1>5. ASSUME NEW t \in Txs, SkipEvent(t) PROVE CurrentKnown'
    <2>1. /\ UNCHANGED <<bought, rows, request, synced, missed, failures, grants>>
          /\ rows = <<>>
        BY <1>5 DEF SkipEvent, ChainHolds
    <2>2. InPlace
        BY <1>1, <2>1, SameRows
    <2> QED
        BY <2>1, <2>2, CurrentInPlace
<1>6. ASSUME NEW r \in Requests, NEW t \in Txs, TakeEvent(r, t) PROVE CurrentKnown'
    <2>1. /\ UNCHANGED <<bought, rows, synced, missed, failures, grants>>
          /\ request[r].at = "idle" /\ t \in DOMAIN bought /\ t \notin events
          /\ \A s \in 1 .. (t - 1) : s \in events
        BY <1>6 DEF TakeEvent, NextEvent, At, Txs
    <2>2. InPlace
        BY <1>1, <2>1, SameRows
    <2>3. CASE /\ events' = events
               /\ \E d \in Stages : /\ Goes(r, d) /\ d.at = "activate" /\ d.seen = Len(rows)
        <3>1. PICK d \in Stages : /\ Goes(r, d) /\ d.at = "activate" /\ d.seen = Len(rows)
            BY <2>3
        <3>2. \A o \in Requests : /\ request'[o].at = "create" <=> request[o].at = "create"
                                  /\ o # r => request'[o] = request[o]
                                  /\ o = r => request'[o] = d
            BY <2>1, <3>1, StagesStay
        <3> QED
            BY <2>1, <2>2, <2>3, <3>1, <3>2, CurrentInPlace
    <2>4. CASE /\ RowsOf(t) # {}
               /\ \/ request' = request
                  \/ \E d \in Stages : Goes(r, d) /\ d.at = "distribute"
        <3>1. t = 1
            <4>1. PICK i \in DOMAIN rows : rows[i].tx = t
                BY <2>4 DEF RowsOf, OnChain
            <4>2. rows[i].by \in {"event", "signup", "copy", "admin"}
                BY <1>1, RowType DEF Rows
            <4> QED
                BY <1>1, <2>1, <4>1, <4>2 DEF RowsKnown
        <3>2. events = {}
            <4> SUFFICES ASSUME NEW e \in events PROVE FALSE
                OBVIOUS
            <4>1. e >= 1 /\ e \in Nat /\ e # 1
                BY <1>1, <2>1, <3>1
            <4>2. 1 \in 1 .. (e - 1)
                BY <4>1
            <4> QED
                BY <2>1, <3>1, <4>2 DEF ChainHolds
        <3>3. rows = <<>> \/ LastRow.by # "event"
            BY <1>1, <3>2 DEF RowsKnown, LastRow
        <3>4. /\ \A o \in Requests : request'[o].at = "create" <=> request[o].at = "create"
              /\ \A o \in Requests : request'[o].at \in {"activate", "ensure"} => request'[o] = request[o]
            <4>1. CASE request' = request
                BY <4>1
            <4>2. ASSUME NEW d \in Stages, Goes(r, d), d.at = "distribute"
                  PROVE  /\ \A o \in Requests : request'[o].at = "create" <=> request[o].at = "create"
                         /\ \A o \in Requests : request'[o].at \in {"activate", "ensure"} => request'[o] = request[o]
                BY <2>1, <4>2, StagesStay
            <4> QED
                BY <2>4, <4>1, <4>2
        <3> QED
            BY <2>1, <2>2, <3>3, <3>4, CurrentInPlace
    <2> QED
        BY <1>6, <2>3, <2>4, TakeEventMoves
<1>7. ASSUME NEW r \in Requests, Activate(r) PROVE CurrentKnown'
    <2> DEFINE t == request[r].tx
               row == Row(bought[t], t, TRUE, "event")
    <2>1. /\ row \in Rows /\ row.tx = t /\ row.by = "event" /\ row.current
          /\ Creates(r, row) /\ Grows(row) /\ events' = events \cup {t} /\ t \in DOMAIN bought
          /\ request[r].seen = Len(rows) => \A i \in DOMAIN rows : ~rows'[i].current
          /\ \E d \in Stages : Goes(r, d) /\ Quietly(d)
        BY <1>7, ActivateMoves
    <2>2. /\ request[r].at = "activate"
          /\ UNCHANGED <<bought, synced, failures, grants>>
        BY <1>7 DEF Activate, At
    <2> HIDE DEF row
    <2>3. missed' = (missed \/ Deciding \ {r} # {})
        BY <2>1 DEF Creates
    <2>4. Undisturbed' =>
              /\ ~missed
              /\ \A o \in Requests : request'[o].at \notin {"activate", "ensure", "clear", "create"}
        BY <2>1, <2>3, AloneCreates DEF Undisturbed
    <2>5. Undisturbed' => \A i \in DOMAIN rows : ~rows'[i].current
        BY <2>1, <2>2, <2>4 DEF Undisturbed, CurrentKnown, SeenAll
    <2>6. missed \/ \A e \in events' : e <= t
        <3> SUFFICES ASSUME ~missed, NEW e \in events, ~(e <= t) PROVE FALSE
            BY <1>1, <2>1
        <3>1. t \notin events
            BY <2>2 DEF LooksHold
        <3>2. t \in 1 .. (e - 1)
            BY <1>1, <2>1
        <3> QED
            BY <3>1, <3>2 DEF ChainHolds
    <2>7. CASE missed
        BY <2>3, <2>7 DEF CurrentKnown, Undisturbed
    <2>8. CASE ~missed
        <3>1. \A e \in events' : e <= row.tx
            BY <2>1, <2>6, <2>8
        <3> QED
            BY <2>1, <2>2, <2>4, <2>5, <3>1, CurrentGrows
    <2> QED
        BY <2>7, <2>8
<1>8. ASSUME NEW r \in Requests, LookForRow(r) PROVE CurrentKnown'
    <2>1. /\ UNCHANGED <<bought, events, rows, synced, missed, failures, grants>>
          /\ request[r].at = "look"
        BY <1>8 DEF LookForRow, At
    <2>2. PICK d \in Stages :
              /\ Goes(r, d)
              /\ \/ d.at = "ensure" /\ d.seen = Len(rows)
                 \/ d.at = "mirror"
        BY <1>8, LookMoves
    <2>3. \A o \in Requests : /\ request'[o].at = "create" <=> request[o].at = "create"
                              /\ o # r => request'[o] = request[o]
                              /\ o = r => request'[o] = d
        BY <2>1, <2>2, StagesStay
    <2>4. InPlace
        BY <1>1, <2>1, SameRows
    <2> QED
        BY <2>1, <2>2, <2>3, <2>4, CurrentInPlace
<1>9. ASSUME NEW r \in Requests, Ensure(r) PROVE CurrentKnown'
    <2> DEFINE row == Row(1, 1, TRUE, "signup")
    <2>1. /\ row \in Rows /\ row.package = 1 /\ row.by = "signup" /\ row.current
          /\ Creates(r, row) /\ Grows(row)
          /\ request[r].seen = Len(rows) => \A i \in DOMAIN rows : ~rows'[i].current
          /\ \E d \in Stages : Goes(r, d) /\ Quietly(d)
        BY <1>9, EnsureMoves
    <2>2. /\ request[r].at = "ensure"
          /\ UNCHANGED <<bought, synced, failures, grants>>
        BY <1>9 DEF Ensure, At
    <2> HIDE DEF row
    <2>3. missed' = (missed \/ Deciding \ {r} # {})
        BY <2>1 DEF Creates
    <2>4. Undisturbed' =>
              /\ ~missed
              /\ \A o \in Requests : request'[o].at \notin {"activate", "ensure", "clear", "create"}
        BY <2>1, <2>3, AloneCreates DEF Undisturbed
    <2>5. Undisturbed' => \A i \in DOMAIN rows : ~rows'[i].current
        BY <2>1, <2>2, <2>4 DEF Undisturbed, CurrentKnown, SeenAll
    <2>6. \A k \in DOMAIN bought : bought[k] >= 1
        BY <2>2 DEF EntryHolds
    <2> QED
        BY <2>1, <2>2, <2>4, <2>5, <2>6, CurrentGrows
<1>10. ASSUME NEW r \in Requests, ReadChain(r) PROVE CurrentKnown'
    <2>1. /\ UNCHANGED <<bought, events, rows, synced, missed, failures, grants>>
          /\ request[r].at = "idle"
        BY <1>10 DEF ReadChain, At
    <2>2. PICK d \in Stages : Goes(r, d) /\ d.at = "compare"
        BY <1>10, CopyMoves
    <2>3. \A o \in Requests : /\ request'[o].at = "create" <=> request[o].at = "create"
                              /\ o # r => request'[o] = request[o]
                              /\ o = r => request'[o] = d
        BY <2>1, <2>2, StagesStay
    <2>4. InPlace
        BY <1>1, <2>1, SameRows
    <2> QED
        BY <2>1, <2>2, <2>3, <2>4, CurrentInPlace
<1>11. ASSUME NEW r \in Requests, Compare(r) PROVE CurrentKnown'
    <2>1. /\ UNCHANGED <<bought, events, rows, missed, failures, grants>>
          /\ request[r].at = "compare"
        BY <1>11 DEF Compare, At
    <2>2. PICK d \in Stages : Goes(r, d) /\ d.at \in {"idle", "clear"}
        <3>1. Goes(r, Idle) \/ Moves(r, "clear")
            BY <1>11 DEF Compare
        <3> QED
            BY <2>1, <3>1, CopyMoves, StagesIn
    <2>3. \A o \in Requests : /\ request'[o].at = "create" <=> request[o].at = "create"
                              /\ o # r => request'[o] = request[o]
                              /\ o = r => request'[o] = d
        BY <2>1, <2>2, StagesStay
    <2>4. InPlace
        BY <1>1, <2>1, SameRows
    <2>5. \/ synced' = synced
          \/ /\ synced' \in DOMAIN bought
             /\ Undisturbed => rows # <<>> /\ LastRow.package = bought[synced']
        <3>1. CASE synced' = synced
            BY <3>1
        <3>2. CASE /\ \E i \in Current : IsCopied(i, request[r].package)
                   /\ synced' = request[r].upTo
            <4>1. PICK i \in DOMAIN rows : rows[i].current /\ rows[i].package = request[r].package
                BY <3>2 DEF Current, IsCopied
            <4>2. synced' \in DOMAIN bought /\ request[r].package = bought[synced']
                BY <2>1, <3>2 DEF ChainHolds
            <4>3. Undisturbed => i = Len(rows)
                BY <4>1 DEF CurrentKnown, LastIsCurrent
            <4>4. rows # <<>>
                BY <4>1
            <4> QED
                BY <4>1, <4>2, <4>3, <4>4 DEF LastRow
        <3> QED
            BY <1>11, <3>1, <3>2 DEF Compare
    <2> QED
        BY <2>1, <2>2, <2>3, <2>4, <2>5, CurrentInPlace
<1>12. ASSUME NEW r \in Requests, ClearCurrent(r) PROVE CurrentKnown'
    <2>1. /\ UNCHANGED <<bought, events, synced, missed, failures, grants>>
          /\ request[r].at = "clear" /\ Moves(r, "create") /\ rows' = Cleared(Len(rows))
        BY <1>12 DEF ClearCurrent, At
    <2>2. PICK d \in Stages : Goes(r, d) /\ d.at = "create"
        BY <2>1, CopyMoves
    <2>3. request'[r] = d /\ \A o \in Requests \ {r} : request'[o] = request[o]
        BY <2>2, GoesTyped
    <2>4. InPlace /\ \A i \in DOMAIN rows : ~rows'[i].current
        BY <1>1, <2>1, ClearInPlace
    <2>5. \A o \in Requests : request'[o].at \in {"activate", "ensure"} => request'[o] = request[o]
        BY <2>2, <2>3
    <2>6. \E o \in Requests : request'[o].at = "create"
        BY <2>2, <2>3
    <2> QED
        BY <2>1, <2>4, <2>5, <2>6, CurrentInPlace
<1>13. ASSUME NEW r \in Requests, CreateCopy(r) PROVE CurrentKnown'
    <2> DEFINE row == Row(request[r].package, NoTx, TRUE, "copy")
    <2>1. /\ row \in Rows /\ row.by = "copy" /\ row.current /\ Grows(row) /\ Goes(r, Idle)
          /\ request[r].upTo \in DOMAIN bought /\ synced' = request[r].upTo
          /\ row.package = bought[request[r].upTo]
          /\ missed' = (missed \/ Deciding \ {r} # {})
          /\ \A i \in DOMAIN rows : rows'[i] = rows[i]
          /\ request[r].at = "create"
        BY <1>13, CreateCopyMoves
    <2> HIDE DEF row
    <2>2. UNCHANGED <<bought, failures, grants>>
        BY <1>13 DEF CreateCopy
    <2>3. Idle \in Stages /\ Quietly(Idle)
        BY StagesIn DEF Quietly
    <2>4. Undisturbed' =>
              /\ ~missed
              /\ \A o \in Requests : request'[o].at \notin {"activate", "ensure", "clear", "create"}
        BY <2>1, <2>3, AloneCreates DEF Undisturbed
    <2>5. Undisturbed' => \A i \in DOMAIN rows : ~rows'[i].current
        BY <2>1, <2>2, <2>4 DEF Undisturbed, CurrentKnown, LastIsCurrent
    <2>6. synced' \in DOMAIN bought /\ row.package = bought[synced']
        BY <2>1
    <2> QED
        BY <2>1, <2>2, <2>4, <2>5, <2>6, CurrentGrows
<1> QED
    BY <1>2, <1>3, <1>4, <1>5, <1>6, <1>7, <1>8, <1>9, <1>10, <1>11, <1>12, <1>13, ActivationSteps

PurchasesInv == PurchasesTyped /\ ChainHolds /\ EntryHolds /\ RowsKnown /\ LooksHold /\ CurrentKnown

LEMMA PurchasesStart == ActivationsInit => PurchasesInv
<1> SUFFICES ASSUME ActivationsInit PROVE PurchasesInv
    OBVIOUS
<1>1. bought = <<>> /\ rows = <<>> /\ events = {} /\ synced = 0 /\ failures = 0 /\ grants = 0
    BY DEF ActivationsInit
<1>2. request \in [Requests -> Stages] /\ \A r \in Requests : request[r].at = "idle"
    BY StagesIn DEF ActivationsInit
<1>3. PurchasesTyped
    BY <1>1, <1>2 DEF PurchasesTyped
<1>4. ChainHolds /\ EntryHolds /\ RowsKnown /\ LooksHold
    BY <1>1, <1>2 DEF ActivationsInit, ChainHolds, EntryHolds, RowsKnown, LooksHold
<1>5. CurrentKnown
    BY <1>1, <1>2 DEF CurrentKnown, SeenAll, LastIsCurrent, CopyHolds, LastEvent
<1> QED
    BY <1>3, <1>4, <1>5 DEF PurchasesInv

LEMMA PurchasesInvariant == ActivationsSpec => []PurchasesInv
<1>1. PurchasesInv /\ [ActivationsNext]_activationVars => PurchasesInv'
    BY PurchasesStep, ChainStep, EntryStep, KnownStep, LooksStep, CurrentStep DEF PurchasesInv
<1> QED
    BY PurchasesStart, <1>1, PTL DEF ActivationsSpec

\* A purchase has one row, made by its event or by the sign-up: two only if a
\* call created one that another had looked for in vain
\* (chain-indexer.service.ts 1265-1302, activation-reward-mirror.service.ts 150-168).
THEOREM PurchasesHaveOneRow == ActivationsSpec => []OneRowPerPurchase
<1>1. PurchasesInv => OneRowPerPurchase
    <2> SUFFICES ASSUME PurchasesInv, ~missed, NEW t \in Txs
                 PROVE  Cardinality({i \in RowsOf(t) : rows[i].by \in {"event", "signup"}}) <= 1
        BY DEF OneRowPerPurchase
    <2> DEFINE S == {i \in RowsOf(t) : rows[i].by \in {"event", "signup"}}
    <2>1. \A i, j \in S : i = j
        BY DEF PurchasesInv, LooksHold, RowsOf, OnChain, Buys
    <2> HIDE DEF S
    <2>2. Cardinality(S) <= 1
        <3>1. CASE S = {}
            BY <3>1, FS_EmptySet
        <3>2. CASE S # {}
            <4>1. PICK i \in S : TRUE
                BY <3>2
            <4>2. S = {i}
                BY <2>1, <4>1
            <4>3. Cardinality({i}) = 1
                BY FS_Singleton
            <4> QED
                BY <4>2, <4>3
        <3> QED
            BY <3>1, <3>2
    <2> QED
        BY <2>2 DEF S
<1> QED
    BY PurchasesInvariant, <1>1, PTL

\* At rest, undisturbed, with every event stored and the last purchase copied,
\* exactly one row is current, and it is of the package bought last, or of the
\* sign-up that came too late (registration-sync.service.ts 77-100,
\* chain-indexer.service.ts 1303-1335).
THEOREM CurrentPackageIsBought == ActivationsSpec => []CurrentFollowsChain
<1>1. PurchasesInv => CurrentFollowsChain
    <2> SUFFICES ASSUME PurchasesInv, Quiet, Undisturbed, bought # <<>>,
                        events = Txs, synced = Len(bought)
                 PROVE  \E i \in Current :
                            /\ Current = {i}
                            /\ rows[i].package = ChainPackage \/ Overtakes(i)
        BY DEF CurrentFollowsChain
    <2>1. /\ rows \in Seq(Rows) /\ bought \in Seq(Packages) /\ Len(bought) \in Nat
          /\ Len(bought) >= 1 /\ ChainPackage = bought[Len(bought)] /\ Len(bought) \in events
          /\ \A e \in events : e \in Nat
        BY DEF PurchasesInv, PurchasesTyped, ChainPackage, Last, Txs
    <2>2. LastIsCurrent /\ CopyHolds /\ LastEvent
        BY DEF PurchasesInv, CurrentKnown
    <2>3. rows # <<>> /\ Len(rows) \in DOMAIN rows /\ LastRow.current
        BY <2>1, <2>2 DEF CopyHolds, LastIsCurrent, Quiet, At
    <2>4. Current = {Len(rows)}
        BY <2>2, <2>3 DEF LastIsCurrent, LastRow, Current
    <2>5. LastRow.by = "event" => LastRow.package = ChainPackage
        <3> SUFFICES ASSUME LastRow.by = "event" PROVE LastRow.package = ChainPackage
            OBVIOUS
        <3>1. LastRow.tx \in events /\ LastRow.package = bought[LastRow.tx]
            BY <2>3 DEF PurchasesInv, RowsKnown, LastRow
        <3>2. Len(bought) <= LastRow.tx
            BY <2>1, <2>2, <2>3 DEF LastEvent
        <3>3. LastRow.tx <= Len(bought)
            BY <2>1, <3>1 DEF Txs
        <3> QED
            BY <2>1, <3>1, <3>2, <3>3
    <2>6. LastRow.package = ChainPackage \/ Overtakes(Len(rows))
        BY <2>1, <2>2, <2>5 DEF CopyHolds
    <2> QED
        BY <2>4, <2>6 DEF LastRow
<1> QED
    BY PurchasesInvariant, <1>1, PTL
=============================================================================
