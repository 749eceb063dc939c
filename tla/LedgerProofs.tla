----------------------------- MODULE LedgerProofs -----------------------------
(***************************************************************************)
(* Theorems of IncomeLedger and PoolPayout, for every finite set of users, *)
(* every tree and cap, any number of callers and jobs, and all lengths of  *)
(* days, periods and locks.                                                *)
(***************************************************************************)
EXTENDS PoolPayout, SumsProofs

(***************************************************************************)
(* What grants, rows and drafts are.  Draft folds Booked over the shares,  *)
(* as a recursive function on the sets of their positions.                 *)
(***************************************************************************)

MaybeUser == Users \cup {NoUser}
Shares == [to : MaybeUser, amount : Nat]
IncomeRows ==
    [user : Users, amount : Nat, of : Sources, created : 0 .. MaxTime, until : 0 .. MaxTime,
     status : {"locked", "unlocked", "burned"}]
NewRows == [user : Users, amount : Nat, of : Sources, created : 0 .. MaxTime, until : 0 .. MaxTime,
            status : {"locked"}]
Drafts == [rows : Seq(NewRows), burnt : Nat]

\* The recursive function of the fold that Draft is.
Drafting(shares, day, source, S, g) ==
    g = [s \in SUBSET S |->
            IF s = {} THEN NoDraft
            ELSE Booked(g[s \ {Max(s)}], shares[Max(s)], day, source)]

LEMMA DraftAsFunction ==
    ASSUME NEW shares, NEW day, NEW source
    PROVE  Draft(shares, day, source)
             = (CHOOSE g : Drafting(shares, day, source, DOMAIN shares, g))[DOMAIN shares]
BY DEF Draft, FoldLeft, MapThenFoldSet, Drafting

\* The last of finitely many positions.
LEMMA MaxIn ==
    ASSUME NEW n \in Nat, NEW s \in SUBSET (1 .. n), s # {}
    PROVE  Max(s) \in s /\ \A x \in s : Max(s) >= x
<1> DEFINE B == {k \in Nat : \E x \in s : k = n - x}
<1>1. B \in SUBSET Nat /\ B # {}
    <2>1. PICK x \in s : TRUE
        OBVIOUS
    <2>2. x \in 1 .. n /\ n - x \in Nat
        BY <2>1
    <2> QED
        BY <2>2
<1>2. PICK k \in B : \A m \in B : k <= m
    <2> HIDE DEF B
    <2> QED
        BY <1>1, LeastNatural
<1>3. PICK x \in s : k = n - x
    BY <1>2
<1>4. \A y \in s : x >= y
    <2> SUFFICES ASSUME NEW y \in s PROVE x >= y
        OBVIOUS
    <2>1. x \in 1 .. n /\ y \in 1 .. n /\ n - y \in B
        OBVIOUS
    <2>2. n - x <= n - y
        BY <1>2, <1>3, <2>1
    <2> QED
        BY <2>1, <2>2
<1> QED
    BY <1>3, <1>4 DEF Max

\* Two such functions agree where both are defined.
LEMMA DraftingUnique ==
    ASSUME NEW S, IsFiniteSet(S), \A s \in SUBSET S : s # {} => Max(s) \in s, NEW T, S \subseteq T,
           NEW shares, NEW day, NEW source, NEW g, NEW h,
           Drafting(shares, day, source, S, g), Drafting(shares, day, source, T, h)
    PROVE  \A s \in SUBSET S : g[s] = h[s]
<1> DEFINE B == {s \in SUBSET S : g[s] # h[s]}
<1> SUFFICES ASSUME B # {} PROVE FALSE
    OBVIOUS
<1>1. PICK s \in B : \A r \in B : r \subseteq s => r = s
    <2>1. B \in SUBSET (SUBSET S)
        OBVIOUS
    <2> HIDE DEF B
    <2> QED
        BY <2>1, SmallestSubset
<1>2. s \in SUBSET S /\ s \in SUBSET T /\ g[s] # h[s]
    BY <1>1
<1>3. /\ g[s] = IF s = {} THEN NoDraft ELSE Booked(g[s \ {Max(s)}], shares[Max(s)], day, source)
      /\ h[s] = IF s = {} THEN NoDraft ELSE Booked(h[s \ {Max(s)}], shares[Max(s)], day, source)
    BY <1>2 DEF Drafting
<1>4. s # {} /\ Max(s) \in s
    BY <1>2, <1>3
<1>5. s \ {Max(s)} \notin B /\ s \ {Max(s)} \in SUBSET S
    BY <1>1, <1>2, <1>4
<1>6. g[s \ {Max(s)}] = h[s \ {Max(s)}]
    BY <1>5
<1> QED
    BY <1>2, <1>3, <1>4, <1>6

LEMMA DraftingExists ==
    ASSUME NEW n \in Nat, NEW shares, NEW day, NEW source
    PROVE  \E g : Drafting(shares, day, source, 1 .. n, g)
<1> DEFINE Has(s) == \E g : Drafting(shares, day, source, s, g)
           S == 1 .. n
           B == {s \in SUBSET S : ~Has(s)}
<1> SUFFICES ASSUME B # {} PROVE FALSE
    OBVIOUS
<1>0. IsFiniteSet(S)
    BY FS_Interval
<1>1. PICK s \in B : \A r \in B : r \subseteq s => r = s
    <2>1. B \in SUBSET (SUBSET S)
        OBVIOUS
    <2> HIDE DEF B, S
    <2> QED
        BY <1>0, <2>1, SmallestSubset
<1>2. s \in SUBSET S /\ ~Has(s)
    BY <1>1
<1> DEFINE F(r) == CHOOSE g : Drafting(shares, day, source, r, g)
           V(r) == F(r)[r]
<1>3. \A r \in SUBSET s : r # s => Drafting(shares, day, source, r, F(r))
    BY <1>1, <1>2
<1> HIDE DEF Has
<1>4. \A r \in SUBSET s : r # s =>
          V(r) = IF r = {} THEN NoDraft ELSE Booked(V(r \ {Max(r)}), shares[Max(r)], day, source)
    <2> SUFFICES ASSUME NEW r \in SUBSET s, r # s
                 PROVE  V(r) = IF r = {} THEN NoDraft
                               ELSE Booked(V(r \ {Max(r)}), shares[Max(r)], day, source)
        OBVIOUS
    <2> DEFINE g == F(r)
               q == r \ {Max(r)}
               h == F(q)
    <2>1. Drafting(shares, day, source, r, g) /\ r \in SUBSET S
        BY <1>2, <1>3
    <2>2. g[r] = IF r = {} THEN NoDraft ELSE Booked(g[q], shares[Max(r)], day, source)
        BY <2>1 DEF Drafting
    <2>3. CASE r = {}
        BY <2>2, <2>3
    <2>4. CASE r # {}
        <3>1. q \in SUBSET s /\ q # s /\ q \subseteq r /\ q \in SUBSET S
            <4>1. Max(r) \in r
                BY <2>1, <2>4, MaxIn
            <4> QED
                BY <1>2, <4>1
        <3>2. Drafting(shares, day, source, q, h)
            BY <1>3, <3>1
        <3> HIDE DEF g, h, q
        <3>3. h[q] = g[q]
            <4>1. IsFiniteSet(q) /\ \A t \in SUBSET q : t # {} => Max(t) \in t
                BY <1>0, <3>1, MaxIn, FS_Subset
            <4> HIDE DEF S
            <4>2. \A t \in SUBSET q : h[t] = g[t]
                BY <2>1, <3>1, <3>2, <4>1, DraftingUnique
            <4> QED
                BY <4>2
        <3>4. V(r) = g[r] /\ V(q) = h[q]
            BY DEF g, h
        <3> QED
            BY <2>2, <2>4, <3>3, <3>4 DEF q
    <2> QED
        BY <2>3, <2>4
<1> DEFINE G == [r \in SUBSET s |-> IF r = {} THEN NoDraft
                                    ELSE Booked(V(r \ {Max(r)}), shares[Max(r)], day, source)]
<1> HIDE DEF V
<1>5. \A r \in SUBSET s : r # {} => G[r \ {Max(r)}] = V(r \ {Max(r)})
    <2> SUFFICES ASSUME NEW r \in SUBSET s, r # {}
                 PROVE  G[r \ {Max(r)}] = V(r \ {Max(r)})
        OBVIOUS
    <2>1. PICK q : q = r \ {Max(r)}
        OBVIOUS
    <2>2. q \in SUBSET s /\ q # s
        <3>1. r \in SUBSET (1 .. n)
            BY <1>2
        <3>2. Max(r) \in r
            BY <3>1, MaxIn
        <3> QED
            BY <2>1, <3>2
    <2>3. G[q] = V(q)
        BY <1>4, <2>2
    <2> QED
        BY <2>1, <2>3
<1>6. Drafting(shares, day, source, s, G)
    <2>1. \A r \in SUBSET s :
            G[r] = IF r = {} THEN NoDraft ELSE Booked(G[r \ {Max(r)}], shares[Max(r)], day, source)
        <3> SUFFICES ASSUME NEW r \in SUBSET s
                     PROVE  G[r] = IF r = {} THEN NoDraft
                                   ELSE Booked(G[r \ {Max(r)}], shares[Max(r)], day, source)
            OBVIOUS
        <3>1. G[r] = IF r = {} THEN NoDraft ELSE Booked(V(r \ {Max(r)}), shares[Max(r)], day, source)
            OBVIOUS
        <3>2. r # {} => G[r \ {Max(r)}] = V(r \ {Max(r)})
            BY <1>5
        <3> HIDE DEF G
        <3> QED
            BY <3>1, <3>2
    <2>2. G = [r \in SUBSET s |-> G[r]]
        OBVIOUS
    <2> HIDE DEF G
    <2> QED
        BY <2>1, <2>2 DEF Drafting
<1> QED
    BY <1>2, <1>6 DEF Has

\* What the empty draft is in, and every booking stays in, the draft is in.
LEMMA DraftIn ==
    ASSUME NEW D, NoDraft \in D, NEW shares \in Seq(Shares), NEW day, NEW source,
           \A d \in D, share \in Shares : Booked(d, share, day, source) \in D
    PROVE  Draft(shares, day, source) \in D
<1> DEFINE n == Len(shares)
           S == 1 .. n
           g == CHOOSE x : Drafting(shares, day, source, S, x)
           B == {s \in SUBSET S : g[s] \notin D}
<1>0. n \in Nat /\ DOMAIN shares = S /\ \A i \in S : shares[i] \in Shares
    OBVIOUS
<1>1. Draft(shares, day, source) = g[S]
    BY <1>0, DraftAsFunction
<1>2. Drafting(shares, day, source, S, g)
    BY <1>0, DraftingExists
<1>3. IsFiniteSet(S)
    BY <1>0, FS_Interval
<1> HIDE DEF g, n
<1> SUFFICES ASSUME B # {} PROVE FALSE
    BY <1>1
<1>4. PICK s \in B : \A r \in B : r \subseteq s => r = s
    <2>1. B \in SUBSET (SUBSET S)
        OBVIOUS
    <2> HIDE DEF B, S
    <2> QED
        BY <1>3, <2>1, SmallestSubset
<1>5. s \in SUBSET S /\ g[s] \notin D
    BY <1>4
<1>6. g[s] = IF s = {} THEN NoDraft ELSE Booked(g[s \ {Max(s)}], shares[Max(s)], day, source)
    BY <1>2, <1>5 DEF Drafting
<1>7. s # {} /\ Max(s) \in s
    BY <1>0, <1>5, <1>6, MaxIn
<1>8. g[s \ {Max(s)}] \in D /\ shares[Max(s)] \in Shares
    <2>1. s \ {Max(s)} \in SUBSET S /\ s \ {Max(s)} \notin B
        BY <1>4, <1>5, <1>7
    <2> QED
        BY <1>0, <1>5, <1>7, <2>1
<1> QED
    BY <1>5, <1>6, <1>7, <1>8

(***************************************************************************)
(* What rows grant a user on a day.                                        *)
(***************************************************************************)

LEMMA MaxPair ==
    ASSUME NEW a \in Int, NEW b \in Int
    PROVE  Max({a, b}) = IF a >= b THEN a ELSE b
BY DEF Max

LEMMA MinPair ==
    ASSUME NEW a \in Int, NEW b \in Int
    PROVE  Min({a, b}) = IF a <= b THEN a ELSE b
BY DEF Min

\* What rows grant a user on a day.
OnDay(rows, u, day) == {i \in DOMAIN rows : rows[i].user = u /\ DayStart(rows[i].created) = day}
Total(rows, u, day) == SumOver(OnDay(rows, u, day), [i \in DOMAIN rows |-> rows[i].amount])

LEMMA OnDayFinite ==
    ASSUME NEW rows \in Seq(IncomeRows), NEW u, NEW day
    PROVE  /\ IsFiniteSet(OnDay(rows, u, day)) /\ OnDay(rows, u, day) \subseteq DOMAIN rows
           /\ \A i \in DOMAIN rows : [j \in DOMAIN rows |-> rows[j].amount][i] \in Nat
<1>1. IsFiniteSet(DOMAIN rows) /\ OnDay(rows, u, day) \in SUBSET DOMAIN rows
    <2>1. DOMAIN rows = 1 .. Len(rows) /\ Len(rows) \in Nat
        OBVIOUS
    <2>2. IsFiniteSet(1 .. Len(rows))
        BY <2>1, FS_Interval
    <2> QED
        BY <2>1, <2>2 DEF OnDay
<1>2. IsFiniteSet(OnDay(rows, u, day))
    BY <1>1, FS_Subset
<1>3. \A i \in DOMAIN rows : rows[i].amount \in Nat
    <2>1. \A i \in DOMAIN rows : rows[i] \in IncomeRows
        OBVIOUS
    <2> QED
        BY <2>1 DEF IncomeRows
<1> QED
    BY <1>1, <1>2, <1>3

LEMMA TotalNat ==
    ASSUME NEW rows \in Seq(IncomeRows), NEW u, NEW day
    PROVE  Total(rows, u, day) \in Nat
<1>1. PICK f : f = [j \in DOMAIN rows |-> rows[j].amount]
    OBVIOUS
<1>2. PICK S : S = OnDay(rows, u, day)
    OBVIOUS
<1>3. IsFiniteSet(S) /\ \A i \in S : f[i] \in Nat
    BY <1>1, <1>2, OnDayFinite
<1>4. SumOver(S, f) \in Nat
    BY <1>3, SumNat
<1> QED
    BY <1>1, <1>2, <1>4 DEF Total

LEMMA TotalEmpty == ASSUME NEW u, NEW day PROVE Total(<<>>, u, day) = 0
<1>1. OnDay(<<>>, u, day) = {}
    BY DEF OnDay
<1> QED
    BY <1>1, SumEmpty DEF Total

LEMMA TotalAppend ==
    ASSUME NEW rows \in Seq(IncomeRows), NEW r \in IncomeRows, NEW u, NEW day
    PROVE  Total(Append(rows, r), u, day)
             = Total(rows, u, day) + IF r.user = u /\ DayStart(r.created) = day THEN r.amount ELSE 0
<1>1. PICK more \in Seq(IncomeRows) : more = Append(rows, r)
    BY AppendProperties
<1>2. PICK n \in Nat : n = Len(rows)
    OBVIOUS
<1>3. /\ DOMAIN rows = 1 .. n /\ DOMAIN more = 1 .. (n + 1)
      /\ \A i \in 1 .. n : more[i] = rows[i]
      /\ more[n + 1] = r
    BY <1>1, <1>2
<1>4. PICK f : f = [j \in DOMAIN rows |-> rows[j].amount]
    OBVIOUS
<1>5. PICK g : g = [j \in DOMAIN more |-> more[j].amount]
    OBVIOUS
<1>6. PICK S : S = OnDay(rows, u, day)
    OBVIOUS
<1>7. PICK T : T = OnDay(more, u, day)
    OBVIOUS
<1>8. IsFiniteSet(S) /\ S \subseteq 1 .. n /\ \A i \in S : f[i] \in Int
    BY <1>3, <1>4, <1>6, OnDayFinite
<1>9. \A i \in T : g[i] \in Int
    BY <1>5, <1>7, OnDayFinite
<1>10. \A i \in S : g[i] = f[i]
    BY <1>3, <1>4, <1>5, <1>8
<1>11. SumOver(S, g) = SumOver(S, f) /\ SumOver(S, f) \in Int
    BY <1>8, <1>10, SumSame, SumInt
<1>12. T = IF r.user = u /\ DayStart(r.created) = day THEN S \cup {n + 1} ELSE S
    <2>1. \A i \in 1 .. (n + 1) : i = n + 1 \/ i \in 1 .. n
        OBVIOUS
    <2>2. n + 1 \notin 1 .. n /\ \A i \in 1 .. n : i \in 1 .. (n + 1) /\ i # n + 1
        OBVIOUS
    <2>3. n + 1 \in 1 .. (n + 1)
        OBVIOUS
    <2> QED
        BY <1>3, <1>6, <1>7, <2>1, <2>2, <2>3 DEF OnDay
<1>13. CASE r.user = u /\ DayStart(r.created) = day
    <2>1. n + 1 \notin S /\ T = S \cup {n + 1}
        BY <1>8, <1>12, <1>13
    <2>2. \A i \in S \cup {n + 1} : g[i] \in Int
        BY <1>9, <2>1
    <2>3. SumOver(S \cup {n + 1}, g) = g[n + 1] + SumOver(S, g)
        <3>1. PICK m : m = n + 1
            OBVIOUS
        <3>2. m \notin S /\ \A i \in S \cup {m} : g[i] \in Int
            BY <2>1, <2>2, <3>1
        <3>3. SumOver(S \cup {m}, g) = g[m] + SumOver(S, g)
            BY <1>8, <3>2, SumAdd
        <3> QED
            BY <3>1, <3>3
    <2>4. g[n + 1] = r.amount /\ r.amount \in Int
        BY <1>3, <1>5 DEF IncomeRows
    <2>5. SumOver(T, g) = SumOver(S, f) + r.amount
        BY <1>11, <2>1, <2>3, <2>4
    <2> QED
        BY <1>1, <1>4, <1>5, <1>6, <1>7, <1>13, <2>5 DEF Total
<1>14. CASE ~(r.user = u /\ DayStart(r.created) = day)
    <2>1. T = S
        BY <1>12, <1>14
    <2> QED
        BY <1>1, <1>4, <1>5, <1>6, <1>7, <1>11, <1>14, <2>1 DEF Total
<1> QED
    BY <1>13, <1>14

\* Rows of which only the status differs grant the same.
LEMMA TotalSame ==
    ASSUME NEW rows \in Seq(IncomeRows), NEW more, DOMAIN more = DOMAIN rows,
           \A i \in DOMAIN rows :
              /\ more[i].user = rows[i].user /\ more[i].created = rows[i].created
              /\ more[i].amount = rows[i].amount,
           NEW u, NEW day
    PROVE  Total(more, u, day) = Total(rows, u, day)
<1>1. OnDay(more, u, day) = OnDay(rows, u, day)
    BY DEF OnDay
<1>2. [j \in DOMAIN more |-> more[j].amount] = [j \in DOMAIN rows |-> rows[j].amount]
    OBVIOUS
<1> QED
    BY <1>1, <1>2 DEF Total

LEMMA TotalConcat ==
    ASSUME NEW rows \in Seq(IncomeRows), NEW more \in Seq(IncomeRows), NEW u, NEW day
    PROVE  Total(rows \o more, u, day) = Total(rows, u, day) + Total(more, u, day)
<1> DEFINE Good(s) == Total(rows \o s, u, day) = Total(rows, u, day) + Total(s, u, day)
           P == {k \in Nat : \A s \in Seq(IncomeRows) : Len(s) = k => Good(s)}
<1>1. 0 \in P
    <2> SUFFICES ASSUME NEW s \in Seq(IncomeRows), Len(s) = 0 PROVE Good(s)
        OBVIOUS
    <2>1. s = <<>>
        BY EmptySeq
    <2>2. rows \o s = rows
        BY <2>1, ConcatEmptySeq
    <2>3. Total(rows, u, day) \in Nat
        BY TotalNat
    <2> QED
        BY <2>1, <2>2, <2>3, TotalEmpty
<1>2. ASSUME NEW k \in Nat, k \in P PROVE k + 1 \in P
    <2> SUFFICES ASSUME NEW s \in Seq(IncomeRows), Len(s) = k + 1 PROVE Good(s)
        OBVIOUS
    <2>1. PICK t \in Seq(IncomeRows), r \in IncomeRows : s = Append(t, r) /\ Len(t) = k
        <3>1. s # <<>>
            BY EmptySeq
        <3>2. PICK t \in Seq(IncomeRows), r \in IncomeRows : s = Append(t, r)
            BY <3>1, SequenceEmptyOrAppend
        <3>3. Len(s) = Len(t) + 1 /\ Len(t) \in Nat
            BY <3>2, AppendProperties
        <3> QED
            BY <3>2, <3>3
    <2>2. Good(t)
        BY <1>2, <2>1
    <2>3. rows \o s = Append(rows \o t, r)
        <3>1. s = t \o <<r>> /\ rows \o t \in Seq(IncomeRows) /\ <<r>> \in Seq(IncomeRows)
            BY <2>1, AppendIsConcat, ConcatProperties
        <3>2. rows \o (t \o <<r>>) = (rows \o t) \o <<r>>
            BY <3>1, ConcatAssociative
        <3> QED
            BY <3>1, <3>2, AppendIsConcat
    <2>4. PICK z \in Nat : z = IF r.user = u /\ DayStart(r.created) = day THEN r.amount ELSE 0
        BY DEF IncomeRows
    <2>5. Total(s, u, day) = Total(t, u, day) + z
        BY <2>1, <2>4, TotalAppend
    <2>6. Total(rows \o s, u, day) = Total(rows \o t, u, day) + z
        <3>1. PICK q \in Seq(IncomeRows) : q = rows \o t
            BY ConcatProperties
        <3>2. Total(Append(q, r), u, day) = Total(q, u, day) + z
            <4>1. r \in IncomeRows
                BY <2>1
            <4>2. Total(Append(q, r), u, day)
                    = Total(q, u, day) + IF r.user = u /\ DayStart(r.created) = day THEN r.amount ELSE 0
                BY <4>1, TotalAppend
            <4> QED
                BY <2>4, <4>2
        <3> QED
            BY <2>3, <3>1, <3>2
    <2>7. Total(t, u, day) \in Nat /\ Total(rows, u, day) \in Nat
        BY TotalNat
    <2> QED
        BY <2>2, <2>5, <2>6, <2>7
<1>3. \A k \in Nat : k \in P
    <2> HIDE DEF P
    <2> QED
        BY <1>1, <1>2, AllNaturals
<1>4. Len(more) \in Nat
    OBVIOUS
<1> QED
    BY <1>3, <1>4

\* A draft made now for a source.
RowsNow(source) ==
    [user : Users, amount : Nat, of : {source}, created : {now}, until : {now + LockTicks},
     status : {"locked"}]

LEMMA RowsNowAreRows ==
    ASSUME NEW source \in Sources, now \in 0 .. MaxTime, now + LockTicks \in 0 .. MaxTime
    PROVE  /\ RowsNow(source) \subseteq NewRows /\ NewRows \subseteq IncomeRows
           /\ Seq(RowsNow(source)) \subseteq Seq(NewRows) /\ Seq(NewRows) \subseteq Seq(IncomeRows)
<1>1. RowsNow(source) \subseteq NewRows /\ NewRows \subseteq IncomeRows
    BY DEF RowsNow, NewRows, IncomeRows
<1> QED
    BY <1>1

\* All rows of a draft are of the day under way.
LEMMA DraftedIsTotal ==
    ASSUME NEW source, NEW rows \in Seq(RowsNow(source)), NEW u
    PROVE  Drafted(rows, u) = Total(rows, u, DayStart(now))
<1>1. \A i \in DOMAIN rows : rows[i] \in RowsNow(source)
    OBVIOUS
<1>2. \A i \in DOMAIN rows : rows[i].created = now
    BY <1>1 DEF RowsNow
<1>3. {i \in DOMAIN rows : rows[i].user = u} = OnDay(rows, u, DayStart(now))
    BY <1>2 DEF OnDay
<1> QED
    BY <1>3 DEF Drafted, Total

LEMMA SumIsTotal ==
    ASSUME NEW u, NEW day
    PROVE  Sum(CreatedOn(u, day)) = Total(income, u, day)
BY DEF Sum, CreatedOn, Total, OnDay

(***************************************************************************)
(* A draft fits the cap of the user.                                       *)
(***************************************************************************)

DraftsOf(source) == [rows : Seq(RowsNow(source)), burnt : Nat]

\* A draft judged by the room of its own day stays within it.
Fits(rows, day) ==
    day = DayStart(now) =>
        \A u \in Users : Drafted(rows, u) > 0 => Total(income, u, day) + Drafted(rows, u) <= Cap[u]

LEMMA AppendDrafted ==
    ASSUME NEW source \in Sources, now \in 0 .. MaxTime, now + LockTicks \in 0 .. MaxTime,
           NEW rows \in Seq(RowsNow(source)), NEW to \in Users, NEW amount \in Nat, NEW u
    PROVE  /\ Append(rows, Row(to, amount, source)) \in Seq(RowsNow(source))
           /\ Drafted(Append(rows, Row(to, amount, source)), u)
                = Drafted(rows, u) + IF to = u THEN amount ELSE 0
<1>1. PICK r \in RowsNow(source) : r = Row(to, amount, source)
    BY DEF Row, RowsNow
<1>2. PICK more \in Seq(RowsNow(source)) : more = Append(rows, r)
    BY AppendProperties
<1>3. rows \in Seq(IncomeRows) /\ r \in IncomeRows
    BY RowsNowAreRows
<1>4. PICK day : day = DayStart(now)
    OBVIOUS
<1>5. r.user = to /\ r.amount = amount /\ r.created = now
    BY <1>1 DEF Row
<1>6. Total(Append(rows, r), u, day)
        = Total(rows, u, day) + IF r.user = u /\ DayStart(r.created) = day THEN r.amount ELSE 0
    BY <1>3, TotalAppend
<1>7. Drafted(rows, u) = Total(rows, u, day) /\ Drafted(more, u) = Total(more, u, day)
    BY <1>4, DraftedIsTotal
<1>8. Total(more, u, day) = Total(rows, u, day) + IF to = u THEN amount ELSE 0
    BY <1>2, <1>4, <1>5, <1>6
<1> QED
    BY <1>1, <1>2, <1>7, <1>8

LEMMA DraftedNat ==
    ASSUME NEW source \in Sources, now \in 0 .. MaxTime, now + LockTicks \in 0 .. MaxTime,
           NEW rows \in Seq(RowsNow(source)), NEW u
    PROVE  Drafted(rows, u) \in Nat
<1>1. rows \in Seq(IncomeRows)
    BY RowsNowAreRows
<1>2. Total(rows, u, DayStart(now)) \in Nat
    BY <1>1, TotalNat
<1> QED
    BY <1>2, DraftedIsTotal

LEMMA BookedFits ==
    ASSUME NEW source \in Sources, now \in 0 .. MaxTime, now + LockTicks \in 0 .. MaxTime,
           income \in Seq(IncomeRows), NEW day, NEW d \in DraftsOf(source), Fits(d.rows, day),
           NEW share \in Shares
    PROVE  /\ Booked(d, share, day, source) \in DraftsOf(source)
           /\ Fits(Booked(d, share, day, source).rows, day)
<1>0. d.rows \in Seq(RowsNow(source)) /\ d.burnt \in Nat /\ share.amount \in Nat
    BY DEF DraftsOf, Shares
<1>1. CASE share.to = NoUser
    <2>1. Booked(d, share, day, source) = [d EXCEPT !.burnt = @ + share.amount]
        BY <1>1 DEF Booked
    <2>2. [d EXCEPT !.burnt = @ + share.amount] \in DraftsOf(source)
        BY <1>0 DEF DraftsOf
    <2>3. [d EXCEPT !.burnt = @ + share.amount].rows = d.rows
        BY DEF DraftsOf
    <2> QED
        BY <2>1, <2>2, <2>3
<1>2. CASE share.to # NoUser
    <2>1. PICK to \in Users : to = share.to
        BY <1>2 DEF Shares, MaybeUser
    <2>2. PICK used \in Nat : used = Used(to, day, d)
        <3>1. Total(income, to, day) \in Nat /\ Drafted(d.rows, to) \in Nat
            BY <1>0, TotalNat, DraftedNat
        <3> QED
            BY <3>1, SumIsTotal DEF Used
    <2>3. Cap[to] \in Nat
        BY TreeAssumption
    <2>4. PICK room \in Nat : room = Room(to, day, d) /\ (room > 0 => used + room <= Cap[to])
        <3>1. Room(to, day, d) = IF 0 >= Cap[to] - used THEN 0 ELSE Cap[to] - used
            BY <2>2, <2>3, MaxPair DEF Room
        <3> QED
            BY <3>1, <2>2, <2>3
    <2>5. PICK grant \in Nat : grant = Min({share.amount, room}) /\ grant <= share.amount /\ grant <= room
        <3>1. Min({share.amount, room}) = IF share.amount <= room THEN share.amount ELSE room
            BY <1>0, MinPair
        <3> QED
            BY <3>1, <1>0
    <2>6. Booked(d, share, day, source)
            = [rows |-> WithRow(d.rows, to, grant, source), burnt |-> d.burnt + share.amount - grant]
        BY <1>2, <2>1, <2>4, <2>5 DEF Booked, Granted
    <2>7. d.burnt + share.amount - grant \in Nat
        BY <1>0, <2>5
    <2>8. CASE grant = 0
        <3>1. WithRow(d.rows, to, grant, source) = d.rows
            BY <2>8 DEF WithRow
        <3> QED
            BY <1>0, <2>6, <2>7, <3>1 DEF DraftsOf
    <2>9. CASE grant > 0
        <3>1. PICK more \in Seq(RowsNow(source)) :
                /\ more = Append(d.rows, Row(to, grant, source))
                /\ \A u : Drafted(more, u) = Drafted(d.rows, u) + IF to = u THEN grant ELSE 0
            <4>1. PICK rows \in Seq(RowsNow(source)) : rows = d.rows
                BY <1>0
            <4>2. \A u : /\ Append(rows, Row(to, grant, source)) \in Seq(RowsNow(source))
                         /\ Drafted(Append(rows, Row(to, grant, source)), u)
                              = Drafted(rows, u) + IF to = u THEN grant ELSE 0
                BY AppendDrafted
            <4> QED
                BY <4>1, <4>2
        <3>2. WithRow(d.rows, to, grant, source) = more
            BY <2>9, <3>1 DEF WithRow
        <3>3. PICK b \in Drafts : b = Booked(d, share, day, source) /\ b.rows = more /\ b \in DraftsOf(source)
            <4>1. [rows |-> more, burnt |-> d.burnt + share.amount - grant] \in DraftsOf(source)
                BY <2>7, <3>1 DEF DraftsOf
            <4>2. DraftsOf(source) \subseteq Drafts
                BY RowsNowAreRows DEF DraftsOf, Drafts
            <4> QED
                BY <2>6, <3>2, <4>1, <4>2
        <3>4. ASSUME day = DayStart(now), NEW u \in Users, Drafted(more, u) > 0
              PROVE  Total(income, u, day) + Drafted(more, u) <= Cap[u]
            <4>1. CASE u = to
                <5>1. used = Total(income, to, day) + Drafted(d.rows, to)
                    BY <2>2, <3>4, SumIsTotal DEF Used
                <5>2. Drafted(more, to) = Drafted(d.rows, to) + grant
                    BY <3>1
                <5>3. Total(income, to, day) \in Nat /\ Drafted(d.rows, to) \in Nat
                    BY <1>0, TotalNat, DraftedNat
                <5> QED
                    BY <2>3, <2>4, <2>5, <2>9, <4>1, <5>1, <5>2, <5>3
            <4>2. CASE u # to
                <5>1. Drafted(d.rows, u) \in Nat
                    BY <1>0, DraftedNat
                <5>2. Drafted(more, u) = Drafted(d.rows, u)
                    BY <3>1, <4>2, <5>1
                <5> QED
                    BY <3>4, <5>2 DEF Fits
            <4> QED
                BY <4>1, <4>2
        <3>5. Fits(more, day)
            BY <3>4 DEF Fits
        <3> QED
            BY <3>3, <3>5
    <2> QED
        BY <2>8, <2>9
<1> QED
    BY <1>1, <1>2

LEMMA DraftTyped ==
    ASSUME NEW source \in Sources, now \in 0 .. MaxTime, now + LockTicks \in 0 .. MaxTime,
           income \in Seq(IncomeRows), NEW day, NEW shares \in Seq(Shares)
    PROVE  /\ Draft(shares, day, source) \in DraftsOf(source)
           /\ Fits(Draft(shares, day, source).rows, day)
<1> DEFINE D == {d \in DraftsOf(source) : Fits(d.rows, day)}
<1>1. NoDraft \in D
    <2>1. NoDraft \in DraftsOf(source)
        <3>1. <<>> \in Seq(RowsNow(source))
            OBVIOUS
        <3> QED
            BY <3>1 DEF NoDraft, DraftsOf
    <2>2. \A u : Drafted(<<>>, u) = 0
        <3>1. \A u : {i \in DOMAIN <<>> : <<>>[i].user = u} = {}
            OBVIOUS
        <3> QED
            BY <3>1, SumEmpty DEF Drafted
    <2>3. Fits(NoDraft.rows, day)
        BY <2>2 DEF Fits, NoDraft
    <2> QED
        BY <2>1, <2>3
<1>2. \A d \in D, share \in Shares : Booked(d, share, day, source) \in D
    BY BookedFits
<1> HIDE DEF D
<1>3. Draft(shares, day, source) \in D
    BY <1>1, <1>2, DraftIn
<1> QED
    BY <1>3 DEF D

(***************************************************************************)
(* Shares have users and amounts.                                          *)
(***************************************************************************)

LEMMA QuotientNat ==
    ASSUME NEW a \in Nat, NEW b \in Nat, b > 0
    PROVE  a \div b \in Nat
OBVIOUS

LEMMA PctNat ==
    ASSUME NEW a \in DOMAIN Activation, NEW part \in Nat
    PROVE  Pct(a, part) \in Nat
<1>1. PICK price \in Nat : price = Activation[a].price
    BY SourceAssumption
<1>2. price * part \in Nat
    OBVIOUS
<1>3. (price * part) \div 100 \in Nat
    BY <1>2
<1> QED
    BY <1>1, <1>3 DEF Pct

\* The recursive function that Ancestor climbs with.
Ups(u, n, g) == g = [i \in 0 .. n |-> IF i = 0 THEN u ELSE Above(g[i - 1])]

LEMMA UpsExists ==
    ASSUME NEW u, NEW m \in Nat
    PROVE  \E g : Ups(u, m, g)
<1> DEFINE P == {n \in Nat : \E g : Ups(u, n, g)}
<1>1. 0 \in P
    <2>1. Ups(u, 0, [i \in 0 .. 0 |-> u])
        BY DEF Ups
    <2> QED
        BY <2>1
<1>2. ASSUME NEW k \in Nat, k \in P PROVE k + 1 \in P
    <2>1. PICK g : Ups(u, k, g)
        BY <1>2
    <2>2. PICK h : h = [i \in 0 .. (k + 1) |-> IF i = 0 THEN u ELSE Above(g[i - 1])]
        OBVIOUS
    <2>3. \A i \in 0 .. k : h[i] = g[i]
        BY <2>1, <2>2 DEF Ups
    <2>4. \A i \in 0 .. (k + 1) : i # 0 => i - 1 \in 0 .. k
        OBVIOUS
    <2>5. \A i \in 0 .. (k + 1) :
            (IF i = 0 THEN u ELSE Above(g[i - 1])) = IF i = 0 THEN u ELSE Above(h[i - 1])
        BY <2>3, <2>4
    <2>6. h = [i \in 0 .. (k + 1) |-> IF i = 0 THEN u ELSE Above(h[i - 1])]
        BY <2>2, <2>5
    <2> QED
        BY <2>6 DEF Ups
<1>3. \A k \in Nat : k \in P
    <2> HIDE DEF P
    <2> QED
        BY <1>1, <1>2, AllNaturals
<1> QED
    BY <1>3

LEMMA AncestorTyped ==
    ASSUME NEW u \in MaybeUser, NEW n \in 0 .. MaxLevels
    PROVE  Ancestor(u, n) \in MaybeUser
<1>0. MaxLevels \in Nat
    BY BoundAssumption
<1>1. PICK g : Ups(u, MaxLevels, g) /\ Ancestor(u, n) = g[n]
    <2> DEFINE g == CHOOSE x : Ups(u, MaxLevels, x)
    <2>1. Ups(u, MaxLevels, g)
        BY <1>0, UpsExists
    <2>2. Ancestor(u, n) = g[n]
        BY DEF Ancestor, Ups
    <2> QED
        BY <2>1, <2>2
<1> DEFINE P == {k \in Nat : k <= MaxLevels => g[k] \in MaybeUser}
<1>2. 0 \in P
    BY <1>0, <1>1 DEF Ups
<1>3. ASSUME NEW k \in Nat, k \in P PROVE k + 1 \in P
    <2> SUFFICES ASSUME k + 1 <= MaxLevels PROVE g[k + 1] \in MaybeUser
        OBVIOUS
    <2>1. k + 1 \in 0 .. MaxLevels /\ k + 1 # 0 /\ (k + 1) - 1 = k
        BY <1>0
    <2>2. g[k + 1] = Above(g[k])
        BY <1>1, <2>1 DEF Ups
    <2>3. g[k] \in MaybeUser
        BY <1>0, <1>3
    <2> QED
        BY <2>2, <2>3, TreeAssumption DEF Above, MaybeUser
<1>4. \A k \in Nat : k \in P
    <2> HIDE DEF P
    <2> QED
        BY <1>2, <1>3, AllNaturals
<1> QED
    BY <1>0, <1>1, <1>4

LEMMA EntitledTyped ==
    ASSUME NEW a \in DOMAIN Activation, NEW depth \in 1 .. MaxLevels
    PROVE  EffectiveSponsor(a) \in MaybeUser /\ Entitled(a, depth) \in MaybeUser
<1>1. EffectiveSponsor(a) \in MaybeUser
    BY SourceAssumption, TreeAssumption DEF EffectiveSponsor, MaybeUser
<1>2. depth - 1 \in 0 .. MaxLevels
    BY BoundAssumption
<1>3. PayoutChain(a, depth) \in MaybeUser
    BY <1>1, <1>2, AncestorTyped DEF PayoutChain
<1> QED
    BY <1>1, <1>3 DEF Entitled, MaybeUser

LEMMA ShareTyped ==
    ASSUME NEW to \in MaybeUser, NEW amount \in Nat
    PROVE  Share(to, amount) \in Shares /\ <<Share(to, amount)>> \in Seq(Shares)
BY DEF Share, Shares

LEMMA ActivationSharesTyped ==
    ASSUME NEW a \in DOMAIN Activation, NEW compliant
    PROVE  ActivationShares(a, compliant) \in Seq(Shares)
<1>0. NoUser \in MaybeUser /\ Creator \in MaybeUser
    BY UserAssumption DEF MaybeUser
<1>1. /\ Pct(a, Split.direct) \in Nat /\ Pct(a, Split.network) \in Nat
      /\ Pct(a, Split.creator) \in Nat /\ Pct(a, Split.burn) \in Nat
    BY PctNat, SourceAssumption
<1>2. EffectiveSponsor(a) \in MaybeUser
    BY SourceAssumption, TreeAssumption DEF EffectiveSponsor, MaybeUser
<1>3. DirectShare(a) \in Seq(Shares)
    <2>1. <<>> \in Seq(Shares)
        OBVIOUS
    <2>2. <<Share(EffectiveSponsor(a), Pct(a, Split.direct))>> \in Seq(Shares)
        BY <1>1, <1>2, ShareTyped
    <2> QED
        BY <2>1, <2>2 DEF DirectShare
<1>4. NetworkShares(a) \in Seq(Shares)
    <2>1. MaxLevels \in Nat /\ MaxLevels > 0
        BY BoundAssumption
    <2>2. Pct(a, Split.network) \div MaxLevels \in Nat
        BY <1>1, <2>1, QuotientNat
    <2>3. \A depth \in 1 .. MaxLevels :
            Share(Entitled(a, depth), Pct(a, Split.network) \div MaxLevels) \in Shares
        BY <2>2, EntitledTyped, ShareTyped
    <2> QED
        BY <2>1, <2>3 DEF NetworkShares
<1>5. CreatorShare(a, compliant) \in Seq(Shares)
    <2>1. PICK to \in MaybeUser : to = IF compliant THEN Creator ELSE NoUser
        BY <1>0
    <2>2. <<Share(to, Pct(a, Split.creator))>> \in Seq(Shares)
        BY <1>1, ShareTyped
    <2> QED
        BY <2>1, <2>2 DEF CreatorShare
<1>6. BurnShare(a) \in Seq(Shares)
    BY <1>0, <1>1, ShareTyped DEF BurnShare
<1>7. DirectShare(a) \o NetworkShares(a) \in Seq(Shares)
    BY <1>3, <1>4, ConcatProperties
<1>8. (DirectShare(a) \o NetworkShares(a)) \o CreatorShare(a, compliant) \in Seq(Shares)
    BY <1>5, <1>7, ConcatProperties
<1>9. ((DirectShare(a) \o NetworkShares(a)) \o CreatorShare(a, compliant)) \o BurnShare(a) \in Seq(Shares)
    BY <1>6, <1>8, ConcatProperties
<1> QED
    BY <1>9 DEF ActivationShares

LEMMA SharesTyped ==
    ASSUME NEW source \in DOMAIN Activation \cup DOMAIN Resale, NEW compliant
    PROVE  SharesOf(source, compliant) \in Seq(Shares)
<1>1. CASE source \in DOMAIN Resale
    <2>1. Resale[source].seller \in MaybeUser /\ Resale[source].extra \in Nat
        BY <1>1, SourceAssumption DEF MaybeUser
    <2> QED
        BY <1>1, <2>1, ShareTyped DEF SharesOf, ResaleShares
<1>2. CASE source \notin DOMAIN Resale
    <2>1. source \in DOMAIN Activation
        BY <1>2
    <2> QED
        BY <1>2, <2>1, ActivationSharesTyped DEF SharesOf
<1> QED
    BY <1>1, <1>2

(***************************************************************************)
(* Types of the ledger's variables.                                        *)
(***************************************************************************)

Granters == Callers \cup {Runner}
Timers == Unlockers \cup Burners
Settled == {"unlocked", "burned"}
Verdict == {"none", "met", "missed"}

\* Rows drafted for a source on a day.
RowsOf(source, day) == {r \in NewRows : r.of = source /\ DayStart(r.created) = day}

CallTyped(call) ==
    /\ call.at \in {"idle", "checked", "drafted", "recorded", "found", "sent", "settled"}
    /\ call.at # "idle" => call.source \in Sources
    /\ call.at = "drafted" =>
        /\ call.seen \in 0 .. Len(income)
        /\ call.draft.burnt \in Nat
        /\ call.draft.rows \in Seq(RowsOf(call.source, call.day))

ClockTyped ==
    /\ now \in 0 .. MaxTime
    /\ verdict \in [Users -> [0 .. MaxTime -> Verdict]]
    /\ activated \subseteq DOMAIN Activation /\ recorded \subseteq DOMAIN Resale
BooksTyped ==
    /\ income \in Seq(IncomeRows) /\ log \in Seq(Seq(Settled)) /\ Len(log) = Len(income)
    /\ burnt \in [Sources -> Nat] /\ distributions \in [Sources -> Nat]
CallsTyped ==
    /\ caller = [c \in Granters |-> caller[c]]
    /\ \A c \in Granters : CallTyped(caller[c])
    /\ \A c \in Callers :
        /\ caller[c].at \in {"idle", "checked", "drafted"}
        /\ caller[c].at # "idle" => caller[c].source \in DOMAIN Activation \cup DOMAIN Resale
JobsTyped ==
    /\ batch \in [Timers -> SUBSET DOMAIN income]
    /\ doomed \in [Burners -> SUBSET DOMAIN income]

LedgerTyped == ClockTyped /\ BooksTyped /\ CallsTyped /\ JobsTyped

LEMMA DayTyped ==
    ASSUME NEW t \in 0 .. MaxTime
    PROVE  DayStart(t) \in 0 .. MaxTime /\ DayStart(t) <= t
<1>1. DayTicks \in Nat /\ DayTicks > 0 /\ MaxTime \in Nat
    BY BoundAssumption
<1>2. PICK q \in Nat : q = t \div DayTicks
    BY <1>1
<1>3. q * DayTicks <= t /\ q * DayTicks \in Nat
    BY <1>1, <1>2
<1> QED
    BY <1>1, <1>2, <1>3 DEF DayStart

LEMMA PeriodTyped ==
    ASSUME NEW u \in Users, NEW t \in 0 .. MaxTime
    PROVE  PeriodStart(u, t) \in 0 .. MaxTime /\ PeriodStart(u, PeriodStart(u, t)) = PeriodStart(u, t)
<1>1. PeriodTicks \in Nat /\ PeriodTicks > 0 /\ MaxTime \in Nat
    BY BoundAssumption
<1>2. PICK a \in 0 .. MaxTime : a = Anchor[u]
    BY TreeAssumption
<1>3. CASE t < a
    <2>1. PeriodStart(u, t) = a
        BY <1>2, <1>3 DEF PeriodStart
    <2>2. (a - a) \div PeriodTicks = 0
        BY <1>1, <1>2
    <2>3. PeriodStart(u, a) = a + ((a - a) \div PeriodTicks) * PeriodTicks
        BY <1>2 DEF PeriodStart
    <2> QED
        BY <1>1, <1>2, <2>1, <2>2, <2>3
<1>4. CASE t >= a
    <2>1. PICK q \in Nat : q = (t - a) \div PeriodTicks
        BY <1>1, <1>2, <1>4
    <2>2. q * PeriodTicks <= t - a /\ q * PeriodTicks \in Nat
        BY <1>1, <1>2, <1>4, <2>1
    <2>3. PICK p \in 0 .. MaxTime : p = a + q * PeriodTicks /\ p >= a
        BY <1>1, <1>2, <2>2
    <2>4. PeriodStart(u, t) = p
        BY <1>2, <1>4, <2>1, <2>3 DEF PeriodStart
    <2>5. (p - a) \div PeriodTicks = q
        <3>1. p - a = q * PeriodTicks
            BY <2>2, <2>3
        <3>2. (q * PeriodTicks) \div PeriodTicks = q
            BY <1>1, <2>1
        <3> QED
            BY <3>1, <3>2
    <2>6. PeriodStart(u, p) = p
        BY <1>2, <2>3, <2>5 DEF PeriodStart
    <2> QED
        BY <2>4, <2>6
<1> QED
    BY <1>1, <1>2, <1>3, <1>4

LEMMA GoesStep ==
    ASSUME CallsTyped, NEW c \in Granters, NEW next, Goes(c, next)
    PROVE  /\ caller' = [d \in Granters |-> caller'[d]]
           /\ caller'[c] = next
           /\ \A d \in Granters \ {c} : caller'[d] = caller[d]
BY DEF CallsTyped, Goes

\* What every caller is known to be at once a call has moved on.
LEMMA CallMoved ==
    ASSUME CallsTyped, NEW c \in Granters, NEW next, Goes(c, next),
           income' = income, CallTyped(next),
           c \in Callers =>
              /\ next.at \in {"idle", "checked", "drafted"}
              /\ next.at # "idle" => next.source \in DOMAIN Activation \cup DOMAIN Resale
    PROVE  CallsTyped'
<1>1. /\ caller' = [d \in Granters |-> caller'[d]]
      /\ caller'[c] = next
      /\ \A d \in Granters \ {c} : caller'[d] = caller[d]
    BY GoesStep
<1>2. ASSUME NEW d \in Granters PROVE CallTyped(caller[d])'
    <2>1. CASE d = c
        BY <1>1, <2>1 DEF CallTyped, RowsOf, NewRows, DayStart
    <2>2. CASE d # c
        BY <1>1, <2>2 DEF CallsTyped, CallTyped, RowsOf, NewRows, DayStart
    <2> QED
        BY <2>1, <2>2
<1>3. ASSUME NEW d \in Callers
      PROVE  /\ caller'[d].at \in {"idle", "checked", "drafted"}
             /\ caller'[d].at # "idle" => caller'[d].source \in DOMAIN Activation \cup DOMAIN Resale
    <2>1. CASE d = c
        BY <1>1, <2>1
    <2>2. CASE d # c
        BY <1>1, <2>2 DEF CallsTyped, Granters
    <2> QED
        BY <2>1, <2>2
<1> QED
    BY <1>1, <1>2, <1>3 DEF CallsTyped

LEMMA SameCalls ==
    ASSUME CallsTyped, caller' = caller, income' \in Seq(IncomeRows), income \in Seq(IncomeRows),
           Len(income') >= Len(income)
    PROVE  CallsTyped'
<1>1. ASSUME NEW c \in Granters PROVE CallTyped(caller[c])'
    <2>1. CallTyped(caller[c])
        BY DEF CallsTyped
    <2>2. Len(income) \in Nat /\ Len(income') \in Nat
        OBVIOUS
    <2>3. 0 .. Len(income) \subseteq 0 .. Len(income')
        BY <2>2
    <2> QED
        BY <2>1, <2>3 DEF CallTyped, RowsOf, NewRows, DayStart
<1> QED
    BY <1>1 DEF CallsTyped, Granters

(***************************************************************************)
(* What a commit and a settlement write.                                   *)
(***************************************************************************)

\* The rows of a draft, and what the ledger is once they are committed.
LEMMA AppendedRows ==
    ASSUME LedgerTyped, NEW c \in Granters, Appended(c)
    PROVE  \E rows \in Seq(IncomeRows) :
              /\ rows = caller[c].draft.rows
              /\ rows \in Seq(RowsOf(caller[c].source, caller[c].day))
              /\ income' = income \o rows
              /\ income' \in Seq(IncomeRows)
              /\ Len(income') = Len(income) + Len(rows)
              /\ Len(rows) \in Nat /\ Len(income) \in Nat
              /\ \A i \in 1 .. Len(income) : income'[i] = income[i]
              /\ \A i \in 1 .. Len(rows) : income'[Len(income) + i] = rows[i]
<1>1. CallTyped(caller[c]) /\ caller[c].at = "drafted" /\ income \in Seq(IncomeRows)
    BY DEF LedgerTyped, CallsTyped, BooksTyped, Appended, At
<1>2. PICK rows \in Seq(RowsOf(caller[c].source, caller[c].day)) : rows = caller[c].draft.rows
    BY <1>1 DEF CallTyped
<1>3. RowsOf(caller[c].source, caller[c].day) \subseteq IncomeRows
    BY DEF RowsOf, NewRows, IncomeRows
<1>4. rows \in Seq(IncomeRows)
    BY <1>3
<1>5. income' = income \o rows
    BY <1>2 DEF Appended
<1>6. PICK s \in Seq(IncomeRows) : s = income
    BY <1>1
<1>7. /\ s \o rows \in Seq(IncomeRows)
      /\ Len(s \o rows) = Len(s) + Len(rows)
      /\ \A i \in 1 .. (Len(s) + Len(rows)) :
            (s \o rows)[i] = IF i <= Len(s) THEN s[i] ELSE rows[i - Len(s)]
    BY <1>4, ConcatProperties
<1>8. PICK n \in Nat, m \in Nat : n = Len(s) /\ m = Len(rows)
    BY <1>4
<1>9. \A i \in 1 .. n : i \in 1 .. (n + m) /\ i <= n
    OBVIOUS
<1>10. \A i \in 1 .. m : n + i \in 1 .. (n + m) /\ ~(n + i <= n) /\ (n + i) - n = i
    OBVIOUS
<1>11. \A i \in 1 .. n : (s \o rows)[i] = s[i]
    BY <1>7, <1>8, <1>9
<1>12. \A i \in 1 .. m : (s \o rows)[n + i] = rows[i]
    BY <1>7, <1>8, <1>10
<1> QED
    BY <1>2, <1>4, <1>5, <1>6, <1>7, <1>8, <1>11, <1>12

LEMMA AppendedLog ==
    ASSUME LedgerTyped, NEW c \in Granters, Appended(c)
    PROVE  /\ log' \in Seq(Seq(Settled)) /\ Len(log') = Len(income')
           /\ \A i \in DOMAIN income : log'[i] = log[i]
           /\ \A i \in DOMAIN income' : i \notin DOMAIN income => log'[i] = <<>>
<1>1. PICK rows \in Seq(IncomeRows) :
          /\ rows = caller[c].draft.rows
          /\ income' \in Seq(IncomeRows)
          /\ Len(income') = Len(income) + Len(rows)
          /\ Len(rows) \in Nat /\ Len(income) \in Nat
    BY AppendedRows
<1>2. PICK s \in Seq(Seq(Settled)) : s = log /\ Len(s) = Len(income)
    BY DEF LedgerTyped, BooksTyped
<1>3. PICK n \in Nat, m \in Nat : n = Len(income) /\ m = Len(rows)
    BY <1>1
<1>4. PICK empty : empty = [i \in DOMAIN rows |-> <<>>]
    OBVIOUS
<1>5. DOMAIN rows = 1 .. m
    BY <1>1, <1>3
<1>6. empty \in Seq(Seq(Settled)) /\ Len(empty) = m /\ \A i \in 1 .. m : empty[i] = <<>>
    <2>1. empty = [i \in 1 .. m |-> <<>>]
        BY <1>4, <1>5
    <2>2. <<>> \in Seq(Settled)
        OBVIOUS
    <2>3. empty \in [1 .. m -> Seq(Settled)]
        BY <2>1, <2>2
    <2> QED
        BY <2>1, <2>3
<1>7. log' = s \o empty
    BY <1>1, <1>2, <1>4 DEF Appended
<1>8. /\ s \o empty \in Seq(Seq(Settled))
      /\ Len(s \o empty) = Len(s) + Len(empty)
      /\ \A i \in 1 .. (Len(s) + Len(empty)) :
            (s \o empty)[i] = IF i <= Len(s) THEN s[i] ELSE empty[i - Len(s)]
    BY <1>6, ConcatProperties
<1>9. /\ log' \in Seq(Seq(Settled)) /\ Len(log') = n + m
      /\ \A i \in 1 .. (n + m) : log'[i] = IF i <= n THEN log[i] ELSE empty[i - n]
    BY <1>2, <1>3, <1>6, <1>7, <1>8
<1>10. DOMAIN income = 1 .. n /\ DOMAIN income' = 1 .. (n + m)
    <2>1. income \in Seq(IncomeRows)
        BY DEF LedgerTyped, BooksTyped
    <2> QED
        BY <1>1, <1>3, <2>1
<1>11. \A i \in 1 .. n : i \in 1 .. (n + m) /\ i <= n
    OBVIOUS
<1>12. \A i \in 1 .. (n + m) : i \notin 1 .. n => ~(i <= n) /\ i - n \in 1 .. m
    OBVIOUS
<1> QED
    BY <1>1, <1>3, <1>6, <1>9, <1>10, <1>11, <1>12

\* Committed rows stay as they are; what is new is locked and was not settled.
LEMMA AppendedEntries ==
    ASSUME LedgerTyped, NEW c \in Granters, Appended(c)
    PROVE  /\ DOMAIN income \subseteq DOMAIN income'
           /\ \A i \in DOMAIN income : income'[i] = income[i] /\ log'[i] = log[i]
           /\ \A i \in DOMAIN income' : i \notin DOMAIN income =>
                income'[i].status = "locked" /\ log'[i] = <<>>
<1>1. PICK rows \in Seq(IncomeRows) :
          /\ rows \in Seq(RowsOf(caller[c].source, caller[c].day))
          /\ income' \in Seq(IncomeRows)
          /\ Len(income') = Len(income) + Len(rows)
          /\ Len(rows) \in Nat /\ Len(income) \in Nat
          /\ \A i \in 1 .. Len(income) : income'[i] = income[i]
          /\ \A i \in 1 .. Len(rows) : income'[Len(income) + i] = rows[i]
    BY AppendedRows
<1>2. /\ \A i \in DOMAIN income : log'[i] = log[i]
      /\ \A i \in DOMAIN income' : i \notin DOMAIN income => log'[i] = <<>>
    BY AppendedLog
<1>3. PICK n \in Nat, m \in Nat : n = Len(income) /\ m = Len(rows)
    BY <1>1
<1>4. DOMAIN income = 1 .. n /\ DOMAIN income' = 1 .. (n + m)
    <2>1. income \in Seq(IncomeRows)
        BY DEF LedgerTyped, BooksTyped
    <2> QED
        BY <1>1, <1>3, <2>1
<1>5. ASSUME NEW i \in DOMAIN income', i \notin DOMAIN income PROVE income'[i].status = "locked"
    <2>1. PICK k \in 1 .. m : i = n + k
        <3>1. i - n \in 1 .. m /\ i = n + (i - n)
            BY <1>4, <1>5
        <3> QED
            BY <3>1
    <2>2. income'[i] = rows[k]
        BY <1>1, <1>3, <2>1
    <2>3. rows[k] \in RowsOf(caller[c].source, caller[c].day)
        BY <1>1, <1>3, <2>1
    <2> QED
        BY <2>2, <2>3 DEF RowsOf, NewRows
<1>6. \A i \in 1 .. n : i \in 1 .. (n + m)
    OBVIOUS
<1> QED
    BY <1>1, <1>2, <1>3, <1>4, <1>5, <1>6

LEMMA AppendedTyped ==
    ASSUME LedgerTyped, NEW c \in Granters, Appended(c), NEW next, Goes(c, next),
           CallTyped(next)', c \in Callers => next.at = "idle"
    PROVE  LedgerTyped'
<1>1. PICK rows \in Seq(IncomeRows) :
          /\ income' \in Seq(IncomeRows)
          /\ Len(income') = Len(income) + Len(rows)
          /\ Len(rows) \in Nat /\ Len(income) \in Nat
    BY AppendedRows
<1>2. Len(income') >= Len(income)
    BY <1>1
<1>3. income \in Seq(IncomeRows) /\ CallTyped(caller[c]) /\ caller[c].at = "drafted"
    BY DEF LedgerTyped, BooksTyped, CallsTyped, Appended, At
<1>4. BooksTyped'
    <2>1. log' \in Seq(Seq(Settled)) /\ Len(log') = Len(income')
        BY AppendedLog
    <2>2. caller[c].source \in Sources /\ caller[c].draft.burnt \in Nat
        BY <1>3 DEF CallTyped
    <2>3. burnt \in [Sources -> Nat] /\ distributions \in [Sources -> Nat]
        BY DEF LedgerTyped, BooksTyped
    <2>4. burnt' \in [Sources -> Nat]
        BY <2>2, <2>3 DEF Appended
    <2>5. distributions' \in [Sources -> Nat]
        BY <2>2, <2>3 DEF Appended
    <2> QED
        BY <1>1, <2>1, <2>4, <2>5 DEF BooksTyped
<1>5. ClockTyped'
    BY DEF LedgerTyped, ClockTyped, Appended, clock, stored, Verdict
<1>6. JobsTyped'
    <2>1. DOMAIN income \subseteq DOMAIN income'
        <3>1. DOMAIN income = 1 .. Len(income) /\ DOMAIN income' = 1 .. Len(income')
            BY <1>1, <1>3
        <3> QED
            BY <1>1, <3>1
    <2>2. JobsTyped /\ batch' = batch /\ doomed' = doomed
        BY DEF LedgerTyped, Appended, jobs
    <2> QED
        BY <2>1, <2>2 DEF JobsTyped
<1>7. CallsTyped'
    <2>0. CallsTyped
        BY DEF LedgerTyped
    <2>1. /\ caller' = [d \in Granters |-> caller'[d]]
          /\ caller'[c] = next
          /\ \A d \in Granters \ {c} : caller'[d] = caller[d]
        BY <2>0, GoesStep
    <2>2. ASSUME NEW d \in Granters PROVE CallTyped(caller[d])'
        <3>1. CASE d = c
            BY <2>1, <3>1 DEF CallTyped, RowsOf, NewRows, DayStart
        <3>2. CASE d # c
            <4>1. caller'[d] = caller[d] /\ CallTyped(caller[d])
                BY <2>0, <2>1, <3>2 DEF CallsTyped
            <4>2. 0 .. Len(income) \subseteq 0 .. Len(income')
                BY <1>1
            <4> QED
                BY <4>1, <4>2 DEF CallTyped, RowsOf, NewRows, DayStart
        <3> QED
            BY <3>1, <3>2
    <2>3. ASSUME NEW d \in Callers
          PROVE  /\ caller'[d].at \in {"idle", "checked", "drafted"}
                 /\ caller'[d].at # "idle" => caller'[d].source \in DOMAIN Activation \cup DOMAIN Resale
        <3>1. CASE d = c
            BY <2>1, <3>1
        <3>2. CASE d # c
            BY <2>0, <2>1, <3>2 DEF CallsTyped, Granters
        <3> QED
            BY <3>1, <3>2
    <2> QED
        BY <2>1, <2>2, <2>3 DEF CallsTyped
<1> QED
    BY <1>4, <1>5, <1>6, <1>7 DEF LedgerTyped

LEMMA SettleStep ==
    ASSUME BooksTyped, NEW i \in DOMAIN income, NEW status \in Settled, Settle(i, status)
    PROVE  /\ income' \in Seq(IncomeRows) /\ Len(income') = Len(income)
           /\ DOMAIN income' = DOMAIN income
           /\ \A k \in DOMAIN income :
                /\ income'[k].user = income[k].user /\ income'[k].created = income[k].created
                /\ income'[k].amount = income[k].amount /\ income'[k].of = income[k].of
                /\ income'[k].until = income[k].until
           /\ income'[i].status = status
           /\ \A k \in DOMAIN income \ {i} : income'[k] = income[k]
           /\ log' \in Seq(Seq(Settled)) /\ Len(log') = Len(income)
           /\ log'[i] = Append(log[i], status) /\ log[i] \in Seq(Settled)
           /\ \A k \in DOMAIN income \ {i} : log'[k] = log[k]
<1>1. PICK s \in Seq(IncomeRows) : s = income
    BY DEF BooksTyped
<1>2. PICK l \in Seq(Seq(Settled)) : l = log /\ Len(l) = Len(s)
    BY <1>1 DEF BooksTyped
<1>3. DOMAIN s = 1 .. Len(s) /\ DOMAIN l = 1 .. Len(s) /\ i \in DOMAIN s
    BY <1>1, <1>2
<1>4. PICK r \in IncomeRows : r = [s[i] EXCEPT !.status = status]
    <2>1. s[i] \in IncomeRows
        BY <1>3
    <2>2. [s[i] EXCEPT !.status = status] \in IncomeRows
        BY <2>1 DEF IncomeRows, Settled
    <2> QED
        BY <2>2
<1>5. income' = [s EXCEPT ![i] = r]
    BY <1>1, <1>4 DEF Settle
<1>6. income' \in Seq(IncomeRows) /\ Len(income') = Len(s) /\ DOMAIN income' = DOMAIN s
    BY <1>3, <1>5
<1>7. income'[i] = r /\ \A k \in DOMAIN s \ {i} : income'[k] = s[k]
    BY <1>3, <1>5
<1>8. s[i] \in IncomeRows
    BY <1>3
<1>9. /\ r.user = s[i].user /\ r.created = s[i].created /\ r.amount = s[i].amount
      /\ r.of = s[i].of /\ r.until = s[i].until /\ r.status = status
    BY <1>4, <1>8 DEF IncomeRows
<1>10. l[i] \in Seq(Settled) /\ Append(l[i], status) \in Seq(Settled)
    <2>1. l[i] \in Seq(Settled)
        BY <1>3
    <2> QED
        BY <2>1, AppendProperties
<1>11. log' = [l EXCEPT ![i] = Append(l[i], status)]
    BY <1>2 DEF Settle
<1>12. log' \in Seq(Seq(Settled)) /\ Len(log') = Len(s)
    BY <1>2, <1>3, <1>10, <1>11
<1>13. log'[i] = Append(l[i], status) /\ \A k \in DOMAIN s \ {i} : log'[k] = l[k]
    BY <1>3, <1>11
<1> QED
    BY <1>1, <1>2, <1>6, <1>7, <1>9, <1>10, <1>12, <1>13

(***************************************************************************)
(* Each step keeps the types.                                              *)
(***************************************************************************)

LEMMA LedgerTypedInit == LedgerInit => LedgerTyped
<1> SUFFICES ASSUME LedgerInit PROVE LedgerTyped
    OBVIOUS
<1>0. MaxTime \in Nat
    BY BoundAssumption
<1>1. ClockTyped
    BY <1>0 DEF LedgerInit, ClockTyped, Verdict
<1>2. BooksTyped
    BY DEF LedgerInit, BooksTyped
<1>3. CallsTyped
    <2>1. \A c \in Granters : caller[c].at = "idle"
        BY DEF LedgerInit, Nobody, Idle, Granters
    <2>2. caller = [c \in Granters |-> caller[c]]
        BY DEF LedgerInit, Nobody, Granters
    <2> QED
        BY <2>1, <2>2 DEF CallsTyped, CallTyped, Granters
<1>4. JobsTyped
    BY DEF LedgerInit, JobsTyped, NoBatch, NoneDoomed, Timers
<1> QED
    BY <1>1, <1>2, <1>3, <1>4 DEF LedgerTyped

\* A step that leaves the ledger alone and moves one call on.
LEMMA TypedByCall ==
    ASSUME LedgerTyped, NEW c \in Callers, NEW next, Goes(c, next), CallTyped(next),
           next.at \in {"checked", "drafted"},
           next.source \in DOMAIN Activation \cup DOMAIN Resale,
           UNCHANGED <<clock, ledger, jobs>>, UNCHANGED activated,
           recorded' \subseteq DOMAIN Resale
    PROVE  LedgerTyped'
<1>1. ClockTyped'
    BY DEF LedgerTyped, ClockTyped, clock, Verdict
<1>2. BooksTyped'
    BY DEF LedgerTyped, BooksTyped, ledger
<1>3. JobsTyped'
    BY DEF LedgerTyped, JobsTyped, jobs, ledger
<1>4. CallsTyped'
    <2>1. c \in Granters /\ income' = income
        BY DEF Granters, ledger
    <2> QED
        BY <2>1, CallMoved DEF LedgerTyped
<1> QED
    BY <1>1, <1>2, <1>3, <1>4 DEF LedgerTyped

LEMMA CheckTyped ==
    ASSUME LedgerTyped, NEW c \in Callers, NEW a \in DOMAIN Activation, CheckDistribution(c, a)
    PROVE  LedgerTyped'
<1>1. PICK next : /\ next = [at |-> "checked", source |-> a,
                             compliant |-> TradingCompliant(Activation[a].user, Activation[a].time)]
                  /\ Goes(c, next)
    BY DEF CheckDistribution
<1>2. next.at = "checked" /\ next.source = a /\ a \in Sources
    BY <1>1 DEF Sources
<1>3. CallTyped(next)
    BY <1>2 DEF CallTyped
<1>4. UNCHANGED <<clock, ledger, jobs>> /\ UNCHANGED activated /\ recorded' \subseteq DOMAIN Resale
    BY DEF CheckDistribution, stored, LedgerTyped, ClockTyped
<1> QED
    BY <1>1, <1>2, <1>3, <1>4, TypedByCall

LEMMA RecordTyped ==
    ASSUME LedgerTyped, NEW c \in Callers, NEW s \in DOMAIN Resale, RecordResale(c, s)
    PROVE  LedgerTyped'
<1>1. PICK next : next = [at |-> "checked", source |-> s, compliant |-> TRUE] /\ Goes(c, next)
    BY DEF RecordResale
<1>2. next.at = "checked" /\ next.source = s /\ s \in Sources
    BY <1>1 DEF Sources
<1>3. CallTyped(next)
    BY <1>2 DEF CallTyped
<1>4. UNCHANGED <<clock, ledger, jobs>> /\ UNCHANGED activated /\ recorded' \subseteq DOMAIN Resale
    BY DEF RecordResale, LedgerTyped, ClockTyped
<1> QED
    BY <1>1, <1>2, <1>3, <1>4, TypedByCall

\* What a transaction drafted from typed shares is.
LEMMA InTransactionTyped ==
    ASSUME LedgerTyped, NEW source \in Sources, NEW shares \in Seq(Shares), NEW at,
           now + LockTicks <= MaxTime
    PROVE  /\ CallTyped(InTransaction(source, shares, at))
           /\ InTransaction(source, shares, at).at = "drafted"
           /\ InTransaction(source, shares, at).source = source
           /\ InTransaction(source, shares, at).day = DayStart(now)
           /\ InTransaction(source, shares, at).seen = Len(income)
           /\ InTransaction(source, shares, at).draft.rows \in Seq(RowsNow(source))
           /\ LET call == InTransaction(source, shares, at) IN
                call.asOf = call.day => Fits(call.draft.rows, call.day)
<1>1. now \in 0 .. MaxTime /\ now + LockTicks \in 0 .. MaxTime
    BY BoundAssumption DEF LedgerTyped, ClockTyped
<1>2. income \in Seq(IncomeRows) /\ Len(income) \in Nat
    BY DEF LedgerTyped, BooksTyped
<1>3. PICK d : d = Draft(shares, DayStart(at), source)
    OBVIOUS
<1>4. d \in DraftsOf(source) /\ Fits(d.rows, DayStart(at))
    BY <1>1, <1>2, <1>3, DraftTyped
<1>5. d.rows \in Seq(RowsNow(source)) /\ d.burnt \in Nat
    BY <1>4 DEF DraftsOf
<1>6. RowsNow(source) \subseteq RowsOf(source, DayStart(now))
    BY <1>1 DEF RowsNow, RowsOf, NewRows
<1>7. d.rows \in Seq(RowsOf(source, DayStart(now)))
    BY <1>5, <1>6
<1>8. PICK call : call = InTransaction(source, shares, at)
    OBVIOUS
<1>10. call = [at |-> "drafted", source |-> source, day |-> DayStart(now), seen |-> Len(income),
               asOf |-> DayStart(at), draft |-> d]
    BY <1>3, <1>8 DEF InTransaction
<1>11. /\ call.at = "drafted" /\ call.source = source /\ call.day = DayStart(now)
       /\ call.seen = Len(income) /\ call.asOf = DayStart(at) /\ call.draft = d
    BY <1>10
<1>9. CallTyped(call)
    BY <1>2, <1>5, <1>7, <1>11 DEF CallTyped
<1> QED
    BY <1>4, <1>5, <1>8, <1>9, <1>11

LEMMA DraftGrantTyped ==
    ASSUME LedgerTyped, NEW c \in Callers, DraftGrant(c)
    PROVE  LedgerTyped'
<1>1. PICK source : source = caller[c].source
    OBVIOUS
<1>2. source \in DOMAIN Activation \cup DOMAIN Resale
    BY <1>1 DEF LedgerTyped, CallsTyped, DraftGrant, At
<1>3. PICK shares \in Seq(Shares) : shares = SharesOf(source, caller[c].compliant)
    BY <1>2, SharesTyped
<1>4. PICK next : next = InTransaction(source, shares, TimeOf(source)) /\ Goes(c, next)
    BY <1>1, <1>3 DEF DraftGrant
<1>5. source \in Sources /\ now + LockTicks <= MaxTime
    BY <1>2 DEF Sources, DraftGrant
<1>6. CallTyped(next) /\ next.at = "drafted" /\ next.source = source
    BY <1>4, <1>5, InTransactionTyped
<1>7. UNCHANGED <<clock, ledger, jobs>> /\ UNCHANGED activated /\ recorded' \subseteq DOMAIN Resale
    BY DEF DraftGrant, LedgerTyped, ClockTyped, stored
<1> QED
    BY <1>2, <1>4, <1>6, <1>7, TypedByCall

LEMMA CommitTyped ==
    ASSUME LedgerTyped, NEW c \in Callers, Commit(c)
    PROVE  LedgerTyped'
<1>1. c \in Granters /\ Appended(c) /\ Goes(c, Idle)
    BY DEF Granters, Commit
<1>2. CallTyped(Idle)' /\ Idle.at = "idle"
    BY DEF CallTyped, Idle
<1> QED
    BY <1>1, <1>2, AppendedTyped

\* A step that only finds, judges or forgets incomes.
LEMMA TypedByJobs ==
    ASSUME LedgerTyped, UNCHANGED <<clock, stored, ledger, caller>>, JobsTyped'
    PROVE  LedgerTyped'
<1>1. ClockTyped'
    BY DEF LedgerTyped, ClockTyped, clock, stored, Verdict
<1>2. BooksTyped'
    BY DEF LedgerTyped, BooksTyped, ledger
<1>3. CallsTyped'
    BY DEF LedgerTyped, CallsTyped, CallTyped, RowsOf, NewRows, DayStart, ledger
<1> QED
    BY <1>1, <1>2, <1>3 DEF LedgerTyped

LEMMA FindsTyped ==
    ASSUME LedgerTyped, NEW j \in Timers, NEW found \in SUBSET DOMAIN income, Finds(j, found)
    PROVE  LedgerTyped'
<1>1. UNCHANGED <<clock, stored, ledger, caller>> /\ doomed' = doomed /\ income' = income
    BY DEF Finds, calls, ledger
<1>2. JobsTyped'
    BY <1>1 DEF LedgerTyped, JobsTyped, Finds
<1> QED
    BY <1>1, <1>2, TypedByJobs

LEMMA JudgeTyped ==
    ASSUME LedgerTyped, NEW j \in Burners, NEW i \in DOMAIN income, Judge(j, i)
    PROVE  LedgerTyped'
<1>1. UNCHANGED <<clock, stored, ledger, caller>> /\ income' = income
    BY DEF Judge, calls, ledger
<1>2. JobsTyped'
    BY <1>1 DEF LedgerTyped, JobsTyped, Judge, Timers
<1> QED
    BY <1>1, <1>2, TypedByJobs

\* A step that settles an income and takes it from one job.
LEMMA TypedBySettle ==
    ASSUME LedgerTyped, NEW i \in DOMAIN income, NEW status \in Settled, Settle(i, status),
           UNCHANGED <<clock, stored, burnt, distributions, caller>>,
           batch' \in [Timers -> SUBSET DOMAIN income],
           doomed' \in [Burners -> SUBSET DOMAIN income]
    PROVE  LedgerTyped'
<1>1. BooksTyped
    BY DEF LedgerTyped
<1>2. /\ income' \in Seq(IncomeRows) /\ Len(income') = Len(income)
      /\ DOMAIN income' = DOMAIN income
      /\ log' \in Seq(Seq(Settled)) /\ Len(log') = Len(income)
    BY <1>1, SettleStep
<1>3. BooksTyped'
    BY <1>1, <1>2 DEF BooksTyped
<1>4. ClockTyped'
    BY DEF LedgerTyped, ClockTyped, clock, stored, Verdict
<1>5. JobsTyped'
    BY <1>2 DEF JobsTyped
<1>6. CallsTyped'
    <2>1. income \in Seq(IncomeRows) /\ Len(income') >= Len(income)
        BY <1>1, <1>2 DEF BooksTyped
    <2> QED
        BY <1>2, <2>1, SameCalls DEF LedgerTyped
<1> QED
    BY <1>3, <1>4, <1>5, <1>6 DEF LedgerTyped

LEMMA UnlockTyped ==
    ASSUME LedgerTyped, NEW j \in Timers, NEW i \in DOMAIN income, Unlock(j, i)
    PROVE  LedgerTyped'
<1>1. Settle(i, "unlocked") /\ UNCHANGED <<clock, stored, burnt, distributions, caller>>
    BY DEF Unlock, calls
<1>2. batch' \in [Timers -> SUBSET DOMAIN income] /\ doomed' \in [Burners -> SUBSET DOMAIN income]
    BY DEF LedgerTyped, JobsTyped, Unlock
<1> QED
    BY <1>1, <1>2, TypedBySettle DEF Settled

LEMMA BurnTyped ==
    ASSUME LedgerTyped, NEW j \in Burners, NEW i \in DOMAIN income, Burn(j, i)
    PROVE  LedgerTyped'
<1>1. Settle(i, "burned") /\ UNCHANGED <<clock, stored, burnt, distributions, caller>>
    BY DEF Burn, calls
<1>2. batch' \in [Timers -> SUBSET DOMAIN income] /\ doomed' \in [Burners -> SUBSET DOMAIN income]
    BY DEF LedgerTyped, JobsTyped, Burn
<1> QED
    BY <1>1, <1>2, TypedBySettle DEF Settled

\* A step that leaves the ledger, the calls and the jobs alone.
LEMMA TypedByClock ==
    ASSUME LedgerTyped, UNCHANGED <<ledger, calls, jobs>>, ClockTyped'
    PROVE  LedgerTyped'
<1>1. BooksTyped'
    BY DEF LedgerTyped, BooksTyped, ledger
<1>2. CallsTyped'
    BY DEF LedgerTyped, CallsTyped, CallTyped, RowsOf, NewRows, DayStart, ledger, calls
<1>3. JobsTyped'
    BY DEF LedgerTyped, JobsTyped, ledger, jobs
<1> QED
    BY <1>1, <1>2, <1>3 DEF LedgerTyped

LEMMA EvaluateTyped ==
    ASSUME LedgerTyped, NEW u \in Users, NEW met \in BOOLEAN, Evaluate(u, met)
    PROVE  LedgerTyped'
<1>1. ClockTyped
    BY DEF LedgerTyped
<1>2. PICK t \in 0 .. MaxTime : t = PeriodStart(u, now)
    BY <1>1, PeriodTyped DEF ClockTyped
<1>3. verdict' = [verdict EXCEPT ![u][t] = IF met THEN "met" ELSE "missed"]
    BY <1>2 DEF Evaluate
<1>4. verdict' \in [Users -> [0 .. MaxTime -> Verdict]]
    BY <1>1, <1>2, <1>3 DEF ClockTyped, Verdict
<1>5. ClockTyped'
    BY <1>1, <1>4 DEF ClockTyped, Evaluate, stored
<1> QED
    BY <1>5, TypedByClock DEF Evaluate

LEMMA RestartTyped ==
    ASSUME LedgerTyped, Restart
    PROVE  LedgerTyped'
<1>1. ClockTyped' /\ BooksTyped'
    BY DEF LedgerTyped, ClockTyped, BooksTyped, Restart, stored, ledger, Verdict
<1>2. CallsTyped'
    <2>1. \A c \in Granters : caller'[c].at = "idle"
        BY DEF Restart, Nobody, Idle, Granters
    <2>2. caller' = [c \in Granters |-> caller'[c]]
        BY DEF Restart, Nobody, Granters
    <2>3. \A c \in Granters : CallTyped(caller[c])'
        BY <2>1 DEF CallTyped
    <2> QED
        BY <2>1, <2>2, <2>3 DEF CallsTyped, Granters
<1>3. JobsTyped'
    BY DEF JobsTyped, Restart, NoBatch, NoneDoomed, Timers
<1> QED
    BY <1>1, <1>2, <1>3 DEF LedgerTyped

LEMMA HeldByAJob ==
    ASSUME NEW i
    PROVE  i \in Held <=> (\E j \in Timers : i \in batch[j]) \/ (\E j \in Burners : i \in doomed[j])
BY DEF Held, Timers

LEMMA LedgerTypedStep ==
    ASSUME LedgerTyped, [LedgerNext]_ledgerVars
    PROVE  LedgerTyped'
<1>1. ASSUME NEW a \in DOMAIN Activation, StoreActivation(a) PROVE LedgerTyped'
    <2>1. ClockTyped'
        BY <1>1 DEF LedgerTyped, ClockTyped, StoreActivation, clock, Verdict
    <2> QED
        BY <1>1, <2>1, TypedByClock DEF StoreActivation
<1>2. ASSUME NEW c \in Callers, Grant(c) PROVE LedgerTyped'
    BY <1>2, CheckTyped, RecordTyped, DraftGrantTyped, CommitTyped DEF Grant
<1>3. ASSUME NEW j \in Unlockers, UnlockRun(j) PROVE LedgerTyped'
    <2>1. j \in Timers
        BY DEF Timers
    <2>2. CASE FindDue(j)
        <3>1. Due \in SUBSET DOMAIN income
            BY DEF Due, Locked
        <3> QED
            BY <2>1, <2>2, <3>1, FindsTyped DEF FindDue
    <2>3. CASE \E i \in DOMAIN income : Unlock(j, i)
        BY <2>1, <2>3, UnlockTyped
    <2> QED
        BY <1>3, <2>2, <2>3 DEF UnlockRun
<1>4. ASSUME NEW j \in Burners, BurnRun(j) PROVE LedgerTyped'
    <2>1. j \in Timers
        BY DEF Timers
    <2>2. CASE FindLocked(j)
        <3>1. PICK found \in SUBSET DOMAIN income : Finds(j, found)
            BY <2>2 DEF FindLocked, Locked
        <3> QED
            BY <2>1, <3>1, FindsTyped
    <2>3. CASE \E i \in DOMAIN income : Judge(j, i) \/ Burn(j, i)
        BY <2>3, JudgeTyped, BurnTyped
    <2> QED
        BY <1>4, <2>2, <2>3 DEF BurnRun
<1>5. ASSUME NEW u \in Users, NEW met \in BOOLEAN, Evaluate(u, met) PROVE LedgerTyped'
    BY <1>5, EvaluateTyped
<1>6. CASE Tick
    <2>1. ClockTyped'
        BY <1>6, BoundAssumption DEF LedgerTyped, ClockTyped, Tick, stored, Verdict
    <2> QED
        BY <1>6, <2>1, TypedByClock DEF Tick
<1>7. CASE Restart
    BY <1>7, RestartTyped
<1>8. CASE UNCHANGED ledgerVars
    <2>1. ClockTyped'
        BY <1>8 DEF LedgerTyped, ClockTyped, ledgerVars, clock, stored, Verdict
    <2> QED
        BY <1>8, <2>1, TypedByClock DEF ledgerVars
<1> QED
    BY <1>1, <1>2, <1>3, <1>4, <1>5, <1>6, <1>7, <1>8 DEF LedgerNext

\* The ledger's variables keep their types.
THEOREM LedgerTypeCorrect == LedgerSpec => []LedgerTypeOK
<1>1. LedgerTyped => LedgerTypeOK
    <2> SUFFICES ASSUME LedgerTyped PROVE LedgerTypeOK
        OBVIOUS
    <2>1. \A i \in DOMAIN income : income[i] \in IncomeRows
        BY DEF LedgerTyped, BooksTyped
    <2>2. DOMAIN log = DOMAIN income
        BY DEF LedgerTyped, BooksTyped
    <2>3. Held \subseteq DOMAIN income
        <3>1. /\ \A j \in Timers : batch[j] \subseteq DOMAIN income
              /\ \A j \in Burners : doomed[j] \subseteq DOMAIN income
            BY DEF LedgerTyped, JobsTyped
        <3>2. ASSUME NEW i \in Held PROVE i \in DOMAIN income
            <4>1. CASE \E j \in Timers : i \in batch[j]
                BY <3>1, <4>1
            <4>2. CASE \E j \in Burners : i \in doomed[j]
                BY <3>1, <4>2
            <4>3. (\E j \in Timers : i \in batch[j]) \/ (\E j \in Burners : i \in doomed[j])
                BY HeldByAJob
            <4> QED
                BY <4>1, <4>2, <4>3
        <3> QED
            BY <3>2
    <2> QED
        BY <2>1, <2>2, <2>3
        DEF LedgerTyped, ClockTyped, BooksTyped, LedgerTypeOK, IncomeRows, Verdict
<1> QED
    BY <1>1, LedgerTypedInit, LedgerTypedStep, PTL DEF LedgerSpec

(***************************************************************************)
(* An income is settled once.  It is in the hands of one job at most until *)
(* then, or it is contended.                                               *)
(***************************************************************************)

StatusFollowsLog ==
    \A i \in DOMAIN income :
        income[i].status = IF log[i] = <<>> THEN "locked" ELSE Last(log[i])

\* An income is in the hands of one job at most, and only until it is settled.
OneHolder(i) ==
    /\ Len(log[i]) <= 1
    /\ \A j \in Timers : i \in batch[j] => log[i] = <<>>
    /\ \A j \in Burners : i \in doomed[j] => log[i] = <<>>
    /\ \A j, k \in Timers : i \in batch[j] /\ i \in batch[k] => j = k
    /\ \A j, k \in Burners : i \in doomed[j] /\ i \in doomed[k] => j = k
    /\ \A j \in Timers, k \in Burners : ~(i \in batch[j] /\ i \in doomed[k])

HoldersApart == \A i \in DOMAIN income : i \notin contended => OneHolder(i)

LEMMA LogLast ==
    ASSUME NEW l \in Seq(Settled), NEW status \in Settled
    PROVE  /\ l # <<>> => Last(l) \in Settled
           /\ Append(l, status) # <<>> /\ Last(Append(l, status)) = status
           /\ Len(Append(l, status)) = Len(l) + 1 /\ Len(l) \in Nat
<1>1. l # <<>> => Len(l) \in 1 .. Len(l)
    <2>1. Len(l) \in Nat /\ (l # <<>> => Len(l) # 0)
        BY EmptySeq
    <2> QED
        BY <2>1
<1>2. \A i \in 1 .. Len(l) : l[i] \in Settled
    OBVIOUS
<1>3. l # <<>> => Last(l) \in Settled
    BY <1>1, <1>2 DEF Last
<1>4. PICK m \in Seq(Settled) : m = Append(l, status)
    BY AppendProperties
<1>5. Len(m) = Len(l) + 1 /\ m[Len(l) + 1] = status /\ Len(l) \in Nat
    BY <1>4, AppendProperties
<1>6. m # <<>>
    BY <1>5, EmptySeq
<1>7. Last(m) = status
    BY <1>5 DEF Last
<1> QED
    BY <1>3, <1>4, <1>5, <1>6, <1>7

LEMMA LogTyped ==
    ASSUME LedgerTyped, NEW i \in DOMAIN income
    PROVE  log[i] \in Seq(Settled)
<1>1. DOMAIN log = DOMAIN income /\ log \in Seq(Seq(Settled))
    BY DEF LedgerTyped, BooksTyped
<1> QED
    BY <1>1

LEMMA StatusByAppended ==
    ASSUME LedgerTyped, NEW c \in Granters, Appended(c), StatusFollowsLog
    PROVE  StatusFollowsLog'
BY AppendedEntries DEF StatusFollowsLog

LEMMA StatusBySettle ==
    ASSUME LedgerTyped, NEW i \in DOMAIN income, NEW status \in Settled, Settle(i, status),
           StatusFollowsLog
    PROVE  StatusFollowsLog'
<1>0. BooksTyped
    BY DEF LedgerTyped
<1>1. /\ DOMAIN income' = DOMAIN income
      /\ income'[i].status = status
      /\ \A k \in DOMAIN income \ {i} : income'[k] = income[k]
      /\ log'[i] = Append(log[i], status) /\ log[i] \in Seq(Settled)
      /\ \A k \in DOMAIN income \ {i} : log'[k] = log[k]
    BY <1>0, SettleStep
<1>2. log'[i] # <<>> /\ Last(log'[i]) = status
    BY <1>1, LogLast
<1> QED
    BY <1>1, <1>2 DEF StatusFollowsLog

LEMMA HoldersByAppended ==
    ASSUME LedgerTyped, NEW c \in Granters, Appended(c), HoldersApart
    PROVE  HoldersApart'
<1>1. /\ \A i \in DOMAIN income : log'[i] = log[i]
      /\ \A i \in DOMAIN income' : i \notin DOMAIN income => log'[i] = <<>>
    BY AppendedLog
<1>2. batch' = batch /\ doomed' = doomed /\ contended' = contended
    BY DEF Appended, jobs
<1>3. JobsTyped
    BY DEF LedgerTyped
<1>4. ASSUME NEW i \in DOMAIN income', i \notin contended' PROVE OneHolder(i)'
    <2>1. CASE i \in DOMAIN income
        <3>1. OneHolder(i)
            BY <1>2, <1>4, <2>1 DEF HoldersApart
        <3> QED
            BY <1>1, <1>2, <2>1, <3>1 DEF OneHolder
    <2>2. CASE i \notin DOMAIN income
        <3>1. \A j \in Timers : i \notin batch'[j]
            BY <1>2, <1>3, <2>2 DEF JobsTyped
        <3>2. \A j \in Burners : i \notin doomed'[j]
            BY <1>2, <1>3, <2>2 DEF JobsTyped
        <3>3. log'[i] = <<>> /\ Len(<<>>) = 0
            BY <1>1, <2>2
        <3> QED
            BY <3>1, <3>2, <3>3 DEF OneHolder
    <2> QED
        BY <2>1, <2>2
<1> QED
    BY <1>4 DEF HoldersApart

LEMMA HoldersByFinds ==
    ASSUME LedgerTyped, NEW j \in Timers, NEW found \in SUBSET Locked, Finds(j, found),
           StatusFollowsLog, HoldersApart
    PROVE  HoldersApart'
<1>1. income' = income /\ log' = log /\ doomed' = doomed
    BY DEF Finds, ledger
<1>2. batch'[j] = found /\ \A k \in Timers \ {j} : batch'[k] = batch[k]
    BY DEF LedgerTyped, JobsTyped, Finds
<1>3. contended' = contended \cup (found \cap Held) /\ batch[j] = {}
    BY DEF Finds
<1>4. ASSUME NEW i \in DOMAIN income, i \notin contended' PROVE OneHolder(i)'
    <2>1. OneHolder(i)
        BY <1>3, <1>4 DEF HoldersApart
    <2>2. CASE i \in found
        <3>1. i \notin Held
            BY <1>3, <1>4, <2>2
        <3>2. (\A k \in Timers : i \notin batch[k]) /\ \A k \in Burners : i \notin doomed[k]
            BY <3>1, HeldByAJob
        <3>3. log[i] = <<>>
            <4>1. income[i].status = "locked" /\ log[i] \in Seq(Settled)
                BY <2>2, LogTyped DEF Locked
            <4>2. log[i] # <<>> => Last(log[i]) \in Settled
                BY <4>1, LogLast DEF Settled
            <4> QED
                BY <4>1, <4>2 DEF StatusFollowsLog, Settled
        <3> QED
            BY <1>1, <1>2, <2>1, <3>2, <3>3 DEF OneHolder
    <2>3. CASE i \notin found
        <3>1. i \notin batch'[j] /\ \A k \in Timers \ {j} : batch'[k] = batch[k]
            BY <1>2, <2>3
        <3> QED
            BY <1>1, <2>1, <3>1 DEF OneHolder
    <2> QED
        BY <2>2, <2>3
<1> QED
    BY <1>1, <1>4 DEF HoldersApart

LEMMA HoldersByJudge ==
    ASSUME LedgerTyped, NEW j \in Burners, NEW i \in DOMAIN income, Judge(j, i), HoldersApart
    PROVE  HoldersApart'
<1>1. income' = income /\ log' = log /\ contended' = contended
    BY DEF Judge, ledger
<1>2. /\ batch'[j] = batch[j] \ {i} /\ i \in batch[j] /\ j \in Timers
      /\ \A k \in Timers \ {j} : batch'[k] = batch[k]
    BY DEF LedgerTyped, JobsTyped, Judge, Timers
<1>3. /\ doomed'[j] \in SUBSET {i} /\ doomed[j] = {}
      /\ \A k \in Burners \ {j} : doomed'[k] = doomed[k]
    BY DEF LedgerTyped, JobsTyped, Judge
<1>4. ASSUME NEW k \in DOMAIN income, k \notin contended PROVE OneHolder(k)'
    <2>1. OneHolder(k)
        BY <1>4 DEF HoldersApart
    <2>2. CASE k = i
        <3>1. log[i] = <<>> /\ \A l \in Timers : i \in batch[l] => l = j
            BY <1>2, <2>1, <2>2 DEF OneHolder
        <3>2. \A l \in Burners : i \notin doomed[l]
            BY <1>2, <2>1, <2>2 DEF OneHolder
        <3>3. \A l \in Timers : i \notin batch'[l]
            BY <1>2, <3>1
        <3>4. \A l \in Burners : i \in doomed'[l] => l = j
            BY <1>3, <3>2
        <3> QED
            BY <1>1, <2>1, <2>2, <3>1, <3>3, <3>4 DEF OneHolder
    <2>3. CASE k # i
        <3>1. \A l \in Timers : k \in batch'[l] <=> k \in batch[l]
            BY <1>2, <2>3
        <3>2. \A l \in Burners : k \in doomed'[l] <=> k \in doomed[l]
            BY <1>3, <2>3
        <3> QED
            BY <1>1, <2>1, <3>1, <3>2 DEF OneHolder
    <2> QED
        BY <2>2, <2>3
<1> QED
    BY <1>1, <1>4 DEF HoldersApart

LEMMA HoldersByUnlock ==
    ASSUME LedgerTyped, NEW j \in Timers, NEW i \in DOMAIN income, Unlock(j, i), HoldersApart
    PROVE  HoldersApart'
<1>0. BooksTyped /\ Settle(i, "unlocked") /\ "unlocked" \in Settled
    BY DEF LedgerTyped, Unlock, Settled
<1>1. /\ DOMAIN income' = DOMAIN income
      /\ log'[i] = Append(log[i], "unlocked") /\ log[i] \in Seq(Settled)
      /\ \A k \in DOMAIN income \ {i} : log'[k] = log[k]
    BY <1>0, SettleStep
<1>2. /\ batch'[j] = batch[j] \ {i} /\ i \in batch[j]
      /\ \A k \in Timers \ {j} : batch'[k] = batch[k]
      /\ doomed' = doomed /\ contended' = contended
    BY DEF LedgerTyped, JobsTyped, Unlock
<1>4. ASSUME NEW k \in DOMAIN income, k \notin contended PROVE OneHolder(k)'
    <2>1. OneHolder(k)
        BY <1>4 DEF HoldersApart
    <2>2. CASE k = i
        <3>1. log[i] = <<>> /\ \A l \in Timers : i \in batch[l] => l = j
            BY <1>2, <2>1, <2>2 DEF OneHolder
        <3>2. \A l \in Burners : i \notin doomed[l]
            BY <1>2, <2>1, <2>2 DEF OneHolder
        <3>3. \A l \in Timers : i \notin batch'[l]
            BY <1>2, <3>1
        <3>4. Len(log'[i]) <= 1
            <4>1. Len(log'[i]) = Len(log[i]) + 1
                BY <1>0, <1>1, LogLast
            <4> QED
                BY <3>1, <4>1
        <3> QED
            BY <1>2, <2>2, <3>2, <3>3, <3>4 DEF OneHolder
    <2>3. CASE k # i
        <3>1. \A l \in Timers : k \in batch'[l] <=> k \in batch[l]
            BY <1>2, <2>3
        <3>2. log'[k] = log[k]
            BY <1>1, <2>3
        <3> QED
            BY <1>2, <2>1, <3>1, <3>2 DEF OneHolder
    <2> QED
        BY <2>2, <2>3
<1> QED
    BY <1>1, <1>2, <1>4 DEF HoldersApart

LEMMA HoldersByBurn ==
    ASSUME LedgerTyped, NEW j \in Burners, NEW i \in DOMAIN income, Burn(j, i), HoldersApart
    PROVE  HoldersApart'
<1>0. BooksTyped /\ Settle(i, "burned") /\ "burned" \in Settled
    BY DEF LedgerTyped, Burn, Settled
<1>1. /\ DOMAIN income' = DOMAIN income
      /\ log'[i] = Append(log[i], "burned") /\ log[i] \in Seq(Settled)
      /\ \A k \in DOMAIN income \ {i} : log'[k] = log[k]
    BY <1>0, SettleStep
<1>2. /\ doomed'[j] = {} /\ i \in doomed[j]
      /\ \A k \in Burners \ {j} : doomed'[k] = doomed[k]
      /\ batch' = batch /\ contended' = contended
    BY DEF LedgerTyped, JobsTyped, Burn
<1>4. ASSUME NEW k \in DOMAIN income, k \notin contended PROVE OneHolder(k)'
    <2>1. OneHolder(k)
        BY <1>4 DEF HoldersApart
    <2>2. CASE k = i
        <3>1. log[i] = <<>> /\ \A l \in Burners : i \in doomed[l] => l = j
            BY <1>2, <2>1, <2>2 DEF OneHolder
        <3>2. \A l \in Timers : i \notin batch[l]
            BY <1>2, <2>1, <2>2 DEF OneHolder
        <3>3. \A l \in Burners : i \notin doomed'[l]
            BY <1>2, <3>1
        <3>4. Len(log'[i]) <= 1
            <4>1. Len(log'[i]) = Len(log[i]) + 1
                BY <1>0, <1>1, LogLast
            <4> QED
                BY <3>1, <4>1
        <3> QED
            BY <1>2, <2>2, <3>2, <3>3, <3>4 DEF OneHolder
    <2>3. CASE k # i
        <3>1. \A l \in Burners : k \in doomed'[l] => k \in doomed[l]
            BY <1>2
        <3>2. log'[k] = log[k]
            BY <1>1, <2>3
        <3> QED
            BY <1>2, <2>1, <3>1, <3>2 DEF OneHolder
    <2> QED
        BY <2>2, <2>3
<1> QED
    BY <1>1, <1>2, <1>4 DEF HoldersApart

SettleInv == StatusFollowsLog /\ HoldersApart

LEMMA SettleInvStep ==
    ASSUME LedgerTyped, SettleInv, [LedgerNext]_ledgerVars
    PROVE  SettleInv'
<1>0. StatusFollowsLog /\ HoldersApart
    BY DEF SettleInv
<1>1. ASSUME NEW c \in Callers, Grant(c) PROVE SettleInv'
    <2>1. CASE Commit(c)
        <3>1. c \in Granters /\ Appended(c)
            BY <2>1 DEF Granters, Commit
        <3> QED
            BY <1>0, <3>1, StatusByAppended, HoldersByAppended DEF SettleInv
    <2>2. CASE UNCHANGED <<ledger, jobs>>
        BY <1>0, <2>2 DEF SettleInv, StatusFollowsLog, HoldersApart, OneHolder, ledger, jobs
    <2>3. ~Commit(c) => UNCHANGED <<ledger, jobs>>
        BY <1>1 DEF Grant, CheckDistribution, RecordResale, DraftGrant
    <2> QED
        BY <2>1, <2>2, <2>3
<1>2. ASSUME NEW j \in Timers, NEW found \in SUBSET Locked, Finds(j, found) PROVE SettleInv'
    <2>1. HoldersApart'
        BY <1>0, <1>2, HoldersByFinds
    <2>2. StatusFollowsLog'
        BY <1>0, <1>2 DEF StatusFollowsLog, Finds, ledger
    <2> QED
        BY <2>1, <2>2 DEF SettleInv
<1>3. ASSUME NEW j \in Unlockers, UnlockRun(j) PROVE SettleInv'
    <2>1. j \in Timers
        BY DEF Timers
    <2>2. CASE FindDue(j)
        <3>1. Due \in SUBSET Locked
            BY DEF Due
        <3> QED
            BY <1>2, <2>1, <2>2, <3>1 DEF FindDue
    <2>3. ASSUME NEW i \in DOMAIN income, Unlock(j, i) PROVE SettleInv'
        <3>1. HoldersApart'
            BY <1>0, <2>1, <2>3, HoldersByUnlock
        <3>2. StatusFollowsLog'
            BY <1>0, <2>3, StatusBySettle DEF Unlock, Settled
        <3> QED
            BY <3>1, <3>2 DEF SettleInv
    <2> QED
        BY <1>3, <2>2, <2>3 DEF UnlockRun
<1>4. ASSUME NEW j \in Burners, BurnRun(j) PROVE SettleInv'
    <2>1. j \in Timers
        BY DEF Timers
    <2>2. CASE FindLocked(j)
        <3>1. PICK found \in SUBSET Locked : Finds(j, found)
            BY <2>2 DEF FindLocked
        <3> QED
            BY <1>2, <2>1, <3>1
    <2>3. ASSUME NEW i \in DOMAIN income, Judge(j, i) PROVE SettleInv'
        <3>1. HoldersApart'
            BY <1>0, <2>3, HoldersByJudge
        <3>2. StatusFollowsLog'
            BY <1>0, <2>3 DEF StatusFollowsLog, Judge, ledger
        <3> QED
            BY <3>1, <3>2 DEF SettleInv
    <2>4. ASSUME NEW i \in DOMAIN income, Burn(j, i) PROVE SettleInv'
        <3>1. HoldersApart'
            BY <1>0, <2>4, HoldersByBurn
        <3>2. StatusFollowsLog'
            BY <1>0, <2>4, StatusBySettle DEF Burn, Settled
        <3> QED
            BY <3>1, <3>2 DEF SettleInv
    <2> QED
        BY <1>4, <2>2, <2>3, <2>4 DEF BurnRun
<1>5. CASE Restart
    <2>1. income' = income /\ log' = log /\ contended' = contended
        BY <1>5 DEF Restart, ledger
    <2>2. (\A j \in Timers : batch'[j] = {}) /\ \A j \in Burners : doomed'[j] = {}
        BY <1>5 DEF Restart, NoBatch, NoneDoomed, Timers
    <2>3. StatusFollowsLog'
        BY <1>0, <2>1 DEF StatusFollowsLog
    <2>4. ASSUME NEW i \in DOMAIN income, OneHolder(i) PROVE OneHolder(i)'
        BY <2>1, <2>2, <2>4 DEF OneHolder
    <2> QED
        BY <1>0, <2>1, <2>3, <2>4 DEF SettleInv, HoldersApart
<1>6. CASE UNCHANGED <<ledger, jobs>>
    BY <1>0, <1>6 DEF SettleInv, StatusFollowsLog, HoldersApart, OneHolder, ledger, jobs
<1>7. \/ \E c \in Callers : Grant(c)
      \/ \E j \in Unlockers : UnlockRun(j)
      \/ \E j \in Burners : BurnRun(j)
      \/ Restart
      \/ UNCHANGED <<ledger, jobs>>
    BY DEF LedgerNext, StoreActivation, Evaluate, Tick, ledgerVars
<1> QED
    BY <1>1, <1>3, <1>4, <1>5, <1>6, <1>7

\* An income is settled once and keeps the status it was given, unless two job
\* runs had found it (unlockEligibleIncomes, runBurnNonCompliantLockedIncomes).
THEOREM IncomesSettledOnce == LedgerSpec => []SettledOnce
<1>1. LedgerInit => SettleInv
    BY DEF LedgerInit, SettleInv, StatusFollowsLog, HoldersApart
<1>2. SettleInv => SettledOnce
    BY DEF SettleInv, StatusFollowsLog, HoldersApart, OneHolder, SettledOnce
<1> QED
    BY <1>1, <1>2, LedgerTypedInit, LedgerTypedStep, SettleInvStep, PTL DEF LedgerSpec

(***************************************************************************)
(* An activation is distributed once, and what is burned is of a day that  *)
(* starts a period.                                                        *)
(***************************************************************************)

\* A call has an activation in hand between its check and its commit.
Has(c, a) == caller[c].at # "idle" /\ caller[c].source = a

\* While one call has an activation in hand nothing of it is distributed and no
\* other call has it.
DistributeInv ==
    \A a \in DOMAIN Activation : a \notin overlapped =>
        /\ distributions[a] <= 1
        /\ \A c \in Callers : Has(c, a) => distributions[a] = 0
        /\ \A c, d \in Callers : Has(c, a) /\ Has(d, a) => c = d

LEMMA DistributeByCheck ==
    ASSUME LedgerTyped, DistributeInv, NEW c \in Callers, NEW b \in DOMAIN Activation,
           CheckDistribution(c, b)
    PROVE  DistributeInv'
<1>1. CallsTyped /\ c \in Granters
    BY DEF LedgerTyped, Granters
<1>2. PICK next : next.at = "checked" /\ next.source = b /\ Goes(c, next)
    BY DEF CheckDistribution
<1>3. caller'[c] = next /\ \A d \in Granters \ {c} : caller'[d] = caller[d]
    BY <1>1, <1>2, GoesStep
<1>4. distributions' = distributions /\ distributions[b] = 0 /\ caller[c].at = "idle"
    BY DEF CheckDistribution, ledger, At
<1>5. overlapped' = IF InHand(b) THEN overlapped \cup {b} ELSE overlapped
    BY DEF CheckDistribution
<1>6. \A d \in Callers \ {c}, a \in DOMAIN Activation : Has(d, a)' <=> Has(d, a)
    BY <1>3 DEF Has, Granters
<1>7. \A a \in DOMAIN Activation : Has(c, a)' => a = b
    BY <1>2, <1>3 DEF Has
<1>8. ASSUME NEW a \in DOMAIN Activation, a \notin overlapped'
      PROVE  /\ distributions'[a] <= 1
             /\ \A d \in Callers : Has(d, a)' => distributions'[a] = 0
             /\ \A d, e \in Callers : Has(d, a)' /\ Has(e, a)' => d = e
    <2>1. /\ distributions[a] <= 1
          /\ \A d \in Callers : Has(d, a) => distributions[a] = 0
          /\ \A d, e \in Callers : Has(d, a) /\ Has(e, a) => d = e
        BY <1>5, <1>8 DEF DistributeInv
    <2>2. CASE a = b
        <3>1. \A d \in Callers : ~Has(d, a)
            BY <1>5, <1>8, <2>2 DEF InHand, Has
        <3>2. \A d \in Callers : Has(d, a)' => d = c
            BY <1>6, <3>1
        <3> QED
            BY <1>4, <2>1, <2>2, <3>2
    <2>3. CASE a # b
        <3>1. \A d \in Callers : Has(d, a)' => Has(d, a)
            BY <1>6, <1>7, <2>3
        <3> QED
            BY <1>4, <2>1, <3>1
    <2> QED
        BY <2>2, <2>3
<1> QED
    BY <1>8 DEF DistributeInv

LEMMA DistributeByRecord ==
    ASSUME LedgerTyped, DistributeInv, NEW c \in Callers, NEW s \in DOMAIN Resale, RecordResale(c, s)
    PROVE  DistributeInv'
<1>1. CallsTyped /\ c \in Granters
    BY DEF LedgerTyped, Granters
<1>2. PICK next : next.source = s /\ Goes(c, next)
    BY DEF RecordResale
<1>3. caller'[c] = next /\ \A d \in Granters \ {c} : caller'[d] = caller[d]
    BY <1>1, <1>2, GoesStep
<1>4. distributions' = distributions /\ overlapped' = overlapped
    BY DEF RecordResale, ledger
<1>5. ASSUME NEW d \in Callers, NEW a \in DOMAIN Activation, Has(d, a)' PROVE Has(d, a)
    <2>1. CASE d = c
        <3>1. a = s
            BY <1>2, <1>3, <1>5, <2>1 DEF Has
        <3> QED
            BY <3>1, SourceAssumption
    <2>2. CASE d # c
        BY <1>3, <1>5, <2>2 DEF Has, Granters
    <2> QED
        BY <2>1, <2>2
<1> QED
    BY <1>4, <1>5 DEF DistributeInv

LEMMA DistributeByDraft ==
    ASSUME LedgerTyped, DistributeInv, NEW c \in Callers, DraftGrant(c)
    PROVE  DistributeInv'
<1>1. CallsTyped /\ c \in Granters
    BY DEF LedgerTyped, Granters
<1>2. PICK next : next.source = caller[c].source /\ Goes(c, next)
    BY DEF DraftGrant, InTransaction
<1>3. caller'[c] = next /\ \A d \in Granters \ {c} : caller'[d] = caller[d]
    BY <1>1, <1>2, GoesStep
<1>4. distributions' = distributions /\ overlapped' = overlapped /\ caller[c].at # "idle"
    BY DEF DraftGrant, ledger, At
<1>5. ASSUME NEW d \in Callers, NEW a \in DOMAIN Activation, Has(d, a)' PROVE Has(d, a)
    <2>1. CASE d = c
        BY <1>2, <1>3, <1>4, <1>5, <2>1 DEF Has
    <2>2. CASE d # c
        BY <1>3, <1>5, <2>2 DEF Has, Granters
    <2> QED
        BY <2>1, <2>2
<1> QED
    BY <1>4, <1>5 DEF DistributeInv

LEMMA DistributeByCommit ==
    ASSUME LedgerTyped, DistributeInv, NEW c \in Callers, Commit(c)
    PROVE  DistributeInv'
<1>1. CallsTyped /\ c \in Granters /\ caller[c].at # "idle"
    BY DEF LedgerTyped, Granters, Commit, Appended, At
<1>2. caller'[c] = Idle /\ \A d \in Granters \ {c} : caller'[d] = caller[d]
    BY <1>1, GoesStep DEF Commit
<1>3. overlapped' = overlapped
    BY DEF Commit, Appended
<1>4. PICK b \in Sources : b = caller[c].source
    BY <1>1 DEF CallsTyped, CallTyped
<1>5. distributions \in [Sources -> Nat] /\ distributions' = [distributions EXCEPT ![b] = @ + 1]
    BY <1>4 DEF LedgerTyped, BooksTyped, Commit, Appended
<1>6. \A d \in Callers, a \in DOMAIN Activation : Has(d, a)' => Has(d, a) /\ d # c
    BY <1>2 DEF Has, Idle, Granters
<1>7. ASSUME NEW a \in DOMAIN Activation, a \notin overlapped'
      PROVE  /\ distributions'[a] <= 1
             /\ \A d \in Callers : Has(d, a)' => distributions'[a] = 0
             /\ \A d, e \in Callers : Has(d, a)' /\ Has(e, a)' => d = e
    <2>1. /\ distributions[a] <= 1
          /\ \A d \in Callers : Has(d, a) => distributions[a] = 0
          /\ \A d, e \in Callers : Has(d, a) /\ Has(e, a) => d = e
        BY <1>3, <1>7 DEF DistributeInv
    <2>2. a \in Sources
        BY DEF Sources
    <2>3. CASE a = b
        <3>1. Has(c, a)
            BY <1>1, <1>4, <2>3 DEF Has
        <3>2. distributions'[a] = 1
            BY <1>5, <2>1, <2>2, <2>3, <3>1
        <3>3. \A d \in Callers : ~Has(d, a)'
            BY <1>6, <2>1, <3>1
        <3> QED
            BY <3>2, <3>3
    <2>4. CASE a # b
        <3>1. distributions'[a] = distributions[a]
            BY <1>5, <2>2, <2>4
        <3> QED
            BY <1>6, <2>1, <3>1
    <2> QED
        BY <2>3, <2>4
<1> QED
    BY <1>7 DEF DistributeInv

LEMMA DistributeStep ==
    ASSUME LedgerTyped, DistributeInv, [LedgerNext]_ledgerVars
    PROVE  DistributeInv'
<1>1. ASSUME NEW c \in Callers, Grant(c) PROVE DistributeInv'
    BY <1>1, DistributeByCheck, DistributeByRecord, DistributeByDraft, DistributeByCommit DEF Grant
<1>2. CASE Restart
    <2>1. distributions' = distributions /\ overlapped' = overlapped
        BY <1>2 DEF Restart, ledger
    <2>2. \A c \in Callers, a \in DOMAIN Activation : ~Has(c, a)'
        BY <1>2 DEF Restart, Nobody, Idle, Has
    <2> QED
        BY <2>1, <2>2 DEF DistributeInv
<1>3. CASE UNCHANGED <<caller, overlapped, distributions>>
    BY <1>3 DEF DistributeInv, Has
<1>4. ASSUME NEW j, UnlockRun(j) \/ BurnRun(j) PROVE UNCHANGED <<caller, overlapped, distributions>>
    BY <1>4 DEF UnlockRun, BurnRun, FindDue, FindLocked, Finds, Unlock, Judge, Burn, calls, ledger
<1>5. \/ \E c \in Callers : Grant(c)
      \/ \E j : UnlockRun(j) \/ BurnRun(j)
      \/ Restart
      \/ UNCHANGED <<caller, overlapped, distributions>>
    BY DEF LedgerNext, StoreActivation, Evaluate, Tick, ledgerVars, calls, ledger
<1> QED
    BY <1>1, <1>2, <1>3, <1>4, <1>5

\* An activation is distributed once, unless a second call checked it while a
\* first had it in hand (processActivationDistribution).
THEOREM ActivationsDistributedOnce == LedgerSpec => []DistributedOnce
<1>1. LedgerInit => DistributeInv
    <2> SUFFICES ASSUME LedgerInit PROVE DistributeInv
        OBVIOUS
    <2>1. \A a \in DOMAIN Activation : distributions[a] = 0
        BY DEF LedgerInit, Sources
    <2>2. \A c \in Callers, a \in DOMAIN Activation : ~Has(c, a)
        BY DEF LedgerInit, Nobody, Idle, Has
    <2> QED
        BY <2>1, <2>2 DEF DistributeInv
<1>2. DistributeInv => DistributedOnce
    BY DEF DistributeInv, DistributedOnce
<1> QED
    BY <1>1, <1>2, LedgerTypedInit, LedgerTypedStep, DistributeStep, PTL DEF LedgerSpec

\* Some period of the user starts with the day of the income.
Aligned(i) ==
    LET day == DayStart(income[i].created) IN PeriodStart(income[i].user, day) = day

VerdictsAtStarts ==
    \A u \in Users, t \in 0 .. MaxTime : verdict[u][t] # "none" => PeriodStart(u, t) = t

AlignInv ==
    /\ VerdictsAtStarts
    /\ \A j \in Burners : \A i \in doomed[j] : Aligned(i)
    /\ \A i \in DOMAIN income : income[i].status = "burned" => Aligned(i)

LEMMA AlignedSame ==
    ASSUME NEW i, income'[i].user = income[i].user, income'[i].created = income[i].created
    PROVE  Aligned(i)' <=> Aligned(i)
BY DEF Aligned, DayStart, PeriodStart

LEMMA AlignByCommit ==
    ASSUME LedgerTyped, AlignInv, NEW c \in Granters, Appended(c)
    PROVE  AlignInv'
<1>1. verdict' = verdict /\ doomed' = doomed
    BY DEF Appended, clock, jobs
<1>2. \A i \in DOMAIN income : income'[i] = income[i]
    BY AppendedEntries
<1>3. \A i \in DOMAIN income : Aligned(i)' <=> Aligned(i)
    BY <1>2, AlignedSame
<1>4. VerdictsAtStarts'
    BY <1>1 DEF AlignInv, VerdictsAtStarts, PeriodStart
<1>5. ASSUME NEW j \in Burners, NEW i \in doomed'[j] PROVE Aligned(i)'
    <2>1. i \in doomed[j] /\ i \in DOMAIN income
        BY <1>1, <1>5 DEF LedgerTyped, JobsTyped
    <2> QED
        BY <1>3, <2>1 DEF AlignInv
<1>6. ASSUME NEW i \in DOMAIN income', income'[i].status = "burned" PROVE Aligned(i)'
    <2>1. i \in DOMAIN income
        BY <1>6, AppendedEntries
    <2> QED
        BY <1>2, <1>3, <1>6, <2>1 DEF AlignInv
<1> QED
    BY <1>4, <1>5, <1>6 DEF AlignInv

LEMMA AlignByJudge ==
    ASSUME LedgerTyped, AlignInv, NEW j \in Burners, NEW i \in DOMAIN income, Judge(j, i)
    PROVE  AlignInv'
<1>1. verdict' = verdict /\ income' = income
    BY DEF Judge, clock, ledger
<1>2. \A k : Aligned(k)' <=> Aligned(k)
    BY <1>1, AlignedSame
<1>3. /\ doomed'[j] = IF TradingCompliant(income[i].user, income[i].created) THEN {} ELSE {i}
      /\ \A k \in Burners \ {j} : doomed'[k] = doomed[k]
    BY DEF LedgerTyped, JobsTyped, Judge
<1>4. ~TradingCompliant(income[i].user, income[i].created) => Aligned(i)
    <2> SUFFICES ASSUME ~TradingCompliant(income[i].user, income[i].created) PROVE Aligned(i)
        OBVIOUS
    <2>1. income[i] \in IncomeRows
        BY DEF LedgerTyped, BooksTyped
    <2>2. income[i].user \in Users /\ income[i].created \in 0 .. MaxTime
        BY <2>1 DEF IncomeRows
    <2>3. DayStart(income[i].created) \in 0 .. MaxTime
        BY <2>2, DayTyped
    <2>4. verdict[income[i].user][DayStart(income[i].created)] = "missed"
        BY DEF TradingCompliant
    <2> QED
        BY <2>2, <2>3, <2>4 DEF AlignInv, VerdictsAtStarts, Aligned
<1>5. ASSUME NEW k \in Burners, NEW l \in doomed'[k] PROVE Aligned(l)'
    <2>1. CASE k = j
        BY <1>2, <1>3, <1>4, <1>5, <2>1
    <2>2. CASE k # j
        BY <1>2, <1>3, <1>5, <2>2 DEF AlignInv
    <2> QED
        BY <2>1, <2>2
<1>6. VerdictsAtStarts'
    BY <1>1 DEF AlignInv, VerdictsAtStarts, PeriodStart
<1> QED
    BY <1>1, <1>2, <1>5, <1>6 DEF AlignInv

\* A step that settles an income; only what is doomed is burned.
LEMMA AlignBySettle ==
    ASSUME LedgerTyped, AlignInv, NEW i \in DOMAIN income, NEW status \in Settled,
           Settle(i, status), status = "burned" => Aligned(i), verdict' = verdict,
           \A j \in Burners : doomed'[j] \subseteq doomed[j]
    PROVE  AlignInv'
<1>1. BooksTyped
    BY DEF LedgerTyped
<1>2. /\ DOMAIN income' = DOMAIN income
      /\ \A k \in DOMAIN income :
            income'[k].user = income[k].user /\ income'[k].created = income[k].created
      /\ income'[i].status = status
      /\ \A k \in DOMAIN income \ {i} : income'[k] = income[k]
    BY <1>1, SettleStep
<1>3. \A k \in DOMAIN income : Aligned(k)' <=> Aligned(k)
    BY <1>2, AlignedSame
<1>4. VerdictsAtStarts'
    BY DEF AlignInv, VerdictsAtStarts, PeriodStart
<1>5. ASSUME NEW k \in Burners, NEW l \in doomed'[k] PROVE Aligned(l)'
    <2>1. l \in doomed[k] /\ l \in DOMAIN income
        BY <1>5 DEF LedgerTyped, JobsTyped
    <2> QED
        BY <1>3, <2>1 DEF AlignInv
<1>6. ASSUME NEW k \in DOMAIN income, income'[k].status = "burned" PROVE Aligned(k)'
    BY <1>2, <1>3, <1>6 DEF AlignInv
<1> QED
    BY <1>2, <1>4, <1>5, <1>6 DEF AlignInv

LEMMA AlignByEvaluate ==
    ASSUME LedgerTyped, AlignInv, NEW u \in Users, NEW met \in BOOLEAN, Evaluate(u, met)
    PROVE  AlignInv'
<1>1. income' = income /\ doomed' = doomed
    BY DEF Evaluate, ledger, jobs
<1>2. \A k : Aligned(k)' <=> Aligned(k)
    BY <1>1, AlignedSame
<1>3. PICK p \in 0 .. MaxTime : p = PeriodStart(u, now) /\ PeriodStart(u, p) = p
    BY PeriodTyped DEF LedgerTyped, ClockTyped
<1>4. verdict' = [verdict EXCEPT ![u][p] = IF met THEN "met" ELSE "missed"]
    BY <1>3 DEF Evaluate
<1>5. verdict \in [Users -> [0 .. MaxTime -> Verdict]]
    BY DEF LedgerTyped, ClockTyped
<1>6. ASSUME NEW v \in Users, NEW t \in 0 .. MaxTime, verdict'[v][t] # "none"
      PROVE  PeriodStart(v, t) = t
    <2>1. CASE v = u /\ t = p
        BY <1>3, <2>1
    <2>2. CASE ~(v = u /\ t = p)
        <3>1. verdict'[v][t] = verdict[v][t]
            BY <1>4, <1>5, <2>2
        <3> QED
            BY <1>6, <3>1 DEF AlignInv, VerdictsAtStarts
    <2> QED
        BY <2>1, <2>2
<1>7. VerdictsAtStarts'
    BY <1>6 DEF VerdictsAtStarts, PeriodStart
<1> QED
    BY <1>1, <1>2, <1>7 DEF AlignInv

LEMMA AlignStep ==
    ASSUME LedgerTyped, AlignInv, [LedgerNext]_ledgerVars
    PROVE  AlignInv'
<1>0. ASSUME UNCHANGED <<verdict, income>>, \A j \in Burners : doomed'[j] \subseteq doomed[j]
      PROVE  AlignInv'
    <2>1. \A k : Aligned(k)' <=> Aligned(k)
        BY <1>0, AlignedSame
    <2>2. VerdictsAtStarts'
        BY <1>0 DEF AlignInv, VerdictsAtStarts, PeriodStart
    <2> QED
        BY <1>0, <2>1, <2>2 DEF AlignInv
<1>1. ASSUME NEW c \in Callers, Grant(c) PROVE AlignInv'
    <2>1. CASE Commit(c)
        <3>1. c \in Granters /\ Appended(c)
            BY <2>1 DEF Granters, Commit
        <3> QED
            BY <3>1, AlignByCommit
    <2>2. CASE ~Commit(c)
        <3>1. UNCHANGED <<verdict, income, doomed>>
            BY <1>1, <2>2 DEF Grant, CheckDistribution, RecordResale, DraftGrant, clock, ledger, jobs
        <3> QED
            BY <1>0, <3>1
    <2> QED
        BY <2>1, <2>2
<1>2. ASSUME NEW j, NEW found, Finds(j, found) PROVE AlignInv'
    <2>1. UNCHANGED <<verdict, income, doomed>>
        BY <1>2 DEF Finds, clock, ledger
    <2> QED
        BY <1>0, <2>1
<1>3. ASSUME NEW j \in Unlockers, UnlockRun(j) PROVE AlignInv'
    <2>1. CASE FindDue(j)
        BY <1>2, <2>1 DEF FindDue
    <2>2. ASSUME NEW i \in DOMAIN income, Unlock(j, i) PROVE AlignInv'
        <3>1. Settle(i, "unlocked") /\ verdict' = verdict /\ doomed' = doomed
            BY <2>2 DEF Unlock, clock
        <3> QED
            BY <3>1, AlignBySettle DEF Settled
    <2> QED
        BY <1>3, <2>1, <2>2 DEF UnlockRun
<1>4. ASSUME NEW j \in Burners, BurnRun(j) PROVE AlignInv'
    <2>1. CASE FindLocked(j)
        BY <1>2, <2>1 DEF FindLocked
    <2>2. ASSUME NEW i \in DOMAIN income, Judge(j, i) PROVE AlignInv'
        BY <2>2, AlignByJudge
    <2>3. ASSUME NEW i \in DOMAIN income, Burn(j, i) PROVE AlignInv'
        <3>1. Settle(i, "burned") /\ verdict' = verdict /\ i \in doomed[j]
            BY <2>3 DEF Burn, clock
        <3>2. \A k \in Burners : doomed'[k] \subseteq doomed[k]
            BY <2>3 DEF Burn, LedgerTyped, JobsTyped
        <3>3. Aligned(i)
            BY <3>1 DEF AlignInv
        <3> QED
            BY <3>1, <3>2, <3>3, AlignBySettle DEF Settled
    <2> QED
        BY <1>4, <2>1, <2>2, <2>3 DEF BurnRun
<1>5. ASSUME NEW u \in Users, NEW met \in BOOLEAN, Evaluate(u, met) PROVE AlignInv'
    BY <1>5, AlignByEvaluate
<1>6. CASE Restart
    <2>1. UNCHANGED <<verdict, income>> /\ \A j \in Burners : doomed'[j] = {}
        BY <1>6 DEF Restart, ledger, NoneDoomed
    <2> QED
        BY <1>0, <2>1
<1>7. CASE UNCHANGED <<verdict, income, doomed>>
    BY <1>0, <1>7
<1>8. \/ \E c \in Callers : Grant(c)
      \/ \E j \in Unlockers : UnlockRun(j)
      \/ \E j \in Burners : BurnRun(j)
      \/ \E u \in Users, met \in BOOLEAN : Evaluate(u, met)
      \/ Restart
      \/ UNCHANGED <<verdict, income, doomed>>
    BY DEF LedgerNext, StoreActivation, Tick, ledgerVars, clock, ledger, jobs
<1> QED
    BY <1>1, <1>3, <1>4, <1>5, <1>6, <1>7, <1>8

\* The burn job burns nothing of a day at whose start no period of the user
\* starts (isUserTradingCompliantForDay).
THEOREM BurnsAreAligned == LedgerSpec => []BurnsNeedAlignedPeriod
<1>1. LedgerInit => AlignInv
    BY DEF LedgerInit, AlignInv, VerdictsAtStarts, NoneDoomed
<1>2. AlignInv => BurnsNeedAlignedPeriod
    BY DEF AlignInv, Aligned, BurnsNeedAlignedPeriod
<1> QED
    BY <1>1, <1>2, LedgerTypedInit, LedgerTypedStep, AlignStep, PTL DEF LedgerSpec

(***************************************************************************)
(* The cap of a day.  A draft that no row of the user followed still fits. *)
(***************************************************************************)

\* Rows of one day count on that day only.
LEMMA DraftedOfDay ==
    ASSUME NEW source, NEW day, NEW rows \in Seq(RowsOf(source, day)), NEW u
    PROVE  /\ Total(rows, u, day) = Drafted(rows, u)
           /\ \A d : d # day => Total(rows, u, d) = 0
           /\ (\A i \in DOMAIN rows : rows[i].user # u) => Drafted(rows, u) = 0
<1>1. \A i \in DOMAIN rows : rows[i] \in RowsOf(source, day)
    OBVIOUS
<1>2. \A i \in DOMAIN rows : DayStart(rows[i].created) = day
    BY <1>1 DEF RowsOf
<1>3. {i \in DOMAIN rows : rows[i].user = u} = OnDay(rows, u, day)
    BY <1>2 DEF OnDay
<1>4. Total(rows, u, day) = Drafted(rows, u)
    BY <1>3 DEF Drafted, Total
<1>5. ASSUME NEW d, d # day PROVE Total(rows, u, d) = 0
    <2>1. OnDay(rows, u, d) = {}
        BY <1>2, <1>5 DEF OnDay
    <2> QED
        BY <2>1, SumEmpty DEF Total
<1>6. ASSUME \A i \in DOMAIN rows : rows[i].user # u PROVE Drafted(rows, u) = 0
    <2>1. {i \in DOMAIN rows : rows[i].user = u} = {}
        BY <1>6
    <2> QED
        BY <2>1, SumEmpty DEF Drafted
<1> QED
    BY <1>4, <1>5, <1>6

\* A draft that saw all rows of a user still fits the user's cap.
FitsFor(c, u) ==
    /\ caller[c].at = "drafted" /\ caller[c].asOf = caller[c].day
    /\ Drafted(caller[c].draft.rows, u) > 0
    /\ \A i \in DOMAIN income : i > caller[c].seen => income[i].user # u
    => Total(income, u, caller[c].day) + Drafted(caller[c].draft.rows, u) <= Cap[u]

WithinCap(u, day) == <<u, day>> \notin loose => Total(income, u, day) <= Cap[u]

DraftsFit == \A c \in Callers, u \in Users : FitsFor(c, u)
DaysFit == \A u \in Users, t \in 0 .. MaxTime : WithinCap(u, DayStart(t))

LEMMA CapByCommit ==
    ASSUME LedgerTyped, DraftsFit, DaysFit, NEW c \in Callers, Commit(c)
    PROVE  DraftsFit' /\ DaysFit'
<1>0. CallsTyped /\ c \in Granters /\ Appended(c)
    BY DEF LedgerTyped, Granters, Commit
<1>1. caller'[c] = Idle /\ \A d \in Granters \ {c} : caller'[d] = caller[d]
    BY <1>0, GoesStep DEF Commit
<1>2. PICK source, day, seen : source = caller[c].source /\ day = caller[c].day /\ seen = caller[c].seen
    OBVIOUS
<1>3. PICK rows \in Seq(IncomeRows) :
          /\ rows = caller[c].draft.rows
          /\ rows \in Seq(RowsOf(source, day))
          /\ income' = income \o rows
          /\ income' \in Seq(IncomeRows)
          /\ Len(income') = Len(income) + Len(rows)
          /\ Len(rows) \in Nat /\ Len(income) \in Nat
          /\ \A i \in 1 .. Len(income) : income'[i] = income[i]
          /\ \A i \in 1 .. Len(rows) : income'[Len(income) + i] = rows[i]
    BY <1>0, <1>2, AppendedRows
<1>4. PICK s \in Seq(IncomeRows) : s = income
    BY DEF LedgerTyped, BooksTyped
<1>5. PICK n \in Nat, m \in Nat : n = Len(income) /\ m = Len(rows)
    BY <1>3
<1>6. DOMAIN s = 1 .. n /\ DOMAIN income' = 1 .. (n + m) /\ DOMAIN rows = 1 .. m
    BY <1>3, <1>4, <1>5
<1>7. ASSUME NEW u, NEW d
      PROVE  /\ Total(income', u, d) = Total(income, u, d) + Total(rows, u, d)
             /\ Total(income, u, d) \in Nat /\ Total(rows, u, d) \in Nat
    <2>1. Total(s \o rows, u, d) = Total(s, u, d) + Total(rows, u, d)
        BY TotalConcat
    <2>2. Total(s, u, d) \in Nat /\ Total(rows, u, d) \in Nat
        BY TotalNat
    <2> QED
        BY <1>3, <1>4, <2>1, <2>2
<1>8. ASSUME NEW u
      PROVE  /\ Total(rows, u, day) = Drafted(rows, u)
             /\ \A d : d # day => Total(rows, u, d) = 0
             /\ (\A i \in DOMAIN rows : rows[i].user # u) => Drafted(rows, u) = 0
    <2>1. rows \in Seq(RowsOf(source, day))
        BY <1>3
    <2> QED
        BY <2>1, DraftedOfDay
<1>9. ASSUME NEW u \in Users, NEW t \in 0 .. MaxTime, <<u, DayStart(t)>> \notin loose'
      PROVE  Total(income', u, DayStart(t)) <= Cap[u]
    <2>1. PICK d : d = DayStart(t)
        OBVIOUS
    <2>2. loose' = loose \cup Unseen(c)
        BY <1>0 DEF Appended
    <2>3. Total(income, u, d) <= Cap[u]
        BY <1>9, <2>1, <2>2 DEF DaysFit, WithinCap
    <2>4. Cap[u] \in Nat
        BY TreeAssumption
    <2>5. CASE Total(rows, u, d) = 0
        BY <1>7, <2>1, <2>3, <2>4, <2>5
    <2>6. CASE Total(rows, u, d) # 0
        <3>1. d = day /\ Drafted(rows, u) > 0 /\ Drafted(rows, u) = Total(rows, u, d)
            BY <1>7, <1>8, <2>6
        <3>2. <<u, day>> \notin Unseen(c)
            BY <1>9, <2>1, <2>2, <3>1
        <3>3. ~(\/ caller[c].asOf # caller[c].day
                \/ \E i \in DOMAIN income : i > caller[c].seen /\ income[i].user = u)
            <4> SUFFICES ASSUME \/ caller[c].asOf # caller[c].day
                                \/ \E i \in DOMAIN income : i > caller[c].seen /\ income[i].user = u
                         PROVE  <<u, day>> \in Unseen(c)
                BY <3>2
            <4>1. u \in {v \in Users :
                    /\ Drafted(caller[c].draft.rows, v) > 0
                    /\ \/ caller[c].asOf # caller[c].day
                       \/ \E i \in DOMAIN income : i > caller[c].seen /\ income[i].user = v}
                BY <1>3, <3>1
            <4> QED
                BY <1>2, <4>1 DEF Unseen
        <3>4. FitsFor(c, u)
            BY DEF DraftsFit
        <3>5. Total(income, u, day) + Drafted(rows, u) <= Cap[u]
            BY <1>0, <1>2, <1>3, <3>1, <3>3, <3>4 DEF FitsFor, Appended, At
        <3> QED
            BY <1>7, <2>1, <3>1, <3>5
    <2> QED
        BY <2>5, <2>6
<1>10. ASSUME NEW e \in Callers, NEW u \in Users PROVE FitsFor(e, u)'
    <2>1. CASE e = c
        BY <1>1, <2>1 DEF FitsFor, Idle
    <2>2. CASE e # c
        <3>1. caller'[e] = caller[e]
            BY <1>1, <2>2 DEF Granters
        <3> SUFFICES ASSUME caller[e].at = "drafted", caller[e].asOf = caller[e].day,
                            Drafted(caller[e].draft.rows, u) > 0,
                            \A i \in DOMAIN income' : i > caller[e].seen => income'[i].user # u
                     PROVE  Total(income', u, caller[e].day) + Drafted(caller[e].draft.rows, u) <= Cap[u]
            BY <3>1 DEF FitsFor, Drafted
        <3>2. PICK seen2 \in 0 .. n : seen2 = caller[e].seen
            <4>1. CallTyped(caller[e])
                BY <1>0 DEF CallsTyped, Granters
            <4> QED
                BY <1>5, <4>1 DEF CallTyped
        <3>3. \A i \in DOMAIN income : i > caller[e].seen => income[i].user # u
            <4>1. \A i \in 1 .. n : i \in 1 .. (n + m)
                OBVIOUS
            <4> QED
                BY <1>3, <1>4, <1>5, <1>6, <4>1
        <3>4. \A i \in DOMAIN rows : rows[i].user # u
            <4>1. ASSUME NEW i \in 1 .. m PROVE rows[i].user # u
                <5>1. n + i \in 1 .. (n + m) /\ n + i > seen2
                    BY <3>2
                <5>2. income'[n + i].user # u
                    BY <1>6, <3>2, <5>1
                <5>3. income'[n + i] = rows[i]
                    BY <1>3, <1>5
                <5> QED
                    BY <5>2, <5>3
            <4> QED
                BY <1>6, <4>1
        <3>5. Total(rows, u, caller[e].day) = 0
            BY <1>8, <3>4
        <3>6. FitsFor(e, u)
            BY DEF DraftsFit
        <3>7. Total(income, u, caller[e].day) + Drafted(caller[e].draft.rows, u) <= Cap[u]
            BY <3>3, <3>6 DEF FitsFor
        <3>8. Total(income', u, caller[e].day) = Total(income, u, caller[e].day)
            BY <1>7, <3>5
        <3> QED
            BY <3>7, <3>8
    <2> QED
        BY <2>1, <2>2
<1> QED
    BY <1>9, <1>10 DEF DraftsFit, DaysFit, WithinCap

\* A step after which every row grants what it did and no draft is new.
LEMMA CapSame ==
    ASSUME LedgerTyped, DraftsFit, DaysFit, loose' = loose,
           DOMAIN income' = DOMAIN income,
           \A i \in DOMAIN income :
              /\ income'[i].user = income[i].user /\ income'[i].created = income[i].created
              /\ income'[i].amount = income[i].amount,
           \A c \in Callers : caller'[c] = caller[c] \/ caller'[c].at # "drafted"
    PROVE  DraftsFit' /\ DaysFit'
<1>1. ASSUME NEW u, NEW d PROVE Total(income', u, d) = Total(income, u, d)
    <2>1. income \in Seq(IncomeRows)
        BY DEF LedgerTyped, BooksTyped
    <2> QED
        BY <2>1, TotalSame
<1>2. DaysFit'
    BY <1>1 DEF DaysFit, WithinCap
<1>3. ASSUME NEW c \in Callers, NEW u \in Users PROVE FitsFor(c, u)'
    <2>1. CASE caller'[c].at # "drafted"
        BY <2>1 DEF FitsFor
    <2>2. CASE caller'[c] = caller[c]
        <3>1. FitsFor(c, u)
            BY DEF DraftsFit
        <3> QED
            BY <1>1, <2>2, <3>1 DEF FitsFor, Drafted
    <2> QED
        BY <2>1, <2>2
<1> QED
    BY <1>2, <1>3 DEF DraftsFit

LEMMA CapByDraft ==
    ASSUME LedgerTyped, DraftsFit, DaysFit, NEW c \in Callers, DraftGrant(c)
    PROVE  DraftsFit' /\ DaysFit'
<1>1. PICK source \in DOMAIN Activation \cup DOMAIN Resale : source = caller[c].source
    BY DEF LedgerTyped, CallsTyped, DraftGrant, At
<1>2. PICK shares \in Seq(Shares) : shares = SharesOf(source, caller[c].compliant)
    BY SharesTyped
<1>3. PICK next : next = InTransaction(source, shares, TimeOf(source)) /\ Goes(c, next)
    BY <1>1, <1>2 DEF DraftGrant
<1>4. source \in Sources /\ now + LockTicks <= MaxTime
    BY DEF Sources, DraftGrant
<1>5. next.asOf = next.day => Fits(next.draft.rows, next.day)
    BY <1>3, <1>4, InTransactionTyped
<1>6. next.day = DayStart(now)
    BY <1>3, <1>4, InTransactionTyped
<1>7. CallsTyped /\ c \in Granters
    BY DEF LedgerTyped, Granters
<1>8. caller'[c] = next /\ \A d \in Granters \ {c} : caller'[d] = caller[d]
    BY <1>3, <1>7, GoesStep
<1>9. income' = income /\ loose' = loose
    BY DEF DraftGrant, ledger
<1>10. ASSUME NEW e \in Callers, NEW u \in Users PROVE FitsFor(e, u)'
    <2>1. CASE e = c
        <3>1. next.asOf = next.day /\ Drafted(next.draft.rows, u) > 0
                => Total(income, u, next.day) + Drafted(next.draft.rows, u) <= Cap[u]
            BY <1>5, <1>6 DEF Fits
        <3> QED
            BY <1>8, <1>9, <2>1, <3>1 DEF FitsFor, Drafted
    <2>2. CASE e # c
        <3>1. caller'[e] = caller[e] /\ FitsFor(e, u)
            BY <1>8, <2>2 DEF Granters, DraftsFit
        <3> QED
            BY <1>9, <3>1 DEF FitsFor, Drafted
    <2> QED
        BY <2>1, <2>2
<1>11. DaysFit'
    BY <1>9 DEF DaysFit, WithinCap
<1> QED
    BY <1>10, <1>11 DEF DraftsFit

LEMMA CapStep ==
    ASSUME LedgerTyped, DraftsFit, DaysFit, [LedgerNext]_ledgerVars
    PROVE  DraftsFit' /\ DaysFit'
<1>1. ASSUME NEW c \in Callers, Grant(c) PROVE DraftsFit' /\ DaysFit'
    <2>1. ASSUME NEW next, Goes(c, next), next.at # "drafted", UNCHANGED <<income, loose>>
          PROVE  DraftsFit' /\ DaysFit'
        <3>1. CallsTyped /\ c \in Granters
            BY DEF LedgerTyped, Granters
        <3>2. caller'[c] = next /\ \A d \in Granters \ {c} : caller'[d] = caller[d]
            BY <2>1, <3>1, GoesStep
        <3>3. \A d \in Callers : caller'[d] = caller[d] \/ caller'[d].at # "drafted"
            BY <2>1, <3>2 DEF Granters
        <3> QED
            BY <2>1, <3>3, CapSame
    <2>2. ASSUME NEW a \in DOMAIN Activation, CheckDistribution(c, a) PROVE DraftsFit' /\ DaysFit'
        <3>1. PICK next : next.at = "checked" /\ Goes(c, next)
            BY <2>2 DEF CheckDistribution
        <3>2. UNCHANGED <<income, loose>>
            BY <2>2 DEF CheckDistribution, ledger
        <3> QED
            BY <2>1, <3>1, <3>2
    <2>3. ASSUME NEW s \in DOMAIN Resale, RecordResale(c, s) PROVE DraftsFit' /\ DaysFit'
        <3>1. PICK next : next.at = "checked" /\ Goes(c, next)
            BY <2>3 DEF RecordResale
        <3>2. UNCHANGED <<income, loose>>
            BY <2>3 DEF RecordResale, ledger
        <3> QED
            BY <2>1, <3>1, <3>2
    <2> QED
        BY <1>1, <2>2, <2>3, CapByDraft, CapByCommit DEF Grant
<1>2. ASSUME UNCHANGED <<caller, loose, income>> PROVE DraftsFit' /\ DaysFit'
    BY <1>2, CapSame
<1>3. ASSUME NEW i \in DOMAIN income, NEW status \in Settled, Settle(i, status),
             UNCHANGED <<caller, loose>>
      PROVE  DraftsFit' /\ DaysFit'
    <2>1. BooksTyped
        BY DEF LedgerTyped
    <2>2. /\ DOMAIN income' = DOMAIN income
          /\ \A k \in DOMAIN income :
                /\ income'[k].user = income[k].user /\ income'[k].created = income[k].created
                /\ income'[k].amount = income[k].amount
        BY <1>3, <2>1, SettleStep
    <2> QED
        BY <1>3, <2>2, CapSame
<1>4. ASSUME NEW j \in Unlockers, UnlockRun(j) PROVE DraftsFit' /\ DaysFit'
    <2>1. CASE FindDue(j)
        <3>1. UNCHANGED <<caller, loose, income>>
            BY <2>1 DEF FindDue, Finds, ledger, calls
        <3> QED
            BY <1>2, <3>1
    <2>2. ASSUME NEW i \in DOMAIN income, Unlock(j, i) PROVE DraftsFit' /\ DaysFit'
        <3>1. Settle(i, "unlocked") /\ UNCHANGED <<caller, loose>>
            BY <2>2 DEF Unlock, calls
        <3> QED
            BY <1>3, <3>1 DEF Settled
    <2> QED
        BY <1>4, <2>1, <2>2 DEF UnlockRun
<1>5. ASSUME NEW j \in Burners, BurnRun(j) PROVE DraftsFit' /\ DaysFit'
    <2>1. CASE FindLocked(j)
        <3>1. UNCHANGED <<caller, loose, income>>
            BY <2>1 DEF FindLocked, Finds, ledger, calls
        <3> QED
            BY <1>2, <3>1
    <2>2. ASSUME NEW i \in DOMAIN income, Judge(j, i) PROVE DraftsFit' /\ DaysFit'
        <3>1. UNCHANGED <<caller, loose, income>>
            BY <2>2 DEF Judge, ledger, calls
        <3> QED
            BY <1>2, <3>1
    <2>3. ASSUME NEW i \in DOMAIN income, Burn(j, i) PROVE DraftsFit' /\ DaysFit'
        <3>1. Settle(i, "burned") /\ UNCHANGED <<caller, loose>>
            BY <2>3 DEF Burn, calls
        <3> QED
            BY <1>3, <3>1 DEF Settled
    <2> QED
        BY <1>5, <2>1, <2>2, <2>3 DEF BurnRun
<1>6. CASE Restart
    <2>1. UNCHANGED <<loose, income>> /\ \A c \in Callers : caller'[c].at # "drafted"
        BY <1>6 DEF Restart, ledger, Nobody, Idle
    <2> QED
        BY <2>1, CapSame
<1>7. CASE UNCHANGED <<caller, loose, income>>
    BY <1>2, <1>7
<1>8. \/ \E c \in Callers : Grant(c)
      \/ \E j \in Unlockers : UnlockRun(j)
      \/ \E j \in Burners : BurnRun(j)
      \/ Restart
      \/ UNCHANGED <<caller, loose, income>>
    BY DEF LedgerNext, StoreActivation, Evaluate, Tick, ledgerVars, calls, ledger
<1> QED
    BY <1>1, <1>4, <1>5, <1>6, <1>7, <1>8

CapInv == DraftsFit /\ DaysFit

\* What a user is granted in a day stays within the cap, unless a grant of that
\* day was judged without seeing another, or by the room of another day
\* (splitAmountByDailyCap and grantIncomeCapped).
THEOREM CapAlwaysKept == LedgerSpec => []CapKept
<1>1. LedgerInit => CapInv
    <2> SUFFICES ASSUME LedgerInit PROVE CapInv
        OBVIOUS
    <2>1. \A u \in Users : \A d : Total(income, u, d) <= Cap[u]
        BY TotalEmpty, TreeAssumption DEF LedgerInit
    <2>2. \A c \in Callers : caller[c].at = "idle"
        BY DEF LedgerInit, Nobody, Idle
    <2> QED
        BY <2>1, <2>2 DEF CapInv, DraftsFit, DaysFit, WithinCap, FitsFor
<1>2. CapInv => CapKept
    BY SumIsTotal DEF CapInv, DaysFit, WithinCap, CapKept
<1>3. LedgerTyped /\ CapInv /\ [LedgerNext]_ledgerVars => CapInv'
    BY CapStep DEF CapInv
<1> QED
    BY <1>1, <1>2, <1>3, LedgerTypedInit, LedgerTypedStep, PTL DEF LedgerSpec

(***************************************************************************)
(* Types of the pool's run: the shares of the ranks.                       *)
(***************************************************************************)

LEMMA SetToSeqTyped ==
    ASSUME NEW S, IsFiniteSet(S)
    PROVE  SetToSeq(S) \in [1 .. Cardinality(S) -> S] /\ Cardinality(S) \in Nat
<1>1. Cardinality(S) \in Nat /\ ExistsBijection(1 .. Cardinality(S), S)
    BY FS_CardinalityType
<1>2. \E f \in [1 .. Cardinality(S) -> S] : IsInjective(f)
    BY <1>1 DEF ExistsBijection, Bijection, Injection
<1> QED
    BY <1>1, <1>2 DEF SetToSeq

LEMMA RankSharesTyped ==
    ASSUME NEW r \in DOMAIN Ranks, NEW total \in Nat, NEW compliant
    PROVE  RankShares(r, total, compliant) \in Seq(Shares)
<1>0. NoUser \in MaybeUser /\ Users \subseteq MaybeUser
    BY DEF MaybeUser
<1>1. Amount(r, total) \in Nat
    <2>1. PICK pct \in Nat : pct = RankPct[r]
        BY RankAssumption
    <2>2. total * pct \in Nat
        OBVIOUS
    <2>3. (total * pct) \div 100 \in Nat
        BY <2>2
    <2> QED
        BY <2>1, <2>3 DEF Amount
<1>2. CASE Members(r) = {}
    <2>1. RankShares(r, total, compliant) = <<Share(NoUser, Amount(r, total))>>
        BY <1>2 DEF RankShares
    <2> QED
        BY <1>0, <1>1, <2>1, ShareTyped
<1>3. CASE Members(r) # {}
    <2>1. Members(r) \in SUBSET Users
        BY DEF Members
    <2>2. IsFiniteSet(Members(r))
        BY <2>1, UserAssumption, FS_Subset
    <2>3. PICK n \in Nat : n = Cardinality(Members(r)) /\ n > 0
        <3>1. Cardinality(Members(r)) \in Nat /\ Cardinality(Members(r)) # 0
            BY <1>3, <2>2, FS_CardinalityType, FS_EmptySet
        <3> QED
            BY <3>1
    <2>4. PICK members \in [1 .. n -> Members(r)] : members = SetToSeq(Members(r))
        BY <2>2, <2>3, SetToSeqTyped
    <2>5. PICK each \in Nat : each = PerMember(r, total)
        BY <1>1, <2>3, QuotientNat DEF PerMember
    <2> DEFINE to(u) == IF u \in compliant THEN u ELSE NoUser
    <2>6. \A m \in 1 .. n : Share(to(members[m]), each) \in Shares
        <3>1. \A m \in 1 .. n : members[m] \in Users
            BY <2>1, <2>4
        <3>2. \A m \in 1 .. n : to(members[m]) \in MaybeUser
            BY <1>0, <3>1
        <3> HIDE DEF to
        <3> QED
            BY <3>2, ShareTyped
    <2>7. RankShares(r, total, compliant) = [m \in 1 .. n |-> Share(to(members[m]), each)]
        BY <1>3, <2>4, <2>5 DEF RankShares
    <2> HIDE DEF to
    <2> QED
        BY <2>6, <2>7
<1> QED
    BY <1>2, <1>3

LEMMA RunSharesTyped ==
    ASSUME NEW total \in Nat, NEW compliant
    PROVE  RunShares(total, compliant) \in Seq(Shares)
<1>1. DOMAIN Ranks = 1 .. Len(Ranks) /\ Len(Ranks) \in Nat
    BY RankAssumption
<1>2. \A r \in 1 .. Len(Ranks) : RankShares(r, total, compliant) \in Seq(Shares)
    BY <1>1, RankSharesTyped
<1>3. [r \in DOMAIN Ranks |-> RankShares(r, total, compliant)] \in Seq(Seq(Shares))
    BY <1>1, <1>2
<1> QED
    BY <1>3, FlattenType DEF RunShares

LEMMA QuotientGrows ==
    ASSUME NEW a \in Nat, NEW b \in Nat, a <= b, NEW d \in Nat, d > 0
    PROVE  a \div d <= b \div d /\ a \div d \in Nat /\ b \div d \in Nat
<1>1. PICK p \in Nat : p = a \div d
    BY QuotientNat
<1>2. PICK q \in Nat : q = b \div d
    BY QuotientNat
<1>3. p * d <= a /\ p * d \in Nat
    BY <1>1
<1>4. b < (q + 1) * d /\ (q + 1) * d \in Nat
    BY <1>2
<1>5. p * d < (q + 1) * d
    BY <1>3, <1>4
<1>6. p < q + 1
    BY <1>5
<1> QED
    BY <1>1, <1>2, <1>6

LEMMA TodayTyped ==
    ASSUME now \in 0 .. MaxTime
    PROVE  Today \in Days /\ Days \subseteq Nat
<1>1. MaxTime \in Nat /\ DayTicks \in Nat /\ DayTicks > 0
    BY BoundAssumption
<1>2. now \div DayTicks <= MaxTime \div DayTicks /\ now \div DayTicks \in Nat
    BY <1>1, QuotientGrows
<1> QED
    BY <1>1, <1>2 DEF Today, Days

RunTyped ==
    /\ run \in [day : Int, total : Nat, compliant : SUBSET Users, rows : SUBSET Nat]
    /\ caller[Runner].at # "idle" =>
        caller[Runner].source \in Runs /\ {"at", "source"} \subseteq DOMAIN caller[Runner]
ContractTyped ==
    /\ dayPool \in [Days -> Nat] /\ dayDistributed \in [Days -> BOOLEAN]
PoolsTyped == \E S : pools \in Seq(S)

PoolTyped == LedgerTyped /\ RunTyped /\ ContractTyped /\ PoolsTyped

LEMMA TotalPoolNat ==
    ASSUME ContractTyped, now \in 0 .. MaxTime
    PROVE  TotalPool \in Nat
<1>1. IsFiniteSet(Days)
    <2>1. MaxTime \div DayTicks \in Nat
        BY BoundAssumption, QuotientNat
    <2> QED
        BY <2>1, FS_Interval DEF Days
<1>2. \A d \in Days : dayPool[d] \in Nat
    BY DEF ContractTyped
<1>3. SumOver(Days, dayPool) \in Nat
    BY <1>1, <1>2, SumNat
<1>4. Balance = SumOver(Days, dayPool)
    BY DEF Balance, SumOver
<1> QED
    BY <1>2, <1>3, <1>4, TodayTyped DEF TotalPool

(***************************************************************************)
(* Each step of a run keeps the types.                                     *)
(***************************************************************************)

LEMMA PoolTypedInit == PoolInit => PoolTyped
<1> SUFFICES ASSUME PoolInit PROVE PoolTyped
    OBVIOUS
<1>1. LedgerTyped
    BY LedgerTypedInit DEF PoolInit
<1>2. RunTyped
    BY DEF PoolInit, LedgerInit, RunTyped, Nobody, Idle, NoDay
<1>3. ContractTyped
    BY DEF PoolInit, ContractTyped
<1>4. PoolsTyped
    <2>1. pools \in Seq({})
        BY DEF PoolInit
    <2> QED
        BY <2>1 DEF PoolsTyped
<1> QED
    BY <1>1, <1>2, <1>3, <1>4 DEF PoolTyped

\* A step of the ledger does not move the run.
LEMMA RunnerStays ==
    ASSUME LedgerTyped, LedgerStep
    PROVE  caller'[Runner] = caller[Runner] /\ UNCHANGED poolVars
<1>1. UNCHANGED poolVars
    BY DEF LedgerStep
<1>2. ASSUME NEW c \in Callers, Grant(c) PROVE caller'[Runner] = caller[Runner]
    <2>1. CallsTyped /\ c \in Granters /\ Runner \in Granters /\ Runner # c
        BY UserAssumption DEF LedgerTyped, Granters
    <2>2. \E next : Goes(c, next)
        BY <1>2 DEF Grant, CheckDistribution, RecordResale, DraftGrant, Commit
    <2> QED
        BY <2>1, <2>2, GoesStep
<1>3. ASSUME NEW j, UnlockRun(j) \/ BurnRun(j) PROVE caller' = caller
    BY <1>3 DEF UnlockRun, BurnRun, FindDue, FindLocked, Finds, Unlock, Judge, Burn, calls
<1>4. \/ \E c \in Callers : Grant(c)
      \/ \E j : UnlockRun(j) \/ BurnRun(j)
      \/ caller' = caller
    BY DEF LedgerStep, StoreActivation, Evaluate, Tick, calls
<1> QED
    BY <1>1, <1>2, <1>3, <1>4

LEMMA LedgerStepIsNext == LedgerStep => LedgerNext
BY DEF LedgerStep, LedgerNext

\* A step that moves only the run on.
LEMMA TypedByRunner ==
    ASSUME LedgerTyped, NEW next, Goes(Runner, next), CallTyped(next),
           UNCHANGED <<clock, stored, ledger, jobs>>
    PROVE  LedgerTyped' /\ caller'[Runner] = next
<1>0. Runner \in Granters /\ Runner \notin Callers /\ CallsTyped
    BY UserAssumption DEF LedgerTyped, Granters
<1>1. ClockTyped'
    BY DEF LedgerTyped, ClockTyped, clock, stored, Verdict
<1>2. BooksTyped'
    BY DEF LedgerTyped, BooksTyped, ledger
<1>3. JobsTyped'
    BY DEF LedgerTyped, JobsTyped, jobs, ledger
<1>4. CallsTyped'
    <2>1. income' = income
        BY DEF ledger
    <2> QED
        BY <1>0, <2>1, CallMoved
<1>5. caller'[Runner] = next
    BY <1>0, GoesStep
<1> QED
    BY <1>1, <1>2, <1>3, <1>4, <1>5 DEF LedgerTyped

\* The source of the run is one of the ledger's.
LEMMA RunnerSource ==
    ASSUME PoolTyped, caller[Runner].at # "idle"
    PROVE  caller[Runner].source \in Runs /\ caller[Runner].source \in Sources
BY DEF PoolTyped, RunTyped, Sources

\* What the run is called with after its transaction.
After(call, stage, source) ==
    /\ call.at = stage /\ stage \in {"recorded", "found", "sent", "settled"}
    /\ call.source = source /\ {"at", "source"} \subseteq DOMAIN call

LEMMA AfterTyped ==
    ASSUME NEW call, NEW stage, NEW source \in Sources, After(call, stage, source)
    PROVE  CallTyped(call)
BY DEF After, CallTyped

LEMMA MovesTo ==
    ASSUME PoolTyped, NEW stage \in {"found", "settled"}, Moves(stage),
           caller[Runner].at # "idle"
    PROVE  \E next : Goes(Runner, next) /\ After(next, stage, caller[Runner].source)
<1>1. PICK next : next = [caller[Runner] EXCEPT !.at = stage] /\ Goes(Runner, next)
    BY DEF Moves
<1>2. {"at", "source"} \subseteq DOMAIN caller[Runner]
    BY DEF PoolTyped, RunTyped
<1>3. next.at = stage /\ next.source = caller[Runner].source /\ DOMAIN next = DOMAIN caller[Runner]
    BY <1>1, <1>2
<1> QED
    BY <1>1, <1>2, <1>3 DEF After

\* A step of the run after its transaction that leaves the ledger alone.
LEMMA TypedAfter ==
    ASSUME PoolTyped, caller[Runner].at # "idle", NEW next, NEW stage, Goes(Runner, next),
           After(next, stage, caller[Runner].source), UNCHANGED <<clock, stored, ledger, jobs>>,
           run' \in [day : Int, total : Nat, compliant : SUBSET Users, rows : SUBSET Nat],
           ContractTyped', PoolsTyped'
    PROVE  PoolTyped'
<1>1. caller[Runner].source \in Runs /\ caller[Runner].source \in Sources
    BY RunnerSource
<1>2. LedgerTyped /\ CallTyped(next)
    BY <1>1, AfterTyped DEF PoolTyped
<1>3. LedgerTyped' /\ caller'[Runner] = next
    BY <1>2, TypedByRunner
<1>4. RunTyped'
    BY <1>1, <1>3 DEF RunTyped, After
<1> QED
    BY <1>3, <1>4 DEF PoolTyped

LEMMA ReadPoolTyped == ASSUME PoolTyped, ReadPool PROVE PoolTyped'
<1>0. LedgerTyped /\ RunTyped /\ ContractTyped /\ PoolsTyped
    BY DEF PoolTyped
<1>1. ContractTyped' /\ PoolsTyped'
    BY <1>0 DEF ReadPool, ContractTyped, PoolsTyped, chain
<1>2. UNCHANGED <<clock, stored, ledger, jobs>>
    BY DEF ReadPool
<1>3. CASE TotalPool = 0
    <2>1. UNCHANGED <<caller, run>> /\ UNCHANGED ledgerVars
        BY <1>2, <1>3 DEF ReadPool, ledgerVars, calls
    <2>2. LedgerTyped'
        BY <1>0, <2>1, LedgerTypedStep
    <2> QED
        BY <1>0, <1>1, <2>1, <2>2 DEF PoolTyped, RunTyped
<1>4. CASE TotalPool # 0
    <2>1. PICK n \in Nat : n = Len(pools)
        BY <1>0 DEF PoolsTyped
    <2>2. PICK source \in Runs : source = n + 1
        BY <2>1, BoundAssumption DEF ReadPool, Runs
    <2>3. PICK next : next = [at |-> "checked", source |-> source] /\ Goes(Runner, next)
        BY <1>4, <2>1, <2>2 DEF ReadPool
    <2>4. next.at = "checked" /\ next.source = source /\ {"at", "source"} \subseteq DOMAIN next
        BY <2>3
    <2>5. CallTyped(next)
        BY <2>4 DEF CallTyped, Sources
    <2>6. LedgerTyped' /\ caller'[Runner] = next
        BY <1>0, <1>2, <2>3, <2>5, TypedByRunner
    <2>7. run' = [day |-> Today, total |-> TotalPool,
                  compliant |-> {u \in Users : WasCompliant(u)}, rows |-> {}]
        BY <1>4 DEF ReadPool
    <2>8. TotalPool \in Nat /\ Today \in Int
        <3>1. now \in 0 .. MaxTime
            BY <1>0 DEF LedgerTyped, ClockTyped
        <3> QED
            BY <1>0, <3>1, TotalPoolNat, TodayTyped
    <2>9. run' \in [day : Int, total : Nat, compliant : SUBSET Users, rows : SUBSET Nat]
        BY <2>7, <2>8
    <2>10. RunTyped'
        BY <2>4, <2>6, <2>9 DEF RunTyped
    <2> QED
        BY <1>1, <2>6, <2>10 DEF PoolTyped
<1> QED
    BY <1>3, <1>4

LEMMA DraftRunTyped == ASSUME PoolTyped, DraftRun PROVE PoolTyped'
<1>0. LedgerTyped /\ RunTyped /\ ContractTyped /\ PoolsTyped /\ caller[Runner].at # "idle"
    BY DEF PoolTyped, DraftRun, At
<1>1. PICK source \in Runs : source = caller[Runner].source /\ source \in Sources
    BY <1>0, RunnerSource
<1>2. PICK shares \in Seq(Shares) : shares = RunShares(run.total, run.compliant)
    BY <1>0, RunSharesTyped DEF RunTyped
<1>3. PICK next : next = InTransaction(source, shares, now) /\ Goes(Runner, next)
    BY <1>1, <1>2 DEF DraftRun
<1>4. now + LockTicks <= MaxTime
    BY DEF DraftRun
<1>5. CallTyped(next) /\ next.at = "drafted" /\ next.source = source
    BY <1>0, <1>1, <1>3, <1>4, InTransactionTyped
<1>6. {"at", "source"} \subseteq DOMAIN next
    BY <1>3 DEF InTransaction
<1>7. UNCHANGED <<clock, stored, ledger, jobs>> /\ UNCHANGED poolVars
    BY DEF DraftRun
<1>8. LedgerTyped' /\ caller'[Runner] = next
    BY <1>0, <1>3, <1>5, <1>7, TypedByRunner
<1>9. RunTyped'
    BY <1>0, <1>5, <1>6, <1>7, <1>8 DEF RunTyped, poolVars
<1>10. ContractTyped' /\ PoolsTyped'
    BY <1>0, <1>7 DEF ContractTyped, PoolsTyped, poolVars, chain
<1> QED
    BY <1>8, <1>9, <1>10 DEF PoolTyped

LEMMA CommitRunTyped ==
    ASSUME PoolTyped, CommitRun
    PROVE  PoolTyped' /\ caller'[Runner].at = "recorded"
<1>0. LedgerTyped /\ RunTyped /\ ContractTyped /\ PoolsTyped /\ caller[Runner].at # "idle"
    BY DEF PoolTyped, CommitRun, Appended, At
<1>1. PICK source \in Runs : source = caller[Runner].source /\ source \in Sources
    BY <1>0, RunnerSource
<1>2. PICK next : next = [at |-> "recorded", source |-> source] /\ Goes(Runner, next)
    BY <1>1 DEF CommitRun
<1>3. next.at = "recorded" /\ next.source = source /\ {"at", "source"} \subseteq DOMAIN next
    BY <1>2
<1>4. CallTyped(next)'
    BY <1>1, <1>3 DEF CallTyped
<1>5. Runner \in Granters /\ Runner \notin Callers /\ Appended(Runner) /\ CallsTyped
    BY <1>0, UserAssumption DEF Granters, CommitRun, LedgerTyped
<1>6. LedgerTyped'
    BY <1>0, <1>2, <1>4, <1>5, AppendedTyped
<1>7. caller'[Runner] = next
    BY <1>2, <1>5, GoesStep
<1>8. RunTyped'
    BY <1>0, <1>3, <1>7 DEF RunTyped, CommitRun
<1>9. ContractTyped'
    BY <1>0 DEF ContractTyped, CommitRun, chain
<1>10. PoolsTyped'
    <2>1. PICK S : pools \in Seq(S)
        BY <1>0 DEF PoolsTyped
    <2>2. PICK p : pools' = Append(pools, p)
        BY DEF CommitRun
    <2>3. pools \in Seq(S \cup {p})
        BY <2>1
    <2>4. Append(pools, p) \in Seq(S \cup {p})
        BY <2>3, AppendProperties
    <2> QED
        BY <2>2, <2>4 DEF PoolsTyped
<1> QED
    BY <1>3, <1>6, <1>7, <1>8, <1>9, <1>10 DEF PoolTyped

LEMMA FindUnpaidTyped ==
    ASSUME PoolTyped, FindUnpaid
    PROVE  /\ PoolTyped'
           /\ \/ caller'[Runner].at = "settled"
              \/ caller'[Runner].at = "found" /\ caller'[Runner].source = caller[Runner].source
<1>0. LedgerTyped /\ RunTyped /\ ContractTyped /\ PoolsTyped /\ caller[Runner].at # "idle"
    BY DEF PoolTyped, FindUnpaid, At
<1>1. PICK rows : rows = Unpaid(caller[Runner].source)
    OBVIOUS
<1>2. PICK stage \in {"found", "settled"} : Moves(stage)
    BY <1>1 DEF FindUnpaid
<1>3. PICK next : Goes(Runner, next) /\ After(next, stage, caller[Runner].source)
    BY <1>0, <1>2, MovesTo
<1>4. rows \in SUBSET Nat
    <2>1. income \in Seq(IncomeRows)
        BY <1>0 DEF LedgerTyped, BooksTyped
    <2>2. DOMAIN income \subseteq Nat
        BY <2>1
    <2> QED
        BY <1>1, <2>2 DEF Unpaid
<1>5. run' = [run EXCEPT !.rows = rows]
    BY <1>1 DEF FindUnpaid
<1>6. run' \in [day : Int, total : Nat, compliant : SUBSET Users, rows : SUBSET Nat]
    BY <1>0, <1>4, <1>5 DEF RunTyped
<1>7. ContractTyped' /\ PoolsTyped'
    BY <1>0 DEF ContractTyped, PoolsTyped, FindUnpaid, chain
<1>8. UNCHANGED <<clock, stored, ledger, jobs>>
    BY DEF FindUnpaid
<1>9. PoolTyped'
    BY <1>0, <1>3, <1>6, <1>7, <1>8, TypedAfter
<1>10. Runner \in Granters /\ CallsTyped
    BY <1>0 DEF Granters, LedgerTyped
<1>11. caller'[Runner] = next
    BY <1>3, <1>10, GoesStep
<1> QED
    BY <1>3, <1>9, <1>11 DEF After

\* A call is sent for a finished day; the run then knows the day.
LEMMA DistributeTyped ==
    ASSUME PoolTyped, Distribute
    PROVE  /\ PoolTyped'
           /\ \/ caller'[Runner].at = "settled"
              \/ /\ caller'[Runner].at = "sent" /\ caller'[Runner].source = caller[Runner].source
                 /\ caller'[Runner].paying \in Days
                 /\ <<caller'[Runner].source, caller'[Runner].paying>> \in inFlight'
<1>0. LedgerTyped /\ RunTyped /\ ContractTyped /\ PoolsTyped /\ caller[Runner].at # "idle"
    BY DEF PoolTyped, Distribute, At
<1>1. PICK source \in Runs : source = caller[Runner].source /\ source \in Sources
    BY <1>0, RunnerSource
<1>2. UNCHANGED <<clock, stored, ledger, jobs>> /\ run' = run /\ PoolsTyped'
    BY <1>0 DEF Distribute, PoolsTyped
<1>3. run' \in [day : Int, total : Nat, compliant : SUBSET Users, rows : SUBSET Nat]
    BY <1>0, <1>2 DEF RunTyped
<1>4. Runner \in Granters /\ CallsTyped
    BY <1>0 DEF Granters, LedgerTyped
<1>5. CASE Distributable(DayToPay)
    <2>1. PICK d \in Days : d = DayToPay
        BY <1>5 DEF Distributable
    <2>2. PICK next : next = [at |-> "sent", source |-> source, paying |-> d] /\ Goes(Runner, next)
        BY <1>1, <1>5, <2>1 DEF Distribute
    <2>3. After(next, "sent", source) /\ next.paying = d
        BY <2>2 DEF After
    <2>4. <<source, d>> \in inFlight'
        BY <1>1, <1>5, <2>1 DEF Distribute
    <2>5. ContractTyped'
        BY <1>0 DEF ContractTyped, Distribute
    <2>6. PoolTyped'
        BY <1>0, <1>1, <1>2, <1>3, <2>2, <2>3, <2>5, TypedAfter
    <2>7. caller'[Runner] = next
        BY <1>4, <2>2, GoesStep
    <2> QED
        BY <1>1, <2>3, <2>4, <2>6, <2>7 DEF After
<1>6. CASE ~Distributable(DayToPay)
    <2>1. Moves("settled")
        BY <1>6 DEF Distribute
    <2>2. PICK next : Goes(Runner, next) /\ After(next, "settled", caller[Runner].source)
        BY <1>0, <2>1, MovesTo
    <2>3. ContractTyped'
        BY <1>0 DEF ContractTyped, Distribute
    <2>4. PoolTyped'
        BY <1>0, <1>2, <1>3, <2>2, <2>3, TypedAfter
    <2>5. caller'[Runner] = next
        BY <1>4, <2>2, GoesStep
    <2> QED
        BY <2>2, <2>4, <2>5 DEF After
<1> QED
    BY <1>5, <1>6

\* Paid rows become unlocked and keep the rest.
LEMMA MarkedRows ==
    ASSUME LedgerTyped, MarkPaid
    PROVE  /\ income' \in Seq(IncomeRows) /\ Len(income') = Len(income)
           /\ DOMAIN income' = DOMAIN income
           /\ \A i \in DOMAIN income : i \in run.rows =>
                income'[i].status = "unlocked" /\ income'[i].of = income[i].of
           /\ \A i \in DOMAIN income : i \notin run.rows => income'[i] = income[i]
<1>1. PICK s \in Seq(IncomeRows) : s = income
    BY DEF LedgerTyped, BooksTyped
<1>2. DOMAIN s = 1 .. Len(s) /\ Len(s) \in Nat /\ \A i \in DOMAIN s : s[i] \in IncomeRows
    OBVIOUS
<1>3. income' = [i \in DOMAIN s |-> IF i \in run.rows THEN [s[i] EXCEPT !.status = "unlocked"] ELSE s[i]]
    BY <1>1 DEF MarkPaid
<1>4. ASSUME NEW r \in IncomeRows
      PROVE  /\ [r EXCEPT !.status = "unlocked"] \in IncomeRows
             /\ [r EXCEPT !.status = "unlocked"].status = "unlocked"
             /\ [r EXCEPT !.status = "unlocked"].of = r.of
    BY DEF IncomeRows
<1>5. ASSUME NEW i \in DOMAIN s PROVE income'[i] \in IncomeRows
    BY <1>2, <1>3, <1>4
<1>6. income' = [i \in 1 .. Len(s) |-> income'[i]]
    BY <1>2, <1>3
<1>7. income' \in Seq(IncomeRows) /\ Len(income') = Len(s)
    BY <1>2, <1>5, <1>6
<1>8. ASSUME NEW i \in DOMAIN s, i \in run.rows
      PROVE  income'[i].status = "unlocked" /\ income'[i].of = s[i].of
    <2>1. income'[i] = [s[i] EXCEPT !.status = "unlocked"]
        BY <1>3, <1>8
    <2> QED
        BY <1>2, <1>4, <2>1
<1>9. \A i \in DOMAIN s : i \notin run.rows => income'[i] = s[i]
    BY <1>3
<1> QED
    BY <1>1, <1>2, <1>6, <1>7, <1>8, <1>9

LEMMA MarkPaidTyped ==
    ASSUME PoolTyped, MarkPaid
    PROVE  PoolTyped' /\ caller'[Runner].at = "settled"
<1>0. /\ LedgerTyped /\ RunTyped /\ ContractTyped /\ PoolsTyped /\ CallsTyped
      /\ caller[Runner].at # "idle" /\ Runner \in Granters /\ Runner \notin Callers
    BY UserAssumption DEF PoolTyped, LedgerTyped, Granters, MarkPaid, At
<1>1. PICK source \in Runs : source = caller[Runner].source /\ source \in Sources
    BY <1>0, RunnerSource
<1>2. PICK next : Goes(Runner, next) /\ After(next, "settled", source)
    BY <1>0, <1>1, MovesTo DEF MarkPaid
<1>3. /\ income' \in Seq(IncomeRows) /\ Len(income') = Len(income)
      /\ DOMAIN income' = DOMAIN income
    BY <1>0, MarkedRows
<1>4. /\ caller' = [d \in Granters |-> caller'[d]] /\ caller'[Runner] = next
      /\ \A d \in Granters \ {Runner} : caller'[d] = caller[d]
    BY <1>0, <1>2, GoesStep
<1>5. BooksTyped'
    BY <1>0, <1>3 DEF LedgerTyped, BooksTyped, MarkPaid
<1>6. ClockTyped'
    BY <1>0 DEF LedgerTyped, ClockTyped, MarkPaid, clock, stored, Verdict
<1>7. JobsTyped'
    BY <1>0, <1>3 DEF LedgerTyped, JobsTyped, MarkPaid, jobs
<1>8. CallsTyped'
    <2>1. ASSUME NEW d \in Granters PROVE CallTyped(caller[d])'
        <3>1. CASE d = Runner
            BY <1>1, <1>2, <1>4, <3>1 DEF After, CallTyped
        <3>2. CASE d # Runner
            BY <1>0, <1>3, <1>4, <3>2 DEF CallsTyped, CallTyped, RowsOf, NewRows, DayStart
        <3> QED
            BY <3>1, <3>2
    <2>2. \A d \in Callers : caller'[d] = caller[d]
        BY <1>0, <1>4 DEF Granters
    <2> QED
        BY <1>0, <1>4, <2>1, <2>2 DEF CallsTyped
<1>9. RunTyped'
    BY <1>0, <1>1, <1>2, <1>4 DEF RunTyped, After, MarkPaid
<1>10. ContractTyped' /\ PoolsTyped'
    BY <1>0 DEF ContractTyped, PoolsTyped, MarkPaid, chain
<1> QED
    BY <1>2, <1>4, <1>5, <1>6, <1>7, <1>8, <1>9, <1>10 DEF PoolTyped, LedgerTyped, After

LEMMA LoseReceiptTyped ==
    ASSUME PoolTyped, LoseReceipt
    PROVE  PoolTyped' /\ caller'[Runner].at = "settled"
<1>0. LedgerTyped /\ RunTyped /\ ContractTyped /\ PoolsTyped /\ caller[Runner].at # "idle"
    BY DEF PoolTyped, LoseReceipt, At
<1>1. PICK next : Goes(Runner, next) /\ After(next, "settled", caller[Runner].source)
    BY <1>0, MovesTo DEF LoseReceipt
<1>2. UNCHANGED <<clock, stored, ledger, jobs>> /\ UNCHANGED poolVars
    BY DEF LoseReceipt
<1>3. run' \in [day : Int, total : Nat, compliant : SUBSET Users, rows : SUBSET Nat]
    BY <1>0, <1>2 DEF RunTyped, poolVars
<1>4. ContractTyped' /\ PoolsTyped'
    BY <1>0, <1>2 DEF ContractTyped, PoolsTyped, poolVars, chain
<1>5. PoolTyped'
    BY <1>0, <1>1, <1>2, <1>3, <1>4, TypedAfter
<1>6. Runner \in Granters /\ CallsTyped
    BY <1>0 DEF Granters, LedgerTyped
<1> QED
    BY <1>1, <1>5, <1>6, GoesStep DEF After

LEMMA EndRunTyped ==
    ASSUME PoolTyped, EndRun
    PROVE  PoolTyped' /\ caller'[Runner].at = "idle"
<1>0. LedgerTyped /\ RunTyped /\ ContractTyped /\ PoolsTyped
    BY DEF PoolTyped
<1>1. Goes(Runner, Idle) /\ Idle.at = "idle" /\ UNCHANGED <<clock, stored, ledger, jobs>> /\ UNCHANGED poolVars
    BY DEF EndRun, Idle
<1>2. CallTyped(Idle)
    BY DEF CallTyped, Idle
<1>3. LedgerTyped' /\ caller'[Runner] = Idle
    BY <1>0, <1>1, <1>2, TypedByRunner
<1>4. RunTyped'
    BY <1>0, <1>1, <1>3 DEF RunTyped, poolVars
<1>5. ContractTyped' /\ PoolsTyped'
    BY <1>0, <1>1 DEF ContractTyped, PoolsTyped, poolVars, chain
<1> QED
    BY <1>1, <1>3, <1>4, <1>5 DEF PoolTyped

\* A step of the contract leaves the ledger and the run alone, and what was
\* distributed or reverted stays so.
LEMMA ChainLeaves ==
    ASSUME PoolTyped, ChainStep
    PROVE  /\ UNCHANGED <<ledgerVars, timer, run, pools, marks, seenAlive>>
           /\ ContractTyped' /\ reverted \subseteq reverted'
           /\ \A d \in Days : dayDistributed[d] => dayDistributed'[d]
           /\ \A n, d : <<n, d>> \in inFlight =>
                <<n, d>> \in inFlight' \/ (d \in Days => dayDistributed'[d]) \/ n \in reverted'
<1>0. ContractTyped
    BY DEF PoolTyped
<1>1. CASE Credit
    <2>1. Today \in Days
        BY TodayTyped DEF PoolTyped, LedgerTyped, ClockTyped
    <2>2. PICK d \in Days : d = Today
        BY <2>1
    <2>3. dayPool' = [dayPool EXCEPT ![d] = @ + CreditOf] /\ dayDistributed' = dayDistributed
        BY <1>1, <2>2 DEF Credit
    <2>4. ContractTyped'
        BY <1>0, <2>3, RankAssumption DEF ContractTyped
    <2> QED
        BY <1>1, <2>4 DEF Credit
<1>2. ASSUME NEW n \in Runs, NEW d \in Days, Mine(n, d)
      PROVE  /\ UNCHANGED <<ledgerVars, timer, run, pools, marks, seenAlive>>
             /\ ContractTyped' /\ reverted \subseteq reverted'
             /\ \A e \in Days : dayDistributed[e] => dayDistributed'[e]
             /\ inFlight' = inFlight \ {<<n, d>>}
             /\ dayDistributed'[d] \/ n \in reverted'
    <2>1. \/ /\ dayDistributed' = [dayDistributed EXCEPT ![d] = TRUE]
             /\ dayPool' = [dayPool EXCEPT ![d] = 0] /\ reverted' = reverted
          \/ reverted' = reverted \cup {n} /\ UNCHANGED <<dayPool, dayDistributed>>
        BY <1>2 DEF Mine
    <2>2. ContractTyped'
        <3>1. CASE dayDistributed' = [dayDistributed EXCEPT ![d] = TRUE]
                   /\ dayPool' = [dayPool EXCEPT ![d] = 0]
            BY <1>0, <3>1 DEF ContractTyped
        <3>2. CASE UNCHANGED <<dayPool, dayDistributed>>
            BY <1>0, <3>2 DEF ContractTyped
        <3> QED
            BY <2>1, <3>1, <3>2
    <2>3. \A e \in Days : dayDistributed[e] => dayDistributed'[e]
        BY <1>0, <2>1 DEF ContractTyped
    <2>4. dayDistributed'[d] \/ n \in reverted'
        BY <1>0, <2>1 DEF ContractTyped
    <2>5. reverted \subseteq reverted'
        BY <2>1
    <2> QED
        BY <1>2, <2>2, <2>3, <2>4, <2>5 DEF Mine
<1>3. ASSUME NEW n \in Runs, NEW d \in Days, Mine(n, d), NEW m, NEW e, <<m, e>> \in inFlight
      PROVE  <<m, e>> \in inFlight' \/ (e \in Days => dayDistributed'[e]) \/ m \in reverted'
    <2>1. CASE m = n /\ e = d
        BY <1>2, <1>3, <2>1
    <2>2. CASE ~(m = n /\ e = d)
        <3>1. <<m, e>> # <<n, d>>
            BY <2>2
        <3> QED
            BY <1>2, <1>3, <3>1
    <2> QED
        BY <2>1, <2>2
<1>4. CASE \E n \in Runs, d \in Days : Mine(n, d)
    BY <1>2, <1>3, <1>4
<1> QED
    BY <1>1, <1>4 DEF ChainStep

LEMMA ChainTyped == ASSUME PoolTyped, ChainStep PROVE PoolTyped'
<1>0. LedgerTyped /\ RunTyped /\ ContractTyped /\ PoolsTyped
    BY DEF PoolTyped
<1>1. UNCHANGED ledgerVars /\ UNCHANGED <<run, pools>> /\ ContractTyped'
    BY ChainLeaves
<1>2. LedgerTyped' /\ caller' = caller
    BY <1>0, <1>1, LedgerTypedStep DEF ledgerVars, calls
<1> QED
    BY <1>0, <1>1, <1>2 DEF PoolTyped, RunTyped, PoolsTyped

LEMMA RestartPoolTyped ==
    ASSUME PoolTyped, RestartPool
    PROVE  PoolTyped' /\ caller'[Runner].at = "idle"
<1>0. LedgerTyped /\ RunTyped /\ ContractTyped /\ PoolsTyped
    BY DEF PoolTyped
<1>1. LedgerTyped'
    BY <1>0, LedgerTypedStep DEF RestartPool, LedgerNext
<1>2. caller'[Runner].at = "idle"
    BY DEF RestartPool, Restart, Nobody, Idle
<1> QED
    BY <1>0, <1>1, <1>2 DEF PoolTyped, RunTyped, ContractTyped, PoolsTyped, RestartPool, chain

LEMMA PoolTypedStep ==
    ASSUME PoolTyped, [PoolNext]_allVars
    PROVE  PoolTyped'
<1>0. LedgerTyped /\ RunTyped /\ ContractTyped /\ PoolsTyped
    BY DEF PoolTyped
<1>1. CASE LedgerStep
    <2>1. LedgerTyped'
        BY <1>0, <1>1, LedgerStepIsNext, LedgerTypedStep
    <2>2. caller'[Runner] = caller[Runner] /\ UNCHANGED poolVars
        BY <1>0, <1>1, RunnerStays
    <2> QED
        BY <1>0, <2>1, <2>2 DEF PoolTyped, RunTyped, ContractTyped, PoolsTyped, poolVars, chain
<1>2. CASE RunStep
    BY <1>2, ReadPoolTyped, DraftRunTyped, CommitRunTyped, FindUnpaidTyped, DistributeTyped,
       MarkPaidTyped, EndRunTyped DEF RunStep
<1>3. CASE UNCHANGED allVars
    <2>1. LedgerTyped'
        BY <1>0, <1>3, LedgerTypedStep DEF allVars
    <2> QED
        BY <1>0, <1>3, <2>1
        DEF PoolTyped, RunTyped, ContractTyped, PoolsTyped, allVars, ledgerVars, calls, poolVars, chain
<1> QED
    BY <1>1, <1>2, <1>3, LoseReceiptTyped, ChainTyped, RestartPoolTyped DEF PoolNext

(***************************************************************************)
(* What is marked as paid was distributed.                                 *)
(***************************************************************************)

\* What a step of the ledger does to the rows and their logs.
LEMMA LedgerMoves ==
    ASSUME [LedgerNext]_ledgerVars
    PROVE  \/ \E c \in Callers : Appended(c)
           \/ \E i \in DOMAIN income, status \in Settled : Settle(i, status)
           \/ UNCHANGED <<income, log>>
<1>1. ASSUME NEW c \in Callers, Grant(c) PROVE Appended(c) \/ UNCHANGED <<income, log>>
    BY <1>1 DEF Grant, CheckDistribution, RecordResale, DraftGrant, Commit, ledger
<1>2. ASSUME NEW j, UnlockRun(j) \/ BurnRun(j)
      PROVE  \/ \E i \in DOMAIN income, status \in Settled : Settle(i, status)
             \/ UNCHANGED <<income, log>>
    <2>1. CASE FindDue(j) \/ FindLocked(j)
        BY <2>1 DEF FindDue, FindLocked, Finds, ledger
    <2>2. CASE \E i \in DOMAIN income : Unlock(j, i)
        BY <2>2 DEF Unlock, Settled
    <2>3. CASE \E i \in DOMAIN income : Judge(j, i)
        BY <2>3 DEF Judge, ledger
    <2>4. CASE \E i \in DOMAIN income : Burn(j, i)
        BY <2>4 DEF Burn, Settled
    <2> QED
        BY <1>2, <2>1, <2>2, <2>3, <2>4 DEF UnlockRun, BurnRun
<1>3. \/ \E c \in Callers : Grant(c)
      \/ \E j : UnlockRun(j) \/ BurnRun(j)
      \/ UNCHANGED <<income, log>>
    BY DEF LedgerNext, StoreActivation, Evaluate, Tick, Restart, ledgerVars, ledger
<1> QED
    BY <1>1, <1>2, <1>3

\* Rows are never lost and keep their source.
LEMMA RowsKept ==
    ASSUME LedgerTyped, \/ \E c \in Granters : Appended(c)
                        \/ \E i \in DOMAIN income, status \in Settled : Settle(i, status)
                        \/ UNCHANGED <<income, log>>
    PROVE  /\ DOMAIN income \subseteq DOMAIN income'
           /\ \A i \in DOMAIN income : income'[i].of = income[i].of
<1>1. CASE \E c \in Granters : Appended(c)
    BY <1>1, AppendedEntries
<1>2. ASSUME NEW i \in DOMAIN income, NEW status \in Settled, Settle(i, status)
      PROVE  /\ DOMAIN income \subseteq DOMAIN income'
             /\ \A k \in DOMAIN income : income'[k].of = income[k].of
    BY <1>2, SettleStep DEF LedgerTyped
<1> QED
    BY <1>1, <1>2

\* The call of run n for day d was mined; it distributed the day or was reverted.
Answered(n, d) == dayDistributed[d] \/ n \in reverted

PaidInv ==
    /\ payment = [n \in Runs |-> payment[n]]
    /\ paid \subseteq DOMAIN income
    /\ \A i \in paid :
        /\ income[i].of \in Runs /\ payment[income[i].of] \in Days
        /\ Answered(income[i].of, payment[income[i].of])
    /\ caller[Runner].at \in {"found", "sent"} =>
        /\ run.rows \subseteq DOMAIN income
        /\ \A i \in run.rows : income[i].of = caller[Runner].source
    /\ caller[Runner].at = "sent" =>
        /\ caller[Runner].paying \in Days
        /\ \/ <<caller[Runner].source, caller[Runner].paying>> \in inFlight
           \/ Answered(caller[Runner].source, caller[Runner].paying)

\* A step that keeps the rows, what was paid and the contract.
LEMMA PaidKept ==
    ASSUME PaidInv, UNCHANGED <<paid, payment, dayDistributed, inFlight, reverted>>,
           DOMAIN income \subseteq DOMAIN income',
           \A i \in DOMAIN income : income'[i].of = income[i].of,
           \/ caller'[Runner].at \notin {"found", "sent"}
           \/ caller'[Runner] = caller[Runner] /\ run' = run
    PROVE  PaidInv'
BY DEF PaidInv, Answered

LEMMA PaidByChain ==
    ASSUME PoolTyped, PaidInv, ChainStep
    PROVE  PaidInv'
<1>1. UNCHANGED <<paid, payment, income, caller, run>>
    BY ChainLeaves DEF marks, ledgerVars, ledger, calls
<1>2. \A n : \A d \in Days : Answered(n, d) => Answered(n, d)'
    BY ChainLeaves DEF Answered
<1>3. \A i \in paid : Answered(income[i].of, payment[income[i].of])'
    BY <1>1, <1>2 DEF PaidInv, Answered
<1>4. ASSUME caller[Runner].at = "sent"
      PROVE  \/ <<caller[Runner].source, caller[Runner].paying>> \in inFlight'
             \/ Answered(caller[Runner].source, caller[Runner].paying)'
    <2>1. PICK n, d : n = caller[Runner].source /\ d = caller[Runner].paying
        OBVIOUS
    <2>2. d \in Days /\ (<<n, d>> \in inFlight \/ Answered(n, d))
        BY <1>4, <2>1 DEF PaidInv
    <2>3. <<n, d>> \in inFlight' \/ dayDistributed'[d] \/ n \in reverted'
        BY <2>2, ChainLeaves DEF Answered
    <2> QED
        BY <1>1, <2>1, <2>3 DEF Answered
<1> QED
    BY <1>1, <1>3, <1>4 DEF PaidInv

LEMMA PaidByFind ==
    ASSUME PoolTyped, PaidInv, FindUnpaid
    PROVE  PaidInv'
<1>1. UNCHANGED <<paid, payment, dayDistributed, inFlight, reverted, income>>
    BY DEF FindUnpaid, marks, chain, ledger
<1>2. \/ caller'[Runner].at = "settled"
      \/ caller'[Runner].at = "found" /\ caller'[Runner].source = caller[Runner].source
    BY FindUnpaidTyped
<1>3. run'.rows = Unpaid(caller[Runner].source)
    BY DEF FindUnpaid, PoolTyped, RunTyped
<1>4. run'.rows \subseteq DOMAIN income /\ \A i \in run'.rows : income[i].of = caller[Runner].source
    BY <1>3 DEF Unpaid
<1> QED
    BY <1>1, <1>2, <1>4 DEF PaidInv, Answered

LEMMA PaidByDistribute ==
    ASSUME PoolTyped, PaidInv, Distribute
    PROVE  PaidInv'
<1>1. UNCHANGED <<paid, payment, income, run, dayDistributed, reverted>>
    BY DEF Distribute, marks, ledger
<1>2. caller[Runner].at = "found"
    BY DEF Distribute, At
<1>3. \/ caller'[Runner].at = "settled"
      \/ /\ caller'[Runner].at = "sent" /\ caller'[Runner].source = caller[Runner].source
         /\ caller'[Runner].paying \in Days
         /\ <<caller'[Runner].source, caller'[Runner].paying>> \in inFlight'
    BY DistributeTyped
<1> QED
    BY <1>1, <1>2, <1>3 DEF PaidInv, Answered

LEMMA PaidByMark ==
    ASSUME PoolTyped, PaidInv, MarkPaid
    PROVE  PaidInv'
<1>1. /\ DOMAIN income' = DOMAIN income
      /\ \A i \in DOMAIN income : income'[i].of = income[i].of
    BY MarkedRows DEF PoolTyped
<1>2. caller[Runner].at = "sent" /\ caller'[Runner].at = "settled"
    BY MarkPaidTyped DEF MarkPaid, At
<1>3. PICK n \in Runs : n = caller[Runner].source
    BY <1>2, RunnerSource
<1>4. PICK d \in Days : d = caller[Runner].paying /\ Answered(n, d)
    BY <1>2, <1>3 DEF PaidInv, MarkPaid, Mined
<1>5. /\ paid' = paid \cup run.rows /\ payment' = [payment EXCEPT ![n] = d]
      /\ UNCHANGED <<dayDistributed, reverted>>
    BY <1>3, <1>4 DEF MarkPaid, chain
<1>6. payment' = [m \in Runs |-> payment'[m]] /\ payment'[n] = d
      /\ \A m \in Runs \ {n} : payment'[m] = payment[m]
    BY <1>5 DEF PaidInv
<1>7. run.rows \subseteq DOMAIN income /\ \A i \in run.rows : income[i].of = n
    BY <1>2, <1>3 DEF PaidInv
<1>8. ASSUME NEW i \in paid'
      PROVE  /\ i \in DOMAIN income /\ income[i].of \in Runs
             /\ payment'[income[i].of] \in Days
             /\ Answered(income[i].of, payment'[income[i].of])
    <2>1. i \in DOMAIN income /\ income[i].of \in Runs
        BY <1>5, <1>7, <1>8 DEF PaidInv
    <2>2. CASE income[i].of = n
        BY <1>4, <1>6, <2>1, <2>2
    <2>3. CASE income[i].of # n
        <3>1. i \in paid
            BY <1>5, <1>7, <1>8, <2>3
        <3>2. payment'[income[i].of] = payment[income[i].of]
            BY <1>6, <2>1, <2>3
        <3> QED
            BY <2>1, <3>1, <3>2 DEF PaidInv
    <2> QED
        BY <2>2, <2>3
<1> QED
    BY <1>1, <1>2, <1>5, <1>6, <1>8 DEF PaidInv, Answered

LEMMA PaidStep ==
    ASSUME PoolTyped, PaidInv, [PoolNext]_allVars
    PROVE  PaidInv'
<1>0. LedgerTyped
    BY DEF PoolTyped
<1>1. CASE LedgerStep
    <2>1. caller'[Runner] = caller[Runner] /\ UNCHANGED poolVars
        BY <1>0, <1>1, RunnerStays
    <2>2. /\ DOMAIN income \subseteq DOMAIN income'
          /\ \A i \in DOMAIN income : income'[i].of = income[i].of
        BY <1>0, <1>1, LedgerStepIsNext, LedgerMoves, RowsKept DEF Granters
    <2> QED
        BY <2>1, <2>2, PaidKept DEF poolVars, marks, chain
<1>2. CASE ReadPool
    <2>1. UNCHANGED <<paid, payment, dayDistributed, inFlight, reverted, income>>
        BY <1>2 DEF ReadPool, marks, chain, ledger
    <2>2. \/ caller' = caller /\ run' = run
          \/ caller'[Runner].at \notin {"found", "sent"}
        <3>1. CASE TotalPool = 0
            BY <1>2, <3>1 DEF ReadPool
        <3>2. CASE TotalPool # 0
            <4>1. PICK next : next.at = "checked" /\ Goes(Runner, next)
                BY <1>2, <3>2 DEF ReadPool
            <4>2. CallsTyped /\ Runner \in Granters
                BY <1>0 DEF LedgerTyped, Granters
            <4>3. caller'[Runner] = next
                BY <4>1, <4>2, GoesStep
            <4> QED
                BY <4>1, <4>3
        <3> QED
            BY <3>1, <3>2
    <2> QED
        BY <2>1, <2>2, PaidKept
<1>3. CASE DraftRun
    <2>1. UNCHANGED <<paid, payment, dayDistributed, inFlight, reverted, income>>
        BY <1>3 DEF DraftRun, poolVars, marks, chain, ledger
    <2>2. PICK next : next.at = "drafted" /\ Goes(Runner, next)
        BY <1>3 DEF DraftRun, InTransaction
    <2>3. CallsTyped /\ Runner \in Granters
        BY <1>0 DEF LedgerTyped, Granters
    <2>4. caller'[Runner].at \notin {"found", "sent"}
        BY <2>2, <2>3, GoesStep
    <2> QED
        BY <2>1, <2>4, PaidKept
<1>4. CASE CommitRun
    <2>1. Runner \in Granters /\ Appended(Runner)
        BY <1>4 DEF CommitRun, Granters
    <2>2. /\ DOMAIN income \subseteq DOMAIN income'
          /\ \A i \in DOMAIN income : income'[i].of = income[i].of
        BY <1>0, <2>1, RowsKept
    <2>3. caller'[Runner].at = "recorded"
        BY <1>4, CommitRunTyped
    <2> QED
        BY <1>4, <2>2, <2>3, PaidKept DEF CommitRun, marks, chain
<1>5. CASE LoseReceipt
    <2>1. caller'[Runner].at = "settled"
        BY <1>5, LoseReceiptTyped
    <2> QED
        BY <1>5, <2>1, PaidKept DEF LoseReceipt, poolVars, marks, chain, ledger
<1>6. CASE EndRun
    <2>1. caller'[Runner].at = "idle"
        BY <1>6, EndRunTyped
    <2> QED
        BY <1>6, <2>1, PaidKept DEF EndRun, poolVars, marks, chain, ledger
<1>7. CASE ChainStep
    BY <1>7, PaidByChain
<1>8. CASE RestartPool
    <2>1. caller'[Runner].at = "idle"
        BY <1>8, RestartPoolTyped
    <2> QED
        BY <1>8, <2>1, PaidKept DEF RestartPool, Restart, marks, chain, ledger
<1>9. CASE UNCHANGED allVars
    BY <1>9, PaidKept DEF allVars, ledgerVars, ledger, calls, poolVars, marks, chain
<1> QED
    BY <1>1, <1>2, <1>3, <1>4, <1>5, <1>6, <1>7, <1>8, <1>9, PaidByFind, PaidByDistribute, PaidByMark
    DEF PoolNext, RunStep

\* A row marked as paid carries a day that the contract has distributed, unless
\* the call its run waited for was mined and reverted, also when receipts are
\* lost, processes restart and runs repeat (executeGlobalPoolOnChainPayouts).
THEOREM PaidRowsDistributed == PoolSpec => []PaidIsDistributed
<1>1. PoolInit => PaidInv
    BY DEF PoolInit, LedgerInit, PaidInv, Nobody, Idle
<1>2. PaidInv => PaidIsDistributed
    <2>1. NoDay \notin Days
        BY BoundAssumption, QuotientNat DEF NoDay, Days
    <2> QED
        BY <2>1 DEF PaidInv, PaidIsDistributed, Answered
<1> QED
    BY <1>1, <1>2, PoolTypedInit, PoolTypedStep, PaidStep, PTL DEF PoolSpec

(***************************************************************************)
(* Burned incomes stay burned, and a day has one run.                      *)
(***************************************************************************)

\* What a row says and what the jobs did to it agree, unless a payment found it.
Agrees(i) == income[i].status = IF log[i] = <<>> THEN "locked" ELSE Last(log[i])

RevivedInv ==
    /\ run.rows \subseteq seenAlive
    /\ \A i \in DOMAIN income : i \in seenAlive \/ Agrees(i)

LEMMA AgreesKept ==
    ASSUME LedgerTyped, RevivedInv, run'.rows \subseteq seenAlive', seenAlive \subseteq seenAlive',
           \/ \E c \in Granters : Appended(c)
           \/ \E i \in DOMAIN income, status \in Settled : Settle(i, status)
           \/ UNCHANGED <<income, log>>
    PROVE  RevivedInv'
<1>1. ASSUME NEW c \in Granters, Appended(c), NEW i \in DOMAIN income'
      PROVE  i \in seenAlive' \/ Agrees(i)'
    BY <1>1, AppendedEntries DEF RevivedInv, Agrees
<1>2. ASSUME NEW k \in DOMAIN income, NEW status \in Settled, Settle(k, status),
             NEW i \in DOMAIN income'
      PROVE  i \in seenAlive' \/ Agrees(i)'
    <2>1. BooksTyped
        BY DEF LedgerTyped
    <2>2. /\ DOMAIN income' = DOMAIN income
          /\ income'[k].status = status
          /\ \A l \in DOMAIN income \ {k} : income'[l] = income[l]
          /\ log'[k] = Append(log[k], status) /\ log[k] \in Seq(Settled)
          /\ \A l \in DOMAIN income \ {k} : log'[l] = log[l]
        BY <1>2, <2>1, SettleStep
    <2>3. log'[k] # <<>> /\ Last(log'[k]) = status
        BY <2>2, LogLast
    <2> QED
        BY <1>2, <2>2, <2>3 DEF RevivedInv, Agrees
<1>3. ASSUME UNCHANGED <<income, log>>, NEW i \in DOMAIN income'
      PROVE  i \in seenAlive' \/ Agrees(i)'
    BY <1>3 DEF RevivedInv, Agrees
<1> QED
    BY <1>1, <1>2, <1>3 DEF RevivedInv

LEMMA RevivedByFind ==
    ASSUME PoolTyped, RevivedInv, FindUnpaid
    PROVE  RevivedInv'
<1>1. LedgerTyped /\ UNCHANGED <<income, log>>
    BY DEF PoolTyped, FindUnpaid, ledger
<1>2. run'.rows = Unpaid(caller[Runner].source)
    BY DEF FindUnpaid, PoolTyped, RunTyped
<1>3. seenAlive' = seenAlive \cup {i \in Unpaid(caller[Runner].source) : income[i].status # "burned"}
    BY DEF FindUnpaid
<1>4. \A i \in Unpaid(caller[Runner].source) : income[i].status # "burned"
    BY DEF Unpaid
<1>5. run'.rows \subseteq seenAlive' /\ seenAlive \subseteq seenAlive'
    BY <1>2, <1>3, <1>4
<1> QED
    BY <1>1, <1>5, AgreesKept

LEMMA RevivedByMark ==
    ASSUME PoolTyped, RevivedInv, MarkPaid
    PROVE  RevivedInv'
<1>1. /\ DOMAIN income' = DOMAIN income
      /\ \A i \in DOMAIN income : i \notin run.rows => income'[i] = income[i]
    BY MarkedRows DEF PoolTyped
<1>2. UNCHANGED <<log, run, seenAlive>>
    BY DEF MarkPaid
<1> QED
    BY <1>1, <1>2 DEF RevivedInv, Agrees

LEMMA RevivedStep ==
    ASSUME PoolTyped, RevivedInv, [PoolNext]_allVars
    PROVE  RevivedInv'
<1>0. LedgerTyped /\ run.rows \subseteq seenAlive
    BY DEF PoolTyped, RevivedInv
<1>1. CASE LedgerStep
    <2>1. UNCHANGED poolVars
        BY <1>1 DEF LedgerStep
    <2> QED
        BY <1>0, <1>1, <2>1, LedgerStepIsNext, LedgerMoves, AgreesKept DEF poolVars, Granters
<1>2. CASE ReadPool
    <2>1. seenAlive' = seenAlive /\ UNCHANGED <<income, log>>
        BY <1>2 DEF ReadPool, ledger
    <2>2. run' = run \/ run'.rows = {}
        <3>1. CASE TotalPool = 0
            BY <1>2, <3>1 DEF ReadPool
        <3>2. CASE TotalPool # 0
            BY <1>2, <3>2 DEF ReadPool
        <3> QED
            BY <3>1, <3>2
    <2> QED
        BY <1>0, <2>1, <2>2, AgreesKept
<1>3. CASE DraftRun \/ LoseReceipt \/ EndRun
    <2>1. UNCHANGED poolVars /\ UNCHANGED <<income, log>>
        BY <1>3 DEF DraftRun, LoseReceipt, EndRun, ledger
    <2> QED
        BY <1>0, <2>1, AgreesKept DEF poolVars
<1>4. CASE CommitRun
    <2>1. Runner \in Granters /\ Appended(Runner) /\ UNCHANGED <<run, seenAlive>>
        BY <1>4 DEF CommitRun, Granters
    <2> QED
        BY <1>0, <2>1, AgreesKept
<1>5. CASE Distribute
    <2>1. UNCHANGED <<income, log, run, seenAlive>>
        BY <1>5 DEF Distribute, ledger
    <2> QED
        BY <1>0, <2>1, AgreesKept
<1>6. CASE ChainStep
    <2>1. UNCHANGED <<income, log, run, seenAlive>>
        BY <1>6, ChainLeaves DEF ledgerVars, ledger
    <2> QED
        BY <1>0, <2>1, AgreesKept
<1>7. CASE RestartPool
    <2>1. UNCHANGED <<income, log, run, seenAlive>>
        BY <1>7 DEF RestartPool, Restart, ledger
    <2> QED
        BY <1>0, <2>1, AgreesKept
<1>8. CASE UNCHANGED allVars
    <2>1. UNCHANGED <<income, log, run, seenAlive>>
        BY <1>8 DEF allVars, ledgerVars, ledger, poolVars
    <2> QED
        BY <1>0, <2>1, AgreesKept
<1> QED
    BY <1>1, <1>2, <1>3, <1>4, <1>5, <1>6, <1>7, <1>8, RevivedByFind, RevivedByMark
    DEF PoolNext, RunStep

\* A burned income becomes unlocked only when a payment had found it before the
\* burn job reached it (executeGlobalPoolOnChainPayouts, burn-non-compliant).
THEOREM BurnedStaysBurned == PoolSpec => []RevivedOnlyByRace
<1>1. PoolInit => RevivedInv
    BY DEF PoolInit, LedgerInit, RevivedInv
<1>2. RevivedInv => RevivedOnlyByRace
    BY DEF RevivedInv, Agrees, RevivedOnlyByRace
<1> QED
    BY <1>1, <1>2, PoolTypedInit, PoolTypedStep, RevivedStep, PTL DEF PoolSpec

\* Without a restart no run is repeated: the day of a run under way is the one
\* the timer fired on last, and all runs before it are of earlier days.
OneRunInv ==
    /\ crashes \in Nat
    /\ crashes = 0 =>
        /\ retry = FALSE /\ fired \in Nat /\ fired <= Today
        /\ \A m \in DOMAIN pools : pools[m].day \in Nat /\ pools[m].day <= fired
        /\ \A m, n \in DOMAIN pools : pools[m].day = pools[n].day => m = n
        /\ caller[Runner].at \in {"checked", "drafted"} =>
            run.day = fired /\ \A m \in DOMAIN pools : pools[m].day < fired

\* A step that leaves the runs and the timer alone.
LEMMA OneRunKept ==
    ASSUME OneRunInv, now \in Nat, now' \in Nat, now <= now',
           UNCHANGED <<crashes, retry, fired, pools>>,
           \/ caller'[Runner].at \notin {"checked", "drafted"}
           \/ /\ caller[Runner].at \in {"checked", "drafted"} /\ run'.day = run.day
    PROVE  OneRunInv'
<1>1. Today <= Today' /\ Today \in Nat /\ Today' \in Nat
    BY BoundAssumption, QuotientGrows DEF Today
<1>2. crashes = 0 /\ fired <= Today => fired <= Today'
    BY <1>1 DEF OneRunInv
<1> QED
    BY <1>1, <1>2 DEF OneRunInv

LEMMA OneRunByRead ==
    ASSUME PoolTyped, OneRunInv, ReadPool
    PROVE  OneRunInv'
<1>0. LedgerTyped /\ CallsTyped /\ Runner \in Granters /\ now \in 0 .. MaxTime
    BY DEF PoolTyped, LedgerTyped, ClockTyped, Granters
<1>1. UNCHANGED <<crashes, now, pools>> /\ retry' = FALSE /\ fired' = Today
    BY DEF ReadPool, clock
<1>2. Today \in Nat /\ Today' = Today
    BY <1>0, <1>1, TodayTyped DEF Today
<1>3. CASE crashes # 0
    BY <1>1, <1>3 DEF OneRunInv
<1>4. CASE crashes = 0
    <2>1. fired < Today
        BY <1>2, <1>4 DEF OneRunInv, ReadPool, Fires
    <2>2. \A m \in DOMAIN pools : pools[m].day \in Nat /\ pools[m].day < Today
        BY <1>2, <1>4, <2>1 DEF OneRunInv
    <2>3. \A m, n \in DOMAIN pools : pools[m].day = pools[n].day => m = n
        BY <1>4 DEF OneRunInv
    <2>4. caller'[Runner].at = "checked" => run'.day = Today
        <3>1. CASE TotalPool = 0
            BY <3>1 DEF ReadPool, At
        <3>2. CASE TotalPool # 0
            BY <3>2 DEF ReadPool
        <3> QED
            BY <3>1, <3>2
    <2>5. caller'[Runner].at # "drafted"
        <3>1. CASE TotalPool = 0
            BY <3>1 DEF ReadPool, At
        <3>2. CASE TotalPool # 0
            <4>1. PICK next : next.at = "checked" /\ Goes(Runner, next)
                BY <3>2 DEF ReadPool
            <4> QED
                BY <1>0, <4>1, GoesStep
        <3> QED
            BY <3>1, <3>2
    <2> QED
        BY <1>1, <1>2, <1>4, <2>2, <2>3, <2>4, <2>5 DEF OneRunInv
<1> QED
    BY <1>3, <1>4

LEMMA OneRunByCommit ==
    ASSUME PoolTyped, OneRunInv, CommitRun
    PROVE  OneRunInv'
<1>1. UNCHANGED <<crashes, now, retry, fired>> /\ Today' = Today
    BY DEF CommitRun, Appended, clock, timer, Today
<1>2. PICK p : p = [day |-> run.day, due |-> ToBook(run.total)] /\ pools' = Append(pools, p)
    BY DEF CommitRun
<1>3. PICK S : pools \in Seq(S)
    BY DEF PoolTyped, PoolsTyped
<1>4. PICK n \in Nat : n = Len(pools)
    BY <1>3
<1>5. /\ DOMAIN pools = 1 .. n /\ DOMAIN pools' = 1 .. (n + 1)
      /\ \A m \in 1 .. n : pools'[m] = pools[m]
      /\ pools'[n + 1] = p
    <2>1. pools \in Seq(S \cup {p})
        BY <1>3
    <2> QED
        BY <1>2, <1>4, <2>1, AppendProperties
<1>6. p.day = run.day
    BY <1>2
<1>7. caller[Runner].at = "drafted" /\ caller'[Runner].at = "recorded"
    BY CommitRunTyped DEF CommitRun, Appended, At
<1>8. CASE crashes # 0
    BY <1>1, <1>8 DEF OneRunInv
<1>9. CASE crashes = 0
    <2>1. run.day = fired /\ (\A m \in 1 .. n : pools[m].day < fired /\ pools[m].day \in Nat) /\ fired \in Nat
        BY <1>5, <1>7, <1>9 DEF OneRunInv
    <2>2. \A m \in 1 .. (n + 1) : m \in 1 .. n \/ m = n + 1
        OBVIOUS
    <2>3. \A m \in 1 .. (n + 1) : pools'[m].day \in Nat /\ pools'[m].day <= fired
        BY <1>5, <1>6, <2>1, <2>2
    <2>4. ASSUME NEW k \in 1 .. (n + 1), NEW m \in 1 .. (n + 1), pools'[k].day = pools'[m].day
          PROVE  k = m
        <3>1. CASE k \in 1 .. n /\ m \in 1 .. n
            BY <1>5, <1>9, <2>4, <3>1 DEF OneRunInv
        <3>2. CASE k = n + 1 /\ m \in 1 .. n
            BY <1>5, <1>6, <2>1, <2>4, <3>2
        <3>3. CASE k \in 1 .. n /\ m = n + 1
            BY <1>5, <1>6, <2>1, <2>4, <3>3
        <3> QED
            BY <2>2, <3>1, <3>2, <3>3
    <2> QED
        BY <1>1, <1>5, <1>7, <1>9, <2>3, <2>4 DEF OneRunInv
<1> QED
    BY <1>8, <1>9

LEMMA OneRunStep ==
    ASSUME PoolTyped, OneRunInv, [PoolNext]_allVars
    PROVE  OneRunInv'
<1>0. LedgerTyped /\ CallsTyped /\ Runner \in Granters /\ now \in Nat
    BY DEF PoolTyped, LedgerTyped, ClockTyped, Granters
<1>1. CASE LedgerStep
    <2>1. caller'[Runner] = caller[Runner] /\ UNCHANGED poolVars
        BY <1>0, <1>1, RunnerStays
    <2>2. crashes' = crashes /\ now' \in Nat /\ now <= now'
        <3>1. ASSUME NEW c \in Callers, Grant(c) PROVE UNCHANGED <<crashes, now>>
            BY <3>1 DEF Grant, CheckDistribution, RecordResale, DraftGrant, Commit, Appended, clock
        <3>2. ASSUME NEW j, UnlockRun(j) \/ BurnRun(j) PROVE UNCHANGED <<crashes, now>>
            BY <3>2 DEF UnlockRun, BurnRun, FindDue, FindLocked, Finds, Unlock, Judge, Burn, clock
        <3>3. CASE Tick
            BY <1>0, <3>3 DEF Tick
        <3>4. \/ \E c \in Callers : Grant(c)
              \/ \E j : UnlockRun(j) \/ BurnRun(j)
              \/ Tick
              \/ UNCHANGED <<crashes, now>>
            BY <1>1 DEF LedgerStep, StoreActivation, Evaluate, clock
        <3>5. UNCHANGED <<crashes, now>> \/ Tick
            BY <3>1, <3>2, <3>4
        <3> QED
            BY <1>0, <3>3, <3>5
    <2> QED
        BY <1>0, <2>1, <2>2, OneRunKept DEF poolVars, timer
<1>2. CASE DraftRun
    <2>1. UNCHANGED poolVars /\ UNCHANGED <<crashes, now>> /\ caller[Runner].at = "checked"
        BY <1>2 DEF DraftRun, clock, At
    <2> QED
        BY <1>0, <2>1, OneRunKept DEF poolVars, timer
<1>3. CASE FindUnpaid
    <2>1. UNCHANGED <<crashes, now, retry, fired, pools>>
        BY <1>3 DEF FindUnpaid, clock, timer
    <2>2. caller'[Runner].at \notin {"checked", "drafted"}
        BY <1>3, FindUnpaidTyped
    <2> QED
        BY <1>0, <2>1, <2>2, OneRunKept
<1>4. CASE Distribute
    <2>1. UNCHANGED <<crashes, now, retry, fired, pools>>
        BY <1>4 DEF Distribute, clock, timer
    <2>2. caller'[Runner].at \notin {"checked", "drafted"}
        BY <1>4, DistributeTyped
    <2> QED
        BY <1>0, <2>1, <2>2, OneRunKept
<1>5. CASE MarkPaid
    <2>1. UNCHANGED <<crashes, now, retry, fired, pools>>
        BY <1>5 DEF MarkPaid, clock, timer
    <2>2. caller'[Runner].at \notin {"checked", "drafted"}
        BY <1>5, MarkPaidTyped
    <2> QED
        BY <1>0, <2>1, <2>2, OneRunKept
<1>6. CASE LoseReceipt \/ EndRun
    <2>1. UNCHANGED poolVars /\ UNCHANGED <<crashes, now>>
        BY <1>6 DEF LoseReceipt, EndRun, clock
    <2>2. caller'[Runner].at \notin {"checked", "drafted"}
        BY <1>6, LoseReceiptTyped, EndRunTyped
    <2> QED
        BY <1>0, <2>1, <2>2, OneRunKept DEF poolVars, timer
<1>7. CASE ChainStep
    <2>1. UNCHANGED <<crashes, now, retry, fired, pools, caller, run>>
        BY <1>7, ChainLeaves DEF ledgerVars, clock, calls, timer
    <2> QED
        BY <1>0, <2>1, OneRunKept
<1>8. CASE RestartPool
    <2>1. crashes' = crashes + 1
        BY <1>8 DEF RestartPool, Restart
    <2> QED
        BY <2>1 DEF OneRunInv
<1>9. CASE UNCHANGED allVars
    <2>1. UNCHANGED <<crashes, now, retry, fired, pools, caller, run>>
        BY <1>9 DEF allVars, ledgerVars, clock, calls, poolVars, timer
    <2> QED
        BY <1>0, <2>1, OneRunKept
<1> QED
    BY <1>1, <1>2, <1>3, <1>4, <1>5, <1>6, <1>7, <1>8, <1>9, OneRunByRead, OneRunByCommit
    DEF PoolNext, RunStep

\* A day is booked by one run, unless a restart interrupted one
\* (persistGlobalPoolRun; the queue may give the job to the next process).
THEOREM DaysBookedOnce == PoolSpec => []OneRunADay
<1>1. PoolInit => OneRunInv
    <2> SUFFICES ASSUME PoolInit PROVE OneRunInv
        OBVIOUS
    <2>1. crashes = 0 /\ retry = FALSE /\ fired = 0 /\ pools = <<>> /\ now = 0
        BY DEF PoolInit, LedgerInit
    <2>2. DOMAIN pools = {}
        BY <2>1
    <2>3. Today = 0
        BY <2>1, BoundAssumption DEF Today
    <2>4. caller[Runner].at = "idle"
        BY DEF PoolInit, LedgerInit, Nobody, Idle
    <2> QED
        BY <2>1, <2>2, <2>3, <2>4 DEF OneRunInv
<1>2. OneRunInv => OneRunADay
    BY DEF OneRunInv, OneRunADay
<1> QED
    BY <1>1, <1>2, PoolTypedInit, PoolTypedStep, OneRunStep, PTL DEF PoolSpec

(***************************************************************************)
(* What is due of a source is granted or burned: the ledger keeps the      *)
(* books that Books promises.                                              *)
(***************************************************************************)

Amounts == [r \in IncomeRows |-> r.amount]
ShareAmounts == [s \in Shares |-> s.amount]

\* What a draft grants and burns.
DraftWorth(d) == Weight(d.rows, Amounts) + d.burnt

LEMMA AmountsTyped ==
    /\ Amounts \in [IncomeRows -> Nat] /\ ShareAmounts \in [Shares -> Nat]
    /\ \A s \in Shares : ShareAmounts[s] = s.amount
    /\ \A r \in IncomeRows : Amounts[r] = r.amount
BY DEF Amounts, ShareAmounts, IncomeRows, Shares

\* What exceeds the room of a share is burned, so nothing of it is lost.
LEMMA BookedWhole ==
    ASSUME NEW source \in Sources, now \in 0 .. MaxTime, now + LockTicks \in 0 .. MaxTime,
           income \in Seq(IncomeRows), NEW day, NEW d \in DraftsOf(source), NEW share \in Shares
    PROVE  /\ DraftWorth(Booked(d, share, day, source)) = DraftWorth(d) + share.amount
           /\ DraftWorth(d) \in Nat
<1>0. /\ d.rows \in Seq(RowsNow(source)) /\ d.rows \in Seq(IncomeRows)
      /\ d.burnt \in Nat /\ share.amount \in Nat
    BY RowsNowAreRows DEF DraftsOf, Shares
<1>1. Weight(d.rows, Amounts) \in Nat
    BY <1>0, AmountsTyped, WeightNat
<1>2. CASE share.to = NoUser
    <2>1. Booked(d, share, day, source) = [d EXCEPT !.burnt = @ + share.amount]
        BY <1>2 DEF Booked
    <2>2. /\ [d EXCEPT !.burnt = @ + share.amount].rows = d.rows
          /\ [d EXCEPT !.burnt = @ + share.amount].burnt = d.burnt + share.amount
        BY DEF DraftsOf
    <2> QED
        BY <1>0, <1>1, <2>1, <2>2 DEF DraftWorth
<1>3. CASE share.to # NoUser
    <2>1. PICK to \in Users : to = share.to
        BY <1>3 DEF Shares, MaybeUser
    <2>2. PICK room \in Int : room = Room(to, day, d) /\ room >= 0
        <3>1. Used(to, day, d) \in Nat
            <4>1. Total(income, to, day) \in Nat /\ Drafted(d.rows, to) \in Nat
                BY <1>0, TotalNat, DraftedNat
            <4> QED
                BY <4>1, SumIsTotal DEF Used
        <3>2. Cap[to] \in Nat
            BY TreeAssumption
        <3>3. PICK left \in Int : left = Cap[to] - Used(to, day, d)
            BY <3>1, <3>2
        <3>4. Room(to, day, d) = IF 0 >= left THEN 0 ELSE left
            BY <3>3, MaxPair DEF Room
        <3> QED
            BY <3>3, <3>4
    <2>3. PICK grant \in Nat : grant = Min({share.amount, room}) /\ grant <= share.amount
        <3>1. Min({share.amount, room}) = IF share.amount <= room THEN share.amount ELSE room
            BY <1>0, MinPair
        <3> QED
            BY <3>1, <1>0, <2>2
    <2>4. PICK more : more = WithRow(d.rows, to, grant, source)
        OBVIOUS
    <2>5. Booked(d, share, day, source)
            = [rows |-> more, burnt |-> d.burnt + share.amount - grant]
        BY <1>3, <2>1, <2>2, <2>3, <2>4 DEF Booked, Granted
    <2>6. Weight(more, Amounts) = Weight(d.rows, Amounts) + grant
        <3>1. CASE grant = 0
            BY <1>1, <2>4, <3>1 DEF WithRow
        <3>2. CASE grant > 0
            <4>1. PICK r \in RowsNow(source) : r = Row(to, grant, source)
                BY DEF Row, RowsNow
            <4>2. r \in IncomeRows /\ r.amount = grant
                BY <4>1, RowsNowAreRows DEF Row
            <4>3. more = Append(d.rows, r)
                BY <2>4, <3>2, <4>1 DEF WithRow
            <4>4. Weight(Append(d.rows, r), Amounts) = Weight(d.rows, Amounts) + Amounts[r]
                BY <1>0, <4>2, AmountsTyped, WeightAppend
            <4> QED
                BY <4>2, <4>3, <4>4, AmountsTyped
        <3> QED
            BY <3>1, <3>2
    <2> QED
        BY <1>0, <1>1, <2>3, <2>5, <2>6 DEF DraftWorth
<1> QED
    BY <1>0, <1>1, <1>2, <1>3 DEF DraftWorth

LEMMA DraftWhole ==
    ASSUME NEW source \in Sources, now \in 0 .. MaxTime, now + LockTicks \in 0 .. MaxTime,
           income \in Seq(IncomeRows), NEW day, NEW shares \in Seq(Shares)
    PROVE  DraftWorth(Draft(shares, day, source)) = Weight(shares, ShareAmounts)
<1> DEFINE Good(d, n) == d \in DraftsOf(source) /\ Fits(d.rows, day) /\ DraftWorth(d) = n
           S == DOMAIN shares
           g == CHOOSE x : Drafting(shares, day, source, S, x)
           f == [i \in S |-> ShareAmounts[shares[i]]]
           B == {s \in SUBSET S : ~Good(g[s], SumOver(s, f))}
<1>0. PICK n \in Nat : S = 1 .. n /\ \A i \in S : shares[i] \in Shares
    OBVIOUS
<1>1. Draft(shares, day, source) = g[S]
    BY DraftAsFunction
<1>2. Drafting(shares, day, source, S, g)
    BY <1>0, DraftingExists
<1>3. IsFiniteSet(S)
    BY <1>0, FS_Interval
<1>4. \A i \in S : f[i] = shares[i].amount /\ f[i] \in Nat
    BY <1>0, AmountsTyped DEF Shares
<1>5. Weight(shares, ShareAmounts) = SumOver(S, f)
    BY DEF Weight
<1> HIDE DEF g, S, f
<1> SUFFICES ASSUME B # {} PROVE FALSE
    BY <1>1, <1>5
<1>6. PICK s \in B : \A r \in B : r \subseteq s => r = s
    <2>1. B \in SUBSET (SUBSET S)
        OBVIOUS
    <2> HIDE DEF B
    <2> QED
        BY <1>3, <2>1, SmallestSubset
<1>7. s \in SUBSET S /\ IsFiniteSet(s) /\ ~Good(g[s], SumOver(s, f))
    BY <1>3, <1>6, FS_Subset
<1>8. g[s] = IF s = {} THEN NoDraft ELSE Booked(g[s \ {Max(s)}], shares[Max(s)], day, source)
    BY <1>2, <1>7 DEF Drafting
<1>9. s # {}
    <2> SUFFICES ASSUME s = {} PROVE FALSE
        OBVIOUS
    <2>1. g[s] = NoDraft /\ SumOver(s, f) = 0
        BY <1>8, SumEmpty
    <2>2. NoDraft \in DraftsOf(source) /\ DraftWorth(NoDraft) = 0
        <3>1. <<>> \in Seq(RowsNow(source))
            OBVIOUS
        <3> QED
            BY <3>1, WeightEmpty DEF NoDraft, DraftsOf, DraftWorth
    <2>3. Fits(NoDraft.rows, day)
        <3>1. \A u : {i \in DOMAIN <<>> : <<>>[i].user = u} = {}
            OBVIOUS
        <3>2. \A u : Drafted(<<>>, u) = 0
            BY <3>1, SumEmpty DEF Drafted
        <3> QED
            BY <3>2 DEF Fits, NoDraft
    <2> QED
        BY <1>7, <2>1, <2>2, <2>3
<1>10. PICK k \in s : k = Max(s)
    BY <1>0, <1>7, <1>9, MaxIn
<1>11. PICK r \in SUBSET S : r = s \ {k}
    BY <1>7
<1>12. Good(g[r], SumOver(r, f))
    BY <1>6, <1>7, <1>10, <1>11
<1>13. shares[k] \in Shares /\ g[s] = Booked(g[r], shares[k], day, source)
    BY <1>0, <1>7, <1>8, <1>9, <1>10, <1>11
<1>14. g[s] \in DraftsOf(source) /\ Fits(g[s].rows, day)
    BY <1>12, <1>13, BookedFits
<1>15. DraftWorth(g[s]) = DraftWorth(g[r]) + shares[k].amount
    BY <1>12, <1>13, BookedWhole
<1>16. SumOver(s, f) = f[k] + SumOver(r, f)
    <2>1. \A x \in s : f[x] \in Int
        BY <1>4, <1>7
    <2> QED
        BY <1>7, <1>10, <1>11, <2>1, SumRemove
<1>17. SumOver(r, f) \in Nat /\ f[k] = shares[k].amount /\ f[k] \in Nat
    <2>1. IsFiniteSet(r) /\ \A x \in r : f[x] \in Nat
        BY <1>3, <1>4, <1>11, FS_Subset
    <2> QED
        BY <1>4, <1>7, <2>1, SumNat
<1> QED
    BY <1>7, <1>12, <1>14, <1>15, <1>16, <1>17

\* The shares of an activation or a resale add up to what is due of it.
LEMMA ActivationDue ==
    ASSUME NEW a \in DOMAIN Activation, NEW compliant
    PROVE  Weight(ActivationShares(a, compliant), ShareAmounts) = DueOf(a)
<1> DEFINE direct == Pct(a, Split.direct)
           network == Pct(a, Split.network)
           creator == Pct(a, Split.creator)
           burn == Pct(a, Split.burn)
           W(s) == Weight(s, ShareAmounts)
<1>0. NoUser \in MaybeUser /\ Creator \in MaybeUser /\ MaxLevels \in Nat /\ MaxLevels > 0
    BY UserAssumption, BoundAssumption DEF MaybeUser
<1>1. direct \in Nat /\ network \in Nat /\ creator \in Nat /\ burn \in Nat
    BY PctNat, SourceAssumption
<1>2. PICK each \in Nat : each = network \div MaxLevels
    BY <1>0, <1>1, QuotientNat
<1>3. EffectiveSponsor(a) \in MaybeUser
    BY SourceAssumption, TreeAssumption DEF EffectiveSponsor, MaybeUser
<1>4. PICK first \in Nat : first = IF EffectiveSponsor(a) = NoUser THEN 0 ELSE direct
    BY <1>1
<1>5. a \notin DOMAIN Resale
    BY SourceAssumption
<1>6. DueOf(a) = creator + burn + MaxLevels * each + first
    BY <1>2, <1>4, <1>5 DEF DueOf
<1> HIDE DEF direct, network, creator, burn
<1>7. ASSUME NEW to \in MaybeUser, NEW amount \in Nat PROVE W(<<Share(to, amount)>>) = amount
    <2>1. PICK s \in Shares : s = Share(to, amount) /\ s.amount = amount
        BY ShareTyped DEF Share
    <2>2. <<s>> = Append(<<>>, s) /\ <<>> \in Seq(Shares)
        OBVIOUS
    <2>3. W(Append(<<>>, s)) = W(<<>>) + ShareAmounts[s]
        BY <2>2, AmountsTyped, WeightAppend
    <2> QED
        BY <2>1, <2>2, <2>3, AmountsTyped, WeightEmpty
<1>8. DirectShare(a) \in Seq(Shares) /\ W(DirectShare(a)) = first
    <2>1. CASE EffectiveSponsor(a) = NoUser
        <3>1. DirectShare(a) = <<>> /\ <<>> \in Seq(Shares)
            BY <2>1 DEF DirectShare
        <3> QED
            BY <1>4, <2>1, <3>1, WeightEmpty
    <2>2. CASE EffectiveSponsor(a) # NoUser
        <3>1. DirectShare(a) = <<Share(EffectiveSponsor(a), direct)>>
            BY <2>2 DEF DirectShare, direct
        <3> QED
            BY <1>1, <1>3, <1>4, <1>7, <2>2, <3>1, ShareTyped
    <2> QED
        BY <2>1, <2>2
<1>9. NetworkShares(a) \in Seq(Shares) /\ W(NetworkShares(a)) = each * MaxLevels
    <2>1. PICK n : n = NetworkShares(a)
        OBVIOUS
    <2>2. n = [depth \in 1 .. MaxLevels |-> Share(Entitled(a, depth), each)]
        BY <1>2, <2>1 DEF NetworkShares, network
    <2>3. \A depth \in 1 .. MaxLevels :
            /\ Share(Entitled(a, depth), each) \in Shares
            /\ Share(Entitled(a, depth), each).amount = each
        BY EntitledTyped, ShareTyped DEF Share
    <2>4. n \in Seq(Shares) /\ DOMAIN n = 1 .. MaxLevels /\ Len(n) = MaxLevels
        BY <1>0, <2>2, <2>3
    <2>5. \A i \in DOMAIN n : ShareAmounts[n[i]] = each
        BY <2>2, <2>3, <2>4, AmountsTyped
    <2>6. W(n) = each * Len(n)
        BY <2>4, <2>5, AmountsTyped, WeightEven
    <2> QED
        BY <2>1, <2>4, <2>6
<1>10. CreatorShare(a, compliant) \in Seq(Shares) /\ W(CreatorShare(a, compliant)) = creator
    <2>1. PICK to \in MaybeUser : to = IF compliant THEN Creator ELSE NoUser
        BY <1>0
    <2>2. CreatorShare(a, compliant) = <<Share(to, creator)>>
        BY <2>1 DEF CreatorShare, creator
    <2> QED
        BY <1>1, <1>7, <2>2, ShareTyped
<1>11. BurnShare(a) \in Seq(Shares) /\ W(BurnShare(a)) = burn
    <2>1. BurnShare(a) = <<Share(NoUser, burn)>>
        BY DEF BurnShare, burn
    <2> QED
        BY <1>0, <1>1, <1>7, <2>1, ShareTyped
<1> HIDE DEF W
<1>12. \A s, t \in Seq(Shares) : s \o t \in Seq(Shares) /\ W(s \o t) = W(s) + W(t)
    BY AmountsTyped, WeightConcat, ConcatProperties DEF W
<1>13. PICK p \in Seq(Shares) : p = DirectShare(a) \o NetworkShares(a) /\ W(p) = first + each * MaxLevels
    BY <1>8, <1>9, <1>12
<1>14. PICK q \in Seq(Shares) : q = p \o CreatorShare(a, compliant) /\ W(q) = W(p) + creator
    BY <1>10, <1>12
<1>15. W(q \o BurnShare(a)) = W(q) + burn
    BY <1>11, <1>12
<1>16. ActivationShares(a, compliant) = q \o BurnShare(a)
    BY <1>13, <1>14 DEF ActivationShares
<1>17. PICK m \in Nat : m = each * MaxLevels /\ m = MaxLevels * each
    BY <1>0
<1>18. W(ActivationShares(a, compliant)) = DueOf(a)
    BY <1>1, <1>6, <1>13, <1>14, <1>15, <1>16, <1>17
<1> QED
    BY <1>18 DEF W

LEMMA SharesDue ==
    ASSUME NEW source \in DOMAIN Activation \cup DOMAIN Resale, NEW compliant
    PROVE  Weight(SharesOf(source, compliant), ShareAmounts) = DueOf(source)
<1>1. CASE source \in DOMAIN Resale
    <2>1. PICK s \in Shares : /\ s = Share(Resale[source].seller, Resale[source].extra)
                              /\ s.amount = Resale[source].extra /\ s.amount \in Nat
        <3>1. Resale[source].seller \in MaybeUser /\ Resale[source].extra \in Nat
            BY <1>1, SourceAssumption DEF MaybeUser
        <3> QED
            BY <3>1, ShareTyped DEF Share
    <2>2. SharesOf(source, compliant) = <<s>> /\ DueOf(source) = s.amount
        <3>1. SharesOf(source, compliant) = <<s>>
            BY <1>1, <2>1 DEF SharesOf, ResaleShares
        <3>2. source \notin DOMAIN Activation
            BY <1>1, SourceAssumption
        <3>3. DueOf(source) = Resale[source].extra
            BY <1>1, <3>2 DEF DueOf
        <3> QED
            BY <2>1, <3>1, <3>3
    <2>3. <<s>> = Append(<<>>, s) /\ <<>> \in Seq(Shares)
        OBVIOUS
    <2>4. Weight(Append(<<>>, s), ShareAmounts) = Weight(<<>>, ShareAmounts) + ShareAmounts[s]
        BY <2>3, AmountsTyped, WeightAppend
    <2> QED
        BY <2>1, <2>2, <2>3, <2>4, AmountsTyped, WeightEmpty
<1>2. CASE source \notin DOMAIN Resale
    <2>1. source \in DOMAIN Activation /\ SharesOf(source, compliant) = ActivationShares(source, compliant)
        BY <1>2 DEF SharesOf
    <2> QED
        BY <2>1, ActivationDue
<1> QED
    BY <1>1, <1>2

\* The rows of a status, by their worth.
WorthIf(status) == [r \in IncomeRows |-> IF r.status = status THEN r.amount ELSE 0]
Statuses == {"locked", "unlocked", "burned"}

LEMMA WorthTyped ==
    ASSUME NEW status
    PROVE  /\ WorthIf(status) \in [IncomeRows -> Nat]
           /\ \A r \in IncomeRows :
                WorthIf(status)[r] = IF r.status = status THEN r.amount ELSE 0
BY DEF WorthIf, IncomeRows

LEMMA WithIsWeight ==
    ASSUME NEW rows \in Seq(IncomeRows), NEW status
    PROVE  /\ SumOver({i \in DOMAIN rows : rows[i].status = status},
                      [i \in DOMAIN rows |-> rows[i].amount])
                = Weight(rows, WorthIf(status))
           /\ Weight(rows, WorthIf(status)) \in Nat
<1>1. PICK f, g : /\ f = [i \in DOMAIN rows |-> rows[i].amount]
                  /\ g = [i \in DOMAIN rows |-> WorthIf(status)[rows[i]]]
    OBVIOUS
<1>2. PICK T \in SUBSET DOMAIN rows : T = {i \in DOMAIN rows : rows[i].status = status}
    OBVIOUS
<1>3. IsFiniteSet(DOMAIN rows)
    <2>1. DOMAIN rows = 1 .. Len(rows) /\ Len(rows) \in Nat
        OBVIOUS
    <2> QED
        BY <2>1, FS_Interval
<1>4. \A i \in DOMAIN rows : /\ rows[i] \in IncomeRows /\ f[i] = rows[i].amount /\ f[i] \in Nat
                             /\ g[i] = IF rows[i].status = status THEN rows[i].amount ELSE 0
    <2>1. \A i \in DOMAIN rows : rows[i] \in IncomeRows
        OBVIOUS
    <2> QED
        BY <1>1, <2>1, WorthTyped DEF IncomeRows
<1>5. /\ \A i \in T : f[i] \in Int /\ g[i] = f[i]
      /\ \A i \in DOMAIN rows \ T : g[i] = 0
    BY <1>2, <1>4
<1>6. SumOver(DOMAIN rows, g) = SumOver(T, f)
    BY <1>3, <1>5, SumWhere
<1> QED
    BY <1>1, <1>2, <1>6, WorthTyped, WeightNat DEF Weight

\* Every row has one of the three statuses.
LEMMA ThreeStatuses ==
    ASSUME NEW rows \in Seq(IncomeRows)
    PROVE  Weight(rows, WorthIf("locked")) + Weight(rows, WorthIf("unlocked"))
             + Weight(rows, WorthIf("burned")) = Weight(rows, Amounts)
<1>1. PICK f, g, h, e :
        /\ f = [i \in DOMAIN rows |-> WorthIf("locked")[rows[i]]]
        /\ g = [i \in DOMAIN rows |-> WorthIf("unlocked")[rows[i]]]
        /\ h = [i \in DOMAIN rows |-> WorthIf("burned")[rows[i]]]
        /\ e = [i \in DOMAIN rows |-> Amounts[rows[i]]]
    OBVIOUS
<1>2. PICK d : d = [i \in DOMAIN rows |-> f[i] + g[i]]
    OBVIOUS
<1>3. IsFiniteSet(DOMAIN rows)
    <2>1. DOMAIN rows = 1 .. Len(rows) /\ Len(rows) \in Nat
        OBVIOUS
    <2> QED
        BY <2>1, FS_Interval
<1>4. ASSUME NEW i \in DOMAIN rows
      PROVE  /\ f[i] \in Int /\ g[i] \in Int /\ h[i] \in Int /\ d[i] \in Int
             /\ d[i] = f[i] + g[i] /\ e[i] = d[i] + h[i]
    <2>1. rows[i] \in IncomeRows
        OBVIOUS
    <2>2. rows[i].amount \in Nat /\ rows[i].status \in Statuses
        BY <2>1 DEF IncomeRows, Statuses
    <2>3. /\ f[i] = IF rows[i].status = "locked" THEN rows[i].amount ELSE 0
          /\ g[i] = IF rows[i].status = "unlocked" THEN rows[i].amount ELSE 0
          /\ h[i] = IF rows[i].status = "burned" THEN rows[i].amount ELSE 0
          /\ e[i] = rows[i].amount
        BY <1>1, <2>1, WorthTyped, AmountsTyped
    <2> QED
        BY <1>2, <2>2, <2>3 DEF Statuses
<1>5. SumOver(DOMAIN rows, d) = SumOver(DOMAIN rows, f) + SumOver(DOMAIN rows, g)
    BY <1>3, <1>4, SumPlus
<1>6. SumOver(DOMAIN rows, e) = SumOver(DOMAIN rows, d) + SumOver(DOMAIN rows, h)
    BY <1>3, <1>4, SumPlus
<1> QED
    BY <1>1, <1>5, <1>6 DEF Weight

\* Rows that keep their amounts, and of which none waits that did not wait.
LEMMA MoneyMoves ==
    ASSUME NEW rows \in Seq(IncomeRows), NEW more \in Seq(IncomeRows), DOMAIN more = DOMAIN rows,
           \A i \in DOMAIN rows :
              /\ more[i].amount = rows[i].amount
              /\ more[i].status = "locked" => rows[i].status = "locked"
    PROVE  /\ Weight(more, Amounts) = Weight(rows, Amounts)
           /\ Weight(more, WorthIf("locked")) <= Weight(rows, WorthIf("locked"))
<1>1. PICK f, g, e, d :
        /\ f = [i \in DOMAIN rows |-> WorthIf("locked")[rows[i]]]
        /\ g = [i \in DOMAIN more |-> WorthIf("locked")[more[i]]]
        /\ e = [i \in DOMAIN rows |-> Amounts[rows[i]]]
        /\ d = [i \in DOMAIN more |-> Amounts[more[i]]]
    OBVIOUS
<1>2. IsFiniteSet(DOMAIN rows)
    <2>1. DOMAIN rows = 1 .. Len(rows) /\ Len(rows) \in Nat
        OBVIOUS
    <2> QED
        BY <2>1, FS_Interval
<1>3. ASSUME NEW i \in DOMAIN rows
      PROVE  /\ f[i] \in Int /\ g[i] \in Int /\ g[i] <= f[i]
             /\ e[i] \in Int /\ d[i] = e[i]
    <2>1. rows[i] \in IncomeRows /\ more[i] \in IncomeRows /\ i \in DOMAIN more
        OBVIOUS
    <2>2. rows[i].amount \in Nat
        BY <2>1 DEF IncomeRows
    <2>3. /\ f[i] = IF rows[i].status = "locked" THEN rows[i].amount ELSE 0
          /\ g[i] = IF more[i].status = "locked" THEN more[i].amount ELSE 0
          /\ e[i] = rows[i].amount /\ d[i] = more[i].amount
        BY <1>1, <2>1, WorthTyped, AmountsTyped
    <2> QED
        BY <2>2, <2>3
<1>4. SumOver(DOMAIN rows, g) <= SumOver(DOMAIN rows, f)
    BY <1>2, <1>3, SumMonotone
<1>5. SumOver(DOMAIN rows, d) = SumOver(DOMAIN rows, e)
    BY <1>2, <1>3, SumSame
<1> QED
    BY <1>1, <1>4, <1>5 DEF Weight

\* What is committed waits.
LEMMA MoneyWaits ==
    ASSUME NEW rows \in Seq(IncomeRows), NEW more \in Seq(NewRows), NEW status
    PROVE  Weight(rows \o more, WorthIf(status))
             = Weight(rows, WorthIf(status))
               + IF status = "locked" THEN Weight(more, Amounts) ELSE 0
<1>1. NewRows \subseteq IncomeRows /\ more \in Seq(IncomeRows)
    <2>1. NewRows \subseteq IncomeRows
        BY DEF NewRows, IncomeRows
    <2> QED
        BY <2>1
<1>2. Weight(rows \o more, WorthIf(status))
        = Weight(rows, WorthIf(status)) + Weight(more, WorthIf(status))
    BY <1>1, WorthTyped, WeightConcat
<1>3. \A i \in DOMAIN more : more[i] \in IncomeRows /\ more[i].status = "locked"
    <2>1. \A i \in DOMAIN more : more[i] \in NewRows
        OBVIOUS
    <2> QED
        BY <1>1, <2>1 DEF NewRows
<1>4. CASE status = "locked"
    <2>1. \A i \in DOMAIN more : WorthIf(status)[more[i]] = Amounts[more[i]]
        BY <1>3, <1>4, WorthTyped, AmountsTyped
    <2>2. [i \in DOMAIN more |-> WorthIf(status)[more[i]]] = [i \in DOMAIN more |-> Amounts[more[i]]]
        BY <2>1
    <2>3. Weight(more, WorthIf(status)) = Weight(more, Amounts)
        BY <2>2 DEF Weight
    <2> QED
        BY <1>2, <1>4, <2>3
<1>5. CASE status # "locked"
    <2>1. \A i \in DOMAIN more : WorthIf(status)[more[i]] = 0
        BY <1>3, <1>5, WorthTyped
    <2>2. Weight(more, WorthIf(status)) = 0 * Len(more) /\ Len(more) \in Nat
        BY <1>1, <2>1, WorthTyped, WeightEven
    <2> QED
        BY <1>2, <1>5, <2>2
<1> QED
    BY <1>4, <1>5

Destroyed == With("burned") + SumOver(Sources, burnt)

LEMMA TotalsNow ==
    ASSUME BooksTyped
    PROVE  /\ \A status : With(status) = Weight(income, WorthIf(status)) /\ With(status) \in Nat
           /\ SumOver(Sources, burnt) \in Nat
<1>1. income \in Seq(IncomeRows) /\ burnt \in [Sources -> Nat] /\ IsFiniteSet(Sources)
    BY SourceAssumption DEF BooksTyped
<1>2. SumOver(Sources, burnt) \in Nat
    BY <1>1, SumNat
<1> QED
    BY <1>1, <1>2, WithIsWeight DEF With, Sum

LEMMA TotalsThen ==
    ASSUME BooksTyped'
    PROVE  /\ \A status : With(status)' = Weight(income', WorthIf(status)) /\ With(status)' \in Nat
           /\ SumOver(Sources, burnt)' = SumOver(Sources, burnt')
           /\ SumOver(Sources, burnt') \in Nat
<1>1. income' \in Seq(IncomeRows) /\ burnt' \in [Sources -> Nat] /\ IsFiniteSet(Sources)
    BY SourceAssumption DEF BooksTyped
<1>2. SumOver(Sources, burnt') \in Nat
    BY <1>1, SumNat
<1> QED
    BY <1>1, <1>2, WithIsWeight DEF With, Sum

\* A commit books what its draft is worth, as income that waits or as burned.
LEMMA CommitBooks ==
    ASSUME BooksTyped, BooksTyped', LedgerTyped, NEW c \in Granters, Appended(c)
    PROVE  \E granted \in Nat, lost \in Nat :
              /\ DraftWorth(caller[c].draft) = granted + lost
              /\ With("locked")' = With("locked") + granted
              /\ With("unlocked")' = With("unlocked")
              /\ Destroyed' = Destroyed + lost
<1>1. CallTyped(caller[c]) /\ caller[c].at = "drafted"
    BY DEF LedgerTyped, CallsTyped, Appended, At
<1>2. PICK more \in Seq(NewRows) : more = caller[c].draft.rows
    <2>1. caller[c].draft.rows \in Seq(RowsOf(caller[c].source, caller[c].day))
        BY <1>1 DEF CallTyped
    <2>2. RowsOf(caller[c].source, caller[c].day) \subseteq NewRows
        BY DEF RowsOf
    <2> QED
        BY <2>1, <2>2
<1>3. PICK source \in Sources, lost \in Nat : source = caller[c].source /\ lost = caller[c].draft.burnt
    BY <1>1 DEF CallTyped
<1>4. PICK rows \in Seq(IncomeRows) : rows = income
    BY DEF BooksTyped
<1>5. income' = rows \o more /\ burnt' = [burnt EXCEPT ![source] = burnt[source] + lost]
    BY <1>2, <1>3, <1>4 DEF Appended
<1>6. PICK granted \in Nat : granted = Weight(more, Amounts)
    <2>1. NewRows \subseteq IncomeRows
        BY DEF NewRows, IncomeRows
    <2>2. more \in Seq(IncomeRows)
        BY <2>1
    <2> QED
        BY <2>2, AmountsTyped, WeightNat
<1>7. DraftWorth(caller[c].draft) = granted + lost
    BY <1>2, <1>3, <1>6 DEF DraftWorth
<1>8. ASSUME NEW status
      PROVE  With(status)' = With(status) + IF status = "locked" THEN granted ELSE 0
    <2>1. With(status)' = Weight(income', WorthIf(status)) /\ With(status) = Weight(rows, WorthIf(status))
        BY <1>4, TotalsNow, TotalsThen
    <2>2. Weight(rows \o more, WorthIf(status))
            = Weight(rows, WorthIf(status)) + IF status = "locked" THEN Weight(more, Amounts) ELSE 0
        BY MoneyWaits
    <2> QED
        BY <1>5, <1>6, <2>1, <2>2
<1>9. SumOver(Sources, burnt)' = SumOver(Sources, burnt) + lost
    <2>1. burnt \in [Sources -> Nat] /\ IsFiniteSet(Sources)
        BY SourceAssumption DEF BooksTyped
    <2>2. PICK f, g : f = burnt /\ g = burnt'
        OBVIOUS
    <2>3. /\ \A x \in Sources : f[x] \in Int
          /\ g[source] = f[source] + lost /\ g[source] \in Int
          /\ \A x \in Sources \ {source} : g[x] = f[x]
        BY <1>5, <2>1, <2>2
    <2>4. SumOver(Sources, g) = SumOver(Sources, f) + g[source] - f[source]
        <3>1. PICK S : S = Sources
            OBVIOUS
        <3>2. IsFiniteSet(S) /\ source \in S
            BY <2>1, <3>1
        <3>3. \A x \in S : f[x] \in Int
            BY <2>3, <3>1
        <3>4. g[source] \in Int /\ \A x \in S \ {source} : g[x] = f[x]
            BY <2>3, <3>1
        <3>5. SumOver(S, f) \in Int /\ f[source] \in Int
            BY <3>2, <3>3, SumInt
        <3>6. SumOver(S, g) = SumOver(S, f) + g[source] - f[source]
            BY <3>2, <3>3, <3>4, <3>5, SumChange
        <3> QED
            BY <3>1, <3>6
    <2>5. SumOver(Sources, f) \in Nat /\ SumOver(Sources, burnt)' = SumOver(Sources, g)
        BY <2>2, TotalsNow, TotalsThen
    <2> QED
        BY <2>2, <2>3, <2>4, <2>5
<1>10. /\ With("locked")' = With("locked") + granted
       /\ With("unlocked")' = With("unlocked") + 0
       /\ With("burned")' = With("burned") + 0
    BY <1>8
<1>11. /\ With("locked") \in Nat /\ With("unlocked") \in Nat /\ With("burned") \in Nat
       /\ SumOver(Sources, burnt) \in Nat
    BY TotalsNow
<1>12. Destroyed' = Destroyed + lost
    BY <1>9, <1>10, <1>11 DEF Destroyed
<1> QED
    BY <1>7, <1>10, <1>11, <1>12

\* A settlement moves money between the totals, and nothing waits again.
LEMMA SettleBooks ==
    ASSUME BooksTyped, BooksTyped', burnt' = burnt, DOMAIN income' = DOMAIN income,
           \A i \in DOMAIN income :
              /\ income'[i].amount = income[i].amount
              /\ income'[i].status = "locked" => income[i].status = "locked"
    PROVE  /\ With("locked")' + With("unlocked")' + Destroyed'
                = With("locked") + With("unlocked") + Destroyed
           /\ With("locked")' <= With("locked")
<1>1. PICK rows \in Seq(IncomeRows), more \in Seq(IncomeRows) : rows = income /\ more = income'
    BY DEF BooksTyped
<1>2. /\ Weight(more, Amounts) = Weight(rows, Amounts)
      /\ Weight(more, WorthIf("locked")) <= Weight(rows, WorthIf("locked"))
    BY <1>1, MoneyMoves
<1>3. /\ With("locked") + With("unlocked") + With("burned") = Weight(rows, Amounts)
      /\ With("locked")' + With("unlocked")' + With("burned")' = Weight(more, Amounts)
    BY <1>1, TotalsNow, TotalsThen, ThreeStatuses
<1>4. /\ With("locked") \in Nat /\ With("unlocked") \in Nat /\ With("burned") \in Nat
      /\ With("locked")' \in Nat /\ With("unlocked")' \in Nat /\ With("burned")' \in Nat
      /\ SumOver(Sources, burnt) \in Nat /\ SumOver(Sources, burnt)' = SumOver(Sources, burnt)
    BY TotalsNow, TotalsThen
<1>5. With("locked")' <= With("locked")
    BY <1>1, <1>2, TotalsNow, TotalsThen
<1>6. PICK l \in Nat, u \in Nat, b \in Nat, d \in Nat :
          l = With("locked") /\ u = With("unlocked") /\ b = With("burned") /\ d = SumOver(Sources, burnt)
    BY <1>4
<1>7. PICK m \in Nat, v \in Nat, c \in Nat :
          m = With("locked")' /\ v = With("unlocked")' /\ c = With("burned")'
    BY <1>4
<1>8. l + u + b = m + v + c
    BY <1>2, <1>3, <1>6, <1>7
<1>9. m + v + (c + d) = l + u + (b + d)
    BY <1>8
<1>10. Destroyed = b + d /\ Destroyed' = c + d
    BY <1>4, <1>6, <1>7 DEF Destroyed
<1> QED
    BY <1>5, <1>6, <1>7, <1>9, <1>10

LEMMA DestroyedIs ==
    /\ With("burned") + MapThenSumSet(LAMBDA s : burnt[s], Sources) = Destroyed
    /\ (With("burned") + MapThenSumSet(LAMBDA s : burnt[s], Sources))' = Destroyed'
<1>1. With("burned") + MapThenSumSet(LAMBDA s : burnt[s], Sources) = Destroyed
    BY DEF Destroyed, SumOver
<1>2. (With("burned") + MapThenSumSet(LAMBDA s : burnt[s], Sources))' = Destroyed'
    BY DEF Destroyed, SumOver, MapThenSumSet, MapThenFoldSet
<1> QED
    BY <1>1, <1>2

\* A draft is worth what is due of its source.
DueInv ==
    \A c \in Callers :
        caller[c].at = "drafted" => DraftWorth(caller[c].draft) = DueOf(caller[c].source)

LEMMA DueSame ==
    ASSUME DueInv,
           \A c \in Callers : caller'[c] = caller[c] \/ caller'[c].at # "drafted"
    PROVE  DueInv'
BY DEF DueInv, DraftWorth

LEMMA DueByDraft ==
    ASSUME LedgerTyped, DueInv, NEW c \in Callers, DraftGrant(c)
    PROVE  DueInv'
<1>1. PICK source \in DOMAIN Activation \cup DOMAIN Resale : source = caller[c].source
    BY DEF LedgerTyped, CallsTyped, DraftGrant, At
<1>2. PICK shares \in Seq(Shares) : /\ shares = SharesOf(source, caller[c].compliant)
                                    /\ Weight(shares, ShareAmounts) = DueOf(source)
    BY SharesTyped, SharesDue
<1>3. PICK day : day = DayStart(TimeOf(source))
    OBVIOUS
<1>4. PICK next : /\ next.at = "drafted" /\ next.source = source
                  /\ next.draft = Draft(shares, day, source) /\ Goes(c, next)
    BY <1>1, <1>2, <1>3 DEF DraftGrant, InTransaction
<1>5. /\ source \in Sources /\ now \in 0 .. MaxTime /\ now + LockTicks \in 0 .. MaxTime
      /\ income \in Seq(IncomeRows)
    BY BoundAssumption DEF Sources, DraftGrant, LedgerTyped, ClockTyped, BooksTyped
<1>6. DraftWorth(next.draft) = DueOf(source)
    BY <1>2, <1>4, <1>5, DraftWhole
<1>7. CallsTyped /\ c \in Granters
    BY DEF LedgerTyped, Granters
<1>8. caller'[c] = next /\ \A d \in Granters \ {c} : caller'[d] = caller[d]
    BY <1>4, <1>7, GoesStep
<1>9. ASSUME NEW d \in Callers, caller'[d].at = "drafted"
      PROVE  DraftWorth(caller'[d].draft) = DueOf(caller'[d].source)
    <2>1. CASE d = c
        BY <1>4, <1>6, <1>8, <2>1
    <2>2. CASE d # c
        <3>1. caller'[d] = caller[d]
            BY <1>8, <2>2 DEF Granters
        <3> QED
            BY <1>9, <3>1 DEF DueInv
    <2> QED
        BY <2>1, <2>2
<1> QED
    BY <1>9 DEF DueInv, DraftWorth

LEMMA DueStep ==
    ASSUME LedgerTyped, DueInv, [LedgerNext]_ledgerVars
    PROVE  DueInv'
<1>1. ASSUME NEW c \in Callers, Grant(c) PROVE DueInv'
    <2>1. ASSUME NEW next, Goes(c, next), next.at # "drafted" PROVE DueInv'
        <3>1. CallsTyped /\ c \in Granters
            BY DEF LedgerTyped, Granters
        <3>2. caller'[c] = next /\ \A d \in Granters \ {c} : caller'[d] = caller[d]
            BY <2>1, <3>1, GoesStep
        <3>3. \A d \in Callers : caller'[d] = caller[d] \/ caller'[d].at # "drafted"
            BY <2>1, <3>2 DEF Granters
        <3> QED
            BY <3>3, DueSame
    <2>2. ASSUME NEW a \in DOMAIN Activation, CheckDistribution(c, a) PROVE DueInv'
        <3>1. PICK next : next.at = "checked" /\ Goes(c, next)
            BY <2>2 DEF CheckDistribution
        <3> QED
            BY <2>1, <3>1
    <2>3. ASSUME NEW s \in DOMAIN Resale, RecordResale(c, s) PROVE DueInv'
        <3>1. PICK next : next.at = "checked" /\ Goes(c, next)
            BY <2>3 DEF RecordResale
        <3> QED
            BY <2>1, <3>1
    <2>4. CASE Commit(c)
        <3>1. PICK next : next.at = "idle" /\ Goes(c, next)
            BY <2>4 DEF Commit, Idle
        <3> QED
            BY <2>1, <3>1
    <2> QED
        BY <1>1, <2>2, <2>3, <2>4, DueByDraft DEF Grant
<1>2. CASE Restart
    <2>1. \A c \in Callers : caller'[c].at # "drafted"
        BY <1>2 DEF Restart, Nobody, Idle
    <2> QED
        BY <2>1, DueSame
<1>3. CASE caller' = caller
    BY <1>3, DueSame
<1>4. ASSUME NEW j, UnlockRun(j) \/ BurnRun(j) PROVE caller' = caller
    BY <1>4 DEF UnlockRun, BurnRun, FindDue, FindLocked, Finds, Unlock, Judge, Burn, calls
<1>5. \/ \E c \in Callers : Grant(c)
      \/ \E j : UnlockRun(j) \/ BurnRun(j)
      \/ Restart
      \/ caller' = caller
    BY DEF LedgerNext, StoreActivation, Evaluate, Tick, ledgerVars, calls
<1> QED
    BY <1>1, <1>2, <1>3, <1>4, <1>5

\* What a step of the ledger does to the totals: it books a source that is due
\* in whole, or settles rows, or leaves the books alone.
LEMMA BooksMove ==
    ASSUME [LedgerNext]_ledgerVars
    PROVE  \/ \E c \in Callers : Appended(c)
           \/ /\ \E i \in DOMAIN income, status \in Settled : Settle(i, status)
              /\ burnt' = burnt /\ distributions' = distributions
           \/ income' = income /\ burnt' = burnt /\ distributions' = distributions
<1>1. ASSUME NEW c \in Callers, Grant(c)
      PROVE  Appended(c) \/ (income' = income /\ burnt' = burnt /\ distributions' = distributions)
    BY <1>1 DEF Grant, CheckDistribution, RecordResale, DraftGrant, Commit, ledger
<1>2. ASSUME NEW j, UnlockRun(j) \/ BurnRun(j)
      PROVE  /\ \/ \E i \in DOMAIN income, status \in Settled : Settle(i, status)
                \/ income' = income
             /\ burnt' = burnt /\ distributions' = distributions
    <2>1. CASE FindDue(j) \/ FindLocked(j)
        BY <2>1 DEF FindDue, FindLocked, Finds, ledger
    <2>2. CASE \E i \in DOMAIN income : Unlock(j, i)
        BY <2>2 DEF Unlock, Settled
    <2>3. CASE \E i \in DOMAIN income : Judge(j, i)
        BY <2>3 DEF Judge, ledger
    <2>4. CASE \E i \in DOMAIN income : Burn(j, i)
        BY <2>4 DEF Burn, Settled
    <2> QED
        BY <1>2, <2>1, <2>2, <2>3, <2>4 DEF UnlockRun, BurnRun
<1>3. \/ \E c \in Callers : Grant(c)
      \/ \E j : UnlockRun(j) \/ BurnRun(j)
      \/ income' = income /\ burnt' = burnt /\ distributions' = distributions
    BY DEF LedgerNext, StoreActivation, Evaluate, Tick, Restart, ledgerVars, ledger
<1> QED
    BY <1>1, <1>2, <1>3

\* A settlement of one row, as the totals see it.
LEMMA SettleOneBooks ==
    ASSUME BooksTyped, BooksTyped', NEW i \in DOMAIN income, NEW status \in Settled,
           Settle(i, status), burnt' = burnt
    PROVE  /\ With("locked")' + With("unlocked")' + Destroyed'
                = With("locked") + With("unlocked") + Destroyed
           /\ With("locked")' <= With("locked")
<1>1. /\ DOMAIN income' = DOMAIN income
      /\ income'[i].status = status
      /\ \A k \in DOMAIN income : income'[k].amount = income[k].amount
      /\ \A k \in DOMAIN income \ {i} : income'[k] = income[k]
    BY SettleStep
<1>2. \A k \in DOMAIN income :
         /\ income'[k].amount = income[k].amount
         /\ income'[k].status = "locked" => income[k].status = "locked"
    BY <1>1 DEF Settled
<1> QED
    BY <1>1, <1>2, SettleBooks

\* Each step of the ledger is a step of the books, or one that they do not see.
LEMMA LedgerBooksStep ==
    ASSUME LedgerTyped, LedgerTyped', DueInv, [LedgerNext]_ledgerVars
    PROVE  [Promised!Next]_(Promised!booksVars)
<1>0. BooksTyped /\ BooksTyped'
    BY DEF LedgerTyped
<1>1. ASSUME NEW c \in Callers, Appended(c) PROVE Promised!Next
    <2>1. PICK granted \in Nat, lost \in Nat :
              /\ DraftWorth(caller[c].draft) = granted + lost
              /\ With("locked")' = With("locked") + granted
              /\ With("unlocked")' = With("unlocked")
              /\ Destroyed' = Destroyed + lost
        BY <1>0, <1>1, CommitBooks DEF Granters
    <2>2. caller[c].at = "drafted"
        BY <1>1 DEF Appended, At
    <2>3. PICK s \in Sources : s = caller[c].source
        BY <2>2 DEF LedgerTyped, CallsTyped, Sources
    <2>4. DueOf(s) = granted + lost
        BY <2>1, <2>2, <2>3 DEF DueInv
    <2>5. distributions' = [distributions EXCEPT ![s] = @ + 1]
        BY <1>1, <2>3 DEF Appended
    <2>6. With("locked") \in Nat
        BY <1>0, TotalsNow
    <2>7. PICK due : due = [r \in Sources |-> DueOf(r)]
        OBVIOUS
    <2>8. due[s] = granted + lost /\ lost \in 0 .. due[s] /\ With("locked")' = With("locked") + due[s] - lost
        BY <2>1, <2>4, <2>6, <2>7
    <2>9. Promised!Book(s)
        BY <2>1, <2>5, <2>7, <2>8, DestroyedIs DEF Promised!Book
    <2> QED
        BY <2>9 DEF Promised!Next
<1>2. ASSUME NEW i \in DOMAIN income, NEW status \in Settled, Settle(i, status),
             burnt' = burnt, distributions' = distributions
      PROVE  Promised!Next
    <2>1. /\ With("locked")' + With("unlocked")' + Destroyed'
                = With("locked") + With("unlocked") + Destroyed
          /\ With("locked")' <= With("locked")
        BY <1>0, <1>2, SettleOneBooks
    <2>2. Promised!Settle
        BY <1>2, <2>1, DestroyedIs DEF Promised!Settle
    <2> QED
        BY <2>2 DEF Promised!Next
<1>3. ASSUME income' = income, burnt' = burnt, distributions' = distributions
      PROVE  UNCHANGED Promised!booksVars
    BY <1>3, DestroyedIs DEF Promised!booksVars, With, Sum, Destroyed
<1> QED
    BY <1>1, <1>2, <1>3, BooksMove

LEMMA EmptyBooks ==
    ASSUME LedgerInit
    PROVE  (\A status : With(status) = 0) /\ Destroyed = 0
<1>1. BooksTyped /\ income = <<>> /\ burnt = [s \in Sources |-> 0]
    BY DEF LedgerInit, BooksTyped
<1>2. \A status : With(status) = 0
    BY <1>1, TotalsNow, WeightEmpty
<1>3. SumOver(Sources, burnt) = 0
    BY <1>1, SumZero, SourceAssumption
<1> QED
    BY <1>2, <1>3 DEF Destroyed

\* Every call books the whole share due of an activation or a resale at once,
\* granted or burned, however calls, jobs and restarts interleave
\* (processActivationDistribution, grantIncomeCapped, both timers).
THEOREM LedgerKeepsBooks == LedgerSpec => KeepsBooks
<1>1. LedgerInit => Promised!Init
    BY EmptyBooks, DestroyedIs DEF LedgerInit, Promised!Init
<1>2. LedgerInit => DueInv
    BY DEF LedgerInit, DueInv, Nobody, Idle
<1>3. LedgerTyped /\ DueInv /\ [LedgerNext]_ledgerVars => DueInv'
    BY DueStep
<1>4. LedgerTyped /\ LedgerTyped' /\ DueInv /\ [LedgerNext]_ledgerVars
        => [Promised!Next]_(Promised!booksVars)
    BY LedgerBooksStep
<1> QED
    BY <1>1, <1>2, <1>3, <1>4, LedgerTypedInit, LedgerTypedStep, PTL
    DEF LedgerSpec, KeepsBooks, Promised!Spec

(***************************************************************************)
(* The books of the ledger with the pool's runs.                           *)
(***************************************************************************)

\* The list of a set's members has each of them, as often as the set.
LEMMA RankSharesDue ==
    ASSUME NEW r \in DOMAIN Ranks, NEW total \in Nat, NEW compliant
    PROVE  Weight(RankShares(r, total, compliant), ShareAmounts)
             = IF Members(r) = {} THEN Amount(r, total)
               ELSE Cardinality(Members(r)) * PerMember(r, total)
<1>0. NoUser \in MaybeUser /\ Users \subseteq MaybeUser
    BY DEF MaybeUser
<1>1. Amount(r, total) \in Nat
    <2>1. PICK pct \in Nat : pct = RankPct[r]
        BY RankAssumption
    <2>2. total * pct \in Nat
        OBVIOUS
    <2>3. (total * pct) \div 100 \in Nat
        BY <2>2
    <2> QED
        BY <2>1, <2>3 DEF Amount
<1>2. CASE Members(r) = {}
    <2>1. PICK s \in Shares : s = Share(NoUser, Amount(r, total)) /\ s.amount = Amount(r, total)
        BY <1>0, <1>1, ShareTyped DEF Share
    <2>2. RankShares(r, total, compliant) = <<s>>
        BY <1>2, <2>1 DEF RankShares
    <2>3. <<s>> = Append(<<>>, s) /\ <<>> \in Seq(Shares)
        OBVIOUS
    <2>4. Weight(Append(<<>>, s), ShareAmounts) = Weight(<<>>, ShareAmounts) + ShareAmounts[s]
        BY <2>3, AmountsTyped, WeightAppend
    <2> QED
        BY <1>1, <1>2, <2>1, <2>2, <2>3, <2>4, AmountsTyped, WeightEmpty
<1>3. CASE Members(r) # {}
    <2>1. Members(r) \in SUBSET Users
        BY DEF Members
    <2>2. IsFiniteSet(Members(r))
        BY <2>1, UserAssumption, FS_Subset
    <2>3. PICK n \in Nat : n = Cardinality(Members(r)) /\ n > 0
        <3>1. Cardinality(Members(r)) \in Nat /\ Cardinality(Members(r)) # 0
            BY <1>3, <2>2, FS_CardinalityType, FS_EmptySet
        <3> QED
            BY <3>1
    <2>4. PICK members \in [1 .. n -> Members(r)] : members = SetToSeq(Members(r))
        BY <2>2, <2>3, SetToSeqTyped
    <2>5. PICK each \in Nat : each = PerMember(r, total)
        BY <1>1, <2>3, QuotientNat DEF PerMember
    <2> DEFINE to(u) == IF u \in compliant THEN u ELSE NoUser
    <2>6. \A m \in 1 .. n : /\ Share(to(members[m]), each) \in Shares
                            /\ Share(to(members[m]), each).amount = each
        <3>1. \A m \in 1 .. n : members[m] \in Users
            BY <2>1, <2>4
        <3>2. \A m \in 1 .. n : to(members[m]) \in MaybeUser
            BY <1>0, <3>1
        <3> HIDE DEF to
        <3> QED
            BY <3>2, ShareTyped DEF Share
    <2>7. PICK shares : shares = RankShares(r, total, compliant)
        OBVIOUS
    <2>8. shares = [m \in 1 .. n |-> Share(to(members[m]), each)]
        BY <1>3, <2>4, <2>5, <2>7 DEF RankShares
    <2> HIDE DEF to
    <2>9. shares \in Seq(Shares) /\ DOMAIN shares = 1 .. n /\ Len(shares) = n
        BY <2>6, <2>8
    <2>10. \A i \in DOMAIN shares : ShareAmounts[shares[i]] = each
        BY <2>6, <2>8, <2>9, AmountsTyped
    <2>11. Weight(shares, ShareAmounts) = each * Len(shares)
        BY <2>9, <2>10, AmountsTyped, WeightEven
    <2>12. PICK m \in Nat : m = each * n /\ m = n * each
        OBVIOUS
    <2> QED
        BY <1>3, <2>3, <2>5, <2>7, <2>9, <2>11, <2>12
<1> QED
    BY <1>2, <1>3

\* A run's shares add up to what it has to book.
LEMMA RunDue ==
    ASSUME NEW total \in Nat, NEW compliant
    PROVE  Weight(RunShares(total, compliant), ShareAmounts) = ToBook(total) /\ ToBook(total) \in Nat
<1>1. DOMAIN Ranks = 1 .. Len(Ranks) /\ Len(Ranks) \in Nat
    BY RankAssumption
<1>2. \A r \in 1 .. Len(Ranks) : RankShares(r, total, compliant) \in Seq(Shares)
    BY <1>1, RankSharesTyped
<1>3. PICK seqs \in Seq(Seq(Shares)) :
          /\ seqs = [r \in DOMAIN Ranks |-> RankShares(r, total, compliant)]
          /\ \A r \in DOMAIN seqs : seqs[r] \in Seq(Shares)
    <2>1. [r \in DOMAIN Ranks |-> RankShares(r, total, compliant)] \in Seq(Seq(Shares))
        BY <1>1, <1>2
    <2>2. \A r \in DOMAIN Ranks : RankShares(r, total, compliant) \in Seq(Shares)
        BY <1>1, <1>2
    <2> QED
        BY <2>1, <2>2
<1>4. PICK f : f = [r \in DOMAIN seqs |-> Weight(seqs[r], ShareAmounts)]
    OBVIOUS
<1>5. PICK h : h = [r \in DOMAIN Ranks |->
                       IF Members(r) = {} THEN Amount(r, total)
                       ELSE Cardinality(Members(r)) * PerMember(r, total)]
    OBVIOUS
<1>6. DOMAIN seqs = DOMAIN Ranks
    BY <1>3
<1>7. f = h
    <2>1. \A r \in DOMAIN Ranks : f[r] = h[r]
        BY <1>3, <1>4, <1>5, <1>6, RankSharesDue
    <2> QED
        BY <1>4, <1>5, <1>6, <2>1
<1>8. Weight(FlattenSeq(seqs), ShareAmounts) = SumOver(DOMAIN seqs, f)
    BY <1>4, AmountsTyped, WeightFlatten
<1>9. ToBook(total) = SumOver(DOMAIN Ranks, h)
    BY <1>5 DEF ToBook
<1>10. SumOver(DOMAIN seqs, f) \in Nat
    <2>1. IsFiniteSet(DOMAIN seqs)
        BY <1>1, <1>6, FS_Interval
    <2>2. \A r \in DOMAIN seqs : f[r] \in Nat
        BY <1>3, <1>4, AmountsTyped, WeightNat
    <2> QED
        BY <2>1, <2>2, SumNat
<1> QED
    BY <1>3, <1>6, <1>7, <1>8, <1>9, <1>10 DEF RunShares

\* The run books the next number, its draft is worth what it has to book, and no
\* number that is still free was booked.
RunBookInv ==
    /\ Len(pools) <= MaxRuns
    /\ \A n \in Runs : n > Len(pools) => distributions[n] = 0
    /\ caller[Runner].at \in {"checked", "drafted"} => caller[Runner].source = Len(pools) + 1
    /\ caller[Runner].at = "drafted" => DraftWorth(caller[Runner].draft) = ToBook(run.total)

LEMMA PoolsNumbered ==
    ASSUME PoolTyped, RunBookInv
    PROVE  Len(pools) \in Nat /\ DOMAIN pools = 1 .. Len(pools) /\ DOMAIN pools \subseteq Runs
<1>1. PICK S : pools \in Seq(S)
    BY DEF PoolTyped, PoolsTyped
<1>2. Len(pools) \in Nat /\ DOMAIN pools = 1 .. Len(pools)
    BY <1>1
<1> QED
    BY <1>2, BoundAssumption DEF RunBookInv, Runs

\* A step of the run moves no other call.
LEMMA CallersStay ==
    ASSUME PoolTyped, RunStep \/ LoseReceipt
    PROVE  \A d \in Callers : caller'[d] = caller[d]
<1>1. CallsTyped /\ Runner \in Granters /\ Runner \notin Callers
    BY UserAssumption DEF PoolTyped, LedgerTyped, Granters
<1>2. (\E next : Goes(Runner, next)) \/ caller' = caller
    <2>1. CASE ReadPool
        BY <2>1 DEF ReadPool
    <2>2. CASE DraftRun
        BY <2>2 DEF DraftRun
    <2>3. CASE CommitRun
        BY <2>3 DEF CommitRun
    <2>4. CASE FindUnpaid
        BY <2>4 DEF FindUnpaid, Moves
    <2>5. CASE Distribute
        BY <2>5 DEF Distribute, Moves
    <2>6. CASE MarkPaid \/ LoseReceipt
        BY <2>6 DEF MarkPaid, LoseReceipt, Moves
    <2>7. CASE EndRun
        BY <2>7 DEF EndRun
    <2> QED
        BY <2>1, <2>2, <2>3, <2>4, <2>5, <2>6, <2>7 DEF RunStep
<1>3. ASSUME NEW next, Goes(Runner, next) PROVE \A d \in Callers : caller'[d] = caller[d]
    BY <1>1, <1>3, GoesStep DEF Granters
<1> QED
    BY <1>2, <1>3

LEMMA PoolDueStep ==
    ASSUME PoolTyped, DueInv, [PoolNext]_allVars
    PROVE  DueInv'
<1>1. CASE LedgerStep
    BY <1>1, LedgerStepIsNext, DueStep DEF PoolTyped
<1>2. CASE RunStep \/ LoseReceipt
    BY <1>2, CallersStay, DueSame
<1>3. CASE ChainStep \/ UNCHANGED allVars
    <2>1. caller' = caller
        BY <1>3, ChainLeaves DEF allVars, ledgerVars, calls
    <2> QED
        BY <2>1, DueSame
<1>4. CASE RestartPool
    <2>1. \A c \in Callers : caller'[c].at # "drafted"
        BY <1>4 DEF RestartPool, Restart, Nobody, Idle
    <2> QED
        BY <2>1, DueSame
<1> QED
    BY <1>1, <1>2, <1>3, <1>4 DEF PoolNext

(***************************************************************************)
(* The number of a run.                                                    *)
(***************************************************************************)

LEMMA RunBookKept ==
    ASSUME RunBookInv, pools' = pools, \A n \in Runs : distributions'[n] = distributions[n],
           \/ caller'[Runner].at \notin {"checked", "drafted"}
           \/ caller'[Runner] = caller[Runner] /\ run' = run
    PROVE  RunBookInv'
<1>1. /\ Len(pools') <= MaxRuns
      /\ \A n \in Runs : n > Len(pools') => distributions'[n] = 0
    BY DEF RunBookInv
<1>2. CASE caller'[Runner].at \notin {"checked", "drafted"}
    BY <1>1, <1>2 DEF RunBookInv
<1>3. CASE caller'[Runner] = caller[Runner] /\ run' = run
    BY <1>1, <1>3 DEF RunBookInv, DraftWorth
<1> QED
    BY <1>2, <1>3

LEMMA RunBookByRead ==
    ASSUME PoolTyped, RunBookInv, ReadPool
    PROVE  RunBookInv'
<1>1. pools' = pools /\ distributions' = distributions
    BY DEF ReadPool, ledger
<1>2. CASE TotalPool = 0
    BY <1>1, <1>2, RunBookKept DEF ReadPool
<1>3. CASE TotalPool # 0
    <2>1. PICK next : next = [at |-> "checked", source |-> Len(pools) + 1] /\ Goes(Runner, next)
        BY <1>3 DEF ReadPool
    <2>2. caller'[Runner] = next
        BY <2>1, GoesStep DEF PoolTyped, LedgerTyped, Granters
    <2>3. caller'[Runner].at = "checked" /\ caller'[Runner].source = Len(pools') + 1
        BY <1>1, <2>1, <2>2
    <2> QED
        BY <1>1, <2>3 DEF RunBookInv
<1> QED
    BY <1>2, <1>3

LEMMA RunBookByDraft ==
    ASSUME PoolTyped, RunBookInv, DraftRun
    PROVE  RunBookInv'
<1>0. /\ LedgerTyped /\ RunTyped /\ CallsTyped /\ Runner \in Granters
      /\ caller[Runner].at = "checked"
    BY DEF PoolTyped, LedgerTyped, Granters, DraftRun, At
<1>1. PICK source \in Sources : source = caller[Runner].source
    BY <1>0, RunnerSource
<1>2. PICK total \in Nat : total = run.total
    BY <1>0 DEF RunTyped
<1>3. PICK shares \in Seq(Shares) : /\ shares = RunShares(total, run.compliant)
                                    /\ Weight(shares, ShareAmounts) = ToBook(total)
    BY RunSharesTyped, RunDue
<1>4. PICK next : /\ next.at = "drafted" /\ next.source = source
                  /\ next.draft = Draft(shares, DayStart(now), source) /\ Goes(Runner, next)
    BY <1>1, <1>2, <1>3 DEF DraftRun, InTransaction
<1>5. /\ now \in 0 .. MaxTime /\ now + LockTicks \in 0 .. MaxTime
      /\ income \in Seq(IncomeRows)
    BY <1>0, BoundAssumption DEF DraftRun, LedgerTyped, ClockTyped, BooksTyped
<1>6. DraftWorth(next.draft) = ToBook(total)
    BY <1>3, <1>4, <1>5, DraftWhole
<1>7. caller'[Runner] = next
    BY <1>0, <1>4, GoesStep
<1>8. pools' = pools /\ run' = run /\ distributions' = distributions
    BY DEF DraftRun, ledger, poolVars
<1>9. source = Len(pools') + 1
    BY <1>0, <1>1, <1>8 DEF RunBookInv
<1> QED
    BY <1>2, <1>4, <1>6, <1>7, <1>8, <1>9 DEF RunBookInv, DraftWorth

\* What a commit of the run adds to the pools.
LEMMA PoolAppended ==
    ASSUME PoolTyped, RunBookInv, CommitRun
    PROVE  \E n \in Nat :
              /\ n = Len(pools) /\ Len(pools') = n + 1 /\ n + 1 \in Runs
              /\ caller[Runner].source = n + 1
              /\ DOMAIN pools = 1 .. n /\ DOMAIN pools' = 1 .. (n + 1)
              /\ \A m \in 1 .. n : pools'[m] = pools[m]
              /\ pools'[n + 1].due = ToBook(run.total)
<1>1. PICK p : p = [day |-> run.day, due |-> ToBook(run.total)] /\ pools' = Append(pools, p)
    BY DEF CommitRun
<1>2. PICK S : pools \in Seq(S)
    BY DEF PoolTyped, PoolsTyped
<1>3. PICK n \in Nat : n = Len(pools)
    BY <1>2
<1>4. /\ DOMAIN pools = 1 .. n /\ DOMAIN pools' = 1 .. (n + 1) /\ Len(pools') = n + 1
      /\ \A m \in 1 .. n : pools'[m] = pools[m]
      /\ pools'[n + 1] = p
    <2>1. pools \in Seq(S \cup {p})
        BY <1>2
    <2> QED
        BY <1>1, <1>3, <2>1, AppendProperties
<1>5. caller[Runner].at = "drafted"
    BY DEF CommitRun, Appended, At
<1>6. caller[Runner].source = n + 1 /\ caller[Runner].source \in Runs
    BY <1>3, <1>5, RunnerSource DEF RunBookInv
<1> QED
    BY <1>1, <1>3, <1>4, <1>6

LEMMA RunBookByCommit ==
    ASSUME PoolTyped, RunBookInv, CommitRun
    PROVE  RunBookInv'
<1>1. PICK n \in Nat :
          /\ n = Len(pools) /\ Len(pools') = n + 1 /\ n + 1 \in Runs
          /\ caller[Runner].source = n + 1
    BY PoolAppended
<1>2. distributions' = [distributions EXCEPT ![n + 1] = @ + 1]
    BY <1>1 DEF CommitRun, Appended
<1>3. caller'[Runner].at = "recorded"
    BY CommitRunTyped
<1>4. n + 1 <= MaxRuns
    BY <1>1 DEF Runs
<1>5. ASSUME NEW m \in Runs, m > n + 1 PROVE distributions'[m] = 0
    <2>1. distributions'[m] = distributions[m]
        BY <1>2, <1>5 DEF Runs
    <2>2. m > n
        BY <1>5 DEF Runs
    <2> QED
        BY <1>1, <2>1, <2>2 DEF RunBookInv
<1> QED
    BY <1>1, <1>3, <1>4, <1>5 DEF RunBookInv

LEMMA RunBookByLedger ==
    ASSUME PoolTyped, RunBookInv, LedgerStep
    PROVE  RunBookInv'
<1>0. LedgerTyped /\ CallsTyped
    BY DEF PoolTyped, LedgerTyped
<1>1. caller'[Runner] = caller[Runner] /\ pools' = pools /\ run' = run
    BY <1>0, RunnerStays DEF poolVars
<1>2. ASSUME NEW c \in Callers, Appended(c), NEW n \in Runs
      PROVE  distributions'[n] = distributions[n]
    <2>1. caller[c].source \in DOMAIN Activation \cup DOMAIN Resale
        BY <1>0, <1>2 DEF CallsTyped, Appended, At
    <2>2. caller[c].source # n
        BY <2>1, SourceAssumption
    <2>3. distributions = [s \in Sources |-> distributions[s]]
        BY <1>0 DEF LedgerTyped, BooksTyped
    <2>4. n \in Sources
        BY DEF Sources
    <2> QED
        BY <1>2, <2>2, <2>3, <2>4 DEF Appended
<1>3. \A n \in Runs : distributions'[n] = distributions[n]
    <2>1. [LedgerNext]_ledgerVars
        BY LedgerStepIsNext
    <2> QED
        BY <1>2, <2>1, BooksMove
<1> QED
    BY <1>1, <1>3, RunBookKept

LEMMA RunBookStep ==
    ASSUME PoolTyped, RunBookInv, [PoolNext]_allVars
    PROVE  RunBookInv'
<1>1. CASE FindUnpaid
    <2>1. pools' = pools /\ distributions' = distributions
        BY <1>1 DEF FindUnpaid, ledger
    <2>2. caller'[Runner].at \notin {"checked", "drafted"}
        BY <1>1, FindUnpaidTyped
    <2> QED
        BY <2>1, <2>2, RunBookKept
<1>2. CASE Distribute
    <2>1. pools' = pools /\ distributions' = distributions
        BY <1>2 DEF Distribute, ledger
    <2>2. caller'[Runner].at \notin {"checked", "drafted"}
        BY <1>2, DistributeTyped
    <2> QED
        BY <2>1, <2>2, RunBookKept
<1>3. CASE MarkPaid
    <2>1. pools' = pools /\ distributions' = distributions
        BY <1>3 DEF MarkPaid
    <2>2. caller'[Runner].at \notin {"checked", "drafted"}
        BY <1>3, MarkPaidTyped
    <2> QED
        BY <2>1, <2>2, RunBookKept
<1>4. CASE LoseReceipt \/ EndRun
    <2>1. pools' = pools /\ distributions' = distributions
        BY <1>4 DEF LoseReceipt, EndRun, ledger, poolVars
    <2>2. caller'[Runner].at \notin {"checked", "drafted"}
        BY <1>4, LoseReceiptTyped, EndRunTyped
    <2> QED
        BY <2>1, <2>2, RunBookKept
<1>5. CASE ChainStep \/ UNCHANGED allVars
    <2>1. pools' = pools /\ distributions' = distributions /\ caller' = caller /\ run' = run
        BY <1>5, ChainLeaves DEF allVars, ledgerVars, ledger, calls, poolVars
    <2> QED
        BY <2>1, RunBookKept
<1>6. CASE RestartPool
    <2>1. pools' = pools /\ distributions' = distributions
        BY <1>6 DEF RestartPool, Restart, ledger
    <2>2. caller'[Runner].at \notin {"checked", "drafted"}
        BY <1>6, RestartPoolTyped
    <2> QED
        BY <2>1, <2>2, RunBookKept
<1> QED
    BY <1>1, <1>2, <1>3, <1>4, <1>5, <1>6,
       RunBookByRead, RunBookByDraft, RunBookByCommit, RunBookByLedger
    DEF PoolNext, RunStep

(***************************************************************************)
(* The books with the runs among the sources.                              *)
(***************************************************************************)

\* What is due of a source once the runs have fixed their shares.
PoolDue == [s \in Sources |-> IF s \in DOMAIN pools THEN pools[s].due ELSE DueOf(s)]

\* A commit of an activation or a resale books what is due of it.
LEMMA PoolBookByCaller ==
    ASSUME PoolTyped, BooksTyped', DueInv, RunBookInv, pools' = pools,
           NEW c \in Callers, Appended(c)
    PROVE  PoolPromised!Next
<1>0. BooksTyped /\ LedgerTyped
    BY DEF PoolTyped, LedgerTyped
<1>1. PICK granted \in Nat, lost \in Nat :
          /\ DraftWorth(caller[c].draft) = granted + lost
          /\ With("locked")' = With("locked") + granted
          /\ With("unlocked")' = With("unlocked")
          /\ Destroyed' = Destroyed + lost
    BY <1>0, CommitBooks DEF Granters
<1>2. caller[c].at = "drafted"
    BY DEF Appended, At
<1>3. PICK s \in Sources : s = caller[c].source /\ s \notin DOMAIN pools
    <2>1. caller[c].source \in DOMAIN Activation \cup DOMAIN Resale
        BY <1>0, <1>2 DEF LedgerTyped, CallsTyped
    <2>2. caller[c].source \notin Runs
        BY <2>1, SourceAssumption
    <2> QED
        BY <2>1, <2>2, PoolsNumbered DEF Sources
<1>4. DueOf(s) = granted + lost
    BY <1>1, <1>2, <1>3 DEF DueInv
<1>5. distributions' = [distributions EXCEPT ![s] = @ + 1]
    BY <1>3 DEF Appended
<1>6. With("locked") \in Nat
    BY <1>0, TotalsNow
<1>7. PoolDue' = PoolDue /\ PoolDue[s] = DueOf(s)
    BY <1>3 DEF PoolDue
<1>8. PoolDue'[s] = granted + lost /\ lost \in 0 .. PoolDue'[s]
      /\ With("locked")' = With("locked") + PoolDue'[s] - lost
    BY <1>1, <1>4, <1>6, <1>7
<1>9. PoolPromised!Book(s)
    BY <1>1, <1>5, <1>7, <1>8, DestroyedIs DEF PoolPromised!Book, PoolDue
<1> QED
    BY <1>9 DEF PoolPromised!Next

\* A run fixes what is due of its number as it books it.
LEMMA PoolBookByRun ==
    ASSUME PoolTyped, BooksTyped', RunBookInv, CommitRun
    PROVE  PoolPromised!Next
<1>0. BooksTyped /\ LedgerTyped /\ Runner \in Granters /\ Appended(Runner)
    BY DEF PoolTyped, LedgerTyped, Granters, CommitRun
<1>1. PICK granted \in Nat, lost \in Nat :
          /\ DraftWorth(caller[Runner].draft) = granted + lost
          /\ With("locked")' = With("locked") + granted
          /\ With("unlocked")' = With("unlocked")
          /\ Destroyed' = Destroyed + lost
    BY <1>0, CommitBooks
<1>2. PICK n \in Nat :
          /\ n = Len(pools) /\ n + 1 \in Runs
          /\ caller[Runner].source = n + 1
          /\ DOMAIN pools = 1 .. n /\ DOMAIN pools' = 1 .. (n + 1)
          /\ \A m \in 1 .. n : pools'[m] = pools[m]
          /\ pools'[n + 1].due = ToBook(run.total)
    BY PoolAppended
<1>3. PICK s \in Sources : s = n + 1
    BY <1>2 DEF Sources
<1>4. caller[Runner].at = "drafted"
    BY <1>0 DEF Appended, At
<1>5. PoolDue'[s] = granted + lost
    <2>1. PoolDue'[s] = pools'[s].due
        BY <1>2, <1>3 DEF PoolDue
    <2> QED
        BY <1>1, <1>2, <1>3, <1>4, <2>1 DEF RunBookInv
<1>6. \A r \in Sources : PoolDue'[r] # PoolDue[r] => r = s /\ distributions[s] = 0
    <2>1. distributions[s] = 0
        BY <1>2, <1>3 DEF RunBookInv
    <2>2. ASSUME NEW r \in Sources, r # s PROVE PoolDue'[r] = PoolDue[r]
        <3>1. CASE r \in DOMAIN pools
            <4>1. r \in DOMAIN pools' /\ pools'[r] = pools[r]
                BY <1>2, <3>1
            <4> QED
                BY <3>1, <4>1 DEF PoolDue
        <3>2. CASE r \notin DOMAIN pools
            <4>1. r \notin DOMAIN pools'
                BY <1>2, <1>3, <2>2, <3>2
            <4> QED
                BY <3>2, <4>1 DEF PoolDue, DueOf
        <3> QED
            BY <3>1, <3>2
    <2> QED
        BY <2>1, <2>2
<1>7. distributions' = [distributions EXCEPT ![s] = @ + 1]
    BY <1>0, <1>2, <1>3 DEF Appended
<1>8. With("locked") \in Nat
    BY <1>0, TotalsNow
<1>9. lost \in 0 .. PoolDue'[s] /\ With("locked")' = With("locked") + PoolDue'[s] - lost
    BY <1>1, <1>5, <1>8
<1>10. PoolPromised!Book(s)
    BY <1>1, <1>6, <1>7, <1>9, DestroyedIs DEF PoolPromised!Book, PoolDue
<1> QED
    BY <1>10 DEF PoolPromised!Next

\* Rows that change their status, whoever settles them.
LEMMA PoolSettles ==
    ASSUME BooksTyped, BooksTyped', burnt' = burnt, distributions' = distributions, pools' = pools,
           With("locked")' + With("unlocked")' + Destroyed'
             = With("locked") + With("unlocked") + Destroyed,
           With("locked")' <= With("locked")
    PROVE  PoolPromised!Next
<1>1. PoolDue' = PoolDue
    BY DEF PoolDue
<1>2. PoolPromised!Settle
    BY <1>1, DestroyedIs DEF PoolPromised!Settle, PoolDue
<1> QED
    BY <1>2 DEF PoolPromised!Next

\* Paying rows changes no total, even of rows burned meanwhile.
LEMMA PoolBookByMark ==
    ASSUME PoolTyped, BooksTyped', MarkPaid
    PROVE  PoolPromised!Next
<1>1. BooksTyped
    BY DEF PoolTyped, LedgerTyped
<1>2. PICK s \in Seq(IncomeRows) : s = income
    BY <1>1 DEF BooksTyped
<1>3. income' = [i \in DOMAIN s |-> IF i \in run.rows THEN [s[i] EXCEPT !.status = "unlocked"] ELSE s[i]]
    BY <1>2 DEF MarkPaid
<1>4. ASSUME NEW i \in DOMAIN s
      PROVE  /\ income'[i].amount = s[i].amount
             /\ income'[i].status = "locked" => s[i].status = "locked"
    <2>1. s[i] \in IncomeRows
        BY <1>4
    <2>2. income'[i] = IF i \in run.rows THEN [s[i] EXCEPT !.status = "unlocked"] ELSE s[i]
        BY <1>3, <1>4
    <2>3. /\ [s[i] EXCEPT !.status = "unlocked"].amount = s[i].amount
          /\ [s[i] EXCEPT !.status = "unlocked"].status = "unlocked"
        BY <2>1 DEF IncomeRows
    <2> QED
        BY <2>2, <2>3
<1>5. DOMAIN income' = DOMAIN income
    BY <1>2, <1>3
<1>6. burnt' = burnt /\ distributions' = distributions /\ pools' = pools
    BY DEF MarkPaid
<1>7. /\ With("locked")' + With("unlocked")' + Destroyed'
           = With("locked") + With("unlocked") + Destroyed
      /\ With("locked")' <= With("locked")
    BY <1>1, <1>2, <1>4, <1>5, <1>6, SettleBooks
<1> QED
    BY <1>1, <1>6, <1>7, PoolSettles

\* Each step is a step of the books, or one that they do not see.
LEMMA PoolBooksStep ==
    ASSUME PoolTyped, PoolTyped', DueInv, RunBookInv, [PoolNext]_allVars
    PROVE  [PoolPromised!Next]_(PoolPromised!booksVars)
<1>0. LedgerTyped /\ BooksTyped /\ BooksTyped'
    BY DEF PoolTyped, LedgerTyped
<1>1. ASSUME income' = income, burnt' = burnt, distributions' = distributions, pools' = pools
      PROVE  UNCHANGED PoolPromised!booksVars
    <2>1. PoolDue' = PoolDue
        BY <1>1 DEF PoolDue
    <2> QED
        BY <1>1, <2>1, DestroyedIs DEF PoolPromised!booksVars, With, Sum, Destroyed, PoolDue
<1>2. CASE LedgerStep
    <2>1. pools' = pools
        BY <1>0, <1>2, RunnerStays DEF poolVars
    <2>2. ASSUME NEW i \in DOMAIN income, NEW status \in Settled, Settle(i, status),
                 burnt' = burnt, distributions' = distributions
          PROVE  PoolPromised!Next
        <3>1. /\ With("locked")' + With("unlocked")' + Destroyed'
                   = With("locked") + With("unlocked") + Destroyed
              /\ With("locked")' <= With("locked")
            BY <1>0, <2>2, SettleOneBooks
        <3> QED
            BY <1>0, <2>1, <2>2, <3>1, PoolSettles
    <2>3. [LedgerNext]_ledgerVars
        BY <1>2, LedgerStepIsNext
    <2> QED
        BY <1>0, <1>1, <2>1, <2>2, <2>3, BooksMove, PoolBookByCaller
<1>3. CASE ReadPool \/ DraftRun \/ FindUnpaid \/ Distribute \/ LoseReceipt \/ EndRun
    <2>1. income' = income /\ burnt' = burnt /\ distributions' = distributions /\ pools' = pools
        BY <1>3 DEF ReadPool, DraftRun, FindUnpaid, Distribute, LoseReceipt, EndRun, ledger, poolVars
    <2> QED
        BY <1>1, <2>1
<1>4. CASE ChainStep \/ RestartPool \/ UNCHANGED allVars
    <2>1. income' = income /\ burnt' = burnt /\ distributions' = distributions /\ pools' = pools
        BY <1>4, ChainLeaves DEF RestartPool, Restart, allVars, ledgerVars, ledger, poolVars
    <2> QED
        BY <1>1, <2>1
<1> QED
    BY <1>0, <1>2, <1>3, <1>4, PoolBookByRun, PoolBookByMark DEF PoolNext, RunStep

\* A run books the amounts of all ranks at once, to members or as burned, and
\* paying the rows changes no total, whatever became of them meanwhile
\* (persistGlobalPoolRun, executeGlobalPoolOnChainPayouts).
THEOREM PoolRunsKeepBooks == PoolSpec => PoolKeepsBooks
<1>1. PoolInit => PoolPromised!Init
    BY EmptyBooks, DestroyedIs DEF PoolInit, LedgerInit, PoolPromised!Init
<1>2. PoolInit => DueInv /\ RunBookInv
    <2> SUFFICES ASSUME PoolInit PROVE DueInv /\ RunBookInv
        OBVIOUS
    <2>1. DueInv
        BY DEF PoolInit, LedgerInit, DueInv, Nobody, Idle
    <2>2. Len(pools) = 0 /\ caller[Runner].at = "idle" /\ \A n \in Runs : distributions[n] = 0
        BY DEF PoolInit, LedgerInit, Nobody, Idle, Sources
    <2> QED
        BY <2>1, <2>2, BoundAssumption DEF RunBookInv
<1>3. PoolTyped /\ DueInv /\ RunBookInv /\ [PoolNext]_allVars => DueInv' /\ RunBookInv'
    BY PoolDueStep, RunBookStep
<1>4. PoolTyped /\ PoolTyped' /\ DueInv /\ RunBookInv /\ [PoolNext]_allVars
        => [PoolPromised!Next]_(PoolPromised!booksVars)
    BY PoolBooksStep
<1> QED
    BY <1>1, <1>2, <1>3, <1>4, PoolTypedInit, PoolTypedStep, PTL
    DEF PoolSpec, PoolKeepsBooks, PoolPromised!Spec
=============================================================================
