------------------------- MODULE RegistrationProofs -------------------------
(***************************************************************************)
(* Theorems of Registration, for every finite set of accounts, list of     *)
(* packages, split and unlock table; of Funds, for every finite set of     *)
(* ranks; and of Rewards, for every number of days.                        *)
(***************************************************************************)
EXTENDS Funds, Rewards, SumsProofs

(***************************************************************************)
(* Arithmetic of the split.                                                *)
(***************************************************************************)

\* Solidity's multiply-then-divide on unsigned integers stays unsigned.
LEMMA ShareNat ==
    ASSUME NEW amount \in Nat, NEW bps \in Nat
    PROVE  Share(amount, bps) \in Nat
<1>1. amount * bps \in Nat
    OBVIOUS
<1>2. \A x \in Nat, y \in Nat \ {0} : x \div y \in Nat
    OBVIOUS
<1> QED
    BY <1>1, <1>2, BoundsAssumption DEF Share

\* A budget divided by a payment, times that payment, is within the budget.
LEMMA WholePayments ==
    ASSUME NEW budget \in Nat, NEW each \in Nat \ {0}
    PROVE  /\ (budget \div each) * each \in Nat
           /\ (budget \div each) * each <= budget
<1> DEFINE q == budget \div each
<1>1. q \in Nat
    OBVIOUS
<1>2. budget = each * q + (budget % each) /\ budget % each \in Nat
    OBVIOUS
<1>3. each * q \in Nat /\ q * each = each * q
    BY <1>1
<1> HIDE DEF q
<1>4. q * each \in Nat /\ q * each <= budget
    BY <1>2, <1>3
<1> QED
    BY <1>4 DEF q

\* _distributeNetwork never pays more than the network budget.
LEMMA NetworkInBudget ==
    ASSUME NEW amount \in Nat, NEW levels \in Nat, split \in Split
    PROVE  /\ NetworkPaid(amount, levels) \in Nat
           /\ NetworkPaid(amount, levels) <= Share(amount, split.network)
<1> DEFINE each == Share(amount, PerLevelBps)
           budget == Share(amount, split.network)
<1>1. each \in Nat /\ budget \in Nat
    BY ShareNat, BoundsAssumption DEF Split
<1>2. levels * each \in Nat
    BY <1>1
<1>3. each = 0 => levels * each <= budget
    BY <1>1
<1> HIDE DEF each, budget
<1>4. CASE levels * each <= budget
    BY <1>2, <1>4 DEF NetworkPaid, each, budget
<1>5. CASE ~(levels * each <= budget)
  <2>1. each \in Nat \ {0}
    BY <1>1, <1>3, <1>5
  <2>2. (budget \div each) * each \in Nat /\ (budget \div each) * each <= budget
    BY <1>1, <2>1, WholePayments
  <2> QED
    BY <1>5, <2>2 DEF NetworkPaid, each, budget
<1> QED
    BY <1>4, <1>5

\* The payments of an activation add up to its price.
LEMMA PaymentsBalance ==
    ASSUME NEW amount \in Nat, NEW levels \in Nat, split \in Split,
           NEW toSponsor \in BOOLEAN
    PROVE  /\ Payments(amount, toSponsor, levels) \in Payment
           /\ PaidOut(Payments(amount, toSponsor, levels)) = amount
<1> DEFINE direct    == Share(amount, split.direct)
           network   == Share(amount, split.network)
           creator   == Share(amount, split.creator)
           burn      == Share(amount, split.burn)
           liquidity == Share(amount, split.liquidity)
           toLevels  == NetworkPaid(amount, levels)
<1>1. /\ direct \in Nat /\ network \in Nat /\ creator \in Nat
      /\ burn \in Nat /\ liquidity \in Nat
    BY ShareNat DEF Split
<1>2. toLevels \in Nat /\ toLevels <= network
    BY NetworkInBudget
<1> HIDE DEF direct, network, creator, burn, liquidity, toLevels
<1>3. Payments(amount, toSponsor, levels) =
        [direct    |-> IF toSponsor THEN direct ELSE 0,
         network   |-> toLevels,
         creator   |-> creator,
         liquidity |-> liquidity,
         global    |-> amount - direct - network - creator - burn - liquidity,
         burn      |-> burn + (IF network > toLevels THEN network - toLevels
                               ELSE 0)
                            + (IF toSponsor THEN 0 ELSE direct)]
    BY DEF Payments, direct, network, creator, burn, liquidity, toLevels
<1>4. CASE toSponsor
    BY <1>1, <1>2, <1>3, <1>4 DEF Payment, PaidOut
<1>5. CASE ~toSponsor
    BY <1>1, <1>2, <1>3, <1>5 DEF Payment, PaidOut
<1> QED
    BY <1>4, <1>5

\* The number of paid levels is a natural number.
LEMMA PaidLevelsCounted ==
    ASSUME NEW us, NEW s
    PROVE  Cardinality(PaidLevels(us, s)) \in Nat
<1>1. IsFiniteSet(1 .. MaxLevels)
    BY FS_Interval, BoundsAssumption
<1>2. PaidLevels(us, s) \subseteq 1 .. MaxLevels
    BY DEF PaidLevels
<1> QED
    BY <1>1, <1>2, FS_Subset, FS_CardinalityType

\* What a transaction that takes a payment leaves in the contract.
LEMMA PaymentStep ==
    ASSUME TypeOK, NEW us, NEW u, NEW price \in Nat, NEW pullUsdt \in BOOLEAN,
           TakePayment(us, u, price, pullUsdt)
    PROVE  /\ tokens' \in 0 .. MaxSupply
           /\ paid' \in Payment
           /\ held' = held
<1>1. tokens' \in 0 .. MaxSupply
  <2> DEFINE cost == price * TokensPerUsdt
  <2>1. cost \in Nat
    BY BoundsAssumption
  <2>2. tokens' = tokens \/ (tokens >= cost /\ tokens' = tokens - cost)
    BY DEF TakePayment, DistributePlatformTokens
  <2>3. tokens \in 0 .. MaxSupply /\ MaxSupply \in Nat
    BY BoundsAssumption DEF TypeOK
  <2> HIDE DEF cost
  <2> QED
    BY <2>1, <2>2, <2>3
<1>2. CASE pullUsdt
  <2> DEFINE s == us[u].sponsor
             levels == Cardinality(PaidLevels(us, s))
             p == Payments(price, EligiblePayee(us, s), levels)
  <2>1. levels \in Nat
    BY PaidLevelsCounted
  <2>2. p = Payments(price, TRUE, levels) \/ p = Payments(price, FALSE, levels)
    BY DEF EligiblePayee, Payments
  <2>3. p \in Payment /\ PaidOut(p) = price
    BY <2>1, <2>2, PaymentsBalance DEF TypeOK
  <2>4. paid' = p /\ held' = held + price - PaidOut(p)
    BY <1>2 DEF TakePayment, DistributeActivation
  <2> HIDE DEF p
  <2> QED
    BY <1>1, <2>3, <2>4 DEF TypeOK
<1>3. CASE ~pullUsdt
    BY <1>1, <1>3 DEF TakePayment, NoPayment, Payment
<1> QED
    BY <1>2, <1>3

(***************************************************************************)
(* The sponsor tree, of any `users' mapping.                               *)
(***************************************************************************)

MembersOf(us) == {u \in Accounts : us[u].registered} \ {Root}

\* Rooted is what makes SponsorTree inductive: an account that is not
\* registered has no sponsor, so it is nobody's direct, and no registered
\* account has it as a sponsor.
Rooted(us) ==
    /\ us[Root].registered
    /\ us[Root].sponsor = NoOne
    /\ \A u \in Accounts : ~us[u].registered => us[u].sponsor = NoOne
    /\ \A u \in MembersOf(us) :
           us[u].sponsor \in Accounts /\ us[us[u].sponsor].registered

Acyclic(us) ==
    \A S \in SUBSET MembersOf(us) :
        S # {} => \E u \in S : us[u].sponsor \notin S

LEMMA TreeImpliesSponsorTree ==
    ASSUME Rooted(users), Acyclic(users)
    PROVE  SponsorTree
    BY DEF Rooted, Acyclic, SponsorTree, Members, MembersOf

\* A step that leaves who is registered, and under whom, alone keeps the tree.
LEMMA TreeKept ==
    ASSUME NEW us, NEW vs, Rooted(us), Acyclic(us),
           \A x \in Accounts : /\ vs[x].registered = us[x].registered
                               /\ vs[x].sponsor = us[x].sponsor
    PROVE  Rooted(vs) /\ Acyclic(vs)
<1>1. MembersOf(vs) = MembersOf(us)
    BY DEF MembersOf
<1>2. Rooted(vs)
    BY <1>1, AccountsAssumption DEF Rooted, MembersOf
<1>3. Acyclic(vs)
  <2> SUFFICES ASSUME NEW S \in SUBSET MembersOf(vs), S # {}
               PROVE  \E x \in S : vs[x].sponsor \notin S
      BY DEF Acyclic
  <2>1. PICK x \in S : us[x].sponsor \notin S
    BY <1>1 DEF Acyclic
  <2> QED
    BY <2>1 DEF MembersOf
<1> QED
    BY <1>2, <1>3

OneMoreDirect(user) == [user EXCEPT !.directs = @ + 1]

\* What a registration changes in the `users' mapping.
LEMMA RegisteredEffect ==
    ASSUME NEW us \in [Accounts -> User], NEW u \in Accounts,
           NEW s \in Accounts, CanRegister(us, u, s)
    PROVE  /\ WithRegistered(us, u, s) \in [Accounts -> User]
           /\ \A x \in Accounts :
                  WithRegistered(us, u, s)[x] =
                      IF x = u THEN Newcomer(TRUE, s)
                      ELSE IF x = s THEN OneMoreDirect(us[s])
                      ELSE us[x]
<1> DEFINE new == Newcomer(TRUE, s)
           more == OneMoreDirect(us[s])
<1>1. s # u
    BY DEF CanRegister
<1>2. new \in User
    BY BoundsAssumption DEF User, Newcomer
<1>3. more \in User
  <2>1. us[s] \in User /\ us[s].directs + 1 \in Nat
    BY DEF User
  <2> QED
    BY <2>1 DEF User, OneMoreDirect
<1>4. WithRegistered(us, u, s) =
        [x \in Accounts |-> IF x = u THEN new ELSE IF x = s THEN more ELSE us[x]]
    BY <1>1 DEF WithRegistered, OneMoreDirect
<1> HIDE DEF new, more
<1>5. WithRegistered(us, u, s) \in [Accounts -> User]
    BY <1>2, <1>3, <1>4
<1> QED
    BY <1>4, <1>5 DEF new, more

\* The same, field by field.
LEMMA RegisteredFields ==
    ASSUME NEW us \in [Accounts -> User], NEW u \in Accounts,
           NEW s \in Accounts, CanRegister(us, u, s),
           NEW vs, vs = WithRegistered(us, u, s)
    PROVE  /\ \A x \in Accounts :
                  /\ vs[x].registered <=> us[x].registered \/ x = u
                  /\ vs[x].sponsor = IF x = u THEN s ELSE us[x].sponsor
           /\ vs[u].directs = 0
           /\ vs[s].directs = us[s].directs + 1
           /\ \A x \in Accounts \ {u, s} : vs[x].directs = us[x].directs
<1>0. \A x \in Accounts :
          vs[x] = IF x = u THEN Newcomer(TRUE, s)
                  ELSE IF x = s THEN OneMoreDirect(us[s])
                  ELSE us[x]
    BY RegisteredEffect DEF Newcomer
<1>1. \A x \in Accounts :
          /\ vs[x].registered <=> us[x].registered \/ x = u
          /\ vs[x].sponsor = IF x = u THEN s ELSE us[x].sponsor
  <2> SUFFICES ASSUME NEW x \in Accounts
               PROVE  /\ vs[x].registered <=> us[x].registered \/ x = u
                      /\ vs[x].sponsor = IF x = u THEN s ELSE us[x].sponsor
      OBVIOUS
  <2>1. vs[x] = IF x = u THEN Newcomer(TRUE, s)
                ELSE IF x = s THEN OneMoreDirect(us[s])
                ELSE us[x]
    BY <1>0
  <2>2. CASE x = u
    BY <2>1, <2>2 DEF Newcomer
  <2>3. CASE x # u /\ x = s
    BY <2>1, <2>3 DEF User, OneMoreDirect
  <2>4. CASE x # u /\ x # s
    BY <2>1, <2>4
  <2> QED
    BY <2>2, <2>3, <2>4
<1>2. s # u
    BY DEF CanRegister
<1>3. vs[u].directs = 0
    BY <1>0 DEF Newcomer
<1>4. vs[s].directs = us[s].directs + 1
    BY <1>0, <1>2 DEF User, OneMoreDirect
<1>5. \A x \in Accounts \ {u, s} : vs[x].directs = us[x].directs
    BY <1>0
<1> QED
    BY <1>1, <1>3, <1>4, <1>5

\* A registration adds a leaf to the tree.
LEMMA TreeGrows ==
    ASSUME NEW us \in [Accounts -> User], NEW u \in Accounts,
           NEW s \in Accounts, CanRegister(us, u, s), Rooted(us), Acyclic(us),
           NEW vs, vs = WithRegistered(us, u, s)
    PROVE  Rooted(vs) /\ Acyclic(vs)
<1>1. /\ \A x \in Accounts : vs[x].registered <=> us[x].registered \/ x = u
      /\ \A x \in Accounts :
             vs[x].sponsor = IF x = u THEN s ELSE us[x].sponsor
    BY RegisteredFields
<1>2. ~us[u].registered /\ s # u /\ us[s].registered
    BY DEF CanRegister
<1>3. u # Root
    BY <1>2 DEF Rooted
<1>4. MembersOf(vs) = MembersOf(us) \cup {u}
    BY <1>1, <1>3 DEF MembersOf
<1>5. Rooted(vs)
  <2>1. vs[Root].registered /\ vs[Root].sponsor = NoOne
    BY <1>1, <1>3, AccountsAssumption DEF Rooted
  <2>2. \A x \in Accounts : ~vs[x].registered => vs[x].sponsor = NoOne
    BY <1>1 DEF Rooted
  <2>3. \A x \in MembersOf(vs) :
            vs[x].sponsor \in Accounts /\ vs[vs[x].sponsor].registered
    BY <1>1, <1>2, <1>4 DEF Rooted, MembersOf
  <2> QED
    BY <2>1, <2>2, <2>3 DEF Rooted
<1>6. Acyclic(vs)
  <2> SUFFICES ASSUME NEW S \in SUBSET MembersOf(vs), S # {}
               PROVE  \E x \in S : vs[x].sponsor \notin S
      BY DEF Acyclic
  <2> DEFINE T == S \ {u}
  <2>1. T \in SUBSET MembersOf(us)
    BY <1>4
  <2>2. CASE T = {}
    BY <1>1, <1>2, <2>2
  <2>3. CASE T # {}
    <3>1. PICK x \in T : us[x].sponsor \notin T
      BY <2>1, <2>3 DEF Acyclic
    <3>2. x \in Accounts /\ x # u /\ us[us[x].sponsor].registered
      BY <2>1, <3>1 DEF Rooted, MembersOf
    <3>3. vs[x].sponsor = us[x].sponsor /\ us[x].sponsor # u
      BY <1>1, <1>2, <3>2
    <3> QED
      BY <3>1, <3>3
  <2> QED
    BY <2>2, <2>3
<1> QED
    BY <1>5, <1>6

(***************************************************************************)
(* The counters of directs and the referral lists.                         *)
(***************************************************************************)

DirectsOf(us, a) == {v \in Accounts : us[v].sponsor = a}

CountedAt(us, refs, a) ==
    /\ us[a].directs = Cardinality(DirectsOf(us, a))
    /\ us[a].directs = Len(refs[a])
    /\ \A v \in DirectsOf(us, a) : \E i \in 1 .. Len(refs[a]) : refs[a][i] = v

Counted(us, refs) == \A a \in Accounts : CountedAt(us, refs, a)

LEMMA CountedImpliesDirectsCounted ==
    ASSUME Counted(users, referrals)
    PROVE  DirectsCounted
    BY DEF Counted, CountedAt, DirectsOf, DirectsCounted

LEMMA CountedKept ==
    ASSUME NEW us, NEW vs, NEW refs, Counted(us, refs),
           \A x \in Accounts : /\ vs[x].directs = us[x].directs
                               /\ vs[x].sponsor = us[x].sponsor
    PROVE  Counted(vs, refs)
<1>1. \A a \in Accounts : DirectsOf(vs, a) = DirectsOf(us, a)
    BY DEF DirectsOf
<1> QED
    BY <1>1 DEF Counted, CountedAt

\* Nobody enters, leaves or moves in the tree between us and vs.
SamePlaces(us, vs) ==
    \A x \in Accounts : /\ vs[x].registered = us[x].registered
                         /\ vs[x].sponsor = us[x].sponsor
                         /\ vs[x].directs = us[x].directs

LEMMA ShapeKept ==
    ASSUME NEW us \in [Accounts -> User], NEW vs \in [Accounts -> User],
           NEW refs, SamePlaces(us, vs),
           Rooted(us), Acyclic(us), Counted(us, refs)
    PROVE  Rooted(vs) /\ Acyclic(vs) /\ Counted(vs, refs)
<1>1. \A x \in Accounts : /\ vs[x].registered = us[x].registered
                          /\ vs[x].sponsor = us[x].sponsor
                          /\ vs[x].directs = us[x].directs
    BY DEF SamePlaces
<1>2. Rooted(vs) /\ Acyclic(vs)
    BY <1>1, TreeKept
<1>3. Counted(vs, refs)
    BY <1>1, CountedKept
<1> QED
    BY <1>2, <1>3

\* A registration counts one direct more for the sponsor, and none is lost.
LEMMA CountedGrows ==
    ASSUME NEW us \in [Accounts -> User], NEW u \in Accounts,
           NEW s \in Accounts, NEW refs \in [Accounts -> Seq(Accounts)],
           CanRegister(us, u, s), Rooted(us), Counted(us, refs),
           NEW vs, vs = WithRegistered(us, u, s),
           NEW more, more = [refs EXCEPT ![s] = Append(@, u)]
    PROVE  Counted(vs, more)
<1>1. /\ \A x \in Accounts : vs[x].sponsor = IF x = u THEN s ELSE us[x].sponsor
      /\ vs[u].directs = 0
      /\ vs[s].directs = us[s].directs + 1
      /\ \A x \in Accounts \ {u, s} : vs[x].directs = us[x].directs
    BY RegisteredFields
<1>2. ~us[u].registered /\ s # u
    BY DEF CanRegister
<1>3. more[s] = Append(refs[s], u) /\ \A x \in Accounts \ {s} : more[x] = refs[x]
    OBVIOUS
<1>4. us[u].sponsor = NoOne /\ DirectsOf(us, u) = {}
    BY <1>2, AccountsAssumption DEF Rooted, MembersOf, DirectsOf
<1>5. DirectsOf(vs, s) = DirectsOf(us, s) \cup {u}
    BY <1>1 DEF DirectsOf
<1>6. \A a \in Accounts \ {s} : DirectsOf(vs, a) = DirectsOf(us, a)
    BY <1>1, <1>4, AccountsAssumption DEF DirectsOf
<1>7. u \notin DirectsOf(us, s)
    BY <1>4, AccountsAssumption DEF DirectsOf
<1>8. IsFiniteSet(DirectsOf(us, s)) /\ IsFiniteSet(DirectsOf(us, u))
    BY AccountsAssumption, FS_Subset DEF DirectsOf
<1>9. CountedAt(vs, more, s)
  <2>1. Cardinality(DirectsOf(vs, s)) = Cardinality(DirectsOf(us, s)) + 1
    BY <1>5, <1>7, <1>8, FS_AddElement
  <2>2. Len(more[s]) = Len(refs[s]) + 1
    BY <1>3
  <2>3. CountedAt(us, refs, s)
    BY DEF Counted
  <2>4. more[s][Len(more[s])] = u /\ Len(more[s]) \in 1 .. Len(more[s])
    BY <1>3
  <2>5. \A i \in 1 .. Len(refs[s]) :
            i \in 1 .. Len(more[s]) /\ more[s][i] = refs[s][i]
    BY <1>3, <2>2
  <2>6. \A v \in DirectsOf(vs, s) :
            \E i \in 1 .. Len(more[s]) : more[s][i] = v
    BY <1>5, <2>3, <2>4, <2>5 DEF CountedAt
  <2> QED
    BY <1>1, <2>1, <2>2, <2>3, <2>6 DEF CountedAt
<1>10. CountedAt(vs, more, u)
  <2>1. Cardinality(DirectsOf(us, u)) = 0
    BY <1>4, FS_EmptySet
  <2>2. Len(refs[u]) = 0
    BY <2>1 DEF Counted, CountedAt
  <2> QED
    BY <1>1, <1>2, <1>3, <1>4, <1>6, <2>1, <2>2 DEF CountedAt
<1>11. ASSUME NEW a \in Accounts \ {u, s}
       PROVE  CountedAt(vs, more, a)
  <2>1. /\ vs[a].directs = us[a].directs /\ more[a] = refs[a]
        /\ DirectsOf(vs, a) = DirectsOf(us, a)
    BY <1>1, <1>3, <1>6
  <2>2. CountedAt(us, refs, a)
    BY DEF Counted
  <2> QED
    BY <2>1, <2>2 DEF CountedAt
<1> QED
    BY <1>9, <1>10, <1>11 DEF Counted

(***************************************************************************)
(* Type correctness.                                                       *)
(***************************************************************************)

\* Updates of one account that leave its place in the tree alone.
LEMMA ActivatedEffect ==
    ASSUME TypeOK, NEW us \in [Accounts -> User], NEW u \in Accounts,
           NEW p \in Packages
    PROVE  /\ WithActivated(us, u, p) \in [Accounts -> User]
           /\ \A x \in Accounts :
                  /\ WithActivated(us, u, p)[x].registered = us[x].registered
                  /\ WithActivated(us, u, p)[x].sponsor = us[x].sponsor
                  /\ WithActivated(us, u, p)[x].directs = us[x].directs
<1>1. terms[p].limit \in Nat /\ day \in 0 .. MaxDay
    BY BoundsAssumption DEF TypeOK, Terms, Days
<1>2. us[u] \in User
    OBVIOUS
<1> DEFINE new == [us[u] EXCEPT !.activated = TRUE, !.package = p,
                                !.limit = terms[p].limit, !.activatedAt = day]
<1>3. /\ new \in User
      /\ new.registered = us[u].registered
      /\ new.sponsor = us[u].sponsor
      /\ new.directs = us[u].directs
    BY <1>1, <1>2 DEF User
<1>4. WithActivated(us, u, p) = [us EXCEPT ![u] = new]
    BY DEF WithActivated
<1> HIDE DEF new
<1> QED
    BY <1>3, <1>4

LEMMA UpgradedEffect ==
    ASSUME TypeOK, NEW u \in Accounts, NEW p \in Packages
    PROVE  /\ WithUpgraded(u, p) \in [Accounts -> User]
           /\ \A x \in Accounts :
                  /\ WithUpgraded(u, p)[x].registered = users[x].registered
                  /\ WithUpgraded(u, p)[x].sponsor = users[x].sponsor
                  /\ WithUpgraded(u, p)[x].directs = users[x].directs
<1>1. terms[p].limit \in Nat /\ users[u] \in User /\ users \in [Accounts -> User]
    BY DEF TypeOK, Terms
<1> DEFINE new == [users[u] EXCEPT !.package = p, !.limit = terms[p].limit]
<1>2. /\ new \in User
      /\ new.registered = users[u].registered
      /\ new.sponsor = users[u].sponsor
      /\ new.directs = users[u].directs
    BY <1>1 DEF User
<1>3. WithUpgraded(u, p) = [users EXCEPT ![u] = new]
    BY DEF WithUpgraded
<1> HIDE DEF new
<1> QED
    BY <1>1, <1>2, <1>3

LEMMA InactiveEffect ==
    ASSUME TypeOK, NEW u \in Accounts, NEW value \in BOOLEAN,
           NEW vs, vs = [users EXCEPT ![u] = [@ EXCEPT !.inactive = value]]
    PROVE  /\ vs \in [Accounts -> User]
           /\ \A x \in Accounts : /\ vs[x].registered = users[x].registered
                                  /\ vs[x].sponsor = users[x].sponsor
                                  /\ vs[x].directs = users[x].directs
<1>1. users[u] \in User /\ users \in [Accounts -> User]
    BY DEF TypeOK
<1> DEFINE new == [users[u] EXCEPT !.inactive = value]
<1>2. /\ new \in User
      /\ new.registered = users[u].registered
      /\ new.sponsor = users[u].sponsor
      /\ new.directs = users[u].directs
    BY <1>1 DEF User
<1>3. vs = [users EXCEPT ![u] = new]
    OBVIOUS
<1> HIDE DEF new
<1> QED
    BY <1>1, <1>2, <1>3

LEMMA ActivatedPlaces ==
    ASSUME TypeOK, NEW us \in [Accounts -> User], NEW u \in Accounts,
           NEW p \in Packages
    PROVE  /\ WithActivated(us, u, p) \in [Accounts -> User]
           /\ SamePlaces(us, WithActivated(us, u, p))
    BY ActivatedEffect DEF SamePlaces

\* A type-correct tree that is rooted, acyclic and counted.
TreeInv ==
    /\ Rooted(users)
    /\ Acyclic(users)
    /\ Counted(users, referrals)

TreeTypeOK ==
    /\ users \in [Accounts -> User]
    /\ referrals \in [Accounts -> Seq(Accounts)]

\* The tree after a registration is well typed and keeps its shape.
LEMMA RegisterKeepsTree ==
    ASSUME TypeOK, TreeInv, NEW u \in Accounts, NEW s \in Accounts,
           CanRegister(users, u, s),
           NEW vs, vs = WithRegistered(users, u, s),
           NEW more, more = [referrals EXCEPT ![s] = Append(@, u)]
    PROVE  /\ vs \in [Accounts -> User]
           /\ more \in [Accounts -> Seq(Accounts)]
           /\ Rooted(vs) /\ Acyclic(vs) /\ Counted(vs, more)
<1>1. /\ users \in [Accounts -> User]
      /\ referrals \in [Accounts -> Seq(Accounts)]
    BY DEF TypeOK
<1>2. vs \in [Accounts -> User]
    BY <1>1, RegisteredEffect
<1>3. more \in [Accounts -> Seq(Accounts)]
    BY <1>1
<1>4. Rooted(vs) /\ Acyclic(vs)
    BY <1>1, TreeGrows DEF TreeInv
<1>5. Counted(vs, more)
    BY <1>1, CountedGrows DEF TreeInv
<1> QED
    BY <1>2, <1>3, <1>4, <1>5

\* Every step keeps the tree, and the types of the mappings that hold it.
LEMMA TreeStep ==
    ASSUME TypeOK, TreeInv, [Next]_vars
    PROVE  TreeTypeOK' /\ TreeInv'
<1>1. ASSUME NEW u \in Accounts, NEW s \in Accounts, Register(u, s)
      PROVE  TreeTypeOK' /\ TreeInv'
    BY <1>1, RegisterKeepsTree DEF Register, TreeTypeOK, TreeInv
<1>2. ASSUME NEW u \in Accounts, NEW s \in Accounts, NEW p \in Packages,
             NEW pullUsdt \in BOOLEAN, RegisterAndActivate(u, s, p, pullUsdt)
      PROVE  TreeTypeOK' /\ TreeInv'
  <2>1. PICK us : /\ us \in [Accounts -> User]
                  /\ users' = WithActivated(us, u, p)
                  /\ referrals' \in [Accounts -> Seq(Accounts)]
                  /\ Rooted(us) /\ Acyclic(us) /\ Counted(us, referrals')
    <3>1. CASE users[u].registered
      BY <1>2, <3>1 DEF RegisterAndActivate, TypeOK, TreeInv
    <3>2. CASE ~users[u].registered
      <4> DEFINE vs == WithRegistered(users, u, s)
      <4>1. /\ CanRegister(users, u, s)
            /\ users' = WithActivated(vs, u, p)
            /\ referrals' = [referrals EXCEPT ![s] = Append(@, u)]
        BY <1>2, <3>2 DEF RegisterAndActivate
      <4> QED
        BY <4>1, RegisterKeepsTree
    <3> QED
      BY <3>1, <3>2
  <2>2. /\ WithActivated(us, u, p) \in [Accounts -> User]
        /\ SamePlaces(us, WithActivated(us, u, p))
    BY <2>1, ActivatedPlaces
  <2>3. users' \in [Accounts -> User] /\ SamePlaces(us, users')
    BY <2>1, <2>2
  <2>4. Rooted(users') /\ Acyclic(users') /\ Counted(users', referrals')
    BY <2>1, <2>2, <2>3, ShapeKept
  <2> QED
    BY <2>1, <2>2, <2>4 DEF TreeTypeOK, TreeInv
<1>3. ASSUME NEW vs \in [Accounts -> User], users' = vs, referrals' = referrals,
             \A x \in Accounts : /\ vs[x].registered = users[x].registered
                                 /\ vs[x].sponsor = users[x].sponsor
                                 /\ vs[x].directs = users[x].directs
      PROVE  TreeTypeOK' /\ TreeInv'
  <2>1. Rooted(users) /\ Acyclic(users) /\ Counted(users, referrals)
    BY DEF TreeInv
  <2>2. SamePlaces(users, vs) /\ users \in [Accounts -> User]
    BY <1>3 DEF SamePlaces, TypeOK
  <2>3. Rooted(vs) /\ Acyclic(vs) /\ Counted(vs, referrals)
    BY <1>3, <2>1, <2>2, ShapeKept
  <2> QED
    BY <1>3, <2>3 DEF TypeOK, TreeTypeOK, TreeInv
<1>4. ASSUME NEW u \in Accounts, NEW p \in Packages, Activate(u, p)
      PROVE  TreeTypeOK' /\ TreeInv'
  <2>1. users' = WithActivated(users, u, p) /\ referrals' = referrals
    BY <1>4 DEF Activate
  <2>2. /\ users' \in [Accounts -> User]
        /\ \A x \in Accounts : /\ users'[x].registered = users[x].registered
                               /\ users'[x].sponsor = users[x].sponsor
                               /\ users'[x].directs = users[x].directs
    BY <2>1, ActivatedEffect DEF TypeOK
  <2> QED
    BY <1>3, <2>1, <2>2
<1>5. ASSUME NEW u \in Accounts, NEW p \in Packages, NEW pullUsdt \in BOOLEAN,
             Upgrade(u, p, pullUsdt)
      PROVE  TreeTypeOK' /\ TreeInv'
  <2>1. users' = WithUpgraded(u, p) /\ referrals' = referrals
    BY <1>5 DEF Upgrade
  <2>2. /\ users' \in [Accounts -> User]
        /\ \A x \in Accounts : /\ users'[x].registered = users[x].registered
                               /\ users'[x].sponsor = users[x].sponsor
                               /\ users'[x].directs = users[x].directs
    BY <2>1, UpgradedEffect DEF TypeOK
  <2> QED
    BY <1>3, <2>1, <2>2
<1>6. ASSUME NEW u \in Accounts,
             DeactivateIfInactive(u)
                \/ \E value \in BOOLEAN : SetPermanentlyInactive(u, value)
      PROVE  TreeTypeOK' /\ TreeInv'
  <2>1. PICK value \in BOOLEAN :
            users' = [users EXCEPT ![u] = [@ EXCEPT !.inactive = value]]
    BY <1>6 DEF DeactivateIfInactive, SetPermanentlyInactive
  <2>2. referrals' = referrals
    BY <1>6 DEF DeactivateIfInactive, SetPermanentlyInactive
  <2> QED
    BY <1>3, <2>1, <2>2, InactiveEffect
<1>7. ASSUME UNCHANGED treeVars
      PROVE  TreeTypeOK' /\ TreeInv'
    BY <1>3, <1>7 DEF TypeOK, treeVars
<1>8. CASE TreeNext
    BY <1>1, <1>2, <1>4, <1>5, <1>8 DEF TreeNext
<1>9. CASE ActivityNext
  <2>1. CASE \E u \in Accounts, amount \in Volumes : RecordVolume(u, amount)
    BY <1>7, <2>1 DEF RecordVolume
  <2>2. CASE NextDay
    BY <1>7, <2>2 DEF NextDay
  <2> QED
    BY <1>6, <1>9, <2>1, <2>2 DEF ActivityNext
<1>10. CASE SettingsNext
    BY <1>7, <1>10 DEF SettingsNext, SetSplit, SetPackage, SetLevelUnlock,
       SetComplianceConfig, SetPlatformToken, SetPaused
<1>11. CASE UNCHANGED vars
    BY <1>7, <1>11 DEF vars
<1> QED
    BY <1>8, <1>9, <1>10, <1>11 DEF Next

MoneyTypeOK == tokens \in 0 .. MaxSupply /\ paid \in Payment

\* No step changes what the contract holds, and what a step pays is well typed.
LEMMA MoneyStep ==
    ASSUME TypeOK, [Next]_vars
    PROVE  MoneyTypeOK' /\ held' = held
<1>1. ASSUME NEW us, NEW u \in Accounts, NEW p \in Packages,
             NEW pullUsdt \in BOOLEAN,
             TakePayment(us, u, terms[p].price, pullUsdt)
      PROVE  MoneyTypeOK' /\ held' = held
  <2>1. terms[p].price \in Nat
    BY DEF TypeOK, Terms
  <2> QED
    BY <1>1, <2>1, PaymentStep DEF MoneyTypeOK
<1>2. ASSUME UNCHANGED <<tokens, held>>, paid' = NoPayment \/ paid' = paid
      PROVE  MoneyTypeOK' /\ held' = held
    BY <1>2 DEF TypeOK, MoneyTypeOK, NoPayment, Payment
<1>3. CASE TreeNext
  <2>1. CASE \E u, s \in Accounts : Register(u, s)
    BY <1>2, <2>1 DEF Register
  <2>2. CASE \E u, s \in Accounts, p \in Packages, pullUsdt \in BOOLEAN :
                 RegisterAndActivate(u, s, p, pullUsdt)
    <3>1. PICK u \in Accounts, s \in Accounts, p \in Packages,
               pullUsdt \in BOOLEAN : RegisterAndActivate(u, s, p, pullUsdt)
      BY <2>2
    <3>2. \E us : TakePayment(us, u, terms[p].price, pullUsdt)
      BY <3>1, Zenon DEF RegisterAndActivate
    <3> QED
      BY <1>1, <3>2
  <2>3. CASE \E u \in Accounts, p \in Packages : Activate(u, p)
    <3>1. PICK u \in Accounts, p \in Packages : Activate(u, p)
      BY <2>3
    <3>2. TakePayment(users, u, terms[p].price, TRUE)
      BY <3>1 DEF Activate
    <3> QED
      BY <1>1, <3>2
  <2>4. CASE \E u \in Accounts, p \in Packages, pullUsdt \in BOOLEAN :
                 Upgrade(u, p, pullUsdt)
    <3>1. PICK u \in Accounts, p \in Packages, pullUsdt \in BOOLEAN :
              Upgrade(u, p, pullUsdt)
      BY <2>4
    <3>2. TakePayment(users, u, terms[p].price, pullUsdt)
      BY <3>1 DEF Upgrade
    <3> QED
      BY <1>1, <3>2
  <2> QED
    BY <1>3, <2>1, <2>2, <2>3, <2>4 DEF TreeNext
<1>4. CASE ActivityNext
    BY <1>2, <1>4 DEF ActivityNext, RecordVolume, DeactivateIfInactive,
       SetPermanentlyInactive, NextDay
<1>5. CASE SettingsNext
    BY <1>2, <1>5 DEF SettingsNext, SetSplit, SetPackage, SetLevelUnlock,
       SetComplianceConfig, SetPlatformToken, SetPaused
<1>6. CASE UNCHANGED vars
    BY <1>2, <1>6 DEF vars, moneyVars
<1> QED
    BY <1>3, <1>4, <1>5, <1>6 DEF Next

ActivityTypeOK ==
    /\ day \in Days
    /\ volume \in [Accounts -> [Days -> Nat]]
    /\ lastTradeDay \in [Accounts -> 0 .. MaxDay]

LEMMA ActivityStep ==
    ASSUME TypeOK, [Next]_vars
    PROVE  ActivityTypeOK'
<1>1. ASSUME UNCHANGED activityVars
      PROVE  ActivityTypeOK'
    BY <1>1 DEF TypeOK, activityVars, ActivityTypeOK
<1>2. ASSUME NEW u \in Accounts, NEW amount \in Volumes, RecordVolume(u, amount)
      PROVE  ActivityTypeOK'
  <2>1. day \in Days /\ day' = day /\ day \in 0 .. MaxDay
    BY <1>2, BoundsAssumption DEF TypeOK, RecordVolume, Days
  <2>2. volume[u] \in [Days -> Nat] /\ volume[u][day] + amount \in Nat
    BY <2>1, BoundsAssumption DEF TypeOK
  <2> DEFINE more == volume[u][day] + amount
  <2>3. volume' = [volume EXCEPT ![u] = [volume[u] EXCEPT ![day] = more]]
    BY <1>2 DEF RecordVolume
  <2> HIDE DEF more
  <2>4. volume' \in [Accounts -> [Days -> Nat]]
    BY <2>2, <2>3 DEF TypeOK, more
  <2>5. lastTradeDay' \in [Accounts -> 0 .. MaxDay]
    BY <1>2, <2>1 DEF TypeOK, RecordVolume
  <2> QED
    BY <2>1, <2>4, <2>5 DEF ActivityTypeOK
<1>3. CASE NextDay
    BY <1>3, BoundsAssumption DEF TypeOK, NextDay, ActivityTypeOK, Days
<1>4. CASE TreeNext
    BY <1>1, <1>4 DEF TreeNext, Register, RegisterAndActivate, Activate, Upgrade
<1>5. CASE ActivityNext
    BY <1>1, <1>2, <1>3, <1>5 DEF ActivityNext, DeactivateIfInactive,
       SetPermanentlyInactive
<1>6. CASE SettingsNext
    BY <1>1, <1>6 DEF SettingsNext, SetSplit, SetPackage, SetLevelUnlock,
       SetComplianceConfig, SetPlatformToken, SetPaused
<1>7. CASE UNCHANGED vars
    BY <1>1, <1>7 DEF vars
<1> QED
    BY <1>4, <1>5, <1>6, <1>7 DEF Next

SettingsTypeOK ==
    /\ terms \in [Packages -> Terms]
    /\ split \in Split /\ SplitTotal(split) = BPS
    /\ unlock \in [1 .. TopDirects -> Nat]
    /\ rules \in Rules
    /\ tokenOn \in BOOLEAN
    /\ paused \in BOOLEAN

LEMMA SettingsStep ==
    ASSUME TypeOK, [Next]_vars
    PROVE  SettingsTypeOK'
<1>0. SettingsTypeOK
    BY Zenon DEF TypeOK, SettingsTypeOK
<1>1. ASSUME UNCHANGED configVars
      PROVE  SettingsTypeOK'
    BY <1>0, <1>1, Zenon DEF configVars, SettingsTypeOK, SplitTotal
<1>2. ASSUME NEW s \in Splits, SetSplit(s)
      PROVE  SettingsTypeOK'
  <2>1. s \in Split
    BY SettingsAssumption
  <2> QED
    BY <1>0, <1>2, <2>1, Zenon DEF SetSplit, SettingsTypeOK, SplitTotal
<1>3. ASSUME NEW p \in Packages, NEW t \in TermsOnOffer, SetPackage(p, t)
      PROVE  SettingsTypeOK'
  <2>1. terms' \in [Packages -> Terms]
    BY <1>3, SettingsAssumption DEF TypeOK, SetPackage
  <2> QED
    BY <1>0, <1>3, <2>1, Zenon DEF SetPackage, SettingsTypeOK, SplitTotal
<1>4. ASSUME NEW directs \in 1 .. TopDirects, NEW levels \in UnlockLevels,
             SetLevelUnlock(directs, levels)
      PROVE  SettingsTypeOK'
  <2>1. unlock' \in [1 .. TopDirects -> Nat]
    BY <1>4, SettingsAssumption DEF TypeOK, SetLevelUnlock
  <2> QED
    BY <1>0, <1>4, <2>1, Zenon DEF SetLevelUnlock, SettingsTypeOK, SplitTotal
<1>5. ASSUME NEW r \in RulesOnOffer, SetComplianceConfig(r)
      PROVE  SettingsTypeOK'
  <2>1. rules' \in Rules
    BY <1>5, SettingsAssumption DEF SetComplianceConfig
  <2> QED
    BY <1>0, <1>5, <2>1, Zenon DEF SetComplianceConfig, SettingsTypeOK,
       SplitTotal
<1>6. ASSUME NEW value \in BOOLEAN, SetPlatformToken(value) \/ SetPaused(value)
      PROVE  SettingsTypeOK'
    BY <1>0, <1>6, Zenon DEF SetPlatformToken, SetPaused, SettingsTypeOK,
       SplitTotal
<1>7. CASE TreeNext
    BY <1>1, <1>7, Zenon DEF TreeNext, Register, RegisterAndActivate, Activate,
       Upgrade
<1>8. CASE ActivityNext
    BY <1>1, <1>8, Zenon DEF ActivityNext, RecordVolume, DeactivateIfInactive,
       SetPermanentlyInactive, NextDay, configVars
<1>9. CASE SettingsNext
    BY <1>2, <1>3, <1>4, <1>5, <1>6, <1>9, Zenon DEF SettingsNext
<1>10. CASE UNCHANGED vars
    BY <1>1, <1>10, Zenon DEF vars
<1> QED
    BY <1>7, <1>8, <1>9, <1>10 DEF Next

LEMMA TypeOfParts ==
    ASSUME TreeTypeOK, MoneyTypeOK, ActivityTypeOK, SettingsTypeOK, held \in Int
    PROVE  TypeOK
    BY Zenon DEF TypeOK, TreeTypeOK, MoneyTypeOK, ActivityTypeOK, SettingsTypeOK

(***************************************************************************)
(* The theorems.                                                           *)
(***************************************************************************)

RegistrationInv == TypeOK /\ TreeInv /\ held = 0

LEMMA RegistrationInit == Init => RegistrationInv
<1> SUFFICES ASSUME Init PROVE RegistrationInv
    OBVIOUS
<1>1. \A a \in Accounts : users[a] = Newcomer(a = Root, NoOne)
    BY DEF Init
<1>2. \A a \in Accounts : Newcomer(a = Root, NoOne) \in User
    BY BoundsAssumption DEF Newcomer, User
<1>3. TreeTypeOK
    BY <1>2 DEF Init, TreeTypeOK
<1>4. MoneyTypeOK /\ held = 0 /\ held \in Int
    BY BoundsAssumption DEF Init, MoneyTypeOK, NoPayment, Payment
<1>5. ActivityTypeOK
    BY BoundsAssumption DEF Init, ActivityTypeOK, Days
<1>6. SettingsTypeOK
    BY SettingsAssumption, Zenon DEF Init, SettingsTypeOK, SplitTotal
<1>7. \A a \in Accounts : users[a].sponsor = NoOne /\ users[a].directs = 0
  <2>1. \A v : /\ Newcomer(v, NoOne).sponsor = NoOne
               /\ Newcomer(v, NoOne).directs = 0
    BY DEF Newcomer
  <2> QED
    BY <1>1, <2>1, Zenon
<1>8. \A a \in Accounts : users[a].registered <=> a = Root
  <2>1. \A v : Newcomer(v, NoOne).registered = v
    BY DEF Newcomer
  <2> QED
    BY <1>1, <2>1, Zenon
<1>9. Rooted(users) /\ Acyclic(users)
  <2>1. MembersOf(users) = {}
    BY <1>8 DEF MembersOf
  <2>2. users[Root].registered
    BY <1>8, AccountsAssumption
  <2> QED
    BY <1>7, <2>1, <2>2, AccountsAssumption DEF Rooted, Acyclic
<1>10. Counted(users, referrals)
  <2> SUFFICES ASSUME NEW a \in Accounts
               PROVE  CountedAt(users, referrals, a)
      BY DEF Counted
  <2>1. DirectsOf(users, a) = {}
    BY <1>7, AccountsAssumption DEF DirectsOf
  <2>2. Len(referrals[a]) = 0
    BY DEF Init
  <2> QED
    BY <1>7, <2>1, <2>2, FS_EmptySet DEF CountedAt
<1> QED
    BY <1>3, <1>4, <1>5, <1>6, <1>9, <1>10, TypeOfParts
    DEF RegistrationInv, TreeInv

LEMMA RegistrationInvStep == RegistrationInv /\ [Next]_vars => RegistrationInv'
<1> SUFFICES ASSUME RegistrationInv, [Next]_vars PROVE RegistrationInv'
    OBVIOUS
<1>1. TypeOK /\ TreeInv /\ held = 0
    BY DEF RegistrationInv
<1>2. TreeTypeOK' /\ TreeInv'
    BY <1>1, TreeStep
<1>3. MoneyTypeOK' /\ held' = 0 /\ held' \in Int
    BY <1>1, MoneyStep
<1>4. ActivityTypeOK' /\ SettingsTypeOK'
    BY <1>1, ActivityStep, SettingsStep
<1>5. TypeOK'
    BY <1>2, <1>3, <1>4, Zenon
    DEF TypeOK, TreeTypeOK, MoneyTypeOK, ActivityTypeOK, SettingsTypeOK
<1> QED
    BY <1>2, <1>3, <1>5 DEF RegistrationInv

LEMMA RegistrationInvariant == Spec => []RegistrationInv
    BY RegistrationInit, RegistrationInvStep, PTL DEF Spec

\* Every reachable state is well typed: the split always sums to the whole, the
\* token's treasury is never overdrawn, and directs never go negative.
THEOREM RegistrationTypeCorrect == Spec => []TypeOK
<1>1. RegistrationInv => TypeOK
    BY DEF RegistrationInv
<1> QED
    BY <1>1, RegistrationInvariant, PTL

\* The sponsors form a tree, for any finite set of accounts and any order of
\* registrations: no chain of sponsors comes back on itself.
THEOREM SponsorsFormTree == Spec => []SponsorTree
<1>1. RegistrationInv => SponsorTree
    BY TreeImpliesSponsorTree DEF RegistrationInv, TreeInv
<1> QED
    BY <1>1, RegistrationInvariant, PTL

\* directCount is the number of users sponsored and the length of the referral
\* list, which holds each of them.
THEOREM DirectsAreCounted == Spec => []DirectsCounted
<1>1. RegistrationInv => DirectsCounted
    BY CountedImpliesDirectsCounted DEF RegistrationInv, TreeInv
<1> QED
    BY <1>1, RegistrationInvariant, PTL

\* No activation or upgrade leaves USDT in the contract, for any price, split,
\* unlock table and tree.
THEOREM ActivationRetainsNothing == Spec => []NothingHeld
<1>1. RegistrationInv => NothingHeld
    BY DEF RegistrationInv, NothingHeld
<1> QED
    BY <1>1, RegistrationInvariant, PTL

(***************************************************************************)
(* Inactivity.  An account activates once and trades only afterwards, so   *)
(* that its last trade, if it has one, is no earlier than its activation:  *)
(* DaysSinceLastTrade looks at the later of the two.                       *)
(***************************************************************************)

ActivityOf(u) ==
    /\ users[u].activatedAt \in 0 .. day
    /\ lastTradeDay[u] \in 0 .. day
    /\ users[u].activated => users[u].registered
    /\ ~users[u].activated => /\ users[u].activatedAt = 0 /\ lastTradeDay[u] = 0
                              /\ users[u].limit = 0
    /\ lastTradeDay[u] # 0 => users[u].activatedAt <= lastTradeDay[u]

ActivityInv == \A u \in Accounts : ActivityOf(u)

\* A step that leaves alone the trades, the day and what the mapping says of
\* activations keeps the invariant.
LEMMA ActivityKept ==
    ASSUME ActivityInv, UNCHANGED activityVars,
           \A u \in Accounts :
               /\ users'[u].activated = users[u].activated
               /\ users'[u].activatedAt = users[u].activatedAt
               /\ users[u].registered => users'[u].registered
               /\ ~users[u].activated => users'[u].limit = users[u].limit
    PROVE  ActivityInv'
<1> SUFFICES ASSUME NEW u \in Accounts PROVE ActivityOf(u)'
    BY DEF ActivityInv
<1>1. ActivityOf(u)
    BY DEF ActivityInv
<1>2. /\ users'[u].activated = users[u].activated
      /\ users'[u].activatedAt = users[u].activatedAt
      /\ users[u].registered => users'[u].registered
      /\ ~users[u].activated => users'[u].limit = users[u].limit
    OBVIOUS
<1> QED
    BY <1>1, <1>2 DEF ActivityOf, activityVars

\* Registering an account that is not registered says nothing of activations.
LEMMA RegisteredActivity ==
    ASSUME TypeOK, ActivityInv, NEW u \in Accounts, NEW s \in Accounts,
           CanRegister(users, u, s), NEW vs, vs = WithRegistered(users, u, s),
           NEW v \in Accounts
    PROVE  /\ vs[v].activated = users[v].activated
           /\ vs[v].activatedAt = users[v].activatedAt
           /\ users[v].registered => vs[v].registered
           /\ ~users[v].activated => vs[v].limit = users[v].limit
<1>1. users \in [Accounts -> User]
    BY DEF TypeOK
<1>2. ~users[u].activated /\ users[u].activatedAt = 0 /\ users[u].limit = 0 /\ s # u
    BY DEF ActivityInv, ActivityOf, CanRegister
<1>3. users[v] \in User
    BY <1>1
<1>4. CASE v = u
    <2>1. vs[u] = Newcomer(TRUE, s)
        BY <1>1, <1>2 DEF WithRegistered
    <2>2. /\ vs[u].activated = FALSE /\ vs[u].activatedAt = 0
          /\ vs[u].registered = TRUE /\ vs[u].limit = 0
        BY <2>1 DEF Newcomer
    <2>3. users[v].activated \in BOOLEAN
        BY <1>3 DEF User
    <2>4. users[v].activated = FALSE
        BY <1>2, <1>4, <2>3, Zenon
    <2> QED
        BY <1>2, <1>4, <2>2, <2>4
<1>5. CASE v = s
    <2>1. vs[s] = [users[s] EXCEPT !.directs = @ + 1]
        BY <1>1, <1>2 DEF WithRegistered
    <2> QED
        BY <1>3, <1>5, <2>1 DEF User
<1>6. CASE v # u /\ v # s
    <2>1. vs[v] = users[v]
        BY <1>1, <1>6 DEF WithRegistered
    <2> QED
        BY <2>1
<1> QED
    BY <1>4, <1>5, <1>6

\* An activation happens today, to an account that has not traded.
LEMMA ActivatedActivity ==
    ASSUME TypeOK, ActivityInv, UNCHANGED activityVars, NEW us \in [Accounts -> User],
           \A v \in Accounts :
               /\ us[v].activated = users[v].activated
               /\ us[v].activatedAt = users[v].activatedAt
               /\ users[v].registered => us[v].registered
               /\ ~users[v].activated => us[v].limit = users[v].limit,
           NEW u \in Accounts, NEW p \in Packages,
           CanActivate(us, u, p), users' = WithActivated(us, u, p)
    PROVE  ActivityInv'
<1> SUFFICES ASSUME NEW v \in Accounts PROVE ActivityOf(v)'
    BY DEF ActivityInv
<1>1. ActivityOf(v)
    BY DEF ActivityInv
<1>2. day' = day /\ lastTradeDay' = lastTradeDay /\ day \in Days /\ day \in Nat
    BY BoundsAssumption DEF activityVars, TypeOK, Days
<1>3. us[v] \in User
    OBVIOUS
<1>4. CASE v = u
    <2>1. users'[v] = [us[v] EXCEPT !.activated = TRUE, !.package = p,
                                    !.limit = terms[p].limit, !.activatedAt = day]
        BY <1>4 DEF WithActivated
    <2>2. /\ users'[v].activatedAt = day
          /\ users'[v].activated
          /\ users'[v].registered = us[v].registered
        BY <1>3, <2>1 DEF User
    <2>3. us[v].registered /\ ~users[v].activated
        BY <1>4 DEF CanActivate
    <2>4. lastTradeDay[v] = 0
        BY <1>1, <2>3 DEF ActivityOf
    <2> QED
        BY <1>1, <1>2, <2>2, <2>3, <2>4 DEF ActivityOf
<1>5. CASE v # u
    <2>1. users'[v] = us[v]
        BY <1>5 DEF WithActivated
    <2> QED
        BY <1>1, <1>2, <2>1 DEF ActivityOf
<1> QED
    BY <1>4, <1>5

LEMMA ActivityStepKept ==
    ASSUME TypeOK, ActivityInv, [Next]_vars
    PROVE  ActivityInv'
<1>0. users \in [Accounts -> User] /\ day \in Days /\ MaxDay \in Nat
    BY BoundsAssumption DEF TypeOK
<1>1. ASSUME NEW u \in Accounts, NEW s \in Accounts, Register(u, s)
      PROVE  ActivityInv'
    <2>1. CanRegister(users, u, s) /\ users' = WithRegistered(users, u, s)
        BY <1>1 DEF Register
    <2>2. UNCHANGED activityVars
        BY <1>1 DEF Register
    <2> QED
        BY <2>1, <2>2, RegisteredActivity, ActivityKept
<1>2. ASSUME NEW u \in Accounts, NEW s \in Accounts, NEW p \in Packages,
             NEW pullUsdt \in BOOLEAN, RegisterAndActivate(u, s, p, pullUsdt)
      PROVE  ActivityInv'
    <2>1. CASE users[u].registered
        <3>1. CanActivate(users, u, p) /\ users' = WithActivated(users, u, p)
            BY <1>2, <2>1 DEF RegisterAndActivate
        <3>2. UNCHANGED activityVars
            BY <1>2 DEF RegisterAndActivate
        <3> QED
            BY <1>0, <3>1, <3>2, ActivatedActivity
    <2>2. CASE ~users[u].registered
        <3> DEFINE us == WithRegistered(users, u, s)
        <3>1. /\ CanRegister(users, u, s)
              /\ CanActivate(us, u, p) /\ users' = WithActivated(us, u, p)
            BY <1>2, <2>2 DEF RegisterAndActivate
        <3>2. UNCHANGED activityVars
            BY <1>2 DEF RegisterAndActivate
        <3>3. us \in [Accounts -> User]
            BY <1>0, <3>1, RegisteredEffect
        <3>4. \A v \in Accounts :
                 /\ us[v].activated = users[v].activated
                 /\ us[v].activatedAt = users[v].activatedAt
                 /\ users[v].registered => us[v].registered
                 /\ ~users[v].activated => us[v].limit = users[v].limit
            BY <3>1, RegisteredActivity
        <3> HIDE DEF us
        <3> QED
            BY <3>1, <3>2, <3>3, <3>4, ActivatedActivity
    <2> QED
        BY <2>1, <2>2
<1>3. ASSUME NEW u \in Accounts, NEW p \in Packages, Activate(u, p)
      PROVE  ActivityInv'
    <2>1. CanActivate(users, u, p) /\ users' = WithActivated(users, u, p)
        BY <1>3 DEF Activate
    <2>2. UNCHANGED activityVars
        BY <1>3 DEF Activate
    <2> QED
        BY <1>0, <2>1, <2>2, ActivatedActivity
<1>4. ASSUME NEW u \in Accounts, NEW p \in Packages, NEW pullUsdt \in BOOLEAN,
             Upgrade(u, p, pullUsdt)
      PROVE  ActivityInv'
    <2>1. users' = WithUpgraded(u, p) /\ UNCHANGED activityVars
        BY <1>4 DEF Upgrade
    <2>2. ASSUME NEW v \in Accounts
          PROVE  /\ users'[v].activated = users[v].activated
                 /\ users'[v].activatedAt = users[v].activatedAt
                 /\ users[v].registered => users'[v].registered
                 /\ ~users[v].activated => users'[v].limit = users[v].limit
        <3>1. users[v] \in User
            BY <1>0
        <3>2. \/ users'[v] = users[v]
              \/ /\ v = u
                 /\ users'[v] = [users[v] EXCEPT !.package = p, !.limit = terms[p].limit]
            BY <1>0, <2>1 DEF WithUpgraded
        <3>3. users[u].activated
            BY <1>4 DEF Upgrade, CanUpgrade
        <3> QED
            BY <3>1, <3>2, <3>3 DEF User
    <2> QED
        BY <2>1, <2>2, ActivityKept
<1>5. ASSUME NEW u \in Accounts, NEW amount \in Volumes, RecordVolume(u, amount)
      PROVE  ActivityInv'
    <2>1. /\ users[u].activated /\ UNCHANGED <<users, day>>
          /\ lastTradeDay' = [lastTradeDay EXCEPT ![u] = day]
        BY <1>5 DEF RecordVolume, treeVars
    <2>2. lastTradeDay \in [Accounts -> 0 .. MaxDay]
        BY DEF TypeOK
    <2> SUFFICES ASSUME NEW v \in Accounts PROVE ActivityOf(v)'
        BY DEF ActivityInv
    <2>3. ActivityOf(v)
        BY DEF ActivityInv
    <2>4. lastTradeDay'[v] = IF v = u THEN day ELSE lastTradeDay[v]
        BY <2>1, <2>2
    <2> QED
        BY <1>0, <2>1, <2>3, <2>4 DEF ActivityOf, Days
<1>6. ASSUME NEW u \in Accounts, NEW value \in BOOLEAN,
             users' = [users EXCEPT ![u] = [@ EXCEPT !.inactive = value]],
             UNCHANGED activityVars
      PROVE  ActivityInv'
    <2>1. ASSUME NEW v \in Accounts
          PROVE  /\ users'[v].activated = users[v].activated
                 /\ users'[v].activatedAt = users[v].activatedAt
                 /\ users[v].registered => users'[v].registered
                 /\ ~users[v].activated => users'[v].limit = users[v].limit
        <3>1. users[v] \in User
            BY <1>0
        <3>2. \/ users'[v] = users[v]
              \/ users'[v] = [users[v] EXCEPT !.inactive = value]
            BY <1>0, <1>6
        <3> QED
            BY <3>1, <3>2 DEF User
    <2> QED
        BY <1>6, <2>1, ActivityKept
<1>7. ASSUME NEW u \in Accounts, DeactivateIfInactive(u) PROVE ActivityInv'
    BY <1>6, <1>7 DEF DeactivateIfInactive
<1>8. ASSUME NEW u \in Accounts, NEW value \in BOOLEAN, SetPermanentlyInactive(u, value)
      PROVE  ActivityInv'
    BY <1>6, <1>8 DEF SetPermanentlyInactive
<1>9. CASE NextDay
    <2>1. day' = day + 1 /\ UNCHANGED <<users, lastTradeDay>>
        BY <1>9 DEF NextDay, treeVars
    <2> SUFFICES ASSUME NEW v \in Accounts PROVE ActivityOf(v)'
        BY DEF ActivityInv
    <2>2. ActivityOf(v)
        BY DEF ActivityInv
    <2> QED
        BY <1>0, <2>1, <2>2 DEF ActivityOf, Days
<1>10. CASE SettingsNext \/ UNCHANGED vars
    <2>1. UNCHANGED <<users, activityVars>>
        BY <1>10 DEF SettingsNext, SetSplit, SetPackage, SetLevelUnlock,
           SetComplianceConfig, SetPlatformToken, SetPaused, treeVars, vars
    <2> QED
        BY <2>1, ActivityKept
<1> QED
    BY <1>1, <1>2, <1>3, <1>4, <1>5, <1>7, <1>8, <1>9, <1>10
    DEF Next, TreeNext, ActivityNext

LEMMA ActivityInvariant == Spec => [](TypeOK /\ ActivityInv)
<1>1. Init => ActivityInv
    BY DEF Init, ActivityInv, ActivityOf, Newcomer
<1>2. TypeOK /\ ActivityInv /\ [Next]_vars => ActivityInv'
    BY ActivityStepKept
<1> QED
    BY <1>1, <1>2, RegistrationTypeCorrect, PTL DEF Spec

\* The public deactivateIfInactive never strikes an account that traded, or
\* activated, less than inactiveDays ago, for any rules that the owner sets.
THEOREM TradersStayActive == Spec => RecentTradeProtects
<1>1. ASSUME TypeOK, ActivityInv
      PROVE  [\A u \in Accounts :
                 DeactivateIfInactive(u) =>
                     /\ day - users[u].activatedAt >= rules.inactiveDays
                     /\ day - lastTradeDay[u] >= rules.inactiveDays]_vars
    <2> SUFFICES ASSUME NEW u \in Accounts, DeactivateIfInactive(u)
                 PROVE  /\ day - users[u].activatedAt >= rules.inactiveDays
                        /\ day - lastTradeDay[u] >= rules.inactiveDays
        OBVIOUS
    <2>1. DaysSinceLastTrade(u) >= rules.inactiveDays
        BY DEF DeactivateIfInactive, ShouldDeactivate
    <2>2. /\ day \in Nat /\ users[u].activatedAt \in Nat
          /\ lastTradeDay[u] \in Nat /\ rules.inactiveDays \in Nat
        BY <1>1, BoundsAssumption DEF TypeOK, User, Days, Rules
    <2>3. ActivityOf(u)
        BY <1>1 DEF ActivityInv
    <2> QED
        BY <2>1, <2>2, <2>3 DEF ActivityOf, DaysSinceLastTrade
<1> QED
    BY <1>1, ActivityInvariant, PTL DEF Spec, RecentTradeProtects

(***************************************************************************)
(* The escrow of incomes.                                                  *)
(***************************************************************************)

Owed == [u \in Accounts |-> SumOver(Days, pending[u])]

EscrowInv ==
    /\ pending \in [Accounts -> [Days -> Nat]]
    /\ day \in Days
    /\ escrow = SumOver(Accounts, Owed)

LEMMA DaysFinite == IsFiniteSet(Days)
    BY FS_Interval, BoundsAssumption DEF Days

LEMMA OwedNat ==
    ASSUME pending \in [Accounts -> [Days -> Nat]], NEW u \in Accounts
    PROVE  Owed[u] \in Nat
<1>1. \A d \in Days : pending[u][d] \in Nat
    OBVIOUS
<1>2. SumOver(Days, pending[u]) \in Nat
    BY <1>1, DaysFinite, SumNat
<1> QED
    BY <1>2 DEF Owed

\* What is owed changes by what one pending income of one user changes.
LEMMA OwedChange ==
    ASSUME EscrowInv, NEW u \in Accounts, NEW d \in Days, NEW amount \in Nat,
           pending' = [pending EXCEPT ![u][d] = amount],
           escrow' = escrow + amount - pending[u][d], day' \in Days
    PROVE  EscrowInv'
<1>1. pending \in [Accounts -> [Days -> Nat]] /\ pending[u] \in [Days -> Nat]
    BY DEF EscrowInv
<1>2. pending' \in [Accounts -> [Days -> Nat]]
    BY <1>1
<1>3. pending'[u] = [pending[u] EXCEPT ![d] = amount]
    BY <1>1
<1> DEFINE f == pending[u]
           g == pending'[u]
<1>4. /\ \A x \in Days : f[x] \in Int
      /\ g[d] = amount /\ g[d] \in Int
      /\ \A x \in Days \ {d} : g[x] = f[x]
    BY <1>1, <1>3
<1> HIDE DEF f, g
<1>5. SumOver(Days, g) = SumOver(Days, f) + g[d] - f[d]
    BY <1>4, DaysFinite, SumChange
<1>6. Owed[u] = SumOver(Days, f) /\ Owed'[u] = SumOver(Days, g)
    BY DEF Owed, f, g
<1>7. \A v \in Accounts : Owed[v] \in Int
    BY <1>1, OwedNat
<1>8. \A v \in Accounts \ {u} : Owed'[v] = Owed[v]
    BY <1>1 DEF Owed
<1>9. Owed'[u] = Owed[u] + amount - pending[u][d] /\ pending[u][d] \in Nat
    BY <1>1, <1>4, <1>5, <1>6 DEF f
<1>10. Owed'[u] \in Int
    BY <1>7, <1>9
<1>11. SumOver(Accounts, Owed') = SumOver(Accounts, Owed) + Owed'[u] - Owed[u]
    <2>1. PICK a, b : a = Owed /\ b = Owed'
        OBVIOUS
    <2>2. /\ \A v \in Accounts : a[v] \in Int
          /\ \A v \in Accounts \ {u} : b[v] = a[v]
          /\ b[u] \in Int
        BY <1>7, <1>8, <1>10, <2>1
    <2>3. SumOver(Accounts, b) = SumOver(Accounts, a) + b[u] - a[u]
        BY <2>2, AccountsAssumption, SumChange
    <2> QED
        BY <2>1, <2>3
<1>12. escrow = SumOver(Accounts, Owed) /\ SumOver(Accounts, Owed) \in Int
    BY <1>7, AccountsAssumption, SumInt DEF EscrowInv
<1>13. escrow' = SumOver(Accounts, Owed')
    BY <1>7, <1>9, <1>11, <1>12
<1> QED
    BY <1>2, <1>13 DEF EscrowInv

LEMMA DayKept ==
    ASSUME day \in Days, [Next]_vars
    PROVE  day' \in Days
<1>1. day' = day \/ NextDay
    BY DEF Next, TreeNext, ActivityNext, SettingsNext, Register, RegisterAndActivate,
       Activate, Upgrade, RecordVolume, DeactivateIfInactive, SetPermanentlyInactive,
       SetSplit, SetPackage, SetLevelUnlock, SetComplianceConfig, SetPlatformToken,
       SetPaused, activityVars, vars
<1> QED
    BY <1>1, BoundsAssumption DEF NextDay, Days

LEMMA EscrowStep == EscrowInv /\ [RewardsNext]_allVars => EscrowInv'
<1> SUFFICES ASSUME EscrowInv, [RewardsNext]_allVars PROVE EscrowInv'
    OBVIOUS
<1>0. pending \in [Accounts -> [Days -> Nat]] /\ day \in Days
    BY DEF EscrowInv
<1>1. CASE MembersStep \/ UNCHANGED allVars
    <2>1. UNCHANGED <<pending, escrow>> /\ [Next]_vars
        BY <1>1 DEF MembersStep, allVars, rewardsVars
    <2>2. day' \in Days
        BY <1>0, <2>1, DayKept
    <2> QED
        BY <2>1, <2>2 DEF EscrowInv, Owed
<1>2. ASSUME NEW u \in Accounts, NEW amount \in Credits, CreditIncome(u, amount)
      PROVE  EscrowInv'
    <2> DEFINE new == pending[u][day] + amount
    <2>1. amount \in Nat /\ pending[u][day] \in Nat /\ new \in Nat
        BY <1>0, CreditsAssumption
    <2>2. pending' = [pending EXCEPT ![u][day] = new] /\ escrow' = escrow + amount
          /\ day' = day
        BY <1>2 DEF CreditIncome, vars, activityVars
    <2>3. escrow \in Int
        BY <1>0, OwedNat, AccountsAssumption, SumInt DEF EscrowInv
    <2>4. escrow' = escrow + new - pending[u][day]
        BY <2>1, <2>2, <2>3
    <2> HIDE DEF new
    <2> QED
        BY <1>0, <2>1, <2>2, <2>4, OwedChange
<1>3. ASSUME NEW u \in Accounts, NEW d \in Days, NEW result, Settled(u, d, result)
      PROVE  EscrowInv'
    <2>1. /\ pending' = [pending EXCEPT ![u][d] = 0]
          /\ escrow' = escrow - pending[u][d] /\ day' = day
        BY <1>3 DEF Settled, vars, activityVars
    <2>2. escrow \in Int /\ pending[u][d] \in Nat
        BY <1>0, OwedNat, AccountsAssumption, SumInt DEF EscrowInv
    <2>3. escrow' = escrow + 0 - pending[u][d]
        BY <2>1, <2>2
    <2> QED
        BY <1>0, <2>1, <2>3, OwedChange
<1> QED
    BY <1>1, <1>2, <1>3 DEF RewardsNext, Release, BurnMissed

LEMMA EscrowInit == RewardsInit => EscrowInv
<1> SUFFICES ASSUME RewardsInit PROVE EscrowInv
    OBVIOUS
<1>1. /\ pending = [u \in Accounts |-> [d \in Days |-> 0]] /\ escrow = 0
      /\ day = 1 /\ 1 \in Days
    BY BoundsAssumption DEF RewardsInit, Init, Days
<1>2. \A u \in Accounts : Owed[u] = 0
    <2> SUFFICES ASSUME NEW u \in Accounts PROVE SumOver(Days, pending[u]) = 0
        BY DEF Owed
    <2>1. \A d \in Days : pending[u][d] = 0
        BY <1>1
    <2> QED
        BY <2>1, DaysFinite, SumZero
<1>3. SumOver(Accounts, Owed) = 0
    BY <1>2, AccountsAssumption, SumZero
<1> QED
    BY <1>1, <1>3 DEF EscrowInv

\* The escrow holds exactly what it owes, for any number of accounts and days
\* and any order of credits, claims, settlements and burns.
THEOREM EscrowAlwaysSolvent == RewardsSpec => []EscrowSolvent
<1>1. EscrowInv => EscrowSolvent
    BY DEF EscrowInv, EscrowSolvent, Owed
<1> QED
    BY <1>1, EscrowInit, EscrowStep, PTL DEF RewardsSpec

(***************************************************************************)
(* Ended days.  What makes a day compliant is read when the income is      *)
(* settled: the user's limit and the ratio in force then.                  *)
(***************************************************************************)

\* What was noted as a day ended is what isCompliant still says of it, unless the
\* user's required volume has changed since.
DaysMet ==
    /\ \A u \in Accounts : met[u] \subseteq PastDays
    /\ \A u \in Accounts : \A d \in PastDays :
           d \notin regraded[u] => (d \in met[u] <=> IsCompliant(u, d))

\* The volumes of the days that have ended are final, and days go forward.
LEMMA PastVolumes ==
    ASSUME TypeOK, [Next]_vars
    PROVE  /\ \A u \in Accounts : \A d \in Days : d # day => volume'[u][d] = volume[u][d]
           /\ day' # day => /\ day' = day + 1 /\ volume' = volume
                             /\ users' = users /\ rules' = rules
<1>1. \/ UNCHANGED activityVars
      \/ NextDay
      \/ \E u \in Accounts, amount \in Volumes : RecordVolume(u, amount)
    BY DEF Next, TreeNext, ActivityNext, SettingsNext, Register, RegisterAndActivate,
       Activate, Upgrade, DeactivateIfInactive, SetPermanentlyInactive,
       SetSplit, SetPackage, SetLevelUnlock, SetComplianceConfig, SetPlatformToken,
       SetPaused, vars
<1>2. CASE UNCHANGED activityVars
    BY <1>2 DEF activityVars
<1>3. CASE NextDay
    BY <1>3 DEF NextDay, treeVars, configVars
<1>4. ASSUME NEW u \in Accounts, NEW amount \in Volumes, RecordVolume(u, amount)
      PROVE  /\ \A v \in Accounts : \A d \in Days : d # day => volume'[v][d] = volume[v][d]
             /\ day' = day
    <2>1. volume \in [Accounts -> [Days -> Nat]]
        BY DEF TypeOK
    <2>2. /\ volume' = [volume EXCEPT ![u][day] = @ + amount] /\ day' = day
        BY <1>4 DEF RecordVolume
    <2> QED
        BY <2>1, <2>2
<1> QED
    BY <1>1, <1>2, <1>3, <1>4

MetInv ==
    /\ met \in [Accounts -> SUBSET Days]
    /\ regraded \in [Accounts -> SUBSET Days]
    /\ outcome \in [Accounts -> [Days -> {Open, Claimed, Burned}]]
    /\ DaysMet

\* A day that ends now is noted by the requirement of now; an earlier one is
\* either judged as before or regraded.
LEMMA MembersStepMet ==
    ASSUME TypeOK, MetInv, MembersStep
    PROVE  MetInv'
<1>1. /\ Next /\ UNCHANGED outcome
      /\ met' = IF day' = day THEN met
                ELSE [u \in Accounts |-> IF IsCompliant(u, day)
                                         THEN met[u] \cup {day} ELSE met[u]]
      /\ regraded' = [u \in Accounts |->
             IF RequiredDailyVolume(u)' = RequiredDailyVolume(u) THEN regraded[u]
             ELSE PastDays]
    BY DEF MembersStep
<1>2. /\ met \in [Accounts -> SUBSET Days] /\ regraded \in [Accounts -> SUBSET Days]
      /\ day \in Days /\ MaxDay \in Nat
    BY BoundsAssumption DEF MetInv, TypeOK
<1>3. PastDays \subseteq Days
    BY DEF PastDays
<1>4. met' \in [Accounts -> SUBSET Days]
    BY <1>1, <1>2
<1>5. regraded' \in [Accounts -> SUBSET Days]
    BY <1>1, <1>2, <1>3
<1>6. /\ day' # day => /\ day' = day + 1 /\ volume' = volume
                       /\ users' = users /\ rules' = rules
      /\ \A u \in Accounts : \A e \in Days : e # day => volume'[u][e] = volume[u][e]
    BY <1>1, PastVolumes
<1>7. PastDays \subseteq PastDays'
    <2>1. day' = day \/ day' = day + 1
        BY <1>6
    <2> QED
        BY <1>2, <2>1 DEF PastDays, Days
<1>8. ASSUME NEW u \in Accounts PROVE met'[u] \subseteq PastDays'
    <2>1. met[u] \subseteq PastDays
        BY DEF MetInv, DaysMet
    <2>2. CASE day' = day
        BY <1>1, <1>7, <2>1, <2>2
    <2>3. CASE day' # day
        <3>1. met'[u] \subseteq met[u] \cup {day}
            BY <1>1, <2>3
        <3>2. day \in PastDays'
            BY <1>2, <1>6, <2>3 DEF PastDays, Days
        <3> QED
            BY <1>7, <2>1, <3>1, <3>2
    <2> QED
        BY <2>2, <2>3
<1>9. ASSUME NEW u \in Accounts, NEW d \in PastDays', d \notin regraded'[u]
      PROVE  d \in met'[u] <=> IsCompliant(u, d)'
    <2>1. d \in Days /\ d < day'
        BY <1>9 DEF PastDays
    <2>2. CASE d \in PastDays
        <3>1. d # day
            BY <1>2, <2>2 DEF PastDays, Days
        <3>2. RequiredDailyVolume(u)' = RequiredDailyVolume(u) /\ d \notin regraded[u]
            BY <1>1, <1>9, <2>2
        <3>3. d \in met[u] <=> IsCompliant(u, d)
            BY <2>2, <3>2 DEF MetInv, DaysMet
        <3>4. volume'[u][d] = volume[u][d]
            BY <1>6, <2>1, <3>1
        <3>5. IsCompliant(u, d)' <=> IsCompliant(u, d)
            BY <3>2, <3>4 DEF IsCompliant
        <3>6. d \in met'[u] <=> d \in met[u]
            BY <1>1, <3>1
        <3> QED
            BY <3>3, <3>5, <3>6
    <2>3. CASE d \notin PastDays
        <3>1. d = day /\ day' # day
            <4>1. ~(d < day)
                BY <2>1, <2>3 DEF PastDays
            <4>2. day' = day \/ day' = day + 1
                BY <1>6
            <4> QED
                BY <1>2, <2>1, <4>1, <4>2 DEF Days
        <3>2. /\ volume' = volume /\ users' = users /\ rules' = rules
            BY <1>6, <3>1
        <3>3. IsCompliant(u, d)' <=> IsCompliant(u, d)
            BY <3>2 DEF IsCompliant, RequiredDailyVolume
        <3>4. day \notin met[u]
            <4>1. met[u] \subseteq PastDays
                BY DEF MetInv, DaysMet
            <4> QED
                BY <2>3, <3>1, <4>1
        <3>5. d \in met'[u] <=> IsCompliant(u, day)
            BY <1>1, <3>1, <3>4
        <3> QED
            BY <3>1, <3>3, <3>5
    <2> QED
        BY <2>2, <2>3
<1> QED
    BY <1>1, <1>4, <1>5, <1>8, <1>9 DEF MetInv, DaysMet

LEMMA MetStep ==
    ASSUME TypeOK, MetInv, [RewardsNext]_allVars
    PROVE  MetInv'
<1>1. CASE MembersStep
    BY <1>1, MembersStepMet
<1>2. ASSUME UNCHANGED <<vars, historyVars>>,
             outcome' \in [Accounts -> [Days -> {Open, Claimed, Burned}]]
      PROVE  MetInv'
    <2>1. /\ users' = users /\ rules' = rules /\ volume' = volume /\ day' = day
          /\ met' = met /\ regraded' = regraded
        BY <1>2 DEF vars, treeVars, configVars, activityVars, historyVars
    <2>2. DaysMet <=> DaysMet'
        BY <2>1 DEF DaysMet, PastDays, IsCompliant, RequiredDailyVolume
    <2> QED
        BY <1>2, <2>1, <2>2 DEF MetInv
<1>3. ASSUME NEW u \in Accounts, NEW amount \in Credits, CreditIncome(u, amount)
      PROVE  MetInv'
    BY <1>2, <1>3 DEF CreditIncome, MetInv
<1>4. ASSUME NEW u \in Accounts, NEW d \in Days, NEW result \in {Claimed, Burned},
             Settled(u, d, result)
      PROVE  MetInv'
    BY <1>2, <1>4 DEF Settled, MetInv
<1>5. CASE UNCHANGED allVars
    BY <1>2, <1>5 DEF allVars, rewardsVars, MetInv
<1> QED
    BY <1>1, <1>3, <1>4, <1>5 DEF RewardsNext, Release, BurnMissed

\* The steps of the escrow are steps of Registration, or leave it alone.
LEMMA RewardsRefineMembers == [RewardsNext]_allVars => [Next]_vars
    BY DEF RewardsNext, MembersStep, CreditIncome, Release, BurnMissed, Settled, allVars

LEMMA RegistrationBeneath == RewardsSpec => Spec
<1>1. RewardsInit => Init
    BY DEF RewardsInit
<1> QED
    BY <1>1, RewardsRefineMembers, PTL DEF RewardsSpec, Spec

\* An ended day is settled the way it ended, however late: income of a compliant
\* day is not burned and income of a missed day is not claimed, unless the user's
\* required volume changed between the end of the day and its settlement.
THEOREM EndedDaysSettledAsEnded == RewardsSpec => SettledAsEnded
<1>1. RewardsInit => MetInv
    <2> SUFFICES ASSUME RewardsInit PROVE MetInv
        OBVIOUS
    <2>1. day = 1 /\ met = [u \in Accounts |-> {}] /\ regraded = [u \in Accounts |-> {}]
        BY DEF RewardsInit, Init
    <2>2. PastDays = {}
        BY <2>1 DEF PastDays, Days
    <2> QED
        BY <2>1, <2>2 DEF RewardsInit, MetInv, DaysMet
<1>2. TypeOK /\ MetInv /\ [RewardsNext]_allVars => MetInv'
    BY MetStep
<1>3. ASSUME MetInv, [RewardsNext]_allVars
      PROVE  [\A u \in Accounts, d \in PastDays :
                 outcome[u][d] = Open /\ outcome'[u][d] # Open /\ d \notin regraded[u] =>
                     (outcome'[u][d] = Claimed <=> d \in met[u])
             ]_allVars
    <2> SUFFICES ASSUME RewardsNext, NEW u \in Accounts, NEW d \in PastDays,
                        outcome[u][d] = Open, outcome'[u][d] # Open, d \notin regraded[u]
                 PROVE  outcome'[u][d] = Claimed <=> d \in met[u]
        BY <1>3
    <2>1. /\ outcome \in [Accounts -> [Days -> {Open, Claimed, Burned}]]
          /\ d \in met[u] <=> IsCompliant(u, d)
        BY <1>3 DEF MetInv, DaysMet
    <2>2. d \in Days
        BY DEF PastDays
    <2>3. Claimed # Burned
        BY DEF Claimed, Burned
    <2>4. outcome' # outcome
        OBVIOUS
    <2>5. PICK v \in Accounts, e \in Days :
             Release(v, e) \/ \E byOwner \in BOOLEAN : BurnMissed(v, e, byOwner)
        BY <2>4 DEF RewardsNext, MembersStep, CreditIncome
    <2>6. CASE Release(v, e)
        <3>1. outcome' = [outcome EXCEPT ![v][e] = Claimed] /\ IsCompliant(v, e)
            BY <2>6 DEF Release, Settled, Compliant
        <3>2. v = u /\ e = d /\ outcome'[u][d] = Claimed
            BY <2>1, <2>2, <3>1
        <3> QED
            BY <2>1, <3>1, <3>2
    <2>7. CASE \E byOwner \in BOOLEAN : BurnMissed(v, e, byOwner)
        <3>1. outcome' = [outcome EXCEPT ![v][e] = Burned] /\ ~IsCompliant(v, e)
            BY <2>7 DEF BurnMissed, Settled, Compliant
        <3>2. v = u /\ e = d /\ outcome'[u][d] = Burned
            BY <2>1, <2>2, <3>1
        <3> QED
            BY <2>1, <2>3, <3>1, <3>2
    <2> QED
        BY <2>5, <2>6, <2>7
<1>4. RewardsSpec => []TypeOK
    BY RegistrationBeneath, RegistrationTypeCorrect, PTL
<1>5. RewardsSpec => []MetInv
    BY <1>1, <1>2, <1>4, PTL DEF RewardsSpec
<1> QED
    BY <1>3, <1>5, PTL DEF RewardsSpec, SettledAsEnded

(***************************************************************************)
(* The pool of each day.  A day's pool is cut into one slice per rank, and *)
(* a slice is paid and burned to the last unit; the slices leave at most   *)
(* one unit less than the number of ranks.                                 *)
(***************************************************************************)

FundsInv ==
    /\ TypeOK
    /\ dayPool \in [Days -> Int]
    /\ distributed \in SUBSET Days
    /\ rankBps \in [Ranks -> Nat] /\ SumOver(Ranks, rankBps) = BPS
    /\ poolUsdt \in Int
    /\ PoolCoversDays

\* Quotient and remainder.
LEMMA DivMod ==
    ASSUME NEW x \in Int, NEW y \in Nat \ {0}
    PROVE  /\ x \div y \in Int /\ x % y \in Int /\ y * (x \div y) \in Int
           /\ x = y * (x \div y) + (x % y)
           /\ 0 <= (x % y) /\ x % y <= y - 1
<1> DEFINE q == x \div y
<1>1. q \in Int
    OBVIOUS
<1>2. x = y * q + (x % y) /\ x % y \in Int /\ 0 <= (x % y) /\ x % y <= y - 1
    OBVIOUS
<1> HIDE DEF q
<1>3. y * q \in Int
    BY <1>1
<1> QED
    BY <1>1, <1>2, <1>3 DEF q

\* The two parts of a slice add up to it.
LEMMA SliceSpent ==
    ASSUME NEW total \in Int, rankBps \in [Ranks -> Nat], NEW r \in Ranks,
           NEW candidates, NEW d, Cardinality(Winners(candidates, r, d)) \in Nat
    PROVE  /\ RankPaid(total, candidates, r, d) \in Int
           /\ RankBurned(total, candidates, r, d) \in Int
           /\ RankPaid(total, candidates, r, d) + RankBurned(total, candidates, r, d)
                = Slice(total, r)
<1> DEFINE w == Cardinality(Winners(candidates, r, d))
           slice == Slice(total, r)
<1>1. slice \in Int
    <2>1. total * rankBps[r] \in Int
        OBVIOUS
    <2>2. \A x \in Int, y \in Nat \ {0} : x \div y \in Int
        OBVIOUS
    <2> QED
        BY <2>1, <2>2, BoundsAssumption DEF Slice, Share
<1>2. w \in Nat
    OBVIOUS
<1>3. /\ RankPaid(total, candidates, r, d) = IF w = 0 THEN 0 ELSE w * (slice \div w)
      /\ RankBurned(total, candidates, r, d) = IF w = 0 THEN slice ELSE slice % w
    BY DEF RankPaid, RankBurned
<1> HIDE DEF w, slice
<1>4. CASE w = 0
    BY <1>1, <1>3, <1>4 DEF slice
<1>5. CASE w # 0
    <2>1. w \in Nat \ {0}
        BY <1>2, <1>5
    <2>2. /\ w * (slice \div w) \in Int /\ slice % w \in Int
          /\ slice = w * (slice \div w) + (slice % w)
        BY <1>1, <2>1, DivMod
    <2>3. /\ RankPaid(total, candidates, r, d) = w * (slice \div w)
          /\ RankBurned(total, candidates, r, d) = slice % w
        BY <1>3, <1>5
    <2> QED
        BY <2>2, <2>3 DEF slice
<1> QED
    BY <1>4, <1>5

\* A multiple and what the floors leave.
LEMMA FloorsLeave ==
    ASSUME NEW b \in Nat \ {0}, NEW n \in Nat, NEW total \in Int, NEW floors \in Int,
           NEW left \in Int, b * floors + left = total * b,
           0 <= left, left <= (b - 1) * n
    PROVE  floors <= total /\ (n > 0 => total - floors <= n - 1) /\ (n = 0 => total = floors)
<1> DEFINE x == total - floors
<1>1. x \in Int /\ b * x = left
    OBVIOUS
<1>2. x >= 0
    <2> SUFFICES ASSUME x <= -1 PROVE FALSE
        BY <1>1
    <2>1. b * x <= -1
        BY <1>1
    <2> HIDE DEF x
    <2> QED
        BY <1>1, <2>1
<1>3. n > 0 => x <= n - 1
    <2> SUFFICES ASSUME n > 0, x >= n PROVE FALSE
        BY <1>1
    <2>1. b * x >= b * n
        BY <1>1
    <2>2. (b - 1) * n = b * n - n /\ b * n \in Int
        OBVIOUS
    <2> HIDE DEF x
    <2> QED
        BY <1>1, <2>1, <2>2
<1>4. n = 0 => x = 0
    <2> SUFFICES ASSUME n = 0 PROVE x <= 0
        BY <1>1, <1>2
    <2>1. (b - 1) * n = 0
        OBVIOUS
    <2>2. b * x <= 0
        BY <1>1, <2>1
    <2> SUFFICES ASSUME x >= 1 PROVE FALSE
        BY <1>1
    <2>3. b * x >= b
        BY <1>1
    <2> HIDE DEF x
    <2> QED
        BY <1>1, <2>2, <2>3
<1> QED
    BY <1>1, <1>2, <1>3, <1>4

\* The slices of a day's pool never exceed it, and rounding leaves less than one
\* unit per rank.
LEMMA SlicesFit ==
    ASSUME NEW total \in Int, rankBps \in [Ranks -> Nat], SumOver(Ranks, rankBps) = BPS,
           NEW slices, \A r \in Ranks : slices[r] = Slice(total, r)
    PROVE  /\ SumOver(Ranks, slices) \in Int
           /\ SumOver(Ranks, slices) <= total
           /\ total - SumOver(Ranks, slices) <= Cardinality(Ranks) - 1
<1>1. /\ IsFiniteSet(Ranks) /\ BPS \in Nat \ {0}
      /\ Cardinality(Ranks) \in Nat
    BY RanksAssumption, BoundsAssumption, FS_CardinalityType
<1> DEFINE b == BPS
           n == Cardinality(Ranks)
           whole == [r \in Ranks |-> total * rankBps[r]]
           rest  == [r \in Ranks |-> whole[r] % b]
           times == [r \in Ranks |-> b * slices[r]]
<1>2. ASSUME NEW r \in Ranks
      PROVE  /\ slices[r] \in Int /\ whole[r] \in Int /\ rest[r] \in Int /\ times[r] \in Int
             /\ whole[r] = times[r] + rest[r]
             /\ 0 <= rest[r] /\ rest[r] <= b - 1
    <2>1. whole[r] \in Int /\ slices[r] = whole[r] \div b
        BY DEF Slice, Share
    <2>2. LET x == whole[r] IN
          /\ x \div b \in Int /\ x % b \in Int /\ b * (x \div b) \in Int
          /\ x = b * (x \div b) + (x % b)
          /\ 0 <= x % b /\ x % b <= b - 1
        BY <1>1, <2>1, DivMod
    <2>3. rest[r] = whole[r] % b /\ times[r] = b * slices[r]
        OBVIOUS
    <2> HIDE DEF whole, rest, times
    <2> QED
        BY <1>1, <2>1, <2>2, <2>3
<1>3. SumOver(Ranks, whole) = total * SumOver(Ranks, rankBps)
    <2>1. \A r \in Ranks : rankBps[r] \in Int /\ whole[r] = total * rankBps[r]
        OBVIOUS
    <2> HIDE DEF whole
    <2>2. PICK f : f = rankBps
        OBVIOUS
    <2>3. \A r \in Ranks : f[r] \in Int /\ whole[r] = total * f[r]
        BY <2>1, <2>2
    <2>4. SumOver(Ranks, whole) = total * SumOver(Ranks, f)
        BY <1>1, <2>3, SumScale
    <2> QED
        BY <2>2, <2>4
<1>4. SumOver(Ranks, times) = b * SumOver(Ranks, slices)
    <2>1. \A r \in Ranks : slices[r] \in Int /\ times[r] = b * slices[r]
        BY <1>2
    <2> HIDE DEF times
    <2> QED
        BY <1>1, <2>1, SumScale
<1>5. SumOver(Ranks, whole) = SumOver(Ranks, times) + SumOver(Ranks, rest)
    <2>1. \A r \in Ranks : /\ times[r] \in Int /\ rest[r] \in Int
                           /\ whole[r] = times[r] + rest[r]
        BY <1>2
    <2> HIDE DEF whole, times, rest
    <2> QED
        BY <1>1, <2>1, SumPlus
<1>6. SumOver(Ranks, rest) \in Nat /\ SumOver(Ranks, rest) <= (b - 1) * n
    <2>1. \A r \in Ranks : rest[r] \in Nat /\ rest[r] \in Int /\ rest[r] <= b - 1
        BY <1>2
    <2>2. b - 1 \in Int
        BY <1>1
    <2> HIDE DEF rest, b
    <2> QED
        BY <1>1, <2>1, <2>2, SumNat, SumBound
<1>7. SumOver(Ranks, slices) \in Int
    BY <1>1, <1>2, SumInt
<1>8. n > 0
    <2> SUFFICES ASSUME n = 0 PROVE FALSE
        BY <1>1
    <2>1. Ranks = {}
        BY <1>1, FS_EmptySet
    <2>2. SumOver(Ranks, rankBps) = 0
        BY <2>1, SumEmpty
    <2> QED
        BY <1>1, <2>2
<1> DEFINE floors == SumOver(Ranks, slices)
           left == SumOver(Ranks, rest)
<1>9. b * floors + left = total * b
    BY <1>3, <1>4, <1>5
<1>10. floors <= total /\ total - floors <= n - 1
    <2>1. floors \in Int /\ left \in Int /\ 0 <= left /\ left <= (b - 1) * n
        BY <1>6, <1>7
    <2>2. b \in Nat \ {0} /\ n \in Nat
        BY <1>1
    <2> HIDE DEF floors, left, b, n
    <2> QED
        BY <1>8, <1>9, <2>1, <2>2, FloorsLeave
<1> QED
    BY <1>7, <1>10

\* One day's pool changes.
LEMMA PoolChange ==
    ASSUME NEW f, NEW g, NEW e \in Days, \A x \in Days : f[x] \in Int, g[e] \in Int,
           \A x \in Days \ {e} : g[x] = f[x]
    PROVE  SumOver(Days, g) = SumOver(Days, f) + g[e] - f[e]
    BY DaysFinite, SumChange

\* A credit of the day raises the pool and what it owes by the same amount.
LEMMA CreditKept ==
    ASSUME FundsInv, TypeOK', NEW amount \in Int, Credit(amount)
    PROVE  FundsInv'
<1>1. /\ dayPool \in [Days -> Int] /\ day \in Days /\ poolUsdt \in Int
    BY DEF FundsInv, TypeOK
<1>2. /\ dayPool' = [dayPool EXCEPT ![day] = dayPool[day] + amount]
      /\ poolUsdt' = poolUsdt + amount
      /\ UNCHANGED <<distributed, rankBps>>
    BY DEF Credit
<1>3. dayPool' \in [Days -> Int] /\ poolUsdt' \in Int
    BY <1>1, <1>2
<1>4. PICK f, g, e : f = dayPool /\ g = dayPool' /\ e = day
    OBVIOUS
<1>5. /\ \A x \in Days : f[x] \in Int
      /\ e \in Days /\ g[e] = f[e] + amount /\ g[e] \in Int
      /\ \A x \in Days \ {e} : g[x] = f[x]
    BY <1>1, <1>2, <1>4
<1>6. /\ SumOver(Days, g) = SumOver(Days, f) + g[e] - f[e]
      /\ SumOver(Days, f) \in Int
    <2>1. SumOver(Days, g) = SumOver(Days, f) + g[e] - f[e]
        BY <1>5, PoolChange
    <2> QED
        BY <1>5, <2>1, DaysFinite, SumInt
<1>7. f[e] \in Int
    BY <1>5
<1>8. Undistributed' = Undistributed + amount /\ Undistributed \in Int
    BY <1>4, <1>5, <1>6, <1>7 DEF Undistributed
<1>9. PoolCoversDays
    BY DEF FundsInv
<1>10. poolUsdt' >= Undistributed' /\ poolUsdt' - Undistributed' = poolUsdt - Undistributed
    BY <1>1, <1>2, <1>8, <1>9 DEF PoolCoversDays
<1>11. PoolCoversDays'
    BY <1>2, <1>9, <1>10 DEF PoolCoversDays
<1> QED
    BY <1>2, <1>3, <1>11 DEF FundsInv

\* A distribution takes the day's pool off what is owed, and the slices out of it.
LEMMA DistributionKept ==
    ASSUME FundsInv, NEW d \in Days, NEW lists \in [Ranks -> Candidates],
           DistributeDay(d, lists)
    PROVE  FundsInv'
<1>1. /\ dayPool \in [Days -> Int] /\ poolUsdt \in Int /\ d \notin distributed
      /\ distributed \in SUBSET Days /\ rankBps \in [Ranks -> Nat]
      /\ SumOver(Ranks, rankBps) = BPS /\ PoolCoversDays /\ IsFiniteSet(Ranks)
    BY RanksAssumption DEF FundsInv, DistributeDay, Distributable
<1> DEFINE total == dayPool[d]
           burns == [r \in Ranks |-> RankBurned(total, lists[r], r, d)]
           pays  == [r \in Ranks |-> RankPaid(total, lists[r], r, d)]
           slices == [r \in Ranks |-> Slice(total, r)]
<1>2. /\ distributed' = distributed \cup {d}
      /\ dayPool' = [dayPool EXCEPT ![d] = 0]
      /\ poolUsdt' = poolUsdt - SumOver(Ranks, pays) - SumOver(Ranks, burns)
      /\ UNCHANGED <<vars, rankBps>>
    BY DEF DistributeDay
<1>3. ASSUME NEW r \in Ranks
      PROVE  pays[r] \in Int /\ burns[r] \in Int /\ slices[r] = pays[r] + burns[r]
    <2>1. lists[r] \in Candidates
        OBVIOUS
    <2>2. IsFiniteSet(Winners(lists[r], r, d))
        <3>1. PICK n \in 0 .. MaxCandidates : lists[r] \in [1 .. n -> Accounts]
            BY <2>1 DEF Candidates
        <3>2. Len(lists[r]) \in Nat
            BY <3>1
        <3>3. IsFiniteSet(1 .. Len(lists[r]))
            BY <3>2, FS_Interval
        <3>4. Winners(lists[r], r, d) \subseteq 1 .. Len(lists[r])
            BY DEF Winners
        <3> QED
            BY <3>3, <3>4, FS_Subset
    <2>3. Cardinality(Winners(lists[r], r, d)) \in Nat
        BY <2>2, FS_CardinalityType
    <2>4. total \in Int
        BY <1>1
    <2> HIDE DEF total
    <2> QED
        BY <1>1, <2>3, <2>4, SliceSpent
<1>4. SumOver(Ranks, slices) = SumOver(Ranks, pays) + SumOver(Ranks, burns)
    <2> HIDE DEF slices, pays, burns
    <2> QED
        BY <1>1, <1>3, SumPlus
<1>5. /\ SumOver(Ranks, slices) \in Int
      /\ SumOver(Ranks, slices) <= total
      /\ total - SumOver(Ranks, slices) <= Cardinality(Ranks) - 1
    <2>1. \A r \in Ranks : slices[r] = Slice(total, r)
        OBVIOUS
    <2>2. total \in Int
        BY <1>1
    <2> HIDE DEF slices, total
    <2> QED
        BY <1>1, <2>1, <2>2, SlicesFit
<1>6. SumOver(Ranks, pays) \in Int /\ SumOver(Ranks, burns) \in Int
    <2> HIDE DEF pays, burns, slices
    <2> QED
        BY <1>1, <1>3, SumInt
<1> DEFINE out == SumOver(Ranks, slices)
<1>7. out \in Int /\ out <= total /\ total - out <= Cardinality(Ranks) - 1
    BY <1>5
<1>8. poolUsdt' = poolUsdt - out
    <2> HIDE DEF pays, burns, slices
    <2> QED
        BY <1>1, <1>2, <1>4, <1>6
<1> HIDE DEF pays, burns, slices, out
<1>9. Undistributed' = Undistributed - total /\ Undistributed \in Int /\ total \in Int
    <2>1. PICK f, g : f = dayPool /\ g = dayPool'
        OBVIOUS
    <2>2. /\ \A x \in Days : f[x] \in Int
          /\ g[d] = 0 /\ g[d] \in Int
          /\ \A x \in Days \ {d} : g[x] = f[x]
        BY <1>1, <1>2, <2>1
    <2>3. SumOver(Days, g) = SumOver(Days, f) + g[d] - f[d]
        BY <2>2, PoolChange
    <2>4. f[d] \in Int /\ SumOver(Days, f) \in Int
        BY <2>2, DaysFinite, SumInt
    <2> QED
        BY <2>1, <2>2, <2>3, <2>4 DEF Undistributed
<1>10. /\ IsFiniteSet(distributed) /\ Cardinality(distributed) \in Nat
       /\ Cardinality(distributed') = Cardinality(distributed) + 1
       /\ Cardinality(Ranks) \in Nat
    <2>1. IsFiniteSet(distributed)
        BY <1>1, DaysFinite, FS_Subset
    <2> QED
        BY <1>1, <1>2, <2>1, FS_AddElement, FS_CardinalityType
<1> HIDE DEF total
<1>11. /\ poolUsdt' >= Undistributed'
       /\ poolUsdt' - Undistributed' <=
             (poolUsdt - Undistributed) + (Cardinality(Ranks) - 1)
    BY <1>1, <1>7, <1>8, <1>9, <1>10 DEF PoolCoversDays
<1>12. (Cardinality(Ranks) - 1) * Cardinality(distributed')
          = (Cardinality(Ranks) - 1) * Cardinality(distributed) + (Cardinality(Ranks) - 1)
    BY <1>10
<1>13. PoolCoversDays'
    <2>1. (Cardinality(Ranks) - 1) * Cardinality(distributed) \in Int
        BY <1>10
    <2> QED
        BY <1>1, <1>8, <1>7, <1>9, <1>10, <1>11, <1>12, <2>1 DEF PoolCoversDays
<1>14. dayPool' \in [Days -> Int] /\ poolUsdt' \in Int /\ distributed' \in SUBSET Days
    BY <1>1, <1>2, <1>7, <1>8
<1>15. TypeOK'
    BY <1>2 DEF FundsInv, TypeOK, vars, treeVars, configVars, moneyVars, activityVars
<1>16. rankBps' \in [Ranks -> Nat] /\ SumOver(Ranks, rankBps') = BPS
    BY <1>1, <1>2
<1> QED
    BY <1>13, <1>14, <1>15, <1>16 DEF FundsInv

LEMMA FundsInit0 == FundsInit => FundsInv
<1> SUFFICES ASSUME FundsInit PROVE FundsInv
    OBVIOUS
<1>1. TypeOK
    BY RegistrationInit DEF FundsInit, RegistrationInv
<1>2. dayPool = [d \in Days |-> 0] /\ distributed = {} /\ poolUsdt = 0 /\ rankBps = InitRankBps
    BY DEF FundsInit
<1>3. Undistributed = 0
    <2>1. \A d \in Days : dayPool[d] = 0
        BY <1>2
    <2> QED
        BY <2>1, DaysFinite, SumZero DEF Undistributed
<1>4. Cardinality({}) = 0 /\ Cardinality(Ranks) \in Nat
    BY RanksAssumption, FS_EmptySet, FS_CardinalityType
<1>5. PoolCoversDays
    BY <1>2, <1>3, <1>4 DEF PoolCoversDays
<1> QED
    BY <1>1, <1>2, <1>5, RanksAssumption DEF FundsInv

LEMMA FundsRefineRegistration == [FundsNext]_fundsVars => [Next]_vars
    BY DEF FundsNext, RegistrationStep, SaleCredit, DistributeDay, SetRankBps,
       ForwardLiquidity, ForwardAll, fundsVars

LEMMA FundsStep == FundsInv /\ TypeOK' /\ [FundsNext]_fundsVars => FundsInv'
<1> SUFFICES ASSUME FundsInv, TypeOK', [FundsNext]_fundsVars PROVE FundsInv'
    OBVIOUS
<1>1. CASE RegistrationStep
    <2>1. Credit(paid'.global) /\ paid' \in Payment
        BY <1>1 DEF RegistrationStep, TypeOK
    <2>2. paid'.global \in Int
        BY <2>1 DEF Payment
    <2>3. PICK amount \in Int : amount = paid'.global
        BY <2>2
    <2>4. Credit(amount)
        BY <2>1, <2>3
    <2> QED
        BY <2>4, CreditKept
<1>2. ASSUME NEW amount \in SaleGlobals, SaleCredit(amount) PROVE FundsInv'
    <2>1. Credit(amount) /\ amount \in Int
        BY <1>2, RanksAssumption DEF SaleCredit
    <2> QED
        BY <2>1, CreditKept
<1>3. ASSUME NEW d \in Days, NEW lists \in [Ranks -> Candidates], DistributeDay(d, lists)
      PROVE  FundsInv'
    BY <1>3, DistributionKept
<1>4. ASSUME NEW f \in RankBpsOnOffer, SetRankBps(f) PROVE FundsInv'
    <2>1. /\ rankBps' = f /\ SumOver(Ranks, f) = BPS /\ f \in [Ranks -> Nat]
          /\ UNCHANGED <<dayPool, distributed, poolUsdt>>
        BY <1>4, RanksAssumption DEF SetRankBps
    <2>2. PoolCoversDays'
        BY <2>1 DEF FundsInv, PoolCoversDays, Undistributed
    <2> QED
        BY <2>1, <2>2 DEF FundsInv
<1>5. ASSUME UNCHANGED poolVars PROVE FundsInv'
    <2>1. PoolCoversDays'
        BY <1>5 DEF FundsInv, PoolCoversDays, Undistributed, poolVars
    <2> QED
        BY <1>5, <2>1 DEF FundsInv, poolVars
<1>6. ASSUME NEW amount, ForwardLiquidity(amount) PROVE FundsInv'
    BY <1>5, <1>6 DEF ForwardLiquidity
<1>7. CASE UNCHANGED fundsVars
    BY <1>5, <1>7 DEF fundsVars
<1> QED
    BY <1>1, <1>2, <1>3, <1>4, <1>6, <1>7 DEF FundsNext, ForwardAll

\* GlobalPool covers every day it has not distributed, and keeps at most the
\* rounding, for any ranks, rank tables, candidates and payments.
THEOREM PoolAlwaysCovered == FundsSpec => []PoolCoversDays
<1>1. FundsInv => PoolCoversDays
    BY DEF FundsInv
<1>2. FundsSpec => Spec
    <2>1. FundsInit => Init
        BY DEF FundsInit
    <2> QED
        BY <2>1, FundsRefineRegistration, PTL DEF FundsSpec, Spec
<1>3. FundsSpec => []TypeOK
    BY <1>2, RegistrationTypeCorrect, PTL
<1> QED
    BY <1>1, <1>3, FundsInit0, FundsStep, PTL DEF FundsSpec
=============================================================================
