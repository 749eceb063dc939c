---------------------------- MODULE IndexerProofs ----------------------------
(***************************************************************************)
(* Theorems of Indexer, for every set of users, tokens, tiers and workers, *)
(* every menu of transactions and every bound.                             *)
(***************************************************************************)
EXTENDS Indexer, SumsProofs, SequenceTheorems

(***************************************************************************)
(* Lists of logs.                                                          *)
(***************************************************************************)

\* There are finitely many logs, ...
LEMMA EventIdsFinite == IsFiniteSet(EventIds)
<1>1. IsFiniteSet(1 .. MaxBlock) /\ IsFiniteSet(1 .. MaxLogs)
    BY FS_Interval, BoundsAssumption
<1> QED
    BY <1>1, FS_Product DEF EventIds

\* ... and the order of the chain is total, ...
LEMMA BeforeTotal ==
    ASSUME NEW a \in EventIds, NEW b \in EventIds, a # b
    PROVE  Before(a, b) \/ Before(b, a)
<1>1. /\ a = <<a[1], a[2]>> /\ b = <<b[1], b[2]>>
      /\ a[1] \in Nat /\ a[2] \in Nat /\ b[1] \in Nat /\ b[2] \in Nat
    BY BoundsAssumption DEF EventIds
<1> QED
    BY <1>1 DEF Before

\* ... transitive ...
LEMMA BeforeTransitive ==
    ASSUME NEW a \in EventIds, NEW b \in EventIds, NEW c \in EventIds,
           Before(a, b), Before(b, c)
    PROVE  Before(a, c)
<1>1. /\ a[1] \in Nat /\ a[2] \in Nat /\ b[1] \in Nat /\ b[2] \in Nat
      /\ c[1] \in Nat /\ c[2] \in Nat
    BY BoundsAssumption DEF EventIds
<1> QED
    BY <1>1 DEF Before

\* ... and strict.
LEMMA BeforeIrreflexive ==
    ASSUME NEW a \in EventIds
    PROVE  ~Before(a, a)
<1>1. a[1] \in Nat /\ a[2] \in Nat
    BY BoundsAssumption DEF EventIds
<1> QED
    BY <1>1 DEF Before

\* The rank of a log in a set of them tells it apart from the others.
LEMMA RankLess ==
    ASSUME NEW S \in SUBSET EventIds, NEW a \in S, NEW b \in S, Before(a, b)
    PROVE  Rank(a, S) < Rank(b, S)
<1> DEFINE A == {x \in S : Before(x, a)}
           B == {x \in S : Before(x, b)}
<1>1. A \subseteq B
    BY BeforeTransitive
<1>2. a \in B /\ a \notin A
    BY BeforeIrreflexive
<1>3. IsFiniteSet(B)
    <2>1. IsFiniteSet(S) /\ B \in SUBSET S
        BY EventIdsFinite, FS_Subset
    <2> QED
        BY <2>1, FS_Subset
<1> HIDE DEF A, B
<1>4. /\ IsFiniteSet(A) /\ Cardinality(A) <= Cardinality(B)
      /\ Cardinality(B) # Cardinality(A)
    BY <1>1, <1>2, <1>3, FS_Subset
<1>5. Cardinality(A) \in Nat /\ Cardinality(B) \in Nat
    BY <1>3, <1>4, FS_CardinalityType
<1> QED
    BY <1>4, <1>5 DEF Rank, A, B

\* Ranks run from 1 to the number of logs.
LEMMA RankRange ==
    ASSUME NEW S \in SUBSET EventIds, NEW a \in S
    PROVE  Rank(a, S) \in Nat /\ Rank(a, S) + 1 \in 1 .. Cardinality(S)
<1> DEFINE A == {x \in S : Before(x, a)}
<1>1. A \subseteq S /\ a \notin A
    BY BeforeIrreflexive
<1>2. IsFiniteSet(S)
    BY EventIdsFinite, FS_Subset
<1> HIDE DEF A
<1>3. /\ IsFiniteSet(A) /\ Cardinality(A) <= Cardinality(S)
      /\ Cardinality(S) # Cardinality(A)
    BY <1>1, <1>2, FS_Subset
<1>4. Cardinality(A) \in Nat /\ Cardinality(S) \in Nat
    BY <1>2, <1>3, FS_CardinalityType
<1> QED
    BY <1>3, <1>4 DEF Rank, A

\* A set of logs, in the order of the chain: each of them, and nothing else.
LEMMA InOrderLists ==
    ASSUME NEW S \in SUBSET EventIds
    PROVE  InOrder(S) \in Seq(S) /\ \A e \in S : \E i \in DOMAIN InOrder(S) : InOrder(S)[i] = e
<1> DEFINE n == Cardinality(S)
           r == [e \in S |-> Rank(e, S) + 1]
<1>1. IsFiniteSet(S) /\ n \in Nat
    BY EventIdsFinite, FS_Subset, FS_CardinalityType
<1>2. \A e \in S : r[e] \in 1 .. n
    BY RankRange
<1>3. \A a, b \in S : r[a] = r[b] => a = b
    <2> SUFFICES ASSUME NEW a \in S, NEW b \in S, a # b PROVE r[a] # r[b]
        OBVIOUS
    <2>1. Rank(a, S) \in Nat /\ Rank(b, S) \in Nat
        BY RankRange
    <2>2. Before(a, b) \/ Before(b, a)
        BY BeforeTotal
    <2>3. Rank(a, S) # Rank(b, S)
        BY <2>1, <2>2, RankLess
    <2> QED
        BY <2>1, <2>3
<1>4. r \in Injection(S, 1 .. n)
    <2>1. r \in [S -> 1 .. n]
        BY <1>2
    <2> HIDE DEF r, n
    <2> QED
        BY <1>3, <2>1 DEF Injection, IsInjective
<1>5. r \in Surjection(S, 1 .. n)
    <2>1. IsFiniteSet(1 .. n) /\ Cardinality(1 .. n) = n
        BY <1>1, FS_Interval
    <2> HIDE DEF r
    <2> QED
        BY <1>4, <2>1, FS_Injection
<1>6. \A i \in 1 .. n : \E e \in S : Rank(e, S) + 1 = i
    BY <1>5 DEF Surjection
<1>7. \A i \in 1 .. n : InOrder(S)[i] \in S /\ Rank(InOrder(S)[i], S) + 1 = i
    BY <1>6 DEF InOrder
<1>8. InOrder(S) \in Seq(S) /\ DOMAIN InOrder(S) = 1 .. n
    <2>1. InOrder(S) \in [1 .. n -> S]
        BY <1>7 DEF InOrder
    <2> HIDE DEF n
    <2> QED
        BY <1>1, <2>1
<1>9. ASSUME NEW e \in S PROVE \E i \in 1 .. n : InOrder(S)[i] = e
    <2> DEFINE i == Rank(e, S) + 1
    <2>1. i \in 1 .. n
        BY <1>2
    <2>2. InOrder(S)[i] \in S /\ r[InOrder(S)[i]] = r[e]
        BY <1>7, <2>1
    <2> HIDE DEF i, r
    <2> QED
        BY <1>3, <2>1, <2>2
<1> QED
    BY <1>8, <1>9

(***************************************************************************)
(* Types, and what a call has read about the log it is at.  Calls of other *)
(* workers only add: blocks, stored logs and activations stay, so what a   *)
(* call has read stays so.                                                 *)
(***************************************************************************)

ChainTyped ==
    /\ chain \in Seq([period : 0 .. MaxPeriod, events : TxMenu])
    /\ Len(chain) <= MaxBlock
    /\ period \in 0 .. MaxPeriod
    /\ linked \subseteq Users

TablesTyped ==
    /\ indexed \subseteq OnChain
    /\ cursor \in 0 .. MaxBlock
    /\ record \in [Tokens -> [user : Users \cup {NoUser}, value : Nat,
                              burned : BOOLEAN]]
    /\ rows \in Seq(Row)
    /\ compliance \in [Users -> [0 .. MaxPeriod -> Verdicts]]
    /\ acts \in Seq(Activation) /\ Len(acts) <= MaxRows
    /\ due \subseteq OnChain /\ granting \subseteq sales
    /\ sales \subseteq OnChain
    /\ granted \in [EventIds -> Nat]
    /\ faults \in 0 .. MaxFaults

\* What a call has read about the log it is at, and still relies on.
ReadSound(c) ==
    LET ev == EventAt(Head(c.todo))
    IN  /\ c.phase = "look" => c.user = NoUser /\ c.act = 0
        /\ c.user # NoUser => c.user = ev.user
        /\ c.act # 0 => c.act \in DOMAIN acts
        /\ c.phase \in {"check", "pay", "repair", "measure", "judge"} => c.act # 0
        /\ c.phase \in {"repair", "adopt", "measure", "judge"} => ev.kind = "Purchased"
        /\ c.phase = "adopt" => /\ c.user # NoUser /\ c.row \in DOMAIN rows
                                /\ rows[c.row].user = c.user
                                /\ rows[c.row].volume = ev.price
        /\ c.phase = "clear" => /\ c.user # NoUser
                                /\ ev.kind \in {"Activated", "Upgraded"}
        /\ c.phase \in {"clear", "store"} /\ c.user # NoUser
               /\ ev.kind \in {"Activated", "Upgraded"} => ev.package \in Tiers
        /\ ev.kind = "Purchased" /\ c.act # 0 =>
               c.user # NoUser /\ acts[c.act].user = c.user

CallSound(c) ==
    /\ c \in Call
    /\ c.to <= Len(chain)
    /\ c.todo \in Seq(OnChain)
    /\ c.todo # <<>> => ReadSound(c)

CallsSound ==
    /\ worker \in [Workers -> Call]
    /\ \A w \in Workers : CallSound(worker[w])

\* What a request has read or written, and still relies on.
RequestSound(q) ==
    /\ q \in Request
    /\ q.phase \in {"measure", "judge"} =>
           /\ q.act \in DOMAIN acts
           /\ \E k \in DOMAIN rows : rows[k].user = q.user /\ rows[k].act = q.act
    /\ q.phase = "name" =>
           /\ q.log \in OnChain /\ EventAt(q.log).kind = "Purchased"
           /\ EventAt(q.log).user = q.user
           /\ q.row \in DOMAIN rows /\ rows[q.row].user = q.user
           /\ rows[q.row].volume = EventAt(q.log).price

RequestsSound ==
    /\ request \in [Requests -> Request]
    /\ \A r \in Requests : RequestSound(request[r])

IndexerInv == ChainTyped /\ TablesTyped /\ CallsSound /\ RequestsSound

\* Volume rows are added, and named after purchases; nothing else of them changes.
RowsGrow ==
    \A i \in DOMAIN rows :
        /\ i \in DOMAIN rows'
        /\ rows'[i].user = rows[i].user /\ rows'[i].act = rows[i].act
        /\ rows'[i].period = rows[i].period /\ rows'[i].volume = rows[i].volume

\* Blocks already mined, logs already stored, activations and volume rows stay.
Grows ==
    /\ Len(chain) <= Len(chain')
    /\ \A e \in OnChain : /\ e \in OnChain' /\ EventAt(e)' = EventAt(e)
                          /\ chain'[e[1]].period = chain[e[1]].period
    /\ \A e \in OnChain' : e[1] <= Len(chain) => e \in OnChain
    /\ indexed \subseteq indexed'
    /\ DOMAIN acts \subseteq DOMAIN acts'
    /\ \A i \in DOMAIN acts : /\ acts'[i].user = acts[i].user
                              /\ acts'[i].package = acts[i].package
    /\ RowsGrow

\* A log of the chain is an event of the menu, in a block with a period.
LEMMA OnChainEvents ==
    ASSUME ChainTyped, NEW e \in OnChain
    PROVE  /\ e \in EventIds /\ e[1] \in DOMAIN chain /\ e[2] \in DOMAIN chain[e[1]].events
           /\ chain[e[1]].period \in 0 .. MaxPeriod
           /\ EventAt(e) \in Event
           /\ EventAt(e).kind \in {"Purchased", "Listed"} => EventAt(e).token \in Tokens
<1>1. e \in EventIds /\ e[1] \in 1 .. MaxBlock /\ e[2] \in 1 .. MaxLogs
      /\ e[1] <= Len(chain) /\ e[2] <= Len(chain[e[1]].events)
    BY DEF OnChain, EventIds
<1>2. e[1] \in DOMAIN chain
    BY <1>1, BoundsAssumption DEF ChainTyped
<1>3. chain[e[1]] \in [period : 0 .. MaxPeriod, events : TxMenu]
    <2> DEFINE B == [period : 0 .. MaxPeriod, events : TxMenu]
    <2>1. chain \in Seq(B)
        BY DEF ChainTyped
    <2> HIDE DEF B
    <2>2. chain[e[1]] \in B
        BY <1>2, <2>1, ElementOfSeq
    <2> QED
        BY <2>2 DEF B
<1>4. chain[e[1]].events \in TxMenu /\ chain[e[1]].period \in 0 .. MaxPeriod
    BY <1>3
<1> DEFINE tx == chain[e[1]].events
<1>5. tx \in Seq(Event)
      /\ \A i \in DOMAIN tx : tx[i].kind \in {"Purchased", "Listed"} => tx[i].token \in Tokens
    BY <1>4, MenuAssumption
<1>6. e[2] \in DOMAIN tx
    BY <1>1, <1>5, BoundsAssumption
<1> QED
    BY <1>1, <1>2, <1>4, <1>5, <1>6 DEF EventAt

\* A block is mined, and the others stay.
LEMMA MineGrows ==
    ASSUME ChainTyped, NEW tx \in TxMenu, Mine(tx)
    PROVE  Grows /\ ChainTyped'
<1> DEFINE b == [period |-> period, events |-> tx]
<1>1. b \in [period : 0 .. MaxPeriod, events : TxMenu]
    BY DEF ChainTyped
<1>2. chain' = Append(chain, b) /\ Len(chain) < MaxBlock
    BY DEF Mine
<1> HIDE DEF b
<1>3. /\ chain' \in Seq([period : 0 .. MaxPeriod, events : TxMenu])
      /\ Len(chain') = Len(chain) + 1
      /\ \A i \in 1 .. Len(chain) : chain'[i] = chain[i]
    BY <1>1, <1>2, AppendProperties DEF ChainTyped
<1>4. Len(chain) \in Nat /\ MaxBlock \in Nat
    BY BoundsAssumption DEF ChainTyped
<1>5. \A e \in EventIds : e[1] <= Len(chain) => chain'[e[1]] = chain[e[1]]
    BY <1>3, <1>4, BoundsAssumption DEF EventIds
<1>6. \A e \in EventIds : e[1] \in Nat
    BY BoundsAssumption DEF EventIds
<1>7. \A e \in OnChain : e \in OnChain'
    BY <1>3, <1>4, <1>5, <1>6 DEF OnChain
<1>8. \A e \in OnChain' : e[1] <= Len(chain) => e \in OnChain
    BY <1>3, <1>4, <1>5, <1>6 DEF OnChain
<1>9. \A e \in OnChain : EventAt(e)' = EventAt(e) /\ chain'[e[1]].period = chain[e[1]].period
    BY <1>5 DEF OnChain, EventAt
<1>10. /\ indexed' = indexed /\ acts' = acts /\ period' = period /\ linked' = linked
       /\ rows' = rows
    BY DEF Mine, marketVars
<1>11. Len(chain) <= Len(chain') /\ Len(chain') <= MaxBlock
    BY <1>2, <1>3, <1>4
<1> QED
    BY <1>3, <1>7, <1>8, <1>9, <1>10, <1>11 DEF Grows, ChainTyped, RowsGrow

\* With the chain, its logs stay.
LEMMA SameChain ==
    ASSUME chain' = chain
    PROVE  OnChain' = OnChain /\ \A e : EventAt(e)' = EventAt(e)
    BY DEF OnChain, EventAt

\* A step that mines nothing and activates nobody only adds.
LEMMA QuietGrows ==
    ASSUME UNCHANGED <<chain, acts>>, indexed \subseteq indexed', Len(chain) \in Nat,
           RowsGrow
    PROVE  Grows
    BY SameChain DEF Grows, EventAt

LEMMA SameRows ==
    ASSUME rows' = rows
    PROVE  RowsGrow
    BY DEF RowsGrow

\* A step that leaves a call alone leaves it sound.
LEMMA CallKept ==
    ASSUME IndexerInv, Grows, NEW w \in Workers, worker'[w] = worker[w]
    PROVE  CallSound(worker[w])'
<1> DEFINE c == worker[w]
<1>1. CallSound(c) /\ c' = c
    BY DEF IndexerInv, CallsSound
<1>2. c \in Call /\ c.to <= Len(chain) /\ c.todo \in Seq(OnChain)
      /\ (c.todo # <<>> => ReadSound(c))
    BY <1>1 DEF CallSound
<1>3. c.to <= Len(chain')
    BY <1>2, BoundsAssumption DEF Grows, Call, IndexerInv, ChainTyped
<1>4. c.todo \in Seq(OnChain')
    BY <1>2 DEF Grows
<1>5. ASSUME c.todo # <<>> PROVE ReadSound(c)'
    <2>1. Head(c.todo) \in OnChain
        BY <1>2, <1>5
    <2>2. EventAt(Head(c.todo))' = EventAt(Head(c.todo))
        BY <1>1, <2>1 DEF Grows
    <2>3. c.act \in DOMAIN acts =>
              c.act \in DOMAIN acts' /\ acts'[c.act].user = acts[c.act].user
        BY DEF Grows
    <2>4. c.row \in DOMAIN rows =>
              /\ c.row \in DOMAIN rows' /\ rows'[c.row].user = rows[c.row].user
              /\ rows'[c.row].volume = rows[c.row].volume
        BY DEF Grows, RowsGrow
    <2> HIDE DEF c
    <2> QED
        BY <1>1, <1>2, <1>5, <2>2, <2>3, <2>4 DEF ReadSound
<1> QED
    BY <1>1, <1>2, <1>3, <1>4, <1>5 DEF CallSound

\* A call that goes on with its next log, or ends, has read nothing yet.
LEMMA CallForgets ==
    ASSUME IndexerInv, Grows, NEW w \in Workers,
           worker'[w] = Idle \/ (worker[w].todo # <<>> /\ worker'[w] = AfterLog(w))
    PROVE  CallSound(worker[w])'
<1> DEFINE c == worker[w]
           d == worker'[w]
<1>1. c \in Call /\ c.to <= Len(chain) /\ c.todo \in Seq(OnChain)
    BY DEF IndexerInv, CallsSound, CallSound
<1>2. Len(chain) \in Nat /\ Len(chain') \in Nat /\ Len(chain) <= Len(chain')
    BY DEF Grows, IndexerInv, ChainTyped
<1>3. OnChain \subseteq EventIds /\ OnChain \subseteq OnChain'
    BY DEF OnChain, Grows
<1>4. CASE d = Idle
    BY <1>2, <1>4, BoundsAssumption DEF CallSound, Idle, Call, Jobs, Phases
<1>5. CASE c.todo # <<>> /\ d = AfterLog(w)
    <2>1. Tail(c.todo) \in Seq(OnChain)
        BY <1>1, <1>5
    <2>2. Tail(c.todo) \in Seq(OnChain') /\ Tail(c.todo) \in Seq(EventIds)
        BY <1>3, <2>1
    <2>3. /\ d.job = c.job /\ d.to = c.to /\ d.todo = Tail(c.todo)
          /\ d.phase = "look" /\ d.user = NoUser /\ d.act = 0 /\ d.current = {}
          /\ d.row = 0 /\ d.volume = 0 /\ d.new = FALSE
          /\ d = [job |-> c.job, todo |-> Tail(c.todo), to |-> c.to, phase |-> "look",
                  user |-> NoUser, act |-> 0, current |-> {}, row |-> 0, volume |-> 0,
                  new |-> FALSE]
        BY <1>5 DEF AfterLog, Idle
    <2>4. c.job \in Jobs /\ c.to \in 0 .. MaxBlock
        BY <1>1 DEF Call
    <2>5. d \in Call
        BY <2>2, <2>3, <2>4, BoundsAssumption DEF Call, Phases
    <2>6. d.to <= Len(chain')
        BY <1>1, <1>2, <2>3, <2>4, BoundsAssumption
    <2>7. ReadSound(worker[w])'
        BY <2>3 DEF ReadSound
    <2> QED
        BY <2>2, <2>3, <2>5, <2>6, <2>7 DEF CallSound
<1> QED
    BY <1>4, <1>5

LEMMA IdleIsCall == Idle \in Call
    BY BoundsAssumption DEF Idle, Call, Jobs, Phases

\* A call that starts on logs of the chain is sound.
LEMMA CallStarts ==
    ASSUME IndexerInv, NEW w \in Workers, NEW d \in Call, Begin(w, d),
           d.to <= Len(chain), d.todo \in Seq(OnChain),
           d.phase = "look", d.user = NoUser, d.act = 0
    PROVE  CallSound(worker[w])'
<1>1. worker'[w] = d /\ chain' = chain
    BY DEF Begin, chainVars, IndexerInv, CallsSound
<1>2. OnChain' = OnChain
    BY <1>1, SameChain
<1>3. ReadSound(worker[w])'
    BY <1>1 DEF ReadSound
<1> QED
    BY <1>1, <1>2, <1>3 DEF CallSound

(***************************************************************************)
(* Calls start on logs of the chain.                                       *)
(***************************************************************************)

\* The logs that a call asks for are on the chain, ...
LEMMA LogsOnChain ==
    ASSUME NEW kind, NEW m, NEW n
    PROVE  LogsOf(kind, m, n) \in Seq(OnChain)
<1> DEFINE S == {e \in OnChain : e[1] \in m .. n /\ EventAt(e).kind = kind}
<1>1. S \in SUBSET OnChain /\ S \in SUBSET EventIds
    BY DEF OnChain
<1> HIDE DEF S
<1>2. InOrder(S) \in Seq(S)
    BY <1>1, InOrderLists
<1> QED
    BY <1>1, <1>2 DEF LogsOf, S

\* ... also several kinds of them together.
LEMMA CallsOnChain ==
    ASSUME NEW m, NEW n
    PROVE  RegistrationLogs(m, n) \in Seq(OnChain) /\ MarketplaceLogs(m, n) \in Seq(OnChain)
    BY LogsOnChain, ConcatProperties DEF RegistrationLogs, MarketplaceLogs

\* SomeAct picks a member, if there is one.
LEMMA SomeActIn ==
    ASSUME NEW S \in SUBSET Nat
    PROVE  IF S = {} THEN SomeAct(S) = 0 ELSE SomeAct(S) \in S
<1>1. CASE S = {}
    BY <1>1 DEF SomeAct
<1>2. CASE S # {}
    <2>1. \E i \in S : \A j \in S : i <= j
        BY <1>2, LeastNatural
    <2> QED
        BY <1>2, <2>1 DEF SomeAct
<1> QED
    BY <1>1, <1>2

\* syncRange, ...
LEMMA RangeStarts ==
    ASSUME IndexerInv, NEW w \in Workers, StartRange(w)
    PROVE  CallSound(worker[w])'
<1> DEFINE r == RegistrationLogs(cursor + 1, RangeEnd)
           m == MarketplaceLogs(cursor + 1, RangeEnd)
           d == [Idle EXCEPT !.job = "range", !.to = RangeEnd, !.todo = r \o m]
<1>1. r \in Seq(OnChain) /\ m \in Seq(OnChain)
    BY CallsOnChain
<1>2. RangeEnd \in 0 .. MaxBlock /\ RangeEnd <= Len(chain)
    BY BoundsAssumption DEF RangeEnd, Lesser, IndexerInv, ChainTyped, TablesTyped
<1>3. Begin(w, d)
    BY DEF StartRange
<1>4. OnChain \subseteq EventIds /\ "range" \in Jobs
    BY DEF OnChain, Jobs
<1> HIDE DEF r, m
<1>5. /\ d.to = RangeEnd /\ d.todo = r \o m
      /\ d.phase = "look" /\ d.user = NoUser /\ d.act = 0
    BY DEF Idle
<1>6. r \o m \in Seq(OnChain)
    BY <1>1, ConcatProperties
<1>7. d \in Call
    <2>1. [Idle EXCEPT !.job = "range", !.to = RangeEnd] \in Call
        BY <1>2, <1>4, IdleIsCall DEF Call
    <2>2. r \o m \in Seq(EventIds)
        BY <1>4, <1>6
    <2> QED
        BY <2>1, <2>2 DEF Call
<1> HIDE DEF d
<1> QED
    BY <1>2, <1>3, <1>5, <1>6, <1>7, CallStarts

\* The other calls set no cursor.
LEMMA OtherStarts ==
    ASSUME IndexerInv, NEW w \in Workers, NEW job \in Jobs, NEW todo \in Seq(OnChain),
           Begin(w, [Idle EXCEPT !.job = job, !.todo = todo])
    PROVE  CallSound(worker[w])'
<1> DEFINE d == [Idle EXCEPT !.job = job, !.todo = todo]
<1>1. todo \in Seq(EventIds)
    BY DEF OnChain
<1>2. d \in Call
    <2>1. [Idle EXCEPT !.job = job] \in Call
        BY IdleIsCall DEF Call
    <2> QED
        BY <1>1, <2>1 DEF Call
<1>3. /\ d.to = 0 /\ d.todo = todo
      /\ d.phase = "look" /\ d.user = NoUser /\ d.act = 0
    BY DEF Idle
<1>4. d.to <= Len(chain)
    BY <1>3 DEF IndexerInv, ChainTyped
<1> HIDE DEF d
<1>5. Begin(w, d)
    BY DEF d
<1> QED
    BY <1>2, <1>3, <1>4, <1>5, CallStarts

\* ... the head window, chunk after chunk, ...
LEMMA HeadStarts ==
    ASSUME IndexerInv, NEW w \in Workers, StartHeadWindow(w)
    PROVE  CallSound(worker[w])'
<1> DEFINE from == IF Len(chain) > Lookback THEN Len(chain) - Lookback ELSE 1
           chunks == (Len(chain) - from) \div HeadChunk + 1
           Logs(k) == MarketplaceLogs(from + (k - 1) * HeadChunk,
                          Lesser(from + (k - 1) * HeadChunk + HeadChunk - 1, Len(chain)))
           all == [k \in 1 .. chunks |-> Logs(k)]
<1>1. chunks \in Nat
    <2>1. Len(chain) \in Nat \ {0} /\ Lookback \in Nat /\ HeadChunk \in Nat \ {0}
        BY BoundsAssumption DEF IndexerInv, ChainTyped, StartHeadWindow
    <2>2. Len(chain) - from \in Nat
        BY <2>1
    <2> HIDE DEF from
    <2> QED
        BY <2>1, <2>2
<1>2. \A k \in 1 .. chunks : all[k] \in Seq(OnChain)
    BY CallsOnChain
<1>3. all \in Seq(Seq(OnChain))
    <2>1. all \in [1 .. chunks -> Seq(OnChain)]
        BY <1>2
    <2> HIDE DEF all, chunks
    <2> QED
        BY <1>1, <2>1
<1>4. HeadLogs = FlattenSeq(all)
    BY DEF HeadLogs
<1> HIDE DEF all
<1>5. HeadLogs \in Seq(OnChain)
    BY <1>3, <1>4, FlattenType
<1>6. "head" \in Jobs
    BY DEF Jobs
<1> QED
    BY <1>5, <1>6, OtherStarts DEF StartHeadWindow

\* ... the sync of one transaction ...
LEMMA TxStarts ==
    ASSUME IndexerInv, NEW w \in Workers, NEW b, StartTx(w, b)
    PROVE  CallSound(worker[w])'
<1> DEFINE S == {e \in OnChain : e[1] = b /\ EventAt(e).kind \in {"Purchased", "Listed"}}
<1>1. S \in SUBSET OnChain /\ S \in SUBSET EventIds
    BY DEF OnChain
<1>2. TxLogs(b) = InOrder(S)
    BY DEF TxLogs
<1> HIDE DEF S
<1>3. TxLogs(b) \in Seq(OnChain)
    BY <1>1, <1>2, InOrderLists
<1>4. "tx" \in Jobs
    BY DEF Jobs
<1> QED
    BY <1>3, <1>4, OtherStarts DEF StartTx

\* ... and the backfill start on logs of the chain.
LEMMA BackfillStarts ==
    ASSUME IndexerInv, NEW w \in Workers, NEW u, StartBackfill(w, u)
    PROVE  CallSound(worker[w])'
<1> DEFINE S == {e \in OnChain \cap indexed : /\ EventAt(e).kind = "Purchased"
                                              /\ EventAt(e).user = u}
<1>1. S \in SUBSET OnChain /\ S \in SUBSET EventIds
    BY DEF OnChain
<1>2. StoredPurchases(u) = Reverse(InOrder(S))
    BY DEF StoredPurchases
<1> HIDE DEF S
<1>3. InOrder(S) \in Seq(OnChain)
    BY <1>1, InOrderLists
<1>4. StoredPurchases(u) \in Seq(OnChain)
    <2> DEFINE q == InOrder(S)
    <2>1. q \in Seq(OnChain) /\ Len(q) \in Nat
        BY <1>3
    <2> HIDE DEF q
    <2>2. \A i \in 1 .. Len(q) : q[(Len(q) - i) + 1] \in OnChain
        BY <2>1
    <2>3. [i \in 1 .. Len(q) |-> q[(Len(q) - i) + 1]] \in Seq(OnChain)
        BY <2>1, <2>2
    <2> QED
        BY <1>2, <2>3 DEF Reverse, q
<1>5. "backfill" \in Jobs
    BY DEF Jobs
<1> QED
    BY <1>4, <1>5, OtherStarts DEF StartBackfill

(***************************************************************************)
(* Steps of a call: one lemma for each that goes on with the same log.     *)
(***************************************************************************)

\* What holds of a call that has a log to handle.
LEMMA CallFacts ==
    ASSUME IndexerInv, NEW w \in Workers
    PROVE  /\ worker[w] \in Call /\ worker[w].to <= Len(chain)
           /\ worker[w].todo \in Seq(OnChain)
           /\ worker[w].todo # <<>> =>
                  /\ ReadSound(worker[w])
                  /\ Current(w) \in OnChain /\ Current(w) \in EventIds
                  /\ EventAt(Current(w)) \in Event
    <1>1. CallSound(worker[w])
        BY DEF IndexerInv, CallsSound
    <1>2. ASSUME worker[w].todo # <<>> PROVE Current(w) \in OnChain
        BY <1>1, <1>2 DEF CallSound, Current
    <1>3. ChainTyped
        BY DEF IndexerInv
    <1> QED
        BY <1>1, <1>2, <1>3, OnChainEvents DEF CallSound

\* A call that goes on with the same log.
LEMMA CallGoesOn ==
    ASSUME IndexerInv, Grows, NEW w \in Workers, worker[w].todo # <<>>,
           worker'[w] \in Call,
           worker'[w].to = worker[w].to, worker'[w].todo = worker[w].todo,
           EventAt(Current(w))' = EventAt(Current(w)) => ReadSound(worker[w])'
    PROVE  CallSound(worker[w])'
<1>1. /\ worker[w] \in Call /\ worker[w].to <= Len(chain)
      /\ worker[w].todo \in Seq(OnChain) /\ Current(w) \in OnChain
    BY CallFacts
<1>2. worker'[w].to <= Len(chain')
    BY <1>1, BoundsAssumption DEF Grows, Call, IndexerInv, ChainTyped
<1>3. worker'[w].todo \in Seq(OnChain')
    BY <1>1 DEF Grows
<1>4. EventAt(Current(w))' = EventAt(Current(w))
    BY <1>1 DEF Grows, Current, EventAt
<1> QED
    BY <1>2, <1>3, <1>4 DEF CallSound

\* The current activations of a user are rows, and nobody has none.
LEMMA CurrentActsFacts ==
    ASSUME IndexerInv, NEW u
    PROVE  /\ CurrentActs(u) \subseteq DOMAIN acts /\ CurrentActs(u) \in SUBSET Nat
           /\ CurrentActs(u) \in SUBSET (1 .. MaxRows)
           /\ CurrentActs(NoUser) = {}
<1>1. acts \in Seq(Activation) /\ Len(acts) <= MaxRows /\ MaxRows \in Nat
    BY BoundsAssumption DEF IndexerInv, TablesTyped
<1>2. \A i \in DOMAIN acts : acts[i].user # NoUser
    <2> TAKE i \in DOMAIN acts
    <2>1. acts[i] \in Activation
        BY <1>1, ElementOfSeq
    <2> QED
        BY <2>1, BoundsAssumption DEF Activation
<1>3. DOMAIN acts \in SUBSET (1 .. MaxRows)
    BY <1>1
<1> QED
    BY <1>2, <1>3 DEF CurrentActs

\* The activation that a purchase is counted for.
LEMMA ActRead ==
    ASSUME IndexerInv, NEW u
    PROVE  LET a == SomeAct(CurrentActs(u)) IN
           /\ a \in 0 .. MaxRows
           /\ a # 0 => a \in DOMAIN acts /\ acts[a].user = u /\ u # NoUser
           /\ CurrentActs(u) # {} => a # 0
<1> DEFINE a == SomeAct(CurrentActs(u))
<1>1. CurrentActs(u) \in SUBSET Nat /\ CurrentActs(u) \in SUBSET (1 .. MaxRows)
      /\ CurrentActs(NoUser) = {}
    BY CurrentActsFacts
<1>2. IF CurrentActs(u) = {} THEN a = 0 ELSE a \in CurrentActs(u)
    BY <1>1, SomeActIn
<1> HIDE DEF a
<1>3. a \in 0 .. MaxRows /\ (CurrentActs(u) # {} => a # 0)
    BY <1>1, <1>2, BoundsAssumption
<1>4. a # 0 => a \in CurrentActs(u)
    BY <1>2
<1> QED
    BY <1>1, <1>3, <1>4 DEF CurrentActs, a

\* A wallet belongs to its user, or to nobody.
LEMMA UserOfFacts ==
    ASSUME IndexerInv, NEW u
    PROVE  /\ UserOf(u) \in Users \cup {NoUser}
           /\ UserOf(u) # NoUser => UserOf(u) = u
    BY DEF UserOf, IndexerInv, ChainTyped

\* A stored purchase without a volume row: user and activation are read.
LEMMA LookAgainSound ==
    ASSUME IndexerInv, NEW w \in Workers, LookAgain(w), Grows
    PROVE  CallSound(worker[w])'
<1> DEFINE c == worker[w]
           u == UserOf(EventAt(Current(w)).user)
           d == [c EXCEPT !.phase = "repair", !.user = u, !.act = SomeAct(CurrentActs(u))]
<1>1. /\ c.todo # <<>> /\ c \in Call /\ worker' = [worker EXCEPT ![w] = d]
      /\ EventAt(Current(w)).kind = "Purchased" /\ u # NoUser /\ CurrentActs(u) # {}
    BY CallFacts DEF LookAgain, AtLog, Goto, NeedsRepair
<1>2. worker'[w] = d
    BY <1>1 DEF IndexerInv, CallsSound
<1>3. /\ u = EventAt(Current(w)).user /\ u \in Users \cup {NoUser}
    BY <1>1, UserOfFacts
<1> HIDE DEF u
<1> DEFINE a == SomeAct(CurrentActs(u))
<1>4. a \in 0 .. MaxRows /\ a # 0 /\ a \in DOMAIN acts /\ acts[a].user = u
    BY <1>1, ActRead
<1> HIDE DEF a
<1>5. d.to = c.to /\ d.todo = c.todo /\ d.phase = "repair" /\ d.user = u /\ d.act = a
    BY <1>1 DEF Call, a
<1>6. d \in Call
    <2>1. [c EXCEPT !.phase = "repair", !.user = u] \in Call
        BY <1>1, <1>3 DEF Call, Phases
    <2> QED
        BY <2>1, <1>4 DEF Call, a
<1> HIDE DEF d
<1>7. acts' = acts
    BY DEF LookAgain
<1>8. EventAt(Current(w))' = EventAt(Current(w)) => ReadSound(worker[w])'
    BY <1>1, <1>2, <1>3, <1>4, <1>5, <1>7 DEF ReadSound, Current
<1> QED
    BY <1>1, <1>2, <1>5, <1>6, <1>8, CallGoesOn

\* A row of the buyer that no purchase has named, of the purchase's volume.
LEMMA FindRowSound ==
    ASSUME IndexerInv, NEW w \in Workers, FindRow(w), Grows
    PROVE  CallSound(worker[w])'
<1> DEFINE c == worker[w]
           u == UserOf(EventAt(Current(w)).user)
<1>1. PICK i \in DOMAIN rows :
          /\ Nameless(i, u, Current(w))
          /\ Goto(w, [c EXCEPT !.phase = "adopt", !.user = u, !.row = i])
    BY DEF FindRow
<1> DEFINE d == [c EXCEPT !.phase = "adopt", !.user = u, !.row = i]
<1>2. /\ c.todo # <<>> /\ c \in Call /\ worker'[w] = d /\ c.act = 0
      /\ EventAt(Current(w)).kind = "Purchased" /\ chain' = chain /\ rows' = rows
    BY <1>1, CallFacts DEF FindRow, AtLog, Goto, IndexerInv, CallsSound, ReadSound,
                           chainVars, marketVars
<1>3. u \in Users /\ i \in Nat
    <2>1. rows \in Seq(Row)
        BY DEF IndexerInv, TablesTyped
    <2>2. rows[i] \in Row /\ i \in Nat
        BY <2>1, ElementOfSeq
    <2> QED
        BY <1>1, <2>2 DEF Nameless, Row
<1>4. u # NoUser /\ u = EventAt(Current(w)).user
    BY <1>3, UserOfFacts, BoundsAssumption
<1>5. rows[i].user = u /\ rows[i].volume = EventAt(Current(w)).price
    BY <1>1 DEF Nameless
<1> HIDE DEF u
<1>6. /\ d.to = c.to /\ d.todo = c.todo /\ d.phase = "adopt" /\ d.user = u
      /\ d.row = i /\ d.act = 0
    BY <1>2 DEF Call
<1>7. d \in Call
    <2>1. [c EXCEPT !.phase = "adopt", !.user = u] \in Call
        BY <1>2, <1>3 DEF Call, Phases
    <2> QED
        BY <2>1, <1>3 DEF Call
<1> HIDE DEF d
<1>8. EventAt(Current(w))' = EventAt(Current(w)) => ReadSound(worker[w])'
    BY <1>2, <1>4, <1>5, <1>6 DEF ReadSound, Current
<1> QED
    BY <1>2, <1>6, <1>7, <1>8, CallGoesOn

\* A purchase or listing: the user, if known, and the activation, if any.
LEMMA LookMarketSound ==
    ASSUME IndexerInv, NEW w \in Workers, LookMarket(w), Grows
    PROVE  CallSound(worker[w])'
<1> DEFINE c == worker[w]
           u == UserOf(EventAt(Current(w)).user)
           d == [c EXCEPT !.phase = "store", !.user = u, !.act = SomeAct(CurrentActs(u))]
<1>1. /\ c.todo # <<>> /\ c \in Call /\ worker' = [worker EXCEPT ![w] = d]
      /\ EventAt(Current(w)).kind \in {"Purchased", "Listed"}
    BY CallFacts DEF LookMarket, AtLog, Goto
<1>2. worker'[w] = d
    BY <1>1 DEF IndexerInv, CallsSound
<1>3. u \in Users \cup {NoUser} /\ (u # NoUser => u = EventAt(Current(w)).user)
    BY UserOfFacts
<1> HIDE DEF u
<1> DEFINE a == SomeAct(CurrentActs(u))
<1>4. a \in 0 .. MaxRows /\ (a # 0 => a \in DOMAIN acts /\ acts[a].user = u /\ u # NoUser)
    BY ActRead
<1> HIDE DEF a
<1>5. d.to = c.to /\ d.todo = c.todo /\ d.phase = "store" /\ d.user = u /\ d.act = a
    BY <1>1 DEF Call, a
<1>6. d \in Call
    <2>1. [c EXCEPT !.phase = "store", !.user = u] \in Call
        BY <1>1, <1>3 DEF Call, Phases
    <2> QED
        BY <2>1, <1>4 DEF Call, a
<1> HIDE DEF d
<1>7. acts' = acts
    BY DEF LookMarket
<1>8. EventAt(Current(w))' = EventAt(Current(w)) => ReadSound(worker[w])'
    BY <1>1, <1>2, <1>3, <1>4, <1>5, <1>7 DEF ReadSound, Current
<1> QED
    BY <1>1, <1>2, <1>5, <1>6, <1>8, CallGoesOn

\* An activation: its user, its package and the row its transaction has.
LEMMA LookPackageSound ==
    ASSUME IndexerInv, NEW w \in Workers, LookPackage(w), Grows
    PROVE  CallSound(worker[w])'
<1> DEFINE c == worker[w]
           ev == EventAt(Current(w))
           dup == SomeAct(ActsOfTx(Current(w)[1]))
           known == UserOf(ev.user) # NoUser /\ ev.package \in Tiers
           d == worker'[w]
<1>1. /\ c.todo # <<>> /\ c \in Call /\ c.phase = "look" /\ acts' = acts
      /\ ev.kind \in {"Registered", "Activated", "Upgraded"} /\ ReadSound(c)
    BY CallFacts DEF LookPackage, AtLog, Goto
<1>2. d = IF ev.kind # "Registered" /\ known
          THEN [c EXCEPT !.phase = IF dup = 0 THEN "clear" ELSE "store",
                         !.user = ev.user, !.act = dup]
          ELSE [c EXCEPT !.phase = "store"]
    BY DEF LookPackage, Goto, IndexerInv, CallsSound
<1>3. dup \in 0 .. MaxRows /\ (dup # 0 => dup \in DOMAIN acts)
    <2> DEFINE S == ActsOfTx(Current(w)[1])
    <2>1. S \in SUBSET DOMAIN acts /\ S \in SUBSET Nat /\ S \in SUBSET (1 .. MaxRows)
        BY BoundsAssumption DEF ActsOfTx, IndexerInv, TablesTyped
    <2> HIDE DEF S
    <2>2. IF S = {} THEN SomeAct(S) = 0 ELSE SomeAct(S) \in S
        BY <2>1, SomeActIn
    <2> QED
        BY <2>1, <2>2, BoundsAssumption DEF S
<1>4. known => ev.user # NoUser /\ ev.user \in Users /\ ev.package \in Tiers
    BY UserOfFacts
<1> HIDE DEF dup, known, d
<1>5. CASE ev.kind # "Registered" /\ known
    <2>1. d = [c EXCEPT !.phase = IF dup = 0 THEN "clear" ELSE "store",
                        !.user = ev.user, !.act = dup]
        BY <1>2, <1>5
    <2>2. /\ d.to = c.to /\ d.todo = c.todo /\ d.user = ev.user /\ d.act = dup
          /\ d.phase = (IF dup = 0 THEN "clear" ELSE "store")
        BY <1>1, <2>1 DEF Call
    <2>3. d \in Call
        <3>1. [c EXCEPT !.phase = IF dup = 0 THEN "clear" ELSE "store"] \in Call
            BY <1>1 DEF Call, Phases
        <3>2. [c EXCEPT !.phase = IF dup = 0 THEN "clear" ELSE "store", !.user = ev.user] \in Call
            BY <3>1, <1>4, <1>5 DEF Call
        <3> QED
            BY <2>1, <3>2, <1>3 DEF Call
    <2>4. EventAt(Current(w))' = EventAt(Current(w)) => ReadSound(worker[w])'
        BY <1>1, <1>3, <1>4, <1>5, <2>2 DEF ReadSound, Current, d
    <2> QED
        BY <1>1, <2>2, <2>3, <2>4, CallGoesOn DEF d
<1>6. CASE ~(ev.kind # "Registered" /\ known)
    <2>1. d = [c EXCEPT !.phase = "store"]
        BY <1>2, <1>6
    <2>2. /\ d.to = c.to /\ d.todo = c.todo /\ d.user = c.user /\ d.act = c.act
          /\ d.phase = "store"
        BY <1>1, <2>1 DEF Call
    <2>3. d \in Call
        BY <1>1, <2>1 DEF Call, Phases
    <2>4. c.user = NoUser /\ c.act = 0
        BY <1>1 DEF ReadSound
    <2>5. EventAt(Current(w))' = EventAt(Current(w)) => ReadSound(worker[w])'
        BY <1>1, <2>2, <2>4 DEF ReadSound, Current, d
    <2> QED
        BY <1>1, <2>2, <2>3, <2>5, CallGoesOn DEF d
<1> QED
    BY <1>5, <1>6

\* The user is known and the package too when the rows are cleared.
LEMMA ClearCurrentSound ==
    ASSUME IndexerInv, NEW w \in Workers, ClearCurrent(w), Grows
    PROVE  CallSound(worker[w])'
<1> DEFINE c == worker[w]
           seen == CurrentActs(c.user)
           d == [c EXCEPT !.phase = "store", !.current = seen]
<1>1. /\ c.todo # <<>> /\ c \in Call /\ c.phase = "clear" /\ acts' = acts
      /\ worker'[w] = d /\ ReadSound(c)
    BY CallFacts DEF ClearCurrent, AtLog, Goto, IndexerInv, CallsSound
<1>2. seen \in SUBSET (1 .. MaxRows)
    BY CurrentActsFacts
<1> HIDE DEF seen
<1>3. /\ d.to = c.to /\ d.todo = c.todo /\ d.user = c.user /\ d.act = c.act
      /\ d.phase = "store"
    BY <1>1 DEF Call
<1>4. d \in Call
    BY <1>1, <1>2 DEF Call, Phases
<1> HIDE DEF d
<1>5. EventAt(Current(w))' = EventAt(Current(w)) => ReadSound(worker[w])'
    BY <1>1, <1>3 DEF ReadSound, Current
<1> QED
    BY <1>1, <1>3, <1>4, <1>5, CallGoesOn

\* A call moves to a phase that relies on the same readings.
LEMMA CallMoves ==
    ASSUME IndexerInv, NEW w \in Workers, Grows, worker[w].todo # <<>>,
           NEW phase \in Phases, NEW new \in BOOLEAN, NEW volume \in Nat,
           worker'[w] = [worker[w] EXCEPT !.phase = phase, !.volume = volume, !.new = new],
           phase \in {"measure", "judge", "burn", "check", "pay"},
           worker[w].act # 0,
           phase \in {"measure", "judge"} => EventAt(Current(w)).kind = "Purchased"
    PROVE  CallSound(worker[w])'
<1> DEFINE c == worker[w]
           d == [c EXCEPT !.phase = phase, !.volume = volume, !.new = new]
<1>1. c \in Call /\ ReadSound(c)
    BY CallFacts
<1>2. /\ d.to = c.to /\ d.todo = c.todo /\ d.user = c.user /\ d.act = c.act
      /\ d.phase = phase
    BY <1>1 DEF Call
<1>3. d \in Call
    <2>1. [c EXCEPT !.phase = phase, !.volume = volume] \in Call
        BY <1>1 DEF Call
    <2> QED
        BY <2>1 DEF Call
<1>4. worker'[w] = d
    OBVIOUS
<1> HIDE DEF d
<1>5. c.act \in DOMAIN acts => c.act \in DOMAIN acts' /\ acts'[c.act].user = acts[c.act].user
    BY DEF Grows
<1>6. EventAt(Current(w))' = EventAt(Current(w)) => ReadSound(worker[w])'
    BY <1>1, <1>2, <1>4, <1>5 DEF ReadSound, Current
<1> QED
    BY <1>2, <1>3, <1>4, <1>6, CallGoesOn

\* The same call, with a field it already has written out.
LEMMA SameCall ==
    ASSUME NEW c \in Call, NEW phase
    PROVE  /\ [c EXCEPT !.phase = phase]
                = [c EXCEPT !.phase = phase, !.volume = c.volume, !.new = c.new]
           /\ \A new : [c EXCEPT !.phase = phase, !.new = new]
                = [c EXCEPT !.phase = phase, !.volume = c.volume, !.new = new]
           /\ \A volume : [c EXCEPT !.phase = phase, !.volume = volume]
                = [c EXCEPT !.phase = phase, !.volume = volume, !.new = c.new]
    BY DEF Call

\* Only a purchase with an activation is measured.
LEMMA StorePurchaseSound ==
    ASSUME IndexerInv, NEW w \in Workers, StorePurchase(w), Grows
    PROVE  CallSound(worker[w])'
<1> DEFINE c == worker[w]
<1>1. /\ c.todo # <<>> /\ c \in Call /\ c.volume \in Nat
      /\ EventAt(Current(w)).kind = "Purchased"
    BY CallFacts DEF StorePurchase, AtLog, Call
<1>2. worker'[w] = IF CountsVolume(c) THEN [c EXCEPT !.phase = "measure", !.new = TRUE]
                   ELSE AfterLog(w)
    BY DEF StorePurchase, Goto, IndexerInv, CallsSound
<1>3. CASE CountsVolume(c)
    <2>1. worker'[w] = [c EXCEPT !.phase = "measure", !.volume = c.volume, !.new = TRUE]
        BY <1>1, <1>2, <1>3, SameCall
    <2> QED
        BY <1>1, <1>3, <2>1, CallMoves DEF Phases, CountsVolume
<1>4. CASE ~CountsVolume(c)
    BY <1>1, <1>2, <1>4, CallForgets
<1> QED
    BY <1>3, <1>4

\* So is a purchase repaired.
LEMMA RepairSound ==
    ASSUME IndexerInv, NEW w \in Workers, Repair(w), Grows
    PROVE  CallSound(worker[w])'
<1> DEFINE c == worker[w]
<1>1. /\ c.todo # <<>> /\ c \in Call /\ c.volume \in Nat /\ c.new \in BOOLEAN
      /\ c.phase = "repair" /\ ReadSound(c)
    BY CallFacts DEF Repair, AtLog, Call
<1>2. EventAt(Current(w)).kind = "Purchased" /\ c.act # 0
    BY <1>1 DEF ReadSound, Current
<1>3. worker'[w] = [c EXCEPT !.phase = "measure", !.volume = c.volume, !.new = c.new]
    <2>1. worker'[w] = [c EXCEPT !.phase = "measure"]
        BY DEF Repair, Goto, IndexerInv, CallsSound
    <2> QED
        BY <1>1, <2>1, SameCall
<1> QED
    BY <1>1, <1>2, <1>3, CallMoves DEF Phases

\* What a user traded in a period is a number.
LEMMA VolumeIsNat ==
    ASSUME TablesTyped, NEW u, NEW p
    PROVE  VolumeIn(u, p) \in Nat
<1> DEFINE S == {i \in DOMAIN rows : rows[i].user = u /\ rows[i].period = p}
           f == [i \in DOMAIN rows |-> rows[i].volume]
<1>1. IsFiniteSet(S) /\ S \in SUBSET DOMAIN rows
    <2>1. IsFiniteSet(DOMAIN rows) /\ S \in SUBSET DOMAIN rows
        BY FS_Interval DEF TablesTyped
    <2> HIDE DEF S
    <2> QED
        BY <2>1, FS_Subset
<1>2. \A i \in DOMAIN rows : rows[i].volume \in Nat
    <2> TAKE i \in DOMAIN rows
    <2>1. rows[i] \in Row
        BY ElementOfSeq DEF TablesTyped
    <2> QED
        BY <2>1 DEF Row
<1>3. \A i \in S : f[i] \in Nat
    BY <1>1, <1>2
<1> HIDE DEF S, f
<1> QED
    BY <1>1, <1>3, SumNat DEF VolumeIn, S, f

\* The volume that is judged has just been read.
LEMMA MeasureSound ==
    ASSUME IndexerInv, NEW w \in Workers, Measure(w), Grows
    PROVE  CallSound(worker[w])'
<1> DEFINE c == worker[w]
           v == VolumeIn(c.user, period)
<1>1. /\ c.todo # <<>> /\ c \in Call /\ c.new \in BOOLEAN
      /\ c.phase = "measure" /\ ReadSound(c)
    BY CallFacts DEF Measure, AtLog, Call
<1>2. EventAt(Current(w)).kind = "Purchased" /\ c.act # 0
    BY <1>1 DEF ReadSound, Current
<1>3. v \in Nat
    BY VolumeIsNat DEF IndexerInv
<1>4. worker'[w] = IF chain[Current(w)[1]].period = period
                   THEN [c EXCEPT !.phase = "judge", !.volume = v]
                   ELSE AfterLog(w)
    BY DEF Measure, Goto, IndexerInv, CallsSound
<1> HIDE DEF v
<1>5. CASE chain[Current(w)[1]].period = period
    <2>1. worker'[w] = [c EXCEPT !.phase = "judge", !.volume = v, !.new = c.new]
        BY <1>1, <1>4, <1>5, SameCall
    <2> QED
        BY <1>1, <1>2, <1>3, <2>1, CallMoves DEF Phases
<1>6. CASE chain[Current(w)[1]].period # period
    BY <1>1, <1>4, <1>6, CallForgets
<1> QED
    BY <1>5, <1>6

\* A user who missed the target goes on to lose the records.
LEMMA JudgeSound ==
    ASSUME IndexerInv, NEW w \in Workers, Judge(w), Grows
    PROVE  CallSound(worker[w])'
<1> DEFINE c == worker[w]
           met == Meets(c.volume, Required[acts[c.act].package])
<1>1. /\ c.todo # <<>> /\ c \in Call /\ c.new \in BOOLEAN /\ c.volume \in Nat
      /\ c.phase = "judge" /\ ReadSound(c)
    BY CallFacts DEF Judge, AtLog, Call
<1>2. c.act # 0
    BY <1>1 DEF ReadSound
<1>3. worker'[w] = IF met THEN AfterLog(w) ELSE [c EXCEPT !.phase = "burn"]
    BY DEF Judge, Goto, IndexerInv, CallsSound
<1> HIDE DEF met
<1>4. CASE met
    BY <1>1, <1>3, <1>4, CallForgets
<1>5. CASE ~met
    <2>1. worker'[w] = [c EXCEPT !.phase = "burn", !.volume = c.volume, !.new = c.new]
        BY <1>1, <1>3, <1>5, SameCall
    <2> QED
        BY <1>1, <1>2, <2>1, CallMoves DEF Phases
<1> QED
    BY <1>4, <1>5

\* A stored Activated with its row goes on to the distribution ...
LEMMA StoreEventOnlySound ==
    ASSUME IndexerInv, NEW w \in Workers, StoreEventOnly(w), Grows
    PROVE  CallSound(worker[w])'
<1> DEFINE c == worker[w]
           repays == EventAt(Current(w)).kind = "Activated" /\ c.act # 0
<1>1. c.todo # <<>> /\ c \in Call /\ c.volume \in Nat /\ c.new \in BOOLEAN
    BY CallFacts DEF StoreEventOnly, AtLog, Call
<1>2. worker'[w] = IF repays THEN [c EXCEPT !.phase = "check"] ELSE AfterLog(w)
    BY DEF StoreEventOnly, Goto, IndexerInv, CallsSound
<1>3. CASE repays
    <2>1. worker'[w] = [c EXCEPT !.phase = "check", !.volume = c.volume, !.new = c.new]
        BY <1>1, <1>2, <1>3, SameCall
    <2> QED
        BY <1>1, <1>3, <2>1, CallMoves DEF Phases
<1>4. CASE ~repays
    BY <1>1, <1>2, <1>4, CallForgets
<1> QED
    BY <1>3, <1>4

\* ... which pays the activation that was read.
LEMMA CheckDistributionSound ==
    ASSUME IndexerInv, NEW w \in Workers, CheckDistribution(w), Grows
    PROVE  CallSound(worker[w])'
<1> DEFINE c == worker[w]
<1>1. /\ c.todo # <<>> /\ c \in Call /\ c.volume \in Nat /\ c.new \in BOOLEAN
      /\ c.phase = "check" /\ ReadSound(c)
    BY CallFacts DEF CheckDistribution, AtLog, Call
<1>2. worker'[w] = IF acts[c.act].paid > 0 THEN AfterLog(w) ELSE [c EXCEPT !.phase = "pay"]
    BY DEF CheckDistribution, Goto, IndexerInv, CallsSound
<1>3. c.act # 0
    BY <1>1 DEF ReadSound
<1>4. CASE acts[c.act].paid > 0
    BY <1>1, <1>2, <1>4, CallForgets
<1>5. CASE ~(acts[c.act].paid > 0)
    <2>1. worker'[w] = [c EXCEPT !.phase = "pay", !.volume = c.volume, !.new = c.new]
        BY <1>1, <1>2, <1>5, SameCall
    <2> QED
        BY <1>1, <1>3, <2>1, CallMoves DEF Phases
<1> QED
    BY <1>4, <1>5

\* The activations after a new one: one more, of the same users and packages.
LEMMA ActivationAdds ==
    ASSUME IndexerInv, NEW w \in Workers, StoreActivation(w)
    PROVE  /\ acts' \in Seq(Activation) /\ Len(acts') = Len(acts) + 1
           /\ Len(acts') <= MaxRows
           /\ \A i \in DOMAIN acts : /\ acts'[i].user = acts[i].user
                                     /\ acts'[i].package = acts[i].package
<1> DEFINE c == worker[w]
           n == Len(acts)
           old == [i \in DOMAIN acts |->
                     IF i \in c.current THEN [acts[i] EXCEPT !.current = FALSE] ELSE acts[i]]
           x == [user |-> c.user, package |-> EventAt(Current(w)).package,
                 tx |-> Current(w)[1], current |-> TRUE, paid |-> 0]
<1>1. /\ c.todo # <<>> /\ c \in Call /\ ReadSound(c) /\ Current(w) \in EventIds
      /\ c.phase = "store" /\ c.user # NoUser
      /\ EventAt(Current(w)).kind \in {"Activated", "Upgraded"}
      /\ n < MaxRows /\ acts' = Append(old, x)
    BY CallFacts DEF StoreActivation, AtLog, Activated
<1>2. acts \in Seq(Activation) /\ n \in Nat /\ DOMAIN acts = 1 .. n
    BY DEF IndexerInv, TablesTyped
<1>3. x \in Activation
    <2>1. c.user \in Users
        BY <1>1 DEF Call
    <2>2. EventAt(Current(w)).package \in Tiers
        BY <1>1 DEF ReadSound, Current
    <2>3. Current(w)[1] \in 0 .. MaxBlock
        BY <1>1, BoundsAssumption DEF EventIds
    <2> QED
        BY <2>1, <2>2, <2>3 DEF Activation
<1>4. ASSUME NEW i \in DOMAIN acts
      PROVE  /\ old[i] \in Activation
             /\ old[i].user = acts[i].user /\ old[i].package = acts[i].package
    <2>1. acts[i] \in Activation
        BY <1>2, ElementOfSeq
    <2>2. old[i] = IF i \in c.current THEN [acts[i] EXCEPT !.current = FALSE] ELSE acts[i]
        OBVIOUS
    <2> HIDE DEF old
    <2> QED
        BY <2>1, <2>2 DEF Activation
<1>5. old \in Seq(Activation) /\ Len(old) = n
    <2>1. old \in [1 .. n -> Activation]
        BY <1>2, <1>4
    <2> HIDE DEF old
    <2> QED
        BY <1>2, <2>1
<1> HIDE DEF old, x
<1>6. /\ acts' \in Seq(Activation) /\ Len(acts') = n + 1
      /\ \A i \in 1 .. n : acts'[i] = old[i]
    BY <1>1, <1>3, <1>5, AppendProperties
<1>7. MaxRows \in Nat
    BY BoundsAssumption
<1>8. n + 1 <= MaxRows
    BY <1>1, <1>2, <1>7
<1> QED
    BY <1>2, <1>4, <1>6, <1>8

\* A new activation is the one that is paid.
LEMMA StoreActivationSound ==
    ASSUME IndexerInv, NEW w \in Workers, StoreActivation(w)
    PROVE  Grows /\ CallSound(worker[w])'
<1> DEFINE c == worker[w]
           d == [c EXCEPT !.phase = "check", !.act = Len(acts) + 1]
<1>1. /\ c.todo # <<>> /\ c \in Call /\ ReadSound(c)
      /\ EventAt(Current(w)).kind \in {"Activated", "Upgraded"}
      /\ worker'[w] = d /\ chain' = chain /\ indexed \subseteq indexed' /\ RowsGrow
    BY CallFacts, SameRows DEF StoreActivation, AtLog, Goto, IndexerInv, CallsSound, chainVars,
                               marketVars
<1>2. /\ acts' \in Seq(Activation) /\ Len(acts') = Len(acts) + 1 /\ Len(acts') <= MaxRows
      /\ \A i \in DOMAIN acts : /\ acts'[i].user = acts[i].user
                                /\ acts'[i].package = acts[i].package
    BY ActivationAdds
<1>3. Len(acts) \in Nat /\ DOMAIN acts = 1 .. Len(acts) /\ DOMAIN acts' = 1 .. Len(acts')
      /\ Len(chain) \in Nat
    BY <1>2 DEF IndexerInv, TablesTyped, ChainTyped
<1>4. Len(acts) + 1 \in DOMAIN acts' /\ Len(acts) + 1 # 0 /\ DOMAIN acts \subseteq DOMAIN acts'
      /\ Len(acts) + 1 \in 0 .. MaxRows
    BY <1>2, <1>3, BoundsAssumption
<1>5. Grows
    BY <1>1, <1>2, <1>3, <1>4, SameChain DEF Grows, EventAt
<1>6. /\ d.to = c.to /\ d.todo = c.todo /\ d.user = c.user /\ d.act = Len(acts) + 1
      /\ d.phase = "check"
    BY <1>1 DEF Call
<1>7. d \in Call
    BY <1>1, <1>4 DEF Call, Phases
<1> HIDE DEF d
<1>8. EventAt(Current(w))' = EventAt(Current(w)) => ReadSound(worker[w])'
    BY <1>1, <1>4, <1>6 DEF ReadSound, Current
<1> QED
    BY <1>1, <1>5, <1>6, <1>7, <1>8, CallGoesOn

\* A payment changes no user and no package.
LEMMA DistributeGrows ==
    ASSUME IndexerInv, NEW w \in Workers, Distribute(w)
    PROVE  /\ Grows /\ acts' \in Seq(Activation) /\ Len(acts') = Len(acts)
           /\ worker[w].todo # <<>>
<1> DEFINE a == worker[w].act
<1>1. /\ worker[w].todo # <<>> /\ worker[w].phase = "pay" /\ ReadSound(worker[w])
      /\ acts' = [acts EXCEPT ![a].paid = @ + 1] /\ chain' = chain /\ indexed' = indexed
      /\ RowsGrow
    BY CallFacts, SameRows DEF Distribute, AtLog, chainVars, marketVars
<1>2. acts \in Seq(Activation) /\ Len(chain) \in Nat
    BY DEF IndexerInv, TablesTyped, ChainTyped
<1>3. a \in DOMAIN acts
    BY <1>1 DEF ReadSound
<1> HIDE DEF a
<1>4. ASSUME NEW i \in DOMAIN acts
      PROVE  /\ acts'[i] \in Activation
             /\ acts'[i].user = acts[i].user /\ acts'[i].package = acts[i].package
    <2>1. acts[i] \in Activation
        BY <1>2, ElementOfSeq
    <2>2. acts'[i] = IF i = a THEN [acts[i] EXCEPT !.paid = @ + 1] ELSE acts[i]
        BY <1>1, <1>3
    <2> QED
        BY <2>1, <2>2 DEF Activation
<1>5. acts' \in Seq(Activation) /\ Len(acts') = Len(acts) /\ DOMAIN acts' = DOMAIN acts
    <2>1. DOMAIN acts' = DOMAIN acts /\ acts' = [i \in DOMAIN acts |-> acts'[i]]
        BY <1>1, <1>2
    <2>2. DOMAIN acts = 1 .. Len(acts) /\ Len(acts) \in Nat
        BY <1>2
    <2>3. acts' \in [1 .. Len(acts) -> Activation]
        BY <1>4, <2>1, <2>2
    <2> QED
        BY <2>1, <2>2, <2>3
<1>6. Grows
    BY <1>1, <1>2, <1>4, <1>5, SameChain DEF Grows, EventAt
<1> QED
    BY <1>1, <1>5, <1>6

(***************************************************************************)
(* Steps that write tables.                                                *)
(***************************************************************************)

\* A row that is added leaves the others.
LEMMA AppendGrows ==
    ASSUME IndexerInv, NEW row \in Row, rows' = Append(rows, row)
    PROVE  /\ rows' \in Seq(Row) /\ RowsGrow
           /\ Len(rows) + 1 \in DOMAIN rows' /\ rows'[Len(rows) + 1] = row
<1>1. rows \in Seq(Row)
    BY DEF IndexerInv, TablesTyped
<1>2. /\ rows' \in Seq(Row) /\ Len(rows') = Len(rows) + 1 /\ Len(rows) \in Nat
      /\ \A i \in 1 .. Len(rows) : rows'[i] = rows[i]
      /\ rows'[Len(rows) + 1] = row
    BY <1>1, AppendProperties
<1>3. DOMAIN rows = 1 .. Len(rows) /\ DOMAIN rows' = 1 .. Len(rows) + 1
    BY <1>1, <1>2
<1> QED
    BY <1>2, <1>3 DEF RowsGrow

\* The row of a purchase is a row.
LEMMA TradingRowTyped ==
    ASSUME IndexerInv, NEW u \in Users, NEW a \in 1 .. MaxRows, NEW e \in OnChain,
           EventAt(e).kind = "Purchased", rows' = WithTradingRow(u, a, e)
    PROVE  rows' \in Seq(Row) /\ RowsGrow
<1> DEFINE row == TradingRow(u, a, e)
<1>1. row \in Row
    <2>1. /\ e[1] \in 0 .. MaxBlock /\ EventAt(e).token \in Tokens
          /\ chain[e[1]].period \in 0 .. MaxPeriod /\ EventAt(e).price \in Nat
        BY OnChainEvents, BoundsAssumption DEF IndexerInv, EventIds, Event
    <2> QED
        BY <2>1 DEF TradingRow, Row
<1>2. rows \in Seq(Row)
    BY DEF IndexerInv, TablesTyped
<1>3. rows' = rows \/ rows' = Append(rows, row)
    BY DEF WithTradingRow
<1> HIDE DEF row
<1> QED
    BY <1>1, <1>2, <1>3, SameRows, AppendGrows

\* So is a row that is named after a purchase.
LEMMA NamedTyped ==
    ASSUME IndexerInv, NEW i \in DOMAIN rows, NEW u, NEW e \in OnChain,
           EventAt(e).kind = "Purchased", rows' = Named(i, u, e)
    PROVE  rows' \in Seq(Row) /\ RowsGrow
<1>1. rows \in Seq(Row)
    BY DEF IndexerInv, TablesTyped
<1>2. e[1] \in 0 .. MaxBlock /\ EventAt(e).token \in Tokens
    BY OnChainEvents, BoundsAssumption DEF IndexerInv, EventIds
<1>3. CASE rows' = rows
    BY <1>1, <1>3, SameRows
<1>4. CASE rows' # rows
    <2> DEFINE row == [rows[i] EXCEPT !.tx = e[1], !.token = EventAt(e).token]
    <2>1. rows' = [rows EXCEPT ![i] = row]
        BY <1>4 DEF Named
    <2>2. /\ row \in Row /\ row.user = rows[i].user /\ row.act = rows[i].act
          /\ row.period = rows[i].period /\ row.volume = rows[i].volume
        <3>1. rows[i] \in Row
            BY <1>1, ElementOfSeq
        <3> QED
            BY <1>2, <3>1 DEF Row
    <2> HIDE DEF row
    <2>3. rows' \in Seq(Row) /\ DOMAIN rows' = DOMAIN rows
        BY <1>1, <2>1, <2>2
    <2>4. \A k \in DOMAIN rows : rows'[k] = IF k = i THEN row ELSE rows[k]
        BY <1>1, <2>1
    <2> QED
        BY <2>2, <2>3, <2>4 DEF RowsGrow
<1> QED
    BY <1>3, <1>4

\* A listing.
LEMMA StoreListedTables ==
    ASSUME IndexerInv, NEW w \in Workers, StoreListed(w)
    PROVE  TablesTyped'
<1> DEFINE ev == EventAt(Current(w))
<1>1. /\ Current(w) \in OnChain /\ ev \in Event /\ ev.kind = "Listed" /\ chain' = chain
      /\ record' = IF record[ev.token].user = NoUser THEN record
                   ELSE [record EXCEPT ![ev.token].value = ev.price]
      /\ indexed' = indexed \cup {Current(w)}
      /\ UNCHANGED <<cursor, rows, compliance, acts, due, granting, sales, granted, faults>>
    BY CallFacts DEF StoreListed, AtLog, chainVars, incomeVars
<1>2. OnChain' = OnChain
    BY <1>1, SameChain
<1>3. ev.token \in Tokens /\ ev.price \in Nat
    BY <1>1, OnChainEvents DEF IndexerInv, Event
<1> HIDE DEF ev
<1>4. record' \in [Tokens -> [user : Users \cup {NoUser}, value : Nat, burned : BOOLEAN]]
    BY <1>1, <1>3 DEF IndexerInv, TablesTyped
<1> QED
    BY <1>1, <1>2, <1>4 DEF IndexerInv, TablesTyped

\* A purchase: owner, volume row and log.
LEMMA StorePurchaseTables ==
    ASSUME IndexerInv, NEW w \in Workers, StorePurchase(w)
    PROVE  TablesTyped' /\ Grows
<1> DEFINE e == Current(w)
           ev == EventAt(Current(w))
           c == worker[w]
<1>1. /\ e \in OnChain /\ ev \in Event /\ ev.kind = "Purchased" /\ chain' = chain
      /\ c \in Call /\ ReadSound(c)
      /\ record' = IF c.user = NoUser THEN record
                   ELSE [record EXCEPT ![ev.token] =
                           [@ EXCEPT !.user = c.user, !.value = ev.price]]
      /\ rows' = IF CountsVolume(c) THEN WithTradingRow(c.user, c.act, e) ELSE rows
      /\ indexed' = indexed \cup {e}
      /\ due' = IF CountsVolume(c) THEN due ELSE due \cup {e}
      /\ UNCHANGED <<cursor, compliance, acts, granting, sales, granted, faults>>
    BY CallFacts DEF StorePurchase, AtLog, chainVars
<1>2. OnChain' = OnChain
    BY <1>1, SameChain
<1>3. ev.token \in Tokens /\ ev.price \in Nat
    BY <1>1, OnChainEvents DEF IndexerInv, Event
<1>4. c.user \in Users \cup {NoUser} /\ c.act \in 0 .. MaxRows
    BY <1>1 DEF Call
<1>5. CountsVolume(c) => c.user \in Users /\ c.act \in 1 .. MaxRows
    BY <1>1, <1>4 DEF CountsVolume, ReadSound, Current
<1>6. rows' \in Seq(Row)
    BY <1>1, <1>5, TradingRowTyped DEF IndexerInv, TablesTyped
<1>8. RowsGrow
    BY <1>1, <1>5, TradingRowTyped, SameRows
<1>9. Grows
    BY <1>1, <1>8, QuietGrows DEF IndexerInv, ChainTyped
<1> HIDE DEF ev, e, c
<1>7. record' \in [Tokens -> [user : Users \cup {NoUser}, value : Nat, burned : BOOLEAN]]
    BY <1>1, <1>3, <1>4 DEF IndexerInv, TablesTyped
<1> QED
    BY <1>1, <1>2, <1>6, <1>7, <1>9 DEF IndexerInv, TablesTyped

\* A repaired volume row.
LEMMA RepairTables ==
    ASSUME IndexerInv, NEW w \in Workers, Repair(w)
    PROVE  TablesTyped' /\ Grows
<1> DEFINE c == worker[w]
<1>1. /\ Current(w) \in OnChain /\ chain' = chain
      /\ c \in Call /\ ReadSound(c) /\ c.phase = "repair"
      /\ rows' = WithTradingRow(c.user, c.act, Current(w))
      /\ UNCHANGED <<indexed, cursor, record, compliance, acts, due, granting, sales,
                     granted, faults>>
    BY CallFacts DEF Repair, AtLog, chainVars, incomeVars
<1>2. OnChain' = OnChain
    BY <1>1, SameChain
<1>3. EventAt(Current(w)).kind = "Purchased" /\ c.user \in Users /\ c.act \in 1 .. MaxRows
    BY <1>1 DEF ReadSound, Current, Call
<1>4. rows' \in Seq(Row) /\ RowsGrow
    BY <1>1, <1>3, TradingRowTyped
<1>5. Grows
    BY <1>1, <1>4, QuietGrows DEF IndexerInv, ChainTyped
<1> QED
    BY <1>1, <1>2, <1>4, <1>5 DEF IndexerInv, TablesTyped

\* A row that is named.
LEMMA AdoptRowTables ==
    ASSUME IndexerInv, NEW w \in Workers, AdoptRow(w)
    PROVE  TablesTyped' /\ Grows
<1> DEFINE c == worker[w]
<1>1. /\ Current(w) \in OnChain /\ chain' = chain
      /\ c \in Call /\ ReadSound(c) /\ c.phase = "adopt"
      /\ rows' = Named(c.row, c.user, Current(w))
      /\ UNCHANGED <<indexed, cursor, record, compliance, acts, due, granting, sales,
                     granted, faults>>
    BY CallFacts DEF AdoptRow, AtLog, chainVars, incomeVars
<1>2. OnChain' = OnChain
    BY <1>1, SameChain
<1>3. EventAt(Current(w)).kind = "Purchased" /\ c.row \in DOMAIN rows
    BY <1>1 DEF ReadSound, Current
<1>4. rows' \in Seq(Row) /\ RowsGrow
    BY <1>1, <1>3, NamedTyped
<1>5. Grows
    BY <1>1, <1>4, QuietGrows DEF IndexerInv, ChainTyped
<1> QED
    BY <1>1, <1>2, <1>4, <1>5 DEF IndexerInv, TablesTyped

\* A volume that is read.
LEMMA MeasureTables ==
    ASSUME IndexerInv, NEW w \in Workers, Measure(w)
    PROVE  TablesTyped'
<1>1. /\ Current(w) \in OnChain /\ chain' = chain /\ due' \subseteq due \cup {Current(w)}
      /\ UNCHANGED <<indexed, cursor, record, rows, compliance, acts, granting, sales,
                     granted, faults>>
    BY CallFacts DEF Measure, AtLog, chainVars, marketVars
<1>2. OnChain' = OnChain
    BY <1>1, SameChain
<1> QED
    BY <1>1, <1>2 DEF IndexerInv, TablesTyped

\* A verdict ...
LEMMA VerdictTyped ==
    ASSUME IndexerInv, NEW u, NEW p \in 0 .. MaxPeriod, NEW met
    PROVE  WithVerdict(u, p, met) \in [Users -> [0 .. MaxPeriod -> Verdicts]]
    BY DEF WithVerdict, Verdicts, IndexerInv, TablesTyped

LEMMA JudgeTables ==
    ASSUME IndexerInv, NEW w \in Workers, Judge(w)
    PROVE  TablesTyped'
<1> DEFINE e == Current(w)
           u == worker[w].user
           met == Meets(worker[w].volume, Required[acts[worker[w].act].package])
<1>1. /\ e \in OnChain /\ chain' = chain /\ due' \subseteq due \cup {e}
      /\ compliance' = WithVerdict(u, chain[e[1]].period, met)
      /\ UNCHANGED <<indexed, cursor, record, rows, acts, granting, sales, granted, faults>>
    BY CallFacts DEF Judge, AtLog, chainVars
<1>2. OnChain' = OnChain
    BY <1>1, SameChain
<1>3. chain[e[1]].period \in 0 .. MaxPeriod
    BY <1>1, OnChainEvents DEF IndexerInv
<1> HIDE DEF met, u, e
<1>4. compliance' \in [Users -> [0 .. MaxPeriod -> Verdicts]]
    BY <1>1, <1>3, VerdictTyped
<1> QED
    BY <1>1, <1>2, <1>4 DEF IndexerInv, TablesTyped

\* ... and the records that are burned.
LEMMA BurnedTyped ==
    ASSUME IndexerInv, NEW u
    PROVE  WithBurned(u) \in [Tokens -> [user : Users \cup {NoUser}, value : Nat,
                                        burned : BOOLEAN]]
    BY DEF WithBurned, IndexerInv, TablesTyped

LEMMA BurnRecordsTables ==
    ASSUME IndexerInv, NEW w \in Workers, BurnRecords(w)
    PROVE  TablesTyped'
<1>1. /\ Current(w) \in OnChain /\ chain' = chain /\ due' \subseteq due \cup {Current(w)}
      /\ record' = WithBurned(worker[w].user)
      /\ UNCHANGED <<indexed, cursor, rows, compliance, acts, granting, sales, granted, faults>>
    BY CallFacts DEF BurnRecords, AtLog, chainVars
<1>2. OnChain' = OnChain
    BY <1>1, SameChain
<1> QED
    BY <1>1, <1>2, BurnedTyped DEF IndexerInv, TablesTyped

\* Steps that write no table but those of the income.
LEMMA OtherTables ==
    ASSUME IndexerInv, chain' = chain, acts' = acts, marketVars' = marketVars,
           indexed \subseteq indexed', indexed' \subseteq OnChain,
           cursor' \in 0 .. MaxBlock, due' \subseteq OnChain,
           sales' \subseteq OnChain, granting' \subseteq sales',
           granted' \in [EventIds -> Nat], faults' \in 0 .. MaxFaults
    PROVE  TablesTyped' /\ Grows
<1>1. OnChain' = OnChain
    BY SameChain
<1>2. Grows
    BY QuietGrows, SameRows DEF IndexerInv, ChainTyped, marketVars
<1> QED
    BY <1>1, <1>2 DEF IndexerInv, TablesTyped, marketVars

\* Steps that only read.
LEMMA QuietTables ==
    ASSUME IndexerInv,
           UNCHANGED <<chain, indexed, cursor, marketVars, acts, incomeVars, faults>>
    PROVE  TablesTyped' /\ Grows
<1>1. UNCHANGED <<due, granting, sales, granted>>
    BY DEF incomeVars
<1> QED
    BY <1>1, OtherTables DEF IndexerInv, TablesTyped

\* A step of one worker leaves the others sound.
LEMMA OneCall ==
    ASSUME IndexerInv, Grows, NEW w \in Workers, NEW d,
           worker' = [worker EXCEPT ![w] = d], CallSound(worker[w])'
    PROVE  CallsSound'
<1>1. worker \in [Workers -> Call]
    BY DEF IndexerInv, CallsSound
<1>2. worker'[w] \in Call
    BY DEF CallSound
<1>3. worker' \in [Workers -> Call]
    BY <1>1, <1>2
<1>4. ASSUME NEW v \in Workers, v # w PROVE CallSound(worker[v])'
    <2>1. worker'[v] = worker[v]
        BY <1>1, <1>4
    <2> QED
        BY <2>1, CallKept
<1> QED
    BY <1>3, <1>4 DEF CallsSound

\* A step of no worker leaves all of them sound.
LEMMA SameCalls ==
    ASSUME IndexerInv, Grows, worker' = worker
    PROVE  CallsSound'
<1>1. \A w \in Workers : CallSound(worker[w])'
    BY CallKept
<1> QED
    BY <1>1 DEF IndexerInv, CallsSound

\* What a request relies on stays.
LEMMA RequestKept ==
    ASSUME IndexerInv, Grows, NEW r \in Requests, request'[r] = request[r]
    PROVE  RequestSound(request[r])'
<1> DEFINE q == request[r]
<1>1. RequestSound(q) /\ q' = q
    BY DEF IndexerInv, RequestsSound
<1>2. ASSUME q.phase \in {"measure", "judge"}
      PROVE  /\ q.act \in DOMAIN acts'
             /\ \E k \in DOMAIN rows' : rows'[k].user = q.user /\ rows'[k].act = q.act
    <2>1. q.act \in DOMAIN acts /\ \E k \in DOMAIN rows : rows[k].user = q.user /\ rows[k].act = q.act
        BY <1>1, <1>2 DEF RequestSound
    <2> QED
        BY <2>1 DEF Grows, RowsGrow
<1>3. ASSUME q.phase = "name"
      PROVE  /\ q.log \in OnChain' /\ EventAt(q.log)' = EventAt(q.log)
             /\ q.row \in DOMAIN rows' /\ rows'[q.row].user = rows[q.row].user
             /\ rows'[q.row].volume = rows[q.row].volume
    <2>1. q.log \in OnChain /\ q.row \in DOMAIN rows
        BY <1>1, <1>3 DEF RequestSound
    <2>2. q.log \in OnChain' /\ EventAt(q.log)' = EventAt(q.log)
        BY <1>1, <2>1 DEF Grows, EventAt
    <2>3. /\ q.row \in DOMAIN rows' /\ rows'[q.row].user = rows[q.row].user
          /\ rows'[q.row].volume = rows[q.row].volume
        BY <2>1 DEF Grows, RowsGrow
    <2> QED
        BY <2>2, <2>3
<1> HIDE DEF q
<1>4. request'[r] = q
    BY DEF q
<1> QED
    BY <1>1, <1>2, <1>3, <1>4 DEF RequestSound, EventAt

\* A step of no request leaves all of them sound, ...
LEMMA SameRequests ==
    ASSUME IndexerInv, Grows, request' = request
    PROVE  RequestsSound'
<1>1. \A r \in Requests : RequestSound(request[r])'
    BY RequestKept
<1> QED
    BY <1>1 DEF IndexerInv, RequestsSound

\* ... and a step of one the others.
LEMMA OneRequest ==
    ASSUME IndexerInv, Grows, NEW r \in Requests, NEW q,
           request' = [request EXCEPT ![r] = q], RequestSound(request[r])'
    PROVE  RequestsSound'
<1>1. request \in [Requests -> Request]
    BY DEF IndexerInv, RequestsSound
<1>2. request'[r] \in Request
    BY DEF RequestSound
<1>3. request' \in [Requests -> Request]
    BY <1>1, <1>2
<1>4. ASSUME NEW v \in Requests, v # r PROVE RequestSound(request[v])'
    <2>1. request'[v] = request[v]
        BY <1>1, <1>4
    <2> QED
        BY <2>1, RequestKept
<1> QED
    BY <1>3, <1>4 DEF RequestsSound

\* Calls start, ...
LEMMA StartSteps ==
    ASSUME IndexerInv, NEW w \in Workers, Calls(w)
    PROVE  IndexerInv' /\ Grows
<1>1. PICK d : Begin(w, d)
    BY DEF Calls, StartRange, StartHeadWindow, StartTx, StartBackfill
<1>2. /\ worker' = [worker EXCEPT ![w] = d]
      /\ UNCHANGED <<chain, indexed, cursor, marketVars, acts, incomeVars, faults>>
      /\ UNCHANGED <<chain, period, linked, request>>
    BY <1>1 DEF Begin, chainVars
<1>3. CallSound(worker[w])'
    BY RangeStarts, HeadStarts, TxStarts, BackfillStarts DEF Calls
<1>4. TablesTyped' /\ Grows
    BY <1>2, QuietTables
<1>5. ChainTyped'
    BY <1>2 DEF IndexerInv, ChainTyped
<1> QED
    BY <1>2, <1>3, <1>4, <1>5, OneCall, SameRequests DEF IndexerInv

\* ... go on with their log, ...
LEMMA LogSteps ==
    ASSUME IndexerInv, NEW w \in Workers, LogStep(w)
    PROVE  IndexerInv' /\ Grows
<1>1. /\ UNCHANGED <<chain, period, linked, request>>
      /\ \E d : worker' = [worker EXCEPT ![w] = d]
    BY DEF LogStep, SkipStored, LookAgain, FindRow, LookMarket, LookPackage, StoreListed,
           StorePurchase, LoseRace, Repair, AdoptRow, Measure, Judge, BurnRecords, StoreEventOnly, ClearCurrent,
           StoreActivation, CheckDistribution, Distribute, Finish, Goto, chainVars
<1>2. ChainTyped' /\ OnChain' = OnChain
    BY <1>1, SameChain DEF IndexerInv, ChainTyped
<1>3. PICK d : worker' = [worker EXCEPT ![w] = d]
    BY <1>1
<1>4. worker'[w] = d
    BY <1>3 DEF IndexerInv, CallsSound
<1>5. SUFFICES TablesTyped' /\ Grows /\ CallSound(worker[w])'
    BY <1>1, <1>2, <1>3, OneCall, SameRequests DEF IndexerInv
<1>6. CASE SkipStored(w)
    <2>1. TablesTyped' /\ Grows
        BY <1>6, QuietTables DEF SkipStored, chainVars
    <2> QED
        BY <1>3, <1>4, <1>6, <2>1, CallForgets DEF SkipStored, AtLog, Goto, IndexerInv, CallsSound
<1>7. CASE LookAgain(w)
    BY <1>7, QuietTables, LookAgainSound DEF LookAgain, chainVars
<1>8. CASE LookMarket(w)
    BY <1>8, QuietTables, LookMarketSound DEF LookMarket, chainVars
<1>9. CASE LookPackage(w)
    BY <1>9, QuietTables, LookPackageSound DEF LookPackage, chainVars
<1>10. CASE ClearCurrent(w)
    BY <1>10, QuietTables, ClearCurrentSound DEF ClearCurrent, chainVars
<1>11. CASE CheckDistribution(w)
    BY <1>11, QuietTables, CheckDistributionSound DEF CheckDistribution, chainVars
<1>12. CASE LoseRace(w)
    <2>1. TablesTyped' /\ Grows
        BY <1>12, QuietTables DEF LoseRace, chainVars
    <2>2. worker[w].todo # <<>> /\ (worker'[w] = Idle \/ worker'[w] = AfterLog(w))
        BY <1>12 DEF LoseRace, AtLog, Goto, AfterError, IndexerInv, CallsSound
    <2> QED
        BY <2>1, <2>2, CallForgets
<1>13. CASE Finish(w)
    <2>1. /\ UNCHANGED <<chain, indexed, marketVars, acts, due, granting, sales, granted, faults>>
          /\ cursor' \in {cursor, worker[w].to} /\ worker'[w] = Idle
        BY <1>13 DEF Finish, NewCursor, Goto, chainVars, incomeVars, IndexerInv, CallsSound
    <2>2. cursor' \in 0 .. MaxBlock
        BY <2>1, CallFacts DEF Call, IndexerInv, TablesTyped
    <2>3. TablesTyped' /\ Grows
        BY <2>1, <2>2, OtherTables DEF IndexerInv, TablesTyped
    <2> QED
        BY <2>1, <2>3, CallForgets
<1>14. CASE StoreListed(w)
    <2>1. TablesTyped'
        BY <1>14, StoreListedTables
    <2>2. Grows
        BY <1>14, QuietGrows, SameRows DEF StoreListed, chainVars, IndexerInv, ChainTyped
    <2>3. worker[w].todo # <<>> /\ worker'[w] = AfterLog(w)
        BY <1>14 DEF StoreListed, AtLog, Goto, IndexerInv, CallsSound
    <2> QED
        BY <2>1, <2>2, <2>3, CallForgets
<1>15. CASE StorePurchase(w)
    BY <1>15, StorePurchaseTables, StorePurchaseSound
<1>16. CASE Repair(w)
    BY <1>16, RepairTables, RepairSound
<1>17. CASE Measure(w)
    <2>1. Grows
        BY <1>17, QuietGrows, SameRows DEF Measure, chainVars, marketVars, IndexerInv, ChainTyped
    <2> QED
        BY <1>17, <2>1, MeasureTables, MeasureSound
<1>18. CASE Judge(w)
    <2>1. Grows
        BY <1>18, QuietGrows, SameRows DEF Judge, chainVars, IndexerInv, ChainTyped
    <2> QED
        BY <1>18, <2>1, JudgeTables, JudgeSound
<1>22. CASE FindRow(w)
    BY <1>22, QuietTables, FindRowSound DEF FindRow, chainVars
<1>23. CASE AdoptRow(w)
    <2>1. worker[w].todo # <<>> /\ worker'[w] = AfterLog(w)
        BY <1>23 DEF AdoptRow, AtLog, Goto, IndexerInv, CallsSound
    <2> QED
        BY <1>23, <2>1, AdoptRowTables, CallForgets
<1>24. CASE BurnRecords(w)
    <2>1. Grows
        BY <1>24, QuietGrows, SameRows DEF BurnRecords, chainVars, IndexerInv, ChainTyped
    <2>2. worker[w].todo # <<>> /\ worker'[w] = AfterLog(w)
        BY <1>24 DEF BurnRecords, AtLog, Goto, IndexerInv, CallsSound
    <2> QED
        BY <1>24, <2>1, <2>2, BurnRecordsTables, CallForgets
<1>19. CASE StoreEventOnly(w)
    <2>1. /\ Current(w) \in OnChain /\ indexed' = indexed \cup {Current(w)}
          /\ UNCHANGED <<chain, cursor, marketVars, acts, due, granting, sales, granted, faults>>
        BY <1>19, CallFacts DEF StoreEventOnly, AtLog, chainVars, incomeVars
    <2>2. TablesTyped' /\ Grows
        BY <2>1, OtherTables DEF IndexerInv, TablesTyped
    <2> QED
        BY <1>19, <2>2, StoreEventOnlySound
<1>20. CASE StoreActivation(w)
    <2>1. Grows /\ CallSound(worker[w])'
        BY <1>20, StoreActivationSound
    <2>2. acts' \in Seq(Activation) /\ Len(acts') <= MaxRows
        BY <1>20, ActivationAdds
    <2>3. /\ Current(w) \in OnChain /\ indexed' = indexed \cup {Current(w)}
          /\ UNCHANGED <<cursor, record, rows, compliance, due, granting, sales, granted, faults>>
        BY <1>20, CallFacts DEF StoreActivation, AtLog, incomeVars, marketVars
    <2>4. TablesTyped'
        BY <1>2, <2>2, <2>3 DEF IndexerInv, TablesTyped
    <2> QED
        BY <2>1, <2>4
<1>21. CASE Distribute(w)
    <2>1. /\ Grows /\ acts' \in Seq(Activation) /\ Len(acts') = Len(acts)
          /\ worker[w].todo # <<>>
        BY <1>21, DistributeGrows
    <2>2. /\ worker'[w] = AfterLog(w)
          /\ UNCHANGED <<indexed, cursor, record, rows, compliance, due, granting, sales, granted, faults>>
        BY <1>21 DEF Distribute, Goto, incomeVars, marketVars, IndexerInv, CallsSound
    <2>3. TablesTyped'
        BY <1>2, <2>1, <2>2 DEF IndexerInv, TablesTyped
    <2> QED
        BY <2>1, <2>2, <2>3, CallForgets
<1> QED
    BY <1>6, <1>7, <1>8, <1>9, <1>10, <1>11, <1>12, <1>13, <1>14, <1>15, <1>16,
       <1>17, <1>18, <1>19, <1>20, <1>21, <1>22, <1>23, <1>24 DEF LogStep

LEMMA NoRequestSound == NoRequest \in Request /\ NoRequest.phase = "idle"
    BY BoundsAssumption DEF NoRequest, Request

\* ... and fail or are lost with the process.
LEMMA FaultSteps ==
    ASSUME IndexerInv, (\E w \in Workers : Fail(w)) \/ Restart
    PROVE  IndexerInv' /\ Grows
<1>1. /\ UNCHANGED <<chain, period, linked, indexed, cursor, marketVars, acts, sales, granted>>
      /\ due' \subseteq due /\ granting' \subseteq granting
      /\ faults < MaxFaults /\ faults' = faults + 1
    BY DEF Fail, Restart, chainVars, incomeVars
<1>2. faults' \in 0 .. MaxFaults
    BY <1>1, BoundsAssumption DEF IndexerInv, TablesTyped
<1>3. TablesTyped' /\ Grows
    BY <1>1, <1>2, OtherTables DEF IndexerInv, TablesTyped
<1>4. ChainTyped'
    BY <1>1 DEF IndexerInv, ChainTyped
<1>5. CASE \E w \in Workers : Fail(w)
    <2>1. PICK w \in Workers : Fail(w)
        BY <1>5
    <2>2. worker' = [worker EXCEPT ![w] = AfterError(w)] /\ worker[w].todo # <<>>
        BY <2>1 DEF Fail, Goto
    <2>3. worker'[w] = Idle \/ worker'[w] = AfterLog(w)
        BY <2>2 DEF AfterError, IndexerInv, CallsSound
    <2>4. CallSound(worker[w])'
        BY <1>3, <2>2, <2>3, CallForgets
    <2> QED
        BY <1>3, <1>4, <2>1, <2>2, <2>4, OneCall, SameRequests DEF IndexerInv, Fail, Goto
<1>6. CASE Restart
    <2>1. worker' = [w \in Workers |-> Idle]
        BY <1>6 DEF Restart
    <2>2. \A w \in Workers : worker'[w] = Idle
        BY <2>1
    <2>3. \A w \in Workers : CallSound(worker[w])'
        BY <1>3, <2>2, CallForgets
    <2>4. worker' \in [Workers -> Call]
        BY <2>1, IdleIsCall
    <2>5. request' = [r \in Requests |-> NoRequest]
        BY <1>6 DEF Restart
    <2>6. RequestsSound'
        BY <2>5, NoRequestSound DEF RequestsSound, RequestSound, NoRequest
    <2> QED
        BY <1>3, <1>4, <2>3, <2>4, <2>6 DEF CallsSound, IndexerInv
<1> QED
    BY <1>5, <1>6

\* Blocks, wallets and periods.
LEMMA ChainSteps ==
    ASSUME IndexerInv,
           \/ \E tx \in TxMenu : Mine(tx)
           \/ \E u \in Users : LinkWallet(u)
           \/ NextPeriod
    PROVE  IndexerInv' /\ Grows
<1>1. UNCHANGED <<indexed, cursor, marketVars, acts, worker, request, incomeVars, faults>>
    BY DEF Mine, LinkWallet, NextPeriod, callVars
<1>5. rows' = rows
    BY <1>1 DEF marketVars
<1>2. Grows /\ ChainTyped'
    <2>1. CASE \E tx \in TxMenu : Mine(tx)
        BY <2>1, MineGrows DEF IndexerInv
    <2>2. CASE \E u \in Users : LinkWallet(u)
        BY <1>1, <1>5, <2>2, QuietGrows, SameRows DEF LinkWallet, IndexerInv, ChainTyped
    <2>3. CASE NextPeriod
        <3>1. period' \in 0 .. MaxPeriod
            BY <2>3, BoundsAssumption DEF NextPeriod, IndexerInv, ChainTyped
        <3> QED
            BY <1>1, <1>5, <2>3, <3>1, QuietGrows, SameRows DEF NextPeriod, IndexerInv, ChainTyped
    <2> QED
        BY <2>1, <2>2, <2>3
<1>3. OnChain \subseteq OnChain'
    BY <1>2 DEF Grows
<1>4. TablesTyped'
    BY <1>1, <1>3 DEF IndexerInv, TablesTyped, marketVars, incomeVars
<1> QED
    BY <1>1, <1>2, <1>4, SameCalls, SameRequests DEF IndexerInv

\* The calls for the income of resales.
LEMMA IncomeSteps ==
    ASSUME IndexerInv, Incomes \/ BackfillIncome
    PROVE  IndexerInv' /\ Grows
<1>1. UNCHANGED <<chain, period, linked, indexed, cursor, marketVars, acts, worker, request, faults>>
    BY DEF Incomes, RecordSale, GrantSale, BackfillIncome, chainVars, callVars
<1>2. /\ due' \subseteq OnChain /\ sales' \subseteq OnChain /\ granting' \subseteq sales'
      /\ granted' \in [EventIds -> Nat]
    <2>1. CASE \E e \in due : RecordSale(e)
        BY <2>1 DEF RecordSale, Inserts, IndexerInv, TablesTyped
    <2>2. CASE \E e \in granting : GrantSale(e)
        BY <2>2 DEF GrantSale, IndexerInv, TablesTyped, OnChain
    <2>3. CASE BackfillIncome
        BY <2>3 DEF BackfillIncome, IndexerInv, TablesTyped
    <2> QED
        BY <2>1, <2>2, <2>3 DEF Incomes
<1>3. TablesTyped' /\ Grows
    BY <1>1, <1>2, OtherTables DEF IndexerInv, TablesTyped
<1>4. ChainTyped'
    BY <1>1 DEF IndexerInv, ChainTyped
<1> QED
    BY <1>1, <1>3, <1>4, SameCalls, SameRequests DEF IndexerInv

\* A user submits a row of volume.
LEMMA SubmitRowStep ==
    ASSUME IndexerInv, NEW r \in Requests, NEW u \in Users, NEW i \in DOMAIN acts,
           NEW p \in 0 .. MaxPeriod, NEW v \in SubmitVolumes, SubmitRow(r, u, i, p, v)
    PROVE  TablesTyped' /\ Grows /\ RequestSound(request[r])'
<1> DEFINE row == SubmittedRow(u, i, p, v)
           q == [NoRequest EXCEPT !.phase = "measure", !.user = u, !.act = i, !.period = p]
<1>1. /\ rows' = Append(rows, row) /\ request' = [request EXCEPT ![r] = q]
      /\ UNCHANGED <<chain, indexed, cursor, record, compliance, acts, due, granting, sales,
                     granted, faults>>
    BY DEF SubmitRow, chainVars, incomeVars
<1>2. acts \in Seq(Activation) /\ Len(acts) <= MaxRows /\ i \in 1 .. MaxRows /\ i \in Nat
    BY BoundsAssumption DEF IndexerInv, TablesTyped
<1>3. /\ row \in Row /\ row.user = u /\ row.act = i
    <2>1. v \in Nat /\ NoTx \in 0 .. MaxBlock
        BY BoundsAssumption DEF NoTx
    <2> QED
        BY <1>2, <2>1 DEF SubmittedRow, Row
<1>4. request'[r] = q
    BY <1>1 DEF IndexerInv, RequestsSound
<1>5. q \in Request /\ q.phase = "measure" /\ q.act = i /\ q.user = u
    <2>1. i \in 0 .. MaxRows
        BY <1>2, BoundsAssumption
    <2>2. PICK n \in Request : n = NoRequest
        BY NoRequestSound
    <2> QED
        BY <1>2, <2>1, <2>2 DEF Request
<1> HIDE DEF row, q
<1>6. rows' \in Seq(Row) /\ RowsGrow /\ \E k \in DOMAIN rows' : rows'[k] = row
    BY <1>1, <1>3, AppendGrows
<1>7. Grows
    BY <1>1, <1>6, QuietGrows DEF IndexerInv, ChainTyped
<1>8. TablesTyped'
    BY <1>1, <1>6, SameChain DEF IndexerInv, TablesTyped
<1>9. RequestSound(request[r])'
    BY <1>1, <1>3, <1>4, <1>5, <1>6 DEF RequestSound
<1> QED
    BY <1>7, <1>8, <1>9

\* Its verdict is about the volume read, and the activation that was named.
LEMMA SubmitSteps ==
    ASSUME IndexerInv, NEW r \in Requests, SubmitMeasure(r) \/ SubmitJudge(r) \/ SubmitBurns(r)
    PROVE  TablesTyped' /\ Grows /\ RequestSound(request[r])'
<1> PICK q : q = request[r]
    OBVIOUS
<1>1. /\ RequestSound(q) /\ q \in Request /\ q = request[r]
      /\ UNCHANGED <<chain, indexed, cursor, rows, acts, due, granting, sales, granted, faults>>
    BY DEF IndexerInv, RequestsSound, RequestSound, SubmitMeasure, SubmitJudge, SubmitBurns,
           Proceed, chainVars, incomeVars, marketVars
<1>2. Grows
    BY <1>1, QuietGrows, SameRows DEF IndexerInv, ChainTyped
<1>3. CASE SubmitMeasure(r)
    <2> DEFINE v == VolumeIn(q.user, q.period)
    <2>1. /\ q.phase = "measure" /\ request'[r] = [q EXCEPT !.phase = "judge", !.volume = v]
          /\ record' = record /\ compliance' = compliance
        BY <1>1, <1>3 DEF SubmitMeasure, Proceed, marketVars, IndexerInv, RequestsSound
    <2>2. v \in Nat
        BY VolumeIsNat DEF IndexerInv
    <2> HIDE DEF v
    <2>3. /\ request'[r] \in Request /\ request'[r].phase = "judge"
          /\ request'[r].act = q.act /\ request'[r].user = q.user
        BY <1>1, <2>1, <2>2 DEF Request
    <2>4. RequestSound(request[r])'
        BY <1>1, <2>1, <2>3 DEF RequestSound
    <2> QED
        BY <1>1, <1>2, <2>1, <2>4, SameChain DEF IndexerInv, TablesTyped
<1>4. CASE SubmitJudge(r)
    <2> DEFINE met == Meets(q.volume, Required[acts[q.act].package])
    <2>1. /\ compliance' = WithVerdict(q.user, q.period, met) /\ record' = record
          /\ request'[r] = IF met THEN NoRequest ELSE [q EXCEPT !.phase = "burn"]
          /\ q.period \in 0 .. MaxPeriod
        BY <1>1, <1>4 DEF SubmitJudge, Proceed, IndexerInv, RequestsSound, Request
    <2> HIDE DEF met
    <2>2. request'[r] \in Request /\ request'[r].phase \in {"idle", "burn"}
        <3>1. [q EXCEPT !.phase = "burn"] \in Request /\ [q EXCEPT !.phase = "burn"].phase = "burn"
            BY <1>1 DEF Request
        <3> QED
            BY <2>1, <3>1, NoRequestSound
    <2>3. RequestSound(request[r])'
        BY <2>2 DEF RequestSound
    <2>4. compliance' \in [Users -> [0 .. MaxPeriod -> Verdicts]]
        BY <2>1, VerdictTyped
    <2> QED
        BY <1>1, <1>2, <2>1, <2>3, <2>4, SameChain DEF IndexerInv, TablesTyped
<1>5. CASE SubmitBurns(r)
    <2>1. /\ record' = WithBurned(q.user) /\ compliance' = compliance
          /\ request'[r] = NoRequest
        BY <1>1, <1>5 DEF SubmitBurns, Proceed, IndexerInv, RequestsSound
    <2>2. RequestSound(request[r])'
        BY <2>1, NoRequestSound DEF RequestSound
    <2> QED
        BY <1>1, <1>2, <2>1, <2>2, BurnedTyped, SameChain DEF IndexerInv, TablesTyped
<1> QED
    BY <1>3, <1>4, <1>5

\* The page of trades finds a stored purchase of the user for a row of its volume ...
LEMMA FindPurchaseStep ==
    ASSUME IndexerInv, NEW r \in Requests, NEW u \in Users, NEW i \in DOMAIN rows,
           NEW e \in indexed, FindPurchase(r, u, i, e)
    PROVE  RequestSound(request[r])'
<1> DEFINE q == [NoRequest EXCEPT !.phase = "name", !.user = u, !.row = i, !.log = e]
<1>1. /\ request'[r] = q /\ chain' = chain /\ rows' = rows
      /\ EventAt(e).kind = "Purchased" /\ UserOf(EventAt(e).user) = u /\ Nameless(i, u, e)
    BY DEF FindPurchase, Proceed, chainVars, marketVars, IndexerInv, RequestsSound
<1>2. e \in OnChain /\ e \in EventIds /\ rows \in Seq(Row) /\ i \in Nat
    BY DEF IndexerInv, TablesTyped, OnChain
<1>3. EventAt(e).user = u
    BY <1>1, UserOfFacts, BoundsAssumption
<1>4. PICK n \in Request : n = NoRequest
    BY NoRequestSound
<1>5. q \in Request /\ q.phase = "name" /\ q.user = u /\ q.row = i /\ q.log = e
    BY <1>2, <1>4 DEF Request
<1> HIDE DEF q
<1>6. rows[i].user = u /\ rows[i].volume = EventAt(e).price
    BY <1>1 DEF Nameless
<1> QED
    BY <1>1, <1>2, <1>3, <1>5, <1>6, SameChain DEF RequestSound

\* ... and names the row.
LEMMA NameRowStep ==
    ASSUME IndexerInv, NEW r \in Requests, NameRow(r)
    PROVE  TablesTyped' /\ Grows /\ RequestSound(request[r])'
<1> PICK q : q = request[r]
    OBVIOUS
<1>1. /\ RequestSound(q) /\ q.phase = "name" /\ request'[r] = NoRequest
      /\ rows' = Named(q.row, q.user, q.log)
      /\ UNCHANGED <<chain, indexed, cursor, record, compliance, acts, due, granting, sales,
                     granted, faults>>
    BY DEF IndexerInv, RequestsSound, NameRow, Proceed, chainVars, incomeVars
<1>2. q.log \in OnChain /\ EventAt(q.log).kind = "Purchased" /\ q.row \in DOMAIN rows
    BY <1>1 DEF RequestSound
<1>3. rows' \in Seq(Row) /\ RowsGrow
    BY <1>1, <1>2, NamedTyped
<1>4. Grows
    BY <1>1, <1>3, QuietGrows DEF IndexerInv, ChainTyped
<1>5. RequestSound(request[r])'
    BY <1>1, NoRequestSound DEF RequestSound
<1> QED
    BY <1>1, <1>3, <1>4, <1>5, SameChain DEF IndexerInv, TablesTyped

LEMMA RequestSteps ==
    ASSUME IndexerInv, NEW r \in Requests, RequestStep(r)
    PROVE  IndexerInv' /\ Grows
<1>1. /\ UNCHANGED <<chain, period, linked, worker>>
      /\ \E q : request' = [request EXCEPT ![r] = q]
    BY DEF RequestStep, SubmitRow, SubmitMeasure, SubmitJudge, SubmitBurns, FindPurchase,
           NameRow, RequestFails, Proceed, chainVars
<1>2. SUFFICES TablesTyped' /\ Grows /\ RequestSound(request[r])'
    BY <1>1, OneRequest, SameCalls DEF IndexerInv, ChainTyped
<1>3. CASE \E u \in Users, i \in DOMAIN acts, p \in 0 .. MaxPeriod, v \in SubmitVolumes :
               SubmitRow(r, u, i, p, v)
    BY <1>3, SubmitRowStep
<1>4. CASE SubmitMeasure(r) \/ SubmitJudge(r) \/ SubmitBurns(r)
    BY <1>4, SubmitSteps
<1>5. CASE \E u \in Users, i \in DOMAIN rows, e \in indexed : FindPurchase(r, u, i, e)
    <2>1. UNCHANGED <<chain, indexed, cursor, marketVars, acts, incomeVars, faults>>
        BY <1>5 DEF FindPurchase, Proceed, chainVars
    <2> QED
        BY <1>5, <2>1, FindPurchaseStep, QuietTables
<1>6. CASE NameRow(r)
    BY <1>6, NameRowStep
<1>7. CASE RequestFails(r)
    <2>1. /\ UNCHANGED <<chain, indexed, cursor, marketVars, acts, incomeVars, faults>>
          /\ request'[r] = NoRequest
        BY <1>7 DEF RequestFails, Proceed, chainVars, IndexerInv, RequestsSound
    <2>2. RequestSound(request[r])'
        BY <2>1, NoRequestSound DEF RequestSound
    <2> QED
        BY <2>1, <2>2, QuietTables
<1> QED
    BY <1>3, <1>4, <1>5, <1>6, <1>7 DEF RequestStep

LEMMA IndexerInit ==
    Init => IndexerInv
<1> SUFFICES ASSUME Init PROVE IndexerInv
    OBVIOUS
<1>1. ChainTyped
    BY BoundsAssumption DEF Init, ChainTyped
<1>2. TablesTyped
    BY BoundsAssumption DEF Init, TablesTyped, NoRecord, Verdicts
<1>3. CallsSound
    <2>1. \A w \in Workers : worker[w] = Idle
        BY DEF Init
    <2>2. CallSound(Idle)
        <3>1. Idle.to = 0 /\ Idle.todo = <<>>
            BY DEF Idle
        <3> QED
            BY <3>1, <1>1, IdleIsCall DEF CallSound, ChainTyped
    <2>3. \A w \in Workers : CallSound(worker[w])
        BY <2>1, <2>2
    <2> QED
        BY <2>3, IdleIsCall DEF CallsSound, Init
<1>4. RequestsSound
    BY NoRequestSound DEF RequestsSound, RequestSound, Init
<1> QED
    BY <1>1, <1>2, <1>3, <1>4 DEF IndexerInv

LEMMA IndexerStep ==
    ASSUME IndexerInv, [Next]_vars
    PROVE  IndexerInv' /\ Grows
<1>1. CASE UNCHANGED vars
    <2>1. UNCHANGED <<chain, period, linked, indexed, cursor, marketVars, acts, worker, request,
                      incomeVars, faults>>
        BY <1>1 DEF vars, chainVars, callVars
    <2>2. TablesTyped' /\ Grows
        BY <2>1, QuietTables
    <2> QED
        BY <2>1, <2>2, SameCalls, SameRequests DEF IndexerInv, ChainTyped
<1>2. CASE \E w \in Workers : Calls(w) \/ LogStep(w) \/ Fail(w)
    BY <1>2, StartSteps, LogSteps, FaultSteps
<1>3. CASE Restart
    BY <1>3, FaultSteps
<1>4. CASE \/ \E tx \in TxMenu : Mine(tx)
           \/ \E u \in Users : LinkWallet(u)
           \/ NextPeriod
    BY <1>4, ChainSteps
<1>5. CASE Incomes \/ BackfillIncome
    BY <1>5, IncomeSteps
<1>6. CASE \E r \in Requests : RequestStep(r)
    BY <1>6, RequestSteps
<1> QED
    BY <1>1, <1>2, <1>3, <1>4, <1>5, <1>6 DEF Next

\* Whatever other calls, users and faults do in between, what a call has read
\* about its log holds until it writes: the user is the buyer, the activation is
\* the buyer's, and the log is on the chain.
THEOREM ReadingsHold == Spec => []IndexerInv
<1> QED
    BY IndexerInit, IndexerStep, PTL DEF Spec

LEMMA IndexerTypes ==
    ASSUME IndexerInv
    PROVE  TypeOK
<1>1. chain \in Seq([period : 0 .. MaxPeriod, events : Seq(Event)])
    <2>1. TxMenu \subseteq Seq(Event)
        BY MenuAssumption
    <2> DEFINE B == [period : 0 .. MaxPeriod, events : TxMenu]
               C == [period : 0 .. MaxPeriod, events : Seq(Event)]
    <2>2. B \subseteq C /\ chain \in Seq(B)
        BY <2>1 DEF IndexerInv, ChainTyped
    <2> HIDE DEF B, C
    <2>3. chain \in Seq(C)
        BY <2>2
    <2> QED
        BY <2>3 DEF C
<1> QED
    BY <1>1 DEF IndexerInv, ChainTyped, TablesTyped, CallsSound, RequestsSound, TypeOK, OnChain

\* Every table the indexer writes stays well typed.
THEOREM IndexerTyped == Spec => []TypeOK
<1> QED
    BY ReadingsHold, IndexerTypes, PTL

(***************************************************************************)
(* The cursor of syncRange.                                                *)
(***************************************************************************)

\* The call of syncRange has every log up to its end stored or before it, and
\* once it is past the store, the log it is at is stored.
Covered(c) ==
    c.job = "range" =>
        /\ \A e \in OnChain :
               e[1] <= c.to => e \in indexed \/ \E i \in DOMAIN c.todo : c.todo[i] = e
        /\ c.todo # <<>> /\ c.phase \notin {"look", "clear", "store"} =>
               Head(c.todo) \in indexed

CursorInv ==
    /\ cursor <= Len(chain)
    /\ CursorSound
    /\ \A w \in Workers : Covered(worker[w])

\* Blocks mined meanwhile lie beyond the end of the call.
LEMMA CoveredGoesOn ==
    ASSUME IndexerInv, Grows, NEW w \in Workers, Covered(worker[w]),
           worker'[w].job = worker[w].job, worker'[w].to = worker[w].to,
           worker'[w].todo = worker[w].todo,
           worker'[w].phase \notin {"look", "clear", "store"} =>
               \/ Current(w) \in indexed'
               \/ worker[w].phase \notin {"look", "clear", "store"}
    PROVE  Covered(worker[w])'
<1> DEFINE c == worker[w]
           d == worker'[w]
<1>1. c \in Call /\ c.to <= Len(chain) /\ c.to \in Nat /\ Len(chain) \in Nat
    BY CallFacts, BoundsAssumption DEF Call, IndexerInv, ChainTyped
<1> SUFFICES ASSUME d.job = "range" PROVE Covered(worker[w])'
    BY DEF Covered
<1>2. ASSUME NEW e \in OnChain', e[1] <= d.to
      PROVE  e \in indexed' \/ \E i \in DOMAIN d.todo : d.todo[i] = e
    <2>1. e[1] \in Nat
        BY BoundsAssumption DEF OnChain, EventIds
    <2>2. e[1] <= Len(chain) /\ e[1] <= c.to
        BY <1>1, <1>2, <2>1
    <2>3. e \in OnChain
        BY <2>2 DEF Grows
    <2> QED
        BY <2>2, <2>3 DEF Covered, Grows
<1>3. d.todo # <<>> /\ d.phase \notin {"look", "clear", "store"} => Head(d.todo) \in indexed'
    BY DEF Covered, Grows, Current
<1> QED
    BY <1>2, <1>3 DEF Covered

LEMMA CoveredKept ==
    ASSUME IndexerInv, Grows, NEW w \in Workers, Covered(worker[w]),
           worker'[w] = worker[w]
    PROVE  Covered(worker[w])'
    BY CoveredGoesOn

\* The call goes on with its next log once this one is stored.
LEMMA CoveredAfterLog ==
    ASSUME IndexerInv, Grows, NEW w \in Workers, Covered(worker[w]),
           worker[w].todo # <<>>, worker'[w] = AfterLog(w),
           worker[w].job = "range" => Current(w) \in indexed'
    PROVE  Covered(worker[w])'
<1> DEFINE c == worker[w]
           d == worker'[w]
<1>1. /\ c \in Call /\ c.to <= Len(chain) /\ c.to \in Nat /\ Len(chain) \in Nat
      /\ c.todo \in Seq(OnChain)
    BY CallFacts, BoundsAssumption DEF Call, IndexerInv, ChainTyped
<1>2. d.job = c.job /\ d.to = c.to /\ d.todo = Tail(c.todo) /\ d.phase = "look"
    BY DEF AfterLog, Idle
<1> SUFFICES ASSUME c.job = "range" PROVE Covered(worker[w])'
    BY <1>2 DEF Covered
<1> HIDE DEF d
<1>3. ASSUME NEW e \in OnChain', e[1] <= d.to
      PROVE  e \in indexed' \/ \E i \in DOMAIN d.todo : d.todo[i] = e
    <2>1. e[1] \in Nat
        BY BoundsAssumption DEF OnChain, EventIds
    <2>2. e[1] <= Len(chain) /\ e[1] <= c.to
        BY <1>1, <1>2, <1>3, <2>1
    <2>3. e \in OnChain
        BY <2>2 DEF Grows
    <2>4. CASE e \in indexed
        BY <2>4 DEF Grows
    <2>5. CASE \E i \in DOMAIN c.todo : c.todo[i] = e
        <3>1. PICK i \in DOMAIN c.todo : c.todo[i] = e
            BY <2>5
        <3>2. CASE i = 1
            BY <3>1, <3>2, <1>1 DEF Current
        <3>3. CASE i # 1
            <4>1. i - 1 \in DOMAIN Tail(c.todo) /\ Tail(c.todo)[i - 1] = c.todo[i]
                <5> DEFINE s == c.todo
                <5>1. s \in Seq(OnChain) /\ s # <<>> /\ i \in 1 .. Len(s) /\ Len(s) \in Nat
                    BY <1>1, <3>1
                <5> HIDE DEF s
                <5>2. /\ Tail(s) \in Seq(OnChain) /\ Len(Tail(s)) = Len(s) - 1
                      /\ \A j \in 1 .. Len(Tail(s)) : Tail(s)[j] = s[j + 1]
                    BY <5>1, HeadTailProperties
                <5>3. i - 1 \in 1 .. Len(Tail(s)) /\ (i - 1) + 1 = i
                    BY <3>3, <5>1, <5>2
                <5> QED
                    BY <5>2, <5>3 DEF s
            <4> QED
                BY <1>2, <3>1, <4>1
        <3> QED
            BY <3>2, <3>3
    <2> QED
        BY <2>2, <2>3, <2>4, <2>5 DEF Covered
<1> QED
    BY <1>2, <1>3 DEF Covered, d

\* Other calls have nothing to cover.
LEMMA CoveredIdle ==
    ASSUME NEW w \in Workers, worker'[w].job # "range"
    PROVE  Covered(worker[w])'
    BY DEF Covered

\* A log of the kind and the blocks asked for is in the list.
LEMMA LogsListed ==
    ASSUME NEW kind, NEW m, NEW n, NEW e \in OnChain,
           e[1] \in m .. n, EventAt(e).kind = kind
    PROVE  \E i \in DOMAIN LogsOf(kind, m, n) : LogsOf(kind, m, n)[i] = e
<1> DEFINE S == {x \in OnChain : x[1] \in m .. n /\ EventAt(x).kind = kind}
<1>1. S \in SUBSET EventIds /\ e \in S
    BY DEF OnChain
<1> HIDE DEF S
<1>2. \E i \in DOMAIN InOrder(S) : InOrder(S)[i] = e
    BY <1>1, InOrderLists
<1> QED
    BY <1>2 DEF LogsOf, S

Lists(s, e) == \E i \in DOMAIN s : s[i] = e

\* Lists one after the other list what either does.
LEMMA ListsConcat ==
    ASSUME NEW S, NEW s \in Seq(S), NEW t \in Seq(S), NEW e, Lists(s, e) \/ Lists(t, e)
    PROVE  Lists(s \o t, e)
<1>1. /\ s \o t \in Seq(S) /\ Len(s \o t) = Len(s) + Len(t)
      /\ \A i \in 1 .. Len(s) + Len(t) :
             (s \o t)[i] = IF i <= Len(s) THEN s[i] ELSE t[i - Len(s)]
    BY ConcatProperties
<1>2. Len(s) \in Nat /\ Len(t) \in Nat /\ DOMAIN s = 1 .. Len(s) /\ DOMAIN t = 1 .. Len(t)
      /\ DOMAIN (s \o t) = 1 .. Len(s) + Len(t)
    BY <1>1
<1>3. CASE Lists(s, e)
    <2>1. PICK i \in DOMAIN s : s[i] = e
        BY <1>3 DEF Lists
    <2>2. i \in 1 .. Len(s) + Len(t) /\ i <= Len(s)
        BY <1>2, <2>1
    <2> QED
        BY <1>1, <1>2, <2>1, <2>2 DEF Lists
<1>4. CASE Lists(t, e)
    <2>1. PICK i \in DOMAIN t : t[i] = e
        BY <1>4 DEF Lists
    <2>2. /\ i + Len(s) \in 1 .. Len(s) + Len(t) /\ ~(i + Len(s) <= Len(s))
          /\ (i + Len(s)) - Len(s) = i
        BY <1>2, <2>1
    <2>3. (s \o t)[i + Len(s)] = t[i]
        BY <1>1, <2>2
    <2> QED
        BY <1>2, <2>1, <2>2, <2>3 DEF Lists
<1> QED
    BY <1>3, <1>4

\* syncRange has listed every log of its blocks.
LEMMA RangeCovered ==
    ASSUME IndexerInv, CursorInv, Grows, NEW w \in Workers, StartRange(w)
    PROVE  Covered(worker[w])'
<1> DEFINE m == cursor + 1
           r == RegistrationLogs(m, RangeEnd)
           q == MarketplaceLogs(m, RangeEnd)
           d == [Idle EXCEPT !.job = "range", !.to = RangeEnd, !.todo = r \o q]
<1>1. /\ worker'[w] = d /\ chain' = chain /\ indexed' = indexed
    BY DEF StartRange, Begin, chainVars, IndexerInv, CallsSound
<1>2. d.to = RangeEnd /\ d.todo = r \o q /\ d.phase = "look"
    BY DEF Idle
<1>3. cursor \in Nat /\ RangeEnd \in Nat
    BY BoundsAssumption DEF RangeEnd, Lesser, IndexerInv, ChainTyped, TablesTyped
<1> HIDE DEF d
<1>4. ASSUME NEW e \in OnChain, e[1] <= RangeEnd, e \notin indexed
      PROVE  Lists(r \o q, e)
    <2> DEFINE k == EventAt(e).kind
    <2>1. e[1] \in Nat /\ EventAt(e) \in Event
        BY OnChainEvents, BoundsAssumption DEF OnChain, EventIds, IndexerInv
    <2>2. e[1] \in m .. RangeEnd
        BY <1>3, <1>4, <2>1 DEF CursorInv, CursorSound
    <2>3. k \in Kinds
        BY <2>1 DEF Event
    <2>4. Lists(LogsOf(k, m, RangeEnd), e)
        BY <2>2, LogsListed DEF Lists
    <2> HIDE DEF k, m
    <2> DEFINE R1 == LogsOf("Registered", m, RangeEnd)
               A1 == LogsOf("Activated", m, RangeEnd)
               U1 == LogsOf("Upgraded", m, RangeEnd)
               P1 == LogsOf("Purchased", m, RangeEnd)
               L1 == LogsOf("Listed", m, RangeEnd)
    <2>5. /\ R1 \in Seq(OnChain) /\ A1 \in Seq(OnChain) /\ U1 \in Seq(OnChain)
          /\ P1 \in Seq(OnChain) /\ L1 \in Seq(OnChain)
        BY LogsOnChain
    <2>6. \/ Lists(R1, e) \/ Lists(A1, e) \/ Lists(U1, e)
          \/ Lists(P1, e) \/ Lists(L1, e)
        BY <2>3, <2>4 DEF Kinds
    <2>7. r = (R1 \o A1) \o U1 /\ q = P1 \o L1
        BY DEF RegistrationLogs, MarketplaceLogs
    <2> HIDE DEF R1, A1, U1, P1, L1, r, q
    <2>8. R1 \o A1 \in Seq(OnChain) /\ r \in Seq(OnChain) /\ q \in Seq(OnChain)
        BY <2>5, <2>7, ConcatProperties
    <2>9. (Lists(R1, e) \/ Lists(A1, e)) => Lists(R1 \o A1, e)
        BY <2>5, ListsConcat
    <2>10. (Lists(R1, e) \/ Lists(A1, e) \/ Lists(U1, e)) => Lists(r, e)
        BY <2>5, <2>7, <2>8, <2>9, ListsConcat
    <2>11. (Lists(P1, e) \/ Lists(L1, e)) => Lists(q, e)
        BY <2>5, <2>7, ListsConcat
    <2>12. Lists(r, e) \/ Lists(q, e)
        BY <2>6, <2>10, <2>11
    <2> QED
        BY <2>8, <2>12, ListsConcat
<1>5. OnChain' = OnChain
    BY <1>1, SameChain
<1> QED
    BY <1>1, <1>2, <1>4, <1>5 DEF Covered, Lists

\* A step of one worker.
LEMMA OneCovered ==
    ASSUME IndexerInv, CursorInv, Grows, NEW w \in Workers, NEW d,
           worker' = [worker EXCEPT ![w] = d], Covered(worker[w])'
    PROVE  \A v \in Workers : Covered(worker[v])'
<1> SUFFICES ASSUME NEW v \in Workers, v # w PROVE Covered(worker[v])'
    OBVIOUS
<1>1. worker'[v] = worker[v]
    BY DEF IndexerInv, CallsSound
<1> QED
    BY <1>1, CoveredKept DEF CursorInv

\* The cursor only moves to where everything is stored.
LEMMA CursorMoves ==
    ASSUME IndexerInv, IndexerInv', Grows, cursor' <= Len(chain),
           \A e \in OnChain : e[1] <= cursor' => e \in indexed,
           \A w \in Workers : Covered(worker[w])'
    PROVE  CursorInv'
<1>1. /\ cursor' \in Nat /\ Len(chain) \in Nat /\ Len(chain') \in Nat
      /\ Len(chain) <= Len(chain')
    BY BoundsAssumption DEF Grows, IndexerInv, ChainTyped, TablesTyped
<1>2. ASSUME NEW e \in OnChain', e[1] <= cursor' PROVE e \in indexed'
    <2>1. e[1] \in Nat
        BY BoundsAssumption DEF OnChain, EventIds
    <2>2. e[1] <= Len(chain)
        BY <1>1, <1>2, <2>1
    <2> QED
        BY <1>2, <2>2 DEF Grows
<1> QED
    BY <1>1, <1>2 DEF CursorInv, CursorSound

LEMMA CursorStays ==
    ASSUME IndexerInv, IndexerInv', CursorInv, Grows, cursor' = cursor,
           \A w \in Workers : Covered(worker[w])'
    PROVE  CursorInv'
    BY CursorMoves DEF CursorInv, CursorSound

\* syncRange lists what it has to store.
LEMMA StartsCover ==
    ASSUME IndexerInv, IndexerInv', CursorInv, Grows, NEW w \in Workers, Calls(w)
    PROVE  CursorInv'
<1>1. PICK d : worker' = [worker EXCEPT ![w] = d] /\ cursor' = cursor
    BY DEF Calls, StartRange, StartHeadWindow, StartTx, StartBackfill, Begin
<1>2. worker'[w] = d
    BY <1>1 DEF IndexerInv, CallsSound
<1>3. Covered(worker[w])'
    <2>1. CASE StartRange(w)
        BY <2>1, RangeCovered
    <2>2. CASE ~StartRange(w)
        <3>1. \E s : worker'[w] \in {[Idle EXCEPT !.job = "head", !.todo = s],
                                     [Idle EXCEPT !.job = "tx", !.todo = s],
                                     [Idle EXCEPT !.job = "backfill", !.todo = s]}
            <4>1. CASE StartHeadWindow(w)
                BY <4>1, <1>1, <1>2 DEF StartHeadWindow, Begin, IndexerInv, CallsSound
            <4>2. CASE \E b \in DOMAIN chain : StartTx(w, b)
                BY <4>2, <1>1, <1>2 DEF StartTx, Begin, IndexerInv, CallsSound
            <4>3. CASE \E u \in Users : StartBackfill(w, u)
                BY <4>3, <1>1, <1>2 DEF StartBackfill, Begin, IndexerInv, CallsSound
            <4> QED
                BY <2>2, <4>1, <4>2, <4>3 DEF Calls
        <3>2. worker'[w].job # "range"
            BY <3>1 DEF Idle
        <3> QED
            BY <3>2, CoveredIdle
    <2> QED
        BY <2>1, <2>2
<1> QED
    BY <1>1, <1>3, OneCovered, CursorStays

\* It leaves a log only once it is stored.
LEMMA LogStepsCover ==
    ASSUME IndexerInv, IndexerInv', CursorInv, Grows, NEW w \in Workers, LogStep(w)
    PROVE  CursorInv'
<1> DEFINE c == worker[w]
           d == worker'[w]
           Stay == d.job = c.job /\ d.to = c.to /\ d.todo = c.todo
<1>1. \E x : worker' = [worker EXCEPT ![w] = x]
    BY DEF LogStep, SkipStored, LookAgain, FindRow, LookMarket, LookPackage, StoreListed,
           StorePurchase, LoseRace, Repair, AdoptRow, Measure, Judge, BurnRecords, StoreEventOnly, ClearCurrent,
           StoreActivation, CheckDistribution, Distribute, Finish, Goto
<1>2. PICK x : worker' = [worker EXCEPT ![w] = x]
    BY <1>1
<1>3. d = x /\ c \in Call /\ Covered(c)
    BY <1>2, CallFacts DEF IndexerInv, CallsSound, CursorInv
<1> HIDE DEF d
<1>4. CASE Finish(w)
    <2>1. d = Idle /\ c.todo = <<>> /\ cursor' = IF c.job = "range" THEN c.to ELSE cursor
        BY <1>4 DEF Finish, Goto, NewCursor, IndexerInv, CallsSound, d
    <2>2. Covered(worker[w])'
        BY <2>1, CoveredIdle DEF Idle, d
    <2>3. \A v \in Workers : Covered(worker[v])'
        BY <1>2, <2>2, OneCovered
    <2>4. CASE c.job = "range"
        <3>1. c.to <= Len(chain)
            BY CallFacts
        <3>2. DOMAIN c.todo = {}
            BY <2>1
        <3>3. \A e \in OnChain : e[1] <= c.to => e \in indexed
            BY <1>3, <2>4, <3>2 DEF Covered
        <3> QED
            BY <2>1, <2>3, <2>4, <3>1, <3>3, CursorMoves
    <2>5. CASE c.job # "range"
        BY <2>1, <2>3, <2>5, CursorStays
    <2> QED
        BY <2>4, <2>5
<1>5. ASSUME ~Finish(w) PROVE Covered(worker[w])' /\ cursor' = cursor
    <2>1. cursor' = cursor
        BY <1>5 DEF LogStep, SkipStored, LookAgain, FindRow, LookMarket, LookPackage, StoreListed,
               StorePurchase, LoseRace, Repair, AdoptRow, Measure, Judge, BurnRecords, StoreEventOnly, ClearCurrent,
               StoreActivation, CheckDistribution, Distribute
    <2>2. c.todo # <<>>
        BY <1>5 DEF LogStep, SkipStored, LookAgain, FindRow, LookMarket, LookPackage, StoreListed,
               StorePurchase, LoseRace, Repair, AdoptRow, Measure, Judge, BurnRecords, StoreEventOnly, ClearCurrent,
               StoreActivation, CheckDistribution, Distribute, AtLog
    <2>3. CASE SkipStored(w)
        <3>1. d = AfterLog(w) /\ (c.job = "range" => Current(w) \in indexed')
            BY <2>3 DEF SkipStored, Stored, Goto, IndexerInv, CallsSound, d
        <3> QED
            BY <1>3, <2>2, <3>1, <2>1, CoveredAfterLog DEF d
    <2>4. CASE LookAgain(w)
        <3>1. Stay /\ (c.job = "range" => Current(w) \in indexed')
            BY <2>4, <1>3 DEF LookAgain, Stored, Goto, IndexerInv, CallsSound, d, Call
        <3>2. CASE c.job = "range"
            BY <1>3, <3>1, <3>2, <2>1, CoveredGoesOn DEF d
        <3>3. CASE c.job # "range"
            BY <3>1, <3>3, <2>1, CoveredIdle DEF d
        <3> QED
            BY <3>2, <3>3
    <2>10. CASE FindRow(w)
        <3>1. PICK i \in DOMAIN rows :
                  d = [c EXCEPT !.phase = "adopt", !.user = UserOf(EventAt(Current(w)).user),
                                !.row = i]
            BY <2>10, <1>3 DEF FindRow, Goto, IndexerInv, CallsSound, d
        <3>2. Stay
            BY <3>1, <1>3 DEF Call
        <3>3. c.job = "range" => Current(w) \in indexed'
            BY <2>10 DEF FindRow, Stored
        <3>4. CASE c.job = "range"
            BY <1>3, <3>2, <3>3, <3>4, <2>1, CoveredGoesOn DEF d
        <3>5. CASE c.job # "range"
            BY <3>2, <3>5, <2>1, CoveredIdle DEF d
        <3> QED
            BY <3>4, <3>5
    <2>5. CASE LookMarket(w) \/ LookPackage(w) \/ ClearCurrent(w)
        <3>1. Stay /\ d.phase \in {"clear", "store"}
            <4>1. CASE LookMarket(w)
                BY <4>1, <1>3 DEF LookMarket, Goto, IndexerInv, CallsSound, d, Call
            <4>2. CASE ClearCurrent(w)
                BY <4>2, <1>3 DEF ClearCurrent, Goto, IndexerInv, CallsSound, d, Call
            <4>3. CASE LookPackage(w)
                <5>1. \/ \E u, a : \E p \in {"clear", "store"} :
                            d = [c EXCEPT !.phase = p, !.user = u, !.act = a]
                      \/ d = [c EXCEPT !.phase = "store"]
                    BY <4>3, <1>3 DEF LookPackage, Goto, IndexerInv, CallsSound, d
                <5> QED
                    BY <5>1, <1>3 DEF Call
            <4> QED
                BY <2>5, <4>1, <4>2, <4>3
        <3> QED
            BY <1>3, <3>1, <2>1, CoveredGoesOn DEF d
    <2>6. CASE StoreListed(w)
        <3>1. d = AfterLog(w) /\ Current(w) \in indexed'
            BY <2>6 DEF StoreListed, Goto, IndexerInv, CallsSound, d
        <3> QED
            BY <1>3, <2>2, <3>1, <2>1, CoveredAfterLog DEF d
    <2>7. CASE StorePurchase(w) \/ StoreEventOnly(w) \/ StoreActivation(w)
        <3>1. Current(w) \in indexed' /\ (Stay \/ d = AfterLog(w))
            <4>1. CASE StorePurchase(w)
                BY <4>1, <1>3 DEF StorePurchase, Goto, IndexerInv, CallsSound, d, Call
            <4>2. CASE StoreEventOnly(w)
                BY <4>2, <1>3 DEF StoreEventOnly, Goto, IndexerInv, CallsSound, d, Call
            <4>3. CASE StoreActivation(w)
                BY <4>3, <1>3 DEF StoreActivation, Goto, IndexerInv, CallsSound, d, Call
            <4> QED
                BY <2>7, <4>1, <4>2, <4>3
        <3>2. CASE Stay
            BY <1>3, <3>1, <3>2, <2>1, CoveredGoesOn DEF d
        <3>3. CASE d = AfterLog(w)
            BY <1>3, <2>2, <3>1, <3>3, <2>1, CoveredAfterLog DEF d
        <3> QED
            BY <3>1, <3>2, <3>3
    <2>8. CASE \/ Repair(w) \/ AdoptRow(w) \/ Measure(w) \/ Judge(w) \/ BurnRecords(w)
               \/ CheckDistribution(w) \/ Distribute(w)
        <3>1. /\ c.phase \notin {"look", "clear", "store"}
              /\ (Stay /\ d.phase \notin {"look", "clear", "store"}) \/ d = AfterLog(w)
            <4>1. CASE Repair(w)
                BY <4>1, <1>3 DEF Repair, AtLog, Goto, IndexerInv, CallsSound, d, Call
            <4>2. CASE Measure(w)
                BY <4>2, <1>3 DEF Measure, AtLog, Goto, IndexerInv, CallsSound, d, Call
            <4>3. CASE Judge(w)
                BY <4>3, <1>3 DEF Judge, AtLog, Goto, IndexerInv, CallsSound, d, Call
            <4>6. CASE AdoptRow(w)
                BY <4>6, <1>3 DEF AdoptRow, AtLog, Goto, IndexerInv, CallsSound, d
            <4>7. CASE BurnRecords(w)
                BY <4>7, <1>3 DEF BurnRecords, AtLog, Goto, IndexerInv, CallsSound, d
            <4>4. CASE CheckDistribution(w)
                BY <4>4, <1>3 DEF CheckDistribution, AtLog, Goto, IndexerInv, CallsSound, d, Call
            <4>5. CASE Distribute(w)
                BY <4>5, <1>3 DEF Distribute, AtLog, Goto, IndexerInv, CallsSound, d
            <4> QED
                BY <2>8, <4>1, <4>2, <4>3, <4>4, <4>5, <4>6, <4>7
        <3>2. c.job = "range" => Current(w) \in indexed'
            BY <1>3, <2>2, <3>1 DEF Covered, Grows, Current
        <3>3. CASE Stay
            BY <1>3, <3>1, <3>3, <2>1, CoveredGoesOn DEF d
        <3>4. CASE d = AfterLog(w)
            BY <1>3, <2>2, <3>2, <3>4, <2>1, CoveredAfterLog DEF d
        <3> QED
            BY <3>1, <3>3, <3>4
    <2>9. CASE LoseRace(w)
        <3>1. /\ d = Idle \/ d = AfterLog(w)
              /\ Current(w) \in indexed'
            BY <2>9 DEF LoseRace, AfterError, Goto, IndexerInv, CallsSound, d
        <3>2. CASE d = Idle
            BY <3>2, <2>1, CoveredIdle DEF Idle, d
        <3>3. CASE d = AfterLog(w)
            BY <1>3, <2>2, <3>1, <3>3, <2>1, CoveredAfterLog DEF d
        <3> QED
            BY <3>1, <3>2, <3>3
    <2> QED
        BY <1>5, <2>1, <2>3, <2>4, <2>5, <2>6, <2>7, <2>8, <2>9, <2>10 DEF LogStep
<1>6. CASE ~Finish(w)
    BY <1>2, <1>5, <1>6, OneCovered, CursorStays
<1> QED
    BY <1>4, <1>6

\* An error before the store ends the call; later ones find the log stored.
LEMMA FaultsCover ==
    ASSUME IndexerInv, IndexerInv', CursorInv, Grows, NEW w \in Workers, Fail(w)
    PROVE  CursorInv'
<1> DEFINE c == worker[w]
           d == worker'[w]
<1>1. /\ worker' = [worker EXCEPT ![w] = AfterError(w)] /\ c.todo # <<>>
      /\ cursor' = cursor /\ c \in Call /\ Covered(c) /\ ReadSound(c)
    BY CallFacts DEF Fail, Goto, CursorInv
<1>2. d = AfterError(w)
    BY <1>1 DEF IndexerInv, CallsSound
<1> HIDE DEF d
<1>3. CASE ~Swallowed(w)
    <2>1. d.job # "range"
        BY <1>2, <1>3 DEF AfterError, Idle
    <2> QED
        BY <1>1, <2>1, CoveredIdle, OneCovered, CursorStays DEF d
<1>4. CASE Swallowed(w)
    <2>1. d = AfterLog(w)
        BY <1>2, <1>4 DEF AfterError
    <2>2. c.job = "range" => c.phase \notin {"look", "clear", "store"}
        BY <1>4 DEF Swallowed
    <2>3. c.job = "range" => Current(w) \in indexed'
        BY <1>1, <2>2 DEF Covered, Grows, Current
    <2>4. Covered(worker[w])'
        BY <1>1, <2>1, <2>3, CoveredAfterLog DEF d
    <2> QED
        BY <1>1, <2>4, OneCovered, CursorStays
<1> QED
    BY <1>3, <1>4

LEMMA CursorInit ==
    ASSUME Init
    PROVE  CursorInv
<1>1. cursor = 0 /\ chain = <<>> /\ OnChain = {} /\ worker = [w \in Workers |-> Idle]
    BY BoundsAssumption DEF Init, OnChain, EventIds
<1> QED
    BY <1>1 DEF CursorInv, CursorSound, Covered, Idle

LEMMA CursorStep ==
    ASSUME IndexerInv, IndexerInv', CursorInv, Grows, [Next]_vars
    PROVE  CursorInv'
<1>1. CASE \E w \in Workers : Calls(w) \/ LogStep(w) \/ Fail(w)
    BY <1>1, StartsCover, LogStepsCover, FaultsCover
<1>2. CASE Restart
    <2>1. cursor' = cursor /\ \A w \in Workers : worker'[w].job # "range"
        BY <1>2 DEF Restart, Idle
    <2> QED
        BY <2>1, CoveredIdle, CursorStays
<1>3. CASE \/ \E tx \in TxMenu : Mine(tx)
           \/ \E u \in Users : LinkWallet(u)
           \/ NextPeriod \/ Incomes \/ BackfillIncome \/ UNCHANGED vars
           \/ \E r \in Requests : RequestStep(r)
    <2>1. CASE \E r \in Requests : RequestStep(r)
        <3>1. cursor' = cursor /\ worker' = worker
            BY <2>1 DEF RequestStep, SubmitRow, SubmitMeasure, SubmitJudge, SubmitBurns,
                        FindPurchase, NameRow, RequestFails, Proceed
        <3> QED
            BY <3>1, CoveredKept, CursorStays DEF CursorInv
    <2>2. CASE ~\E r \in Requests : RequestStep(r)
        <3>1. cursor' = cursor /\ worker' = worker
            BY <1>3, <2>2 DEF Mine, LinkWallet, NextPeriod, Incomes, RecordSale, GrantSale,
                        BackfillIncome, vars, callVars
        <3> QED
            BY <3>1, CoveredKept, CursorStays DEF CursorInv
    <2> QED
        BY <2>1, <2>2
<1> QED
    BY <1>1, <1>2, <1>3 DEF Next

\* CursorSound: every log up to ChainSyncState.lastBlock is stored, also when
\* overlapping calls of syncRange finish in any order, fail or are lost.
THEOREM NoLogSkipped == Spec => []CursorSound
<1>1. IndexerInv /\ IndexerInv' /\ CursorInv /\ [Next]_vars => CursorInv'
    BY CursorStep, IndexerStep
<1>2. CursorInv => CursorSound
    BY DEF CursorInv
<1>3. Init => CursorInv
    BY CursorInit
<1> QED
    BY <1>1, <1>2, <1>3, ReadingsHold, PTL DEF Spec

(***************************************************************************)
(* The income of a resale.                                                 *)
(***************************************************************************)

\* A grant is still to be made for the rows that are in and not granted.
SaleInv == SaleIncomeOnce /\ \A e \in granting : granted[e] = 0

\* A grant is made for an inserted row, and a row is inserted once.
LEMMA SaleStep ==
    ASSUME IndexerInv, SaleInv, [Next]_vars
    PROVE  SaleInv'
<1>1. granted \in [EventIds -> Nat] /\ granting \subseteq sales /\ sales \subseteq EventIds
      /\ due \subseteq EventIds
    BY DEF IndexerInv, TablesTyped, OnChain
<1>2. CASE \E e \in due : RecordSale(e)
    <2>1. PICK e \in due : RecordSale(e)
        BY <1>2
    <2>2. /\ granted' = granted /\ sales \subseteq sales'
          /\ granting' \subseteq granting \cup {e} /\ (e \in sales => granting' = granting)
        BY <2>1 DEF RecordSale, Inserts
    <2>3. granted[e] \in Nat /\ granted[e] <= 1
        BY <1>1 DEF SaleInv, SaleIncomeOnce
    <2>4. e \notin sales => granted[e] = 0
        BY <1>1, <2>3 DEF SaleInv, SaleIncomeOnce
    <2> QED
        BY <1>1, <2>2, <2>4 DEF SaleInv, SaleIncomeOnce
<1>3. CASE \E e \in granting : GrantSale(e)
    <2>1. PICK e \in granting : GrantSale(e)
        BY <1>3
    <2>2. /\ sales' = sales /\ granting' = granting \ {e} /\ granted[e] = 0
          /\ granted' = [granted EXCEPT ![e] = @ + 1] /\ e \in sales /\ e \in EventIds
        BY <1>1, <2>1 DEF GrantSale, SaleInv
    <2>3. granted'[e] = 1 /\ \A x \in EventIds \ {e} : granted'[x] = granted[x]
        BY <1>1, <2>2
    <2> QED
        BY <1>1, <2>2, <2>3 DEF SaleInv, SaleIncomeOnce
<1>4. ASSUME ~Incomes PROVE sales' = sales /\ granted' = granted /\ granting' \subseteq granting
    <2>1. CASE UNCHANGED vars
        BY <2>1 DEF vars, incomeVars
    <2>2. CASE \E w \in Workers : Calls(w)
        BY <2>2 DEF Calls, StartRange, StartHeadWindow, StartTx, StartBackfill, Begin, incomeVars
    <2>3. CASE \E w \in Workers : LogStep(w)
        BY <2>3 DEF LogStep, SkipStored, LookAgain, FindRow, LookMarket, LookPackage, StoreListed,
               StorePurchase, LoseRace, Repair, AdoptRow, Measure, Judge, BurnRecords, StoreEventOnly, ClearCurrent,
               StoreActivation, CheckDistribution, Distribute, Finish, incomeVars
    <2>4. CASE \E w \in Workers : Fail(w)
        BY <2>4 DEF Fail, incomeVars
    <2>5. CASE \/ \E tx \in TxMenu : Mine(tx)
               \/ \E u \in Users : LinkWallet(u)
               \/ NextPeriod \/ BackfillIncome \/ Restart
        BY <2>5 DEF Mine, LinkWallet, NextPeriod, BackfillIncome, Restart, incomeVars
    <2>6. CASE \E r \in Requests : RequestStep(r)
        BY <2>6 DEF RequestStep, SubmitRow, SubmitMeasure, SubmitJudge, SubmitBurns,
                    FindPurchase, NameRow, RequestFails, Proceed, incomeVars
    <2> QED
        BY <1>4, <2>1, <2>2, <2>3, <2>4, <2>5, <2>6 DEF Next
<1>5. CASE ~Incomes
    BY <1>4, <1>5 DEF SaleInv, SaleIncomeOnce
<1> QED
    BY <1>2, <1>3, <1>5 DEF Incomes

\* SaleIncomeOnce: the backfill of the income pages and the calls that purchases
\* start never grant the income of a resale twice.
THEOREM SaleIncomePaidOnce == Spec => []SaleIncomeOnce
<1>1. IndexerInv /\ SaleInv /\ [Next]_vars => SaleInv'
    BY SaleStep
<1>2. SaleInv => SaleIncomeOnce
    BY DEF SaleInv
<1>3. Init => SaleInv
    BY DEF Init, SaleInv, SaleIncomeOnce
<1> QED
    BY <1>1, <1>2, <1>3, ReadingsHold, PTL DEF Spec

(***************************************************************************)
(* The volume rows.                                                        *)
(***************************************************************************)

\* A volume row that names a purchase is of its buyer and its price, and no other
\* row names the same.
RowOf(row, e) ==
    /\ e \in OnChain /\ EventAt(e).kind = "Purchased"
    /\ e[1] = row.tx /\ EventAt(e).user = row.user /\ EventAt(e).token = row.token
    /\ EventAt(e).price = row.volume

RowsInv ==
    /\ \A i \in DOMAIN rows : rows[i].tx # NoTx => \E e \in EventIds : RowOf(rows[i], e)
    /\ \A i, j \in DOMAIN rows :
           /\ rows[i].tx # NoTx
           /\ rows[i].user = rows[j].user /\ rows[i].tx = rows[j].tx
           /\ rows[i].token = rows[j].token
           => i = j

\* A purchase stays the purchase of its row.
LEMMA RowKept ==
    ASSUME Grows, NEW row, NEW e, RowOf(row, e)
    PROVE  RowOf(row, e)'
    BY DEF RowOf, Grows

\* A row is added for a purchase that has none, or names none, ...
LEMMA RowAppended ==
    ASSUME IndexerInv, RowsInv, Grows, NEW row, rows' = Append(rows, row),
           row.tx # NoTx =>
               /\ \E e \in EventIds : RowOf(row, e)
               /\ \A i \in DOMAIN rows : ~(/\ rows[i].user = row.user
                                            /\ rows[i].tx = row.tx
                                            /\ rows[i].token = row.token)
    PROVE  RowsInv'
<1>1. /\ DOMAIN rows = 1 .. Len(rows) /\ DOMAIN rows' = 1 .. Len(rows) + 1
      /\ rows'[Len(rows) + 1] = row /\ Len(rows) \in Nat
      /\ \A i \in 1 .. Len(rows) : rows'[i] = rows[i]
    <2>1. rows \in Seq(Row \cup {row}) /\ row \in Row \cup {row}
        BY DEF IndexerInv, TablesTyped
    <2> QED
        BY <2>1, AppendProperties
<1>2. ASSUME NEW i \in DOMAIN rows', rows'[i].tx # NoTx
      PROVE  \E x \in EventIds : RowOf(rows[i], x)'
    <2> PICK r : r = rows'[i]
        OBVIOUS
    <2>1. \E x \in EventIds : RowOf(r, x)
        <3>1. CASE i = Len(rows) + 1
            BY <1>1, <1>2, <3>1
        <3>2. CASE i # Len(rows) + 1
            BY <1>1, <1>2, <3>2 DEF RowsInv
        <3> QED
            BY <3>1, <3>2
    <2>2. PICK x \in EventIds : RowOf(r, x)
        BY <2>1
    <2>3. RowOf(r, x)'
        BY <2>2, RowKept
    <2> QED
        BY <2>3 DEF RowOf
<1>3. ASSUME NEW i \in DOMAIN rows', NEW j \in DOMAIN rows', rows'[i].tx # NoTx,
             rows'[i].user = rows'[j].user, rows'[i].tx = rows'[j].tx,
             rows'[i].token = rows'[j].token
      PROVE  i = j
    BY <1>1, <1>3 DEF RowsInv
<1> QED
    BY <1>2, <1>3 DEF RowsInv

\* ... as by createTradingLogIdempotent, ...
LEMMA RowAdded ==
    ASSUME IndexerInv, RowsInv, Grows, NEW u \in Users, NEW a, NEW e \in OnChain,
           EventAt(e).kind = "Purchased", EventAt(e).user = u,
           rows' = WithTradingRow(u, a, e), rows' # rows
    PROVE  RowsInv'
<1> PICK row : row = TradingRow(u, a, e)
    OBVIOUS
<1>1. ~HasTradingRow(u, e) /\ rows' = Append(rows, row) /\ e \in EventIds
    BY DEF WithTradingRow, OnChain
<1>2. /\ row.user = u /\ row.tx = e[1] /\ row.token = EventAt(e).token
      /\ row.volume = EventAt(e).price
    BY DEF TradingRow
<1>3. RowOf(row, e)
    BY <1>2 DEF RowOf
<1>4. \A i \in DOMAIN rows : ~(/\ rows[i].user = row.user /\ rows[i].tx = row.tx
                               /\ rows[i].token = row.token)
    BY <1>1, <1>2 DEF HasTradingRow
<1> QED
    BY <1>1, <1>3, <1>4, RowAppended

\* ... or takes the name of a purchase that has none.
LEMMA RowNamed ==
    ASSUME IndexerInv, RowsInv, Grows, NEW u, NEW i \in DOMAIN rows, NEW e \in OnChain,
           EventAt(e).kind = "Purchased", EventAt(e).user = u,
           rows[i].user = u, rows[i].volume = EventAt(e).price,
           rows' = Named(i, u, e), rows' # rows
    PROVE  RowsInv'
<1> DEFINE row == [rows[i] EXCEPT !.tx = e[1], !.token = EventAt(e).token]
<1>1. ~HasTradingRow(u, e) /\ rows' = [rows EXCEPT ![i] = row] /\ e \in EventIds
    BY DEF Named, OnChain
<1>2. rows \in Seq(Row) /\ rows[i] \in Row
    BY ElementOfSeq DEF IndexerInv, TablesTyped
<1>3. /\ row.user = u /\ row.tx = e[1] /\ row.token = EventAt(e).token
      /\ row.volume = EventAt(e).price
    BY <1>2 DEF Row
<1> HIDE DEF row
<1>4. RowOf(row, e)
    BY <1>3 DEF RowOf
<1>5. DOMAIN rows' = DOMAIN rows /\ \A k \in DOMAIN rows : rows'[k] = IF k = i THEN row ELSE rows[k]
    BY <1>1, <1>2
<1>6. \A k \in DOMAIN rows : ~(/\ rows[k].user = row.user /\ rows[k].tx = row.tx
                               /\ rows[k].token = row.token)
    BY <1>1, <1>3 DEF HasTradingRow
<1>7. ASSUME NEW k \in DOMAIN rows', rows'[k].tx # NoTx
      PROVE  \E x \in EventIds : RowOf(rows[k], x)'
    <2> PICK r : r = rows'[k]
        OBVIOUS
    <2>1. \E x \in EventIds : RowOf(r, x)
        BY <1>1, <1>4, <1>5, <1>7 DEF RowsInv
    <2>2. PICK x \in EventIds : RowOf(r, x)
        BY <2>1
    <2>3. RowOf(r, x)'
        BY <2>2, RowKept
    <2> QED
        BY <2>3 DEF RowOf
<1>8. ASSUME NEW k \in DOMAIN rows', NEW j \in DOMAIN rows', rows'[k].tx # NoTx,
             rows'[k].user = rows'[j].user, rows'[k].tx = rows'[j].tx,
             rows'[k].token = rows'[j].token
      PROVE  k = j
    BY <1>5, <1>6, <1>8 DEF RowsInv
<1> QED
    BY <1>7, <1>8 DEF RowsInv

LEMMA RowsSame ==
    ASSUME RowsInv, Grows, rows' = rows
    PROVE  RowsInv'
    BY RowKept DEF RowsInv

\* The steps that write volume rows: a purchase with its row, ...
PurchaseRow(u, a, e) ==
    /\ EventAt(e).kind = "Purchased" /\ EventAt(e).user = u
    /\ rows' = WithTradingRow(u, a, e)

\* ... a row that is named ...
RenamedRow(i, e) ==
    /\ EventAt(e).kind = "Purchased" /\ EventAt(e).user = rows[i].user
    /\ rows[i].volume = EventAt(e).price
    /\ rows' = Named(i, rows[i].user, e)

\* ... and a row of the user's own words.
LEMMA RowsWritten ==
    ASSUME IndexerInv, [Next]_vars, rows' # rows
    PROVE  \/ \E u \in Users, a \in 1 .. MaxRows, e \in OnChain : PurchaseRow(u, a, e)
           \/ \E i \in DOMAIN rows, e \in OnChain : RenamedRow(i, e)
           \/ \E row : row.tx = NoTx /\ rows' = Append(rows, row)
<1>1. \/ \E w \in Workers : StorePurchase(w) \/ Repair(w) \/ AdoptRow(w)
      \/ \E r \in Requests : RequestStep(r)
    <2>1. CASE \E w \in Workers : Calls(w)
        BY <2>1 DEF Calls, StartRange, StartHeadWindow, StartTx, StartBackfill, Begin, marketVars
    <2>2. CASE \E w \in Workers : LogStep(w)
        BY <2>2 DEF LogStep, SkipStored, LookAgain, FindRow, LookMarket, LookPackage,
               StoreListed, LoseRace, Measure, Judge, BurnRecords, StoreEventOnly, ClearCurrent,
               StoreActivation, CheckDistribution, Distribute, Finish, marketVars
    <2>3. CASE \E w \in Workers : Fail(w)
        BY <2>3 DEF Fail, marketVars
    <2>4. CASE \/ \E tx \in TxMenu : Mine(tx)
               \/ \E u \in Users : LinkWallet(u)
               \/ NextPeriod \/ BackfillIncome \/ Restart \/ Incomes
        BY <2>4 DEF Mine, LinkWallet, NextPeriod, BackfillIncome, Restart, Incomes, RecordSale,
                    GrantSale, marketVars
    <2>5. CASE UNCHANGED vars
        BY <2>5 DEF vars, marketVars
    <2> QED
        BY <2>1, <2>2, <2>3, <2>4, <2>5 DEF Next
<1>2. CASE \E w \in Workers : StorePurchase(w) \/ Repair(w)
    <2> PICK w \in Workers : StorePurchase(w) \/ Repair(w)
        BY <1>2
    <2> DEFINE c == worker[w]
               e == Current(w)
    <2>2. /\ e \in OnChain /\ c \in Call /\ ReadSound(c) /\ EventAt(e).kind = "Purchased"
          /\ c.act # 0 /\ rows' = WithTradingRow(c.user, c.act, e)
        <3>1. CASE StorePurchase(w)
            BY <3>1, CallFacts DEF StorePurchase, AtLog, CountsVolume
        <3>2. CASE Repair(w)
            BY <3>2, CallFacts DEF Repair, AtLog, ReadSound, Current
        <3> QED
            BY <3>1, <3>2
    <2>3. c.user \in Users /\ EventAt(e).user = c.user /\ c.act \in 1 .. MaxRows
        BY <2>2 DEF ReadSound, Call, Current
    <2> HIDE DEF c, e
    <2> QED
        BY <2>2, <2>3 DEF PurchaseRow
<1>3. CASE \E w \in Workers : AdoptRow(w)
    <2> PICK w \in Workers : AdoptRow(w)
        BY <1>3
    <2> DEFINE c == worker[w]
               e == Current(w)
    <2>1. /\ e \in OnChain /\ c.phase = "adopt" /\ ReadSound(c)
          /\ rows' = Named(c.row, c.user, e)
        BY CallFacts DEF AdoptRow, AtLog
    <2>2. /\ c.row \in DOMAIN rows /\ rows[c.row].user = c.user /\ EventAt(e).user = c.user
          /\ EventAt(e).kind = "Purchased" /\ rows[c.row].volume = EventAt(e).price
        BY <2>1 DEF ReadSound, Current
    <2> HIDE DEF c, e
    <2> QED
        BY <2>1, <2>2 DEF RenamedRow
<1>4. CASE \E r \in Requests : RequestStep(r)
    <2> PICK r \in Requests : RequestStep(r)
        BY <1>4
    <2>1. CASE \E u \in Users, i \in DOMAIN acts, p \in 0 .. MaxPeriod, v \in SubmitVolumes :
                   SubmitRow(r, u, i, p, v)
        BY <2>1 DEF SubmitRow, SubmittedRow
    <2>2. CASE NameRow(r)
        <3> PICK q : q = request[r]
            OBVIOUS
        <3>1. RequestSound(q) /\ q.phase = "name" /\ rows' = Named(q.row, q.user, q.log)
            BY <2>2 DEF NameRow, IndexerInv, RequestsSound
        <3> QED
            BY <3>1 DEF RequestSound, RenamedRow
    <2> QED
        BY <2>1, <2>2 DEF RequestStep, SubmitMeasure, SubmitJudge, SubmitBurns, FindPurchase,
                          RequestFails, marketVars
<1> QED
    BY <1>1, <1>2, <1>3, <1>4

LEMMA RowsStep ==
    ASSUME IndexerInv, RowsInv, Grows, [Next]_vars
    PROVE  RowsInv'
<1>1. CASE rows' = rows
    BY <1>1, RowsSame
<1>2. CASE rows' # rows
    <2>1. CASE \E u \in Users, a \in 1 .. MaxRows, e \in OnChain : PurchaseRow(u, a, e)
        BY <1>2, <2>1, RowAdded DEF PurchaseRow
    <2>2. CASE \E i \in DOMAIN rows, e \in OnChain : RenamedRow(i, e)
        BY <1>2, <2>2, RowNamed DEF RenamedRow
    <2>3. CASE \E row : row.tx = NoTx /\ rows' = Append(rows, row)
        BY <2>3, RowAppended
    <2> QED
        BY <1>2, <2>1, <2>2, <2>3, RowsWritten
<1> QED
    BY <1>1, <1>2

Counted(r, u, p) == {i \in DOMAIN r : r[i].user = u /\ r[i].period = p}

\* The rows of a user and a period are finitely many numbers.
LEMMA CountedFinite ==
    ASSUME NEW r \in Seq(Row), NEW u, NEW p
    PROVE  /\ IsFiniteSet(Counted(r, u, p)) /\ Counted(r, u, p) \in SUBSET DOMAIN r
           /\ \A i \in DOMAIN r : r[i].volume \in Nat
<1>1. IsFiniteSet(DOMAIN r)
    BY FS_Interval
<1>2. Counted(r, u, p) \in SUBSET DOMAIN r
    BY DEF Counted
<1>3. \A i \in DOMAIN r : r[i].volume \in Nat
    <2> TAKE i \in DOMAIN r
    <2>1. r[i] \in Row
        BY ElementOfSeq
    <2> QED
        BY <2>1 DEF Row
<1> QED
    BY <1>1, <1>2, <1>3, FS_Subset

\* Each row that names a purchase is matched with it, and no two with the same one.
LEMMA VolumeMatched ==
    ASSUME IndexerInv, RowsInv, NEW u \in Users, NEW p \in 0 .. MaxPeriod
    PROVE  SumOver(Naming(u, p), [i \in DOMAIN rows |-> rows[i].volume])
               <= SumOver(Bought(u, p), [e \in OnChain |-> EventAt(e).price])
<1> DEFINE S == Naming(u, p)
           T == Bought(u, p)
           f == [i \in DOMAIN rows |-> rows[i].volume]
           g == [e \in OnChain |-> EventAt(e).price]
           j == [i \in DOMAIN rows |-> CHOOSE e \in EventIds : RowOf(rows[i], e)]
<1>1. IsFiniteSet(S) /\ S \in SUBSET DOMAIN rows /\ \A i \in DOMAIN rows : rows[i].volume \in Nat
    <2>1. S \in SUBSET DOMAIN rows /\ rows \in Seq(Row)
        BY DEF Naming, IndexerInv, TablesTyped
    <2>2. IsFiniteSet(DOMAIN rows)
        BY <2>1, FS_Interval
    <2> HIDE DEF S
    <2> QED
        BY <2>1, <2>2, FS_Subset, CountedFinite
<1>2. IsFiniteSet(T) /\ T \in SUBSET OnChain
    <2>1. T \in SUBSET EventIds /\ T \in SUBSET OnChain
        BY DEF Bought, OnChain
    <2> HIDE DEF T
    <2> QED
        BY <2>1, EventIdsFinite, FS_Subset
<1>3. \A i \in DOMAIN rows : rows[i].tx # NoTx => RowOf(rows[i], j[i])
    BY DEF RowsInv
<1>4. \A e \in OnChain : g[e] = EventAt(e).price /\ g[e] \in Nat
    BY OnChainEvents DEF IndexerInv, Event
<1>5. \A i \in DOMAIN rows : f[i] = rows[i].volume
    OBVIOUS
<1>6. \A i \in S : rows[i].user = u /\ rows[i].tx # NoTx /\ chain[rows[i].tx].period = p
    BY DEF Naming
<1> HIDE DEF j, f, g
<1>7. ASSUME NEW i \in S PROVE f[i] \in Nat /\ j[i] \in T /\ f[i] <= g[j[i]]
    <2>1. RowOf(rows[i], j[i]) /\ f[i] = rows[i].volume /\ f[i] \in Nat
          /\ rows[i].user = u /\ chain[rows[i].tx].period = p
        BY <1>1, <1>3, <1>5, <1>6
    <2>2. j[i] \in T /\ EventAt(j[i]).price = f[i] /\ j[i] \in OnChain
        BY <2>1 DEF RowOf, Bought
    <2>3. g[j[i]] = f[i]
        BY <1>4, <2>2
    <2> QED
        BY <2>1, <2>2, <2>3
<1>8. ASSUME NEW i \in S, NEW k \in S, j[i] = j[k] PROVE i = k
    <2>1. /\ RowOf(rows[i], j[i]) /\ RowOf(rows[k], j[i]) /\ i \in DOMAIN rows /\ k \in DOMAIN rows
          /\ rows[i].tx # NoTx
        BY <1>1, <1>3, <1>6, <1>8
    <2>2. /\ rows[i].user = rows[k].user /\ rows[i].tx = rows[k].tx
          /\ rows[i].token = rows[k].token
        BY <2>1 DEF RowOf
    <2> QED
        BY <2>1, <2>2 DEF RowsInv
<1>9. \A e \in T : g[e] \in Nat
    BY <1>2, <1>4
<1> HIDE DEF S, T
<1>11. SumOver(S, f) <= SumOver(T, g)
    BY <1>1, <1>2, <1>7, <1>8, <1>9, SumMatched
<1> QED
    BY <1>11 DEF S, T, f, g

\* VolumeCountedOnce: head window, receipt sync, backfill, repair and timer, and
\* the page that names submitted rows, never let the rows that name a user's
\* purchases add up to more than what was bought on the chain.
THEOREM VolumeNeverCountedTwice == Spec => []VolumeCountedOnce
<1>1. IndexerInv /\ RowsInv /\ [Next]_vars => RowsInv'
    BY RowsStep, IndexerStep
<1>2. IndexerInv /\ RowsInv => VolumeCountedOnce
    BY VolumeMatched DEF VolumeCountedOnce
<1>3. Init => RowsInv
    BY DEF Init, RowsInv
<1> QED
    BY <1>1, <1>2, <1>3, ReadingsHold, PTL DEF Spec

\* So is it after a step.
LEMMA VolumeNow ==
    ASSUME IndexerInv', NEW u, NEW p
    PROVE  VolumeIn(u, p)' \in Nat
<1>1. rows' \in Seq(Row)
    BY DEF IndexerInv, TablesTyped
<1> DEFINE S == Counted(rows', u, p)
           f == [i \in DOMAIN rows' |-> rows'[i].volume]
<1>2. /\ IsFiniteSet(S) /\ S \in SUBSET DOMAIN rows'
      /\ \A i \in DOMAIN rows' : rows'[i].volume \in Nat
    BY <1>1, CountedFinite
<1>3. \A i \in S : f[i] \in Nat
    BY <1>2
<1>4. VolumeIn(u, p)' = SumOver(S, f)
    BY DEF VolumeIn, Counted
<1> HIDE DEF S, f
<1> QED
    BY <1>2, <1>3, <1>4, SumNat

(***************************************************************************)
(* The verdicts of compliance.                                             *)
(***************************************************************************)

\* Volume rows are added and named, so what counts in a period only grows.
LEMMA VolumeGrows ==
    ASSUME IndexerInv, IndexerInv', Grows
    PROVE  \A u, p : VolumeIn(u, p) <= VolumeIn(u, p)'
<1> SUFFICES ASSUME NEW u, NEW p PROVE VolumeIn(u, p) <= VolumeIn(u, p)'
    OBVIOUS
<1> DEFINE S == Counted(rows, u, p)
           T == Counted(rows', u, p)
           f == [i \in DOMAIN rows |-> rows[i].volume]
           g == [i \in DOMAIN rows' |-> rows'[i].volume]
<1>1. \A i \in DOMAIN rows : /\ i \in DOMAIN rows' /\ rows'[i].user = rows[i].user
                             /\ rows'[i].period = rows[i].period
                             /\ rows'[i].volume = rows[i].volume
    BY DEF Grows, RowsGrow
<1>2. S \subseteq T
    BY <1>1 DEF Counted
<1>3. /\ IsFiniteSet(S) /\ S \in SUBSET DOMAIN rows
      /\ \A i \in DOMAIN rows : rows[i].volume \in Nat
    BY CountedFinite DEF IndexerInv, TablesTyped
<1>4. /\ IsFiniteSet(T) /\ T \in SUBSET DOMAIN rows'
      /\ \A i \in DOMAIN rows' : rows'[i].volume \in Nat
    BY CountedFinite DEF IndexerInv, TablesTyped
<1>5. VolumeIn(u, p) = SumOver(S, f) /\ VolumeIn(u, p)' = SumOver(T, g)
    BY DEF VolumeIn, Counted
<1>6. \A i \in S : f[i] \in Nat /\ g[i] = f[i]
    BY <1>1, <1>3
<1>7. \A i \in T : g[i] \in Nat
    BY <1>4
<1> HIDE DEF S, T, f, g
<1>8. SumOver(S, g) = SumOver(S, f)
    <2>1. \A i \in S : f[i] \in Int /\ g[i] = f[i]
        BY <1>6
    <2> QED
        BY <1>3, <2>1, SumSame
<1>9. SumOver(S, g) <= SumOver(T, g)
    BY <1>2, <1>4, <1>7, SumPart
<1> QED
    BY <1>5, <1>8, <1>9

\* A verdict in the making is earned: the volume it is about to be given on is
\* still there.
Measured(c) ==
    c.todo # <<>> /\ c.phase = "judge" =>
        c.volume <= VolumeIn(c.user, chain[Head(c.todo)[1]].period)

SubmitMeasured(q) == q.phase = "judge" => q.volume <= VolumeIn(q.user, q.period)

\* The activation is the user's own, or one that the user has named.
Claimed(u, i) ==
    i \in DOMAIN acts /\ (\/ acts[i].user = u
                         \/ \E k \in DOMAIN rows : rows[k].user = u /\ rows[k].act = i)

Earned(u, p) ==
    \E i \in DOMAIN acts : /\ Claimed(u, i)
                           /\ 2 * VolumeIn(u, p) >= Required[acts[i].package]

ComplianceInv ==
    /\ CompliantEarned
    /\ \A w \in Workers : Measured(worker[w])
    /\ \A r \in Requests : SubmitMeasured(request[r])

\* Packages are tiers, which ask for a volume.
LEMMA PackagesTyped ==
    ASSUME IndexerInv, NEW i \in DOMAIN acts
    PROVE  acts[i].package \in Tiers /\ Required[acts[i].package] \in Nat
<1>1. acts[i] \in Activation
    BY ElementOfSeq DEF IndexerInv, TablesTyped
<1> QED
    BY <1>1, BoundsAssumption DEF Activation

\* What was earned stays earned.
LEMMA EarnedKept ==
    ASSUME IndexerInv, IndexerInv', Grows, NEW u, NEW p, Earned(u, p)
    PROVE  Earned(u, p)'
<1>1. PICK i \in DOMAIN acts : Claimed(u, i) /\ 2 * VolumeIn(u, p) >= Required[acts[i].package]
    BY DEF Earned
<1>2. /\ i \in DOMAIN acts' /\ Claimed(u, i)' /\ acts'[i].package = acts[i].package
      /\ Required[acts[i].package] \in Nat
    BY <1>1, PackagesTyped DEF Grows, RowsGrow, Claimed
<1>3. /\ VolumeIn(u, p) \in Nat /\ VolumeIn(u, p)' \in Nat
      /\ VolumeIn(u, p) <= VolumeIn(u, p)'
    BY VolumeNow, VolumeIsNat, VolumeGrows DEF IndexerInv
<1>4. 2 * VolumeIn(u, p)' >= Required[acts[i].package]
    BY <1>1, <1>2, <1>3
<1> QED
    BY <1>2, <1>4 DEF Earned

\* Only Measure sends a call to judge.
LEMMA JudgesMeasured ==
    ASSUME IndexerInv, [Next]_vars, NEW v \in Workers
    PROVE  worker'[v] = worker[v] \/ worker'[v].phase # "judge" \/ Measure(v)
<1>1. worker \in [Workers -> Call]
    BY DEF IndexerInv, CallsSound
<1>2. Idle.phase = "look" /\ AfterLog(v).phase = "look"
    BY DEF Idle, AfterLog
<1>3. CASE Calls(v)
    <2>1. CASE StartRange(v)
        <3>1. worker'[v].phase = Idle.phase
            BY <1>1, <2>1 DEF StartRange, Begin, Idle
        <3> QED
            BY <1>2, <3>1
    <2>2. CASE StartHeadWindow(v)
        BY <1>1, <2>2 DEF StartHeadWindow, Begin, Idle
    <2>3. CASE \E b \in DOMAIN chain : StartTx(v, b)
        BY <1>1, <2>3 DEF StartTx, Begin, Idle
    <2>4. CASE \E u \in Users : StartBackfill(v, u)
        BY <1>1, <2>4 DEF StartBackfill, Begin, Idle
    <2> QED
        BY <1>3, <2>1, <2>2, <2>3, <2>4 DEF Calls
<1>4. CASE LogStep(v)
    <2>1. CASE \/ SkipStored(v) \/ StoreListed(v) \/ AdoptRow(v) \/ BurnRecords(v)
               \/ Distribute(v) \/ Finish(v) \/ LoseRace(v)
        BY <1>1, <1>2, <2>1 DEF SkipStored, StoreListed, AdoptRow, BurnRecords, Distribute,
                                Finish, LoseRace, AfterError, Goto
    <2>4. CASE FindRow(v)
        <3>1. PICK i \in DOMAIN rows :
                  worker'[v] = [worker[v] EXCEPT !.phase = "adopt",
                                    !.user = UserOf(EventAt(Current(v)).user), !.row = i]
            BY <1>1, <2>4 DEF FindRow, Goto
        <3>2. worker[v] \in Call
            BY <1>1
        <3> QED
            BY <3>1, <3>2 DEF Call
    <2>2. CASE LookAgain(v) \/ LookMarket(v) \/ ClearCurrent(v) \/ Repair(v) \/ StoreActivation(v)
        <3>1. worker[v] \in Call
            BY <1>1
        <3> QED
            BY <1>1, <2>2, <3>1 DEF LookAgain, LookMarket, ClearCurrent, Repair, StoreActivation,
                                    Goto, Call
    <2>3. CASE \/ StorePurchase(v) \/ StoreEventOnly(v) \/ CheckDistribution(v)
               \/ LookPackage(v) \/ Judge(v)
        <3>1. worker[v] \in Call
            BY <1>1
        <3>2. CASE StorePurchase(v)
            BY <1>1, <1>2, <3>1, <3>2 DEF StorePurchase, Goto, Call
        <3>3. CASE StoreEventOnly(v)
            BY <1>1, <1>2, <3>1, <3>3 DEF StoreEventOnly, Goto, Call
        <3>4. CASE CheckDistribution(v)
            BY <1>1, <1>2, <3>1, <3>4 DEF CheckDistribution, Goto, Call
        <3>5. CASE LookPackage(v)
            <4>1. \/ \E u, a : \E p \in {"clear", "store"} :
                        worker'[v] = [worker[v] EXCEPT !.phase = p, !.user = u, !.act = a]
                  \/ worker'[v] = [worker[v] EXCEPT !.phase = "store"]
                BY <3>5, <1>1 DEF LookPackage, Goto
            <4> QED
                BY <4>1, <3>1 DEF Call
        <3>6. CASE Judge(v)
            BY <1>1, <1>2, <3>1, <3>6 DEF Judge, Goto, Call
        <3> QED
            BY <2>3, <3>2, <3>3, <3>4, <3>5, <3>6
    <2> QED
        BY <1>4, <2>1, <2>2, <2>3, <2>4 DEF LogStep
<1>5. CASE Fail(v)
    BY <1>1, <1>2, <1>5 DEF Fail, AfterError, Goto
<1>6. CASE \E w \in Workers : w # v /\ (Calls(w) \/ LogStep(w) \/ Fail(w))
    <2>1. PICK w \in Workers : w # v /\ (Calls(w) \/ LogStep(w) \/ Fail(w))
        BY <1>6
    <2>2. \E d : worker' = [worker EXCEPT ![w] = d]
        <3>1. CASE Calls(w)
            BY <3>1 DEF Calls, StartRange, StartHeadWindow, StartTx, StartBackfill, Begin
        <3>2. CASE LogStep(w)
            BY <3>2 DEF LogStep, SkipStored, LookAgain, FindRow, LookMarket, LookPackage, StoreListed,
                   StorePurchase, LoseRace, Repair, AdoptRow, Measure, Judge, BurnRecords, StoreEventOnly,
                   ClearCurrent, StoreActivation, CheckDistribution, Distribute, Finish, Goto
        <3>3. CASE Fail(w)
            BY <3>3 DEF Fail, Goto
        <3> QED
            BY <2>1, <3>1, <3>2, <3>3
    <2> QED
        BY <1>1, <2>1, <2>2
<1>7. CASE Restart
    BY <1>2, <1>7 DEF Restart
<1>8. CASE \/ \E tx \in TxMenu : Mine(tx)
           \/ \E u \in Users : LinkWallet(u)
           \/ NextPeriod \/ Incomes \/ BackfillIncome \/ UNCHANGED vars
    BY <1>8 DEF Mine, LinkWallet, NextPeriod, Incomes, RecordSale, GrantSale, BackfillIncome, vars,
                callVars
<1>9. CASE \E r \in Requests : RequestStep(r)
    BY <1>9 DEF RequestStep, SubmitRow, SubmitMeasure, SubmitJudge, SubmitBurns,
                FindPurchase, NameRow, RequestFails, Proceed
<1> QED
    BY <1>3, <1>4, <1>5, <1>6, <1>7, <1>8, <1>9 DEF Next

\* While a call is about to judge, rows are only added.
LEMMA MeasuredStep ==
    ASSUME IndexerInv, IndexerInv', Grows, [Next]_vars, NEW v \in Workers, Measured(worker[v])
    PROVE  Measured(worker[v])'
<1> DEFINE c == worker[v]
           d == worker'[v]
<1>1. CASE d = c
    <2> SUFFICES ASSUME c.todo # <<>>, c.phase = "judge" PROVE Measured(worker[v])'
        BY <1>1 DEF Measured
    <2>1. Head(c.todo) \in OnChain /\ c.volume \in Nat
        BY CallFacts DEF Current, Call
    <2>2. chain'[Head(c.todo)[1]].period = chain[Head(c.todo)[1]].period
        BY <2>1 DEF Grows
    <2> PICK u : u = c.user
        OBVIOUS
    <2> PICK p : p = chain[Head(c.todo)[1]].period
        OBVIOUS
    <2>3. c.volume <= VolumeIn(u, p) /\ VolumeIn(u, p) <= VolumeIn(u, p)'
        BY VolumeGrows DEF Measured
    <2>4. VolumeIn(u, p) \in Nat /\ VolumeIn(u, p)' \in Nat
        BY VolumeNow, VolumeIsNat DEF IndexerInv
    <2>5. c.volume <= VolumeIn(u, p)'
        BY <2>1, <2>3, <2>4
    <2>6. worker'[v].user = u /\ chain'[Head(worker'[v].todo)[1]].period = p
          /\ worker'[v].volume = c.volume
        BY <1>1, <2>2
    <2> HIDE DEF c, d
    <2> QED
        BY <2>5, <2>6 DEF Measured, VolumeIn
<1>2. CASE d.phase # "judge"
    BY <1>2 DEF Measured
<1>3. CASE d.phase = "judge" /\ Measure(v)
    <2>1. /\ c \in Call /\ chain' = chain /\ rows' = rows
          /\ d = IF chain[Current(v)[1]].period = period
                 THEN [c EXCEPT !.phase = "judge", !.volume = VolumeIn(c.user, period)]
                 ELSE AfterLog(v)
        BY <1>3, CallFacts DEF Measure, Goto, IndexerInv, CallsSound, chainVars, marketVars
    <2>2. AfterLog(v).phase = "look"
        BY DEF AfterLog, Idle
    <2>3. /\ chain[Current(v)[1]].period = period
          /\ d.todo = c.todo /\ d.user = c.user /\ d.volume = VolumeIn(c.user, period)
        BY <1>3, <2>1, <2>2 DEF Call
    <2>4. VolumeIn(c.user, period) \in Nat
        BY VolumeIsNat DEF IndexerInv
    <2>5. d.volume <= VolumeIn(c.user, chain[Head(c.todo)[1]].period)
        BY <2>3, <2>4 DEF Current
    <2> QED
        BY <2>1, <2>3, <2>5 DEF Measured, VolumeIn
<1> QED
    BY <1>1, <1>2, <1>3, JudgesMeasured

\* Likewise a submission that is about to judge.
LEMMA SubmitMeasuredStep ==
    ASSUME IndexerInv, IndexerInv', Grows, [Next]_vars, NEW r \in Requests,
           SubmitMeasured(request[r])
    PROVE  SubmitMeasured(request[r])'
<1> DEFINE q == request[r]
<1>1. q \in Request /\ request \in [Requests -> Request]
    BY DEF IndexerInv, RequestsSound
<1>2. \/ request'[r] = q \/ request'[r].phase # "judge" \/ SubmitMeasure(r)
    <2>1. CASE RequestStep(r)
        <3>1. CASE SubmitMeasure(r)
            BY <3>1
        <3>2. CASE SubmitJudge(r)
            BY <1>1, <3>2 DEF SubmitJudge, Proceed, NoRequest, Request
        <3>3. CASE SubmitBurns(r) \/ NameRow(r) \/ RequestFails(r)
            BY <1>1, <3>3 DEF SubmitBurns, NameRow, RequestFails, Proceed, NoRequest
        <3>4. CASE \E u \in Users, i \in DOMAIN acts, p \in 0 .. MaxPeriod, v \in SubmitVolumes :
                       SubmitRow(r, u, i, p, v)
            BY <1>1, <3>4 DEF SubmitRow, NoRequest
        <3>5. CASE \E u \in Users, i \in DOMAIN rows, e \in indexed : FindPurchase(r, u, i, e)
            BY <1>1, <3>5 DEF FindPurchase, Proceed, NoRequest
        <3> QED
            BY <2>1, <3>1, <3>2, <3>3, <3>4, <3>5 DEF RequestStep
    <2>2. CASE \E v \in Requests : v # r /\ RequestStep(v)
        BY <1>1, <2>2 DEF RequestStep, SubmitRow, SubmitMeasure, SubmitJudge, SubmitBurns,
                    FindPurchase, NameRow, RequestFails, Proceed
    <2>3. CASE Restart
        BY <2>3 DEF Restart, NoRequest
    <2>4. CASE \E w \in Workers : Calls(w) \/ LogStep(w) \/ Fail(w)
        <3>1. request' = request
            <4>1. CASE \E w \in Workers : Calls(w)
                BY <4>1 DEF Calls, StartRange, StartHeadWindow, StartTx, StartBackfill, Begin
            <4>2. CASE \E w \in Workers : LogStep(w)
                BY <4>2 DEF LogStep, SkipStored, LookAgain, FindRow, LookMarket, LookPackage,
                       StoreListed, StorePurchase, LoseRace, Repair, AdoptRow, Measure, Judge,
                       BurnRecords, StoreEventOnly, ClearCurrent, StoreActivation,
                       CheckDistribution, Distribute, Finish, Goto
            <4>3. CASE \E w \in Workers : Fail(w)
                BY <4>3 DEF Fail, Goto
            <4> QED
                BY <2>4, <4>1, <4>2, <4>3
        <3> QED
            BY <3>1
    <2>5. CASE \/ \E tx \in TxMenu : Mine(tx)
               \/ \E u \in Users : LinkWallet(u)
               \/ NextPeriod \/ Incomes \/ BackfillIncome \/ UNCHANGED vars
        BY <2>5 DEF Mine, LinkWallet, NextPeriod, Incomes, RecordSale, GrantSale,
                    BackfillIncome, vars, callVars
    <2> QED
        BY <2>1, <2>2, <2>3, <2>4, <2>5 DEF Next
<1>3. CASE request'[r] = q
    <2> SUFFICES ASSUME q.phase = "judge" PROVE SubmitMeasured(request[r])'
        BY <1>3 DEF SubmitMeasured
    <2> PICK u : u = q.user
        OBVIOUS
    <2> PICK p : p = q.period
        OBVIOUS
    <2>1. q.volume \in Nat /\ q.volume <= VolumeIn(u, p)
        BY <1>1 DEF SubmitMeasured, Request
    <2>2. /\ VolumeIn(u, p) \in Nat /\ VolumeIn(u, p)' \in Nat
          /\ VolumeIn(u, p) <= VolumeIn(u, p)'
        BY VolumeNow, VolumeIsNat, VolumeGrows DEF IndexerInv
    <2>3. q.volume <= VolumeIn(u, p)'
        BY <2>1, <2>2
    <2>4. request'[r].user = u /\ request'[r].period = p /\ request'[r].volume = q.volume
        BY <1>3
    <2> HIDE DEF q
    <2> QED
        BY <2>3, <2>4 DEF SubmitMeasured, VolumeIn
<1>4. CASE request'[r].phase # "judge"
    BY <1>4 DEF SubmitMeasured
<1>5. CASE SubmitMeasure(r)
    <2>1. /\ rows' = rows
          /\ request'[r] = [q EXCEPT !.phase = "judge", !.volume = VolumeIn(q.user, q.period)]
        BY <1>1, <1>5 DEF SubmitMeasure, Proceed, marketVars
    <2>2. VolumeIn(q.user, q.period) \in Nat
        BY VolumeIsNat DEF IndexerInv
    <2>3. /\ request'[r].user = q.user /\ request'[r].period = q.period
          /\ request'[r].volume = VolumeIn(q.user, q.period)
        BY <1>1, <2>1 DEF Request
    <2> HIDE DEF q
    <2> QED
        BY <2>1, <2>2, <2>3 DEF SubmitMeasured, VolumeIn
<1> QED
    BY <1>2, <1>3, <1>4, <1>5

\* Only Judge and SubmitJudge give verdicts.
LEMMA VerdictsJudged ==
    ASSUME IndexerInv, [Next]_vars
    PROVE  \/ compliance' = compliance
           \/ \E w \in Workers : Judge(w)
           \/ \E r \in Requests : SubmitJudge(r)
<1>1. CASE \E w \in Workers : Calls(w)
    BY <1>1 DEF Calls, StartRange, StartHeadWindow, StartTx, StartBackfill, Begin, marketVars
<1>2. CASE \E w \in Workers : LogStep(w)
    BY <1>2 DEF LogStep, SkipStored, LookAgain, FindRow, LookMarket, LookPackage, StoreListed,
           StorePurchase, LoseRace, Repair, AdoptRow, Measure, BurnRecords, StoreEventOnly, ClearCurrent,
           StoreActivation, CheckDistribution, Distribute, Finish, marketVars
<1>3. CASE \E w \in Workers : Fail(w)
    BY <1>3 DEF Fail, marketVars
<1>4. CASE \/ \E tx \in TxMenu : Mine(tx)
           \/ \E u \in Users : LinkWallet(u)
           \/ NextPeriod \/ BackfillIncome \/ Restart \/ Incomes \/ UNCHANGED vars
    BY <1>4 DEF Mine, LinkWallet, NextPeriod, BackfillIncome, Restart, Incomes, RecordSale,
                GrantSale, marketVars, vars
<1>5. CASE \E r \in Requests : RequestStep(r)
    BY <1>5 DEF RequestStep, SubmitRow, SubmitMeasure, SubmitBurns, FindPurchase, NameRow,
                RequestFails, marketVars
<1> QED
    BY <1>1, <1>2, <1>3, <1>4, <1>5 DEF Next

\* A verdict of compliant is given on the volume read and an activation claimed ...
LEMMA VerdictEarned ==
    ASSUME IndexerInv, NEW v, NEW q \in 0 .. MaxPeriod, NEW a, NEW volume \in Nat,
           Claimed(v, a), volume <= VolumeIn(v, q),
           compliance' = WithVerdict(v, q, Meets(volume, Required[acts[a].package])),
           NEW u \in Users, NEW p \in 0 .. MaxPeriod, compliance'[u][p] = "compliant"
    PROVE  compliance[u][p] = "compliant" \/ Earned(u, p)
<1> DEFINE r == Required[acts[a].package]
           met == Meets(volume, r)
<1>1. a \in DOMAIN acts /\ r \in Nat /\ VolumeIn(v, q) \in Nat
    BY PackagesTyped, VolumeIsNat DEF IndexerInv, Claimed
<1>2. compliance \in [Users -> [0 .. MaxPeriod -> Verdicts]]
    BY DEF IndexerInv, TablesTyped
<1>3. compliance' = [compliance EXCEPT ![v][q] = IF met THEN "compliant" ELSE "non_compliant"]
    BY DEF WithVerdict
<1> HIDE DEF met, r
<1>4. CASE u # v \/ p # q
    BY <1>2, <1>3, <1>4
<1>5. CASE u = v /\ p = q /\ ~met
    BY <1>2, <1>3, <1>5
<1>6. CASE u = v /\ p = q /\ met
    <2>1. 2 * volume >= r
        BY <1>6 DEF met, Meets
    <2>2. 2 * VolumeIn(u, p) >= r
        BY <1>1, <1>6, <2>1
    <2> QED
        BY <1>1, <1>6, <2>2 DEF Earned, r
<1> QED
    BY <1>4, <1>5, <1>6

\* ... by a call that the indexer makes ...
LEMMA JudgeEarns ==
    ASSUME IndexerInv, ComplianceInv, NEW w \in Workers, Judge(w),
           NEW u \in Users, NEW p \in 0 .. MaxPeriod, compliance'[u][p] = "compliant"
    PROVE  compliance[u][p] = "compliant" \/ Earned(u, p)
<1> DEFINE c == worker[w]
           e == Current(w)
           q == chain[e[1]].period
<1>1. /\ c \in Call /\ ReadSound(c) /\ c.phase = "judge" /\ c.todo # <<>> /\ e \in OnChain
      /\ compliance' = WithVerdict(c.user, q, Meets(c.volume, Required[acts[c.act].package]))
    BY CallFacts DEF Judge, AtLog
<1>2. /\ c.act \in DOMAIN acts /\ acts[c.act].user = c.user /\ c.volume \in Nat
    BY <1>1 DEF ReadSound, Call
<1>3. c.volume <= VolumeIn(c.user, q)
    BY <1>1 DEF ComplianceInv, Measured, Current
<1>4. q \in 0 .. MaxPeriod
    BY <1>1, OnChainEvents DEF IndexerInv
<1>5. Claimed(c.user, c.act)
    BY <1>2 DEF Claimed
<1> HIDE DEF e, q, c
<1> QED
    BY <1>1, <1>2, <1>3, <1>4, <1>5, VerdictEarned

\* ... or by a submission.
LEMMA SubmitJudgeEarns ==
    ASSUME IndexerInv, ComplianceInv, NEW r \in Requests, SubmitJudge(r),
           NEW u \in Users, NEW p \in 0 .. MaxPeriod, compliance'[u][p] = "compliant"
    PROVE  compliance[u][p] = "compliant" \/ Earned(u, p)
<1> DEFINE q == request[r]
<1>1. /\ RequestSound(q) /\ q \in Request /\ q.phase = "judge" /\ SubmitMeasured(q)
      /\ compliance' = WithVerdict(q.user, q.period, Meets(q.volume, Required[acts[q.act].package]))
    BY DEF SubmitJudge, IndexerInv, RequestsSound, RequestSound, ComplianceInv
<1>2. /\ q.volume \in Nat /\ q.period \in 0 .. MaxPeriod
      /\ q.volume <= VolumeIn(q.user, q.period)
    BY <1>1 DEF Request, SubmitMeasured
<1>3. Claimed(q.user, q.act)
    BY <1>1 DEF RequestSound, Claimed
<1> HIDE DEF q
<1> QED
    BY <1>1, <1>2, <1>3, VerdictEarned

LEMMA ComplianceStep ==
    ASSUME IndexerInv, IndexerInv', ComplianceInv, Grows, [Next]_vars
    PROVE  ComplianceInv'
<1>1. \A w \in Workers : Measured(worker[w])'
    BY MeasuredStep DEF ComplianceInv
<1>2. \A r \in Requests : SubmitMeasured(request[r])'
    BY SubmitMeasuredStep DEF ComplianceInv
<1>3. ASSUME NEW u \in Users, NEW p \in 0 .. MaxPeriod, compliance'[u][p] = "compliant"
      PROVE  Earned(u, p)'
    <2>1. compliance[u][p] = "compliant" \/ Earned(u, p)
        BY <1>3, VerdictsJudged, JudgeEarns, SubmitJudgeEarns
    <2>2. Earned(u, p)
        BY <2>1 DEF ComplianceInv, CompliantEarned, Earned, Claimed
    <2> QED
        BY <2>2, EarnedKept
<1> QED
    BY <1>1, <1>2, <1>3 DEF ComplianceInv, CompliantEarned, Earned, Claimed

\* CompliantEarned: a stale volume, a row renamed meanwhile or a period that turns
\* between the sum and the verdict never give a verdict of compliant that the
\* user's rows, purchases and submitted volume together, do not bear out for a
\* package of the user's or one that the user has named.
THEOREM ComplianceIsEarned == Spec => []CompliantEarned
<1>1. IndexerInv /\ IndexerInv' /\ ComplianceInv /\ [Next]_vars => ComplianceInv'
    BY ComplianceStep, IndexerStep
<1>2. ComplianceInv => CompliantEarned
    BY DEF ComplianceInv
<1>3. Init => ComplianceInv
    <2> SUFFICES ASSUME Init PROVE ComplianceInv
        OBVIOUS
    <2>1. \A w \in Workers : worker[w].todo = <<>>
        BY DEF Init, Idle
    <2>2. \A u \in Users, p \in 0 .. MaxPeriod : compliance[u][p] = "none"
        BY DEF Init, NoVerdict
    <2>3. \A r \in Requests : request[r].phase = "idle"
        BY DEF Init, NoRequest
    <2> QED
        BY <2>1, <2>2, <2>3 DEF ComplianceInv, CompliantEarned, Measured, SubmitMeasured
<1> QED
    BY <1>1, <1>2, <1>3, ReadingsHold, PTL DEF Spec
=============================================================================
