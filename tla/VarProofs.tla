----------------------------- MODULE VarProofs ------------------------------
(***************************************************************************)
(* The variable store: its walks over the log, for stores of any size, and *)
(* what VarRecovery promises, as theorems of VarStore!Spec.                *)
(***************************************************************************)
EXTENDS VarRecovery, FiniteSetTheorems, SequenceTheorems, NaturalsInduction,
        WellFoundedInduction, TLAPS

-----------------------------------------------------------------------------
(* Numbers and small sets.                                                  *)

NatLess == OpToRel(<, Nat)

LEMMA LeastNat ==
  ASSUME NEW T, T \subseteq Nat, T # {}
  PROVE  \E x \in T : \A y \in T : x <= y
<1>1. IsWellFoundedOn(NatLess, Nat)
  BY NatLessThanWellFounded DEF NatLess
<1>2. \E x \in T : \A y \in T : ~(<<y, x>> \in NatLess)
  BY <1>1, WFMin
<1>3. PICK x \in T : \A y \in T : ~(<<y, x>> \in NatLess)
  BY <1>2
<1>4. \A y, z \in Nat : <<y, z>> \in NatLess <=> y < z
  BY DEF NatLess, OpToRel
<1>5. ASSUME NEW y \in T PROVE x <= y
  <2>1. x \in Nat /\ y \in Nat
    OBVIOUS
  <2>2. ~(y < x)
    BY <1>3, <1>4, <2>1
  <2> QED BY <2>1, <2>2
<1> QED BY <1>5

LEMMA GreatestNat ==
  ASSUME NEW T, NEW b \in Nat, T \subseteq 0..b, T # {}
  PROVE  \E x \in T : \A y \in T : y <= x
<1> DEFINE U == {b - y : y \in T}
<1>1. U \subseteq Nat /\ U # {}
  OBVIOUS
<1>2. PICK u \in U : \A v \in U : u <= v
  BY <1>1, LeastNat
<1>3. PICK x \in T : u = b - x
  BY <1>2
<1>4. ASSUME NEW y \in T PROVE y <= x
  <2>1. b - y \in U
    OBVIOUS
  <2>2. b - x <= b - y
    BY <1>2, <1>3, <2>1
  <2> QED BY <2>2
<1> QED BY <1>4

\* The log's two parameters, as the walks need them.
LEMMA SizeFacts ==
  /\ StoreSize \in Nat /\ StoreSize >= 2 /\ VarSize = 2
  /\ \A p : p \in Offset <=> p \in Int /\ 1 <= p /\ p <= StoreSize
BY StoreAssumption DEF VarSize, Offset

LEMMA MinIs ==
  ASSUME NEW T, T \subseteq Nat, T # {}
  PROVE  Min(T) \in T /\ \A y \in T : Min(T) <= y
BY LeastNat DEF Min

LEMMA MaxIs ==
  ASSUME NEW T, NEW b \in Nat, T \subseteq 0..b, T # {}
  PROVE  Max(T) \in T /\ \A y \in T : y <= Max(T)
<1>1. PICK x \in T : \A y \in T : y <= x
  BY GreatestNat
<1>2. \A y \in T : x >= y
  BY <1>1
<1> QED BY <1>2 DEF Max

LEMMA EntryFacts ==
  ASSUME NEW u
  PROVE  /\ EntrySize(u) \in {1, 2}
         /\ u.state = {} => EntrySize(u) = 1
         /\ u.state # {} => EntrySize(u) = 2
BY DEF EntrySize, VarSize

-----------------------------------------------------------------------------
(* The walk over the headers of a store is the only set of headers that     *)
(* begins at the first unit, follows each by the next and ends before a     *)
(* unit without StartId.                                                    *)

IsWalk(store, H, e) ==
  /\ H \subseteq Offset /\ e \in Nat /\ e >= 1
  /\ \A p \in H : store[p].start /\ p + EntrySize(store[p]) <= e
                  /\ p + EntrySize(store[p]) \in H \cup {e}
  /\ 1 \in H \cup {e}
  /\ e <= StoreSize => ~store[e].start
  /\ \A p, q \in H : p < q => p + EntrySize(store[p]) <= q

LEMMA SameHeaders ==
  ASSUME NEW store, NEW H, NEW e, NEW G, NEW f, IsWalk(store, H, e), IsWalk(store, G, f)
  PROVE  H \subseteq G
<1> SUFFICES ASSUME H \ G # {} PROVE FALSE
  OBVIOUS
<1>0. /\ H \subseteq Nat /\ e \in Nat /\ f \in Nat
      /\ \A p \in H : p <= StoreSize /\ p >= 1 /\ store[p].start /\ p < e
                      /\ p + EntrySize(store[p]) > p
      /\ StoreSize \in Nat
  BY SizeFacts, EntryFacts DEF IsWalk
<1>1. PICK p \in H \ G : \A q \in H \ G : p <= q
  <2>1. H \ G \subseteq Nat
    BY <1>0
  <2> QED BY <2>1, LeastNat
<1>2. p # 1
  <2>1. ASSUME p = 1 PROVE FALSE
    <3>1. 1 = f
      BY <1>1, <2>1 DEF IsWalk
    <3>2. ~store[1].start
      BY <1>0, <1>1, <2>1, <3>1 DEF IsWalk
    <3> QED BY <1>0, <1>1, <2>1, <3>2
  <2> QED BY <2>1
<1> DEFINE T == {q \in H : q < p}
<1>3. T \subseteq 0..p /\ 1 \in T /\ p \in Nat
  <2>1. p \in Nat /\ p >= 1 /\ p < e
    BY <1>0, <1>1
  <2>2. 1 \in H /\ 1 < p
    BY <1>0, <1>2, <2>1 DEF IsWalk
  <2>3. \A q \in T : q \in 0..p
    BY <1>0, <2>1
  <2>4. 1 \in T
    BY <2>2
  <2> HIDE DEF T
  <2> QED BY <2>1, <2>3, <2>4
<1>4. PICK q \in T : \A y \in T : y <= q
  BY <1>3, GreatestNat
<1> DEFINE n == q + EntrySize(store[q])
<1>5. /\ q \in H /\ q < p /\ n <= p /\ n \in H \cup {e} /\ n > q /\ n \in Nat
  BY <1>0, <1>1, <1>4, EntryFacts DEF IsWalk
<1>6. n = p
  <2>1. n \in H
    BY <1>0, <1>1, <1>5
  <2>2. ~(n < p)
    BY <1>0, <1>4, <1>5, <2>1
  <2> QED BY <1>0, <1>1, <1>5, <2>2
<1>7. q \in G
  BY <1>0, <1>1, <1>5
<1>8. p = f
  BY <1>1, <1>6, <1>7 DEF IsWalk
<1> QED BY <1>0, <1>1, <1>8 DEF IsWalk

LEMMA SameWalk ==
  ASSUME NEW store, NEW H, NEW e, NEW G, NEW f, IsWalk(store, H, e), IsWalk(store, G, f)
  PROVE  H = G /\ e = f
<1>1. H = G
  BY SameHeaders
<1>2. CASE H = {}
  BY <1>1, <1>2 DEF IsWalk
<1>3. CASE H # {}
  <2>1. H \subseteq 0..StoreSize /\ StoreSize \in Nat
    BY SizeFacts DEF IsWalk
  <2>2. PICK p \in H : \A q \in H : q <= p
    BY <1>3, <2>1, GreatestNat
  <2>3. p + EntrySize(store[p]) \notin H
    BY <2>1, <2>2, EntryFacts
  <2> QED BY <1>1, <2>2, <2>3 DEF IsWalk
<1> QED BY <1>1, <1>2, <1>3

\* The walk that starts at unit s.
WalkFrom(store, s, H, e) ==
  /\ H \subseteq Offset /\ e \in Nat /\ e >= s /\ e <= StoreSize + 2
  /\ \A p \in H : p >= s
  /\ \A p \in H : store[p].start /\ p + EntrySize(store[p]) <= e
                  /\ p + EntrySize(store[p]) \in H \cup {e}
  /\ s \in H \cup {e}
  /\ e <= StoreSize => ~store[e].start
  /\ \A p, q \in H : p < q => p + EntrySize(store[p]) <= q

Ahead == 1..(StoreSize + VarSize)
Stops(store, p) == p > StoreSize \/ ~store[p].start
NextUnit(store, p) == p + EntrySize(store[p])

HeadersStep(store, f, p) == IF Stops(store, p) THEN {} ELSE {p} \cup f[NextUnit(store, p)]
EndStep(store, f, p)     == IF Stops(store, p) THEN p ELSE f[NextUnit(store, p)]

LEMMA NextFacts ==
  ASSUME NEW store, NEW p \in Ahead, ~Stops(store, p)
  PROVE  NextUnit(store, p) \in Ahead /\ NextUnit(store, p) > p
BY SizeFacts, EntryFacts DEF Ahead, Stops, NextUnit

LEMMA HeadersFunction ==
  ASSUME NEW store
  PROVE  \E f : f = [p \in Ahead |-> HeadersStep(store, f, p)]
<1> DEFINE Good(k, g) == \A p \in Ahead : p > StoreSize + 2 - k => g[p] = HeadersStep(store, g, p)
           T == {k \in 0..(StoreSize + 2) : ~ \E g : Good(k, g)}
<1>0. StoreSize \in Nat /\ Ahead = 1..(StoreSize + 2)
  BY SizeFacts DEF Ahead
<1>1. T = {}
  <2> SUFFICES ASSUME T # {} PROVE FALSE
    OBVIOUS
  <2>1. PICK k \in T : \A j \in T : k <= j
    <3>1. T \subseteq Nat
      BY <1>0
    <3> HIDE DEF T
    <3> QED BY <3>1, LeastNat
  <2>2. Good(0, 0)
    BY <1>0
  <2>3. k \in 0..(StoreSize + 2) /\ k # 0
    BY <2>1, <2>2
  <2>4. (k - 1) \in 0..(StoreSize + 2) /\ k - 1 \notin T
    <3>1. (k - 1) \in 0..(StoreSize + 2) /\ ~(k <= k - 1)
      BY <1>0, <2>3
    <3> HIDE DEF T
    <3> QED BY <2>1, <3>1
  <2>5. PICK g : Good(k - 1, g)
    BY <2>4
  <2> DEFINE m == StoreSize + 3 - k
             h == [p \in Ahead |-> IF p = m THEN HeadersStep(store, g, m) ELSE g[p]]
  <2>6. ASSUME NEW p \in Ahead, p >= m PROVE HeadersStep(store, h, p) = HeadersStep(store, g, p)
    <3>1. CASE Stops(store, p)
      BY <3>1 DEF HeadersStep
    <3>2. CASE ~Stops(store, p)
      <4>1. NextUnit(store, p) \in Ahead /\ NextUnit(store, p) # m
        BY <1>0, <2>3, <2>6, <3>2, NextFacts
      <4>2. h[NextUnit(store, p)] = g[NextUnit(store, p)]
        BY <4>1
      <4> QED BY <3>2, <4>2 DEF HeadersStep
    <3> QED BY <3>1, <3>2
  <2>7. ASSUME NEW p \in Ahead, p > StoreSize + 2 - k PROVE h[p] = HeadersStep(store, h, p)
    <3>1. p >= m /\ p \in Int /\ m \in Int
      BY <1>0, <2>3, <2>7
    <3>2. CASE p = m
      BY <2>6, <3>1, <3>2
    <3>3. CASE p # m
      <4>1. p > StoreSize + 2 - (k - 1)
        BY <1>0, <2>3, <3>1, <3>3
      <4>2. g[p] = HeadersStep(store, g, p)
        BY <2>5, <4>1
      <4> QED BY <2>6, <3>1, <3>3, <4>2
    <3> QED BY <3>2, <3>3
  <2>8. Good(k, h)
    BY <2>7
  <2> QED BY <2>1, <2>8
<1>2. PICK g : Good(StoreSize + 2, g)
  <2>1. StoreSize + 2 \in 0..(StoreSize + 2)
    BY <1>0
  <2> HIDE DEF Good
  <2> QED BY <1>1, <2>1
<1> DEFINE f == [p \in Ahead |-> g[p]]
<1>3. ASSUME NEW p \in Ahead PROVE g[p] = HeadersStep(store, f, p)
  <2>1. g[p] = HeadersStep(store, g, p)
    BY <1>0, <1>2
  <2>2. CASE Stops(store, p)
    BY <2>1, <2>2 DEF HeadersStep
  <2>3. CASE ~Stops(store, p)
    <3>1. f[NextUnit(store, p)] = g[NextUnit(store, p)]
      BY <2>3, NextFacts
    <3> QED BY <2>1, <2>3, <3>1 DEF HeadersStep
  <2> QED BY <2>2, <2>3
<1>4. f = [p \in Ahead |-> HeadersStep(store, f, p)]
  BY <1>3
<1> QED BY <1>4

LEMMA EndFunction ==
  ASSUME NEW store
  PROVE  \E f : f = [p \in Ahead |-> EndStep(store, f, p)]
<1> DEFINE Good(k, g) == \A p \in Ahead : p > StoreSize + 2 - k => g[p] = EndStep(store, g, p)
           T == {k \in 0..(StoreSize + 2) : ~ \E g : Good(k, g)}
<1>0. StoreSize \in Nat /\ Ahead = 1..(StoreSize + 2)
  BY SizeFacts DEF Ahead
<1>1. T = {}
  <2> SUFFICES ASSUME T # {} PROVE FALSE
    OBVIOUS
  <2>1. PICK k \in T : \A j \in T : k <= j
    <3>1. T \subseteq Nat
      BY <1>0
    <3> HIDE DEF T
    <3> QED BY <3>1, LeastNat
  <2>2. Good(0, 0)
    BY <1>0
  <2>3. k \in 0..(StoreSize + 2) /\ k # 0
    BY <2>1, <2>2
  <2>4. (k - 1) \in 0..(StoreSize + 2) /\ k - 1 \notin T
    <3>1. (k - 1) \in 0..(StoreSize + 2) /\ ~(k <= k - 1)
      BY <1>0, <2>3
    <3> HIDE DEF T
    <3> QED BY <2>1, <3>1
  <2>5. PICK g : Good(k - 1, g)
    BY <2>4
  <2> DEFINE m == StoreSize + 3 - k
             h == [p \in Ahead |-> IF p = m THEN EndStep(store, g, m) ELSE g[p]]
  <2>6. ASSUME NEW p \in Ahead, p >= m PROVE EndStep(store, h, p) = EndStep(store, g, p)
    <3>1. CASE Stops(store, p)
      BY <3>1 DEF EndStep
    <3>2. CASE ~Stops(store, p)
      <4>1. NextUnit(store, p) \in Ahead /\ NextUnit(store, p) # m
        BY <1>0, <2>3, <2>6, <3>2, NextFacts
      <4>2. h[NextUnit(store, p)] = g[NextUnit(store, p)]
        BY <4>1
      <4> QED BY <3>2, <4>2 DEF EndStep
    <3> QED BY <3>1, <3>2
  <2>7. ASSUME NEW p \in Ahead, p > StoreSize + 2 - k PROVE h[p] = EndStep(store, h, p)
    <3>1. p >= m /\ p \in Int /\ m \in Int
      BY <1>0, <2>3, <2>7
    <3>2. CASE p = m
      BY <2>6, <3>1, <3>2
    <3>3. CASE p # m
      <4>1. p > StoreSize + 2 - (k - 1)
        BY <1>0, <2>3, <3>1, <3>3
      <4>2. g[p] = EndStep(store, g, p)
        BY <2>5, <4>1
      <4> QED BY <2>6, <3>1, <3>3, <4>2
    <3> QED BY <3>2, <3>3
  <2>8. Good(k, h)
    BY <2>7
  <2> QED BY <2>1, <2>8
<1>2. PICK g : Good(StoreSize + 2, g)
  <2>1. StoreSize + 2 \in 0..(StoreSize + 2)
    BY <1>0
  <2> HIDE DEF Good
  <2> QED BY <1>1, <2>1
<1> DEFINE f == [p \in Ahead |-> g[p]]
<1>3. ASSUME NEW p \in Ahead PROVE g[p] = EndStep(store, f, p)
  <2>1. g[p] = EndStep(store, g, p)
    BY <1>0, <1>2
  <2>2. CASE Stops(store, p)
    BY <2>1, <2>2 DEF EndStep
  <2>3. CASE ~Stops(store, p)
    <3>1. f[NextUnit(store, p)] = g[NextUnit(store, p)]
      BY <2>3, NextFacts
    <3> QED BY <2>1, <2>3, <3>1 DEF EndStep
  <2> QED BY <2>2, <2>3
<1>4. f = [p \in Ahead |-> EndStep(store, f, p)]
  BY <1>3
<1> QED BY <1>4

LEMMA HeadersAre ==
  ASSUME NEW store
  PROVE  \E f : /\ Headers(store) = f[1]
                /\ \A p \in Ahead : f[p] = HeadersStep(store, f, p)
<1> DEFINE f == CHOOSE f : f = [p \in Ahead |-> HeadersStep(store, f, p)]
<1>1. f = [p \in Ahead |-> HeadersStep(store, f, p)]
  BY HeadersFunction
<1>2. Headers(store) = f[1]
  BY DEF Headers, HeadersStep, Stops, NextUnit, Ahead
<1>3. \A p \in Ahead : f[p] = HeadersStep(store, f, p)
  BY <1>1
<1> HIDE DEF f
<1> QED BY <1>2, <1>3

LEMMA EndIs ==
  ASSUME NEW store
  PROVE  \E f : /\ End(store) = f[1]
                /\ \A p \in Ahead : f[p] = EndStep(store, f, p)
<1> DEFINE f == CHOOSE f : f = [p \in Ahead |-> EndStep(store, f, p)]
<1>1. f = [p \in Ahead |-> EndStep(store, f, p)]
  BY EndFunction
<1>2. End(store) = f[1]
  BY DEF End, EndStep, Stops, NextUnit, Ahead
<1>3. \A p \in Ahead : f[p] = EndStep(store, f, p)
  BY <1>1
<1> HIDE DEF f
<1> QED BY <1>2, <1>3

\* The two functions give a walk from each unit, by induction from the last one.
LEMMA WalksAhead ==
  ASSUME NEW store, NEW f, NEW g,
         \A p \in Ahead : f[p] = HeadersStep(store, f, p),
         \A p \in Ahead : g[p] = EndStep(store, g, p)
  PROVE  \A p \in Ahead : WalkFrom(store, p, f[p], g[p])
<1> DEFINE Good(p) == WalkFrom(store, p, f[p], g[p])
           T == {k \in 0..(StoreSize + 2) : \E p \in Ahead : k = StoreSize + 2 - p /\ ~Good(p)}
<1>0. StoreSize \in Nat /\ Ahead = 1..(StoreSize + 2)
  BY SizeFacts DEF Ahead
<1>1. ASSUME NEW p \in Ahead, \A q \in Ahead : q > p => Good(q) PROVE Good(p)
  <2>1. CASE Stops(store, p)
    <3>1. f[p] = {} /\ g[p] = p
      BY <2>1 DEF HeadersStep, EndStep
    <3>2. p \in Nat /\ p <= StoreSize + 2
      BY <1>0
    <3>3. WalkFrom(store, p, {}, p)
      BY <1>0, <2>1, <3>2 DEF WalkFrom, Stops
    <3> QED BY <3>1, <3>3
  <2>2. CASE ~Stops(store, p)
    <3> DEFINE n == NextUnit(store, p)
    <3>1. n \in Ahead /\ n > p
      BY <2>2, NextFacts
    <3>2. WalkFrom(store, n, f[n], g[n])
      BY <1>1, <3>1
    <3>3. f[p] = {p} \cup f[n] /\ g[p] = g[n]
      BY <2>2 DEF HeadersStep, EndStep
    <3> DEFINE H == f[n]
               e == g[n]
    <3>4. /\ H \subseteq Offset /\ e \in Nat /\ e >= n /\ e <= StoreSize + 2
          /\ \A q \in H : q >= n
          /\ \A q \in H : store[q].start /\ q + EntrySize(store[q]) <= e
                          /\ q + EntrySize(store[q]) \in H \cup {e}
          /\ n \in H \cup {e}
          /\ e <= StoreSize => ~store[e].start
          /\ \A q, r \in H : q < r => q + EntrySize(store[q]) <= r
      BY <3>2 DEF WalkFrom
    <3>5. /\ n = p + EntrySize(store[p]) /\ p \in Offset /\ p \in Nat /\ p <= StoreSize
          /\ store[p].start /\ n \in Nat /\ H \subseteq Nat
      BY <1>0, <2>2, <3>1, <3>4, SizeFacts DEF NextUnit, Stops
    <3> HIDE DEF H, e, n
    <3>6. \A q \in {p} \cup H : q >= p /\ q \in Nat
      BY <3>1, <3>4, <3>5
    <3>7. \A q \in {p} \cup H : store[q].start /\ q + EntrySize(store[q]) <= e
                          /\ q + EntrySize(store[q]) \in {p} \cup H \cup {e}
      BY <3>1, <3>4, <3>5
    <3>8. \A q, r \in {p} \cup H : q < r => q + EntrySize(store[q]) <= r
      BY <3>1, <3>4, <3>5, <3>6
    <3>9. WalkFrom(store, p, {p} \cup H, e)
      BY <3>1, <3>4, <3>5, <3>6, <3>7, <3>8 DEF WalkFrom
    <3>10. f[p] = {p} \cup H /\ g[p] = e
      BY <3>3 DEF H, e
    <3> QED BY <3>9, <3>10
  <2> QED BY <2>1, <2>2
<1>2. T = {}
  <2> SUFFICES ASSUME T # {} PROVE FALSE
    OBVIOUS
  <2>1. PICK k \in T : \A j \in T : k <= j
    <3>1. T \subseteq Nat
      BY <1>0
    <3> HIDE DEF T
    <3> QED BY <3>1, LeastNat
  <2>2. PICK p \in Ahead : k = StoreSize + 2 - p /\ ~Good(p)
    BY <2>1
  <2>3. ASSUME NEW q \in Ahead, q > p PROVE Good(q)
    <3>0. ~(k <= StoreSize + 2 - q)
      BY <1>0, <2>2, <2>3
    <3> HIDE DEF Good
    <3>1. ~(StoreSize + 2 - q \in T)
      <4> HIDE DEF T
      <4> QED BY <2>1, <3>0
    <3>2. StoreSize + 2 - q \in 0..(StoreSize + 2)
      BY <1>0
    <3> QED BY <3>1, <3>2
  <2> HIDE DEF Good, T
  <2> QED BY <1>1, <2>2, <2>3
<1>3. ASSUME NEW p \in Ahead PROVE Good(p)
  <2> HIDE DEF Good
  <2>1. StoreSize + 2 - p \in 0..(StoreSize + 2)
    BY <1>0
  <2> QED BY <1>2, <2>1
<1> QED BY <1>3

\* Headers and End are the walk.
LEMMA TheWalk ==
  ASSUME NEW store
  PROVE  IsWalk(store, Headers(store), End(store)) /\ End(store) <= StoreSize + 2
<1>1. PICK f : Headers(store) = f[1] /\ \A p \in Ahead : f[p] = HeadersStep(store, f, p)
  BY HeadersAre
<1>2. PICK g : End(store) = g[1] /\ \A p \in Ahead : g[p] = EndStep(store, g, p)
  BY EndIs
<1>3. 1 \in Ahead
  BY SizeFacts DEF Ahead
<1>4. WalkFrom(store, 1, f[1], g[1])
  BY <1>1, <1>2, <1>3, WalksAhead
<1> QED BY <1>1, <1>2, <1>4 DEF WalkFrom, IsWalk

LEMMA WalkIs ==
  ASSUME NEW store, NEW H, NEW e, IsWalk(store, H, e)
  PROVE  Headers(store) = H /\ End(store) = e
BY TheWalk, SameWalk

\* A store whose headers have kept their sizes has the same walk.
LEMMA SameShape ==
  ASSUME NEW store, NEW t,
         \A p \in Headers(store) : t[p].start /\ EntrySize(t[p]) = EntrySize(store[p]),
         End(store) <= StoreSize => ~t[End(store)].start
  PROVE  Headers(t) = Headers(store) /\ End(t) = End(store)
<1> DEFINE H == Headers(store)
           e == End(store)
<1>1. IsWalk(store, H, e)
  BY TheWalk
<1> HIDE DEF H, e
<1>2. /\ \A p \in H : t[p].start /\ EntrySize(t[p]) = EntrySize(store[p])
      /\ e <= StoreSize => ~t[e].start
  BY DEF H, e
<1>3. IsWalk(t, H, e)
  BY <1>1, <1>2 DEF IsWalk
<1> QED BY <1>3, WalkIs DEF H, e

\* A header written at the end of the log is the last of the walk.
LEMMA Appended ==
  ASSUME NEW store, NEW t,
         \A p \in Headers(store) : t[p].start /\ EntrySize(t[p]) = EntrySize(store[p]),
         End(store) <= StoreSize, t[End(store)].start,
         NextUnit(t, End(store)) <= StoreSize => ~t[NextUnit(t, End(store))].start
  PROVE  Headers(t) = Headers(store) \cup {End(store)} /\ End(t) = NextUnit(t, End(store))
<1> DEFINE H == Headers(store)
           e == End(store)
           n == NextUnit(t, e)
<1>1. IsWalk(store, H, e)
  BY TheWalk
<1> HIDE DEF H, e
<1>2. /\ \A p \in H : t[p].start /\ EntrySize(t[p]) = EntrySize(store[p])
      /\ e <= StoreSize /\ t[e].start
      /\ n <= StoreSize => ~t[n].start
  BY DEF H, e
<1>3. n = e + EntrySize(t[e]) /\ EntrySize(t[e]) \in {1, 2}
  BY EntryFacts DEF NextUnit
<1> HIDE DEF n
<1>4. /\ H \subseteq Offset /\ e \in Offset /\ e \in Nat /\ e >= 1 /\ n > e /\ n \in Nat
      /\ \A p \in H : p < e /\ p \in Nat
      /\ \A p \in H : p + EntrySize(t[p]) <= e /\ p + EntrySize(t[p]) \in H \cup {e}
      /\ 1 \in H \cup {e}
      /\ \A p, q \in H : p < q => p + EntrySize(t[p]) <= q
  BY <1>1, <1>2, <1>3, SizeFacts, EntryFacts DEF IsWalk
<1>5. \A p \in H \cup {e} : t[p].start /\ p + EntrySize(t[p]) <= n
                           /\ p + EntrySize(t[p]) \in H \cup {e} \cup {n}
  BY <1>2, <1>3, <1>4, EntryFacts
<1>6. ASSUME NEW p \in H \cup {e}, NEW q \in H \cup {e}, p < q
      PROVE  p + EntrySize(t[p]) <= q
  <2>1. p \in H
    BY <1>4, <1>6
  <2> QED BY <1>4, <1>6, <2>1
<1>7. IsWalk(t, H \cup {e}, n)
  BY <1>2, <1>4, <1>5, <1>6 DEF IsWalk
<1> QED BY <1>7, WalkIs DEF H, e, n

LEMMA ErasedWalk == Headers(ErasedStore) = {} /\ End(ErasedStore) = 1
<1>1. 1 \in Offset /\ ErasedStore[1].start = FALSE
  BY SizeFacts DEF ErasedStore, ErasedUnit
<1>2. IsWalk(ErasedStore, {}, 1)
  BY <1>1 DEF IsWalk
<1> QED BY <1>2, WalkIs

\* What a reclaim writes: the bodies in their order, one header before each.
LEMMA CompactUnits ==
  ASSUME NEW b, Len(b) \in Nat, VarSize * Len(b) <= StoreSize
  PROVE  /\ \A i \in 1..Len(b) :
              /\ 2 * i - 1 \in Offset /\ 2 * i \in Offset
              /\ Compact(b)[2 * i - 1] = [ErasedUnit EXCEPT !.start = TRUE, !.state = VAR_ADDED]
              /\ Compact(b)[2 * i] = [ErasedUnit EXCEPT !.body = b[i]]
         /\ \A p \in Offset : p > 2 * Len(b) => Compact(b)[p] = ErasedUnit
         /\ \A p \in Offset : p <= 2 * Len(b) =>
              \E i \in 1..Len(b) : p = 2 * i - 1 \/ p = 2 * i
<1>0. StoreSize \in Nat /\ 2 * Len(b) <= StoreSize
  BY SizeFacts
<1>1. ASSUME NEW i \in 1..Len(b)
      PROVE  /\ 2 * i - 1 \in Offset /\ 2 * i \in Offset
             /\ Compact(b)[2 * i - 1] = [ErasedUnit EXCEPT !.start = TRUE, !.state = VAR_ADDED]
             /\ Compact(b)[2 * i] = [ErasedUnit EXCEPT !.body = b[i]]
  <2>1. 2 * i - 1 \in Offset /\ 2 * i \in Offset
    BY <1>0, SizeFacts
  <2>2. /\ (2 * i - 1 + 1) \div 2 = i /\ (2 * i - 1) % 2 = 1
        /\ (2 * i + 1) \div 2 = i /\ (2 * i) % 2 = 0 /\ ~(i > Len(b))
    OBVIOUS
  <2> QED BY <2>1, <2>2 DEF Compact, VarSize
<1>2. ASSUME NEW p \in Offset, p > 2 * Len(b) PROVE Compact(b)[p] = ErasedUnit
  <2>1. (p + 1) \div 2 > Len(b)
    BY <1>2, SizeFacts
  <2> QED BY <2>1 DEF Compact, VarSize
<1>3. ASSUME NEW p \in Offset, p <= 2 * Len(b)
      PROVE  \E i \in 1..Len(b) : p = 2 * i - 1 \/ p = 2 * i
  <2>1. (p + 1) \div 2 \in 1..Len(b)
        /\ (p = 2 * ((p + 1) \div 2) - 1 \/ p = 2 * ((p + 1) \div 2))
    BY <1>3, SizeFacts
  <2> QED BY <2>1
<1> QED BY <1>1, <1>2, <1>3

LEMMA CompactWalk ==
  ASSUME NEW b, Len(b) \in Nat, VarSize * Len(b) <= StoreSize
  PROVE  /\ Headers(Compact(b)) = {2 * i - 1 : i \in 1..Len(b)}
         /\ End(Compact(b)) = 2 * Len(b) + 1
<1> DEFINE t == Compact(b)
           H == {2 * i - 1 : i \in 1..Len(b)}
           e == 2 * Len(b) + 1
<1>0. StoreSize \in Nat /\ 2 * Len(b) <= StoreSize
  BY SizeFacts
<1>1. \A p \in H : \E i \in 1..Len(b) : p = 2 * i - 1
  OBVIOUS
<1>2. \A i \in 1..Len(b) : t[2 * i - 1].start /\ EntrySize(t[2 * i - 1]) = 2
  <2> SUFFICES ASSUME NEW i \in 1..Len(b)
               PROVE  t[2 * i - 1].start /\ EntrySize(t[2 * i - 1]) = 2
    OBVIOUS
  <2>1. t[2 * i - 1] = [ErasedUnit EXCEPT !.start = TRUE, !.state = VAR_ADDED]
    BY CompactUnits
  <2>2. t[2 * i - 1].start /\ t[2 * i - 1].state = {7, 6}
    BY <2>1 DEF ErasedUnit, VAR_ADDED
  <2> QED BY <2>2, EntryFacts
<1>3. e <= StoreSize => ~t[e].start
  <2>1. e <= StoreSize => e \in Offset
    BY <1>0, SizeFacts
  <2>2. e <= StoreSize => t[e] = ErasedUnit
    BY <2>1, CompactUnits
  <2> QED BY <2>2 DEF ErasedUnit
<1>4. \A i \in 1..Len(b) : 2 * i - 1 + 2 \in H \cup {e}
  <2> SUFFICES ASSUME NEW i \in 1..Len(b), i # Len(b) PROVE 2 * i - 1 + 2 \in H
    OBVIOUS
  <2>1. i + 1 \in 1..Len(b) /\ 2 * (i + 1) - 1 = 2 * i - 1 + 2
    OBVIOUS
  <2> QED BY <2>1
<1>5. 1 \in H \cup {e}
  <2>1. CASE Len(b) = 0
    BY <2>1
  <2>2. CASE Len(b) # 0
    <3>1. 1 \in 1..Len(b) /\ 2 * 1 - 1 = 1
      BY <2>2
    <3> QED BY <3>1
  <2> QED BY <2>1, <2>2
<1>6. H \subseteq Offset
  <2>1. \A i \in 1..Len(b) : 2 * i - 1 \in Offset
    BY CompactUnits
  <2> QED BY <2>1
<1>7. e \in Nat /\ e >= 1
  OBVIOUS
<1> HIDE DEF t, H
<1>8. \A p \in H : /\ t[p].start /\ p + EntrySize(t[p]) <= e
                   /\ p + EntrySize(t[p]) \in H \cup {e}
  BY <1>1, <1>2, <1>4
<1>9. \A p, q \in H : p < q => p + EntrySize(t[p]) <= q
  BY <1>1, <1>2
<1>10. IsWalk(t, H, e)
  BY <1>3, <1>5, <1>6, <1>7, <1>8, <1>9 DEF IsWalk
<1> QED BY <1>10, WalkIs DEF t, H

-----------------------------------------------------------------------------
(* What a reclaim keeps.                                                    *)

LEMMA OffsetsFinite ==
  ASSUME NEW S, S \subseteq Offset
  PROVE  IsFiniteSet(S) /\ Cardinality(S) \in Nat /\ S \subseteq Nat
<1>1. IsFiniteSet(1..StoreSize) /\ S \in SUBSET (1..StoreSize)
  BY FS_Interval, SizeFacts DEF Offset
<1>2. IsFiniteSet(S)
  BY <1>1, FS_Subset
<1> QED BY <1>1, <1>2, FS_CardinalityType, SizeFacts

IsInOrder(at, S) ==
  /\ at \in [1..Cardinality(S) -> S]
  /\ \A i, j \in DOMAIN at : i < j => at[i] < at[j]

LEMMA OrderExists ==
  ASSUME NEW S, S \subseteq Offset
  PROVE  \E at : IsInOrder(at, S) /\ \A p \in S : \E i \in 1..Cardinality(S) : at[i] = p
<1> DEFINE Good(R) == \E at : IsInOrder(at, R) /\ \A p \in R : \E i \in 1..Cardinality(R) : at[i] = p
           T == {n \in Nat : \E R \in SUBSET Offset : Cardinality(R) = n /\ ~Good(R)}
<1>1. T = {}
  <2> SUFFICES ASSUME T # {} PROVE FALSE
    OBVIOUS
  <2>1. PICK n \in T : \A m \in T : n <= m
    <3> T \subseteq Nat
      OBVIOUS
    <3> HIDE DEF T
    <3> QED BY LeastNat
  <2>2. PICK R \in SUBSET Offset : Cardinality(R) = n /\ ~Good(R)
    BY <2>1
  <2>3. IsFiniteSet(R) /\ n \in Nat /\ R \subseteq Nat
    BY <2>2, OffsetsFinite
  <2>4. R # {}
    <3>1. Good({})
      <4>1. IsInOrder(<<>>, {})
        BY FS_EmptySet DEF IsInOrder
      <4> QED BY <4>1
    <3> HIDE DEF Good
    <3> QED BY <2>2, <3>1
  <2>5. PICK m \in R : \A y \in R : y <= m
    <3>1. R \subseteq 0..StoreSize /\ StoreSize \in Nat
      BY SizeFacts
    <3> QED BY <2>4, <3>1, GreatestNat
  <2> DEFINE Q == R \ {m}
  <2>6. Cardinality(Q) = n - 1 /\ n - 1 \in Nat /\ Q \in SUBSET Offset
    <3>1. Cardinality(Q) = n - 1
      BY <2>2, <2>3, <2>5, FS_RemoveElement
    <3>2. Cardinality(Q) \in Nat
      BY OffsetsFinite
    <3> QED BY <3>1, <3>2
  <2>7. Good(Q)
    <3> HIDE DEF Good, Q
    <3>1. ~(n <= n - 1)
      BY <2>3
    <3> QED BY <2>1, <2>6, <3>1
  <2>8. PICK at : IsInOrder(at, Q) /\ \A p \in Q : \E i \in 1..Cardinality(Q) : at[i] = p
    BY <2>7
  <2> DEFINE bt == [i \in 1..n |-> IF i = n THEN m ELSE at[i]]
  <2>9. \A i \in 1..(n - 1) : at[i] \in Q /\ at[i] < m
    <3>1. \A q \in Q : q < m
      BY <2>3, <2>5
    <3>2. at \in [1..(n - 1) -> Q]
      BY <2>6, <2>8 DEF IsInOrder
    <3> HIDE DEF Q
    <3> QED BY <3>1, <3>2
  <2>10. IsInOrder(bt, R)
    <3>1. bt \in [1..n -> R]
      BY <2>3, <2>5, <2>9
    <3>2. ASSUME NEW i \in 1..n, NEW j \in 1..n, i < j PROVE bt[i] < bt[j]
      <4>1. CASE j = n
        BY <2>3, <2>9, <3>2, <4>1
      <4>2. CASE j # n
        <5>1. i \in 1..(n - 1) /\ j \in 1..(n - 1) /\ DOMAIN at = 1..(n - 1)
          BY <2>3, <2>6, <2>8, <3>2, <4>2 DEF IsInOrder
        <5>2. bt[i] = at[i] /\ bt[j] = at[j]
          BY <2>3, <4>2, <5>1
        <5>3. at[i] < at[j]
          BY <2>8, <3>2, <5>1 DEF IsInOrder
        <5> HIDE DEF bt
        <5> QED BY <5>2, <5>3
      <4> QED BY <4>1, <4>2
    <3> QED BY <2>2, <3>1, <3>2 DEF IsInOrder
  <2>11. ASSUME NEW p \in R PROVE \E i \in 1..n : bt[i] = p
    <3>1. CASE p = m
      <4>1. n \in 1..n
        BY <2>3, <2>6
      <4> QED BY <3>1, <4>1
    <3>2. CASE p # m
      <4>1. PICK i \in 1..(n - 1) : at[i] = p
        BY <2>6, <2>8, <3>2
      <4>2. i \in 1..n /\ i # n
        BY <2>3
      <4> QED BY <4>1, <4>2
    <3> QED BY <3>1, <3>2
  <2> QED BY <2>2, <2>10, <2>11
<1>2. Cardinality(S) \in Nat
  BY OffsetsFinite
<1>3. Good(S)
  <2> HIDE DEF Good
  <2> QED BY <1>1, <1>2
<1> QED BY <1>3

LEMMA InOrderIs ==
  ASSUME NEW S, S \subseteq Offset
  PROVE  /\ Cardinality(S) \in Nat /\ InOrder(S) \in [1..Cardinality(S) -> S]
         /\ \A i, j \in 1..Cardinality(S) : i < j => InOrder(S)[i] < InOrder(S)[j]
         /\ \A i, j \in 1..Cardinality(S) : InOrder(S)[i] = InOrder(S)[j] => i = j
         /\ \A p \in S : \E i \in 1..Cardinality(S) : InOrder(S)[i] = p
<1> DEFINE n == Cardinality(S)
           at == InOrder(S)
<1>0. n \in Nat /\ S \subseteq Nat /\ IsFiniteSet(S)
  BY OffsetsFinite
<1>1. IsInOrder(at, S)
  <2>1. at = CHOOSE f \in [1..n -> S] : \A i, j \in DOMAIN f : i < j => f[i] < f[j]
    BY DEF InOrder
  <2>2. \E f \in [1..n -> S] : \A i, j \in DOMAIN f : i < j => f[i] < f[j]
    BY OrderExists DEF IsInOrder
  <2> HIDE DEF at
  <2> QED BY <2>1, <2>2 DEF IsInOrder
<1> HIDE DEF at, n
<1>2. at \in [1..n -> S] /\ DOMAIN at = 1..n
      /\ \A i, j \in 1..n : i < j => at[i] < at[j]
  BY <1>1 DEF IsInOrder, n
<1>3. ASSUME NEW i \in 1..n, NEW j \in 1..n, at[i] = at[j] PROVE i = j
  <2>0. at[i] \in S /\ at[j] \in S
    BY <1>2
  <2>1. \A v, w \in Nat : v = w => ~(v < w) /\ ~(w < v)
    OBVIOUS
  <2>2. at[i] \in Nat /\ at[j] \in Nat
    BY <1>0, <2>0
  <2>3. ~(at[i] < at[j]) /\ ~(at[j] < at[i])
    BY <1>3, <2>1, <2>2
  <2>4. ~(i < j) /\ ~(j < i) /\ i \in Nat /\ j \in Nat
    BY <1>2, <2>3
  <2> QED BY <2>4
<1>4. at \in Injection(1..n, S)
  BY <1>2, <1>3 DEF Injection, IsInjective
<1>5. IsFiniteSet(1..n) /\ Cardinality(1..n) = n
  BY <1>0, FS_Interval
<1>6. at \in Surjection(1..n, S)
  BY <1>0, <1>4, <1>5, FS_Injection DEF n
<1>7. \A p \in S : \E i \in 1..n : at[i] = p
  BY <1>6 DEF Surjection
<1> QED BY <1>0, <1>2, <1>3, <1>7 DEF at, n

\* No more than half of the used part of the log is headers.
LEMMA HeadersBound ==
  ASSUME NEW store, End(store) <= StoreSize + 1,
         NEW S, S \subseteq Headers(store), \A p \in S : store[p].state # {}
  PROVE  IsFiniteSet(S) /\ Cardinality(S) \in Nat /\ 2 * Cardinality(S) <= End(store) - 1
<1> DEFINE e == End(store)
           U == {p + 1 : p \in S}
<1>0. IsWalk(store, Headers(store), e)
  BY TheWalk
<1>1. /\ S \subseteq Offset /\ e \in Nat /\ e >= 1 /\ S \subseteq Nat
      /\ \A p \in S : p + 2 <= e
      /\ \A p, q \in S : p < q => p + 2 <= q
  BY <1>0, EntryFacts, SizeFacts DEF IsWalk
<1> HIDE DEF e
<1>2. U \cap S = {}
  <2> SUFFICES ASSUME NEW p \in S, p + 1 \in S PROVE FALSE
    OBVIOUS
  <2>1. p \in Nat /\ p < p + 1 /\ ~(p + 2 <= p + 1)
    BY <1>1
  <2> QED BY <1>1, <2>1
<1>3. IsFiniteSet(S) /\ Cardinality(S) \in Nat
  BY <1>1, OffsetsFinite
<1>4. IsFiniteSet(U) /\ Cardinality(U) = Cardinality(S)
  <2> DEFINE f == [p \in S |-> p + 1]
  <2>1. f \in Surjection(S, U) /\ f \in Injection(S, U)
    BY <1>1 DEF Surjection, Injection, IsInjective
  <2> QED BY <1>3, <2>1, FS_Surjection
<1>5. /\ IsFiniteSet(S \cup U)
      /\ Cardinality(S \cup U) = Cardinality(S) + Cardinality(U) - Cardinality(S \cap U)
  BY <1>3, <1>4, FS_Union
<1>6. Cardinality(S \cap U) = 0
  <2>1. S \cap U = {}
    BY <1>2
  <2> QED BY <2>1, FS_EmptySet
<1>7. IsFiniteSet(1..(e - 1)) /\ Cardinality(1..(e - 1)) = e - 1
  BY <1>1, FS_Interval
<1>8. S \cup U \in SUBSET (1..(e - 1))
  <2>1. \A p \in S : p \in 1..(e - 1) /\ p + 1 \in 1..(e - 1)
    BY <1>1, SizeFacts
  <2> QED BY <2>1
<1> HIDE DEF U
<1>9. Cardinality(S \cup U) <= e - 1
  <2>1. Cardinality(S \cup U) <= Cardinality(1..(e - 1))
    BY <1>7, <1>8, FS_Subset
  <2> QED BY <1>7, <2>1
<1> QED BY <1>3, <1>4, <1>5, <1>6, <1>9 DEF e

LEMMA StateFacts ==
  ASSUME NEW u
  PROVE  /\ ~(IsAdded(u) /\ IsInDeleted(u))
         /\ IsAdded(u) \/ IsInDeleted(u) => u.state # {}
         /\ IsAdded(u) => u.state = {7, 6}
         /\ IsInDeleted(u) => u.state = {7, 6, 0}
<1>1. {7, 6} # {7, 6} \cup {0} /\ {7, 6} \cup {0} # {} /\ {7, 6} # {}
  <2>1. 0 \in {7, 6} \cup {0} /\ 0 \notin {7, 6} /\ 7 \in {7, 6}
    OBVIOUS
  <2> QED BY <2>1
<1>2. {7, 6} \cup {0} = {7, 6, 0}
  OBVIOUS
<1> QED BY <1>1, <1>2 DEF IsAdded, IsInDeleted, VAR_ADDED, VAR_IN_DELETED_TRANSITION

Alive(store, t) == Kept(store, t) \cup Promoted(store, t)

LEMMA AliveIs ==
  ASSUME NEW store, NEW t
  PROVE  /\ Alive(store, t) \subseteq Headers(store) \ {t.curr}
         /\ Headers(store) \subseteq Offset
         /\ Kept(store, t) \cap Promoted(store, t) = {}
         /\ \A p \in Kept(store, t) : IsAdded(store[p])
         /\ \A p \in Promoted(store, t) : IsInDeleted(store[p])
         /\ \A p \in Alive(store, t) : IsAdded(store[p]) \/ IsInDeleted(store[p])
<1>1. Headers(store) \subseteq Offset
  BY TheWalk DEF IsWalk
<1>2. Kept(store, t) \subseteq Headers(store) \ {t.curr}
      /\ \A p \in Kept(store, t) : IsAdded(store[p])
  BY DEF Kept
<1>3. Promoted(store, t) \subseteq Headers(store) \ {t.curr}
      /\ \A p \in Promoted(store, t) : IsInDeleted(store[p])
  BY DEF Promoted
<1> QED BY <1>1, <1>2, <1>3, StateFacts DEF Alive

\* A reclaim keeps the body of each of these headers, once.
SurvivorsOf(s, at, n, store, A) ==
  /\ n = Cardinality(A) /\ n \in Nat
  /\ s = [i \in 1..n |-> Body(store, at[i])]
  /\ at \in [1..n -> A]
  /\ \A i, j \in 1..n : at[i] = at[j] => i = j
  /\ \A p \in A : \E i \in 1..n : at[i] = p

LEMMA SurvivorsAre ==
  ASSUME NEW store, NEW t
  PROVE  \E at, n : SurvivorsOf(Survivors(store, t), at, n, store, Alive(store, t))
<1> DEFINE K == Kept(store, t)
           P == Promoted(store, t)
           k == Cardinality(K)
           m == Cardinality(P)
           at == InOrder(K) \o InOrder(P)
<1>1. K \subseteq Offset /\ P \subseteq Offset /\ K \cap P = {}
  BY AliveIs DEF Alive
<1>2. Survivors(store, t) = [i \in DOMAIN at |-> Body(store, at[i])]
  BY DEF Survivors
<1>3. /\ k \in Nat /\ InOrder(K) \in [1..k -> K]
      /\ \A i, j \in 1..k : InOrder(K)[i] = InOrder(K)[j] => i = j
      /\ \A p \in K : \E i \in 1..k : InOrder(K)[i] = p
  BY <1>1, InOrderIs
<1>4. /\ m \in Nat /\ InOrder(P) \in [1..m -> P]
      /\ \A i, j \in 1..m : InOrder(P)[i] = InOrder(P)[j] => i = j
      /\ \A p \in P : \E i \in 1..m : InOrder(P)[i] = p
  BY <1>1, InOrderIs
<1>5. k + m = Cardinality(K \cup P)
  <2>1. IsFiniteSet(K) /\ IsFiniteSet(P) /\ Cardinality(K \cap P) = 0
    BY <1>1, OffsetsFinite, FS_EmptySet
  <2> HIDE DEF K, P
  <2>2. Cardinality(K \cup P) = k + m - Cardinality(K \cap P)
    BY <2>1, FS_Union
  <2> QED BY <1>3, <1>4, <2>1, <2>2
<1> DEFINE a == InOrder(K)
           b == InOrder(P)
<1> HIDE DEF k, m, K, P, at
<1>6. a \in Seq(K \cup P) /\ b \in Seq(K \cup P) /\ Len(a) = k /\ Len(b) = m
  BY <1>3, <1>4
<1>7. /\ at \in Seq(K \cup P) /\ Len(at) = k + m
      /\ \A i \in 1..(k + m) : at[i] = IF i <= k THEN a[i] ELSE b[i - k]
  BY <1>6, ConcatProperties DEF at
<1>8. DOMAIN at = 1..(k + m) /\ at \in [1..(k + m) -> K \cup P]
  BY <1>7, LenProperties
<1>9. ASSUME NEW i \in 1..(k + m), NEW j \in 1..(k + m), at[i] = at[j] PROVE i = j
  <2>1. \A x \in 1..(k + m) : x <= k => x \in 1..k /\ at[x] = a[x] /\ at[x] \in K
    BY <1>3, <1>4, <1>7
  <2>2. \A x \in 1..(k + m) : ~(x <= k) => x - k \in 1..m /\ at[x] = b[x - k] /\ at[x] \in P
    BY <1>3, <1>4, <1>7
  <2>3. i <= k <=> j <= k
    BY <1>1, <1>9, <2>1, <2>2
  <2>4. CASE i <= k
    BY <1>3, <1>9, <2>1, <2>3, <2>4
  <2>5. CASE ~(i <= k)
    <3>1. i - k \in 1..m /\ j - k \in 1..m /\ b[i - k] = b[j - k]
      BY <1>9, <2>2, <2>3, <2>5
    <3>2. i - k = j - k
      BY <1>4, <3>1
    <3> QED BY <1>3, <1>4, <3>2
  <2> QED BY <2>4, <2>5
<1>10. ASSUME NEW p \in K \cup P PROVE \E i \in 1..(k + m) : at[i] = p
  <2>1. CASE p \in K
    <3>1. PICK i \in 1..k : a[i] = p
      BY <1>3, <2>1
    <3>2. i \in 1..(k + m) /\ at[i] = p
      BY <1>3, <1>4, <1>7, <3>1
    <3> QED BY <3>2
  <2>2. CASE p \in P
    <3>1. PICK i \in 1..m : b[i] = p
      BY <1>4, <2>2
    <3>2. PICK x \in 1..(k + m) : x = k + i /\ ~(x <= k) /\ x - k = i
      BY <1>3, <1>4
    <3>3. at[x] = p
      BY <1>7, <3>1, <3>2
    <3> QED BY <3>3
  <2> QED BY <2>1, <2>2
<1>11. SurvivorsOf(Survivors(store, t), at, k + m, store, K \cup P)
  BY <1>2, <1>3, <1>4, <1>5, <1>8, <1>9, <1>10 DEF SurvivorsOf
<1> QED BY <1>11 DEF K, P, Alive

LEMMA SurvivorsFit ==
  ASSUME NEW store, NEW t, End(store) <= StoreSize + 1
  PROVE  /\ Cardinality(Alive(store, t)) \in Nat /\ IsFiniteSet(Alive(store, t))
         /\ VarSize * Cardinality(Alive(store, t)) <= StoreSize
         /\ t.curr \in Headers(store) /\ store[t.curr].state # {} =>
              VarSize * (Cardinality(Alive(store, t)) + 1) <= StoreSize
<1> DEFINE A == Alive(store, t)
<1>1. A \subseteq Headers(store) /\ \A p \in A : store[p].state # {}
  BY AliveIs, StateFacts
<1>2. t.curr \notin A
  BY AliveIs
<1>3. End(store) \in Nat /\ StoreSize \in Nat /\ VarSize = 2
  BY TheWalk, SizeFacts DEF IsWalk
<1> HIDE DEF A
<1>4. IsFiniteSet(A) /\ Cardinality(A) \in Nat /\ 2 * Cardinality(A) <= End(store) - 1
  BY <1>1, HeadersBound
<1>5. ASSUME t.curr \in Headers(store), store[t.curr].state # {}
      PROVE  2 * (Cardinality(A) + 1) <= StoreSize
  <2>1. 2 * Cardinality(A \cup {t.curr}) <= End(store) - 1
    BY <1>1, <1>5, HeadersBound
  <2>2. Cardinality(A \cup {t.curr}) = Cardinality(A) + 1
    BY <1>2, <1>4, FS_AddElement
  <2> QED BY <1>3, <1>4, <2>1, <2>2
<1> QED BY <1>3, <1>4, <1>5 DEF A

-----------------------------------------------------------------------------
(* The changes of a store.                                                  *)

IsCopy(u) == IsAdded(u) \/ IsInDeleted(u)

\* A store the driver can walk: its variables lie in it.
GoodStore(store) == store \in Store /\ End(store) <= StoreSize + 1

\* Each variable that is added or in delete transition has its name and data.
Whole(store) == \A p \in Headers(store) : IsCopy(store[p]) => Body(store, p) \in Contents

Bodies == Contents \cup {Erased, Garbled}

LEMMA BodyIs ==
  ASSUME NEW store \in Store, NEW p
  PROVE  Body(store, p) \in Bodies
BY DEF Body, Bodies, Store, Unit

Free(store, e) == \A p \in Offset : p >= e => store[p] = ErasedUnit

StateBits == {0, 1, 6, 7}
HeaderUnit(bits) == [ErasedUnit EXCEPT !.start = TRUE, !.state = bits]
BodyUnit(body)   == [ErasedUnit EXCEPT !.body = body]
Put(store, e, u, v) == [store EXCEPT ![e] = u, ![e + 1] = v]

LEMMA UnitFacts ==
  /\ ErasedUnit \in Unit /\ ~ErasedUnit.start /\ ErasedUnit.state = {} /\ ErasedUnit.body = Erased
  /\ \A bits : bits \subseteq StateBits => HeaderUnit(bits) \in Unit
  /\ \A bits : HeaderUnit(bits).start /\ HeaderUnit(bits).state = bits
               /\ HeaderUnit(bits).body = Erased
  /\ \A b \in Contents \cup {Erased, Garbled} : BodyUnit(b) \in Unit
  /\ \A b : ~BodyUnit(b).start /\ BodyUnit(b).state = {} /\ BodyUnit(b).body = b
  /\ Erased \notin Contents /\ Garbled \notin Contents
  /\ VAR_ADDED = {7, 6} /\ VAR_ADDED \subseteq StateBits
  /\ VAR_HEADER_VALID_ONLY = {7}
BY StoreAssumption
   DEF ErasedUnit, Unit, HeaderUnit, BodyUnit, Contents, VAR_ADDED, VAR_HEADER_VALID_ONLY, StateBits

LEMMA WalkFacts ==
  ASSUME NEW store
  PROVE  /\ Headers(store) \subseteq Offset /\ End(store) \in Nat /\ End(store) >= 1
         /\ \A p \in Headers(store) : store[p].start /\ p \in Nat /\ p >= 1 /\ p < End(store)
                                      /\ p + EntrySize(store[p]) <= End(store)
         /\ \A p \in Headers(store) : store[p].state # {} => p + 1 < End(store)
         /\ \A p, q \in Headers(store) : p < q => p + EntrySize(store[p]) <= q
         /\ End(store) <= StoreSize => ~store[End(store)].start
<1>1. IsWalk(store, Headers(store), End(store))
  BY TheWalk
<1> QED BY <1>1, SizeFacts, EntryFacts DEF IsWalk

LEMMA SetStateIs ==
  ASSUME NEW store \in Store, NEW p \in Offset, NEW bits, bits \subseteq StateBits
  PROVE  /\ SetState(store, p, bits) \in Store
         /\ SetState(store, p, bits)[p].start = store[p].start
         /\ SetState(store, p, bits)[p].state = store[p].state \cup bits
         /\ SetState(store, p, bits)[p].body = store[p].body
         /\ \A q \in Offset : q # p => SetState(store, p, bits)[q] = store[q]
         /\ \A q \in Offset : /\ SetState(store, p, bits)[q].start = store[q].start
                              /\ SetState(store, p, bits)[q].body = store[q].body
BY DEF SetState, Store, Unit, StateBits

\* State &= bits on a variable moves no header.
LEMMA SetStateWalk ==
  ASSUME NEW store, GoodStore(store), NEW p \in Headers(store), store[p].state # {},
         NEW bits, bits \subseteq StateBits
  PROVE  /\ Headers(SetState(store, p, bits)) = Headers(store)
         /\ End(SetState(store, p, bits)) = End(store)
         /\ SetState(store, p, bits) \in Store
         /\ \A q \in Headers(store) : Body(SetState(store, p, bits), q) = Body(store, q)
         /\ \A q \in Offset : q # p => SetState(store, p, bits)[q] = store[q]
         /\ SetState(store, p, bits)[p].state = store[p].state \cup bits
         /\ Free(store, End(store)) => Free(SetState(store, p, bits), End(store))
<1> DEFINE t == SetState(store, p, bits)
<1>1. store \in Store /\ p \in Offset /\ Headers(store) \subseteq Offset
      /\ p < End(store) /\ p \in Nat /\ End(store) \in Nat
  BY WalkFacts DEF GoodStore
<1>2. /\ t \in Store /\ t[p].state = store[p].state \cup bits
      /\ \A q \in Offset : q # p => t[q] = store[q]
      /\ \A q \in Offset : t[q].start = store[q].start /\ t[q].body = store[q].body
  <2>1. /\ SetState(store, p, bits) \in Store
        /\ SetState(store, p, bits)[p].start = store[p].start
        /\ SetState(store, p, bits)[p].state = store[p].state \cup bits
        /\ SetState(store, p, bits)[p].body = store[p].body
        /\ \A q \in Offset : q # p => SetState(store, p, bits)[q] = store[q]
        /\ \A q \in Offset : /\ SetState(store, p, bits)[q].start = store[q].start
                             /\ SetState(store, p, bits)[q].body = store[q].body
    BY <1>1, SetStateIs
  <2> QED BY <2>1
<1> HIDE DEF t
<1>3. \A q \in Headers(store) : t[q].start /\ EntrySize(t[q]) = EntrySize(store[q])
  <2> SUFFICES ASSUME NEW q \in Headers(store)
               PROVE  t[q].start /\ EntrySize(t[q]) = EntrySize(store[q])
    OBVIOUS
  <2>1. t[q].start
    BY <1>1, <1>2, WalkFacts
  <2>2. CASE q = p
    <3>1. t[p].state # {}
      BY <1>2
    <3> QED BY <2>1, <2>2, <3>1, EntryFacts
  <2>3. CASE q # p
    BY <1>1, <1>2, <2>1, <2>3
  <2> QED BY <2>2, <2>3
<1>4. End(store) <= StoreSize => ~t[End(store)].start
  BY <1>2, SizeFacts, WalkFacts
<1>5. Headers(t) = Headers(store) /\ End(t) = End(store)
  BY <1>3, <1>4, SameShape
<1>6. \A q \in Headers(store) : Body(t, q) = Body(store, q)
  BY <1>2 DEF Body
<1>7. Free(store, End(store)) => Free(t, End(store))
  BY <1>1, <1>2, SizeFacts DEF Free
<1> QED BY <1>2, <1>5, <1>6, <1>7 DEF t

LEMMA PutIs ==
  ASSUME NEW store \in Store, NEW e \in Offset, e + 1 \in Offset, NEW u \in Unit, NEW v \in Unit
  PROVE  /\ Put(store, e, u, v) \in Store
         /\ Put(store, e, u, v)[e] = u /\ Put(store, e, u, v)[e + 1] = v
         /\ \A q \in Offset : q # e /\ q # e + 1 => Put(store, e, u, v)[q] = store[q]
<1>1. e # e + 1
  BY SizeFacts
<1> QED BY <1>1 DEF Put, Store

\* Two units are written behind the log, and the first is a header or is not.
LEMMA PutGood ==
  ASSUME NEW store, GoodStore(store), NEW e, e = End(store), Free(store, e), e + 1 <= StoreSize,
         NEW u \in Unit, NEW v \in Unit, ~v.start
  PROVE  /\ GoodStore(Put(store, e, u, v))
         /\ Headers(Put(store, e, u, v)) = Headers(store) \cup (IF u.start THEN {e} ELSE {})
         /\ u.start => End(Put(store, e, u, v)) = e + EntrySize(u)
         /\ Free(Put(store, e, u, v), e + 2)
         /\ \A q \in Headers(store) : Put(store, e, u, v)[q] = store[q]
         /\ \A q \in Headers(store) : store[q].state # {} =>
              Body(Put(store, e, u, v), q) = Body(store, q)
         /\ Body(Put(store, e, u, v), e) = v.body
<1> DEFINE t == Put(store, e, u, v)
           H == Headers(store)
<1>1. /\ store \in Store /\ e \in Offset /\ e + 1 \in Offset /\ e \in Nat
      /\ H \subseteq Offset
      /\ \A q \in H : q < e /\ q \in Nat /\ store[q].start
      /\ \A q \in H : store[q].state # {} => q + 1 < e /\ q + 1 \in Offset
  BY SizeFacts, WalkFacts DEF GoodStore
<1>2. /\ t \in Store /\ t[e] = u /\ t[e + 1] = v
      /\ \A q \in Offset : q # e /\ q # e + 1 => t[q] = store[q]
  BY <1>1, PutIs
<1> HIDE DEF t, H
<1>3. \A q \in H : t[q] = store[q]
  BY <1>1, <1>2
<1>4. \A q \in H : store[q].state # {} => Body(t, q) = Body(store, q)
  BY <1>1, <1>2, SizeFacts DEF Body
<1>5. Body(t, e) = v.body
  BY <1>1, <1>2 DEF Body
<1>6. Free(t, e + 2)
  BY <1>1, <1>2, SizeFacts DEF Free
<1>7. \A q \in H : t[q].start /\ EntrySize(t[q]) = EntrySize(store[q])
  BY <1>1, <1>3
<1>8. CASE u.start
  <2>1. NextUnit(t, e) = e + EntrySize(u) /\ EntrySize(u) \in {1, 2}
    BY <1>2, EntryFacts DEF NextUnit
  <2>2. NextUnit(t, e) <= StoreSize => ~t[NextUnit(t, e)].start
    <3>1. CASE NextUnit(t, e) = e + 1
      BY <1>2, <3>1
    <3>2. CASE NextUnit(t, e) = e + 2
      <4>1. NextUnit(t, e) <= StoreSize => NextUnit(t, e) \in Offset
        BY <1>1, <3>2, SizeFacts
      <4>2. NextUnit(t, e) <= StoreSize => t[NextUnit(t, e)] = ErasedUnit
        BY <1>1, <1>6, <3>2, <4>1 DEF Free
      <4> QED BY <4>2, UnitFacts
    <3> QED BY <2>1, <3>1, <3>2
  <2>3. Headers(t) = H \cup {e} /\ End(t) = e + EntrySize(u)
    <3>1. e <= StoreSize /\ t[e].start
      BY <1>1, <1>2, <1>8, SizeFacts
    <3> QED BY <1>7, <2>1, <2>2, <3>1, Appended DEF H
  <2>4. End(t) <= StoreSize + 1
    BY <1>1, <2>1, <2>3, SizeFacts
  <2> QED BY <1>2, <1>3, <1>4, <1>5, <1>6, <1>8, <2>3, <2>4 DEF GoodStore, t, H
<1>9. CASE ~u.start
  <2>1. Headers(t) = H /\ End(t) = e
    BY <1>2, <1>7, <1>9, SameShape DEF H
  <2> QED BY <1>1, <1>2, <1>3, <1>4, <1>5, <1>6, <1>9, <2>1, SizeFacts DEF GoodStore, t, H
<1> QED BY <1>8, <1>9

\* The store stays whole, too, when the new header is no copy or has its contents.
LEMMA PutWhole ==
  ASSUME NEW store, GoodStore(store), Whole(store), NEW e, e = End(store), Free(store, e),
         e + 1 <= StoreSize, NEW u \in Unit, NEW v \in Unit, ~v.start,
         IsCopy(u) => u.start /\ v.body \in Contents
  PROVE  Whole(Put(store, e, u, v))
<1> DEFINE t == Put(store, e, u, v)
<1>1. /\ Headers(t) = Headers(store) \cup (IF u.start THEN {e} ELSE {})
      /\ \A q \in Headers(store) : t[q] = store[q]
      /\ \A q \in Headers(store) : store[q].state # {} => Body(t, q) = Body(store, q)
      /\ Body(t, e) = v.body
  BY PutGood
<1>2. t[e] = u
  <2>1. store \in Store /\ e \in Offset /\ e + 1 \in Offset
    BY SizeFacts, WalkFacts DEF GoodStore
  <2> QED BY <2>1, PutIs
<1> HIDE DEF t
<1>3. \A p \in Headers(store) : IsCopy(t[p]) => Body(t, p) \in Contents
  BY <1>1, StateFacts DEF IsCopy, Whole
<1>4. \A p \in Headers(t) : IsCopy(t[p]) => Body(t, p) \in Contents
  BY <1>1, <1>2, <1>3
<1> QED BY <1>4 DEF Whole, t

LEMMA CompactGood ==
  ASSUME NEW b \in Seq(Bodies), VarSize * Len(b) <= StoreSize
  PROVE  /\ GoodStore(Compact(b)) /\ Len(b) \in Nat
         /\ Headers(Compact(b)) = {2 * i - 1 : i \in 1..Len(b)}
         /\ End(Compact(b)) = 2 * Len(b) + 1
         /\ Free(Compact(b), 2 * Len(b) + 1)
         /\ \A i \in 1..Len(b) : Body(Compact(b), 2 * i - 1) = b[i] /\ IsAdded(Compact(b)[2 * i - 1])
<1> DEFINE t == Compact(b)
<1>0. StoreSize \in Nat /\ 2 * Len(b) <= StoreSize /\ Len(b) \in Nat
      /\ \A i \in 1..Len(b) : b[i] \in Bodies
  BY SizeFacts
<1>1. /\ \A i \in 1..Len(b) :
              /\ 2 * i - 1 \in Offset /\ 2 * i \in Offset
              /\ t[2 * i - 1] = [ErasedUnit EXCEPT !.start = TRUE, !.state = VAR_ADDED]
              /\ t[2 * i] = [ErasedUnit EXCEPT !.body = b[i]]
      /\ \A p \in Offset : p > 2 * Len(b) => t[p] = ErasedUnit
      /\ \A p \in Offset : p <= 2 * Len(b) => \E i \in 1..Len(b) : p = 2 * i - 1 \/ p = 2 * i
  BY <1>0, CompactUnits
<1>2. Headers(t) = {2 * i - 1 : i \in 1..Len(b)} /\ End(t) = 2 * Len(b) + 1
  BY <1>0, CompactWalk
<1>3. \A i \in 1..Len(b) : t[2 * i - 1] = HeaderUnit(VAR_ADDED) /\ t[2 * i] = BodyUnit(b[i])
  BY <1>1 DEF HeaderUnit, BodyUnit
<1>4. t = [p \in Offset |-> t[p]]
  BY DEF Compact
<1> HIDE DEF t
<1>5. \A p \in Offset : t[p] \in Unit
  <2> SUFFICES ASSUME NEW p \in Offset PROVE t[p] \in Unit
    OBVIOUS
  <2>1. CASE p > 2 * Len(b)
    BY <1>1, <2>1, UnitFacts
  <2>2. CASE ~(p > 2 * Len(b))
    <3>1. PICK i \in 1..Len(b) : p = 2 * i - 1 \/ p = 2 * i
      BY <1>0, <1>1, <2>2, SizeFacts
    <3>2. HeaderUnit(VAR_ADDED) \in Unit /\ BodyUnit(b[i]) \in Unit
      BY <1>0, UnitFacts DEF Bodies
    <3> QED BY <1>3, <3>1, <3>2
  <2> QED BY <2>1, <2>2
<1>6. t \in Store
  BY <1>4, <1>5 DEF Store
<1>7. \A i \in 1..Len(b) : Body(t, 2 * i - 1) = b[i] /\ IsAdded(t[2 * i - 1])
  <2> SUFFICES ASSUME NEW i \in 1..Len(b)
               PROVE  Body(t, 2 * i - 1) = b[i] /\ IsAdded(t[2 * i - 1])
    OBVIOUS
  <2>1. PICK x \in Nat : x = 2 * i - 1 /\ x + 1 = 2 * i
    OBVIOUS
  <2>2. x + 1 \in Offset /\ t[x] = HeaderUnit(VAR_ADDED) /\ t[x + 1] = BodyUnit(b[i])
    BY <1>1, <1>3, <2>1
  <2>3. Body(t, x) = b[i] /\ IsAdded(t[x])
    BY <2>2, UnitFacts DEF Body, IsAdded
  <2> QED BY <2>1, <2>3
<1>9. Free(t, 2 * Len(b) + 1)
  BY <1>0, <1>1, SizeFacts DEF Free
<1>10. GoodStore(t)
  BY <1>0, <1>2, <1>6 DEF GoodStore
<1> QED BY <1>0, <1>2, <1>7, <1>9, <1>10 DEF t

LEMMA CompactWhole ==
  ASSUME NEW b \in Seq(Contents), VarSize * Len(b) <= StoreSize
  PROVE  b \in Seq(Bodies) /\ Whole(Compact(b))
<1>1. b \in Seq(Bodies) /\ Len(b) \in Nat /\ \A i \in 1..Len(b) : b[i] \in Contents
  BY DEF Bodies
<1>2. /\ Headers(Compact(b)) = {2 * i - 1 : i \in 1..Len(b)}
      /\ \A i \in 1..Len(b) : Body(Compact(b), 2 * i - 1) = b[i]
  BY <1>1, CompactGood
<1> QED BY <1>1, <1>2 DEF Whole

LEMMA ErasedGood ==
  GoodStore(ErasedStore) /\ Whole(ErasedStore) /\ Free(ErasedStore, 1) /\ Headers(ErasedStore) = {}
  /\ End(ErasedStore) = 1
<1>1. Headers(ErasedStore) = {} /\ End(ErasedStore) = 1
  BY ErasedWalk
<1>2. ErasedStore \in Store /\ \A p \in Offset : ErasedStore[p] = ErasedUnit
  BY UnitFacts DEF ErasedStore, Store
<1> QED BY <1>1, <1>2, SizeFacts DEF GoodStore, Whole, Free

\* The survivors of a good store, as what the new store is made of.
LEMMA SurvivorsGood ==
  ASSUME NEW store, GoodStore(store), NEW t
  PROVE  /\ Survivors(store, t) \in Seq(Bodies)
         /\ Whole(store) => Survivors(store, t) \in Seq(Contents)
         /\ Len(Survivors(store, t)) = Cardinality(Alive(store, t))
         /\ VarSize * Len(Survivors(store, t)) <= StoreSize
         /\ t.curr \in Headers(store) /\ IsCopy(store[t.curr]) =>
              VarSize * (Len(Survivors(store, t)) + 1) <= StoreSize
<1> DEFINE A == Alive(store, t)
           s == Survivors(store, t)
<1>1. PICK at, n : SurvivorsOf(s, at, n, store, A)
  BY SurvivorsAre
<1>2. \A p \in A : p \in Headers(store) /\ IsCopy(store[p])
  BY AliveIs DEF IsCopy
<1>3. /\ n = Cardinality(A) /\ n \in Nat /\ s = [i \in 1..n |-> Body(store, at[i])]
      /\ \A i \in 1..n : at[i] \in A
  BY <1>1 DEF SurvivorsOf
<1> HIDE DEF A, s
<1>4. Whole(store) => \A p \in A : Body(store, p) \in Contents
  BY <1>2 DEF Whole
<1>5. /\ \A i \in 1..n : Body(store, at[i]) \in Bodies
      /\ Whole(store) => \A i \in 1..n : Body(store, at[i]) \in Contents
  BY <1>3, <1>4, BodyIs DEF GoodStore
<1>6. s \in Seq(Bodies) /\ (Whole(store) => s \in Seq(Contents)) /\ Len(s) = n
  BY <1>3, <1>5
<1>7. /\ VarSize * Cardinality(A) <= StoreSize
      /\ t.curr \in Headers(store) /\ store[t.curr].state # {} =>
           VarSize * (Cardinality(A) + 1) <= StoreSize
  BY SurvivorsFit DEF GoodStore, A
<1>8. IsCopy(store[t.curr]) => store[t.curr].state # {}
  BY StateFacts DEF IsCopy
<1> QED BY <1>3, <1>6, <1>7, <1>8 DEF A, s

-----------------------------------------------------------------------------
(* FindVariableEx                                                           *)

LEMMA LargestIs ==
  ASSUME NEW S, S \subseteq Offset
  PROVE  /\ S = {} => Largest(S) = 0
         /\ S # {} => Largest(S) \in S /\ \A p \in S : p <= Largest(S)
<1>1. S \subseteq 0..StoreSize /\ StoreSize \in Nat
  BY SizeFacts
<1> QED BY <1>1, MaxIs DEF Largest

Added(store, n)   == {p \in Copies(store, n) : IsAdded(store[p])}
Deleted(store, n) == {p \in Copies(store, n) : IsInDeleted(store[p])}

LEMMA CopiesAre ==
  ASSUME NEW store, NEW n
  PROVE  /\ Copies(store, n) \subseteq Headers(store) /\ Copies(store, n) \subseteq Offset
         /\ \A p \in Copies(store, n) :
              IsCopy(store[p]) /\ Body(store, p) \in Contents /\ Body(store, p).name = n
         /\ Added(store, n) \cup Deleted(store, n) = Copies(store, n)
         /\ Added(store, n) \cap Deleted(store, n) = {}
         /\ \A p \in Added(store, n) : p \in Copies(store, n) /\ IsAdded(store[p])
         /\ \A p \in Deleted(store, n) : p \in Copies(store, n) /\ IsInDeleted(store[p])
         /\ 0 \notin Copies(store, n)
<1>1. Copies(store, n) \subseteq Headers(store) /\ Headers(store) \subseteq Offset
  BY WalkFacts DEF Copies
<1>2. \A p \in Copies(store, n) :
        IsCopy(store[p]) /\ Body(store, p) \in Contents /\ Body(store, p).name = n
  BY DEF Copies, IsCopy
<1>3. 0 \notin Copies(store, n)
  BY <1>1, SizeFacts
<1>4. /\ Added(store, n) \cup Deleted(store, n) = Copies(store, n)
      /\ Added(store, n) \cap Deleted(store, n) = {}
  BY <1>2, StateFacts DEF Added, Deleted, IsCopy
<1> QED BY <1>1, <1>2, <1>3, <1>4 DEF Added, Deleted

LEMMA FindIs ==
  ASSUME NEW store, NEW n, NEW f, f = FindVariableEx(store, n)
  PROVE  /\ f = [curr |-> f.curr, inDeleted |-> f.inDeleted]
         /\ f.curr = 0 <=> Copies(store, n) = {}
         /\ f.curr \in Copies(store, n) \cup {0} /\ f.inDeleted \in Deleted(store, n) \cup {0}
         /\ f.inDeleted # 0 => f.curr \in Added(store, n) /\ f.inDeleted < f.curr
         /\ Added(store, n) # {} =>
              /\ f.curr \in Added(store, n)
              /\ \A p \in Added(store, n) : f.curr <= p
              /\ \A p \in Deleted(store, n) : p < f.curr =>
                   f.inDeleted # 0 /\ p <= f.inDeleted
         /\ Added(store, n) = {} =>
              /\ f.inDeleted = 0
              /\ Deleted(store, n) # {} =>
                   f.curr \in Deleted(store, n) /\ \A p \in Deleted(store, n) : p <= f.curr
<1> DEFINE A == Added(store, n)
           D == Deleted(store, n)
           B == {p \in D : p < Min(A)}
<1>1. D = Copies(store, n) \ A
  BY CopiesAre
<1>2. f = IF A # {} THEN [curr |-> Min(A), inDeleted |-> Largest(B)]
          ELSE [curr |-> Largest(D), inDeleted |-> 0]
  BY <1>1 DEF FindVariableEx, Added
<1>3. /\ A \subseteq Offset /\ D \subseteq Offset /\ A \cup D = Copies(store, n)
      /\ A \subseteq Nat /\ D \subseteq Nat /\ 0 \notin A /\ 0 \notin D
  BY CopiesAre, SizeFacts
<1>4. CASE A # {}
  <2>1. f.curr = Min(A) /\ f.inDeleted = Largest(B)
        /\ f = [curr |-> f.curr, inDeleted |-> f.inDeleted]
    BY <1>2, <1>4
  <2>2. Min(A) \in A /\ \A p \in A : Min(A) <= p
    BY <1>3, <1>4, MinIs
  <2> HIDE DEF A, D
  <2>3. B \subseteq Offset
    BY <1>3
  <2>4. B = {} => Largest(B) = 0
    BY <2>3, LargestIs
  <2>5. B # {} => Largest(B) \in B /\ \A p \in B : p <= Largest(B)
    BY <2>3, LargestIs
  <2>6. \A p \in D : p < Min(A) => B # {} /\ p <= Largest(B)
    BY <2>5
  <2>7. Largest(B) \in D \cup {0} /\ (Largest(B) # 0 => Largest(B) < Min(A))
    BY <2>4, <2>5
  <2>8. B # {} => Largest(B) # 0
    BY <1>3, <2>5
  <2> HIDE DEF B
  <2> QED BY <1>3, <1>4, <2>1, <2>2, <2>6, <2>7, <2>8 DEF A, D
<1>5. CASE A = {}
  <2>1. f.curr = Largest(D) /\ f.inDeleted = 0
        /\ f = [curr |-> f.curr, inDeleted |-> f.inDeleted]
    BY <1>2, <1>5
  <2> HIDE DEF A, D
  <2>2. D = {} => Largest(D) = 0
    BY <1>3, LargestIs
  <2>3. D # {} => Largest(D) \in D /\ \A p \in D : p <= Largest(D)
    BY <1>3, LargestIs
  <2> QED BY <1>3, <1>5, <2>1, <2>2, <2>3 DEF A, D
<1> QED BY <1>4, <1>5

-----------------------------------------------------------------------------
(* The invariant of the two stores: what the cache and the offsets say of   *)
(* the flash at each step.                                                  *)

Appending == {"headerValid", "data", "added"}
Storing   == {"mark", "append", "reclaim", "header"} \cup Appending
Starting  == {"boot", "writeService", "reclaimAtBoot"}

SmallTypes ==
  /\ last \in Nat /\ total \in Nat /\ pc \in Step
  /\ args \in [name : Name, value : Value \cup {NoValue}]
  /\ reply \in {"none", "success", "failed", "full"}
  /\ atRuntime \in BOOLEAN /\ reclaimed \in BOOLEAN /\ failures \in 0..MaxFailures
  /\ refusing \in BOOLEAN

\* Offset and size are those of the cache, and never too small.
LogInv ==
  /\ pc = "boot" => last = 1
  /\ pc # "boot" => last = End(cache) /\ last <= total + 1

SyncInv == pc \notin {"boot"} \cup Appending => cache = flash
FreeInv == pc \notin Starting => Free(cache, last)
RoomInv == pc \in {"header"} \cup Appending => total + 2 <= StoreSize

\* During an append the flash is ahead of the cache.
WrittenInv ==
  /\ pc = "headerValid" => flash = Put(cache, last, HeaderUnit({}), ErasedUnit)
  /\ pc = "data" => flash = Put(cache, last, HeaderUnit(VAR_HEADER_VALID_ONLY), ErasedUnit)
  /\ pc = "added" => flash = Put(cache, last, HeaderUnit(VAR_HEADER_VALID_ONLY), BodyUnit(args))

ArgsInv == pc \in Storing => args.value \in Value

TrackInv ==
  /\ pc \notin Updating => track = NoTrack
  /\ track.curr \in Headers(cache) \cup {0} /\ track.inDeleted \in Headers(cache) \cup {0}
  /\ track.curr # 0 => IsCopy(cache[track.curr])
  /\ track.inDeleted # 0 => cache[track.inDeleted].state # {}
  /\ pc \in {"mark", "deleteInDeleted", "deleteCurr"} => track.curr # 0
  /\ pc = "deleteInDeleted" => track.inDeleted # 0 /\ track.inDeleted # track.curr
  /\ track.inDeleted # 0 => track.curr # 0 /\ track.inDeleted # track.curr

\* A store waits in the spare block, or FtwWrite refuses, only after a flash error.
SpareInv ==
  /\ spare # NoSpare => refusing /\ GoodStore(spare)
  /\ refusing => failures < MaxFailures

StoreInv ==
  /\ GoodStore(flash) /\ GoodStore(cache) /\ SmallTypes /\ SpareInv
  /\ LogInv /\ SyncInv /\ FreeInv /\ RoomInv /\ WrittenInv /\ ArgsInv /\ TrackInv

\* No flash error comes between the first access of an append and its last.
AppendNeverFails == Faulty \cap ({"header"} \cup Appending) = {}

LEMMA NoTrackFacts ==
  /\ NoTrack.curr = 0 /\ NoTrack.inDeleted = 0
  /\ NoArgs \in [name : Name, value : Value \cup {NoValue}]
BY StoreAssumption DEF NoTrack, NoArgs

LEMMA SetStateGood ==
  ASSUME NEW store, GoodStore(store), NEW p \in Headers(store), store[p].state # {},
         NEW bits, bits \subseteq StateBits
  PROVE  GoodStore(SetState(store, p, bits))
BY SetStateWalk DEF GoodStore

LEMMA SetStateWhole ==
  ASSUME NEW store, GoodStore(store), Whole(store),
         NEW p \in Headers(store), store[p].state # {}, NEW bits, bits \subseteq StateBits,
         IsCopy(SetState(store, p, bits)[p]) => IsCopy(store[p])
  PROVE  Whole(SetState(store, p, bits))
<1> DEFINE t == SetState(store, p, bits)
<1>1. /\ Headers(t) = Headers(store)
      /\ \A q \in Headers(store) : Body(t, q) = Body(store, q)
      /\ \A q \in Offset : q # p => t[q] = store[q]
  BY SetStateWalk
<1>2. IsCopy(t[p]) => IsCopy(store[p])
  OBVIOUS
<1>3. Headers(store) \subseteq Offset
  BY WalkFacts
<1> HIDE DEF t
<1>4. \A q \in Headers(t) : IsCopy(t[q]) => IsCopy(store[q])
  BY <1>1, <1>2, <1>3
<1>5. Whole(t)
  BY <1>1, <1>4 DEF Whole
<1> QED BY <1>5 DEF t

\* The State bits that mark a copy, and those that delete it.
LEMMA BitsFacts ==
  /\ VAR_IN_DELETED_TRANSITION \subseteq StateBits /\ VAR_DELETED \subseteq StateBits
  /\ \A u, w : IsCopy(u) /\ w.state = u.state \cup VAR_IN_DELETED_TRANSITION => IsInDeleted(w)
  /\ \A u, w : w.state = u.state \cup VAR_DELETED => ~IsCopy(w) /\ w.state # {}
<1>1. ASSUME NEW u, NEW w, IsCopy(u), w.state = u.state \cup VAR_IN_DELETED_TRANSITION
      PROVE  IsInDeleted(w)
  <2>1. u.state = {7, 6} \/ u.state = {7, 6} \cup {0}
    BY <1>1 DEF IsCopy, IsAdded, IsInDeleted, VAR_ADDED, VAR_IN_DELETED_TRANSITION
  <2>2. w.state = {7, 6} \cup {0}
    BY <1>1, <2>1 DEF VAR_IN_DELETED_TRANSITION
  <2> QED BY <2>2 DEF IsInDeleted, VAR_ADDED, VAR_IN_DELETED_TRANSITION
<1>2. ASSUME NEW u, NEW w, w.state = u.state \cup VAR_DELETED PROVE ~IsCopy(w) /\ w.state # {}
  <2>1. 1 \in w.state /\ 1 \notin {7, 6} /\ 1 \notin {7, 6, 0}
    BY <1>2 DEF VAR_DELETED
  <2> QED BY <2>1, StateFacts DEF IsCopy
<1>3. VAR_IN_DELETED_TRANSITION \subseteq StateBits /\ VAR_DELETED \subseteq StateBits
  BY DEF VAR_IN_DELETED_TRANSITION, VAR_DELETED, StateBits
<1> QED BY <1>1, <1>2, <1>3

\* Bits set in flash and cache alike.
LEMMA SetBoth ==
  ASSUME StoreInv, pc \notin Starting \cup Appending,
         NEW p \in Headers(cache), IsCopy(cache[p]) \/ cache[p].state # {},
         NEW bits, bits \subseteq StateBits,
         flash' = SetState(flash, p, bits), cache' = SetState(cache, p, bits), last' = last
  PROVE  /\ GoodStore(flash') /\ GoodStore(cache') /\ cache' = flash'
         /\ last' = End(cache') /\ Free(cache', last')
         /\ Headers(cache') = Headers(cache)
         /\ \A q \in Offset : q # p => cache'[q] = cache[q]
         /\ \A q \in Headers(cache) : Body(cache', q) = Body(cache, q)
         /\ cache'[p].state = cache[p].state \cup bits
         /\ \A q \in Headers(cache) : cache[q].state # {} => cache'[q].state # {}
<1>1. /\ GoodStore(cache) /\ cache = flash /\ last = End(cache) /\ Free(cache, last)
      /\ cache[p].state # {}
  BY StateFacts DEF StoreInv, SyncInv, LogInv, FreeInv, Starting, IsCopy
<1>2. /\ Headers(cache') = Headers(cache) /\ End(cache') = End(cache)
      /\ \A q \in Headers(cache) : Body(cache', q) = Body(cache, q)
      /\ \A q \in Offset : q # p => cache'[q] = cache[q]
      /\ cache'[p].state = cache[p].state \cup bits
      /\ Free(cache', End(cache))
  BY <1>1, SetStateWalk
<1>3. GoodStore(cache')
  BY <1>1, SetStateGood
<1>4. Headers(cache) \subseteq Offset
  BY WalkFacts
<1> QED BY <1>1, <1>2, <1>3, <1>4

-----------------------------------------------------------------------------
(* UpdateVariable preserves the invariant, access by access.                *)

LEMMA StepNames ==
  /\ Step = {"append", "mark", "header", "headerValid", "data", "added", "deleteInDeleted",
             "deleteCurr", "reclaim", "idle", "boot", "writeService", "reclaimAtBoot",
             "reclaimForOS"}
  /\ Updating = {"append", "mark", "header", "headerValid", "data", "added",
                 "deleteInDeleted", "deleteCurr", "reclaim"}
BY DEF Step, Updating

LEMMA SetVariableStore ==
  ASSUME StoreInv, NEW n \in Name, NEW v \in Value \cup {NoValue}, SetVariable(n, v)
  PROVE  StoreInv'
<1> DEFINE found == FindVariableEx(cache, n)
<1>1. /\ GoodStore(flash) /\ GoodStore(cache) /\ last = End(cache) /\ last <= total + 1
      /\ cache = flash /\ Free(cache, last) /\ SmallTypes /\ pc = "idle" /\ track = NoTrack
  BY StepNames DEF StoreInv, SetVariable, LogInv, SyncInv, FreeInv, TrackInv, Starting, Appending
<1>2. /\ flash' = flash /\ cache' = cache /\ last' = last /\ total' = total
      /\ atRuntime' = atRuntime /\ reclaimed' = reclaimed
      /\ spare' = spare /\ refusing' = refusing /\ failures' = failures
      /\ args' = [name |-> n, value |-> v]
  BY DEF SetVariable, memory, mode, ftw
<1>3. \/ pc' = pc /\ track' = track /\ reply' \in {"failed", "success"}
      \/ /\ track' = found /\ reply' = "none"
         /\ \/ found.curr = 0 /\ v # NoValue /\ pc' = "append"
            \/ found.curr # 0 /\ v # NoValue /\ pc' = "mark"
            \/ found.curr # 0 /\ found.inDeleted # 0 /\ pc' = "deleteInDeleted"
            \/ found.curr # 0 /\ pc' = "deleteCurr"
  BY DEF SetVariable
<1>4. /\ found.curr \in Headers(cache) \cup {0} /\ found.inDeleted \in Headers(cache) \cup {0}
      /\ found.curr # 0 => IsCopy(cache[found.curr])
      /\ found.inDeleted # 0 => /\ cache[found.inDeleted].state # {}
                                /\ found.curr # 0 /\ found.inDeleted # found.curr
  <2>1. /\ found.curr = 0 <=> Copies(cache, n) = {}
        /\ found.curr \in Copies(cache, n) \cup {0}
        /\ found.inDeleted \in Deleted(cache, n) \cup {0}
        /\ found.inDeleted # 0 => found.curr \in Added(cache, n) /\ found.inDeleted < found.curr
    BY FindIs
  <2>2. /\ Copies(cache, n) \subseteq Headers(cache)
        /\ \A p \in Copies(cache, n) : IsCopy(cache[p]) /\ cache[p].state # {}
        /\ Added(cache, n) \cap Deleted(cache, n) = {} /\ 0 \notin Copies(cache, n)
        /\ Added(cache, n) \subseteq Copies(cache, n) /\ Deleted(cache, n) \subseteq Copies(cache, n)
    BY CopiesAre, StateFacts DEF IsCopy
  <2> HIDE DEF found
  <2> QED BY <2>1, <2>2
<1> HIDE DEF found
<1>5. SmallTypes'
  BY <1>1, <1>2, <1>3, StepNames DEF SmallTypes
<1>6. LogInv' /\ SyncInv' /\ FreeInv' /\ RoomInv' /\ WrittenInv'
  BY <1>1, <1>2, <1>3 DEF LogInv, SyncInv, FreeInv, RoomInv, WrittenInv, Appending
<1>7. ArgsInv'
  BY <1>1, <1>2, <1>3 DEF ArgsInv, Storing, Appending
<1>8. TrackInv'
  <2>1. CASE pc' = pc /\ track' = track
    BY <1>1, <2>1, NoTrackFacts DEF TrackInv, Updating
  <2>2. CASE track' = found /\ pc' \in {"append", "mark", "deleteInDeleted", "deleteCurr"}
             /\ (pc' \in {"mark", "deleteInDeleted", "deleteCurr"} => found.curr # 0)
             /\ (pc' = "deleteInDeleted" => found.inDeleted # 0)
    BY <1>2, <1>4, <2>2 DEF TrackInv, Updating
  <2> QED BY <1>3, <2>1, <2>2
<1> QED BY <1>1, <1>2, <1>5, <1>6, <1>7, <1>8 DEF StoreInv, SpareInv

\* The three accesses that set bits in tracked copies.
LEMMA BitsStore ==
  ASSUME StoreInv, pc \in {"mark", "deleteInDeleted", "deleteCurr"},
         NEW p, p = IF pc = "deleteInDeleted" THEN track.inDeleted ELSE track.curr,
         NEW bits, bits = IF pc = "mark" THEN VAR_IN_DELETED_TRANSITION ELSE VAR_DELETED,
         flash' = SetState(flash, p, bits), cache' = SetState(cache, p, bits), last' = last,
         total' = total
  PROVE  /\ GoodStore(flash') /\ GoodStore(cache') /\ cache' = flash'
         /\ last' = End(cache') /\ Free(cache', last') /\ last' <= total' + 1
         /\ Headers(cache') = Headers(cache) /\ p \in Headers(cache) /\ p \in Offset
         /\ \A q \in Offset : q # p => cache'[q] = cache[q]
         /\ \A q \in Headers(cache) : Body(cache', q) = Body(cache, q)
         /\ cache'[p].state = cache[p].state \cup bits
         /\ \A q \in Headers(cache) : cache[q].state # {} => cache'[q].state # {}
         /\ pc # "mark" => ~IsCopy(cache'[p])
         /\ pc = "mark" => IsInDeleted(cache'[p])
<1>1. /\ p \in Headers(cache) /\ cache[p].state # {} /\ (pc = "mark" => IsCopy(cache[p]))
      /\ GoodStore(cache) /\ last = End(cache) /\ last <= total + 1
  BY StateFacts DEF StoreInv, TrackInv, LogInv, IsCopy
<1>2. bits \subseteq StateBits
  BY BitsFacts
<1>3. p \in Offset /\ cache \in Store
  BY <1>1, WalkFacts DEF GoodStore
<1>4. SetState(cache, p, bits)[p].state = cache[p].state \cup bits
  BY <1>1, <1>2, SetStateWalk
<1>5. /\ pc # "mark" => ~IsCopy(SetState(cache, p, bits)[p])
      /\ pc = "mark" => IsInDeleted(SetState(cache, p, bits)[p])
  BY <1>1, <1>4, BitsFacts
<1>6. pc \notin Starting \cup Appending
  BY DEF Starting, Appending
<1>7. /\ GoodStore(flash') /\ GoodStore(cache') /\ cache' = flash'
      /\ last' = End(cache') /\ Free(cache', last')
      /\ Headers(cache') = Headers(cache)
      /\ \A q \in Offset : q # p => cache'[q] = cache[q]
      /\ \A q \in Headers(cache) : Body(cache', q) = Body(cache, q)
      /\ cache'[p].state = cache[p].state \cup bits
      /\ \A q \in Headers(cache) : cache[q].state # {} => cache'[q].state # {}
  BY <1>1, <1>2, <1>6, SetBoth
<1> QED BY <1>1, <1>3, <1>5, <1>7

LEMMA MarkStore ==
  ASSUME StoreInv, Mark PROVE StoreInv'
<1>1. /\ pc = "mark" /\ pc' = "append" /\ args' = args /\ track' = track /\ reply' = reply
      /\ flash' = SetState(flash, track.curr, VAR_IN_DELETED_TRANSITION)
      /\ cache' = SetState(cache, track.curr, VAR_IN_DELETED_TRANSITION)
      /\ last' = last /\ total' = total /\ failures' = failures
      /\ atRuntime' = atRuntime /\ reclaimed' = reclaimed
      /\ spare' = spare /\ refusing' = refusing
  BY DEF Mark, Goto, call, mode, ftw
<1>2. /\ GoodStore(flash') /\ GoodStore(cache') /\ cache' = flash'
      /\ last' = End(cache') /\ Free(cache', last') /\ last' <= total' + 1
      /\ Headers(cache') = Headers(cache)
      /\ \A q \in Headers(cache) : cache[q].state # {} => cache'[q].state # {}
      /\ IsInDeleted(cache'[track.curr])
  BY <1>1, BitsStore
<1>3. SmallTypes' /\ ArgsInv'
  BY <1>1, StepNames DEF StoreInv, SmallTypes, ArgsInv, Storing, Appending
<1>4. LogInv' /\ SyncInv' /\ FreeInv' /\ RoomInv' /\ WrittenInv'
  BY <1>1, <1>2 DEF LogInv, SyncInv, FreeInv, RoomInv, WrittenInv, Appending
<1>5. TrackInv'
  BY <1>1, <1>2, StepNames DEF StoreInv, TrackInv, IsCopy
<1> QED BY <1>1, <1>2, <1>3, <1>4, <1>5 DEF StoreInv, SpareInv

LEMMA DeleteInDeletedStore ==
  ASSUME StoreInv, DeleteInDeleted PROVE StoreInv'
<1>1. /\ pc = "deleteInDeleted" /\ pc' = "deleteCurr" /\ args' = args /\ track' = track
      /\ reply' = reply
      /\ flash' = SetState(flash, track.inDeleted, VAR_DELETED)
      /\ cache' = SetState(cache, track.inDeleted, VAR_DELETED)
      /\ last' = last /\ total' = total /\ failures' = failures
      /\ atRuntime' = atRuntime /\ reclaimed' = reclaimed
      /\ spare' = spare /\ refusing' = refusing
  BY DEF DeleteInDeleted, Goto, call, mode, ftw
<1>2. /\ GoodStore(flash') /\ GoodStore(cache') /\ cache' = flash'
      /\ last' = End(cache') /\ Free(cache', last') /\ last' <= total' + 1
      /\ Headers(cache') = Headers(cache)
      /\ \A q \in Offset : q # track.inDeleted => cache'[q] = cache[q]
      /\ \A q \in Headers(cache) : cache[q].state # {} => cache'[q].state # {}
  BY <1>1, BitsStore
<1>3. SmallTypes' /\ ArgsInv'
  BY <1>1, StepNames DEF StoreInv, SmallTypes, ArgsInv, Storing, Appending
<1>4. LogInv' /\ SyncInv' /\ FreeInv' /\ RoomInv' /\ WrittenInv'
  BY <1>1, <1>2 DEF LogInv, SyncInv, FreeInv, RoomInv, WrittenInv, Appending
<1>5. Headers(cache) \subseteq Offset
  BY WalkFacts
<1>6. TrackInv'
  BY <1>1, <1>2, <1>5, StepNames DEF StoreInv, TrackInv
<1> QED BY <1>1, <1>2, <1>3, <1>4, <1>6 DEF StoreInv, SpareInv

\* A call that is over tracks nothing.
LEMMA IdleInv ==
  ASSUME pc' \notin {"header"} \cup Appending \cup Storing \cup Updating, track' = NoTrack
  PROVE  RoomInv' /\ WrittenInv' /\ ArgsInv' /\ TrackInv'
BY NoTrackFacts DEF RoomInv, WrittenInv, ArgsInv, TrackInv, Appending, Storing, Updating

LEMMA DeleteCurrStore ==
  ASSUME StoreInv, DeleteCurr PROVE StoreInv'
<1>1. /\ pc = "deleteCurr" /\ pc' = "idle" /\ args' = args /\ track' = NoTrack
      /\ reply' = "success"
      /\ flash' = SetState(flash, track.curr, VAR_DELETED)
      /\ cache' = SetState(cache, track.curr, VAR_DELETED)
      /\ last' = last /\ total' = total /\ failures' = failures
      /\ atRuntime' = atRuntime /\ reclaimed' = reclaimed
      /\ spare' = spare /\ refusing' = refusing
  BY DEF DeleteCurr, Return, mode, ftw
<1>2. /\ GoodStore(flash') /\ GoodStore(cache') /\ cache' = flash'
      /\ last' = End(cache') /\ Free(cache', last') /\ last' <= total' + 1
  BY <1>1, BitsStore
<1>3. SmallTypes'
  BY <1>1, StepNames DEF StoreInv, SmallTypes
<1>4. LogInv' /\ SyncInv' /\ FreeInv'
  BY <1>1, <1>2 DEF LogInv, SyncInv, FreeInv
<1>5. RoomInv' /\ WrittenInv' /\ ArgsInv' /\ TrackInv'
  BY <1>1, IdleInv DEF Appending, Storing, Updating
<1> QED BY <1>1, <1>2, <1>3, <1>4, <1>5 DEF StoreInv, SpareInv

LEMMA CheckSpaceStore ==
  ASSUME StoreInv, CheckSpace PROVE StoreInv'
<1>1. /\ pc = "append" /\ args' = args
      /\ flash' = flash /\ cache' = cache /\ last' = last /\ total' = total
      /\ failures' = failures /\ atRuntime' = atRuntime /\ reclaimed' = reclaimed
      /\ spare' = spare /\ refusing' = refusing
      /\ \/ pc' = "idle" /\ track' = NoTrack /\ reply' = "full"
         \/ /\ track' = track /\ reply' = reply
            /\ \/ pc' = "reclaim"
               \/ /\ pc' = "header"
                  /\ ~NoRoom(StoreSize)
  BY DEF CheckSpace, Return, Goto, call, mode, ftw, memory
<1>2. GoodStore(flash') /\ GoodStore(cache') /\ SmallTypes'
  BY <1>1, StepNames DEF StoreInv, SmallTypes
<1>3. LogInv' /\ SyncInv' /\ FreeInv'
  BY <1>1 DEF StoreInv, LogInv, SyncInv, FreeInv, Appending, Starting
<1>4. CASE pc' = "idle" /\ track' = NoTrack
  <2>1. RoomInv' /\ WrittenInv' /\ ArgsInv' /\ TrackInv'
    BY <1>4, IdleInv DEF Appending, Storing, Updating
  <2> QED BY <1>1, <1>2, <1>3, <2>1 DEF StoreInv, SpareInv
<1>5. CASE track' = track /\ (pc' = "reclaim" \/ (pc' = "header" /\ ~NoRoom(StoreSize)))
  <2>1. pc' = "header" => total + 2 <= StoreSize
    BY <1>5, SizeFacts DEF NoRoom, StoreInv, SmallTypes
  <2>2. RoomInv' /\ WrittenInv' /\ ArgsInv'
    BY <1>1, <1>5, <2>1 DEF StoreInv, RoomInv, WrittenInv, ArgsInv, Appending, Storing
  <2>3. TrackInv'
    BY <1>1, <1>5 DEF StoreInv, TrackInv, Updating
  <2> QED BY <1>1, <1>2, <1>3, <2>2, <2>3 DEF StoreInv, SpareInv
<1> QED BY <1>1, <1>4, <1>5

\* Where an append writes.
LEMMA AppendsAt ==
  ASSUME StoreInv, pc \in {"header"} \cup Appending
  PROVE  /\ last \in Offset /\ last + 1 \in Offset /\ last + 1 <= StoreSize /\ last = End(cache)
         /\ GoodStore(cache) /\ cache \in Store /\ Free(cache, last)
         /\ cache[last] = ErasedUnit /\ cache[last + 1] = ErasedUnit
         /\ last <= total + 1 /\ total + 2 <= StoreSize /\ last \in Nat /\ total \in Nat
<1>1. /\ last = End(cache) /\ GoodStore(cache) /\ cache \in Store /\ Free(cache, last)
      /\ last <= total + 1 /\ total + 2 <= StoreSize /\ last \in Nat /\ total \in Nat
  BY DEF StoreInv, LogInv, FreeInv, RoomInv, SmallTypes, GoodStore, Appending, Starting
<1>2. last \in Offset /\ last + 1 \in Offset /\ last + 1 <= StoreSize
  BY <1>1, SizeFacts, WalkFacts
<1>3. cache[last] = ErasedUnit /\ cache[last + 1] = ErasedUnit
  BY <1>1, <1>2 DEF Free
<1> QED BY <1>1, <1>2, <1>3

LEMMA PutOne ==
  ASSUME NEW store \in Store, NEW e \in Offset, e + 1 \in Offset, NEW u, NEW v, v = store[e + 1]
  PROVE  [store EXCEPT ![e] = u] = Put(store, e, u, v)
<1>1. e # e + 1
  BY SizeFacts
<1> QED BY <1>1 DEF Put, Store

\* The flash at an append, written as a change of the cache.
LEMMA FlashAhead ==
  ASSUME StoreInv, pc \in Appending
  PROVE  \E u, v \in Unit :
           /\ flash = Put(cache, last, u, v) /\ v = flash[last + 1] /\ u = flash[last]
           /\ u.start /\ ~v.start /\ ~IsCopy(u) /\ u.body = Erased
           /\ pc = "headerValid" => u = HeaderUnit({}) /\ v = ErasedUnit
           /\ pc \in {"data", "added"} => u = HeaderUnit(VAR_HEADER_VALID_ONLY)
           /\ pc = "data" => v = ErasedUnit
           /\ pc = "added" => v = BodyUnit(args)
           /\ Headers(flash) = Headers(cache) \cup {last}
           /\ \A q \in Headers(cache) : flash[q] = cache[q]
<1>1. /\ last \in Offset /\ last + 1 \in Offset /\ last + 1 <= StoreSize /\ last = End(cache)
      /\ GoodStore(cache) /\ cache \in Store /\ Free(cache, last)
  BY AppendsAt
<1> DEFINE u == IF pc = "headerValid" THEN HeaderUnit({}) ELSE HeaderUnit(VAR_HEADER_VALID_ONLY)
           v == IF pc = "added" THEN BodyUnit(args) ELSE ErasedUnit
<1>2. flash = Put(cache, last, u, v)
  BY DEF StoreInv, WrittenInv, Appending
<1>3. pc = "added" => args \in Contents
  <2>1. pc = "added" => args.value \in Value /\ args \in [name : Name, value : Value \cup {NoValue}]
    BY DEF StoreInv, ArgsInv, SmallTypes, Storing, Appending
  <2> QED BY <2>1 DEF Contents
<1>4. {} \subseteq StateBits /\ VAR_HEADER_VALID_ONLY \subseteq StateBits
  BY DEF VAR_HEADER_VALID_ONLY, StateBits
<1>5. u \in Unit /\ u.start /\ u.body = Erased
      /\ u.state \in {{}, VAR_HEADER_VALID_ONLY}
  BY <1>4, UnitFacts
<1>6. v \in Unit /\ ~v.start
  BY <1>3, UnitFacts
<1>7. ~IsCopy(u)
  <2>1. {7} # {7, 6} /\ {7} # {7, 6, 0} /\ {} # {7, 6} /\ {} # {7, 6, 0}
    <3>1. 6 \in {7, 6} /\ 6 \in {7, 6, 0} /\ 6 \notin {7}
      OBVIOUS
    <3> QED BY <3>1
  <2> QED BY <1>5, <2>1, StateFacts DEF IsCopy, VAR_HEADER_VALID_ONLY
<1>8. /\ pc = "headerValid" => u = HeaderUnit({}) /\ v = ErasedUnit
      /\ pc \in {"data", "added"} => u = HeaderUnit(VAR_HEADER_VALID_ONLY)
      /\ pc = "data" => v = ErasedUnit
      /\ pc = "added" => v = BodyUnit(args)
  OBVIOUS
<1> HIDE DEF u, v
<1>9. flash[last] = u /\ flash[last + 1] = v
  BY <1>1, <1>2, <1>5, <1>6, PutIs
<1>10. Headers(flash) = Headers(cache) \cup {last} /\ \A q \in Headers(cache) : flash[q] = cache[q]
  BY <1>1, <1>2, <1>5, <1>6, <1>7, PutGood
<1> QED BY <1>2, <1>5, <1>6, <1>7, <1>8, <1>9, <1>10

\* A flash that is ahead of the cache by a header or a variable is good.
LEMMA AheadGood ==
  ASSUME StoreInv, pc \in {"header"} \cup Appending, NEW bits, bits \subseteq StateBits,
         NEW v \in Unit, ~v.start,
         bits \in {{}, VAR_HEADER_VALID_ONLY, VAR_ADDED}
  PROVE  /\ GoodStore(Put(cache, last, HeaderUnit(bits), v))
         /\ Headers(Put(cache, last, HeaderUnit(bits), v)) = Headers(cache) \cup {last}
         /\ bits # {} => End(Put(cache, last, HeaderUnit(bits), v)) = last + 2
         /\ Free(Put(cache, last, HeaderUnit(bits), v), last + 2)
         /\ \A q \in Headers(cache) : Put(cache, last, HeaderUnit(bits), v)[q] = cache[q]
         /\ \A q \in Headers(cache) : cache[q].state # {} =>
              Body(Put(cache, last, HeaderUnit(bits), v), q) = Body(cache, q)
         /\ Body(Put(cache, last, HeaderUnit(bits), v), last) = v.body
         /\ Put(cache, last, HeaderUnit(bits), v)[last] = HeaderUnit(bits)
<1> DEFINE u == HeaderUnit(bits)
<1>1. /\ last \in Offset /\ last + 1 \in Offset /\ last + 1 <= StoreSize /\ last = End(cache)
      /\ GoodStore(cache) /\ cache \in Store /\ Free(cache, last)
  BY AppendsAt
<1>2. u \in Unit /\ u.start /\ u.state = bits
  BY UnitFacts
<1>3. bits # {} => EntrySize(u) = 2
  BY <1>2, EntryFacts
<1> HIDE DEF u
<1>4. Put(cache, last, u, v)[last] = u
  BY <1>1, <1>2, PutIs
<1>5. /\ GoodStore(Put(cache, last, u, v))
      /\ Headers(Put(cache, last, u, v)) = Headers(cache) \cup (IF u.start THEN {last} ELSE {})
      /\ u.start => End(Put(cache, last, u, v)) = last + EntrySize(u)
      /\ Free(Put(cache, last, u, v), last + 2)
      /\ \A q \in Headers(cache) : Put(cache, last, u, v)[q] = cache[q]
      /\ \A q \in Headers(cache) : cache[q].state # {} =>
           Body(Put(cache, last, u, v), q) = Body(cache, q)
      /\ Body(Put(cache, last, u, v), last) = v.body
  BY <1>1, <1>2, PutGood
<1>6. Headers(Put(cache, last, u, v)) = Headers(cache) \cup {last}
  BY <1>2, <1>5
<1>7. bits # {} => End(Put(cache, last, u, v)) = last + 2
  BY <1>2, <1>3, <1>5
<1> QED BY <1>4, <1>5, <1>6, <1>7 DEF u

\* One of the two units is written again.
LEMMA PutAgain ==
  ASSUME NEW store \in Store, NEW e \in Offset, e + 1 \in Offset, NEW u, NEW v, NEW w
  PROVE  /\ [Put(store, e, u, v) EXCEPT ![e] = w] = Put(store, e, w, v)
         /\ [Put(store, e, u, v) EXCEPT ![e + 1] = w] = Put(store, e, u, w)
<1>1. PICK f : f = e + 1 /\ f \in Offset /\ e # f
  BY SizeFacts
<1>2. DOMAIN store = Offset
  BY DEF Store
<1>3. [[store EXCEPT ![e] = u, ![f] = v] EXCEPT ![e] = w] = [store EXCEPT ![e] = w, ![f] = v]
  BY <1>1, <1>2
<1>4. [[store EXCEPT ![e] = u, ![f] = v] EXCEPT ![f] = w] = [store EXCEPT ![e] = u, ![f] = w]
  BY <1>1, <1>2
<1> QED BY <1>1, <1>3, <1>4 DEF Put

LEMMA UnitEqual ==
  ASSUME NEW u \in Unit, NEW w \in Unit, u.start = w.start, u.state = w.state, u.body = w.body
  PROVE  u = w
BY DEF Unit

LEMMA HeaderBits ==
  ASSUME NEW bits, NEW more, bits \subseteq StateBits, more \subseteq StateBits
  PROVE  /\ [HeaderUnit(bits) EXCEPT !.state = @ \cup more] = HeaderUnit(bits \cup more)
         /\ [ErasedUnit EXCEPT !.start = TRUE] = HeaderUnit({})
         /\ \A body : [ErasedUnit EXCEPT !.body = body] = BodyUnit(body)
<1>1. \A u \in Unit : \A b : b \subseteq StateBits =>
        /\ [u EXCEPT !.state = b] \in Unit /\ [u EXCEPT !.state = b].start = u.start
        /\ [u EXCEPT !.state = b].state = b /\ [u EXCEPT !.state = b].body = u.body
  BY DEF Unit, StateBits
<1>2. \A u \in Unit :
        /\ [u EXCEPT !.start = TRUE] \in Unit /\ [u EXCEPT !.start = TRUE].start
        /\ [u EXCEPT !.start = TRUE].state = u.state /\ [u EXCEPT !.start = TRUE].body = u.body
  BY DEF Unit
<1>3. bits \cup more \subseteq StateBits /\ {} \subseteq StateBits
  OBVIOUS
<1>4. [HeaderUnit(bits) EXCEPT !.state = HeaderUnit(bits).state \cup more] = HeaderUnit(bits \cup more)
  <2> DEFINE u == HeaderUnit(bits)
             w == HeaderUnit(bits \cup more)
             x == [u EXCEPT !.state = u.state \cup more]
  <2>1. u \in Unit /\ w \in Unit /\ u.start /\ w.start /\ u.state = bits
        /\ w.state = bits \cup more /\ u.body = Erased /\ w.body = Erased
    BY <1>3, UnitFacts
  <2> HIDE DEF u, w
  <2>2. x \in Unit /\ x.start = u.start /\ x.state = bits \cup more /\ x.body = Erased
    BY <1>1, <1>3, <2>1
  <2> HIDE DEF x
  <2>3. x.start = w.start
    BY <2>1, <2>2 DEF Unit
  <2>4. x = w
    BY <2>1, <2>2, <2>3, UnitEqual
  <2> QED BY <2>4 DEF u, w, x
<1>5. [ErasedUnit EXCEPT !.start = TRUE] = HeaderUnit({})
  <2> DEFINE w == HeaderUnit({})
             x == [ErasedUnit EXCEPT !.start = TRUE]
  <2>1. w \in Unit /\ w.start /\ w.state = {} /\ w.body = Erased
    BY <1>3, UnitFacts
  <2>2. x \in Unit /\ x.start /\ x.state = {} /\ x.body = Erased
    BY <1>2, UnitFacts
  <2> HIDE DEF w, x
  <2>3. x.start = w.start
    BY <2>1, <2>2 DEF Unit
  <2>4. x = w
    BY <2>1, <2>2, <2>3, UnitEqual
  <2> QED BY <2>4 DEF w, x
<1> QED BY <1>4, <1>5 DEF BodyUnit

LEMMA BitSets ==
  /\ {} \subseteq StateBits /\ VAR_HEADER_VALID_ONLY \subseteq StateBits
  /\ VAR_ADDED \subseteq StateBits
BY DEF StateBits, VAR_ADDED, VAR_HEADER_VALID_ONLY

LEMMA WriteHeaderStore ==
  ASSUME StoreInv, WriteHeader PROVE StoreInv'
<1>1. /\ pc = "header" /\ args' = args /\ track' = track /\ reply' = reply /\ pc' = "headerValid"
      /\ cache' = cache /\ last' = last /\ total' = total
      /\ failures' = failures /\ atRuntime' = atRuntime /\ reclaimed' = reclaimed
      /\ spare' = spare /\ refusing' = refusing
      /\ flash' = [flash EXCEPT ![last].start = TRUE]
  BY DEF WriteHeader, Goto, call, mode, ftw, memory
<1>2. flash = cache
  BY <1>1 DEF StoreInv, SyncInv, Appending
<1>3. /\ last \in Offset /\ last + 1 \in Offset /\ cache \in Store
      /\ cache[last] = ErasedUnit /\ cache[last + 1] = ErasedUnit
  BY <1>1, AppendsAt
<1>4. flash' = [cache EXCEPT ![last] = HeaderUnit({})]
  <2>1. flash' = [cache EXCEPT ![last] = [cache[last] EXCEPT !.start = TRUE]]
    BY <1>1, <1>2
  <2>2. [cache[last] EXCEPT !.start = TRUE] = HeaderUnit({})
    BY <1>3, BitSets, HeaderBits
  <2> QED BY <2>1, <2>2
<1>5. flash' = Put(cache, last, HeaderUnit({}), ErasedUnit)
  BY <1>3, <1>4, PutOne
<1>6. ErasedUnit \in Unit /\ ~ErasedUnit.start /\ {} \subseteq StateBits
  BY UnitFacts
<1>7. GoodStore(flash')
  <2> DEFINE bits == {}
  <2>1. bits \subseteq StateBits
        /\ bits \in {{}, VAR_HEADER_VALID_ONLY, VAR_ADDED}
    BY <1>6
  <2>2. pc \in {"header"} \cup Appending
    BY <1>1
  <2>3. flash' = Put(cache, last, HeaderUnit(bits), ErasedUnit)
    BY <1>5
  <2> HIDE DEF bits
  <2> QED BY <1>6, <2>1, <2>2, <2>3, AheadGood
<1>8. GoodStore(cache') /\ SmallTypes' /\ LogInv' /\ SyncInv' /\ FreeInv' /\ RoomInv' /\ ArgsInv'
  BY <1>1, StepNames DEF StoreInv, SmallTypes, LogInv, SyncInv, FreeInv, RoomInv, ArgsInv,
     Appending, Storing, Starting
<1>9. WrittenInv'
  BY <1>1, <1>5 DEF WrittenInv
<1>10. TrackInv'
  BY <1>1, StepNames DEF StoreInv, TrackInv
<1> QED BY <1>1, <1>7, <1>8, <1>9, <1>10 DEF StoreInv, SpareInv

LEMMA WriteHeaderValidStore ==
  ASSUME StoreInv, WriteHeaderValid PROVE StoreInv'
<1>1. /\ pc = "headerValid" /\ args' = args /\ track' = track /\ reply' = reply /\ pc' = "data"
      /\ cache' = cache /\ last' = last /\ total' = total
      /\ failures' = failures /\ atRuntime' = atRuntime /\ reclaimed' = reclaimed
      /\ spare' = spare /\ refusing' = refusing
      /\ flash' = SetState(flash, last, VAR_HEADER_VALID_ONLY)
  BY DEF WriteHeaderValid, Goto, call, mode, ftw, memory
<1>2. flash = Put(cache, last, HeaderUnit({}), ErasedUnit)
  BY <1>1 DEF StoreInv, WrittenInv
<1>3. /\ last \in Offset /\ last + 1 \in Offset /\ cache \in Store
  BY <1>1, AppendsAt DEF Appending
<1>4. flash[last] = HeaderUnit({})
  BY <1>2, <1>3, SizeFacts DEF Put, Store
<1>5. flash' = [flash EXCEPT ![last] = HeaderUnit(VAR_HEADER_VALID_ONLY)]
  <2>1. flash' = [flash EXCEPT ![last] = [flash[last] EXCEPT !.state = @ \cup VAR_HEADER_VALID_ONLY]]
    BY <1>1 DEF SetState
  <2>2. {} \cup VAR_HEADER_VALID_ONLY = VAR_HEADER_VALID_ONLY
    OBVIOUS
  <2>3. [flash[last] EXCEPT !.state = @ \cup VAR_HEADER_VALID_ONLY]
          = HeaderUnit({} \cup VAR_HEADER_VALID_ONLY)
    BY <1>4, BitSets, HeaderBits
  <2> QED BY <2>1, <2>2, <2>3
<1>6. flash' = Put(cache, last, HeaderUnit(VAR_HEADER_VALID_ONLY), ErasedUnit)
  BY <1>2, <1>3, <1>5, PutAgain
<1>7. ErasedUnit \in Unit /\ ~ErasedUnit.start /\ VAR_HEADER_VALID_ONLY \subseteq StateBits
  BY UnitFacts, BitSets
<1>8. GoodStore(flash')
  <2>1. pc \in {"header"} \cup Appending
    BY <1>1 DEF Appending
  <2> QED BY <1>6, <1>7, <2>1, AheadGood
<1>9. GoodStore(cache') /\ SmallTypes' /\ LogInv' /\ SyncInv' /\ FreeInv' /\ RoomInv' /\ ArgsInv'
  BY <1>1, StepNames DEF StoreInv, SmallTypes, LogInv, SyncInv, FreeInv, RoomInv, ArgsInv,
     Appending, Storing, Starting
<1>10. WrittenInv'
  BY <1>1, <1>6 DEF WrittenInv
<1>11. TrackInv'
  BY <1>1, StepNames DEF StoreInv, TrackInv
<1> QED BY <1>1, <1>8, <1>9, <1>10, <1>11 DEF StoreInv, SpareInv

LEMMA WriteDataStore ==
  ASSUME StoreInv, WriteData PROVE StoreInv'
<1>1. /\ pc = "data" /\ args' = args /\ track' = track /\ reply' = reply /\ pc' = "added"
      /\ cache' = cache /\ last' = last /\ total' = total
      /\ failures' = failures /\ atRuntime' = atRuntime /\ reclaimed' = reclaimed
      /\ spare' = spare /\ refusing' = refusing
      /\ flash' = [flash EXCEPT ![last + 1].body =
                     IF @ \in {Erased, args} THEN args ELSE Garbled]
  BY DEF WriteData, Goto, call, mode, ftw, memory
<1>2. flash = Put(cache, last, HeaderUnit(VAR_HEADER_VALID_ONLY), ErasedUnit)
  BY <1>1 DEF StoreInv, WrittenInv
<1>3. /\ last \in Offset /\ last + 1 \in Offset /\ cache \in Store
  BY <1>1, AppendsAt DEF Appending
<1>4. flash[last + 1] = ErasedUnit
  BY <1>2, <1>3, SizeFacts DEF Put, Store
<1>5. flash' = [flash EXCEPT ![last + 1] = BodyUnit(args)]
  <2>1. flash' = [flash EXCEPT ![last + 1] =
                    [flash[last + 1] EXCEPT !.body =
                       IF flash[last + 1].body \in {Erased, args} THEN args ELSE Garbled]]
    BY <1>1
  <2>2. flash[last + 1].body = Erased
    BY <1>4, UnitFacts
  <2> QED BY <1>4, <2>1, <2>2, BitSets, HeaderBits
<1>6. flash' = Put(cache, last, HeaderUnit(VAR_HEADER_VALID_ONLY), BodyUnit(args))
  BY <1>2, <1>3, <1>5, PutAgain
<1>7. args \in Contents
  BY <1>1 DEF StoreInv, ArgsInv, SmallTypes, Storing, Appending, Contents
<1>8. /\ BodyUnit(args) \in Unit /\ ~BodyUnit(args).start
      /\ VAR_HEADER_VALID_ONLY \subseteq StateBits
  BY <1>7, UnitFacts, BitSets
<1>9. GoodStore(flash')
  <2>1. pc \in {"header"} \cup Appending
    BY <1>1 DEF Appending
  <2> QED BY <1>6, <1>8, <2>1, AheadGood
<1>10. GoodStore(cache') /\ SmallTypes' /\ LogInv' /\ SyncInv' /\ FreeInv' /\ RoomInv' /\ ArgsInv'
  BY <1>1, StepNames DEF StoreInv, SmallTypes, LogInv, SyncInv, FreeInv, RoomInv, ArgsInv,
     Appending, Storing, Starting
<1>11. WrittenInv'
  BY <1>1, <1>6 DEF WrittenInv
<1>12. TrackInv'
  BY <1>1, StepNames DEF StoreInv, TrackInv
<1> QED BY <1>1, <1>9, <1>10, <1>11, <1>12 DEF StoreInv, SpareInv

\* The last access of an append: flash and cache agree again.
LEMMA AddedIs ==
  ASSUME StoreInv, WriteAdded
  PROVE  /\ flash' = Put(cache, last, HeaderUnit(VAR_ADDED), BodyUnit(args)) /\ cache' = flash'
         /\ GoodStore(flash') /\ Headers(flash') = Headers(cache) \cup {last}
         /\ last \notin Headers(cache) /\ \A q \in Headers(cache) : q < last
         /\ last' = last + 2 /\ last' = End(flash') /\ Free(flash', last')
         /\ \A q \in Headers(cache) : flash'[q] = cache[q]
         /\ \A q \in Headers(cache) : cache[q].state # {} => Body(flash', q) = Body(cache, q)
         /\ Body(flash', last) = args /\ IsAdded(flash'[last]) /\ args \in Contents
<1>1. /\ pc = "added" /\ flash' = SetState(flash, last, VAR_ADDED)
      /\ cache' = [cache EXCEPT ![last] = HeaderUnit(VAR_ADDED), ![last + 1] = BodyUnit(args)]
      /\ last' = last + 2
  BY SizeFacts DEF WriteAdded, HeaderUnit, BodyUnit
<1>2. flash = Put(cache, last, HeaderUnit(VAR_HEADER_VALID_ONLY), BodyUnit(args))
  BY <1>1 DEF StoreInv, WrittenInv
<1>3. /\ last \in Offset /\ last + 1 \in Offset /\ cache \in Store /\ last = End(cache)
  BY <1>1, AppendsAt DEF Appending
<1>4. flash[last] = HeaderUnit(VAR_HEADER_VALID_ONLY)
  BY <1>2, <1>3, SizeFacts DEF Put, Store
<1>5. flash' = [flash EXCEPT ![last] = HeaderUnit(VAR_ADDED)]
  <2>1. flash' = [flash EXCEPT ![last] = [flash[last] EXCEPT !.state = @ \cup VAR_ADDED]]
    BY <1>1 DEF SetState
  <2>2. VAR_HEADER_VALID_ONLY \cup VAR_ADDED = VAR_ADDED
    BY DEF VAR_ADDED, VAR_HEADER_VALID_ONLY
  <2>3. [flash[last] EXCEPT !.state = @ \cup VAR_ADDED]
          = HeaderUnit(VAR_HEADER_VALID_ONLY \cup VAR_ADDED)
    BY <1>4, BitSets, HeaderBits
  <2> QED BY <2>1, <2>2, <2>3
<1>6. flash' = Put(cache, last, HeaderUnit(VAR_ADDED), BodyUnit(args))
  BY <1>2, <1>3, <1>5, PutAgain
<1>7. args \in Contents
  BY <1>1 DEF StoreInv, ArgsInv, SmallTypes, Storing, Appending, Contents
<1>8. /\ BodyUnit(args) \in Unit /\ ~BodyUnit(args).start /\ BodyUnit(args).body = args
      /\ VAR_ADDED \subseteq StateBits /\ VAR_ADDED # {}
  BY <1>7, UnitFacts DEF VAR_ADDED
<1>9. cache' = flash'
  BY <1>1, <1>6 DEF Put
<1>10. /\ GoodStore(flash') /\ Headers(flash') = Headers(cache) \cup {last}
       /\ last' = End(flash') /\ Free(flash', last')
       /\ \A q \in Headers(cache) : flash'[q] = cache[q]
       /\ \A q \in Headers(cache) : cache[q].state # {} => Body(flash', q) = Body(cache, q)
       /\ Body(flash', last) = args /\ flash'[last] = HeaderUnit(VAR_ADDED)
  BY <1>1, <1>6, <1>7, <1>8, AheadGood DEF Appending
<1>11. IsAdded(flash'[last])
  BY <1>10, UnitFacts DEF IsAdded
<1>12. last \notin Headers(cache) /\ \A q \in Headers(cache) : q < last
  BY <1>3, WalkFacts
<1> QED BY <1>1, <1>6, <1>7, <1>9, <1>10, <1>11, <1>12

LEMMA WriteAddedStore ==
  ASSUME StoreInv, WriteAdded PROVE StoreInv'
<1>1. /\ pc = "added" /\ args' = args /\ last' = last + 2 /\ total' = total + 2
      /\ failures' = failures /\ atRuntime' = atRuntime /\ reclaimed' = reclaimed
      /\ spare' = spare /\ refusing' = refusing
      /\ \/ pc' = "idle" /\ track' = NoTrack /\ reply' = "success" /\ track.curr = 0
         \/ /\ track' = track /\ reply' = reply /\ track.curr # 0
            /\ pc' = IF track.inDeleted # 0 THEN "deleteInDeleted" ELSE "deleteCurr"
  BY SizeFacts DEF WriteAdded, Return, Goto, call, mode, ftw
<1>2. /\ cache' = flash' /\ GoodStore(flash') /\ Headers(flash') = Headers(cache) \cup {last}
      /\ last' = End(flash') /\ Free(flash', last')
      /\ \A q \in Headers(cache) : flash'[q] = cache[q]
      /\ last \notin Headers(cache)
  BY AddedIs
<1>3. GoodStore(flash') /\ GoodStore(cache') /\ LogInv' /\ SyncInv' /\ FreeInv'
  <2>1. last' <= total' + 1
    BY <1>1, AppendsAt DEF Appending
  <2> QED BY <1>1, <1>2, <2>1 DEF LogInv, SyncInv, FreeInv
<1>4. SmallTypes'
  <2>1. last' \in Nat /\ total' \in Nat
    BY <1>1 DEF StoreInv, SmallTypes
  <2> QED BY <1>1, <2>1, StepNames DEF StoreInv, SmallTypes
<1>5. CASE track.curr = 0
  <2>1. pc' = "idle" /\ track' = NoTrack
    BY <1>1, <1>5
  <2>2. RoomInv' /\ WrittenInv' /\ ArgsInv' /\ TrackInv'
    BY <2>1, IdleInv DEF Appending, Storing, Updating
  <2> QED BY <1>1, <1>3, <1>4, <2>2 DEF StoreInv, SpareInv
<1>6. CASE track.curr # 0
  <2>1. track' = track /\ pc' = IF track.inDeleted # 0 THEN "deleteInDeleted" ELSE "deleteCurr"
    BY <1>1, <1>6
  <2>2. RoomInv' /\ WrittenInv' /\ ArgsInv'
    BY <2>1 DEF RoomInv, WrittenInv, ArgsInv, Appending, Storing
  <2>3. track.curr \in Headers(cache) /\ IsCopy(cache[track.curr])
        /\ track.inDeleted \in Headers(cache) \cup {0}
        /\ (track.inDeleted # 0 => cache[track.inDeleted].state # {}
                                 /\ track.inDeleted # track.curr)
    BY <1>6 DEF StoreInv, TrackInv
  <2>4. TrackInv'
    BY <1>2, <1>6, <2>1, <2>3 DEF TrackInv, Updating
  <2> QED BY <1>1, <1>3, <1>4, <2>2, <2>4 DEF StoreInv, SpareInv
<1> QED BY <1>5, <1>6

-----------------------------------------------------------------------------
(* The reclaims, the start and the failures preserve it.                    *)

LEMMA FaultySteps ==
  Faulty \subseteq {"mark", "header", "headerValid", "data", "added", "deleteInDeleted",
                    "deleteCurr", "reclaim", "reclaimForOS", "flush"}
BY DriverAssumption

\* What a reclaim writes, and when it fits.
LEMMA NewStoreIs ==
  ASSUME StoreInv, Reclaiming
  PROVE  /\ NewStore \in Seq(Bodies) /\ Len(NewStore) \in Nat
         /\ Whole(flash) => /\ NewStore \in Seq(Contents)
                            /\ Survivors(flash, track) \in Seq(Contents)
         /\ Survivors(flash, track) \in Seq(Bodies) /\ Len(Survivors(flash, track)) \in Nat
         /\ Len(Survivors(flash, track)) = Cardinality(Alive(flash, track))
         /\ pc # "reclaim" => Fits /\ NewStore = Survivors(flash, track)
         /\ pc = "reclaim" => /\ args \in Contents
                              /\ NewStore = Append(Survivors(flash, track), args)
                              /\ Len(NewStore) = Len(Survivors(flash, track)) + 1
                              /\ track.curr # 0 => Fits
         /\ Fits => /\ GoodStore(Compact(NewStore))
                    /\ Headers(Compact(NewStore)) = {2 * i - 1 : i \in 1..Len(NewStore)}
                    /\ End(Compact(NewStore)) = 2 * Len(NewStore) + 1
                    /\ Free(Compact(NewStore), 2 * Len(NewStore) + 1)
                    /\ \A i \in 1..Len(NewStore) :
                         /\ Body(Compact(NewStore), 2 * i - 1) = NewStore[i]
                         /\ IsAdded(Compact(NewStore)[2 * i - 1])
<1> DEFINE s == Survivors(flash, track)
<1>1. /\ s \in Seq(Bodies) /\ (Whole(flash) => s \in Seq(Contents))
      /\ Len(s) = Cardinality(Alive(flash, track))
      /\ VarSize * Len(s) <= StoreSize
      /\ track.curr \in Headers(flash) /\ IsCopy(flash[track.curr]) =>
           VarSize * (Len(s) + 1) <= StoreSize
  BY SurvivorsGood DEF StoreInv
<1>2. pc # "reclaim" => NewStore = s
  BY <1>1 DEF NewStore
<1>3. pc = "reclaim" => args \in Contents /\ NewStore = Append(s, args)
  <2>1. pc = "reclaim" => args \in Contents
    BY DEF StoreInv, ArgsInv, SmallTypes, Storing, Contents
  <2>2. pc = "reclaim" => NewStore = s \o <<args>>
    BY DEF NewStore
  <2>3. \A x : x \in Bodies => s \o <<x>> = Append(s, x)
    BY <1>1
  <2> QED BY <2>1, <2>2, <2>3 DEF Bodies
<1>4. track.curr # 0 => track.curr \in Headers(flash) /\ IsCopy(flash[track.curr])
  BY StepNames DEF StoreInv, TrackInv, SyncInv, Reclaiming, Updating, Starting, Appending, NoTrack
<1> HIDE DEF s
<1>5. Len(s) \in Nat
  BY <1>1
<1>6. pc = "reclaim" => /\ NewStore \in Seq(Bodies) /\ Len(NewStore) = Len(s) + 1
                        /\ Whole(flash) => NewStore \in Seq(Contents)
  BY <1>1, <1>3 DEF Bodies
<1>7. /\ NewStore \in Seq(Bodies) /\ Len(NewStore) \in Nat
      /\ Whole(flash) => NewStore \in Seq(Contents)
  BY <1>1, <1>2, <1>5, <1>6
<1>8. (pc # "reclaim" => Fits) /\ (pc = "reclaim" /\ track.curr # 0 => Fits)
  BY <1>1, <1>2, <1>4, <1>6 DEF Fits
<1>9. Fits => /\ GoodStore(Compact(NewStore))
              /\ Headers(Compact(NewStore)) = {2 * i - 1 : i \in 1..Len(NewStore)}
              /\ End(Compact(NewStore)) = 2 * Len(NewStore) + 1
              /\ Free(Compact(NewStore), 2 * Len(NewStore) + 1)
              /\ \A i \in 1..Len(NewStore) :
                   /\ Body(Compact(NewStore), 2 * i - 1) = NewStore[i]
                   /\ IsAdded(Compact(NewStore)[2 * i - 1])
  <2> SUFFICES ASSUME Fits
      PROVE /\ GoodStore(Compact(NewStore))
            /\ Headers(Compact(NewStore)) = {2 * i - 1 : i \in 1..Len(NewStore)}
            /\ End(Compact(NewStore)) = 2 * Len(NewStore) + 1
            /\ Free(Compact(NewStore), 2 * Len(NewStore) + 1)
            /\ \A i \in 1..Len(NewStore) :
                 /\ Body(Compact(NewStore), 2 * i - 1) = NewStore[i]
                 /\ IsAdded(Compact(NewStore)[2 * i - 1])
    OBVIOUS
  <2>1. VarSize * Len(NewStore) <= StoreSize
    BY DEF Fits
  <2> QED BY <1>7, <2>1, CompactGood
<1> QED BY <1>1, <1>2, <1>3, <1>5, <1>6, <1>7, <1>8, <1>9 DEF s

LEMMA ReclaimStore ==
  ASSUME StoreInv, Reclaim PROVE StoreInv'
<1>1. /\ Reclaiming /\ pc' = "idle" /\ track' = NoTrack /\ args' = args
      /\ reply' \in {"none", "success", "full"}
      /\ failures' = failures /\ atRuntime' = atRuntime /\ reclaimed' = reclaimed
      /\ spare' = spare /\ refusing' = refusing
  BY DEF Reclaim, Return, mode, ftw
<1>2. RoomInv' /\ WrittenInv' /\ ArgsInv' /\ TrackInv'
  BY <1>1, IdleInv DEF Appending, Storing, Updating
<1>3. CASE Fits
  <2>1. /\ flash' = Compact(NewStore) /\ cache' = flash'
        /\ total' = 2 * Len(NewStore) /\ last' = 1 + total'
    BY <1>3, SizeFacts DEF Reclaim
  <2>2. /\ GoodStore(Compact(NewStore)) /\ End(Compact(NewStore)) = 2 * Len(NewStore) + 1
        /\ Free(Compact(NewStore), 2 * Len(NewStore) + 1) /\ Len(NewStore) \in Nat
    BY <1>1, <1>3, NewStoreIs
  <2>3. last' = 2 * Len(NewStore) + 1 /\ last' \in Nat /\ total' \in Nat /\ last' <= total' + 1
    BY <2>1, <2>2
  <2>4. LogInv' /\ SyncInv' /\ FreeInv'
    BY <1>1, <2>1, <2>2, <2>3 DEF LogInv, SyncInv, FreeInv
  <2>5. SmallTypes'
    BY <1>1, <2>3, StepNames DEF StoreInv, SmallTypes
  <2> QED BY <1>1, <1>2, <2>1, <2>2, <2>4, <2>5 DEF StoreInv, SpareInv
<1>4. CASE ~Fits
  <2>1. flash' = flash /\ cache' = flash /\ last' = last /\ total' = total
    BY <1>4 DEF Reclaim
  <2>2. pc = "reclaim"
    BY <1>1, <1>4, NewStoreIs
  <2>3. flash = cache
    BY <2>2 DEF StoreInv, SyncInv, Appending
  <2>4. LogInv' /\ SyncInv' /\ FreeInv'
    BY <1>1, <2>1, <2>2, <2>3 DEF StoreInv, LogInv, SyncInv, FreeInv, Starting
  <2>5. SmallTypes'
    BY <1>1, <2>1, StepNames DEF StoreInv, SmallTypes
  <2> QED BY <1>1, <1>2, <2>1, <2>4, <2>5 DEF StoreInv, SpareInv
<1> QED BY <1>3, <1>4

\* What a write that is cut off leaves: some of the bodies, the last of them perhaps not
\* as it should be.
LEMMA CutOffIs ==
  ASSUME NEW b \in Seq(Bodies), NEW c \in CutOff(b)
  PROVE  /\ c \in Seq(Bodies) /\ Len(c) \in Nat /\ Len(c) <= Len(b)
         /\ \A i \in 1..Len(c) : c[i] = b[i] \/ c[i] \in {Erased, Garbled}
                                \/ (c[i] \in Contents /\ c[i].name = b[i].name)
<1>1. CASE c = <<>>
  BY <1>1
<1>2. ASSUME NEW k \in DOMAIN b,
             NEW body \in {Erased, Garbled} \cup {d \in Contents : d.name = b[k].name},
             c = Append(SubSeq(b, 1, k - 1), body)
      PROVE  /\ c \in Seq(Bodies) /\ Len(c) = k
             /\ \A i \in 1..k : i # k => c[i] = b[i]
             /\ c[k] = body
  <2>1. k \in 1..Len(b) /\ Len(b) \in Nat
    OBVIOUS
  <2> DEFINE s == SubSeq(b, 1, k - 1)
  <2>2. s \in Seq(Bodies) /\ Len(s) = k - 1 /\ \A i \in 1..(k - 1) : s[i] = b[i]
    BY <2>1
  <2>3. body \in Bodies
    BY DEF Bodies
  <2> HIDE DEF s
  <2>4. c = Append(s, body)
    BY <1>2 DEF s
  <2> QED BY <2>1, <2>2, <2>3, <2>4
<1>3. CASE c # <<>>
  <2>1. PICK k \in DOMAIN b :
          \E body \in {Erased, Garbled} \cup {d \in Contents : d.name = b[k].name} :
            c = Append(SubSeq(b, 1, k - 1), body)
    BY <1>3 DEF CutOff
  <2>2. PICK body \in {Erased, Garbled} \cup {d \in Contents : d.name = b[k].name} :
          c = Append(SubSeq(b, 1, k - 1), body)
    BY <2>1
  <2>3. /\ c \in Seq(Bodies) /\ Len(c) = k
        /\ \A i \in 1..k : i # k => c[i] = b[i]
        /\ c[k] = body
    BY <1>2, <2>2
  <2>4. k \in 1..Len(b) /\ Len(b) \in Nat
    OBVIOUS
  <2> QED BY <2>2, <2>3, <2>4
<1> QED BY <1>1, <1>3

\* The store behind a failed write of a new store can be walked.
LEMMA TornGood ==
  ASSUME StoreInv, Reclaiming, Fits, pc # "reclaimAtBoot", NEW store \in Torn
  PROVE  GoodStore(store) /\ Free(store, End(store))
<1>1. NewStore \in Seq(Bodies) /\ Len(NewStore) \in Nat /\ 2 * Len(NewStore) <= StoreSize
  BY NewStoreIs, SizeFacts DEF Fits
<1>2. CASE store = flash
  BY <1>2 DEF StoreInv, SyncInv, LogInv, FreeInv, Reclaiming, Starting, Appending
<1>3. ASSUME NEW c \in CutOff(NewStore), store = Compact(c)
      PROVE  GoodStore(store) /\ Free(store, End(store))
  <2>1. c \in Seq(Bodies) /\ Len(c) \in Nat /\ Len(c) <= Len(NewStore)
    BY <1>1, CutOffIs
  <2>2. VarSize * Len(c) <= StoreSize
    BY <1>1, <2>1, SizeFacts
  <2> QED BY <1>3, <2>1, <2>2, CompactGood
<1> QED BY <1>2, <1>3 DEF Torn

LEMMA WriteFailedStore ==
  ASSUME StoreInv, NEW store, WriteFailed(store), GoodStore(store), Free(store, End(store)),
         SpareInv', refusing' \in BOOLEAN, failures' \in 0..MaxFailures
  PROVE  StoreInv'
<1>1. /\ pc' = "idle" /\ track' = NoTrack
      /\ args' = args /\ reply' \in {"failed", "none"}
      /\ atRuntime' = atRuntime /\ reclaimed' = reclaimed
      /\ flash' = store /\ cache' = store /\ last' = End(store) /\ total' = total + End(store) - 1
  BY DEF WriteFailed, Return
<1>2. RoomInv' /\ WrittenInv' /\ ArgsInv' /\ TrackInv'
  BY <1>1, IdleInv DEF Appending, Storing, Updating
<1>3. End(store) \in Nat /\ End(store) >= 1
  BY WalkFacts
<1>4. last' \in Nat /\ total' \in Nat /\ last' <= total' + 1
  <2>1. total \in Nat
    BY DEF StoreInv, SmallTypes
  <2> QED BY <1>1, <1>3, <2>1
<1>5. LogInv' /\ SyncInv' /\ FreeInv'
  BY <1>1, <1>4 DEF LogInv, SyncInv, FreeInv
<1>6. SmallTypes'
  BY <1>1, <1>4, StepNames DEF StoreInv, SmallTypes
<1> QED BY <1>1, <1>2, <1>5, <1>6 DEF StoreInv

LEMMA FewerFailures ==
  ASSUME StoreInv, failures > 0, failures' = failures - 1
  PROVE  failures' \in 0..MaxFailures /\ failures' < MaxFailures
BY DriverAssumption DEF StoreInv, SmallTypes

LEMMA ReclaimFaultStore ==
  ASSUME StoreInv, ReclaimFault PROVE StoreInv'
<1>1. PICK store \in {flash, Compact(NewStore)} : WriteFailed(store)
  BY DEF ReclaimFault
<1>2. /\ spare' = spare /\ refusing' \in BOOLEAN
      /\ ~refusing /\ failures > 0 /\ failures' = failures - 1
  BY DEF ReclaimFault
<1>3. Reclaiming /\ Fits /\ pc # "reclaimAtBoot"
  BY <1>1 DEF WriteFailed, Reclaiming
<1>4. GoodStore(store) /\ Free(store, End(store))
  <2>1. CASE store = flash
    BY <1>3, <2>1, TornGood DEF Torn
  <2>2. CASE store = Compact(NewStore)
    BY <1>3, <2>2, NewStoreIs
  <2> QED BY <2>1, <2>2
<1>5. SpareInv'
  BY <1>2, FewerFailures DEF StoreInv, SpareInv
<1> QED BY <1>1, <1>2, <1>4, <1>5, FewerFailures, WriteFailedStore

LEMMA FlushFaultStore ==
  ASSUME StoreInv, FlushFault PROVE StoreInv'
<1>1. PICK store \in Torn : WriteFailed(store)
  BY DEF FlushFault
<1>2. /\ spare' = Compact(NewStore) /\ refusing' = TRUE
      /\ failures > 0 /\ failures' = failures - 1
  BY DEF FlushFault
<1>3. Reclaiming /\ Fits /\ pc # "reclaimAtBoot"
  BY <1>1 DEF WriteFailed, Reclaiming
<1>4. SpareInv'
  BY <1>2, <1>3, FewerFailures, NewStoreIs DEF SpareInv
<1> QED BY <1>1, <1>2, <1>3, <1>4, FewerFailures, TornGood, WriteFailedStore

LEMMA WriteRefusedStore ==
  ASSUME StoreInv, WriteRefused PROVE StoreInv'
<1>1. /\ WriteFailed(flash) /\ spare' = spare /\ refusing' = refusing /\ failures' = failures
  BY DEF WriteRefused, ftw
<1>2. Reclaiming /\ Fits /\ pc # "reclaimAtBoot"
  BY <1>1 DEF WriteFailed, Reclaiming
<1>3. GoodStore(flash) /\ Free(flash, End(flash))
  BY <1>2, TornGood DEF Torn
<1>4. SpareInv' /\ refusing' \in BOOLEAN /\ failures' \in 0..MaxFailures
  BY <1>1 DEF StoreInv, SpareInv, SmallTypes
<1> QED BY <1>1, <1>3, <1>4, WriteFailedStore

LEMMA ReclaimForOSStore ==
  ASSUME StoreInv, ReclaimForOS PROVE StoreInv'
<1>1. /\ pc = "idle" /\ pc' \in {"reclaimForOS", "idle"} /\ args' = args /\ track' = track
      /\ reply' = reply /\ flash' = flash /\ cache' = cache /\ last' = last /\ total' = total
      /\ failures' = failures /\ atRuntime' = atRuntime /\ reclaimed' = TRUE
      /\ spare' = spare /\ refusing' = refusing
  BY DEF ReclaimForOS, Goto, call, memory, ftw
<1>2. track' = NoTrack
  BY <1>1, StepNames DEF StoreInv, TrackInv
<1>3. RoomInv' /\ WrittenInv' /\ ArgsInv' /\ TrackInv'
  BY <1>1, <1>2, IdleInv DEF Appending, Storing, Updating
<1>4. LogInv' /\ SyncInv' /\ FreeInv'
  BY <1>1 DEF StoreInv, LogInv, SyncInv, FreeInv, Appending, Starting
<1>5. SmallTypes'
  BY <1>1, StepNames DEF StoreInv, SmallTypes
<1> QED BY <1>1, <1>3, <1>4, <1>5 DEF StoreInv, SpareInv

LEMMA InitStoreStore ==
  ASSUME StoreInv, InitStore PROVE StoreInv'
<1>1. /\ pc = "boot" /\ pc' = "writeService" /\ args' = args /\ track' = track
      /\ reply' = reply /\ flash' = flash /\ cache' = flash
      /\ last' = End(flash) /\ total' = End(flash) - 1
      /\ failures' = failures /\ atRuntime' = atRuntime /\ reclaimed' = reclaimed
      /\ spare' = spare /\ refusing' = refusing
  BY DEF InitStore, Goto, call, mode, ftw
<1>2. track' = NoTrack
  BY <1>1, StepNames DEF StoreInv, TrackInv
<1>3. RoomInv' /\ WrittenInv' /\ ArgsInv' /\ TrackInv'
  BY <1>1, <1>2, IdleInv DEF Appending, Storing, Updating
<1>4. last' \in Nat /\ total' \in Nat /\ last' <= total' + 1
  BY <1>1, WalkFacts
<1>5. LogInv' /\ SyncInv' /\ FreeInv'
  BY <1>1, <1>4 DEF LogInv, SyncInv, FreeInv, Starting
<1>6. SmallTypes'
  BY <1>1, <1>4, StepNames DEF StoreInv, SmallTypes
<1> QED BY <1>1, <1>3, <1>5, <1>6 DEF StoreInv, SpareInv

LEMMA WriteServiceInitializeStore ==
  ASSUME StoreInv, WriteServiceInitialize PROVE StoreInv'
<1>1. /\ pc = "writeService" /\ args' = args /\ track' = track
      /\ pc' = IF Free(cache, last) THEN "idle" ELSE "reclaimAtBoot"
      /\ reply' = reply /\ flash' = flash /\ cache' = cache /\ last' = last /\ total' = total
      /\ failures' = failures /\ atRuntime' = atRuntime /\ reclaimed' = reclaimed
      /\ spare' = spare /\ refusing' = refusing
  BY DEF WriteServiceInitialize, Goto, call, mode, ftw, memory, Free
<1>2. track' = NoTrack
  BY <1>1, StepNames DEF StoreInv, TrackInv
<1>3. RoomInv' /\ WrittenInv' /\ ArgsInv' /\ TrackInv'
  BY <1>1, <1>2, IdleInv DEF Appending, Storing, Updating
<1>4. LogInv' /\ SyncInv'
  BY <1>1 DEF StoreInv, LogInv, SyncInv, Appending
<1>5. FreeInv'
  BY <1>1 DEF FreeInv, Starting
<1>6. SmallTypes'
  BY <1>1, StepNames DEF StoreInv, SmallTypes
<1> QED BY <1>1, <1>3, <1>4, <1>5, <1>6 DEF StoreInv, SpareInv

LEMMA FaultStore ==
  ASSUME StoreInv, Fault, AppendNeverFails PROVE StoreInv'
<1>1. /\ pc \in Faulty \ {"reclaim", "reclaimForOS"} /\ failures > 0
      /\ pc' = "idle" /\ reply' = "failed" /\ args' = args /\ track' = NoTrack
      /\ flash' = flash /\ cache' = cache /\ last' = last /\ total' = total
      /\ failures' = failures - 1 /\ atRuntime' = atRuntime /\ reclaimed' = reclaimed
      /\ spare' = spare /\ refusing' = refusing
  BY DEF Fault, Return, mode, ftw, memory
<1>2. pc \notin Starting \cup Appending
  BY <1>1, FaultySteps DEF AppendNeverFails, Starting, Appending
<1>3. RoomInv' /\ WrittenInv' /\ ArgsInv' /\ TrackInv'
  BY <1>1, IdleInv DEF Appending, Storing, Updating
<1>4. LogInv' /\ SyncInv' /\ FreeInv'
  BY <1>1, <1>2 DEF StoreInv, LogInv, SyncInv, FreeInv, Starting
<1>5. failures' \in 0..MaxFailures /\ failures' < MaxFailures
  BY <1>1, FewerFailures
<1>6. SmallTypes'
  BY <1>1, <1>5, StepNames DEF StoreInv, SmallTypes
<1> QED BY <1>1, <1>3, <1>4, <1>5, <1>6 DEF StoreInv, SpareInv

\* What a power failure leaves of a header and of name and data.
GarbledHeader == [flash EXCEPT ![last].body = Garbled]
BareHeader    == [flash EXCEPT ![last].start = TRUE]
GarbledBody   == [flash EXCEPT ![last + 1].body = Garbled]

LEMMA RemainsAre ==
  ASSUME NEW s \in Remains
  PROVE  /\ pc = "header" => s \in {flash, GarbledHeader, BareHeader}
         /\ pc = "data" => s \in {flash, GarbledBody}
         /\ Reclaiming => s = flash \/ (Fits /\ ~refusing /\ s = Compact(NewStore))
         /\ pc # "header" /\ pc # "data" /\ ~Reclaiming => s = flash
<1>1. s \in (CASE pc = "header" -> {flash, GarbledHeader, BareHeader}
               [] pc = "data"   -> {flash, GarbledBody}
               [] Reclaiming    -> {flash} \cup
                                      (IF Fits /\ ~refusing THEN {Compact(NewStore)} ELSE {})
               [] OTHER         -> {flash})
  BY DEF Remains, GarbledHeader, BareHeader, GarbledBody
<1>2. Reclaiming => pc # "header" /\ pc # "data"
  BY DEF Reclaiming
<1> QED BY <1>1, <1>2

\* It is the old store or the new one, or the cache with two units written that
\* are not a variable.
LEMMA RemainsPut ==
  ASSUME StoreInv, NEW s \in Remains
  PROVE  \/ s = flash
         \/ Reclaiming /\ Fits /\ ~refusing /\ s = Compact(NewStore)
         \/ /\ pc \in {"header"} \cup Appending
            /\ \E u, v \in Unit : s = Put(cache, last, u, v) /\ ~v.start /\ ~IsCopy(u)
<1>1. ASSUME pc = "header", s # flash
      PROVE  \E u, v \in Unit : s = Put(cache, last, u, v) /\ ~v.start /\ ~IsCopy(u)
  <2>1. s \in {GarbledHeader, BareHeader}
    BY <1>1, RemainsAre
  <2>2. flash = cache
    BY <1>1 DEF StoreInv, SyncInv, Appending
  <2>3. /\ last \in Offset /\ last + 1 \in Offset /\ cache \in Store
        /\ cache[last] = ErasedUnit /\ cache[last + 1] = ErasedUnit
    BY <1>1, AppendsAt
  <2>4. ErasedUnit \in Unit /\ ~ErasedUnit.start
    BY UnitFacts
  <2>5. CASE s = GarbledHeader
    <3> DEFINE u == BodyUnit(Garbled)
    <3>1. s = [cache EXCEPT ![last] = u]
      BY <2>2, <2>3, <2>5 DEF BodyUnit, GarbledHeader
    <3>2. u \in Unit /\ ~IsCopy(u)
      BY UnitFacts, StateFacts DEF IsCopy
    <3> HIDE DEF u
    <3>3. s = Put(cache, last, u, ErasedUnit)
      BY <2>3, <3>1, PutOne
    <3> QED BY <2>4, <3>2, <3>3
  <2>6. CASE s = BareHeader
    <3> DEFINE u == HeaderUnit({})
    <3>1. s = [cache EXCEPT ![last] = u]
      <4>1. s = [cache EXCEPT ![last] = [cache[last] EXCEPT !.start = TRUE]]
        BY <2>2, <2>6 DEF BareHeader
      <4> QED BY <2>3, <4>1, BitSets, HeaderBits
    <3>2. u \in Unit /\ ~IsCopy(u)
      BY UnitFacts, BitSets, StateFacts DEF IsCopy
    <3> HIDE DEF u
    <3>3. s = Put(cache, last, u, ErasedUnit)
      BY <2>3, <3>1, PutOne
    <3> QED BY <2>4, <3>2, <3>3
  <2> QED BY <2>1, <2>5, <2>6
<1>2. ASSUME pc = "data", s # flash
      PROVE  \E u, v \in Unit : s = Put(cache, last, u, v) /\ ~v.start /\ ~IsCopy(u)
  <2>1. s = GarbledBody
    BY <1>2, RemainsAre
  <2>2. last \in Offset /\ last + 1 \in Offset /\ cache \in Store
    BY <1>2, AppendsAt DEF Appending
  <2>3. PICK u, v \in Unit : flash = Put(cache, last, u, v) /\ v = flash[last + 1] /\ ~IsCopy(u)
                             /\ v = ErasedUnit
    BY <1>2, FlashAhead DEF Appending
  <2>4. GarbledBody = [flash EXCEPT ![last + 1] = BodyUnit(Garbled)]
    <3>1. flash[last + 1] = ErasedUnit
      BY <2>3
    <3> QED BY <3>1 DEF BodyUnit, GarbledBody
  <2>5. GarbledBody = Put(cache, last, u, BodyUnit(Garbled))
    BY <2>2, <2>3, <2>4, PutAgain
  <2>6. BodyUnit(Garbled) \in Unit /\ ~BodyUnit(Garbled).start
    BY UnitFacts
  <2> QED BY <2>1, <2>3, <2>5, <2>6
<1> QED BY <1>1, <1>2, RemainsAre DEF Appending

\* A store with two units behind the log that are not a variable.
LEMMA RemainsGood ==
  ASSUME StoreInv, NEW s \in Remains PROVE GoodStore(s)
<1>1. CASE s = flash
  BY <1>1 DEF StoreInv
<1>2. CASE Reclaiming /\ Fits /\ s = Compact(NewStore)
  BY <1>2, NewStoreIs
<1>3. ASSUME pc \in {"header"} \cup Appending,
             NEW u \in Unit, NEW v \in Unit, s = Put(cache, last, u, v), ~v.start, ~IsCopy(u)
      PROVE  GoodStore(s)
  <2>1. last = End(cache) /\ GoodStore(cache) /\ Free(cache, last) /\ last + 1 <= StoreSize
    BY <1>3, AppendsAt
  <2> QED BY <1>3, <2>1, PutGood
<1> QED BY <1>1, <1>2, <1>3, RemainsPut

\* A start forgets everything but the flash.
LEMMA RestartStore ==
  ASSUME GoodStore(flash'), failures' \in 0..MaxFailures, Restart PROVE StoreInv'
<1>1. /\ pc' = "boot" /\ args' = NoArgs /\ track' = NoTrack /\ reply' = "none"
      /\ cache' = ErasedStore /\ last' = 1 /\ total' = 0
      /\ atRuntime' = FALSE /\ reclaimed' = FALSE /\ spare' = NoSpare /\ refusing' = FALSE
  BY DEF Restart
<1>2. RoomInv' /\ WrittenInv' /\ ArgsInv' /\ TrackInv'
  BY <1>1, IdleInv DEF Appending, Storing, Updating
<1>3. LogInv' /\ SyncInv' /\ FreeInv'
  BY <1>1 DEF LogInv, SyncInv, FreeInv, Starting
<1>4. SmallTypes'
  BY <1>1, NoTrackFacts, StepNames DEF SmallTypes
<1> QED BY <1>1, <1>2, <1>3, <1>4, ErasedGood DEF StoreInv, SpareInv

LEMMA PowerCutStore ==
  ASSUME StoreInv, PowerCut PROVE StoreInv'
<1>1. GoodStore(flash')
  BY RemainsGood DEF PowerCut, StoreInv, SpareInv
<1>2. failures' \in 0..MaxFailures
  BY DriverAssumption DEF StoreInv, SmallTypes, PowerCut
<1> QED BY <1>1, <1>2, RestartStore DEF PowerCut

LEMMA ResetStore ==
  ASSUME StoreInv, Reset PROVE StoreInv'
<1>1. GoodStore(flash') /\ failures' \in 0..MaxFailures
  BY DEF Reset, AtRestart, StoreInv, SpareInv, SmallTypes
<1> QED BY <1>1, RestartStore DEF Reset

LEMMA ExitBootServicesStore ==
  ASSUME StoreInv, ExitBootServices PROVE StoreInv'
<1>1. /\ pc = "idle" /\ pc' = "idle" /\ args' = args /\ track' = track /\ reply' = reply
      /\ flash' = flash /\ cache' = cache /\ last' = last /\ total' = total
      /\ failures' = failures /\ atRuntime' = TRUE /\ reclaimed' = reclaimed
      /\ spare' = spare /\ refusing' = refusing
  BY DEF ExitBootServices, call, memory, ftw
<1> QED BY <1>1 DEF StoreInv, SpareInv, SmallTypes, LogInv, SyncInv, FreeInv, RoomInv, WrittenInv, ArgsInv,
        TrackInv

LEMMA InitStoreInv ==
  ASSUME Init PROVE StoreInv
<1>1. /\ pc = "boot" /\ args = NoArgs /\ track = NoTrack /\ reply = "none"
      /\ flash = ErasedStore /\ cache = ErasedStore /\ last = 1 /\ total = 0
      /\ atRuntime = FALSE /\ reclaimed = FALSE /\ failures = MaxFailures
      /\ spare = NoSpare /\ refusing = FALSE
  BY DEF Init
<1>2. RoomInv /\ WrittenInv /\ ArgsInv /\ TrackInv
  BY <1>1, NoTrackFacts, StepNames
     DEF RoomInv, WrittenInv, ArgsInv, TrackInv, Appending, Storing
<1>3. LogInv /\ SyncInv /\ FreeInv
  BY <1>1 DEF LogInv, SyncInv, FreeInv, Starting
<1>4. failures \in 0..MaxFailures
  BY <1>1, DriverAssumption
<1>5. SmallTypes
  BY <1>1, <1>4, NoTrackFacts, StepNames DEF SmallTypes
<1> QED BY <1>1, <1>2, <1>3, <1>5, ErasedGood DEF StoreInv, SpareInv

LEMMA NextStore ==
  ASSUME StoreInv, AppendNeverFails, [Next]_vars PROVE StoreInv'
<1>1. CASE UNCHANGED vars
  <2>1. /\ pc' = pc /\ args' = args /\ track' = track /\ reply' = reply
        /\ flash' = flash /\ cache' = cache /\ last' = last /\ total' = total
        /\ failures' = failures /\ atRuntime' = atRuntime /\ reclaimed' = reclaimed
        /\ spare' = spare /\ refusing' = refusing
    BY <1>1 DEF vars, memory, call, mode, ftw
  <2> QED BY <2>1 DEF StoreInv, SpareInv, SmallTypes, LogInv, SyncInv, FreeInv, RoomInv, WrittenInv, ArgsInv,
          TrackInv
<1>2. CASE DriverStep
  BY <1>2, MarkStore, CheckSpaceStore, WriteHeaderStore, WriteHeaderValidStore, WriteDataStore,
     WriteAddedStore, DeleteInDeletedStore, DeleteCurrStore, ReclaimStore, InitStoreStore,
     WriteServiceInitializeStore DEF DriverStep, UpdateStep
<1>3. CASE \E n \in Name, v \in Value \cup {NoValue} : SetVariable(n, v)
  BY <1>3, SetVariableStore
<1>4. CASE ReclaimForOS \/ ExitBootServices \/ Reset \/ Fault \/ ReclaimFault
          \/ FlushFault \/ WriteRefused \/ PowerCut
  BY <1>4, ReclaimForOSStore, ExitBootServicesStore, ResetStore, FaultStore, ReclaimFaultStore,
     FlushFaultStore, WriteRefusedStore, PowerCutStore
<1> QED BY <1>1, <1>2, <1>3, <1>4 DEF Next

-----------------------------------------------------------------------------
(* What VarRecovery promises of the two stores, for every size of the       *)
(* store, every set of variables and any number of failures: as long as no  *)
(* flash error comes between the accesses of an append.                     *)

\* The stores can be walked, the one in the spare block included, and outside an append
\* the cache is the flash, nothing is written behind NonVolatileLastVariableOffset, and
\* CommonVariableTotalSize is not too small: UpdateVariable, Reclaim and the start of
\* the driver keep it so.  After a failed FtwProtocol->Write the total may be too large.
THEOREM StoreInvariant ==
  ASSUME AppendNeverFails PROVE Spec => []StoreInv
<1>1. Init => StoreInv
  BY InitStoreInv
<1>2. StoreInv /\ [Next]_vars => StoreInv'
  BY NextStore
<1> QED BY <1>1, <1>2, PTL DEF Spec

\* No offset leaves the store, a header is written only where its variable has
\* room, and VARIABLE_POINTER_TRACK points to headers of the flash.
THEOREM VarTypeCorrect ==
  ASSUME AppendNeverFails PROVE Spec => []VarTypeOK
<1>1. StoreInv => VarTypeOK
  <2> SUFFICES ASSUME StoreInv PROVE VarTypeOK
    OBVIOUS
  <2>1. flash \in Store /\ cache \in Store /\ total \in Nat /\ pc \in Step
        /\ args \in [name : Name, value : Value \cup {NoValue}]
        /\ reply \in {"none", "success", "failed", "full"}
        /\ atRuntime \in BOOLEAN /\ reclaimed \in BOOLEAN /\ failures \in 0..MaxFailures
        /\ spare \in Store \cup {NoSpare} /\ refusing \in BOOLEAN
    BY DEF StoreInv, SpareInv, GoodStore, SmallTypes
  <2>2. last \in 1..(StoreSize + 1)
    <3>1. last = 1 \/ last = End(cache)
      BY DEF StoreInv, LogInv
    <3>2. End(cache) \in Nat /\ End(cache) >= 1 /\ End(cache) <= StoreSize + 1
      BY WalkFacts DEF StoreInv, GoodStore
    <3> QED BY <3>1, <3>2, SizeFacts
  <2>3. {track.curr, track.inDeleted} \subseteq Headers(flash) \cup {0}
    <3>1. {track.curr, track.inDeleted} \subseteq Headers(cache) \cup {0}
      BY DEF StoreInv, TrackInv
    <3>2. CASE pc = "boot"
      BY <3>2, StepNames, NoTrackFacts DEF StoreInv, TrackInv
    <3>3. CASE pc \in Appending
      BY <3>1, <3>3, FlashAhead
    <3>4. CASE pc \notin {"boot"} \cup Appending
      BY <3>1, <3>4 DEF StoreInv, SyncInv
    <3> QED BY <3>2, <3>3, <3>4
  <2>4. pc \in {"header", "headerValid", "data", "added"} => last + 1 \in Offset
    BY AppendsAt DEF Appending
  <2> QED BY <2>1, <2>2, <2>3, <2>4 DEF VarTypeOK
<1> QED BY <1>1, StoreInvariant, PTL

\* Whenever a service can be called, GetVariable reads in the cache what the store
\* holds, whatever a failed FtwProtocol->Write has left of it.
THEOREM CacheCorrect ==
  ASSUME AppendNeverFails PROVE Spec => []CacheIsFlash
<1>1. StoreInv => CacheIsFlash
  BY DEF StoreInv, SyncInv, Appending, CacheIsFlash
<1> QED BY <1>1, StoreInvariant, PTL

\* UpdateVariable writes a header only where everything behind it is erased in
\* the flash, and name and data only where nothing was written.
THEOREM AppendsCorrect ==
  ASSUME AppendNeverFails PROVE Spec => []AppendsErased
<1>1. StoreInv => AppendsErased
  <2> SUFFICES ASSUME StoreInv PROVE AppendsErased
    OBVIOUS
  <2>1. pc = "header" => \A p \in Offset : p >= last => flash[p] = ErasedUnit
    BY DEF StoreInv, SyncInv, FreeInv, Free, Appending, Starting
  <2>2. ASSUME pc = "data" PROVE flash[last + 1].body = Erased
    <3>1. flash[last + 1] = ErasedUnit
      <4>1. PICK u, v \in Unit : v = flash[last + 1] /\ (pc = "data" => v = ErasedUnit)
        BY <2>2, FlashAhead DEF Appending
      <4> QED BY <2>2, <4>1
    <3> QED BY <3>1, UnitFacts
  <2> QED BY <2>1, <2>2 DEF AppendsErased
<1> QED BY <1>1, StoreInvariant, PTL

-----------------------------------------------------------------------------
(* What the changes of a store do to the copies of a variable.              *)

LEMMA CopyIs ==
  ASSUME NEW s, NEW n, NEW p
  PROVE  /\ p \in Copies(s, n) <=> /\ p \in Headers(s) /\ IsCopy(s[p])
                                   /\ Body(s, p) \in Contents /\ Body(s, p).name = n
         /\ p \in Added(s, n) <=> p \in Copies(s, n) /\ IsAdded(s[p])
         /\ p \in Deleted(s, n) <=> p \in Copies(s, n) /\ IsInDeleted(s[p])
         /\ p \in Copies(s, n) <=> p \in Added(s, n) \/ p \in Deleted(s, n)
         /\ ~(p \in Added(s, n) /\ p \in Deleted(s, n))
BY StateFacts DEF Copies, Added, Deleted, IsCopy

\* t has the variables of s.
Extended(s, t) ==
  /\ \A q \in Headers(s) : q \in Headers(t) /\ t[q] = s[q]
  /\ \A q \in Headers(s) : s[q].state # {} => Body(t, q) = Body(s, q)
  /\ \A q \in Headers(t) : q \notin Headers(s) => ~IsCopy(t[q])

SameCopies(s, t) ==
  \A n : /\ Copies(t, n) = Copies(s, n) /\ Added(t, n) = Added(s, n)
         /\ Deleted(t, n) = Deleted(s, n)
         /\ \A p \in Copies(s, n) : Body(t, p) = Body(s, p)

LEMMA ExtendedCopies ==
  ASSUME NEW s, NEW t, Extended(s, t)
  PROVE  SameCopies(s, t)
<1>1. ASSUME NEW n, NEW p PROVE (p \in Copies(t, n) <=> p \in Copies(s, n))
        /\ (p \in Copies(s, n) => Body(t, p) = Body(s, p) /\ t[p] = s[p])
  <2>1. p \in Copies(s, n) => p \in Copies(t, n) /\ Body(t, p) = Body(s, p) /\ t[p] = s[p]
    BY CopyIs, StateFacts DEF Extended, IsCopy
  <2>2. p \in Copies(t, n) => p \in Copies(s, n)
    BY CopyIs, StateFacts DEF Extended, IsCopy
  <2> QED BY <2>1, <2>2
<1>2. ASSUME NEW n, NEW p PROVE (p \in Added(t, n) <=> p \in Added(s, n))
                            /\ (p \in Deleted(t, n) <=> p \in Deleted(s, n))
  BY <1>1, CopyIs
<1>3. \A n : Added(s, n) \subseteq Copies(s, n)
  BY CopyIs
<1>4. ASSUME NEW n PROVE Copies(t, n) = Copies(s, n) /\ Added(t, n) = Added(s, n)
                         /\ Deleted(t, n) = Deleted(s, n)
  BY <1>1, <1>2
<1> QED BY <1>1, <1>4 DEF SameCopies

LEMMA PutExtended ==
  ASSUME NEW s, GoodStore(s), NEW e, e = End(s), Free(s, e), e + 1 <= StoreSize,
         NEW u \in Unit, NEW v \in Unit, ~v.start, ~IsCopy(u)
  PROVE  Extended(s, Put(s, e, u, v))
<1> DEFINE t == Put(s, e, u, v)
<1>1. /\ Headers(t) = Headers(s) \cup (IF u.start THEN {e} ELSE {})
      /\ \A q \in Headers(s) : t[q] = s[q]
      /\ \A q \in Headers(s) : s[q].state # {} => Body(t, q) = Body(s, q)
  BY PutGood
<1>2. e \in Offset /\ e + 1 \in Offset /\ s \in Store
  BY SizeFacts, WalkFacts DEF GoodStore
<1>3. t[e] = u
  BY <1>2, PutIs
<1> HIDE DEF t
<1>4. \A q \in Headers(t) : q \notin Headers(s) => ~IsCopy(t[q])
  BY <1>1, <1>3
<1> QED BY <1>1, <1>4 DEF Extended, t

\* During an append the flash has the variables of the cache; so has what is
\* left of the append by a power failure.
LEMMA AppendCopies ==
  ASSUME StoreInv, pc # "boot" PROVE SameCopies(cache, flash)
<1>1. CASE pc \in Appending
  <2>1. last = End(cache) /\ GoodStore(cache) /\ Free(cache, last) /\ last + 1 <= StoreSize
    BY <1>1, AppendsAt
  <2>2. PICK u, v \in Unit : flash = Put(cache, last, u, v) /\ ~v.start /\ ~IsCopy(u)
    BY <1>1, FlashAhead
  <2> QED BY <2>1, <2>2, PutExtended, ExtendedCopies
<1>2. CASE pc \notin Appending
  BY <1>2 DEF StoreInv, SyncInv, SameCopies
<1> QED BY <1>1, <1>2

LEMMA RemainsCopies ==
  ASSUME StoreInv, NEW s \in Remains
  PROVE  SameCopies(flash, s) \/ (Reclaiming /\ Fits /\ ~refusing /\ s = Compact(NewStore))
<1>1. CASE s = flash
  BY <1>1 DEF SameCopies
<1>2. ASSUME pc \in {"header"} \cup Appending,
             NEW u \in Unit, NEW v \in Unit, s = Put(cache, last, u, v), ~v.start, ~IsCopy(u)
      PROVE  SameCopies(flash, s)
  <2>1. last = End(cache) /\ GoodStore(cache) /\ Free(cache, last) /\ last + 1 <= StoreSize
    BY <1>2, AppendsAt
  <2>2. SameCopies(cache, s)
    BY <1>2, <2>1, PutExtended, ExtendedCopies
  <2>3. SameCopies(cache, flash)
    BY <1>2, AppendCopies DEF Appending
  <2> QED BY <2>2, <2>3 DEF SameCopies
<1> QED BY <1>1, <1>2, RemainsPut

\* One header changes its State.
LEMMA ChangeCopies ==
  ASSUME NEW s, NEW t, NEW p, Headers(t) = Headers(s), p \in Headers(s),
         \A q \in Headers(s) : q # p => t[q] = s[q],
         \A q \in Headers(s) : Body(t, q) = Body(s, q), NEW n
  PROVE  /\ IsInDeleted(t[p]) /\ p \in Copies(s, n) =>
              Added(t, n) = Added(s, n) \ {p} /\ Deleted(t, n) = Deleted(s, n) \cup {p}
         /\ IsInDeleted(t[p]) /\ IsCopy(s[p]) /\ p \notin Copies(s, n) =>
              Added(t, n) = Added(s, n) /\ Deleted(t, n) = Deleted(s, n)
         /\ ~IsCopy(t[p]) =>
              Added(t, n) = Added(s, n) \ {p} /\ Deleted(t, n) = Deleted(s, n) \ {p}
<1>1. \A q : q # p => /\ q \in Added(t, n) <=> q \in Added(s, n)
                      /\ q \in Deleted(t, n) <=> q \in Deleted(s, n)
  BY CopyIs
<1>2. ~IsCopy(t[p]) => p \notin Added(t, n) /\ p \notin Deleted(t, n)
  BY CopyIs
<1>3. IsInDeleted(t[p]) => p \notin Added(t, n)
  BY StateFacts, CopyIs
<1>4. IsInDeleted(t[p]) /\ p \in Copies(s, n) => p \in Deleted(t, n)
  BY CopyIs DEF IsCopy
<1>5. IsInDeleted(t[p]) /\ IsCopy(s[p]) /\ p \notin Copies(s, n) =>
        p \notin Deleted(t, n) /\ p \notin Added(s, n) /\ p \notin Deleted(s, n)
  BY CopyIs
<1>6. ASSUME IsInDeleted(t[p]), p \in Copies(s, n)
      PROVE Added(t, n) = Added(s, n) \ {p} /\ Deleted(t, n) = Deleted(s, n) \cup {p}
  BY <1>1, <1>3, <1>4, <1>6
<1>7. ASSUME IsInDeleted(t[p]), IsCopy(s[p]), p \notin Copies(s, n)
      PROVE Added(t, n) = Added(s, n) /\ Deleted(t, n) = Deleted(s, n)
  BY <1>1, <1>3, <1>5, <1>7
<1>8. ASSUME ~IsCopy(t[p])
      PROVE Added(t, n) = Added(s, n) \ {p} /\ Deleted(t, n) = Deleted(s, n) \ {p}
  BY <1>1, <1>2, <1>8
<1> QED BY <1>6, <1>7, <1>8

\* The new variable of an append.
LEMMA AddCopies ==
  ASSUME StoreInv, WriteAdded, NEW n
  PROVE  /\ Deleted(flash', n) = Deleted(flash, n)
         /\ n = args.name => Added(flash', n) = Added(flash, n) \cup {last}
         /\ n # args.name => Added(flash', n) = Added(flash, n)
         /\ \A p \in Copies(flash, n) : Body(flash', p) = Body(flash, p) /\ p < last
         /\ Body(flash', last) = args /\ last \in Headers(flash')
<1>1. /\ Headers(flash') = Headers(cache) \cup {last}
      /\ last \notin Headers(cache) /\ \A q \in Headers(cache) : q < last
      /\ \A q \in Headers(cache) : flash'[q] = cache[q]
      /\ \A q \in Headers(cache) : cache[q].state # {} => Body(flash', q) = Body(cache, q)
      /\ Body(flash', last) = args /\ IsAdded(flash'[last]) /\ args \in Contents
  BY AddedIs
<1>2. SameCopies(cache, flash)
  BY AppendCopies DEF WriteAdded
<1>3. ASSUME NEW p, p # last
      PROVE  /\ p \in Copies(flash', n) <=> p \in Copies(cache, n)
             /\ p \in Copies(cache, n) => flash'[p] = cache[p] /\ Body(flash', p) = Body(cache, p)
  <2>1. p \in Copies(cache, n) => /\ p \in Headers(cache) /\ IsCopy(cache[p])
                                  /\ cache[p].state # {}
    BY CopyIs, StateFacts DEF IsCopy
  <2>2. p \in Copies(flash', n) => p \in Headers(cache) /\ IsCopy(cache[p]) /\ cache[p].state # {}
    BY <1>1, <1>3, CopyIs, StateFacts DEF IsCopy
  <2> QED BY <1>1, <2>1, <2>2, CopyIs
<1>4. last \notin Copies(cache, n) /\ ~IsInDeleted(flash'[last])
      /\ (last \in Copies(flash', n) <=> n = args.name)
  BY <1>1, CopyIs, StateFacts DEF IsCopy
<1>5. \A p : p # last => /\ p \in Added(flash', n) <=> p \in Added(cache, n)
                         /\ p \in Deleted(flash', n) <=> p \in Deleted(cache, n)
  BY <1>3, CopyIs
<1>6. /\ last \notin Added(cache, n) /\ last \notin Deleted(cache, n)
      /\ last \notin Deleted(flash', n)
      /\ last \in Added(flash', n) <=> n = args.name
  BY <1>1, <1>4, CopyIs
<1>7. Deleted(flash', n) = Deleted(cache, n)
  BY <1>5, <1>6
<1>8. n = args.name => Added(flash', n) = Added(cache, n) \cup {last}
  BY <1>5, <1>6
<1>9. n # args.name => Added(flash', n) = Added(cache, n)
  BY <1>5, <1>6
<1>10. \A p \in Copies(cache, n) : Body(flash', p) = Body(cache, p) /\ p < last
  BY <1>1, <1>3, <1>4, CopyIs
<1> QED BY <1>1, <1>2, <1>7, <1>8, <1>9, <1>10 DEF SameCopies

\* What a reclaim leaves of a variable.
LEMMA CompactCopies ==
  ASSUME NEW b \in Seq(Bodies), VarSize * Len(b) <= StoreSize, NEW n
  PROVE  /\ Deleted(Compact(b), n) = {}
         /\ Added(Compact(b), n) = {2 * i - 1 : i \in {j \in 1..Len(b) : b[j] \in Contents /\ b[j].name = n}}
         /\ \A i \in 1..Len(b) : Body(Compact(b), 2 * i - 1) = b[i]
<1>1. /\ Len(b) \in Nat
      /\ Headers(Compact(b)) = {2 * i - 1 : i \in 1..Len(b)}
      /\ \A i \in 1..Len(b) : Body(Compact(b), 2 * i - 1) = b[i] /\ IsAdded(Compact(b)[2 * i - 1])
  BY CompactGood
<1>2. \A p \in Headers(Compact(b)) : IsAdded(Compact(b)[p])
  BY <1>1
<1>3. Deleted(Compact(b), n) = {}
  BY <1>2, CopyIs
<1>4. ASSUME NEW p \in Added(Compact(b), n)
      PROVE  p \in {2 * i - 1 : i \in {j \in 1..Len(b) : b[j] \in Contents /\ b[j].name = n}}
  <2>1. /\ p \in Headers(Compact(b))
        /\ Body(Compact(b), p) \in Contents /\ Body(Compact(b), p).name = n
    BY CopyIs
  <2>2. PICK i \in 1..Len(b) : p = 2 * i - 1
    BY <1>1, <2>1
  <2>3. b[i] \in Contents /\ b[i].name = n
    BY <1>1, <2>1, <2>2
  <2> QED BY <2>2, <2>3
<1>5. ASSUME NEW i \in 1..Len(b), b[i] \in Contents, b[i].name = n
      PROVE  2 * i - 1 \in Added(Compact(b), n)
  BY <1>1, <1>5, CopyIs DEF IsCopy
<1>6. Added(Compact(b), n) = {2 * i - 1 : i \in {j \in 1..Len(b) : b[j] \in Contents /\ b[j].name = n}}
  <2>1. \A p \in {2 * i - 1 : i \in {j \in 1..Len(b) : b[j] \in Contents /\ b[j].name = n}} : p \in Added(Compact(b), n)
    BY <1>5
  <2> QED BY <1>4, <2>1
<1> QED BY <1>1, <1>3, <1>6

AtMostOne(S) == \A p, q \in S : p = q

\* The copies of a variable: the one in delete transition is the older; in a clean
\* store there is only one of the two.
Neat(added, deleted, clean) ==
  /\ AtMostOne(added) /\ AtMostOne(deleted)
  /\ \A p \in deleted, q \in added : p < q
  /\ clean => added = {} \/ deleted = {}

\* A reclaim keeps a variable at most once.
LEMMA AliveOnce ==
  ASSUME NEW s, GoodStore(s), Whole(s), NEW t, \A m \in Name : AtMostOne(Added(s, m)),
         NEW p \in Alive(s, t), NEW q \in Alive(s, t), Body(s, p).name = Body(s, q).name
  PROVE  p = q
<1> SUFFICES ASSUME p # q PROVE FALSE
  OBVIOUS
<1>1. \A x \in Alive(s, t) : x \in Headers(s) /\ IsCopy(s[x]) /\ Body(s, x) \in Contents /\ x \in Offset
  <2>1. \A x \in Alive(s, t) : x \in Headers(s) /\ IsCopy(s[x])
    BY AliveIs DEF IsCopy
  <2> QED BY <2>1, WalkFacts DEF Whole
<1>2. {Body(s, p), Body(s, q)} \subseteq Contents /\ Body(s, p).name \in Name
  BY <1>1 DEF Contents
<1>3. ASSUME p \in Kept(s, t), q \in Kept(s, t) PROVE FALSE
  <2>1. p \in Added(s, Body(s, p).name) /\ q \in Added(s, Body(s, p).name)
    BY <1>1, <1>3, AliveIs, CopyIs
  <2> QED BY <1>2, <2>1 DEF AtMostOne
<1>4. ASSUME NEW x \in Promoted(s, t), NEW y \in Kept(s, t), Body(s, x).name = Body(s, y).name,
             {Body(s, x), Body(s, y)} \subseteq Contents
      PROVE FALSE
  <2>1. IsAdded(s[y]) /\ y \in Headers(s)
    BY <1>4 DEF Kept
  <2>2. ~IsInDeleted(s[y])
    BY <2>1, StateFacts
  <2> QED BY <1>4, <2>2 DEF Promoted
<1>5. ASSUME NEW x \in Promoted(s, t), NEW y \in Promoted(s, t), Body(s, x).name = Body(s, y).name,
             {Body(s, x), Body(s, y)} \subseteq Contents, x < y
      PROVE FALSE
  <2> DEFINE left == {r \in Headers(s) \ {t.curr, t.inDeleted} : IsInDeleted(s[r])}
             had(r) == {z \in Kept(s, t) \cup left :
                   /\ z \in left => z < r
                   /\ Body(s, z) = Body(s, r)
                      \/ /\ {Body(s, z), Body(s, r)} \subseteq Contents
                         /\ Body(s, z).name = Body(s, r).name}
  <2>1. Promoted(s, t) = {r \in left : had(r) = {}}
    BY DEF Promoted
  <2>2. x \in left
    BY <2>1
  <2>3. x \in had(y)
    BY <1>5, <2>2
  <2>4. had(y) = {}
    BY <2>1
  <2> QED BY <2>3, <2>4
<1>6. p < q \/ q < p
  BY <1>1, SizeFacts
<1>7. (p \in Kept(s, t) \/ p \in Promoted(s, t)) /\ (q \in Kept(s, t) \/ q \in Promoted(s, t))
  BY DEF Alive
<1>8. {Body(s, q), Body(s, p)} \subseteq Contents
  BY <1>2
<1> QED BY <1>2, <1>3, <1>4, <1>5, <1>6, <1>7, <1>8

\* The copy that gives a variable its value survives.
LEMMA ValueSurvives ==
  ASSUME NEW s, NEW t, NEW n, NEW p \in Copies(s, n), p \notin {t.curr, t.inDeleted},
         \/ p \in Added(s, n)
         \/ Added(s, n) = {} /\ Deleted(s, n) = {p}
  PROVE  p \in Alive(s, t)
<1>1. p \in Headers(s) /\ Body(s, p) \in Contents /\ Body(s, p).name = n
  BY CopyIs
<1>2. ASSUME p \in Added(s, n) PROVE p \in Kept(s, t)
  BY <1>1, <1>2, CopyIs DEF Kept
<1>3. ASSUME Added(s, n) = {}, Deleted(s, n) = {p} PROVE p \in Promoted(s, t)
  <2> DEFINE left == {r \in Headers(s) \ {t.curr, t.inDeleted} : IsInDeleted(s[r])}
             had(r) == {z \in Kept(s, t) \cup left :
                   /\ z \in left => z < r
                   /\ Body(s, z) = Body(s, r)
                      \/ /\ {Body(s, z), Body(s, r)} \subseteq Contents
                         /\ Body(s, z).name = Body(s, r).name}
  <2>1. Promoted(s, t) = {r \in left : had(r) = {}}
    BY DEF Promoted
  <2>2. p \in left
    BY <1>1, <1>3, CopyIs
  <2>3. ASSUME NEW z \in had(p) PROVE FALSE
    <3>1. z \in Kept(s, t) \cup left /\ (z \in left => z < p)
          /\ Body(s, z) \in Contents /\ Body(s, z).name = n
      BY <1>1, <2>3
    <3>2. z \in Headers(s) /\ IsCopy(s[z]) /\ (z \in left => IsInDeleted(s[z]))
          /\ (z \in Kept(s, t) => IsAdded(s[z]))
      BY <3>1 DEF Kept, IsCopy
    <3>3. z \in Copies(s, n)
      BY <3>1, <3>2, CopyIs
    <3>4. CASE z \in Kept(s, t)
      BY <1>3, <3>2, <3>3, <3>4, CopyIs
    <3>5. CASE z \in left
      <4>1. z = p
        BY <1>3, <3>2, <3>3, <3>5, CopyIs
      <4>2. p \in Nat
        BY <1>1, WalkFacts
      <4> QED BY <3>1, <3>5, <4>1, <4>2
    <3> QED BY <3>1, <3>4, <3>5
  <2>4. had(p) = {}
    BY <2>3
  <2> QED BY <2>1, <2>2, <2>4
<1> QED BY <1>2, <1>3 DEF Alive

\* Get, of a variable with a copy that hides all others.
LEMMA GetIs ==
  ASSUME NEW s, NEW n
  PROVE  /\ Copies(s, n) = {} => Get(s, n) = NoValue
         /\ \A p : Added(s, n) = {p} => Get(s, n) = Body(s, p).value
         /\ \A p \in Deleted(s, n) : Added(s, n) = {} /\ (\A q \in Deleted(s, n) : q <= p) =>
              Get(s, n) = Body(s, p).value
         /\ Copies(s, n) # {} => Get(s, n) \in Value
<1> DEFINE f == FindVariableEx(s, n)
<1>1. Get(s, n) = IF f.curr = 0 THEN NoValue ELSE Body(s, f.curr).value
  BY DEF Get
<1> HIDE DEF f
<1>2. /\ f.curr = 0 <=> Copies(s, n) = {}
      /\ f.curr \in Copies(s, n) \cup {0}
      /\ Added(s, n) # {} => f.curr \in Added(s, n)
      /\ Added(s, n) = {} /\ Deleted(s, n) # {} =>
           f.curr \in Deleted(s, n) /\ \A p \in Deleted(s, n) : p <= f.curr
  BY FindIs DEF f
<1>3. \A p \in Copies(s, n) : p \in Nat /\ Body(s, p) \in Contents
  BY CopiesAre, CopyIs, SizeFacts
<1>4. Copies(s, n) # {} => Get(s, n) \in Value
  BY <1>1, <1>2, <1>3 DEF Contents
<1>5. ASSUME NEW p, Added(s, n) = {p} PROVE Get(s, n) = Body(s, p).value
  <2>1. f.curr = p /\ p \in Copies(s, n)
    BY <1>2, <1>5, CopyIs
  <2> QED BY <1>1, <1>2, <2>1
<1>6. ASSUME NEW p \in Deleted(s, n), Added(s, n) = {}, \A q \in Deleted(s, n) : q <= p
      PROVE  Get(s, n) = Body(s, p).value
  <2>1. f.curr \in Deleted(s, n) /\ p <= f.curr /\ f.curr <= p /\ p \in Copies(s, n)
    BY <1>2, <1>6, CopyIs
  <2>2. f.curr = p /\ f.curr # 0
    BY <1>2, <1>3, <2>1, CopyIs
  <2> QED BY <1>1, <2>2
<1> QED BY <1>1, <1>2, <1>4, <1>5, <1>6

\* The survivors, by name.
LEMMA SurvivorNames ==
  ASSUME NEW s, GoodStore(s), Whole(s), NEW t, \A m \in Name : AtMostOne(Added(s, m)), NEW b,
         b = Survivors(s, t)
  PROVE  /\ b \in Seq(Contents) /\ Len(b) \in Nat
         /\ \A i, j \in 1..Len(b) : b[i].name = b[j].name => i = j
         /\ \A i \in 1..Len(b) : \E p \in Alive(s, t) :
              b[i] = Body(s, p) /\ p \in Copies(s, b[i].name)
         /\ \A p \in Alive(s, t) : \E i \in 1..Len(b) : b[i] = Body(s, p)
<1>1. b \in Seq(Contents) /\ Len(b) \in Nat /\ Len(b) = Cardinality(Alive(s, t))
  BY SurvivorsGood
<1>2. PICK at, k : SurvivorsOf(b, at, k, s, Alive(s, t))
  BY SurvivorsAre
<1>3. /\ k = Cardinality(Alive(s, t)) /\ k \in Nat
      /\ b = [i \in 1..k |-> Body(s, at[i])]
      /\ at \in [1..k -> Alive(s, t)]
      /\ \A i, j \in 1..k : at[i] = at[j] => i = j
      /\ \A p \in Alive(s, t) : \E i \in 1..k : at[i] = p
  BY <1>2 DEF SurvivorsOf
<1>4. \A i \in 1..k : b[i] = Body(s, at[i]) /\ at[i] \in Alive(s, t)
  BY <1>3
<1>5. Len(b) = k
  BY <1>1, <1>3
<1>6. ASSUME NEW p \in Alive(s, t) PROVE p \in Copies(s, Body(s, p).name)
  BY AliveIs, CopyIs DEF Whole, IsCopy
<1>7. ASSUME NEW i \in 1..k, NEW j \in 1..k, b[i].name = b[j].name PROVE i = j
  <2>1. at[i] = at[j]
    BY <1>4, <1>7, AliveOnce
  <2> QED BY <1>3, <2>1
<1>8. \A i \in 1..k : \E p \in Alive(s, t) : b[i] = Body(s, p) /\ p \in Copies(s, b[i].name)
  BY <1>4, <1>6
<1>9. \A p \in Alive(s, t) : \E i \in 1..k : b[i] = Body(s, p)
  BY <1>3, <1>4
<1> QED BY <1>1, <1>5, <1>7, <1>8, <1>9

\* A new store with each name once.
LEMMA CompactOnce ==
  ASSUME NEW b \in Seq(Contents), VarSize * Len(b) <= StoreSize,
         \A i, j \in 1..Len(b) : b[i].name = b[j].name => i = j, NEW n
  PROVE  /\ Deleted(Compact(b), n) = {} /\ AtMostOne(Added(Compact(b), n))
         /\ \A i \in 1..Len(b) : b[i].name = n =>
              Added(Compact(b), n) = {2 * i - 1} /\ Get(Compact(b), n) = b[i].value
         /\ (\A i \in 1..Len(b) : b[i].name # n) => Get(Compact(b), n) = NoValue
<1>1. /\ Deleted(Compact(b), n) = {}
      /\ Added(Compact(b), n) = {2 * i - 1 : i \in {j \in 1..Len(b) : b[j].name = n}}
      /\ \A i \in 1..Len(b) : Body(Compact(b), 2 * i - 1) = b[i]
  <2>1. b \in Seq(Bodies) /\ \A j \in 1..Len(b) : b[j] \in Contents
    BY DEF Bodies
  <2>2. {j \in 1..Len(b) : b[j] \in Contents /\ b[j].name = n} = {j \in 1..Len(b) : b[j].name = n}
    BY <2>1
  <2>3. /\ Deleted(Compact(b), n) = {}
        /\ Added(Compact(b), n) = {2 * i - 1 :
                                    i \in {j \in 1..Len(b) : b[j] \in Contents /\ b[j].name = n}}
        /\ \A i \in 1..Len(b) : Body(Compact(b), 2 * i - 1) = b[i]
    BY <2>1, CompactCopies
  <2> QED BY <2>2, <2>3
<1>2. AtMostOne(Added(Compact(b), n))
  BY <1>1 DEF AtMostOne
<1>3. ASSUME NEW i \in 1..Len(b), b[i].name = n
      PROVE  Added(Compact(b), n) = {2 * i - 1} /\ Get(Compact(b), n) = b[i].value
  <2>1. {j \in 1..Len(b) : b[j].name = n} = {i}
    BY <1>3
  <2>2. Added(Compact(b), n) = {2 * i - 1}
    BY <1>1, <2>1
  <2>3. Get(Compact(b), n) = Body(Compact(b), 2 * i - 1).value
    <3> DEFINE p == 2 * i - 1
    <3> HIDE DEF p
    <3>1. Added(Compact(b), n) = {p}
      BY <2>2 DEF p
    <3>2. Get(Compact(b), n) = Body(Compact(b), p).value
      BY <3>1, GetIs
    <3> QED BY <3>2 DEF p
  <2>4. Body(Compact(b), 2 * i - 1) = b[i]
    BY <1>1
  <2> QED BY <2>2, <2>3, <2>4
<1>4. ASSUME \A i \in 1..Len(b) : b[i].name # n PROVE Get(Compact(b), n) = NoValue
  <2>1. Added(Compact(b), n) = {}
    BY <1>1, <1>4
  <2>2. Copies(Compact(b), n) = {}
    BY <1>1, <2>1, CopyIs
  <2> QED BY <2>2, GetIs
<1> QED BY <1>1, <1>2, <1>3, <1>4

\* A store that holds each name at most once, one that was cut off, too.
LEMMA CompactNeat ==
  ASSUME NEW b \in Seq(Bodies), VarSize * Len(b) <= StoreSize,
         \A i, j \in 1..Len(b) :
           b[i] \in Contents /\ b[j] \in Contents /\ b[i].name = b[j].name => i = j,
         NEW n, NEW c
  PROVE  Neat(Added(Compact(b), n), Deleted(Compact(b), n), c)
<1>1. /\ Deleted(Compact(b), n) = {}
      /\ Added(Compact(b), n) = {2 * i - 1 :
                                  i \in {j \in 1..Len(b) : b[j] \in Contents /\ b[j].name = n}}
  BY CompactCopies
<1>2. AtMostOne(Added(Compact(b), n))
  BY <1>1 DEF AtMostOne
<1> QED BY <1>1, <1>2 DEF Neat, AtMostOne

\* A reclaim changes the value of no variable but the one being updated.
LEMMA ReclaimValue ==
  ASSUME NEW s, GoodStore(s), Whole(s), NEW t, \A m \in Name : AtMostOne(Added(s, m)),
         NEW n, AtMostOne(Deleted(s, n)), {t.curr, t.inDeleted} \cap Copies(s, n) = {},
         NEW b \in Seq(Contents), VarSize * Len(b) <= StoreSize,
         \A i, j \in 1..Len(b) : b[i].name = b[j].name => i = j,
         \/ b = Survivors(s, t)
         \/ \E c \in Contents : c.name # n /\ b = Append(Survivors(s, t), c)
  PROVE  Get(Compact(b), n) = Get(s, n)
<1> DEFINE v == Survivors(s, t)
<1>1. /\ v \in Seq(Contents) /\ Len(v) \in Nat
      /\ \A i \in 1..Len(v) : \E p \in Alive(s, t) :
           v[i] = Body(s, p) /\ p \in Copies(s, v[i].name)
      /\ \A p \in Alive(s, t) : \E i \in 1..Len(v) : v[i] = Body(s, p)
  BY SurvivorNames
<1>2. b = v \/ \E c \in Contents : c.name # n /\ b = Append(v, c)
  OBVIOUS
<1> HIDE DEF v
<1>3. ASSUME NEW i \in 1..Len(v) PROVE i \in 1..Len(b) /\ b[i] = v[i]
  <2>1. CASE b = v
    BY <2>1
  <2>2. ASSUME NEW c \in Contents, b = Append(v, c) PROVE i \in 1..Len(b) /\ b[i] = v[i]
    BY <1>1, <1>3, <2>2
  <2> QED BY <1>2, <2>1, <2>2
<1>4. ASSUME NEW i \in 1..Len(b), b[i].name = n PROVE i \in 1..Len(v) /\ b[i] = v[i]
  <2>1. CASE b = v
    BY <1>4, <2>1
  <2>2. ASSUME NEW c \in Contents, c.name # n, b = Append(v, c)
        PROVE  i \in 1..Len(v) /\ b[i] = v[i]
    <3>1. Len(b) = Len(v) + 1 /\ b[Len(v) + 1] = c
      BY <1>1, <2>2
    <3>2. i # Len(v) + 1
      BY <1>4, <2>2, <3>1
    <3> QED BY <1>1, <1>3, <3>1, <3>2
  <2> QED BY <1>2, <2>1, <2>2
<1>5. ASSUME NEW p \in Alive(s, t), p \in Copies(s, n)
      PROVE  Get(Compact(b), n) = Body(s, p).value
  <2>1. PICK i \in 1..Len(v) : v[i] = Body(s, p)
    BY <1>1
  <2>2. i \in 1..Len(b) /\ b[i] = Body(s, p) /\ b[i].name = n
    BY <1>3, <1>5, <2>1, CopyIs
  <2>3. Get(Compact(b), n) = b[i].value
    BY <2>2, CompactOnce
  <2> QED BY <2>2, <2>3
<1>6. CASE Copies(s, n) = {}
  <2>1. ASSUME NEW i \in 1..Len(b), b[i].name = n PROVE FALSE
    BY <1>1, <1>4, <1>6, <2>1
  <2>2. Get(Compact(b), n) = NoValue
    BY <2>1, CompactOnce
  <2> QED BY <1>6, <2>2, GetIs
<1>7. CASE Added(s, n) # {}
  <2>1. PICK a : a \in Added(s, n)
    BY <1>7
  <2>2. a \in Copies(s, n) /\ Body(s, a).name = n /\ Body(s, a) \in Contents
    BY <2>1, CopyIs
  <2>3. Added(s, n) = {a}
    BY <2>1, <2>2 DEF AtMostOne, Contents
  <2>4. a \in Alive(s, t)
    BY <2>1, <2>2, ValueSurvives
  <2>5. Get(s, n) = Body(s, a).value
    BY <2>3, GetIs
  <2> QED BY <1>5, <2>2, <2>4, <2>5
<1>8. CASE Added(s, n) = {} /\ Copies(s, n) # {}
  <2>1. PICK d : d \in Deleted(s, n)
    BY <1>8, CopyIs
  <2>2. Deleted(s, n) = {d} /\ d \in Copies(s, n)
    BY <2>1, CopyIs DEF AtMostOne
  <2>3. d \in Alive(s, t)
    BY <1>8, <2>1, <2>2, ValueSurvives
  <2>4. d \in Nat
    BY <2>2, CopiesAre, SizeFacts
  <2>5. Get(s, n) = Body(s, d).value
    BY <1>8, <2>2, <2>4, GetIs
  <2> QED BY <1>5, <2>2, <2>3, <2>5
<1> QED BY <1>6, <1>7, <1>8

-----------------------------------------------------------------------------
(* The copies of each variable at each step, when no more than one flash    *)
(* error or power failure comes and no call is made without room after it.  *)

SingleFailure == MaxFailures <= 1 /\ ~Overfill /\ AppendNeverFails

\* No power has failed yet, and no access of an update: a call finds one copy.
Clean == failures = MaxFailures \/ refusing

Tidy(n) == Neat(Added(flash, n), Deleted(flash, n), Clean)

\* A variable no call is changing.
TidyInv == \A n \in Name : n # args.name \/ pc \notin Updating \/ pc = "mark" => Tidy(n)

FoundInv == pc = "mark" => track = FindVariableEx(flash, args.name)

\* The variable the call is changing: the copies it has found are in delete
\* transition before the new one is there ...
Adding == {"append", "reclaim", "header"} \cup Appending
Old    == {track.curr, track.inDeleted} \ {0}

HiddenInv ==
  pc \in Adding =>
    /\ Added(flash, args.name) = {} /\ Deleted(flash, args.name) = Old
    /\ track.inDeleted # 0 => track.inDeleted < track.curr

\* ... and hidden by it afterwards.
ReplacedInv ==
  pc \in {"deleteInDeleted", "deleteCurr"} /\ args.value \in Value =>
    \E new \in Headers(flash) :
      /\ Added(flash, args.name) = {new} /\ Body(flash, new) = args
      /\ Deleted(flash, args.name) = (IF pc = "deleteCurr" THEN {track.curr} ELSE Old)
      /\ \A p \in Deleted(flash, args.name) : p < new

RemovedInv ==
  /\ pc = "deleteInDeleted" /\ args.value \notin Value =>
       Added(flash, args.name) = {track.curr} /\ Deleted(flash, args.name) = {track.inDeleted}
  /\ pc = "deleteCurr" /\ args.value \notin Value => Copies(flash, args.name) = {track.curr}

\* Two copies were found only after a failure, and then there is room.
LeftInv ==
  /\ track.inDeleted # 0 => ~Clean
  /\ pc \in {"mark", "append"} /\ ~Clean /\ track.curr # 0 => ~(atRuntime /\ NoRoom(RuntimeSpace))

ReplyInv == pc \in Updating => reply = "none"

\* Only a failed write of a new store leaves headers without their contents, and then
\* the new store waits in the spare block.
WholeInv ==
  /\ spare = NoSpare => Whole(flash) /\ Whole(cache)
  /\ spare # NoSpare =>
       Whole(spare) /\ \A n \in Name : Neat(Added(spare, n), Deleted(spare, n), TRUE)

CopyInv ==
  TidyInv /\ FoundInv /\ HiddenInv /\ ReplacedInv /\ RemovedInv /\ LeftInv /\ ReplyInv

\* Outside a call only the tidiness of all variables is left to show.
LEMMA OverInv ==
  ASSUME pc' \notin Updating, track' = NoTrack,
         \A n \in Name : Neat(Added(flash', n), Deleted(flash', n), Clean')
  PROVE  CopyInv'
<1>1. TidyInv'
  BY DEF TidyInv, Tidy
<1>2. pc' \notin {"mark", "deleteInDeleted", "deleteCurr"} \cup Adding
  BY StepNames DEF Adding, Appending
<1>3. FoundInv' /\ HiddenInv' /\ ReplacedInv' /\ RemovedInv' /\ ReplyInv'
  BY <1>2 DEF FoundInv, HiddenInv, ReplacedInv, RemovedInv, ReplyInv
<1>4. LeftInv'
  BY <1>2, NoTrackFacts DEF LeftInv
<1> QED BY <1>1, <1>3, <1>4 DEF CopyInv

\* The copies FindVariableEx finds of a tidy variable are all it has.
LEMMA FoundTidy ==
  ASSUME NEW s, NEW n, NEW f, f = FindVariableEx(s, n), NEW clean,
         Neat(Added(s, n), Deleted(s, n), clean)
  PROVE  /\ f.curr = 0 => Added(s, n) = {} /\ Deleted(s, n) = {} /\ f.inDeleted = 0
         /\ f.curr # 0 =>
              \/ /\ Added(s, n) = {f.curr} /\ Deleted(s, n) = {f.inDeleted} \ {0}
                 /\ f.inDeleted # 0 => f.inDeleted < f.curr /\ ~clean
              \/ Added(s, n) = {} /\ Deleted(s, n) = {f.curr} /\ f.inDeleted = 0
         /\ f.inDeleted # 0 => ~clean /\ f.curr # 0
<1>1. /\ f.curr = 0 <=> Copies(s, n) = {}
      /\ f.inDeleted \in Deleted(s, n) \cup {0}
      /\ f.inDeleted # 0 => f.curr \in Added(s, n) /\ f.inDeleted < f.curr
      /\ Added(s, n) # {} =>
           /\ f.curr \in Added(s, n)
           /\ \A p \in Deleted(s, n) : p < f.curr => f.inDeleted # 0 /\ p <= f.inDeleted
      /\ Added(s, n) = {} =>
           /\ f.inDeleted = 0
           /\ Deleted(s, n) # {} => f.curr \in Deleted(s, n)
  BY FindIs
<1>2. 0 \notin Copies(s, n) /\ 0 \notin Deleted(s, n) /\ 0 \notin Added(s, n)
  BY CopiesAre, CopyIs
<1>3. CASE f.curr = 0
  BY <1>1, <1>2, <1>3, CopyIs
<1>4. CASE f.curr # 0 /\ Added(s, n) # {}
  <2>1. Added(s, n) = {f.curr} /\ f.curr # 0
    BY <1>1, <1>4 DEF Neat, AtMostOne
  <2>2. \A p \in Deleted(s, n) : p < f.curr
    BY <2>1 DEF Neat
  <2>3. \A p \in Deleted(s, n) : p = f.inDeleted
    BY <1>1, <1>4, <2>2 DEF Neat, AtMostOne
  <2>4. Deleted(s, n) = {f.inDeleted} \ {0}
    BY <1>1, <1>2, <2>3
  <2>5. f.inDeleted # 0 => f.inDeleted < f.curr /\ ~clean
    BY <1>1, <2>1, <2>4 DEF Neat
  <2> QED BY <1>4, <2>1, <2>4, <2>5
<1>5. CASE f.curr # 0 /\ Added(s, n) = {}
  <2>1. Deleted(s, n) # {}
    BY <1>1, <1>5, CopyIs
  <2>2. Deleted(s, n) = {f.curr}
    BY <1>1, <1>5, <2>1 DEF Neat, AtMostOne
  <2> QED BY <1>1, <1>5, <2>2
<1> QED BY <1>3, <1>4, <1>5

\* A flash error or a power failure is the only one ...
LEMMA LastFailure ==
  ASSUME SingleFailure, StoreInv, failures > 0
  PROVE  Clean /\ ~refusing /\ spare = NoSpare /\ failures - 1 # MaxFailures
BY DriverAssumption DEF SingleFailure, StoreInv, SpareInv, SmallTypes, Clean

\* ... and finds one old copy.
LEMMA AfterFailure ==
  ASSUME StoreInv, CopyInv, Clean, NEW n \in Name
  PROVE  /\ Neat(Added(flash, n), Deleted(flash, n), FALSE)
         /\ pc \in {"reclaim", "reclaimForOS"} => Neat(Added(flash, n), Deleted(flash, n), TRUE)
<1>1. track.inDeleted = 0
  BY DEF CopyInv, LeftInv
<1>2. CASE n # args.name \/ pc \notin Updating \/ pc = "mark"
  BY <1>2 DEF CopyInv, TidyInv, Tidy, Neat
<1>3. CASE n = args.name /\ pc \in Adding
  <2>1. Added(flash, n) = {} /\ Deleted(flash, n) = {track.curr} \ {0}
    BY <1>1, <1>3 DEF CopyInv, HiddenInv, Old
  <2> QED BY <2>1 DEF Neat, AtMostOne
<1>4. CASE n = args.name /\ pc = "deleteInDeleted"
  BY <1>1, <1>4 DEF StoreInv, TrackInv
<1>5. CASE n = args.name /\ pc = "deleteCurr" /\ args.value \in Value
  <2>1. PICK new \in Headers(flash) :
          /\ Added(flash, n) = {new} /\ Deleted(flash, n) = {track.curr}
          /\ \A p \in Deleted(flash, n) : p < new
    BY <1>5 DEF CopyInv, ReplacedInv
  <2> QED BY <1>5, <2>1 DEF Neat, AtMostOne
<1>6. CASE n = args.name /\ pc = "deleteCurr" /\ args.value \notin Value
  <2>1. Copies(flash, n) = {track.curr}
    BY <1>6 DEF CopyInv, RemovedInv
  <2>2. AtMostOne(Added(flash, n)) /\ AtMostOne(Deleted(flash, n))
        /\ ~(Added(flash, n) # {} /\ Deleted(flash, n) # {})
    BY <2>1, CopyIs DEF AtMostOne
  <2> QED BY <2>2 DEF Neat
<1> QED BY <1>2, <1>3, <1>4, <1>5, <1>6, StepNames DEF Adding, Appending

LEMMA SetVariableCopies ==
  ASSUME SingleFailure, StoreInv, CopyInv, NEW n \in Name, NEW v \in Value \cup {NoValue},
         SetVariable(n, v)
  PROVE  CopyInv'
<1> DEFINE f == FindVariableEx(cache, n)
<1>1. /\ pc = "idle" /\ flash' = flash /\ failures' = failures /\ atRuntime' = atRuntime
      /\ refusing' = refusing
      /\ total' = total /\ args' = [name |-> n, value |-> v]
      /\ Clean \/ (atRuntime /\ NoRoom(RuntimeSpace) => f.curr = 0 \/ v = NoValue)
      /\ \/ pc' = pc /\ track' = track
         \/ /\ track' = f /\ reply' = "none" /\ ~(f.curr = 0 /\ v = NoValue)
            /\ pc' = IF f.curr = 0 THEN "append"
                     ELSE IF v # NoValue THEN "mark"
                     ELSE IF f.inDeleted # 0 THEN "deleteInDeleted" ELSE "deleteCurr"
  BY DEF SetVariable, SingleFailure, Clean, mode, ftw, memory
<1>2. f = FindVariableEx(flash, n)
  BY <1>1 DEF StoreInv, SyncInv, Appending
<1> HIDE DEF f
<1>3. \A m \in Name : Neat(Added(flash, m), Deleted(flash, m), Clean)
  BY <1>1, StepNames DEF CopyInv, TidyInv, Tidy
<1>4. CASE pc' = pc /\ track' = track
  <2>1. pc' \notin Updating /\ track' = NoTrack
    BY <1>1, <1>4, StepNames DEF StoreInv, TrackInv
  <2> QED BY <1>1, <1>3, <2>1, OverInv DEF Clean
<1>5. CASE /\ track' = f /\ reply' = "none" /\ ~(f.curr = 0 /\ v = NoValue)
           /\ pc' = IF f.curr = 0 THEN "append"
                    ELSE IF v # NoValue THEN "mark"
                    ELSE IF f.inDeleted # 0 THEN "deleteInDeleted" ELSE "deleteCurr"
  <2>1. /\ f.curr = 0 => Added(flash, n) = {} /\ Deleted(flash, n) = {} /\ f.inDeleted = 0
        /\ f.curr # 0 =>
             \/ /\ Added(flash, n) = {f.curr} /\ Deleted(flash, n) = {f.inDeleted} \ {0}
                /\ f.inDeleted # 0 => f.inDeleted < f.curr /\ ~Clean
             \/ Added(flash, n) = {} /\ Deleted(flash, n) = {f.curr} /\ f.inDeleted = 0
        /\ f.inDeleted # 0 => ~Clean /\ f.curr # 0
    <3>1. Neat(Added(flash, n), Deleted(flash, n), Clean)
      BY <1>3
    <3> QED BY <1>2, <3>1, FoundTidy
  <2>2. args'.name = n /\ args'.value = v
    BY <1>1
  <2>3. v \in Value <=> v # NoValue
    BY StoreAssumption
  <2>4. TidyInv'
    BY <1>1, <1>3 DEF TidyInv, Tidy, Clean
  <2>5. FoundInv'
    BY <1>1, <1>2, <1>5, <2>2 DEF FoundInv
  <2>6. HiddenInv'
    BY <1>1, <1>5, <2>1, <2>2 DEF HiddenInv, Adding, Appending, Old
  <2>7. ReplacedInv'
    BY <1>5, <2>2, <2>3 DEF ReplacedInv
  <2>8. RemovedInv'
    <3>1. ASSUME pc' = "deleteInDeleted"
          PROVE  Added(flash, n) = {f.curr} /\ Deleted(flash, n) = {f.inDeleted}
      <4>1. f.curr # 0 /\ f.inDeleted # 0
        BY <1>5, <3>1
      <4> QED BY <2>1, <4>1
    <3>2. ASSUME pc' = "deleteCurr" PROVE Copies(flash, n) = {f.curr}
      <4>1. f.curr # 0 /\ f.inDeleted = 0
        BY <1>5, <3>2
      <4>2. \/ Added(flash, n) = {f.curr} /\ Deleted(flash, n) = {}
            \/ Added(flash, n) = {} /\ Deleted(flash, n) = {f.curr}
        BY <2>1, <4>1
      <4> QED BY <4>2, CopyIs
    <3> QED BY <1>1, <1>5, <2>2, <3>1, <3>2 DEF RemovedInv
  <2>9. LeftInv'
    BY <1>1, <1>5, <2>1 DEF LeftInv, Clean, NoRoom
  <2>10. ReplyInv'
    BY <1>5 DEF ReplyInv
  <2> QED BY <2>4, <2>5, <2>6, <2>7, <2>8, <2>9, <2>10 DEF CopyInv
<1> QED BY <1>1, <1>4, <1>5

\* The copies after an access that sets State bits.
LEMMA BitsCopies ==
  ASSUME StoreInv, pc \in {"mark", "deleteInDeleted", "deleteCurr"},
         NEW p, p = IF pc = "deleteInDeleted" THEN track.inDeleted ELSE track.curr,
         NEW bits, bits = IF pc = "mark" THEN VAR_IN_DELETED_TRANSITION ELSE VAR_DELETED,
         flash' = SetState(flash, p, bits), cache' = SetState(cache, p, bits), last' = last,
         total' = total, NEW n
  PROVE  /\ pc = "mark" /\ p \in Copies(flash, n) =>
              Added(flash', n) = Added(flash, n) \ {p}
              /\ Deleted(flash', n) = Deleted(flash, n) \cup {p}
         /\ pc = "mark" /\ p \notin Copies(flash, n) =>
              Added(flash', n) = Added(flash, n) /\ Deleted(flash', n) = Deleted(flash, n)
         /\ pc # "mark" =>
              Added(flash', n) = Added(flash, n) \ {p}
              /\ Deleted(flash', n) = Deleted(flash, n) \ {p}
         /\ Headers(flash') = Headers(flash)
         /\ \A q \in Headers(flash) : Body(flash', q) = Body(flash, q)
<1>1. /\ cache' = flash' /\ Headers(cache') = Headers(cache) /\ p \in Headers(cache)
      /\ \A q \in Offset : q # p => cache'[q] = cache[q]
      /\ \A q \in Headers(cache) : Body(cache', q) = Body(cache, q)
      /\ pc # "mark" => ~IsCopy(cache'[p])
      /\ pc = "mark" => IsInDeleted(cache'[p])
  BY BitsStore
<1>2. flash = cache
  BY DEF StoreInv, SyncInv, Appending
<1>3. Headers(flash) \subseteq Offset
  BY WalkFacts
<1>4. pc = "mark" => IsCopy(flash[p])
  BY <1>2 DEF StoreInv, TrackInv
<1>5. /\ Headers(flash') = Headers(flash) /\ p \in Headers(flash)
      /\ \A q \in Headers(flash) : q # p => flash'[q] = flash[q]
      /\ \A q \in Headers(flash) : Body(flash', q) = Body(flash, q)
  BY <1>1, <1>2, <1>3
<1>6. ASSUME NEW t, t = flash'
      PROVE  /\ IsInDeleted(t[p]) /\ p \in Copies(flash, n) =>
                  Added(t, n) = Added(flash, n) \ {p} /\ Deleted(t, n) = Deleted(flash, n) \cup {p}
             /\ IsInDeleted(t[p]) /\ IsCopy(flash[p]) /\ p \notin Copies(flash, n) =>
                  Added(t, n) = Added(flash, n) /\ Deleted(t, n) = Deleted(flash, n)
             /\ ~IsCopy(t[p]) =>
                  Added(t, n) = Added(flash, n) \ {p} /\ Deleted(t, n) = Deleted(flash, n) \ {p}
  <2>1. /\ Headers(t) = Headers(flash) /\ p \in Headers(flash)
        /\ \A q \in Headers(flash) : q # p => t[q] = flash[q]
        /\ \A q \in Headers(flash) : Body(t, q) = Body(flash, q)
    BY <1>5, <1>6
  <2> QED BY <2>1, ChangeCopies
<1> QED BY <1>1, <1>4, <1>5, <1>6

LEMMA MarkCopies ==
  ASSUME SingleFailure, StoreInv, CopyInv, Mark PROVE CopyInv'
<1> DEFINE p == track.curr
           n == args.name
<1>1. /\ pc = "mark" /\ pc' = "append" /\ args' = args /\ track' = track /\ reply' = reply
      /\ flash' = SetState(flash, p, VAR_IN_DELETED_TRANSITION)
      /\ cache' = SetState(cache, p, VAR_IN_DELETED_TRANSITION)
      /\ last' = last /\ total' = total /\ failures' = failures /\ atRuntime' = atRuntime
      /\ refusing' = refusing
  BY DEF Mark, Goto, call, mode, ftw
<1>2. n \in Name /\ p # 0
  BY <1>1 DEF StoreInv, SmallTypes, TrackInv
<1>3. track = FindVariableEx(flash, n) /\ Neat(Added(flash, n), Deleted(flash, n), Clean)
  BY <1>1, <1>2 DEF CopyInv, FoundInv, TidyInv, Tidy
<1>4. \/ /\ Added(flash, n) = {p} /\ Deleted(flash, n) = {track.inDeleted} \ {0}
         /\ track.inDeleted # 0 => track.inDeleted < p
      \/ Added(flash, n) = {} /\ Deleted(flash, n) = {p} /\ track.inDeleted = 0
  BY <1>2, <1>3, FoundTidy
<1>5. p \in Copies(flash, n)
  BY <1>4, CopyIs
<1>6. \A m : /\ p \in Copies(flash, m) =>
                  Added(flash', m) = Added(flash, m) \ {p}
                  /\ Deleted(flash', m) = Deleted(flash, m) \cup {p}
             /\ p \notin Copies(flash, m) =>
                  Added(flash', m) = Added(flash, m) /\ Deleted(flash', m) = Deleted(flash, m)
  BY <1>1, BitsCopies
<1>7. Added(flash', n) = {} /\ Deleted(flash', n) = Old
      /\ (track.inDeleted # 0 => track.inDeleted < p)
  BY <1>2, <1>4, <1>5, <1>6 DEF Old
<1>8. \A m \in Name : m # n => Added(flash', m) = Added(flash, m)
                              /\ Deleted(flash', m) = Deleted(flash, m)
  BY <1>5, <1>6, CopyIs
<1>9. TidyInv'
  BY <1>1, <1>8, StepNames DEF CopyInv, TidyInv, Tidy, Clean
<1>10. HiddenInv'
  BY <1>1, <1>7 DEF HiddenInv, Old
<1>11. FoundInv' /\ ReplacedInv' /\ RemovedInv' /\ LeftInv' /\ ReplyInv'
  BY <1>1, StepNames DEF CopyInv, FoundInv, ReplacedInv, RemovedInv, LeftInv, ReplyInv, Clean, NoRoom
<1> QED BY <1>9, <1>10, <1>11 DEF CopyInv

LEMMA CheckSpaceCopies ==
  ASSUME SingleFailure, StoreInv, CopyInv, CheckSpace PROVE CopyInv'
<1> DEFINE n == args.name
<1>1. /\ pc = "append" /\ args' = args /\ flash' = flash /\ total' = total
      /\ failures' = failures /\ atRuntime' = atRuntime /\ refusing' = refusing
      /\ \/ pc' = "idle" /\ track' = NoTrack /\ atRuntime /\ NoRoom(RuntimeSpace)
         \/ track' = track /\ reply' = reply /\ pc' \in {"reclaim", "header"}
  BY DEF CheckSpace, Return, Goto, call, mode, ftw, memory
<1>2. Added(flash, n) = {} /\ Deleted(flash, n) = Old
  BY <1>1 DEF CopyInv, HiddenInv, Adding
<1>3. CASE pc' = "idle" /\ track' = NoTrack /\ atRuntime /\ NoRoom(RuntimeSpace)
  <2>1. Old = {track.curr} \ {0}
    BY <1>1, <1>3 DEF CopyInv, LeftInv, StoreInv, TrackInv, Old
  <2>2. Neat(Added(flash, n), Deleted(flash, n), Clean)
    BY <1>2, <2>1 DEF Neat, AtMostOne
  <2>3. \A m \in Name : Neat(Added(flash, m), Deleted(flash, m), Clean)
    BY <2>2 DEF CopyInv, TidyInv, Tidy
  <2>4. pc' \notin Updating
    BY <1>3, StepNames
  <2> QED BY <1>1, <1>3, <2>3, <2>4, OverInv DEF Clean
<1>4. CASE track' = track /\ reply' = reply /\ pc' \in {"reclaim", "header"}
  <2>1. TidyInv'
    BY <1>1, <1>4, StepNames DEF CopyInv, TidyInv, Tidy, Clean
  <2>2. HiddenInv'
    BY <1>1, <1>4 DEF CopyInv, HiddenInv, Adding, Old
  <2>3. FoundInv' /\ ReplacedInv' /\ RemovedInv' /\ LeftInv' /\ ReplyInv'
    BY <1>1, <1>4, StepNames
       DEF CopyInv, FoundInv, ReplacedInv, RemovedInv, LeftInv, ReplyInv, Clean
  <2> QED BY <2>1, <2>2, <2>3 DEF CopyInv
<1> QED BY <1>1, <1>3, <1>4

\* The first three accesses of an append write two units that are no copy.
LEMMA WritesAhead ==
  ASSUME StoreInv, WriteHeader \/ WriteHeaderValid \/ WriteData
  PROVE  /\ last = End(cache) /\ GoodStore(cache) /\ Free(cache, last) /\ last + 1 <= StoreSize
         /\ \E u, v \in Unit : flash' = Put(cache, last, u, v) /\ ~v.start /\ ~IsCopy(u)
<1>1. /\ cache' = cache /\ last' = last /\ pc \in {"header", "headerValid", "data"}
      /\ pc' \in {"headerValid", "data", "added"} /\ args' = args
  BY DEF WriteHeader, WriteHeaderValid, WriteData, Goto, memory, call
<1>2. WrittenInv' /\ ArgsInv' /\ SmallTypes'
  BY WriteHeaderStore, WriteHeaderValidStore, WriteDataStore DEF StoreInv
<1>3. last = End(cache) /\ GoodStore(cache) /\ Free(cache, last) /\ last + 1 <= StoreSize
  BY <1>1, AppendsAt DEF Appending
<1>4. \E u, v \in Unit : flash' = Put(cache, last, u, v) /\ ~v.start /\ ~IsCopy(u)
  <2>1. \A bits : bits \in {{}, {7}} => HeaderUnit(bits) \in Unit /\ ~IsCopy(HeaderUnit(bits))
    <3>1. 6 \in {7, 6} /\ 6 \in {7, 6, 0} /\ 6 \notin {7}
      OBVIOUS
    <3>2. {7} # {7, 6} /\ {7} # {7, 6, 0} /\ {} # {7, 6} /\ {} # {7, 6, 0}
      BY <3>1
    <3>3. {} \subseteq StateBits /\ {7} \subseteq StateBits
      BY DEF StateBits
    <3> QED BY <3>2, <3>3, UnitFacts, StateFacts DEF IsCopy
  <2>2. ErasedUnit \in Unit /\ ~ErasedUnit.start
    BY UnitFacts
  <2>3. args \in Contents /\ BodyUnit(args) \in Unit /\ ~BodyUnit(args).start
    <3>1. args \in Contents
      BY <1>1, StoreAssumption DEF StoreInv, ArgsInv, SmallTypes, Storing, Appending, Contents
    <3> QED BY <3>1, UnitFacts
  <2>4. CASE pc' = "headerValid"
    <3>1. flash' = Put(cache, last, HeaderUnit({}), ErasedUnit)
      BY <1>1, <1>2, <2>4 DEF WrittenInv
    <3> QED BY <2>1, <2>2, <3>1
  <2>5. CASE pc' = "data"
    <3>1. flash' = Put(cache, last, HeaderUnit({7}), ErasedUnit)
      BY <1>1, <1>2, <2>5 DEF WrittenInv, VAR_HEADER_VALID_ONLY
    <3> QED BY <2>1, <2>2, <3>1
  <2>6. CASE pc' = "added"
    <3>1. flash' = Put(cache, last, HeaderUnit({7}), BodyUnit(args))
      BY <1>1, <1>2, <2>6 DEF WrittenInv, VAR_HEADER_VALID_ONLY
    <3> QED BY <2>1, <2>3, <3>1
  <2> QED BY <1>1, <2>4, <2>5, <2>6
<1> QED BY <1>3, <1>4

LEMMA WritesCopies ==
  ASSUME StoreInv, WriteHeader \/ WriteHeaderValid \/ WriteData
  PROVE  SameCopies(flash, flash')
<1>1. SameCopies(cache, flash')
  BY WritesAhead, PutExtended, ExtendedCopies
<1>2. SameCopies(cache, flash)
  BY AppendCopies DEF WriteHeader, WriteHeaderValid, WriteData
<1> QED BY <1>1, <1>2 DEF SameCopies

LEMMA WritesKeep ==
  ASSUME StoreInv, CopyInv, WriteHeader \/ WriteHeaderValid \/ WriteData PROVE CopyInv'
<1>1. /\ pc \in {"header", "headerValid", "data"} /\ pc' \in Appending
      /\ args' = args /\ track' = track /\ reply' = reply
      /\ failures' = failures /\ refusing' = refusing
  BY DEF WriteHeader, WriteHeaderValid, WriteData, Goto, mode, ftw, call, Appending
<1>2. \A m : Added(flash', m) = Added(flash, m) /\ Deleted(flash', m) = Deleted(flash, m)
  BY WritesCopies DEF SameCopies
<1>3. TidyInv'
  BY <1>1, <1>2, StepNames DEF CopyInv, TidyInv, Tidy, Clean, Appending
<1>4. HiddenInv'
  BY <1>1, <1>2 DEF CopyInv, HiddenInv, Adding, Appending, Old
<1>5. FoundInv' /\ ReplacedInv' /\ RemovedInv' /\ LeftInv' /\ ReplyInv'
  BY <1>1, StepNames
     DEF CopyInv, FoundInv, ReplacedInv, RemovedInv, LeftInv, ReplyInv, Clean, Appending
<1> QED BY <1>3, <1>4, <1>5 DEF CopyInv

LEMMA WriteAddedCopies ==
  ASSUME StoreInv, CopyInv, WriteAdded PROVE CopyInv'
<1> DEFINE n == args.name
<1>1. /\ pc = "added" /\ args' = args /\ failures' = failures /\ refusing' = refusing
      /\ \/ pc' = "idle" /\ track' = NoTrack /\ reply' = "success" /\ track.curr = 0
         \/ /\ track' = track /\ reply' = reply /\ track.curr # 0
            /\ pc' = IF track.inDeleted # 0 THEN "deleteInDeleted" ELSE "deleteCurr"
  BY DEF WriteAdded, Return, Goto, call, mode, ftw
<1>2. Added(flash, n) = {} /\ Deleted(flash, n) = Old
  BY <1>1 DEF CopyInv, HiddenInv, Adding, Appending
<1>3. args.value \in Value /\ n \in Name
  BY <1>1 DEF StoreInv, ArgsInv, SmallTypes, Storing, Appending
<1>4. Added(flash', n) = {last} /\ Deleted(flash', n) = Old
      /\ Body(flash', last) = args /\ last \in Headers(flash')
      /\ \A p \in Old : p < last
  <2>1. \A p \in Deleted(flash, n) : p \in Copies(flash, n)
    BY CopyIs
  <2> QED BY <1>2, <2>1, AddCopies
<1>5. \A m \in Name : m # n => Added(flash', m) = Added(flash, m) /\ Deleted(flash', m) = Deleted(flash, m)
  BY AddCopies
<1>6. \A m \in Name : m # n => Neat(Added(flash', m), Deleted(flash', m), Clean)
  BY <1>5 DEF CopyInv, TidyInv, Tidy
<1>7. CASE pc' = "idle" /\ track' = NoTrack /\ track.curr = 0
  <2>1. Old = {}
    BY <1>7 DEF StoreInv, TrackInv, Old
  <2>2. Neat(Added(flash', n), Deleted(flash', n), Clean)
    BY <1>4, <2>1 DEF Neat, AtMostOne
  <2>3. \A m \in Name : Neat(Added(flash', m), Deleted(flash', m), Clean)
    BY <1>6, <2>2
  <2>4. pc' \notin Updating
    BY <1>7, StepNames
  <2> QED BY <1>1, <1>7, <2>3, <2>4, OverInv DEF Clean
<1>8. CASE /\ track' = track /\ reply' = reply /\ track.curr # 0
           /\ pc' = IF track.inDeleted # 0 THEN "deleteInDeleted" ELSE "deleteCurr"
  <2>1. pc' \in {"deleteInDeleted", "deleteCurr"}
    BY <1>8
  <2>2. TidyInv'
    BY <1>1, <1>6, <2>1, StepNames DEF TidyInv, Tidy, Clean
  <2>3. pc' = "deleteCurr" => Old = {track.curr}
    BY <1>8 DEF Old
  <2>4. ReplacedInv'
    BY <1>1, <1>4, <1>8, <2>1, <2>3 DEF ReplacedInv, Old
  <2>5. FoundInv' /\ HiddenInv' /\ RemovedInv' /\ LeftInv' /\ ReplyInv'
    BY <1>1, <1>3, <1>8, <2>1, StepNames
       DEF CopyInv, FoundInv, HiddenInv, RemovedInv, LeftInv, ReplyInv, Clean, Adding, Appending
  <2> QED BY <2>2, <2>4, <2>5 DEF CopyInv
<1> QED BY <1>1, <1>7, <1>8

LEMMA DeleteInDeletedCopies ==
  ASSUME StoreInv, CopyInv, DeleteInDeleted PROVE CopyInv'
<1> DEFINE p == track.inDeleted
           n == args.name
<1>1. /\ pc = "deleteInDeleted" /\ pc' = "deleteCurr" /\ args' = args /\ track' = track
      /\ reply' = reply /\ failures' = failures /\ refusing' = refusing
      /\ flash' = SetState(flash, p, VAR_DELETED) /\ cache' = SetState(cache, p, VAR_DELETED)
      /\ last' = last /\ total' = total
  BY DEF DeleteInDeleted, Goto, call, mode, ftw
<1>2. p # 0 /\ track.curr # 0 /\ p # track.curr
  BY <1>1 DEF StoreInv, TrackInv
<1>3. /\ \A m : Added(flash', m) = Added(flash, m) \ {p} /\ Deleted(flash', m) = Deleted(flash, m) \ {p}
      /\ Headers(flash') = Headers(flash)
      /\ \A q \in Headers(flash) : Body(flash', q) = Body(flash, q)
  BY <1>1, BitsCopies
<1>4. p \in Deleted(flash, n)
  <2>1. CASE args.value \in Value
    BY <1>1, <1>2, <2>1 DEF CopyInv, ReplacedInv, Old
  <2>2. CASE args.value \notin Value
    BY <1>1, <2>2 DEF CopyInv, RemovedInv
  <2> QED BY <2>1, <2>2
<1>5. \A m : m # n => p \notin Copies(flash, m)
  BY <1>4, CopyIs
<1>6. \A m \in Name : m # n => Added(flash', m) = Added(flash, m) /\ Deleted(flash', m) = Deleted(flash, m)
  <2> SUFFICES ASSUME NEW m \in Name, m # n
      PROVE Added(flash', m) = Added(flash, m) /\ Deleted(flash', m) = Deleted(flash, m)
    OBVIOUS
  <2>1. p \notin Added(flash, m) /\ p \notin Deleted(flash, m)
    BY <1>5, CopyIs
  <2> QED BY <1>3, <2>1
<1>7. TidyInv'
  BY <1>1, <1>6, StepNames DEF CopyInv, TidyInv, Tidy, Clean
<1>8. p \notin Added(flash, n)
  BY <1>4, CopyIs
<1>9. ReplacedInv'
  <2> SUFFICES ASSUME args.value \in Value
      PROVE \E new \in Headers(flash') :
              /\ Added(flash', n) = {new} /\ Body(flash', new) = args
              /\ Deleted(flash', n) = {track.curr} /\ \A q \in Deleted(flash', n) : q < new
    BY <1>1 DEF ReplacedInv
  <2>1. PICK new \in Headers(flash) :
          /\ Added(flash, n) = {new} /\ Body(flash, new) = args
          /\ Deleted(flash, n) = Old /\ \A q \in Deleted(flash, n) : q < new
    BY <1>1 DEF CopyInv, ReplacedInv
  <2>2. Added(flash', n) = {new} /\ Deleted(flash', n) = {track.curr}
    BY <1>2, <1>3, <1>8, <2>1 DEF Old
  <2> QED BY <1>3, <2>1, <2>2
<1>10. RemovedInv'
  <2> SUFFICES ASSUME args.value \notin Value PROVE Copies(flash', n) = {track.curr}
    BY <1>1 DEF RemovedInv
  <2>1. Added(flash, n) = {track.curr} /\ Deleted(flash, n) = {p}
    BY <1>1 DEF CopyInv, RemovedInv
  <2>2. Added(flash', n) = {track.curr} /\ Deleted(flash', n) = {}
    BY <1>2, <1>3, <2>1
  <2> QED BY <2>2, CopyIs
<1>11. FoundInv' /\ HiddenInv' /\ LeftInv' /\ ReplyInv'
  BY <1>1, StepNames DEF CopyInv, FoundInv, HiddenInv, LeftInv, ReplyInv, Clean, Adding, Appending
<1> QED BY <1>7, <1>9, <1>10, <1>11 DEF CopyInv

\* What the last access of a call leaves of the variable.
LEMMA DeleteCurrLeaves ==
  ASSUME StoreInv, CopyInv, DeleteCurr
  PROVE  /\ \A m \in Name : m # args.name =>
              Added(flash', m) = Added(flash, m) /\ Deleted(flash', m) = Deleted(flash, m)
         /\ \A q \in Headers(flash) : Body(flash', q) = Body(flash, q)
         /\ Deleted(flash', args.name) = {}
         /\ args.value \in Value => \E new \in Headers(flash) :
              /\ Added(flash, args.name) = {new} /\ Added(flash', args.name) = {new}
              /\ Body(flash, new) = args /\ Body(flash', new) = args
         /\ args.value \notin Value => Copies(flash', args.name) = {}
<1> DEFINE p == track.curr
           n == args.name
<1>1. /\ pc = "deleteCurr"
      /\ flash' = SetState(flash, p, VAR_DELETED) /\ cache' = SetState(cache, p, VAR_DELETED)
      /\ last' = last /\ total' = total
  BY DEF DeleteCurr, Return, mode
<1>2. /\ \A m : Added(flash', m) = Added(flash, m) \ {p} /\ Deleted(flash', m) = Deleted(flash, m) \ {p}
      /\ \A q \in Headers(flash) : Body(flash', q) = Body(flash, q)
  BY <1>1, BitsCopies
<1>3. p \in Copies(flash, n)
  <2>1. CASE args.value \in Value
    BY <1>1, <2>1, CopyIs DEF CopyInv, ReplacedInv
  <2>2. CASE args.value \notin Value
    BY <1>1, <2>2 DEF CopyInv, RemovedInv
  <2> QED BY <2>1, <2>2
<1>4. \A m \in Name : m # n => Added(flash', m) = Added(flash, m) /\ Deleted(flash', m) = Deleted(flash, m)
  <2> SUFFICES ASSUME NEW m \in Name, m # n
      PROVE Added(flash', m) = Added(flash, m) /\ Deleted(flash', m) = Deleted(flash, m)
    OBVIOUS
  <2>1. p \notin Added(flash, m) /\ p \notin Deleted(flash, m)
    BY <1>3, CopyIs
  <2> QED BY <1>2, <2>1
<1>5. ASSUME args.value \in Value
      PROVE  /\ Deleted(flash', n) = {}
             /\ \E new \in Headers(flash) :
                  /\ Added(flash, n) = {new} /\ Added(flash', n) = {new}
                  /\ Body(flash, new) = args /\ Body(flash', new) = args
  <2>1. PICK new \in Headers(flash) :
          /\ Added(flash, n) = {new} /\ Body(flash, new) = args /\ Deleted(flash, n) = {p}
    BY <1>1, <1>5 DEF CopyInv, ReplacedInv
  <2>2. new # p
    BY <2>1, CopyIs
  <2>3. Added(flash', n) = {new} /\ Deleted(flash', n) = {}
    BY <1>2, <2>1, <2>2
  <2> QED BY <1>2, <2>1, <2>3
<1>6. ASSUME args.value \notin Value PROVE Deleted(flash', n) = {} /\ Copies(flash', n) = {}
  <2>1. Copies(flash, n) = {p}
    BY <1>1, <1>6 DEF CopyInv, RemovedInv
  <2>2. Added(flash', n) = {} /\ Deleted(flash', n) = {}
    BY <1>2, <2>1, CopyIs
  <2> QED BY <2>2, CopyIs
<1> QED BY <1>2, <1>4, <1>5, <1>6

LEMMA DeleteCurrCopies ==
  ASSUME StoreInv, CopyInv, DeleteCurr PROVE CopyInv'
<1> DEFINE n == args.name
<1>1. /\ pc = "deleteCurr" /\ pc' = "idle" /\ args' = args /\ track' = NoTrack
      /\ failures' = failures /\ refusing' = refusing
  BY DEF DeleteCurr, Return, mode, ftw
<1>2. \A m \in Name : m # n => Neat(Added(flash', m), Deleted(flash', m), Clean)
  BY DeleteCurrLeaves DEF CopyInv, TidyInv, Tidy
<1>3. AtMostOne(Added(flash', n)) /\ Deleted(flash', n) = {}
  <2>1. CASE args.value \in Value
    BY <2>1, DeleteCurrLeaves DEF AtMostOne
  <2>2. CASE args.value \notin Value
    <3>1. Copies(flash', n) = {}
      BY <2>2, DeleteCurrLeaves
    <3>2. Added(flash', n) = {} /\ Deleted(flash', n) = {}
      BY <3>1, CopyIs
    <3> QED BY <3>2 DEF AtMostOne
  <2> QED BY <2>1, <2>2, DeleteCurrLeaves
<1>4. Neat(Added(flash', n), Deleted(flash', n), Clean)
  BY <1>3 DEF Neat, AtMostOne
<1>5. \A m \in Name : Neat(Added(flash', m), Deleted(flash', m), Clean)
  BY <1>2, <1>4
<1>6. pc' \notin Updating
  BY <1>1, StepNames
<1> QED BY <1>1, <1>5, <1>6, OverInv DEF Clean

LEMMA OneAddedEach ==
  ASSUME CopyInv, NEW m \in Name PROVE AtMostOne(Added(flash, m))
<1>1. CASE m # args.name \/ pc \notin Updating \/ pc = "mark"
  BY <1>1 DEF CopyInv, TidyInv, Tidy, Neat
<1>2. CASE m = args.name /\ pc \in Adding
  BY <1>2 DEF CopyInv, HiddenInv, AtMostOne
<1>3. CASE m = args.name /\ pc \in {"deleteInDeleted", "deleteCurr"} /\ args.value \in Value
  BY <1>3 DEF CopyInv, ReplacedInv, AtMostOne
<1>4. CASE m = args.name /\ pc = "deleteInDeleted" /\ args.value \notin Value
  BY <1>4 DEF CopyInv, RemovedInv, AtMostOne
<1>5. CASE m = args.name /\ pc = "deleteCurr" /\ args.value \notin Value
  BY <1>5, CopyIs DEF CopyInv, RemovedInv, AtMostOne
<1> QED BY <1>1, <1>2, <1>3, <1>4, <1>5, StepNames DEF Adding, Appending

\* The new variable is the only one of its name in the new store.
LEMMA NewStoreNames ==
  ASSUME StoreInv, Whole(flash), CopyInv, Reclaiming
  PROVE  /\ \A i, j \in 1..Len(NewStore) : NewStore[i].name = NewStore[j].name => i = j
         /\ pc = "reclaim" => /\ Len(NewStore) \in 1..Len(NewStore)
                              /\ NewStore[Len(NewStore)] = args
         /\ pc = "reclaim" => \A i \in 1..Len(Survivors(flash, track)) :
              Survivors(flash, track)[i].name # args.name
<1> DEFINE v == Survivors(flash, track)
           b == NewStore
<1>1. /\ v \in Seq(Contents) /\ Len(v) \in Nat
      /\ \A i, j \in 1..Len(v) : v[i].name = v[j].name => i = j
      /\ \A i \in 1..Len(v) : \E p \in Alive(flash, track) :
           v[i] = Body(flash, p) /\ p \in Copies(flash, v[i].name)
  <2>1. GoodStore(flash) /\ Whole(flash) /\ \A m \in Name : AtMostOne(Added(flash, m))
    BY OneAddedEach DEF StoreInv
  <2> QED BY <2>1, SurvivorNames
<1>2. /\ pc # "reclaim" => b = v
      /\ pc = "reclaim" => args \in Contents /\ b = Append(v, args)
  BY NewStoreIs
<1>3. ASSUME pc = "reclaim", NEW p \in Alive(flash, track), p \in Copies(flash, args.name)
      PROVE  FALSE
  <2>1. Added(flash, args.name) = {} /\ Deleted(flash, args.name) = Old
    BY <1>3 DEF CopyInv, HiddenInv, Adding
  <2>2. p \in Old
    BY <1>3, <2>1, CopyIs
  <2>3. p # track.curr /\ p \notin Kept(flash, track)
    BY <1>3, <2>1, AliveIs, CopyIs
  <2>4. p \in Promoted(flash, track)
    BY <1>3, <2>3 DEF Alive
  <2>5. p # track.inDeleted
    BY <2>4 DEF Promoted
  <2> QED BY <2>2, <2>3, <2>5 DEF Old
<1> HIDE DEF v, b
<1>4. ASSUME pc = "reclaim", NEW i \in 1..Len(v) PROVE v[i].name # args.name
  BY <1>1, <1>3, <1>4
<1>5. CASE pc # "reclaim"
  BY <1>1, <1>2, <1>5 DEF b
<1>6. CASE pc = "reclaim"
  <2>1. Len(b) = Len(v) + 1 /\ b[Len(v) + 1] = args /\ \A i \in 1..Len(v) : b[i] = v[i]
    BY <1>1, <1>2, <1>6
  <2>2. ASSUME NEW i \in 1..Len(b), NEW j \in 1..Len(b), b[i].name = b[j].name PROVE i = j
    <3>1. CASE i \in 1..Len(v) /\ j \in 1..Len(v)
      BY <1>1, <2>1, <2>2, <3>1
    <3>2. CASE i = Len(v) + 1 /\ j \in 1..Len(v)
      BY <1>4, <1>6, <2>1, <2>2, <3>2
    <3>3. CASE j = Len(v) + 1 /\ i \in 1..Len(v)
      BY <1>4, <1>6, <2>1, <2>2, <3>3
    <3>4. CASE i = Len(v) + 1 /\ j = Len(v) + 1
      BY <3>4
    <3> QED BY <1>1, <2>1, <3>1, <3>2, <3>3, <3>4
  <2>3. Len(b) \in 1..Len(b) /\ b[Len(b)] = args
    BY <1>1, <2>1
  <2> QED BY <1>4, <1>6, <2>2, <2>3 DEF b, v
<1> QED BY <1>5, <1>6

\* After a reclaim each variable has one copy at the most.
LEMMA NewStoreNeat ==
  ASSUME StoreInv, Whole(flash), CopyInv, Reclaiming, Fits, NEW n, NEW c
  PROVE  Neat(Added(Compact(NewStore), n), Deleted(Compact(NewStore), n), c)
<1>1. NewStore \in Seq(Contents) /\ VarSize * Len(NewStore) <= StoreSize
      /\ \A i, j \in 1..Len(NewStore) : NewStore[i].name = NewStore[j].name => i = j
  BY NewStoreIs, NewStoreNames DEF Fits
<1> DEFINE b == NewStore
<1> HIDE DEF b
<1>2. b \in Seq(Bodies) /\ VarSize * Len(b) <= StoreSize
      /\ \A k, l \in 1..Len(b) :
           b[k] \in Contents /\ b[l] \in Contents /\ b[k].name = b[l].name => k = l
  BY <1>1, CompactWhole DEF b
<1>3. Neat(Added(Compact(b), n), Deleted(Compact(b), n), c)
  BY <1>2, CompactNeat
<1> QED BY <1>3 DEF b

\* The torn store, too.
LEMMA TornNeat ==
  ASSUME StoreInv, Whole(flash), CopyInv, Clean, pc \in {"reclaim", "reclaimForOS"}, Fits,
         NEW store \in Torn, NEW n \in Name
  PROVE  Neat(Added(store, n), Deleted(store, n), TRUE)
<1>1. CASE store = flash
  BY <1>1, AfterFailure
<1>2. ASSUME NEW c \in CutOff(NewStore), store = Compact(c)
      PROVE  Neat(Added(store, n), Deleted(store, n), TRUE)
  <2> DEFINE b == NewStore
  <2>1. /\ b \in Seq(Bodies) /\ Len(b) \in Nat /\ 2 * Len(b) <= StoreSize
        /\ \A i \in 1..Len(b) : b[i] \in Contents
        /\ \A i, j \in 1..Len(b) : b[i].name = b[j].name => i = j
    <3>1. Reclaiming
      BY DEF Reclaiming
    <3>2. b \in Seq(Contents) /\ b \in Seq(Bodies) /\ Len(b) \in Nat
      BY <3>1, NewStoreIs
    <3>3. \A i, j \in 1..Len(b) : b[i].name = b[j].name => i = j
      BY <3>1, NewStoreNames
    <3> QED BY <3>2, <3>3, SizeFacts DEF Fits
  <2>2. c \in CutOff(b)
    OBVIOUS
  <2> HIDE DEF b
  <2>3. /\ c \in Seq(Bodies) /\ Len(c) \in Nat /\ Len(c) <= Len(b)
        /\ \A i \in 1..Len(c) : c[i] = b[i] \/ c[i] \in {Erased, Garbled}
                                \/ (c[i] \in Contents /\ c[i].name = b[i].name)
    BY <2>1, <2>2, CutOffIs
  <2>4. \A i \in 1..Len(c) : c[i] \in Contents => c[i].name = b[i].name /\ i \in 1..Len(b)
    BY <2>1, <2>3, UnitFacts
  <2>5. \A i, j \in 1..Len(c) :
          c[i] \in Contents /\ c[j] \in Contents /\ c[i].name = c[j].name => i = j
    BY <2>1, <2>4
  <2>6. VarSize * Len(c) <= StoreSize
    BY <2>1, <2>3, SizeFacts
  <2> QED BY <1>2, <2>3, <2>5, <2>6, CompactNeat
<1> QED BY <1>1, <1>2 DEF Torn

\* FtwWrite accepts a new store only while none waits in the spare block.
LEMMA NoneWaits ==
  ASSUME StoreInv, WholeInv, ~refusing PROVE spare = NoSpare /\ Whole(flash)
BY DEF StoreInv, SpareInv, WholeInv

LEMMA ReclaimCopies ==
  ASSUME StoreInv, WholeInv, CopyInv, Reclaim PROVE CopyInv'
<1>1. Reclaiming /\ pc' = "idle" /\ track' = NoTrack /\ failures' = failures
      /\ refusing' = refusing /\ (Fits => ~refusing)
  BY DEF Reclaim, Return, mode, ftw
<1>2. pc' \notin Updating
  BY <1>1, StepNames
<1>3. CASE Fits
  <2>1. flash' = Compact(NewStore)
    BY <1>3 DEF Reclaim
  <2>2. \A n \in Name : Neat(Added(flash', n), Deleted(flash', n), Clean')
    BY <1>1, <1>3, <2>1, NoneWaits, NewStoreNeat
  <2> QED BY <1>1, <1>2, <2>2, OverInv
<1>4. CASE ~Fits
  <2>1. flash' = flash
    BY <1>4 DEF Reclaim
  <2>2. pc = "reclaim" /\ track.curr = 0
    BY <1>1, <1>4, NewStoreIs
  <2>3. Old = {}
    BY <2>2 DEF StoreInv, TrackInv, Old
  <2>4. Added(flash, args.name) = {} /\ Deleted(flash, args.name) = {}
    BY <2>2, <2>3 DEF CopyInv, HiddenInv, Adding
  <2>5. Neat(Added(flash, args.name), Deleted(flash, args.name), Clean)
    BY <2>4 DEF Neat, AtMostOne
  <2>6. \A n \in Name : Neat(Added(flash, n), Deleted(flash, n), Clean)
    BY <2>5 DEF CopyInv, TidyInv, Tidy
  <2> QED BY <1>1, <1>2, <2>1, <2>6, OverInv DEF Clean
<1> QED BY <1>3, <1>4

\* The steps that end a call with an error, or the power does.
LEMMA FailureCopies ==
  ASSUME SingleFailure, StoreInv, WholeInv, CopyInv, Fault \/ PowerCut PROVE CopyInv'
<1>1. /\ failures > 0 /\ failures' = failures - 1 /\ pc' \in {"idle", "boot"} /\ track' = NoTrack
      /\ refusing' = FALSE \/ refusing' = refusing
  BY DEF Fault, PowerCut, Restart, Return, mode, ftw
<1>2. Clean /\ ~Clean' /\ ~refusing /\ spare = NoSpare /\ Whole(flash)
  BY <1>1, LastFailure, NoneWaits DEF Clean
<1>3. \A n \in Name : Neat(Added(flash, n), Deleted(flash, n), FALSE)
  BY <1>2, AfterFailure
<1>4. SameCopies(flash, flash') \/ (Reclaiming /\ Fits /\ flash' = Compact(NewStore))
  <2>1. CASE Fault
    BY <2>1 DEF Fault, SameCopies
  <2>2. CASE PowerCut
    <3>1. PICK s \in Remains : s = flash'
      BY <1>2, <2>2 DEF PowerCut
    <3>2. SameCopies(flash, s) \/ (Reclaiming /\ Fits /\ s = Compact(NewStore))
      BY RemainsCopies
    <3> QED BY <3>1, <3>2
  <2> QED BY <2>1, <2>2
<1>5. \A n \in Name : Neat(Added(flash', n), Deleted(flash', n), FALSE)
  <2>1. CASE SameCopies(flash, flash')
    BY <1>3, <2>1 DEF SameCopies
  <2>2. CASE Reclaiming /\ Fits /\ flash' = Compact(NewStore)
    BY <1>2, <2>2, NewStoreNeat
  <2> QED BY <1>4, <2>1, <2>2
<1>6. \A n \in Name : Neat(Added(flash', n), Deleted(flash', n), Clean')
  BY <1>2, <1>5 DEF Neat
<1>7. pc' \notin Updating
  BY <1>1, StepNames
<1> QED BY <1>1, <1>6, <1>7, OverInv

\* A failed FtwProtocol->Write leaves a clean store: the call it ends has marked the
\* one old copy it found.
LEMMA WriteFailedCopies ==
  ASSUME SingleFailure, StoreInv, WholeInv, CopyInv, ReclaimFault \/ FlushFault \/ WriteRefused
  PROVE  CopyInv'
<1>1. /\ pc \in {"reclaim", "reclaimForOS"} /\ Fits /\ pc' = "idle" /\ track' = NoTrack
      /\ failures > 0 \/ refusing
  BY DEF ReclaimFault, FlushFault, WriteRefused, WriteFailed, Return
<1>2. Clean
  BY <1>1, LastFailure DEF Clean
<1>3. \A n \in Name : Neat(Added(flash', n), Deleted(flash', n), TRUE)
  <2>1. CASE ReclaimFault \/ FlushFault
    <3>1. ~refusing /\ flash' \in Torn \cup {Compact(NewStore)}
      BY <2>1 DEF ReclaimFault, FlushFault, WriteFailed, Torn
    <3>2. Whole(flash) /\ Reclaiming
      BY <1>1, <3>1, NoneWaits DEF Reclaiming
    <3>3. CASE flash' \in Torn
      BY <1>1, <1>2, <3>2, <3>3, TornNeat
    <3>4. CASE flash' = Compact(NewStore)
      BY <1>1, <3>2, <3>4, NewStoreNeat
    <3> QED BY <3>1, <3>3, <3>4
  <2>2. CASE WriteRefused
    <3>1. flash' = flash
      BY <2>2 DEF WriteRefused, WriteFailed
    <3> QED BY <1>1, <1>2, <3>1, AfterFailure
  <2> QED BY <2>1, <2>2
<1>4. \A n \in Name : Neat(Added(flash', n), Deleted(flash', n), Clean')
  BY <1>3 DEF Neat
<1>5. pc' \notin Updating
  BY <1>1, StepNames
<1> QED BY <1>1, <1>4, <1>5, OverInv

\* The steps outside the calls that change neither the flash nor the failures left.
LEMMA OutsideCopies ==
  ASSUME StoreInv, CopyInv, ReclaimForOS \/ ExitBootServices \/ InitStore \/ WriteServiceInitialize
  PROVE  CopyInv'
<1>1. /\ flash' = flash /\ failures' = failures /\ refusing' = refusing
      /\ pc \in {"idle", "boot", "writeService"}
      /\ pc' \in {"idle", "boot", "writeService", "reclaimAtBoot", "reclaimForOS"}
      /\ track' = track
  BY DEF ReclaimForOS, ExitBootServices, InitStore, WriteServiceInitialize, Goto, call, mode, ftw
<1>2. pc \notin Updating /\ pc' \notin Updating
  BY <1>1, StepNames
<1>3. track' = NoTrack
  BY <1>1, <1>2 DEF StoreInv, TrackInv
<1>4. \A n \in Name : Neat(Added(flash, n), Deleted(flash, n), Clean)
  BY <1>2 DEF CopyInv, TidyInv, Tidy
<1> QED BY <1>1, <1>2, <1>3, <1>4, OverInv DEF Clean

LEMMA ResetCopies ==
  ASSUME StoreInv, WholeInv, CopyInv, Reset PROVE CopyInv'
<1>1. /\ flash' = AtRestart /\ failures' = failures /\ refusing' = FALSE
      /\ pc = "idle" /\ pc' = "boot" /\ track' = NoTrack
  BY DEF Reset, Restart
<1>2. pc \notin Updating /\ pc' \notin Updating
  BY <1>1, StepNames
<1>3. Clean' => Clean
  BY <1>1 DEF Clean
<1>4. \A n \in Name : Neat(Added(flash, n), Deleted(flash, n), Clean)
  BY <1>2 DEF CopyInv, TidyInv, Tidy
<1>5. \A n \in Name : Neat(Added(AtRestart, n), Deleted(AtRestart, n), Clean')
  BY <1>3, <1>4 DEF AtRestart, WholeInv, Neat
<1> QED BY <1>1, <1>2, <1>5, OverInv

LEMMA InitCopies ==
  ASSUME Init PROVE CopyInv
<1>1. /\ pc = "boot" /\ track = NoTrack /\ flash = ErasedStore
  BY DEF Init
<1>2. \A n : Added(flash, n) = {} /\ Deleted(flash, n) = {}
  BY <1>1, ErasedGood, CopyIs
<1>3. TidyInv
  BY <1>2 DEF TidyInv, Tidy, Neat, AtMostOne
<1>4. pc \notin Updating /\ pc \notin {"mark", "append", "deleteInDeleted", "deleteCurr"} \cup Adding
  BY <1>1, StepNames DEF Adding, Appending
<1>5. FoundInv /\ HiddenInv /\ ReplacedInv /\ RemovedInv /\ ReplyInv
  BY <1>4 DEF FoundInv, HiddenInv, ReplacedInv, RemovedInv, ReplyInv
<1>6. LeftInv
  BY <1>1, <1>4, NoTrackFacts DEF LeftInv
<1> QED BY <1>3, <1>5, <1>6 DEF CopyInv

\* A step that writes nothing, or copies the flash into the cache.
LEMMA SameWhole ==
  ASSUME WholeInv, flash' = flash, cache' \in {cache, flash}, spare' = spare PROVE WholeInv'
BY DEF WholeInv

LEMMA BitsWhole ==
  ASSUME StoreInv, WholeInv, Mark \/ DeleteInDeleted \/ DeleteCurr PROVE WholeInv'
<1> DEFINE p == IF pc = "deleteInDeleted" THEN track.inDeleted ELSE track.curr
           bits == IF pc = "mark" THEN VAR_IN_DELETED_TRANSITION ELSE VAR_DELETED
<1>1. /\ pc \in {"mark", "deleteInDeleted", "deleteCurr"}
      /\ flash' = SetState(flash, p, bits) /\ cache' = SetState(cache, p, bits)
      /\ last' = last /\ total' = total /\ spare' = spare
  BY DEF Mark, DeleteInDeleted, DeleteCurr, mode, ftw
<1> HIDE DEF p, bits
<1>2. /\ cache' = flash' /\ p \in Headers(cache) /\ (pc # "mark" => ~IsCopy(cache'[p]))
  BY <1>1, BitsStore DEF p, bits
<1>3. /\ cache = flash /\ GoodStore(flash) /\ flash[p].state # {} /\ (pc = "mark" => IsCopy(flash[p]))
  BY <1>1, StateFacts DEF StoreInv, SyncInv, TrackInv, Appending, IsCopy, p
<1>4. bits \subseteq StateBits
  BY BitsFacts DEF bits
<1>5. spare = NoSpare => Whole(flash')
  BY <1>1, <1>2, <1>3, <1>4, SetStateWhole DEF WholeInv
<1> QED BY <1>1, <1>2, <1>5 DEF WholeInv

LEMMA WritesWhole ==
  ASSUME StoreInv, WholeInv, WriteHeader \/ WriteHeaderValid \/ WriteData PROVE WholeInv'
<1>1. cache' = cache /\ spare' = spare
  BY DEF WriteHeader, WriteHeaderValid, WriteData, memory, mode, ftw
<1>2. spare = NoSpare => Whole(flash')
  BY WritesAhead, PutWhole DEF WholeInv
<1> QED BY <1>1, <1>2 DEF WholeInv

LEMMA AddedWhole ==
  ASSUME StoreInv, WholeInv, WriteAdded PROVE WholeInv'
<1>1. spare' = spare /\ pc = "added"
  BY DEF WriteAdded, mode, ftw
<1>2. /\ flash' = Put(cache, last, HeaderUnit(VAR_ADDED), BodyUnit(args)) /\ cache' = flash'
      /\ args \in Contents
  BY AddedIs
<1>3. /\ last = End(cache) /\ GoodStore(cache) /\ Free(cache, last) /\ last + 1 <= StoreSize
  BY <1>1, AppendsAt DEF Appending
<1>4. /\ HeaderUnit(VAR_ADDED) \in Unit /\ HeaderUnit(VAR_ADDED).start
      /\ BodyUnit(args) \in Unit /\ ~BodyUnit(args).start /\ BodyUnit(args).body \in Contents
  BY <1>2, UnitFacts
<1>5. spare = NoSpare => Whole(flash')
  BY <1>2, <1>3, <1>4, PutWhole DEF WholeInv
<1> QED BY <1>1, <1>2, <1>5 DEF WholeInv

LEMMA NewStoreWhole ==
  ASSUME StoreInv, WholeInv, Reclaiming, Fits, ~refusing PROVE Whole(Compact(NewStore))
<1>1. NewStore \in Seq(Contents)
  BY NoneWaits, NewStoreIs
<1> QED BY <1>1, CompactWhole DEF Fits

LEMMA ReclaimWhole ==
  ASSUME StoreInv, WholeInv, CopyInv, Reclaim \/ ReclaimFault \/ FlushFault \/ WriteRefused
  PROVE  WholeInv'
<1>1. CASE Reclaim /\ ~Fits
  BY <1>1, SameWhole DEF Reclaim, mode, ftw
<1>2. CASE WriteRefused
  BY <1>2, SameWhole DEF WriteRefused, WriteFailed, ftw
<1>3. CASE (Reclaim /\ Fits) \/ ReclaimFault
  <2>1. /\ Reclaiming /\ Fits /\ ~refusing /\ spare' = spare
        /\ flash' \in {flash, Compact(NewStore)} /\ cache' = flash'
    BY <1>3 DEF Reclaim, ReclaimFault, WriteFailed, Reclaiming, mode, ftw
  <2>2. spare = NoSpare /\ Whole(flash) /\ Whole(Compact(NewStore))
    BY <2>1, NoneWaits, NewStoreWhole
  <2> QED BY <2>1, <2>2 DEF WholeInv
<1>4. CASE FlushFault
  <2>1. Reclaiming /\ Fits /\ ~refusing /\ spare' = Compact(NewStore)
    BY <1>4 DEF FlushFault, WriteFailed, Reclaiming
  <2>2. Whole(flash) /\ Whole(Compact(NewStore))
    BY <2>1, NoneWaits, NewStoreWhole
  <2>3. \A n \in Name :
          Neat(Added(Compact(NewStore), n), Deleted(Compact(NewStore), n), TRUE)
    BY <2>1, <2>2, NewStoreNeat
  <2>4. spare' # NoSpare
    BY <2>1, NewStoreIs, DriverAssumption DEF GoodStore
  <2> QED BY <2>1, <2>2, <2>3, <2>4 DEF WholeInv
<1> QED BY <1>1, <1>2, <1>3, <1>4

LEMMA RestartWhole ==
  ASSUME StoreInv, WholeInv, Reset \/ PowerCut PROVE WholeInv'
<1>1. spare' = NoSpare /\ Whole(cache')
  BY ErasedGood DEF Reset, PowerCut, Restart
<1>2. Whole(flash')
  <2>1. CASE flash' = AtRestart
    BY <2>1 DEF AtRestart, WholeInv
  <2>2. CASE PowerCut /\ spare = NoSpare
    <3>1. flash' \in Remains /\ Whole(flash) /\ Whole(cache)
      BY <2>2 DEF PowerCut, WholeInv
    <3>2. CASE Reclaiming /\ Fits /\ ~refusing /\ flash' = Compact(NewStore)
      BY <3>2, NewStoreWhole
    <3>3. ASSUME pc \in {"header"} \cup Appending,
                 NEW u \in Unit, NEW v \in Unit, flash' = Put(cache, last, u, v),
                 ~v.start, ~IsCopy(u)
          PROVE  Whole(flash')
      <4>1. last = End(cache) /\ GoodStore(cache) /\ Free(cache, last) /\ last + 1 <= StoreSize
        BY <3>3, AppendsAt
      <4> QED BY <3>1, <3>3, <4>1, PutWhole
    <3> QED BY <3>1, <3>2, <3>3, RemainsPut
  <2> QED BY <2>1, <2>2 DEF Reset, PowerCut, AtRestart
<1> QED BY <1>1, <1>2 DEF WholeInv

LEMMA NextWhole ==
  ASSUME StoreInv, WholeInv, CopyInv, [Next]_vars PROVE WholeInv'
<1>1. CASE \/ UNCHANGED vars \/ CheckSpace \/ WriteServiceInitialize \/ ReclaimForOS
           \/ ExitBootServices \/ Fault \/ \E n \in Name, v \in Value \cup {NoValue} : SetVariable(n, v)
  <2>1. flash' = flash /\ cache' = cache /\ spare' = spare
    BY <1>1 DEF vars, memory, mode, ftw, CheckSpace, WriteServiceInitialize, ReclaimForOS,
                ExitBootServices, Fault, SetVariable
  <2> QED BY <2>1, SameWhole
<1>2. CASE InitStore
  BY <1>2, SameWhole DEF InitStore, mode, ftw
<1>3. CASE Mark \/ DeleteInDeleted \/ DeleteCurr
  BY <1>3, BitsWhole
<1>4. CASE WriteHeader \/ WriteHeaderValid \/ WriteData \/ WriteAdded
  BY <1>4, WritesWhole, AddedWhole
<1>5. CASE Reclaim \/ ReclaimFault \/ FlushFault \/ WriteRefused
  BY <1>5, ReclaimWhole
<1>6. CASE Reset \/ PowerCut
  BY <1>6, RestartWhole
<1> QED BY <1>1, <1>2, <1>3, <1>4, <1>5, <1>6 DEF Next, DriverStep, UpdateStep

LEMMA NextCopies ==
  ASSUME SingleFailure, StoreInv, WholeInv, CopyInv, [Next]_vars PROVE CopyInv'
<1>1. CASE UNCHANGED vars
  <2>1. /\ pc' = pc /\ args' = args /\ track' = track /\ reply' = reply
        /\ flash' = flash /\ total' = total
        /\ failures' = failures /\ atRuntime' = atRuntime /\ refusing' = refusing
    BY <1>1 DEF vars, memory, call, mode, ftw
  <2>2. TidyInv' /\ FoundInv' /\ HiddenInv'
    BY <2>1 DEF CopyInv, TidyInv, Tidy, Clean, FoundInv, HiddenInv, Old
  <2>3. ReplacedInv' /\ RemovedInv' /\ LeftInv' /\ ReplyInv'
    BY <2>1 DEF CopyInv, ReplacedInv, RemovedInv, LeftInv, ReplyInv, Clean, Old, NoRoom
  <2> QED BY <2>2, <2>3 DEF CopyInv
<1>2. CASE DriverStep
  BY <1>2, MarkCopies, CheckSpaceCopies, WritesKeep, WriteAddedCopies, DeleteInDeletedCopies,
     DeleteCurrCopies, ReclaimCopies, OutsideCopies DEF DriverStep, UpdateStep
<1>3. CASE \E n \in Name, v \in Value \cup {NoValue} : SetVariable(n, v)
  BY <1>3, SetVariableCopies
<1>4. CASE ReclaimForOS \/ ExitBootServices \/ Reset \/ Fault \/ ReclaimFault
          \/ FlushFault \/ WriteRefused \/ PowerCut
  BY <1>4, OutsideCopies, ResetCopies, FailureCopies, WriteFailedCopies
<1> QED BY <1>1, <1>2, <1>3, <1>4 DEF Next

\* Each variable has at most one ADDED copy and one in delete transition, the
\* latter older, outside the call that changes it; and each copy has its name and
\* data, unless a failed FtwProtocol->Write has left a torn store.
THEOREM CopiesInvariant ==
  ASSUME SingleFailure PROVE Spec => [](StoreInv /\ WholeInv /\ CopyInv)
<1>1. AppendNeverFails
  BY DEF SingleFailure
<1>2. Init => StoreInv /\ WholeInv /\ CopyInv
  <2> SUFFICES ASSUME Init PROVE StoreInv /\ WholeInv /\ CopyInv
    OBVIOUS
  <2>1. WholeInv
    BY ErasedGood DEF Init, WholeInv
  <2> QED BY <2>1, InitStoreInv, InitCopies
<1>3. StoreInv /\ WholeInv /\ CopyInv /\ [Next]_vars => StoreInv' /\ WholeInv' /\ CopyInv'
  BY <1>1, NextStore, NextWhole, NextCopies
<1> QED BY <1>2, <1>3, PTL DEF Spec

\* No variable has two ADDED copies, at any step of the driver: UpdateVariable
\* marks the old copy before it adds the new one, and Reclaim keeps one of each.
THEOREM OneAddedCorrect ==
  ASSUME SingleFailure PROVE Spec => []OneAddedCopy
<1>1. CopyInv => OneAddedCopy
  <2> SUFFICES ASSUME CopyInv, NEW n \in Name PROVE Cardinality(Added(flash, n)) <= 1
    BY DEF OneAddedCopy, Added
  <2>1. AtMostOne(Added(flash, n))
    BY OneAddedEach
  <2>2. CASE Added(flash, n) = {}
    <3>1. Cardinality(Added(flash, n)) = 0
      BY <2>2, FS_EmptySet
    <3> QED BY <3>1
  <2>3. ASSUME NEW p \in Added(flash, n) PROVE Cardinality(Added(flash, n)) <= 1
    <3>1. Added(flash, n) = {p}
      BY <2>1, <2>3 DEF AtMostOne
    <3>2. Cardinality(Added(flash, n)) = 1
      BY <3>1, FS_Singleton
    <3> QED BY <3>2
  <2> QED BY <2>2, <2>3
<1> QED BY <1>1, CopiesInvariant, PTL

\* Outside the calls Reclaim, which keeps the first of several copies in delete
\* transition, and FindVariableEx, which takes the last, agree on every variable, as
\* long as no store waits in the spare block.
THEOREM LookupsCorrect ==
  ASSUME SingleFailure PROVE Spec => []LookupsAgree
<1>1. StoreInv /\ WholeInv /\ CopyInv => LookupsAgree
  <2> SUFFICES ASSUME StoreInv, WholeInv, CopyInv, pc \notin Updating, spare = NoSpare, NEW n \in Name
      PROVE Get(Compact(Survivors(flash, NoTrack)), n) = Get(flash, n)
    BY DEF LookupsAgree
  <2>1. GoodStore(flash) /\ Whole(flash) /\ \A m \in Name : AtMostOne(Added(flash, m))
    BY OneAddedEach DEF StoreInv, WholeInv
  <2>2. AtMostOne(Deleted(flash, n))
    BY DEF CopyInv, TidyInv, Tidy, Neat
  <2>3. {NoTrack.curr, NoTrack.inDeleted} \cap Copies(flash, n) = {}
    BY NoTrackFacts, CopiesAre
  <2> DEFINE b == Survivors(flash, NoTrack)
  <2>4. b \in Seq(Contents) /\ VarSize * Len(b) <= StoreSize
    BY <2>1, SurvivorsGood
  <2>5. \A i, j \in 1..Len(b) : b[i].name = b[j].name => i = j
    BY <2>1, SurvivorNames
  <2>6. b = Survivors(flash, NoTrack)
    OBVIOUS
  <2> HIDE DEF b
  <2>7. Get(Compact(b), n) = Get(flash, n)
    BY <2>1, <2>2, <2>3, <2>4, <2>5, <2>6, ReclaimValue
  <2> QED BY <2>7 DEF b
<1> QED BY <1>1, CopiesInvariant, PTL

\* What does not fit is a variable that can be read, or the new one.
LEMMA FullWhenRefused ==
  ASSUME StoreInv, Whole(flash), CopyInv, pc = "reclaim", ~Fits
  PROVE  VarSize * Cardinality({n \in Name : Get(flash, n) # NoValue} \cup {args.name}) > StoreSize
<1> DEFINE R == {n \in Name : Get(flash, n) # NoValue}
           T == R \cup {args.name}
           k == Len(NewStore)
           f == [i \in 1..k |-> NewStore[i].name]
<1>0. Reclaiming
  BY DEF Reclaiming
<1>1. IsFiniteSet(R)
  <2> DEFINE H == {p \in Headers(flash) : IsCopy(flash[p])}
             g == [p \in H |-> Body(flash, p).name]
             Names == {g[p] : p \in H}
  <2>1. IsFiniteSet(H)
    <3>1. H \subseteq Offset
      BY WalkFacts
    <3> QED BY <3>1, OffsetsFinite
  <2>2. g \in Surjection(H, Names)
    BY DEF Surjection
  <2>3. IsFiniteSet(Names)
    BY <2>1, <2>2, FS_Surjection
  <2>4. ASSUME NEW n \in R PROVE n \in Names
    <3>1. Copies(flash, n) # {}
      BY GetIs
    <3>2. PICK p : p \in Copies(flash, n)
      BY <3>1
    <3>3. p \in H /\ Body(flash, p).name = n
      BY <3>2, CopyIs
    <3>4. g[p] = n
      BY <3>3
    <3> QED BY <3>3, <3>4
  <2>5. R \in SUBSET Names
    BY <2>4
  <2> QED BY <2>3, <2>5, FS_Subset
<1>2. IsFiniteSet(T)
  BY <1>1, FS_AddElement
<1>3. /\ k \in Nat /\ NewStore \in Seq(Contents)
      /\ NewStore = Append(Survivors(flash, track), args)
      /\ k = Len(Survivors(flash, track)) + 1 /\ Len(Survivors(flash, track)) \in Nat
      /\ Survivors(flash, track) \in Seq(Contents)
  BY <1>0, NewStoreIs
<1>4. \A i, j \in 1..k : f[i] = f[j] => i = j
  <2>1. \A i, j \in 1..Len(NewStore) : NewStore[i].name = NewStore[j].name => i = j
    BY <1>0, NewStoreNames
  <2> QED BY <2>1
<1>5. ASSUME NEW i \in 1..k PROVE f[i] \in T
  <2> DEFINE v == Survivors(flash, track)
  <2>1. \A j \in 1..Len(v) : \E p \in Alive(flash, track) :
          v[j] = Body(flash, p) /\ p \in Copies(flash, v[j].name)
    <3>1. GoodStore(flash) /\ Whole(flash) /\ \A m \in Name : AtMostOne(Added(flash, m))
      BY OneAddedEach DEF StoreInv
    <3> QED BY <3>1, SurvivorNames
  <2>2. v \in Seq(Contents) /\ Len(v) \in Nat /\ k = Len(v) + 1 /\ NewStore = Append(v, args)
    BY <1>3
  <2> HIDE DEF v
  <2>3. CASE i = Len(v) + 1
    <3>1. NewStore[i] = args
      BY <2>2, <2>3
    <3> QED BY <3>1
  <2>4. CASE i \in 1..Len(v)
    <3>0. v[i] \in Contents
      BY <2>2, <2>4
    <3>1. NewStore[i] = v[i] /\ v[i].name \in Name
      <4>1. v[i].name \in Name
        BY <3>0 DEF Contents
      <4>2. Append(v, args)[i] = v[i]
        BY <2>2, <2>4
      <4> QED BY <2>2, <4>1, <4>2
    <3>2. Copies(flash, v[i].name) # {}
      BY <2>1, <2>4
    <3>3. Get(flash, v[i].name) \in Value
      BY <3>2, GetIs
    <3>4. v[i].name \in R
      BY <3>1, <3>3, StoreAssumption
    <3> QED BY <3>1, <3>4
  <2> QED BY <2>2, <2>3, <2>4
<1>6. f \in Injection(1..k, T)
  BY <1>4, <1>5 DEF Injection, IsInjective
<1>7. IsFiniteSet(1..k) /\ Cardinality(1..k) = k
  BY <1>3, FS_Interval
<1> HIDE DEF f, T
<1>8. Cardinality(1..k) <= Cardinality(T)
  BY <1>2, <1>6, FS_Injection
<1>9. Cardinality(T) \in Nat
  BY <1>2, FS_CardinalityType
<1> QED BY <1>3, <1>7, <1>8, <1>9, SizeFacts DEF Fits, T

\* A refusal is over when the driver starts.
FullInv == RefusedOnlyWhenFull /\ (pc \in Starting => reply = "none")

LEMMA NextFull ==
  ASSUME StoreInv, WholeInv, CopyInv, FullInv, [Next]_vars PROVE FullInv'
<1>1. pc' \in Starting => reply' = "none"
  <2>1. CASE UNCHANGED vars
    BY <2>1 DEF vars, FullInv
  <2>2. CASE InitStore \/ WriteServiceInitialize \/ Reset \/ PowerCut
    BY <2>2 DEF InitStore, WriteServiceInitialize, Reset, PowerCut, Restart, Goto, call, FullInv,
                Starting
  <2>3. CASE UpdateStep \/ Reclaim \/ ReclaimForOS \/ ExitBootServices \/ Fault
             \/ ReclaimFault \/ FlushFault \/ WriteRefused
             \/ \E n \in Name, v \in Value \cup {NoValue} : SetVariable(n, v)
    <3>1. pc' \notin Starting
      BY <2>3 DEF UpdateStep, Mark, CheckSpace, WriteHeader, WriteHeaderValid, WriteData, WriteAdded,
                  DeleteInDeleted, DeleteCurr, Reclaim, ReclaimForOS, ExitBootServices, Fault,
                  ReclaimFault, FlushFault, WriteRefused, WriteFailed, SetVariable, Goto, Return,
                  Starting
    <3> QED BY <3>1
  <2> QED BY <2>1, <2>2, <2>3 DEF Next, DriverStep
<1>2. RefusedOnlyWhenFull'
  <2> DEFINE Full(s, n) ==
               VarSize * Cardinality({m \in Name : Get(s, m) # NoValue} \cup {n}) > StoreSize
  <2>1. CASE UNCHANGED vars
    BY <2>1 DEF vars, memory, call, mode, ftw, FullInv, RefusedOnlyWhenFull
  <2>2. CASE Reclaim /\ ~Fits
    <3>1. Reclaiming /\ flash' = flash /\ args' = args /\ spare' = spare
      BY <2>2 DEF Reclaim, Return, mode, ftw
    <3>2. pc = "reclaim"
      BY <2>2, <3>1, NewStoreIs
    <3>3. spare = NoSpare => Full(flash, args.name)
      BY <2>2, <3>2, FullWhenRefused DEF WholeInv
    <3> HIDE DEF Full
    <3>4. spare' = NoSpare => Full(flash', args'.name)
      BY <3>1, <3>3
    <3> QED BY <3>4 DEF Full, RefusedOnlyWhenFull
  <2>3. CASE ReclaimForOS
    <3>1. /\ pc = "idle" /\ reply' = reply /\ flash' = flash /\ args' = args
          /\ atRuntime' = atRuntime /\ spare' = spare
      BY <2>3 DEF ReclaimForOS, Goto, call, ftw
    <3> QED BY <3>1 DEF FullInv, RefusedOnlyWhenFull
  <2>4. CASE \/ UpdateStep \/ (Reclaim /\ Fits) \/ InitStore \/ WriteServiceInitialize
             \/ ExitBootServices \/ Reset \/ Fault \/ ReclaimFault \/ FlushFault
             \/ WriteRefused \/ PowerCut
             \/ \E n \in Name, v \in Value \cup {NoValue} : SetVariable(n, v)
    <3>1. ~(pc' = "idle" /\ reply' = "full" /\ ~atRuntime')
      <4>1. CASE UpdateStep \/ (Reclaim /\ Fits) \/ InitStore
        BY <4>1 DEF UpdateStep, Mark, CheckSpace, WriteHeader, WriteHeaderValid, WriteData,
                    WriteAdded, DeleteInDeleted, DeleteCurr, Reclaim, InitStore, Goto, Return,
                    mode
      <4>2. CASE WriteServiceInitialize
        BY <4>2 DEF WriteServiceInitialize, Goto, call, FullInv, Starting
      <4>3. CASE ExitBootServices \/ Reset \/ PowerCut
        BY <4>3 DEF ExitBootServices, Reset, PowerCut, Restart
      <4>4. CASE Fault \/ ReclaimFault \/ FlushFault \/ WriteRefused
        BY <4>4 DEF Fault, ReclaimFault, FlushFault, WriteRefused, WriteFailed, Return
      <4>5. CASE \E n \in Name, v \in Value \cup {NoValue} : SetVariable(n, v)
        BY <4>5 DEF SetVariable
      <4> QED BY <2>4, <4>1, <4>2, <4>3, <4>4, <4>5
    <3> QED BY <3>1 DEF RefusedOnlyWhenFull
  <2> QED BY <2>1, <2>2, <2>3, <2>4 DEF Next, DriverStep
<1> QED BY <1>1, <1>2 DEF FullInv

\* At boot time SetVariable reports EFI_OUT_OF_RESOURCES only when the variables that
\* can be read and the new one do not fit, as long as no store waits in the spare
\* block: Reclaim drops all else.
THEOREM RefusedCorrect ==
  ASSUME SingleFailure PROVE Spec => []RefusedOnlyWhenFull
<1>1. Init => FullInv
  BY DEF Init, FullInv, RefusedOnlyWhenFull
<1>2. StoreInv /\ WholeInv /\ CopyInv /\ FullInv /\ [Next]_vars => FullInv'
  BY NextFull
<1>3. FullInv => RefusedOnlyWhenFull
  BY DEF FullInv
<1> QED BY <1>1, <1>2, <1>3, CopiesInvariant, PTL DEF Spec

-----------------------------------------------------------------------------
(* The flash implements the map of VarMap: what each step does to the value *)
(* of each variable.                                                        *)

LEMMA SameGet ==
  ASSUME NEW s, NEW t, NEW n, Added(t, n) = Added(s, n), Deleted(t, n) = Deleted(s, n),
         \A p \in Copies(s, n) : Body(t, p) = Body(s, p)
  PROVE  Get(t, n) = Get(s, n)
<1>1. Copies(t, n) = Copies(s, n)
  <2>1. Copies(t, n) = Added(t, n) \cup Deleted(t, n)
        /\ Copies(s, n) = Added(s, n) \cup Deleted(s, n)
    BY CopiesAre
  <2> QED BY <2>1
<1>2. FindVariableEx(t, n) = FindVariableEx(s, n)
  <2>1. \A x, y : FindVariableEx(x, n) = (
          IF Added(x, n) # {}
          THEN [curr |-> Min(Added(x, n)),
                inDeleted |-> Largest({p \in Copies(x, n) \ Added(x, n) : p < Min(Added(x, n))})]
          ELSE [curr |-> Largest(Copies(x, n) \ Added(x, n)), inDeleted |-> 0])
    BY DEF FindVariableEx, Added
  <2> QED BY <1>1, <2>1
<1>3. FindVariableEx(s, n).curr \in Copies(s, n) \cup {0}
  BY FindIs
<1> QED BY <1>2, <1>3 DEF Get

LEMMA SameCopiesGet ==
  ASSUME NEW s, NEW t, SameCopies(s, t) PROVE \A n : Get(t, n) = Get(s, n)
BY SameGet DEF SameCopies

LEMMA MarkValues ==
  ASSUME StoreInv, CopyInv, Mark, NEW m \in Name PROVE Get(flash', m) = Get(flash, m)
<1> DEFINE p == track.curr
           n == args.name
<1>1. /\ pc = "mark"
      /\ flash' = SetState(flash, p, VAR_IN_DELETED_TRANSITION)
      /\ cache' = SetState(cache, p, VAR_IN_DELETED_TRANSITION)
      /\ last' = last /\ total' = total
  BY DEF Mark, mode
<1>2. n \in Name /\ p # 0
  BY <1>1 DEF StoreInv, SmallTypes, TrackInv
<1>3. track = FindVariableEx(flash, n) /\ Neat(Added(flash, n), Deleted(flash, n), Clean)
  BY <1>1, <1>2 DEF CopyInv, FoundInv, TidyInv, Tidy
<1>4. \/ /\ Added(flash, n) = {p} /\ Deleted(flash, n) = {track.inDeleted} \ {0}
         /\ track.inDeleted # 0 => track.inDeleted < p
      \/ Added(flash, n) = {} /\ Deleted(flash, n) = {p} /\ track.inDeleted = 0
  BY <1>2, <1>3, FoundTidy
<1>5. p \in Copies(flash, n) /\ p \in Nat
  <2>1. p \in Copies(flash, n)
    BY <1>4, CopyIs
  <2> QED BY <2>1, CopiesAre, SizeFacts
<1>6. /\ p \in Copies(flash, m) =>
           Added(flash', m) = Added(flash, m) \ {p}
           /\ Deleted(flash', m) = Deleted(flash, m) \cup {p}
      /\ p \notin Copies(flash, m) =>
           Added(flash', m) = Added(flash, m) /\ Deleted(flash', m) = Deleted(flash, m)
      /\ \A q \in Headers(flash) : Body(flash', q) = Body(flash, q)
  BY <1>1, BitsCopies
<1>7. CASE m # n
  <2>1. p \notin Copies(flash, m)
    BY <1>5, <1>7, CopyIs
  <2>2. \A q \in Copies(flash, m) : Body(flash', q) = Body(flash, q)
    BY <1>6, CopyIs
  <2> QED BY <1>6, <2>1, <2>2, SameGet
<1>8. CASE m = n
  <2>1. Added(flash', n) = {} /\ p \in Deleted(flash', n)
        /\ \A q \in Deleted(flash', n) : q <= p
    <3>1. Added(flash', n) = Added(flash, n) \ {p} /\ Deleted(flash', n) = Deleted(flash, n) \cup {p}
      BY <1>5, <1>6, <1>8
    <3>2. CASE Added(flash, n) = {p} /\ Deleted(flash, n) = {track.inDeleted} \ {0}
               /\ (track.inDeleted # 0 => track.inDeleted < p)
      <4>1. Added(flash', n) = {} /\ Deleted(flash', n) = ({track.inDeleted} \ {0}) \cup {p}
        BY <3>1, <3>2
      <4>2. track.inDeleted # 0 => track.inDeleted \in Nat
        <5>1. track.inDeleted # 0 => track.inDeleted \in Copies(flash, n)
          BY <3>2, CopyIs
        <5> QED BY <5>1, CopiesAre, SizeFacts
      <4>3. \A q \in ({track.inDeleted} \ {0}) \cup {p} : q <= p
        BY <1>5, <3>2, <4>2
      <4> QED BY <4>1, <4>3
    <3>3. CASE Added(flash, n) = {} /\ Deleted(flash, n) = {p}
      <4>1. Added(flash', n) = {} /\ Deleted(flash', n) = {p}
        BY <3>1, <3>3
      <4> QED BY <1>5, <4>1
    <3> QED BY <1>4, <3>2, <3>3
  <2>2. Get(flash', n) = Body(flash', p).value
    BY <2>1, GetIs
  <2>3. Body(flash', p) = Body(flash, p)
    BY <1>5, <1>6, CopyIs
  <2>4. Get(flash, n) = Body(flash, p).value
    <3>1. CASE Added(flash, n) = {p}
      BY <3>1, GetIs
    <3>2. CASE Added(flash, n) = {} /\ Deleted(flash, n) = {p}
      <4>1. p \in Deleted(flash, n) /\ \A q \in Deleted(flash, n) : q <= p
        BY <1>5, <3>2
      <4> QED BY <3>2, <4>1, GetIs
    <3> QED BY <1>4, <3>1, <3>2
  <2> QED BY <1>8, <2>2, <2>3, <2>4
<1> QED BY <1>7, <1>8

LEMMA WriteAddedValues ==
  ASSUME StoreInv, CopyInv, WriteAdded, NEW m \in Name
  PROVE  Get(flash', m) = IF m = args.name THEN args.value ELSE Get(flash, m)
<1>1. pc = "added"
  BY DEF WriteAdded
<1>2. CASE m = args.name
  <2>1. Added(flash, m) = {}
    BY <1>1, <1>2 DEF CopyInv, HiddenInv, Adding, Appending
  <2>2. Added(flash', m) = {last} /\ Body(flash', last) = args
    BY <1>2, <2>1, AddCopies
  <2>3. Get(flash', m) = Body(flash', last).value
    BY <2>2, GetIs
  <2> QED BY <1>2, <2>2, <2>3
<1>3. CASE m # args.name
  <2>1. /\ Added(flash', m) = Added(flash, m) /\ Deleted(flash', m) = Deleted(flash, m)
        /\ \A p \in Copies(flash, m) : Body(flash', p) = Body(flash, p)
    BY <1>3, AddCopies
  <2> QED BY <1>3, <2>1, SameGet
<1> QED BY <1>2, <1>3

LEMMA DeleteInDeletedValues ==
  ASSUME StoreInv, CopyInv, DeleteInDeleted, NEW m \in Name
  PROVE  Get(flash', m) = Get(flash, m)
<1> DEFINE p == track.inDeleted
           n == args.name
<1>1. /\ pc = "deleteInDeleted"
      /\ flash' = SetState(flash, p, VAR_DELETED) /\ cache' = SetState(cache, p, VAR_DELETED)
      /\ last' = last /\ total' = total
  BY DEF DeleteInDeleted, mode
<1>2. p # 0 /\ track.curr # 0 /\ p # track.curr
  BY <1>1 DEF StoreInv, TrackInv
<1>3. /\ Added(flash', m) = Added(flash, m) \ {p} /\ Deleted(flash', m) = Deleted(flash, m) \ {p}
      /\ \A q \in Headers(flash) : Body(flash', q) = Body(flash, q)
  BY <1>1, BitsCopies
<1>4. p \in Deleted(flash, n) /\ \E a : Added(flash, n) = {a}
  <2>1. CASE args.value \in Value
    BY <1>1, <1>2, <2>1 DEF CopyInv, ReplacedInv, Old
  <2>2. CASE args.value \notin Value
    BY <1>1, <2>2 DEF CopyInv, RemovedInv
  <2> QED BY <2>1, <2>2
<1>5. CASE m # n
  <2>1. p \notin Added(flash, m) /\ p \notin Deleted(flash, m)
    BY <1>4, <1>5, CopyIs
  <2>2. Added(flash', m) = Added(flash, m) /\ Deleted(flash', m) = Deleted(flash, m)
    BY <1>3, <2>1
  <2>3. \A q \in Copies(flash, m) : Body(flash', q) = Body(flash, q)
    BY <1>3, CopyIs
  <2> QED BY <2>2, <2>3, SameGet
<1>6. CASE m = n
  <2>1. PICK a : Added(flash, n) = {a}
    BY <1>4
  <2>2. a # p /\ a \in Headers(flash)
    BY <1>4, <2>1, CopyIs
  <2>3. Added(flash', n) = {a} /\ Body(flash', a) = Body(flash, a)
    BY <1>3, <1>6, <2>1, <2>2
  <2>4. Get(flash', n) = Body(flash', a).value /\ Get(flash, n) = Body(flash, a).value
    BY <2>1, <2>3, GetIs
  <2> QED BY <1>6, <2>3, <2>4
<1> QED BY <1>5, <1>6

LEMMA DeleteCurrValues ==
  ASSUME StoreInv, CopyInv, DeleteCurr, NEW m \in Name
  PROVE  /\ Get(flash', m) = IF m = args.name THEN args.value ELSE Get(flash, m)
         /\ args.value \in Value /\ m = args.name => Get(flash, m) = args.value
<1> DEFINE n == args.name
<1>1. /\ m # n => Added(flash', m) = Added(flash, m) /\ Deleted(flash', m) = Deleted(flash, m)
      /\ \A q \in Headers(flash) : Body(flash', q) = Body(flash, q)
      /\ args.value \in Value => \E new \in Headers(flash) :
           /\ Added(flash, n) = {new} /\ Added(flash', n) = {new}
           /\ Body(flash, new) = args /\ Body(flash', new) = args
      /\ args.value \notin Value => Copies(flash', n) = {}
  BY DeleteCurrLeaves
<1>2. CASE m # n
  <2>1. \A q \in Copies(flash, m) : Body(flash', q) = Body(flash, q)
    BY <1>1, CopyIs
  <2>2. Get(flash', m) = Get(flash, m)
    BY <1>1, <1>2, <2>1, SameGet
  <2> QED BY <1>2, <2>2
<1>3. CASE m = n /\ args.value \in Value
  <2>1. PICK new : /\ Added(flash, n) = {new} /\ Added(flash', n) = {new}
                   /\ Body(flash, new) = args /\ Body(flash', new) = args
    BY <1>1, <1>3
  <2>2. Get(flash, n) = Body(flash, new).value /\ Get(flash', n) = Body(flash', new).value
    BY <2>1, GetIs
  <2> QED BY <1>3, <2>1, <2>2
<1>4. CASE m = n /\ args.value \notin Value
  <2>1. args.value = NoValue
    BY <1>4 DEF StoreInv, SmallTypes
  <2>2. Get(flash', n) = NoValue
    BY <1>1, <1>4, GetIs
  <2> QED BY <1>4, <2>1, <2>2
<1> QED BY <1>2, <1>3, <1>4

LEMMA NewStoreValues ==
  ASSUME StoreInv, Whole(flash), CopyInv, Reclaiming, Fits, NEW m \in Name
  PROVE  Get(Compact(NewStore), m) =
           IF pc = "reclaim" /\ m = args.name THEN args.value ELSE Get(flash, m)
<1> DEFINE b == NewStore
<1>1. b \in Seq(Contents) /\ VarSize * Len(b) <= StoreSize
      /\ \A i, j \in 1..Len(b) : b[i].name = b[j].name => i = j
  BY NewStoreIs, NewStoreNames DEF Fits
<1>2. /\ pc # "reclaim" => b = Survivors(flash, track)
      /\ pc = "reclaim" => args \in Contents /\ b = Append(Survivors(flash, track), args)
  BY NewStoreIs
<1>3. pc = "reclaim" => Len(b) \in 1..Len(b) /\ b[Len(b)] = args
  BY NewStoreNames
<1> HIDE DEF b
<1>4. CASE pc = "reclaim" /\ m = args.name
  <2>1. Get(Compact(b), m) = b[Len(b)].value
    BY <1>1, <1>3, <1>4, CompactOnce
  <2> QED BY <1>3, <1>4, <2>1 DEF b
<1>5. CASE ~(pc = "reclaim" /\ m = args.name)
  <2>1. GoodStore(flash) /\ Whole(flash) /\ \A k \in Name : AtMostOne(Added(flash, k))
    BY OneAddedEach DEF StoreInv
  <2>2. AtMostOne(Deleted(flash, m))
    BY <1>5, StepNames DEF CopyInv, TidyInv, Tidy, Neat, Reclaiming
  <2>3. {track.curr, track.inDeleted} \cap Copies(flash, m) = {}
    <3>1. CASE pc # "reclaim"
      <4>1. track = NoTrack
        BY <3>1, StepNames DEF StoreInv, TrackInv, Reclaiming
      <4> QED BY <4>1, NoTrackFacts, CopiesAre
    <3>2. CASE pc = "reclaim" /\ m # args.name
      <4>1. Deleted(flash, args.name) = Old
        BY <3>2 DEF CopyInv, HiddenInv, Adding
      <4>2. \A p \in Old : p \notin Copies(flash, m)
        BY <3>2, <4>1, CopyIs
      <4>3. 0 \notin Copies(flash, m)
        BY CopiesAre
      <4> QED BY <4>2, <4>3 DEF Old
    <3> QED BY <1>5, <3>1, <3>2
  <2>4. \/ b = Survivors(flash, track)
        \/ \E c \in Contents : c.name # m /\ b = Append(Survivors(flash, track), c)
    BY <1>2, <1>5
  <2>5. Get(Compact(b), m) = Get(flash, m)
    BY <1>1, <2>1, <2>2, <2>3, <2>4, ReclaimValue
  <2> QED BY <1>5, <2>5 DEF b
<1> QED BY <1>4, <1>5

\* The steps of the map, in terms of the driver's variables.
MapStatus == {"none", "success", "failed", "full"}

MapReply  == IF spare # NoSpare /\ reply = "success" THEN "failed" ELSE reply

LEMMA MapReport ==
  ASSUME reply' \in MapStatus, pc' \in Updating => reply' = "none",
         reply' = "success" /\ spare' = NoSpare =>
           args'.name \in Name /\ Get(flash', args'.name) = args'.value
  PROVE  Map!Report
<1>1. MapReply' \in MapStatus /\ (pc' \in Updating => MapReply' = "none")
  BY DEF MapReply, MapStatus
<1>2. MapReply' = "success" => spare' = NoSpare /\ reply' = "success"
  BY DEF MapReply
<1>3. MapReply' = "success" =>
        [n \in Name |-> Get(AtRestart, n)]'[args'.name] = args'.value
  BY <1>2 DEF AtRestart
<1> QED BY <1>1, <1>3 DEF Map!Report, Map!Status, MapStatus, MapReply

\* What the next start finds stays: while a store waits in the spare block,
\* whatever is written to the flash.
LEMMA RestartKept ==
  ASSUME spare' = spare, spare = NoSpare => \A n \in Name : Get(flash', n) = Get(flash, n)
  PROVE  \A n \in Name : Get(AtRestart', n) = Get(AtRestart, n)
BY DEF AtRestart

LEMMA MapSame ==
  ASSUME \A n \in Name : Get(AtRestart', n) = Get(AtRestart, n)
  PROVE  [n \in Name |-> Get(AtRestart, n)]' = [n \in Name |-> Get(AtRestart, n)]
OBVIOUS

LEMMA MapTakeEffect ==
  ASSUME spare = NoSpare,
         \A n \in Name : Get(AtRestart', n) = IF n = args.name THEN args.value ELSE Get(flash, n)
  PROVE  Map!TakeEffect
BY DEF Map!TakeEffect, AtRestart

LEMMA MapSet ==
  ASSUME pc \notin Updating, flash' = flash, spare' = spare,
         args' \in [name : Name, value : Value \cup {NoValue}], Map!Report
  PROVE  Map!Next
<1>1. Map!Set
  BY RestartKept, MapSame DEF Map!Set, Map!Data
<1> QED BY <1>1 DEF Map!Next

LEMMA MapApply ==
  ASSUME pc \in Updating, Map!TakeEffect, args' = args, Map!Report
  PROVE  Map!Next
<1>1. Map!Apply
  BY DEF Map!Apply
<1> QED BY <1>1 DEF Map!Next

LEMMA MapReturn ==
  ASSUME pc \in Updating, pc' \notin Updating, args' = args, Map!Report,
         spare' = spare, spare = NoSpare => \A n \in Name : Get(flash', n) = Get(flash, n)
  PROVE  Map!Next
<1>1. Map!Return
  BY RestartKept, MapSame DEF Map!Return
<1> QED BY <1>1 DEF Map!Next

LEMMA MapRestart ==
  ASSUME pc' \notin Updating, reply' = "none",
         args' \in [name : Name, value : Value \cup {NoValue}],
         \/ \A n \in Name : Get(AtRestart', n) = Get(AtRestart, n)
         \/ pc \in Updating /\ Map!TakeEffect
  PROVE  Map!Next
<1>1. MapReply' = "none"
  BY DEF MapReply
<1>2. Map!Restart
  BY <1>1, MapSame DEF Map!Restart, Map!Data, MapReply
<1> QED BY <1>2 DEF Map!Next

MapVars == <<[n \in Name |-> Get(AtRestart, n)], args, pc \in Updating, MapReply>>

LEMMA MapStutter ==
  ASSUME args' = args, reply' = reply, pc' \in Updating <=> pc \in Updating,
         spare' = spare, spare = NoSpare => \A n \in Name : Get(flash', n) = Get(flash, n)
  PROVE  UNCHANGED MapVars
<1>1. (pc \in Updating)' = (pc \in Updating)
  OBVIOUS
<1>2. MapReply' = MapReply
  BY DEF MapReply
<1> QED BY <1>1, <1>2, RestartKept, MapSame DEF MapVars

LEMMA InitMap ==
  ASSUME Init PROVE Map!Init
<1>1. /\ flash = ErasedStore /\ args = NoArgs /\ pc = "boot" /\ reply = "none"
      /\ spare = NoSpare
  BY DEF Init
<1>2. \A n \in Name : Get(flash, n) = NoValue
  <2>1. \A n : Copies(flash, n) = {}
    BY <1>1, ErasedGood, CopyIs
  <2> QED BY <2>1, GetIs
<1>3. [n \in Name |-> Get(AtRestart, n)] = [n \in Name |-> NoValue]
  BY <1>1, <1>2 DEF AtRestart
<1>4. args \in [name : Name, value : Value \cup {NoValue}]
  BY <1>1, NoTrackFacts
<1>5. (pc \in Updating) = FALSE
  BY <1>1, StepNames
<1> QED BY <1>1, <1>3, <1>4, <1>5 DEF Map!Init, Map!Data

\* The access that takes effect, the last of its call or not.
LEMMA EffectMap ==
  ASSUME StoreInv, pc \in Updating, args' = args, spare' = spare,
         \A n \in Name : Get(flash', n) = IF n = args.name THEN args.value ELSE Get(flash, n),
         \/ pc' \notin Updating /\ reply' \in MapStatus
         \/ pc' \in Updating /\ reply' = "none" /\ reply = "none"
  PROVE  Map!Next \/ UNCHANGED MapVars
<1>1. args.name \in Name
  BY DEF StoreInv, SmallTypes
<1>2. Map!Report
  BY <1>1, MapReport DEF MapStatus
<1>3. CASE spare = NoSpare
  <2>1. AtRestart' = flash'
    BY <1>3 DEF AtRestart
  <2> QED BY <1>2, <1>3, <2>1, MapTakeEffect, MapApply
<1>4. CASE spare # NoSpare /\ pc' \notin Updating
  BY <1>2, <1>4, MapReturn
<1>5. CASE spare # NoSpare /\ pc' \in Updating
  BY <1>5, MapStutter
<1> QED BY <1>3, <1>4, <1>5

LEMMA UpdateMap ==
  ASSUME StoreInv, CopyInv, UpdateStep PROVE Map!Next \/ UNCHANGED MapVars
<1>1. CASE Mark
  <2>1. /\ args' = args /\ reply' = reply /\ pc \in Updating /\ pc' \in Updating
        /\ spare' = spare
    BY <1>1, StepNames DEF Mark, Goto, call, mode, ftw
  <2> QED BY <1>1, <2>1, MarkValues, MapStutter
<1>2. CASE CheckSpace
  <2>1. /\ pc = "append" /\ args' = args /\ flash' = flash /\ spare' = spare
        /\ \/ pc' = "idle" /\ reply' = "full"
           \/ reply' = reply /\ pc' \in {"reclaim", "header"}
    BY <1>2 DEF CheckSpace, Return, Goto, call, mode, ftw
  <2>2. CASE pc' = "idle" /\ reply' = "full"
    <3>1. pc \in Updating /\ pc' \notin Updating
      BY <2>1, <2>2, StepNames
    <3>2. Map!Report
      BY <2>2, <3>1, MapReport DEF MapStatus
    <3> QED BY <2>1, <3>1, <3>2, MapReturn
  <2>3. CASE reply' = reply /\ pc' \in {"reclaim", "header"}
    BY <2>1, <2>3, StepNames, MapStutter
  <2> QED BY <2>1, <2>2, <2>3
<1>3. CASE WriteHeader \/ WriteHeaderValid \/ WriteData
  <2>1. /\ args' = args /\ reply' = reply /\ pc \in Updating /\ pc' \in Updating
        /\ spare' = spare
    BY <1>3, StepNames DEF WriteHeader, WriteHeaderValid, WriteData, Goto, call, mode, ftw
  <2>2. \A n : Get(flash', n) = Get(flash, n)
    BY <1>3, WritesCopies, SameCopiesGet
  <2> QED BY <2>1, <2>2, MapStutter
<1>4. CASE WriteAdded
  <2>1. /\ pc = "added" /\ args' = args /\ spare' = spare
        /\ \/ pc' = "idle" /\ reply' = "success"
           \/ reply' = reply /\ pc' \in {"deleteInDeleted", "deleteCurr"}
    BY <1>4 DEF WriteAdded, Return, Goto, call, mode, ftw
  <2>2. \A n \in Name : Get(flash', n) = IF n = args.name THEN args.value ELSE Get(flash, n)
    BY <1>4, WriteAddedValues
  <2>3. /\ pc \in Updating /\ reply = "none" /\ (pc' = "idle" => pc' \notin Updating)
        /\ (pc' # "idle" => pc' \in Updating)
    BY <2>1, StepNames DEF CopyInv, ReplyInv
  <2>4. \/ pc' \notin Updating /\ reply' \in MapStatus
        \/ pc' \in Updating /\ reply' = "none" /\ reply = "none"
    BY <2>1, <2>3 DEF MapStatus
  <2> QED BY <2>1, <2>2, <2>3, <2>4, EffectMap
<1>5. CASE DeleteInDeleted
  <2>1. /\ args' = args /\ reply' = reply /\ pc \in Updating /\ pc' \in Updating
        /\ spare' = spare
    BY <1>5, StepNames DEF DeleteInDeleted, Goto, call, mode, ftw
  <2> QED BY <1>5, <2>1, DeleteInDeletedValues, MapStutter
<1>6. CASE DeleteCurr
  <2>1. pc = "deleteCurr" /\ pc' = "idle" /\ args' = args /\ reply' = "success" /\ spare' = spare
    BY <1>6 DEF DeleteCurr, Return, mode, ftw
  <2>2. \A n \in Name : Get(flash', n) = IF n = args.name THEN args.value ELSE Get(flash, n)
    BY <1>6, DeleteCurrValues
  <2>3. pc \in Updating /\ pc' \notin Updating /\ reply' \in MapStatus
    BY <2>1, StepNames DEF MapStatus
  <2> QED BY <2>1, <2>2, <2>3, EffectMap
<1> QED BY <1>1, <1>2, <1>3, <1>4, <1>5, <1>6 DEF UpdateStep

\* A reclaim that writes the store or leaves it, for a SetVariable or not.
LEMMA StoreMap ==
  ASSUME StoreInv, WholeInv, CopyInv, Reclaiming, pc' = "idle", args' = args,
         \/ spare' = spare /\ flash' = flash
         \/ Fits /\ ~refusing /\ AtRestart' = Compact(NewStore),
         reply' \in {"success", "full", "failed", "none"}, pc # "reclaim" => reply' = "none",
         reply' = "success" => Fits /\ ~refusing /\ AtRestart' = Compact(NewStore)
  PROVE  Map!Next
<1>1. pc' \notin Updating /\ (pc = "reclaim" => pc \in Updating)
  BY StepNames
<1>2. args.name \in Name /\ args \in [name : Name, value : Value \cup {NoValue}]
  BY DEF StoreInv, SmallTypes
<1>3. Fits /\ ~refusing => spare = NoSpare /\ \A n \in Name : Get(Compact(NewStore), n) =
        IF pc = "reclaim" /\ n = args.name THEN args.value ELSE Get(flash, n)
  BY NoneWaits, NewStoreValues
<1>4. CASE pc = "reclaim"
  <2>1. reply' = "success" /\ spare' = NoSpare =>
          args'.name \in Name /\ Get(flash', args'.name) = args'.value
    <3> SUFFICES ASSUME reply' = "success", spare' = NoSpare
        PROVE  args'.name \in Name /\ Get(flash', args'.name) = args'.value
      OBVIOUS
    <3>1. flash' = Compact(NewStore)
      BY DEF AtRestart
    <3> QED BY <1>2, <1>3, <1>4, <3>1
  <2>2. Map!Report
    BY <1>1, <2>1, MapReport DEF MapStatus
  <2>3. CASE spare' = spare /\ flash' = flash
    BY <1>1, <1>4, <2>2, <2>3, MapReturn
  <2>4. CASE Fits /\ ~refusing /\ AtRestart' = Compact(NewStore)
    <3>1. Map!TakeEffect
      BY <1>3, <1>4, <2>4, MapTakeEffect
    <3> QED BY <1>1, <1>4, <2>2, <3>1, MapApply
  <2> QED BY <2>3, <2>4
<1>5. CASE pc # "reclaim"
  <2>1. \A n \in Name : Get(AtRestart', n) = Get(AtRestart, n)
    <3>1. CASE spare' = spare /\ flash' = flash
      BY <3>1 DEF AtRestart
    <3>2. CASE Fits /\ ~refusing /\ AtRestart' = Compact(NewStore)
      <4>1. AtRestart = flash
        BY <1>3, <3>2 DEF AtRestart
      <4> QED BY <1>3, <1>5, <3>2, <4>1
    <3> QED BY <3>1, <3>2
  <2> QED BY <1>1, <1>2, <1>5, <2>1, MapRestart
<1> QED BY <1>4, <1>5

LEMMA ReclaimMap ==
  ASSUME StoreInv, WholeInv, CopyInv, Reclaim \/ ReclaimFault \/ FlushFault \/ WriteRefused
  PROVE  Map!Next
<1>1. CASE Reclaim
  <2>1. /\ Reclaiming /\ pc' = "idle" /\ args' = args /\ spare' = spare
        /\ Fits => /\ ~refusing /\ flash' = Compact(NewStore)
                   /\ reply' = IF pc = "reclaim" THEN "success" ELSE "none"
        /\ ~Fits => flash' = flash /\ reply' = "full"
    BY <1>1 DEF Reclaim, Return, mode, ftw
  <2>2. Fits => AtRestart' = Compact(NewStore)
    BY <2>1, NoneWaits DEF AtRestart
  <2>3. pc # "reclaim" => Fits
    BY <2>1, NewStoreIs
  <2> QED BY <2>1, <2>2, <2>3, StoreMap
<1>2. CASE ReclaimFault
  <2>1. /\ Reclaiming /\ Fits /\ ~refusing /\ pc' = "idle" /\ args' = args /\ spare' = spare
        /\ flash' = flash \/ flash' = Compact(NewStore)
        /\ reply' = IF pc = "reclaim" THEN "failed" ELSE "none"
    BY <1>2 DEF ReclaimFault, WriteFailed, Return, Reclaiming
  <2>2. flash' = Compact(NewStore) => AtRestart' = Compact(NewStore)
    BY <2>1, NoneWaits DEF AtRestart
  <2> QED BY <2>1, <2>2, StoreMap
<1>3. CASE FlushFault
  <2>1. /\ Reclaiming /\ Fits /\ ~refusing /\ pc' = "idle" /\ args' = args
        /\ spare' = Compact(NewStore)
        /\ reply' = IF pc = "reclaim" THEN "failed" ELSE "none"
    BY <1>3 DEF FlushFault, WriteFailed, Return, Reclaiming
  <2>2. spare' # NoSpare
    BY <2>1, NewStoreIs, DriverAssumption DEF GoodStore
  <2>3. AtRestart' = Compact(NewStore)
    BY <2>1, <2>2 DEF AtRestart
  <2> QED BY <2>1, <2>3, StoreMap
<1>4. CASE WriteRefused
  <2>1. /\ Reclaiming /\ pc' = "idle" /\ args' = args /\ spare' = spare /\ flash' = flash
        /\ reply' = IF pc = "reclaim" THEN "failed" ELSE "none"
    BY <1>4 DEF WriteRefused, WriteFailed, Return, Reclaiming, ftw
  <2> QED BY <2>1, StoreMap
<1> QED BY <1>1, <1>2, <1>3, <1>4

LEMMA SetVariableMap ==
  ASSUME StoreInv, NEW n \in Name, NEW v \in Value \cup {NoValue}, SetVariable(n, v)
  PROVE  Map!Next
<1>1. /\ pc = "idle" /\ flash' = flash /\ args' = [name |-> n, value |-> v] /\ spare' = spare
      /\ \/ pc' = pc /\ reply' = "failed"
         \/ pc' = pc /\ reply' = "success" /\ v = Get(cache, n)
         \/ reply' = "none"
  BY DEF SetVariable, mode, ftw
<1>2. cache = flash
  BY <1>1 DEF StoreInv, SyncInv, Appending
<1>3. args'.name = n /\ args'.value = v /\ args' \in [name : Name, value : Value \cup {NoValue}]
  BY <1>1
<1>4. reply' = "success" => Get(flash', args'.name) = args'.value /\ args'.name \in Name
  BY <1>1, <1>2, <1>3
<1>5. pc \notin Updating
  BY <1>1, StepNames
<1>6. Map!Report
  BY <1>1, <1>4, <1>5, MapReport DEF MapStatus
<1> QED BY <1>1, <1>3, <1>5, <1>6, MapSet

LEMMA PowerCutMap ==
  ASSUME StoreInv, WholeInv, CopyInv, PowerCut PROVE Map!Next
<1>1. pc' = "boot" /\ args' = NoArgs /\ reply' = "none" /\ spare' = NoSpare
  BY DEF PowerCut, Restart
<1>2. pc' \notin Updating /\ args' \in [name : Name, value : Value \cup {NoValue}]
  BY <1>1, StepNames, NoTrackFacts
<1>3. AtRestart' = flash'
  BY <1>1 DEF AtRestart
<1>4. CASE spare # NoSpare
  <2>1. AtRestart' = AtRestart
    BY <1>3, <1>4 DEF PowerCut, AtRestart
  <2> QED BY <1>1, <1>2, <2>1, MapRestart
<1>5. CASE spare = NoSpare
  <2>1. PICK s \in Remains : s = flash'
    BY <1>5 DEF PowerCut
  <2>2. SameCopies(flash, s) \/ (Reclaiming /\ Fits /\ ~refusing /\ s = Compact(NewStore))
    BY RemainsCopies
  <2>3. AtRestart = flash
    BY <1>5 DEF AtRestart
  <2>4. CASE SameCopies(flash, s)
    <3>1. \A n : Get(AtRestart', n) = Get(AtRestart, n)
      BY <1>3, <2>1, <2>3, <2>4, SameCopiesGet
    <3> QED BY <1>1, <1>2, <3>1, MapRestart
  <2>5. CASE Reclaiming /\ Fits /\ ~refusing /\ s = Compact(NewStore)
    <3>1. \A n \in Name : Get(AtRestart', n) =
            IF pc = "reclaim" /\ n = args.name THEN args.value ELSE Get(flash, n)
      BY <1>3, <2>1, <2>5, NoneWaits, NewStoreValues
    <3>2. CASE pc = "reclaim"
      <4>1. Map!TakeEffect /\ pc \in Updating
        BY <1>5, <3>1, <3>2, MapTakeEffect, StepNames
      <4> QED BY <1>1, <1>2, <4>1, MapRestart
    <3>3. CASE pc # "reclaim"
      <4>1. \A n \in Name : Get(AtRestart', n) = Get(AtRestart, n)
        BY <2>3, <3>1, <3>3
      <4> QED BY <1>1, <1>2, <4>1, MapRestart
    <3> QED BY <3>2, <3>3
  <2> QED BY <2>2, <2>4, <2>5
<1> QED BY <1>4, <1>5

LEMMA FailureMap ==
  ASSUME StoreInv, WholeInv, CopyInv, Fault \/ PowerCut \/ Reset PROVE Map!Next
<1>1. CASE Fault
  <2>1. /\ pc \in Faulty \ {"reclaim", "reclaimForOS"} /\ pc' = "idle" /\ reply' = "failed"
        /\ args' = args /\ flash' = flash /\ spare' = spare
    BY <1>1 DEF Fault, Return, mode, ftw
  <2>2. pc \in Updating /\ pc' \notin Updating
    <3>1. pc \in Step
      BY DEF StoreInv, SmallTypes
    <3> QED BY <2>1, <3>1, FaultySteps, StepNames
  <2>3. Map!Report
    BY <2>1, <2>2, MapReport DEF MapStatus
  <2> QED BY <2>1, <2>2, <2>3, MapReturn
<1>2. CASE Reset
  <2>1. /\ pc' = "boot" /\ args' = NoArgs /\ reply' = "none" /\ flash' = AtRestart
        /\ spare' = NoSpare
    BY <1>2 DEF Reset, Restart
  <2>2. pc' \notin Updating /\ args' \in [name : Name, value : Value \cup {NoValue}]
    BY <2>1, StepNames, NoTrackFacts
  <2>3. AtRestart' = AtRestart
    BY <2>1 DEF AtRestart
  <2> QED BY <2>1, <2>2, <2>3, MapRestart
<1> QED BY <1>1, <1>2, PowerCutMap

LEMMA OutsideMap ==
  ASSUME StoreInv, ReclaimForOS \/ ExitBootServices \/ InitStore \/ WriteServiceInitialize
  PROVE  UNCHANGED MapVars
<1>1. /\ flash' = flash /\ args' = args /\ reply' = reply /\ spare' = spare
      /\ pc \in {"idle", "boot", "writeService"}
      /\ pc' \in {"idle", "writeService", "reclaimAtBoot", "reclaimForOS"}
  BY DEF ReclaimForOS, ExitBootServices, InitStore, WriteServiceInitialize, Goto, call, mode, ftw
<1>2. pc \notin Updating /\ pc' \notin Updating
  BY <1>1, StepNames
<1> QED BY <1>1, <1>2, MapStutter

LEMMA NextMap ==
  ASSUME StoreInv, WholeInv, CopyInv, [Next]_vars PROVE Map!Next \/ UNCHANGED MapVars
<1>1. CASE UNCHANGED vars
  <2>1. flash' = flash /\ args' = args /\ reply' = reply /\ pc' = pc /\ spare' = spare
    BY <1>1 DEF vars, call, mode, ftw
  <2> QED BY <2>1, MapStutter
<1>2. CASE DriverStep
  BY <1>2, UpdateMap, ReclaimMap, OutsideMap DEF DriverStep
<1>3. CASE \E n \in Name, v \in Value \cup {NoValue} : SetVariable(n, v)
  BY <1>3, SetVariableMap
<1>4. CASE ReclaimForOS \/ ExitBootServices \/ Reset \/ Fault \/ ReclaimFault
          \/ FlushFault \/ WriteRefused \/ PowerCut
  BY <1>4, OutsideMap, ReclaimMap, FailureMap
<1> QED BY <1>1, <1>2, <1>3, <1>4 DEF Next

\* What the next start reads is a map: of a variable it changes only inside a
\* SetVariable of that variable, at one access, to the value it was given, and never
\* by a reclaim, a start, a flash error or a power failure.  While a store waits in
\* the spare block a success promises nothing: no call then changes what the start
\* will read.
THEOREM MapImplemented ==
  ASSUME SingleFailure PROVE Spec => ImplementsVarMap
<1>1. Init => Map!Init
  BY InitMap
<1>2. StoreInv /\ WholeInv /\ CopyInv /\ [Next]_vars => [Map!Next]_MapVars
  BY NextMap
<1>3. StoreInv /\ WholeInv /\ CopyInv /\ [Next]_vars =>
        [Map!Next]_<<[n \in Name |-> Get(AtRestart, n)], args, pc \in Updating,
                     IF spare # NoSpare /\ reply = "success" THEN "failed" ELSE reply>>
  BY <1>2 DEF MapVars, MapReply
<1> QED BY <1>1, <1>3, CopiesInvariant, PTL DEF Spec, ImplementsVarMap, Map!Spec

-----------------------------------------------------------------------------
(* The listing of the variables.                                            *)

\* Every variable that can be read has one ADDED copy.
Listable(s) ==
  /\ GoodStore(s) /\ Whole(s)
  /\ \A n \in Name : AtMostOne(Added(s, n)) /\ (Copies(s, n) # {} => Added(s, n) # {})

\* The ADDED copies of all variables.
AddedHeaders(s) == {p \in Headers(s) : IsAdded(s[p])}

\* What GetNextVariableName returns is an ADDED copy, the only one of its variable.
LEMMA ListedIs ==
  ASSUME NEW s, Listable(s), NEW p \in Headers(s)
  PROVE  /\ IsListed(s, p) <=> p \in AddedHeaders(s)
         /\ IsCopy(s[p]) => Body(s, p).name \in Name /\ Added(s, Body(s, p).name) # {}
         /\ p \in AddedHeaders(s) => /\ p \in Added(s, Body(s, p).name)
                                     /\ FindVariableEx(s, Body(s, p).name).curr = p
<1> DEFINE n == Body(s, p).name
<1>1. IsCopy(s[p]) => Body(s, p) \in Contents /\ n \in Name /\ p \in Copies(s, n)
  BY CopyIs DEF Listable, Whole, Contents
<1>2. IsCopy(s[p]) => AtMostOne(Added(s, n)) /\ Added(s, n) # {}
  BY <1>1 DEF Listable
<1>3. IsCopy(s[p]) => LET c == FindVariableEx(s, n).curr IN c \in Added(s, n) /\ IsAdded(s[c])
  BY <1>2, FindIs, CopiesAre
<1>4. p \in AddedHeaders(s) => p \in Added(s, n) /\ IsCopy(s[p])
  BY <1>1, CopyIs DEF AddedHeaders, IsCopy
<1>5. IsListed(s, p) <=> IsAdded(s[p])
  <2>1. IsInDeleted(s[p]) => Body(s, p) \in Contents /\ IsAdded(s[FindVariableEx(s, n).curr])
    BY <1>1, <1>3 DEF IsCopy
  <2> QED BY <2>1 DEF IsListed
<1>6. p \in AddedHeaders(s) => FindVariableEx(s, n).curr = p
  BY <1>2, <1>3, <1>4 DEF AtMostOne
<1> QED BY <1>1, <1>2, <1>4, <1>5, <1>6 DEF AddedHeaders

\* What the k-th call returns when the calls before it returned the function a: the
\* recursion that Listing solves.
ListStep(s, a, k) ==
  IF k = 0 THEN FirstListed(s)
  ELSE IF a[k - 1] = 0 THEN 0
  ELSE NextListed(s, FindVariableEx(s, Body(s, a[k - 1]).name).curr)

\* The k-th call returns the k-th ADDED copy.
Nth(s) == [k \in Nat |-> IF k < Cardinality(AddedHeaders(s))
                         THEN InOrder(AddedHeaders(s))[k + 1] ELSE 0]

LEMMA NthStep ==
  ASSUME NEW s, Listable(s), NEW k \in Nat
  PROVE  Nth(s)[k] = ListStep(s, Nth(s), k)
<1> DEFINE L  == AddedHeaders(s)
           m  == Cardinality(L)
           at == InOrder(L)
<1>1. L \subseteq Headers(s) /\ Headers(s) \subseteq Offset /\ L \subseteq Offset /\ L \subseteq Nat /\ 0 \notin L
  BY WalkFacts, OffsetsFinite, SizeFacts DEF AddedHeaders
<1>2. /\ m \in Nat /\ at \in [1..m -> L]
      /\ \A i, j \in 1..m : i < j => at[i] < at[j]
      /\ \A p \in L : \E i \in 1..m : at[i] = p
  BY <1>1, InOrderIs
<1>3. \A j \in Nat : Nth(s)[j] = IF j < m THEN at[j + 1] ELSE 0
  BY DEF Nth
<1> HIDE DEF m, at
<1>4. \A i, j \in 1..m : at[i] \in Nat /\ (i <= j => at[i] <= at[j])
  <2> SUFFICES ASSUME NEW i \in 1..m, NEW j \in 1..m PROVE at[i] \in Nat /\ (i <= j => at[i] <= at[j])
    OBVIOUS
  <2>1. at[i] \in Nat /\ at[j] \in Nat
    BY <1>1, <1>2
  <2>2. i < j => at[i] < at[j]
    BY <1>2
  <2> QED BY <2>1, <2>2
<1>5. CASE k = 0
  <2>1. ListStep(s, Nth(s), k) = FirstListed(s)
    BY <1>5 DEF ListStep
  <2>2. CASE m = 0
    <3>1. L = {}
      BY <1>2, <2>2
    <3>2. {p \in Headers(s) : IsInDeleted(s[p])} = {}
      <4> SUFFICES ASSUME NEW p \in Headers(s), IsInDeleted(s[p]) PROVE FALSE
        OBVIOUS
      <4>1. PICK q : q \in Added(s, Body(s, p).name)
        BY ListedIs DEF IsCopy
      <4>2. q \in L
        BY <4>1, CopiesAre DEF AddedHeaders
      <4> QED BY <3>1, <4>2
    <3>3. FirstListed(s) = 0
      BY <3>1, <3>2 DEF FirstListed, Largest, AddedHeaders
    <3> QED BY <1>3, <1>5, <2>1, <2>2, <3>3
  <2>3. CASE m # 0
    <3>1. 1 \in 1..m /\ at[1] \in L
      BY <1>2, <2>3
    <3>2. \A q \in L : at[1] <= q
      BY <1>2, <1>4, <3>1
    <3>3. Min(L) \in L /\ \A q \in L : Min(L) <= q
      BY <1>1, <3>1, MinIs
    <3>4. at[1] = Min(L)
      BY <1>1, <3>1, <3>2, <3>3
    <3>5. FirstListed(s) = Min(L)
      BY <3>1 DEF FirstListed, AddedHeaders
    <3> HIDE DEF L
    <3> QED BY <1>2, <1>3, <1>5, <2>1, <2>3, <3>4, <3>5
  <2> QED BY <2>2, <2>3
<1>6. CASE k # 0 /\ k - 1 >= m
  <2>1. Nth(s)[k - 1] = 0 /\ Nth(s)[k] = 0
    BY <1>2, <1>3, <1>6
  <2> QED BY <1>6, <2>1 DEF ListStep
<1>7. CASE k # 0 /\ k - 1 < m
  <2>1. k \in 1..m /\ Nth(s)[k - 1] = at[k] /\ at[k] \in L
    BY <1>2, <1>3, <1>7
  <2>2. ListStep(s, Nth(s), k) = NextListed(s, at[k])
    <3>1. FindVariableEx(s, Body(s, at[k]).name).curr = at[k] /\ at[k] # 0
      BY <1>1, <2>1, ListedIs
    <3> QED BY <1>7, <2>1, <3>1 DEF ListStep
  <2> DEFINE B == {q \in Headers(s) : q > at[k] /\ IsListed(s, q)}
  <2>3. B = {q \in L : q > at[k]}
    BY <1>1, ListedIs DEF AddedHeaders
  <2>4. NextListed(s, at[k]) = IF B = {} THEN 0 ELSE Min(B)
    BY DEF NextListed
  <2> HIDE DEF B, L
  <2>5. CASE k = m
    <3>1. B = {}
      <4> SUFFICES ASSUME NEW q \in L, q > at[k] PROVE FALSE
        BY <2>3
      <4>1. PICK i \in 1..m : at[i] = q
        BY <1>2
      <4>2. i <= k
        BY <1>2, <2>5
      <4>3. at[i] <= at[k] /\ at[i] \in Nat /\ at[k] \in Nat
        BY <1>4, <2>1, <4>2
      <4> QED BY <4>1, <4>3
    <3> QED BY <1>3, <2>2, <2>4, <2>5, <3>1
  <2>6. CASE k # m
    <3>1. k + 1 \in 1..m /\ k < k + 1
      BY <1>2, <2>1, <2>6
    <3>2. at[k + 1] \in B
      BY <1>2, <1>4, <2>1, <2>3, <3>1
    <3>3. ASSUME NEW q \in B PROVE at[k + 1] <= q
      <4>1. PICK i \in 1..m : at[i] = q
        BY <1>2, <2>3
      <4>2. ~(i <= k)
        <5> SUFFICES ASSUME i <= k PROVE FALSE
          OBVIOUS
        <5>1. at[i] <= at[k] /\ at[i] \in Nat /\ at[k] \in Nat
          BY <1>4, <2>1
        <5> QED BY <2>3, <4>1, <5>1
      <4>3. k + 1 <= i
        BY <2>1, <4>2
      <4> QED BY <1>4, <3>1, <4>1, <4>3
    <3>4. B \subseteq Nat
      BY <1>1, <2>3
    <3>5. Min(B) \in B /\ \A q \in B : Min(B) <= q
      BY <3>2, <3>4, MinIs
    <3>6. Min(B) = at[k + 1]
      <4>1. Min(B) \in Nat /\ at[k + 1] \in Nat /\ Min(B) <= at[k + 1] /\ at[k + 1] <= Min(B)
        BY <3>2, <3>3, <3>4, <3>5
      <4> QED BY <4>1
    <3>7. k < m
      BY <1>2, <2>1, <2>6
    <3> QED BY <1>3, <2>2, <2>4, <3>2, <3>6, <3>7
  <2> QED BY <2>5, <2>6
<1> QED BY <1>2, <1>5, <1>6, <1>7

LEMMA ListingIs ==
  ASSUME NEW s, Listable(s)
  PROVE  Listing(s) = {<<k, Nth(s)[k]>> : k \in {j \in 0..Cardinality(Name) : Nth(s)[j] # 0}}
<1> DEFINE a == CHOOSE a : a = [k \in Nat |-> ListStep(s, a, k)]
<1>1. Nth(s) = [k \in Nat |-> ListStep(s, Nth(s), k)]
  <2>1. Nth(s) = [k \in Nat |-> Nth(s)[k]]
    BY DEF Nth
  <2>2. \A k \in Nat : Nth(s)[k] = ListStep(s, Nth(s), k)
    BY NthStep
  <2> QED BY <2>1, <2>2
<1>2. a = [k \in Nat |-> ListStep(s, a, k)]
  BY <1>1
<1>3. Listing(s) = {<<k, a[k]>> : k \in {j \in 0..Cardinality(Name) : a[j] # 0}}
  BY DEF Listing, ListStep
<1> HIDE DEF a
<1>4. \A k \in Nat : a[k] = Nth(s)[k]
  <2> DEFINE T == {k \in Nat : a[k] # Nth(s)[k]}
  <2> SUFFICES ASSUME T # {} PROVE FALSE
    OBVIOUS
  <2>1. PICK k \in T : \A j \in T : k <= j
    <3>1. T \subseteq Nat
      OBVIOUS
    <3> HIDE DEF T
    <3> QED BY <3>1, LeastNat
  <2>2. k \in Nat /\ a[k] = ListStep(s, a, k) /\ Nth(s)[k] = ListStep(s, Nth(s), k)
        /\ a[k] # Nth(s)[k]
    BY <1>2, <2>1, NthStep
  <2>3. k # 0
    BY <2>2 DEF ListStep
  <2>4. a[k - 1] = Nth(s)[k - 1]
    <3>1. k - 1 \in Nat /\ ~(k <= k - 1)
      BY <2>2, <2>3
    <3>2. k - 1 \notin T
      <4> HIDE DEF T
      <4> QED BY <2>1, <3>1
    <3> QED BY <3>1, <3>2
  <2> QED BY <2>2, <2>3, <2>4 DEF ListStep
<1>5. {j \in 0..Cardinality(Name) : a[j] # 0} = {j \in 0..Cardinality(Name) : Nth(s)[j] # 0}
  <2>1. \A j \in 0..Cardinality(Name) : j \in Nat
    OBVIOUS
  <2> QED BY <1>4, <2>1
<1>6. \A j \in {j \in 0..Cardinality(Name) : Nth(s)[j] # 0} : a[j] = Nth(s)[j]
  BY <1>4
<1> QED BY <1>3, <1>5, <1>6

LEMMA ListingExact ==
  ASSUME NEW s, Listable(s), IsFiniteSet(Name), NEW R, R = {n \in Name : Get(s, n) # NoValue}
  PROVE  /\ {Body(s, e[2]).name : e \in Listing(s)} = R
         /\ Cardinality(Listing(s)) = Cardinality(R)
<1> DEFINE L  == AddedHeaders(s)
           m  == Cardinality(L)
           at == InOrder(L)
           name(p) == Body(s, p).name
<1>1. L \subseteq Headers(s) /\ L \subseteq Offset /\ 0 \notin L
  BY WalkFacts, SizeFacts DEF AddedHeaders
<1>2. /\ m \in Nat /\ at \in [1..m -> L] /\ IsFiniteSet(L)
      /\ \A i, j \in 1..m : at[i] = at[j] => i = j
      /\ \A p \in L : \E i \in 1..m : at[i] = p
  BY <1>1, InOrderIs, OffsetsFinite
<1>3. \A j \in Nat : Nth(s)[j] = IF j < m THEN at[j + 1] ELSE 0
  BY DEF Nth
\* The ADDED copies are those of the variables that can be read, one each.
<1>4. ASSUME NEW p \in L PROVE name(p) \in R /\ p \in Added(s, name(p))
  <2>1. IsCopy(s[p]) /\ p \in Headers(s)
    BY <1>1 DEF AddedHeaders, IsCopy
  <2>2. name(p) \in Name /\ p \in Added(s, name(p))
    BY <2>1, ListedIs
  <2>3. Get(s, name(p)) \in Value
    BY <2>2, CopiesAre, GetIs
  <2> QED BY <2>2, <2>3, StoreAssumption
<1>5. ASSUME NEW n \in R PROVE \E p \in L : name(p) = n
  <2>1. Added(s, n) # {}
    BY GetIs DEF Listable
  <2>2. PICK p : p \in Added(s, n)
    BY <2>1
  <2> QED BY <2>2, CopiesAre DEF AddedHeaders
<1>6. \A p, q \in L : name(p) = name(q) => p = q
  <2> SUFFICES ASSUME NEW p \in L, NEW q \in L, name(p) = name(q) PROVE p = q
    OBVIOUS
  <2>1. AtMostOne(Added(s, name(p)))
    BY <1>4 DEF Listable
  <2> QED BY <1>4, <2>1 DEF AtMostOne
<1> HIDE DEF L, m, at, name
<1>7. Cardinality(R) = m
  <2> DEFINE f == [p \in L |-> name(p)]
  <2>1. f \in Bijection(L, R)
    BY <1>4, <1>5, <1>6 DEF Bijection, Injection, Surjection, IsInjective
  <2>2. ExistsBijection(L, R)
    BY <2>1 DEF ExistsBijection
  <2> QED BY <1>2, <2>2, FS_Bijection DEF m
<1>8. m <= Cardinality(Name) /\ Cardinality(Name) \in Nat
  <2>1. R \in SUBSET Name
    OBVIOUS
  <2> QED BY <1>7, <2>1, FS_Subset, FS_CardinalityType
<1>9. Listing(s) = {<<k, at[k + 1]>> : k \in 0..(m - 1)}
  <2>1. \A j \in 0..Cardinality(Name) : Nth(s)[j] # 0 <=> j \in 0..(m - 1)
    BY <1>1, <1>2, <1>3, <1>8
  <2>2. {j \in 0..Cardinality(Name) : Nth(s)[j] # 0} = 0..(m - 1)
    BY <1>2, <1>8, <2>1
  <2>3. \A k \in 0..(m - 1) : Nth(s)[k] = at[k + 1]
    BY <1>2, <1>3
  <2> QED BY <2>2, <2>3, ListingIs
<1>10. Cardinality(Listing(s)) = m
  <2> DEFINE g == [i \in 1..m |-> <<i - 1, at[i]>>]
  <2>1. \A i \in 1..m : g[i] \in Listing(s)
    BY <1>2, <1>9
  <2>2. \A i, j \in 1..m : g[i] = g[j] => i = j
    BY <1>2
  <2>3. ASSUME NEW e \in Listing(s) PROVE \E i \in 1..m : g[i] = e
    <3>1. PICK k \in 0..(m - 1) : e = <<k, at[k + 1]>>
      BY <1>9
    <3>2. k + 1 \in 1..m /\ k + 1 - 1 = k
      BY <1>2
    <3> QED BY <3>1, <3>2
  <2>4. g \in Bijection(1..m, Listing(s))
    <3>1. g = [i \in 1..m |-> g[i]]
      OBVIOUS
    <3> HIDE DEF g
    <3> QED BY <2>1, <2>2, <2>3, <3>1 DEF Bijection, Injection, Surjection, IsInjective
  <2>5. ExistsBijection(1..m, Listing(s))
    BY <2>4 DEF ExistsBijection
  <2>6. IsFiniteSet(1..m) /\ Cardinality(1..m) = m
    BY <1>2, FS_Interval
  <2> QED BY <2>5, <2>6, FS_Bijection
<1>11. {name(e[2]) : e \in Listing(s)} = R
  <2>1. ASSUME NEW e \in Listing(s) PROVE name(e[2]) \in R
    <3>1. PICK k \in 0..(m - 1) : e = <<k, at[k + 1]>>
      BY <1>9
    <3>2. k + 1 \in 1..m
      BY <1>2
    <3>3. e[2] \in L
      BY <1>2, <3>1, <3>2
    <3> QED BY <1>4, <3>3
  <2>2. ASSUME NEW n \in R PROVE \E e \in Listing(s) : name(e[2]) = n
    <3>1. PICK p \in L : name(p) = n
      BY <1>5
    <3>2. PICK i \in 1..m : at[i] = p
      BY <1>2
    <3>3. i - 1 \in 0..(m - 1) /\ i - 1 + 1 = i
      BY <1>2
    <3>4. <<i - 1, p>> \in Listing(s)
      BY <1>9, <3>2, <3>3
    <3> QED BY <3>1, <3>4
  <2> QED BY <2>1, <2>2
<1> QED BY <1>7, <1>10, <1>11 DEF name

\* Repeated calls of GetNextVariableName return every variable that can be read
\* exactly once, for any number of variables and a store of any size, as long as
\* each has an ADDED copy and no store waits in the spare block, which leaves a torn
\* one to be listed (Variable.c:2859-2985).
THEOREM ListingCorrect ==
  ASSUME SingleFailure, IsFiniteSet(Name) PROVE Spec => []ListingIsExact
<1>1. StoreInv /\ WholeInv /\ CopyInv => ListingIsExact
  <2> DEFINE readable == {n \in Name : Get(cache, n) # NoValue}
  <2> SUFFICES ASSUME StoreInv, WholeInv, CopyInv, pc = "idle", spare = NoSpare,
                      \A n \in readable : IsAdded(cache[FindVariableEx(cache, n).curr])
               PROVE  /\ {Body(cache, e[2]).name : e \in Listing(cache)} = readable
                      /\ Cardinality(Listing(cache)) = Cardinality(readable)
    BY Zenon DEF ListingIsExact
  <2>1. cache = flash /\ GoodStore(cache) /\ Whole(cache)
    BY DEF StoreInv, SyncInv, Appending, WholeInv
  <2>2. ASSUME NEW n \in Name, Copies(cache, n) # {} PROVE Added(cache, n) # {}
    <3>1. n \in readable
      BY <2>2, GetIs, StoreAssumption
    <3>2. FindVariableEx(cache, n).curr \in Copies(cache, n)
      BY <2>2, FindIs
    <3> QED BY <3>1, <3>2, CopyIs
  <2>3. Listable(cache)
    BY <2>1, <2>2, OneAddedEach DEF Listable
  <2> HIDE DEF readable
  <2>4. readable = {n \in Name : Get(cache, n) # NoValue}
    BY DEF readable
  <2> QED BY <2>3, <2>4, ListingExact
<1> QED BY <1>1, CopiesInvariant, PTL
=============================================================================
