------------------------------ MODULE FtwProofs -----------------------------
(***************************************************************************)
(* Single writes through the fault tolerant write driver are atomic, for   *)
(* work spaces of any size, any blocks and contents, any number of calls   *)
(* and any number of power failures.                                       *)
(***************************************************************************)
EXTENDS FtwRecovery, NaturalsInduction, SequenceTheorems, WellFoundedInduction, TLAPS

\* Clients that only call FtwWrite, one block at a time, on a flash without errors.
SingleWrites == MaxWrites = 1 /\ Ops = {"write"} /\ ~Private /\ MaxFaults = 0

-----------------------------------------------------------------------------
(* What the queue of the work space looks like.                             *)

\* The search for the last header goes through the complete headers H to e.
IsPath(q, H, e) ==
  /\ e \in 1..Beyond /\ 1 \in H \cup {e}
  /\ \A p \in H : /\ Complete \in q[p].flags /\ p < e
                  /\ p + WriteTotalSize(q[p]) \in H \cup {e}
  /\ \A p, r \in H : p < r => p + WriteTotalSize(q[p]) <= r

Leads(q, e) == \E H \in SUBSET Position : IsPath(q, H, e)

\* The last header and its record at each point of a write.  Only "leftover" has no
\* counterpart in a service: a header cut short is garbled where the next one comes.
HeaderAt(c) ==
  CASE c = "free"     -> ErasedUnit
    [] c = "leftover" -> [flags |-> {}, body |-> Garbled]
    [] c = "bare"     -> [flags |-> {HeaderAllocated}, body |-> Erased]
    [] c = "headed"   -> [flags |-> {HeaderAllocated}, body |-> 1]
    [] OTHER          -> [flags |-> {HeaderAllocated, WritesAllocated}, body |-> 1]

RecordFlags(c) ==
  CASE c = "pending" -> {SpareComplete}
    [] c = "written" -> {SpareComplete, DestinationComplete}
    [] OTHER         -> {}

RecordBodies(c) ==
  CASE c \in {"recorded", "pending", "written"} -> Extent
    [] c = "bare" -> {Erased, Garbled}
    [] OTHER      -> {Erased}

Condition == {"free", "leftover", "bare", "headed", "open", "recorded", "pending", "written"}
Unused    == {"free", "leftover"}

Looks(q, h, c) ==
  /\ Leads(q, h) /\ c \in Condition
  /\ c \notin Unused => h < QueueSize
  /\ h \in Position => q[h] = HeaderAt(c)
  /\ h + 1 \in Position => q[h + 1].flags = RecordFlags(c) /\ q[h + 1].body \in RecordBodies(c)
  /\ \A p \in Position : p > h + 1 => q[p] = ErasedUnit

\* A reclaim of this queue preserves nothing.
Doomed(q) ==
  \E e \in 1..Beyond :
    Leads(q, e) /\ (e \in Position => q[e].flags \cap {HeaderAllocated, Complete} = {})

-----------------------------------------------------------------------------
(* Numbers and units.                                                       *)

NatLess == OpToRel(<, Nat)

LEMMA LeastNat ==
  ASSUME NEW T, T \subseteq Nat, T # {}
  PROVE  \E x \in T : \A y \in T : x <= y
<1>1. IsWellFoundedOn(NatLess, Nat)
  BY NatLessThanWellFounded DEF NatLess
<1>2. \E x \in T : \A y \in T : ~(<<y, x>> \in NatLess)
  BY <1>1, WFMin
<1>3. PICK x \in T : \A y \in T : ~(<<y, x>> \in NatLess)
  BY <1>2
<1>4. \A y, z \in Nat : <<y, z>> \in NatLess <=> y < z
  BY DEF NatLess, OpToRel
<1>5. ASSUME NEW y \in T PROVE x <= y
  <2>1. x \in Nat /\ y \in Nat
    OBVIOUS
  <2>2. ~(y < x)
    BY <1>3, <1>4, <2>1
  <2> QED BY <2>1, <2>2
<1> QED BY <1>5

LEMMA GreatestNat ==
  ASSUME NEW T, NEW b \in Nat, T \subseteq 0..b, T # {}
  PROVE  \E x \in T : \A y \in T : y <= x
<1> DEFINE U == {b - y : y \in T}
<1>1. U \subseteq Nat /\ U # {}
  OBVIOUS
<1>2. PICK u \in U : \A v \in U : u <= v
  BY <1>1, LeastNat
<1>3. PICK x \in T : u = b - x
  BY <1>2
<1>4. ASSUME NEW y \in T PROVE y <= x
  <2>1. b - y \in U
    OBVIOUS
  <2>2. b - x <= b - y
    BY <1>2, <1>3, <2>1
  <2> QED BY <2>2
<1> QED BY <1>4

LEMMA MinIs ==
  ASSUME NEW T, T \subseteq Nat, T # {}
  PROVE  Min(T) \in T /\ \A y \in T : Min(T) <= y
BY LeastNat DEF Min

\* The queue's two parameters.
LEMMA SizeFacts ==
  /\ QueueSize \in Nat /\ QueueSize >= 2 /\ Beyond = QueueSize + 1
  /\ \A p : p \in Position <=> p \in Int /\ 1 <= p /\ p <= QueueSize
  /\ \A p : p \in 1..Beyond <=> p \in Int /\ 1 <= p /\ p <= QueueSize + 1
BY QueueAssumption DEF Beyond, Position

LEMMA WriteSize ==
  ASSUME SingleWrites, NEW u
  PROVE  /\ HasCount(u) <=> u.body = 1
         /\ WriteTotalSize(u) = (IF u.body = 1 THEN 2 ELSE 1)
         /\ Erased # 1 /\ Garbled # 1 /\ Erased # Garbled
<1>1. MaxWrites = 1 /\ \A x : x \in 1..1 <=> x = 1
  BY DEF SingleWrites
<1>2. HasCount(u) <=> u.body = 1
  BY <1>1 DEF HasCount
<1>3. 1 \in 1..MaxWrites
  BY <1>1
<1>4. Erased # 1 /\ Garbled # 1 /\ Erased # Garbled
  BY <1>3, QueueAssumption
<1>5. WriteTotalSize(u) = (IF u.body = 1 THEN 2 ELSE 1)
  BY <1>1, <1>2 DEF WriteTotalSize
<1> QED BY <1>2, <1>4, <1>5

LEMMA UnitEqual ==
  ASSUME NEW u \in Unit, NEW v \in Unit, u.flags = v.flags, u.body = v.body
  PROVE  u = v
BY DEF Unit

\* The bits of a unit after a write of some of them.
LEMMA ProgramUnitIs ==
  ASSUME NEW u, NEW flags, NEW body
  PROVE  LET v == Program(u, [flags |-> flags, body |-> body])
         IN  /\ v.flags = u.flags \cup flags
             /\ u.body = Erased => v.body = body
             /\ body = Erased \/ body = u.body => v.body = u.body
BY DEF Program

-----------------------------------------------------------------------------
(* The search for the last header.                                          *)

SearchStep(q, f, p) ==
  LET next == p + WriteTotalSize(q[p])
  IN  IF Complete \notin q[p].flags THEN [at |-> p, full |-> FALSE]
      ELSE IF next > QueueSize THEN [at |-> p, full |-> TRUE]
      ELSE f[next]

Ends(q, p)    == Complete \notin q[p].flags \/ p + WriteTotalSize(q[p]) > QueueSize
NextOf(q, p)  == p + WriteTotalSize(q[p])

LEMMA SearchNext ==
  ASSUME NEW q, NEW p \in Position
  PROVE  /\ NextOf(q, p) \in Nat /\ NextOf(q, p) > p
         /\ ~Ends(q, p) => NextOf(q, p) \in Position /\ \A f : SearchStep(q, f, p) = f[NextOf(q, p)]
         /\ Ends(q, p) => \A f, g : SearchStep(q, f, p) = SearchStep(q, g, p)
<1>1. WriteTotalSize(q[p]) \in Nat /\ WriteTotalSize(q[p]) >= 1
  BY QueueAssumption DEF WriteTotalSize, HasCount
<1>2. NextOf(q, p) \in Nat /\ NextOf(q, p) > p
  BY <1>1, SizeFacts DEF NextOf
<1>3. ~Ends(q, p) => NextOf(q, p) \in Position
  BY <1>2, SizeFacts DEF Ends, NextOf
<1> QED BY <1>2, <1>3 DEF Ends, NextOf, SearchStep

LEMMA SearchFunction ==
  ASSUME NEW q
  PROVE  \E f : f = [p \in Position |-> SearchStep(q, f, p)]
<1> DEFINE Good(k, g) == \A p \in Position : p > QueueSize - k => g[p] = SearchStep(q, g, p)
           T == {k \in 0..QueueSize : ~ \E g : Good(k, g)}
<1>0. QueueSize \in Nat /\ Position = 1..QueueSize
  BY SizeFacts DEF Position
<1>1. T = {}
  <2> SUFFICES ASSUME T # {} PROVE FALSE
    OBVIOUS
  <2>1. PICK k \in T : \A j \in T : k <= j
    <3>1. T \subseteq Nat
      BY <1>0
    <3> HIDE DEF T
    <3> QED BY <3>1, LeastNat
  <2>2. Good(0, 0)
    BY <1>0
  <2>3. k \in 0..QueueSize /\ k # 0
    BY <2>1, <2>2
  <2>4. (k - 1) \in 0..QueueSize /\ k - 1 \notin T
    <3>1. (k - 1) \in 0..QueueSize /\ ~(k <= k - 1)
      BY <1>0, <2>3
    <3> HIDE DEF T
    <3> QED BY <2>1, <3>1
  <2>5. PICK g : Good(k - 1, g)
    BY <2>4
  <2> DEFINE m == QueueSize + 1 - k
             h == [p \in Position |-> IF p = m THEN SearchStep(q, g, m) ELSE g[p]]
  <2>6. ASSUME NEW p \in Position, p >= m PROVE SearchStep(q, h, p) = SearchStep(q, g, p)
    <3>1. CASE Ends(q, p)
      BY <3>1, SearchNext
    <3>2. CASE ~Ends(q, p)
      <4>1. NextOf(q, p) \in Position /\ NextOf(q, p) # m
        BY <1>0, <2>3, <2>6, <3>2, SearchNext
      <4>2. h[NextOf(q, p)] = g[NextOf(q, p)]
        BY <4>1
      <4>3. SearchStep(q, h, p) = h[NextOf(q, p)] /\ SearchStep(q, g, p) = g[NextOf(q, p)]
        BY <3>2, SearchNext
      <4> QED BY <4>2, <4>3
    <3> QED BY <3>1, <3>2
  <2>7. ASSUME NEW p \in Position, p > QueueSize - k PROVE h[p] = SearchStep(q, h, p)
    <3>1. p >= m /\ p \in Int /\ m \in Int
      BY <1>0, <2>3, <2>7
    <3>2. CASE p = m
      BY <2>6, <3>1, <3>2
    <3>3. CASE p # m
      <4>1. p > QueueSize - (k - 1)
        BY <1>0, <2>3, <3>1, <3>3
      <4>2. g[p] = SearchStep(q, g, p)
        BY <2>5, <4>1
      <4> QED BY <2>6, <3>1, <3>3, <4>2
    <3> QED BY <3>2, <3>3
  <2>8. Good(k, h)
    BY <2>7
  <2> QED BY <2>1, <2>8
<1>2. PICK g : Good(QueueSize, g)
  <2>1. QueueSize \in 0..QueueSize
    BY <1>0
  <2> HIDE DEF Good
  <2> QED BY <1>1, <2>1
<1> DEFINE f == [p \in Position |-> g[p]]
<1>3. ASSUME NEW p \in Position PROVE g[p] = SearchStep(q, f, p)
  <2>1. g[p] = SearchStep(q, g, p)
    BY <1>0, <1>2
  <2>2. CASE Ends(q, p)
    BY <2>1, <2>2, SearchNext
  <2>3. CASE ~Ends(q, p)
    <3>1. f[NextOf(q, p)] = g[NextOf(q, p)]
      BY <2>3, SearchNext
    <3> HIDE DEF f
    <3> QED BY <2>1, <2>3, <3>1, SearchNext
  <2> QED BY <2>2, <2>3
<1>4. f = [p \in Position |-> SearchStep(q, f, p)]
  BY <1>3
<1> QED BY <1>4

LEMMA SearchIs ==
  ASSUME NEW q
  PROVE  \E f : /\ GetLastWriteHeader(q) = f[1]
                /\ \A p \in Position : f[p] = SearchStep(q, f, p)
<1> DEFINE f == CHOOSE f : f = [p \in Position |-> SearchStep(q, f, p)]
<1>1. f = [p \in Position |-> SearchStep(q, f, p)]
  BY SearchFunction
<1>2. GetLastWriteHeader(q) = f[1]
  BY DEF GetLastWriteHeader, SearchStep
<1>3. \A p \in Position : f[p] = SearchStep(q, f, p)
  BY <1>1
<1> HIDE DEF f
<1> QED BY <1>2, <1>3

\* Whatever the queue, the search ends in it.
LEMMA SearchType ==
  ASSUME NEW q
  PROVE  GetLastWriteHeader(q) \in [at : Position, full : BOOLEAN]
<1>1. PICK f : /\ GetLastWriteHeader(q) = f[1]
               /\ \A p \in Position : f[p] = SearchStep(q, f, p)
  BY SearchIs
<1> DEFINE Result == [at : Position, full : BOOLEAN]
           T == {p \in Position : f[p] \notin Result}
<1>2. T = {}
  <2> SUFFICES ASSUME T # {} PROVE FALSE
    OBVIOUS
  <2>1. T \subseteq 0..QueueSize /\ QueueSize \in Nat
    BY SizeFacts
  <2>2. PICK p \in T : \A r \in T : r <= p
    BY <2>1, GreatestNat
  <2>3. p \in Position /\ f[p] \notin Result /\ f[p] = SearchStep(q, f, p)
    BY <1>1, <2>2
  <2>4. CASE Ends(q, p)
    BY <2>3, <2>4 DEF Ends, SearchStep
  <2>5. CASE ~Ends(q, p)
    <3>1. NextOf(q, p) \in Position /\ NextOf(q, p) > p /\ f[p] = f[NextOf(q, p)]
      BY <2>3, <2>5, SearchNext
    <3>2. NextOf(q, p) \in T
      BY <2>3, <3>1
    <3> QED BY <2>2, <3>1, <3>2, SizeFacts
  <2> QED BY <2>4, <2>5
<1>3. 1 \in Position
  BY SizeFacts
<1> QED BY <1>1, <1>2, <1>3

LEMMA RecordType ==
  ASSUME SingleWrites, NEW q, NEW h \in Position
  PROVE  GetLastWriteRecord(q, h) \in Position \cup {Beyond}
<1> DEFINE n == NumberOfWrites(q[h])
           open == {r \in (h + 1)..(h + n) \cap Position : DestinationComplete \notin q[r].flags}
<1>1. CASE open # {}
  <2>1. open \subseteq Position /\ open \subseteq Nat
    BY SizeFacts
  <2>2. GetLastWriteRecord(q, h) = Min(open)
    BY <1>1 DEF GetLastWriteRecord
  <2> HIDE DEF open
  <2> QED BY <1>1, <2>1, <2>2, MinIs
<1>2. CASE open = {}
  <2>1. GetLastWriteRecord(q, h) = (IF HasCount(q[h]) THEN h + n ELSE Beyond)
    BY <1>2 DEF GetLastWriteRecord
  <2>2. HasCount(q[h]) => n = 1
    BY WriteSize DEF NumberOfWrites
  <2> HIDE DEF open, n
  <2> QED BY <2>1, <2>2, SizeFacts
<1> QED BY <1>1, <1>2

-----------------------------------------------------------------------------
(* The search along a path of complete headers.                             *)

LEMMA PathFacts ==
  ASSUME NEW q, NEW H \in SUBSET Position, NEW e, IsPath(q, H, e), NEW p \in H
  PROVE  /\ Complete \in q[p].flags /\ p \in Position /\ p < e /\ p + 1 <= NextOf(q, p)
         /\ NextOf(q, p) \in H \cup {e} /\ NextOf(q, p) <= e
         /\ \A r \in H : p < r => NextOf(q, p) <= r
<1>1. p \in Position
  OBVIOUS
<1>2. NextOf(q, p) \in Nat /\ NextOf(q, p) > p
  BY <1>1, SearchNext
<1>3. \A r \in H \cup {e} : r <= e
  BY SizeFacts DEF IsPath
<1> QED BY <1>1, <1>2, <1>3, SizeFacts DEF IsPath, NextOf

LEMMA SearchAlong ==
  ASSUME NEW q, NEW e, Leads(q, e), e \in Position => Complete \notin q[e].flags
  PROVE  /\ e \in 1..Beyond
         /\ e \in Position => GetLastWriteHeader(q) = [at |-> e, full |-> FALSE]
         /\ e = Beyond => GetLastWriteHeader(q).full
<1>1. PICK H \in SUBSET Position : IsPath(q, H, e)
  BY DEF Leads
<1>2. PICK f : /\ GetLastWriteHeader(q) = f[1]
               /\ \A p \in Position : f[p] = SearchStep(q, f, p)
  BY SearchIs
<1> DEFINE Right(p) == /\ e \in Position => f[p] = [at |-> e, full |-> FALSE]
                       /\ e = Beyond => f[p].full
           T == {p \in H : ~Right(p)}
<1>3. e \in 1..Beyond /\ e \in Nat
  BY <1>1, SizeFacts DEF IsPath
<1>4. e \in Position => Right(e)
  <2> SUFFICES ASSUME e \in Position PROVE Right(e)
    OBVIOUS
  <2>1. f[e] = SearchStep(q, f, e) /\ e # Beyond
    BY <1>2, SizeFacts
  <2> QED BY <2>1 DEF SearchStep
<1>5. T = {}
  <2> SUFFICES ASSUME T # {} PROVE FALSE
    OBVIOUS
  <2>1. T \subseteq 0..QueueSize /\ QueueSize \in Nat
    BY SizeFacts
  <2>2. PICK p \in T : \A r \in T : r <= p
    BY <2>1, GreatestNat
  <2>3. p \in H /\ ~Right(p) /\ p \in Position /\ f[p] = SearchStep(q, f, p)
    BY <1>2, <2>2
  <2>4. /\ Complete \in q[p].flags /\ p + 1 <= NextOf(q, p)
        /\ NextOf(q, p) \in H \cup {e} /\ NextOf(q, p) <= e
    BY <1>1, <2>3, PathFacts
  <2>5. CASE NextOf(q, p) > QueueSize
    <3>1. e = Beyond /\ e \notin Position
      BY <1>3, <2>4, <2>5, SizeFacts
    <3>2. f[p] = [at |-> p, full |-> TRUE]
      BY <2>3, <2>4, <2>5 DEF SearchStep, NextOf
    <3> QED BY <2>3, <3>1, <3>2
  <2>6. CASE ~(NextOf(q, p) > QueueSize)
    <3>1. f[p] = f[NextOf(q, p)]
      BY <2>3, <2>4, <2>6 DEF SearchStep, NextOf
    <3>2. ~Right(NextOf(q, p))
      BY <2>3, <3>1
    <3>3. NextOf(q, p) \in Position
      BY <2>3, <2>4, <2>6, <1>3, SizeFacts
    <3>4. NextOf(q, p) \in T
      BY <1>4, <2>4, <3>2, <3>3
    <3> HIDE DEF T
    <3>5. NextOf(q, p) <= p
      BY <2>2, <3>4
    <3> QED BY <2>3, <2>4, <3>3, <3>5, SizeFacts
  <2> QED BY <2>5, <2>6
<1>6. 1 \in H \cup {e} /\ 1 \in Position
  BY <1>1, SizeFacts DEF IsPath
<1>7. Right(1)
  BY <1>4, <1>5, <1>6
<1> QED BY <1>2, <1>3, <1>7

LEMMA LeadsEmpty == Leads(EmptyQueue, 1)
<1>1. IsPath(EmptyQueue, {}, 1)
  BY SizeFacts DEF IsPath
<1> QED BY <1>1 DEF Leads

\* What lies behind the headers passed does not matter.
LEMMA PathBelow ==
  ASSUME SingleWrites, NEW q, NEW w, NEW H \in SUBSET Position, NEW e, IsPath(q, H, e),
         \A p \in Position : p < e => w[p] = q[p]
  PROVE  IsPath(w, H, e)
<1>1. \A p \in H : p < e /\ w[p] = q[p]
  BY PathFacts
<1> QED BY <1>1 DEF IsPath

LEMMA LeadsBelow ==
  ASSUME SingleWrites, NEW q, NEW w, NEW e, Leads(q, e),
         \A p \in Position : p < e => w[p] = q[p]
  PROVE  Leads(w, e)
BY PathBelow DEF Leads

LEMMA LeadsOn ==
  ASSUME SingleWrites, NEW q, NEW w, NEW e \in Position, Leads(q, e),
         \A p \in Position : p < e => w[p] = q[p],
         Complete \in w[e].flags, NextOf(w, e) <= Beyond
  PROVE  Leads(w, NextOf(w, e))
<1>1. PICK H \in SUBSET Position : IsPath(q, H, e)
  BY DEF Leads
<1>2. IsPath(w, H, e)
  BY <1>1, PathBelow
<1> DEFINE n == NextOf(w, e)
           G == H \cup {e}
<1>3. n \in Nat /\ n > e /\ n \in 1..Beyond /\ e \in Nat
  BY SearchNext, SizeFacts
<1>4. ASSUME NEW p \in G
      PROVE  Complete \in w[p].flags /\ p < n /\ NextOf(w, p) \in G \cup {n} /\ p \in Nat
  <2>1. CASE p = e
    BY <1>3, <2>1
  <2>2. CASE p \in H
    <3>1. p < e /\ p \in Nat
      BY <1>2, <2>2, PathFacts, SizeFacts
    <3>2. Complete \in w[p].flags /\ NextOf(w, p) \in H \cup {e}
      BY <1>2, <2>2, PathFacts
    <3> QED BY <1>3, <3>1, <3>2
  <2> QED BY <2>1, <2>2
<1>5. ASSUME NEW p \in G, NEW r \in G, p < r PROVE NextOf(w, p) <= r
  <2>1. CASE p = e
    <3>1. r = e => ~(p < r)
      BY <1>3, <2>1
    <3>2. r \in H => r < e
      BY <1>2, PathFacts
    <3>3. r \in H => r \in Nat
      BY SizeFacts
    <3> QED BY <1>3, <1>5, <2>1, <3>1, <3>2, <3>3
  <2>2. CASE p \in H /\ r \in H
    BY <1>2, <1>5, <2>2, PathFacts
  <2>3. CASE p \in H /\ r = e
    BY <1>2, <2>3, PathFacts
  <2> QED BY <2>1, <2>2, <2>3
<1>6. 1 \in G \cup {n}
  BY <1>2 DEF IsPath
<1>7. IsPath(w, G, n)
  BY <1>3, <1>4, <1>5, <1>6 DEF IsPath, NextOf
<1>8. G \in SUBSET Position
  OBVIOUS
<1> QED BY <1>7, <1>8 DEF Leads

\* Of an erase that is cut short the search finds an erased unit, or what it found.
LEMMA LeadsTorn ==
  ASSUME SingleWrites, NEW q, NEW w, Doomed(q),
         \A p \in Position : w[p] = q[p] \/ w[p] = ErasedUnit
  PROVE  Doomed(w)
<1>1. PICK e \in 1..Beyond :
        Leads(q, e) /\ (e \in Position => q[e].flags \cap {HeaderAllocated, Complete} = {})
  BY DEF Doomed
<1>2. PICK H \in SUBSET Position : IsPath(q, H, e)
  BY <1>1 DEF Leads
<1>3. ErasedUnit.flags = {}
  BY DEF ErasedUnit
<1> DEFINE Gone == {p \in H : w[p] # q[p]}
<1>4. CASE Gone = {}
  <2>1. \A p \in H : w[p] = q[p]
    BY <1>4
  <2>2. IsPath(w, H, e)
    BY <1>2, <2>1 DEF IsPath
  <2>3. Leads(w, e)
    BY <2>2 DEF Leads
  <2>4. e \in Position => w[e].flags \cap {HeaderAllocated, Complete} = {}
    BY <1>1, <1>3
  <2> QED BY <2>3, <2>4 DEF Doomed
<1>5. CASE Gone # {}
  <2>1. Gone \subseteq Nat
    BY SizeFacts
  <2>2. PICK g \in Gone : \A p \in Gone : g <= p
    BY <1>5, <2>1, LeastNat
  <2> DEFINE G == {p \in H : p < g}
  <2>3. g \in H /\ w[g] = ErasedUnit /\ g \in Position /\ g \in 1..Beyond /\ g \in Nat
    BY <2>2, SizeFacts
  <2>4. ASSUME NEW p \in G
        PROVE /\ w[p] = q[p] /\ Complete \in w[p].flags /\ NextOf(w, p) \in G \cup {g}
              /\ p < g /\ \A r \in G : p < r => NextOf(w, p) <= r
    <3>1. p \in H /\ p < g /\ p \notin Gone
      BY <2>2, <2>3, SizeFacts
    <3>2. w[p] = q[p] /\ NextOf(w, p) = NextOf(q, p)
      BY <3>1 DEF NextOf
    <3>3. /\ Complete \in q[p].flags /\ NextOf(q, p) \in H \cup {e} /\ p + 1 <= NextOf(q, p)
          /\ NextOf(q, p) <= g /\ \A r \in H : p < r => NextOf(q, p) <= r
      BY <1>2, <2>3, <3>1, PathFacts
    <3>4. g < e
      BY <1>2, <2>3, PathFacts
    <3>5. NextOf(q, p) \in H
      BY <3>3, <3>4, SizeFacts
    <3>6. NextOf(q, p) \in G \cup {g}
      <4>1. NextOf(q, p) \in Nat
        BY <3>5, SizeFacts
      <4>2. NextOf(q, p) < g \/ NextOf(q, p) = g
        BY <2>3, <3>3, <4>1
      <4> QED BY <3>5, <4>2
    <3> QED BY <3>1, <3>2, <3>3, <3>6
  <2>5. 1 \in G \cup {g}
    <3>1. 1 \in H \cup {e} /\ g < e /\ e \in Nat
      BY <1>2, <2>3, PathFacts, SizeFacts DEF IsPath
    <3>2. 1 \in H
      BY <2>3, <3>1, SizeFacts
    <3> QED BY <2>3, <3>2, SizeFacts
  <2>6. IsPath(w, G, g)
    BY <2>3, <2>4, <2>5 DEF IsPath, NextOf
  <2>7. Leads(w, g)
    BY <2>6 DEF Leads
  <2> QED BY <1>3, <2>3, <2>7 DEF Doomed
<1> QED BY <1>4, <1>5

-----------------------------------------------------------------------------
(* What the search finds under each condition.                              *)

LEMMA HeaderFacts ==
  ASSUME SingleWrites, NEW c \in Condition
  PROVE  /\ Complete \notin HeaderAt(c).flags
         /\ HeaderAllocated \in HeaderAt(c).flags <=> c \notin Unused
         /\ HeaderAt(c).flags = {} <=> c \in Unused
         /\ HeaderAt(c).body = 1 <=> c \notin Unused \cup {"bare"}
         /\ SpareComplete \in RecordFlags(c) <=> c \in {"pending", "written"}
         /\ DestinationComplete \in RecordFlags(c) <=> c = "written"
<1>1. Erased # 1 /\ Garbled # 1
  BY WriteSize
<1> QED BY <1>1 DEF Condition, HeaderAt, RecordFlags, Unused, ErasedUnit, Complete,
      HeaderAllocated, WritesAllocated, SpareComplete, DestinationComplete

LEMMA EmptyFacts ==
  /\ \A p \in Position : EmptyQueue[p] = ErasedUnit
  /\ ErasedUnit.flags = {} /\ ErasedUnit.body = Erased
  /\ HeaderAt("free") = ErasedUnit /\ RecordFlags("free") = {} /\ RecordBodies("free") = {Erased}
BY DEF EmptyQueue, ErasedUnit, HeaderAt, RecordFlags, RecordBodies

LEMMA LooksEmpty == Looks(EmptyQueue, 1, "free")
BY LeadsEmpty, EmptyFacts, SizeFacts DEF Looks, Condition, Unused

LEMMA LastHeaderIs ==
  ASSUME SingleWrites, NEW q, NEW h, NEW c, Looks(q, h, c)
  PROVE  /\ h \in 1..Beyond
         /\ h \in Position => GetLastWriteHeader(q) = [at |-> h, full |-> FALSE]
         /\ h = Beyond => GetLastWriteHeader(q).full
         /\ HasRoom(q) <=> h < QueueSize
<1>1. Leads(q, h) /\ c \in Condition /\ (h \in Position => q[h] = HeaderAt(c))
  BY DEF Looks
<1>2. h \in Position => Complete \notin q[h].flags
  BY <1>1, HeaderFacts
<1>3. /\ h \in 1..Beyond
      /\ h \in Position => GetLastWriteHeader(q) = [at |-> h, full |-> FALSE]
      /\ h = Beyond => GetLastWriteHeader(q).full
  BY <1>1, <1>2, SearchAlong
<1>4. CASE h \in Position
  BY <1>3, <1>4, SizeFacts DEF HasRoom
<1>5. CASE h \notin Position
  <2>1. h = Beyond /\ ~(h < QueueSize)
    BY <1>3, <1>5, SizeFacts
  <2> QED BY <1>3, <2>1 DEF HasRoom
<1> QED BY <1>3, <1>4, <1>5

LEMMA LastRecordIs ==
  ASSUME SingleWrites, NEW q, NEW h \in Position, NEW c, Looks(q, h, c), h < QueueSize
  PROVE  GetLastWriteRecord(q, h) = h + 1
<1> DEFINE n == NumberOfWrites(q[h])
           open == {r \in (h + 1)..(h + n) \cap Position : DestinationComplete \notin q[r].flags}
<1>1. /\ c \in Condition /\ q[h] = HeaderAt(c) /\ h + 1 \in Position
      /\ q[h + 1].flags = RecordFlags(c)
  BY SizeFacts DEF Looks
<1>2. h \in Nat /\ n \in Nat /\ n >= 1 /\ (HasCount(q[h]) => n = 1)
  BY WriteSize, SizeFacts DEF NumberOfWrites
<1>3. CASE c # "written"
  <2>1. DestinationComplete \notin q[h + 1].flags
    BY <1>1, <1>3, HeaderFacts
  <2>2. h + 1 \in open
    BY <1>1, <1>2, <2>1
  <2>3. open \subseteq Nat /\ \A r \in open : h + 1 <= r
    BY <1>2
  <2>4. GetLastWriteRecord(q, h) = Min(open)
    BY <2>2 DEF GetLastWriteRecord
  <2> HIDE DEF open
  <2>5. Min(open) \in open /\ Min(open) <= h + 1
    BY <2>2, <2>3, MinIs
  <2>6. h + 1 <= Min(open) /\ Min(open) \in Nat
    BY <2>3, <2>5
  <2>7. Min(open) = h + 1
    BY <1>2, <2>5, <2>6
  <2> QED BY <2>4, <2>7
<1>4. CASE c = "written"
  <2>1. HasCount(q[h])
    BY <1>1, <1>4, HeaderFacts, WriteSize DEF Unused
  <2>2. DestinationComplete \in q[h + 1].flags
    BY <1>1, <1>4, HeaderFacts
  <2>3. open = {}
    BY <1>2, <2>1, <2>2
  <2>4. GetLastWriteRecord(q, h) = (IF HasCount(q[h]) THEN h + n ELSE Beyond)
    BY <2>3 DEF GetLastWriteRecord
  <2> HIDE DEF n
  <2> QED BY <1>2, <2>1, <2>4
<1> QED BY <1>3, <1>4

LEMMA UnusedDoomed ==
  ASSUME SingleWrites, NEW q, NEW h, NEW c \in Unused, Looks(q, h, c)
  PROVE  Doomed(q)
<1>1. h \in 1..Beyond /\ c \in Condition
  BY LastHeaderIs DEF Looks
<1>2. h \in Position => q[h].flags = {}
  BY <1>1, HeaderFacts DEF Looks
<1> QED BY <1>1, <1>2 DEF Doomed, Looks

LEMMA NoRoomDoomed ==
  ASSUME SingleWrites, NEW q, NEW h, NEW c, Looks(q, h, c), ~HasRoom(q)
  PROVE  c \in Unused
BY LastHeaderIs DEF Looks

LEMMA DoomedPreserved ==
  ASSUME NEW q, Doomed(q)
  PROVE  Preserved(q) = EmptyQueue
<1>1. PICK e \in 1..Beyond :
        Leads(q, e) /\ (e \in Position => q[e].flags \cap {HeaderAllocated, Complete} = {})
  BY DEF Doomed
<1>2. /\ e \in Position => GetLastWriteHeader(q) = [at |-> e, full |-> FALSE]
      /\ e = Beyond => GetLastWriteHeader(q).full
  BY <1>1, SearchAlong
<1>3. e \in Position \/ e = Beyond
  BY SizeFacts
<1>4. ~(~GetLastWriteHeader(q).full /\ HeaderAllocated \in q[GetLastWriteHeader(q).at].flags)
  BY <1>1, <1>2, <1>3
<1> QED BY <1>4 DEF Preserved, EmptyQueue

-----------------------------------------------------------------------------
(* What the accesses of a write change.                                     *)

LEMMA LooksChanged ==
  ASSUME SingleWrites, NEW q, NEW w, NEW h \in Position, NEW c, Looks(q, h, c), h < QueueSize,
         \A p \in Position : p \notin {h, h + 1} => w[p] = q[p],
         NEW d \in Condition, w[h] = HeaderAt(d),
         w[h + 1].flags = RecordFlags(d), w[h + 1].body \in RecordBodies(d)
  PROVE  Looks(w, h, d)
<1>1. \A p \in Position : p < h => w[p] = q[p]
  BY SizeFacts
<1>2. Leads(w, h)
  BY <1>1, LeadsBelow DEF Looks
<1>3. \A p \in Position : p > h + 1 => w[p] = ErasedUnit
  BY SizeFacts DEF Looks
<1> QED BY <1>2, <1>3 DEF Looks

LEMMA HeaderCompleted ==
  ASSUME SingleWrites, NEW q \in Queue, NEW w, NEW h \in Position, NEW c, Looks(q, h, c),
         h < QueueSize, c \notin Unused,
         \A p \in Position : p # h => w[p] = q[p],
         w[h] = Program(q[h], [flags |-> {Complete}, body |-> Erased])
  PROVE  /\ Complete \in w[h].flags
         /\ WriteTotalSize(w[h]) = (IF c = "bare" THEN 1 ELSE 2)
         /\ c # "bare" => Looks(w, h + 2, "free")
         /\ \E d \in Unused : Looks(w, h + WriteTotalSize(w[h]), d)
<1>1. /\ c \in Condition /\ q[h] = HeaderAt(c) /\ h + 1 \in Position /\ Leads(q, h)
      /\ q[h + 1].flags = RecordFlags(c) /\ q[h + 1].body \in RecordBodies(c)
      /\ \A p \in Position : p > h + 1 => q[p] = ErasedUnit
      /\ h \in Nat
  BY SizeFacts DEF Looks
<1>2. w[h].flags = q[h].flags \cup {Complete} /\ w[h].body = q[h].body
  BY ProgramUnitIs
<1>3. WriteTotalSize(w[h]) = (IF c = "bare" THEN 1 ELSE 2)
  BY <1>1, <1>2, HeaderFacts, WriteSize
<1> DEFINE n == NextOf(w, h)
<1>4. n \in Nat /\ n = h + WriteTotalSize(w[h]) /\ n > h /\ n <= Beyond
  BY <1>1, <1>3, SizeFacts DEF NextOf
<1>5. Complete \in w[h].flags
  BY <1>2
<1>6. Leads(w, n)
  <2>1. \A p \in Position : p < h => w[p] = q[p]
    BY SizeFacts
  <2> QED BY <1>1, <1>4, <1>5, <2>1, LeadsOn
<1>7. \A p \in Position : p > h + 1 => w[p] = ErasedUnit
  BY <1>1, SizeFacts
<1> HIDE DEF n
<1>8. CASE c # "bare"
  <2>1. n = h + 2
    BY <1>3, <1>4, <1>8
  <2>2. /\ n \in Position => w[n] = ErasedUnit
        /\ n + 1 \in Position => w[n + 1] = ErasedUnit
        /\ \A p \in Position : p > n + 1 => w[p] = ErasedUnit
    BY <1>1, <1>7, <2>1, SizeFacts
  <2>3. Looks(w, n, "free")
    BY <1>6, <2>2, EmptyFacts DEF Looks, Condition, Unused
  <2>4. Looks(w, h + 2, "free")
    BY <2>1, <2>3
  <2> QED BY <1>3, <1>4, <1>5, <2>3, <2>4 DEF Unused
<1>9. CASE c = "bare"
  <2>1. n = h + 1 /\ n \in Position /\ w[n] = q[n] /\ q[n] \in Unit
    BY <1>1, <1>3, <1>4, <1>9, SizeFacts DEF Queue
  <2>2. q[n].flags = {} /\ q[n].body \in {Erased, Garbled}
    BY <1>1, <1>9, <2>1 DEF RecordFlags, RecordBodies
  <2>3. \A p \in Position : p > n => w[p] = ErasedUnit
    BY <1>7, <2>1
  <2>4. PICK d \in Unused : q[n] = HeaderAt(d)
    <3>1. [flags |-> {}, body |-> Erased] \in Unit /\ [flags |-> {}, body |-> Garbled] \in Unit
      BY DEF Unit
    <3>2. q[n] = HeaderAt("free") \/ q[n] = HeaderAt("leftover")
      BY <2>1, <2>2, <3>1, UnitEqual DEF HeaderAt, ErasedUnit
    <3> QED BY <3>2 DEF Unused
  <2>5. RecordFlags(d) = {} /\ RecordBodies(d) = {Erased} /\ d \in Condition
    BY DEF RecordFlags, RecordBodies, Unused, Condition
  <2>6. n + 1 \in Position => w[n + 1].flags = {} /\ w[n + 1].body = Erased
    BY <2>1, <2>3, EmptyFacts, SizeFacts
  <2>7. \A p \in Position : p > n + 1 => w[p] = ErasedUnit
    BY <2>1, <2>3, SizeFacts
  <2>8. Looks(w, n, d)
    BY <1>6, <2>1, <2>4, <2>5, <2>6, <2>7 DEF Looks
  <2> QED BY <1>3, <1>4, <1>5, <1>9, <2>8
<1> QED BY <1>8, <1>9

-----------------------------------------------------------------------------
(* The types.                                                               *)

FtwTypes ==
  /\ work \in Image /\ spare \in Block
  /\ target \in [Extent -> Data \cup {Torn}]
  /\ FtwLastWriteHeader \in Position /\ FtwLastWriteRecord \in Position \cup {Beyond}
  /\ Offset \in Position
  /\ Buffer \in Block /\ SpareBuffer \in Block
  /\ todo \in Seq(StepName)
  /\ args \in Call
  /\ reply \in {"none", "success", "failed"}
  /\ calls \in Nat /\ faults \in Nat /\ powerCuts \in Nat

Flags  == SUBSET (0..2)
Bodies == 1..MaxWrites \cup Extent \cup {Erased, Garbled}

LEMMA ProgramType ==
  ASSUME NEW u \in Unit, NEW flags \in Flags, NEW body \in Bodies
  PROVE  Program(u, [flags |-> flags, body |-> body]) \in Unit
BY DEF Program, Unit, Flags, Bodies

LEMMA ConstantTypes ==
  /\ EmptyQueue \in Queue /\ Blank \in Image /\ Header \in Image /\ ErasedBlock \in Block
  /\ BootCall \in Call /\ 1 \in Position /\ 2 \in Position
  /\ Blank.queue = EmptyQueue /\ Header.queue = EmptyQueue
  /\ ~Blank.written /\ ~Blank.valid /\ ~Blank.invalid
  /\ Header.written /\ ~Header.valid /\ ~Header.invalid
  /\ ErasedBlock.ws = Blank /\ ErasedBlock.data = Torn
<1>1. ErasedUnit \in Unit
  BY DEF ErasedUnit, Unit
<1>2. EmptyQueue \in Queue
  BY <1>1 DEF EmptyQueue, Queue
<1>3. /\ Blank \in Image /\ Blank.queue = EmptyQueue
      /\ Blank.written = FALSE /\ Blank.valid = FALSE /\ Blank.invalid = FALSE
  BY <1>2 DEF Blank, Image
<1>4. /\ Header \in Image /\ Header.queue = EmptyQueue
      /\ Header.written = TRUE /\ Header.valid = FALSE /\ Header.invalid = FALSE
  BY <1>2 DEF Blank, Header, Image
<1>5. ErasedBlock \in Block /\ ErasedBlock.ws = Blank /\ ErasedBlock.data = Torn
  BY <1>3 DEF ErasedBlock, Block
<1>6. BootCall \in Call
  BY QueueAssumption, FtwAssumption DEF BootCall, Call
<1> QED BY <1>2, <1>3, <1>4, <1>5, <1>6, SizeFacts

LEMMA ImageParts ==
  ASSUME NEW w \in Image
  PROVE  w.queue \in Queue /\ w.written \in BOOLEAN /\ w.valid \in BOOLEAN /\ w.invalid \in BOOLEAN
BY DEF Image

LEMMA BlockParts ==
  ASSUME NEW b \in Block
  PROVE  b.ws \in Image /\ b.data \in Data \cup {Torn}
BY DEF Block

\* Programming a unit changes nothing but that unit.
LEMMA UnitProgrammed ==
  ASSUME work \in Image, NEW p \in Position, NEW flags \in Flags, NEW body \in Bodies,
         ProgramUnit(p, flags, body)
  PROVE  /\ work' \in Image
         /\ work'.queue[p] = Program(work.queue[p], [flags |-> flags, body |-> body])
         /\ \A r \in Position : r # p => work'.queue[r] = work.queue[r]
         /\ IsValidWorkSpace(work') <=> IsValidWorkSpace(work)
<1> DEFINE u == Program(work.queue[p], [flags |-> flags, body |-> body])
           q == [work.queue EXCEPT ![p] = u]
<1>1. work' = [work EXCEPT !.queue = q]
  BY DEF ProgramUnit
<1>2. work.queue \in Queue /\ work.queue[p] \in Unit
  BY ImageParts DEF Queue
<1>3. u \in Unit
  BY <1>2, ProgramType
<1> HIDE DEF u
<1>4. q \in Queue /\ q[p] = u /\ \A r \in Position : r # p => q[r] = work.queue[r]
  BY <1>2, <1>3 DEF Queue
<1> HIDE DEF q
<1>5. /\ work' \in Image /\ work'.queue = q /\ work'.written = work.written
      /\ work'.valid = work.valid /\ work'.invalid = work.invalid
  BY <1>1, <1>4 DEF Image
<1> QED BY <1>4, <1>5 DEF IsValidWorkSpace, u

LEMMA PreservedType ==
  ASSUME NEW q \in Queue
  PROVE  Preserved(q) \in Queue
<1>1. ErasedUnit \in Unit
  BY DEF ErasedUnit, Unit
<1>2. GetLastWriteHeader(q).at \in Position
  BY SearchType
<1> DEFINE at == GetLastWriteHeader(q).at
<1>3. \A p \in Position : at + p - 1 <= QueueSize => at + p - 1 \in Position
  BY <1>2, SizeFacts
<1>4. \A p \in Position : at + p - 1 <= QueueSize => q[at + p - 1] \in Unit
  BY <1>3 DEF Queue
<1> QED BY <1>1, <1>4 DEF Preserved, Queue

LEMMA PointIntoType ==
  ASSUME SingleWrites, NEW q, PointInto(q)
  PROVE  FtwLastWriteHeader' \in Position /\ FtwLastWriteRecord' \in Position \cup {Beyond}
<1>1. GetLastWriteHeader(q).at \in Position
  BY SearchType
<1> QED BY <1>1, RecordType DEF PointInto

\* The sequences that services are made of.
LEMMA ProgramTypes ==
  /\ FlushToWorkingBlock \in Seq(StepName) /\ ReclaimSteps \in Seq(StepName)
  /\ AllocateSteps \in Seq(StepName) /\ WriteSteps \in Seq(StepName)
  /\ FtwWriteRecord \in Seq(StepName) /\ FtwAbort \in Seq(StepName)
  /\ InitFtwProtocol \in Seq(StepName)
<1>1. FlushToWorkingBlock \in Seq(StepName)
  BY DEF FlushToWorkingBlock, StepName
<1>2. <<"eraseSpare", "writeSpare", "spareValid", "workInvalid">> \in Seq(StepName)
  BY DEF StepName
<1>3. <<"eraseSpare", "restoreSpare">> \in Seq(StepName)
  BY DEF StepName
<1>4. ReclaimSteps \in Seq(StepName)
  BY <1>1, <1>2, <1>3 DEF ReclaimSteps
<1>5. AllocateSteps \in Seq(StepName) /\ WriteSteps \in Seq(StepName)
  BY DEF AllocateSteps, WriteSteps, StepName
<1>6. FtwWriteRecord \in Seq(StepName)
  BY DEF FtwWriteRecord, StepName
<1>7. FtwAbort \in Seq(StepName)
  BY DEF FtwAbort, StepName
<1>8. InitFtwProtocol \in Seq(StepName)
  BY DEF InitFtwProtocol, StepName
<1> QED BY <1>1, <1>4, <1>5, <1>6, <1>7, <1>8

LEMMA ContinueType ==
  ASSUME FtwTypes, todo # <<>>, NEW more \in Seq(StepName), Continue(more)
  PROVE  /\ todo' \in Seq(StepName) /\ args' \in Call /\ reply' \in {"none", "success", "failed"}
         /\ calls' \in Nat /\ faults' \in Nat /\ powerCuts' \in Nat
<1>1. Tail(todo) \in Seq(StepName)
  BY HeadTailProperties DEF FtwTypes
<1>2. todo' \in Seq(StepName)
  BY <1>1 DEF Continue
<1> QED BY <1>2 DEF Continue, FtwTypes, budgets

LEMMA ReturnType ==
  ASSUME FtwTypes, NEW r \in {"none", "success", "failed"}, Return(r)
  PROVE  /\ todo' \in Seq(StepName) /\ args' \in Call /\ reply' \in {"none", "success", "failed"}
         /\ calls' \in Nat /\ faults' \in Nat /\ powerCuts' \in Nat
BY DEF Return, FtwTypes, budgets

LEMMA ReclaimType ==
  ASSUME SingleWrites, FtwTypes, todo # <<>>, NEW q \in Queue, NEW w \in Image,
         NEW more \in Seq(StepName), Reclaim(q, w, more)
  PROVE  /\ FtwLastWriteHeader' \in Position /\ FtwLastWriteRecord' \in Position \cup {Beyond}
         /\ Buffer' \in Block /\ SpareBuffer' \in Block
         /\ Buffer'.ws.queue = q /\ ~Buffer'.ws.valid
         /\ todo' \in Seq(StepName) /\ args' \in Call /\ reply' \in {"none", "success", "failed"}
         /\ calls' \in Nat /\ faults' \in Nat /\ powerCuts' \in Nat
<1>1. FtwLastWriteHeader' \in Position /\ FtwLastWriteRecord' \in Position \cup {Beyond}
  BY PointIntoType DEF Reclaim
<1> DEFINE i == [w EXCEPT !.valid = FALSE, !.invalid = FALSE, !.queue = q]
<1>2. i \in Image /\ i.queue = q /\ i.valid = FALSE
  BY DEF Image
<1>3. Buffer' = [data |-> Torn, ws |-> i] /\ SpareBuffer' = spare
  BY DEF Reclaim
<1> HIDE DEF i
<1>4. Buffer' \in Block /\ Buffer'.ws = i /\ SpareBuffer' \in Block
  BY <1>2, <1>3 DEF Block, FtwTypes
<1>5. ReclaimSteps \o more \in Seq(StepName) /\ Continue(ReclaimSteps \o more)
  BY ProgramTypes DEF Reclaim
<1> QED BY <1>1, <1>2, <1>4, <1>5, ContinueType

LEMMA StepLiterals ==
  /\ <<>> \in Seq(StepName)
  /\ <<"reread">> \in Seq(StepName)
  /\ <<"checks">> \in Seq(StepName)
  /\ <<"eraseSpare">> \in Seq(StepName)
  /\ <<"eraseSpare", "restoreSpare">> \in Seq(StepName)
  /\ <<"refresh">> \in Seq(StepName)
  /\ <<"refresh", "restart">> \in Seq(StepName)
  /\ <<"refresh", "write">> \in Seq(StepName)
  /\ <<"refresh", "allocate", "checks">> \in Seq(StepName)
BY DEF StepName

\* The steps that change the flash or read it.
LEMMA FlashTypes ==
  ASSUME SingleWrites, FtwTypes,
         \/ EraseSpare \/ WriteSpare \/ RestoreSpare \/ SpareValid \/ WorkInvalid \/ ReadSpare
         \/ EraseWork \/ WriteWork \/ WorkValid
  PROVE  FtwTypes'
<1>1. todo # <<>> /\ Continue(<<>>)
  BY DEF EraseSpare, WriteSpare, RestoreSpare, SpareValid, WorkInvalid, ReadSpare, EraseWork,
     WriteWork, WorkValid, Step
<1>2. /\ todo' \in Seq(StepName) /\ args' \in Call /\ reply' \in {"none", "success", "failed"}
      /\ calls' \in Nat /\ faults' \in Nat /\ powerCuts' \in Nat
  BY <1>1, StepLiterals, ContinueType
<1>3. UNCHANGED <<target, pointers, Offset>>
  BY DEF EraseSpare, WriteSpare, RestoreSpare, SpareValid, WorkInvalid, ReadSpare, EraseWork,
     WriteWork, WorkValid, flash
<1>4. work' \in Image /\ spare' \in Block /\ Buffer' \in Block /\ SpareBuffer' \in Block
  <2>1. CASE EraseSpare \/ WriteSpare \/ RestoreSpare \/ ReadSpare \/ EraseWork
    BY <2>1, ConstantTypes DEF EraseSpare, WriteSpare, RestoreSpare, ReadSpare, EraseWork, FtwTypes,
       flash, buffers
  <2>2. CASE SpareValid
    <3>1. spare.ws \in Image /\ spare \in [data : Data \cup {Torn}, ws : Image]
      BY DEF FtwTypes, Block
    <3>2. [spare.ws EXCEPT !.valid = TRUE] \in Image
      BY <3>1 DEF Image
    <3>3. spare' = [spare EXCEPT !.ws = [spare.ws EXCEPT !.valid = TRUE]]
      BY <2>2, <3>1 DEF SpareValid
    <3>4. spare' \in Block
      BY <3>1, <3>2, <3>3 DEF Block
    <3> QED BY <2>2, <3>4 DEF SpareValid, FtwTypes, buffers
  <2>3. CASE WorkInvalid \/ WorkValid
    <3>1. work' \in Image
      BY <2>3 DEF WorkInvalid, WorkValid, FtwTypes, Image
    <3> QED BY <2>3, <3>1 DEF WorkInvalid, WorkValid, FtwTypes, buffers
  <2>4. CASE WriteWork
    <3>1. Buffer.ws \in Image /\ Buffer.ws.queue \in Queue
      BY BlockParts, ImageParts DEF FtwTypes
    <3>2. work' \in Image
      BY <2>4, <3>1, ConstantTypes DEF WriteWork, Image
    <3> QED BY <2>4, <3>2, ConstantTypes DEF WriteWork, FtwTypes
  <2> QED BY <2>1, <2>2, <2>3, <2>4
<1> QED BY <1>2, <1>3, <1>4 DEF FtwTypes, pointers

LEMMA UnitTypes ==
  ASSUME SingleWrites, FtwTypes,
         \/ AllocateHeader \/ AllocateWrites \/ SetSpareComplete \/ DestComplete \/ WritesComplete
         \/ Abort
  PROVE  FtwTypes'
<1>1. todo # <<>> /\ Continue(<<>>)
  BY DEF AllocateHeader, AllocateWrites, SetSpareComplete, DestComplete, WritesComplete, Abort, Step
<1>2. /\ todo' \in Seq(StepName) /\ args' \in Call /\ reply' \in {"none", "success", "failed"}
      /\ calls' \in Nat /\ faults' \in Nat /\ powerCuts' \in Nat
  BY <1>1, StepLiterals, ContinueType
<1>3. UNCHANGED <<spare, target, pointers, Offset, buffers>>
  BY DEF AllocateHeader, AllocateWrites, SetSpareComplete, DestComplete, WritesComplete, Abort
<1>4. work' \in Image
  <2>1. ASSUME NEW p, NEW f \in Flags, NEW b \in Bodies, ProgramUnit(p, f, b) PROVE work' \in Image
    <3>1. CASE p \in Position
      BY <2>1, <3>1, UnitProgrammed DEF FtwTypes
    <3>2. CASE p \notin Position
      <4> DEFINE q == [work.queue EXCEPT ![p] = Program(@, [flags |-> f, body |-> b])]
      <4>1. work.queue \in Queue
        BY ImageParts DEF FtwTypes
      <4>2. q = work.queue
        BY <3>2, <4>1 DEF Queue
      <4>3. work' = [work EXCEPT !.queue = q]
        BY <2>1 DEF ProgramUnit
      <4> HIDE DEF q
      <4> QED BY <4>1, <4>2, <4>3 DEF FtwTypes, Image
    <3> QED BY <3>1, <3>2
  <2>2. /\ {HeaderAllocated} \in Flags /\ {WritesAllocated} \in Flags /\ {SpareComplete} \in Flags
        /\ {DestinationComplete} \in Flags /\ {Complete} \in Flags
    BY DEF Flags, HeaderAllocated, WritesAllocated, SpareComplete, DestinationComplete, Complete
  <2>3. Erased \in Bodies /\ args.n \in Bodies
    BY DEF Bodies, FtwTypes, Call
  <2> QED BY <2>1, <2>2, <2>3 DEF AllocateHeader, AllocateWrites, SetSpareComplete, DestComplete,
        WritesComplete, Abort, FtwTypes
<1> QED BY <1>2, <1>3, <1>4 DEF FtwTypes, pointers, buffers

LEMMA RecordTypes ==
  ASSUME SingleWrites, FtwTypes, rec \in Position, Record
  PROVE  FtwTypes'
<1>1. todo # <<>> /\ Continue(<<>>)
  BY DEF Record, Step
<1>2. /\ todo' \in Seq(StepName) /\ args' \in Call /\ reply' \in {"none", "success", "failed"}
      /\ calls' \in Nat /\ faults' \in Nat /\ powerCuts' \in Nat
  BY <1>1, StepLiterals, ContinueType
<1>3. {} \in Flags /\ args.ext \in Bodies /\ args.data \in Data
  BY DEF Flags, Bodies, FtwTypes, Call
<1>4. work' \in Image
  BY <1>3, UnitProgrammed DEF Record, FtwTypes
<1>5. Buffer' \in Block /\ SpareBuffer' \in Block
  BY <1>3, ConstantTypes DEF Record, Block, FtwTypes
<1> QED BY <1>2, <1>4, <1>5 DEF Record, FtwTypes, pointers

LEMMA TargetTypes ==
  ASSUME SingleWrites, FtwTypes, EraseTarget \/ WriteTarget
  PROVE  FtwTypes'
<1>1. todo # <<>> /\ Continue(<<>>)
  BY DEF EraseTarget, WriteTarget, Step
<1>2. /\ todo' \in Seq(StepName) /\ args' \in Call /\ reply' \in {"none", "success", "failed"}
      /\ calls' \in Nat /\ faults' \in Nat /\ powerCuts' \in Nat
  BY <1>1, StepLiterals, ContinueType
<1>3. Buffer.data \in Data \cup {Torn}
  BY BlockParts DEF FtwTypes
<1>4. target' \in [Extent -> Data \cup {Torn}]
  BY <1>3 DEF EraseTarget, WriteTarget, FtwTypes
<1>5. UNCHANGED <<work, spare, pointers, Offset, SpareBuffer>> /\ Buffer' \in Block
  BY ConstantTypes DEF EraseTarget, WriteTarget, buffers, FtwTypes
<1> QED BY <1>2, <1>4, <1>5 DEF FtwTypes, pointers

\* The steps that only decide what comes next.
LEMMA DecisionTypes ==
  ASSUME SingleWrites, FtwTypes,
         Step("restart") => LastRecord.body \in Extent,
         \/ Write \/ Checks \/ Restart \/ GetLastWrite \/ BootFirst \/ BootLast \/ BootRestart
  PROVE  FtwTypes'
<1>1. UNCHANGED <<flash, pointers, Offset, buffers>>
  BY DEF Write, Checks, Restart, GetLastWrite, BootFirst, BootLast, BootRestart
<1>2. todo # <<>> /\ Tail(todo) \in Seq(StepName)
  <2>1. todo # <<>>
    BY DEF Write, Checks, Restart, GetLastWrite, BootFirst, BootLast, BootRestart, Step
  <2> QED BY <2>1, HeadTailProperties DEF FtwTypes
<1>3. \/ \E more \in Seq(StepName) : Continue(more)
      \/ Return("failed")
      \/ Restart /\ Step("restart") /\ ~Return("failed")
  <2>1. CASE Write
    BY <2>1, StepLiterals DEF Write
  <2>2. CASE Checks
    <3>1. WriteSteps \o FtwWriteRecord \o <<"eraseSpare", "restoreSpare">> \in Seq(StepName)
      BY ProgramTypes, StepLiterals
    <3> QED BY <2>2, <3>1 DEF Checks
  <2>3. CASE GetLastWrite \/ BootFirst \/ BootLast
    BY <2>3, ProgramTypes, StepLiterals DEF GetLastWrite, BootFirst, BootLast
  <2>4. CASE BootRestart
    <3>1. <<"refresh", "restart">> \o FtwAbort \in Seq(StepName)
      BY ProgramTypes, StepLiterals
    <3> QED BY <2>4, <3>1, ProgramTypes, StepLiterals DEF BootRestart
  <2>5. CASE Restart
    BY <2>5 DEF Restart
  <2> QED BY <2>1, <2>2, <2>3, <2>4, <2>5
<1>4. /\ todo' \in Seq(StepName) /\ args' \in Call /\ reply' \in {"none", "success", "failed"}
      /\ calls' \in Nat /\ faults' \in Nat /\ powerCuts' \in Nat
  <2>1. CASE \E more \in Seq(StepName) : Continue(more)
    BY <1>2, <2>1, ContinueType
  <2>2. CASE Return("failed")
    BY <2>2, ReturnType
  <2>3. CASE Restart /\ Step("restart") /\ ~Return("failed")
    <3>1. /\ todo' = FtwWriteRecord \o <<"eraseSpare">> \o Tail(todo)
          /\ args' = [args EXCEPT !.ext = LastRecord.body]
          /\ UNCHANGED <<reply, budgets>>
      BY <2>3 DEF Restart
    <3>2. todo' \in Seq(StepName)
      BY <1>2, <3>1, ProgramTypes, StepLiterals
    <3>3. LastRecord.body \in Extent \cup {Erased}
      BY <2>3
    <3>4. args' \in Call
      BY <3>1, <3>3 DEF FtwTypes, Call
    <3> QED BY <3>1, <3>2, <3>4 DEF FtwTypes, budgets
  <2> QED BY <1>3, <2>1, <2>2, <2>3
<1> QED BY <1>1, <1>4 DEF FtwTypes, flash, pointers, buffers

\* The steps that can begin a reclaim.
LEMMA PointerTypes ==
  ASSUME SingleWrites, FtwTypes, Refresh \/ Reread \/ Allocate \/ BootValid \/ BootTail
  PROVE  FtwTypes'
<1>1. UNCHANGED flash /\ (~Allocate => UNCHANGED Offset) /\ todo # <<>>
  BY DEF Refresh, Reread, Allocate, BootValid, BootTail, Step
<1>2. \/ /\ \E more \in Seq(StepName) : Continue(more)
         /\ UNCHANGED buffers
         /\ UNCHANGED pointers \/ PointInto(work.queue)
      \/ Return("failed") /\ UNCHANGED <<pointers, buffers>>
      \/ \E q \in Queue, w \in Image, more \in Seq(StepName) : Reclaim(q, w, more)
  <2>1. /\ work \in Image /\ Preserved(work.queue) \in Queue
        /\ EmptyQueue \in Queue /\ Header \in Image
    BY PreservedType, ImageParts, ConstantTypes DEF FtwTypes
  <2>2. CASE Refresh
    BY <2>1, <2>2, StepLiterals DEF Refresh
  <2>3. CASE Reread
    BY <2>3, StepLiterals DEF Reread
  <2>4. CASE Allocate
    BY <2>1, <2>4, ProgramTypes DEF Allocate
  <2>5. CASE BootValid
    <3>1. FlushToWorkingBlock \o FtwAbort \o <<"refresh">> \in Seq(StepName)
      BY ProgramTypes, StepLiterals
    <3> QED BY <2>1, <2>5, <3>1, StepLiterals DEF BootValid
  <2>6. CASE BootTail
    BY <2>1, <2>6, StepLiterals DEF BootTail
  <2> QED BY <1>1, <2>2, <2>3, <2>4, <2>5, <2>6 DEF Refresh, Reread, Allocate, BootValid, BootTail
<1>3. /\ FtwLastWriteHeader' \in Position /\ FtwLastWriteRecord' \in Position \cup {Beyond}
      /\ Buffer' \in Block /\ SpareBuffer' \in Block
      /\ todo' \in Seq(StepName) /\ args' \in Call /\ reply' \in {"none", "success", "failed"}
      /\ calls' \in Nat /\ faults' \in Nat /\ powerCuts' \in Nat
  <2>1. CASE /\ \E more \in Seq(StepName) : Continue(more)
             /\ UNCHANGED buffers
             /\ UNCHANGED pointers \/ PointInto(work.queue)
    <3>1. FtwLastWriteHeader' \in Position /\ FtwLastWriteRecord' \in Position \cup {Beyond}
      BY <2>1, PointIntoType DEF pointers, FtwTypes
    <3>2. /\ todo' \in Seq(StepName) /\ args' \in Call /\ reply' \in {"none", "success", "failed"}
          /\ calls' \in Nat /\ faults' \in Nat /\ powerCuts' \in Nat
      BY <1>1, <2>1, ContinueType
    <3> QED BY <2>1, <3>1, <3>2 DEF buffers, FtwTypes
  <2>2. CASE Return("failed") /\ UNCHANGED <<pointers, buffers>>
    BY <2>2, ReturnType DEF pointers, buffers, FtwTypes
  <2>3. CASE \E q \in Queue, w \in Image, more \in Seq(StepName) : Reclaim(q, w, more)
    BY <1>1, <2>3, ReclaimType
  <2> QED BY <1>2, <2>1, <2>2, <2>3
<1>4. Offset' \in Position
  <2>1. Allocate => Offset' = hdr \/ Offset' = Offset
    BY DEF Allocate
  <2> QED BY <1>1, <2>1 DEF FtwTypes, hdr
<1> QED BY <1>1, <1>3, <1>4 DEF flash, FtwTypes

LEMMA InvokeTypes ==
  ASSUME SingleWrites, FtwTypes, Invoke
  PROVE  FtwTypes'
<1>1. PICK op \in Ops, x \in Extent, d \in Data, n \in 1..MaxWrites :
        args' = [op |-> op, ext |-> x, data |-> d, n |-> n] /\ todo' = Service(op)
  BY DEF Invoke
<1>2. op = "write"
  BY DEF SingleWrites
<1>3. args' \in Call
  BY <1>1, <1>2 DEF Call
<1>4. todo' \in Seq(StepName)
  BY <1>1, <1>2, StepLiterals DEF Service
<1>5. reply' = "none" /\ calls' \in Nat
  BY DEF Invoke, FtwTypes
<1> QED BY <1>3, <1>4, <1>5 DEF Invoke, FtwTypes, flash, pointers, buffers

\* What is left of a header that was being programmed.
LEMMA HeaderTorn ==
  ASSUME FtwTypes, Step("allocateHeader"), ~Step("eraseWork"), work' \in Remains, work' # work
  PROVE  \E rest \in {Erased, Garbled} :
           work' = [work EXCEPT !.queue =
                      [[work.queue EXCEPT ![Offset] = [work.queue[Offset] EXCEPT
                                                         !.flags = @ \cup {HeaderAllocated}]]
                         EXCEPT ![Offset + 1] =
                           Program(work.queue[Offset + 1], [flags |-> {}, body |-> rest])]]
<1>1. work \in Image /\ work.queue \in Queue
  BY ImageParts DEF FtwTypes
<1>2. PICK rest \in {Erased, Garbled} :
        work' = [work EXCEPT !.queue[Offset].flags = @ \cup {HeaderAllocated},
                             !.queue[Offset + 1] = Program(@, [flags |-> {}, body |-> rest])]
  BY DEF Remains
<1> DEFINE u == [work.queue[Offset] EXCEPT !.flags = @ \cup {HeaderAllocated}]
           q == [work.queue EXCEPT ![Offset] = u]
           v == Program(work.queue[Offset + 1], [flags |-> {}, body |-> rest])
           r == [q EXCEPT ![Offset + 1] = v]
           w == [work EXCEPT !.queue = q]
<1>3. w = [work EXCEPT !.queue[Offset].flags = @ \cup {HeaderAllocated}]
  OBVIOUS
<1>4. w.queue = q /\ [w EXCEPT !.queue = r] = [work EXCEPT !.queue = r]
  <2> HIDE DEF q, r
  <2> QED BY <1>1 DEF Image
<1>5. work' = [w EXCEPT !.queue = [w.queue EXCEPT ![Offset + 1] =
                                     Program(work.queue[Offset + 1], [flags |-> {}, body |-> rest])]]
  BY <1>2, <1>3
<1>6. work' = [work EXCEPT !.queue = r]
  <2> HIDE DEF w
  <2> QED BY <1>4, <1>5
<1> QED BY <1>6

\* What a power failure leaves of the work space.
LEMMA RemainsType ==
  ASSUME FtwTypes, work' \in Remains
  PROVE  work' \in Image
<1>1. work \in Image /\ work.queue \in Queue /\ ErasedUnit \in Unit
  BY ImageParts DEF FtwTypes, ErasedUnit, Unit
<1>2. CASE work' = work
  BY <1>1, <1>2
<1>3. CASE Step("eraseWork") /\ work' # work
  <2>1. PICK kept \in SUBSET Position :
          work' = [Blank EXCEPT !.queue = [p \in Position |-> IF p \in kept THEN work.queue[p]
                                                              ELSE ErasedUnit]]
    BY <1>3 DEF Remains
  <2>2. [p \in Position |-> IF p \in kept THEN work.queue[p] ELSE ErasedUnit] \in Queue
    BY <1>1 DEF Queue
  <2> QED BY <2>1, <2>2, ConstantTypes DEF Image
<1>4. CASE Step("allocateHeader") /\ ~Step("eraseWork") /\ work' # work
  <2> DEFINE u == [work.queue[Offset] EXCEPT !.flags = @ \cup {HeaderAllocated}]
             q == [work.queue EXCEPT ![Offset] = u]
  <2>1. PICK rest \in {Erased, Garbled} :
          work' = [work EXCEPT !.queue = [q EXCEPT ![Offset + 1] =
                                            Program(work.queue[Offset + 1], [flags |-> {}, body |-> rest])]]
    BY <1>4, HeaderTorn
  <2> DEFINE v == Program(work.queue[Offset + 1], [flags |-> {}, body |-> rest])
             r == [q EXCEPT ![Offset + 1] = v]
  <2>2. work' = [work EXCEPT !.queue = r]
    BY <2>1
  <2>3. work.queue[Offset] \in Unit
    BY <1>1 DEF Queue, FtwTypes
  <2>4. u \in Unit
    BY <2>3 DEF Unit, HeaderAllocated
  <2> HIDE DEF u
  <2>5. q \in Queue
    BY <1>1, <2>4 DEF Queue
  <2> HIDE DEF q
  <2>6. Offset + 1 \in Position => v \in Unit
    <3>1. {} \in Flags /\ rest \in Bodies
      BY DEF Flags, Bodies
    <3> QED BY <1>1, <3>1, ProgramType DEF Queue
  <2> HIDE DEF v
  <2>7. r \in Queue
    BY <2>5, <2>6 DEF Queue
  <2> HIDE DEF r
  <2> QED BY <1>1, <2>2, <2>7 DEF Image
<1> QED BY <1>2, <1>3, <1>4 DEF Remains

LEMMA PowerCutTypes ==
  ASSUME SingleWrites, FtwTypes, PowerCut
  PROVE  FtwTypes'
<1>1. work' \in Image
  BY RemainsType DEF PowerCut
<1>2. FtwLastWriteHeader' \in Position /\ FtwLastWriteRecord' \in Position /\ Offset' \in Position
  BY ConstantTypes DEF PowerCut
<1>3. Buffer' \in Block /\ SpareBuffer' \in Block /\ args' \in Call /\ todo' \in Seq(StepName)
  BY ConstantTypes, ProgramTypes DEF PowerCut
<1>4. reply' = "none" /\ powerCuts' \in Nat
  BY DEF PowerCut, FtwTypes
<1> QED BY <1>1, <1>2, <1>3, <1>4 DEF PowerCut, FtwTypes

LEMMA InitTypes ==
  ASSUME Init
  PROVE  FtwTypes
<1>1. target \in [Extent -> Data \cup {Torn}]
  BY FtwAssumption DEF Init
<1> QED BY <1>1, ConstantTypes, ProgramTypes, FtwAssumption DEF Init, FtwTypes

-----------------------------------------------------------------------------
(* The steps that a service has left.                                       *)

Left(s, i, k) == SubSeq(s, i, Len(s)) \o k

Begins(x, k) == todo # <<>> /\ Head(todo) = x /\ Tail(todo) = k

LEMMA HeadTailConcat ==
  ASSUME NEW S, NEW r \in Seq(S), r # <<>>, NEW k \in Seq(S)
  PROVE  r \o k # <<>> /\ Head(r \o k) = Head(r) /\ Tail(r \o k) = Tail(r) \o k
<1> DEFINE t == r \o k
           u == Tail(r) \o k
<1>1. Len(r) \in Nat /\ Len(r) >= 1 /\ Len(k) \in Nat
  BY EmptySeq, LenProperties
<1>2. /\ Tail(r) \in Seq(S) /\ Len(Tail(r)) = Len(r) - 1 /\ Head(r) = r[1]
      /\ \A i \in 1..Len(Tail(r)) : Tail(r)[i] = r[i + 1]
  BY HeadTailProperties
<1>3. /\ t \in Seq(S) /\ Len(t) = Len(r) + Len(k)
      /\ \A i \in 1..(Len(r) + Len(k)) : t[i] = IF i <= Len(r) THEN r[i] ELSE k[i - Len(r)]
  BY ConcatProperties
<1>4. /\ u \in Seq(S) /\ Len(u) = Len(r) - 1 + Len(k)
      /\ \A i \in 1..(Len(r) - 1 + Len(k)) :
           u[i] = IF i <= Len(r) - 1 THEN Tail(r)[i] ELSE k[i - (Len(r) - 1)]
  <2>1. /\ u \in Seq(S) /\ Len(u) = Len(Tail(r)) + Len(k)
        /\ \A i \in 1..(Len(Tail(r)) + Len(k)) :
             u[i] = IF i <= Len(Tail(r)) THEN Tail(r)[i] ELSE k[i - Len(Tail(r))]
    BY <1>2, ConcatProperties
  <2> HIDE DEF u
  <2> QED BY <1>2, <2>1
<1> HIDE DEF t, u
<1>5. t # <<>>
  BY <1>1, <1>3, EmptySeq
<1>6. /\ Tail(t) \in Seq(S) /\ Len(Tail(t)) = Len(t) - 1 /\ Head(t) = t[1]
      /\ \A i \in 1..Len(Tail(t)) : Tail(t)[i] = t[i + 1]
  BY <1>3, <1>5, HeadTailProperties
<1>7. Head(t) = Head(r)
  BY <1>1, <1>2, <1>3, <1>6
<1>8. ASSUME NEW i \in 1..Len(u) PROVE Tail(t)[i] = u[i]
  <2>1. i \in Nat /\ i >= 1 /\ i <= Len(r) - 1 + Len(k) /\ i \in 1..Len(Tail(t))
        /\ i + 1 \in 1..(Len(r) + Len(k)) /\ i \in 1..(Len(r) - 1 + Len(k))
    BY <1>1, <1>3, <1>4, <1>6
  <2>2. Tail(t)[i] = t[i + 1]
    BY <1>6, <2>1
  <2>3. t[i + 1] = IF i + 1 <= Len(r) THEN r[i + 1] ELSE k[i + 1 - Len(r)]
    BY <1>3, <2>1
  <2>4. u[i] = IF i <= Len(r) - 1 THEN Tail(r)[i] ELSE k[i - (Len(r) - 1)]
    BY <1>4, <2>1
  <2>5. i <= Len(r) - 1 => Tail(r)[i] = r[i + 1]
    BY <1>1, <1>2, <2>1
  <2>6. i + 1 - Len(r) = i - (Len(r) - 1) /\ (i + 1 <= Len(r) <=> i <= Len(r) - 1)
    BY <1>1, <2>1
  <2> QED BY <2>2, <2>3, <2>4, <2>5, <2>6
<1>9. Tail(t) = u
  <2>1. Len(Tail(t)) = Len(u)
    BY <1>1, <1>3, <1>4, <1>6
  <2> QED BY <1>4, <1>6, <1>8, <2>1, SeqEqual
<1> QED BY <1>5, <1>7, <1>9 DEF t, u

LEMMA LeftStep ==
  ASSUME NEW S, NEW s \in Seq(S), NEW k \in Seq(S), NEW i \in 1..Len(s)
  PROVE  /\ Left(s, i, k) # <<>> /\ Head(Left(s, i, k)) = s[i]
         /\ Tail(Left(s, i, k)) = Left(s, i + 1, k)
<1>1. Len(s) \in Nat /\ i \in Int /\ i <= Len(s) /\ Len(s) \in i..Len(s) /\ i >= 1
  BY LenProperties
<1> DEFINE r == SubSeq(s, i, Len(s))
<1>2. \A j \in i..Len(s) : s[j] \in S
  BY <1>1, ElementOfSeq
<1>3. r \in Seq(S) /\ Len(r) = Len(s) - i + 1
  BY <1>1, <1>2, SubSeqProperties
<1>4. Head(r) = s[i] /\ Tail(r) = SubSeq(s, i + 1, Len(s))
  BY <1>1, HeadTailOfSubSeq
<1> HIDE DEF r
<1>5. r # <<>>
  BY <1>1, <1>3, EmptySeq
<1>6. r \o k # <<>> /\ Head(r \o k) = Head(r) /\ Tail(r \o k) = Tail(r) \o k
  BY <1>3, <1>5, HeadTailConcat
<1> QED BY <1>4, <1>6 DEF Left, r

LEMMA LeftEnds ==
  ASSUME NEW S, NEW s \in Seq(S), NEW k \in Seq(S)
  PROVE  Left(s, 1, k) = s \o k /\ Left(s, Len(s) + 1, k) = k
<1>1. SubSeq(s, 1, Len(s)) = s
  BY SubSeqFull
<1>2. SubSeq(s, Len(s) + 1, Len(s)) = <<>>
  <2>1. Len(s) \in Nat
    BY LenProperties
  <2>2. Len(s) + 1 \in Int /\ Len(s) \in Int /\ Len(s) < Len(s) + 1
    BY <2>1
  <2> QED BY <2>2, SubSeqEmpty
<1>3. <<>> \o k = k
  BY ConcatEmptySeq
<1> QED BY <1>1, <1>2, <1>3 DEF Left

\* The steps of each function.
LEMMA ProgramSteps ==
  /\ Len(InitFtwProtocol) = 6 /\ InitFtwProtocol[1] = "refresh" /\ InitFtwProtocol[2] = "bootValid"
  /\ InitFtwProtocol[3] = "bootFirst" /\ InitFtwProtocol[4] = "bootLast"
  /\ InitFtwProtocol[5] = "bootTail" /\ InitFtwProtocol[6] = "bootRestart"
  /\ Len(FtwAbort) = 2 /\ FtwAbort[1] = "refresh" /\ FtwAbort[2] = "abort"
  /\ Len(WriteSteps) = 4 /\ WriteSteps[1] = "record" /\ WriteSteps[2] = "eraseSpare"
  /\ WriteSteps[3] = "writeSpare" /\ WriteSteps[4] = "spareComplete"
  /\ Len(FtwWriteRecord) = 5 /\ FtwWriteRecord[1] = "readSpare" /\ FtwWriteRecord[2] = "eraseTarget"
  /\ FtwWriteRecord[3] = "writeTarget" /\ FtwWriteRecord[4] = "destComplete"
  /\ FtwWriteRecord[5] = "writesComplete"
  /\ Len(FlushToWorkingBlock) = 6 /\ FlushToWorkingBlock[1] = "spareValid"
  /\ FlushToWorkingBlock[2] = "readSpare" /\ FlushToWorkingBlock[3] = "workInvalid"
  /\ FlushToWorkingBlock[4] = "eraseWork" /\ FlushToWorkingBlock[5] = "writeWork"
  /\ FlushToWorkingBlock[6] = "workValid"
BY DEF InitFtwProtocol, FtwAbort, WriteSteps, FtwWriteRecord, FlushToWorkingBlock

LEMMA ReclaimIs ==
  /\ Len(ReclaimSteps) = 12 /\ ReclaimSteps[1] = "eraseSpare" /\ ReclaimSteps[2] = "writeSpare"
  /\ ReclaimSteps[3] = "spareValid" /\ ReclaimSteps[4] = "workInvalid"
  /\ ReclaimSteps[5] = "spareValid" /\ ReclaimSteps[6] = "readSpare"
  /\ ReclaimSteps[7] = "workInvalid" /\ ReclaimSteps[8] = "eraseWork"
  /\ ReclaimSteps[9] = "writeWork" /\ ReclaimSteps[10] = "workValid"
  /\ ReclaimSteps[11] = "eraseSpare" /\ ReclaimSteps[12] = "restoreSpare"
<1> DEFINE a == <<"eraseSpare", "writeSpare", "spareValid", "workInvalid">>
           b == FlushToWorkingBlock
           c == <<"eraseSpare", "restoreSpare">>
           ab == a \o b
<1>1. /\ a \in Seq(StepName) /\ Len(a) = 4 /\ a[1] = "eraseSpare" /\ a[2] = "writeSpare"
      /\ a[3] = "spareValid" /\ a[4] = "workInvalid"
  BY DEF StepName
<1>2. /\ b \in Seq(StepName) /\ Len(b) = 6 /\ b[1] = "spareValid" /\ b[2] = "readSpare"
      /\ b[3] = "workInvalid" /\ b[4] = "eraseWork" /\ b[5] = "writeWork" /\ b[6] = "workValid"
  BY ProgramSteps, ProgramTypes
<1>3. c \in Seq(StepName) /\ Len(c) = 2 /\ c[1] = "eraseSpare" /\ c[2] = "restoreSpare"
  BY DEF StepName
<1>4. ReclaimSteps = ab \o c
  BY DEF ReclaimSteps
<1> HIDE DEF a, b, c
<1>5. ab \in Seq(StepName) /\ Len(ab) = 10
      /\ \A i \in 1..10 : ab[i] = IF i <= 4 THEN a[i] ELSE b[i - 4]
  <2>1. /\ ab \in Seq(StepName) /\ Len(ab) = Len(a) + Len(b)
        /\ \A i \in 1..(Len(a) + Len(b)) : ab[i] = IF i <= Len(a) THEN a[i] ELSE b[i - Len(a)]
    BY <1>1, <1>2, ConcatProperties
  <2> HIDE DEF ab
  <2> QED BY <1>1, <1>2, <2>1
<1> HIDE DEF ab
<1>6. Len(ReclaimSteps) = 12 /\ \A i \in 1..12 : ReclaimSteps[i] = IF i <= 10 THEN ab[i] ELSE c[i - 10]
  <2> DEFINE abc == ab \o c
  <2>1. /\ abc \in Seq(StepName) /\ Len(abc) = Len(ab) + Len(c)
        /\ \A i \in 1..(Len(ab) + Len(c)) : abc[i] = IF i <= Len(ab) THEN ab[i] ELSE c[i - Len(ab)]
    BY <1>3, <1>5, ConcatProperties
  <2> HIDE DEF abc
  <2>2. Len(abc) = 12 /\ \A i \in 1..12 : abc[i] = IF i <= 10 THEN ab[i] ELSE c[i - 10]
    BY <1>3, <1>5, <2>1
  <2>3. ReclaimSteps = abc
    BY <1>4 DEF abc
  <2> QED BY <2>2, <2>3
<1>7. /\ \A i \in 1..4 : ReclaimSteps[i] = a[i]
      /\ \A i \in 1..6 : ReclaimSteps[i + 4] = b[i]
      /\ \A i \in 1..2 : ReclaimSteps[i + 10] = c[i]
  <2>1. ASSUME NEW i \in 1..4 PROVE ReclaimSteps[i] = a[i]
    <3>1. i \in 1..10 /\ i \in 1..12 /\ i <= 4 /\ i <= 10
      OBVIOUS
    <3>2. ReclaimSteps[i] = ab[i]
      BY <1>6, <3>1
    <3> QED BY <1>5, <3>1, <3>2
  <2>2. ASSUME NEW i \in 1..6 PROVE ReclaimSteps[i + 4] = b[i]
    <3>1. i + 4 \in 1..10 /\ i + 4 \in 1..12 /\ ~(i + 4 <= 4) /\ i + 4 <= 10 /\ i + 4 - 4 = i
      OBVIOUS
    <3>2. ReclaimSteps[i + 4] = ab[i + 4]
      BY <1>6, <3>1
    <3>3. ab[i + 4] = b[i + 4 - 4]
      BY <1>5, <3>1
    <3> QED BY <3>1, <3>2, <3>3
  <2>3. ASSUME NEW i \in 1..2 PROVE ReclaimSteps[i + 10] = c[i]
    <3>1. i + 10 \in 1..12 /\ ~(i + 10 <= 10) /\ i + 10 - 10 = i
      OBVIOUS
    <3>2. ReclaimSteps[i + 10] = c[i + 10 - 10]
      BY <1>6, <3>1
    <3> QED BY <3>1, <3>2
  <2> QED BY <2>1, <2>2, <2>3
<1>8. /\ ReclaimSteps[5] = b[1] /\ ReclaimSteps[6] = b[2] /\ ReclaimSteps[7] = b[3]
      /\ ReclaimSteps[8] = b[4] /\ ReclaimSteps[9] = b[5] /\ ReclaimSteps[10] = b[6]
  <2>1. ReclaimSteps[1 + 4] = b[1] /\ ReclaimSteps[2 + 4] = b[2] /\ ReclaimSteps[3 + 4] = b[3]
        /\ ReclaimSteps[4 + 4] = b[4] /\ ReclaimSteps[5 + 4] = b[5] /\ ReclaimSteps[6 + 4] = b[6]
    BY <1>7
  <2> QED BY <2>1
<1>9. ReclaimSteps[11] = c[1] /\ ReclaimSteps[12] = c[2]
  <2>1. ReclaimSteps[1 + 10] = c[1] /\ ReclaimSteps[2 + 10] = c[2]
    BY <1>7
  <2> QED BY <2>1
<1>10. 1 \in 1..4 /\ 2 \in 1..4 /\ 3 \in 1..4 /\ 4 \in 1..4
  OBVIOUS
<1>11. /\ ReclaimSteps[1] = "eraseSpare" /\ ReclaimSteps[2] = "writeSpare"
       /\ ReclaimSteps[3] = "spareValid" /\ ReclaimSteps[4] = "workInvalid"
  BY <1>1, <1>7, <1>10
<1> HIDE DEF ab
<1> QED BY <1>2, <1>3, <1>6, <1>8, <1>9, <1>11

LEMMA LeftBegins ==
  ASSUME NEW s \in Seq(StepName), NEW k \in Seq(StepName), NEW i \in 1..Len(s), todo = Left(s, i, k)
  PROVE  Begins(s[i], Left(s, i + 1, k))
BY LeftStep DEF Begins

LEMMA LiteralBegins ==
  ASSUME NEW x \in StepName, NEW k \in Seq(StepName), todo = <<x>> \o k
  PROVE  Begins(x, k)
<1>1. <<x>> \in Seq(StepName) /\ <<x>> # <<>> /\ Head(<<x>>) = x /\ Tail(<<x>>) = <<>>
  OBVIOUS
<1>2. <<>> \o k = k
  BY ConcatEmptySeq
<1> QED BY <1>1, <1>2, HeadTailConcat DEF Begins

LEMMA Continues ==
  ASSUME NEW x, NEW k \in Seq(StepName), Begins(x, k), Continue(<<>>)
  PROVE  todo' = k /\ args' = args /\ faults' = faults
BY ConcatEmptySeq DEF Begins, Continue, budgets

\* The action of a step is known by its name.
LEMMA StepIs ==
  ASSUME DriverStep
  PROVE  todo # <<>>
         /\ (Step("refresh") => Refresh) /\ (Step("reread") => Reread)
         /\ (Step("eraseSpare") => EraseSpare) /\ (Step("writeSpare") => WriteSpare)
         /\ (Step("restoreSpare") => RestoreSpare) /\ (Step("spareValid") => SpareValid)
         /\ (Step("workInvalid") => WorkInvalid) /\ (Step("readSpare") => ReadSpare)
         /\ (Step("eraseWork") => EraseWork) /\ (Step("writeWork") => WriteWork)
         /\ (Step("workValid") => WorkValid) /\ (Step("allocate") => Allocate)
         /\ (Step("allocateHeader") => AllocateHeader) /\ (Step("allocateWrites") => AllocateWrites)
         /\ (Step("write") => Write) /\ (Step("checks") => Checks) /\ (Step("record") => Record)
         /\ (Step("spareComplete") => SetSpareComplete) /\ (Step("eraseTarget") => EraseTarget)
         /\ (Step("writeTarget") => WriteTarget) /\ (Step("destComplete") => DestComplete)
         /\ (Step("writesComplete") => WritesComplete) /\ (Step("restart") => Restart)
         /\ (Step("abort") => Abort) /\ (Step("lastWrite") => GetLastWrite)
         /\ (Step("bootValid") => BootValid) /\ (Step("bootFirst") => BootFirst)
         /\ (Step("bootLast") => BootLast) /\ (Step("bootTail") => BootTail)
         /\ (Step("bootRestart") => BootRestart)
<1>1. Refresh => Step("refresh") BY DEF Refresh
<1>2. Reread => Step("reread") BY DEF Reread
<1>3. EraseSpare => Step("eraseSpare") BY DEF EraseSpare
<1>4. WriteSpare => Step("writeSpare") BY DEF WriteSpare
<1>5. RestoreSpare => Step("restoreSpare") BY DEF RestoreSpare
<1>6. SpareValid => Step("spareValid") BY DEF SpareValid
<1>7. WorkInvalid => Step("workInvalid") BY DEF WorkInvalid
<1>8. ReadSpare => Step("readSpare") BY DEF ReadSpare
<1>9. EraseWork => Step("eraseWork") BY DEF EraseWork
<1>10. WriteWork => Step("writeWork") BY DEF WriteWork
<1>11. WorkValid => Step("workValid") BY DEF WorkValid
<1>12. Allocate => Step("allocate") BY DEF Allocate
<1>13. AllocateHeader => Step("allocateHeader") BY DEF AllocateHeader
<1>14. AllocateWrites => Step("allocateWrites") BY DEF AllocateWrites
<1>15. Write => Step("write") BY DEF Write
<1>16. Checks => Step("checks") BY DEF Checks
<1>17. Record => Step("record") BY DEF Record
<1>18. SetSpareComplete => Step("spareComplete") BY DEF SetSpareComplete
<1>19. EraseTarget => Step("eraseTarget") BY DEF EraseTarget
<1>20. WriteTarget => Step("writeTarget") BY DEF WriteTarget
<1>21. DestComplete => Step("destComplete") BY DEF DestComplete
<1>22. WritesComplete => Step("writesComplete") BY DEF WritesComplete
<1>23. Restart => Step("restart") BY DEF Restart
<1>24. Abort => Step("abort") BY DEF Abort
<1>25. GetLastWrite => Step("lastWrite") BY DEF GetLastWrite
<1>26. BootValid => Step("bootValid") BY DEF BootValid
<1>27. BootFirst => Step("bootFirst") BY DEF BootFirst
<1>28. BootLast => Step("bootLast") BY DEF BootLast
<1>29. BootTail => Step("bootTail") BY DEF BootTail
<1>30. BootRestart => Step("bootRestart") BY DEF BootRestart
<1>31. \A x, y : Step(x) /\ Step(y) => x = y
  BY DEF Step
<1>32. \A x : Step(x) => todo # <<>>
  BY DEF Step
<1> QED BY <1>1, <1>2, <1>3, <1>4, <1>5, <1>6, <1>7, <1>8, <1>9, <1>10, <1>11, <1>12, <1>13, <1>14, <1>15, <1>16, <1>17, <1>18, <1>19, <1>20, <1>21, <1>22, <1>23, <1>24, <1>25, <1>26, <1>27, <1>28, <1>29, <1>30, <1>31, <1>32 DEF DriverStep, ReclaimStep, WriteStep, ServiceStep, BootStep

-----------------------------------------------------------------------------
(* What the flash looks like.                                               *)

Whole == \A x \in Extent : target[x] \in Data

\* While the data of a write is in the spare block, its target may be torn.
Intact(h, c) ==
  IF c = "pending"
  THEN spare.data \in Data /\ \A x \in Extent : x # work.queue[h + 1].body => target[x] \in Data
  ELSE Whole

InFlash(h, c) == IsValidWorkSpace(work) /\ Looks(work.queue, h, c) /\ Intact(h, c)
\* ... and the driver has found it.
Found(c) == hdr < QueueSize /\ rec = hdr + 1 /\ InFlash(hdr, c)
\* The write that the driver's pointers are at is complete.
Closed(c) ==
  /\ Complete \in work.queue[hdr].flags /\ hdr < QueueSize /\ rec = hdr + 1
  /\ InFlash(hdr + WriteTotalSize(work.queue[hdr]), c)

\* The working block is no work space, and if the spare block is one it is empty.
Lost ==
  /\ ~IsValidWorkSpace(work) /\ Doomed(work.queue) /\ Whole
  /\ IsValidWorkSpace(spare.ws) => spare.ws.queue = EmptyQueue
Fresh   == IsValidWorkSpace(work) /\ work.queue = EmptyQueue /\ Whole
Settled == \E h \in 1..Beyond : InFlash(h, "free")
Replaceable == Lost \/ \E h \in 1..Beyond, c \in Unused : InFlash(h, c)
Recoverable == Lost \/ \E h \in 1..Beyond, c \in Condition : InFlash(h, c)

-----------------------------------------------------------------------------
(* What each service has left to do, and what the flash looks like then.    *)

Boot(i) == Left(InitFtwProtocol, i, <<>>)

Booting ==
  /\ args.op = "boot"
  /\ \/ todo = Boot(1) /\ Recoverable
     \/ todo = Boot(2) /\ (Lost \/ \E c \in Condition : Found(c))
     \/ todo = Boot(3) /\ \E c \in Condition : Found(c)
     \/ todo = Boot(4) /\ \/ \E c \in Unused \cup {"pending", "written"} : Found(c)
                          \/ \E c \in Unused : Closed(c)
     \/ todo = Boot(5) /\ \/ \E c \in Unused \cup {"pending"} : Found(c)
                          \/ \E c \in Unused : Closed(c)
     \/ todo = Boot(6) /\ (Found("free") \/ Found("pending") \/ Closed("free"))

\* FtwAbort called by InitFtwProtocol, before its step i.
Aborting ==
  /\ args.op = "boot"
  /\ \E j \in 1..2 :
       \/ todo = Left(FtwAbort, j, Boot(4)) /\ \E c \in {"bare", "headed", "open", "recorded"} : Found(c)
       \/ todo = Left(FtwAbort, j, Boot(5)) /\ Found("written")

FlushThen == FtwAbort \o <<"refresh">> \o Boot(3)
Flushing ==
  /\ args.op = "boot"
  /\ \/ \E i \in 1..6 :
          /\ todo = Left(FlushToWorkingBlock, i, FlushThen) /\ Lost
          /\ spare.ws.queue = EmptyQueue
          /\ i \in 3..5 => Buffer.ws.queue = EmptyQueue
          /\ i = 6 => work = Header
     \/ todo = FlushThen /\ Fresh
     \/ todo = <<"abort", "refresh">> \o Boot(3) /\ Fresh /\ hdr = 1
     \/ todo = <<"refresh">> \o Boot(3) /\ Fresh

Restarting ==
  /\ args.op = "boot"
  /\ \/ todo = <<"refresh", "restart">> \o FtwAbort /\ Found("pending")
     \/ todo = <<"restart">> \o FtwAbort /\ Found("pending")
     \/ todo = <<"eraseSpare">> \o FtwAbort /\ Settled
     \/ todo = FtwAbort /\ Settled
     \/ todo = <<"abort">> /\ Found("free")

\* FtwWriteRecord called by FtwRestart or by FtwWrite.
RestartEnd == <<"eraseSpare">> \o FtwAbort
WriteEnd   == <<"eraseSpare", "restoreSpare">>
Recording ==
  \E k \in {RestartEnd, WriteEnd}, i \in 1..5 :
    /\ todo = Left(FtwWriteRecord, i, k)
    /\ k = RestartEnd => args.op = "boot"
    /\ k = WriteEnd => args.op = "write"
    /\ Found(IF i = 5 THEN "written" ELSE "pending")
    /\ args.ext = work.queue[rec].body
    /\ i \in 2..3 => Buffer.data = spare.data
    /\ i = 4 => target[args.ext] = spare.data

ReclaimThen ==
  {<<"reread">> \o Boot(2), <<"reread">> \o <<"abort">>, Boot(3), Boot(6), <<"reread">> \o <<"write">>}
Reclaiming ==
  \E k \in ReclaimThen, i \in 1..12 :
    /\ todo = Left(ReclaimSteps, i, k)
    /\ k = <<"reread">> \o <<"write">> => args.op = "write"
    /\ k # <<"reread">> \o <<"write">> => args.op = "boot"
    /\ hdr = 1 /\ rec = 2
    /\ i \in 1..4 => Replaceable
    /\ i \in 1..2 \cup 7..9 => Buffer.ws.queue = EmptyQueue
    /\ i \in 1..2 => ~Buffer.ws.valid
    /\ i \in 3..10 => spare.ws.queue = EmptyQueue
    /\ i \in 5..10 => Lost
    /\ i = 10 => work = Header
    /\ i > 10 => Fresh
Rereading ==
  /\ Fresh
  /\ \/ todo = <<"reread">> \o Boot(2) /\ args.op = "boot"
     \/ todo = <<"reread">> \o <<"abort">> /\ args.op = "boot"
     \/ todo = <<"reread">> \o <<"write">> /\ args.op = "write"

Preparing ==
  /\ args.op = "write"
  /\ \/ todo = <<"refresh", "write">> /\ Settled
     \/ todo = <<"write">> /\ Found("free")
     \/ todo = <<"refresh", "allocate", "checks">> /\ Found("free")
     \/ todo = <<"allocate", "checks">> /\ Found("free")
     \/ todo = <<"allocateHeader", "allocateWrites", "checks">> /\ Found("free") /\ Offset = hdr
     \/ todo = <<"allocateWrites", "checks">> /\ Found("headed") /\ Offset = hdr
     \/ todo = <<"checks">> /\ Found("open")
     \/ todo = WriteEnd /\ Settled
     \/ todo = <<"restoreSpare">> /\ Settled

Sparing ==
  /\ args.op = "write"
  /\ \E i \in 1..4 :
       /\ todo = Left(WriteSteps, i, FtwWriteRecord \o WriteEnd)
       /\ Found(IF i = 1 THEN "open" ELSE "recorded")
       /\ i > 1 => args.ext = work.queue[rec].body
       /\ i \in 2..3 => Buffer.data = args.data
       /\ i = 4 => spare.data = args.data

Idle == todo = <<>> /\ Settled

Situation ==
  \/ Idle \/ Booting \/ Aborting \/ Flushing \/ Restarting \/ Recording \/ Reclaiming
  \/ Rereading \/ Preparing \/ Sparing

FtwInv == Situation /\ faults = 0 /\ (args.op = "write" => args.ext \in Extent)

-----------------------------------------------------------------------------
(* The flash from one step to the next.                                     *)

LEMMA FlashKept ==
  ASSUME UNCHANGED <<work, target>>, NEW c, c = "pending" => spare'.data = spare.data
  PROVE  /\ \A h : InFlash(h, c) => InFlash(h, c)'
         /\ UNCHANGED pointers /\ Found(c) => Found(c)'
<1>1. ASSUME NEW h, InFlash(h, c) PROVE InFlash(h, c)'
  BY <1>1 DEF InFlash, Intact, Whole, IsValidWorkSpace
<1>2. ASSUME UNCHANGED pointers, Found(c) PROVE Found(c)'
  <2>1. hdr' = hdr /\ rec' = rec
    BY <1>2 DEF pointers, hdr, rec
  <2>2. InFlash(hdr, c)
    BY <1>2 DEF Found
  <2> QED BY <1>2, <2>1, <2>2 DEF Found, InFlash, Intact, Whole, IsValidWorkSpace
<1> QED BY <1>1, <1>2

LEMMA LostKept ==
  ASSUME UNCHANGED <<work, target>>, UNCHANGED spare \/ spare'.ws.queue = EmptyQueue
  PROVE  (Lost => Lost') /\ (Fresh => Fresh')
BY DEF Lost, Fresh, Whole, IsValidWorkSpace

LEMMA SettledKept ==
  ASSUME UNCHANGED <<work, target>>, Settled
  PROVE  Settled'
<1>1. PICK h \in 1..Beyond : InFlash(h, "free")
  BY DEF Settled
<1>2. InFlash(h, "free")'
  BY <1>1, FlashKept
<1> QED BY <1>2 DEF Settled

LEMMA ReplaceableKept ==
  ASSUME UNCHANGED <<work, target>>, UNCHANGED spare \/ spare'.ws.queue = EmptyQueue, Replaceable
  PROVE  Replaceable'
<1>1. CASE Lost
  BY <1>1, LostKept DEF Replaceable
<1>2. CASE \E h \in 1..Beyond, c \in Unused : InFlash(h, c)
  <2>1. PICK h \in 1..Beyond, c \in Unused : InFlash(h, c)
    BY <1>2
  <2>2. c # "pending"
    BY DEF Unused
  <2>3. InFlash(h, c)'
    BY <2>1, <2>2, FlashKept
  <2> QED BY <2>3 DEF Replaceable
<1> QED BY <1>1, <1>2 DEF Replaceable

LEMMA FoundIs ==
  ASSUME SingleWrites, FtwTypes, NEW c, Found(c)
  PROVE  /\ c \in Condition /\ hdr \in Position /\ hdr + 1 \in Position /\ hdr \in Nat
         /\ rec = hdr + 1 /\ rec \in Position /\ rec # hdr /\ InFlash(hdr, c) /\ hdr \in 1..Beyond
         /\ LastHeader = HeaderAt(c)
         /\ LastRecord.flags = RecordFlags(c) /\ LastRecord.body \in RecordBodies(c)
         /\ work.queue[hdr + 1] = LastRecord /\ LastRecord \in Unit
<1>1. hdr \in Position /\ hdr < QueueSize /\ rec = hdr + 1 /\ InFlash(hdr, c)
  BY DEF Found, FtwTypes, hdr
<1>2. hdr + 1 \in Position /\ hdr \in Nat /\ rec # hdr /\ hdr \in 1..Beyond
  BY <1>1, SizeFacts
<1>3. Looks(work.queue, hdr, c) /\ work.queue \in Queue
  BY <1>1, ImageParts DEF InFlash, FtwTypes
<1> QED BY <1>1, <1>2, <1>3 DEF Looks, LastHeader, LastRecord, Queue

LEMMA FreshIs ==
  ASSUME SingleWrites, Fresh
  PROVE  /\ InFlash(1, "free") /\ 1 \in 1..Beyond /\ 1 < QueueSize
         /\ hdr = 1 /\ rec = 2 => Found("free")
<1>1. InFlash(1, "free")
  BY LooksEmpty DEF Fresh, InFlash, Intact
<1>2. 1 \in 1..Beyond /\ 1 < QueueSize /\ 2 = 1 + 1
  BY SizeFacts
<1> QED BY <1>1, <1>2 DEF Found

\* A service in progress ends as it began, except that a start takes a write over.
LEMMA DriverKeeps ==
  ASSUME DriverStep
  PROVE  /\ faults' = faults /\ args'.op = args.op
         /\ args'= args \/ (Step("restart") /\ args' = [args EXCEPT !.ext = LastRecord.body])
<1>1. CASE Step("restart")
  <2>1. Restart
    BY <1>1, StepIs
  <2>2. Return("failed") => faults' = faults /\ args' = args
    BY DEF Return, budgets
  <2>3. UNCHANGED budgets => faults' = faults
    BY DEF budgets
  <2>4. args' = [args EXCEPT !.ext = LastRecord.body] => args'.op = args.op
    OBVIOUS
  <2> QED BY <1>1, <2>1, <2>2, <2>3, <2>4 DEF Restart
<1>2. CASE ~Step("restart")
  <2>1. \A more : Continue(more) => faults' = faults /\ args' = args
    BY DEF Continue, budgets
  <2>2. Return("failed") => faults' = faults /\ args' = args
    BY DEF Return, budgets
  <2>3. \A q, w, more : Reclaim(q, w, more) => faults' = faults /\ args' = args
    BY <2>1 DEF Reclaim
  <2>4. CASE ReclaimStep
    BY <2>1, <2>2, <2>3, <2>4 DEF ReclaimStep, Refresh, Reread, EraseSpare, WriteSpare, RestoreSpare,
       SpareValid, WorkInvalid, ReadSpare, EraseWork, WriteWork, WorkValid
  <2>5. CASE WriteStep
    BY <2>1, <2>2, <2>3, <2>5 DEF WriteStep, Allocate, AllocateHeader, AllocateWrites, Write, Checks,
       Record, SetSpareComplete, EraseTarget, WriteTarget, DestComplete, WritesComplete
  <2>6. CASE ServiceStep
    BY <1>2, <2>1, <2>2, <2>3, <2>6 DEF ServiceStep, Restart, Abort, GetLastWrite
  <2>7. CASE BootStep
    BY <2>1, <2>2, <2>3, <2>7 DEF BootStep, BootValid, BootFirst, BootLast, BootTail, BootRestart
  <2> QED BY <2>4, <2>5, <2>6, <2>7 DEF DriverStep
<1> QED BY <1>1, <1>2

\* A reclaim that keeps nothing has begun, and goes on as k.
Reclaims(k) ==
  /\ todo = Left(ReclaimSteps, 1, k) /\ hdr = 1 /\ rec = 2
  /\ Replaceable /\ Buffer.ws.queue = EmptyQueue /\ ~Buffer.ws.valid

LEMMA PointedAt ==
  ASSUME SingleWrites, NEW q, NEW h \in Position, NEW c, Looks(q, h, c), h < QueueSize, PointInto(q)
  PROVE  hdr' = h /\ rec' = h + 1
BY LastHeaderIs, LastRecordIs DEF PointInto, hdr, rec

LEMMA ReclaimBegun ==
  ASSUME SingleWrites, FtwTypes, Replaceable, UNCHANGED flash, NEW w \in Image,
         NEW more \in Seq(StepName), NEW k \in Seq(StepName), NEW x, Begins(x, k),
         Reclaim(EmptyQueue, w, more)
  PROVE  Reclaims(more \o k)'
<1>1. todo' = Left(ReclaimSteps, 1, more \o k)
  <2>1. ReclaimSteps \in Seq(StepName) /\ more \o k \in Seq(StepName)
    BY ProgramTypes, ConcatProperties
  <2>2. todo' = (ReclaimSteps \o more) \o k
    BY DEF Reclaim, Continue, Begins
  <2>3. (ReclaimSteps \o more) \o k = ReclaimSteps \o (more \o k)
    BY <2>1, ConcatAssociative, SMTT(20)
  <2>4. Left(ReclaimSteps, 1, more \o k) = ReclaimSteps \o (more \o k)
    BY <2>1, LeftEnds
  <2> QED BY <2>2, <2>3, <2>4, Zenon
<1>2. hdr' = 1 /\ rec' = 2
  <2>1. 1 \in Position /\ 1 < QueueSize
    BY SizeFacts
  <2> QED BY <2>1, LooksEmpty, PointedAt DEF Reclaim
<1>3. Buffer'.ws.queue = EmptyQueue /\ ~Buffer'.ws.valid
  BY ConstantTypes, ReclaimType DEF Begins
<1>4. Replaceable'
  BY ReplaceableKept DEF flash
<1> QED BY <1>1, <1>2, <1>3, <1>4 DEF Reclaims

LEMMA Refreshed ==
  ASSUME SingleWrites, FtwTypes, NEW k \in Seq(StepName), Begins("refresh", k), Refresh
  PROVE  /\ \A h \in 1..Beyond, c \in Condition : InFlash(h, c) =>
              \/ todo' = k /\ Found(c)' /\ hdr' = h
              \/ c \in Unused /\ Reclaims(<<"reread">> \o k)'
         /\ Lost => \/ todo' = k /\ Lost'
                    \/ Reclaims(<<"reread">> \o k)'
         /\ \A c \in Condition : Found(c) => todo' = k /\ Found(c)' /\ hdr' = hdr
<1>1. UNCHANGED flash /\ <<"reread">> \in Seq(StepName) /\ work \in Image
  BY StepLiterals DEF Refresh, FtwTypes
<1>2. CASE ~HasRoom(work.queue)
  <2>1. Reclaim(Preserved(work.queue), work, <<"reread">>)
    BY <1>2 DEF Refresh
  <2>2. Doomed(work.queue) /\ Replaceable => Reclaims(<<"reread">> \o k)'
    BY <1>1, <2>1, DoomedPreserved, ReclaimBegun
  <2>3. Lost => Reclaims(<<"reread">> \o k)'
    BY <2>2 DEF Lost, Replaceable
  <2>4. ASSUME NEW h \in 1..Beyond, NEW c \in Condition, InFlash(h, c)
        PROVE  c \in Unused /\ Reclaims(<<"reread">> \o k)'
    <3>1. c \in Unused
      BY <1>2, <2>4, NoRoomDoomed DEF InFlash
    <3>2. Doomed(work.queue) /\ Replaceable
      BY <2>4, <3>1, UnusedDoomed DEF InFlash, Replaceable
    <3> QED BY <2>2, <3>1, <3>2
  <2>5. ASSUME NEW c, Found(c) PROVE FALSE
    BY <1>2, <2>5, LastHeaderIs DEF Found, InFlash
  <2> QED BY <2>3, <2>4, <2>5
<1>3. CASE HasRoom(work.queue)
  <2>1. PointInto(work.queue) /\ Continue(<<>>)
    BY <1>3 DEF Refresh
  <2>2. todo' = k
    BY <2>1, Continues
  <2>3. Lost => Lost'
    BY <1>1, LostKept DEF flash
  <2>4. ASSUME NEW h, NEW c, InFlash(h, c) PROVE Found(c)' /\ hdr' = h
    <3>1. Looks(work.queue, h, c) /\ h \in 1..Beyond /\ h < QueueSize
      BY <1>3, <2>4, LastHeaderIs DEF InFlash
    <3>2. h \in Position
      BY <3>1, SizeFacts
    <3>3. hdr' = h /\ rec' = h + 1
      BY <2>1, <3>1, <3>2, PointedAt
    <3>4. InFlash(h, c)'
      BY <1>1, <2>4, FlashKept DEF flash
    <3> QED BY <3>1, <3>3, <3>4 DEF Found, InFlash, Intact
  <2>5. ASSUME NEW c, Found(c) PROVE InFlash(hdr, c)
    BY <2>5 DEF Found
  <2> QED BY <2>2, <2>3, <2>4, <2>5
<1> QED BY <1>2, <1>3

-----------------------------------------------------------------------------
(* A step of the driver from each situation.  First the start.              *)

LEMMA BootBegins ==
  /\ \A i \in 1..7 : Boot(i) \in Seq(StepName)
  /\ Boot(7) = <<>>
  /\ \A i \in 1..6 : todo = Boot(i) => Begins(InitFtwProtocol[i], Boot(i + 1))
  /\ \A i \in 1..6 : Boot(i) # <<>> /\ Head(Boot(i)) = InitFtwProtocol[i]
<1>1. InitFtwProtocol \in Seq(StepName) /\ <<>> \in Seq(StepName) /\ Len(InitFtwProtocol) = 6
  BY ProgramTypes, ProgramSteps, StepLiterals
<1>2. Boot(7) = <<>>
  <2>1. Left(InitFtwProtocol, Len(InitFtwProtocol) + 1, <<>>) = <<>>
    BY <1>1, LeftEnds
  <2> QED BY <1>1, <2>1 DEF Boot
<1>3. \A i \in 1..6 : todo = Boot(i) => Begins(InitFtwProtocol[i], Boot(i + 1))
  BY <1>1, LeftBegins DEF Boot
<1>4. ASSUME NEW i \in 1..6 PROVE Boot(i) # <<>> /\ Head(Boot(i)) = InitFtwProtocol[i]
                                  /\ Boot(i) \in Seq(StepName)
  <2>1. i \in 1..Len(InitFtwProtocol)
    BY <1>1
  <2>2. \A j \in i..Len(InitFtwProtocol) : InitFtwProtocol[j] \in StepName
    BY <1>1, <2>1, ElementOfSeq
  <2>3. SubSeq(InitFtwProtocol, i, Len(InitFtwProtocol)) \in Seq(StepName)
    BY <1>1, <2>2, SubSeqProperties
  <2>4. Boot(i) \in Seq(StepName)
    BY <1>1, <2>3, ConcatProperties DEF Boot, Left
  <2> QED BY <1>1, <2>1, <2>4, LeftStep DEF Boot
<1>5. ASSUME NEW i \in 1..7 PROVE Boot(i) \in Seq(StepName)
  <2>1. i \in 1..6 \/ i = 7
    OBVIOUS
  <2> QED BY <1>1, <1>2, <1>4, <2>1
<1> QED BY <1>2, <1>3, <1>4, <1>5

\* What a reclaim is followed by, and that only a write goes on with "write".
LEMMA ThenIs ==
  LET w == <<"reread">> \o <<"write">>
  IN  /\ ReclaimThen \subseteq Seq(StepName)
      /\ <<"reread">> \o Boot(2) # w /\ <<"reread">> \o <<"abort">> # w
      /\ Boot(3) # w /\ Boot(6) # w
<1>1. /\ <<"reread">> \in Seq(StepName) /\ <<"abort">> \in Seq(StepName) /\ <<"write">> \in Seq(StepName)
      /\ Boot(2) \in Seq(StepName) /\ Boot(3) \in Seq(StepName) /\ Boot(6) \in Seq(StepName)
  BY BootBegins DEF StepName
<1>2. /\ <<"reread">> \o Boot(2) \in Seq(StepName) /\ <<"reread">> \o <<"abort">> \in Seq(StepName)
      /\ <<"reread">> \o <<"write">> \in Seq(StepName)
  BY <1>1, ConcatProperties
<1>3. /\ <<"reread">> # <<>> /\ Head(<<"reread">>) = "reread" /\ Tail(<<"reread">>) = <<>>
      /\ Head(<<"write">>) = "write" /\ Head(<<"abort">>) = "abort"
  OBVIOUS
<1>4. \A k \in Seq(StepName) : Head(<<"reread">> \o k) = "reread" /\ Tail(<<"reread">> \o k) = k
  BY <1>1, <1>3, HeadTailConcat, ConcatEmptySeq
<1>5. /\ Head(Boot(2)) = "bootValid" /\ Head(Boot(3)) = "bootFirst" /\ Head(Boot(6)) = "bootRestart"
  BY BootBegins, ProgramSteps
<1> QED BY <1>1, <1>2, <1>3, <1>4, <1>5 DEF ReclaimThen

LEMMA ReclaimingBegins ==
  ASSUME NEW k \in ReclaimThen, Reclaims(k)',
         args'.op = (IF k = <<"reread">> \o <<"write">> THEN "write" ELSE "boot")
  PROVE  Reclaiming'
<1>1. 1 \in 1..12
  OBVIOUS
<1> QED BY <1>1 DEF Reclaims, Reclaiming

\* How the flush of a valid spare block goes on.
LEMMA FlushThenIs ==
  /\ FlushThen \in Seq(StepName)
  /\ FlushThen = <<"refresh">> \o (<<"abort", "refresh">> \o Boot(3))
  /\ <<"abort", "refresh">> \o Boot(3) = <<"abort">> \o (<<"refresh">> \o Boot(3))
  /\ <<"refresh">> \o Boot(3) \in Seq(StepName) /\ <<"abort", "refresh">> \o Boot(3) \in Seq(StepName)
  /\ (FlushToWorkingBlock \o FtwAbort \o <<"refresh">>) \o Boot(3) = Left(FlushToWorkingBlock, 1, FlushThen)
<1>1. /\ <<"refresh">> \in Seq(StepName) /\ <<"abort">> \in Seq(StepName)
      /\ <<"abort", "refresh">> \in Seq(StepName) /\ Boot(3) \in Seq(StepName)
      /\ FtwAbort \in Seq(StepName) /\ FlushToWorkingBlock \in Seq(StepName)
  BY BootBegins, ProgramTypes DEF StepName
<1>2. <<"abort", "refresh">> = <<"abort">> \o <<"refresh">> /\ FtwAbort = <<"refresh">> \o <<"abort">>
  BY DEF FtwAbort
<1>3. <<"refresh">> \o Boot(3) \in Seq(StepName) /\ <<"abort", "refresh">> \o Boot(3) \in Seq(StepName)
      /\ FtwAbort \o <<"refresh">> \in Seq(StepName)
  BY <1>1, ConcatProperties
<1>4. <<"abort", "refresh">> \o Boot(3) = <<"abort">> \o (<<"refresh">> \o Boot(3))
  BY <1>1, <1>2, ConcatAssociative
<1>5. FtwAbort \o <<"refresh">> = <<"refresh">> \o <<"abort", "refresh">>
  BY <1>1, <1>2, ConcatAssociative
<1>6. FlushThen = <<"refresh">> \o (<<"abort", "refresh">> \o Boot(3))
  <2>1. (<<"refresh">> \o <<"abort", "refresh">>) \o Boot(3)
          = <<"refresh">> \o (<<"abort", "refresh">> \o Boot(3))
    BY <1>1, ConcatAssociative
  <2> QED BY <1>5, <2>1, Zenon DEF FlushThen
<1>7. FlushThen \in Seq(StepName)
  BY <1>1, <1>3, <1>6, ConcatProperties
<1>8. (FlushToWorkingBlock \o FtwAbort) \o <<"refresh">> = FlushToWorkingBlock \o (FtwAbort \o <<"refresh">>)
  BY <1>1, ConcatAssociative
<1>9. (FlushToWorkingBlock \o (FtwAbort \o <<"refresh">>)) \o Boot(3) = FlushToWorkingBlock \o FlushThen
  <2>1. (FlushToWorkingBlock \o (FtwAbort \o <<"refresh">>)) \o Boot(3)
          = FlushToWorkingBlock \o ((FtwAbort \o <<"refresh">>) \o Boot(3))
    BY <1>1, <1>3, ConcatAssociative, SMTT(20)
  <2> QED BY <2>1, Zenon DEF FlushThen
<1>10. FlushToWorkingBlock \o FlushThen = Left(FlushToWorkingBlock, 1, FlushThen)
  BY <1>1, <1>7, LeftEnds
<1> QED BY <1>3, <1>4, <1>6, <1>7, <1>8, <1>9, <1>10

LEMMA BootTo ==
  ASSUME args'.op = "boot"
  PROVE  /\ todo' = Boot(2) /\ Lost' => Booting'
         /\ \A c \in Condition : todo' = Boot(2) /\ Found(c)' => Booting'
         /\ \A c \in Condition : todo' = Boot(3) /\ Found(c)' => Booting'
         /\ \A c \in Unused \cup {"pending", "written"} : todo' = Boot(4) /\ Found(c)' => Booting'
         /\ \A c \in Unused : todo' = Boot(4) /\ Closed(c)' => Booting'
         /\ \A c \in Unused \cup {"pending"} : todo' = Boot(5) /\ Found(c)' => Booting'
         /\ \A c \in Unused : todo' = Boot(5) /\ Closed(c)' => Booting'
         /\ todo' = Boot(6) /\ Found("free")' => Booting'
         /\ todo' = Boot(6) /\ Found("pending")' => Booting'
         /\ todo' = Boot(6) /\ Closed("free")' => Booting'
BY DEF Booting

LEMMA BootRefreshStep ==
  ASSUME SingleWrites, FtwTypes, DriverStep, args.op = "boot", todo = Boot(1), Recoverable
  PROVE  Booting' \/ Reclaiming'
<1>1. Begins("refresh", Boot(2)) /\ Boot(2) \in Seq(StepName)
  <2>1. Begins(InitFtwProtocol[1], Boot(1 + 1)) /\ Boot(2) \in Seq(StepName)
    BY BootBegins
  <2> QED BY <2>1, ProgramSteps
<1>2. Refresh /\ args'.op = "boot"
  BY <1>1, StepIs, DriverKeeps DEF Begins, Step
<1>3. Reclaims(<<"reread">> \o Boot(2))' => Reclaiming'
  BY <1>2, ThenIs, ReclaimingBegins DEF ReclaimThen
<1>4. CASE Lost
  <2>1. (todo' = Boot(2) /\ Lost') \/ Reclaims(<<"reread">> \o Boot(2))'
    BY <1>1, <1>2, <1>4, Refreshed
  <2> QED BY <1>2, <1>3, <2>1, BootTo
<1>5. CASE \E h \in 1..Beyond, c \in Condition : InFlash(h, c)
  <2>1. PICK h \in 1..Beyond, c \in Condition : InFlash(h, c)
    BY <1>5
  <2>2. (todo' = Boot(2) /\ Found(c)') \/ Reclaims(<<"reread">> \o Boot(2))'
    BY <1>1, <1>2, <2>1, Refreshed
  <2> QED BY <1>2, <1>3, <2>2, BootTo
<1> QED BY <1>4, <1>5 DEF Recoverable

LEMMA BootValidStep ==
  ASSUME SingleWrites, FtwTypes, DriverStep, args.op = "boot", todo = Boot(2),
         Lost \/ \E c \in Condition : Found(c)
  PROVE  Booting' \/ Flushing' \/ Reclaiming'
<1>1. Begins("bootValid", Boot(3)) /\ Boot(3) \in Seq(StepName)
  <2>1. Begins(InitFtwProtocol[2], Boot(2 + 1)) /\ Boot(3) \in Seq(StepName)
    BY BootBegins
  <2> QED BY <2>1, ProgramSteps
<1>2. BootValid /\ args'.op = "boot"
  BY <1>1, StepIs, DriverKeeps DEF Begins, Step
<1>3. UNCHANGED flash
  BY <1>2 DEF BootValid
<1>4. CASE Lost /\ IsValidWorkSpace(spare.ws)
  <2>1. Continue(FlushToWorkingBlock \o FtwAbort \o <<"refresh">>)
    BY <1>2, <1>4 DEF BootValid, Lost
  <2>2. todo' = Left(FlushToWorkingBlock, 1, FlushThen)
    <3>1. todo' = (FlushToWorkingBlock \o FtwAbort \o <<"refresh">>) \o Boot(3)
      BY <1>1, <2>1 DEF Continue, Begins
    <3> QED BY <3>1, FlushThenIs
  <2>3. Lost' /\ spare'.ws.queue = EmptyQueue
    BY <1>3, <1>4, LostKept DEF flash, Lost
  <2>4. 1 \in 1..6 /\ 1 \notin 3..5
    OBVIOUS
  <2> QED BY <1>2, <2>2, <2>3, <2>4 DEF Flushing
<1>5. CASE Lost /\ ~IsValidWorkSpace(spare.ws)
  <2>1. Reclaim(EmptyQueue, Header, <<>>)
    BY <1>2, <1>5 DEF BootValid, Lost
  <2>2. Reclaims(<<>> \o Boot(3))'
    BY <1>1, <1>3, <1>5, <2>1, StepLiterals, ConstantTypes, ReclaimBegun DEF Replaceable
  <2>3. Reclaims(Boot(3))'
    <3>1. <<>> \o Boot(3) = Boot(3)
      BY <1>1, ConcatEmptySeq
    <3> QED BY <2>2, <3>1
  <2> QED BY <1>2, <2>3, ThenIs, ReclaimingBegins DEF ReclaimThen
<1>6. CASE \E c \in Condition : Found(c)
  <2>1. PICK c \in Condition : Found(c)
    BY <1>6
  <2>2. Continue(<<>>) /\ UNCHANGED pointers
    BY <1>2, <2>1 DEF BootValid, Found, InFlash
  <2>3. todo' = Boot(3) /\ Found(c)'
    BY <1>1, <1>3, <2>1, <2>2, Continues, FlashKept DEF flash
  <2> QED BY <1>2, <2>3, BootTo
<1> QED BY <1>4, <1>5, <1>6

\* What InitFtwProtocol tests of the header and record in progress.
LEMMA FoundTests ==
  ASSUME SingleWrites, FtwTypes, NEW c, Found(c)
  PROVE  /\ NothingToRestart <=> c \in {"bare", "headed", "open", "recorded"}
         /\ OnlyHeaderLeft <=> c = "written"
         /\ IsLastRecordOfWrites(work.queue, hdr, rec) <=> c \notin Unused \cup {"bare"}
<1>1. /\ c \in Condition /\ rec = hdr + 1 /\ hdr \in Nat /\ LastHeader = HeaderAt(c)
      /\ LastRecord.flags = RecordFlags(c)
  BY FoundIs
<1>2. /\ Complete \notin LastHeader.flags
      /\ HeaderAllocated \in LastHeader.flags <=> c \notin Unused
      /\ LastHeader.body = 1 <=> c \notin Unused \cup {"bare"}
      /\ SpareComplete \in LastRecord.flags <=> c \in {"pending", "written"}
      /\ DestinationComplete \in LastRecord.flags <=> c = "written"
  BY <1>1, HeaderFacts
<1>3. NothingToRestart <=> c \in {"bare", "headed", "open", "recorded"}
  BY <1>1, <1>2 DEF NothingToRestart, IsFirstRecordOfWrites, Condition, Unused
<1>4. IsLastRecordOfWrites(work.queue, hdr, rec) <=> c \notin Unused \cup {"bare"}
  <2>1. HasCount(LastHeader) <=> LastHeader.body = 1
    BY WriteSize
  <2>2. LastHeader.body = 1 => rec = hdr + LastHeader.body
    BY <1>1
  <2> QED BY <1>2, <2>1, <2>2 DEF IsLastRecordOfWrites, LastHeader
<1>5. OnlyHeaderLeft <=> c = "written"
  BY <1>2, <1>4 DEF OnlyHeaderLeft, Unused
<1> QED BY <1>3, <1>4, <1>5

LEMMA AbortingBegins ==
  ASSUME SingleWrites, FtwTypes, args'.op = "boot", UNCHANGED <<flash, pointers>>,
         NEW k \in Seq(StepName), NEW x, Begins(x, k), Continue(FtwAbort), NEW c, Found(c)
  PROVE  todo' = Left(FtwAbort, 1, k) /\ Found(c)'
<1>1. todo' = Left(FtwAbort, 1, k)
  BY ProgramTypes, LeftEnds DEF Begins, Continue
<1> QED BY <1>1, FlashKept DEF flash

LEMMA BootFirstStep ==
  ASSUME SingleWrites, FtwTypes, DriverStep, args.op = "boot", todo = Boot(3),
         NEW c \in Condition, Found(c)
  PROVE  Booting' \/ Aborting'
<1>1. Begins("bootFirst", Boot(4)) /\ Boot(4) \in Seq(StepName)
  <2>1. Begins(InitFtwProtocol[3], Boot(3 + 1)) /\ Boot(4) \in Seq(StepName)
    BY BootBegins
  <2> QED BY <2>1, ProgramSteps
<1>2. BootFirst /\ args'.op = "boot"
  BY <1>1, StepIs, DriverKeeps DEF Begins, Step
<1>3. UNCHANGED <<flash, pointers>>
  BY <1>2 DEF BootFirst
<1>4. CASE NothingToRestart
  <2>1. c \in {"bare", "headed", "open", "recorded"} /\ Continue(FtwAbort)
    BY <1>2, <1>4, FoundTests DEF BootFirst
  <2>2. todo' = Left(FtwAbort, 1, Boot(4)) /\ Found(c)'
    BY <1>1, <1>2, <1>3, <2>1, AbortingBegins
  <2>3. 1 \in 1..2
    OBVIOUS
  <2> QED BY <1>2, <2>1, <2>2, <2>3 DEF Aborting
<1>5. CASE ~NothingToRestart
  <2>1. c \in Unused \cup {"pending", "written"} /\ Continue(<<>>)
    BY <1>2, <1>5, FoundTests DEF BootFirst, Condition, Unused
  <2>2. todo' = Boot(4) /\ Found(c)'
    BY <1>1, <1>3, <2>1, Continues, FlashKept DEF flash
  <2> QED BY <1>2, <2>1, <2>2, BootTo
<1> QED BY <1>4, <1>5

LEMMA ClosedKept ==
  ASSUME UNCHANGED <<flash, pointers>>, NEW c, Closed(c)
  PROVE  Closed(c)'
BY DEF Closed, InFlash, Intact, Whole, IsValidWorkSpace, flash, pointers, hdr, rec

LEMMA BootLastStep ==
  ASSUME SingleWrites, FtwTypes, DriverStep, args.op = "boot", todo = Boot(4),
         \/ \E c \in Unused \cup {"pending", "written"} : Found(c)
         \/ \E c \in Unused : Closed(c)
  PROVE  Booting' \/ Aborting'
<1>1. Begins("bootLast", Boot(5)) /\ Boot(5) \in Seq(StepName)
  <2>1. Begins(InitFtwProtocol[4], Boot(4 + 1)) /\ Boot(5) \in Seq(StepName)
    BY BootBegins
  <2> QED BY <2>1, ProgramSteps
<1>2. BootLast /\ args'.op = "boot"
  BY <1>1, StepIs, DriverKeeps DEF Begins, Step
<1>3. UNCHANGED <<flash, pointers>>
  BY <1>2 DEF BootLast
<1>4. ASSUME NEW c \in Unused \cup {"pending", "written"}, Found(c) PROVE Booting' \/ Aborting'
  <2>1. CASE c = "written"
    <3>1. Continue(FtwAbort)
      BY <1>2, <1>4, <2>1, FoundTests DEF BootLast
    <3>2. todo' = Left(FtwAbort, 1, Boot(5)) /\ Found(c)'
      BY <1>1, <1>2, <1>3, <1>4, <3>1, AbortingBegins
    <3>3. 1 \in 1..2
      OBVIOUS
    <3> QED BY <1>2, <2>1, <3>2, <3>3 DEF Aborting
  <2>2. CASE c # "written"
    <3>1. c \in Unused \cup {"pending"} /\ Continue(<<>>)
      BY <1>2, <1>4, <2>2, FoundTests DEF BootLast
    <3>2. todo' = Boot(5) /\ Found(c)'
      BY <1>1, <1>3, <1>4, <3>1, Continues, FlashKept DEF flash
    <3> QED BY <1>2, <3>1, <3>2, BootTo
  <2> QED BY <2>1, <2>2
<1>5. ASSUME NEW c \in Unused, Closed(c) PROVE Booting'
  <2>1. Continue(<<>>)
    BY <1>2, <1>5 DEF BootLast, OnlyHeaderLeft, Closed, LastHeader
  <2>2. todo' = Boot(5) /\ Closed(c)'
    BY <1>1, <1>3, <1>5, <2>1, Continues, ClosedKept
  <2> QED BY <1>2, <2>2, BootTo
<1> QED BY <1>4, <1>5

LEMMA LeftSeq ==
  ASSUME NEW S, NEW s \in Seq(S), NEW k \in Seq(S), NEW i \in 1..(Len(s) + 1)
  PROVE  Left(s, i, k) \in Seq(S)
<1>1. Len(s) \in Nat /\ i \in Int /\ \A j \in i..Len(s) : j \in 1..Len(s)
  BY LenProperties
<1>2. \A j \in i..Len(s) : s[j] \in S
  BY <1>1, ElementOfSeq
<1>3. SubSeq(s, i, Len(s)) \in Seq(S)
  BY <1>1, <1>2, SubSeqProperties
<1> QED BY <1>3, ConcatProperties DEF Left

\* Where the tail behind the header in progress begins.
LEMMA TailFrom ==
  ASSUME TailIsErased(work.queue, hdr)
  PROVE  \A p \in Position : p >= (IF LastHeader.flags = {} THEN hdr ELSE NextOf(work.queue, hdr)) =>
           work.queue[p] = ErasedUnit
BY DEF TailIsErased, LastHeader, NextOf

LEMMA LeftoverSeen ==
  ASSUME SingleWrites, NEW h \in 1..Beyond, NEW c \in Unused, InFlash(h, c),
         \A p \in Position : p >= h => work.queue[p] = ErasedUnit
  PROVE  InFlash(h, "free")
<1>1. CASE h \in Position
  <2>1. work.queue[h] = ErasedUnit /\ work.queue[h] = HeaderAt(c)
    BY <1>1, SizeFacts DEF InFlash, Looks
  <2>2. HeaderAt("leftover").body = Garbled /\ ErasedUnit.body = Erased /\ Erased # Garbled
    BY WriteSize DEF HeaderAt, ErasedUnit
  <2>3. c = "free"
    BY <2>1, <2>2 DEF Unused
  <2> QED BY <2>3
<1>2. CASE h \notin Position
  <2>1. h = Beyond /\ h + 1 \notin Position
    BY <1>2, SizeFacts
  <2>2. Looks(work.queue, h, "free")
    BY <1>2, <2>1 DEF InFlash, Looks, Condition, Unused
  <2> QED BY <2>2 DEF InFlash, Intact, Unused
<1> QED BY <1>1, <1>2

LEMMA BootTailStep ==
  ASSUME SingleWrites, FtwTypes, DriverStep, args.op = "boot", todo = Boot(5),
         \/ \E c \in Unused \cup {"pending"} : Found(c)
         \/ \E c \in Unused : Closed(c)
  PROVE  Booting' \/ Reclaiming'
<1>1. Begins("bootTail", Boot(6)) /\ Boot(6) \in Seq(StepName)
  <2>1. Begins(InitFtwProtocol[5], Boot(5 + 1)) /\ Boot(6) \in Seq(StepName)
    BY BootBegins
  <2> QED BY <2>1, ProgramSteps
<1>2. BootTail /\ args'.op = "boot"
  BY <1>1, StepIs, DriverKeeps DEF Begins, Step
<1>3. UNCHANGED flash
  BY <1>2 DEF BootTail
<1>4. CASE TailIsErased(work.queue, hdr)
  <2>1. Continue(<<>>) /\ UNCHANGED pointers /\ todo' = Boot(6)
    BY <1>1, <1>2, <1>4, Continues DEF BootTail
  <2>2. ASSUME NEW c \in Unused \cup {"pending"}, Found(c) PROVE Booting'
    <3>1. CASE c = "pending"
      <4>1. Found(c)'
        BY <1>3, <2>1, <2>2, FlashKept DEF flash
      <4> QED BY <1>2, <2>1, <3>1, <4>1, BootTo
    <3>2. CASE c \in Unused
      <4>1. LastHeader.flags = {} /\ hdr \in 1..Beyond /\ InFlash(hdr, c) /\ c \in Condition
        BY <2>2, <3>2, FoundIs, HeaderFacts
      <4>2. \A p \in Position : p >= hdr => work.queue[p] = ErasedUnit
        BY <1>4, <4>1, TailFrom
      <4>3. InFlash(hdr, "free")
        BY <3>2, <4>1, <4>2, LeftoverSeen
      <4>4. Found("free")
        BY <2>2, <4>3 DEF Found
      <4>5. Found("free")'
        BY <1>3, <2>1, <4>4, FlashKept DEF flash
      <4> QED BY <1>2, <2>1, <4>5, BootTo
    <3> QED BY <3>1, <3>2
  <2>3. ASSUME NEW c \in Unused, Closed(c) PROVE Booting'
    <3> DEFINE n == NextOf(work.queue, hdr)
    <3>1. InFlash(n, c) /\ LastHeader.flags # {}
      BY <2>3 DEF Closed, NextOf, LastHeader
    <3>2. n \in 1..Beyond
      BY <3>1, LastHeaderIs DEF InFlash
    <3>3. \A p \in Position : p >= n => work.queue[p] = ErasedUnit
      BY <1>4, <3>1, TailFrom
    <3> HIDE DEF n
    <3>4. InFlash(n, "free")
      BY <3>1, <3>2, <3>3, LeftoverSeen
    <3>5. Closed("free")
      BY <2>3, <3>4 DEF Closed, NextOf, n
    <3>6. Closed("free")'
      BY <1>3, <2>1, <3>5, ClosedKept
    <3> QED BY <1>2, <2>1, <3>6, BootTo DEF Unused
  <2> QED BY <2>2, <2>3
<1>5. CASE ~TailIsErased(work.queue, hdr)
  <2>1. Reclaim(Preserved(work.queue), work, <<>>)
    BY <1>2, <1>5 DEF BootTail
  <2>2. ASSUME NEW h, NEW c \in Unused, InFlash(h, c) PROVE Reclaiming'
    <3>1. h \in 1..Beyond
      BY <2>2, LastHeaderIs DEF InFlash
    <3>2. Replaceable /\ Preserved(work.queue) = EmptyQueue
      BY <2>2, <3>1, UnusedDoomed, DoomedPreserved DEF InFlash, Replaceable
    <3>3. Reclaims(<<>> \o Boot(6))' /\ <<>> \o Boot(6) = Boot(6)
      <4>1. work \in Image /\ <<>> \in Seq(StepName) /\ Reclaim(EmptyQueue, work, <<>>)
        BY <2>1, <3>2, StepLiterals DEF FtwTypes
      <4>2. Reclaims(<<>> \o Boot(6))'
        BY <1>1, <1>3, <3>2, <4>1, ReclaimBegun
      <4> QED BY <1>1, <4>2, ConcatEmptySeq
    <3> QED BY <1>2, <3>3, ThenIs, ReclaimingBegins DEF ReclaimThen
  <2>3. ~Found("pending")
    <3> SUFFICES ASSUME Found("pending") PROVE FALSE
      OBVIOUS
    <3>1. LastHeader = HeaderAt("pending") /\ InFlash(hdr, "pending") /\ hdr \in Nat
      BY FoundIs
    <3>2. LastHeader.flags # {} /\ LastHeader.body = 1
      BY <3>1 DEF HeaderAt
    <3>3. hdr + WriteTotalSize(work.queue[hdr]) = hdr + 2
      BY <3>2, WriteSize DEF LastHeader
    <3>4. \A p \in Position : p >= hdr + 2 => work.queue[p] = ErasedUnit
      BY <3>1, SizeFacts DEF InFlash, Looks
    <3>5. TailIsErased(work.queue, hdr)
      BY <3>2, <3>3, <3>4 DEF TailIsErased, LastHeader
    <3> QED BY <1>5, <3>5
  <2>4. ASSUME NEW c \in Unused \cup {"pending"}, Found(c) PROVE Reclaiming'
    <3>1. c \in Unused /\ InFlash(hdr, c)
      BY <2>3, <2>4 DEF Found
    <3> QED BY <2>2, <3>1
  <2>5. ASSUME NEW c \in Unused, Closed(c) PROVE Reclaiming'
    BY <2>2, <2>5 DEF Closed
  <2> QED BY <2>4, <2>5
<1> QED BY <1>4, <1>5

LEMMA BootRestartStep ==
  ASSUME SingleWrites, FtwTypes, DriverStep, args.op = "boot", todo = Boot(6),
         Found("free") \/ Found("pending") \/ Closed("free")
  PROVE  Idle' \/ Restarting'
<1>1. Begins("bootRestart", <<>>)
  <2>1. Begins(InitFtwProtocol[6], Boot(6 + 1)) /\ Boot(7) = <<>>
    BY BootBegins
  <2> QED BY <2>1, ProgramSteps
<1>2. BootRestart /\ args'.op = "boot"
  BY <1>1, StepIs, DriverKeeps DEF Begins, Step
<1>3. UNCHANGED <<flash, pointers>>
  BY <1>2 DEF BootRestart
<1>4. CASE Found("pending")
  <2>1. /\ LastHeader = HeaderAt("pending") /\ LastRecord.flags = RecordFlags("pending")
        /\ LastRecord.body \in RecordBodies("pending") /\ "pending" \in Condition
    BY <1>4, FoundIs
  <2>2. Complete \notin LastHeader.flags /\ SpareComplete \in LastRecord.flags
    BY <2>1, HeaderFacts
  <2>3. LastRecord.body \in Extent
    BY <2>1 DEF RecordBodies
  <2>4. Continue(<<"refresh", "restart">> \o FtwAbort)
    BY <1>2, <2>2, <2>3 DEF BootRestart
  <2>5. todo' = <<"refresh", "restart">> \o FtwAbort
    <3>1. <<"refresh", "restart">> \o FtwAbort \in Seq(StepName)
      BY StepLiterals, ProgramTypes, ConcatProperties
    <3> QED BY <1>1, <2>4, <3>1, ConcatEmptySeq DEF Begins, Continue
  <2>6. Found("pending")'
    BY <1>3, <1>4, FlashKept DEF flash
  <2> QED BY <1>2, <2>5, <2>6 DEF Restarting
<1>5. CASE Found("free") \/ Closed("free")
  <2>1. Complete \in LastHeader.flags \/ SpareComplete \notin LastRecord.flags
    <3>1. CASE Found("free")
      BY <3>1, FoundIs, EmptyFacts
    <3>2. CASE Closed("free")
      BY <3>2 DEF Closed, LastHeader
    <3> QED BY <1>5, <3>1, <3>2
  <2>2. todo' = <<>>
    BY <1>1, <1>2, <2>1, StepLiterals, Continues DEF BootRestart
  <2>3. Settled
    <3>1. CASE Found("free")
      BY <3>1, FoundIs DEF Settled
    <3>2. CASE Closed("free")
      BY <3>2, LastHeaderIs DEF Closed, InFlash, Settled
    <3> QED BY <1>5, <3>1, <3>2
  <2>4. Settled'
    BY <1>3, <2>3, SettledKept DEF flash
  <2> QED BY <2>2, <2>4 DEF Idle
<1> QED BY <1>4, <1>5

\* FtwAbort completes the header that the driver found.
LEMMA AbortCompletes ==
  ASSUME SingleWrites, FtwTypes, Abort, NEW c, Found(c), c \notin Unused, c # "pending"
  PROVE  /\ \E d \in Unused : Closed(d)'
         /\ c # "bare" => Closed("free")'
<1>1. /\ c \in Condition /\ hdr \in Position /\ rec = hdr + 1 /\ InFlash(hdr, c)
      /\ LastHeader = HeaderAt(c) /\ hdr < QueueSize
  BY FoundIs DEF Found
<1>2. HeaderAllocated \in LastHeader.flags /\ Complete \notin LastHeader.flags
  BY <1>1, HeaderFacts
<1>3. ProgramUnit(hdr, {Complete}, Erased) /\ UNCHANGED <<spare, target, pointers>>
  BY <1>2 DEF Abort
<1>4. /\ work'.queue[hdr] = Program(work.queue[hdr], [flags |-> {Complete}, body |-> Erased])
      /\ \A p \in Position : p # hdr => work'.queue[p] = work.queue[p]
      /\ IsValidWorkSpace(work')
  <2>1. {Complete} \in Flags /\ Erased \in Bodies
    BY DEF Flags, Bodies, Complete
  <2> QED BY <1>1, <1>3, <2>1, UnitProgrammed DEF FtwTypes, InFlash
<1>5. work.queue \in Queue /\ Looks(work.queue, hdr, c)
  BY <1>1, ImageParts DEF FtwTypes, InFlash
<1>6. /\ Complete \in work'.queue[hdr].flags
      /\ WriteTotalSize(work'.queue[hdr]) = (IF c = "bare" THEN 1 ELSE 2)
      /\ c # "bare" => Looks(work'.queue, hdr + 2, "free")
      /\ \E d \in Unused : Looks(work'.queue, hdr + WriteTotalSize(work'.queue[hdr]), d)
  BY <1>1, <1>4, <1>5, HeaderCompleted
<1>7. Whole'
  BY <1>1, <1>3 DEF InFlash, Intact, Whole
<1>8. hdr' = hdr /\ rec' = rec
  BY <1>3 DEF pointers, hdr, rec
<1>9. ASSUME NEW d \in Unused, Looks(work'.queue, hdr + WriteTotalSize(work'.queue[hdr]), d)
      PROVE  Closed(d)'
  <2>1. d # "pending"
    BY DEF Unused
  <2> QED BY <1>1, <1>4, <1>6, <1>7, <1>8, <1>9, <2>1 DEF Closed, InFlash, Intact
<1>10. "free" \in Unused
  BY DEF Unused
<1> QED BY <1>6, <1>9, <1>10

LEMMA AbortingStep ==
  ASSUME SingleWrites, FtwTypes, DriverStep, Aborting
  PROVE  Aborting' \/ Booting'
<1>1. args'.op = "boot" /\ Boot(4) \in Seq(StepName) /\ Boot(5) \in Seq(StepName) /\ args.op = "boot"
  BY DriverKeeps, BootBegins DEF Aborting
<1>2. PICK j \in 1..2, k \in {Boot(4), Boot(5)}, c \in Condition :
        /\ todo = Left(FtwAbort, j, k) /\ Found(c)
        /\ \/ k = Boot(4) /\ c \in {"bare", "headed", "open", "recorded"}
           \/ k = Boot(5) /\ c = "written"
  BY DEF Aborting, Condition
<1>3. Begins(FtwAbort[j], Left(FtwAbort, j + 1, k)) /\ k \in Seq(StepName)
  BY <1>1, <1>2, ProgramTypes, ProgramSteps, LeftBegins
<1>4. Left(FtwAbort, 3, k) = k /\ Left(FtwAbort, 2, k) \in Seq(StepName)
  <2>1. Left(FtwAbort, Len(FtwAbort) + 1, k) = k
    BY <1>3, ProgramTypes, LeftEnds
  <2>2. 2 \in 1..(Len(FtwAbort) + 1)
    BY ProgramSteps
  <2>3. Left(FtwAbort, 2, k) \in Seq(StepName)
    BY <1>3, <2>2, ProgramTypes, LeftSeq
  <2>4. Len(FtwAbort) + 1 = 3
    BY ProgramSteps
  <2> QED BY <2>1, <2>3, <2>4
<1>5. c \notin Unused
  BY <1>2 DEF Unused
<1>6. CASE j = 1
  <2>1. Begins("refresh", Left(FtwAbort, 2, k)) /\ Refresh
    <3>1. Begins("refresh", Left(FtwAbort, 2, k))
      BY <1>3, <1>6, ProgramSteps
    <3> QED BY <3>1, StepIs DEF Begins, Step
  <2>2. todo' = Left(FtwAbort, 2, k) /\ Found(c)'
    BY <1>2, <1>4, <2>1, Refreshed
  <2>3. 2 \in 1..2
    OBVIOUS
  <2> QED BY <1>1, <1>2, <2>2, <2>3 DEF Aborting
<1>7. CASE j = 2
  <2>1. Begins("abort", k) /\ Abort
    <3>1. Begins("abort", k)
      BY <1>3, <1>4, <1>7, ProgramSteps
    <3> QED BY <3>1, StepIs DEF Begins, Step
  <2>2. todo' = k
    BY <1>3, <2>1, Continues DEF Abort
  <2>3. (\E d \in Unused : Closed(d)') /\ (c # "bare" => Closed("free")') /\ "free" \in Unused
    BY <1>2, <1>5, <2>1, AbortCompletes DEF Unused
  <2>4. CASE k = Boot(4)
    BY <1>1, <2>2, <2>3, <2>4, BootTo
  <2>5. CASE k = Boot(5)
    BY <1>1, <2>2, <2>3, <2>5, BootTo
  <2> QED BY <2>4, <2>5
<1> QED BY <1>6, <1>7

LEMMA SequenceBegins ==
  ASSUME NEW s \in Seq(StepName), NEW k \in Seq(StepName), NEW i \in 1..Len(s), todo = Left(s, i, k)
  PROVE  /\ Begins(s[i], Left(s, i + 1, k)) /\ Left(s, i + 1, k) \in Seq(StepName)
         /\ i = Len(s) => Left(s, i + 1, k) = k
<1>1. Begins(s[i], Left(s, i + 1, k))
  BY LeftBegins
<1>2. i + 1 \in 1..(Len(s) + 1)
  BY LenProperties
<1>3. Left(s, i + 1, k) \in Seq(StepName)
  BY <1>2, LeftSeq
<1>4. Left(s, Len(s) + 1, k) = k
  BY LeftEnds
<1> QED BY <1>1, <1>3, <1>4

\* The spare block is flushed to the working block, before its step i.
FlushAt(i) ==
  /\ Lost /\ spare.ws.queue = EmptyQueue
  /\ i \in 3..5 => Buffer.ws.queue = EmptyQueue
  /\ i = 6 => work = Header

LEMMA NoQueueDoomed ==
  ASSUME SingleWrites
  PROVE  Doomed(EmptyQueue)
BY LooksEmpty, UnusedDoomed DEF Unused

LEMMA WorkInvalidLost ==
  ASSUME SingleWrites, FtwTypes, Replaceable, WorkInvalid, spare.ws.queue = EmptyQueue
  PROVE  Lost'
<1>1. Doomed(work.queue) /\ Whole
  <2>1. CASE Lost
    BY <2>1 DEF Lost
  <2>2. CASE \E h \in 1..Beyond, c \in Unused : InFlash(h, c)
    BY <2>2, UnusedDoomed DEF InFlash, Intact, Unused
  <2> QED BY <2>1, <2>2 DEF Replaceable
<1>2. work' = [work EXCEPT !.invalid = TRUE] /\ UNCHANGED <<spare, target>>
  BY DEF WorkInvalid
<1>3. ~IsValidWorkSpace(work') /\ work'.queue = work.queue
  BY <1>2 DEF IsValidWorkSpace, FtwTypes, Image
<1> QED BY <1>1, <1>2, <1>3 DEF Lost, Whole

LEMMA SpareValidKeeps ==
  ASSUME FtwTypes, SpareValid
  PROVE  spare'.ws.queue = spare.ws.queue /\ UNCHANGED <<work, target, pointers, buffers>>
<1>1. spare \in [data : Data \cup {Torn}, ws : Image] /\ spare.ws \in Image
  BY BlockParts DEF FtwTypes, Block
<1> DEFINE w == [spare.ws EXCEPT !.valid = TRUE]
<1>2. w.queue = spare.ws.queue
  BY <1>1 DEF Image
<1>3. spare' = [spare EXCEPT !.ws = w]
  BY DEF SpareValid
<1> HIDE DEF w
<1>4. spare'.ws = w
  BY <1>1, <1>3
<1> QED BY <1>2, <1>4 DEF SpareValid

LEMMA FlushAtStep ==
  ASSUME SingleWrites, FtwTypes, NEW i \in 1..6, FlushAt(i), DriverStep, Step(FlushToWorkingBlock[i])
  PROVE  /\ i < 6 => FlushAt(i + 1)'
         /\ i = 6 => Fresh'
         /\ UNCHANGED pointers /\ Continue(<<>>)
<1>1. Lost /\ spare.ws.queue = EmptyQueue /\ Whole
  BY DEF FlushAt, Lost
<1>2. CASE i = 1
  <2>1. SpareValid
    BY <1>2, ProgramSteps, StepIs
  <2>2. spare'.ws.queue = EmptyQueue /\ UNCHANGED <<work, target, pointers>>
    BY <1>1, <2>1, SpareValidKeeps
  <2>3. Lost'
    BY <1>1, <2>2, LostKept
  <2> QED BY <1>2, <2>1, <2>2, <2>3 DEF FlushAt, SpareValid
<1>3. CASE i = 2
  <2>1. ReadSpare
    BY <1>3, ProgramSteps, StepIs
  <2>2. Lost' /\ spare'.ws.queue = EmptyQueue /\ Buffer'.ws.queue = EmptyQueue
    BY <1>1, <2>1, LostKept DEF ReadSpare, flash
  <2> QED BY <1>3, <2>1, <2>2 DEF FlushAt, ReadSpare
<1>4. CASE i = 3
  <2>1. WorkInvalid
    BY <1>4, ProgramSteps, StepIs
  <2>2. Lost'
    BY <1>1, <2>1, WorkInvalidLost DEF Replaceable
  <2>3. spare' = spare /\ Buffer' = Buffer /\ UNCHANGED pointers
    BY <2>1 DEF WorkInvalid, buffers
  <2> QED BY <1>1, <1>4, <2>1, <2>2, <2>3 DEF FlushAt, WorkInvalid
<1>5. CASE i = 4
  <2>1. EraseWork
    BY <1>5, ProgramSteps, StepIs
  <2>2. spare' = spare /\ Buffer' = Buffer /\ UNCHANGED <<target, pointers>> /\ work' = Blank
    BY <2>1 DEF EraseWork, buffers
  <2>3. Lost'
    BY <1>1, <2>2, NoQueueDoomed, ConstantTypes DEF Lost, Whole, IsValidWorkSpace
  <2> QED BY <1>1, <1>5, <2>1, <2>2, <2>3 DEF FlushAt, EraseWork
<1>6. CASE i = 5
  <2>1. WriteWork
    BY <1>6, ProgramSteps, StepIs
  <2>2. spare' = spare /\ UNCHANGED <<target, pointers>> /\ work' = [Header EXCEPT !.queue = EmptyQueue]
    BY <1>6, <2>1 DEF WriteWork, FlushAt
  <2>3. work' = Header
    BY <2>2, ConstantTypes DEF Image
  <2>4. Lost'
    BY <1>1, <2>2, <2>3, NoQueueDoomed, ConstantTypes DEF Lost, Whole, IsValidWorkSpace
  <2> QED BY <1>1, <1>6, <2>1, <2>2, <2>3, <2>4 DEF FlushAt, WriteWork
<1>7. CASE i = 6
  <2>1. WorkValid
    BY <1>7, ProgramSteps, StepIs
  <2>2. work = Header /\ work' = [work EXCEPT !.valid = TRUE] /\ UNCHANGED <<target, pointers>>
    BY <1>7, <2>1 DEF WorkValid, FlushAt
  <2>3. IsValidWorkSpace(work') /\ work'.queue = EmptyQueue
    BY <2>2, ConstantTypes DEF IsValidWorkSpace, Image
  <2> QED BY <1>1, <1>7, <2>1, <2>2, <2>3 DEF Fresh, Whole, WorkValid
<1> QED BY <1>2, <1>3, <1>4, <1>5, <1>6, <1>7

LEMMA FlushingStep ==
  ASSUME SingleWrites, FtwTypes, DriverStep, Flushing
  PROVE  Flushing' \/ Booting'
<1>1. args.op = "boot" /\ args'.op = "boot"
  BY DriverKeeps DEF Flushing
<1>2. ASSUME NEW i \in 1..6, todo = Left(FlushToWorkingBlock, i, FlushThen), FlushAt(i)
      PROVE  Flushing'
  <2>1. /\ Begins(FlushToWorkingBlock[i], Left(FlushToWorkingBlock, i + 1, FlushThen))
        /\ Left(FlushToWorkingBlock, i + 1, FlushThen) \in Seq(StepName)
        /\ i = 6 => Left(FlushToWorkingBlock, i + 1, FlushThen) = FlushThen
    <3>1. /\ FlushToWorkingBlock \in Seq(StepName) /\ FlushThen \in Seq(StepName)
          /\ Len(FlushToWorkingBlock) = 6
      BY FlushThenIs, ProgramTypes, ProgramSteps
    <3>2. i \in 1..Len(FlushToWorkingBlock)
      BY <3>1
    <3>3. /\ Begins(FlushToWorkingBlock[i], Left(FlushToWorkingBlock, i + 1, FlushThen))
          /\ Left(FlushToWorkingBlock, i + 1, FlushThen) \in Seq(StepName)
          /\ i = Len(FlushToWorkingBlock) => Left(FlushToWorkingBlock, i + 1, FlushThen) = FlushThen
      BY <1>2, <3>1, <3>2, SequenceBegins
    <3> QED BY <3>1, <3>3
  <2>2. (i < 6 => FlushAt(i + 1)') /\ (i = 6 => Fresh') /\ Continue(<<>>)
    BY <1>2, <2>1, FlushAtStep DEF Begins, Step
  <2>3. todo' = Left(FlushToWorkingBlock, i + 1, FlushThen)
    BY <2>1, <2>2, Continues
  <2>4. CASE i < 6
    <3>1. i + 1 \in 1..6
      BY <2>4
    <3> QED BY <1>1, <2>2, <2>3, <2>4, <3>1 DEF Flushing, FlushAt
  <2>5. CASE i = 6
    BY <1>1, <2>1, <2>2, <2>3, <2>5 DEF Flushing
  <2> QED BY <2>4, <2>5
<1>3. CASE todo = FlushThen /\ Fresh
  <2>1. /\ Begins("refresh", <<"abort", "refresh">> \o Boot(3)) /\ Refresh
        /\ <<"abort", "refresh">> \o Boot(3) \in Seq(StepName)
    <3>1. Begins("refresh", <<"abort", "refresh">> \o Boot(3))
      BY <1>3, FlushThenIs, LiteralBegins DEF StepName
    <3> QED BY <3>1, FlushThenIs, StepIs DEF Begins, Step
  <2>2. todo' = <<"abort", "refresh">> \o Boot(3) /\ hdr' = 1
    <3>1. HasRoom(work.queue)
      BY <1>3, FreshIs, LastHeaderIs DEF InFlash
    <3>2. PointInto(work.queue) /\ Continue(<<>>)
      BY <2>1, <3>1 DEF Refresh
    <3>3. 1 \in Position /\ 1 < QueueSize
      BY SizeFacts
    <3> QED BY <1>3, <2>1, <3>2, <3>3, FreshIs, PointedAt, Continues DEF InFlash
  <2>3. Fresh'
    BY <1>3, <2>1, LostKept DEF Refresh, flash
  <2> QED BY <1>1, <2>2, <2>3 DEF Flushing
<1>4. CASE todo = <<"abort", "refresh">> \o Boot(3) /\ Fresh /\ hdr = 1
  <2>1. Begins("abort", <<"refresh">> \o Boot(3)) /\ Abort
    <3>1. Begins("abort", <<"refresh">> \o Boot(3))
      BY <1>4, FlushThenIs, LiteralBegins DEF StepName
    <3> QED BY <3>1, StepIs DEF Begins, Step
  <2>2. LastHeader.flags = {}
    BY <1>4, EmptyFacts, SizeFacts DEF Fresh, LastHeader
  <2>3. UNCHANGED <<work, spare, target>> /\ Continue(<<>>)
    BY <2>1, <2>2 DEF Abort
  <2>4. todo' = <<"refresh">> \o Boot(3) /\ Fresh'
    BY <1>4, <2>1, <2>3, FlushThenIs, Continues, LostKept
  <2> QED BY <1>1, <2>4 DEF Flushing
<1>5. CASE todo = <<"refresh">> \o Boot(3) /\ Fresh
  <2>1. Begins("refresh", Boot(3)) /\ Refresh /\ Boot(3) \in Seq(StepName)
    <3>1. Begins("refresh", Boot(3))
      <4>1. "refresh" \in StepName /\ Boot(3) \in Seq(StepName)
        BY BootBegins DEF StepName
      <4> QED BY <1>5, <4>1, LiteralBegins
    <3> QED BY <3>1, BootBegins, StepIs DEF Begins, Step
  <2>2. HasRoom(work.queue) /\ InFlash(1, "free") /\ 1 \in Position /\ 1 < QueueSize
    BY <1>5, FreshIs, LastHeaderIs, SizeFacts DEF InFlash
  <2>3. PointInto(work.queue) /\ Continue(<<>>)
    BY <2>1, <2>2 DEF Refresh
  <2>4. hdr' = 1 /\ rec' = 1 + 1
    BY <2>2, <2>3, PointedAt DEF InFlash
  <2>5. Fresh'
    BY <1>5, <2>1, LostKept DEF Refresh, flash
  <2>6. Found("free")' /\ "free" \in Condition
    <3>1. InFlash(1, "free")'
      BY <2>1, <2>2, FlashKept DEF Refresh, flash
    <3> QED BY <2>2, <2>4, <3>1 DEF Found, Condition, InFlash, Intact
  <2>7. todo' = Boot(3)
    BY <2>1, <2>3, Continues
  <2> QED BY <1>1, <2>6, <2>7, BootTo
<1> QED BY <1>2, <1>3, <1>4, <1>5 DEF Flushing, FlushAt

\* The rest of a restart and of a write, step by step.
LEMMA EndsAre ==
  /\ <<"refresh", "restart">> \o FtwAbort = <<"refresh">> \o (<<"restart">> \o FtwAbort)
  /\ FtwAbort = <<"refresh">> \o <<"abort">> /\ <<"abort">> = <<"abort">> \o <<>>
  /\ WriteEnd = <<"eraseSpare">> \o <<"restoreSpare">>
  /\ <<"restoreSpare">> = <<"restoreSpare">> \o <<>>
  /\ <<"refresh", "write">> = <<"refresh">> \o <<"write">> /\ <<"write">> = <<"write">> \o <<>>
  /\ <<"refresh", "allocate", "checks">> = <<"refresh">> \o <<"allocate", "checks">>
  /\ <<"allocate", "checks">> = <<"allocate">> \o <<"checks">>
  /\ <<"allocateHeader", "allocateWrites", "checks">> = <<"allocateHeader">> \o <<"allocateWrites", "checks">>
  /\ <<"allocateWrites", "checks">> = <<"allocateWrites">> \o <<"checks">>
  /\ <<"checks">> = <<"checks">> \o <<>>
  /\ <<"reread">> \o <<"write">> = <<"reread">> \o (<<"write">> \o <<>>)
<1>1. <<"refresh", "restart">> \o FtwAbort = <<"refresh">> \o (<<"restart">> \o FtwAbort)
  BY DEF FtwAbort
<1>2. /\ <<"abort">> = <<"abort">> \o <<>> /\ <<"restoreSpare">> = <<"restoreSpare">> \o <<>>
      /\ <<"write">> = <<"write">> \o <<>> /\ <<"checks">> = <<"checks">> \o <<>>
  OBVIOUS
<1>3. FtwAbort = <<"refresh">> \o <<"abort">> /\ WriteEnd = <<"eraseSpare">> \o <<"restoreSpare">>
  BY DEF FtwAbort, WriteEnd
<1>4. /\ <<"refresh", "write">> = <<"refresh">> \o <<"write">>
      /\ <<"refresh", "allocate", "checks">> = <<"refresh">> \o <<"allocate", "checks">>
      /\ <<"allocate", "checks">> = <<"allocate">> \o <<"checks">>
      /\ <<"allocateHeader", "allocateWrites", "checks">>
           = <<"allocateHeader">> \o <<"allocateWrites", "checks">>
      /\ <<"allocateWrites", "checks">> = <<"allocateWrites">> \o <<"checks">>
  OBVIOUS
<1> QED BY <1>1, <1>2, <1>3, <1>4

LEMMA RestTypes ==
  /\ <<"restart">> \o FtwAbort \in Seq(StepName) /\ RestartEnd \in Seq(StepName)
  /\ WriteEnd \in Seq(StepName) /\ <<"abort">> \in Seq(StepName) /\ <<"restoreSpare">> \in Seq(StepName)
  /\ <<"write">> \in Seq(StepName) /\ <<"checks">> \in Seq(StepName)
  /\ <<"allocate", "checks">> \in Seq(StepName) /\ <<"allocateWrites", "checks">> \in Seq(StepName)
<1>1. /\ <<"restart">> \in Seq(StepName) /\ <<"eraseSpare">> \in Seq(StepName)
      /\ <<"abort">> \in Seq(StepName) /\ <<"restoreSpare">> \in Seq(StepName)
      /\ <<"write">> \in Seq(StepName) /\ <<"checks">> \in Seq(StepName)
      /\ <<"allocate", "checks">> \in Seq(StepName) /\ <<"allocateWrites", "checks">> \in Seq(StepName)
      /\ <<"eraseSpare", "restoreSpare">> \in Seq(StepName)
  BY DEF StepName
<1> QED BY <1>1, ProgramTypes, ConcatProperties DEF RestartEnd, WriteEnd

LEMMA EndsDiffer == RestartEnd # WriteEnd
<1>1. <<"eraseSpare">> \in Seq(StepName) /\ Len(<<"eraseSpare">>) = 1 /\ Len(WriteEnd) = 2
  BY StepLiterals DEF WriteEnd
<1>2. Len(RestartEnd) = Len(<<"eraseSpare">>) + Len(FtwAbort)
  BY <1>1, ProgramTypes, ConcatProperties DEF RestartEnd
<1> QED BY <1>1, <1>2, ProgramSteps

LEMMA EraseSpareSettled ==
  ASSUME SingleWrites, FtwTypes, NEW k \in Seq(StepName), Begins("eraseSpare", k), DriverStep, Settled
  PROVE  todo' = k /\ Settled'
<1>1. EraseSpare
  BY StepIs DEF Begins, Step
<1> QED BY <1>1, Continues, SettledKept DEF EraseSpare

LEMMA RestartingStep ==
  ASSUME SingleWrites, FtwTypes, DriverStep, Restarting
  PROVE  Restarting' \/ Recording' \/ Reclaiming' \/ Idle'
<1>1. args.op = "boot" /\ args'.op = "boot"
  BY DriverKeeps DEF Restarting
<1>2. CASE todo = <<"refresh", "restart">> \o FtwAbort /\ Found("pending")
  <2>1. Begins("refresh", <<"restart">> \o FtwAbort) /\ Refresh
    <3>1. "refresh" \in StepName
      BY DEF StepName
    <3>2. Begins("refresh", <<"restart">> \o FtwAbort)
      BY <1>2, <3>1, EndsAre, RestTypes, LiteralBegins
    <3> QED BY <3>2, StepIs DEF Begins, Step
  <2>2. "pending" \in Condition
    BY DEF Condition
  <2>3. todo' = <<"restart">> \o FtwAbort /\ Found("pending")'
    BY <1>2, <2>1, <2>2, RestTypes, Refreshed
  <2> QED BY <1>1, <2>3 DEF Restarting
<1>3. CASE todo = <<"restart">> \o FtwAbort /\ Found("pending")
  <2>1. Begins("restart", FtwAbort) /\ Restart
    <3>1. "restart" \in StepName
      BY DEF StepName
    <3>2. Begins("restart", FtwAbort)
      BY <1>3, <3>1, ProgramTypes, LiteralBegins
    <3> QED BY <3>2, StepIs DEF Begins, Step
  <2>2. /\ Complete \notin LastHeader.flags /\ SpareComplete \in LastRecord.flags
        /\ DestinationComplete \notin LastRecord.flags
    <3>1. /\ LastHeader = HeaderAt("pending") /\ LastRecord.flags = RecordFlags("pending")
          /\ "pending" \in Condition
      BY <1>3, FoundIs
    <3> QED BY <3>1, HeaderFacts
  <2>3. /\ todo' = FtwWriteRecord \o <<"eraseSpare">> \o Tail(todo)
        /\ args' = [args EXCEPT !.ext = LastRecord.body]
        /\ UNCHANGED <<flash, pointers>>
    BY <2>1, <2>2 DEF Restart
  <2>4. todo' = Left(FtwWriteRecord, 1, RestartEnd)
    <3>1. todo' = (FtwWriteRecord \o <<"eraseSpare">>) \o FtwAbort
      BY <2>1, <2>3 DEF Begins
    <3>2. (FtwWriteRecord \o <<"eraseSpare">>) \o FtwAbort = FtwWriteRecord \o RestartEnd
      <4>1. FtwWriteRecord \in Seq(StepName) /\ <<"eraseSpare">> \in Seq(StepName) /\ FtwAbort \in Seq(StepName)
        BY ProgramTypes, StepLiterals
      <4>2. (FtwWriteRecord \o <<"eraseSpare">>) \o FtwAbort = FtwWriteRecord \o (<<"eraseSpare">> \o FtwAbort)
        BY <4>1, ConcatAssociative
      <4> QED BY <4>2, Zenon DEF RestartEnd
    <3>3. FtwWriteRecord \in Seq(StepName) /\ RestartEnd \in Seq(StepName)
      BY ProgramTypes, RestTypes
    <3>4. FtwWriteRecord \o RestartEnd = Left(FtwWriteRecord, 1, RestartEnd)
      BY <3>3, LeftEnds
    <3> QED BY <3>1, <3>2, <3>4, Zenon
  <2>5. Found("pending")'
    BY <1>3, <2>3, FlashKept DEF flash
  <2>6. args'.ext = work'.queue[rec'].body
    BY <2>3 DEF FtwTypes, Call, LastRecord, flash, pointers, rec
  <2>7. RestartEnd # WriteEnd
    BY EndsDiffer
  <2>8. 1 \in 1..5 /\ 1 # 5 /\ 1 \notin 2..3 /\ 1 # 4
    OBVIOUS
  <2> QED BY <1>1, <2>4, <2>5, <2>6, <2>7, <2>8 DEF Recording
<1>4. CASE todo = <<"eraseSpare">> \o FtwAbort /\ Settled
  <2>1. Begins("eraseSpare", FtwAbort)
    <3>1. "eraseSpare" \in StepName
      BY DEF StepName
    <3> QED BY <1>4, <3>1, ProgramTypes, LiteralBegins
  <2>2. todo' = FtwAbort /\ Settled'
    BY <1>4, <2>1, ProgramTypes, EraseSpareSettled
  <2> QED BY <1>1, <2>2 DEF Restarting
<1>5. CASE todo = FtwAbort /\ Settled
  <2>1. Begins("refresh", <<"abort">>) /\ Refresh
    <3>1. "refresh" \in StepName
      BY DEF StepName
    <3>2. Begins("refresh", <<"abort">>)
      BY <1>5, <3>1, EndsAre, RestTypes, LiteralBegins
    <3> QED BY <3>2, StepIs DEF Begins, Step
  <2>2. PICK h \in 1..Beyond : InFlash(h, "free")
    BY <1>5 DEF Settled
  <2>3. "free" \in Condition
    BY DEF Condition
  <2>4. (todo' = <<"abort">> /\ Found("free")') \/ Reclaims(<<"reread">> \o <<"abort">>)'
    BY <2>1, <2>2, <2>3, RestTypes, Refreshed
  <2>5. Reclaims(<<"reread">> \o <<"abort">>)' => Reclaiming'
    BY <1>1, ThenIs, ReclaimingBegins DEF ReclaimThen
  <2> QED BY <1>1, <2>4, <2>5 DEF Restarting
<1>6. CASE todo = <<"abort">> /\ Found("free")
  <2>1. Begins("abort", <<>>) /\ Abort
    <3>1. "abort" \in StepName
      BY DEF StepName
    <3>2. Begins("abort", <<>>)
      BY <1>6, <3>1, EndsAre, StepLiterals, LiteralBegins
    <3> QED BY <3>2, StepIs DEF Begins, Step
  <2>2. LastHeader.flags = {} /\ Settled
    BY <1>6, FoundIs, EmptyFacts DEF Settled
  <2>3. UNCHANGED <<work, target>> /\ Continue(<<>>)
    BY <2>1, <2>2 DEF Abort
  <2>4. todo' = <<>> /\ Settled'
    BY <2>1, <2>2, <2>3, StepLiterals, Continues, SettledKept
  <2> QED BY <2>4 DEF Idle
<1> QED BY <1>2, <1>3, <1>4, <1>5, <1>6 DEF Restarting

\* The header in progress, or its record, is programmed.
LEMMA RecordProgrammed ==
  ASSUME SingleWrites, FtwTypes, NEW c, Found(c), NEW f \in Flags, NEW b \in Bodies,
         ProgramUnit(rec, f, b), UNCHANGED pointers, Whole',
         NEW d \in Condition, HeaderAt(d) = HeaderAt(c), d = "pending" => spare'.data \in Data,
         NEW u, u = Program(LastRecord, [flags |-> f, body |-> b]),
         u.flags = RecordFlags(d), u.body \in RecordBodies(d)
  PROVE  Found(d)' /\ rec' = rec /\ hdr' = hdr /\ work'.queue[rec'] = u
<1>1. /\ hdr \in Position /\ hdr < QueueSize /\ rec = hdr + 1 /\ rec \in Position /\ rec # hdr
      /\ InFlash(hdr, c) /\ LastHeader = HeaderAt(c)
  BY FoundIs DEF Found
<1>2. /\ work'.queue[rec] = u /\ IsValidWorkSpace(work')
      /\ \A p \in Position : p # rec => work'.queue[p] = work.queue[p]
  BY <1>1, UnitProgrammed DEF FtwTypes, InFlash, LastRecord
<1>3. work'.queue[hdr] = HeaderAt(d)
  BY <1>1, <1>2 DEF LastHeader
<1>4. Looks(work'.queue, hdr, d)
  <2>1. \A p \in Position : p \notin {hdr, hdr + 1} => work'.queue[p] = work.queue[p]
    BY <1>1, <1>2
  <2>2. work'.queue[hdr + 1].flags = RecordFlags(d) /\ work'.queue[hdr + 1].body \in RecordBodies(d)
    BY <1>1, <1>2
  <2>3. Looks(work.queue, hdr, c)
    BY <1>1 DEF InFlash
  <2> QED BY <1>1, <1>3, <2>1, <2>2, <2>3, LooksChanged
<1>5. hdr' = hdr /\ rec' = rec
  BY DEF pointers, hdr, rec
<1>6. InFlash(hdr, d)'
  BY <1>2, <1>4, <1>5 DEF InFlash, Intact, Whole
<1> QED BY <1>1, <1>2, <1>5, <1>6 DEF Found

LEMMA HeaderProgrammed ==
  ASSUME SingleWrites, FtwTypes, NEW c, Found(c), NEW f \in Flags, NEW b \in Bodies,
         ProgramUnit(hdr, f, b), UNCHANGED pointers, Whole',
         NEW d \in Condition, RecordFlags(d) = RecordFlags(c), RecordBodies(d) = RecordBodies(c),
         d # "pending", Program(LastHeader, [flags |-> f, body |-> b]) = HeaderAt(d)
  PROVE  Found(d)' /\ hdr' = hdr
<1>1. /\ hdr \in Position /\ hdr < QueueSize /\ rec = hdr + 1 /\ rec \in Position /\ rec # hdr
      /\ InFlash(hdr, c)
      /\ LastRecord.flags = RecordFlags(c) /\ LastRecord.body \in RecordBodies(c)
  BY FoundIs DEF Found
<1>2. /\ work'.queue[hdr] = HeaderAt(d) /\ IsValidWorkSpace(work')
      /\ \A p \in Position : p # hdr => work'.queue[p] = work.queue[p]
  BY <1>1, UnitProgrammed DEF FtwTypes, InFlash, LastHeader
<1>3. work'.queue[hdr + 1] = LastRecord
  BY <1>1, <1>2 DEF LastRecord
<1>4. Looks(work'.queue, hdr, d)
  <2>1. \A p \in Position : p \notin {hdr, hdr + 1} => work'.queue[p] = work.queue[p]
    BY <1>2
  <2>2. work'.queue[hdr + 1].flags = RecordFlags(d) /\ work'.queue[hdr + 1].body \in RecordBodies(d)
    BY <1>1, <1>3
  <2>3. Looks(work.queue, hdr, c)
    BY <1>1 DEF InFlash
  <2> QED BY <1>1, <1>2, <2>1, <2>2, <2>3, LooksChanged
<1>5. hdr' = hdr /\ rec' = rec
  BY DEF pointers, hdr, rec
<1>6. InFlash(hdr, d)'
  BY <1>2, <1>4, <1>5 DEF InFlash, Intact, Whole
<1> QED BY <1>1, <1>5, <1>6 DEF Found

\* FtwWriteRecord, before its step i.
RecordAt(i) ==
  /\ Found(IF i = 5 THEN "written" ELSE "pending")
  /\ args.ext = work.queue[rec].body
  /\ i \in 2..3 => Buffer.data = spare.data
  /\ i = 4 => target[args.ext] = spare.data

LEMMA PendingIs ==
  ASSUME SingleWrites, FtwTypes, Found("pending")
  PROVE  /\ LastRecord.body \in Extent /\ spare.data \in Data
         /\ \A x \in Extent : x # LastRecord.body => target[x] \in Data
         /\ LastRecord.flags = {SpareComplete}
<1>1. /\ LastRecord.flags = RecordFlags("pending") /\ LastRecord.body \in RecordBodies("pending")
      /\ InFlash(hdr, "pending") /\ work.queue[hdr + 1] = LastRecord
  BY FoundIs
<1> QED BY <1>1 DEF InFlash, Intact, RecordBodies, RecordFlags

LEMMA RecordAtStep ==
  ASSUME SingleWrites, FtwTypes, NEW i \in 1..5, RecordAt(i), DriverStep, args' = args,
         Step(FtwWriteRecord[i])
  PROVE  /\ i < 5 => RecordAt(i + 1)'
         /\ i = 5 => Settled'
         /\ Continue(<<>>)
<1>1. args.ext = LastRecord.body
  BY DEF RecordAt, LastRecord
<1>2. i < 5 => Found("pending") /\ args.ext \in Extent
  BY <1>1, PendingIs DEF RecordAt
<1>3. CASE i = 1
  <2>1. ReadSpare
    BY <1>3, ProgramSteps, StepIs
  <2>2. UNCHANGED <<work, spare, target, pointers>> /\ Buffer' = spare
    BY <2>1 DEF ReadSpare, flash
  <2>3. Found("pending")' /\ rec' = rec
    BY <1>2, <1>3, <2>2, FlashKept DEF pointers, rec
  <2> QED BY <1>1, <1>3, <2>1, <2>2, <2>3 DEF RecordAt, ReadSpare, LastRecord
<1>4. CASE i = 2
  <2>1. EraseTarget
    BY <1>4, ProgramSteps, StepIs
  <2>2. /\ UNCHANGED <<work, spare, pointers, buffers>> /\ Buffer' = Buffer
        /\ target' = [target EXCEPT ![args.ext] = Torn]
    BY <2>1 DEF EraseTarget, buffers
  <2>3. \A x \in Extent : x # LastRecord.body => target'[x] \in Data
    BY <1>1, <1>2, <1>4, <2>2, PendingIs DEF FtwTypes
  <2>4. Found("pending")' /\ rec' = rec
    <3>1. hdr' = hdr /\ rec' = rec /\ LastRecord = work.queue[hdr + 1]
      BY <1>2, <1>4, <2>2, FoundIs DEF pointers, hdr, rec
    <3> QED BY <1>2, <1>4, <2>2, <2>3, <3>1 DEF Found, InFlash, Intact, IsValidWorkSpace
  <2> QED BY <1>1, <1>4, <2>1, <2>2, <2>4 DEF RecordAt, EraseTarget, LastRecord
<1>5. CASE i = 3
  <2>1. WriteTarget
    BY <1>5, ProgramSteps, StepIs
  <2>2. /\ UNCHANGED <<work, spare, pointers>>
        /\ target' = [target EXCEPT ![args.ext] = spare.data]
    <3>1. i \in 2..3
      BY <1>5
    <3>2. Buffer.data = spare.data
      BY <3>1 DEF RecordAt
    <3> QED BY <2>1, <3>2 DEF WriteTarget
  <2>3. \A x \in Extent : x # LastRecord.body => target'[x] \in Data
    BY <1>1, <1>2, <1>5, <2>2, PendingIs DEF FtwTypes
  <2>4. Found("pending")' /\ rec' = rec
    <3>1. hdr' = hdr /\ rec' = rec /\ LastRecord = work.queue[hdr + 1]
      BY <1>2, <1>5, <2>2, FoundIs DEF pointers, hdr, rec
    <3> QED BY <1>2, <1>5, <2>2, <2>3, <3>1 DEF Found, InFlash, Intact, IsValidWorkSpace
  <2>5. target'[args.ext] = spare.data
    BY <1>2, <1>5, <2>2 DEF FtwTypes
  <2> QED BY <1>1, <1>5, <2>1, <2>2, <2>4, <2>5 DEF RecordAt, WriteTarget, LastRecord
<1>6. CASE i = 4
  <2>1. DestComplete
    BY <1>6, ProgramSteps, StepIs
  <2>2. ProgramUnit(rec, {DestinationComplete}, Erased) /\ UNCHANGED <<spare, target, pointers>>
    BY <2>1 DEF DestComplete
  <2>3. Whole'
    BY <1>1, <1>2, <1>6, <2>2, PendingIs DEF RecordAt, Whole
  <2> DEFINE u == Program(LastRecord, [flags |-> {DestinationComplete}, body |-> Erased])
  <2>4. u.flags = RecordFlags("written") /\ u.body = LastRecord.body
    BY <1>2, <1>6, PendingIs, ProgramUnitIs DEF RecordFlags
  <2>5. u.body \in RecordBodies("written")
    BY <1>2, <1>6, <2>4, PendingIs DEF RecordBodies
  <2>6. /\ {DestinationComplete} \in Flags /\ Erased \in Bodies /\ "written" \in Condition
        /\ HeaderAt("written") = HeaderAt("pending")
    BY DEF Flags, Bodies, DestinationComplete, Condition, HeaderAt
  <2> HIDE DEF u
  <2>7. Found("written")' /\ work'.queue[rec'] = u
    <3>1. u = Program(LastRecord, [flags |-> {DestinationComplete}, body |-> Erased])
      BY DEF u
    <3>2. Found("pending") /\ ~("written" = "pending")
      BY <1>2, <1>6
    <3>3. UNCHANGED pointers /\ ProgramUnit(rec, {DestinationComplete}, Erased)
      BY <2>2
    <3>4. u.flags = RecordFlags("written")
      BY <2>4
    <3> QED BY <2>3, <2>5, <2>6, <3>1, <3>2, <3>3, <3>4, RecordProgrammed
  <2> QED BY <1>1, <1>6, <2>1, <2>4, <2>7 DEF RecordAt, DestComplete
<1>7. CASE i = 5
  <2>1. WritesComplete /\ Found("written")
    BY <1>7, ProgramSteps, StepIs DEF RecordAt
  <2>2. IsLastRecordOfWrites(work.queue, hdr, rec)
    BY <2>1, FoundTests DEF Unused
  <2>3. ProgramUnit(hdr, {Complete}, Erased) /\ UNCHANGED <<spare, target, pointers>>
    BY <2>1, <2>2 DEF WritesComplete
  <2>4. hdr \in Position /\ hdr < QueueSize /\ InFlash(hdr, "written")
    BY <2>1, FoundIs DEF Found
  <2>5. /\ work'.queue[hdr] = Program(work.queue[hdr], [flags |-> {Complete}, body |-> Erased])
        /\ \A p \in Position : p # hdr => work'.queue[p] = work.queue[p]
        /\ IsValidWorkSpace(work')
    <3>1. {Complete} \in Flags /\ Erased \in Bodies
      BY DEF Flags, Bodies, Complete
    <3> QED BY <2>3, <2>4, <3>1, UnitProgrammed DEF FtwTypes, InFlash
  <2>6. work.queue \in Queue /\ Looks(work.queue, hdr, "written") /\ "written" \notin Unused
    BY <2>4, ImageParts DEF FtwTypes, InFlash, Unused
  <2>7. Looks(work'.queue, hdr + 2, "free")
    <3>1. "written" # "bare" => Looks(work'.queue, hdr + 2, "free")
      BY <2>4, <2>5, <2>6, HeaderCompleted
    <3> QED BY <3>1
  <2>8. hdr + 2 \in 1..Beyond
    BY <2>7, LastHeaderIs
  <2>9. Whole'
    BY <2>3, <2>4 DEF InFlash, Intact, Whole
  <2>10. InFlash(hdr + 2, "free")'
    <3>1. hdr' = hdr
      BY <2>3 DEF pointers, hdr
    <3> QED BY <2>5, <2>7, <2>9, <3>1 DEF InFlash, Intact
  <2>11. Settled'
    <3>1. hdr' = hdr
      BY <2>3 DEF pointers, hdr
    <3> QED BY <2>8, <2>10, <3>1 DEF Settled
  <2> QED BY <1>7, <2>1, <2>11 DEF WritesComplete
<1> QED BY <1>3, <1>4, <1>5, <1>6, <1>7

LEMMA RecordingStep ==
  ASSUME SingleWrites, FtwTypes, DriverStep, Recording
  PROVE  Recording' \/ Restarting' \/ Preparing'
<1>1. PICK k \in {RestartEnd, WriteEnd}, i \in 1..5 :
        /\ todo = Left(FtwWriteRecord, i, k) /\ RecordAt(i)
        /\ k = RestartEnd => args.op = "boot"
        /\ k = WriteEnd => args.op = "write"
  BY DEF Recording, RecordAt
<1>2. /\ FtwWriteRecord \in Seq(StepName) /\ k \in Seq(StepName) /\ Len(FtwWriteRecord) = 5
  BY ProgramTypes, ProgramSteps, RestTypes
<1>3. /\ Begins(FtwWriteRecord[i], Left(FtwWriteRecord, i + 1, k))
      /\ Left(FtwWriteRecord, i + 1, k) \in Seq(StepName)
      /\ i = 5 => Left(FtwWriteRecord, i + 1, k) = k
  <2>1. i \in 1..Len(FtwWriteRecord)
    BY <1>2
  <2>2. /\ Begins(FtwWriteRecord[i], Left(FtwWriteRecord, i + 1, k))
        /\ Left(FtwWriteRecord, i + 1, k) \in Seq(StepName)
        /\ i = Len(FtwWriteRecord) => Left(FtwWriteRecord, i + 1, k) = k
    BY <1>1, <1>2, <2>1, SequenceBegins
  <2> QED BY <1>2, <2>2
<1>4. Step(FtwWriteRecord[i]) /\ ~Step("restart")
  <2>1. FtwWriteRecord[i] # "restart"
    BY ProgramSteps
  <2> QED BY <1>3, <2>1 DEF Begins, Step
<1>5. args' = args
  BY <1>4, DriverKeeps
<1>6. (i < 5 => RecordAt(i + 1)') /\ (i = 5 => Settled') /\ Continue(<<>>)
  BY <1>1, <1>4, <1>5, RecordAtStep
<1>7. todo' = Left(FtwWriteRecord, i + 1, k)
  BY <1>3, <1>6, Continues
<1>8. CASE i < 5
  <2>1. i + 1 \in 1..5
    BY <1>8
  <2> QED BY <1>1, <1>5, <1>6, <1>7, <1>8, <2>1 DEF Recording, RecordAt
<1>9. CASE i = 5
  <2>1. todo' = k /\ Settled'
    BY <1>3, <1>6, <1>7, <1>9
  <2>2. CASE k = RestartEnd
    BY <1>1, <1>5, <2>1, <2>2 DEF Restarting, RestartEnd
  <2>3. CASE k = WriteEnd
    BY <1>1, <1>5, <2>1, <2>3 DEF Preparing
  <2> QED BY <2>2, <2>3
<1> QED BY <1>8, <1>9

\* A reclaim that keeps nothing, before its step i.
ReclaimAt(i) ==
  /\ hdr = 1 /\ rec = 2
  /\ i \in 1..4 => Replaceable
  /\ i \in 1..2 \cup 7..9 => Buffer.ws.queue = EmptyQueue
  /\ i \in 1..2 => ~Buffer.ws.valid
  /\ i \in 3..10 => spare.ws.queue = EmptyQueue
  /\ i \in 5..10 => Lost
  /\ i = 10 => work = Header
  /\ i > 10 => Fresh

LEMMA ReclaimAtStep ==
  ASSUME SingleWrites, FtwTypes, NEW i \in 1..12, ReclaimAt(i), DriverStep, Step(ReclaimSteps[i])
  PROVE  /\ i < 12 => ReclaimAt(i + 1)'
         /\ i = 12 => Fresh' /\ hdr' = 1 /\ rec' = 2
         /\ Continue(<<>>)
<1>1. hdr = 1 /\ rec = 2 /\ (UNCHANGED pointers => hdr' = 1 /\ rec' = 2)
  BY DEF ReclaimAt, pointers, hdr, rec
<1>2. CASE i = 1
  <2>1. EraseSpare /\ Replaceable /\ Buffer.ws.queue = EmptyQueue /\ ~Buffer.ws.valid
    BY <1>2, ReclaimIs, StepIs DEF ReclaimAt
  <2>2. /\ UNCHANGED <<work, target, pointers>> /\ spare' = ErasedBlock /\ Buffer' = Buffer
        /\ Continue(<<>>)
    BY <2>1 DEF EraseSpare, buffers
  <2>3. spare'.ws.queue = EmptyQueue
    BY <2>2, ConstantTypes
  <2>4. Replaceable'
    BY <2>1, <2>2, <2>3, ReplaceableKept
  <2> QED BY <1>1, <1>2, <2>1, <2>2, <2>4 DEF ReclaimAt
<1>3. CASE i = 2
  <2>1. WriteSpare /\ Replaceable /\ Buffer.ws.queue = EmptyQueue
    BY <1>3, ReclaimIs, StepIs DEF ReclaimAt
  <2>2. /\ UNCHANGED <<work, target, pointers>> /\ spare' = Buffer /\ Continue(<<>>)
    BY <2>1 DEF WriteSpare
  <2>3. spare'.ws.queue = EmptyQueue
    BY <2>1, <2>2
  <2>4. Replaceable'
    BY <2>1, <2>2, <2>3, ReplaceableKept
  <2> QED BY <1>1, <1>3, <2>2, <2>3, <2>4 DEF ReclaimAt
<1>4. CASE i = 3
  <2>1. SpareValid /\ Replaceable /\ spare.ws.queue = EmptyQueue
    BY <1>4, ReclaimIs, StepIs DEF ReclaimAt
  <2>2. UNCHANGED <<work, target, pointers>> /\ spare'.ws.queue = EmptyQueue /\ Continue(<<>>)
    BY <2>1, SpareValidKeeps DEF SpareValid
  <2>3. Replaceable'
    BY <2>1, <2>2, ReplaceableKept
  <2> QED BY <1>1, <1>4, <2>2, <2>3 DEF ReclaimAt
<1>5. CASE i = 4
  <2>1. WorkInvalid /\ Replaceable /\ spare.ws.queue = EmptyQueue
    BY <1>5, ReclaimIs, StepIs DEF ReclaimAt
  <2>2. Lost'
    BY <2>1, WorkInvalidLost
  <2>3. UNCHANGED <<spare, pointers>> /\ Continue(<<>>)
    BY <2>1 DEF WorkInvalid
  <2> QED BY <1>1, <1>5, <2>1, <2>2, <2>3 DEF ReclaimAt
<1>6. CASE i \in 5..10
  <2> DEFINE j == i - 4
  <2>1. j \in 1..6 /\ (i = 10 <=> j = 6) /\ i = j + 4 /\ i + 1 = (j + 1) + 4
    BY <1>6
  <2>2. ReclaimSteps[i] = FlushToWorkingBlock[j]
    <3>1. i \in {5, 6, 7, 8, 9, 10}
      BY <1>6
    <3> QED BY <3>1, ReclaimIs, ProgramSteps
  <2>3. FlushAt(j)
    BY <1>6 DEF ReclaimAt, FlushAt
  <2> HIDE DEF j
  <2>4. /\ j < 6 => FlushAt(j + 1)'
        /\ j = 6 => Fresh'
        /\ UNCHANGED pointers /\ Continue(<<>>)
    BY <2>1, <2>2, <2>3, FlushAtStep
  <2>5. CASE j < 6
    <3>1. /\ i + 1 \in 6..10 /\ (i + 1 \in 7..9 => j + 1 \in 3..5) /\ (i + 1 = 10 => j + 1 = 6)
      BY <2>1, <2>5
    <3>2. FlushAt(j + 1)' /\ i < 12
      BY <2>1, <2>4, <2>5
    <3>3. Lost' /\ spare'.ws.queue = EmptyQueue
      BY <3>2 DEF FlushAt
    <3>4. i + 1 \in 7..9 => Buffer'.ws.queue = EmptyQueue
      BY <3>1, <3>2 DEF FlushAt
    <3>5. i + 1 = 10 => work' = Header
      BY <3>1, <3>2 DEF FlushAt
    <3>6. i + 1 \notin 1..4 /\ i + 1 \notin 1..2 /\ ~(i + 1 > 10) /\ i + 1 \in 3..10 /\ i + 1 \in 5..10
      BY <3>1
    <3> QED BY <1>1, <2>1, <2>4, <2>5, <3>3, <3>4, <3>5, <3>6 DEF ReclaimAt
  <2>6. CASE j = 6
    <3>1. i = 10 /\ Fresh' /\ 11 > 10
      BY <2>1, <2>4, <2>6
    <3>2. 11 \notin 1..4 /\ 11 \notin 1..2 \cup 7..9 /\ 11 \notin 1..2 /\ 11 \notin 3..10 /\ 11 \notin 5..10
          /\ 11 # 10
      OBVIOUS
    <3>3. ReclaimAt(11)'
      BY <1>1, <2>4, <3>1, <3>2 DEF ReclaimAt
    <3> QED BY <2>4, <3>1, <3>3
  <2> QED BY <2>1, <2>5, <2>6
<1>7. CASE i = 11
  <2>1. EraseSpare /\ Fresh
    BY <1>7, ReclaimIs, StepIs DEF ReclaimAt
  <2>2. UNCHANGED <<work, target, pointers>> /\ spare'.ws.queue = EmptyQueue /\ Continue(<<>>)
    BY <2>1, ConstantTypes DEF EraseSpare
  <2>3. Fresh'
    BY <2>1, <2>2, LostKept
  <2> QED BY <1>1, <1>7, <2>2, <2>3 DEF ReclaimAt
<1>8. CASE i = 12
  <2>1. RestoreSpare /\ Fresh
    BY <1>8, ReclaimIs, StepIs DEF ReclaimAt
  <2>2. UNCHANGED <<work, target, pointers>> /\ Continue(<<>>)
    BY <2>1 DEF RestoreSpare
  <2>3. Fresh'
    BY <2>1, <2>2 DEF Fresh, Whole, IsValidWorkSpace
  <2> QED BY <1>1, <1>8, <2>2, <2>3
<1>9. i \in 5..10 \/ i = 1 \/ i = 2 \/ i = 3 \/ i = 4 \/ i = 11 \/ i = 12
  OBVIOUS
<1> QED BY <1>2, <1>3, <1>4, <1>5, <1>6, <1>7, <1>8, <1>9

LEMMA ReclaimingStep ==
  ASSUME SingleWrites, FtwTypes, DriverStep, Reclaiming
  PROVE  Reclaiming' \/ Rereading' \/ Booting'
<1>1. PICK k \in ReclaimThen, i \in 1..12 :
        /\ todo = Left(ReclaimSteps, i, k) /\ ReclaimAt(i)
        /\ k = <<"reread">> \o <<"write">> => args.op = "write"
        /\ k # <<"reread">> \o <<"write">> => args.op = "boot"
  BY DEF Reclaiming, ReclaimAt
<1>2. /\ ReclaimSteps \in Seq(StepName) /\ k \in Seq(StepName) /\ Len(ReclaimSteps) = 12
  BY ProgramTypes, ReclaimIs, ThenIs
<1>3. /\ Begins(ReclaimSteps[i], Left(ReclaimSteps, i + 1, k))
      /\ Left(ReclaimSteps, i + 1, k) \in Seq(StepName)
      /\ i = 12 => Left(ReclaimSteps, i + 1, k) = k
  <2>1. i \in 1..Len(ReclaimSteps)
    BY <1>2
  <2>2. /\ Begins(ReclaimSteps[i], Left(ReclaimSteps, i + 1, k))
        /\ Left(ReclaimSteps, i + 1, k) \in Seq(StepName)
        /\ i = Len(ReclaimSteps) => Left(ReclaimSteps, i + 1, k) = k
    BY <1>1, <1>2, <2>1, SequenceBegins
  <2> QED BY <1>2, <2>2
<1>4. Step(ReclaimSteps[i]) /\ args'.op = args.op
  BY <1>3, DriverKeeps DEF Begins, Step
<1>5. (i < 12 => ReclaimAt(i + 1)') /\ (i = 12 => Fresh' /\ hdr' = 1 /\ rec' = 2) /\ Continue(<<>>)
  BY <1>1, <1>4, ReclaimAtStep
<1>6. todo' = Left(ReclaimSteps, i + 1, k)
  BY <1>3, <1>5, Continues
<1>7. CASE i < 12
  <2>1. i + 1 \in 1..12
    BY <1>7
  <2> QED BY <1>1, <1>4, <1>5, <1>6, <1>7, <2>1 DEF Reclaiming, ReclaimAt
<1>8. CASE i = 12
  <2>1. todo' = k /\ Fresh' /\ hdr' = 1 /\ rec' = 2
    BY <1>3, <1>5, <1>6, <1>8
  <2>2. Found("free")'
    <3>1. Looks(EmptyQueue, 1, "free") /\ 1 < QueueSize
      BY LooksEmpty, SizeFacts
    <3> QED BY <2>1, <3>1 DEF Found, InFlash, Fresh, Intact
  <2>3. CASE k \in {Boot(3), Boot(6)}
    <3>1. args'.op = "boot" /\ "free" \in Condition
      BY <1>1, <1>4, <2>3, ThenIs DEF Condition
    <3> QED BY <2>1, <2>2, <2>3, <3>1, BootTo
  <2>4. CASE k = <<"reread">> \o Boot(2) \/ k = <<"reread">> \o <<"abort">>
    <3>1. args'.op = "boot"
      BY <1>1, <1>4, <2>4, ThenIs
    <3> QED BY <2>1, <2>4, <3>1 DEF Rereading
  <2>5. CASE k = <<"reread">> \o <<"write">>
    <3>1. args'.op = "write"
      BY <1>1, <1>4, <2>5
    <3> QED BY <2>1, <2>5, <3>1 DEF Rereading
  <2> QED BY <2>3, <2>4, <2>5 DEF ReclaimThen
<1> QED BY <1>7, <1>8

LEMMA RereadingStep ==
  ASSUME SingleWrites, FtwTypes, DriverStep, Rereading
  PROVE  Booting' \/ Restarting' \/ Preparing'
<1>1. PICK k \in {Boot(2), <<"abort">>, <<"write">>} :
        /\ todo = <<"reread">> \o k
        /\ args.op = (IF k = <<"write">> THEN "write" ELSE "boot")
  <2>1. Boot(2) # <<"write">> /\ <<"abort">> # <<"write">>
    <3>1. Head(Boot(2)) = "bootValid"
      BY BootBegins, ProgramSteps
    <3>2. Head(<<"write">>) = "write" /\ Head(<<"abort">>) = "abort"
      OBVIOUS
    <3> QED BY <3>1, <3>2
  <2> QED BY <2>1 DEF Rereading
<1>2. Begins("reread", k) /\ k \in Seq(StepName) /\ Reread /\ Fresh /\ args'.op = args.op
  <2>1. "reread" \in StepName /\ k \in Seq(StepName)
    <3>1. "reread" \in StepName
      BY DEF StepName
    <3>2. Boot(2) \in Seq(StepName)
      BY BootBegins
    <3>3. <<"abort">> \in Seq(StepName) /\ <<"write">> \in Seq(StepName)
      BY RestTypes
    <3> QED BY <3>1, <3>2, <3>3
  <2>2. Begins("reread", k)
    BY <1>1, <2>1, LiteralBegins
  <2> QED BY <2>1, <2>2, StepIs, DriverKeeps DEF Begins, Step, Rereading
<1>3. InFlash(1, "free") /\ 1 \in Position /\ 1 < QueueSize /\ "free" \in Condition
  BY <1>2, FreshIs, SizeFacts DEF Condition
<1>4. PointInto(work.queue) /\ Continue(<<>>) /\ UNCHANGED flash
  <2>1. ~GetLastWriteHeader(work.queue).full
    BY <1>3, LastHeaderIs DEF InFlash
  <2> QED BY <1>2, <2>1 DEF Reread
<1>5. todo' = k
  BY <1>2, <1>4, Continues
<1>6. Found("free")'
  <2>1. hdr' = 1 /\ rec' = 1 + 1
    BY <1>3, <1>4, PointedAt DEF InFlash
  <2>2. InFlash(1, "free")'
    BY <1>3, <1>4, FlashKept DEF flash
  <2> QED BY <1>3, <2>1, <2>2 DEF Found, InFlash, Intact
<1>7. CASE k = Boot(2)
  <2>1. k # <<"write">>
    <3>1. Head(Boot(2)) = "bootValid"
      BY BootBegins, ProgramSteps
    <3>2. Head(<<"write">>) = "write"
      OBVIOUS
    <3> QED BY <1>7, <3>1, <3>2
  <2> QED BY <1>1, <1>2, <1>3, <1>5, <1>6, <1>7, <2>1, BootTo
<1>8. CASE k = <<"abort">>
  BY <1>1, <1>2, <1>5, <1>6, <1>8 DEF Restarting
<1>9. CASE k = <<"write">>
  BY <1>1, <1>2, <1>5, <1>6, <1>9 DEF Preparing
<1> QED BY <1>7, <1>8, <1>9

\* What a write does before it has a record.
LEMMA PreparingStep ==
  ASSUME SingleWrites, FtwTypes, DriverStep, Preparing
  PROVE  Preparing' \/ Reclaiming' \/ Sparing' \/ Idle'
<1>1. args' = args /\ args.op = "write" /\ args.n = 1 /\ "free" \in Condition
  <2>1. ~Step("restart")
    <3>1. WriteEnd = <<"eraseSpare", "restoreSpare">>
      BY DEF WriteEnd
    <3> QED BY <3>1 DEF Preparing, Step
  <2> QED BY <2>1, DriverKeeps DEF Preparing, SingleWrites, FtwTypes, Call, Condition
<1>2. \A x : Begins(x, <<>>) \/ (\E k : Begins(x, k)) => Step(x)
  BY DEF Begins, Step
<1>3. /\ "refresh" \in StepName /\ "write" \in StepName /\ "allocate" \in StepName
      /\ "allocateHeader" \in StepName /\ "allocateWrites" \in StepName /\ "checks" \in StepName
      /\ "eraseSpare" \in StepName /\ "restoreSpare" \in StepName
  BY DEF StepName
<1>4. CASE todo = <<"refresh", "write">> /\ Settled
  <2>1. Begins("refresh", <<"write">>)
    BY <1>3, <1>4, EndsAre, RestTypes, LiteralBegins
  <2>2. Refresh
    BY <1>2, <2>1, StepIs
  <2>3. PICK h \in 1..Beyond : InFlash(h, "free")
    BY <1>4 DEF Settled
  <2>4. (todo' = <<"write">> /\ Found("free")') \/ Reclaims(<<"reread">> \o <<"write">>)'
    BY <1>1, <2>1, <2>2, <2>3, RestTypes, Refreshed
  <2>5. Reclaims(<<"reread">> \o <<"write">>)' => Reclaiming'
    BY <1>1, ReclaimingBegins DEF ReclaimThen
  <2> QED BY <1>1, <2>4, <2>5 DEF Preparing
<1>5. CASE todo = <<"write">> /\ Found("free")
  <2>1. Begins("write", <<>>)
    BY <1>3, <1>5, EndsAre, StepLiterals, LiteralBegins
  <2>2. Write /\ LastHeader = ErasedUnit
    BY <1>2, <1>5, <2>1, StepIs, FoundIs, EmptyFacts
  <2>3. Continue(<<"refresh", "allocate", "checks">>) /\ UNCHANGED <<flash, pointers>>
    BY <2>2 DEF Write, SingleWrites
  <2>4. todo' = <<"refresh", "allocate", "checks">>
    BY <2>1, <2>3, StepLiterals, ConcatEmptySeq DEF Begins, Continue
  <2>5. Found("free")'
    BY <1>5, <2>3, FlashKept DEF flash
  <2> QED BY <1>1, <2>4, <2>5 DEF Preparing
<1>6. CASE todo = <<"refresh", "allocate", "checks">> /\ Found("free")
  <2>1. Begins("refresh", <<"allocate", "checks">>)
    BY <1>3, <1>6, EndsAre, RestTypes, LiteralBegins
  <2>2. Refresh
    BY <1>2, <2>1, StepIs
  <2>3. todo' = <<"allocate", "checks">> /\ Found("free")'
    BY <1>1, <1>6, <2>1, <2>2, RestTypes, Refreshed
  <2> QED BY <1>1, <2>3 DEF Preparing
<1>7. CASE todo = <<"allocate", "checks">> /\ Found("free")
  <2>1. Begins("allocate", <<"checks">>)
    BY <1>3, <1>7, EndsAre, RestTypes, LiteralBegins
  <2>2. Allocate /\ LastHeader.flags = {} /\ hdr \in Nat /\ hdr < QueueSize
    BY <1>2, <1>7, <2>1, StepIs, FoundIs, EmptyFacts DEF Found
  <2>3. hdr + args.n <= QueueSize /\ ~(1 + args.n > QueueSize)
    BY <1>1, <2>2, SizeFacts
  <2>4. Offset' = hdr /\ Continue(AllocateSteps) /\ UNCHANGED <<flash, pointers>>
    BY <2>2, <2>3 DEF Allocate
  <2>5. todo' = <<"allocateHeader", "allocateWrites", "checks">>
    <3>1. /\ <<"allocateHeader">> \in Seq(StepName) /\ <<"allocateWrites">> \in Seq(StepName)
          /\ <<"checks">> \in Seq(StepName)
      BY DEF StepName
    <3>2. (<<"allocateHeader">> \o <<"allocateWrites">>) \o <<"checks">>
            = <<"allocateHeader">> \o (<<"allocateWrites">> \o <<"checks">>)
      BY <3>1, ConcatAssociative
    <3>3. AllocateSteps = <<"allocateHeader">> \o <<"allocateWrites">>
      BY DEF AllocateSteps
    <3>4. todo' = AllocateSteps \o <<"checks">>
      BY <2>1, <2>4 DEF Begins, Continue
    <3> QED BY <3>2, <3>3, <3>4, EndsAre, Zenon
  <2>6. Found("free")' /\ Offset' = hdr'
    BY <1>7, <2>4, FlashKept DEF flash, pointers, hdr
  <2> QED BY <1>1, <2>5, <2>6 DEF Preparing
<1>8. CASE todo = <<"allocateHeader", "allocateWrites", "checks">> /\ Found("free") /\ Offset = hdr
  <2>1. Begins("allocateHeader", <<"allocateWrites", "checks">>)
    BY <1>3, <1>8, EndsAre, RestTypes, LiteralBegins
  <2>2. AllocateHeader /\ LastHeader = ErasedUnit /\ Whole
    BY <1>2, <1>8, <2>1, StepIs, FoundIs, EmptyFacts DEF InFlash, Intact
  <2>3. /\ ProgramUnit(hdr, {HeaderAllocated}, 1) /\ UNCHANGED <<target, pointers, Offset>>
        /\ Continue(<<>>)
    BY <1>1, <1>8, <2>2 DEF AllocateHeader
  <2>4. Program(LastHeader, [flags |-> {HeaderAllocated}, body |-> 1]) = HeaderAt("headed")
    BY <2>2 DEF Program, ErasedUnit, HeaderAt
  <2>5. /\ {HeaderAllocated} \in Flags /\ 1 \in Bodies /\ "headed" \in Condition
        /\ RecordFlags("headed") = RecordFlags("free") /\ RecordBodies("headed") = RecordBodies("free")
    BY DEF Flags, Bodies, HeaderAllocated, Condition, RecordFlags, RecordBodies, SingleWrites
  <2>6. Whole'
    BY <2>2, <2>3 DEF Whole
  <2>7. Found("headed")' /\ hdr' = hdr
    BY <1>8, <2>3, <2>4, <2>5, <2>6, HeaderProgrammed
  <2>8. todo' = <<"allocateWrites", "checks">>
    BY <2>1, <2>3, RestTypes, Continues
  <2> QED BY <1>1, <1>8, <2>3, <2>7, <2>8 DEF Preparing
<1>9. CASE todo = <<"allocateWrites", "checks">> /\ Found("headed") /\ Offset = hdr
  <2>1. Begins("allocateWrites", <<"checks">>)
    BY <1>3, <1>9, EndsAre, RestTypes, LiteralBegins
  <2>2. AllocateWrites /\ LastHeader = HeaderAt("headed") /\ Whole
    BY <1>2, <1>9, <2>1, StepIs, FoundIs DEF InFlash, Intact
  <2>3. ProgramUnit(hdr, {WritesAllocated}, Erased) /\ UNCHANGED <<target, pointers>> /\ Continue(<<>>)
    BY <1>9, <2>2 DEF AllocateWrites
  <2>4. Program(LastHeader, [flags |-> {WritesAllocated}, body |-> Erased]) = HeaderAt("open")
    <3>1. Erased # 1
      BY WriteSize
    <3> QED BY <2>2, <3>1 DEF Program, HeaderAt
  <2>5. /\ {WritesAllocated} \in Flags /\ Erased \in Bodies /\ "open" \in Condition
        /\ RecordFlags("open") = RecordFlags("headed") /\ RecordBodies("open") = RecordBodies("headed")
    BY DEF Flags, Bodies, WritesAllocated, Condition, RecordFlags, RecordBodies
  <2>6. Whole'
    BY <2>2, <2>3 DEF Whole
  <2>7. Found("open")'
    BY <1>9, <2>3, <2>4, <2>5, <2>6, HeaderProgrammed
  <2>8. todo' = <<"checks">>
    BY <2>1, <2>3, RestTypes, Continues
  <2> QED BY <1>1, <2>7, <2>8 DEF Preparing
<1>10. CASE todo = <<"checks">> /\ Found("open")
  <2>1. Begins("checks", <<>>)
    BY <1>3, <1>10, EndsAre, StepLiterals, LiteralBegins
  <2>2. /\ Checks /\ LastHeader = HeaderAt("open") /\ LastRecord.flags = {} /\ rec = hdr + 1
        /\ hdr \in Nat
    BY <1>2, <1>10, <2>1, StepIs, FoundIs DEF RecordFlags
  <2>3. LastHeader.body = 1 /\ Complete \notin LastHeader.flags
    BY <2>2 DEF HeaderAt, Complete, HeaderAllocated, WritesAllocated
  <2>4. ~(rec > hdr + LastHeader.body)
    BY <2>2, <2>3
  <2>5. /\ Continue(WriteSteps \o FtwWriteRecord \o <<"eraseSpare", "restoreSpare">>)
        /\ UNCHANGED <<flash, pointers>>
    BY <2>2, <2>3, <2>4 DEF Checks
  <2>6. todo' = Left(WriteSteps, 1, FtwWriteRecord \o WriteEnd)
    <3>1. FtwWriteRecord \o WriteEnd \in Seq(StepName)
      BY ProgramTypes, RestTypes, ConcatProperties
    <3>2. (WriteSteps \o FtwWriteRecord) \o WriteEnd = WriteSteps \o (FtwWriteRecord \o WriteEnd)
      <4>1. /\ WriteSteps \in Seq(StepName) /\ FtwWriteRecord \in Seq(StepName)
            /\ WriteEnd \in Seq(StepName)
        BY ProgramTypes, RestTypes
      <4> QED BY <4>1, ConcatAssociative
    <3>3. WriteSteps \o (FtwWriteRecord \o WriteEnd) \in Seq(StepName)
      BY <3>1, ProgramTypes, ConcatProperties
    <3>4. Continue((WriteSteps \o FtwWriteRecord) \o WriteEnd)
      BY <2>5 DEF WriteEnd
    <3>5. todo' = WriteSteps \o (FtwWriteRecord \o WriteEnd)
      BY <2>1, <3>2, <3>3, <3>4, ConcatEmptySeq DEF Begins, Continue
    <3> QED BY <3>1, <3>5, ProgramTypes, LeftEnds
  <2>7. Found("open")'
    BY <1>10, <2>5, FlashKept DEF flash
  <2>8. 1 \in 1..4 /\ ~(1 > 1) /\ 1 \notin 2..3 /\ 1 # 4
    OBVIOUS
  <2> QED BY <1>1, <2>6, <2>7, <2>8 DEF Sparing
<1>11. CASE todo = WriteEnd /\ Settled
  <2>1. Begins("eraseSpare", <<"restoreSpare">>)
    BY <1>3, <1>11, EndsAre, RestTypes, LiteralBegins
  <2>2. todo' = <<"restoreSpare">> /\ Settled'
    BY <1>11, <2>1, RestTypes, EraseSpareSettled
  <2> QED BY <1>1, <2>2 DEF Preparing
<1>12. CASE todo = <<"restoreSpare">> /\ Settled
  <2>1. Begins("restoreSpare", <<>>)
    BY <1>3, <1>12, EndsAre, StepLiterals, LiteralBegins
  <2>2. RestoreSpare
    BY <1>2, <2>1, StepIs
  <2>3. todo' = <<>> /\ Settled'
    BY <1>12, <2>1, <2>2, StepLiterals, Continues, SettledKept DEF RestoreSpare
  <2> QED BY <2>3 DEF Idle
<1> QED BY <1>4, <1>5, <1>6, <1>7, <1>8, <1>9, <1>10, <1>11, <1>12 DEF Preparing

\* FtwWrite up to the end of FtwFvbWrite to the spare block, before its step i.
SpareAt(i) ==
  /\ Found(IF i = 1 THEN "open" ELSE "recorded")
  /\ i > 1 => args.ext = work.queue[rec].body
  /\ i \in 2..3 => Buffer.data = args.data
  /\ i = 4 => spare.data = args.data

LEMMA SpareAtStep ==
  ASSUME SingleWrites, FtwTypes, args.ext \in Extent, NEW i \in 1..4, SpareAt(i), DriverStep,
         args' = args, Step(WriteSteps[i])
  PROVE  /\ i < 4 => SpareAt(i + 1)'
         /\ i = 4 => RecordAt(1)'
         /\ Continue(<<>>)
<1>1. /\ i = 1 => Found("open")
      /\ i # 1 => Found("recorded") /\ args.ext = LastRecord.body
  BY DEF SpareAt, LastRecord
<1>2. Whole
  BY <1>1, FoundIs DEF InFlash, Intact
<1>3. args.data \in Data
  BY DEF FtwTypes, Call
<1>4. CASE i = 1
  <2>1. Record /\ LastRecord.flags = {} /\ LastRecord.body = Erased
    BY <1>1, <1>4, ProgramSteps, StepIs, FoundIs DEF RecordFlags, RecordBodies
  <2>2. /\ ProgramUnit(rec, {}, args.ext) /\ UNCHANGED <<target, pointers>>
        /\ Buffer' = [data |-> args.data, ws |-> Blank] /\ Continue(<<>>)
    BY <2>1 DEF Record
  <2> DEFINE u == Program(LastRecord, [flags |-> {}, body |-> args.ext])
  <2>3. u.flags = RecordFlags("recorded") /\ u.body = args.ext /\ args.ext \in RecordBodies("recorded")
    BY <2>1, ProgramUnitIs DEF RecordFlags, RecordBodies
  <2>4. /\ {} \in Flags /\ args.ext \in Bodies /\ "recorded" \in Condition
        /\ HeaderAt("recorded") = HeaderAt("open")
    BY DEF Flags, Bodies, Condition, HeaderAt
  <2>5. Whole'
    BY <1>2, <2>2 DEF Whole
  <2>6. Found("recorded")' /\ work'.queue[rec'] = u
    <3> HIDE DEF u
    <3>1. u = Program(LastRecord, [flags |-> {}, body |-> args.ext]) /\ "recorded" # "pending"
      BY DEF u
    <3> QED BY <1>1, <1>4, <2>2, <2>3, <2>4, <2>5, <3>1, RecordProgrammed
  <2>7. Buffer'.data = args.data
    BY <2>2
  <2> QED BY <1>4, <2>2, <2>3, <2>6, <2>7 DEF SpareAt
<1>5. CASE i = 2
  <2>1. EraseSpare
    BY <1>5, ProgramSteps, StepIs
  <2>2. UNCHANGED <<work, target, pointers>> /\ Buffer' = Buffer /\ Continue(<<>>)
    BY <2>1 DEF EraseSpare, buffers
  <2>3. Found("recorded")' /\ rec' = rec
    BY <1>1, <1>5, <2>2, FlashKept DEF pointers, rec
  <2>4. Buffer'.data = args.data
    <3>1. i \in 2..3
      BY <1>5
    <3> QED BY <2>2, <3>1 DEF SpareAt
  <2> QED BY <1>1, <1>5, <2>2, <2>3, <2>4 DEF SpareAt, LastRecord
<1>6. CASE i = 3
  <2>1. WriteSpare
    BY <1>6, ProgramSteps, StepIs
  <2>2. UNCHANGED <<work, target, pointers>> /\ spare' = Buffer /\ Continue(<<>>)
    BY <2>1 DEF WriteSpare
  <2>3. Found("recorded")' /\ rec' = rec
    BY <1>1, <1>6, <2>2, FlashKept DEF pointers, rec
  <2>4. spare'.data = args.data
    <3>1. i \in 2..3
      BY <1>6
    <3> QED BY <2>2, <3>1 DEF SpareAt
  <2> QED BY <1>1, <1>6, <2>2, <2>3, <2>4 DEF SpareAt, LastRecord
<1>7. CASE i = 4
  <2>1. SetSpareComplete /\ LastRecord.flags = {} /\ LastRecord.body = args.ext
    BY <1>1, <1>7, ProgramSteps, StepIs, FoundIs DEF RecordFlags
  <2>2. ProgramUnit(rec, {SpareComplete}, Erased) /\ UNCHANGED <<spare, target, pointers>> /\ Continue(<<>>)
    BY <2>1 DEF SetSpareComplete
  <2> DEFINE u == Program(LastRecord, [flags |-> {SpareComplete}, body |-> Erased])
  <2>3. u.flags = RecordFlags("pending") /\ u.body = args.ext /\ args.ext \in RecordBodies("pending")
    BY <2>1, ProgramUnitIs DEF RecordFlags, RecordBodies
  <2>4. /\ {SpareComplete} \in Flags /\ Erased \in Bodies /\ "pending" \in Condition
        /\ HeaderAt("pending") = HeaderAt("recorded")
    BY DEF Flags, Bodies, SpareComplete, Condition, HeaderAt
  <2>5. Whole' /\ spare'.data \in Data
    BY <1>2, <1>3, <1>7, <2>2 DEF Whole, SpareAt
  <2>6. Found("pending")' /\ work'.queue[rec'] = u
    <3> HIDE DEF u
    <3>1. u = Program(LastRecord, [flags |-> {SpareComplete}, body |-> Erased])
      BY DEF u
    <3>2. Found("recorded") /\ u.body \in RecordBodies("pending")
      BY <1>1, <1>7, <2>3
    <3> QED BY <2>2, <2>3, <2>4, <2>5, <3>1, <3>2, RecordProgrammed
  <2>7. 1 # 5 /\ 1 \notin 2..3 /\ 1 # 4
    OBVIOUS
  <2> QED BY <1>7, <2>2, <2>3, <2>6, <2>7 DEF RecordAt
<1> QED BY <1>4, <1>5, <1>6, <1>7

LEMMA SparingStep ==
  ASSUME SingleWrites, FtwTypes, args.ext \in Extent, DriverStep, Sparing
  PROVE  Sparing' \/ Recording'
<1> DEFINE k == FtwWriteRecord \o WriteEnd
<1>1. PICK i \in 1..4 : todo = Left(WriteSteps, i, k) /\ SpareAt(i)
  BY DEF Sparing, SpareAt
<1>2. WriteSteps \in Seq(StepName) /\ k \in Seq(StepName) /\ Len(WriteSteps) = 4 /\ args.op = "write"
  <2>1. FtwWriteRecord \in Seq(StepName) /\ WriteEnd \in Seq(StepName)
    BY ProgramTypes, RestTypes
  <2>2. k \in Seq(StepName)
    BY <2>1, ConcatProperties
  <2> QED BY <2>2, ProgramTypes, ProgramSteps DEF Sparing
<1>3. k = Left(FtwWriteRecord, 1, WriteEnd)
  <2>1. FtwWriteRecord \in Seq(StepName) /\ WriteEnd \in Seq(StepName)
    BY ProgramTypes, RestTypes
  <2> QED BY <2>1, LeftEnds
<1> HIDE DEF k
<1>4. /\ Begins(WriteSteps[i], Left(WriteSteps, i + 1, k))
      /\ Left(WriteSteps, i + 1, k) \in Seq(StepName)
      /\ i = 4 => Left(WriteSteps, i + 1, k) = k
  <2>1. i \in 1..Len(WriteSteps)
    BY <1>2
  <2>2. /\ Begins(WriteSteps[i], Left(WriteSteps, i + 1, k))
        /\ Left(WriteSteps, i + 1, k) \in Seq(StepName)
        /\ i = Len(WriteSteps) => Left(WriteSteps, i + 1, k) = k
    BY <1>1, <1>2, <2>1, SequenceBegins
  <2> QED BY <1>2, <2>2
<1>5. Step(WriteSteps[i]) /\ ~Step("restart")
  <2>1. WriteSteps[i] # "restart"
    BY ProgramSteps
  <2> QED BY <1>4, <2>1 DEF Begins, Step
<1>6. args' = args
  BY <1>5, DriverKeeps
<1>7. (i < 4 => SpareAt(i + 1)') /\ (i = 4 => RecordAt(1)') /\ Continue(<<>>)
  BY <1>1, <1>5, <1>6, SpareAtStep
<1>8. todo' = Left(WriteSteps, i + 1, k)
  BY <1>4, <1>7, Continues
<1>9. CASE i < 4
  <2>1. i + 1 \in 1..4
    BY <1>9
  <2> QED BY <1>2, <1>6, <1>7, <1>8, <1>9, <2>1 DEF Sparing, SpareAt, k
<1>10. CASE i = 4
  <2>1. todo' = Left(FtwWriteRecord, 1, WriteEnd) /\ RecordAt(1)'
    BY <1>3, <1>4, <1>7, <1>8, <1>10
  <2>2. RestartEnd # WriteEnd
    BY EndsDiffer
  <2>3. 1 \in 1..5
    OBVIOUS
  <2> QED BY <1>2, <1>6, <2>1, <2>2, <2>3 DEF Recording, RecordAt
<1> QED BY <1>9, <1>10

-----------------------------------------------------------------------------
(* What each situation says of the step that comes next.                    *)

Steady ==
  /\ todo # <<>> /\ Recoverable
  /\ Step("eraseWork") => Lost
  /\ Step("allocateHeader") => Found("free") /\ Offset = hdr
  /\ Step("record") => Found("open")
  /\ Step("restart") => Found("pending")
  /\ Head(todo) \in RecordStep => rec \in Position

LEMMA Recovers ==
  ASSUME SingleWrites, FtwTypes
  PROVE  /\ \A c : Found(c) => Recoverable /\ rec \in Position
         /\ \A c : Closed(c) => Recoverable /\ rec \in Position
         /\ (Settled => Recoverable) /\ (Replaceable => Recoverable) /\ (Lost => Recoverable)
         /\ (Fresh => Recoverable)
<1>1. "free" \in Condition /\ Unused \subseteq Condition
  BY DEF Condition, Unused
<1>2. \A h, c : InFlash(h, c) => h \in 1..Beyond /\ c \in Condition
  BY LastHeaderIs DEF InFlash, Looks
<1>3. \A h, c : InFlash(h, c) => Recoverable
  BY <1>2 DEF Recoverable
<1>4. hdr < QueueSize /\ rec = hdr + 1 => rec \in Position
  BY SizeFacts DEF FtwTypes, hdr
<1>5. (\A c : Found(c) => Recoverable /\ rec \in Position)
      /\ (\A c : Closed(c) => Recoverable /\ rec \in Position)
  BY <1>3, <1>4 DEF Found, Closed
<1>6. (Settled => Recoverable) /\ (Replaceable => Recoverable) /\ (Lost => Recoverable)
  BY <1>1 DEF Settled, Replaceable, Recoverable
<1>7. Fresh => Recoverable
  BY <1>3, FreshIs
<1> QED BY <1>5, <1>6, <1>7

LEMMA SteadyStep ==
  ASSUME NEW x, Step(x), Recoverable, x \in RecordStep => rec \in Position,
         x \notin {"eraseWork", "allocateHeader", "record", "restart"}
  PROVE  Steady
BY DEF Steady, Step

LEMMA SteadyBoot ==
  ASSUME SingleWrites, FtwTypes, Booting
  PROVE  Steady
<1>1. PICK i \in 1..6 : todo = Boot(i) /\ Recoverable /\ (i > 2 => rec \in Position)
  <2>1. CASE todo = Boot(1) /\ Recoverable
    BY <2>1
  <2>2. CASE todo = Boot(2) /\ (Lost \/ \E c \in Condition : Found(c))
    BY <2>2, Recovers
  <2>3. CASE \E i \in 3..6 : todo = Boot(i) /\ \E c : Found(c) \/ Closed(c)
    BY <2>3, Recovers
  <2> QED BY <2>1, <2>2, <2>3 DEF Booting
<1>2. Step(InitFtwProtocol[i])
  BY <1>1, BootBegins DEF Begins, Step
<1>3. /\ i <= 2 => InitFtwProtocol[i] \notin RecordStep
      /\ InitFtwProtocol[i] \notin {"eraseWork", "allocateHeader", "record", "restart"}
  BY ProgramSteps DEF RecordStep
<1> QED BY <1>1, <1>2, <1>3, SteadyStep

LEMMA SteadyAbort ==
  ASSUME SingleWrites, FtwTypes, Aborting
  PROVE  Steady
<1>1. PICK j \in 1..2, k \in {Boot(4), Boot(5)} : todo = Left(FtwAbort, j, k) /\ \E c : Found(c)
  BY DEF Aborting
<1>2. k \in Seq(StepName) /\ j \in 1..Len(FtwAbort)
  <2>1. Boot(4) \in Seq(StepName) /\ Boot(5) \in Seq(StepName)
    BY BootBegins
  <2>2. Len(FtwAbort) = 2
    BY ProgramSteps
  <2> QED BY <2>1, <2>2
<1>3. Step(FtwAbort[j])
  BY <1>1, <1>2, ProgramTypes, LeftBegins DEF Begins, Step
<1>4. FtwAbort[j] \notin {"eraseWork", "allocateHeader", "record", "restart"}
  BY ProgramSteps
<1> QED BY <1>1, <1>3, <1>4, Recovers, SteadyStep

LEMMA SteadyFlush ==
  ASSUME SingleWrites, FtwTypes, Flushing
  PROVE  Steady
<1>1. ASSUME NEW i \in 1..6, todo = Left(FlushToWorkingBlock, i, FlushThen), Lost PROVE Steady
  <2>1. FlushThen \in Seq(StepName) /\ i \in 1..Len(FlushToWorkingBlock)
    BY FlushThenIs, ProgramSteps
  <2>2. Step(FlushToWorkingBlock[i])
    BY <1>1, <2>1, ProgramTypes, LeftBegins DEF Begins, Step
  <2>3. /\ FlushToWorkingBlock[i] \notin {"allocateHeader", "record", "restart"}
        /\ FlushToWorkingBlock[i] \notin RecordStep
    BY ProgramSteps DEF RecordStep
  <2> QED BY <1>1, <2>2, <2>3, Recovers DEF Steady, Step
<1>2. ASSUME Fresh, NEW x \in {"refresh", "abort"}, NEW k \in Seq(StepName), todo = <<x>> \o k PROVE Steady
  <2>1. x \in StepName
    BY DEF StepName
  <2>2. Step(x)
    BY <1>2, <2>1, LiteralBegins DEF Begins, Step
  <2>3. x \notin RecordStep
    BY DEF RecordStep
  <2> QED BY <1>2, <2>2, <2>3, Recovers, SteadyStep
<1>3. Boot(3) \in Seq(StepName)
  BY BootBegins
<1> QED BY <1>1, <1>2, <1>3, FlushThenIs DEF Flushing

LEMMA SteadyRestart ==
  ASSUME SingleWrites, FtwTypes, Restarting
  PROVE  Steady
<1>1. CASE todo = <<"restart">> \o FtwAbort /\ Found("pending")
  <2>1. "restart" \in StepName
    BY DEF StepName
  <2>2. Step("restart")
    BY <1>1, <2>1, ProgramTypes, LiteralBegins DEF Begins, Step
  <2> QED BY <1>1, <2>2, Recovers DEF Steady, Step
<1>2. ASSUME NEW x \in {"refresh", "abort", "eraseSpare"}, NEW k \in Seq(StepName),
             todo = <<x>> \o k, Recoverable PROVE Steady
  <2>1. x \in StepName
    BY DEF StepName
  <2>2. Step(x)
    BY <1>2, <2>1, LiteralBegins DEF Begins, Step
  <2>3. x \notin RecordStep
    BY DEF RecordStep
  <2> QED BY <1>2, <2>2, <2>3, SteadyStep
<1>3. /\ <<"restart">> \o FtwAbort \in Seq(StepName) /\ FtwAbort \in Seq(StepName)
      /\ <<"abort">> \in Seq(StepName) /\ <<>> \in Seq(StepName)
  BY RestTypes, ProgramTypes, StepLiterals
<1>4. CASE todo = <<"refresh", "restart">> \o FtwAbort /\ Found("pending")
  BY <1>2, <1>3, <1>4, EndsAre, Recovers
<1>5. CASE todo = <<"eraseSpare">> \o FtwAbort /\ Settled
  BY <1>2, <1>3, <1>5, Recovers
<1>6. CASE todo = FtwAbort /\ Settled
  BY <1>2, <1>3, <1>6, EndsAre, Recovers
<1>7. CASE todo = <<"abort">> /\ Found("free")
  BY <1>2, <1>3, <1>7, EndsAre, Recovers
<1> QED BY <1>1, <1>4, <1>5, <1>6, <1>7 DEF Restarting

LEMMA SteadyRecord ==
  ASSUME SingleWrites, FtwTypes, Recording
  PROVE  Steady
<1>1. PICK k \in {RestartEnd, WriteEnd}, i \in 1..5 :
        todo = Left(FtwWriteRecord, i, k) /\ \E c : Found(c)
  BY DEF Recording
<1>2. k \in Seq(StepName) /\ i \in 1..Len(FtwWriteRecord)
  BY RestTypes, ProgramSteps
<1>3. Step(FtwWriteRecord[i])
  BY <1>1, <1>2, ProgramTypes, LeftBegins DEF Begins, Step
<1>4. FtwWriteRecord[i] \notin {"eraseWork", "allocateHeader", "record", "restart"}
  BY ProgramSteps
<1> QED BY <1>1, <1>3, <1>4, Recovers, SteadyStep

LEMMA SteadyReclaim ==
  ASSUME SingleWrites, FtwTypes, Reclaiming
  PROVE  Steady
<1>1. PICK k \in ReclaimThen, i \in 1..12 : todo = Left(ReclaimSteps, i, k) /\ ReclaimAt(i)
  BY DEF Reclaiming, ReclaimAt
<1>2. k \in Seq(StepName) /\ i \in 1..Len(ReclaimSteps)
  BY ThenIs, ReclaimIs
<1>3. Step(ReclaimSteps[i])
  BY <1>1, <1>2, ProgramTypes, LeftBegins DEF Begins, Step
<1>4. /\ ReclaimSteps[i] \notin {"allocateHeader", "record", "restart"}
      /\ ReclaimSteps[i] \notin RecordStep /\ (ReclaimSteps[i] = "eraseWork" => i = 8)
  <2>1. i \in {1, 2, 3, 4, 5, 6, 7, 8, 9, 10, 11, 12}
    OBVIOUS
  <2> QED BY <2>1, ReclaimIs DEF RecordStep
<1>5. (i = 8 => Lost) /\ Recoverable
  <2>1. i \in 1..4 \/ i \in 5..10 \/ i > 10
    OBVIOUS
  <2> QED BY <1>1, <2>1, Recovers DEF ReclaimAt
<1> QED BY <1>3, <1>4, <1>5 DEF Steady, Step

LEMMA SteadyReread ==
  ASSUME SingleWrites, FtwTypes, Rereading
  PROVE  Steady
<1>1. PICK k \in {Boot(2), <<"abort">>, <<"write">>} : todo = <<"reread">> \o k
  BY DEF Rereading
<1>2. Boot(2) \in Seq(StepName) /\ <<"abort">> \in Seq(StepName) /\ <<"write">> \in Seq(StepName)
  BY BootBegins, RestTypes
<1>3. "reread" \in StepName /\ "reread" \notin RecordStep
  BY DEF StepName, RecordStep
<1>4. Step("reread")
  BY <1>1, <1>2, <1>3, LiteralBegins DEF Begins, Step
<1> QED BY <1>3, <1>4, Recovers, SteadyStep DEF Rereading

LEMMA SteadyPrepare ==
  ASSUME SingleWrites, FtwTypes, Preparing
  PROVE  Steady
<1>1. \A x \in StepName, k \in Seq(StepName) : todo = <<x>> \o k => Step(x)
  BY LiteralBegins DEF Begins, Step
<1>2. /\ <<"write">> \in Seq(StepName) /\ <<>> \in Seq(StepName) /\ <<"restoreSpare">> \in Seq(StepName)
      /\ <<"allocate", "checks">> \in Seq(StepName) /\ <<"checks">> \in Seq(StepName)
      /\ <<"allocateWrites", "checks">> \in Seq(StepName)
  BY RestTypes, StepLiterals
<1>3. /\ "refresh" \in StepName /\ "write" \in StepName /\ "allocate" \in StepName
      /\ "allocateHeader" \in StepName /\ "allocateWrites" \in StepName /\ "checks" \in StepName
      /\ "eraseSpare" \in StepName /\ "restoreSpare" \in StepName
  BY DEF StepName
<1>4. \/ \E x \in {"refresh", "write", "allocate", "allocateWrites", "eraseSpare", "restoreSpare"} :
           Step(x) /\ (Settled \/ \E c : Found(c))
      \/ Step("checks") /\ Found("open")
      \/ Step("allocateHeader") /\ Found("free") /\ Offset = hdr
  BY <1>1, <1>2, <1>3, EndsAre DEF Preparing
<1>5. CASE \E x \in {"refresh", "write", "allocate", "allocateWrites", "eraseSpare", "restoreSpare"} :
             Step(x) /\ (Settled \/ \E c : Found(c))
  <2>1. PICK x \in {"refresh", "write", "allocate", "allocateWrites", "eraseSpare", "restoreSpare"} :
             Step(x) /\ (Settled \/ \E c : Found(c))
    BY <1>5
  <2>2. x \notin RecordStep
    BY DEF RecordStep
  <2> QED BY <2>1, <2>2, Recovers, SteadyStep
<1>6. CASE Step("checks") /\ Found("open")
  BY <1>6, Recovers, SteadyStep
<1>7. CASE Step("allocateHeader") /\ Found("free") /\ Offset = hdr
  BY <1>7, Recovers DEF Steady, Step
<1> QED BY <1>4, <1>5, <1>6, <1>7

LEMMA SteadySpare ==
  ASSUME SingleWrites, FtwTypes, Sparing
  PROVE  Steady
<1>1. PICK i \in 1..4 : /\ todo = Left(WriteSteps, i, FtwWriteRecord \o WriteEnd)
                        /\ Found(IF i = 1 THEN "open" ELSE "recorded")
  BY DEF Sparing
<1>2. FtwWriteRecord \o WriteEnd \in Seq(StepName) /\ i \in 1..Len(WriteSteps)
  <2>1. FtwWriteRecord \in Seq(StepName) /\ WriteEnd \in Seq(StepName)
    BY ProgramTypes, RestTypes
  <2> QED BY <2>1, ConcatProperties, ProgramSteps
<1>3. Step(WriteSteps[i])
  BY <1>1, <1>2, ProgramTypes, LeftBegins DEF Begins, Step
<1>4. /\ WriteSteps[i] \notin {"eraseWork", "allocateHeader", "restart"}
      /\ WriteSteps[i] = "record" => i = 1
  BY ProgramSteps
<1> QED BY <1>1, <1>3, <1>4, Recovers DEF Steady, Step

LEMMA SituationSteady ==
  ASSUME SingleWrites, FtwTypes, Situation
  PROVE  Idle \/ Steady
BY SteadyBoot, SteadyAbort, SteadyFlush, SteadyRestart, SteadyRecord, SteadyReclaim, SteadyReread,
   SteadyPrepare, SteadySpare DEF Situation

-----------------------------------------------------------------------------
(* The invariant.                                                           *)

\* After a power failure the flash is one that a start recovers.
LEMMA TornErase ==
  ASSUME SingleWrites, FtwTypes, Lost, Step("eraseWork"), work' \in Remains, UNCHANGED <<spare, target>>
  PROVE  Lost'
<1>1. CASE work' = work
  BY <1>1, LostKept
<1>2. CASE work' # work
  <2>1. PICK kept \in SUBSET Position :
          work' = [Blank EXCEPT !.queue = [p \in Position |-> IF p \in kept THEN work.queue[p]
                                                              ELSE ErasedUnit]]
    BY <1>2 DEF Remains
  <2> DEFINE q == [p \in Position |-> IF p \in kept THEN work.queue[p] ELSE ErasedUnit]
  <2>2. \A p \in Position : q[p] = work.queue[p] \/ q[p] = ErasedUnit
    OBVIOUS
  <2>3. work' = [Blank EXCEPT !.queue = q]
    BY <2>1
  <2> HIDE DEF q
  <2>4. work'.queue = q /\ ~work'.written
    BY <2>3, ConstantTypes DEF Image
  <2>5. Doomed(q)
    BY <2>2, LeadsTorn DEF Lost
  <2> QED BY <2>4, <2>5 DEF Lost, IsValidWorkSpace, Whole
<1> QED BY <1>1, <1>2

LEMMA TornHeader ==
  ASSUME SingleWrites, FtwTypes, Found("free"), Offset = hdr, Step("allocateHeader"),
         ~Step("eraseWork"), work' \in Remains, work' # work, UNCHANGED <<spare, target>>
  PROVE  \E h \in 1..Beyond : InFlash(h, "bare")'
<1> DEFINE h == hdr
           u == [work.queue[Offset] EXCEPT !.flags = @ \cup {HeaderAllocated}]
           v(rest) == Program(work.queue[Offset + 1], [flags |-> {}, body |-> rest])
           q(rest) == [[work.queue EXCEPT ![Offset] = u] EXCEPT ![Offset + 1] = v(rest)]
<1>1. PICK rest \in {Erased, Garbled} : work' = [work EXCEPT !.queue = q(rest)]
  BY HeaderTorn
<1>2. /\ h \in Position /\ h + 1 \in Position /\ h + 1 # h /\ h < QueueSize /\ h \in 1..Beyond
      /\ InFlash(h, "free") /\ work.queue[h] = HeaderAt("free")
      /\ work.queue[h + 1].flags = RecordFlags("free") /\ work.queue[h + 1].body \in RecordBodies("free")
  BY FoundIs DEF Found, LastHeader
<1>3. work.queue \in Queue /\ work \in Image
  BY ImageParts DEF FtwTypes
<1>4. u = HeaderAt("bare")
  <2>1. work.queue[Offset] = [flags |-> {}, body |-> Erased]
    BY <1>2 DEF HeaderAt, ErasedUnit
  <2>2. u = [flags |-> {HeaderAllocated}, body |-> Erased]
    BY <2>1
  <2> QED BY <2>2 DEF HeaderAt
<1>5. v(rest).flags = RecordFlags("bare") /\ v(rest).body \in RecordBodies("bare")
  <2>1. work.queue[h + 1].flags = {} /\ work.queue[h + 1].body = Erased
    BY <1>2, EmptyFacts
  <2>2. v(rest).flags = {} /\ v(rest).body = rest
    BY <2>1, ProgramUnitIs
  <2> QED BY <2>2 DEF RecordFlags, RecordBodies
<1> HIDE DEF u, v
<1>6. /\ q(rest)[h] = HeaderAt("bare") /\ q(rest)[h + 1] = v(rest)
      /\ \A p \in Position : p \notin {h, h + 1} => q(rest)[p] = work.queue[p]
  <2>1. work.queue = [p \in Position |-> work.queue[p]]
    BY <1>3 DEF Queue
  <2> QED BY <1>2, <1>4, <2>1
<1> HIDE DEF q
<1>7. Looks(q(rest), h, "bare")
  <2>1. "bare" \in Condition
    BY DEF Condition
  <2>2. Looks(work.queue, h, "free")
    BY <1>2 DEF InFlash
  <2> HIDE DEF h
  <2> QED BY <1>2, <1>5, <1>6, <2>1, <2>2, LooksChanged
<1>8. work'.queue = q(rest) /\ (IsValidWorkSpace(work') <=> IsValidWorkSpace(work))
  BY <1>1, <1>3 DEF Image, IsValidWorkSpace
<1>9. ASSUME NEW j \in 1..Beyond, j = h PROVE InFlash(j, "bare")'
  <2>1. Looks(work'.queue, j, "bare") /\ IsValidWorkSpace(work') /\ Whole
    BY <1>2, <1>7, <1>8, <1>9 DEF InFlash, Intact
  <2> QED BY <2>1 DEF InFlash, Intact, Whole
<1> QED BY <1>2, <1>9

LEMMA TornRecoverable ==
  ASSUME SingleWrites, FtwTypes, Idle \/ Steady, work' \in Remains, UNCHANGED <<spare, target>>
  PROVE  Recoverable'
<1>1. Recoverable
  BY Recovers DEF Idle, Steady
<1>2. CASE work' = work
  <2>1. CASE Lost
    BY <1>2, <2>1, LostKept DEF Recoverable
  <2>2. CASE \E h \in 1..Beyond, c \in Condition : InFlash(h, c)
    <3>1. PICK h \in 1..Beyond, c \in Condition : InFlash(h, c)
      BY <2>2
    <3>2. InFlash(h, c)'
      BY <1>2, <3>1, FlashKept
    <3> QED BY <3>2 DEF Recoverable
  <2> QED BY <1>1, <2>1, <2>2 DEF Recoverable
<1>3. CASE Step("eraseWork")
  <2>1. Lost
    BY <1>3 DEF Idle, Steady, Step
  <2> QED BY <1>3, <2>1, TornErase DEF Recoverable
<1>4. CASE Step("allocateHeader") /\ ~Step("eraseWork") /\ work' # work
  <2>1. Found("free") /\ Offset = hdr
    BY <1>4 DEF Idle, Steady, Step
  <2>2. PICK h \in 1..Beyond : InFlash(h, "bare")'
    BY <1>4, <2>1, TornHeader
  <2>3. "bare" \in Condition
    BY DEF Condition
  <2> QED BY <2>2, <2>3 DEF Recoverable
<1> QED BY <1>2, <1>3, <1>4 DEF Remains

LEMMA BootIs == InitFtwProtocol = Boot(1)
<1>1. InitFtwProtocol \in Seq(StepName) /\ <<>> \in Seq(StepName)
  BY ProgramTypes, StepLiterals
<1>2. Left(InitFtwProtocol, 1, <<>>) = InitFtwProtocol \o <<>>
  BY <1>1, LeftEnds
<1>3. InitFtwProtocol \o <<>> = InitFtwProtocol
  BY <1>1, ConcatEmptySeq
<1> QED BY <1>2, <1>3 DEF Boot

LEMMA PowerCutStep ==
  ASSUME SingleWrites, FtwTypes, FtwInv, PowerCut
  PROVE  FtwInv'
<1>1. Recoverable'
  <2>1. Idle \/ Steady
    BY SituationSteady DEF FtwInv
  <2> QED BY <2>1, TornRecoverable DEF PowerCut
<1>2. todo' = Boot(1)
  BY BootIs DEF PowerCut
<1>3. args'.op = "boot" /\ faults' = 0
  BY DEF PowerCut, BootCall, FtwInv
<1>4. Booting'
  BY <1>1, <1>2, <1>3 DEF Booting
<1> QED BY <1>3, <1>4 DEF FtwInv, Situation

LEMMA InvokeStep ==
  ASSUME SingleWrites, FtwTypes, FtwInv, Invoke
  PROVE  FtwInv'
<1>1. PICK op \in Ops, x \in Extent, d \in Data, n \in 1..MaxWrites :
        args' = [op |-> op, ext |-> x, data |-> d, n |-> n] /\ todo' = Service(op)
  BY DEF Invoke
<1>2. op = "write"
  BY DEF SingleWrites
<1>3. todo' = <<"refresh", "write">> /\ args'.op = "write" /\ args'.ext \in Extent
  BY <1>1, <1>2 DEF Service
<1>4. Settled'
  <2>1. Idle
    BY SituationSteady DEF FtwInv, Steady, Invoke
  <2> QED BY <2>1, SettledKept DEF Idle, Invoke, flash
<1>5. faults' = 0
  BY DEF Invoke, FtwInv
<1>6. Preparing'
  BY <1>3, <1>4 DEF Preparing
<1> QED BY <1>3, <1>5, <1>6 DEF FtwInv, Situation

LEMMA BootingStep ==
  ASSUME SingleWrites, FtwTypes, DriverStep, Booting
  PROVE  Situation'
<1>1. args.op = "boot"
  BY DEF Booting
<1>2. CASE todo = Boot(1) /\ Recoverable
  BY <1>1, <1>2, BootRefreshStep DEF Situation
<1>3. CASE todo = Boot(2) /\ (Lost \/ \E c \in Condition : Found(c))
  BY <1>1, <1>3, BootValidStep DEF Situation
<1>4. CASE todo = Boot(3) /\ \E c \in Condition : Found(c)
  BY <1>1, <1>4, BootFirstStep DEF Situation
<1>5. CASE todo = Boot(4) /\ \/ \E c \in Unused \cup {"pending", "written"} : Found(c)
                             \/ \E c \in Unused : Closed(c)
  BY <1>1, <1>5, BootLastStep DEF Situation
<1>6. CASE todo = Boot(5) /\ \/ \E c \in Unused \cup {"pending"} : Found(c)
                             \/ \E c \in Unused : Closed(c)
  BY <1>1, <1>6, BootTailStep DEF Situation
<1>7. CASE todo = Boot(6) /\ (Found("free") \/ Found("pending") \/ Closed("free"))
  BY <1>1, <1>7, BootRestartStep DEF Situation
<1> QED BY <1>2, <1>3, <1>4, <1>5, <1>6, <1>7 DEF Booting

LEMMA DriverTypes ==
  ASSUME SingleWrites, FtwTypes, Steady, DriverStep
  PROVE  FtwTypes'
<1>1. Record => rec \in Position
  BY DEF Record, Step, Steady, RecordStep
<1>2. Step("restart") => LastRecord.body \in Extent
  BY PendingIs DEF Steady
<1>3. CASE ReclaimStep
  BY <1>3, FlashTypes, PointerTypes DEF ReclaimStep
<1>4. CASE WriteStep
  BY <1>1, <1>2, <1>4, PointerTypes, UnitTypes, RecordTypes, TargetTypes, DecisionTypes DEF WriteStep
<1>5. CASE ServiceStep
  BY <1>2, <1>5, UnitTypes, DecisionTypes DEF ServiceStep
<1>6. CASE BootStep
  BY <1>2, <1>6, PointerTypes, DecisionTypes DEF BootStep
<1> QED BY <1>3, <1>4, <1>5, <1>6 DEF DriverStep

LEMMA DriverInv ==
  ASSUME SingleWrites, FtwTypes, FtwInv, DriverStep
  PROVE  FtwInv' /\ Steady
<1>1. Steady /\ ~Idle
  <2>1. todo # <<>>
    BY StepIs
  <2> QED BY <2>1, SituationSteady DEF FtwInv, Idle
<1>2. Situation'
  <2>1. Sparing => args.ext \in Extent
    BY DEF Sparing, FtwInv
  <2> QED BY <1>1, <2>1, BootingStep, AbortingStep, FlushingStep, RestartingStep, RecordingStep,
        ReclaimingStep, RereadingStep, PreparingStep, SparingStep DEF FtwInv, Situation
<1>3. faults' = 0
  BY DriverKeeps DEF FtwInv
<1>4. args'.op = "write" => args'.ext \in Extent
  <2>1. CASE args' = args
    BY <2>1 DEF FtwInv
  <2>2. CASE Step("restart") /\ args' = [args EXCEPT !.ext = LastRecord.body]
    <3>1. LastRecord.body \in Extent
      BY <1>1, <2>2, PendingIs DEF Steady
    <3>2. args'.ext = LastRecord.body
      BY <2>2 DEF FtwTypes, Call
    <3> QED BY <3>1, <3>2
  <2> QED BY <2>1, <2>2, DriverKeeps
<1> QED BY <1>1, <1>2, <1>3, <1>4 DEF FtwInv

LEMMA FtwInit ==
  ASSUME SingleWrites, Init
  PROVE  FtwTypes /\ FtwInv
<1>1. FtwTypes
  BY InitTypes
<1>2. Lost
  <2>1. ~IsValidWorkSpace(work) /\ ~IsValidWorkSpace(spare.ws) /\ work.queue = EmptyQueue
    BY ConstantTypes DEF Init, IsValidWorkSpace
  <2>2. Whole
    BY FtwAssumption DEF Init, Whole
  <2> QED BY <2>1, <2>2, NoQueueDoomed DEF Lost
<1>3. todo = Boot(1) /\ args.op = "boot" /\ faults = 0
  BY BootIs DEF Init, BootCall, SingleWrites
<1>4. Booting
  BY <1>2, <1>3 DEF Booting, Recoverable
<1> QED BY <1>1, <1>3, <1>4 DEF FtwInv, Situation

LEMMA FtwNext ==
  ASSUME SingleWrites, FtwTypes, FtwInv, Next
  PROVE  FtwTypes' /\ FtwInv'
<1>1. CASE DriverStep
  <2>1. FtwInv' /\ Steady
    BY <1>1, DriverInv
  <2> QED BY <1>1, <2>1, DriverTypes
<1>2. CASE Invoke
  BY <1>2, InvokeStep, InvokeTypes
<1>3. CASE PowerCut
  BY <1>3, PowerCutStep, PowerCutTypes
<1>4. ~Fault
  BY DEF Fault, FtwInv
<1> QED BY <1>1, <1>2, <1>3, <1>4 DEF Next

LEMMA FtwStutters ==
  ASSUME SingleWrites, FtwTypes, FtwInv, UNCHANGED vars
  PROVE  FtwTypes' /\ FtwInv'
<1>1. /\ UNCHANGED <<work, spare, target, todo, args, reply, Offset, Buffer, SpareBuffer>>
      /\ UNCHANGED <<FtwLastWriteHeader, FtwLastWriteRecord, calls, faults, powerCuts>>
  BY DEF vars, flash, pointers, buffers, budgets
<1>2. FtwTypes'
  BY <1>1 DEF FtwTypes
<1>3. UNCHANGED pointers /\ hdr' = hdr /\ rec' = rec
  BY <1>1 DEF pointers, hdr, rec
<1>4. /\ \A c : Found(c) => Found(c)'
      /\ \A h, c : InFlash(h, c) => InFlash(h, c)'
  BY <1>1, <1>3, FlashKept
<1>5. \A c : Closed(c) => Closed(c)'
  BY <1>1, <1>3, <1>4 DEF Closed
<1>6. (Lost => Lost') /\ (Fresh => Fresh')
  BY <1>1, LostKept
<1>7. (Settled => Settled') /\ (Replaceable => Replaceable')
  BY <1>1, SettledKept, ReplaceableKept
<1>8. Recoverable => Recoverable'
  BY <1>4, <1>6 DEF Recoverable
<1>9. Idle => Idle'
  BY <1>1, <1>7 DEF Idle
<1>10. Booting => Booting'
  BY <1>1, <1>4, <1>5, <1>6, <1>8 DEF Booting
<1>11. Aborting => Aborting'
  BY <1>1, <1>4 DEF Aborting
<1>12. Flushing => Flushing'
  BY <1>1, <1>3, <1>6 DEF Flushing
<1>13. Restarting => Restarting'
  BY <1>1, <1>4, <1>7 DEF Restarting
<1>14. Recording => Recording'
  BY <1>1, <1>3, <1>4 DEF Recording
<1>15. Reclaiming => Reclaiming'
  BY <1>1, <1>3, <1>6, <1>7 DEF Reclaiming
<1>16. Rereading => Rereading'
  BY <1>1, <1>6 DEF Rereading
<1>17. Preparing => Preparing'
  BY <1>1, <1>3, <1>4, <1>7 DEF Preparing
<1>18. Sparing => Sparing'
  BY <1>1, <1>3, <1>4 DEF Sparing
<1>19. Situation => Situation'
  BY <1>9, <1>10, <1>11, <1>12, <1>13, <1>14, <1>15, <1>16, <1>17, <1>18 DEF Situation
<1> QED BY <1>1, <1>2, <1>19 DEF FtwInv

\* The types and the situations are an invariant of single writes.
THEOREM FtwInvariant ==
  ASSUME SingleWrites
  PROVE  Spec => [](FtwTypes /\ FtwInv)
<1>1. Init => FtwTypes /\ FtwInv
  BY FtwInit
<1>2. (FtwTypes /\ FtwInv) /\ [Next]_vars => (FtwTypes /\ FtwInv)'
  BY FtwNext, FtwStutters
<1> QED BY <1>1, <1>2, PTL DEF Spec

\* Every variable keeps its type, and no step reads or writes the work space
\* through a pointer that is outside it.
THEOREM FtwTypeCorrect ==
  ASSUME SingleWrites
  PROVE  Spec => []FtwTypeOK
<1>1. FtwTypes /\ FtwInv => FtwTypeOK
  <2> SUFFICES ASSUME FtwTypes, FtwInv PROVE FtwTypeOK
    OBVIOUS
  <2>1. todo # <<>> /\ Head(todo) \in RecordStep => FtwLastWriteRecord \in Position
    BY SituationSteady DEF FtwInv, Idle, Steady, rec
  <2> QED BY <2>1 DEF FtwTypes, FtwTypeOK
<1> QED BY <1>1, FtwInvariant, PTL

\* Between the calls nothing is left to repair: the work space is valid, every
\* block is whole, and no data waits in the spare block.
LEMMA SettledIs ==
  ASSUME SingleWrites, FtwTypes, Settled
  PROVE  IsValidWorkSpace(work) /\ ~Pending /\ Whole
<1>1. PICK h \in 1..Beyond : InFlash(h, "free")
  BY DEF Settled
<1>2. IsValidWorkSpace(work) /\ Whole /\ Looks(work.queue, h, "free")
  BY <1>1 DEF InFlash, Intact
<1>3. InProgress.flags = {}
  <2>1. CASE HasRoom(work.queue)
    <3>1. h < QueueSize /\ h \in Position
      BY <1>2, <2>1, LastHeaderIs, SizeFacts
    <3>2. GetLastWriteHeader(work.queue).at = h /\ GetLastWriteRecord(work.queue, h) = h + 1
      BY <1>2, <3>1, LastHeaderIs, LastRecordIs
    <3>3. h + 1 \in Position
      BY <3>1, SizeFacts
    <3> QED BY <1>2, <2>1, <3>2, <3>3, EmptyFacts DEF InProgress, Looks
  <2>2. CASE ~HasRoom(work.queue)
    BY <2>2, EmptyFacts DEF InProgress
  <2> QED BY <2>1, <2>2
<1> QED BY <1>2, <1>3 DEF Pending

THEOREM SettledWhenIdle ==
  ASSUME SingleWrites
  PROVE  Spec => []IdleIsSettled
<1>1. FtwTypes /\ FtwInv => IdleIsSettled
  <2> SUFFICES ASSUME FtwTypes, FtwInv, todo = <<>>
               PROVE  IsValidWorkSpace(work) /\ ~Pending /\ \A x \in Extent : target[x] # Torn
    BY DEF IdleIsSettled
  <2>1. Settled
    BY SituationSteady DEF FtwInv, Idle, Steady
  <2> QED BY <2>1, SettledIs, FtwAssumption DEF Whole
<1> QED BY <1>1, FtwInvariant, PTL

\* FtwAllocate and FtwWrite program only erased units, and a record only behind
\* the header it belongs to.
THEOREM ErasedWhenProgrammed ==
  ASSUME SingleWrites
  PROVE  Spec => []ProgramsErased
<1>1. FtwTypes /\ FtwInv => ProgramsErased
  <2> SUFFICES ASSUME FtwTypes, FtwInv PROVE ProgramsErased
    OBVIOUS
  <2>1. Idle \/ Steady
    BY SituationSteady DEF FtwInv
  <2>2. Step("allocateHeader") => work.queue[Offset] = ErasedUnit
    <3>1. Step("allocateHeader") => Found("free") /\ Offset = hdr
      BY <2>1 DEF Idle, Steady, Step
    <3> QED BY <3>1, FoundIs, EmptyFacts DEF LastHeader
  <2>3. Step("record") => /\ HeaderAllocated \in LastHeader.flags
                          /\ LastRecord.flags = {} /\ LastRecord.body \in {Erased, args.ext}
    <3>1. Step("record") => Found("open")
      BY <2>1 DEF Idle, Steady, Step
    <3>2. /\ HeaderAllocated \in HeaderAt("open").flags /\ RecordFlags("open") = {}
          /\ RecordBodies("open") = {Erased}
      BY DEF HeaderAt, RecordFlags, RecordBodies
    <3> QED BY <3>1, <3>2, FoundIs
  <2> QED BY <2>2, <2>3 DEF ProgramsErased
<1> QED BY <1>1, FtwInvariant, PTL

-----------------------------------------------------------------------------
(* A write is one atomic change of the contents that are available.         *)

ProgressIn(w) ==
  IF IsValidWorkSpace(w) /\ HasRoom(w.queue)
  THEN w.queue[GetLastWriteRecord(w.queue, GetLastWriteHeader(w.queue).at)]
  ELSE ErasedUnit
PendingIn(w) ==
  SpareComplete \in ProgressIn(w).flags /\ DestinationComplete \notin ProgressIn(w).flags

LEMMA ProgressIs ==
  ASSUME SingleWrites, NEW w
  PROVE  /\ ~IsValidWorkSpace(w) => ~PendingIn(w)
         /\ \A h, c : Looks(w.queue, h, c) /\ c # "pending" => ~PendingIn(w)
         /\ \A h : /\ Looks(w.queue, h, "pending") /\ IsValidWorkSpace(w)
                   => PendingIn(w) /\ ProgressIn(w) = w.queue[h + 1]
<1>1. ~IsValidWorkSpace(w) \/ ~HasRoom(w.queue) => ~PendingIn(w)
  BY EmptyFacts DEF ProgressIn, PendingIn
<1>2. ASSUME NEW h, NEW c, Looks(w.queue, h, c), HasRoom(w.queue), IsValidWorkSpace(w)
      PROVE  ProgressIn(w) = w.queue[h + 1] /\ w.queue[h + 1].flags = RecordFlags(c)
  <2>1. h < QueueSize /\ h \in Position /\ h + 1 \in Position
    BY <1>2, LastHeaderIs, SizeFacts
  <2>2. GetLastWriteHeader(w.queue).at = h /\ GetLastWriteRecord(w.queue, h) = h + 1
    BY <1>2, <2>1, LastHeaderIs, LastRecordIs
  <2> QED BY <1>2, <2>1, <2>2 DEF ProgressIn, Looks
<1>3. ASSUME NEW h, NEW c, Looks(w.queue, h, c), c # "pending" PROVE ~PendingIn(w)
  <2>1. SpareComplete \notin RecordFlags(c) \/ DestinationComplete \in RecordFlags(c)
    BY <1>3, HeaderFacts DEF Looks
  <2> QED BY <1>1, <1>2, <1>3, <2>1 DEF PendingIn
<1>4. ASSUME NEW h, Looks(w.queue, h, "pending"), IsValidWorkSpace(w)
      PROVE  PendingIn(w) /\ ProgressIn(w) = w.queue[h + 1]
  <2>1. HasRoom(w.queue)
    BY <1>4, NoRoomDoomed DEF Unused
  <2>2. SpareComplete \in RecordFlags("pending") /\ DestinationComplete \notin RecordFlags("pending")
    BY HeaderFacts DEF Condition
  <2> QED BY <1>2, <1>4, <2>1, <2>2 DEF PendingIn
<1> QED BY <1>1, <1>3, <1>4

LEMMA AvailableIs ==
  /\ ~PendingIn(work) => Available = target
  /\ ~PendingIn(work') => Available' = target'
  /\ PendingIn(work) /\ ProgressIn(work).body \in Extent =>
       Available = [target EXCEPT ![ProgressIn(work).body] = spare.data]
  /\ PendingIn(work') /\ ProgressIn(work').body \in Extent =>
       Available' = [target' EXCEPT ![ProgressIn(work').body] = spare'.data]
BY DEF Available, Pending, InProgress, PendingIn, ProgressIn

LEMMA NotPending ==
  ASSUME SingleWrites
  PROVE  /\ \A c : (Found(c) \/ Closed(c)) /\ c # "pending" => ~PendingIn(work)
         /\ (Lost => ~PendingIn(work)) /\ (Settled => ~PendingIn(work))
         /\ (Replaceable => ~PendingIn(work)) /\ (Fresh => ~PendingIn(work))
         /\ Found("pending") => PendingIn(work) /\ ProgressIn(work) = work.queue[hdr + 1]
<1>1. \A h, c : InFlash(h, c) /\ c # "pending" => ~PendingIn(work)
  BY ProgressIs DEF InFlash
<1>2. \A c : (Found(c) \/ Closed(c)) /\ c # "pending" => ~PendingIn(work)
  BY <1>1 DEF Found, Closed
<1>3. (Lost => ~PendingIn(work)) /\ (Fresh => ~PendingIn(work))
  BY <1>1, ProgressIs, FreshIs DEF Lost
<1>4. (Settled => ~PendingIn(work)) /\ (Replaceable => ~PendingIn(work))
  BY <1>1, <1>3 DEF Settled, Replaceable, Unused
<1>5. Found("pending") => PendingIn(work) /\ ProgressIn(work) = work.queue[hdr + 1]
  BY ProgressIs DEF Found, InFlash
<1> QED BY <1>2, <1>3, <1>4, <1>5

\* The steps that see a write whose data waits in the spare block.
PendingStep ==
  {"refresh", "bootValid", "bootFirst", "bootLast", "bootTail", "bootRestart", "restart",
   "readSpare", "eraseTarget", "writeTarget", "destComplete"}
\* The steps that say more than that of the flash or of the step behind them.
TellingStep ==
  {"workValid", "spareComplete", "eraseTarget", "writeTarget", "destComplete", "restart", "abort",
   "allocateHeader", "allocateWrites", "record", "writesComplete"}

Ahead ==
  /\ PendingIn(work) => todo # <<>> /\ Head(todo) \in PendingStep
  /\ Step("workValid") => work = Header
  /\ Step("spareComplete") => /\ args.op = "write" /\ Found("recorded") /\ args.ext = LastRecord.body
                              /\ spare.data = args.data /\ Tail(todo) = FtwWriteRecord \o WriteEnd
  /\ Step("eraseTarget") \/ Step("writeTarget") => Found("pending") /\ args.ext = LastRecord.body
  /\ Step("writeTarget") => Buffer.data = spare.data
  /\ Step("destComplete") => /\ Found("pending") /\ args.ext = LastRecord.body
                             /\ target[args.ext] = spare.data
                             /\ Tail(todo) # <<>> /\ Head(Tail(todo)) = "writesComplete"
  /\ Step("restart") => args.op = "boot"
  /\ Step("abort") => \/ HeaderAllocated \notin LastHeader.flags
                      \/ \E c : Found(c) /\ c \notin Unused /\ c # "pending"
  /\ Step("allocateHeader") => Tail(todo) # <<>> /\ Head(Tail(todo)) = "allocateWrites"
  /\ Step("allocateWrites") => Tail(todo) # <<>> /\ Head(Tail(todo)) = "checks"
  /\ Step("record") \/ Step("writesComplete") => Tail(todo) # <<>> /\ Head(Tail(todo)) = "eraseSpare"

LEMMA AheadStep ==
  ASSUME NEW x, Step(x), PendingIn(work) => x \in PendingStep, x \notin TellingStep
  PROVE  Ahead
BY DEF Ahead, Step, TellingStep

LEMMA AheadBoot ==
  ASSUME SingleWrites, FtwTypes, Booting
  PROVE  Ahead
<1>1. PICK i \in 1..6 : todo = Boot(i)
  BY DEF Booting
<1>2. Step(InitFtwProtocol[i])
  BY <1>1, BootBegins DEF Begins, Step
<1>3. InitFtwProtocol[i] \in PendingStep /\ InitFtwProtocol[i] \notin TellingStep
  BY ProgramSteps DEF PendingStep, TellingStep
<1> QED BY <1>2, <1>3, AheadStep

LEMMA AheadAbort ==
  ASSUME SingleWrites, FtwTypes, Aborting
  PROVE  Ahead
<1>1. PICK j \in 1..2, k \in {Boot(4), Boot(5)}, c \in {"bare", "headed", "open", "recorded", "written"} :
        todo = Left(FtwAbort, j, k) /\ Found(c)
  BY DEF Aborting
<1>2. k \in Seq(StepName) /\ j \in 1..Len(FtwAbort)
  <2>1. Boot(4) \in Seq(StepName) /\ Boot(5) \in Seq(StepName)
    BY BootBegins
  <2>2. Len(FtwAbort) = 2
    BY ProgramSteps
  <2> QED BY <2>1, <2>2
<1>3. Step(FtwAbort[j])
  BY <1>1, <1>2, ProgramTypes, LeftBegins DEF Begins, Step
<1>4. c \notin Unused /\ c # "pending" /\ ~PendingIn(work)
  BY <1>1, NotPending DEF Unused
<1>5. CASE j = 1
  BY <1>3, <1>4, <1>5, ProgramSteps, AheadStep DEF PendingStep, TellingStep
<1>6. CASE j = 2
  <2>1. Step("abort")
    BY <1>3, <1>6, ProgramSteps
  <2> QED BY <1>1, <1>4, <2>1 DEF Ahead, Step
<1> QED BY <1>5, <1>6

LEMMA AheadFlush ==
  ASSUME SingleWrites, FtwTypes, Flushing
  PROVE  Ahead
<1>1. ASSUME NEW i \in 1..6, todo = Left(FlushToWorkingBlock, i, FlushThen), Lost, i = 6 => work = Header
      PROVE  Ahead
  <2>1. FlushThen \in Seq(StepName) /\ i \in 1..Len(FlushToWorkingBlock)
    BY FlushThenIs, ProgramSteps
  <2>2. Step(FlushToWorkingBlock[i])
    BY <1>1, <2>1, ProgramTypes, LeftBegins DEF Begins, Step
  <2>3. ~PendingIn(work)
    BY <1>1, NotPending
  <2>4. CASE i = 6
    <3>1. Step("workValid")
      BY <2>2, <2>4, ProgramSteps
    <3> QED BY <1>1, <2>3, <2>4, <3>1 DEF Ahead, Step
  <2>5. CASE i # 6
    <3>1. FlushToWorkingBlock[i] \notin TellingStep
      BY <2>5, ProgramSteps DEF TellingStep
    <3> QED BY <2>2, <2>3, <3>1, AheadStep
  <2> QED BY <2>4, <2>5
<1>2. ASSUME Fresh, NEW k \in Seq(StepName), todo = <<"refresh">> \o k PROVE Ahead
  <2>1. "refresh" \in StepName
    BY DEF StepName
  <2>2. Step("refresh")
    BY <1>2, <2>1, LiteralBegins DEF Begins, Step
  <2> QED BY <2>2, AheadStep DEF PendingStep, TellingStep
<1>3. ASSUME Fresh, hdr = 1, NEW k \in Seq(StepName), todo = <<"abort">> \o k PROVE Ahead
  <2>1. "abort" \in StepName
    BY DEF StepName
  <2>2. Step("abort")
    BY <1>3, <2>1, LiteralBegins DEF Begins, Step
  <2>3. HeaderAllocated \notin LastHeader.flags
    <3>1. EmptyQueue[1] = ErasedUnit /\ work.queue = EmptyQueue
      BY <1>3, EmptyFacts, SizeFacts DEF Fresh
    <3>2. LastHeader = ErasedUnit
      BY <1>3, <3>1 DEF LastHeader
    <3> QED BY <3>2, EmptyFacts
  <2>4. ~PendingIn(work)
    BY <1>3, NotPending
  <2> QED BY <2>2, <2>3, <2>4 DEF Ahead, Step
<1>4. Boot(3) \in Seq(StepName)
  BY BootBegins
<1> QED BY <1>1, <1>2, <1>3, <1>4, FlushThenIs DEF Flushing

LEMMA AheadRestart ==
  ASSUME SingleWrites, FtwTypes, Restarting
  PROVE  Ahead
<1>1. /\ <<"restart">> \o FtwAbort \in Seq(StepName) /\ FtwAbort \in Seq(StepName)
      /\ <<"abort">> \in Seq(StepName) /\ <<>> \in Seq(StepName)
  BY RestTypes, ProgramTypes, StepLiterals
<1>2. "restart" \in StepName /\ "refresh" \in StepName /\ "eraseSpare" \in StepName /\ "abort" \in StepName
  BY DEF StepName
<1>3. \A x \in StepName, k \in Seq(StepName) : todo = <<x>> \o k => Step(x)
  BY LiteralBegins DEF Begins, Step
<1>4. CASE todo = <<"refresh", "restart">> \o FtwAbort \/ todo = FtwAbort
  <2>1. Step("refresh")
    BY <1>1, <1>2, <1>3, <1>4, EndsAre
  <2> QED BY <2>1, AheadStep DEF PendingStep, TellingStep
<1>5. CASE todo = <<"restart">> \o FtwAbort
  <2>1. Step("restart") /\ args.op = "boot"
    BY <1>1, <1>2, <1>3, <1>5 DEF Restarting
  <2> QED BY <2>1 DEF Ahead, Step, PendingStep
<1>6. CASE todo = <<"eraseSpare">> \o FtwAbort /\ Settled
  <2>1. Step("eraseSpare") /\ ~PendingIn(work)
    BY <1>1, <1>2, <1>3, <1>6, NotPending
  <2> QED BY <2>1, AheadStep DEF TellingStep
<1>7. CASE todo = <<"abort">> /\ Found("free")
  <2>1. Step("abort") /\ ~PendingIn(work)
    BY <1>1, <1>2, <1>3, <1>7, EndsAre, NotPending
  <2>2. HeaderAllocated \notin LastHeader.flags
    BY <1>7, FoundIs, EmptyFacts
  <2> QED BY <2>1, <2>2 DEF Ahead, Step
<1> QED BY <1>4, <1>5, <1>6, <1>7 DEF Restarting

LEMMA AheadRecord ==
  ASSUME SingleWrites, FtwTypes, Recording
  PROVE  Ahead
<1>1. PICK k \in {RestartEnd, WriteEnd}, i \in 1..5 : todo = Left(FtwWriteRecord, i, k) /\ RecordAt(i)
  BY DEF Recording, RecordAt
<1>2. k \in Seq(StepName) /\ i \in 1..Len(FtwWriteRecord) /\ Len(FtwWriteRecord) = 5
  BY RestTypes, ProgramSteps
<1>3. Begins(FtwWriteRecord[i], Left(FtwWriteRecord, i + 1, k)) /\ Step(FtwWriteRecord[i])
  BY <1>1, <1>2, ProgramTypes, LeftBegins DEF Begins, Step
<1>4. args.ext = LastRecord.body
  BY <1>1 DEF RecordAt, LastRecord
<1>5. CASE i = 1
  <2>1. Step("readSpare")
    BY <1>3, <1>5, ProgramSteps
  <2> QED BY <2>1, AheadStep DEF PendingStep, TellingStep
<1>6. CASE i \in 2..3
  <2>1. Step("eraseTarget") \/ Step("writeTarget")
    BY <1>3, <1>6, ProgramSteps
  <2>2. Found("pending") /\ Buffer.data = spare.data
    BY <1>1, <1>6 DEF RecordAt
  <2> QED BY <1>4, <2>1, <2>2 DEF Ahead, Step, PendingStep
<1>7. CASE i = 4
  <2>1. Step("destComplete")
    BY <1>3, <1>7, ProgramSteps
  <2>2. Found("pending") /\ target[args.ext] = spare.data
    BY <1>1, <1>7 DEF RecordAt
  <2>3. Tail(todo) = Left(FtwWriteRecord, 5, k)
    BY <1>3, <1>7 DEF Begins
  <2>4. Left(FtwWriteRecord, 5, k) # <<>> /\ Head(Left(FtwWriteRecord, 5, k)) = "writesComplete"
    <3>1. 5 \in 1..Len(FtwWriteRecord)
      BY <1>2
    <3>2. Left(FtwWriteRecord, 5, k) # <<>> /\ Head(Left(FtwWriteRecord, 5, k)) = FtwWriteRecord[5]
      BY <1>2, <3>1, ProgramTypes, LeftStep
    <3> QED BY <3>2, ProgramSteps
  <2> QED BY <1>4, <2>1, <2>2, <2>3, <2>4 DEF Ahead, Step, PendingStep
<1>8. CASE i = 5
  <2>1. Step("writesComplete")
    BY <1>3, <1>8, ProgramSteps
  <2>2. ~PendingIn(work)
    BY <1>1, <1>8, NotPending DEF RecordAt
  <2>3. Tail(todo) = k
    <3>1. Left(FtwWriteRecord, Len(FtwWriteRecord) + 1, k) = k
      BY <1>2, ProgramTypes, LeftEnds
    <3> QED BY <1>2, <1>3, <1>8, <3>1 DEF Begins
  <2>4. k # <<>> /\ Head(k) = "eraseSpare"
    <3>1. /\ <<"eraseSpare">> \in Seq(StepName) /\ <<"eraseSpare">> # <<>>
          /\ Head(<<"eraseSpare">>) = "eraseSpare"
      BY StepLiterals
    <3>2. RestartEnd # <<>> /\ Head(RestartEnd) = "eraseSpare"
      BY <3>1, ProgramTypes, HeadTailConcat DEF RestartEnd
    <3>3. WriteEnd # <<>> /\ Head(WriteEnd) = "eraseSpare"
      BY DEF WriteEnd
    <3> QED BY <3>2, <3>3
  <2> QED BY <2>1, <2>2, <2>3, <2>4 DEF Ahead, Step
<1> QED BY <1>5, <1>6, <1>7, <1>8

LEMMA AheadReclaim ==
  ASSUME SingleWrites, FtwTypes, Reclaiming
  PROVE  Ahead
<1>1. PICK k \in ReclaimThen, i \in 1..12 : todo = Left(ReclaimSteps, i, k) /\ ReclaimAt(i)
  BY DEF Reclaiming, ReclaimAt
<1>2. k \in Seq(StepName) /\ i \in 1..Len(ReclaimSteps)
  BY ThenIs, ReclaimIs
<1>3. Step(ReclaimSteps[i])
  BY <1>1, <1>2, ProgramTypes, LeftBegins DEF Begins, Step
<1>4. ~PendingIn(work)
  <2>1. i \in 1..4 \/ i \in 5..10 \/ i > 10
    OBVIOUS
  <2> QED BY <1>1, <2>1, NotPending DEF ReclaimAt
<1>5. CASE i = 10
  <2>1. Step("workValid") /\ work = Header
    BY <1>1, <1>3, <1>5, ReclaimIs DEF ReclaimAt
  <2> QED BY <1>4, <2>1 DEF Ahead, Step
<1>6. CASE i # 10
  <2>1. i \in {1, 2, 3, 4, 5, 6, 7, 8, 9, 11, 12}
    BY <1>6
  <2>2. ReclaimSteps[i] \notin TellingStep
    BY <2>1, ReclaimIs DEF TellingStep
  <2> QED BY <1>3, <1>4, <2>2, AheadStep
<1> QED BY <1>5, <1>6

LEMMA AheadReread ==
  ASSUME SingleWrites, FtwTypes, Rereading
  PROVE  Ahead
<1>1. PICK k \in {Boot(2), <<"abort">>, <<"write">>} : todo = <<"reread">> \o k
  BY DEF Rereading
<1>2. Boot(2) \in Seq(StepName) /\ <<"abort">> \in Seq(StepName) /\ <<"write">> \in Seq(StepName)
  BY BootBegins, RestTypes
<1>3. "reread" \in StepName /\ "reread" \notin TellingStep
  BY DEF StepName, TellingStep
<1>4. Step("reread") /\ ~PendingIn(work)
  BY <1>1, <1>2, <1>3, LiteralBegins, NotPending DEF Begins, Step, Rereading
<1> QED BY <1>3, <1>4, AheadStep

LEMMA AheadPrepare ==
  ASSUME SingleWrites, FtwTypes, Preparing
  PROVE  Ahead
<1>1. \A x \in StepName, k \in Seq(StepName) : todo = <<x>> \o k => Step(x) /\ Tail(todo) = k
  BY LiteralBegins DEF Begins, Step
<1>2. /\ <<"write">> \in Seq(StepName) /\ <<>> \in Seq(StepName) /\ <<"restoreSpare">> \in Seq(StepName)
      /\ <<"allocate", "checks">> \in Seq(StepName) /\ <<"checks">> \in Seq(StepName)
      /\ <<"allocateWrites", "checks">> \in Seq(StepName)
  BY RestTypes, StepLiterals
<1>3. /\ "refresh" \in StepName /\ "write" \in StepName /\ "allocate" \in StepName
      /\ "allocateHeader" \in StepName /\ "allocateWrites" \in StepName /\ "checks" \in StepName
      /\ "eraseSpare" \in StepName /\ "restoreSpare" \in StepName
  BY DEF StepName
<1>4. ~PendingIn(work)
  BY NotPending DEF Preparing
<1>5. \/ \E x \in {"refresh", "write", "allocate", "checks", "eraseSpare", "restoreSpare"} : Step(x)
      \/ Step("allocateHeader") /\ Tail(todo) = <<"allocateWrites", "checks">>
      \/ Step("allocateWrites") /\ Tail(todo) = <<"checks">>
  BY <1>1, <1>2, <1>3, EndsAre DEF Preparing
<1>6. CASE \E x \in {"refresh", "write", "allocate", "checks", "eraseSpare", "restoreSpare"} : Step(x)
  BY <1>4, <1>6, AheadStep DEF TellingStep
<1>7. CASE Step("allocateHeader") /\ Tail(todo) = <<"allocateWrites", "checks">>
  <2>1. Tail(todo) # <<>> /\ Head(Tail(todo)) = "allocateWrites"
    <3>1. LET s == <<"allocateWrites", "checks">> IN s # <<>> /\ Head(s) = "allocateWrites"
      OBVIOUS
    <3> QED BY <1>7, <3>1, Zenon
  <2> QED BY <1>4, <1>7, <2>1 DEF Ahead, Step
<1>8. CASE Step("allocateWrites") /\ Tail(todo) = <<"checks">>
  <2>1. Tail(todo) # <<>> /\ Head(Tail(todo)) = "checks"
    <3>1. LET s == <<"checks">> IN s # <<>> /\ Head(s) = "checks"
      OBVIOUS
    <3> QED BY <1>8, <3>1, Zenon
  <2> QED BY <1>4, <1>8, <2>1 DEF Ahead, Step
<1> QED BY <1>5, <1>6, <1>7, <1>8

LEMMA AheadSpare ==
  ASSUME SingleWrites, FtwTypes, Sparing
  PROVE  Ahead
<1> DEFINE k == FtwWriteRecord \o WriteEnd
<1>1. PICK i \in 1..4 : todo = Left(WriteSteps, i, k) /\ SpareAt(i) /\ args.op = "write"
  BY DEF Sparing, SpareAt
<1>2. /\ k \in Seq(StepName) /\ WriteSteps \in Seq(StepName)
      /\ i \in 1..Len(WriteSteps) /\ Len(WriteSteps) = 4
  <2>1. FtwWriteRecord \in Seq(StepName) /\ WriteEnd \in Seq(StepName)
    BY ProgramTypes, RestTypes
  <2> QED BY <2>1, ConcatProperties, ProgramTypes, ProgramSteps
<1>3. Begins(WriteSteps[i], Left(WriteSteps, i + 1, k)) /\ Step(WriteSteps[i])
  <2> HIDE DEF k
  <2> QED BY <1>1, <1>2, LeftBegins DEF Begins, Step
<1>4. ~PendingIn(work)
  BY <1>1, NotPending DEF SpareAt
<1>5. CASE i = 1
  <2>1. Step("record") /\ Tail(todo) = Left(WriteSteps, 2, k)
    BY <1>3, <1>5, ProgramSteps DEF Begins
  <2>2. Left(WriteSteps, 2, k) # <<>> /\ Head(Left(WriteSteps, 2, k)) = "eraseSpare"
    <3>1. 2 \in 1..Len(WriteSteps)
      BY <1>2
    <3> HIDE DEF k
    <3>2. Left(WriteSteps, 2, k) # <<>> /\ Head(Left(WriteSteps, 2, k)) = WriteSteps[2]
      BY <1>2, <3>1, LeftStep
    <3> QED BY <3>2, ProgramSteps
  <2> QED BY <1>4, <2>1, <2>2 DEF Ahead, Step
<1>6. CASE i \in 2..3
  <2>1. WriteSteps[i] \notin TellingStep
    BY <1>6, ProgramSteps DEF TellingStep
  <2> QED BY <1>3, <1>4, <2>1, AheadStep
<1>7. CASE i = 4
  <2>1. Step("spareComplete")
    BY <1>3, <1>7, ProgramSteps
  <2>2. Tail(todo) = k
    <3>1. Left(WriteSteps, Len(WriteSteps) + 1, k) = k
      <4> HIDE DEF k
      <4> QED BY <1>2, LeftEnds
    <3> QED BY <1>2, <1>3, <1>7, <3>1 DEF Begins
  <2>3. Found("recorded") /\ args.ext = LastRecord.body /\ spare.data = args.data
    BY <1>1, <1>7 DEF SpareAt, LastRecord
  <2> QED BY <1>1, <1>4, <2>1, <2>2, <2>3 DEF Ahead, Step
<1> QED BY <1>5, <1>6, <1>7

LEMMA SituationAhead ==
  ASSUME SingleWrites, FtwTypes, Situation
  PROVE  Ahead
<1>1. CASE Idle
  <2>1. todo = <<>> /\ ~PendingIn(work)
    BY <1>1, NotPending DEF Idle
  <2> QED BY <2>1 DEF Ahead, Step
<1> QED BY <1>1, AheadBoot, AheadAbort, AheadFlush, AheadRestart, AheadRecord, AheadReclaim, AheadReread,
      AheadPrepare, AheadSpare DEF Situation

\* The steps that read the flash, or only decide what comes next.
ReadingStep ==
  \/ Refresh \/ Reread \/ ReadSpare \/ Allocate \/ Write \/ Checks \/ Restart \/ GetLastWrite
  \/ BootStep

LEMMA ReadingKeeps ==
  ASSUME ReadingStep
  PROVE  UNCHANGED flash
BY DEF ReadingStep, Refresh, Reread, ReadSpare, Allocate, Write, Checks, Restart, GetLastWrite,
   BootStep, BootValid, BootFirst, BootLast, BootTail, BootRestart

LEMMA AvailableKept ==
  ASSUME UNCHANGED flash
  PROVE  Available' = Available
BY DEF flash, Available, Pending, InProgress, IsValidWorkSpace

LEMMA SpareSteps ==
  ASSUME Ahead, EraseSpare \/ WriteSpare \/ RestoreSpare \/ SpareValid
  PROVE  Available' = Available
<1>1. UNCHANGED <<work, target>>
  BY DEF EraseSpare, WriteSpare, RestoreSpare, SpareValid
<1>2. ~PendingIn(work)
  BY DEF Ahead, PendingStep, EraseSpare, WriteSpare, RestoreSpare, SpareValid, Step
<1>3. ~PendingIn(work')
  BY <1>1, <1>2
<1> QED BY <1>1, <1>2, <1>3, AvailableIs

LEMMA WorkSteps ==
  ASSUME SingleWrites, FtwTypes, Ahead, WorkInvalid \/ EraseWork \/ WriteWork \/ WorkValid
  PROVE  Available' = Available
<1>1. target' = target
  BY DEF WorkInvalid, EraseWork, WriteWork, WorkValid
<1>2. ~PendingIn(work)
  BY DEF Ahead, PendingStep, WorkInvalid, EraseWork, WriteWork, WorkValid, Step
<1>3. ~PendingIn(work')
  <2>1. CASE WorkInvalid
    <3>1. ~IsValidWorkSpace(work')
      BY <2>1 DEF WorkInvalid, FtwTypes, Image, IsValidWorkSpace
    <3> QED BY <3>1, ProgressIs
  <2>2. CASE EraseWork
    <3>1. ~IsValidWorkSpace(work')
      BY <2>2, ConstantTypes DEF EraseWork, IsValidWorkSpace
    <3> QED BY <3>1, ProgressIs
  <2>3. CASE WriteWork
    <3>1. ~IsValidWorkSpace(work')
      BY <2>3, ConstantTypes DEF WriteWork, IsValidWorkSpace, Image
    <3> QED BY <3>1, ProgressIs
  <2>4. CASE WorkValid
    <3>1. work = Header /\ work' = [work EXCEPT !.valid = TRUE]
      BY <2>4 DEF Ahead, WorkValid
    <3>2. work'.queue = EmptyQueue
      BY <3>1, ConstantTypes DEF Image
    <3> QED BY <3>2, ProgressIs, LooksEmpty
  <2> QED BY <2>1, <2>2, <2>3, <2>4
<1> QED BY <1>1, <1>2, <1>3, AvailableIs

LEMMA UnitSteps ==
  ASSUME SingleWrites, FtwTypes, Ahead, Ahead',
         AllocateHeader \/ AllocateWrites \/ Record \/ WritesComplete \/ Abort
  PROVE  Available' = Available
<1>1. target' = target /\ Continue(<<>>)
  BY DEF AllocateHeader, AllocateWrites, Record, WritesComplete, Abort
<1>2. ~PendingIn(work) /\ todo # <<>>
  BY DEF Ahead, PendingStep, AllocateHeader, AllocateWrites, Record, WritesComplete, Abort, Step
<1>3. ~PendingIn(work')
  <2>1. CASE AllocateHeader \/ AllocateWrites \/ Record \/ WritesComplete
    <3>1. todo' = Tail(todo)
      BY <1>1, ConcatEmptySeq, <1>2, HeadTailProperties DEF Continue, FtwTypes
    <3>2. Tail(todo) # <<>> /\ Head(Tail(todo)) \in {"allocateWrites", "checks", "eraseSpare"}
      BY <2>1 DEF Ahead, AllocateHeader, AllocateWrites, Record, WritesComplete
    <3> QED BY <3>1, <3>2 DEF Ahead, PendingStep
  <2>2. CASE Abort /\ HeaderAllocated \notin LastHeader.flags
    <3>1. work' = work
      BY <2>2 DEF Abort
    <3> QED BY <1>2, <3>1
  <2>3. CASE Abort /\ HeaderAllocated \in LastHeader.flags
    <3>1. PICK c : Found(c) /\ c \notin Unused /\ c # "pending"
      BY <2>3 DEF Ahead, Abort
    <3>2. PICK d \in Unused : Closed(d)'
      BY <2>3, <3>1, AbortCompletes
    <3>3. d # "pending"
      BY DEF Unused
    <3> QED BY <3>2, <3>3, ProgressIs DEF Closed, InFlash
  <2> QED BY <2>1, <2>2, <2>3
<1> QED BY <1>1, <1>2, <1>3, AvailableIs

LEMMA PendingAvailable ==
  ASSUME SingleWrites, FtwTypes, Found("pending"), args.ext = LastRecord.body
  PROVE  /\ PendingIn(work) /\ ProgressIn(work).body = args.ext /\ args.ext \in Extent
         /\ Available = [target EXCEPT ![args.ext] = spare.data]
<1>1. PendingIn(work) /\ ProgressIn(work) = LastRecord
  BY NotPending, FoundIs
<1>2. args.ext \in Extent
  BY PendingIs
<1> QED BY <1>1, <1>2, AvailableIs

LEMMA TargetSteps ==
  ASSUME SingleWrites, FtwTypes, Ahead, EraseTarget \/ WriteTarget
  PROVE  Available' = Available
<1>1. Found("pending") /\ args.ext = LastRecord.body
  BY DEF Ahead, EraseTarget, WriteTarget
<1>2. /\ PendingIn(work) /\ ProgressIn(work).body = args.ext /\ args.ext \in Extent
      /\ Available = [target EXCEPT ![args.ext] = spare.data]
  BY <1>1, PendingAvailable
<1>3. work' = work /\ spare' = spare
  BY DEF EraseTarget, WriteTarget
<1>4. Available' = [target' EXCEPT ![args.ext] = spare.data]
  <2>1. PendingIn(work') /\ ProgressIn(work').body = args.ext
    BY <1>2, <1>3
  <2> QED BY <1>2, <1>3, <2>1, AvailableIs
<1>5. PICK d : target' = [target EXCEPT ![args.ext] = d]
  BY DEF EraseTarget, WriteTarget
<1>6. [[target EXCEPT ![args.ext] = d] EXCEPT ![args.ext] = spare.data]
        = [target EXCEPT ![args.ext] = spare.data]
  OBVIOUS
<1> QED BY <1>2, <1>4, <1>5, <1>6

LEMMA DestCompleteStep ==
  ASSUME SingleWrites, FtwTypes, Ahead, Ahead', DestComplete
  PROVE  Available' = Available
<1>1. /\ Found("pending") /\ args.ext = LastRecord.body /\ target[args.ext] = spare.data
      /\ Tail(todo) # <<>> /\ Head(Tail(todo)) = "writesComplete" /\ todo # <<>>
  BY DEF Ahead, DestComplete, Step
<1>2. Available = target
  <2>1. Available = [target EXCEPT ![args.ext] = spare.data]
    BY <1>1, PendingAvailable
  <2> QED BY <1>1, <2>1 DEF FtwTypes
<1>3. ~PendingIn(work')
  <2>1. todo' = Tail(todo)
    BY <1>1, ConcatEmptySeq, HeadTailProperties DEF DestComplete, Continue, FtwTypes
  <2> QED BY <1>1, <2>1 DEF Ahead, PendingStep
<1>4. target' = target
  BY DEF DestComplete
<1> QED BY <1>2, <1>3, <1>4, AvailableIs

\* The write takes effect when SpareComplete is set.
LEMMA SpareCompleteStep ==
  ASSUME SingleWrites, FtwTypes, Ahead, SetSpareComplete
  PROVE  Available' = [Available EXCEPT ![args.ext] = args.data]
<1>1. Found("recorded") /\ args.ext = LastRecord.body /\ spare.data = args.data
  BY DEF Ahead, SetSpareComplete
<1>2. /\ ProgramUnit(rec, {SpareComplete}, Erased) /\ UNCHANGED <<spare, target, pointers>>
  BY DEF SetSpareComplete
<1>3. LastRecord.body \in Extent /\ LastRecord.flags = {} /\ Whole
  <2>1. /\ LastRecord.flags = RecordFlags("recorded") /\ LastRecord.body \in RecordBodies("recorded")
        /\ InFlash(hdr, "recorded")
    BY <1>1, FoundIs
  <2> QED BY <2>1 DEF RecordFlags, RecordBodies, InFlash, Intact
<1> DEFINE u == Program(LastRecord, [flags |-> {SpareComplete}, body |-> Erased])
<1>4. u.flags = {SpareComplete} /\ u.body = LastRecord.body
  BY <1>3, ProgramUnitIs
<1> HIDE DEF u
<1>5. Found("pending")' /\ rec' = rec /\ hdr' = hdr /\ work'.queue[rec'] = u
  <2>1. {SpareComplete} \in Flags /\ Erased \in Bodies
    BY DEF Flags, Bodies, SpareComplete
  <2>2. /\ "pending" \in Condition /\ HeaderAt("pending") = HeaderAt("recorded")
        /\ RecordFlags("pending") = {SpareComplete} /\ RecordBodies("pending") = Extent
    BY DEF Condition, HeaderAt, RecordFlags, RecordBodies
  <2>3. Whole' /\ spare'.data \in Data
    BY <1>1, <1>2, <1>3 DEF Whole, FtwTypes, Call
  <2> QED BY <1>1, <1>2, <1>3, <1>4, <2>1, <2>2, <2>3, RecordProgrammed DEF u
<1>6. PendingIn(work') /\ ProgressIn(work') = u
  <2>1. Looks(work'.queue, hdr', "pending") /\ IsValidWorkSpace(work') /\ rec' = hdr' + 1
    BY <1>5 DEF Found, InFlash
  <2>2. PendingIn(work') /\ ProgressIn(work') = work'.queue[hdr' + 1]
    BY <2>1, ProgressIs
  <2> QED BY <1>5, <2>1, <2>2
<1>7. Available' = [target EXCEPT ![args.ext] = args.data]
  <2>1. ProgressIn(work').body = args.ext /\ args.ext \in Extent
    BY <1>1, <1>3, <1>4, <1>6
  <2> QED BY <1>1, <1>2, <1>6, <2>1, AvailableIs
<1>8. Available = target
  BY <1>1, NotPending, AvailableIs
<1> QED BY <1>7, <1>8

LEMMA AvailableStep ==
  ASSUME SingleWrites, FtwTypes, Ahead, Ahead', DriverStep
  PROVE  /\ ~Step("spareComplete") => Available' = Available
         /\ Step("spareComplete") => Available' = [Available EXCEPT ![args.ext] = args.data]
<1>1. CASE ReadingStep
  <2>1. ~Step("spareComplete")
    BY <1>1 DEF ReadingStep, Refresh, Reread, ReadSpare, Allocate, Write, Checks, Restart,
       GetLastWrite, BootStep, BootValid, BootFirst, BootLast, BootTail, BootRestart, Step
  <2> QED BY <1>1, <2>1, ReadingKeeps, AvailableKept
<1>2. CASE SetSpareComplete
  BY <1>2, SpareCompleteStep DEF SetSpareComplete
<1>3. CASE EraseSpare \/ WriteSpare \/ RestoreSpare \/ SpareValid
  <2>1. ~Step("spareComplete")
    BY <1>3 DEF EraseSpare, WriteSpare, RestoreSpare, SpareValid, Step
  <2> QED BY <1>3, <2>1, SpareSteps
<1>4. CASE WorkInvalid \/ EraseWork \/ WriteWork \/ WorkValid
  <2>1. ~Step("spareComplete")
    BY <1>4 DEF WorkInvalid, EraseWork, WriteWork, WorkValid, Step
  <2> QED BY <1>4, <2>1, WorkSteps
<1>5. CASE AllocateHeader \/ AllocateWrites \/ Record \/ WritesComplete \/ Abort
  <2>1. ~Step("spareComplete")
    BY <1>5 DEF AllocateHeader, AllocateWrites, Record, WritesComplete, Abort, Step
  <2> QED BY <1>5, <2>1, UnitSteps
<1>6. CASE EraseTarget \/ WriteTarget \/ DestComplete
  <2>1. ~Step("spareComplete")
    BY <1>6 DEF EraseTarget, WriteTarget, DestComplete, Step
  <2> QED BY <1>6, <2>1, TargetSteps, DestCompleteStep
<1> QED BY <1>1, <1>2, <1>3, <1>4, <1>5, <1>6
     DEF DriverStep, ReclaimStep, WriteStep, ServiceStep, ReadingStep

\* No step of s is one that a write takes before its data counts.
NoneLeft(s) == \A i \in DOMAIN s : s[i] \notin NotYet

LEMMA NoneLeftConcat ==
  ASSUME NEW s \in Seq(StepName), NEW t \in Seq(StepName)
  PROVE  NoneLeft(s \o t) <=> NoneLeft(s) /\ NoneLeft(t)
<1> DEFINE u == s \o t
<1>1. /\ Len(s) \in Nat /\ Len(t) \in Nat /\ DOMAIN s = 1..Len(s) /\ DOMAIN t = 1..Len(t)
  BY LenProperties
<1>2. /\ u \in Seq(StepName) /\ Len(u) = Len(s) + Len(t)
      /\ \A i \in 1..(Len(s) + Len(t)) : u[i] = IF i <= Len(s) THEN s[i] ELSE t[i - Len(s)]
  BY ConcatProperties
<1> HIDE DEF u
<1>3. DOMAIN u = 1..(Len(s) + Len(t))
  BY <1>2, LenProperties
<1>4. \A i \in 1..Len(s) : i \in 1..(Len(s) + Len(t)) /\ u[i] = s[i]
  BY <1>1, <1>2
<1>5. \A i \in 1..Len(t) : i + Len(s) \in 1..(Len(s) + Len(t)) /\ u[i + Len(s)] = t[i]
  <2> SUFFICES ASSUME NEW i \in 1..Len(t)
               PROVE  i + Len(s) \in 1..(Len(s) + Len(t)) /\ u[i + Len(s)] = t[i]
    OBVIOUS
  <2>1. i + Len(s) \in 1..(Len(s) + Len(t)) /\ ~(i + Len(s) <= Len(s)) /\ i + Len(s) - Len(s) = i
    BY <1>1
  <2>2. u[i + Len(s)] = IF i + Len(s) <= Len(s) THEN s[i + Len(s)] ELSE t[i + Len(s) - Len(s)]
    BY <1>2, <2>1
  <2> QED BY <2>1, <2>2
<1>6. \A i \in 1..(Len(s) + Len(t)) :
        \/ i \in 1..Len(s) /\ u[i] = s[i]
        \/ i - Len(s) \in 1..Len(t) /\ u[i] = t[i - Len(s)]
  BY <1>1, <1>2
<1>7. NoneLeft(u) => NoneLeft(s) /\ NoneLeft(t)
  BY <1>1, <1>3, <1>4, <1>5 DEF NoneLeft
<1>8. NoneLeft(s) /\ NoneLeft(t) => NoneLeft(u)
  BY <1>1, <1>3, <1>6 DEF NoneLeft
<1> QED BY <1>7, <1>8 DEF u

LEMMA NoneLeftHead ==
  ASSUME NEW s \in Seq(StepName), s # <<>>
  PROVE  NoneLeft(s) <=> Head(s) \notin NotYet /\ NoneLeft(Tail(s))
<1>1. Head(s) \in StepName /\ Tail(s) \in Seq(StepName)
  BY HeadTailProperties
<1>2. <<Head(s)>> \in Seq(StepName) /\ Len(<<Head(s)>>) = 1 /\ <<Head(s)>>[1] = Head(s)
      /\ DOMAIN <<Head(s)>> = 1..1
  BY <1>1
<1>3. s = <<Head(s)>> \o Tail(s)
  <2> DEFINE u == <<Head(s)>> \o Tail(s)
  <2>1. Len(s) \in Nat /\ Len(s) >= 1 /\ Len(Tail(s)) = Len(s) - 1 /\ Head(s) = s[1]
        /\ \A i \in 1..Len(Tail(s)) : Tail(s)[i] = s[i + 1]
    BY HeadTailProperties, EmptySeq, LenProperties
  <2>2. /\ u \in Seq(StepName) /\ Len(u) = 1 + Len(Tail(s))
        /\ \A i \in 1..(1 + Len(Tail(s))) : u[i] = IF i <= 1 THEN Head(s) ELSE Tail(s)[i - 1]
    <3> DEFINE h == <<Head(s)>>
    <3>1. /\ u \in Seq(StepName) /\ Len(u) = Len(h) + Len(Tail(s))
          /\ \A i \in 1..(Len(h) + Len(Tail(s))) : u[i] = IF i <= Len(h) THEN h[i] ELSE Tail(s)[i - Len(h)]
      BY <1>1, <1>2, ConcatProperties
    <3>2. Len(h) = 1 /\ h[1] = Head(s)
      BY <1>2
    <3> HIDE DEF u, h
    <3>3. \A i \in 1..(1 + Len(Tail(s))) : i <= 1 => i = 1
      OBVIOUS
    <3> QED BY <3>1, <3>2, <3>3
  <2> HIDE DEF u
  <2>3. Len(u) = Len(s)
    BY <2>1, <2>2
  <2>4. \A i \in 1..Len(s) : u[i] = s[i]
    <3> SUFFICES ASSUME NEW i \in 1..Len(s) PROVE u[i] = s[i]
      OBVIOUS
    <3>1. i = 1 \/ (i - 1 \in 1..Len(Tail(s)) /\ ~(i <= 1) /\ i - 1 + 1 = i)
      BY <2>1
    <3>2. i \in 1..(1 + Len(Tail(s)))
      BY <2>1
    <3> QED BY <2>1, <2>2, <3>1, <3>2
  <2> QED BY <2>2, <2>3, <2>4, SeqEqual DEF u
<1>4. NoneLeft(<<Head(s)>>) <=> Head(s) \notin NotYet
  <2>1. \A i \in 1..1 : i = 1
    OBVIOUS
  <2>2. 1 \in 1..1
    OBVIOUS
  <2> QED BY <1>2, <2>1, <2>2 DEF NoneLeft
<1>5. NoneLeft(<<Head(s)>> \o Tail(s)) <=> NoneLeft(<<Head(s)>>) /\ NoneLeft(Tail(s))
  BY <1>1, <1>2, NoneLeftConcat
<1> QED BY <1>3, <1>4, <1>5

LEMMA NoneLeftPrograms ==
  /\ NoneLeft(<<>>) /\ NoneLeft(<<"reread">>) /\ NoneLeft(<<"refresh">>)
  /\ NoneLeft(<<"refresh", "restart">>) /\ NoneLeft(<<"eraseSpare", "restoreSpare">>)
  /\ NoneLeft(ReclaimSteps) /\ NoneLeft(AllocateSteps) /\ NoneLeft(FtwWriteRecord)
  /\ NoneLeft(FtwAbort) /\ NoneLeft(FlushToWorkingBlock)
  /\ ~NoneLeft(WriteSteps) /\ ~NoneLeft(<<"checks">>) /\ ~NoneLeft(<<"refresh", "allocate", "checks">>)
  /\ ~NoneLeft(<<"refresh", "write">>)
<1>1. NoneLeft(<<>>) /\ NoneLeft(<<"reread">>) /\ NoneLeft(<<"refresh">>)
  BY DEF NoneLeft, NotYet
<1>2. NoneLeft(<<"refresh", "restart">>) /\ NoneLeft(<<"eraseSpare", "restoreSpare">>)
  BY DEF NoneLeft, NotYet
<1>3. NoneLeft(AllocateSteps) /\ NoneLeft(FtwAbort)
  BY DEF NoneLeft, NotYet, AllocateSteps, FtwAbort
<1>4. ~NoneLeft(<<"checks">>) /\ ~NoneLeft(<<"refresh", "allocate", "checks">>) /\ ~NoneLeft(<<"refresh", "write">>)
  BY DEF NoneLeft, NotYet
<1>5. NoneLeft(ReclaimSteps)
  <2>1. DOMAIN ReclaimSteps = 1..12
    BY ProgramTypes, ReclaimIs, LenProperties
  <2>2. \A i \in 1..12 : i \in {1, 2, 3, 4, 5, 6, 7, 8, 9, 10, 11, 12}
    OBVIOUS
  <2> QED BY <2>1, <2>2, ReclaimIs DEF NoneLeft, NotYet
<1>6. NoneLeft(FtwWriteRecord)
  <2>1. DOMAIN FtwWriteRecord = 1..5
    BY ProgramTypes, ProgramSteps, LenProperties
  <2>2. \A i \in 1..5 : i \in {1, 2, 3, 4, 5}
    OBVIOUS
  <2> QED BY <2>1, <2>2, ProgramSteps DEF NoneLeft, NotYet
<1>7. NoneLeft(FlushToWorkingBlock)
  <2>1. DOMAIN FlushToWorkingBlock = 1..6
    BY ProgramTypes, ProgramSteps, LenProperties
  <2>2. \A i \in 1..6 : i \in {1, 2, 3, 4, 5, 6}
    OBVIOUS
  <2> QED BY <2>1, <2>2, ProgramSteps DEF NoneLeft, NotYet
<1>8. ~NoneLeft(WriteSteps)
  <2>1. DOMAIN WriteSteps = 1..4 /\ 4 \in 1..4
    BY ProgramTypes, ProgramSteps, LenProperties
  <2> QED BY <2>1, ProgramSteps DEF NoneLeft, NotYet
<1> QED BY <1>1, <1>2, <1>3, <1>4, <1>5, <1>6, <1>7, <1>8

\* A step of the driver fails or goes on; only the two checks of a write that is
\* asked for put steps before those that are left that a write takes before its
\* data counts.
Goes == \E more \in Seq(StepName) :
          Continue(more) /\ (NoneLeft(more) <=> ~Step("write") /\ ~Step("checks"))

LEMMA DriverGoes ==
  ASSUME DriverStep, ~Step("restart")
  PROVE  Return("failed") \/ Goes
<1>1. Continue(<<>>) /\ ~Step("write") /\ ~Step("checks") => Goes
  BY NoneLeftPrograms, StepLiterals DEF Goes
<1>2. /\ ReclaimSteps \o <<>> \in Seq(StepName) /\ NoneLeft(ReclaimSteps \o <<>>)
      /\ ReclaimSteps \o <<"reread">> \in Seq(StepName) /\ NoneLeft(ReclaimSteps \o <<"reread">>)
      /\ ReclaimSteps \o AllocateSteps \in Seq(StepName) /\ NoneLeft(ReclaimSteps \o AllocateSteps)
  BY ProgramTypes, StepLiterals, ConcatProperties, NoneLeftConcat, NoneLeftPrograms
<1>3. ASSUME NEW q, NEW w, NEW more \in {<<>>, <<"reread">>, AllocateSteps}, Reclaim(q, w, more),
             ~Step("write"), ~Step("checks")
      PROVE  Goes
  BY <1>2, <1>3 DEF Reclaim, Goes
<1>4. CASE \/ EraseSpare \/ WriteSpare \/ RestoreSpare \/ SpareValid \/ WorkInvalid \/ ReadSpare
           \/ EraseWork \/ WriteWork \/ WorkValid
  <2>1. Continue(<<>>)
    BY <1>4 DEF EraseSpare, WriteSpare, RestoreSpare, SpareValid, WorkInvalid, ReadSpare, EraseWork,
       WriteWork, WorkValid
  <2>2. ~Step("write") /\ ~Step("checks")
    BY <1>4 DEF EraseSpare, WriteSpare, RestoreSpare, SpareValid, WorkInvalid, ReadSpare, EraseWork,
       WriteWork, WorkValid, Step
  <2> QED BY <1>1, <2>1, <2>2
<1>5. CASE \/ AllocateHeader \/ AllocateWrites \/ Record \/ SetSpareComplete \/ EraseTarget
           \/ WriteTarget \/ DestComplete \/ WritesComplete \/ Abort
  <2>1. Continue(<<>>)
    BY <1>5 DEF AllocateHeader, AllocateWrites, Record, SetSpareComplete, EraseTarget, WriteTarget,
       DestComplete, WritesComplete, Abort
  <2>2. ~Step("write") /\ ~Step("checks")
    BY <1>5 DEF AllocateHeader, AllocateWrites, Record, SetSpareComplete, EraseTarget, WriteTarget,
       DestComplete, WritesComplete, Abort, Step
  <2> QED BY <1>1, <2>1, <2>2
<1>6. CASE Refresh \/ Reread \/ Allocate \/ BootTail
  <2>1. ~Step("write") /\ ~Step("checks")
    BY <1>6 DEF Refresh, Reread, Allocate, BootTail, Step
  <2>2. AllocateSteps \in Seq(StepName) /\ NoneLeft(AllocateSteps)
    BY ProgramTypes, NoneLeftPrograms
  <2>3. Continue(AllocateSteps) => Goes
    BY <2>1, <2>2 DEF Goes
  <2> QED BY <1>1, <1>3, <1>6, <2>1, <2>3 DEF Refresh, Reread, Allocate, BootTail
<1>7. CASE BootValid
  <2>1. ~Step("write") /\ ~Step("checks")
    BY <1>7 DEF BootValid, Step
  <2>2. /\ FlushToWorkingBlock \o FtwAbort \o <<"refresh">> \in Seq(StepName)
        /\ NoneLeft(FlushToWorkingBlock \o FtwAbort \o <<"refresh">>)
    <3>1. FlushToWorkingBlock \o FtwAbort \in Seq(StepName) /\ NoneLeft(FlushToWorkingBlock \o FtwAbort)
      BY ProgramTypes, ConcatProperties, NoneLeftConcat, NoneLeftPrograms
    <3> QED BY <3>1, StepLiterals, ConcatProperties, NoneLeftConcat, NoneLeftPrograms
  <2>3. Continue(FlushToWorkingBlock \o FtwAbort \o <<"refresh">>) => Goes
    BY <2>1, <2>2 DEF Goes
  <2> QED BY <1>1, <1>3, <1>7, <2>1, <2>3 DEF BootValid
<1>8. CASE GetLastWrite \/ BootFirst \/ BootLast \/ BootRestart
  <2>1. ~Step("write") /\ ~Step("checks")
    BY <1>8 DEF GetLastWrite, BootFirst, BootLast, BootRestart, Step
  <2>2. FtwAbort \in Seq(StepName) /\ NoneLeft(FtwAbort)
    BY ProgramTypes, NoneLeftPrograms
  <2>3. /\ <<"refresh", "restart">> \o FtwAbort \in Seq(StepName)
        /\ NoneLeft(<<"refresh", "restart">> \o FtwAbort)
    BY <2>2, StepLiterals, ConcatProperties, NoneLeftConcat, NoneLeftPrograms
  <2>4. \A more \in {FtwAbort, <<"refresh", "restart">> \o FtwAbort} : Continue(more) => Goes
    BY <2>1, <2>2, <2>3 DEF Goes
  <2>5. \E more \in {<<>>, FtwAbort, <<"refresh", "restart">> \o FtwAbort} : Continue(more)
    BY <1>8 DEF GetLastWrite, BootFirst, BootLast, BootRestart
  <2> QED BY <1>1, <2>1, <2>4, <2>5
<1>9. CASE Write
  <2>1. Step("write")
    BY <1>9 DEF Write
  <2>2. \A more \in {<<"checks">>, <<"refresh", "allocate", "checks">>} : Continue(more) => Goes
    BY <2>1, StepLiterals, NoneLeftPrograms DEF Goes
  <2> QED BY <1>9, <2>2 DEF Write
<1>10. CASE Checks
  <2>1. Step("checks")
    BY <1>10 DEF Checks
  <2> DEFINE s == WriteSteps \o FtwWriteRecord \o <<"eraseSpare", "restoreSpare">>
  <2>2. s \in Seq(StepName) /\ ~NoneLeft(s)
    <3>1. WriteSteps \o FtwWriteRecord \in Seq(StepName) /\ ~NoneLeft(WriteSteps \o FtwWriteRecord)
      BY ProgramTypes, ConcatProperties, NoneLeftConcat, NoneLeftPrograms
    <3> QED BY <3>1, StepLiterals, ConcatProperties, NoneLeftConcat
  <2>3. Continue(s) \/ Return("failed")
    BY <1>10 DEF Checks
  <2> HIDE DEF s
  <2> QED BY <2>1, <2>2, <2>3 DEF Goes
<1>11. ~Restart
  BY DEF Restart
<1> QED BY <1>4, <1>5, <1>6, <1>7, <1>8, <1>9, <1>10, <1>11
     DEF DriverStep, ReclaimStep, WriteStep, ServiceStep, BootStep

Requested == IF Writing THEN [ext |-> args.ext, data |-> args.data] ELSE NoWrite
Committed == Writing /\ \A i \in DOMAIN todo : todo[i] \notin NotYet

StoreStep == Store!Next \/ UNCHANGED <<Available, Requested, Committed, reply>>

LEMMA RequestedIs ==
  /\ Writing => Requested = [ext |-> args.ext, data |-> args.data]
  /\ ~Writing => Requested = NoWrite
  /\ Writing' => Requested' = [ext |-> args'.ext, data |-> args'.data]
  /\ ~Writing' => Requested' = NoWrite
  /\ Committed = (Writing /\ NoneLeft(todo))
  /\ Committed' = (Writing' /\ NoneLeft(todo'))
BY DEF Requested, Committed, NoneLeft

LEMMA Goings ==
  ASSUME FtwTypes, todo # <<>>, Goes
  PROVE  /\ todo' = <<>> => reply' = "success" /\ Tail(todo) = <<>> /\ NoneLeft(todo')
         /\ todo' # <<>> => reply' = reply
         /\ NoneLeft(todo') <=> ~Step("write") /\ ~Step("checks") /\ NoneLeft(Tail(todo))
         /\ NoneLeft(todo) <=> Head(todo) \notin NotYet /\ NoneLeft(Tail(todo))
<1>1. PICK more \in Seq(StepName) :
        Continue(more) /\ (NoneLeft(more) <=> ~Step("write") /\ ~Step("checks"))
  BY DEF Goes
<1>2. todo \in Seq(StepName) /\ Tail(todo) \in Seq(StepName) /\ todo' = more \o Tail(todo)
  BY <1>1, HeadTailProperties DEF FtwTypes, Continue
<1>3. NoneLeft(todo') <=> ~Step("write") /\ ~Step("checks") /\ NoneLeft(Tail(todo))
  BY <1>1, <1>2, NoneLeftConcat
<1>4. NoneLeft(todo) <=> Head(todo) \notin NotYet /\ NoneLeft(Tail(todo))
  BY <1>2, NoneLeftHead
<1>5. todo' = <<>> => Tail(todo) = <<>>
  <2>1. /\ todo' \in Seq(StepName) /\ Len(todo') = Len(more) + Len(Tail(todo))
        /\ Len(more) \in Nat /\ Len(Tail(todo)) \in Nat
    BY <1>2, ConcatProperties, LenProperties
  <2>2. todo' = <<>> => Len(todo') = 0
    OBVIOUS
  <2> QED BY <1>2, <2>1, <2>2, EmptySeq
<1>6. (todo' = <<>> => reply' = "success") /\ (todo' # <<>> => reply' = reply)
  BY <1>1 DEF Continue
<1> QED BY <1>3, <1>4, <1>5, <1>6, NoneLeftPrograms

LEMMA RecordNotEmpty == FtwWriteRecord \o WriteEnd # <<>>
<1>1. FtwWriteRecord \in Seq(StepName) /\ WriteEnd \in Seq(StepName) /\ FtwWriteRecord # <<>>
  BY ProgramTypes, RestTypes DEF FtwWriteRecord
<1> QED BY <1>1, HeadTailConcat

LEMMA WritingStep ==
  ASSUME SingleWrites, FtwTypes, FtwInv, Ahead, Ahead', DriverStep, args.op = "write"
  PROVE  StoreStep
<1>1. Writing /\ ~Step("restart") /\ args' = args /\ todo # <<>>
  BY StepIs, DriverKeeps DEF Writing, Ahead
<1>2. Requested = [ext |-> args.ext, data |-> args.data] /\ Requested # NoWrite
  <2>1. args.ext \in Extent /\ args.data \in Data
    BY <1>1 DEF FtwInv, FtwTypes, Call
  <2> QED BY <1>1, <2>1, RequestedIs, RecoveryAssumption
<1>3. /\ ~Step("spareComplete") => Available' = Available
      /\ Step("spareComplete") => Available' = [Available EXCEPT ![Requested.ext] = Requested.data]
  <2>1. Requested.ext = args.ext /\ Requested.data = args.data
    BY <1>2
  <2> QED BY <2>1, AvailableStep
<1>4. Committed <=> NoneLeft(todo)
  BY <1>1, RequestedIs
<1>5. CASE Return("failed")
  <2>1. todo' = <<>> /\ reply' = "failed" /\ ~Step("spareComplete")
    <3>1. Step("spareComplete") => todo' = Tail(todo) /\ Tail(todo) = FtwWriteRecord \o WriteEnd
      BY <1>1, StepIs, ConcatEmptySeq, HeadTailProperties DEF SetSpareComplete, Continue, Ahead, FtwTypes
    <3>2. FtwWriteRecord \o WriteEnd # <<>>
      BY RecordNotEmpty
    <3> QED BY <1>5, <3>1, <3>2 DEF Return
  <2>2. ~Writing' /\ Requested' = NoWrite /\ Committed' = FALSE
    BY <2>1, RequestedIs DEF Writing
  <2> QED BY <1>2, <1>3, <2>1, <2>2 DEF StoreStep, Store!Next, Store!Fail, Requested, Committed
<1>6. CASE Goes /\ todo' = <<>>
  <2>1. reply' = "success" /\ Tail(todo) = <<>> /\ NoneLeft(todo')
    BY <1>1, <1>6, Goings
  <2>2. ~Step("spareComplete")
    BY <2>1, RecordNotEmpty DEF Ahead
  <2>3. NoneLeft(todo)
    <3>1. Head(todo) \notin NotYet
      BY <1>1, <1>6, <2>1, <2>2, Goings DEF NotYet, Step
    <3> QED BY <1>1, <1>6, <2>1, <3>1, Goings
  <2>4. ~Writing' /\ Requested' = NoWrite /\ Committed' = FALSE /\ Committed
    BY <1>4, <1>6, <2>3, RequestedIs DEF Writing
  <2> QED BY <1>2, <1>3, <2>1, <2>2, <2>4 DEF StoreStep, Store!Next, Store!Succeed, Requested, Committed
<1>7. CASE Goes /\ todo' # <<>>
  <2>1. Writing' /\ reply' = reply
    BY <1>1, <1>7, Goings DEF Writing
  <2>2. Requested' = Requested
    BY <1>1, <1>2, <2>1, RequestedIs
  <2>3. Committed' = (Writing' /\ NoneLeft(todo'))
    BY RequestedIs
  <2>4. CASE Step("spareComplete")
    <3>1. ~NoneLeft(todo) /\ NoneLeft(todo')
      <4>1. Head(todo) \in NotYet /\ ~Step("write") /\ ~Step("checks")
        BY <2>4 DEF NotYet, Step
      <4>2. NoneLeft(Tail(todo))
        <5>1. Tail(todo) = FtwWriteRecord \o WriteEnd
          BY <2>4 DEF Ahead
        <5>2. WriteEnd \in Seq(StepName) /\ NoneLeft(WriteEnd)
          BY RestTypes, NoneLeftPrograms DEF WriteEnd
        <5>3. NoneLeft(FtwWriteRecord \o WriteEnd)
          BY <5>2, ProgramTypes, NoneLeftConcat, NoneLeftPrograms
        <5> QED BY <5>1, <5>3
      <4> QED BY <1>1, <1>7, <4>1, <4>2, Goings
    <3>2. ~Committed /\ Committed' = TRUE
      BY <1>4, <2>1, <2>3, <3>1
    <3> QED BY <1>2, <1>3, <2>1, <2>2, <2>4, <3>2 DEF StoreStep, Store!Next, Store!Commit, Requested, Committed
  <2>5. CASE ~Step("spareComplete")
    <3>1. NoneLeft(todo') <=> NoneLeft(todo)
      <4>1. Head(todo) \notin NotYet <=> ~Step("write") /\ ~Step("checks")
        BY <1>1, <2>5 DEF NotYet, Step
      <4> QED BY <1>1, <1>7, <4>1, Goings
    <3>2. Committed' = Committed
      BY <1>1, <2>1, <3>1, RequestedIs
    <3> QED BY <1>3, <2>1, <2>2, <2>5, <3>2 DEF StoreStep
  <2> QED BY <2>4, <2>5
<1> QED BY <1>1, <1>5, <1>6, <1>7, DriverGoes

\* What is not a write changes no contents.
LEMMA OtherStep ==
  ASSUME SingleWrites, FtwTypes, FtwTypes', Ahead, Ahead', DriverStep, args.op # "write"
  PROVE  StoreStep
<1>1. ~Writing /\ ~Writing' /\ ~Step("spareComplete")
  BY DriverKeeps DEF Writing, Ahead
<1>2. Available' = Available
  BY <1>1, AvailableStep
<1>3. Requested = NoWrite /\ Requested' = NoWrite /\ Committed' = Committed
  BY <1>1, RequestedIs
<1>4. reply' \in {"none", "success", "failed"}
  BY DEF FtwTypes
<1> QED BY <1>2, <1>3, <1>4 DEF StoreStep, Store!Next, Store!Other, Requested, Committed

LEMMA RequestStep ==
  ASSUME SingleWrites, FtwTypes, FtwInv, Ahead, Invoke
  PROVE  StoreStep
<1>1. PICK op \in Ops, x \in Extent, d \in Data, n \in 1..MaxWrites :
        args' = [op |-> op, ext |-> x, data |-> d, n |-> n] /\ todo' = Service(op)
  BY DEF Invoke
<1>2. op = "write"
  BY DEF SingleWrites
<1>3. todo' = <<"refresh", "write">> /\ args'.op = "write" /\ args'.ext = x /\ args'.data = d
  BY <1>1, <1>2 DEF Service
<1>4. Requested = NoWrite
  BY RequestedIs DEF Writing, Invoke
<1>5. Requested' = [ext |-> x, data |-> d] /\ Committed' = FALSE
  <2>1. Writing'
    BY <1>3 DEF Writing
  <2> QED BY <1>3, <2>1, RequestedIs, NoneLeftPrograms
<1>6. Available' = Available /\ reply' = "none"
  BY AvailableKept DEF Invoke
<1> QED BY <1>4, <1>5, <1>6 DEF StoreStep, Store!Next, Store!Request, Requested, Committed

LEMMA PowerStep ==
  ASSUME SingleWrites, FtwTypes, FtwInv, Ahead, PowerCut
  PROVE  StoreStep
<1>1. ~Writing' /\ reply' = "none"
  BY DEF PowerCut, BootCall, Writing
<1>2. Requested' = NoWrite /\ Committed' = FALSE
  BY <1>1, RequestedIs
<1>3. Available' = Available
  <2>1. CASE work' = work
    BY <2>1, AvailableKept DEF PowerCut, flash
  <2>2. CASE work' # work /\ Step("eraseWork")
    <3>1. Lost
      BY <2>2, SituationSteady DEF FtwInv, Idle, Steady, Step
    <3>2. Lost'
      BY <2>2, <3>1, TornErase DEF PowerCut
    <3>3. ~PendingIn(work) /\ ~PendingIn(work')
      BY <3>1, <3>2, ProgressIs DEF Lost
    <3> QED BY <3>3, AvailableIs DEF PowerCut
  <2>3. CASE work' # work /\ Step("allocateHeader") /\ ~Step("eraseWork")
    <3>1. Found("free") /\ Offset = hdr
      BY <2>3, SituationSteady DEF FtwInv, Idle, Steady, Step
    <3>2. PICK h \in 1..Beyond : InFlash(h, "bare")'
      BY <2>3, <3>1, TornHeader DEF PowerCut
    <3>3. ~PendingIn(work)
      BY <3>1, NotPending
    <3>4. ~PendingIn(work')
      BY <3>2, ProgressIs DEF InFlash
    <3> QED BY <3>3, <3>4, AvailableIs DEF PowerCut
  <2> QED BY <2>1, <2>2, <2>3 DEF PowerCut, Remains
<1>4. CASE Writing
  <2>1. Requested # NoWrite
    <3>1. args.ext \in Extent /\ args.data \in Data
      BY <1>4 DEF Writing, FtwInv, FtwTypes, Call
    <3> QED BY <1>4, <3>1, RequestedIs, RecoveryAssumption
  <2> QED BY <1>1, <1>2, <1>3, <2>1 DEF StoreStep, Store!Next, Store!Fail, Requested, Committed
<1>5. CASE ~Writing
  <2>1. Requested = NoWrite /\ Committed = FALSE
    BY <1>5, RequestedIs
  <2> QED BY <1>1, <1>2, <1>3, <2>1 DEF StoreStep, Store!Next, Store!Other, Requested, Committed
<1> QED BY <1>4, <1>5

LEMMA StoreInit ==
  ASSUME SingleWrites, Init
  PROVE  Store!Init
<1>1. ~Writing /\ reply = "none"
  BY DEF Init, BootCall, Writing
<1>2. Requested = NoWrite /\ Committed = FALSE
  BY <1>1, RequestedIs
<1>3. Available = [x \in Extent |-> Factory]
  <2>1. ~IsValidWorkSpace(work)
    BY ConstantTypes DEF Init, IsValidWorkSpace
  <2> QED BY <2>1, ProgressIs, AvailableIs DEF Init
<1> QED BY <1>1, <1>2, <1>3 DEF Store!Init, Requested, Committed

LEMMA StoreStutters ==
  ASSUME UNCHANGED vars
  PROVE  StoreStep
<1>1. UNCHANGED <<flash, todo, args, reply>>
  BY DEF vars
<1>2. Available' = Available
  BY <1>1, AvailableKept
<1>3. Requested' = Requested /\ Committed' = Committed
  BY <1>1 DEF Requested, Committed, Writing
<1> QED BY <1>1, <1>2, <1>3 DEF StoreStep

\* FtwWrite is atomic: whenever the power fails, either the contents before a
\* write or those of it are available, and a write that succeeds has taken effect.
THEOREM WritesAreAtomic ==
  ASSUME SingleWrites
  PROVE  Spec => ImplementsAtomicStore
<1> DEFINE Inv == FtwTypes /\ FtwInv /\ Ahead
<1>1. FtwTypes /\ FtwInv => Inv
  BY SituationAhead DEF FtwInv
<1>2. Init => Store!Init
  BY StoreInit
<1>3. Inv /\ Inv' /\ [Next]_vars
        => [Store!Next]_<<Available, IF Writing THEN [ext |-> args.ext, data |-> args.data] ELSE NoWrite,
                          Writing /\ \A i \in DOMAIN todo : todo[i] \notin NotYet, reply>>
  <2> SUFFICES ASSUME Inv, Inv', [Next]_vars PROVE StoreStep
    BY DEF StoreStep, Requested, Committed
  <2>1. CASE DriverStep
    BY <2>1, WritingStep, OtherStep
  <2>2. CASE Invoke
    BY <2>2, RequestStep
  <2>3. CASE PowerCut
    BY <2>3, PowerStep
  <2>4. CASE UNCHANGED vars
    BY <2>4, StoreStutters
  <2>5. ~Fault
    BY DEF Fault, FtwInv
  <2> QED BY <2>1, <2>2, <2>3, <2>4, <2>5 DEF Next
<1>4. Spec => []Inv
  <2> HIDE DEF Inv
  <2> QED BY <1>1, FtwInvariant, PTL
<1> HIDE DEF Inv
<1> QED BY <1>2, <1>3, <1>4, PTL DEF Spec, ImplementsAtomicStore, Store!Spec
=============================================================================
