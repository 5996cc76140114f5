--------------------------- MODULE HandleDbProofs ---------------------------
(***************************************************************************)
(* The sections of the handle database, as functions, proved for any       *)
(* handles, partitions and registrations: what each does to the lists and  *)
(* the openings, and that it preserves what the database promises.         *)
(***************************************************************************)
EXTENDS HandleProps, FiniteSetTheorems, SequenceTheorems, TLAPS

Lists == {s \in Seq(Handle) : IsInjective(s)}

-----------------------------------------------------------------------------
(* The lists of interfaces.                                                 *)

LEMMA ListFacts ==
  ASSUME NEW s \in Lists
  PROVE  /\ s \in Seq(Handle) /\ Len(s) \in Nat /\ DOMAIN s = 1..Len(s)
         /\ \A i \in 1..Len(s) : s[i] \in Handle /\ s[i] # ListHead
         /\ \A i, j \in 1..Len(s) : s[i] = s[j] => i = j
         /\ \A x : x \in Range(s) <=> \E i \in 1..Len(s) : s[i] = x
         /\ \A x : Contains(s, x) <=> x \in Range(s)
         /\ Range(s) \subseteq Handle
<1>1. s \in Seq(Handle) /\ Len(s) \in Nat /\ DOMAIN s = 1..Len(s) /\ IsInjective(s)
  BY DEF Lists
<1>2. \A i \in 1..Len(s) : s[i] \in Handle
  BY <1>1
<1>3. \A i \in 1..Len(s) : s[i] # ListHead
  BY <1>2, HandleAssumption
<1>4. \A x : x \in Range(s) <=> \E i \in 1..Len(s) : s[i] = x
  BY <1>1 DEF Range
<1>5. \A i, j \in 1..Len(s) : s[i] = s[j] => i = j
  BY <1>1 DEF IsInjective
<1>6. \A x : Contains(s, x) <=> x \in Range(s)
  BY <1>4 DEF Contains
<1>7. Range(s) \subseteq Handle
  BY <1>2, <1>4
<1> QED BY <1>1, <1>2, <1>3, <1>4, <1>5, <1>6, <1>7

LEMMA PlaceIs ==
  ASSUME NEW s \in Lists, NEW p \in Range(s)
  PROVE  /\ Place(s, p) \in 1..Len(s) /\ s[Place(s, p)] = p
         /\ \A i \in 1..Len(s) : s[i] = p => i = Place(s, p)
<1>1. PICK i \in 1..Len(s) : s[i] = p
  BY ListFacts
<1>2. p # ListHead /\ DOMAIN s = 1..Len(s)
  BY <1>1, ListFacts
<1>3. Place(s, p) = CHOOSE j \in DOMAIN s : s[j] = p
  BY <1>2 DEF Place
<1>4. Place(s, p) \in 1..Len(s) /\ s[Place(s, p)] = p
  BY <1>1, <1>2, <1>3
<1> QED BY <1>4, ListFacts

LEMMA PlaceRange ==
  ASSUME NEW s \in Lists, NEW p \in Range(s) \cup {ListHead}
  PROVE  Place(s, p) \in 0..Len(s)
<1>0. Len(s) \in Nat
  BY ListFacts
<1>1. CASE p = ListHead
  BY <1>0, <1>1 DEF Place
<1>2. CASE p \in Range(s)
  BY <1>0, <1>2, PlaceIs
<1> QED BY <1>1, <1>2

LEMMA AfterIs ==
  ASSUME NEW s \in Lists, NEW p \in Range(s) \cup {ListHead}
  PROVE  /\ After(s, p) \in Lists
         /\ Len(After(s, p)) = Len(s) - Place(s, p)
         /\ \A i \in 1..(Len(s) - Place(s, p)) : After(s, p)[i] = s[i + Place(s, p)]
<1> DEFINE n == Len(s)
           r == After(s, p)
<1>0. PICK k : k = Place(s, p)
  OBVIOUS
<1>1. n \in Nat /\ k \in 0..n /\ s \in Seq(Handle)
      /\ \A i, j \in 1..n : s[i] = s[j] => i = j
  BY <1>0, PlaceRange, ListFacts
<1>2. r = SubSeq(s, k + 1, n)
  BY <1>0 DEF After
<1> HIDE DEF r
<1>3. /\ r \in Seq(Handle) /\ Len(r) = n - k
      /\ \A i \in 1..(n - k) : r[i] = s[i + k]
  BY <1>1, <1>2, SubSeqProperties
<1>4. IsInjective(r)
  <2> SUFFICES ASSUME NEW i \in 1..(n - k), NEW j \in 1..(n - k), r[i] = r[j] PROVE i = j
    BY <1>3 DEF IsInjective
  <2>1. s[i + k] = s[j + k] /\ i + k \in 1..n /\ j + k \in 1..n
    BY <1>1, <1>3
  <2> QED BY <1>1, <2>1
<1> QED BY <1>0, <1>3, <1>4 DEF Lists, r

LEMMA RemovedIs ==
  ASSUME NEW s \in Lists, NEW h \in Range(s)
  PROVE  /\ RemoveEntry(s, h) \in Lists
         /\ Len(RemoveEntry(s, h)) = Len(s) - 1
         /\ \A j \in 1..(Len(s) - 1) :
              RemoveEntry(s, h)[j] = IF j < Place(s, h) THEN s[j] ELSE s[j + 1]
         /\ Range(RemoveEntry(s, h)) = Range(s) \ {h}
<1> DEFINE n == Len(s)
           r == RemoveEntry(s, h)
<1>0. PICK i : i = Place(s, h)
  OBVIOUS
<1>1. /\ s \in Seq(Handle) /\ n \in Nat /\ i \in 1..n /\ s[i] = h
      /\ \A j \in 1..n : s[j] = h => j = i
      /\ \A j, k \in 1..n : s[j] = s[k] => j = k
      /\ \A x : x \in Range(s) <=> \E j \in 1..n : s[j] = x
  BY <1>0, PlaceIs, ListFacts
<1> DEFINE a == SubSeq(s, 1, i - 1)
           b == SubSeq(s, i + 1, n)
<1>2. r = a \o b
  BY <1>0, ListFacts DEF RemoveEntry, RemoveAt
<1>3. /\ a \in Seq(Handle) /\ Len(a) = i - 1
      /\ \A j \in 1..(i - 1) : a[j] = s[j]
  BY <1>1, SubSeqProperties
<1>4. /\ b \in Seq(Handle) /\ Len(b) = n - i
      /\ \A j \in 1..(n - i) : b[j] = s[j + i]
  BY <1>1, SubSeqProperties
<1> HIDE DEF a, b, r, n
<1>5. /\ r \in Seq(Handle) /\ Len(r) = n - 1
      /\ \A j \in 1..(n - 1) : r[j] = IF j <= i - 1 THEN a[j] ELSE b[j - (i - 1)]
  <2>1. /\ a \o b \in Seq(Handle) /\ Len(a \o b) = Len(a) + Len(b)
        /\ \A j \in 1..(Len(a) + Len(b)) :
             (a \o b)[j] = IF j <= Len(a) THEN a[j] ELSE b[j - Len(a)]
    BY <1>3, <1>4, ConcatProperties
  <2>2. Len(a) + Len(b) = n - 1
    BY <1>1, <1>3, <1>4
  <2> QED BY <1>2, <1>3, <2>1, <2>2
<1>6. ASSUME NEW j \in 1..(n - 1)
      PROVE  r[j] = IF j < i THEN s[j] ELSE s[j + 1]
  <2>1. CASE j < i
    BY <1>1, <1>3, <1>5, <2>1
  <2>2. CASE ~(j < i)
    <3>1. j - (i - 1) \in 1..(n - i) /\ (j - (i - 1)) + i = j + 1
      BY <1>1, <2>2
    <3>2. r[j] = b[j - (i - 1)]
      BY <1>1, <1>5, <2>2
    <3> QED BY <1>4, <2>2, <3>1, <3>2
  <2> QED BY <2>1, <2>2
<1>7. DOMAIN r = 1..(n - 1)
  BY <1>5
<1>8. IsInjective(r)
  <2> SUFFICES ASSUME NEW j \in 1..(n - 1), NEW k \in 1..(n - 1), r[j] = r[k] PROVE j = k
    BY <1>7 DEF IsInjective
  <2> DEFINE jj == IF j < i THEN j ELSE j + 1
             kk == IF k < i THEN k ELSE k + 1
  <2>1. jj \in 1..n /\ kk \in 1..n /\ r[j] = s[jj] /\ r[k] = s[kk]
    BY <1>1, <1>6
  <2>2. jj = kk
    BY <1>1, <2>1
  <2> QED BY <1>1, <2>2
<1>9. ASSUME NEW x PROVE x \in Range(r) <=> x \in Range(s) /\ x # h
  <2>1. ASSUME x \in Range(r) PROVE x \in Range(s) /\ x # h
    <3>1. PICK j \in 1..(n - 1) : r[j] = x
      BY <1>7, <2>1 DEF Range
    <3> DEFINE jj == IF j < i THEN j ELSE j + 1
    <3>2. jj \in 1..n /\ s[jj] = x /\ jj # i
      BY <1>1, <1>6, <3>1
    <3> QED BY <1>1, <3>2
  <2>2. ASSUME x \in Range(s), x # h PROVE x \in Range(r)
    <3>1. PICK j \in 1..n : s[j] = x
      BY <1>1, <2>2
    <3> DEFINE jj == IF j < i THEN j ELSE j - 1
    <3>2. j # i
      BY <1>1, <2>2, <3>1
    <3>3. jj \in 1..(n - 1) /\ r[jj] = x
      BY <1>1, <1>6, <3>1, <3>2
    <3> QED BY <1>7, <3>3 DEF Range
  <2> QED BY <2>1, <2>2
<1> QED BY <1>0, <1>5, <1>6, <1>8, <1>9 DEF Lists, r, n

LEMMA NotRemoved ==
  ASSUME NEW s \in Lists, NEW h, h \notin Range(s)
  PROVE  RemoveEntry(s, h) = s
BY ListFacts DEF RemoveEntry

\* New interfaces at the end of a list.
LEMMA JoinedIs ==
  ASSUME NEW s \in Lists, NEW t \in Lists, Range(s) \cap Range(t) = {}
  PROVE  /\ s \o t \in Lists /\ Range(s \o t) = Range(s) \cup Range(t)
         /\ Len(s \o t) = Len(s) + Len(t)
         /\ \A i \in 1..Len(s) : (s \o t)[i] = s[i]
         /\ \A i \in 1..Len(t) : (s \o t)[Len(s) + i] = t[i]
<1> DEFINE r == s \o t
<1>0. PICK n \in Nat, m \in Nat : n = Len(s) /\ m = Len(t)
  BY ListFacts
<1>1. /\ s \in Seq(Handle) /\ t \in Seq(Handle)
      /\ \A i, j \in 1..n : s[i] = s[j] => i = j
      /\ \A i, j \in 1..m : t[i] = t[j] => i = j
      /\ \A x : x \in Range(s) <=> \E i \in 1..n : s[i] = x
      /\ \A x : x \in Range(t) <=> \E i \in 1..m : t[i] = x
  BY <1>0, ListFacts
<1>2. /\ r \in Seq(Handle) /\ Len(r) = n + m /\ DOMAIN r = 1..(n + m)
      /\ \A i \in 1..(n + m) : r[i] = IF i <= n THEN s[i] ELSE t[i - n]
  BY <1>0, <1>1, ConcatProperties
<1> HIDE DEF r
<1>3. \A i \in 1..n : i \in 1..(n + m) /\ r[i] = s[i]
  BY <1>0, <1>2
<1>4. \A i \in 1..m : n + i \in 1..(n + m) /\ r[n + i] = t[i]
  BY <1>0, <1>2
<1>5. \A i \in 1..(n + m) : (i \in 1..n /\ r[i] = s[i]) \/ (i - n \in 1..m /\ r[i] = t[i - n])
  BY <1>0, <1>2
<1>6. IsInjective(r)
  <2> SUFFICES ASSUME NEW i \in 1..(n + m), NEW j \in 1..(n + m), r[i] = r[j] PROVE i = j
    BY <1>2 DEF IsInjective
  <2>1. CASE i \in 1..n /\ r[i] = s[i] /\ j \in 1..n /\ r[j] = s[j]
    BY <1>1, <2>1
  <2>2. CASE i \in 1..n /\ r[i] = s[i] /\ j - n \in 1..m /\ r[j] = t[j - n]
    BY <1>1, <2>2
  <2>3. CASE i - n \in 1..m /\ r[i] = t[i - n] /\ j \in 1..n /\ r[j] = s[j]
    BY <1>1, <2>3
  <2>4. CASE i - n \in 1..m /\ r[i] = t[i - n] /\ j - n \in 1..m /\ r[j] = t[j - n]
    <3>1. i - n = j - n
      BY <1>1, <2>4
    <3> QED BY <1>0, <3>1
  <2> QED BY <1>5, <2>1, <2>2, <2>3, <2>4
<1>7. Range(r) = Range(s) \cup Range(t)
  <2>1. \A x : x \in Range(r) <=> \E i \in 1..(n + m) : r[i] = x
    BY <1>2 DEF Range
  <2>2. ASSUME NEW x \in Range(r) PROVE x \in Range(s) \cup Range(t)
    BY <1>1, <1>5, <2>1
  <2>3. ASSUME NEW x \in Range(s) PROVE x \in Range(r)
    BY <1>1, <1>3, <2>1
  <2>4. ASSUME NEW x \in Range(t) PROVE x \in Range(r)
    BY <1>1, <1>4, <2>1
  <2> QED BY <2>2, <2>3, <2>4
<1> QED BY <1>0, <1>2, <1>3, <1>4, <1>6, <1>7 DEF Lists, r

LEMMA OneIs ==
  ASSUME NEW h \in Handle
  PROVE  <<h>> \in Lists /\ Range(<<h>>) = {h} /\ Len(<<h>>) = 1
<1>1. <<h>> \in Seq(Handle) /\ Len(<<h>>) = 1 /\ DOMAIN <<h>> = {1} /\ <<h>>[1] = h
  OBVIOUS
<1> QED BY <1>1 DEF Lists, IsInjective, Range

LEMMA OrderIs ==
  ASSUME NEW S \in SUBSET Handle, IsFiniteSet(S)
  PROVE  /\ SetToSeq(S) \in Lists /\ Range(SetToSeq(S)) = S
         /\ SetToSeq(S) \in {q \in [1..Cardinality(S) -> S] : IsInjective(q)}
<1> DEFINE n == Cardinality(S)
<1>1. n \in Nat
  BY FS_CardinalityType
<1>2. PICK b \in [1..n -> S] : IsInjective(b)
  <2>1. PICK f : f \in Bijection(1..n, S)
    BY FS_CardinalityType DEF ExistsBijection
  <2> QED BY <2>1 DEF Bijection, Injection, IsInjective
<1>3. SetToSeq(S) \in [1..n -> S] /\ IsInjective(SetToSeq(S))
  BY <1>2 DEF SetToSeq
<1>4. PICK q : q = SetToSeq(S)
  OBVIOUS
<1>5. q \in Seq(Handle) /\ Len(q) = n /\ q \in [1..n -> S]
  BY <1>1, <1>3, <1>4
<1>6. Range(q) = S
  <2>1. q \in Injection(1..n, S) /\ IsFiniteSet(1..n) /\ Cardinality(1..n) = n
    BY <1>1, <1>3, <1>4, FS_Interval DEF Injection
  <2>2. q \in Surjection(1..n, S)
    BY <2>1, FS_Injection
  <2> QED BY <1>5, <2>2 DEF Surjection, Range
<1> QED BY <1>3, <1>4, <1>5, <1>6 DEF Lists
-----------------------------------------------------------------------------
(* What holds of the database between any two sections.                     *)

\* The driver that opens the interfaces of a protocol BY_DRIVER.
OwnerOf(g) == IF g = BlockIo THEN DiskIoDxe ELSE PartitionDxe

ItemOK(h, g, i) ==
  /\ i.attr = "driver" => i = Opened(OwnerOf(g), h, "driver")
  /\ i.attr = "child" => g = DiskIo /\ i.agent = PartitionDxe /\ i.controller \in Partitions[h]
  /\ i.attr = "exclusive" => i = Opened(App, NoHandle, "exclusive")

\* The OpenList of an interface.
OpenOK(h, g, live, items) ==
  /\ items \in SUBSET OpenData
  /\ items # {} => live
  /\ \A i \in items : ItemOK(h, g, i)
  /\ \A i, j \in items : ~(i.attr = "driver" /\ j.attr = "exclusive")

DbInv(d) ==
  /\ d \in Database
  /\ \A g \in Guid : IsInjective(d.list[g])
  /\ \A r \in Registration : d.position[r] \in Range(d.list[RegGuid[r]]) \cup {ListHead}
  /\ \A h \in Handle, g \in Guid : OpenOK(h, g, Live(d, h, g), d.open[<<h, g>>])

\* What the sections are made of.
PutOpen(d, o)          == [d EXCEPT !.open = o]
PutList(d, l)          == [d EXCEPT !.list = l]
PutPosition(d, p)      == [d EXCEPT !.position = p]
PutSignalled(d, q)     == [d EXCEPT !.signalled = q]
Reopen(d, h, g, items) == [d EXCEPT !.open[<<h, g>>] = items]
Enlist(d, g, t)        == [d EXCEPT !.list[g] = @ \o t]

LEMMA Fields ==
  ASSUME NEW d \in Database
  PROVE  /\ d.list \in [Guid -> Seq(Handle)]
         /\ d.open \in [Handle \X Guid -> SUBSET OpenData]
         /\ d.position \in [Registration -> Handle \cup {ListHead}]
         /\ d.signalled \in SUBSET Registration
BY DEF Database

LEMMA SetOpen ==
  ASSUME NEW d \in Database, NEW o \in [Handle \X Guid -> SUBSET OpenData],
         NEW e, e = PutOpen(d, o)
  PROVE  /\ e \in Database
         /\ e.open = o
         /\ e.list = d.list
         /\ e.position = d.position
         /\ e.signalled = d.signalled
BY DEF Database, PutOpen

LEMMA SetList ==
  ASSUME NEW d \in Database, NEW l \in [Guid -> Seq(Handle)],
         NEW e, e = PutList(d, l)
  PROVE  /\ e \in Database
         /\ e.list = l
         /\ e.open = d.open
         /\ e.position = d.position
         /\ e.signalled = d.signalled
BY DEF Database, PutList

LEMMA SetPosition ==
  ASSUME NEW d \in Database, NEW p \in [Registration -> Handle \cup {ListHead}],
         NEW e, e = PutPosition(d, p)
  PROVE  /\ e \in Database
         /\ e.position = p
         /\ e.list = d.list
         /\ e.open = d.open
         /\ e.signalled = d.signalled
BY DEF Database, PutPosition

LEMMA SetSignalled ==
  ASSUME NEW d \in Database, NEW q \in SUBSET Registration,
         NEW e, e = PutSignalled(d, q)
  PROVE  /\ e \in Database
         /\ e.signalled = q
         /\ e.list = d.list
         /\ e.open = d.open
         /\ e.position = d.position
BY DEF Database, PutSignalled

LEMMA DbLists ==
  ASSUME NEW d, DbInv(d), NEW g \in Guid
  PROVE  /\ d.list[g] \in Lists
         /\ \A h : Live(d, h, g) <=> h \in Range(d.list[g])
<1>1. d.list[g] \in Lists
  BY Fields DEF DbInv, Lists
<1> QED BY <1>1, ListFacts DEF Live

\* e is d with "items" as the OpenList of an interface, with one more opening of it,
\* with an interface at the end of a list, with partitions on a disk.
OpenListIs(d, h, g, items, e) ==
  /\ DbInv(e)
  /\ e.list = d.list /\ e.position = d.position /\ e.signalled = d.signalled
  /\ \A x \in Handle, y \in Guid : e.open[<<x, y>>] =
       IF x = h /\ y = g THEN items ELSE d.open[<<x, y>>]

Grown(d, h, g, item, e) ==
  /\ DbInv(e)
  /\ e.list = d.list /\ e.position = d.position /\ e.signalled = d.signalled
  /\ \A x \in Handle, y \in Guid : e.open[<<x, y>>] =
       IF x = h /\ y = g /\ Live(d, h, g) THEN d.open[<<x, y>>] \cup {item}
       ELSE d.open[<<x, y>>]

Installed(d, h, g, e) ==
  /\ DbInv(e)
  /\ \A y \in Guid : e.list[y] = IF y = g THEN d.list[y] \o <<h>> ELSE d.list[y]
  /\ e.position = d.position /\ e.open = d.open
  /\ e.signalled = d.signalled \cup {r \in Registration : RegGuid[r] = g}
  /\ \A x \in Handle, y \in Guid : Live(e, x, y) <=> Live(d, x, y) \/ (y = g /\ x = h)

\* An OpenList changes, and nothing else.
LEMMA Reopened ==
  ASSUME NEW d, DbInv(d), NEW h \in Handle, NEW g \in Guid, NEW items,
         OpenOK(h, g, Live(d, h, g), items),
         NEW e, e = Reopen(d, h, g, items)
  PROVE  OpenListIs(d, h, g, items, e)
<1> DEFINE o == [d.open EXCEPT ![<<h, g>>] = items]
<1>1. d \in Database /\ items \in SUBSET OpenData
  BY DEF DbInv, OpenOK
<1>2. o \in [Handle \X Guid -> SUBSET OpenData]
  BY <1>1, Fields
<1>3. \A x \in Handle, y \in Guid :
        o[<<x, y>>] = IF x = h /\ y = g THEN items ELSE d.open[<<x, y>>]
  BY <1>1, Fields
<1>4. e = PutOpen(d, o)
  BY DEF Reopen, PutOpen
<1> HIDE DEF o
<1>5. /\ e \in Database /\ e.open = o /\ e.list = d.list /\ e.position = d.position
      /\ e.signalled = d.signalled
  BY <1>1, <1>2, <1>4, SetOpen
<1>6. \A x \in Handle, y \in Guid : Live(e, x, y) = Live(d, x, y)
  BY <1>5 DEF Live
<1>7. ASSUME NEW x \in Handle, NEW y \in Guid
      PROVE  OpenOK(x, y, Live(e, x, y), e.open[<<x, y>>])
  <2>1. CASE x = h /\ y = g
    <3>1. e.open[<<x, y>>] = items
      BY <1>3, <1>5, <2>1
    <3>2. Live(e, x, y) = Live(d, h, g)
      BY <1>6, <2>1
    <3> QED BY <2>1, <3>1, <3>2, Zenon
  <2>2. CASE ~(x = h /\ y = g)
    <3>1. e.open[<<x, y>>] = d.open[<<x, y>>]
      BY <1>3, <1>5, <2>2
    <3> QED BY <1>6, <3>1, Zenon DEF DbInv
  <2> QED BY <2>1, <2>2
<1>8. DbInv(e)
  BY <1>5, <1>7 DEF DbInv
<1> QED BY <1>3, <1>5, <1>8 DEF OpenListIs

\* CoreOpenProtocol lets the opening in.
Admits(d, h, g, item) ==
  Live(d, h, g) =>
    /\ ItemOK(h, g, item)
    /\ item.attr = "driver" => With(d, h, g, "exclusive") = {}
    /\ item.attr = "exclusive" => With(d, h, g, "driver") = {}

LEMMA AddGrows ==
  ASSUME NEW d, DbInv(d), NEW h \in Handle, NEW g \in Guid, NEW item \in OpenData,
         Admits(d, h, g, item),
         NEW e, e = Add(d, h, g, item)
  PROVE  Grown(d, h, g, item, e)
<1> DEFINE items == d.open[<<h, g>>] \cup {item}
<1>1. CASE ~Live(d, h, g)
  BY <1>1 DEF Add, Grown
<1>2. CASE Live(d, h, g)
  <2>1. e = Reopen(d, h, g, items)
    BY <1>2 DEF Add, Reopen
  <2>2. OpenOK(h, g, Live(d, h, g), d.open[<<h, g>>])
    BY DEF DbInv
  <2>3. \A i, j \in items : ~(i.attr = "driver" /\ j.attr = "exclusive")
    BY <1>2, <2>2 DEF OpenOK, With, Admits
  <2>4. OpenOK(h, g, Live(d, h, g), items)
    BY <1>2, <2>2, <2>3 DEF OpenOK, Admits
  <2> HIDE DEF items
  <2>5. OpenListIs(d, h, g, items, e)
    BY <2>1, <2>4, Reopened
  <2>6. \A x \in Handle, y \in Guid : e.open[<<x, y>>] =
          IF x = h /\ y = g /\ Live(d, h, g) THEN d.open[<<x, y>>] \cup {item}
          ELSE d.open[<<x, y>>]
    BY <1>2, <2>5 DEF items, OpenListIs
  <2> QED BY <2>5, <2>6 DEF Grown, OpenListIs
<1> QED BY <1>1, <1>2

LEMMA AddIs ==
  ASSUME NEW d, DbInv(d), NEW h \in Handle, NEW g \in Guid, NEW item \in OpenData,
         Admits(d, h, g, item),
         NEW e, e = Add(d, h, g, item)
  PROVE  /\ DbInv(e)
         /\ e.list = d.list /\ e.position = d.position /\ e.signalled = d.signalled
         /\ \A x \in Handle, y \in Guid : e.open[<<x, y>>] =
              IF x = h /\ y = g /\ Live(d, h, g) THEN d.open[<<x, y>>] \cup {item}
              ELSE d.open[<<x, y>>]
<1>1. Grown(d, h, g, item, e)
  BY AddGrows
<1> QED BY <1>1 DEF Grown

\* Openings are taken out of an OpenList.
LEMMA NarrowedIs ==
  ASSUME NEW d, DbInv(d), NEW h \in Handle, NEW g \in Guid,
         NEW items \in SUBSET d.open[<<h, g>>],
         NEW e, e = Reopen(d, h, g, items)
  PROVE  OpenListIs(d, h, g, items, e)
<1>1. OpenOK(h, g, Live(d, h, g), items)
  <2>1. OpenOK(h, g, Live(d, h, g), d.open[<<h, g>>])
    BY DEF DbInv
  <2> QED BY <2>1 DEF OpenOK
<1> QED BY <1>1, Reopened

LEMMA CloseIs ==
  ASSUME NEW d, DbInv(d), NEW h \in Handle, NEW g \in Guid, NEW agent, NEW controller,
         NEW e, e = CoreCloseProtocol(d, h, g, agent, controller)
  PROVE  /\ DbInv(e)
         /\ e.list = d.list /\ e.position = d.position /\ e.signalled = d.signalled
         /\ \A x \in Handle, y \in Guid : e.open[<<x, y>>] =
              IF x = h /\ y = g
              THEN {i \in d.open[<<x, y>>] : i.agent # agent \/ i.controller # controller}
              ELSE d.open[<<x, y>>]
<1> DEFINE items == {i \in d.open[<<h, g>>] : i.agent # agent \/ i.controller # controller}
<1>1. e = Reopen(d, h, g, items)
  BY DEF CoreCloseProtocol, Reopen
<1>2. items \in SUBSET d.open[<<h, g>>]
  OBVIOUS
<1>3. \A x \in Handle, y \in Guid :
        (IF x = h /\ y = g THEN items ELSE d.open[<<x, y>>]) =
        (IF x = h /\ y = g
         THEN {i \in d.open[<<x, y>>] : i.agent # agent \/ i.controller # controller}
         ELSE d.open[<<x, y>>])
  OBVIOUS
<1> HIDE DEF items
<1>4. OpenListIs(d, h, g, items, e)
  BY <1>1, <1>2, NarrowedIs
<1> QED BY <1>3, <1>4 DEF OpenListIs

\* The openings but those by GET_PROTOCOL.
NotGets(items) == {i \in items : i.attr # "get"}

LEMMA RemoveGetsIs ==
  ASSUME NEW d, DbInv(d), NEW h \in Handle, NEW g \in Guid,
         NEW e, e = RemoveGets(d, h, g)
  PROVE  /\ DbInv(e)
         /\ e.list = d.list /\ e.position = d.position /\ e.signalled = d.signalled
         /\ \A x \in Handle, y \in Guid : e.open[<<x, y>>] =
              IF x = h /\ y = g THEN NotGets(d.open[<<x, y>>]) ELSE d.open[<<x, y>>]
<1>0. PICK items : items = NotGets(d.open[<<h, g>>])
  OBVIOUS
<1>1. e = Reopen(d, h, g, items)
  BY <1>0 DEF RemoveGets, Reopen, NotGets
<1>2. items \in SUBSET d.open[<<h, g>>]
  BY <1>0 DEF NotGets
<1>4. OpenListIs(d, h, g, items, e)
  BY <1>1, <1>2, NarrowedIs
<1> QED BY <1>0, <1>4 DEF OpenListIs

\* Registrations are signalled, or taken from those that are.
LEMMA SignalledIs ==
  ASSUME NEW d, DbInv(d), NEW q \in SUBSET Registration,
         NEW e, e = PutSignalled(d, q)
  PROVE  /\ DbInv(e)
         /\ e.list = d.list /\ e.position = d.position /\ e.open = d.open
         /\ e.signalled = q
<1>1. /\ e \in Database /\ e.list = d.list /\ e.open = d.open
      /\ e.position = d.position /\ e.signalled = q
  BY SetSignalled DEF DbInv
<1>2. DbInv(e)
  BY <1>1 DEF DbInv, Live
<1> QED BY <1>1, <1>2

LEMMA NotifyIs ==
  ASSUME NEW d, DbInv(d), NEW g \in Guid,
         NEW e, e = CoreNotifyProtocolEntry(d, g)
  PROVE  /\ DbInv(e)
         /\ e.list = d.list /\ e.position = d.position /\ e.open = d.open
         /\ e.signalled = d.signalled \cup {r \in Registration : RegGuid[r] = g}
<1> DEFINE q == d.signalled \cup {r \in Registration : RegGuid[r] = g}
<1>1. q \in SUBSET Registration
  BY Fields DEF DbInv
<1>2. e = PutSignalled(d, q)
  BY DEF CoreNotifyProtocolEntry, PutSignalled
<1> HIDE DEF q
<1> QED BY <1>1, <1>2, SignalledIs DEF q

\* New interfaces are inserted at the tail.
LEMMA InsertedIs ==
  ASSUME NEW d, DbInv(d), NEW g \in Guid, NEW t \in Lists,
         Range(t) \cap Range(d.list[g]) = {},
         NEW e, e = Enlist(d, g, t)
  PROVE  /\ DbInv(e)
         /\ \A y \in Guid : e.list[y] = IF y = g THEN d.list[y] \o t ELSE d.list[y]
         /\ e.position = d.position /\ e.open = d.open /\ e.signalled = d.signalled
         /\ \A x \in Handle, y \in Guid :
              Live(e, x, y) <=> Live(d, x, y) \/ (y = g /\ x \in Range(t))
<1> DEFINE l == [d.list EXCEPT ![g] = @ \o t]
<1>1. /\ d.list[g] \o t \in Lists
      /\ Range(d.list[g] \o t) = Range(d.list[g]) \cup Range(t)
  BY DbLists, JoinedIs
<1>2. d.list \in [Guid -> Seq(Handle)] /\ d.list[g] \o t \in Seq(Handle)
  BY <1>1, Fields DEF DbInv, Lists
<1>3. l \in [Guid -> Seq(Handle)]
      /\ \A y \in Guid : l[y] = IF y = g THEN d.list[g] \o t ELSE d.list[y]
  BY <1>2
<1>4. e = PutList(d, l)
  BY DEF Enlist, PutList
<1> HIDE DEF l
<1>5. /\ e \in Database /\ e.list = l /\ e.open = d.open /\ e.position = d.position
      /\ e.signalled = d.signalled
  BY <1>3, <1>4, SetList DEF DbInv
<1>6. ASSUME NEW y \in Guid
      PROVE  /\ e.list[y] \in Lists
             /\ Range(e.list[y]) = Range(d.list[y]) \cup (IF y = g THEN Range(t) ELSE {})
  BY <1>1, <1>3, <1>5, DbLists
<1>7. ASSUME NEW x \in Handle, NEW y \in Guid
      PROVE  Live(e, x, y) <=> Live(d, x, y) \/ (y = g /\ x \in Range(t))
  <2>1. Live(e, x, y) <=> x \in Range(e.list[y])
    BY <1>6, ListFacts DEF Live
  <2>2. Live(d, x, y) <=> x \in Range(d.list[y])
    BY DbLists
  <2> QED BY <1>6, <2>1, <2>2
<1>8. \A r \in Registration : e.position[r] \in Range(e.list[RegGuid[r]]) \cup {ListHead}
  <2> SUFFICES ASSUME NEW r \in Registration
               PROVE  e.position[r] \in Range(e.list[RegGuid[r]]) \cup {ListHead}
    OBVIOUS
  <2>1. RegGuid[r] \in Guid
    BY HandleAssumption
  <2>2. d.position[r] \in Range(d.list[RegGuid[r]]) \cup {ListHead}
    BY DEF DbInv
  <2> QED BY <1>5, <1>6, <2>1, <2>2
<1>9. DbInv(e)
  <2>1. \A y \in Guid : IsInjective(e.list[y])
    BY <1>6 DEF Lists
  <2>2. ASSUME NEW x \in Handle, NEW y \in Guid
        PROVE  OpenOK(x, y, Live(e, x, y), e.open[<<x, y>>])
    <3>1. OpenOK(x, y, Live(d, x, y), d.open[<<x, y>>])
      BY DEF DbInv
    <3>2. Live(d, x, y) => Live(e, x, y)
      BY <1>7
    <3>3. OpenOK(x, y, Live(e, x, y), d.open[<<x, y>>])
      BY <3>1, <3>2, Zenon DEF OpenOK
    <3> QED BY <1>5, <3>3
  <2> QED BY <1>5, <1>8, <2>1, <2>2 DEF DbInv
<1> QED BY <1>3, <1>5, <1>7, <1>9

LEMMA TailIs ==
  ASSUME NEW d, DbInv(d), NEW h \in Handle, NEW g \in Guid, ~Live(d, h, g),
         NEW a, a = InsertTail(d, h, g)
  PROVE  /\ DbInv(a)
         /\ \A y \in Guid : a.list[y] = IF y = g THEN d.list[y] \o <<h>> ELSE d.list[y]
         /\ a.position = d.position /\ a.open = d.open /\ a.signalled = d.signalled
         /\ \A x \in Handle, y \in Guid : Live(a, x, y) <=> Live(d, x, y) \/ (y = g /\ x = h)
<1>0. PICK t : t = <<h>>
  OBVIOUS
<1>1. d.list[g] \in Seq(Handle) /\ t \in Lists /\ Range(t) = {h}
      /\ Range(t) \cap Range(d.list[g]) = {}
  BY <1>0, DbLists, OneIs DEF Lists
<1>2. Append(d.list[g], h) = d.list[g] \o t
  BY <1>0, <1>1
<1>3. a = Enlist(d, g, t)
  BY <1>2 DEF InsertTail, Enlist
<1>4. /\ DbInv(a)
      /\ \A y \in Guid : a.list[y] = IF y = g THEN d.list[y] \o t ELSE d.list[y]
      /\ a.position = d.position /\ a.open = d.open /\ a.signalled = d.signalled
      /\ \A x \in Handle, y \in Guid :
           Live(a, x, y) <=> Live(d, x, y) \/ (y = g /\ x \in Range(t))
  BY <1>1, <1>3, InsertedIs, SMTT(60)
<1> QED BY <1>0, <1>1, <1>4

LEMMA Installs ==
  ASSUME NEW d, DbInv(d), NEW h \in Handle, NEW g \in Guid, ~Live(d, h, g),
         NEW e, e = Install(d, h, g)
  PROVE  Installed(d, h, g, e)
<1>1. PICK a : a = InsertTail(d, h, g)
  OBVIOUS
<1>2. /\ DbInv(a)
      /\ \A y \in Guid : a.list[y] = IF y = g THEN d.list[y] \o <<h>> ELSE d.list[y]
      /\ a.position = d.position /\ a.open = d.open /\ a.signalled = d.signalled
      /\ \A x \in Handle, y \in Guid : Live(a, x, y) <=> Live(d, x, y) \/ (y = g /\ x = h)
  BY <1>1, TailIs, SMTT(30)
<1>3. e = CoreNotifyProtocolEntry(a, g)
  BY <1>1, Zenon DEF Install
<1>4. /\ DbInv(e) /\ e.list = a.list /\ e.position = a.position /\ e.open = a.open
      /\ e.signalled = a.signalled \cup {r \in Registration : RegGuid[r] = g}
  BY <1>2, <1>3, NotifyIs, SMTT(30)
<1>5. \A x \in Handle, y \in Guid : Live(e, x, y) <=> Live(d, x, y) \/ (y = g /\ x = h)
  BY <1>2, <1>4 DEF Live
<1> QED BY <1>2, <1>4, <1>5 DEF Installed

LEMMA InstallIs ==
  ASSUME NEW d, DbInv(d), NEW h \in Handle, NEW g \in Guid, ~Live(d, h, g),
         NEW e, e = Install(d, h, g)
  PROVE  /\ DbInv(e)
         /\ \A y \in Guid : e.list[y] = IF y = g THEN d.list[y] \o <<h>> ELSE d.list[y]
         /\ e.position = d.position /\ e.open = d.open
         /\ e.signalled = d.signalled \cup {r \in Registration : RegGuid[r] = g}
         /\ \A x \in Handle, y \in Guid :
              Live(e, x, y) <=> Live(d, x, y) \/ (y = g /\ x = h)
<1>1. Installed(d, h, g, e)
  BY Installs
<1> QED BY <1>1 DEF Installed

-----------------------------------------------------------------------------
(* Removing an interface, and what is left for the registrations.           *)

\* The Position after the interface at h is removed.
BackedUp(s, p, h) == IF p = h THEN BackLink(s, h) ELSE p

LEMMA BackedUpIs ==
  ASSUME NEW s \in Lists, NEW h \in Range(s), NEW p \in Range(s) \cup {ListHead},
         NEW r, r = RemoveEntry(s, h), NEW q, q = BackedUp(s, p, h)
  PROVE  /\ q \in Range(r) \cup {ListHead}
         /\ Place(r, q) = IF Place(s, p) < Place(s, h) THEN Place(s, p) ELSE Place(s, p) - 1
<1>0. PICK n, i, k : n = Len(s) /\ i = Place(s, h) /\ k = Place(s, p)
  OBVIOUS
<1>1. /\ n \in Nat /\ i \in 1..n /\ k \in 0..n /\ s[i] = h
      /\ \A j \in 1..n : s[j] # ListHead
      /\ \A j, m \in 1..n : s[j] = s[m] => j = m
  BY <1>0, PlaceIs, PlaceRange, ListFacts
<1>2. /\ r \in Lists /\ Len(r) = n - 1 /\ Range(r) = Range(s) \ {h}
      /\ \A j \in 1..(n - 1) : r[j] = IF j < i THEN s[j] ELSE s[j + 1]
  BY <1>0, RemovedIs
<1>3. \A x : x \in Range(r) <=> \E j \in 1..(n - 1) : r[j] = x
  BY <1>2, ListFacts
<1>4. \A j \in 1..(n - 1) : Place(r, r[j]) = j
  BY <1>2, <1>3, PlaceIs
<1>5. CASE p = ListHead
  <2>1. k = 0 /\ h # ListHead
    BY <1>0, <1>1, <1>5 DEF Place
  <2>2. q = ListHead
    BY <1>5, <2>1 DEF BackedUp
  <2> QED BY <1>0, <1>1, <2>1, <2>2 DEF Place
<1>6. CASE p \in Range(s) /\ p # h
  <2>1. q = p /\ k \in 1..n /\ s[k] = p /\ k # i
    BY <1>0, <1>1, <1>6, PlaceIs DEF BackedUp
  <2> DEFINE j == IF k < i THEN k ELSE k - 1
  <2>2. j \in 1..(n - 1) /\ r[j] = p
    BY <1>1, <1>2, <2>1
  <2>3. q \in Range(r) /\ Place(r, q) = j
    BY <1>3, <1>4, <2>1, <2>2
  <2> QED BY <1>0, <2>3
<1>7. CASE p = h /\ i = 1
  <2>1. q = ListHead /\ k = i
    BY <1>0, <1>7 DEF BackedUp, BackLink
  <2> QED BY <1>0, <1>7, <2>1 DEF Place
<1>8. CASE p = h /\ i # 1
  <2>1. q = s[i - 1] /\ k = i
    BY <1>0, <1>8 DEF BackedUp, BackLink
  <2>2. i - 1 \in 1..(n - 1) /\ r[i - 1] = s[i - 1]
    BY <1>1, <1>2, <1>8
  <2>3. q \in Range(r) /\ Place(r, q) = i - 1
    BY <1>3, <1>4, <2>1, <2>2
  <2> QED BY <1>0, <1>1, <2>1, <2>3
<1> QED BY <1>5, <1>6, <1>7, <1>8

LEMMA RemoveIs ==
  ASSUME NEW d, DbInv(d), NEW h \in Handle, NEW g \in Guid, d.open[<<h, g>>] = {},
         NEW e, e = CoreRemoveInterfaceFromProtocol(d, h, g)
  PROVE  /\ DbInv(e)
         /\ \A y \in Guid : e.list[y] = IF y = g THEN RemoveEntry(d.list[y], h) ELSE d.list[y]
         /\ \A r \in Registration : e.position[r] =
              IF RegGuid[r] = g THEN BackedUp(d.list[g], d.position[r], h) ELSE d.position[r]
         /\ e.open = d.open /\ e.signalled = d.signalled
         /\ \A x \in Handle, y \in Guid :
              Live(e, x, y) <=> Live(d, x, y) /\ ~(x = h /\ y = g)
<1> DEFINE s == d.list[g]
           l == [d.list EXCEPT ![g] = RemoveEntry(@, h)]
           p == [r \in Registration |->
                  IF RegGuid[r] = g /\ d.position[r] = h THEN BackLink(s, h) ELSE d.position[r]]
<1>1. /\ d.list \in [Guid -> Seq(Handle)] /\ s \in Lists
      /\ d.position \in [Registration -> Handle \cup {ListHead}]
      /\ d \in Database
  BY Fields, DbLists DEF DbInv
<1>2. /\ RemoveEntry(s, h) \in Lists
      /\ Range(RemoveEntry(s, h)) = Range(s) \ {h}
  <2>1. CASE h \in Range(s)
    BY <1>1, <2>1, RemovedIs
  <2>2. CASE h \notin Range(s)
    BY <1>1, <2>2, NotRemoved
  <2> QED BY <2>1, <2>2
<1>3. /\ l \in [Guid -> Seq(Handle)]
      /\ \A y \in Guid : l[y] = IF y = g THEN RemoveEntry(d.list[y], h) ELSE d.list[y]
  BY <1>1, <1>2 DEF Lists
<1>4. \A r \in Registration :
        p[r] = IF RegGuid[r] = g THEN BackedUp(s, d.position[r], h) ELSE d.position[r]
  BY DEF BackedUp
<1>5. ASSUME NEW y \in Guid
      PROVE  /\ l[y] \in Lists
             /\ Range(l[y]) = Range(d.list[y]) \ (IF y = g THEN {h} ELSE {})
  BY <1>2, <1>3, DbLists
<1>6. ASSUME NEW r \in Registration PROVE p[r] \in Range(l[RegGuid[r]]) \cup {ListHead}
  <2>1. RegGuid[r] \in Guid
    BY HandleAssumption
  <2>2. d.position[r] \in Range(d.list[RegGuid[r]]) \cup {ListHead}
    BY DEF DbInv
  <2>3. CASE RegGuid[r] = g /\ h \in Range(s)
    <3>1. BackedUp(s, d.position[r], h) \in Range(RemoveEntry(s, h)) \cup {ListHead}
      BY <1>1, <2>2, <2>3, BackedUpIs
    <3> QED BY <1>3, <1>4, <2>3, <3>1
  <2>4. CASE RegGuid[r] = g /\ h \notin Range(s)
    <3>1. d.position[r] # h
      BY <2>2, <2>4, HandleAssumption
    <3>2. p[r] = d.position[r]
      BY <3>1
    <3>3. l[g] = s
      BY <1>1, <1>3, <2>4, NotRemoved
    <3> QED BY <2>2, <2>4, <3>2, <3>3
  <2>5. CASE RegGuid[r] # g
    BY <1>3, <1>4, <2>1, <2>2, <2>5
  <2> QED BY <2>3, <2>4, <2>5
<1>7. p \in [Registration -> Handle \cup {ListHead}]
  <2>1. \A r \in Registration : RegGuid[r] \in Guid
    BY HandleAssumption
  <2>2. \A r \in Registration : Range(l[RegGuid[r]]) \subseteq Handle
    BY <1>5, <2>1, ListFacts
  <2>3. \A r \in Registration : p[r] \in Handle \cup {ListHead}
    BY <1>6, <2>2
  <2> HIDE DEF l
  <2> QED BY <2>3
<1>8. e = PutPosition(PutList(d, l), p)
  BY DEF CoreRemoveInterfaceFromProtocol, PutPosition, PutList
<1> HIDE DEF l, p, s
<1> DEFINE a == PutList(d, l)
<1>9. /\ a \in Database /\ a.list = l /\ a.open = d.open /\ a.position = d.position
      /\ a.signalled = d.signalled
  BY <1>1, <1>3, SetList
<1> HIDE DEF a
<1>10. /\ e \in Database /\ e.list = l /\ e.open = d.open /\ e.position = p
       /\ e.signalled = d.signalled
  BY <1>7, <1>8, <1>9, SetPosition DEF a
<1>11. ASSUME NEW x \in Handle, NEW y \in Guid
       PROVE  Live(e, x, y) <=> Live(d, x, y) /\ ~(x = h /\ y = g)
  <2>1. Live(e, x, y) <=> x \in Range(l[y])
    BY <1>5, <1>10, ListFacts DEF Live
  <2>2. Live(d, x, y) <=> x \in Range(d.list[y])
    BY DbLists
  <2> QED BY <1>5, <2>1, <2>2
<1>12. ASSUME NEW x \in Handle, NEW y \in Guid
       PROVE  OpenOK(x, y, Live(e, x, y), e.open[<<x, y>>])
  <2>1. OpenOK(x, y, Live(d, x, y), d.open[<<x, y>>])
    BY DEF DbInv
  <2>2. d.open[<<x, y>>] # {} => Live(e, x, y)
    BY <1>11, <2>1 DEF OpenOK
  <2> QED BY <1>10, <2>1, <2>2 DEF OpenOK
<1>13. DbInv(e)
  BY <1>5, <1>6, <1>10, <1>12 DEF DbInv, Lists
<1> QED BY <1>3, <1>4, <1>10, <1>11, <1>13 DEF s

-----------------------------------------------------------------------------
(* The drivers' Start.                                                      *)

LEMMA Names ==
  /\ Guid = {BlockIo, DiskIo} /\ BlockIo # DiskIo
  /\ Driver = {DiskIoDxe, PartitionDxe} /\ DiskIoDxe # PartitionDxe
  /\ App \notin Driver
  /\ OwnerOf(BlockIo) = DiskIoDxe /\ OwnerOf(DiskIo) = PartitionDxe
BY DEF Guid, BlockIo, DiskIo, Driver, DiskIoDxe, PartitionDxe, App, OwnerOf

LEMMA OpenedIs ==
  ASSUME NEW a \in Driver \cup {App}, NEW c \in Handle \cup {NoHandle},
         NEW t \in {"driver", "child", "exclusive", "get"}
  PROVE  /\ Opened(a, c, t) \in OpenData
         /\ Opened(a, c, t).agent = a /\ Opened(a, c, t).controller = c
         /\ Opened(a, c, t).attr = t
BY DEF Opened, OpenData

DiskIoStarted(d, h, e) ==
  /\ DbInv(e) /\ CanManage(d, h, BlockIo) /\ ~Live(d, h, DiskIo)
  /\ \A y \in Guid : e.list[y] = IF y = DiskIo THEN d.list[y] \o <<h>> ELSE d.list[y]
  /\ e.position = d.position
  /\ e.signalled = d.signalled \cup {r \in Registration : RegGuid[r] = DiskIo}
  /\ \A x \in Handle, y \in Guid :
       Live(e, x, y) <=> Live(d, x, y) \/ (y = DiskIo /\ x = h)
  /\ \A x \in Handle, y \in Guid : e.open[<<x, y>>] =
       IF x = h /\ y = BlockIo
       THEN d.open[<<x, y>>] \cup {Opened(DiskIoDxe, h, "driver")}
       ELSE d.open[<<x, y>>]

LEMMA StartDiskIoIs ==
  ASSUME NEW d, DbInv(d), NEW h \in Handle, NEW e, e = StartDiskIo(d, h)
  PROVE  \/ e = d /\ ~(CanManage(d, h, BlockIo) /\ ~Live(d, h, DiskIo))
         \/ DiskIoStarted(d, h, e)
<1>1. CASE ~(CanManage(d, h, BlockIo) /\ ~Live(d, h, DiskIo))
  BY <1>1 DEF StartDiskIo
<1>2. CASE CanManage(d, h, BlockIo) /\ ~Live(d, h, DiskIo)
  <2> DEFINE item == Opened(DiskIoDxe, h, "driver")
             a == Add(d, h, BlockIo, item)
  <2>1. item \in OpenData /\ item.attr = "driver" /\ ItemOK(h, BlockIo, item)
    BY Names, OpenedIs DEF ItemOK
  <2>2. /\ Live(d, h, BlockIo) /\ With(d, h, BlockIo, "exclusive") = {}
        /\ BlockIo \in Guid /\ DiskIo \in Guid
    BY <1>2, Names DEF CanManage
  <2>3. e = Install(a, h, DiskIo)
    BY <1>2 DEF StartDiskIo
  <2>0. a = Add(d, h, BlockIo, item)
    OBVIOUS
  <2> HIDE DEF item, a
  <2>a. Admits(d, h, BlockIo, item)
    BY <2>1, <2>2 DEF Admits
  <2>4. /\ DbInv(a)
        /\ a.list = d.list /\ a.position = d.position /\ a.signalled = d.signalled
        /\ \A x \in Handle, y \in Guid : a.open[<<x, y>>] =
             IF x = h /\ y = BlockIo /\ Live(d, h, BlockIo) THEN d.open[<<x, y>>] \cup {item}
             ELSE d.open[<<x, y>>]
    <3>1. PICK g \in Guid : g = BlockIo
      BY <2>2
    <3>2. a = Add(d, h, g, item) /\ Admits(d, h, g, item)
      BY <2>0, <2>a, <3>1
    <3>3. Grown(d, h, g, item, a)
      BY <2>1, <3>2, AddGrows
    <3> QED BY <3>1, <3>3 DEF Grown
  <2>5. \A x, y : Live(a, x, y) = Live(d, x, y)
    BY <2>4 DEF Live
  <2>9. Installed(a, h, DiskIo, e)
    <3>1. DbInv(a) /\ ~Live(a, h, DiskIo) /\ DiskIo \in Guid
      BY <1>2, <2>2, <2>4, <2>5
    <3> QED BY <2>3, <3>1, Installs
  <2>6. /\ DbInv(e)
        /\ \A y \in Guid : e.list[y] = IF y = DiskIo THEN a.list[y] \o <<h>> ELSE a.list[y]
        /\ e.position = a.position /\ e.open = a.open
        /\ e.signalled = a.signalled \cup {r \in Registration : RegGuid[r] = DiskIo}
        /\ \A x \in Handle, y \in Guid :
             Live(e, x, y) <=> Live(a, x, y) \/ (y = DiskIo /\ x = h)
    BY <2>9 DEF Installed
  <2>7. \A x \in Handle, y \in Guid : e.open[<<x, y>>] =
             IF x = h /\ y = BlockIo THEN d.open[<<x, y>>] \cup {item} ELSE d.open[<<x, y>>]
    <3>1. e.open = a.open /\ Live(d, h, BlockIo)
      BY <2>2, <2>6
    <3> QED BY <2>4, <3>1
  <2>8. \A x \in Handle, y \in Guid :
             Live(e, x, y) <=> Live(d, x, y) \/ (y = DiskIo /\ x = h)
    BY <2>5, <2>6
  <2> QED BY <1>2, <2>4, <2>6, <2>7, <2>8 DEF item, DiskIoStarted
<1> QED BY <1>1, <1>2

\* The openings of a disk's Disk I/O for its partitions.
Kids(new) == {Opened(PartitionDxe, p, "child") : p \in new}

Populated(d, h, new, e) ==
  /\ DbInv(e)
  /\ SetToSeq(new) \in Lists /\ Range(SetToSeq(new)) = new /\ new \in SUBSET Handle
  /\ SetToSeq(new) \in {q \in [1..Cardinality(new) -> new] : IsInjective(q)}
  /\ \A y \in Guid : e.list[y] =
       IF y = BlockIo THEN d.list[y] \o SetToSeq(new) ELSE d.list[y]
  /\ e.position = d.position
  /\ e.signalled = d.signalled \cup {r \in Registration : RegGuid[r] = BlockIo}
  /\ \A x \in Handle, y \in Guid :
       Live(e, x, y) <=> Live(d, x, y) \/ (y = BlockIo /\ x \in new)
  /\ \A x \in Handle, y \in Guid : e.open[<<x, y>>] =
       IF x = h /\ y = DiskIo
       THEN d.open[<<x, y>>] \cup Kids(new)
       ELSE d.open[<<x, y>>]

\* Children opened for and installed on an interface in the database.
LEMMA InstallChildrenIs ==
  ASSUME NEW d, DbInv(d), NEW h \in Handle, Live(d, h, DiskIo),
         NEW new \in SUBSET Partitions[h], \A p \in new : ~Live(d, p, BlockIo),
         NEW e, e = InstallChildren(d, h, new)
  PROVE  Populated(d, h, new, e)
<1> DEFINE kids == Kids(new)
           items == d.open[<<h, DiskIo>>] \cup kids
           a == Reopen(d, h, DiskIo, items)
           b == Enlist(a, BlockIo, SetToSeq(new))
<1>1. new \in SUBSET Handle /\ IsFiniteSet(new) /\ BlockIo \in Guid /\ DiskIo \in Guid
  BY HandleAssumption, PartitionAssumption, FS_Subset, Names
<1>2. /\ SetToSeq(new) \in Lists /\ Range(SetToSeq(new)) = new
      /\ SetToSeq(new) \in {q \in [1..Cardinality(new) -> new] : IsInjective(q)}
  BY <1>1, OrderIs
<1>3. OpenOK(h, DiskIo, Live(d, h, DiskIo), d.open[<<h, DiskIo>>])
  BY <1>1 DEF DbInv
<1>4. \A i \in kids : i \in OpenData /\ i.attr = "child" /\ ItemOK(h, DiskIo, i)
  <2> SUFFICES ASSUME NEW p \in new
               PROVE  LET i == Opened(PartitionDxe, p, "child")
                      IN  i \in OpenData /\ i.attr = "child" /\ ItemOK(h, DiskIo, i)
    BY DEF Kids
  <2> DEFINE i == Opened(PartitionDxe, p, "child")
  <2>1. /\ i \in OpenData /\ i.attr = "child" /\ i.agent = PartitionDxe
        /\ i.controller = p
    BY <1>1, Names, OpenedIs
  <2> HIDE DEF i
  <2>2. ItemOK(h, DiskIo, i)
    BY <2>1 DEF ItemOK
  <2> QED BY <2>1, <2>2 DEF i
<1> HIDE DEF kids
<1>5. OpenOK(h, DiskIo, Live(d, h, DiskIo), items)
  BY <1>3, <1>4 DEF OpenOK
<1> HIDE DEF items
<1>0. a = Reopen(d, h, DiskIo, items)
  OBVIOUS
<1> HIDE DEF a
<1>6. /\ DbInv(a) /\ a.list = d.list /\ a.position = d.position
      /\ a.signalled = d.signalled
      /\ \A x \in Handle, y \in Guid : a.open[<<x, y>>] =
           IF x = h /\ y = DiskIo THEN items ELSE d.open[<<x, y>>]
  <2>1. PICK g \in Guid : g = DiskIo
    BY <1>1
  <2>2. a = Reopen(d, h, g, items) /\ OpenOK(h, g, Live(d, h, g), items)
    BY <1>0, <1>5, <2>1
  <2>3. OpenListIs(d, h, g, items, a)
    BY <2>2, Reopened
  <2> QED BY <2>1, <2>3 DEF OpenListIs
<1>7. \A x, y : Live(a, x, y) = Live(d, x, y)
  BY <1>6 DEF Live
<1>10. new \cap Range(d.list[BlockIo]) = {}
  BY <1>1, DbLists
<1>11. /\ DbInv(b)
       /\ \A y \in Guid : b.list[y] =
            IF y = BlockIo THEN a.list[y] \o SetToSeq(new) ELSE a.list[y]
       /\ b.position = a.position /\ b.open = a.open /\ b.signalled = a.signalled
       /\ \A x \in Handle, y \in Guid :
            Live(b, x, y) <=> Live(a, x, y) \/ (y = BlockIo /\ x \in new)
  <2>1. PICK t : t = SetToSeq(new)
    OBVIOUS
  <2>2. t \in Lists /\ Range(t) = new
    BY <1>2, <2>1
  <2>3. Range(t) \cap Range(a.list[BlockIo]) = {}
    BY <1>6, <1>10, <2>2
  <2>4. b = Enlist(a, BlockIo, t)
    BY <2>1
  <2> HIDE DEF b
  <2>5. /\ DbInv(b)
        /\ \A y \in Guid : b.list[y] = IF y = BlockIo THEN a.list[y] \o t ELSE a.list[y]
        /\ b.position = a.position /\ b.open = a.open /\ b.signalled = a.signalled
        /\ \A x \in Handle, y \in Guid :
             Live(b, x, y) <=> Live(a, x, y) \/ (y = BlockIo /\ x \in Range(t))
    BY <1>1, <1>6, <2>2, <2>3, <2>4, InsertedIs, SMTT(60)
  <2> QED BY <2>1, <2>2, <2>5
<1>12. e = CoreNotifyProtocolEntry(b, BlockIo)
  BY DEF InstallChildren, Reopen, Enlist, a, b, items, kids, Kids
<1> HIDE DEF b
<1>13. /\ DbInv(e) /\ e.list = b.list /\ e.position = b.position /\ e.open = b.open
       /\ e.signalled = b.signalled \cup {r \in Registration : RegGuid[r] = BlockIo}
  BY <1>1, <1>11, <1>12, NotifyIs, SMTT(60)
<1>14. \A x \in Handle, y \in Guid :
         Live(e, x, y) <=> Live(d, x, y) \/ (y = BlockIo /\ x \in new)
  BY <1>7, <1>11, <1>13 DEF Live
<1>15. \A x \in Handle, y \in Guid : e.open[<<x, y>>] =
         IF x = h /\ y = DiskIo THEN d.open[<<x, y>>] \cup kids ELSE d.open[<<x, y>>]
  <2>1. items = d.open[<<h, DiskIo>>] \cup kids
    BY DEF items
  <2>2. \A x \in Handle, y \in Guid : e.open[<<x, y>>] =
          IF x = h /\ y = DiskIo THEN items ELSE d.open[<<x, y>>]
    <3>1. e.open = a.open
      BY <1>11, <1>13
    <3> QED BY <1>6, <3>1
  <2>3. ASSUME NEW x \in Handle, NEW y \in Guid, x = h, y = DiskIo
        PROVE  e.open[<<x, y>>] = d.open[<<x, y>>] \cup kids
    BY <2>1, <2>2, <2>3
  <2> QED BY <2>2, <2>3
<1>16. \A y \in Guid : e.list[y] =
         IF y = BlockIo THEN d.list[y] \o SetToSeq(new) ELSE d.list[y]
  BY <1>6, <1>11, <1>13
<1> QED BY <1>1, <1>2, <1>6, <1>11, <1>13, <1>14, <1>15, <1>16 DEF kids, Populated

\* CoreOpenProtocol always lets GET_PROTOCOL in.
LEMMA GetAdmitted ==
  ASSUME NEW d, NEW h, NEW g, NEW agent \in Driver, NEW c \in Handle
  PROVE  /\ Opened(agent, c, "get") \in OpenData
         /\ Admits(d, h, g, Opened(agent, c, "get"))
BY Names, OpenedIs DEF Admits, ItemOK

PartitionStarted(d, h, new, e) ==
  /\ DbInv(e) /\ Supported(d, PartitionDxe, h) /\ Live(d, h, DiskIo)
  /\ SetToSeq(new) \in Lists /\ Range(SetToSeq(new)) = new /\ new \in SUBSET Handle
  /\ SetToSeq(new) \in {q \in [1..Cardinality(new) -> new] : IsInjective(q)}
  /\ \A y \in Guid : e.list[y] =
       IF y = BlockIo THEN d.list[y] \o SetToSeq(new) ELSE d.list[y]
  /\ e.position = d.position
  /\ e.signalled = d.signalled \cup {r \in Registration : RegGuid[r] = BlockIo}
  /\ \A x \in Handle, y \in Guid :
       Live(e, x, y) <=> Live(d, x, y) \/ (y = BlockIo /\ x \in new)
  /\ \A x \in Handle, y \in Guid : e.open[<<x, y>>] =
       IF x = h /\ y = DiskIo
       THEN d.open[<<x, y>>] \cup {Opened(PartitionDxe, h, "driver")}
              \cup Kids(new)
       ELSE IF x = h /\ y = BlockIo /\ Live(d, x, y)
       THEN d.open[<<x, y>>] \cup {Opened(PartitionDxe, h, "get")}
       ELSE d.open[<<x, y>>]

LEMMA StartPartitionIs ==
  ASSUME NEW d, DbInv(d), NEW h \in Handle, NEW e, e = StartPartition(d, h),
         NEW new, new = NewPartitions(d, h)
  PROVE  \/ /\ e = Add(d, h, BlockIo, Opened(PartitionDxe, h, "get"))
            /\ ~Supported(d, PartitionDxe, h) \/ new = {}
         \/ PartitionStarted(d, h, new, e)
<1> DEFINE drv == Opened(PartitionDxe, h, "driver")
           get == Opened(PartitionDxe, h, "get")
           kids == Kids(new)
           a == Add(d, h, BlockIo, get)
           b == Add(a, h, DiskIo, drv)
<1>1. CASE ~Supported(d, PartitionDxe, h) \/ new = {}
  BY <1>1, Zenon DEF StartPartition
<1>2. CASE Supported(d, PartitionDxe, h) /\ new # {}
  <2>1. e = InstallChildren(b, h, new)
    BY <1>2, Zenon DEF StartPartition
  <2>2. /\ drv \in OpenData /\ drv.attr = "driver" /\ ItemOK(h, DiskIo, drv)
        /\ BlockIo \in Guid /\ DiskIo \in Guid /\ BlockIo # DiskIo /\ PartitionDxe \in Driver
    BY Names, OpenedIs DEF ItemOK
  <2>3. Manages(d, PartitionDxe, h, DiskIo) \/ CanManage(d, h, DiskIo)
    BY <1>2, Names DEF Supported
  <2>4. OpenOK(h, DiskIo, Live(d, h, DiskIo), d.open[<<h, DiskIo>>])
    BY <2>2 DEF DbInv
  <2>5. Live(d, h, DiskIo) /\ With(d, h, DiskIo, "exclusive") = {}
    <3>1. CASE Manages(d, PartitionDxe, h, DiskIo)
      BY <2>2, <2>4, <3>1 DEF Manages, OpenOK, With
    <3>2. CASE CanManage(d, h, DiskIo)
      BY <3>2 DEF CanManage
    <3> QED BY <2>3, <3>1, <3>2
  <2>6. a = Add(d, h, BlockIo, Opened(PartitionDxe, h, "get")) /\ b = Add(a, h, DiskIo, drv)
    OBVIOUS
  <2>7. new \in SUBSET Partitions[h] /\ \A p \in new : ~Live(d, p, BlockIo)
    BY DEF NewPartitions
  <2> HIDE DEF a, b
  <2>8. /\ DbInv(a)
        /\ a.list = d.list /\ a.position = d.position /\ a.signalled = d.signalled
        /\ \A x \in Handle, y \in Guid : a.open[<<x, y>>] =
             IF x = h /\ y = BlockIo /\ Live(d, h, BlockIo) THEN d.open[<<x, y>>] \cup {get}
             ELSE d.open[<<x, y>>]
    <3>1. PICK g \in Guid : g = BlockIo
      BY <2>2
    <3>2. a = Add(d, h, g, get) /\ get \in OpenData /\ Admits(d, h, g, get)
      BY <2>2, <2>6, <3>1, GetAdmitted
    <3> HIDE DEF get
    <3>3. Grown(d, h, g, get, a)
      BY <3>2, AddGrows
    <3> QED BY <3>1, <3>3 DEF Grown
  <2>9. \A x, y : Live(a, x, y) = Live(d, x, y)
    BY <2>8 DEF Live
  <2>10. a.open[<<h, DiskIo>>] = d.open[<<h, DiskIo>>]
    BY <2>2, <2>8
  <2>11. Admits(a, h, DiskIo, drv)
    BY <2>2, <2>5, <2>10 DEF Admits, With
  <2> HIDE DEF drv, get, kids
  <2>12. /\ DbInv(b)
         /\ b.list = a.list /\ b.position = a.position /\ b.signalled = a.signalled
         /\ \A x \in Handle, y \in Guid : b.open[<<x, y>>] =
              IF x = h /\ y = DiskIo THEN a.open[<<x, y>>] \cup {drv} ELSE a.open[<<x, y>>]
    <3>1. PICK g \in Guid : g = DiskIo
      BY <2>2
    <3>2. /\ b = Add(a, h, g, drv) /\ Admits(a, h, g, drv) /\ Live(a, h, g)
          /\ DbInv(a) /\ drv \in OpenData
      BY <2>2, <2>5, <2>6, <2>8, <2>9, <2>11, <3>1
    <3>3. Grown(a, h, g, drv, b)
      BY <3>2, AddGrows
    <3> QED BY <3>1, <3>2, <3>3 DEF Grown
  <2>13. \A x, y : Live(b, x, y) = Live(d, x, y)
    BY <2>9, <2>12 DEF Live
  <2>14. Live(b, h, DiskIo) /\ \A p \in new : ~Live(b, p, BlockIo)
    BY <2>5, <2>7, <2>13
  <2>15. /\ DbInv(e)
         /\ SetToSeq(new) \in Lists /\ Range(SetToSeq(new)) = new /\ new \in SUBSET Handle
         /\ SetToSeq(new) \in {q \in [1..Cardinality(new) -> new] : IsInjective(q)}
         /\ \A y \in Guid : e.list[y] =
              IF y = BlockIo THEN b.list[y] \o SetToSeq(new) ELSE b.list[y]
         /\ e.position = b.position
         /\ e.signalled = b.signalled \cup {r \in Registration : RegGuid[r] = BlockIo}
         /\ \A x \in Handle, y \in Guid :
              Live(e, x, y) <=> Live(b, x, y) \/ (y = BlockIo /\ x \in new)
         /\ \A x \in Handle, y \in Guid : e.open[<<x, y>>] =
              IF x = h /\ y = DiskIo
              THEN b.open[<<x, y>>] \cup kids
              ELSE b.open[<<x, y>>]
    <3>1. Populated(b, h, new, e)
      <4>1. DbInv(b)
        BY <2>12
      <4> QED BY <2>1, <2>7, <2>14, <4>1, InstallChildrenIs
    <3> QED BY <3>1 DEF kids, Populated
  <2>16. \A x \in Handle, y \in Guid :
           Live(e, x, y) <=> Live(d, x, y) \/ (y = BlockIo /\ x \in new)
    BY <2>13, <2>15
  <2>17. \A x \in Handle, y \in Guid : e.open[<<x, y>>] =
           IF x = h /\ y = DiskIo THEN d.open[<<x, y>>] \cup {drv} \cup kids
           ELSE IF x = h /\ y = BlockIo /\ Live(d, x, y) THEN d.open[<<x, y>>] \cup {get}
           ELSE d.open[<<x, y>>]
    <3> SUFFICES ASSUME NEW x \in Handle, NEW y \in Guid
                 PROVE  e.open[<<x, y>>] =
           IF x = h /\ y = DiskIo THEN d.open[<<x, y>>] \cup {drv} \cup kids
           ELSE IF x = h /\ y = BlockIo /\ Live(d, x, y) THEN d.open[<<x, y>>] \cup {get}
           ELSE d.open[<<x, y>>]
      OBVIOUS
    <3>1. e.open[<<x, y>>] =
            IF x = h /\ y = DiskIo THEN b.open[<<x, y>>] \cup kids ELSE b.open[<<x, y>>]
      BY <2>15
    <3>2. b.open[<<x, y>>] =
            IF x = h /\ y = DiskIo THEN a.open[<<x, y>>] \cup {drv} ELSE a.open[<<x, y>>]
      BY <2>12
    <3>3. a.open[<<x, y>>] =
            IF x = h /\ y = BlockIo /\ Live(d, x, y) THEN d.open[<<x, y>>] \cup {get}
            ELSE d.open[<<x, y>>]
      BY <2>8
    <3> QED BY <2>2, <3>1, <3>2, <3>3
  <2>18. e.position = d.position
         /\ e.signalled = d.signalled \cup {r \in Registration : RegGuid[r] = BlockIo}
    BY <2>8, <2>12, <2>15
  <2>19. \A y \in Guid : e.list[y] =
           IF y = BlockIo THEN d.list[y] \o SetToSeq(new) ELSE d.list[y]
    BY <2>8, <2>12, <2>15
  <2> QED BY <1>2, <2>5, <2>15, <2>16, <2>17, <2>18, <2>19 DEF drv, get, kids, PartitionStarted
<1> QED BY <1>1, <1>2
=============================================================================
