--------------------------- MODULE DxeTimerProofs ---------------------------
(***************************************************************************)
(* The timer database, proved for any events, delays and nesting: it is in *)
(* ascending order of TriggerTime, holds every timer once, and never loses *)
(* a periodic timer.                                                       *)
(***************************************************************************)
EXTENDS DxeEventProofs, WellFoundedInduction


-----------------------------------------------------------------------------
(* What the operations on lists do to their elements.                       *)

LEMMA RemoveAtIs ==
  ASSUME NEW S, NEW s \in Seq(S), NEW i \in 1..Len(s)
  PROVE  /\ RemoveAt(s, i) \in Seq(S)
         /\ Len(RemoveAt(s, i)) = Len(s) - 1
         /\ \A j \in 1..(Len(s) - 1) : RemoveAt(s, i)[j] = IF j < i THEN s[j] ELSE s[j + 1]
<1> DEFINE a == SubSeq(s, 1, i-1)
           b == SubSeq(s, i+1, Len(s))
<1>0. i \in Int /\ 1 <= i /\ i <= Len(s) /\ Len(s) \in Nat
  OBVIOUS
<1>1. /\ a \in Seq(S) /\ Len(a) = i - 1
      /\ \A j \in 1..(i-1) : a[j] = s[j]
  BY <1>0, SubSeqProperties
<1>2. /\ b \in Seq(S) /\ Len(b) = Len(s) - i
      /\ \A j \in 1..(Len(s) - i) : b[j] = s[j + i]
  BY <1>0, SubSeqProperties
<1>3. RemoveAt(s, i) = a \o b
  BY DEF RemoveAt
<1> HIDE DEF a, b
<1>4. /\ a \o b \in Seq(S) /\ Len(a \o b) = Len(s) - 1
      /\ \A j \in 1..(Len(s) - 1) : (a \o b)[j] = IF j <= i - 1 THEN a[j] ELSE b[j - (i-1)]
  <2>1. /\ a \o b \in Seq(S) /\ Len(a \o b) = Len(a) + Len(b)
        /\ \A j \in 1..(Len(a) + Len(b)) :
             (a \o b)[j] = IF j <= Len(a) THEN a[j] ELSE b[j - Len(a)]
    BY <1>1, <1>2, ConcatProperties
  <2>2. Len(a) + Len(b) = Len(s) - 1
    BY <1>0, <1>1, <1>2
  <2> QED BY <1>1, <2>1, <2>2
<1>5. ASSUME NEW j \in 1..(Len(s) - 1)
      PROVE  (a \o b)[j] = IF j < i THEN s[j] ELSE s[j + 1]
  <2>1. CASE j < i
    BY <1>0, <1>1, <1>4, <2>1
  <2>2. CASE ~(j < i)
    <3>1. j - (i - 1) \in 1..(Len(s) - i) /\ (j - (i - 1)) + i = j + 1
      BY <1>0, <2>2
    <3>2. (a \o b)[j] = b[j - (i - 1)]
      BY <1>0, <1>4, <2>2
    <3> QED BY <1>2, <2>2, <3>1, <3>2
  <2> QED BY <2>1, <2>2
<1> QED BY <1>3, <1>4, <1>5

LEMMA RemoveEntryIs ==
  ASSUME NEW S, NEW s \in Seq(S), NEW x
  PROVE  /\ RemoveEntry(s, x) \in Seq(S)
         /\ \A y : Contains(RemoveEntry(s, x), y) => Contains(s, y)
         /\ \A y : Contains(s, y) /\ y # x => Contains(RemoveEntry(s, x), y)
         /\ IsInjective(s) => IsInjective(RemoveEntry(s, x)) /\ ~Contains(RemoveEntry(s, x), x)
<1>1. CASE ~Contains(s, x)
  BY <1>1 DEF RemoveEntry
<1>2. CASE Contains(s, x)
  <2> DEFINE i == CHOOSE i \in DOMAIN s : s[i] = x
             r == RemoveAt(s, i)
  <2>1. i \in 1..Len(s) /\ s[i] = x
    BY <1>2 DEF Contains
  <2>2. RemoveEntry(s, x) = r
    BY <1>2 DEF RemoveEntry
  <2> HIDE DEF i
  <2>3. /\ r \in Seq(S) /\ Len(r) = Len(s) - 1 /\ Len(s) \in Nat
        /\ \A j \in 1..(Len(s) - 1) : r[j] = IF j < i THEN s[j] ELSE s[j + 1]
    BY <2>1, RemoveAtIs
  <2> HIDE DEF r
  <2>4. ASSUME NEW y, Contains(r, y) PROVE Contains(s, y)
    <3>1. PICK j \in 1..(Len(s) - 1) : r[j] = y
      BY <2>3, <2>4 DEF Contains
    <3>2. j \in 1..Len(s) /\ j + 1 \in 1..Len(s)
      BY <2>3
    <3> QED BY <2>3, <3>1, <3>2 DEF Contains
  <2>5. ASSUME NEW y, Contains(s, y), y # x PROVE Contains(r, y)
    <3>1. PICK j \in 1..Len(s) : s[j] = y
      BY <2>5 DEF Contains
    <3>2. CASE j < i
      <4>1. j \in 1..(Len(s) - 1) /\ r[j] = y
        BY <2>1, <2>3, <3>1, <3>2
      <4> QED BY <2>3, <4>1 DEF Contains
    <3>3. CASE j > i
      <4>1. j - 1 \in 1..(Len(s) - 1) /\ r[j - 1] = y
        BY <2>1, <2>3, <3>1, <3>3
      <4> QED BY <2>3, <4>1 DEF Contains
    <3>4. j # i
      BY <2>1, <2>5, <3>1
    <3> QED BY <2>1, <3>2, <3>3, <3>4
  <2>6. ASSUME IsInjective(s) PROVE IsInjective(r) /\ ~Contains(r, x)
    <3>1. \A j, k \in 1..Len(s) : s[j] = s[k] => j = k
      BY <2>6 DEF IsInjective
    <3>2. DOMAIN r = 1..(Len(s) - 1)
      BY <2>3
    <3>3. ASSUME NEW j \in 1..(Len(s) - 1), NEW k \in 1..(Len(s) - 1), r[j] = r[k]
          PROVE  j = k
      <4> DEFINE jj == IF j < i THEN j ELSE j + 1
                 kk == IF k < i THEN k ELSE k + 1
      <4>1. jj \in 1..Len(s) /\ kk \in 1..Len(s) /\ r[j] = s[jj] /\ r[k] = s[kk]
        BY <2>1, <2>3
      <4>2. jj = kk
        BY <3>1, <3>3, <4>1
      <4> QED BY <2>1, <4>2
    <3>4. ASSUME NEW j \in 1..(Len(s) - 1) PROVE r[j] # x
      <4> DEFINE jj == IF j < i THEN j ELSE j + 1
      <4>1. jj \in 1..Len(s) /\ r[j] = s[jj] /\ jj # i
        BY <2>1, <2>3
      <4> QED BY <2>1, <3>1, <4>1
    <3> QED BY <2>3, <3>2, <3>3, <3>4 DEF IsInjective, Contains
  <2> QED BY <2>2, <2>3, <2>4, <2>5, <2>6
<1> QED BY <1>1, <1>2

LEMMA InsertAtIs ==
  ASSUME NEW S, NEW s \in Seq(S), NEW i \in 1..Len(s), NEW x \in S
  PROVE  /\ InsertAt(s, i, x) \in Seq(S)
         /\ Len(InsertAt(s, i, x)) = Len(s) + 1
         /\ \A j \in 1..(Len(s) + 1) :
              InsertAt(s, i, x)[j] = IF j < i THEN s[j] ELSE IF j = i THEN x ELSE s[j - 1]
<1> DEFINE a == SubSeq(s, 1, i-1)
           b == SubSeq(s, i, Len(s))
<1>0. i \in Int /\ 1 <= i /\ i <= Len(s) /\ Len(s) \in Nat
  OBVIOUS
<1>1. /\ a \in Seq(S) /\ Len(a) = i - 1
      /\ \A j \in 1..(i-1) : a[j] = s[j]
  BY <1>0, SubSeqProperties
<1>2. /\ b \in Seq(S) /\ Len(b) = Len(s) - i + 1
      /\ \A j \in 1..(Len(s) - i + 1) : b[j] = s[j + i - 1]
  BY <1>0, SubSeqProperties
<1>3. InsertAt(s, i, x) = Append(a, x) \o b
  <2>1. a \o <<x>> = Append(a, x)
    BY <1>1, AppendIsConcat
  <2> QED BY <2>1 DEF InsertAt
<1> HIDE DEF a, b
<1> DEFINE c == Append(a, x)
<1>4. /\ c \in Seq(S) /\ Len(c) = i
      /\ \A j \in 1..i : c[j] = IF j < i THEN s[j] ELSE x
  <2>1. /\ c \in Seq(S) /\ Len(c) = Len(a) + 1 /\ c[Len(a) + 1] = x
        /\ \A j \in 1..Len(a) : c[j] = a[j]
    BY <1>1, AppendProperties
  <2> QED BY <1>0, <1>1, <2>1
<1> HIDE DEF c
<1>5. /\ c \o b \in Seq(S) /\ Len(c \o b) = Len(s) + 1
      /\ \A j \in 1..(Len(s) + 1) : (c \o b)[j] = IF j <= i THEN c[j] ELSE b[j - i]
  <2>1. /\ c \o b \in Seq(S) /\ Len(c \o b) = Len(c) + Len(b)
        /\ \A j \in 1..(Len(c) + Len(b)) :
             (c \o b)[j] = IF j <= Len(c) THEN c[j] ELSE b[j - Len(c)]
    BY <1>2, <1>4, ConcatProperties
  <2>2. Len(c) + Len(b) = Len(s) + 1
    BY <1>0, <1>2, <1>4
  <2> QED BY <1>4, <2>1, <2>2
<1>6. ASSUME NEW j \in 1..(Len(s) + 1)
      PROVE  (c \o b)[j] = IF j < i THEN s[j] ELSE IF j = i THEN x ELSE s[j - 1]
  <2>1. CASE j <= i
    BY <1>0, <1>4, <1>5, <2>1
  <2>2. CASE ~(j <= i)
    <3>1. j - i \in 1..(Len(s) - i + 1) /\ (j - i) + i - 1 = j - 1
      BY <1>0, <2>2
    <3>2. (c \o b)[j] = b[j - i]
      BY <1>0, <1>5, <2>2
    <3> QED BY <1>0, <1>2, <2>2, <3>1, <3>2
  <2> QED BY <2>1, <2>2
<1> QED BY <1>3, <1>5, <1>6 DEF c

LEMMA InsertedIs ==
  ASSUME NEW S, NEW s \in Seq(S), NEW i \in 1..Len(s), NEW x \in S
  PROVE  /\ \A y : Contains(InsertAt(s, i, x), y) <=> Contains(s, y) \/ y = x
         /\ IsInjective(s) /\ ~Contains(s, x) => IsInjective(InsertAt(s, i, x))
<1> DEFINE r == InsertAt(s, i, x)
<1>0. i \in Int /\ 1 <= i /\ i <= Len(s) /\ Len(s) \in Nat
  OBVIOUS
<1>1. /\ r \in Seq(S) /\ Len(r) = Len(s) + 1
      /\ \A j \in 1..(Len(s) + 1) :
           r[j] = IF j < i THEN s[j] ELSE IF j = i THEN x ELSE s[j - 1]
  BY InsertAtIs
<1> HIDE DEF r
<1>2. ASSUME NEW y, Contains(r, y) PROVE Contains(s, y) \/ y = x
  <2>1. PICK j \in 1..(Len(s) + 1) : r[j] = y
    BY <1>1, <1>2 DEF Contains
  <2>2. CASE j < i
    <3>1. j \in 1..Len(s) /\ s[j] = y
      BY <1>0, <1>1, <2>1, <2>2
    <3> QED BY <3>1 DEF Contains
  <2>3. CASE j = i
    BY <1>1, <2>1, <2>3
  <2>4. CASE j > i
    <3>1. j - 1 \in 1..Len(s) /\ s[j - 1] = y
      BY <1>0, <1>1, <2>1, <2>4
    <3> QED BY <3>1 DEF Contains
  <2> QED BY <1>0, <2>2, <2>3, <2>4
<1>3. ASSUME NEW y, Contains(s, y) \/ y = x PROVE Contains(r, y)
  <2>1. CASE y = x
    BY <1>0, <1>1, <2>1 DEF Contains
  <2>2. CASE Contains(s, y)
    <3>1. PICK j \in 1..Len(s) : s[j] = y
      BY <2>2 DEF Contains
    <3>2. CASE j < i
      BY <1>0, <1>1, <3>1, <3>2 DEF Contains
    <3>3. CASE ~(j < i)
      <4>1. j + 1 \in 1..(Len(s) + 1) /\ r[j + 1] = y
        BY <1>0, <1>1, <3>1, <3>3
      <4> QED BY <1>1, <4>1 DEF Contains
    <3> QED BY <3>2, <3>3
  <2> QED BY <1>3, <2>1, <2>2
<1>4. ASSUME IsInjective(s), ~Contains(s, x) PROVE IsInjective(r)
  <2>1. \A j, k \in 1..Len(s) : s[j] = s[k] => j = k
    BY <1>4 DEF IsInjective
  <2>2. \A j \in 1..Len(s) : s[j] # x
    BY <1>4 DEF Contains
  <2>3. ASSUME NEW j \in 1..(Len(s) + 1), NEW k \in 1..(Len(s) + 1), r[j] = r[k], j # i, k # i
        PROVE  j = k
    <3> DEFINE jj == IF j < i THEN j ELSE j - 1
               kk == IF k < i THEN k ELSE k - 1
    <3>1. jj \in 1..Len(s) /\ kk \in 1..Len(s) /\ r[j] = s[jj] /\ r[k] = s[kk]
      BY <1>0, <1>1, <2>3
    <3>2. jj = kk
      BY <2>1, <2>3, <3>1
    <3> QED BY <1>0, <2>3, <3>2
  <2>4. ASSUME NEW j \in 1..(Len(s) + 1), j # i PROVE r[j] # x
    <3> DEFINE jj == IF j < i THEN j ELSE j - 1
    <3>1. jj \in 1..Len(s) /\ r[j] = s[jj]
      BY <1>0, <1>1, <2>4
    <3> QED BY <2>2, <3>1
  <2>5. r[i] = x
    BY <1>0, <1>1
  <2>6. DOMAIN r = 1..(Len(s) + 1)
    BY <1>1
  <2> QED BY <2>3, <2>4, <2>5, <2>6 DEF IsInjective
<1> QED BY <1>2, <1>3, <1>4 DEF r

LEMMA AppendedIs ==
  ASSUME NEW S, NEW s \in Seq(S), NEW x \in S
  PROVE  /\ \A y : Contains(Append(s, x), y) <=> Contains(s, y) \/ y = x
         /\ IsInjective(s) /\ ~Contains(s, x) => IsInjective(Append(s, x))
<1> DEFINE r == Append(s, x)
<1>1. /\ Len(s) \in Nat /\ Len(r) = Len(s) + 1 /\ DOMAIN r = 1..(Len(s) + 1)
      /\ DOMAIN s = 1..Len(s)
      /\ \A i \in 1..Len(s) : r[i] = s[i]
      /\ r[Len(s) + 1] = x
  BY AppendProperties
<1> HIDE DEF r
<1>2. \A y : Contains(r, y) <=> Contains(s, y) \/ y = x
  BY <1>1 DEF Contains
<1>3. IsInjective(s) /\ ~Contains(s, x) => IsInjective(r)
  BY <1>1 DEF Contains, IsInjective
<1> QED BY <1>2, <1>3 DEF r

LEMMA ConsedIs ==
  ASSUME NEW S, NEW s \in Seq(S), NEW x \in S
  PROVE  /\ \A y : Contains(Cons(x, s), y) <=> Contains(s, y) \/ y = x
         /\ IsInjective(s) /\ ~Contains(s, x) => IsInjective(Cons(x, s))
<1> DEFINE r == Cons(x, s)
<1>1. /\ Len(s) \in Nat /\ Len(r) = Len(s) + 1 /\ DOMAIN r = 1..(Len(s) + 1)
      /\ DOMAIN s = 1..Len(s)
      /\ r[1] = x
      /\ \A i \in 1..Len(s) : r[i + 1] = s[i]
  BY ConcatProperties DEF Cons
<1>0. \A j \in 1..(Len(s) + 1) : j = 1 \/ (j - 1 \in 1..Len(s) /\ r[j] = s[j - 1])
  BY <1>1
<1> HIDE DEF r
<1>2. \A y : Contains(r, y) <=> Contains(s, y) \/ y = x
  <2>1. ASSUME NEW y, Contains(r, y) PROVE Contains(s, y) \/ y = x
    BY <1>0, <1>1, <2>1 DEF Contains
  <2>2. Contains(r, x)
    BY <1>1 DEF Contains
  <2>3. ASSUME NEW y, Contains(s, y) PROVE Contains(r, y)
    <3>1. PICK i \in 1..Len(s) : s[i] = y
      BY <2>3 DEF Contains
    <3>2. i + 1 \in 1..Len(r) /\ r[i + 1] = y
      BY <1>1, <3>1
    <3> QED BY <3>2 DEF Contains
  <2> QED BY <2>1, <2>2, <2>3
<1>3. ASSUME IsInjective(s), ~Contains(s, x) PROVE IsInjective(r)
  <2>1. \A j, k \in 1..Len(s) : s[j] = s[k] => j = k
    BY <1>1, <1>3 DEF IsInjective
  <2>2. \A j \in 1..Len(s) : s[j] # x
    BY <1>1, <1>3 DEF Contains
  <2>3. ASSUME NEW j \in 1..(Len(s) + 1), NEW k \in 1..(Len(s) + 1), r[j] = r[k]
        PROVE  j = k
    <3>1. CASE j = 1 /\ k = 1
      BY <3>1
    <3>2. CASE j = 1 /\ k # 1
      BY <1>0, <1>1, <2>2, <2>3, <3>2
    <3>3. CASE j # 1 /\ k = 1
      BY <1>0, <1>1, <2>2, <2>3, <3>3
    <3>4. CASE j # 1 /\ k # 1
      <4>1. s[j - 1] = s[k - 1] /\ j - 1 \in 1..Len(s) /\ k - 1 \in 1..Len(s)
        BY <1>0, <2>3, <3>4
      <4>2. j - 1 = k - 1
        BY <2>1, <4>1
      <4> QED BY <4>2
    <3> QED BY <3>1, <3>2, <3>3, <3>4
  <2> QED BY <1>1, <2>3 DEF IsInjective
<1> QED BY <1>2, <1>3 DEF r

LEMMA TailIs ==
  ASSUME NEW S, NEW s \in Seq(S), s # <<>>
  PROVE  /\ Head(s) \in S /\ Tail(s) \in Seq(S) /\ Contains(s, Head(s))
         /\ \A y : Contains(Tail(s), y) => Contains(s, y)
         /\ \A y : Contains(s, y) /\ y # Head(s) => Contains(Tail(s), y)
         /\ IsInjective(s) => IsInjective(Tail(s)) /\ ~Contains(Tail(s), Head(s))
<1> DEFINE r == Tail(s)
<1>1. /\ Len(s) \in Nat /\ Len(s) >= 1 /\ Len(r) = Len(s) - 1
      /\ DOMAIN r = 1..(Len(s) - 1) /\ DOMAIN s = 1..Len(s)
      /\ Head(s) = s[1] /\ Head(s) \in S /\ r \in Seq(S)
      /\ \A i \in 1..(Len(s) - 1) : r[i] = s[i + 1]
  BY HeadTailProperties, EmptySeq
<1>0. \A j \in 1..Len(s) : j = 1 \/ (j - 1 \in 1..(Len(s) - 1) /\ s[j] = r[j - 1])
  BY <1>1
<1> HIDE DEF r
<1>2. Contains(s, Head(s))
  BY <1>1 DEF Contains
<1>3. \A y : Contains(r, y) => Contains(s, y)
  <2> SUFFICES ASSUME NEW y, Contains(r, y) PROVE Contains(s, y)
    OBVIOUS
  <2>1. PICK i \in 1..(Len(s) - 1) : r[i] = y
    BY <1>1 DEF Contains
  <2>2. i + 1 \in 1..Len(s) /\ s[i + 1] = y
    BY <1>1, <2>1
  <2> QED BY <2>2 DEF Contains
<1>4. \A y : Contains(s, y) /\ y # Head(s) => Contains(r, y)
  BY <1>0, <1>1 DEF Contains
<1>5. ASSUME IsInjective(s) PROVE IsInjective(r) /\ ~Contains(r, Head(s))
  <2>1. \A j, k \in 1..Len(s) : s[j] = s[k] => j = k
    BY <1>1, <1>5 DEF IsInjective
  <2>2. \A j, k \in 1..(Len(s) - 1) : r[j] = r[k] => j = k
    <3> SUFFICES ASSUME NEW j \in 1..(Len(s) - 1), NEW k \in 1..(Len(s) - 1), r[j] = r[k]
                 PROVE  j = k
      OBVIOUS
    <3>1. j + 1 \in 1..Len(s) /\ k + 1 \in 1..Len(s) /\ s[j + 1] = s[k + 1]
      BY <1>1
    <3>2. j + 1 = k + 1
      BY <2>1, <3>1
    <3> QED BY <3>2
  <2>3. \A j \in 1..(Len(s) - 1) : r[j] # Head(s)
    <3> SUFFICES ASSUME NEW j \in 1..(Len(s) - 1), r[j] = Head(s) PROVE FALSE
      OBVIOUS
    <3>1. j + 1 \in 1..Len(s) /\ 1 \in 1..Len(s) /\ s[j + 1] = s[1]
      BY <1>1
    <3>2. j + 1 = 1
      BY <2>1, <3>1
    <3> QED BY <3>2
  <2> QED BY <1>1, <2>2, <2>3 DEF IsInjective, Contains
<1> QED BY <1>1, <1>2, <1>3, <1>4, <1>5 DEF r

-----------------------------------------------------------------------------
(* What a step does to the call stack: the running frame's callers stay,    *)
(* the running frame stays or goes, and the frames of N come on top.        *)

Over(s, N) ==
  /\ s \in Seq(Frames \cup N)
  /\ \A i \in 1..(Len(stack) - 1) : i \in DOMAIN s /\ s[i] = stack[i]
  /\ \A i \in DOMAIN s : i >= Len(stack) => (i = Len(stack) /\ s[i] = Top) \/ s[i] \in N

LEMMA SeqOfMore ==
  ASSUME NEW A, NEW B, A \subseteq B, NEW s \in Seq(A)
  PROVE  s \in Seq(B)
<1>1. s = [i \in 1..Len(s) |-> s[i]] /\ Len(s) \in Nat /\ \A i \in 1..Len(s) : s[i] \in B
  OBVIOUS
<1> QED BY <1>1, SeqDef

LEMMA OverStack ==
  ASSUME TypeOK, NEW N PROVE Over(stack, N)
<1>1. stack \in Seq(Frames) /\ Len(stack) \in Nat /\ DOMAIN stack = 1..Len(stack)
  BY Running DEF Stacks
<1>2. stack \in Seq(Frames \cup N)
  BY <1>1, SeqOfMore
<1> QED BY <1>1, <1>2 DEF Over, Top

LEMMA OverCallers ==
  ASSUME TypeOK, ~IsMain(Top), NEW N PROVE Over(Callers, N)
<1>1. /\ Len(stack) \in Nat /\ Callers \in Seq(Frames) /\ Len(Callers) = Len(stack) - 1
      /\ \A i \in 1..(Len(stack) - 1) : Callers[i] = stack[i]
  BY Running, Pop DEF Stacks, Callers, Top
<1>2. Callers \in Seq(Frames \cup N)
  BY <1>1, SeqOfMore
<1> QED BY <1>1, <1>2 DEF Over

LEMMA OverAppend ==
  ASSUME TypeOK, NEW N, NEW s, Over(s, N), NEW f, NEW M, N \subseteq M, f \in M,
         Len(s) >= Len(stack) - 1
  PROVE  /\ Over(Append(s, f), M)
         /\ Len(s) \in Nat /\ Len(Append(s, f)) = Len(s) + 1 /\ Append(s, f)[Len(s) + 1] = f
         /\ \A i \in 1..Len(s) : Append(s, f)[i] = s[i]
<1> DEFINE r == Append(s, f)
<1>1. s \in Seq(Frames \cup M) /\ f \in Frames \cup M
  <2>1. PICK A, T : A = Frames \cup N /\ T = Frames \cup M
    OBVIOUS
  <2>2. s \in Seq(A) /\ A \subseteq T /\ f \in T
    BY <2>1 DEF Over
  <2>3. s \in Seq(T)
    BY ONLY <2>2, SeqOfMore
  <2> QED BY <2>1, <2>2, <2>3
<1>2. /\ r \in Seq(Frames \cup M) /\ Len(r) = Len(s) + 1 /\ Len(s) \in Nat
      /\ DOMAIN r = 1..(Len(s) + 1) /\ DOMAIN s = 1..Len(s)
      /\ \A i \in 1..Len(s) : r[i] = s[i]
      /\ r[Len(s) + 1] = f
  <2>1. PICK T : T = Frames \cup M
    OBVIOUS
  <2>2. s \in Seq(T) /\ f \in T
    BY <1>1, <2>1
  <2>3. /\ r \in Seq(T) /\ Len(r) = Len(s) + 1 /\ Len(s) \in Nat
        /\ \A i \in 1..Len(s) : r[i] = s[i]
        /\ r[Len(s) + 1] = f
    BY <2>2, AppendProperties
  <2>4. DOMAIN r = 1..(Len(s) + 1) /\ DOMAIN s = 1..Len(s)
    BY <2>2, <2>3
  <2> QED BY <2>1, <2>3, <2>4
<1> HIDE DEF r
<1>3. Len(stack) \in Nat
  BY Running DEF Stacks
<1>4. \A i \in 1..(Len(stack) - 1) : i \in DOMAIN r /\ r[i] = stack[i]
  BY <1>2, <1>3, SMTT(30) DEF Over
<1>5. ASSUME NEW i \in DOMAIN r, i >= Len(stack)
      PROVE  (i = Len(stack) /\ r[i] = Top) \/ r[i] \in M
  <2>1. CASE i = Len(s) + 1
    BY <1>2, <2>1
  <2>2. CASE i # Len(s) + 1
    BY <1>2, <1>3, <1>5, <2>2 DEF Over
  <2> QED BY <2>1, <2>2
<1> QED BY <1>2, <1>4, <1>5 DEF Over, r

LEMMA OverAppendTwo ==
  ASSUME TypeOK, NEW N, NEW s, Over(s, N), NEW f, NEW g, NEW M, N \subseteq M,
         f \in M, g \in M, Len(s) >= Len(stack) - 1
  PROVE  /\ Over(s \o <<f, g>>, M)
         /\ Len(s) \in Nat /\ Len(s \o <<f, g>>) = Len(s) + 2
         /\ (s \o <<f, g>>)[Len(s) + 1] = f /\ (s \o <<f, g>>)[Len(s) + 2] = g
         /\ \A i \in 1..Len(s) : (s \o <<f, g>>)[i] = s[i]
<1> DEFINE r == Append(s, f)
<1>1. s \in Seq(Frames \cup M) /\ f \in Frames \cup M /\ g \in Frames \cup M
  BY SeqOfMore DEF Over
<1>2. s \o <<f, g>> = Append(r, g)
  BY <1>1, PushTwo
<1>3. /\ Over(r, M) /\ Len(s) \in Nat /\ Len(r) = Len(s) + 1 /\ r[Len(s) + 1] = f
      /\ \A i \in 1..Len(s) : r[i] = s[i]
  BY OverAppend
<1> HIDE DEF r
<1>4. Len(stack) \in Nat
  BY Running DEF Stacks
<1> DEFINE q == Append(r, g)
<1>5. /\ Over(q, M) /\ Len(q) = Len(r) + 1
      /\ q[Len(r) + 1] = g /\ \A i \in 1..Len(r) : q[i] = r[i]
  BY <1>3, <1>4, OverAppend
<1> HIDE DEF q
<1>6. /\ Len(q) = Len(s) + 2
      /\ q[Len(s) + 1] = f /\ q[Len(s) + 2] = g
      /\ \A i \in 1..Len(s) : q[i] = s[i]
  BY <1>3, <1>5
<1>7. s \o <<f, g>> = q
  BY <1>2 DEF q
<1> HIDE DEF r
<1> QED BY <1>3, <1>5, <1>6, <1>7, Zenon

\* The running function goes on as f, or calls g and then goes on as f.
LEMMA OverGoto ==
  ASSUME TypeOK, ~IsMain(Top), NEW f, stack' = Append(Callers, f), NEW M, f \in M
  PROVE  Over(stack', M) /\ Len(stack') = Len(stack) /\ stack'[Len(stack)] = f
<1>1. Over(Callers, {}) /\ Len(Callers) = Len(stack) - 1 /\ Len(stack) \in Nat
  BY OverCallers, Running, Pop DEF Callers, Top, Stacks
<1>2. /\ Over(Append(Callers, f), M) /\ Len(Append(Callers, f)) = Len(Callers) + 1
      /\ Append(Callers, f)[Len(Callers) + 1] = f
  BY <1>1, OverAppend
<1> QED BY <1>1, <1>2

LEMMA OverCall ==
  ASSUME TypeOK, ~IsMain(Top), NEW f, NEW g, stack' = Callers \o <<f, g>>, NEW M,
         f \in M, g \in M
  PROVE  /\ Over(stack', M) /\ Len(stack') = Len(stack) + 1
         /\ stack'[Len(stack)] = f /\ stack'[Len(stack) + 1] = g
<1>1. Over(Callers, {}) /\ Len(Callers) = Len(stack) - 1 /\ Len(stack) \in Nat
  BY OverCallers, Running, Pop DEF Callers, Top, Stacks
<1> DEFINE r == Callers \o <<f, g>>
<1>2. /\ Over(r, M) /\ Len(r) = Len(Callers) + 2
      /\ r[Len(Callers) + 1] = f /\ r[Len(Callers) + 2] = g
  BY <1>1, OverAppendTwo, SMTT(30)
<1>3. stack' = r
  OBVIOUS
<1> HIDE DEF r
<1>4. Len(r) = Len(stack) + 1 /\ r[Len(stack)] = f /\ r[Len(stack) + 1] = g
  BY <1>1, <1>2
<1> QED BY <1>2, <1>3, <1>4, Zenon

\* The running function returns.
LEMMA OverReturn ==
  ASSUME TypeOK, ~IsMain(Top), stack' = Callers, NEW N
  PROVE  Over(stack', N) /\ Len(stack') = Len(stack) - 1
BY OverCallers, Running, Pop DEF Callers, Top

\* The running function calls a service.
LEMMA OverPush ==
  ASSUME TypeOK, NEW f, stack' = Append(stack, f), NEW M, f \in M
  PROVE  /\ Over(stack', M) /\ Len(stack') = Len(stack) + 1
         /\ stack'[Len(stack)] = Top /\ stack'[Len(stack) + 1] = f
<1>1. Over(stack, {}) /\ Len(stack) \in Nat /\ Len(stack) >= 1
  BY OverStack, Running DEF Stacks
<1>2. /\ Over(Append(stack, f), M) /\ Len(Append(stack, f)) = Len(stack) + 1
      /\ Append(stack, f)[Len(stack) + 1] = f
      /\ \A i \in 1..Len(stack) : Append(stack, f)[i] = stack[i]
  BY <1>1, OverAppend
<1> QED BY <1>1, <1>2 DEF Top

\* CoreSignalEvent and CoreCheckEvent, called with the stack rest to return to.
LEMMA OverSignal ==
  ASSUME TypeOK, NEW e, NEW t, NEW rest, CoreSignalEvent(e, t, rest),
         NEW N, Over(rest, N), Len(rest) >= Len(stack) - 1,
         NEW M, N \subseteq M, Restore(t) \in M, Frame("group", t, e, 0) \in M
  PROVE  Over(stack', M) /\ \A i \in 1..Len(rest) : i \in DOMAIN stack' /\ stack'[i] = rest[i]
<1>0. Len(rest) \in Nat
  BY DEF Over
<1>1. CASE stack' = Append(rest, Restore(t))
  <2>1. /\ Over(stack', M) /\ Len(stack') = Len(rest) + 1
        /\ \A i \in 1..Len(rest) : stack'[i] = rest[i]
    BY <1>1, OverAppend
  <2> QED BY <1>0, <2>1 DEF Over
<1>2. CASE stack' = rest \o <<Frame("group", t, e, 0), Restore(t)>>
  <2>1. /\ Over(stack', M) /\ Len(stack') = Len(rest) + 2
        /\ \A i \in 1..Len(rest) : stack'[i] = rest[i]
    BY <1>2, OverAppendTwo
  <2> QED BY <1>0, <2>1 DEF Over
<1>3. \/ stack' = Append(rest, Restore(t))
      \/ stack' = rest \o <<Frame("group", t, e, 0), Restore(t)>>
  BY Zenon DEF CoreSignalEvent
<1> QED BY <1>1, <1>2, <1>3

LEMMA OverCheck ==
  ASSUME TypeOK, NEW e, NEW t, NEW i, NEW rest, CoreCheckEvent(e, t, rest, i),
         NEW N, Over(rest, N), Len(rest) >= Len(stack) - 1,
         NEW M, N \subseteq M, Restore(t) \in M, Frame("poll", t, e, i) \in M
  PROVE  Over(stack', M)
<1>1. CASE stack' = Append(rest, Frame("poll", t, e, i))
  BY <1>1, OverAppend
<1>2. CASE stack' = rest \o <<Frame("poll", t, e, i), Restore(t)>>
  BY <1>2, OverAppendTwo
<1>3. \/ stack' = Append(rest, Frame("poll", t, e, i))
      \/ stack' = rest \o <<Frame("poll", t, e, i), Restore(t)>>
  BY Zenon DEF CoreCheckEvent
<1> QED BY <1>1, <1>2, <1>3

LEMMA OverSignalGoto ==
  ASSUME TypeOK, ~IsMain(Top), NEW e, NEW t, NEW f, CoreSignalEvent(e, t, Append(Callers, f)),
         NEW M, f \in M, Restore(t) \in M, Frame("group", t, e, 0) \in M
  PROVE  Over(stack', M) /\ Len(stack) \in DOMAIN stack' /\ stack'[Len(stack)] = f
<1> DEFINE r == Append(Callers, f)
<1>1. Over(Callers, {}) /\ Len(Callers) = Len(stack) - 1 /\ Len(stack) \in Nat /\ Len(stack) > 0
  BY OverCallers, Running, Pop DEF Callers, Top, Stacks
<1>2. Over(r, M) /\ Len(r) = Len(stack) /\ r[Len(stack)] = f
  BY <1>1, OverAppend
<1>a. CoreSignalEvent(e, t, r)
  OBVIOUS
<1> HIDE DEF r
<1>b. Len(r) >= Len(stack) - 1 /\ M \subseteq M
  BY <1>1, <1>2
<1>3. Over(stack', M) /\ \A i \in 1..Len(r) : i \in DOMAIN stack' /\ stack'[i] = r[i]
  BY <1>2, <1>a, <1>b, OverSignal, Zenon
<1> QED BY <1>1, <1>2, <1>3

-----------------------------------------------------------------------------
(* Ascending order.                                                         *)

Ascending(s, w) == \A i, j \in DOMAIN s : i < j => w[s[i]] <= w[s[j]]

LEMMA SmallerEntry ==
  ASSUME NEW s \in Seq(Event), NEW x, NEW w, Ascending(s, w)
  PROVE  Ascending(RemoveEntry(s, x), w)
<1>1. CASE ~Contains(s, x)
  BY <1>1 DEF RemoveEntry
<1>2. CASE Contains(s, x)
  <2> DEFINE i == CHOOSE i \in DOMAIN s : s[i] = x
             r == RemoveAt(s, i)
  <2>1. i \in 1..Len(s) /\ s[i] = x
    BY <1>2 DEF Contains
  <2>2. RemoveEntry(s, x) = r
    BY <1>2 DEF RemoveEntry
  <2> HIDE DEF i
  <2>3. /\ r \in Seq(Event) /\ Len(r) = Len(s) - 1 /\ Len(s) \in Nat
        /\ \A j \in 1..(Len(s) - 1) : r[j] = IF j < i THEN s[j] ELSE s[j + 1]
    <3>1. s \in Seq(Event) /\ i \in 1..Len(s)
      BY <2>1
    <3>2. PICK k \in 1..Len(s) : k = i
      BY <3>1
    <3>3. /\ RemoveAt(s, k) \in Seq(Event) /\ Len(RemoveAt(s, k)) = Len(s) - 1
          /\ \A j \in 1..(Len(s) - 1) :
               RemoveAt(s, k)[j] = IF j < k THEN s[j] ELSE s[j + 1]
      BY ONLY <3>1, RemoveAtIs
    <3> QED BY <3>1, <3>2, <3>3, SMTT(30)
  <2> HIDE DEF r
  <2>4. DOMAIN r = 1..(Len(s) - 1) /\ DOMAIN s = 1..Len(s)
    BY <2>3
  <2>5. ASSUME NEW j \in 1..(Len(s) - 1), NEW k \in 1..(Len(s) - 1), j < k
        PROVE  w[r[j]] <= w[r[k]]
    <3> DEFINE jj == IF j < i THEN j ELSE j + 1
               kk == IF k < i THEN k ELSE k + 1
    <3>1. /\ jj \in 1..Len(s) /\ kk \in 1..Len(s) /\ jj < kk
          /\ r[j] = s[jj] /\ r[k] = s[kk]
      BY <2>1, <2>3, <2>5
    <3> QED BY <2>4, <3>1 DEF Ascending
  <2> QED BY <2>2, <2>4, <2>5 DEF Ascending
<1> QED BY <1>1, <1>2

LEMMA SmallerTail ==
  ASSUME NEW s \in Seq(Event), s # <<>>, NEW w, Ascending(s, w)
  PROVE  Ascending(Tail(s), w)
<1>1. /\ Len(s) \in Nat /\ DOMAIN s = 1..Len(s) /\ DOMAIN Tail(s) = 1..(Len(s) - 1)
      /\ \A i \in 1..(Len(s) - 1) : Tail(s)[i] = s[i + 1]
  BY HeadTailProperties, EmptySeq
<1>2. ASSUME NEW j \in 1..(Len(s) - 1), NEW k \in 1..(Len(s) - 1), j < k
      PROVE  w[Tail(s)[j]] <= w[Tail(s)[k]]
  <2>1. j + 1 \in 1..Len(s) /\ k + 1 \in 1..Len(s) /\ j + 1 < k + 1
    BY <1>1, <1>2
  <2>2. w[s[j + 1]] <= w[s[k + 1]]
    BY <1>1, <2>1 DEF Ascending
  <2> QED BY <1>1, <2>2
<1> QED BY <1>1, <1>2 DEF Ascending

LEMMA InsertSorted ==
  ASSUME NEW S, NEW s \in Seq(S), NEW i \in 1..Len(s), NEW e \in S, NEW w \in [S -> Int],
         Ascending(s, w), w[s[i]] > w[e], \A j \in 1..(i-1) : w[s[j]] <= w[e]
  PROVE  Ascending(InsertAt(s, i, e), w)
<1> DEFINE r == InsertAt(s, i, e)
<1>0. i \in Int /\ 1 <= i /\ i <= Len(s) /\ Len(s) \in Nat /\ DOMAIN s = 1..Len(s)
  OBVIOUS
<1>1. /\ r \in Seq(S) /\ Len(r) = Len(s) + 1
      /\ \A j \in 1..(Len(s) + 1) :
           r[j] = IF j < i THEN s[j] ELSE IF j = i THEN e ELSE s[j - 1]
  <2>1. PICK k \in 1..Len(s) : k = i
    OBVIOUS
  <2>2. /\ InsertAt(s, k, e) \in Seq(S) /\ Len(InsertAt(s, k, e)) = Len(s) + 1
        /\ \A j \in 1..(Len(s) + 1) :
             InsertAt(s, k, e)[j] = IF j < k THEN s[j] ELSE IF j = k THEN e ELSE s[j - 1]
    BY InsertAtIs
  <2> QED BY <2>1, <2>2
<1> HIDE DEF r
<1>2. \A j \in 1..Len(s) : w[s[j]] \in Int
  OBVIOUS
<1>3. \A j \in 1..Len(s) : j >= i => w[s[j]] >= w[s[i]]
  <2>1. \A j \in 1..Len(s) : j > i => w[s[j]] >= w[s[i]]
    BY <1>0 DEF Ascending
  <2> QED BY <1>0, <1>2, <2>1
<1>4. ASSUME NEW j \in 1..(Len(s) + 1), NEW k \in 1..(Len(s) + 1), j < k
      PROVE  w[r[j]] <= w[r[k]]
  <2>1. CASE j = i
    <3>0. k > i /\ k - 1 \in 1..Len(s) /\ k - 1 >= i
      BY <1>0, <1>4, <2>1
    <3>1. r[j] = e /\ r[k] = s[k - 1] /\ k - 1 \in 1..Len(s) /\ k - 1 >= i
      BY <1>1, <2>1, <3>0
    <3>2. w[s[k - 1]] >= w[s[i]] /\ w[s[i]] > w[e]
      BY <1>3, <3>1
    <3>3. w[s[k - 1]] \in Int /\ w[s[i]] \in Int /\ w[e] \in Int
      BY <1>0, <1>2, <3>1
    <3> QED BY <3>1, <3>2, <3>3
  <2>2. CASE k = i
    <3>1. r[k] = e /\ r[j] = s[j] /\ j \in 1..(i-1)
      BY <1>0, <1>1, <1>4, <2>2
    <3> QED BY <3>1
  <2>3. CASE j # i /\ k # i
    <3> DEFINE jj == IF j < i THEN j ELSE j - 1
               kk == IF k < i THEN k ELSE k - 1
    <3>1. jj \in 1..Len(s) /\ kk \in 1..Len(s) /\ jj < kk
      BY <1>0, <1>4, <2>3
    <3>2. r[j] = s[jj] /\ r[k] = s[kk]
      BY <1>1, <2>3
    <3> HIDE DEF jj, kk
    <3>3. jj \in DOMAIN s /\ kk \in DOMAIN s
      BY <1>0, <3>1
    <3>4. w[s[jj]] <= w[s[kk]]
      BY <3>1, <3>3, Zenon DEF Ascending
    <3> QED BY <3>2, <3>4
  <2> QED BY <2>1, <2>2, <2>3
<1>5. DOMAIN r = 1..(Len(s) + 1)
  BY <1>0, <1>1
<1>6. Ascending(r, w)
  BY <1>4, <1>5, Zenon DEF Ascending
<1> QED BY <1>6 DEF r

LEMMA AppendSorted ==
  ASSUME NEW s \in Seq(Event), NEW e \in Event, NEW w,
         Ascending(s, w), \A j \in 1..Len(s) : w[s[j]] <= w[e]
  PROVE  Ascending(Append(s, e), w)
<1> DEFINE r == Append(s, e)
<1>1. /\ Len(s) \in Nat /\ DOMAIN r = 1..(Len(s) + 1) /\ DOMAIN s = 1..Len(s)
      /\ \A i \in 1..Len(s) : r[i] = s[i]
      /\ r[Len(s) + 1] = e
  BY AppendProperties
<1> HIDE DEF r
<1>2. ASSUME NEW j \in 1..(Len(s) + 1), NEW k \in 1..(Len(s) + 1), j < k
      PROVE  w[r[j]] <= w[r[k]]
  <2>1. j \in 1..Len(s) /\ (k = Len(s) + 1 \/ k \in 1..Len(s))
    BY <1>1, <1>2
  <2> QED BY <1>1, <1>2, <2>1 DEF Ascending
<1> QED BY <1>1, <1>2 DEF Ascending, r

NatLess == OpToRel(<, Nat)

\* Proof by least counterexample.
LEMMA LeastNat ==
  ASSUME NEW T, T \subseteq Nat, T # {}
  PROVE  \E x \in T : \A y \in T : x <= y
<1>1. IsWellFoundedOn(NatLess, Nat)
  BY NatLessThanWellFounded DEF NatLess
<1>2. \E x \in T : \A y \in T : ~(<<y, x>> \in NatLess)
  BY <1>1, WFMin
<1>3. PICK x \in T : \A y \in T : ~(<<y, x>> \in NatLess)
  BY <1>2
<1>4. \A y, z \in Nat : <<y, z>> \in NatLess <=> y < z
  BY DEF NatLess, OpToRel
<1>5. ASSUME NEW y \in T PROVE x <= y
  <2>1. x \in Nat /\ y \in Nat
    OBVIOUS
  <2>2. ~(y < x)
    BY <1>3, <1>4, <2>1
  <2> QED BY <2>1, <2>2
<1> QED BY <1>5

LEMMA CoreInsertIs ==
  ASSUME TypeOK, NEW e \in Event, NEW t \in Int, CoreInsertEventTimer(e, t),
         IsInjective(mEfiTimerList), Ascending(mEfiTimerList, TriggerTime),
         ~Contains(mEfiTimerList, e),
         NEW w \in [Event -> Int], w = [TriggerTime EXCEPT ![e] = t]
  PROVE  /\ IsInjective(mEfiTimerList') /\ Ascending(mEfiTimerList', w)
         /\ \A y : Contains(mEfiTimerList', y) <=> Contains(mEfiTimerList, y) \/ y = e
<1> DEFINE s == mEfiTimerList
<1>1. s \in Seq(Event) /\ TriggerTime \in [Event -> Int]
  BY DEF TypeOK, TimerType
<1>2. \A i \in 1..Len(s) : s[i] \in Event /\ s[i] # e /\ w[s[i]] = TriggerTime[s[i]]
  BY <1>1 DEF Contains
<1>3. w[e] = t
  BY <1>1
<1>4. Ascending(s, w)
  BY <1>1, <1>2 DEF Ascending
<1>5. CASE \E i \in DOMAIN s : FirstLater(i, t)
  <2> DEFINE i == CHOOSE i \in DOMAIN s : FirstLater(i, t)
  <2>1. i \in DOMAIN s /\ FirstLater(i, t)
    BY <1>5, Zenon
  <2>2. s' = InsertAt(s, i, e)
    BY <1>5 DEF CoreInsertEventTimer
  <2> HIDE DEF i
  <2>3. i \in 1..Len(s)
    BY <1>1, <2>1
  <2>4. w[s[i]] > w[e] /\ \A j \in 1..(i-1) : w[s[j]] <= w[e]
    BY <1>1, <1>2, <1>3, <2>1, <2>3 DEF FirstLater
  <2>5. Ascending(InsertAt(s, i, e), w)
    BY <1>1, <1>4, <2>3, <2>4, InsertSorted
  <2>6. /\ \A y : Contains(InsertAt(s, i, e), y) <=> Contains(s, y) \/ y = e
        /\ IsInjective(InsertAt(s, i, e))
    BY <1>1, <2>3, InsertedIs
  <2> QED BY <2>2, <2>5, <2>6
<1>6. CASE ~\E i \in DOMAIN s : FirstLater(i, t)
  <2>1. s' = Append(s, e)
    BY <1>6 DEF CoreInsertEventTimer
  <2>2. \A j \in 1..Len(s) : w[s[j]] <= w[e]
    <3> DEFINE T == {j \in 1..Len(s) : TriggerTime[s[j]] > t}
    <3>1. T = {}
      <4> SUFFICES ASSUME T # {} PROVE FALSE
        OBVIOUS
      <4>1. T \subseteq Nat
        BY <1>1
      <4>2. PICK i \in T : \A j \in T : i <= j
        BY <4>1, LeastNat
      <4>3. \A j \in 1..(i-1) : j \in 1..Len(s) /\ j \notin T
        BY <1>1, <4>2
      <4>4. FirstLater(i, t)
        BY <1>1, <4>2, <4>3 DEF FirstLater
      <4> QED BY <1>1, <1>6, <4>4
    <3> QED BY <1>1, <1>2, <1>3, <3>1
  <2>3. Ascending(Append(s, e), w)
    BY <1>1, <1>4, <2>2, AppendSorted
  <2>4. /\ \A y : Contains(Append(s, e), y) <=> Contains(s, y) \/ y = e
        /\ IsInjective(Append(s, e))
    BY <1>1, AppendedIs
  <2> QED BY <2>1, <2>3, <2>4
<1> QED BY <1>5, <1>6

-----------------------------------------------------------------------------
(* The invariant of the timer database.                                     *)

\* Functions that work on a timer, and those whose timer is out of the list.
OfTimer  == {"SetTimer", "SetPeriodic"} \cup (LockHolder \ {"scan"})
Detached == {"arm", "insert", "fire", "rearm", "reinsert"}

TimerFrame(f, list) ==
  /\ f.pc \in OfTimer => IsTimer(f.ev)
  /\ f.pc \in Detached => ~Contains(list, f.ev)
  /\ f.pc \in {"SetPeriodic", "unlinkPeriodic"} => f.at # -1
  /\ f.pc \in {"check", "scan"} => f.ev = CheckTimer

\* Only events with EVT_TIMER are armed.
TimersOnly == \A e \in Event : Contains(mEfiTimerList, e) \/ Period[e] # 0 => IsTimer(e)

TimerFrames == \A i \in DOMAIN stack : TimerFrame(stack[i], mEfiTimerList)

TimerInv == TimerListSound /\ PeriodicStaysArmed /\ TimersOnly /\ TimerFrames

LEMMA ListSound == TimerListSound <=> /\ IsInjective(mEfiTimerList)
                                      /\ Ascending(mEfiTimerList, TriggerTime)
BY DEF TimerListSound, Ascending

LEMMA OffTimer ==
  ASSUME NEW f, f.pc \notin OfTimer \cup {"check", "scan"}, NEW list PROVE TimerFrame(f, list)
BY DEF TimerFrame, OfTimer, Detached, LockHolder

\* A step of a function that does not hold mEfiTimerLock.
LEMMA IdleTimers ==
  ASSUME TypeOK, TimerInv, UNCHANGED <<mEfiTimerList, TriggerTime, Period>>,
         NEW N, Over(stack', N), \A f \in N : TimerFrame(f, mEfiTimerList),
         Top.pc \in LockHolder \ {"unlock"} =>
           Len(stack) \in DOMAIN stack' /\ stack'[Len(stack)] = Top
  PROVE  TimerInv'
<1>0. /\ Len(stack) \in Nat /\ DOMAIN stack = 1..Len(stack) /\ Len(stack) >= 1
      /\ DOMAIN stack' \subseteq Int
  BY Running DEF Stacks, Over
<1>1. TimerListSound' /\ TimersOnly'
  BY DEF TimerInv, TimerListSound, TimersOnly
<1>2. ASSUME NEW i \in DOMAIN stack' PROVE TimerFrame(stack'[i], mEfiTimerList)
  <2>1. CASE i < Len(stack)
    <3>1. i \in DOMAIN stack /\ stack'[i] = stack[i]
      BY <1>0, <2>1 DEF Over
    <3> QED BY <3>1 DEF TimerInv, TimerFrames
  <2>2. CASE i = Len(stack) /\ stack'[i] = Top
    BY <1>0, <2>2 DEF TimerInv, TimerFrames, Top
  <2>3. CASE stack'[i] \in N
    BY <2>3
  <2> QED BY <1>0, <2>1, <2>2, <2>3 DEF Over
<1>3. ASSUME NEW e \in Event, Period[e] # 0 PROVE (Contains(mEfiTimerList, e) \/ InDatabase(e))'
  <2>1. CASE Contains(mEfiTimerList, e)
    BY <2>1
  <2>2. CASE InDatabase(e)
    <3>1. PICK i \in DOMAIN stack : stack[i].ev = e /\ stack[i].pc \in LockHolder \ {"unlock"}
      BY <2>2 DEF InDatabase
    <3>2. i \in DOMAIN stack' /\ stack'[i] = stack[i]
      BY <1>0, <3>1 DEF Over, Top
    <3> QED BY <3>1, <3>2 DEF InDatabase
  <2> QED BY <1>3, <2>1, <2>2 DEF TimerInv, PeriodicStaysArmed
<1> QED BY <1>1, <1>2, <1>3 DEF TimerInv, TimerFrames, PeriodicStaysArmed

\* No function below the running one holds mEfiTimerLock.
LEMMA OnlyHolder ==
  ASSUME TypeOK, StackInv, Top.pc \in LockHolder \cup {"SetTimer", "SetPeriodic", "check"},
         NEW i \in 1..(Len(stack) - 1)
  PROVE  stack[i].pc \notin LockHolder
<1>1. Len(stack) \in Nat /\ i \in DOMAIN stack /\ Len(stack) \in DOMAIN stack /\ i < Len(stack)
  BY Running DEF Stacks
<1>2. Top.pc \notin Quiet
  BY DEF Quiet, LockHolder
<1> QED BY <1>1, <1>2, StackHoldsLockOnce DEF Top

LEMMA ArmedNow ==
  ASSUME TypeOK, StackInv, TimerInv,
         Top.pc \in LockHolder \cup {"SetTimer", "SetPeriodic", "check"},
         NEW e \in Event, Period[e] # 0
  PROVE  Contains(mEfiTimerList, e) \/ (Top.ev = e /\ Top.pc \in LockHolder \ {"unlock"})
<1>1. CASE InDatabase(e)
  <2>1. PICK i \in DOMAIN stack : stack[i].ev = e /\ stack[i].pc \in LockHolder \ {"unlock"}
    BY <1>1 DEF InDatabase
  <2>2. DOMAIN stack = 1..Len(stack) /\ Len(stack) \in Nat
    BY Running DEF Stacks
  <2>3. i = Len(stack)
    BY <2>1, <2>2, OnlyHolder
  <2> QED BY <2>1, <2>3 DEF Top
<1> QED BY <1>1 DEF TimerInv, PeriodicStaysArmed

\* A step of a function that takes, holds or leaves mEfiTimerLock and goes on as f.
LEMMA LockTimers ==
  ASSUME TypeOK, StackInv, TimerInv,
         Top.pc \in LockHolder \cup {"SetTimer", "SetPeriodic", "check"},
         NEW f, NEW N, Over(stack', N), Len(stack) \in DOMAIN stack', stack'[Len(stack)] = f,
         \A g \in N : g = f \/ g.pc \notin OfTimer \cup {"check", "scan"},
         f \in N, TimerFrame(f, mEfiTimerList'),
         IsInjective(mEfiTimerList'), Ascending(mEfiTimerList', TriggerTime'), TimersOnly',
         \A e \in Event : Period'[e] # 0 =>
           Contains(mEfiTimerList', e) \/ (f.ev = e /\ f.pc \in LockHolder \ {"unlock"})
  PROVE  TimerInv'
<1>0. /\ Len(stack) \in Nat /\ DOMAIN stack = 1..Len(stack) /\ Len(stack) >= 1
      /\ DOMAIN stack' \subseteq Int
  BY Running DEF Stacks, Over
<1>1. TimerListSound'
  BY DEF TimerListSound, Ascending
<1>2. ASSUME NEW i \in DOMAIN stack' PROVE TimerFrame(stack'[i], mEfiTimerList')
  <2>1. CASE i < Len(stack) /\ i >= 1
    <3>1. i \in DOMAIN stack /\ stack'[i] = stack[i] /\ i \in 1..(Len(stack) - 1)
      BY <1>0, <2>1 DEF Over
    <3>2. stack[i].pc \notin LockHolder
      BY <3>1, OnlyHolder
    <3>3. Detached \subseteq LockHolder
      BY DEF Detached, LockHolder
    <3> QED BY <3>1, <3>2, <3>3 DEF TimerInv, TimerFrames, TimerFrame
  <2>2. CASE stack'[i] \in N /\ stack'[i] # f
    BY <2>2 DEF TimerFrame, OfTimer, Detached, LockHolder
  <2>3. CASE stack'[i] = f
    BY <2>3
  <2>4. DOMAIN stack' = 1..Len(stack')
    BY DEF Over
  <2> QED BY <1>0, <2>1, <2>2, <2>3, <2>4 DEF Over
<1>3. ASSUME NEW e \in Event, Period'[e] # 0 PROVE Contains(mEfiTimerList', e) \/ InDatabase(e)'
  BY <1>3 DEF InDatabase
<1> QED BY <1>1, <1>2, <1>3 DEF TimerInv, TimerFrames, PeriodicStaysArmed

-----------------------------------------------------------------------------
(* The frames that a step puts on the stack.                                *)

\* Frame f will still read its event when it goes on.
Uses(f) == f.ev \in Event /\ f.pc \notin {"run", "call"}

\* Frame f belongs to a CoreWaitForEvent in progress.
WaitFrame(f) == f.pc = "wait" \/ (f.pc = "poll" /\ f.at # 0)

\* Why a function may start to work on e: e belongs to the core or is live, an
\* armed timer, one of the events waited for, or the running function's own.
Source(e) ==
  \/ e \in {CheckTimer, IdleLoop}
  \/ life[e] = "live"
  \/ Contains(mEfiTimerList, e)
  \/ WaitFrame(Top) /\ e \in ToSet(UserEvents)
  \/ Uses(Top) /\ Top.ev = e /\ Top.pc \notin {"close", "free", "unlock"}

\* The frames that all services but CoreCloseEvent put on the stack ...
Fresh(f) ==
  /\ f.pc \notin {"close", "free"}
  /\ Uses(f) => Source(f.ev)
  /\ f.pc = "call" => Top.pc = "dispatch" /\ Queued(f.ev)
  /\ DriverCode(f) => Top.pc \in {"call", "run", "section"} /\ Top.tpl <= f.tpl
  /\ WaitFrame(f) => WaitFrame(Top)
  /\ f.pc = "members" => Top.pc \in {"group", "members"}

\* ... and those that the functions outside Timer.c do.
Mild(f) ==
  Fresh(f) /\ f.pc \notin OfTimer /\ (f.pc \in {"check", "scan"} => f.ev = CheckTimer)

\* What a step of a function outside Timer.c, or an interrupt, does to the stack.
IdleStep ==
  /\ Over(stack', {f \in Frames : Mild(f)})
  /\ Top.pc \in LockHolder \cup {"SetTimer"} =>
       Len(stack) \in DOMAIN stack' /\ stack'[Len(stack)] = Top

LEMMA OverMore ==
  ASSUME TypeOK', NEW N, NEW M, Over(stack', N), \A f \in N \cap Frames : f \in M
  PROVE  Over(stack', M)
<1>1. stack' \in Seq(Frames) /\ \A i \in DOMAIN stack' : stack'[i] \in Frames
  BY DEF TypeOK, ServiceType, Stacks
<1>2. stack' \in Seq(Frames \cup M)
  BY <1>1, SeqOfMore
<1> QED BY <1>1, <1>2 DEF Over

LEMMA Idle ==
  ASSUME TypeOK', NEW N, Over(stack', N), \A f \in N : Mild(f),
         Top.pc \notin LockHolder \cup {"SetTimer"}
  PROVE  IdleStep
BY OverMore DEF IdleStep

LEMMA RestoreMild ==
  ASSUME NEW t PROVE Mild(Restore(t))
<1>1. Restore(t).pc = "restore" /\ Restore(t).ev = NoEvent /\ NoEvent \notin Event
  BY EventAssumption, FrameParts DEF Restore
<1> QED BY <1>1 DEF Mild, Fresh, Uses, DriverCode, WaitFrame, OfTimer, LockHolder

\* The running function goes on with its own event, or with none.
LEMMA NowMild ==
  ASSUME Top.pc \notin {"run", "call", "close", "free", "unlock"},
         NEW pc, pc \notin OfTimer \cup {"close", "free", "call", "run", "section", "wait", "poll",
                                       "check", "scan"},
         pc = "members" => Top.pc \in {"group", "members"},
         NEW n
  PROVE  Mild(Now(pc, Top.ev, n))
<1>1. Now(pc, Top.ev, n).pc = pc /\ Now(pc, Top.ev, n).ev = Top.ev
  BY NowFields
<1> QED BY <1>1 DEF Mild, Fresh, Uses, Source, DriverCode, WaitFrame

LEMMA NoEventMild ==
  ASSUME NEW pc, pc \notin OfTimer \cup {"close", "free", "call", "run", "section", "wait", "poll",
                                       "check", "scan", "members"},
         NEW t, NEW n
  PROVE  Mild(Frame(pc, t, NoEvent, n))
<1>1. Frame(pc, t, NoEvent, n).pc = pc /\ Frame(pc, t, NoEvent, n).ev = NoEvent
  BY FrameParts
<1> QED BY <1>1, EventAssumption DEF Mild, Fresh, Uses, DriverCode, WaitFrame

LEMMA GroupMild ==
  ASSUME NEW t, NEW e, NEW n, Source(e)
  PROVE  Mild(Frame("group", t, e, n))
<1>1. Frame("group", t, e, n).pc = "group" /\ Frame("group", t, e, n).ev = e
  BY FrameParts
<1> QED BY <1>1 DEF Mild, Fresh, Uses, DriverCode, WaitFrame, OfTimer, LockHolder

LEMMA RestoreLoopIdle ==
  ASSUME TypeOK, TypeOK', RestoreLoop PROVE IdleStep
<1> DEFINE f == Now("pick", Top.ev, Max(gEventPending))
           g == Now("lower", Top.ev, Top.at)
<1>1. /\ Top.pc = "restore" /\ ~IsMain(Top)
      /\ stack' = Append(Callers, f) \/ stack' = Append(Callers, g)
  BY Zenon DEF RestoreLoop, Goto, IsMain
<1>2. Mild(f) /\ Mild(g)
  BY <1>1, NowMild DEF OfTimer, LockHolder
<1> HIDE DEF f, g
<1>3. Over(stack', {f, g})
  BY <1>1, OverGoto
<1>4. Top.pc \notin LockHolder \cup {"SetTimer"}
  BY <1>1 DEF LockHolder
<1> QED BY <1>2, <1>3, <1>4, Idle

LEMMA RestorePickIdle ==
  ASSUME TypeOK, TypeOK', RestorePick PROVE IdleStep
<1> DEFINE f == Now("restore", Top.ev, 0)
           g(p) == Frame("dispatch", p, NoEvent, 0)
           h == Now("halt", Top.ev, Top.at)
<1>1. Top.pc = "pick" /\ ~IsMain(Top)
  BY DEF RestorePick, IsMain
<1>2. PICK p : stack' = Callers \o <<f, g(p)>> \/ stack' = Append(Callers, h)
  BY Zenon DEF RestorePick, Goto
<1>3. Mild(f) /\ Mild(g(p)) /\ Mild(h)
  BY <1>1, NowMild, NoEventMild DEF OfTimer, LockHolder
<1> HIDE DEF f, g, h
<1>4. Over(stack', {f, g(p), h})
  BY <1>1, <1>2, OverGoto, OverCall
<1>5. Top.pc \notin LockHolder \cup {"SetTimer"}
  BY <1>1 DEF LockHolder
<1> QED BY <1>3, <1>4, <1>5, Idle

\* A function that returns.
LEMMA ReturnIdle ==
  ASSUME TypeOK, TypeOK', RestoreLower \/ Return \/ InterruptReturn PROVE IdleStep
<1>1. ~IsMain(Top) /\ stack' = Callers /\ Top.pc \in {"lower", "run", "iret"}
  BY DEF RestoreLower, Return, InterruptReturn, IsMain
<1>2. Over(stack', {})
  BY <1>1, OverReturn
<1>3. Top.pc \notin LockHolder \cup {"SetTimer"}
  BY <1>1 DEF LockHolder
<1> QED BY <1>2, <1>3, Idle

LEMMA DispatchPopIdle ==
  ASSUME TypeOK, TypeOK', DispatchPop PROVE IdleStep
<1> DEFINE e == Head(gEventQueue[Top.tpl])
           f == Now("call", e, 0)
           g == Restore(Top.tpl)
<1>1. /\ Top.pc = "dispatch" /\ ~IsMain(Top) /\ gEventQueue[Top.tpl] # <<>>
      /\ stack' = Callers \o <<f, g>>
  BY DEF DispatchPop, IsMain
<1>2. Queued(e)
  <2>1. Top.tpl \in Level
    BY <1>1, Running DEF Frames, FrameOK
  <2>2. Contains(gEventQueue[Top.tpl], e)
    BY <1>1, <2>1, TailIs DEF TypeOK, ServiceType
  <2> QED BY <2>1, <2>2 DEF Queued
<1> HIDE DEF e
<1>3. f.pc = "call" /\ f.ev = e
  BY NowFields
<1> HIDE DEF f
<1>4. Mild(f)
  BY <1>1, <1>2, <1>3 DEF Mild, Fresh, Uses, DriverCode, WaitFrame, OfTimer, LockHolder
<1>5. Mild(g)
  BY RestoreMild
<1> HIDE DEF g
<1>6. Over(stack', {f, g})
  BY <1>1, OverCall, SMTT(30)
<1>7. Top.pc \notin LockHolder \cup {"SetTimer"}
  BY <1>1 DEF LockHolder
<1> QED BY <1>4, <1>5, <1>6, <1>7, Idle

\* The running function goes on in CoreRestoreTpl.
LEMMA LeaveIdle ==
  ASSUME TypeOK, TypeOK', ~IsMain(Top), NEW t, stack' = Append(Callers, Restore(t)),
         Top.pc \notin LockHolder \cup {"SetTimer"}
  PROVE  IdleStep
<1>1. Over(stack', {Restore(t)})
  BY OverGoto
<1> QED BY <1>1, RestoreMild, Idle

LEMMA DispatchCallIdle ==
  ASSUME TypeOK, TypeOK', DispatchCall PROVE IdleStep
<1> DEFINE f == Now("dispatch", NoEvent, 0)
           pc == IF Top.ev = CheckTimer THEN "check" ELSE "run"
           g == Frame(pc, Top.tpl, Top.ev, 0)
<1>1. Top.pc = "call" /\ ~IsMain(Top) /\ stack' = Callers \o <<f, g>>
  BY DEF DispatchCall, IsMain
<1>2. Mild(f)
  BY NoEventMild DEF Now, OfTimer, LockHolder
<1>3. g.pc = pc /\ g.tpl = Top.tpl /\ g.ev = Top.ev
  BY FrameParts
<1> HIDE DEF f, g
<1>4. Mild(g)
  <2>1. Top.tpl <= g.tpl
    BY <1>3, Running, LevelOrder
  <2>2. CASE Top.ev = CheckTimer
    BY <1>1, <1>3, <2>2 DEF Mild, Fresh, Uses, Source, DriverCode, WaitFrame, OfTimer, LockHolder
  <2>3. CASE Top.ev # CheckTimer
    BY <1>1, <1>3, <2>1, <2>3 DEF Mild, Fresh, Uses, DriverCode, WaitFrame, OfTimer, LockHolder
  <2> QED BY <2>2, <2>3
<1>5. Over(stack', {f, g})
  <2>1. f \in {f, g} /\ g \in {f, g}
    OBVIOUS
  <2> QED BY <1>1, <2>1, OverCall, Zenon
<1>6. Top.pc \notin LockHolder \cup {"SetTimer"}
  BY <1>1 DEF LockHolder
<1> QED BY <1>2, <1>4, <1>5, <1>6, Idle

\* The steps of CoreNotifySignalList.
LEMMA GroupIdle ==
  ASSUME TypeOK, TypeOK', GroupLock \/ GroupMember \/ GroupUnlock PROVE IdleStep
<1> DEFINE f == Now("members", Top.ev, 1)
           g == Now("members", Top.ev, Top.at + 1)
           h == Now("relock", Top.ev, 0)
           r == Restore(Top.tpl)
<1>1. /\ Top.pc \in {"group", "members"} /\ ~IsMain(Top)
      /\ \/ stack' = Append(Callers, f)
         \/ stack' = Append(Callers, g)
         \/ stack' = Callers \o <<h, r>>
  BY DEF GroupLock, GroupMember, GroupUnlock, IsMain
<1>2. Mild(f) /\ Mild(g) /\ Mild(h) /\ Mild(r)
  BY <1>1, NowMild, RestoreMild DEF OfTimer, LockHolder
<1> HIDE DEF f, g, h, r
<1>3. Over(stack', {f, g, h, r})
  BY <1>1, OverGoto, OverCall, SMTT(30)
<1>4. Top.pc \notin LockHolder \cup {"SetTimer"}
  BY <1>1 DEF LockHolder
<1> QED BY <1>2, <1>3, <1>4, Idle

LEMMA PollNotReadyIdle ==
  ASSUME TypeOK, TypeOK', PollNotReady PROVE IdleStep
<1> DEFINE f == Now("wait", NoEvent, Top.at + 1)
<1>1. /\ Top.pc = "poll" /\ ~IsMain(Top)
      /\ stack' = Callers \/ (Top.at # 0 /\ stack' = Append(Callers, f))
  BY DEF PollNotReady, IsMain
<1>2. f.pc = "wait" /\ f.ev = NoEvent /\ NoEvent \notin Event
  BY NowFields, EventAssumption
<1> HIDE DEF f
<1>3. Top.pc \notin LockHolder \cup {"SetTimer"}
  BY <1>1 DEF LockHolder
<1>4. CASE stack' = Callers
  <2>1. Over(stack', {})
    BY <1>1, <1>4, OverReturn
  <2> QED BY <1>3, <2>1, Idle
<1>5. CASE Top.at # 0 /\ stack' = Append(Callers, f)
  <2>1. Mild(f)
    BY <1>1, <1>2, <1>5 DEF Mild, Fresh, Uses, DriverCode, WaitFrame, OfTimer, LockHolder
  <2>2. Over(stack', {f})
    BY <1>1, <1>5, OverGoto
  <2> QED BY <1>3, <2>1, <2>2, Idle
<1> QED BY <1>1, <1>4, <1>5

LEMMA WaitCheckIdle ==
  ASSUME TypeOK, TypeOK', WaitCheck PROVE IdleStep
<1> DEFINE e == UserEvents[Top.at]
           f == Frame("poll", Top.tpl, e, Top.at)
<1>1. /\ Top.pc = "wait" /\ ~IsMain(Top) /\ Top.at \in 1..Len(UserEvents)
      /\ CoreCheckEvent(e, Top.tpl, Callers, Top.at)
  BY Running DEF WaitCheck, MoreEvents, IsMain, Frames, FrameOK, TypeOK, ClientType
<1>2. e \in ToSet(UserEvents)
  BY <1>1 DEF ToSet, TypeOK, ClientType
<1> HIDE DEF e
<1>3. f.pc = "poll" /\ f.ev = e
  BY FrameParts
<1> HIDE DEF f
<1>4. Mild(f)
  BY <1>1, <1>2, <1>3 DEF Mild, Fresh, Uses, Source, DriverCode, WaitFrame, OfTimer, LockHolder
<1>5. Over(stack', {f, Restore(Top.tpl)})
  <2>1. Over(Callers, {}) /\ Len(Callers) >= Len(stack) - 1
    BY <1>1, OverCallers, Running, Pop DEF Callers, Top, Stacks
  <2> QED BY <1>1, <2>1, OverCheck DEF f
<1>6. Top.pc \notin LockHolder \cup {"SetTimer"}
  BY <1>1 DEF LockHolder
<1> QED BY <1>4, <1>5, <1>6, RestoreMild, Idle

LEMMA WaitIdleIdle ==
  ASSUME TypeOK, TypeOK', WaitIdle PROVE IdleStep
<1> DEFINE f == Now("wait", NoEvent, 1)
           g == Frame("group", Top.tpl, IdleLoop, 0)
<1>1. /\ Top.pc = "wait" /\ ~IsMain(Top)
      /\ CoreSignalEvent(IdleLoop, Top.tpl, Append(Callers, f))
  BY DEF WaitIdle, IsMain
<1>2. f.pc = "wait" /\ f.ev = NoEvent /\ NoEvent \notin Event
  BY NowFields, EventAssumption
<1> HIDE DEF f
<1>3. Mild(f)
  BY <1>1, <1>2 DEF Mild, Fresh, Uses, DriverCode, WaitFrame, OfTimer, LockHolder
<1>4. Mild(g) /\ Mild(Restore(Top.tpl))
  BY GroupMild, RestoreMild DEF Source
<1>5. Over(stack', {f, g, Restore(Top.tpl)})
  BY <1>1, OverSignalGoto
<1> HIDE DEF g
<1>6. Top.pc \notin LockHolder \cup {"SetTimer"}
  BY <1>1 DEF LockHolder
<1> QED BY <1>3, <1>4, <1>5, <1>6, Idle

LEMMA ClientIdle ==
  ASSUME TypeOK, TypeOK', ClientRuns, NEW N, Over(stack', N), \A f \in N : Mild(f)
  PROVE  IdleStep
<1>1. Top.pc \notin LockHolder \cup {"SetTimer"}
  BY DEF ClientRuns, LockHolder
<1> QED BY <1>1, Idle

LEMMA RaiseTPLIdle ==
  ASSUME TypeOK, TypeOK', RaiseTPL, gEfiCurrentTpl = Top.tpl PROVE IdleStep
<1>1. PICK t \in {TPL_CALLBACK, TPL_NOTIFY, TPL_HIGH_LEVEL} :
        t >= gEfiCurrentTpl /\ stack' = Append(stack, Frame("section", t, NoEvent, gEfiCurrentTpl))
  BY Zenon DEF RaiseTPL
<1> DEFINE f == Frame("section", t, NoEvent, gEfiCurrentTpl)
<1>2. f.pc = "section" /\ f.ev = NoEvent /\ NoEvent \notin Event /\ f.tpl = t
  BY FrameParts, EventAssumption
<1>3. ClientRuns
  BY DEF RaiseTPL, Invokes
<1>4. Top.tpl <= t
  BY <1>1, Running DEF TPL_CALLBACK, TPL_NOTIFY, TPL_HIGH_LEVEL
<1>a. stack' = Append(stack, f)
  BY <1>1
<1> HIDE DEF f
<1>5. Mild(f)
  BY <1>2, <1>3, <1>4 DEF ClientRuns, Mild, Fresh, Uses, DriverCode, WaitFrame, OfTimer, LockHolder
<1>6. Over(stack', {f})
  BY <1>a, OverPush
<1> QED BY <1>3, <1>5, <1>6, ClientIdle

LEMMA CreateEventIdle ==
  ASSUME TypeOK, TypeOK', NEW e \in Client, CreateEvent(e) PROVE IdleStep
<1>1. ClientRuns /\ stack' = Append(stack, Restore(gEfiCurrentTpl))
  BY DEF CreateEvent
<1>2. Over(stack', {Restore(gEfiCurrentTpl)})
  BY <1>1, OverPush
<1> QED BY <1>1, <1>2, RestoreMild, ClientIdle

LEMMA SignalEventIdle ==
  ASSUME TypeOK, TypeOK', NEW e \in Client, SignalEvent(e) PROVE IdleStep
<1> DEFINE g == Frame("group", gEfiCurrentTpl, e, 0)
           r == Restore(gEfiCurrentTpl)
<1>1. ClientRuns /\ life[e] = "live" /\ CoreSignalEvent(e, gEfiCurrentTpl, stack)
  BY DEF SignalEvent, Invokes
<1>2. Mild(g) /\ Mild(r)
  BY <1>1, GroupMild, RestoreMild DEF Source
<1>3. Over(stack', {g, r})
  <2>1. Over(stack, {}) /\ Len(stack) >= Len(stack) - 1
    BY OverStack, Running DEF Stacks
  <2> QED BY <1>1, <2>1, OverSignal
<1> HIDE DEF g, r
<1> QED BY <1>1, <1>2, <1>3, ClientIdle

LEMMA CheckEventIdle ==
  ASSUME TypeOK, TypeOK', NEW e \in Client, CheckEvent(e) PROVE IdleStep
<1> DEFINE f == Frame("poll", gEfiCurrentTpl, e, 0)
           r == Restore(gEfiCurrentTpl)
<1>1. ClientRuns /\ life[e] = "live" /\ CoreCheckEvent(e, gEfiCurrentTpl, stack, 0)
  BY DEF CheckEvent, Invokes
<1>2. f.pc = "poll" /\ f.ev = e /\ f.at = 0
  BY FrameParts
<1>3. Over(stack', {f, r})
  <2>1. Over(stack, {}) /\ Len(stack) >= Len(stack) - 1
    BY OverStack, Running DEF Stacks
  <2> QED BY <1>1, <2>1, OverCheck
<1>4. Mild(r)
  BY RestoreMild
<1> HIDE DEF f, r
<1>5. Mild(f)
  BY <1>1, <1>2 DEF Mild, Fresh, Uses, Source, DriverCode, WaitFrame, OfTimer, LockHolder
<1> QED BY <1>1, <1>3, <1>4, <1>5, ClientIdle

\* An interrupt leaves the interrupted function where it is.
LEMMA TimerInterruptOver ==
  ASSUME TypeOK, TimerInterrupt
  PROVE  /\ Over(stack', {Frame("iret", gEfiCurrentTpl, NoEvent, 0), Restore(gEfiCurrentTpl),
                          Frame("group", gEfiCurrentTpl, CheckTimer, 0)})
         /\ Len(stack) \in DOMAIN stack' /\ stack'[Len(stack)] = Top
<1> DEFINE t == gEfiCurrentTpl
           f == Frame("iret", t, NoEvent, 0)
           g == Frame("group", t, CheckTimer, 0)
           h == Append(stack, f)
           N == {f, Restore(t), g}
<1>1. CoreSignalEvent(CheckTimer, t, h) \/ stack' = Append(h, Restore(t))
  BY Zenon DEF TimerInterrupt
<1>3. Over(stack, {}) /\ Len(stack) \in Nat /\ Len(stack) >= 1 /\ stack[Len(stack)] = Top
  BY OverStack, Running DEF Stacks, Top
<1> HIDE DEF f, t
<1>4. /\ Over(h, N) /\ Len(h) = Len(stack) + 1 /\ \A i \in 1..Len(stack) : h[i] = stack[i]
  BY <1>3, OverAppend
<1> HIDE DEF h, g
<1>5. Over(stack', N) /\ Len(stack) \in DOMAIN stack' /\ stack'[Len(stack)] = Top
  <2>1. CASE CoreSignalEvent(CheckTimer, t, h)
    <3>1. Over(stack', N) /\ \A i \in 1..Len(h) : i \in DOMAIN stack' /\ stack'[i] = h[i]
      BY <1>3, <1>4, <2>1, OverSignal DEF g
    <3> QED BY <1>3, <1>4, <3>1
  <2>2. CASE stack' = Append(h, Restore(t))
    <3>1. /\ Over(stack', N) /\ Len(stack') = Len(h) + 1
          /\ \A i \in 1..Len(h) : stack'[i] = h[i]
      BY <1>3, <1>4, <2>2, OverAppend
    <3> QED BY <1>3, <1>4, <3>1 DEF Over
  <2> QED BY <1>1, <2>1, <2>2
<1> QED BY <1>5 DEF f, g, t

LEMMA TimerInterruptIdle ==
  ASSUME TypeOK, TypeOK', TimerInterrupt PROVE IdleStep
<1> DEFINE t == gEfiCurrentTpl
           f == Frame("iret", t, NoEvent, 0)
           g == Frame("group", t, CheckTimer, 0)
           N == {f, Restore(t), g}
<1>1. Over(stack', N) /\ Len(stack) \in DOMAIN stack' /\ stack'[Len(stack)] = Top
  BY TimerInterruptOver
<1>2. Mild(f) /\ Mild(g) /\ Mild(Restore(t))
  BY GroupMild, RestoreMild, NoEventMild DEF Source, OfTimer, LockHolder
<1> HIDE DEF f, g, t
<1> QED BY <1>1, <1>2, OverMore DEF IdleStep

\* The steps that restore the level and return: the section's own is left.
LEMMA LeavingIdle ==
  ASSUME TypeOK, TypeOK', RestoreTPL \/ DispatchDone \/ SignalRelock \/ PollSignalled
  PROVE  IdleStep
<1>1. /\ Top.pc \in {"section", "dispatch", "relock", "poll"} /\ ~IsMain(Top)
      /\ \E t : stack' = Append(Callers, Restore(t))
  BY DEF RestoreTPL, DispatchDone, SignalRelock, PollSignalled, IsMain
<1>2. Top.pc \notin LockHolder \cup {"SetTimer"}
  BY <1>1 DEF LockHolder
<1> QED BY <1>1, <1>2, LeaveIdle

\* Every step outside Timer.c but those of CoreCloseEvent and the call of CoreWaitForEvent.
IdleAction ==
  \/ TplStep
  \/ RestoreTPL \/ Return \/ GroupLock \/ GroupMember \/ GroupUnlock \/ SignalRelock
  \/ PollSignalled \/ PollNotReady \/ WaitCheck \/ WaitIdle
  \/ RaiseTPL \/ TimerInterrupt \/ InterruptReturn
  \/ \E e \in Client : CreateEvent(e) \/ SignalEvent(e) \/ CheckEvent(e)

LEMMA IdleActionStep ==
  ASSUME TypeOK, TypeOK', StackInv, IdleAction PROVE IdleStep
<1>1. CASE TplStep
  BY <1>1, RestoreLoopIdle, RestorePickIdle, ReturnIdle, DispatchPopIdle, LeavingIdle,
     DispatchCallIdle, Zenon DEF TplStep
<1>2. CASE \/ RestoreTPL \/ Return \/ GroupLock \/ GroupMember \/ GroupUnlock \/ SignalRelock
           \/ PollSignalled \/ PollNotReady \/ WaitCheck \/ WaitIdle \/ InterruptReturn
  BY <1>2, ReturnIdle, LeavingIdle, GroupIdle, PollNotReadyIdle, WaitCheckIdle, WaitIdleIdle
<1>3. CASE RaiseTPL
  <2>1. gEfiCurrentTpl = Top.tpl
    BY <1>3, ClientAt DEF RaiseTPL, Invokes, ClientRuns
  <2> QED BY <1>3, <2>1, RaiseTPLIdle
<1>4. CASE \E e \in Client : CreateEvent(e) \/ SignalEvent(e) \/ CheckEvent(e)
  BY <1>4, CreateEventIdle, SignalEventIdle, CheckEventIdle
<1>5. CASE TimerInterrupt
  BY <1>5, TimerInterruptIdle
<1> QED BY <1>1, <1>2, <1>3, <1>4, <1>5, Zenon DEF IdleAction

-----------------------------------------------------------------------------
(* Each step keeps the invariant of the timer database.                     *)

LEMMA IdleActionTimers ==
  ASSUME TypeOK, TypeOK', StackInv, TimerInv, IdleAction,
         UNCHANGED <<mEfiTimerList, TriggerTime, Period>>
  PROVE  TimerInv'
<1> DEFINE N == {f \in Frames : Mild(f)}
<1>1. IdleStep
  BY IdleActionStep
<1>2. Over(stack', N) /\ (Top.pc \in LockHolder \cup {"SetTimer"} =>
                            Len(stack) \in DOMAIN stack' /\ stack'[Len(stack)] = Top)
  BY <1>1 DEF IdleStep
<1>3. \A f \in N : TimerFrame(f, mEfiTimerList)
  BY OffTimer DEF Mild, TimerFrame, Detached, OfTimer, LockHolder
<1> HIDE DEF N
<1> QED BY <1>2, <1>3, IdleTimers

\* A client that calls a service: the frames of N come on top.
LEMMA CallTimers ==
  ASSUME TypeOK, TypeOK', TimerInv, ClientRuns, UNCHANGED <<mEfiTimerList, TriggerTime, Period>>,
         NEW N, Over(stack', N), \A f \in N : TimerFrame(f, mEfiTimerList)
  PROVE  TimerInv'
<1>1. Top.pc \notin LockHolder
  BY DEF ClientRuns, LockHolder
<1> QED BY <1>1, IdleTimers

\* The frames that CoreCloseEvent starts with.
LEMMA CloseEventFrames ==
  ASSUME TypeOK, NEW e \in Client, CloseEvent(e),
         NEW f, f = Frame("close", gEfiCurrentTpl, e, 0),
         NEW g, g = Frame("SetTimer", gEfiCurrentTpl, e, -1)
  PROVE  /\ stack'[Len(stack)] = Top /\ stack'[Len(stack) + 1] = f
         /\ IsTimer(e) => /\ Over(stack', {f, g})
                          /\ Len(stack') = Len(stack) + 2 /\ stack'[Len(stack) + 2] = g
         /\ ~IsTimer(e) => Over(stack', {f}) /\ Len(stack') = Len(stack) + 1
<1>1. stack' = stack \o <<f>> \o (IF IsTimer(e) THEN <<g>> ELSE <<>>)
  BY DEF CloseEvent
<1> DEFINE S == Frames \cup {f, g}
           r == Append(stack, f)
<1>2. stack \in Seq(S) /\ f \in S /\ g \in S
  BY OverStack DEF Over
<1>3. stack \o <<f>> = r /\ r \in Seq(S)
  BY <1>2, AppendIsConcat, AppendProperties
<1>4. Over(stack, {}) /\ Len(stack) \in Nat /\ Len(stack) >= 1 /\ Top = stack[Len(stack)]
  BY OverStack, Running DEF Stacks, Top
<1>5. /\ Over(r, {f}) /\ Over(r, {f, g})
      /\ Len(r) = Len(stack) + 1 /\ r[Len(stack) + 1] = f
      /\ \A i \in 1..Len(stack) : r[i] = stack[i]
  <2>1. /\ Over(r, {f}) /\ Len(r) = Len(stack) + 1 /\ r[Len(stack) + 1] = f
        /\ \A i \in 1..Len(stack) : r[i] = stack[i]
    BY <1>4, OverAppend
  <2>2. Over(r, {f, g})
    BY <1>4, OverAppend
  <2> QED BY <2>1, <2>2
<1> HIDE DEF r, S
<1>6. CASE IsTimer(e)
  <2>1. stack' = Append(r, g)
    <3>1. stack' = r \o <<g>>
      BY <1>1, <1>3, <1>6
    <3>2. Append(r, g) = r \o <<g>>
      BY <1>2, <1>3, AppendIsConcat
    <3> QED BY <3>1, <3>2
  <2>2. /\ Over(stack', {f, g}) /\ Len(stack') = Len(r) + 1 /\ stack'[Len(r) + 1] = g
        /\ \A i \in 1..Len(r) : stack'[i] = r[i]
    BY <1>4, <1>5, <2>1, OverAppend
  <2> QED BY <1>4, <1>5, <1>6, <2>2
<1>7. CASE ~IsTimer(e)
  <2>1. stack' = r
    <3>1. stack' = r \o <<>>
      BY <1>1, <1>3, <1>7
    <3> QED BY <1>3, <3>1
  <2> QED BY <1>4, <1>5, <1>7, <2>1
<1> QED BY <1>6, <1>7

LEMMA CloseEventTimers ==
  ASSUME TypeOK, TypeOK', TimerInv, NEW e \in Client, CloseEvent(e),
         UNCHANGED <<mEfiTimerList, TriggerTime, Period>>
  PROVE  TimerInv'
<1> DEFINE f == Frame("close", gEfiCurrentTpl, e, 0)
           g == Frame("SetTimer", gEfiCurrentTpl, e, -1)
<1>1. ClientRuns
  BY DEF CloseEvent, Invokes
<1>2. TimerFrame(f, mEfiTimerList)
  BY FrameParts, OffTimer DEF OfTimer, LockHolder
<1>3. IsTimer(e) => TimerFrame(g, mEfiTimerList)
  BY FrameParts DEF TimerFrame, Detached
<1>4. (IsTimer(e) => Over(stack', {f, g})) /\ (~IsTimer(e) => Over(stack', {f}))
  BY CloseEventFrames
<1> HIDE DEF f, g
<1>5. CASE IsTimer(e)
  BY <1>1, <1>2, <1>3, <1>4, <1>5, CallTimers
<1>6. CASE ~IsTimer(e)
  BY <1>1, <1>2, <1>4, <1>6, CallTimers
<1> QED BY <1>5, <1>6

LEMMA CloseTimers ==
  ASSUME TypeOK, TypeOK', TimerInv, CloseUnlink \/ CloseFree,
         UNCHANGED <<mEfiTimerList, TriggerTime, Period>>
  PROVE  TimerInv'
<1> DEFINE f == Now("free", Top.ev, 0)
           g == Restore(Top.tpl)
<1>1. /\ Top.pc \in {"close", "free"} /\ ~IsMain(Top)
      /\ stack' = Callers \o <<f, g>> \/ stack' = Callers
  BY DEF CloseUnlink, CloseFree, IsMain
<1>2. f.pc = "free" /\ g.pc = "restore"
  BY NowFields, FrameParts DEF Restore
<1> HIDE DEF f, g
<1>3. TimerFrame(f, mEfiTimerList) /\ TimerFrame(g, mEfiTimerList)
  BY <1>2, OffTimer DEF OfTimer, LockHolder
<1>4. Over(stack', {f, g})
  BY <1>1, OverCall, OverReturn
<1>5. Top.pc \notin LockHolder
  BY <1>1 DEF LockHolder
<1> QED BY <1>3, <1>4, <1>5, IdleTimers

LEMMA WaitForEventTimers ==
  ASSUME TypeOK, TypeOK', TimerInv, NEW list, WaitForEvent(list),
         UNCHANGED <<mEfiTimerList, TriggerTime, Period>>
  PROVE  TimerInv'
<1> DEFINE f == Frame("wait", TPL_APPLICATION, NoEvent, 1)
<1>1. ClientRuns /\ stack' = Append(stack, f)
  BY DEF WaitForEvent, Invokes
<1>2. TimerFrame(f, mEfiTimerList)
  BY FrameParts, OffTimer DEF OfTimer, LockHolder
<1> HIDE DEF f
<1>3. Over(stack', {f})
  BY <1>1, OverPush
<1> QED BY <1>1, <1>2, <1>3, CallTimers

LEMMA SetTimerTimers ==
  ASSUME TypeOK, TypeOK', TimerInv, NEW e \in Client, SetTimer(e)
  PROVE  TimerInv'
<1>1. /\ ClientRuns /\ IsTimer(e) /\ UNCHANGED timerVars
      /\ \E d \in Delays, pc \in {"SetTimer", "SetPeriodic"} :
           /\ pc = "SetPeriodic" => d # -1
           /\ stack' = Append(stack, Frame(pc, gEfiCurrentTpl, e, d))
  BY Zenon DEF SetTimer, Invokes
<1>2. PICK d \in Delays, pc \in {"SetTimer", "SetPeriodic"} :
        /\ pc = "SetPeriodic" => d # -1
        /\ stack' = Append(stack, Frame(pc, gEfiCurrentTpl, e, d))
  BY <1>1, Zenon
<1> DEFINE f == Frame(pc, gEfiCurrentTpl, e, d)
<1>3. TimerFrame(f, mEfiTimerList)
  BY <1>1, <1>2, FrameParts DEF TimerFrame, Detached
<1> HIDE DEF f
<1>4. Over(stack', {f})
  BY <1>2, OverPush DEF f
<1>5. UNCHANGED <<mEfiTimerList, TriggerTime, Period>>
  BY <1>1 DEF timerVars
<1> QED BY <1>1, <1>3, <1>4, <1>5, CallTimers

\* The running frame goes on as f, perhaps below a call of CoreSignalEvent (e).
GoesOn(f, e) ==
  stack' = Append(Callers, f) \/ CoreSignalEvent(e, TPL_TIMER, Append(Callers, f))

LEMMA GoesOnTimers ==
  ASSUME TypeOK, StackInv, TimerInv,
         Top.pc \in LockHolder \cup {"SetTimer", "SetPeriodic", "check"},
         NEW f, NEW e, GoesOn(f, e), TimerFrame(f, mEfiTimerList'),
         IsInjective(mEfiTimerList'), Ascending(mEfiTimerList', TriggerTime'), TimersOnly',
         \A x \in Event : Period'[x] # 0 =>
           Contains(mEfiTimerList', x) \/ (f.ev = x /\ f.pc \in LockHolder \ {"unlock"})
  PROVE  TimerInv'
<1> DEFINE N == {f, Restore(TPL_TIMER), Frame("group", TPL_TIMER, e, 0)}
<1>1. ~IsMain(Top)
  BY DEF IsMain, LockHolder
<1>2. Len(stack) \in Nat /\ Len(stack) >= 1
  BY Running DEF Stacks
<1>3. Over(stack', N) /\ Len(stack) \in DOMAIN stack' /\ stack'[Len(stack)] = f
  <2>1. CASE stack' = Append(Callers, f)
    <3>1. Over(stack', N) /\ Len(stack') = Len(stack) /\ stack'[Len(stack)] = f
      BY <1>1, <2>1, OverGoto
    <3> QED BY <1>2, <3>1 DEF Over
  <2>2. CASE CoreSignalEvent(e, TPL_TIMER, Append(Callers, f))
    BY <1>1, <2>2, OverSignalGoto
  <2> QED BY <2>1, <2>2 DEF GoesOn
<1>4. \A g \in N : g = f \/ g.pc \notin OfTimer \cup {"check", "scan"}
  BY FrameParts DEF Restore, OfTimer, LockHolder
<1>5. f \in N
  OBVIOUS
<1> HIDE DEF N
<1> QED BY <1>3, <1>4, <1>5, LockTimers

LEMMA TopTimer ==
  ASSUME TypeOK, TimerInv
  PROVE  TimerFrame(Top, mEfiTimerList) /\ TimersOnly
         /\ IsInjective(mEfiTimerList) /\ Ascending(mEfiTimerList, TriggerTime)
         /\ mEfiTimerList \in Seq(Event) /\ TriggerTime \in [Event -> Int]
         /\ Period \in [Event -> Int]
<1>1. Len(stack) \in DOMAIN stack
  BY Running DEF Stacks
<1> QED BY <1>1, ListSound DEF TimerInv, TimerFrames, Top, TypeOK, TimerType

\* The list, the trigger times and the periods stay.
LEMMA SameTimerList ==
  ASSUME TypeOK, StackInv, TimerInv, UNCHANGED <<mEfiTimerList, TriggerTime, Period>>,
         Top.pc \in LockHolder \cup {"SetTimer", "SetPeriodic", "check"},
         NEW f, NEW e, GoesOn(f, e), TimerFrame(f, mEfiTimerList),
         Top.pc \in LockHolder \ {"unlock"} =>
           \/ f.ev = Top.ev /\ f.pc \in LockHolder \ {"unlock"}
           \/ Contains(mEfiTimerList, Top.ev)
           \/ Top.ev \in Event => Period[Top.ev] = 0
  PROVE  TimerInv'
<1>1. TimersOnly' /\ IsInjective(mEfiTimerList') /\ Ascending(mEfiTimerList', TriggerTime')
  BY TopTimer DEF TimersOnly
<1>2. ASSUME NEW x \in Event, Period'[x] # 0
      PROVE  Contains(mEfiTimerList', x) \/ (f.ev = x /\ f.pc \in LockHolder \ {"unlock"})
  BY <1>2, ArmedNow
<1>3. TimerFrame(f, mEfiTimerList')
  OBVIOUS
<1> QED BY <1>1, <1>2, <1>3, GoesOnTimers

LEMMA TimerLockTimers ==
  ASSUME TypeOK, StackInv, TimerInv, TimerLock PROVE TimerInv'
<1> DEFINE f == Now(IF Top.pc = "SetTimer" THEN "unlinkOne" ELSE "unlinkPeriodic", Top.ev, Top.at)
<1>1. /\ Top.pc \in {"SetTimer", "SetPeriodic"} /\ stack' = Append(Callers, f)
      /\ UNCHANGED <<mEfiTimerList, TriggerTime, Period>>
  BY DEF TimerLock, Goto, timerVars
<1>2. /\ f.pc = IF Top.pc = "SetTimer" THEN "unlinkOne" ELSE "unlinkPeriodic"
      /\ f.ev = Top.ev /\ f.at = Top.at
  BY NowFields
<1> HIDE DEF f
<1>3. TimerFrame(f, mEfiTimerList)
  BY <1>1, <1>2, TopTimer DEF TimerFrame, OfTimer, Detached
<1>4. Top.pc \notin LockHolder /\ GoesOn(f, CheckTimer)
  BY <1>1 DEF LockHolder, GoesOn
<1> QED BY <1>1, <1>3, <1>4, SameTimerList

LEMMA TimerUnlinkTimers ==
  ASSUME TypeOK, StackInv, TimerInv, TimerUnlink PROVE TimerInv'
<1> DEFINE e == Top.ev
           d == IF Top.pc = "unlinkPeriodic" /\ Top.at = 0 THEN TickPeriod ELSE Top.at
           f == IF d = -1 THEN Now("unlock", e, 0) ELSE Now("arm", e, d)
<1>1. /\ Top.pc \in {"unlinkOne", "unlinkPeriodic"} /\ stack' = Append(Callers, f)
      /\ mEfiTimerList' = RemoveEntry(mEfiTimerList, e)
      /\ TriggerTime' = [TriggerTime EXCEPT ![e] = 0]
      /\ Period' = [Period EXCEPT ![e] = IF Top.pc = "unlinkPeriodic" THEN d ELSE 0]
  BY DEF TimerUnlink
<1>2. e \in Event /\ IsTimer(e)
  BY <1>1, Running, TopTimer DEF Frames, FrameOK, TimerFrame, OfTimer, LockHolder
<1>3. Top.pc = "unlinkPeriodic" => d # -1
  BY <1>1, TopTimer, TimerAssumption DEF TimerFrame
<1>4. f.ev = e /\ f.pc = IF d = -1 THEN "unlock" ELSE "arm"
  BY NowFields
<1> HIDE DEF e, d, f
<1>5. /\ IsInjective(mEfiTimerList') /\ ~Contains(mEfiTimerList', e)
      /\ \A y : Contains(mEfiTimerList', y) => Contains(mEfiTimerList, y)
      /\ \A y : Contains(mEfiTimerList, y) /\ y # e => Contains(mEfiTimerList', y)
      /\ mEfiTimerList' \in Seq(Event)
  BY <1>1, TopTimer, RemoveEntryIs
<1>6. Ascending(mEfiTimerList', TriggerTime')
  <2>1. Ascending(mEfiTimerList', TriggerTime)
    BY <1>1, TopTimer, SmallerEntry
  <2>2. \A i \in DOMAIN mEfiTimerList' :
          TriggerTime'[mEfiTimerList'[i]] = TriggerTime[mEfiTimerList'[i]]
    BY <1>1, <1>5, TopTimer DEF Contains
  <2> QED BY <2>1, <2>2 DEF Ascending
<1>7. TimersOnly'
  BY <1>1, <1>2, <1>5, TopTimer DEF TimersOnly
<1>8. TimerFrame(f, mEfiTimerList')
  BY <1>2, <1>4, <1>5 DEF TimerFrame
<1>9. Top.pc \in LockHolder /\ GoesOn(f, CheckTimer)
  BY <1>1 DEF LockHolder, GoesOn
<1>10. ASSUME NEW x \in Event, Period'[x] # 0
       PROVE  Contains(mEfiTimerList', x) \/ (f.ev = x /\ f.pc \in LockHolder \ {"unlock"})
  <2>1. CASE x = e
    <3>1. d # -1
      BY <1>1, <1>2, <1>3, <1>10, <2>1, TopTimer
    <3> QED BY <1>4, <2>1, <3>1 DEF LockHolder
  <2>2. CASE x # e
    <3>1. Period[x] # 0
      BY <1>1, <1>10, <2>2, TopTimer
    <3> QED BY <1>5, <1>9, <2>2, <3>1, ArmedNow DEF e
  <2> QED BY <2>1, <2>2
<1> QED BY <1>5, <1>6, <1>7, <1>8, <1>9, <1>10, GoesOnTimers

LEMMA TimerArmTimers ==
  ASSUME TypeOK, StackInv, TimerInv, TimerArm PROVE TimerInv'
<1> DEFINE e == Top.ev
           f == Now("insert", e, Top.at)
<1>1. /\ Top.pc = "arm" /\ stack' = Append(Callers, f) /\ UNCHANGED <<mEfiTimerList, Period>>
      /\ TriggerTime' = [TriggerTime EXCEPT ![e] = mEfiSystemTime + Top.at]
  BY DEF TimerArm, Goto
<1>2. e \in Event /\ IsTimer(e) /\ ~Contains(mEfiTimerList, e)
  BY <1>1, Running, TopTimer DEF Frames, FrameOK, TimerFrame, OfTimer, Detached, LockHolder
<1>3. f.ev = e /\ f.pc = "insert"
  BY NowFields
<1> HIDE DEF e, f
<1>4. IsInjective(mEfiTimerList') /\ TimersOnly' /\ TimerFrame(f, mEfiTimerList')
  BY <1>1, <1>2, <1>3, TopTimer DEF TimersOnly, TimerFrame
<1>5. Ascending(mEfiTimerList', TriggerTime')
  <2>1. \A i \in DOMAIN mEfiTimerList :
          TriggerTime'[mEfiTimerList[i]] = TriggerTime[mEfiTimerList[i]]
    BY <1>1, <1>2, TopTimer DEF Contains
  <2> QED BY <1>1, <2>1, TopTimer DEF Ascending
<1>6. Top.pc \in LockHolder /\ GoesOn(f, CheckTimer)
  BY <1>1 DEF LockHolder, GoesOn
<1>7. ASSUME NEW x \in Event, Period'[x] # 0
      PROVE  Contains(mEfiTimerList', x) \/ (f.ev = x /\ f.pc \in LockHolder \ {"unlock"})
  BY <1>1, <1>3, <1>6, <1>7, ArmedNow DEF e, LockHolder
<1> QED BY <1>4, <1>5, <1>6, <1>7, GoesOnTimers

LEMMA TimerInsertTimers ==
  ASSUME TypeOK, StackInv, TimerInv, TimerInsert PROVE TimerInv'
<1> DEFINE e == Top.ev
           t == TriggerTime[e]
           f == Now("unlock", e, Top.at)
<1>1. /\ Top.pc = "insert" /\ CoreInsertEventTimer(e, t) /\ UNCHANGED <<TriggerTime, Period>>
      /\ GoesOn(f, CheckTimer)
  BY Zenon DEF TimerInsert, Goto, GoesOn
<1>2. e \in Event /\ IsTimer(e) /\ ~Contains(mEfiTimerList, e)
  BY <1>1, Running, TopTimer DEF Frames, FrameOK, TimerFrame, OfTimer, Detached, LockHolder
<1>3. f.ev = e /\ f.pc = "unlock"
  BY NowFields
<1>4. t \in Int /\ TriggerTime = [TriggerTime EXCEPT ![e] = t]
  BY <1>2, TopTimer
<1>5. Top.pc \in LockHolder \cup {"SetTimer", "SetPeriodic", "check"}
  BY <1>1 DEF LockHolder
<1> HIDE DEF e, t, f
<1>6. /\ IsInjective(mEfiTimerList') /\ Ascending(mEfiTimerList', TriggerTime)
      /\ \A y : Contains(mEfiTimerList', y) <=> Contains(mEfiTimerList, y) \/ y = e
  BY <1>1, <1>2, <1>4, TopTimer, CoreInsertIs
<1>7. TimersOnly' /\ TimerFrame(f, mEfiTimerList') /\ Ascending(mEfiTimerList', TriggerTime')
  BY <1>1, <1>2, <1>3, <1>6, TopTimer DEF TimersOnly, TimerFrame, Detached
<1>8. ASSUME NEW x \in Event, Period'[x] # 0
      PROVE  Contains(mEfiTimerList', x) \/ (f.ev = x /\ f.pc \in LockHolder \ {"unlock"})
  BY <1>1, <1>5, <1>6, <1>8, ArmedNow DEF e
<1> QED BY <1>1, <1>5, <1>6, <1>7, <1>8, GoesOnTimers

\* CoreCheckTimers takes the first timer out of the list.
LEMMA CheckRemoveTimers ==
  ASSUME TypeOK, StackInv, TimerInv, CheckRemove PROVE TimerInv'
<1> DEFINE e == Head(mEfiTimerList)
           f == Now("fire", e, Top.at)
<1>1. /\ Top.pc = "scan" /\ mEfiTimerList # <<>> /\ mEfiTimerList' = Tail(mEfiTimerList)
      /\ stack' = Append(Callers, f) /\ UNCHANGED <<TriggerTime, Period>>
  BY DEF CheckRemove, Expired
<1>2. f.ev = e /\ f.pc = "fire"
  BY NowFields
<1>3. Top.pc \in LockHolder \cup {"SetTimer", "SetPeriodic", "check"} /\ GoesOn(f, CheckTimer)
  BY <1>1 DEF LockHolder, GoesOn
<1> HIDE DEF e, f
<1>4. /\ e \in Event /\ Contains(mEfiTimerList, e) /\ ~Contains(mEfiTimerList', e)
      /\ IsInjective(mEfiTimerList')
      /\ \A y : Contains(mEfiTimerList', y) => Contains(mEfiTimerList, y)
      /\ \A y : Contains(mEfiTimerList, y) /\ y # e => Contains(mEfiTimerList', y)
  BY <1>1, TopTimer, TailIs DEF e
<1>5. Ascending(mEfiTimerList', TriggerTime')
  <2>1. Ascending(mEfiTimerList', TriggerTime)
    BY <1>1, TopTimer, SmallerTail
  <2> QED BY <1>1, <2>1 DEF Ascending
<1>6. TimersOnly' /\ TimerFrame(f, mEfiTimerList')
  BY <1>1, <1>2, <1>4, TopTimer DEF TimersOnly, TimerFrame
<1>7. ASSUME NEW x \in Event, Period'[x] # 0
      PROVE  Contains(mEfiTimerList', x) \/ (f.ev = x /\ f.pc \in LockHolder \ {"unlock"})
  <2>1. Top.ev = CheckTimer /\ ~IsTimer(CheckTimer) /\ Period[x] # 0
    BY <1>1, <1>7, TopTimer, EventAssumption DEF TimerFrame, IsTimer, EvtType
  <2>2. Contains(mEfiTimerList, x) \/ x = CheckTimer
    BY <1>3, <2>1, ArmedNow
  <2>3. x # CheckTimer
    BY <2>1, TopTimer DEF TimersOnly
  <2> QED BY <1>2, <1>4, <2>2, <2>3 DEF LockHolder
<1> QED BY <1>3, <1>4, <1>5, <1>6, <1>7, GoesOnTimers

\* The steps that leave the list and the timers as they are.
LEMMA SameListTimers ==
  ASSUME TypeOK, StackInv, TimerInv, TimerUnlock \/ CheckStart \/ CheckFire \/ CheckDone
  PROVE  TimerInv'
<1>1. UNCHANGED <<mEfiTimerList, TriggerTime, Period>>
  BY Zenon DEF TimerUnlock, CheckStart, CheckFire, CheckDone, timerVars
<1>2. CASE TimerUnlock
  <2>1. Top.pc = "unlock" /\ GoesOn(Restore(Top.tpl), CheckTimer)
    BY <1>2 DEF TimerUnlock, GoesOn
  <2>2. Restore(Top.tpl).pc = "restore"
    BY FrameParts DEF Restore
  <2>3. TimerFrame(Restore(Top.tpl), mEfiTimerList)
    BY <2>2, OffTimer DEF OfTimer, LockHolder
  <2>4. Top.pc \in LockHolder /\ ~(Top.pc \in LockHolder \ {"unlock"})
    BY <2>1 DEF LockHolder
  <2> QED BY <1>1, <2>1, <2>3, <2>4, SameTimerList
<1>3. CASE CheckStart
  <2> DEFINE f == Now("scan", CheckTimer, mEfiSystemTime)
  <2>1. Top.pc = "check" /\ GoesOn(f, CheckTimer)
    BY <1>3 DEF CheckStart, GoesOn
  <2>2. f.pc = "scan" /\ f.ev = CheckTimer
    BY NowFields
  <2> HIDE DEF f
  <2>3. TimerFrame(f, mEfiTimerList) /\ Top.pc \notin LockHolder
    BY <2>1, <2>2 DEF TimerFrame, OfTimer, Detached, LockHolder
  <2> QED BY <1>1, <2>1, <2>3, SameTimerList
<1>4. CASE CheckFire
  <2> DEFINE f == Now("rearm", Top.ev, Top.at)
  <2>1. Top.pc = "fire" /\ GoesOn(f, Top.ev)
    BY <1>4 DEF CheckFire, GoesOn
  <2>2. f.pc = "rearm" /\ f.ev = Top.ev
    BY NowFields
  <2> HIDE DEF f
  <2>3. TimerFrame(f, mEfiTimerList)
    BY <2>1, <2>2, TopTimer DEF TimerFrame, OfTimer, Detached, LockHolder
  <2>4. {"fire", "rearm"} \subseteq LockHolder \ {"unlock"}
    BY DEF LockHolder
  <2> QED BY <1>1, <2>1, <2>2, <2>3, <2>4, SameTimerList
<1>5. CASE CheckDone
  <2> DEFINE f == Restore(TPL_TIMER)
  <2>1. Top.pc = "scan" /\ GoesOn(f, CheckTimer)
    BY <1>5 DEF CheckDone, GoesOn
  <2>2. f.pc = "restore"
    BY FrameParts DEF Restore
  <2> HIDE DEF f
  <2>3. TimerFrame(f, mEfiTimerList)
    BY <2>2, OffTimer DEF OfTimer, LockHolder
  <2>4. Top.ev = CheckTimer /\ ~IsTimer(CheckTimer)
    BY <2>1, TopTimer, EventAssumption DEF TimerFrame, IsTimer, EvtType
  <2>5. Top.ev \in Event => Period[Top.ev] = 0
    BY <2>4, TopTimer DEF TimersOnly
  <2>6. Top.pc \in LockHolder
    BY <2>1 DEF LockHolder
  <2> QED BY <1>1, <2>1, <2>3, <2>5, <2>6, SameTimerList
<1> QED BY <1>2, <1>3, <1>4, <1>5

\* CoreCheckTimers inserts the timer e with trigger time t and looks at the next one.
LEMMA ScanInserts ==
  ASSUME TypeOK, StackInv, TimerInv, Top.pc \in {"rearm", "reinsert"}, NextScan,
         NEW t \in Int, CoreInsertEventTimer(Top.ev, t),
         TriggerTime' = [TriggerTime EXCEPT ![Top.ev] = t], UNCHANGED Period
  PROVE  TimerInv'
<1> DEFINE e == Top.ev
           f == Now("scan", CheckTimer, Top.at)
<1>1. GoesOn(f, CheckTimer) /\ CoreInsertEventTimer(e, t)
  BY DEF NextScan, GoesOn
<1>2. e \in Event /\ IsTimer(e) /\ ~Contains(mEfiTimerList, e)
  BY Running, TopTimer DEF Frames, FrameOK, TimerFrame, OfTimer, Detached, LockHolder
<1>3. f.ev = CheckTimer /\ f.pc = "scan"
  BY NowFields
<1>4. Top.pc \in LockHolder \cup {"SetTimer", "SetPeriodic", "check"}
  BY DEF LockHolder
<1>5. TriggerTime' \in [Event -> Int]
  BY <1>2, TopTimer
<1> HIDE DEF f
<1>6. /\ IsInjective(mEfiTimerList') /\ Ascending(mEfiTimerList', TriggerTime')
      /\ \A y : Contains(mEfiTimerList', y) <=> Contains(mEfiTimerList, y) \/ y = e
  BY <1>1, <1>2, <1>5, TopTimer, CoreInsertIs
<1>7. TimersOnly' /\ TimerFrame(f, mEfiTimerList')
  BY <1>2, <1>3, <1>6, TopTimer DEF TimersOnly, TimerFrame, Detached, OfTimer
<1>8. ASSUME NEW x \in Event, Period'[x] # 0
      PROVE  Contains(mEfiTimerList', x) \/ (f.ev = x /\ f.pc \in LockHolder \ {"unlock"})
  BY <1>4, <1>6, <1>8, ArmedNow
<1> QED BY <1>1, <1>4, <1>6, <1>7, <1>8, GoesOnTimers

LEMMA CheckRearmTimers ==
  ASSUME TypeOK, StackInv, TimerInv, CheckRearm PROVE TimerInv'
<1> DEFINE e == Top.ev
           next == TriggerTime[e] + Period[e]
<1>1. Top.pc = "rearm" /\ UNCHANGED Period
  BY DEF CheckRearm
<1>2. /\ e \in Event /\ IsTimer(e) /\ ~Contains(mEfiTimerList, e)
      /\ next \in Int /\ Top.at \in Int
  BY <1>1, Running, TopTimer DEF Frames, FrameOK, TimerFrame, OfTimer, Detached, LockHolder
<1>3. CASE Period[e] = 0 /\ NextScan /\ UNCHANGED <<mEfiTimerList, TriggerTime>>
  <2> DEFINE f == Now("scan", CheckTimer, Top.at)
  <2>1. GoesOn(f, CheckTimer)
    BY <1>3 DEF NextScan, GoesOn
  <2>2. f.pc = "scan" /\ f.ev = CheckTimer
    BY NowFields
  <2> HIDE DEF f
  <2>3. TimerFrame(f, mEfiTimerList) /\ Top.pc \in LockHolder
    BY <1>1, <2>2 DEF TimerFrame, OfTimer, Detached, LockHolder
  <2> QED BY <1>1, <1>3, <2>1, <2>3, SameTimerList
<1>4. CASE /\ TriggerTime' = [TriggerTime EXCEPT ![e] = next]
           /\ CoreInsertEventTimer(e, next) /\ NextScan
  BY <1>1, <1>2, <1>4, ScanInserts
<1>5. CASE /\ TriggerTime' = [TriggerTime EXCEPT ![e] = Top.at] /\ UNCHANGED mEfiTimerList
           /\ CoreSignalEvent(CheckTimer, TPL_TIMER, Append(Callers, Now("reinsert", e, Top.at)))
  <2> DEFINE f == Now("reinsert", e, Top.at)
  <2>1. f.pc = "reinsert" /\ f.ev = e /\ GoesOn(f, CheckTimer)
    BY <1>5, NowFields DEF GoesOn
  <2> HIDE DEF f
  <2>2. /\ IsInjective(mEfiTimerList') /\ TimersOnly' /\ TimerFrame(f, mEfiTimerList')
        /\ Top.pc \in LockHolder /\ f.pc \in LockHolder \ {"unlock"}
    BY <1>1, <1>2, <1>5, <2>1, TopTimer DEF TimersOnly, TimerFrame, LockHolder
  <2>3. Ascending(mEfiTimerList', TriggerTime')
    <3>1. \A i \in DOMAIN mEfiTimerList :
            TriggerTime'[mEfiTimerList[i]] = TriggerTime[mEfiTimerList[i]]
      BY <1>2, <1>5, TopTimer DEF Contains
    <3> QED BY <1>5, <3>1, TopTimer DEF Ascending
  <2>4. ASSUME NEW x \in Event, Period'[x] # 0
        PROVE  Contains(mEfiTimerList', x) \/ (f.ev = x /\ f.pc \in LockHolder \ {"unlock"})
    BY <1>1, <1>5, <2>1, <2>2, <2>4, ArmedNow
  <2> QED BY <2>1, <2>2, <2>3, <2>4, GoesOnTimers
<1>6. \/ Period[e] = 0 /\ NextScan /\ UNCHANGED <<mEfiTimerList, TriggerTime>>
      \/ /\ TriggerTime' = [TriggerTime EXCEPT ![e] = next]
         /\ CoreInsertEventTimer(e, next) /\ NextScan
      \/ /\ TriggerTime' = [TriggerTime EXCEPT ![e] = Top.at] /\ UNCHANGED mEfiTimerList
         /\ CoreSignalEvent(CheckTimer, TPL_TIMER, Append(Callers, Now("reinsert", e, Top.at)))
  BY Zenon DEF CheckRearm
<1> QED BY <1>3, <1>4, <1>5, <1>6

LEMMA CheckReinsertTimers ==
  ASSUME TypeOK, StackInv, TimerInv, CheckReinsert PROVE TimerInv'
<1> DEFINE t == TriggerTime[Top.ev]
<1>1. /\ Top.pc = "reinsert" /\ CoreInsertEventTimer(Top.ev, t) /\ NextScan
      /\ UNCHANGED <<TriggerTime, Period>>
  BY DEF CheckReinsert
<1>2. Top.ev \in Event
  BY <1>1, Running DEF Frames, FrameOK
<1>3. t \in Int /\ TriggerTime' = [TriggerTime EXCEPT ![Top.ev] = t]
  BY <1>1, <1>2, TopTimer
<1> HIDE DEF t
<1> QED BY <1>1, <1>3, ScanInserts

-----------------------------------------------------------------------------
(* The whole specification.                                                 *)

LEMMA InitTimers == Init => TimerInv
<1> SUFFICES ASSUME Init PROVE TimerInv
  OBVIOUS
<1>1. /\ mEfiTimerList = <<>> /\ Period = [e \in Event |-> 0]
      /\ stack = <<Frame("run", TPL_APPLICATION, NoEvent, 0)>>
  BY DEF Init
<1> HIDE DEF Init
<1>2. TimerListSound /\ PeriodicStaysArmed /\ TimersOnly
  BY <1>1 DEF TimerListSound, PeriodicStaysArmed, TimersOnly, IsInjective, Contains
<1>3. TimerFrames
  BY <1>1, FrameParts, OffTimer DEF TimerFrames, OfTimer, LockHolder
<1> QED BY <1>2, <1>3 DEF TimerInv

LEMMA NextTimers ==
  ASSUME TypeOK, TypeOK', StackInv, TimerInv, [Next]_vars PROVE TimerInv'
<1>1. CASE ServiceStep /\ UNCHANGED timerVars
  <2>1. UNCHANGED <<mEfiTimerList, TriggerTime, Period>>
    BY <1>1 DEF timerVars
  <2>2. IdleAction \/ CloseUnlink \/ CloseFree
    BY <1>1, Zenon DEF ServiceStep, IdleAction
  <2> QED BY <2>1, <2>2, IdleActionTimers, CloseTimers
<1>2. CASE TimerLock \/ TimerUnlink \/ TimerArm \/ TimerInsert
  BY <1>2, TimerLockTimers, TimerUnlinkTimers, TimerArmTimers, TimerInsertTimers
<1>3. CASE TimerUnlock \/ CheckStart \/ CheckFire \/ CheckDone
  BY <1>3, SameListTimers
<1>4. CASE CheckRemove \/ CheckRearm \/ CheckReinsert
  BY <1>4, CheckRemoveTimers, CheckRearmTimers, CheckReinsertTimers
<1>5. CASE InterruptReturn \/ TimerInterrupt
  <2>1. UNCHANGED <<mEfiTimerList, TriggerTime, Period>>
    BY <1>5 DEF InterruptReturn, TimerInterrupt, timerVars
  <2> QED BY <1>5, <2>1, IdleActionTimers DEF IdleAction
<1>6. CASE ClientCall /\ UNCHANGED timerVars
  <2>1. UNCHANGED <<mEfiTimerList, TriggerTime, Period>>
    BY <1>6 DEF timerVars
  <2>2. \/ IdleAction
        \/ \E e \in Client : CloseEvent(e)
        \/ \E list \in WaitLists : WaitForEvent(list)
    BY <1>6, Zenon DEF ClientCall, IdleAction
  <2> QED BY <2>1, <2>2, IdleActionTimers, CloseEventTimers, WaitForEventTimers
<1>7. CASE \E e \in Client : SetTimer(e)
  BY <1>7, SetTimerTimers
<1>8. CASE UNCHANGED vars
  <2>1. UNCHANGED <<stack, mEfiTimerList, TriggerTime, Period>>
    BY <1>8 DEF vars, tplVars, timerVars
  <2> QED BY <2>1 DEF TimerInv, TimerListSound, PeriodicStaysArmed, TimersOnly, TimerFrames,
                      InDatabase
<1> QED BY <1>1, <1>2, <1>3, <1>4, <1>5, <1>6, <1>7, <1>8, Zenon DEF Next, FrameStep

(* The timer database, inductive with the shape of the call stack: only the *)
(* call stack tells which function owns a timer that is out of the database *)
(* (Timer.c:98-174,250-305).                                                *)
THEOREM TimersInvariant ==
  ASSUME ~Reload PROVE Spec => [](TypeOK /\ StackInv /\ TimerInv)
<1>1. Init => TypeOK /\ StackInv /\ TimerInv
  BY InitType, InitInv, InitTimers
<1>2. TypeOK /\ StackInv /\ TimerInv /\ [Next]_vars => (TypeOK /\ StackInv /\ TimerInv)'
  BY NextType, NextInv, NextTimers
<1> QED BY <1>1, <1>2, PTL DEF Spec

(* The timer database is in ascending order of TriggerTime and holds every  *)
(* armed timer once, whatever delays drivers ask for and however interrupts *)
(* and notifications interleave (Timer.c:40-80,98-174,250-305).             *)
THEOREM TimerListCorrect ==
  ASSUME ~Reload PROVE Spec => []TimerListSound
BY TimersInvariant, PTL DEF TimerInv

(* A periodic timer is in the database, or SetTimer or CoreCheckTimers is   *)
(* about to insert it (Timer.c:139-157,268-298).                            *)
THEOREM PeriodicCorrect ==
  ASSUME ~Reload PROVE Spec => []PeriodicStaysArmed
BY TimersInvariant, PTL DEF TimerInv
=============================================================================
