------------------------------- MODULE VarLog -------------------------------
(***************************************************************************)
(* The non-volatile variable store                                         *)
(* (MdeModulePkg/Universal/Variable/RuntimeDxe): variables appended to     *)
(* flash that can only clear bits, and the walks over them.                *)
(*                                                                         *)
(* The store is counted in units.  A variable takes one unit for its       *)
(* header and one for its name and data.  All variables are NV+BS+RT, of   *)
(* one size.                                                               *)
(***************************************************************************)
EXTENDS Integers, FiniteSets, SequencesExt

CONSTANTS
  StoreSize,   \* CommonVariableSpace, in units
  Name,        \* the variables: VendorGuid and VariableName
  Value,       \* their data
  NoValue,     \* a variable that is not there, or the deletion of one
  Erased,      \* bits as EraseBlocks leaves them
  Garbled      \* a part of what should have been written

ASSUME StoreAssumption ==
  /\ StoreSize \in Nat /\ StoreSize >= 2 /\ Name # {}
  /\ NoValue \notin Value /\ Erased # Garbled
  /\ {Erased, Garbled} \cap [name : Name, value : Value] = {}

Offset == 1..StoreSize

\* VariableFormat.h: the bits of the State byte that each constant clears.
\* State &= VAR_x is a union.
VAR_HEADER_VALID_ONLY     == {7}
VAR_ADDED                 == {7, 6}
VAR_IN_DELETED_TRANSITION == {0}
VAR_DELETED               == {1}

Contents == [name : Name, value : Value]
\* start: StartId is VARIABLE_DATA.
Unit  == [start : BOOLEAN, state : SUBSET {0, 1, 6, 7}, body : Contents \cup {Erased, Garbled}]
Store == [Offset -> Unit]

ErasedUnit  == [start |-> FALSE, state |-> {}, body |-> Erased]
ErasedStore == [p \in Offset |-> ErasedUnit]
VarSize     == 2

\* GetNextVariablePtr: the sizes of name and data read as zero while the State
\* byte is erased, so the next header is then the unit behind this one.
EntrySize(u) == IF u.state = {} THEN 1 ELSE VarSize

\* The walk over valid headers, and the offset behind the last of them.
Headers(store) ==
  LET from[p \in 1..(StoreSize + VarSize)] ==
        IF p > StoreSize \/ ~store[p].start THEN {}
        ELSE {p} \cup from[p + EntrySize(store[p])]
  IN  from[1]

End(store) ==
  LET from[p \in 1..(StoreSize + VarSize)] ==
        IF p > StoreSize \/ ~store[p].start THEN p
        ELSE from[p + EntrySize(store[p])]
  IN  from[1]

IsAdded(u)     == u.state = VAR_ADDED
IsInDeleted(u) == u.state = VAR_ADDED \cup VAR_IN_DELETED_TRANSITION
Body(store, p) == IF p + 1 \in Offset THEN store[p + 1].body ELSE Garbled

\* The copies of variable n that can be read.
Copies(store, n) ==
  {p \in Headers(store) : /\ IsAdded(store[p]) \/ IsInDeleted(store[p])
                          /\ Body(store, p) \in Contents /\ Body(store, p).name = n}

Largest(S) == IF S = {} THEN 0 ELSE Max(S)

\* Mutant of FindVariableEx: the copy in delete transition is not tracked.
OnlyCurr(store, n) ==
  LET added == {p \in Copies(store, n) : IsAdded(store[p])}
  IN  [curr |-> IF added # {} THEN Min(added) ELSE Largest(Copies(store, n)), inDeleted |-> 0]

\* FindVariableEx: the first ADDED copy with the last copy in delete transition
\* before it, else the last copy in delete transition.  0 is NULL.
FindVariableEx(store, n) ==
  LET added     == {p \in Copies(store, n) : IsAdded(store[p])}
      inDeleted == Copies(store, n) \ added
  IN  IF added # {}
      THEN [curr |-> Min(added), inDeleted |-> Largest({p \in inDeleted : p < Min(added)})]
      ELSE [curr |-> Largest(inDeleted), inDeleted |-> 0]

\* VariableServiceGetVariable.
Get(store, n) ==
  LET curr == FindVariableEx(store, n).curr
  IN  IF curr = 0 THEN NoValue ELSE Body(store, curr).value

-----------------------------------------------------------------------------
(* VariableServiceGetNextVariableInternal                                   *)

\* Mutant of IsListed: the State is not looked at.
AnyHeader(store, p) == Body(store, p) \in Contents

\* The copies it returns: not one in delete transition when there is an ADDED one.
IsListed(store, p) ==
  \/ IsAdded(store[p])
  \/ /\ IsInDeleted(store[p])
     /\ Body(store, p) \in Contents
        => ~IsAdded(store[FindVariableEx(store, Body(store, p).name).curr])

\* For an empty name FindVariableEx returns the first ADDED variable, and only
\* when there is none the last one in delete transition.
FirstListed(store) ==
  LET added     == {p \in Headers(store) : IsAdded(store[p])}
      inDeleted == {p \in Headers(store) : IsInDeleted(store[p])}
  IN  IF added # {} THEN Min(added) ELSE Largest(inDeleted)

NextListed(store, p) ==
  LET behind == {q \in Headers(store) : q > p /\ IsListed(store, q)}
  IN  IF behind = {} THEN 0 ELSE Min(behind)

\* The headers returned by repeated calls, each given the name returned before;
\* one more than there are names shows a name that comes back.
Listing(store) ==
  LET at[k \in Nat] ==
        IF k = 0 THEN FirstListed(store)
        ELSE IF at[k - 1] = 0 THEN 0
        ELSE NextListed(store, FindVariableEx(store, Body(store, at[k - 1]).name).curr)
  IN  {<<k, at[k]>> : k \in {j \in 0..Cardinality(Name) : at[j] # 0}}

-----------------------------------------------------------------------------
(* Reclaim                                                                  *)

\* The walk meets headers in this order.
InOrder(S) ==
  CHOOSE at \in [1..Cardinality(S) -> S] : \A i, j \in DOMAIN at : i < j => at[i] < at[j]

\* All ADDED copies except the updating one ...
Kept(store, track) == {p \in Headers(store) : p # track.curr /\ IsAdded(store[p])}

\* ... and each copy in delete transition that has no copy in the buffer yet.
Promoted(store, track) ==
  LET left == {p \in Headers(store) \ {track.curr, track.inDeleted} : IsInDeleted(store[p])}
      had(p) == {q \in Kept(store, track) \cup left :
                   /\ q \in left => q < p
                   /\ Body(store, q) = Body(store, p)
                      \/ /\ {Body(store, q), Body(store, p)} \subseteq Contents
                         /\ Body(store, q).name = Body(store, p).name}
  IN  {p \in left : had(p) = {}}

\* Mutant of Survivors: the copies in delete transition are dropped.
OnlyAdded(store, track) ==
  LET at == InOrder(Kept(store, track))
  IN  [i \in DOMAIN at |-> Body(store, at[i])]

Survivors(store, track) ==
  LET at == InOrder(Kept(store, track)) \o InOrder(Promoted(store, track))
  IN  [i \in DOMAIN at |-> Body(store, at[i])]

\* A store that holds the bodies, all ADDED.
Compact(bodies) ==
  [p \in Offset |->
     LET i == (p + 1) \div VarSize
     IN  IF i > Len(bodies) THEN ErasedUnit
         ELSE IF p % VarSize = 1 THEN [ErasedUnit EXCEPT !.start = TRUE, !.state = VAR_ADDED]
         ELSE [ErasedUnit EXCEPT !.body = bodies[i]]]
=============================================================================
