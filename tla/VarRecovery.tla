---------------------------- MODULE VarRecovery -----------------------------
(***************************************************************************)
(* What the variable driver promises its callers, as properties of         *)
(* VarStore!Spec.                                                          *)
(***************************************************************************)
EXTENDS VarStore

Updating ==
  {"append", "mark", "header", "headerValid", "data", "added", "deleteInDeleted",
   "deleteCurr", "reclaim"}
Step == Updating \cup {"idle", "boot", "writeService", "reclaimAtBoot", "reclaimForOS"}

\* Every variable keeps its type: no offset leaves the store, no header is
\* written where its data has no room, and the tracked copies are headers.
VarTypeOK ==
  /\ flash \in Store /\ cache \in Store
  /\ last \in 1..(StoreSize + 1) /\ total \in Nat
  /\ pc \in Step
  /\ args \in [name : Name, value : Value \cup {NoValue}]
  /\ {track.curr, track.inDeleted} \subseteq Headers(flash) \cup {0}
  /\ reply \in {"none", "success", "failed", "full"}
  /\ atRuntime \in BOOLEAN /\ reclaimed \in BOOLEAN
  /\ failures \in 0..MaxFailures
  /\ spare \in Store \cup {NoSpare} /\ refusing \in BOOLEAN
  /\ pc \in {"header", "headerValid", "data", "added"} => last + 1 \in Offset

-----------------------------------------------------------------------------
\* A new store that waits in the spare block is what the next start finds, whatever
\* the calls until then report: their successes count as failures.
Map == INSTANCE VarMap WITH
  value <- [n \in Name |-> Get(AtRestart, n)],
  asked <- args,
  busy  <- pc \in Updating,
  reply <- IF spare # NoSpare /\ reply = "success" THEN "failed" ELSE reply

\* UefiSpec.h of SetVariable, "The firmware has successfully stored the variable":
\* what the next start would read of a variable changes at one instant inside a
\* SetVariable of that variable, to the value it was given, or not at all; not in a
\* reclaim, a start, a failed access or a power failure; and success means it has
\* changed, unless a new store waits in the spare block.
ImplementsVarMap == Map!Spec

\* "Keep the memory and the FLASH in sync as updates occur": whenever a service can
\* be called, GetVariable reads in the cache what the store holds, the remains of a
\* torn store included.  It is what a start would read unless one waits in the spare.
CacheIsFlash == pc \in {"idle", "writeService"} => cache = flash

\* Sticky flash wants a range erased before it is written: a header is appended
\* only where everything behind it is erased, in the flash and not just in the cache.
AppendsErased ==
  /\ pc = "header" => \A p \in Offset : p >= last => flash[p] = ErasedUnit
  /\ pc = "data" => flash[last + 1].body = Erased

\* No variable ever has two ADDED copies: the older would be found first, and
\* GetNextVariableName would come back to it for ever.
OneAddedCopy ==
  \A n \in Name : Cardinality({p \in Copies(flash, n) : IsAdded(flash[p])}) <= 1

\* FindVariableEx takes the last of several copies in delete transition, Reclaim the
\* first.  Outside the services they agree: a reclaim on behalf of nobody, or of
\* another variable, changes no value.  (With a store waiting in the spare block
\* FtwWrite refuses every reclaim.)
LookupsAgree ==
  pc \notin Updating /\ spare = NoSpare =>
    \A n \in Name : Get(Compact(Survivors(flash, NoTrack)), n) = Get(flash, n)

\* UefiSpec.h of EFI_OUT_OF_RESOURCES, "Not enough storage is available": at boot time,
\* where SetVariable reclaims, it refuses only when the variables that can be read and
\* the new one do not fit; no dead copy takes space for ever.  What a torn store holds
\* beside its variables does, until the next start.
RefusedOnlyWhenFull ==
  pc = "idle" /\ reply = "full" /\ ~atRuntime /\ spare = NoSpare =>
    VarSize * Cardinality({n \in Name : Get(flash, n) # NoValue} \cup {args.name}) > StoreSize

\* Repeated calls of GetNextVariableName return every variable that can be read
\* once, as long as each has an ADDED copy and the store is not torn.
ListingIsExact ==
  LET readable == {n \in Name : Get(cache, n) # NoValue}
      listed(e) == Body(cache, e[2]).name
  IN  pc = "idle" /\ spare = NoSpare /\ (\A n \in readable : IsAdded(cache[FindVariableEx(cache, n).curr])) =>
        /\ {listed(e) : e \in Listing(cache)} = readable
        /\ Cardinality(Listing(cache)) = Cardinality(readable)

\* UpdateVariable, "Setting a data variable with no access, or zero DataSize
\* attributes causes it to be deleted": when SetVariable has deleted a variable
\* successfully, GetVariable does not find it.
DeletedIsGone ==
  pc = "idle" /\ reply = "success" /\ args.value = NoValue => Get(flash, args.name) = NoValue
=============================================================================
