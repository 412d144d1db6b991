--------------------------- MODULE ItemContainers ---------------------------
(***************************************************************************)
(* The containers items are kept in on a fit: ItemList (module racks),     *)
(* ItemSet (implants, rigs, drones), TypeUniqueItemSet (skills) and        *)
(* ItemDescriptor (ship, character, charge).  An action is a call on a     *)
(* container, which succeeds or raises; "outcome" is how the last one      *)
(* ended.  Calls that raise on their first check and do nothing are left   *)
(* out: an item of the wrong class, a position that is out of range.       *)
(***************************************************************************)
EXTENDS Integers, Sequences, FiniteSets, SequencesExt, FiniteSetsExt

CONSTANTS
  None,
  Lists, Sets, UniqueSets, Slots,  \* the containers
  Items,
  Accepts,    \* the items of the class that each container takes
  TypeId,     \* BaseItemMixin._type_id of each item
  FitOf,      \* the fit each container is attached to
  MaxIndex,   \* bound: positions of lists the user names are 0..MaxIndex
  MaxLen,     \* bound: lists are not made longer than this
  Careless    \* bound: the user may add to an ItemSet an item it holds, and
              \* insert at a negative position an item that is refused

Containers == Lists \cup Sets \cup UniqueSets \cup Slots
Types == {TypeId[i] : i \in Items}

ASSUME ContainersAssumption ==
  /\ Accepts \in [Containers -> SUBSET Items]
  /\ Lists \cap Sets = {} /\ (Lists \cup Sets) \cap UniqueSets = {}
  /\ (Lists \cup Sets \cup UniqueSets) \cap Slots = {}
  /\ DOMAIN TypeId = Items /\ DOMAIN FitOf = Containers
  /\ None \notin Items \cup Containers \cup Types
  /\ MaxIndex \in Nat /\ MaxLen \in Nat /\ Careless \in BOOLEAN

VARIABLES
  list,       \* ItemList.__list
  set,        \* ItemSet.__set, of the TypeUniqueItemSets too
  byType,     \* TypeUniqueItemSet.__type_id_map
  slot,       \* the attribute behind an ItemDescriptor
  container,  \* BaseItemMixin._container
  announced,  \* <<fit, item>>: ItemAdded was published, ItemRemoved was not
  outcome     \* how the last call ended

contents == <<list, set, byType, slot>>
vars == <<contents, container, announced, outcome>>
-----------------------------------------------------------------------------
\* "if item._container": lists and sets have a length, an empty one is false.
\* inside is what the container that is being added to holds by now.
Assigned(i, c, inside) ==
  LET held == IF container[i] = c THEN inside
              ELSE IF container[i] \in Lists THEN ToSet(list[container[i]])
              ELSE IF container[i] \in Sets \cup UniqueSets THEN set[container[i]]
              ELSE {i}
  IN container[i] # None /\ held # {}

\* ItemContainerBase._handle_item_addition, when it does not raise.
Attach(i, c) ==
  /\ container' = [container EXCEPT ![i] = c]
  /\ announced' = announced \cup {<<FitOf[c], i>>}

\* Mutant of Detach: the item is let go of before its fit is asked for.
DetachUnheard(i) ==
  container' = [container EXCEPT ![i] = None] /\ announced' = announced

\* ItemContainerBase._handle_item_removal
Detach(i) ==
  /\ container' = [container EXCEPT ![i] = None]
  /\ announced' = announced \ {<<FitOf[container[i]], i>>}

Raises == outcome' = "raised" /\ UNCHANGED <<container, announced>>
-----------------------------------------------------------------------------
(* ItemList; position k of the code is position k + 1 of the sequence. *)

\* ItemList._allocate, so that there are k positions.
Allocated(q, k) == q \o [n \in 1..Max({0, k - Len(q)}) |-> None]

\* Mutant of Trimmed: one empty position is cut off, not all.
TrimmedOnce(q) == IF q # <<>> /\ Last(q) = None THEN Front(q) ELSE q

\* ItemList._cleanup
Trimmed(q) ==
  SubSeq(q, 1, Max({0} \cup {n \in DOMAIN q : q[n] # None}))

\* The new list is tried on; if the item cannot be added, undone is left.
Try(l, i, tried, undone) ==
  /\ Len(tried) <= MaxLen
  /\ IF Assigned(i, l, ToSet(tried))
     THEN list' = [list EXCEPT ![l] = undone] /\ Raises
     ELSE list' = [list EXCEPT ![l] = tried] /\ Attach(i, l) /\ outcome' = "ok"
  /\ UNCHANGED <<set, byType, slot>>

InsertNone(l, k) ==
  /\ Len(Allocated(list[l], k)) < MaxLen
  /\ list' = [list EXCEPT ![l] = Trimmed(InsertAt(Allocated(@, k), k + 1, None))]
  /\ outcome' = "ok"
  /\ UNCHANGED <<set, byType, slot, container, announced>>

\* Mutant of Insert: the positions made for a refused item are left.
InsertUntrimmed(l, k, i) ==
  LET tried == InsertAt(Allocated(list[l], k), k + 1, i)
  IN Try(l, i, tried, RemoveAt(tried, k + 1))

Insert(l, k, i) ==
  LET tried == InsertAt(Allocated(list[l], k), k + 1, i)
  IN Try(l, i, tried, Trimmed(RemoveAt(tried, k + 1)))

\* Insertion before the k-th position from the end: a refused item is looked
\* for, in the longer list, at the k-th position from its end.
InsertBack(l, k, i) ==
  LET q == list[l]
      tried == InsertAt(q, Max({0, Len(q) - k}) + 1, i)
  IN /\ Careless \/ ~Assigned(i, l, ToSet(tried))
     /\ Try(l, i, tried,
            IF k > Len(tried) THEN tried ELSE Trimmed(RemoveAt(tried, Len(tried) - k + 1)))

Append_(l, i) == Try(l, i, Append(list[l], i), list[l])

\* A position that is taken raises SlotTakenError before anything is done.
Place(l, k, i) ==
  LET roomy == Allocated(list[l], k + 1)
  IN /\ roomy[k + 1] = None
     /\ Try(l, i, ReplaceAt(roomy, k + 1, i), Trimmed(roomy))

FirstFree(q) == Min({n \in DOMAIN q : q[n] = None} \cup {Len(q) + 1})

Equip(l, i) ==
  LET n == FirstFree(list[l])
      roomy == Allocated(list[l], n)
  IN Try(l, i, ReplaceAt(roomy, n, i), Trimmed(ReplaceAt(roomy, n, None)))

\* By position, or by value: the first position where the value is.
RemoveFrom(l, n) ==
  /\ n \in DOMAIN list[l]
  /\ list' = [list EXCEPT ![l] = Trimmed(RemoveAt(@, n))]
  /\ IF list[l][n] = None THEN UNCHANGED <<container, announced>>
     ELSE Detach(list[l][n])
  /\ outcome' = "ok" /\ UNCHANGED <<set, byType, slot>>

Free(l, n) ==
  /\ n \in DOMAIN list[l] /\ list[l][n] # None
  /\ list' = [list EXCEPT ![l] = Trimmed(ReplaceAt(@, n, None))]
  /\ Detach(list[l][n])
  /\ outcome' = "ok" /\ UNCHANGED <<set, byType, slot>>

\* Removal of all the items of a container that is being cleared.
DetachAll(items) ==
  /\ container' = [i \in Items |-> IF i \in items THEN None ELSE container[i]]
  /\ announced' = announced \ {<<FitOf[container[i]], i>> : i \in items}
  /\ outcome' = "ok"

ClearList(l) ==
  /\ list' = [list EXCEPT ![l] = <<>>]
  /\ DetachAll(ToSet(list[l]) \ {None})
  /\ UNCHANGED <<set, byType, slot>>
-----------------------------------------------------------------------------
(* ItemSet and TypeUniqueItemSet *)

\* ItemSet.add: an item that cannot be added is removed again, also if the
\* set held it before.
SetAdd(s, i) ==
  IF Assigned(i, s, set[s] \cup {i})
  THEN set' = [set EXCEPT ![s] = @ \ {i}] /\ Raises
  ELSE set' = [set EXCEPT ![s] = @ \cup {i}] /\ Attach(i, s) /\ outcome' = "ok"

Add(s, i) ==
  /\ s \in Sets /\ (Careless \/ i \notin set[s])
  /\ SetAdd(s, i)
  /\ UNCHANGED <<list, byType, slot>>

\* TypeUniqueItemSet.add, of a type that is not there yet.
AddUnique(u, i) ==
  /\ u \in UniqueSets /\ TypeId[i] \notin DOMAIN byType[u]
  /\ SetAdd(u, i)
  /\ byType' =
       IF outcome' = "raised" THEN byType
       ELSE [byType EXCEPT ![u] =
               [t \in DOMAIN @ \cup {TypeId[i]} |-> IF t = TypeId[i] THEN i ELSE @[t]]]
  /\ UNCHANGED <<list, slot>>

Discard(s, i) ==
  /\ i \in set[s]
  /\ set' = [set EXCEPT ![s] = @ \ {i}]
  /\ byType' = IF s \in Sets THEN byType
               ELSE [byType EXCEPT ![s] =
                       [t \in DOMAIN @ \ {TypeId[i]} |-> @[t]]]
  /\ Detach(i)
  /\ outcome' = "ok" /\ UNCHANGED <<list, slot>>

ClearSet(s) ==
  /\ set' = [set EXCEPT ![s] = {}]
  /\ byType' = IF s \in Sets THEN byType ELSE [byType EXCEPT ![s] = <<>>]
  /\ DetachAll(set[s])
  /\ UNCHANGED <<list, slot>>
-----------------------------------------------------------------------------
(* ItemDescriptor *)

\* An item goes off its container, one comes to slot d, if there is one: what
\* items refer to and subscribers know then.
Off(now, i) ==
  IF i = None THEN now
  ELSE [container |-> [now.container EXCEPT ![i] = None],
        announced |-> now.announced \ {<<FitOf[now.container[i]], i>>}]
On(now, i, d) ==
  IF i = None THEN now
  ELSE [container |-> [now.container EXCEPT ![i] = d],
        announced |-> now.announced \cup {<<FitOf[d], i>>}]

\* The new item is refused; the old one, which has gone off by then, refers to
\* no container, so that it may be set again.
Refused(d, new) == new \notin {None, slot[d]} /\ Assigned(new, d, {new})

\* Mutant of Assign: the old item is put back in the slot, but not added again.
AssignHalfBack(d, new) ==
  LET off == Off([container |-> container, announced |-> announced], slot[d])
      after == IF Refused(d, new) THEN off ELSE On(off, new, d)
  IN /\ outcome' = IF Refused(d, new) THEN "raised" ELSE "ok"
     /\ slot' = [slot EXCEPT ![d] = IF Refused(d, new) THEN @ ELSE new]
     /\ container' = after.container /\ announced' = after.announced
     /\ UNCHANGED <<list, set, byType>>

\* ItemDescriptor.__set__: the old item goes off first, and is put back and
\* added again if the new one cannot be added.
Assign(d, new) ==
  LET off == Off([container |-> container, announced |-> announced], slot[d])
      stays == IF Refused(d, new) THEN slot[d] ELSE new
      after == On(off, stays, d)
  IN /\ outcome' = IF Refused(d, new) THEN "raised" ELSE "ok"
     /\ slot' = [slot EXCEPT ![d] = stays]
     /\ container' = after.container /\ announced' = after.announced
     /\ UNCHANGED <<list, set, byType>>
-----------------------------------------------------------------------------
Init ==
  /\ list = [l \in Lists |-> <<>>]
  /\ set = [s \in Sets \cup UniqueSets |-> {}]
  /\ byType = [u \in UniqueSets |-> <<>>]
  /\ slot = [d \in Slots |-> None]
  /\ container = [i \in Items |-> None]
  /\ announced = {}
  /\ outcome = "ok"

ListCall(l) ==
  \/ \E i \in Accepts[l] :
       \/ Append_(l, i) \/ Equip(l, i)
       \/ \E k \in 0..MaxIndex : Insert(l, k, i) \/ Place(l, k, i)
       \/ \E k \in 1..MaxIndex : InsertBack(l, k, i)
  \/ \E k \in 0..MaxIndex : InsertNone(l, k)
  \/ \E n \in 1..MaxLen : RemoveFrom(l, n) \/ Free(l, n)
  \/ ClearList(l)

SetCall(s) ==
  \/ \E i \in Accepts[s] : Add(s, i) \/ AddUnique(s, i) \/ Discard(s, i)
  \/ ClearSet(s)

Next ==
  \/ \E l \in Lists : ListCall(l)
  \/ \E s \in Sets \cup UniqueSets : SetCall(s)
  \/ \E d \in Slots : \E new \in Accepts[d] \cup {None} : Assign(d, new)

Spec == Init /\ [][Next]_vars
-----------------------------------------------------------------------------
\* Where an item is: the containers, and in a list the positions, that hold it.
Places(i) ==
  {p \in Lists \X (1..MaxLen) : p[2] \in DOMAIN list[p[1]] /\ list[p[1]][p[2]] = i} \cup
  {<<s, 0>> : s \in {t \in DOMAIN set : i \in set[t]}} \cup
  {<<d, 0>> : d \in {e \in Slots : slot[e] = i}}

\* Every variable keeps its type; no list ends in an empty position, whatever
\* was inserted, freed or taken back (ItemList._cleanup).
TypeOK ==
  /\ \A l \in Lists :
       /\ list[l] \in Seq(Items \cup {None}) /\ Len(list[l]) <= MaxLen
       /\ list[l] # <<>> => Last(list[l]) # None
  /\ set \in [Sets \cup UniqueSets -> SUBSET Items]
  /\ slot \in [Slots -> Items \cup {None}]
  /\ container \in [Items -> Containers \cup {None}]
  /\ outcome \in {"ok", "raised"}

\* An item is in one place of the container it refers to and nowhere else;
\* one that refers to no container is nowhere.  Failed additions included.  What
\* a TypeUniqueItemSet gives out by type are its members, by their types.
HeldTrue ==
  /\ \A i \in Items :
       /\ Cardinality(Places(i)) = IF container[i] = None THEN 0 ELSE 1
       /\ \A p \in Places(i) : p[1] = container[i]
  /\ \A u \in UniqueSets :
       /\ DOMAIN byType[u] = {TypeId[i] : i \in set[u]}
       /\ \A t \in DOMAIN byType[u] : byType[u][t] \in set[u] /\ TypeId[byType[u][t]] = t

\* What subscribers of the fits were told of is what the fits hold: an item
\* put in, taken out, replaced, or refused is announced just so.
AnnouncedTrue ==
  announced = {<<FitOf[container[i]], i>> : i \in {j \in Items : container[j] # None}}

\* A call that raises leaves every container as it was.
RaisesUndone ==
  [][outcome' = "raised" => UNCHANGED <<contents, container, announced>>]_vars
=============================================================================
