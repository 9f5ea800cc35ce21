----------------------------- MODULE TypeTable ------------------------------
(***************************************************************************)
(* The type table of ffi/src/ffi/object.cpp and the test IsObjectInstance  *)
(* of ffi/object.h that reads it.  A class gets its type index when it is  *)
(* first registered, after its parent: a static index, a slot its parent   *)
(* has reserved, or a fresh index at the end of the table.  An instance    *)
(* test compares indices and looks at the ancestors only when it has to.   *)
(*                                                                         *)
(* Every library compiles the classes it uses, and the table knows them by *)
(* their type keys only: several classes may share a key and declare it    *)
(* differently.  The first of them makes the entry, the others are given   *)
(* its index and go on using their own declaration in their own tests.     *)
(*                                                                         *)
(* Registration is not synchronized: as its comment demands, it happens    *)
(* during initialization or under a lock of the caller, and is atomic.     *)
(***************************************************************************)
EXTENDS Integers, Sequences, FiniteSets

CONSTANTS
    Classes,     \* the classes of all libraries
    Keys,        \* the type keys
    Key,         \* _type_key of a class
    Object,      \* the root
    Parent,      \* for every other class, its parent
    Depth,       \* _type_depth
    Bases,       \* the classes a class derives from, itself included (std::is_base_of)
    StaticIndex, \* _type_index of the classes with a static index, by key; -1 for the others
    Slots,       \* _type_child_slots
    CanOverflow, \* the classes declared with _type_child_slots_can_overflow
    Final,       \* the classes declared with _type_final
    Begin        \* kTVMFFIDynObjectBegin

ASSUME TreeAssumption ==
    /\ Key \in [Classes -> Keys]
    /\ Object \in Classes
    /\ Parent \in [Classes \ {Object} -> Classes]
    /\ Depth \in [Classes -> Nat] /\ Depth[Object] = 0
    /\ \A t \in Classes \ {Object} : Key[t] # Key[Object] /\ Depth[t] = Depth[Parent[t]] + 1
    /\ Bases \in [Classes -> SUBSET Classes] /\ Bases[Object] = {Object}
    /\ \A t \in Classes \ {Object} : Bases[t] = {t} \union Bases[Parent[t]]

\* What the macros assert at compile time, and what the static classes declare.
ASSUME DeclarationAssumption ==
    /\ Begin \in Nat
    /\ StaticIndex \in [Keys -> Nat \union {-1}]
    /\ Slots \in [Classes -> Nat] /\ CanOverflow \subseteq Classes /\ Final \subseteq Classes
    /\ \A t \in Classes : StaticIndex[Key[t]] >= 0 =>
          StaticIndex[Key[t]] < Begin /\ Slots[t] = 0 /\ (t # Object => Parent[t] = Object)
    /\ StaticIndex[Key[Object]] >= 0 /\ Object \in CanOverflow \ Final
    /\ \A t \in Final : Slots[t] = 0
    /\ \A t \in Classes \ {Object} :
          /\ Parent[t] \notin Final
          /\ Slots[t] = 0 \/ Slots[Parent[t]] = 0 \/ Slots[t] < Slots[Parent[t]]

VARIABLES
    tindex,     \* the index each class was given, which it keeps in a static local
    index,      \* type_key2index_, Unregistered for a key that is not in the table
    slots,      \* num_slots of the entry of a key, without the slot of the type itself
    allocated,  \* its allocated_slots
    overflow,   \* the keys whose entry has child_slots_can_overflow
    ancestors,  \* its type_acenstors, the root first
    counter     \* type_counter_, which is also the length of the table

vars == <<tindex, index, slots, allocated, overflow, ancestors, counter>>

Unregistered == -1
Registered == {k \in Keys : index[k] # Unregistered}
\* The classes whose library has registered them: objects of them exist.
Loaded == {t \in Classes : tindex[t] # Unregistered}

TypeOK ==
    /\ tindex \in [Classes -> Nat \union {Unregistered}]
    /\ index \in [Keys -> Nat \union {Unregistered}]
    /\ slots \in [Keys -> Nat] /\ allocated \in [Keys -> Nat]
    /\ overflow \subseteq Registered
    /\ ancestors \in [Keys -> Seq(Keys)]
    /\ counter \in Nat
    /\ \A k \in Registered : index[k] < counter

\* The constructor of the table registers the root.
Init ==
    /\ tindex = [t \in Classes |-> IF t = Object THEN StaticIndex[Key[Object]] ELSE Unregistered]
    /\ index = [k \in Keys |-> IF k = Key[Object] THEN StaticIndex[k] ELSE Unregistered]
    /\ slots = [k \in Keys |-> 0]
    /\ allocated = [k \in Keys |-> 1]
    /\ overflow = {Key[Object]}
    /\ ancestors = [k \in Keys |-> << >>]
    /\ counter = Begin

-----------------------------------------------------------------------------
(* GetOrAllocTypeIndex.                                                    *)

ParentKey(t) == Key[Parent[t]]

\* Mutant: a class may overflow although its parent may not.
NewEntryOverflowing(t, i) ==
    LET k == Key[t]
        p == ParentKey(t)
    IN  /\ i > index[p] /\ Depth[t] = Len(ancestors[p]) + 1
        /\ tindex' = [tindex EXCEPT ![t] = i]
        /\ index' = [index EXCEPT ![k] = i]
        /\ slots' = [slots EXCEPT ![k] = Slots[t]]
        /\ overflow' = IF t \in CanOverflow THEN overflow \union {k} ELSE overflow
        /\ ancestors' = [ancestors EXCEPT ![k] = Append(ancestors[p], p)]

\* The entry for the key of t at position i, which has to be above that of its parent.
NewEntry(t, i) ==
    LET k == Key[t]
        p == ParentKey(t)
    IN  /\ i > index[p] /\ Depth[t] = Len(ancestors[p]) + 1
        /\ tindex' = [tindex EXCEPT ![t] = i]
        /\ index' = [index EXCEPT ![k] = i]
        /\ slots' = [slots EXCEPT ![k] = Slots[t]]
        /\ overflow' = IF t \in CanOverflow /\ p \in overflow THEN overflow \union {k} ELSE overflow
        /\ ancestors' = [ancestors EXCEPT ![k] = Append(ancestors[p], p)]

\* A class registers once, after its parent.
MayRegister(t) == t \notin Loaded /\ t # Object /\ Parent[t] \in Loaded

\* Mutant: a second declaration of a key brings the entry up to date.
FindRefreshing(t) ==
    /\ MayRegister(t) /\ Key[t] \in Registered
    /\ tindex' = [tindex EXCEPT ![t] = index[Key[t]]]
    /\ slots' = [slots EXCEPT ![Key[t]] = Slots[t]]
    /\ UNCHANGED <<index, allocated, overflow, ancestors, counter>>

\* A key that is in the table keeps its entry, whatever this class declares.
Find(t) ==
    /\ MayRegister(t) /\ Key[t] \in Registered
    /\ tindex' = [tindex EXCEPT ![t] = index[Key[t]]]
    /\ UNCHANGED <<index, slots, allocated, overflow, ancestors, counter>>

\* The place of a static class has to be free.
AllocStatic(t) ==
    LET i == StaticIndex[Key[t]]
    IN  /\ MayRegister(t) /\ Key[t] \notin Registered
        /\ i >= 0
        /\ \A k \in Registered : index[k] # i
        /\ NewEntry(t, i)
        /\ UNCHANGED <<allocated, counter>>

\* A class without a static index whose key is new needs slots for itself and its children.
NeedsSlots(t) == MayRegister(t) /\ Key[t] \notin Registered /\ StaticIndex[Key[t]] < 0
Needed(t) == Slots[t] + 1
FitsInParent(t) == allocated[ParentKey(t)] + Needed(t) <= slots[ParentKey(t)] + 1

\* Mutant: a class takes one slot of its parent, not one for each child to come too.
AllocOneReserved(t) ==
    LET p == ParentKey(t)
    IN  /\ NeedsSlots(t) /\ FitsInParent(t)
        /\ NewEntry(t, index[p] + allocated[p])
        /\ allocated' = [allocated EXCEPT ![p] = @ + 1]
        /\ UNCHANGED counter

\* From the slots the parent has reserved.
AllocReserved(t) ==
    LET p == ParentKey(t)
    IN  /\ NeedsSlots(t) /\ FitsInParent(t)
        /\ NewEntry(t, index[p] + allocated[p])
        /\ allocated' = [allocated EXCEPT ![p] = @ + Needed(t)]
        /\ UNCHANGED counter

\* From the end of the table, if the parent may overflow.
AllocOverflow(t) ==
    /\ NeedsSlots(t) /\ ~FitsInParent(t)
    /\ ParentKey(t) \in overflow
    /\ NewEntry(t, counter)
    /\ counter' = counter + Needed(t)
    /\ UNCHANGED allocated

\* The other cases fail a check, which ends the program.
GetOrAllocTypeIndex(t) == Find(t) \/ AllocStatic(t) \/ AllocReserved(t) \/ AllocOverflow(t)

Next == \E t \in Classes : GetOrAllocTypeIndex(t)

Spec == Init /\ [][Next]_vars

-----------------------------------------------------------------------------
(* IsObjectInstance<target>(index of the class of the object), with the    *)
(* declaration of the target in the library that asks.                     *)

DeclaredRange(target) == tindex[target] .. tindex[target] + Slots[target]

\* The lookup of the ancestor at the depth of the target.
InheritsByTable(class, target) ==
    LET above == ancestors[Key[class]]
    IN  /\ tindex[class] >= tindex[target]
        /\ Len(above) > Depth[target]
        /\ index[above[Depth[target] + 1]] = tindex[target]

IsObjectInstance(class, target) ==
    \/ target = Object
    \/ target \in Final /\ tindex[class] = tindex[target]
    \/ target \notin Final /\ tindex[class] \in DeclaredRange(target)
    \/ target \notin Final /\ target \in CanOverflow /\ InheritsByTable(class, target)

-----------------------------------------------------------------------------
BaseKeys == [t \in Classes |-> {Key[b] : b \in Bases[t]}]
Namesakes(t) == {u \in Classes : Key[u] = Key[t]}

\* The classes of which all libraries agree what they and their bases derive from.
SameInheritance ==
    {t \in Classes : \A b \in Bases[t] : \A u \in Namesakes(b) : BaseKeys[u] = BaseKeys[b]}

\* The classes that all libraries declare alike.
SameDeclaration ==
    {t \in Classes : \A u \in Namesakes(t) :
        /\ Slots[u] = Slots[t] /\ Depth[u] = Depth[t]
        /\ (u \in CanOverflow <=> t \in CanOverflow) /\ (u \in Final <=> t \in Final)}

\* The instance test gives the C++ inheritance, in whatever order classes are registered,
\* for a class all libraries declare alike.
IsInstanceIsBaseOf ==
    \A class \in Loaded \intersect SameInheritance, target \in Loaded \intersect SameDeclaration :
        IsObjectInstance(class, target) <=> Key[target] \in BaseKeys[class]

\* No key gets the place of another, and what a key has reserved and not yet given
\* away is nobody's.
PlacesDisjoint ==
    \A k, l \in Registered : k # l =>
        /\ index[k] # index[l]
        /\ index[l] \notin index[k] + allocated[k] .. index[k] + slots[k]

\* A positive answer is right even where the library that asks was not the first to
\* register the target and has declared it differently, as long as it has not counted on
\* more slots than the entry reserves.
DowncastsAreSound ==
    \A class \in Loaded \intersect SameInheritance, target \in Loaded :
        Slots[target] <= slots[Key[target]] /\ IsObjectInstance(class, target) =>
            Key[target] \in BaseKeys[class]

\* What object.h says of a type index in the range of a class: it is that of a subclass.
RangeIsSubclass ==
    \A class, target \in Loaded :
        tindex[class] \in DeclaredRange(target) => Key[target] \in BaseKeys[class]

-----------------------------------------------------------------------------
(* The strengthening that is inductive.                                    *)

Above(k) == {k} \union {ancestors[k][d] : d \in 1 .. Len(ancestors[k])}
ReservedRange(k) == index[k] .. index[k] + slots[k]

\* Static classes are below Begin, the others above; every entry has its slots in the table.
Placed ==
    /\ counter >= Begin
    /\ Key[Object] \in Registered \intersect overflow
    /\ \A k \in Keys \ Registered : allocated[k] = 1
    /\ \A k \in Registered :
          /\ 1 <= allocated[k] /\ allocated[k] <= slots[k] + 1
          /\ index[k] + slots[k] < counter
          /\ index[k] >= Begin <=> StaticIndex[k] < 0

\* A class carries the index of its key.
ClassesAgree == \A t \in Loaded : Key[t] \in Registered /\ tindex[t] = index[Key[t]]

\* An entry is what one of its classes has declared; its ancestors are the bases of that
\* class, unless other libraries have told the table otherwise.
EntriesDeclared ==
    \A k \in Registered : \E t \in Classes :
        /\ Key[t] = k /\ slots[k] = Slots[t] /\ Len(ancestors[k]) = Depth[t]
        /\ k \in overflow => t \in CanOverflow
        /\ t \in SameInheritance => Above(k) = BaseKeys[t]

\* A key is above its ancestors, which it lists by depth and some library derives from.
AncestorsFirst ==
    \A k \in Registered :
        /\ Key[Object] \in Above(k)
        /\ \A d \in 1 .. Len(ancestors[k]) :
              LET a == ancestors[k][d]
              IN  /\ a \in Registered /\ index[a] < index[k]
                  /\ Len(ancestors[a]) = d - 1
                  /\ \E u \in Classes \ Final : Key[u] = a

\* Reserved ranges are disjoint or nested; a nested one is that of a derived class and
\* lies in the part the base has given away.
RangesNested ==
    \A k, l \in Registered : k # l =>
        /\ index[k] # index[l]
        /\ index[l] \in ReservedRange(k) =>
              k \in Above(l) /\ index[l] + slots[l] < index[k] + allocated[k]

\* What derives from a class that may not overflow may not either, and is in its range.
SealedInside ==
    \A k \in Registered : \A b \in Above(k) : b \notin overflow =>
        k \notin overflow /\ index[k] \in ReservedRange(b)

IInv ==
    /\ TypeOK /\ Placed /\ ClassesAgree /\ EntriesDeclared
    /\ AncestorsFirst /\ RangesNested /\ SealedInside
=============================================================================
