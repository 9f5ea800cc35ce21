-------------------------- MODULE TypeTableProofs ---------------------------
(***************************************************************************)
(* Proofs about TypeTable: whatever the classes of the libraries and in    *)
(* whatever order they are registered, the instance test is C++            *)
(* inheritance.                                                            *)
(***************************************************************************)
EXTENDS TypeTable, TLAPS

-----------------------------------------------------------------------------
(* The classes.                                                            *)

\* A class is one of its own bases.
LEMMA SelfInBases ==
  ASSUME NEW t \in Classes
  PROVE  /\ Key[t] \in Keys /\ Depth[t] \in Nat
         /\ t \in Bases[t] /\ Bases[t] \subseteq Classes
         /\ Key[t] \in BaseKeys[t]
         /\ \A b \in Bases[t] : Key[b] \in BaseKeys[t]
         /\ \A k \in BaseKeys[t] : \E b \in Bases[t] : Key[b] = k
<1>1. Key[t] \in Keys /\ Depth[t] \in Nat /\ t \in Bases[t] /\ Bases[t] \subseteq Classes
  BY TreeAssumption
<1>2. BaseKeys[t] = {Key[b] : b \in Bases[t]}
  BY DEF BaseKeys
<1> QED
  BY <1>1, <1>2

\* The other bases of a class are those of its parent, which is one level up.
LEMMA ParentOf ==
  ASSUME NEW t \in Classes, t # Object
  PROVE  /\ Parent[t] \in Classes \ Final
         /\ ParentKey(t) \in Keys
         /\ Key[t] # Key[Object]
         /\ Depth[t] = Depth[Parent[t]] + 1
         /\ Bases[t] = {t} \union Bases[Parent[t]]
         /\ BaseKeys[t] = {Key[t]} \union BaseKeys[Parent[t]]
         /\ Parent[t] \in Bases[t]
<1>1. /\ Parent[t] \in Classes /\ Depth[t] = Depth[Parent[t]] + 1
      /\ Bases[t] = {t} \union Bases[Parent[t]] /\ Key[t] # Key[Object]
  BY TreeAssumption
<1>2. Parent[t] \in Bases[t] /\ ParentKey(t) \in Keys
  BY <1>1, SelfInBases DEF ParentKey
<1>3. Parent[t] \notin Final
  BY DeclarationAssumption
<1>4. BaseKeys[t] = {Key[b] : b \in Bases[t]} /\ BaseKeys[Parent[t]] = {Key[b] : b \in Bases[Parent[t]]}
  BY <1>1 DEF BaseKeys
<1>5. BaseKeys[t] = {Key[t]} \union BaseKeys[Parent[t]]
  BY <1>1, <1>4
<1> QED
  BY <1>1, <1>2, <1>3, <1>5

\* What a class declares.
LEMMA Declared ==
  ASSUME NEW t \in Classes
  PROVE  /\ Begin \in Nat /\ Slots[t] \in Nat
         /\ StaticIndex[Key[t]] \in Nat \union {-1}
         /\ StaticIndex[Key[t]] >= 0 => /\ StaticIndex[Key[t]] < Begin /\ Slots[t] = 0
                                        /\ t # Object => Parent[t] = Object
         /\ t \in Final => Slots[t] = 0
BY DeclarationAssumption, SelfInBases

\* Where the libraries agree about a class they agree about its parent.
LEMMA ParentAgreed ==
  ASSUME NEW t \in SameInheritance, t # Object, NEW q \in Classes, Key[q] = ParentKey(t)
  PROVE  q \in SameInheritance /\ BaseKeys[q] = BaseKeys[Parent[t]]
<1> DEFINE p == Parent[t]
<1>1. /\ t \in Classes
      /\ \A b \in Bases[t] : \A u \in Classes : Key[u] = Key[b] => BaseKeys[u] = BaseKeys[b]
  BY DEF SameInheritance, Namesakes
<1>2. p \in Classes /\ p \in Bases[t] /\ Bases[p] \subseteq Bases[t] /\ Key[q] = Key[p]
  BY <1>1, ParentOf DEF ParentKey
<1>3. BaseKeys[q] = BaseKeys[p]
  BY <1>1, <1>2
<1>4. ASSUME NEW b \in Bases[q], NEW u \in Classes, Key[u] = Key[b]
      PROVE  BaseKeys[u] = BaseKeys[b]
  <2>1. b \in Classes /\ Key[b] \in BaseKeys[p]
    BY <1>3, SelfInBases
  <2>2. PICK c \in Bases[p] : Key[c] = Key[b]
    BY <2>1, <1>2, SelfInBases
  <2>3. BaseKeys[u] = BaseKeys[c] /\ BaseKeys[b] = BaseKeys[c]
    BY <2>1, <2>2, <1>1, <1>2, <1>4
  <2> QED
    BY <2>3
<1>5. q \in SameInheritance
  BY <1>4 DEF SameInheritance, Namesakes
<1> QED
  BY <1>3, <1>5

-----------------------------------------------------------------------------
(* The inductive invariant.                                                *)

\* The table starts in the invariant: only the root is in it.
LEMMA InitIInv == Init => IInv
<1> SUFFICES ASSUME Init PROVE IInv
  OBVIOUS
<1> DEFINE o == Key[Object]
<1>1. Object \in Classes /\ o \in Keys /\ Bases[Object] = {Object} /\ Depth[Object] = 0
  BY TreeAssumption
<1>2. /\ Slots[Object] = 0 /\ StaticIndex[o] \in Nat /\ StaticIndex[o] < Begin
      /\ Begin \in Nat /\ Object \in CanOverflow /\ Object \notin Final
  BY <1>1, Declared, DeclarationAssumption
<1>3. Registered = {o} /\ index[o] = StaticIndex[o] /\ counter = Begin
  BY <1>1, <1>2 DEF Init, Registered, Unregistered
<1>4. Loaded = {Object} /\ tindex[Object] = StaticIndex[o]
  BY <1>1, <1>2 DEF Init, Loaded, Unregistered
<1>5. /\ slots[o] = 0 /\ allocated[o] = 1 /\ overflow = {o} /\ ancestors[o] = << >>
      /\ Len(ancestors[o]) = 0
  BY <1>1 DEF Init
<1>6. Above(o) = {o}
  BY <1>5 DEF Above
<1>7. TypeOK
  BY <1>1, <1>2, <1>3 DEF Init, TypeOK, Unregistered
<1>8. Placed
  BY <1>1, <1>2, <1>3, <1>5 DEF Init, Placed
<1>9. ClassesAgree
  BY <1>1, <1>3, <1>4 DEF ClassesAgree
<1>10. EntriesDeclared
  <2>1. BaseKeys[Object] = {o}
    BY <1>1 DEF BaseKeys
  <2> QED
    BY <2>1, <1>1, <1>2, <1>3, <1>5, <1>6 DEF EntriesDeclared
<1>11. AncestorsFirst
  BY <1>3, <1>5, <1>6 DEF AncestorsFirst
<1>12. RangesNested
  BY <1>3 DEF RangesNested
<1>13. SealedInside
  BY <1>3, <1>5, <1>6 DEF SealedInside
<1> QED
  BY <1>7, <1>8, <1>9, <1>10, <1>11, <1>12, <1>13 DEF IInv

\* The parent of a class that may register is in the table, at the index its class carries.
LEMMA Registering ==
  ASSUME IInv, NEW t \in Classes, MayRegister(t)
  PROVE  /\ t # Object /\ t \notin Loaded /\ Loaded \subseteq Classes
         /\ ParentKey(t) \in Registered /\ Registered \subseteq Keys
         /\ Key[t] \in Keys /\ Key[t] # Key[Object]
<1>1. t # Object /\ t \notin Loaded /\ Parent[t] \in Loaded
  BY DEF MayRegister
<1>2. ParentKey(t) \in Registered
  BY <1>1 DEF IInv, ClassesAgree, ParentKey
<1> QED
  BY <1>1, <1>2, ParentOf, SelfInBases DEF Registered, Loaded

\* What a new entry changes, whichever way its place is found.
LEMMA Entering ==
  ASSUME IInv, NEW t \in Classes, MayRegister(t), Key[t] \notin Registered,
         NEW i \in Nat, NewEntry(t, i)
  PROVE  LET k == Key[t]
             p == ParentKey(t)
         IN  /\ Registered' = Registered \union {k}
             /\ Loaded' = Loaded \union {t}
             /\ tindex'[t] = i /\ \A u \in Loaded : tindex'[u] = tindex[u]
             /\ index'[k] = i /\ i > index[p]
             /\ \A l \in Registered : l # k /\ index'[l] = index[l]
             /\ slots'[k] = Slots[t] /\ \A l \in Registered : slots'[l] = slots[l]
             /\ Len(ancestors'[k]) = Depth[t] /\ Depth[t] = Len(ancestors[p]) + 1
             /\ ancestors'[k][Depth[t]] = p
             /\ \A d \in 1 .. Len(ancestors[p]) : ancestors'[k][d] = ancestors[p][d]
             /\ \A l \in Registered : ancestors'[l] = ancestors[l]
             /\ Above(k)' = {k} \union Above(p)
             /\ \A l \in Registered : Above(l)' = Above(l)
             /\ overflow' = IF t \in CanOverflow /\ p \in overflow THEN overflow \union {k} ELSE overflow
             /\ k \notin overflow
             /\ tindex' \in [Classes -> Nat \union {Unregistered}]
             /\ index' \in [Keys -> Nat \union {Unregistered}]
             /\ slots' \in [Keys -> Nat]
             /\ ancestors' \in [Keys -> Seq(Keys)]
<1> DEFINE k == Key[t]
           p == ParentKey(t)
<1>0. TypeOK
  BY DEF IInv
<1>1. /\ t # Object /\ t \notin Loaded /\ Loaded \subseteq Classes /\ k \in Keys /\ p \in Keys
      /\ Registered \subseteq Keys
  BY Registering
<1>2. /\ i > index[p] /\ Depth[t] = Len(ancestors[p]) + 1
      /\ tindex' = [tindex EXCEPT ![t] = i]
      /\ index' = [index EXCEPT ![k] = i]
      /\ slots' = [slots EXCEPT ![k] = Slots[t]]
      /\ ancestors' = [ancestors EXCEPT ![k] = Append(ancestors[p], p)]
      /\ overflow' = IF t \in CanOverflow /\ p \in overflow THEN overflow \union {k} ELSE overflow
  BY DEF NewEntry
<1>3. /\ tindex' \in [Classes -> Nat \union {Unregistered}] /\ tindex'[t] = i
      /\ \A u \in Classes : u # t => tindex'[u] = tindex[u]
  BY <1>0, <1>2 DEF TypeOK
<1>4. /\ index' \in [Keys -> Nat \union {Unregistered}] /\ index'[k] = i
      /\ \A l \in Keys : l # k => index'[l] = index[l]
  BY <1>0, <1>1, <1>2 DEF TypeOK
<1>5. /\ slots' \in [Keys -> Nat] /\ slots'[k] = Slots[t]
      /\ \A l \in Keys : l # k => slots'[l] = slots[l]
  BY <1>0, <1>1, <1>2, Declared DEF TypeOK
<1>6. /\ ancestors[p] \in Seq(Keys)
      /\ ancestors' \in [Keys -> Seq(Keys)] /\ ancestors'[k] = Append(ancestors[p], p)
      /\ \A l \in Keys : l # k => ancestors'[l] = ancestors[l]
  BY <1>0, <1>1, <1>2 DEF TypeOK
<1>7. Registered' = Registered \union {k}
  BY <1>1, <1>4 DEF Registered, Unregistered
<1>8. Loaded' = Loaded \union {t}
  BY <1>3 DEF Loaded, Unregistered
<1>9. /\ Len(ancestors'[k]) = Depth[t] /\ ancestors'[k][Depth[t]] = p
      /\ \A d \in 1 .. Len(ancestors[p]) : ancestors'[k][d] = ancestors[p][d]
      /\ Len(ancestors[p]) \in Nat
  BY <1>1, <1>2, <1>6
<1>10. Above(k)' = {k} \union Above(p)
  <2>1. 1 .. Depth[t] = (1 .. Len(ancestors[p])) \union {Depth[t]}
    BY <1>2, <1>9
  <2>2. {ancestors'[k][d] : d \in 1 .. Depth[t]} = {ancestors[p][d] : d \in 1 .. Len(ancestors[p])} \union {p}
    BY <2>1, <1>9
  <2>3. Above(k)' = {k} \union {ancestors'[k][d] : d \in 1 .. Depth[t]}
    BY <1>9 DEF Above
  <2> QED
    BY <2>2, <2>3 DEF Above
<1>11. \A l \in Registered : l # k /\ l \in Keys /\ ancestors'[l] = ancestors[l]
  BY <1>1, <1>6
<1>12. \A l \in Registered : Above(l)' = Above(l)
  BY <1>11 DEF Above
<1>13. \A u \in Loaded : u \in Classes /\ u # t
  BY <1>1
<1>14. k \notin overflow
  BY <1>0 DEF TypeOK
<1> QED
  BY <1>2, <1>3, <1>4, <1>5, <1>6, <1>7, <1>8, <1>9, <1>10, <1>11, <1>12, <1>13, <1>14

\* Where a new class may be put: the slots it reserves are nobody else's, but for those
\* of the bases it takes them from, and it is in the range of the bases that are sealed.
GoodPlace(t, i) ==
    /\ allocated' \in [Keys -> Nat] /\ counter' \in Nat /\ counter' >= counter
    /\ \A l \in Keys \ Registered : allocated'[l] = allocated[l]
    /\ \A l \in Registered : allocated'[l] >= allocated[l] /\ allocated'[l] <= slots[l] + 1
    /\ i + Slots[t] < counter'
    /\ i >= Begin <=> StaticIndex[Key[t]] < 0
    /\ \A l \in Registered :
          /\ index[l] < i \/ i + Slots[t] < index[l]
          /\ index[l] <= i /\ i <= index[l] + slots[l] =>
                l \in Above(ParentKey(t)) /\ i + Slots[t] < index[l] + allocated'[l]
    /\ \A b \in Above(ParentKey(t)) : b \notin overflow => index[b] <= i /\ i <= index[b] + slots[b]

\* The numbers of an entry.
LEMMA EntryNumbers ==
  ASSUME IInv, NEW k \in Registered
  PROVE  /\ k \in Keys
         /\ index[k] \in Nat /\ slots[k] \in Nat /\ allocated[k] \in Nat /\ Len(ancestors[k]) \in Nat
         /\ counter \in Nat /\ Begin \in Nat /\ counter >= Begin
         /\ 1 <= allocated[k] /\ allocated[k] <= slots[k] + 1
         /\ index[k] + slots[k] < counter
         /\ Above(k) \subseteq Registered
         /\ index[k] >= Begin <=> StaticIndex[k] < 0
<1>1. k \in Keys /\ TypeOK /\ Placed /\ AncestorsFirst
  BY DEF IInv, Registered
<1>2. /\ index[k] \in Nat /\ slots[k] \in Nat /\ allocated[k] \in Nat /\ counter \in Nat
      /\ ancestors[k] \in Seq(Keys)
  BY <1>1 DEF TypeOK, Registered, Unregistered
<1>3. Len(ancestors[k]) \in Nat
  BY <1>2
<1>4. Above(k) \subseteq Registered
  BY <1>1 DEF Above, AncestorsFirst
<1>5. Begin \in Nat
  BY DeclarationAssumption
<1> QED
  BY <1>1, <1>2, <1>3, <1>4, <1>5 DEF Placed

\* A class that is put in a good place preserves the invariant.
LEMMA GoodPlaceKeepsIInv ==
  ASSUME IInv, NEW t \in Classes, MayRegister(t), Key[t] \notin Registered,
         NEW i \in Nat, NewEntry(t, i), GoodPlace(t, i)
  PROVE  IInv'
<1> DEFINE k == Key[t]
           p == ParentKey(t)
<1>0. /\ TypeOK /\ Placed /\ ClassesAgree /\ EntriesDeclared
      /\ AncestorsFirst /\ RangesNested /\ SealedInside
  BY DEF IInv
<1>1. /\ t # Object /\ t \notin Loaded /\ Loaded \subseteq Classes
      /\ p \in Registered /\ Registered \subseteq Keys /\ k \in Keys /\ k # Key[Object]
      /\ k \notin Registered
  BY Registering
<1>2. Slots[t] \in Nat /\ Depth[t] \in Nat
  BY Declared, SelfInBases
<1>3. /\ Registered' = Registered \union {k}
      /\ Loaded' = Loaded \union {t}
      /\ tindex'[t] = i /\ \A u \in Loaded : tindex'[u] = tindex[u]
      /\ index'[k] = i /\ i > index[p]
      /\ \A l \in Registered : l # k /\ index'[l] = index[l]
      /\ slots'[k] = Slots[t] /\ \A l \in Registered : slots'[l] = slots[l]
      /\ overflow' = IF t \in CanOverflow /\ p \in overflow THEN overflow \union {k} ELSE overflow
      /\ k \notin overflow
  BY Entering
<1>4. /\ Len(ancestors'[k]) = Depth[t] /\ Depth[t] = Len(ancestors[p]) + 1
      /\ ancestors'[k][Depth[t]] = p
      /\ \A d \in 1 .. Len(ancestors[p]) : ancestors'[k][d] = ancestors[p][d]
      /\ \A l \in Registered : ancestors'[l] = ancestors[l]
      /\ Above(k)' = {k} \union Above(p)
      /\ \A l \in Registered : Above(l)' = Above(l)
  BY Entering
<1>5. /\ tindex' \in [Classes -> Nat \union {Unregistered}]
      /\ index' \in [Keys -> Nat \union {Unregistered}]
      /\ slots' \in [Keys -> Nat]
      /\ ancestors' \in [Keys -> Seq(Keys)]
  BY Entering
<1>6. \A l \in Registered :
        /\ index[l] \in Nat /\ slots[l] \in Nat /\ allocated[l] \in Nat /\ Len(ancestors[l]) \in Nat
        /\ 1 <= allocated[l] /\ index[l] + slots[l] < counter
        /\ Above(l) \subseteq Registered
        /\ index[l] >= Begin <=> StaticIndex[l] < 0
  BY EntryNumbers
<1>7. counter \in Nat /\ Begin \in Nat /\ counter >= Begin
  BY <1>1, EntryNumbers
<1>8. counter' \in Nat /\ counter' >= counter /\ i + Slots[t] < counter'
  BY DEF GoodPlace
<1>9. \A l \in Registered : /\ allocated'[l] \in Nat /\ allocated'[l] >= allocated[l]
                            /\ allocated'[l] <= slots[l] + 1
  BY <1>1 DEF GoodPlace
<1>10. TypeOK'
  <2>1. ASSUME NEW l \in Registered' PROVE index'[l] < counter'
    <3>1. CASE l = k
      BY <3>1, <1>2, <1>3, <1>8
    <3>2. CASE l # k
      <4>1. /\ index'[l] = index[l] /\ index[l] \in Nat /\ slots[l] \in Nat
            /\ index[l] + slots[l] < counter
        BY <3>2, <1>3, <1>6
      <4> QED
        BY <4>1, <1>7, <1>8
    <3> QED
      BY <3>1, <3>2
  <2>2. overflow' \subseteq Registered'
    BY <1>0, <1>3 DEF TypeOK
  <2>3. allocated' \in [Keys -> Nat]
    BY DEF GoodPlace
  <2> QED
    BY <1>5, <1>8, <2>1, <2>2, <2>3 DEF TypeOK, Unregistered
<1>11. Placed'
  <2>1. counter' >= Begin
    BY <1>7, <1>8
  <2>2. Key[Object] \in Registered' \intersect overflow'
    BY <1>0, <1>3 DEF Placed
  <2>3. \A l \in Keys \ Registered : allocated'[l] = 1
    BY <1>0 DEF Placed, GoodPlace
  <2>4. \A l \in Keys \ Registered' : allocated'[l] = 1
    BY <2>3, <1>3
  <2>5. allocated'[k] = 1
    BY <2>3, <1>1
  <2>6. ASSUME NEW l \in Registered'
        PROVE  /\ 1 <= allocated'[l] /\ allocated'[l] <= slots'[l] + 1
               /\ index'[l] + slots'[l] < counter'
               /\ index'[l] >= Begin <=> StaticIndex[l] < 0
    <3>1. CASE l = k
      <4>1. i >= Begin <=> StaticIndex[k] < 0
        BY DEF GoodPlace
      <4> QED
        BY <3>1, <4>1, <2>5, <1>2, <1>3, <1>8
    <3>2. CASE l # k
      <4>1. l \in Registered /\ index'[l] = index[l] /\ slots'[l] = slots[l]
        BY <3>2, <1>3
      <4>2. 1 <= allocated'[l] /\ allocated'[l] <= slots[l] + 1
        BY <4>1, <1>6, <1>9
      <4>3. index[l] + slots[l] < counter'
        BY <4>1, <1>6, <1>7, <1>8
      <4> QED
        BY <4>1, <4>2, <4>3, <1>6
    <3> QED
      BY <3>1, <3>2
  <2> QED
    BY <2>1, <2>2, <2>4, <2>6 DEF Placed
<1>12. ClassesAgree'
  BY <1>0, <1>3 DEF ClassesAgree
<1>13. EntriesDeclared'
  <2>1. ASSUME NEW l \in Registered
        PROVE  \E u \in Classes :
                 /\ Key[u] = l /\ slots'[l] = Slots[u] /\ Len(ancestors'[l]) = Depth[u]
                 /\ l \in overflow' => u \in CanOverflow
                 /\ u \in SameInheritance => Above(l)' = BaseKeys[u]
    <3>1. PICK u \in Classes : /\ Key[u] = l /\ slots[l] = Slots[u] /\ Len(ancestors[l]) = Depth[u]
                               /\ l \in overflow => u \in CanOverflow
                               /\ u \in SameInheritance => Above(l) = BaseKeys[u]
      BY <1>0 DEF EntriesDeclared
    <3> QED
      BY <3>1, <1>3, <1>4
  <2>2. ASSUME t \in SameInheritance PROVE Above(k)' = BaseKeys[t]
    <3>1. PICK q \in Classes : Key[q] = p /\ (q \in SameInheritance => Above(p) = BaseKeys[q])
      BY <1>0, <1>1 DEF EntriesDeclared
    <3>2. q \in SameInheritance /\ BaseKeys[q] = BaseKeys[Parent[t]]
      BY <2>2, <3>1, <1>1, ParentAgreed
    <3>3. BaseKeys[t] = {k} \union BaseKeys[Parent[t]]
      BY <1>1, ParentOf
    <3> QED
      BY <3>1, <3>2, <3>3, <1>4
  <2>3. k \in overflow' => t \in CanOverflow
    BY <1>3
  <2> QED
    BY <2>1, <2>2, <2>3, <1>3, <1>4 DEF EntriesDeclared
<1>14. AncestorsFirst'
  <2>1. ASSUME NEW l \in Registered
        PROVE  /\ Key[Object] \in Above(l)'
               /\ \A d \in 1 .. Len(ancestors'[l]) :
                    LET a == ancestors'[l][d]
                    IN  /\ a \in Registered' /\ index'[a] < index'[l]
                        /\ Len(ancestors'[a]) = d - 1
                        /\ \E u \in Classes \ Final : Key[u] = a
    <3>1. Key[Object] \in Above(l)'
      BY <1>0, <1>4 DEF AncestorsFirst
    <3>2. ancestors'[l] = ancestors[l] /\ index'[l] = index[l]
      BY <1>3, <1>4
    <3>3. ASSUME NEW d \in 1 .. Len(ancestors[l])
          PROVE  LET a == ancestors[l][d]
                 IN  /\ a \in Registered' /\ index'[a] < index'[l]
                     /\ Len(ancestors'[a]) = d - 1
                     /\ \E u \in Classes \ Final : Key[u] = a
      <4> DEFINE a == ancestors[l][d]
      <4>1. /\ a \in Registered /\ index[a] < index[l] /\ Len(ancestors[a]) = d - 1
            /\ \E u \in Classes \ Final : Key[u] = a
        BY <1>0 DEF AncestorsFirst
      <4> QED
        BY <4>1, <3>2, <1>3, <1>4
    <3> QED
      BY <3>1, <3>2, <3>3
  <2>2. Key[Object] \in Above(k)'
    BY <1>0, <1>1, <1>4 DEF AncestorsFirst
  <2>3. ASSUME NEW d \in 1 .. Len(ancestors'[k])
        PROVE  LET a == ancestors'[k][d]
               IN  /\ a \in Registered' /\ index'[a] < index'[k]
                   /\ Len(ancestors'[a]) = d - 1
                   /\ \E u \in Classes \ Final : Key[u] = a
    <3>1. CASE d = Depth[t]
      <4>1. Parent[t] \in Classes \ Final /\ Key[Parent[t]] = p
        BY <1>1, ParentOf DEF ParentKey
      <4>2. d - 1 = Len(ancestors[p])
        BY <3>1, <1>1, <1>4, <1>6
      <4> QED
        BY <3>1, <4>1, <4>2, <1>1, <1>3, <1>4
    <3>2. CASE d # Depth[t]
      <4> DEFINE a == ancestors[p][d]
      <4>1. d \in 1 .. Len(ancestors[p]) /\ ancestors'[k][d] = a
        BY <3>2, <1>1, <1>4, <1>6
      <4>2. /\ a \in Registered /\ index[a] < index[p] /\ Len(ancestors[a]) = d - 1
            /\ \E u \in Classes \ Final : Key[u] = a
        BY <4>1, <1>0, <1>1 DEF AncestorsFirst
      <4>3. index'[a] = index[a] /\ ancestors'[a] = ancestors[a] /\ index'[a] < i
        BY <4>2, <1>1, <1>3, <1>4, <1>6
      <4> QED
        BY <4>1, <4>2, <4>3, <1>3
    <3> QED
      BY <3>1, <3>2
  <2> QED
    BY <2>1, <2>2, <2>3, <1>3 DEF AncestorsFirst
<1>15. RangesNested'
  <2> SUFFICES ASSUME NEW a \in Registered', NEW u \in Registered', a # u
               PROVE  /\ index'[a] # index'[u]
                      /\ index'[a] <= index'[u] /\ index'[u] <= index'[a] + slots'[a] =>
                            a \in Above(u)' /\ index'[u] + slots'[u] < index'[a] + allocated'[a]
    <3>1. \A l \in Registered' : index'[l] \in Nat /\ slots'[l] \in Nat
      BY <1>2, <1>3, <1>6
    <3> QED
      BY <3>1 DEF RangesNested, ReservedRange
  <2>1. CASE a # k /\ u # k
    <3>1. a \in Registered /\ u \in Registered
      BY <2>1, <1>3
    <3>2. /\ index[a] # index[u]
          /\ index[a] <= index[u] /\ index[u] <= index[a] + slots[a] =>
                a \in Above(u) /\ index[u] + slots[u] < index[a] + allocated[a]
      BY <3>1, <1>0, <1>6 DEF RangesNested, ReservedRange
    <3>3. /\ index'[a] = index[a] /\ index'[u] = index[u] /\ slots'[a] = slots[a] /\ slots'[u] = slots[u]
          /\ Above(u)' = Above(u)
      BY <3>1, <1>3, <1>4
    <3>4. index[u] + slots[u] < index[a] + allocated[a] => index[u] + slots[u] < index[a] + allocated'[a]
      BY <3>1, <1>6, <1>9
    <3> QED
      BY <3>2, <3>3, <3>4
  <2>2. CASE u = k
    <3>1. /\ a \in Registered /\ index'[a] = index[a] /\ slots'[a] = slots[a]
          /\ index'[u] = i /\ slots'[u] = Slots[t]
      BY <2>2, <1>3
    <3>2. /\ index[a] < i \/ i + Slots[t] < index[a]
          /\ index[a] <= i /\ i <= index[a] + slots[a] =>
                a \in Above(p) /\ i + Slots[t] < index[a] + allocated'[a]
      BY <3>1 DEF GoodPlace
    <3>3. index[a] # i
      BY <3>1, <3>2, <1>2, <1>6
    <3>4. a \in Above(p) => a \in Above(u)'
      BY <2>2, <1>4
    <3> QED
      BY <3>1, <3>2, <3>3, <3>4
  <2>3. CASE a = k
    <3>1. u \in Registered /\ index'[u] = index[u] /\ index'[a] = i /\ slots'[a] = Slots[t]
      BY <2>3, <1>3
    <3>2. index[u] \in Nat /\ Slots[t] \in Nat
      BY <3>1, <1>2, <1>6
    <3>3. index[u] < i \/ i + Slots[t] < index[u]
      BY <3>1 DEF GoodPlace
    <3> QED
      BY <3>1, <3>2, <3>3
  <2> QED
    BY <2>1, <2>2, <2>3
<1>16. SealedInside'
  <2>1. ASSUME NEW l \in Registered, NEW b \in Above(l), b \notin overflow'
        PROVE  l \notin overflow' /\ index'[l] \in index'[b] .. index'[b] + slots'[b]
    <3>1. b \in Registered /\ b \notin overflow
      BY <2>1, <1>3, <1>6
    <3>2. l \notin overflow /\ index[l] \in ReservedRange(b)
      BY <2>1, <3>1, <1>0 DEF SealedInside
    <3> QED
      BY <3>1, <3>2, <1>3 DEF ReservedRange
  <2>2. ASSUME NEW b \in Above(k)', b \notin overflow'
        PROVE  k \notin overflow' /\ index'[k] \in index'[b] .. index'[b] + slots'[b]
    <3>1. CASE b = k
      BY <2>2, <3>1, <1>2, <1>3
    <3>2. CASE b # k
      <4>1. b \in Above(p) /\ b \in Registered /\ b \notin overflow
        BY <2>2, <3>2, <1>1, <1>3, <1>4, <1>6
      <4>2. p \notin overflow
        BY <4>1, <1>0, <1>1 DEF SealedInside
      <4>3. index[b] <= i /\ i <= index[b] + slots[b]
        BY <4>1 DEF GoodPlace
      <4>4. index'[b] = index[b] /\ slots'[b] = slots[b] /\ index[b] \in Nat /\ slots[b] \in Nat
        BY <4>1, <1>3, <1>6
      <4> QED
        BY <4>2, <4>3, <4>4, <1>3
    <3> QED
      BY <3>1, <3>2
  <2> QED
    BY <2>1, <2>2, <1>3, <1>4 DEF SealedInside, ReservedRange
<1> QED
  BY <1>10, <1>11, <1>12, <1>13, <1>14, <1>15, <1>16 DEF IInv

\* The three places the code finds are good.  A static class is below Begin, where
\* nothing is reserved.
LEMMA StaticPlace ==
  ASSUME IInv, NEW t \in Classes, AllocStatic(t)
  PROVE  IInv'
<1> DEFINE i == StaticIndex[Key[t]]
<1>1. /\ MayRegister(t) /\ Key[t] \notin Registered /\ i >= 0 /\ NewEntry(t, i)
      /\ UNCHANGED <<allocated, counter>>
      /\ \A l \in Registered : index[l] # i
  BY DEF AllocStatic
<1>2. t # Object /\ ParentKey(t) \in Registered /\ Registered \subseteq Keys
  BY <1>1, Registering
<1>3. i \in Nat /\ i < Begin /\ Slots[t] = 0 /\ Parent[t] = Object /\ Begin \in Nat
  BY <1>1, <1>2, Declared
<1>4. /\ counter \in Nat /\ counter >= Begin /\ allocated \in [Keys -> Nat]
      /\ \A l \in Registered : allocated[l] \in Nat /\ allocated[l] <= slots[l] + 1
  BY <1>2, EntryNumbers DEF IInv, TypeOK
<1>5. ASSUME NEW l \in Registered
      PROVE  /\ index[l] < i \/ i < index[l]
             /\ ~(index[l] <= i /\ i <= index[l] + slots[l])
  <2>1. /\ index[l] \in Nat /\ slots[l] \in Nat
        /\ index[l] >= Begin <=> StaticIndex[l] < 0
    BY EntryNumbers
  <2>2. PICK u \in Classes : Key[u] = l /\ slots[l] = Slots[u]
    BY DEF IInv, EntriesDeclared
  <2>3. StaticIndex[l] \in Nat \union {-1} /\ (StaticIndex[l] >= 0 => slots[l] = 0)
    BY <2>2, Declared
  <2> QED
    BY <2>1, <2>3, <1>1, <1>3
<1>6. \A b \in Above(ParentKey(t)) : b \in overflow
  <2>1. Key[Object] \in Registered \intersect overflow /\ ParentKey(t) = Key[Object]
    BY <1>3 DEF IInv, Placed, ParentKey
  <2>2. PICK u \in Classes : Key[u] = Key[Object] /\ Len(ancestors[Key[Object]]) = Depth[u]
    BY <2>1 DEF IInv, EntriesDeclared
  <2>3. Depth[u] = 0
    BY <2>2, ParentOf, TreeAssumption
  <2>4. Above(Key[Object]) = {Key[Object]}
    BY <2>2, <2>3 DEF Above
  <2> QED
    BY <2>1, <2>4
<1>7. GoodPlace(t, i)
  <2>1. \A l \in Registered : allocated'[l] >= allocated[l] /\ allocated'[l] <= slots[l] + 1
    BY <1>1, <1>4
  <2>2. i + Slots[t] < counter' /\ i + Slots[t] = i /\ counter' = counter
    BY <1>1, <1>3, <1>4
  <2>3. i >= Begin <=> StaticIndex[Key[t]] < 0
    BY <1>3
  <2> QED
    BY <2>1, <2>2, <2>3, <1>1, <1>4, <1>5, <1>6 DEF GoodPlace
<1> QED
  BY <1>1, <1>3, <1>7, GoodPlaceKeepsIInv

\* A reserved slot is above everything its parent has given away, and in the range of
\* every base whose range the parent is in.
LEMMA ReservedPlace ==
  ASSUME IInv, NEW t \in Classes, AllocReserved(t)
  PROVE  IInv'
<1> DEFINE p == ParentKey(t)
           i == index[p] + allocated[p]
<1>0. TypeOK /\ Placed /\ RangesNested /\ SealedInside
  BY DEF IInv
<1>1. /\ MayRegister(t) /\ Key[t] \notin Registered /\ StaticIndex[Key[t]] < 0 /\ NewEntry(t, i)
      /\ allocated[p] + (Slots[t] + 1) <= slots[p] + 1
      /\ allocated' = [allocated EXCEPT ![p] = @ + (Slots[t] + 1)]
      /\ counter' = counter
  BY DEF AllocReserved, NeedsSlots, FitsInParent, Needed
<1>2. p \in Registered /\ Registered \subseteq Keys /\ Key[t] \notin Registered
  BY <1>1, Registering
<1>3. \A l \in Registered : /\ index[l] \in Nat /\ slots[l] \in Nat /\ allocated[l] \in Nat
                            /\ 1 <= allocated[l] /\ allocated[l] <= slots[l] + 1
                            /\ index[l] + slots[l] < counter
                            /\ Above(l) \subseteq Registered
  BY EntryNumbers
<1>4. Slots[t] \in Nat /\ counter \in Nat /\ Begin \in Nat
  BY <1>2, EntryNumbers, Declared
<1>5. i \in Nat /\ index[p] < i /\ i + Slots[t] <= index[p] + slots[p]
  BY <1>1, <1>2, <1>3, <1>4
<1>6. \A a, u \in Registered : a # u =>
         /\ index[a] # index[u]
         /\ index[a] <= index[u] /\ index[u] <= index[a] + slots[a] =>
               a \in Above(u) /\ index[u] + slots[u] < index[a] + allocated[a]
  BY <1>0, <1>3 DEF RangesNested, ReservedRange
<1>7. /\ allocated' \in [Keys -> Nat]
      /\ allocated'[p] = allocated[p] + (Slots[t] + 1)
      /\ \A l \in Keys : l # p => allocated'[l] = allocated[l]
  BY <1>0, <1>1, <1>2, <1>4 DEF TypeOK
<1>8. \A l \in Registered : allocated'[l] >= allocated[l] /\ allocated'[l] <= slots[l] + 1
  <2> SUFFICES ASSUME NEW l \in Registered
               PROVE  allocated'[l] >= allocated[l] /\ allocated'[l] <= slots[l] + 1
    OBVIOUS
  <2>1. CASE l = p
    BY <2>1, <1>1, <1>3, <1>4, <1>7
  <2>2. CASE l # p
    BY <2>2, <1>2, <1>3, <1>7
  <2> QED
    BY <2>1, <2>2
<1>9. i + Slots[t] < counter'
  BY <1>1, <1>2, <1>3, <1>4, <1>5
<1>10. i >= Begin
  <2>1. PICK u \in Classes : Key[u] = p /\ slots[p] = Slots[u]
    BY <1>2 DEF IInv, EntriesDeclared
  <2>2. slots[p] > 0
    BY <1>1, <1>2, <1>3, <1>4
  <2>3. StaticIndex[p] \in Nat \union {-1} /\ StaticIndex[p] < 0
    BY <2>1, <2>2, <1>4, Declared
  <2>4. index[p] >= Begin
    BY <2>3, <1>0, <1>2 DEF Placed
  <2> QED
    BY <2>4, <1>2, <1>3, <1>4, <1>5
<1>11. \A l \in Registered : index[l] < i \/ i + Slots[t] < index[l]
  <2> SUFFICES ASSUME NEW l \in Registered, i <= index[l], index[l] <= i + Slots[t]
               PROVE  FALSE
    BY <1>3, <1>4, <1>5
  <2>1. /\ index[l] \in Nat /\ index[p] \in Nat /\ slots[p] \in Nat /\ slots[l] \in Nat
        /\ allocated[p] \in Nat
    BY <1>2, <1>3
  <2>2. l # p /\ index[p] <= index[l] /\ index[l] <= index[p] + slots[p]
    BY <2>1, <1>4, <1>5
  <2>3. index[l] + slots[l] < i
    BY <2>2, <1>2, <1>6
  <2> QED
    BY <2>1, <2>3
<1>12. ASSUME NEW l \in Registered, index[l] <= i, i <= index[l] + slots[l]
       PROVE  l \in Above(p) /\ i + Slots[t] < index[l] + allocated'[l]
  <2>1. /\ index[l] \in Nat /\ index[p] \in Nat /\ slots[p] \in Nat /\ slots[l] \in Nat
        /\ allocated[p] \in Nat /\ allocated[l] \in Nat
    BY <1>2, <1>3
  <2>2. CASE l = p
    BY <2>1, <2>2, <1>4, <1>7 DEF Above
  <2>3. CASE l # p
    <3>1. CASE index[l] <= index[p]
      <4>1. index[p] <= index[l] + slots[l]
        BY <2>1, <1>5, <1>12
      <4>2. l \in Above(p) /\ index[p] + slots[p] < index[l] + allocated[l]
        BY <4>1, <3>1, <2>3, <1>2, <1>6
      <4>3. allocated'[l] = allocated[l]
        BY <2>3, <1>2, <1>7
      <4> QED
        BY <4>2, <4>3, <2>1, <1>4, <1>5
    <3>2. CASE index[p] < index[l]
      <4>1. index[l] <= index[p] + slots[p]
        BY <2>1, <1>4, <1>5, <1>12
      <4>2. index[l] + slots[l] < i
        BY <4>1, <3>2, <2>1, <2>3, <1>2, <1>6
      <4> QED
        BY <4>2, <2>1, <1>5, <1>12
    <3> QED
      BY <3>1, <3>2, <2>1
  <2> QED
    BY <2>2, <2>3
<1>13. ASSUME NEW b \in Above(p), b \notin overflow
       PROVE  index[b] <= i /\ i <= index[b] + slots[b]
  <2>1. b \in Registered
    BY <1>2, <1>3
  <2>2. /\ index[b] \in Nat /\ index[p] \in Nat /\ slots[p] \in Nat /\ slots[b] \in Nat
        /\ allocated[p] \in Nat /\ allocated[b] \in Nat /\ allocated[b] <= slots[b] + 1
    BY <2>1, <1>2, <1>3
  <2>3. index[p] \in ReservedRange(b)
    BY <1>0, <1>2, <1>13 DEF SealedInside
  <2>4. index[b] <= index[p] /\ index[p] <= index[b] + slots[b]
    BY <2>2, <2>3 DEF ReservedRange
  <2>5. CASE b = p
    BY <2>2, <2>5, <1>4, <1>5
  <2>6. CASE b # p
    <3>1. index[p] + slots[p] < index[b] + allocated[b]
      BY <2>1, <2>4, <2>6, <1>2, <1>6
    <3> QED
      BY <3>1, <2>2, <2>4, <1>4, <1>5
  <2> QED
    BY <2>5, <2>6
<1>14. GoodPlace(t, i)
  <2>1. \A l \in Keys \ Registered : allocated'[l] = allocated[l]
    BY <1>2, <1>7
  <2>2. counter' \in Nat /\ counter' >= counter
    BY <1>1, <1>4
  <2> QED
    BY <2>1, <2>2, <1>1, <1>7, <1>8, <1>9, <1>10, <1>11, <1>12, <1>13 DEF GoodPlace
<1> QED
  BY <1>1, <1>5, <1>14, GoodPlaceKeepsIInv

\* The end of the table is above everything, and only classes without sealed bases go there.
LEMMA OverflowPlace ==
  ASSUME IInv, NEW t \in Classes, AllocOverflow(t)
  PROVE  IInv'
<1>1. /\ MayRegister(t) /\ Key[t] \notin Registered /\ StaticIndex[Key[t]] < 0
      /\ ParentKey(t) \in overflow /\ NewEntry(t, counter)
      /\ counter' = counter + (Slots[t] + 1) /\ allocated' = allocated
  BY DEF AllocOverflow, NeedsSlots, Needed
<1>2. ParentKey(t) \in Registered /\ Registered \subseteq Keys
  BY <1>1, Registering
<1>3. \A l \in Registered : /\ index[l] \in Nat /\ slots[l] \in Nat
                            /\ allocated[l] \in Nat /\ allocated[l] <= slots[l] + 1
                            /\ index[l] + slots[l] < counter
  BY EntryNumbers
<1>4. Slots[t] \in Nat /\ counter \in Nat /\ Begin \in Nat /\ counter >= Begin
  BY <1>2, EntryNumbers, Declared
<1>5. \A b \in Above(ParentKey(t)) : b \in overflow
  BY <1>1, <1>2 DEF IInv, SealedInside
<1>6. GoodPlace(t, counter)
  <2>1. allocated \in [Keys -> Nat]
    BY DEF IInv, TypeOK
  <2>2. \A l \in Registered : allocated'[l] >= allocated[l] /\ allocated'[l] <= slots[l] + 1
    BY <1>1, <1>3
  <2>3. \A l \in Registered : index[l] < counter /\ ~(counter <= index[l] + slots[l])
    BY <1>3, <1>4
  <2>4. counter' \in Nat /\ counter' >= counter /\ counter + Slots[t] < counter'
    BY <1>1, <1>4
  <2> QED
    BY <2>1, <2>2, <2>3, <2>4, <1>1, <1>4, <1>5 DEF GoodPlace
<1> QED
  BY <1>1, <1>4, <1>6, GoodPlaceKeepsIInv

\* A class whose key is known changes nothing in the table, whatever it declares.
LEMMA FindKeepsIInv ==
  ASSUME IInv, NEW t \in Classes, Find(t)
  PROVE  IInv'
<1>1. /\ Key[t] \in Registered /\ tindex' = [tindex EXCEPT ![t] = index[Key[t]]]
      /\ UNCHANGED <<index, slots, allocated, overflow, ancestors, counter>>
  BY DEF Find
<1>2. Registered' = Registered /\ \A k \in Keys : Above(k)' = Above(k) /\ ReservedRange(k)' = ReservedRange(k)
  BY <1>1 DEF Registered, Above, ReservedRange
<1>3. index[Key[t]] \in Nat /\ tindex \in [Classes -> Nat \union {Unregistered}]
  BY <1>1, EntryNumbers DEF IInv, TypeOK
<1>4. TypeOK'
  BY <1>1, <1>2, <1>3 DEF IInv, TypeOK
<1>5. ClassesAgree'
  <2> SUFFICES ASSUME NEW u \in Loaded' PROVE Key[u] \in Registered' /\ tindex'[u] = index'[Key[u]]
    BY DEF ClassesAgree
  <2>1. u \in Classes /\ (u # t => u \in Loaded /\ tindex'[u] = tindex[u])
    BY <1>1, <1>3 DEF Loaded
  <2>2. tindex'[t] = index[Key[t]]
    BY <1>1, <1>3
  <2> QED
    BY <2>1, <2>2, <1>1, <1>2 DEF IInv, ClassesAgree
<1>6. \A k \in Registered : k \in Keys /\ Above(k) \subseteq Registered
  BY EntryNumbers
<1>7. Placed' /\ RangesNested' /\ SealedInside'
  BY <1>1, <1>2, <1>6 DEF IInv, Placed, RangesNested, SealedInside
<1>8. EntriesDeclared' /\ AncestorsFirst'
  BY <1>1, <1>2, <1>6 DEF IInv, EntriesDeclared, AncestorsFirst
<1> QED
  BY <1>4, <1>5, <1>7, <1>8 DEF IInv

\* A step that changes nothing preserves the invariant.
LEMMA StutterIInv == IInv /\ UNCHANGED vars => IInv'
<1> SUFFICES ASSUME IInv, UNCHANGED vars PROVE IInv'
  OBVIOUS
<1>1. Registered' = Registered /\ Loaded' = Loaded
  BY DEF vars, Registered, Loaded
<1>2. \A k \in Keys : Above(k)' = Above(k) /\ ReservedRange(k)' = ReservedRange(k)
  BY DEF vars, Above, ReservedRange
<1>3. \A k \in Registered : k \in Keys /\ Above(k) \subseteq Registered
  BY EntryNumbers
<1>4. TypeOK' /\ ClassesAgree' /\ Placed'
  BY <1>1 DEF vars, IInv, TypeOK, ClassesAgree, Placed
<1>5. RangesNested' /\ SealedInside'
  BY <1>1, <1>2, <1>3 DEF vars, IInv, RangesNested, SealedInside
<1>6. EntriesDeclared' /\ AncestorsFirst'
  BY <1>1, <1>2, <1>3 DEF vars, IInv, EntriesDeclared, AncestorsFirst
<1> QED
  BY <1>4, <1>5, <1>6 DEF IInv

\* The invariant of the table: ranges nest as the classes do, the ancestors are the bases,
\* and what derives from a sealed class is in its range (GetOrAllocTypeIndex).
THEOREM Inductive == Spec => []IInv
<1>1. IInv /\ [Next]_vars => IInv'
  BY FindKeepsIInv, StaticPlace, ReservedPlace, OverflowPlace, StutterIInv DEF Next, GetOrAllocTypeIndex
<1> QED
  BY <1>1, InitIInv, PTL DEF Spec

-----------------------------------------------------------------------------
(* What follows from it.                                                   *)

\* The variables keep their types for any tree of classes.
THEOREM TypeCorrect == Spec => []TypeOK
<1>1. IInv => TypeOK
  BY DEF IInv
<1> QED
  BY <1>1, Inductive, PTL

\* No key is put where another one is or has reserved (GetOrAllocTypeIndex).
THEOREM PlacesApart == Spec => []PlacesDisjoint
<1>1. IInv => PlacesDisjoint
  <2> SUFFICES ASSUME IInv, NEW k \in Registered, NEW l \in Registered, k # l
               PROVE  /\ index[k] # index[l]
                      /\ ~(index[k] + allocated[k] <= index[l] /\ index[l] <= index[k] + slots[k])
    <3>1. ASSUME IInv, NEW k \in Registered
          PROVE  index[k] \in Nat /\ slots[k] \in Nat /\ allocated[k] \in Nat
      BY <3>1, EntryNumbers
    <3> QED
      BY <3>1 DEF PlacesDisjoint
  <2>1. /\ index[k] \in Nat /\ index[l] \in Nat /\ slots[k] \in Nat /\ slots[l] \in Nat
        /\ allocated[k] \in Nat
    BY EntryNumbers
  <2>2. /\ index[k] # index[l]
        /\ index[k] <= index[l] /\ index[l] <= index[k] + slots[k] =>
              index[l] + slots[l] < index[k] + allocated[k]
    BY <2>1 DEF IInv, RangesNested, ReservedRange
  <2> QED
    BY <2>1, <2>2
<1> QED
  BY <1>1, Inductive, PTL

\* What the table says of two classes that are registered.
LEMMA LoadedPair ==
  ASSUME IInv, NEW class \in Loaded, NEW target \in Loaded
  PROVE  LET c == Key[class]
             g == Key[target]
         IN  /\ class \in Classes /\ target \in Classes
             /\ c \in Registered /\ tindex[class] = index[c] /\ index[c] \in Nat
             /\ g \in Registered /\ tindex[target] = index[g] /\ index[g] \in Nat
             /\ slots[g] \in Nat /\ Slots[target] \in Nat /\ Depth[target] \in Nat
             /\ Len(ancestors[c]) \in Nat /\ Above(c) \subseteq Registered
             /\ \A k, l \in Registered : index[k] = index[l] => k = l
<1>1. class \in Classes /\ target \in Classes
  BY DEF Loaded
<1>2. /\ Key[class] \in Registered /\ tindex[class] = index[Key[class]]
      /\ Key[target] \in Registered /\ tindex[target] = index[Key[target]]
  BY DEF IInv, ClassesAgree
<1>3. \A k, l \in Registered : index[k] = index[l] => k = l
  BY DEF IInv, RangesNested
<1> QED
  BY <1>1, <1>2, <1>3, EntryNumbers, Declared, SelfInBases

\* The ancestors of a class are its bases where the libraries agree on them.
LEMMA AboveIsBases ==
  ASSUME IInv, NEW class \in Loaded \intersect SameInheritance
  PROVE  Above(Key[class]) = BaseKeys[class]
<1>1. class \in Classes /\ Key[class] \in Registered
  BY DEF IInv, ClassesAgree, Loaded
<1>2. PICK t \in Classes : /\ Key[t] = Key[class]
                           /\ t \in SameInheritance => Above(Key[class]) = BaseKeys[t]
  BY <1>1 DEF IInv, EntriesDeclared
<1>3. \A b \in Bases[class] : \A u \in Classes : Key[u] = Key[b] => BaseKeys[u] = BaseKeys[b]
  BY DEF SameInheritance, Namesakes
<1>4. class \in Bases[class]
  BY <1>1, SelfInBases
<1>5. BaseKeys[t] = BaseKeys[class]
  BY <1>2, <1>3, <1>4
<1>6. ASSUME NEW b \in Bases[t], NEW u \in Classes, Key[u] = Key[b]
      PROVE  BaseKeys[u] = BaseKeys[b]
  <2>1. b \in Classes /\ Key[b] \in BaseKeys[class]
    BY <1>2, <1>5, SelfInBases
  <2>2. PICK c \in Bases[class] : Key[c] = Key[b]
    BY <2>1, <1>1, SelfInBases
  <2>3. BaseKeys[u] = BaseKeys[c] /\ BaseKeys[b] = BaseKeys[c]
    BY <2>1, <2>2, <1>3, <1>6
  <2> QED
    BY <2>3
<1>7. t \in SameInheritance
  BY <1>6, <1>2 DEF SameInheritance, Namesakes
<1> QED
  BY <1>2, <1>5, <1>7

\* Whatever a library has declared, as long as it counts on no more slots than are
\* reserved, a positive answer says that the table has the target above the class.
LEMMA PositiveIsAbove ==
  ASSUME IInv, NEW class \in Loaded, NEW target \in Loaded,
         Slots[target] <= slots[Key[target]], IsObjectInstance(class, target)
  PROVE  Key[target] \in Above(Key[class])
<1> DEFINE c == Key[class]
           g == Key[target]
<1>1. /\ c \in Registered /\ tindex[class] = index[c] /\ index[c] \in Nat
      /\ g \in Registered /\ tindex[target] = index[g] /\ index[g] \in Nat
      /\ slots[g] \in Nat /\ Slots[target] \in Nat /\ Depth[target] \in Nat
      /\ Len(ancestors[c]) \in Nat /\ Above(c) \subseteq Registered
      /\ \A k, l \in Registered : index[k] = index[l] => k = l
  BY LoadedPair
<1>2. CASE target = Object
  BY <1>1, <1>2 DEF IInv, AncestorsFirst
<1>3. CASE tindex[class] = tindex[target]
  BY <1>1, <1>3 DEF Above
<1>4. CASE tindex[class] \in DeclaredRange(target)
  <2>1. index[g] <= index[c] /\ index[c] <= index[g] + slots[g]
    BY <1>1, <1>4 DEF DeclaredRange
  <2>2. c # g => g \in Above(c)
    BY <2>1, <1>1 DEF IInv, RangesNested, ReservedRange
  <2> QED
    BY <2>2 DEF Above
<1>5. CASE InheritsByTable(class, target)
  <2> DEFINE a == ancestors[c][Depth[target] + 1]
  <2>1. Len(ancestors[c]) > Depth[target] /\ index[a] = index[g]
    BY <1>1, <1>5 DEF InheritsByTable
  <2>2. Depth[target] + 1 \in 1 .. Len(ancestors[c])
    BY <2>1, <1>1
  <2>3. a \in Above(c)
    BY <2>2 DEF Above
  <2> QED
    BY <2>1, <2>3, <1>1
<1> QED
  BY <1>2, <1>3, <1>4, <1>5 DEF IsObjectInstance

\* The test that compares indices and looks up one ancestor is C++ inheritance for a
\* class all libraries declare alike (IsObjectInstance against std::is_base_of).
THEOREM InstanceTestExact == Spec => []IsInstanceIsBaseOf
<1>1. IInv => IsInstanceIsBaseOf
  <2> SUFFICES ASSUME IInv, NEW class \in Loaded \intersect SameInheritance,
                      NEW target \in Loaded \intersect SameDeclaration
               PROVE  IsObjectInstance(class, target) <=> Key[target] \in BaseKeys[class]
    BY DEF IsInstanceIsBaseOf
  <2> DEFINE c == Key[class]
             g == Key[target]
  <2>1. /\ class \in Classes /\ target \in Classes
        /\ c \in Registered /\ tindex[class] = index[c] /\ index[c] \in Nat
        /\ g \in Registered /\ tindex[target] = index[g] /\ index[g] \in Nat
        /\ slots[g] \in Nat /\ Slots[target] \in Nat /\ Depth[target] \in Nat
        /\ Len(ancestors[c]) \in Nat
    BY LoadedPair
  <2>2. \A u \in Classes : Key[u] = g =>
          /\ Slots[u] = Slots[target] /\ Depth[u] = Depth[target]
          /\ (u \in CanOverflow <=> target \in CanOverflow) /\ (u \in Final <=> target \in Final)
    BY DEF SameDeclaration, Namesakes
  <2>3. /\ slots[g] = Slots[target] /\ Len(ancestors[g]) = Depth[target]
        /\ g \in overflow => target \in CanOverflow
    BY <2>1, <2>2 DEF IInv, EntriesDeclared
  <2>4. Above(c) = BaseKeys[class]
    BY AboveIsBases
  <2>5. ASSUME IsObjectInstance(class, target) PROVE g \in BaseKeys[class]
    BY <2>1, <2>3, <2>4, <2>5, PositiveIsAbove
  <2>6. ASSUME g \in BaseKeys[class] PROVE IsObjectInstance(class, target)
    <3>1. CASE g = c
      BY <3>1, <2>1 DEF IsObjectInstance, DeclaredRange
    <3>2. CASE g # c
      <4>1. PICK d \in 1 .. Len(ancestors[c]) : ancestors[c][d] = g
        BY <3>2, <2>4, <2>6 DEF Above
      <4>2. /\ index[g] < index[c] /\ Len(ancestors[g]) = d - 1
            /\ \E u \in Classes \ Final : Key[u] = g
        <5>1. AncestorsFirst
          BY DEF IInv
        <5> HIDE DEF c, g
        <5>2. \A i \in 1 .. Len(ancestors[c]) :
                /\ index[ancestors[c][i]] < index[c] /\ Len(ancestors[ancestors[c][i]]) = i - 1
                /\ \E u \in Classes \ Final : Key[u] = ancestors[c][i]
          BY <5>1, <2>1 DEF AncestorsFirst
        <5> QED
          BY <5>2, <4>1
      <4>3. target \notin Final
        BY <4>2, <2>2
      <4>4. CASE target \in CanOverflow
        <5>1. d = Depth[target] + 1 /\ Len(ancestors[c]) > Depth[target]
          BY <4>2, <2>1, <2>3
        <5>2. InheritsByTable(class, target)
          BY <5>1, <4>1, <4>2, <2>1 DEF InheritsByTable
        <5> QED
          BY <5>2, <4>3, <4>4 DEF IsObjectInstance
      <4>5. CASE target \notin CanOverflow
        <5>1. g \notin overflow
          BY <4>5, <2>3
        <5>2. index[c] \in ReservedRange(g)
          BY <5>1, <2>1, <2>4, <2>6 DEF IInv, SealedInside
        <5> QED
          BY <5>2, <4>3, <2>1, <2>3 DEF IsObjectInstance, ReservedRange, DeclaredRange
      <4> QED
        BY <4>4, <4>5
    <3> QED
      BY <3>1, <3>2
  <2> QED
    BY <2>5, <2>6
<1> QED
  BY <1>1, Inductive, PTL

\* A second declaration of a key, which gets the index of the first, makes no instance test
\* answer yes for a class that does not derive from the target, unless it counts on more
\* slots than the entry has (GetOrAllocTypeIndex returns the index it finds).
THEOREM ForeignDeclarationsSound == Spec => []DowncastsAreSound
<1>1. IInv => DowncastsAreSound
  BY PositiveIsAbove, AboveIsBases DEF DowncastsAreSound
<1> QED
  BY <1>1, Inductive, PTL
=============================================================================
