------------------------------ MODULE MapProofs -----------------------------
(***************************************************************************)
(* Proofs about Map, for maps, lists and tables of any size.  In order:    *)
(* what linking does to the list of a dense map; that a small map is a     *)
(* dictionary; walks and chains, apart from tables; what a table must      *)
(* satisfy between calls, and that insertion, with the moving of a chain   *)
(* that is in the way, and removal keep it; calls, which take in one pair  *)
(* after another; that the state of a map stays so; and that the map is    *)
(* the dictionary of InsertionDict.                                        *)
(***************************************************************************)
EXTENDS MapObj, FiniteSetTheorems, SequenceTheorems, WellFoundedInduction, TLAPS

-----------------------------------------------------------------------------
(* Links.                                                                  *)

\* The parts of a table that links are kept in; slots are numbers from 0 on.
IsTable(T) == {"head", "tail", "slot"} \subseteq DOMAIN T /\ DOMAIN T.slot \subseteq Nat

\* U has the slots of T with the same contents; only links may differ.
SameItems(T, U) ==
    /\ IsTable(U) /\ DOMAIN U.slot = DOMAIN T.slot
    /\ DOMAIN U = DOMAIN T /\ \A f \in DOMAIN T \ {"head", "tail", "slot"} : U[f] = T[f]
    /\ \A i \in DOMAIN T.slot :
         /\ DOMAIN U.slot[i] = DOMAIN T.slot[i]
         /\ \A f \in DOMAIN T.slot[i] \ {"prev", "next"} : U.slot[i][f] = T.slot[i][f]

\* U is T with a link between p and n, or the ends of the list where one of them is None.
Linked(T, U, p, n) ==
    /\ SameItems(T, U)
    /\ U.head = IF p = None THEN n ELSE T.head
    /\ U.tail = IF n = None THEN p ELSE T.tail
    /\ \A i \in DOMAIN T.slot : /\ U.slot[i].next = IF i = p THEN n ELSE T.slot[i].next
                                /\ U.slot[i].prev = IF i = n THEN p ELSE T.slot[i].prev

\* U is T with links written into slot i alone.
Placed(T, U, i, p, n) ==
    /\ SameItems(T, U)
    /\ U.head = T.head /\ U.tail = T.tail
    /\ U.slot[i].prev = p /\ U.slot[i].next = n
    /\ \A j \in DOMAIN T.slot \ {i} : U.slot[j].next = T.slot[j].next /\ U.slot[j].prev = T.slot[j].prev

\* The mark of no slot is none of the slots.
LEMMA SlotsAreNotNone == ASSUME NEW T, IsTable(T), NEW i \in DOMAIN T.slot PROVE i # None
BY DEF IsTable, None

\* What each write to a link or an end of the list changes.
LEMMA SetNext ==
  ASSUME NEW T, IsTable(T), NEW p, HasLinks(T, p), NEW n,
         NEW U, U = [T EXCEPT !.slot[p].next = n]
  PROVE  /\ SameItems(T, U) /\ U.head = T.head /\ U.tail = T.tail
         /\ \A i \in DOMAIN T.slot : /\ U.slot[i].next = IF i = p THEN n ELSE T.slot[i].next
                                     /\ U.slot[i].prev = T.slot[i].prev
BY DEF IsTable, HasLinks, SameItems

LEMMA SetPrev ==
  ASSUME NEW T, IsTable(T), NEW n, HasLinks(T, n), NEW p,
         NEW U, U = [T EXCEPT !.slot[n].prev = p]
  PROVE  /\ SameItems(T, U) /\ U.head = T.head /\ U.tail = T.tail
         /\ \A i \in DOMAIN T.slot : /\ U.slot[i].prev = IF i = n THEN p ELSE T.slot[i].prev
                                     /\ U.slot[i].next = T.slot[i].next
BY DEF IsTable, HasLinks, SameItems

LEMMA SetHead ==
  ASSUME NEW T, IsTable(T), NEW n, NEW U, U = [T EXCEPT !.head = n]
  PROVE  SameItems(T, U) /\ U.head = n /\ U.tail = T.tail /\ U.slot = T.slot
BY DEF IsTable, SameItems

LEMMA SetTail ==
  ASSUME NEW T, IsTable(T), NEW p, NEW U, U = [T EXCEPT !.tail = p]
  PROVE  SameItems(T, U) /\ U.tail = p /\ U.head = T.head /\ U.slot = T.slot
BY DEF IsTable, SameItems

\* Tables that differ in links only, one after another.
LEMMA SameItemsTrans ==
  ASSUME NEW T, NEW U, NEW V, SameItems(T, U), SameItems(U, V)
  PROVE  SameItems(T, V)
BY DEF SameItems

\* Joining changes the two links that face each other, or the end of the list.
LEMMA JoinedIsLinked ==
  ASSUME NEW T, IsTable(T), NEW p, p = None \/ HasLinks(T, p), NEW n, n = None \/ HasLinks(T, n)
  PROVE  Linked(T, Joined(T, p, n), p, n)
<1>1. PICK U : U = IF p = None THEN [T EXCEPT !.head = n] ELSE [T EXCEPT !.slot[p].next = n]
  OBVIOUS
<1>2. /\ SameItems(T, U) /\ U.tail = T.tail
      /\ U.head = IF p = None THEN n ELSE T.head
      /\ \A i \in DOMAIN T.slot : /\ U.slot[i].next = IF i = p THEN n ELSE T.slot[i].next
                                  /\ U.slot[i].prev = T.slot[i].prev
  <2>1. CASE p = None
    BY <1>1, <2>1, SetHead, SlotsAreNotNone
  <2>2. CASE p # None
    BY <1>1, <2>2, SetNext
  <2> QED
    BY <2>1, <2>2
<1>3. IsTable(U) /\ (n = None \/ HasLinks(U, n))
  BY <1>2 DEF SameItems, HasLinks
<1>4. PICK V : V = IF n = None THEN [U EXCEPT !.tail = p] ELSE [U EXCEPT !.slot[n].prev = p]
  OBVIOUS
<1>5. /\ SameItems(U, V) /\ V.head = U.head
      /\ V.tail = IF n = None THEN p ELSE U.tail
      /\ \A i \in DOMAIN U.slot : /\ V.slot[i].prev = IF i = n THEN p ELSE U.slot[i].prev
                                  /\ V.slot[i].next = U.slot[i].next
  <2>1. CASE n = None
    BY <1>3, <1>4, <2>1, SetTail, SlotsAreNotNone
  <2>2. CASE n # None
    BY <1>3, <1>4, <2>2, SetPrev
  <2> QED
    BY <2>1, <2>2
<1>6. Joined(T, p, n) = V
  BY <1>1, <1>4 DEF Joined
<1>7. SameItems(T, V) /\ DOMAIN U.slot = DOMAIN T.slot
  BY <1>2, <1>5, SameItemsTrans DEF SameItems
<1> QED
  BY <1>2, <1>5, <1>6, <1>7 DEF Linked

\* Linking a slot in changes its own two links.
LEMMA PlacedLinks ==
  ASSUME NEW T, IsTable(T), NEW i, HasLinks(T, i), NEW p, NEW n
  PROVE  Placed(T, [T EXCEPT !.slot[i].prev = p, !.slot[i].next = n], i, p, n)
<1>1. PICK U : U = [T EXCEPT !.slot[i].prev = p]
  OBVIOUS
<1>2. PICK V : V = [U EXCEPT !.slot[i].next = n]
  OBVIOUS
<1>3. /\ SameItems(T, U) /\ U.head = T.head /\ U.tail = T.tail
      /\ \A j \in DOMAIN T.slot : /\ U.slot[j].prev = IF j = i THEN p ELSE T.slot[j].prev
                                  /\ U.slot[j].next = T.slot[j].next
  BY <1>1, SetPrev
<1>4. IsTable(U) /\ HasLinks(U, i)
  BY <1>3 DEF SameItems, HasLinks
<1>5. /\ SameItems(U, V) /\ V.head = U.head /\ V.tail = U.tail
      /\ \A j \in DOMAIN U.slot : /\ V.slot[j].next = IF j = i THEN n ELSE U.slot[j].next
                                  /\ V.slot[j].prev = U.slot[j].prev
  BY <1>2, <1>4, SetNext
<1>6. V = [T EXCEPT !.slot[i].prev = p, !.slot[i].next = n]
  BY <1>1, <1>2
<1>7. SameItems(T, V) /\ DOMAIN U.slot = DOMAIN T.slot /\ i \in DOMAIN T.slot
  BY <1>3, <1>5, SameItemsTrans DEF SameItems, HasLinks
<1> QED
  BY <1>3, <1>5, <1>6, <1>7 DEF Placed
-----------------------------------------------------------------------------
(* The list that the links are those of.                                   *)

\* What stands where once the place n of a list is taken out.
LEMMA RemovedAt ==
  ASSUME NEW S, NEW l \in Seq(S), NEW n \in DOMAIN l
  PROVE  /\ RemoveAt(l, n) \in Seq(S) /\ Len(RemoveAt(l, n)) = Len(l) - 1
         /\ \A m \in 1..(Len(l) - 1) : RemoveAt(l, n)[m] = IF m < n THEN l[m] ELSE l[m + 1]
<1>1. Len(l) \in Nat /\ n \in 1..Len(l) /\ \A m \in 1..Len(l) : l[m] \in S
  OBVIOUS
<1>2. PICK a : a = SubSeq(l, 1, n - 1)
  OBVIOUS
<1>3. PICK b : b = SubSeq(l, n + 1, Len(l))
  OBVIOUS
<1>4. a \in Seq(S) /\ Len(a) = n - 1 /\ \A m \in 1..(n - 1) : a[m] = l[m]
  BY <1>1, <1>2
<1>5. b \in Seq(S) /\ Len(b) = Len(l) - n /\ \A m \in 1..(Len(l) - n) : b[m] = l[n + m]
  BY <1>1, <1>3
<1>6. a \o b \in Seq(S) /\ Len(a \o b) = Len(l) - 1
  BY <1>1, <1>4, <1>5
<1>7. ASSUME NEW m \in 1..(Len(l) - 1)
      PROVE  (a \o b)[m] = IF m < n THEN l[m] ELSE l[m + 1]
  <2>1. CASE m < n
    BY <1>1, <1>4, <1>5, <2>1
  <2>2. CASE m >= n
    <3>1. (a \o b)[m] = b[m - (n - 1)]
      BY <1>1, <1>4, <1>5, <2>2
    <3>2. m - (n - 1) \in 1..(Len(l) - n) /\ n + (m - (n - 1)) = m + 1
      BY <1>1, <2>2
    <3> QED
      BY <1>5, <2>2, <3>1, <3>2
  <2>3. m < n \/ m >= n
    BY <1>1
  <2> QED
    BY <2>1, <2>2, <2>3, Zenon
<1> QED
  BY <1>2, <1>3, <1>6, <1>7 DEF RemoveAt

\* A list stays one when another slot takes a place of it.
LEMMA ReplacedIsSeq ==
  ASSUME NEW S, NEW l \in Seq(S), NEW n \in DOMAIN l, NEW x \in S
  PROVE  [l EXCEPT ![n] = x] \in Seq(S)
OBVIOUS

\* Places of a list: what stands at each, and that each slot stands at one of them only.
LEMMA Places ==
  ASSUME NEW T, IsTable(T), NEW l, ListedAs(T, l)
  PROVE  /\ l \in Seq(DOMAIN T.slot) /\ Len(l) \in Nat /\ DOMAIN l = 1..Len(l)
         /\ \A m \in DOMAIN l : At(l, m) = l[m] /\ l[m] # None /\ HasLinks(T, l[m])
         /\ \A m \in Int \ DOMAIN l : At(l, m) = None
         /\ \A m \in DOMAIN l, j \in Int : l[m] = At(l, j) => m = j
<1>1. l \in Seq(DOMAIN T.slot) /\ Len(l) \in Nat /\ DOMAIN l = 1..Len(l)
  BY DEF ListedAs
<1>2. \A m \in DOMAIN l : At(l, m) = l[m] /\ l[m] # None /\ HasLinks(T, l[m])
  BY <1>1, SlotsAreNotNone DEF ListedAs, At
<1>3. \A m \in Int \ DOMAIN l : At(l, m) = None
  BY DEF At
<1>4. \A m, j \in DOMAIN l : l[m] = l[j] => m = j
  BY DEF ListedAs
<1>5. \A m \in DOMAIN l, j \in Int : l[m] = At(l, j) => m = j
  BY <1>2, <1>3, <1>4
<1> QED
  BY <1>1, <1>2, <1>3, <1>5

\* The links of a table that has the items of T, from the values they have.
LEMMA ListedFrom ==
  ASSUME NEW T, NEW U, SameItems(T, U), NEW k \in Seq(DOMAIN T.slot),
         \A m \in DOMAIN k : HasLinks(T, k[m]),
         \A m, n \in DOMAIN k : k[m] = k[n] => m = n,
         U.head = At(k, 1), U.tail = At(k, Len(k)),
         \A m \in DOMAIN k : U.slot[k[m]].prev = At(k, m - 1) /\ U.slot[k[m]].next = At(k, m + 1)
  PROVE  ListedAs(U, k)
<1>1. k \in Seq(DOMAIN U.slot) /\ \A m \in DOMAIN k : HasLinks(U, k[m])
  BY DEF SameItems, HasLinks
<1> QED
  BY <1>1 DEF ListedAs

\* Unlinking a slot takes it out of the list and leaves the others in their order, wherever
\* it stands (IterListUnlink): the ends of the list and the links of both neighbours follow.
THEOREM Unlinking ==
  ASSUME NEW T, IsTable(T), NEW l, ListedAs(T, l), NEW n \in DOMAIN l
  PROVE  /\ SameItems(T, IterListUnlink(T, l[n]))
         /\ ListedAs(IterListUnlink(T, l[n]), RemoveAt(l, n))
<1> DEFINE p == At(l, n - 1)
           q == At(l, n + 1)
<1>1. /\ l \in Seq(DOMAIN T.slot) /\ Len(l) \in Nat /\ DOMAIN l = 1..Len(l)
      /\ \A m \in DOMAIN l : At(l, m) = l[m] /\ l[m] # None /\ HasLinks(T, l[m])
      /\ \A m \in Int \ DOMAIN l : At(l, m) = None
      /\ \A m \in DOMAIN l, j \in Int : l[m] = At(l, j) => m = j
  BY Places
<1>2. /\ T.head = At(l, 1) /\ T.tail = At(l, Len(l))
      /\ \A m \in DOMAIN l : T.slot[l[m]].prev = At(l, m - 1) /\ T.slot[l[m]].next = At(l, m + 1)
  BY DEF ListedAs
<1>3. (p = None \/ HasLinks(T, p)) /\ (q = None \/ HasLinks(T, q))
  BY <1>1
<1>4. PICK U : U = Joined(T, p, q)
  OBVIOUS
<1>5. IterListUnlink(T, l[n]) = U
  BY <1>2, <1>4 DEF IterListUnlink
<1>6. Linked(T, U, p, q)
  <2> HIDE DEF p, q
  <2> QED
    BY <1>3, <1>4, JoinedIsLinked
<1>7. PICK k : k = RemoveAt(l, n)
  OBVIOUS
<1>8. /\ k \in Seq(DOMAIN T.slot) /\ Len(k) = Len(l) - 1 /\ DOMAIN k = 1..(Len(l) - 1)
      /\ \A m \in DOMAIN k : k[m] = IF m < n THEN l[m] ELSE l[m + 1]
  <2>1. /\ RemoveAt(l, n) \in Seq(DOMAIN T.slot) /\ Len(RemoveAt(l, n)) = Len(l) - 1
        /\ \A m \in 1..(Len(l) - 1) : RemoveAt(l, n)[m] = IF m < n THEN l[m] ELSE l[m + 1]
    BY <1>1, RemovedAt
  <2> QED
    BY <1>7, <2>1
<1>9. \A j \in 0..Len(l) : At(k, j) = IF j < n THEN At(l, j) ELSE At(l, j + 1)
  <2> TAKE j \in 0..Len(l)
  <2>1. CASE j \in DOMAIN k
    BY <1>1, <1>8, <2>1 DEF At
  <2>2. CASE j \notin DOMAIN k
    BY <1>1, <1>8, <2>2 DEF At
  <2> QED
    BY <2>1, <2>2
<1>10. \A m \in DOMAIN k : HasLinks(T, k[m])
  BY <1>1, <1>8
<1>11. \A i, j \in DOMAIN k : k[i] = k[j] => i = j
  BY <1>1, <1>8
<1>12. U.head = At(k, 1) /\ U.tail = At(k, Len(k))
  <2>1. (p = None <=> n = 1) /\ (q = None <=> n = Len(l))
    BY <1>1
  <2>2. At(k, 1) = IF 1 < n THEN At(l, 1) ELSE q
    BY <1>1, <1>9
  <2>3. At(k, Len(k)) = IF n = Len(l) THEN p ELSE At(l, Len(l))
    BY <1>1, <1>8, <1>9
  <2> QED
    BY <1>1, <1>2, <1>6, <2>1, <2>2, <2>3 DEF Linked
<1>13. ASSUME NEW m \in DOMAIN k
       PROVE  U.slot[k[m]].prev = At(k, m - 1) /\ U.slot[k[m]].next = At(k, m + 1)
  <2>1. /\ At(k, m - 1) = IF m - 1 < n THEN At(l, m - 1) ELSE At(l, m)
        /\ At(k, m + 1) = IF m + 1 < n THEN At(l, m + 1) ELSE At(l, m + 2)
    BY <1>1, <1>8, <1>9
  <2>2. /\ U.slot[k[m]].next = IF k[m] = p THEN q ELSE T.slot[k[m]].next
        /\ U.slot[k[m]].prev = IF k[m] = q THEN p ELSE T.slot[k[m]].prev
    BY <1>6, <1>10 DEF Linked, HasLinks
  <2>3. CASE m < n
    <3>1. k[m] = l[m] /\ m \in DOMAIN l
      BY <1>1, <1>8, <2>3
    <3>2. (k[m] = p <=> m = n - 1) /\ k[m] # q
      BY <1>1, <2>3, <3>1
    <3> QED
      BY <1>1, <1>2, <1>8, <2>1, <2>2, <2>3, <3>1, <3>2
  <2>4. CASE m >= n
    <3>1. k[m] = l[m + 1] /\ m + 1 \in DOMAIN l
      BY <1>1, <1>8, <2>4
    <3>2. (l[m + 1] = q => m + 1 = n + 1) /\ (l[m + 1] = p => m + 1 = n - 1)
      BY <1>1, <3>1
    <3>3. m = n => l[m + 1] = q
      BY <1>1, <3>1
    <3>4. m \in Int /\ n \in Int
      BY <1>1, <1>8
    <3>5. (k[m] = q <=> m = n) /\ k[m] # p
      <4> HIDE DEF p, q
      <4> QED
        BY <2>4, <3>1, <3>2, <3>3, <3>4
    <3> QED
      BY <1>1, <1>2, <1>8, <2>1, <2>2, <2>4, <3>1, <3>5
  <2> QED
    BY <1>1, <1>8, <2>3, <2>4
<1>14. SameItems(T, U)
  BY <1>6 DEF Linked
<1>15. ListedAs(U, k)
  BY <1>8, <1>10, <1>11, <1>12, <1>13, <1>14, ListedFrom
<1> QED
  BY <1>5, <1>7, <1>14, <1>15

\* A slot that is written links becomes the last of the list (IterListPushBack), of an empty
\* one too, whatever its links were before.
THEOREM PushingBack ==
  ASSUME NEW T, IsTable(T), NEW l, ListedAs(T, l),
         NEW i, HasLinks(T, i), \A n \in DOMAIN l : l[n] # i
  PROVE  /\ SameItems(T, IterListPushBack(T, i))
         /\ ListedAs(IterListPushBack(T, i), Append(l, i))
<1> DEFINE p == At(l, Len(l))
<1>1. /\ l \in Seq(DOMAIN T.slot) /\ Len(l) \in Nat /\ DOMAIN l = 1..Len(l)
      /\ \A m \in DOMAIN l : At(l, m) = l[m] /\ l[m] # None /\ HasLinks(T, l[m])
      /\ \A m \in Int \ DOMAIN l : At(l, m) = None
      /\ \A m \in DOMAIN l, j \in Int : l[m] = At(l, j) => m = j
  BY Places
<1>2. /\ T.head = At(l, 1) /\ T.tail = p
      /\ \A m \in DOMAIN l : T.slot[l[m]].prev = At(l, m - 1) /\ T.slot[l[m]].next = At(l, m + 1)
  BY DEF ListedAs
<1>3. i \in DOMAIN T.slot /\ i # None
  BY SlotsAreNotNone DEF HasLinks
<1>4. (p = None \/ HasLinks(T, p)) /\ p # i /\ (p = None <=> Len(l) = 0)
  BY <1>1, <1>3
<1>5. PICK U : U = [T EXCEPT !.slot[i].prev = p, !.slot[i].next = None]
  OBVIOUS
<1>6. PICK V : V = Joined(U, p, i)
  OBVIOUS
<1>7. PICK W : W = Joined(V, i, None)
  OBVIOUS
<1>8. IterListPushBack(T, i) = W
  BY <1>2, <1>5, <1>6, <1>7 DEF IterListPushBack
<1> HIDE DEF p
<1>9. Placed(T, U, i, p, None)
  BY <1>5, PlacedLinks
<1>10. IsTable(U) /\ HasLinks(U, i) /\ (p = None \/ HasLinks(U, p))
  BY <1>4, <1>9 DEF Placed, SameItems, HasLinks
<1>11. Linked(U, V, p, i)
  BY <1>6, <1>10, JoinedIsLinked
<1>12. IsTable(V) /\ HasLinks(V, i)
  BY <1>10, <1>11 DEF Linked, SameItems, HasLinks
<1>13. Linked(V, W, i, None)
  BY <1>7, <1>12, JoinedIsLinked
<1>14. SameItems(T, W) /\ DOMAIN U.slot = DOMAIN T.slot /\ DOMAIN V.slot = DOMAIN T.slot
  BY <1>9, <1>11, <1>13, SameItemsTrans DEF Placed, Linked, SameItems
<1>15. /\ W.head = (IF p = None THEN i ELSE T.head) /\ W.tail = i
       /\ W.slot[i].prev = p /\ W.slot[i].next = None
       /\ \A j \in DOMAIN T.slot \ {i} : /\ W.slot[j].prev = T.slot[j].prev
                                         /\ W.slot[j].next = IF j = p THEN i ELSE T.slot[j].next
  BY <1>3, <1>4, <1>9, <1>11, <1>13, <1>14, SlotsAreNotNone DEF Placed, Linked
<1>16. PICK k : k = Append(l, i)
  OBVIOUS
<1>17. /\ k \in Seq(DOMAIN T.slot) /\ Len(k) = Len(l) + 1 /\ DOMAIN k = 1..(Len(l) + 1)
       /\ k[Len(l) + 1] = i /\ \A m \in DOMAIN l : k[m] = l[m]
  BY <1>1, <1>3, <1>16
<1>18. /\ \A j \in 0..Len(l) : At(k, j) = At(l, j)
       /\ At(k, Len(l) + 1) = i /\ At(k, Len(l) + 2) = None
  BY <1>1, <1>17 DEF At
<1>19. \A m \in DOMAIN k : HasLinks(T, k[m])
  BY <1>1, <1>17
<1>20. \A m, n \in DOMAIN k : k[m] = k[n] => m = n
  BY <1>1, <1>17
<1>21. W.head = At(k, 1) /\ W.tail = At(k, Len(k))
  BY <1>1, <1>2, <1>4, <1>15, <1>17, <1>18
<1>22. ASSUME NEW m \in DOMAIN k
       PROVE  W.slot[k[m]].prev = At(k, m - 1) /\ W.slot[k[m]].next = At(k, m + 1)
  <2>1. CASE m = Len(l) + 1
    <3>1. m - 1 = Len(l) /\ m + 1 = Len(l) + 2 /\ At(k, Len(l)) = p
      BY <1>1, <1>18, <2>1 DEF p
    <3> QED
      BY <1>15, <1>17, <1>18, <2>1, <3>1
  <2>2. CASE m # Len(l) + 1
    <3>1. m \in DOMAIN l /\ k[m] = l[m] /\ l[m] # i /\ l[m] \in DOMAIN T.slot
      BY <1>1, <1>17, <2>2
    <3>2. l[m] = p <=> m = Len(l)
      BY <1>1, <3>1 DEF p
    <3>3. At(k, m - 1) = At(l, m - 1)
      BY <1>1, <1>18, <3>1
    <3>4. At(k, m + 1) = IF m = Len(l) THEN i ELSE At(l, m + 1)
      BY <1>1, <1>18, <3>1
    <3> QED
      BY <1>2, <1>15, <3>1, <3>2, <3>3, <3>4
  <2> QED
    BY <2>1, <2>2
<1>23. ListedAs(W, k)
  BY <1>14, <1>17, <1>19, <1>20, <1>21, <1>22, ListedFrom
<1> QED
  BY <1>8, <1>14, <1>16, <1>23

\* A slot that takes the place of another in the list stands where that one stood
\* (IterListReplaceNodeBy): moving an item to a free slot changes no order.
THEOREM Replacing ==
  ASSUME NEW T, IsTable(T), NEW l, ListedAs(T, l), NEW n \in DOMAIN l,
         NEW dst, HasLinks(T, dst), \A m \in DOMAIN l : l[m] # dst
  PROVE  /\ SameItems(T, IterListReplaceNodeBy(T, l[n], dst))
         /\ ListedAs(IterListReplaceNodeBy(T, l[n], dst), [l EXCEPT ![n] = dst])
<1> DEFINE p == At(l, n - 1)
           q == At(l, n + 1)
<1>1. /\ l \in Seq(DOMAIN T.slot) /\ Len(l) \in Nat /\ DOMAIN l = 1..Len(l)
      /\ \A m \in DOMAIN l : At(l, m) = l[m] /\ l[m] # None /\ HasLinks(T, l[m])
      /\ \A m \in Int \ DOMAIN l : At(l, m) = None
      /\ \A m \in DOMAIN l, j \in Int : l[m] = At(l, j) => m = j
  BY Places
<1>2. /\ T.head = At(l, 1) /\ T.tail = At(l, Len(l))
      /\ \A m \in DOMAIN l : T.slot[l[m]].prev = At(l, m - 1) /\ T.slot[l[m]].next = At(l, m + 1)
  BY DEF ListedAs
<1>3. dst \in DOMAIN T.slot /\ dst # None
  BY SlotsAreNotNone DEF HasLinks
<1>4. (p = None \/ HasLinks(T, p)) /\ p # dst /\ (q = None \/ HasLinks(T, q)) /\ q # dst
  BY <1>1, <1>3
<1>5. PICK U : U = [T EXCEPT !.slot[dst].prev = p, !.slot[dst].next = q]
  OBVIOUS
<1>6. PICK V : V = Joined(U, p, dst)
  OBVIOUS
<1>7. PICK W : W = Joined(V, dst, q)
  OBVIOUS
<1>8. T.slot[l[n]].prev = p /\ T.slot[l[n]].next = q
  BY <1>2
<1> HIDE DEF p, q
<1>9. Placed(T, U, dst, p, q)
  BY <1>5, PlacedLinks
<1>10. /\ IsTable(U) /\ HasLinks(U, dst)
       /\ (p = None \/ HasLinks(U, p)) /\ (q = None \/ HasLinks(U, q))
  BY <1>4, <1>9 DEF Placed, SameItems, HasLinks
<1>11. Linked(U, V, p, dst)
  BY <1>6, <1>10, JoinedIsLinked
<1>12. IsTable(V) /\ HasLinks(V, dst) /\ (q = None \/ HasLinks(V, q))
  BY <1>10, <1>11 DEF Linked, SameItems, HasLinks
<1>13. Linked(V, W, dst, q)
  BY <1>7, <1>12, JoinedIsLinked
<1>14. SameItems(T, W) /\ DOMAIN U.slot = DOMAIN T.slot /\ DOMAIN V.slot = DOMAIN T.slot
  BY <1>9, <1>11, <1>13, SameItemsTrans DEF Placed, Linked, SameItems
<1>15. /\ W.head = IF p = None THEN dst ELSE T.head
       /\ W.tail = IF q = None THEN dst ELSE T.tail
       /\ W.slot[dst].prev = p /\ W.slot[dst].next = q
       /\ \A j \in DOMAIN T.slot \ {dst} :
            /\ W.slot[j].prev = IF j = q THEN dst ELSE T.slot[j].prev
            /\ W.slot[j].next = IF j = p THEN dst ELSE T.slot[j].next
  BY <1>3, <1>4, <1>9, <1>11, <1>13, <1>14, SlotsAreNotNone DEF Placed, Linked
<1>16. PICK k : k = [l EXCEPT ![n] = dst]
  OBVIOUS
<1>17. /\ k \in Seq(DOMAIN T.slot) /\ Len(k) = Len(l) /\ DOMAIN k = DOMAIN l
       /\ \A m \in DOMAIN l : k[m] = IF m = n THEN dst ELSE l[m]
  <2>1. DOMAIN k = DOMAIN l /\ \A m \in DOMAIN l : k[m] = IF m = n THEN dst ELSE l[m]
    BY <1>16
  <2>2. k \in Seq(DOMAIN T.slot)
    BY <1>1, <1>3, <1>16, ReplacedIsSeq
  <2>3. Len(k) = Len(l)
    BY <1>1, <2>1, <2>2
  <2> QED
    BY <2>1, <2>2, <2>3
<1>18. \A j \in Int : At(k, j) = IF j = n THEN dst ELSE At(l, j)
  BY <1>17 DEF At
<1>19. \A m \in DOMAIN k : HasLinks(T, k[m])
  BY <1>1, <1>17
<1>20. \A i, j \in DOMAIN k : k[i] = k[j] => i = j
  BY <1>1, <1>17
<1>21. W.head = At(k, 1) /\ W.tail = At(k, Len(k))
  <2>1. (p = None <=> n = 1) /\ (q = None <=> n = Len(l))
    BY <1>1 DEF p, q
  <2> QED
    BY <1>1, <1>2, <1>15, <1>17, <1>18, <2>1
<1>22. ASSUME NEW m \in DOMAIN k
       PROVE  W.slot[k[m]].prev = At(k, m - 1) /\ W.slot[k[m]].next = At(k, m + 1)
  <2>0. m \in DOMAIN l /\ m \in Int /\ m - 1 \in Int /\ m + 1 \in Int /\ n \in Int
    BY <1>1, <1>17
  <2>1. CASE m = n
    <3>1. At(k, m - 1) = p /\ At(k, m + 1) = q
      BY <1>18, <2>0, <2>1 DEF p, q
    <3> QED
      BY <1>15, <1>17, <2>0, <2>1, <3>1
  <2>2. CASE m # n
    <3>1. k[m] = l[m] /\ l[m] # dst /\ l[m] \in DOMAIN T.slot
      BY <1>1, <1>17, <2>0, <2>2
    <3>2. (l[m] = p <=> m + 1 = n) /\ (l[m] = q <=> m - 1 = n)
      BY <1>1, <2>0 DEF p, q
    <3>3. /\ At(k, m - 1) = IF m - 1 = n THEN dst ELSE At(l, m - 1)
          /\ At(k, m + 1) = IF m + 1 = n THEN dst ELSE At(l, m + 1)
      BY <1>18, <2>0
    <3> QED
      BY <1>2, <1>15, <2>0, <3>1, <3>2, <3>3
  <2> QED
    BY <2>1, <2>2
<1>23. ListedAs(W, k)
  BY <1>14, <1>17, <1>19, <1>20, <1>21, <1>22, ListedFrom
<1>24. IterListReplaceNodeBy(T, l[n], dst) = W
  BY <1>5, <1>6, <1>7, <1>8 DEF IterListReplaceNodeBy
<1> QED
  BY <1>14, <1>16, <1>23, <1>24

-----------------------------------------------------------------------------
(* The small map.                                                          *)

OncePerKey(s) == \A i, j \in DOMAIN s : s[i][1] = s[j][1] => i = j

\* A small map between calls: pairs with a key each of its own, within the slots there are.
IsSmall(m) ==
    /\ m = Small(m.slots, m.items)
    /\ m.items \in Seq(Key \X Value) /\ OncePerKey(m.items)
    /\ m.slots \in 0..kMaxSize /\ Len(m.items) <= m.slots

\* The place of a key that is there holds the key.
LEMMA PlaceOfKey ==
  ASSUME NEW s, NEW k \in Dict!Keys(s)
  PROVE  Dict!Place(s, k) \in DOMAIN s /\ s[Dict!Place(s, k)][1] = k
BY DEF Dict!Keys, Dict!Place

\* Searching from the start finds the one place of the key, or none.
LEMMA FoundPlace ==
  ASSUME NEW m, m.items \in Seq(Key \X Value), OncePerKey(m.items), NEW k
  PROVE  SmallFind(m, k) = IF k \in Dict!Keys(m.items) THEN Dict!Place(m.items, k) ELSE 0
<1>1. PICK s : s = m.items
  OBVIOUS
<1>2. Len(s) \in Nat /\ DOMAIN s = 1..Len(s) /\ OncePerKey(s)
  BY <1>1
<1>3. PICK I : I = {i \in 1..Len(s) : s[i][1] = k}
  OBVIOUS
<1>4. SmallFind(m, k) = IF I # {} THEN Min(I) ELSE 0
  BY <1>1, <1>3 DEF SmallFind, SelectInSeq
<1>5. CASE k \in Dict!Keys(s)
  <2>1. Dict!Place(s, k) \in DOMAIN s /\ s[Dict!Place(s, k)][1] = k
    BY <1>5, PlaceOfKey
  <2>2. I = {Dict!Place(s, k)} /\ Dict!Place(s, k) \in Nat
    BY <1>2, <1>3, <2>1 DEF OncePerKey
  <2>3. Min(I) = Dict!Place(s, k)
    BY <2>2 DEF Min
  <2> QED
    BY <1>1, <1>4, <1>5, <2>2, <2>3
<1>6. CASE k \notin Dict!Keys(s)
  BY <1>1, <1>2, <1>3, <1>4, <1>6 DEF Dict!Keys
<1> QED
  BY <1>1, <1>5, <1>6

\* Keys stay apart when a new one is appended, a value is written, or a pair is removed.
LEMMA OnceAfterAppend ==
  ASSUME NEW s \in Seq(Key \X Value), OncePerKey(s), NEW k \in Key, NEW v \in Value, k \notin Dict!Keys(s)
  PROVE  Append(s, <<k, v>>) \in Seq(Key \X Value) /\ OncePerKey(Append(s, <<k, v>>))
<1>1. PICK t : t = Append(s, <<k, v>>)
  OBVIOUS
<1>2. /\ t \in Seq(Key \X Value) /\ DOMAIN t = 1..(Len(s) + 1) /\ DOMAIN s = 1..Len(s) /\ Len(s) \in Nat
      /\ t[Len(s) + 1] = <<k, v>> /\ \A i \in DOMAIN s : t[i] = s[i]
  BY <1>1
<1>3. \A i \in DOMAIN s : s[i][1] # k
  BY DEF Dict!Keys
<1>4. ASSUME NEW i \in DOMAIN t, NEW j \in DOMAIN t, t[i][1] = t[j][1]
      PROVE  i = j
  <2>1. \A h \in DOMAIN t : h \in DOMAIN s \/ h = Len(s) + 1
    BY <1>2
  <2>2. t[Len(s) + 1][1] = k
    BY <1>2
  <2> QED
    BY <1>2, <1>3, <1>4, <2>1, <2>2 DEF OncePerKey
<1> QED
  BY <1>1, <1>2, <1>4 DEF OncePerKey

LEMMA OnceAfterWrite ==
  ASSUME NEW s \in Seq(Key \X Value), OncePerKey(s), NEW t \in Seq(Key \X Value),
         DOMAIN t = DOMAIN s, \A i \in DOMAIN s : t[i][1] = s[i][1]
  PROVE  Len(t) = Len(s) /\ OncePerKey(t)
<1>1. Len(t) = Len(s)
  OBVIOUS
<1> QED
  BY <1>1 DEF OncePerKey

LEMMA OnceAfterRemoval ==
  ASSUME NEW s \in Seq(Key \X Value), OncePerKey(s), NEW n \in DOMAIN s
  PROVE  /\ RemoveAt(s, n) \in Seq(Key \X Value) /\ Len(RemoveAt(s, n)) = Len(s) - 1
         /\ OncePerKey(RemoveAt(s, n))
<1>1. PICK t : t = RemoveAt(s, n)
  OBVIOUS
<1>2. /\ t \in Seq(Key \X Value) /\ Len(t) = Len(s) - 1
      /\ \A m \in 1..(Len(s) - 1) : t[m] = IF m < n THEN s[m] ELSE s[m + 1]
  BY <1>1, RemovedAt
<1>3. Len(s) \in Nat /\ DOMAIN s = 1..Len(s) /\ DOMAIN t = 1..(Len(s) - 1) /\ n \in Int
  BY <1>2
<1>4. ASSUME NEW i \in DOMAIN t, NEW j \in DOMAIN t, t[i][1] = t[j][1]
      PROVE  i = j
  <2>1. PICK a : a = IF i < n THEN i ELSE i + 1
    OBVIOUS
  <2>2. PICK b : b = IF j < n THEN j ELSE j + 1
    OBVIOUS
  <2>3. a \in DOMAIN s /\ t[i] = s[a] /\ b \in DOMAIN s /\ t[j] = s[b]
    BY <1>2, <1>3, <2>1, <2>2
  <2>4. a = b
    BY <1>4, <2>3 DEF OncePerKey
  <2> QED
    BY <1>3, <2>1, <2>2, <2>4
<1> QED
  BY <1>1, <1>2, <1>4 DEF OncePerKey

\* A small map with other items.
LEMMA OtherItems ==
  ASSUME NEW m, NEW slots, NEW s, m = Small(slots, s), NEW t
  PROVE  [m EXCEPT !.items = t] = Small(slots, t)
BY DEF Small

\* The room a small map has after growing: one more than it holds, and no more than a small map may have.
LEMMA NextSize ==
  ASSUME NEW slots \in 0..kMaxSize, slots < kMaxSize
  PROVE  LET twice == IF 2 * slots > kInitSize THEN 2 * slots ELSE kInitSize
             next == IF twice < kMaxSize THEN twice ELSE kMaxSize
         IN  next \in 0..kMaxSize /\ slots + 1 <= next
BY SmallSizeAssumption

\* Setting a key of a small map that has room, or may still grow, is setting it in the
\* dictionary: the pair of the key changes where it stands, or a new one comes last, in at
\* most kMaxSize slots (SmallMapObj::InsertMaybeReHash).
THEOREM SmallSetIsDictionarySet ==
  ASSUME NEW m, IsSmall(m), NEW k \in Key, NEW v \in Value,
         m.slots < kMaxSize \/ Len(m.items) < m.slots
  PROVE  LET n == SmallInsertMaybeReHash(m, <<k, v>>)
         IN  IsSmall(n) /\ n.items \in Dict!AfterSet(m.items, k, v)
<1>1. PICK s : s = m.items
  OBVIOUS
<1>2. /\ s \in Seq(Key \X Value) /\ OncePerKey(s) /\ m.slots \in 0..kMaxSize /\ Len(s) <= m.slots
      /\ m = Small(m.slots, s) /\ Len(s) \in Nat
  BY <1>1 DEF IsSmall
<1>3. PICK n : n = SmallInsertMaybeReHash(m, <<k, v>>)
  OBVIOUS
<1>4. SmallFind(m, k) = IF k \in Dict!Keys(s) THEN Dict!Place(s, k) ELSE 0
  BY <1>1, <1>2, FoundPlace
<1>5. CASE k \in Dict!Keys(s)
  <2>1. PICK i : i = Dict!Place(s, k)
    OBVIOUS
  <2>2. i \in DOMAIN s /\ s[i][1] = k /\ i # 0
    BY <1>2, <1>5, <2>1, PlaceOfKey
  <2>3. n = [m EXCEPT !.items[i] = <<@[1], v>>]
    BY <1>3, <1>4, <1>5, <2>1, <2>2 DEF SmallInsertMaybeReHash
  <2>4. PICK t : t = [s EXCEPT ![i] = <<k, v>>]
    OBVIOUS
  <2>5. t \in Seq(Key \X Value) /\ Len(t) = Len(s) /\ OncePerKey(t)
    <3>1. t \in Seq(Key \X Value)
      <4>1. <<k, v>> \in Key \X Value
        OBVIOUS
      <4> QED
        BY <1>2, <2>2, <2>4, <4>1, ReplacedIsSeq
    <3>2. DOMAIN t = DOMAIN s /\ \A j \in DOMAIN s : t[j][1] = s[j][1]
      BY <2>2, <2>4
    <3> QED
      BY <1>2, <3>1, <3>2, OnceAfterWrite
  <2>6. n = [m EXCEPT !.items = t]
    BY <1>1, <2>2, <2>3, <2>4
  <2>7. n = Small(m.slots, t)
    BY <1>2, <2>6, OtherItems
  <2>8. n.items = t /\ n.slots = m.slots /\ n = Small(n.slots, n.items)
    BY <2>7 DEF Small
  <2>9. t \in Dict!AfterSet(s, k, v)
    BY <1>5, <2>1, <2>4 DEF Dict!AfterSet
  <2> QED
    BY <1>1, <1>2, <1>3, <2>5, <2>8, <2>9 DEF IsSmall
<1>6. CASE k \notin Dict!Keys(s)
  <2>1. PICK t : t = Append(s, <<k, v>>)
    OBVIOUS
  <2>2. t \in Seq(Key \X Value) /\ OncePerKey(t) /\ Len(t) = Len(s) + 1
    BY <1>2, <1>6, <2>1, OnceAfterAppend
  <2>3. t \in Dict!AfterSet(s, k, v)
    BY <1>6, <2>1 DEF Dict!AfterSet
  <2>4. CASE Len(s) < m.slots
    <3>1. n = [m EXCEPT !.items = t]
      BY <1>1, <1>3, <1>4, <1>6, <2>1, <2>4 DEF SmallInsertMaybeReHash
    <3>2. n = Small(m.slots, t)
      BY <1>2, <3>1, OtherItems
    <3>3. n.items = t /\ n.slots = m.slots /\ n = Small(n.slots, n.items)
      BY <3>2 DEF Small
    <3>4. Len(t) <= m.slots
      BY <1>2, <2>2, <2>4
    <3> QED
      BY <1>1, <1>2, <1>3, <2>2, <2>3, <3>3, <3>4 DEF IsSmall
  <2>5. CASE ~(Len(s) < m.slots)
    <3>1. m.slots < kMaxSize
      BY <1>1, <2>5
    <3> DEFINE twice == IF 2 * m.slots > kInitSize THEN 2 * m.slots ELSE kInitSize
               next == IF twice < kMaxSize THEN twice ELSE kMaxSize
    <3>2. next \in 0..kMaxSize /\ m.slots + 1 <= next
      BY <1>2, <3>1, NextSize
    <3>3. n = Small(next, t)
      BY <1>1, <1>3, <1>4, <1>6, <2>1, <2>5 DEF SmallInsertMaybeReHash
    <3> HIDE DEF next
    <3>4. n.items = t /\ n.slots = next /\ n = Small(n.slots, n.items)
      BY <3>3 DEF Small
    <3>5. Len(t) <= next
      BY <1>2, <2>2, <3>2
    <3> QED
      BY <1>1, <1>3, <2>2, <2>3, <3>2, <3>4, <3>5 DEF IsSmall
  <2> QED
    BY <2>4, <2>5
<1> QED
  BY <1>5, <1>6

\* Erasing a key of a small map is erasing it in the dictionary: the pairs after it move up in
\* their order, and nothing changes when the key is not there (SmallMapObj::Erase).
THEOREM SmallEraseIsDictionaryErase ==
  ASSUME NEW m, IsSmall(m), NEW k \in Key
  PROVE  LET n == SmallErase(m, k)
         IN  /\ IsSmall(n)
             /\ n.items = IF k \in Dict!Keys(m.items) THEN Dict!Without(m.items, k) ELSE m.items
<1>1. PICK s : s = m.items
  OBVIOUS
<1>2. /\ s \in Seq(Key \X Value) /\ OncePerKey(s) /\ m.slots \in 0..kMaxSize /\ Len(s) <= m.slots
      /\ m = Small(m.slots, s) /\ Len(s) \in Nat
  BY <1>1 DEF IsSmall
<1>3. PICK n : n = SmallErase(m, k)
  OBVIOUS
<1>4. SmallFind(m, k) = IF k \in Dict!Keys(s) THEN Dict!Place(s, k) ELSE 0
  BY <1>1, <1>2, FoundPlace
<1>5. CASE k \in Dict!Keys(s)
  <2>1. PICK i : i = Dict!Place(s, k)
    OBVIOUS
  <2>2. i \in DOMAIN s /\ i # 0
    BY <1>2, <1>5, <2>1, PlaceOfKey
  <2>3. n = [m EXCEPT !.items = RemoveAt(@, i)]
    BY <1>3, <1>4, <1>5, <2>1, <2>2 DEF SmallErase
  <2>4. PICK t : t = RemoveAt(s, i)
    OBVIOUS
  <2>5. t \in Seq(Key \X Value) /\ Len(t) = Len(s) - 1 /\ OncePerKey(t)
    BY <1>2, <2>2, <2>4, OnceAfterRemoval
  <2>6. n = Small(m.slots, t)
    BY <1>1, <1>2, <2>3, <2>4 DEF Small
  <2>7. n.items = t /\ n.slots = m.slots /\ n = Small(n.slots, n.items)
    BY <2>6 DEF Small
  <2>8. Len(t) <= m.slots
    BY <1>2, <2>5
  <2>9. t = Dict!Without(s, k)
    BY <2>1, <2>4 DEF Dict!Without, Dict!RemoveAt, RemoveAt, Dict!Place
  <2> QED
    BY <1>1, <1>2, <1>3, <1>5, <2>5, <2>7, <2>8, <2>9 DEF IsSmall
<1>6. CASE k \notin Dict!Keys(s)
  BY <1>1, <1>3, <1>4, <1>6 DEF SmallErase
<1> QED
  BY <1>5, <1>6

\* The copy that a change of a shared small map is made on has the same entries, with no room
\* to spare; the empty map is a small map too.
THEOREM SmallCopyKeepsEntries ==
  /\ IsSmall(SmallEmpty) /\ SmallEmpty.items = <<>>
  /\ \A m : IsSmall(m) => IsSmall(SmallCopyFrom(m)) /\ SmallCopyFrom(m).items = m.items
<1>1. IsSmall(SmallEmpty) /\ SmallEmpty.items = <<>>
  BY SmallSizeAssumption DEF SmallEmpty, Small, IsSmall, OncePerKey
<1>2. ASSUME NEW m, IsSmall(m)
      PROVE  IsSmall(SmallCopyFrom(m)) /\ SmallCopyFrom(m).items = m.items
  <2>1. Len(m.items) \in 0..kMaxSize
    BY <1>2, SmallSizeAssumption DEF IsSmall
  <2> QED
    BY <1>2, <2>1 DEF SmallCopyFrom, Small, IsSmall
<1> QED
  BY <1>1, <1>2

(* Walks.                                                                  *)

\* A nonempty set of numbers has a smallest one.
LEMMA SmallestNumber ==
  ASSUME NEW S \in SUBSET Nat, S # {}
  PROVE  \E n \in S : \A i \in S : n <= i
<1>1. PICK n \in S : \A i \in S : ~ (<<i, n>> \in OpToRel(<, Nat))
  BY NatLessThanWellFounded, WFMin
<1>2. \A i \in S : ~ (i < n)
  BY <1>1 DEF OpToRel
<1> QED
  BY <1>2

\* A list of different slots is no longer than there are slots.
LEMMA FewSlots ==
  ASSUME NEW N \in Nat, NEW w \in Seq(0..N - 1), \A m, n \in DOMAIN w : w[m] = w[n] => m = n
  PROVE  Len(w) <= N
<1>1. Len(w) \in Nat /\ w \in [1..Len(w) -> 0..N - 1] /\ DOMAIN w = 1..Len(w)
  OBVIOUS
<1>2. IsFiniteSet(1..Len(w)) /\ Cardinality(1..Len(w)) = Len(w)
  <2>1. 1 \in Int /\ Len(w) \in Int
    BY <1>1
  <2> QED
    <3>1. PICK b : b = Len(w)
      OBVIOUS
    <3>2. IsFiniteSet(1..b) /\ Cardinality(1..b) = IF 1 > b THEN 0 ELSE b - 1 + 1
      BY <2>1, <3>1, FS_Interval
    <3> QED
      BY <1>1, <3>1, <3>2
<1>3. IsFiniteSet(0..N - 1) /\ Cardinality(0..N - 1) = N
  <2>1. N - 1 \in Int
    OBVIOUS
  <2> QED
    BY <2>1, FS_Interval
<1>4. SUFFICES ASSUME N < Len(w) PROVE FALSE
  BY <1>1
<1>5. \E x, y \in 1..Len(w) : x # y /\ w[x] = w[y]
  <2> DEFINE S == 1..Len(w)
             T == 0..N - 1
  <2>1. IsFiniteSet(S) /\ IsFiniteSet(T) /\ Cardinality(T) < Cardinality(S) /\ w \in [S -> T]
    BY <1>1, <1>2, <1>3, <1>4
  <2> HIDE DEF S, T
  <2>2. \E x, y \in S : x # y /\ w[x] = w[y]
    BY <2>1, FS_PigeonHole
  <2> QED
    BY <2>2 DEF S
<1> QED
  BY <1>1, <1>5

\* What a walk of at most n steps passes from each place.
WalkEqs(after, n, f) == f = [m \in 0 .. n |-> [j \in DOMAIN after |->
    IF m = 0 \/ after[j] = None THEN <<j>> ELSE <<j>> \o f[m - 1][after[j]]]]

\* The walks of at most m steps, from those of fewer.
LEMMA WalkEqsAt ==
  ASSUME NEW after, NEW n \in Nat, NEW f, WalkEqs(after, n, f), NEW m \in 0..n, NEW j \in DOMAIN after
  PROVE  f[m][j] = IF m = 0 \/ after[j] = None THEN <<j>> ELSE <<j>> \o f[m - 1][after[j]]
<1>1. f[m] = [i \in DOMAIN after |-> IF m = 0 \/ after[i] = None THEN <<i>> ELSE <<i>> \o f[m - 1][after[i]]]
  BY DEF WalkEqs
<1> QED
  BY <1>1, Zenon

\* There are such walks, for any number of steps.
LEMMA WalkEqsHold ==
  ASSUME NEW after, NEW n \in Nat
  PROVE  \E f : WalkEqs(after, n, f)
<1> DEFINE Bad == {m \in Nat : ~ \E f : WalkEqs(after, m, f)}
<1>1. SUFFICES ASSUME Bad # {} PROVE FALSE
  OBVIOUS
<1>2. PICK m \in Bad : \A i \in Bad : m <= i
  BY <1>1, SmallestNumber
<1>3. m # 0
  <2>1. WalkEqs(after, 0, [i \in 0..0 |-> [j \in DOMAIN after |-> <<j>>]])
    BY DEF WalkEqs
  <2> QED
    BY <1>2, <2>1
<1>4. m - 1 \in Nat /\ m \in Nat
  BY <1>2, <1>3
<1>5. m - 1 \notin Bad
  BY <1>2, <1>4
<1>6. PICK f : WalkEqs(after, m - 1, f)
  BY <1>4, <1>5
<1>7. PICK last : last = [j \in DOMAIN after |-> IF m = 0 \/ after[j] = None THEN <<j>> ELSE <<j>> \o f[m - 1][after[j]]]
  OBVIOUS
<1>8. PICK g : g = [i \in 0..m |-> IF i = m THEN last ELSE f[i]]
  OBVIOUS
<1>9. \A i \in 0..m : i # m => g[i] = f[i]
  BY <1>8
<1>10. ASSUME NEW i \in 0..m
       PROVE  g[i] = [j \in DOMAIN after |-> IF i = 0 \/ after[j] = None THEN <<j>> ELSE <<j>> \o g[i - 1][after[j]]]
  <2>1. CASE i = m
    <3>1. g[i] = last /\ g[i - 1] = f[i - 1]
      BY <1>3, <1>4, <1>8, <1>9, <2>1
    <3> QED
      BY <1>7, <2>1, <3>1, Zenon
  <2>2. CASE i # m
    <3>1. i \in 0..m - 1
      BY <1>4, <2>2
    <3>2. f[i] = [j \in DOMAIN after |-> IF i = 0 \/ after[j] = None THEN <<j>> ELSE <<j>> \o f[i - 1][after[j]]]
      BY <3>1, <1>6 DEF WalkEqs
    <3>3. i # 0 => g[i - 1] = f[i - 1]
      BY <1>4, <1>9, <3>1
    <3>4. g[i] = f[i]
      BY <1>9, <2>2
    <3>5. CASE i = 0
      BY <3>2, <3>4, <3>5, Zenon
    <3>6. CASE i # 0
      BY <3>2, <3>3, <3>4, <3>6, Zenon
    <3> QED
      BY <3>5, <3>6
  <2> QED
    BY <2>1, <2>2
<1>11. DOMAIN g = 0..m /\ g = [i \in 0..m |-> g[i]]
  BY <1>8
<1>12. WalkEqs(after, m, g)
  BY <1>10, <1>11, Zenon DEF WalkEqs
<1> QED
  BY <1>2, <1>12

\* Walk takes its walks from them.
LEMMA WalkIs ==
  ASSUME NEW after, NEW n \in Nat, NEW i \in DOMAIN after
  PROVE  \E f : WalkEqs(after, n, f) /\ Walk(after, n, i) = f[n][i]
<1>1. PICK g : g = CHOOSE f : WalkEqs(after, n, f)
  OBVIOUS
<1>2. \E f : WalkEqs(after, n, f)
  BY WalkEqsHold
<1>3. WalkEqs(after, n, g)
  BY <1>1, <1>2, Zenon
<1>4. Walk(after, n, i) = g[n][i]
  BY <1>1 DEF Walk, WalkEqs
<1> QED
  BY <1>3, <1>4

\* A sequence whose elements are in a smaller set.
LEMMA SeqWithin ==
  ASSUME NEW R, NEW w \in Seq(R), NEW S, \A p \in 1..Len(w) : w[p] \in S
  PROVE  w \in Seq(S)
<1>1. Len(w) \in Nat /\ DOMAIN w = 1..Len(w)
  OBVIOUS
<1>2. w \in [1..Len(w) -> S]
  OBVIOUS
<1> QED
  BY <1>1, <1>2

\* Places with a different rank each are different.
LEMMA ByRank ==
  ASSUME NEW n \in Nat, NEW w, NEW d, NEW e \in Nat, \A p \in 1..n : d[w[p]] = e + (p - 1)
  PROVE  \A p, q \in 1..n : w[p] = w[q] => p = q
<1> TAKE p \in 1..n, q \in 1..n
<1> HAVE w[p] = w[q]
<1>1. e + (p - 1) = e + (q - 1)
  BY Zenon
<1> QED
  BY <1>1

\* What stands where once an element is put before a sequence.
LEMMA ConsSeq ==
  ASSUME NEW S, NEW i \in S, NEW v \in Seq(S)
  PROVE  /\ <<i>> \o v \in Seq(S) /\ Len(<<i>> \o v) = Len(v) + 1 /\ (<<i>> \o v)[1] = i
         /\ \A p \in 1..Len(v) : (<<i>> \o v)[p + 1] = v[p]
<1>1. PICK u : u = <<i>>
  OBVIOUS
<1>2. u \in Seq(S) /\ Len(u) = 1 /\ u[1] = i
  BY <1>1
<1>3. PICK w : w = u \o v
  OBVIOUS
<1>4. /\ w \in Seq(S) /\ Len(w) = Len(u) + Len(v)
      /\ \A p \in 1..Len(u) + Len(v) : w[p] = IF p <= Len(u) THEN u[p] ELSE v[p - Len(u)]
  BY <1>2, <1>3, ConcatProperties, Zenon
<1>5. Len(v) \in Nat
  OBVIOUS
<1>6. Len(w) = Len(v) + 1 /\ w[1] = i
  BY <1>2, <1>4, <1>5
<1>7. ASSUME NEW p \in 1..Len(v) PROVE w[p + 1] = v[p]
  <2>1. p + 1 \in 1..Len(u) + Len(v) /\ ~(p + 1 <= Len(u)) /\ (p + 1) - Len(u) = p
    BY <1>2, <1>5
  <2> QED
    BY <1>4, <2>1
<1>8. <<i>> \o v = w
  BY <1>1, <1>3, Zenon
<1> QED BY <1>4, <1>6, <1>7, <1>8, Zenon

\* Each place of S is followed by another one of S or by none.
Steps(after, S) == S \subseteq DOMAIN after /\ \A j \in S : after[j] # None => after[j] \in S

\* w is a walk through S of at most n steps that starts at i.
Walked(after, S, n, i, w) ==
    /\ w \in Seq(S) /\ Len(w) \in 1..n + 1 /\ w[1] = i
    /\ \A p \in 1..Len(w) - 1 : after[w[p]] # None /\ w[p + 1] = after[w[p]]
    /\ after[w[Len(w)]] = None \/ Len(w) = n + 1

\* A walk with a step before it.
LEMMA WalkedOn ==
  ASSUME NEW after, NEW S, NEW n \in Nat, NEW j, NEW v, Walked(after, S, n, j, v),
         NEW i \in S, after[i] = j, j # None
  PROVE  Walked(after, S, n + 1, i, <<i>> \o v)
<1>1. /\ v \in Seq(S) /\ Len(v) \in 1..n + 1 /\ v[1] = j
      /\ \A p \in 1..Len(v) - 1 : after[v[p]] # None /\ v[p + 1] = after[v[p]]
      /\ after[v[Len(v)]] = None \/ Len(v) = n + 1
  BY DEF Walked
<1>2. PICK w : w = <<i>> \o v
  OBVIOUS
<1>4. w \in Seq(S) /\ Len(w) = Len(v) + 1 /\ w[1] = i /\ \A p \in 1..Len(v) : w[p + 1] = v[p]
  BY <1>1, <1>2, ConsSeq
<1>5. ASSUME NEW p \in 1..Len(w) - 1
      PROVE  after[w[p]] # None /\ w[p + 1] = after[w[p]]
  <2>1. CASE p = 1
    BY <1>1, <1>4, <2>1
  <2>2. CASE p # 1
    <3>1. p - 1 \in 1..Len(v) - 1 /\ p - 1 \in 1..Len(v) /\ (p - 1) + 1 = p /\ p \in 1..Len(v)
      BY <1>1, <1>4, <2>2
    <3>2. w[p] = v[p - 1] /\ w[p + 1] = v[p] /\ v[(p - 1) + 1] = after[v[p - 1]] /\ after[v[p - 1]] # None
      BY <1>1, <1>4, <3>1
    <3> QED
      BY <3>1, <3>2
  <2> QED
    BY <2>1, <2>2
<1>6. w[Len(w)] = v[Len(v)] /\ Len(w) \in 1..(n + 1) + 1
  BY <1>1, <1>4
<1>7. after[w[Len(w)]] = None \/ Len(w) = (n + 1) + 1
  BY <1>1, <1>4, <1>6
<1> QED
  BY <1>2, <1>4, <1>5, <1>6, <1>7 DEF Walked

\* Walk goes from place to place and stops at the end, or once the steps are used up.
LEMMA WalkSteps ==
  ASSUME NEW after, NEW S, Steps(after, S), NEW n \in Nat, NEW i \in S
  PROVE  Walked(after, S, n, i, Walk(after, n, i))
<1>1. PICK f : WalkEqs(after, n, f) /\ Walk(after, n, i) = f[n][i]
  BY WalkIs DEF Steps
<1> DEFINE Bad == {m \in Nat : m <= n /\ \E j \in S : ~ Walked(after, S, m, j, f[m][j])}
<1>2. SUFFICES ASSUME Bad # {} PROVE FALSE
  <2>1. Bad = {} => \A j \in S : Walked(after, S, n, j, f[n][j])
    OBVIOUS
  <2> QED
    BY <1>1, <2>1
<1>3. PICK m \in Bad : \A k \in Bad : m <= k
  BY <1>2, SmallestNumber
<1>4. PICK j \in S : ~ Walked(after, S, m, j, f[m][j])
  BY <1>3
<1>5. m \in Nat /\ m \in 0..n
  BY <1>3
<1>6. f[m][j] = IF m = 0 \/ after[j] = None THEN <<j>> ELSE <<j>> \o f[m - 1][after[j]]
  BY <1>5, <1>1, WalkEqsAt DEF Steps
<1>7. CASE m = 0 \/ after[j] = None
  <2>1. PICK u : u = <<j>>
    OBVIOUS
  <2>2. u \in Seq(S) /\ Len(u) = 1 /\ u[1] = j /\ f[m][j] = u
    BY <1>6, <1>7, <2>1
  <2>3. Walked(after, S, m, j, u)
    BY <1>5, <1>7, <2>2 DEF Walked
  <2> QED
    BY <1>4, <2>2, <2>3
<1>8. CASE m # 0 /\ after[j] # None
  <2>1. m - 1 \in Nat /\ m - 1 <= n /\ (m - 1) + 1 = m
    BY <1>5, <1>8
  <2>2. m - 1 \notin Bad
    BY <1>3, <1>5, <2>1
  <2>3. after[j] \in S
    BY <1>8 DEF Steps
  <2>4. Walked(after, S, m - 1, after[j], f[m - 1][after[j]])
    BY <2>1, <2>2, <2>3
  <2>5. Walked(after, S, (m - 1) + 1, j, <<j>> \o f[m - 1][after[j]])
    BY <1>8, <2>1, <2>4, WalkedOn
  <2>6. f[m][j] = <<j>> \o f[m - 1][after[j]]
    BY <1>6, <1>8
  <2> QED
    BY <1>4, <2>1, <2>5, <2>6
<1> QED
  BY <1>7, <1>8

\* Each step from a place in S leads to one of the next rank.
Ranked(after, S, d) ==
    \A j \in S : d[j] \in Nat /\ (after[j] # None => after[j] \in S /\ d[after[j]] = d[j] + 1)

\* w passes the places from i on in the order of their ranks, up to one with none after it.
WalkedOut(after, S, d, i, w) ==
    /\ w \in Seq(S) /\ Len(w) \in Nat \ {0} /\ w[1] = i
    /\ \A p \in 1..Len(w) : d[w[p]] = d[i] + (p - 1)
    /\ \A p \in 1..Len(w) - 1 : after[w[p]] # None /\ w[p + 1] = after[w[p]]
    /\ after[w[Len(w)]] = None

\* Where each step leads one place further in some order, the walk reaches an end, and passes
\* the places in that order.
LEMMA WalkToEnd ==
  ASSUME NEW N \in Nat, NEW after, DOMAIN after = 0..N - 1,
         NEW S \in SUBSET (0..N - 1), NEW d, Ranked(after, S, d),
         NEW i \in S, NEW w, w = Walk(after, N, i)
  PROVE  WalkedOut(after, S, d, i, w)
<1>1. Steps(after, S)
  BY DEF Steps, Ranked
<1>2. Walked(after, S, N, i, w)
  BY <1>1, WalkSteps
<1>3. /\ w \in Seq(S) /\ Len(w) \in 1..N + 1 /\ w[1] = i
      /\ \A p \in 1..Len(w) - 1 : after[w[p]] # None /\ w[p + 1] = after[w[p]]
      /\ after[w[Len(w)]] = None \/ Len(w) = N + 1
  BY <1>2 DEF Walked
<1> DEFINE Bad == {p \in Nat : p \in 1..Len(w) /\ ~(w[p] \in S /\ d[w[p]] = d[i] + (p - 1))}
<1>4. Bad = {}
  <2>1. SUFFICES ASSUME Bad # {} PROVE FALSE
    OBVIOUS
  <2>2. PICK p \in Bad : \A q \in Bad : p <= q
    BY <2>1, SmallestNumber
  <2>3. d[i] \in Nat
    BY DEF Ranked
  <2>4. p # 1
    BY <1>3, <2>2, <2>3 DEF Ranked
  <2>5. p - 1 \in 1..Len(w) - 1 /\ p - 1 \in Nat /\ p \in Nat /\ (p - 1) + 1 = p /\ p - 1 \in 1..Len(w)
    BY <1>3, <2>2, <2>4
  <2>6. p - 1 \notin Bad
    BY <2>2, <2>5
  <2>7. w[p - 1] \in S /\ d[w[p - 1]] = d[i] + ((p - 1) - 1)
    BY <2>5, <2>6
  <2>8. after[w[p - 1]] # None /\ w[p] = after[w[p - 1]]
    BY <1>3, <2>5
  <2>9. w[p] \in S /\ d[w[p]] = d[w[p - 1]] + 1
    BY <2>7, <2>8 DEF Ranked
  <2>10. d[w[p]] = d[i] + (p - 1)
    BY <2>3, <2>5, <2>7, <2>9
  <2> QED
    BY <2>2, <2>9, <2>10
<1>5. Len(w) \in Nat /\ DOMAIN w = 1..Len(w)
  BY <1>3
<1>6. \A p \in 1..Len(w) : w[p] \in S /\ d[w[p]] = d[i] + (p - 1)
  BY <1>4, <1>5
<1> HIDE DEF Bad
<1>7. w \in Seq(S)
  BY <1>3
<1>8. \A p, q \in 1..Len(w) : w[p] = w[q] => p = q
  <2>1. PICK e \in Nat : e = d[i]
    BY DEF Ranked
  <2>2. PICK n \in Nat : n = Len(w)
    BY <1>5
  <2>3. \A p \in 1..n : d[w[p]] = e + (p - 1)
    BY <1>6, <2>1, <2>2
  <2>4. \A p, q \in 1..n : w[p] = w[q] => p = q
    BY <2>3, ByRank
  <2> QED
    BY <2>2, <2>4
<1>9. Len(w) <= N
  <2>1. w \in Seq(0..N - 1)
    BY <1>3, SeqMonotonic
  <2> QED
    BY <1>5, <1>8, <2>1, FewSlots
<1>10. after[w[Len(w)]] = None
  <2>1. Len(w) # N + 1
    <3>1. \A n \in Nat : n <= N => n # N + 1
      OBVIOUS
    <3>2. Len(w) \in Nat
      BY <1>5
    <3> QED
      BY <1>9, <3>1, <3>2, Zenon
  <2>2. after[w[Len(w)]] = None \/ Len(w) = N + 1
    BY <1>2, Zenon DEF Walked
  <2> QED
    BY <2>1, <2>2, Zenon
<1>11. Len(w) \in Nat \ {0}
  <2>1. Len(w) >= 1
    BY <1>3
  <2> QED
    BY <1>5, <2>1
<1> QED
  BY <1>3, <1>6, <1>7, <1>10, <1>11, Zenon DEF WalkedOut

-----------------------------------------------------------------------------
(* Chains, apart from the table they are kept in: the slots K, the home of *)
(* the key in each, the slot it jumps to, and its rank on its chain.       *)

ChainSlot(home, on, d, K, i) ==
    /\ d[i] \in Nat /\ home[i] \in K /\ d[home[i]] = 0 /\ (d[i] = 0 <=> i = home[i])
    /\ d[i] # 0 => \E j \in K : on[j] = i
    /\ on[i] # None => on[i] \in K /\ home[on[i]] = home[i] /\ d[on[i]] = d[i] + 1
    /\ \A j \in K : home[j] = home[i] /\ d[j] = d[i] => j = i

Chained(home, on, d, K) == None \notin K /\ \A i \in K : ChainSlot(home, on, d, K, i)

\* What chains say of one of their slots.
LEMMA AtSlot ==
  ASSUME NEW home, NEW on, NEW d, NEW K, Chained(home, on, d, K), NEW i \in K
  PROVE  /\ ChainSlot(home, on, d, K, i) /\ i # None
         /\ d[i] \in Nat /\ home[i] \in K /\ (d[i] = 0 <=> i = home[i])
         /\ on[i] # None => on[i] \in K /\ home[on[i]] = home[i] /\ d[on[i]] = d[i] + 1
BY DEF Chained, ChainSlot

\* Before each slot but the first of a chain stands just one, of the rank before.
LEMMA SlotBefore ==
  ASSUME NEW home, NEW on, NEW d, NEW K, Chained(home, on, d, K), NEW i \in K, d[i] # 0
  PROVE  \E j \in K : on[j] = i /\ home[j] = home[i] /\ d[i] = d[j] + 1 /\ d[j] \in Nat
<1>1. ChainSlot(home, on, d, K, i) /\ i # None
  BY AtSlot
<1>2. PICK j \in K : on[j] = i
  BY <1>1 DEF ChainSlot
<1>3. on[j] # None => home[on[j]] = home[j] /\ d[on[j]] = d[j] + 1 /\ d[j] \in Nat
  BY AtSlot
<1> QED
  BY <1>1, <1>2, <1>3

\* No two slots of a chain have the same rank.
LEMMA SameRank ==
  ASSUME NEW home, NEW on, NEW d, NEW K, Chained(home, on, d, K), NEW i \in K, NEW j \in K,
         home[i] = home[j], d[i] = d[j]
  PROVE  i = j
<1>1. ChainSlot(home, on, d, K, i)
  BY AtSlot
<1> QED
  BY <1>1 DEF ChainSlot

\* w goes from i along its chain to the end.
Runs(home, on, d, K, i, w) ==
    /\ w \in Seq(K) /\ Len(w) \in Nat \ {0} /\ w[1] = i
    /\ \A p \in 1..Len(w) : w[p] \in K /\ home[w[p]] = home[i] /\ d[w[p]] = d[i] + (p - 1)
    /\ \A p \in 1..Len(w) - 1 : on[w[p]] # None /\ w[p + 1] = on[w[p]]
    /\ on[w[Len(w)]] = None

\* A run from the home of a slot comes by the slot.
LEMMA HomeReaches ==
  ASSUME NEW home, NEW on, NEW d, NEW K, Chained(home, on, d, K), NEW h \in K, d[h] = 0, home[h] = h,
         NEW w, Runs(home, on, d, K, h, w), NEW i \in K, home[i] = h
  PROVE  d[i] + 1 \in 1..Len(w) /\ w[d[i] + 1] = i
<1> DEFINE Bad == {n \in Nat : \E j \in K : home[j] = h /\ d[j] = n /\ ~(n + 1 \in 1..Len(w) /\ w[n + 1] = j)}
<1>1. SUFFICES ASSUME Bad # {} PROVE FALSE
  <2>1. d[i] \in Nat
    BY AtSlot
  <2> QED
    BY <2>1
<1>2. PICK n \in Bad : \A m \in Bad : n <= m
  BY <1>1, SmallestNumber
<1>3. PICK j \in K : home[j] = h /\ d[j] = n /\ ~(n + 1 \in 1..Len(w) /\ w[n + 1] = j)
  BY <1>2
<1>4. /\ Len(w) \in Nat \ {0} /\ w[1] = h
      /\ \A p \in 1..Len(w) - 1 : w[p + 1] = on[w[p]]
      /\ on[w[Len(w)]] = None
  BY DEF Runs
<1>5. n \in Nat
  BY <1>2
<1>6. n # 0
  <2>1. SUFFICES ASSUME n = 0 PROVE FALSE
    OBVIOUS
  <2>2. j = h
    BY <1>3, <2>1, AtSlot
  <2> QED
    BY <1>3, <1>4, <2>1, <2>2
<1>7. PICK b \in K : on[b] = j /\ home[b] = h /\ n = d[b] + 1 /\ d[b] \in Nat
  <2>1. d[j] # 0
    BY <1>3, <1>6
  <2>2. \E b \in K : on[b] = j /\ home[b] = home[j] /\ d[j] = d[b] + 1 /\ d[b] \in Nat
    BY <2>1, SlotBefore
  <2> QED
    BY <1>3, <2>2
<1>8. d[b] \notin Bad
  BY <1>2, <1>5, <1>7
<1>9. n \in 1..Len(w) /\ w[n] = b
  BY <1>7, <1>8
<1>10. j # None
  BY AtSlot
<1>11. n # Len(w)
  BY <1>4, <1>7, <1>9, <1>10
<1>12. n \in 1..Len(w) - 1 /\ n + 1 \in 1..Len(w)
  BY <1>4, <1>5, <1>9, <1>11
<1>13. w[n + 1] = on[w[n]]
  BY <1>4, <1>12
<1> QED
  BY <1>3, <1>7, <1>9, <1>12, <1>13

\* Two places of a run are different slots.
LEMMA RunIsInjective ==
  ASSUME NEW home, NEW on, NEW d, NEW K, Chained(home, on, d, K), NEW i \in K,
         NEW w, Runs(home, on, d, K, i, w)
  PROVE  \A p, q \in 1..Len(w) : w[p] = w[q] => p = q
<1>1. /\ Len(w) \in Nat
      /\ \A p \in 1..Len(w) : d[w[p]] = d[i] + (p - 1)
  BY DEF Runs
<1>2. d[i] \in Nat
  BY AtSlot
<1> QED
  BY <1>1, <1>2, ByRank

\* A free slot behind the last of a chain makes the chain longer.
Lengthened(home, on, K, w, e, home2, on2) ==
    /\ w \in K /\ on[w] = None /\ e \notin K /\ e # None
    /\ \A j \in K : home2[j] = home[j] /\ on2[j] = IF j = w THEN e ELSE on[j]
    /\ home2[e] = home[w] /\ on2[e] = None

\* A chain stays one when a slot is added to its end.
LEMMA ChainLonger ==
  ASSUME NEW home, NEW on, NEW d, NEW K, Chained(home, on, d, K),
         NEW w, NEW e, NEW home2, NEW on2, Lengthened(home, on, K, w, e, home2, on2)
  PROVE  \E d2 : Chained(home2, on2, d2, K \cup {e})
<1>0. /\ w \in K /\ on[w] = None /\ e \notin K /\ e # None
      /\ \A j \in K : home2[j] = home[j] /\ on2[j] = IF j = w THEN e ELSE on[j]
      /\ home2[e] = home[w] /\ on2[e] = None
  BY DEF Lengthened
<1>1. PICK d2 : d2 = [j \in K \cup {e} |-> IF j = e THEN d[w] + 1 ELSE d[j]]
  BY <1>0
<1>2. d2[e] = d[w] + 1 /\ \A j \in K : d2[j] = d[j]
  BY <1>0, <1>1
<1>3. d[w] \in Nat /\ home[w] \in K /\ (d[w] = 0 <=> w = home[w]) /\ d[home[w]] = 0
  BY <1>0, AtSlot DEF ChainSlot
<1>4. ChainSlot(home2, on2, d2, K \cup {e}, e)
  <2>1. d2[e] \in Nat /\ home2[e] \in K \cup {e} /\ d2[home2[e]] = 0 /\ d2[e] # 0 /\ e # home2[e]
    BY <1>0, <1>2, <1>3
  <2>2. \E j \in K \cup {e} : on2[j] = e
    BY <1>0
  <2>3. ASSUME NEW j \in K \cup {e}, home2[j] = home2[e], d2[j] = d2[e]
        PROVE  j = e
    <3>1. SUFFICES ASSUME j \in K PROVE FALSE
      BY <1>0
    <3>2. home[j] = home[w] /\ d[j] = d[w] + 1
      BY <1>0, <1>2, <2>3, <3>1
    <3>3. d[j] # 0
      BY <1>0, <1>3, <3>2
    <3>4. PICK b \in K : on[b] = j /\ home[b] = home[j] /\ d[j] = d[b] + 1 /\ d[b] \in Nat
      BY <1>0, <3>1, <3>3, SlotBefore
    <3>5. d[b] = d[w]
      BY <1>0, <1>3, <3>2, <3>4
    <3>6. b = w
      BY <1>0, <3>2, <3>4, <3>5, SameRank
    <3>7. j # None
      BY <1>0, <3>1, AtSlot
    <3> QED
      BY <1>0, <3>4, <3>6, <3>7
  <2> QED
    BY <1>0, <2>1, <2>2, <2>3 DEF ChainSlot
<1>5. ASSUME NEW i \in K
      PROVE  ChainSlot(home2, on2, d2, K \cup {e}, i)
  <2>1. ChainSlot(home, on, d, K, i) /\ i # None
    BY <1>0, AtSlot
  <2>2. /\ home2[i] = home[i] /\ d2[i] = d[i] /\ d2[home[i]] = d[home[i]]
        /\ on2[i] = IF i = w THEN e ELSE on[i]
    BY <1>0, <1>2, <2>1 DEF ChainSlot
  <2>3. d2[i] \in Nat /\ home2[i] \in K \cup {e} /\ d2[home2[i]] = 0 /\ (d2[i] = 0 <=> i = home2[i])
    BY <1>0, <2>1, <2>2 DEF ChainSlot
  <2>4. d2[i] # 0 => \E j \in K \cup {e} : on2[j] = i
    BY <1>0, <2>1, <2>2 DEF ChainSlot
  <2>5. on2[i] # None => on2[i] \in K \cup {e} /\ home2[on2[i]] = home2[i] /\ d2[on2[i]] = d2[i] + 1
    <3>1. CASE i = w
      BY <1>0, <1>2, <2>2, <3>1
    <3>2. CASE i # w
      BY <1>0, <1>2, <2>1, <2>2, <3>2 DEF ChainSlot
    <3> QED
      BY <1>0, <3>1, <3>2
  <2>6. ASSUME NEW j \in K \cup {e}, home2[j] = home2[i], d2[j] = d2[i]
        PROVE  j = i
    <3>1. CASE j = e
      BY <1>0, <1>4, <2>6, <3>1 DEF ChainSlot
    <3>2. CASE j # e
      <4>1. j \in K /\ home[j] = home[i] /\ d[j] = d[i]
        BY <1>0, <1>2, <2>2, <2>6, <3>2
      <4> QED
        BY <1>0, <4>1, SameRank
    <3> QED
      BY <1>0, <3>1, <3>2
  <2> QED
    BY <1>0, <2>3, <2>4, <2>5, <2>6 DEF ChainSlot
<1>6. None \notin K \cup {e}
  BY <1>0 DEF Chained
<1> QED
  BY <1>0, <1>4, <1>5, <1>6 DEF Chained

\* A free slot becomes the chain of a home of its own.
LEMMA ChainBegun ==
  ASSUME NEW home, NEW on, NEW d, NEW K, Chained(home, on, d, K),
         NEW h, h \notin K, h # None,
         NEW home2, NEW on2, \A j \in K : home2[j] = home[j] /\ on2[j] = on[j],
         home2[h] = h, on2[h] = None
  PROVE  \E d2 : Chained(home2, on2, d2, K \cup {h})
<1>1. PICK d2 : d2 = [j \in K \cup {h} |-> IF j = h THEN 0 ELSE d[j]]
  OBVIOUS
<1>2. d2[h] = 0 /\ \A j \in K : d2[j] = d[j]
  BY <1>1
<1>3. ChainSlot(home2, on2, d2, K \cup {h}, h)
  <2>1. ASSUME NEW j \in K, home2[j] = h
        PROVE  FALSE
    <3>1. home[j] \in K
      BY AtSlot
    <3> QED
      BY <2>1, <3>1
  <2> QED
    BY <1>2, <2>1 DEF ChainSlot
<1>4. ASSUME NEW i \in K
      PROVE  ChainSlot(home2, on2, d2, K \cup {h}, i)
  <2>1. ChainSlot(home, on, d, K, i) /\ i # None
    BY AtSlot
  <2>2. home2[i] = home[i] /\ d2[i] = d[i] /\ d2[home[i]] = d[home[i]] /\ on2[i] = on[i]
    BY <1>2, <2>1 DEF ChainSlot
  <2>3. d2[i] \in Nat /\ home2[i] \in K \cup {h} /\ d2[home2[i]] = 0 /\ (d2[i] = 0 <=> i = home2[i])
    BY <2>1, <2>2 DEF ChainSlot
  <2>4. d2[i] # 0 => \E j \in K \cup {h} : on2[j] = i
    BY <2>1, <2>2 DEF ChainSlot
  <2>5. on2[i] # None => on2[i] \in K \cup {h} /\ home2[on2[i]] = home2[i] /\ d2[on2[i]] = d2[i] + 1
    BY <1>2, <2>1, <2>2 DEF ChainSlot
  <2>6. ASSUME NEW j \in K \cup {h}, home2[j] = home2[i], d2[j] = d2[i]
        PROVE  j = i
    <3>1. CASE j = h
      BY <2>1, <2>2, <2>6, <3>1 DEF ChainSlot
    <3>2. CASE j # h
      <4>1. j \in K /\ home[j] = home[i] /\ d[j] = d[i]
        BY <1>2, <2>2, <2>6, <3>2
      <4> QED
        BY <4>1, SameRank
    <3> QED
      BY <3>1, <3>2
  <2> QED
    BY <2>3, <2>4, <2>5, <2>6 DEF ChainSlot
<1>5. None \notin K \cup {h}
  BY DEF Chained
<1> QED
  BY <1>3, <1>4, <1>5 DEF Chained

Passed(w) == {w[p] : p \in 1..Len(w)}

\* A chain is cut off before one of its slots, which is not its first: the slots from there on
\* are no longer on it.
LEMMA ChainCut ==
  ASSUME NEW home, NEW on, NEW d, NEW K, Chained(home, on, d, K),
         NEW t \in K, d[t] # 0, NEW w, Runs(home, on, d, K, t, w),
         NEW b \in K, on[b] = t,
         NEW R, R = Passed(w),
         NEW home2, NEW on2, \A j \in K \ R : home2[j] = home[j] /\ on2[j] = IF j = b THEN None ELSE on[j]
  PROVE  Chained(home2, on2, d, K \ R) /\ b \in K \ R
<1>1. /\ Len(w) \in Nat \ {0} /\ w[1] = t
      /\ \A p \in 1..Len(w) : w[p] \in K /\ home[w[p]] = home[t] /\ d[w[p]] = d[t] + (p - 1)
      /\ \A p \in 1..Len(w) - 1 : on[w[p]] # None /\ w[p + 1] = on[w[p]]
      /\ on[w[Len(w)]] = None
  BY DEF Runs
<1>0. R = {w[p] : p \in 1..Len(w)}
  BY DEF Passed
<1>2. d[t] \in Nat /\ d[t] > 0 /\ t # None
  BY AtSlot
<1>3. ASSUME NEW r \in R PROVE r \in K /\ home[r] = home[t] /\ d[r] \in Nat /\ d[r] >= d[t]
  <2>1. PICK p \in 1..Len(w) : r = w[p]
    BY <1>0
  <2>2. p \in Int /\ p >= 1 /\ d[r] = d[t] + (p - 1)
    BY <1>1, <2>1
  <2> QED
    BY <1>1, <1>2, <2>1, <2>2
<1>4. home[b] = home[t] /\ d[t] = d[b] + 1 /\ d[b] \in Nat
  <2>1. on[b] # None
    BY <1>2
  <2> QED
    BY <2>1, AtSlot
<1>5. b \notin R
  BY <1>2, <1>3, <1>4
<1>6. ASSUME NEW i \in K \ R, on[i] \in R
      PROVE  i = b
  <2>1. PICK p \in 1..Len(w) : on[i] = w[p]
    BY <1>0, <1>6
  <2>2. p \in Int /\ p >= 1 /\ on[i] # None
    BY <1>1, <1>3, <1>6, <2>1, AtSlot
  <2>3. home[on[i]] = home[i] /\ d[on[i]] = d[i] + 1 /\ d[i] \in Nat
    BY <2>2, AtSlot
  <2>4. home[i] = home[t] /\ d[i] + 1 = d[t] + (p - 1)
    BY <1>1, <2>1, <2>3
  <2>5. CASE p = 1
    <3>1. d[i] = d[b]
      BY <1>2, <1>4, <2>3, <2>4, <2>5
    <3> QED
      BY <1>4, <2>4, <3>1, SameRank
  <2>6. CASE p # 1
    <3>1. p - 1 \in 1..Len(w) /\ p - 1 >= 1
      BY <1>1, <2>2, <2>6
    <3>2. w[p - 1] \in K /\ home[w[p - 1]] = home[t] /\ d[w[p - 1]] = d[t] + ((p - 1) - 1)
      BY <1>1, <3>1
    <3>3. d[w[p - 1]] = d[i]
      <4>1. \A a, c \in Nat, q \in Int : c + 1 = a + (q - 1) => c = a + ((q - 1) - 1)
        OBVIOUS
      <4>2. d[i] = d[t] + ((p - 1) - 1)
        BY <1>2, <2>2, <2>3, <2>4, <4>1, Zenon
      <4> QED
        BY <3>2, <4>2, Zenon
    <3>4. i = w[p - 1]
      BY <2>4, <3>2, <3>3, SameRank
    <3> QED
      BY <1>0, <3>1, <3>4
  <2> QED
    BY <2>5, <2>6
<1>7. ASSUME NEW i \in K \ R
      PROVE  ChainSlot(home2, on2, d, K \ R, i)
  <2>1. ChainSlot(home, on, d, K, i) /\ i # None
    BY AtSlot
  <2>2. home[i] \in K \ R
    <3>1. d[home[i]] = 0 /\ home[i] \in K
      BY <2>1, Zenon DEF ChainSlot
    <3>2. home[i] \in R => d[home[i]] >= d[t]
      BY <1>3
    <3> QED
      BY <1>2, <3>1, <3>2
  <2>3. home2[i] = home[i] /\ on2[i] = (IF i = b THEN None ELSE on[i]) /\ home2[home[i]] = home[home[i]]
    BY <2>2
  <2>4. d[i] \in Nat /\ home2[i] \in K \ R /\ d[home2[i]] = 0 /\ (d[i] = 0 <=> i = home2[i])
    BY <2>1, <2>2, <2>3 DEF ChainSlot
  <2>5. d[i] # 0 => \E j \in K \ R : on2[j] = i
    <3>1. SUFFICES ASSUME d[i] # 0 PROVE \E j \in K \ R : on2[j] = i
      OBVIOUS
    <3>2. PICK j \in K : on[j] = i
      BY <2>1, <3>1 DEF ChainSlot
    <3>3. j \notin R
      <4>1. SUFFICES ASSUME NEW p \in 1..Len(w), j = w[p] PROVE FALSE
        BY <1>0
      <4>2. p # Len(w)
        BY <1>1, <2>1, <3>2, <4>1
      <4>3. p \in 1..Len(w) - 1 /\ p + 1 \in 1..Len(w)
        BY <1>1, <4>2
      <4>4. w[p + 1] = i
        BY <1>1, <3>2, <4>1, <4>3
      <4> QED
        BY <1>0, <4>3, <4>4
    <3>4. j # b
      <4>1. t \in R
        BY <1>0, <1>1
      <4> QED
        BY <3>2, <4>1
    <3> QED
      BY <3>2, <3>3, <3>4
  <2>6. on2[i] # None => on2[i] \in K \ R /\ home2[on2[i]] = home2[i] /\ d[on2[i]] = d[i] + 1
    <3>1. SUFFICES ASSUME on2[i] # None
                   PROVE on2[i] \in K \ R /\ home2[on2[i]] = home2[i] /\ d[on2[i]] = d[i] + 1
      OBVIOUS
    <3>2. i # b /\ on2[i] = on[i]
      BY <2>3, <3>1
    <3>3. on[i] \in K /\ home[on[i]] = home[i] /\ d[on[i]] = d[i] + 1
      BY <2>1, <3>1, <3>2 DEF ChainSlot
    <3>4. on[i] \notin R
      BY <1>6, <3>2
    <3> QED
      BY <2>3, <3>2, <3>3, <3>4
  <2>7. \A j \in K \ R : home2[j] = home2[i] /\ d[j] = d[i] => j = i
    BY <2>1, <2>3 DEF ChainSlot
  <2> QED
    BY <2>4, <2>5, <2>6, <2>7 DEF ChainSlot
<1>8. None \notin K \ R
  BY DEF Chained
<1> QED
  BY <1>5, <1>7, <1>8 DEF Chained

\* A chain of one slot goes away with it.
LEMMA ChainGone ==
  ASSUME NEW home, NEW on, NEW d, NEW K, Chained(home, on, d, K),
         NEW x \in K, d[x] = 0, on[x] = None,
         NEW home2, NEW on2, \A j \in K \ {x} : home2[j] = home[j] /\ on2[j] = on[j]
  PROVE  Chained(home2, on2, d, K \ {x})
<1>1. home[x] = x
  BY AtSlot
<1>2. ASSUME NEW i \in K, home[i] = x
      PROVE  i = x
  <2>1. PICK w : w = <<x>>
    OBVIOUS
  <2>2. w \in Seq(K) /\ Len(w) = 1 /\ w[1] = x
    BY <2>1
  <2>3. d[x] \in Nat
    OBVIOUS
  <2>4. Runs(home, on, d, K, x, w)
    BY <2>2, <2>3 DEF Runs
  <2>5. d[i] + 1 \in 1..Len(w) /\ w[d[i] + 1] = i
    BY <1>1, <1>2, <2>4, HomeReaches
  <2>6. d[i] \in Nat
    BY AtSlot
  <2> QED
    BY <2>2, <2>5, <2>6
<1>3. ASSUME NEW i \in K \ {x}
      PROVE  ChainSlot(home2, on2, d, K \ {x}, i)
  <2>1. ChainSlot(home, on, d, K, i) /\ i # None
    BY AtSlot
  <2>2. home[i] \in K \ {x}
    BY <1>2, <2>1 DEF ChainSlot
  <2>3. home2[i] = home[i] /\ on2[i] = on[i]
    OBVIOUS
  <2>4. d[i] # 0 => \E j \in K \ {x} : on2[j] = i
    BY <2>1 DEF ChainSlot
  <2>5. on2[i] # None => on2[i] \in K \ {x} /\ home2[on2[i]] = home2[i] /\ d[on2[i]] = d[i] + 1
    <3>1. SUFFICES ASSUME on2[i] # None
                   PROVE on2[i] \in K \ {x} /\ home2[on2[i]] = home2[i] /\ d[on2[i]] = d[i] + 1
      OBVIOUS
    <3>2. on[i] \in K /\ home[on[i]] = home[i] /\ d[on[i]] = d[i] + 1 /\ d[i] \in Nat
      BY <2>1, <2>3, <3>1 DEF ChainSlot
    <3>3. on[i] # x
      BY <3>2
    <3> QED
      BY <2>3, <3>2, <3>3
  <2>6. \A j \in K \ {x} : home2[j] = home2[i] /\ d[j] = d[i] => j = i
    BY <2>1, <2>3 DEF ChainSlot
  <2> QED
    BY <2>1, <2>2, <2>3, <2>4, <2>5, <2>6 DEF ChainSlot
<1>4. None \notin K \ {x}
  BY DEF Chained
<1> QED
  BY <1>3, <1>4 DEF Chained

-----------------------------------------------------------------------------
(* Tables.                                                                 *)

\* An item, or the mark of an empty or protected slot.
IsSlot(s) ==
    /\ {"kind", "jump"} \subseteq DOMAIN s /\ s.jump \in 0..Len(JumpDists)
    /\ \/ /\ s.kind \in {"head", "body"} /\ s.key \in Key
          /\ {"key", "val", "prev", "next"} \subseteq DOMAIN s
       \/ /\ s.kind \in {"empty", "protected"} /\ s.jump = 0
          /\ ~ ({"prev", "next"} \subseteq DOMAIN s)

Frame(T) ==
    /\ {"layout", "slots", "size", "head", "tail", "slot"} \subseteq DOMAIN T
    /\ T.layout = "dense" /\ T.slots \in Nat \ {0}
    /\ DOMAIN T.slot = 0 .. T.slots - 1 /\ \A i \in DOMAIN T.slot : IsSlot(T.slot[i])

Items(T) == {i \in DOMAIN T.slot : IsItem(T, i)}

\* The home of what each slot holds.
HomeOf(T) == [i \in DOMAIN T.slot |-> IndexFromHash(T, T.slot[i].key)]

\* A slot is the head of a chain if it is the home of its own key.
HeadsAtHome(T) == \A i \in Items(T) : IsHead(T, i) <=> HomeOf(T)[i] = i

\* What a table says of one of its slots.
LEMMA SlotOfFrame ==
  ASSUME NEW T, Frame(T), NEW i \in DOMAIN T.slot
  PROVE  /\ IsTable(T) /\ i \in Nat /\ i # None /\ IsSlot(T.slot[i])
         /\ (i \in Items(T) <=> HasLinks(T, i))
         /\ (i \in Items(T) <=> T.slot[i].kind \in {"head", "body"})
         /\ i \in Items(T) => T.slot[i].key \in Key
         /\ i \notin Items(T) => T.slot[i].kind \in {"empty", "protected"} /\ T.slot[i].jump = 0
         /\ T.slot[i].jump \in 0..Len(JumpDists)
BY DEF Frame, IsTable, IsSlot, Items, IsItem, HasLinks, None

\* A leading part of a hash, scaled to the number of slots, names a slot.
LEMMA HomeInRange ==
  ASSUME NEW n \in Nat \ {0}, NEW s \in Nat \ {0}, NEW c \in 0..s - 1
  PROVE  (c * n) \div s \in 0..n - 1
<1>1. c * n \in Nat /\ c * n < s * n
  <2>1. c \in Nat /\ c <= s - 1
    OBVIOUS
  <2>2. c * n <= (s - 1) * n
    BY <2>1
  <2>3. (s - 1) * n = s * n - n
    OBVIOUS
  <2>4. c * n \in Nat
    BY <2>1
  <2> QED
    BY <2>2, <2>3, <2>4
<1>2. PICK q \in Int : q = (c * n) \div s
  OBVIOUS
<1>3. s * q <= c * n /\ c * n < s * (q + 1)
  BY <1>1, <1>2
<1>4. q >= 0
  <2>1. SUFFICES ASSUME q + 1 <= 0 PROVE FALSE
    OBVIOUS
  <2>2. s * (q + 1) <= 0
    BY <2>1
  <2> QED
    BY <1>1, <1>3, <2>2
<1>5. q < n
  <2>1. SUFFICES ASSUME n <= q PROVE FALSE
    OBVIOUS
  <2>2. s * n <= s * q
    BY <2>1
  <2> QED
    BY <1>1, <1>3, <2>2
<1> QED
  BY <1>2, <1>4, <1>5

\* Each key has a home among the slots (IndexFromHash).
LEMMA HashInRange ==
  ASSUME NEW T, Frame(T), NEW k \in Key
  PROVE  IndexFromHash(T, k) \in DOMAIN T.slot
<1>1. Code[k] \in 0..CodeSpan - 1 /\ CodeSpan \in Nat \ {0}
  BY CodeAssumption, KeyAssumption
<1>2. T.slots \in Nat \ {0} /\ DOMAIN T.slot = 0..T.slots - 1
  BY DEF Frame
<1>3. (Code[k] * T.slots) \div CodeSpan \in 0..T.slots - 1
  BY <1>1, <1>2, HomeInRange
<1> QED
  BY <1>2, <1>3 DEF IndexFromHash

\* A jump stays within the table.
LEMMA JumpInRange ==
  ASSUME NEW T, Frame(T), NEW i \in DOMAIN T.slot, NEW j \in 1..Len(JumpDists)
  PROVE  Jumped(T, i, j) \in DOMAIN T.slot
<1>1. JumpDists \in Seq(Nat \ {0})
  BY CodeAssumption
<1>2. JumpDists[j] \in Nat
  BY <1>1, ElementOfSeq
<1>3. i \in Nat /\ T.slots \in Nat \ {0} /\ DOMAIN T.slot = 0..T.slots - 1
  BY SlotOfFrame DEF Frame
<1>4. (i + JumpDists[j]) % T.slots \in 0..T.slots - 1
  BY <1>2, <1>3
<1> QED
  BY <1>3, <1>4 DEF Jumped

\* From a slot a jump leads to a slot, or nowhere.
LEMMA ChainSteps ==
  ASSUME NEW T, Frame(T)
  PROVE  DOMAIN NextInChain(T) = DOMAIN T.slot /\ Steps(NextInChain(T), DOMAIN T.slot)
<1>1. DOMAIN NextInChain(T) = DOMAIN T.slot
  BY DEF NextInChain
<1>2. ASSUME NEW i \in DOMAIN T.slot
      PROVE  NextInChain(T)[i] \in DOMAIN T.slot \cup {None} /\ i # None
  <2>1. i # None /\ T.slot[i].jump \in 0..Len(JumpDists)
    BY SlotOfFrame
  <2>2. NextInChain(T)[i] = IF T.slot[i].jump = 0 THEN None ELSE Jumped(T, i, T.slot[i].jump)
    BY DEF NextInChain
  <2>3. CASE T.slot[i].jump = 0
    BY <2>1, <2>2, <2>3
  <2>4. CASE T.slot[i].jump # 0
    <3>1. Len(JumpDists) \in Nat
      BY CodeAssumption, LenProperties
    <3>2. T.slot[i].jump \in 1..Len(JumpDists)
      BY <2>1, <2>4, <3>1
    <3> QED
      BY <2>1, <2>2, <2>4, <3>2, JumpInRange
  <2> QED
    BY <2>3, <2>4
<1> QED
  BY <1>1, <1>2 DEF Steps

\* What MoveToNext visits from a slot of a chain on is the rest of the chain.
LEMMA ChainRuns ==
  ASSUME NEW T, Frame(T), NEW d, NEW K \in SUBSET Items(T), Chained(HomeOf(T), NextInChain(T), d, K),
         NEW i \in K
  PROVE  Runs(HomeOf(T), NextInChain(T), d, K, i, Chain(T, i))
<1>1. PICK home : home = HomeOf(T)
  OBVIOUS
<1>2. PICK on : on = NextInChain(T)
  OBVIOUS
<1>3. PICK N \in Nat : N = T.slots /\ DOMAIN T.slot = 0..N - 1
  BY DEF Frame
<1>4. DOMAIN on = 0..N - 1
  BY <1>2, <1>3, ChainSteps
<1>5. Chained(home, on, d, K)
  BY <1>1, <1>2
<1>6. PICK S : S = {j \in K : home[j] = home[i]}
  OBVIOUS
<1>7. S \in SUBSET (0..N - 1) /\ i \in S /\ S \subseteq K
  BY <1>3, <1>6 DEF Items
<1>8. Ranked(on, S, d)
  <2> SUFFICES ASSUME NEW j \in S
               PROVE  d[j] \in Nat /\ (on[j] # None => on[j] \in S /\ d[on[j]] = d[j] + 1)
    BY DEF Ranked
  <2>1. j \in K /\ home[j] = home[i]
    BY <1>6
  <2>2. d[j] \in Nat /\ (on[j] # None => on[j] \in K /\ home[on[j]] = home[j] /\ d[on[j]] = d[j] + 1)
    BY <1>5, <2>1, AtSlot
  <2> QED
    BY <1>6, <2>1, <2>2
<1>9. PICK w : w = Walk(on, N, i)
  OBVIOUS
<1>10. /\ w \in Seq(S) /\ Len(w) \in Nat \ {0} /\ w[1] = i
       /\ \A p \in 1..Len(w) : d[w[p]] = d[i] + (p - 1)
       /\ \A p \in 1..Len(w) - 1 : on[w[p]] # None /\ w[p + 1] = on[w[p]]
       /\ on[w[Len(w)]] = None
  <2>1. WalkedOut(on, S, d, i, w)
    BY <1>4, <1>7, <1>8, <1>9, WalkToEnd
  <2> QED
    BY <2>1, Zenon DEF WalkedOut
<1>11. w \in Seq(K)
  BY <1>7, <1>10, SeqMonotonic
<1>12. \A p \in 1..Len(w) : w[p] \in K /\ home[w[p]] = home[i]
  <2>1. \A p \in 1..Len(w) : w[p] \in S
    BY <1>10, ElementOfSeq
  <2> QED
    BY <1>6, <2>1
<1>13. \A p \in 1..Len(w) : w[p] \in K /\ home[w[p]] = home[i] /\ d[w[p]] = d[i] + (p - 1)
  <2> TAKE p \in 1..Len(w)
  <2>1. d[w[p]] = d[i] + (p - 1)
    BY <1>10, Zenon
  <2> QED
    BY <1>12, <2>1, Zenon
<1>14. Runs(home, on, d, K, i, w)
  BY <1>10, <1>11, <1>13, Zenon DEF Runs
<1>15. Chain(T, i) = w
  BY <1>2, <1>3, <1>9 DEF Chain
<1> QED
  BY <1>1, <1>2, <1>14, <1>15, Zenon

\* A sequence in which a value stands at one place only is searched for it.
LEMMA SelectOnly ==
  ASSUME NEW S, NEW c \in Seq(S), NEW x, NEW n \in 1..Len(c), c[n] = x,
         \A p \in 1..Len(c) : c[p] = x => p = n
  PROVE  SelectInSeq(c, LAMBDA j : j = x) = n
<1>1. PICK I : I = {p \in 1..Len(c) : c[p] = x}
  OBVIOUS
<1>2. I = {n} /\ n \in Int
  BY <1>1
<1>3. Min(I) = n
  BY <1>2 DEF Min
<1>4. SelectInSeq(c, LAMBDA j : j = x) = IF I # {} THEN Min(I) ELSE 0
  BY <1>1 DEF SelectInSeq
<1> QED
  BY <1>2, <1>3, <1>4

\* FindPrev finds the slot that jumps to the one it is given.
LEMMA FoundPrev ==
  ASSUME NEW T, Frame(T), NEW d, NEW K \in SUBSET Items(T), Chained(HomeOf(T), NextInChain(T), d, K),
         NEW i \in K, d[i] # 0
  PROVE  FindPrev(T, i) \in K /\ NextInChain(T)[FindPrev(T, i)] = i
<1>1. PICK home : home = HomeOf(T)
  OBVIOUS
<1>2. PICK on : on = NextInChain(T)
  OBVIOUS
<1>3. Chained(home, on, d, K)
  BY <1>1, <1>2
<1>4. PICK h : h = home[i]
  OBVIOUS
<1>5. h \in K /\ d[h] = 0 /\ home[h] = h /\ d[i] \in Nat
  <2>1. ChainSlot(home, on, d, K, i)
    BY <1>3, AtSlot
  <2>2. h \in K /\ d[h] = 0 /\ d[i] \in Nat
    BY <1>4, <2>1 DEF ChainSlot
  <2> QED
    BY <1>3, <2>2, AtSlot
<1>6. PICK c : c = Chain(T, h)
  OBVIOUS
<1>7. Runs(home, on, d, K, h, c)
  BY <1>1, <1>2, <1>5, <1>6, ChainRuns
<1>8. d[i] + 1 \in 1..Len(c) /\ c[d[i] + 1] = i
  BY <1>3, <1>4, <1>5, <1>7, HomeReaches
<1>9. \A p, q \in 1..Len(c) : c[p] = c[q] => p = q
  BY <1>3, <1>5, <1>7, RunIsInjective
<1>10. c \in Seq(K)
  BY <1>7 DEF Runs
<1>11. SelectInSeq(c, LAMBDA j : j = i) = d[i] + 1
  <2>1. PICK n \in 1..Len(c) : n = d[i] + 1 /\ c[n] = i
    BY <1>8
  <2>2. \A p \in 1..Len(c) : c[p] = i => p = n
    BY <1>9, <2>1
  <2>3. SelectInSeq(c, LAMBDA j : j = i) = n
    BY <1>10, <2>1, <2>2, SelectOnly
  <2> QED
    BY <2>1, <2>3
<1>12. FindPrev(T, i) = c[SelectInSeq(c, LAMBDA j : j = i) - 1]
  <2>1. IndexFromHash(T, T.slot[i].key) = h
    BY <1>1, <1>4 DEF HomeOf, Items
  <2> QED
    BY <1>6, <2>1 DEF FindPrev
<1>13. FindPrev(T, i) = c[d[i]]
  BY <1>5, <1>11, <1>12
<1>14. d[i] \in 1..Len(c) - 1 /\ d[i] \in 1..Len(c)
  <2>1. Len(c) \in Nat
    BY <1>7 DEF Runs
  <2> QED
    BY <1>5, <1>8, <2>1
<1>15. c[d[i]] \in K /\ c[d[i] + 1] = on[c[d[i]]]
  BY <1>7, <1>14 DEF Runs
<1> QED
  BY <1>2, <1>8, <1>13, <1>15

\* One item only has each key.
KeysApart(T) == \A i, j \in Items(T) : T.slot[i].key = T.slot[j].key => i = j

\* A search from the home of a key finds the item that has the key.
LEMMA Found ==
  ASSUME NEW T, Frame(T), NEW d, Chained(HomeOf(T), NextInChain(T), d, Items(T)), HeadsAtHome(T), KeysApart(T),
         NEW i \in Items(T), T.size # 0, NEW k \in Key, T.slot[i].key = k
  PROVE  Search(T, k) = i
<1>1. PICK home : home = HomeOf(T)
  OBVIOUS
<1>2. PICK on : on = NextInChain(T)
  OBVIOUS
<1>3. PICK K : K = Items(T)
  OBVIOUS
<1>4. Chained(home, on, d, K) /\ i \in K
  BY <1>1, <1>2, <1>3
<1>5. PICK h : h = IndexFromHash(T, k)
  OBVIOUS
<1>6. h = home[i]
  BY <1>1, <1>5 DEF HomeOf, Items
<1>7. h \in K /\ d[h] = 0 /\ home[h] = h /\ d[i] \in Nat
  <2>1. ChainSlot(home, on, d, K, i)
    BY <1>4, AtSlot
  <2>2. h \in K /\ d[h] = 0 /\ d[i] \in Nat
    BY <1>6, <2>1 DEF ChainSlot
  <2> QED
    BY <1>4, <2>2, AtSlot
<1>8. IsHead(T, h)
  BY <1>1, <1>3, <1>7 DEF HeadsAtHome
<1>9. PICK c : c = Chain(T, h)
  OBVIOUS
<1>10. Runs(home, on, d, K, h, c)
  BY <1>1, <1>2, <1>3, <1>4, <1>7, <1>9, ChainRuns
<1>11. d[i] + 1 \in 1..Len(c) /\ c[d[i] + 1] = i
  BY <1>4, <1>6, <1>7, <1>10, HomeReaches
<1>12. \A p, q \in 1..Len(c) : c[p] = c[q] => p = q
  BY <1>4, <1>7, <1>10, RunIsInjective
<1>13. DOMAIN c = 1..Len(c) /\ \A p \in 1..Len(c) : c[p] \in K
  BY <1>10, LenProperties DEF Runs
<1>14. PICK n \in 1..Len(c) : n = d[i] + 1 /\ c[n] = i
  BY <1>11
<1>15. PICK hits : hits = {m \in DOMAIN c : T.slot[c[m]].key = k}
  OBVIOUS
<1>16. hits = {n} /\ n \in Int
  <2>1. n \in hits
    BY <1>13, <1>14, <1>15
  <2>2. ASSUME NEW m \in hits PROVE m = n
    <3>1. m \in 1..Len(c) /\ c[m] \in K /\ T.slot[c[m]].key = k
      BY <1>13, <1>15
    <3>2. c[m] = i
      <4>1. c[m] \in Items(T)
        BY <1>3, <3>1
      <4> QED
        BY <3>1, <4>1 DEF KeysApart
    <3> QED
      BY <1>12, <1>14, <3>1, <3>2
  <2>3. n \in Int
    OBVIOUS
  <2> QED
    BY <2>1, <2>2, <2>3, Zenon
<1>17. Min(hits) = n
  BY <1>16 DEF Min
<1>18. Search(T, k) = IF T.size = 0 \/ ~IsHead(T, h) \/ hits = {} THEN None ELSE c[Min(hits)]
  BY <1>5, <1>9, <1>15 DEF Search
<1> QED
  BY <1>8, <1>14, <1>16, <1>17, <1>18

\* A key that no item has is not found.
LEMMA NotFound ==
  ASSUME NEW T, Frame(T), NEW d, Chained(HomeOf(T), NextInChain(T), d, Items(T)),
         NEW k \in Key, \A i \in Items(T) : T.slot[i].key # k
  PROVE  Search(T, k) = None
<1>1. PICK h : h = IndexFromHash(T, k)
  OBVIOUS
<1>2. PICK c : c = Chain(T, h)
  OBVIOUS
<1>3. PICK hits : hits = {m \in DOMAIN c : T.slot[c[m]].key = k}
  OBVIOUS
<1>4. Search(T, k) = IF T.size = 0 \/ ~IsHead(T, h) \/ hits = {} THEN None ELSE c[Min(hits)]
  BY <1>1, <1>2, <1>3 DEF Search
<1>5. SUFFICES ASSUME IsHead(T, h) PROVE hits = {}
  BY <1>4
<1>6. h \in Items(T)
  <2>1. h \in DOMAIN T.slot
    BY <1>1, HashInRange
  <2> QED
    BY <1>5, <2>1 DEF Items, IsItem, IsHead
<1>7. Runs(HomeOf(T), NextInChain(T), d, Items(T), h, c)
  BY <1>2, <1>6, ChainRuns
<1>8. DOMAIN c = 1..Len(c) /\ \A p \in 1..Len(c) : c[p] \in Items(T)
  BY <1>7, LenProperties DEF Runs
<1> QED
  BY <1>3, <1>8

\* The slots that are iterated are those of the list.
LEMMA Iterated ==
  ASSUME NEW T, Frame(T), NEW l, ListedAs(T, l)
  PROVE  IterList(T) = l
<1>1. /\ l \in Seq(DOMAIN T.slot) /\ Len(l) \in Nat /\ DOMAIN l = 1..Len(l)
      /\ \A m \in DOMAIN l : At(l, m) = l[m] /\ l[m] # None /\ HasLinks(T, l[m])
      /\ \A m \in Int \ DOMAIN l : At(l, m) = None
  <2>1. IsTable(T)
    BY DEF Frame, IsTable
  <2> QED
    BY <2>1, Places
<1>2. /\ T.head = At(l, 1)
      /\ \A m \in DOMAIN l : T.slot[l[m]].next = At(l, m + 1)
      /\ \A m, n \in DOMAIN l : l[m] = l[n] => m = n
  BY DEF ListedAs
<1>3. CASE Len(l) = 0
  <2>1. l = <<>> /\ T.head = None
    BY <1>1, <1>2, <1>3
  <2> QED
    BY <2>1 DEF IterList
<1>4. CASE Len(l) # 0
  <2>1. 1 \in DOMAIN l /\ T.head = l[1] /\ T.head # None
    BY <1>1, <1>2, <1>4
  <2>2. PICK after : after = NextInList(T)
    OBVIOUS
  <2>3. PICK N \in Nat : N = T.slots /\ DOMAIN T.slot = 0..N - 1
    BY DEF Frame
  <2>4. DOMAIN after = 0..N - 1
    BY <2>2, <2>3 DEF NextInList
  <2>5. PICK S : S = {l[m] : m \in DOMAIN l}
    OBVIOUS
  <2>6. S \in SUBSET (0..N - 1)
    <3>1. \A m \in DOMAIN l : l[m] \in DOMAIN T.slot
      BY <1>1
    <3> QED
      BY <2>3, <2>5, <3>1
  <2>7. ASSUME NEW m \in DOMAIN l
        PROVE  after[l[m]] = At(l, m + 1)
    <3>1. HasLinks(T, l[m]) /\ l[m] \in DOMAIN T.slot
      BY <1>1 DEF HasLinks
    <3> QED
      BY <1>2, <2>2, <3>1 DEF NextInList
  <2>8. PICK place : place = [j \in S |-> CHOOSE m \in DOMAIN l : l[m] = j]
    OBVIOUS
  <2>9. ASSUME NEW m \in DOMAIN l PROVE place[l[m]] = m
    <3>1. l[m] \in S
      BY <2>5
    <3>2. place[l[m]] = CHOOSE n \in DOMAIN l : l[n] = l[m]
      BY <2>8, <3>1
    <3> QED
      BY <1>2, <3>2
  <2>10. ASSUME NEW j \in S PROVE j \in DOMAIN T.slot /\ place[j] \in DOMAIN l /\ l[place[j]] = j
    BY <2>3, <2>5, <2>6, <2>9
  <2>11. Ranked(after, S, place)
    <3> SUFFICES ASSUME NEW j \in S
                 PROVE  place[j] \in Nat /\ (after[j] # None => after[j] \in S /\ place[after[j]] = place[j] + 1)
      BY DEF Ranked
    <3>1. PICK m \in DOMAIN l : j = l[m]
      BY <2>5
    <3>2. place[j] = m /\ after[j] = At(l, m + 1) /\ m \in Nat
      BY <1>1, <2>7, <2>9, <3>1
    <3>3. SUFFICES ASSUME At(l, m + 1) # None PROVE after[j] \in S /\ place[after[j]] = m + 1
      BY <3>2
    <3>4. m + 1 \in DOMAIN l
      BY <3>2, <3>3 DEF At
    <3>5. after[j] = l[m + 1]
      BY <1>1, <3>2, <3>4
    <3> QED
      BY <2>5, <2>9, <3>4, <3>5
  <2>12. PICK w : w = Walk(after, N, l[1])
    OBVIOUS
  <2>13. l[1] \in S
    BY <2>1, <2>5
  <2>14. WalkedOut(after, S, place, l[1], w)
    BY <2>4, <2>6, <2>11, <2>12, <2>13, WalkToEnd
  <2>15. /\ w \in Seq(S) /\ Len(w) \in Nat \ {0}
         /\ \A p \in 1..Len(w) : place[w[p]] = place[l[1]] + (p - 1)
         /\ \A p \in 1..Len(w) - 1 : after[w[p]] # None
         /\ after[w[Len(w)]] = None
    BY <2>14 DEF WalkedOut
  <2>16. ASSUME NEW p \in 1..Len(w) PROVE p \in DOMAIN l /\ w[p] = l[p]
    <3>1. w[p] \in S
      BY <2>15, ElementOfSeq
    <3>2. place[l[1]] = 1 /\ place[w[p]] = place[l[1]] + (p - 1)
      BY <2>1, <2>9, <2>15
    <3>3. p \in Int
      OBVIOUS
    <3>4. place[w[p]] = p
      BY <3>2, <3>3
    <3> QED
      BY <2>10, <3>1, <3>4
  <2>17. Len(w) = Len(l)
    <3>1. Len(w) \in 1..Len(w)
      BY <2>15
    <3>2. Len(w) \in DOMAIN l /\ At(l, Len(w) + 1) = None
      BY <2>7, <2>15, <2>16, <3>1
    <3>3. Len(w) + 1 \notin DOMAIN l
      BY <1>1, <3>2
    <3> QED
      BY <1>1, <2>15, <3>2, <3>3
  <2>18. w = l
    <3>1. w \in Seq(DOMAIN T.slot) /\ Len(w) = Len(l) /\ \A p \in 1..Len(w) : w[p] = l[p]
      <4>1. S \subseteq DOMAIN T.slot
        BY <2>3, <2>6
      <4>2. w \in Seq(DOMAIN T.slot)
        BY <2>15, <4>1, SeqMonotonic
      <4> QED
        BY <2>16, <2>17, <4>2
    <3> QED
      BY <1>1, <3>1, SeqEqual
  <2> QED
    BY <2>1, <2>2, <2>3, <2>12, <2>18 DEF IterList
<1> QED
  BY <1>1, <1>3, <1>4

-----------------------------------------------------------------------------
(* What a change of some slots leaves of the table.                        *)

\* All but the links.
SameSlot(s, u) == DOMAIN u = DOMAIN s /\ \A f \in DOMAIN s \ {"prev", "next"} : u[f] = s[f]

\* U is a table of the slots of T, and those in J hold what they hold in T.
Alike(T, U, J) ==
    /\ DOMAIN U = DOMAIN T /\ U.layout = T.layout /\ U.slots = T.slots /\ DOMAIN U.slot = DOMAIN T.slot
    /\ \A j \in J : SameSlot(T.slot[j], U.slot[j])

\* U is T with s in slot i, and perhaps another size.
Wrote(T, U, i, s) ==
    /\ DOMAIN U = DOMAIN T /\ U.layout = T.layout /\ U.slots = T.slots /\ DOMAIN U.slot = DOMAIN T.slot
    /\ U.head = T.head /\ U.tail = T.tail
    /\ U.slot[i] = s /\ \A j \in DOMAIN T.slot \ {i} : U.slot[j] = T.slot[j]

\* What each write to a slot leaves behind.
LEMMA PutSlot ==
  ASSUME NEW T, Frame(T), NEW i \in DOMAIN T.slot, NEW s, NEW U, U = [T EXCEPT !.slot[i] = s]
  PROVE  Wrote(T, U, i, s) /\ U.size = T.size
BY DEF Frame, Wrote

LEMMA PutNewSlot ==
  ASSUME NEW T, Frame(T), NEW i \in DOMAIN T.slot, NEW s
  PROVE  Wrote(T, Grown(T, i, s).table, i, s) /\ Grown(T, i, s).table.size = T.size + 1
BY DEF Frame, Wrote, Grown, Done

LEMMA PutJump ==
  ASSUME NEW T, Frame(T), NEW i \in DOMAIN T.slot, NEW jump
  PROVE  Wrote(T, SetJump(T, i, jump), i, [T.slot[i] EXCEPT !.jump = jump]) /\ SetJump(T, i, jump).size = T.size
BY DEF Frame, Wrote, SetJump

LEMMA PutVal ==
  ASSUME NEW T, Frame(T), NEW i \in DOMAIN T.slot, NEW v
  PROVE  LET U == [T EXCEPT !.slot[i].val = v]
         IN  Wrote(T, U, i, [T.slot[i] EXCEPT !.val = v]) /\ U.size = T.size
BY DEF Frame, Wrote

LEMMA PutPair ==
  ASSUME NEW T, Frame(T), NEW i \in DOMAIN T.slot, NEW k, NEW v
  PROVE  LET U == [T EXCEPT !.slot[i].key = k, !.slot[i].val = v]
         IN  Wrote(T, U, i, [T.slot[i] EXCEPT !.key = k, !.val = v]) /\ U.size = T.size
<1>1. PICK U : U = [T EXCEPT !.slot[i].key = k]
  OBVIOUS
<1>2. PICK V : V = [U EXCEPT !.slot[i].val = v]
  OBVIOUS
<1>3. V = [T EXCEPT !.slot[i].key = k, !.slot[i].val = v]
  BY <1>1, <1>2
<1>4. V.slot[i] = [T.slot[i] EXCEPT !.key = k, !.val = v]
  BY <1>1, <1>2 DEF Frame
<1> QED
  BY <1>1, <1>2, <1>3, <1>4 DEF Frame, Wrote

\* A write leaves the other slots alone.
LEMMA WroteAlike ==
  ASSUME NEW T, NEW U, NEW i, NEW s, Wrote(T, U, i, s)
  PROVE  Alike(T, U, DOMAIN T.slot \ {i})
BY DEF Wrote, Alike, SameSlot

\* A table stays one when a slot is written.
LEMMA WroteFrame ==
  ASSUME NEW T, Frame(T), NEW i \in DOMAIN T.slot, NEW s, IsSlot(s), NEW U, Wrote(T, U, i, s)
  PROVE  Frame(U)
<1>1. \A j \in DOMAIN U.slot : IsSlot(U.slot[j])
  BY DEF Wrote, Frame
<1> QED
  BY <1>1 DEF Wrote, Frame

\* Writing a slot changes nothing of the list when the slot is not listed or keeps its links.
LEMMA WroteList ==
  ASSUME NEW T, Frame(T), NEW l, ListedAs(T, l), NEW i \in DOMAIN T.slot, NEW s, NEW U, Wrote(T, U, i, s),
         \/ \A n \in DOMAIN l : l[n] # i
         \/ {"prev", "next"} \subseteq DOMAIN s /\ s.prev = T.slot[i].prev /\ s.next = T.slot[i].next
  PROVE  ListedAs(U, l)
<1>1. ASSUME NEW n \in DOMAIN l
      PROVE  HasLinks(U, l[n]) /\ U.slot[l[n]].prev = T.slot[l[n]].prev /\ U.slot[l[n]].next = T.slot[l[n]].next
  <2>1. HasLinks(T, l[n])
    BY DEF ListedAs
  <2>2. CASE l[n] = i
    BY <2>1, <2>2 DEF Wrote, HasLinks
  <2>3. CASE l[n] # i
    BY <2>1, <2>3 DEF Wrote, HasLinks
  <2> QED
    BY <2>2, <2>3
<1>2. l \in Seq(DOMAIN U.slot) /\ U.head = T.head /\ U.tail = T.tail
  BY DEF ListedAs, Wrote
<1> QED
  BY <1>1, <1>2 DEF ListedAs

\* Writing links leaves all that is not a link alone.
LEMMA SameItemsAlike ==
  ASSUME NEW T, Frame(T), NEW U, SameItems(T, U)
  PROVE  Alike(T, U, DOMAIN T.slot) /\ U.size = T.size
BY DEF Frame, SameItems, Alike, SameSlot

\* A slot with other links.
LEMMA SameSlotIsSlot ==
  ASSUME NEW s, IsSlot(s), NEW u, SameSlot(s, u)
  PROVE  /\ IsSlot(u) /\ u.kind = s.kind /\ u.jump = s.jump
         /\ s.kind \in {"head", "body"} => u.key = s.key /\ u.val = s.val /\ s.key \in Key
BY DEF IsSlot, SameSlot

\* What two tables share at a slot that is alike in both.
LEMMA AlikeAt ==
  ASSUME NEW T, Frame(T), NEW J \in SUBSET (DOMAIN T.slot), NEW U, Alike(T, U, J), NEW j \in J
  PROVE  /\ U.slot[j].kind = T.slot[j].kind /\ IsSlot(U.slot[j])
         /\ NextInChain(U)[j] = NextInChain(T)[j]
         /\ j \in Items(U) <=> j \in Items(T)
         /\ IsHead(U, j) <=> IsHead(T, j)
         /\ j \in Items(T) => /\ HomeOf(U)[j] = HomeOf(T)[j] /\ U.slot[j].key = T.slot[j].key
                              /\ U.slot[j].val = T.slot[j].val /\ PairAt(U, j) = PairAt(T, j)
<1>1. SameSlot(T.slot[j], U.slot[j]) /\ IsSlot(T.slot[j]) /\ U.slots = T.slots /\ DOMAIN U.slot = DOMAIN T.slot
  BY SlotOfFrame DEF Alike
<1>2. /\ IsSlot(U.slot[j]) /\ U.slot[j].kind = T.slot[j].kind /\ U.slot[j].jump = T.slot[j].jump
      /\ T.slot[j].kind \in {"head", "body"} => U.slot[j].key = T.slot[j].key /\ U.slot[j].val = T.slot[j].val
  BY <1>1, SameSlotIsSlot
<1>3. NextInChain(U)[j] = NextInChain(T)[j]
  BY <1>1, <1>2 DEF NextInChain, Jumped
<1>4. (j \in Items(U) <=> j \in Items(T)) /\ (IsHead(U, j) <=> IsHead(T, j))
  BY <1>1, <1>2 DEF Items, IsItem, IsHead
<1>5. j \in Items(T) => /\ HomeOf(U)[j] = HomeOf(T)[j] /\ U.slot[j].key = T.slot[j].key
                        /\ U.slot[j].val = T.slot[j].val /\ PairAt(U, j) = PairAt(T, j)
  <2>1. SUFFICES ASSUME j \in Items(T)
                 PROVE  /\ HomeOf(U)[j] = HomeOf(T)[j] /\ U.slot[j].key = T.slot[j].key
                        /\ U.slot[j].val = T.slot[j].val /\ PairAt(U, j) = PairAt(T, j)
    OBVIOUS
  <2>2. U.slot[j].key = T.slot[j].key /\ U.slot[j].val = T.slot[j].val
    BY <1>2, <2>1 DEF Items, IsItem
  <2> QED
    BY <1>1, <2>2 DEF HomeOf, IndexFromHash, PairAt
<1> QED
  BY <1>2, <1>3, <1>4, <1>5

\* Tables that are alike in some slots, one after another.
LEMMA AlikeTrans ==
  ASSUME NEW T, NEW U, NEW V, NEW J, NEW K, Alike(T, U, J), Alike(U, V, K)
  PROVE  Alike(T, V, J \cap K)
BY DEF Alike, SameSlot

\* A table stays one when the slots that differ are slots.
LEMMA AlikeFrame ==
  ASSUME NEW T, Frame(T), NEW J \in SUBSET (DOMAIN T.slot), NEW U, Alike(T, U, J),
         \A i \in DOMAIN T.slot \ J : IsSlot(U.slot[i])
  PROVE  Frame(U)
<1>1. \A j \in DOMAIN U.slot : IsSlot(U.slot[j])
  BY AlikeAt DEF Alike
<1> QED
  BY <1>1 DEF Alike, Frame

\* A table with all its fields has those of the list.
LEMMA FrameIsTable ==
  ASSUME NEW T, Frame(T)
  PROVE  IsTable(T)
BY DEF Frame, IsTable
-----------------------------------------------------------------------------
(* Tables between two calls.                                               *)

\* Chains for all the items, and no slot protected.
Body(T, d) ==
    /\ Frame(T) /\ KeysApart(T) /\ HeadsAtHome(T)
    /\ Chained(HomeOf(T), NextInChain(T), d, Items(T))
    /\ \A i \in DOMAIN T.slot : T.slot[i].kind # "protected"

Members(l) == {l[n] : n \in DOMAIN l}

\* The list of the table passes just the slots S.
Listing(T, l, S) == ListedAs(T, l) /\ Members(l) = S

Valued(T, S) == \A i \in S : T.slot[i].val \in Value

Sound(T, l, d) == Body(T, d) /\ Listing(T, l, Items(T)) /\ Len(l) = T.size /\ Valued(T, Items(T))

\* The pairs in the slots of a list.
Listed(T, l) == [n \in DOMAIN l |-> PairAt(T, l[n])]

\* Iteration gives the pairs in the slots of the list (begin() .. end()).
LEMMA PairsListed ==
  ASSUME NEW T, Frame(T), NEW l, ListedAs(T, l)
  PROVE  IterList(T) = l /\ Pairs(T) = Listed(T, l)
<1>1. IterList(T) = l
  BY Iterated
<1> QED
  BY <1>1 DEF Pairs, Listed

\* They are pairs of a key and a value, with a key each of its own.
LEMMA ListedOnce ==
  ASSUME NEW T, NEW l, ListedAs(T, l), NEW S, Listing(T, l, S), S \subseteq Items(T),
         Frame(T), KeysApart(T), Valued(T, S)
  PROVE  /\ Listed(T, l) \in Seq(Key \X Value) /\ OncePerKey(Listed(T, l)) /\ Len(Listed(T, l)) = Len(l)
         /\ \A n \in DOMAIN l : Listed(T, l)[n] = PairAt(T, l[n])
<1>1. PICK s : s = Listed(T, l)
  OBVIOUS
<1>2. Len(l) \in Nat /\ DOMAIN l = 1..Len(l) /\ \A n \in DOMAIN l : l[n] \in Items(T) /\ l[n] \in S
  BY DEF ListedAs, Listing, Members
<1>3. DOMAIN s = 1..Len(l) /\ \A n \in DOMAIN l : s[n] = PairAt(T, l[n])
  BY <1>1, <1>2 DEF Listed
<1>4. \A n \in DOMAIN l : s[n] \in Key \X Value
  <2> TAKE n \in DOMAIN l
  <2>1. T.slot[l[n]].key \in Key /\ T.slot[l[n]].val \in Value
    BY <1>2, SlotOfFrame DEF Valued, Items
  <2>2. s[n] = <<T.slot[l[n]].key, T.slot[l[n]].val>>
    BY <1>3 DEF PairAt
  <2>3. \A a \in Key, b \in Value : <<a, b>> \in Key \X Value
    OBVIOUS
  <2> QED
    BY <2>1, <2>2, <2>3, Zenon
<1>5. s \in Seq(Key \X Value) /\ Len(s) = Len(l)
  <2>1. s = [n \in 1..Len(l) |-> s[n]]
    BY <1>1, <1>2 DEF Listed
  <2>2. PICK N \in Nat : N = Len(l)
    BY <1>2
  <2>3. s \in [1..N -> Key \X Value]
    BY <1>2, <1>4, <2>1, <2>2
  <2>4. s \in Seq(Key \X Value)
    BY <2>3
  <2> QED
    BY <1>3, <2>2, <2>4
<1>6. OncePerKey(s)
  <2> SUFFICES ASSUME NEW m \in DOMAIN s, NEW n \in DOMAIN s, s[m][1] = s[n][1] PROVE m = n
    BY DEF OncePerKey
  <2>1. T.slot[l[m]].key = T.slot[l[n]].key /\ l[m] \in Items(T) /\ l[n] \in Items(T)
    BY <1>2, <1>3 DEF PairAt
  <2>2. l[m] = l[n]
    BY <2>1 DEF KeysApart
  <2> QED
    BY <1>2, <1>3, <2>2 DEF ListedAs
<1> QED
  BY <1>1, <1>3, <1>5, <1>6

-----------------------------------------------------------------------------
(* Insertion into a table that has a place for the key.                    *)

\* What a sequence of pairs keeps when a key is taken out of it.
Rest(s, k) == LET i == SelectInSeq(s, LAMBDA e : e[1] = k) IN IF i = 0 THEN s ELSE RemoveAt(s, i)

\* Setting a key takes out its pair, if there is one, and appends the new one.
LEMMA SetLastIsRest == ASSUME NEW s, NEW kv PROVE SetLast(s, kv) = Append(Rest(s, kv[1]), kv)
BY DEF SetLast, Rest

\* Taking out a key that is not there, or one that is.
LEMMA RestOfAbsent ==
  ASSUME NEW s, NEW k, \A n \in 1..Len(s) : s[n][1] # k
  PROVE  Rest(s, k) = s
<1>1. PICK I : I = {n \in 1..Len(s) : s[n][1] = k}
  OBVIOUS
<1>2. SelectInSeq(s, LAMBDA e : e[1] = k) = IF I # {} THEN Min(I) ELSE 0
  BY <1>1 DEF SelectInSeq
<1>3. I = {}
  BY <1>1
<1> QED
  BY <1>2, <1>3 DEF Rest

LEMMA RestOfPresent ==
  ASSUME NEW s, OncePerKey(s), NEW k, NEW n \in 1..Len(s), DOMAIN s = 1..Len(s), Len(s) \in Nat, s[n][1] = k
  PROVE  Rest(s, k) = RemoveAt(s, n)
<1>1. PICK I : I = {m \in 1..Len(s) : s[m][1] = k}
  OBVIOUS
<1>2. SelectInSeq(s, LAMBDA e : e[1] = k) = IF I # {} THEN Min(I) ELSE 0
  BY <1>1 DEF SelectInSeq
<1>3. I = {n} /\ n \in Int /\ n # 0
  BY <1>1 DEF OncePerKey
<1>4. Min(I) = n
  BY <1>3 DEF Min
<1>5. SelectInSeq(s, LAMBDA e : e[1] = k) = n
  BY <1>2, <1>3, <1>4
<1> QED
  BY <1>3, <1>5 DEF Rest

\* Where there is no head at the home of a key, no item has the key.
LEMMA AbsentWithoutHead ==
  ASSUME NEW T, NEW d, Body(T, d), NEW k \in Key, ~IsHead(T, IndexFromHash(T, k))
  PROVE  \A i \in Items(T) : T.slot[i].key # k
<1> SUFFICES ASSUME NEW i \in Items(T), T.slot[i].key = k PROVE FALSE
  OBVIOUS
<1>1. PICK home : home = HomeOf(T)
  OBVIOUS
<1>2. PICK h : h = IndexFromHash(T, k)
  OBVIOUS
<1>3. PICK K : K = Items(T)
  OBVIOUS
<1>4. Chained(home, NextInChain(T), d, K) /\ i \in K /\ home[i] = h
  BY <1>1, <1>2, <1>3 DEF Body, HomeOf, Items
<1>5. h \in K /\ d[h] = 0
  <2>1. ChainSlot(home, NextInChain(T), d, K, i)
    BY <1>4, AtSlot
  <2> QED
    BY <1>4, <2>1 DEF ChainSlot
<1>6. home[h] = h
  BY <1>4, <1>5, AtSlot
<1> QED
  BY <1>1, <1>2, <1>3, <1>5, <1>6 DEF Body, HeadsAtHome

\* U has the items of T, and one with key k in slot e besides.
Added(T, U, e, k) ==
    /\ Frame(U) /\ U.slots = T.slots /\ DOMAIN U.slot = DOMAIN T.slot
    /\ U.slot[e].kind \in {"head", "body"} /\ U.slot[e].key = k /\ (IsHead(U, e) <=> IndexFromHash(T, k) = e)
    /\ \A j \in DOMAIN T.slot \ {e} : U.slot[j].kind = T.slot[j].kind
    /\ \A j \in Items(T) : U.slot[j].key = T.slot[j].key /\ U.slot[j].val = T.slot[j].val

\* The new item changes nothing of the others and is not listed yet.
Joining(T, U, e, k, l) ==
    /\ Items(U) = Items(T) \cup {e} /\ KeysApart(U) /\ HeadsAtHome(U)
    /\ \A i \in DOMAIN U.slot : U.slot[i].kind # "protected"
    /\ Listing(U, l, Items(U) \ {e}) /\ Valued(U, Items(U) \ {e}) /\ Listed(U, l) = Listed(T, l)
    /\ HomeOf(U)[e] = IndexFromHash(T, k) /\ \A j \in Items(T) : HomeOf(U)[j] = HomeOf(T)[j]

\* The list after an item was added to the table but not yet to the list.
LEMMA ItemAdded ==
  ASSUME NEW T, Frame(T), KeysApart(T), HeadsAtHome(T),
         NEW e \in DOMAIN T.slot, e \notin Items(T), NEW k, \A i \in Items(T) : T.slot[i].key # k,
         \A i \in DOMAIN T.slot \ {e} : T.slot[i].kind # "protected",
         NEW U, Added(T, U, e, k), NEW l, Listing(T, l, Items(T)), ListedAs(U, l), Valued(T, Items(T))
  PROVE  Joining(T, U, e, k, l)
<1>1. Items(U) = Items(T) \cup {e}
  BY DEF Added, Items, IsItem
<1>2. KeysApart(U)
  BY <1>1 DEF KeysApart, Added
<1>3. HomeOf(U)[e] = IndexFromHash(T, k) /\ \A j \in Items(T) : HomeOf(U)[j] = HomeOf(T)[j]
  BY DEF HomeOf, IndexFromHash, Added, Items
<1>4. HeadsAtHome(U)
  <2> SUFFICES ASSUME NEW j \in Items(U) PROVE IsHead(U, j) <=> HomeOf(U)[j] = j
    BY DEF HeadsAtHome
  <2>1. CASE j = e
    BY <1>3, <2>1 DEF Added
  <2>2. CASE j # e
    <3>1. j \in Items(T) /\ U.slot[j].kind = T.slot[j].kind
      BY <1>1, <2>2 DEF Added, Items
    <3> QED
      BY <1>3, <3>1 DEF HeadsAtHome, IsHead
  <2> QED
    BY <2>1, <2>2
<1>5. \A i \in DOMAIN U.slot : U.slot[i].kind # "protected"
  BY DEF Added
<1>6. Listing(U, l, Items(U) \ {e}) /\ Valued(U, Items(U) \ {e})
  <2>1. Items(U) \ {e} = Items(T)
    BY <1>1
  <2> QED
    BY <2>1 DEF Listing, Members, Valued, Added
<1>7. Listed(U, l) = Listed(T, l)
  <2>1. \A n \in DOMAIN l : PairAt(U, l[n]) = PairAt(T, l[n])
    BY DEF Listing, Members, PairAt, Added
  <2> QED
    BY <2>1 DEF Listed
<1> QED
  BY <1>1, <1>2, <1>3, <1>4, <1>5, <1>6, <1>7 DEF Joining

\* A place for the key: U has the other items, in the order of the pairs p without the key.
Ready(T, p, k, U, i, l, d) ==
    /\ Body(U, d) /\ U.slots = T.slots /\ i \in Items(U) /\ U.slot[i].key = k
    /\ Listing(U, l, Items(U) \ {i}) /\ U.size = Len(l) + 1 /\ Valued(U, Items(U) \ {i})
    /\ Listed(U, l) = Rest(p, k)

\* A new item is a slot of its kind at the end of a chain.
LEMMA ItemIsSlot ==
  ASSUME NEW kind \in {"head", "body"}, NEW k \in Key, NEW v
  PROVE  LET s == Item(kind, <<k, v>>)
         IN  IsSlot(s) /\ s.kind = kind /\ s.jump = 0 /\ s.key = k /\ s.val = v
<1>1. 0 \in 0..Len(JumpDists)
  <2>1. Len(JumpDists) \in Nat
    BY CodeAssumption, LenProperties
  <2> QED
    BY <2>1
<1> QED
  BY <1>1 DEF Item, IsSlot

\* No item of a list without the key has it, and taking it out changes nothing.
LEMMA NothingToTakeOut ==
  ASSUME NEW T, Frame(T), KeysApart(T), Valued(T, Items(T)), NEW l, Listing(T, l, Items(T)),
         NEW k, \A i \in Items(T) : T.slot[i].key # k
  PROVE  Rest(Listed(T, l), k) = Listed(T, l)
<1>1. PICK s : s = Listed(T, l)
  OBVIOUS
<1>2. s \in Seq(Key \X Value) /\ Len(s) = Len(l) /\ \A n \in DOMAIN l : s[n] = PairAt(T, l[n])
  BY <1>1, ListedOnce DEF Listing, Members
<1>3. \A n \in 1..Len(s) : s[n][1] # k
  <2> TAKE n \in 1..Len(s)
  <2>1. n \in DOMAIN l
    BY <1>2 DEF Listing, Members, ListedAs
  <2>2. l[n] \in Items(T)
    BY <2>1 DEF Listing, Members
  <2> QED
    BY <1>2, <2>1, <2>2 DEF PairAt
<1> QED
  BY <1>1, <1>3, RestOfAbsent

\* A new item becomes the head of a chain of its own.
LEMMA HeadAdded ==
  ASSUME NEW T, Frame(T), KeysApart(T), HeadsAtHome(T),
         NEW d, NEW on, \A j \in Items(T) : on[j] = NextInChain(T)[j], Chained(HomeOf(T), on, d, Items(T)),
         NEW k \in Key, NEW e, e = IndexFromHash(T, k), e \notin Items(T), \A i \in Items(T) : T.slot[i].key # k,
         \A i \in DOMAIN T.slot \ {e} : T.slot[i].kind # "protected",
         NEW l, Listing(T, l, Items(T)), Valued(T, Items(T)), Len(l) = T.size
  PROVE  \E d2 : Ready(T, Listed(T, l), k, Grown(T, e, Item("head", <<k, None>>)).table, e, l, d2)
<1>1. e \in DOMAIN T.slot /\ e # None
  BY HashInRange, SlotOfFrame
<1>2. PICK s : s = Item("head", <<k, None>>)
  OBVIOUS
<1>3. IsSlot(s) /\ s.kind = "head" /\ s.jump = 0 /\ s.key = k
  BY <1>2, ItemIsSlot
<1>4. PICK U : U = Grown(T, e, s).table
  OBVIOUS
<1>5. Wrote(T, U, e, s) /\ U.size = T.size + 1
  BY <1>1, <1>4, PutNewSlot
<1>6. Frame(U)
  BY <1>1, <1>3, <1>5, WroteFrame
<1>7. ListedAs(U, l)
  BY <1>1, <1>5, WroteList DEF Listing, Members
<1>8. Added(T, U, e, k)
  BY <1>1, <1>3, <1>5, <1>6 DEF Wrote, Added, IsHead, Items
<1>9. /\ Items(U) = Items(T) \cup {e} /\ KeysApart(U) /\ HeadsAtHome(U)
      /\ \A i \in DOMAIN U.slot : U.slot[i].kind # "protected"
      /\ Listing(U, l, Items(U) \ {e}) /\ Valued(U, Items(U) \ {e}) /\ Listed(U, l) = Listed(T, l)
      /\ HomeOf(U)[e] = IndexFromHash(T, k) /\ \A j \in Items(T) : HomeOf(U)[j] = HomeOf(T)[j]
  <2>1. Joining(T, U, e, k, l)
    BY <1>1, <1>7, <1>8, ItemAdded
  <2> QED
    BY <2>1, Zenon DEF Joining
<1>10. \A j \in Items(T) : NextInChain(U)[j] = on[j]
  <2> TAKE j \in Items(T)
  <2>1. j \in DOMAIN T.slot /\ U.slot[j] = T.slot[j] /\ U.slots = T.slots /\ DOMAIN U.slot = DOMAIN T.slot
    BY <1>5 DEF Wrote, Items
  <2> QED
    BY <2>1 DEF NextInChain, Jumped
<1>11. NextInChain(U)[e] = None
  BY <1>1, <1>3, <1>5 DEF Wrote, NextInChain
<1>12. \E d2 : Chained(HomeOf(U), NextInChain(U), d2, Items(U))
  <2>1. PICK K : K = Items(T)
    OBVIOUS
  <2>2. PICK home : home = HomeOf(T)
    OBVIOUS
  <2>4. PICK home2 : home2 = HomeOf(U)
    OBVIOUS
  <2>5. PICK on2 : on2 = NextInChain(U)
    OBVIOUS
  <2>6. /\ Chained(home, on, d, K) /\ e \notin K
        /\ \A j \in K : home2[j] = home[j] /\ on2[j] = on[j]
        /\ home2[e] = e /\ on2[e] = None
    BY <1>9, <1>10, <1>11, <2>1, <2>2, <2>4, <2>5
  <2>7. \E d2 : Chained(home2, on2, d2, K \cup {e})
    BY <1>1, <2>6, ChainBegun
  <2> QED
    BY <1>9, <2>1, <2>4, <2>5, <2>7
<1>13. PICK d2 : Body(U, d2)
  BY <1>6, <1>9, <1>12 DEF Body
<1>14. Rest(Listed(T, l), k) = Listed(T, l)
  BY NothingToTakeOut
<1>15. Ready(T, Listed(T, l), k, U, e, l, d2)
  BY <1>1, <1>3, <1>5, <1>9, <1>13, <1>14 DEF Ready, Wrote
<1> QED
  BY <1>2, <1>4, <1>15

\* V is T with another jump in slot i.
JumpIs(T, V, i, jump) ==
    /\ Frame(V) /\ V.slots = T.slots /\ V.size = T.size /\ DOMAIN V.slot = DOMAIN T.slot
    /\ \A j \in DOMAIN T.slot : /\ V.slot[j].kind = T.slot[j].kind
                                /\ j # i => V.slot[j] = T.slot[j] /\ NextInChain(V)[j] = NextInChain(T)[j]
    /\ \A j \in Items(T) : V.slot[j].key = T.slot[j].key /\ V.slot[j].val = T.slot[j].val
    /\ NextInChain(V)[i] = IF jump = 0 THEN None ELSE Jumped(T, i, jump)
    /\ \A l : ListedAs(T, l) => ListedAs(V, l)

\* What setting a jump changes of the chains.
LEMMA JumpSet ==
  ASSUME NEW T, Frame(T), NEW i \in Items(T), NEW jump \in 0..Len(JumpDists)
  PROVE  JumpIs(T, SetJump(T, i, jump), i, jump)
<1>1. PICK V : V = SetJump(T, i, jump)
  OBVIOUS
<1>2. PICK s : s = [T.slot[i] EXCEPT !.jump = jump]
  OBVIOUS
<1>3. i \in DOMAIN T.slot /\ IsSlot(T.slot[i]) /\ HasLinks(T, i) /\ T.slot[i].kind \in {"head", "body"}
  <2>1. i \in DOMAIN T.slot
    BY DEF Items
  <2> QED
    BY <2>1, SlotOfFrame
<1>4. Wrote(T, V, i, s) /\ V.size = T.size
  BY <1>1, <1>2, <1>3, PutJump
<1>5. IsSlot(s) /\ s.jump = jump /\ {"prev", "next"} \subseteq DOMAIN s
      /\ s.prev = T.slot[i].prev /\ s.next = T.slot[i].next /\ s.kind = T.slot[i].kind
      /\ s.key = T.slot[i].key /\ s.val = T.slot[i].val
  BY <1>2, <1>3 DEF IsSlot, HasLinks
<1>6. Frame(V)
  BY <1>3, <1>4, <1>5, WroteFrame
<1>7. \A l : ListedAs(T, l) => ListedAs(V, l)
  BY <1>3, <1>4, <1>5, WroteList
<1>8. ASSUME NEW j \in DOMAIN T.slot
      PROVE  /\ V.slot[j].kind = T.slot[j].kind
             /\ j # i => V.slot[j] = T.slot[j] /\ NextInChain(V)[j] = NextInChain(T)[j]
  <2>1. j # i => V.slot[j] = T.slot[j]
    BY <1>4 DEF Wrote
  <2>2. V.slot[j].kind = T.slot[j].kind
    BY <1>4, <1>5, <2>1 DEF Wrote
  <2>3. j # i => NextInChain(V)[j] = NextInChain(T)[j]
    BY <1>4, <2>1 DEF Wrote, NextInChain, Jumped
  <2> QED
    BY <2>1, <2>2, <2>3
<1>9. \A j \in Items(T) : V.slot[j].key = T.slot[j].key /\ V.slot[j].val = T.slot[j].val
  BY <1>4, <1>5 DEF Wrote, Items
<1>10. NextInChain(V)[i] = IF jump = 0 THEN None ELSE Jumped(T, i, jump)
  BY <1>3, <1>4, <1>5 DEF Wrote, NextInChain, Jumped
<1>11. V.slots = T.slots /\ V.size = T.size /\ DOMAIN V.slot = DOMAIN T.slot
  BY <1>4 DEF Wrote
<1>12. JumpIs(T, V, i, jump)
  BY <1>6, <1>7, <1>8, <1>9, <1>10, <1>11 DEF JumpIs
<1> QED
  BY <1>1, <1>12

\* A jump to the next empty slot leads to an empty slot (GetNextEmpty).
LEMMA FreeSlot ==
  ASSUME NEW T, Frame(T), NEW i \in DOMAIN T.slot, NEW jump, jump = GetNextEmpty(T, i), jump # 0
  PROVE  /\ jump \in 1..Len(JumpDists) /\ Jumped(T, i, jump) \in DOMAIN T.slot
         /\ IsEmpty(T, Jumped(T, i, jump)) /\ Jumped(T, i, jump) \notin Items(T)
<1>1. PICK free : free = {j \in DOMAIN JumpDists : IsEmpty(T, Jumped(T, i, j))}
  OBVIOUS
<1>2. DOMAIN JumpDists = 1..Len(JumpDists) /\ Len(JumpDists) \in Nat
  BY CodeAssumption, LenProperties
<1>3. free # {} /\ jump = Min(free)
  BY <1>1 DEF GetNextEmpty
<1>4. free \in SUBSET Nat
  BY <1>1, <1>2
<1>5. jump \in free
  <2>1. \E n \in free : \A m \in free : n <= m
    BY <1>3, <1>4, SmallestNumber
  <2> QED
    BY <1>3, <2>1 DEF Min
<1>6. jump \in 1..Len(JumpDists) /\ IsEmpty(T, Jumped(T, i, jump))
  BY <1>1, <1>2, <1>5
<1> QED
  BY <1>6, JumpInRange DEF Items, IsItem, IsEmpty

\* A new item becomes the last of the chain of its home.
LEMMA TailAdded ==
  ASSUME NEW T, NEW l, NEW d, Sound(T, l, d), NEW k \in Key, IsHead(T, IndexFromHash(T, k)),
         \A i \in Items(T) : T.slot[i].key # k,
         NEW end, end = Last(Chain(T, IndexFromHash(T, k))),
         NEW jump, jump = GetNextEmpty(T, end), jump # 0,
         NEW U, U = Grown(SetJump(T, end, jump), Jumped(T, end, jump), Item("body", <<k, None>>)).table
  PROVE  \E d2 : Ready(T, Listed(T, l), k, U, Jumped(T, end, jump), l, d2)
<1>1. PICK h : h = IndexFromHash(T, k)
  OBVIOUS
<1>2. PICK e : e = Jumped(T, end, jump)
  OBVIOUS
<1>3. /\ Frame(T) /\ KeysApart(T) /\ HeadsAtHome(T) /\ Listing(T, l, Items(T)) /\ ListedAs(T, l)
      /\ Valued(T, Items(T)) /\ Len(l) = T.size
      /\ \A i \in DOMAIN T.slot : T.slot[i].kind # "protected"
  BY DEF Sound, Body, Listing, Members
<1>4. PICK K : K = Items(T)
  OBVIOUS
<1>5. PICK home : home = HomeOf(T)
  OBVIOUS
<1>6. PICK on : on = NextInChain(T)
  OBVIOUS
<1>7. Chained(home, on, d, K)
  BY <1>4, <1>5, <1>6 DEF Sound, Body
<1>8. h \in K /\ home[h] = h
  <2>1. h \in DOMAIN T.slot
    BY <1>1, <1>3, HashInRange
  <2> QED
    BY <1>1, <1>3, <1>4, <1>5, <2>1 DEF HeadsAtHome, Items, IsItem, IsHead
<1>9. PICK w : w = Chain(T, h)
  OBVIOUS
<1>10. Runs(home, on, d, K, h, w)
  BY <1>3, <1>4, <1>5, <1>6, <1>7, <1>8, <1>9, ChainRuns
<1>11. end \in K /\ home[end] = h /\ on[end] = None
  <2>1. end = w[Len(w)]
    BY <1>1, <1>9 DEF Last
  <2>2. Len(w) \in 1..Len(w)
    BY <1>10 DEF Runs
  <2> QED
    BY <1>8, <1>10, <2>1, <2>2 DEF Runs
<1>12. end \in DOMAIN T.slot /\ end \in Items(T)
  BY <1>4, <1>11 DEF Items
<1>13. /\ jump \in 1..Len(JumpDists) /\ e \in DOMAIN T.slot /\ IsEmpty(T, e) /\ e \notin Items(T)
  BY <1>2, <1>3, <1>12, FreeSlot
<1>14. e # None /\ e # end
  BY <1>3, <1>12, <1>13, SlotOfFrame
<1>15. PICK V : V = SetJump(T, end, jump)
  OBVIOUS
<1>16. jump \in 0..Len(JumpDists) /\ jump # 0
  BY <1>13
<1>17. JumpIs(T, V, end, jump)
  BY <1>3, <1>12, <1>15, <1>16, JumpSet
<1>18. PICK s : s = Item("body", <<k, None>>)
  OBVIOUS
<1>19. IsSlot(s) /\ s.kind = "body" /\ s.jump = 0 /\ s.key = k
  BY <1>18, ItemIsSlot
<1>20. U = Grown(V, e, s).table
  BY <1>2, <1>15, <1>18
<1>21. Frame(V) /\ e \in DOMAIN V.slot
  BY <1>13, <1>17 DEF JumpIs
<1>22. Wrote(V, U, e, s) /\ U.size = V.size + 1
  BY <1>20, <1>21, PutNewSlot
<1>23. Frame(U)
  BY <1>19, <1>21, <1>22, WroteFrame
<1>24. ListedAs(U, l)
  <2>1. ListedAs(V, l)
    BY <1>3, <1>17 DEF JumpIs
  <2>2. \A n \in DOMAIN l : l[n] # e
    BY <1>3, <1>13 DEF Listing, Members
  <2> QED
    BY <1>21, <1>22, <2>1, <2>2, WroteList
<1>25. Added(T, U, e, k)
  <2>1. h # e
    BY <1>4, <1>8, <1>13
  <2> QED
    BY <1>1, <1>13, <1>17, <1>19, <1>22, <1>23, <2>1 DEF Wrote, Added, IsHead, Items, JumpIs
<1>26. Joining(T, U, e, k, l)
  BY <1>3, <1>13, <1>24, <1>25, ItemAdded
<1>27. /\ Items(U) = K \cup {e} /\ KeysApart(U) /\ HeadsAtHome(U)
       /\ \A i \in DOMAIN U.slot : U.slot[i].kind # "protected"
       /\ Listing(U, l, Items(U) \ {e}) /\ Valued(U, Items(U) \ {e}) /\ Listed(U, l) = Listed(T, l)
       /\ HomeOf(U)[e] = h /\ \A j \in K : HomeOf(U)[j] = home[j]
  BY <1>1, <1>4, <1>5, <1>26, Zenon DEF Joining
<1>28. ASSUME NEW j \in K
       PROVE  NextInChain(U)[j] = IF j = end THEN e ELSE on[j]
  <2>1. j \in DOMAIN T.slot /\ j # e
    BY <1>4, <1>13 DEF Items
  <2>2. NextInChain(U)[j] = NextInChain(V)[j]
    BY <1>17, <1>22, <2>1 DEF Wrote, NextInChain, Jumped, JumpIs
  <2> QED
    BY <1>2, <1>6, <1>16, <1>17, <2>1, <2>2 DEF JumpIs
<1>29. NextInChain(U)[e] = None
  BY <1>19, <1>21, <1>22 DEF Wrote, NextInChain
<1>30. \E d2 : Chained(HomeOf(U), NextInChain(U), d2, Items(U))
  <2>1. PICK home2 : home2 = HomeOf(U)
    OBVIOUS
  <2>2. PICK on2 : on2 = NextInChain(U)
    OBVIOUS
  <2>3. Lengthened(home, on, K, end, e, home2, on2)
    BY <1>4, <1>11, <1>13, <1>14, <1>27, <1>28, <1>29, <2>1, <2>2 DEF Lengthened
  <2>4. \E d2 : Chained(home2, on2, d2, K \cup {e})
    BY <1>7, <2>3, ChainLonger
  <2> QED
    BY <1>27, <2>1, <2>2, <2>4
<1>31. PICK d2 : Body(U, d2)
  BY <1>23, <1>27, <1>30 DEF Body
<1>32. Rest(Listed(T, l), k) = Listed(T, l)
  BY <1>3, NothingToTakeOut
<1>33. U.slots = T.slots /\ U.size = T.size + 1 /\ U.slot[e].key = k /\ e \in Items(U)
  BY <1>17, <1>19, <1>22, <1>27 DEF Wrote, JumpIs
<1>34. Ready(T, Listed(T, l), k, U, e, l, d2)
  BY <1>3, <1>27, <1>31, <1>32, <1>33 DEF Ready
<1> QED
  BY <1>2, <1>34

LEMMA ChainedSame ==
  ASSUME NEW home, NEW on, NEW d, NEW K, Chained(home, on, d, K),
         NEW home2, NEW on2, \A j \in K : home2[j] = home[j] /\ on2[j] = on[j]
  PROVE  Chained(home2, on2, d, K)
<1>1. ASSUME NEW i \in K PROVE ChainSlot(home2, on2, d, K, i)
  <2>1. ChainSlot(home, on, d, K, i)
    BY AtSlot
  <2> QED
    BY <2>1 DEF ChainSlot
<1> QED
  BY <1>1 DEF Chained

\* U is T with other links or values.
Kept(T, U) ==
    /\ Frame(U) /\ U.slots = T.slots /\ DOMAIN U.slot = DOMAIN T.slot
    /\ \A j \in DOMAIN T.slot : U.slot[j].kind = T.slot[j].kind /\ NextInChain(U)[j] = NextInChain(T)[j]
    /\ \A j \in Items(T) : U.slot[j].key = T.slot[j].key

LEMMA KeptBody ==
  ASSUME NEW T, NEW d, Body(T, d), NEW U, Kept(T, U)
  PROVE  Body(U, d) /\ Items(U) = Items(T)
<1>1. Items(U) = Items(T)
  BY DEF Kept, Items, IsItem
<1>2. \A j \in Items(T) : HomeOf(U)[j] = HomeOf(T)[j]
  BY DEF Kept, HomeOf, IndexFromHash, Items
<1>3. Frame(U) /\ KeysApart(U)
  BY <1>1 DEF Kept, Body, KeysApart
<1>4. HeadsAtHome(U)
  <2>1. \A j \in Items(T) : IsHead(U, j) <=> IsHead(T, j)
    BY DEF Kept, IsHead, Items
  <2> QED
    BY <1>1, <1>2, <2>1 DEF Body, HeadsAtHome
<1>5. Chained(HomeOf(U), NextInChain(U), d, Items(U))
  <2>1. PICK K : K = Items(T)
    OBVIOUS
  <2>2. PICK home : home = HomeOf(T)
    OBVIOUS
  <2>3. PICK on : on = NextInChain(T)
    OBVIOUS
  <2>4. PICK home2 : home2 = HomeOf(U)
    OBVIOUS
  <2>5. PICK on2 : on2 = NextInChain(U)
    OBVIOUS
  <2>6. Chained(home, on, d, K)
    BY <2>1, <2>2, <2>3 DEF Body
  <2>7. \A j \in K : home2[j] = home[j] /\ on2[j] = on[j]
    BY <1>2, <2>1, <2>2, <2>3, <2>4, <2>5 DEF Kept, Items
  <2>8. Chained(home2, on2, d, K)
    BY <2>6, <2>7, ChainedSame
  <2> QED
    BY <1>1, <2>1, <2>4, <2>5, <2>8
<1>6. \A i \in DOMAIN U.slot : U.slot[i].kind # "protected"
  BY DEF Kept, Body
<1> QED
  BY <1>1, <1>3, <1>4, <1>5, <1>6 DEF Body

LEMMA SameItemsKept ==
  ASSUME NEW T, Frame(T), NEW U, SameItems(T, U)
  PROVE  /\ Kept(T, U) /\ U.size = T.size
         /\ \A j \in Items(T) : PairAt(U, j) = PairAt(T, j) /\ U.slot[j].val = T.slot[j].val
<1>1. Alike(T, U, DOMAIN T.slot) /\ U.size = T.size
  BY SameItemsAlike
<1>2. DOMAIN T.slot \in SUBSET (DOMAIN T.slot)
  OBVIOUS
<1>3. Frame(U)
  BY <1>1, <1>2, AlikeFrame
<1>4. \A j \in DOMAIN T.slot : /\ U.slot[j].kind = T.slot[j].kind /\ NextInChain(U)[j] = NextInChain(T)[j]
                               /\ j \in Items(T) => /\ U.slot[j].key = T.slot[j].key
                                                    /\ PairAt(U, j) = PairAt(T, j)
                                                    /\ U.slot[j].val = T.slot[j].val
  <2>1. PICK J : J = DOMAIN T.slot
    OBVIOUS
  <2>2. J \in SUBSET (DOMAIN T.slot) /\ Alike(T, U, J)
    BY <1>1, <2>1
  <2> SUFFICES ASSUME NEW j \in J
               PROVE  /\ U.slot[j].kind = T.slot[j].kind /\ NextInChain(U)[j] = NextInChain(T)[j]
                      /\ j \in Items(T) => /\ U.slot[j].key = T.slot[j].key
                                           /\ PairAt(U, j) = PairAt(T, j)
                                           /\ U.slot[j].val = T.slot[j].val
    BY <2>1
  <2>3. j \in Items(T) => /\ U.slot[j].key = T.slot[j].key
                         /\ PairAt(U, j) = PairAt(T, j)
                         /\ U.slot[j].val = T.slot[j].val
    BY <2>2, AlikeAt
  <2>4. U.slot[j].kind = T.slot[j].kind /\ NextInChain(U)[j] = NextInChain(T)[j]
    BY <2>2, AlikeAt
  <2> QED
    BY <2>3, <2>4
<1>5. \A j \in Items(T) : j \in DOMAIN T.slot
  BY DEF Items
<1>6. U.slots = T.slots /\ DOMAIN U.slot = DOMAIN T.slot
  BY <1>1 DEF Alike
<1> QED
  BY <1>1, <1>3, <1>4, <1>5, <1>6 DEF Kept

LEMMA TakenOut ==
  ASSUME NEW S, NEW l \in Seq(S), NEW n \in DOMAIN l, \A i, j \in DOMAIN l : l[i] = l[j] => i = j,
         NEW m, m = RemoveAt(l, n)
  PROVE  /\ m \in Seq(S) /\ Len(m) = Len(l) - 1
         /\ Members(m) = Members(l) \ {l[n]}
<1>1. /\ m \in Seq(S) /\ Len(m) = Len(l) - 1
      /\ \A j \in 1..(Len(l) - 1) : m[j] = IF j < n THEN l[j] ELSE l[j + 1]
  BY RemovedAt
<1>2. Len(l) \in Nat /\ DOMAIN l = 1..Len(l) /\ DOMAIN m = 1..(Len(l) - 1) /\ n \in 1..Len(l) /\ n \in Int
  BY <1>1
<1>3. ASSUME NEW j \in DOMAIN m
      PROVE  \E i \in DOMAIN l : m[j] = l[i] /\ l[i] # l[n]
  <2>1. PICK i : i = IF j < n THEN j ELSE j + 1
    OBVIOUS
  <2>2. i \in DOMAIN l /\ i # n /\ m[j] = l[i]
    BY <1>1, <1>2, <2>1
  <2> QED
    BY <2>2
<1>4. ASSUME NEW i \in DOMAIN l, l[i] # l[n]
      PROVE  \E j \in DOMAIN m : m[j] = l[i]
  <2>1. i # n /\ i \in Int
    BY <1>2, <1>4
  <2>2. PICK j : j = IF i < n THEN i ELSE i - 1
    OBVIOUS
  <2>3. j \in DOMAIN m /\ m[j] = l[i]
    BY <1>1, <1>2, <2>1, <2>2
  <2> QED
    BY <2>3
<1>5. Members(m) = Members(l) \ {l[n]}
  BY <1>3, <1>4 DEF Members
<1> QED
  BY <1>1, <1>5

LEMMA ListedTakenOut ==
  ASSUME NEW T, NEW l, NEW S, NEW R, l \in Seq(R), NEW n \in DOMAIN l, NEW U, NEW m, m = RemoveAt(l, n),
         Listed(T, l) \in Seq(S), \A j \in DOMAIN l : j # n => PairAt(U, l[j]) = PairAt(T, l[j])
  PROVE  Listed(U, m) = RemoveAt(Listed(T, l), n)
<1>1. PICK s : s = Listed(T, l)
  OBVIOUS
<1>2. s \in Seq(S) /\ DOMAIN s = DOMAIN l /\ \A j \in DOMAIN l : s[j] = PairAt(T, l[j])
  BY <1>1 DEF Listed
<1>3. Len(l) \in Nat /\ DOMAIN l = 1..Len(l) /\ n \in Int
  OBVIOUS
<1>4. Len(s) = Len(l)
  BY <1>2, <1>3
<1>5. /\ m \in Seq(R) /\ Len(m) = Len(l) - 1
      /\ \A j \in 1..(Len(l) - 1) : m[j] = IF j < n THEN l[j] ELSE l[j + 1]
  BY RemovedAt
<1>6. PICK t : t = RemoveAt(s, n)
  OBVIOUS
<1>7. /\ t \in Seq(S) /\ Len(t) = Len(l) - 1
      /\ \A j \in 1..(Len(l) - 1) : t[j] = IF j < n THEN s[j] ELSE s[j + 1]
  BY <1>2, <1>4, <1>6, RemovedAt
<1>8. DOMAIN m = 1..(Len(l) - 1) /\ DOMAIN t = 1..(Len(l) - 1)
  BY <1>5, <1>7
<1>9. ASSUME NEW j \in 1..(Len(l) - 1) PROVE PairAt(U, m[j]) = t[j]
  <2>1. PICK i : i = IF j < n THEN j ELSE j + 1
    OBVIOUS
  <2>2. i \in DOMAIN l /\ i # n /\ m[j] = l[i] /\ t[j] = s[i]
    BY <1>3, <1>5, <1>7, <2>1
  <2> QED
    BY <1>2, <2>2
<1>10. t = [j \in 1..(Len(l) - 1) |-> t[j]]
  BY <1>7, <1>8
<1>11. Listed(U, m) = [j \in 1..(Len(l) - 1) |-> PairAt(U, m[j])]
  BY <1>8 DEF Listed
<1>12. Listed(U, m) = t
  BY <1>9, <1>10, <1>11
<1> QED
  BY <1>1, <1>6, <1>12

\* U is T, its list l and the pairs in it without place n, where slot i stands.
Unlinked(T, U, l, m, n, i, d) ==
    /\ Body(U, d) /\ Items(U) = Items(T) /\ Kept(T, U) /\ U.size = T.size
    /\ Listing(U, m, Items(T) \ {i}) /\ Len(m) = Len(l) - 1 /\ Valued(U, Items(T))
    /\ Listed(U, m) = RemoveAt(Listed(T, l), n)
    /\ \A j \in Items(T) : PairAt(U, j) = PairAt(T, j)

\* An item that is found is taken out of the list before it is put back as the last.
LEMMA ItemUnlinked ==
  ASSUME NEW T, NEW d, Body(T, d), NEW l, Listing(T, l, Items(T)), Valued(T, Items(T)),
         NEW n \in DOMAIN l, NEW i, i = l[n], NEW m, m = RemoveAt(l, n)
  PROVE  Unlinked(T, IterListUnlink(T, i), l, m, n, i, d)
<1>1. Frame(T) /\ KeysApart(T) /\ ListedAs(T, l) /\ IsTable(T)
  BY FrameIsTable DEF Body, Listing, Members
<1>2. PICK U : U = IterListUnlink(T, i)
  OBVIOUS
<1>3. SameItems(T, U) /\ ListedAs(U, m)
  BY <1>1, <1>2, Unlinking
<1>4. /\ Kept(T, U) /\ U.size = T.size
      /\ \A j \in Items(T) : PairAt(U, j) = PairAt(T, j) /\ U.slot[j].val = T.slot[j].val
  BY <1>1, <1>3, SameItemsKept
<1>5. Body(U, d) /\ Items(U) = Items(T)
  BY <1>1, <1>4, KeptBody
<1>6. l \in Seq(DOMAIN T.slot) /\ \A p, q \in DOMAIN l : l[p] = l[q] => p = q
  BY <1>1 DEF ListedAs
<1>7. /\ m \in Seq(DOMAIN T.slot) /\ Len(m) = Len(l) - 1
      /\ Members(m) = Members(l) \ {l[n]}
  BY <1>6, TakenOut
<1>8. \A p \in DOMAIN l : l[p] \in Items(T)
  BY <1>1 DEF Listing, Members
<1>9. Listing(U, m, Items(T) \ {i})
  BY <1>1, <1>3, <1>7 DEF Listing
<1>10. PICK s : s = Listed(T, l)
  OBVIOUS
<1>11. s \in Seq(Key \X Value)
  <2>1. Items(T) \subseteq Items(T)
    OBVIOUS
  <2> QED
    BY <1>1, <1>10, <2>1, ListedOnce
<1>12. Listed(U, m) = RemoveAt(s, n)
  <2>1. \A j \in DOMAIN l : j # n => PairAt(U, l[j]) = PairAt(T, l[j])
    BY <1>4, <1>8
  <2>2. PICK R : R = DOMAIN T.slot
    OBVIOUS
  <2>3. PICK S : S = Key \X Value
    OBVIOUS
  <2>4. l \in Seq(R) /\ Listed(T, l) \in Seq(S)
    BY <1>6, <1>10, <1>11, <2>2, <2>3
  <2>5. Listed(U, m) = RemoveAt(Listed(T, l), n)
    BY <2>1, <2>4, ListedTakenOut
  <2> QED
    BY <1>10, <2>5
<1>13. Valued(U, Items(T))
  BY <1>4 DEF Valued
<1>14. Unlinked(T, U, l, m, n, i, d)
  BY <1>4, <1>5, <1>7, <1>9, <1>10, <1>12, <1>13 DEF Unlinked
<1> QED
  BY <1>2, <1>14

\* The place of a key in the pairs of a table.
LEMMA RestAtPlace ==
  ASSUME NEW T, NEW l, NEW d, Sound(T, l, d), NEW n \in DOMAIN l, NEW k, T.slot[l[n]].key = k
  PROVE  Rest(Listed(T, l), k) = RemoveAt(Listed(T, l), n)
<1>1. /\ Frame(T) /\ KeysApart(T) /\ Listing(T, l, Items(T)) /\ ListedAs(T, l)
      /\ Valued(T, Items(T)) /\ Items(T) \subseteq Items(T) /\ l \in Seq(DOMAIN T.slot)
  BY DEF Sound, Body, Listing, ListedAs
<1>2. PICK s : s = Listed(T, l)
  OBVIOUS
<1>3. s \in Seq(Key \X Value) /\ OncePerKey(s) /\ Len(s) = Len(l) /\ \A p \in DOMAIN l : s[p] = PairAt(T, l[p])
  BY <1>1, <1>2, ListedOnce
<1>4. Len(s) \in Nat /\ DOMAIN s = 1..Len(s) /\ n \in 1..Len(s)
  BY <1>1, <1>3
<1>5. s[n][1] = k
  BY <1>3 DEF PairAt
<1> QED
  BY <1>2, <1>3, <1>4, <1>5, RestOfPresent

\* A key that an item of the table has is unlinked with its item.
LEMMA KeyUnlinked ==
  ASSUME NEW T, NEW l, NEW d, Sound(T, l, d), NEW n \in DOMAIN l, NEW k, T.slot[l[n]].key = k,
         NEW i, i = l[n]
  PROVE  \E m : Ready(T, Listed(T, l), k, IterListUnlink(T, i), i, m, d)
<1>1. /\ Body(T, d) /\ Listing(T, l, Items(T)) /\ Valued(T, Items(T)) /\ Len(l) = T.size /\ Len(l) \in Nat
  BY DEF Sound, Listing, ListedAs
<1>2. PICK U : U = IterListUnlink(T, i)
  OBVIOUS
<1>3. PICK m : m = RemoveAt(l, n)
  OBVIOUS
<1>4. Unlinked(T, U, l, m, n, i, d)
  BY <1>1, <1>2, <1>3, ItemUnlinked
<1>5. Rest(Listed(T, l), k) = RemoveAt(Listed(T, l), n)
  BY RestAtPlace
<1>6. i \in Items(T)
  BY <1>1 DEF Listing, Members
<1>7. Ready(T, Listed(T, l), k, U, i, m, d)
  BY <1>1, <1>4, <1>5, <1>6 DEF Ready, Unlinked, Kept, Valued
<1> QED
  BY <1>2, <1>7

LEMMA AppendRange ==
  ASSUME NEW S, NEW l \in Seq(S), NEW i \in S
  PROVE  Members(Append(l, i)) = Members(l) \cup {i}
<1>1. PICK m : m = Append(l, i)
  OBVIOUS
<1>2. /\ DOMAIN m = 1..(Len(l) + 1) /\ DOMAIN l = 1..Len(l) /\ Len(l) \in Nat
      /\ m[Len(l) + 1] = i /\ \A n \in DOMAIN l : m[n] = l[n]
  BY <1>1
<1>3. \A n \in DOMAIN m : n \in DOMAIN l \/ n = Len(l) + 1
  BY <1>2
<1>4. \A n \in DOMAIN l : n \in DOMAIN m
  BY <1>2
<1>5. Len(l) + 1 \in DOMAIN m
  BY <1>2
<1>6. Members(m) = Members(l) \cup {i}
  BY <1>2, <1>3, <1>4, <1>5 DEF Members
<1> QED
  BY <1>1, <1>6

\* s holds the pairs of the slots l of T, which U has too, and x that of slot i of U.
Holds(T, U, R, l, i, S, s, x) ==
    /\ l \in Seq(R) /\ i \in R /\ s \in Seq(S) /\ x \in S
    /\ s = Listed(T, l) /\ x = PairAt(U, i) /\ \A j \in DOMAIN l : PairAt(U, l[j]) = PairAt(T, l[j])

LEMMA ListedAppend ==
  ASSUME NEW T, NEW U, NEW R, NEW l, NEW i, NEW S, NEW s, NEW x, Holds(T, U, R, l, i, S, s, x)
  PROVE  Listed(U, Append(l, i)) = Append(s, x)
<1>0. /\ l \in Seq(R) /\ i \in R /\ s \in Seq(S) /\ x \in S
      /\ s = Listed(T, l) /\ x = PairAt(U, i) /\ \A j \in DOMAIN l : PairAt(U, l[j]) = PairAt(T, l[j])
  BY DEF Holds
<1>1. PICK m : m = Append(l, i)
  OBVIOUS
<1>2. /\ DOMAIN m = 1..(Len(l) + 1) /\ DOMAIN l = 1..Len(l) /\ Len(l) \in Nat
      /\ m[Len(l) + 1] = i /\ \A n \in DOMAIN l : m[n] = l[n]
  BY <1>0, <1>1
<1>4. DOMAIN s = DOMAIN l /\ \A j \in DOMAIN l : s[j] = PairAt(T, l[j])
  BY <1>0 DEF Listed
<1>5. Len(s) = Len(l)
  BY <1>0, <1>2, <1>4
<1>7. PICK t : t = Append(s, x)
  OBVIOUS
<1>8. t \in Seq(S) /\ DOMAIN t = 1..(Len(l) + 1) /\ t[Len(l) + 1] = x /\ \A j \in DOMAIN l : t[j] = s[j]
  BY <1>0, <1>2, <1>4, <1>5, <1>7
<1>9. ASSUME NEW j \in DOMAIN m PROVE PairAt(U, m[j]) = t[j]
  <2>1. j \in DOMAIN l \/ j = Len(l) + 1
    BY <1>2
  <2> QED
    BY <1>0, <1>2, <1>4, <1>8, <2>1
<1>10. Listed(U, m) = [j \in DOMAIN m |-> PairAt(U, m[j])]
  BY DEF Listed
<1>11. t = [j \in DOMAIN m |-> t[j]]
  BY <1>2, <1>8
<1>12. Listed(U, m) = t
  BY <1>9, <1>10, <1>11
<1> QED
  BY <1>1, <1>7, <1>12

SetVal(T, i, v) == [T EXCEPT !.slot[i].val = v]

\* The value is written and the item linked as the last one.
LEMMA ReadyPushed ==
  ASSUME NEW T, NEW p, NEW k, NEW U, NEW i, NEW l, NEW d, Ready(T, p, k, U, i, l, d), k \in Key,
         NEW v \in Value, NEW V, V = IterListPushBack(SetVal(U, i, v), i)
  PROVE  /\ Sound(V, Append(l, i), d) /\ V.slots = T.slots
         /\ Pairs(V) = Append(Rest(p, k), <<k, v>>)
<1>1. /\ Body(U, d) /\ Frame(U) /\ KeysApart(U) /\ U.slots = T.slots /\ i \in Items(U) /\ U.slot[i].key = k
      /\ Listing(U, l, Items(U) \ {i}) /\ ListedAs(U, l) /\ U.size = Len(l) + 1
      /\ Valued(U, Items(U) \ {i}) /\ Listed(U, l) = Rest(p, k)
  BY DEF Ready, Body, Listing, Members
<1>2. PICK W : W = SetVal(U, i, v)
  OBVIOUS
<1>3. PICK s : s = [U.slot[i] EXCEPT !.val = v]
  OBVIOUS
<1>4. i \in DOMAIN U.slot /\ IsSlot(U.slot[i]) /\ HasLinks(U, i) /\ U.slot[i].kind \in {"head", "body"}
  BY <1>1, SlotOfFrame DEF Items
<1>5. Wrote(U, W, i, s) /\ W.size = U.size
  BY <1>1, <1>2, <1>3, <1>4 DEF Frame, Wrote, SetVal
<1>6. /\ IsSlot(s) /\ s.jump = U.slot[i].jump /\ {"prev", "next"} \subseteq DOMAIN s
      /\ s.prev = U.slot[i].prev /\ s.next = U.slot[i].next /\ s.kind = U.slot[i].kind
      /\ s.key = U.slot[i].key /\ s.val = v
  BY <1>3, <1>4 DEF IsSlot, HasLinks
<1>7. Frame(W)
  BY <1>1, <1>4, <1>5, <1>6, WroteFrame
<1>8. ListedAs(W, l)
  BY <1>1, <1>4, <1>5, <1>6, WroteList
<1>9. Kept(U, W)
  <2>1. \A j \in DOMAIN U.slot : /\ W.slot[j].kind = U.slot[j].kind /\ W.slot[j].jump = U.slot[j].jump
                                 /\ j \in Items(U) => W.slot[j].key = U.slot[j].key
    BY <1>5, <1>6 DEF Wrote
  <2>2. \A j \in DOMAIN U.slot : NextInChain(W)[j] = NextInChain(U)[j]
    BY <1>5, <2>1 DEF Wrote, NextInChain, Jumped
  <2> QED
    BY <1>5, <1>7, <2>1, <2>2 DEF Kept, Wrote, Items
<1>10. Body(W, d) /\ Items(W) = Items(U)
  BY <1>1, <1>9, KeptBody
<1>11. HasLinks(W, i) /\ IsTable(W) /\ \A n \in DOMAIN l : l[n] # i
  <2>1. \A n \in DOMAIN l : l[n] # i
    BY <1>1 DEF Listing, Members
  <2> QED
    BY <1>4, <1>5, <1>6, <1>7, <2>1, FrameIsTable DEF HasLinks, Wrote
<1>12. SameItems(W, V) /\ ListedAs(V, Append(l, i))
  BY <1>2, <1>8, <1>11, PushingBack
<1>13. /\ Kept(W, V) /\ V.size = W.size
       /\ \A j \in Items(W) : PairAt(V, j) = PairAt(W, j) /\ V.slot[j].val = W.slot[j].val
  BY <1>7, <1>12, SameItemsKept
<1>14. Body(V, d) /\ Items(V) = Items(W)
  BY <1>10, <1>13, KeptBody
<1>15. l \in Seq(DOMAIN U.slot) /\ Len(l) \in Nat /\ \A n \in DOMAIN l : l[n] \in Items(U) \ {i}
  BY <1>1 DEF ListedAs, Listing, Members
<1>16. PICK m : m = Append(l, i)
  OBVIOUS
<1>17. Listing(V, m, Items(V))
  <2>1. Members(m) = Members(l) \cup {i}
    BY <1>4, <1>15, <1>16, AppendRange
  <2> QED
    BY <1>1, <1>10, <1>12, <1>14, <1>16, <2>1 DEF Listing
<1>18. Len(m) = V.size
  BY <1>1, <1>5, <1>13, <1>15, <1>16
<1>19. \A j \in Items(V) : V.slot[j].val = IF j = i THEN v ELSE U.slot[j].val
  BY <1>5, <1>6, <1>10, <1>13, <1>14 DEF Wrote, Items
<1>20. Valued(V, Items(V))
  BY <1>1, <1>10, <1>14, <1>19 DEF Valued
<1>21. Sound(V, m, d)
  BY <1>14, <1>17, <1>18, <1>20 DEF Sound
<1>22. \A j \in Items(V) : PairAt(V, j) = <<U.slot[j].key, V.slot[j].val>>
  <2>1. \A j \in Items(V) : V.slot[j].key = U.slot[j].key
    BY <1>9, <1>10, <1>13, <1>14 DEF Kept
  <2> QED
    BY <2>1 DEF PairAt
<1>23. PairAt(V, i) = <<k, v>> /\ PairAt(V, i) \in Key \X Value
  <2>1. PairAt(V, i) = <<k, v>>
    BY <1>1, <1>10, <1>14, <1>19, <1>22
  <2> QED
    BY <2>1
<1>24. \A n \in DOMAIN l : PairAt(V, l[n]) = PairAt(U, l[n])
  BY <1>10, <1>14, <1>15, <1>19, <1>22 DEF PairAt
<1>25. Listed(U, l) \in Seq(Key \X Value)
  <2>1. Items(U) \ {i} \subseteq Items(U)
    OBVIOUS
  <2> QED
    BY <1>1, <2>1, ListedOnce
<1>26. Listed(V, m) = Append(Listed(U, l), PairAt(V, i))
  <2>1. PICK R : R = DOMAIN U.slot
    OBVIOUS
  <2>2. PICK S : S = Key \X Value
    OBVIOUS
  <2>3. PICK x : x = PairAt(V, i)
    OBVIOUS
  <2>4. PICK t : t = Listed(U, l)
    OBVIOUS
  <2>5. l \in Seq(R) /\ i \in R /\ t \in Seq(S) /\ x \in S
    BY <1>4, <1>15, <1>23, <1>25, <2>1, <2>2, <2>3, <2>4
  <2>6. Holds(U, V, R, l, i, S, t, x)
    BY <1>24, <2>3, <2>4, <2>5 DEF Holds
  <2>7. Listed(V, Append(l, i)) = Append(t, x)
    BY <2>6, ListedAppend
  <2> QED
    BY <1>16, <2>3, <2>4, <2>7
<1>27. Pairs(V) = Listed(V, m)
  BY <1>14, <1>17, PairsListed DEF Body, Listing, Members
<1>28. V.slots = T.slots
  BY <1>1, <1>9, <1>13 DEF Kept
<1> QED
  BY <1>1, <1>16, <1>21, <1>23, <1>26, <1>27, <1>28

-----------------------------------------------------------------------------
(* Removal.                                                                *)

\* V has the items of T without that in x, whose pair may have moved to i on the same chain.
Removed(T, V, x, i) ==
    /\ Frame(V) /\ V.slots = T.slots /\ DOMAIN V.slot = DOMAIN T.slot
    /\ i \in Items(T) /\ x \in Items(T) /\ HomeOf(T)[i] = HomeOf(T)[x] /\ V.slot[x].kind = "empty"
    /\ \A j \in DOMAIN T.slot \ {x} : V.slot[j].kind = T.slot[j].kind
    /\ \A j \in Items(T) \ {x} : LET o == IF j = i THEN x ELSE j
                                 IN  V.slot[j].key = T.slot[o].key /\ V.slot[j].val = T.slot[o].val

Leaving(T, V, x) ==
    /\ Items(V) = Items(T) \ {x} /\ KeysApart(V) /\ HeadsAtHome(V) /\ Valued(V, Items(V))
    /\ \A j \in DOMAIN V.slot : V.slot[j].kind # "protected"
    /\ \A j \in Items(V) : HomeOf(V)[j] = HomeOf(T)[j]

LEMMA ItemRemoved ==
  ASSUME NEW T, Frame(T), KeysApart(T), HeadsAtHome(T), Valued(T, Items(T)),
         \A j \in DOMAIN T.slot : T.slot[j].kind # "protected",
         NEW V, NEW x, NEW i, Removed(T, V, x, i)
  PROVE  Leaving(T, V, x)
<1>1. Items(V) = Items(T) \ {x}
  BY DEF Removed, Items, IsItem
<1>2. ASSUME NEW j \in Items(V)
      PROVE  \E o \in Items(T) : /\ o = IF j = i THEN x ELSE j
                                 /\ V.slot[j].key = T.slot[o].key /\ V.slot[j].val = T.slot[o].val
  BY <1>1 DEF Removed
<1>3. KeysApart(V)
  <2> SUFFICES ASSUME NEW a \in Items(V), NEW b \in Items(V), V.slot[a].key = V.slot[b].key PROVE a = b
    BY DEF KeysApart
  <2>1. PICK o \in Items(T) : o = (IF a = i THEN x ELSE a) /\ V.slot[a].key = T.slot[o].key
    BY <1>2
  <2>2. PICK q \in Items(T) : q = (IF b = i THEN x ELSE b) /\ V.slot[b].key = T.slot[q].key
    BY <1>2
  <2>3. o = q
    BY <2>1, <2>2 DEF KeysApart
  <2> QED
    BY <1>1, <2>1, <2>2, <2>3
<1>4. ASSUME NEW j \in Items(V) PROVE HomeOf(V)[j] = HomeOf(T)[j]
  <2>1. PICK o \in Items(T) : o = (IF j = i THEN x ELSE j) /\ V.slot[j].key = T.slot[o].key
    BY <1>2
  <2>2. HomeOf(T)[o] = HomeOf(T)[j]
    BY <2>1 DEF Removed
  <2>3. j \in DOMAIN V.slot /\ o \in DOMAIN T.slot /\ V.slots = T.slots
    BY DEF Items, Removed
  <2>4. HomeOf(V)[j] = HomeOf(T)[o]
    BY <2>1, <2>3 DEF HomeOf, IndexFromHash
  <2> QED
    BY <2>2, <2>4
<1>5. HeadsAtHome(V)
  <2> SUFFICES ASSUME NEW j \in Items(V) PROVE IsHead(V, j) <=> HomeOf(V)[j] = j
    BY DEF HeadsAtHome
  <2>1. j \in Items(T) /\ V.slot[j].kind = T.slot[j].kind
    BY <1>1 DEF Removed, Items
  <2> QED
    BY <1>4, <2>1 DEF HeadsAtHome, IsHead
<1>6. Valued(V, Items(V))
  BY <1>2 DEF Valued
<1>7. \A j \in DOMAIN V.slot : V.slot[j].kind # "protected"
  BY DEF Removed
<1> QED
  BY <1>1, <1>3, <1>4, <1>5, <1>6, <1>7 DEF Leaving

\* The marks of empty and protected slots are slots without links.
LEMMA EmptyIsSlot ==
  /\ IsSlot(EmptySlot) /\ EmptySlot.kind = "empty" /\ EmptySlot.jump = 0 /\ {"prev", "next"} \cap DOMAIN EmptySlot = {}
  /\ IsSlot(ProtectedSlot) /\ ProtectedSlot.kind = "protected" /\ ProtectedSlot.jump = 0
<1>1. 0 \in 0..Len(JumpDists)
  <2>1. Len(JumpDists) \in Nat
    BY CodeAssumption, LenProperties
  <2> QED
    BY <2>1
<1> QED
  BY <1>1 DEF EmptySlot, ProtectedSlot, IsSlot

Emptied(T, x) == [T EXCEPT !.slot[x] = EmptySlot]

\* V is U, with the item of x, which the list m does not pass, gone, and nothing of the others changed.
Gone(U, V, x, m) ==
    /\ Frame(V) /\ ListedAs(V, m) /\ V.size = U.size /\ V.slots = U.slots /\ DOMAIN V.slot = DOMAIN U.slot
    /\ V.slot[x].kind = "empty" /\ NextInChain(V)[x] = None
    /\ \A j \in DOMAIN U.slot \ {x} : V.slot[j] = U.slot[j] /\ NextInChain(V)[j] = NextInChain(U)[j]

\* Emptying a slot takes its item from the table.
LEMMA SlotEmptied ==
  ASSUME NEW U, Frame(U), NEW x \in Items(U), NEW m, ListedAs(U, m), \A n \in DOMAIN m : m[n] # x,
         NEW V, V = Emptied(U, x)
  PROVE  Gone(U, V, x, m)
<1>1. x \in DOMAIN U.slot
  BY DEF Items
<1>2. PICK s : s = EmptySlot
  OBVIOUS
<1>3. Wrote(U, V, x, s) /\ V.size = U.size
  BY <1>1, <1>2 DEF Frame, Wrote, Emptied
<1>4. IsSlot(s) /\ s.kind = "empty" /\ s.jump = 0
  BY <1>2, EmptyIsSlot
<1>5. Frame(V)
  BY <1>1, <1>3, <1>4, WroteFrame
<1>6. ListedAs(V, m)
  BY <1>1, <1>3, WroteList
<1>7. \A j \in DOMAIN U.slot \ {x} : V.slot[j] = U.slot[j] /\ NextInChain(V)[j] = NextInChain(U)[j]
  BY <1>3 DEF Wrote, NextInChain, Jumped
<1>8. V.slots = U.slots /\ DOMAIN V.slot = DOMAIN U.slot /\ V.slot[x] = s
  BY <1>3 DEF Wrote
<1>9. NextInChain(V)[x] = None
  BY <1>1, <1>4, <1>8 DEF NextInChain
<1> QED
  BY <1>3, <1>4, <1>5, <1>6, <1>7, <1>8, <1>9 DEF Gone

\* Between taking an item out of the list and emptying a slot.
Leaves(U, d, i, m) ==
    /\ Body(U, d) /\ i \in Items(U) /\ Listing(U, m, Items(U) \ {i}) /\ Valued(U, Items(U)) /\ Len(m) = U.size

\* On the slots K, the chains are the same but for what comes after b.
CutAfter(b, K, home, on, home2, on2) == \A j \in K : home2[j] = home[j] /\ on2[j] = IF j = b THEN None ELSE on[j]

\* The last slot of a chain is cut off.
LEMMA EndCut ==
  ASSUME NEW home, NEW on, NEW d, NEW K, Chained(home, on, d, K),
         NEW t \in K, d[t] # 0, on[t] = None, NEW b \in K, on[b] = t,
         NEW home2, NEW on2, CutAfter(b, K \ {t}, home, on, home2, on2)
  PROVE  Chained(home2, on2, d, K \ {t}) /\ b \in K \ {t}
<1>1. PICK w : w = <<t>>
  OBVIOUS
<1>2. PICK R : R = Passed(w)
  OBVIOUS
<1>3. w \in Seq(K) /\ Len(w) = 1 /\ w[1] = t
  BY <1>1
<1>4. d[t] \in Nat
  BY AtSlot
<1>5. Runs(home, on, d, K, t, w)
  BY <1>3, <1>4 DEF Runs
<1>6. R = {t}
  BY <1>2, <1>3 DEF Passed
<1>7. \A j \in K \ R : home2[j] = home[j] /\ on2[j] = IF j = b THEN None ELSE on[j]
  BY <1>6 DEF CutAfter
<1>8. Chained(home2, on2, d, K \ R) /\ b \in K \ R
  BY <1>2, <1>5, <1>7, ChainCut
<1> QED
  BY <1>6, <1>8

\* A chain of one slot goes away with it.
LEMMA HeadGone ==
  ASSUME NEW home, NEW on, NEW d, NEW K, Chained(home, on, d, K),
         NEW x \in K, d[x] = 0, on[x] = None,
         NEW home2, NEW on2, CutAfter(None, K \ {x}, home, on, home2, on2)
  PROVE  Chained(home2, on2, d, K \ {x})
<1>1. \A j \in K \ {x} : home2[j] = home[j] /\ on2[j] = on[j]
  BY AtSlot DEF CutAfter
<1> QED
  BY <1>1, ChainGone

\* Erasing the last item of a chain (DenseMapObj::Erase).
LEMMA EraseLast ==
  ASSUME NEW U, NEW d, NEW i, NEW m, Leaves(U, d, i, m), NextInChain(U)[i] = None,
         NEW V, V = Emptied(IF IsHead(U, i) THEN U ELSE SetJump(U, FindPrev(U, i), 0), i)
  PROVE  Sound(V, m, d) /\ V.slots = U.slots /\ Listed(V, m) = Listed(U, m)
<1>1. /\ Body(U, d) /\ Frame(U) /\ KeysApart(U) /\ HeadsAtHome(U)
      /\ i \in Items(U) /\ Listing(U, m, Items(U) \ {i}) /\ ListedAs(U, m)
      /\ Valued(U, Items(U)) /\ Len(m) = U.size
      /\ \A j \in DOMAIN U.slot : U.slot[j].kind # "protected"
  BY DEF Leaves, Body, Listing
<1>2. PICK K : K = Items(U)
  OBVIOUS
<1>3. PICK home : home = HomeOf(U)
  OBVIOUS
<1>4. PICK on : on = NextInChain(U)
  OBVIOUS
<1>5. Chained(home, on, d, K) /\ i \in K /\ on[i] = None
  BY <1>1, <1>2, <1>3, <1>4 DEF Body
<1>6. \A n \in DOMAIN m : m[n] # i
  BY <1>1 DEF Listing, Members
<1>7. PICK cut : cut = IF IsHead(U, i) THEN U ELSE SetJump(U, FindPrev(U, i), 0)
  OBVIOUS
<1>8. V = Emptied(cut, i)
  BY <1>7 DEF Emptied
<1>9. d[i] \in Nat /\ (d[i] = 0 <=> IsHead(U, i))
  <2>1. d[i] \in Nat /\ (d[i] = 0 <=> i = home[i])
    BY <1>5, AtSlot
  <2> QED
    BY <1>1, <1>3, <2>1 DEF HeadsAtHome
<1>10. /\ Frame(cut) /\ ListedAs(cut, m) /\ cut.size = U.size /\ cut.slots = U.slots
       /\ DOMAIN cut.slot = DOMAIN U.slot
       /\ \A j \in DOMAIN U.slot : cut.slot[j].kind = U.slot[j].kind
       /\ \A j \in K : cut.slot[j].key = U.slot[j].key /\ cut.slot[j].val = U.slot[j].val
  <2>1. CASE IsHead(U, i)
    BY <1>1, <1>7, <2>1
  <2>2. CASE ~IsHead(U, i)
    <3>1. PICK b : b = FindPrev(U, i)
      OBVIOUS
    <3>2. b \in K
      <4>1. K \in SUBSET Items(U)
        BY <1>2
      <4> QED
        BY <1>1, <1>2, <1>3, <1>4, <1>5, <1>9, <2>2, <3>1, <4>1, FoundPrev
    <3>3. 0 \in 0..Len(JumpDists)
      BY CodeAssumption, LenProperties
    <3>4. JumpIs(U, cut, b, 0)
      BY <1>1, <1>2, <1>7, <2>2, <3>1, <3>2, <3>3, JumpSet
    <3> QED
      BY <1>1, <1>2, <3>4 DEF JumpIs
  <2> QED
    BY <2>1, <2>2
<1>11. i \in Items(cut)
  BY <1>1, <1>10 DEF Items, IsItem
<1>12. /\ Frame(V) /\ ListedAs(V, m) /\ V.size = cut.size /\ V.slots = cut.slots /\ DOMAIN V.slot = DOMAIN cut.slot
       /\ V.slot[i].kind = "empty" /\ NextInChain(V)[i] = None
       /\ \A j \in DOMAIN cut.slot \ {i} : V.slot[j] = cut.slot[j] /\ NextInChain(V)[j] = NextInChain(cut)[j]
  <2>1. Gone(cut, V, i, m)
    BY <1>6, <1>8, <1>10, <1>11, SlotEmptied
  <2> QED
    BY <2>1 DEF Gone
<1>13. Removed(U, V, i, i)
  BY <1>1, <1>2, <1>10, <1>12 DEF Removed, Items
<1>14. Leaving(U, V, i)
  BY <1>1, <1>13, ItemRemoved
<1>15. /\ Items(V) = K \ {i} /\ KeysApart(V) /\ HeadsAtHome(V) /\ Valued(V, Items(V))
       /\ \A j \in DOMAIN V.slot : V.slot[j].kind # "protected"
       /\ \A j \in K \ {i} : HomeOf(V)[j] = home[j]
  BY <1>2, <1>3, <1>14 DEF Leaving
<1>16. Chained(HomeOf(V), NextInChain(V), d, K \ {i})
  <2>1. PICK home2 : home2 = HomeOf(V)
    OBVIOUS
  <2>2. PICK on2 : on2 = NextInChain(V)
    OBVIOUS
  <2>3. \A j \in K \ {i} : home2[j] = home[j] /\ on2[j] = NextInChain(cut)[j]
    BY <1>2, <1>10, <1>12, <1>15, <2>1, <2>2 DEF Items
  <2>4. CASE IsHead(U, i)
    <3>1. \A j \in K : j # None
      BY <1>5, AtSlot
    <3>2. CutAfter(None, K \ {i}, home, on, home2, on2)
      BY <1>4, <1>7, <2>3, <2>4, <3>1 DEF CutAfter
    <3>3. d[i] = 0
      BY <1>9, <2>4
    <3>4. Chained(home2, on2, d, K \ {i})
      BY <1>5, <3>2, <3>3, HeadGone
    <3> QED
      BY <2>1, <2>2, <3>4
  <2>5. CASE ~IsHead(U, i)
    <3>1. PICK b : b = FindPrev(U, i)
      OBVIOUS
    <3>2. b \in K /\ on[b] = i
      <4>1. K \in SUBSET Items(U)
        BY <1>2
      <4> QED
        BY <1>1, <1>2, <1>3, <1>4, <1>5, <1>9, <2>5, <3>1, <4>1, FoundPrev
    <3>3. 0 \in 0..Len(JumpDists)
      BY CodeAssumption, LenProperties
    <3>4. JumpIs(U, cut, b, 0)
      BY <1>1, <1>2, <1>7, <2>5, <3>1, <3>2, <3>3, JumpSet
    <3>5. CutAfter(b, K \ {i}, home, on, home2, on2)
      BY <1>2, <1>4, <2>3, <3>4 DEF CutAfter, JumpIs, Items
    <3>6. Chained(home2, on2, d, K \ {i})
      BY <1>5, <1>9, <2>5, <3>2, <3>5, EndCut
    <3> QED
      BY <2>1, <2>2, <3>6
  <2> QED
    BY <2>4, <2>5
<1>17. Sound(V, m, d)
  <2>1. Body(V, d)
    BY <1>12, <1>15, <1>16 DEF Body
  <2>2. Listing(V, m, Items(V))
    BY <1>1, <1>2, <1>12, <1>15 DEF Listing
  <2> QED
    BY <1>1, <1>10, <1>12, <1>15, <2>1, <2>2 DEF Sound
<1>18. Listed(V, m) = Listed(U, m)
  <2>1. \A n \in DOMAIN m : m[n] \in K \ {i}
    BY <1>1, <1>2 DEF Listing, Members
  <2>2. \A j \in K \ {i} : PairAt(V, j) = PairAt(U, j)
    BY <1>2, <1>10, <1>12 DEF Items, PairAt
  <2> QED
    BY <2>1, <2>2 DEF Listed
<1> QED
  BY <1>10, <1>12, <1>17, <1>18

Copied(T, i, k, v) == [T EXCEPT !.slot[i].key = k, !.slot[i].val = v]

\* W is U with the pair of k and v in slot i.
Filled(U, W, i, k, v) ==
    /\ Frame(W) /\ W.size = U.size /\ W.slots = U.slots /\ DOMAIN W.slot = DOMAIN U.slot
    /\ \A j \in DOMAIN U.slot : W.slot[j].kind = U.slot[j].kind /\ NextInChain(W)[j] = NextInChain(U)[j]
    /\ \A j \in DOMAIN U.slot \ {i} : W.slot[j] = U.slot[j]
    /\ W.slot[i].key = k /\ W.slot[i].val = v /\ HasLinks(W, i)
    /\ \A l : ListedAs(U, l) => ListedAs(W, l)

LEMMA PairCopied ==
  ASSUME NEW U, Frame(U), NEW i \in Items(U), NEW k \in Key, NEW v
  PROVE  Filled(U, Copied(U, i, k, v), i, k, v)
<1>1. i \in DOMAIN U.slot /\ IsSlot(U.slot[i]) /\ HasLinks(U, i) /\ U.slot[i].kind \in {"head", "body"}
  BY SlotOfFrame DEF Items
<1>2. PICK a : a = [U EXCEPT !.slot[i].key = k]
  OBVIOUS
<1>3. PICK W : W = [a EXCEPT !.slot[i].val = v]
  OBVIOUS
<1>4. W = Copied(U, i, k, v)
  BY <1>2, <1>3 DEF Copied
<1>5. PICK s : s = W.slot[i]
  OBVIOUS
<1>6. Wrote(U, W, i, s) /\ W.size = U.size
  BY <1>1, <1>2, <1>3, <1>5 DEF Frame, Wrote
<1>7. /\ DOMAIN s = DOMAIN U.slot[i] /\ s.key = k /\ s.val = v
      /\ s.kind = U.slot[i].kind /\ s.jump = U.slot[i].jump /\ s.prev = U.slot[i].prev /\ s.next = U.slot[i].next
  <2>1. i \in DOMAIN U.slot /\ {"kind", "jump", "key", "val", "prev", "next"} \subseteq DOMAIN U.slot[i]
        /\ "slot" \in DOMAIN U
    BY <1>1 DEF IsSlot, HasLinks, Frame
  <2> QED
    BY <1>2, <1>3, <1>5, <2>1
<1>8. IsSlot(s) /\ {"prev", "next"} \subseteq DOMAIN s
  BY <1>1, <1>7 DEF IsSlot, HasLinks
<1>9. Frame(W)
  BY <1>1, <1>6, <1>8, WroteFrame
<1>10. \A l : ListedAs(U, l) => ListedAs(W, l)
  BY <1>1, <1>6, <1>7, <1>8, WroteList
<1>11. HasLinks(W, i)
  BY <1>1, <1>6, <1>8 DEF HasLinks, Wrote
<1>12. \A j \in DOMAIN U.slot : /\ W.slot[j].kind = U.slot[j].kind /\ W.slot[j].jump = U.slot[j].jump
  BY <1>6, <1>7 DEF Wrote
<1>13. \A j \in DOMAIN U.slot : NextInChain(W)[j] = NextInChain(U)[j]
  BY <1>6, <1>12 DEF Wrote, NextInChain, Jumped
<1>14. Filled(U, W, i, k, v)
  BY <1>6, <1>7, <1>9, <1>10, <1>11, <1>12, <1>13 DEF Filled, Wrote
<1> QED
  BY <1>4, <1>14

LEMMA ReplacedMembers ==
  ASSUME NEW S, NEW m \in Seq(S), NEW x \in DOMAIN m, NEW i \in S, \A a, b \in DOMAIN m : m[a] = m[b] => a = b,
         NEW m2, m2 = ReplaceAt(m, x, i)
  PROVE  /\ Members(m2) = (Members(m) \ {m[x]}) \cup {i} /\ Len(m2) = Len(m) /\ DOMAIN m2 = DOMAIN m
         /\ \A n \in DOMAIN m : m2[n] = IF n = x THEN i ELSE m[n]
<1>1. DOMAIN m2 = DOMAIN m /\ \A n \in DOMAIN m : m2[n] = IF n = x THEN i ELSE m[n]
  BY DEF ReplaceAt
<1>2. m2 \in Seq(S)
  BY ReplacedIsSeq DEF ReplaceAt
<1>3. Len(m2) = Len(m)
  BY <1>1, <1>2
<1>4. Members(m2) = (Members(m) \ {m[x]}) \cup {i}
  BY <1>1 DEF Members
<1> QED
  BY <1>1, <1>3, <1>4

\* Erasing an item that the last of its chain replaces (DenseMapObj::Erase).
LEMMA EraseFilled ==
  ASSUME NEW U, NEW d, NEW i, NEW m, Leaves(U, d, i, m),
         NEW last \in Items(U), last # i, NextInChain(U)[last] = None, d[last] # 0, HomeOf(U)[last] = HomeOf(U)[i],
         NEW q \in Items(U), NextInChain(U)[q] = last,
         NEW V, V = SetJump(Emptied(IterListReplaceNodeBy(
                                Copied(U, i, U.slot[last].key, U.slot[last].val), last, i), last), q, 0)
  PROVE  \E m2 : Sound(V, m2, d) /\ V.slots = U.slots /\ Listed(V, m2) = Listed(U, m)
<1>1. /\ Body(U, d) /\ Frame(U) /\ KeysApart(U) /\ HeadsAtHome(U)
      /\ i \in Items(U) /\ Listing(U, m, Items(U) \ {i}) /\ ListedAs(U, m)
      /\ Valued(U, Items(U)) /\ Len(m) = U.size
      /\ \A j \in DOMAIN U.slot : U.slot[j].kind # "protected"
  BY DEF Leaves, Body, Listing
<1>2. PICK K : K = Items(U)
  OBVIOUS
<1>3. PICK home : home = HomeOf(U)
  OBVIOUS
<1>4. PICK on : on = NextInChain(U)
  OBVIOUS
<1>5. Chained(home, on, d, K) /\ i \in K /\ last \in K /\ q \in K /\ on[last] = None /\ on[q] = last
      /\ home[last] = home[i] /\ K \subseteq DOMAIN U.slot
  BY <1>1, <1>2, <1>3, <1>4 DEF Body, Items
<1>6. q # last
  BY <1>5, AtSlot
<1>7. PICK k : k = U.slot[last].key
  OBVIOUS
<1>8. PICK v : v = U.slot[last].val
  OBVIOUS
<1>9. k \in Key /\ PairAt(U, last) = <<k, v>>
  BY <1>1, <1>2, <1>5, <1>7, <1>8, SlotOfFrame DEF PairAt
<1>10. PICK W : W = Copied(U, i, k, v)
  OBVIOUS
<1>11. Filled(U, W, i, k, v)
  BY <1>1, <1>9, <1>10, PairCopied
<1>12. /\ Frame(W) /\ IsTable(W) /\ W.size = U.size /\ W.slots = U.slots /\ DOMAIN W.slot = DOMAIN U.slot
       /\ \A j \in DOMAIN U.slot : W.slot[j].kind = U.slot[j].kind /\ NextInChain(W)[j] = NextInChain(U)[j]
       /\ \A j \in DOMAIN U.slot \ {i} : W.slot[j] = U.slot[j]
       /\ W.slot[i].key = k /\ W.slot[i].val = v /\ HasLinks(W, i) /\ ListedAs(W, m)
  BY <1>1, <1>11, FrameIsTable DEF Filled
<1>13. /\ m \in Seq(DOMAIN U.slot) /\ \A a, b \in DOMAIN m : m[a] = m[b] => a = b
       /\ \A n \in DOMAIN m : m[n] \in K \ {i}
  BY <1>1, <1>2 DEF ListedAs, Listing, Members
<1>14. PICK x \in DOMAIN m : m[x] = last
  BY <1>1 DEF Listing, Members
<1>15. PICK F : F = IterListReplaceNodeBy(W, last, i)
  OBVIOUS
<1>16. PICK m2 : m2 = ReplaceAt(m, x, i)
  OBVIOUS
<1>17. SameItems(W, F) /\ ListedAs(F, m2)
  <2>1. \A n \in DOMAIN m : m[n] # i
    BY <1>13
  <2>2. /\ SameItems(W, IterListReplaceNodeBy(W, m[x], i))
        /\ ListedAs(IterListReplaceNodeBy(W, m[x], i), [m EXCEPT ![x] = i])
    BY <1>12, <2>1, Replacing
  <2> QED
    BY <1>14, <1>15, <1>16, <2>2 DEF ReplaceAt
<1>18. /\ Members(m2) = (Members(m) \ {last}) \cup {i} /\ Len(m2) = Len(m) /\ DOMAIN m2 = DOMAIN m
       /\ \A n \in DOMAIN m : m2[n] = IF n = x THEN i ELSE m[n]
  BY <1>5, <1>13, <1>14, <1>16, ReplacedMembers
<1>19. Items(W) = K
  BY <1>2, <1>12 DEF Items, IsItem
<1>20. /\ Kept(W, F) /\ F.size = W.size
       /\ \A j \in K : F.slot[j].val = W.slot[j].val
  BY <1>12, <1>17, <1>19, SameItemsKept
<1>21. /\ Frame(F) /\ F.slots = U.slots /\ DOMAIN F.slot = DOMAIN U.slot
       /\ \A j \in DOMAIN U.slot : F.slot[j].kind = U.slot[j].kind /\ NextInChain(F)[j] = on[j]
       /\ \A j \in K : F.slot[j].key = W.slot[j].key
  BY <1>4, <1>12, <1>19, <1>20 DEF Kept
<1>22. last \in Items(F) /\ \A n \in DOMAIN m2 : m2[n] # last
  BY <1>2, <1>5, <1>13, <1>14, <1>18, <1>21 DEF Items, IsItem
<1>23. PICK G : G = Emptied(F, last)
  OBVIOUS
<1>24. Gone(F, G, last, m2)
  BY <1>17, <1>21, <1>22, <1>23, SlotEmptied
<1>25. /\ Frame(G) /\ ListedAs(G, m2) /\ G.size = F.size /\ G.slots = U.slots /\ DOMAIN G.slot = DOMAIN U.slot
       /\ G.slot[last].kind = "empty" /\ NextInChain(G)[last] = None
       /\ \A j \in DOMAIN U.slot \ {last} : G.slot[j] = F.slot[j] /\ NextInChain(G)[j] = on[j]
  BY <1>21, <1>24 DEF Gone
<1>26. V = SetJump(G, q, 0)
  BY <1>7, <1>8, <1>10, <1>15, <1>23
<1>27. Items(G) = K \ {last}
  BY <1>2, <1>5, <1>21, <1>25 DEF Items, IsItem
<1>28. JumpIs(G, V, q, 0)
  <2>1. 0 \in 0..Len(JumpDists)
    BY CodeAssumption, LenProperties
  <2> QED
    BY <1>5, <1>6, <1>25, <1>26, <1>27, <2>1, JumpSet
<1>29. /\ Frame(V) /\ V.slots = U.slots /\ V.size = U.size /\ DOMAIN V.slot = DOMAIN U.slot /\ ListedAs(V, m2)
       /\ V.slot[last].kind = "empty"
       /\ \A j \in DOMAIN U.slot \ {last} : V.slot[j].kind = U.slot[j].kind
       /\ \A j \in K \ {last} : V.slot[j].key = F.slot[j].key /\ V.slot[j].val = F.slot[j].val
       /\ \A j \in K \ {last} : NextInChain(V)[j] = IF j = q THEN None ELSE on[j]
  <2>1. /\ Frame(V) /\ V.slots = U.slots /\ V.size = U.size /\ DOMAIN V.slot = DOMAIN U.slot /\ ListedAs(V, m2)
        /\ V.slot[last].kind = "empty"
    BY <1>5, <1>12, <1>20, <1>25, <1>28 DEF JumpIs
  <2>0. /\ \A j \in DOMAIN G.slot : V.slot[j].kind = G.slot[j].kind
        /\ \A j \in DOMAIN G.slot : j # q => NextInChain(V)[j] = NextInChain(G)[j]
        /\ \A j \in Items(G) : V.slot[j].key = G.slot[j].key /\ V.slot[j].val = G.slot[j].val
        /\ NextInChain(V)[q] = None
    BY <1>28 DEF JumpIs
  <2>2. \A j \in DOMAIN U.slot \ {last} : V.slot[j].kind = U.slot[j].kind
    <3> TAKE j \in DOMAIN U.slot \ {last}
    <3>1. j \in DOMAIN G.slot /\ j \in DOMAIN U.slot /\ G.slot[j] = F.slot[j]
      BY <1>25
    <3>2. V.slot[j].kind = G.slot[j].kind
      BY <2>0, <3>1
    <3>3. F.slot[j].kind = U.slot[j].kind
      BY <1>21, <3>1
    <3> QED
      BY <3>1, <3>2, <3>3, Zenon
  <2>3. ASSUME NEW j \in K \ {last}
        PROVE  V.slot[j].key = F.slot[j].key /\ V.slot[j].val = F.slot[j].val
    <3>1. j \in Items(G) /\ j \in DOMAIN U.slot \ {last}
      BY <1>5, <1>27
    <3>2. G.slot[j] = F.slot[j]
      BY <1>25, <3>1
    <3>3. V.slot[j].key = G.slot[j].key /\ V.slot[j].val = G.slot[j].val
      BY <2>0, <3>1
    <3> QED
      BY <3>2, <3>3, Zenon
  <2>4. ASSUME NEW j \in K \ {last}
        PROVE  NextInChain(V)[j] = IF j = q THEN None ELSE on[j]
    <3>1. j \in DOMAIN G.slot /\ j \in DOMAIN U.slot \ {last}
      BY <1>5, <1>25
    <3>2. NextInChain(G)[j] = on[j]
      BY <1>25, <3>1
    <3>3. j # q => NextInChain(V)[j] = NextInChain(G)[j]
      BY <2>0, <3>1
    <3> QED
      BY <2>0, <3>2, <3>3
  <2> QED
    BY <2>1, <2>2, <2>3, <2>4
<1>30. \A j \in K \ {last} : LET o == IF j = i THEN last ELSE j
                             IN  V.slot[j].key = U.slot[o].key /\ V.slot[j].val = U.slot[o].val
  <2> TAKE j \in K \ {last}
  <2>1. V.slot[j].key = W.slot[j].key /\ V.slot[j].val = W.slot[j].val
    <3>1. F.slot[j].key = W.slot[j].key /\ F.slot[j].val = W.slot[j].val
      BY <1>20, <1>21
    <3> QED
      BY <1>29, <3>1
  <2>2. CASE j = i
    BY <1>7, <1>8, <1>12, <2>1, <2>2
  <2>3. CASE j # i
    BY <1>5, <1>12, <2>1, <2>3
  <2> QED
    BY <2>2, <2>3
<1>31. Removed(U, V, last, i)
  BY <1>1, <1>2, <1>3, <1>5, <1>29, <1>30 DEF Removed
<1>32. Leaving(U, V, last)
  BY <1>1, <1>31, ItemRemoved
<1>33. /\ Items(V) = K \ {last} /\ KeysApart(V) /\ HeadsAtHome(V) /\ Valued(V, Items(V))
       /\ \A j \in DOMAIN V.slot : V.slot[j].kind # "protected"
       /\ \A j \in K \ {last} : HomeOf(V)[j] = home[j]
  BY <1>2, <1>3, <1>32 DEF Leaving
<1>34. Chained(HomeOf(V), NextInChain(V), d, K \ {last})
  <2>1. PICK home2 : home2 = HomeOf(V)
    OBVIOUS
  <2>2. PICK on2 : on2 = NextInChain(V)
    OBVIOUS
  <2>3. CutAfter(q, K \ {last}, home, on, home2, on2)
    BY <1>29, <1>33, <2>1, <2>2 DEF CutAfter
  <2>4. Chained(home2, on2, d, K \ {last})
    BY <1>5, <2>3, EndCut
  <2> QED
    BY <2>1, <2>2, <2>4
<1>35. Sound(V, m2, d)
  <2>1. Body(V, d)
    BY <1>29, <1>33, <1>34 DEF Body
  <2>2. Members(m2) = Items(V)
    BY <1>1, <1>2, <1>5, <1>18, <1>33 DEF Listing
  <2> QED
    BY <1>1, <1>18, <1>29, <1>33, <2>1, <2>2 DEF Sound, Listing
<1>36. Listed(V, m2) = Listed(U, m)
  <2>1. ASSUME NEW n \in DOMAIN m PROVE PairAt(V, m2[n]) = PairAt(U, m[n])
    <3>1. CASE n = x
      BY <1>5, <1>7, <1>8, <1>14, <1>18, <1>30, <3>1 DEF PairAt
    <3>2. CASE n # x
      <4>1. m2[n] = m[n] /\ m[n] # last /\ m[n] \in K \ {i}
        BY <1>13, <1>14, <1>18, <3>2
      <4>2. PICK b : b = m[n]
        OBVIOUS
      <4>3. b \in K \ {last} /\ b # i /\ m2[n] = b
        BY <4>1, <4>2
      <4>4. V.slot[b].key = U.slot[b].key /\ V.slot[b].val = U.slot[b].val
        BY <1>30, <4>3
      <4>5. PairAt(V, b) = PairAt(U, b)
        BY <4>4, Zenon DEF PairAt
      <4> QED
        BY <4>2, <4>3, <4>5, Zenon
    <3> QED
      BY <3>1, <3>2
  <2> QED
    BY <1>18, <2>1 DEF Listed
<1> QED
  BY <1>29, <1>35, <1>36

Shrunk(T) == [T EXCEPT !.size = @ - 1]

\* Erase, with its writes named.
LEMMA EraseIs ==
  ASSUME NEW T, NEW k
  PROVE  LET i == Search(T, k)
             rest == Chain(T, i)
             U == IterListUnlink(Shrunk(T), i)
             last == Last(rest)
         IN  DenseErase(T, k) =
               IF i = None THEN T
               ELSE IF Len(rest) = 1
               THEN Emptied(IF IsHead(T, i) THEN U ELSE SetJump(U, FindPrev(T, i), 0), i)
               ELSE SetJump(Emptied(IterListReplaceNodeBy(
                                Copied(U, i, T.slot[last].key, T.slot[last].val), last, i), last),
                            rest[Len(rest) - 1], 0)
BY Zenon DEF DenseErase, Emptied, Copied, Shrunk

LEMMA ShrunkKept ==
  ASSUME NEW T, Frame(T)
  PROVE  /\ Kept(T, Shrunk(T)) /\ Shrunk(T).size = T.size - 1
         /\ \A j \in DOMAIN T.slot : Shrunk(T).slot[j] = T.slot[j]
         /\ \A l : ListedAs(T, l) => ListedAs(Shrunk(T), l)
<1>1. PICK U : U = Shrunk(T)
  OBVIOUS
<1>2. /\ DOMAIN U = DOMAIN T /\ U.layout = T.layout /\ U.slots = T.slots /\ U.slot = T.slot
      /\ U.head = T.head /\ U.tail = T.tail /\ U.size = T.size - 1
  BY <1>1 DEF Shrunk, Frame
<1>3. Frame(U)
  BY <1>2 DEF Frame
<1>4. \A j \in DOMAIN T.slot : NextInChain(U)[j] = NextInChain(T)[j]
  BY <1>2 DEF NextInChain, Jumped
<1>5. Kept(T, U)
  BY <1>2, <1>3, <1>4 DEF Kept
<1>6. \A l : ListedAs(T, l) => ListedAs(U, l)
  BY <1>2 DEF ListedAs, HasLinks
<1> QED
  BY <1>1, <1>2, <1>5, <1>6

\* Chains do not change when the slots' kinds, keys and jumps do not.
LEMMA SameChains ==
  ASSUME NEW T, Frame(T), NEW U, Kept(T, U)
  PROVE  NextInChain(U) = NextInChain(T) /\ \A i : Chain(U, i) = Chain(T, i)
<1>1. DOMAIN NextInChain(U) = DOMAIN T.slot /\ DOMAIN NextInChain(T) = DOMAIN T.slot
  BY DEF Kept, NextInChain
<1>2. NextInChain(U) = [j \in DOMAIN T.slot |-> NextInChain(U)[j]] /\ NextInChain(T) = [j \in DOMAIN T.slot |-> NextInChain(T)[j]]
  BY DEF NextInChain, Kept
<1>3. NextInChain(U) = NextInChain(T)
  BY <1>1, <1>2 DEF Kept
<1> QED
  BY <1>3 DEF Chain, Kept

LEMMA KeptTrans ==
  ASSUME NEW T, Frame(T), NEW U, Kept(T, U), NEW V, Kept(U, V)
  PROVE  Kept(T, V) /\ Items(U) = Items(T)
<1>1. Items(U) = Items(T)
  BY DEF Kept, Items, IsItem
<1> QED
  BY <1>1 DEF Kept

LEMMA SamePrev ==
  ASSUME NEW T, Frame(T), NEW U, Kept(T, U), NEW i \in Items(T)
  PROVE  FindPrev(U, i) = FindPrev(T, i) /\ (IsHead(U, i) <=> IsHead(T, i))
<1>1. i \in DOMAIN T.slot /\ U.slot[i].key = T.slot[i].key /\ U.slots = T.slots
  BY DEF Items, Kept
<1>2. IndexFromHash(U, U.slot[i].key) = IndexFromHash(T, T.slot[i].key)
  BY <1>1 DEF IndexFromHash
<1>3. Chain(U, IndexFromHash(U, U.slot[i].key)) = Chain(T, IndexFromHash(T, T.slot[i].key))
  BY <1>2, SameChains
<1>4. PICK c : c = Chain(T, IndexFromHash(T, T.slot[i].key))
  OBVIOUS
<1>5. PICK n : n = SelectInSeq(c, LAMBDA j : j = i)
  OBVIOUS
<1>6. FindPrev(U, i) = c[n - 1]
  BY <1>3, <1>4, <1>5, Zenon DEF FindPrev
<1>7. FindPrev(T, i) = c[n - 1]
  BY <1>4, <1>5, Zenon DEF FindPrev
<1> QED
  BY <1>1, <1>6, <1>7 DEF IsHead, Kept

\* Erasing a key of a dense map takes out its pair and leaves a sound table with the other
\* pairs in their order, whether its slot is emptied or filled by the last of its chain.
THEOREM DenseErased ==
  ASSUME NEW T, NEW l, NEW d, Sound(T, l, d), NEW k \in Key
  PROVE  \E l2 : /\ Sound(DenseErase(T, k), l2, d) /\ DenseErase(T, k).slots = T.slots
                 /\ Pairs(DenseErase(T, k)) = Rest(Pairs(T), k)
<1>1. /\ Body(T, d) /\ Frame(T) /\ KeysApart(T) /\ HeadsAtHome(T) /\ Listing(T, l, Items(T)) /\ ListedAs(T, l)
      /\ Valued(T, Items(T)) /\ Len(l) = T.size /\ Len(l) \in Nat /\ DOMAIN l = 1..Len(l)
      /\ Chained(HomeOf(T), NextInChain(T), d, Items(T))
  BY DEF Sound, Body, Listing, ListedAs
<1>2. Pairs(T) = Listed(T, l)
  BY <1>1, PairsListed
<1>3. CASE \A j \in Items(T) : T.slot[j].key # k
  <2>1. Search(T, k) = None
    BY <1>1, <1>3, NotFound
  <2>2. DenseErase(T, k) = T
    BY <2>1, EraseIs
  <2>3. Rest(Listed(T, l), k) = Listed(T, l)
    BY <1>1, <1>3, NothingToTakeOut
  <2> QED
    BY <1>2, <2>2, <2>3
<1>4. ASSUME NEW i \in Items(T), T.slot[i].key = k
      PROVE  \E l2 : /\ Sound(DenseErase(T, k), l2, d) /\ DenseErase(T, k).slots = T.slots
                     /\ Pairs(DenseErase(T, k)) = Rest(Pairs(T), k)
  <2>1. PICK n \in DOMAIN l : l[n] = i
    BY <1>1 DEF Listing, Members
  <2>2. T.size # 0
    BY <1>1, <2>1
  <2>3. Search(T, k) = i
    BY <1>1, <1>4, <2>2, Found
  <2>4. i \in DOMAIN T.slot /\ i # None
    BY <1>1, SlotOfFrame DEF Items
  <2>5. PICK T1 : T1 = Shrunk(T)
    OBVIOUS
  <2>6. /\ Kept(T, T1) /\ T1.size = T.size - 1 /\ ListedAs(T1, l)
        /\ \A j \in DOMAIN T.slot : T1.slot[j] = T.slot[j]
    BY <1>1, <2>5, ShrunkKept
  <2>7. Body(T1, d) /\ Items(T1) = Items(T)
    BY <1>1, <2>6, KeptBody
  <2>8. Listing(T1, l, Items(T1)) /\ Valued(T1, Items(T1))
    BY <1>1, <2>6, <2>7 DEF Listing, Valued, Items
  <2>9. PICK U : U = IterListUnlink(T1, i)
    OBVIOUS
  <2>10. PICK m : m = RemoveAt(l, n)
    OBVIOUS
  <2>11. Unlinked(T1, U, l, m, n, i, d)
    BY <2>1, <2>7, <2>8, <2>9, <2>10, ItemUnlinked
  <2>12. /\ Body(U, d) /\ Frame(U) /\ Items(U) = Items(T) /\ Kept(T1, U) /\ U.size = T1.size
         /\ Listing(U, m, Items(U) \ {i}) /\ Len(m) = Len(l) - 1 /\ Valued(U, Items(U))
         /\ Listed(U, m) = RemoveAt(Listed(T1, l), n)
         /\ \A j \in Items(T) : PairAt(U, j) = PairAt(T1, j)
    BY <2>7, <2>11 DEF Unlinked, Body
  <2>13. Kept(T, U)
    BY <1>1, <2>6, <2>12, KeptTrans
  <2>14. Leaves(U, d, i, m)
    BY <1>1, <2>6, <2>12 DEF Leaves
  <2>15. Listed(T1, l) = Listed(T, l)
    <3>1. \A p \in DOMAIN l : PairAt(T1, l[p]) = PairAt(T, l[p])
      BY <1>1, <2>6 DEF PairAt, Listing, Members, Items
    <3> QED
      BY <3>1 DEF Listed
  <2>16. Listed(U, m) = Rest(Listed(T, l), k)
    BY <1>4, <2>1, <2>12, <2>15, RestAtPlace
  <2>17. NextInChain(U) = NextInChain(T) /\ Chain(U, i) = Chain(T, i)
    BY <1>1, <2>13, SameChains
  <2>18. PICK rest : rest = Chain(T, i)
    OBVIOUS
  <2>19. PICK home : home = HomeOf(U)
    OBVIOUS
  <2>20. PICK on : on = NextInChain(U)
    OBVIOUS
  <2>21. PICK K : K = Items(U)
    OBVIOUS
  <2>22. Chained(home, on, d, K) /\ i \in K
    BY <2>12, <2>19, <2>20, <2>21 DEF Body
  <2>23. Runs(home, on, d, K, i, rest)
    BY <2>12, <2>17, <2>18, <2>19, <2>20, <2>21, <2>22, ChainRuns
  <2>24. PICK V : V = DenseErase(T, k)
    OBVIOUS
  <2>25. \E l2 : Sound(V, l2, d) /\ V.slots = U.slots /\ Listed(V, l2) = Listed(U, m)
    <3>1. CASE Len(rest) = 1
      <4>1. on[i] = None
        BY <2>23, <3>1 DEF Runs
      <4>2. FindPrev(U, i) = FindPrev(T, i) /\ (IsHead(U, i) <=> IsHead(T, i))
        BY <1>1, <2>13, SamePrev
      <4>3. V = Emptied(IF IsHead(T, i) THEN U ELSE SetJump(U, FindPrev(T, i), 0), i)
        BY <2>3, <2>4, <2>5, <2>9, <2>18, <2>24, <3>1, EraseIs
      <4>4. V = Emptied(IF IsHead(U, i) THEN U ELSE SetJump(U, FindPrev(U, i), 0), i)
        BY <4>2, <4>3
      <4> QED
        BY <2>14, <2>20, <4>1, <4>4, EraseLast
    <3>2. CASE Len(rest) # 1
      <4>1. PICK last : last = Last(rest)
        OBVIOUS
      <4>2. PICK q : q = rest[Len(rest) - 1]
        OBVIOUS
      <4>3. /\ Len(rest) \in 1..Len(rest) /\ Len(rest) - 1 \in 1..Len(rest) /\ Len(rest) - 1 \in 1..Len(rest) - 1
            /\ (Len(rest) - 1) + 1 = Len(rest) /\ Len(rest) - 1 > 0
        <5>1. \A p \in Nat \ {0} : p # 1 => /\ p \in 1..p /\ p - 1 \in 1..p /\ p - 1 \in 1..p - 1
                                         /\ (p - 1) + 1 = p /\ p - 1 > 0
          OBVIOUS
        <5>2. Len(rest) \in Nat \ {0}
          BY <2>23 DEF Runs
        <5> QED
          BY <3>2, <5>1, <5>2, Zenon
      <4>4. last = rest[Len(rest)]
        BY <4>1 DEF Last
      <4>5. /\ last \in K /\ home[last] = home[i] /\ on[last] = None /\ q \in K /\ on[q] = last
        BY <2>23, <4>2, <4>3, <4>4 DEF Runs
      <4>6. d[i] \in Nat
        BY <2>22, AtSlot
      <4>7. d[last] = d[i] + (Len(rest) - 1)
        BY <2>23, <4>3, <4>4 DEF Runs
      <4>8. d[last] # 0 /\ d[last] # d[i]
        BY <4>3, <4>6, <4>7
      <4>9. last # i
        BY <4>8
      <4>10. T.slot[last].key = U.slot[last].key /\ T.slot[last].val = U.slot[last].val
        <5>1. last \in Items(T) /\ last \in DOMAIN T.slot
          BY <2>12, <2>21, <4>5 DEF Items
        <5>2. PairAt(U, last) = PairAt(T1, last) /\ T1.slot[last] = T.slot[last]
          BY <2>6, <2>12, <5>1
        <5> QED
          BY <5>2 DEF PairAt
      <4>11. V = SetJump(Emptied(IterListReplaceNodeBy(
                    Copied(U, i, U.slot[last].key, U.slot[last].val), last, i), last), q, 0)
        <5>1. V = SetJump(Emptied(IterListReplaceNodeBy(
                    Copied(U, i, T.slot[last].key, T.slot[last].val), last, i), last), q, 0)
          BY <2>3, <2>4, <2>5, <2>9, <2>18, <2>24, <3>2, <4>1, <4>2, EraseIs
        <5> QED
          BY <4>10, <5>1
      <4> QED
        BY <2>14, <2>19, <2>20, <2>21, <4>5, <4>8, <4>9, <4>11, EraseFilled
    <3> QED
      BY <3>1, <3>2
  <2>26. PICK l2 : Sound(V, l2, d) /\ V.slots = U.slots /\ Listed(V, l2) = Listed(U, m)
    BY <2>25
  <2>27. Pairs(V) = Listed(V, l2)
    BY <2>26, PairsListed DEF Sound, Body, Listing
  <2>28. Sound(V, l2, d) /\ V.slots = T.slots /\ Pairs(V) = Rest(Pairs(T), k)
    BY <1>2, <2>13, <2>16, <2>26, <2>27 DEF Kept
  <2> QED
    BY <2>24, <2>28
<1> QED
  BY <1>3, <1>4

-----------------------------------------------------------------------------
(* A chain that gives way to another one.                                  *)

Put(T, i, s) == [T EXCEPT !.slot[i] = s]

\* D is U with the item of r in e, behind at on its chain, and x left in r.
Shifted(U, D, r, e, at, x) ==
    /\ Frame(D) /\ D.slots = U.slots /\ D.size = U.size /\ DOMAIN D.slot = DOMAIN U.slot
    /\ D.slot[e].kind = "body" /\ D.slot[e].key = U.slot[r].key /\ D.slot[e].val = U.slot[r].val
    /\ NextInChain(D)[e] = None /\ NextInChain(D)[at] = e /\ D.slot[r].kind = x.kind
    /\ \A j \in DOMAIN U.slot \ {e, r} : D.slot[j].kind = U.slot[j].kind
    /\ \A j \in Items(U) \ {r} : D.slot[j].key = U.slot[j].key /\ D.slot[j].val = U.slot[j].val
    /\ \A j \in DOMAIN U.slot \ {e, r, at} : NextInChain(D)[j] = NextInChain(U)[j]

\* One turn of TrySpareListHead moves an item from r to the empty slot e behind its new chain.
LEMMA ItemShifted ==
  ASSUME NEW U, Frame(U), NEW l, Listing(U, l, Items(U)),
         NEW at \in Items(U), NEW x \in DOMAIN l, NEW r, r = l[x], r # at,
         NEW jump, jump = GetNextEmpty(U, at), jump # 0, NEW e, e = Jumped(U, at, jump),
         NEW left \in {EmptySlot, ProtectedSlot},
         NEW D, D = SetJump(Put(IterListReplaceNodeBy(Put(U, e, Item("body", <<U.slot[r].key, U.slot[r].val>>)), r, e),
                                r, left), at, jump)
  PROVE  Shifted(U, D, r, e, at, left) /\ ListedAs(D, ReplaceAt(l, x, e)) /\ e \in DOMAIN U.slot /\ e \notin Items(U)
<1>1. /\ ListedAs(U, l) /\ r \in Items(U) /\ at \in DOMAIN U.slot /\ r \in DOMAIN U.slot
      /\ \A n \in DOMAIN l : l[n] \in Items(U)
      /\ \A a, b \in DOMAIN l : l[a] = l[b] => a = b
  BY DEF Listing, Members, Items, ListedAs
<1>2. /\ jump \in 1..Len(JumpDists) /\ e \in DOMAIN U.slot /\ IsEmpty(U, e) /\ e \notin Items(U)
  BY <1>1, FreeSlot
<1>3. e # r /\ e # at
  BY <1>1, <1>2
<1>4. PICK k : k = U.slot[r].key
  OBVIOUS
<1>5. PICK v : v = U.slot[r].val
  OBVIOUS
<1>6. k \in Key
  BY <1>1, <1>4, SlotOfFrame
<1>7. PICK s : s = Item("body", <<k, v>>)
  OBVIOUS
<1>8. IsSlot(s) /\ s.kind = "body" /\ s.jump = 0 /\ s.key = k /\ s.val = v
  BY <1>6, <1>7, ItemIsSlot
<1>9. PICK A : A = Put(U, e, s)
  OBVIOUS
<1>10. Wrote(U, A, e, s) /\ A.size = U.size
  BY <1>2, <1>9, PutSlot DEF Put
<1>11. Frame(A)
  BY <1>2, <1>8, <1>10, WroteFrame
<1>12. \A n \in DOMAIN l : l[n] # e
  BY <1>1, <1>2
<1>13. ListedAs(A, l)
  BY <1>1, <1>2, <1>10, <1>12, WroteList
<1>14. HasLinks(A, e) /\ IsTable(A)
  <2>1. e \in DOMAIN A.slot /\ A.slot[e] = s
    BY <1>2, <1>10 DEF Wrote
  <2> QED
    BY <1>8, <1>11, <2>1, FrameIsTable DEF HasLinks, IsSlot
<1>15. PICK B : B = IterListReplaceNodeBy(A, r, e)
  OBVIOUS
<1>16. PICK l2 : l2 = ReplaceAt(l, x, e)
  OBVIOUS
<1>17. SameItems(A, B) /\ ListedAs(B, l2)
  <2>1. /\ SameItems(A, IterListReplaceNodeBy(A, l[x], e))
        /\ ListedAs(IterListReplaceNodeBy(A, l[x], e), [l EXCEPT ![x] = e])
    BY <1>12, <1>13, <1>14, Replacing
  <2> QED
    BY <1>15, <1>16, <2>1 DEF ReplaceAt
<1>18. /\ Kept(A, B) /\ B.size = A.size
       /\ \A j \in Items(A) : B.slot[j].val = A.slot[j].val
  BY <1>11, <1>17, SameItemsKept
<1>19. l \in Seq(DOMAIN U.slot)
  BY <1>1 DEF ListedAs
<1>20. DOMAIN l2 = DOMAIN l /\ \A n \in DOMAIN l : l2[n] = IF n = x THEN e ELSE l[n]
  BY <1>1, <1>2, <1>16, <1>19, ReplacedMembers
<1>21. \A n \in DOMAIN l2 : l2[n] # r
  BY <1>1, <1>3, <1>20
<1>22. PICK C : C = Put(B, r, left)
  OBVIOUS
<1>23. Frame(B) /\ r \in DOMAIN B.slot /\ DOMAIN B.slot = DOMAIN U.slot /\ B.slots = U.slots
  BY <1>1, <1>10, <1>18 DEF Kept, Wrote
<1>24. Wrote(B, C, r, left) /\ C.size = B.size
  BY <1>22, <1>23, PutSlot DEF Put
<1>25. IsSlot(left) /\ left.kind \in {"empty", "protected"}
  BY EmptyIsSlot
<1>26. Frame(C)
  BY <1>23, <1>24, <1>25, WroteFrame
<1>27. ListedAs(C, l2)
  BY <1>17, <1>21, <1>23, <1>24, WroteList
<1>28. /\ \A j \in DOMAIN U.slot : A.slot[j].kind = IF j = e THEN "body" ELSE U.slot[j].kind
       /\ \A j \in DOMAIN U.slot \ {e} : A.slot[j] = U.slot[j]
       /\ Items(A) = Items(U) \cup {e}
  <2>1. \A j \in DOMAIN U.slot : A.slot[j].kind = IF j = e THEN "body" ELSE U.slot[j].kind
    BY <1>8, <1>10 DEF Wrote
  <2>2. \A j \in DOMAIN U.slot \ {e} : A.slot[j] = U.slot[j]
    BY <1>10 DEF Wrote
  <2>3. DOMAIN A.slot = DOMAIN U.slot
    BY <1>10 DEF Wrote
  <2> QED
    BY <1>2, <2>1, <2>2, <2>3 DEF Items, IsItem
<1>29. \A j \in DOMAIN U.slot : NextInChain(A)[j] = IF j = e THEN None ELSE NextInChain(U)[j]
  BY <1>8, <1>10, <1>28 DEF Wrote, NextInChain, Jumped
<1>30. \A j \in DOMAIN U.slot \ {r} : C.slot[j] = B.slot[j] /\ NextInChain(C)[j] = NextInChain(B)[j]
  BY <1>23, <1>24 DEF Wrote, NextInChain, Jumped
<1>31. at \in Items(C)
  <2>1. at \in DOMAIN C.slot
    BY <1>1, <1>23, <1>24 DEF Wrote
  <2>2. C.slot[at] = B.slot[at]
    BY <1>1, <1>30
  <2>3. B.slot[at].kind = A.slot[at].kind
    BY <1>1, <1>10, <1>18 DEF Kept, Wrote
  <2>4. A.slot[at] = U.slot[at]
    BY <1>1, <1>3, <1>28
  <2> QED
    BY <2>1, <2>2, <2>3, <2>4 DEF Items, IsItem
<1>32. jump \in 0..Len(JumpDists)
  BY <1>2
<1>33. D = SetJump(C, at, jump)
  BY <1>4, <1>5, <1>7, <1>9, <1>15, <1>22
<1>34. JumpIs(C, D, at, jump)
  BY <1>26, <1>31, <1>32, <1>33, JumpSet
<1>35. /\ Frame(D) /\ D.slots = C.slots /\ D.size = C.size /\ DOMAIN D.slot = DOMAIN C.slot
       /\ \A j \in DOMAIN C.slot : D.slot[j].kind = C.slot[j].kind
       /\ \A j \in DOMAIN C.slot : j # at => NextInChain(D)[j] = NextInChain(C)[j]
       /\ \A j \in Items(C) : D.slot[j].key = C.slot[j].key /\ D.slot[j].val = C.slot[j].val
       /\ NextInChain(D)[at] = Jumped(C, at, jump)
       /\ ListedAs(D, l2)
  BY <1>27, <1>34 DEF JumpIs
<1>36. C.slots = U.slots /\ DOMAIN C.slot = DOMAIN U.slot /\ C.size = U.size /\ C.slot[r] = left
  BY <1>10, <1>18, <1>23, <1>24 DEF Wrote
<1>37. Jumped(C, at, jump) = e
  BY <1>36 DEF Jumped
<1>38. \A j \in DOMAIN U.slot \ {r} :
          /\ D.slot[j].kind = IF j = e THEN "body" ELSE U.slot[j].kind
          /\ j # at => NextInChain(D)[j] = IF j = e THEN None ELSE NextInChain(U)[j]
  <2> TAKE j \in DOMAIN U.slot \ {r}
  <2>1. j \in DOMAIN C.slot /\ j \in DOMAIN A.slot /\ j \in DOMAIN U.slot
    BY <1>10, <1>36 DEF Wrote
  <2>2. D.slot[j].kind = C.slot[j].kind
    BY <1>35, <2>1
  <2>3. C.slot[j] = B.slot[j] /\ NextInChain(C)[j] = NextInChain(B)[j]
    BY <1>30
  <2>4. B.slot[j].kind = A.slot[j].kind /\ NextInChain(B)[j] = NextInChain(A)[j]
    BY <1>18, <2>1 DEF Kept
  <2>5. j # at => NextInChain(D)[j] = NextInChain(C)[j]
    BY <1>35, <2>1
  <2>6. D.slot[j].kind = A.slot[j].kind
    BY <2>2, <2>3, <2>4
  <2>7. j # at => NextInChain(D)[j] = NextInChain(A)[j]
    BY <2>3, <2>4, <2>5
  <2>8. /\ A.slot[j].kind = IF j = e THEN "body" ELSE U.slot[j].kind
        /\ NextInChain(A)[j] = IF j = e THEN None ELSE NextInChain(U)[j]
    BY <1>28, <1>29, <2>1
  <2> QED
    BY <2>6, <2>7, <2>8
<1>39. \A j \in Items(A) \ {r} : D.slot[j].key = A.slot[j].key /\ D.slot[j].val = A.slot[j].val
  <2> TAKE j \in Items(A) \ {r}
  <2>1. j \in Items(A) /\ j \in DOMAIN U.slot \ {r}
    BY <1>10 DEF Items, Wrote
  <2>2. C.slot[j] = B.slot[j]
    BY <1>30, <2>1
  <2>3. B.slot[j].key = A.slot[j].key /\ B.slot[j].val = A.slot[j].val
    BY <1>18, <2>1 DEF Kept
  <2>4. B.slot[j].kind = A.slot[j].kind
    BY <1>18, <2>1 DEF Kept, Items
  <2>5. j \in Items(C)
    BY <1>36, <2>1, <2>2, <2>4 DEF Items, IsItem
  <2>6. D.slot[j].key = C.slot[j].key /\ D.slot[j].val = C.slot[j].val
    BY <1>35, <2>5
  <2> QED
    BY <2>2, <2>3, <2>6, Zenon
<1>40. A.slot[e] = s
  BY <1>10 DEF Wrote
<1>41. D.slot[e].kind = "body" /\ D.slot[e].key = k /\ D.slot[e].val = v /\ NextInChain(D)[e] = None
  <2>1. e \in Items(A) \ {r} /\ e \in DOMAIN U.slot \ {r}
    BY <1>2, <1>3, <1>28
  <2>2. D.slot[e].key = s.key /\ D.slot[e].val = s.val
    BY <1>39, <1>40, <2>1
  <2> QED
    BY <1>3, <1>8, <1>38, <2>1, <2>2
<1>42. \A j \in Items(U) \ {r} : D.slot[j].key = U.slot[j].key /\ D.slot[j].val = U.slot[j].val
  <2> TAKE j \in Items(U) \ {r}
  <2>1. j \in Items(A) \ {r} /\ j \in DOMAIN U.slot \ {e}
    BY <1>2, <1>28 DEF Items
  <2>2. D.slot[j].key = A.slot[j].key /\ D.slot[j].val = A.slot[j].val
    BY <1>39, <2>1
  <2>3. A.slot[j] = U.slot[j]
    BY <1>28, <2>1
  <2> QED
    BY <2>2, <2>3
<1>43. \A j \in DOMAIN U.slot \ {e, r} : D.slot[j].kind = U.slot[j].kind
  BY <1>38
<1>44. \A j \in DOMAIN U.slot \ {e, r, at} : NextInChain(D)[j] = NextInChain(U)[j]
  BY <1>38
<1>45. D.slot[r].kind = left.kind
  BY <1>1, <1>35, <1>36
<1>46. /\ Frame(D) /\ D.slots = U.slots /\ D.size = U.size /\ DOMAIN D.slot = DOMAIN U.slot /\ NextInChain(D)[at] = e
  BY <1>35, <1>36, <1>37
<1>47. Shifted(U, D, r, e, at, left)
  BY <1>4, <1>5, <1>41, <1>42, <1>43, <1>44, <1>45, <1>46 DEF Shifted
<1> QED
  BY <1>2, <1>16, <1>35, <1>47

\* The moved item keeps its place in the list.
LEMMA ShiftedList ==
  ASSUME NEW U, Frame(U), NEW l, Listing(U, l, Items(U)), NEW x \in DOMAIN l, NEW r, r = l[x],
         NEW e \in DOMAIN U.slot, e \notin Items(U), NEW at, NEW left, left.kind \in {"empty", "protected"},
         NEW D, Shifted(U, D, r, e, at, left), NEW l2, l2 = ReplaceAt(l, x, e), ListedAs(D, l2)
  PROVE  /\ Items(D) = (Items(U) \ {r}) \cup {e}
         /\ Listing(D, l2, Items(D)) /\ Len(l2) = Len(l) /\ Listed(D, l2) = Listed(U, l)
<1>1. /\ l \in Seq(DOMAIN U.slot) /\ \A a, b \in DOMAIN l : l[a] = l[b] => a = b
      /\ Members(l) = Items(U) /\ \A n \in DOMAIN l : l[n] \in Items(U)
  BY DEF Listing, Members, ListedAs
<1>2. /\ Members(l2) = (Members(l) \ {r}) \cup {e} /\ Len(l2) = Len(l) /\ DOMAIN l2 = DOMAIN l
      /\ \A n \in DOMAIN l : l2[n] = IF n = x THEN e ELSE l[n]
  BY <1>1, ReplacedMembers
<1>3. r # e /\ r \in Items(U)
  BY <1>1
<1>4. /\ DOMAIN D.slot = DOMAIN U.slot
      /\ D.slot[e].kind = "body" /\ D.slot[e].key = U.slot[r].key /\ D.slot[e].val = U.slot[r].val
      /\ D.slot[r].kind = left.kind
      /\ \A j \in DOMAIN U.slot \ {e, r} : D.slot[j].kind = U.slot[j].kind
      /\ \A j \in Items(U) \ {r} : D.slot[j].key = U.slot[j].key /\ D.slot[j].val = U.slot[j].val
  BY DEF Shifted
<1>5. Items(D) = (Items(U) \ {r}) \cup {e}
  BY <1>3, <1>4 DEF Items, IsItem
<1>6. Listing(D, l2, Items(D))
  BY <1>1, <1>2, <1>5 DEF Listing
<1>7. ASSUME NEW n \in DOMAIN l PROVE PairAt(D, l2[n]) = PairAt(U, l[n])
  <2>1. CASE n = x
    BY <1>2, <1>4, <2>1 DEF PairAt
  <2>2. CASE n # x
    <3>1. l2[n] = l[n] /\ l[n] \in Items(U) \ {r}
      BY <1>1, <1>2, <2>2
    <3> QED
      BY <1>4, <3>1 DEF PairAt
  <2> QED
    BY <2>1, <2>2
<1>8. Listed(D, l2) = Listed(U, l)
  BY <1>2, <1>7 DEF Listed
<1> QED
  BY <1>2, <1>5, <1>6, <1>8

\* U lists in l2 what T lists in l.
SameList(T, l, U, l2) ==
    /\ Frame(U) /\ U.slots = T.slots /\ U.size = T.size
    /\ Listing(U, l2, Items(U)) /\ Len(l2) = Len(l) /\ Listed(U, l2) = Listed(T, l)

\* The slots of the run w that are still to be moved after n of them.
Rests(w, n) == {w[p] : p \in n + 1 .. Len(w)}

\* After n turns the items but those still to be moved are on sound chains, the last of which,
\* for the home h, ends in at.  Only the slot target is protected, once it is free.
Sparing(U, at, w, n, target, h, on, d) ==
    /\ Chained(HomeOf(U), on, d, Items(U) \ Rests(w, n))
    /\ at \in Items(U) \ Rests(w, n) /\ on[at] = None /\ HomeOf(U)[at] = h
    /\ \A j \in Items(U) \ Rests(w, n) : /\ (IsHead(U, j) <=> HomeOf(U)[j] = j)
                                         /\ j # at => on[j] = NextInChain(U)[j]
    /\ \A j \in Rests(w, n) : j \in Items(U) /\ HomeOf(U)[j] = h
    /\ \A j \in DOMAIN U.slot : U.slot[j].kind = "protected" => j = target
    /\ n # 0 => U.slot[target].kind = "protected" /\ NextInChain(U)[at] = None

\* The chain that is moved is cut off before its first slot.
LEMMA RestCut ==
  ASSUME NEW home, NEW on, NEW d, NEW K, Chained(home, on, d, K),
         NEW t \in K, d[t] # 0, NEW w, Runs(home, on, d, K, t, w),
         NEW b \in K, on[b] = t, NEW R, R = Passed(w),
         NEW home2, NEW on2, CutAfter(b, K \ R, home, on, home2, on2)
  PROVE  Chained(home2, on2, d, K \ R) /\ b \in K \ R
<1>1. \A j \in K \ R : home2[j] = home[j] /\ on2[j] = IF j = b THEN None ELSE on[j]
  BY DEF CutAfter
<1> QED
  BY <1>1, ChainCut

\* The whole chain is still to be moved.
LEMMA SparingStarts ==
  ASSUME NEW T, NEW l, NEW d, Sound(T, l, d), NEW target \in Items(T), ~IsHead(T, target),
         NEW w, w = Chain(T, target), NEW h, h = HomeOf(T)[target], NEW at, at = FindPrev(T, target)
  PROVE  SameList(T, l, T, l) /\ \E on : Sparing(T, at, w, 0, target, h, on, d)
<1>1. /\ Body(T, d) /\ Frame(T) /\ HeadsAtHome(T) /\ Listing(T, l, Items(T))
      /\ \A j \in DOMAIN T.slot : T.slot[j].kind # "protected"
      /\ Chained(HomeOf(T), NextInChain(T), d, Items(T))
  BY DEF Sound, Body
<1>2. PICK K : K = Items(T)
  OBVIOUS
<1>3. PICK home : home = HomeOf(T)
  OBVIOUS
<1>4. PICK on : on = NextInChain(T)
  OBVIOUS
<1>5. Chained(home, on, d, K) /\ target \in K
  BY <1>1, <1>2, <1>3, <1>4
<1>6. d[target] # 0
  <2>1. target # home[target]
    BY <1>1, <1>3 DEF HeadsAtHome
  <2> QED
    BY <1>5, <2>1, AtSlot
<1>7. at \in K /\ on[at] = target
  BY <1>1, <1>2, <1>3, <1>4, <1>5, <1>6, FoundPrev
<1>8. Runs(home, on, d, K, target, w)
  BY <1>1, <1>2, <1>3, <1>4, <1>5, ChainRuns
<1>9. PICK R : R = Passed(w)
  OBVIOUS
<1>10. PICK on2 : on2 = [j \in K |-> IF j = at THEN None ELSE on[j]]
  OBVIOUS
<1>11. PICK home2 : home2 = home
  OBVIOUS
<1>12. Chained(home, on2, d, K \ R) /\ at \in K \ R
  <2>1. CutAfter(at, K \ R, home, on, home2, on2)
    BY <1>10, <1>11 DEF CutAfter
  <2>2. Chained(home2, on2, d, K \ R) /\ at \in K \ R
    BY <1>5, <1>6, <1>7, <1>8, <1>9, <2>1, RestCut
  <2> QED
    BY <1>11, <2>2
<1>13. R = Rests(w, 0)
  BY <1>9 DEF Passed, Rests
<1>14. home[at] = h
  <2>1. on[at] # None
    BY <1>5, <1>7, AtSlot
  <2> QED
    BY <1>3, <1>5, <1>7, <2>1, AtSlot
<1>15. \A j \in R : j \in K /\ home[j] = h
  BY <1>3, <1>8, <1>9 DEF Runs, Passed
<1>16. \A j \in K \ R : /\ (IsHead(T, j) <=> home[j] = j)
                        /\ j # at => on2[j] = on[j]
  BY <1>1, <1>2, <1>3, <1>10 DEF HeadsAtHome
<1>17. on2[at] = None
  BY <1>7, <1>10
<1>18. Sparing(T, at, w, 0, target, h, on2, d)
  BY <1>1, <1>2, <1>3, <1>4, <1>12, <1>13, <1>14, <1>15, <1>16, <1>17 DEF Sparing
<1>19. SameList(T, l, T, l)
  BY <1>1 DEF SameList, Sound
<1> QED
  BY <1>18, <1>19

\* One turn moves the first of those slots behind the last of the chain.
LEMMA SparingTurn ==
  ASSUME NEW U, Frame(U), NEW w, NEW n \in 1..Len(w), Len(w) \in Nat, \A p, q \in 1..Len(w) : w[p] = w[q] => p = q,
         NEW target \in DOMAIN U.slot, target = w[1],
         NEW h, NEW at, NEW on, NEW d, Sparing(U, at, w, n - 1, target, h, on, d),
         NEW e \in DOMAIN U.slot, e \notin Items(U), U.slot[e].kind = "empty",
         NEW r, r = w[n], NEW left, left.kind = IF r = target THEN "protected" ELSE "empty",
         NEW D, Shifted(U, D, r, e, at, left), Items(D) = (Items(U) \ {r}) \cup {e}
  PROVE  \E d2 : Sparing(D, e, w, n, target, h, NextInChain(D), d2)
<1>1. PICK K : K = Items(U) \ Rests(w, n - 1)
  OBVIOUS
<1>2. PICK home : home = HomeOf(U)
  OBVIOUS
<1>3. /\ Chained(home, on, d, K) /\ at \in K /\ on[at] = None /\ home[at] = h
      /\ \A j \in K : /\ (IsHead(U, j) <=> home[j] = j)
                      /\ j # at => on[j] = NextInChain(U)[j]
      /\ \A j \in Rests(w, n - 1) : j \in Items(U) /\ home[j] = h
      /\ \A j \in DOMAIN U.slot : U.slot[j].kind = "protected" => j = target
      /\ n - 1 # 0 => U.slot[target].kind = "protected" /\ NextInChain(U)[at] = None
  BY <1>1, <1>2 DEF Sparing
<1>4. Rests(w, n - 1) = Rests(w, n) \cup {r} /\ r \notin Rests(w, n)
  <2>1. n \in Nat /\ n - 1 + 1 = n
    OBVIOUS
  <2>2. Rests(w, n - 1) = {w[p] : p \in n .. Len(w)}
    BY <2>1 DEF Rests
  <2>3. \A p \in n .. Len(w) : p = n \/ p \in n + 1 .. Len(w)
    BY <2>1
  <2>4. \A p \in n + 1 .. Len(w) : p \in n .. Len(w) /\ p # n /\ p \in 1..Len(w)
    BY <2>1
  <2>5. n \in n .. Len(w)
    BY <2>1
  <2>6. r \notin Rests(w, n)
    BY <2>4 DEF Rests
  <2>7. ASSUME NEW j \in Rests(w, n - 1) PROVE j \in Rests(w, n) \cup {r}
    BY <2>2, <2>3 DEF Rests
  <2>8. ASSUME NEW j \in Rests(w, n) \cup {r} PROVE j \in Rests(w, n - 1)
    BY <2>2, <2>4, <2>5 DEF Rests
  <2> QED
    BY <2>6, <2>7, <2>8
<1>5. /\ Frame(D) /\ D.slots = U.slots /\ DOMAIN D.slot = DOMAIN U.slot
      /\ D.slot[e].kind = "body" /\ D.slot[e].key = U.slot[r].key
      /\ NextInChain(D)[e] = None /\ NextInChain(D)[at] = e /\ D.slot[r].kind = left.kind
      /\ \A j \in DOMAIN U.slot \ {e, r} : D.slot[j].kind = U.slot[j].kind
      /\ \A j \in Items(U) \ {r} : D.slot[j].key = U.slot[j].key
      /\ \A j \in DOMAIN U.slot \ {e, r, at} : NextInChain(D)[j] = NextInChain(U)[j]
  BY DEF Shifted
<1>6. r \in Items(U) /\ home[r] = h /\ r \in DOMAIN U.slot /\ r # e /\ e # None /\ r \notin K
  <2>1. r \in Rests(w, n - 1)
    BY <1>4
  <2> QED
    BY <1>1, <1>3, <2>1, SlotOfFrame DEF Items
<1>7. PICK home2 : home2 = HomeOf(D)
  OBVIOUS
<1>8. \A j \in Items(U) \ {r} : home2[j] = home[j]
  <2> TAKE j \in Items(U) \ {r}
  <2>1. j \in DOMAIN U.slot /\ D.slot[j].key = U.slot[j].key
    BY <1>5 DEF Items
  <2> QED
    BY <1>2, <1>5, <1>7, <2>1 DEF HomeOf, IndexFromHash
<1>9. home2[e] = h
  <2>1. home2[e] = IndexFromHash(D, U.slot[r].key) /\ home[r] = IndexFromHash(U, U.slot[r].key)
    BY <1>2, <1>5, <1>6, <1>7 DEF HomeOf
  <2> QED
    BY <1>5, <1>6, <2>1 DEF IndexFromHash
<1>10. PICK K2 : K2 = Items(D) \ Rests(w, n)
  OBVIOUS
<1>11. K2 = K \cup {e} /\ e \notin K /\ \A j \in K : j \in Items(U) \ {r} /\ j \in DOMAIN U.slot \ {e, r}
  <2>1. e \notin Rests(w, n)
    BY <1>3, <1>4
  <2> QED
    BY <1>1, <1>4, <1>6, <1>10, <2>1 DEF Items
<1>12. PICK on2 : on2 = NextInChain(D)
  OBVIOUS
<1>13. \A j \in K : on2[j] = IF j = at THEN e ELSE on[j]
  BY <1>3, <1>5, <1>11, <1>12
<1>14. Lengthened(home, on, K, at, e, home2, on2)
  BY <1>3, <1>5, <1>6, <1>8, <1>9, <1>11, <1>12, <1>13 DEF Lengthened
<1>15. PICK d2 : Chained(home2, on2, d2, K2)
  BY <1>3, <1>11, <1>14, ChainLonger
<1>16. \A j \in K2 : IsHead(D, j) <=> home2[j] = j
  <2> TAKE j \in K2
  <2>1. CASE j = e
    <3>1. h \in K
      BY <1>3, AtSlot
    <3> QED
      BY <1>5, <1>9, <1>11, <2>1, <3>1 DEF IsHead
  <2>2. CASE j # e
    <3>1. j \in K
      BY <1>11, <2>2
    <3>2. D.slot[j].kind = U.slot[j].kind /\ home2[j] = home[j]
      BY <1>5, <1>8, <1>11, <3>1
    <3> QED
      BY <1>3, <3>1, <3>2 DEF IsHead
  <2> QED
    BY <2>1, <2>2
<1>17. \A j \in Rests(w, n) : j \in Items(D) /\ home2[j] = h
  BY <1>3, <1>4, <1>8
<1>18. \A j \in DOMAIN D.slot : D.slot[j].kind = "protected" => j = target
  <2> TAKE j \in DOMAIN D.slot
  <2>1. CASE j = r
    BY <1>5, <2>1
  <2>2. CASE j = e
    BY <1>5, <2>2
  <2>3. CASE j # r /\ j # e
    BY <1>3, <1>5, <2>3
  <2> QED
    BY <2>1, <2>2, <2>3
<1>19. D.slot[target].kind = "protected"
  <2>1. CASE n = 1
    BY <1>5, <2>1
  <2>2. CASE n # 1
    <3>1. U.slot[target].kind = "protected" /\ 1 \in 1..Len(w)
      BY <1>3, <2>2
    <3>2. target # r
      BY <2>2, <3>1
    <3>3. target # e
      BY <3>1
    <3> QED
      BY <1>5, <3>1, <3>2, <3>3
  <2> QED
    BY <2>1, <2>2
<1>20. e \in K2 /\ on2[e] = None
  BY <1>5, <1>11, <1>12
<1>21. Sparing(D, e, w, n, target, h, on2, d2)
  BY <1>7, <1>9, <1>10, <1>12, <1>15, <1>16, <1>17, <1>18, <1>19, <1>20 DEF Sparing
<1> QED
  BY <1>12, <1>21

Failed(s) == [s EXCEPT !.ok = FALSE]

\* One turn of the loop, with its writes named.
LEMMA SpareItemIs ==
  ASSUME NEW s, NEW r, NEW target
  PROVE  LET jump == GetNextEmpty(s.table, s.at)
             e == Jumped(s.table, s.at, jump)
             left == IF r = target THEN ProtectedSlot ELSE EmptySlot
             it == Item("body", <<s.table.slot[r].key, s.table.slot[r].val>>)
         IN  SpareItem(s, r, target) =
               IF ~s.ok \/ jump = 0 THEN Failed(s)
               ELSE Done(SetJump(Put(IterListReplaceNodeBy(Put(s.table, e, it), r, e), r, left), s.at, jump), e)
BY Zenon DEF SpareItem, Put, Failed

\* The state of the loop after each of its turns.
SpareEqs(T, target, w, n, s) ==
    s = [m \in 0 .. n |-> IF m = 0 THEN Done(T, FindPrev(T, target)) ELSE SpareItem(s[m - 1], w[m], target)]

\* There are such states, for any number of turns.
LEMMA SpareEqsHold ==
  ASSUME NEW T, NEW target, NEW w, NEW n \in Nat
  PROVE  \E s : SpareEqs(T, target, w, n, s)
<1> DEFINE Bad == {m \in Nat : ~ \E s : SpareEqs(T, target, w, m, s)}
<1>1. SUFFICES ASSUME Bad # {} PROVE FALSE
  OBVIOUS
<1>2. PICK m \in Bad : \A i \in Bad : m <= i
  BY <1>1, SmallestNumber
<1>3. m # 0
  <2>1. PICK f : f = [i \in 0..0 |-> Done(T, FindPrev(T, target))]
    OBVIOUS
  <2>2. \A i \in 0..0 : i = 0
    OBVIOUS
  <2>3. f = [i \in 0..0 |-> IF i = 0 THEN Done(T, FindPrev(T, target)) ELSE SpareItem(f[i - 1], w[i], target)]
    BY <2>1, <2>2
  <2>4. SpareEqs(T, target, w, 0, f)
    BY <2>3 DEF SpareEqs
  <2> QED
    BY <2>4
<1>4. m - 1 \in Nat /\ m \in Nat
  BY <1>3
<1>5. m - 1 \notin Bad
  BY <1>2, <1>4
<1>6. PICK f : SpareEqs(T, target, w, m - 1, f)
  BY <1>4, <1>5
<1>7. PICK last : last = SpareItem(f[m - 1], w[m], target)
  OBVIOUS
<1>8. PICK g : g = [i \in 0..m |-> IF i = m THEN last ELSE f[i]]
  OBVIOUS
<1>9. \A i \in 0..m : i # m => g[i] = f[i]
  BY <1>8
<1>10. ASSUME NEW i \in 0..m
       PROVE  g[i] = IF i = 0 THEN Done(T, FindPrev(T, target)) ELSE SpareItem(g[i - 1], w[i], target)
  <2>1. CASE i = m
    <3>1. g[m - 1] = f[m - 1]
      BY <1>4, <1>9
    <3>2. g[i] = last
      BY <1>8, <2>1
    <3> QED
      BY <1>3, <1>7, <2>1, <3>1, <3>2
  <2>2. CASE i # m
    <3>1. i \in 0..m - 1 /\ i \in Nat
      BY <1>4, <2>2
    <3>2. f[i] = IF i = 0 THEN Done(T, FindPrev(T, target)) ELSE SpareItem(f[i - 1], w[i], target)
      BY <1>6, <3>1 DEF SpareEqs
    <3>3. i # 0 => g[i - 1] = f[i - 1]
      <4>1. i # 0 => i - 1 \in 0..m /\ i - 1 # m
        BY <1>4, <3>1
      <4> QED
        BY <1>9, <4>1
    <3>4. g[i] = f[i]
      BY <1>9, <2>2
    <3> QED
      BY <3>2, <3>3, <3>4
  <2> QED
    BY <2>1, <2>2
<1>11. DOMAIN g = 0..m /\ g = [i \in 0..m |-> g[i]]
  BY <1>8
<1>12. SpareEqs(T, target, w, m, g)
  <2>1. g = [i \in 0..m |-> IF i = 0 THEN Done(T, FindPrev(T, target)) ELSE SpareItem(g[i - 1], w[i], target)]
    BY <1>10, <1>11
  <2> QED
    BY <2>1 DEF SpareEqs
<1> QED
  BY <1>2, <1>12

\* SpareChain takes its result from them.
LEMMA SpareChainIs ==
  ASSUME NEW T, NEW target, NEW w, w = Chain(T, target), Len(w) \in Nat
  PROVE  \E s : SpareEqs(T, target, w, Len(w), s) /\ SpareChain(T, target) = s[Len(w)]
<1>1. PICK g : g = CHOOSE s : SpareEqs(T, target, w, Len(w), s)
  OBVIOUS
<1>2. \E s : SpareEqs(T, target, w, Len(w), s)
  BY SpareEqsHold
<1>3. SpareEqs(T, target, w, Len(w), g)
  BY <1>1, <1>2
<1>4. SpareChain(T, target) = g[Len(w)]
  BY <1>1, Zenon DEF SpareChain, SpareEqs
<1> QED
  BY <1>3, <1>4

\* What holds after n turns, whether or not there was room for each of the items.
Turned(T, l, w, target, h, n, x) ==
    /\ {"ok", "table", "at"} \subseteq DOMAIN x /\ x.ok \in BOOLEAN
    /\ \E l2 : SameList(T, l, x.table, l2)
    /\ x.ok => \E on, d : Sparing(x.table, x.at, w, n, target, h, on, d)

\* A turn keeps what holds between turns.
LEMMA TurnedOnce ==
  ASSUME NEW T, NEW l, NEW w, Len(w) \in Nat, \A p, q \in 1..Len(w) : w[p] = w[q] => p = q,
         NEW n \in 1..Len(w), NEW target, target = w[1], target \in DOMAIN T.slot, Frame(T), NEW h,
         NEW x, Turned(T, l, w, target, h, n - 1, x)
  PROVE  Turned(T, l, w, target, h, n, SpareItem(x, w[n], target))
<1>1. /\ {"ok", "table", "at"} \subseteq DOMAIN x /\ x.ok \in BOOLEAN
      /\ x.ok => \E on, d : Sparing(x.table, x.at, w, n - 1, target, h, on, d)
  BY DEF Turned
<1>2. PICK U : U = x.table
  OBVIOUS
<1>3. PICK at : at = x.at
  OBVIOUS
<1>4. PICK l1 : SameList(T, l, U, l1)
  BY <1>2 DEF Turned
<1>5. PICK jump : jump = GetNextEmpty(U, at)
  OBVIOUS
<1>6. PICK r : r = w[n]
  OBVIOUS
<1>7. CASE ~x.ok \/ jump = 0
  <2>1. SpareItem(x, w[n], target) = Failed(x)
    BY <1>2, <1>3, <1>5, <1>7, SpareItemIs
  <2>2. {"ok", "table", "at"} \subseteq DOMAIN Failed(x) /\ Failed(x).ok = FALSE /\ Failed(x).table = U
    BY <1>1, <1>2 DEF Failed
  <2>3. Turned(T, l, w, target, h, n, Failed(x))
    BY <1>4, <2>2 DEF Turned
  <2> QED
    BY <2>1, <2>3
<1>8. CASE x.ok /\ jump # 0
  <2>1. PICK on, d : Sparing(U, at, w, n - 1, target, h, on, d)
    BY <1>1, <1>2, <1>3, <1>8
  <2>2. /\ Frame(U) /\ U.slots = T.slots /\ U.size = T.size
        /\ Listing(U, l1, Items(U)) /\ Len(l1) = Len(l) /\ Listed(U, l1) = Listed(T, l)
    BY <1>4 DEF SameList
  <2>3. at \in Items(U) /\ at \notin Rests(w, n - 1)
    BY <2>1 DEF Sparing
  <2>4. r \in Rests(w, n - 1)
    <3>1. n \in (n - 1) + 1 .. Len(w)
      OBVIOUS
    <3> QED
      BY <1>6, <3>1 DEF Rests
  <2>5. r \in Items(U) /\ r # at
    BY <2>1, <2>3, <2>4 DEF Sparing
  <2>6. PICK p \in DOMAIN l1 : l1[p] = r
    BY <2>2, <2>5 DEF Listing, Members
  <2>7. PICK e : e = Jumped(U, at, jump)
    OBVIOUS
  <2>8. PICK left : left = IF r = target THEN ProtectedSlot ELSE EmptySlot
    OBVIOUS
  <2>9. left \in {EmptySlot, ProtectedSlot} /\ left.kind = IF r = target THEN "protected" ELSE "empty"
    BY <2>8, EmptyIsSlot
  <2>10. PICK D : D = SetJump(Put(IterListReplaceNodeBy(
                          Put(U, e, Item("body", <<U.slot[r].key, U.slot[r].val>>)), r, e), r, left), at, jump)
    OBVIOUS
  <2>11. SpareItem(x, w[n], target) = Done(D, e)
    BY <1>2, <1>3, <1>5, <1>6, <1>8, <2>7, <2>8, <2>10, SpareItemIs
  <2>12. PICK l2 : l2 = ReplaceAt(l1, p, e)
    OBVIOUS
  <2>13. Shifted(U, D, r, e, at, left) /\ ListedAs(D, l2) /\ e \in DOMAIN U.slot /\ e \notin Items(U)
    BY <1>5, <1>8, <2>2, <2>3, <2>5, <2>6, <2>7, <2>9, <2>10, <2>12, ItemShifted
  <2>14. U.slot[e].kind = "empty"
    <3>1. at \in DOMAIN U.slot
      BY <2>3 DEF Items
    <3> QED
      BY <1>5, <1>8, <2>2, <2>7, <3>1, FreeSlot DEF IsEmpty
  <2>15. left.kind \in {"empty", "protected"}
    BY <2>9
  <2>16. /\ Items(D) = (Items(U) \ {r}) \cup {e}
         /\ Listing(D, l2, Items(D)) /\ Len(l2) = Len(l1) /\ Listed(D, l2) = Listed(U, l1)
    BY <2>2, <2>6, <2>12, <2>13, <2>15, ShiftedList
  <2>17. target \in DOMAIN U.slot
    BY <2>2 DEF Frame
  <2>18. \E d2 : Sparing(D, e, w, n, target, h, NextInChain(D), d2)
    BY <1>6, <2>1, <2>2, <2>9, <2>13, <2>14, <2>16, <2>17, SparingTurn
  <2>19. SameList(T, l, D, l2)
    BY <2>2, <2>13, <2>16 DEF SameList, Shifted
  <2>20. PICK y : y = Done(D, e)
    OBVIOUS
  <2>21. y.ok \in BOOLEAN /\ y.table = D /\ y.at = e /\ {"ok", "table", "at"} \subseteq DOMAIN y
    BY <2>20 DEF Done
  <2>22. \E on2, d2 : Sparing(y.table, y.at, w, n, target, h, on2, d2)
    BY <2>18, <2>21
  <2>23. \E l3 : SameList(T, l, y.table, l3)
    BY <2>19, <2>21
  <2>24. Turned(T, l, w, target, h, n, y)
    BY <2>21, <2>22, <2>23, Zenon DEF Turned
  <2> QED
    BY <2>11, <2>20, <2>24
<1> QED
  BY <1>1, <1>7, <1>8

\* The loop goes through its turns, whether or not it finds room for all the items.
LEMMA ChainSpared ==
  ASSUME NEW T, NEW l, NEW d, Sound(T, l, d), NEW target \in Items(T), ~IsHead(T, target),
         NEW w, w = Chain(T, target), NEW h, h = HomeOf(T)[target]
  PROVE  Len(w) \in Nat \ {0} /\ Turned(T, l, w, target, h, Len(w), SpareChain(T, target))
<1>1. Frame(T) /\ Chained(HomeOf(T), NextInChain(T), d, Items(T)) /\ target \in DOMAIN T.slot
  BY DEF Sound, Body, Items
<1>2. Runs(HomeOf(T), NextInChain(T), d, Items(T), target, w)
  BY <1>1, ChainRuns
<1>3. Len(w) \in Nat \ {0} /\ w[1] = target
  BY <1>2 DEF Runs
<1>4. \A p, q \in 1..Len(w) : w[p] = w[q] => p = q
  BY <1>1, <1>2, RunIsInjective
<1>5. PICK s : SpareEqs(T, target, w, Len(w), s) /\ SpareChain(T, target) = s[Len(w)]
  BY <1>3, SpareChainIs
<1>6. PICK at : at = FindPrev(T, target)
  OBVIOUS
<1>7. s[0] = Done(T, at)
  <2>1. 0 \in 0..Len(w)
    BY <1>3
  <2> QED
    BY <1>5, <1>6, <2>1 DEF SpareEqs
<1>8. Turned(T, l, w, target, h, 0, s[0])
  <2>1. PICK y : y = s[0]
    OBVIOUS
  <2>2. y.ok \in BOOLEAN /\ y.table = T /\ y.at = at /\ {"ok", "table", "at"} \subseteq DOMAIN y
    BY <1>7, <2>1 DEF Done
  <2>3. SameList(T, l, T, l) /\ \E on : Sparing(T, at, w, 0, target, h, on, d)
    BY <1>6, SparingStarts
  <2>4. \E on2, d2 : Sparing(y.table, y.at, w, 0, target, h, on2, d2)
    BY <2>2, <2>3
  <2>5. \E l2 : SameList(T, l, y.table, l2)
    BY <2>2, <2>3
  <2>6. Turned(T, l, w, target, h, 0, y)
    BY <2>2, <2>4, <2>5, Zenon DEF Turned
  <2> QED
    BY <2>1, <2>6
<1> DEFINE Bad == {n \in Nat : n <= Len(w) /\ ~Turned(T, l, w, target, h, n, s[n])}
<1>9. Bad = {}
  <2>1. SUFFICES ASSUME Bad # {} PROVE FALSE
    OBVIOUS
  <2>2. PICK n \in Bad : \A m \in Bad : n <= m
    BY <2>1, SmallestNumber
  <2>3. n # 0
    BY <1>8, <2>2
  <2>4. n \in 1..Len(w) /\ n - 1 \in Nat /\ n - 1 <= Len(w) /\ n \in 0..Len(w)
    BY <1>3, <2>2, <2>3
  <2>5. n - 1 \notin Bad
    BY <2>2, <2>4
  <2>6. Turned(T, l, w, target, h, n - 1, s[n - 1])
    BY <2>4, <2>5
  <2>7. s[n] = SpareItem(s[n - 1], w[n], target)
    BY <1>5, <2>3, <2>4 DEF SpareEqs
  <2>8. Turned(T, l, w, target, h, n, SpareItem(s[n - 1], w[n], target))
    BY <1>1, <1>3, <1>4, <2>4, <2>6, TurnedOnce
  <2> QED
    BY <2>2, <2>7, <2>8
<1>10. Turned(T, l, w, target, h, Len(w), s[Len(w)])
  <2>1. Len(w) \in Nat /\ Len(w) <= Len(w)
    BY <1>3
  <2> QED
    BY <1>9, <2>1
<1> QED
  BY <1>3, <1>5, <1>10

\* What an attempt to find a place for k leaves behind.
Tried(T, l, k, r) ==
    /\ r.ok \in BOOLEAN
    /\ r.ok => \E m, d : Ready(T, Listed(T, l), k, r.table, r.at, m, d)
    /\ ~r.ok => Pairs(r.table) = Listed(T, l)

\* A table that lists the same has one item for each key as well.
LEMMA SameKeys ==
  ASSUME NEW T, NEW l, NEW d, Sound(T, l, d), NEW U, NEW l2, SameList(T, l, U, l2),
         NEW k, \A i \in Items(T) : T.slot[i].key # k
  PROVE  KeysApart(U) /\ Valued(U, Items(U)) /\ \A i \in Items(U) : U.slot[i].key # k
<1>1. /\ l \in Seq(DOMAIN T.slot) /\ l2 \in Seq(DOMAIN U.slot) /\ Len(l2) = Len(l)
      /\ Members(l2) = Items(U) /\ Members(l) = Items(T)
      /\ Listed(U, l2) = Listed(T, l) /\ KeysApart(T) /\ Valued(T, Items(T))
      /\ \A a, b \in DOMAIN l : l[a] = l[b] => a = b
  BY DEF Sound, Body, Listing, ListedAs, SameList
<1>2. DOMAIN l2 = DOMAIN l
  BY <1>1
<1>3. \A p \in DOMAIN l : U.slot[l2[p]].key = T.slot[l[p]].key /\ U.slot[l2[p]].val = T.slot[l[p]].val
  <2> TAKE p \in DOMAIN l
  <2>1. Listed(U, l2)[p] = PairAt(U, l2[p]) /\ Listed(T, l)[p] = PairAt(T, l[p])
    BY <1>2 DEF Listed
  <2>2. PairAt(U, l2[p]) = PairAt(T, l[p])
    BY <1>1, <2>1
  <2> QED
    BY <2>2 DEF PairAt
<1>4. \A i \in Items(U) : \E p \in DOMAIN l : l2[p] = i /\ l[p] \in Items(T)
  BY <1>1, <1>2 DEF Members
<1>5. KeysApart(U)
  <2> SUFFICES ASSUME NEW i \in Items(U), NEW j \in Items(U), U.slot[i].key = U.slot[j].key PROVE i = j
    BY DEF KeysApart
  <2>1. PICK p \in DOMAIN l : l2[p] = i /\ l[p] \in Items(T)
    BY <1>4
  <2>2. PICK q \in DOMAIN l : l2[q] = j /\ l[q] \in Items(T)
    BY <1>4
  <2>3. T.slot[l[p]].key = T.slot[l[q]].key
    BY <1>3, <2>1, <2>2
  <2>4. l[p] = l[q]
    BY <1>1, <2>1, <2>2, <2>3 DEF KeysApart
  <2> QED
    BY <1>1, <2>1, <2>2, <2>4
<1>6. Valued(U, Items(U))
  BY <1>1, <1>3, <1>4 DEF Valued
<1>7. \A i \in Items(U) : U.slot[i].key # k
  BY <1>3, <1>4
<1> QED
  BY <1>5, <1>6, <1>7

\* Once the chain in the way is moved, the new key gets its home (TrySpareListHead).
LEMMA HeadSpared ==
  ASSUME NEW T, NEW l, NEW d, Sound(T, l, d), NEW k \in Key, NEW target, target = IndexFromHash(T, k),
         target \in Items(T), ~IsHead(T, target)
  PROVE  Tried(T, l, k, TrySpareListHead(T, target, k))
<1>1. PICK w : w = Chain(T, target)
  OBVIOUS
<1>2. PICK h : h = HomeOf(T)[target]
  OBVIOUS
<1>3. PICK s : s = SpareChain(T, target)
  OBVIOUS
<1>4. Len(w) \in Nat \ {0} /\ Turned(T, l, w, target, h, Len(w), s)
  BY <1>1, <1>2, <1>3, ChainSpared
<1>5. PICK U : U = s.table
  OBVIOUS
<1>6. PICK l2 : SameList(T, l, U, l2)
  BY <1>4, <1>5 DEF Turned
<1>7. /\ Frame(U) /\ U.slots = T.slots /\ U.size = T.size
      /\ Listing(U, l2, Items(U)) /\ Len(l2) = Len(l) /\ Listed(U, l2) = Listed(T, l)
  BY <1>6 DEF SameList
<1>8. s.ok \in BOOLEAN
  BY <1>4 DEF Turned
<1>9. CASE ~s.ok
  <2>1. TrySpareListHead(T, target, k) = s
    BY <1>3, <1>9, Zenon DEF TrySpareListHead
  <2>2. Pairs(U) = Listed(T, l)
    BY <1>7, PairsListed DEF Listing
  <2> QED
    BY <1>5, <1>8, <1>9, <2>1, <2>2 DEF Tried
<1>10. CASE s.ok
  <2>1. PICK on, d2 : Sparing(U, s.at, w, Len(w), target, h, on, d2)
    BY <1>4, <1>5, <1>10 DEF Turned
  <2>2. Rests(w, Len(w)) = {}
    <3>1. Len(w) + 1 .. Len(w) = {}
      BY <1>4
    <3> QED
      BY <3>1 DEF Rests
  <2>3. Items(U) \ Rests(w, Len(w)) = Items(U)
    BY <2>2
  <2>4. /\ Chained(HomeOf(U), on, d2, Items(U))
        /\ s.at \in Items(U) /\ on[s.at] = None
        /\ \A j \in Items(U) : /\ (IsHead(U, j) <=> HomeOf(U)[j] = j)
                               /\ j # s.at => on[j] = NextInChain(U)[j]
        /\ \A j \in DOMAIN U.slot : U.slot[j].kind = "protected" => j = target
        /\ U.slot[target].kind = "protected" /\ NextInChain(U)[s.at] = None
    BY <1>4, <2>1, <2>3 DEF Sparing
  <2>5. HeadsAtHome(U)
    BY <2>4 DEF HeadsAtHome
  <2>6. \A j \in Items(U) : on[j] = NextInChain(U)[j]
    BY <2>4
  <2>7. target = IndexFromHash(U, k)
    BY <1>7 DEF IndexFromHash
  <2>8. target \notin Items(U) /\ \A i \in DOMAIN U.slot \ {target} : U.slot[i].kind # "protected"
    BY <2>4 DEF Items, IsItem
  <2>9. \A i \in Items(T) : T.slot[i].key # k
    BY AbsentWithoutHead DEF Sound
  <2>10. KeysApart(U) /\ Valued(U, Items(U)) /\ \A i \in Items(U) : U.slot[i].key # k
    BY <1>6, <2>9, SameKeys
  <2>11. Len(l2) = U.size
    BY <1>7 DEF Sound
  <2>12. PICK V : V = Grown(U, target, Item("head", <<k, None>>)).table
    OBVIOUS
  <2>13. \E d3 : Ready(U, Listed(U, l2), k, V, target, l2, d3)
    BY <1>7, <2>4, <2>5, <2>6, <2>7, <2>8, <2>10, <2>11, <2>12, HeadAdded
  <2>14. PICK d3 : Ready(U, Listed(U, l2), k, V, target, l2, d3)
    BY <2>13
  <2>15. Ready(T, Listed(T, l), k, V, target, l2, d3)
    BY <1>7, <2>14 DEF Ready
  <2>16. PICK r : r = Grown(U, target, Item("head", <<k, None>>))
    OBVIOUS
  <2>17. r.ok = TRUE /\ r.table = V /\ r.at = target
    BY <2>12, <2>16 DEF Grown, Done
  <2>18. Tried(T, l, k, r)
    BY <2>15, <2>17 DEF Tried
  <2>19. TrySpareListHead(T, target, k) = r
    BY <1>3, <1>5, <1>10, <2>16, Zenon DEF TrySpareListHead
  <2> QED
    BY <2>18, <2>19
<1> QED
  BY <1>8, <1>9, <1>10

\* An insertion that finds the home of the key taken by another chain.
LEMMA TriedAt ==
  ASSUME NEW T, NEW l, NEW k, NEW U, NEW i, NEW m, NEW d, Ready(T, Listed(T, l), k, U, i, m, d),
         NEW r, r.ok = TRUE, r.table = U, r.at = i
  PROVE  Tried(T, l, k, r)
BY DEF Tried

\* Whether TryInsert finds a place for a key or not, the table goes on listing the other pairs.
LEMMA InsertTried ==
  ASSUME NEW T, NEW l, NEW d, Sound(T, l, d), NEW k \in Key
  PROVE  Tried(T, l, k, TryInsert(T, k))
<1>1. /\ Body(T, d) /\ Frame(T) /\ KeysApart(T) /\ HeadsAtHome(T) /\ Listing(T, l, Items(T)) /\ ListedAs(T, l)
      /\ Valued(T, Items(T)) /\ Len(l) = T.size
      /\ \A j \in DOMAIN T.slot : T.slot[j].kind # "protected"
      /\ Chained(HomeOf(T), NextInChain(T), d, Items(T))
  BY DEF Sound, Body, Listing
<1>2. PICK h : h = IndexFromHash(T, k)
  OBVIOUS
<1>3. h \in DOMAIN T.slot
  BY <1>1, <1>2, HashInRange
<1>4. PICK found : found = Search(T, k)
  OBVIOUS
<1>5. PICK end : end = Last(Chain(T, h))
  OBVIOUS
<1>6. PICK jump : jump = GetNextEmpty(T, end)
  OBVIOUS
<1>7. TryInsert(T, k) =
        IF IsEmpty(T, h) THEN Grown(T, h, Item("head", <<k, None>>))
        ELSE IF ~IsHead(T, h) THEN IF IsFull(T) THEN Fail(T) ELSE TrySpareListHead(T, h, k)
        ELSE IF found # None THEN Done(IterListUnlink(T, found), found)
        ELSE IF IsFull(T) \/ jump = 0 THEN Fail(T)
        ELSE Grown(SetJump(T, end, jump), Jumped(T, end, jump), Item("body", <<k, None>>))
  BY <1>2, <1>4, <1>5, <1>6, Zenon DEF TryInsert
<1>8. Tried(T, l, k, Fail(T))
  <2>1. Pairs(T) = Listed(T, l)
    BY <1>1, PairsListed
  <2>2. PICK r : r = Fail(T)
    OBVIOUS
  <2>3. r.ok = FALSE /\ r.table = T
    BY <2>2 DEF Fail
  <2>4. Tried(T, l, k, r)
    BY <2>1, <2>3 DEF Tried
  <2> QED
    BY <2>2, <2>4
<1>9. CASE IsEmpty(T, h)
  <2>1. h \notin Items(T) /\ ~IsHead(T, h)
    BY <1>9 DEF IsEmpty, IsHead, Items, IsItem
  <2>2. \A i \in Items(T) : T.slot[i].key # k
    BY <1>1, <1>2, <2>1, AbsentWithoutHead
  <2>3. PICK r : r = Grown(T, h, Item("head", <<k, None>>))
    OBVIOUS
  <2>4. PICK U : U = r.table
    OBVIOUS
  <2>5. PICK on : on = NextInChain(T)
    OBVIOUS
  <2>6. Chained(HomeOf(T), on, d, Items(T)) /\ \A j \in Items(T) : on[j] = NextInChain(T)[j]
    BY <1>1, <2>5
  <2>7. \A i \in DOMAIN T.slot \ {h} : T.slot[i].kind # "protected"
    BY <1>1
  <2>8. \E d2 : Ready(T, Listed(T, l), k, Grown(T, h, Item("head", <<k, None>>)).table, h, l, d2)
    BY <1>1, <1>2, <2>1, <2>2, <2>6, <2>7, HeadAdded
  <2>9. PICK d2 : Ready(T, Listed(T, l), k, U, h, l, d2)
    BY <2>3, <2>4, <2>8
  <2>10. r.ok = TRUE /\ r.at = h
    BY <2>3 DEF Grown, Done
  <2>11. Tried(T, l, k, r)
    BY <2>4, <2>9, <2>10, TriedAt
  <2> QED
    BY <1>7, <1>9, <2>3, <2>11
<1>10. CASE ~IsEmpty(T, h) /\ ~IsHead(T, h)
  <2>1. h \in Items(T)
    BY <1>1, <1>3, <1>10, SlotOfFrame DEF IsEmpty
  <2>2. Tried(T, l, k, TrySpareListHead(T, h, k))
    BY <1>2, <1>10, <2>1, HeadSpared
  <2> QED
    BY <1>7, <1>8, <1>10, <2>2
<1>11. CASE ~IsEmpty(T, h) /\ IsHead(T, h) /\ found # None
  <2>1. PICK i \in Items(T) : T.slot[i].key = k
    BY <1>1, <1>4, <1>11, NotFound
  <2>2. PICK n \in DOMAIN l : l[n] = i
    BY <1>1, <2>1 DEF Listing, Members
  <2>3. T.size # 0
    <3>1. DOMAIN l = 1..Len(l)
      BY <1>1 DEF ListedAs
    <3> QED
      BY <1>1, <2>2, <3>1
  <2>4. found = i
    BY <1>1, <1>4, <2>1, <2>3, Found
  <2>5. PICK U : U = IterListUnlink(T, i)
    OBVIOUS
  <2>6. PICK m : Ready(T, Listed(T, l), k, U, i, m, d)
    BY <2>1, <2>2, <2>5, KeyUnlinked
  <2>7. PICK r : r = Done(U, i)
    OBVIOUS
  <2>8. r.ok = TRUE /\ r.table = U /\ r.at = i
    BY <2>7 DEF Done
  <2>9. Tried(T, l, k, r)
    BY <2>6, <2>8, TriedAt
  <2> QED
    BY <1>7, <1>11, <2>4, <2>5, <2>7, <2>9
<1>12. CASE ~IsEmpty(T, h) /\ IsHead(T, h) /\ found = None /\ (IsFull(T) \/ jump = 0)
  BY <1>7, <1>8, <1>12
<1>13. CASE ~IsEmpty(T, h) /\ IsHead(T, h) /\ found = None /\ ~(IsFull(T) \/ jump = 0)
  <2>1. \A i \in Items(T) : T.slot[i].key # k
    <3> SUFFICES ASSUME NEW i \in Items(T), T.slot[i].key = k PROVE FALSE
      OBVIOUS
    <3>1. PICK n \in DOMAIN l : l[n] = i
      BY <1>1 DEF Listing, Members
    <3>2. T.size # 0
      <4>1. DOMAIN l = 1..Len(l)
        BY <1>1 DEF ListedAs
      <4> QED
        BY <1>1, <3>1, <4>1
    <3>3. found = i
      BY <1>1, <1>4, <3>2, Found
    <3>4. i \in DOMAIN T.slot
      BY DEF Items
    <3> QED
      BY <1>1, <1>13, <3>3, <3>4, SlotOfFrame
  <2>2. PICK e : e = Jumped(T, end, jump)
    OBVIOUS
  <2>3. PICK r : r = Grown(SetJump(T, end, jump), Jumped(T, end, jump), Item("body", <<k, None>>))
    OBVIOUS
  <2>4. PICK U : U = r.table
    OBVIOUS
  <2>5. U = Grown(SetJump(T, end, jump), Jumped(T, end, jump), Item("body", <<k, None>>)).table
    BY <2>3, <2>4
  <2>6. IsHead(T, IndexFromHash(T, k)) /\ end = Last(Chain(T, IndexFromHash(T, k)))
    BY <1>2, <1>5, <1>13
  <2>7. \E d2 : Ready(T, Listed(T, l), k, U, Jumped(T, end, jump), l, d2)
    BY <1>6, <1>13, <2>1, <2>5, <2>6, TailAdded
  <2>8. PICK d2 : Ready(T, Listed(T, l), k, U, e, l, d2)
    BY <2>2, <2>7
  <2>9. r.ok = TRUE /\ r.at = e
    BY <2>2, <2>3 DEF Grown, Done
  <2>10. Tried(T, l, k, r)
    BY <2>4, <2>8, <2>9, TriedAt
  <2> QED
    BY <1>7, <1>13, <2>3, <2>10
<1> QED
  BY <1>9, <1>10, <1>11, <1>12, <1>13

-----------------------------------------------------------------------------
(* Calls.                                                                  *)

IsPairs(s) == s \in Seq(Key \X Value)

\* What iteration gives of a sound table.
LEMMA PairsOfSound ==
  ASSUME NEW T, NEW l, NEW d, Sound(T, l, d)
  PROVE  Pairs(T) = Listed(T, l) /\ IsPairs(Pairs(T)) /\ OncePerKey(Pairs(T)) /\ T.layout = "dense"
<1>1. /\ Frame(T) /\ KeysApart(T) /\ Listing(T, l, Items(T)) /\ ListedAs(T, l) /\ Valued(T, Items(T))
      /\ Items(T) \subseteq Items(T)
  BY DEF Sound, Body, Listing
<1>2. PICK s : s = Listed(T, l)
  OBVIOUS
<1>3. s \in Seq(Key \X Value) /\ OncePerKey(s)
  BY <1>1, <1>2, ListedOnce
<1>4. Pairs(T) = s
  BY <1>1, <1>2, PairsListed
<1> QED
  BY <1>1, <1>2, <1>3, <1>4 DEF IsPairs, Frame

\* A new table is sound and lists nothing.
LEMMA EmptyTable ==
  ASSUME NEW n \in Nat \ {0}
  PROVE  Sound(DenseEmpty(n), <<>>, <<>>) /\ Pairs(DenseEmpty(n)) = <<>>
<1>1. PICK T : T = DenseEmpty(n)
  OBVIOUS
<1>2. /\ {"layout", "slots", "size", "head", "tail", "slot"} \subseteq DOMAIN T
      /\ T.layout = "dense" /\ T.slots = n /\ T.size = 0 /\ T.head = None /\ T.tail = None
      /\ DOMAIN T.slot = 0..n - 1 /\ \A i \in DOMAIN T.slot : T.slot[i] = EmptySlot
  BY <1>1 DEF DenseEmpty
<1>3. Frame(T)
  BY <1>2, EmptyIsSlot DEF Frame
<1>4. Items(T) = {}
  BY <1>2, EmptyIsSlot DEF Items, IsItem
<1>5. Body(T, <<>>)
  BY <1>2, <1>3, <1>4, EmptyIsSlot DEF Body, KeysApart, HeadsAtHome, Chained
<1>6. PICK l : l = <<>> /\ l \in Seq(DOMAIN T.slot) /\ Len(l) = 0 /\ DOMAIN l = {}
  <2>1. <<>> \in Seq(DOMAIN T.slot)
    BY EmptySeq
  <2>2. Len(<<>>) = 0 /\ DOMAIN <<>> = {}
    OBVIOUS
  <2> QED
    BY <2>1, <2>2
<1>7. At(l, 1) = None /\ At(l, Len(l)) = None
  BY <1>6 DEF At
<1>8. ListedAs(T, l)
  BY <1>2, <1>6, <1>7 DEF ListedAs
<1>9. Sound(T, l, <<>>)
  BY <1>2, <1>4, <1>5, <1>6, <1>8 DEF Sound, Listing, Members, Valued
<1>10. Pairs(T) = <<>>
  <2>1. Pairs(T) = Listed(T, l)
    BY <1>9, PairsOfSound
  <2>2. Listed(T, l) = <<>>
    BY <1>6 DEF Listed
  <2> QED
    BY <2>1, <2>2
<1> QED
  BY <1>1, <1>6, <1>9, <1>10

IsSoundTable(T) == \E l, d : Sound(T, l, d)

\* DenseInsertMaybeReHash, with its writes named.
LEMMA InsertIs ==
  ASSUME NEW T, NEW kvs
  PROVE  LET r == TryInsert(T, Head(kvs)[1])
         IN  DenseInsertMaybeReHash(T, kvs) =
               IF r.ok THEN Inserted(IterListPushBack(SetVal(r.table, r.at, Head(kvs)[2]), r.at), Tail(kvs))
               ELSE Inserted(DenseEmpty(2 * T.slots), Pairs(r.table) \o kvs)
BY Zenon DEF DenseInsertMaybeReHash, SetVal

\* The first pair is inserted as the last of the list, or the items of the table are to be
\* inserted before it into an empty table of twice the size.
GoesOn(T, kvs, r) ==
    /\ IsSoundTable(r.map)
    /\ \/ r.todo = Tail(kvs) /\ Pairs(r.map) = SetLast(Pairs(T), Head(kvs))
       \/ r.todo = Pairs(T) \o kvs /\ Pairs(r.map) = <<>>

\* Inserting a pair into a dense map leaves a sound table with the pair as the last of the list, or
\* an empty table of twice the size with all the pairs of the old one to be inserted before it,
\* even when the old table was left half changed.
THEOREM DenseInserted ==
  ASSUME NEW T, IsSoundTable(T), NEW kvs, IsPairs(kvs), kvs # <<>>
  PROVE  GoesOn(T, kvs, DenseInsertMaybeReHash(T, kvs))
<1>1. PICK l, d : Sound(T, l, d)
  BY DEF IsSoundTable
<1>2. PICK kv : kv = Head(kvs)
  OBVIOUS
<1>3. kv \in Key \X Value
  BY <1>2, HeadTailProperties DEF IsPairs
<1>4. PICK k \in Key : k = kv[1]
  BY <1>3
<1>5. PICK v \in Value : v = kv[2]
  BY <1>3
<1>6. kv = <<k, v>>
  BY <1>3, <1>4, <1>5
<1>7. PICK r : r = TryInsert(T, k)
  OBVIOUS
<1>8. Tried(T, l, k, r)
  BY <1>1, <1>7, InsertTried
<1>9. Pairs(T) = Listed(T, l)
  BY <1>1, PairsOfSound
<1>10. DenseInsertMaybeReHash(T, kvs) =
         IF r.ok THEN Inserted(IterListPushBack(SetVal(r.table, r.at, v), r.at), Tail(kvs))
         ELSE Inserted(DenseEmpty(2 * T.slots), Pairs(r.table) \o kvs)
  BY <1>2, <1>4, <1>5, <1>7, InsertIs
<1>11. CASE r.ok
  <2>1. PICK U : U = r.table
    OBVIOUS
  <2>2. PICK i : i = r.at
    OBVIOUS
  <2>3. PICK m, d2 : Ready(T, Listed(T, l), k, U, i, m, d2)
    BY <1>8, <1>11, <2>1, <2>2 DEF Tried
  <2>4. PICK V : V = IterListPushBack(SetVal(U, i, v), i)
    OBVIOUS
  <2>5. PICK p : p = Listed(T, l)
    OBVIOUS
  <2>6. Ready(T, p, k, U, i, m, d2)
    BY <2>3, <2>5
  <2>7. Sound(V, Append(m, i), d2) /\ Pairs(V) = Append(Rest(p, k), <<k, v>>)
    BY <2>4, <2>6, ReadyPushed
  <2>8. Pairs(V) = SetLast(Pairs(T), kv)
    <3>1. SetLast(p, kv) = Append(Rest(p, kv[1]), kv)
      BY SetLastIsRest
    <3> QED
      BY <1>4, <1>6, <1>9, <2>5, <2>7, <3>1, Zenon
  <2>9. PICK x : x = DenseInsertMaybeReHash(T, kvs)
    OBVIOUS
  <2>10. x.map = V /\ x.todo = Tail(kvs)
    BY <1>10, <1>11, <2>1, <2>2, <2>4, <2>9 DEF Inserted
  <2>11. GoesOn(T, kvs, x)
    BY <1>2, <2>7, <2>8, <2>10, Zenon DEF GoesOn, IsSoundTable
  <2> QED
    BY <2>9, <2>11
<1>12. CASE ~r.ok
  <2>1. Pairs(r.table) = Pairs(T)
    BY <1>8, <1>9, <1>12 DEF Tried
  <2>2. T.slots \in Nat \ {0}
    BY <1>1 DEF Sound, Body, Frame
  <2>3. 2 * T.slots \in Nat \ {0}
    BY <2>2
  <2>4. PICK V : V = DenseEmpty(2 * T.slots)
    OBVIOUS
  <2>5. IsSoundTable(V) /\ Pairs(V) = <<>>
    BY <2>3, <2>4, EmptyTable DEF IsSoundTable
  <2>6. PICK x : x = DenseInsertMaybeReHash(T, kvs)
    OBVIOUS
  <2>7. x.map = V /\ x.todo = Pairs(T) \o kvs
    BY <1>10, <1>12, <2>1, <2>4, <2>6 DEF Inserted
  <2>8. GoesOn(T, kvs, x)
    BY <2>5, <2>7 DEF GoesOn
  <2> QED
    BY <2>6, <2>8
<1> QED
  BY <1>8, <1>11, <1>12 DEF Tried

-----------------------------------------------------------------------------
(* The dictionary.                                                         *)

\* b is s without the key k.
Lacks(b, s, k) ==
    /\ IsPairs(b) /\ OncePerKey(b)
    /\ \A i \in DOMAIN b : b[i][1] # k
    /\ \A i \in DOMAIN b : \E o \in DOMAIN s : s[o] = b[i]
    /\ \A o \in DOMAIN s : s[o][1] # k => \E i \in DOMAIN b : b[i] = s[o]
    /\ \A i, j \in DOMAIN b : i < j => \E o, u \in DOMAIN s : o < u /\ s[o] = b[i] /\ s[u] = b[j]

\* Taking out a key is what the dictionary does.
LEMMA RestIsWithout ==
  ASSUME NEW s, IsPairs(s), OncePerKey(s), NEW k
  PROVE  Rest(s, k) = IF k \in Dict!Keys(s) THEN Dict!Without(s, k) ELSE s
<1>1. s \in Seq(Key \X Value) /\ Len(s) \in Nat /\ DOMAIN s = 1..Len(s)
  BY LenProperties DEF IsPairs
<1>2. CASE k \in Dict!Keys(s)
  <2>1. PICK n : n = Dict!Place(s, k)
    OBVIOUS
  <2>2. n \in 1..Len(s) /\ s[n][1] = k
    BY <1>1, <1>2, <2>1, PlaceOfKey
  <2>3. Rest(s, k) = RemoveAt(s, n)
    BY <1>1, <2>2, RestOfPresent
  <2>4. RemoveAt(s, n) = Dict!Without(s, k)
    BY <2>1 DEF Dict!Without, Dict!RemoveAt, RemoveAt, Dict!Place
  <2> QED
    BY <1>2, <2>3, <2>4
<1>3. CASE k \notin Dict!Keys(s)
  <2>1. \A n \in 1..Len(s) : s[n][1] # k
    BY <1>1, <1>3 DEF Dict!Keys
  <2> QED
    BY <1>3, <2>1, RestOfAbsent
<1> QED
  BY <1>2, <1>3

\* What is left keeps its order.
LEMMA RestLacks ==
  ASSUME NEW s, IsPairs(s), OncePerKey(s), NEW k
  PROVE  Lacks(Rest(s, k), s, k)
<1>1. s \in Seq(Key \X Value) /\ Len(s) \in Nat /\ DOMAIN s = 1..Len(s)
  BY LenProperties DEF IsPairs
<1>2. CASE \A n \in 1..Len(s) : s[n][1] # k
  <2>1. Rest(s, k) = s
    BY <1>2, RestOfAbsent
  <2>2. Lacks(s, s, k)
    BY <1>1, <1>2 DEF Lacks
  <2> QED
    BY <2>1, <2>2
<1>3. ASSUME NEW n \in 1..Len(s), s[n][1] = k
      PROVE  Lacks(Rest(s, k), s, k)
  <2>1. PICK b : b = RemoveAt(s, n)
    OBVIOUS
  <2>2. Rest(s, k) = b
    BY <1>1, <1>3, <2>1, RestOfPresent
  <2>3. /\ b \in Seq(Key \X Value) /\ Len(b) = Len(s) - 1 /\ OncePerKey(b)
        /\ \A m \in 1..(Len(s) - 1) : b[m] = IF m < n THEN s[m] ELSE s[m + 1]
    <3>1. n \in DOMAIN s
      BY <1>1
    <3>2. b \in Seq(Key \X Value) /\ Len(b) = Len(s) - 1 /\ OncePerKey(b)
      BY <1>1, <2>1, <3>1, OnceAfterRemoval
    <3>3. \A m \in 1..(Len(s) - 1) : b[m] = IF m < n THEN s[m] ELSE s[m + 1]
      BY <1>1, <2>1, <3>1, RemovedAt
    <3> QED
      BY <3>2, <3>3
  <2>4. DOMAIN b = 1..(Len(s) - 1) /\ n \in Int
    BY <1>1, <2>3
  <2>5. PICK f : f = [i \in DOMAIN b |-> IF i < n THEN i ELSE i + 1]
    OBVIOUS
  <2>6. ASSUME NEW i \in DOMAIN b
        PROVE  f[i] \in Int /\ f[i] \in DOMAIN s /\ s[f[i]] = b[i] /\ f[i] # n
    <3>1. i \in 1..(Len(s) - 1) /\ i \in Int
      BY <1>1, <2>4
    <3>2. f[i] = IF i < n THEN i ELSE i + 1
      BY <2>5
    <3>3. b[i] = IF i < n THEN s[i] ELSE s[i + 1]
      BY <2>3, <3>1
    <3>4. CASE i < n
      <4>1. f[i] = i /\ b[i] = s[i] /\ i \in DOMAIN s /\ i # n
        BY <1>1, <2>4, <3>1, <3>2, <3>3, <3>4
      <4> QED
        BY <3>1, <4>1
    <3>5. CASE ~(i < n)
      <4>1. f[i] = i + 1 /\ b[i] = s[i + 1]
        BY <3>2, <3>3, <3>5
      <4>2. i + 1 \in DOMAIN s /\ i + 1 # n /\ i + 1 \in Int
        BY <1>1, <2>4, <3>1, <3>5
      <4> QED
        BY <4>1, <4>2
    <3> QED
      BY <3>4, <3>5
  <2>7. \A i, j \in DOMAIN b : i < j => f[i] < f[j]
    <3>1. \A i \in DOMAIN b : i \in Int /\ f[i] = IF i < n THEN i ELSE i + 1
      BY <1>1, <2>4, <2>5
    <3>2. \A x, y \in Int : x < y => (IF x < n THEN x ELSE x + 1) < (IF y < n THEN y ELSE y + 1)
      BY <2>4
    <3> QED
      BY <3>1, <3>2
  <2>8. \A i \in DOMAIN b : b[i][1] # k
    BY <1>1, <1>3, <2>6 DEF OncePerKey
  <2>9. ASSUME NEW o \in DOMAIN s, s[o][1] # k
        PROVE  \E i \in DOMAIN b : b[i] = s[o]
    <3>1. o # n /\ o \in Int
      BY <1>1, <1>3, <2>9
    <3>2. CASE o < n
      <4>1. o \in DOMAIN b /\ b[o] = s[o]
        BY <1>1, <2>3, <2>4, <3>2
      <4> QED
        BY <4>1
    <3>3. CASE ~(o < n)
      <4>1. o - 1 \in DOMAIN b /\ ~(o - 1 < n) /\ (o - 1) + 1 = o
        BY <1>1, <2>4, <3>1, <3>3
      <4>2. b[o - 1] = s[o]
        BY <2>3, <2>4, <4>1
      <4> QED
        BY <4>1, <4>2
    <3> QED
      BY <3>2, <3>3
  <2>10. ASSUME NEW i \in DOMAIN b, NEW j \in DOMAIN b, i < j
         PROVE  \E o, u \in DOMAIN s : o < u /\ s[o] = b[i] /\ s[u] = b[j]
    BY <2>6, <2>7, <2>10
  <2>11. Lacks(b, s, k)
    BY <2>3, <2>6, <2>8, <2>9, <2>10 DEF Lacks, IsPairs
  <2> QED
    BY <2>2, <2>11
<1> QED
  BY <1>2, <1>3

\* What a dense map does with its pairs is one of the two ways to set a key.
LEMMA SetLastIsSet ==
  ASSUME NEW s, IsPairs(s), OncePerKey(s), NEW k \in Key, NEW v \in Value
  PROVE  /\ SetLast(s, <<k, v>>) \in Dict!AfterSet(s, k, v)
         /\ IsPairs(SetLast(s, <<k, v>>)) /\ OncePerKey(SetLast(s, <<k, v>>))
<1>1. PICK b : b = Rest(s, k)
  OBVIOUS
<1>2. Lacks(b, s, k)
  BY <1>1, RestLacks
<1>3. b \in Seq(Key \X Value) /\ OncePerKey(b) /\ k \notin Dict!Keys(b)
  BY <1>2 DEF Lacks, Dict!Keys, IsPairs
<1>4. PICK kv : kv = <<k, v>>
  OBVIOUS
<1>5. kv[1] = k
  BY <1>4
<1>6. SetLast(s, kv) = Append(b, <<k, v>>)
  BY <1>1, <1>4, <1>5, SetLastIsRest
<1>7. Append(b, <<k, v>>) \in Seq(Key \X Value) /\ OncePerKey(Append(b, <<k, v>>))
  BY <1>3, OnceAfterAppend
<1>8. Append(b, <<k, v>>) \in Dict!AfterSet(s, k, v)
  <2>1. CASE k \in Dict!Keys(s)
    <3>1. b = Dict!Without(s, k)
      BY <1>1, <2>1, RestIsWithout
    <3> QED
      BY <2>1, <3>1 DEF Dict!AfterSet
  <2>2. CASE k \notin Dict!Keys(s)
    <3>1. b = s
      BY <1>1, <2>2, RestIsWithout
    <3> QED
      BY <2>2, <3>1 DEF Dict!AfterSet
  <2> QED
    BY <2>1, <2>2
<1> QED
  BY <1>4, <1>6, <1>7, <1>8 DEF IsPairs

\* s is what may come of setting the first n pairs of a list one by one.
Built(s, list, n) ==
    /\ IsPairs(s) /\ OncePerKey(s)
    /\ \A i \in DOMAIN s : \E q \in 1..n : list[q] = s[i] /\ \A p \in q + 1..n : list[p][1] # s[i][1]
    /\ \A q \in 1..n : \E i \in DOMAIN s : s[i][1] = list[q][1]
    /\ \A i, j \in DOMAIN s : i < j => \E p, q \in 1..n : p < q /\ list[p][1] = s[i][1] /\ list[q][1] = s[j][1]

\* Nothing comes of no pairs.
LEMMA BuiltNone == ASSUME NEW list PROVE Built(<<>>, list, 0)
<1>1. <<>> \in Seq(Key \X Value)
  BY EmptySeq
<1>2. DOMAIN <<>> = {} /\ 1..0 = {}
  OBVIOUS
<1> QED
  BY <1>1, <1>2 DEF Built, IsPairs, OncePerKey

\* A pair that is set for a key comes to stand where the key stood before, ...
LEMMA BuiltInPlace ==
  ASSUME NEW s, NEW list, NEW n \in Nat, Built(s, list, n), NEW k, list[n + 1] = <<k, list[n + 1][2]>>,
         NEW x \in DOMAIN s, s[x][1] = k, NEW t, IsPairs(t), OncePerKey(t), DOMAIN t = DOMAIN s,
         t[x] = list[n + 1], \A i \in DOMAIN s \ {x} : t[i] = s[i]
  PROVE  Built(t, list, n + 1)
<1>1. /\ OncePerKey(s) /\ IsPairs(s)
      /\ \A i \in DOMAIN s : \E q \in 1..n : list[q] = s[i] /\ \A p \in q + 1..n : list[p][1] # s[i][1]
      /\ \A q \in 1..n : \E i \in DOMAIN s : s[i][1] = list[q][1]
      /\ \A i, j \in DOMAIN s : i < j => \E p, q \in 1..n : p < q /\ list[p][1] = s[i][1] /\ list[q][1] = s[j][1]
  BY DEF Built
<1>2. list[n + 1][1] = k /\ \A i \in DOMAIN s : t[i][1] = s[i][1]
  <2>1. list[n + 1][1] = k
    OBVIOUS
  <2> QED
    BY <2>1
<1>3. n + 1 \in 1..n + 1 /\ (n + 1) + 1..n + 1 = {} /\ \A q \in 1..n : q \in 1..n + 1
  OBVIOUS
<1>4. ASSUME NEW i \in DOMAIN t
      PROVE  \E q \in 1..n + 1 : list[q] = t[i] /\ \A p \in q + 1..n + 1 : list[p][1] # t[i][1]
  <2>1. CASE i = x
    BY <1>3, <2>1
  <2>2. CASE i # x
    <3>1. PICK q \in 1..n : list[q] = s[i] /\ \A p \in q + 1..n : list[p][1] # s[i][1]
      BY <1>1
    <3>2. s[i][1] # k
      BY <1>1, <2>2 DEF OncePerKey
    <3>3. \A p \in q + 1..n + 1 : p \in q + 1..n \/ p = n + 1
      OBVIOUS
    <3>4. \A p \in q + 1..n + 1 : list[p][1] # s[i][1]
      BY <1>2, <3>1, <3>2, <3>3
    <3> QED
      BY <1>3, <2>2, <3>1, <3>4
  <2> QED
    BY <2>1, <2>2
<1>5. \A q \in 1..n + 1 : \E i \in DOMAIN t : t[i][1] = list[q][1]
  <2>1. \A q \in 1..n : \E i \in DOMAIN t : t[i][1] = list[q][1]
    BY <1>1, <1>2
  <2>2. \E i \in DOMAIN t : t[i][1] = list[n + 1][1]
    BY <1>2
  <2>3. \A q \in 1..n + 1 : q \in 1..n \/ q = n + 1
    OBVIOUS
  <2> QED
    BY <2>1, <2>2, <2>3
<1>6. \A i, j \in DOMAIN t : i < j => \E p, q \in 1..n + 1 : p < q /\ list[p][1] = t[i][1] /\ list[q][1] = t[j][1]
  BY <1>1, <1>2, <1>3
<1> QED
  BY <1>4, <1>5, <1>6 DEF Built

\* ... or behind all the others.
LEMMA BuiltLast ==
  ASSUME NEW s, NEW list, NEW n \in Nat, Built(s, list, n), NEW k \in Key, NEW v \in Value, list[n + 1] = <<k, v>>,
         NEW b, Lacks(b, s, k)
  PROVE  Built(Append(b, <<k, v>>), list, n + 1)
<1>1. /\ OncePerKey(s) /\ IsPairs(s)
      /\ \A i \in DOMAIN s : \E q \in 1..n : list[q] = s[i] /\ \A p \in q + 1..n : list[p][1] # s[i][1]
      /\ \A q \in 1..n : \E i \in DOMAIN s : s[i][1] = list[q][1]
      /\ \A i, j \in DOMAIN s : i < j => \E p, q \in 1..n : p < q /\ list[p][1] = s[i][1] /\ list[q][1] = s[j][1]
  BY DEF Built
<1>2. /\ b \in Seq(Key \X Value) /\ OncePerKey(b)
      /\ \A i \in DOMAIN b : b[i][1] # k
      /\ \A i \in DOMAIN b : \E o \in DOMAIN s : s[o] = b[i]
      /\ \A o \in DOMAIN s : s[o][1] # k => \E i \in DOMAIN b : b[i] = s[o]
      /\ \A i, j \in DOMAIN b : i < j => \E o, u \in DOMAIN s : o < u /\ s[o] = b[i] /\ s[u] = b[j]
  BY DEF Lacks, IsPairs
<1>3. PICK t : t = Append(b, <<k, v>>)
  OBVIOUS
<1>4. /\ Len(b) \in Nat /\ DOMAIN b = 1..Len(b) /\ DOMAIN t = 1..(Len(b) + 1)
      /\ t[Len(b) + 1] = <<k, v>> /\ \A i \in DOMAIN b : t[i] = b[i]
  BY <1>2, <1>3
<1>5. t \in Seq(Key \X Value) /\ OncePerKey(t)
  <2>1. k \notin Dict!Keys(b)
    BY <1>2 DEF Dict!Keys
  <2>2. Append(b, <<k, v>>) \in Seq(Key \X Value) /\ OncePerKey(Append(b, <<k, v>>))
    BY <1>2, <2>1, OnceAfterAppend
  <2> QED
    BY <1>3, <2>2
<1>6. \A i \in DOMAIN t : i \in DOMAIN b \/ i = Len(b) + 1
  BY <1>4
<1>7. Len(b) + 1 \in DOMAIN t /\ \A i \in DOMAIN b : i \in DOMAIN t
  BY <1>4
<1>8. n + 1 \in 1..n + 1 /\ (n + 1) + 1..n + 1 = {} /\ \A q \in 1..n : q \in 1..n + 1 /\ q < n + 1
  OBVIOUS
<1>9. <<k, v>>[1] = k
  OBVIOUS
<1>10. ASSUME NEW i \in DOMAIN t
       PROVE  \E q \in 1..n + 1 : list[q] = t[i] /\ \A p \in q + 1..n + 1 : list[p][1] # t[i][1]
  <2>1. CASE i = Len(b) + 1
    BY <1>4, <1>8, <2>1
  <2>2. CASE i \in DOMAIN b
    <3>1. PICK o \in DOMAIN s : s[o] = b[i]
      BY <1>2, <2>2
    <3>2. PICK q \in 1..n : list[q] = s[o] /\ \A p \in q + 1..n : list[p][1] # s[o][1]
      BY <1>1
    <3>3. b[i][1] # k /\ t[i] = b[i]
      BY <1>2, <1>4, <2>2
    <3>4. \A p \in q + 1..n + 1 : p \in q + 1..n \/ p = n + 1
      OBVIOUS
    <3>5. \A p \in q + 1..n + 1 : list[p][1] # s[o][1]
      BY <1>9, <3>1, <3>2, <3>3, <3>4
    <3> QED
      BY <1>8, <3>1, <3>2, <3>3, <3>5
  <2> QED
    BY <1>6, <2>1, <2>2
<1>11. \A q \in 1..n + 1 : \E i \in DOMAIN t : t[i][1] = list[q][1]
  <2> TAKE q \in 1..n + 1
  <2>1. CASE q = n + 1
    BY <1>4, <1>7, <2>1
  <2>2. CASE q # n + 1
    <3>1. q \in 1..n
      BY <2>2
    <3>2. PICK o \in DOMAIN s : s[o][1] = list[q][1]
      BY <1>1, <3>1
    <3>3. CASE s[o][1] = k
      BY <1>4, <1>7, <1>9, <3>2, <3>3
    <3>4. CASE s[o][1] # k
      <4>1. PICK i \in DOMAIN b : b[i] = s[o]
        BY <1>2, <3>4
      <4> QED
        BY <1>4, <1>7, <3>2, <4>1
    <3> QED
      BY <3>3, <3>4
  <2> QED
    BY <2>1, <2>2
<1>12. ASSUME NEW i \in DOMAIN t, NEW j \in DOMAIN t, i < j
       PROVE  \E p, q \in 1..n + 1 : p < q /\ list[p][1] = t[i][1] /\ list[q][1] = t[j][1]
  <2>1. i \in DOMAIN b /\ t[i] = b[i]
    BY <1>4, <1>12
  <2>2. CASE j = Len(b) + 1
    <3>1. PICK o \in DOMAIN s : s[o] = b[i]
      BY <1>2, <2>1
    <3>2. PICK p \in 1..n : list[p] = s[o]
      BY <1>1
    <3>3. p \in 1..n + 1 /\ p < n + 1 /\ list[p][1] = t[i][1] /\ list[n + 1][1] = t[j][1]
      BY <1>4, <1>8, <2>1, <2>2, <3>1, <3>2
    <3> QED
      BY <1>8, <3>3
  <2>3. CASE j \in DOMAIN b
    <3>1. PICK o, u \in DOMAIN s : o < u /\ s[o] = b[i] /\ s[u] = b[j]
      BY <1>2, <1>12, <2>1, <2>3
    <3>2. PICK p, q \in 1..n : p < q /\ list[p][1] = s[o][1] /\ list[q][1] = s[u][1]
      BY <1>1, <3>1
    <3>3. t[j] = b[j]
      BY <1>4, <2>3
    <3> QED
      BY <1>8, <2>1, <3>1, <3>2, <3>3
  <2> QED
    BY <1>6, <2>2, <2>3
<1>13. Built(t, list, n + 1)
  BY <1>5, <1>10, <1>11, <1>12 DEF Built, IsPairs
<1> QED
  BY <1>3, <1>13

\* Either way, setting one pair more is a step further.
LEMMA BuiltOn ==
  ASSUME NEW s, NEW list, NEW n \in Nat, Built(s, list, n), NEW k \in Key, NEW v \in Value, list[n + 1] = <<k, v>>,
         NEW t \in Dict!AfterSet(s, k, v)
  PROVE  Built(t, list, n + 1) /\ Len(t) <= Len(s) + 1
<1>1. s \in Seq(Key \X Value) /\ IsPairs(s) /\ OncePerKey(s) /\ Len(s) \in Nat
  BY LenProperties DEF Built, IsPairs
<1>2. PICK b : b = Rest(s, k)
  OBVIOUS
<1>3. Lacks(b, s, k)
  BY <1>1, <1>2, RestLacks
<1>4. Built(Append(b, <<k, v>>), list, n + 1)
  BY <1>3, BuiltLast
<1>5. b \in Seq(Key \X Value) /\ Len(b) \in Nat
  BY <1>3, LenProperties DEF Lacks, IsPairs
<1>6. CASE k \notin Dict!Keys(s)
  <2>1. t = Append(b, <<k, v>>) /\ b = s
    BY <1>1, <1>2, <1>6, RestIsWithout DEF Dict!AfterSet
  <2>2. Len(t) = Len(b) + 1
    BY <1>5, <2>1
  <2> QED
    BY <1>1, <1>4, <2>1, <2>2
<1>7. CASE k \in Dict!Keys(s) /\ t = Append(Dict!Without(s, k), <<k, v>>)
  <2>1. b = Dict!Without(s, k)
    BY <1>1, <1>2, <1>7, RestIsWithout
  <2>2. Len(t) = Len(b) + 1
    BY <1>5, <1>7, <2>1
  <2>3. Len(b) = Len(s) - 1
    <3>1. Dict!Place(s, k) \in DOMAIN s
      BY <1>7, PlaceOfKey
    <3>2. Dict!Without(s, k) = RemoveAt(s, Dict!Place(s, k))
      BY DEF Dict!Without, Dict!RemoveAt, RemoveAt, Dict!Place
    <3> QED
      BY <1>1, <2>1, <3>1, <3>2, OnceAfterRemoval
  <2> QED
    BY <1>1, <1>4, <1>7, <2>1, <2>2, <2>3
<1>8. CASE k \in Dict!Keys(s) /\ t = [s EXCEPT ![Dict!Place(s, k)] = <<k, v>>]
  <2>1. PICK x \in DOMAIN s : x = Dict!Place(s, k) /\ s[x][1] = k
    BY <1>8, PlaceOfKey
  <2>2. DOMAIN t = DOMAIN s /\ t[x] = <<k, v>> /\ \A i \in DOMAIN s \ {x} : t[i] = s[i]
    BY <1>8, <2>1
  <2>3. t \in Seq(Key \X Value)
    <3>1. t = [s EXCEPT ![x] = <<k, v>>]
      BY <1>8, <2>1
    <3>2. <<k, v>> \in Key \X Value
      OBVIOUS
    <3> QED
      BY <1>1, <3>1, <3>2, ExceptSeq
  <2>4. \A i \in DOMAIN s : t[i][1] = s[i][1]
    <3>1. <<k, v>>[1] = k
      OBVIOUS
    <3> QED
      BY <2>1, <2>2, <3>1
  <2>5. Len(t) = Len(s) /\ OncePerKey(t)
    BY <1>1, <2>2, <2>3, <2>4, OnceAfterWrite
  <2>6. list[n + 1] = <<k, list[n + 1][2]>> /\ t[x] = list[n + 1]
    BY <2>2
  <2>7. Built(t, list, n + 1)
    BY <2>1, <2>2, <2>3, <2>5, <2>6, BuiltInPlace DEF IsPairs
  <2> QED
    BY <1>1, <2>5, <2>7
<1> QED
  BY <1>6, <1>7, <1>8 DEF Dict!AfterSet

-----------------------------------------------------------------------------
(* Calls that make a map.                                                  *)

\* The powers of two that CalcTableSize goes through.
SlotsEqs(n, f) == f = [c \in 0 .. n |-> IF c = 0 THEN 1 ELSE 2 * f[c \div 2]]

\* Halving a number that is not 0 makes it smaller.
LEMMA HalfIsBefore == ASSUME NEW i \in Nat, i # 0 PROVE i \div 2 \in 0..i - 1
OBVIOUS

\* There are such powers, for any number.
LEMMA SlotsEqsHold ==
  ASSUME NEW n \in Nat
  PROVE  \E f : SlotsEqs(n, f)
<1> DEFINE Bad == {m \in Nat : ~ \E f : SlotsEqs(m, f)}
<1>1. SUFFICES ASSUME Bad # {} PROVE FALSE
  OBVIOUS
<1>2. PICK m \in Bad : \A i \in Bad : m <= i
  BY <1>1, SmallestNumber
<1>3. m # 0
  <2>1. PICK f : f = [i \in 0..0 |-> 1]
    OBVIOUS
  <2>2. \A i \in 0..0 : i = 0
    OBVIOUS
  <2>3. f = [i \in 0..0 |-> IF i = 0 THEN 1 ELSE 2 * f[i \div 2]]
    BY <2>1, <2>2
  <2>4. SlotsEqs(0, f)
    BY <2>3 DEF SlotsEqs
  <2> QED
    BY <2>4
<1>4. m - 1 \in Nat /\ m \in Nat
  BY <1>3
<1>5. m - 1 \notin Bad
  BY <1>2, <1>4
<1>6. PICK f : SlotsEqs(m - 1, f)
  BY <1>4, <1>5
<1>7. PICK last : last = 2 * f[m \div 2]
  OBVIOUS
<1>8. PICK g : g = [i \in 0..m |-> IF i = m THEN last ELSE f[i]]
  OBVIOUS
<1>9. \A i \in 0..m : i # m => g[i] = f[i]
  BY <1>8
<1>10. \A i \in 1..m : i \div 2 \in 0..m /\ i \div 2 # m
  <2>1. \A i \in 1..m : i \div 2 \in 0..i - 1
    BY <1>4, HalfIsBefore
  <2> QED
    BY <1>4, <2>1
<1>11. ASSUME NEW i \in 0..m
       PROVE  g[i] = IF i = 0 THEN 1 ELSE 2 * g[i \div 2]
  <2>1. i # 0 => g[i \div 2] = f[i \div 2]
    <3>1. i # 0 => i \in 1..m
      BY <1>4
    <3> QED
      BY <1>9, <1>10, <3>1
  <2>2. CASE i = m
    <3>1. g[i] = last
      BY <1>8, <2>2
    <3> QED
      BY <1>3, <1>7, <2>1, <2>2, <3>1
  <2>3. CASE i # m
    <3>1. i \in 0..m - 1
      BY <1>4, <2>3
    <3>2. f[i] = IF i = 0 THEN 1 ELSE 2 * f[i \div 2]
      BY <1>6, <3>1 DEF SlotsEqs
    <3>3. g[i] = f[i]
      BY <1>9, <2>3
    <3> QED
      BY <2>1, <3>2, <3>3
  <2> QED
    BY <2>2, <2>3
<1>12. DOMAIN g = 0..m /\ g = [i \in 0..m |-> g[i]]
  BY <1>8
<1>13. SlotsEqs(m, g)
  <2>1. g = [i \in 0..m |-> IF i = 0 THEN 1 ELSE 2 * g[i \div 2]]
    BY <1>11, <1>12
  <2> QED
    BY <2>1 DEF SlotsEqs
<1> QED
  BY <1>2, <1>13

\* They are not 0.
LEMMA SlotsArePositive ==
  ASSUME NEW n \in Nat, NEW f, SlotsEqs(n, f)
  PROVE  \A c \in 0..n : f[c] \in Nat \ {0}
<1> DEFINE Bad == {c \in 0..n : f[c] \notin Nat \ {0}}
<1>1. SUFFICES ASSUME Bad # {} PROVE FALSE
  OBVIOUS
<1>2. Bad \in SUBSET Nat
  OBVIOUS
<1>3. PICK m \in Bad : \A i \in Bad : m <= i
  BY <1>1, <1>2, SmallestNumber
<1>4. f[m] = IF m = 0 THEN 1 ELSE 2 * f[m \div 2]
  BY DEF SlotsEqs
<1>5. m # 0 /\ m \in Nat /\ m <= n
  BY <1>4
<1>6. m \div 2 \in 0..m - 1
  BY <1>5, HalfIsBefore
<1>7. m \div 2 \in 0..n /\ m \div 2 \notin Bad
  BY <1>3, <1>5, <1>6
<1>8. f[m \div 2] \in Nat \ {0}
  BY <1>7
<1>9. \A x \in Nat \ {0} : 2 * x \in Nat \ {0}
  OBVIOUS
<1>10. f[m] = 2 * f[m \div 2]
  BY <1>4, <1>5
<1>11. f[m] \in Nat \ {0}
  BY <1>8, <1>9, <1>10
<1> QED
  BY <1>11

SlotsOf(n) == CHOOSE f : SlotsEqs(n, f)

\* CalcTableSize takes its result from them.
LEMMA TableSizeIs ==
  ASSUME NEW cap
  PROVE  CalcTableSize(cap) = IF SlotsOf(cap)[cap] < 2 * cap THEN 2 * SlotsOf(cap)[cap] ELSE SlotsOf(cap)[cap]
BY Zenon DEF CalcTableSize, SlotsOf, SlotsEqs

\* A new table has a slot.
LEMMA TableSizeIsPositive ==
  ASSUME NEW cap \in Nat
  PROVE  CalcTableSize(cap) \in Nat \ {0}
<1>1. PICK g : g = SlotsOf(cap)
  OBVIOUS
<1>2. \E f : SlotsEqs(cap, f)
  BY SlotsEqsHold
<1>3. SlotsEqs(cap, g)
  BY <1>1, <1>2, Zenon DEF SlotsOf
<1>4. CalcTableSize(cap) = IF g[cap] < 2 * cap THEN 2 * g[cap] ELSE g[cap]
  BY <1>1, TableSizeIs, Zenon
<1>5. g[cap] \in Nat \ {0}
  BY <1>3, SlotsArePositive
<1>6. \A x \in Nat \ {0} : (IF x < 2 * cap THEN 2 * x ELSE x) \in Nat \ {0}
  OBVIOUS
<1> QED
  BY <1>4, <1>5, <1>6

\* A small map after each of the first n pairs of a list.
SmallEqs(list, n, f) ==
    f = [m \in 0 .. n |-> IF m = 0 THEN Small(Len(list), <<>>) ELSE SmallInsertMaybeReHash(f[m - 1], list[m])]

\* There are such maps, for any number of pairs.
LEMMA SmallEqsHold ==
  ASSUME NEW list, NEW n \in Nat
  PROVE  \E f : SmallEqs(list, n, f)
<1> DEFINE Bad == {m \in Nat : ~ \E f : SmallEqs(list, m, f)}
<1>1. SUFFICES ASSUME Bad # {} PROVE FALSE
  OBVIOUS
<1>2. PICK m \in Bad : \A i \in Bad : m <= i
  BY <1>1, SmallestNumber
<1>3. m # 0
  <2>1. PICK f : f = [i \in 0..0 |-> Small(Len(list), <<>>)]
    OBVIOUS
  <2>2. \A i \in 0..0 : i = 0
    OBVIOUS
  <2>3. f = [i \in 0..0 |-> IF i = 0 THEN Small(Len(list), <<>>) ELSE SmallInsertMaybeReHash(f[i - 1], list[i])]
    BY <2>1, <2>2
  <2>4. SmallEqs(list, 0, f)
    BY <2>3 DEF SmallEqs
  <2> QED
    BY <2>4
<1>4. m - 1 \in Nat /\ m \in Nat
  BY <1>3
<1>5. m - 1 \notin Bad
  BY <1>2, <1>4
<1>6. PICK f : SmallEqs(list, m - 1, f)
  BY <1>4, <1>5
<1>7. PICK last : last = SmallInsertMaybeReHash(f[m - 1], list[m])
  OBVIOUS
<1>8. PICK g : g = [i \in 0..m |-> IF i = m THEN last ELSE f[i]]
  OBVIOUS
<1>9. \A i \in 0..m : i # m => g[i] = f[i]
  BY <1>8
<1>10. ASSUME NEW i \in 0..m
       PROVE  g[i] = IF i = 0 THEN Small(Len(list), <<>>) ELSE SmallInsertMaybeReHash(g[i - 1], list[i])
  <2>1. CASE i = m
    <3>1. g[m - 1] = f[m - 1]
      BY <1>4, <1>9
    <3>2. g[i] = last
      BY <1>8, <2>1
    <3> QED
      BY <1>3, <1>7, <2>1, <3>1, <3>2
  <2>2. CASE i # m
    <3>1. i \in 0..m - 1 /\ i \in Nat
      BY <1>4, <2>2
    <3>2. f[i] = IF i = 0 THEN Small(Len(list), <<>>) ELSE SmallInsertMaybeReHash(f[i - 1], list[i])
      BY <1>6, <3>1 DEF SmallEqs
    <3>3. i # 0 => g[i - 1] = f[i - 1]
      <4>1. i # 0 => i - 1 \in 0..m /\ i - 1 # m
        BY <1>4, <3>1
      <4> QED
        BY <1>9, <4>1
    <3>4. g[i] = f[i]
      BY <1>9, <2>2
    <3> QED
      BY <3>2, <3>3, <3>4
  <2> QED
    BY <2>1, <2>2
<1>11. DOMAIN g = 0..m /\ g = [i \in 0..m |-> g[i]]
  BY <1>8
<1>12. SmallEqs(list, m, g)
  <2>1. g = [i \in 0..m |-> IF i = 0 THEN Small(Len(list), <<>>) ELSE SmallInsertMaybeReHash(g[i - 1], list[i])]
    BY <1>10, <1>11
  <2> QED
    BY <2>1 DEF SmallEqs
<1> QED
  BY <1>2, <1>12

SmallsOf(list) == CHOOSE f : SmallEqs(list, Len(list), f)

\* CreateFromRange takes its result from them.
LEMMA FromRangeEq ==
  ASSUME NEW list
  PROVE  CreateFromRange(list) = IF Len(list) < kMaxSize THEN Inserted(SmallsOf(list)[Len(list)], <<>>)
                                 ELSE Inserted(DenseEmpty(CalcTableSize(Len(list))), list)
BY Zenon DEF CreateFromRange, SmallsOf, SmallEqs

\* CreateFromRange makes a small map at once, or a table that is to take in the list.
LEMMA FromRangeIs ==
  ASSUME NEW list, Len(list) \in Nat
  PROVE  /\ Len(list) < kMaxSize =>
              \E f : SmallEqs(list, Len(list), f) /\ CreateFromRange(list) = Inserted(f[Len(list)], <<>>)
         /\ ~(Len(list) < kMaxSize) =>
              CreateFromRange(list) = Inserted(DenseEmpty(CalcTableSize(Len(list))), list)
<1>1. PICK g : g = SmallsOf(list)
  OBVIOUS
<1>2. \E f : SmallEqs(list, Len(list), f)
  BY SmallEqsHold
<1>3. SmallEqs(list, Len(list), g)
  BY <1>1, <1>2, Zenon DEF SmallsOf
<1>4. CreateFromRange(list) = IF Len(list) < kMaxSize THEN Inserted(g[Len(list)], <<>>)
                              ELSE Inserted(DenseEmpty(CalcTableSize(Len(list))), list)
  BY <1>1, FromRangeEq, Zenon
<1> QED
  BY <1>3, <1>4

\* A small map made from a list holds what comes of setting its pairs one by one.
LEMMA SmallFromRange ==
  ASSUME NEW list, IsPairs(list), Len(list) < kMaxSize, NEW f, SmallEqs(list, Len(list), f), NEW n \in 0..Len(list)
  PROVE  IsSmall(f[n]) /\ Built(f[n].items, list, n) /\ Len(f[n].items) <= n
<1> DEFINE Good(m) == IsSmall(f[m]) /\ Built(f[m].items, list, m) /\ Len(f[m].items) <= m
           Bad == {m \in 0..Len(list) : ~Good(m)}
<1>1. Len(list) \in Nat /\ kMaxSize \in Nat /\ \A m \in 1..Len(list) : list[m] \in Key \X Value
  BY LenProperties, SmallSizeAssumption DEF IsPairs
<1>2. SUFFICES ASSUME Bad # {} PROVE FALSE
  OBVIOUS
<1>3. Bad \in SUBSET Nat
  OBVIOUS
<1>4. PICK m \in Bad : \A i \in Bad : m <= i
  BY <1>2, <1>3, SmallestNumber
<1>5. f[m] = IF m = 0 THEN Small(Len(list), <<>>) ELSE SmallInsertMaybeReHash(f[m - 1], list[m])
  BY DEF SmallEqs
<1>6. m # 0
  <2>1. SUFFICES ASSUME m = 0 PROVE FALSE
    OBVIOUS
  <2>2. f[m] = Small(Len(list), <<>>)
    BY <1>5, <2>1
  <2>3. f[m].items = <<>> /\ f[m].slots = Len(list) /\ f[m] = Small(f[m].slots, f[m].items)
    BY <2>2 DEF Small
  <2>4. <<>> \in Seq(Key \X Value) /\ Len(<<>>) = 0 /\ OncePerKey(<<>>)
    BY EmptySeq DEF OncePerKey
  <2>5. IsSmall(f[m])
    BY <1>1, <2>3, <2>4 DEF IsSmall
  <2>6. Built(f[m].items, list, m) /\ Len(f[m].items) <= m
    BY <2>1, <2>3, <2>4, BuiltNone
  <2> QED
    BY <2>5, <2>6
<1>7. m \in 1..Len(list) /\ m - 1 \in 0..Len(list) /\ m - 1 \in Nat /\ (m - 1) + 1 = m
  BY <1>6
<1>8. Good(m - 1)
  <2>1. m - 1 \notin Bad
    BY <1>4, <1>7
  <2> QED
    BY <1>7, <2>1
<1>9. PICK g : g = f[m - 1]
  OBVIOUS
<1>10. IsSmall(g) /\ Built(g.items, list, m - 1) /\ Len(g.items) <= m - 1
  BY <1>8, <1>9
<1>11. PICK k \in Key, v \in Value : list[m] = <<k, v>>
  BY <1>1, <1>7
<1>12. f[m] = SmallInsertMaybeReHash(g, <<k, v>>)
  BY <1>5, <1>6, <1>9, <1>11
<1>13. g.slots < kMaxSize \/ Len(g.items) < g.slots
  <2>1. g.slots \in 0..kMaxSize /\ Len(g.items) \in Nat
    BY <1>10, LenProperties DEF IsSmall
  <2> QED
    BY <1>1, <1>7, <1>10, <2>1
<1>14. IsSmall(f[m]) /\ f[m].items \in Dict!AfterSet(g.items, k, v)
  BY <1>10, <1>12, <1>13, SmallSetIsDictionarySet
<1>15. Built(f[m].items, list, m) /\ Len(f[m].items) <= Len(g.items) + 1
  <2>1. list[(m - 1) + 1] = <<k, v>>
    BY <1>7, <1>11
  <2> QED
    BY <1>7, <1>10, <1>14, <2>1, BuiltOn
<1>16. Len(f[m].items) <= m
  <2>1. Len(g.items) \in Nat /\ Len(f[m].items) \in Nat
    BY <1>10, <1>14, LenProperties DEF IsSmall
  <2> QED
    BY <1>7, <1>10, <1>15, <2>1
<1>17. Good(m)
  BY <1>14, <1>15, <1>16
<1> QED
  BY <1>17

-----------------------------------------------------------------------------
(* Steps of the map.                                                       *)

\* Between two insertions of a call the object behind the handle is none, a small map, or a
\* sound table; only a table may have pairs left to take in.
Sane(m, kvs) ==
    /\ IsPairs(kvs)
    /\ \/ m = NullMap /\ kvs = <<>>
       \/ IsSmall(m) /\ kvs = <<>>
       \/ IsSoundTable(m)

MapInv == Sane(map, todo)

\* What iteration gives of a small map, of a sound table, and of the null handle.
LEMMA SmallLayout ==
  ASSUME NEW m, IsSmall(m)
  PROVE  m.layout = "small" /\ Entries(m) = m.items /\ IsPairs(m.items) /\ OncePerKey(m.items)
<1>1. m.layout = "small"
  BY DEF IsSmall, Small
<1>2. Entries(m) = m.items
  BY <1>1 DEF Entries
<1> QED
  BY <1>1, <1>2 DEF IsSmall, IsPairs

LEMMA DenseLayout ==
  ASSUME NEW m, IsSoundTable(m)
  PROVE  m.layout = "dense" /\ Entries(m) = Pairs(m) /\ IsPairs(Pairs(m)) /\ OncePerKey(Pairs(m))
<1>1. PICK l, d : Sound(m, l, d)
  BY DEF IsSoundTable
<1>2. m.layout = "dense" /\ IsPairs(Pairs(m)) /\ OncePerKey(Pairs(m))
  BY <1>1, PairsOfSound
<1>3. Entries(m) = Pairs(m)
  BY <1>2 DEF Entries
<1> QED
  BY <1>2, <1>3

LEMMA NullLayout == NullMap.layout = "null" /\ Entries(NullMap) = <<>>
BY DEF NullMap, Entries

\* No pairs are pairs too.
LEMMA NoPairs == IsPairs(<<>>) /\ OncePerKey(<<>>)
<1>1. <<>> \in Seq(Key \X Value)
  BY EmptySeq
<1> QED
  BY <1>1 DEF IsPairs, OncePerKey

\* What iteration gives of a map has each key once.
LEMMA EntriesArePairs ==
  ASSUME MapInv
  PROVE  IsPairs(Entries(map)) /\ OncePerKey(Entries(map))
<1>1. CASE map = NullMap
  BY <1>1, NullLayout, NoPairs
<1>2. CASE IsSmall(map)
  BY <1>2, SmallLayout
<1>3. CASE IsSoundTable(map)
  BY <1>3, DenseLayout
<1> QED
  BY <1>1, <1>2, <1>3 DEF MapInv, Sane

\* The object that a call changes lists what the map lists.
Own(m, s) == (IsSmall(m) \/ IsSoundTable(m)) /\ Entries(m) = s

\* Copying the object before a change keeps what it lists (CopyOnWrite).
LEMMA CopyIsOwn ==
  ASSUME MapInv, NEW unique \in BOOLEAN
  PROVE  Own(CopyOnWrite(map, unique), Entries(map))
<1>1. CASE map = NullMap
  <2>1. CopyOnWrite(map, unique) = SmallEmpty
    BY <1>1, NullLayout DEF CopyOnWrite
  <2>2. IsSmall(SmallEmpty) /\ SmallEmpty.items = <<>>
    BY SmallCopyKeepsEntries
  <2> QED
    BY <1>1, <2>1, <2>2, NullLayout, SmallLayout DEF Own
<1>2. CASE IsSmall(map)
  <2>1. CopyOnWrite(map, unique) = IF unique THEN map ELSE SmallCopyFrom(map)
    BY <1>2, SmallLayout DEF CopyOnWrite
  <2>2. IsSmall(SmallCopyFrom(map)) /\ SmallCopyFrom(map).items = map.items
    BY <1>2, SmallCopyKeepsEntries
  <2> QED
    BY <1>2, <2>1, <2>2, SmallLayout DEF Own
<1>3. CASE IsSoundTable(map)
  <2>1. CopyOnWrite(map, unique) = map
    BY <1>3, DenseLayout DEF CopyOnWrite
  <2> QED
    BY <1>3, <2>1 DEF Own
<1> QED
  BY <1>1, <1>2, <1>3 DEF MapInv, Sane

\* What an insertion leaves: the pair is in, or all of them go into an empty table.
Inserting(s, k, v, r) ==
    \/ IsSmall(r.map) /\ r.todo = <<>> /\ Entries(r.map) \in Dict!AfterSet(s, k, v)
    \/ IsSoundTable(r.map) /\ r.todo = <<>> /\ Entries(r.map) = SetLast(s, <<k, v>>)
    \/ IsSoundTable(r.map) /\ Entries(r.map) = <<>> /\ r.todo = s \o <<<<k, v>>>>

\* An insertion into a map of either layout (InsertMaybeReHash).
LEMMA InsertInserts ==
  ASSUME NEW m, NEW s, Own(m, s), NEW k \in Key, NEW v \in Value
  PROVE  Inserting(s, k, v, InsertMaybeReHash(m, <<k, v>>))
<1>1. PICK kv : kv = <<k, v>>
  OBVIOUS
<1>2. PICK kvs : kvs = <<kv>>
  OBVIOUS
<1>3. /\ IsPairs(kvs) /\ kvs # <<>> /\ Head(kvs) = kv /\ Tail(kvs) = <<>>
      /\ \A t \in Seq(Key \X Value) : Append(t, kv) = t \o kvs
  <2>1. kv \in Key \X Value
    BY <1>1
  <2> QED
    BY <1>2, <2>1 DEF IsPairs
<1>4. PICK r : r = InsertMaybeReHash(m, kv)
  OBVIOUS
<1>5. CASE IsSoundTable(m)
  <2>1. r = DenseInsertMaybeReHash(m, kvs)
    BY <1>2, <1>4, <1>5, DenseLayout DEF InsertMaybeReHash
  <2>2. GoesOn(m, kvs, r)
    BY <1>3, <1>5, <2>1, DenseInserted
  <2>3. IsSoundTable(r.map) /\ Entries(r.map) = Pairs(r.map) /\ Pairs(m) = s
    BY <1>5, <2>2, DenseLayout DEF GoesOn, Own
  <2>4. Inserting(s, k, v, r)
    BY <1>1, <1>2, <1>3, <2>2, <2>3, Zenon DEF GoesOn, Inserting
  <2> QED
    BY <1>1, <1>4, <2>4
<1>6. CASE IsSmall(m)
  <2>1. /\ m.layout = "small" /\ m.items = s /\ IsPairs(s)
        /\ Len(s) \in Nat /\ Len(s) <= m.slots /\ m.slots \in 0..kMaxSize /\ kMaxSize \in Nat
    BY <1>6, SmallLayout, LenProperties, SmallSizeAssumption DEF Own, IsPairs, IsSmall
  <2>2. CASE m.slots < kMaxSize \/ Len(m.items) < m.slots
    <3>1. r = Inserted(SmallInsertMaybeReHash(m, <<k, v>>), <<>>)
      BY <1>1, <1>4, <2>1, <2>2 DEF InsertMaybeReHash
    <3>2. PICK x : x = SmallInsertMaybeReHash(m, <<k, v>>)
      OBVIOUS
    <3>3. IsSmall(x) /\ x.items \in Dict!AfterSet(s, k, v)
      BY <1>6, <2>1, <2>2, <3>2, SmallSetIsDictionarySet
    <3>4. r.map = x /\ r.todo = <<>>
      BY <3>1, <3>2 DEF Inserted
    <3>5. Inserting(s, k, v, r)
      BY <3>3, <3>4, SmallLayout DEF Inserting
    <3> QED
      BY <1>1, <1>4, <3>5
  <2>3. CASE ~(m.slots < kMaxSize \/ Len(m.items) < m.slots)
    <3>1. ~(Len(s) < kMaxSize)
      BY <2>1, <2>3
    <3>2. PICK V : V = DenseEmpty(CalcTableSize(Len(s)))
      OBVIOUS
    <3>3. CreateFromRange(s) = Inserted(V, s)
      BY <2>1, <3>1, <3>2, FromRangeIs
    <3>4. r = LET c == CreateFromRange(s) IN Inserted(c.map, Append(c.todo, kv))
      BY <1>4, <2>1, <2>3 DEF InsertMaybeReHash
    <3>5. r.map = V /\ r.todo = Append(s, kv)
      BY <3>3, <3>4 DEF Inserted
    <3>6. IsSoundTable(V) /\ Pairs(V) = <<>>
      BY <2>1, <3>2, TableSizeIsPositive, EmptyTable DEF IsSoundTable
    <3>7. r.todo = s \o <<<<k, v>>>>
      BY <1>1, <1>2, <1>3, <2>1, <3>5 DEF IsPairs
    <3>8. Inserting(s, k, v, r)
      BY <3>5, <3>6, <3>7, DenseLayout DEF Inserting
    <3> QED
      BY <1>1, <1>4, <3>8
  <2> QED
    BY <2>2, <2>3
<1> QED
  BY <1>5, <1>6 DEF Own

\* Each action keeps the state of the map sound: Set, ...
LEMMA SetGoesOn ==
  ASSUME MapInv, NEW k \in Key, NEW v \in Value, NEW unique \in BOOLEAN, Set(k, v, unique)
  PROVE  MapInv'
<1>1. PICK m : m = CopyOnWrite(map, unique)
  OBVIOUS
<1>2. PICK s : s = Entries(map)
  OBVIOUS
<1>3. IsPairs(s) /\ OncePerKey(s)
  BY <1>2, EntriesArePairs
<1>4. PICK r : r = InsertMaybeReHash(m, <<k, v>>)
  OBVIOUS
<1>5. Inserting(s, k, v, r)
  BY <1>1, <1>2, <1>4, CopyIsOwn, InsertInserts
<1>6. map' = r.map /\ todo' = r.todo
  BY <1>1, <1>4 DEF Set, Becomes
<1>7. IsPairs(s \o <<<<k, v>>>>)
  <2>1. <<k, v>> \in Key \X Value
    OBVIOUS
  <2>2. <<<<k, v>>>> \in Seq(Key \X Value)
    BY <2>1
  <2> QED
    BY <1>3, <2>2, ConcatProperties DEF IsPairs
<1>8. IsPairs(r.todo) /\ ((IsSmall(r.map) /\ r.todo = <<>>) \/ IsSoundTable(r.map))
  BY <1>5, <1>7, NoPairs DEF Inserting
<1>9. Sane(r.map, r.todo)
  BY <1>8 DEF Sane
<1> QED
  BY <1>6, <1>9 DEF MapInv

\* ... the next insertion of a call, ...
LEMMA GoOnGoesOn ==
  ASSUME MapInv, GoOn
  PROVE  MapInv' /\ GoesOn(map, todo, [map |-> map', todo |-> todo'])
<1>1. IsSoundTable(map) /\ IsPairs(todo) /\ todo # <<>>
  BY DEF MapInv, Sane, GoOn
<1>2. PICK r : r = DenseInsertMaybeReHash(map, todo)
  OBVIOUS
<1>3. map' = r.map /\ todo' = r.todo
  BY <1>2 DEF GoOn, Becomes
<1>4. GoesOn(map, todo, r)
  BY <1>1, <1>2, DenseInserted
<1>5. GoesOn(map, todo, [map |-> map', todo |-> todo'])
  BY <1>3, <1>4 DEF GoesOn
<1>6. IsPairs(Tail(todo)) /\ IsPairs(Pairs(map) \o todo)
  BY <1>1, DenseLayout, HeadTailProperties, ConcatProperties DEF IsPairs
<1>7. Sane(r.map, r.todo)
  BY <1>4, <1>6 DEF GoesOn, Sane
<1> QED
  BY <1>3, <1>5, <1>7 DEF MapInv

Erased(m, k) == IF m.layout = "small" THEN SmallErase(m, k) ELSE DenseErase(m, k)

\* Erasing a key from either layout is erasing it from the dictionary.
LEMMA EraseErases ==
  ASSUME NEW m, NEW s, Own(m, s), NEW k \in Key
  PROVE  Own(Erased(m, k), IF k \in Dict!Keys(s) THEN Dict!Without(s, k) ELSE s)
<1>1. CASE IsSmall(m)
  <2>1. m.layout = "small" /\ m.items = s
    BY <1>1, SmallLayout DEF Own
  <2>2. PICK n : n = SmallErase(m, k)
    OBVIOUS
  <2>3. IsSmall(n) /\ n.items = IF k \in Dict!Keys(s) THEN Dict!Without(s, k) ELSE s
    BY <1>1, <2>1, <2>2, SmallEraseIsDictionaryErase
  <2>4. Erased(m, k) = n
    BY <2>1, <2>2 DEF Erased
  <2> QED
    BY <2>3, <2>4, SmallLayout DEF Own
<1>2. CASE IsSoundTable(m)
  <2>1. PICK l, d : Sound(m, l, d)
    BY <1>2 DEF IsSoundTable
  <2>2. m.layout = "dense" /\ Pairs(m) = s /\ IsPairs(s) /\ OncePerKey(s)
    BY <1>2, DenseLayout DEF Own
  <2>3. PICK n : n = DenseErase(m, k)
    OBVIOUS
  <2>4. PICK l2 : Sound(n, l2, d) /\ Pairs(n) = Rest(s, k)
    BY <2>1, <2>2, <2>3, DenseErased
  <2>5. Rest(s, k) = IF k \in Dict!Keys(s) THEN Dict!Without(s, k) ELSE s
    BY <2>2, RestIsWithout
  <2>6. IsSoundTable(n)
    BY <2>4 DEF IsSoundTable
  <2>7. Erased(m, k) = n
    BY <2>2, <2>3 DEF Erased
  <2> QED
    BY <2>4, <2>5, <2>6, <2>7, DenseLayout DEF Own
<1> QED
  BY <1>1, <1>2 DEF Own

\* ... Erase, ...
LEMMA EraseGoesOn ==
  ASSUME MapInv, NEW k \in Key, NEW unique \in BOOLEAN, Erase(k, unique)
  PROVE  /\ MapInv' /\ todo = <<>> /\ todo' = <<>>
         /\ LET s == Entries(map)
            IN  Own(map', IF k \in Dict!Keys(s) THEN Dict!Without(s, k) ELSE s)
<1>1. PICK m : m = CopyOnWrite(map, unique)
  OBVIOUS
<1>2. PICK s : s = Entries(map)
  OBVIOUS
<1>3. Own(m, s)
  BY <1>1, <1>2, CopyIsOwn
<1>4. PICK t : t = IF k \in Dict!Keys(s) THEN Dict!Without(s, k) ELSE s
  OBVIOUS
<1>5. PICK n : n = Erased(m, k)
  OBVIOUS
<1>6. Own(n, t)
  BY <1>3, <1>4, <1>5, EraseErases
<1>7. map' = n /\ todo = <<>> /\ todo' = <<>>
  BY <1>1, <1>5 DEF Erase, Erased
<1>8. Sane(n, <<>>)
  BY <1>6, NoPairs DEF Own, Sane
<1> QED
  BY <1>2, <1>4, <1>6, <1>7, <1>8 DEF MapInv

\* A new map holds what its list comes to, or is a table that is to take in the list.
Constructing(list, r) ==
    \/ IsSmall(r.map) /\ r.todo = <<>> /\ Built(Entries(r.map), list, Len(list))
    \/ IsSoundTable(r.map) /\ Entries(r.map) = <<>> /\ r.todo = list

\* Either way a map is made from a list, the list is what it comes to.
LEMMA FromRangeConstructs ==
  ASSUME NEW list, IsPairs(list)
  PROVE  Constructing(list, CreateFromRange(list))
<1>1. Len(list) \in Nat
  BY LenProperties DEF IsPairs
<1>2. PICK r : r = CreateFromRange(list)
  OBVIOUS
<1>3. CASE Len(list) < kMaxSize
  <2>1. PICK f : SmallEqs(list, Len(list), f) /\ r = Inserted(f[Len(list)], <<>>)
    BY <1>1, <1>2, <1>3, FromRangeIs
  <2>2. r.map = f[Len(list)] /\ r.todo = <<>>
    BY <2>1 DEF Inserted
  <2>3. Len(list) \in 0..Len(list)
    BY <1>1
  <2>4. IsSmall(r.map) /\ Built(r.map.items, list, Len(list))
    BY <1>3, <2>1, <2>2, <2>3, SmallFromRange
  <2>5. Constructing(list, r)
    BY <2>2, <2>4, SmallLayout DEF Constructing
  <2> QED
    BY <1>2, <2>5
<1>4. CASE ~(Len(list) < kMaxSize)
  <2>1. PICK V : V = DenseEmpty(CalcTableSize(Len(list)))
    OBVIOUS
  <2>2. r = Inserted(V, list)
    BY <1>1, <1>2, <1>4, <2>1, FromRangeIs
  <2>3. r.map = V /\ r.todo = list
    BY <2>2 DEF Inserted
  <2>4. IsSoundTable(V) /\ Pairs(V) = <<>>
    BY <1>1, <2>1, TableSizeIsPositive, EmptyTable DEF IsSoundTable
  <2>5. Constructing(list, r)
    BY <2>3, <2>4, DenseLayout DEF Constructing
  <2> QED
    BY <1>2, <2>5
<1> QED
  BY <1>3, <1>4

\* The lists a map is made from hold pairs.
LEMMA ListsArePairs == \A list \in Lists : IsPairs(list)
BY KeyAssumption DEF IsPairs

\* ... Construct, ...
LEMMA ConstructGoesOn ==
  ASSUME NEW list \in Lists, Construct(list)
  PROVE  MapInv' /\ Constructing(list, [map |-> map', todo |-> todo']) /\ todo = <<>>
<1>1. PICK r : r = CreateFromRange(list)
  OBVIOUS
<1>2. map' = r.map /\ todo' = r.todo /\ todo = <<>>
  BY <1>1 DEF Construct, Becomes
<1>3. IsPairs(list)
  BY ListsArePairs
<1>4. Constructing(list, r)
  BY <1>1, <1>3, FromRangeConstructs
<1>5. Constructing(list, [map |-> map', todo |-> todo'])
  BY <1>2, <1>4 DEF Constructing
<1>6. Sane(r.map, r.todo)
  BY <1>3, <1>4, NoPairs DEF Constructing, Sane
<1> QED
  BY <1>2, <1>5, <1>6 DEF MapInv

\* ... Clear and the move, ...
LEMMA EmptiedGoesOn ==
  ASSUME Clear \/ MoveAway
  PROVE  MapInv' /\ todo = <<>> /\ todo' = <<>> /\ Entries(map') = <<>>
<1>1. IsSmall(SmallEmpty) /\ Entries(SmallEmpty) = <<>>
  BY SmallCopyKeepsEntries, SmallLayout
<1>2. Sane(SmallEmpty, <<>>) /\ Sane(NullMap, <<>>)
  BY <1>1, NoPairs DEF Sane
<1> QED
  BY <1>1, <1>2, NullLayout DEF MapInv, Clear, MoveAway

\* ... and the start.
LEMMA InitIsSane ==
  ASSUME Init
  PROVE  MapInv /\ Entries(map) = <<>> /\ todo = <<>>
<1>1. IsSmall(SmallEmpty) /\ Entries(SmallEmpty) = <<>>
  BY SmallCopyKeepsEntries, SmallLayout
<1>2. Sane(SmallEmpty, <<>>)
  BY <1>1, NoPairs DEF Sane
<1> QED
  BY <1>1, <1>2 DEF MapInv, Init

\* Whatever calls are made, between two insertions of a call the handle is null or has a small
\* map within its slots, each key once, or a table whose list and chains pass just its items.
THEOREM MapStaysSane == Spec => []MapInv
<1>1. Init => MapInv
  BY InitIsSane
<1>2. ASSUME MapInv, [Next]_vars
      PROVE  MapInv'
  <2>1. CASE UNCHANGED vars
    BY <1>2, <2>1 DEF MapInv, vars
  <2>2. ASSUME NEW k \in Key, NEW v \in Value, NEW unique \in Unique, Set(k, v, unique)
        PROVE  MapInv'
    <3>1. unique \in BOOLEAN
      BY <2>2 DEF Unique
    <3> QED
      BY <1>2, <2>2, <3>1, SetGoesOn
  <2>3. CASE GoOn
    BY <1>2, <2>3, GoOnGoesOn
  <2>4. ASSUME NEW k \in Key, NEW unique \in Unique, Erase(k, unique)
        PROVE  MapInv'
    <3>1. unique \in BOOLEAN
      BY <2>4 DEF Unique
    <3> QED
      BY <1>2, <2>4, <3>1, EraseGoesOn
  <2>5. CASE Clear \/ MoveAway
    BY <2>5, EmptiedGoesOn
  <2>6. ASSUME NEW list \in Lists, Construct(list)
        PROVE  MapInv'
    BY <2>6, ConstructGoesOn
  <2> QED
    BY <1>2, <2>1, <2>2, <2>3, <2>4, <2>5, <2>6 DEF Next
<1> QED
  BY <1>1, <1>2, PTL DEF Spec

\* A map that is dense is a sound table.
LEMMA TableFacts ==
  ASSUME MapInv, map.layout = "dense"
  PROVE  \E T, l, d : T = map /\ Sound(T, l, d)
<1>1. map # NullMap
  BY NullLayout
<1>2. ~IsSmall(map)
  BY SmallLayout
<1>3. IsSoundTable(map)
  BY <1>1, <1>2 DEF MapInv, Sane
<1> QED
  BY <1>3 DEF IsSoundTable

\* The list of a dense map always passes each occupied slot once, in both directions, size_ is
\* its length and no slot is protected, however often insertions failed half way (the ICHECK
\* of CopyFrom that no slot is protected).
THEOREM TableStaysSound == Spec => []TableSound
<1>1. MapInv => TableSound
  <2>1. SUFFICES ASSUME MapInv, map.layout = "dense"
                 PROVE  TableSound
    BY DEF TableSound
  <2>2. PICK T, l, d : T = map /\ Sound(T, l, d)
    BY <2>1, TableFacts
  <2>3. /\ Frame(T) /\ ListedAs(T, l) /\ Members(l) = Items(T) /\ Len(l) = T.size
        /\ \A i \in DOMAIN T.slot : T.slot[i].kind # "protected"
    BY <2>2 DEF Sound, Body, Listing
  <2>4. IterList(T) = l
    BY <2>3, PairsListed
  <2>5. Items(T) = ToSet(l)
    BY <2>3 DEF Members, ToSet
  <2> QED
    BY <2>2, <2>3, <2>4, <2>5 DEF TableSound, Items
<1> QED
  BY <1>1, MapStaysSane, PTL

\* The chains that start at a head are those of the keys whose home it is.
LEMMA OnOneChain ==
  ASSUME NEW T, NEW d, Body(T, d), NEW i \in Items(T), NEW h \in DOMAIN T.slot
  PROVE  IsHead(T, h) /\ i \in ToSet(Chain(T, h)) <=> h = IndexFromHash(T, T.slot[i].key)
<1>1. PICK home : home = HomeOf(T)
  OBVIOUS
<1>2. PICK on : on = NextInChain(T)
  OBVIOUS
<1>3. PICK K : K = Items(T)
  OBVIOUS
<1>4. Chained(home, on, d, K) /\ i \in K /\ Frame(T) /\ HeadsAtHome(T) /\ Items(T) \subseteq DOMAIN T.slot
  BY <1>1, <1>2, <1>3 DEF Body, Items
<1>5. home[i] = IndexFromHash(T, T.slot[i].key)
  BY <1>1, <1>3, <1>4 DEF HomeOf
<1>6. ASSUME IsHead(T, h)
      PROVE  h \in K /\ home[h] = h /\ d[h] = 0
  <2>1. h \in K
    BY <1>3, <1>6 DEF Items, IsItem, IsHead
  <2>2. home[h] = h
    BY <1>1, <1>3, <1>4, <1>6, <2>1 DEF HeadsAtHome
  <2> QED
    BY <1>4, <2>1, <2>2, AtSlot
<1>7. ASSUME h \in K
      PROVE  Runs(home, on, d, K, h, Chain(T, h))
  BY <1>1, <1>2, <1>3, <1>4, <1>7, ChainRuns
<1>8. PICK w : w = Chain(T, h)
  OBVIOUS
<1>9. ASSUME IsHead(T, h), i \in ToSet(w)
      PROVE  h = home[i]
  <2>1. Runs(home, on, d, K, h, w)
    BY <1>6, <1>7, <1>8, <1>9
  <2>2. PICK p \in 1..Len(w) : w[p] = i
    BY <1>9, <2>1, LenProperties DEF ToSet, Runs
  <2>3. home[i] = home[h]
    BY <2>1, <2>2 DEF Runs
  <2> QED
    BY <1>6, <1>9, <2>3
<1>10. ASSUME h = home[i]
       PROVE  IsHead(T, h) /\ i \in ToSet(w)
  <2>1. h \in K /\ d[h] = 0
    BY <1>4, <1>10, AtSlot DEF ChainSlot
  <2>2. home[h] = h
    BY <1>4, <2>1, AtSlot
  <2>3. IsHead(T, h)
    BY <1>1, <1>3, <1>4, <2>1, <2>2 DEF HeadsAtHome
  <2>4. Runs(home, on, d, K, h, w)
    BY <1>7, <1>8, <2>1
  <2>5. d[i] + 1 \in 1..Len(w) /\ w[d[i] + 1] = i
    BY <1>4, <1>10, <2>1, <2>2, <2>4, HomeReaches
  <2>6. DOMAIN w = 1..Len(w)
    BY <2>4, LenProperties DEF Runs
  <2> QED
    BY <2>3, <2>5, <2>6 DEF ToSet
<1> QED
  BY <1>5, <1>8, <1>9, <1>10

\* Every occupied slot of a dense map is always on the chain from the home of its own key and on
\* no other, whatever TrySpareListHead, Erase and the copies did to the jumps.
THEOREM ChainsStaySound == Spec => []ChainsSound
<1>1. MapInv => ChainsSound
  <2>1. SUFFICES ASSUME MapInv, map.layout = "dense"
                 PROVE  ChainsSound
    BY DEF ChainsSound
  <2>2. PICK T, l, d : T = map /\ Sound(T, l, d)
    BY <2>1, TableFacts
  <2>3. Body(T, d) /\ Frame(T)
    BY <2>2 DEF Sound, Body
  <2>4. ASSUME NEW i \in DOMAIN T.slot, IsItem(T, i)
        PROVE  {h \in DOMAIN T.slot : IsHead(T, h) /\ i \in ToSet(Chain(T, h))} = {IndexFromHash(T, T.slot[i].key)}
    <3>1. i \in Items(T)
      BY <2>4 DEF Items
    <3>2. \A h \in DOMAIN T.slot : IsHead(T, h) /\ i \in ToSet(Chain(T, h)) <=> h = IndexFromHash(T, T.slot[i].key)
      BY <2>3, <3>1, OnOneChain
    <3>3. IndexFromHash(T, T.slot[i].key) \in DOMAIN T.slot
      BY <2>3, <3>1, SlotOfFrame, HashInRange DEF Items
    <3> QED
      BY <3>2, <3>3
  <2> QED
    BY <2>2, <2>4 DEF ChainsSound
<1> QED
  BY <1>1, MapStaysSane, PTL

\* In a dense map find() from the home of a key always finds the entry that iteration lists, and
\* finds nothing for a key that is not listed.
THEOREM FindStaysWithIteration == Spec => []FindAgreesWithIteration
<1>1. MapInv => FindAgreesWithIteration
  <2>1. SUFFICES ASSUME MapInv, map.layout = "dense"
                 PROVE  FindAgreesWithIteration
    BY DEF FindAgreesWithIteration
  <2>2. PICK T, l, d : T = map /\ Sound(T, l, d)
    BY <2>1, TableFacts
  <2>3. /\ Frame(T) /\ ListedAs(T, l) /\ Members(l) = Items(T) /\ Len(l) = T.size /\ Len(l) \in Nat
        /\ DOMAIN l = 1..Len(l) /\ KeysApart(T) /\ HeadsAtHome(T) /\ Chained(HomeOf(T), NextInChain(T), d, Items(T))
    BY <2>2, LenProperties DEF Sound, Body, Listing, ListedAs
  <2>4. IterList(T) = l /\ Pairs(T) = Listed(T, l)
    BY <2>3, PairsListed
  <2>5. ToSet(l) = Items(T)
    BY <2>3 DEF Members, ToSet
  <2>6. PICK s : s = Pairs(T)
    OBVIOUS
  <2>7. DOMAIN s = DOMAIN l /\ \A n \in DOMAIN l : s[n][1] = T.slot[l[n]].key
    <3>1. \A n \in DOMAIN l : s[n] = PairAt(T, l[n])
      BY <2>4, <2>6 DEF Listed
    <3>2. \A i : PairAt(T, i)[1] = T.slot[i].key
      BY DEF PairAt
    <3> QED
      BY <2>4, <2>6, <3>1, <3>2 DEF Listed
  <2>8. \A k : k \in {kv[1] : kv \in ToSet(s)} <=> \E i \in Items(T) : T.slot[i].key = k
    <3>1. PICK D : D = DOMAIN l
      OBVIOUS
    <3>2. PICK E : E = ToSet(s)
      OBVIOUS
    <3>3. \A kv : kv \in E <=> \E n \in D : kv = s[n]
      BY <2>7, <3>1, <3>2 DEF ToSet
    <3>4. \A k : k \in {kv[1] : kv \in E} <=> \E n \in D : k = s[n][1]
      BY <3>3
    <3>5. \A k : (\E n \in D : k = s[n][1]) <=> \E n \in D : T.slot[l[n]].key = k
      BY <2>7, <3>1
    <3>6. \A i : i \in Items(T) <=> \E n \in D : i = l[n]
      BY <2>3, <3>1 DEF Members
    <3>7. \A k : (\E n \in D : T.slot[l[n]].key = k) <=> \E i \in Items(T) : T.slot[i].key = k
      BY <3>6
    <3> QED
      BY <3>2, <3>4, <3>5, <3>7, Zenon
  <2>9. ASSUME NEW k \in Key
        PROVE  IF k \in {kv[1] : kv \in ToSet(s)} THEN Search(T, k) \in ToSet(l) /\ T.slot[Search(T, k)].key = k
               ELSE Search(T, k) = None
    <3>1. CASE \E i \in Items(T) : T.slot[i].key = k
      <4>1. PICK i \in Items(T) : T.slot[i].key = k
        BY <3>1
      <4>2. T.size # 0
        BY <2>3 DEF Members
      <4>3. Search(T, k) = i
        BY <2>3, <4>1, <4>2, Found
      <4>4. k \in {kv[1] : kv \in ToSet(s)}
        BY <2>8, <3>1
      <4> QED
        BY <2>5, <4>1, <4>3, <4>4
    <3>2. CASE ~ \E i \in Items(T) : T.slot[i].key = k
      <4>1. Search(T, k) = None
        BY <2>3, <3>2, NotFound
      <4>2. k \notin {kv[1] : kv \in ToSet(s)}
        BY <2>8, <3>2
      <4> QED
        BY <4>1, <4>2
    <3> QED
      BY <3>1, <3>2
  <2> QED
    BY <2>2, <2>4, <2>6, <2>9 DEF FindAgreesWithIteration
<1> QED
  BY <1>1, MapStaysSane, PTL

-----------------------------------------------------------------------------
(* What a table will list once a call is over.                             *)

\* The entries once the last m pairs of the list are set, from each entries on.
SettledEqs(list, n, f) == f = [m \in 0 .. n |-> [e \in Seq(Key \X Value) |->
    IF m = 0 THEN e ELSE f[m - 1][SetLast(e, list[Len(list) - m + 1])]]]

\* The entries after m pairs, from those after fewer.
LEMMA SettledEqsAt ==
  ASSUME NEW list, NEW n \in Nat, NEW f, SettledEqs(list, n, f), NEW m \in 0..n, NEW e \in Seq(Key \X Value)
  PROVE  f[m][e] = IF m = 0 THEN e ELSE f[m - 1][SetLast(e, list[Len(list) - m + 1])]
<1>1. f[m] = [x \in Seq(Key \X Value) |-> IF m = 0 THEN x ELSE f[m - 1][SetLast(x, list[Len(list) - m + 1])]]
  BY DEF SettledEqs
<1> QED
  BY <1>1, Zenon

\* There are such entries, for any number of pairs.
LEMMA SettledEqsHold ==
  ASSUME NEW list, NEW n \in Nat
  PROVE  \E f : SettledEqs(list, n, f)
<1> DEFINE Bad == {m \in Nat : ~ \E f : SettledEqs(list, m, f)}
<1>1. SUFFICES ASSUME Bad # {} PROVE FALSE
  OBVIOUS
<1>2. PICK m \in Bad : \A i \in Bad : m <= i
  BY <1>1, SmallestNumber
<1>3. m # 0
  <2>1. SettledEqs(list, 0, [i \in 0..0 |-> [e \in Seq(Key \X Value) |-> e]])
    BY DEF SettledEqs
  <2> QED
    BY <1>2, <2>1
<1>4. m - 1 \in Nat /\ m \in Nat
  BY <1>2, <1>3
<1>5. m - 1 \notin Bad
  BY <1>2, <1>4
<1>6. PICK f : SettledEqs(list, m - 1, f)
  BY <1>4, <1>5
<1>7. PICK last : last = [e \in Seq(Key \X Value) |-> IF m = 0 THEN e ELSE f[m - 1][SetLast(e, list[Len(list) - m + 1])]]
  OBVIOUS
<1>8. PICK g : g = [i \in 0..m |-> IF i = m THEN last ELSE f[i]]
  OBVIOUS
<1>9. \A i \in 0..m : i # m => g[i] = f[i]
  BY <1>8
<1>10. ASSUME NEW i \in 0..m
       PROVE  g[i] = [e \in Seq(Key \X Value) |-> IF i = 0 THEN e ELSE g[i - 1][SetLast(e, list[Len(list) - i + 1])]]
  <2>1. CASE i = m
    <3>1. g[i] = last /\ g[i - 1] = f[i - 1]
      BY <1>3, <1>4, <1>8, <1>9, <2>1
    <3> QED
      BY <1>7, <2>1, <3>1, Zenon
  <2>2. CASE i # m
    <3>1. i \in 0..m - 1
      BY <1>4, <2>2
    <3>2. f[i] = [e \in Seq(Key \X Value) |-> IF i = 0 THEN e ELSE f[i - 1][SetLast(e, list[Len(list) - i + 1])]]
      BY <3>1, <1>6 DEF SettledEqs
    <3>3. i # 0 => g[i - 1] = f[i - 1]
      BY <1>4, <1>9, <3>1
    <3>4. g[i] = f[i]
      BY <1>9, <2>2
    <3>5. CASE i = 0
      BY <3>2, <3>4, <3>5, Zenon
    <3>6. CASE i # 0
      BY <3>2, <3>3, <3>4, <3>6, Zenon
    <3> QED
      BY <3>5, <3>6
  <2> QED
    BY <2>1, <2>2
<1>11. DOMAIN g = 0..m /\ g = [i \in 0..m |-> g[i]]
  BY <1>8
<1>12. SettledEqs(list, m, g)
  BY <1>10, <1>11, Zenon DEF SettledEqs
<1> QED
  BY <1>2, <1>12

SettledOf(list) == CHOOSE f : SettledEqs(list, Len(list), f)

\* Settled takes its result from them.
LEMMA SettledIs ==
  ASSUME NEW list, Len(list) \in Nat
  PROVE  SettledEqs(list, Len(list), SettledOf(list)) /\ \A s : Settled(s, list) = SettledOf(list)[Len(list)][s]
<1>1. \E f : SettledEqs(list, Len(list), f)
  BY SettledEqsHold
<1>2. \A s : Settled(s, list) = SettledOf(list)[Len(list)][s]
  BY Zenon DEF Settled, SettledOf, SettledEqs
<1> QED
  BY <1>1, <1>2, Zenon DEF SettledOf

\* c holds the entries before the pairs of a list are set, and after each of the first n.
Course(s, list, n, c) ==
    /\ c[0] = s /\ \A i \in 1..n : c[i] = SetLast(c[i - 1], list[i])
    /\ \A i \in 0..n : IsPairs(c[i])
    /\ \A i \in 0..n : OncePerKey(c[i])

\* The course of a list goes on with each of its pairs, ...
LEMMA CourseGoesOn ==
  ASSUME NEW s, NEW list, IsPairs(list), NEW n \in 0..Len(list), n # Len(list), NEW c, Course(s, list, n, c)
  PROVE  \E g : Course(s, list, n + 1, g)
<1>1. Len(list) \in Nat /\ n \in Nat /\ n + 1 \in 1..Len(list) /\ list[n + 1] \in Key \X Value
  BY LenProperties DEF IsPairs
<1>2. PICK k \in Key, v \in Value : list[n + 1] = <<k, v>>
  BY <1>1
<1>3. c[0] = s /\ IsPairs(c[n]) /\ OncePerKey(c[n])
  BY <1>1 DEF Course
<1>4. PICK t : t = SetLast(c[n], list[n + 1])
  OBVIOUS
<1>5. IsPairs(t) /\ OncePerKey(t)
  BY <1>2, <1>3, <1>4, SetLastIsSet
<1>6. PICK g : g = [i \in 0..n + 1 |-> IF i = n + 1 THEN t ELSE c[i]]
  OBVIOUS
<1>7. \A i \in 0..n + 1 : i = n + 1 \/ (i \in 0..n /\ i # n + 1)
  BY <1>1
<1>8. g[n + 1] = t /\ \A i \in 0..n : g[i] = c[i]
  <2>1. n + 1 \in 0..n + 1 /\ \A i \in 0..n : i \in 0..n + 1 /\ i # n + 1
    BY <1>1
  <2> QED
    BY <1>6, <2>1
<1>9. g[0] = s
  BY <1>1, <1>3, <1>8
<1>10. ASSUME NEW i \in 1..n + 1 PROVE g[i] = SetLast(g[i - 1], list[i])
  <2>1. i - 1 \in 0..n
    BY <1>1
  <2>2. CASE i = n + 1
    <3>1. i - 1 = n
      BY <1>1, <2>2
    <3> QED
      BY <1>4, <1>8, <2>1, <2>2, <3>1
  <2>3. CASE i # n + 1
    <3>1. i \in 1..n /\ i \in 0..n
      BY <1>1, <2>3
    <3> QED
      BY <1>8, <2>1, <3>1 DEF Course
  <2> QED
    BY <2>2, <2>3
<1>11. \A i \in 0..n + 1 : IsPairs(g[i])
  BY <1>5, <1>7, <1>8 DEF Course
<1>12. \A i \in 0..n + 1 : OncePerKey(g[i])
  BY <1>5, <1>7, <1>8 DEF Course
<1>13. Course(s, list, n + 1, g)
  BY <1>9, <1>10, <1>11, <1>12 DEF Course
<1> QED
  BY <1>13

\* ... to its end.
LEMMA CoursesExist ==
  ASSUME NEW s, IsPairs(s), OncePerKey(s), NEW list, IsPairs(list)
  PROVE  \E c : Course(s, list, Len(list), c)
<1> DEFINE Bad == {m \in 0..Len(list) : ~ \E c : Course(s, list, m, c)}
<1>1. SUFFICES ASSUME Bad # {} PROVE FALSE
  <2>1. Len(list) \in Nat
    BY LenProperties DEF IsPairs
  <2>2. Len(list) \in 0..Len(list)
    BY <2>1
  <2> QED
    BY <2>2
<1>2. PICK m \in Bad : \A i \in Bad : m <= i
  <2>1. Bad \in SUBSET Nat
    OBVIOUS
  <2> QED
    BY <1>1, <2>1, SmallestNumber
<1>3. m # 0
  <2>1. PICK c : c = [i \in 0..0 |-> s]
    OBVIOUS
  <2>2. (\A i \in 0..0 : c[i] = s) /\ 0 \in 0..0 /\ 1..0 = {}
    BY <2>1
  <2>3. Course(s, list, 0, c)
    BY <2>2 DEF Course
  <2> QED
    BY <2>3
<1>4. m - 1 \in 0..Len(list) /\ m \in Nat /\ m - 1 # Len(list) /\ (m - 1) + 1 = m
  <2>1. Len(list) \in Nat
    BY LenProperties DEF IsPairs
  <2> QED
    BY <1>3, <2>1
<1>5. m - 1 \notin Bad
  BY <1>2, <1>4
<1>6. PICK c : Course(s, list, m - 1, c)
  BY <1>4, <1>5
<1>7. \E g : Course(s, list, m, g)
  BY <1>4, <1>6, CourseGoesOn
<1> QED
  BY <1>7

\* A course ends with what the list settles to.
LEMMA CourseEnds ==
  ASSUME NEW s, NEW list, IsPairs(list), NEW c, Course(s, list, Len(list), c)
  PROVE  Settled(s, list) = c[Len(list)]
<1>1. PICK n \in Nat : n = Len(list)
  BY LenProperties DEF IsPairs
<1>2. PICK f : f = SettledOf(list)
  OBVIOUS
<1>3. SettledEqs(list, n, f) /\ Settled(s, list) = f[n][s]
  BY <1>1, <1>2, SettledIs
<1>4. /\ c[0] = s
      /\ \A i \in 1..n : c[i] = SetLast(c[i - 1], list[i])
      /\ \A i \in 0..n : c[i] \in Seq(Key \X Value)
  BY <1>1 DEF Course, IsPairs
<1> DEFINE Bad == {i \in 0..n : f[n - i][c[i]] # f[n][s]}
<1>5. Bad = {}
  <2>1. SUFFICES ASSUME Bad # {} PROVE FALSE
    OBVIOUS
  <2>2. Bad \in SUBSET Nat
    OBVIOUS
  <2>3. PICK m \in Bad : \A i \in Bad : m <= i
    BY <2>1, <2>2, SmallestNumber
  <2>4. m # 0
    BY <1>4
  <2>5. PICK i \in 0..n : i = m - 1 /\ m = i + 1 /\ i # n
    BY <2>4
  <2>6. i \notin Bad
    BY <2>3, <2>5
  <2>7. f[n - i][c[i]] = f[n][s]
    BY <2>6
  <2>8. n - i \in 0..n /\ n - i # 0 /\ (n - i) - 1 = n - m /\ n - (n - i) + 1 = m /\ m \in 1..n
    BY <2>5
  <2>9. f[n - i][c[i]] = f[n - m][SetLast(c[i], list[m])]
    <3>1. PICK j \in 0..n : j = n - i
      BY <2>8
    <3>2. PICK e \in Seq(Key \X Value) : e = c[i]
      BY <1>4
    <3>3. SettledEqs(list, n, f)
      BY <1>3
    <3> HIDE DEF Bad
    <3>4. f[j][e] = IF j = 0 THEN e ELSE f[j - 1][SetLast(e, list[Len(list) - j + 1])]
      BY <3>3, SettledEqsAt
    <3>5. j # 0 /\ j - 1 = n - m /\ Len(list) - j + 1 = m
      BY <1>1, <2>8, <3>1
    <3> QED
      BY <3>1, <3>2, <3>4, <3>5
  <2>10. SetLast(c[i], list[m]) = c[m]
    BY <1>4, <2>5, <2>8
  <2>11. f[n - m][c[m]] = f[n][s]
    BY <2>7, <2>8, <2>9, <2>10
  <2> QED
    BY <2>11
<1>6. n \in 0..n /\ n - n = 0 /\ 0 \in 0..n
  OBVIOUS
<1>7. f[0][c[n]] = f[n][s]
  BY <1>5, <1>6
<1>8. f[0][c[n]] = c[n]
  <2>1. PICK e \in Seq(Key \X Value) : e = c[n]
    BY <1>4, <1>6
  <2>2. PICK j \in 0..n : j = 0
    BY <1>6
  <2>3. SettledEqs(list, n, f)
    BY <1>3
  <2> HIDE DEF Bad
  <2>4. f[j][e] = IF j = 0 THEN e ELSE f[j - 1][SetLast(e, list[Len(list) - j + 1])]
    BY <2>3, SettledEqsAt
  <2> QED
    BY <2>1, <2>2, <2>4, Zenon
<1> QED
  BY <1>1, <1>3, <1>7, <1>8

\* Keys stay apart whatever is set.
LEMMA SettledIsPairs ==
  ASSUME NEW s, IsPairs(s), OncePerKey(s), NEW list, IsPairs(list)
  PROVE  IsPairs(Settled(s, list)) /\ OncePerKey(Settled(s, list))
<1>1. PICK c : Course(s, list, Len(list), c)
  BY CoursesExist
<1>2. Settled(s, list) = c[Len(list)]
  BY <1>1, CourseEnds
<1>3. Len(list) \in 0..Len(list)
  BY LenProperties DEF IsPairs
<1> QED
  BY <1>1, <1>2, <1>3 DEF Course

\* Nothing changes when nothing is set.
LEMMA SettledByNone ==
  ASSUME NEW s, IsPairs(s), OncePerKey(s)
  PROVE  Settled(s, <<>>) = s
<1>1. IsPairs(<<>>) /\ Len(<<>>) = 0
  BY NoPairs
<1>2. PICK c : Course(s, <<>>, Len(<<>>), c)
  BY <1>1, CoursesExist
<1>3. Settled(s, <<>>) = c[0]
  BY <1>1, <1>2, CourseEnds
<1> QED
  BY <1>2, <1>3 DEF Course

\* Setting the first pair and then the rest is setting them all.
LEMMA SettledByHead ==
  ASSUME NEW s, IsPairs(s), OncePerKey(s), NEW list, IsPairs(list), list # <<>>
  PROVE  Settled(SetLast(s, Head(list)), Tail(list)) = Settled(s, list)
<1>1. PICK c : Course(s, list, Len(list), c)
  BY CoursesExist
<1>2. Settled(s, list) = c[Len(list)]
  BY <1>1, CourseEnds
<1>3. PICK n \in Nat : Len(list) = n + 1
  <2>1. Len(list) \in Nat /\ Len(list) # 0
    BY LenProperties, EmptySeq DEF IsPairs
  <2>2. Len(list) - 1 \in Nat /\ Len(list) = (Len(list) - 1) + 1
    BY <2>1
  <2> QED
    BY <2>2
<1>4. PICK t : t = Tail(list)
  OBVIOUS
<1>5. IsPairs(t) /\ Len(t) = n /\ Head(list) = list[1] /\ \A i \in 1..n : t[i] = list[i + 1]
  BY <1>3, <1>4, HeadTailProperties DEF IsPairs
<1>6. PICK g : g = [i \in 0..n |-> c[i + 1]]
  OBVIOUS
<1>7. /\ \A i \in 1..n + 1 : c[i] = SetLast(c[i - 1], list[i])
      /\ \A i \in 0..n + 1 : IsPairs(c[i])
      /\ \A i \in 0..n + 1 : OncePerKey(c[i])
      /\ c[0] = s
  BY <1>1, <1>3 DEF Course
<1>8. g[0] = SetLast(s, Head(list))
  <2>1. g[0] = c[1]
    BY <1>6
  <2>2. c[1] = SetLast(c[0], list[1])
    BY <1>7
  <2> QED
    BY <1>5, <1>7, <2>1, <2>2
<1>9. ASSUME NEW i \in 1..n PROVE g[i] = SetLast(g[i - 1], t[i])
  <2>1. g[i] = c[i + 1] /\ g[i - 1] = c[i] /\ i + 1 \in 1..n + 1 /\ (i + 1) - 1 = i
    BY <1>6
  <2>2. c[i + 1] = SetLast(c[(i + 1) - 1], list[i + 1])
    BY <1>7, <2>1
  <2> QED
    BY <1>5, <2>1, <2>2
<1>10. \A i \in 0..n : g[i] = c[i + 1] /\ i + 1 \in 0..n + 1
  BY <1>6
<1>11. Course(SetLast(s, Head(list)), t, n, g)
  BY <1>7, <1>8, <1>9, <1>10 DEF Course
<1>12. Settled(SetLast(s, Head(list)), t) = g[n]
  BY <1>5, <1>11, CourseEnds
<1>13. g[n] = c[n + 1]
  BY <1>10
<1> QED
  BY <1>2, <1>3, <1>4, <1>12, <1>13

\* Setting the pairs of a map in their order makes the same map again.
LEMMA OwnCourse ==
  ASSUME NEW s, IsPairs(s), OncePerKey(s)
  PROVE  Course(<<>>, s, Len(s), [i \in 0..Len(s) |-> SubSeq(s, 1, i)])
<1>1. PICK n \in Nat : n = Len(s) /\ s \in Seq(Key \X Value) /\ DOMAIN s = 1..n
  BY LenProperties DEF IsPairs
<1>2. PICK g : g = [i \in 0..n |-> SubSeq(s, 1, i)]
  OBVIOUS
<1>3. ASSUME NEW i \in 0..n
      PROVE  g[i] \in Seq(Key \X Value) /\ Len(g[i]) = i /\ \A j \in 1..i : g[i][j] = s[j]
  <2>1. g[i] = SubSeq(s, 1, i)
    BY <1>2
  <2>2. \A j \in 1..i : s[j] \in Key \X Value
    BY <1>1
  <2>3. g[i] \in Seq(Key \X Value)
    BY <1>1, <2>1, <2>2
  <2> QED
    BY <1>1, <2>1, <2>3
<1>4. ASSUME NEW i \in 0..n
      PROVE  OncePerKey(g[i])
  <2>1. DOMAIN g[i] = 1..i /\ \A j \in 1..i : j \in DOMAIN s
    BY <1>1, <1>3, LenProperties
  <2> QED
    BY <1>3, <2>1 DEF OncePerKey
<1>5. g[0] = <<>>
  <2>1. 0 \in 0..n
    OBVIOUS
  <2> QED
    BY <1>3, <2>1, EmptySeq
<1>6. ASSUME NEW i \in 1..n
      PROVE  g[i] = SetLast(g[i - 1], s[i])
  <2>1. i - 1 \in 0..n /\ i \in 0..n /\ i \in Nat
    OBVIOUS
  <2>2. PICK e : e = g[i - 1]
    OBVIOUS
  <2>3. e \in Seq(Key \X Value) /\ Len(e) = i - 1 /\ \A j \in 1..i - 1 : e[j] = s[j]
    BY <1>3, <2>1, <2>2
  <2>4. \A j \in 1..Len(e) : e[j][1] # s[i][1]
    <3>1. \A j \in 1..i - 1 : j \in DOMAIN s /\ i \in DOMAIN s /\ j # i
      BY <1>1
    <3> QED
      BY <2>3, <3>1 DEF OncePerKey
  <2>5. Rest(e, s[i][1]) = e
    BY <2>4, RestOfAbsent
  <2>6. PICK kv \in Key \X Value : kv = s[i]
    BY <1>1
  <2>7. SetLast(e, kv) = Append(e, kv)
    BY <2>5, <2>6, SetLastIsRest
  <2>8. PICK h : h = Append(e, kv)
    OBVIOUS
  <2>9. h \in Seq(Key \X Value) /\ Len(h) = i /\ h[i] = kv /\ \A j \in 1..i - 1 : h[j] = e[j]
    BY <2>1, <2>3, <2>8
  <2>10. PICK d : d = g[i]
    OBVIOUS
  <2>11. d \in Seq(Key \X Value) /\ Len(d) = i /\ \A j \in 1..i : d[j] = s[j]
    BY <1>3, <2>1, <2>10
  <2>12. \A j \in 1..i : d[j] = h[j]
    <3>1. \A j \in 1..i : j = i \/ j \in 1..i - 1
      BY <2>1
    <3> QED
      BY <2>3, <2>6, <2>9, <2>11, <3>1
  <2>13. d = h
    BY <2>9, <2>11, <2>12, SeqEqual
  <2> QED
    BY <2>2, <2>6, <2>7, <2>8, <2>10, <2>13
<1>7. Course(<<>>, s, n, g)
  BY <1>3, <1>4, <1>5, <1>6 DEF Course, IsPairs
<1> QED
  BY <1>1, <1>2, <1>7

\* Its course ends with the map.
LEMMA OwnCourseEnds ==
  ASSUME NEW s, IsPairs(s), OncePerKey(s)
  PROVE  \E a : Course(<<>>, s, Len(s), a) /\ a[Len(s)] = s
<1>1. PICK n \in Nat : n = Len(s) /\ s \in Seq(Key \X Value)
  BY LenProperties DEF IsPairs
<1>2. PICK a : a = [i \in 0..n |-> SubSeq(s, 1, i)]
  OBVIOUS
<1>3. Course(<<>>, s, n, a)
  BY <1>1, <1>2, OwnCourse
<1>4. n \in 0..n
  OBVIOUS
<1>5. a[n] = SubSeq(s, 1, n)
  BY <1>2, <1>4
<1>6. PICK d : d = SubSeq(s, 1, n)
  OBVIOUS
<1>7. d \in Seq(Key \X Value) /\ Len(d) = n /\ \A j \in 1..n : d[j] = s[j]
  <2>1. \A j \in 1..n : s[j] \in Key \X Value
    BY <1>1
  <2>2. d \in Seq(Key \X Value)
    BY <1>1, <1>6, <2>1
  <2> QED
    BY <1>1, <1>6, <2>2
<1>8. d = s
  BY <1>1, <1>7, SeqEqual
<1> QED
  BY <1>1, <1>3, <1>5, <1>6, <1>8

\* An empty table that takes in the pairs of a map first goes on as the map would.
LEMMA SettledAfter ==
  ASSUME NEW s, IsPairs(s), OncePerKey(s), NEW t, IsPairs(t)
  PROVE  Settled(<<>>, s \o t) = Settled(s, t)
<1>1. PICK n \in Nat : n = Len(s)
  BY LenProperties DEF IsPairs
<1>2. PICK m \in Nat : m = Len(t)
  BY LenProperties DEF IsPairs
<1>3. PICK u : u = s \o t
  OBVIOUS
<1>4. /\ IsPairs(u) /\ Len(u) = n + m
      /\ \A i \in 1..n : u[i] = s[i]
      /\ \A i \in 1..m : u[n + i] = t[i]
  <2>1. u \in Seq(Key \X Value) /\ Len(u) = n + m /\ \A i \in 1..n + m : u[i] = IF i <= n THEN s[i] ELSE t[i - n]
    BY <1>1, <1>2, <1>3, ConcatProperties DEF IsPairs
  <2>2. \A i \in 1..n : i \in 1..n + m /\ i <= n
    OBVIOUS
  <2>3. \A i \in 1..m : n + i \in 1..n + m /\ ~(n + i <= n) /\ (n + i) - n = i
    OBVIOUS
  <2>4. \A i \in 1..n : u[i] = s[i]
    BY <2>1, <2>2
  <2>5. ASSUME NEW i \in 1..m PROVE u[n + i] = t[i]
    <3>1. u[n + i] = IF n + i <= n THEN s[n + i] ELSE t[(n + i) - n]
      BY <2>1, <2>3
    <3> QED
      BY <2>3, <3>1
  <2> QED
    BY <2>1, <2>4, <2>5 DEF IsPairs
<1>5. PICK a : Course(<<>>, s, n, a) /\ a[n] = s
  BY <1>1, OwnCourseEnds
<1>6. PICK c : Course(s, t, m, c)
  BY <1>2, CoursesExist
<1>7. PICK g : g = [i \in 0..n + m |-> IF i <= n THEN a[i] ELSE c[i - n]]
  OBVIOUS
<1>8. ASSUME NEW i \in 0..n PROVE g[i] = a[i]
  BY <1>7
<1>9. ASSUME NEW i \in 0..m PROVE g[n + i] = c[i]
  <2>1. CASE i = 0
    BY <1>5, <1>6, <1>7, <2>1 DEF Course
  <2>2. CASE i # 0
    <3>1. n + i \in 0..n + m /\ ~(n + i <= n) /\ (n + i) - n = i
      BY <2>2
    <3> QED
      BY <1>7, <3>1
  <2> QED
    BY <2>1, <2>2
<1>10. ASSUME NEW i \in 0..n + m
       PROVE  i \in 0..n \/ \E j \in 1..m : i = n + j
  <2>1. CASE i <= n
    BY <2>1
  <2>2. CASE ~(i <= n)
    <3>1. i - n \in 1..m /\ i = n + (i - n)
      BY <2>2
    <3> QED
      BY <3>1
  <2> QED
    BY <2>1, <2>2
<1>11. g[0] = <<>>
  BY <1>5, <1>8 DEF Course
<1>12. \A i \in 0..n + m : IsPairs(g[i])
  <2>1. \A j \in 1..m : j \in 0..m
    OBVIOUS
  <2> QED
    BY <1>5, <1>6, <1>8, <1>9, <1>10, <2>1 DEF Course
<1>13. \A i \in 0..n + m : OncePerKey(g[i])
  <2>1. \A j \in 1..m : j \in 0..m
    OBVIOUS
  <2> QED
    BY <1>5, <1>6, <1>8, <1>9, <1>10, <2>1 DEF Course
<1>14. ASSUME NEW i \in 1..n + m
       PROVE  g[i] = SetLast(g[i - 1], u[i])
  <2>1. CASE i \in 1..n
    <3>1. i \in 0..n /\ i - 1 \in 0..n
      BY <2>1
    <3>2. g[i] = a[i] /\ g[i - 1] = a[i - 1]
      BY <1>8, <3>1
    <3>3. a[i] = SetLast(a[i - 1], s[i])
      BY <1>5, <2>1 DEF Course
    <3> QED
      BY <1>4, <2>1, <3>2, <3>3
  <2>2. CASE i \notin 1..n
    <3>1. i \in 0..n + m /\ i \notin 0..n
      BY <2>2
    <3>2. PICK j \in 1..m : i = n + j
      BY <1>10, <3>1
    <3>3. j \in 0..m /\ j - 1 \in 0..m /\ i - 1 = n + (j - 1)
      BY <3>2
    <3>4. g[i] = c[j] /\ g[i - 1] = c[j - 1]
      BY <1>9, <3>2, <3>3
    <3>5. c[j] = SetLast(c[j - 1], t[j])
      BY <1>6 DEF Course
    <3> QED
      BY <1>4, <3>2, <3>4, <3>5
  <2> QED
    BY <2>1, <2>2
<1>15. Course(<<>>, u, n + m, g)
  BY <1>11, <1>12, <1>13, <1>14 DEF Course
<1>16. Settled(<<>>, u) = g[n + m]
  BY <1>4, <1>15, CourseEnds
<1>17. Settled(s, t) = c[m]
  BY <1>2, <1>6, CourseEnds
<1>18. g[n + m] = c[m]
  BY <1>9
<1> QED
  BY <1>3, <1>16, <1>17, <1>18

\* What a list settles to from nothing is what may come of setting its pairs one by one.
LEMMA SettledIsBuilt ==
  ASSUME NEW list, IsPairs(list)
  PROVE  Built(Settled(<<>>, list), list, Len(list))
<1>1. PICK n \in Nat : n = Len(list)
  BY LenProperties DEF IsPairs
<1>2. PICK c : Course(<<>>, list, n, c)
  BY <1>1, NoPairs, CoursesExist
<1>3. Settled(<<>>, list) = c[n]
  BY <1>1, <1>2, CourseEnds
<1> DEFINE Bad == {m \in 0..n : ~Built(c[m], list, m)}
<1>4. Bad = {}
  <2>1. SUFFICES ASSUME Bad # {} PROVE FALSE
    OBVIOUS
  <2>2. Bad \in SUBSET Nat
    OBVIOUS
  <2>3. PICK m \in Bad : \A i \in Bad : m <= i
    BY <2>1, <2>2, SmallestNumber
  <2>4. m # 0
    BY <1>2, BuiltNone DEF Course
  <2>5. m \in 1..n /\ m - 1 \in 0..n /\ m - 1 \in Nat /\ (m - 1) + 1 = m
    BY <2>4
  <2>6. m - 1 \notin Bad
    BY <2>3, <2>5
  <2>7. Built(c[m - 1], list, m - 1)
    BY <2>5, <2>6
  <2>8. PICK e : e = c[m - 1]
    OBVIOUS
  <2>9. IsPairs(e) /\ OncePerKey(e) /\ c[m] = SetLast(e, list[m])
    BY <1>2, <2>5, <2>8 DEF Course
  <2>10. list[m] \in Key \X Value
    BY <1>1, <2>5 DEF IsPairs
  <2>11. PICK k \in Key, v \in Value : list[m] = <<k, v>>
    BY <2>10
  <2>12. c[m] \in Dict!AfterSet(e, k, v)
    BY <2>9, <2>11, SetLastIsSet
  <2>13. list[(m - 1) + 1] = <<k, v>> /\ Built(e, list, m - 1)
    BY <2>5, <2>7, <2>8, <2>11
  <2>14. Built(c[m], list, (m - 1) + 1)
    BY <2>5, <2>12, <2>13, BuiltOn
  <2> QED
    BY <2>5, <2>14
<1>5. n \in 0..n
  OBVIOUS
<1> QED
  BY <1>1, <1>3, <1>4, <1>5

PlacesOf(list, k) == {n \in DOMAIN list : list[n][1] = k}

\* The first place of a key is no later than any of its places.
LEMMA FirstPlace ==
  ASSUME NEW list, NEW N \in Nat, DOMAIN list = 1..N, NEW k, NEW p \in 1..N, list[p][1] = k
  PROVE  Min(PlacesOf(list, k)) \in 1..N /\ Min(PlacesOf(list, k)) <= p
<1>1. PICK S : S = PlacesOf(list, k)
  OBVIOUS
<1>2. S \in SUBSET (1..N) /\ p \in S
  BY <1>1 DEF PlacesOf
<1>3. S \in SUBSET Nat /\ S # {}
  BY <1>2
<1>4. PICK m \in S : \A i \in S : m <= i
  BY <1>3, SmallestNumber
<1>5. \E x \in S : \A y \in S : x <= y
  BY <1>4
<1>6. Min(S) \in S /\ \A y \in S : Min(S) <= y
  BY <1>5 DEF Min
<1> QED
  BY <1>1, <1>2, <1>6

\* The last place of a key is the one that none comes after.
LEMMA LastPlace ==
  ASSUME NEW list, NEW N \in Nat, DOMAIN list = 1..N, NEW k, NEW n \in 1..N, list[n][1] = k,
         \A p \in n + 1..N : list[p][1] # k
  PROVE  Max(PlacesOf(list, k)) = n /\ \A p \in 1..N : list[p][1] = k => p <= n
<1>1. PICK S : S = PlacesOf(list, k)
  OBVIOUS
<1>2. \A p \in 1..N : list[p][1] = k => p <= n
  <2>1. \A p \in 1..N : p <= n \/ p \in n + 1..N
    OBVIOUS
  <2> QED
    BY <2>1
<1>3. S \in SUBSET (1..N) /\ n \in S /\ \A p \in S : n >= p
  BY <1>1, <1>2 DEF PlacesOf
<1>4. Max(S) = n
  <2>1. Max(S) \in S /\ \A p \in S : Max(S) >= p
    BY <1>3 DEF Max
  <2>2. PICK x : x = Max(S)
    OBVIOUS
  <2>3. x \in 1..N /\ x >= n /\ n >= x
    BY <1>3, <2>1, <2>2
  <2> QED
    BY <2>2, <2>3
<1> QED
  BY <1>1, <1>2, <1>4

\* What a dictionary may be that is made from a list.
Construction(s, list) ==
    /\ Len(s) = Cardinality(Dict!Keys(list)) /\ Dict!Keys(s) = Dict!Keys(list)
    /\ \A e \in ToSet(s) : e = list[Max(PlacesOf(list, e[1]))]
    /\ \A i, j \in DOMAIN s : i < j => Min(PlacesOf(list, s[i][1])) < Max(PlacesOf(list, s[j][1]))

\* What comes of setting the pairs of a list one by one is what a dictionary may be made to be.
LEMMA BuiltConstructs ==
  ASSUME NEW list, IsPairs(list), NEW s, Built(s, list, Len(list))
  PROVE  Construction(s, list)
<1>1. PICK N \in Nat : N = Len(list) /\ DOMAIN list = 1..N
  BY LenProperties DEF IsPairs
<1>2. /\ IsPairs(s) /\ OncePerKey(s)
      /\ \A i \in DOMAIN s : \E q \in 1..N : list[q] = s[i] /\ \A p \in q + 1..N : list[p][1] # s[i][1]
      /\ \A q \in 1..N : \E i \in DOMAIN s : s[i][1] = list[q][1]
      /\ \A i, j \in DOMAIN s : i < j => \E p, q \in 1..N : p < q /\ list[p][1] = s[i][1] /\ list[q][1] = s[j][1]
  BY <1>1 DEF Built
<1>3. PICK m \in Nat : m = Len(s) /\ DOMAIN s = 1..m
  BY <1>2, LenProperties DEF IsPairs
<1>4. Dict!Keys(s) = Dict!Keys(list)
  <2>1. \A k : k \in Dict!Keys(s) <=> \E i \in DOMAIN s : k = s[i][1]
    BY DEF Dict!Keys
  <2>2. \A k : k \in Dict!Keys(list) <=> \E q \in 1..N : k = list[q][1]
    BY <1>1 DEF Dict!Keys
  <2>3. \A k : k \in Dict!Keys(s) => k \in Dict!Keys(list)
    BY <1>2, <2>1, <2>2
  <2>4. \A k : k \in Dict!Keys(list) => k \in Dict!Keys(s)
    BY <1>2, <2>1, <2>2
  <2> QED
    BY <2>3, <2>4
<1>5. m = Cardinality(Dict!Keys(s))
  <2>1. PICK K : K = Dict!Keys(s)
    OBVIOUS
  <2>2. PICK f : f = [i \in 1..m |-> s[i][1]]
    OBVIOUS
  <2>3. f \in Bijection(1..m, K)
    <3>1. f \in [1..m -> K] /\ \A k \in K : \E i \in 1..m : f[i] = k
      BY <1>3, <2>1, <2>2 DEF Dict!Keys
    <3>2. \A i, j \in 1..m : f[i] = f[j] => i = j
      BY <1>2, <1>3, <2>2 DEF OncePerKey
    <3> QED
      BY <3>1, <3>2 DEF Bijection, Injection, Surjection, IsInjective
  <2>4. ExistsBijection(1..m, K)
    BY <2>3 DEF ExistsBijection
  <2>5. IsFiniteSet(1..m) /\ Cardinality(1..m) = m
    BY FS_Interval
  <2> QED
    BY <2>1, <2>4, <2>5, FS_Bijection
<1>6. ASSUME NEW i \in DOMAIN s
      PROVE  s[i] = list[Max(PlacesOf(list, s[i][1]))]
  <2>1. PICK q \in 1..N : list[q] = s[i] /\ \A p \in q + 1..N : list[p][1] # s[i][1]
    BY <1>2
  <2>2. Max(PlacesOf(list, s[i][1])) = q
    BY <1>1, <2>1, LastPlace
  <2> QED
    BY <2>1, <2>2
<1>7. ASSUME NEW i \in DOMAIN s, NEW j \in DOMAIN s, i < j
      PROVE  Min(PlacesOf(list, s[i][1])) < Max(PlacesOf(list, s[j][1]))
  <2>1. PICK p, q \in 1..N : p < q /\ list[p][1] = s[i][1] /\ list[q][1] = s[j][1]
    BY <1>2, <1>7
  <2>2. PICK n \in 1..N : list[n] = s[j] /\ \A r \in n + 1..N : list[r][1] # s[j][1]
    BY <1>2
  <2>3. Max(PlacesOf(list, s[j][1])) = n /\ q <= n
    <3>1. PICK k : k = s[j][1]
      OBVIOUS
    <3>2. list[n][1] = k /\ (\A r \in n + 1..N : list[r][1] # k) /\ list[q][1] = k
      BY <2>1, <2>2, <3>1
    <3>3. Max(PlacesOf(list, k)) = n /\ \A r \in 1..N : list[r][1] = k => r <= n
      BY <1>1, <3>2, LastPlace
    <3> QED
      BY <3>1, <3>2, <3>3
  <2>4. PICK x \in 1..N : x = Min(PlacesOf(list, s[i][1])) /\ x <= p
    BY <1>1, <2>1, FirstPlace
  <2>5. x < n
    BY <2>1, <2>3, <2>4
  <2> QED
    BY <2>3, <2>4, <2>5
<1>8. \A e \in ToSet(s) : e = list[Max(PlacesOf(list, e[1]))]
  BY <1>6 DEF ToSet
<1> QED
  BY <1>3, <1>4, <1>5, <1>7, <1>8 DEF Construction

\* The operators that the dictionary uses are those used here.
LEMMA DictUses ==
  ASSUME NEW S
  PROVE  /\ Dict!Max(S) = Max(S) /\ Dict!Min(S) = Min(S)
         /\ Dict!ToSet(S) = ToSet(S) /\ Dict!Cardinality(S) = Cardinality(S)
<1>1. Dict!Max(S) = Max(S) /\ Dict!Min(S) = Min(S)
  BY Zenon DEF Dict!Max, Max, Dict!Min, Min
<1>2. Dict!ToSet(S) = ToSet(S)
  BY DEF Dict!ToSet, ToSet
<1>3. Dict!Cardinality(S) = Cardinality(S)
  BY Zenon DEF Dict!Cardinality, Cardinality
<1> QED
  BY <1>1, <1>2, <1>3

\* Construct of the dictionary, about what the map will list.
LEMMA DictConstructIs ==
  ASSUME NEW list
  PROVE  Dict!Construct(list) <=>
           LET t == Settled(Entries(map), todo)'
           IN  /\ Len(t) = Dict!Cardinality(Dict!Keys(list)) /\ Dict!Keys(t) = Dict!Keys(list)
               /\ \A e \in Dict!ToSet(t) : e = list[Dict!Max(PlacesOf(list, e[1]))]
               /\ \A i, j \in DOMAIN t : i < j =>
                    Dict!Min(PlacesOf(list, t[i][1])) < Dict!Max(PlacesOf(list, t[j][1]))
BY Zenon DEF Dict!Construct, PlacesOf

\* A map that comes to such a construction constructs the dictionary.
LEMMA ConstructionIsDict ==
  ASSUME NEW list, NEW t, t = Settled(Entries(map), todo)', Construction(t, list)
  PROVE  Dict!Construct(list)
<1>1. /\ Len(t) = Dict!Cardinality(Dict!Keys(list)) /\ Dict!Keys(t) = Dict!Keys(list)
      /\ \A e \in Dict!ToSet(t) : e = list[Dict!Max(PlacesOf(list, e[1]))]
      /\ \A i, j \in DOMAIN t : i < j =>
           Dict!Min(PlacesOf(list, t[i][1])) < Dict!Max(PlacesOf(list, t[j][1]))
  BY DictUses DEF Construction
<1> QED
  BY <1>1, DictConstructIs

\* A pair is set once the insertions of its call are through, and it will be listed from its start on.
LEMMA InsertSettles ==
  ASSUME NEW s, IsPairs(s), OncePerKey(s), NEW k \in Key, NEW v \in Value, NEW r, Inserting(s, k, v, r)
  PROVE  Settled(Entries(r.map), r.todo) \in Dict!AfterSet(s, k, v)
<1>1. PICK kv : kv = <<k, v>>
  OBVIOUS
<1>2. PICK kvs : kvs = <<kv>>
  OBVIOUS
<1>3. IsPairs(kvs) /\ kvs # <<>> /\ Head(kvs) = kv /\ Tail(kvs) = <<>>
  <2>1. kv \in Key \X Value
    BY <1>1
  <2> QED
    BY <1>2, <2>1 DEF IsPairs
<1>4. PICK t : t = SetLast(s, kv)
  OBVIOUS
<1>5. t \in Dict!AfterSet(s, k, v) /\ IsPairs(t) /\ OncePerKey(t)
  BY <1>1, <1>4, SetLastIsSet
<1>6. CASE IsSmall(r.map) /\ r.todo = <<>> /\ Entries(r.map) \in Dict!AfterSet(s, k, v)
  <2>1. IsPairs(Entries(r.map)) /\ OncePerKey(Entries(r.map))
    BY <1>6, SmallLayout
  <2>2. Settled(Entries(r.map), <<>>) = Entries(r.map)
    BY <2>1, SettledByNone
  <2> QED
    BY <1>6, <2>2
<1>7. CASE r.todo = <<>> /\ Entries(r.map) = SetLast(s, <<k, v>>)
  <2>1. Settled(t, <<>>) = t
    BY <1>5, SettledByNone
  <2> QED
    BY <1>1, <1>4, <1>5, <1>7, <2>1
<1>8. CASE Entries(r.map) = <<>> /\ r.todo = s \o <<<<k, v>>>>
  <2>1. Settled(<<>>, s \o kvs) = Settled(s, kvs)
    BY <1>3, SettledAfter
  <2>2. Settled(SetLast(s, Head(kvs)), Tail(kvs)) = Settled(s, kvs)
    BY <1>3, SettledByHead
  <2>3. Settled(t, <<>>) = t
    BY <1>5, SettledByNone
  <2>4. Settled(Entries(r.map), r.todo) = t
    BY <1>1, <1>2, <1>3, <1>4, <1>8, <2>1, <2>2, <2>3
  <2> QED
    BY <1>5, <2>4
<1> QED
  BY <1>6, <1>7, <1>8 DEF Inserting

\* Each action of the map is one of the dictionary, or changes nothing of it: Set sets, ...
LEMMA SetIsDictSet ==
  ASSUME MapInv, NEW k \in Key, NEW v \in Value, NEW unique \in BOOLEAN, Set(k, v, unique)
  PROVE  Dict!Next
<1>1. PICK m : m = CopyOnWrite(map, unique)
  OBVIOUS
<1>2. PICK s : s = Entries(map)
  OBVIOUS
<1>3. IsPairs(s) /\ OncePerKey(s)
  BY <1>2, EntriesArePairs
<1>4. PICK r : r = InsertMaybeReHash(m, <<k, v>>)
  OBVIOUS
<1>5. Inserting(s, k, v, r)
  BY <1>1, <1>2, <1>4, CopyIsOwn, InsertInserts
<1>6. map' = r.map /\ todo' = r.todo /\ todo = <<>>
  BY <1>1, <1>4 DEF Set, Becomes
<1>7. PICK t : t = Settled(Entries(r.map), r.todo)
  OBVIOUS
<1>8. t \in Dict!AfterSet(s, k, v)
  BY <1>3, <1>5, <1>7, InsertSettles
<1>9. Settled(Entries(map), todo) = s
  BY <1>2, <1>3, <1>6, SettledByNone
<1>10. Settled(Entries(map), todo)' = t
  BY <1>6, <1>7
<1>11. Dict!Set
  BY <1>8, <1>9, <1>10 DEF Dict!Set
<1> QED
  BY <1>11 DEF Dict!Next

\* ... the later insertions of a call change nothing, even when the table gives way to a larger one, ...
LEMMA GoOnKeeps ==
  ASSUME MapInv, GoOn
  PROVE  Settled(Entries(map), todo)' = Settled(Entries(map), todo)
<1>1. PICK s : s = Entries(map)
  OBVIOUS
<1>2. PICK r : r = [map |-> map', todo |-> todo']
  OBVIOUS
<1>3. r.map = map' /\ r.todo = todo'
  BY <1>2
<1>4. GoesOn(map, todo, r)
  BY <1>2, GoOnGoesOn
<1>5. IsSoundTable(map) /\ IsPairs(todo) /\ todo # <<>>
  BY DEF MapInv, Sane, GoOn
<1>6. IsPairs(s) /\ OncePerKey(s) /\ Pairs(map) = s /\ Entries(map') = Pairs(map')
  BY <1>1, <1>3, <1>4, <1>5, DenseLayout DEF GoesOn
<1>7. CASE todo' = Tail(todo) /\ Entries(map') = SetLast(s, Head(todo))
  <2>1. Settled(SetLast(s, Head(todo)), Tail(todo)) = Settled(s, todo)
    BY <1>5, <1>6, SettledByHead
  <2> QED
    BY <1>1, <1>7, <2>1
<1>8. CASE todo' = s \o todo /\ Entries(map') = <<>>
  <2>1. Settled(<<>>, s \o todo) = Settled(s, todo)
    BY <1>5, <1>6, SettledAfter
  <2> QED
    BY <1>1, <1>8, <2>1
<1> QED
  BY <1>3, <1>4, <1>6, <1>7, <1>8 DEF GoesOn

\* ... Erase erases, ...
LEMMA EraseIsDictErase ==
  ASSUME MapInv, NEW k \in Key, NEW unique \in BOOLEAN, Erase(k, unique)
  PROVE  Dict!Next \/ Settled(Entries(map), todo)' = Settled(Entries(map), todo)
<1>1. PICK s : s = Entries(map)
  OBVIOUS
<1>2. PICK t : t = IF k \in Dict!Keys(s) THEN Dict!Without(s, k) ELSE s
  OBVIOUS
<1>3. MapInv' /\ todo = <<>> /\ todo' = <<>> /\ Entries(map') = t
  BY <1>1, <1>2, EraseGoesOn DEF Own
<1>4. Settled(Entries(map), todo) = s
  BY <1>1, <1>3, EntriesArePairs, SettledByNone
<1>5. PICK m : m = map'
  OBVIOUS
<1>6. IsPairs(t) /\ OncePerKey(t)
  <2>1. IsSmall(m) \/ IsSoundTable(m)
    BY <1>5, EraseGoesOn DEF Own
  <2> QED
    BY <1>3, <1>5, <2>1, SmallLayout, DenseLayout
<1>7. Settled(Entries(map), todo)' = t
  BY <1>3, <1>6, SettledByNone
<1>8. CASE k \in Dict!Keys(s)
  <2>1. Dict!Erase
    BY <1>2, <1>4, <1>7, <1>8 DEF Dict!Erase
  <2> QED
    BY <2>1 DEF Dict!Next
<1>9. CASE k \notin Dict!Keys(s)
  BY <1>2, <1>4, <1>7, <1>9
<1> QED
  BY <1>8, <1>9

\* ... Clear and the move clear, ...
LEMMA EmptiedIsDictClear ==
  ASSUME Clear \/ MoveAway
  PROVE  Dict!Next
<1>1. todo' = <<>> /\ Entries(map') = <<>>
  BY EmptiedGoesOn
<1>2. Settled(Entries(map), todo)' = <<>>
  BY <1>1, NoPairs, SettledByNone
<1>3. Dict!Clear
  BY <1>2 DEF Dict!Clear
<1> QED
  BY <1>3 DEF Dict!Next

\* ... and Construct constructs.
LEMMA ConstructIsDictConstruct ==
  ASSUME NEW list \in Lists, Construct(list)
  PROVE  Dict!Next
<1>1. PICK r : r = [map |-> map', todo |-> todo']
  OBVIOUS
<1>2. r.map = map' /\ r.todo = todo'
  BY <1>1
<1>3. Constructing(list, r)
  BY <1>1, ConstructGoesOn
<1>4. IsPairs(list)
  BY ListsArePairs
<1>5. PICK t : t = Settled(Entries(r.map), r.todo)
  OBVIOUS
<1>6. Built(t, list, Len(list))
  <2>1. CASE IsSmall(r.map) /\ r.todo = <<>> /\ Built(Entries(r.map), list, Len(list))
    <3>1. Settled(Entries(r.map), <<>>) = Entries(r.map)
      BY <2>1, SmallLayout, SettledByNone
    <3> QED
      BY <1>5, <2>1, <3>1
  <2>2. CASE Entries(r.map) = <<>> /\ r.todo = list
    BY <1>4, <1>5, <2>2, SettledIsBuilt
  <2> QED
    BY <1>3, <2>1, <2>2 DEF Constructing
<1>7. Construction(t, list)
  BY <1>4, <1>6, BuiltConstructs
<1>8. t = Settled(Entries(map), todo)'
  BY <1>2, <1>5
<1>9. Dict!Construct(list)
  BY <1>7, <1>8, ConstructionIsDict
<1> QED
  BY <1>9 DEF Dict!Next

\* Map is a dictionary in the order of insertion: each call is a step of InsertionDict or changes
\* nothing of what is listed once it is over, through copies, layouts and growing tables.
THEOREM MapIsDictionary == Spec => DictSpec
<1>1. Init => Dict!Init
  <2>1. SUFFICES ASSUME Init PROVE Settled(Entries(map), todo) = <<>>
    BY DEF Dict!Init
  <2>2. Entries(map) = <<>> /\ todo = <<>>
    BY <2>1, InitIsSane
  <2> QED
    BY <2>2, NoPairs, SettledByNone
<1>2. MapInv /\ [Next]_vars => [Dict!Next]_(Settled(Entries(map), todo))
  <2>1. SUFFICES ASSUME MapInv, [Next]_vars
                 PROVE  Dict!Next \/ Settled(Entries(map), todo)' = Settled(Entries(map), todo)
    OBVIOUS
  <2>2. CASE UNCHANGED vars
    BY <2>2 DEF vars
  <2>3. ASSUME NEW k \in Key, NEW v \in Value, NEW unique \in Unique, Set(k, v, unique)
        PROVE  Dict!Next
    <3>1. unique \in BOOLEAN
      BY <2>3 DEF Unique
    <3> QED
      BY <2>1, <2>3, <3>1, SetIsDictSet
  <2>4. CASE GoOn
    BY <2>1, <2>4, GoOnKeeps
  <2>5. ASSUME NEW k \in Key, NEW unique \in Unique, Erase(k, unique)
        PROVE  Dict!Next \/ Settled(Entries(map), todo)' = Settled(Entries(map), todo)
    <3>1. unique \in BOOLEAN
      BY <2>5 DEF Unique
    <3> QED
      BY <2>1, <2>5, <3>1, EraseIsDictErase
  <2>6. CASE Clear \/ MoveAway
    BY <2>6, EmptiedIsDictClear
  <2>7. ASSUME NEW list \in Lists, Construct(list)
        PROVE  Dict!Next
    BY <2>7, ConstructIsDictConstruct
  <2> QED
    BY <2>1, <2>2, <2>3, <2>4, <2>5, <2>6, <2>7 DEF Next
<1> QED
  BY <1>1, <1>2, MapStaysSane, PTL DEF Spec, DictSpec, Dict!Spec
==============================================================================
