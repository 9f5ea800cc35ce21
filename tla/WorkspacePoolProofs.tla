------------------------ MODULE WorkspacePoolProofs -------------------------
(***************************************************************************)
(* Proofs about WorkspacePool, for any number of devices, addresses and    *)
(* requests: no block is lost, doubled, touched while it is held or kept   *)
(* after the thread is gone, and the block given out is the smallest that  *)
(* fits.  Each list enumerates a set of blocks behind its safe guard; an   *)
(* operation inserts or removes one entry, wherever that is.               *)
(***************************************************************************)
EXTENDS WorkspacePool, SequenceTheorems, FiniteSetTheorems, TLAPS

EntrySet == [data : Blocks \union {Null}, size : Nat]

-----------------------------------------------------------------------------
(* Lists, position by position.                                            *)

\* new is list with e put in at position p; with the entry at position k taken out.
Insertion(new, list, p, e) ==
    /\ new \in Seq(EntrySet) /\ Len(new) = Len(list) + 1
    /\ \A i \in 1 .. Len(new) : new[i] = IF i < p THEN list[i] ELSE IF i = p THEN e ELSE list[i - 1]

Removal(new, list, k) ==
    /\ new \in Seq(EntrySet) /\ Len(new) = Len(list) - 1
    /\ \A i \in 1 .. Len(new) : new[i] = IF i < k THEN list[i] ELSE list[i + 1]

LEMMA AppendInserts ==
  ASSUME NEW list \in Seq(EntrySet), NEW e \in EntrySet
  PROVE  Insertion(Append(list, e), list, Len(list) + 1, e)
<1>1. /\ Append(list, e) \in Seq(EntrySet) /\ Len(Append(list, e)) = Len(list) + 1
      /\ \A i \in 1 .. Len(list) : Append(list, e)[i] = list[i]
      /\ Append(list, e)[Len(list) + 1] = e
  BY AppendProperties
<1>2. Len(list) \in Nat
  OBVIOUS
<1> QED
  BY <1>1, <1>2 DEF Insertion

LEMMA InsertAtInserts ==
  ASSUME NEW list \in Seq(EntrySet), NEW e \in EntrySet, NEW p \in 1 .. Len(list) + 1
  PROVE  Insertion(InsertAt(list, p, e), list, p, e)
<1> DEFINE front == SubSeq(list, 1, p - 1)
           back == SubSeq(list, p, Len(list))
<1>1. Len(list) \in Nat /\ \A i \in 1 .. Len(list) : list[i] \in EntrySet
  OBVIOUS
<1>2. /\ front \in Seq(EntrySet) /\ Len(front) = p - 1 /\ \A i \in 1 .. p - 1 : front[i] = list[i]
  <2>1. \A i \in 1 .. p - 1 : list[i] \in EntrySet
    BY <1>1
  <2> QED
    BY <1>1, <2>1, SubSeqProperties
<1>3. /\ back \in Seq(EntrySet) /\ Len(back) = Len(list) - p + 1
      /\ \A i \in 1 .. Len(list) - p + 1 : back[i] = list[p + i - 1]
  <2>1. \A i \in p .. Len(list) : list[i] \in EntrySet
    BY <1>1
  <2> QED
    BY <1>1, <2>1, SubSeqProperties
<1> HIDE DEF front, back
<1>4. /\ front \o <<e>> \in Seq(EntrySet) /\ Len(front \o <<e>>) = p
      /\ \A i \in 1 .. p : (front \o <<e>>)[i] = IF i < p THEN list[i] ELSE e
  <2>1. <<e>> \in Seq(EntrySet) /\ Len(<<e>>) = 1 /\ <<e>>[1] = e
    OBVIOUS
  <2>2. /\ front \o <<e>> \in Seq(EntrySet) /\ Len(front \o <<e>>) = Len(front) + Len(<<e>>)
        /\ \A i \in 1 .. Len(front) + Len(<<e>>) :
              (front \o <<e>>)[i] = IF i <= Len(front) THEN front[i] ELSE <<e>>[i - Len(front)]
    BY <1>2, <2>1, ConcatProperties
  <2> QED
    BY <1>1, <1>2, <2>1, <2>2
<1> DEFINE head == front \o <<e>>
<1> HIDE DEF head
<1>5. /\ head \in Seq(EntrySet) /\ Len(head) = p
      /\ \A i \in 1 .. p : head[i] = IF i < p THEN list[i] ELSE e
  BY <1>4 DEF head
<1>6. /\ head \o back \in Seq(EntrySet) /\ Len(head \o back) = Len(head) + Len(back)
      /\ \A i \in 1 .. Len(head) + Len(back) :
            (head \o back)[i] = IF i <= Len(head) THEN head[i] ELSE back[i - Len(head)]
  BY <1>3, <1>5, ConcatProperties
<1>7. InsertAt(list, p, e) = head \o back
  BY DEF InsertAt, head, front, back
<1>8. ASSUME NEW i \in 1 .. Len(list) + 1
      PROVE  (head \o back)[i] = IF i < p THEN list[i] ELSE IF i = p THEN e ELSE list[i - 1]
  <2>1. CASE i <= p
    BY <1>1, <1>3, <1>5, <1>6, <2>1
  <2>2. CASE i > p
    <3>1. i - p \in 1 .. Len(list) - p + 1 /\ p + (i - p) - 1 = i - 1
      BY <1>1, <2>2
    <3>2. (head \o back)[i] = back[i - p]
      BY <1>1, <1>3, <1>5, <1>6, <2>2
    <3>3. back[i - p] = list[i - 1]
      BY <1>3, <3>1
    <3> QED
      BY <2>2, <3>2, <3>3
  <2>3. i <= p \/ i > p
    BY <1>1
  <2> QED
    BY <2>1, <2>2, <2>3
<1>9. Len(head \o back) = Len(list) + 1
  <2>1. Len(head \o back) = Len(head) + Len(back)
    BY <1>6
  <2>2. Len(head) = p /\ Len(back) = Len(list) - p + 1
    BY <1>3, <1>5
  <2>3. Len(list) \in Nat
    BY <1>1
  <2> QED
    BY <2>1, <2>2, <2>3
<1> QED
  BY <1>6, <1>7, <1>8, <1>9 DEF Insertion

LEMMA RemoveAtRemoves ==
  ASSUME NEW list \in Seq(EntrySet), NEW k \in 1 .. Len(list)
  PROVE  Removal(RemoveAt(list, k), list, k)
<1> DEFINE front == SubSeq(list, 1, k - 1)
           back == SubSeq(list, k + 1, Len(list))
<1>1. Len(list) \in Nat /\ \A i \in 1 .. Len(list) : list[i] \in EntrySet
  OBVIOUS
<1>2. /\ front \in Seq(EntrySet) /\ Len(front) = k - 1 /\ \A i \in 1 .. k - 1 : front[i] = list[i]
  <2>1. \A i \in 1 .. k - 1 : list[i] \in EntrySet
    BY <1>1
  <2> QED
    BY <1>1, <2>1, SubSeqProperties
<1>3. /\ back \in Seq(EntrySet) /\ Len(back) = Len(list) - k
      /\ \A i \in 1 .. Len(list) - k : back[i] = list[k + i]
  <2>1. \A i \in k + 1 .. Len(list) : list[i] \in EntrySet
    BY <1>1
  <2>2. /\ back \in Seq(EntrySet) /\ Len(back) = IF k + 1 <= Len(list) THEN Len(list) - (k + 1) + 1 ELSE 0
        /\ \A i \in 1 .. Len(list) - (k + 1) + 1 : back[i] = list[k + 1 + i - 1]
    BY <1>1, <2>1, SubSeqProperties
  <2> QED
    BY <1>1, <2>2
<1> HIDE DEF front, back
<1>4. /\ front \o back \in Seq(EntrySet) /\ Len(front \o back) = Len(front) + Len(back)
      /\ \A i \in 1 .. Len(front) + Len(back) :
            (front \o back)[i] = IF i <= Len(front) THEN front[i] ELSE back[i - Len(front)]
  BY <1>2, <1>3, ConcatProperties
<1>5. RemoveAt(list, k) = front \o back
  BY DEF RemoveAt, front, back
<1>6. ASSUME NEW i \in 1 .. Len(list) - 1
      PROVE  (front \o back)[i] = IF i < k THEN list[i] ELSE list[i + 1]
  <2>1. CASE i < k
    BY <1>1, <1>2, <1>3, <1>4, <2>1
  <2>2. CASE i >= k
    <3>1. i - (k - 1) \in 1 .. Len(list) - k /\ k + (i - (k - 1)) = i + 1
      BY <1>1, <2>2
    <3>2. (front \o back)[i] = back[i - (k - 1)]
      BY <1>1, <1>2, <1>3, <1>4, <2>2
    <3>3. back[i - (k - 1)] = list[i + 1]
      BY <1>3, <3>1
    <3> QED
      BY <2>2, <3>2, <3>3
  <2>3. i < k \/ i >= k
    BY <1>1
  <2> QED
    BY <2>1, <2>2, <2>3
<1>7. Len(front \o back) = Len(list) - 1
  BY <1>1, <1>2, <1>3, <1>4
<1> QED
  BY <1>4, <1>5, <1>6, <1>7 DEF Removal

LEMMA FrontRemoves ==
  ASSUME NEW list \in Seq(EntrySet), Len(list) > 0
  PROVE  Removal(Front(list), list, Len(list))
<1>1. Len(list) \in Nat /\ \A i \in 1 .. Len(list) : list[i] \in EntrySet
  OBVIOUS
<1>2. \A i \in 1 .. Len(list) - 1 : list[i] \in EntrySet
  BY <1>1
<1>3. /\ Front(list) \in Seq(EntrySet)
      /\ Len(Front(list)) = IF 1 <= Len(list) - 1 THEN Len(list) - 1 - 1 + 1 ELSE 0
      /\ \A i \in 1 .. Len(list) - 1 - 1 + 1 : Front(list)[i] = list[1 + i - 1]
  BY <1>1, <1>2, SubSeqProperties DEF Front
<1>4. Len(Front(list)) = Len(list) - 1
  <2> DEFINE n == Len(list)
  <2>1. n \in Nat /\ n > 0 /\ Len(Front(list)) = IF 1 <= n - 1 THEN n - 1 - 1 + 1 ELSE 0
    BY <1>1, <1>3
  <2> HIDE DEF n
  <2>2. Len(Front(list)) = n - 1
    BY <2>1
  <2> QED
    BY <2>2 DEF n
<1>5. ASSUME NEW i \in 1 .. Len(list) - 1 PROVE Front(list)[i] = list[i]
  <2> DEFINE n == Len(list)
  <2>1. n \in Nat
    BY <1>1
  <2> HIDE DEF n
  <2>2. i \in 1 .. n - 1
    BY DEF n
  <2>3. i \in 1 .. n - 1 - 1 + 1 /\ 1 + i - 1 = i
    BY <2>1, <2>2
  <2> QED
    BY <1>3, <2>3 DEF n
<1> QED
  BY <1>1, <1>3, <1>4, <1>5 DEF Removal

-----------------------------------------------------------------------------
(* Lists as sets of blocks.                                                *)

\* Behind the safe guard the list has one entry for each block of S, under its size.
Enumerates(list, S, sizes) ==
    /\ list \in Seq(EntrySet) /\ Len(list) > 0 /\ list[1] = Sentinel
    /\ \A i \in 2 .. Len(list) : list[i].data \in S /\ list[i].size = sizes[list[i].data] /\ list[i].size > 0
    /\ \A i, j \in 2 .. Len(list) : list[i].data = list[j].data => i = j
    /\ \A b \in S : \E i \in 2 .. Len(list) : list[i].data = b

Sorted(list) == \A i, j \in 1 .. Len(list) : i <= j => list[i].size <= list[j].size

LEMMA GuardOnly == \A sizes : Enumerates(<<Sentinel>>, {}, sizes) /\ Sorted(<<Sentinel>>)
<1>1. Sentinel \in EntrySet
  BY DEF Sentinel, EntrySet
<1> QED
  BY <1>1 DEF Enumerates, Sorted, Sentinel

LEMMA InsertionEnumerates ==
  ASSUME NEW S \in SUBSET Blocks, NEW sizes, NEW list, Enumerates(list, S, sizes),
         NEW b \in Blocks \ S, NEW n \in Nat \ {0}, NEW p \in 2 .. Len(list) + 1,
         NEW new, Insertion(new, list, p, Entry(b, n)),
         NEW after, after[b] = n, \A c \in S : after[c] = sizes[c]
  PROVE  Enumerates(new, S \cup {b}, after)
<1> DEFINE old(i) == IF i < p THEN i ELSE i - 1
<1>1. Len(list) \in Nat /\ Len(list) > 0 /\ Len(new) = Len(list) + 1 /\ new \in Seq(EntrySet)
  BY DEF Enumerates, Insertion
<1>2. new[1] = Sentinel
  BY <1>1 DEF Enumerates, Insertion
<1>3. p \in 2 .. Len(new) /\ new[p] = Entry(b, n)
  BY <1>1 DEF Insertion
<1>4. ASSUME NEW i \in 2 .. Len(new), i # p
      PROVE  old(i) \in 2 .. Len(list) /\ new[i] = list[old(i)]
  BY <1>1, <1>4 DEF Insertion
<1>5. \A i, j \in 2 .. Len(new) : i # p /\ j # p /\ old(i) = old(j) => i = j
  BY <1>1
<1> HIDE DEF old
<1>6. ASSUME NEW i \in 2 .. Len(new)
      PROVE  new[i].data \in S \cup {b} /\ new[i].size = after[new[i].data] /\ new[i].size > 0
             /\ (new[i].data = b => i = p)
  <2>1. CASE i = p
    BY <1>3, <2>1 DEF Entry
  <2>2. CASE i # p
    BY <1>4, <2>2 DEF Enumerates
  <2> QED
    BY <2>1, <2>2
<1>7. ASSUME NEW i \in 2 .. Len(new), NEW j \in 2 .. Len(new), new[i].data = new[j].data
      PROVE  i = j
  <2>1. CASE i = p \/ j = p
    BY <1>3, <1>6, <1>7, <2>1 DEF Entry
  <2>2. CASE i # p /\ j # p
    <3>1. \A x, y \in 2 .. Len(list) : list[x].data = list[y].data => x = y
      BY DEF Enumerates
    <3>2. old(i) \in 2 .. Len(list) /\ old(j) \in 2 .. Len(list) /\ list[old(i)].data = list[old(j)].data
      BY <1>4, <1>7, <2>2
    <3>3. old(i) = old(j)
      BY <3>1, <3>2
    <3> QED
      BY <1>5, <2>2, <3>3
  <2> QED
    BY <2>1, <2>2
<1>8. ASSUME NEW c \in S \cup {b} PROVE \E i \in 2 .. Len(new) : new[i].data = c
  <2>1. CASE c = b
    BY <1>3, <2>1 DEF Entry
  <2>2. CASE c # b
    <3>1. PICK j \in 2 .. Len(list) : list[j].data = c
      BY <2>2 DEF Enumerates
    <3> DEFINE i == IF j < p THEN j ELSE j + 1
    <3>2. i \in 2 .. Len(new) /\ i # p /\ (i < p => i = j) /\ (i > p => i - 1 = j)
      BY <1>1
    <3>3. new[i] = list[j]
      BY <1>1, <1>4, <3>2 DEF old
    <3> QED
      BY <3>1, <3>2, <3>3
  <2> QED
    BY <2>1, <2>2
<1> QED
  BY <1>1, <1>2, <1>6, <1>7, <1>8 DEF Enumerates

LEMMA RemovalEnumerates ==
  ASSUME NEW S \in SUBSET Blocks, NEW sizes, NEW list, Enumerates(list, S, sizes),
         NEW k \in 2 .. Len(list), NEW new, Removal(new, list, k),
         NEW after, \A c \in S \ {list[k].data} : after[c] = sizes[c]
  PROVE  Enumerates(new, S \ {list[k].data}, after)
<1> DEFINE old(i) == IF i < k THEN i ELSE i + 1
<1>1. Len(list) \in Nat /\ Len(list) > 0 /\ Len(new) = Len(list) - 1 /\ new \in Seq(EntrySet)
  BY DEF Enumerates, Removal
<1>2. Len(new) > 0 /\ new[1] = Sentinel
  <2>1. Len(new) > 0
    BY <1>1
  <2> QED
    BY <1>1, <2>1 DEF Enumerates, Removal
<1>3. ASSUME NEW i \in 2 .. Len(new)
      PROVE  old(i) \in 2 .. Len(list) /\ old(i) # k /\ new[i] = list[old(i)]
  BY <1>1 DEF Removal
<1>4. \A i, j \in 2 .. Len(new) : old(i) = old(j) => i = j
  BY <1>1
<1> HIDE DEF old
<1>5. ASSUME NEW i \in 2 .. Len(new)
      PROVE  new[i].data \in S \ {list[k].data} /\ new[i].size = after[new[i].data] /\ new[i].size > 0
  BY <1>3 DEF Enumerates
<1>6. ASSUME NEW i \in 2 .. Len(new), NEW j \in 2 .. Len(new), new[i].data = new[j].data
      PROVE  i = j
  <2>1. \A x, y \in 2 .. Len(list) : list[x].data = list[y].data => x = y
    BY DEF Enumerates
  <2>2. old(i) \in 2 .. Len(list) /\ old(j) \in 2 .. Len(list) /\ list[old(i)].data = list[old(j)].data
    BY <1>3, <1>6
  <2>3. old(i) = old(j)
    BY <2>1, <2>2
  <2> QED
    BY <1>4, <2>3
<1>7. ASSUME NEW c \in S \ {list[k].data} PROVE \E i \in 2 .. Len(new) : new[i].data = c
  <2>1. PICK j \in 2 .. Len(list) : list[j].data = c
    BY DEF Enumerates
  <2> DEFINE i == IF j < k THEN j ELSE j - 1
  <2>2. j # k
    BY <2>1
  <2>3. i \in 2 .. Len(new) /\ (i < k => i = j) /\ (i >= k => i + 1 = j)
    BY <1>1, <2>2
  <2>4. old(i) = j
    BY <1>1, <2>2 DEF old
  <2>5. new[i] = list[j]
    BY <1>3, <2>3, <2>4
  <2> QED
    BY <2>1, <2>3, <2>5
<1> QED
  BY <1>1, <1>2, <1>5, <1>6, <1>7 DEF Enumerates

\* An entry between smaller and bigger ones leaves the list sorted.
LEMMA InsertionSorted ==
  ASSUME NEW list \in Seq(EntrySet), Sorted(list), NEW e \in EntrySet, NEW p \in 2 .. Len(list) + 1,
         \A i \in 1 .. Len(list) : i < p => list[i].size <= e.size,
         \A i \in 1 .. Len(list) : i >= p => e.size <= list[i].size,
         NEW new, Insertion(new, list, p, e)
  PROVE  Sorted(new)
<1> DEFINE old(i) == IF i < p THEN i ELSE i - 1
<1>1. Len(list) \in Nat /\ Len(new) = Len(list) + 1 /\ new \in Seq(EntrySet)
  BY DEF Insertion
<1>2. p \in 1 .. Len(new) /\ new[p] = e
  BY <1>1 DEF Insertion
<1>3. ASSUME NEW i \in 1 .. Len(new), i # p
      PROVE  /\ old(i) \in 1 .. Len(list) /\ new[i] = list[old(i)]
             /\ i < p => old(i) < p
             /\ i > p => old(i) >= p
  BY <1>1, <1>3 DEF Insertion
<1>4. \A i, j \in 1 .. Len(new) : i <= j => old(i) <= old(j)
  BY <1>1
<1> HIDE DEF old
<1> SUFFICES ASSUME NEW i \in 1 .. Len(new), NEW j \in 1 .. Len(new), i <= j
             PROVE  new[i].size <= new[j].size
  BY DEF Sorted
<1>5. CASE i = p /\ j = p
  BY <1>2, <1>5 DEF EntrySet
<1>6. CASE i = p /\ j # p
  <2>1. j > p
    BY <1>6
  <2> QED
    BY <1>2, <1>3, <1>6, <2>1
<1>7. CASE i # p /\ j = p
  <2>1. i < p
    BY <1>7
  <2> QED
    BY <1>2, <1>3, <1>7, <2>1
<1>8. CASE i # p /\ j # p
  <2>1. old(i) <= old(j)
    BY <1>4
  <2> QED
    BY <1>3, <1>8, <2>1 DEF Sorted
<1> QED
  BY <1>5, <1>6, <1>7, <1>8

LEMMA RemovalSorted ==
  ASSUME NEW list \in Seq(EntrySet), Sorted(list), NEW k \in 1 .. Len(list), NEW new, Removal(new, list, k)
  PROVE  Sorted(new)
<1> DEFINE old(i) == IF i < k THEN i ELSE i + 1
<1>1. Len(list) \in Nat /\ Len(new) = Len(list) - 1
  BY DEF Removal
<1>2. \A i \in 1 .. Len(new) : old(i) \in 1 .. Len(list) /\ new[i] = list[old(i)]
  BY <1>1 DEF Removal
<1>3. \A i, j \in 1 .. Len(new) : i <= j => old(i) <= old(j)
  BY <1>1
<1> HIDE DEF old
<1> QED
  BY <1>2, <1>3 DEF Sorted

-----------------------------------------------------------------------------
(* Searches.                                                               *)

\* A set of positions has a last one.
LEMMA LastOfPositions ==
  ASSUME NEW N \in Nat, NEW I \in SUBSET (1 .. N), I # {}
  PROVE  Max(I) \in I /\ \A i \in I : Max(I) >= i
<1> DEFINE T == {N - i : i \in I}
           R == OpToRel(<, Nat)
<1>1. T \subseteq Nat /\ T # {}
  OBVIOUS
<1>2. PICK x \in T : \A y \in T : ~ (<<y, x>> \in R)
  BY <1>1, NatLessThanWellFounded, WFMin
<1>3. \A y \in T : ~ (y < x)
  BY <1>1, <1>2 DEF OpToRel
<1>4. PICK m \in I : x = N - m
  BY <1>2
<1>5. \A i \in I : m >= i
  <2> TAKE i \in I
  <2>1. N - i \in T
    OBVIOUS
  <2>2. ~ (N - i < N - m)
    BY <1>3, <1>4, <2>1
  <2> QED
    BY <2>2
<1> QED
  BY <1>4, <1>5 DEF Max

\* The search of Alloc ends at an entry, at the guard only if there is no other; an entry it
\* chooses although it is too small is the last one, and with sorted entries no other entry
\* that is big enough is smaller.
LEMMA ChosenEntry ==
  ASSUME NEW S \in SUBSET Blocks, NEW sizes, NEW list, Enumerates(list, S, sizes), NEW n \in Nat \ {0}
  PROVE  LET k == Chosen(list, n)
         IN  /\ k \in 1 .. Len(list) /\ (k = 1 <=> Len(list) = 1)
             /\ k > 1 /\ list[k].size < n => k = Len(list)
             /\ Sorted(list) => \A j \in 2 .. Len(list) :
                   list[j].size >= n => list[k].size >= n /\ list[k].size <= list[j].size
<1> DEFINE len == Len(list)
           k == Chosen(list, n)
<1>1. /\ list \in Seq(EntrySet) /\ len \in Nat /\ len > 0 /\ list[1].size = 0
      /\ \A i \in 1 .. len : list[i].size \in Nat
  <2>1. list \in Seq(EntrySet) /\ len > 0 /\ list[1] = Sentinel
    BY DEF Enumerates
  <2>2. len \in Nat /\ \A i \in 1 .. len : list[i] \in EntrySet
    BY <2>1
  <2> QED
    BY <2>1, <2>2 DEF Sentinel, EntrySet
<1>2. CASE len > 2 /\ list[len].size >= n
  <2> DEFINE I == {i \in 1 .. Len(Front(list)) : Front(list)[i].size < n}
             m == Max(I)
  <2>1. Len(Front(list)) = len - 1 /\ \A i \in 1 .. len - 1 : Front(list)[i] = list[i]
    <3>1. Removal(Front(list), list, len)
      BY <1>1, FrontRemoves
    <3>2. Len(Front(list)) = len - 1
      BY <3>1 DEF Removal
    <3> QED
      BY <1>1, <3>1, <3>2 DEF Removal
  <2>2. I = {i \in 1 .. len - 1 : list[i].size < n}
    BY <2>1
  <2>3. 1 \in I
    BY <1>1, <1>2, <2>2
  <2>4. m \in I /\ \A i \in I : m >= i
    <3>1. len - 1 \in Nat /\ I \in SUBSET (1 .. len - 1) /\ I # {}
      BY <1>1, <2>2, <2>3
    <3> QED
      BY <3>1, LastOfPositions
  <2>5. k = m + 1
    <3>1. Fit(list, n) = m + 1
      BY <2>3 DEF Fit, SelectLastInSeq
    <3> QED
      BY <1>2, <3>1 DEF Chosen, Last
  <2> HIDE DEF len, k, I, m
  <2>6. k \in 2 .. len
    BY <1>1, <2>2, <2>4, <2>5
  <2>7. list[k].size >= n
    <3>1. CASE k = len
      BY <1>2, <3>1
    <3>2. CASE k # len
      <4>1. k \in 1 .. len - 1 /\ k > m
        BY <1>1, <2>2, <2>4, <2>5, <2>6, <3>2
      <4>2. k \notin I
        BY <1>1, <2>2, <2>4, <4>1
      <4> QED
        BY <1>1, <2>2, <2>6, <4>1, <4>2
    <3> QED
      BY <3>1, <3>2
  <2>8. ASSUME Sorted(list), NEW j \in 2 .. len, list[j].size >= n
        PROVE  list[k].size <= list[j].size
    <3>1. list[m].size < n /\ m \in 1 .. len
      BY <1>1, <2>2, <2>4
    <3>2. j > m
      <4>1. j <= m => list[j].size <= list[m].size
        BY <2>8, <3>1 DEF Sorted, len
      <4> QED
        BY <1>1, <2>8, <3>1, <4>1
    <3>3. k <= j
      BY <1>1, <2>5, <3>1, <3>2
    <3> QED
      BY <1>1, <2>6, <2>8, <3>3 DEF Sorted, len
  <2>9. list[k].size \in Nat /\ ~ (list[k].size < n)
    BY <1>1, <2>6, <2>7
  <2>10. len # 1 /\ k # 1
    BY <1>2, <2>6
  <2> QED
    BY <2>6, <2>7, <2>8, <2>9, <2>10 DEF k, len
<1>3. CASE ~ (len > 2 /\ list[len].size >= n)
  <2>1. k = len
    BY <1>3 DEF Chosen, Last
  <2> HIDE DEF len, k
  <2>2. ASSUME Sorted(list), NEW j \in 2 .. len, list[j].size >= n
        PROVE  list[k].size >= n /\ list[k].size <= list[j].size
    <3>1. list[j].size <= list[len].size
      BY <1>1, <2>2 DEF Sorted, len
    <3>2. list[len].size >= n
      <4>1. list[j].size \in Nat /\ list[len].size \in Nat
        BY <1>1
      <4> QED
        BY <2>2, <3>1, <4>1
    <3>3. len = 2 /\ j = 2
      BY <1>1, <1>3, <3>2
    <3> QED
      BY <1>1, <2>1, <3>2, <3>3
  <2> QED
    BY <1>1, <2>1, <2>2 DEF k, len
<1> QED
  BY <1>2, <1>3

\* The search of Free finds the entry of a block, or is refused.
LEMMA PositionEntry ==
  ASSUME NEW S \in SUBSET Blocks, NEW sizes, NEW list, Enumerates(list, S, sizes), NEW ptr \in Blocks,
         Position(list, ptr) > 1 \/ Position(list, ptr) = Len(list)
  PROVE  Position(list, ptr) \in 2 .. Len(list) /\ list[Position(list, ptr)].data = ptr
<1> DEFINE I == {i \in 1 .. Len(list) : list[i].data = ptr}
           k == Position(list, ptr)
<1>1. list \in Seq(EntrySet) /\ Len(list) \in Nat /\ Len(list) > 0 /\ list[1].data = Null
  BY DEF Enumerates, Sentinel
<1>2. Null # ptr
  BY NullAssumption
<1>3. CASE list[Len(list)].data = ptr
  BY <1>1, <1>2, <1>3 DEF Position, Last
<1>4. CASE list[Len(list)].data # ptr
  <2>1. k = IF I # {} THEN Max(I) ELSE 0
    BY <1>4 DEF Position, Last, SelectLastInSeq
  <2>2. I # {}
    BY <1>1, <2>1
  <2>3. Max(I) \in I
    BY <1>1, <2>2, LastOfPositions
  <2>4. k \in I
    BY <2>1, <2>2, <2>3
  <2>5. k # 1
    BY <1>1, <1>2, <2>4
  <2> QED
    BY <1>1, <2>4, <2>5
<1> QED
  BY <1>3, <1>4

\* Each of the three ways of Free puts the entry where the list stays sorted.
LEMMA InsertedEntry ==
  ASSUME NEW S \in SUBSET Blocks, NEW sizes, NEW list, Enumerates(list, S, sizes), Sorted(list),
         NEW e \in EntrySet, e.size > 0
  PROVE  \E p \in 2 .. Len(list) + 1 :
            /\ Insertion(Inserted(list, e), list, p, e)
            /\ \A i \in 1 .. Len(list) : i < p => list[i].size <= e.size
            /\ \A i \in 1 .. Len(list) : i >= p => e.size <= list[i].size
<1> DEFINE len == Len(list)
<1>1. /\ list \in Seq(EntrySet) /\ len \in Nat /\ len > 0 /\ list[1].size = 0 /\ e.size \in Nat
      /\ \A i \in 1 .. len : list[i].size \in Nat /\ list[i] \in EntrySet
  <2>1. list \in Seq(EntrySet) /\ len > 0 /\ list[1] = Sentinel
    BY DEF Enumerates
  <2>2. len \in Nat /\ \A i \in 1 .. len : list[i] \in EntrySet
    BY <2>1
  <2> QED
    BY <2>1, <2>2 DEF Sentinel, EntrySet
<1>2. \A i, j \in 1 .. len : i <= j => list[i].size <= list[j].size
  BY DEF Sorted
<1>3. CASE list[len].size < e.size
  <2>1. Inserted(list, e) = Append(list, e)
    BY <1>3 DEF Inserted, Last
  <2>2. Insertion(Append(list, e), list, len + 1, e)
    BY <1>1, AppendInserts
  <2>3. \A i \in 1 .. len : list[i].size <= e.size
    BY <1>1, <1>2, <1>3
  <2> QED
    BY <1>1, <2>1, <2>2, <2>3
<1>4. CASE ~ (list[len].size < e.size) /\ len = 2
  <2> DEFINE new == <<list[1], e, list[2]>>
  <2>1. Inserted(list, e) = new
    BY <1>4 DEF Inserted, Last
  <2>2. new \in Seq(EntrySet) /\ Len(new) = 3 /\ new[1] = list[1] /\ new[2] = e /\ new[3] = list[2]
    BY <1>1, <1>4
  <2> HIDE DEF new
  <2>3. Insertion(new, list, 2, e)
    BY <1>4, <2>2 DEF Insertion
  <2>4. list[1].size <= e.size /\ e.size <= list[2].size
    BY <1>1, <1>4
  <2> QED
    BY <1>4, <2>1, <2>3, <2>4
<1>5. CASE ~ (list[len].size < e.size) /\ len # 2
  <2> DEFINE I == {i \in 1 .. len : list[i].size <= e.size}
             m == Max(I)
  <2>1. 1 \in I
    BY <1>1
  <2>2. m \in I /\ \A i \in I : m >= i
    BY <1>1, <2>1, LastOfPositions
  <2>3. Inserted(list, e) = InsertAt(list, m + 1, e)
    BY <1>5, <2>1 DEF Inserted, Last, SelectLastInSeq
  <2> HIDE DEF I, m
  <2>4. m \in 1 .. len /\ list[m].size <= e.size /\ \A i \in 1 .. len : list[i].size <= e.size => m >= i
    BY <2>2 DEF I
  <2>5. m + 1 \in 1 .. len + 1 /\ m + 1 \in 2 .. len + 1
    BY <1>1, <2>4
  <2>6. Insertion(Inserted(list, e), list, m + 1, e)
    BY <1>1, <2>3, <2>5, InsertAtInserts
  <2>7. ASSUME NEW i \in 1 .. len, i < m + 1 PROVE list[i].size <= e.size
    <3>1. list[i].size <= list[m].size
      BY <1>1, <1>2, <2>4, <2>7
    <3> QED
      BY <1>1, <2>4, <3>1
  <2>8. ASSUME NEW i \in 1 .. len, i >= m + 1 PROVE e.size <= list[i].size
    BY <1>1, <2>4, <2>8
  <2> QED
    BY <2>5, <2>6, <2>7, <2>8
<1> QED
  BY <1>3, <1>4, <1>5

-----------------------------------------------------------------------------
(* The inductive invariant.                                                *)

PoolSet == [freeList : Seq(EntrySet), allocated : Seq(EntrySet)]
HeldOf(wants) == {b \in Blocks : wants[b] # NotHeld}
FreeOf(sizes, wants) == {b \in Blocks : sizes[b] > 0 /\ wants[b] = NotHeld}

\* Every block of a device is in one of the two lists, that of those held or the sorted other one.
Accounted(p, sizes, wants) ==
    /\ \A b \in HeldOf(wants) : sizes[b] > 0
    /\ Enumerates(p.freeList, FreeOf(sizes, wants), sizes)
    /\ Sorted(p.freeList)
    /\ Enumerates(p.allocated, HeldOf(wants), sizes)

IInv ==
    /\ pool \in [Devices -> PoolSet]
    /\ space \in [Devices -> [Blocks -> Nat]]
    /\ wanted \in [Devices -> [Blocks -> Requests \union {NotHeld}]]
    /\ exited \in BOOLEAN
    /\ \A d \in Devices :
          IF exited THEN pool[d] = NoPool /\ FreeOf(space[d], wanted[d]) = {}
          ELSE Accounted(PoolOf(d), space[d], wanted[d])

LEMMA Constants ==
  /\ PageSize \in Nat \ {0} /\ WordSize \in Nat \ {0}
  /\ \A r \in Requests : r \in Nat /\ r # NotHeld
<1>1. PageSize \in Nat \ {0} /\ Requests \subseteq 0 .. WordSize - 1
  BY SizesAssumption
<1>2. PICK k \in 1 .. WordSize : WordSize = PageSize * k
  BY SizesAssumption
<1>3. k \in Int /\ k >= 1
  BY <1>2
<1>4. PageSize * k \in Nat /\ PageSize * k > 0
  <2> DEFINE q == PageSize
  <2>1. q \in Nat /\ q > 0
    BY <1>1
  <2> HIDE DEF q
  <2>2. q * k \in Nat /\ q * k > 0
    BY <1>3, <2>1
  <2> QED
    BY <2>2 DEF q
<1>5. WordSize \in Nat \ {0}
  BY <1>2, <1>4
<1>6. \A r \in Requests : r \in Nat /\ r # NotHeld
  BY <1>1, <1>5 DEF NotHeld
<1> QED
  BY <1>1, <1>5, <1>6

LEMMA MaxOfTwo ==
  ASSUME NEW a \in Int, NEW b \in Int
  PROVE  Max({a, b}) = IF a >= b THEN a ELSE b
<1> DEFINE m == IF a >= b THEN a ELSE b
<1>1. m \in {a, b} /\ \A y \in {a, b} : m >= y
  OBVIOUS
<1>2. \A x \in {a, b} : (\A y \in {a, b} : x >= y) => x = m
  OBVIOUS
<1> HIDE DEF m
<1>3. Max({a, b}) = m
  BY <1>1, <1>2 DEF Max
<1> QED
  BY <1>3 DEF m

LEMMA Division ==
  ASSUME NEW a \in Nat, NEW n \in Nat \ {0}
  PROVE  a \div n \in Nat /\ n * (a \div n) <= a /\ a < n * (a \div n) + n
OBVIOUS

\* At least one page, and if the sum does not wrap around, enough of them.
LEMMA PagesEnough ==
  ASSUME NEW nbytes \in Requests
  PROVE  /\ Pages(nbytes) \in Nat \ {0}
         /\ nbytes + PageSize <= WordSize => Pages(nbytes) * PageSize >= nbytes
<1> DEFINE sum == nbytes + (PageSize - 1)
           x == sum % WordSize
           q == x \div PageSize
<1>1. /\ PageSize \in Nat \ {0} /\ WordSize \in Nat \ {0} /\ nbytes \in Nat /\ sum \in Nat
  BY Constants
<1>2. x \in Nat
  BY <1>1
<1>3. sum < WordSize => x = sum
  BY <1>1
<1> HIDE DEF sum, x
<1>4. q \in Nat /\ PageSize * q <= x /\ x < PageSize * q + PageSize
  BY <1>1, <1>2, Division
<1> HIDE DEF q
<1>5. Pages(nbytes) = IF q >= 1 THEN q ELSE 1
  <2>1. Pages(nbytes) = Max({q, 1})
    BY DEF Pages, q, x, sum
  <2> QED
    BY <1>4, <2>1, MaxOfTwo
<1>6. ASSUME nbytes + PageSize <= WordSize PROVE Pages(nbytes) * PageSize >= nbytes
  <2>1. x = nbytes + (PageSize - 1)
    BY <1>1, <1>3, <1>6 DEF sum
  <2>2. q * PageSize >= nbytes
    BY <1>1, <1>4, <2>1
  <2>3. CASE q >= 1
    BY <1>5, <2>2, <2>3
  <2>4. CASE ~ (q >= 1)
    BY <1>1, <1>4, <1>5, <2>2, <2>4
  <2> QED
    BY <2>3, <2>4
<1> QED
  BY <1>4, <1>5, <1>6

\* What a step leaves behind on one device is enough for the invariant.
LEMMA OneDevice ==
  ASSUME IInv, ~exited, exited' = exited, NEW d \in Devices,
         NEW p \in PoolSet, pool' = [pool EXCEPT ![d] = p],
         NEW sizes \in [Blocks -> Nat], space' = [space EXCEPT ![d] = sizes],
         NEW wants \in [Blocks -> Requests \union {NotHeld}], wanted' = [wanted EXCEPT ![d] = wants],
         Accounted(p, sizes, wants)
  PROVE  IInv'
<1>1. p # NoPool
  BY DEF Accounted, Enumerates, NoPool
<1>2. pool'[d] = p /\ space'[d] = sizes /\ wanted'[d] = wants
  BY DEF IInv
<1>3. PoolOf(d)' = p
  BY <1>1, <1>2 DEF PoolOf
<1>4. ASSUME NEW c \in Devices PROVE Accounted(PoolOf(c), space[c], wanted[c])'
  <2>1. CASE c = d
    BY <1>2, <1>3, <2>1
  <2>2. CASE c # d
    <3>1. pool'[c] = pool[c] /\ space'[c] = space[c] /\ wanted'[c] = wanted[c]
      BY <2>2 DEF IInv
    <3>2. PoolOf(c)' = PoolOf(c)
      BY <3>1 DEF PoolOf
    <3>3. Accounted(PoolOf(c), space[c], wanted[c])
      BY DEF IInv
    <3> QED
      BY <3>1, <3>2, <3>3
  <2> QED
    BY <2>1, <2>2
<1>5. /\ (pool \in [Devices -> PoolSet])'
      /\ (space \in [Devices -> [Blocks -> Nat]])'
      /\ (wanted \in [Devices -> [Blocks -> Requests \union {NotHeld}]])'
      /\ (exited \in BOOLEAN)'
  BY DEF IInv
<1> QED
  BY <1>4, <1>5 DEF IInv

-----------------------------------------------------------------------------
(* What the steps do, as seen by those who hold blocks.                    *)

Given(d) == {b \in Blocks : space[d][b] > 0}

\* A block that nobody holds is lent: it is big enough, no kept block that is big enough is
\* smaller, and it is a kept one, replaces one, or is new when none is kept.
Lend(d, nbytes, b) ==
    /\ wanted[d][b] = NotHeld
    /\ wanted' = [wanted EXCEPT ![d][b] = nbytes]
    /\ space'[d][b] \in Nat /\ space'[d][b] >= Pages(nbytes)
    /\ \A c \in Held(d) : space'[d][c] = space[d][c]
    /\ \A c \in Devices \ {d} : space'[c] = space[c]
    /\ \A k \in 2 .. Len(PoolOf(d).freeList) :
          PoolOf(d).freeList[k].size >= Pages(nbytes) => space'[d][b] <= PoolOf(d).freeList[k].size
    /\ \/ \E x \in Given(d) : Given(d)' = (Given(d) \ {x}) \cup {b}
       \/ Given(d) = Held(d) /\ Given(d)' = Given(d) \cup {b}
    /\ peak' = [peak EXCEPT ![d] = Max({@, Cardinality(Held(d)) + 1})]

\* Nothing is lent: blocks may be taken back, and blocks nobody holds returned to the device.
Settle ==
    /\ \A d \in Devices :
          /\ \A b \in Held(d)' : b \in Held(d) /\ wanted'[d][b] = wanted[d][b] /\ space'[d][b] = space[d][b]
          /\ Given(d)' \subseteq Given(d)
    /\ peak' = peak

\* The common end of the three ways to allocate: free enumerates what is left of the blocks
\* nobody holds, under the sizes after the step.
LEMMA GivenOut ==
  ASSUME NEW sizes \in [Blocks -> Nat], NEW wants \in [Blocks -> Requests \union {NotHeld}],
         NEW list, Enumerates(list, HeldOf(wants), sizes), \A c \in HeldOf(wants) : sizes[c] > 0,
         NEW b \in Blocks, wants[b] = NotHeld, NEW n \in Nat \ {0}, NEW nbytes \in Requests,
         NEW after \in [Blocks -> Nat], after[b] = n, \A c \in HeldOf(wants) : after[c] = sizes[c],
         NEW free, Enumerates(free, FreeOf(after, wants) \ {b}, after), Sorted(free)
  PROVE  /\ [freeList |-> free, allocated |-> Append(list, Entry(b, n))] \in PoolSet
         /\ [wants EXCEPT ![b] = nbytes] \in [Blocks -> Requests \union {NotHeld}]
         /\ Accounted([freeList |-> free, allocated |-> Append(list, Entry(b, n))], after,
                      [wants EXCEPT ![b] = nbytes])
<1> DEFINE new == [wants EXCEPT ![b] = nbytes]
           long == Append(list, Entry(b, n))
<1>1. nbytes \in Nat /\ nbytes # NotHeld
  BY Constants
<1>2. new \in [Blocks -> Requests \union {NotHeld}] /\ HeldOf(new) = HeldOf(wants) \cup {b}
  BY <1>1 DEF HeldOf
<1>3. FreeOf(after, new) = FreeOf(after, wants) \ {b}
  BY <1>1 DEF FreeOf
<1>4. list \in Seq(EntrySet) /\ Len(list) \in Nat /\ Len(list) > 0 /\ Entry(b, n) \in EntrySet
  BY DEF Enumerates, Entry, EntrySet
<1>5. Insertion(long, list, Len(list) + 1, Entry(b, n))
  BY <1>4, AppendInserts
<1>6. b \in Blocks \ HeldOf(wants) /\ HeldOf(wants) \in SUBSET Blocks /\ Len(list) + 1 \in 2 .. Len(list) + 1
  BY <1>4 DEF HeldOf
<1>7. Enumerates(long, HeldOf(wants) \cup {b}, after)
  BY <1>5, <1>6, InsertionEnumerates
<1>8. free \in Seq(EntrySet) /\ long \in Seq(EntrySet)
  BY <1>5 DEF Enumerates, Insertion
<1>9. \A c \in HeldOf(new) : after[c] > 0
  BY <1>2
<1> HIDE DEF new, long
<1>10. Accounted([freeList |-> free, allocated |-> long], after, new)
  BY <1>2, <1>3, <1>7, <1>9 DEF Accounted
<1> QED
  BY <1>2, <1>8, <1>10 DEF new, long, PoolSet

\* What the invariant says of one device.
LEMMA OfDevice ==
  ASSUME IInv, ~exited, NEW d \in Devices
  PROVE  /\ space[d] \in [Blocks -> Nat] /\ wanted[d] \in [Blocks -> Requests \union {NotHeld}]
         /\ Accounted(PoolOf(d), space[d], wanted[d])
         /\ HeldOf(wanted[d]) = Held(d) /\ Held(d) \subseteq Given(d)
         /\ FreeOf(space[d], wanted[d]) = Given(d) \ Held(d)
         /\ FreeOf(space[d], wanted[d]) \in SUBSET Blocks
         /\ PoolOf(d).freeList \in Seq(EntrySet) /\ Len(PoolOf(d).freeList) \in Nat
<1>1. /\ space[d] \in [Blocks -> Nat] /\ wanted[d] \in [Blocks -> Requests \union {NotHeld}]
      /\ Accounted(PoolOf(d), space[d], wanted[d])
  BY DEF IInv
<1>2. PoolOf(d).freeList \in Seq(EntrySet)
  BY <1>1 DEF Accounted, Enumerates
<1> QED
  BY <1>1, <1>2 DEF HeldOf, FreeOf, Held, Given, Accounted

\* An action of the model gives out what GivenOut is about.
LEMMA GiveOutKeepsIInv ==
  ASSUME IInv, ~exited, NEW d \in Devices, NEW nbytes \in Requests,
         NEW b \in Blocks, wanted[d][b] = NotHeld, NEW n \in Nat \ {0},
         NEW after \in [Blocks -> Nat], space' = [space EXCEPT ![d] = after], after[b] = n,
         \A c \in Held(d) : after[c] = space[d][c],
         NEW free, Enumerates(free, FreeOf(after, wanted[d]) \ {b}, after), Sorted(free),
         GiveOut(d, free, b, n, nbytes)
  PROVE  /\ IInv'
         /\ wanted' = [wanted EXCEPT ![d][b] = nbytes]
         /\ peak' = [peak EXCEPT ![d] = Max({@, Cardinality(Held(d)) + 1})]
<1> DEFINE p == [freeList |-> free, allocated |-> Append(PoolOf(d).allocated, Entry(b, n))]
           wants == [wanted[d] EXCEPT ![b] = nbytes]
<1>1. /\ p \in PoolSet /\ wants \in [Blocks -> Requests \union {NotHeld}]
      /\ Accounted(p, after, wants)
  <2> DEFINE sizes == space[d]
             wts == wanted[d]
             list == PoolOf(d).allocated
  <2>1. /\ sizes \in [Blocks -> Nat] /\ wts \in [Blocks -> Requests \union {NotHeld}]
        /\ Enumerates(list, HeldOf(wts), sizes) /\ \A c \in HeldOf(wts) : sizes[c] > 0
        /\ wts[b] = NotHeld /\ \A c \in HeldOf(wts) : after[c] = sizes[c]
    BY OfDevice DEF Accounted
  <2>2. Enumerates(free, FreeOf(after, wts) \ {b}, after)
    OBVIOUS
  <2> HIDE DEF sizes, wts, list
  <2>3. /\ [freeList |-> free, allocated |-> Append(list, Entry(b, n))] \in PoolSet
        /\ [wts EXCEPT ![b] = nbytes] \in [Blocks -> Requests \union {NotHeld}]
        /\ Accounted([freeList |-> free, allocated |-> Append(list, Entry(b, n))], after,
                     [wts EXCEPT ![b] = nbytes])
    BY <2>1, <2>2, GivenOut
  <2> QED
    BY <2>3 DEF wts, list
<1>2. /\ pool' = [pool EXCEPT ![d] = p] /\ wanted' = [wanted EXCEPT ![d] = wants] /\ exited' = exited
      /\ wanted' = [wanted EXCEPT ![d][b] = nbytes]
      /\ peak' = [peak EXCEPT ![d] = Max({@, Cardinality(Held(d)) + 1})]
  BY DEF GiveOut
<1> HIDE DEF p, wants
<1> QED
  BY <1>1, <1>2, OneDevice

LEMMA AllocKeptLends ==
  ASSUME IInv, ~exited, NEW d \in Devices, NEW nbytes \in Requests, AllocKept(d, nbytes)
  PROVE  IInv' /\ \E b \in Blocks : Lend(d, nbytes, b)
<1> DEFINE n == Pages(nbytes)
           list == PoolOf(d).freeList
           k == Chosen(list, n)
           b == list[k].data
<1>1. /\ k > 1 /\ list[k].size >= n /\ space' = space
      /\ GiveOut(d, RemoveAt(list, k), list[k].data, list[k].size, nbytes)
  BY DEF AllocKept
<1>2. /\ Enumerates(list, FreeOf(space[d], wanted[d]), space[d]) /\ Sorted(list)
      /\ FreeOf(space[d], wanted[d]) \in SUBSET Blocks
  BY OfDevice DEF Accounted
<1>3. n \in Nat \ {0}
  BY PagesEnough
<1> HIDE DEF n, list
<1>4. /\ k \in 2 .. Len(list)
      /\ \A j \in 2 .. Len(list) : list[j].size >= n => list[k].size <= list[j].size
  <2>1. /\ k \in 1 .. Len(list)
        /\ Sorted(list) => \A j \in 2 .. Len(list) :
              list[j].size >= n => list[k].size >= n /\ list[k].size <= list[j].size
    BY <1>2, <1>3, ChosenEntry
  <2> QED
    BY <1>1, <1>2, <2>1
<1> HIDE DEF k
<1>5. /\ b \in FreeOf(space[d], wanted[d]) /\ b \in Blocks
      /\ list[k].size = space[d][b] /\ list[k].size \in Nat \ {0}
  <2>1. b \in FreeOf(space[d], wanted[d]) /\ list[k].size = space[d][b] /\ list[k].size > 0
    BY <1>2, <1>4 DEF Enumerates
  <2>2. b \in Blocks /\ space[d][b] \in Nat
    BY <1>2, <2>1, OfDevice
  <2> QED
    BY <2>1, <2>2
<1>6. /\ Enumerates(RemoveAt(list, k), FreeOf(space[d], wanted[d]) \ {b}, space[d])
      /\ Sorted(RemoveAt(list, k))
  <2>1. list \in Seq(EntrySet) /\ k \in 1 .. Len(list)
    BY <1>2, <1>4 DEF Enumerates
  <2>2. Removal(RemoveAt(list, k), list, k)
    BY <2>1, RemoveAtRemoves
  <2> QED
    BY <1>2, <1>4, <2>1, <2>2, RemovalEnumerates, RemovalSorted
<1>7. wanted[d][b] = NotHeld /\ space[d][b] > 0
  BY <1>5 DEF FreeOf
<1>8. space[d] \in [Blocks -> Nat] /\ space' = [space EXCEPT ![d] = space[d]]
  BY <1>1, OfDevice DEF IInv
<1>9. /\ IInv' /\ wanted' = [wanted EXCEPT ![d][b] = nbytes]
      /\ peak' = [peak EXCEPT ![d] = Max({@, Cardinality(Held(d)) + 1})]
  <2> DEFINE free == RemoveAt(list, k)
             m == list[k].size
             after == space[d]
  <2>1. /\ GiveOut(d, free, b, m, nbytes) /\ b \in Blocks /\ m \in Nat \ {0}
        /\ after \in [Blocks -> Nat] /\ space' = [space EXCEPT ![d] = after] /\ after[b] = m
        /\ Enumerates(free, FreeOf(after, wanted[d]) \ {b}, after) /\ Sorted(free)
        /\ \A c \in Held(d) : after[c] = space[d][c]
        /\ wanted[d][b] = NotHeld
    BY <1>1, <1>5, <1>6, <1>7, <1>8
  <2> HIDE DEF free, m, after, b
  <2> QED
    BY <2>1, GiveOutKeepsIInv
<1> HIDE DEF b
<1>10. b \in Given(d) /\ Given(d)' = (Given(d) \ {b}) \cup {b}
  BY <1>1, <1>5, <1>7 DEF Given
<1>11. Lend(d, nbytes, b)
  BY <1>1, <1>4, <1>5, <1>7, <1>9, <1>10 DEF Lend, n, list
<1> QED
  BY <1>5, <1>9, <1>11

LEMMA AllocResizedLends ==
  ASSUME IInv, ~exited, NEW d \in Devices, NEW nbytes \in Requests, AllocResized(d, nbytes)
  PROVE  IInv' /\ \E b \in Blocks : Lend(d, nbytes, b)
<1> DEFINE n == Pages(nbytes)
           list == PoolOf(d).freeList
           k == Chosen(list, n)
           x == list[k].data
           freed == [space EXCEPT ![d][list[k].data] = 0]
<1>1. k > 1 /\ list[k].size < n
  BY DEF AllocResized
<1>2. PICK b \in Blocks : /\ freed[d][b] = 0 /\ space' = [freed EXCEPT ![d][b] = n]
                         /\ GiveOut(d, Front(list), b, n, nbytes)
  BY DEF AllocResized
<1>3. /\ Enumerates(list, FreeOf(space[d], wanted[d]), space[d]) /\ Sorted(list)
      /\ FreeOf(space[d], wanted[d]) \in SUBSET Blocks
  BY OfDevice DEF Accounted
<1>4. n \in Nat \ {0}
  BY PagesEnough
<1>5. /\ k = Len(list) /\ Len(list) \in 2 .. Len(list)
      /\ \A j \in 2 .. Len(list) : ~ (list[j].size >= n)
  <2> HIDE DEF n, list
  <2>1. /\ k \in 1 .. Len(list) /\ (k > 1 /\ list[k].size < n => k = Len(list))
        /\ Sorted(list) => \A j \in 2 .. Len(list) :
              list[j].size >= n => list[k].size >= n /\ list[k].size <= list[j].size
    BY <1>3, <1>4, ChosenEntry
  <2>2. list \in Seq(EntrySet) /\ Len(list) \in Nat
    BY <1>3 DEF Enumerates
  <2>3. list[k] \in EntrySet
    BY <2>1, <2>2
  <2>4. list[k].size \in Nat
    BY <2>3 DEF EntrySet
  <2> HIDE DEF k
  <2> QED
    BY <1>1, <1>3, <1>4, <2>1, <2>2, <2>4
<1> DEFINE after == [space[d] EXCEPT ![x] = 0, ![b] = n]
<1>6. x \in FreeOf(space[d], wanted[d]) /\ x \in Blocks /\ space[d][x] > 0 /\ wanted[d][x] = NotHeld
  <2>1. x \in FreeOf(space[d], wanted[d])
    BY <1>3, <1>5 DEF Enumerates
  <2> QED
    BY <2>1 DEF FreeOf
<1>7. /\ after \in [Blocks -> Nat] /\ space' = [space EXCEPT ![d] = after]
      /\ after[b] = n /\ \A c \in Blocks \ {b, x} : after[c] = space[d][c]
      /\ x # b => after[x] = 0
  BY <1>2, <1>4, <1>6, OfDevice DEF IInv
<1>8. b = x \/ space[d][b] = 0
  BY <1>2, <1>6, OfDevice DEF IInv
<1>9. wanted[d][b] = NotHeld /\ b \notin Held(d) /\ x \notin Held(d)
  BY <1>6, <1>8, OfDevice DEF Held, Given
<1> HIDE DEF after, x
<1>10. \A c \in Held(d) : after[c] = space[d][c]
  BY <1>7, <1>9 DEF Held
<1>11. FreeOf(after, wanted[d]) \ {b} = FreeOf(space[d], wanted[d]) \ {x}
  BY <1>4, <1>6, <1>7, <1>8 DEF FreeOf
<1>12. Enumerates(Front(list), FreeOf(after, wanted[d]) \ {b}, after) /\ Sorted(Front(list))
  <2> HIDE DEF list, n
  <2>1. list \in Seq(EntrySet) /\ Len(list) > 0 /\ Len(list) \in 1 .. Len(list) /\ x = list[Len(list)].data
    BY <1>3, <1>5 DEF Enumerates, x
  <2>2. Removal(Front(list), list, Len(list))
    BY <2>1, FrontRemoves
  <2>3. \A c \in FreeOf(space[d], wanted[d]) \ {x} : after[c] = space[d][c]
    BY <1>7, <1>8 DEF FreeOf
  <2>4. Enumerates(Front(list), FreeOf(space[d], wanted[d]) \ {x}, after)
    BY <1>3, <1>5, <2>1, <2>2, <2>3, RemovalEnumerates
  <2> QED
    BY <1>3, <1>11, <2>1, <2>2, <2>4, RemovalSorted
<1>13. /\ IInv' /\ wanted' = [wanted EXCEPT ![d][b] = nbytes]
       /\ peak' = [peak EXCEPT ![d] = Max({@, Cardinality(Held(d)) + 1})]
  <2> DEFINE free == Front(list)
  <2>1. GiveOut(d, free, b, n, nbytes) /\ Enumerates(free, FreeOf(after, wanted[d]) \ {b}, after) /\ Sorted(free)
    BY <1>2, <1>12
  <2> HIDE DEF n, list, free
  <2> QED
    BY <1>4, <1>7, <1>9, <1>10, <2>1, GiveOutKeepsIInv
<1>14. space'[d] = after /\ \A c \in Devices \ {d} : space'[c] = space[c]
  BY <1>7 DEF IInv
<1>15. x \in Given(d) /\ Given(d)' = (Given(d) \ {x}) \cup {b}
  BY <1>4, <1>6, <1>7, <1>8, <1>14 DEF Given
<1>16. Lend(d, nbytes, b)
  <2>1. space'[d][b] \in Nat /\ space'[d][b] >= n
    BY <1>4, <1>7, <1>14
  <2> QED
    BY <1>5, <1>9, <1>10, <1>13, <1>14, <1>15, <2>1 DEF Lend
<1> QED
  BY <1>13, <1>16

LEMMA AllocNewLends ==
  ASSUME IInv, ~exited, NEW d \in Devices, NEW nbytes \in Requests, AllocNew(d, nbytes)
  PROVE  IInv' /\ \E b \in Blocks : Lend(d, nbytes, b)
<1> DEFINE n == Pages(nbytes)
           list == PoolOf(d).freeList
<1>1. Len(list) = 1
  BY DEF AllocNew
<1>2. PICK b \in Blocks : space[d][b] = 0 /\ space' = [space EXCEPT ![d][b] = n] /\ GiveOut(d, list, b, n, nbytes)
  BY DEF AllocNew
<1>3. n \in Nat \ {0}
  BY PagesEnough
<1>4. /\ Enumerates(list, FreeOf(space[d], wanted[d]), space[d]) /\ Sorted(list)
  BY OfDevice DEF Accounted
<1> DEFINE after == [space[d] EXCEPT ![b] = n]
<1> HIDE DEF n, list
<1>5. FreeOf(space[d], wanted[d]) = {} /\ Given(d) = Held(d)
  <2>1. FreeOf(space[d], wanted[d]) = {}
    BY <1>1, <1>4 DEF Enumerates
  <2> QED
    BY <2>1, OfDevice
<1>6. /\ after \in [Blocks -> Nat] /\ space' = [space EXCEPT ![d] = after]
      /\ after[b] = n /\ \A c \in Blocks \ {b} : after[c] = space[d][c]
  BY <1>2, <1>3, OfDevice DEF IInv
<1>7. b \notin Held(d) /\ wanted[d][b] = NotHeld
  BY <1>2, <1>5 DEF Held, Given
<1> HIDE DEF after
<1>8. \A c \in Held(d) : after[c] = space[d][c]
  BY <1>6, <1>7 DEF Held
<1>9. FreeOf(after, wanted[d]) \ {b} = {}
  BY <1>5, <1>6 DEF FreeOf
<1>10. Enumerates(list, FreeOf(after, wanted[d]) \ {b}, after)
  BY <1>1, <1>4, <1>5, <1>9 DEF Enumerates
<1>11. /\ IInv' /\ wanted' = [wanted EXCEPT ![d][b] = nbytes]
       /\ peak' = [peak EXCEPT ![d] = Max({@, Cardinality(Held(d)) + 1})]
  <2>1. GiveOut(d, list, b, n, nbytes) /\ Sorted(list)
    BY <1>2, <1>4
  <2> QED
    BY <1>3, <1>6, <1>7, <1>8, <1>10, <2>1, GiveOutKeepsIInv
<1>12. space'[d] = after /\ \A c \in Devices \ {d} : space'[c] = space[c]
  BY <1>6 DEF IInv
<1>13. Given(d)' = Given(d) \cup {b}
  BY <1>3, <1>6, <1>12 DEF Given
<1>14. Lend(d, nbytes, b)
  <2>1. space'[d][b] \in Nat /\ space'[d][b] >= n
    BY <1>3, <1>6, <1>12
  <2> QED
    BY <1>1, <1>5, <1>7, <1>8, <1>11, <1>12, <1>13, <2>1 DEF Lend, n, list
<1> QED
  BY <1>11, <1>14

\* The pool of a device, there or new, is one.
LEMMA PoolOfIsPool ==
  ASSUME IInv, NEW d \in Devices
  PROVE  PoolOf(d) \in PoolSet /\ NoPool \in PoolSet
<1>1. Sentinel \in EntrySet
  BY DEF Sentinel, EntrySet
<1>2. NewPool \in PoolSet /\ NoPool \in PoolSet
  BY <1>1 DEF NewPool, NoPool, PoolSet
<1> QED
  BY <1>2 DEF IInv, PoolOf

\* A step that leaves the callers' blocks alone on one device, and the others as they are.
LEMMA SettledOn ==
  ASSUME IInv, NEW d \in Devices, NEW after \in [Blocks -> Nat], space' = [space EXCEPT ![d] = after],
         NEW wants \in [Blocks -> Requests \union {NotHeld}], wanted' = [wanted EXCEPT ![d] = wants],
         peak' = peak,
         \A b \in HeldOf(wants) : b \in Held(d) /\ wants[b] = wanted[d][b] /\ after[b] = space[d][b],
         \A b \in Blocks : after[b] > 0 => space[d][b] > 0
  PROVE  Settle
<1> SUFFICES ASSUME NEW c \in Devices
             PROVE  /\ \A b \in Held(c)' : b \in Held(c) /\ wanted'[c][b] = wanted[c][b] /\ space'[c][b] = space[c][b]
                    /\ Given(c)' \subseteq Given(c)
  BY DEF Settle
<1>1. CASE c = d
  <2>1. space'[c] = after /\ wanted'[c] = wants
    BY <1>1 DEF IInv
  <2> QED
    BY <1>1, <2>1 DEF Held, HeldOf, Given
<1>2. CASE c # d
  <2>1. space'[c] = space[c] /\ wanted'[c] = wanted[c]
    BY <1>2 DEF IInv
  <2> QED
    BY <2>1 DEF Held, Given
<1> QED
  BY <1>1, <1>2

LEMMA AllocFailsSettles ==
  ASSUME IInv, ~exited, NEW d \in Devices, NEW nbytes \in Requests, AllocFails(d, nbytes)
  PROVE  IInv' /\ Settle
<1> DEFINE n == Pages(nbytes)
           list == PoolOf(d).freeList
           k == Chosen(list, n)
           x == list[k].data
<1>1. /\ k > 1 => list[k].size < n
      /\ pool' = [pool EXCEPT ![d] = [PoolOf(d) EXCEPT !.freeList = IF k > 1 THEN Front(list) ELSE list]]
      /\ space' = IF k > 1 THEN [space EXCEPT ![d][x] = 0] ELSE space
      /\ wanted' = wanted /\ peak' = peak /\ exited' = exited
  BY DEF AllocFails
<1>2. /\ Enumerates(list, FreeOf(space[d], wanted[d]), space[d]) /\ Sorted(list)
      /\ FreeOf(space[d], wanted[d]) \in SUBSET Blocks
      /\ Enumerates(PoolOf(d).allocated, HeldOf(wanted[d]), space[d])
      /\ \A c \in HeldOf(wanted[d]) : space[d][c] > 0
  BY OfDevice DEF Accounted
<1>3. n \in Nat \ {0}
  BY PagesEnough
<1>4. /\ wanted[d] \in [Blocks -> Requests \union {NotHeld}] /\ wanted' = [wanted EXCEPT ![d] = wanted[d]]
      /\ space[d] \in [Blocks -> Nat] /\ HeldOf(wanted[d]) = Held(d)
  BY <1>1, OfDevice DEF IInv
<1>5. PoolOf(d) \in PoolSet /\ list \in Seq(EntrySet) /\ PoolOf(d).allocated \in Seq(EntrySet)
  BY PoolOfIsPool DEF PoolSet
<1>6. CASE k > 1
  <2>1. k = Len(list) /\ k \in 2 .. Len(list)
    <3> HIDE DEF n, list
    <3>1. k \in 1 .. Len(list) /\ (k > 1 /\ list[k].size < n => k = Len(list))
      BY <1>2, <1>3, ChosenEntry
    <3> QED
      BY <1>1, <1>6, <3>1
  <2> DEFINE after == [space[d] EXCEPT ![x] = 0]
             p == [freeList |-> Front(list), allocated |-> PoolOf(d).allocated]
  <2>2. x \in FreeOf(space[d], wanted[d]) /\ x \in Blocks /\ wanted[d][x] = NotHeld
    <3>1. x \in FreeOf(space[d], wanted[d])
      BY <1>2, <2>1 DEF Enumerates
    <3> QED
      BY <3>1 DEF FreeOf
  <2>3. /\ after \in [Blocks -> Nat] /\ space' = [space EXCEPT ![d] = after]
        /\ after[x] = 0 /\ \A c \in Blocks \ {x} : after[c] = space[d][c]
    BY <1>1, <1>4, <1>6, <2>2 DEF IInv
  <2>4. pool' = [pool EXCEPT ![d] = p]
    <3>1. \A q \in PoolSet : \A f : [q EXCEPT !.freeList = f] = [freeList |-> f, allocated |-> q.allocated]
      BY DEF PoolSet
    <3>2. [PoolOf(d) EXCEPT !.freeList = Front(list)] = p
      BY <1>5, <3>1
    <3> QED
      BY <1>1, <1>6, <3>2
  <2>5. Removal(Front(list), list, Len(list))
    BY <1>5, <2>1, FrontRemoves
  <2> HIDE DEF after, x
  <2>6. FreeOf(after, wanted[d]) = FreeOf(space[d], wanted[d]) \ {x}
    BY <2>2, <2>3 DEF FreeOf
  <2>7. Enumerates(Front(list), FreeOf(after, wanted[d]), after) /\ Sorted(Front(list))
    <3> HIDE DEF list, n
    <3>1. x = list[Len(list)].data /\ Len(list) \in 2 .. Len(list) /\ Len(list) \in 1 .. Len(list)
      BY <2>1 DEF x
    <3>2. \A c \in FreeOf(space[d], wanted[d]) \ {x} : after[c] = space[d][c]
      BY <2>3 DEF FreeOf
    <3> QED
      BY <1>2, <1>5, <2>5, <2>6, <3>1, <3>2, RemovalEnumerates, RemovalSorted
  <2>8. \A c \in HeldOf(wanted[d]) : after[c] = space[d][c] /\ after[c] > 0
    BY <1>2, <2>2, <2>3 DEF HeldOf
  <2>9. Enumerates(PoolOf(d).allocated, HeldOf(wanted[d]), after)
    BY <1>2, <2>8 DEF Enumerates
  <2>10. p \in PoolSet /\ Accounted(p, after, wanted[d])
    <3>1. Front(list) \in Seq(EntrySet)
      BY <2>5 DEF Removal
    <3> QED
      BY <1>5, <2>7, <2>8, <2>9, <3>1 DEF Accounted, PoolSet
  <2> HIDE DEF p
  <2>11. IInv'
    BY <1>1, <1>4, <2>3, <2>4, <2>10, OneDevice
  <2>12. \A b \in Blocks : after[b] > 0 => space[d][b] > 0
    BY <2>3
  <2>13. Settle
    <3>1. \A b \in HeldOf(wanted[d]) : b \in Held(d) /\ wanted[d][b] = wanted[d][b] /\ after[b] = space[d][b]
      BY <1>4, <2>8
    <3> DEFINE wants == wanted[d]
    <3>2. /\ wants \in [Blocks -> Requests \union {NotHeld}] /\ wanted' = [wanted EXCEPT ![d] = wants]
          /\ \A b \in HeldOf(wants) : b \in Held(d) /\ wants[b] = wanted[d][b] /\ after[b] = space[d][b]
      BY <1>4, <3>1
    <3>3. peak' = peak /\ after \in [Blocks -> Nat] /\ space' = [space EXCEPT ![d] = after]
      BY <1>1, <2>3
    <3> HIDE DEF wants, n, list
    <3> QED
      BY <2>12, <3>2, <3>3, SettledOn
  <2> QED
    BY <2>11, <2>13
<1>7. CASE ~ (k > 1)
  <2>1. space' = [space EXCEPT ![d] = space[d]]
    BY <1>1, <1>7 DEF IInv
  <2>2. pool' = [pool EXCEPT ![d] = PoolOf(d)]
    BY <1>1, <1>5, <1>7 DEF PoolSet
  <2>3. Accounted(PoolOf(d), space[d], wanted[d])
    BY OfDevice
  <2>4. IInv'
    BY <1>1, <1>4, <1>5, <2>1, <2>2, <2>3, OneDevice
  <2>5. Settle
    <3> DEFINE wants == wanted[d]
               after == space[d]
    <3>1. /\ wants \in [Blocks -> Requests \union {NotHeld}] /\ wanted' = [wanted EXCEPT ![d] = wants]
          /\ after \in [Blocks -> Nat] /\ space' = [space EXCEPT ![d] = after]
          /\ \A b \in HeldOf(wants) : b \in Held(d) /\ wants[b] = wanted[d][b] /\ after[b] = space[d][b]
          /\ \A b \in Blocks : after[b] > 0 => space[d][b] > 0
      BY <1>4, <2>1
    <3> HIDE DEF wants, after
    <3> QED
      BY <1>1, <3>1, SettledOn
  <2> QED
    BY <2>4, <2>5
<1> QED
  BY <1>6, <1>7

LEMMA FreeSettles ==
  ASSUME IInv, ~exited, NEW d \in Devices, NEW ptr \in Blocks, FreeWorkspace(d, ptr)
  PROVE  IInv' /\ Settle
<1> DEFINE list == pool[d].allocated
           free == pool[d].freeList
           k == Position(list, ptr)
           e == list[k]
           sizes == space[d]
           wants == [b \in Blocks |-> IF b = ptr THEN NotHeld ELSE wanted[d][b]]
           p == [freeList |-> Inserted(free, e), allocated |-> RemoveAt(list, k)]
<1>1. PoolOf(d) = pool[d] /\ (k > 1 \/ k = Len(list)) /\ exited' = exited /\ peak' = peak
  BY DEF FreeWorkspace, PoolOf
<1>2. pool' = [pool EXCEPT ![d] = p] /\ wanted' = [wanted EXCEPT ![d] = wants] /\ space' = [space EXCEPT ![d] = sizes]
  BY DEF FreeWorkspace, IInv
<1>3. /\ sizes \in [Blocks -> Nat] /\ wanted[d] \in [Blocks -> Requests \union {NotHeld}]
      /\ HeldOf(wanted[d]) = Held(d)
  BY OfDevice
<1>4. /\ Enumerates(free, FreeOf(sizes, wanted[d]), sizes) /\ Sorted(free)
      /\ Enumerates(list, HeldOf(wanted[d]), sizes) /\ \A c \in HeldOf(wanted[d]) : sizes[c] > 0
      /\ FreeOf(sizes, wanted[d]) \in SUBSET Blocks /\ HeldOf(wanted[d]) \in SUBSET Blocks
  BY <1>1, OfDevice DEF Accounted, HeldOf, FreeOf
<1>5. /\ wants \in [Blocks -> Requests \union {NotHeld}] /\ HeldOf(wants) = HeldOf(wanted[d]) \ {ptr}
      /\ \A b \in HeldOf(wants) : wants[b] = wanted[d][b]
  BY <1>3 DEF HeldOf
<1> HIDE DEF list, free
<1>6. k \in 2 .. Len(list) /\ e.data = ptr
  BY <1>1, <1>4, PositionEntry
<1> HIDE DEF k
<1>7. /\ ptr \in HeldOf(wanted[d]) /\ e.size = sizes[ptr] /\ e.size > 0 /\ e \in EntrySet
      /\ list \in Seq(EntrySet) /\ k \in 1 .. Len(list)
  <2>1. list \in Seq(EntrySet) /\ k \in 1 .. Len(list)
    BY <1>4, <1>6 DEF Enumerates
  <2>2. e \in EntrySet
    BY <2>1
  <2> QED
    BY <1>4, <1>6, <2>1, <2>2 DEF Enumerates
<1>8. FreeOf(sizes, wants) = FreeOf(sizes, wanted[d]) \cup {ptr} /\ ptr \in Blocks \ FreeOf(sizes, wanted[d])
  BY <1>3, <1>7 DEF FreeOf, HeldOf
<1> HIDE DEF e, wants, sizes
<1>9. Enumerates(RemoveAt(list, k), HeldOf(wants), sizes)
  <2>1. Removal(RemoveAt(list, k), list, k)
    BY <1>7, RemoveAtRemoves
  <2>2. list[k].data = ptr
    BY <1>6 DEF e
  <2> QED
    BY <1>4, <1>5, <1>6, <2>1, <2>2, RemovalEnumerates
<1>10. Enumerates(Inserted(free, e), FreeOf(sizes, wants), sizes) /\ Sorted(Inserted(free, e))
  <2>1. PICK q \in 2 .. Len(free) + 1 :
            /\ Insertion(Inserted(free, e), free, q, e)
            /\ \A i \in 1 .. Len(free) : i < q => free[i].size <= e.size
            /\ \A i \in 1 .. Len(free) : i >= q => e.size <= free[i].size
    BY <1>4, <1>7, InsertedEntry
  <2> DEFINE m == e.size
  <2>2. e = Entry(ptr, m) /\ m \in Nat \ {0} /\ sizes[ptr] = m
    BY <1>6, <1>7 DEF EntrySet, Entry
  <2>3. free \in Seq(EntrySet)
    BY <1>4 DEF Enumerates
  <2>4. Sorted(Inserted(free, e))
    BY <1>4, <1>7, <2>1, <2>3, InsertionSorted
  <2>5. Insertion(Inserted(free, e), free, q, Entry(ptr, m))
    BY <2>1, <2>2
  <2> HIDE DEF m
  <2>6. Enumerates(Inserted(free, e), FreeOf(sizes, wanted[d]) \cup {ptr}, sizes)
    BY <1>4, <1>8, <2>1, <2>2, <2>5, InsertionEnumerates
  <2> QED
    BY <1>8, <2>4, <2>6
<1>11. p \in PoolSet /\ Accounted(p, sizes, wants)
  <2>1. Inserted(free, e) \in Seq(EntrySet) /\ RemoveAt(list, k) \in Seq(EntrySet)
    BY <1>9, <1>10 DEF Enumerates
  <2>2. \A c \in HeldOf(wants) : sizes[c] > 0
    BY <1>4, <1>5
  <2> QED
    BY <1>9, <1>10, <2>1, <2>2 DEF Accounted, PoolSet
<1> HIDE DEF p
<1>12. IInv'
  BY <1>1, <1>2, <1>3, <1>5, <1>11, OneDevice
<1>13. Settle
  <2>1. \A b \in HeldOf(wants) : b \in Held(d) /\ wants[b] = wanted[d][b] /\ sizes[b] = space[d][b]
    BY <1>3, <1>5 DEF sizes
  <2>2. \A b \in Blocks : sizes[b] > 0 => space[d][b] > 0
    BY DEF sizes
  <2> QED
    BY <1>1, <1>2, <1>3, <1>5, <2>1, <2>2, SettledOn
<1> QED
  BY <1>12, <1>13

\* The destructor returns what is kept and leaves what is held.
LEMMA ExitSettles ==
  ASSUME IInv, Exit
  PROVE  IInv' /\ Settle
<1> DEFINE kept(d, b) == \E k \in 2 .. Len(pool[d].freeList) : pool[d].freeList[k].data = b
<1>1. /\ ~exited /\ exited' = TRUE /\ wanted' = wanted /\ peak' = peak
      /\ pool' = [d \in Devices |-> NoPool]
      /\ space' = [d \in Devices |-> [b \in Blocks |-> IF kept(d, b) THEN 0 ELSE space[d][b]]]
  BY DEF Exit
<1>2. ASSUME NEW d \in Devices, NEW b \in Blocks
      PROVE  kept(d, b) <=> b \in FreeOf(space[d], wanted[d])
  <2>1. Enumerates(PoolOf(d).freeList, FreeOf(space[d], wanted[d]), space[d])
    BY <1>1, OfDevice DEF Accounted
  <2>2. CASE pool[d] = NoPool
    <3>1. PoolOf(d).freeList = <<Sentinel>> /\ Len(pool[d].freeList) = 0
      BY <2>2 DEF PoolOf, NewPool, NoPool
    <3>2. ~ kept(d, b)
      BY <3>1
    <3>3. Len(PoolOf(d).freeList) = 1
      BY <3>1
    <3>4. FreeOf(space[d], wanted[d]) = {}
      BY <2>1, <3>3 DEF Enumerates
    <3> QED
      BY <3>2, <3>4
  <2>3. CASE pool[d] # NoPool
    <3>1. PoolOf(d) = pool[d]
      BY <2>3 DEF PoolOf
    <3> QED
      BY <2>1, <3>1 DEF Enumerates
  <2> QED
    BY <2>2, <2>3
<1> HIDE DEF kept
<1>3. space' \in [Devices -> [Blocks -> Nat]]
  BY <1>1 DEF IInv
<1>4. ASSUME NEW d \in Devices
      PROVE  pool'[d] = NoPool /\ FreeOf(space'[d], wanted'[d]) = {}
  <2>1. \A b \in Blocks : space'[d][b] = IF b \in FreeOf(space[d], wanted[d]) THEN 0 ELSE space[d][b]
    BY <1>1, <1>2
  <2> QED
    BY <1>1, <2>1 DEF FreeOf
<1>5. IInv'
  <2>1. pool' \in [Devices -> PoolSet]
    BY <1>1, PoolOfIsPool
  <2> QED
    BY <1>1, <1>3, <1>4, <2>1 DEF IInv
<1>6. Settle
  <2>1. \A d \in Devices, b \in Blocks : space'[d][b] = IF b \in FreeOf(space[d], wanted[d]) THEN 0 ELSE space[d][b]
    BY <1>1, <1>2
  <2> QED
    BY <1>1, <2>1 DEF Settle, Held, Given, FreeOf
<1> QED
  BY <1>5, <1>6
LEMMA InitKeepsIInv == Init => IInv
<1> SUFFICES ASSUME Init PROVE IInv
  OBVIOUS
<1>1. /\ pool = [d \in Devices |-> NoPool] /\ space = [d \in Devices |-> [b \in Blocks |-> 0]]
      /\ wanted = [d \in Devices |-> [b \in Blocks |-> NotHeld]] /\ exited = FALSE
  BY DEF Init
<1>2. NoPool \in PoolSet
  BY DEF NoPool, PoolSet
<1>3. ASSUME NEW d \in Devices PROVE Accounted(PoolOf(d), space[d], wanted[d])
  <2>1. PoolOf(d) = NewPool
    BY <1>1 DEF PoolOf
  <2>2. NewPool.freeList = <<Sentinel>> /\ NewPool.allocated = <<Sentinel>>
    BY DEF NewPool
  <2>3. HeldOf(wanted[d]) = {} /\ FreeOf(space[d], wanted[d]) = {}
    BY <1>1 DEF HeldOf, FreeOf
  <2> QED
    BY <2>1, <2>2, <2>3, GuardOnly DEF Accounted
<1> QED
  BY <1>1, <1>2, <1>3 DEF IInv

LEMMA StutterSettles ==
  ASSUME IInv, UNCHANGED vars
  PROVE  IInv' /\ Settle
<1>1. pool' = pool /\ space' = space /\ wanted' = wanted /\ peak' = peak /\ exited' = exited
  BY DEF vars
<1>2. IInv'
  BY <1>1 DEF IInv, PoolOf
<1>3. Settle
  BY <1>1 DEF Settle, Held, Given
<1> QED
  BY <1>2, <1>3

\* Every step keeps the invariant, and either lends one block or settles.
LEMMA StepLendsOrSettles ==
  ASSUME IInv, [Next]_vars
  PROVE  /\ IInv'
         /\ (~exited /\ \E d \in Devices, nbytes \in Requests, b \in Blocks : Lend(d, nbytes, b)) \/ Settle
<1>1. CASE UNCHANGED vars
  BY <1>1, StutterSettles
<1>2. CASE Exit
  BY <1>2, ExitSettles
<1>3. ASSUME NEW d \in Devices, NEW ptr \in Blocks, FreeWorkspace(d, ptr)
      PROVE  IInv' /\ Settle
  <2>1. ~exited
    BY <1>3 DEF FreeWorkspace
  <2> QED
    BY <1>3, <2>1, FreeSettles
<1>4. ASSUME NEW d \in Devices, NEW nbytes \in Requests, AllocWorkspace(d, nbytes)
      PROVE  IInv' /\ ((~exited /\ \E b \in Blocks : Lend(d, nbytes, b)) \/ Settle)
  <2>1. ~exited
    BY <1>4 DEF AllocWorkspace
  <2>2. CASE AllocKept(d, nbytes)
    BY <2>1, <2>2, AllocKeptLends
  <2>3. CASE AllocResized(d, nbytes)
    BY <2>1, <2>3, AllocResizedLends
  <2>4. CASE AllocNew(d, nbytes)
    BY <2>1, <2>4, AllocNewLends
  <2>5. CASE AllocFails(d, nbytes)
    BY <2>1, <2>5, AllocFailsSettles
  <2> QED
    BY <1>4, <2>2, <2>3, <2>4, <2>5 DEF AllocWorkspace
<1> QED
  BY <1>1, <1>2, <1>3, <1>4 DEF Next

-----------------------------------------------------------------------------
(* The theorems.                                                           *)

THEOREM Invariance == Spec => []IInv
<1>1. IInv /\ [Next]_vars => IInv'
  BY StepLendsOrSettles
<1> QED
  BY InitKeepsIInv, <1>1, PTL DEF Spec

\* Behind its safe guard a list is what Kept and InUse show.
LEMMA TailOfList ==
  ASSUME NEW list, NEW S, NEW sizes, Enumerates(list, S, sizes)
  PROVE  /\ Tail(list) \in Seq(EntrySet) /\ Len(Tail(list)) = Len(list) - 1
         /\ \A i \in 1 .. Len(Tail(list)) :
               i + 1 \in 2 .. Len(list) /\ Tail(list)[i] = list[i + 1]
         /\ \A i \in 1 .. Len(Tail(list)) :
               Tail(list)[i].data \in S /\ Tail(list)[i].size = sizes[Tail(list)[i].data]
         /\ \A i, j \in 1 .. Len(Tail(list)) : Tail(list)[i].data = Tail(list)[j].data => i = j
         /\ \A b \in S : \E i \in 1 .. Len(Tail(list)) : Tail(list)[i].data = b
<1>1. list \in Seq(EntrySet) /\ list # << >> /\ Len(list) \in Nat
  BY DEF Enumerates
<1> DEFINE t == Tail(list)
<1>2. /\ t \in Seq(EntrySet) /\ Len(t) = Len(list) - 1
      /\ \A i \in 1 .. Len(t) : t[i] = list[i + 1]
  BY <1>1, HeadTailProperties
<1> HIDE DEF t
<1>3. \A i \in 1 .. Len(t) : i + 1 \in 2 .. Len(list) /\ t[i] = list[i + 1]
  BY <1>1, <1>2
<1>4. \A i \in 1 .. Len(t) : t[i].data \in S /\ t[i].size = sizes[t[i].data]
  BY <1>3 DEF Enumerates
<1>5. \A i, j \in 1 .. Len(t) : t[i].data = t[j].data => i = j
  <2> SUFFICES ASSUME NEW i \in 1 .. Len(t), NEW j \in 1 .. Len(t), t[i].data = t[j].data
               PROVE  i = j
    OBVIOUS
  <2>1. i + 1 = j + 1
    BY <1>3 DEF Enumerates
  <2> QED
    BY <2>1
<1>6. ASSUME NEW b \in S PROVE \E i \in 1 .. Len(t) : t[i].data = b
  <2>1. PICK m \in 2 .. Len(list) : list[m].data = b
    BY DEF Enumerates
  <2>2. m - 1 \in 1 .. Len(t) /\ m - 1 + 1 = m
    BY <1>1, <1>2, <2>1
  <2> QED
    BY <1>3, <2>1, <2>2
<1> QED
  BY <1>2, <1>3, <1>4, <1>5, <1>6 DEF t
\* One block of a device is in one list, under its size, and the allocated list is the one of
\* the blocks that are held: neither the search of Alloc nor that of Free loses or doubles an entry.
THEOREM BlocksStayAccounted == Spec => []BlocksAccounted
<1>1. ASSUME IInv PROVE BlocksAccounted
  <2> SUFFICES ASSUME NEW d \in Devices, pool[d] # NoPool
               PROVE  LET all == Kept(d) \o InUse(d) IN
                        /\ \A j, k \in DOMAIN all : all[j].data = all[k].data => j = k
                        /\ \A b \in Blocks : space[d][b] > 0 <=> b \in {all[k].data : k \in DOMAIN all}
                        /\ \A k \in DOMAIN all : all[k].size = space[d][all[k].data]
                        /\ Held(d) = {InUse(d)[k].data : k \in DOMAIN InUse(d)}
    BY DEF BlocksAccounted
  <2> DEFINE free == FreeOf(space[d], wanted[d])
             held == HeldOf(wanted[d])
             s == Kept(d)
             t == InUse(d)
             all == s \o t
  <2>1. ~exited /\ PoolOf(d) = pool[d]
    BY <1>1 DEF IInv, PoolOf
  <2>2. /\ Enumerates(pool[d].freeList, free, space[d]) /\ Enumerates(pool[d].allocated, held, space[d])
        /\ held = Held(d) /\ \A c \in held : space[d][c] > 0
    BY <1>1, <2>1, OfDevice DEF Accounted
  <2>3. \A b \in Blocks : space[d][b] > 0 <=> b \in free \/ b \in held
    BY <2>2 DEF FreeOf, HeldOf
  <2>4. free \intersect held = {}
    BY DEF FreeOf, HeldOf
  <2> HIDE DEF free, held
  <2>5. /\ s \in Seq(EntrySet) /\ Len(s) \in Nat
        /\ \A i \in 1 .. Len(s) : s[i].data \in free /\ s[i].size = space[d][s[i].data]
        /\ \A i, j \in 1 .. Len(s) : s[i].data = s[j].data => i = j
        /\ \A b \in free : \E i \in 1 .. Len(s) : s[i].data = b
    <3> DEFINE list == pool[d].freeList
               sizes == space[d]
               tail == Tail(list)
    <3>1. Enumerates(list, free, sizes)
      BY <2>2
    <3> HIDE DEF list, sizes
    <3>2. /\ tail \in Seq(EntrySet)
          /\ \A i \in 1 .. Len(tail) : tail[i].data \in free /\ tail[i].size = sizes[tail[i].data]
          /\ \A i, j \in 1 .. Len(tail) : tail[i].data = tail[j].data => i = j
          /\ \A b \in free : \E i \in 1 .. Len(tail) : tail[i].data = b
      BY <3>1, TailOfList
    <3>3. s = tail
      BY DEF Kept, list
    <3> HIDE DEF tail, s
    <3>4. Len(tail) \in Nat
      BY <3>2
    <3> QED
      BY <3>2, <3>3, <3>4 DEF sizes
  <2>6. /\ t \in Seq(EntrySet) /\ Len(t) \in Nat
        /\ \A i \in 1 .. Len(t) : t[i].data \in held /\ t[i].size = space[d][t[i].data]
        /\ \A i, j \in 1 .. Len(t) : t[i].data = t[j].data => i = j
        /\ \A b \in held : \E i \in 1 .. Len(t) : t[i].data = b
    <3> DEFINE list == pool[d].allocated
               sizes == space[d]
               tail == Tail(list)
    <3>1. Enumerates(list, held, sizes)
      BY <2>2
    <3> HIDE DEF list, sizes
    <3>2. /\ tail \in Seq(EntrySet)
          /\ \A i \in 1 .. Len(tail) : tail[i].data \in held /\ tail[i].size = sizes[tail[i].data]
          /\ \A i, j \in 1 .. Len(tail) : tail[i].data = tail[j].data => i = j
          /\ \A b \in held : \E i \in 1 .. Len(tail) : tail[i].data = b
      BY <3>1, TailOfList
    <3>3. t = tail
      BY DEF InUse, list
    <3> HIDE DEF tail, t
    <3>4. Len(tail) \in Nat
      BY <3>2
    <3> QED
      BY <3>2, <3>3, <3>4 DEF sizes
  <2> HIDE DEF s, t
  <2>7. /\ all \in Seq(EntrySet) /\ Len(all) = Len(s) + Len(t)
        /\ \A i \in 1 .. Len(s) + Len(t) : all[i] = IF i <= Len(s) THEN s[i] ELSE t[i - Len(s)]
    BY <2>5, <2>6, ConcatProperties
  <2> HIDE DEF all
  <2>8. DOMAIN all = 1 .. Len(s) + Len(t) /\ DOMAIN t = 1 .. Len(t)
    BY <2>6, <2>7
  <2>9. \A i \in 1 .. Len(s) : i \in DOMAIN all /\ all[i] = s[i]
    BY <2>5, <2>6, <2>7, <2>8
  <2>10. \A i \in 1 .. Len(t) : Len(s) + i \in DOMAIN all /\ all[Len(s) + i] = t[i]
    <3> SUFFICES ASSUME NEW i \in 1 .. Len(t) PROVE Len(s) + i \in DOMAIN all /\ all[Len(s) + i] = t[i]
      OBVIOUS
    <3>1. Len(s) + i \in 1 .. Len(s) + Len(t) /\ ~ (Len(s) + i <= Len(s)) /\ Len(s) + i - Len(s) = i
      BY <2>5, <2>6
    <3> QED
      BY <2>7, <2>8, <3>1
  <2>11. ASSUME NEW k \in DOMAIN all
         PROVE  \/ k \in 1 .. Len(s) /\ all[k] = s[k]
                \/ k - Len(s) \in 1 .. Len(t) /\ all[k] = t[k - Len(s)]
    BY <2>5, <2>6, <2>7, <2>8, <2>11
  <2>12. ASSUME NEW j \in DOMAIN all, NEW k \in DOMAIN all, all[j].data = all[k].data
         PROVE  j = k
    <3>1. CASE k \in 1 .. Len(s) /\ all[k] = s[k] /\ j \in 1 .. Len(s) /\ all[j] = s[j]
      BY <2>5, <2>12, <3>1
    <3>2. CASE /\ k - Len(s) \in 1 .. Len(t) /\ all[k] = t[k - Len(s)]
               /\ j - Len(s) \in 1 .. Len(t) /\ all[j] = t[j - Len(s)]
      <4>1. k - Len(s) = j - Len(s)
        BY <2>6, <2>12, <3>2
      <4>2. k \in Int /\ j \in Int /\ Len(s) \in Int
        BY <2>5, <2>8
      <4> QED
        BY <4>1, <4>2
    <3>3. CASE k \in 1 .. Len(s) /\ all[k] = s[k] /\ j - Len(s) \in 1 .. Len(t) /\ all[j] = t[j - Len(s)]
      BY <2>4, <2>5, <2>6, <2>12, <3>3
    <3>4. CASE j \in 1 .. Len(s) /\ all[j] = s[j] /\ k - Len(s) \in 1 .. Len(t) /\ all[k] = t[k - Len(s)]
      BY <2>4, <2>5, <2>6, <2>12, <3>4
    <3> QED
      BY <2>11, <3>1, <3>2, <3>3, <3>4
  <2>13. \A k \in DOMAIN all : all[k].size = space[d][all[k].data]
    BY <2>5, <2>6, <2>11
  <2>14. ASSUME NEW k \in DOMAIN all PROVE all[k].data \in free \/ all[k].data \in held
    BY <2>5, <2>6, <2>11
  <2>15. ASSUME NEW b \in free \cup held PROVE \E k \in DOMAIN all : all[k].data = b
    <3>1. CASE b \in free
      BY <2>5, <2>9, <3>1
    <3>2. CASE b \in held
      BY <2>6, <2>10, <3>2
    <3> QED
      BY <3>1, <3>2
  <2>16. \A b \in Blocks : space[d][b] > 0 <=> b \in {all[k].data : k \in DOMAIN all}
    BY <2>3, <2>14, <2>15
  <2>17. Held(d) = {t[k].data : k \in DOMAIN t}
    BY <2>2, <2>6, <2>8
  <2>18. /\ \A j, k \in DOMAIN all : all[j].data = all[k].data => j = k
         /\ \A b \in Blocks : space[d][b] > 0 <=> b \in {all[k].data : k \in DOMAIN all}
         /\ \A k \in DOMAIN all : all[k].size = space[d][all[k].data]
         /\ Held(d) = {t[k].data : k \in DOMAIN t}
    BY <2>12, <2>13, <2>16, <2>17
  <2> QED
    BY <2>18 DEF all, s, t
<1> QED
  BY Invariance, <1>1, PTL

\* The destructor of a thread's pool gives back to the device all that is not held.
THEOREM NothingIsLeftKept == Spec => []NothingLeftKept
<1>1. IInv => NothingLeftKept
  BY DEF IInv, NothingLeftKept, FreeOf, Held
<1> QED
  BY Invariance, <1>1, PTL

\* Between the moment a block is lent and the moment it is taken back no call changes it.
THEOREM HeldStayUntouched == Spec => HeldUntouched
<1>1. ASSUME IInv, [Next]_vars, NEW d \in Devices, NEW b \in Held(d) \intersect Held(d)'
      PROVE  space'[d][b] = space[d][b] /\ wanted'[d][b] = wanted[d][b]
  <2>1. CASE Settle
    BY <1>1, <2>1 DEF Settle
  <2>2. ASSUME NEW c \in Devices, NEW nbytes \in Requests, NEW x \in Blocks, Lend(c, nbytes, x)
        PROVE  space'[d][b] = space[d][b] /\ wanted'[d][b] = wanted[d][b]
    <3>1. /\ wanted[c][x] = NotHeld /\ wanted' = [wanted EXCEPT ![c][x] = nbytes]
          /\ \A y \in Held(c) : space'[c][y] = space[c][y]
          /\ \A y \in Devices \ {c} : space'[y] = space[y]
      BY <2>2 DEF Lend
    <3>2. wanted \in [Devices -> [Blocks -> Requests \union {NotHeld}]]
      BY <1>1 DEF IInv
    <3>3. ~ (d = c /\ b = x)
      BY <1>1, <3>1 DEF Held
    <3>4. wanted'[d][b] = wanted[d][b]
      BY <3>1, <3>2, <3>3, <1>1 DEF Held
    <3> QED
      BY <1>1, <3>1, <3>4
  <2> QED
    BY <1>1, <2>1, <2>2, StepLendsOrSettles
<1>2. ASSUME IInv, [Next]_vars
      PROVE  [\A d \in Devices : \A b \in Held(d) \intersect Held(d)' :
                 space'[d][b] = space[d][b] /\ wanted'[d][b] = wanted[d][b]]_vars
  BY <1>1, <1>2
<1> QED
  BY Invariance, <1>2, PTL DEF Spec, HeldUntouched
\* The free list being sorted, the search from its end stops at the best fit.
THEOREM FitIsSmallest == Spec => SmallestFit
<1>1. ASSUME IInv, [Next]_vars, NEW d \in Devices, pool[d] # NoPool, NEW b \in Held(d)' \ Held(d),
             NEW k \in DOMAIN Kept(d), Kept(d)[k].size >= Pages(wanted'[d][b])
      PROVE  space'[d][b] <= Kept(d)[k].size
  <2>1. ~ Settle
    BY <1>1 DEF Settle
  <2>2. PICK c \in Devices, nbytes \in Requests, x \in Blocks : ~exited /\ Lend(c, nbytes, x)
    BY <1>1, <2>1, StepLendsOrSettles
  <2>3. /\ wanted \in [Devices -> [Blocks -> Requests \union {NotHeld}]]
        /\ wanted' = [wanted EXCEPT ![c][x] = nbytes]
    BY <1>1, <2>2 DEF IInv, Lend
  <2>4. c = d /\ x = b /\ wanted'[d][b] = nbytes
    BY <1>1, <2>3 DEF Held
  <2>5. \A i \in 2 .. Len(PoolOf(d).freeList) :
           PoolOf(d).freeList[i].size >= Pages(nbytes) => space'[d][b] <= PoolOf(d).freeList[i].size
    BY <2>2, <2>4 DEF Lend
  <2>6. PoolOf(d) = pool[d]
    BY <1>1 DEF PoolOf
  <2>7. Enumerates(pool[d].freeList, FreeOf(space[d], wanted[d]), space[d])
    BY <1>1, <2>2, <2>6, OfDevice DEF Accounted
  <2> DEFINE list == pool[d].freeList
  <2>8. Enumerates(list, FreeOf(space[d], wanted[d]), space[d]) /\ Kept(d) = Tail(list)
    BY <2>7 DEF Kept
  <2> HIDE DEF list
  <2>9. /\ Tail(list) \in Seq(EntrySet)
        /\ \A i \in 1 .. Len(Tail(list)) : i + 1 \in 2 .. Len(list) /\ Tail(list)[i] = list[i + 1]
    BY <2>8, TailOfList
  <2>10. k \in 1 .. Len(Tail(list))
    BY <1>1, <2>8, <2>9
  <2>11. k + 1 \in 2 .. Len(list) /\ Kept(d)[k] = list[k + 1]
    BY <2>8, <2>9, <2>10
  <2> QED
    BY <1>1, <2>4, <2>5, <2>6, <2>11 DEF list
<1>2. ASSUME IInv, [Next]_vars
      PROVE  [\A d \in Devices : pool[d] # NoPool =>
                \A b \in Held(d)' \ Held(d) : \A k \in DOMAIN Kept(d) :
                   Kept(d)[k].size >= Pages(wanted'[d][b]) => space'[d][b] <= Kept(d)[k].size]_vars
  BY <1>1, <1>2
<1> QED
  BY Invariance, <1>2, PTL DEF Spec, SmallestFit

\* A block is as big as asked, unless the request is so near the top of size_t that rounding
\* it up wraps around.
THEOREM BlocksAreBigEnough ==
  ASSUME \A r \in Requests : r + PageSize <= WordSize
  PROVE  Spec => []BigEnough
<1>1. Init => BigEnough
  BY DEF Init, BigEnough, Held
<1>2. ASSUME IInv, BigEnough, [Next]_vars PROVE BigEnough'
  <2>1. CASE Settle
    BY <1>2, <2>1 DEF Settle, BigEnough
  <2>2. ASSUME NEW c \in Devices, NEW nbytes \in Requests, NEW x \in Blocks, Lend(c, nbytes, x)
        PROVE  BigEnough'
    <3>1. /\ wanted' = [wanted EXCEPT ![c][x] = nbytes]
          /\ space'[c][x] \in Nat /\ space'[c][x] >= Pages(nbytes)
          /\ \A y \in Held(c) : space'[c][y] = space[c][y]
          /\ \A y \in Devices \ {c} : space'[y] = space[y]
      BY <2>2 DEF Lend
    <3>2. wanted \in [Devices -> [Blocks -> Requests \union {NotHeld}]]
      BY <1>2 DEF IInv
    <3>3. space'[c][x] * PageSize >= nbytes
      <4> DEFINE n == Pages(nbytes)
                 m == space'[c][x]
                 q == PageSize
      <4>1. n \in Nat /\ m \in Nat /\ q \in Nat /\ m >= n /\ nbytes \in Nat
        BY <3>1, PagesEnough, Constants
      <4>2. n * q >= nbytes
        BY PagesEnough
      <4> HIDE DEF n, m, q
      <4>3. m * q >= n * q
        BY <4>1
      <4>4. m * q \in Nat /\ n * q \in Nat
        BY <4>1
      <4>5. m * q >= nbytes
        BY <4>1, <4>2, <4>3, <4>4
      <4> QED
        BY <4>5 DEF m, q
    <3>4. ASSUME NEW d \in Devices, NEW b \in Held(d)'
          PROVE  space'[d][b] * PageSize >= wanted'[d][b]
      <4>1. CASE d = c /\ b = x
        <5>1. wanted'[d][b] = nbytes
          BY <3>1, <3>2, <4>1
        <5> QED
          BY <3>3, <4>1, <5>1
      <4>2. CASE ~ (d = c /\ b = x)
        <5>1. wanted'[d][b] = wanted[d][b] /\ b \in Held(d)
          BY <3>1, <3>2, <3>4, <4>2 DEF Held
        <5>2. space'[d][b] = space[d][b]
          BY <3>1, <5>1
        <5> QED
          BY <1>2, <5>1, <5>2 DEF BigEnough
      <4> QED
        BY <4>1, <4>2
    <3> QED
      BY <3>4 DEF BigEnough
  <2> QED
    BY <1>2, <2>1, <2>2, StepLendsOrSettles
<1>3. IInv /\ BigEnough /\ [Next]_vars => BigEnough'
  BY <1>2
<1> QED
  BY Invariance, <1>1, <1>3, PTL DEF Spec

PeakInv == peak \in [Devices -> Nat] /\ \A d \in Devices : Cardinality(Given(d)) <= peak[d]

\* The blocks got from a device are never more than were held at one time: an allocation either
\* reuses or replaces a kept block, or finds that all there are are held.
THEOREM NeverMoreThanPeak ==
  ASSUME IsFiniteSet(Blocks)
  PROVE  Spec => []NoMoreThanPeak
<1>1. Init => PeakInv
  <2>1. ASSUME Init, NEW d \in Devices PROVE Cardinality(Given(d)) <= peak[d]
    <3>1. peak[d] = 0 /\ Given(d) = {}
      BY <2>1 DEF Init, Given
    <3> QED
      BY <3>1, FS_EmptySet
  <2>2. Init => peak \in [Devices -> Nat]
    BY DEF Init
  <2> QED
    BY <2>1, <2>2 DEF PeakInv
<1>2. ASSUME NEW S \in SUBSET Blocks PROVE IsFiniteSet(S) /\ Cardinality(S) \in Nat
  BY <1>2, FS_Subset, FS_CardinalityType
<1>3. ASSUME PeakInv, NEW d \in Devices
      PROVE  /\ peak[d] \in Nat /\ Cardinality(Given(d)) <= peak[d]
             /\ Given(d) \in SUBSET Blocks /\ Given(d)' \in SUBSET Blocks
             /\ IsFiniteSet(Given(d)) /\ Cardinality(Given(d)) \in Nat /\ Cardinality(Given(d)') \in Nat
  <2>1. /\ peak[d] \in Nat /\ Cardinality(Given(d)) <= peak[d]
        /\ Given(d) \in SUBSET Blocks /\ Given(d)' \in SUBSET Blocks
    BY <1>3 DEF PeakInv, Given
  <2> QED
    BY <1>2, <2>1
<1>4. ASSUME PeakInv, NEW d \in Devices, Given(d)' \subseteq Given(d), peak'[d] = peak[d]
      PROVE  Cardinality(Given(d)') <= peak'[d]
  <2>1. Cardinality(Given(d)') <= Cardinality(Given(d))
    BY <1>3, <1>4, FS_Subset
  <2> QED
    BY <1>3, <1>4, <2>1
<1>5. ASSUME PeakInv, Settle PROVE PeakInv'
  BY <1>4, <1>5 DEF Settle, PeakInv
<1>6. ASSUME PeakInv, NEW c \in Devices, NEW nbytes \in Requests, NEW x \in Blocks, Lend(c, nbytes, x)
      PROVE  PeakInv'
  <2> DEFINE h == Cardinality(Held(c))
             g == Cardinality(Given(c))
             top == Max({peak[c], h + 1})
  <2>1. h \in Nat /\ g \in Nat /\ peak[c] \in Nat /\ g <= peak[c]
    BY <1>2, <1>3, <1>6 DEF Held
  <2>2. top \in Nat /\ top >= peak[c] /\ top >= h + 1
    <3> DEFINE p == peak[c]
               m == h + 1
    <3>1. p \in Int /\ m \in Int /\ p \in Nat /\ m \in Nat
      BY <2>1
    <3> HIDE DEF p, m
    <3>2. Max({p, m}) = IF p >= m THEN p ELSE m
      BY <3>1, MaxOfTwo
    <3> QED
      BY <3>1, <3>2 DEF p, m
  <2>3. peak' = [peak EXCEPT ![c] = top] /\ peak \in [Devices -> Nat]
    BY <1>6 DEF Lend, PeakInv
  <2>4. Cardinality(Given(c)') <= top
    <3>1. ASSUME NEW y \in Given(c), Given(c)' = (Given(c) \ {y}) \cup {x}
          PROVE  Cardinality(Given(c)') <= top
      <4> DEFINE rest == Given(c) \ {y}
      <4>1. IsFiniteSet(rest) /\ Cardinality(rest) = g - 1
        BY <1>3, <1>6, <3>1, FS_RemoveElement
      <4>2. Cardinality(rest \cup {x}) = IF x \in rest THEN Cardinality(rest) ELSE Cardinality(rest) + 1
        BY <4>1, FS_AddElement
      <4> HIDE DEF g, top
      <4>3. Cardinality(rest \cup {x}) <= g
        BY <2>1, <4>1, <4>2
      <4>4. Cardinality(Given(c)') = Cardinality(rest \cup {x})
        BY <3>1
      <4>5. Cardinality(Given(c)') \in Nat
        BY <1>3, <1>6
      <4> QED
        BY <2>1, <2>2, <4>3, <4>4, <4>5
    <3>2. ASSUME Given(c) = Held(c), Given(c)' = Given(c) \cup {x}
          PROVE  Cardinality(Given(c)') <= top
      <4>1. Cardinality(Given(c)') = IF x \in Given(c) THEN g ELSE g + 1
        BY <1>3, <1>6, <3>2, FS_AddElement
      <4>2. g = h
        BY <3>2
      <4> HIDE DEF g, h, top
      <4> QED
        BY <2>1, <2>2, <4>1, <4>2
    <3> QED
      BY <1>6, <3>1, <3>2 DEF Lend
  <2> HIDE DEF top
  <2>5. ASSUME NEW d \in Devices PROVE Cardinality(Given(d)') <= peak'[d]
    <3>1. CASE d = c
      BY <2>3, <2>4, <3>1
    <3>2. CASE d # c
      <4>1. space'[d] = space[d]
        BY <1>6, <3>2 DEF Lend
      <4>2. Given(d)' = Given(d) /\ peak'[d] = peak[d]
        BY <2>3, <3>2, <4>1 DEF Given
      <4> QED
        BY <1>4, <1>6, <4>2
    <3> QED
      BY <3>1, <3>2
  <2>6. peak' \in [Devices -> Nat]
    BY <2>2, <2>3
  <2> QED
    BY <2>5, <2>6 DEF PeakInv, Given
<1>7. IInv /\ PeakInv /\ [Next]_vars => PeakInv'
  BY <1>5, <1>6, StepLendsOrSettles
<1>8. PeakInv => NoMoreThanPeak
  BY DEF PeakInv, NoMoreThanPeak, Given
<1> QED
  BY Invariance, <1>1, <1>7, <1>8, PTL DEF Spec
=============================================================================
