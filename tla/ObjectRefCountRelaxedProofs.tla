-------------------- MODULE ObjectRefCountRelaxedProofs ---------------------
(***************************************************************************)
(* Proofs about ObjectRefCountRelaxed, for any number of threads, handles  *)
(* and steps.  Three invariants, each inductive given those before it:     *)
(*   CountsInv: the two counts are the numbers of handles, and who of the  *)
(*              threads that give up the last ones is where;               *)
(*   UsesInv:   every use is known to an owner of a strong handle or left  *)
(*              with the strong count, until the destructor starts;        *)
(*   LooksInv:  every access is known to someone who has yet to decrement  *)
(*              the weak count, or left with it, where no load is stale.   *)
(***************************************************************************)
EXTENDS ObjectRefCountRelaxed, SequenceTheorems, FiniteSetTheorems, TLAPS

\* The steps of DecRef after the last strong handle: before the destructor, and up to the
\* decrement of the weak count that all strong handles share.
BeforeDestructor == {"loadWeak", "delBoth", "delStrong"}
Ending == BeforeDestructor \cup {"subWeak"}
Ends == \E t \in Thread : pc[t] \in Ending

StrongCounted == strong = Cardinality(Held("strong"))

\* A strong count of zero is final, and one thread at a time acts on it.
EndingOnce ==
    /\ \A t, u \in Thread : pc[t] \in Ending /\ pc[u] \in Ending => t = u
    /\ \A t \in Thread : pc[t] \in Ending => strong = 0
    /\ \A t \in Thread : pc[t] \in BeforeDestructor => ~ destroyed
    /\ destroyed => strong = 0
    /\ build = "msvc" => \A t \in Thread : pc[t] \notin {"loadWeak", "delBoth"}

\* Who changes the object in place has a handle, which is the only one if no weak handle was
\* ever made.
ChangesAlone ==
    /\ \A t \in Thread : pc[t] = "change" => \E h \in Handle : Owned(t, h, "strong")
    /\ Len(hist) = 1 => Held("weak") = {} /\ \A t \in Thread : pc[t] = "change" => strong = 1

\* The weak count is the number of weak handles, and one more that the strong handles share;
\* where no load is stale the shared one is given up before the memory is.
WeakCounted ==
    LET handles == Cardinality(Held("weak"))
    IN  /\ Weak \in {handles, handles + 1}
        /\ strong > 0 \/ Ends => Weak = handles + 1
        /\ build = "msvc" => /\ strong = 0 /\ ~ Ends => Weak = handles
                             /\ freed \/ (\E t \in Thread : pc[t] = "delMem") => Weak = 0

CountsInv ==
    /\ TypeOK /\ Len(hist) > 0
    /\ StrongCounted /\ EndingOnce /\ ChangesAlone /\ WeakCounted

\* A place knows of all accesses of a kind by a thread.
Knows(p, e) == e \in view[p].known

\* Until the destructor, every use is known where the last decrement looks.
UsesKept ==
    ~ destroyed => \A u \in Thread : \/ Knows("strong", <<"use", u>>)
                                     \/ \E h \in Held("strong") : Knows(owner[h], <<"use", u>>)

UsesInv == UsesKept /\ UsesHappenBeforeDestructor /\ ChangesInOrderAcquired

\* Every access is known to someone who has yet to decrement the weak count, or was left with it.
Keepers ==
    {"weak"} \cup {p \in {"strong"} : strong > 0}
    \cup {owner[h] : h \in {g \in Handle : ref[g] # "null"}}
    \cup {t \in Thread : pc[t] \in Ending}

LooksKept == \A e \in Event : \E p \in Keepers : Knows(p, e)

LooksInv == (build = "msvc" => LooksKept) /\ AllHappensBeforeFree
-----------------------------------------------------------------------------
(* What accesses, acquires and releases do to the views.                   *)

LEMMA Places == Thread \subseteq Place /\ "strong" \in Place /\ "weak" \in Place
BY DEF Place

LEMMA JoinOfViews ==
  ASSUME NEW v \in View, NEW w \in View
  PROVE  Join(v, w) \in View /\ Join(v, w).known = v.known \cup w.known
BY DEF Join, View

\* W are the views V after an access by t; after place p learnt what place q knows.
Accessed(V, W, t, kind) ==
    /\ W \in [Place -> View]
    /\ \A p \in Place : W[p].known = IF p = t THEN V[p].known \cup {<<kind, t>>}
                                    ELSE V[p].known \ {<<kind, t>>}

Learnt(V, W, p, q) ==
    /\ W \in [Place -> View]
    /\ \A x \in Place : W[x].known = IF x = p THEN V[p].known \cup V[q].known ELSE V[x].known

\* After an access its thread alone knows of it.
LEMMA AccessView ==
  ASSUME NEW V \in [Place -> View], NEW t \in Thread, NEW kind \in Kind
  PROVE  Accessed(V, Access(V, t, kind), t, kind)
<1>1. <<kind, t>> \in Event
  BY DEF Event
<1>2. ASSUME NEW v \in View, NEW k \in SUBSET Event
      PROVE  [v EXCEPT !.known = k] \in View /\ [v EXCEPT !.known = k].known = k
  BY DEF View
<1>3. ASSUME NEW p \in Place
      PROVE  /\ Access(V, t, kind)[p] \in View
             /\ Access(V, t, kind)[p].known =
                  IF p = t THEN V[p].known \cup {<<kind, t>>} ELSE V[p].known \ {<<kind, t>>}
  <2>1. V[p] \in View
    OBVIOUS
  <2>2. PICK k : k = IF p = t THEN V[p].known \cup {<<kind, t>>} ELSE V[p].known \ {<<kind, t>>}
    OBVIOUS
  <2>3. k \in SUBSET Event
    BY <1>1, <2>1, <2>2 DEF View
  <2>4. Access(V, t, kind)[p] = [V[p] EXCEPT !.known = k]
    BY <2>2 DEF Access
  <2> QED
    BY <1>2, <2>1, <2>2, <2>3, <2>4
<1>4. \A p \in Place : Access(V, t, kind)[p] \in View
  BY <1>3
<1>5. Access(V, t, kind) \in [Place -> View]
  BY <1>4 DEF Access
<1> QED
  BY <1>3, <1>5 DEF Accessed

\* Acquiring and releasing add what one place knows to another.
LEMMA AcquireView ==
  ASSUME NEW V \in [Place -> View], NEW t \in Place, NEW place \in Place
  PROVE  Learnt(V, Acquire(V, t, place), t, place)
BY JoinOfViews DEF Acquire, Learnt

LEMMA ReleaseView ==
  ASSUME NEW V \in [Place -> View], NEW t \in Place, NEW place \in Place
  PROVE  Learnt(V, Release(V, t, place), place, t)
BY JoinOfViews DEF Release, Learnt

\* A write of the weak count is an access to the counts.
LEMMA WeakWriteView ==
  ASSUME view \in [Place -> View], Len(hist) \in Nat, NEW t \in Thread
  PROVE  Accessed(view, AfterWeakWrite(t), t, "header")
<1> DEFINE V == Access(view, t, "header")
<1>1. Accessed(view, V, t, "header")
  BY AccessView DEF Kind
<1>2. AfterWeakWrite(t) = [V EXCEPT ![t].pos = Len(hist) + 1]
  BY DEF AfterWeakWrite
<1>3. t \in Place
  BY Places
<1> HIDE DEF V
<1>4. V[t] \in View
  BY <1>1, <1>3 DEF Accessed
<1>5. [V[t] EXCEPT !.pos = Len(hist) + 1] \in View /\ [V[t] EXCEPT !.pos = Len(hist) + 1].known = V[t].known
  BY <1>4 DEF View
<1>6. AfterWeakWrite(t) = [V EXCEPT ![t] = [V[t] EXCEPT !.pos = Len(hist) + 1]]
  BY <1>2
<1> QED
  BY <1>1, <1>3, <1>5, <1>6 DEF Accessed

\* All that was known before an access of t is known after it, but for the access itself, of
\* which t knows.
Keeps(V, W, t, kind) ==
    /\ W \in [Place -> View]
    /\ <<kind, t>> \in W[t].known
    /\ \A p \in Place : V[p].known \ {<<kind, t>>} \subseteq W[p].known

Accesses(t, kind) == Keeps(view, view', t, kind)

\* Nothing is lost.
Learns ==
    /\ view' \in [Place -> View]
    /\ \A p \in Place : view[p].known \subseteq view'[p].known

LEMMA AccessKeeps ==
  ASSUME NEW V, NEW W, NEW t \in Thread, NEW kind, Accessed(V, W, t, kind)
  PROVE  Keeps(V, W, t, kind)
<1>1. t \in Place
  BY Places
<1> QED
  BY <1>1 DEF Accessed, Keeps

LEMMA LearningKeeps ==
  ASSUME NEW V, NEW W, NEW X, NEW t \in Thread, NEW kind, NEW p \in Place, NEW q,
         Keeps(V, W, t, kind), Learnt(W, X, p, q)
  PROVE  Keeps(V, X, t, kind)
<1>1. \A x \in Place : W[x].known \subseteq X[x].known
  BY DEF Learnt
<1>2. t \in Place
  BY Places
<1>3. X \in [Place -> View]
  BY DEF Learnt
<1> QED
  BY <1>1, <1>2, <1>3 DEF Keeps

LEMMA LearntKnows ==
  ASSUME NEW V, NEW W, NEW p \in Place, NEW q \in Place, Learnt(V, W, p, q)
  PROVE  /\ W \in [Place -> View]
         /\ V[p].known \subseteq W[p].known /\ V[q].known \subseteq W[p].known
         /\ V[q].known \subseteq W[q].known
         /\ W[q].known \subseteq W[p].known
BY DEF Learnt

LEMMA PlainAccesses ==
  ASSUME TypeOK, NEW t \in Thread
  PROVE  /\ \A h \in Handle : Use(t, h) => Accesses(t, "use")
         /\ ChangeInPlace(t) \/ Destruct(t) => Accesses(t, "use")
         /\ \A s, d \in Handle : IncRef(t, s, d) => Accesses(t, "header")
<1>1. view \in [Place -> View] /\ t \in Place
  BY Places DEF TypeOK
<1>2. ASSUME NEW kind \in Kind, view' = Access(view, t, kind) PROVE Accesses(t, kind)
  <2>1. Accessed(view, view', t, kind)
    BY <1>1, <1>2, AccessView
  <2> QED
    BY <2>1, AccessKeeps DEF Accesses
<1> QED
  BY <1>2 DEF Use, ChangeInPlace, Destruct, IncRef, Kind

LEMMA UniqueAccesses ==
  ASSUME TypeOK, NEW t \in Thread, NEW s \in Handle, Unique(t, s)
  PROVE  /\ Accesses(t, "header")
         /\ build = "msvc" => view["strong"].known \ {<<"header", t>>} \subseteq view'[t].known
<1>1. view \in [Place -> View] /\ t \in Place /\ "strong" \in Place /\ "header" \in Kind
  BY Places DEF TypeOK, Kind
<1>2. PICK V : V = Access(view, t, "header")
  OBVIOUS
<1>3. Accessed(view, V, t, "header")
  BY <1>1, <1>2, AccessView
<1>4. V \in [Place -> View] /\ Keeps(view, V, t, "header")
  BY <1>3, AccessKeeps DEF Accessed
<1>5. view' = IF build = "msvc" THEN Acquire(V, t, "strong") ELSE V
  BY <1>2 DEF Unique
<1>6. CASE build = "msvc"
  <2>1. Learnt(V, view', t, "strong")
    BY <1>1, <1>4, <1>5, <1>6, AcquireView
  <2>2. Accesses(t, "header")
    BY <1>1, <1>4, <2>1, LearningKeeps DEF Accesses
  <2>3. V["strong"].known \subseteq view'[t].known
    BY <1>1, <2>1, LearntKnows
  <2> QED
    BY <1>1, <1>4, <2>2, <2>3 DEF Keeps
<1>7. CASE build # "msvc"
  BY <1>4, <1>5, <1>7 DEF Accesses
<1> QED
  BY <1>6, <1>7

LEMMA LockAccesses ==
  ASSUME TypeOK, NEW t \in Thread, NEW w \in Handle, NEW d \in Handle, Lock(t, w, d)
  PROVE  Accesses(t, "header")
<1>1. view \in [Place -> View] /\ t \in Place /\ "strong" \in Place /\ "header" \in Kind
  BY Places DEF TypeOK, Kind
<1>2. PICK V : V = Access(view, t, "header")
  OBVIOUS
<1>3. Accessed(view, V, t, "header")
  BY <1>1, <1>2, AccessView
<1>4. V \in [Place -> View] /\ Keeps(view, V, t, "header")
  BY <1>3, AccessKeeps DEF Accessed
<1>5. PICK W : W = Acquire(V, t, "strong")
  OBVIOUS
<1>6. Learnt(V, W, t, "strong")
  BY <1>1, <1>4, <1>5, AcquireView
<1>7. W \in [Place -> View] /\ Keeps(view, W, t, "header")
  BY <1>1, <1>4, <1>6, LearningKeeps, LearntKnows
<1>8. view' = Release(W, t, "strong")
  BY <1>2, <1>5 DEF Lock
<1>9. Learnt(W, view', "strong", t)
  BY <1>1, <1>7, <1>8, ReleaseView
<1> QED
  BY <1>1, <1>7, <1>9, LearningKeeps DEF Accesses

\* A decrement of the strong count leaves what its thread knows, and learns what others left
\* where it is a full barrier.
LEMMA DecRefAccesses ==
  ASSUME TypeOK, NEW t \in Thread, NEW h \in Handle, DecRef(t, h)
  PROVE  /\ Accesses(t, "header")
         /\ view'[t].known \subseteq view'["strong"].known
         /\ build = "msvc" => view["strong"].known \ {<<"header", t>>} \subseteq view'[t].known
<1>1. view \in [Place -> View] /\ t \in Place /\ "strong" \in Place /\ "header" \in Kind
  BY Places DEF TypeOK, Kind
<1>2. PICK V : V = Access(view, t, "header")
  OBVIOUS
<1>3. Accessed(view, V, t, "header")
  BY <1>1, <1>2, AccessView
<1>4. V \in [Place -> View] /\ Keeps(view, V, t, "header")
  BY <1>3, AccessKeeps DEF Accessed
<1>5. PICK W : W = IF build = "msvc" THEN Acquire(V, t, "strong") ELSE V
  OBVIOUS
<1>6. /\ W \in [Place -> View] /\ Keeps(view, W, t, "header")
      /\ build = "msvc" => view["strong"].known \ {<<"header", t>>} \subseteq W[t].known
  <2>1. CASE build = "msvc"
    <3>1. Learnt(V, W, t, "strong")
      BY <1>1, <1>4, <1>5, <2>1, AcquireView
    <3>2. W \in [Place -> View] /\ Keeps(view, W, t, "header")
      BY <1>1, <1>4, <3>1, LearningKeeps, LearntKnows
    <3>3. V["strong"].known \subseteq W[t].known
      BY <1>1, <3>1, LearntKnows
    <3> QED
      BY <1>1, <1>4, <3>2, <3>3 DEF Keeps
  <2>2. CASE build # "msvc"
    BY <1>4, <1>5, <2>2
  <2> QED
    BY <2>1, <2>2
<1>7. view' = Release(W, t, "strong")
  BY <1>2, <1>5 DEF DecRef
<1>8. Learnt(W, view', "strong", t)
  BY <1>1, <1>6, <1>7, ReleaseView
<1>9. Accesses(t, "header")
  BY <1>1, <1>6, <1>8, LearningKeeps DEF Accesses
<1>10. W[t].known \subseteq view'[t].known /\ view'[t].known \subseteq view'["strong"].known
  BY <1>1, <1>8, LearntKnows
<1> QED
  BY <1>6, <1>9, <1>10

LEMMA IncWeakRefAccesses ==
  ASSUME TypeOK, NEW t \in Thread, NEW s \in Handle, NEW d \in Handle, IncWeakRef(t, s, d)
  PROVE  Accesses(t, "header")
<1>1. view \in [Place -> View] /\ Len(hist) \in Nat
  BY DEF TypeOK
<1> QED
  BY <1>1, WeakWriteView, AccessKeeps DEF IncWeakRef, Accesses

\* A decrement of the weak count leaves what its thread knows, and the last one learns what
\* all others left.
LEMMA WeakDecrementAccesses ==
  ASSUME TypeOK, NEW t \in Thread, WeakDecrement(t)
  PROVE  /\ Accesses(t, "header")
         /\ view'[t].known \subseteq view'["weak"].known
         /\ Weak = 1 => view'["weak"].known \subseteq view'[t].known
<1>1. view \in [Place -> View] /\ t \in Place /\ "weak" \in Place /\ Len(hist) \in Nat
  BY Places DEF TypeOK
<1>2. PICK V : V = AfterWeakWrite(t)
  OBVIOUS
<1>3. Accessed(view, V, t, "header")
  BY <1>1, <1>2, WeakWriteView
<1>4. V \in [Place -> View] /\ Keeps(view, V, t, "header")
  BY <1>3, AccessKeeps DEF Accessed
<1>5. PICK W : W = Release(V, t, "weak")
  OBVIOUS
<1>6. Learnt(V, W, "weak", t)
  BY <1>1, <1>4, <1>5, ReleaseView
<1>7. W \in [Place -> View] /\ Keeps(view, W, t, "header") /\ W[t].known \subseteq W["weak"].known
  BY <1>1, <1>4, <1>6, LearningKeeps, LearntKnows
<1>8. view' = IF Weak = 1 THEN Acquire(W, t, "weak") ELSE W
  BY <1>2, <1>5 DEF WeakDecrement
<1>9. CASE Weak = 1
  <2>1. Learnt(W, view', t, "weak")
    BY <1>1, <1>7, <1>8, <1>9, AcquireView
  <2>2. Accesses(t, "header")
    BY <1>1, <1>7, <2>1, LearningKeeps DEF Accesses
  <2>3. view'[t].known \subseteq view'["weak"].known
    BY <1>1, <1>7, <2>1 DEF Learnt
  <2>4. view'["weak"].known \subseteq view'[t].known
    BY <1>1, <2>1, LearntKnows
  <2> QED
    BY <2>2, <2>3, <2>4
<1>10. CASE Weak # 1
  BY <1>7, <1>8, <1>10 DEF Accesses
<1> QED
  BY <1>9, <1>10

\* Whoever is handed a handle learns what the other knows; the load of the weak count learns
\* what was left with the strong one.
LEMMA HandOverLearns ==
  ASSUME TypeOK, NEW t \in Thread, NEW u \in Thread, NEW h \in Handle, HandOver(t, u, h)
  PROVE  Learns /\ view[t].known \subseteq view'[u].known
<1>1. view \in [Place -> View] /\ t \in Place /\ u \in Place
  BY Places DEF TypeOK
<1>2. Learnt(view, view', u, t)
  BY <1>1, ReleaseView DEF HandOver
<1> QED
  BY <1>1, <1>2 DEF Learnt, Learns

LEMMA LoadWeakLearns ==
  ASSUME TypeOK, NEW t \in Thread, LoadWeak(t)
  PROVE  Learns /\ view["strong"].known \subseteq view'[t].known
<1>1. view \in [Place -> View] /\ t \in Place /\ "strong" \in Place /\ "weak" \in Place
  BY Places DEF TypeOK
<1>2. PICK V : V = Acquire(view, t, "strong")
  OBVIOUS
<1>3. Learnt(view, V, t, "strong")
  BY <1>1, <1>2, AcquireView
<1>4. /\ V \in [Place -> View] /\ view["strong"].known \subseteq V[t].known
      /\ \A p \in Place : view[p].known \subseteq V[p].known
  BY <1>1, <1>3 DEF Learnt
<1>5. view' = V \/ view' = Acquire(V, t, "weak")
  BY <1>2 DEF LoadWeak
<1>6. CASE view' = Acquire(V, t, "weak")
  <2>1. Learnt(V, view', t, "weak")
    BY <1>1, <1>4, <1>6, AcquireView
  <2>2. view' \in [Place -> View] /\ \A p \in Place : V[p].known \subseteq view'[p].known
    BY <2>1 DEF Learnt
  <2> QED
    BY <1>1, <1>4, <2>2 DEF Learns
<1>7. CASE view' = V
  BY <1>1, <1>4, <1>7 DEF Learns
<1> QED
  BY <1>5, <1>6, <1>7
-----------------------------------------------------------------------------
(* Counting handles.                                                       *)

\* The handles of a kind are finitely many.
LEMMA HeldIsFinite ==
  ASSUME NEW kind
  PROVE  IsFiniteSet(Held(kind)) /\ Cardinality(Held(kind)) \in Nat
<1>1. Held(kind) \subseteq Handle
  BY DEF Held
<1>2. IsFiniteSet(Held(kind))
  BY <1>1, HandleAssumption, FS_Subset
<1> QED
  BY <1>2, FS_CardinalityType

\* A kind that some handle has is counted at least once, and just once if no other has it.
LEMMA HeldCounts ==
  ASSUME NEW kind, NEW h \in Held(kind)
  PROVE  /\ Cardinality(Held(kind)) > 0
         /\ Cardinality(Held(kind)) = 1 => Held(kind) = {h}
<1>1. IsFiniteSet(Held(kind)) /\ Cardinality(Held(kind)) \in Nat
  BY HeldIsFinite
<1>2. Cardinality(Held(kind)) # 0
  BY <1>1, FS_EmptySet
<1>3. Cardinality(Held(kind)) = 1 => \E x : Held(kind) = {x}
  BY <1>1, FS_Singleton
<1> QED
  BY <1>1, <1>2, <1>3

\* A handle that held nothing comes to hold something.
LEMMA HandleGained ==
  ASSUME ref \in [Handle -> {"null", "strong", "weak"}], NEW kind \in {"strong", "weak"},
         NEW d \in Handle, ref[d] = "null", ref' = [ref EXCEPT ![d] = kind]
  PROVE  /\ ref' \in [Handle -> {"null", "strong", "weak"}]
         /\ Held(kind)' = Held(kind) \cup {d}
         /\ Cardinality(Held(kind)') = Cardinality(Held(kind)) + 1
         /\ \A other \in {"strong", "weak"} \ {kind} : Held(other)' = Held(other)
<1>1. Held(kind)' = Held(kind) \cup {d} /\ d \notin Held(kind)
  BY DEF Held
<1>2. IsFiniteSet(Held(kind))
  BY HeldIsFinite
<1>3. Cardinality(Held(kind) \cup {d}) = Cardinality(Held(kind)) + 1
  BY <1>1, <1>2, FS_AddElement
<1>4. \A other \in {"strong", "weak"} \ {kind} : Held(other)' = Held(other)
  BY DEF Held
<1> QED
  BY <1>1, <1>3, <1>4

\* A handle is given up.
LEMMA HandleLost ==
  ASSUME ref \in [Handle -> {"null", "strong", "weak"}], NEW kind \in {"strong", "weak"},
         NEW h \in Handle, ref[h] = kind, ref' = [ref EXCEPT ![h] = "null"]
  PROVE  /\ ref' \in [Handle -> {"null", "strong", "weak"}]
         /\ Held(kind)' = Held(kind) \ {h}
         /\ Cardinality(Held(kind)') = Cardinality(Held(kind)) - 1
         /\ \A other \in {"strong", "weak"} \ {kind} : Held(other)' = Held(other)
<1>1. Held(kind)' = Held(kind) \ {h} /\ h \in Held(kind)
  BY DEF Held
<1>2. IsFiniteSet(Held(kind))
  BY HeldIsFinite
<1>3. Cardinality(Held(kind) \ {h}) = Cardinality(Held(kind)) - 1
  BY <1>1, <1>2, FS_RemoveElement
<1>4. \A other \in {"strong", "weak"} \ {kind} : Held(other)' = Held(other)
  BY DEF Held
<1> QED
  BY <1>1, <1>3, <1>4

\* The weak count is the last value of its history.
LEMMA WeakIsLast ==
  ASSUME hist \in Seq(Nat), Len(hist) > 0
  PROVE  /\ Weak \in Nat
         /\ hist' = hist => Weak' = Weak
         /\ \A n \in Nat : hist' = Append(hist, n) =>
              hist' \in Seq(Nat) /\ Len(hist') = Len(hist) + 1 /\ Weak' = n
<1>1. Weak = hist[Len(hist)] /\ Weak' = hist'[Len(hist')]
  BY DEF Weak, Last
<1>2. Len(hist) \in 1 .. Len(hist)
  OBVIOUS
<1>3. Weak \in Nat
  BY <1>1, <1>2
<1>4. ASSUME NEW n \in Nat, hist' = Append(hist, n)
      PROVE  hist' \in Seq(Nat) /\ Len(hist') = Len(hist) + 1 /\ Weak' = n
  <2>1. hist' \in Seq(Nat) /\ Len(hist') = Len(hist) + 1 /\ hist'[Len(hist) + 1] = n
    BY <1>4
  <2> QED
    BY <1>1, <2>1
<1> QED
  BY <1>1, <1>3, <1>4

-----------------------------------------------------------------------------
(* The counts.                                                             *)

Labels == {"idle", "change", "loadWeak", "delBoth", "delStrong", "subWeak", "delMem"}

\* What CountsInv says, for the proofs of the steps.
LEMMA CountsFacts ==
  ASSUME CountsInv
  PROVE  /\ ref \in [Handle -> {"null", "strong", "weak"}] /\ owner \in [Handle -> Thread]
         /\ build \in Builds /\ strong \in Nat /\ hist \in Seq(Nat) /\ view \in [Place -> View]
         /\ destroyed \in BOOLEAN /\ freed \in BOOLEAN /\ pc \in [Thread -> Labels]
         /\ Len(hist) \in Nat /\ Len(hist) > 0 /\ Weak \in Nat
         /\ strong = Cardinality(Held("strong"))
         /\ Cardinality(Held("weak")) \in Nat
BY HeldIsFinite, WeakIsLast DEF CountsInv, TypeOK, StrongCounted, Labels

\* Who idles with a strong handle is not one that changes the object in place, and without
\* weak handles there is none of those.
LEMMA IdleOwner ==
  ASSUME CountsInv, NEW t \in Thread, Idle(t), NEW h \in Handle, Owned(t, h, "strong")
  PROVE  /\ strong > 0 /\ ~ destroyed /\ ~ Ends
         /\ Len(hist) = 1 => \A u \in Thread : pc[u] # "change"
<1>1. h \in Held("strong")
  BY DEF Held, Owned
<1>2. strong > 0
  BY <1>1, HeldCounts, CountsFacts
<1>3. ~ destroyed /\ ~ Ends
  BY <1>2 DEF CountsInv, EndingOnce, Ends
<1>4. ASSUME Len(hist) = 1, NEW u \in Thread, pc[u] = "change" PROVE FALSE
  <2>1. strong = 1
    BY <1>4 DEF CountsInv, ChangesAlone
  <2>2. PICK g \in Handle : Owned(u, g, "strong")
    BY <1>4 DEF CountsInv, ChangesAlone
  <2>3. g \in Held("strong")
    BY <2>2 DEF Held, Owned
  <2>4. g = h
    BY <1>1, <2>1, <2>3, HeldCounts, CountsFacts
  <2> QED
    BY <1>4, <2>2, <2>4 DEF Owned, Idle
<1> QED
  BY <1>2, <1>3, <1>4

\* Where the shared weak count or a weak handle is left, and no load is stale, the memory is there.
LEMMA MemoryThere ==
  ASSUME CountsInv, build = "msvc", Weak > 0
  PROVE  ~ freed /\ \A t \in Thread : pc[t] # "delMem"
BY CountsFacts DEF CountsInv, WeakCounted

\* At the start there is one strong handle.
LEMMA InitCounts == Init => CountsInv
<1> SUFFICES ASSUME Init PROVE CountsInv
  OBVIOUS
<1>1. PICK h \in Handle : ref = [g \in Handle |-> IF g = h THEN "strong" ELSE "null"]
  BY DEF Init
<1>2. Held("strong") = {h} /\ Held("weak") = {}
  BY <1>1 DEF Held
<1>3. strong = 1 /\ Cardinality(Held("strong")) = 1 /\ Cardinality(Held("weak")) = 0
  BY <1>2, FS_Singleton, FS_EmptySet DEF Init
<1>4. TypeOK
  <2>1. \A p \in Place : [pos |-> 1, known |-> IF p \in Thread THEN Event ELSE {}] \in View
    BY DEF View
  <2>2. view \in [Place -> View]
    BY <2>1 DEF Init
  <2>3. hist \in Seq(Nat)
    BY DEF Init
  <2> QED
    BY <1>1, <2>2, <2>3 DEF Init, TypeOK
<1>5. Len(hist) = 1 /\ Weak = 1
  BY DEF Init, Weak, Last
<1>6. ~ Ends /\ ~ destroyed /\ ~ freed /\ \A t \in Thread : pc[t] = "idle"
  BY DEF Init, Ends, Ending, BeforeDestructor
<1>7. EndingOnce
  BY <1>6 DEF EndingOnce, Ending, BeforeDestructor
<1>8. ChangesAlone
  BY <1>2, <1>6 DEF ChangesAlone
<1>9. WeakCounted
  BY <1>3, <1>5, <1>6 DEF WeakCounted
<1> QED
  BY <1>3, <1>4, <1>5, <1>7, <1>8, <1>9 DEF CountsInv, StrongCounted

\* Steps that count nothing and end nothing: the threads go between idling and changing, and
\* handles that no changing thread has may move.
LEMMA QuietCounts ==
  ASSUME CountsInv, UNCHANGED <<build, ref, strong, hist, destroyed, freed>>,
         owner' \in [Handle -> Thread], view' \in [Place -> View], pc' \in [Thread -> Labels],
         \A t \in Thread : pc'[t] = pc[t] \/ {pc[t], pc'[t]} \subseteq {"idle", "change"},
         \A t \in Thread : pc'[t] = "change" => \E h \in Handle : owner'[h] = t /\ ref[h] = "strong",
         Len(hist) = 1 => \A t \in Thread : pc'[t] = "change" => strong = 1
  PROVE  CountsInv'
<1>1. TypeOK' /\ Len(hist') > 0
  BY DEF CountsInv, TypeOK, Labels
<1>2. StrongCounted' /\ Held("weak")' = Held("weak") /\ Weak' = Weak
  BY DEF CountsInv, StrongCounted, Held, Weak, Last
<1>3. /\ Ends' <=> Ends
      /\ \A t \in Thread : pc'[t] \in Ending \cup {"delMem"} => pc'[t] = pc[t]
  BY DEF Ends, Ending, BeforeDestructor
<1>4. EndingOnce'
  BY <1>3 DEF CountsInv, EndingOnce, Ending, BeforeDestructor
<1>5. ChangesAlone'
  BY <1>2 DEF CountsInv, ChangesAlone, Owned
<1>6. WeakCounted'
  BY <1>2, <1>3 DEF CountsInv, WeakCounted
<1> QED
  BY <1>1, <1>2, <1>4, <1>5, <1>6 DEF CountsInv

LEMMA UseCounts ==
  ASSUME CountsInv, NEW t \in Thread, NEW s \in Handle, Use(t, s) \/ Unique(t, s)
  PROVE  CountsInv'
<1>1. view' \in [Place -> View]
  BY PlainAccesses, UniqueAccesses DEF CountsInv, Accesses, Keeps
<1>2. /\ Idle(t) /\ Owned(t, s, "strong")
      /\ UNCHANGED <<build, ref, owner, strong, hist, destroyed, freed>>
      /\ pc' = pc \/ (pc' = [pc EXCEPT ![t] = "change"] /\ strong = 1)
  BY DEF Use, Unique, Goto
<1>3. pc \in [Thread -> Labels] /\ owner \in [Handle -> Thread] /\ pc[t] = "idle" /\ "change" \in Labels
  BY <1>2, CountsFacts DEF Idle, Labels
<1>4. /\ pc' \in [Thread -> Labels]
      /\ \A u \in Thread : pc'[u] = pc[u] \/ (u = t /\ pc'[t] = "change" /\ strong = 1)
  BY <1>2, <1>3
<1>5. \A u \in Thread : pc'[u] = pc[u] \/ {pc[u], pc'[u]} \subseteq {"idle", "change"}
  BY <1>3, <1>4
<1>6. \A u \in Thread : pc'[u] = "change" => \E h \in Handle : owner'[h] = u /\ ref[h] = "strong"
  BY <1>2, <1>4 DEF CountsInv, ChangesAlone, Owned
<1>7. Len(hist) = 1 => \A u \in Thread : pc'[u] = "change" => strong = 1
  BY <1>4 DEF CountsInv, ChangesAlone
<1>8. owner' \in [Handle -> Thread]
  BY <1>2, <1>3
<1> QED
  BY <1>1, <1>2, <1>4, <1>5, <1>6, <1>7, <1>8, QuietCounts

LEMMA ChangeInPlaceCounts ==
  ASSUME CountsInv, NEW t \in Thread, ChangeInPlace(t)
  PROVE  CountsInv'
<1>1. view' \in [Place -> View]
  BY PlainAccesses DEF CountsInv, Accesses, Keeps
<1>2. /\ UNCHANGED <<build, ref, owner, strong, hist, destroyed, freed>>
      /\ pc[t] = "change" /\ pc' = [pc EXCEPT ![t] = "idle"]
  BY DEF ChangeInPlace, Goto
<1>3. pc \in [Thread -> Labels] /\ owner \in [Handle -> Thread] /\ "idle" \in Labels
  BY CountsFacts DEF Labels
<1>4. /\ pc' \in [Thread -> Labels]
      /\ \A u \in Thread : pc'[u] = pc[u] \/ {pc[u], pc'[u]} \subseteq {"idle", "change"}
      /\ \A u \in Thread : pc'[u] = "change" => pc[u] = "change"
  BY <1>2, <1>3
<1>5. \A u \in Thread : pc'[u] = "change" => \E h \in Handle : owner'[h] = u /\ ref[h] = "strong"
  BY <1>2, <1>4 DEF CountsInv, ChangesAlone, Owned
<1>6. Len(hist) = 1 => \A u \in Thread : pc'[u] = "change" => strong = 1
  BY <1>4 DEF CountsInv, ChangesAlone
<1>7. owner' \in [Handle -> Thread]
  BY <1>2, <1>3
<1> QED
  BY <1>1, <1>2, <1>4, <1>5, <1>6, <1>7, QuietCounts

LEMMA HandOverCounts ==
  ASSUME CountsInv, NEW t \in Thread, NEW u \in Thread, NEW h \in Handle, HandOver(t, u, h)
  PROVE  CountsInv'
<1>1. view' \in [Place -> View]
  BY HandOverLearns DEF CountsInv, Learns
<1>2. /\ UNCHANGED <<build, ref, strong, hist, destroyed, freed, pc>>
      /\ pc[t] = "idle" /\ owner[h] = t /\ owner' = [owner EXCEPT ![h] = u]
  BY DEF HandOver, Idle
<1>3. pc \in [Thread -> Labels] /\ owner \in [Handle -> Thread]
  BY CountsFacts
<1>4. pc' \in [Thread -> Labels] /\ owner' \in [Handle -> Thread]
  BY <1>2, <1>3
<1>5. ASSUME NEW x \in Thread, pc'[x] = "change"
      PROVE  \E g \in Handle : owner'[g] = x /\ ref[g] = "strong"
  <2>1. PICK g \in Handle : owner[g] = x /\ ref[g] = "strong"
    BY <1>2, <1>5 DEF CountsInv, ChangesAlone, Owned
  <2>2. g # h
    BY <1>2, <1>5, <2>1
  <2> QED
    BY <1>2, <1>3, <2>1, <2>2
<1>6. Len(hist) = 1 => \A x \in Thread : pc'[x] = "change" => strong = 1
  BY <1>2 DEF CountsInv, ChangesAlone
<1> QED
  BY <1>1, <1>2, <1>4, <1>5, <1>6, QuietCounts

\* A strong handle is made from one, or from a weak one as long as there is one.
LEMMA StrongMadeCounts ==
  ASSUME CountsInv, NEW t \in Thread, NEW s \in Handle, NEW d \in Handle,
         IncRef(t, s, d) \/ Lock(t, s, d)
  PROVE  CountsInv'
<1>1. view' \in [Place -> View]
  BY PlainAccesses, LockAccesses DEF CountsInv, Accesses, Keeps
<1>2. /\ Idle(t) /\ ref[d] = "null" /\ ref' = [ref EXCEPT ![d] = "strong"]
      /\ strong' = strong + 1
      /\ UNCHANGED <<build, owner, hist, destroyed, freed, pc>>
      /\ Owned(t, s, "strong") \/ (Owned(t, s, "weak") /\ strong > 0)
  BY DEF IncRef, Lock, Owned
<1>3. /\ strong > 0 /\ ~ destroyed /\ ~ Ends
      /\ Len(hist) = 1 => \A u \in Thread : pc[u] # "change"
  <2>1. CASE Owned(t, s, "strong")
    BY <1>2, <2>1, IdleOwner
  <2>2. CASE Owned(t, s, "weak") /\ strong > 0
    BY <2>2 DEF CountsInv, EndingOnce, Ends, ChangesAlone, Held, Owned
  <2> QED
    BY <1>2, <2>1, <2>2
<1>4. /\ ref' \in [Handle -> {"null", "strong", "weak"}]
      /\ Held("strong")' = Held("strong") \cup {d}
      /\ Cardinality(Held("strong")') = Cardinality(Held("strong")) + 1
      /\ Held("weak")' = Held("weak")
  BY <1>2, CountsFacts, HandleGained
<1>5. StrongCounted' /\ strong' \in Nat /\ strong' > 0
  BY <1>2, <1>4, CountsFacts DEF StrongCounted
<1>6. TypeOK' /\ Len(hist') > 0
  BY <1>1, <1>2, <1>4, <1>5 DEF CountsInv, TypeOK
<1>7. ~ Ends' /\ \A u \in Thread : pc'[u] \notin Ending
  BY <1>2, <1>3 DEF Ends
<1>8. EndingOnce'
  BY <1>2, <1>3, <1>7 DEF CountsInv, EndingOnce, Ending, BeforeDestructor
<1>9. ChangesAlone'
  <2>1. ASSUME NEW u \in Thread, pc'[u] = "change" PROVE \E h \in Handle : Owned(u, h, "strong")'
    <3>1. PICK h \in Handle : Owned(u, h, "strong")
      BY <1>2, <2>1 DEF CountsInv, ChangesAlone
    <3> QED
      BY <1>2, <1>4, <3>1, CountsFacts DEF Owned
  <2> QED
    BY <1>2, <1>3, <1>4, <2>1 DEF CountsInv, ChangesAlone
<1>10. WeakCounted'
  <2>1. Weak' = Weak
    BY <1>2 DEF Weak, Last
  <2> QED
    BY <1>2, <1>3, <1>4, <1>5, <1>7, <2>1, CountsFacts DEF CountsInv, WeakCounted
<1> QED
  BY <1>5, <1>6, <1>8, <1>9, <1>10 DEF CountsInv

LEMMA IncWeakRefCounts ==
  ASSUME CountsInv, NEW t \in Thread, NEW s \in Handle, NEW d \in Handle, IncWeakRef(t, s, d)
  PROVE  CountsInv'
<1>1. view' \in [Place -> View]
  BY IncWeakRefAccesses DEF CountsInv, Accesses, Keeps
<1>2. /\ ref[s] # "null" /\ ref[d] = "null" /\ ref' = [ref EXCEPT ![d] = "weak"]
      /\ hist' = Append(hist, Weak + 1)
      /\ UNCHANGED <<build, owner, strong, destroyed, freed, pc>>
  BY DEF IncWeakRef, Owned
<1>3. /\ ref' \in [Handle -> {"null", "strong", "weak"}]
      /\ Cardinality(Held("weak")') = Cardinality(Held("weak")) + 1
      /\ Held("strong")' = Held("strong")
  BY <1>2, CountsFacts, HandleGained
<1>4. hist' \in Seq(Nat) /\ Len(hist') = Len(hist) + 1 /\ Weak' = Weak + 1
  BY <1>2, CountsFacts, WeakIsLast
<1>5. Weak > 0
  <2>1. ref[s] \in {"strong", "weak"}
    BY <1>2, CountsFacts
  <2>2. CASE ref[s] = "strong"
    <3>1. s \in Held("strong")
      BY <2>2 DEF Held
    <3>2. strong > 0
      BY <3>1, HeldCounts, CountsFacts
    <3> QED
      BY <3>2, CountsFacts DEF CountsInv, WeakCounted
  <2>3. CASE ref[s] = "weak"
    <3>1. s \in Held("weak")
      BY <2>3 DEF Held
    <3>2. Cardinality(Held("weak")) > 0
      BY <3>1, HeldCounts
    <3> QED
      BY <3>2, CountsFacts DEF CountsInv, WeakCounted
  <2> QED
    BY <2>1, <2>2, <2>3
<1>6. TypeOK' /\ Len(hist') > 1
  BY <1>1, <1>2, <1>3, <1>4, CountsFacts DEF CountsInv, TypeOK
<1>7. StrongCounted'
  BY <1>2, <1>3 DEF CountsInv, StrongCounted
<1>8. EndingOnce'
  BY <1>2 DEF CountsInv, EndingOnce
<1>9. ChangesAlone'
  <2>1. ASSUME NEW u \in Thread, pc'[u] = "change" PROVE \E h \in Handle : Owned(u, h, "strong")'
    <3>1. PICK h \in Handle : Owned(u, h, "strong")
      BY <1>2, <2>1 DEF CountsInv, ChangesAlone
    <3> QED
      BY <1>2, <3>1, CountsFacts DEF Owned
  <2>2. ~ (Len(hist') = 1)
    BY <1>4, CountsFacts
  <2> QED
    BY <2>1, <2>2 DEF ChangesAlone, Owned
<1>10. WeakCounted'
  <2>1. Ends' <=> Ends
    BY <1>2 DEF Ends
  <2>2. build = "msvc" => ~ freed /\ \A u \in Thread : pc[u] # "delMem"
    BY <1>5, MemoryThere
  <2> QED
    BY <1>2, <1>3, <1>4, <2>1, <2>2, CountsFacts DEF CountsInv, WeakCounted
<1> QED
  BY <1>6, <1>7, <1>8, <1>9, <1>10 DEF CountsInv

\* Who changes the object in place does not lose its handle to a step of another thread.
LEMMA ChangingKeeps ==
  ASSUME CountsInv, NEW t \in Thread, NEW h \in Handle, owner[h] = t,
         ref' = [ref EXCEPT ![h] = "null"], owner' = owner,
         NEW u \in Thread, u # t, pc[u] = "change"
  PROVE  \E g \in Handle : owner'[g] = u /\ ref'[g] = "strong"
<1>1. PICK g \in Handle : owner[g] = u /\ ref[g] = "strong"
  BY DEF CountsInv, ChangesAlone, Owned
<1>2. g # h
  BY <1>1
<1> QED
  BY <1>1, <1>2, CountsFacts

LEMMA DecRefCounts ==
  ASSUME CountsInv, NEW t \in Thread, NEW h \in Handle, DecRef(t, h)
  PROVE  CountsInv'
<1>1. view' \in [Place -> View]
  BY DecRefAccesses DEF CountsInv, Accesses, Keeps
<1>2. /\ Idle(t) /\ Owned(t, h, "strong") /\ owner[h] = t /\ pc[t] = "idle"
      /\ ref[h] = "strong" /\ ref' = [ref EXCEPT ![h] = "null"] /\ strong' = strong - 1
      /\ UNCHANGED <<build, owner, hist, destroyed, freed>>
      /\ pc' = [pc EXCEPT ![t] = IF strong > 1 THEN "idle"
                                 ELSE IF build = "gcc" THEN "loadWeak" ELSE "delStrong"]
  BY DEF DecRef, Idle, Owned, Goto
<1>3. /\ strong > 0 /\ ~ destroyed /\ ~ Ends
      /\ Len(hist) = 1 => \A u \in Thread : pc[u] # "change"
  BY <1>2, IdleOwner
<1>4. /\ ref' \in [Handle -> {"null", "strong", "weak"}]
      /\ Cardinality(Held("strong")') = Cardinality(Held("strong")) - 1
      /\ Held("weak")' = Held("weak")
  BY <1>2, CountsFacts, HandleLost
<1>5. strong' \in Nat /\ StrongCounted'
  BY <1>2, <1>3, <1>4, CountsFacts DEF StrongCounted
<1>6. /\ pc' \in [Thread -> Labels]
      /\ \A u \in Thread : u # t => pc'[u] = pc[u]
      /\ pc'[t] = IF strong > 1 THEN "idle" ELSE IF build = "gcc" THEN "loadWeak" ELSE "delStrong"
  BY <1>2, CountsFacts DEF Labels
<1>7. TypeOK' /\ Len(hist') > 0
  BY <1>1, <1>2, <1>4, <1>5, <1>6 DEF CountsInv, TypeOK, Labels
<1>8. \A u \in Thread : pc[u] \notin Ending
  BY <1>3 DEF Ends
<1>9. pc'[t] \in Ending <=> strong = 1
  BY <1>3, <1>6, CountsFacts DEF Ending, BeforeDestructor
<1>10. \A u \in Thread : pc'[u] \in Ending => u = t /\ strong = 1
  BY <1>6, <1>8, <1>9
<1>11. EndingOnce'
  <2>1. \A u \in Thread : pc'[u] \in Ending => strong' = 0
    BY <1>2, <1>10
  <2>2. build' = "msvc" => \A u \in Thread : pc'[u] \notin {"loadWeak", "delBoth"}
    BY <1>2, <1>6, <1>8 DEF Ending, BeforeDestructor
  <2> QED
    BY <1>2, <1>3, <1>10, <2>1, <2>2 DEF EndingOnce
<1>12. ChangesAlone'
  <2>1. ASSUME NEW u \in Thread, pc'[u] = "change"
        PROVE  u # t /\ pc[u] = "change" /\ \E g \in Handle : owner'[g] = u /\ ref'[g] = "strong"
    <3>1. u # t /\ pc[u] = "change"
      BY <1>6, <2>1
    <3> QED
      BY <1>2, <3>1, ChangingKeeps
  <2>2. Len(hist') = 1 => Held("weak")' = {}
    BY <1>2, <1>4 DEF CountsInv, ChangesAlone
  <2> QED
    BY <1>2, <1>3, <2>1, <2>2 DEF ChangesAlone, Owned
<1>13. WeakCounted'
  <2>1. Weak' = Weak /\ Weak = Cardinality(Held("weak")) + 1
    BY <1>2, <1>3, CountsFacts DEF CountsInv, WeakCounted, Weak, Last
  <2>2. strong' = 0 => Ends'
    BY <1>2, <1>3, <1>9, CountsFacts DEF Ends
  <2>3. build = "msvc" => ~ freed /\ \A u \in Thread : pc[u] # "delMem"
    BY <2>1, CountsFacts, MemoryThere
  <2>4. build' = "msvc" => ~ freed' /\ \A u \in Thread : pc'[u] # "delMem"
    BY <1>2, <1>6, <2>3
  <2> QED
    BY <1>4, <2>1, <2>2, <2>4 DEF WeakCounted
<1> QED
  BY <1>5, <1>7, <1>11, <1>12, <1>13 DEF CountsInv

\* A thread that goes on with what it alone does, past a step that changes no count.
LEMMA EndingCounts ==
  ASSUME CountsInv, NEW t \in Thread, pc[t] \in BeforeDestructor, NEW label \in Ending \cup {"delMem"},
         pc' = [pc EXCEPT ![t] = label], view' \in [Place -> View], destroyed' \in BOOLEAN,
         UNCHANGED <<build, ref, owner, strong, hist, freed>>,
         label \in BeforeDestructor => destroyed' = destroyed,
         build = "msvc" => label \in {"delStrong", "subWeak"}
  PROVE  CountsInv'
<1>1. /\ pc' \in [Thread -> Labels] /\ pc'[t] = label
      /\ \A u \in Thread : u # t => pc'[u] = pc[u]
  BY CountsFacts DEF Labels, Ending, BeforeDestructor
<1>2. /\ strong = 0 /\ pc[t] \in Ending
      /\ \A u \in Thread : pc[u] \in Ending => u = t
      /\ ~ destroyed
  BY DEF CountsInv, EndingOnce, Ending
<1>3. \A u \in Thread : pc'[u] \in Ending => u = t
  BY <1>1, <1>2
<1>4. TypeOK' /\ Len(hist') > 0
  BY <1>1 DEF CountsInv, TypeOK, Labels
<1>5. StrongCounted' /\ Held("weak")' = Held("weak") /\ Weak' = Weak
  BY DEF CountsInv, StrongCounted, Held, Weak, Last
<1>6. EndingOnce'
  <2>1. \A u \in Thread : pc'[u] \in BeforeDestructor => ~ destroyed'
    BY <1>1, <1>2, <1>3 DEF Ending
  <2>2. build' = "msvc" => \A u \in Thread : pc'[u] \notin {"loadWeak", "delBoth"}
    BY <1>1, <1>2 DEF Ending, BeforeDestructor
  <2> QED
    BY <1>2, <1>3, <2>1, <2>2 DEF EndingOnce
<1>7. ChangesAlone'
  <2>1. \A u \in Thread : pc'[u] = "change" => pc[u] = "change"
    BY <1>1 DEF Ending, BeforeDestructor
  <2> QED
    BY <1>5, <2>1 DEF CountsInv, ChangesAlone, Owned
<1>8. WeakCounted'
  <2>1. Ends
    BY <1>2 DEF Ends
  <2>2. Weak = Cardinality(Held("weak")) + 1
    BY <2>1 DEF CountsInv, WeakCounted
  <2>3. build = "msvc" => ~ freed /\ \A u \in Thread : pc[u] # "delMem"
    BY <2>2, CountsFacts, MemoryThere
  <2>4. build' = "msvc" => ~ freed' /\ \A u \in Thread : pc'[u] # "delMem"
    BY <1>1, <2>3
  <2>5. build' = "msvc" => Ends'
    BY <1>1 DEF Ends, Ending, BeforeDestructor
  <2> QED
    BY <1>2, <1>5, <2>2, <2>4, <2>5 DEF WeakCounted
<1> QED
  BY <1>4, <1>5, <1>6, <1>7, <1>8 DEF CountsInv

LEMMA LoadWeakCounts ==
  ASSUME CountsInv, NEW t \in Thread, LoadWeak(t)
  PROVE  CountsInv'
<1>1. view' \in [Place -> View]
  BY LoadWeakLearns DEF CountsInv, Learns
<1>2. /\ pc[t] = "loadWeak"
      /\ UNCHANGED <<build, ref, owner, strong, hist, destroyed, freed>>
      /\ \E label \in {"delBoth", "delStrong"} : pc' = [pc EXCEPT ![t] = label]
  BY DEF LoadWeak, Goto
<1>3. PICK label \in {"delBoth", "delStrong"} : pc' = [pc EXCEPT ![t] = label]
  BY <1>2
<1>4. build # "msvc"
  BY <1>2 DEF CountsInv, EndingOnce
<1>5. pc[t] \in BeforeDestructor /\ label \in Ending \cup {"delMem"} /\ destroyed' \in BOOLEAN
  BY <1>2, CountsFacts DEF Ending, BeforeDestructor
<1> QED
  BY <1>1, <1>2, <1>3, <1>4, <1>5, EndingCounts

LEMMA DestructCounts ==
  ASSUME CountsInv, NEW t \in Thread, Destruct(t)
  PROVE  CountsInv'
<1>1. view' \in [Place -> View]
  BY PlainAccesses DEF CountsInv, Accesses, Keeps
<1>2. PICK label : label = IF pc[t] = "delBoth" THEN "delMem" ELSE "subWeak"
  OBVIOUS
<1>3. /\ pc[t] \in {"delBoth", "delStrong"} /\ pc' = [pc EXCEPT ![t] = label]
      /\ UNCHANGED <<build, ref, owner, strong, hist, freed>> /\ destroyed' \in BOOLEAN
  BY <1>2 DEF Destruct, Goto
<1>4. build = "msvc" => label \in {"delStrong", "subWeak"}
  BY <1>2, <1>3 DEF CountsInv, EndingOnce
<1>5. /\ pc[t] \in BeforeDestructor /\ label \in Ending \cup {"delMem"} /\ label \notin BeforeDestructor
  BY <1>2, <1>3 DEF Ending, BeforeDestructor
<1> QED
  BY <1>1, <1>3, <1>4, <1>5, EndingCounts

LEMMA SubWeakCounts ==
  ASSUME CountsInv, NEW t \in Thread, SubWeak(t)
  PROVE  CountsInv'
<1>1. view' \in [Place -> View]
  BY WeakDecrementAccesses DEF CountsInv, SubWeak, Accesses, Keeps
<1>2. /\ pc[t] = "subWeak" /\ hist' = Append(hist, Weak - 1)
      /\ pc' = [pc EXCEPT ![t] = IF Weak = 1 THEN "delMem" ELSE "idle"]
      /\ UNCHANGED <<build, ref, owner, strong, destroyed, freed>>
  BY DEF SubWeak, WeakDecrement, Goto
<1>3. /\ pc' \in [Thread -> Labels] /\ \A u \in Thread : u # t => pc'[u] = pc[u]
      /\ pc'[t] = IF Weak = 1 THEN "delMem" ELSE "idle"
  BY <1>2, CountsFacts DEF Labels
<1>4. /\ strong = 0 /\ pc[t] \in Ending /\ Ends
      /\ \A u \in Thread : pc[u] \in Ending => u = t
  BY <1>2 DEF CountsInv, EndingOnce, Ending, Ends
<1>5. \A u \in Thread : pc'[u] \notin Ending
  BY <1>3, <1>4 DEF Ending, BeforeDestructor
<1>6. Weak = Cardinality(Held("weak")) + 1
  BY <1>4 DEF CountsInv, WeakCounted
<1>7. hist' \in Seq(Nat) /\ Len(hist') = Len(hist) + 1 /\ Weak' = Cardinality(Held("weak"))
  <2>1. Weak - 1 \in Nat /\ Weak - 1 = Cardinality(Held("weak"))
    BY <1>6, CountsFacts
  <2> QED
    BY <1>2, <2>1, CountsFacts, WeakIsLast
<1>8. TypeOK' /\ Len(hist') > 0
  BY <1>1, <1>2, <1>3, <1>7, CountsFacts DEF CountsInv, TypeOK, Labels
<1>9. StrongCounted' /\ Held("weak")' = Held("weak")
  BY <1>2 DEF CountsInv, StrongCounted, Held
<1>10. EndingOnce'
  <2>1. \A u \in Thread : pc'[u] \notin BeforeDestructor /\ pc'[u] \notin {"loadWeak", "delBoth"}
    BY <1>5 DEF Ending, BeforeDestructor
  <2> QED
    BY <1>2, <1>4, <1>5, <2>1 DEF EndingOnce
<1>11. ChangesAlone'
  <2>1. \A u \in Thread : pc'[u] = "change" => pc[u] = "change"
    BY <1>3
  <2>2. ~ (Len(hist') = 1)
    BY <1>7, CountsFacts
  <2> QED
    BY <1>2, <2>1, <2>2 DEF CountsInv, ChangesAlone, Owned
<1>12. WeakCounted'
  <2>1. ~ Ends' /\ strong' = 0
    BY <1>2, <1>4, <1>5 DEF Ends
  <2>2. build = "msvc" => ~ freed /\ \A u \in Thread : pc[u] # "delMem"
    BY <1>6, CountsFacts, MemoryThere
  <2>3. build' = "msvc" => (freed' \/ (\E u \in Thread : pc'[u] = "delMem") => Weak' = 0)
    BY <1>2, <1>3, <1>6, <1>7, <2>2, CountsFacts
  <2> QED
    BY <1>7, <1>9, <2>1, <2>3 DEF WeakCounted
<1> QED
  BY <1>8, <1>9, <1>10, <1>11, <1>12 DEF CountsInv

LEMMA DecWeakRefCounts ==
  ASSUME CountsInv, NEW t \in Thread, NEW h \in Handle, DecWeakRef(t, h)
  PROVE  CountsInv'
<1>1. view' \in [Place -> View]
  BY WeakDecrementAccesses DEF CountsInv, DecWeakRef, Accesses, Keeps
<1>2. /\ pc[t] = "idle" /\ owner[h] = t /\ ref[h] = "weak" /\ ref' = [ref EXCEPT ![h] = "null"]
      /\ hist' = Append(hist, Weak - 1)
      /\ pc' = [pc EXCEPT ![t] = IF Weak = 1 THEN "delMem" ELSE "idle"]
      /\ UNCHANGED <<build, owner, strong, destroyed, freed>>
  BY DEF DecWeakRef, WeakDecrement, Goto, Idle, Owned
<1>3. /\ pc' \in [Thread -> Labels] /\ \A u \in Thread : u # t => pc'[u] = pc[u]
      /\ pc'[t] = IF Weak = 1 THEN "delMem" ELSE "idle"
  BY <1>2, CountsFacts DEF Labels
<1>4. /\ ref' \in [Handle -> {"null", "strong", "weak"}]
      /\ Cardinality(Held("weak")') = Cardinality(Held("weak")) - 1
      /\ Held("strong")' = Held("strong")
  BY <1>2, CountsFacts, HandleLost
<1>5. Cardinality(Held("weak")) > 0
  <2>1. h \in Held("weak")
    BY <1>2 DEF Held
  <2> QED
    BY <2>1, HeldCounts
<1>6. Weak > 0
  BY <1>5, CountsFacts DEF CountsInv, WeakCounted
<1>7. hist' \in Seq(Nat) /\ Len(hist') = Len(hist) + 1 /\ Weak' = Weak - 1
  <2>1. Weak - 1 \in Nat
    BY <1>6, CountsFacts
  <2> QED
    BY <1>2, <2>1, CountsFacts, WeakIsLast
<1>8. TypeOK' /\ Len(hist') > 0
  BY <1>1, <1>2, <1>3, <1>4, <1>7, CountsFacts DEF CountsInv, TypeOK, Labels
<1>9. StrongCounted'
  BY <1>2, <1>4 DEF CountsInv, StrongCounted
<1>10. /\ \A u \in Thread : pc'[u] \in Ending => pc'[u] = pc[u]
       /\ \A u \in Thread : pc[u] \in Ending => pc'[u] = pc[u]
  BY <1>2, <1>3 DEF Ending, BeforeDestructor
<1>11. EndingOnce'
  BY <1>2, <1>10 DEF CountsInv, EndingOnce, Ending, BeforeDestructor
<1>12. ChangesAlone'
  <2>1. ASSUME NEW u \in Thread, pc'[u] = "change"
        PROVE  \E g \in Handle : owner'[g] = u /\ ref'[g] = "strong"
    <3>1. u # t /\ pc[u] = "change"
      BY <1>3, <2>1
    <3> QED
      BY <1>2, <3>1, ChangingKeeps
  <2>2. ~ (Len(hist') = 1)
    BY <1>7, CountsFacts
  <2> QED
    BY <2>1, <2>2 DEF ChangesAlone, Owned
<1>13. WeakCounted'
  <2>1. Ends' <=> Ends
    BY <1>10 DEF Ends
  <2>2. build = "msvc" => ~ freed /\ \A u \in Thread : pc[u] # "delMem"
    BY <1>6, MemoryThere
  <2>3. build' = "msvc" => (freed' \/ (\E u \in Thread : pc'[u] = "delMem") => Weak' = 0)
    BY <1>2, <1>3, <1>7, <2>2, CountsFacts
  <2>4. /\ Weak \in {Cardinality(Held("weak")), Cardinality(Held("weak")) + 1}
        /\ strong > 0 \/ Ends => Weak = Cardinality(Held("weak")) + 1
        /\ build = "msvc" => (strong = 0 /\ ~ Ends => Weak = Cardinality(Held("weak")))
    BY DEF CountsInv, WeakCounted
  <2> QED
    BY <1>2, <1>4, <1>7, <2>1, <2>3, <2>4, CountsFacts DEF WeakCounted
<1> QED
  BY <1>8, <1>9, <1>11, <1>12, <1>13 DEF CountsInv

LEMMA FreeMemoryCounts ==
  ASSUME CountsInv, NEW t \in Thread, FreeMemory(t)
  PROVE  CountsInv'
<1>1. /\ pc[t] = "delMem" /\ freed' = TRUE /\ pc' = [pc EXCEPT ![t] = "idle"]
      /\ UNCHANGED <<build, ref, owner, strong, hist, view, destroyed>>
  BY DEF FreeMemory, Goto
<1>2. /\ pc' \in [Thread -> Labels] /\ \A u \in Thread : u # t => pc'[u] = pc[u]
      /\ pc'[t] = "idle"
  BY <1>1, CountsFacts DEF Labels
<1>3. TypeOK' /\ Len(hist') > 0
  BY <1>1, <1>2 DEF CountsInv, TypeOK, Labels
<1>4. StrongCounted' /\ Held("weak")' = Held("weak") /\ Weak' = Weak
  BY <1>1 DEF CountsInv, StrongCounted, Held, Weak, Last
<1>5. /\ \A u \in Thread : pc'[u] \in Ending \cup {"change"} => pc'[u] = pc[u]
      /\ \A u \in Thread : pc[u] \in Ending => pc'[u] = pc[u]
  BY <1>1, <1>2 DEF Ending, BeforeDestructor
<1>6. EndingOnce'
  BY <1>1, <1>5 DEF CountsInv, EndingOnce, Ending, BeforeDestructor
<1>7. ChangesAlone'
  BY <1>1, <1>4, <1>5 DEF CountsInv, ChangesAlone, Owned
<1>8. WeakCounted'
  <2>1. Ends' <=> Ends
    BY <1>5 DEF Ends
  <2>2. build = "msvc" => Weak = 0
    BY <1>1 DEF CountsInv, WeakCounted
  <2> QED
    BY <1>1, <1>4, <2>1, <2>2 DEF CountsInv, WeakCounted
<1> QED
  BY <1>3, <1>4, <1>6, <1>7, <1>8 DEF CountsInv

LEMMA NextCounts == CountsInv /\ [Next]_vars => CountsInv'
<1> SUFFICES ASSUME CountsInv, [Next]_vars PROVE CountsInv'
  OBVIOUS
<1>1. CASE UNCHANGED vars
  BY <1>1 DEF vars, CountsInv, TypeOK, StrongCounted, EndingOnce, ChangesAlone, WeakCounted, Held,
              Owned, Weak, Ends, Last
<1>2. ASSUME NEW t \in Thread, NEW h \in Handle,
             Use(t, h) \/ Unique(t, h) \/ DecRef(t, h) \/ DecWeakRef(t, h)
      PROVE  CountsInv'
  BY <1>2, UseCounts, DecRefCounts, DecWeakRefCounts
<1>3. ASSUME NEW t \in Thread, NEW s \in Handle, NEW d \in Handle,
             IncRef(t, s, d) \/ IncWeakRef(t, s, d) \/ Lock(t, s, d)
      PROVE  CountsInv'
  BY <1>3, StrongMadeCounts, IncWeakRefCounts
<1>4. ASSUME NEW t \in Thread, NEW u \in Thread, NEW h \in Handle, HandOver(t, u, h)
      PROVE  CountsInv'
  BY <1>4, HandOverCounts
<1>5. ASSUME NEW t \in Thread, ChangeInPlace(t) \/ LoadWeak(t) \/ Destruct(t) \/ SubWeak(t)
                                \/ FreeMemory(t)
      PROVE  CountsInv'
  BY <1>5, ChangeInPlaceCounts, LoadWeakCounts, DestructCounts, SubWeakCounts, FreeMemoryCounts
<1> QED
  BY <1>1, <1>2, <1>3, <1>4, <1>5 DEF Next

-----------------------------------------------------------------------------
(* The uses.                                                               *)

\* No place forgets a use.
UsesGrow ==
    \A p \in Place, u \in Thread : <<"use", u>> \in view[p].known => <<"use", u>> \in view'[p].known

AllUses(t) == {"use"} \X Thread \subseteq view[t].known

LEMMA HeaderForgetsNoUse ==
  ASSUME NEW t \in Thread, Accesses(t, "header") \/ Learns
  PROVE  UsesGrow
<1>1. \A u \in Thread : <<"use", u>> # <<"header", t>>
  OBVIOUS
<1> QED
  BY <1>1 DEF Accesses, Keeps, Learns, UsesGrow

LEMMA AllUsesGrow ==
  ASSUME UsesGrow, NEW t \in Thread, AllUses(t)
  PROVE  AllUses(t)'
<1>1. t \in Place
  BY Places
<1> QED
  BY <1>1 DEF UsesGrow, AllUses

\* Whoever comes to the destructor, or to a change in place, knows of all uses when it does.
LEMMA UsesStayKnown ==
  ASSUME UsesInv, UsesGrow, build' = build, Len(hist') = 1 => Len(hist) = 1,
         \A t \in Thread : pc'[t] \in {"delBoth", "delStrong"} => pc'[t] = pc[t] \/ AllUses(t)',
         build = "msvc" /\ Len(hist) = 1 =>
            \A t \in Thread : pc'[t] = "change" => pc'[t] = pc[t] \/ AllUses(t)'
  PROVE  UsesHappenBeforeDestructor' /\ ChangesInOrderAcquired'
<1>1. ASSUME NEW t \in Thread, pc'[t] \in {"delBoth", "delStrong"}
      PROVE  AllUses(t)'
  <2>1. pc'[t] = pc[t] => AllUses(t)
    BY <1>1 DEF UsesInv, UsesHappenBeforeDestructor, AllUses
  <2> QED
    BY <1>1, <2>1, AllUsesGrow
<1>2. ASSUME build' = "msvc", Len(hist') = 1, NEW t \in Thread, pc'[t] = "change"
      PROVE  AllUses(t)'
  <2>1. pc'[t] = pc[t] => AllUses(t)
    BY <1>2 DEF UsesInv, ChangesInOrderAcquired, ChangesInOrder, AllUses
  <2> QED
    BY <1>2, <2>1, AllUsesGrow
<1> QED
  BY <1>1, <1>2 DEF UsesHappenBeforeDestructor, ChangesInOrderAcquired, ChangesInOrder, AllUses

\* As long as the strong handles stay with their owners, or with threads that know as much, and
\* the count forgets nothing, no use is lost.
LEMMA UsesStayKept ==
  ASSUME CountsInv, UsesInv, UsesGrow, destroyed' = destroyed,
         \A h \in Held("strong") :
            h \in Held("strong")' /\ \/ owner'[h] = owner[h]
                                     \/ view[owner[h]].known \subseteq view'[owner'[h]].known
  PROVE  UsesKept'
<1> SUFFICES ASSUME ~ destroyed, NEW u \in Thread
             PROVE  \/ <<"use", u>> \in view'["strong"].known
                    \/ \E h \in Held("strong")' : <<"use", u>> \in view'[owner'[h]].known
  BY DEF UsesKept, Knows
<1>1. \A h \in Held("strong") : owner[h] \in Place
  BY Places, CountsFacts DEF Held
<1>2. \/ <<"use", u>> \in view["strong"].known
      \/ \E h \in Held("strong") : <<"use", u>> \in view[owner[h]].known
  BY DEF UsesInv, UsesKept, Knows
<1>3. CASE <<"use", u>> \in view["strong"].known
  BY <1>3, Places DEF UsesGrow
<1>4. CASE \E h \in Held("strong") : <<"use", u>> \in view[owner[h]].known
  <2>1. PICK h \in Held("strong") : <<"use", u>> \in view[owner[h]].known
    BY <1>4
  <2>2. <<"use", u>> \in view'[owner[h]].known
    BY <1>1, <2>1 DEF UsesGrow
  <2>3. <<"use", u>> \in view'[owner'[h]].known
    BY <2>1, <2>2
  <2> QED
    BY <2>1, <2>3
<1> QED
  BY <1>2, <1>3, <1>4

\* With one handle left its owner knows every use that the count does not bring.
LEMMA OnlyOwnerKnows ==
  ASSUME CountsInv, UsesInv, strong = 1, NEW t \in Thread, NEW h \in Handle, Owned(t, h, "strong")
  PROVE  \A u \in Thread : <<"use", u>> \in view["strong"].known \cup view[t].known
<1>1. Held("strong") = {h}
  <2>1. h \in Held("strong")
    BY DEF Held, Owned
  <2> QED
    BY <2>1, HeldCounts, CountsFacts
<1>2. ~ destroyed
  BY DEF CountsInv, EndingOnce
<1> QED
  BY <1>1, <1>2 DEF UsesInv, UsesKept, Knows, Owned

LEMMA InitUses == Init => UsesInv
<1> SUFFICES ASSUME Init PROVE UsesInv
  OBVIOUS
<1>1. PICK h \in Handle : ref = [g \in Handle |-> IF g = h THEN "strong" ELSE "null"]
  BY DEF Init
<1>2. h \in Held("strong") /\ owner[h] \in Thread
  BY <1>1 DEF Init, Held
<1>3. view[owner[h]].known = Event
  BY <1>2, Places DEF Init
<1>4. UsesKept
  BY <1>2, <1>3 DEF UsesKept, Knows, Event, Kind
<1> QED
  BY <1>4 DEF UsesInv, Init, UsesHappenBeforeDestructor, ChangesInOrderAcquired, ChangesInOrder

\* Steps that give up no strong handle and use nothing.
LEMMA QuietUses ==
  ASSUME CountsInv, UsesInv, NEW t \in Thread,
         \/ \E s, d \in Handle : IncRef(t, s, d) \/ IncWeakRef(t, s, d) \/ Lock(t, s, d)
         \/ \E h \in Handle : DecWeakRef(t, h)
         \/ SubWeak(t) \/ FreeMemory(t)
  PROVE  UsesInv'
<1>1. TypeOK
  BY DEF CountsInv
<1>2. UsesGrow
  <2>1. CASE FreeMemory(t)
    BY <2>1 DEF FreeMemory, UsesGrow
  <2>2. CASE ~ FreeMemory(t)
    <3>1. Accesses(t, "header")
      BY <1>1, <2>2, PlainAccesses, IncWeakRefAccesses, LockAccesses, WeakDecrementAccesses
         DEF DecWeakRef, SubWeak
    <3> QED
      BY <3>1, HeaderForgetsNoUse
  <2> QED
    BY <2>1, <2>2
<1>3. /\ UNCHANGED <<build, owner, destroyed>>
      /\ Held("strong") \subseteq Held("strong")'
  BY CountsFacts DEF IncRef, IncWeakRef, Lock, DecWeakRef, SubWeak, FreeMemory, Held, Owned
<1>4. UsesKept'
  BY <1>2, <1>3, UsesStayKept
<1>5. \A u \in Thread : pc'[u] \in {"delBoth", "delStrong", "change"} => pc'[u] = pc[u]
  BY CountsFacts
     DEF IncRef, IncWeakRef, Lock, DecWeakRef, SubWeak, FreeMemory, WeakDecrement, Goto
<1>6. Len(hist') = 1 => Len(hist) = 1
  <2>1. hist' = hist \/ \E n \in Nat : hist' = Append(hist, n)
    <3>1. CASE \E s, d \in Handle : IncWeakRef(t, s, d)
      BY <3>1, CountsFacts DEF IncWeakRef
    <3>2. CASE SubWeak(t) \/ \E h \in Handle : DecWeakRef(t, h)
      <4>1. hist' = Append(hist, Weak - 1)
        BY <3>2 DEF SubWeak, DecWeakRef, WeakDecrement
      <4>2. Weak > 0
        <5>1. CASE SubWeak(t)
          <6>1. Ends
            BY <5>1 DEF SubWeak, Ends, Ending
          <6> QED
            BY <6>1, CountsFacts DEF CountsInv, WeakCounted
        <5>2. CASE \E h \in Handle : DecWeakRef(t, h)
          <6>1. PICK h \in Handle : ref[h] = "weak"
            BY <5>2 DEF DecWeakRef, Owned
          <6>2. h \in Held("weak")
            BY <6>1 DEF Held
          <6>3. Cardinality(Held("weak")) > 0
            BY <6>2, HeldCounts
          <6> QED
            BY <6>3, CountsFacts DEF CountsInv, WeakCounted
        <5> QED
          BY <3>2, <5>1, <5>2
      <4> QED
        BY <4>1, <4>2, CountsFacts
    <3>3. CASE FreeMemory(t) \/ \E s, d \in Handle : IncRef(t, s, d) \/ Lock(t, s, d)
      BY <3>3 DEF FreeMemory, IncRef, Lock
    <3> QED
      BY <3>1, <3>2, <3>3
  <2>2. \A n \in Nat : hist' = Append(hist, n) => Len(hist') = Len(hist) + 1
    BY CountsFacts, WeakIsLast
  <2>3. Len(hist) \in Nat /\ Len(hist) > 0
    BY CountsFacts
  <2> QED
    BY <2>1, <2>2, <2>3
<1>7. UsesHappenBeforeDestructor' /\ ChangesInOrderAcquired'
  BY <1>2, <1>3, <1>5, <1>6, UsesStayKnown
<1> QED
  BY <1>4, <1>7 DEF UsesInv

LEMMA HandOverUses ==
  ASSUME CountsInv, UsesInv, NEW t \in Thread, NEW u \in Thread, NEW h \in Handle, HandOver(t, u, h)
  PROVE  UsesInv'
<1>1. Learns /\ view[t].known \subseteq view'[u].known
  BY HandOverLearns DEF CountsInv
<1>2. UsesGrow
  BY <1>1, HeaderForgetsNoUse
<1>3. /\ UNCHANGED <<build, ref, hist, destroyed, pc>>
      /\ owner[h] = t /\ owner' = [owner EXCEPT ![h] = u]
  BY DEF HandOver
<1>4. \A g \in Held("strong") :
         g \in Held("strong")' /\ \/ owner'[g] = owner[g]
                                  \/ view[owner[g]].known \subseteq view'[owner'[g]].known
  <2>1. Held("strong")' = Held("strong")
    BY <1>3 DEF Held
  <2>2. \A g \in Handle : IF g = h THEN owner[g] = t /\ owner'[g] = u ELSE owner'[g] = owner[g]
    BY <1>3, CountsFacts
  <2> QED
    BY <1>1, <2>1, <2>2 DEF Held
<1>5. UsesKept'
  BY <1>2, <1>3, <1>4, UsesStayKept
<1>6. UsesHappenBeforeDestructor' /\ ChangesInOrderAcquired'
  BY <1>2, <1>3, UsesStayKnown
<1> QED
  BY <1>5, <1>6 DEF UsesInv

\* A use is known to the owner of the handle it goes through, and nobody is at the destructor
\* or, if that is the only handle, about to change the object.
LEMMA OwnUse ==
  ASSUME CountsInv, UsesInv, NEW t \in Thread, NEW g \in Handle, Owned(t, g, "strong"),
         Accesses(t, "use"), UNCHANGED <<build, ref, owner, strong, hist, destroyed>>,
         \A u \in Thread : pc'[u] \in {"delBoth", "delStrong"} => pc'[u] = pc[u],
         Len(hist) = 1 => \A u \in Thread : pc'[u] # "change"
  PROVE  UsesInv'
<1>1. g \in Held("strong") /\ owner[g] = t /\ t \in Place
  BY Places DEF Held, Owned
<1>2. strong > 0
  BY <1>1, HeldCounts, CountsFacts
<1>3. \A u \in Thread : pc'[u] \notin {"delBoth", "delStrong"}
  BY <1>2 DEF CountsInv, EndingOnce, Ending, BeforeDestructor
<1>4. ASSUME NEW u \in Thread, ~ destroyed
      PROVE  \/ <<"use", u>> \in view'["strong"].known
             \/ \E h \in Held("strong") : <<"use", u>> \in view'[owner[h]].known
  <2>1. CASE u = t
    BY <1>1, <2>1 DEF Accesses, Keeps
  <2>2. CASE u # t
    <3>1. \A p \in Place : <<"use", u>> \in view[p].known => <<"use", u>> \in view'[p].known
      <4>1. <<"use", u>> # <<"use", t>>
        BY <2>2
      <4> QED
        BY <4>1 DEF Accesses, Keeps
    <3>2. \/ <<"use", u>> \in view["strong"].known
          \/ \E h \in Held("strong") : <<"use", u>> \in view[owner[h]].known
      BY <1>4 DEF UsesInv, UsesKept, Knows
    <3>3. \A h \in Held("strong") : owner[h] \in Place
      BY Places, CountsFacts DEF Held
    <3> QED
      BY <3>1, <3>2, <3>3, Places
  <2> QED
    BY <2>1, <2>2
<1>5. UsesKept'
  BY <1>4 DEF UsesKept, Knows, Held
<1> QED
  BY <1>3, <1>5 DEF UsesInv, UsesHappenBeforeDestructor, ChangesInOrderAcquired, ChangesInOrder

LEMMA UseUses ==
  ASSUME CountsInv, UsesInv, NEW t \in Thread, NEW s \in Handle, Use(t, s)
  PROVE  UsesInv'
<1>1. /\ Idle(t) /\ Owned(t, s, "strong")
      /\ UNCHANGED <<build, ref, owner, strong, hist, destroyed, pc>>
  BY DEF Use
<1>2. Accesses(t, "use")
  BY PlainAccesses DEF CountsInv
<1>3. Len(hist) = 1 => \A u \in Thread : pc'[u] # "change"
  BY <1>1, IdleOwner
<1> QED
  BY <1>1, <1>2, <1>3, OwnUse

LEMMA ChangeInPlaceUses ==
  ASSUME CountsInv, UsesInv, NEW t \in Thread, ChangeInPlace(t)
  PROVE  UsesInv'
<1>1. /\ pc[t] = "change" /\ pc' = [pc EXCEPT ![t] = "idle"]
      /\ UNCHANGED <<build, ref, owner, strong, hist, destroyed>>
  BY DEF ChangeInPlace, Goto
<1>2. /\ pc'[t] = "idle" /\ \A u \in Thread : u # t => pc'[u] = pc[u]
  BY <1>1, CountsFacts
<1>3. Accesses(t, "use")
  BY PlainAccesses DEF CountsInv
<1>4. PICK g \in Handle : Owned(t, g, "strong")
  BY <1>1 DEF CountsInv, ChangesAlone
<1>5. ASSUME Len(hist) = 1, NEW u \in Thread, pc'[u] = "change" PROVE FALSE
  <2>1. u # t /\ pc[u] = "change"
    BY <1>2, <1>5
  <2>2. PICK h \in Handle : Owned(u, h, "strong")
    BY <2>1 DEF CountsInv, ChangesAlone
  <2>3. strong = 1
    BY <1>1, <1>5 DEF CountsInv, ChangesAlone
  <2>4. g \in Held("strong") /\ h \in Held("strong")
    BY <1>4, <2>2 DEF Held, Owned
  <2>5. g = h
    BY <2>3, <2>4, HeldCounts, CountsFacts
  <2> QED
    BY <1>4, <2>1, <2>2, <2>5 DEF Owned
<1>6. \A u \in Thread : pc'[u] \in {"delBoth", "delStrong"} => pc'[u] = pc[u]
  BY <1>2
<1> QED
  BY <1>1, <1>3, <1>4, <1>5, <1>6, OwnUse

LEMMA UniqueUses ==
  ASSUME CountsInv, UsesInv, NEW t \in Thread, NEW s \in Handle, Unique(t, s)
  PROVE  UsesInv'
<1>1. /\ Idle(t) /\ Owned(t, s, "strong") /\ strong = 1 /\ pc' = [pc EXCEPT ![t] = "change"]
      /\ UNCHANGED <<build, ref, owner, strong, hist, destroyed>>
  BY DEF Unique, Goto
<1>2. /\ Accesses(t, "header")
      /\ build = "msvc" => view["strong"].known \ {<<"header", t>>} \subseteq view'[t].known
  BY UniqueAccesses DEF CountsInv
<1>3. UsesGrow
  BY <1>2, HeaderForgetsNoUse
<1>4. \A h \in Held("strong") : h \in Held("strong")' /\ owner'[h] = owner[h]
  BY <1>1 DEF Held
<1>5. UsesKept'
  BY <1>1, <1>3, <1>4, UsesStayKept
<1>6. pc'[t] = "change" /\ \A u \in Thread : u # t => pc'[u] = pc[u]
  BY <1>1, CountsFacts
<1>7. ASSUME build = "msvc" PROVE AllUses(t)'
  <2>1. ASSUME NEW u \in Thread PROVE <<"use", u>> \in view'[t].known
    <3>1. <<"use", u>> \in view["strong"].known \cup view[t].known
      BY <1>1, OnlyOwnerKnows
    <3>2. CASE <<"use", u>> \in view["strong"].known
      BY <1>2, <1>7, <3>2
    <3>3. CASE <<"use", u>> \in view[t].known
      BY <1>3, <3>3, Places DEF UsesGrow
    <3> QED
      BY <3>1, <3>2, <3>3
  <2> QED
    BY <2>1 DEF AllUses
<1>8. /\ \A u \in Thread : pc'[u] \in {"delBoth", "delStrong"} => pc'[u] = pc[u] \/ AllUses(u)'
      /\ build = "msvc" /\ Len(hist) = 1 =>
           \A u \in Thread : pc'[u] = "change" => pc'[u] = pc[u] \/ AllUses(u)'
  BY <1>6, <1>7
<1>9. UsesHappenBeforeDestructor' /\ ChangesInOrderAcquired'
  BY <1>1, <1>3, <1>8, UsesStayKnown
<1> QED
  BY <1>5, <1>9 DEF UsesInv

LEMMA DecRefUses ==
  ASSUME CountsInv, UsesInv, NEW t \in Thread, NEW h \in Handle, DecRef(t, h)
  PROVE  UsesInv'
<1>1. /\ Idle(t) /\ Owned(t, h, "strong") /\ owner[h] = t
      /\ ref[h] = "strong" /\ ref' = [ref EXCEPT ![h] = "null"]
      /\ UNCHANGED <<build, owner, hist, destroyed>>
      /\ pc' = [pc EXCEPT ![t] = IF strong > 1 THEN "idle"
                                 ELSE IF build = "gcc" THEN "loadWeak" ELSE "delStrong"]
  BY DEF DecRef, Owned, Goto
<1>2. /\ Accesses(t, "header")
      /\ view'[t].known \subseteq view'["strong"].known
      /\ build = "msvc" => view["strong"].known \ {<<"header", t>>} \subseteq view'[t].known
  BY DecRefAccesses DEF CountsInv
<1>3. UsesGrow
  BY <1>2, HeaderForgetsNoUse
<1>4. Held("strong")' = Held("strong") \ {h}
  BY <1>1, CountsFacts, HandleLost
<1>5. UsesKept'
  <2>1. ASSUME NEW u \in Thread, ~ destroyed
        PROVE  \/ <<"use", u>> \in view'["strong"].known
               \/ \E g \in Held("strong") \ {h} : <<"use", u>> \in view'[owner[g]].known
    <3>1. \/ <<"use", u>> \in view["strong"].known
          \/ \E g \in Held("strong") : <<"use", u>> \in view[owner[g]].known
      BY <2>1 DEF UsesInv, UsesKept, Knows
    <3>2. \A g \in Held("strong") : owner[g] \in Place
      BY Places, CountsFacts DEF Held
    <3>3. CASE <<"use", u>> \in view["strong"].known
      BY <1>3, <3>3, Places DEF UsesGrow
    <3>4. CASE \E g \in Held("strong") : <<"use", u>> \in view[owner[g]].known
      <4>1. PICK g \in Held("strong") : <<"use", u>> \in view[owner[g]].known
        BY <3>4
      <4>2. <<"use", u>> \in view'[owner[g]].known
        BY <1>3, <3>2, <4>1 DEF UsesGrow
      <4>3. g = h => <<"use", u>> \in view'["strong"].known
        BY <1>1, <1>2, <4>2
      <4> QED
        BY <4>2, <4>3
    <3> QED
      BY <3>1, <3>3, <3>4
  <2> QED
    BY <1>1, <1>4, <2>1 DEF UsesKept, Knows
<1>6. /\ pc'[t] = IF strong > 1 THEN "idle" ELSE IF build = "gcc" THEN "loadWeak" ELSE "delStrong"
      /\ \A u \in Thread : u # t => pc'[u] = pc[u]
  BY <1>1, CountsFacts
<1>7. ASSUME pc'[t] = "delStrong" PROVE AllUses(t)'
  <2>1. build = "msvc"
    BY <1>6, <1>7, CountsFacts, BuildAssumption
  <2>2. strong = 1
    BY <1>1, <1>6, <1>7, IdleOwner, CountsFacts
  <2>3. ASSUME NEW u \in Thread PROVE <<"use", u>> \in view'[t].known
    <3>1. <<"use", u>> \in view["strong"].known \cup view[t].known
      BY <1>1, <2>2, OnlyOwnerKnows
    <3>2. CASE <<"use", u>> \in view["strong"].known
      BY <1>2, <2>1, <3>2
    <3>3. CASE <<"use", u>> \in view[t].known
      BY <1>3, <3>3, Places DEF UsesGrow
    <3> QED
      BY <3>1, <3>2, <3>3
  <2> QED
    BY <2>3 DEF AllUses
<1>8. /\ \A u \in Thread : pc'[u] \in {"delBoth", "delStrong"} => pc'[u] = pc[u] \/ AllUses(u)'
      /\ build = "msvc" /\ Len(hist) = 1 =>
           \A u \in Thread : pc'[u] = "change" => pc'[u] = pc[u] \/ AllUses(u)'
  <2>1. pc'[t] # "change" /\ pc'[t] # "delBoth"
    BY <1>6
  <2> QED
    BY <1>6, <1>7, <2>1
<1>9. UsesHappenBeforeDestructor' /\ ChangesInOrderAcquired'
  BY <1>1, <1>3, <1>8, UsesStayKnown
<1> QED
  BY <1>5, <1>9 DEF UsesInv

LEMMA LoadWeakUses ==
  ASSUME CountsInv, UsesInv, NEW t \in Thread, LoadWeak(t)
  PROVE  UsesInv'
<1>1. /\ pc[t] = "loadWeak"
      /\ UNCHANGED <<build, ref, owner, strong, hist, destroyed, freed>>
      /\ \E label \in {"delBoth", "delStrong"} : pc' = [pc EXCEPT ![t] = label]
  BY DEF LoadWeak, Goto
<1>2. Learns /\ view["strong"].known \subseteq view'[t].known
  BY LoadWeakLearns DEF CountsInv
<1>3. UsesGrow
  BY <1>2, HeaderForgetsNoUse
<1>4. \A h \in Held("strong") : h \in Held("strong")' /\ owner'[h] = owner[h]
  BY <1>1 DEF Held
<1>5. UsesKept'
  BY <1>1, <1>3, <1>4, UsesStayKept
<1>6. AllUses(t)'
  <2>1. strong = 0 /\ ~ destroyed
    BY <1>1 DEF CountsInv, EndingOnce, Ending, BeforeDestructor
  <2>2. ~ \E h : h \in Held("strong")
    BY <2>1, HeldCounts, CountsFacts
  <2>3. \A u \in Thread : <<"use", u>> \in view["strong"].known
    BY <2>1, <2>2 DEF UsesInv, UsesKept, Knows
  <2> QED
    BY <1>2, <2>3 DEF AllUses
<1>7. /\ \A u \in Thread : pc'[u] \in {"delBoth", "delStrong"} => pc'[u] = pc[u] \/ AllUses(u)'
      /\ \A u \in Thread : pc'[u] = "change" => pc'[u] = pc[u]
  <2>1. pc'[t] # "change" /\ \A u \in Thread : u # t => pc'[u] = pc[u]
    BY <1>1, CountsFacts
  <2> QED
    BY <1>6, <2>1
<1>8. UsesHappenBeforeDestructor' /\ ChangesInOrderAcquired'
  BY <1>1, <1>3, <1>7, UsesStayKnown
<1> QED
  BY <1>5, <1>8 DEF UsesInv

\* The destructor is a use, by the one thread that got there.
LEMMA DestructUses ==
  ASSUME CountsInv, UsesInv, NEW t \in Thread, Destruct(t)
  PROVE  UsesInv'
<1>1. /\ pc[t] \in {"delBoth", "delStrong"} /\ destroyed' = TRUE
      /\ pc' = [pc EXCEPT ![t] = IF pc[t] = "delBoth" THEN "delMem" ELSE "subWeak"]
  BY DEF Destruct, Goto
<1>2. /\ pc'[t] \notin {"delBoth", "delStrong", "change"}
      /\ \A u \in Thread : u # t => pc'[u] = pc[u]
  BY <1>1, CountsFacts
<1>3. strong = 0 /\ \A u \in Thread : pc[u] \in Ending => u = t
  BY <1>1 DEF CountsInv, EndingOnce, Ending, BeforeDestructor
<1>4. \A u \in Thread : pc'[u] \notin {"delBoth", "delStrong"}
  BY <1>2, <1>3 DEF Ending, BeforeDestructor
<1>5. \A u \in Thread : pc[u] # "change"
  <2> SUFFICES ASSUME NEW u \in Thread, pc[u] = "change" PROVE FALSE
    OBVIOUS
  <2>1. PICK h \in Handle : Owned(u, h, "strong")
    BY DEF CountsInv, ChangesAlone
  <2>2. h \in Held("strong")
    BY <2>1 DEF Held, Owned
  <2> QED
    BY <1>3, <2>2, HeldCounts, CountsFacts
<1>6. \A u \in Thread : pc'[u] # "change"
  BY <1>2, <1>5
<1> QED
  BY <1>1, <1>4, <1>6
     DEF UsesInv, UsesKept, UsesHappenBeforeDestructor, ChangesInOrderAcquired, ChangesInOrder

LEMMA NextUses == CountsInv /\ UsesInv /\ [Next]_vars => UsesInv'
<1> SUFFICES ASSUME CountsInv, UsesInv, [Next]_vars PROVE UsesInv'
  OBVIOUS
<1>1. CASE UNCHANGED vars
  BY <1>1 DEF vars, UsesInv, UsesKept, Knows, Held, UsesHappenBeforeDestructor,
              ChangesInOrderAcquired, ChangesInOrder
<1>2. ASSUME NEW t \in Thread, NEW h \in Handle,
             Use(t, h) \/ Unique(t, h) \/ DecRef(t, h) \/ DecWeakRef(t, h)
      PROVE  UsesInv'
  BY <1>2, UseUses, UniqueUses, DecRefUses, QuietUses
<1>3. ASSUME NEW t \in Thread, NEW s \in Handle, NEW d \in Handle,
             IncRef(t, s, d) \/ IncWeakRef(t, s, d) \/ Lock(t, s, d)
      PROVE  UsesInv'
  BY <1>3, QuietUses
<1>4. ASSUME NEW t \in Thread, NEW u \in Thread, NEW h \in Handle, HandOver(t, u, h)
      PROVE  UsesInv'
  BY <1>4, HandOverUses
<1>5. ASSUME NEW t \in Thread, ChangeInPlace(t) \/ LoadWeak(t) \/ Destruct(t) \/ SubWeak(t)
                                \/ FreeMemory(t)
      PROVE  UsesInv'
  BY <1>5, ChangeInPlaceUses, LoadWeakUses, DestructUses, QuietUses
<1> QED
  BY <1>1, <1>2, <1>3, <1>4, <1>5 DEF Next

-----------------------------------------------------------------------------
(* The looks at the counts.                                                *)

LEMMA KeepersArePlaces ==
  ASSUME CountsInv
  PROVE  /\ Keepers \subseteq Place /\ "weak" \in Keepers
         /\ \A t \in Thread, h \in Handle : owner[h] = t /\ ref[h] # "null" => t \in Keepers
         /\ \A t \in Thread : pc[t] \in Ending => t \in Keepers
         /\ strong > 0 => "strong" \in Keepers
<1>1. \A h \in Handle : owner[h] \in Place
  BY Places, CountsFacts
<1> QED
  BY <1>1, Places DEF Keepers

\* Whoever may look at the counts has part in the weak count, so that the memory is there.
LEMMA LookersCount ==
  ASSUME CountsInv, (\E h \in Handle : ref[h] # "null") \/ Ends
  PROVE  Weak > 0
<1>1. CASE Ends
  BY <1>1, CountsFacts DEF CountsInv, WeakCounted
<1>2. CASE \E h \in Handle : ref[h] # "null"
  <2>1. PICK h \in Handle : ref[h] # "null"
    BY <1>2
  <2>2. h \in Held("strong") \/ h \in Held("weak")
    BY <2>1, CountsFacts DEF Held
  <2>3. CASE h \in Held("strong")
    <3>1. strong > 0
      BY <2>3, HeldCounts, CountsFacts
    <3> QED
      BY <3>1, CountsFacts DEF CountsInv, WeakCounted
  <2>4. CASE h \in Held("weak")
    <3>1. Cardinality(Held("weak")) > 0
      BY <2>4, HeldCounts
    <3> QED
      BY <3>1, CountsFacts DEF CountsInv, WeakCounted
  <2> QED
    BY <2>2, <2>3, <2>4
<1> QED
  BY <1>1, <1>2

\* An access and what was known before it stay known to a keeper.
LEMMA LooksStayKept ==
  ASSUME CountsInv, LooksKept, NEW t \in Thread, NEW kind \in Kind, Accesses(t, kind),
         \A p \in Keepers : \E q \in Keepers' : view[p].known \ {<<kind, t>>} \subseteq view'[q].known,
         \E q \in Keepers' : <<kind, t>> \in view'[q].known
  PROVE  LooksKept'
<1>1. ASSUME NEW e \in Event PROVE \E q \in Keepers' : e \in view'[q].known
  <2>1. CASE e = <<kind, t>>
    BY <2>1
  <2>2. CASE e # <<kind, t>>
    <3>1. PICK p \in Keepers : e \in view[p].known
      BY DEF LooksKept, Knows
    <3>2. PICK q \in Keepers' : view[p].known \ {<<kind, t>>} \subseteq view'[q].known
      OBVIOUS
    <3> QED
      BY <2>2, <3>1, <3>2
  <2> QED
    BY <2>1, <2>2
<1> QED
  BY <1>1 DEF LooksKept, Knows

\* In particular by the step of a keeper that all keepers survive.
LEMMA KeepersStay ==
  ASSUME CountsInv, LooksKept, NEW t \in Thread, NEW kind \in Kind, Accesses(t, kind),
         t \in Keepers', Keepers \subseteq Keepers'
  PROVE  LooksKept'
<1>1. Keepers \subseteq Place
  BY KeepersArePlaces
<1>2. \A p \in Keepers : \E q \in Keepers' : view[p].known \ {<<kind, t>>} \subseteq view'[q].known
  BY <1>1 DEF Accesses, Keeps
<1>3. \E q \in Keepers' : <<kind, t>> \in view'[q].known
  BY DEF Accesses, Keeps
<1> QED
  BY <1>2, <1>3, LooksStayKept

\* While there is a keeper but the count, nobody returns the memory, and it takes a decrement to
\* come to that.
LEMMA NobodyFrees ==
  ASSUME CountsInv, (\E h \in Handle : ref[h] # "null") \/ Ends,
         \A t \in Thread : pc'[t] = "delMem" => pc'[t] = pc[t], build' = build
  PROVE  AllHappensBeforeFree'
<1>1. build = "msvc" => \A t \in Thread : pc[t] # "delMem"
  BY LookersCount, MemoryThere
<1> QED
  BY <1>1 DEF AllHappensBeforeFree

LEMMA InitLooks == Init => LooksInv
<1> SUFFICES ASSUME Init PROVE LooksInv
  OBVIOUS
<1>1. PICK h \in Handle : ref = [g \in Handle |-> IF g = h THEN "strong" ELSE "null"]
  BY DEF Init
<1>2. CountsInv
  BY InitCounts
<1>3. owner[h] \in Keepers /\ owner[h] \in Thread
  BY <1>1, <1>2, KeepersArePlaces, CountsFacts
<1>4. view[owner[h]].known = Event
  BY <1>3, Places DEF Init
<1> QED
  BY <1>3, <1>4 DEF LooksInv, LooksKept, Knows, Init, AllHappensBeforeFree

\* Threads that keep their handles.
LEMMA HandleLooks ==
  ASSUME CountsInv, LooksInv, NEW t \in Thread,
         \/ ChangeInPlace(t)
         \/ \E s \in Handle : Use(t, s) \/ Unique(t, s)
         \/ \E s, d \in Handle : IncRef(t, s, d) \/ IncWeakRef(t, s, d) \/ Lock(t, s, d)
  PROVE  LooksInv'
<1>1. \E kind \in Kind : Accesses(t, kind)
  BY PlainAccesses, UniqueAccesses, IncWeakRefAccesses, LockAccesses DEF CountsInv, Kind
<1>2. PICK s \in Handle : owner[s] = t /\ ref[s] # "null"
  BY DEF CountsInv, ChangesAlone, ChangeInPlace, Use, Unique, IncRef, IncWeakRef, Lock, Owned
<1>3. /\ build' = build /\ owner' = owner /\ (strong > 0 => strong' > 0)
      /\ \A h \in Handle : ref[h] # "null" => ref'[h] # "null"
      /\ pc' = pc \/ (pc[t] = "change" /\ pc' = [pc EXCEPT ![t] = "idle"])
                  \/ (pc[t] = "idle" /\ pc' = [pc EXCEPT ![t] = "change"])
  BY CountsFacts DEF ChangeInPlace, Use, Unique, IncRef, IncWeakRef, Lock, Owned, Goto, Idle
<1>4. /\ \A u \in Thread : pc[u] \in Ending => pc'[u] \in Ending
      /\ \A u \in Thread : pc'[u] = "delMem" => pc'[u] = pc[u]
  BY <1>3, CountsFacts DEF Ending, BeforeDestructor
<1>5. Keepers \subseteq Keepers'
  <2>1. {t0 \in Thread : pc[t0] \in Ending} \subseteq {t0 \in Thread : pc'[t0] \in Ending}
    BY <1>4
  <2>2. {owner[h] : h \in {g \in Handle : ref[g] # "null"}}
          \subseteq {owner'[h] : h \in {g \in Handle : ref'[g] # "null"}}
    BY <1>3
  <2> QED
    BY <1>3, <2>1, <2>2 DEF Keepers
<1>6. t \in Keepers
  BY <1>2, KeepersArePlaces
<1>7. build = "msvc" => LooksKept'
  BY <1>1, <1>5, <1>6, KeepersStay DEF LooksInv
<1>8. AllHappensBeforeFree'
  BY <1>2, <1>3, <1>4, NobodyFrees
<1> QED
  BY <1>3, <1>7, <1>8 DEF LooksInv

LEMMA HandOverLooks ==
  ASSUME CountsInv, LooksInv, NEW t \in Thread, NEW u \in Thread, NEW h \in Handle, HandOver(t, u, h)
  PROVE  LooksInv'
<1>1. Learns /\ view[t].known \subseteq view'[u].known
  BY HandOverLearns DEF CountsInv
<1>2. /\ UNCHANGED <<build, ref, strong, hist, pc>>
      /\ owner[h] = t /\ owner' = [owner EXCEPT ![h] = u]
  BY DEF HandOver
<1>3. Keepers \subseteq Place
  BY KeepersArePlaces
<1>4. \A p \in Keepers : p \in Keepers' \/ (p = t /\ u \in Keepers')
  <2>1. \A g \in Handle : IF g = h THEN owner[g] = t /\ owner'[g] = u ELSE owner'[g] = owner[g]
    BY <1>2, CountsFacts
  <2> QED
    BY <1>2, <2>1 DEF Keepers
<1>5. ASSUME build = "msvc", NEW e \in Event PROVE \E q \in Keepers' : e \in view'[q].known
  <2>1. PICK p \in Keepers : e \in view[p].known
    BY <1>5 DEF LooksInv, LooksKept, Knows
  <2>2. CASE p \in Keepers'
    BY <1>1, <1>3, <2>1, <2>2 DEF Learns
  <2>3. CASE p = t /\ u \in Keepers'
    BY <1>1, <2>1, <2>3
  <2> QED
    BY <1>4, <2>2, <2>3
<1>6. AllHappensBeforeFree'
  BY <1>1, <1>2, Places DEF LooksInv, AllHappensBeforeFree, Learns
<1> QED
  BY <1>2, <1>5, <1>6 DEF LooksInv, LooksKept, Knows

\* Whoever gives up a strong handle leaves what it knows with the strong count or, when it is the
\* last one, goes on with all that was left there.
LEMMA DecRefLooks ==
  ASSUME CountsInv, LooksInv, NEW t \in Thread, NEW h \in Handle, DecRef(t, h)
  PROVE  LooksInv'
<1>1. /\ Idle(t) /\ Owned(t, h, "strong") /\ owner[h] = t /\ pc[t] = "idle"
      /\ ref[h] = "strong" /\ ref' = [ref EXCEPT ![h] = "null"] /\ strong' = strong - 1
      /\ UNCHANGED <<build, owner>>
      /\ pc' = [pc EXCEPT ![t] = IF strong > 1 THEN "idle"
                                 ELSE IF build = "gcc" THEN "loadWeak" ELSE "delStrong"]
  BY DEF DecRef, Owned, Goto, Idle
<1>2. /\ Accesses(t, "header")
      /\ view'[t].known \subseteq view'["strong"].known
      /\ build = "msvc" => view["strong"].known \ {<<"header", t>>} \subseteq view'[t].known
  BY DecRefAccesses DEF CountsInv
<1>3. strong > 0 /\ strong \in Nat
  BY <1>1, IdleOwner, CountsFacts
<1>4. /\ pc'[t] = IF strong > 1 THEN "idle" ELSE IF build = "gcc" THEN "loadWeak" ELSE "delStrong"
      /\ \A u \in Thread : u # t => pc'[u] = pc[u]
  BY <1>1, CountsFacts
<1>5. IF strong > 1 THEN "strong" \in Keepers' ELSE t \in Keepers'
  BY <1>1, <1>3, <1>4 DEF Keepers, Ending, BeforeDestructor
<1>6. \A p \in Keepers : p \in Keepers' \/ p = t \/ p = "strong"
  <2>1. \A g \in Handle : ref[g] # "null" => ref'[g] # "null" \/ owner[g] = t
    BY <1>1, CountsFacts
  <2> QED
    BY <1>1, <1>4, <2>1 DEF Keepers
<1>7. ASSUME build = "msvc"
      PROVE  /\ \A p \in Keepers : \E q \in Keepers' :
                  view[p].known \ {<<"header", t>>} \subseteq view'[q].known
             /\ \E q \in Keepers' : <<"header", t>> \in view'[q].known
  <2>1. /\ Keepers \subseteq Place /\ t \in Place /\ "strong" \in Place
        /\ \A p \in Place : view[p].known \ {<<"header", t>>} \subseteq view'[p].known
        /\ <<"header", t>> \in view'[t].known
    BY <1>2, Places, KeepersArePlaces DEF Accesses, Keeps
  <2>2. PICK q \in Keepers' : q = IF strong > 1 THEN "strong" ELSE t
    BY <1>5
  <2>3. /\ view[t].known \ {<<"header", t>>} \subseteq view'[q].known
        /\ view["strong"].known \ {<<"header", t>>} \subseteq view'[q].known
        /\ <<"header", t>> \in view'[q].known
    <3>1. CASE strong > 1
      BY <1>2, <2>1, <2>2, <3>1
    <3>2. CASE ~ (strong > 1)
      BY <1>2, <1>7, <2>1, <2>2, <3>2
    <3> QED
      BY <3>1, <3>2
  <2>4. ASSUME NEW p \in Keepers
        PROVE  \E r \in Keepers' : view[p].known \ {<<"header", t>>} \subseteq view'[r].known
    <3>1. p \in Place
      BY <2>1
    <3>2. p \in Keepers' \/ p = t \/ p = "strong"
      BY <1>6
    <3> QED
      BY <2>1, <2>3, <3>1, <3>2
  <2> QED
    BY <2>3, <2>4
<1>8. build = "msvc" => LooksKept'
  BY <1>2, <1>7, LooksStayKept DEF LooksInv, Kind
<1>9. AllHappensBeforeFree'
  <2>1. \A u \in Thread : pc'[u] = "delMem" => pc'[u] = pc[u]
    BY <1>4
  <2> QED
    BY <1>1, <2>1, NobodyFrees
<1> QED
  BY <1>1, <1>8, <1>9 DEF LooksInv

LEMMA DestructLooks ==
  ASSUME CountsInv, LooksInv, NEW t \in Thread, Destruct(t)
  PROVE  LooksInv'
<1>1. /\ pc[t] \in {"delBoth", "delStrong"} /\ UNCHANGED <<build, ref, owner, strong>>
      /\ pc' = [pc EXCEPT ![t] = IF pc[t] = "delBoth" THEN "delMem" ELSE "subWeak"]
  BY DEF Destruct, Goto
<1>2. Accesses(t, "use")
  BY PlainAccesses DEF CountsInv
<1>3. ASSUME build = "msvc" PROVE LooksKept' /\ AllHappensBeforeFree'
  <2>1. pc[t] = "delStrong"
    BY <1>1, <1>3 DEF CountsInv, EndingOnce
  <2>2. pc'[t] = "subWeak" /\ \A u \in Thread : u # t => pc'[u] = pc[u]
    BY <1>1, <2>1, CountsFacts
  <2>3. t \in Keepers' /\ Keepers \subseteq Keepers'
    BY <1>1, <2>2 DEF Keepers, Ending, BeforeDestructor
  <2>4. LooksKept'
    BY <1>2, <1>3, <2>3, KeepersStay DEF LooksInv, Kind
  <2>5. Ends
    BY <2>1 DEF Ends, Ending, BeforeDestructor
  <2>6. \A u \in Thread : pc'[u] = "delMem" => pc'[u] = pc[u]
    BY <2>2
  <2>7. AllHappensBeforeFree'
    BY <1>1, <2>5, <2>6, NobodyFrees
  <2> QED
    BY <2>4, <2>7
<1> QED
  BY <1>1, <1>3 DEF LooksInv, AllHappensBeforeFree

\* Whoever decrements the weak count leaves with it all that it knows; whoever takes it to zero
\* finds nobody else left to know anything, and learns all that was left.
LEMMA DecrementLooks ==
  ASSUME CountsInv, CountsInv', LooksInv, NEW t \in Thread,
         SubWeak(t) \/ \E h \in Handle : DecWeakRef(t, h)
  PROVE  LooksInv'
<1>1. /\ WeakDecrement(t) /\ UNCHANGED <<build, owner, strong>>
      /\ \A g \in Handle : ref[g] # "null" => ref'[g] # "null" \/ owner[g] = t
  BY CountsFacts DEF SubWeak, DecWeakRef, Owned
<1>2. /\ Accesses(t, "header")
      /\ view'[t].known \subseteq view'["weak"].known
      /\ Weak = 1 => view'["weak"].known \subseteq view'[t].known
  BY <1>1, WeakDecrementAccesses DEF CountsInv
<1>3. /\ pc' = [pc EXCEPT ![t] = IF Weak = 1 THEN "delMem" ELSE "idle"]
      /\ hist' = Append(hist, Weak - 1)
  BY <1>1 DEF WeakDecrement, Goto
<1>4. /\ pc'[t] = (IF Weak = 1 THEN "delMem" ELSE "idle")
      /\ \A u \in Thread : u # t => pc'[u] = pc[u]
  BY <1>3, CountsFacts
<1>5. Weak > 0
  <2>1. (\E h \in Handle : ref[h] # "null") \/ Ends
    BY DEF SubWeak, DecWeakRef, Owned, Ends, Ending
  <2> QED
    BY <2>1, LookersCount
<1>6. ASSUME build = "msvc" PROVE LooksKept'
  <2>1. \A p \in Keepers : p \in Keepers' \/ p = t
    BY <1>1, <1>4 DEF Keepers
  <2>2. "weak" \in Keepers'
    BY DEF Keepers
  <2>3. /\ Keepers \subseteq Place /\ t \in Place
        /\ \A p \in Place : view[p].known \ {<<"header", t>>} \subseteq view'[p].known
        /\ <<"header", t>> \in view'[t].known
    BY <1>2, Places, KeepersArePlaces DEF Accesses, Keeps
  <2>4. view[t].known \ {<<"header", t>>} \subseteq view'["weak"].known
    BY <1>2, <2>3
  <2>5. ASSUME NEW p \in Keepers
        PROVE  \E q \in Keepers' : view[p].known \ {<<"header", t>>} \subseteq view'[q].known
    BY <2>1, <2>2, <2>3, <2>4
  <2>6. \E q \in Keepers' : <<"header", t>> \in view'[q].known
    BY <1>2, <2>2, <2>3
  <2> QED
    BY <1>2, <1>6, <2>5, <2>6, LooksStayKept DEF LooksInv, Kind
<1>7. ASSUME build = "msvc", NEW u \in Thread, pc'[u] = "delMem"
      PROVE  Event \subseteq view'[u].known
  <2>1. \A x \in Thread : pc[x] # "delMem"
    BY <1>5, <1>7, MemoryThere
  <2>2. u = t /\ Weak = 1
    BY <1>4, <1>7, <2>1
  <2>3. Weak' = 0
    BY <1>3, <2>2, CountsFacts, WeakIsLast
  <2>4. Cardinality(Held("weak"))' = 0 /\ ~ (strong' > 0) /\ ~ Ends'
    <3>1. Cardinality(Held("weak"))' \in Nat
      BY HeldIsFinite, CountsFacts, HandleAssumption, FS_Subset, FS_CardinalityType DEF Held
    <3> QED
      BY <2>3, <3>1 DEF CountsInv, WeakCounted
  <2>5. \A h \in Handle : ref'[h] = "null"
    <3>1. \A kind : IsFiniteSet(Held(kind)') /\ (Cardinality(Held(kind)') = 0 => Held(kind)' = {})
      <4>1. ASSUME NEW kind PROVE IsFiniteSet(Held(kind)')
        <5>1. Held(kind)' \subseteq Handle
          BY DEF Held
        <5> QED
          BY <5>1, HandleAssumption, FS_Subset
      <4> QED
        BY <4>1, FS_EmptySet
    <3>2. Cardinality(Held("strong")') = 0
      <4>1. strong' \in Nat /\ strong' = Cardinality(Held("strong")')
        BY DEF CountsInv, TypeOK, StrongCounted
      <4> QED
        BY <2>4, <4>1
    <3>3. Held("strong")' = {} /\ Held("weak")' = {}
      BY <2>4, <3>1, <3>2
    <3>4. ref' \in [Handle -> {"null", "strong", "weak"}]
      BY DEF CountsInv, TypeOK
    <3> QED
      BY <3>3, <3>4 DEF Held
  <2>6. Keepers' \subseteq {"weak"}
    BY <2>4, <2>5 DEF Keepers, Ends
  <2>7. Event \subseteq view'["weak"].known
    BY <1>6, <1>7, <2>6 DEF LooksKept, Knows
  <2> QED
    BY <1>2, <2>2, <2>7
<1> QED
  BY <1>1, <1>6, <1>7 DEF LooksInv, AllHappensBeforeFree

LEMMA FreeMemoryLooks ==
  ASSUME CountsInv, LooksInv, NEW t \in Thread, FreeMemory(t)
  PROVE  LooksInv'
<1>1. /\ pc[t] = "delMem" /\ pc' = [pc EXCEPT ![t] = "idle"]
      /\ UNCHANGED <<build, ref, owner, strong, hist, view>>
  BY DEF FreeMemory, Goto
<1>2. pc'[t] = "idle" /\ \A u \in Thread : u # t => pc'[u] = pc[u]
  BY <1>1, CountsFacts
<1>3. Keepers' = Keepers
  BY <1>1, <1>2 DEF Keepers, Ending, BeforeDestructor
<1> QED
  BY <1>1, <1>2, <1>3 DEF LooksInv, LooksKept, Knows, AllHappensBeforeFree

\* No load may be stale where this is about, so that there is none that decides.
LEMMA LoadWeakLooks ==
  ASSUME CountsInv, LooksInv, NEW t \in Thread, LoadWeak(t)
  PROVE  LooksInv'
BY DEF CountsInv, EndingOnce, LoadWeak, LooksInv, AllHappensBeforeFree

LEMMA NextLooks == CountsInv /\ LooksInv /\ [Next]_vars => LooksInv'
<1> SUFFICES ASSUME CountsInv, LooksInv, [Next]_vars PROVE LooksInv'
  OBVIOUS
<1> CountsInv'
  BY NextCounts
<1>1. CASE UNCHANGED vars
  BY <1>1 DEF vars, LooksInv, LooksKept, Knows, Keepers, AllHappensBeforeFree
<1>2. ASSUME NEW t \in Thread, NEW h \in Handle,
             Use(t, h) \/ Unique(t, h) \/ DecRef(t, h) \/ DecWeakRef(t, h)
      PROVE  LooksInv'
  BY <1>2, HandleLooks, DecRefLooks, DecrementLooks
<1>3. ASSUME NEW t \in Thread, NEW s \in Handle, NEW d \in Handle,
             IncRef(t, s, d) \/ IncWeakRef(t, s, d) \/ Lock(t, s, d)
      PROVE  LooksInv'
  BY <1>3, HandleLooks
<1>4. ASSUME NEW t \in Thread, NEW u \in Thread, NEW h \in Handle, HandOver(t, u, h)
      PROVE  LooksInv'
  BY <1>4, HandOverLooks
<1>5. ASSUME NEW t \in Thread, ChangeInPlace(t) \/ LoadWeak(t) \/ Destruct(t) \/ SubWeak(t)
                                \/ FreeMemory(t)
      PROVE  LooksInv'
  BY <1>5, HandleLooks, LoadWeakLooks, DestructLooks, DecrementLooks, FreeMemoryLooks
<1> QED
  BY <1>1, <1>2, <1>3, <1>4, <1>5 DEF Next

-----------------------------------------------------------------------------
(* The theorems.                                                           *)

LEMMA CountsHold == Spec => []CountsInv
<1>1. Init => CountsInv
  BY InitCounts
<1>2. CountsInv /\ [Next]_vars => CountsInv'
  BY NextCounts
<1> QED
  BY <1>1, <1>2, PTL DEF Spec

LEMMA UsesHold == Spec => []UsesInv
<1>1. Init => UsesInv
  BY InitUses
<1>2. CountsInv /\ UsesInv /\ [Next]_vars => UsesInv'
  BY NextUses
<1> QED
  BY <1>1, <1>2, CountsHold, PTL DEF Spec

LEMMA LooksHold == Spec => []LooksInv
<1>1. Init => LooksInv
  BY InitLooks
<1>2. CountsInv /\ LooksInv /\ [Next]_vars => LooksInv'
  BY NextLooks
<1> QED
  BY <1>1, <1>2, CountsHold, PTL DEF Spec

\* The counts and the views stay what they are, under the memory model too: the weak count never
\* goes below zero, whichever value the plain load returned.
THEOREM RelaxedTypeOK == Spec => []TypeOK
<1>1. CountsInv => TypeOK
  BY DEF CountsInv
<1> QED
  BY <1>1, CountsHold, PTL

\* What any thread did with the object happens before its destructor on both paths, with relaxed
\* increments and decrements that only release: DecRef acquires once, on its way to the destructor.
THEOREM DestructorComesLast == Spec => []UsesHappenBeforeDestructor
<1>1. UsesInv => UsesHappenBeforeDestructor
  BY DEF UsesInv
<1> QED
  BY <1>1, UsesHold, PTL

\* Whoever finds its handle to be the only one, by a load that acquires, changes the object after
\* everything the others did through handles that are gone.
THEOREM ChangesComeInOrder == Spec => []ChangesInOrderAcquired
<1>1. UsesInv => ChangesInOrderAcquired
  BY DEF UsesInv
<1> QED
  BY <1>1, UsesHold, PTL

\* Every access to the object and to its counts happens before the memory is returned, where no
\* load of the weak count may be stale.
THEOREM FreeComesLast == Spec => []AllHappensBeforeFree
<1>1. LooksInv => AllHappensBeforeFree
  BY DEF LooksInv
<1> QED
  BY <1>1, LooksHold, PTL

\* There too, the memory outlives every weak handle.
THEOREM WeakHandlesKeepMemory == Spec => []WeakKeepsMemoryWithoutLoad
<1>1. CountsInv => WeakKeepsMemoryWithoutLoad
  <2> SUFFICES ASSUME CountsInv, build = "msvc", freed PROVE Held("weak") = {}
    BY DEF WeakKeepsMemoryWithoutLoad, WeakKeepsMemory
  <2>1. Weak = 0
    BY DEF CountsInv, WeakCounted
  <2>2. Cardinality(Held("weak")) = 0
    BY <2>1, CountsFacts DEF CountsInv, WeakCounted
  <2> QED
    BY <2>2, HeldIsFinite, FS_EmptySet
<1> QED
  BY <1>1, CountsHold, PTL

\* One thread at a time gives up the last strong handle, and the destructor has not run before it.
THEOREM OneThreadEnds == Spec => []EndingOnce
<1>1. CountsInv => EndingOnce
  BY DEF CountsInv
<1> QED
  BY <1>1, CountsHold, PTL

=============================================================================
