--------------------------- MODULE ModulesProofs ----------------------------
(***************************************************************************)
(* Proofs about Modules, whatever the modules, the libraries and the order *)
(* of the operations.  Imports never form a cycle: a module is outside of  *)
(* what the search visits if some closed set that contains its start       *)
(* leaves it out, and each lemma names such a set for the imports after a  *)
(* step.  Handles lent to generated code stay valid and keep their         *)
(* meaning: what exists refers to what exists.                             *)
(***************************************************************************)
EXTENDS Modules, SequenceTheorems, FiniteSetTheorems, WellFoundedInduction, TLAPS

-----------------------------------------------------------------------------
(* What the search visits.                                                 *)

\* Modules import modules.
LEMMA ImportedInMod ==
  ASSUME NEW im \in [Mod -> Seq(Mod)], NEW m \in Mod
  PROVE  Imported(im, m) \subseteq Mod
<1>1. im[m] \in Seq(Mod)
  OBVIOUS
<1> QED
  BY <1>1 DEF Imported

\* The search visits its start, what it visits is closed, and no closed set is smaller.
LEMMA VisitedIsLeast ==
  ASSUME NEW im \in [Mod -> Seq(Mod)], NEW m \in Mod
  PROVE  /\ m \in Visited(im, m) /\ Visited(im, m) \subseteq Mod
         /\ Closed(im, Visited(im, m))
         /\ \A S \in SUBSET Mod : m \in S /\ Closed(im, S) => Visited(im, m) \subseteq S
<1>1. \A x \in Mod : Imported(im, x) \subseteq Mod
  BY ImportedInMod
<1> QED
  BY <1>1 DEF Visited, Closed

\* To show that a module is not visited it is enough to find a closed set without it.
LEMMA LeftOut ==
  ASSUME NEW im, NEW m \in Mod, NEW k \in Mod, NEW S \in SUBSET Mod,
         k \in S, m \notin S, Closed(im, S)
  PROVE  m \notin Visited(im, k)
BY DEF Visited

-----------------------------------------------------------------------------
(* Imports that change.                                                    *)

\* Taking imports away makes no cycle.
LEMMA FewerImports ==
  ASSUME NEW im \in [Mod -> Seq(Mod)], NEW less \in [Mod -> Seq(Mod)],
         \A m \in Mod : Imported(less, m) \subseteq Imported(im, m), Acyclic(im)
  PROVE  Acyclic(less)
<1> SUFFICES ASSUME NEW m \in Mod, NEW k \in Imported(less, m)
             PROVE  m \notin Visited(less, k)
  BY DEF Acyclic
<1>1. k \in Mod /\ m \notin Visited(im, k)
  BY ImportedInMod DEF Acyclic
<1>2. Closed(less, Visited(im, k))
  BY <1>1, VisitedIsLeast DEF Closed
<1> QED
  BY <1>1, <1>2, VisitedIsLeast, LeftOut

\* An import is added where the search from the imported module does not come by.
LEMMA OneMoreImport ==
  ASSUME NEW im \in [Mod -> Seq(Mod)], Acyclic(im),
         NEW m \in Mod, NEW other \in Mod, m \notin Visited(im, other),
         NEW more \in [Mod -> Seq(Mod)],
         Imported(more, m) = Imported(im, m) \cup {other},
         \A x \in Mod \ {m} : Imported(more, x) = Imported(im, x)
  PROVE  Acyclic(more)
<1> DEFINE V == Visited(im, other)
<1>1. V \subseteq Mod /\ other \in V /\ m \notin V /\ Closed(im, V)
  BY VisitedIsLeast
<1>2. Closed(more, V)
  BY <1>1 DEF Closed
<1> SUFFICES ASSUME NEW x \in Mod, NEW k \in Imported(more, x)
             PROVE  x \notin Visited(more, k)
  BY DEF Acyclic
<1>3. CASE x = m /\ k = other
  BY <1>1, <1>2, <1>3, LeftOut
<1>4. CASE k \in Imported(im, x)
  <2> DEFINE U == Visited(im, k)
  <2>1. k \in Mod /\ x \notin U
    BY <1>4, ImportedInMod DEF Acyclic
  <2>2. U \subseteq Mod /\ k \in U /\ Closed(im, U)
    BY <2>1, VisitedIsLeast
  <2>3. CASE m \notin U
    <3>1. Closed(more, U)
      BY <2>2, <2>3 DEF Closed
    <3> QED
      BY <2>1, <2>2, <3>1, LeftOut
  <2>4. CASE m \in U
    <3>1. Closed(more, U \cup V)
      <4> SUFFICES ASSUME NEW y \in U \cup V PROVE Imported(more, y) \subseteq U \cup V
        BY DEF Closed
      <4>1. Imported(im, y) \subseteq U \cup V
        BY <1>1, <2>2 DEF Closed
      <4>2. y \in Mod /\ Imported(more, y) \subseteq Imported(im, y) \cup {other}
        BY <1>1, <2>2
      <4> QED
        BY <1>1, <4>1, <4>2
    <3>2. x \notin V
      <4> SUFFICES ASSUME x \in V PROVE FALSE
        OBVIOUS
      <4>1. k \in V
        BY <1>1, <1>4 DEF Closed
      <4>2. U \subseteq V
        BY <1>1, <2>1, <4>1, VisitedIsLeast
      <4> QED
        BY <1>1, <2>4, <4>2
    <3> QED
      BY <1>1, <2>1, <2>2, <3>1, <3>2, LeftOut
  <2> QED
    BY <2>3, <2>4
<1> QED
  BY <1>3, <1>4

\* A library brings imports among its own modules, which nobody else imports yet.
LEMMA LibraryImports ==
  ASSUME NEW im \in [Mod -> Seq(Mod)], Acyclic(im), NEW lib \in Bundles,
         \A m \in Mod : Imported(im, m) \cap DOMAIN lib.imports = {}
  PROVE  /\ WithImportsOf(lib, im) \in [Mod -> Seq(Mod)]
         /\ Acyclic(WithImportsOf(lib, im))
         /\ \A m \in Mod : Imported(WithImportsOf(lib, im), m)
                             \subseteq Imported(im, m) \cup DOMAIN lib.imports
<1> DEFINE D == DOMAIN lib.imports
           all == WithImportsOf(lib, im)
           own == WithImportsOf(lib, NoImports)
<1>1. D \subseteq Mod /\ lib.imports \in [D -> Seq(D)] /\ Acyclic(own)
  BY ModulesAssumption
<1>2. \A m \in D : lib.imports[m] \in Seq(Mod)
  <2> SUFFICES ASSUME NEW m \in D PROVE lib.imports[m] \in Seq(Mod)
    OBVIOUS
  <2>1. lib.imports[m] \in Seq(D)
    BY <1>1
  <2> QED
    BY <1>1, <2>1
<1>3. NoImports \in [Mod -> Seq(Mod)]
  BY DEF NoImports
<1>4. all \in [Mod -> Seq(Mod)] /\ own \in [Mod -> Seq(Mod)]
  BY <1>2, <1>3 DEF WithImportsOf
<1>5. \A m \in D : all[m] = lib.imports[m] /\ own[m] = lib.imports[m]
  BY <1>1 DEF WithImportsOf
<1>6. \A m \in Mod \ D : all[m] = im[m]
  BY DEF WithImportsOf
<1>7. \A m \in D : Imported(all, m) = Imported(own, m) /\ Imported(all, m) \subseteq D
  BY <1>1, <1>5 DEF Imported
<1>8. \A m \in Mod \ D : Imported(all, m) = Imported(im, m)
  BY <1>6 DEF Imported
<1>9. Acyclic(all)
  <2> SUFFICES ASSUME NEW m \in Mod, NEW k \in Imported(all, m)
               PROVE  m \notin Visited(all, k)
    BY DEF Acyclic
  <2>1. CASE m \in D
    <3>1. k \in D /\ k \in Mod /\ m \notin Visited(own, k)
      BY <1>1, <1>7, <2>1 DEF Acyclic
    <3> DEFINE S == Visited(own, k) \cap D
    <3>2. k \in S /\ m \notin S /\ S \subseteq Mod /\ Closed(own, Visited(own, k))
      BY <1>1, <1>4, <3>1, VisitedIsLeast
    <3>3. Closed(all, S)
      BY <1>7, <3>2 DEF Closed
    <3> QED
      BY <3>1, <3>2, <3>3, LeftOut
  <2>2. CASE m \notin D
    <3>1. k \in Imported(im, m)
      BY <1>8, <2>2
    <3> DEFINE S == Visited(im, k) \ D
    <3>2. k \in Mod /\ k \notin D /\ m \notin Visited(im, k)
      BY <3>1, ImportedInMod DEF Acyclic
    <3>3. k \in S /\ m \notin S /\ S \subseteq Mod /\ Closed(im, Visited(im, k))
      BY <3>2, VisitedIsLeast
    <3>4. Closed(all, S)
      BY <1>8, <3>3 DEF Closed
    <3> QED
      BY <3>2, <3>3, <3>4, LeftOut
  <2> QED
    BY <2>1, <2>2
<1> QED
  BY <1>4, <1>7, <1>8, <1>9

-----------------------------------------------------------------------------
(* The steps.                                                              *)

\* When references go, imports stay as the step left them or go with their module.
LEMMA Releasing ==
  ASSUME NEW A, NEW h, NEW fs, NEW tb, NEW im \in [Mod -> Seq(Mod)], NEW ca,
         Release(A, h, fs, tb, im, ca), Acyclic(im),
         loaded' \subseteq Mod, h \subseteq loaded',
         \A m \in Mod : Imported(im, m) \subseteq loaded'
  PROVE  IInv'
<1>1. held' = h /\ imports' \in [Mod -> Seq(Mod)]
  BY DEF Release
<1>2. \A m \in Mod : imports'[m] = im[m] \/ imports'[m] = <<>>
  BY DEF Release
<1>3. \A m \in Mod : Imported(imports', m) \subseteq Imported(im, m)
  BY <1>2 DEF Imported
<1>4. Acyclic(imports')
  BY <1>1, <1>3, FewerImports
<1>5. ImportsAcyclic'
  BY <1>4 DEF ImportsAcyclic, Acyclic, Visited, Closed, Imported
<1>6. \A m \in Mod : Imported(imports, m)' \subseteq loaded'
  BY <1>3 DEF Imported
<1> QED
  BY <1>1, <1>5, <1>6 DEF IInv

\* A step that leaves the imports alone, and lets callers hold what was loaded.
LEMMA SameImports ==
  ASSUME IInv, imports' = imports, loaded' = loaded, held' \subseteq loaded
  PROVE  IInv'
<1>1. ImportsAcyclic'
  <2>1. Acyclic(imports')
    BY FewerImports DEF IInv, ImportsAcyclic
  <2> QED
    BY <2>1 DEF ImportsAcyclic, Acyclic, Visited, Closed, Imported
<1>2. \A m \in Mod : Imported(imports, m)' = Imported(imports, m)
  BY DEF Imported
<1> QED
  BY <1>1, <1>2 DEF IInv

\* At the start nothing is imported.
LEMMA InitIInv == Init => IInv
<1> SUFFICES ASSUME Init PROVE IInv
  OBVIOUS
<1>1. imports \in [Mod -> Seq(Mod)] /\ \A m \in Mod : imports[m] = <<>>
  BY DEF Init, NoImports
<1>2. \A m \in Mod : Imported(imports, m) = {}
  BY <1>1 DEF Imported
<1> QED
  BY <1>1, <1>2 DEF Init, IInv, ImportsAcyclic, Acyclic

\* Importing a module adds one import.
LEMMA ImportModuleStep ==
  ASSUME IInv, NEW m \in Mod, NEW other \in Mod, ImportModule(m, other)
  PROVE  IInv'
<1>1. /\ imports \in [Mod -> Seq(Mod)] /\ Acyclic(imports)
      /\ m \in loaded /\ other \in loaded /\ m \notin Visited(imports, other)
      /\ imports' = [imports EXCEPT ![m] = Append(@, other)]
      /\ loaded' = loaded /\ held' = held
  BY DEF IInv, ImportsAcyclic, ImportModule
<1>2. imports' \in [Mod -> Seq(Mod)]
  BY <1>1
<1>3. Imported(imports', m) = Imported(imports, m) \cup {other}
  <2>1. imports[m] \in Seq(Mod) /\ imports'[m] = Append(imports[m], other)
    BY <1>1
  <2> DEFINE s == imports[m]
  <2>2. {Append(s, other)[i] : i \in DOMAIN Append(s, other)} = {s[i] : i \in DOMAIN s} \cup {other}
    BY <2>1, AppendProperties
  <2> QED
    BY <2>1, <2>2 DEF Imported
<1>4. \A x \in Mod \ {m} : Imported(imports', x) = Imported(imports, x)
  BY <1>1 DEF Imported
<1>5. Acyclic(imports')
  <2>1. imports \in [Mod -> Seq(Mod)] /\ Acyclic(imports) /\ m \notin Visited(imports, other)
    BY <1>1
  <2> QED
    BY <2>1, <1>2, <1>3, <1>4, OneMoreImport
<1>6. ImportsAcyclic'
  BY <1>5 DEF ImportsAcyclic, Acyclic, Visited, Closed, Imported
<1>7. \A x \in Mod : Imported(imports', x) \subseteq loaded
  BY <1>1, <1>3, <1>4 DEF IInv
<1>8. \A x \in Mod : Imported(imports, x)' \subseteq loaded'
  BY <1>1, <1>7 DEF Imported
<1> QED
  BY <1>1, <1>2, <1>6, <1>8 DEF IInv

\* Loading a library adds modules, of which the caller holds the root.
LEMMA ProcessLibraryBinStep ==
  ASSUME IInv, NEW lib \in Bundles, ProcessLibraryBin(lib)
  PROVE  IInv'
<1>1. /\ loaded' = loaded \cup DOMAIN lib.imports /\ loaded' \subseteq Mod
      /\ held \cup {lib.root} \subseteq loaded'
  BY ModulesAssumption DEF IInv, ProcessLibraryBin
<1>2. \A m \in Mod : Imported(imports, m) \cap DOMAIN lib.imports = {}
  BY DEF IInv, ProcessLibraryBin
<1>3. /\ WithImportsOf(lib, imports) \in [Mod -> Seq(Mod)]
      /\ Acyclic(WithImportsOf(lib, imports))
      /\ \A m \in Mod : Imported(WithImportsOf(lib, imports), m)
                          \subseteq Imported(imports, m) \cup DOMAIN lib.imports
  BY <1>2, LibraryImports DEF IInv, ImportsAcyclic
<1>4. \A m \in Mod : Imported(WithImportsOf(lib, imports), m) \subseteq loaded'
  BY <1>1, <1>3 DEF IInv
<1> QED
  BY <1>1, <1>3, <1>4, Releasing DEF ProcessLibraryBin

\* Clearing the imports of a module takes them away, and what they alone kept.
LEMMA ClearImportsStep ==
  ASSUME IInv, NEW m \in Mod, ClearImports(m)
  PROVE  IInv'
<1> DEFINE im == [imports EXCEPT ![m] = <<>>]
<1>1. im \in [Mod -> Seq(Mod)]
  BY DEF IInv
<1>2. \A x \in Mod : im[x] = imports[x] \/ im[x] = <<>>
  BY DEF IInv
<1>3. \A x \in Mod : Imported(im, x) \subseteq Imported(imports, x)
  BY <1>2 DEF Imported
<1>4. Acyclic(im)
  BY <1>1, <1>3, FewerImports DEF IInv, ImportsAcyclic
<1>5. \A x \in Mod : Imported(im, x) \subseteq loaded
  BY <1>3 DEF IInv
<1> QED
  BY <1>1, <1>4, <1>5, Releasing DEF ClearImports, IInv

\* A step that gives something up without touching the imports.
LEMMA ReleaseStep ==
  ASSUME IInv, NEW h, NEW fs, NEW tb, Release(alive, h, fs, tb, imports, cache),
         h \subseteq held, loaded' = loaded
  PROVE  IInv'
BY Releasing DEF IInv, ImportsAcyclic

\* Every step keeps the inductive form.
LEMMA NextIInv == IInv /\ [Next]_vars => IInv'
<1> SUFFICES ASSUME IInv, [Next]_vars PROVE IInv'
  OBVIOUS
<1>1. CASE \E lib \in Bundles : ProcessLibraryBin(lib)
  BY <1>1, ProcessLibraryBinStep
<1>2. CASE \E m, other \in Mod : ImportModule(m, other)
  BY <1>2, ImportModuleStep
<1>3. CASE \E m \in Mod : ClearImports(m)
  BY <1>3, ClearImportsStep
<1>4. CASE \E m \in Mod : DropModule(m)
  BY <1>4, ReleaseStep DEF DropModule
<1>5. CASE \E m \in Mod : \E i \in DOMAIN imports[m] : TakeImport(m, i)
  <2>1. PICK m \in Mod : \E i \in DOMAIN imports[m] : TakeImport(m, i)
    BY <1>5
  <2>2. PICK i \in DOMAIN imports[m] : TakeImport(m, i)
    BY <2>1
  <2>3. imports[m][i] \in loaded
    BY <2>2 DEF IInv, Imported
  <2> QED
    BY <2>2, <2>3, SameImports DEF TakeImport, IInv
<1>6. CASE \E m \in Mod, name \in Name : TakeFunction(m, name)
  BY <1>6, SameImports DEF TakeFunction, IInv
<1>7. CASE \E m \in Mod, name \in Name : GetFunctionFromImports(m, name)
  BY <1>7, SameImports DEF GetFunctionFromImports, IInv
<1>8. CASE \E name \in Name, f \in Func, canOverride \in BOOLEAN : UpdateGlobal(name, f, canOverride)
  BY <1>8, ReleaseStep DEF UpdateGlobal
<1>9. CASE \E name \in Name : RemoveGlobal(name)
  BY <1>9, ReleaseStep DEF RemoveGlobal
<1>10. CASE \E f \in Func : DropFunction(f)
  BY <1>10, ReleaseStep DEF DropFunction
<1>11. CASE UNCHANGED vars
  BY <1>11, SameImports DEF vars, IInv
<1> QED
  BY <1>1, <1>2, <1>3, <1>4, <1>5, <1>6, <1>7, <1>8, <1>9, <1>10, <1>11 DEF Next

\* No sequence of operations makes a module import itself, to any depth.
THEOREM ImportsStayAcyclic == Spec => []ImportsAcyclic
<1>1. IInv => ImportsAcyclic
  BY DEF IInv
<1> QED
  BY <1>1, InitIInv, NextIInv, PTL DEF Spec
-----------------------------------------------------------------------------
(* The lookup.  GetFunction is defined by recursion over the imports, which *)
(* defines a function because they are finite and have no cycle: a set of  *)
(* modules has one that imports none of the set.                           *)

\* A nonempty set of numbers has a smallest one.
LEMMA SmallestNumber ==
  ASSUME NEW T \in SUBSET Nat, T # {}
  PROVE  \E n \in T : \A i \in T : n <= i
<1>1. PICK n \in T : \A i \in T : ~ (<<i, n>> \in OpToRel(<, Nat))
  BY NatLessThanWellFounded, WFMin
<1>2. \A i \in T : ~ (i < n)
  BY <1>1 DEF OpToRel
<1> QED
  BY <1>2

\* Without a cycle, a set of modules has one that imports none of the set: one from which the
\* search visits the fewest modules.
LEMMA ImportsNoneOfTheSet ==
  ASSUME NEW im \in [Mod -> Seq(Mod)], Acyclic(im), NEW T \in SUBSET Mod, T # {}
  PROVE  \E m \in T : Imported(im, m) \cap T = {}
<1> DEFINE size(m) == Cardinality(Visited(im, m))
<1>1. \A m \in Mod : IsFiniteSet(Visited(im, m)) /\ size(m) \in Nat
  <2> SUFFICES ASSUME NEW m \in Mod PROVE IsFiniteSet(Visited(im, m)) /\ size(m) \in Nat
    OBVIOUS
  <2>1. Visited(im, m) \subseteq Mod /\ IsFiniteSet(Mod)
    BY VisitedIsLeast, ModulesAssumption
  <2>2. IsFiniteSet(Visited(im, m))
    BY <2>1, FS_Subset
  <2> QED
    BY <2>2, FS_CardinalityType
<1>2. \A m \in Mod : \A k \in Imported(im, m) : k \in Mod /\ size(k) < size(m)
  <2> SUFFICES ASSUME NEW m \in Mod, NEW k \in Imported(im, m) PROVE k \in Mod /\ size(k) < size(m)
    OBVIOUS
  <2>1. k \in Mod /\ m \notin Visited(im, k)
    BY ImportedInMod DEF Acyclic
  <2>2. /\ m \in Visited(im, m) /\ Closed(im, Visited(im, m)) /\ Visited(im, m) \subseteq Mod
    BY VisitedIsLeast
  <2>3. Visited(im, k) \subseteq Visited(im, m)
    BY <2>1, <2>2, VisitedIsLeast DEF Closed
  <2>4. Visited(im, k) # Visited(im, m) /\ IsFiniteSet(Visited(im, m)) /\ IsFiniteSet(Visited(im, k))
    BY <1>1, <2>1, <2>2
  <2>5. size(k) <= size(m) /\ size(k) # size(m)
    BY <2>3, <2>4, FS_Subset
  <2> QED
    BY <1>1, <2>1, <2>5
<1> HIDE DEF size
<1> DEFINE Sizes == {size(m) : m \in T}
<1>3. Sizes \in SUBSET Nat /\ Sizes # {}
  BY <1>1
<1>4. PICK n \in Sizes : \A i \in Sizes : n <= i
  BY <1>3, SmallestNumber
<1>5. PICK m \in T : n = size(m)
  BY <1>4
<1>6. ASSUME NEW k \in T PROVE size(m) <= size(k)
  BY <1>4, <1>5
<1>7. ASSUME NEW k \in Imported(im, m), k \in T PROVE FALSE
  <2>1. size(k) < size(m) /\ size(m) <= size(k) /\ size(k) \in Nat /\ size(m) \in Nat
    BY <1>1, <1>2, <1>6, <1>7
  <2> QED
    BY <2>1
<1> QED
  BY <1>7

\* What GetFunction returns for a module, when g is what it returns for the imports.
Lookup(im, name, g, m) ==
    LET found == {i \in DOMAIN im[m] : g[im[m][i]] # None}
        first == CHOOSE i \in found : \A j \in found : i <= j
    IN  IF name \in Symbols[m] THEN [name |-> name, mod |-> m]
        ELSE IF found = {} THEN None ELSE g[im[m][first]]

\* GetFunction finds a function of the module itself, or what it finds in one of the imports.
LEMMA LookupFinds ==
  ASSUME NEW im \in [Mod -> Seq(Mod)], NEW name \in Name, NEW g, NEW m \in Mod
  PROVE  \/ Lookup(im, name, g, m) = None
         \/ Lookup(im, name, g, m) = [name |-> name, mod |-> m]
         \/ \E k \in Imported(im, m) : Lookup(im, name, g, m) = g[k] /\ g[k] # None
<1> DEFINE found == {i \in DOMAIN im[m] : g[im[m][i]] # None}
           first == CHOOSE i \in found : \A j \in found : i <= j
<1>1. CASE name \notin Symbols[m] /\ found # {}
  <2>1. found \in SUBSET Nat
    <3>1. im[m] \in Seq(Mod)
      OBVIOUS
    <3>2. DOMAIN im[m] \subseteq Nat
      BY <3>1
    <3> QED
      BY <3>2
  <2>2. first \in found
    BY <1>1, <2>1, SmallestNumber
  <2>3. im[m][first] \in Imported(im, m) /\ g[im[m][first]] # None
    BY <2>2 DEF Imported
  <2>4. Lookup(im, name, g, m) = g[im[m][first]]
    BY <1>1 DEF Lookup
  <2> QED
    BY <2>3, <2>4
<1> QED
  BY <1>1 DEF Lookup

\* It depends on the results for the imports only.
LEMMA LookupOfImports ==
  ASSUME NEW im \in [Mod -> Seq(Mod)], NEW name \in Name, NEW g, NEW h, NEW m \in Mod,
         \A k \in Imported(im, m) : g[k] = h[k]
  PROVE  Lookup(im, name, g, m) = Lookup(im, name, h, m)
<1>1. \A i \in DOMAIN im[m] : g[im[m][i]] = h[im[m][i]]
  BY DEF Imported
<1> DEFINE found(f) == {i \in DOMAIN im[m] : f[im[m][i]] # None}
           first(f) == CHOOSE i \in found(f) : \A j \in found(f) : i <= j
<1>2. found(g) = found(h)
  BY <1>1
<1>3. first(g) = first(h)
  BY <1>2
<1>4. CASE found(g) # {}
  <2>1. \E k \in Imported(im, m) : TRUE
    BY <1>4 DEF Imported
  <2>2. found(g) \in SUBSET Nat
    <3>1. im[m] \in Seq(Mod)
      OBVIOUS
    <3>2. DOMAIN im[m] \subseteq Nat
      BY <3>1
    <3> QED
      BY <3>2
  <2>3. first(g) \in found(g)
    BY <1>4, <2>2, SmallestNumber
  <2>4. g[im[m][first(g)]] = h[im[m][first(h)]]
    BY <1>1, <1>3, <2>3
  <2> HIDE DEF first
  <2>5. /\ Lookup(im, name, g, m) = IF name \in Symbols[m] THEN [name |-> name, mod |-> m] ELSE g[im[m][first(g)]]
        /\ Lookup(im, name, h, m) = IF name \in Symbols[m] THEN [name |-> name, mod |-> m] ELSE h[im[m][first(h)]]
    BY <1>2, <1>4 DEF Lookup, first
  <2> QED
    BY <2>4, <2>5
<1>5. CASE found(g) = {}
  BY <1>2, <1>5 DEF Lookup
<1> QED
  BY <1>4, <1>5

\* The equations of the recursion, for the modules of a set.
Solves(im, name, g, S) == \A k \in S : g[k] = Lookup(im, name, g, k)

\* What solves the equations of the recursion for a set of modules can be made to solve them
\* for one more whose imports are in the set.
LEMMA LookupExtends ==
  ASSUME NEW im \in [Mod -> Seq(Mod)], NEW name \in Name
  PROVE  \A g \in [Mod -> Func \cup {None}], S \in SUBSET Mod, m \in Mod :
           Closed(im, S) /\ Solves(im, name, g, S) /\ m \notin S /\ Imported(im, m) \subseteq S
             => \E h \in [Mod -> Func \cup {None}] : Solves(im, name, h, S \cup {m})
<1>1. ASSUME NEW g \in [Mod -> Func \cup {None}], NEW S \in SUBSET Mod, NEW m \in Mod,
             Closed(im, S), Solves(im, name, g, S), m \notin S, Imported(im, m) \subseteq S
      PROVE  \E h \in [Mod -> Func \cup {None}] : Solves(im, name, h, S \cup {m})
  <2>1. PICK v : v = Lookup(im, name, g, m)
    OBVIOUS
  <2>2. v \in Func \cup {None}
    <3>1. [name |-> name, mod |-> m] \in Func
      BY DEF Func
    <3>2. \A k \in Imported(im, m) : g[k] \in Func \cup {None}
      BY <1>1
    <3>3. \/ v = None \/ v = [name |-> name, mod |-> m]
          \/ \E k \in Imported(im, m) : v = g[k] /\ g[k] # None
      <4>1. \A f : \/ Lookup(im, name, f, m) = None
                  \/ Lookup(im, name, f, m) = [name |-> name, mod |-> m]
                  \/ \E k \in Imported(im, m) : Lookup(im, name, f, m) = f[k] /\ f[k] # None
        BY LookupFinds
      <4> QED
        BY <2>1, <4>1
    <3> QED
      BY <3>1, <3>2, <3>3
  <2>3. PICK h \in [Mod -> Func \cup {None}] : h[m] = v /\ \A k \in S : h[k] = g[k]
    <3>1. [g EXCEPT ![m] = v] \in [Mod -> Func \cup {None}]
      BY <2>2
    <3> QED
      BY <1>1, <3>1
  <2>4. ASSUME NEW k \in Mod, k \in S \cup {m} PROVE h[k] = Lookup(im, name, h, k)
    <3>1. Imported(im, k) \subseteq S
      BY <1>1, <2>4 DEF Closed
    <3>2. \A x \in Imported(im, k) : g[x] = h[x]
      BY <2>3, <3>1
    <3>3. Lookup(im, name, g, k) = Lookup(im, name, h, k)
      BY <3>2, LookupOfImports
    <3>4. h[k] = Lookup(im, name, g, k)
      BY <1>1, <2>1, <2>3, <2>4 DEF Solves
    <3> QED
      BY <3>3, <3>4
  <2> QED
    BY <2>4 DEF Solves
<1> QED
  BY <1>1

\* The equations of the recursion have a solution: a largest closed set of modules on which
\* they have one is all of them, for else a module outside that imports only such inside
\* could be added.
LEMMA LookupHasSolution ==
  ASSUME NEW im \in [Mod -> Seq(Mod)], Acyclic(im), NEW name \in Name
  PROVE  \E g : g = [m \in Mod |-> Lookup(im, name, g, m)]
<1> DEFINE Value == Func \cup {None}
           Solvable == {S \in SUBSET Mod :
                          Closed(im, S) /\ \E g \in [Mod -> Value] : Solves(im, name, g, S)}
           Rest == {Cardinality(Mod \ S) : S \in Solvable}
<1>1. {} \in Solvable
  <2>1. [m \in Mod |-> None] \in [Mod -> Value]
    OBVIOUS
  <2> QED
    BY <2>1 DEF Closed, Solves
<1>2. \A S \in SUBSET Mod : IsFiniteSet(Mod \ S) /\ Cardinality(Mod \ S) \in Nat
  BY ModulesAssumption, FS_Subset, FS_CardinalityType
<1>3. Rest \in SUBSET Nat /\ Rest # {}
  BY <1>1, <1>2
<1>4. PICK n \in Rest : \A i \in Rest : n <= i
  BY <1>3, SmallestNumber
<1>5. PICK S \in Solvable : n = Cardinality(Mod \ S)
  BY <1>4
<1>6. PICK g \in [Mod -> Value] : Solves(im, name, g, S)
  BY <1>5
<1>7. S \subseteq Mod /\ Closed(im, S)
  BY <1>5
<1>8. S = Mod
  <2> SUFFICES ASSUME S # Mod PROVE FALSE
    OBVIOUS
  <2>1. PICK m \in Mod \ S : Imported(im, m) \cap (Mod \ S) = {}
    BY <1>7, ImportsNoneOfTheSet
  <2>2. Imported(im, m) \subseteq S
    BY <2>1, ImportedInMod
  <2>5. \E h \in [Mod -> Value] : Solves(im, name, h, S \cup {m})
    <3> HIDE DEF Solvable, Rest
    <3> QED
      BY <1>6, <1>7, <2>1, <2>2, LookupExtends
  <2>6. Closed(im, S \cup {m})
    BY <1>7, <2>2 DEF Closed
  <2>7. S \cup {m} \in Solvable
    BY <1>7, <2>1, <2>5, <2>6
  <2>8. Cardinality(Mod \ (S \cup {m})) < Cardinality(Mod \ S)
    <3> DEFINE more == Mod \ S
               less == Mod \ (S \cup {m})
    <3>1. less \subseteq more /\ less # more
      BY <2>1
    <3>2. IsFiniteSet(more) /\ Cardinality(more) \in Nat /\ Cardinality(less) \in Nat
      BY <1>2, <1>7
    <3> HIDE DEF more, less
    <3>3. Cardinality(less) <= Cardinality(more) /\ Cardinality(less) # Cardinality(more)
      BY <3>1, <3>2, FS_Subset
    <3>4. Cardinality(less) < Cardinality(more)
      BY <3>2, <3>3
    <3> QED
      BY <3>4 DEF more, less
  <2>9. Cardinality(Mod \ (S \cup {m})) \in Rest
    BY <2>7
  <2>10. n <= Cardinality(Mod \ (S \cup {m})) /\ n \in Nat /\ Cardinality(Mod \ (S \cup {m})) \in Nat
    BY <1>3, <1>4, <2>9
  <2> QED
    BY <1>5, <2>8, <2>10
<1>9. g = [m \in Mod |-> Lookup(im, name, g, m)]
  BY <1>6, <1>8 DEF Solves
<1> QED
  BY <1>9

\* GetFunction is what its recursive definition says.
LEMMA GetFunctionIsLookup ==
  ASSUME imports \in [Mod -> Seq(Mod)], Acyclic(imports), NEW name \in Name
  PROVE  GetFunction(name) = [m \in Mod |-> Lookup(imports, name, GetFunction(name), m)]
<1>1. GetFunction(name) = CHOOSE F : F = [m \in Mod |-> Lookup(imports, name, F, m)]
  BY DEF GetFunction, Lookup
<1>2. \E F : F = [m \in Mod |-> Lookup(imports, name, F, m)]
  BY LookupHasSolution
<1> QED
  BY <1>1, <1>2

\* The function that is found has the name, and is of a module that the search visits.
LEMMA FunctionOfVisited ==
  ASSUME imports \in [Mod -> Seq(Mod)], Acyclic(imports), NEW name \in Name, NEW m \in Mod,
         GetFunction(name)[m] # None
  PROVE  /\ GetFunction(name)[m] \in Func
         /\ GetFunction(name)[m].mod \in Visited(imports, m)
<1> DEFINE F == GetFunction(name)
           Found(k) == F[k] \in Func /\ F[k].mod \in Visited(imports, k)
           T == {k \in Mod : F[k] # None /\ ~ Found(k)}
<1>1. \A k \in Mod : F[k] = Lookup(imports, name, F, k)
  BY GetFunctionIsLookup
<1> HIDE DEF F
<1>2. ASSUME T # {} PROVE FALSE
  <2>1. PICK k \in T : Imported(imports, k) \cap T = {}
    BY <1>2, ImportsNoneOfTheSet
  <2>2. k \in Mod /\ F[k] # None /\ ~ Found(k) /\ F[k] = Lookup(imports, name, F, k)
    BY <1>1, <2>1
  <2>3. CASE F[k] = [name |-> name, mod |-> k]
    <3>1. k \in Visited(imports, k)
      BY <2>2, VisitedIsLeast
    <3> QED
      BY <2>2, <2>3, <3>1 DEF Func
  <2>4. CASE \E x \in Imported(imports, k) : F[k] = F[x] /\ F[x] # None
    <3>1. PICK x \in Imported(imports, k) : F[k] = F[x] /\ F[x] # None
      BY <2>4
    <3>2. x \in Mod
      BY <2>2, ImportedInMod
    <3>3. Found(x)
      BY <2>1, <3>1, <3>2
    <3>4. Visited(imports, x) \subseteq Visited(imports, k)
      <4>1. /\ k \in Visited(imports, k) /\ Closed(imports, Visited(imports, k))
            /\ Visited(imports, k) \subseteq Mod
        BY <2>2, VisitedIsLeast
      <4>2. x \in Visited(imports, k)
        BY <4>1 DEF Closed
      <4> QED
        BY <3>2, <4>1, <4>2, VisitedIsLeast
    <3> QED
      BY <2>2, <3>1, <3>3, <3>4
  <2> QED
    BY <2>2, <2>3, <2>4, LookupFinds
<1> QED
  BY <1>2 DEF F

-----------------------------------------------------------------------------
(* References.                                                             *)

\* The function a set has contributes its module.
LEMMA ModsOfMembers ==
  ASSUME NEW F, NEW f \in F, f # None, f.mod # None
  PROVE  f.mod \in ModsOf(F)
BY DEF ModsOf

LEMMA ModsOfGrows ==
  ASSUME NEW F, NEW G, F \subseteq G \cup {None}
  PROVE  ModsOf(F) \subseteq ModsOf(G)
BY DEF ModsOf

\* Of modules that refer only to one another, those that survive include the ones that are
\* held from outside, and with each of them all it refers to.
LEMMA SurvivorsAreClosed ==
  ASSUME NEW A, NEW roots, NEW im, NEW ca,
         roots \subseteq A, \A m \in A : RefersTo(im, ca, m) \subseteq A
  PROVE  /\ roots \subseteq Survivors(A, roots, im, ca)
         /\ Survivors(A, roots, im, ca) \subseteq A
         /\ \A m \in Survivors(A, roots, im, ca) :
              RefersTo(im, ca, m) \subseteq Survivors(A, roots, im, ca)
<1> DEFINE Kept(S) == \A m \in S : m \in roots \/ \E k \in S : m \in RefersTo(im, ca, k)
           Surv == Survivors(A, roots, im, ca)
<1>1. \A x : x \in Surv <=> \E S \in SUBSET A : Kept(S) /\ x \in S
  BY DEF Survivors
<1>2. roots \in SUBSET A /\ Kept(roots)
  OBVIOUS
<1> HIDE DEF Surv
<1>3. roots \subseteq Surv
  BY <1>1, <1>2
<1>4. Surv \subseteq A
  BY <1>1
<1>5. ASSUME NEW m \in Surv, NEW k \in RefersTo(im, ca, m) PROVE k \in Surv
  <2>1. PICK S \in SUBSET A : Kept(S) /\ m \in S
    BY <1>1, <1>5
  <2>2. k \in A
    BY <1>5, <2>1
  <2>3. S \cup {k} \in SUBSET A /\ Kept(S \cup {k})
    BY <1>5, <2>1, <2>2
  <2> QED
    BY <1>1, <2>3
<1> QED
  BY <1>3, <1>4, <1>5 DEF Surv

\* References that go take along what only they led to, and leave nothing behind that would
\* refer to it; handles of modules that stay remain in the caches.
LEMMA ReleasingReferences ==
  ASSUME NEW A, NEW h, NEW fs, NEW tb, NEW im \in [Mod -> Seq(Mod)],
         NEW ca \in [Mod -> [Name -> Func \cup {None}]],
         Release(A, h, fs, tb, im, ca), A \subseteq loaded', loaded' \subseteq Mod,
         fs \subseteq Func, tb \in [Name -> Func \cup {None}],
         Roots(h, fs, tb) \subseteq A,
         \A m \in A : RefersTo(im, ca, m) \subseteq A,
         weak \subseteq Mod \X Name, \A w \in weak : w[1] \in A => ca[w[1]][w[2]] # None
  PROVE  RInv'
<1>1. PICK S : S = Survivors(A, Roots(h, fs, tb), im, ca)
  OBVIOUS
<1>2. /\ Roots(h, fs, tb) \subseteq S /\ S \subseteq A
      /\ \A m \in S : RefersTo(im, ca, m) \subseteq S
  BY <1>1, SurvivorsAreClosed
<1>3. /\ alive' = S
      /\ imports' = [m \in Mod |-> IF m \in S THEN im[m] ELSE <<>>]
      /\ cache' = [m \in Mod |-> IF m \in S THEN ca[m] ELSE [n \in Name |-> None]]
      /\ weak' = {w \in weak : w[1] \in S}
      /\ held' = h /\ funcs' = fs /\ table' = tb
  BY <1>1 DEF Release
<1>4. S \subseteq Mod
  BY <1>2
<1>5. \A m \in S : imports'[m] = im[m] /\ cache'[m] = ca[m]
  BY <1>3, <1>4
<1>6. TypeOK'
  <2>1. h \subseteq Mod
    BY <1>2, <1>4 DEF Roots
  <2>2. imports' \in [Mod -> Seq(Mod)]
    BY <1>3
  <2>3. [n \in Name |-> None] \in [Name -> Func \cup {None}]
    OBVIOUS
  <2>4. cache' \in [Mod -> [Name -> Func \cup {None}]]
    BY <1>3, <2>3
  <2>5. weak' \subseteq Mod \X Name
    BY <1>3
  <2> QED
    BY <1>2, <1>3, <2>1, <2>2, <2>4, <2>5 DEF TypeOK
<1>7. Roots(held, funcs, table)' \subseteq S
  BY <1>2, <1>3 DEF Roots, ModsOf
<1>8. \A m \in S : RefersTo(imports, cache, m)' \subseteq S
  <2> SUFFICES ASSUME NEW m \in S PROVE RefersTo(imports, cache, m)' \subseteq S
    OBVIOUS
  <2>1. Imported(imports, m)' = Imported(im, m) /\ ModsOf(Cached(cache, m))' = ModsOf(Cached(ca, m))
    BY <1>5 DEF Imported, ModsOf, Cached
  <2> QED
    BY <1>2, <2>1 DEF RefersTo
<1>9. \A m \in Mod \ S : imports'[m] = <<>> /\ \A n \in Name : cache'[m][n] = None
  BY <1>3
<1>10. \A w \in weak' : w[1] \in S /\ cache'[w[1]][w[2]] # None
  BY <1>2, <1>3, <1>5
<1> QED
  BY <1>3, <1>6, <1>7, <1>8, <1>9, <1>10 DEF RInv

\* At the start nothing refers to anything.
LEMMA InitRInv == Init => RInv
<1> SUFFICES ASSUME Init PROVE RInv
  OBVIOUS
<1>1. /\ alive = {} /\ loaded = {} /\ held = {} /\ funcs = {} /\ weak = {}
      /\ imports = [m \in Mod |-> <<>>] /\ cache = [m \in Mod |-> [n \in Name |-> None]]
      /\ table = [n \in Name |-> None]
  BY DEF Init, NoImports
<1>2. TypeOK
  BY <1>1 DEF TypeOK
<1>3. Roots(held, funcs, table) = {}
  BY <1>1 DEF Roots, ModsOf
<1> QED
  BY <1>1, <1>2, <1>3 DEF RInv

\* The modules of a library refer to one another, and those that were there do not to them.
LEMMA ProcessLibraryBinKeepsReferences ==
  ASSUME IInv, RInv, NEW lib \in Bundles, ProcessLibraryBin(lib)
  PROVE  RInv'
<1> DEFINE D == DOMAIN lib.imports
           A == alive \cup D
           im == WithImportsOf(lib, imports)
<1>1. /\ D \cap loaded = {} /\ loaded' = loaded \cup D
      /\ Release(A, held \cup {lib.root}, funcs, table, im, cache)
  BY DEF ProcessLibraryBin
<1>2. D \subseteq Mod /\ lib.root \in D /\ lib.imports \in [D -> Seq(D)]
  BY ModulesAssumption
<1>3. im \in [Mod -> Seq(Mod)]
  <2>1. \A m \in Mod : Imported(imports, m) \cap D = {}
    BY <1>1 DEF IInv
  <2> QED
    BY <2>1, LibraryImports DEF IInv, ImportsAcyclic
<1>4. A \subseteq loaded' /\ loaded' \subseteq Mod
  BY <1>1, <1>2 DEF RInv, TypeOK
<1>5. Roots(held \cup {lib.root}, funcs, table) \subseteq A
  BY <1>2 DEF RInv, Roots
<1>6. ASSUME NEW m \in A PROVE RefersTo(im, cache, m) \subseteq A
  <2>1. m \in Mod
    BY <1>4
  <2>2. CASE m \in D
    <3>1. im[m] = lib.imports[m] /\ lib.imports[m] \in Seq(D)
      BY <1>2, <2>1, <2>2 DEF WithImportsOf
    <3>2. Imported(im, m) \subseteq D
      BY <3>1 DEF Imported
    <3>3. m \in Mod \ alive
      BY <1>1, <2>1, <2>2 DEF RInv, TypeOK
    <3>4. ModsOf(Cached(cache, m)) = {}
      BY <3>3 DEF RInv, ModsOf, Cached
    <3> QED
      BY <3>2, <3>4 DEF RefersTo
  <2>3. CASE m \notin D
    <3>1. im[m] = imports[m] /\ m \in alive
      BY <1>6, <2>1, <2>3 DEF WithImportsOf
    <3>2. RefersTo(im, cache, m) = RefersTo(imports, cache, m)
      BY <3>1 DEF RefersTo, Imported
    <3> QED
      BY <3>1, <3>2 DEF RInv
  <2> QED
    BY <2>2, <2>3
<1>7. /\ cache \in [Mod -> [Name -> Func \cup {None}]] /\ table \in [Name -> Func \cup {None}]
      /\ funcs \subseteq Func /\ weak \subseteq Mod \X Name
      /\ \A w \in weak : w[1] \in A => cache[w[1]][w[2]] # None
  BY DEF RInv, TypeOK
<1>8. \A m \in A : RefersTo(im, cache, m) \subseteq A
  BY <1>6
<1> HIDE DEF D, A, im
<1>9. PICK h : h = held \cup {lib.root}
  OBVIOUS
<1>10. Release(A, h, funcs, table, im, cache) /\ Roots(h, funcs, table) \subseteq A
  BY <1>1, <1>5, <1>9
<1> QED
  BY <1>3, <1>4, <1>7, <1>8, <1>10, ReleasingReferences

\* A step that takes imports away or gives up handles, or registers a function that exists.
LEMMA ReleaseKeepsReferences ==
  ASSUME RInv, NEW h, NEW fs, NEW tb, NEW im \in [Mod -> Seq(Mod)],
         Release(alive, h, fs, tb, im, cache), loaded' = loaded,
         \A m \in Mod : Imported(im, m) \subseteq Imported(imports, m),
         h \subseteq held, fs \subseteq funcs, tb \in [Name -> Func \cup {None}],
         ModsOf({tb[n] : n \in Name}) \subseteq alive
  PROVE  RInv'
<1>1. /\ cache \in [Mod -> [Name -> Func \cup {None}]]
      /\ funcs \subseteq Func /\ weak \subseteq Mod \X Name
      /\ \A w \in weak : cache[w[1]][w[2]] # None
      /\ alive \subseteq loaded' /\ loaded' \subseteq Mod
      /\ alive \subseteq Mod
      /\ held \subseteq alive /\ ModsOf(funcs) \subseteq alive
  BY DEF RInv, TypeOK, Roots
<1>2. fs \subseteq Func /\ Roots(h, fs, tb) \subseteq alive
  BY <1>1, ModsOfGrows DEF Roots
<1>3. \A m \in alive : RefersTo(im, cache, m) \subseteq alive
  <2>1. \A m \in alive : RefersTo(imports, cache, m) \subseteq alive
    BY DEF RInv
  <2> QED
    BY <1>1, <2>1 DEF RefersTo
<1> QED
  BY <1>1, <1>2, <1>3, ReleasingReferences

\* A function that is registered is one of the process or of a module that a caller holds.
LEMMA UpdateGlobalKeepsReferences ==
  ASSUME IInv, RInv, NEW name \in Name, NEW f \in Func, NEW canOverride \in BOOLEAN,
         UpdateGlobal(name, f, canOverride)
  PROVE  RInv'
<1> DEFINE tb == [table EXCEPT ![name] = f]
<1>1. /\ f \in funcs \cup {[name |-> name, mod |-> None]} /\ loaded' = loaded
      /\ Release(alive, held, funcs, tb, imports, cache)
  BY DEF UpdateGlobal
<1>2. /\ table \in [Name -> Func \cup {None}] /\ imports \in [Mod -> Seq(Mod)]
      /\ ModsOf(funcs) \subseteq alive /\ ModsOf({table[n] : n \in Name}) \subseteq alive
  BY DEF RInv, TypeOK, Roots
<1>3. tb \in [Name -> Func \cup {None}]
  BY <1>2
<1>4. ModsOf({tb[n] : n \in Name}) \subseteq ModsOf({table[n] : n \in Name} \cup {f})
  <2>1. \A n \in Name : tb[n] = table[n] \/ tb[n] = f
    BY <1>2
  <2>2. {tb[n] : n \in Name} \subseteq ({table[n] : n \in Name} \cup {f}) \cup {None}
    BY <2>1
  <2> HIDE DEF tb
  <2> QED
    BY <2>2, ModsOfGrows
<1>5. ModsOf({table[n] : n \in Name} \cup {f}) \subseteq alive
  <2>1. f.mod = None \/ f \in funcs
    BY <1>1
  <2>2. f.mod # None /\ f # None => f.mod \in alive
    BY <1>2, <2>1, ModsOfMembers
  <2> QED
    BY <1>2, <2>2 DEF ModsOf
<1> HIDE DEF tb
<1>6. /\ ModsOf({tb[n] : n \in Name}) \subseteq alive
      /\ \A m \in Mod : Imported(imports, m) \subseteq Imported(imports, m)
  BY <1>4, <1>5
<1> QED
  BY <1>1, <1>2, <1>3, <1>6, ReleaseKeepsReferences

\* What a lookup in the imports of a module finds is there, with the module it belongs to.
LEMMA FromImportsIsAlive ==
  ASSUME IInv, RInv, NEW m \in alive, NEW name \in Name, FromImports(m, name) # None
  PROVE  /\ FromImports(m, name) \in Func
         /\ FromImports(m, name).mod # None => FromImports(m, name).mod \in alive
<1> DEFINE found == {i \in DOMAIN imports[m] : GetFunction(name)[imports[m][i]] # None}
           first == CHOOSE i \in found : \A j \in found : i <= j
<1>1. /\ imports \in [Mod -> Seq(Mod)] /\ Acyclic(imports) /\ m \in Mod /\ alive \subseteq Mod
      /\ table \in [Name -> Func \cup {None}]
      /\ \A k \in alive : RefersTo(imports, cache, k) \subseteq alive
      /\ ModsOf({table[n] : n \in Name}) \subseteq alive
  BY DEF IInv, ImportsAcyclic, RInv, TypeOK, Roots
<1>2. CASE found = {}
  <2>1. FromImports(m, name) = table[name] /\ table[name] \in {table[n] : n \in Name}
    BY <1>2 DEF FromImports
  <2> QED
    BY <1>1, <2>1, ModsOfMembers
<1>3. CASE found # {}
  <2>1. found \in SUBSET Nat
    <3>1. imports[m] \in Seq(Mod)
      BY <1>1
    <3>2. DOMAIN imports[m] \subseteq Nat
      BY <3>1
    <3> QED
      BY <3>2
  <2>2. first \in found
    BY <1>3, <2>1, SmallestNumber
  <2>3. FromImports(m, name) = GetFunction(name)[imports[m][first]]
    BY <1>3 DEF FromImports
  <2>4. PICK k \in Imported(imports, m) : FromImports(m, name) = GetFunction(name)[k]
    BY <2>2, <2>3 DEF Imported
  <2>5. k \in alive
    BY <1>1, <2>4 DEF RefersTo
  <2>6. /\ GetFunction(name)[k] \in Func
        /\ GetFunction(name)[k].mod \in Visited(imports, k)
    <3>1. k \in Mod /\ GetFunction(name)[k] # None
      BY <1>1, <2>4, <2>5
    <3> QED
      BY <1>1, <3>1, FunctionOfVisited
  <2>7. Visited(imports, k) \subseteq alive
    <3>1. Closed(imports, alive) /\ k \in Mod
      BY <1>1, <2>5 DEF Closed, RefersTo
    <3> QED
      BY <1>1, <2>5, <3>1, VisitedIsLeast
  <2> QED
    BY <2>4, <2>6, <2>7
<1> QED
  BY <1>2, <1>3

\* A handle is given out for a function that goes into the cache, or is there already.
LEMMA GetFunctionFromImportsKeepsReferences ==
  ASSUME IInv, RInv, NEW m \in Mod, NEW name \in Name, GetFunctionFromImports(m, name)
  PROVE  RInv'
<1> DEFINE f == IF cache[m][name] # None THEN cache[m][name] ELSE FromImports(m, name)
<1>1. /\ m \in alive /\ f # None
      /\ cache' = [cache EXCEPT ![m][name] = f] /\ weak' = weak \cup {<<m, name>>}
      /\ alive' = alive /\ loaded' = loaded /\ imports' = imports /\ table' = table
      /\ held' = held /\ funcs' = funcs
  BY DEF GetFunctionFromImports, Reachable
<1>2. /\ TypeOK /\ alive \subseteq Mod /\ cache \in [Mod -> [Name -> Func \cup {None}]]
      /\ weak \subseteq Mod \X Name
      /\ \A k \in alive : Imported(imports, k) \subseteq alive /\ ModsOf(Cached(cache, k)) \subseteq alive
  BY DEF RInv, TypeOK, RefersTo
<1>3. f \in Func /\ (f.mod # None => f.mod \in alive)
  <2>1. CASE cache[m][name] # None
    <3>1. cache[m][name] \in Func \cup {None} /\ cache[m][name] \in Cached(cache, m)
      BY <1>2 DEF Cached
    <3> QED
      BY <1>1, <1>2, <2>1, <3>1, ModsOfMembers
  <2>2. CASE cache[m][name] = None
    BY <1>1, <2>2, FromImportsIsAlive
  <2> QED
    BY <2>1, <2>2
<1> HIDE DEF f
<1>4. cache' \in [Mod -> [Name -> Func \cup {None}]]
  BY <1>1, <1>2, <1>3
<1>5. TypeOK'
  BY <1>1, <1>2, <1>4 DEF TypeOK
<1>6. Roots(held, funcs, table)' \subseteq alive
  BY <1>1 DEF RInv, Roots, ModsOf
<1>7. ASSUME NEW k \in alive PROVE RefersTo(imports, cache, k)' \subseteq alive
  <2>1. \A n \in Name : cache'[k][n] = cache[k][n] \/ cache'[k][n] = f
    BY <1>1, <1>2
  <2>2. ModsOf(Cached(cache', k)) \subseteq alive
    <3>1. Cached(cache', k) \subseteq (Cached(cache, k) \cup {f}) \cup {None}
      BY <2>1 DEF Cached
    <3>2. ModsOf(Cached(cache', k)) \subseteq ModsOf(Cached(cache, k) \cup {f})
      BY <3>1, ModsOfGrows
    <3>3. ModsOf(Cached(cache, k) \cup {f}) \subseteq alive
      BY <1>2, <1>3 DEF ModsOf
    <3> QED
      BY <3>2, <3>3
  <2>3. RefersTo(imports, cache, k)' = Imported(imports, k) \cup ModsOf(Cached(cache', k))
    BY <1>1 DEF RefersTo, Imported, ModsOf, Cached
  <2> QED
    BY <1>2, <2>2, <2>3
<1>8. \A k \in Mod \ alive : imports'[k] = <<>> /\ \A n \in Name : cache'[k][n] = None
  BY <1>1, <1>2 DEF RInv
<1>9. \A w \in weak' : w[1] \in alive /\ cache'[w[1]][w[2]] # None
  <2> SUFFICES ASSUME NEW w \in weak' PROVE w[1] \in alive /\ cache'[w[1]][w[2]] # None
    OBVIOUS
  <2>1. w[1] \in alive /\ w[2] \in Name /\ (w \in weak => cache[w[1]][w[2]] # None)
    BY <1>1, <1>2 DEF RInv
  <2>2. CASE w = <<m, name>>
    BY <1>1, <1>2, <2>1, <2>2
  <2>3. CASE w \in weak
    BY <1>1, <1>2, <2>1, <2>3
  <2> QED
    BY <1>1, <2>2, <2>3
<1> QED
  BY <1>1, <1>5, <1>6, <1>7, <1>8, <1>9 DEF RInv

\* A step that leaves references and modules alone, but for handles that callers take.
LEMMA TakingKeepsReferences ==
  ASSUME RInv, UNCHANGED <<alive, loaded, imports, cache, table, weak>>,
         held' \subseteq alive, funcs' \subseteq Func, ModsOf(funcs') \subseteq alive
  PROVE  RInv'
<1>1. TypeOK'
  BY DEF RInv, TypeOK
<1>2. Roots(held, funcs, table)' \subseteq alive'
  <2>1. ModsOf({table[n] : n \in Name}) \subseteq alive
    BY DEF RInv, Roots
  <2> QED
    BY <2>1 DEF Roots, ModsOf
<1>3. \A m \in alive' : RefersTo(imports, cache, m)' \subseteq alive'
  BY DEF RInv, RefersTo, Imported, ModsOf, Cached
<1> QED
  BY <1>1, <1>2, <1>3 DEF RInv

\* Every step keeps it.
LEMMA NextRInv == IInv /\ RInv /\ [Next]_vars => RInv'
<1> SUFFICES ASSUME IInv, RInv, [Next]_vars PROVE RInv'
  OBVIOUS
<1>0. /\ imports \in [Mod -> Seq(Mod)] /\ table \in [Name -> Func \cup {None}]
      /\ held \subseteq alive /\ ModsOf(funcs) \subseteq alive /\ funcs \subseteq Func
      /\ ModsOf({table[n] : n \in Name}) \subseteq alive /\ alive \subseteq Mod
      /\ \A m \in alive : Imported(imports, m) \subseteq alive
  BY DEF RInv, TypeOK, Roots, RefersTo
<1>1. CASE \E lib \in Bundles : ProcessLibraryBin(lib)
  BY <1>1, ProcessLibraryBinKeepsReferences
<1>2. CASE \E m, other \in Mod : ImportModule(m, other)
  <2>1. PICK m \in Mod, other \in Mod : ImportModule(m, other)
    BY <1>2
  <2>2. /\ m \in alive /\ other \in alive /\ imports' = [imports EXCEPT ![m] = Append(@, other)]
        /\ UNCHANGED <<alive, loaded, cache, table, held, funcs, weak>>
    BY <1>0, <2>1 DEF ImportModule
  <2>3. imports' \in [Mod -> Seq(Mod)]
    BY <1>0, <2>2
  <2>4. ASSUME NEW k \in alive PROVE Imported(imports', k) \subseteq alive
    <3>1. CASE k = m
      <4>1. imports[m] \in Seq(Mod) /\ imports'[k] = Append(imports[m], other)
        BY <1>0, <2>2, <3>1
      <4> DEFINE s == imports[m]
      <4>2. {Append(s, other)[i] : i \in DOMAIN Append(s, other)} = {s[i] : i \in DOMAIN s} \cup {other}
        BY <4>1, AppendProperties
      <4> QED
        BY <1>0, <2>2, <3>1, <4>1, <4>2 DEF Imported
    <3>2. CASE k # m
      BY <1>0, <2>2, <3>2 DEF Imported
    <3> QED
      BY <3>1, <3>2
  <2>5. TypeOK'
    BY <2>2, <2>3 DEF RInv, TypeOK
  <2>6. Roots(held, funcs, table)' \subseteq alive'
    BY <2>2 DEF RInv, Roots, ModsOf
  <2>7. ASSUME NEW k \in alive PROVE RefersTo(imports, cache, k)' \subseteq alive'
    <3>1. RefersTo(imports, cache, k)' = Imported(imports', k) \cup ModsOf(Cached(cache, k))
      BY <2>2 DEF RefersTo, Imported, ModsOf, Cached
    <3> QED
      BY <2>2, <2>4, <3>1 DEF RInv, RefersTo
  <2>8. \A k \in Mod \ alive : imports'[k] = <<>> /\ \A n \in Name : cache'[k][n] = None
    BY <1>0, <2>2 DEF RInv
  <2> QED
    BY <2>2, <2>5, <2>6, <2>7, <2>8 DEF RInv
<1>3. CASE \E m \in Mod : ClearImports(m)
  <2>1. PICK m \in Mod : ClearImports(m)
    BY <1>3
  <2>2. PICK im : im = [imports EXCEPT ![m] = <<>>]
    OBVIOUS
  <2>3. im \in [Mod -> Seq(Mod)] /\ \A k \in Mod : im[k] = imports[k] \/ im[k] = <<>>
    BY <1>0, <2>2
  <2>4. \A k \in Mod : Imported(im, k) \subseteq Imported(imports, k)
    <3> SUFFICES ASSUME NEW k \in Mod PROVE Imported(im, k) \subseteq Imported(imports, k)
      OBVIOUS
    <3>1. im[k] = imports[k] \/ im[k] = <<>>
      BY <2>3
    <3> QED
      BY <3>1 DEF Imported
  <2>5. Release(alive, held, funcs, table, im, cache) /\ loaded' = loaded
    BY <2>1, <2>2 DEF ClearImports
  <2>6. im \in [Mod -> Seq(Mod)] /\ held \subseteq held /\ funcs \subseteq funcs
    BY <2>3
  <2> QED
    BY <1>0, <2>4, <2>5, <2>6, ReleaseKeepsReferences
<1>4. CASE \E m \in Mod : DropModule(m)
  <2>1. PICK m \in Mod : DropModule(m)
    BY <1>4
  <2>2. PICK h : h = held \ {m} /\ h \subseteq held
    OBVIOUS
  <2> QED
    BY <1>0, <2>1, <2>2, ReleaseKeepsReferences DEF DropModule
<1>5. CASE \E m \in Mod : \E i \in DOMAIN imports[m] : TakeImport(m, i)
  <2>1. PICK m \in Mod : \E i \in DOMAIN imports[m] : TakeImport(m, i)
    BY <1>5
  <2>2. PICK i \in DOMAIN imports[m] : TakeImport(m, i)
    BY <2>1
  <2>3. imports[m][i] \in alive
    BY <1>0, <2>2 DEF TakeImport, Imported
  <2> QED
    BY <1>0, <2>2, <2>3, TakingKeepsReferences DEF TakeImport
<1>6. CASE \E m \in Mod, name \in Name : TakeFunction(m, name)
  <2>1. PICK m \in Mod, name \in Name : TakeFunction(m, name)
    BY <1>6
  <2> DEFINE f == GetFunction(name)[m]
  <2>2. /\ m \in alive /\ f # None /\ funcs' = funcs \cup {f}
        /\ UNCHANGED <<alive, loaded, imports, cache, table, held, weak>>
    BY <1>0, <2>1 DEF TakeFunction
  <2>3. f \in Func /\ f.mod \in Visited(imports, m)
    BY <1>0, <2>2, FunctionOfVisited DEF IInv, ImportsAcyclic
  <2>4. Visited(imports, m) \subseteq alive
    <3>1. Closed(imports, alive)
      BY <1>0 DEF Closed
    <3> QED
      BY <1>0, <2>2, <3>1, VisitedIsLeast
  <2> HIDE DEF f
  <2>5. funcs' \subseteq Func /\ ModsOf(funcs') \subseteq alive
    BY <1>0, <2>2, <2>3, <2>4 DEF ModsOf
  <2> QED
    BY <1>0, <2>2, <2>5, TakingKeepsReferences
<1>7. CASE \E m \in Mod, name \in Name : GetFunctionFromImports(m, name)
  BY <1>7, GetFunctionFromImportsKeepsReferences
<1>8. CASE \E name \in Name, f \in Func, canOverride \in BOOLEAN : UpdateGlobal(name, f, canOverride)
  BY <1>8, UpdateGlobalKeepsReferences
<1>9. CASE \E name \in Name : RemoveGlobal(name)
  <2>1. PICK name \in Name : RemoveGlobal(name)
    BY <1>9
  <2>2. PICK tb : tb = [table EXCEPT ![name] = None]
    OBVIOUS
  <2>3. tb \in [Name -> Func \cup {None}] /\ \A n \in Name : tb[n] = table[n] \/ tb[n] = None
    BY <1>0, <2>2
  <2>4. {tb[n] : n \in Name} \subseteq ({table[n] : n \in Name} \cup {None})
    BY <2>3
  <2>5. ModsOf({tb[n] : n \in Name}) \subseteq ModsOf({table[n] : n \in Name})
    BY <2>4, ModsOfGrows
  <2>6. ModsOf({tb[n] : n \in Name}) \subseteq alive
    BY <1>0, <2>5
  <2>7. /\ Release(alive, held, funcs, tb, imports, cache) /\ loaded' = loaded
        /\ held \subseteq held /\ funcs \subseteq funcs
        /\ \A k \in Mod : Imported(imports, k) \subseteq Imported(imports, k)
    BY <2>1, <2>2 DEF RemoveGlobal
  <2> QED
    BY <1>0, <2>3, <2>6, <2>7, ReleaseKeepsReferences
<1>10. CASE \E f \in Func : DropFunction(f)
  <2>1. PICK f \in Func : DropFunction(f)
    BY <1>10
  <2>2. PICK fs : fs = funcs \ {f} /\ fs \subseteq funcs
    OBVIOUS
  <2> QED
    BY <1>0, <2>1, <2>2, ReleaseKeepsReferences DEF DropFunction
<1>11. CASE UNCHANGED vars
  BY <1>0, <1>11, TakingKeepsReferences DEF vars
<1> QED
  BY <1>1, <1>2, <1>3, <1>4, <1>5, <1>6, <1>7, <1>8, <1>9, <1>10, <1>11 DEF Next

\* The operations keep every variable in its type: no lookup, import or release makes up a
\* module or a function.
THEOREM ModulesTypeOK == Spec => []TypeOK
<1>1. RInv => TypeOK
  BY DEF RInv
<1> QED
  BY <1>1, InitIInv, NextIInv, InitRInv, NextRInv, PTL DEF Spec

\* A handle given to the code of a module that exists refers to a function that is there,
\* with the module it belongs to.
THEOREM HandlesAreValid == Spec => []HandlesStayValid
<1>1. RInv => HandlesStayValid
  <2> SUFFICES ASSUME RInv, NEW w \in weak
               PROVE  cache[w[1]][w[2]] # None /\ ModsOf({cache[w[1]][w[2]]}) \subseteq alive
    BY DEF HandlesStayValid
  <2>1. /\ w[1] \in alive /\ w[2] \in Name /\ cache[w[1]][w[2]] # None
        /\ ModsOf(Cached(cache, w[1])) \subseteq alive
    BY DEF RInv, TypeOK, RefersTo
  <2>2. cache[w[1]][w[2]] \in Cached(cache, w[1])
    BY <2>1 DEF Cached
  <2> QED
    BY <2>1, <2>2, ModsOfMembers DEF ModsOf
<1> QED
  BY <1>1, InitIInv, NextIInv, InitRInv, NextRInv, PTL DEF Spec

\* No release touches the cache of a module that stays.
LEMMA ReleaseKeepsMeaning ==
  ASSUME RInv, NEW A, NEW h, NEW fs, NEW tb, NEW im, Release(A, h, fs, tb, im, cache),
         NEW w \in weak \cap weak'
  PROVE  cache'[w[1]][w[2]] = cache[w[1]][w[2]]
BY DEF Release, RInv, TypeOK

\* A handle, once given out, never comes to mean another function.
THEOREM HandlesMeanOneFunction == Spec => HandlesKeepMeaning
<1>1. RInv /\ [Next]_vars => [\A w \in weak \cap weak' : cache'[w[1]][w[2]] = cache[w[1]][w[2]]]_vars
  <2> SUFFICES ASSUME RInv, Next, NEW w \in weak \cap weak'
               PROVE  cache'[w[1]][w[2]] = cache[w[1]][w[2]]
    OBVIOUS
  <2>1. CASE UNCHANGED cache
    BY <2>1
  <2>2. CASE \E A, h, fs, tb, im : Release(A, h, fs, tb, im, cache)
    BY <2>2, ReleaseKeepsMeaning
  <2>3. CASE \E m \in Mod, name \in Name : GetFunctionFromImports(m, name)
    <3>1. PICK m \in Mod, name \in Name : GetFunctionFromImports(m, name)
      BY <2>3
    <3>2. /\ cache \in [Mod -> [Name -> Func \cup {None}]]
          /\ w[1] \in Mod /\ w[2] \in Name /\ cache[w[1]][w[2]] # None
      BY DEF RInv, TypeOK
    <3>3. CASE w[1] = m /\ w[2] = name
      BY <3>1, <3>2, <3>3 DEF GetFunctionFromImports
    <3>4. CASE ~ (w[1] = m /\ w[2] = name)
      BY <3>1, <3>2, <3>4 DEF GetFunctionFromImports
    <3> QED
      BY <3>3, <3>4
  <2>4. CASE \/ \E m, other \in Mod : ImportModule(m, other)
             \/ \E m \in Mod : \E i \in DOMAIN imports[m] : TakeImport(m, i)
             \/ \E m \in Mod, name \in Name : TakeFunction(m, name)
    BY <2>1, <2>4 DEF ImportModule, TakeImport, TakeFunction
  <2>5. CASE \E lib \in Bundles : ProcessLibraryBin(lib)
    BY <2>2, <2>5 DEF ProcessLibraryBin
  <2>6. CASE \E m \in Mod : ClearImports(m) \/ DropModule(m)
    BY <2>2, <2>6 DEF ClearImports, DropModule
  <2>7. CASE \/ \E name \in Name, f \in Func, canOverride \in BOOLEAN : UpdateGlobal(name, f, canOverride)
             \/ \E name \in Name : RemoveGlobal(name)
             \/ \E f \in Func : DropFunction(f)
    BY <2>2, <2>7 DEF UpdateGlobal, RemoveGlobal, DropFunction
  <2> QED
    BY <2>3, <2>4, <2>5, <2>6, <2>7 DEF Next
<1> QED
  BY <1>1, InitIInv, NextIInv, InitRInv, NextRInv, PTL DEF Spec, HandlesKeepMeaning

=============================================================================
