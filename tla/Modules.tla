------------------------------ MODULE Modules -------------------------------
(***************************************************************************)
(* The module system of ffi/src/ffi/extra: modules that import one         *)
(* another, the lookup of functions for generated code with its cache in   *)
(* each module, and the global function table where the lookup ends.       *)
(*                                                                         *)
(* Modules and functions live by their reference counts.  A function of a  *)
(* module holds the module, a cache holds its functions, and a module that *)
(* nothing refers to goes away with its imports and its cache, which may   *)
(* release others.  A cycle of references never goes away.                 *)
(***************************************************************************)
EXTENDS Naturals, Sequences, FiniteSets

CONSTANTS
    Mod, Name,
    None,        \* no function; and the module of a function that belongs to none
    Symbols,     \* by module, the names of the functions it has
    Bundles,     \* what loading a library creates: its root, and the imports of its modules
    MaxImports, MaxFuncs  \* bounds on the imports of a module, and on the functions a caller holds

VARIABLES
    alive,    \* the modules that exist
    loaded,   \* the modules that were ever created
    imports,  \* by module, imports_
    cache,    \* by module and name, import_lookup_cache_
    table,    \* by name, the global function table
    held,     \* modules callers have a handle of
    funcs,    \* functions callers have a handle of
    weak      \* pairs of a module and a name: the handles given to generated code

vars == <<alive, loaded, imports, cache, table, held, funcs, weak>>

Func == [name : Name, mod : Mod \cup {None}]

TypeOK ==
    /\ alive \subseteq loaded /\ loaded \subseteq Mod /\ held \subseteq Mod /\ funcs \subseteq Func
    /\ imports \in [Mod -> Seq(Mod)]
    /\ cache \in [Mod -> [Name -> Func \cup {None}]] /\ table \in [Name -> Func \cup {None}]
    /\ weak \subseteq Mod \X Name

-----------------------------------------------------------------------------
(* Imports.                                                                *)

Imported(im, m) == {im[m][i] : i \in DOMAIN im[m]}
Closed(im, S) == \A m \in S : Imported(im, m) \subseteq S

\* What the search with a stack visits from m on: the least set that is closed.
Visited(im, m) == {k \in Mod : \A S \in SUBSET Mod : m \in S /\ Closed(im, S) => k \in S}

Acyclic(im) == \A m \in Mod : \A k \in Imported(im, m) : m \notin Visited(im, k)

NoImports == [m \in Mod |-> <<>>]

\* The imports im, and those of the modules that the library creates.
WithImportsOf(lib, im) ==
    [m \in Mod |-> IF m \in DOMAIN lib.imports THEN lib.imports[m] ELSE im[m]]

\* Whoever exports a library sees to it that its modules do not import one another in a
\* circle: loading does not look.
ASSUME ModulesAssumption ==
    /\ IsFiniteSet(Mod) /\ None \notin Mod
    /\ Symbols \in [Mod -> SUBSET Name]
    /\ \A lib \in Bundles :
         /\ DOMAIN lib.imports \subseteq Mod /\ lib.root \in DOMAIN lib.imports
         /\ lib.imports \in [DOMAIN lib.imports -> Seq(DOMAIN lib.imports)]
         /\ Acyclic(WithImportsOf(lib, NoImports))

\* GetFunction(name, true): the function of the module itself, or that of its first import
\* which has one, to any depth.
GetFunction(name) ==
    LET F[m \in Mod] ==
          LET found == {i \in DOMAIN imports[m] : F[imports[m][i]] # None}
              first == CHOOSE i \in found : \A j \in found : i <= j
          IN  IF name \in Symbols[m] THEN [name |-> name, mod |-> m]
              ELSE IF found = {} THEN None ELSE F[imports[m][first]]
    IN  F

\* Of the imports of m, or else of the global table.
FromImports(m, name) ==
    LET found == {i \in DOMAIN imports[m] : GetFunction(name)[imports[m][i]] # None}
        first == CHOOSE i \in found : \A j \in found : i <= j
    IN  IF found = {} THEN table[name] ELSE GetFunction(name)[imports[m][first]]

-----------------------------------------------------------------------------
(* References.                                                             *)

ModsOf(F) == {f.mod : f \in F \ {None}} \ {None}
Cached(ca, m) == {ca[m][n] : n \in Name}
RefersTo(im, ca, m) == Imported(im, m) \cup ModsOf(Cached(ca, m))

\* What callers, the functions they hold and the global table refer to.
Roots(h, fs, tb) == h \cup ModsOf(fs) \cup ModsOf({tb[n] : n \in Name})

\* What is left of the modules in A when all that lost its last reference is gone.
Survivors(A, roots, im, ca) ==
    UNION {S \in SUBSET A : \A m \in S : m \in roots \/ \E k \in S : m \in RefersTo(im, ca, k)}

\* The modules that callers, their functions or the global table lead to.
Reachable ==
    {k \in alive : \A S \in SUBSET alive :
        Roots(held, funcs, table) \subseteq S /\ (\A m \in S : RefersTo(imports, cache, m) \subseteq S)
            => k \in S}

\* The state after a step that leaves these references behind.
Release(A, h, fs, tb, im, ca) ==
    LET S == Survivors(A, Roots(h, fs, tb), im, ca)
    IN  /\ alive' = S
        /\ imports' = [m \in Mod |-> IF m \in S THEN im[m] ELSE <<>>]
        /\ cache' = [m \in Mod |-> IF m \in S THEN ca[m] ELSE [n \in Name |-> None]]
        /\ weak' = {w \in weak : w[1] \in S}
        /\ held' = h /\ funcs' = fs /\ table' = tb

Init ==
    /\ alive = {} /\ loaded = {} /\ held = {} /\ funcs = {} /\ weak = {}
    /\ imports = NoImports
    /\ cache = [m \in Mod |-> [n \in Name |-> None]]
    /\ table = [n \in Name |-> None]

-----------------------------------------------------------------------------
(* Operations.                                                             *)

\* The modules of a library are created with their imports; the caller gets the root, and
\* what the root does not lead to goes with the list of modules.
ProcessLibraryBin(lib) ==
    /\ DOMAIN lib.imports \cap loaded = {}
    /\ loaded' = loaded \cup DOMAIN lib.imports
    /\ Release(alive \cup DOMAIN lib.imports, held \cup {lib.root}, funcs, table,
               WithImportsOf(lib, imports), cache)

\* Mutant: only the direct imports of the other module are looked at.
ImportModuleDirect(m, other) ==
    /\ m \in held /\ other \in held /\ Len(imports[m]) < MaxImports
    /\ m # other /\ m \notin Imported(imports, other)
    /\ imports' = [imports EXCEPT ![m] = Append(@, other)]
    /\ UNCHANGED <<alive, loaded, cache, table, held, funcs, weak>>

ImportModule(m, other) ==
    /\ m \in held /\ other \in held /\ Len(imports[m]) < MaxImports
    /\ m \notin Visited(imports, other)
    /\ imports' = [imports EXCEPT ![m] = Append(@, other)]
    /\ UNCHANGED <<alive, loaded, cache, table, held, funcs, weak>>

\* Mutant: the cache goes with the imports.
ClearImportsAndCache(m) ==
    /\ m \in held
    /\ Release(alive, held, funcs, table, [imports EXCEPT ![m] = <<>>],
               [cache EXCEPT ![m] = [n \in Name |-> None]])
    /\ UNCHANGED loaded

ClearImports(m) ==
    /\ m \in held
    /\ Release(alive, held, funcs, table, [imports EXCEPT ![m] = <<>>], cache)
    /\ UNCHANGED loaded

\* A caller takes a function out of a module or of its imports.
TakeFunction(m, name) ==
    /\ m \in held /\ GetFunction(name)[m] # None /\ Cardinality(funcs) < MaxFuncs
    /\ funcs' = funcs \cup {GetFunction(name)[m]}
    /\ UNCHANGED <<alive, loaded, imports, cache, table, held, weak>>

\* Mutant: the lookup is made in earnest each time.
GetFunctionFromImportsAnew(m, name) ==
    /\ m \in Reachable /\ Symbols[m] # {} /\ FromImports(m, name) # None
    /\ cache' = [cache EXCEPT ![m][name] = FromImports(m, name)]
    /\ weak' = weak \cup {<<m, name>>}
    /\ UNCHANGED <<alive, loaded, imports, table, held, funcs>>

\* Code of a module runs, because someone called a function of it, and looks a name up in
\* the imports of its module: the first time in earnest, then in the cache.
GetFunctionFromImports(m, name) ==
    LET f == IF cache[m][name] # None THEN cache[m][name] ELSE FromImports(m, name)
    IN  /\ m \in Reachable /\ Symbols[m] # {} /\ f # None
        /\ cache' = [cache EXCEPT ![m][name] = f]
        /\ weak' = weak \cup {<<m, name>>}
        /\ UNCHANGED <<alive, loaded, imports, table, held, funcs>>

\* A function a caller holds, or one of the process, is registered under a name.
UpdateGlobal(name, f, canOverride) ==
    /\ f \in funcs \cup {[name |-> name, mod |-> None]}
    /\ table[name] = None \/ canOverride
    /\ Release(alive, held, funcs, [table EXCEPT ![name] = f], imports, cache)
    /\ UNCHANGED loaded

RemoveGlobal(name) ==
    /\ table[name] # None
    /\ Release(alive, held, funcs, [table EXCEPT ![name] = None], imports, cache)
    /\ UNCHANGED loaded

\* Handles are copied out of imports() and given up.
TakeImport(m, i) ==
    /\ m \in held /\ i \in DOMAIN imports[m]
    /\ held' = held \cup {imports[m][i]}
    /\ UNCHANGED <<alive, loaded, imports, cache, table, funcs, weak>>

DropModule(m) ==
    /\ m \in held
    /\ Release(alive, held \ {m}, funcs, table, imports, cache)
    /\ UNCHANGED loaded

DropFunction(f) ==
    /\ f \in funcs
    /\ Release(alive, held, funcs \ {f}, table, imports, cache)
    /\ UNCHANGED loaded

Next ==
    \/ \E lib \in Bundles : ProcessLibraryBin(lib)
    \/ \E m, other \in Mod : ImportModule(m, other)
    \/ \E m \in Mod : ClearImports(m) \/ DropModule(m) \/ \E i \in DOMAIN imports[m] : TakeImport(m, i)
    \/ \E m \in Mod, name \in Name : TakeFunction(m, name) \/ GetFunctionFromImports(m, name)
    \/ \E name \in Name, f \in Func, canOverride \in BOOLEAN : UpdateGlobal(name, f, canOverride)
    \/ \E name \in Name : RemoveGlobal(name)
    \/ \E f \in Func : DropFunction(f)

Spec == Init /\ [][Next]_vars

-----------------------------------------------------------------------------
\* No sequence of imports makes a module import itself, to any depth, so that neither the
\* search for a function nor the release of a module goes around in a circle.
ImportsAcyclic == Acyclic(imports)

\* The inductive form: whatever is imported or held was loaded, so that the modules of a
\* library that is loaded now are imported by nobody else.
IInv ==
    /\ loaded \subseteq Mod /\ held \subseteq loaded
    /\ imports \in [Mod -> Seq(Mod)]
    /\ \A m \in Mod : Imported(imports, m) \subseteq loaded
    /\ ImportsAcyclic

\* The inductive form for what is referred to: callers, the table and the modules that exist
\* lead to modules that exist; one that does not refers to nothing; a handle given to the code
\* of a module that exists is in its cache.
RInv ==
    /\ TypeOK
    /\ Roots(held, funcs, table) \subseteq alive
    /\ \A m \in alive : RefersTo(imports, cache, m) \subseteq alive
    /\ \A m \in Mod \ alive : imports[m] = <<>> /\ \A n \in Name : cache[m][n] = None
    /\ \A w \in weak : w[1] \in alive /\ cache[w[1]][w[2]] # None

\* "The returned function is a weak reference that is cached/owned by the module"
\* (ffi/include/ffi/extra/c_env_api.h:70): whatever is imported, cleared, registered anew or
\* dropped, a handle given to the code of a module refers, as long as the module exists, to
\* a function that is there with the module it belongs to.
HandlesStayValid ==
    \A w \in weak : cache[w[1]][w[2]] # None /\ ModsOf({cache[w[1]][w[2]]}) \subseteq alive

\* A handle once given out never comes to mean another function.
HandlesKeepMeaning == [][\A w \in weak \cap weak' : cache'[w[1]][w[2]] = cache[w[1]][w[2]]]_vars
=============================================================================
