--------------------------- MODULE WorkspacePool ----------------------------
(***************************************************************************)
(* WorkspacePool of src/runtime/workspace_pool.cpp: for each device, the   *)
(* temporary blocks of memory a thread has got from the device, those in   *)
(* use and those kept for the next request.  The pool is thread local, so  *)
(* its operations are atomic.  Sizes are in pages; an address is freed and *)
(* given out again by the device as the device likes.                      *)
(***************************************************************************)
EXTENDS Integers, Sequences, SequencesExt, FiniteSets, FiniteSetsExt

CONSTANTS
    Devices,    \* device ids
    Blocks,     \* addresses the devices may return
    Null,       \* nullptr
    PageSize,   \* kWorkspacePageSize
    WordSize,   \* size_t is taken modulo WordSize
    Requests    \* the sizes in bytes callers ask for

ASSUME NullAssumption == Null \notin Blocks
ASSUME SizesAssumption ==
    /\ PageSize \in Nat \ {0}
    /\ WordSize \in {PageSize * k : k \in 1 .. WordSize}
    /\ Requests \subseteq 0 .. WordSize - 1

VARIABLES
    pool,      \* array_: for each device its free_list_ and allocated_, or NoPool
    space,     \* what each device has given out: pages by address, 0 for none
    wanted,    \* bytes the caller that holds a block asked for, NotHeld when nobody does
    peak,      \* the most blocks of a device ever held at a time
    exited     \* the thread is gone

vars == <<pool, space, wanted, peak, exited>>

NotHeld == -1

NoPool == [freeList |-> << >>, allocated |-> << >>]
Sentinel == [data |-> Null, size |-> 0]
NewPool == [freeList |-> <<Sentinel>>, allocated |-> <<Sentinel>>]

Entry(b, n) == [data |-> b, size |-> n]

\* The safe guard at the head of each list is not a block.
Kept(d) == Tail(pool[d].freeList)
InUse(d) == Tail(pool[d].allocated)
Held(d) == {b \in Blocks : wanted[d][b] # NotHeld}

TypeOK ==
    /\ pool \in [Devices -> [freeList : Seq([data : Blocks \union {Null}, size : Nat]),
                             allocated : Seq([data : Blocks \union {Null}, size : Nat])]]
    /\ space \in [Devices -> [Blocks -> Nat]]
    /\ wanted \in [Devices -> [Blocks -> Nat \union {NotHeld}]]
    /\ peak \in [Devices -> Nat]
    /\ exited \in BOOLEAN
    /\ \A d \in Devices : pool[d] # NoPool =>
          \A k \in 2 .. Len(pool[d].allocated) : pool[d].allocated[k].size > 0

Init ==
    /\ pool = [d \in Devices |-> NoPool]
    /\ space = [d \in Devices |-> [b \in Blocks |-> 0]]
    /\ wanted = [d \in Devices |-> [b \in Blocks |-> NotHeld]]
    /\ peak = [d \in Devices |-> 0]
    /\ exited = FALSE

-----------------------------------------------------------------------------
(* AllocWorkspace.                                                         *)

\* Mutant: rounded down to whole pages.
PagesRoundedDown(nbytes) == Max({nbytes \div PageSize, 1})

\* Rounded up to whole pages, at least one, in the arithmetic of size_t.
Pages(nbytes) == Max({((nbytes + (PageSize - 1)) % WordSize) \div PageSize, 1})

\* The pool of a device is created when it is first asked for memory.
PoolOf(d) == IF pool[d] = NoPool THEN NewPool ELSE pool[d]

\* The smallest entry that fits: the search runs from the end to the first entry
\* that is too small, the safe guard at the latest.
Fit(list, n) == SelectLastInSeq(Front(list), LAMBDA e : e.size < n) + 1

\* The position of the entry that serves n pages; 1 when there is none.
Chosen(list, n) == IF Len(list) > 2 /\ Last(list).size >= n THEN Fit(list, n) ELSE Len(list)

GiveOut(d, free, b, size, nbytes) ==
    /\ pool' = [pool EXCEPT ![d] = [freeList |-> free,
                                    allocated |-> Append(PoolOf(d).allocated, Entry(b, size))]]
    /\ wanted' = [wanted EXCEPT ![d][b] = nbytes]
    /\ peak' = [peak EXCEPT ![d] = Max({@, Cardinality(Held(d)) + 1})]
    /\ UNCHANGED exited

\* A block of the free list is big enough.
AllocKept(d, nbytes) ==
    LET n == Pages(nbytes)
        list == PoolOf(d).freeList
        k == Chosen(list, n)
    IN  /\ k > 1
        /\ list[k].size >= n
        /\ GiveOut(d, RemoveAt(list, k), list[k].data, list[k].size, nbytes)
        /\ UNCHANGED space

\* Mutant: the block that is too small is not freed.
AllocResizedLeaking(d, nbytes) ==
    LET n == Pages(nbytes)
        list == PoolOf(d).freeList
        k == Chosen(list, n)
    IN  /\ k > 1
        /\ list[k].size < n
        /\ \E b \in {x \in Blocks : space[d][x] = 0} :
              /\ space' = [space EXCEPT ![d][b] = n]
              /\ GiveOut(d, Front(list), b, n, nbytes)

\* None is: the largest one is freed and allocated anew, maybe at the same address.
AllocResized(d, nbytes) ==
    LET n == Pages(nbytes)
        list == PoolOf(d).freeList
        k == Chosen(list, n)
        freed == [space EXCEPT ![d][list[k].data] = 0]
    IN  /\ k > 1
        /\ list[k].size < n
        /\ \E b \in {x \in Blocks : freed[d][x] = 0} :
              /\ space' = [freed EXCEPT ![d][b] = n]
              /\ GiveOut(d, Front(list), b, n, nbytes)

\* The free list is empty.
AllocNew(d, nbytes) ==
    /\ Len(PoolOf(d).freeList) = 1
    /\ \E b \in {x \in Blocks : space[d][x] = 0} :
          /\ space' = [space EXCEPT ![d][b] = Pages(nbytes)]
          /\ GiveOut(d, PoolOf(d).freeList, b, Pages(nbytes), nbytes)

\* AllocDataSpace throws: the block to be resized is gone by then.
AllocFails(d, nbytes) ==
    LET n == Pages(nbytes)
        list == PoolOf(d).freeList
        k == Chosen(list, n)
    IN  /\ k > 1 => list[k].size < n
        /\ pool' = [pool EXCEPT ![d] = [PoolOf(d) EXCEPT !.freeList = IF k > 1 THEN Front(@) ELSE @]]
        /\ space' = IF k > 1 THEN [space EXCEPT ![d][list[k].data] = 0] ELSE space
        /\ UNCHANGED <<wanted, peak, exited>>

AllocWorkspace(d, nbytes) ==
    /\ ~exited
    /\ \/ AllocKept(d, nbytes) \/ AllocResized(d, nbytes)
       \/ AllocNew(d, nbytes) \/ AllocFails(d, nbytes)

-----------------------------------------------------------------------------
(* FreeWorkspace.                                                          *)

\* The last block allocated is tried first, the others from the end; 1 is the safe guard.
Position(list, ptr) ==
    IF Last(list).data = ptr THEN Len(list)
    ELSE SelectLastInSeq(list, LAMBDA e : e.data = ptr)

\* Mutant: the entry goes to the end.
InsertedLast(list, e) == Append(list, e)

\* Sorted from small to big; the list of one entry puts equal sizes the other way round.
Inserted(list, e) ==
    IF Last(list).size < e.size THEN Append(list, e)
    ELSE IF Len(list) = 2 THEN <<list[1], e, list[2]>>
    ELSE InsertAt(list, SelectLastInSeq(list, LAMBDA x : x.size <= e.size) + 1, e)

\* Mutant: the block stays in the list of the allocated ones.
FreeWorkspaceKeeping(d, ptr) ==
    LET list == pool[d].allocated
        k == Position(list, ptr)
    IN  /\ ~exited
        /\ pool[d] # NoPool
        /\ k > 1 \/ k = Len(list)
        /\ pool' = [pool EXCEPT ![d].freeList = Inserted(@, list[k])]
        /\ wanted' = [wanted EXCEPT ![d] = [b \in Blocks |-> IF b = ptr THEN NotHeld ELSE @[b]]]
        /\ UNCHANGED <<space, peak, exited>>

\* What is not found, and a device without a pool, are refused by a CHECK.  Callers
\* do not pass nullptr, which the quick path would take for the safe guard.
FreeWorkspace(d, ptr) ==
    LET list == pool[d].allocated
        k == Position(list, ptr)
    IN  /\ ~exited
        /\ pool[d] # NoPool
        /\ k > 1 \/ k = Len(list)
        /\ pool' = [pool EXCEPT ![d] = [freeList |-> Inserted(@.freeList, list[k]),
                                        allocated |-> RemoveAt(list, k)]]
        /\ wanted' = [wanted EXCEPT ![d] = [b \in Blocks |-> IF b = ptr THEN NotHeld ELSE @[b]]]
        /\ UNCHANGED <<space, peak, exited>>

\* Mutant: the first block of a list is taken for the safe guard.
ExitKeepingOne ==
    /\ ~exited
    /\ space' = [d \in Devices |-> [b \in Blocks |->
                    IF \E k \in 3 .. Len(pool[d].freeList) : pool[d].freeList[k].data = b
                    THEN 0 ELSE space[d][b]]]
    /\ pool' = [d \in Devices |-> NoPool]
    /\ exited' = TRUE
    /\ UNCHANGED <<wanted, peak>>

\* The destructor: what is kept goes back to the device, what is held does not.
Exit ==
    /\ ~exited
    /\ space' = [d \in Devices |-> [b \in Blocks |->
                    IF \E k \in 2 .. Len(pool[d].freeList) : pool[d].freeList[k].data = b
                    THEN 0 ELSE space[d][b]]]
    /\ pool' = [d \in Devices |-> NoPool]
    /\ exited' = TRUE
    /\ UNCHANGED <<wanted, peak>>

Next ==
    \/ \E d \in Devices : \/ \E nbytes \in Requests : AllocWorkspace(d, nbytes)
                          \/ \E ptr \in Blocks : FreeWorkspace(d, ptr)
    \/ Exit

Spec == Init /\ [][Next]_vars

-----------------------------------------------------------------------------
\* Every block a device has given out is in exactly one place of the lists, under its
\* size, and the blocks in use are the ones callers hold.
BlocksAccounted ==
    \A d \in Devices : pool[d] # NoPool =>
        LET all == Kept(d) \o InUse(d) IN
        /\ \A j, k \in DOMAIN all : all[j].data = all[k].data => j = k
        /\ \A b \in Blocks : space[d][b] > 0 <=> b \in {all[k].data : k \in DOMAIN all}
        /\ \A k \in DOMAIN all : all[k].size = space[d][all[k].data]
        /\ Held(d) = {InUse(d)[k].data : k \in DOMAIN InUse(d)}

\* A caller gets what it asked for.
BigEnough ==
    \A d \in Devices : \A b \in Held(d) : space[d][b] * PageSize >= wanted[d][b]

\* The pool never has more blocks than were once held at the same time.
NoMoreThanPeak ==
    \A d \in Devices : Cardinality({b \in Blocks : space[d][b] > 0}) <= peak[d]

\* When the thread is gone only what callers did not give back is left.
NothingLeftKept ==
    exited => \A d \in Devices : \A b \in Blocks : space[d][b] > 0 => b \in Held(d)

\* A block somebody holds is neither freed, nor resized, nor given to another.
HeldUntouched ==
    [][\A d \in Devices : \A b \in Held(d) \intersect Held(d)' :
          space'[d][b] = space[d][b] /\ wanted'[d][b] = wanted[d][b]]_vars

\* No kept block that would have done is smaller than the one given out.
SmallestFit ==
    [][\A d \in Devices : pool[d] # NoPool =>
          \A b \in Held(d)' \ Held(d) : \A k \in DOMAIN Kept(d) :
             Kept(d)[k].size >= Pages(wanted'[d][b]) => space'[d][b] <= Kept(d)[k].size]_vars
=============================================================================
