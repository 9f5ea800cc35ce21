--------------------------- MODULE ObjectLifetime ---------------------------
(***************************************************************************)
(* What the reference counts of ffi/include/ffi/object.h promise about one *)
(* heap object: its destructor runs once, after the last strong reference  *)
(* is gone; its memory is returned once, after the destructor and after    *)
(* the last weak reference; a weak reference is promoted only while a      *)
(* strong one exists.  Counters, threads and the deleter do not appear.    *)
(***************************************************************************)
CONSTANT Handle  \* the ObjectPtr and WeakObjectPtr variables of the program

VARIABLES
    strongRefs,  \* handles that keep the object alive
    weakRefs,    \* handles that keep only its memory
    stage        \* "alive", then "destroyed", then "freed"

vars == <<strongRefs, weakRefs, stage>>

Null == Handle \ (strongRefs \cup weakRefs)

TypeOK ==
    /\ strongRefs \in SUBSET Handle
    /\ weakRefs \in SUBSET Handle
    /\ stage \in {"alive", "destroyed", "freed"}

Init ==
    /\ \E h \in Handle : strongRefs = {h}
    /\ weakRefs = {}
    /\ stage = "alive"

\* Copying a strong handle, or locking a weak one, needs a strong handle to exist.
Share(h) ==
    /\ strongRefs # {}
    /\ h \in Null
    /\ strongRefs' = strongRefs \cup {h}
    /\ UNCHANGED <<weakRefs, stage>>

Watch(h) ==
    /\ strongRefs \cup weakRefs # {}
    /\ h \in Null
    /\ weakRefs' = weakRefs \cup {h}
    /\ UNCHANGED <<strongRefs, stage>>

Move(s, d) ==
    /\ d \in Null
    /\ \/ /\ s \in strongRefs
          /\ strongRefs' = (strongRefs \ {s}) \cup {d}
          /\ UNCHANGED weakRefs
       \/ /\ s \in weakRefs
          /\ weakRefs' = (weakRefs \ {s}) \cup {d}
          /\ UNCHANGED strongRefs
    /\ UNCHANGED stage

Drop(h) ==
    /\ h \in strongRefs \cup weakRefs
    /\ strongRefs' = strongRefs \ {h}
    /\ weakRefs' = weakRefs \ {h}
    /\ UNCHANGED stage

Destroy ==
    /\ stage = "alive"
    /\ strongRefs = {}
    /\ stage' = "destroyed"
    /\ UNCHANGED <<strongRefs, weakRefs>>

Free ==
    /\ stage = "destroyed"
    /\ weakRefs = {}
    /\ stage' = "freed"
    /\ UNCHANGED <<strongRefs, weakRefs>>

Next ==
    \/ \E h \in Handle : Share(h) \/ Watch(h) \/ Drop(h)
    \/ \E s, d \in Handle : Move(s, d)
    \/ Destroy
    \/ Free

Spec == Init /\ [][Next]_vars /\ WF_vars(Destroy) /\ WF_vars(Free)
=============================================================================
