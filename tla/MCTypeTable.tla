---------------------------- MODULE MCTypeTable -----------------------------
(* Model-checking instance of TypeTable: two libraries.  The first has a   *)
(* static class, a family Expr that may overflow its slots and a family    *)
(* Stmt that may not.  The second declares Stmt alike and the keys of the  *)
(* Expr family otherwise: other slots, another parent, another finality.   *)
EXTENDS TypeTable

\* Class, key, parent, _type_child_slots.
Declarations == {
    <<"Object", "Object", "Object", 0>>, <<"Array", "Array", "Object", 0>>,
    <<"Expr", "Expr", "Object", 3>>, <<"Op", "Op", "Expr", 2>>, <<"Sub", "Sub", "Op", 0>>,
    <<"Call", "Call", "Expr", 0>>,
    <<"Stmt", "Stmt", "Object", 2>>, <<"Loop", "Loop", "Stmt", 1>>, <<"For", "For", "Loop", 0>>,
    <<"Expr2", "Expr", "Object", 1>>, <<"Op2", "Op", "Expr2", 0>>, <<"Mul2", "Mul", "Op2", 0>>,
    <<"Call2", "Call", "Expr2", 0>>, <<"Sub2", "Sub", "Call2", 0>>,
    <<"Stmt2", "Stmt", "Object", 2>>, <<"Loop2", "Loop", "Stmt2", 1>>, <<"If2", "If", "Loop2", 0>>}

The(t) == CHOOSE d \in Declarations : d[1] = t
MCClasses == {d[1] : d \in Declarations}
MCKeys == {d[2] : d \in Declarations}
MCKey == [t \in MCClasses |-> The(t)[2]]
MCParent == [t \in MCClasses \ {"Object"} |-> The(t)[3]]
MCSlots == [t \in MCClasses |-> The(t)[4]]
Grandparent == [t \in MCClasses \ {"Object"} |->
    IF MCParent[t] = "Object" THEN "Object" ELSE MCParent[MCParent[t]]]
MCBases == [t \in MCClasses |->
    {"Object", t} \union IF t = "Object" THEN {} ELSE {MCParent[t], Grandparent[t]}]
MCDepth == [t \in MCClasses |-> Cardinality(MCBases[t]) - 1]
MCStaticIndex == [k \in MCKeys |-> CASE k = "Object" -> 0 [] k = "Array" -> 1 [] OTHER -> -1]
MCCanOverflow == MCClasses \ {"Stmt", "Stmt2"}
MCFinal == {"Call", "For"}
=============================================================================
