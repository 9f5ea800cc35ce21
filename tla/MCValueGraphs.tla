---------------------------- MODULE MCValueGraphs ---------------------------
(* Model-checking instance of ValueGraphs.                                 *)
EXTENDS ValueGraphs

CONSTANT Programs  \* records: the variables, which come first (vars), what is created then and how
                   \* many of it (types, objects), the plain keys of maps and how many pairs
                   \* these have at most (keys, pairs)

Kinds == [Var |-> "var", Func |-> "tree", Dag |-> "dag", Const |-> "const", Unique |-> "unique"]
TypeFields == [Var |-> <<>>, Func |-> <<"def", "use">>, Dag |-> <<"use">>, Const |-> <<"ignore">>, Unique |-> <<>>]
Numbers == [Var |-> 1, Func |-> 2, Dag |-> 3, Const |-> 4, Unique |-> 5, Array |-> 6, Map |-> 7]

\* -1 and -2 collide.
PlainValues == {0, -1, -2}
PlainCodes == [v \in Plain |-> IF v = -2 THEN -1 ELSE v]

Everything == [vars |-> 2, objects |-> 2, types |-> {"Func", "Dag", "Const", "Unique", "Array", "Map"},
               keys |-> {-1, -2}, pairs |-> 2]
SharedTrees == [vars |-> 1, objects |-> 3, types |-> {"Func", "Map"}, keys |-> {-1}, pairs |-> 1]
AllPrograms == {Everything, SharedTrees}
FunctionsAndMaps == {[Everything EXCEPT !.types = {"Func", "Map"}]}
OnlySharedTrees == {SharedTrees}

Operands(h) == {0} \cup DOMAIN h
Names(h) == {v \in DOMAIN h : h[v].type \in {"Var", "Dag"}}
MapsOf(h) == {v \in DOMAIN h : h[v].type = "Map"}

\* Maps whose keys are plain or names; of the first map the order does not matter.
Maps(h, p) ==
    LET V == p.keys \cup Names(h)
        one == {<<<<k, v>>>> : k \in V, v \in Operands(h)}
        two == {<<<<k, v>>, <<l, w>>>> : k \in V, v \in Operands(h), l \in V, w \in Operands(h)}
        distinct == {t \in two : t[1][1] # t[2][1] /\ (MapsOf(h) = {} => t[1][1] < t[2][1])}
    IN  {Object("Map", ps) : ps \in {<<>>} \cup one \cup IF p.pairs = 2 THEN distinct ELSE {}}

ObjectsOf(t, h, p) ==
    CASE t = "Map" -> Maps(h, p)
      [] t = "Array" -> {Object("Array", ps) : ps \in {<<>>} \cup {<<v>> : v \in Operands(h)}}
      [] OTHER -> {Object(t, ps) : ps \in [DOMAIN TypeFields[t] -> Operands(h)]}

\* The first object refers to the second variable only after the first one.
InOrder(h, p, o) ==
    LET at(v) == SelectInSeq(Refs(o), LAMBDA w : w = v)
    IN  Len(h) = p.vars /\ p.vars = 2 /\ at(2) # 0 => at(1) # 0 /\ at(1) < at(2)

\* What one of the programs may create.
MayRun(h, p) ==
    /\ \A v \in DOMAIN h : IF v <= p.vars THEN h[v].type = "Var" ELSE h[v].type \in p.types
    /\ Len(h) < p.vars + p.objects
Possible(h, p) ==
    IF Len(h) < p.vars THEN {Object("Var", <<>>)}
    ELSE {o \in UNION {ObjectsOf(t, h, p) : t \in p.types} : InOrder(h, p, o)}
MCCreatable(h) == UNION {Possible(h, p) : p \in {q \in Programs : MayRun(h, q)}}

\* Two arrays, or two functions that define what comes first, of two objects each, over all
\* that was created and nothing else refers to.
Roots(h) == {v \in DOMAIN h : h[v].type # "Var" /\ \A w \in DOMAIN h : v \notin ToSet(Refs(h[w]))}
MCCompared(h) ==
    LET P == (DOMAIN h) \X (DOMAIN h)
        pairs == {c \in P \X P : /\ c[1][1] < c[2][1] \/ (c[1][1] = c[2][1] /\ c[1][2] < c[2][2])
                                 /\ Roots(h) \subseteq {c[1][1], c[1][2], c[2][1], c[2][2]}}
    IN  {<<Object(t, c[1]), Object(t, c[2])>> : t \in {"Array", "Func"}, c \in pairs}
MCWritten(h) ==
    {Object("Array", ps) : ps \in {c \in Operands(h) \X Operands(h) : Roots(h) \subseteq {c[1], c[2]}}}
=============================================================================
