----------------------------- MODULE MCModules ------------------------------
(* Model-checking instance of Modules.                                     *)
EXTENDS Modules

\* A library whose root imports its module of symbols, with a module nothing leads to, and
\* a library of one module.
MCSymbols == [root |-> {}, lib |-> {"f"}, lost |-> {}, one |-> {"f"}]
MCBundles == {[root |-> "root", imports |-> [m \in {"root", "lib", "lost"} |-> IF m = "lib" THEN <<>> ELSE <<"lib">>]],
              [root |-> "one", imports |-> [m \in {"one"} |-> <<>>]]}
=============================================================================
