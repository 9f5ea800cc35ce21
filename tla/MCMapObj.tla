------------------------------ MODULE MCMapObj ------------------------------
(* Model-checking instance of MapObj.                                      *)
EXTENDS MapObj

\* Two keys with the same bits, one that shares their home in a smaller table, and two at
\* the start, where the chain of the last homes wraps around.
Codes == [a |-> 15, b |-> 15, c |-> 14, d |-> 2, e |-> 0]

\* As in a large table of the code, not every slot can be reached.  With these values an
\* insertion fails at a full table, for want of a reachable slot, and after having moved a
\* part of a foreign chain, and the table it was copied to may have to grow again.
Dists == <<1, 2>>

\* Nothing, a key given twice, and a list with one that becomes dense and has to grow.
MCLists == {<<>>, <<<<"a", 1>>, <<"a", 2>>>>,
            <<<<"c", 1>>, <<"a", 1>>, <<"c", 2>>, <<"b", 1>>, <<"d", 1>>>>}
=============================================================================
