---------------------------- MODULE MCRadixCache ----------------------------
(* The instances of RadixCache that TLC checks.                            *)
EXTENDS RadixCache

\* A key that is a prefix of two siblings: they split an edge with a routing node,
\* it splits one with its own, and each of them may be the last to leave.
BranchingKeys == {<<1>>, <<1, 1>>, <<1, 2>>}

\* Cuts at a routing node, at an entry, and inside an edge.
CutInside == {<<1>>, <<1, 1>>}

\* States that differ in report alone, which no operation reads, or in the
\* addresses of their nodes, which no operation compares, are explored once: a
\* link is seen as the prefix of the node it leads to.
StateView ==
    LET t == heap.node
        Prefix(n) == IF n = NoNode THEN <<>> ELSE t[n].prefix
        Shape(r) == [r EXCEPT !.parent = Prefix(@),
                              !.child = [i \in 1..Len(@) |-> Prefix(@[i])]]
    IN  <<{Shape(t[n]) : n \in {m \in Nodes : t[m] # Blank}}, listing,
          currentSize, ps>>
=============================================================================
