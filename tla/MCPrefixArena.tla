--------------------------- MODULE MCPrefixArena ---------------------------
(* The instance of PrefixArena that TLC checks.                            *)
EXTENDS PrefixArena

\* Large edges (three bytes or more) that split into a large and a small part,
\* either way around, and into small ones, and another edge beside them.
MixedKeys == {<<1>>, <<1, 1, 1, 1>>, <<1, 1, 1, 2>>, <<1, 1, 2>>}
Cuts == {<<1, 1>>}

\* Cells that belong to no live span and to no string a caller holds are not read
\* before they are written: states that differ in them alone are explored once.
StateView ==
    LET Covered(i, off, n) == off < i /\ i <= off + n
        used == {RawSpan(Locked, span[p]) : p \in DOMAIN span} \cup
                {[off |-> h.off, len |-> Len(h.bytes)] : h \in handed}
        Cell(i) == IF \E sp \in used : Covered(i, sp.off, sp.len)
                   THEN bytes[i] ELSE 0
    IN  <<callback, entries, span, [i \in 1..Len(bytes) |-> Cell(i)], cap, live,
          free, exposed, handed>>
=============================================================================
