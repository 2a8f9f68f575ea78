--------------------------- MODULE MCBitfinexClient ---------------------------
EXTENDS BitfinexClient
CONSTANTS taker, maker, block
MCSize == (taker :> 2) @@ (maker :> 1) @@ (block :> 2)
Scene(p, o) == [paper |-> p, orders |-> {o}, mishaps |-> 0]

\* The paper account's quotes are of one unit.
MCScenes == {Scene(p, o) : p \in BOOLEAN, o \in {taker, maker}} \union {Scene(FALSE, block)}
MCBlock == {Scene(FALSE, block)}
=============================================================================
