---- MODULE MCMarketPath ----
(* Small instances of MarketPath: prices in half ticks. *)
EXTENDS MarketPath

Q(b, a, l) == [bid |-> b, ask |-> a, last |-> l]
Mode(s, t, u) == [strict |-> s, midTol |-> t, unitOnly |-> u]

MCModes == {Mode(TRUE, 0, TRUE), Mode(FALSE, 2, FALSE)}
MCQuotes == {Q(b, a, l) : b \in {0, 4, 6}, a \in {0, 6, 8, 9, 10},
                      l \in {0, 4, 6, 8, 10}}
MCCore == {[q |-> Q(4, 6, 4), obi |-> 0], [q |-> Q(4, 6, 6), obi |-> 10],
           [q |-> Q(6, 8, 6), obi |-> 0], [q |-> Q(4, 0, 6), obi |-> 0]}
MCPauses == {0, 2, 3}
MCSound == {[q |-> Q(4, 6, 4), obi |-> 0], [q |-> Q(4, 6, 6), obi |-> 10]}
MCDbQuotes == {Q(4, 6, 4)}
=============================
