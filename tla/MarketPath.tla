----------------------------- MODULE MarketPath -----------------------------
(***************************************************************************)
(* The market data path of one gateway: LiveMarket feeding the archiver's  *)
(* TimescaleWriter.  Two deployments: without a database (any snapshots of *)
(* Quotes, and reports of what was stored) and with one (few snapshots,    *)
(* every interleaving of the writer).                                      *)
(***************************************************************************)
EXTENDS LiveMarket, TimescaleWriter

CONSTANTS Quotes,    \* the quotes a pair of snapshots ranges over
          Core,      \* those longer streams are made of, with an imbalance
          Pauses,    \* time between two snapshots
          DbQuotes,  \* the quotes of a deployment with a database
          MaxRows,   \* bounds of the model
          MaxDbRows

ASSUME QuotesAssumption ==
    /\ Quotes \cup DbQuotes \cup {x.q : x \in Core} \subseteq Prices
    /\ {x.obi : x \in Core} \subseteq -10..10     \* (bid - ask) / (bid + ask) volume
    /\ Pauses \subseteq Nat                       \* exchange time does not run back

VARIABLE database

marketVars == <<liveVars, twVars, database>>

MarketInit ==
    /\ LiveInit
    /\ database \in BOOLEAN
    /\ database => mode = CHOOSE m \in Modes : TRUE   \* no matter to the writer
    /\ WriterInit(database)

(* The archiver passes the events of the row on: the quote event, and the  *)
(* micro event if there is one.                                            *)
Receive(q, obi, pause) ==
    /\ Snapshot(q, obi, pause)
    /\ AddEvents(1 + Len(micros') - Len(micros))

InCore(r) == [q |-> r.q, obi |-> r.obi] \in Core

(* The bounds: without a database, streams of core snapshots and pairs of  *)
(* any two.                                                                *)
Market ==
    /\ ~database
    /\ Len(rows) < MaxRows
    /\ \/ \E x \in Core, pause \in Pauses :
            /\ rows = <<>> => pause = 0      \* nothing to pause after
            /\ \A i \in DOMAIN rows : InCore(rows[i])
            /\ Receive(x.q, x.obi, pause)
       \/ \E q \in Quotes :
            /\ Len(rows) < 2
            /\ batch = 1
            /\ Receive(q, 0, 1)

(* finalize() comes after the release of the client, or the end of the     *)
(* simulated feed: while it stops the writer, no snapshot is left to come. *)
MarketWithDatabase ==
    /\ database
    /\ tw.task \notin {"cancelled", "last"}
    /\ Len(rows) < MaxDbRows
    /\ \E q \in DbQuotes : Receive(q, 0, 1)

Start == StartStream /\ UNCHANGED twVars

(* The stream ends; finalize() stops the writer on the way.                *)
Stop ==
    IF tw.task = "off" THEN StopStream /\ UNCHANGED twVars
    ELSE stream /\ WriterStop /\ UNCHANGED liveVars

MarketNext ==
    /\ \/ Market
       \/ MarketWithDatabase
       \/ Start
       \/ Stop
       \/ WriterNext /\ UNCHANGED liveVars
    /\ UNCHANGED database

MarketSpec == MarketInit /\ [][MarketNext]_marketVars
=============================================================================
