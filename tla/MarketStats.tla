---------------------------- MODULE MarketStats ----------------------------
(***************************************************************************)
(* From stored rows to the tables of a report: loading and cleaning        *)
(* (analysis/pipeline.py), segments and labels (analysis/session_report.py)*)
(* and the counts (core/statistics).                                       *)
(*                                                                         *)
(* A row is [q, obi, t, batch, seq]: the quote (see JumpClassifier), the   *)
(* imbalance of the best volumes in tenths, the exchange time in units of  *)
(* half a minute, the collection batch and the local sequence number.  All *)
(* rows are of one instrument, trading day and session.  A ratio is        *)
(* modelled by its counts, a frame by a sequence of records.               *)
(***************************************************************************)
EXTENDS JumpClassifier, SequencesExt

LongGap == 2      \* the 60 s a transition may span

Unlabelled == "none"
States5 == {"NO_MOVE", "BOUNCE_UP", "BOUNCE_DOWN", "QUOTE_UP", "QUOTE_DOWN"}

(* The rows at some places, in the order a relation gives those places:    *)
(* each comes after as many rows as there are places before its own.       *)
PlaceAt(places, before, k) ==
    CHOOSE i \in places : Cardinality({j \in places : <<j, i>> \in before}) = k - 1
Arranged(rs, places, before) ==
    [k \in 1..Cardinality(places) |-> rs[PlaceAt(places, before, k)]]

(* The order of final_files(): "snapshots-<digest>.parquet" sorts before   *)
(* "snapshots.parquet", so the first batch comes last.                     *)
LoadedBefore(rs) ==
    {p \in (DOMAIN rs) \X (DOMAIN rs) :
       \/ rs[p[1]].batch # 1 /\ rs[p[2]].batch = 1
       \/ (rs[p[1]].batch = 1 <=> rs[p[2]].batch = 1) /\ p[1] < p[2]}
Loaded(rs) == Arranged(rs, DOMAIN rs, LoadedBefore(rs))

SameContent(a, b) == a.q = b.q /\ a.obi = b.obi /\ a.t = b.t
Usable(q) == \A x \in {q.bid, q.ask, q.last} : Valid(x)

(* build_clean_dataframe: consecutive exact duplicates (in load order) and *)
(* rows without a usable quote dropped, and a stable sort by exchange time *)
(* and sequence number.                                                    *)
Kept(rs) ==
    {i \in DOMAIN rs : /\ i = 1 \/ ~SameContent(rs[i - 1], rs[i])
                       /\ Usable(rs[i].q) /\ ~Crossed(rs[i].q)}
SortedBefore(rs) ==
    {p \in (DOMAIN rs) \X (DOMAIN rs) :
       LET a == rs[p[1]]
           b == rs[p[2]]
       IN \/ a.t < b.t
          \/ a.t = b.t /\ a.seq < b.seq
          \/ a.t = b.t /\ a.seq = b.seq /\ p[1] < p[2]}
CleanRows(rs) == Arranged(rs, Kept(rs), SortedBefore(rs))

BoundaryAtGap(rs, i) ==
    i = 1 \/ rs[i].t - rs[i - 1].t >= LongGap \/ rs[i].batch # rs[i - 1].batch

(* A new segment: another batch, or a long gap.                            *)
Boundary(rs, i) ==
    \/ i = 1
    \/ rs[i].t - rs[i - 1].t > LongGap
    \/ rs[i].batch # rs[i - 1].batch

(* The labelled frame.  classify_dataframe() shifts the columns of one     *)
(* segment by one row: its first row has no label and no changes.          *)
Frame(m, rs) ==
    [i \in DOMAIN rs |->
       LET first == Boundary(rs, i)
           p == rs[i - 1].q
           c == rs[i].q
       IN [row   |-> rs[i],
           seg   |-> Cardinality({j \in 1..i : Boundary(rs, j)}),
           label |-> IF first THEN Unlabelled ELSE ClassifyArrays(m, p, c).label,
           dl    |-> IF first THEN 0 ELSE c.last - p.last,
           quote |-> ~first /\ (c.bid # p.bid \/ c.ask # p.ask)]]

Report(m, rs) == Frame(m, CleanRows(Loaded(rs)))

Count(f, P(_)) == Cardinality({i \in DOMAIN f : P(f[i])})

(* _count_block: the counts of a group of frame rows.                      *)
CountBlock(f) ==
    LET unit(r) == OneTick(r.dl) IN
    [snapshots     |-> Len(f),
     transitions   |-> Count(f, LAMBDA r : r.label # Unlabelled),
     lastChanges   |-> Count(f, LAMBDA r : r.dl # 0),
     oneTick       |-> Count(f, unit),
     quoteChanges  |-> Count(f, LAMBDA r : r.quote),
     genuine       |-> Count(f, LAMBDA r : r.label \in GenuineLabels),
     high          |-> Count(f, LAMBDA r : r.label \in HighLabels),
     likely        |-> Count(f, LAMBDA r : r.label \in LikelyLabels),
     ambiguous     |-> Count(f, LAMBDA r : r.label = "AMBIGUOUS"),
     noMove        |-> Count(f, LAMBDA r : r.label = "NO_MOVE"),
     unitBounce    |-> Count(f, LAMBDA r : unit(r) /\ r.label \in BounceLabels),
     unitGenuine   |-> Count(f, LAMBDA r : unit(r) /\ r.label \in GenuineLabels),
     unitAmbiguous |-> Count(f, LAMBDA r : unit(r) /\ r.label = "AMBIGUOUS")]

StateOf(r) == IF r.label = Unlabelled THEN "none" ELSE State5(r.label)

(* _pair_counts per segment: how often b follows a.                        *)
PairCounts(f) ==
    [a \in States5 |-> [b \in States5 |->
       Cardinality({i \in 1..(Len(f) - 1) : /\ f[i].seg = f[i + 1].seg
                                            /\ StateOf(f[i]) = a
                                            /\ StateOf(f[i + 1]) = b})]]

WholeFrame(f, i) == Len(f)
SegmentEnd(f, i) == Max({j \in DOMAIN f : f[j].seg = f[i].seg})

(* next_genuine_direction at row i: the reverse scan over i's segment keeps*)
(* the last genuine move met, which is the first one after the row.        *)
NextGenuine(f, horizon, i) ==
    LET n == SegmentEnd(f, i)
        met[j \in i..(n + 1)] ==      \* direction and place, once j was scanned
            IF j > n THEN <<0, j>>
            ELSE IF f[j].label \in GenuineLabels THEN <<Direction(f[j].label), j>>
            ELSE met[j + 1]
        next == met[i + 1]
    IN IF next[2] - i <= horizon THEN next[1] ELSE 0

CompleteHorizon(f, horizon, i) ==
    i + horizon <= Len(f) /\ f[i + horizon].seg = f[i].seg

Directions(f, horizon, is) ==
    [n    |-> Cardinality(is),
     up   |-> Cardinality({i \in is : NextGenuine(f, horizon, i) = 1}),
     down |-> Cardinality({i \in is : NextGenuine(f, horizon, i) = -1})]

DirectionByState(f, horizon) ==
    [s \in States5 |->
       Directions(f, horizon,
                  {i \in DOMAIN f : StateOf(f[i]) = s /\ CompleteHorizon(f, horizon, i)})]

(* obi_conditional_table: buckets [edges[b], edges[b+1]), the last one     *)
(* closed.                                                                 *)
ObiTable(f, edges, horizon) ==
    LET last == Len(edges) - 1
        inside(i) == edges[1] <= f[i].row.obi /\ f[i].row.obi <= edges[last + 1]
        found(i) == Cardinality({e \in DOMAIN edges : edges[e] <= f[i].row.obi})
        bucket(i) == IF found(i) > last THEN last ELSE found(i)
    IN [b \in 1..last |->
          Directions(f, horizon,
                     {i \in DOMAIN f : /\ inside(i)
                                       /\ CompleteHorizon(f, horizon, i)
                                       /\ bucket(i) = b})]

(* diff(k) of the mid within a segment, in quarter ticks; no value before. *)
MidReturn(f, k, i) ==
    IF i - k >= 1 /\ f[i - k].seg = f[i].seg
    THEN {(f[i].row.q.bid + f[i].row.q.ask) - (f[i - k].row.q.bid + f[i - k].row.q.ask)}
    ELSE {}

(* preevent_feature_rows: for each genuine move, the row before it and     *)
(* what was known there.                                                   *)
PreEvent(f, lookbacks) ==
    {[event |-> i, prior |-> i - 1, direction |-> Direction(f[i].label),
      obi |-> f[i - 1].row.obi,
      returns |-> [k \in lookbacks |-> MidReturn(f, k, i - 1)]] :
        i \in {j \in DOMAIN f : j > 1 /\ f[j].label \in GenuineLabels}}

-----------------------------------------------------------------------------
(* Properties of the tables of a frame f                                   *)

(* The direction a table of the report counts for row i is the one of the  *)
(* first genuine move within the horizon in snapshots of the same batch    *)
(* without a long pause, and no move is looked for in, or attributed to,   *)
(* rows of another batch or beyond a long pause.                           *)
NextGenuineIsFirst(f) ==
    LET linked(i, j) == \A k \in (i + 1)..j :
                          /\ f[k].row.batch = f[i].row.batch
                          /\ f[k].row.t - f[k - 1].row.t <= LongGap
        moves(i, h) == {j \in (i + 1)..(i + h) : /\ j <= Len(f)
                                                 /\ linked(i, j)
                                                 /\ f[j].label \in GenuineLabels}
        first(found) == IF found = {} THEN 0 ELSE Direction(f[Min(found)].label)
    IN \A i \in DOMAIN f, h \in 1..2 :
         /\ NextGenuine(f, h, i) = first(moves(i, h))
         /\ CompleteHorizon(f, h, i) <=> i + h <= Len(f) /\ linked(i, i + h)

OverStates(n) ==
    n["NO_MOVE"] + n["BOUNCE_UP"] + n["BOUNCE_DOWN"] + n["QUOTE_UP"] + n["QUOTE_DOWN"]
OverPairs(n) == OverStates([a \in States5 |-> OverStates(n[a])])

(* The counts of a block: the one-tick moves are bounces, genuine or       *)
(* ambiguous.                                                              *)
BlockAddsUp(c) ==
    /\ c.oneTick = c.unitBounce + c.unitGenuine + c.unitAmbiguous
    /\ c.transitions = c.genuine + c.high + c.likely + c.ambiguous + c.noMove
    /\ c.lastChanges + c.quoteChanges >= c.genuine + c.high + c.likely

(* The pairs of states of the matrix are pairs of labelled neighbours, and *)
(* the tables count every row with a complete horizon once.                *)
RowsCountedOnce(f, complete) ==
    LET obi == ObiTable(f, <<-10, 0, 10>>, 1)
        states == DirectionByState(f, 1)
    IN /\ OverPairs(PairCounts(f))
          = Cardinality({i \in complete : "none" \notin {StateOf(f[i]), StateOf(f[i + 1])}})
       /\ obi[1].n + obi[2].n = Cardinality(complete)
       /\ OverStates([s \in States5 |-> states[s].n])
          = Cardinality({i \in complete : StateOf(f[i]) # "none"})

(* What is known before a genuine move comes from the same stretch of data.*)
KnownBefore(f, e) ==
    /\ f[e.prior].row.batch = f[e.event].row.batch
    /\ f[e.event].row.t - f[e.prior].row.t <= LongGap
    /\ \A k \in {1, 2} : e.returns[k] # {} =>
         e.prior > k /\ f[e.prior - k].row.batch = f[e.event].row.batch

TablesAddUp(f) ==
    /\ BlockAddsUp(CountBlock(f))
    /\ RowsCountedOnce(f, {i \in DOMAIN f : CompleteHorizon(f, 1, i)})
    /\ \A e \in PreEvent(f, {1, 2}) : KnownBefore(f, e)

ReportTablesOf(f) == NextGenuineIsFirst(f) /\ TablesAddUp(f)
=============================================================================
