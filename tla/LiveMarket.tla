----------------------------- MODULE LiveMarket -----------------------------
(***************************************************************************)
(* What happens to a snapshot on its way through the gateway              *)
(* (gateway/process.py): it is numbered, normalised and classified against *)
(* the last one (core/normalizer.py), stored, and its events reach the     *)
(* realtime metrics (analysis/realtime.py).  Beside it the live state of   *)
(* the legacy collector (legacy/collector/live.py), fed the same snapshots.*)
(*                                                                         *)
(* One instrument.  A reconnection of the CTP link is a pause between two  *)
(* snapshots: it changes nothing here (GatewayRuntime has its steps).      *)
(***************************************************************************)
EXTENDS MarketStats

CONSTANTS Modes,        \* classifier settings
          LabelWindow,  \* _LABEL_WINDOW
          MinOneTick,   \* _MIN_ONE_TICK
          MaxBatches    \* bound of the model

ASSUME LiveAssumption ==
    Modes \subseteq Settings /\ LabelWindow \in Nat \ {0} /\ MinOneTick \in Nat \ {0}

VARIABLES mode,    \* the classifier setting of this deployment
          rows,    \* every stored row, in arrival order
          batch,   \* number of the last batch begun
          stream,  \* a stream of that batch is running
          clock,   \* exchange time of the last snapshot
          prev,    \* MarketDataNormalizer._prev: the cleaned prices, or NoQuote
          micros,  \* micro events published so far
          rt,      \* RealtimeMetrics: transitions, label and time of the last publication
          lg       \* the legacy run: its _prev, label_counts, one_tick_last_changes
                   \* and unit_label_counts

liveVars == <<mode, rows, batch, stream, clock, prev, micros, rt, lg>>

NoQuote == [bid |-> -1, ask |-> -1, last |-> -1]
NoCounts == [l \in Labels |-> 0]
NewLegacyRun == [prev |-> NoQuote, labels |-> NoCounts, oneTick |-> 0, units |-> NoCounts]

LiveInit ==
    /\ mode \in Modes
    /\ rows = <<>>
    /\ batch = 0
    /\ stream = FALSE
    /\ clock = 0
    /\ prev = NoQuote
    /\ micros = <<>>
    /\ rt = [trans |-> <<>>, label |-> Unlabelled, at |-> 0, sent |-> Unlabelled]
    /\ lg = NewLegacyRun

NextSeq == 1 + Cardinality({i \in DOMAIN rows : rows[i].batch = batch})

-----------------------------------------------------------------------------
(* micro_data, and what the readers of the event take from it: whether the *)
(* last price moved by one tick.                                           *)
MicroData(q) == [label |-> ClassifyPair(mode, prev, q).label,
                 unit  |-> OneTick(LastMove(prev, q))]

(* normalize_row: the micro events a quote gives, none or one.  NoPrice    *)
(* stands for None in the stored prices.                                   *)
MicroOf(q, seq) ==
    IF ~Usable(prev) \/ ~Usable(q) THEN <<>>      \* NoQuote is not usable
    ELSE <<[batch |-> batch, seq |-> seq, label |-> MicroData(q).label,
            unit |-> MicroData(q).unit]>>

LastN(s, n) == IF Len(s) <= n THEN s ELSE SubSeq(s, Len(s) - n + 1, Len(s))

(* _metrics, of the moves at some places of a sequence, and                *)
(* classify_regime; the thresholds in hundredths.                          *)
MetricsAt(moves, places) ==
    LET unit == {i \in places : moves[i].unit} IN
    [oneTick |-> Cardinality(unit),
     bounce  |-> Cardinality({i \in unit : moves[i].label \in BounceLabels}),
     genuine |-> Cardinality({i \in unit : moves[i].label \in GenuineLabels})]
Metrics(trans) == MetricsAt(trans, DOMAIN trans)
Regime(x) ==
    CASE x.oneTick < MinOneTick -> "INSUFFICIENT_DATA"
      [] OTHER -> IF 100 * x.bounce >= 65 * x.oneTick /\ 100 * x.genuine < 20 * x.oneTick
                  THEN "HIGH_BOUNCE"
                  ELSE IF 100 * x.genuine >= 30 * x.oneTick THEN "DIRECTIONAL"
                  ELSE "MIXED"

(* _on_micro: at most one publication a second, unless the label changes.  *)
OnMicro(old, e, now) ==
    LET trans == LastN(Append(old.trans, [label |-> e.label, unit |-> e.unit]), LabelWindow)
    IN IF now > old.at \/ e.label # old.label
       THEN [trans |-> trans, label |-> e.label, at |-> now, sent |-> Regime(Metrics(trans))]
       ELSE [old EXCEPT !.trans = trans]

(* InstrumentLiveState.update for a labelled snapshot.                     *)
Labelled(old, q) ==
    LET label == ClassifyPair(mode, old.prev, q).label
        unit == OneTick(LastMove(old.prev, q))
        more == IF unit THEN 1 ELSE 0
    IN [prev    |-> q,
        labels  |-> [old.labels EXCEPT ![label] = @ + 1],
        oneTick |-> old.oneTick + more,
        units   |-> [old.units EXCEPT ![label] = @ + more]]

OnUsableRow(old, q) ==
    IF old.prev = NoQuote THEN [old EXCEPT !.prev = q]
    ELSE IF Usable(q) THEN Labelled(old, q) ELSE old

(* LiveClassifier.classify: every snapshot after the first is labelled, an *)
(* unusable one included.                                                  *)
OnLegacyRow(old, q) ==
    IF old.prev = NoQuote THEN [old EXCEPT !.prev = q] ELSE Labelled(old, q)

(* InstrumentLiveState.snapshot: the counts its two ratios are made of.    *)
LegacyShown ==
    LET units == lg.units IN
    [oneTick |-> lg.oneTick,
     bounce  |-> units[High(1)] + units[High(-1)] + units[Likely(1)] + units[Likely(-1)],
     genuine |-> units[Genuine(1)] + units[Genuine(-1)]]

-----------------------------------------------------------------------------
(* A batch begins; the legacy collector has new state for every run.       *)
StartStream ==
    /\ ~stream
    /\ batch < MaxBatches
    /\ batch' = batch + 1
    /\ stream' = TRUE
    /\ lg' = NewLegacyRun
    /\ UNCHANGED <<mode, rows, clock, prev, micros, rt>>

(* _handle_depth and _process_row: a snapshot with quote q and imbalance   *)
(* obi, pause units of time after the last one.                            *)
Snapshot(q, obi, pause) ==
    LET seq == NextSeq
        micro == MicroOf(q, seq)
    IN /\ stream
       /\ clock' = clock + pause
       /\ rows' = Append(rows, [q |-> q, obi |-> obi, t |-> clock', batch |-> batch, seq |-> seq])
       /\ prev' = q
       /\ micros' = micros \o micro
       /\ rt' = IF micro = <<>> THEN rt ELSE OnMicro(rt, micro[1], clock')
       /\ lg' = OnLegacyRow(lg, q)
       /\ UNCHANGED <<mode, batch, stream>>

NormalizerReset == NoQuote

(* _stop_stream: the batch is finalized, numbering and normaliser reset.   *)
StopStream ==
    /\ stream
    /\ stream' = FALSE
    /\ prev' = NormalizerReset
    /\ UNCHANGED <<mode, rows, batch, clock, micros, rt, lg>>

-----------------------------------------------------------------------------
(* Properties                                                              *)

(* The vectorised classifier of the reports and the pairwise one of the    *)
(* live path agree on label, reason and hint ("must match classify_pair    *)
(* exactly", jump_classifier.py:264), for every pair of snapshots received.*)
VectorisedMatchesPairwise ==
    LET n == Len(rows) IN
    n > 1 => ClassifyArrays(mode, rows[n - 1].q, rows[n].q)
             = ClassifyPair(mode, rows[n - 1].q, rows[n].q)

(* Row b is the next snapshot of its batch after a, but for repetitions    *)
(* of a.                                                                   *)
NextSnapshot(a, b) ==
    /\ a.batch = b.batch
    /\ a.seq < b.seq
    /\ \A i \in DOMAIN rows :
         rows[i].batch = a.batch /\ rows[i].seq \in (a.seq + 1)..(b.seq - 1)
           => SameContent(rows[i], a)

LiveLabel(r) ==
    IF \E i \in DOMAIN micros : micros[i].batch = r.batch /\ micros[i].seq = r.seq
    THEN micros[CHOOSE i \in DOMAIN micros :
                  micros[i].batch = r.batch /\ micros[i].seq = r.seq].label
    ELSE Unlabelled

(* A report made after the stream ended gives a transition between two     *)
(* snapshots that came one after the other, at most a minute apart, the    *)
(* label that was published live for the second; and neither labels the    *)
(* first snapshot of a batch (one classifier for both, README.md:34).      *)
(* Of other transitions it says nothing: after a longer pause, or across a *)
(* snapshot the report drops as unusable or crossed, the two may differ    *)
(* (PanelMatchesReport).                                                   *)
LiveMatchesReport ==
    LET f == Report(mode, rows) IN
    ~stream => \A i \in DOMAIN f \ {1} :
        LET a == f[i - 1].row
            b == f[i].row
        IN /\ NextSnapshot(a, b) /\ b.t - a.t <= LongGap => f[i].label = LiveLabel(b)
           /\ b.seq = 1 => {f[i].label, LiveLabel(b)} = {Unlabelled}

(* "Live and offline from one source: [...] rules out by construction that *)
(* the panel and the report disagree" (README.md:34): every row of a       *)
(* report has the label that was published live for it.                    *)
PanelMatchesReport ==
    LET f == Report(mode, rows) IN
    ~stream => \A i \in DOMAIN f : f[i].label = LiveLabel(f[i].row)

(* The realtime metrics and the legacy live state count the same moves of  *)
(* one tick, and the same bounces and genuine moves among them, although   *)
(* one skips unusable snapshots and the other labels them AMBIGUOUS: the   *)
(* legacy state the published moves of this batch, the metrics the latest  *)
(* ones, which may be of an earlier batch or not reach back to its start.  *)
OfBatch == {i \in DOMAIN micros : micros[i].batch = batch}
InWindow == {i \in DOMAIN micros : i > Len(micros) - LabelWindow}
OneTickCountsAgree ==
    /\ LegacyShown = MetricsAt(micros, OfBatch)
    /\ Metrics(rt.trans) = MetricsAt(micros, InWindow)

(* The tables of a report made after the stream ended, looked at row by    *)
(* row and as a whole.                                                     *)
ReportTables == ~stream => ReportTablesOf(Report(mode, rows))
=============================================================================
