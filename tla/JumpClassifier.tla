--------------------------- MODULE JumpClassifier ---------------------------
(***************************************************************************)
(* core/classifier/jump_classifier.py: the label of a snapshot transition, *)
(* once for a pair of quotes (classify_pair) and once with masks over      *)
(* whole columns (classify_arrays).                                        *)
(*                                                                         *)
(* Prices are integers in half ticks, so an odd one is off the tick grid;  *)
(* 0 stands for every price is_valid_price() refuses (None, NaN, not       *)
(* positive, the CTP sentinel).  Changes of the mid are in quarter ticks.  *)
(* Prices being exact, the code's fp tolerance of 1e-6 is 0.               *)
(* The parameters of a classifier are a record m of strict                 *)
(* (strict_symmetric_quote_move), midTol (mid_tolerance_ticks, in quarter  *)
(* ticks) and unitOnly (likely_bounce_requires_unit_move).                 *)
(***************************************************************************)
EXTENDS Integers, Sequences

Tick     == 2
NoPrice  == 0
MidTick  == 4          \* one tick of the mid

(* The parameters of a classifier, and a quote with its last price.        *)
Settings == [strict : BOOLEAN, midTol : Int, unitOnly : BOOLEAN]
Prices == [bid : Int, ask : Int, last : Int]

Up(dir, u, d) == IF dir > 0 THEN u ELSE d
Genuine(dir)  == Up(dir, "GENUINE_QUOTE_MOVE_UP", "GENUINE_QUOTE_MOVE_DOWN")
High(dir)     == Up(dir, "HIGH_CONFIDENCE_BOUNCE_UP", "HIGH_CONFIDENCE_BOUNCE_DOWN")
Likely(dir)   == Up(dir, "LIKELY_BOUNCE_UP", "LIKELY_BOUNCE_DOWN")
GenuineLabels == {Genuine(1), Genuine(-1)}
HighLabels    == {High(1), High(-1)}
LikelyLabels  == {Likely(1), Likely(-1)}
BounceLabels  == HighLabels \cup LikelyLabels
Labels == GenuineLabels \cup BounceLabels \cup {"NO_MOVE", "AMBIGUOUS"}

(* LABEL_META: the family, the state of the 5-state chain ("none" for      *)
(* AMBIGUOUS) and the direction of a label.                                *)
Direction(l) ==
    IF l \in {Genuine(1), High(1), Likely(1)} THEN 1
    ELSE IF l \in {Genuine(-1), High(-1), Likely(-1)} THEN -1 ELSE 0
State5(l) ==
    IF l \in GenuineLabels THEN Up(Direction(l), "QUOTE_UP", "QUOTE_DOWN")
    ELSE IF l \in BounceLabels THEN Up(Direction(l), "BOUNCE_UP", "BOUNCE_DOWN")
    ELSE IF l = "NO_MOVE" THEN l ELSE "none"

Abs(x)   == IF x < 0 THEN -x ELSE x
Sign(x)  == IF x > 0 THEN 1 ELSE -1    \* the code's `1 if x > 0 else -1`
Valid(x) == x > NoPrice
Crossed(q) == q.ask <= q.bid
OnGrid(q)  == \A x \in {q.bid, q.ask, q.last} : Valid(x) => x % Tick = 0
LastInside(q) == q.bid <= q.last /\ q.last <= q.ask

Result(label, reason, hint) == [label |-> label, reason |-> reason, hint |-> hint]
Is(label) == Result(label, "none", 0)
Ambiguous(reason, hint) == Result("AMBIGUOUS", reason, hint)

(* The value of the first rule <<condition, value>> that applies: an       *)
(* if-return ladder, and np.select().                                      *)
First(rules) ==
    rules[CHOOSE i \in DOMAIN rules :
            rules[i][1] /\ \A j \in 1..(i - 1) : ~rules[j][1]][2]

(* The changes from p to c.  The change of the last price exists when both *)
(* are usable.                                                             *)
Change(p, c) ==
    [ok    |-> /\ \A x \in {p.bid, p.ask, c.bid, c.ask} : Valid(x)
               /\ ~Crossed(p) /\ ~Crossed(c),
     grid  |-> OnGrid(p) /\ OnGrid(c),
     db    |-> c.bid - p.bid,
     da    |-> c.ask - p.ask,
     dm    |-> (c.bid + c.ask) - (p.bid + p.ask),
     lasts |-> Valid(p.last) /\ Valid(c.last),
     dl    |-> IF Valid(p.last) /\ Valid(c.last) THEN c.last - p.last ELSE 0]
SameDir(ch) == (ch.db > 0 /\ ch.da > 0) \/ (ch.db < 0 /\ ch.da < 0)
UnitMove(ch) == ch.lasts /\ Abs(ch.dl) = Tick

(* dl_ticks of the result: NaN (here 0) without two last prices, and the   *)
(* default 0.0 when the quotes are refused.                                *)
LastMove(p, c) == LET ch == Change(p, c) IN IF ch.ok THEN ch.dl ELSE 0
OneTick(dl) == Abs(dl) = Tick

-----------------------------------------------------------------------------
(* classify_pair: the decision ladder.                                     *)
ClassifyPair(m, p, c) ==
    LET ch == Change(p, c)
        unchanged == ch.db = 0 /\ ch.da = 0
    IN First(<<
        <<~ch.ok, Ambiguous("QUOTE_INVALID", 0)>>,
        <<~ch.grid, Ambiguous("NON_TICK_ALIGNED", 0)>>,
        <<unchanged /\ (~ch.lasts \/ ch.dl = 0), Is("NO_MOVE")>>,
        <<ch.db # 0 /\ ch.db = ch.da, Is(Genuine(ch.db))>>,
        <<~m.strict /\ SameDir(ch), Is(Genuine(ch.db))>>,
        \* quotes unchanged
        <<unchanged /\ p.last = p.bid /\ c.last = c.ask, Is(High(1))>>,
        <<unchanged /\ p.last = p.ask /\ c.last = c.bid, Is(High(-1))>>,
        <<unchanged /\ LastInside(p) /\ LastInside(c) /\ (UnitMove(ch) \/ ~m.unitOnly),
          Is(Likely(ch.dl))>>,
        <<unchanged /\ LastInside(p) /\ LastInside(c),
          Ambiguous("INSIDE_SPREAD_NON_UNIT_MOVE", Sign(ch.dl))>>,
        <<unchanged, Ambiguous("LAST_OUTSIDE_UNCHANGED_QUOTE", Sign(ch.dl))>>,
        \* asymmetric quote change
        <<UnitMove(ch) /\ Abs(ch.dm) <= m.midTol /\ ~SameDir(ch)
            /\ LastInside(p) /\ LastInside(c), Is(Likely(ch.dl))>>,
        <<Abs(ch.dm) >= MidTick /\ ~m.strict, Is(Genuine(ch.dm))>>,
        <<Abs(ch.dm) >= MidTick,
          Ambiguous(IF SameDir(ch) THEN "ASYMMETRIC_QUOTE_MOVE"
                    ELSE "MID_MOVE_WITH_COMPLEX_QUOTE", Sign(ch.dm))>>,
        <<ch.lasts /\ ~LastInside(c), Ambiguous("LAST_OUTSIDE_QUOTE", Sign(ch.dl))>>,
        <<TRUE, Ambiguous("COMPLEX_QUOTE_CHANGE", 0)>> >>)

AsymmetricToo(ch, sym, loose_genuine) == (ch.db # 0 \/ ch.da # 0) /\ ~loose_genuine

(* asym: the quote moved, and nothing above took the row.                  *)
Asymmetric(ch, sym, loose_genuine) ==
    (ch.db # 0 \/ ch.da # 0) /\ ~sym /\ ~loose_genuine

(* classify_arrays: one row's value of every mask.  Masks may overlap; the *)
(* priority is np.select's, and the signed labels are patched in after it. *)
ClassifyArrays(m, p, c) ==
    LET ch == Change(p, c)
        db0 == ch.db = 0
        da0 == ch.da = 0
        usable == ch.ok /\ ch.grid
        sym == ch.ok /\ ~db0 /\ ~da0 /\ ch.db = ch.da
        loose_genuine == ~m.strict /\ usable /\ ~db0 /\ ~da0 /\ SameDir(ch)
        toggle_up == p.last = p.bid /\ c.last = c.ask
        toggle_down == p.last = p.ask /\ c.last = c.bid
        inside == LastInside(p) /\ LastInside(c)
        no_move == usable /\ db0 /\ da0 /\ (~ch.lasts \/ ch.dl = 0)
        genuine_all == (usable /\ sym) \/ (loose_genuine /\ ~sym)
        quotes_unchanged == usable /\ db0 /\ da0 /\ ~no_move
        high_up == quotes_unchanged /\ ch.lasts /\ toggle_up
        high_down == quotes_unchanged /\ ch.lasts /\ toggle_down /\ ~toggle_up
        no_toggle == quotes_unchanged /\ ch.lasts /\ ~toggle_up /\ ~toggle_down
        likely_in_quote == no_toggle /\ inside /\ (UnitMove(ch) \/ ~m.unitOnly)
        inside_non_unit == no_toggle /\ inside /\ ~UnitMove(ch) /\ m.unitOnly
        outside_unchanged == no_toggle /\ ~inside
        asym == usable /\ Asymmetric(ch, sym, loose_genuine)
        likely_reshaped == asym /\ UnitMove(ch) /\ Abs(ch.dm) <= m.midTol
                           /\ ~SameDir(ch) /\ inside
        mid_move_mask == asym /\ Abs(ch.dm) >= MidTick /\ ~likely_reshaped
        genuine_mid == ~m.strict /\ mid_move_mask
        mid_move == m.strict /\ mid_move_mask
        last_outside == asym /\ ~likely_reshaped /\ ~mid_move_mask
                        /\ ch.lasts /\ ~LastInside(c)
        complex_change == asym /\ ~likely_reshaped /\ ~mid_move_mask /\ ~last_outside
    IN Result(
        First(<<
            <<no_move, "NO_MOVE">>,
            <<genuine_all, Genuine(ch.db)>>,
            <<high_up, High(1)>>,
            <<high_down, High(-1)>>,
            <<likely_in_quote \/ likely_reshaped, Likely(ch.dl)>>,
            <<genuine_mid, Genuine(ch.dm)>>,
            <<TRUE, "AMBIGUOUS">> >>),
        First(<<
            <<~ch.ok, "QUOTE_INVALID">>,
            <<~ch.grid, "NON_TICK_ALIGNED">>,
            <<inside_non_unit, "INSIDE_SPREAD_NON_UNIT_MOVE">>,
            <<outside_unchanged, "LAST_OUTSIDE_UNCHANGED_QUOTE">>,
            <<mid_move /\ SameDir(ch), "ASYMMETRIC_QUOTE_MOVE">>,
            <<mid_move, "MID_MOVE_WITH_COMPLEX_QUOTE">>,
            <<last_outside, "LAST_OUTSIDE_QUOTE">>,
            <<complex_change, "COMPLEX_QUOTE_CHANGE">>,
            <<TRUE, "none">> >>),
        First(<<
            <<mid_move, Sign(ch.dm)>>,
            <<last_outside \/ outside_unchanged \/ inside_non_unit, Sign(ch.dl)>>,
            <<TRUE, 0>> >>))
=============================================================================
