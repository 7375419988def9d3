------------------------- MODULE MarketStats_proofs -------------------------
(***************************************************************************)
(* Proofs about the classifiers and the tables of a report, for any rows.  *)
(*                                                                         *)
(* The classifiers: the two implementations agree, for all integer prices  *)
(* and all settings.  Both are ladders of rules, so each is first brought  *)
(* into the form IF c1 THEN v1 ELSE IF c2 THEN v2 ...; then the cases are  *)
(* compared.                                                               *)
(*                                                                         *)
(* The reports: what the rows of a clean frame are, what its segments      *)
(* separate, and that its tables count every row where they should.        *)
(* Induction is by a least counterexample (LeastElement).                  *)
(***************************************************************************)
EXTENDS MarketStats, FiniteSetTheorems, WellFoundedInduction, TLAPS

(* The value of a ladder is that of the rule that applies first. *)
LEMMA FirstIs ==
    ASSUME NEW rules, NEW n \in Nat, DOMAIN rules = 1..n,
           NEW i \in 1..n, rules[i][1] = TRUE,
           \A j \in 1..(i - 1) : rules[j][1] = FALSE
    PROVE  First(rules) = rules[i][2]
<1> DEFINE First_at(k) == rules[k][1] /\ \A j \in 1..(k - 1) : ~rules[j][1]
<1>1. First_at(i)
  OBVIOUS
<1>2. ASSUME NEW k \in DOMAIN rules, First_at(k) PROVE k = i
  <2>1. CASE k < i  BY <1>2, <2>1
  <2>2. CASE i < k  BY <1>2, <2>2
  <2> QED BY <2>1, <2>2
<1>3. (CHOOSE k \in DOMAIN rules : First_at(k)) = i
  <2> HIDE DEF First_at
  <2> QED BY <1>1, <1>2
<1> QED BY <1>3 DEF First

(* What the ladder and the masks look at. *)
LEMMA ChangeIs ==
    ASSUME NEW p \in Prices, NEW c \in Prices
    PROVE  LET ch == Change(p, c) IN
           /\ ch.ok \in BOOLEAN /\ ch.grid \in BOOLEAN /\ ch.lasts \in BOOLEAN
           /\ ch.db \in Int /\ ch.da \in Int /\ ch.dm \in Int /\ ch.dl \in Int
           /\ ~ch.lasts => ch.dl = 0
<1>1. p.bid \in Int /\ p.ask \in Int /\ p.last \in Int
      /\ c.bid \in Int /\ c.ask \in Int /\ c.last \in Int
  BY DEF Prices
<1> DEFINE ch == Change(p, c)
<1>2. /\ ch.ok = (/\ \A x \in {p.bid, p.ask, c.bid, c.ask} : Valid(x)
                 /\ ~Crossed(p) /\ ~Crossed(c))
      /\ ch.grid = (OnGrid(p) /\ OnGrid(c))
      /\ ch.lasts = (Valid(p.last) /\ Valid(c.last))
      /\ ch.db = c.bid - p.bid /\ ch.da = c.ask - p.ask
      /\ ch.dm = (c.bid + c.ask) - (p.bid + p.ask)
      /\ ch.dl = IF Valid(p.last) /\ Valid(c.last) THEN c.last - p.last ELSE 0
  BY DEF Change
<1> HIDE DEF ch
<1>3. ch.ok \in BOOLEAN /\ ch.grid \in BOOLEAN /\ ch.lasts \in BOOLEAN
  BY <1>2 DEF OnGrid, Valid, Crossed
<1>4. ch.db \in Int /\ ch.da \in Int /\ ch.dm \in Int /\ ch.dl \in Int
  BY <1>1, <1>2
<1>5. ~ch.lasts => ch.dl = 0
  BY <1>2 DEF Valid
<1> QED BY <1>3, <1>4, <1>5 DEF ch

(* classify_arrays() gives what classify_pair() gives ("must match          *)
(* classify_pair exactly", jump_classifier.py:264), for any prices at all   *)
(* and any settings.                                                        *)
THEOREM ClassifiersAgree ==
    ASSUME NEW m \in Settings, NEW p \in Prices, NEW c \in Prices
    PROVE  ClassifyArrays(m, p, c) = ClassifyPair(m, p, c)
<1> DEFINE ch == Change(p, c)
           ok == ch.ok
           grid == ch.grid
           lasts == ch.lasts
           strict == m.strict
           unitOnly == m.unitOnly
           db0 == ch.db = 0
           moved == ch.db # 0
           da0 == ch.da = 0
           equal == ch.db = ch.da
           dl0 == ch.dl = 0
           same == SameDir(ch)
           unit == UnitMove(ch)
           small == Abs(ch.dm) <= m.midTol
           large == Abs(ch.dm) >= MidTick
           up == p.last = p.bid /\ c.last = c.ask
           down == p.last = p.ask /\ c.last = c.bid
           in_p == LastInside(p)
           in_c == LastInside(c)
           sb == Genuine(ch.db)
           sm == Genuine(ch.dm)
           ll == Likely(ch.dl)
           hl == Sign(ch.dl)
           hm == Sign(ch.dm)
           hu == High(1)
           hd == High(-1)
<1>1. /\ ok \in BOOLEAN /\ grid \in BOOLEAN /\ lasts \in BOOLEAN
      /\ strict \in BOOLEAN /\ unitOnly \in BOOLEAN /\ same \in BOOLEAN
      /\ unit \in BOOLEAN /\ small \in BOOLEAN /\ large \in BOOLEAN /\ up \in BOOLEAN
      /\ down \in BOOLEAN /\ in_p \in BOOLEAN /\ in_c \in BOOLEAN /\ db0 \in BOOLEAN
      /\ da0 \in BOOLEAN /\ equal \in BOOLEAN /\ dl0 \in BOOLEAN
  BY ChangeIs DEF Settings, SameDir, UnitMove, LastInside
<1>2. /\ db0 /\ da0 => equal
      /\ db0 /\ equal => da0
      /\ da0 /\ equal => db0
      /\ same => ~db0 /\ ~da0
      /\ ~lasts => dl0
      /\ unit => lasts
  BY ChangeIs DEF SameDir, UnitMove
<1> DEFINE unchanged == db0 /\ da0
           k1 == ~ok
           k2 == ~grid
           k3 == unchanged /\ (~lasts \/ dl0)
           k4 == moved /\ equal
           k5 == ~strict /\ same
           k6 == unchanged /\ up
           k7 == unchanged /\ down
           k8 == unchanged /\ in_p /\ in_c /\ (unit \/ ~unitOnly)
           k9 == unchanged /\ in_p /\ in_c
           k11 == unit /\ small /\ ~same /\ in_p /\ in_c
           k12 == large /\ ~strict
           k14 == lasts /\ ~in_c
           w1 == Ambiguous("QUOTE_INVALID", 0)
           w2 == Ambiguous("NON_TICK_ALIGNED", 0)
           w3 == Is("NO_MOVE")
           w4 == Is(sb)
           w6 == Is(hu)
           w7 == Is(hd)
           w8 == Is(ll)
           w9 == Ambiguous("INSIDE_SPREAD_NON_UNIT_MOVE", hl)
           w10 == Ambiguous("LAST_OUTSIDE_UNCHANGED_QUOTE", hl)
           w12 == Is(sm)
           w13 == Ambiguous(IF same THEN "ASYMMETRIC_QUOTE_MOVE"
                            ELSE "MID_MOVE_WITH_COMPLEX_QUOTE", hm)
           w14 == Ambiguous("LAST_OUTSIDE_QUOTE", hl)
           w15 == Ambiguous("COMPLEX_QUOTE_CHANGE", 0)
           pair == << <<k1, w1>>, <<k2, w2>>, <<k3, w3>>, <<k4, w4>>, <<k5, w4>>,
                            <<k6, w6>>, <<k7, w7>>, <<k8, w8>>, <<k9, w9>>,
                            <<unchanged, w10>>, <<k11, w8>>, <<k12, w12>>, <<large, w13>>,
                            <<k14, w14>>, <<TRUE, w15>> >>
<1>3. ClassifyPair(m, p, c) = First(pair)
  BY DEF ClassifyPair
<1> DEFINE usable == ok /\ grid
           sym == ok /\ ~db0 /\ ~da0 /\ equal
           loose_genuine == ~strict /\ usable /\ ~db0 /\ ~da0 /\ same
           inside == in_p /\ in_c
           no_move == usable /\ db0 /\ da0 /\ (~lasts \/ dl0)
           genuine_all == (usable /\ sym) \/ (loose_genuine /\ ~sym)
           quotes_unchanged == usable /\ db0 /\ da0 /\ ~no_move
           high_up == quotes_unchanged /\ lasts /\ up
           high_down == quotes_unchanged /\ lasts /\ down /\ ~up
           no_toggle == quotes_unchanged /\ lasts /\ ~up /\ ~down
           likely_in_quote == no_toggle /\ inside /\ (unit \/ ~unitOnly)
           inside_non_unit == no_toggle /\ inside /\ ~unit /\ unitOnly
           outside_unchanged == no_toggle /\ ~inside
           asym == usable /\ Asymmetric(ch, sym, loose_genuine)
           likely_reshaped == asym /\ unit /\ small /\ ~same /\ inside
           mid_move_mask == asym /\ large /\ ~likely_reshaped
           genuine_mid == ~strict /\ mid_move_mask
           mid_move == strict /\ mid_move_mask
           last_outside == asym /\ ~likely_reshaped /\ ~mid_move_mask /\ lasts /\ ~in_c
           complex_change == asym /\ ~likely_reshaped /\ ~mid_move_mask /\ ~last_outside
           likely == likely_in_quote \/ likely_reshaped
           mid_same == mid_move /\ same
           last_hint == last_outside \/ outside_unchanged \/ inside_non_unit
           label == <<
             <<no_move, "NO_MOVE">>, <<genuine_all, sb>>, <<high_up, hu>>, <<high_down, hd>>,
             <<likely, ll>>, <<genuine_mid, sm>>,
             <<TRUE, "AMBIGUOUS">> >>
           reason == <<
             <<k1, "QUOTE_INVALID">>, <<k2, "NON_TICK_ALIGNED">>,
             <<inside_non_unit, "INSIDE_SPREAD_NON_UNIT_MOVE">>,
             <<outside_unchanged, "LAST_OUTSIDE_UNCHANGED_QUOTE">>,
             <<mid_same, "ASYMMETRIC_QUOTE_MOVE">>,
             <<mid_move, "MID_MOVE_WITH_COMPLEX_QUOTE">>,
             <<last_outside, "LAST_OUTSIDE_QUOTE">>,
             <<complex_change, "COMPLEX_QUOTE_CHANGE">>,
             <<TRUE, "none">> >>
           hint == <<
             <<mid_move, hm>>, <<last_hint, hl>>,
             <<TRUE, 0>> >>
<1>4. ClassifyArrays(m, p, c) = Result(First(label), First(reason), First(hint))
  BY DEF ClassifyArrays
<1>5. /\ moved <=> ~db0
      /\ asym <=> usable /\ ~(db0 /\ da0) /\ ~sym /\ ~loose_genuine
  BY DEF Asymmetric
<1> HIDE DEF ch, ok, grid, lasts, strict, unitOnly, db0, moved, da0, equal, dl0, same, unit,
             small, large, up, down, in_p, in_c, sb, sm, ll, hl, hm, hu, hd
<1>k. /\ k1 \in BOOLEAN /\ k2 \in BOOLEAN /\ k3 \in BOOLEAN /\ k4 \in BOOLEAN
      /\ k5 \in BOOLEAN /\ k6 \in BOOLEAN /\ k7 \in BOOLEAN /\ k8 \in BOOLEAN
      /\ k9 \in BOOLEAN /\ unchanged \in BOOLEAN /\ k11 \in BOOLEAN /\ k12 \in BOOLEAN
      /\ large \in BOOLEAN /\ k14 \in BOOLEAN
  BY <1>1
<1>m. /\ no_move \in BOOLEAN /\ genuine_all \in BOOLEAN /\ high_up \in BOOLEAN
      /\ high_down \in BOOLEAN /\ likely \in BOOLEAN /\ genuine_mid \in BOOLEAN
      /\ inside_non_unit \in BOOLEAN
      /\ outside_unchanged \in BOOLEAN /\ mid_same \in BOOLEAN /\ mid_move \in BOOLEAN
      /\ last_outside \in BOOLEAN /\ complex_change \in BOOLEAN /\ last_hint \in BOOLEAN
  OBVIOUS
<1>6. First(pair) = IF k1 THEN w1 ELSE IF k2 THEN w2 ELSE IF k3 THEN w3 ELSE IF k4 THEN w4
             ELSE IF k5 THEN w4 ELSE IF k6 THEN w6 ELSE IF k7 THEN w7 ELSE IF k8 THEN w8
             ELSE IF k9 THEN w9 ELSE IF unchanged THEN w10 ELSE IF k11 THEN w8
             ELSE IF k12 THEN w12 ELSE IF large THEN w13 ELSE IF k14 THEN w14 ELSE w15
  <2> HIDE DEF k1, k2, k3, k4, k5, k6, k7, k8, k9, unchanged, k11, k12, k14, w1,
               w2, w3, w4, w6, w7, w8, w9, w10, w12, w13, w14, w15
  <2>a. DOMAIN pair = 1..15 /\ 15 \in Nat
    BY DEF pair
  <2>b. /\ pair[1] = <<k1, w1>> /\ pair[2] = <<k2, w2>>
         /\ pair[3] = <<k3, w3>> /\ pair[4] = <<k4, w4>>
         /\ pair[5] = <<k5, w4>> /\ pair[6] = <<k6, w6>>
         /\ pair[7] = <<k7, w7>> /\ pair[8] = <<k8, w8>>
         /\ pair[9] = <<k9, w9>> /\ pair[10] = <<unchanged, w10>>
         /\ pair[11] = <<k11, w8>> /\ pair[12] = <<k12, w12>>
         /\ pair[13] = <<large, w13>> /\ pair[14] = <<k14, w14>>
         /\ pair[15] = <<TRUE, w15>>
    BY DEF pair
  <2> HIDE DEF pair
  <2>1. ASSUME k1
       PROVE  First(pair) = w1
    <3>1. 1 \in 1..15 /\ pair[1][1] = TRUE /\ pair[1][2] = w1
      BY <2>b, <2>1
    <3>2. \A j \in 1..(1 - 1) : pair[j][1] = FALSE
      BY <1>k, <2>b, <2>1
    <3> QED
      BY <2>a, <3>1, <3>2, FirstIs
  <2>2. ASSUME ~k1, k2
       PROVE  First(pair) = w2
    <3>1. 2 \in 1..15 /\ pair[2][1] = TRUE /\ pair[2][2] = w2
      BY <2>b, <2>2
    <3>2. \A j \in 1..(2 - 1) : pair[j][1] = FALSE
      BY <1>k, <2>b, <2>2
    <3> QED
      BY <2>a, <3>1, <3>2, FirstIs
  <2>3. ASSUME ~k1, ~k2, k3
       PROVE  First(pair) = w3
    <3>1. 3 \in 1..15 /\ pair[3][1] = TRUE /\ pair[3][2] = w3
      BY <2>b, <2>3
    <3>2. \A j \in 1..(3 - 1) : pair[j][1] = FALSE
      BY <1>k, <2>b, <2>3
    <3> QED
      BY <2>a, <3>1, <3>2, FirstIs
  <2>4. ASSUME ~k1, ~k2, ~k3, k4
       PROVE  First(pair) = w4
    <3>1. 4 \in 1..15 /\ pair[4][1] = TRUE /\ pair[4][2] = w4
      BY <2>b, <2>4
    <3>2. \A j \in 1..(4 - 1) : pair[j][1] = FALSE
      BY <1>k, <2>b, <2>4
    <3> QED
      BY <2>a, <3>1, <3>2, FirstIs
  <2>5. ASSUME ~k1, ~k2, ~k3, ~k4, k5
       PROVE  First(pair) = w4
    <3>1. 5 \in 1..15 /\ pair[5][1] = TRUE /\ pair[5][2] = w4
      BY <2>b, <2>5
    <3>2. \A j \in 1..(5 - 1) : pair[j][1] = FALSE
      BY <1>k, <2>b, <2>5
    <3> QED
      BY <2>a, <3>1, <3>2, FirstIs
  <2>6. ASSUME ~k1, ~k2, ~k3, ~k4, ~k5, k6
       PROVE  First(pair) = w6
    <3>1. 6 \in 1..15 /\ pair[6][1] = TRUE /\ pair[6][2] = w6
      BY <2>b, <2>6
    <3>2. \A j \in 1..(6 - 1) : pair[j][1] = FALSE
      BY <1>k, <2>b, <2>6
    <3> QED
      BY <2>a, <3>1, <3>2, FirstIs
  <2>7. ASSUME ~k1, ~k2, ~k3, ~k4, ~k5, ~k6, k7
       PROVE  First(pair) = w7
    <3>1. 7 \in 1..15 /\ pair[7][1] = TRUE /\ pair[7][2] = w7
      BY <2>b, <2>7
    <3>2. \A j \in 1..(7 - 1) : pair[j][1] = FALSE
      BY <1>k, <2>b, <2>7
    <3> QED
      BY <2>a, <3>1, <3>2, FirstIs
  <2>8. ASSUME ~k1, ~k2, ~k3, ~k4, ~k5, ~k6, ~k7, k8
       PROVE  First(pair) = w8
    <3>1. 8 \in 1..15 /\ pair[8][1] = TRUE /\ pair[8][2] = w8
      BY <2>b, <2>8
    <3>2. \A j \in 1..(8 - 1) : pair[j][1] = FALSE
      BY <1>k, <2>b, <2>8
    <3> QED
      BY <2>a, <3>1, <3>2, FirstIs
  <2>9. ASSUME ~k1, ~k2, ~k3, ~k4, ~k5, ~k6, ~k7, ~k8, k9
       PROVE  First(pair) = w9
    <3>1. 9 \in 1..15 /\ pair[9][1] = TRUE /\ pair[9][2] = w9
      BY <2>b, <2>9
    <3>2. \A j \in 1..(9 - 1) : pair[j][1] = FALSE
      BY <1>k, <2>b, <2>9
    <3> QED
      BY <2>a, <3>1, <3>2, FirstIs
  <2>10. ASSUME ~k1, ~k2, ~k3, ~k4, ~k5, ~k6, ~k7, ~k8, ~k9, unchanged
       PROVE  First(pair) = w10
    <3>1. 10 \in 1..15 /\ pair[10][1] = TRUE /\ pair[10][2] = w10
      BY <2>b, <2>10
    <3>2. \A j \in 1..(10 - 1) : pair[j][1] = FALSE
      BY <1>k, <2>b, <2>10
    <3> QED
      BY <2>a, <3>1, <3>2, FirstIs
  <2>11. ASSUME ~k1, ~k2, ~k3, ~k4, ~k5, ~k6, ~k7, ~k8, ~k9, ~unchanged, k11
       PROVE  First(pair) = w8
    <3>1. 11 \in 1..15 /\ pair[11][1] = TRUE /\ pair[11][2] = w8
      BY <2>b, <2>11
    <3>2. \A j \in 1..(11 - 1) : pair[j][1] = FALSE
      BY <1>k, <2>b, <2>11
    <3> QED
      BY <2>a, <3>1, <3>2, FirstIs
  <2>12. ASSUME ~k1, ~k2, ~k3, ~k4, ~k5, ~k6, ~k7, ~k8, ~k9, ~unchanged, ~k11, k12
       PROVE  First(pair) = w12
    <3>1. 12 \in 1..15 /\ pair[12][1] = TRUE /\ pair[12][2] = w12
      BY <2>b, <2>12
    <3>2. \A j \in 1..(12 - 1) : pair[j][1] = FALSE
      BY <1>k, <2>b, <2>12
    <3> QED
      BY <2>a, <3>1, <3>2, FirstIs
  <2>13. ASSUME ~k1, ~k2, ~k3, ~k4, ~k5, ~k6, ~k7, ~k8, ~k9, ~unchanged, ~k11, ~k12,
              large
       PROVE  First(pair) = w13
    <3>1. 13 \in 1..15 /\ pair[13][1] = TRUE /\ pair[13][2] = w13
      BY <2>b, <2>13
    <3>2. \A j \in 1..(13 - 1) : pair[j][1] = FALSE
      BY <1>k, <2>b, <2>13
    <3> QED
      BY <2>a, <3>1, <3>2, FirstIs
  <2>14. ASSUME ~k1, ~k2, ~k3, ~k4, ~k5, ~k6, ~k7, ~k8, ~k9, ~unchanged, ~k11, ~k12,
              ~large, k14
       PROVE  First(pair) = w14
    <3>1. 14 \in 1..15 /\ pair[14][1] = TRUE /\ pair[14][2] = w14
      BY <2>b, <2>14
    <3>2. \A j \in 1..(14 - 1) : pair[j][1] = FALSE
      BY <1>k, <2>b, <2>14
    <3> QED
      BY <2>a, <3>1, <3>2, FirstIs
  <2>15. ASSUME ~k1, ~k2, ~k3, ~k4, ~k5, ~k6, ~k7, ~k8, ~k9, ~unchanged, ~k11, ~k12,
              ~large, ~k14
       PROVE  First(pair) = w15
    <3>1. 15 \in 1..15 /\ pair[15][1] = TRUE /\ pair[15][2] = w15
      BY <2>b, <2>15
    <3>2. \A j \in 1..(15 - 1) : pair[j][1] = FALSE
      BY <1>k, <2>b, <2>15
    <3> QED
      BY <2>a, <3>1, <3>2, FirstIs
  <2> QED BY <2>1, <2>2, <2>3, <2>4, <2>5, <2>6, <2>7, <2>8, <2>9, <2>10, <2>11,
            <2>12, <2>13, <2>14, <2>15
<1>7. First(label) = IF no_move THEN "NO_MOVE" ELSE IF genuine_all THEN sb ELSE IF high_up THEN hu
              ELSE IF high_down THEN hd ELSE IF likely THEN ll ELSE IF genuine_mid THEN sm
              ELSE "AMBIGUOUS"
  <2> HIDE DEF no_move, genuine_all, high_up, high_down, likely, genuine_mid
  <2>a. DOMAIN label = 1..7 /\ 7 \in Nat
    BY DEF label
  <2>b. /\ label[1] = <<no_move, "NO_MOVE">> /\ label[2] = <<genuine_all, sb>>
         /\ label[3] = <<high_up, hu>> /\ label[4] = <<high_down, hd>>
         /\ label[5] = <<likely, ll>> /\ label[6] = <<genuine_mid, sm>>
         /\ label[7] = <<TRUE, "AMBIGUOUS">>
    BY DEF label
  <2> HIDE DEF label
  <2>1. ASSUME no_move
       PROVE  First(label) = "NO_MOVE"
    <3>1. 1 \in 1..7 /\ label[1][1] = TRUE /\ label[1][2] = "NO_MOVE"
      BY <2>b, <2>1
    <3>2. \A j \in 1..(1 - 1) : label[j][1] = FALSE
      BY <1>m, <2>b, <2>1
    <3> QED
      BY <2>a, <3>1, <3>2, FirstIs
  <2>2. ASSUME ~no_move, genuine_all
       PROVE  First(label) = sb
    <3>1. 2 \in 1..7 /\ label[2][1] = TRUE /\ label[2][2] = sb
      BY <2>b, <2>2
    <3>2. \A j \in 1..(2 - 1) : label[j][1] = FALSE
      BY <1>m, <2>b, <2>2
    <3> QED
      BY <2>a, <3>1, <3>2, FirstIs
  <2>3. ASSUME ~no_move, ~genuine_all, high_up
       PROVE  First(label) = hu
    <3>1. 3 \in 1..7 /\ label[3][1] = TRUE /\ label[3][2] = hu
      BY <2>b, <2>3
    <3>2. \A j \in 1..(3 - 1) : label[j][1] = FALSE
      BY <1>m, <2>b, <2>3
    <3> QED
      BY <2>a, <3>1, <3>2, FirstIs
  <2>4. ASSUME ~no_move, ~genuine_all, ~high_up, high_down
       PROVE  First(label) = hd
    <3>1. 4 \in 1..7 /\ label[4][1] = TRUE /\ label[4][2] = hd
      BY <2>b, <2>4
    <3>2. \A j \in 1..(4 - 1) : label[j][1] = FALSE
      BY <1>m, <2>b, <2>4
    <3> QED
      BY <2>a, <3>1, <3>2, FirstIs
  <2>5. ASSUME ~no_move, ~genuine_all, ~high_up, ~high_down, likely
       PROVE  First(label) = ll
    <3>1. 5 \in 1..7 /\ label[5][1] = TRUE /\ label[5][2] = ll
      BY <2>b, <2>5
    <3>2. \A j \in 1..(5 - 1) : label[j][1] = FALSE
      BY <1>m, <2>b, <2>5
    <3> QED
      BY <2>a, <3>1, <3>2, FirstIs
  <2>6. ASSUME ~no_move, ~genuine_all, ~high_up, ~high_down, ~likely, genuine_mid
       PROVE  First(label) = sm
    <3>1. 6 \in 1..7 /\ label[6][1] = TRUE /\ label[6][2] = sm
      BY <2>b, <2>6
    <3>2. \A j \in 1..(6 - 1) : label[j][1] = FALSE
      BY <1>m, <2>b, <2>6
    <3> QED
      BY <2>a, <3>1, <3>2, FirstIs
  <2>7. ASSUME ~no_move, ~genuine_all, ~high_up, ~high_down, ~likely, ~genuine_mid
       PROVE  First(label) = "AMBIGUOUS"
    <3>1. 7 \in 1..7 /\ label[7][1] = TRUE /\ label[7][2] = "AMBIGUOUS"
      BY <2>b, <2>7
    <3>2. \A j \in 1..(7 - 1) : label[j][1] = FALSE
      BY <1>m, <2>b, <2>7
    <3> QED
      BY <2>a, <3>1, <3>2, FirstIs
  <2> QED BY <2>1, <2>2, <2>3, <2>4, <2>5, <2>6, <2>7
<1>8. First(reason) = IF k1 THEN "QUOTE_INVALID" ELSE IF k2 THEN "NON_TICK_ALIGNED"
               ELSE IF inside_non_unit THEN "INSIDE_SPREAD_NON_UNIT_MOVE"
               ELSE IF outside_unchanged THEN "LAST_OUTSIDE_UNCHANGED_QUOTE"
               ELSE IF mid_same THEN "ASYMMETRIC_QUOTE_MOVE"
               ELSE IF mid_move THEN "MID_MOVE_WITH_COMPLEX_QUOTE"
               ELSE IF last_outside THEN "LAST_OUTSIDE_QUOTE"
               ELSE IF complex_change THEN "COMPLEX_QUOTE_CHANGE" ELSE "none"
  <2> HIDE DEF k1, k2, inside_non_unit, outside_unchanged, mid_same, mid_move,
               last_outside, complex_change
  <2>a. DOMAIN reason = 1..9 /\ 9 \in Nat
    BY DEF reason
  <2>b. /\ reason[1] = <<k1, "QUOTE_INVALID">> /\ reason[2] = <<k2, "NON_TICK_ALIGNED">>
         /\ reason[3] = <<inside_non_unit, "INSIDE_SPREAD_NON_UNIT_MOVE">> /\ reason[4] = <<outside_unchanged, "LAST_OUTSIDE_UNCHANGED_QUOTE">>
         /\ reason[5] = <<mid_same, "ASYMMETRIC_QUOTE_MOVE">> /\ reason[6] = <<mid_move, "MID_MOVE_WITH_COMPLEX_QUOTE">>
         /\ reason[7] = <<last_outside, "LAST_OUTSIDE_QUOTE">> /\ reason[8] = <<complex_change, "COMPLEX_QUOTE_CHANGE">>
         /\ reason[9] = <<TRUE, "none">>
    BY DEF reason
  <2> HIDE DEF reason
  <2>1. ASSUME k1
       PROVE  First(reason) = "QUOTE_INVALID"
    <3>1. 1 \in 1..9 /\ reason[1][1] = TRUE /\ reason[1][2] = "QUOTE_INVALID"
      BY <2>b, <2>1
    <3>2. \A j \in 1..(1 - 1) : reason[j][1] = FALSE
      BY <1>k, <1>m, <2>b, <2>1
    <3> QED
      BY <2>a, <3>1, <3>2, FirstIs
  <2>2. ASSUME ~k1, k2
       PROVE  First(reason) = "NON_TICK_ALIGNED"
    <3>1. 2 \in 1..9 /\ reason[2][1] = TRUE /\ reason[2][2] = "NON_TICK_ALIGNED"
      BY <2>b, <2>2
    <3>2. \A j \in 1..(2 - 1) : reason[j][1] = FALSE
      BY <1>k, <1>m, <2>b, <2>2
    <3> QED
      BY <2>a, <3>1, <3>2, FirstIs
  <2>3. ASSUME ~k1, ~k2, inside_non_unit
       PROVE  First(reason) = "INSIDE_SPREAD_NON_UNIT_MOVE"
    <3>1. 3 \in 1..9 /\ reason[3][1] = TRUE /\ reason[3][2] = "INSIDE_SPREAD_NON_UNIT_MOVE"
      BY <2>b, <2>3
    <3>2. \A j \in 1..(3 - 1) : reason[j][1] = FALSE
      BY <1>k, <1>m, <2>b, <2>3
    <3> QED
      BY <2>a, <3>1, <3>2, FirstIs
  <2>4. ASSUME ~k1, ~k2, ~inside_non_unit, outside_unchanged
       PROVE  First(reason) = "LAST_OUTSIDE_UNCHANGED_QUOTE"
    <3>1. 4 \in 1..9 /\ reason[4][1] = TRUE /\ reason[4][2] = "LAST_OUTSIDE_UNCHANGED_QUOTE"
      BY <2>b, <2>4
    <3>2. \A j \in 1..(4 - 1) : reason[j][1] = FALSE
      BY <1>k, <1>m, <2>b, <2>4
    <3> QED
      BY <2>a, <3>1, <3>2, FirstIs
  <2>5. ASSUME ~k1, ~k2, ~inside_non_unit, ~outside_unchanged, mid_same
       PROVE  First(reason) = "ASYMMETRIC_QUOTE_MOVE"
    <3>1. 5 \in 1..9 /\ reason[5][1] = TRUE /\ reason[5][2] = "ASYMMETRIC_QUOTE_MOVE"
      BY <2>b, <2>5
    <3>2. \A j \in 1..(5 - 1) : reason[j][1] = FALSE
      BY <1>k, <1>m, <2>b, <2>5
    <3> QED
      BY <2>a, <3>1, <3>2, FirstIs
  <2>6. ASSUME ~k1, ~k2, ~inside_non_unit, ~outside_unchanged, ~mid_same,
              mid_move
       PROVE  First(reason) = "MID_MOVE_WITH_COMPLEX_QUOTE"
    <3>1. 6 \in 1..9 /\ reason[6][1] = TRUE /\ reason[6][2] = "MID_MOVE_WITH_COMPLEX_QUOTE"
      BY <2>b, <2>6
    <3>2. \A j \in 1..(6 - 1) : reason[j][1] = FALSE
      BY <1>k, <1>m, <2>b, <2>6
    <3> QED
      BY <2>a, <3>1, <3>2, FirstIs
  <2>7. ASSUME ~k1, ~k2, ~inside_non_unit, ~outside_unchanged, ~mid_same,
              ~mid_move, last_outside
       PROVE  First(reason) = "LAST_OUTSIDE_QUOTE"
    <3>1. 7 \in 1..9 /\ reason[7][1] = TRUE /\ reason[7][2] = "LAST_OUTSIDE_QUOTE"
      BY <2>b, <2>7
    <3>2. \A j \in 1..(7 - 1) : reason[j][1] = FALSE
      BY <1>k, <1>m, <2>b, <2>7
    <3> QED
      BY <2>a, <3>1, <3>2, FirstIs
  <2>8. ASSUME ~k1, ~k2, ~inside_non_unit, ~outside_unchanged, ~mid_same,
              ~mid_move, ~last_outside, complex_change
       PROVE  First(reason) = "COMPLEX_QUOTE_CHANGE"
    <3>1. 8 \in 1..9 /\ reason[8][1] = TRUE /\ reason[8][2] = "COMPLEX_QUOTE_CHANGE"
      BY <2>b, <2>8
    <3>2. \A j \in 1..(8 - 1) : reason[j][1] = FALSE
      BY <1>k, <1>m, <2>b, <2>8
    <3> QED
      BY <2>a, <3>1, <3>2, FirstIs
  <2>9. ASSUME ~k1, ~k2, ~inside_non_unit, ~outside_unchanged, ~mid_same,
              ~mid_move, ~last_outside, ~complex_change
       PROVE  First(reason) = "none"
    <3>1. 9 \in 1..9 /\ reason[9][1] = TRUE /\ reason[9][2] = "none"
      BY <2>b, <2>9
    <3>2. \A j \in 1..(9 - 1) : reason[j][1] = FALSE
      BY <1>k, <1>m, <2>b, <2>9
    <3> QED
      BY <2>a, <3>1, <3>2, FirstIs
  <2> QED BY <2>1, <2>2, <2>3, <2>4, <2>5, <2>6, <2>7, <2>8, <2>9
<1>9. First(hint) = IF mid_move THEN hm ELSE IF last_hint THEN hl ELSE 0
  <2> HIDE DEF mid_move, last_hint
  <2>a. DOMAIN hint = 1..3 /\ 3 \in Nat
    BY DEF hint
  <2>b. /\ hint[1] = <<mid_move, hm>> /\ hint[2] = <<last_hint, hl>>
         /\ hint[3] = <<TRUE, 0>>
    BY DEF hint
  <2> HIDE DEF hint
  <2>1. ASSUME mid_move
       PROVE  First(hint) = hm
    <3>1. 1 \in 1..3 /\ hint[1][1] = TRUE /\ hint[1][2] = hm
      BY <2>b, <2>1
    <3>2. \A j \in 1..(1 - 1) : hint[j][1] = FALSE
      BY <1>m, <2>b, <2>1
    <3> QED
      BY <2>a, <3>1, <3>2, FirstIs
  <2>2. ASSUME ~mid_move, last_hint
       PROVE  First(hint) = hl
    <3>1. 2 \in 1..3 /\ hint[2][1] = TRUE /\ hint[2][2] = hl
      BY <2>b, <2>2
    <3>2. \A j \in 1..(2 - 1) : hint[j][1] = FALSE
      BY <1>m, <2>b, <2>2
    <3> QED
      BY <2>a, <3>1, <3>2, FirstIs
  <2>3. ASSUME ~mid_move, ~last_hint
       PROVE  First(hint) = 0
    <3>1. 3 \in 1..3 /\ hint[3][1] = TRUE /\ hint[3][2] = 0
      BY <2>b, <2>3
    <3>2. \A j \in 1..(3 - 1) : hint[j][1] = FALSE
      BY <1>m, <2>b, <2>3
    <3> QED
      BY <2>a, <3>1, <3>2, FirstIs
  <2> QED BY <2>1, <2>2, <2>3
<1> HIDE DEF label, reason, hint, pair
<1> SUFFICES Result(First(label), First(reason), First(hint)) = First(pair)
  BY <1>3, <1>4
<1> USE DEF Result, Ambiguous, Is
<1> HIDE DEF asym
<1>10. CASE ~ok \/ ~grid
  BY <1>1, <1>2, <1>5, <1>6, <1>7, <1>8, <1>9, <1>10
<1>11. CASE ok /\ grid /\ db0 /\ da0 /\ (~lasts \/ dl0)
  BY <1>1, <1>2, <1>5, <1>6, <1>7, <1>8, <1>9, <1>11
<1>12. CASE ok /\ grid /\ db0 /\ da0 /\ lasts /\ ~dl0
  BY <1>1, <1>2, <1>5, <1>6, <1>7, <1>8, <1>9, <1>12
<1>13. CASE ok /\ grid /\ ~(db0 /\ da0) /\ (equal \/ (~strict /\ same))
  BY <1>1, <1>2, <1>5, <1>6, <1>7, <1>8, <1>9, <1>13
<1>14. CASE ok /\ grid /\ ~(db0 /\ da0) /\ ~equal /\ ~(~strict /\ same)
  BY <1>1, <1>2, <1>5, <1>6, <1>7, <1>8, <1>9, <1>14
<1> QED
  BY <1>1, <1>10, <1>11, <1>12, <1>13, <1>14

-----------------------------------------------------------------------------
(* Least and greatest elements. *)

(* A least counterexample stands for an induction: the induction theorems  *)
(* of the library are about operators, this is about sets.                 *)
LEMMA LeastElement ==
    ASSUME NEW S \in SUBSET Nat, S # {}
    PROVE  \E x \in S : \A y \in S : x <= y
<1> DEFINE T == {1..x : x \in S}
           R == StrictSubsetOrdering(Nat)
           F == FiniteSubsetsOf(Nat)
<1>1. IsWellFoundedOn(R, F)
  BY FS_StrictSubsetOrderingWellFounded
<1>2. T \subseteq F /\ T # {}
  <2>1. \A x \in S : 1..x \in SUBSET Nat /\ IsFiniteSet(1..x)
    BY FS_Interval
  <2> QED BY <2>1 DEF FiniteSubsetsOf
<1>3. \E u \in T : \A v \in T : ~(<<v, u>> \in R)
  <2> HIDE DEF T, R, F
  <2> QED BY <1>1, <1>2, WFMin
<1>4. PICK x \in S : \A y \in S : ~(<<1..y, 1..x>> \in R)
  BY <1>3
<1>5. ASSUME NEW y \in S, y < x PROVE FALSE
  <2>1. 1..y \subseteq 1..x /\ x \in 1..x /\ x \notin 1..y /\ 1..x \subseteq Nat
    BY <1>5
  <2>2. 1..y # 1..x
    BY <2>1
  <2>3. <<1..y, 1..x>> \in R
    BY <2>1, <2>2 DEF StrictSubsetOrdering
  <2> QED BY <2>3, <1>4
<1> QED BY <1>5

LEMMA MinIs ==
    ASSUME NEW S \in SUBSET Nat, S # {}
    PROVE  Min(S) \in S /\ \A y \in S : Min(S) <= y
BY LeastElement DEF Min

LEMMA MaxIs ==
    ASSUME NEW n \in Nat, NEW S \in SUBSET 1..n, S # {}
    PROVE  Max(S) \in S /\ \A y \in S : y <= Max(S)
<1> DEFINE T == {n - y : y \in S}
<1>1. T \in SUBSET Nat /\ T # {}
  OBVIOUS
<1>2. PICK t \in T : \A u \in T : t <= u
  BY <1>1, LeastElement
<1>3. PICK x \in S : t = n - x
  OBVIOUS
<1>4. \A y \in S : n - x <= n - y
  BY <1>2, <1>3
<1>5. \A y \in S : x >= y
  BY <1>4
<1> QED BY <1>5 DEF Max

-----------------------------------------------------------------------------
(* The order of the rows. *)
StrictOrder(S, R) ==
    /\ \A i \in S : <<i, i>> \notin R
    /\ \A i, j, k \in S : <<i, j>> \in R /\ <<j, k>> \in R => <<i, k>> \in R
    /\ \A i, j \in S : i = j \/ <<i, j>> \in R \/ <<j, i>> \in R

Below(S, R, i) == {j \in S : <<j, i>> \in R}

LEMMA RankGrows ==
    ASSUME NEW S, IsFiniteSet(S), NEW R, StrictOrder(S, R), NEW i \in S
    PROVE  /\ Cardinality(S) \in Nat
           /\ Cardinality(Below(S, R, i)) \in 0..(Cardinality(S) - 1)
           /\ \A j \in S : <<i, j>> \in R
                => Cardinality(Below(S, R, i)) < Cardinality(Below(S, R, j))
<1>1. Cardinality(S) \in Nat
  BY FS_CardinalityType
<1>2. \A j \in S : Below(S, R, j) \in SUBSET S /\ j \notin Below(S, R, j)
  BY DEF Below, StrictOrder
<1>3. \A j \in S : IsFiniteSet(Below(S, R, j)) /\ Cardinality(Below(S, R, j)) \in Nat
  BY <1>2, FS_Subset, FS_CardinalityType
<1>4. \A j \in S : /\ IsFiniteSet(Below(S, R, j) \cup {j})
                   /\ Cardinality(Below(S, R, j) \cup {j}) = Cardinality(Below(S, R, j)) + 1
  BY <1>2, <1>3, FS_AddElement
<1>5. Cardinality(Below(S, R, i) \cup {i}) <= Cardinality(S)
  BY <1>2, FS_Subset
<1>6. ASSUME NEW j \in S, <<i, j>> \in R
      PROVE  Cardinality(Below(S, R, i)) < Cardinality(Below(S, R, j))
  <2>1. Below(S, R, i) \cup {i} \in SUBSET Below(S, R, j)
    BY <1>6 DEF Below, StrictOrder
  <2>2. Cardinality(Below(S, R, i) \cup {i}) <= Cardinality(Below(S, R, j))
    BY <2>1, <1>3, FS_Subset
  <2> QED BY <2>2, <1>3, <1>4
<1>7. Cardinality(Below(S, R, i)) \in 0..(Cardinality(S) - 1)
  BY <1>1, <1>3, <1>4, <1>5
<1> QED BY <1>1, <1>6, <1>7

(* PlaceAt enumerates the places of a set, in order. *)
LEMMA PlacesInOrder ==
    ASSUME NEW S, IsFiniteSet(S), NEW R, StrictOrder(S, R)
    PROVE  /\ Cardinality(S) \in Nat
           /\ \A k \in 1..Cardinality(S) : PlaceAt(S, R, k) \in S
           /\ \A k, l \in 1..Cardinality(S) :
                k < l => <<PlaceAt(S, R, k), PlaceAt(S, R, l)>> \in R
<1> DEFINE n == Cardinality(S)
           rank == [i \in S |-> Cardinality(Below(S, R, i)) + 1]
<1>1. n \in Nat /\ IsFiniteSet(1..n) /\ Cardinality(1..n) = n
  BY FS_CardinalityType, FS_Interval
<1>2. \A i \in S : Cardinality(Below(S, R, i)) \in 0..(n - 1)
  BY RankGrows
<1>3. \A i, j \in S : <<i, j>> \in R => rank[i] < rank[j]
  BY <1>2, RankGrows
<1>4. rank \in [S -> 1..n]
  BY <1>1, <1>2
<1>5. \A i, j \in S : rank[i] = rank[j] => i = j
  <2>1. \A i \in S : rank[i] \in Int
    BY <1>1, <1>4
  <2> HIDE DEF rank
  <2>2. ASSUME NEW i \in S, NEW j \in S, rank[i] = rank[j] PROVE i = j
    <3>1. ~(rank[i] < rank[j]) /\ ~(rank[j] < rank[i])
      BY <2>1, <2>2
    <3> QED BY <3>1, <1>3 DEF StrictOrder
  <2> QED BY <2>2
<1>6. rank \in Injection(S, 1..n)
  BY <1>4, <1>5 DEF Injection, IsInjective
<1>7. rank \in Surjection(S, 1..n)
  <2> HIDE DEF rank
  <2> QED BY <1>1, <1>6, FS_Injection
<1>8. \A k \in 1..n : \E i \in S : rank[i] = k
  <2> HIDE DEF rank
  <2> QED BY <1>7 DEF Surjection
<1>9. ASSUME NEW k \in 1..n
      PROVE  PlaceAt(S, R, k) \in S /\ rank[PlaceAt(S, R, k)] = k
  <2>1. PICK i \in S : rank[i] = k
    BY <1>8
  <2>2. Cardinality(Below(S, R, i)) = k - 1
    BY <2>1, <1>2, <1>1
  <2>3. PlaceAt(S, R, k) = CHOOSE x \in S : Cardinality(Below(S, R, x)) = k - 1
    BY DEF PlaceAt, Below
  <2>4. PlaceAt(S, R, k) \in S /\ Cardinality(Below(S, R, PlaceAt(S, R, k))) = k - 1
    BY <2>2, <2>3
  <2> QED BY <2>4, <1>1
<1>10. ASSUME NEW k \in 1..n, NEW l \in 1..n, k < l
       PROVE  <<PlaceAt(S, R, k), PlaceAt(S, R, l)>> \in R
  <2> DEFINE x == PlaceAt(S, R, k)
             y == PlaceAt(S, R, l)
  <2>1. x \in S /\ y \in S /\ rank[x] = k /\ rank[y] = l
    BY <1>9
  <2> HIDE DEF x, y, rank
  <2>2. x # y /\ ~(<<y, x>> \in R)
    BY <2>1, <1>3, <1>10
  <2>3. <<x, y>> \in R
    BY <2>1, <2>2 DEF StrictOrder
  <2> QED BY <2>3 DEF x, y
<1> QED BY <1>1, <1>9, <1>10

LEMMA ArrangedIs ==
    ASSUME NEW S, NEW rs \in Seq(S), NEW P \in SUBSET (DOMAIN rs), NEW R, StrictOrder(P, R)
    PROVE  /\ Cardinality(P) \in Nat
           /\ Arranged(rs, P, R) \in Seq(S)
           /\ Len(Arranged(rs, P, R)) = Cardinality(P)
           /\ \A k \in 1..Cardinality(P) : /\ PlaceAt(P, R, k) \in P
                                           /\ Arranged(rs, P, R)[k] = rs[PlaceAt(P, R, k)]
           /\ \A k, l \in 1..Cardinality(P) :
                k < l => <<PlaceAt(P, R, k), PlaceAt(P, R, l)>> \in R
<1>1. IsFiniteSet(P)
  <2>1. DOMAIN rs = 1..Len(rs) /\ Len(rs) \in Nat
    OBVIOUS
  <2>2. IsFiniteSet(1..Len(rs))
    BY <2>1, FS_Interval
  <2> QED BY <2>1, <2>2, FS_Subset
<1> DEFINE n == Cardinality(P)
           at(k) == PlaceAt(P, R, k)
<1>2. n \in Nat
  BY <1>1, FS_CardinalityType
<1>3. \A k \in 1..n : at(k) \in P
  BY <1>1, PlacesInOrder
<1>4. \A k, l \in 1..n : k < l => <<at(k), at(l)>> \in R
  BY <1>1, PlacesInOrder
<1>5. Arranged(rs, P, R) = [k \in 1..n |-> rs[at(k)]]
  BY DEF Arranged
<1> HIDE DEF n, at
<1>6. \A k \in 1..n : rs[at(k)] \in S
  BY <1>3
<1>7. [k \in 1..n |-> rs[at(k)]] \in Seq(S) /\ Len([k \in 1..n |-> rs[at(k)]]) = n
  BY <1>2, <1>6
<1> QED BY <1>2, <1>3, <1>4, <1>5, <1>7 DEF n, at

(* A stored row. *)
Rows == [q : Prices, obi : -10..10, t : Int, batch : Nat, seq : Nat]

LEMMA LoadedBeforeIsOrder ==
    ASSUME NEW rs \in Seq(Rows)
    PROVE  StrictOrder(DOMAIN rs, LoadedBefore(rs))
<1> DEFINE D == DOMAIN rs
           late(i) == rs[i].batch = 1
           R == LoadedBefore(rs)
<1>1. D \subseteq Int
  OBVIOUS
<1>2. \A i, j \in D : <<i, j>> \in R <=> (~late(i) /\ late(j)) \/ ((late(i) <=> late(j)) /\ i < j)
  BY DEF LoadedBefore
<1> HIDE DEF D, late, R
<1>3. \A i \in D : <<i, i>> \notin R
  BY <1>1, <1>2
<1>4. \A i, j, k \in D : <<i, j>> \in R /\ <<j, k>> \in R => <<i, k>> \in R
  BY <1>1, <1>2
<1>5. ASSUME NEW i \in D, NEW j \in D PROVE i = j \/ <<i, j>> \in R \/ <<j, i>> \in R
  <2>1. i = j \/ i < j \/ j < i
    BY <1>1
  <2> QED BY <2>1, <1>2
<1> QED BY <1>3, <1>4, <1>5 DEF StrictOrder, D, R

LEMMA SortedBeforeIsOrder ==
    ASSUME NEW rs \in Seq(Rows), NEW S \in SUBSET (DOMAIN rs)
    PROVE  /\ StrictOrder(S, SortedBefore(rs))
           /\ \A i, j \in S : <<i, j>> \in SortedBefore(rs) =>
                rs[i].t < rs[j].t \/ (rs[i].t = rs[j].t /\ rs[i].seq <= rs[j].seq)
<1> DEFINE D == DOMAIN rs
           t(i) == rs[i].t
           seq(i) == rs[i].seq
           R == SortedBefore(rs)
<1>1. D \subseteq Int /\ \A i \in D : t(i) \in Int /\ seq(i) \in Int
  <2>1. D \subseteq Int /\ \A i \in D : rs[i] \in Rows
    OBVIOUS
  <2> QED BY <2>1 DEF Rows
<1>2. \A i, j \in D : <<i, j>> \in R <=> \/ t(i) < t(j)
                                         \/ t(i) = t(j) /\ seq(i) < seq(j)
                                         \/ t(i) = t(j) /\ seq(i) = seq(j) /\ i < j
  BY DEF SortedBefore
<1>3. S \subseteq D
  OBVIOUS
<1> HIDE DEF D, t, seq, R
<1>4. \A i \in S : <<i, i>> \notin R
  BY <1>1, <1>2, <1>3
<1>5. \A i, j, k \in S : <<i, j>> \in R /\ <<j, k>> \in R => <<i, k>> \in R
  BY <1>1, <1>2, <1>3
<1>6. ASSUME NEW i \in S, NEW j \in S PROVE i = j \/ <<i, j>> \in R \/ <<j, i>> \in R
  <2>1. i \in D /\ j \in D
    BY <1>3
  <2>2. i = j \/ i < j \/ j < i
    BY <1>1, <2>1
  <2>3. t(i) = t(j) \/ t(i) < t(j) \/ t(j) < t(i)
    BY <1>1, <2>1
  <2>4. seq(i) = seq(j) \/ seq(i) < seq(j) \/ seq(j) < seq(i)
    BY <1>1, <2>1
  <2> QED BY <2>1, <2>2, <2>3, <2>4, <1>2
<1>7. \A i, j \in S : <<i, j>> \in R => t(i) < t(j) \/ (t(i) = t(j) /\ seq(i) <= seq(j))
  BY <1>1, <1>2, <1>3
<1> QED BY <1>4, <1>5, <1>6, <1>7 DEF StrictOrder, D, t, seq, R

(* The rows of a report are stored rows, each at most once, usable, and in *)
(* the order of exchange time and sequence number.                         *)
RowsOf(c, rs, at) ==
    /\ c \in Seq(Rows)
    /\ at \in [1..Len(c) -> DOMAIN rs]
    /\ \A i \in 1..Len(c) : c[i] = rs[at[i]] /\ Usable(c[i].q) /\ ~Crossed(c[i].q)
    /\ \A i, j \in 1..Len(c) : i < j =>
         /\ at[i] # at[j]
         /\ c[i].t < c[j].t \/ (c[i].t = c[j].t /\ c[i].seq <= c[j].seq)

LEMMA CleanRowsAre ==
    ASSUME NEW rs \in Seq(Rows)
    PROVE  \E at : RowsOf(CleanRows(Loaded(rs)), rs, at)
<1> DEFINE D == DOMAIN rs
           R == LoadedBefore(rs)
           ld == Loaded(rs)
           p(k) == PlaceAt(D, R, k)
           K == Kept(ld)
           Q == SortedBefore(ld)
           c == CleanRows(ld)
           r(k) == PlaceAt(K, Q, k)
<1>1. StrictOrder(D, R) /\ ld = Arranged(rs, D, R)
  BY LoadedBeforeIsOrder DEF Loaded
<1>2. ld \in Seq(Rows) /\ Len(ld) = Cardinality(D)
  BY <1>1, ArrangedIs
<1>3. \A k \in 1..Len(ld) : p(k) \in D /\ ld[k] = rs[p(k)]
  BY <1>1, <1>2, ArrangedIs
<1>4. \A k, l \in 1..Len(ld) : k < l => <<p(k), p(l)>> \in R
  BY <1>1, <1>2, ArrangedIs
<1>5. DOMAIN ld = 1..Len(ld) /\ Len(ld) \in Nat
  BY <1>2
<1>6. ASSUME NEW k \in 1..Len(ld), NEW l \in 1..Len(ld), k # l PROVE p(k) # p(l)
  <2>1. k < l \/ l < k
    BY <1>5, <1>6
  <2> HIDE DEF p, D, R
  <2>2. <<p(k), p(l)>> \in R \/ <<p(l), p(k)>> \in R
    BY <2>1, <1>4
  <2> QED BY <2>2, <1>1, <1>3 DEF StrictOrder
<1> HIDE DEF ld
<1>7. K \in SUBSET (DOMAIN ld) /\ \A k \in K : Usable(ld[k].q) /\ ~Crossed(ld[k].q)
  BY DEF Kept
<1>8. StrictOrder(K, Q) /\ c = Arranged(ld, K, Q)
  BY <1>2, <1>7, SortedBeforeIsOrder DEF CleanRows
<1>9. c \in Seq(Rows) /\ Len(c) = Cardinality(K) /\ Len(c) \in Nat
  BY <1>2, <1>7, <1>8, ArrangedIs
<1>10. \A k \in 1..Len(c) : r(k) \in K /\ c[k] = ld[r(k)]
  BY <1>2, <1>7, <1>8, <1>9, ArrangedIs
<1>11. \A k, l \in 1..Len(c) : k < l => <<r(k), r(l)>> \in Q
  BY <1>2, <1>7, <1>8, <1>9, ArrangedIs
<1>12. \A i, j \in K : <<i, j>> \in Q =>
         ld[i].t < ld[j].t \/ (ld[i].t = ld[j].t /\ ld[i].seq <= ld[j].seq)
  BY <1>2, <1>7, SortedBeforeIsOrder
<1>13. \A i \in K : <<i, i>> \notin Q
  BY <1>8 DEF StrictOrder
<1> HIDE DEF D, R, p, K, Q, c, r
<1> DEFINE at == [k \in 1..Len(c) |-> p(r(k))]
<1>14. \A k \in 1..Len(c) : r(k) \in 1..Len(ld)
  BY <1>5, <1>7, <1>10
<1>15. at \in [1..Len(c) -> D]
  BY <1>3, <1>14
<1>16. \A i \in 1..Len(c) : c[i] = rs[at[i]] /\ Usable(c[i].q) /\ ~Crossed(c[i].q)
  BY <1>3, <1>7, <1>10, <1>14
<1>17. ASSUME NEW i \in 1..Len(c), NEW j \in 1..Len(c), i < j
       PROVE  /\ at[i] # at[j]
              /\ c[i].t < c[j].t \/ (c[i].t = c[j].t /\ c[i].seq <= c[j].seq)
  <2>1. <<r(i), r(j)>> \in Q /\ r(i) \in K /\ r(j) \in K
    BY <1>10, <1>11, <1>17
  <2>2. r(i) # r(j)
    BY <2>1, <1>13
  <2>3. p(r(i)) # p(r(j))
    BY <2>2, <1>6, <1>14
  <2>4. at[i] = p(r(i)) /\ at[j] = p(r(j))
    OBVIOUS
  <2> HIDE DEF at
  <2>5. c[i] = ld[r(i)] /\ c[j] = ld[r(j)]
    BY <1>10
  <2> QED BY <2>1, <2>3, <2>4, <2>5, <1>12
<1>18. RowsOf(c, rs, at)
  <2> HIDE DEF at
  <2> QED BY <1>9, <1>15, <1>16, <1>17 DEF RowsOf, D
<1> QED BY <1>18 DEF c, ld

-----------------------------------------------------------------------------
(* The segments of a frame. *)
LEMMA FrameIs ==
    ASSUME NEW m, NEW rs \in Seq(Rows)
    PROVE  /\ Len(rs) \in Nat /\ DOMAIN rs = 1..Len(rs)
           /\ DOMAIN Frame(m, rs) = 1..Len(rs) /\ Len(Frame(m, rs)) = Len(rs)
<1>1. Len(rs) \in Nat /\ DOMAIN rs = 1..Len(rs)
  OBVIOUS
<1> DEFINE F(i) == Frame(m, rs)[i]
<1>2. Frame(m, rs) = [i \in 1..Len(rs) |-> F(i)]
  BY <1>1 DEF Frame
<1> HIDE DEF F
<1> DEFINE S == {F(i) : i \in 1..Len(rs)}
<1>3. Frame(m, rs) \in Seq(S) /\ Len(Frame(m, rs)) = Len(rs)
  BY <1>1, <1>2
<1> QED BY <1>1, <1>2, <1>3

Starts(rs, i) == {j \in 1..i : Boundary(rs, j)}

LEMMA FrameRowIs ==
    ASSUME NEW m, NEW rs \in Seq(Rows), NEW i \in 1..Len(rs)
    PROVE  LET r == Frame(m, rs)[i]
               p == rs[i - 1].q
               c == rs[i].q
           IN /\ r.row = rs[i]
              /\ r.seg = Cardinality(Starts(rs, i))
              /\ r.label = IF Boundary(rs, i) THEN Unlabelled ELSE ClassifyArrays(m, p, c).label
              /\ r.dl = IF Boundary(rs, i) THEN 0 ELSE c.last - p.last
              /\ r.quote = (~Boundary(rs, i) /\ (c.bid # p.bid \/ c.ask # p.ask))
<1>1. i \in DOMAIN rs
  OBVIOUS
<1> HIDE DEF Rows
<1> QED BY <1>1 DEF Frame, Starts

(* No segment begins between two rows. *)
Smooth(rs, i, j) == \A k \in (i + 1)..j : ~Boundary(rs, k)

LEMMA SegmentsGrow ==
    ASSUME NEW rs, NEW i \in Nat, NEW j \in Nat, i <= j
    PROVE  /\ Cardinality(Starts(rs, i)) \in Nat /\ Cardinality(Starts(rs, j)) \in Nat
           /\ Cardinality(Starts(rs, i)) <= Cardinality(Starts(rs, j))
           /\ Cardinality(Starts(rs, i)) = Cardinality(Starts(rs, j)) <=> Smooth(rs, i, j)
<1>1. \A k \in Nat : IsFiniteSet(Starts(rs, k)) /\ Cardinality(Starts(rs, k)) \in Nat
  <2> SUFFICES ASSUME NEW k \in Nat
               PROVE  IsFiniteSet(Starts(rs, k)) /\ Cardinality(Starts(rs, k)) \in Nat
    OBVIOUS
  <2>1. IsFiniteSet(1..k) /\ Starts(rs, k) \in SUBSET (1..k)
    BY FS_Interval DEF Starts
  <2> QED BY <2>1, FS_Subset, FS_CardinalityType
<1>2. Starts(rs, i) \in SUBSET Starts(rs, j)
  BY DEF Starts
<1>3. Starts(rs, i) = Starts(rs, j) <=> Smooth(rs, i, j)
  <2>1. \A k \in (i + 1)..j : k \in 1..j /\ k \notin 1..i
    OBVIOUS
  <2>2. \A k \in 1..j : k \in 1..i \/ k \in (i + 1)..j
    OBVIOUS
  <2> QED BY <1>2, <2>1, <2>2 DEF Starts, Smooth
<1>4. /\ Cardinality(Starts(rs, i)) <= Cardinality(Starts(rs, j))
      /\ Cardinality(Starts(rs, j)) = Cardinality(Starts(rs, i))
           => Starts(rs, j) = Starts(rs, i)
  BY <1>1, <1>2, FS_Subset
<1> QED BY <1>1, <1>3, <1>4

Linked(rs, i, j) == \A k \in (i + 1)..j : /\ rs[k].batch = rs[i].batch
                                          /\ rs[k].t - rs[k - 1].t <= LongGap

(* A segment is a stretch of one batch without a long pause. *)
LEMMA SmoothIsLinked ==
    ASSUME NEW rs \in Seq(Rows), NEW i \in 1..Len(rs), NEW j \in Nat, j <= Len(rs)
    PROVE  Smooth(rs, i, j) <=> Linked(rs, i, j)
<1> DEFINE t(k) == rs[k].t
           b(k) == rs[k].batch
<1>1. \A k \in 1..Len(rs) : t(k) \in Int /\ b(k) \in Nat
  <2>1. \A k \in 1..Len(rs) : rs[k] \in Rows
    OBVIOUS
  <2> QED BY <2>1 DEF Rows
<1>2. Len(rs) \in Nat
  OBVIOUS
<1>3. \A k \in (i + 1)..j : /\ k \in 2..Len(rs) /\ k - 1 \in i..j
                            /\ ~Boundary(rs, k) <=> t(k) - t(k - 1) <= LongGap /\ b(k) = b(k - 1)
  <2> SUFFICES ASSUME NEW k \in (i + 1)..j
               PROVE  /\ k \in 2..Len(rs) /\ k - 1 \in i..j
                      /\ ~Boundary(rs, k) <=> t(k) - t(k - 1) <= LongGap /\ b(k) = b(k - 1)
    OBVIOUS
  <2>1. k \in 2..Len(rs) /\ k - 1 \in i..j /\ k - 1 \in 1..Len(rs) /\ k # 1
    BY <1>2
  <2>2. t(k) \in Int /\ t(k - 1) \in Int
    BY <1>1, <2>1
  <2> QED BY <2>1, <2>2 DEF Boundary, LongGap
<1>4. ASSUME Linked(rs, i, j) PROVE Smooth(rs, i, j)
  <2> SUFFICES ASSUME NEW k \in (i + 1)..j PROVE ~Boundary(rs, k)
    BY DEF Smooth
  <2>1. b(k) = b(i) /\ t(k) - t(k - 1) <= LongGap
    BY <1>4 DEF Linked
  <2>2. b(k - 1) = b(i)
    <3>1. CASE k - 1 = i  BY <3>1
    <3>2. CASE k - 1 # i
      <4>1. k - 1 \in (i + 1)..j
        BY <3>2
      <4> QED BY <4>1, <1>4 DEF Linked
    <3> QED BY <3>1, <3>2
  <2> QED BY <2>1, <2>2, <1>3
<1>5. ASSUME Smooth(rs, i, j) PROVE Linked(rs, i, j)
  <2> DEFINE T == {k \in (i + 1)..j : b(k) # b(i)}
  <2>1. T = {}
    <3> SUFFICES ASSUME T # {} PROVE FALSE
      OBVIOUS
    <3>1. T \in SUBSET Nat
      OBVIOUS
    <3>2. PICK k \in T : \A y \in T : k <= y
      BY <3>1, LeastElement
    <3>3. b(k - 1) = b(i)
      <4>1. CASE k - 1 = i  BY <4>1
      <4>2. CASE k - 1 # i
        <5>1. k - 1 \in (i + 1)..j /\ ~(k <= k - 1)
          BY <4>2
        <5> HIDE DEF b
        <5> QED BY <5>1, <3>2
      <4> QED BY <4>1, <4>2
    <3>4. b(k) = b(k - 1)
      BY <1>3, <1>5 DEF Smooth
    <3> QED BY <3>3, <3>4
  <2> QED BY <2>1, <1>3, <1>5 DEF Smooth, Linked
<1> QED BY <1>4, <1>5

LEMMA SegmentEndIs ==
    ASSUME NEW m, NEW rs \in Seq(Rows), NEW i \in 1..Len(rs)
    PROVE  LET n == SegmentEnd(Frame(m, rs), i) IN
           /\ n \in i..Len(rs)
           /\ \A j \in i..Len(rs) : j <= n <=> Smooth(rs, i, j)
<1> DEFINE f == Frame(m, rs)
           L == Len(rs)
           S == {j \in DOMAIN f : f[j].seg = f[i].seg}
           n == SegmentEnd(f, i)
           seg(j) == Cardinality(Starts(rs, j))
<1>1. L \in Nat /\ DOMAIN f = 1..L
  BY FrameIs
<1>2. \A j \in 1..L : f[j].seg = seg(j)
  BY FrameRowIs
<1>3. n = Max(S)
  BY DEF SegmentEnd
<1> HIDE DEF f, n
<1>4. S \in SUBSET 1..L /\ i \in S
  BY <1>1
<1>5. n \in S /\ \A y \in S : y <= n
  <2> HIDE DEF S
  <2> QED BY <1>1, <1>3, <1>4, MaxIs
<1>6. n \in i..L
  BY <1>1, <1>4, <1>5
<1>7. \A j \in i..L : seg(j) \in Nat /\ seg(i) <= seg(j) /\ (seg(i) = seg(j) <=> Smooth(rs, i, j))
  BY <1>1, SegmentsGrow
<1>8. ASSUME NEW j \in i..L, j <= n PROVE Smooth(rs, i, j)
  <2>1. seg(j) <= seg(n)
    BY <1>1, <1>6, <1>8, SegmentsGrow
  <2>2. seg(n) = seg(i)
    BY <1>2, <1>5, <1>6, <1>1
  <2>3. seg(j) \in Nat /\ seg(i) \in Nat /\ seg(i) <= seg(j)
    BY <1>1, SegmentsGrow
  <2> HIDE DEF seg
  <2>4. seg(j) = seg(i)
    BY <2>1, <2>2, <2>3
  <2> QED BY <2>4, <1>7
<1>9. ASSUME NEW j \in i..L, Smooth(rs, i, j) PROVE j <= n
  <2>1. j \in 1..L /\ seg(j) = seg(i)
    BY <1>1, <1>7, <1>9
  <2>2. j \in S
    BY <2>1, <1>1, <1>2
  <2> QED BY <2>2, <1>5
<1> QED BY <1>6, <1>8, <1>9 DEF f, n

(* The reverse scan of next_genuine_direction() ends with the first genuine*)
(* move after the row, if its segment has one.                             *)
GenuineIn(f, i, n) == {j \in i..n : f[j].label \in GenuineLabels}
Found(f, i, n) ==
    IF GenuineIn(f, i, n) = {} THEN <<0, n + 1>>
    ELSE <<Direction(f[Min(GenuineIn(f, i, n))].label), Min(GenuineIn(f, i, n))>>

LEMMA FoundStep ==
    ASSUME NEW f, NEW i \in Nat, NEW n \in Nat
    PROVE  Found(f, i, n) = IF i > n THEN <<0, n + 1>>
                            ELSE IF f[i].label \in GenuineLabels
                                 THEN <<Direction(f[i].label), i>>
                                 ELSE Found(f, i + 1, n)
<1> DEFINE G == GenuineIn(f, i, n)
<1>1. CASE i > n
  <2>1. G = {}
    BY <1>1 DEF GenuineIn
  <2> QED BY <1>1, <2>1 DEF Found
<1>2. CASE i <= n /\ f[i].label \in GenuineLabels
  <2>1. G \in SUBSET Nat /\ i \in G /\ \A y \in G : i <= y
    BY <1>2 DEF GenuineIn
  <2>2. Min(G) \in G /\ Min(G) <= i
    <3> HIDE DEF G
    <3> QED BY <2>1, MinIs
  <2>3. Min(G) = i
    <3>1. i <= Min(G) /\ Min(G) \in Nat
      BY <2>1, <2>2
    <3> QED BY <2>2, <3>1
  <2> QED BY <1>2, <2>1, <2>3 DEF Found
<1>3. CASE i <= n /\ f[i].label \notin GenuineLabels
  <2>1. G = GenuineIn(f, i + 1, n)
    BY <1>3 DEF GenuineIn
  <2> QED BY <1>3, <2>1 DEF Found
<1> QED BY <1>1, <1>2, <1>3

LEMMA NextGenuineIs ==
    ASSUME NEW f, NEW h \in Nat, NEW i \in Nat, NEW n \in Nat, i <= n,
           n = SegmentEnd(f, i)
    PROVE  NextGenuine(f, h, i) =
             IF Found(f, i + 1, n)[2] - i <= h THEN Found(f, i + 1, n)[1] ELSE 0
<1> DEFINE S == i..(n + 1)
           met[j \in S] ==
             IF j > n THEN <<0, j>>
             ELSE IF f[j].label \in GenuineLabels THEN <<Direction(f[j].label), j>>
             ELSE met[j + 1]
           w == [j \in S |-> Found(f, j, n)]
           Step(g, j) == IF j > n THEN <<0, j>>
                         ELSE IF f[j].label \in GenuineLabels
                              THEN <<Direction(f[j].label), j>> ELSE g[j + 1]
<1>1. NextGenuine(f, h, i) = IF met[i + 1][2] - i <= h THEN met[i + 1][1] ELSE 0
  BY DEF NextGenuine
<1>2. \A j \in S : w[j] = Step(w, j)
  <2> SUFFICES ASSUME NEW j \in S PROVE w[j] = Step(w, j)
    OBVIOUS
  <2>1. j \in Nat /\ (j <= n => j + 1 \in S) /\ (j > n => j = n + 1)
    OBVIOUS
  <2>2. w[j] = Found(f, j, n) /\ (j <= n => w[j + 1] = Found(f, j + 1, n))
    BY <2>1
  <2>3. Found(f, j, n) = IF j > n THEN <<0, n + 1>>
                         ELSE IF f[j].label \in GenuineLabels
                              THEN <<Direction(f[j].label), j>>
                              ELSE Found(f, j + 1, n)
    BY <2>1, FoundStep
  <2> HIDE DEF w
  <2>4. CASE j > n
    BY <2>1, <2>2, <2>3, <2>4
  <2>5. CASE j <= n
    BY <2>1, <2>2, <2>3, <2>5
  <2> QED BY <2>1, <2>4, <2>5
<1>3. w = [j \in S |-> Step(w, j)]
  BY <1>2
<1>4. \E g : g = [j \in S |-> Step(g, j)]
  BY <1>3
<1>5. met = [j \in S |-> Step(met, j)]
  BY <1>4
<1> HIDE DEF met
<1>6. \A j \in S : met[j] = Step(met, j)
  BY <1>5
<1> HIDE DEF w
<1>7. \A j \in S : met[j] = w[j]
  <2> DEFINE T == {d \in 0..(n + 1 - i) : met[n + 1 - d] # w[n + 1 - d]}
  <2>1. T = {}
    <3> SUFFICES ASSUME T # {} PROVE FALSE
      OBVIOUS
    <3>1. T \in SUBSET Nat
      OBVIOUS
    <3>2. PICK d \in T : \A y \in T : d <= y
      BY <3>1, LeastElement
    <3> DEFINE j == n + 1 - d
    <3>3. j \in S /\ met[j] # w[j]
      OBVIOUS
    <3>4. CASE d = 0
      <4>1. j > n
        BY <3>4
      <4>2. Step(met, j) = <<0, j>> /\ Step(w, j) = <<0, j>>
        BY <4>1
      <4> HIDE DEF Step
      <4> QED BY <4>2, <3>3, <1>2, <1>6
    <3>5. CASE d # 0
      <4>1. d - 1 \in 0..(n + 1 - i) /\ ~(d <= d - 1) /\ n + 1 - (d - 1) = j + 1
        BY <3>5
      <4>2. met[j + 1] = w[j + 1]
        BY <4>1, <3>2
      <4> QED BY <4>2, <3>3, <1>2, <1>6
    <3> QED BY <3>4, <3>5
  <2> SUFFICES ASSUME NEW j \in S PROVE met[j] = w[j]
    OBVIOUS
  <2>2. n + 1 - j \in 0..(n + 1 - i) /\ n + 1 - (n + 1 - j) = j
    OBVIOUS
  <2> QED BY <2>1, <2>2
<1>8. met[i + 1] = Found(f, i + 1, n)
  BY <1>7 DEF w
<1> QED BY <1>1, <1>8

(* What the frame shows of the stretch between two of its rows. *)
LEMMA FrameLinks ==
    ASSUME NEW m, NEW rs \in Seq(Rows), NEW i \in 1..Len(rs), NEW j \in i..Len(rs)
    PROVE  LET f == Frame(m, rs) IN
           /\ (\A k \in (i + 1)..j : /\ f[k].row.batch = f[i].row.batch
                                     /\ f[k].row.t - f[k - 1].row.t <= LongGap)
              <=> Smooth(rs, i, j)
           /\ f[j].seg = f[i].seg <=> Smooth(rs, i, j)
<1> DEFINE f == Frame(m, rs)
           L == Len(rs)
<1>1. L \in Nat
  OBVIOUS
<1>2. \A k \in 1..L : f[k].row = rs[k] /\ f[k].seg = Cardinality(Starts(rs, k))
  BY FrameRowIs
<1>3. i \in 1..L /\ j \in 1..L /\ i <= j /\ \A k \in (i + 1)..j : k \in 1..L /\ k - 1 \in 1..L
  BY <1>1
<1>4. Smooth(rs, i, j) <=> Linked(rs, i, j)
  BY <1>1, <1>3, SmoothIsLinked
<1>5. Cardinality(Starts(rs, i)) = Cardinality(Starts(rs, j)) <=> Smooth(rs, i, j)
  BY <1>1, <1>3, SegmentsGrow
<1> HIDE DEF f, L
<1> QED BY <1>2, <1>3, <1>4, <1>5 DEF Linked, f

(* A table looks, from every row, for the first genuine move of the same   *)
(* stretch of data, and never counts one of another batch or beyond a long *)
(* pause, whatever the rows, batches and pauses are.                       *)
LEMMA FirstMoveCounted ==
    ASSUME NEW m, NEW rs \in Seq(Rows), NEW i \in 1..Len(rs), NEW h \in Nat
    PROVE  LET f == Frame(m, rs)
               M == {j \in (i + 1)..(i + h) : /\ j <= Len(rs)
                                              /\ Smooth(rs, i, j)
                                              /\ f[j].label \in GenuineLabels}
           IN NextGenuine(f, h, i) = IF M = {} THEN 0 ELSE Direction(f[Min(M)].label)
<1> DEFINE f == Frame(m, rs)
           L == Len(rs)
           n == SegmentEnd(f, i)
           G == GenuineIn(f, i + 1, n)
           M == {j \in (i + 1)..(i + h) : /\ j <= L
                                          /\ Smooth(rs, i, j)
                                          /\ f[j].label \in GenuineLabels}
           next == NextGenuine(f, h, i)
<1>1. L \in Nat /\ i \in Nat
  OBVIOUS
<1>2. n \in i..L /\ \A j \in i..L : j <= n <=> Smooth(rs, i, j)
  BY SegmentEndIs
<1>3. n \in Nat /\ i <= n
  BY <1>1, <1>2
<1>4. next = IF Found(f, i + 1, n)[2] - i <= h THEN Found(f, i + 1, n)[1] ELSE 0
  BY <1>1, <1>3, NextGenuineIs
<1> HIDE DEF f, L, n, next
<1>5. M = {j \in G : j <= i + h}
  BY <1>1, <1>2, <1>3 DEF GenuineIn
<1> DEFINE firstOf == IF M = {} THEN 0 ELSE Direction(f[Min(M)].label)
<1>6. ASSUME G = {} PROVE next = firstOf
  <2>1. M = {}
    BY <1>5, <1>6
  <2>2. Found(f, i + 1, n) = <<0, n + 1>>
    BY <1>6 DEF Found
  <2> HIDE DEF M, G
  <2> QED BY <1>4, <2>1, <2>2
<1>7. ASSUME G # {} PROVE next = firstOf
  <2> DEFINE g == Min(G)
  <2>1. G \in SUBSET Nat
    BY <1>1, <1>3 DEF GenuineIn
  <2>0. \A y \in M : y \in G /\ y <= i + h
    BY <1>5
  <2>9. \A y \in G : y <= i + h => y \in M
    BY <1>5
  <2> HIDE DEF G, M
  <2>2. g \in G /\ \A y \in G : g <= y
    BY <1>7, <2>1, MinIs
  <2>3. Found(f, i + 1, n) = <<Direction(f[g].label), g>>
    BY <1>7 DEF Found, G
  <2>4. g \in Nat
    BY <2>1, <2>2
  <2> HIDE DEF g
  <2>5. next = IF g - i <= h THEN Direction(f[g].label) ELSE 0
    BY <1>4, <2>3
  <2>6. CASE g - i <= h
    <3>0. g <= i + h
      BY <1>1, <2>4, <2>6
    <3>1. g \in M /\ M \in SUBSET Nat /\ M # {}
      BY <3>0, <2>0, <2>9, <2>1, <2>2
    <3>2. Min(M) \in M /\ Min(M) <= g
      BY <3>1, MinIs
    <3>3. Min(M) \in G /\ Min(M) \in Nat
      BY <3>1, <3>2, <2>0
    <3>4. Min(M) = g
      BY <3>2, <3>3, <2>2, <2>4
    <3> QED BY <3>1, <3>4, <2>5, <2>6
  <2>7. CASE ~(g - i <= h)
    <3>1. \A y \in G : ~(y <= i + h)
      BY <1>1, <2>1, <2>2, <2>4, <2>7
    <3>2. M = {}
      BY <3>1, <2>0
    <3> QED BY <3>2, <2>5, <2>7
  <2> QED BY <2>6, <2>7
<1>8. next = firstOf
  BY <1>6, <1>7
<1> QED BY <1>8 DEF f, L, next

LEMMA NextGenuineFirst ==
    ASSUME NEW m, NEW rs \in Seq(Rows)
    PROVE  NextGenuineIsFirst(Frame(m, rs))
<1> DEFINE f == Frame(m, rs)
           L == Len(rs)
           linked(i, j) == \A k \in (i + 1)..j :
                             /\ f[k].row.batch = f[i].row.batch
                             /\ f[k].row.t - f[k - 1].row.t <= LongGap
           moves(i, h) == {j \in (i + 1)..(i + h) : /\ j <= Len(f)
                                                    /\ linked(i, j)
                                                    /\ f[j].label \in GenuineLabels}
           first(found) == IF found = {} THEN 0 ELSE Direction(f[Min(found)].label)
<1>1. L \in Nat /\ Len(f) = L /\ DOMAIN f = 1..L
  BY FrameIs
<1>2. SUFFICES ASSUME NEW i \in 1..L, NEW h \in 1..2
               PROVE  /\ NextGenuine(f, h, i) = first(moves(i, h))
                      /\ CompleteHorizon(f, h, i) <=> i + h <= L /\ linked(i, i + h)
  BY <1>1 DEF NextGenuineIsFirst
<1>3. \A j \in i..L : /\ linked(i, j) <=> Smooth(rs, i, j)
                      /\ f[j].seg = f[i].seg <=> Smooth(rs, i, j)
  BY FrameLinks
<1> DEFINE M == {j \in (i + 1)..(i + h) : /\ j <= L
                                          /\ Smooth(rs, i, j)
                                          /\ f[j].label \in GenuineLabels}
<1>4. NextGenuine(f, h, i) = first(M)
  <2>1. h \in Nat
    OBVIOUS
  <2>2. NextGenuine(f, h, i) = IF M = {} THEN 0 ELSE Direction(f[Min(M)].label)
    <3> HIDE DEF NextGenuineIsFirst
    <3> QED BY <2>1, FirstMoveCounted
  <2> QED BY <2>2
<1> HIDE DEF f, L, linked
<1>5. moves(i, h) = M
  <2>1. \A j \in (i + 1)..(i + h) : j <= L => j \in i..L
    BY <1>1
  <2> QED BY <2>1, <1>1, <1>3
<1>6. CompleteHorizon(f, h, i) <=> i + h <= L /\ linked(i, i + h)
  <2>1. i + h <= L => i + h \in i..L
    BY <1>1
  <2> QED BY <2>1, <1>1, <1>3 DEF CompleteHorizon
<1> HIDE DEF M, moves, first
<1> QED BY <1>4, <1>5, <1>6 DEF first

-----------------------------------------------------------------------------
(* Labels and counts. *)

(* The value of a ladder whose last rule always applies is that of some    *)
(* rule that applies.                                                      *)
LEMMA FirstApplies ==
    ASSUME NEW rules, NEW n \in Nat \ {0}, DOMAIN rules = 1..n,
           \A i \in 1..n : rules[i][1] \in BOOLEAN, rules[n][1] = TRUE
    PROVE  \E i \in 1..n : rules[i][1] = TRUE /\ First(rules) = rules[i][2]
<1> DEFINE T == {i \in 1..n : rules[i][1] = TRUE}
<1>1. T \in SUBSET Nat /\ n \in T
  OBVIOUS
<1>2. PICK i \in T : \A j \in T : i <= j
  BY <1>1, LeastElement
<1>3. \A j \in 1..(i - 1) : rules[j][1] = FALSE
  <2> SUFFICES ASSUME NEW j \in 1..(i - 1) PROVE rules[j][1] = FALSE
    OBVIOUS
  <2>1. j \in 1..n /\ ~(i <= j)
    BY <1>2
  <2> QED BY <2>1, <1>2
<1>4. First(rules) = rules[i][2]
  BY <1>3, FirstIs
<1> QED BY <1>4

(* What the label of a move between two usable quotes says of the move.    *)
LEMMA LabelIs ==
    ASSUME NEW m \in Settings, NEW p \in Prices, NEW c \in Prices,
           Usable(p), Usable(c), ~Crossed(p), ~Crossed(c)
    PROVE  LET l == ClassifyArrays(m, p, c).label
               moved == c.last - p.last # 0 \/ c.bid # p.bid \/ c.ask # p.ask
           IN \/ l = "NO_MOVE" /\ c.last - p.last = 0
              \/ l = "AMBIGUOUS"
              \/ l \in GenuineLabels /\ moved
              \/ l \in HighLabels /\ moved
              \/ l \in LikelyLabels /\ moved
<1> DEFINE ch == Change(p, c)
           db0 == ch.db = 0
           da0 == ch.da = 0
           usable == ch.ok /\ ch.grid
           same == SameDir(ch)
           unit == UnitMove(ch)
           sym == ch.ok /\ ~db0 /\ ~da0 /\ ch.db = ch.da
           loose_genuine == ~m.strict /\ usable /\ ~db0 /\ ~da0 /\ same
           toggle_up == p.last = p.bid /\ c.last = c.ask
           toggle_down == p.last = p.ask /\ c.last = c.bid
           inside == LastInside(p) /\ LastInside(c)
           no_move == usable /\ db0 /\ da0 /\ (~ch.lasts \/ ch.dl = 0)
           genuine_all == (usable /\ sym) \/ (loose_genuine /\ ~sym)
           quotes_unchanged == usable /\ db0 /\ da0 /\ ~no_move
           high_up == quotes_unchanged /\ ch.lasts /\ toggle_up
           high_down == quotes_unchanged /\ ch.lasts /\ toggle_down /\ ~toggle_up
           no_toggle == quotes_unchanged /\ ch.lasts /\ ~toggle_up /\ ~toggle_down
           likely_in_quote == no_toggle /\ inside /\ (unit \/ ~m.unitOnly)
           asym == usable /\ Asymmetric(ch, sym, loose_genuine)
           likely_reshaped == asym /\ unit /\ Abs(ch.dm) <= m.midTol /\ ~same /\ inside
           mid_move_mask == asym /\ Abs(ch.dm) >= MidTick /\ ~likely_reshaped
           genuine_mid == ~m.strict /\ mid_move_mask
           likely == likely_in_quote \/ likely_reshaped
           gb == Genuine(ch.db)
           gm == Genuine(ch.dm)
           ll == Likely(ch.dl)
           hu == High(1)
           hd == High(-1)
           rules == <<
             <<no_move, "NO_MOVE">>, <<genuine_all, gb>>, <<high_up, hu>>,
             <<high_down, hd>>, <<likely, ll>>, <<genuine_mid, gm>>,
             <<TRUE, "AMBIGUOUS">> >>
           l == ClassifyArrays(m, p, c).label
           moved == c.last - p.last # 0 \/ c.bid # p.bid \/ c.ask # p.ask
<1>1. l = First(rules)
  BY DEF ClassifyArrays, Result
<1>2. /\ ch.dl = c.last - p.last /\ ch.db = c.bid - p.bid /\ ch.da = c.ask - p.ask
      /\ p.bid \in Int /\ p.ask \in Int /\ p.last \in Int
      /\ c.bid \in Int /\ c.ask \in Int /\ c.last \in Int
      /\ ch.lasts = TRUE
  BY DEF Change, Usable, Prices
<1>3. /\ ch.ok \in BOOLEAN /\ ch.grid \in BOOLEAN /\ m.strict \in BOOLEAN
      /\ same \in BOOLEAN /\ unit \in BOOLEAN
  BY ChangeIs DEF Settings, SameDir, UnitMove
<1>4. \A d \in Int : Genuine(d) \in GenuineLabels /\ Likely(d) \in LikelyLabels
  BY DEF Genuine, Likely, GenuineLabels, LikelyLabels, Up
<1>5. High(1) \in HighLabels /\ High(-1) \in HighLabels
  BY DEF HighLabels
<1>6. ch.dl \in Int /\ ch.db \in Int /\ ch.dm \in Int
  BY ChangeIs
<1>7. asym => ~(db0 /\ da0)
  BY DEF Asymmetric
<1>8. /\ no_move => c.last - p.last = 0
      /\ genuine_all \/ high_up \/ high_down \/ likely \/ genuine_mid => moved
  <2>1. ch.dl # 0 \/ ~db0 \/ ~da0 => moved
    BY <1>2
  <2> HIDE DEF moved, ch
  <2>2. no_move => ch.dl = 0
    BY <1>2
  <2>3. genuine_all \/ genuine_mid \/ likely_reshaped => ~db0 \/ ~da0
    BY <1>7
  <2>4. quotes_unchanged => ch.dl # 0
    BY <1>2, <1>3
  <2> QED BY <1>2, <2>1, <2>2, <2>3, <2>4
<1> HIDE DEF ch, no_move, genuine_all, high_up, high_down, likely, genuine_mid, moved, l
<1>9. /\ no_move \in BOOLEAN /\ genuine_all \in BOOLEAN /\ high_up \in BOOLEAN
      /\ high_down \in BOOLEAN /\ likely \in BOOLEAN /\ genuine_mid \in BOOLEAN
  BY DEF no_move, genuine_all, high_up, high_down, likely, genuine_mid
<1> HIDE DEF gb, gm, ll, hu, hd
<1>10. /\ rules[1] = <<no_move, "NO_MOVE">> /\ rules[2] = <<genuine_all, gb>>
       /\ rules[3] = <<high_up, hu>> /\ rules[4] = <<high_down, hd>>
       /\ rules[5] = <<likely, ll>> /\ rules[6] = <<genuine_mid, gm>>
       /\ rules[7] = <<TRUE, "AMBIGUOUS">>
  BY DEF rules
<1>d. DOMAIN rules = 1..7
  BY DEF rules
<1> HIDE DEF rules
<1>r. /\ rules[1][1] = no_move /\ rules[1][2] = "NO_MOVE"
      /\ rules[2][1] = genuine_all /\ rules[2][2] = gb
      /\ rules[3][1] = high_up /\ rules[3][2] = hu
      /\ rules[4][1] = high_down /\ rules[4][2] = hd
      /\ rules[5][1] = likely /\ rules[5][2] = ll
      /\ rules[6][1] = genuine_mid /\ rules[6][2] = gm
      /\ rules[7][1] = TRUE /\ rules[7][2] = "AMBIGUOUS"
  BY <1>10
<1>11. \A i \in 1..7 : i = 1 \/ i = 2 \/ i = 3 \/ i = 4 \/ i = 5 \/ i = 6 \/ i = 7
  OBVIOUS
<1>12. \A i \in 1..7 : rules[i][1] \in BOOLEAN
  BY <1>9, <1>r, <1>11
<1>13. PICK i \in 1..7 : rules[i][1] = TRUE /\ First(rules) = rules[i][2]
  <2>1. 7 \in Nat \ {0} /\ DOMAIN rules = 1..7 /\ rules[7][1] = TRUE
    BY <1>d, <1>r
  <2> QED BY <2>1, <1>12, FirstApplies
<1>14. \/ no_move /\ l = "NO_MOVE"
       \/ genuine_all /\ l = gb
       \/ high_up /\ l = hu
       \/ high_down /\ l = hd
       \/ likely /\ l = ll
       \/ genuine_mid /\ l = gm
       \/ l = "AMBIGUOUS"
  BY <1>1, <1>r, <1>11, <1>13
<1>15. \/ l = "NO_MOVE" /\ c.last - p.last = 0
       \/ l = "AMBIGUOUS"
       \/ l \in GenuineLabels /\ moved
       \/ l \in HighLabels /\ moved
       \/ l \in LikelyLabels /\ moved
  BY <1>4, <1>5, <1>6, <1>8, <1>14 DEF gb, gm, ll, hu, hd
<1> QED BY <1>15 DEF l, moved

(* What a row of a frame of clean rows says. *)
Clean(rs) == \A i \in 1..Len(rs) : Usable(rs[i].q) /\ ~Crossed(rs[i].q)
Told(r) ==
    LET moved == r.dl # 0 \/ r.quote
    IN \/ r.label = Unlabelled /\ r.dl = 0
       \/ r.label = "NO_MOVE" /\ r.dl = 0
       \/ r.label = "AMBIGUOUS"
       \/ r.label \in GenuineLabels /\ moved
       \/ r.label \in HighLabels /\ moved
       \/ r.label \in LikelyLabels /\ moved

LEMMA FrameTells ==
    ASSUME NEW m \in Settings, NEW rs \in Seq(Rows), Clean(rs), NEW i \in 1..Len(rs)
    PROVE  Told(Frame(m, rs)[i])
<1> DEFINE r == Frame(m, rs)[i]
           p == rs[i - 1].q
           c == rs[i].q
<1>1. /\ r.label = IF Boundary(rs, i) THEN Unlabelled ELSE ClassifyArrays(m, p, c).label
      /\ r.dl = IF Boundary(rs, i) THEN 0 ELSE c.last - p.last
      /\ r.quote = (~Boundary(rs, i) /\ (c.bid # p.bid \/ c.ask # p.ask))
  BY FrameRowIs
<1> HIDE DEF r
<1>2. CASE Boundary(rs, i)
  BY <1>1, <1>2 DEF Told, r
<1>3. CASE ~Boundary(rs, i)
  <2>1. i # 1
    BY <1>3 DEF Boundary
  <2>2. i - 1 \in 1..Len(rs)
    BY <2>1
  <2>3. rs[i - 1] \in Rows /\ rs[i] \in Rows
    BY <2>2
  <2>4. p \in Prices /\ c \in Prices
    BY <2>3 DEF Rows
  <2>5. Usable(p) /\ Usable(c) /\ ~Crossed(p) /\ ~Crossed(c)
    BY <2>2 DEF Clean
  <2> DEFINE l == ClassifyArrays(m, p, c).label
             moved == c.last - p.last # 0 \/ c.bid # p.bid \/ c.ask # p.ask
  <2>6. \/ l = "NO_MOVE" /\ c.last - p.last = 0
        \/ l = "AMBIGUOUS"
        \/ l \in GenuineLabels /\ moved
        \/ l \in HighLabels /\ moved
        \/ l \in LikelyLabels /\ moved
    BY <2>4, <2>5, LabelIs
  <2>7. r.label = l /\ r.dl = c.last - p.last /\ r.quote = (c.bid # p.bid \/ c.ask # p.ask)
    BY <1>1, <1>3
  <2> HIDE DEF l
  <2> QED BY <2>6, <2>7 DEF Told, r
<1> QED BY <1>2, <1>3

Apart(U, A, B) == A \subseteq U /\ B \subseteq U /\ A \cap B = {}

LEMMA CountOfBoth ==
    ASSUME NEW U, IsFiniteSet(U), NEW A, NEW B, Apart(U, A, B)
    PROVE  /\ Cardinality(A) \in Nat /\ Cardinality(B) \in Nat
           /\ Cardinality(A \cup B) = Cardinality(A) + Cardinality(B)
<1>1. IsFiniteSet(A) /\ IsFiniteSet(B)
  BY FS_Subset DEF Apart
<1>2. Cardinality(A) \in Nat /\ Cardinality(B) \in Nat /\ Cardinality(A \cap B) = 0
  BY <1>1, FS_CardinalityType, FS_EmptySet DEF Apart
<1>3. Cardinality(A \cup B) = Cardinality(A) + Cardinality(B) - Cardinality(A \cap B)
  BY <1>1, FS_Union
<1> QED BY <1>2, <1>3

LEMMA LabelsApart ==
    /\ GenuineLabels = {"GENUINE_QUOTE_MOVE_UP", "GENUINE_QUOTE_MOVE_DOWN"}
    /\ HighLabels = {"HIGH_CONFIDENCE_BOUNCE_UP", "HIGH_CONFIDENCE_BOUNCE_DOWN"}
    /\ LikelyLabels = {"LIKELY_BOUNCE_UP", "LIKELY_BOUNCE_DOWN"}
    /\ BounceLabels = HighLabels \cup LikelyLabels
    /\ Unlabelled = "none"
BY DEF GenuineLabels, HighLabels, LikelyLabels, BounceLabels, Unlabelled, Genuine, High, Likely, Up

LEMMA BlockAdds ==
    ASSUME NEW f, NEW n \in Nat, DOMAIN f = 1..n, \A i \in 1..n : Told(f[i])
    PROVE  BlockAddsUp(CountBlock(f))
<1> DEFINE D == 1..n
           c == CountBlock(f)
           unit(i) == OneTick(f[i].dl)
           T == {i \in D : f[i].label # Unlabelled}
           LC == {i \in D : f[i].dl # 0}
           U == {i \in D : unit(i)}
           Q == {i \in D : f[i].quote}
           G == {i \in D : f[i].label \in GenuineLabels}
           H == {i \in D : f[i].label \in HighLabels}
           K == {i \in D : f[i].label \in LikelyLabels}
           A == {i \in D : f[i].label = "AMBIGUOUS"}
           N == {i \in D : f[i].label = "NO_MOVE"}
           UB == {i \in D : unit(i) /\ f[i].label \in BounceLabels}
           UG == {i \in D : unit(i) /\ f[i].label \in GenuineLabels}
           UA == {i \in D : unit(i) /\ f[i].label = "AMBIGUOUS"}
<1>1. IsFiniteSet(D)
  BY FS_Interval
<1>2. /\ c.transitions = Cardinality(T) /\ c.lastChanges = Cardinality(LC)
      /\ c.oneTick = Cardinality(U) /\ c.quoteChanges = Cardinality(Q)
      /\ c.genuine = Cardinality(G) /\ c.high = Cardinality(H)
      /\ c.likely = Cardinality(K) /\ c.ambiguous = Cardinality(A)
      /\ c.noMove = Cardinality(N) /\ c.unitBounce = Cardinality(UB)
      /\ c.unitGenuine = Cardinality(UG) /\ c.unitAmbiguous = Cardinality(UA)
  BY DEF CountBlock, Count
<1>3. ~OneTick(0)
  BY DEF OneTick, Abs, Tick
<1>4. U = (UB \cup UG) \cup UA
  BY <1>3, LabelsApart DEF Told
<1>a. Apart(D, UB, UG) /\ Apart(D, UB \cup UG, UA)
  BY LabelsApart DEF Apart
<1>5. T = (((G \cup H) \cup K) \cup A) \cup N
  BY LabelsApart DEF Told
<1>6. Apart(D, G, H) /\ Apart(D, G \cup H, K)
  BY LabelsApart DEF Apart
<1>b. Apart(D, (G \cup H) \cup K, A) /\ Apart(D, ((G \cup H) \cup K) \cup A, N)
  BY LabelsApart DEF Apart
<1>7. (G \cup H) \cup K \subseteq LC \cup Q
  BY LabelsApart DEF Told
<1>8. /\ T \subseteq D /\ LC \subseteq D /\ U \subseteq D /\ Q \subseteq D /\ G \subseteq D
      /\ H \subseteq D /\ K \subseteq D /\ A \subseteq D /\ N \subseteq D /\ UB \subseteq D
      /\ UG \subseteq D /\ UA \subseteq D
  OBVIOUS
<1> HIDE DEF D, c, T, LC, U, Q, G, H, K, A, N, UB, UG, UA
<1>c. /\ Cardinality(G) \in Nat /\ Cardinality(H) \in Nat /\ Cardinality(K) \in Nat
      /\ Cardinality(A) \in Nat /\ Cardinality(N) \in Nat /\ Cardinality(UB) \in Nat
      /\ Cardinality(UG) \in Nat /\ Cardinality(UA) \in Nat
  <2>1. \A X \in SUBSET D : Cardinality(X) \in Nat
    BY <1>1, FS_Subset, FS_CardinalityType
  <2> QED BY <2>1, <1>8
<1>9. c.oneTick = c.unitBounce + c.unitGenuine + c.unitAmbiguous
  <2>1. Cardinality(UB \cup UG) = Cardinality(UB) + Cardinality(UG)
    BY <1>1, <1>a, CountOfBoth
  <2>2. Cardinality(U) = Cardinality(UB \cup UG) + Cardinality(UA)
    BY <1>1, <1>4, <1>a, CountOfBoth
  <2> QED BY <2>1, <2>2, <1>2, <1>c
<1>10. Cardinality((G \cup H) \cup K) = Cardinality(G) + Cardinality(H) + Cardinality(K)
  <2>1. Cardinality(G \cup H) = Cardinality(G) + Cardinality(H)
    BY <1>1, <1>6, CountOfBoth
  <2>2. Cardinality((G \cup H) \cup K) = Cardinality(G \cup H) + Cardinality(K)
    BY <1>1, <1>6, CountOfBoth
  <2> QED BY <2>1, <2>2, <1>c
<1>11. c.transitions = c.genuine + c.high + c.likely + c.ambiguous + c.noMove
  <2>1. Cardinality(((G \cup H) \cup K) \cup A)
        = Cardinality((G \cup H) \cup K) + Cardinality(A)
    BY <1>1, <1>b, CountOfBoth
  <2>2. Cardinality(T) = Cardinality(((G \cup H) \cup K) \cup A) + Cardinality(N)
    BY <1>1, <1>5, <1>b, CountOfBoth
  <2> QED BY <2>1, <2>2, <1>2, <1>10, <1>c
<1>12. c.lastChanges + c.quoteChanges >= c.genuine + c.high + c.likely
  <2>1. IsFiniteSet(LC) /\ IsFiniteSet(Q) /\ IsFiniteSet(LC \cap Q)
    BY <1>1, <1>8, FS_Subset, FS_Intersection
  <2>2. /\ IsFiniteSet(LC \cup Q)
        /\ Cardinality(LC \cup Q) = Cardinality(LC) + Cardinality(Q) - Cardinality(LC \cap Q)
    BY <2>1, FS_Union
  <2>3. Cardinality(LC) \in Nat /\ Cardinality(Q) \in Nat /\ Cardinality(LC \cap Q) \in Nat
    BY <2>1, FS_CardinalityType
  <2>4. Cardinality((G \cup H) \cup K) <= Cardinality(LC \cup Q)
    BY <2>2, <1>7, FS_Subset
  <2> QED BY <2>2, <2>3, <2>4, <1>2, <1>10, <1>c
<1> QED BY <1>9, <1>11, <1>12 DEF BlockAddsUp, c

-----------------------------------------------------------------------------
(* The tables count every row once. *)
LEMMA StatesKnown == \A r : StateOf(r) \in States5 \cup {"none"}
BY DEF StateOf, State5, States5, Up

Tallied(I, c, n) ==
    /\ IsFiniteSet(I)
    /\ \A i \in I : c[i] \in States5 \cup {"none"}
    /\ \A s \in States5 : n[s] = Cardinality({i \in I : c[i] = s})

LEMMA SumOverStates ==
    ASSUME NEW I, NEW c, NEW n, Tallied(I, c, n)
    PROVE  OverStates(n) = Cardinality({i \in I : c[i] # "none"})
<1> DEFINE A == {i \in I : c[i] = "NO_MOVE"}
           B == {i \in I : c[i] = "BOUNCE_UP"}
           C == {i \in I : c[i] = "BOUNCE_DOWN"}
           D == {i \in I : c[i] = "QUOTE_UP"}
           E == {i \in I : c[i] = "QUOTE_DOWN"}
           All == {i \in I : c[i] # "none"}
<1>1. /\ n["NO_MOVE"] = Cardinality(A) /\ n["BOUNCE_UP"] = Cardinality(B)
      /\ n["BOUNCE_DOWN"] = Cardinality(C) /\ n["QUOTE_UP"] = Cardinality(D)
      /\ n["QUOTE_DOWN"] = Cardinality(E)
  BY DEF States5, Tallied
<1>2. All = (((A \cup B) \cup C) \cup D) \cup E
  BY DEF States5, Tallied
<1>3. Apart(I, A, B)
  BY DEF Apart
<1>4. Apart(I, A \cup B, C)
  BY DEF Apart
<1>5. Apart(I, (A \cup B) \cup C, D)
  BY DEF Apart
<1>6. Apart(I, ((A \cup B) \cup C) \cup D, E)
  BY DEF Apart
<1>a. IsFiniteSet(I)
  BY DEF Tallied
<1> HIDE DEF A, B, C, D, E, All
<1>7. /\ Cardinality(A) \in Nat /\ Cardinality(B) \in Nat
      /\ Cardinality(A \cup B) = Cardinality(A) + Cardinality(B)
  BY <1>3, <1>a, CountOfBoth
<1>8. /\ Cardinality(C) \in Nat
      /\ Cardinality((A \cup B) \cup C) = Cardinality(A \cup B) + Cardinality(C)
  <2> DEFINE AB == A \cup B
  <2>1. Apart(I, AB, C)
    BY <1>4
  <2> HIDE DEF AB
  <2>2. Cardinality(C) \in Nat /\ Cardinality(AB \cup C) = Cardinality(AB) + Cardinality(C)
    BY <2>1, <1>a, CountOfBoth
  <2> QED BY <2>2 DEF AB
<1>9. /\ Cardinality(D) \in Nat
      /\ Cardinality(((A \cup B) \cup C) \cup D) = Cardinality((A \cup B) \cup C) + Cardinality(D)
  BY <1>5, <1>a, CountOfBoth
<1>10. /\ Cardinality(E) \in Nat
       /\ Cardinality(All) = Cardinality(((A \cup B) \cup C) \cup D) + Cardinality(E)
  BY <1>2, <1>6, <1>a, CountOfBoth
<1>11. OverStates(n) = Cardinality(All)
  BY <1>1, <1>7, <1>8, <1>9, <1>10 DEF OverStates
<1> QED BY <1>11 DEF All

(* The cells of the matrix are the pairs of labelled neighbours.           *)
LEMMA PairsCounted ==
    ASSUME NEW f, NEW n \in Nat, DOMAIN f = 1..n, Len(f) = n
    PROVE  LET complete == {i \in DOMAIN f : CompleteHorizon(f, 1, i)} IN
           OverPairs(PairCounts(f))
           = Cardinality({i \in complete : "none" \notin {StateOf(f[i]), StateOf(f[i + 1])}})
<1> DEFINE I == {i \in DOMAIN f : CompleteHorizon(f, 1, i)}
           x == [i \in I |-> StateOf(f[i])]
           y == [i \in I |-> StateOf(f[i + 1])]
           J == {i \in I : y[i] # "none"}
           P == PairCounts(f)
           row(a) == OverStates(P[a])
<1>1. IsFiniteSet(I)
  <2>1. IsFiniteSet(1..n) /\ I \in SUBSET 1..n
    BY FS_Interval
  <2> QED BY <2>1, FS_Subset
<1>2. \A i \in I : x[i] \in States5 \cup {"none"} /\ y[i] \in States5 \cup {"none"}
  BY StatesKnown
<1>3. I = {i \in 1..(n - 1) : f[i].seg = f[i + 1].seg}
  BY DEF CompleteHorizon
<1>4. ASSUME NEW a \in States5, NEW b \in States5
      PROVE  P[a][b] = Cardinality({i \in {k \in I : x[k] = a} : y[i] = b})
  <2>1. P[a][b] = Cardinality({i \in 1..(n - 1) : /\ f[i].seg = f[i + 1].seg
                                                  /\ StateOf(f[i]) = a
                                                  /\ StateOf(f[i + 1]) = b})
    <3> DEFINE cell(u, v) == Cardinality({i \in 1..(Len(f) - 1) : /\ f[i].seg = f[i + 1].seg
                                                                  /\ StateOf(f[i]) = u
                                                                  /\ StateOf(f[i + 1]) = v})
    <3>1. P = [u \in States5 |-> [v \in States5 |-> cell(u, v)]]
      BY DEF PairCounts
    <3> HIDE DEF P, cell
    <3>2. P[a][b] = cell(a, b)
      BY <3>1
    <3> QED BY <3>2 DEF cell
  <2>2. {i \in 1..(n - 1) : /\ f[i].seg = f[i + 1].seg
                            /\ StateOf(f[i]) = a
                            /\ StateOf(f[i + 1]) = b}
        = {i \in {k \in I : x[k] = a} : y[i] = b}
    BY <1>3
  <2> QED BY <2>1, <2>2
<1> HIDE DEF I, x, y, P
<1>5. ASSUME NEW a \in States5
      PROVE  row(a) = Cardinality({i \in J : x[i] = a})
  <2> DEFINE K == {k \in I : x[k] = a}
             c == P[a]
  <2>1. IsFiniteSet(K) /\ \A i \in K : y[i] \in States5 \cup {"none"}
    BY <1>1, <1>2, FS_Subset
  <2>2. \A b \in States5 : c[b] = Cardinality({i \in K : y[i] = b})
    BY <1>4
  <2>3. {i \in K : y[i] # "none"} = {i \in J : x[i] = a}
    OBVIOUS
  <2> HIDE DEF K, c
  <2>4. OverStates(c) = Cardinality({i \in K : y[i] # "none"})
    BY <2>1, <2>2, SumOverStates DEF Tallied
  <2> QED BY <2>3, <2>4 DEF c
<1> DEFINE rows == [a \in States5 |-> row(a)]
<1>6. OverPairs(P) = OverStates(rows)
  BY DEF OverPairs
<1>7. IsFiniteSet(J) /\ \A i \in J : x[i] \in States5 \cup {"none"}
  BY <1>1, <1>2, FS_Subset
<1>8. \A a \in States5 : rows[a] = Cardinality({i \in J : x[i] = a})
  BY <1>5
<1> HIDE DEF J, rows, row
<1>9. OverStates(rows) = Cardinality({i \in J : x[i] # "none"})
  <2>1. Tallied(J, x, rows)
    BY <1>7, <1>8 DEF Tallied
  <2> QED BY <2>1, SumOverStates
<1>10. {i \in J : x[i] # "none"}
       = {i \in I : "none" \notin {StateOf(f[i]), StateOf(f[i + 1])}}
  BY DEF J, x, y
<1> QED BY <1>6, <1>9, <1>10 DEF P, I

LEMMA StatesCounted ==
    ASSUME NEW f, NEW n \in Nat, DOMAIN f = 1..n
    PROVE  LET complete == {i \in DOMAIN f : CompleteHorizon(f, 1, i)}
               states == DirectionByState(f, 1)
           IN OverStates([s \in States5 |-> states[s].n])
              = Cardinality({i \in complete : StateOf(f[i]) # "none"})
<1> DEFINE I == {i \in DOMAIN f : CompleteHorizon(f, 1, i)}
           x == [i \in I |-> StateOf(f[i])]
           states == DirectionByState(f, 1)
           c == [s \in States5 |-> states[s].n]
<1>1. IsFiniteSet(I)
  <2>1. IsFiniteSet(1..n) /\ I \in SUBSET 1..n
    BY FS_Interval
  <2> QED BY <2>1, FS_Subset
<1>2. \A i \in I : x[i] \in States5 \cup {"none"}
  BY StatesKnown
<1>3. \A s \in States5 : c[s] = Cardinality({i \in I : x[i] = s})
  <2> SUFFICES ASSUME NEW s \in States5 PROVE c[s] = Cardinality({i \in I : x[i] = s})
    OBVIOUS
  <2>1. c[s] = Cardinality({i \in DOMAIN f : StateOf(f[i]) = s /\ CompleteHorizon(f, 1, i)})
    BY DEF DirectionByState, Directions
  <2>2. {i \in DOMAIN f : StateOf(f[i]) = s /\ CompleteHorizon(f, 1, i)} = {i \in I : x[i] = s}
    OBVIOUS
  <2> QED BY <2>1, <2>2
<1>4. {i \in I : x[i] # "none"} = {i \in I : StateOf(f[i]) # "none"}
  OBVIOUS
<1> HIDE DEF I, x, c
<1>5. OverStates(c) = Cardinality({i \in I : x[i] # "none"})
  BY <1>1, <1>2, <1>3, SumOverStates DEF Tallied
<1> QED BY <1>4, <1>5 DEF c, I

(* Every imbalance falls into one bucket.                                  *)
LEMMA UpTo == \A n \in Nat : IsFiniteSet(1..n) /\ Cardinality(1..n) = n
BY FS_Interval

LEMMA BucketIs ==
    ASSUME NEW o \in -10..10
    PROVE  LET found == Cardinality({e \in 1..3 : <<-10, 0, 10>>[e] <= o}) IN found \in 1..3
<1> DEFINE S == {e \in 1..3 : <<-10, 0, 10>>[e] <= o}
<1>1. 1 \in S
  <2>1. <<-10, 0, 10>>[1] = -10
    OBVIOUS
  <2> QED BY <2>1
<1>2. S \in SUBSET 1..3
  OBVIOUS
<1> HIDE DEF S
<1>3. IsFiniteSet(S) /\ Cardinality(S) <= 3 /\ Cardinality(S) \in Nat
  <2>1. IsFiniteSet(1..3) /\ Cardinality(1..3) = 3
    BY UpTo
  <2>2. IsFiniteSet(S) /\ Cardinality(S) <= Cardinality(1..3)
    BY <2>1, <1>2, FS_Subset
  <2>3. Cardinality(S) \in Nat
    BY <2>2, FS_CardinalityType
  <2> QED BY <2>1, <2>2, <2>3
<1>4. Cardinality(S) # 0
  BY <1>1, <1>3, FS_EmptySet
<1> QED BY <1>3, <1>4 DEF S

LEMMA BucketsCounted ==
    ASSUME NEW f, NEW n \in Nat, DOMAIN f = 1..n, \A i \in 1..n : f[i].row.obi \in -10..10
    PROVE  LET complete == {i \in DOMAIN f : CompleteHorizon(f, 1, i)}
               obi == ObiTable(f, <<-10, 0, 10>>, 1)
           IN obi[1].n + obi[2].n = Cardinality(complete)
<1> DEFINE edges == <<-10, 0, 10>>
           found(i) == Cardinality({e \in DOMAIN edges : edges[e] <= f[i].row.obi})
           bucket(i) == IF found(i) > 2 THEN 2 ELSE found(i)
           I == {i \in DOMAIN f : CompleteHorizon(f, 1, i)}
           A == {i \in I : bucket(i) = 1}
           B == {i \in I : bucket(i) = 2}
           obi == ObiTable(f, edges, 1)
           inside(i) == edges[1] <= f[i].row.obi /\ f[i].row.obi <= edges[3]
           Of(b) == {i \in DOMAIN f : /\ inside(i)
                                      /\ CompleteHorizon(f, 1, i)
                                      /\ bucket(i) = b}
<1>1. Len(edges) - 1 = 2 /\ DOMAIN edges = 1..3 /\ 2 + 1 = 3
  OBVIOUS
<1>2. obi = [b \in 1..2 |-> Directions(f, 1, Of(b))]
  BY <1>1 DEF ObiTable
<1>3. obi[1].n = Cardinality(Of(1)) /\ obi[2].n = Cardinality(Of(2))
  <2>1. obi[1] = Directions(f, 1, Of(1)) /\ obi[2] = Directions(f, 1, Of(2))
    <3> HIDE DEF obi, Of
    <3> QED BY <1>2
  <2> HIDE DEF obi, Of
  <2> QED BY <2>1 DEF Directions
<1>4. \A i \in 1..n : inside(i)
  <2>1. edges[1] = -10 /\ edges[3] = 10
    OBVIOUS
  <2> SUFFICES ASSUME NEW i \in 1..n PROVE inside(i)
    OBVIOUS
  <2> HIDE DEF edges
  <2> DEFINE o == f[i].row.obi
  <2>2. o \in -10..10
    OBVIOUS
  <2>3. inside(i) <=> edges[1] <= o /\ o <= edges[3]
    OBVIOUS
  <2> HIDE DEF o, inside
  <2>4. -10 <= o /\ o <= 10
    BY <2>2
  <2> QED BY <2>1, <2>3, <2>4
<1>5. \A i \in 1..n : bucket(i) \in 1..2
  <2> SUFFICES ASSUME NEW i \in 1..n PROVE bucket(i) \in 1..2
    OBVIOUS
  <2>1. found(i) \in 1..3
    BY <1>1, BucketIs
  <2> HIDE DEF found
  <2> QED BY <2>1
<1> HIDE DEF obi, inside, bucket
<1>6. Of(1) = A /\ Of(2) = B
  BY <1>4
<1>7. A \cup B = I
  BY <1>5
<1>8. Apart(I, A, B)
  BY DEF Apart
<1>9. IsFiniteSet(I)
  <2>1. IsFiniteSet(1..n) /\ I \in SUBSET 1..n
    BY FS_Interval
  <2> QED BY <2>1, FS_Subset
<1> HIDE DEF I, A, B, Of
<1>10. Cardinality(I) = Cardinality(A) + Cardinality(B)
  BY <1>7, <1>8, <1>9, CountOfBoth
<1> QED BY <1>3, <1>6, <1>10 DEF obi, I

(* What is known before a move comes from the move's batch.                *)
LEMMA KnownBeforeMoves ==
    ASSUME NEW m, NEW rs \in Seq(Rows), NEW e \in PreEvent(Frame(m, rs), {1, 2})
    PROVE  KnownBefore(Frame(m, rs), e)
<1> DEFINE f == Frame(m, rs)
           n == Len(rs)
           r(k, i) == MidReturn(f, k, i - 1)
<1>1. DOMAIN f = 1..n /\ n \in Nat
  BY FrameIs
<1>2. PICK i \in 1..n : /\ i > 1
                        /\ f[i].label \in GenuineLabels
                        /\ e.event = i
                        /\ e.prior = i - 1
                        /\ e.returns = [k \in {1, 2} |-> r(k, i)]
  <2> HIDE DEF f, n
  <2>1. e \in PreEvent(f, {1, 2})
    BY DEF f
  <2>2. PICK i \in {j \in DOMAIN f : j > 1 /\ f[j].label \in GenuineLabels} :
          e = [event |-> i, prior |-> i - 1, direction |-> Direction(f[i].label),
               obi |-> f[i - 1].row.obi,
               returns |-> [k \in {1, 2} |-> MidReturn(f, k, i - 1)]]
    BY <2>1 DEF PreEvent
  <2>3. i \in 1..n /\ i > 1 /\ f[i].label \in GenuineLabels
    BY <1>1
  <2>4. e.returns = [k \in {1, 2} |-> r(k, i)]
    BY <2>2
  <2>5. e.event = i /\ e.prior = i - 1
    BY <2>2
  <2> HIDE DEF r
  <2> QED BY <2>3, <2>4, <2>5
<1>3. /\ rs[i].batch = rs[i - 1].batch /\ ~(rs[i].t - rs[i - 1].t > LongGap)
      /\ f[i].row = rs[i]
  <2>1. f[i].row = rs[i] /\ f[i].label = IF Boundary(rs, i) THEN Unlabelled
                                         ELSE ClassifyArrays(m, rs[i - 1].q, rs[i].q).label
    BY FrameRowIs
  <2>2. Unlabelled \notin GenuineLabels
    BY LabelsApart
  <2>3. ~Boundary(rs, i)
    BY <1>2, <2>1, <2>2
  <2> QED BY <2>1, <2>3 DEF Boundary
<1>4. i - 1 \in 1..n /\ rs[i].t \in Int /\ rs[i - 1].t \in Int
  <2>1. i - 1 \in 1..n
    BY <1>1, <1>2
  <2>2. rs[i] \in Rows /\ rs[i - 1] \in Rows
    BY <2>1
  <2> QED BY <2>1, <2>2 DEF Rows
<1>5. f[i - 1].row = rs[i - 1]
  BY <1>4, FrameRowIs
<1>6. rs[i].t - rs[i - 1].t <= LongGap
  BY <1>3, <1>4 DEF LongGap
<1>7. ASSUME NEW k \in {1, 2}, e.returns[k] # {}
      PROVE  e.prior > k /\ f[e.prior - k].row.batch = f[e.event].row.batch
  <2>1. r(k, i) # {}
    BY <1>2, <1>7
  <2>2. i - 1 - k >= 1 /\ f[i - 1 - k].seg = f[i - 1].seg
    BY <2>1 DEF MidReturn
  <2>3. i - 1 - k \in 1..n /\ i - 1 \in (i - 1 - k)..n /\ i - 1 \in ((i - 1 - k) + 1)..(i - 1)
    BY <1>1, <1>4, <2>2
  <2>4. Smooth(rs, i - 1 - k, i - 1)
    BY <2>2, <2>3, FrameLinks
  <2>5. \A l \in ((i - 1 - k) + 1)..(i - 1) : f[l].row.batch = f[i - 1 - k].row.batch
    BY <2>3, <2>4, FrameLinks
  <2>6. f[i - 1].row.batch = f[i - 1 - k].row.batch
    BY <2>3, <2>5
  <2>7. f[i - 1 - k].row.batch = f[i].row.batch
    BY <2>6, <1>5, <1>3
  <2> HIDE DEF f
  <2> QED BY <2>7, <2>2, <1>2
<1> HIDE DEF f, r, n
<1>8. /\ f[e.prior].row.batch = f[e.event].row.batch
      /\ f[e.event].row.t - f[e.prior].row.t <= LongGap
  BY <1>2, <1>3, <1>5, <1>6
<1> QED BY <1>7, <1>8 DEF KnownBefore, f

(* The tables of a report add up, whatever the rows.                       *)
LEMMA RowsCounted ==
    ASSUME NEW f, NEW n \in Nat, DOMAIN f = 1..n, Len(f) = n,
           \A i \in 1..n : f[i].row.obi \in -10..10
    PROVE  RowsCountedOnce(f, {i \in DOMAIN f : CompleteHorizon(f, 1, i)})
<1> DEFINE complete == {i \in DOMAIN f : CompleteHorizon(f, 1, i)}
           obi == ObiTable(f, <<-10, 0, 10>>, 1)
           states == DirectionByState(f, 1)
<1>1. OverPairs(PairCounts(f))
      = Cardinality({i \in complete : "none" \notin {StateOf(f[i]), StateOf(f[i + 1])}})
  BY PairsCounted
<1>2. obi[1].n + obi[2].n = Cardinality(complete)
  BY BucketsCounted
<1>3. OverStates([s \in States5 |-> states[s].n])
      = Cardinality({i \in complete : StateOf(f[i]) # "none"})
  BY StatesCounted
<1> QED BY <1>1, <1>2, <1>3 DEF RowsCountedOnce

LEMMA FrameTablesHold ==
    ASSUME NEW m \in Settings, NEW rs \in Seq(Rows), Clean(rs)
    PROVE  ReportTablesOf(Frame(m, rs))
<1> DEFINE f == Frame(m, rs)
           n == Len(rs)
<1>1. DOMAIN f = 1..n /\ Len(f) = n /\ n \in Nat
  BY FrameIs
<1>2. \A i \in 1..n : Told(f[i])
  BY FrameTells
<1>3. \A i \in 1..n : f[i].row.obi \in -10..10
  <2> SUFFICES ASSUME NEW i \in 1..n PROVE f[i].row.obi \in -10..10
    OBVIOUS
  <2>1. f[i].row = rs[i]
    BY FrameRowIs
  <2>2. rs[i] \in Rows
    BY <1>1
  <2> HIDE DEF f
  <2> QED BY <2>1, <2>2 DEF Rows
<1>4. NextGenuineIsFirst(f)
  BY NextGenuineFirst
<1>5. \A e \in PreEvent(f, {1, 2}) : KnownBefore(f, e)
  BY KnownBeforeMoves
<1> HIDE DEF f, n
<1>6. BlockAddsUp(CountBlock(f))
  BY <1>1, <1>2, BlockAdds
<1>7. RowsCountedOnce(f, {i \in DOMAIN f : CompleteHorizon(f, 1, i)})
  BY <1>1, <1>3, RowsCounted
<1> QED BY <1>4, <1>5, <1>6, <1>7 DEF ReportTablesOf, TablesAddUp, f

(* Every report on rows of the program's types has tables that add up: its *)
(* next directions are those of the first genuine move of the same stretch *)
(* of data, its blocks and matrices count every row once, and what it says *)
(* to be known before a move was known then.                               *)
THEOREM TablesOfEveryReport ==
    ASSUME NEW m \in Settings, NEW rs \in Seq(Rows)
    PROVE  ReportTablesOf(Report(m, rs))
<1> DEFINE c == CleanRows(Loaded(rs))
<1>1. PICK at : RowsOf(c, rs, at)
  BY CleanRowsAre
<1> HIDE DEF c
<1>2. c \in Seq(Rows) /\ Clean(c)
  BY <1>1 DEF RowsOf, Clean
<1>3. ReportTablesOf(Frame(m, c))
  BY <1>2, FrameTablesHold
<1> QED BY <1>3 DEF Report, c
=============================================================================
