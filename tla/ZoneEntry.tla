------------------------------ MODULE ZoneEntry ------------------------------
(* From the hourly chart to an order: zones are scanned from order blocks    *)
(* and gaps, an entry is looked for in a zone on the M15 chart, and the      *)
(* setup is scored.  The two generations of the entry (entry_trigger and     *)
(* entry_v2) share the zone scan.  Prices are whole numbers; multiples of    *)
(* the ATR are in hundredths, reward ratios in tenths, scores in thousandths.*)
EXTENDS HtfBias, FiniteSetsExt

CONSTANT MinBuffer      \* the least distance of a stop from its zone

ASSUME MinBufferAssumption == MinBuffer \in Nat

TypeScore(type) == CASE type = "ob_fvg_overlap" -> 1000
                     [] type = "ob" -> 700
                     [] type = "fvg" -> 400
                     [] OTHER -> 350

\* The elements of s at the places in keep, in their order.
Only(s, keep) ==
  [k \in 1 .. Cardinality(keep) |->
     s[CHOOSE i \in keep : Cardinality({j \in keep : j <= i}) = k]]

\* Largest key first, equal elements in their order: Python's stable sort.
Descending(s, Key(_)) ==
  LET key      == [i \in DOMAIN s |-> Key(s[i])]
      place(i) == Cardinality({j \in DOMAIN s : key[j] > key[i] \/ (key[j] = key[i] /\ j <= i)})
  IN  [k \in DOMAIN s |-> s[CHOOSE i \in DOMAIN s : place(i) = k]]

Overlap(a, b) == a.lo < b.hi /\ b.lo < a.hi
Side(dir) == IF dir = "bullish" THEN "long" ELSE "short"
KeyOf(zone) == <<zone.hi, zone.lo, zone.dir>>

Zone(x, type, dir, conf) ==
  [hi |-> x.hi, lo |-> x.lo, type |-> type, dir |-> Side(dir), conf |-> conf]

Candidates(h1, dir) ==
  LET fresh(o) == o.type = dir /\ ~o.mitigated
      empty(g) == g.type = dir /\ g.filled < 100
      obs  == Only(h1.obs, {i \in DOMAIN h1.obs : fresh(h1.obs[i])})
      gaps == Only(h1.fvgs, {i \in DOMAIN h1.fvgs : empty(h1.fvgs[i])})
      crossed(x, others) == \E y \in Range(others) : Overlap(x, y)
      ob(o) == IF crossed(o, gaps) THEN Zone(o, "ob_fvg_overlap", dir, 950)
               ELSE Zone(o, "ob", dir, 800)
      base(g) == IF g.filled = 0 THEN 600 ELSE 400
      gap(g) == IF crossed(g, obs) THEN Zone(g, "ob_fvg_overlap", dir, base(g) + 150)
                ELSE Zone(g, "fvg", dir, base(g))
  IN  [i \in DOMAIN obs |-> ob(obs[i])] \o [i \in DOMAIN gaps |-> gap(gaps[i])]

KeepApart(kept, z) == IF \E k \in Range(kept) : Overlap(z, k) THEN kept ELSE Append(kept, z)
Deduplicate(zones) == FoldLeft(KeepApart, <<>>, Descending(zones, LAMBDA z : z.conf))

FirstOf(s, n) == SubSeq(s, 1, Least(n, Len(s)))

ScanZones(h1, dir) ==
  IF dir = "neutral" THEN <<>> ELSE FirstOf(Deduplicate(Candidates(h1, dir)), 3)

ScanZonesV2(h1, dir) ==
  IF dir = "neutral" THEN <<>> ELSE FirstOf(Deduplicate(Candidates(h1, dir)), 5)

-----------------------------------------------------------------------------
\* Triggers on the M15 chart.
InZone(price, zone) == zone.lo <= price /\ price <= zone.hi
Wanted(zone) == IF zone.dir = "long" THEN "bullish" ELSE "bearish"
IsBlock(zone) == zone.type \in {"ob", "ob_fvg_overlap"}
Middle(x) == (x.hi + x.lo) \div 2

ChochInZone(m15, zone) ==
  \E b \in Range(m15.breaks) :
    b.kind = "choch" /\ b.dir = Wanted(zone) /\ InZone(b.price, zone)

BosInZone(m15, zone) ==
  \E b \in Range(m15.breaks) :
    b.kind = "bos" /\ b.dir = Wanted(zone) /\ InZone(b.price, zone)

FvgFillInZone(m15, zone) ==
  IsBlock(zone) /\ \E g \in Range(m15.fvgs) :
    g.type = Wanted(zone) /\ g.filled >= 50 /\ InZone(Middle(g), zone)

ObRejection(m15, zone, price) ==
  /\ IsBlock(zone) /\ Len(m15.swings) >= 2
  /\ \E w \in Range(LastOf(m15.swings, 4)) :
       /\ InZone(w.price, zone)
       /\ IF zone.dir = "long" THEN w.type = "low" /\ price > w.price
          ELSE w.type = "high" /\ price < w.price

ObBreakout(m15, zone, price) ==
  LET held(type) == \E w \in Range(LastOf(m15.swings, 6)) :
                      w.type = type /\ InZone(w.price, zone)
  IN  /\ IsBlock(zone) /\ Len(m15.swings) >= 2
      /\ IF zone.dir = "long" THEN ~held("low") /\ price < zone.lo
         ELSE ~held("high") /\ price > zone.hi

ChochContinuation(m15, price) ==
  LET chochs == SelectSeq(m15.breaks, LAMBDA b : b.kind = "choch")
      break  == Last(chochs)
      before == SelectSeq(m15.swings, LAMBDA w : w.ts <= break.ts)
      impulse == Abs(break.price - Last(before).price)
  IN  /\ chochs # <<>> /\ before # <<>> /\ impulse > 0
      /\ 1000 * Abs(price - break.price) > 618 * impulse
      /\ IF break.dir = "bullish" THEN price < break.price ELSE price > break.price

FvgSweep(m15, zone, price) ==
  \E g \in Range(m15.fvgs) :
    /\ g.filled = 100 /\ InZone(Middle(g), zone)
    /\ IF g.type = "bullish" THEN price < g.lo ELSE price > g.hi

-----------------------------------------------------------------------------
\* Stops, targets and grades.
SlBuffer(atr, mult) == Most((mult * atr) \div 100, MinBuffer)

ComputeSl(zone, atr, mult) ==
  IF zone.dir = "long" THEN zone.lo - SlBuffer(atr, mult)
  ELSE zone.hi + SlBuffer(atr, mult)

ComputeSlV2(zone, atr, mult, inverted) ==
  IF (zone.dir = "long") # inverted
  THEN zone.lo - SlBuffer(atr, mult)
  ELSE zone.hi + SlBuffer(atr, mult)

NextLiquidity(m15, dir, price) ==
  LET open == {l.price : l \in {x \in m15.levels : ~x.swept}}
      ahead == {p \in open : IF dir = "long" THEN p > price ELSE p < price}
  IN  IF ahead = {} THEN {}
      ELSE {IF dir = "long" THEN Min(ahead) ELSE Max(ahead)}

Ahead(dir, price, dist) == IF dir = "long" THEN price + dist ELSE price - dist

Grade(score) == IF score >= 700 THEN "A" ELSE IF score >= 500 THEN "B" ELSE "C"

ZonePoints(zone) == CASE zone.type = "ob_fvg_overlap" -> 300
                      [] zone.type = "ob" -> 200
                      [] zone.type = "fvg" -> 100
                      [] OTHER -> 0

RrPoints(rr) == IF rr >= 30 THEN 300 ELSE IF rr >= 20 THEN 200 ELSE 100

GradeEntry(trigger, zone, rr) ==
  LET points == CASE trigger = "choch_in_zone" -> 400
                  [] trigger = "fvg_fill_in_zone" -> 350
                  [] trigger = "ob_test_rejection" -> 250
                  [] trigger = "bos_in_zone" -> 200
                  [] OTHER -> 0
  IN  Grade(points + ZonePoints(zone) + RrPoints(rr))

GradeEntryV2(trigger, zone, rr, inverted) ==
  LET points == CASE trigger \in {"fvg_fill_in_zone", "choch_continuation"} -> 350
                  [] trigger \in {"choch_in_zone", "ob_breakout"} -> 300
                  [] trigger = "fvg_sweep_continuation" -> 250
                  [] OTHER -> 200
  IN  Grade(points + ZonePoints(zone) + RrPoints(rr) - (IF inverted THEN 50 ELSE 0))

\* No entry when the price is exactly at its stop.
Entry(m15, dir, price, sl, rr, rr2, trigger, grade, inverted) ==
  LET risk == Abs(price - sl)
      liq  == NextLiquidity(m15, dir, price)
  IN  IF risk = 0 THEN {}
      ELSE {[price |-> price, sl |-> sl, tp1 |-> Ahead(dir, price, (risk * rr) \div 10),
             tp2 |-> IF liq # {} THEN CHOOSE p \in liq : TRUE
                     ELSE Ahead(dir, price, (risk * rr2) \div 10),
             rr |-> rr, dir |-> dir, trigger |-> trigger, grade |-> grade,
             inverted |-> inverted]}

\* The price is inside the zone widened by a part of its height.
Near(zone, price, quarters) ==
  LET h == zone.hi - zone.lo
  IN  4 * zone.lo - quarters * h <= 4 * price /\ 4 * price <= 4 * zone.hi + quarters * h

Trigger(m15, zone, price, obTest) ==
  IF ChochInZone(m15, zone) THEN {"choch_in_zone"}
  ELSE IF FvgFillInZone(m15, zone) THEN {"fvg_fill_in_zone"}
  ELSE IF obTest /\ ObRejection(m15, zone, price) THEN {"ob_test_rejection"}
  ELSE IF BosInZone(m15, zone) THEN {"bos_in_zone"}
  ELSE {}

CheckEntry(m15, zone, price, atr, obTest, mult, rr) ==
  IF ~Near(zone, price, 1) THEN {}
  ELSE UNION { Entry(m15, zone.dir, price, ComputeSl(zone, atr, mult), rr, 40, t,
                     GradeEntry(t, zone, rr), FALSE) :
               t \in Trigger(m15, zone, price, obTest) }

TriggerV2(m15, zone, price, regime) ==
  IF FvgFillInZone(m15, zone) THEN {"fvg_fill_in_zone"}
  ELSE IF BosInZone(m15, zone) THEN {"bos_in_zone"}
  ELSE IF ChochInZone(m15, zone) THEN {"choch_in_zone"}
  ELSE IF ObBreakout(m15, zone, price) THEN {"ob_breakout"}
  ELSE IF regime = "transitional" /\ ChochContinuation(m15, price)
       THEN {"choch_continuation"}
  ELSE IF FvgSweep(m15, zone, price) THEN {"fvg_sweep_continuation"}
  ELSE {}

Inverted(trigger) == trigger \in {"ob_breakout", "choch_continuation"}
Opposite(dir) == IF dir = "long" THEN "short" ELSE "long"

CheckEntryV2(m15, zone, price, atr, regime) ==
  IF ~Near(zone, price, 4) THEN {}
  ELSE UNION { LET inv == Inverted(t)
                   rr  == IF inv THEN 20 ELSE 25
               IN  Entry(m15, IF inv THEN Opposite(zone.dir) ELSE zone.dir, price,
                         ComputeSlV2(zone, atr, IF inv THEN 100 ELSE 75, inv),
                         rr, IF inv THEN 30 ELSE 40, t,
                         GradeEntryV2(t, zone, rr, inv), inv) :
               t \in TriggerV2(m15, zone, price, regime) }
=============================================================================
