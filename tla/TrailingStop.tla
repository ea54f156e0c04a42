---------------------------- MODULE TrailingStop -----------------------------
(***************************************************************************)
(* mql5/AISMCReceiver.mq5, ManageTrailingStops: on every tick the EA moves  *)
(* the stop of each of its positions after the price, by a distance that is *)
(* a fraction of the initial risk R.  R is not kept by the broker: the EA   *)
(* memorises the stop it first saw for a ticket in a table of MaxTracked    *)
(* slots.  A signal may carry its regime's own activation and distance;     *)
(* they are stored in the slot when the order is placed.                    *)
(*                                                                          *)
(* Prices are in points, R-multiples in per cent; bid and ask are one.      *)
(***************************************************************************)
EXTENDS Integers, FiniteSets

CONSTANTS Risk,              \* points from the entry to the signal's stop
          TrailActivate,     \* EA input TrailActivateR, per cent of R
          TrailDistance,     \* EA input TrailDistanceR
          RegimeActivate,    \* trail_activate_r of a signal that carries a regime
          RegimeDistance,    \* trail_distance_r
          MaxTracked,        \* AISMC_MAX_TRACKED
          DealIsPosition,    \* does a position have the number of the deal that opened it?
          MaxOpen,           \* most positions open at a time
          MaxPrice,          \* bound: highest price
          MaxTickets         \* bound: positions opened

ASSUME TrailAssumption ==
  /\ {Risk, TrailActivate, TrailDistance, RegimeActivate, RegimeDistance} \subseteq Nat \ {0}
  /\ DealIsPosition \in BOOLEAN
  /\ {MaxTracked, MaxOpen, MaxPrice, MaxTickets} \subseteq Nat

VARIABLES price,    \* last tick
          open,     \* tickets of the open positions
          pos,      \* ticket -> position
          last,     \* the last ticket the broker gave
          tracked,  \* tickets in the EA's table
          slot      \* their slots

brokerVars == <<price, open, pos, last>>
trailVars == <<price, open, pos, last, tracked, slot>>

Tickets == 1..MaxTickets
\* The numbers the broker may give to deals: those of positions, or others
Numbers == 1..(2 * MaxTickets)

\* dir: 1 a buy, -1 a sell; regime: opened on a signal with trail parameters;
\* best (history): the furthest price at which the EA was free to move the stop;
\* intact (history): the EA has been running since the position was opened
Position == [dir : {1, -1}, entry : Int, sl : Int, regime : BOOLEAN, best : Int, intact : BOOLEAN]
\* cooling: the last PositionModify is less than TrailingMinIntervalSec ago;
\* activate and distance are 0 when the slot has no parameters of its own
Slot == [initial : Int, activate : Nat, distance : Nat, cooling : BOOLEAN]

NoPosition == [dir |-> 1, entry |-> 0, sl |-> 0, regime |-> FALSE, best |-> 0, intact |-> FALSE]
NewSlot(sl) == [initial |-> sl, activate |-> 0, distance |-> 0, cooling |-> FALSE]

TrailInit ==
  /\ price \in 1..MaxPrice
  /\ open = {} /\ pos = [t \in Tickets |-> NoPosition] /\ last = 0
  /\ tracked = {} /\ slot = [n \in Numbers |-> NewSlot(0)]

Full == Cardinality(tracked) >= MaxTracked

-----------------------------------------------------------------------------
(* The market and the broker *)

Hit(t, p) == pos[t].dir * (p - pos[t].sl) <= 0

Closed(T) ==
  /\ open' = open \ T
  /\ pos' = [t \in Tickets |-> IF t \in T THEN NoPosition ELSE pos[t]]

\* A tick; the broker closes the positions whose stop it reaches.
PriceMoves(p) ==
  /\ p # price
  /\ price' = p
  /\ Closed({t \in open : Hit(t, p)})
  /\ UNCHANGED <<last, tracked, slot>>

\* A target, or an operator
PositionCloses(t) ==
  /\ Closed({t})
  /\ UNCHANGED <<price, last, tracked, slot>>

-----------------------------------------------------------------------------
(* The EA *)

\* RecordTrailParams: a new slot starts with the initial stop 0
RecordTrailParams(n) ==
  IF n \in tracked \/ ~Full
  THEN /\ tracked' = tracked \cup {n}
       /\ slot' = [slot EXCEPT ![n].activate = RegimeActivate, ![n].distance = RegimeDistance]
  ELSE UNCHANGED <<tracked, slot>>

\* g_trade.ResultDeal() of the order that opened position t
DealNumbers(t) == IF DealIsPosition THEN {t} ELSE {t, t + MaxTickets}

\* ExecuteDirection places an order: the parameters of the signal, if any, are
\* stored under the number of the deal, which may or may not be the position's.
Open(dir, regime) ==
  LET t == last + 1
  IN  /\ t \in Tickets /\ Cardinality(open) < MaxOpen
      /\ price - dir * Risk > 0
      /\ last' = t /\ open' = open \cup {t}
      /\ pos' = [pos EXCEPT ![t] = [dir |-> dir, entry |-> price, sl |-> price - dir * Risk,
                                    regime |-> regime, best |-> price, intact |-> TRUE]]
      /\ IF regime
         THEN \E deal \in DealNumbers(t) : RecordTrailParams(deal)
         ELSE UNCHANGED <<tracked, slot>>
      /\ UNCHANGED price

InitialSlForgetful(t) == pos[t].sl

\* GetInitialSL
InitialSl(t) == IF t \in tracked THEN slot[t].initial ELSE pos[t].sl

\* GetEffectiveActivateR, GetEffectiveDistanceR
EffectiveActivate(t) ==
  IF t \in tracked /\ slot[t].activate > 0 THEN slot[t].activate ELSE TrailActivate
EffectiveDistance(t) ==
  IF t \in tracked /\ slot[t].distance > 0 THEN slot[t].distance ELSE TrailDistance

Profit(t) == pos[t].dir * (price - pos[t].entry)
InitialRisk(t) == pos[t].dir * (pos[t].entry - InitialSl(t))

Candidate(t) == price - pos[t].dir * ((EffectiveDistance(t) * InitialRisk(t)) \div 100)

ProgressAlways(t) == Candidate(t) # pos[t].sl

Progress(t) ==
  IF pos[t].dir = 1 THEN Candidate(t) > pos[t].sl
  ELSE pos[t].sl <= 0 \/ Candidate(t) < pos[t].sl

\* ShouldDebounce
Debounced(t) == t \in tracked /\ slot[t].cooling

\* The pass over one position reaches PositionModify.
Due(t) ==
  /\ InitialRisk(t) > 0
  /\ 100 * Profit(t) >= EffectiveActivate(t) * InitialRisk(t)
  /\ Progress(t)
  /\ ~Debounced(t)

\* GetInitialSL takes a slot for a ticket it does not know, MarkTrailed stamps it.
Track(t, stamped) ==
  LET known == t \in tracked
      seeded == IF known THEN slot[t] ELSE NewSlot(pos[t].sl)
  IN  IF known \/ ~Full
      THEN /\ tracked' = tracked \cup {t}
           /\ slot' = [slot EXCEPT ![t] = [seeded EXCEPT !.cooling = @ \/ stamped]]
      ELSE UNCHANGED <<tracked, slot>>

Further(t) == IF pos[t].dir * (price - pos[t].best) > 0 THEN price ELSE pos[t].best

\* One iteration of ManageTrailingStops that modifies the position
Trail(t) ==
  /\ t \in open /\ Due(t)
  /\ Track(t, TRUE)
  /\ pos' = [pos EXCEPT ![t].sl = Candidate(t), ![t].best = Further(t)]
  /\ UNCHANGED <<price, open, last>>

\* One that does not, or whose PositionModify is refused
Leave(t) ==
  /\ t \in open
  /\ Track(t, FALSE)
  /\ \/ /\ ~Due(t) /\ ~Debounced(t)
        /\ pos' = [pos EXCEPT ![t].best = Further(t)]
     \/ /\ Due(t) \/ Debounced(t)
        /\ UNCHANGED pos
  /\ UNCHANGED <<price, open, last>>

\* TrailingMinIntervalSec after a modification
IntervalPasses(t) ==
  /\ t \in tracked /\ slot[t].cooling
  /\ slot' = [slot EXCEPT ![t].cooling = FALSE]
  /\ UNCHANGED <<brokerVars, tracked>>

\* The terminal is restarted: the table is empty again.
EaReloads ==
  /\ tracked' = {} /\ slot' = [n \in Numbers |-> NewSlot(0)]
  /\ pos' = [t \in Tickets |-> [pos[t] EXCEPT !.intact = FALSE]]
  /\ UNCHANGED <<price, open, last>>

-----------------------------------------------------------------------------
TrailNext ==
  \/ \E p \in 1..MaxPrice : PriceMoves(p)
  \/ \E t \in open : PositionCloses(t)
  \/ \E dir \in {1, -1}, regime \in BOOLEAN : Open(dir, regime)
  \/ \E t \in open : Trail(t)
  \/ \E t \in open : Leave(t)
  \/ \E t \in open : IntervalPasses(t)
  \/ EaReloads

TrailSpec == TrailInit /\ [][TrailNext]_trailVars

-----------------------------------------------------------------------------
(* Properties *)

\* The variables hold values of their types.
TrailTypeOK ==
  /\ price \in 1..MaxPrice
  /\ open \subseteq 1..last /\ last \in 0..MaxTickets
  /\ pos \in [Tickets -> Position]
  /\ tracked \subseteq Numbers /\ Cardinality(tracked) <= MaxTracked
  /\ slot \in [Numbers -> Slot]

\* AISMCReceiver.mq5:435, "SL never moves against the position": whatever the
\* table holds or has forgotten, no step of the EA loosens a stop.
StopOnlyTightens ==
  [][\A t \in open \cap open' : pos'[t].dir * (pos'[t].sl - pos[t].sl) >= 0]_trailVars

Larger(a, b) == IF a >= b THEN a ELSE b

\* Where the stop of t belongs, in points of profit, for the activation a and the
\* distance d: at -Risk, until the best price activates the trailing.
StopProfit(t, a, d) ==
  LET best == pos[t].dir * (pos[t].best - pos[t].entry)
  IN  IF 100 * best >= a * Risk THEN Larger(-Risk, best - (d * Risk) \div 100) ELSE -Risk

At(t, profit) == pos[t].dir * (pos[t].sl - pos[t].entry) = profit

\* AISMCReceiver.mq5:72, "128 is generous": however often the stop was moved before,
\* it is the distance in R of the initial risk behind the best price the EA was free
\* to act on, while the EA has been running since the open.
StopFollows ==
  \A t \in open : pos[t].intact /\ ~pos[t].regime => At(t, StopProfit(t, TrailActivate, TrailDistance))

\* The same with the parameters of the regime, for a position opened on a signal that
\* carries them.
StopFollowsRegime ==
  \A t \in open : pos[t].intact /\ pos[t].regime => At(t, StopProfit(t, RegimeActivate, RegimeDistance))
=============================================================================
