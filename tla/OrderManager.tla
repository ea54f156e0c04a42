----------------------------- MODULE OrderManager ----------------------------
(* The order manager on a broker that answers badly: orders, closes and      *)
(* changes of a stop may be carried out without an answer, a query of the    *)
(* positions may fail and look empty, and the broker closes positions at     *)
(* their stop or target by itself, between any two calls of the manager.     *)
(* Prices are whole dollars.  Money is left out: that a position's gain was   *)
(* added to the day's is a mark of its ticket, and the guard may refuse any   *)
(* setup.                                                                     *)
EXTENDS Integers, FiniteSets, Functions

CONSTANTS
  Prices,            \* the market moves among them, by one
  Orders,            \* setups: [dir, sl, tp]
  TrailingSl,        \* dollars a stop trails behind
  MaxTickets,        \* orders filled
  MaxFaults          \* answers refused or lost, queries failed

ASSUME OrderManagerAssumption ==
  /\ Prices \subseteq Nat \ {0} /\ IsFiniteSet(Prices) /\ Prices # {}
  /\ Orders \subseteq [dir : {"long", "short"}, sl : Nat, tp : Nat]
  /\ {TrailingSl, MaxTickets, MaxFaults} \subseteq Nat \ {0}

VARIABLES
  price,           \* of the market
  broker,          \* ticket -> position, at the broker
  local,           \* the same as the manager knows it
  call,            \* what a call in progress has left to do: [tickets, price, refresh]
  faults,
  issued,          \* tickets so far
  booked,          \* those whose gain the manager has booked,
  dropped,         \* that a query made it forget or never know,
  unanswered       \* and of which a change of the stop got no answer
observed == <<issued, booked, dropped, unanswered>>
orderVars == <<price, broker, local, call, faults, observed>>

NoPosition == [t \in {} |-> 0]
Idle == [tickets |-> {}, price |-> 0, refresh |-> {}]
After(c) == IF c.tickets = {} /\ c.refresh = {} THEN Idle ELSE c
Tickets == 1..issued
With(positions, t, pos) ==
  [x \in DOMAIN positions \cup {t} |-> IF x = t THEN pos ELSE positions[x]]
Without(positions, t) == Restrict(positions, DOMAIN positions \ {t})

OrderInit ==
  /\ price \in Prices
  /\ broker = NoPosition /\ local = NoPosition
  /\ call = Idle /\ faults = 0
  /\ issued = 0 /\ booked = {} /\ dropped = {} /\ unanswered = {}

-----------------------------------------------------------------------------
\* Levels.  A stop or a target of zero is none.
Toward(dir, p) == IF dir = "long" THEN p ELSE -p
SlHit(pos, p) == pos.sl > 0 /\ Toward(pos.dir, p) <= Toward(pos.dir, pos.sl)
TpHit(pos, p, level) == level > 0 /\ Toward(pos.dir, p) >= Toward(pos.dir, level)

\* What is gained in dollars of price.
Gain(pos, p) == Toward(pos.dir, p) - Toward(pos.dir, pos.open)

ComputeTrailingSlAnyway(pos, p) ==
  IF Gain(pos, p) >= TrailingSl
  THEN {IF pos.dir = "long" THEN p - TrailingSl ELSE p + TrailingSl} ELSE {}
ComputeTrailingSl(pos, p) ==
  LET candidate == IF pos.dir = "long" THEN p - TrailingSl ELSE p + TrailingSl
      tighter == \/ Toward(pos.dir, candidate) > Toward(pos.dir, pos.sl)
                 \/ pos.dir = "short" /\ pos.sl = 0
  IN  IF Gain(pos, p) >= TrailingSl /\ tighter THEN {candidate} ELSE {}

-----------------------------------------------------------------------------
\* What the broker may do with a request: carry it out or not, and answer or not.
Outcomes == {"done", "refused", "lost"}
Carried(outcome) == outcome \in {"done", "lost"}
Counted(outcome) == IF outcome = "done" THEN 0 ELSE 1

\* A query of the positions finds the broker's, or, failing, none.
Queries == {"found", "failed"}
Answered(query) == IF query = "found" THEN broker ELSE NoPosition

\* execute_setup, of a setup that the guard lets pass.
ExecuteSetup ==
  \E o \in Orders, outcome \in Outcomes, query \in Queries :
    LET ticket == issued + 1
        pos == [dir |-> o.dir, open |-> price, sl |-> o.sl, tp |-> o.tp]
        \* It is registered if the answer came and the query then shows it.
        seen == outcome = "done" /\ query = "found"
        wrong == Counted(outcome) + IF outcome = "done" /\ query = "failed" THEN 1 ELSE 0
    IN  /\ call = Idle /\ ticket <= MaxTickets /\ faults + wrong <= MaxFaults
        /\ outcome # "done" => query = "found"
        /\ faults' = faults + wrong
        /\ IF Carried(outcome)
           THEN /\ broker' = With(broker, ticket, pos) /\ issued' = ticket
                /\ local' = IF seen THEN With(local, ticket, pos) ELSE local
                /\ dropped' = IF seen THEN dropped ELSE dropped \cup {ticket}
           ELSE UNCHANGED <<broker, local, issued, dropped>>
        /\ UNCHANGED <<price, call, booked, unanswered>>

MovePrice ==
  \E p \in Prices :
    /\ p - price \in {-1, 1} /\ price' = p
    /\ UNCHANGED <<broker, local, call, faults, observed>>

ServerCloses ==
  \E t \in DOMAIN broker :
    /\ SlHit(broker[t], price) \/ TpHit(broker[t], price, broker[t].tp)
    /\ broker' = Without(broker, t)
    /\ UNCHANGED <<price, local, call, faults, observed>>

-----------------------------------------------------------------------------
\* manage_open_positions and close_all take the tickets they know one by one, the
\* oldest first.
First(t) == \A other \in call.tickets : t <= other

StartManaging ==
  /\ call = Idle /\ local # NoPosition
  /\ call' = [tickets |-> DOMAIN local, price |-> price, refresh |-> {}]
  /\ UNCHANGED <<price, broker, local, faults, observed>>

StartClosingAll ==
  /\ call = Idle /\ local # NoPosition
  /\ call' = [tickets |-> DOMAIN local, price |-> 0, refresh |-> {}]
  /\ UNCHANGED <<price, broker, local, faults, observed>>

\* A close of some lots at the broker; without an answer the manager keeps the ticket.
BookCloseAlways(t, outcome) ==
  /\ local' = Without(local, t)
  /\ booked' = IF outcome = "done" THEN booked \cup {t} ELSE booked

BookClose(t, outcome) ==
  /\ local' = IF outcome = "done" THEN Without(local, t) ELSE local
  /\ booked' = IF outcome = "done" THEN booked \cup {t} ELSE booked

ClosePosition(t, outcome) ==
  /\ outcome = "refused" \/ t \in DOMAIN broker
  /\ broker' = IF Carried(outcome) THEN Without(broker, t) ELSE broker
  /\ BookClose(t, outcome) /\ UNCHANGED <<issued, dropped, unanswered>>

\* modify_order, of the stop.
ModifyOrder(t, sl, outcome) ==
  /\ outcome = "refused" \/ t \in DOMAIN broker
  /\ broker' = IF Carried(outcome) THEN [broker EXCEPT ![t].sl = sl] ELSE broker
  /\ unanswered' = IF outcome = "lost" THEN unanswered \cup {t} ELSE unanswered
  /\ UNCHANGED <<local, issued, booked, dropped>>

\* A close that is refused because the broker has none left is not a fault.
Fault(t, outcome) == IF t \in DOMAIN broker THEN Counted(outcome) ELSE 0

ManageOne ==
  \E t \in call.tickets, outcome \in Outcomes :
    LET pos == local[t]
        wanted == ComputeTrailingSl(pos, call.price)
        rest == [call EXCEPT !.tickets = @ \ {t}]
    IN  /\ First(t) /\ call.price > 0 /\ call.refresh = {}
        /\ faults' = faults + Fault(t, outcome) /\ faults' <= MaxFaults
        /\ UNCHANGED price
        /\ IF SlHit(pos, call.price) \/ TpHit(pos, call.price, pos.tp)
           \* The stop and the target close all of it.  The target of the partial close
           \* is the same one: the partial close, and tp1_closed, are never reached.
           THEN ClosePosition(t, outcome) /\ call' = After(rest)
           ELSE IF wanted # {}
           THEN /\ ModifyOrder(t, CHOOSE sl \in wanted : TRUE, outcome)
                /\ call' = IF outcome = "done" THEN [rest EXCEPT !.refresh = {t}] ELSE After(rest)
           ELSE /\ outcome = "done" /\ call' = After(rest)
                /\ UNCHANGED <<broker, local, observed>>

CloseOne ==
  \E t \in call.tickets, outcome \in Outcomes :
    LET rest == [call EXCEPT !.tickets = @ \ {t}]
    IN  /\ First(t) /\ call.price = 0
        /\ faults' = faults + Fault(t, outcome) /\ faults' <= MaxFaults
        /\ ClosePosition(t, outcome) /\ call' = After(rest)
        /\ UNCHANGED price

\* A position the query does not show is forgotten.
RefreshPosition ==
  \E query \in Queries, t \in call.refresh :
    /\ faults' = faults + IF query = "failed" THEN 1 ELSE 0
    /\ faults' <= MaxFaults
    /\ IF t \in DOMAIN Answered(query)
       THEN /\ local' = [local EXCEPT ![t] = broker[t]]
            /\ UNCHANGED dropped
       ELSE /\ local' = Without(local, t) /\ dropped' = dropped \cup {t}
    /\ call' = After([call EXCEPT !.refresh = {}])
    /\ UNCHANGED <<price, broker, issued, booked, unanswered>>

OrderNext ==
  \/ ExecuteSetup \/ MovePrice \/ ServerCloses
  \/ StartManaging \/ StartClosingAll \/ ManageOne \/ CloseOne \/ RefreshPosition

-----------------------------------------------------------------------------
\* reconcile: the tickets that only one of the two sides has.
ClosedByBroker == DOMAIN local \ DOMAIN broker
Untracked == DOMAIN broker \ DOMAIN local

\* The manager and its reconciliation, through lost answers: a position that is gone
\* at the broker was booked by the manager once, or reconcile reports that the broker
\* closed it, or a query had made the manager forget it (or never know it); what is
\* still open was never booked, and is known to the manager unless dropped.
EveryCloseIsKnown ==
  \A t \in Tickets :
    IF t \in DOMAIN broker THEN t \notin booked /\ (t \in Untracked => t \in dropped)
    ELSE IF t \in booked THEN t \notin DOMAIN local
    ELSE t \in ClosedByBroker \cup dropped

\* The trailing stop of manage_open_positions: a stop at the broker never moves back,
\* although each new one is compared with the manager's copy of the old: unless a
\* change of that stop was carried out without an answer.
StopsOnlyTighten ==
  [][\A t \in DOMAIN broker \cap DOMAIN broker' :
       \/ broker[t].sl = 0
       \/ Toward(broker[t].dir, broker'[t].sl) >= Toward(broker[t].dir, broker[t].sl)
       \/ t \in unanswered]_orderVars
=============================================================================
