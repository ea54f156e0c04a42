------------------------------ MODULE OrderPath ------------------------------
(* From a decision to an order in Python.  Every leg and symbol is a process *)
(* of its own on one account: it checks the margin, then sends with retries, *)
(* each of which the broker may fill without an answer, and when the retries *)
(* are used up it opens its circuit, which stays open until it is reset.     *)
EXTENDS Integers, FiniteSets, FiniteSetsExt, Functions

CONSTANTS
  Senders,        \* the processes
  Margin,         \* sender -> the margin of its order
  Cap,            \* what the margin may be: a share of the equity, which stays
  MaxAttempts

ASSUME OrderPathAssumption ==
  /\ IsFiniteSet(Senders) /\ Senders # {} /\ Margin \in [Senders -> Nat \ {0}]
  /\ Cap \in Nat /\ MaxAttempts \in Nat \ {0}

VARIABLES
  open,      \* sender -> its open positions, at the broker
  stage,     \* sender -> "idle", "checked" or "sending"
  attempt,   \* sender -> attempts made
  circuit    \* senders whose flag file is there
pathVars == <<open, stage, attempt, circuit>>

MarginOf(count) == SumFunction([s \in Senders |-> Margin[s] * count[s]])
MarginUsed == MarginOf(open)

PathInit ==
  /\ open = [s \in Senders |-> 0] /\ stage = [s \in Senders |-> "idle"]
  /\ attempt = [s \in Senders |-> 0] /\ circuit = {}

Advance(s, place) == stage' = [stage EXCEPT ![s] = place]

\* check_margin_cap; without an account, a margin or an equity there is no trade.
WithinCapBefore(s) == MarginUsed <= Cap
WithinCap(s) == MarginUsed + Margin[s] <= Cap

CheckMarginCap(s) ==
  /\ stage[s] = "idle" /\ WithinCap(s) /\ Advance(s, "checked")
  /\ UNCHANGED <<open, attempt, circuit>>

\* send_with_retry asks for the circuit once, at its beginning.
BeginSend(s) ==
  /\ stage[s] = "checked" /\ Advance(s, IF s \in circuit THEN "idle" ELSE "sending")
  /\ attempt' = [attempt EXCEPT ![s] = 0]
  /\ UNCHANGED <<open, circuit>>

TryOnce(s) ==
  /\ stage[s] = "sending" /\ attempt[s] < MaxAttempts
  /\ attempt' = [attempt EXCEPT ![s] = @ + 1] /\ UNCHANGED circuit

\* One attempt: done, or the market is closed, which both end the call; or refused, or
\* no answer or an exception, when the order may have been filled.
SendDone(s) ==
  TryOnce(s) /\ Advance(s, "idle") /\ open' = [open EXCEPT ![s] = @ + 1]
SendMarketClosed(s) == TryOnce(s) /\ Advance(s, "idle") /\ UNCHANGED open
SendFailed(s) ==
  /\ TryOnce(s) /\ UNCHANGED stage
  /\ open' \in {open, [open EXCEPT ![s] = @ + 1]}

\* The attempts are used up: the flag is written, if it can be.
OpenCircuit(s) ==
  /\ stage[s] = "sending" /\ attempt[s] = MaxAttempts /\ Advance(s, "idle")
  /\ circuit' \in {circuit, circuit \cup {s}}
  /\ UNCHANGED <<open, attempt>>

ResetCircuitBreaker(s) ==
  /\ s \in circuit /\ circuit' = circuit \ {s}
  /\ UNCHANGED <<open, stage, attempt>>

\* A position is closed at its stop or target.
PositionCloses(s) ==
  /\ open[s] > 0 /\ open' = [open EXCEPT ![s] = @ - 1]
  /\ UNCHANGED <<stage, attempt, circuit>>

PathNext ==
  \E s \in Senders :
    \/ CheckMarginCap(s) \/ BeginSend(s) \/ SendDone(s) \/ SendMarketClosed(s)
    \/ SendFailed(s) \/ OpenCircuit(s) \/ ResetCircuitBreaker(s) \/ PositionCloses(s)

-----------------------------------------------------------------------------
\* Nothing holds the margin between check_margin_cap and the order, and send_with_retry
\* sends an order again that may have been filled.  The margin may exceed the cap, but
\* by no more than all attempts of one call of every sender, less the one order for
\* which the last of them to check had found room.
ExposureBounded ==
  LET perCall == MarginOf([s \in Senders |-> MaxAttempts])
  IN  MarginUsed <= Cap + perCall - Min({Margin[s] : s \in Senders})
=============================================================================
