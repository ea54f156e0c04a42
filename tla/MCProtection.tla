----------------------------- MODULE MCProtection -----------------------------
(* What ends a day and what ends a trade, each part moving alone: the two     *)
(* daily halts, and the trailing of the stops of two positions.               *)
EXTENDS ConsecLossHalt, Phase1aBreaker, TrailingStop

VARIABLE part    \* which of them moves
protectionVars == <<part, vars, breakerVars, trailVars>>

MCInit ==
  /\ part \in {"consec", "breaker", "stops"}
  /\ Init /\ BreakerInit /\ TrailInit
  /\ part # "stops" => price = 1

MCNext ==
  /\ part' = part
  /\ \/ part = "consec" /\ Next /\ UNCHANGED <<breakerVars, trailVars>>
     \/ part = "breaker" /\ BreakerNext /\ UNCHANGED <<vars, trailVars>>
     \/ part = "stops" /\ TrailNext /\ UNCHANGED <<vars, breakerVars>>

MCSpec == MCInit /\ [][MCNext]_protectionVars

\* a loss, a break-even and a win, in dollars
MCPnls == {-2, 0, 3}
\* a small loss, a loss that takes half the limit, a win
MCBreakerPnls == {-3, -10, 5}
MCPnlLimit == -20
=============================================================================
