----------------------------- MODULE LosingRun ------------------------------
(***************************************************************************)
(* The rule behind the consecutive-loss halt, stated on the day's list of   *)
(* realised P&Ls.  ConsecLossHalt shows that the stored streak counter      *)
(* decides exactly this; DealReconcile uses the rule in its place.          *)
(***************************************************************************)
EXTENDS Integers, Sequences

CONSTANT ConsecLimit     \* cfg.consec_loss_limit

ASSUME ConsecLimitAssumption == ConsecLimit \in Nat \ {0}

\* ConsecLimit losses in a row somewhere in the sequence t of P&Ls
HasLosingRun(t) ==
  \E i \in 1..Len(t) :
    /\ i + ConsecLimit - 1 <= Len(t)
    /\ \A j \in i..(i + ConsecLimit - 1) : t[j] < 0
=============================================================================
