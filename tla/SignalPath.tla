----------------------------- MODULE SignalPath ------------------------------
(***************************************************************************)
(* From a decision of the strategy to an order at the broker.  Once per M15 *)
(* bar the live loop (scripts/live_demo.py) decides, gates the decision on  *)
(* the broker's positions and deals, reconciles, and publishes the result   *)
(* in live_state.json.  strategy_server.py stamps the file with its age;    *)
(* the EA (mql5/AISMCReceiver.mq5) polls it and sends the order.  Nobody    *)
(* tells the loop whether the EA acted: it sees the effect at the broker,   *)
(* one bar later.  One leg (one magic) of one symbol.                       *)
(*                                                                          *)
(* Time is counted in units of the EA's ranging cooldown (5 minutes).  A    *)
(* cycle may take any time up to its decision: the AI debate, its pool that *)
(* waits for the debate even after the 180 s, and the downloads are there.  *)
(* From the decision to its publication it takes less than one unit.  "d    *)
(* units ago" is d units give or take less than one, so a guard on an age   *)
(* stands in its permissive form.                                           *)
(***************************************************************************)
EXTENDS Integers, Sequences, FiniteSets

CONSTANTS Dirs,             \* "long" and "short"
          Bar,              \* M15, and strategy_server's SIGNAL_FRESH_MAX_AGE_SEC
          TrendingCooldown, \* EA: TrendingCooldownSec
          RangingCooldown,  \* EA: RangingCooldownSec
          AntiStack,        \* anti_stack_cooldown_minutes
          MaxConcurrent,    \* max_concurrent_per_symbol
          MaxTime,          \* bound: units explored
          MaxDay,           \* bound: last UTC day explored
          MaxFaults         \* bound: failing cycles and probes, and EA restarts

ASSUME TimesAssumption ==
  /\ Bar \in Nat \ {0}
  /\ {TrendingCooldown, RangingCooldown, AntiStack} \subseteq Nat
ASSUME DirsAssumption == "none" \notin Dirs
ASSUME CapAssumption == MaxConcurrent \in Nat \ {0}
ASSUME BoundsAssumption == {MaxTime, MaxDay, MaxFaults} \subseteq Nat

VARIABLES now,        \* time
          day,        \* UTC date
          asian,      \* an Asian session (UTC 0-8)
          halted,     \* pause flag, consecutive-loss halt or drawdown guard
          quotaUsed,  \* asian_range_quota.is_exhausted_today
          pc,         \* where the cycle is
          headAt,     \* when the loop last began to wait for the next bar
          choice,     \* the locals action and best, which outlive a cycle
          signal,     \* live_state.json ...
          sigId,      \* ... its cycle and timestamp, as signal_id ...
          sigTime,    \* ... and as a time
          lastId,     \* EA: g_leg_last_sig_id
          lastOpen,   \* EA: g_leg_last_buy_ts and g_leg_last_sell_ts
          positions,  \* broker: open positions of this leg
          opens,      \* broker: entry deals of this leg
          haltSig,    \* history: the last signal of a cycle begun before the halt
          faults,     \* history: failed cycles and probes
          restarts    \* history: EA restarts

loopVars == <<pc, headAt, choice, quotaUsed>>
fileVars == <<signal, sigId, sigTime>>
eaVars == <<lastId, lastOpen, restarts>>
haltVars == <<halted, haltSig>>
brokerVars == <<positions, opens>>
vars == <<now, day, asian, faults, loopVars, fileVars, eaVars, haltVars, brokerVars>>

\* slot: the day (from 1) whose one Asian range it is, 0 for other setups;
\* decided: when the strategy chose it
Choice == [dir : Dirs \cup {"none"}, ranging : BOOLEAN, slot : Nat, decided : Nat]
Entry == [id : Nat, dir : Dirs, slot : Nat, time : Nat]

\* HOLD, and every other action the EA sends no order for
Hold == [dir |-> "none", ranging |-> FALSE, slot |-> 0, decided |-> 0]
\* g_leg_last_buy_ts = 0 is further back than any cooldown
LongAgo == [d \in Dirs |-> -(TrendingCooldown + RangingCooldown)]

Init ==
  /\ now = 0 /\ day = 0 /\ asian = TRUE
  /\ halted = FALSE /\ haltSig = 0
  /\ quotaUsed = FALSE
  /\ pc = "wait" /\ headAt = -1 /\ choice = Hold
  /\ signal = Hold /\ sigId = 0 /\ sigTime = 0
  /\ lastId = 0 /\ lastOpen = LongAgo
  /\ positions = 0 /\ opens = <<>>
  /\ faults = 0 /\ restarts = 0

-----------------------------------------------------------------------------
(* The clock, the calendar and the broker *)

Tick ==
  /\ now < MaxTime
  /\ pc \in {"wait", "body"}
  /\ now' = now + 1
  /\ UNCHANGED <<day, asian, faults, loopVars, fileVars, eaVars, haltVars, brokerVars>>

\* UTC 0:00: the Asian session, a fresh quota
Midnight ==
  /\ day < MaxDay
  /\ day' = day + 1
  /\ asian' = TRUE /\ quotaUsed' = FALSE
  /\ UNCHANGED <<now, faults, pc, headAt, choice, fileVars, eaVars, haltVars, brokerVars>>

LondonOpens ==
  /\ asian' = FALSE
  /\ UNCHANGED <<now, day, faults, loopVars, fileVars, eaVars, haltVars, brokerVars>>

\* A stop, a target or an operator closes a position.
PositionCloses ==
  /\ positions > 0
  /\ positions' = positions - 1
  /\ UNCHANGED <<now, day, asian, faults, loopVars, fileVars, eaVars, haltVars, opens>>

\* The signal of the cycle under way, or the one already published
LastBegun == IF pc = "wait" THEN sigId ELSE sigId + 1

\* The dashboard sets the leg's pause flag.
Pause ==
  /\ ~halted
  /\ halted' = TRUE /\ haltSig' = LastBegun
  /\ UNCHANGED <<now, day, asian, faults, loopVars, fileVars, eaVars, brokerVars>>

\* The pause flag is removed, or a halt ends with its day.
Resume ==
  /\ halted
  /\ halted' = FALSE /\ haltSig' = 0
  /\ UNCHANGED <<now, day, asian, faults, loopVars, fileVars, eaVars, brokerVars>>

-----------------------------------------------------------------------------
(* The live loop *)

\* next_bar_close is later than the time it is asked at.
AtBar == pc = "wait" /\ now % Bar = 0 /\ headAt # now

\* save_state
Write(c) ==
  /\ signal' = c /\ sigId' = sigId + 1 /\ sigTime' = now

\* Halted: publish HOLD and skip the rest; the locals keep the last choice.
HaltedCycle ==
  /\ AtBar /\ halted
  /\ headAt' = now
  /\ Write(Hold)
  /\ UNCHANGED <<now, day, asian, faults, pc, choice, quotaUsed, eaVars, haltVars, brokerVars>>

HeadIgnoresHalt ==
  /\ AtBar
  /\ pc' = "body"
  /\ UNCHANGED <<now, day, asian, faults, headAt, choice, quotaUsed, fileVars, eaVars, haltVars, brokerVars>>

TradingCycle ==
  /\ AtBar /\ ~halted
  /\ pc' = "body"
  /\ UNCHANGED <<now, day, asian, faults, headAt, choice, quotaUsed, fileVars, eaVars, haltVars, brokerVars>>

\* What determine_action may choose
Wanted ==
  {[dir |-> d, ranging |-> r, slot |-> IF r /\ asian THEN day + 1 ELSE 0, decided |-> now] :
     d \in Dirs, r \in BOOLEAN}

\* asian_range_quota: for ranges in determine_action, for every setup at the gate
QuotaBlocks == asian /\ quotaUsed

CapBlocksAbove == positions > MaxConcurrent

\* check_concurrent_cap
CapBlocks == positions >= MaxConcurrent

StackIgnored(c) == FALSE

\* check_anti_stack_cooldown: a TradeSetup (trending) has no attribute
\* "direction", and the gate lets every setup without one pass.
StackBlocks(c) ==
  c.ranging /\ \E i \in 1..Len(opens) : opens[i].dir = c.dir /\ now - opens[i].time < AntiStack

\* determine_action and the pre-write gates.  HOLD is always possible: no
\* setup, the Phase 1a breaker, or the margin gate.
Decide ==
  /\ pc = "body"
  /\ pc' = "gated"
  /\ choice' \in {Hold} \cup {c \in Wanted : ~QuotaBlocks /\ ~CapBlocks /\ ~StackBlocks(c)}
  /\ UNCHANGED <<now, day, asian, faults, headAt, quotaUsed, fileVars, eaVars, haltVars, brokerVars>>

Fault == faults + restarts < MaxFaults /\ faults' = faults + 1

\* positions_get or history_deals_get answers None or raises: the gate passes.
DecideBlind ==
  /\ pc = "body"
  /\ Fault
  /\ pc' = "gated"
  /\ choice' \in {c \in Wanted : ~QuotaBlocks}
  /\ UNCHANGED <<now, day, asian, headAt, quotaUsed, fileVars, eaVars, haltVars, brokerVars>>

FinishForgetsQuota ==
  /\ pc = "gated"
  /\ pc' = "publish"
  /\ UNCHANGED <<now, day, asian, faults, headAt, choice, quotaUsed, fileVars, eaVars, haltVars, brokerVars>>

\* quota.record_open for an Asian range, then the reconcile, which may trip a halt
Finish ==
  /\ pc = "gated"
  /\ pc' = "publish"
  /\ quotaUsed' = (quotaUsed \/ (choice.slot # 0))
  /\ \/ UNCHANGED haltVars
     \/ ~halted /\ halted' = TRUE /\ haltSig' = LastBegun
  /\ UNCHANGED <<now, day, asian, faults, headAt, choice, fileVars, eaVars, brokerVars>>

\* No tick, or an exception: straight to the finally block.
CycleFails ==
  /\ pc \in {"body", "gated"}
  /\ Fault
  /\ pc' = "publish"
  /\ UNCHANGED <<now, day, asian, headAt, choice, quotaUsed, fileVars, eaVars, haltVars, brokerVars>>

\* finally: save_state with whatever the locals hold
Publish ==
  /\ pc = "publish"
  /\ pc' = "wait" /\ headAt' = now
  /\ Write(choice)
  /\ UNCHANGED <<now, day, asian, faults, choice, quotaUsed, eaVars, haltVars, brokerVars>>

\* The process ends and is started again: the locals are gone.
LoopRestarts ==
  /\ pc' = "wait" /\ headAt' = now /\ choice' = Hold
  /\ UNCHANGED <<now, day, asian, faults, quotaUsed, fileVars, eaVars, haltVars, brokerVars>>

-----------------------------------------------------------------------------
(* The EA, through strategy_server *)

\* fresh: age_sec < SIGNAL_FRESH_MAX_AGE_SEC
Fresh == now - sigTime <= Bar

\* An unread, fresh signal; a stale one is not remembered.
Polls == sigId # lastId /\ Fresh

CooldownOf(c) == IF c.ranging THEN RangingCooldown ELSE TrendingCooldown

Cooled(c) == now - lastOpen[c.dir] >= CooldownOf(c)

Opened ==
  /\ positions' = positions + 1
  /\ opens' = Append(opens, [id |-> sigId, dir |-> signal.dir, slot |-> signal.slot, time |-> now])
  /\ lastOpen' = [lastOpen EXCEPT ![signal.dir] = now]

EaOpensForgets ==
  /\ Polls
  /\ signal.dir \in Dirs /\ Cooled(signal)
  /\ Opened
  /\ UNCHANGED <<now, day, asian, faults, loopVars, fileVars, haltVars, lastId, restarts>>

\* ExecuteDirection succeeds.
EaOpens ==
  /\ Polls
  /\ signal.dir \in Dirs /\ Cooled(signal)
  /\ Opened
  /\ lastId' = sigId
  /\ UNCHANGED <<now, day, asian, faults, loopVars, fileVars, haltVars, restarts>>

\* HOLD, cooldown, low confidence, or the broker refuses: read, no order.
EaPasses ==
  /\ Polls
  /\ lastId' = sigId
  /\ UNCHANGED <<now, day, asian, faults, loopVars, fileVars, haltVars, brokerVars, lastOpen, restarts>>

\* OnInit: the terminal, the chart or the EA is restarted; nothing is persisted.
EaRestarts ==
  /\ faults + restarts < MaxFaults
  /\ restarts' = restarts + 1
  /\ lastId' = 0 /\ lastOpen' = LongAgo
  /\ UNCHANGED <<now, day, asian, faults, loopVars, fileVars, haltVars, brokerVars>>

-----------------------------------------------------------------------------
Next ==
  \/ Tick
  \/ Midnight
  \/ LondonOpens
  \/ PositionCloses
  \/ Pause
  \/ Resume
  \/ HaltedCycle
  \/ TradingCycle
  \/ Decide
  \/ DecideBlind
  \/ Finish
  \/ CycleFails
  \/ Publish
  \/ LoopRestarts
  \/ EaOpens
  \/ EaPasses
  \/ EaRestarts

Spec == Init /\ [][Next]_vars

-----------------------------------------------------------------------------
(* Properties *)

\* The variables hold values of their types.
TypeOK ==
  /\ now \in Nat /\ day \in Nat /\ asian \in BOOLEAN
  /\ halted \in BOOLEAN /\ haltSig \in Nat
  /\ quotaUsed \in BOOLEAN
  /\ pc \in {"wait", "body", "gated", "publish"} /\ headAt \in -1..now
  /\ choice \in Choice /\ signal \in Choice
  /\ sigId \in Nat /\ sigTime \in 0..now
  /\ lastId \in 0..sigId /\ lastOpen \in [Dirs -> Int]
  /\ positions \in Nat /\ opens \in Seq(Entry)
  /\ faults \in Nat /\ restarts \in Nat

\* The opens allowed on top of a limit: an EA restart forgets what was read, and
\* a failed cycle or probe publishes what was not gated.
Slack == restarts + faults

\* AISMCReceiver.mq5:655, "prevents retry on same cycle": a published signal is
\* executed once, or once more after each restart of the EA.
ExecutedOnce ==
  \A id \in {opens[i].id : i \in 1..Len(opens)} :
    Cardinality({i \in 1..Len(opens) : opens[i].id = id}) <= 1 + restarts

\* config.py:305, "Hard cap on concurrent open positions": the gate reads the
\* positions before the EA has acted on the previous signal, so the cap can be
\* passed by one; it is not passed by more.
CapHolds == positions <= MaxConcurrent + 1 + Slack

\* config.py:315, "block further same-direction entries": for the same reason two
\* entries in one direction may be close together, but never three.
NoPileUp ==
  \A i \in 1..Len(opens) :
    Cardinality({j \in i..Len(opens) : opens[j].dir = opens[i].dir
                                       /\ opens[j].time - opens[i].time < AntiStack})
      <= 2 + Slack

\* range_quota.py:4, "Cap at 1 open per UTC day": the range setups chosen in the
\* Asian session of one day lead to one order.
OneAsianRange ==
  \A d \in 1..(day + 1) : Cardinality({i \in 1..Len(opens) : opens[i].slot = d}) <= 1 + Slack

\* live_demo.py:1049, "blocks new opens": once a halt or a pause begins, what can
\* still be executed is the signal already published and that of the cycle under
\* way, however long this cycle takes, whatever fails, and whoever restarts.
HaltTakesHold == [][opens' # opens /\ halted => sigId <= haltSig]_vars

\* live_demo.py:1969, "always see the latest attempt", and strategy_server.py:73,
\* "one M15 cycle": an order is sent on a decision of the last bar.
DecisionIsRecent == [][opens' # opens => now - signal.decided <= Bar]_vars
=============================================================================
