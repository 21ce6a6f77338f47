--------------------------- MODULE GasEstimation ---------------------------
(***************************************************************************)
(* The fees of a transaction of EthSubnetManager (ipc/provider/src/manager *)
(* /evm/manager.rs): premium_estimation reads the base fee of the latest   *)
(* block and, in a second request, the rewards that the last blocks paid.  *)
(* The chain grows between and after the two.                              *)
(*                                                                         *)
(* Fees are natural numbers.  estimate_priority_fee panics at a block      *)
(* without a reward and at a fee that overflows: the command ends there,   *)
(* as it does when one of its requests fails.                              *)
(* The tiers of base_fee_surged are parameters, so that small fees cross   *)
(* them.                                                                   *)
(***************************************************************************)
EXTENDS Integers, Sequences, FiniteSets, FiniteSetsExt

CONSTANTS
  Rewards,          \* what blocks pay at the percentile that is asked for
  Bases,            \* base fees of the first block
  Window,           \* EIP1559_FEE_ESTIMATION_PAST_BLOCKS
  Threshold,        \* EIP1559_FEE_ESTIMATION_THRESHOLD_MAX_CHANGE
  Low, Mid, High,   \* the tiers of the base fee
  MaxBlocks         \* bound: blocks during one estimation

ASSUME GasAssumption ==
  /\ Rewards \subseteq Nat /\ Bases \subseteq Nat \ {0}
  /\ Window \in Nat \ {0} /\ Threshold \in Nat \ {0} /\ MaxBlocks \in Nat
  /\ Low \in Nat /\ Low >= 4 /\ Mid \in Nat /\ High \in Nat

VARIABLES
  rewards,   \* fee_history: the rewards of the last blocks
  base,      \* the base fee of the latest block
  step,      \* what the transaction being built does next
  read,      \* the base fee that was read
  fee,       \* [tip, cap]: max_priority_fee_per_gas and max_fee_per_gas
  since      \* history: blocks since the base fee was read

vars == <<rewards, base, step, read, fee, since>>

NoFee == [tip |-> 0, cap |-> 0]

-----------------------------------------------------------------------------
(* estimate_priority_fee *)

\* filter: the blocks that paid something
Paying(rs) == {i \in 1..Len(rs) : rs[i] > 0}

\* sort: the paying blocks at or before block i in the order of rewards (a block
\* before another that paid the same comes first), and the rewards in that order.
UpTo(rs, i) == {j \in Paying(rs) : rs[j] < rs[i] \/ (rs[j] = rs[i] /\ j <= i)}
Block(rs, k) == CHOOSE i \in Paying(rs) : Cardinality(UpTo(rs, i)) = k
Sorted(rs)  == [k \in 1..Cardinality(Paying(rs)) |-> rs[Block(rs, k)]]

\* percentage change between neighbours of a sorted sequence
Change(s, i) == ((s[i + 1] - s[i]) * 100) \div s[i]

\* Mutant: one position too far.
KeptAfterJump(s) ==
  LET changes == {Change(s, i) : i \in 1..Len(s) - 1}
      jump    == Min({i \in 1..Len(s) - 1 : Change(s, i) = Max(changes)})
  IN IF Max(changes) >= Threshold /\ jump - 1 >= Len(s) \div 2 THEN SubSeq(s, jump + 1, Len(s)) ELSE s

\* The rewards from the largest change on, if it is large and in the upper half.
Kept(s) ==
  LET changes == {Change(s, i) : i \in 1..Len(s) - 1}
      jump    == Min({i \in 1..Len(s) - 1 : Change(s, i) = Max(changes)})
  IN IF Max(changes) >= Threshold /\ jump - 1 >= Len(s) \div 2 THEN SubSeq(s, jump, Len(s)) ELSE s

\* Mutant: the element below the median.
MedianBelow(s) == s[(Len(s) + 1) \div 2]

Median(s) == s[Len(s) \div 2 + 1]

EstimatePriorityFee(rs) ==
  LET s == Sorted(rs) IN
  IF Len(s) = 0 THEN 0
  ELSE IF Len(s) = 1 THEN s[1]
  ELSE Median(Kept(s))

-----------------------------------------------------------------------------
(* premium_estimation *)

\* Mutant: the highest tier adds a tenth.
BaseFeeSurgedTenth(b) ==
  IF b <= Low THEN b * 2
  ELSE IF b <= Mid THEN (b * 16) \div 10
  ELSE IF b <= High THEN (b * 14) \div 10
  ELSE (b * 11) \div 10

BaseFeeSurged(b) ==
  IF b <= Low THEN b * 2
  ELSE IF b <= Mid THEN (b * 16) \div 10
  ELSE IF b <= High THEN (b * 14) \div 10
  ELSE (b * 12) \div 10

\* Mutant: the cap does not leave room for the tip.
MaxFeeOfBase(tip, potential) == potential

MaxFee(tip, potential) == IF tip > potential THEN tip + potential ELSE potential

Init ==
  /\ rewards \in UNION {[1..n -> Rewards] : n \in 0..Window}
  /\ base \in Bases
  /\ step = "block" /\ read = 0 /\ fee = NoFee /\ since = 0

\* get_block; a missing block or base fee is an error
GetBlock ==
  /\ step = "block"
  /\ read' = base
  /\ step' = "history"
  /\ UNCHANGED <<rewards, base, fee, since>>

\* fee_history and the estimate
PremiumEstimation ==
  /\ step = "history"
  /\ LET tip == EstimatePriorityFee(rewards) IN
     fee' = [tip |-> tip, cap |-> MaxFee(tip, BaseFeeSurged(read))]
  /\ step' = "send"
  /\ UNCHANGED <<rewards, base, read, since>>

\* send_value sends with both, call_with_premium_estimation sets the tip as the
\* gas price, which is the cap as well.
SendValue ==
  /\ step = "send"
  /\ step' = "sent"
  /\ UNCHANGED <<rewards, base, read, fee, since>>

CallWithPremiumEstimation ==
  /\ step = "send"
  /\ fee' = [fee EXCEPT !.cap = fee.tip]
  /\ step' = "called"
  /\ UNCHANGED <<rewards, base, read, since>>

\* One of the two requests fails, or estimate_priority_fee panics.
Fails ==
  /\ step \in {"block", "history"}
  /\ step' = "error"
  /\ UNCHANGED <<rewards, base, read, fee, since>>

\* A new block (external): by the rule of EIP-1559 the base fee falls by an
\* eighth at most, and rises by an eighth or by 1 at most.
Rise(b) == IF b < 8 THEN 1 ELSE b \div 8
Grown(b, b2) == b - b \div 8 <= b2 /\ b2 <= b + Rise(b)

NewBlock ==
  /\ step \notin {"block", "error"} /\ since < MaxBlocks
  /\ since' = since + 1
  /\ \E r \in Rewards :
       rewards' = Append(IF Len(rewards) = Window THEN Tail(rewards) ELSE rewards, r)
  /\ base' \in {b \in 0..2 * base : Grown(base, b)}
  /\ UNCHANGED <<step, read, fee>>

Next ==
  GetBlock \/ PremiumEstimation \/ SendValue \/ CallWithPremiumEstimation \/ Fails \/ NewBlock

Spec == Init /\ [][Next]_vars
-----------------------------------------------------------------------------
(* Correctness. *)

\* Types; and the fees make a valid transaction: the tip fits under the cap.
TypeOK ==
  /\ rewards \in Seq(Rewards) /\ Len(rewards) <= Window
  /\ base \in Nat \ {0} /\ read \in Nat
  /\ step \in {"block", "history", "send", "sent", "called", "error"}
  /\ fee \in [tip : Nat, cap : Nat] /\ fee.tip <= fee.cap
  /\ since \in 0..MaxBlocks

\* The cap that send_value pays for covers the base fee of the block after the
\* one whose base fee was read, in every tier, wherever the two requests fell.
CapCoversNextBlock == step = "sent" /\ since <= 1 => base <= fee.cap

\* The same rewards without sorting: how many are at most v, and below v.
AtMost(rs, v) == Cardinality({i \in Paying(rs) : rs[i] <= v})
Below(rs, v)  == Cardinality({i \in Paying(rs) : rs[i] < v})
Values(rs)    == {rs[i] : i \in Paying(rs)}
NextValue(rs, v) == Min({w \in Values(rs) : w > v})
Jump(rs, v)   == ((NextValue(rs, v) - v) * 100) \div v
Jumps(rs)     == Values(rs) \ {Max(Values(rs))}

\* The value below the largest jump, the smaller one of two equal jumps, when
\* that jump is large and lies in the upper half.
Cuts(rs) ==
  {v \in Jumps(rs) :
     /\ \A w \in Jumps(rs) : Jump(rs, w) < Jump(rs, v) \/ (Jump(rs, w) = Jump(rs, v) /\ v <= w)
     /\ Jump(rs, v) >= Threshold
     /\ AtMost(rs, v) - 1 >= AtMost(rs, Max(Values(rs))) \div 2}

\* The estimate is the upper median, by counting, of the rewards that are left
\* when those before the cut are dropped (one copy of the value below the jump
\* stays): short histories, ties and zero rewards included.
EstimateIsMedian ==
  LET e       == EstimatePriorityFee(rewards)
      dropped == IF Values(rewards) # {} /\ Cuts(rewards) # {}
                 THEN AtMost(rewards, CHOOSE v \in Cuts(rewards) : TRUE) - 1 ELSE 0
      left    == Cardinality(Paying(rewards)) - dropped
  IN IF Values(rewards) = {} THEN e = 0
     ELSE /\ e \in Values(rewards)
          /\ Below(rewards, e) - dropped <= left \div 2
          /\ left \div 2 < AtMost(rewards, e) - dropped

\* Dropping rewards never lowers the fee: the tip is at least what more than
\* half of the paying blocks paid.
TipCoversMostBlocks ==
  Values(rewards) # {} =>
    2 * AtMost(rewards, EstimatePriorityFee(rewards)) > Cardinality(Paying(rewards))
=============================================================================
