------------------------- MODULE CheckpointRelayer -------------------------
(***************************************************************************)
(* The bottom-up checkpoint relayer (ipc/provider/src/checkpoint.rs) and   *)
(* the two chains it stands between.                                       *)
(*                                                                         *)
(* Every relayer is a daemon that loops over submit_last_epoch and         *)
(* submit_next_epoch and then sleeps.  Each remote call is one step, so    *)
(* that whatever the other relayers and the chains do between two calls    *)
(* is a behaviour of the model.  The child chain, the subnet actor on the  *)
(* parent and the parent's mempool are not code of this repository: they   *)
(* are modelled by what the calls of manager.rs rely on.                   *)
(***************************************************************************)
EXTENDS Integers, Sequences

CONSTANTS
  Relayers,             \* submitter addresses, one daemon each
  Period,               \* checkpoint_period of the subnet actor
  FinalizationBlocks,   \* BottomUpCheckpointManager.finalization_blocks
  FinalityDepth,        \* how many blocks below its head the child is final
  QuorumDelay,          \* a checkpoint gets its quorum within that many blocks
  InOrder,              \* whether quorums are reached in the order of heights
  MaxHeight,            \* bound: last block of the child chain
  MaxForks,             \* bound: number of reorganisations of the child
  MaxFaults             \* bound: failed calls, restarts, dropped or late transactions

ASSUME PeriodAssumption == Period \in Nat \ {0}
ASSUME FinalityAssumption ==
  /\ FinalizationBlocks \in Nat
  /\ FinalityDepth \in Nat
  /\ FinalityDepth <= FinalizationBlocks
ASSUME BoundsAssumption ==
  /\ QuorumDelay \in Nat
  /\ InOrder \in BOOLEAN
  /\ MaxHeight \in Nat
  /\ MaxForks \in Nat
  /\ MaxFaults \in Nat

VARIABLES
  head,       \* height of the child chain
  final,      \* blocks 1..final of the child can no longer be reorganised
  tip,        \* the fork new child blocks are produced on
  forkOf,     \* the fork that produced each child block
  events,     \* the QuorumReached events of each child block, in log order
  last,       \* lastBottomUpCheckpointHeight of the subnet actor
  committed,  \* the fork of the checkpoint committed at each height
  rewarded,   \* the relayers that submitted the checkpoint of each height
  pending,    \* the transaction each submitter has in the parent's mempool
  pc,         \* the call each daemon is about to make
  phase,      \* "last" in submit_last_epoch, "next" in submit_next_epoch
  next,       \* next_submission_height
  finalized,  \* finalized_height
  scan,       \* the loop variable h of submit_next_epoch
  todo,       \* checkpoint heights left in the loop over events
  bundle,     \* the bundle fetched for the first height of todo
  receipt,    \* the receipt of the transaction being waited for
  faults

child == <<head, final, tip, forkOf, events>>
actor == <<last, committed, rewarded>>
locals == <<phase, next, finalized, scan, todo, bundle, receipt>>
vars == <<child, actor, pending, pc, locals, faults>>

Blocks == 1..MaxHeight
Epochs == {h \in Blocks : h % Period = 0}
Forks  == 0..MaxForks
NoFork == -1

\* What BottomUpCheckpointBundle carries, as far as the subnet actor can tell
\* two bundles apart: the height, the child block the checkpoint was cut from,
\* the one its cross messages are of, and whether its signatures make a quorum.
Bundles ==
  [height : Epochs, fork : Forks, messages : Forks \cup {NoFork}, certified : BOOLEAN]
NoBundle == [height |-> 0, fork |-> NoFork, messages |-> NoFork, certified |-> FALSE]

\* QuorumReached for h was emitted in one of the first n blocks.
ReachedBy(h, n) == \E b \in Blocks : b <= n /\ \E i \in 1..Len(events[b]) : events[b][i] = h

-----------------------------------------------------------------------------
(* The subnet actor on the parent chain. *)

\* submitCheckpoint executes the next checkpoint when its signatures make a
\* quorum and its messages hash to what the checkpoint says, and records a
\* further relayer of the last one.
Extends(b) == b.height = last + Period /\ b.certified /\ b.messages = b.fork
Repeats(b) == b.height = last /\ last # 0 /\ b.fork = committed[last]
Accepts(b) == Extends(b) \/ Repeats(b)

SubmitCheckpoint(r, b) ==
  \/ /\ Extends(b)
     /\ last' = b.height
     /\ committed' = [committed EXCEPT ![b.height] = b.fork]
     /\ rewarded' = [rewarded EXCEPT ![b.height] = {r}]
  \/ /\ ~Extends(b) /\ Repeats(b)
     /\ rewarded' = [rewarded EXCEPT ![b.height] = @ \cup {r}]
     /\ UNCHANGED <<last, committed>>
  \/ /\ ~Accepts(b)
     /\ UNCHANGED actor

\* Mutant: somebody has submitted.
SomebodyHasSubmitted(r) == last # 0 /\ rewarded[last] # {}

HasSubmitted(r) == last # 0 /\ r \in rewarded[last]

-----------------------------------------------------------------------------
(* The daemon. *)

\* The locals that no later call of the daemon reads are reset, so that two
\* states that behave alike are the same state.
Enter(r, label) ==
  /\ pc' = [pc EXCEPT ![r] = label]
  /\ phase' = [phase EXCEPT ![r] = "last"]
  /\ next' = [next EXCEPT ![r] = 0]
  /\ finalized' = [finalized EXCEPT ![r] = 0]
  /\ scan' = [scan EXCEPT ![r] = 0]
  /\ todo' = [todo EXCEPT ![r] = <<>>]
  /\ bundle' = [bundle EXCEPT ![r] = NoBundle]
  /\ receipt' = [receipt EXCEPT ![r] = "none"]

\* The end of an iteration of run: an error is only logged.
Sleep(r) == Enter(r, "sleep")

Init ==
  /\ head = 0 /\ final = 0 /\ tip = 0
  /\ forkOf = [b \in Blocks |-> NoFork]
  /\ events = [b \in Blocks |-> <<>>]
  /\ last = 0
  /\ committed = [h \in Epochs |-> NoFork]
  /\ rewarded = [h \in Epochs |-> {}]
  /\ pending = [r \in Relayers |-> NoBundle]
  /\ pc = [r \in Relayers |-> "sleep"]
  /\ phase = [r \in Relayers |-> "last"]
  /\ next = [r \in Relayers |-> 0]
  /\ finalized = [r \in Relayers |-> 0]
  /\ scan = [r \in Relayers |-> 0]
  /\ todo = [r \in Relayers |-> <<>>]
  /\ bundle = [r \in Relayers |-> NoBundle]
  /\ receipt = [r \in Relayers |-> "none"]
  /\ faults = 0

Wake(r) ==
  /\ pc[r] = "sleep"
  /\ pc' = [pc EXCEPT ![r] = "hasSubmitted"]
  /\ UNCHANGED <<child, actor, pending, locals, faults>>

\* has_submitted_in_last_checkpoint_height
CheckSubmitted(r) ==
  /\ pc[r] = "hasSubmitted"
  /\ pc' = [pc EXCEPT ![r] = IF HasSubmitted(r) THEN "nextHeight" ELSE "lastHeight"]
  /\ UNCHANGED <<child, actor, pending, locals, faults>>

\* last_bottom_up_checkpoint_height, read again in submit_last_epoch
ReadLastHeight(r) ==
  /\ pc[r] = "lastHeight"
  /\ \/ /\ last = 0
        /\ pc' = [pc EXCEPT ![r] = "nextHeight"]
        /\ UNCHANGED todo
     \/ /\ last # 0
        /\ pc' = [pc EXCEPT ![r] = "bundle"]
        /\ todo' = [todo EXCEPT ![r] = <<last>>]
  /\ UNCHANGED <<child, actor, pending, phase, next, finalized, scan, bundle, receipt, faults>>

\* next_submission_height
ReadNextHeight(r) ==
  /\ pc[r] = "nextHeight"
  /\ pc' = [pc EXCEPT ![r] = "epoch"]
  /\ phase' = [phase EXCEPT ![r] = "next"]
  /\ next' = [next EXCEPT ![r] = last + Period]
  /\ UNCHANGED <<child, actor, pending, finalized, scan, todo, bundle, receipt, faults>>

\* Mutant: finalization_blocks is ignored.
FinalizedHeightAtHead(current) == IF current > 1 THEN current ELSE 1

\* Mutant: one block too many is taken for final.
FinalizedHeightOffByOne(current) ==
  LET f == current - FinalizationBlocks + 1 IN IF f > 1 THEN f ELSE 1

FinalizedHeight(current) ==
  LET f == current - FinalizationBlocks IN IF f > 1 THEN f ELSE 1

\* Mutant: only the newest final block is scanned.
ReadEpochNewestOnly(r) ==
  /\ pc[r] = "epoch"
  /\ \/ /\ FinalizedHeight(head) < next[r]
        /\ Sleep(r)
     \/ /\ FinalizedHeight(head) >= next[r]
        /\ pc' = [pc EXCEPT ![r] = "events"]
        /\ finalized' = [finalized EXCEPT ![r] = FinalizedHeight(head)]
        /\ scan' = [scan EXCEPT ![r] = FinalizedHeight(head)]
        /\ UNCHANGED <<phase, next, todo, bundle, receipt>>
  /\ UNCHANGED <<child, actor, pending, faults>>

\* Mutant: the scan starts two blocks too early.
ReadEpochTooEarly(r) ==
  /\ pc[r] = "epoch"
  /\ \/ /\ FinalizedHeight(head) < next[r]
        /\ Sleep(r)
     \/ /\ FinalizedHeight(head) >= next[r]
        /\ pc' = [pc EXCEPT ![r] = "events"]
        /\ finalized' = [finalized EXCEPT ![r] = FinalizedHeight(head)]
        /\ scan' = [scan EXCEPT ![r] = next[r] - Period - 1]
        /\ UNCHANGED <<phase, next, todo, bundle, receipt>>
  /\ UNCHANGED <<child, actor, pending, faults>>

\* current_epoch, then the start of the loop over the child's blocks
ReadEpoch(r) ==
  /\ pc[r] = "epoch"
  /\ \/ /\ FinalizedHeight(head) < next[r]
        /\ Sleep(r)
     \/ /\ FinalizedHeight(head) >= next[r]
        /\ pc' = [pc EXCEPT ![r] = "events"]
        /\ finalized' = [finalized EXCEPT ![r] = FinalizedHeight(head)]
        /\ scan' = [scan EXCEPT ![r] = next[r] - Period + 1]
        /\ UNCHANGED <<phase, next, todo, bundle, receipt>>
  /\ UNCHANGED <<child, actor, pending, faults>>

\* The events of a block the chain does not have are no events.
EventsAt(h) == IF h \in Blocks THEN events[h] ELSE <<>>

\* Mutant: the range of the loop excludes finalized_height.
ReadEventsExclusive(r) ==
  /\ pc[r] = "events"
  /\ \/ /\ scan[r] >= finalized[r]
        /\ Sleep(r)
     \/ /\ scan[r] < finalized[r] /\ EventsAt(scan[r]) = <<>>
        /\ scan' = [scan EXCEPT ![r] = @ + 1]
        /\ UNCHANGED <<pc, phase, next, finalized, todo, bundle, receipt>>
     \/ /\ scan[r] < finalized[r] /\ EventsAt(scan[r]) # <<>>
        /\ pc' = [pc EXCEPT ![r] = "bundle"]
        /\ todo' = [todo EXCEPT ![r] = EventsAt(scan[r])]
        /\ UNCHANGED <<phase, next, finalized, scan, bundle, receipt>>
  /\ UNCHANGED <<child, actor, pending, faults>>

\* quorum_reached_events
ReadEvents(r) ==
  /\ pc[r] = "events"
  /\ \/ /\ scan[r] > finalized[r]
        /\ Sleep(r)
     \/ /\ scan[r] <= finalized[r] /\ EventsAt(scan[r]) = <<>>
        /\ scan' = [scan EXCEPT ![r] = @ + 1]
        /\ UNCHANGED <<pc, phase, next, finalized, todo, bundle, receipt>>
     \/ /\ scan[r] <= finalized[r] /\ EventsAt(scan[r]) # <<>>
        /\ pc' = [pc EXCEPT ![r] = "bundle"]
        /\ todo' = [todo EXCEPT ![r] = EventsAt(scan[r])]
        /\ UNCHANGED <<phase, next, finalized, scan, bundle, receipt>>
  /\ UNCHANGED <<child, actor, pending, faults>>

\* checkpoint_bundle_at: get_signature_bundle, for the checkpoint and its
\* signatures,
ReadBundle(r) ==
  /\ pc[r] = "bundle"
  /\ pc' = [pc EXCEPT ![r] = "messages"]
  /\ LET h == Head(todo[r]) IN
     bundle' = [bundle EXCEPT ![r] = [height |-> h, fork |-> forkOf[h], messages |-> NoFork,
                                      certified |-> ReachedBy(h, head)]]
  /\ UNCHANGED <<child, actor, pending, phase, next, finalized, scan, todo, receipt, faults>>

\* and then bottom_up_messages, of whatever chain the child has by now
ReadMessages(r) ==
  /\ pc[r] = "messages"
  /\ pc' = [pc EXCEPT ![r] = "send"]
  /\ bundle' = [bundle EXCEPT ![r] = [@ EXCEPT !.messages = forkOf[bundle[r].height]]]
  /\ UNCHANGED <<child, actor, pending, phase, next, finalized, scan, todo, receipt, faults>>

\* submit_checkpoint up to call.send(): the gas estimation of a call that
\* would revert is an error, and a submitter that still has a transaction in
\* the mempool reuses its nonce, so the node refuses the new transaction or
\* replaces the old one.
Send(r) ==
  /\ pc[r] = "send"
  /\ \/ /\ Accepts(bundle[r])
        /\ pending' = [pending EXCEPT ![r] = bundle[r]]
        /\ pc' = [pc EXCEPT ![r] = "receipt"]
        /\ UNCHANGED locals
     \/ /\ ~Accepts(bundle[r]) \/ pending[r] # NoBundle
        /\ Sleep(r)
        /\ UNCHANGED pending
  /\ UNCHANGED <<child, actor, faults>>

\* block_number_from_receipt, which does not read the status of the receipt
GotReceipt(r) ==
  /\ pc[r] = "receipt"
  /\ receipt[r] # "none"
  /\ receipt' = [receipt EXCEPT ![r] = "none"]
  /\ bundle' = [bundle EXCEPT ![r] = NoBundle]
  /\ todo' = [todo EXCEPT ![r] = Tail(@)]
  /\ \/ /\ phase[r] = "last"
        /\ pc' = [pc EXCEPT ![r] = "nextHeight"]
        /\ UNCHANGED scan
     \/ /\ phase[r] = "next" /\ Tail(todo[r]) # <<>>
        /\ pc' = [pc EXCEPT ![r] = "bundle"]
        /\ UNCHANGED scan
     \/ /\ phase[r] = "next" /\ Tail(todo[r]) = <<>>
        /\ pc' = [pc EXCEPT ![r] = "events"]
        /\ scan' = [scan EXCEPT ![r] = @ + 1]
  /\ UNCHANGED <<child, actor, pending, phase, next, finalized, faults>>

\* TRANSACTION_RECEIPT_RETRIES polls without a receipt: the transaction was
\* dropped, or it is still in the mempool and may be mined later.
ReceiptTimeout(r) ==
  /\ pc[r] = "receipt"
  /\ receipt[r] = "none"
  /\ \/ pending[r] = NoBundle /\ UNCHANGED faults
     \/ pending[r] # NoBundle /\ faults < MaxFaults /\ faults' = faults + 1
  /\ Sleep(r)
  /\ UNCHANGED <<child, actor, pending>>

\* Any remote call may fail, and the daemon may be stopped and started again:
\* either way nothing of the iteration survives but the transaction it sent.
Abort(r) ==
  /\ pc[r] # "sleep"
  /\ faults < MaxFaults
  /\ faults' = faults + 1
  /\ Sleep(r)
  /\ UNCHANGED <<child, actor, pending>>

-----------------------------------------------------------------------------
(* The chains. *)

Mine(r) ==
  /\ pending[r] # NoBundle
  /\ SubmitCheckpoint(r, pending[r])
  /\ pending' = [pending EXCEPT ![r] = NoBundle]
  /\ receipt' = [receipt EXCEPT ![r] =
       IF pc[r] # "receipt" THEN @
       ELSE IF Accepts(pending[r]) THEN "ok" ELSE "reverted"]
  /\ UNCHANGED <<child, pc, phase, next, finalized, scan, todo, bundle, faults>>

DropTransaction(r) ==
  /\ pending[r] # NoBundle
  /\ faults < MaxFaults
  /\ faults' = faults + 1
  /\ pending' = [pending EXCEPT ![r] = NoBundle]
  /\ UNCHANGED <<child, actor, pc, locals>>

\* The quorums a block may complete: each checkpoint is cut before its quorum
\* is reached, and has it QuorumDelay blocks later at most.
NewQuorums(b) == {h \in Epochs : h < b /\ b <= h + QuorumDelay /\ ~ReachedBy(h, head)}

\* The logs of such a block: no quorum twice, none overdue, none too early.
Logged(log, h) == \E i \in 1..Len(log) : log[i] = h
QuorumLogs(b) ==
  {log \in {<<>>} \cup {<<h>> : h \in NewQuorums(b)}
                  \cup {<<g, h>> : g, h \in NewQuorums(b)} :
     /\ \A i, j \in 1..Len(log) : i # j => log[i] # log[j]
     /\ \A h \in NewQuorums(b) : b = h + QuorumDelay => Logged(log, h)
     /\ InOrder => \A i \in 1..Len(log), h \in NewQuorums(b) :
                     h < log[i] => \E j \in 1..i : log[j] = h}

NewBlock ==
  /\ head < MaxHeight
  /\ head' = head + 1
  /\ final' = IF head + 1 - FinalityDepth > final THEN head + 1 - FinalityDepth ELSE final
  /\ forkOf' = [forkOf EXCEPT ![head + 1] = tip]
  /\ \E log \in QuorumLogs(head + 1) : events' = [events EXCEPT ![head + 1] = log]
  /\ UNCHANGED <<tip, actor, pending, pc, locals, faults>>

Reorg ==
  /\ tip < MaxForks
  /\ tip' = tip + 1
  /\ \E to \in final..(head - 1) :
       /\ head' = to
       /\ forkOf' = [b \in Blocks |-> IF b <= to THEN forkOf[b] ELSE NoFork]
       /\ events' = [b \in Blocks |-> IF b <= to THEN events[b] ELSE <<>>]
  /\ UNCHANGED <<final, actor, pending, pc, locals, faults>>

-----------------------------------------------------------------------------
Daemon(r) ==
  \/ Wake(r) \/ CheckSubmitted(r) \/ ReadLastHeight(r) \/ ReadNextHeight(r)
  \/ ReadEpoch(r) \/ ReadEvents(r) \/ ReadBundle(r) \/ ReadMessages(r)
  \/ Send(r) \/ GotReceipt(r) \/ ReceiptTimeout(r)

Next ==
  \/ \E r \in Relayers : Daemon(r) \/ Abort(r) \/ Mine(r) \/ DropTransaction(r)
  \/ NewBlock
  \/ Reorg

Spec == Init /\ [][Next]_vars

Fairness ==
  /\ \A r \in Relayers : WF_vars(Daemon(r)) /\ WF_vars(Mine(r))
  /\ WF_vars(NewBlock)

FairSpec == Spec /\ Fairness
-----------------------------------------------------------------------------
(* Correctness. *)

Labels == {"sleep", "hasSubmitted", "lastHeight", "nextHeight", "epoch",
           "events", "bundle", "messages", "send", "receipt"}

\* Every variable has its type: the state of the daemons of checkpoint.rs, of
\* the subnet actor, of the mempool and of the child chain.
TypeOK ==
  /\ head \in 0..MaxHeight /\ final \in 0..MaxHeight /\ tip \in Forks
  /\ forkOf \in [Blocks -> Forks \cup {NoFork}]
  /\ events \in [Blocks -> Seq(Epochs)]
  /\ last \in Epochs \cup {0}
  /\ committed \in [Epochs -> Forks \cup {NoFork}]
  /\ rewarded \in [Epochs -> SUBSET Relayers]
  /\ pending \in [Relayers -> Bundles \cup {NoBundle}]
  /\ pc \in [Relayers -> Labels]
  /\ phase \in [Relayers -> {"last", "next"}]
  /\ next \in [Relayers -> Nat]
  /\ finalized \in [Relayers -> Nat]
  /\ scan \in [Relayers -> Nat]
  /\ todo \in [Relayers -> Seq(Epochs)]
  /\ bundle \in [Relayers -> Bundles \cup {NoBundle}]
  /\ receipt \in [Relayers -> {"none", "ok", "reverted"}]
  /\ faults \in 0..MaxFaults

\* A bundle for a checkpoint that no reorganisation of the child can undo.
FinalBundle(b) == b.certified /\ b.fork = forkOf[b.height] /\ ReachedBy(b.height, final)

BundlesAreFinal ==
  \A r \in Relayers :
    /\ pending[r] # NoBundle => FinalBundle(pending[r])
    /\ bundle[r] # NoBundle => FinalBundle(bundle[r])

MessagesMatch ==
  \A r \in Relayers :
    /\ pending[r] # NoBundle => pending[r].messages = pending[r].fork
    /\ pc[r] # "messages" /\ bundle[r] # NoBundle => bundle[r].messages = bundle[r].fork

\* What a relayer is about to send, or has in the parent's mempool, is a
\* checkpoint with a quorum on the final part of the child chain, together
\* with its own messages, although submit_next_epoch reads the head, the
\* events, the checkpoint and the messages at different times and the child
\* may be reorganised between any two of them.
InFlightIsFinal == BundlesAreFinal /\ MessagesMatch

\* The finally certified checkpoints of the child.
Certified == [h \in Epochs |-> IF ReachedBy(h, final) THEN forkOf[h] ELSE NoFork]

\* The relayers, the subnet actor and the chains together implement the
\* checkpoint log: the parent commits exactly the child's final certified
\* checkpoints, in order and once, and credits the submitters of the newest.
Log == INSTANCE CheckpointLog
         WITH Heights <- Epochs, Values <- Forks, NoValue <- NoFork, Step <- Period,
              Submitters <- Relayers, certified <- Certified, newest <- last,
              log <- committed, credited <- rewarded
ImplementsLog == Log!Spec

\* When every checkpoint gets its quorum before the next one is cut, a
\* submission is refused, or reverts once mined, only because other relayers
\* have carried the log past it in the meantime: a relayer never submits a
\* checkpoint beyond the next one, because submit_next_epoch gives up at the
\* first submission that fails.
RefusedOnlyWhenOvertaken ==
  [][\A r \in Relayers :
       /\ (Send(r) /\ ~Accepts(bundle[r])) => bundle[r].height < last
       /\ (Mine(r) /\ ~Accepts(pending[r])) => pending[r].height < last]_vars

\* Every checkpoint with a quorum on the final part of the child chain is
\* committed in the parent: "relayers need to pick up the checkpoint and submit
\* it in the parent" (docs/usage.md).
EveryQuorumIsCommitted ==
  \A h \in Epochs : ReachedBy(h, final) ~> (last >= h)

\* Once the log stands still, every running relayer gets credited for its
\* newest checkpoint, which is what submit_last_epoch is for.
EveryRelayerIsCredited ==
  \A h \in Epochs : <>[](last = h) => <>(rewarded[h] = Relayers)
=============================================================================
