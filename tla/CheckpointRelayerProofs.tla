---------------------- MODULE CheckpointRelayerProofs ----------------------
(***************************************************************************)
(* Proofs about CheckpointRelayer, for any number of relayers, any period, *)
(* any finality depth the relayers respect, and any bounds.                *)
(***************************************************************************)
EXTENDS CheckpointRelayer, SequenceTheorems, TLAPS

-----------------------------------------------------------------------------
(* The inductive invariant. *)

\* The child chain: what is final is on the chain and never more than
\* FinalityDepth blocks below its head, blocks of the chain have a fork, and
\* the quorum of a checkpoint comes after the checkpoint.
ChildInv ==
  /\ final <= head
  /\ final >= head - FinalityDepth
  /\ \A b \in Blocks : b <= head => forkOf[b] \in Forks
  /\ \A b \in Blocks : \A i \in 1..Len(events[b]) : events[b][i] < b

\* The daemons: the height read in ReadNextHeight, the range that is scanned
\* and the heights found in it.
DaemonOK(r) ==
  /\ pc[r] = "epoch" => next[r] >= Period
  /\ finalized[r] <= final \/ finalized[r] <= 1
  /\ pc[r] \in {"bundle", "messages", "send", "receipt"} => todo[r] # <<>>
  /\ \A i \in 1..Len(todo[r]) : ReachedBy(todo[r][i], final)

DaemonInv == \A r \in Relayers : DaemonOK(r)

\* The subnet actor: what is committed is final in the child.
ActorInv ==
  /\ last # 0 => committed[last] # NoFork
  /\ \A h \in Epochs : committed[h] # NoFork =>
       committed[h] = forkOf[h] /\ ReachedBy(h, final)

\* Between the two calls of checkpoint_bundle_at there is a checkpoint.
FetchedInv == \A r \in Relayers : pc[r] = "messages" => bundle[r] # NoBundle

Inv == TypeOK /\ ChildInv /\ DaemonInv /\ FetchedInv /\ InFlightIsFinal /\ ActorInv

USE PeriodAssumption, FinalityAssumption, BoundsAssumption

-----------------------------------------------------------------------------
(* Facts about the operators. *)

\* Checkpoint heights are positive, no bundle is taken for the absence of one.
LEMMA Heights ==
  /\ \A h \in Epochs : h \in Nat /\ h > 0 /\ h \in Blocks
  /\ NoBundle \notin Bundles
  /\ NoFork \notin Forks
  BY DEF Epochs, Blocks, Bundles, NoBundle, NoFork, Forks

\* The logs a new block may have: checkpoint heights below the block.
LEMMA QuorumLogsType ==
  ASSUME NEW b \in Nat, NEW log \in QuorumLogs(b)
  PROVE  /\ log \in Seq(Epochs)
         /\ \A i \in 1..Len(log) : log[i] < b
<1>1. /\ log \in {<<>>} \cup {<<h>> : h \in NewQuorums(b)}
                        \cup {<<g, h>> : g, h \in NewQuorums(b)}
  BY DEF QuorumLogs
<1>2. \A h \in NewQuorums(b) : h \in Epochs /\ h < b
  BY DEF NewQuorums
<1>3. CASE log = <<>>
  BY <1>3
<1>4. ASSUME NEW h \in NewQuorums(b), log = <<h>>
      PROVE  /\ log \in Seq(Epochs)
             /\ \A i \in 1..Len(log) : log[i] < b
  BY <1>2, <1>4
<1>5. ASSUME NEW g \in NewQuorums(b), NEW h \in NewQuorums(b), log = <<g, h>>
      PROVE  /\ log \in Seq(Epochs)
             /\ \A i \in 1..Len(log) : log[i] < b
  <2>1. Len(log) = 2 /\ log[1] = g /\ log[2] = h
    BY <1>5
  <2>2. log \in Seq(Epochs)
    BY <1>2, <1>5
  <2>3. QED
    BY <1>2, <2>1, <2>2
<1>6. QED
  BY <1>1, <1>3, <1>4, <1>5

\* What is final stays final, and keeps its fork, through every step of the
\* child chain.
LEMMA FinalIsStable ==
  ASSUME TypeOK, ChildInv, NewBlock \/ Reorg
  PROVE  /\ final' >= final
         /\ \A h \in Epochs : ReachedBy(h, final) =>
              ReachedBy(h, final)' /\ forkOf'[h] = forkOf[h]
<1>1. /\ final \in Nat /\ head \in Nat /\ final <= head
      /\ events \in [Blocks -> Seq(Epochs)]
      /\ forkOf \in [Blocks -> Forks \cup {NoFork}]
  BY DEF TypeOK, ChildInv
<1>2. /\ final' \in Nat /\ final' >= final
      /\ \A b \in Blocks : b <= final => events'[b] = events[b] /\ forkOf'[b] = forkOf[b]
  <2>1. CASE NewBlock
    <3>1. PICK log \in QuorumLogs(head + 1) : events' = [events EXCEPT ![head + 1] = log]
      BY <2>1 DEF NewBlock
    <3>2. QED
      BY <1>1, <2>1, <3>1 DEF NewBlock, Blocks
  <2>2. CASE Reorg
    <3>1. PICK to \in final..(head - 1) :
            /\ forkOf' = [b \in Blocks |-> IF b <= to THEN forkOf[b] ELSE NoFork]
            /\ events' = [b \in Blocks |-> IF b <= to THEN events[b] ELSE <<>>]
      BY <2>2 DEF Reorg
    <3>2. QED
      BY <1>1, <2>2, <3>1 DEF Reorg, Blocks
  <2>3. QED
    BY <2>1, <2>2
<1>3. ASSUME NEW h \in Epochs, ReachedBy(h, final)
      PROVE  ReachedBy(h, final)' /\ forkOf'[h] = forkOf[h]
  <2>1. PICK b \in Blocks : b <= final /\ \E i \in 1..Len(events[b]) : events[b][i] = h
    BY <1>3 DEF ReachedBy
  <2>2. h \in Blocks /\ h < b
    BY <2>1, Heights DEF ChildInv
  <2>3. h <= final
    BY <1>1, <2>1, <2>2 DEF Blocks
  <2>4. ReachedBy(h, final)'
    <3>1. b <= final' /\ events'[b] = events[b]
      BY <1>1, <1>2, <2>1 DEF Blocks
    <3>2. \E i \in 1..Len(events'[b]) : events'[b][i] = h
      BY <2>1, <3>1
    <3>3. QED
      BY <3>1, <3>2 DEF ReachedBy
  <2>5. QED
    BY <1>2, <2>2, <2>3, <2>4
<1>4. QED
  BY <1>2, <1>3
\* The height a daemon fetches a bundle for is final, and on the chain.
LEMMA FetchedHeight ==
  ASSUME Inv, NEW r \in Relayers, pc[r] = "bundle"
  PROVE  /\ Head(todo[r]) \in Epochs
         /\ ReachedBy(Head(todo[r]), final)
         /\ ReachedBy(Head(todo[r]), head)
         /\ forkOf[Head(todo[r])] \in Forks
<1> DEFINE h == Head(todo[r])
<1>0. TypeOK /\ ChildInv /\ DaemonInv
  BY DEF Inv
<1>1. todo[r] \in Seq(Epochs) /\ todo[r] # <<>>
  BY <1>0 DEF TypeOK, DaemonInv, DaemonOK
<1>2. h \in Epochs /\ h = todo[r][1] /\ 1 \in 1..Len(todo[r])
  BY <1>1
<1>3. ReachedBy(h, final)
  BY <1>0, <1>2 DEF DaemonInv, DaemonOK
<1>4. ReachedBy(h, head)
  BY <1>0, <1>3 DEF ReachedBy, ChildInv, TypeOK, Blocks
<1>5. PICK b \in Blocks : b <= head /\ \E i \in 1..Len(events[b]) : events[b][i] = h
  BY <1>4 DEF ReachedBy
<1>6. h < b
  BY <1>0, <1>5 DEF ChildInv
<1>7. h <= head /\ h \in Blocks
  <2>1. h \in Nat /\ h \in Blocks
    BY <1>2, Heights
  <2>2. head \in Nat /\ b \in Nat
    BY <1>0 DEF TypeOK, Blocks
  <2> HIDE DEF h
  <2>3. QED
    BY <1>5, <1>6, <2>1, <2>2
<1>8. forkOf[h] \in Forks
  BY <1>0, <1>7 DEF ChildInv
<1>9. QED
  BY <1>2, <1>3, <1>4, <1>8

-----------------------------------------------------------------------------
(* Type correctness. *)

\* Going back to the start of the loop, or to any label, keeps the types.
LEMMA EnterType ==
  ASSUME TypeOK, NEW r \in Relayers, NEW label \in Labels, Enter(r, label)
  PROVE  /\ pc' \in [Relayers -> Labels]
         /\ phase' \in [Relayers -> {"last", "next"}]
         /\ next' \in [Relayers -> Nat]
         /\ finalized' \in [Relayers -> Nat]
         /\ scan' \in [Relayers -> Nat]
         /\ todo' \in [Relayers -> Seq(Epochs)]
         /\ bundle' \in [Relayers -> Bundles \cup {NoBundle}]
         /\ receipt' \in [Relayers -> {"none", "ok", "reverted"}]
<1>1. <<>> \in Seq(Epochs)
  OBVIOUS
<1>2. QED
  BY <1>1 DEF TypeOK, Enter

\* The same for going to sleep.
LEMMA SleepType ==
  ASSUME TypeOK, NEW r \in Relayers, Sleep(r)
  PROVE  /\ pc' \in [Relayers -> Labels]
         /\ phase' \in [Relayers -> {"last", "next"}]
         /\ next' \in [Relayers -> Nat]
         /\ finalized' \in [Relayers -> Nat]
         /\ scan' \in [Relayers -> Nat]
         /\ todo' \in [Relayers -> Seq(Epochs)]
         /\ bundle' \in [Relayers -> Bundles \cup {NoBundle}]
         /\ receipt' \in [Relayers -> {"none", "ok", "reverted"}]
  BY EnterType DEF Sleep, Labels

\* Every step keeps the types, given the rest of the invariant.
LEMMA TypeStep ==
  ASSUME Inv, [Next]_vars
  PROVE  TypeOK'
<1> USE DEF child, actor, locals
<1>0. TypeOK /\ ChildInv /\ DaemonInv /\ FetchedInv
  BY DEF Inv
<1>1. ASSUME NEW r \in Relayers, Wake(r)
      PROVE  TypeOK'
  BY <1>0, <1>1 DEF TypeOK, Wake, Labels
<1>2. ASSUME NEW r \in Relayers, CheckSubmitted(r)
      PROVE  TypeOK'
  BY <1>0, <1>2 DEF TypeOK, CheckSubmitted, Labels
<1>3. ASSUME NEW r \in Relayers, ReadLastHeight(r)
      PROVE  TypeOK'
  <2>1. CASE last = 0
    BY <1>0, <1>3, <2>1 DEF TypeOK, ReadLastHeight, Labels
  <2>2. CASE last # 0
    <3>1. <<last>> \in Seq(Epochs)
      BY <1>0, <2>2 DEF TypeOK
    <3>2. pc' = [pc EXCEPT ![r] = "bundle"] /\ todo' = [todo EXCEPT ![r] = <<last>>]
      BY <1>3, <2>2 DEF ReadLastHeight
    <3>3. todo' \in [Relayers -> Seq(Epochs)] /\ pc' \in [Relayers -> Labels]
      BY <1>0, <3>1, <3>2 DEF TypeOK, Labels
    <3>4. QED
      BY <1>0, <1>3, <3>3 DEF TypeOK, ReadLastHeight
  <2>3. QED
    BY <2>1, <2>2
<1>4. ASSUME NEW r \in Relayers, ReadNextHeight(r)
      PROVE  TypeOK'
  <2>1. last + Period \in Nat
    BY <1>0, Heights DEF TypeOK
  <2>2. QED
    BY <1>0, <1>4, <2>1 DEF TypeOK, ReadNextHeight, Labels
<1>5. ASSUME NEW r \in Relayers, ReadEpoch(r)
      PROVE  TypeOK'
  <2>1. CASE Sleep(r)
    BY <1>0, <1>5, <2>1, SleepType DEF TypeOK, ReadEpoch
  <2>2. CASE ~Sleep(r)
    <3>1. FinalizedHeight(head) \in Nat /\ next[r] - Period + 1 \in Nat
      BY <1>0, <1>5 DEF TypeOK, DaemonInv, DaemonOK, ReadEpoch, FinalizedHeight
    <3>2. /\ pc' = [pc EXCEPT ![r] = "events"]
          /\ finalized' = [finalized EXCEPT ![r] = FinalizedHeight(head)]
          /\ scan' = [scan EXCEPT ![r] = next[r] - Period + 1]
          /\ UNCHANGED <<phase, next, todo, bundle, receipt>>
      BY <1>5, <2>2 DEF ReadEpoch
    <3>3. QED
      BY <1>0, <1>5, <3>1, <3>2 DEF TypeOK, ReadEpoch, Labels
  <2>3. QED
    BY <2>1, <2>2
<1>6. ASSUME NEW r \in Relayers, ReadEvents(r)
      PROVE  TypeOK'
  <2>1. CASE Sleep(r)
    BY <1>0, <1>6, <2>1, SleepType DEF TypeOK, ReadEvents
  <2>2. CASE ~Sleep(r)
    <3>1. EventsAt(scan[r]) \in Seq(Epochs)
      BY <1>0 DEF TypeOK, EventsAt
    <3>2. CASE EventsAt(scan[r]) = <<>>
      <4>1. /\ scan' = [scan EXCEPT ![r] = scan[r] + 1]
            /\ UNCHANGED <<pc, phase, next, finalized, todo, bundle, receipt>>
        BY <1>6, <2>2, <3>2 DEF ReadEvents
      <4>2. QED
        BY <1>0, <1>6, <4>1 DEF TypeOK, ReadEvents
    <3>3. CASE EventsAt(scan[r]) # <<>>
      <4>1. /\ pc' = [pc EXCEPT ![r] = "bundle"]
            /\ todo' = [todo EXCEPT ![r] = EventsAt(scan[r])]
            /\ UNCHANGED <<phase, next, finalized, scan, bundle, receipt>>
        BY <1>6, <2>2, <3>3 DEF ReadEvents
      <4>2. QED
        BY <1>0, <1>6, <3>1, <4>1 DEF TypeOK, ReadEvents, Labels
    <3>4. QED
      BY <3>2, <3>3
  <2>3. QED
    BY <2>1, <2>2
<1>7. ASSUME NEW r \in Relayers, ReadBundle(r)
      PROVE  TypeOK'
  <2> DEFINE h == Head(todo[r])
             b == [height |-> h, fork |-> forkOf[h], messages |-> NoFork,
                   certified |-> ReachedBy(h, head)]
  <2>1. h \in Epochs /\ forkOf[h] \in Forks
    BY <1>7, FetchedHeight DEF ReadBundle
  <2>2. ReachedBy(h, head) \in BOOLEAN
    BY DEF ReachedBy
  <2>3. b \in Bundles
    BY <2>1, <2>2 DEF Bundles
  <2>4. bundle' = [bundle EXCEPT ![r] = b]
    BY <1>7 DEF ReadBundle
  <2> HIDE DEF b
  <2>5. bundle' \in [Relayers -> Bundles \cup {NoBundle}]
    BY <1>0, <2>3, <2>4 DEF TypeOK
  <2>6. pc' \in [Relayers -> Labels]
    BY <1>0, <1>7 DEF TypeOK, ReadBundle, Labels
  <2>7. QED
    BY <1>0, <1>7, <2>5, <2>6 DEF TypeOK, ReadBundle
<1>7a. ASSUME NEW r \in Relayers, ReadMessages(r)
       PROVE  TypeOK'
  <2> DEFINE b == [bundle[r] EXCEPT !.messages = forkOf[bundle[r].height]]
  <2>1. bundle[r] \in Bundles
    BY <1>0, <1>7a DEF TypeOK, FetchedInv, ReadMessages
  <2>2. forkOf[bundle[r].height] \in Forks \cup {NoFork}
    BY <1>0, <2>1, Heights DEF TypeOK, Bundles
  <2>3. b \in Bundles
    BY <2>1, <2>2 DEF Bundles
  <2>4. bundle' = [bundle EXCEPT ![r] = b]
    BY <1>0, <1>7a DEF ReadMessages, TypeOK
  <2> HIDE DEF b
  <2>5. bundle' \in [Relayers -> Bundles \cup {NoBundle}]
    BY <1>0, <2>3, <2>4 DEF TypeOK
  <2>6. pc' \in [Relayers -> Labels]
    BY <1>0, <1>7a DEF TypeOK, ReadMessages, Labels
  <2>7. QED
    BY <1>0, <1>7a, <2>5, <2>6 DEF TypeOK, ReadMessages
<1>8. ASSUME NEW r \in Relayers, Send(r)
      PROVE  TypeOK'
  <2>1. CASE Sleep(r)
    BY <1>0, <1>8, <2>1, SleepType DEF TypeOK, Send
  <2>2. CASE ~Sleep(r)
    BY <1>0, <1>8, <2>2 DEF TypeOK, Send, Labels
  <2>3. QED
    BY <2>1, <2>2
<1>9. ASSUME NEW r \in Relayers, GotReceipt(r)
      PROVE  TypeOK'
  <2>1. Tail(todo[r]) \in Seq(Epochs)
    BY <1>0, <1>9 DEF TypeOK, DaemonInv, DaemonOK, GotReceipt
  <2>2. NoBundle \in Bundles \cup {NoBundle} /\ "none" \in {"none", "ok", "reverted"}
    OBVIOUS
  <2>3. pc' \in [Relayers -> Labels] /\ scan' \in [Relayers -> Nat]
    <3>1. {"nextHeight", "bundle", "events"} \subseteq Labels
      BY DEF Labels
    <3>2. /\ \E label \in {"nextHeight", "bundle", "events"} : pc' = [pc EXCEPT ![r] = label]
          /\ scan' = scan \/ scan' = [scan EXCEPT ![r] = scan[r] + 1]
      BY <1>9 DEF GotReceipt
    <3>3. QED
      BY <1>0, <3>1, <3>2 DEF TypeOK
  <2>4. /\ bundle' \in [Relayers -> Bundles \cup {NoBundle}]
        /\ receipt' \in [Relayers -> {"none", "ok", "reverted"}]
        /\ todo' \in [Relayers -> Seq(Epochs)]
    BY <1>0, <1>9, <2>1, <2>2 DEF TypeOK, GotReceipt
  <2>5. QED
    BY <1>0, <1>9, <2>3, <2>4 DEF TypeOK, GotReceipt
<1>10. ASSUME NEW r \in Relayers, ReceiptTimeout(r)
       PROVE  TypeOK'
  BY <1>0, <1>10, SleepType DEF TypeOK, ReceiptTimeout
<1>11. ASSUME NEW r \in Relayers, Abort(r)
       PROVE  TypeOK'
  BY <1>0, <1>11, SleepType DEF TypeOK, Abort
<1>12. ASSUME NEW r \in Relayers, Mine(r)
       PROVE  TypeOK'
  <2>1. pending[r] \in Bundles
    BY <1>0, <1>12 DEF TypeOK, Mine
  <2>2. pending[r].height \in Epochs /\ pending[r].fork \in Forks
    BY <2>1 DEF Bundles
  <2>3. /\ last' \in Epochs \cup {0}
        /\ committed' \in [Epochs -> Forks \cup {NoFork}]
        /\ rewarded' \in [Epochs -> SUBSET Relayers]
    <3>1. SubmitCheckpoint(r, pending[r])
      BY <1>12 DEF Mine
    <3>2. CASE Extends(pending[r])
      <4> DEFINE b == pending[r]
      <4>1. /\ last' = b.height
            /\ committed' = [committed EXCEPT ![b.height] = b.fork]
            /\ rewarded' = [rewarded EXCEPT ![b.height] = {r}]
        BY <3>1, <3>2 DEF SubmitCheckpoint, Accepts
      <4>2. {r} \in SUBSET Relayers
        OBVIOUS
      <4>3. QED
        BY <1>0, <2>2, <4>1, <4>2 DEF TypeOK
    <3>3. CASE ~Extends(pending[r]) /\ Repeats(pending[r])
      <4> DEFINE b == pending[r]
      <4>1. /\ rewarded' = [rewarded EXCEPT ![b.height] = rewarded[b.height] \cup {r}]
            /\ UNCHANGED <<last, committed>>
        BY <3>1, <3>3 DEF SubmitCheckpoint, Accepts
      <4>2. rewarded[b.height] \cup {r} \in SUBSET Relayers
        BY <1>0, <2>2 DEF TypeOK
      <4>3. QED
        BY <1>0, <2>2, <4>1, <4>2 DEF TypeOK
    <3>4. CASE ~Accepts(pending[r])
      BY <1>0, <3>1, <3>4 DEF TypeOK, SubmitCheckpoint, Accepts
    <3>5. QED
      BY <3>2, <3>3, <3>4 DEF Accepts
  <2>4. QED
    BY <1>0, <1>12, <2>3 DEF TypeOK, Mine
<1>13. ASSUME NEW r \in Relayers, DropTransaction(r)
       PROVE  TypeOK'
  BY <1>0, <1>13 DEF TypeOK, DropTransaction
<1>14. CASE NewBlock
  <2>1. PICK log \in QuorumLogs(head + 1) : events' = [events EXCEPT ![head + 1] = log]
    BY <1>14 DEF NewBlock
  <2>2. log \in Seq(Epochs)
    BY <1>0, <2>1, QuorumLogsType DEF TypeOK
  <2>3. head' \in 0..MaxHeight /\ final' \in 0..MaxHeight
    BY <1>0, <1>14 DEF TypeOK, NewBlock
  <2>4. QED
    BY <1>0, <1>14, <2>1, <2>2, <2>3 DEF TypeOK, NewBlock
<1>15. CASE Reorg
  <2>1. PICK to \in final..(head - 1) :
          /\ head' = to
          /\ forkOf' = [b \in Blocks |-> IF b <= to THEN forkOf[b] ELSE NoFork]
          /\ events' = [b \in Blocks |-> IF b <= to THEN events[b] ELSE <<>>]
    BY <1>15 DEF Reorg
  <2>2. head' \in 0..MaxHeight
    BY <1>0, <2>1 DEF TypeOK
  <2>3. events' \in [Blocks -> Seq(Epochs)] /\ forkOf' \in [Blocks -> Forks \cup {NoFork}]
    BY <1>0, <2>1 DEF TypeOK
  <2>4. tip' \in Forks
    BY <1>0, <1>15 DEF TypeOK, Reorg, Forks
  <2>5. QED
    BY <1>0, <1>15, <2>2, <2>3, <2>4 DEF TypeOK, Reorg
<1>16. CASE UNCHANGED vars
  BY <1>0, <1>16 DEF TypeOK, vars
<1>17. QED
  BY <1>1, <1>2, <1>3, <1>4, <1>5, <1>6, <1>7, <1>8, <1>9, <1>10, <1>11, <1>12,
     <1>13, <1>14, <1>15, <1>16, <1>7a DEF Next, Daemon
-----------------------------------------------------------------------------
(* The chains. *)

\* Which steps change the child chain and the subnet actor.
LEMMA Footprint ==
  ASSUME [Next]_vars
  PROVE  /\ NewBlock \/ Reorg \/ UNCHANGED child
         /\ (\E r \in Relayers : Mine(r)) \/ UNCHANGED actor
<1>1. CASE UNCHANGED vars
  BY <1>1 DEF vars
<1>2. CASE NewBlock \/ Reorg
  BY <1>2 DEF NewBlock, Reorg
<1>3. ASSUME NEW r \in Relayers, Daemon(r) \/ Abort(r) \/ DropTransaction(r)
      PROVE  UNCHANGED child /\ UNCHANGED actor
  BY <1>3 DEF Daemon, Abort, DropTransaction, Wake, CheckSubmitted, ReadLastHeight,
     ReadNextHeight, ReadEpoch, ReadEvents, ReadBundle, ReadMessages, Send,
     GotReceipt, ReceiptTimeout
<1>4. ASSUME NEW r \in Relayers, Mine(r)
      PROVE  UNCHANGED child
  BY <1>4 DEF Mine
<1>5. QED
  BY <1>1, <1>2, <1>3, <1>4 DEF Next

\* What is final stays final through every step.
LEMMA FinalStep ==
  ASSUME Inv, [Next]_vars
  PROVE  /\ final' >= final
         /\ \A h \in Epochs : ReachedBy(h, final) =>
              ReachedBy(h, final)' /\ forkOf'[h] = forkOf[h]
<1>1. CASE NewBlock \/ Reorg
  BY <1>1, FinalIsStable DEF Inv
<1>2. CASE UNCHANGED child
  BY <1>2 DEF child, ReachedBy, Inv, TypeOK
<1>3. QED
  BY <1>1, <1>2, Footprint

\* Every step keeps the child chain consistent.
LEMMA ChildStep ==
  ASSUME Inv, [Next]_vars
  PROVE  ChildInv'
<1>0. TypeOK /\ ChildInv
  BY DEF Inv
<1>1. CASE NewBlock
  <2>1. PICK log \in QuorumLogs(head + 1) : events' = [events EXCEPT ![head + 1] = log]
    BY <1>1 DEF NewBlock
  <2>2. \A i \in 1..Len(log) : log[i] < head + 1
    BY <1>0, <2>1, QuorumLogsType DEF TypeOK
  <2>3. final' <= head' /\ final' >= head' - FinalityDepth
    BY <1>0, <1>1 DEF TypeOK, ChildInv, NewBlock
  <2>4. \A b \in Blocks : b <= head' => forkOf'[b] \in Forks
    BY <1>0, <1>1 DEF TypeOK, ChildInv, NewBlock, Blocks
  <2>5. \A b \in Blocks : \A i \in 1..Len(events'[b]) : events'[b][i] < b
    BY <1>0, <1>1, <2>1, <2>2 DEF TypeOK, ChildInv, NewBlock, Blocks
  <2>6. QED
    BY <2>3, <2>4, <2>5 DEF ChildInv
<1>2. CASE Reorg
  <2>1. PICK to \in final..(head - 1) :
          /\ head' = to
          /\ forkOf' = [b \in Blocks |-> IF b <= to THEN forkOf[b] ELSE NoFork]
          /\ events' = [b \in Blocks |-> IF b <= to THEN events[b] ELSE <<>>]
    BY <1>2 DEF Reorg
  <2>2. final' <= head' /\ final' >= head' - FinalityDepth
    BY <1>0, <1>2, <2>1 DEF TypeOK, ChildInv, Reorg
  <2>3. \A b \in Blocks : b <= head' => forkOf'[b] \in Forks
    BY <1>0, <2>1 DEF TypeOK, ChildInv, Blocks
  <2>4. \A b \in Blocks : \A i \in 1..Len(events'[b]) : events'[b][i] < b
    BY <1>0, <2>1 DEF TypeOK, ChildInv, Blocks
  <2>5. QED
    BY <2>2, <2>3, <2>4 DEF ChildInv
<1>3. CASE UNCHANGED child
  BY <1>0, <1>3 DEF ChildInv, child
<1>4. QED
  BY <1>1, <1>2, <1>3, Footprint

\* Every step keeps what the subnet actor has committed final in the child.
LEMMA ActorStep ==
  ASSUME Inv, [Next]_vars
  PROVE  ActorInv'
<1>0. TypeOK /\ InFlightIsFinal /\ ActorInv
  BY DEF Inv
<1>1. \A h \in Epochs : committed[h] # NoFork =>
        committed[h] = forkOf'[h] /\ ReachedBy(h, final)'
  BY <1>0, FinalStep DEF ActorInv
<1>2. CASE UNCHANGED actor
  BY <1>0, <1>1, <1>2 DEF ActorInv, actor
<1>3. ASSUME NEW r \in Relayers, Mine(r)
      PROVE  ActorInv'
  <2>1. PICK b \in Bundles : b = pending[r] /\ FinalBundle(b)
    BY <1>0, <1>3 DEF TypeOK, InFlightIsFinal, BundlesAreFinal, Mine
  <2>2. b.height \in Epochs /\ b.fork \in Forks
    BY <2>1 DEF Bundles
  <2>3. b.fork = forkOf'[b.height] /\ ReachedBy(b.height, final)'
    BY <2>1, <2>2, FinalStep DEF FinalBundle
  <2>4. CASE Extends(b)
    <3>1. /\ last' = b.height
          /\ committed' = [committed EXCEPT ![b.height] = b.fork]
      BY <1>3, <2>1, <2>4 DEF Mine, SubmitCheckpoint, Accepts
    <3>2. committed'[b.height] = b.fork
      BY <1>0, <2>2, <3>1 DEF TypeOK
    <3>3. \A h \in Epochs : h # b.height => committed'[h] = committed[h]
      BY <1>0, <3>1 DEF TypeOK
    <3>4. QED
      BY <1>1, <2>2, <2>3, <3>1, <3>2, <3>3, Heights DEF ActorInv
  <2>5. CASE ~Extends(b)
    <3>1. UNCHANGED <<last, committed>>
      BY <1>3, <2>1, <2>5 DEF Mine, SubmitCheckpoint, Accepts, actor
    <3>2. QED
      BY <1>0, <1>1, <3>1 DEF ActorInv
  <2>6. QED
    BY <2>4, <2>5
<1>4. QED
  BY <1>2, <1>3, Footprint
-----------------------------------------------------------------------------
(* The daemons. *)

\* A step that leaves a daemon alone keeps its part of the invariant.
LEMMA DaemonKept ==
  ASSUME Inv, [Next]_vars, NEW s \in Relayers,
         pc'[s] = pc[s], next'[s] = next[s], finalized'[s] = finalized[s],
         todo'[s] = todo[s]
  PROVE  DaemonOK(s)'
<1>1. DaemonOK(s) /\ TypeOK
  BY DEF Inv, DaemonInv
<1>2. \A i \in 1..Len(todo[s]) : todo[s][i] \in Epochs
  BY <1>1 DEF TypeOK
<1>3. final \in Nat /\ final' \in Nat /\ finalized[s] \in Nat
  BY <1>1, TypeStep DEF TypeOK
<1>4. \A i \in 1..Len(todo'[s]) : ReachedBy(todo[s][i], final)'
  <2>1. TAKE i \in 1..Len(todo'[s])
  <2>2. PICK h \in Epochs : h = todo[s][i] /\ ReachedBy(h, final)
    BY <1>1, <1>2 DEF DaemonOK
  <2>3. h = todo'[s][i] /\ ReachedBy(h, final)'
    BY <2>2, FinalStep
  <2>4. QED
    BY <2>3
<1>5. QED
  BY <1>1, <1>3, <1>4, FinalStep DEF DaemonOK

\* A daemon that goes back to sleep holds nothing.
LEMMA DaemonAsleep ==
  ASSUME Inv, [Next]_vars, NEW r \in Relayers, Sleep(r)
  PROVE  DaemonInv'
<1>1. TypeOK
  BY DEF Inv
<1>2. \A s \in Relayers \ {r} :
        /\ pc'[s] = pc[s] /\ next'[s] = next[s] /\ finalized'[s] = finalized[s]
        /\ todo'[s] = todo[s]
  BY <1>1 DEF Sleep, Enter, TypeOK
<1>3. pc'[r] = "sleep" /\ finalized'[r] = 0 /\ todo'[r] = <<>>
  BY <1>1 DEF Sleep, Enter, TypeOK
<1>4. DaemonOK(r)'
  BY <1>3 DEF DaemonOK
<1>5. QED
  BY <1>2, <1>4, DaemonKept DEF DaemonInv

\* A step of one daemon leaves the others alone.
LEMMA OneDaemon ==
  ASSUME Inv, [Next]_vars, NEW r \in Relayers, DaemonOK(r)',
         \A s \in Relayers \ {r} :
           /\ pc'[s] = pc[s] /\ next'[s] = next[s] /\ finalized'[s] = finalized[s]
           /\ todo'[s] = todo[s]
  PROVE  DaemonInv'
  BY DaemonKept DEF DaemonInv

\* Every step keeps the daemons consistent with the chain they scan.
LEMMA DaemonStep ==
  ASSUME Inv, [Next]_vars
  PROVE  DaemonInv'
<1> USE DEF child, actor, locals
<1>0. TypeOK /\ ChildInv /\ DaemonInv /\ ActorInv
  BY DEF Inv
<1>1. ASSUME NEW r \in Relayers, Wake(r) \/ CheckSubmitted(r) \/ ReadNextHeight(r)
      PROVE  DaemonInv'
  <2>1. /\ UNCHANGED <<finalized, todo, child>>
        /\ pc'[r] \notin {"bundle", "messages", "send", "receipt"}
        /\ \A s \in Relayers \ {r} : pc'[s] = pc[s] /\ next'[s] = next[s]
    BY <1>0, <1>1 DEF Wake, CheckSubmitted, ReadNextHeight, TypeOK
  <2>2. pc'[r] = "epoch" => next'[r] >= Period
    BY <1>0, <1>1, Heights DEF Wake, CheckSubmitted, ReadNextHeight, TypeOK
  <2>3. DaemonOK(r)'
    BY <1>0, <2>1, <2>2 DEF DaemonInv, DaemonOK, ReachedBy
  <2>4. QED
    BY <2>1, <2>3, OneDaemon
<1>2. ASSUME NEW r \in Relayers, ReadLastHeight(r)
      PROVE  DaemonInv'
  <2>1. /\ UNCHANGED <<finalized, next, child>>
        /\ \A s \in Relayers \ {r} : pc'[s] = pc[s] /\ todo'[s] = todo[s]
    BY <1>0, <1>2 DEF ReadLastHeight, TypeOK
  <2>2. CASE last = 0
    <3>1. pc'[r] = "nextHeight" /\ UNCHANGED todo
      BY <1>0, <1>2, <2>2 DEF ReadLastHeight, TypeOK
    <3>2. DaemonOK(r)'
      BY <1>0, <2>1, <3>1 DEF DaemonInv, DaemonOK, ReachedBy
    <3>3. QED
      BY <2>1, <3>2, OneDaemon
  <2>3. CASE last # 0
    <3>1. pc'[r] = "bundle" /\ todo'[r] = <<last>>
      BY <1>0, <1>2, <2>3 DEF ReadLastHeight, TypeOK
    <3>2. last \in Epochs /\ ReachedBy(last, final)
      BY <1>0, <2>3 DEF ActorInv, TypeOK
    <3>3. Len(todo'[r]) = 1 /\ todo'[r][1] = last /\ todo'[r] # <<>>
      BY <3>1
    <3>4. \A i \in 1..Len(todo'[r]) : ReachedBy(todo[r][i], final)'
      BY <2>1, <3>2, <3>3 DEF ReachedBy
    <3>5. finalized'[r] <= final' \/ finalized'[r] <= 1
      BY <1>0, <2>1 DEF DaemonInv, DaemonOK
    <3>6. DaemonOK(r)'
      BY <3>1, <3>3, <3>4, <3>5 DEF DaemonOK
    <3>7. QED
      BY <2>1, <3>6, OneDaemon
  <2>4. QED
    BY <2>2, <2>3
<1>3. ASSUME NEW r \in Relayers, ReadEpoch(r)
      PROVE  DaemonInv'
  <2>1. CASE Sleep(r)
    BY <2>1, DaemonAsleep
  <2>2. CASE ~Sleep(r)
    <3>1. /\ pc' = [pc EXCEPT ![r] = "events"]
          /\ finalized' = [finalized EXCEPT ![r] = FinalizedHeight(head)]
          /\ UNCHANGED <<next, todo, child>>
      BY <1>3, <2>2 DEF ReadEpoch
    <3>2. FinalizedHeight(head) <= final \/ FinalizedHeight(head) <= 1
      BY <1>0 DEF FinalizedHeight, ChildInv, TypeOK
    <3>3. pc'[r] = "events" /\ finalized'[r] = FinalizedHeight(head)
      BY <1>0, <3>1 DEF TypeOK
    <3>4. DaemonOK(r)'
      BY <1>0, <3>1, <3>2, <3>3 DEF DaemonInv, DaemonOK, ReachedBy
    <3>5. \A s \in Relayers \ {r} : pc'[s] = pc[s] /\ finalized'[s] = finalized[s]
      BY <1>0, <3>1 DEF TypeOK
    <3>6. QED
      BY <3>1, <3>4, <3>5, OneDaemon
  <2>3. QED
    BY <2>1, <2>2
<1>4. ASSUME NEW r \in Relayers, ReadEvents(r)
      PROVE  DaemonInv'
  <2>1. CASE Sleep(r)
    BY <2>1, DaemonAsleep
  <2>2. CASE ~Sleep(r) /\ EventsAt(scan[r]) = <<>>
    <3>1. UNCHANGED <<pc, next, finalized, todo, child>>
      BY <1>4, <2>2 DEF ReadEvents
    <3>2. QED
      BY <3>1, DaemonKept DEF DaemonInv
  <2>3. CASE ~Sleep(r) /\ EventsAt(scan[r]) # <<>>
    <3>1. /\ pc' = [pc EXCEPT ![r] = "bundle"]
          /\ todo' = [todo EXCEPT ![r] = EventsAt(scan[r])]
          /\ UNCHANGED <<next, finalized, scan, child>>
          /\ scan[r] <= finalized[r]
      BY <1>4, <2>3 DEF ReadEvents
    <3>2. pc'[r] = "bundle" /\ todo'[r] = EventsAt(scan[r])
      BY <1>0, <3>1 DEF TypeOK
    <3>3. PICK b \in Blocks : b = scan[r] /\ EventsAt(scan[r]) = events[b]
      BY <2>3 DEF EventsAt
    <3>4. events[b] \in Seq(Epochs) /\ events[b] # <<>>
      BY <1>0, <2>3, <3>3 DEF TypeOK
    <3>5. b <= final
      <4>1. events[b][1] \in Epochs /\ 1 \in 1..Len(events[b])
        BY <3>4
      <4>2. events[b][1] < b /\ events[b][1] > 0 /\ events[b][1] \in Nat
        BY <1>0, <4>1, Heights DEF ChildInv
      <4>3. finalized[r] <= final \/ finalized[r] <= 1
        BY <1>0 DEF DaemonInv, DaemonOK
      <4>4. QED
        BY <1>0, <3>1, <3>3, <4>2, <4>3 DEF TypeOK, Blocks
    <3>6. \A i \in 1..Len(todo'[r]) : ReachedBy(todo[r][i], final)'
      BY <3>1, <3>2, <3>3, <3>5 DEF ReachedBy
    <3>7. finalized'[r] <= final' \/ finalized'[r] <= 1
      BY <1>0, <3>1 DEF DaemonInv, DaemonOK
    <3>8. DaemonOK(r)'
      BY <3>2, <3>3, <3>4, <3>6, <3>7 DEF DaemonOK
    <3>9. \A s \in Relayers \ {r} : pc'[s] = pc[s] /\ todo'[s] = todo[s]
      BY <1>0, <3>1 DEF TypeOK
    <3>10. QED
      BY <3>1, <3>8, <3>9, OneDaemon
  <2>4. QED
    BY <2>1, <2>2, <2>3
<1>5. ASSUME NEW r \in Relayers, ReadBundle(r) \/ ReadMessages(r) \/ Send(r)
      PROVE  DaemonInv'
  <2>1. CASE Sleep(r)
    BY <2>1, DaemonAsleep
  <2>2. CASE ~Sleep(r)
    <3>1. /\ UNCHANGED <<next, finalized, todo, child>>
          /\ pc'[r] \in {"messages", "send", "receipt"}
          /\ pc[r] \in {"bundle", "messages", "send"}
          /\ \A s \in Relayers \ {r} : pc'[s] = pc[s]
      BY <1>0, <1>5, <2>2 DEF ReadBundle, ReadMessages, Send, TypeOK
    <3>2. DaemonOK(r)'
      BY <1>0, <3>1 DEF DaemonInv, DaemonOK, ReachedBy
    <3>3. QED
      BY <3>1, <3>2, OneDaemon
  <2>3. QED
    BY <2>1, <2>2
<1>6. ASSUME NEW r \in Relayers, GotReceipt(r)
      PROVE  DaemonInv'
  <2>1. /\ UNCHANGED <<next, finalized, child>>
        /\ todo' = [todo EXCEPT ![r] = Tail(todo[r])]
        /\ \A s \in Relayers \ {r} : pc'[s] = pc[s]
    BY <1>0, <1>6 DEF GotReceipt, TypeOK
  <2>2. /\ pc'[r] # "epoch"
        /\ pc'[r] \in {"bundle", "messages", "send", "receipt"} => Tail(todo[r]) # <<>>
    BY <1>0, <1>6 DEF GotReceipt, TypeOK
  <2>3. todo'[r] = Tail(todo[r]) /\ \A s \in Relayers \ {r} : todo'[s] = todo[s]
    BY <1>0, <2>1 DEF TypeOK
  <2>4. todo[r] \in Seq(Epochs) /\ todo[r] # <<>>
    BY <1>0, <1>6 DEF TypeOK, DaemonInv, DaemonOK, GotReceipt
  <2>5. \A i \in 1..Len(Tail(todo[r])) :
          i + 1 \in 1..Len(todo[r]) /\ Tail(todo[r])[i] = todo[r][i + 1]
    BY <2>4
  <2>6. \A i \in 1..Len(Tail(todo[r])) : ReachedBy(Tail(todo[r])[i], final)
    BY <1>0, <2>5 DEF DaemonInv, DaemonOK
  <2>7. \A i \in 1..Len(todo'[r]) : ReachedBy(todo[r][i], final)'
    <3>1. TAKE i \in 1..Len(todo'[r])
    <3>2. ReachedBy(Tail(todo[r])[i], final)
      BY <2>3, <2>6
    <3>3. UNCHANGED <<events, final>> /\ todo'[r][i] = Tail(todo[r])[i]
      BY <2>1, <2>3
    <3>4. QED
      BY <3>2, <3>3 DEF ReachedBy
  <2>8. finalized'[r] <= final' \/ finalized'[r] <= 1
    BY <1>0, <2>1 DEF DaemonInv, DaemonOK
  <2>9. DaemonOK(r)'
    BY <2>2, <2>3, <2>7, <2>8 DEF DaemonOK
  <2>10. QED
    BY <2>1, <2>3, <2>9, OneDaemon
<1>7. ASSUME NEW r \in Relayers, ReceiptTimeout(r) \/ Abort(r)
      PROVE  DaemonInv'
  BY <1>7, DaemonAsleep DEF ReceiptTimeout, Abort
<1>8. ASSUME NEW r \in Relayers, Mine(r) \/ DropTransaction(r)
      PROVE  DaemonInv'
  <2>1. UNCHANGED <<pc, next, finalized, todo>>
    BY <1>8 DEF Mine, DropTransaction
  <2>2. QED
    BY <2>1, DaemonKept DEF DaemonInv
<1>9. CASE NewBlock \/ Reorg \/ UNCHANGED vars
  <2>1. UNCHANGED <<pc, next, finalized, todo>>
    BY <1>9 DEF NewBlock, Reorg, vars
  <2>2. QED
    BY <2>1, DaemonKept DEF DaemonInv
<1>10. QED
  BY <1>1, <1>2, <1>3, <1>4, <1>5, <1>6, <1>7, <1>8, <1>9 DEF Next, Daemon

-----------------------------------------------------------------------------
(* What is in flight. *)

\* A final bundle stays final.
LEMMA FinalBundleStep ==
  ASSUME Inv, [Next]_vars, NEW b \in Bundles, FinalBundle(b)
  PROVE  FinalBundle(b)'
<1>1. b.height \in Epochs
  BY DEF Bundles
<1>2. QED
  BY <1>1, FinalStep DEF FinalBundle

\* Every step keeps what is fetched and what is sent final.
LEMMA BundlesStep ==
  ASSUME Inv, [Next]_vars
  PROVE  BundlesAreFinal'
<1> USE DEF child, actor, locals
<1>0. TypeOK /\ ChildInv /\ DaemonInv /\ FetchedInv /\ BundlesAreFinal
  BY DEF Inv, InFlightIsFinal
<1>1. \A b \in Bundles : FinalBundle(b) => FinalBundle(b)'
  BY FinalBundleStep
<1>2. \A s \in Relayers :
        /\ pending[s] # NoBundle => pending[s] \in Bundles /\ FinalBundle(pending[s])
        /\ bundle[s] # NoBundle => bundle[s] \in Bundles /\ FinalBundle(bundle[s])
  BY <1>0 DEF TypeOK, BundlesAreFinal
<1>3. SUFFICES \A s \in Relayers :
        /\ pending'[s] # NoBundle => \E b \in Bundles : b = pending'[s] /\ FinalBundle(b)
        /\ bundle'[s] # NoBundle => \E b \in Bundles : b = bundle'[s] /\ FinalBundle(b)
  <2>1. ASSUME NEW s \in Relayers, NEW b \in Bundles, FinalBundle(b)
        PROVE  /\ b = pending'[s] => FinalBundle(pending[s])'
               /\ b = bundle'[s] => FinalBundle(bundle[s])'
    BY <1>1, <2>1 DEF FinalBundle
  <2>2. QED
    BY <2>1 DEF BundlesAreFinal, NoBundle
<1>4. CASE UNCHANGED <<pending, bundle>>
  BY <1>2, <1>4
<1>5. ASSUME NEW r \in Relayers, Sleep(r), UNCHANGED pending
      PROVE  \A s \in Relayers :
        /\ pending'[s] # NoBundle => \E b \in Bundles : b = pending'[s] /\ FinalBundle(b)
        /\ bundle'[s] # NoBundle => \E b \in Bundles : b = bundle'[s] /\ FinalBundle(b)
  <2>1. \A s \in Relayers : bundle'[s] # NoBundle => bundle'[s] = bundle[s]
    BY <1>0, <1>5 DEF Sleep, Enter, TypeOK
  <2>2. QED
    BY <1>2, <1>5, <2>1
<1>6. ASSUME NEW r \in Relayers, ReadBundle(r)
      PROVE  \A s \in Relayers :
        /\ pending'[s] # NoBundle => \E b \in Bundles : b = pending'[s] /\ FinalBundle(b)
        /\ bundle'[s] # NoBundle => \E b \in Bundles : b = bundle'[s] /\ FinalBundle(b)
  <2> DEFINE h == Head(todo[r])
             c == [height |-> h, fork |-> forkOf[h], messages |-> NoFork,
                   certified |-> ReachedBy(h, head)]
  <2>1. bundle' = [bundle EXCEPT ![r] = c] /\ UNCHANGED pending
    BY <1>6 DEF ReadBundle
  <2>2. h \in Epochs /\ ReachedBy(h, final) /\ ReachedBy(h, head) /\ forkOf[h] \in Forks
    BY <1>6, FetchedHeight DEF ReadBundle
  <2>3. c \in Bundles /\ c.certified /\ c.fork = forkOf[c.height] /\ c.height = h
    BY <2>2 DEF Bundles
  <2> HIDE DEF c
  <2>4. FinalBundle(c)
    BY <2>2, <2>3 DEF FinalBundle
  <2>5. \A s \in Relayers : bundle'[s] = c \/ bundle'[s] = bundle[s]
    BY <1>0, <2>1 DEF TypeOK
  <2>6. QED
    BY <1>2, <2>1, <2>3, <2>4, <2>5
<1>6a. ASSUME NEW r \in Relayers, ReadMessages(r)
       PROVE  \A s \in Relayers :
        /\ pending'[s] # NoBundle => \E b \in Bundles : b = pending'[s] /\ FinalBundle(b)
        /\ bundle'[s] # NoBundle => \E b \in Bundles : b = bundle'[s] /\ FinalBundle(b)
  <2> DEFINE c == [bundle[r] EXCEPT !.messages = forkOf[bundle[r].height]]
  <2>1. bundle[r] \in Bundles /\ FinalBundle(bundle[r])
    BY <1>0, <1>2, <1>6a DEF FetchedInv, ReadMessages
  <2>2. bundle' = [bundle EXCEPT ![r] = c] /\ UNCHANGED pending
    BY <1>0, <1>6a DEF ReadMessages, TypeOK
  <2>3. forkOf[bundle[r].height] \in Forks \cup {NoFork}
    BY <1>0, <2>1, Heights DEF TypeOK, Bundles
  <2>4. /\ c \in Bundles /\ c.certified = bundle[r].certified
        /\ c.fork = bundle[r].fork /\ c.height = bundle[r].height
    BY <2>1, <2>3 DEF Bundles
  <2> HIDE DEF c
  <2>5. FinalBundle(c)
    BY <2>1, <2>4 DEF FinalBundle
  <2>6. \A s \in Relayers : bundle'[s] = c \/ bundle'[s] = bundle[s]
    BY <1>0, <2>2 DEF TypeOK
  <2>7. QED
    BY <1>2, <2>2, <2>4, <2>5, <2>6
<1>7. ASSUME NEW r \in Relayers, Send(r), ~Sleep(r)
      PROVE  \A s \in Relayers :
        /\ pending'[s] # NoBundle => \E b \in Bundles : b = pending'[s] /\ FinalBundle(b)
        /\ bundle'[s] # NoBundle => \E b \in Bundles : b = bundle'[s] /\ FinalBundle(b)
  <2>1. pending' = [pending EXCEPT ![r] = bundle[r]] /\ UNCHANGED bundle
    BY <1>7 DEF Send
  <2>2. \A s \in Relayers : pending'[s] = bundle[s] \/ pending'[s] = pending[s]
    BY <1>0, <2>1 DEF TypeOK
  <2>3. QED
    BY <1>2, <2>1, <2>2
<1>8. ASSUME NEW r \in Relayers, GotReceipt(r) \/ Mine(r) \/ DropTransaction(r)
      PROVE  \A s \in Relayers :
        /\ pending'[s] # NoBundle => \E b \in Bundles : b = pending'[s] /\ FinalBundle(b)
        /\ bundle'[s] # NoBundle => \E b \in Bundles : b = bundle'[s] /\ FinalBundle(b)
  <2>1. \A s \in Relayers :
          /\ pending'[s] # NoBundle => pending'[s] = pending[s]
          /\ bundle'[s] # NoBundle => bundle'[s] = bundle[s]
    BY <1>0, <1>8 DEF GotReceipt, Mine, DropTransaction, TypeOK
  <2>2. QED
    BY <1>2, <2>1
<1>9. ASSUME NEW r \in Relayers, ReceiptTimeout(r) \/ Abort(r)
      PROVE  Sleep(r) /\ UNCHANGED pending
  BY <1>9 DEF ReceiptTimeout, Abort
<1>10. ASSUME NEW r \in Relayers,
              Wake(r) \/ CheckSubmitted(r) \/ ReadLastHeight(r) \/ ReadNextHeight(r)
       PROVE  UNCHANGED <<pending, bundle>>
  BY <1>10 DEF Wake, CheckSubmitted, ReadLastHeight, ReadNextHeight
<1>11. ASSUME NEW r \in Relayers, ReadEpoch(r) \/ ReadEvents(r)
       PROVE  UNCHANGED pending /\ (Sleep(r) \/ UNCHANGED bundle)
  BY <1>11 DEF ReadEpoch, ReadEvents
<1>12. ASSUME NEW r \in Relayers, Send(r), Sleep(r)
       PROVE  UNCHANGED pending
  <2>1. pc'[r] = "sleep"
    BY <1>0, <1>12 DEF Sleep, Enter, TypeOK
  <2>2. pc'[r] # "receipt"
    BY <2>1
  <2>3. pc \in [Relayers -> Labels]
    BY <1>0 DEF TypeOK
  <2>4. QED
    BY <1>12, <2>2, <2>3 DEF Send
<1>13. CASE NewBlock \/ Reorg \/ UNCHANGED vars
  BY <1>4, <1>13 DEF NewBlock, Reorg, vars
<1>14. QED
  BY <1>4, <1>5, <1>6, <1>7, <1>8, <1>9, <1>10, <1>11, <1>12, <1>13,
     <1>6a DEF Next, Daemon

\* Every step keeps the messages with their checkpoint: between the two calls
\* of checkpoint_bundle_at the final block the first one read stays the same.
LEMMA MessagesStep ==
  ASSUME Inv, [Next]_vars
  PROVE  FetchedInv' /\ MessagesMatch'
<1> USE DEF child, actor, locals
<1>0. TypeOK /\ FetchedInv /\ BundlesAreFinal /\ MessagesMatch
  BY DEF Inv, InFlightIsFinal
<1>1. ASSUME NEW r \in Relayers, Sleep(r), UNCHANGED pending
      PROVE  FetchedInv' /\ MessagesMatch'
  <2>1. pc'[r] = "sleep" /\ bundle'[r] = NoBundle
    BY <1>0, <1>1 DEF Sleep, Enter, TypeOK
  <2>2. \A s \in Relayers \ {r} : pc'[s] = pc[s] /\ bundle'[s] = bundle[s]
    BY <1>0, <1>1 DEF Sleep, Enter, TypeOK
  <2>3. QED
    BY <1>0, <1>1, <2>1, <2>2 DEF FetchedInv, MessagesMatch
<1>2. ASSUME NEW r \in Relayers, pc[r] # "messages", pc'[r] # "messages",
             \A s \in Relayers \ {r} : pc'[s] = pc[s], UNCHANGED <<pending, bundle>>
      PROVE  FetchedInv' /\ MessagesMatch'
  BY <1>0, <1>2 DEF FetchedInv, MessagesMatch
<1>3. ASSUME NEW r \in Relayers,
             Wake(r) \/ CheckSubmitted(r) \/ ReadLastHeight(r) \/ ReadNextHeight(r)
      PROVE  FetchedInv' /\ MessagesMatch'
  <2>1. /\ pc[r] # "messages" /\ pc'[r] # "messages" /\ UNCHANGED <<pending, bundle>>
        /\ \A s \in Relayers \ {r} : pc'[s] = pc[s]
    BY <1>0, <1>3 DEF Wake, CheckSubmitted, ReadLastHeight, ReadNextHeight, TypeOK
  <2>2. QED
    BY <1>2, <2>1
<1>4. ASSUME NEW r \in Relayers, ReadEpoch(r) \/ ReadEvents(r), ~Sleep(r)
      PROVE  FetchedInv' /\ MessagesMatch'
  <2>1. /\ pc[r] # "messages" /\ pc'[r] # "messages" /\ UNCHANGED <<pending, bundle>>
        /\ \A s \in Relayers \ {r} : pc'[s] = pc[s]
    BY <1>0, <1>4 DEF ReadEpoch, ReadEvents, TypeOK
  <2>2. QED
    BY <1>2, <2>1
<1>5. ASSUME NEW r \in Relayers, ReadBundle(r)
      PROVE  FetchedInv' /\ MessagesMatch'
  <2>1. pc'[r] = "messages" /\ UNCHANGED pending
    BY <1>0, <1>5 DEF ReadBundle, TypeOK
  <2>2. bundle'[r].height = Head(todo[r])
    BY <1>0, <1>5 DEF ReadBundle, TypeOK
  <2>3. Head(todo[r]) \in Epochs
    BY <1>5, FetchedHeight DEF ReadBundle
  <2>4. bundle'[r] # NoBundle
    BY <2>2, <2>3, Heights DEF NoBundle
  <2>5. \A s \in Relayers \ {r} : pc'[s] = pc[s] /\ bundle'[s] = bundle[s]
    BY <1>0, <1>5 DEF ReadBundle, TypeOK
  <2>6. QED
    BY <1>0, <2>1, <2>4, <2>5 DEF FetchedInv, MessagesMatch
<1>6. ASSUME NEW r \in Relayers, ReadMessages(r)
      PROVE  FetchedInv' /\ MessagesMatch'
  <2>1. pc'[r] = "send" /\ UNCHANGED pending
    BY <1>0, <1>6 DEF ReadMessages, TypeOK
  <2>2. bundle[r] \in Bundles /\ FinalBundle(bundle[r])
    BY <1>0, <1>6 DEF FetchedInv, BundlesAreFinal, TypeOK, ReadMessages
  <2>3. bundle'[r] = [bundle[r] EXCEPT !.messages = forkOf[bundle[r].height]]
    BY <1>0, <1>6 DEF ReadMessages, TypeOK
  <2>4. bundle'[r].messages = forkOf[bundle[r].height] /\ bundle'[r].fork = bundle[r].fork
    BY <2>2, <2>3 DEF Bundles
  <2>5. bundle'[r].messages = bundle'[r].fork
    BY <2>2, <2>4 DEF FinalBundle
  <2>6. \A s \in Relayers \ {r} : pc'[s] = pc[s] /\ bundle'[s] = bundle[s]
    BY <1>0, <1>6 DEF ReadMessages, TypeOK
  <2>7. QED
    BY <1>0, <2>1, <2>5, <2>6 DEF FetchedInv, MessagesMatch
<1>7. ASSUME NEW r \in Relayers, Send(r), pc'[r] = "receipt"
      PROVE  FetchedInv' /\ MessagesMatch'
  <2>1. pending' = [pending EXCEPT ![r] = bundle[r]] /\ UNCHANGED bundle /\ pc[r] = "send"
    BY <1>0, <1>7 DEF Send, Sleep, Enter, TypeOK
  <2>2. /\ pending'[r] = bundle[r]
        /\ \A s \in Relayers \ {r} : pc'[s] = pc[s] /\ pending'[s] = pending[s]
    BY <1>0, <1>7, <2>1 DEF Send, Sleep, Enter, TypeOK
  <2>3. QED
    BY <1>0, <1>7, <2>1, <2>2 DEF FetchedInv, MessagesMatch
<1>8. ASSUME NEW r \in Relayers, Send(r), pc'[r] # "receipt"
      PROVE  Sleep(r) /\ UNCHANGED pending
  BY <1>0, <1>8 DEF Send, TypeOK
<1>9. ASSUME NEW r \in Relayers, GotReceipt(r)
      PROVE  FetchedInv' /\ MessagesMatch'
  <2>1. pc'[r] # "messages" /\ bundle'[r] = NoBundle /\ UNCHANGED pending
    BY <1>0, <1>9 DEF GotReceipt, TypeOK
  <2>2. \A s \in Relayers \ {r} : pc'[s] = pc[s] /\ bundle'[s] = bundle[s]
    BY <1>0, <1>9 DEF GotReceipt, TypeOK
  <2>3. QED
    BY <1>0, <2>1, <2>2 DEF FetchedInv, MessagesMatch
<1>10. ASSUME NEW r \in Relayers, Mine(r) \/ DropTransaction(r)
       PROVE  FetchedInv' /\ MessagesMatch'
  <2>1. UNCHANGED <<pc, bundle>>
    BY <1>10 DEF Mine, DropTransaction
  <2>2. \A s \in Relayers : pending'[s] # NoBundle => pending'[s] = pending[s]
    BY <1>0, <1>10 DEF Mine, DropTransaction, TypeOK
  <2>3. QED
    BY <1>0, <2>1, <2>2 DEF FetchedInv, MessagesMatch
<1>11. ASSUME NEW r \in Relayers, ReceiptTimeout(r) \/ Abort(r)
       PROVE  Sleep(r) /\ UNCHANGED pending
  BY <1>11 DEF ReceiptTimeout, Abort
<1>12. ASSUME NEW r \in Relayers, ReadEpoch(r) \/ ReadEvents(r)
       PROVE  UNCHANGED pending
  BY <1>12 DEF ReadEpoch, ReadEvents
<1>13. CASE NewBlock \/ Reorg \/ UNCHANGED vars
  <2>1. UNCHANGED <<pc, bundle, pending>>
    BY <1>13 DEF NewBlock, Reorg, vars
  <2>2. QED
    BY <1>0, <2>1 DEF FetchedInv, MessagesMatch
<1>14. QED
  BY <1>1, <1>3, <1>4, <1>5, <1>6, <1>7, <1>8, <1>9, <1>10, <1>11, <1>12, <1>13
     DEF Next, Daemon

-----------------------------------------------------------------------------
(* The theorems. *)

\* The invariant holds initially.
LEMMA InitInv == Init => Inv
<1> SUFFICES ASSUME Init PROVE Inv
  OBVIOUS
<1>1. <<>> \in Seq(Epochs) /\ Len(<<>>) = 0
  OBVIOUS
<1>2. TypeOK
  BY <1>1 DEF Init, TypeOK, Forks, Labels
<1>3. ChildInv
  BY <1>1 DEF Init, ChildInv, Blocks
<1>4. DaemonInv
  <2>1. \A r \in Relayers : pc[r] = "sleep" /\ finalized[r] = 0 /\ todo[r] = <<>>
    BY DEF Init
  <2>2. ASSUME NEW r \in Relayers
        PROVE  DaemonOK(r)
    <3>1. pc[r] # "epoch" /\ pc[r] \notin {"bundle", "messages", "send", "receipt"} /\ finalized[r] <= 1
      BY <2>1
    <3>2. 1..Len(todo[r]) = {}
      BY <1>1, <2>1
    <3>3. QED
      BY <3>1, <3>2 DEF DaemonOK
  <2>3. QED
    BY <2>2 DEF DaemonInv
<1>5. FetchedInv /\ InFlightIsFinal /\ ActorInv
  BY DEF Init, FetchedInv, InFlightIsFinal, BundlesAreFinal, MessagesMatch, ActorInv
<1>6. QED
  BY <1>2, <1>3, <1>4, <1>5 DEF Inv

\* Inv is an invariant of the specification.
THEOREM Invariance == Spec => []Inv
<1>1. Inv /\ [Next]_vars => Inv'
  BY TypeStep, ChildStep, DaemonStep, BundlesStep, MessagesStep, ActorStep
     DEF Inv, InFlightIsFinal
<1>2. QED
  BY <1>1, InitInv, PTL DEF Spec

\* The daemons, the subnet actor and the chains keep their types.
THEOREM TypeCorrect == Spec => []TypeOK
<1>1. Inv => TypeOK
  BY DEF Inv
<1>2. QED
  BY <1>1, Invariance, PTL

\* Whatever the interleaving of relayers, reorganisations, failures and
\* restarts, a relayer only ever sends checkpoints that are final and certified.
THEOREM RelayersSendFinalCheckpoints == Spec => []InFlightIsFinal
<1>1. Inv => InFlightIsFinal
  BY DEF Inv
<1>2. QED
  BY <1>1, Invariance, PTL

\* A step of the child chain only adds finally certified checkpoints.
LEMMA ChildStepRefines ==
  ASSUME Inv, NewBlock \/ Reorg
  PROVE  Log!Certify
<1>0. TypeOK /\ ChildInv /\ [Next]_vars
  BY DEF Inv, Next
<1>1. TypeOK'
  BY <1>0, TypeStep
<1>2. Certified' \in [Epochs -> Forks \cup {NoFork}]
  BY <1>1, Heights DEF Certified, TypeOK
<1>3. \A h \in Epochs : Certified[h] # NoFork => Certified'[h] = Certified[h]
  <2>1. TAKE h \in Epochs
  <2>2. HAVE Certified[h] # NoFork
  <2>3. ReachedBy(h, final)
    BY <2>2 DEF Certified
  <2>4. ReachedBy(h, final)' /\ forkOf'[h] = forkOf[h]
    BY <1>0, <2>3, FinalStep
  <2>5. QED
    BY <2>3, <2>4 DEF Certified
<1>4. UNCHANGED <<last, committed, rewarded>>
  BY DEF NewBlock, Reorg, actor
<1>5. QED
  BY <1>2, <1>3, <1>4 DEF Log!Certify

\* Mining a submission commits the next final checkpoint, credits a submitter
\* of the newest one, or changes nothing.
LEMMA MineRefines ==
  ASSUME Inv, NEW r \in Relayers, Mine(r)
  PROVE  Log!Commit(r) \/ Log!Credit(r) \/ UNCHANGED Log!logVars
<1>1. PICK b \in Bundles : b = pending[r] /\ FinalBundle(b)
  BY DEF Inv, TypeOK, InFlightIsFinal, BundlesAreFinal, Mine
<1>2. b.height \in Epochs /\ b.fork \in Forks
  BY <1>1 DEF Bundles
<1>3. Certified' = Certified
  BY DEF Mine, child, Certified, ReachedBy
<1>4. SubmitCheckpoint(r, b)
  BY <1>1 DEF Mine
<1>5. CASE Extends(b)
  <2>1. b.height = last + Period
    BY <1>5 DEF Extends
  <2>2. Certified[last + Period] = b.fork /\ b.fork # NoFork
    BY <1>1, <1>2, <2>1, Heights DEF Certified, FinalBundle
  <2>3. /\ last' = last + Period
        /\ committed' = [committed EXCEPT ![last + Period] = Certified[last + Period]]
        /\ rewarded' = [rewarded EXCEPT ![last + Period] = {r}]
    BY <1>4, <1>5, <2>1, <2>2 DEF SubmitCheckpoint, Accepts
  <2>4. QED
    BY <1>2, <1>3, <2>1, <2>2, <2>3 DEF Log!Commit
<1>6. CASE ~Extends(b) /\ Repeats(b)
  <2>1. b.height = last /\ last # 0
    BY <1>6 DEF Repeats
  <2>2. /\ rewarded' = [rewarded EXCEPT ![last] = rewarded[last] \cup {r}]
        /\ UNCHANGED <<last, committed>>
    BY <1>4, <1>6, <2>1 DEF SubmitCheckpoint, Accepts
  <2>3. QED
    BY <1>3, <2>1, <2>2 DEF Log!Credit
<1>7. CASE ~Accepts(b)
  BY <1>3, <1>4, <1>7 DEF SubmitCheckpoint, Accepts, actor, Log!logVars
<1>8. QED
  BY <1>5, <1>6, <1>7 DEF Accepts

\* The relayers implement the checkpoint log: the parent always holds a
\* gap-free prefix of the child's final certified checkpoints.
THEOREM RelayersImplementLog == Spec => ImplementsLog
<1>1. Init => Log!Init
  <2> SUFFICES ASSUME Init PROVE Log!Init
    OBVIOUS
  <2>1. Certified = [h \in Epochs |-> NoFork]
    BY DEF Init, Certified, ReachedBy
  <2>2. QED
    BY <2>1 DEF Init, Log!Init
<1>2. Inv /\ [Next]_vars => [Log!Next]_(Log!logVars)
  <2> SUFFICES ASSUME Inv, [Next]_vars PROVE [Log!Next]_(Log!logVars)
    OBVIOUS
  <2>1. CASE NewBlock \/ Reorg
    BY <2>1, ChildStepRefines DEF Log!Next
  <2>2. ASSUME NEW r \in Relayers, Mine(r)
        PROVE  [Log!Next]_(Log!logVars)
    BY <2>2, MineRefines DEF Log!Next
  <2>3. CASE UNCHANGED child /\ UNCHANGED actor
    BY <2>3 DEF child, actor, Certified, ReachedBy, Log!logVars
  <2>4. QED
    BY <2>1, <2>2, <2>3, Footprint
<1>3. QED
  BY <1>1, <1>2, Invariance, PTL DEF Spec, ImplementsLog, Log!Spec
-----------------------------------------------------------------------------
(* Submissions, when every quorum comes before the next checkpoint is cut. *)

Timely == QuorumDelay > 0 /\ QuorumDelay <= Period

\* The quorum of a checkpoint comes before the next checkpoint: a block has one
\* at most, and a checkpoint whose time is over has its quorum.
QuorumInv ==
  /\ \A b \in Blocks :
       /\ Len(events[b]) <= 1
       /\ \A i \in 1..Len(events[b]) : b <= events[b][i] + QuorumDelay
  /\ \A h \in Epochs : h + QuorumDelay <= head => ReachedBy(h, h + QuorumDelay)

Working == {"bundle", "messages", "send", "receipt"}

\* What a daemon holds is not beyond the next checkpoint, and the transaction
\* it waits for is its own.
HeldInv(r) ==
  /\ pending[r] # NoBundle => pending[r].height <= last + Period
  /\ bundle[r] # NoBundle => bundle[r].height <= last + Period
  /\ pc[r] \in {"messages", "send", "receipt"} => bundle[r] # NoBundle /\ bundle[r].height = todo[r][1]
  /\ pc[r] = "receipt" => pending[r] \in {NoBundle, bundle[r]}
  /\ receipt[r] # "none" => pc[r] = "receipt" /\ bundle[r].height <= last
  /\ pc[r] \in Working /\ phase[r] = "last" => \A i \in 1..Len(todo[r]) : todo[r][i] <= last

\* What a daemon has scanned is committed.
ScanInv(r) ==
  /\ phase[r] = "next" => pc[r] \in Working \cup {"epoch", "events"} /\ next[r] <= last + Period
  /\ pc[r] \in {"epoch", "events"} => phase[r] = "next"
  /\ phase[r] = "next" /\ pc[r] # "epoch" =>
       /\ scan[r] <= finalized[r] + 1
       /\ \A b \in Blocks : next[r] < b + Period /\ b < scan[r] =>
            \A i \in 1..Len(events[b]) : events[b][i] <= last
       /\ pc[r] \in Working => scan[r] <= finalized[r] /\ scan[r] \in Blocks /\ todo[r] = events[scan[r]]

TimelyInv == QuorumInv /\ \A r \in Relayers : HeldInv(r) /\ ScanInv(r)

\* Two checkpoint heights are a period apart, and so is each from the one before.
LEMMA EpochsApart ==
  /\ \A g \in Epochs \cup {0}, h \in Epochs : g < h => g + Period <= h
  /\ \A h \in Epochs : h - Period \in Epochs \cup {0}
<1>1. \A x \in Nat : x % Period = 0 => x \div Period \in Nat /\ x = Period * (x \div Period)
  <2> SUFFICES ASSUME NEW P \in Nat \ {0}, NEW x \in Nat, x % P = 0
               PROVE  x \div P \in Nat /\ x = P * (x \div P)
    OBVIOUS
  <2> QED
    OBVIOUS
<1>2. \A x, y \in Nat : x % Period = 0 /\ y % Period = 0 /\ x < y => x + Period <= y
  <2>1. \A P \in Nat \ {0}, p, q \in Nat : P * p < P * q => P * p + P <= P * q
    <3> SUFFICES ASSUME NEW P \in Nat \ {0}, NEW p \in Nat, NEW q \in Nat, P * p < P * q
                 PROVE  P * p + P <= P * q
      OBVIOUS
    <3>1. p < q
      OBVIOUS
    <3> QED
      BY <3>1
  <2> SUFFICES ASSUME NEW x \in Nat, NEW y \in Nat, x % Period = 0, y % Period = 0, x < y
               PROVE  x + Period <= y
    OBVIOUS
  <2>2. PICK p \in Nat : x = Period * p
    BY <1>1
  <2>3. PICK q \in Nat : y = Period * q
    BY <1>1
  <2>4. Period * p < Period * q
    BY <2>2, <2>3
  <2>5. Period * p + Period <= Period * q
    BY <2>1, <2>4
  <2> QED
    BY <2>2, <2>3, <2>5
<1>3. \A x \in Nat : x % Period = 0 /\ x >= Period => (x - Period) % Period = 0
  <2>1. \A P \in Nat \ {0}, q \in Nat : (P * q) % P = 0
    OBVIOUS
  <2>2. \A P \in Nat \ {0}, q \in Nat : P * q >= P => q - 1 \in Nat /\ P * q - P = P * (q - 1)
    OBVIOUS
  <2> SUFFICES ASSUME NEW x \in Nat, x % Period = 0, x >= Period
               PROVE  (x - Period) % Period = 0
    OBVIOUS
  <2>3. PICK q \in Nat : x = Period * q
    BY <1>1
  <2>4. q - 1 \in Nat /\ x - Period = Period * (q - 1)
    BY <2>2, <2>3
  <2>5. (Period * (q - 1)) % Period = 0
    BY <2>1, <2>4
  <2> QED
    BY <2>4, <2>5
<1>4. ASSUME NEW g \in Epochs \cup {0}, NEW h \in Epochs, g < h
      PROVE  g + Period <= h
  <2>1. g \in Nat /\ g % Period = 0 /\ h \in Nat /\ h % Period = 0
    BY DEF Epochs, Blocks
  <2> QED
    BY <1>2, <1>4, <2>1
<1>5. ASSUME NEW h \in Epochs
      PROVE  h - Period \in Epochs \cup {0}
  <2>1. h \in Nat /\ h > 0 /\ h % Period = 0 /\ h <= MaxHeight
    BY DEF Epochs, Blocks
  <2>2. Period <= h
    BY <1>4, <2>1
  <2>3. (h - Period) % Period = 0
    BY <1>3, <2>1, <2>2
  <2> QED
    BY <2>1, <2>2, <2>3 DEF Epochs, Blocks
<1> QED
  BY <1>4, <1>5

\* A block completes one quorum at most.
LEMMA OneQuorum ==
  ASSUME Timely, NEW b \in Nat, NEW log \in QuorumLogs(b)
  PROVE  /\ Len(log) <= 1
         /\ \A i \in 1..Len(log) : b <= log[i] + QuorumDelay
<1>1. /\ log \in {<<>>} \cup {<<h>> : h \in NewQuorums(b)}
                        \cup {<<g, h>> : g, h \in NewQuorums(b)}
      /\ \A i, j \in 1..Len(log) : i # j => log[i] # log[j]
  BY DEF QuorumLogs
<1>2. \A h \in NewQuorums(b) : h \in Epochs /\ h \in Nat /\ h < b /\ b <= h + QuorumDelay
  BY Heights DEF NewQuorums
<1>3. CASE log = <<>>
  BY <1>3
<1>4. ASSUME NEW h \in NewQuorums(b), log = <<h>>
      PROVE  Len(log) <= 1 /\ \A i \in 1..Len(log) : b <= log[i] + QuorumDelay
  BY <1>2, <1>4
<1>5. ASSUME NEW g \in NewQuorums(b), NEW h \in NewQuorums(b), log = <<g, h>>
      PROVE  FALSE
  <2>1. log[1] = g /\ log[2] = h /\ 1 \in 1..Len(log) /\ 2 \in 1..Len(log)
    BY <1>5
  <2>2. g # h
    BY <1>1, <2>1
  <2>3. g < h => g + Period <= h
    BY <1>2, EpochsApart
  <2>4. h < g => h + Period <= g
    BY <1>2, EpochsApart
  <2> QED
    BY <1>2, <2>2, <2>3, <2>4 DEF Timely
<1> QED
  BY <1>1, <1>3, <1>4, <1>5

\* A quorum that was reached stays reached while its block does.
LEMMA ReachedKept ==
  ASSUME NEW h, NEW n \in Nat, ReachedBy(h, n),
         \A b \in Blocks : b <= n => events'[b] = events[b]
  PROVE  \E b \in Blocks : b <= n /\ \E i \in 1..Len(events'[b]) : events'[b][i] = h
BY DEF ReachedBy

\* Every step keeps the quorums in time.
LEMMA QuorumStep ==
  ASSUME Timely, Inv, QuorumInv, [Next]_vars
  PROVE  QuorumInv'
<1>1. /\ head \in Nat /\ final \in Nat /\ final <= head /\ head <= MaxHeight
      /\ events \in [Blocks -> Seq(Epochs)]
  BY DEF Inv, TypeOK, ChildInv
<1>2. CASE NewBlock
  <2>1. PICK log \in QuorumLogs(head + 1) : events' = [events EXCEPT ![head + 1] = log]
    BY <1>2 DEF NewBlock
  <2>2. /\ head' = head + 1 /\ head + 1 \in Blocks
        /\ \A b \in Blocks : events'[b] = IF b = head + 1 THEN log ELSE events[b]
    BY <1>1, <1>2, <2>1 DEF NewBlock, Blocks
  <2>3. /\ Len(log) <= 1
        /\ \A i \in 1..Len(log) : head + 1 <= log[i] + QuorumDelay
    BY <1>1, OneQuorum
  <2>4. \A b \in Blocks :
          /\ Len(events'[b]) <= 1
          /\ \A i \in 1..Len(events'[b]) : b <= events'[b][i] + QuorumDelay
    BY <2>2, <2>3 DEF QuorumInv
  <2>5. ASSUME NEW h \in Epochs, h + QuorumDelay <= head'
        PROVE  ReachedBy(h, h + QuorumDelay)'
    <3>1. h \in Nat /\ h + QuorumDelay \in Nat
      BY Heights
    <3>2. CASE h + QuorumDelay <= head
      <4>1. ReachedBy(h, h + QuorumDelay)
        BY <3>2 DEF QuorumInv
      <4>2. \A b \in Blocks : b <= h + QuorumDelay => events'[b] = events[b]
        BY <1>1, <2>2, <3>1, <3>2 DEF Blocks
      <4> QED
        BY <3>1, <4>1, <4>2, ReachedKept DEF ReachedBy
    <3>3. CASE h + QuorumDelay = head + 1
      <4>1. CASE ReachedBy(h, head)
        <5>1. \A b \in Blocks : b <= head => events'[b] = events[b] /\ b <= h + QuorumDelay
          BY <1>1, <2>2, <3>1, <3>3 DEF Blocks
        <5>2. \E b \in Blocks : b <= head /\ \E i \in 1..Len(events'[b]) : events'[b][i] = h
          BY <1>1, <4>1, <5>1, ReachedKept
        <5> QED
          BY <5>1, <5>2 DEF ReachedBy
      <4>2. CASE ~ReachedBy(h, head)
        <5>1. h \in NewQuorums(head + 1) /\ head + 1 = h + QuorumDelay
          BY <1>1, <3>1, <3>3, <4>2 DEF NewQuorums, Timely
        <5>2. Logged(log, h)
          BY <5>1 DEF QuorumLogs
        <5>3. head + 1 <= h + QuorumDelay /\ events'[head + 1] = log
          BY <1>1, <2>2, <3>1, <3>3
        <5> QED
          BY <2>2, <5>2, <5>3 DEF ReachedBy, Logged
      <4> QED
        BY <4>1, <4>2
    <3> QED
      BY <1>1, <2>2, <2>5, <3>1, <3>2, <3>3
  <2> QED
    BY <2>4, <2>5 DEF QuorumInv
<1>3. CASE Reorg
  <2>1. PICK to \in final..(head - 1) :
          /\ head' = to
          /\ events' = [b \in Blocks |-> IF b <= to THEN events[b] ELSE <<>>]
    BY <1>3 DEF Reorg
  <2>2. to \in Nat /\ to < head
    BY <1>1
  <2>3. \A b \in Blocks :
          /\ Len(events'[b]) <= 1
          /\ \A i \in 1..Len(events'[b]) : b <= events'[b][i] + QuorumDelay
    BY <2>1 DEF QuorumInv
  <2>4. ASSUME NEW h \in Epochs, h + QuorumDelay <= head'
        PROVE  ReachedBy(h, h + QuorumDelay)'
    <3>1. h + QuorumDelay \in Nat /\ h + QuorumDelay <= head
      BY <1>1, <2>1, <2>2, <2>4, Heights
    <3>2. \A b \in Blocks : b <= h + QuorumDelay => events'[b] = events[b]
      BY <2>1, <2>2, <2>4, <3>1 DEF Blocks
    <3>3. ReachedBy(h, h + QuorumDelay)
      BY <3>1 DEF QuorumInv
    <3> QED
      BY <3>1, <3>2, <3>3, ReachedKept DEF ReachedBy
  <2> QED
    BY <2>3, <2>4 DEF QuorumInv
<1>4. CASE UNCHANGED child
  BY <1>4 DEF QuorumInv, child, ReachedBy
<1> QED
  BY <1>2, <1>3, <1>4, Footprint

\* The types that the steps below use.
LEMMA RelayerTypes ==
  ASSUME Inv, NEW r \in Relayers
  PROVE  /\ last \in Nat /\ last \in Epochs \cup {0}
         /\ pending[r] \in Bundles \cup {NoBundle} /\ pending[r].height \in Nat
         /\ bundle[r] \in Bundles \cup {NoBundle} /\ bundle[r].height \in Nat
         /\ next[r] \in Nat /\ finalized[r] \in Nat /\ scan[r] \in Nat
         /\ todo[r] \in Seq(Epochs) /\ Len(todo[r]) \in Nat
         /\ \A i \in 1..Len(todo[r]) : todo[r][i] \in Epochs /\ todo[r][i] \in Nat
<1>1. /\ pending[r] \in Bundles \cup {NoBundle} /\ bundle[r] \in Bundles \cup {NoBundle}
      /\ next[r] \in Nat /\ finalized[r] \in Nat /\ scan[r] \in Nat /\ todo[r] \in Seq(Epochs)
      /\ last \in Epochs \cup {0}
  BY DEF Inv, TypeOK
<1>2. \A b \in Bundles \cup {NoBundle} : b.height \in Nat
  BY Heights DEF Bundles, NoBundle
<1> QED
  BY <1>1, <1>2, Heights

\* The log only grows.
LEMMA LastStep ==
  ASSUME Inv, [Next]_vars
  PROVE  last' >= last /\ last \in Nat /\ last' \in Nat
<1>1. last \in Nat /\ last' \in Nat
  BY TypeStep, Heights DEF Inv, TypeOK
<1>2. CASE UNCHANGED actor
  BY <1>1, <1>2 DEF actor
<1>3. ASSUME NEW r \in Relayers, Mine(r)
      PROVE  last' >= last
  BY <1>1, <1>3 DEF Mine, SubmitCheckpoint, Extends, actor
<1> QED
  BY <1>1, <1>2, <1>3, Footprint

\* The events of the blocks that a daemon scans do not change.
LEMMA ScannedBlocks ==
  ASSUME Inv, [Next]_vars, NEW r \in Relayers, NEW b \in Blocks, b <= finalized[r]
  PROVE  events'[b] = events[b]
<1>1. /\ finalized[r] \in Nat /\ final \in Nat /\ head \in Nat /\ final <= head /\ b \in Nat /\ b >= 1
      /\ finalized[r] <= final \/ finalized[r] <= 1
      /\ events \in [Blocks -> Seq(Epochs)]
  BY DEF Inv, TypeOK, ChildInv, DaemonInv, DaemonOK, Blocks
<1>2. CASE UNCHANGED child
  BY <1>2 DEF child
<1>3. CASE (NewBlock \/ Reorg) /\ b <= final
  <2>1. CASE NewBlock
    <3>1. \E log : events' = [events EXCEPT ![head + 1] = log]
      BY <2>1 DEF NewBlock
    <3> QED
      BY <1>1, <1>3, <3>1
  <2>2. CASE Reorg
    <3>1. PICK to \in final..(head - 1) :
            events' = [c \in Blocks |-> IF c <= to THEN events[c] ELSE <<>>]
      BY <2>2 DEF Reorg
    <3> QED
      BY <1>1, <1>3, <3>1
  <2> QED
    BY <1>3, <2>1, <2>2
<1>4. CASE b = 1
  <2>1. ChildInv' /\ ChildInv /\ TypeOK' /\ TypeOK
    BY ChildStep, TypeStep DEF Inv
  <2>2. /\ events[b] \in Seq(Epochs) /\ events'[b] \in Seq(Epochs)
        /\ \A i \in 1..Len(events[b]) : events[b][i] < 1
        /\ \A i \in 1..Len(events'[b]) : events'[b][i] < 1
    BY <1>4, <2>1 DEF TypeOK, ChildInv
  <2>3. \A log \in Seq(Epochs) : (\A i \in 1..Len(log) : log[i] < 1) => log = <<>>
    <3> SUFFICES ASSUME NEW log \in Seq(Epochs), \A i \in 1..Len(log) : log[i] < 1
                 PROVE  log = <<>>
      OBVIOUS
    <3>1. ASSUME log # <<>> PROVE FALSE
      <4>1. 1 \in 1..Len(log) /\ log[1] \in Epochs
        BY <3>1
      <4>2. log[1] < 1 /\ log[1] \in Nat /\ log[1] > 0
        BY <4>1, Heights
      <4> QED
        BY <4>2
    <3> QED
      BY <3>1
  <2> QED
    BY <2>2, <2>3
<1> QED
  BY <1>1, <1>2, <1>3, <1>4, Footprint

\* A step that leaves a daemon and its transaction alone.
Idle(s) ==
  /\ pc'[s] = pc[s] /\ phase'[s] = phase[s] /\ next'[s] = next[s] /\ finalized'[s] = finalized[s]
  /\ scan'[s] = scan[s] /\ todo'[s] = todo[s] /\ bundle'[s] = bundle[s]
  /\ pending'[s] = pending[s] /\ receipt'[s] = receipt[s]

\* What an idle daemon holds stays within reach of the log, which only grows.
LEMMA IdleHeld ==
  ASSUME Inv, [Next]_vars, NEW s \in Relayers, Idle(s), HeldInv(s)
  PROVE  HeldInv(s)'
<1>1. last' >= last /\ last \in Nat /\ last' \in Nat
  BY LastStep
<1>2. /\ pending[s].height \in Nat /\ bundle[s].height \in Nat
      /\ \A i \in 1..Len(todo[s]) : todo[s][i] \in Nat
  BY RelayerTypes
<1>3. ASSUME NEW x \in Nat
      PROVE  (x <= last => x <= last') /\ (x <= last + Period => x <= last' + Period)
  <2>1. \A l, m, p \in Nat : m >= l /\ x <= l + p => x <= m + p
    OBVIOUS
  <2>2. x <= last => x <= last'
    BY <1>1
  <2>3. x <= last + Period => x <= last' + Period
    BY <1>1, <2>1
  <2> QED
    BY <2>2, <2>3
<1> QED
  BY <1>2, <1>3 DEF Idle, HeldInv

\* What an idle daemon has scanned stays committed.
LEMMA IdleScan ==
  ASSUME Inv, [Next]_vars, NEW s \in Relayers, ScanInv(s),
         pc'[s] = pc[s], phase'[s] = phase[s], next'[s] = next[s], finalized'[s] = finalized[s],
         scan'[s] = scan[s], todo'[s] = todo[s]
  PROVE  ScanInv(s)'
<1>1. last' >= last /\ last \in Nat /\ last' \in Nat
  BY LastStep
<1>2. next[s] \in Nat /\ finalized[s] \in Nat /\ scan[s] \in Nat
  BY RelayerTypes
<1>3. CASE phase[s] # "next" \/ pc[s] = "epoch"
  BY <1>1, <1>2, <1>3 DEF ScanInv
<1>4. CASE phase[s] = "next" /\ pc[s] # "epoch"
  <2>1. /\ scan[s] <= finalized[s] + 1
        /\ \A b \in Blocks : next[s] < b + Period /\ b < scan[s] =>
             \A i \in 1..Len(events[b]) : events[b][i] <= last
        /\ pc[s] \in Working => scan[s] <= finalized[s] /\ scan[s] \in Blocks /\ todo[s] = events[scan[s]]
    BY <1>4 DEF ScanInv
  <2>2. \A b \in Blocks : b <= finalized[s] => events'[b] = events[b]
    BY ScannedBlocks
  <2>3. \A b \in Blocks : next[s] < b + Period /\ b < scan[s] =>
          \A i \in 1..Len(events'[b]) : events'[b][i] <= last'
    <3> SUFFICES ASSUME NEW b \in Blocks, next[s] < b + Period, b < scan[s],
                        NEW i \in 1..Len(events'[b])
                 PROVE  events'[b][i] <= last'
      OBVIOUS
    <3>1. b <= finalized[s]
      BY <1>2, <2>1 DEF Blocks
    <3>2. events'[b] = events[b] /\ events[b] \in Seq(Epochs)
      BY <2>2, <3>1 DEF Inv, TypeOK
    <3>3. events[b][i] \in Epochs /\ events[b][i] <= last
      BY <2>1, <3>2
    <3>4. events[b][i] \in Nat
      BY <3>3, Heights
    <3> QED
      BY <1>1, <3>2, <3>3, <3>4
  <2>4. pc[s] \in Working => scan[s] <= finalized[s] /\ scan[s] \in Blocks /\ todo[s] = events'[scan[s]]
    BY <2>1, <2>2
  <2>5. next[s] <= last' + Period /\ pc[s] \in Working \cup {"epoch", "events"}
    BY <1>1, <1>2, <1>4 DEF ScanInv
  <2> QED
    BY <1>4, <2>1, <2>3, <2>4, <2>5 DEF ScanInv
<1> QED
  BY <1>3, <1>4

\* A daemon that goes to sleep holds nothing but its transaction.
LEMMA AsleepHeld ==
  ASSUME Inv, [Next]_vars, NEW r \in Relayers, HeldInv(r), Sleep(r), UNCHANGED pending
  PROVE  HeldInv(r)' /\ ScanInv(r)' /\ \A s \in Relayers \ {r} : Idle(s)
<1>1. TypeOK /\ last' >= last /\ last \in Nat /\ last' \in Nat /\ pending[r].height \in Nat
  BY LastStep, RelayerTypes DEF Inv
<1>2. /\ pc'[r] = "sleep" /\ phase'[r] = "last" /\ bundle'[r] = NoBundle /\ receipt'[r] = "none"
      /\ pending'[r] = pending[r]
      /\ \A s \in Relayers \ {r} : Idle(s)
  BY <1>1 DEF Sleep, Enter, TypeOK, Idle
<1>3. HeldInv(r)'
  BY <1>1, <1>2 DEF HeldInv, Working
<1>4. ScanInv(r)'
  BY <1>2 DEF ScanInv, Working
<1> QED
  BY <1>2, <1>3, <1>4

\* The height that a daemon found is not beyond the next checkpoint: the quorum
\* of the checkpoint before it came in an earlier block, which the daemon has
\* scanned, or which is below the last checkpoint that it knew of.
LEMMA FoundHeight ==
  ASSUME Timely, Inv, QuorumInv, NEW r \in Relayers, HeldInv(r), ScanInv(r), pc[r] = "bundle"
  PROVE  todo[r][1] \in Epochs /\ todo[r][1] <= last + Period
<1> DEFINE h == todo[r][1]
<1>1. 1 \in 1..Len(todo[r]) /\ h \in Epochs /\ h \in Nat /\ last \in Nat
  <2>1. todo[r] \in Seq(Epochs) /\ todo[r] # <<>>
    BY DEF Inv, TypeOK, DaemonInv, DaemonOK
  <2>2. 1 \in 1..Len(todo[r])
    BY <2>1
  <2> QED
    BY <2>2, RelayerTypes
<1>2. CASE phase[r] = "last"
  <2>1. h <= last
    BY <1>1, <1>2 DEF HeldInv, Working
  <2> QED
    BY <1>1, <2>1
<1>3. CASE phase[r] # "last"
  <2> DEFINE c == scan[r]
             g == h - Period
  <2>1. phase[r] = "next"
    BY <1>3 DEF Inv, TypeOK
  <2>2. /\ c \in Blocks /\ c <= finalized[r] /\ todo[r] = events[c] /\ next[r] <= last + Period
        /\ \A b \in Blocks : next[r] < b + Period /\ b < c =>
             \A i \in 1..Len(events[b]) : events[b][i] <= last
    BY <2>1 DEF ScanInv, Working
  <2>3. h < c /\ c <= h + QuorumDelay
    BY <1>1, <2>2 DEF Inv, ChildInv, QuorumInv
  <2>4. c \in Nat /\ c <= head /\ head \in Nat /\ next[r] \in Nat
    <3>1. c \in Nat /\ finalized[r] \in Nat /\ final \in Nat /\ head \in Nat /\ final <= head
      BY <2>2 DEF Blocks, Inv, TypeOK, ChildInv
    <3>2. finalized[r] <= final \/ finalized[r] <= 1
      BY DEF Inv, DaemonInv, DaemonOK
    <3>3. h > 0
      BY <1>1, Heights
    <3> HIDE DEF h, c
    <3> QED
      BY <1>1, <2>2, <2>3, <3>1, <3>2, <3>3, RelayerTypes
  <2>5. g \in Epochs \cup {0}
    BY <1>1, EpochsApart
  <2>6. CASE g = 0
    <3> HIDE DEF h
    <3>1. h = Period
      BY <1>1, <2>6
    <3>2. h <= last + Period
      BY <1>1, <3>1
    <3> QED
      BY <1>1, <3>2 DEF h
  <2>7. CASE g \in Epochs
    <3>1. g \in Nat /\ h = g + Period
      BY <1>1, <2>7, Heights
    <3>2. g + QuorumDelay \in Nat /\ g + QuorumDelay <= h /\ g + QuorumDelay <= head
      <4> HIDE DEF h, g, c
      <4> QED
        BY <1>1, <2>3, <2>4, <3>1 DEF Timely
    <3>3. ReachedBy(g, g + QuorumDelay)
      BY <2>7, <3>2 DEF QuorumInv
    <3>4. PICK b \in Blocks : b <= g + QuorumDelay /\ \E i \in 1..Len(events[b]) : events[b][i] = g
      BY <3>3 DEF ReachedBy
    <3>5. PICK i \in 1..Len(events[b]) : events[b][i] = g
      BY <3>4
    <3>6. g < b /\ b \in Nat
      BY <3>5 DEF Inv, ChildInv, Blocks
    <3> HIDE DEF h, g, c
    <3>7. b < c
      BY <1>1, <2>3, <2>4, <3>2, <3>4, <3>6
    <3>8. g <= last
      <4>1. CASE next[r] < b + Period
        BY <2>2, <3>5, <3>7, <4>1
      <4>2. CASE ~(next[r] < b + Period)
        <5>1. \A n, p, l \in Nat : n <= l + p /\ ~(n < b + p) /\ g < b => g <= l
          BY <3>1, <3>6
        <5> QED
          BY <1>1, <2>2, <2>4, <3>6, <4>2, <5>1
      <4> QED
        BY <4>1, <4>2
    <3>9. h <= last + Period
      BY <1>1, <3>1, <3>8
    <3> QED
      BY <1>1, <3>9 DEF h
  <2> QED
    BY <2>5, <2>6, <2>7
<1> QED
  BY <1>2, <1>3

\* A final checkpoint that is not beyond the next one is refused only when the
\* log has passed it.
LEMMA RefusedIsPassed ==
  ASSUME Inv, NEW b \in Bundles, FinalBundle(b), b.messages = b.fork, b.height <= last + Period, ~Accepts(b)
  PROVE  b.height < last
<1>1. /\ b.height \in Epochs /\ b.height \in Nat /\ b.height > 0
      /\ last \in Epochs \cup {0} /\ last \in Nat
  BY Heights DEF Bundles, Inv, TypeOK
<1>2. b.height # last + Period
  BY DEF Accepts, Extends, FinalBundle
<1>3. b.height # last
  <2>1. ASSUME b.height = last PROVE FALSE
    <3>1. last # 0 /\ last \in Epochs
      BY <1>1, <2>1
    <3>2. committed[last] = forkOf[last]
      BY <3>1 DEF Inv, ActorInv
    <3>3. b.fork = committed[last]
      BY <2>1, <3>2 DEF FinalBundle
    <3> QED
      BY <2>1, <3>1, <3>3 DEF Accepts, Repeats
  <2> QED
    BY <2>1
<1>4. last < b.height => last + Period <= b.height
  BY <1>1, EpochsApart
<1> QED
  BY <1>1, <1>2, <1>3, <1>4

\* What is sent and what is mined.
LEMMA SentIsFinal ==
  ASSUME Inv, NEW r \in Relayers
  PROVE  /\ pending[r] # NoBundle =>
              pending[r] \in Bundles /\ FinalBundle(pending[r]) /\ pending[r].messages = pending[r].fork
         /\ bundle[r] # NoBundle /\ pc[r] = "send" =>
              bundle[r] \in Bundles /\ FinalBundle(bundle[r]) /\ bundle[r].messages = bundle[r].fork
BY RelayerTypes DEF Inv, InFlightIsFinal, BundlesAreFinal, MessagesMatch

\* The calls up to the scan.
LEMMA ReadStep ==
  ASSUME Timely, Inv, [Next]_vars, NEW r \in Relayers, HeldInv(r), ScanInv(r),
         Wake(r) \/ CheckSubmitted(r) \/ ReadLastHeight(r) \/ ReadNextHeight(r)
  PROVE  HeldInv(r)' /\ ScanInv(r)' /\ \A s \in Relayers \ {r} : Idle(s)
<1>1. TypeOK /\ last \in Nat
  BY RelayerTypes DEF Inv
<1>2. /\ UNCHANGED <<last, events, pending, finalized, scan, bundle, receipt>>
      /\ pc[r] \in {"sleep", "hasSubmitted", "lastHeight", "nextHeight"}
      /\ \A s \in Relayers \ {r} : Idle(s)
  BY <1>1 DEF TypeOK, Idle, Wake, CheckSubmitted, ReadLastHeight, ReadNextHeight, child, actor, locals
<1>3. /\ receipt[r] = "none" /\ phase[r] # "next"
      /\ pending[r] # NoBundle => pending[r].height <= last + Period
      /\ bundle[r] # NoBundle => bundle[r].height <= last + Period
  BY <1>2 DEF HeldInv, ScanInv, Working
<1>4. CASE Wake(r) \/ CheckSubmitted(r)
  <2>1. pc'[r] \in {"hasSubmitted", "nextHeight", "lastHeight"} /\ UNCHANGED <<phase, next, todo>>
    BY <1>1, <1>4 DEF Wake, CheckSubmitted, TypeOK, locals
  <2>2. HeldInv(r)'
    BY <1>2, <1>3, <2>1 DEF HeldInv, Working
  <2>3. ScanInv(r)'
    BY <1>2, <1>3, <2>1 DEF ScanInv
  <2> QED
    BY <1>2, <2>2, <2>3
<1>5. CASE ReadLastHeight(r)
  <2>1. UNCHANGED <<phase, next>>
    BY <1>5 DEF ReadLastHeight
  <2>2. CASE pc'[r] = "nextHeight"
    <3>1. HeldInv(r)'
      BY <1>2, <1>3, <2>2 DEF HeldInv, Working
    <3>2. ScanInv(r)'
      BY <1>2, <1>3, <2>1, <2>2 DEF ScanInv
    <3> QED
      BY <1>2, <3>1, <3>2
  <2>3. CASE pc'[r] = "bundle" /\ todo'[r] = <<last>>
    <3>1. \A i \in 1..Len(todo'[r]) : todo'[r][i] <= last
      BY <1>1, <2>3
    <3>2. HeldInv(r)'
      BY <1>2, <1>3, <2>3, <3>1 DEF HeldInv, Working
    <3>3. ScanInv(r)'
      BY <1>2, <1>3, <2>1, <2>3 DEF ScanInv
    <3> QED
      BY <1>2, <3>2, <3>3
  <2> QED
    BY <1>1, <1>5, <2>2, <2>3 DEF ReadLastHeight, TypeOK
<1>6. CASE ReadNextHeight(r)
  <2>1. pc'[r] = "epoch" /\ phase'[r] = "next" /\ next'[r] = last + Period
    BY <1>1, <1>6 DEF ReadNextHeight, TypeOK
  <2>2. HeldInv(r)'
    BY <1>2, <1>3, <2>1 DEF HeldInv, Working
  <2>3. ScanInv(r)'
    BY <1>1, <1>2, <2>1 DEF ScanInv
  <2> QED
    BY <1>2, <2>2, <2>3
<1> QED
  BY <1>4, <1>5, <1>6

\* The scan.
LEMMA ScanStep ==
  ASSUME Timely, Inv, [Next]_vars, NEW r \in Relayers, HeldInv(r), ScanInv(r), ReadEpoch(r) \/ ReadEvents(r)
  PROVE  HeldInv(r)' /\ ScanInv(r)' /\ \A s \in Relayers \ {r} : Idle(s)
<1>1. TypeOK /\ last \in Nat /\ next[r] \in Nat /\ scan[r] \in Nat /\ finalized[r] \in Nat /\ head \in Nat
  BY RelayerTypes DEF Inv, TypeOK
<1>2. UNCHANGED <<last, events, pending>> /\ pc[r] \in {"epoch", "events"}
  BY DEF ReadEpoch, ReadEvents, child, actor
<1>3. /\ receipt[r] = "none" /\ phase[r] = "next" /\ next[r] <= last + Period
      /\ pending[r] # NoBundle => pending[r].height <= last + Period
      /\ bundle[r] # NoBundle => bundle[r].height <= last + Period
  BY <1>2 DEF HeldInv, ScanInv, Working
<1>4. CASE Sleep(r)
  BY <1>2, <1>4, AsleepHeld
<1>5. CASE ReadEpoch(r) /\ ~Sleep(r)
  <2>1. /\ pc' = [pc EXCEPT ![r] = "events"]
        /\ finalized' = [finalized EXCEPT ![r] = FinalizedHeight(head)]
        /\ scan' = [scan EXCEPT ![r] = next[r] - Period + 1]
        /\ UNCHANGED <<phase, next, todo, bundle, receipt>> /\ FinalizedHeight(head) >= next[r]
    BY <1>5 DEF ReadEpoch
  <2>2. /\ pc'[r] = "events" /\ finalized'[r] = FinalizedHeight(head) /\ scan'[r] = next[r] - Period + 1
        /\ \A s \in Relayers \ {r} : Idle(s)
    BY <1>1, <1>2, <2>1 DEF TypeOK, Idle
  <2>3. FinalizedHeight(head) \in Nat
    BY <1>1 DEF FinalizedHeight
  <2>4. HeldInv(r)'
    BY <1>2, <1>3, <2>1, <2>2 DEF HeldInv, Working
  <2>5. \A b \in Blocks : ~(next[r] < b + Period /\ b < next[r] - Period + 1)
    BY <1>1 DEF Blocks
  <2>6. next[r] - Period + 1 <= FinalizedHeight(head) + 1
    BY <1>1, <2>1, <2>3
  <2>7. ScanInv(r)'
    BY <1>2, <1>3, <2>1, <2>2, <2>5, <2>6 DEF ScanInv, Working
  <2> QED
    BY <2>2, <2>4, <2>7
<1>6. CASE ReadEvents(r) /\ ~Sleep(r)
  <2>1. /\ pc[r] = "events" /\ scan[r] <= finalized[r]
        /\ \A b \in Blocks : next[r] < b + Period /\ b < scan[r] =>
             \A i \in 1..Len(events[b]) : events[b][i] <= last
    BY <1>3, <1>6 DEF ReadEvents, ScanInv
  <2>2. CASE EventsAt(scan[r]) = <<>>
    <3>1. /\ scan' = [scan EXCEPT ![r] = scan[r] + 1]
          /\ UNCHANGED <<pc, phase, next, finalized, todo, bundle, receipt>>
      BY <1>6, <2>2 DEF ReadEvents
    <3>2. scan'[r] = scan[r] + 1 /\ \A s \in Relayers \ {r} : Idle(s)
      BY <1>1, <1>2, <3>1 DEF TypeOK, Idle
    <3>3. \A b \in Blocks : next[r] < b + Period /\ b < scan[r] + 1 =>
            \A i \in 1..Len(events[b]) : events[b][i] <= last
      <4> SUFFICES ASSUME NEW b \in Blocks, next[r] < b + Period, b < scan[r] + 1, NEW i \in 1..Len(events[b])
                   PROVE  events[b][i] <= last
        OBVIOUS
      <4>1. b # scan[r]
        BY <2>2 DEF EventsAt
      <4>2. b < scan[r]
        BY <1>1, <4>1 DEF Blocks
      <4> QED
        BY <2>1, <4>2
    <3>4. HeldInv(r)'
      BY <1>2, <1>3, <2>1, <3>1 DEF HeldInv, Working
    <3>5. scan[r] + 1 <= finalized[r] + 1
      BY <1>1, <2>1
    <3>6. ScanInv(r)'
      BY <1>2, <1>3, <2>1, <3>1, <3>2, <3>3, <3>5 DEF ScanInv, Working
    <3> QED
      BY <3>2, <3>4, <3>6
  <2>3. CASE EventsAt(scan[r]) # <<>>
    <3>1. /\ pc' = [pc EXCEPT ![r] = "bundle"]
          /\ todo' = [todo EXCEPT ![r] = EventsAt(scan[r])]
          /\ UNCHANGED <<phase, next, finalized, scan, bundle, receipt>>
      BY <1>6, <2>3 DEF ReadEvents
    <3>2. scan[r] \in Blocks /\ EventsAt(scan[r]) = events[scan[r]]
      BY <2>3 DEF EventsAt
    <3>3. pc'[r] = "bundle" /\ todo'[r] = events[scan[r]] /\ \A s \in Relayers \ {r} : Idle(s)
      BY <1>1, <1>2, <3>1, <3>2 DEF TypeOK, Idle
    <3>4. HeldInv(r)'
      BY <1>2, <1>3, <3>1, <3>3 DEF HeldInv, Working
    <3>5. scan[r] <= finalized[r] + 1
      BY <1>1, <2>1
    <3>6. ScanInv(r)'
      BY <1>2, <1>3, <2>1, <3>1, <3>2, <3>3, <3>5 DEF ScanInv, Working
    <3> QED
      BY <3>3, <3>4, <3>6
  <2> QED
    BY <2>2, <2>3
<1> QED
  BY <1>4, <1>5, <1>6

\* The calls for a bundle, and sending it.
LEMMA BundleStep ==
  ASSUME Timely, Inv, QuorumInv, [Next]_vars, NEW r \in Relayers, HeldInv(r), ScanInv(r),
         ReadBundle(r) \/ ReadMessages(r) \/ Send(r)
  PROVE  HeldInv(r)' /\ ScanInv(r)' /\ \A s \in Relayers \ {r} : Idle(s)
<1>1. TypeOK
  BY DEF Inv
<1>2. UNCHANGED <<last, events>> /\ pc[r] \in {"bundle", "messages", "send"}
  BY DEF ReadBundle, ReadMessages, Send, child, actor
<1>3. /\ receipt[r] = "none"
      /\ pending[r] # NoBundle => pending[r].height <= last + Period
      /\ bundle[r] # NoBundle => bundle[r].height <= last + Period
  BY <1>2 DEF HeldInv
<1>4. CASE Send(r) /\ Sleep(r) /\ UNCHANGED pending
  BY <1>4, AsleepHeld
<1>5. ASSUME ~(Send(r) /\ Sleep(r) /\ UNCHANGED pending)
      PROVE  /\ pc'[r] \in {"messages", "send", "receipt"} /\ receipt'[r] = "none"
             /\ UNCHANGED <<phase, next, finalized, scan, todo>>
             /\ \A s \in Relayers \ {r} : Idle(s)
             /\ pending'[r] # NoBundle => pending'[r].height <= last + Period
             /\ bundle'[r] # NoBundle /\ bundle'[r].height <= last + Period /\ bundle'[r].height = todo[r][1]
             /\ pc'[r] = "receipt" => pending'[r] = bundle'[r]
  <2>1. CASE ReadBundle(r)
    <3> DEFINE h == Head(todo[r])
               b == [height |-> h, fork |-> forkOf[h], messages |-> NoFork, certified |-> ReachedBy(h, head)]
    <3>1. /\ bundle' = [bundle EXCEPT ![r] = b] /\ pc' = [pc EXCEPT ![r] = "messages"]
          /\ UNCHANGED <<pending, phase, next, finalized, scan, todo, receipt>> /\ pc[r] = "bundle"
      BY <2>1 DEF ReadBundle
    <3>2. todo[r] \in Seq(Epochs) /\ todo[r] # <<>> /\ h = todo[r][1]
      BY <3>1 DEF Inv, TypeOK, DaemonInv, DaemonOK
    <3>3. todo[r][1] \in Epochs /\ todo[r][1] <= last + Period
      BY <3>1, FoundHeight
    <3>4. b.height = h
      OBVIOUS
    <3>5. b # NoBundle
      BY <3>2, <3>3, <3>4, Heights DEF NoBundle
    <3> HIDE DEF b
    <3>6. bundle'[r] = b /\ pc'[r] = "messages" /\ \A s \in Relayers \ {r} : Idle(s)
      BY <1>1, <3>1 DEF TypeOK, Idle
    <3> QED
      BY <1>3, <3>1, <3>2, <3>3, <3>4, <3>5, <3>6
  <2>2. CASE ReadMessages(r)
    <3> DEFINE b == [bundle[r] EXCEPT !.messages = forkOf[bundle[r].height]]
    <3>1. /\ pc' = [pc EXCEPT ![r] = "send"] /\ pc[r] = "messages"
          /\ UNCHANGED <<pending, phase, next, finalized, scan, todo, receipt>>
      BY <2>2 DEF ReadMessages
    <3>2. bundle' = [bundle EXCEPT ![r] = b]
      BY <1>1, <2>2 DEF ReadMessages, TypeOK
    <3>3. bundle[r] # NoBundle /\ bundle[r].height = todo[r][1] /\ bundle[r] \in Bundles
      BY <3>1, RelayerTypes DEF HeldInv
    <3>4. b.height = bundle[r].height /\ b.height \in Epochs
      BY <3>3 DEF Bundles
    <3> HIDE DEF b
    <3>5. b # NoBundle
      BY <3>4, Heights DEF NoBundle
    <3>6. bundle'[r] = b /\ pc'[r] = "send" /\ \A s \in Relayers \ {r} : Idle(s)
      BY <1>1, <3>1, <3>2 DEF TypeOK, Idle
    <3> QED
      BY <1>3, <3>1, <3>3, <3>4, <3>5, <3>6
  <2>3. CASE Send(r)
    <3>1. /\ pending' = [pending EXCEPT ![r] = bundle[r]] /\ pc' = [pc EXCEPT ![r] = "receipt"]
          /\ UNCHANGED locals /\ pc[r] = "send"
      BY <1>5, <2>3 DEF Send
    <3>2. bundle[r] # NoBundle /\ bundle[r].height = todo[r][1]
      BY <3>1 DEF HeldInv
    <3>3. pending'[r] = bundle[r] /\ pc'[r] = "receipt" /\ \A s \in Relayers \ {r} : Idle(s)
      BY <1>1, <3>1 DEF TypeOK, Idle, locals
    <3> QED
      BY <1>3, <3>1, <3>2, <3>3 DEF locals
  <2> QED
    BY <2>1, <2>2, <2>3
<1>6. ASSUME ~(Send(r) /\ Sleep(r) /\ UNCHANGED pending)
      PROVE  HeldInv(r)' /\ ScanInv(r)'
  <2>1. HeldInv(r)'
    BY <1>2, <1>5, <1>6 DEF HeldInv, Working
  <2>2. ScanInv(r)'
    BY <1>2, <1>5, <1>6 DEF ScanInv, Working
  <2> QED
    BY <2>1, <2>2
<1> QED
  BY <1>4, <1>5, <1>6

\* The receipt: the log is at the submitted height or beyond it, whatever the
\* status of the receipt is.
LEMMA ReceiptStep ==
  ASSUME Timely, Inv, QuorumInv, [Next]_vars, NEW r \in Relayers, HeldInv(r), ScanInv(r), GotReceipt(r)
  PROVE  HeldInv(r)' /\ ScanInv(r)' /\ \A s \in Relayers \ {r} : Idle(s)
<1>1. TypeOK /\ last \in Nat /\ scan[r] \in Nat /\ finalized[r] \in Nat
  BY RelayerTypes DEF Inv
<1>2. /\ pc[r] = "receipt" /\ receipt[r] # "none" /\ UNCHANGED <<last, events, pending, phase, next, finalized>>
      /\ receipt' = [receipt EXCEPT ![r] = "none"] /\ bundle' = [bundle EXCEPT ![r] = NoBundle]
  BY DEF GotReceipt, child, actor
<1>3. /\ bundle[r].height <= last /\ bundle[r].height = todo[r][1]
      /\ pending[r] # NoBundle => pending[r].height <= last + Period
      /\ todo[r] \in Seq(Epochs) /\ todo[r] # <<>>
  BY <1>2 DEF HeldInv, Inv, TypeOK, DaemonInv, DaemonOK
<1>4. receipt'[r] = "none" /\ bundle'[r] = NoBundle /\ \A s \in Relayers \ {r} : Idle(s)
  BY <1>1, <1>2 DEF GotReceipt, TypeOK, Idle
<1>5. CASE phase[r] = "last"
  <2>1. pc'[r] = "nextHeight"
    BY <1>1, <1>5 DEF GotReceipt, TypeOK
  <2>2. HeldInv(r)'
    BY <1>2, <1>3, <1>4, <2>1 DEF HeldInv, Working
  <2>3. ScanInv(r)'
    BY <1>2, <1>5, <2>1 DEF ScanInv
  <2> QED
    BY <1>4, <2>2, <2>3
<1>6. CASE phase[r] = "next"
  <2>1. /\ scan[r] <= finalized[r] /\ scan[r] \in Blocks /\ todo[r] = events[scan[r]]
        /\ next[r] <= last + Period
        /\ \A b \in Blocks : next[r] < b + Period /\ b < scan[r] =>
             \A i \in 1..Len(events[b]) : events[b][i] <= last
    BY <1>2, <1>6 DEF ScanInv, Working
  <2>2. Len(todo[r]) = 1 /\ Tail(todo[r]) = <<>>
    <3>1. Len(todo[r]) <= 1
      BY <2>1 DEF QuorumInv
    <3>2. Len(todo[r]) \in Nat /\ Len(todo[r]) # 0
      BY <1>3
    <3>3. \A n \in Nat : n <= 1 /\ n # 0 => n = 1
      OBVIOUS
    <3>4. Len(todo[r]) = 1
      BY <3>1, <3>2, <3>3, Zenon
    <3>5. Tail(todo[r]) \in Seq(Epochs) /\ Len(Tail(todo[r])) = 0
      BY <1>3, <3>4, HeadTailProperties
    <3> QED
      BY <3>4, <3>5, EmptySeq
  <2>3. pc'[r] = "events" /\ scan'[r] = scan[r] + 1
    BY <1>1, <1>6, <2>2 DEF GotReceipt, TypeOK
  <2>4. \A b \in Blocks : next[r] < b + Period /\ b < scan[r] + 1 =>
          \A i \in 1..Len(events[b]) : events[b][i] <= last
    <3> SUFFICES ASSUME NEW b \in Blocks, next[r] < b + Period, b < scan[r] + 1, NEW i \in 1..Len(events[b])
                 PROVE  events[b][i] <= last
      OBVIOUS
    <3>1. CASE b = scan[r]
      <4>1. events[b] = todo[r] /\ Len(events[b]) = 1
        BY <2>1, <2>2, <3>1, Zenon
      <4>2. i = 1
        <5>1. \A j \in 1..1 : j = 1
          OBVIOUS
        <5>2. i \in 1..1
          BY <4>1, Zenon
        <5> QED
          BY <5>1, <5>2, Zenon
      <4> QED
        BY <1>3, <4>1, <4>2, Zenon
    <3>2. CASE b < scan[r]
      BY <2>1, <3>2
    <3> QED
      BY <1>1, <3>1, <3>2 DEF Blocks
  <2>5. HeldInv(r)'
    BY <1>2, <1>3, <1>4, <2>3 DEF HeldInv, Working
  <2>6. scan[r] + 1 <= finalized[r] + 1
    BY <1>1, <2>1
  <2>7. ScanInv(r)'
    BY <1>2, <1>6, <2>1, <2>3, <2>4, <2>6 DEF ScanInv, Working
  <2> QED
    BY <1>4, <2>5, <2>7
<1> QED
  BY <1>1, <1>5, <1>6 DEF TypeOK

\* Mining or dropping a transaction.
LEMMA TransactionStep ==
  ASSUME Timely, Inv, [Next]_vars, NEW r \in Relayers, HeldInv(r), ScanInv(r), Mine(r) \/ DropTransaction(r)
  PROVE  HeldInv(r)' /\ ScanInv(r)' /\ \A s \in Relayers \ {r} : Idle(s)
<1>1. TypeOK /\ bundle[r].height \in Nat /\ \A i \in 1..Len(todo[r]) : todo[r][i] \in Nat
  BY RelayerTypes DEF Inv
<1>2. last' >= last /\ last \in Nat /\ last' \in Nat
  BY LastStep
<1>3. /\ UNCHANGED <<pc, phase, next, finalized, scan, todo, bundle>>
      /\ pending[r] # NoBundle /\ pending' = [pending EXCEPT ![r] = NoBundle]
      /\ \A s \in Relayers \ {r} : receipt'[s] = receipt[s]
  BY <1>1 DEF Mine, DropTransaction, TypeOK, locals
<1>4. pending'[r] = NoBundle /\ \A s \in Relayers \ {r} : Idle(s)
  BY <1>1, <1>3 DEF TypeOK, Idle
<1>5. ScanInv(r)'
  BY <1>3, IdleScan
<1>6. receipt'[r] # "none" => pc[r] = "receipt" /\ bundle[r].height <= last'
  <2>1. CASE DropTransaction(r)
    BY <1>1, <1>2, <2>1 DEF DropTransaction, locals, HeldInv
  <2>2. CASE Mine(r) /\ pc[r] # "receipt"
    BY <1>1, <1>2, <2>2 DEF Mine, TypeOK, HeldInv
  <2>3. CASE Mine(r) /\ pc[r] = "receipt"
    <3>1. pending[r] = bundle[r] /\ pending[r].height <= last + Period
      BY <1>3, <2>3 DEF HeldInv
    <3>2. /\ pending[r] \in Bundles /\ FinalBundle(pending[r]) /\ pending[r].messages = pending[r].fork
      BY <1>3, SentIsFinal
    <3>3. CASE Extends(pending[r])
      <4>1. last' = pending[r].height
        BY <2>3, <3>3 DEF Mine, SubmitCheckpoint, Accepts
      <4> QED
        BY <1>2, <2>3, <3>1, <4>1
    <3>4. CASE Repeats(pending[r])
      BY <1>2, <2>3, <3>1, <3>4 DEF Repeats
    <3>5. CASE ~Accepts(pending[r])
      <4>1. pending[r].height < last
        BY <3>1, <3>2, <3>5, RefusedIsPassed
      <4> QED
        BY <1>1, <1>2, <2>3, <3>1, <4>1
    <3> QED
      BY <3>3, <3>4, <3>5 DEF Accepts
  <2> QED
    BY <2>1, <2>2, <2>3
<1>7. ASSUME NEW x \in Nat
      PROVE  (x <= last => x <= last') /\ (x <= last + Period => x <= last' + Period)
  <2>1. \A l, m, p \in Nat : m >= l /\ x <= l + p => x <= m + p
    OBVIOUS
  <2>2. x <= last => x <= last'
    BY <1>2
  <2>3. x <= last + Period => x <= last' + Period
    BY <1>2, <2>1
  <2> QED
    BY <2>2, <2>3
<1>8. HeldInv(r)'
  BY <1>1, <1>3, <1>4, <1>6, <1>7 DEF HeldInv
<1> QED
  BY <1>4, <1>5, <1>8

\* Every step keeps the invariant of timely quorums: one case per group of calls.
LEMMA TimelyStep ==
  ASSUME Timely, Inv, TimelyInv, [Next]_vars
  PROVE  TimelyInv'
<1>1. QuorumInv /\ QuorumInv' /\ \A s \in Relayers : HeldInv(s) /\ ScanInv(s)
  BY QuorumStep DEF TimelyInv
<1>2. ASSUME NEW s \in Relayers, Idle(s)
      PROVE  HeldInv(s)' /\ ScanInv(s)'
  BY <1>1, <1>2, IdleHeld, IdleScan DEF Idle
<1>3. ASSUME NEW r \in Relayers, HeldInv(r)' /\ ScanInv(r)' /\ \A s \in Relayers \ {r} : Idle(s)
      PROVE  TimelyInv'
  BY <1>1, <1>2, <1>3 DEF TimelyInv
<1>4. ASSUME NEW r \in Relayers, Daemon(r) \/ Abort(r) \/ Mine(r) \/ DropTransaction(r)
      PROVE  TimelyInv'
  <2>1. HeldInv(r) /\ ScanInv(r)
    BY <1>1
  <2>2. CASE Wake(r) \/ CheckSubmitted(r) \/ ReadLastHeight(r) \/ ReadNextHeight(r)
    BY <1>3, <2>1, <2>2, ReadStep
  <2>3. CASE ReadEpoch(r) \/ ReadEvents(r)
    BY <1>3, <2>1, <2>3, ScanStep
  <2>4. CASE ReadBundle(r) \/ ReadMessages(r) \/ Send(r)
    BY <1>1, <1>3, <2>1, <2>4, BundleStep
  <2>5. CASE GotReceipt(r)
    BY <1>1, <1>3, <2>1, <2>5, ReceiptStep
  <2>6. CASE ReceiptTimeout(r) \/ Abort(r)
    <3>1. Sleep(r) /\ UNCHANGED pending
      BY <2>6 DEF ReceiptTimeout, Abort
    <3> QED
      BY <1>3, <2>1, <3>1, AsleepHeld
  <2>7. CASE Mine(r) \/ DropTransaction(r)
    BY <1>3, <2>1, <2>7, TransactionStep
  <2> QED
    BY <1>4, <2>2, <2>3, <2>4, <2>5, <2>6, <2>7 DEF Daemon
<1>5. CASE NewBlock \/ Reorg \/ UNCHANGED vars
  <2>1. \A s \in Relayers : Idle(s)
    BY <1>5 DEF NewBlock, Reorg, vars, locals, Idle
  <2> QED
    BY <1>1, <1>2, <2>1 DEF TimelyInv
<1> QED
  BY <1>4, <1>5 DEF Next

\* Initially there are no quorums and the daemons hold nothing.
LEMMA TimelyInit ==
  ASSUME Timely, Init
  PROVE  TimelyInv
<1>1. QuorumInv
  <2>1. head = 0 /\ \A b \in Blocks : events[b] = <<>>
    BY DEF Init
  <2>2. \A h \in Epochs : ~(h + QuorumDelay <= head)
    BY <2>1, Heights
  <2> QED
    BY <2>1, <2>2 DEF QuorumInv
<1>2. ASSUME NEW r \in Relayers
      PROVE  HeldInv(r) /\ ScanInv(r)
  BY DEF Init, HeldInv, ScanInv, Working
<1> QED
  BY <1>1, <1>2 DEF TimelyInv

\* When every checkpoint gets its quorum before the next one is cut, a submission
\* of submit_checkpoint is refused, or reverts, only because the log is past its
\* height: for any relayers, period, finality depth, reorganisations and faults.
THEOREM RefusalIsOvertaking ==
  ASSUME Timely
  PROVE  Spec => RefusedOnlyWhenOvertaken
<1> DEFINE Refusal ==
      \A r \in Relayers :
        /\ (Send(r) /\ ~Accepts(bundle[r])) => bundle[r].height < last
        /\ (Mine(r) /\ ~Accepts(pending[r])) => pending[r].height < last
<1>1. Init => Inv /\ TimelyInv
  BY InitInv, TimelyInit
<1>2. Inv /\ TimelyInv /\ [Next]_vars => TimelyInv'
  BY TimelyStep
<1>3. Inv /\ TimelyInv => Refusal
  <2> SUFFICES ASSUME Inv, TimelyInv, NEW r \in Relayers
               PROVE  /\ (Send(r) /\ ~Accepts(bundle[r])) => bundle[r].height < last
                      /\ (Mine(r) /\ ~Accepts(pending[r])) => pending[r].height < last
    OBVIOUS
  <2>1. HeldInv(r)
    BY DEF TimelyInv
  <2>2. ASSUME Send(r), ~Accepts(bundle[r])
        PROVE  bundle[r].height < last
    <3>1. pc[r] = "send"
      BY <2>2 DEF Send
    <3>2. bundle[r] # NoBundle /\ bundle[r].height <= last + Period
      BY <2>1, <3>1 DEF HeldInv
    <3> QED
      BY <2>2, <3>1, <3>2, SentIsFinal, RefusedIsPassed
  <2>3. ASSUME Mine(r), ~Accepts(pending[r])
        PROVE  pending[r].height < last
    <3>1. pending[r] # NoBundle /\ pending[r].height <= last + Period
      BY <2>1, <2>3 DEF Mine, HeldInv
    <3> QED
      BY <2>3, <3>1, SentIsFinal, RefusedIsPassed
  <2> QED
    BY <2>2, <2>3
<1>4. Inv /\ TimelyInv /\ [Next]_vars => [Refusal]_vars
  BY <1>3
<1> QED
  BY <1>1, <1>2, <1>4, Invariance, PTL DEF Spec, RefusedOnlyWhenOvertaken

=============================================================================
