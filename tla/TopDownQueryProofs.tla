------------------------ MODULE TopDownQueryProofs -------------------------
(***************************************************************************)
(* Proofs about the top-down queries, for chains and reorganisations of    *)
(* any number and length and any number of changes in a block.             *)
(***************************************************************************)
EXTENDS TopDownQuery, SequenceTheorems, TLAPS

Blocks == [fork : Nat, changes : Nat]

Types ==
  /\ chain \in Seq(Blocks) /\ tip \in Nat
  /\ epoch \in Nat /\ upTo \in Nat /\ head \in Nat
  /\ pc \in {"idle", "logs", "hash", "head", "headHash", "messages", "done", "failed"}
  /\ query \in {"changes", "messages"}

\* The epoch's block was there when the query began and is not removed since.
Settled == before # NoHash /\ before \notin orphans

\* A removed block is on an older fork than the next block of the chain, so no
\* block of the chain is ever one of the removed.
ForkInv ==
  /\ \A i \in 1..Len(chain) : chain[i].fork <= tip /\ Hash(i) \notin orphans
  /\ \A b \in orphans : b \in Seq(Blocks) /\ Len(b) > 0 /\ b[Len(b)].fork < tip

\* Before the answer is there, a settled block is the one of the epoch.
Asking == {"logs", "hash", "head", "headHash"}

\* The calls of one query.  Those for changes may go on with the next epoch; those
\* for messages without a block hash take the state of a head above the epoch.
QueryInv ==
  /\ pc \in {"logs", "hash"} => query = "changes"
  /\ pc \in {"head", "headHash", "messages"} => query = "messages"
  /\ pc \notin {"idle", "failed"} => epoch > 0
  /\ query = "messages" => epoch = upTo \/ pc = "idle"
  /\ pc \in {"idle", "logs", "hash", "head"} => head = 0
  /\ pc \in Asking /\ Settled => epoch <= Len(chain) /\ before = Hash(epoch)
  /\ pc = "hash" /\ Settled => ChangesOf(before) = {}
  /\ pc = "headHash" /\ Settled => epoch <= head
  /\ pc = "messages" /\ head # 0 /\ Settled =>
       MessagesOf(hash, epoch) = MessagesOf(before, epoch)

\* The inductive invariant.
Inv ==
  /\ Types
  /\ ForkInv
  /\ QueryInv
  /\ ChangesMatchTheirHash
  /\ SettledBlockIsReturned
  /\ SettledMessagesAreReturned

-----------------------------------------------------------------------------
(* The logs of a node. *)

LogsOf(B)       == UNION {Logs(b, FALSE) : b \in B}
ChangesIn(logs) == {l.change : l \in logs}
BlocksIn(logs)  == {l.change.block : l \in logs}

\* The logs of a block are those of its changes, and only withdrawn ones are marked.
LEMMA LogsOfABlock ==
  ASSUME NEW b
  PROVE  /\ \A l \in Logs(b, FALSE) : l.change \in ChangesOf(b) /\ l.change.block = b
         /\ \A c \in ChangesOf(b) : \E l \in Logs(b, FALSE) : l.change = c
         /\ \A l \in Logs(b, FALSE) : ~l.removed
         /\ \A l \in Logs(b, TRUE) : l.removed
<1>1. \A c \in ChangesOf(b) : c.block = b
  BY DEF ChangesOf
<1>2. \A c \in ChangesOf(b) : [change |-> c, removed |-> FALSE] \in Logs(b, FALSE)
  BY DEF Logs
<1>3. \A l \in Logs(b, FALSE) : l.change \in ChangesOf(b)
  BY DEF Logs
<1>4. \A l \in Logs(b, FALSE) : ~l.removed
  BY DEF Logs
<1>5. \A c \in ChangesOf(b) : \E l \in Logs(b, FALSE) : l.change = c
  BY <1>2
<1>6. \A l \in Logs(b, TRUE) : l.removed
  BY DEF Logs
<1> QED
  BY <1>1, <1>3, <1>4, <1>5, <1>6

\* What query_with_meta keeps are all the changes of the block of the chain, all
\* the changes of the block that is being removed, or both.
LEMMA KeptLogs ==
  ASSUME NEW e, NEW answer \in Answers(e)
  PROVE  \E B \in SUBSET ({Hash(e), before}) :
           /\ Kept(answer) = LogsOf(B)
           /\ e <= Len(chain) => Hash(e) \in B
           /\ Settled => B \subseteq {Hash(e)}
<1> DEFINE stale == {b \in orphans : Len(b) = e}
           own == IF e <= Len(chain) THEN {Hash(e)} ELSE {}
<1>1. PICK st \in StaleLogs(e) : answer = OwnLogs(e) \cup st
  BY DEF Answers
<1>2. Kept(OwnLogs(e)) = LogsOf(own)
  <2>1. \A l \in OwnLogs(e) : ~l.removed
    BY LogsOfABlock DEF OwnLogs
  <2> QED
    BY <2>1 DEF Kept, OwnLogs, LogsOf
<1>3. Kept(answer) = Kept(OwnLogs(e)) \cup Kept(st)
  BY <1>1 DEF Kept
<1>4. CASE st = {} \/ \E b \in stale : st = Logs(b, TRUE)
  <2>1. Kept(st) = {}
    BY <1>4, LogsOfABlock DEF Kept
  <2> QED
    BY <1>2, <1>3, <2>1 DEF LogsOf
<1>5. CASE \E b \in stale \cap {before} : st = Logs(b, FALSE)
  <2>1. st = Logs(before, FALSE) /\ before \in orphans
    BY <1>5
  <2>2. Kept(st) = st
    BY <2>1, LogsOfABlock DEF Kept
  <2>3. Kept(answer) = LogsOf(own \cup {before})
    BY <1>2, <1>3, <2>1, <2>2 DEF LogsOf
  <2>4. own \cup {before} \in SUBSET {Hash(e), before}
    OBVIOUS
  <2>5. e <= Len(chain) => Hash(e) \in own \cup {before}
    OBVIOUS
  <2> QED
    BY <2>1, <2>3, <2>4, <2>5 DEF Settled
<1> QED
  BY <1>1, <1>4, <1>5 DEF StaleLogs

\* When they are of one block they are all its changes; when there are none, the
\* block of the chain has none.
LEMMA KeptChanges ==
  ASSUME NEW e, NEW answer \in Answers(e)
  PROVE  /\ \A b : BlocksIn(Kept(answer)) = {b} => ChangesIn(Kept(answer)) = ChangesOf(b)
         /\ Settled /\ e <= Len(chain) /\ before = Hash(e) =>
              /\ BlocksIn(Kept(answer)) \subseteq {before}
              /\ BlocksIn(Kept(answer)) = {} => ChangesOf(before) = {}
<1> DEFINE kept == Kept(answer)
<1>1. PICK B \in SUBSET {Hash(e), before} :
        /\ kept = LogsOf(B)
        /\ e <= Len(chain) => Hash(e) \in B
        /\ Settled => B \subseteq {Hash(e)}
  BY KeptLogs
<1> HIDE DEF kept
<1>a. \A b : /\ \A l \in Logs(b, FALSE) : l.change \in ChangesOf(b) /\ l.change.block = b
             /\ \A c \in ChangesOf(b) : \E l \in Logs(b, FALSE) : l.change = c
  BY LogsOfABlock
<1>b. \A l : l \in kept <=> \E b \in B : l \in Logs(b, FALSE)
  BY <1>1 DEF LogsOf
<1>2. \A l \in kept : l.change.block \in B /\ l.change \in ChangesOf(l.change.block)
  BY <1>a, <1>b
<1>3. \A b \in B : \A c \in ChangesOf(b) : \E l \in kept : l.change = c
  BY <1>a, <1>b
<1>4. ASSUME NEW b, BlocksIn(kept) = {b}
      PROVE  ChangesIn(kept) = ChangesOf(b)
  <2>1. b \in B /\ \A l \in kept : l.change.block = b
    BY <1>2, <1>4 DEF BlocksIn
  <2> QED
    BY <1>2, <1>3, <2>1 DEF ChangesIn
<1>5. ASSUME Settled, e <= Len(chain), before = Hash(e)
      PROVE  BlocksIn(kept) \subseteq {before} /\ (BlocksIn(kept) = {} => ChangesOf(before) = {})
  <2>1. B = {before}
    BY <1>1, <1>5
  <2>2. BlocksIn(kept) = {} => kept = {}
    BY DEF BlocksIn
  <2> QED
    BY <1>2, <1>3, <2>1, <2>2 DEF BlocksIn
<1> QED
  BY <1>4, <1>5 DEF kept

-----------------------------------------------------------------------------
(* The parent chain. *)

\* The initial states satisfy the invariant.
LEMMA InitInv == Init => Inv
<1> SUFFICES ASSUME Init PROVE Inv
  OBVIOUS
<1>1. chain = <<>> /\ Len(chain) = 0 /\ orphans = {} /\ ~Settled
  BY DEF Init, Settled
<1>2. Types /\ ForkInv
  BY <1>1 DEF Init, Types, ForkInv
<1>3. QueryInv
  BY <1>1 DEF Init, QueryInv, Asking
<1> QED
  BY <1>2, <1>3 DEF Init, Inv, ChangesMatchTheirHash, SettledBlockIsReturned, SettledMessagesAreReturned

\* The hash of a height that the chain has: its length is the height, and lower
\* hashes are its beginnings.
LEMMA HashFacts ==
  ASSUME chain \in Seq(Blocks), NEW e \in 1..Len(chain)
  PROVE  /\ Hash(e) \in Seq(Blocks) /\ Len(Hash(e)) = e /\ Hash(e) # NoHash
         /\ Hash(e)[e] = chain[e]
         /\ \A d \in 1..e : SubSeq(Hash(e), 1, d) = Hash(d)
<1>1. Len(chain) \in Nat /\ e \in Nat /\ e <= Len(chain)
  BY LenProperties
<1>2. Hash(e) \in Seq(Blocks) /\ Len(Hash(e)) = e /\ \A i \in 1..e : Hash(e)[i] = chain[i]
  BY <1>1, SubSeqProperties DEF Hash
<1>3. Hash(e) # NoHash /\ Hash(e)[e] = chain[e]
  BY <1>1, <1>2 DEF NoHash
<1>4. ASSUME NEW d \in 1..e
      PROVE  SubSeq(Hash(e), 1, d) = SubSeq(chain, 1, d)
  BY <1>1, <1>2, <1>4, SubSeqProperties
<1> QED
  BY <1>2, <1>3, <1>4 DEF Hash

\* The chain grows or is reorganised: a block that is not removed keeps its hash.
LEMMA ChainStep ==
  ASSUME Inv, UNCHANGED <<pc, query, epoch, upTo, head, hash, value, before>>,
         chain' \in Seq(Blocks), tip' \in Nat, orphans \subseteq orphans', ForkInv',
         epoch \in 1..Len(chain) /\ Hash(epoch) \notin orphans' =>
           epoch <= Len(chain') /\ Hash(epoch)' = Hash(epoch)
  PROVE  Inv'
<1>1. Types'
  BY DEF Inv, Types
<1>2. Settled' => Settled
  BY DEF Settled
<1>3. ChangesMatchTheirHash' /\ SettledBlockIsReturned' /\ SettledMessagesAreReturned'
  BY <1>2 DEF Inv, ChangesMatchTheirHash, SettledBlockIsReturned, SettledMessagesAreReturned, Settled
<1>4. ASSUME pc \in Asking, Settled'
      PROVE  epoch' <= Len(chain') /\ before' = Hash(epoch)'
  <2>1. epoch \in Nat /\ epoch > 0 /\ epoch <= Len(chain) /\ before = Hash(epoch)
        /\ Len(chain) \in Nat
    BY <1>2, <1>4, LenProperties DEF Inv, QueryInv, Types, Asking
  <2>2. epoch \in 1..Len(chain) /\ Hash(epoch) \notin orphans'
    BY <1>4, <2>1 DEF Settled
  <2> QED
    BY <2>1, <2>2
<1>5. QueryInv'
  BY <1>2, <1>4 DEF Inv, QueryInv
<1> QED
  BY <1>1, <1>3, <1>5 DEF Inv

\* NewBlock keeps the invariant.
LEMMA NewBlockStep ==
  ASSUME Inv, NewBlock
  PROVE  Inv'
<1>1. PICK n \in 0..MaxChanges : chain' = Append(chain, [fork |-> tip, changes |-> n])
  BY DEF NewBlock
<1> DEFINE b == [fork |-> tip, changes |-> n]
<1>2. chain \in Seq(Blocks) /\ b \in Blocks /\ tip \in Nat /\ tip' = tip /\ orphans' = orphans
  BY QueryAssumption DEF Inv, Types, NewBlock, Blocks
<1>3. /\ chain' \in Seq(Blocks) /\ Len(chain) \in Nat /\ Len(chain') = Len(chain) + 1
      /\ \A i \in 1..Len(chain) : chain'[i] = chain[i]
      /\ chain'[Len(chain')] = b
  BY <1>1, <1>2, AppendProperties, LenProperties
<1>4. ASSUME NEW e \in 1..Len(chain)
      PROVE  SubSeq(chain', 1, e) = SubSeq(chain, 1, e)
  BY <1>2, <1>3, <1>4, SubSeqProperties
<1>5. epoch \in 1..Len(chain) => epoch <= Len(chain') /\ Hash(epoch)' = Hash(epoch)
  BY <1>3, <1>4 DEF Hash, NewBlock
<1>6. UNCHANGED <<pc, query, epoch, upTo, head, hash, value, before, orphans>>
  BY DEF NewBlock
<1>7. ASSUME NEW i \in 1..Len(chain')
      PROVE  chain'[i].fork <= tip /\ SubSeq(chain', 1, i) \notin orphans
  <2>1. CASE i \in 1..Len(chain)
    BY <1>3, <1>4, <2>1 DEF Inv, ForkInv, Hash
  <2>2. CASE i = Len(chain')
    <3>1. SubSeq(chain', 1, i) = chain'
      BY <1>3, <2>2, SubSeqProperties
    <3>2. chain'[Len(chain')].fork = tip
      BY <1>3
    <3>3. chain' \notin orphans
      BY <1>2, <3>2 DEF Inv, ForkInv
    <3>4. SubSeq(chain', 1, i) \notin orphans
      BY <3>1, <3>3
    <3>5. chain'[i].fork <= tip
      BY <1>2, <2>2, <3>2
    <3> QED
      BY <3>4, <3>5
  <2> QED
    BY <1>3, <2>1, <2>2
<1>8. ForkInv'
  BY <1>2, <1>7 DEF Inv, ForkInv, Hash
<1> QED
  BY <1>2, <1>3, <1>5, <1>6, <1>8, ChainStep

\* The fork of a block is a number.
LEMMA ForkOfBlock ==
  ASSUME NEW b \in Seq(Blocks), NEW i \in 1..Len(b)
  PROVE  b[i].fork \in Nat
<1>1. b[i] \in Blocks
  BY ElementOfSeq
<1> QED
  BY <1>1 DEF Blocks

\* Reorg keeps the invariant.
LEMMA ReorgStep ==
  ASSUME Inv, Reorg
  PROVE  Inv'
<1>1. PICK h \in 0..(Len(chain) - 1) :
        /\ chain' = Hash(h)
        /\ orphans' = orphans \cup {Hash(i) : i \in (h + 1)..Len(chain)}
  BY DEF Reorg
<1>2. /\ chain \in Seq(Blocks) /\ Len(chain) \in Nat /\ h \in Nat /\ h <= Len(chain)
      /\ tip \in Nat /\ tip' = tip + 1
  BY LenProperties DEF Inv, Types, Reorg
<1>3. /\ chain' \in Seq(Blocks) /\ Len(chain') = h
      /\ \A i \in 1..h : chain'[i] = chain[i]
  BY <1>1, <1>2, SubSeqProperties DEF Hash
<1>a. ASSUME NEW i \in 1..h
      PROVE  SubSeq(chain', 1, i) = SubSeq(chain, 1, i)
  BY <1>2, <1>3, <1>a, SubSeqProperties
<1>4. ASSUME epoch \in 1..Len(chain), Hash(epoch) \notin orphans'
      PROVE  epoch <= Len(chain') /\ Hash(epoch)' = Hash(epoch)
  <2>1. ~(epoch \in (h + 1)..Len(chain))
    BY <1>1, <1>4
  <2>2. epoch \in 1..h
    BY <1>2, <1>4, <2>1
  <2> QED
    BY <1>3, <1>a, <2>2 DEF Hash, Reorg
<1>5. UNCHANGED <<pc, query, epoch, upTo, head, hash, value, before>> /\ orphans \subseteq orphans'
  BY <1>1 DEF Reorg
<1>6. ASSUME NEW i \in 1..h
      PROVE  chain'[i].fork <= tip' /\ SubSeq(chain', 1, i) \notin orphans'
  <2>1. i \in 1..Len(chain) /\ SubSeq(chain', 1, i) = Hash(i)
    BY <1>2, <1>a DEF Hash
  <2>2. chain[i].fork <= tip /\ Hash(i) \notin orphans /\ Len(Hash(i)) = i
    BY <1>2, <2>1, HashFacts DEF Inv, ForkInv
  <2>5. chain[i].fork \in Nat
    BY <1>2, <2>1, ForkOfBlock
  <2>3. \A j \in (h + 1)..Len(chain) : Len(Hash(j)) = j
    BY <1>2, HashFacts
  <2>4. \A j \in (h + 1)..Len(chain) : Hash(j) # Hash(i)
    BY <1>2, <2>2, <2>3
  <2> QED
    <3>1. chain'[i].fork <= tip'
      BY <1>2, <1>3, <2>2, <2>5
    <3>2. Hash(i) \notin orphans'
      BY <1>1, <2>2, <2>4
    <3> QED
      BY <2>1, <3>1, <3>2
<1>7. ASSUME NEW b \in orphans'
      PROVE  b \in Seq(Blocks) /\ Len(b) > 0 /\ b[Len(b)].fork < tip'
  <2>1. CASE b \in orphans
    <3>1. b \in Seq(Blocks) /\ Len(b) > 0 /\ b[Len(b)].fork < tip
      BY <2>1 DEF Inv, ForkInv
    <3>2. b[Len(b)].fork \in Nat
      BY <3>1, LenProperties, ForkOfBlock
    <3> QED
      BY <1>2, <3>1, <3>2
  <2>2. ASSUME NEW i \in (h + 1)..Len(chain), b = Hash(i)
        PROVE  b \in Seq(Blocks) /\ Len(b) > 0 /\ b[Len(b)].fork < tip'
    <3>1. i \in 1..Len(chain)
      BY <1>2
    <3>2. chain[i].fork \in Nat /\ chain[i].fork <= tip
      BY <1>2, <3>1, ForkOfBlock DEF Inv, ForkInv
    <3> QED
      BY <1>2, <2>2, <3>1, <3>2, HashFacts
  <2> QED
    BY <1>1, <2>1, <2>2
<1>8. ForkInv'
  BY <1>3, <1>6, <1>7 DEF ForkInv, Hash
<1> QED
  BY <1>2, <1>3, <1>4, <1>5, <1>8, ChainStep

-----------------------------------------------------------------------------
(* The client. *)

\* A block that the chain has is not the empty hash, and its length is its height.
LEMMA HashOfBlock ==
  ASSUME Types, NEW e \in Nat, e > 0, BlockAt(e) # NoHash
  PROVE  e <= Len(chain) /\ BlockAt(e) = Hash(e)
BY DEF BlockAt, Types

\* The state of a later head holds the messages of the epoch's block.
LEMMA MessagesOfHead ==
  ASSUME chain \in Seq(Blocks), NEW e \in 1..Len(chain), NEW d \in 1..e
  PROVE  MessagesOf(Hash(e), d) = MessagesOf(Hash(d), d)
<1>1. e \in Nat /\ d \in Nat /\ d <= e /\ d \in 1..Len(chain)
  BY LenProperties
<1>2. Len(Hash(e)) = e /\ SubSeq(Hash(e), 1, d) = Hash(d)
  BY HashFacts
<1>3. Len(Hash(d)) = d /\ SubSeq(Hash(d), 1, d) = Hash(d)
  BY <1>1, HashFacts
<1> QED
  BY <1>1, <1>2, <1>3 DEF MessagesOf

\* A query that starts, or goes on with the next epoch, knows the epoch's block.
LEMMA SettledAtStart ==
  ASSUME Types, NEW e \in Nat, e > 0, before' = BlockAt(e), epoch' = e,
         UNCHANGED <<chain, orphans>>, Settled'
  PROVE  epoch' <= Len(chain') /\ before' = Hash(epoch)'
BY HashOfBlock DEF Settled, NoHash, Hash

\* A step of the client that only changes the call, or the answer.
LEMMA SameFork ==
  ASSUME Inv, UNCHANGED <<chain, tip, orphans>>
  PROVE  ForkInv' /\ \A e : Hash(e)' = Hash(e)
BY DEF Inv, ForkInv, Hash

\* ListChanges keeps the invariant.
LEMMA ListChangesStep ==
  ASSUME Inv, NEW from \in Heights, NEW to \in Heights, from <= to, ListChanges(from, to)
  PROVE  Inv'
<1>1. from \in Nat /\ to \in Nat /\ from > 0
  BY QueryAssumption DEF Heights
<1>2. Types' /\ ForkInv'
  BY <1>1, SameFork DEF Inv, Types, ListChanges, parent
<1>3. Settled' => epoch' <= Len(chain') /\ before' = Hash(epoch)'
  BY <1>1, SettledAtStart DEF Inv, ListChanges, parent
<1>4. QueryInv'
  BY <1>1, <1>3 DEF Inv, QueryInv, ListChanges, Asking
<1> QED
  BY <1>2, <1>4
     DEF Inv, ChangesMatchTheirHash, SettledBlockIsReturned, SettledMessagesAreReturned, ListChanges

\* ListMessages keeps the invariant.
LEMMA ListMessagesStep ==
  ASSUME Inv, NEW e \in Heights, NEW h, ListMessages(e, h)
  PROVE  Inv'
<1>1. e \in Nat /\ e > 0
  BY QueryAssumption DEF Heights
<1>2. Types' /\ ForkInv'
  BY <1>1, SameFork DEF Inv, Types, ListMessages, parent
<1>3. Settled' => epoch' <= Len(chain') /\ before' = Hash(epoch)'
  BY <1>1, SettledAtStart DEF Inv, ListMessages, parent
<1>4. pc' \in {"head", "messages"} /\ query' = "messages" /\ epoch' = upTo' /\ head' = 0
  BY DEF Inv, QueryInv, ListMessages
<1>5. QueryInv'
  BY <1>1, <1>3, <1>4 DEF QueryInv, Asking, ListMessages
<1> QED
  BY <1>2, <1>4, <1>5
     DEF Inv, ChangesMatchTheirHash, SettledBlockIsReturned, SettledMessagesAreReturned

\* ReadLogs keeps the invariant.
LEMMA ReadLogsStep ==
  ASSUME Inv, ReadLogs
  PROVE  Inv'
<1>1. PICK answer \in Answers(epoch) :
        \/ /\ BlocksIn(Kept(answer)) = {}
           /\ pc' = "hash"
           /\ UNCHANGED <<hash, value>>
        \/ /\ \E b \in BlocksIn(Kept(answer)) : BlocksIn(Kept(answer)) = {b} /\ hash' = b
           /\ pc' = "done"
           /\ value' = ChangesIn(Kept(answer))
        \/ /\ \E a, b \in BlocksIn(Kept(answer)) : a # b
           /\ pc' = "failed"
           /\ UNCHANGED <<hash, value>>
  BY Zenon DEF ReadLogs, BlocksIn, ChangesIn
<1>2. pc = "logs" /\ UNCHANGED <<chain, tip, orphans, query, epoch, upTo, head, before>>
  BY DEF ReadLogs, parent
<1>3. /\ query = "changes" /\ epoch > 0 /\ head = 0
      /\ Settled => epoch <= Len(chain) /\ before = Hash(epoch)
  BY <1>2 DEF Inv, QueryInv, Asking
<1>4. Types' /\ ForkInv'
  BY <1>1, <1>2, SameFork DEF Inv, Types
<1>5. (Settled <=> Settled') /\ Hash(epoch)' = Hash(epoch)
  BY <1>2 DEF Settled, Hash
<1>6. QueryInv'
  <2>1. CASE pc' = "hash"
    <3>1. BlocksIn(Kept(answer)) = {}
      BY <1>1, <2>1
    <3>2. Settled => ChangesOf(before) = {}
      BY <1>3, <3>1, KeptChanges
    <3>3. ChangesOf(before)' = ChangesOf(before)
      BY <1>2 DEF ChangesOf
    <3> QED
      BY <1>2, <1>3, <1>5, <2>1, <3>2, <3>3 DEF QueryInv, Asking
  <2>2. CASE pc' \in {"done", "failed"}
    BY <1>2, <1>3, <2>2 DEF QueryInv, Asking
  <2> QED
    BY <1>1, <2>1, <2>2
<1>7. ASSUME pc' = "done"
      PROVE  /\ value' = ChangesOf(hash')
             /\ Settled => hash' = before
  <2>1. value' = ChangesIn(Kept(answer)) /\ BlocksIn(Kept(answer)) = {hash'}
    BY <1>1, <1>7
  <2> QED
    BY <1>3, <2>1, KeptChanges
<1>8. ChangesMatchTheirHash'
  BY <1>2, <1>3, <1>7 DEF ChangesMatchTheirHash, ChangesOf
<1>9. SettledBlockIsReturned'
  BY <1>2, <1>5, <1>7 DEF SettledBlockIsReturned, Settled, ChangesOf
<1> QED
  BY <1>2, <1>3, <1>4, <1>6, <1>8, <1>9 DEF Inv, SettledMessagesAreReturned

\* ReadHash keeps the invariant: a hash that is read after empty logs is the one
\* of a block without changes, or of a block that came after the query began.
LEMMA ReadHashStep ==
  ASSUME Inv, ReadHash
  PROVE  Inv'
<1>1. /\ pc = "hash" /\ pc' \in {"done", "failed"}
      /\ UNCHANGED <<chain, tip, orphans, query, epoch, upTo, head, before>>
  BY DEF ReadHash, Fail, Return, parent
<1>2. query = "changes" /\ epoch > 0 /\ epoch \in Nat /\ Len(chain) \in Nat
  BY <1>1, LenProperties DEF Inv, QueryInv, Types
<1>3. Types' /\ QueryInv' /\ ForkInv'
  BY <1>1, <1>2, SameFork DEF Inv, Types, QueryInv, Asking
<1>4. ASSUME pc' = "done"
      PROVE  hash' = Hash(epoch) /\ value' = {} /\ epoch \in 1..Len(chain)
  BY <1>2, <1>4 DEF ReadHash, Fail, Return
<1>5. Settled => ChangesOf(before) = {}
  BY <1>1 DEF Inv, QueryInv
<1>6. ASSUME pc' = "done", before = Hash(epoch)
      PROVE  Settled
  BY <1>4, <1>6, HashFacts DEF Inv, Types, ForkInv, Settled
<1>7. ChangesMatchTheirHash'
  BY <1>1, <1>4, <1>5, <1>6 DEF ChangesMatchTheirHash, ChangesOf
<1>8. SettledBlockIsReturned'
  BY <1>1, <1>4, <1>5 DEF Inv, QueryInv, Asking, SettledBlockIsReturned, Settled, ChangesOf
<1> QED
  BY <1>1, <1>2, <1>3, <1>7, <1>8 DEF Inv, SettledMessagesAreReturned

\* The calls for messages keep the invariant.
LEMMA MessagesStep ==
  ASSUME Inv, ReadHead \/ ReadHeadHash \/ ReadMessages
  PROVE  Inv'
<1>1. /\ pc \in {"head", "headHash", "messages"}
      /\ pc' \in {"headHash", "messages", "done", "failed"}
      /\ UNCHANGED <<chain, tip, orphans, query, epoch, upTo, before>>
  BY DEF ReadHead, ReadHeadHash, ReadMessages, Fail, Return, parent
<1>2. /\ query = "messages" /\ epoch = upTo /\ epoch > 0 /\ epoch \in Nat
      /\ Len(chain) \in Nat /\ head \in Nat /\ chain \in Seq(Blocks)
  BY <1>1, LenProperties DEF Inv, QueryInv, Types
<1>3. Types' /\ ForkInv'
  BY <1>1, <1>2, SameFork DEF Inv, Types, ReadHead, ReadHeadHash, ReadMessages, Fail, Return
<1>4. (Settled' <=> Settled) /\ Hash(epoch)' = Hash(epoch)
  BY <1>1 DEF Settled, Hash
<1>5. CASE ReadHead
  BY <1>1, <1>2, <1>3, <1>4, <1>5
     DEF ReadHead, Inv, QueryInv, Asking, ChangesMatchTheirHash, SettledBlockIsReturned,
         SettledMessagesAreReturned
<1>6. CASE ReadHeadHash
  <2>1. pc = "headHash" /\ head' = head /\ pc' \in {"messages", "failed"}
    BY <1>6 DEF ReadHeadHash, Fail, Return
  <2>2. ASSUME pc' = "messages", Settled
        PROVE  MessagesOf(hash', epoch) = MessagesOf(before, epoch)
    <3>1. hash' = Hash(head) /\ head \in 1..Len(chain)
      BY <1>2, <1>6, <2>2 DEF ReadHeadHash, Fail, Return
    <3>2. epoch \in 1..head /\ before = Hash(epoch)
      BY <1>2, <2>1, <2>2 DEF Inv, QueryInv, Asking
    <3> QED
      BY <1>2, <3>1, <3>2, MessagesOfHead
  <2>3. QueryInv'
    BY <1>1, <1>2, <1>4, <2>1, <2>2 DEF QueryInv, Asking, MessagesOf
  <2> QED
    BY <1>1, <1>2, <1>3, <2>1, <2>3
       DEF Inv, ChangesMatchTheirHash, SettledBlockIsReturned, SettledMessagesAreReturned
<1>7. CASE ReadMessages
  <2>1. pc = "messages" /\ head' = head /\ pc' \in {"done", "failed"}
    BY <1>7 DEF ReadMessages, Fail, Return
  <2>2. pc' = "done" => value' = MessagesOf(hash, epoch)
    BY <1>7 DEF ReadMessages, Fail, Return
  <2>3. QueryInv'
    BY <1>1, <1>2, <2>1 DEF QueryInv, Asking
  <2>4. SettledMessagesAreReturned'
    BY <1>1, <1>4, <2>1, <2>2 DEF Inv, QueryInv, SettledMessagesAreReturned, Settled, MessagesOf
  <2> QED
    BY <1>1, <1>2, <1>3, <2>3, <2>4 DEF Inv, ChangesMatchTheirHash, SettledBlockIsReturned
<1> QED
  BY <1>5, <1>6, <1>7

\* CallFails keeps the invariant.
LEMMA CallFailsStep ==
  ASSUME Inv, CallFails
  PROVE  Inv'
<1>1. UNCHANGED <<chain, tip, orphans, query, epoch, upTo, head, before>>
  BY DEF CallFails, Fail, Return, parent
<1>2. pc' = "failed"
  BY DEF CallFails, Fail, Return
<1>3. query = "messages" => epoch = upTo
  BY DEF CallFails, Inv, QueryInv
<1>4. Types' /\ ForkInv' /\ QueryInv'
  BY <1>1, <1>2, <1>3, SameFork DEF Inv, Types, QueryInv, Asking
<1> QED
  BY <1>2, <1>4
     DEF Inv, ChangesMatchTheirHash, SettledBlockIsReturned, SettledMessagesAreReturned

\* Report keeps the invariant.
LEMMA ReportStep ==
  ASSUME Inv, Report
  PROVE  Inv'
<1>1. UNCHANGED <<chain, tip, orphans, query>> /\ head' = 0
  BY DEF Report, parent
<1>2. CASE pc = "done" /\ epoch < upTo /\ pc' = "logs" /\ epoch' = epoch + 1 /\ upTo' = upTo
  <2>1. epoch' \in Nat /\ epoch' > 0
    BY <1>2 DEF Inv, Types
  <2>2. query = "changes"
    BY <1>2 DEF Inv, QueryInv, Types
  <2>3. Types' /\ ForkInv'
    BY <1>1, <1>2, <2>1, SameFork DEF Inv, Types
  <2>4. before' = BlockAt(epoch')
    BY <1>2 DEF Report
  <2>5. Settled' => epoch' <= Len(chain') /\ before' = Hash(epoch)'
    BY <1>1, <2>1, <2>4, SettledAtStart DEF Inv
  <2>6. QueryInv'
    BY <1>1, <1>2, <2>1, <2>2, <2>5 DEF QueryInv, Asking
  <2> QED
    BY <1>2, <2>3, <2>6
       DEF Inv, ChangesMatchTheirHash, SettledBlockIsReturned, SettledMessagesAreReturned
<1>3. CASE pc' = "idle" /\ epoch' = 0 /\ upTo' = 0
  <2>1. Types' /\ ForkInv'
    BY <1>1, <1>3, SameFork DEF Inv, Types
  <2> QED
    BY <1>1, <1>3, <2>1
       DEF Inv, QueryInv, Asking, ChangesMatchTheirHash, SettledBlockIsReturned,
           SettledMessagesAreReturned
<1> QED
  BY <1>2, <1>3 DEF Report

\* Every step keeps the invariant: one case per action.
LEMMA NextStep ==
  ASSUME Inv, [Next]_vars
  PROVE  Inv'
<1>1. CASE UNCHANGED vars
  <2>1. UNCHANGED <<chain, tip, orphans, pc, query, epoch, upTo, head, hash, value, before>>
    BY <1>1 DEF vars, parent
  <2>2. Types' /\ ForkInv' /\ Hash(epoch)' = Hash(epoch) /\ (Settled' <=> Settled)
    BY <2>1, SameFork DEF Inv, Types, Settled, Hash
  <2>3. QueryInv'
    BY <2>1, <2>2 DEF Inv, QueryInv, ChangesOf, MessagesOf
  <2> QED
    BY <2>1, <2>2, <2>3 DEF Inv, ChangesMatchTheirHash, SettledBlockIsReturned,
                            SettledMessagesAreReturned, ChangesOf, MessagesOf
<1>2. CASE \E from, to \in Heights : from <= to /\ ListChanges(from, to)
  BY <1>2, ListChangesStep
<1>3. CASE \E e \in Heights, h \in Known \cup {NoHash} : ListMessages(e, h)
  BY <1>3, ListMessagesStep
<1> QED
  BY <1>1, <1>2, <1>3, NewBlockStep, ReorgStep, ReadLogsStep, ReadHashStep, MessagesStep,
     CallFailsStep, ReportStep
     DEF Next

\* The invariant is one of the specification.
LEMMA Invariance == Spec => []Inv
<1>1. Init => Inv
  BY InitInv
<1>2. Inv /\ [Next]_vars => Inv'
  BY NextStep
<1> QED
  BY <1>1, <1>2, PTL DEF Spec

-----------------------------------------------------------------------------
(* The theorems. *)

\* get_validator_changeset returns all the changes of exactly the block whose hash
\* it returns: no reorganisation between two of its calls, nor a node that answers
\* in the middle of one, makes it mix two blocks.  What is left is an empty answer
\* with the hash of a block that was not there when the query began.
THEOREM ChangesAreOfTheirBlock == Spec => []ChangesMatchTheirHash
<1>1. Inv => ChangesMatchTheirHash
  BY DEF Inv
<1> QED
  BY <1>1, Invariance, PTL

\* get_validator_changeset returns the block of the epoch with all its changes
\* when that block is there throughout, also when it has no change and the hash
\* comes from a second call, and whatever logs of removed blocks the node still
\* answers.
THEOREM SettledBlocksAreReturned == Spec => []SettledBlockIsReturned
<1>1. Inv => SettledBlockIsReturned
  BY DEF Inv
<1> QED
  BY <1>1, Invariance, PTL

\* list-topdown-msgs without a block hash prints the messages of the epoch's block
\* when that is there throughout, whatever becomes of the head between its calls.
THEOREM SettledMessagesReturned == Spec => []SettledMessagesAreReturned
<1>1. Inv => SettledMessagesAreReturned
  BY DEF Inv
<1> QED
  BY <1>1, Invariance, PTL
=============================================================================
