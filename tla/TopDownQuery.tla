---------------------------- MODULE TopDownQuery ---------------------------
(***************************************************************************)
(* Top-down queries of a client against a node of the parent chain         *)
(* (TopDownFinalityQuery of ipc/provider/src/manager/evm/manager.rs, and   *)
(* the commands list-validator-changes and list-topdown-msgs on top).  One *)
(* answer takes several remote calls, and the parent may be reorganised    *)
(* between any two of them.                                                *)
(*                                                                         *)
(* The hash of a block commits to the whole chain below it, so it is       *)
(* modelled by that chain.                                                 *)
(***************************************************************************)
EXTENDS Integers, Sequences

CONSTANTS
  MaxChanges,   \* staking changes in one block
  MaxHeight,    \* bound: length of the parent chain
  MaxForks      \* bound: number of reorganisations

ASSUME QueryAssumption == MaxChanges \in Nat /\ MaxHeight \in Nat /\ MaxForks \in Nat

VARIABLES
  chain,    \* the blocks of the parent
  tip,      \* the fork its new blocks are on
  orphans,  \* the hashes of blocks that a reorganisation has removed
  pc,       \* the remote call that comes next, or "idle", "done", "failed"
  query,    \* what is asked for: "changes" or "messages"
  epoch,    \* the argument epoch
  upTo,     \* the last epoch of the loop of list-validator-changes
  head,     \* the answer of chain_head_height
  hash,     \* the block hash of the answer, or the argument block_hash
  value,    \* the changes, or the messages, of the answer
  before    \* the block of the epoch when the query was made

parent == <<chain, tip, orphans>>
vars == <<parent, pc, query, epoch, upTo, head, hash, value, before>>

Heights == 1..MaxHeight
NoHash  == <<>>

Hash(h) == SubSeq(chain, 1, h)
BlockAt(h) == IF h <= Len(chain) THEN Hash(h) ELSE NoHash
Known   == {Hash(h) : h \in 1..Len(chain)} \cup orphans

\* The staking changes a block has logged, and the top-down messages that the
\* state of a block holds for an epoch.  Each carries its number, which gives the
\* order of the sequence that the set stands for.
ChangesOf(b) == {[block |-> b, number |-> i] : i \in 1..b[Len(b)].changes}
MessagesOf(b, e) == IF e <= Len(b) THEN {[block |-> SubSeq(b, 1, e), number |-> 0]} ELSE {}

-----------------------------------------------------------------------------
(* The parent chain. *)

Init ==
  /\ chain = <<>> /\ tip = 0 /\ orphans = {}
  /\ pc = "idle" /\ query = "changes"
  /\ epoch = 0 /\ upTo = 0 /\ head = 0
  /\ hash = NoHash
  /\ value = {}
  /\ before = NoHash

NewBlock ==
  /\ Len(chain) < MaxHeight
  /\ \E n \in 0..MaxChanges : chain' = Append(chain, [fork |-> tip, changes |-> n])
  /\ UNCHANGED <<tip, orphans, pc, query, epoch, upTo, head, hash, value, before>>

Reorg ==
  /\ tip < MaxForks
  /\ tip' = tip + 1
  /\ \E h \in 0..(Len(chain) - 1) :
       /\ chain' = Hash(h)
       /\ orphans' = orphans \cup {Hash(i) : i \in (h + 1)..Len(chain)}
  /\ UNCHANGED <<pc, query, epoch, upTo, head, hash, value, before>>

\* eth_getLogs at a height: the logs of the block of the chain, and those of a
\* block that was removed.  The latter are marked as removed, except when the
\* node is in the middle of the reorganisation that removes the block.  Of a
\* height the chain has not reached there are no logs.
Logs(b, removed) == {[change |-> c, removed |-> removed] : c \in ChangesOf(b)}
OwnLogs(e) == IF e <= Len(chain) THEN Logs(Hash(e), FALSE) ELSE {}
StaleLogs(e) ==
  LET stale == {b \in orphans : Len(b) = e} IN
  {{}} \cup {Logs(b, TRUE) : b \in stale} \cup {Logs(b, FALSE) : b \in stale \cap {before}}
Answers(e) == {OwnLogs(e) \cup s : s \in StaleLogs(e)}

-----------------------------------------------------------------------------
(* The client. *)

Return(result) == pc' = result /\ UNCHANGED <<query, epoch, upTo, head, before>>
Fail == Return("failed") /\ UNCHANGED <<hash, value>>

\* The commands: a range of epochs, or one epoch with or without a block hash.
ListChanges(from, to) ==
  /\ pc = "idle"
  /\ pc' = "logs" /\ query' = "changes"
  /\ epoch' = from /\ upTo' = to
  /\ before' = BlockAt(from)
  /\ UNCHANGED <<parent, head, hash, value>>

ListMessages(e, h) ==
  /\ pc = "idle"
  /\ pc' = (IF h = NoHash THEN "head" ELSE "messages") /\ query' = "messages"
  /\ epoch' = e /\ upTo' = e
  /\ hash' = h
  /\ before' = BlockAt(e)
  /\ UNCHANGED <<parent, head, value>>

\* Mutant: logs that are marked as removed are kept.
KeptAll(logs) == logs

\* query_with_meta
Kept(logs) == {l \in logs : ~l.removed}

\* Mutant: the hash of the first event is taken for all of them.
ReadLogsFirstHash ==
  /\ pc = "logs"
  /\ \E answer \in Answers(epoch) :
       LET kept == Kept(answer) IN
       \/ /\ kept = {}
          /\ pc' = "hash"
          /\ UNCHANGED <<hash, value>>
       \/ /\ \E l \in kept : hash' = l.change.block
          /\ pc' = "done"
          /\ value' = {l.change : l \in kept}
  /\ UNCHANGED <<parent, query, epoch, upTo, head, before>>

\* get_validator_changeset: the hash is the one of the events, unless there
\* are none.
ReadLogs ==
  /\ pc = "logs"
  /\ \E answer \in Answers(epoch) :
       LET kept   == Kept(answer)
           blocks == {l.change.block : l \in kept}
       IN
       \/ /\ blocks = {}
          /\ pc' = "hash"
          /\ UNCHANGED <<hash, value>>
       \/ /\ \E b \in blocks : blocks = {b} /\ hash' = b
          /\ pc' = "done"
          /\ value' = {l.change : l \in kept}
       \/ /\ \E a, b \in blocks : a # b
          /\ pc' = "failed"
          /\ UNCHANGED <<hash, value>>
  /\ UNCHANGED <<parent, query, epoch, upTo, head, before>>

\* get_block_hash of the epoch: an error when the chain has no such block
ReadHash ==
  /\ pc = "hash"
  /\ \/ /\ epoch > Len(chain)
        /\ Fail
     \/ /\ epoch <= Len(chain)
        /\ hash' = Hash(epoch)
        /\ value' = {}
        /\ Return("done")
  /\ UNCHANGED parent

\* get_chain_head_height and then get_block_hash, for the messages of an epoch
ReadHead ==
  /\ pc = "head"
  /\ pc' = "headHash"
  /\ head' = Len(chain)
  /\ UNCHANGED <<parent, query, epoch, upTo, hash, value, before>>

\* Mutant: the hash of the parent is taken from the answer.
ReadHeadHashOfParent ==
  /\ pc = "headHash"
  /\ \/ /\ head = 0 \/ head > Len(chain)
        /\ Fail
     \/ /\ head # 0 /\ head <= Len(chain)
        /\ hash' = Hash(head - 1)
        /\ Return("messages")
        /\ UNCHANGED value
  /\ UNCHANGED parent

ReadHeadHash ==
  /\ pc = "headHash"
  /\ \/ /\ head = 0 \/ head > Len(chain)
        /\ Fail
     \/ /\ head # 0 /\ head <= Len(chain)
        /\ hash' = Hash(head)
        /\ Return("messages")
        /\ UNCHANGED value
  /\ UNCHANGED parent

\* get_top_down_msgs at the state of the block with the hash; the node may no
\* longer have a block that was removed
ReadMessages ==
  /\ pc = "messages"
  /\ \/ /\ hash \in orphans
        /\ Fail
     \/ /\ value' = MessagesOf(hash, epoch)
        /\ Return("done")
        /\ UNCHANGED hash
  /\ UNCHANGED parent

\* A request fails, and its error is returned.
CallFails ==
  /\ pc \in {"logs", "hash", "head", "headHash", "messages"}
  /\ Fail
  /\ UNCHANGED parent

\* The answer is printed, and the loop of list-validator-changes goes on.
Report ==
  /\ \/ /\ pc = "done" /\ epoch < upTo
        /\ pc' = "logs"
        /\ epoch' = epoch + 1
        /\ UNCHANGED upTo
     \/ /\ pc = "failed" \/ (pc = "done" /\ epoch = upTo)
        /\ pc' = "idle"
        /\ epoch' = 0 /\ upTo' = 0
  /\ head' = 0 /\ hash' = NoHash /\ value' = {}
  /\ before' = IF pc' = "logs" THEN BlockAt(epoch') ELSE NoHash
  /\ UNCHANGED <<parent, query>>

Next ==
  \/ NewBlock \/ Reorg
  \/ \E from, to \in Heights : from <= to /\ ListChanges(from, to)
  \/ \E e \in Heights, h \in Known \cup {NoHash} : ListMessages(e, h)
  \/ ReadLogs \/ ReadHash \/ ReadHead \/ ReadHeadHash \/ ReadMessages
  \/ CallFails \/ Report

Spec == Init /\ [][Next]_vars
-----------------------------------------------------------------------------
(* Correctness. *)

\* get_validator_changeset returns the changes of the block whose hash it returns,
\* and all of them, although the node may answer in the middle of a reorganisation
\* or with logs of a removed block.  One exception is left: no changes with the
\* hash of a block that has some, which takes a block that was not there when the
\* query began, since the hash is then read after the logs.
ChangesMatchTheirHash ==
  pc = "done" /\ query = "changes" =>
    value = ChangesOf(hash) \/ (value = {} /\ hash # before)

\* What TopDownQueryPayload says of itself: the hash is the one of the block that
\* the data is of.  The exception above breaks it.
PayloadIsOfItsBlock == pc = "done" /\ query = "changes" => value = ChangesOf(hash)

\* When the block of the epoch is there before get_validator_changeset starts
\* and is not removed while it runs, the answer is that block with its changes,
\* whatever earlier reorganisations have left in the node.
SettledBlockIsReturned ==
  pc = "done" /\ query = "changes" /\ before # NoHash /\ before \notin orphans =>
    hash = before /\ value = ChangesOf(before)

\* When list-topdown-msgs is given no block hash, it reads the height of the head,
\* the hash at that height and then the messages in the state of that block.  It
\* prints the messages of the epoch's block if that was there when the command
\* started and is not removed, although the head itself may have been replaced
\* between these calls, by a block on another fork or by a longer chain.
SettledMessagesAreReturned ==
  pc = "done" /\ query = "messages" /\ head # 0 /\ before # NoHash /\ before \notin orphans =>
    value = MessagesOf(before, epoch)
=============================================================================
