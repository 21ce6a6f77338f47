--------------------------- MODULE CheckpointLog ---------------------------
(***************************************************************************)
(* What bottom-up checkpointing promises, whatever the relayers do: the    *)
(* parent holds a growing, gap-free prefix of the checkpoints the child    *)
(* subnet has finally certified, each executed once, and credits relayers  *)
(* only for the newest of them.                                            *)
(***************************************************************************)
EXTENDS Integers

CONSTANTS Heights,   \* the checkpoint heights
          Values,    \* what a checkpoint may contain
          NoValue,   \* not certified, or not committed
          Step,      \* the distance of two checkpoints
          Submitters

VARIABLES certified,  \* the finally certified checkpoint of each height
          newest,     \* the height of the newest committed checkpoint
          log,        \* the committed checkpoints
          credited    \* who submitted each of them

logVars == <<certified, newest, log, credited>>

Init ==
  /\ certified = [h \in Heights |-> NoValue]
  /\ newest = 0
  /\ log = [h \in Heights |-> NoValue]
  /\ credited = [h \in Heights |-> {}]

\* The child certifies further checkpoints and never takes one back.
Certify ==
  /\ certified' \in [Heights -> Values \cup {NoValue}]
  /\ \A h \in Heights : certified[h] # NoValue => certified'[h] = certified[h]
  /\ UNCHANGED <<newest, log, credited>>

\* The next checkpoint is committed and executed.
Commit(s) ==
  /\ newest + Step \in Heights
  /\ certified[newest + Step] # NoValue
  /\ newest' = newest + Step
  /\ log' = [log EXCEPT ![newest + Step] = certified[newest + Step]]
  /\ credited' = [credited EXCEPT ![newest + Step] = {s}]
  /\ UNCHANGED certified

\* A further submitter of the newest checkpoint is credited.
Credit(s) ==
  /\ newest # 0
  /\ credited' = [credited EXCEPT ![newest] = @ \cup {s}]
  /\ UNCHANGED <<certified, newest, log>>

Next == Certify \/ \E s \in Submitters : Commit(s) \/ Credit(s)

Spec == Init /\ [][Next]_logVars
=============================================================================
