----------------------------- MODULE SubnetId ------------------------------
(***************************************************************************)
(* Subnet identifiers (ipc/sdk/src/subnet_id.rs) and the classification of *)
(* cross-net messages by them (ipc/sdk/src/cross.rs).  An identifier is    *)
(* the chain id of the rootnet and the path of subnet actors below it.     *)
(***************************************************************************)
EXTENDS Integers, Sequences, FiniteSets

NoSubnet == [root |-> 0, children |-> <<"none">>]    \* Option::None
Panic    == [root |-> 0, children |-> <<"panic">>]   \* the process is aborted

Subnet(root, path) == [root |-> root, children |-> path]

\* The first n actors of the path: children()[..n].to_vec(), which panics when
\* n is not an index of the path.
Slice(id, n) == IF n \in 0..Len(id.children) THEN Subnet(id.root, SubSeq(id.children, 1, n))
                ELSE Panic

Parent(id) == IF id.children = <<>> THEN NoSubnet ELSE Slice(id, Len(id.children) - 1)

\* Mutant: the positions that agree are counted, not the leading ones.
CommonScattered(a, b) ==
  Cardinality({i \in (1..Len(a.children)) \cap (1..Len(b.children)) :
                 a.children[i] = b.children[i]})

\* The length of the common part of the paths of two subnets of one rootnet.
Common(a, b) ==
  CHOOSE n \in 0..Len(a.children) :
    /\ n <= Len(b.children)
    /\ \A i \in 1..n : a.children[i] = b.children[i]
    /\ n < Len(a.children) /\ n < Len(b.children) => a.children[n + 1] # b.children[n + 1]

CommonParent(a, b) ==
  IF a.root # b.root THEN [count |-> 0, subnet |-> NoSubnet]
  ELSE [count |-> Common(a, b), subnet |-> Slice(a, Common(a, b))]

\* Mutant: the common parent itself is returned.
DownToCommonParent(id, from) ==
  IF Len(id.children) <= Len(from.children) \/ id.root # from.root THEN NoSubnet
  ELSE Slice(id, Common(id, from))

Down(id, from) ==
  IF Len(id.children) <= Len(from.children) \/ id.root # from.root THEN NoSubnet
  ELSE Slice(id, Common(id, from) + 1)

\* common - 1 is computed on usize: below zero it panics, or wraps around to
\* an index beyond any path.
Up(id, from) ==
  IF Len(id.children) < Len(from.children) \/ id.root # from.root THEN NoSubnet
  ELSE Slice(id, Common(id, from) - 1)

-----------------------------------------------------------------------------
(* cross.rs *)

IsBottomUp(from, to) == from.root = to.root /\ Len(from.children) > Common(from, to)

\* Mutant: where the message is does not matter.
ApplyTypeOfMessage(from, to, curr) == IF IsBottomUp(from, to) THEN "BottomUp" ELSE "TopDown"

\* StorableMsg::apply_type for a message from one subnet to another, in curr
ApplyType(from, to, curr) ==
  IF CommonParent(curr, to) = CommonParent(from, to) /\ IsBottomUp(from, to)
  THEN "BottomUp" ELSE "TopDown"
=============================================================================
