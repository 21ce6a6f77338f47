--------------------------- MODULE CrossMessage ----------------------------
(***************************************************************************)
(* A cross-net message on its way through the hierarchy of subnets: up to  *)
(* the common parent of its source and its destination, then down.  The    *)
(* way is the reference that the operators of SubnetId are checked with.   *)
(***************************************************************************)
EXTENDS SubnetId, SequencesExt

CONSTANTS Roots, Actors, MaxDepth   \* MaxDepth bounds the depth of the hierarchy

ASSUME HierarchyAssumption == Roots \subseteq Nat \ {0} /\ MaxDepth \in Nat

VARIABLES from, to, curr, came
vars == <<from, to, curr, came>>

Paths   == UNION {[1..n -> Actors] : n \in 0..MaxDepth}
Subnets == {Subnet(r, p) : r \in Roots, p \in Paths}

Init ==
  /\ from \in Subnets /\ to \in Subnets
  /\ curr = from
  /\ came = "start"

Above(a, b) == a.root = b.root /\ IsPrefix(a.children, b.children)

HopUp ==
  /\ from.root = to.root
  /\ ~Above(curr, to)
  /\ curr' = Subnet(curr.root, SubSeq(curr.children, 1, Len(curr.children) - 1))
  /\ came' = "up"
  /\ UNCHANGED <<from, to>>

HopDown ==
  /\ Above(curr, to) /\ curr # to
  /\ curr' = Subnet(curr.root, Append(curr.children, to.children[Len(curr.children) + 1]))
  /\ came' = "down"
  /\ UNCHANGED <<from, to>>

Next == HopUp \/ HopDown

Spec == Init /\ [][Next]_vars
-----------------------------------------------------------------------------
\* apply_type tells, in every subnet a message passes, whether it came from
\* below or from above, although it sees only the two ends and the subnet.
AppliedAsTravelled ==
  /\ came = "up" => ApplyType(from, to, curr) = "BottomUp"
  /\ came = "down" => ApplyType(from, to, curr) = "TopDown"

\* up along the path of the source, and down along the path of the destination,
\* are the hops of the message.
UpAndDownAreHops ==
  [][/\ HopUp => (curr' = Up(from, curr) /\ curr' = Parent(curr))
     /\ HopDown => (curr' = Down(to, curr) /\ Parent(curr') = curr)]_vars

\* The common parent is above both subnets, and nothing below it is.
CommonParentIsLowest ==
  from.root = to.root =>
    LET common == CommonParent(from, to).subnet IN
    /\ Above(common, from) /\ Above(common, to)
    /\ \A s \in Subnets : Above(s, from) /\ Above(s, to) => Above(s, common)
=============================================================================
