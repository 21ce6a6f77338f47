--------------------------- MODULE DurableKeyMap ---------------------------
(***************************************************************************)
(* What a wallet, of either kind, promises to its only user: a set of keys *)
(* and, possibly, one of them that is the default, neither of which a      *)
(* restart changes.                                                        *)
(***************************************************************************)
CONSTANTS Keys, None

VARIABLES keys, chosen

Init == keys = {} /\ chosen = None

Add(k) == keys' = keys \cup {k} /\ UNCHANGED chosen

Drop(k) ==
  /\ keys' = keys \ {k}
  /\ chosen' = IF chosen = k THEN None ELSE chosen

Choose(k) == k \in keys /\ chosen' = k /\ UNCHANGED keys

Next == \E k \in Keys : Add(k) \/ Drop(k) \/ Choose(k)

Spec == Init /\ [][Next]_<<keys, chosen>>
=============================================================================
