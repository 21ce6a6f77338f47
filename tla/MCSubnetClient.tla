--------------------------- MODULE MCSubnetClient ---------------------------
\* The subnet commands of small sets of clients and accounts.
EXTENDS SubnetClient, TLC

Symmetry == Permutations(Clients) \cup Permutations(Accounts)
=============================================================================
