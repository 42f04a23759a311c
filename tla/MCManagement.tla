---------------------------- MODULE MCManagement ----------------------------
EXTENDS Management

\* Three configurations: an administrator's token, the same token demoted to a
\* viewer's, and the mode that trusts the loopback.
MCIdentities == {
  [secret |-> "s1", scopes |-> {"read", "admin"}],
  [secret |-> "s1", scopes |-> {"read"}],
  [secret |-> None, scopes |-> {"read", "admin"}]}
Symmetry == Permutations(Requests)
MCFirst == [secret |-> "s1", scopes |-> {"read", "admin"}]
=============================================================================
