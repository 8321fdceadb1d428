------------------------------ MODULE MCVault ------------------------------
(* Vault for TLC.  MemberGrants is what the admins ask for: the permission  *)
(* to create a secret, paths through a group to a secret, a set and a host, *)
(* and one request validGrant refuses.                                      *)
EXTENDS Vault, TLC

CONSTANTS u1, a1, s1, h1, g1, t1

Ask(p, x) == [user |-> u1, permission |-> p, target |-> x]

MemberGrants ==
    {Ask("secret.add", Global), Ask("host.access", s1), Ask("group.read", g1),
     Ask("secret.read", g1), Ask("set.read", g1), Ask("host.access", g1)}

Symmetry == Permutations(Handlers)
=============================================================================
