--------------------------- MODULE MCAccessAudit ---------------------------
(* AccessAudit for TLC: three users in a fixed order of emails, paths to    *)
(* the host and to the secret, directly and through a group.                *)
EXTENDS AccessAudit, TLC

CONSTANTS u1, u2, u3, s1, h1, g1

Order == u1 :> 1 @@ u2 :> 2 @@ u3 :> 3
Ask(u, p, x) == [user |-> u, permission |-> p, target |-> x]

HostGrants == {Ask(u1, "host.access", h1), Ask(u2, "host.access", h1),
               Ask(u3, "host.access", h1), Ask(u2, "host.access", g1),
               Ask(u3, "host.access", g1)}
SecretGrants == {Ask(u1, "secret.read", s1), Ask(u1, "secret.update", g1),
                 Ask(u2, "secret.read", g1), Ask(u2, "group.read", g1)}
RequestsOf == [walk |-> HostGrants, report |-> SecretGrants, scroll |-> {}]
=============================================================================
