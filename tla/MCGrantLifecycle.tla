--------------------------- MODULE MCGrantLifecycle ---------------------------
(* Two replicas; c1 and c3 run in one of them, c2 in the other.              *)
EXTENDS GrantLifecycle, TLC

CONSTANTS p1, p2, c1, c2, c3, old, t1

MCHome == (c1 :> p1) @@ (c2 :> p2) @@ (c3 :> p1)

Use(x, y, z) == (c1 :> x) @@ (c2 :> y) @@ (c3 :> z)

MCWorkloads == {
  Use({"token", "stall"}, {"early"}, {"sync", "disable", "call"}),
  Use({"token", "crash"}, {"early", "stall"}, {"disconnect", "rewrap", "crash"}),
  Use({"token"}, {"authorize", "callback"}, {}),
  Use({"callback", "crash"}, {"callback"}, {"authorize", "disconnect"})
}

\* One refresh, and one other thing beside it.
WhileDisabled == {Use({"token"}, {}, {"disable"})}
WhileRewrapped == {Use({"token"}, {"rewrap"}, {})}
WhileReauthorized == {Use({"token"}, {}, {"authorize", "callback"})}

=============================================================================
