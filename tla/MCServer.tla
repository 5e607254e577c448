------------------------------ MODULE MCServer ------------------------------
(* Server, with three clients and a few of the things they may ask for.    *)
EXTENDS Server, TLC

CONSTANTS c1, c2, c3, u1, u2, w1, w2

poll(k)     == [kind |-> "poll", pid |-> k]
key(k)      == [kind |-> "key", pid |-> k]
create      == [kind |-> "create", pid |-> 0]
page        == [kind |-> "page"]
silent      == [kind |-> "none"]
register(u) == [kind |-> "register", user |-> u]
login(u, w) == [kind |-> "login", user |-> u, text |-> w]

All(r1, r2, r3) == (c1 :> r1) @@ (c2 :> r2) @@ (c3 :> r3)

Requests == {All(poll(1), poll(2), silent), All(poll(1), key(2), create),
             All(silent, silent, page), All(poll(1), silent, register(u2)),
             All(register(u2), register(u2), login(u2, w2)),
             All(login(u1, w1), register(u2), login(u1, w1)),
             All(login(u1, w1), login(u1, w2), page)}

Tails == u1 :> w1 @@ u2 :> w2

\* What is left by the restarts before, a name registered twice included.

Passwords == {<<[user |-> u1, hash |-> <<w1, 1>>]>>,
              <<[user |-> u1, hash |-> <<w1, 1>>], [user |-> u1, hash |-> <<w2, 2>>]>>}
=============================================================================
