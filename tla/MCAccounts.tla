----------------------------- MODULE MCAccounts -----------------------------
(* Accounts with two or three users and a few kinds of calls at a time. *)
EXTENDS Accounts, TLC

CONSTANTS admin, ana, r1, r2

MCUsers == {admin, ana}
MCRequests == {r1, r2}

Plain(role) == [role |-> role, off |-> FALSE, pass |-> 1, must |-> FALSE,
                secret |-> 0, factor |-> FALSE, last |-> 0]
Doubly(role) == [Plain(role) EXCEPT !.secret = 1, !.factor = TRUE]

World(first, second, in, codes, may, bound) ==
  [row |-> admin :> first @@ ana :> second, signedIn |-> in,
   number |-> admin :> 1 @@ ana :> 2,
   recovery |-> admin :> {} @@ ana :> codes,
   kinds |-> may, roles |-> {"admin", "viewer"}, calls |-> bound]

Alike == Permutations(MCRequests)

MCScenarios == {
  World(Plain("admin"), Plain("admin"), {admin}, {}, {"update", "delete"}, 3),
  World(Plain("admin"), NotYet, {admin}, {}, {"create", "update"}, 2),
  World(Plain("admin"), Plain("viewer"), {ana}, {},
        {"login", "change", "password", "logout", "others"}, 3),
  World(Plain("admin"), Plain("operator"), {ana}, {}, {"login", "change", "cli"}, 3),
  World(Plain("admin"), Plain("operator"), {ana}, {}, {"setup", "enable", "disable"}, 4),
  World(Plain("admin"), Doubly("operator"), {}, {Recovery(1, 1)}, {"login", "code"}, 4),
  World(Plain("admin"), Doubly("operator"), {ana}, {Recovery(1, 1)},
        {"renew", "reset", "close"}, 3),
  World(Plain("admin"), Doubly("operator"), {}, {Recovery(1, 1)},
        {"login", "code", "password"}, 3)}
=============================================================================
