------------------------- MODULE MCSubstrateQueries -------------------------
(* TLC instance of SubstrateQueries: one role that alice holds, one that   *)
(* is still to be created and one in another space; a list of replies at   *)
(* the length where its prefix grows.                                      *)
EXTENDS SubstrateQueries

CONSTANTS alice, bob, s1, s2, r1, r2, r3, p1, p2, q1, q2

MCAccounts == {alice, bob}
MCSpaces == {s1, s2}
MCRoles == {r1, r2, r3}
MCSpaceOf == [r \in MCRoles |-> IF r = r3 THEN s2 ELSE s1]
MCPermissions == {p1, p2}
MCPosts == {q1, q2}

MCGenesis ==
  { [ deleted |-> {},
      users |-> [r \in MCRoles |-> CASE r = r1 -> {alice}
                                     [] r = r3 -> {alice, s1}
                                     [] OTHER -> {}],
      permissions |-> [r \in MCRoles |-> IF r = r2 THEN {} ELSE {p1}],
      follows |-> {<<alice, bob>>},
      spaceFollows |-> {<<alice, s1>>},
      reaction |-> [k \in MCAccounts \X MCPosts |-> CASE k = <<alice, q1>> -> 1
                                                      [] k = <<bob, q1>> -> 2
                                                      [] OTHER -> 0],
      nextReaction |-> 3,
      replies |-> 63 ] }
=============================================================================
