--------------------------- MODULE MCConnections ---------------------------
(* TLC instance of Connections: calls for two nodes, one of them twice, a  *)
(* node that never answers and a URL that is none.                         *)
EXTENDS Connections

CONSTANTS c1, c2, c3, c4, c5, main, test, dead, junk

MCCalls == {c1, c2, c3, c4, c5}
MCUrls == {main, test, dead, junk}
MCUrl == [c \in MCCalls |-> CASE c \in {c1, c2} -> main
                              [] c = c3 -> test
                              [] c = c4 -> dead
                              [] c = c5 -> junk]
MCReachable == {main, test}
MCRefused == {junk}
=============================================================================
