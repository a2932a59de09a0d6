--------------------------- MODULE MCSocialRemark ---------------------------
(* TLC instance of SocialRemark: two remarks, a registration and an energy *)
(* payment as sources, two protocol names that are configured one by one;  *)
(* an address of another chain, and a field with a delimiter in it.        *)
EXTENDS SocialRemark, TLC

CONSTANTS r1, r2, pay, energy

MCRemarks == {r1, r2}
MCSources == {pay, energy}
MCEmpty == ""
MCAddresses == {"subAddr", "dotAddr"}
MCSubsocial == [a \in MCAddresses |-> "subAddr"]
MCRegistrations == {"DMN_REG"}
MCChunk == MCAddresses \cup {"", "social", "other", "0.1", "0.2", "1", "DMN_REG", "NRG_GEN", "op", "x"}

MCDefaultConfig ==
  [protName |-> {}, version |-> {"0.1"}, destination |-> {"1"}, action |-> {"DMN_REG", "NRG_GEN"}]
MCConfigData == { [protName |-> {"social"}], [protName |-> {"social", "other"}, action |-> {"DMN_REG"}] }

MCHead(name, act) == [protName |-> name, version |-> "0.1", destination |-> "1", action |-> act]
MCSourceHead ==
  [s \in MCSources |-> IF s = pay THEN MCHead("other", "DMN_REG") ELSE MCHead("social", "NRG_GEN")]

MCContent(op, target, subject) ==
  [opId |-> op, target |-> target, subject |-> subject, token |-> <<"x">>]
MCContents ==
  { MCContent(<<"op">>, <<"dotAddr">>, <<"x">>),
    MCContent(<<"op", "x">>, <<"dotAddr">>, <<>>),
    MCContent(<<>>, <<"x">>, <<"op">>) }

MCForeign ==
  { <<>>, <<"social", "0.1", "1", "NRG_GEN">>, <<"social", "0.2", "1", "NRG_GEN", "op">>,
    <<"social", "0.1", "1", "DMN_REG", "op", "x", "x", "x">>,
    <<"other", "0.1", "1", "DMN_REG", "op", "dotAddr", "x", "x">> }

Interchangeable == Permutations(MCRemarks)
=============================================================================
