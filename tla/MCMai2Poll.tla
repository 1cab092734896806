----------------------------- MODULE MCMai2Poll -----------------------------
(* Instances of Mai2Poll: input pages with and without the coin and another *)
(* operator bit, for both players, and a keyboard that holds a coin or a    *)
(* test key.                                                                *)
EXTENDS Mai2Poll

PageOf(ops, game) == [connected |-> TRUE, ops |-> ops, game |-> game]

MCP1Pages == {DefaultInput, PageOf({}, TRUE), PageOf({"coin"}, FALSE),
              PageOf({"coin", "test"}, TRUE)}
MCP2Pages == {DefaultInput, PageOf({"coin", "service"}, TRUE)}
MCKeySets == {{}, {"coin"}, {"test"}}
=============================================================================
