---------------------------- MODULE MCCopilotTurn ----------------------------
(***************************************************************************)
(* A small instance of CopilotTurn: two calls, of a tool of the driver, of *)
(* an allowed MCP server, or of a server that is not on the allowlist, in  *)
(* the longest turn there is, which looks up both things first.            *)
(***************************************************************************)
EXTENDS CopilotTurn, TLC

MCGroundings == {{"research", "summary"}}
CallSymmetry == Permutations(Calls)

MCTools == {"travel-search", "routestack", "notes"}
MCOwn == {"travel-search"}
MCAllowed == {"travel-search", "routestack"}
==============================================================================
