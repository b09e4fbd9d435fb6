------------------------------- MODULE MCStore -------------------------------
(* Instances of Store for TLC.                                             *)
EXTENDS Store, TLC

CONSTANTS sidecar, mcp, t1, t2, t3

\* The HTTP sidecar alone, with as many requests at a time as it has slots.
OneOwner == [t \in Threads |-> sidecar]
OneRoutes == sidecar :> Calls

\* The sidecar, and its MCP sibling with one request.  The MCP tools load and
\* query contexts; they neither delete nor purge.
TwoOwner == [t \in Threads |-> IF t = t3 THEN mcp ELSE sidecar]
TwoRoutes == OneRoutes @@ mcp :> {"create", "query"}
=============================================================================
