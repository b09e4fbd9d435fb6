------------------------------- MODULE Surface -------------------------------
(***************************************************************************)
(* One process of the sidecar: the surface its command line chose          *)
(* (src/backend/src/main.rs 82-131) over the store and the readable roots. *)
(***************************************************************************)
EXTENDS Api, Mcp

vars == <<serviceVars, mcpVars>>

Init == ServiceInit /\ McpInit

Steps ==
    \/ Arrive /\ UNCHANGED mcpVars
    \/ \E c \in Ids : ApiStep(c) /\ UNCHANGED mcpVars
    \/ \E c \in Ids : ClientLeaves(c) /\ UNCHANGED mcpVars
    \/ ReadFrame
    \/ \E c \in Ids : McpStep(c)
    \/ StreamEnds

(* A walk reads nothing that other calls write and writes nothing that     *)
(* they read, so that it may as well go from start to end on its own.      *)
Next ==
    \/ Walks /\ UNCHANGED mcpVars
    \/ walk # "walking" /\ Steps

Spec == Init /\ [][Next]_vars

(* Handlers and the serve loop run on, the walk is a loop of theirs, and   *)
(* the engine comes back (EveryRunEnds of Host, RunEnds of Engine).        *)
FairSpec ==
    /\ Spec
    /\ \A c \in Ids : WF_vars(walk # "walking" /\ ApiStep(c) /\ UNCHANGED mcpVars)
    /\ \A c \in Ids : WF_vars(walk # "walking" /\ McpStep(c))
    /\ WF_vars(Walks /\ UNCHANGED mcpVars)
-----------------------------------------------------------------------------
Answered(c) == At(c, "answered")
Refused(c) ==
    \/ At(c, "gone") /\ calls[c].context = None
    \/ Answered(c) /\ calls[c].status \in {"400", "401", "404", "503", "error", "tool error"}
Succeeded(c) == Answered(c) /\ ~Refused(c)

(* The one call that is refused after it has stored something: an `ask`    *)
(* with a policy that does not validate (mcp.rs 368, 383-390).             *)
AskWithBadPolicy(c) ==
    /\ mode = "mcp" /\ calls[c].req.method = "tools/call"
    /\ calls[c].req.args.tool = "ask" /\ calls[c].req.args.policy = "invalid"

(***************************************************************************)
(* A call that is answered with an error leaves nothing behind: no context *)
(* of its own and no run, on either surface and wherever it was refused.   *)
(* api.rs 605-608 want it so ("cannot litter the durable context list").   *)
(***************************************************************************)
RefusedLeavesNothing ==
    \A c \in Calls : Refused(c) =>
        /\ c \in contexts => AskWithBadPolicy(c)
        /\ \A r \in runs : r.by # c

(* What has been told to go: a delete of it or a purge has arrived.        *)
ToldToGo(id) ==
    \E d \in Calls : mode = "http" /\ ~Refused(d)
        /\ \/ calls[d].req.op = "purge"
           \/ calls[d].req.op = "delete" /\ calls[d].req.id = id

(***************************************************************************)
(* Answers are durable for those who come after: what a call was told is   *)
(* stored, context or run, is found by every call that arrives after that  *)
(* answer, as long as nobody has asked for it to go; and nothing is found  *)
(* of what had been answered when a purge arrived, once it is answered     *)
(* (api.rs 188-271, 599-683).                                              *)
(***************************************************************************)
AnsweredIsFound ==
    mode = "http" =>
        /\ \A c \in Calls : Succeeded(c) /\ calls[c].req.op \in {"create", "from_paths"} /\ ~ToldToGo(c)
             => c \in contexts
        /\ \A c \in Calls : Succeeded(c) /\ calls[c].req.op = "query" /\ ~ToldToGo(c)
             => \E r \in runs : r.by = c /\ r.of = calls[c].context
        /\ \A p \in Calls : Succeeded(p) /\ calls[p].req.op = "purge"
             => calls[p].seen \cap (contexts \cup {r.by : r \in runs}) = {}

(***************************************************************************)
(* Under the older protocol nothing but the handshake is served before the *)
(* handshake: a frame without the keys of the newer one that got a result  *)
(* came after an initialize that got one (mcp_protocol.rs 41-101).         *)
(***************************************************************************)
NegotiatedFirst ==
    mode = "mcp" =>
        \A c \in Calls :
            Answered(c) /\ calls[c].status # "error" /\ calls[c].req.meta # "modern" =>
                \E k \in 1..c : Succeeded(k) /\ calls[k].req.method = "initialize"

(* Every call is answered, unless its client leaves or it takes no answer. *)
EveryCallAnswered ==
    \A c \in Ids : c \in Open ~> (At(c, "answered") \/ At(c, "gone"))

(* Every modern result is stamped (mcp_protocol.rs 113).                   *)
ModernIsStamped ==
    mode = "mcp" => \A c \in Calls :
        Succeeded(c) /\ calls[c].req.meta = "modern" => calls[c].stamped
=============================================================================
