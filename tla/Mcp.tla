--------------------------------- MODULE Mcp ---------------------------------
(***************************************************************************)
(* The MCP surface (src/backend/src/mcp.rs over mcp_protocol.rs): frames   *)
(* are read from stdin and answered on stdout one after the other, under   *)
(* the older negotiation, by an initialize, or the newer one, by what each *)
(* request says in its _meta.                                              *)
(***************************************************************************)
EXTENDS Service

CONSTANT Frames \* the frames that are sent

VARIABLES
    legacy_initialized,     \* an initialize has been accepted
    serving                 \* the two streams are open

Methods == {"initialize", "server/discover", "ping", "tools/list", "tools/call", "other", "unparsable"}

(* What a request says of itself: no _meta or one that is no object; one   *)
(* with neither key of the newer protocol; both keys in order; one of them *)
(* missing or malformed; a version that is not supported.                  *)
Metas == {"absent", "malformed", "other", "modern", "incomplete", "unsupported"}
Plain == [tool : {"contexts", "unknown"}]
         \cup [tool : {"grep", "peek"}, context : Ids \cup {None}, argument : BOOLEAN]
         \cup [tool : {"load"}, text : {"ok", "no text", None}, paths : Seq(Nodes \cup {Missing})]
         \cup [tool : {"query"}, query : BOOLEAN, context : Ids \cup {None}, policy : {"valid", "invalid"}]
         \cup [tool : {"ask"}, query : BOOLEAN, paths : Seq(Nodes), policy : {"valid", "invalid"}]
Frame ==
    [method : Methods \ {"tools/call"}, id : BOOLEAN, meta : Metas]
    \cup [method : {"tools/call"}, id : BOOLEAN, meta : Metas, args : Plain]

ASSUME McpAssumption == Frames \subseteq Frame

McpInit == legacy_initialized = FALSE /\ serving = TRUE
mcpVars == <<legacy_initialized, serving>>

(* serve reads a frame once it has answered the one before.                *)
ReadFrame ==
    /\ mode = "mcp" /\ serving
    /\ Open = {}
    /\ \E frame \in Frames : Arrives(frame)
    /\ UNCHANGED mcpVars

(* What cannot be parsed has no id to answer on; notifications carry none. *)
Dropped(frame) == ~frame.id

\* Without _meta a request is taken for one of the older protocol.
VerdictLenient(frame) ==
    CASE frame.meta \in {"absent", "other"} /\ frame.method # "server/discover" -> "legacy"
      [] frame.meta = "modern" -> "modern"
      [] OTHER -> "refused"

(* request_is_modern: a _meta that is there is never read as an absent one.*)
Verdict(frame) ==
    CASE /\ frame.meta \in {"absent", "other"}
         /\ frame.method # "server/discover"
         /\ frame.method = "initialize" \/ legacy_initialized -> "legacy"
      [] frame.meta = "modern" -> "modern"
      [] OTHER -> "refused"

(* finalize_response stamps the result inside a response; the serve loop   *)
(* gives it the result alone, in which it finds none.                      *)
FinalizeResponse(hasResult, frame) == Verdict(frame) = "modern" /\ hasResult
Finalized(frame) == FinalizeResponse(FALSE, frame)

Replies(c, status) ==
    calls' = [calls EXCEPT ![c].at = "answered", ![c].status = status,
                           ![c].stamped = status # "error" /\ Finalized(calls[c].req)]
Unchanged == UNCHANGED <<mode, host, storeVars, rootsVars, serving>>

FrameOf(c) == calls[c].req
Waits(c) == mode = "mcp" /\ serving /\ At(c, "received")

FrameDropped(c) ==
    /\ Waits(c) /\ Dropped(FrameOf(c))
    /\ Moves(c, "gone", None)
    /\ Unchanged /\ UNCHANGED legacy_initialized

Known(frame) ==
    \/ frame.method \in {"server/discover", "tools/list"}
    \/ frame.method \in {"initialize", "ping"} /\ Verdict(frame) = "legacy"

(* Everything that is answered without a tool.                             *)
Dispatch(c) ==
    LET frame == FrameOf(c) IN
    /\ Waits(c) /\ ~Dropped(frame)
    /\ \/ Verdict(frame) = "refused" /\ Replies(c, "error")
       \/ /\ Verdict(frame) # "refused" /\ frame.method # "tools/call"
          /\ Replies(c, IF Known(frame) THEN "result" ELSE "error")
    /\ legacy_initialized' =
         (legacy_initialized \/ (frame.method = "initialize" /\ Verdict(frame) = "legacy"))
    /\ Unchanged

Tool(c, names) ==
    /\ Waits(c) /\ ~Dropped(FrameOf(c))
    /\ FrameOf(c).method = "tools/call"
    /\ Verdict(FrameOf(c)) # "refused"
    /\ FrameOf(c).args.tool \in names
    /\ UNCHANGED legacy_initialized

LooksUp(c) ==
    LET args == FrameOf(c).args
        found == args.tool = "contexts" \/ (args.tool # "unknown" /\ args.context \in contexts /\ args.argument)
    IN  /\ Replies(c, IF found THEN "result" ELSE "tool error")
        /\ Unchanged
ReadTool(c) == Tool(c, {"contexts", "grep", "peek", "unknown"}) /\ LooksUp(c)

ToolError(c) == Replies(c, "tool error") /\ Unchanged

LoadText(c) ==
    /\ Tool(c, {"load"}) /\ FrameOf(c).args.text # None
    /\ \/ FrameOf(c).args.text = "ok" /\ Creates(c) /\ Replies(c, "result")
       \/ UNCHANGED storeVars /\ Replies(c, "tool error")
    /\ UNCHANGED <<mode, host, rootsVars, serving>>

LoadPaths(c) ==
    /\ Tool(c, {"load"}) /\ FrameOf(c).args.text = None
    /\ \/ FrameOf(c).args.paths = <<>> /\ ToolError(c)
       \/ FrameOf(c).args.paths # <<>> /\ StartsLoad(c, FrameOf(c).args.paths) /\ UNCHANGED serving

Ask(c) ==
    LET args == FrameOf(c).args IN
    /\ Tool(c, {"ask"})
    /\ \/ (~args.query \/ ~host \/ args.paths = <<>>) /\ ToolError(c)
       \/ /\ args.query /\ host /\ args.paths # <<>>
          /\ StartsLoad(c, args.paths) /\ UNCHANGED serving

(* The context of an `ask` is there before its policy is looked at: one    *)
(* that is refused leaves it behind.                                       *)
Loaded(c) ==
    LET args == FrameOf(c).args IN
    /\ mode = "mcp" /\ serving /\ At(c, "loading") /\ LoadTaken
    /\ \/ UNCHANGED storeVars /\ Replies(c, "tool error")
       \/ docs # <<>> /\ args.tool = "load" /\ Creates(c) /\ Replies(c, "result")
       \/ /\ docs # <<>> /\ args.tool = "ask" /\ Creates(c)
          /\ IF args.policy = "valid" THEN Moves(c, "running", c) ELSE Replies(c, "tool error")
    /\ UNCHANGED <<mode, host, mcpVars>>

QueryTool(c) ==
    LET args == FrameOf(c).args
        ready == args.query /\ host /\ args.context \in contexts /\ args.policy = "valid"
    IN  /\ Tool(c, {"query"})
        /\ \/ ~ready /\ ToolError(c)
           \/ ready /\ Moves(c, "running", args.context) /\ Unchanged

RunReturns(c) ==
    /\ mode = "mcp" /\ serving /\ At(c, "running")
    /\ Saves(c)
    /\ Replies(c, "result")
    /\ UNCHANGED <<mode, host, rootsVars, mcpVars>>

(* Stdin closes between two frames, or the answer to one cannot be written *)
(* and serve returns: what the call has stored stays.                      *)
StreamEnds ==
    /\ mode = "mcp" /\ serving /\ Open = {}
    /\ serving' = FALSE
    /\ calls' = calls
    /\ UNCHANGED <<mode, host, storeVars, rootsVars, legacy_initialized>>

McpStep(c) ==
    \/ FrameDropped(c) \/ Dispatch(c) \/ ReadTool(c) \/ LoadText(c) \/ LoadPaths(c)
    \/ Ask(c) \/ Loaded(c) \/ QueryTool(c) \/ RunReturns(c)
=============================================================================
