--------------------------------- MODULE Api ---------------------------------
(***************************************************************************)
(* The HTTP surface (src/backend/src/api.rs behind the gate of main.rs):   *)
(* handlers run side by side and are dropped when their client leaves.     *)
(***************************************************************************)
EXTENDS Service

CONSTANTS
    Requests,   \* the HTTP requests that are made
    Token       \* a secret is configured (RYU_EXT_TOKEN)

(* A request carries the secret or not.  Documents in a body are none, ok, *)
(* or something every store refuses: too many characters or no text.  0    *)
(* stands for a blank context_id.                                          *)
DocumentsRefused == {"empty", "too many", "no source"}
Documents == {"ok", "no text"} \cup DocumentsRefused

QueryBody ==
    [op : {"query"}, bearer : BOOLEAN, policy : {"valid", "invalid"},
     query : {"text", "blank", "long"}, context : Ids \cup {0, None},
     documents : Documents \cup {None}, name : {"text", "blank", "long", None}]
Request ==
    QueryBody
    \cup [op : {"list", "runs", "purge"}, bearer : BOOLEAN]
    \cup [op : {"read", "delete", "run"}, bearer : BOOLEAN, id : Ids]
    \cup [op : {"create"}, bearer : BOOLEAN, documents : {"ok", "no text", "empty"}]
    \cup [op : {"from_paths"}, bearer : BOOLEAN, paths : Seq(Nodes \cup {Missing})]

ASSUME ApiAssumption == Requests \subseteq Request /\ Token \in BOOLEAN

Asks(c, op) == At(c, "received") /\ calls[c].req.op = op
Http == mode = "http"
Arrive ==
    /\ Http
    /\ Cardinality(Open) < Slots
    /\ \E req \in Requests : Arrives(req)

(* bearer_gate: without a configured secret nothing passes.                *)
Authorized(req) == Token /\ req.bearer

Unauthorized(c) ==
    /\ Http /\ At(c, "received") /\ ~Authorized(calls[c].req)
    /\ Answers(c, "401")
    /\ UNCHANGED <<mode, host, storeVars, rootsVars>>

Handles(c, op) == Http /\ Asks(c, op) /\ Authorized(calls[c].req)

Reads(c) ==
    /\ \/ (Handles(c, "list") \/ Handles(c, "runs")) /\ Answers(c, "200")
       \/ Handles(c, "read") /\ Answers(c, IF calls[c].req.id \in contexts THEN "200" ELSE "404")
       \/ Handles(c, "run")
          /\ Answers(c, IF \E r \in runs : r.by = calls[c].req.id THEN "200" ELSE "404")
    /\ UNCHANGED <<mode, host, storeVars, rootsVars>>

DeleteContext(c) ==
    /\ Handles(c, "delete")
    /\ Deletes(calls[c].req.id)
    /\ Answers(c, "200")
    /\ UNCHANGED <<mode, host, rootsVars>>

PostPurge(c) ==
    /\ Handles(c, "purge")
    /\ Purges
    /\ Answers(c, "200")
    /\ UNCHANGED <<mode, host, rootsVars>>

(* What a handler does with documents it has: they become a context or the *)
(* store refuses them.                                                     *)
CreateContext(c) ==
    /\ Handles(c, "create")
    /\ \/ calls[c].req.documents = "ok" /\ Creates(c) /\ Answers(c, "200")
       \/ UNCHANGED storeVars /\ Answers(c, "400")
    /\ UNCHANGED <<mode, host, rootsVars>>

FromPaths(c) == Handles(c, "from_paths") /\ StartsLoad(c, calls[c].req.paths)

FromPathsLoaded(c) ==
    /\ Http /\ At(c, "loading") /\ LoadTaken
    /\ \/ docs # <<>> /\ Creates(c) /\ Answers(c, "200")
       \/ UNCHANGED storeVars /\ Answers(c, "400")
    /\ UNCHANGED <<mode, host>>

(* into_validated.                                                         *)
NamesExisting(body) == body.context \in Ids /\ body.documents = None /\ body.name = None
BringsDocuments(body) ==
    /\ body.context = None
    /\ body.documents \in Documents \ DocumentsRefused
    /\ body.name \in {"text", None}
Validated(body) ==
    /\ body.policy = "valid"
    /\ body.query = "text"
    /\ NamesExisting(body) \/ BringsDocuments(body)

Refuses(c, status) ==
    /\ Answers(c, status)
    /\ UNCHANGED <<mode, host, storeVars, rootsVars>>

QueryRefused(c) == Handles(c, "query") /\ ~Validated(calls[c].req) /\ Refuses(c, "400")

(* An existing context is looked up before the host is asked for.          *)
QueryExisting(c) ==
    LET body == calls[c].req IN
    /\ Handles(c, "query") /\ Validated(body) /\ NamesExisting(body)
    /\ \/ body.context \notin contexts /\ Refuses(c, "404")
       \/ body.context \in contexts /\ ~host /\ Refuses(c, "503")
       \/ /\ body.context \in contexts /\ host
          /\ Moves(c, "running", body.context)
          /\ UNCHANGED <<mode, host, storeVars, rootsVars>>

\* The documents are stored before the host is asked for.
QueryInlineStoredFirst(c) ==
    LET body == calls[c].req IN
    /\ Handles(c, "query") /\ Validated(body) /\ BringsDocuments(body)
    /\ \/ body.documents = "ok" /\ Creates(c)
          /\ IF host THEN Moves(c, "running", c) ELSE Answers(c, "503")
       \/ UNCHANGED storeVars /\ Answers(c, "400")
    /\ UNCHANGED <<mode, host, rootsVars>>

(* Documents are stored only once there is a host to read them.            *)
QueryInline(c) ==
    LET body == calls[c].req IN
    /\ Handles(c, "query") /\ Validated(body) /\ BringsDocuments(body)
    /\ \/ ~host /\ UNCHANGED storeVars /\ Answers(c, "503")
       \/ host /\ body.documents = "ok" /\ Creates(c) /\ Moves(c, "running", c)
       \/ host /\ UNCHANGED storeVars /\ Answers(c, "400")
    /\ UNCHANGED <<mode, host, rootsVars>>

\* The answer goes out, the run is not kept.
AnsweredUnsaved(c) ==
    /\ Http /\ At(c, "running")
    /\ Answers(c, "200")
    /\ UNCHANGED <<mode, host, storeVars, rootsVars>>

QueryAnswered(c) == Http /\ QueryReturns(c, "200")

(* The client of a query closes its connection: the handler is dropped at  *)
(* its one await, and what it has stored by then stays.                    *)
ClientLeaves(c) ==
    /\ Http /\ At(c, "running")
    /\ Moves(c, "gone", calls[c].context)
    /\ UNCHANGED <<mode, host, storeVars, rootsVars>>

ApiStep(c) ==
    \/ Unauthorized(c) \/ Reads(c) \/ DeleteContext(c) \/ PostPurge(c)
    \/ CreateContext(c) \/ FromPaths(c) \/ FromPathsLoaded(c)
    \/ QueryRefused(c) \/ QueryExisting(c) \/ QueryInline(c) \/ QueryAnswered(c)
=============================================================================
