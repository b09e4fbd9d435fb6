---------------------------- MODULE SurfaceProofs ----------------------------
(***************************************************************************)
(* Proofs about the surface of one process (module Surface: main.rs, api.rs *)
(* and mcp.rs over the store): what is refused leaves nothing, what was    *)
(* answered is found, and the older protocol serves nothing before its     *)
(* handshake, for every set of requests and frames, every file system and  *)
(* any number of calls.                                                    *)
(*                                                                         *)
(* A step of a handler changes one call, and everything the invariant says *)
(* of the others depends on what only ever grows: the calls that have been *)
(* answered.  Effect says what such a step does, lemma EffectKeeps that    *)
(* this keeps the invariant, and there is one lemma for each handler.      *)
(*                                                                         *)
(* That a load is exact is about the walk of store.rs alone: WalkInv says  *)
(* what has been read, is queued or was left out, and that together with   *)
(* what lies below the directories still queued it is all that can be      *)
(* reached.  The handlers only begin a walk or take its result.            *)
(***************************************************************************)
EXTENDS Surface, Induction

Bad == {"400", "401", "404", "503", "error", "tool error"}
Call == [req : Requests \cup Frames,
         at : {"received", "loading", "running", "answered", "gone"},
         context : Nat \cup {None}, status : Bad \cup {"200", "result", None},
         stamped : BOOLEAN, seen : SUBSET Nat]

-----------------------------------------------------------------------------
(* The inductive invariant.                                                *)

IsOpen(c) == calls[c].at \in {"received", "loading", "running"}

(* Where a call is, and what got it there.                                 *)
Placed(c) ==
    /\ calls[c].at = "running" =>
         calls[c].context # None /\ (mode = "http" => calls[c].req.op = "query")
    /\ calls[c].at = "loading" =>
         /\ mode = "http" => calls[c].req.op = "from_paths"
         /\ mode = "mcp" => calls[c].req.method = "tools/call"
    /\ calls[c].seen \subseteq {k \in Calls : calls[k].at = "answered"}
    /\ mode = "http" => calls[c].req \in Requests
    /\ mode = "mcp" =>
         /\ calls[c].req \in Frames
         /\ IsOpen(c) => c = Len(calls)
         /\ calls[c].at \in {"loading", "running"} =>
              calls[c].req.meta = "modern" \/ legacy_initialized

(* What a call has left, if it left anything.                              *)
Kept(c) ==
    c \in contexts =>
        /\ calls[c].at \in {"running", "gone", "answered"}
        /\ Refused(c) => AskWithBadPolicy(c)
RanBy(c) == \E r \in runs : r.by = c
Ran(c) == RanBy(c) => Succeeded(c)

(* A delete or a purge that has been answered.                             *)
Removed(id) ==
    \E d \in Calls : Succeeded(d) /\ \/ calls[d].req.op = "purge"
                                     \/ calls[d].req.op = "delete" /\ calls[d].req.id = id

Found(c) ==
    mode = "http" /\ Succeeded(c) =>
        /\ calls[c].req.op \in {"create", "from_paths"} => c \in contexts \/ Removed(c)
        /\ calls[c].req.op = "query" =>
             (\E r \in runs : r.by = c /\ r.of = calls[c].context) \/ Removed(c)
        /\ calls[c].req.op = "purge" =>
             \A k \in calls[c].seen : k \notin contexts /\ ~RanBy(k)

Shaken(c) == \E k \in 1 .. c : Succeeded(k) /\ calls[k].req.method = "initialize"
Negotiated(c) ==
    mode = "mcp" /\ Answered(c) /\ calls[c].status # "error" /\ calls[c].req.meta # "modern" =>
        Shaken(c)

CallInv(c) == Placed(c) /\ Kept(c) /\ Ran(c) /\ Found(c) /\ Negotiated(c)

IInv ==
    /\ mode \in {"http", "mcp"}
    /\ calls \in Seq(Call)
    /\ contexts \subseteq Calls
    /\ \A r \in runs : r.by \in Calls
    /\ \A c \in Calls : CallInv(c)
    /\ legacy_initialized => mode = "mcp" /\ Shaken(Len(calls))

-----------------------------------------------------------------------------
(* A step of one call.                                                     *)

Only(c) ==
    /\ calls' \in Seq(Call) /\ Len(calls') = Len(calls) /\ DOMAIN calls' = DOMAIN calls
    /\ \A k \in Calls \ {c} : calls'[k] = calls[k]
    /\ calls'[c].req = calls[c].req /\ calls'[c].seen = calls[c].seen

Effect(c) ==
    /\ c \in Calls /\ IsOpen(c)
    /\ Only(c)
    /\ mode' = mode
    /\ contexts' \subseteq contexts \cup {c}
    /\ \A r \in runs' : r \in runs \/ r.by = c
    /\ mode = "http" =>
         /\ \A k \in contexts \ contexts' : Removed(k)'
         /\ \A r \in runs \ runs' : Removed(r.by)'
    /\ Placed(c)' /\ Kept(c)' /\ Ran(c)' /\ Found(c)' /\ Negotiated(c)'
    /\ legacy_initialized => legacy_initialized'
    /\ legacy_initialized' =>
         \/ legacy_initialized
         \/ mode = "mcp" /\ Succeeded(c)' /\ calls[c].req.method = "initialize"

(* What has been answered stays as it is.                                  *)
LEMMA Stays ==
    ASSUME NEW c, Effect(c), NEW k \in Calls, k # c
    PROVE  /\ Answered(k)' = Answered(k) /\ Refused(k)' = Refused(k) /\ Succeeded(k)' = Succeeded(k)
           /\ AskWithBadPolicy(k)' = AskWithBadPolicy(k)
  BY DEF Effect, Only, Calls, Answered, At, Refused, Succeeded, AskWithBadPolicy

LEMMA StaysRemoved ==
    ASSUME NEW c, Effect(c), NEW id, Removed(id)
    PROVE  Removed(id)'
  <1>1. PICK d \in Calls : Succeeded(d) /\ \/ calls[d].req.op = "purge"
                                           \/ calls[d].req.op = "delete" /\ calls[d].req.id = id
    BY DEF Removed
  <1>2. d # c
    BY <1>1 DEF Effect, IsOpen, Succeeded, Answered, At
  <1>3. Succeeded(d)' /\ calls'[d] = calls[d] /\ d \in Calls'
    BY <1>1, <1>2, Stays DEF Effect, Only, Calls
  <1>4. QED
    BY <1>1, <1>3 DEF Removed

LEMMA StaysShaken ==
    ASSUME NEW c, Effect(c), NEW n, Shaken(n)
    PROVE  Shaken(n)'
  <1>1. PICK k \in 1 .. n : Succeeded(k) /\ calls[k].req.method = "initialize"
    BY DEF Shaken
  <1>2. k # c /\ k \in Calls
    BY <1>1 DEF Effect, IsOpen, Succeeded, Answered, At
  <1>3. Succeeded(k)' /\ calls'[k] = calls[k]
    BY <1>1, <1>2, Stays DEF Effect, Only, Calls
  <1>4. QED
    BY <1>1, <1>3 DEF Shaken

LEMMA EffectKeeps == ASSUME IInv, NEW c, Effect(c) PROVE IInv'
  <1>1. /\ calls' \in Seq(Call) /\ Len(calls') = Len(calls) /\ Calls' = Calls /\ mode' = mode
        /\ c \in Calls
        /\ \A k \in Calls \ {c} : calls'[k] = calls[k]
    BY DEF Effect, Only, Calls
  <1>2. ASSUME NEW k \in Calls, k # c
        PROVE  CallInv(k)'
    <2>1. calls'[k] = calls[k] /\ CallInv(k)
      BY <1>1, <1>2 DEF IInv
    <2>2. Placed(k)'
      <3>1. {j \in Calls : calls[j].at = "answered"} \subseteq {j \in Calls' : calls'[j].at = "answered"}
        BY <1>1 DEF Effect, IsOpen
      <3>2. QED
        BY <1>1, <2>1, <3>1 DEF CallInv, Placed, IsOpen, Effect
    <2>3. Kept(k)'
      BY <1>1, <1>2, <2>1, Stays DEF CallInv, Kept, Effect
    <2>4. Ran(k)'
      BY <1>1, <1>2, <2>1, Stays DEF CallInv, Ran, RanBy, Effect
    <2>5. Found(k)'
      <3> SUFFICES ASSUME mode = "http", Succeeded(k)
                   PROVE  /\ calls[k].req.op \in {"create", "from_paths"} => k \in contexts' \/ Removed(k)'
                          /\ calls[k].req.op = "query" =>
                               (\E r \in runs' : r.by = k /\ r.of = calls[k].context) \/ Removed(k)'
                          /\ calls[k].req.op = "purge" =>
                               \A j \in calls[k].seen : j \notin contexts' /\ ~RanBy(j)'
        BY <1>1, <1>2, <2>1, Stays DEF Found
      <3>1. calls[k].req.op \in {"create", "from_paths"} => k \in contexts' \/ Removed(k)'
        BY <2>1, StaysRemoved DEF CallInv, Found, Effect
      <3>2. calls[k].req.op = "query" => (\E r \in runs' : r.by = k /\ r.of = calls[k].context) \/ Removed(k)'
        BY <2>1, StaysRemoved DEF CallInv, Found, Effect
      <3>3. ASSUME calls[k].req.op = "purge", NEW j \in calls[k].seen
            PROVE  j \notin contexts' /\ ~RanBy(j)'
        <4>1. j # c
          BY <2>1 DEF CallInv, Placed, Effect, IsOpen
        <4>2. j \notin contexts /\ ~RanBy(j)
          BY <2>1, <3>3 DEF CallInv, Found
        <4>3. QED
          BY <4>1, <4>2 DEF Effect, RanBy
      <3>4. QED
        BY <3>1, <3>2, <3>3
    <2>6. Negotiated(k)'
      BY <1>1, <1>2, <2>1, Stays, StaysShaken DEF CallInv, Negotiated
    <2>7. QED
      BY <2>2, <2>3, <2>4, <2>5, <2>6 DEF CallInv
  <1>3. CallInv(c)'
    BY DEF Effect, CallInv
  <1>4. contexts' \subseteq Calls' /\ \A r \in runs' : r.by \in Calls'
    BY <1>1 DEF Effect, IInv
  <1>5. legacy_initialized' => mode' = "mcp" /\ Shaken(Len(calls))'
    <2>1. CASE legacy_initialized
      BY <1>1, <2>1, StaysShaken DEF IInv
    <2>2. CASE mode = "mcp" /\ Succeeded(c)' /\ calls[c].req.method = "initialize"
      <3>1. c \in 1 .. Len(calls)
        BY <1>1 DEF IInv, Calls
      <3>2. calls'[c].req = calls[c].req
        BY DEF Effect, Only
      <3>3. QED
        BY <1>1, <2>2, <3>1, <3>2 DEF Shaken
    <2>3. QED
      BY <2>1, <2>2 DEF Effect
  <1>6. QED
    BY <1>1, <1>2, <1>3, <1>4, <1>5 DEF IInv

-----------------------------------------------------------------------------
(* What the three ways to move a call do to it.                            *)

LEMMA CallFields ==
    ASSUME IInv, NEW c \in Calls
    PROVE  calls[c] \in Call /\ c \in 1 .. Len(calls) /\ Len(calls) \in Nat
  BY DEF IInv, Calls

Goes(c, at, status) == calls'[c].at = at /\ calls'[c].status = status

LEMMA AnswersOnly ==
    ASSUME IInv, NEW c \in Calls, NEW s \in Bad \cup {"200", "result"}, Answers(c, s)
    PROVE  Only(c) /\ Goes(c, "answered", s) /\ calls'[c].context = calls[c].context
  <1> DEFINE g == [calls[c] EXCEPT !.at = "answered", !.status = s]
  <1>1. g \in Call /\ g.at = "answered" /\ g.status = s
        /\ g.req = calls[c].req /\ g.seen = calls[c].seen /\ g.context = calls[c].context
    BY CallFields DEF Call
  <1>2. calls' = [calls EXCEPT ![c] = g]
    BY DEF Answers, IInv, Calls
  <1> HIDE DEF g
  <1>3. QED
    BY <1>1, <1>2, CallFields DEF IInv, Only, Goes, Calls

LEMMA RepliesOnly ==
    ASSUME IInv, NEW c \in Calls, NEW s \in Bad \cup {"200", "result"}, Replies(c, s)
    PROVE  Only(c) /\ Goes(c, "answered", s) /\ calls'[c].context = calls[c].context
  <1> DEFINE stamped == s # "error" /\ Finalized(calls[c].req)
             g == [calls[c] EXCEPT !.at = "answered", !.status = s, !.stamped = stamped]
  <1>1. stamped \in BOOLEAN
    OBVIOUS
  <1>2. calls' = [calls EXCEPT ![c] = g]
    BY DEF Replies, IInv, Calls
  <1> HIDE DEF stamped
  <1>3. g \in Call /\ g.at = "answered" /\ g.status = s
        /\ g.req = calls[c].req /\ g.seen = calls[c].seen /\ g.context = calls[c].context
    BY <1>1, CallFields DEF Call
  <1> HIDE DEF g
  <1>4. QED
    BY <1>2, <1>3, CallFields DEF IInv, Only, Goes, Calls

LEMMA MovesOnly ==
    ASSUME IInv, NEW c \in Calls, NEW place \in {"loading", "running", "gone"},
           NEW context \in Nat \cup {None}, Moves(c, place, context)
    PROVE  Only(c) /\ calls'[c].at = place /\ calls'[c].context = context
  <1> DEFINE g == [calls[c] EXCEPT !.at = place, !.context = context]
  <1>1. g \in Call /\ g.at = place /\ g.context = context
        /\ g.req = calls[c].req /\ g.seen = calls[c].seen
    BY CallFields DEF Call
  <1>2. calls' = [calls EXCEPT ![c] = g]
    BY DEF Moves, IInv, Calls
  <1> HIDE DEF g
  <1>3. QED
    BY <1>1, <1>2, CallFields DEF IInv, Only, Calls

(* What an open call has not done yet.                                     *)
LEMMA OpenCalls ==
    ASSUME IInv, NEW c \in Calls, IsOpen(c)
    PROVE  /\ ~RanBy(c) /\ (c \in contexts => calls[c].at = "running")
           /\ c \notin calls[c].seen
           /\ calls[c].seen \subseteq {k \in Calls : calls[k].at = "answered" /\ k # c}
           /\ mode = "mcp" => c = Len(calls)
           /\ CallInv(c) /\ mode \in {"http", "mcp"}
  <1>1. CallInv(c) /\ mode \in {"http", "mcp"}
    BY DEF IInv
  <1>2. ~Succeeded(c) /\ calls[c].at # "gone" /\ calls[c].at # "answered"
    BY DEF IsOpen, Succeeded, Answered, At
  <1>3. QED
    BY <1>1, <1>2 DEF CallInv, Placed, Kept, Ran, IsOpen

LEMMA AnswerKinds ==
    ASSUME NEW c \in Calls, Only(c), NEW s, Goes(c, "answered", s)
    PROVE  /\ Answered(c)' /\ (Refused(c)' <=> s \in Bad) /\ (Succeeded(c)' <=> s \notin Bad)
           /\ (mode' = mode => AskWithBadPolicy(c)' = AskWithBadPolicy(c))
  BY DEF Only, Goes, Answered, At, Calls, Refused, Succeeded, Bad, AskWithBadPolicy

(* The other calls that had been answered still are.                       *)
LEMMA SeenStays ==
    ASSUME IInv, NEW c \in Calls, IsOpen(c), Only(c)
    PROVE  calls'[c].seen \subseteq {k \in Calls' : calls'[k].at = "answered"}
  BY OpenCalls DEF Only, Calls

-----------------------------------------------------------------------------
(* Answers on the HTTP surface.                                            *)

Adds(c) == contexts \subseteq contexts' /\ contexts' \subseteq contexts \cup {c}
           /\ runs \subseteq runs' /\ \A r \in runs' : r \in runs \/ r.by = c

LEMMA HttpAnswers ==
    ASSUME IInv, mode = "http", NEW c \in Calls, IsOpen(c), NEW s \in Bad \cup {"200"},
           Answers(c, s), mode' = mode, UNCHANGED mcpVars,
           contexts' \subseteq contexts \cup {c},
           \A r \in runs' : r \in runs \/ r.by = c,
           \A k \in contexts \ contexts' : Removed(k)',
           \A r \in runs \ runs' : Removed(r.by)',
           s \in Bad => c \notin contexts' /\ ~RanBy(c)',
           Found(c)'
    PROVE  IInv'
  <1>1. Only(c) /\ Goes(c, "answered", s)
    BY AnswersOnly
  <1>2. /\ Answered(c)' /\ (Refused(c)' <=> s \in Bad) /\ (Succeeded(c)' <=> s \notin Bad)
    BY <1>1, AnswerKinds
  <1>3. Placed(c)'
    BY <1>1, SeenStays, OpenCalls DEF CallInv, Placed, Goes, Only
  <1>4. Kept(c)' /\ Ran(c)'
    BY <1>1, <1>2 DEF Kept, Ran, Goes
  <1>5. Negotiated(c)'
    BY DEF Negotiated
  <1>6. legacy_initialized' = legacy_initialized
    BY DEF mcpVars
  <1>7. Effect(c)
    BY <1>1, <1>3, <1>4, <1>5, <1>6 DEF Effect
  <1>8. QED
    BY <1>7, EffectKeeps

(* A refusal touches nothing.                                              *)
LEMMA HttpRefuses ==
    ASSUME IInv, mode = "http", NEW c \in Calls, calls[c].at \in {"received", "loading"},
           NEW s \in Bad, Answers(c, s), mode' = mode, UNCHANGED <<mcpVars, storeVars>>
    PROVE  IInv'
  <1>1. IsOpen(c) /\ c \notin contexts /\ ~RanBy(c)
    BY OpenCalls DEF IsOpen
  <1>2. UNCHANGED mcpVars /\ contexts' = contexts /\ runs' = runs /\ ~RanBy(c)'
    BY <1>1 DEF storeVars, RanBy
  <1>3. ~Succeeded(c)'
    BY AnswersOnly, AnswerKinds
  <1>4. Found(c)'
    BY <1>3 DEF Found
  <1>5. QED
    BY <1>1, <1>2, <1>4, HttpAnswers

(* A call that answers well and only adds to the store.                    *)
LEMMA HttpServes ==
    ASSUME IInv, mode = "http", NEW c \in Calls, IsOpen(c),
           Answers(c, "200"), mode' = mode, UNCHANGED mcpVars, Adds(c),
           calls[c].req.op \in {"create", "from_paths"} => c \in contexts',
           calls[c].req.op = "query" => \E r \in runs' : r.by = c /\ r.of = calls[c].context,
           calls[c].req.op # "purge"
    PROVE  IInv'
  <1>1. Only(c) /\ calls'[c].context = calls[c].context
    BY AnswersOnly
  <1>2. Found(c)'
    BY <1>1 DEF Found, Only
  <1>3. "200" \notin Bad
    BY DEF Bad
  <1>4. QED
    BY <1>2, <1>3, HttpAnswers DEF Adds

LEMMA HandlesFacts ==
    ASSUME IInv, NEW c, NEW op, Handles(c, op)
    PROVE  /\ mode = "http" /\ c \in Calls /\ IsOpen(c) /\ calls[c].at = "received"
           /\ calls[c].req.op = op /\ c \notin contexts
  <1>1. mode = "http" /\ c \in Calls /\ calls[c].at = "received" /\ calls[c].req.op = op /\ IsOpen(c)
    BY DEF Handles, Http, Asks, At, IsOpen
  <1>2. QED
    BY <1>1, OpenCalls

LEMMA UnauthorizedInv ==
    ASSUME IInv, NEW c, Unauthorized(c), UNCHANGED mcpVars
    PROVE  IInv'
  <1>1. /\ mode = "http" /\ c \in Calls /\ calls[c].at = "received"
        /\ Answers(c, "401") /\ mode' = mode /\ UNCHANGED storeVars
    BY DEF Unauthorized, Http, At
  <1>2. "401" \in Bad
    BY DEF Bad
  <1>3. QED
    BY <1>1, <1>2, HttpRefuses

LEMMA ReadsInv ==
    ASSUME IInv, NEW c, Reads(c), UNCHANGED mcpVars
    PROVE  IInv'
  <1>1. PICK op \in {"list", "runs", "read", "run"}, s \in {"200", "404"} :
          Handles(c, op) /\ Answers(c, s)
    BY DEF Reads
  <1>2. /\ mode = "http" /\ c \in Calls /\ IsOpen(c) /\ calls[c].at = "received"
        /\ calls[c].req.op = op
    BY <1>1, HandlesFacts
  <1>3. mode' = mode /\ UNCHANGED storeVars /\ contexts' = contexts /\ runs' = runs
    BY DEF Reads, storeVars
  <1>4. CASE s = "404"
    BY <1>1, <1>2, <1>3, <1>4, HttpRefuses DEF Bad
  <1>5. CASE s = "200"
    BY <1>1, <1>2, <1>3, <1>5, HttpServes DEF Adds
  <1>6. QED
    BY <1>4, <1>5

LEMMA DeleteContextInv ==
    ASSUME IInv, NEW c, DeleteContext(c), UNCHANGED mcpVars
    PROVE  IInv'
  <1>1. /\ Handles(c, "delete") /\ Deletes(calls[c].req.id) /\ Answers(c, "200") /\ mode' = mode
    BY DEF DeleteContext
  <1>2. /\ mode = "http" /\ c \in Calls /\ IsOpen(c) /\ calls[c].at = "received"
        /\ calls[c].req.op = "delete"
    BY <1>1, HandlesFacts
  <1>3. Only(c) /\ Goes(c, "answered", "200") /\ "200" \notin Bad
    BY <1>1, <1>2, AnswersOnly DEF Bad
  <1>4. Succeeded(c)' /\ c \in Calls' /\ calls'[c].req = calls[c].req
    BY <1>2, <1>3, AnswerKinds DEF Only, Calls
  <1>5. contexts' = contexts \ {calls[c].req.id} /\ runs' = runs
    BY <1>1 DEF Deletes
  <1>6. Removed(calls[c].req.id)'
    BY <1>2, <1>4 DEF Removed
  <1>7. Found(c)'
    BY <1>2, <1>4 DEF Found
  <1>8. /\ contexts' \subseteq contexts \cup {c} /\ \A k \in contexts \ contexts' : Removed(k)'
        /\ \A r \in runs' : r \in runs \/ r.by = c
        /\ \A r \in runs \ runs' : Removed(r.by)'
    <2> DEFINE id == calls[c].req.id
               gone(k) == Removed(k)'
    <2>1. contexts' = contexts \ {id} /\ runs' = runs /\ gone(id)
      BY <1>5, <1>6
    <2> HIDE DEF id, gone
    <2>2. /\ contexts' \subseteq contexts \cup {c} /\ \A k \in contexts \ contexts' : gone(k)
          /\ \A r \in runs' : r \in runs \/ r.by = c
          /\ \A r \in runs \ runs' : gone(r.by)
      BY <2>1
    <2>3. QED
      BY <2>2 DEF gone
  <1>9. QED
    BY <1>1, <1>2, <1>3, <1>7, <1>8, HttpAnswers

LEMMA PostPurgeInv ==
    ASSUME IInv, NEW c, PostPurge(c), UNCHANGED mcpVars
    PROVE  IInv'
  <1>1. Handles(c, "purge") /\ Purges /\ Answers(c, "200") /\ mode' = mode
    BY DEF PostPurge
  <1>2. /\ mode = "http" /\ c \in Calls /\ IsOpen(c) /\ calls[c].at = "received"
        /\ calls[c].req.op = "purge"
    BY <1>1, HandlesFacts
  <1>3. Only(c) /\ Goes(c, "answered", "200") /\ "200" \notin Bad
    BY <1>1, <1>2, AnswersOnly DEF Bad
  <1>4. Succeeded(c)' /\ c \in Calls' /\ calls'[c].req = calls[c].req
    BY <1>2, <1>3, AnswerKinds DEF Only, Calls
  <1>5. contexts' = {} /\ runs' = {}
    BY <1>1 DEF Purges
  <1>6. \A id : Removed(id)'
    BY <1>2, <1>4 DEF Removed
  <1>7. Found(c)'
    BY <1>2, <1>4, <1>5 DEF Found, RanBy
  <1>8. QED
    BY <1>1, <1>2, <1>3, <1>5, <1>6, <1>7, HttpAnswers

LEMMA CreateContextInv ==
    ASSUME IInv, NEW c, CreateContext(c), UNCHANGED mcpVars
    PROVE  IInv'
  <1>1. /\ mode = "http" /\ c \in Calls /\ IsOpen(c) /\ calls[c].at = "received"
        /\ calls[c].req.op = "create" /\ mode' = mode
    BY HandlesFacts DEF CreateContext
  <1>2. CASE Creates(c) /\ Answers(c, "200")
    BY <1>1, <1>2, HttpServes DEF Creates, Adds
  <1>3. CASE UNCHANGED storeVars /\ Answers(c, "400")
    BY <1>1, <1>3, HttpRefuses DEF Bad
  <1>4. QED
    BY <1>2, <1>3 DEF CreateContext

LEMMA FromPathsLoadedInv ==
    ASSUME IInv, NEW c, FromPathsLoaded(c), UNCHANGED mcpVars
    PROVE  IInv'
  <1>1. /\ mode = "http" /\ c \in Calls /\ IsOpen(c) /\ calls[c].at = "loading" /\ mode' = mode
    BY DEF FromPathsLoaded, Http, At, IsOpen
  <1>2. calls[c].req.op = "from_paths"
    BY <1>1, OpenCalls DEF CallInv, Placed
  <1>3. CASE Creates(c) /\ Answers(c, "200")
    BY <1>1, <1>2, <1>3, HttpServes DEF Creates, Adds
  <1>4. CASE UNCHANGED storeVars /\ Answers(c, "400")
    BY <1>1, <1>4, HttpRefuses DEF Bad
  <1>5. QED
    BY <1>3, <1>4 DEF FromPathsLoaded

LEMMA QueryAnsweredInv ==
    ASSUME IInv, NEW c, QueryAnswered(c), UNCHANGED mcpVars
    PROVE  IInv'
  <1>1. /\ mode = "http" /\ c \in Calls /\ IsOpen(c) /\ calls[c].at = "running" /\ mode' = mode
        /\ Saves(c) /\ Answers(c, "200")
    BY DEF QueryAnswered, QueryReturns, Http, At, IsOpen
  <1>2. calls[c].req.op = "query"
    BY <1>1, OpenCalls DEF CallInv, Placed
  <1>3. contexts' = contexts /\ runs' = runs \cup {[by |-> c, of |-> calls[c].context]}
    BY <1>1 DEF Saves
  <1>4. Adds(c) /\ \E r \in runs' : r.by = c /\ r.of = calls[c].context
    <2> DEFINE mine == [by |-> c, of |-> calls[c].context]
    <2>1. mine.by = c /\ mine.of = calls[c].context
      OBVIOUS
    <2> HIDE DEF mine
    <2>2. contexts' = contexts /\ runs' = runs \cup {mine}
      BY <1>3 DEF mine
    <2>3. QED
      BY <2>1, <2>2 DEF Adds
  <1>5. QED
    BY <1>1, <1>2, <1>4, HttpServes

-----------------------------------------------------------------------------
(* The calls that go on, on either surface.                                *)

(* A call moves on: to load, to run, or away.                              *)
LEMMA MovesEffect ==
    ASSUME IInv, NEW c \in Calls, IsOpen(c), mode' = mode, legacy_initialized' = legacy_initialized,
           NEW place \in {"loading", "running", "gone"}, NEW context \in Nat \cup {None},
           Moves(c, place, context),
           contexts' = contexts \/ (contexts' = contexts \cup {c} /\ place = "running"),
           runs' = runs,
           place = "running" => context # None /\ (mode = "http" => calls[c].req.op = "query"),
           place = "loading" => /\ mode = "http" => calls[c].req.op = "from_paths"
                                /\ mode = "mcp" => calls[c].req.method = "tools/call",
           place # "gone" /\ mode = "mcp" => calls[c].req.meta = "modern" \/ legacy_initialized,
           place = "gone" => c \notin contexts \/ context # None,
           place = "loading" => calls[c].at = "received"
    PROVE  IInv'
  <1>1. Only(c) /\ calls'[c].at = place /\ calls'[c].context = context
    BY MovesOnly
  <1>2. /\ ~Answered(c)' /\ ~Succeeded(c)'
        /\ (Refused(c)' => place = "gone" /\ context = None)
    BY <1>1 DEF Answered, At, Succeeded, Refused
  <1>3. Placed(c)'
    <2>1. calls'[c].seen \subseteq {k \in Calls' : calls'[k].at = "answered"}
      BY <1>1, SeenStays
    <2>2. /\ mode = "mcp" => calls'[c].req \in Frames /\ c = Len(calls')
          /\ mode = "http" => calls'[c].req \in Requests
          /\ calls'[c].req = calls[c].req
      BY <1>1, OpenCalls DEF CallInv, Placed, Only
    <2>3. QED
      BY <1>1, <2>1, <2>2 DEF Placed
  <1>4. Kept(c)'
    <2>1. c \in contexts' => place \in {"running", "gone"}
      BY OpenCalls
    <2>2. c \in contexts' => ~Refused(c)'
      BY <1>2
    <2>3. QED
      BY <1>1, <2>1, <2>2 DEF Kept
  <1>5. Ran(c)'
    BY OpenCalls DEF Ran, RanBy
  <1>6. Found(c)' /\ Negotiated(c)'
    BY <1>2 DEF Found, Negotiated
  <1>7. Effect(c)
    BY <1>1, <1>3, <1>4, <1>5, <1>6 DEF Effect
  <1>8. QED
    BY <1>7, EffectKeeps

LEMMA FromPathsInv ==
    ASSUME IInv, NEW c, FromPaths(c), UNCHANGED mcpVars
    PROVE  IInv'
  <1>1. Handles(c, "from_paths") /\ Moves(c, "loading", None) /\ mode' = mode /\ UNCHANGED storeVars
    BY DEF FromPaths, StartsLoad
  <1>2. /\ mode = "http" /\ c \in Calls /\ IsOpen(c) /\ calls[c].at = "received"
        /\ calls[c].req.op = "from_paths"
    BY <1>1, HandlesFacts
  <1>3. contexts' = contexts /\ runs' = runs /\ legacy_initialized' = legacy_initialized
    BY <1>1 DEF storeVars, mcpVars
  <1>4. QED
    BY <1>1, <1>2, <1>3, MovesEffect

LEMMA QueryRefusedInv ==
    ASSUME IInv, NEW c, QueryRefused(c), UNCHANGED mcpVars
    PROVE  IInv'
  <1>1. /\ mode = "http" /\ c \in Calls /\ calls[c].at = "received"
        /\ Answers(c, "400") /\ mode' = mode /\ UNCHANGED storeVars
    BY HandlesFacts DEF QueryRefused, Refuses
  <1>2. QED
    BY <1>1, HttpRefuses DEF Bad

LEMMA QueryExistingInv ==
    ASSUME IInv, NEW c, QueryExisting(c), UNCHANGED mcpVars
    PROVE  IInv'
  <1>1. /\ mode = "http" /\ c \in Calls /\ IsOpen(c) /\ calls[c].at = "received"
        /\ calls[c].req.op = "query"
    BY HandlesFacts DEF QueryExisting
  <1>2. CASE Refuses(c, "404") \/ Refuses(c, "503")
    BY <1>1, <1>2, HttpRefuses DEF Refuses, Bad
  <1>3. CASE /\ Moves(c, "running", calls[c].req.context)
             /\ UNCHANGED <<mode, host, storeVars, rootsVars>>
    <2>1. calls[c].req.context \in Nat
      BY DEF QueryExisting, NamesExisting, Validated, Ids
    <2>2. None \notin Nat
      BY ServiceAssumption
    <2>3. contexts' = contexts /\ runs' = runs /\ legacy_initialized' = legacy_initialized /\ mode' = mode
      BY <1>3 DEF storeVars, mcpVars
    <2>4. QED
      BY <1>1, <1>3, <2>1, <2>2, <2>3, MovesEffect
  <1>4. QED
    BY <1>2, <1>3 DEF QueryExisting

LEMMA QueryInlineInv ==
    ASSUME IInv, NEW c, QueryInline(c), UNCHANGED mcpVars
    PROVE  IInv'
  <1>1. /\ mode = "http" /\ c \in Calls /\ IsOpen(c) /\ calls[c].at = "received"
        /\ calls[c].req.op = "query" /\ mode' = mode
    BY HandlesFacts DEF QueryInline
  <1>2. CASE UNCHANGED storeVars /\ (Answers(c, "503") \/ Answers(c, "400"))
    BY <1>1, <1>2, HttpRefuses DEF Bad
  <1>3. CASE Creates(c) /\ Moves(c, "running", c)
    <2>1. c \in Nat /\ None \notin Nat
      BY <1>1, CallFields, ServiceAssumption
    <2>2. /\ contexts' = contexts \cup {c} /\ runs' = runs
          /\ legacy_initialized' = legacy_initialized
      BY <1>3 DEF Creates, mcpVars
    <2>3. QED
      BY <1>1, <1>3, <2>1, <2>2, MovesEffect
  <1>4. QED
    BY <1>2, <1>3 DEF QueryInline

LEMMA ClientLeavesInv ==
    ASSUME IInv, NEW c, ClientLeaves(c), UNCHANGED mcpVars
    PROVE  IInv'
  <1>1. /\ mode = "http" /\ c \in Calls /\ calls[c].at = "running" /\ IsOpen(c)
        /\ Moves(c, "gone", calls[c].context) /\ mode' = mode
        /\ contexts' = contexts /\ runs' = runs /\ legacy_initialized' = legacy_initialized
    BY DEF ClientLeaves, Http, At, IsOpen, storeVars, mcpVars
  <1>2. calls[c].context \in Nat \cup {None} /\ calls[c].context # None
    <2>1. calls[c] \in Call
      BY <1>1, CallFields
    <2>2. calls[c].context # None
      BY <1>1, OpenCalls DEF CallInv, Placed
    <2>3. QED
      BY <2>1, <2>2 DEF Call
  <1>3. QED
    BY <1>1, <1>2, MovesEffect

LEMMA ApiInv == ASSUME IInv, NEW c, ApiStep(c), UNCHANGED mcpVars PROVE IInv'
  BY UnauthorizedInv, ReadsInv, DeleteContextInv, PostPurgeInv, CreateContextInv, FromPathsInv,
     FromPathsLoadedInv, QueryRefusedInv, QueryExistingInv, QueryInlineInv, QueryAnsweredInv
     DEF ApiStep

-----------------------------------------------------------------------------
(* The frames of the MCP surface.                                          *)

LEMMA McpReplies ==
    ASSUME IInv, mode = "mcp", NEW c \in Calls, IsOpen(c), NEW s \in Bad \cup {"result"},
           Replies(c, s), mode' = mode, legacy_initialized => legacy_initialized',
           Adds(c),
           s \in Bad => (c \in contexts' => AskWithBadPolicy(c)) /\ ~RanBy(c)',
           s # "error" => \/ calls[c].req.meta = "modern"
                          \/ legacy_initialized
                          \/ s = "result" /\ calls[c].req.method = "initialize",
           legacy_initialized' =>
             legacy_initialized \/ (s = "result" /\ calls[c].req.method = "initialize")
    PROVE  IInv'
  <1>1. Only(c) /\ Goes(c, "answered", s)
    BY RepliesOnly
  <1>2. /\ Answered(c)' /\ (Refused(c)' <=> s \in Bad) /\ (Succeeded(c)' <=> s \notin Bad)
        /\ AskWithBadPolicy(c)' = AskWithBadPolicy(c)
    BY <1>1, AnswerKinds
  <1>3. Placed(c)'
    <2>1. calls'[c].seen \subseteq {k \in Calls' : calls'[k].at = "answered"}
      BY <1>1, SeenStays
    <2>2. calls'[c].req \in Frames
      BY <1>1, OpenCalls DEF CallInv, Placed, Only
    <2>3. QED
      BY <1>1, <2>1, <2>2 DEF Placed, Goes, IsOpen
  <1>4. Kept(c)' /\ Ran(c)'
    BY <1>1, <1>2 DEF Kept, Ran, Goes
  <1>5. Found(c)'
    BY DEF Found
  <1>6. "result" \notin Bad /\ c \in 1 .. c
    <2>1. c \in 1 .. Len(calls) /\ Len(calls) \in Nat
      BY CallFields
    <2>2. c \in Nat /\ 1 <= c
      BY <2>1
    <2>3. c \in 1 .. c
      BY <2>2
    <2>4. "result" \notin Bad
      BY DEF Bad
    <2>5. QED
      BY <2>3, <2>4
  <1>7. Negotiated(c)'
    <2> SUFFICES ASSUME s # "error", calls[c].req.meta # "modern"
                 PROVE  Shaken(c)'
      BY <1>1 DEF Negotiated, Only, Goes
    <2>1. CASE legacy_initialized
      <3>1. PICK k \in 1 .. c : Succeeded(k) /\ calls[k].req.method = "initialize"
        BY <2>1, OpenCalls DEF IInv, Shaken
      <3>2. k \in Calls /\ k # c
        BY <3>1 DEF Succeeded, Answered, At, IsOpen
      <3>3. calls'[k] = calls[k] /\ Succeeded(k)'
        BY <1>1, <3>1, <3>2 DEF Only, Succeeded, Answered, At, Refused, Calls
      <3>4. QED
        BY <3>1, <3>3 DEF Shaken
    <2>2. CASE s = "result" /\ calls[c].req.method = "initialize"
      BY <1>1, <1>2, <1>6, <2>2 DEF Shaken, Only
    <2>3. QED
      BY <2>1, <2>2
  <1>8. Effect(c)
    BY <1>1, <1>2, <1>3, <1>4, <1>5, <1>6, <1>7 DEF Effect, Adds
  <1>9. QED
    BY <1>8, EffectKeeps

LEMMA WaitsFacts ==
    ASSUME IInv, NEW c, Waits(c)
    PROVE  /\ mode = "mcp" /\ c \in Calls /\ IsOpen(c) /\ calls[c].at = "received"
           /\ c \notin contexts /\ ~RanBy(c) /\ FrameOf(c) = calls[c].req /\ calls[c].req \in Frames
  <1>1. mode = "mcp" /\ c \in Calls /\ calls[c].at = "received" /\ IsOpen(c)
    BY DEF Waits, At, IsOpen
  <1>2. QED
    BY <1>1, OpenCalls DEF FrameOf, CallInv, Placed

LEMMA VerdictServes ==
    ASSUME NEW frame, Verdict(frame) # "refused"
    PROVE  frame.meta = "modern" \/ legacy_initialized \/ (frame.method = "initialize" /\ Verdict(frame) = "legacy")
  BY DEF Verdict

(* An error of a tool that has stored nothing.                             *)
LEMMA ToolErrorInv ==
    ASSUME IInv, mode = "mcp", NEW c \in Calls, calls[c].at \in {"received", "loading"},
           Replies(c, "tool error"), mode' = mode, legacy_initialized' = legacy_initialized,
           UNCHANGED storeVars, calls[c].req.meta = "modern" \/ legacy_initialized
    PROVE  IInv'
  <1>1. IsOpen(c) /\ c \notin contexts /\ ~RanBy(c)
    BY OpenCalls DEF IsOpen
  <1>2. contexts' = contexts /\ runs' = runs
    BY DEF storeVars
  <1>3. Adds(c) /\ ~RanBy(c)'
    BY <1>1, <1>2 DEF Adds, RanBy
  <1>4. "tool error" \in Bad
    BY DEF Bad
  <1>5. QED
    BY <1>1, <1>2, <1>3, <1>4, McpReplies

(* A tool that answers.                                                    *)
LEMMA ToolResultInv ==
    ASSUME IInv, mode = "mcp", NEW c \in Calls, IsOpen(c),
           Replies(c, "result"), mode' = mode, legacy_initialized' = legacy_initialized,
           Adds(c), calls[c].req.meta = "modern" \/ legacy_initialized
    PROVE  IInv'
  BY McpReplies DEF Bad

LEMMA ToolFacts ==
    ASSUME IInv, NEW c, NEW names, Tool(c, names)
    PROVE  /\ mode = "mcp" /\ c \in Calls /\ IsOpen(c) /\ calls[c].at = "received"
           /\ c \notin contexts /\ calls[c].req.method = "tools/call"
           /\ calls[c].req.meta = "modern" \/ legacy_initialized
           /\ legacy_initialized' = legacy_initialized
  BY WaitsFacts, VerdictServes DEF Tool

LEMMA FrameDroppedInv == ASSUME IInv, NEW c, FrameDropped(c) PROVE IInv'
  <1>1. /\ mode = "mcp" /\ c \in Calls /\ IsOpen(c) /\ c \notin contexts
        /\ Moves(c, "gone", None) /\ mode' = mode /\ contexts' = contexts /\ runs' = runs
        /\ legacy_initialized' = legacy_initialized
    BY WaitsFacts DEF FrameDropped, Unchanged, storeVars
  <1>2. QED
    BY <1>1, MovesEffect

LEMMA DispatchInv == ASSUME IInv, NEW c, Dispatch(c) PROVE IInv'
  <1>1. /\ mode = "mcp" /\ c \in Calls /\ IsOpen(c) /\ calls[c].at = "received"
        /\ c \notin contexts /\ ~RanBy(c) /\ FrameOf(c) = calls[c].req
    BY WaitsFacts DEF Dispatch
  <1>2. mode' = mode /\ contexts' = contexts /\ runs' = runs
    BY DEF Dispatch, Unchanged, storeVars
  <1>3. legacy_initialized' <=>
          legacy_initialized \/ (calls[c].req.method = "initialize" /\ Verdict(calls[c].req) = "legacy")
    BY <1>1 DEF Dispatch
  <1>4. Adds(c) /\ ~RanBy(c)' /\ c \notin contexts'
    BY <1>1, <1>2 DEF Adds, RanBy
  <1>5. CASE Verdict(calls[c].req) = "refused" /\ Replies(c, "error")
    BY <1>1, <1>2, <1>3, <1>4, <1>5, McpReplies DEF Bad
  <1>6. CASE Verdict(calls[c].req) # "refused" /\ Known(calls[c].req) /\ Replies(c, "result")
    BY <1>1, <1>2, <1>3, <1>4, <1>6, VerdictServes, McpReplies
  <1>7. CASE /\ Verdict(calls[c].req) # "refused" /\ ~Known(calls[c].req) /\ Replies(c, "error")
             /\ calls[c].req.method # "tools/call"
    <2>1. ~(calls[c].req.method = "initialize" /\ Verdict(calls[c].req) = "legacy")
      BY <1>7 DEF Known
    <2>2. QED
      BY <1>1, <1>2, <1>3, <1>4, <1>7, <2>1, McpReplies DEF Bad
  <1>8. QED
    BY <1>1, <1>5, <1>6, <1>7 DEF Dispatch

LEMMA ReadToolInv == ASSUME IInv, NEW c, ReadTool(c) PROVE IInv'
  <1>1. /\ mode = "mcp" /\ c \in Calls /\ IsOpen(c) /\ calls[c].at = "received"
        /\ calls[c].req.meta = "modern" \/ legacy_initialized
        /\ legacy_initialized' = legacy_initialized
    BY ToolFacts DEF ReadTool
  <1>2. mode' = mode /\ UNCHANGED storeVars /\ contexts' = contexts /\ runs' = runs
    BY DEF ReadTool, LooksUp, Unchanged, storeVars
  <1>3. Adds(c)
    BY <1>2 DEF Adds
  <1>4. Replies(c, "result") \/ Replies(c, "tool error")
    BY DEF ReadTool, LooksUp
  <1>5. QED
    BY <1>1, <1>2, <1>3, <1>4, ToolErrorInv, ToolResultInv

LEMMA LoadTextInv == ASSUME IInv, NEW c, LoadText(c) PROVE IInv'
  <1>1. /\ mode = "mcp" /\ c \in Calls /\ IsOpen(c) /\ calls[c].at = "received"
        /\ calls[c].req.meta = "modern" \/ legacy_initialized
        /\ legacy_initialized' = legacy_initialized /\ mode' = mode
    BY ToolFacts DEF LoadText
  <1>2. CASE Creates(c) /\ Replies(c, "result")
    BY <1>1, <1>2, ToolResultInv DEF Adds, Creates
  <1>3. CASE UNCHANGED storeVars /\ Replies(c, "tool error")
    BY <1>1, <1>3, ToolErrorInv
  <1>4. QED
    BY <1>2, <1>3 DEF LoadText

LEMMA StartsLoadInv ==
    ASSUME IInv, NEW c, NEW names, Tool(c, names), NEW paths, StartsLoad(c, paths)
    PROVE  IInv'
  <1>1. /\ mode = "mcp" /\ c \in Calls /\ IsOpen(c) /\ calls[c].at = "received"
        /\ c \notin contexts /\ calls[c].req.method = "tools/call"
        /\ calls[c].req.meta = "modern" \/ legacy_initialized
        /\ legacy_initialized' = legacy_initialized
    BY ToolFacts
  <1>2. mode' = mode /\ contexts' = contexts /\ runs' = runs /\ Moves(c, "loading", None)
    BY DEF StartsLoad, storeVars
  <1>3. QED
    BY <1>1, <1>2, MovesEffect

LEMMA LoadPathsInv == ASSUME IInv, NEW c, LoadPaths(c) PROVE IInv'
  <1>1. /\ mode = "mcp" /\ c \in Calls /\ calls[c].at = "received"
        /\ calls[c].req.meta = "modern" \/ legacy_initialized
        /\ legacy_initialized' = legacy_initialized
    BY ToolFacts DEF LoadPaths
  <1>2. CASE ToolError(c)
    BY <1>1, <1>2, ToolErrorInv DEF ToolError, Unchanged
  <1>3. CASE StartsLoad(c, FrameOf(c).args.paths)
    BY <1>3, StartsLoadInv DEF LoadPaths
  <1>4. QED
    BY <1>2, <1>3 DEF LoadPaths

LEMMA AskInv == ASSUME IInv, NEW c, Ask(c) PROVE IInv'
  <1>1. /\ mode = "mcp" /\ c \in Calls /\ calls[c].at = "received"
        /\ calls[c].req.meta = "modern" \/ legacy_initialized
        /\ legacy_initialized' = legacy_initialized
    BY ToolFacts DEF Ask
  <1>2. CASE ToolError(c)
    BY <1>1, <1>2, ToolErrorInv DEF ToolError, Unchanged
  <1>3. CASE StartsLoad(c, FrameOf(c).args.paths)
    BY <1>3, StartsLoadInv DEF Ask
  <1>4. QED
    BY <1>2, <1>3 DEF Ask

(* The policy of an `ask` is valid or it is not.                           *)
LEMMA AskPolicy ==
    ASSUME NEW frame \in Frames, frame.method = "tools/call", frame.args.tool = "ask"
    PROVE  frame.args.policy \in {"valid", "invalid"}
  <1>1. frame \in Frame
    BY McpAssumption DEF McpAssumption
  <1>2. frame \in [method : {"tools/call"}, id : BOOLEAN, meta : Metas, args : Plain]
    BY <1>1 DEF Frame
  <1>3. frame.args \in Plain
    BY <1>2
  <1>4. frame.args \in [tool : {"ask"}, query : BOOLEAN, paths : Seq(Nodes), policy : {"valid", "invalid"}]
    BY <1>3 DEF Plain
  <1>5. QED
    BY <1>4

LEMMA LoadedInv == ASSUME IInv, NEW c, Loaded(c) PROVE IInv'
  <1>1. /\ mode = "mcp" /\ c \in Calls /\ calls[c].at = "loading" /\ IsOpen(c) /\ mode' = mode
        /\ legacy_initialized' = legacy_initialized
    BY DEF Loaded, At, IsOpen, mcpVars
  <1>2. /\ calls[c].req.meta = "modern" \/ legacy_initialized
        /\ calls[c].req.method = "tools/call" /\ calls[c].req \in Frames
        /\ c \notin contexts /\ ~RanBy(c)
    BY <1>1, OpenCalls DEF CallInv, Placed
  <1>3. CASE UNCHANGED storeVars /\ Replies(c, "tool error")
    BY <1>1, <1>2, <1>3, ToolErrorInv
  <1>4. CASE Creates(c) /\ Replies(c, "result")
    BY <1>1, <1>2, <1>4, ToolResultInv DEF Creates, Adds
  <1>5. CASE FrameOf(c).args.tool = "ask" /\ FrameOf(c).args.policy = "valid"
             /\ Creates(c) /\ Moves(c, "running", c)
    <2>1. c \in Nat /\ None \notin Nat
      BY <1>1, CallFields, ServiceAssumption
    <2>2. contexts' = contexts \cup {c} /\ runs' = runs
      BY <1>5 DEF Creates
    <2>3. QED
      BY <1>1, <1>2, <1>5, <2>1, <2>2, MovesEffect
  <1>6. CASE FrameOf(c).args.tool = "ask" /\ FrameOf(c).args.policy # "valid"
             /\ Creates(c) /\ Replies(c, "tool error")
    <2>1. AskWithBadPolicy(c)
      BY <1>1, <1>2, <1>6, AskPolicy DEF FrameOf, AskWithBadPolicy
    <2>2. Adds(c) /\ ~RanBy(c)'
      BY <1>2, <1>6 DEF Creates, Adds, RanBy
    <2>3. QED
      BY <1>1, <1>2, <1>6, <2>1, <2>2, McpReplies DEF Bad
  <1>7. QED
    BY <1>3, <1>4, <1>5, <1>6 DEF Loaded

LEMMA QueryToolInv == ASSUME IInv, NEW c, QueryTool(c) PROVE IInv'
  <1>1. /\ mode = "mcp" /\ c \in Calls /\ calls[c].at = "received" /\ IsOpen(c)
        /\ calls[c].req.meta = "modern" \/ legacy_initialized
        /\ legacy_initialized' = legacy_initialized
    BY ToolFacts DEF QueryTool
  <1>2. CASE ToolError(c)
    BY <1>1, <1>2, ToolErrorInv DEF ToolError, Unchanged
  <1>3. CASE /\ FrameOf(c).args.context \in contexts
             /\ Moves(c, "running", FrameOf(c).args.context) /\ Unchanged
    <2>1. FrameOf(c).args.context \in Nat /\ None \notin Nat
      BY <1>3, ServiceAssumption DEF IInv, Calls
    <2>2. mode' = mode /\ contexts' = contexts /\ runs' = runs
      BY <1>3 DEF Unchanged, storeVars
    <2>3. QED
      BY <1>1, <1>3, <2>1, <2>2, MovesEffect
  <1>4. QED
    BY <1>2, <1>3 DEF QueryTool

LEMMA RunReturnsInv == ASSUME IInv, NEW c, RunReturns(c) PROVE IInv'
  <1>1. /\ mode = "mcp" /\ c \in Calls /\ calls[c].at = "running" /\ IsOpen(c)
        /\ Saves(c) /\ Replies(c, "result") /\ mode' = mode
        /\ legacy_initialized' = legacy_initialized
    BY DEF RunReturns, At, IsOpen, mcpVars
  <1>2. calls[c].req.meta = "modern" \/ legacy_initialized
    BY <1>1, OpenCalls DEF CallInv, Placed
  <1>3. Adds(c)
    BY <1>1 DEF Saves, Adds
  <1>4. QED
    BY <1>1, <1>2, <1>3, ToolResultInv

LEMMA McpInv == ASSUME IInv, NEW c, McpStep(c) PROVE IInv'
  BY FrameDroppedInv, DispatchInv, ReadToolInv, LoadTextInv, LoadPathsInv, AskInv, LoadedInv,
     QueryToolInv, RunReturnsInv DEF McpStep

-----------------------------------------------------------------------------
(* A call arrives; the streams end; a walk goes on.                        *)

LEMMA ArrivesInv ==
    ASSUME IInv, NEW req \in Requests \cup Frames, Arrives(req),
           mode = "http" => req \in Requests,
           mode = "mcp" => req \in Frames /\ Open = {},
           legacy_initialized' = legacy_initialized
    PROVE  IInv'
  <1>1. PICK n \in Nat : Len(calls) = n
    BY DEF IInv
  <1> DEFINE new == Received(req)
  <1>2. /\ calls' = Append(calls, new) /\ mode' = mode /\ contexts' = contexts /\ runs' = runs
        /\ calls \in Seq(Call) /\ n \in Nat /\ Calls = 1 .. n /\ mode \in {"http", "mcp"}
    BY <1>1 DEF Arrives, storeVars, IInv, Calls
  <1>3. /\ new \in Call /\ new.at = "received" /\ new.req = req
        /\ new.seen = {k \in Calls : calls[k].at = "answered"}
    <2>1. {k \in Calls : calls[k].at = "answered"} \in SUBSET Nat
      BY <1>2
    <2>2. QED
      BY <2>1 DEF Received, Call, Calls
  <1> HIDE DEF new
  <1>4. /\ calls' \in Seq(Call) /\ Len(calls') = n + 1 /\ calls'[n + 1] = new
        /\ \A k \in Calls : calls'[k] = calls[k]
        /\ Calls' = Calls \cup {n + 1} /\ n + 1 \notin Calls
        /\ n + 1 \in Nat /\ \A k \in Calls : k \in Nat /\ k <= n
    <2>1. /\ calls' \in Seq(Call) /\ Len(calls') = n + 1 /\ calls'[n + 1] = new
          /\ \A k \in 1 .. n : calls'[k] = calls[k]
      BY <1>1, <1>2, <1>3
    <2>2. Calls' = 1 .. n + 1
      BY <2>1 DEF Calls
    <2>3. /\ 1 .. n + 1 = (1 .. n) \cup {n + 1} /\ n + 1 \notin 1 .. n /\ n + 1 \in Nat
          /\ \A k \in 1 .. n : k \in Nat /\ k <= n
      BY <1>2
    <2>4. QED
      BY <1>2, <2>1, <2>2, <2>3
  <1>5. \A k \in Calls : /\ Answered(k)' = Answered(k) /\ Refused(k)' = Refused(k)
                         /\ Succeeded(k)' = Succeeded(k)
                         /\ AskWithBadPolicy(k)' = AskWithBadPolicy(k)
    BY <1>2, <1>4 DEF Answered, Refused, Succeeded, At, AskWithBadPolicy
  <1>6. \A id : Removed(id) => Removed(id)'
    BY <1>4, <1>5 DEF Removed
  <1>7. ASSUME NEW m \in Nat, m <= n, Shaken(m)
        PROVE  Shaken(m)'
    <2>1. PICK k \in 1 .. m : Succeeded(k) /\ calls[k].req.method = "initialize"
      BY <1>7 DEF Shaken
    <2>2. k \in Calls
      BY <2>1 DEF Succeeded, Answered, At
    <2>3. Succeeded(k)' /\ calls'[k] = calls[k]
      BY <1>4, <1>5, <2>1, <2>2
    <2>4. QED
      BY <2>1, <2>3 DEF Shaken
  <1>8. ASSUME NEW k \in Calls
        PROVE  CallInv(k)'
    <2>1. calls'[k] = calls[k] /\ CallInv(k) /\ k \in Nat /\ k <= n
      BY <1>4 DEF IInv
    <2>2. Placed(k)'
      <3>1. mode = "mcp" => ~IsOpen(k)
        BY DEF IsOpen, Open
      <3>2. calls[k].seen \subseteq {j \in Calls' : calls'[j].at = "answered"}
        BY <1>4, <2>1 DEF CallInv, Placed
      <3>3. QED
        BY <1>2, <2>1, <3>1, <3>2 DEF CallInv, Placed, IsOpen
    <2>3. Kept(k)' /\ Ran(k)'
      BY <1>2, <1>5, <2>1 DEF CallInv, Kept, Ran, RanBy
    <2>4. Found(k)'
      BY <1>2, <1>5, <1>6, <2>1 DEF CallInv, Found, RanBy
    <2>5. Negotiated(k)'
      BY <1>2, <1>5, <1>7, <2>1 DEF CallInv, Negotiated
    <2>6. QED
      BY <2>2, <2>3, <2>4, <2>5 DEF CallInv
  <1>9. CallInv(n + 1)'
    <2>1. n + 1 \notin contexts /\ ~RanBy(n + 1)
      BY <1>4 DEF IInv, RanBy
    <2>2. calls'[n + 1] = new /\ new.at = "received"
      BY <1>3, <1>4
    <2>3. ~Answered(n + 1)' /\ ~Succeeded(n + 1)'
      BY <2>2 DEF Answered, At, Succeeded
    <2>4. Placed(n + 1)'
      <3>1. new.seen \subseteq {j \in Calls' : calls'[j].at = "answered"}
        BY <1>3, <1>4
      <3>2. n + 1 = Len(calls')
        BY <1>4
      <3>3. (mode = "http" => new.req \in Requests) /\ (mode = "mcp" => new.req \in Frames)
        BY <1>3
      <3>4. QED
        BY <1>2, <2>2, <3>1, <3>2, <3>3 DEF Placed
    <2>5. Kept(n + 1)' /\ Ran(n + 1)'
      BY <1>2, <2>1 DEF Kept, Ran, RanBy
    <2>6. Found(n + 1)' /\ Negotiated(n + 1)'
      BY <2>3 DEF Found, Negotiated
    <2>7. QED
      BY <2>4, <2>5, <2>6 DEF CallInv
  <1>10. legacy_initialized' => mode' = "mcp" /\ Shaken(Len(calls))'
    <2>1. n \in Nat /\ Len(calls') = n + 1
      BY <1>2, <1>4
    <2> SUFFICES ASSUME legacy_initialized
                 PROVE  mode = "mcp" /\ Shaken(n + 1)'
      BY <1>2, <2>1
    <2>2. mode = "mcp" /\ Shaken(n)
      BY <1>1 DEF IInv
    <2>3. n <= n /\ 1 .. n \subseteq 1 .. n + 1
      BY <2>1
    <2>4. Shaken(n)'
      BY <1>7, <2>1, <2>2, <2>3
    <2>5. QED
      BY <2>2, <2>3, <2>4 DEF Shaken
  <1>11. contexts' \subseteq Calls' /\ \A r \in runs' : r.by \in Calls'
    BY <1>2, <1>4 DEF IInv
  <1>12. \A c \in Calls' : CallInv(c)'
    BY <1>4, <1>8, <1>9
  <1>13. mode' \in {"http", "mcp"} /\ calls' \in Seq(Call)
    BY <1>2, <1>4
  <1>14. QED
    BY <1>10, <1>11, <1>12, <1>13 DEF IInv

LEMMA Untouched ==
    ASSUME IInv, UNCHANGED <<mode, calls, contexts, runs, legacy_initialized>>
    PROVE  IInv'
  <1>1. /\ mode' = mode /\ calls' = calls /\ contexts' = contexts /\ runs' = runs
        /\ legacy_initialized' = legacy_initialized /\ Calls' = Calls
    BY DEF Calls
  <1>2. \A c : /\ Answered(c)' = Answered(c) /\ Refused(c)' = Refused(c)
               /\ Succeeded(c)' = Succeeded(c) /\ RanBy(c)' = RanBy(c)
               /\ AskWithBadPolicy(c)' = AskWithBadPolicy(c) /\ IsOpen(c)' = IsOpen(c)
    BY <1>1 DEF Answered, Refused, Succeeded, At, AskWithBadPolicy, RanBy, IsOpen
  <1>3. \A c : Removed(c)' = Removed(c) /\ Shaken(c)' = Shaken(c)
    BY <1>1, <1>2 DEF Removed, Shaken
  <1>4. ASSUME NEW c \in Calls, CallInv(c)
        PROVE  CallInv(c)'
    <2>1. Placed(c)'
      BY <1>1, <1>2, <1>4 DEF CallInv, Placed
    <2>2. Kept(c)' /\ Ran(c)'
      BY <1>1, <1>2, <1>4 DEF CallInv, Kept, Ran
    <2>3. Found(c)'
      BY <1>1, <1>2, <1>3, <1>4 DEF CallInv, Found
    <2>4. Negotiated(c)'
      BY <1>1, <1>2, <1>3, <1>4 DEF CallInv, Negotiated
    <2>5. QED
      BY <2>1, <2>2, <2>3, <2>4 DEF CallInv
  <1>5. QED
    BY <1>1, <1>3, <1>4 DEF IInv

LEMMA InitInv == ASSUME Init PROVE IInv
  BY DEF Init, ServiceInit, McpInit, IInv, Calls

LEMMA StepInv == ASSUME IInv, [Next]_vars PROVE IInv'
  <1>1. CASE UNCHANGED vars
    BY <1>1, Untouched DEF vars, serviceVars, mcpVars
  <1>2. CASE Walks /\ UNCHANGED mcpVars
    BY <1>2, Untouched DEF Walks, storeVars, mcpVars
  <1>3. CASE Arrive /\ UNCHANGED mcpVars
    <2>1. PICK req \in Requests : Arrives(req)
      BY <1>3 DEF Arrive
    <2>2. mode = "http" /\ legacy_initialized' = legacy_initialized
      BY <1>3 DEF Arrive, Http, mcpVars
    <2>3. QED
      BY <2>1, <2>2, ArrivesInv
  <1>4. ASSUME NEW c \in Ids, ApiStep(c) /\ UNCHANGED mcpVars
        PROVE  IInv'
    BY <1>4, ApiInv
  <1>5. ASSUME NEW c \in Ids, ClientLeaves(c) /\ UNCHANGED mcpVars
        PROVE  IInv'
    BY <1>5, ClientLeavesInv
  <1>6. CASE ReadFrame
    <2>1. PICK frame \in Frames : Arrives(frame)
      BY <1>6 DEF ReadFrame
    <2>2. mode = "mcp" /\ Open = {} /\ legacy_initialized' = legacy_initialized
      BY <1>6 DEF ReadFrame, mcpVars
    <2>3. QED
      BY <2>1, <2>2, ArrivesInv
  <1>7. ASSUME NEW c \in Ids, McpStep(c)
        PROVE  IInv'
    BY <1>7, McpInv
  <1>8. CASE StreamEnds
    BY <1>8, Untouched DEF StreamEnds, storeVars
  <1>9. QED
    BY <1>1, <1>2, <1>3, <1>4, <1>5, <1>6, <1>7, <1>8 DEF Next, Steps

THEOREM Invariance == Spec => []IInv
  <1>1. Init => IInv
    BY InitInv
  <1>2. IInv /\ [Next]_vars => IInv'
    BY StepInv
  <1>3. QED
    BY <1>1, <1>2, PTL DEF Spec

-----------------------------------------------------------------------------
(* What it implies.                                                        *)

(* A call that is answered with an error, on either surface, has left no   *)
(* context and no run: but for the `ask` with a policy that does not       *)
(* validate, which has stored what it loaded.                              *)
THEOREM RefusalsLeaveNothing == Spec => []RefusedLeavesNothing
  <1>1. IInv => RefusedLeavesNothing
    <2> SUFFICES ASSUME IInv, NEW c \in Calls, Refused(c)
                 PROVE  (c \in contexts => AskWithBadPolicy(c)) /\ \A r \in runs : r.by # c
      BY DEF RefusedLeavesNothing
    <2>1. CallInv(c)
      BY DEF IInv
    <2>2. QED
      BY <2>1 DEF CallInv, Kept, Ran, RanBy, Succeeded
  <1>2. QED
    BY <1>1, Invariance, PTL

(* What a call of the HTTP surface was told is stored is found by every    *)
(* later one until a delete or a purge is asked for, and a purge that has  *)
(* been answered left nothing of what had been answered when it arrived.   *)
THEOREM AnswersAreFound == Spec => []AnsweredIsFound
  <1>1. IInv => AnsweredIsFound
    <2> SUFFICES ASSUME IInv, mode = "http", NEW c \in Calls, Succeeded(c)
                 PROVE  /\ calls[c].req.op \in {"create", "from_paths"} /\ ~ToldToGo(c) => c \in contexts
                        /\ calls[c].req.op = "query" /\ ~ToldToGo(c)
                             => \E r \in runs : r.by = c /\ r.of = calls[c].context
                        /\ calls[c].req.op = "purge"
                             => calls[c].seen \cap (contexts \cup {r.by : r \in runs}) = {}
      BY DEF AnsweredIsFound
    <2>1. Found(c)
      BY DEF IInv, CallInv
    <2>2. Removed(c) => ToldToGo(c)
      BY DEF Removed, ToldToGo, Succeeded
    <2>3. QED
      BY <2>1, <2>2 DEF Found, RanBy
  <1>2. QED
    BY <1>1, Invariance, PTL

(* Under the older protocol a frame gets a result only once an initialize  *)
(* has got one.                                                            *)
THEOREM NothingBeforeTheHandshake == Spec => []NegotiatedFirst
  <1>1. IInv => NegotiatedFirst
    BY DEF IInv, CallInv, Negotiated, Shaken, NegotiatedFirst
  <1>2. QED
    BY <1>1, Invariance, PTL


-----------------------------------------------------------------------------
(* The walk of a load (module Roots).                                      *)

(* No record is kept of the directories that have been expanded; that      *)
(* there is such a set is enough: all of what was named, and all that lies *)
(* below what has been expanded and was listed, is waiting, read or         *)
(* reported.                                                               *)
Start == {n \in ToSet(named) : n # Missing /\ Allowed(n)}
Expanded(E) ==
    LET met == E \cup ToSet(queue) \cup ToSet(docs) \cup skipped
    IN  /\ E \subseteq Nodes
        /\ Start \subseteq met
        /\ \A n \in E : tree.kind[n] = "dir" /\ Below(n, unlisted) \subseteq met

Walked ==
    /\ named \in Seq(Nodes \cup {Missing})
    /\ queue \in Seq(Nodes) /\ docs \in Seq(Nodes)
    /\ ToSet(queue) \cup ToSet(docs) \subseteq Reached(Nodes, {})
    /\ ToSet(docs) \subseteq Files
    /\ Len(docs) <= MaxFiles
    /\ \A n \in ToSet(named) : (n # Missing /\ Allowed(n)) \/ n \in skipped
    /\ ceiling \/ \E E : Expanded(E)
    /\ walk = "walking" => ~ceiling
    /\ walk = "done" =>
         /\ ceiling \/ queue = <<>>
         /\ \A i \in 1 .. Len(docs) - 1 : docs[i] <= docs[i + 1]

WalkInv ==
    /\ tree \in Trees
    /\ walk \in {"idle", "walking", "done"}
    /\ walk # "idle" => Walked

(* The first root that holds a path decides.                               *)
LEMMA ResolvesMeansAllowed ==
    ASSUME tree \in Trees, NEW n \in Nodes
    PROVE  Resolves(n) <=> Allowed(n)
  <1> DEFINE at == tree.place[n]
             holding == {i \in DOMAIN at : at[i] # "outside"}
  <1>1. n # Missing /\ at \in Seq(Places)
    BY RootsAssumption DEF RootsAssumption, Tree
  <1> HIDE DEF at
  <1>2. DOMAIN at = 1 .. Len(at) /\ Len(at) \in Nat /\ \A i \in DOMAIN at : at[i] \in Places
    BY <1>1
  <1>3. holding \subseteq Nat
    BY <1>2
  <1>4. ASSUME holding # {}
        PROVE  Min(holding) \in holding /\ \A j \in holding : Min(holding) <= j
    <2> HIDE DEF holding
    <2>1. \E m \in holding : \A j \in holding : m <= j
      BY <1>3, <1>4, Least
    <2>2. QED
      BY <2>1 DEF Min
  <1>5. ASSUME Resolves(n)
        PROVE  Allowed(n)
    <2>1. holding # {} /\ at[Min(holding)] = "inside"
      BY <1>5 DEF Resolves, at
    <2>2. PICK i \in holding : at[i] = "inside" /\ \A j \in holding : i <= j
      BY <1>4, <2>1
    <2>3. i \in DOMAIN at /\ i \in Nat /\ \A j \in 1 .. i - 1 : j \in DOMAIN at /\ j < i
      BY <1>2, <2>2
    <2>4. ASSUME NEW j \in 1 .. i - 1
          PROVE  at[j] = "outside"
      BY <2>2, <2>3
    <2>5. QED
      BY <2>2, <2>3, <2>4 DEF Allowed, at
  <1>6. ASSUME Allowed(n)
        PROVE  Resolves(n)
    <2>1. PICK i \in DOMAIN at : at[i] = "inside" /\ \A j \in 1 .. i - 1 : at[j] = "outside"
      BY <1>6 DEF Allowed, at
    <2>2. i \in holding
      BY <2>1
    <2>3. PICK m \in holding : m = Min(holding) /\ m <= i
      BY <1>4, <2>2
    <2>4. m \in Nat /\ i \in Nat /\ 1 <= m
      BY <1>2
    <2>5. m = i
      BY <2>1, <2>3, <2>4
    <2>6. QED
      BY <1>1, <2>1, <2>2, <2>3, <2>5 DEF Resolves, at
  <1>7. QED
    BY <1>5, <1>6

LEMMA InReached ==
    ASSUME NEW open, NEW lost, NEW n
    PROVE  n \in Reached(open, lost) <=>
             /\ n \in Nodes
             /\ \A S \in SUBSET Nodes :
                  Start \subseteq S /\ (\A d \in S \cap open : Below(d, lost) \subseteq S) => n \in S
  BY DEF Reached, Start

(* What lies below a node that is reached is reached.                      *)
LEMMA BelowReached ==
    ASSUME NEW p \in Reached(Nodes, {})
    PROVE  Below(p, {}) \subseteq Reached(Nodes, {})
  <1> SUFFICES ASSUME NEW n \in Below(p, {}), NEW S \in SUBSET Nodes, Start \subseteq S,
                      \A d \in S \cap Nodes : Below(d, {}) \subseteq S
               PROVE  n \in Nodes /\ n \in S
    BY InReached DEF Below
  <1>1. p \in S
    BY InReached
  <1>2. QED
    BY <1>1 DEF Below

(* A load begins on what resolves.                                         *)
LEMMA ResolvingKeeps ==
    ASSUME tree \in Trees, NEW paths \in Seq(Nodes \cup {Missing})
    PROVE  /\ Resolving(paths) \in Seq(Nodes)
           /\ ToSet(Resolving(paths)) = {n \in ToSet(paths) : n # Missing /\ Allowed(n)}
  <1> DEFINE one(i) == IF Resolves(paths[i]) THEN <<paths[i]>> ELSE <<>>
             ones == [i \in DOMAIN paths |-> one(i)]
  <1>1. /\ DOMAIN paths = 1 .. Len(paths) /\ Len(paths) \in Nat
        /\ \A i \in DOMAIN paths : paths[i] \in Nodes \cup {Missing}
    OBVIOUS
  <1>2. ASSUME NEW i \in DOMAIN paths
        PROVE  /\ one(i) \in Seq(Nodes)
               /\ ToSet(one(i)) = IF paths[i] # Missing /\ Allowed(paths[i]) THEN {paths[i]} ELSE {}
    <2>1. Resolves(paths[i]) <=> paths[i] # Missing /\ Allowed(paths[i])
      <3>1. CASE paths[i] = Missing
        BY <3>1 DEF Resolves
      <3>2. CASE paths[i] # Missing
        BY <1>1, <3>2, ResolvesMeansAllowed
      <3>3. QED
        BY <3>1, <3>2
    <2>2. CASE Resolves(paths[i])
      <3>1. one(i) = <<paths[i]>> /\ paths[i] \in Nodes
        BY <1>1, <2>1, <2>2
      <3> HIDE DEF one
      <3>2. one(i) \in Seq(Nodes) /\ ToSet(one(i)) = {paths[i]}
        BY <3>1 DEF ToSet
      <3>3. QED
        BY <2>1, <2>2, <3>2
    <2>3. CASE ~Resolves(paths[i])
      <3>1. one(i) = <<>>
        BY <2>3
      <3> HIDE DEF one
      <3>2. one(i) \in Seq(Nodes) /\ ToSet(one(i)) = {}
        BY <3>1 DEF ToSet
      <3>3. QED
        BY <2>1, <2>3, <3>2
    <2>4. QED
      BY <2>2, <2>3
  <1>3. Resolving(paths) = FlattenSeq(ones)
    BY DEF Resolving
  <1> HIDE DEF one
  <1>4. ones \in Seq(Seq(Nodes)) /\ Len(ones) = Len(paths) /\ \A i \in 1 .. Len(paths) : ones[i] = one(i)
    <2>1. ones \in [1 .. Len(paths) -> Seq(Nodes)] /\ \A i \in 1 .. Len(paths) : ones[i] = one(i)
      BY <1>1, <1>2
    <2> HIDE DEF ones
    <2>2. QED
      BY <1>1, <2>1
  <1> HIDE DEF ones
  <1>5. /\ FlattenSeq(ones) \in Seq(Nodes)
        /\ ToSet(FlattenSeq(ones)) = UNION {ToSet(ones[i]) : i \in 1 .. Len(ones)}
    BY <1>4, Flattened
  <1>6. ToSet(paths) = {paths[i] : i \in 1 .. Len(paths)}
    BY <1>1 DEF ToSet
  <1>7. ASSUME NEW n
        PROVE  n \in UNION {ToSet(ones[i]) : i \in 1 .. Len(ones)}
                 <=> n \in ToSet(paths) /\ n # Missing /\ Allowed(n)
    BY <1>1, <1>2, <1>4, <1>6, ZenonT(60)
  <1>8. QED
    BY <1>3, <1>5, <1>7

LEMMA BeginsWalk ==
    ASSUME WalkInv, NEW paths \in Seq(Nodes \cup {Missing}), LoadBegin(paths)
    PROVE  WalkInv'
  <1>1. /\ tree \in Trees /\ tree' = tree /\ named' = paths /\ queue' = Resolving(paths)
        /\ skipped' = ToSet(paths) \ ToSet(queue') /\ docs' = <<>> /\ ceiling' = FALSE
        /\ unlisted' = {} /\ walk' = "walking"
    BY DEF LoadBegin, WalkInv
  <1>2. \A n : /\ Allowed(n)' = Allowed(n) /\ Below(n, {})' = Below(n, {})
              /\ Below(n, unlisted)' = Below(n, unlisted')
    BY <1>1 DEF Allowed, Below
  <1>3. Start' = {n \in ToSet(paths) : n # Missing /\ Allowed(n)}
    BY <1>1, <1>2 DEF Start
  <1>4. queue' \in Seq(Nodes) /\ ToSet(queue') = Start'
    BY <1>1, <1>3, ResolvingKeeps
  <1>5. ToSet(queue') \subseteq Nodes /\ ToSet(docs') = {} /\ docs' \in Seq(Nodes) /\ Len(docs') = 0
    BY <1>1, <1>4 DEF ToSet
  <1>6. Start' \subseteq Reached(Nodes, {})'
    BY <1>1, <1>2, <1>4, <1>5 DEF Reached, Start
  <1>7. Expanded({})'
    BY <1>4 DEF Expanded
  <1>8. \A n \in ToSet(named') : (n # Missing /\ Allowed(n)') \/ n \in skipped'
    BY <1>1, <1>2, <1>3, <1>4
  <1>9. 0 <= MaxFiles
    BY RootsAssumption DEF RootsAssumption
  <1>10. Walked'
    BY <1>1, <1>4, <1>5, <1>6, <1>7, <1>8, <1>9 DEF Walked
  <1>11. QED
    BY <1>1, <1>10 DEF WalkInv

(* The top of the stack and what is below it.                              *)
LEMMA Popped ==
    ASSUME NEW T, NEW s \in Seq(T), s # <<>>
    PROVE  /\ Front(s) \in Seq(T) /\ Last(s) \in T
           /\ ToSet(s) = ToSet(Front(s)) \cup {Last(s)}
  <1>1. Len(s) \in Nat /\ Len(s) # 0 /\ DOMAIN s = 1 .. Len(s)
    OBVIOUS
  <1>2. /\ Front(s) \in Seq(T) /\ Len(Front(s)) = Len(s) - 1
        /\ \A k \in 1 .. Len(s) - 1 : Front(s)[k] = s[k]
    BY <1>1 DEF Front
  <1>3. Last(s) = s[Len(s)] /\ Last(s) \in T
    BY <1>1 DEF Last
  <1>4. DOMAIN Front(s) = 1 .. Len(s) - 1 /\ 1 .. Len(s) = (1 .. Len(s) - 1) \cup {Len(s)}
    BY <1>1, <1>2
  <1>5. QED
    BY <1>1, <1>2, <1>3, <1>4 DEF ToSet

(* A walking load with something on its stack.                             *)
LEMMA PoppingFacts ==
    ASSUME WalkInv, Popping
    PROVE  /\ Walked /\ tree \in Trees /\ walk = "walking" /\ ~ceiling
           /\ Path \in Nodes /\ Path \in Reached(Nodes, {}) /\ Front(queue) \in Seq(Nodes)
           /\ ToSet(queue) = ToSet(Front(queue)) \cup {Path}
           /\ \E E : Expanded(E)
  BY Popped DEF WalkInv, Walked, Popping, Path

LEMMA UnreadableKeeps == ASSUME WalkInv, Unreadable PROVE WalkInv'
  <1>1. /\ Popping /\ queue' = Front(queue) /\ skipped' = skipped \cup {Path}
        /\ tree' = tree /\ named' = named /\ docs' = docs /\ ceiling' = ceiling /\ walk' = walk
        /\ unlisted' = unlisted
    BY DEF Unreadable
  <1>2. /\ Walked /\ tree \in Trees /\ walk = "walking" /\ Front(queue) \in Seq(Nodes)
        /\ ToSet(queue) = ToSet(Front(queue)) \cup {Path}
    BY <1>1, PoppingFacts
  <1>3. \A n : /\ Allowed(n)' = Allowed(n) /\ Below(n, {})' = Below(n, {})
              /\ Below(n, unlisted)' = Below(n, unlisted')
    BY <1>1 DEF Allowed, Below
  <1>4. Start' = Start /\ Reached(Nodes, {})' = Reached(Nodes, {}) /\ Files' = Files
    BY <1>1, <1>3 DEF Start, Reached, Files
  <1>5. PICK E : Expanded(E)
    BY <1>1, PoppingFacts
  <1>6. Expanded(E)'
    BY <1>1, <1>2, <1>3, <1>4, <1>5 DEF Expanded
  <1>7. Walked'
    BY <1>1, <1>2, <1>3, <1>4, <1>6 DEF Walked
  <1>8. QED
    BY <1>1, <1>2, <1>7 DEF WalkInv

LEMMA ReadFileKeeps == ASSUME WalkInv, ReadFile PROVE WalkInv'
  <1>1. /\ Popping /\ queue' = Front(queue) /\ docs' = Append(docs, Path) /\ tree.kind[Path] = "file"
        /\ tree' = tree /\ named' = named /\ skipped' = skipped /\ ceiling' = ceiling /\ walk' = walk
        /\ unlisted' = unlisted /\ Len(docs) < MaxFiles /\ MaxFiles \in Nat
    BY RootsAssumption DEF ReadFile, RootsAssumption, Popping
  <1>2. /\ Walked /\ tree \in Trees /\ walk = "walking" /\ Front(queue) \in Seq(Nodes)
        /\ ToSet(queue) = ToSet(Front(queue)) \cup {Path} /\ Path \in Nodes /\ Path \in Reached(Nodes, {})
    BY <1>1, PoppingFacts
  <1>3. \A n : /\ Allowed(n)' = Allowed(n) /\ Below(n, {})' = Below(n, {})
              /\ Below(n, unlisted)' = Below(n, unlisted')
    BY <1>1 DEF Allowed, Below
  <1>4. Start' = Start /\ Reached(Nodes, {})' = Reached(Nodes, {}) /\ Files' = Files
    BY <1>1, <1>3 DEF Start, Reached, Files
  <1>5. PICK E : Expanded(E)
    BY <1>1, PoppingFacts
  <1>6. docs' \in Seq(Nodes) /\ ToSet(docs') = ToSet(docs) \cup {Path} /\ Len(docs') <= MaxFiles
    <2>1. docs \in Seq(Nodes) /\ Len(docs) \in Nat
      BY <1>2 DEF Walked
    <2>2. /\ docs' \in Seq(Nodes) /\ Len(docs') = Len(docs) + 1 /\ docs'[Len(docs) + 1] = Path
          /\ \A k \in 1 .. Len(docs) : docs'[k] = docs[k]
      BY <1>1, <1>2, <2>1
    <2>3. /\ DOMAIN docs = 1 .. Len(docs) /\ DOMAIN docs' = (1 .. Len(docs)) \cup {Len(docs) + 1}
      BY <2>1, <2>2
    <2>4. ToSet(docs') = ToSet(docs) \cup {Path}
      BY <2>1, <2>2, <2>3 DEF ToSet
    <2>5. QED
      BY <1>1, <2>1, <2>2, <2>4
  <1>7. Expanded(E)'
    BY <1>1, <1>2, <1>3, <1>4, <1>5, <1>6 DEF Expanded
  <1>8. Path \in Files
    BY <1>1, <1>2 DEF Files
  <1>9. Walked'
    BY <1>1, <1>2, <1>3, <1>4, <1>6, <1>7, <1>8 DEF Walked
  <1>10. QED
    BY <1>1, <1>2, <1>9 DEF WalkInv

(* A directory lists finitely many entries.                                *)
LEMMA EntriesFinite == IsFiniteSet(Entry)
  <1> DEFINE To == Nodes \cup {Missing}
             entry == [p \in Names \X To |-> [name |-> p[1], to |-> p[2]]]
  <1>1. IsFiniteSet(To)
    BY RootsAssumption, FS_AddElement DEF RootsAssumption
  <1>2. IsFiniteSet(Names)
    <2>1. IsFiniteSet({"plain"})
      BY FS_Singleton
    <2>2. IsFiniteSet({"plain"} \cup {"dotted"})
      BY <2>1, FS_AddElement
    <2>3. IsFiniteSet(({"plain"} \cup {"dotted"}) \cup {"node_modules"})
      BY <2>2, FS_AddElement
    <2>4. Names = ({"plain"} \cup {"dotted"}) \cup {"node_modules"}
      BY DEF Names
    <2>5. QED
      BY <2>3, <2>4
  <1> HIDE DEF To
  <1>3. IsFiniteSet(Names \X To)
    BY <1>1, <1>2, FS_Product
  <1>4. entry \in Surjection(Names \X To, Entry)
    <2>1. entry \in [Names \X To -> Entry]
      BY DEF Entry, To
    <2>2. ASSUME NEW e \in Entry
          PROVE  \E p \in Names \X To : entry[p] = e
      <3>1. e.name \in Names /\ e.to \in To /\ e = [name |-> e.name, to |-> e.to]
        BY DEF Entry, To
      <3>2. <<e.name, e.to>> \in Names \X To /\ entry[<<e.name, e.to>>] = e
        BY <3>1
      <3>3. QED
        BY <3>2
    <2> HIDE DEF entry
    <2>3. QED
      BY <2>1, <2>2 DEF Surjection
  <1> HIDE DEF entry
  <1>5. QED
    BY <1>3, <1>4, FS_Surjection

LEMMA ExpandDirectoryKeeps == ASSUME WalkInv, ExpandDirectory PROVE WalkInv'
  <1> DEFINE entries == {e \in tree.lists[Path] : ~SkippedWhenWalking(e)}
             targets(order) == [i \in DOMAIN order |-> order[i].to]
  <1>l. PICK lost \in SUBSET entries :
          /\ \E order \in SetToSeqs(Admitted(entries \ lost)) : queue' = Front(queue) \o targets(order)
          /\ unlisted' = unlisted \cup {<<Path, e>> : e \in lost}
    BY DEF ExpandDirectory
  <1> DEFINE admitted == Admitted(entries \ lost)
  <1>1. /\ Popping /\ tree.kind[Path] = "dir"
        /\ unlisted \subseteq unlisted' /\ \A e \in lost : <<Path, e>> \in unlisted'
        /\ \E order \in SetToSeqs(admitted) : queue' = Front(queue) \o targets(order)
        /\ skipped \subseteq skipped'
        /\ tree' = tree /\ named' = named /\ docs' = docs /\ ceiling' = ceiling /\ walk' = walk
    BY <1>l DEF ExpandDirectory
  <1>2. /\ Walked /\ tree \in Trees /\ walk = "walking" /\ Front(queue) \in Seq(Nodes)
        /\ ToSet(queue) = ToSet(Front(queue)) \cup {Path}
        /\ Path \in Nodes /\ Path \in Reached(Nodes, {})
    BY <1>1, PoppingFacts
  <1>p. PICK p : p = Path
    OBVIOUS
  <1>3. PICK order \in SetToSeqs(admitted) : queue' = Front(queue) \o targets(order)
    BY <1>1
  <1>4. tree.lists[Path] \subseteq Entry
    BY <1>2, RootsAssumption DEF RootsAssumption, Tree
  <1>5. admitted \subseteq Entry /\ \A e \in admitted : e.to \in Nodes /\ Allowed(e.to)
    <2>1. admitted \subseteq Entry /\ \A e \in admitted : Resolves(e.to)
      BY <1>4 DEF Admitted
    <2>2. ASSUME NEW e \in admitted
          PROVE  e.to \in Nodes /\ Allowed(e.to)
      <3>1. e \in Entry /\ Resolves(e.to) /\ e.to # Missing
        BY <2>1 DEF Resolves
      <3>2. e.to \in Nodes
        BY <3>1 DEF Entry
      <3>3. QED
        BY <1>2, <3>1, <3>2, ResolvesMeansAllowed
    <2>3. QED
      BY <2>1, <2>2
  <1>6. Below(p, unlisted') \subseteq {e.to : e \in admitted} /\ {e.to : e \in admitted} \subseteq Below(p, {})
    <2>1. ASSUME NEW e \in admitted
          PROVE  e.to \in Below(p, {})
      <3>1. e \in Entry /\ e \in tree.lists[p] /\ e.name = "plain"
        BY <1>4, <1>p DEF Admitted, SkippedWhenWalking
      <3>2. e = [name |-> "plain", to |-> e.to]
        BY <3>1 DEF Entry
      <3>3. QED
        BY <1>5, <3>1, <3>2 DEF Below
    <2>2. ASSUME NEW n \in Below(p, unlisted')
          PROVE  \E e \in admitted : e.to = n
      <3> DEFINE e == [name |-> "plain", to |-> n]
      <3>1. n \in Nodes /\ Allowed(n) /\ e \in tree.lists[Path] /\ e \notin lost
        BY <1>1, <1>p DEF Below
      <3>2. Resolves(n)
        BY <1>2, <3>1, ResolvesMeansAllowed
      <3>3. e \in admitted /\ e.to = n
        BY <3>1, <3>2 DEF Admitted, SkippedWhenWalking
      <3>4. QED
        BY <3>3
    <2> HIDE DEF admitted
    <2>3. QED
      BY <2>1, <2>2
  <1>7. IsFiniteSet(admitted)
    BY <1>5, EntriesFinite, FS_Subset
  <1> HIDE DEF entries, admitted
  <1>8. order \in Seq(admitted) /\ ToSet(order) = admitted
    BY <1>3, <1>7, Ordered
  <1>9. targets(order) \in Seq(Nodes) /\ ToSet(targets(order)) = {e.to : e \in admitted}
    <2>1. DOMAIN order = 1 .. Len(order) /\ Len(order) \in Nat /\ \A i \in DOMAIN order : order[i] \in admitted
      BY <1>8
    <2>2. targets(order) \in [1 .. Len(order) -> Nodes]
      BY <1>5, <2>1
    <2>3. ToSet(targets(order)) = {order[i].to : i \in DOMAIN order}
      BY DEF ToSet
    <2>4. {order[i].to : i \in DOMAIN order} = {e.to : e \in admitted}
      BY <1>8, <2>1 DEF ToSet
    <2> HIDE DEF targets
    <2>5. targets(order) \in Seq(Nodes)
      BY <2>1, <2>2
    <2>6. QED
      BY <2>3, <2>4, <2>5
  <1> HIDE DEF targets
  <1>10. queue' \in Seq(Nodes) /\ ToSet(queue') = ToSet(Front(queue)) \cup {e.to : e \in admitted}
    BY <1>2, <1>3, <1>9, JoinedSet
  <1>11. \A n : /\ Allowed(n)' = Allowed(n) /\ Below(n, {})' = Below(n, {})
              /\ Below(n, unlisted)' = Below(n, unlisted')
    BY <1>1 DEF Allowed, Below
  <1>12. Start' = Start /\ Reached(Nodes, {})' = Reached(Nodes, {}) /\ Files' = Files
    BY <1>1, <1>11 DEF Start, Reached, Files
  <1>13. {e.to : e \in admitted} \subseteq Reached(Nodes, {})
    BY <1>2, <1>6, <1>p, BelowReached
  <1>14. PICK E : Expanded(E)
    BY <1>1, PoppingFacts
  <1>16. Expanded(E \cup {p})'
    <2> DEFINE met == E \cup ToSet(queue) \cup ToSet(docs) \cup skipped
               after == (E \cup {p}) \cup ToSet(queue') \cup ToSet(docs') \cup skipped'
    <2>1. ToSet(docs') = ToSet(docs)
      BY <1>1
    <2>2. met \subseteq after /\ Below(p, unlisted') \subseteq after
      BY <1>1, <1>2, <1>6, <1>10, <1>p, <2>1
    <2>3. E \subseteq Nodes /\ Start \subseteq met /\ \A n \in E : tree.kind[n] = "dir" /\ Below(n, unlisted) \subseteq met
      BY <1>14 DEF Expanded
    <2> HIDE DEF met
    <2>4. Start' \subseteq after /\ E \cup {p} \subseteq Nodes
      BY <1>2, <1>12, <1>p, <2>2, <2>3
    <2>5. \A n : Below(n, unlisted') \subseteq Below(n, unlisted)
      BY <1>1 DEF Below
    <2>6. \A n \in E \cup {p} : tree'.kind[n] = "dir" /\ Below(n, unlisted)' \subseteq after
      BY <1>1, <1>11, <1>p, <2>2, <2>3, <2>5
    <2>7. QED
      BY <2>4, <2>6 DEF Expanded
  <1>17. Walked'
    BY <1>1, <1>2, <1>10, <1>11, <1>12, <1>13, <1>16 DEF Walked
  <1>18. QED
    BY <1>1, <1>2, <1>17 DEF WalkInv

(* Sorting keeps what was read.                                            *)
LEMMA EndsKeeps ==
    ASSUME WalkInv, NEW stopped \in BOOLEAN, walk = "walking", Ends(stopped), stopped \/ queue = <<>>
    PROVE  WalkInv'
  <1>1. PICK order \in SetToSeqs(DOMAIN docs) :
          /\ docs' = [i \in DOMAIN docs |-> docs[order[i]]]
          /\ \A i, j \in DOMAIN docs : i < j => docs[order[i]] <= docs[order[j]]
    BY DEF Ends
  <1>2. /\ tree' = tree /\ named' = named /\ queue' = queue /\ skipped' = skipped
        /\ unlisted' = unlisted /\ ceiling' = stopped /\ walk' = "done"
    BY DEF Ends
  <1>3. PICK n \in Nat : Len(docs) = n
    BY DEF WalkInv, Walked
  <1>4. /\ Walked /\ tree \in Trees /\ docs \in Seq(Nodes) /\ n \in Nat /\ DOMAIN docs = 1 .. n /\ ~ceiling
        /\ \A i \in 1 .. n : docs[i] \in Nodes
    BY <1>3 DEF WalkInv, Walked
  <1>5. IsFiniteSet(1 .. n) /\ Cardinality(1 .. n) = n
    BY <1>4, FS_Interval
  <1>6. order \in Seq(1 .. n) /\ DOMAIN order = 1 .. n /\ ToSet(order) = 1 .. n
    BY <1>1, <1>4, <1>5, Ordered
  <1>7. \A i \in 1 .. n : order[i] \in 1 .. n
    BY <1>6
  <1>8. /\ docs' \in Seq(Nodes) /\ Len(docs') = n /\ DOMAIN docs' = 1 .. n
        /\ \A i \in 1 .. n : docs'[i] = docs[order[i]]
    <2>1. docs' \in [1 .. n -> Nodes] /\ \A i \in 1 .. n : docs'[i] = docs[order[i]]
      BY <1>1, <1>4, <1>7
    <2>2. QED
      BY <1>4, <2>1
  <1>9. ToSet(docs') = ToSet(docs)
    <2>1. ToSet(docs') = {docs[order[i]] : i \in 1 .. n}
      BY <1>8 DEF ToSet
    <2>2. ToSet(docs) = {docs[i] : i \in 1 .. n} /\ 1 .. n = {order[i] : i \in 1 .. n}
      BY <1>4, <1>6 DEF ToSet
    <2>3. QED
      BY <2>1, <2>2
  <1>10. \A i \in 1 .. Len(docs') - 1 : docs'[i] <= docs'[i + 1]
    <2>1. ASSUME NEW i \in 1 .. n - 1
          PROVE  docs'[i] <= docs'[i + 1]
      <3>1. i \in 1 .. n /\ i + 1 \in 1 .. n /\ i < i + 1
        BY <1>4
      <3>2. docs[order[i]] <= docs[order[i + 1]]
        BY <1>1, <1>4, <3>1
      <3>3. QED
        BY <1>8, <3>1, <3>2
    <2>2. QED
      BY <1>8, <2>1
  <1>11. \A k : /\ Allowed(k)' = Allowed(k) /\ Below(k, {})' = Below(k, {})
              /\ Below(k, unlisted)' = Below(k, unlisted')
    BY <1>2 DEF Allowed, Below
  <1>12. Start' = Start /\ Reached(Nodes, {})' = Reached(Nodes, {}) /\ Files' = Files
    BY <1>2, <1>11 DEF Start, Reached, Files
  <1>13. \A E : Expanded(E) => Expanded(E)'
    BY <1>2, <1>9, <1>11, <1>12 DEF Expanded
  <1>14. ceiling' \/ \E E : Expanded(E)'
    BY <1>4, <1>13 DEF Walked
  <1>15. ceiling' \/ queue' = <<>>
    BY <1>2
  <1>16. \A k \in ToSet(named') : (k # Missing /\ Allowed(k)') \/ k \in skipped'
    BY <1>2, <1>4, <1>11 DEF Walked
  <1>17. Walked'
    BY <1>2, <1>3, <1>4, <1>8, <1>9, <1>10, <1>12, <1>14, <1>15, <1>16 DEF Walked
  <1>18. QED
    BY <1>2, <1>4, <1>17 DEF WalkInv

LEMMA WalkStepKeeps == ASSUME WalkInv, WalkStep PROVE WalkInv'
  <1>1. LoadEnded => WalkInv'
    BY EndsKeeps DEF LoadEnded
  <1>2. QED
    BY <1>1, UnreadableKeeps, ExpandDirectoryKeeps, ReadFileKeeps DEF WalkStep

LEMMA LoadTakenKeeps == ASSUME WalkInv, LoadTaken PROVE WalkInv'
  BY DEF WalkInv, LoadTaken

LEMMA RootsStay == ASSUME WalkInv, UNCHANGED rootsVars PROVE WalkInv'
  <1>1. /\ tree' = tree /\ named' = named /\ queue' = queue /\ docs' = docs /\ skipped' = skipped
        /\ unlisted' = unlisted /\ ceiling' = ceiling /\ walk' = walk
    BY DEF rootsVars, walkVars
  <1>2. \A n : /\ Allowed(n)' = Allowed(n) /\ Below(n, {})' = Below(n, {})
              /\ Below(n, unlisted)' = Below(n, unlisted')
    BY <1>1 DEF Allowed, Below
  <1>3. Start' = Start /\ Reached(Nodes, {})' = Reached(Nodes, {}) /\ Files' = Files
    BY <1>1, <1>2 DEF Start, Reached, Files
  <1>4. \A E : Expanded(E)' = Expanded(E)
    BY <1>1, <1>2, <1>3 DEF Expanded
  <1>5. Walked => Walked'
    BY <1>1, <1>2, <1>3, <1>4 DEF Walked
  <1>6. QED
    BY <1>1, <1>5 DEF WalkInv

(* What a call names is a sequence of paths.                               *)
LEMMA PathsOfRequest ==
    ASSUME NEW req \in Requests, req.op = "from_paths"
    PROVE  req.paths \in Seq(Nodes \cup {Missing})
  <1>1. req \in Request
    BY ApiAssumption DEF ApiAssumption
  <1>2. req \in [op : {"from_paths"}, bearer : BOOLEAN, paths : Seq(Nodes \cup {Missing})]
    BY <1>1 DEF Request, QueryBody
  <1>3. QED
    BY <1>2

LEMMA PathsOfFrame ==
    ASSUME NEW frame \in Frames, frame.method = "tools/call", frame.args.tool \in {"load", "ask"}
    PROVE  frame.args.paths \in Seq(Nodes \cup {Missing})
  <1>1. frame \in Frame
    BY McpAssumption DEF McpAssumption
  <1>2. frame \in [method : {"tools/call"}, id : BOOLEAN, meta : Metas, args : Plain]
    BY <1>1 DEF Frame
  <1>3. frame.args \in Plain
    BY <1>2
  <1>4. CASE frame.args.tool = "load"
    <2>1. frame.args \in [tool : {"load"}, text : {"ok", "no text", None}, paths : Seq(Nodes \cup {Missing})]
      BY <1>3, <1>4 DEF Plain
    <2>2. QED
      BY <2>1
  <1>5. CASE frame.args.tool = "ask"
    <2>1. frame.args \in [tool : {"ask"}, query : BOOLEAN, paths : Seq(Nodes), policy : {"valid", "invalid"}]
      BY <1>3, <1>5 DEF Plain
    <2>2. frame.args.paths \in Seq(Nodes)
      BY <2>1
    <2>3. QED
      BY <2>2
  <1>6. QED
    BY <1>4, <1>5

(* What a step does to the walk.                                           *)
Begins == \E paths \in Seq(Nodes \cup {Missing}) : LoadBegin(paths)
OfRoots == UNCHANGED rootsVars \/ Begins \/ WalkStep \/ LoadTaken

LEMMA ApiOfRoots == ASSUME IInv, NEW c, ApiStep(c) PROVE OfRoots
  <1>1. CASE FromPaths(c)
    <2>1. mode = "http" /\ c \in Calls /\ calls[c].req.op = "from_paths" /\ LoadBegin(calls[c].req.paths)
      BY <1>1 DEF FromPaths, Handles, Http, Asks, At, StartsLoad
    <2>2. calls[c].req \in Requests
      BY <2>1 DEF IInv, CallInv, Placed
    <2>3. QED
      BY <2>1, <2>2, PathsOfRequest DEF OfRoots, Begins
  <1>2. CASE FromPathsLoaded(c)
    BY <1>2 DEF FromPathsLoaded, OfRoots
  <1>3. CASE Unauthorized(c) \/ Reads(c) \/ DeleteContext(c) \/ PostPurge(c) \/ CreateContext(c)
    BY <1>3 DEF Unauthorized, Reads, DeleteContext, PostPurge, CreateContext, OfRoots
  <1>4. CASE QueryRefused(c) \/ QueryExisting(c) \/ QueryInline(c) \/ QueryAnswered(c)
    BY <1>4 DEF QueryRefused, QueryExisting, QueryInline, QueryAnswered, QueryReturns, Refuses, OfRoots
  <1>5. QED
    BY <1>1, <1>2, <1>3, <1>4 DEF ApiStep

LEMMA ToolOfRoots ==
    ASSUME IInv, NEW c, NEW names, Tool(c, names), names \subseteq {"load", "ask"},
           StartsLoad(c, FrameOf(c).args.paths)
    PROVE  OfRoots
  <1>1. /\ mode = "mcp" /\ c \in Calls /\ calls[c].req.method = "tools/call"
        /\ calls[c].req.args.tool \in {"load", "ask"} /\ LoadBegin(calls[c].req.args.paths)
    BY DEF Tool, Waits, At, FrameOf, StartsLoad
  <1>2. calls[c].req \in Frames
    BY <1>1 DEF IInv, CallInv, Placed
  <1>3. QED
    BY <1>1, <1>2, PathsOfFrame DEF OfRoots, Begins

LEMMA McpOfRoots == ASSUME IInv, NEW c, McpStep(c) PROVE OfRoots
  <1>1. CASE LoadPaths(c)
    BY <1>1, ToolOfRoots DEF LoadPaths, ToolError, Unchanged, OfRoots
  <1>2. CASE Ask(c)
    BY <1>2, ToolOfRoots DEF Ask, ToolError, Unchanged, OfRoots
  <1>3. CASE Loaded(c)
    BY <1>3 DEF Loaded, OfRoots
  <1>4. CASE FrameDropped(c) \/ Dispatch(c) \/ ReadTool(c) \/ LoadText(c)
    BY <1>4 DEF FrameDropped, Dispatch, ReadTool, LooksUp, LoadText, Unchanged, OfRoots
  <1>5. CASE QueryTool(c) \/ RunReturns(c)
    BY <1>5 DEF QueryTool, RunReturns, ToolError, Unchanged, OfRoots
  <1>6. QED
    BY <1>1, <1>2, <1>3, <1>4, <1>5 DEF McpStep

LEMMA StepOfRoots == ASSUME IInv, [Next]_vars PROVE OfRoots
  <1>1. CASE UNCHANGED vars
    BY <1>1 DEF vars, serviceVars, OfRoots
  <1>2. CASE Walks
    BY <1>2 DEF Walks, OfRoots
  <1>3. CASE Arrive \/ ReadFrame \/ StreamEnds
    BY <1>3 DEF Arrive, ReadFrame, Arrives, StreamEnds, OfRoots
  <1>4. CASE \E c \in Ids : ClientLeaves(c)
    BY <1>4 DEF ClientLeaves, OfRoots
  <1>5. CASE \E c \in Ids : ApiStep(c)
    BY <1>5, ApiOfRoots
  <1>6. CASE \E c \in Ids : McpStep(c)
    BY <1>6, McpOfRoots
  <1>7. QED
    BY <1>1, <1>2, <1>3, <1>4, <1>5, <1>6 DEF Next, Steps

THEOREM WalkInvariance == Spec => []WalkInv
  <1>1. Init => WalkInv
    BY DEF Init, ServiceInit, RootsInit, WalkInv
  <1>2. WalkInv /\ IInv /\ [Next]_vars => WalkInv'
    <2>1. WalkInv /\ OfRoots => WalkInv'
      BY BeginsWalk, WalkStepKeeps, LoadTakenKeeps, RootsStay DEF OfRoots, Begins
    <2>2. QED
      BY <2>1, StepOfRoots
  <1>3. QED
    BY <1>1, <1>2, Invariance, PTL DEF Spec

(* A load that has ended and did not stop at its ceiling has read or       *)
(* reported all that was reached: what was met is closed under what lies   *)
(* below directories that could be read.                                   *)
LEMMA NothingDropped ==
    ASSUME WalkInv, walk = "done", ~ceiling
    PROVE  (Reached(Nodes \ skipped, unlisted) \cap Files) \ skipped \subseteq ToSet(docs)
  <1>1. /\ Walked /\ tree \in Trees /\ queue = <<>> /\ ToSet(docs) \subseteq Nodes
        /\ ToSet(docs) \subseteq Files
    BY DEF WalkInv, Walked, Files
  <1>2. ToSet(queue) = {}
    BY <1>1 DEF ToSet
  <1>3. PICK E : Expanded(E)
    BY <1>1 DEF Walked
  <1> DEFINE S == (E \cup ToSet(docs) \cup skipped) \cap Nodes
  <1>4. Start \subseteq Nodes
    BY <1>1 DEF Start, Walked, ToSet
  <1>5. Start \subseteq S
    BY <1>2, <1>3, <1>4 DEF Expanded
  <1>6. ASSUME NEW d \in S \cap (Nodes \ skipped)
        PROVE  Below(d, unlisted) \subseteq S
    <2>1. Below(d, unlisted) \subseteq Nodes
      BY DEF Below
    <2>2. CASE d \in E
      BY <1>2, <1>3, <2>1, <2>2 DEF Expanded
    <2>3. CASE d \in ToSet(docs)
      <3>1. d \in Nodes /\ tree.kind[d] = "file"
        BY <1>1, <2>3 DEF Files
      <3>2. tree.lists[d] = {}
        BY <1>1, <3>1, RootsAssumption DEF RootsAssumption
      <3>3. QED
        BY <3>2 DEF Below
    <2>4. QED
      BY <2>2, <2>3
  <1>7. ASSUME NEW n \in Reached(Nodes \ skipped, unlisted), n \in Files, n \notin skipped
        PROVE  n \in ToSet(docs)
    <2>1. n \in S
      <3>1. S \in SUBSET Nodes
        OBVIOUS
      <3> HIDE DEF S
      <3>2. QED
        BY <1>5, <1>6, <3>1, InReached
    <2>2. n \notin E
      BY <1>3, <1>7 DEF Expanded, Files
    <2>3. QED
      BY <1>7, <2>1, <2>2
  <1>8. QED
    BY <1>7

(* Whatever tree, whatever was named, whatever order directories list in   *)
(* and whatever cannot be read: a load returns files inside a root that    *)
(* were reached, sorted, and drops none of its own accord: what is missing *)
(* without a word lies below an entry that a listing failed to give.       *)
THEOREM LoadsAreExact == Spec => []LoadIsExact
  <1>1. WalkInv => LoadIsExact
    <2> SUFFICES ASSUME WalkInv, walk = "done"
                 PROVE  /\ \A i \in 1 .. Len(docs) - 1 : docs[i] <= docs[i + 1]
                        /\ Len(docs) <= MaxFiles
                        /\ ToSet(docs) \subseteq Reached(Nodes, {}) \cap Files
                        /\ ceiling \/ (Reached(Nodes \ skipped, unlisted) \cap Files) \ skipped \subseteq ToSet(docs)
                        /\ \A n \in ToSet(named) : (n # Missing /\ Allowed(n)) \/ n \in skipped
      BY DEF LoadIsExact
    <2>1. Walked
      BY DEF WalkInv
    <2>2. QED
      BY <2>1, NothingDropped DEF Walked
  <1>2. QED
    BY <1>1, WalkInvariance, PTL
=============================================================================
