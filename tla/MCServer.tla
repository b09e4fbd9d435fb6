------------------------------ MODULE MCServer ------------------------------
(* Small trees, requests and frames for Surface.                           *)
EXTENDS Surface

File(n) == [name |-> "plain", to |-> n]
Hidden(n) == [name |-> "dotted", to |-> n]
Vendored(n) == [name |-> "node_modules", to |-> n]

\* 1 lists a file, a directory, a hidden file and a broken link; 3 lists a
\* file, a link to the file of 1, and one that leaves the root.
Kind == [n \in Nodes |-> IF n \in {1, 3} THEN "dir" ELSE "file"]
Lists == [n \in Nodes |->
            CASE n = 1 -> {File(2), File(3), Hidden(5), Vendored(4), File(Missing)}
              [] n = 3 -> {File(4), File(2), File(5)}
              [] OTHER -> {}]
Lies(inside, other) == [n \in Nodes |-> IF n = 5 THEN other ELSE inside]
MCTrees ==
    { [kind |-> Kind, lists |-> Lists, place |-> Lies(<<"inside">>, <<"outside">>)],
      [kind |-> Kind, lists |-> Lists, place |-> Lies(<<"outside", "inside">>, <<"hidden", "inside">>)] }

Good == [op |-> "query", bearer |-> TRUE, policy |-> "valid", query |-> "text",
         context |-> 1, documents |-> None, name |-> None]
Inline == [Good EXCEPT !.context = None, !.documents = "ok", !.name = "text"]
Do(op) == [op |-> op, bearer |-> TRUE]
On(op, id) == [op |-> op, bearer |-> TRUE, id |-> id]
FromPathsOf(paths) == [op |-> "from_paths", bearer |-> TRUE, paths |-> paths]
Create(documents) == [op |-> "create", bearer |-> TRUE, documents |-> documents]

MCRequests ==
    { Good, Inline, [Inline EXCEPT !.bearer = FALSE], [Inline EXCEPT !.policy = "invalid"],
      [Inline EXCEPT !.documents = "no source"], [Good EXCEPT !.documents = "ok"],
      Do("purge"), On("read", 1), On("run", 1), On("delete", 1), Do("list"),
      Create("ok"), FromPathsOf(<<5, 2>>) }

Tools(args) == [method |-> "tools/call", id |-> TRUE, meta |-> "absent", args |-> args]
Method(method, meta) == [method |-> method, id |-> TRUE, meta |-> meta]
AskOf(paths, policy) == Tools([tool |-> "ask", query |-> TRUE, paths |-> paths, policy |-> policy])
QueryOf(policy) == Tools([tool |-> "query", query |-> TRUE, context |-> 2, policy |-> policy])

MCFrames ==
    { [method |-> "unparsable", id |-> FALSE, meta |-> "absent"], [method |-> "ping", id |-> FALSE, meta |-> "absent"] }
    \cup { Method("initialize", m) : m \in {"absent", "modern", "malformed"} }
    \cup { Method("server/discover", m) : m \in {"absent", "other", "modern"} }
    \cup { Method("tools/list", m) : m \in {"other", "unsupported", "modern"} }
    \cup { Method("other", "absent"), Method("ping", "absent") }
    \cup { AskOf(<<5, 1>>, "valid"), AskOf(<<2>>, "invalid"), AskOf(<<>>, "valid"),
           QueryOf("valid"), QueryOf("invalid"),
           [AskOf(<<2>>, "valid") EXCEPT !.meta = "modern"] }
    \cup { Tools([tool |-> "load", text |-> t, paths |-> <<2>>]) : t \in {"ok", "no text", None} }
    \cup { Tools([tool |-> "grep", context |-> 2, argument |-> TRUE]) }
NoFrames == {}
=============================================================================
