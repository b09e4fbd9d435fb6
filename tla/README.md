# ryu-rlm in TLA+

ryu-rlm answers questions over corpora too large for one prompt: a sidecar holds
contexts, cut into chunks, and an engine lets a planner model look at chunks, map
questions over them, recurse into them and answer with citations, under one
budget of calls, steps, depth and time. This directory models the parts of it
that keep state, checks them with TLC on small instances and proves what matters
most with TLAPS for every instance.

Line references are to the repository; `store.rs`, `host.rs`, `engine.rs`,
`api.rs`, `mcp.rs`, `chunk.rs`, `ops.rs`, `main.rs` are under `src/backend/src/`,
`handoff.rs`, `peer_proof.rs`, `mcp_protocol.rs` under
`src/crates/core/sidecar-runtime/src/`, scripts under `src/scripts/`, workflows
under `src/.github/workflows/`.
`PROJECT.json` maps each definition to the lines it stands for.

## 1. Inventory

| Component | State | Operations | Talks to | What makes it correct |
|---|---|---|---|---|
| **Context store** `store.rs` | two maps (contexts, runs) behind one mutex each; a directory of `{id}.json` per kind | `open`, `rehydrate`, `create`, `get`, `delete`, `purge`, `save_run`, lists | files; called by the API and by MCP, in two processes over one directory | what was returned survives a stop; what was removed stays away; maps and directory agree; a purge ends |
| **Readable roots** `store.rs` 140-298 | none of its own | `resolve`, `load` | files, links | nothing outside the roots is loaded; what is left out is reported; the walk ends |
| **Chunker** `chunk.rs` | loop variables | `split` | - | chunks are ordered, disjoint, in bounds, non-blank |
| **Model host and quota** `host.rs` | `remaining_calls`, `reserved_calls`, `prompt_chars`, deadline, a semaphore of `MAX_IN_FLIGHT` | `complete` (reserve, wait at the gate, send, read the body) | Core over HTTP; called by planner and map leaves | a budget is never exceeded or lost; permits come back; waits end |
| **Recursion engine** `engine.rs` | the run record (trace, evidence, counters), loop variables, one frame per level | `run_inner`, operators, `recurse`, the forced turn | host, ops, chunker | citations are grounded, statuses honest, trace and counters add up, every run ends |
| **Operators** `ops.rs` | none | `validate`, outline, peek, grep, ... | engine | an operator addresses chunks that exist; a hit has its true line number |
| **HTTP API** `api.rs` | none | one handler per route; `query` is the long one | store, engine | a refused request changes nothing; what was answered is found; every call is answered |
| **MCP server** `mcp.rs`, `mcp_protocol.rs` | negotiated revision, stdio loop | `initialize`, `tools/list`, `tools/call` | store, engine | nothing is served before its handshake; one answer per request, stamped for its revision |
| **Sidecar handoff** `handoff.rs` | a file with address and token | `publish`, `withdraw`, `load` | successive processes | a live owner's handoff is not removed by an old one |
| **Peer proof** `peer_proof.rs` | a cache of proved peers with a time to live | `probe`, `remember`, `forget` | concurrent requests | a token goes to a proved peer only, and no older than the limit |
| **Versions** `next-version.mjs`, workflows `nightly`, `release` | tags and releases of the mirror | `resolveBase`, the version of a channel, precedence; publish and prune | scheduled, pushed and re-run builds | versions of a channel rise |
| **Release notes** `notes-batches.mjs`, `rolling-notes.mjs` | loop variables | range, batching, retry, splitting, merging of highlights | a model endpoint, git | no change is lost or reviewed twice; the generator ends |
| **Shell** `main.rs`, runtime `lib.rs` | none | the choice of a surface, the bearer gate | API, MCP | the gate is before every route |
| Layout, branding, DLL search, other workflows | none | start-up | - | not modelled, see section 12 |

How they interact: an API or MCP call resolves a context in the **store**, hands
it with a budget to the **engine**, which charges every model call to the
**quota** and passes the **gate** of the process; the record it makes goes back
into the store. Map leaves are tasks of their own. A client that hangs up drops
the handler at an await and leaves the spawned leaves running. The HTTP sidecar
and the `ryu-rlm mcp` process share the directory and nothing else. Successive runs
of a sidecar share a port and a **handoff** file, from which local clients take a
token; Core sends its secret to that port only on a **proof** that the listener
holds it. The release workflows call the **versions** and **notes** scripts from a
checkout and publish what they say.

What is hard: two locks, a directory and a purge between requests; stops between
a write, a rename and an insert; two atomic counters drawn by many leaves; a
deadline that may pass between any two steps; a gate shared by queries that do not
know of each other; bookkeeping that is merged up a recursion; two negotiations on
one stream; a file and a cache that are compared first and changed afterwards, by
processes that come and go; builds that overlap, are re-run or cancelled.
`PROJECT.json`
lists these as hazards, each at its line with the properties that cover it.

## 2. Plan

The order follows the weight of what can go wrong. All of these are done:

1. **Store** with faults and two processes; every invariant of it proved.
2. **Host** with planner and leaves; conservation laws proved, and the refinement
   of **CallLedger**.
3. **Engine**, using what Host says of a completion; every invariant of it proved.
4. **Chunk**, the splitter and its repetition in recursions, and **Operators**, grep
   over its chunks; every invariant proved, what Engine assumes of re-cutting among
   them.
5. **Roots**, `resolve` and the walk of `load`; proved exact.
6. **Service**, what the surfaces share, **Api** and **Mcp** over it, and
   **Surface**, one process of either kind; every invariant proved.
7. **Handoff** and **PeerProof**, composed in **Loopback**; both proved.
8. **NextVersion** and **Notes**, composed in **Release**; that versions rise and no
   change is lost proved.

How they compose: `Service` extends `Roots`, `Api` and `Mcp` extend `Service`,
`Surface` has both; `Operators` extends `Chunk`; `Loopback` extends `Handoff` and
`PeerProof`; `Release` extends `NextVersion` and `Notes`. Between `Service`,
`Engine`, `Host` and `Store` the link is an assumption of the one that is a property
of the other: a store operation is a step in `Service` and `Store` has what is
inside; a completion is a step in `Engine` and `Host` has what is inside; that the
engine returns is an assumption of `Surface` and a property of `Engine` and `Host`.

Still worth having: a *durable registry* (a set of records that create adds to and
delete takes from, atomically) that Store implements away from overlapping purges;
and, of Engine, an abstract run that only reads, cites and counts, which the frames
of `stack` implement one inside the other.

No module that is proved about declares a RECURSIVE operator: what recurses does so
as a recursive function (`Total` in **Totals**, `Batches`, `SubContext`) or as a
flattened sequence (`HitsOf`, `Resolving`, `Pruned`), of which **Induction** has the
lemmas. Parameters are CONSTANTS with a named assumption.

## 3. Store

State: `mem[p]` is the key set of both maps of process p, `files` the directory
entries as (id, extension) pairs, `torn` the ids whose temporary file is not
wholly written, `up[p]` the progress of `Store::open`, and per request slot
`pc[t]`, `rec[t]` and `todo[t]` (what a purge has listed). A record is its id:
contents never change after `create`. The variables grouped as `seen` are history
of what callers were told; no guard reads them except that ids are drawn fresh
(`used`), as UUIDs are.

| Code | Actions |
|---|---|
| `create` 346-388, `write_json` 480-489 | `CreateBegin`, `WriteOpen` (create/truncate `.tmp`), `WriteBody`, `Rename`, `Insert` (waits for the lock); `WriteFails` at each of the three |
| `post_query` (`api.rs` 599-643), `save_run` 443-449 | `QueryBegin`, `QueryEnds` or `QueryDropped`, then the same writes; a failed write is ignored and the run inserted |
| `delete` 418-424 | `DeleteBegin` (map, under the lock), `DeleteUnlink` (answers true whether the file goes or not: `RemoveFile`) |
| `purge` 428-441 | `PurgeBegin` takes the contexts lock and keeps it; `PurgeClearRuns`; per directory `PurgeList`, `PurgeUnlink` per entry, `PurgeNext`; a directory that cannot be listed is passed over (`PurgeListFails`) |
| `open` 308-320, `rehydrate` 322-343 | `Open`, `Rehydrate` per entry, `OpenNext`; temporary files are read like any other entry; an entry that cannot be listed or read is passed over (`Lists`, `Rehydrate`) |
| process exit | `Stop` in any state; only the directory survives |

A directory read is modelled with the licence an operating system has: an entry
listed may be gone when reached, and one made after the listing may be returned
(`PurgeUnlink`).

`Faults` says what may go wrong: a process that stops, and a write, a rename, an
unlink, the listing of a directory (the whole or any of its entries) or the read of a
file that fails. The code reports the errors of a create's write and rename and drops
all the others. Two history variables name what a dropped error concerned, and no
more: `stuck`, the files whose own last unlink failed or that a listing of the last
purge missed, and `unseen[p]`, the records that process p failed to list or read as
it started.

Instances (`MCStore`): one sidecar with three request slots, or that sidecar with
two and an MCP process with one slot that creates and queries.

- `StoreFaults.cfg`: one context and one run, three slots, stops and every fault there
  is. Two slots are what any pair of calls needs, a third lets a create, a delete and a
  purge be under way at once. One record of a kind is enough here: a call works on its
  own record, or on all of them alike as purge does, and what a removal leaves behind is a matter of its own file
  and of what is removed, written or read beside it. Ids are never reused, so their
  number bounds the length of a history.
- `StoreTwo.cfg`: the two processes, three slots and two contexts, so that one may be
  written beside the removal of another, failing writes and reads, no stop (a stop ends
  a call, and liveness would be about stopping), no run. `AckedIsServed` has to say what
  a process may know: what it returned, and what had been returned before it opened the
  directory.

`RemovedIsGone` speaks of what create had returned when delete answered true, and of
what had been returned when a purge that has returned began: it has no file left and
no restart brings it back. Excepted are the files in `stuck`: after an unlink that
failed the code answers as if it had not, and the next start serves the record again
(section 10). `OnlyAStartRevives` says that nothing else does: no step of
an open process puts a removed record into its map. `MirrorWhenQuiet` has the same
exception, and for what is on disk and not listed also what the process failed to read
as it started. All three are checked in the process that owns the directory alone.
With two, the other process goes on serving what it had read (section 10).

## 4. Host

State: the counters of each query's `RunQuota`, its deadline as the bit `elapsed`,
the gate as `permits` and the first-come `queue` (a Tokio semaphore is fair), and
for each task where it is in `complete` and what its last completion returned.
`issued` counts requests that went out and is read by no guard.

| Code | Actions |
|---|---|
| `reserve_call` 110-121 | `ReserveCheck`, `ReserveTake` (the `fetch_update`), `ReserveCount` (the other atomic) |
| `complete` 217-257 | `Recheck`, `Acquire` / `AcquireTimeout`, `Record`, `Send`, `SendTimeout`, `Answered` |
| `complete` 259-281 | `BodyArrives` (any outcome; no timeout around it) |
| `run_inner` 438-453, 644-648 | `PlannerTurn`, `Finish` |
| `map_chunks` 720-772 | `Map`, `Join` |
| handler dropped by its client | `Dropped`, at any await |

`Holding` is the set of places where the permit is held; leaving `complete` on any
path drops it. Bounds: `MaxCalls` is 3 and 2 (a planner turn, two leaves and one
more turn exceed it) and `MaxInFlight` is 2 in `HostQuota`, where two leaves and
another query's planner contend for it: calls are refused and tasks queue.
`HostBody` needs one query at a gate of one.

**CallLedger** is the abstract specification of all this: per query a number of
calls bought, sent and billed, with the actions `Buy`, `Send`, `Close` and `Abandon`.
Nothing is sent that was not bought, nothing is bought above the budget, and a query
that has its record neither buys nor sends. Host instantiates it with
`bought <- reserved`, `sent <- issued`, `bill <- reported`, `state <- status`, and
`LedgerHolds` says that every step of Host is a step of the ledger or leaves it as it
is. What makes it true is that a run waits for all of its leaves.

## 5. Engine

A run is a frame on `stack`; `recurse` pushes one. The frame holds the fields of
`RunRecord` and the loop variables of `run_inner`. `remaining` and `elapsed` are
the shared quota. Models may reply anything, so a reply action exists for each
class `ops::validate` distinguishes. A completion is one step here: while it runs
the engine does nothing else, and its outcomes (ok or provider error at the cost of
one call, deadline at the cost of none or one, refused at zero) are those of
Host's `complete`. A map is one step in which every leaf has returned; Host has
the interleaving.

| Code | Actions |
|---|---|
| `run_inner` 438-487 | `TurnBegin`, `PlannerFails`, `Reply...` |
| `execute` 652-718, `validate_final` 884-930, evidence 208-250 | `ReplyInvalid`, `ReplyLook`, `ReplyPeek`, `ReplyFinal` |
| `map_chunks` 720-799 | `ReplyMap`, `MapEnds` |
| `recurse` 803-867 | `ReplyRecurseRefused`, `ReplyRecurse`, `Return` (merge and splice) |
| `run_inner` 584-648 | `LoopExit`, `ForcedNothing`, `ForcedFinal`, `Close` |

A map may name a chunk twice, which costs two calls, and a recursion may name
chunks in any order and repeatedly, which makes a sub-context with the same span
twice; nothing in `ops::validate` or `recurse` removes duplicates. `final` does.

A trace keeps one name for the replies that read nothing and for peeks: no property
tells them apart. `observed` is what the code collects. A peek grounds the whole of its chunk where its
start lies within it (`Grounds`, `engine.rs` 668-672), and shows text of it where it also
asks for some (`Shows`, `ops.rs` 229-256). `read` and `blank` are history: what a leaf
answered on or a peek showed a window of, however short, and what a peek grounded and
showed nothing of. `CitesWereRead` is about both: of the first alone it would not hold
(section 10). Likewise `okNested` beside `recursions`. Left out: notes, recent
observations and prompts, since a model that may reply anything needs none.

What re-cutting gives is the constant `Recut`, of which Engine assumes that it stays
within the lines of the chunk it cuts; that is what ChunkProofs proves of the
splitter (`TrueSpans`).

Bounds: `EngineDeep` goes two levels down over a chunk that is cut in two, with five
calls, three steps (two in a nested run) and lists of two chunks: enough for a
recursion in a recursion, two recursions in one run, a forced turn above or below a
splice. It has two sources of which one is allowed, and wants one citation and one
recursion of an ok answer, so that every clause of the policy can fail.

## 6. Chunk and operators

State: the documents being split, the loop variables of `split_one` and the chunks
so far. A line is a kind (heading, blank, other), a number of characters, and the
ghost `at`, its true number in its source.

| Code | Actions |
|---|---|
| `chunk_documents` 130-137 | `Init`, `Begin` |
| loop of `split_one` 154-181 | `SplitLine` with `Breaks`, `Cut`, `Gather` |
| after the loop 183-185, `push_chunk` 188-210 | `EndDocument`, `PushChunk` |
| `recurse` (`engine.rs` 803-829) | `Recurse`: excerpts of chosen chunks are split again |

A chunk is read again from its joined text, so an empty last line is gone
(`Reread`). The instance has every first document of up to five lines of six
shapes, among them a line above `MaxChars`, an empty line and a line of blanks, and
a second document after it; three targets, one below the floor and one above the
ceiling; recursions two deep naming two chunks. A break depends on what was
gathered since the last one and on the next line, and five lines hold two breaks
of any kind with whitespace between them.

**Operators** has grep (`ops.rs` 257-313) over the chunks of each of these corpora:
`HitsOf`, `Rows` with their window clipped at the chunk, and the cap, which the code
looks at after it has written a hit, so that a cap of zero reports one. A pattern is
a set of kinds of line. The text of a chunk is read again from its joined form there
too.

`Observed` is the cut at `MAX_OBSERVATION_CHARS` (181-199), which every report goes
through: it falls on a character, wherever the rows have it, and takes what follows.
`Rooms` are the characters it leaves to the rows. The count of hits and the list of chunk
ids come first and hold 60 ids at most, so it never reaches them (310-311). What
`GrepIsTrue` says of a report below its cap is therefore twofold: cut or not, it lists a
chunk with each line that matches, and when it is not cut it shows the line. A row that
is cut itself does not count as shown.

Instance: two patterns, caps of 0, 2 and 60 (`MAX_GREP_HITS`), windows of 0 and 1, rooms
for one row of a line of text and for all rows; the first cap stops a report, the last
never does.

## 7. Server

`Service` holds what `main.rs` makes and both surfaces share: the contexts, the runs,
the roots, whether Core's model callback is configured (`host`), and every call in
the order of its arrival. A context or a run has the number of the call that made it
for its id, which is fresh as a UUID is. `Surface` is a process: its command line has
chosen `mode`, and the actions of the other surface are not enabled.

**Roots.** A file or directory is the rank of its canonical path; a tree says what
each is, how it lies towards each root (outside, in a hidden part, inside) and what a
directory lists, links by their targets.

| Code | Actions |
|---|---|
| `resolve` 181-209, `skip_when_walking` 285-298 | `Resolves` (the first root that holds the path decides), `SkippedWhenWalking` |
| `load` 215-278 | `LoadBegin`, `ExpandDirectory` (entries in any order, and any of them lost), `ReadFile`, `Unreadable`, `LoadEnded`, `LoadTaken` |

`Reached` and `Allowed` are the reference definition: a closure, with no walk, which
`LoadIsExact` compares with what the walk made, whatever order it took. `unlisted` is
history: the entries that a listing failed to give, which `entries.flatten()` (246)
drops and `skipped` does not name. Short of what lies below one of these, every file
that is reached is read or reported.

**Api.** A handler runs to its end in a step, but for the load it may start and the
run it may await: these are its places `loading` and `running`, and other calls go on
meanwhile.

| Code | Actions |
|---|---|
| `bearer_gate` (`main.rs` 142), around every route but `/health` | `Unauthorized`, `Authorized` |
| `list_contexts`, `get_context`, `list_runs`, `get_run` | `Reads` |
| `delete_context`, `post_purge` | `DeleteContext`, `PostPurge` |
| `create_context`, `create_from_paths` | `CreateContext`, `FromPaths`, `FromPathsLoaded` |
| `into_validated` 461-550, `post_query` 599-643 | `QueryRefused`, `QueryExisting` (404 before 503), `QueryInline` (503 before anything is stored), `QueryAnswered`, `ClientLeaves` |

**Mcp.** `serve` handles one frame at a time. `Verdict` is `request_is_modern`
(`mcp_protocol.rs` 41-101) with its classes of `_meta`.

| Code | Actions |
|---|---|
| `serve`, the loop and the end of either stream | `ReadFrame`, `FrameDropped`, `StreamEnds` |
| `serve`, a method without a tool | `Dispatch` |
| `grep`, `peek`, `contexts`, unknown tools | `ReadTool` |
| `load`, `ask`, `query` | `LoadText`, `LoadPaths`, `Ask`, `Loaded`, `QueryTool`, `RunReturns` |
| `finalize_response` (`mcp_protocol.rs` 115-146) and its call (`mcp.rs` 245) | `Replies`, `Finalized` |

Bounds (`MCServer`): trees of five nodes, under one root or under two of which the
first hides a file, with a link out of a directory, a broken link, a hidden entry and
a file that is reached twice; a ceiling of two files, below what the tree holds. Three
calls of which two overlap: a maker, a remover and a reader, or a handshake and two
frames. The requests and frames have one member per way to be refused. A walk goes
from start to end on its own: it reads nothing that a call writes and writes nothing
that a call reads, so that other interleavings end in the same states. The trees have
no cycles (section 10).

## 8. Loopback

**Handoff.** A run of a sidecar binds the port, writes its temporary file, renames it,
serves; on a signal it stops listening, compares the handoff with its own token and
removes it. The crate provides publish and withdraw, and leaves their place in the
life of a process to its caller, which is outside this repository; stopping first is
what makes a successor overlap with a withdrawal at all.

| Code | Actions |
|---|---|
| `publish`, `write_private_file` 66-128 | `WritesTemp`, `Renames`, either of which may fail, and leave the temporary file if its removal fails too (93, 97) |
| `withdraw` 130-135 | `Withdraws` (load and compare), `Removes` |
| `load`, `connect`, `request`, `authorize` | `Loads`, `Probes`, `Requests`, `FallsBack` |
| the port and the process | `Starts`, `Stops`, `Dies`, `PortTaken`, `PortFreed` |

`raced` is history: the runs that published while an older one stood between its
comparison and its removal. `LiveStaysPublished` excepts them, and nothing else.

**PeerProof.** `cache` is `ProofCache`, each request is a caller that asks the cache,
probes, reads the answer and sends. Only a holder of a token can answer a challenge
for it, which is what the hash is for.

| Code | Actions |
|---|---|
| `peer_holds_token` 345-361, `is_fresh` | `Asks`, `IsFresh` |
| `probe` 153-190 with the timeout of `probe_client` | `PeerAnswers`, `ProbeTimesOut`, `Concludes` |
| `send_with_verified_bearer` | `Sends` |

`WorldChanges` lets PeerProof stand alone in a world that changes its listeners as it
likes. `Loopback` puts the runs of Handoff in its place: what the listener holds is
the secret its run was started with.

Bounds: two runs (a withdrawal concerns a run and its successor), one client, two
callers of one cache, which are interchangeable (symmetry), the secret rotated from the first run to the
second, a TTL of 2, a probe of 1 and a clock that stops at 3, so that a proof can be
made, stamped late, used and expire.

## 9. Release

`NextVersion` has precedence, `ResolveBase` and the versions of the channels. `Notes`
is one run of the notes generator. `Release` is the mirror repository around them:
syncs, pushed tags, published releases, and one job of each workflow (canary is
nightly on a push).

| Code | Actions |
|---|---|
| `batches`, `validateCoverage` | `Batches`, `Covers` |
| `retryModelCall`, `reviewWithSplitting` | `Reviewed`, `RetryReview`, `ReviewFails` (`Halves`) |
| `consolidateHighlights` | `Round`, `Merge`, `MergeInvalid`, `MergeFails`, `RoundEnds` |
| `rolling-notes.mjs` around them | `NotesStart`, `ReviewEnds`, `Written`, `Fallback` |
| `nightly.yml`, `release.yml` | `StartRun`, `StartStable`, `WriteNotes`, `Publish`, `RunFails` |
| outside | `Sync`, `Tomorrow` |

A run may be a re-run, with the number and the commit it had; it cancels the one under
way; it may fail to list the releases, and then numbers from the in-tree version
alone. The world stands still while notes are written, but for what cancels them: the
generator reads a checkout and writes to its standard output only.

Bounds: two in-tree versions, 0.1.0 and 0.3.0, which leave a gap to bump into; one
sync after the first; two numbered runs, two builds published, two days, two stable
releases; one rolling build kept, so that the second prunes. Commits of three small descriptions or of one
small and one above the byte limit; batches of two; two attempts; groups of two
highlights, so that merging takes more than one round.

## 10. Runs

| Run | Configuration | Question and result |
|---|---|---|
| `store_faults` | `StoreFaults.cfg` | Safety of one sidecar under every fault; what is left of a removal, and that only a start revives it. Holds. |
| `store_two` | `StoreTwo.cfg` | Two processes: each serves what it may know of, calls return. Holds. |
| `store_purge` | `StorePurge.cfg` | "Drop every context and run" (`store.rs` 426). Violated: `create` inserts after the purge has taken its file; the list shows a context the directory does not hold. |
| `host_quota` | `HostQuota.cfg` | Conservation of calls and permits; the ledger; waits at the gate end; runs end if bodies do. Holds. |
| `host_body` | `HostBody.cfg` | "Every bound ... ends the run" (`engine.rs` 31). Violated: the body of a response is awaited without a timeout (`host.rs` 260). |
| `engine_deep` | `EngineDeep.cfg` | Evidence, counters, statuses, policy and traces through nested runs; runs end. Holds. |
| `chunk_split` | `ChunkSplit.cfg` | Every small document, split and split again: true spans, no text lost, ceilings kept, recursions with text, grep true. Holds. |
| `server` | `Server.cfg` | Loads, refusals, durable answers, the handshake, an answer to every call. Holds. |
| `mcp_stamp` | `McpStamp.cfg` | "Stamp a modern response's result" (`mcp_protocol.rs` 115). Violated: it is handed the result where it looks for a response. |
| `loopback` | `Loopback.cfg` | Handoffs and proofs over runs that overlap. Holds, but for the race it names. |
| `release` | `Release.cfg` | Versions rise, no change is lost or told twice, the generator ends. Holds. |
| `release_notes` | `ReleaseNotes.cfg` | `--require-ai` "exits non-zero instead of silently shipping fallback notes" (`rolling-notes.mjs` 23-26). Violated: a release started by its own tag finds that tag as the previous one, and an empty range. |

Deadlock checking is on in the Store runs: a store can always take another call, stop,
or finish what it has begun. It is off in the others, where a query, a split or the
bounded supply of calls, runs or builds ends and nothing is left to do.

The definitions introduced by a one-line `\*` comment, just before the one they
resemble (`FileOfOther` before `FileOf`), are wrong variants that no action
uses: with one put in the place of the real definition, a property of the runs
fails. They show that each property depends on the code it is about.

### Disagreements without a run of their own

Store and engine:

- A stop between write and rename leaves a `.json.tmp` that `rehydrate` serves and
  `delete` does not remove (`store.rs` 421; `api.rs` 325 "Delete one context and the
  text it holds"). `RemovedIsGone` speaks of returned contexts and is not touched.
- `purge` drops the errors of `read_dir`, of an entry and of `remove_file` (`store.rs`
  434-436) and returns, and `delete` drops that of its unlink (421) and answers true: the
  file stays, and the next start serves the record again. 427 says of purge "a real
  deletion and not a UI-only one", `api.rs` 325 of delete "Delete one context and the
  text it holds". `RemovedIsGone` excepts just these files (`stuck`).
- "Any citation in the nested final must name a chunk this nested run actually read"
  (`engine.rs` 316): a peek of no characters shows nothing (`ops.rs` 241-244) and grounds
  its chunk (`engine.rs` 669). `CitesWereRead` excepts these peeks (`blank`).
- A query under way stores its run over a context that was purged meanwhile
  (`api.rs` 641; `store.rs` 427 "A real deletion").
- A process goes on serving a context that the other deleted (`store.rs` 390; `api.rs`
  320 promises it gone).
- `parent` is "Index of the step that spawned this one" (`engine.rs` 127) and is a loop
  counter (856).
- A forced turn whose call fails or whose reply is no valid final leaves no step
  (`engine.rs` 592), where 34-36 say that the turn "is marked in the trace".
  `TraceAccountsForCalls` bounds what is missing.
- `observed_chunk` (`engine.rs` 232) wants one observed span to cover a cited chunk,
  while `ephemeral` (`store.rs` 117-137) re-cuts finer and drops an empty last line: a
  chunk read piecewise below may not be cited above although all of it was read.
- "Hard ceiling on a single chunk" (`chunk.rs` 40) does not hold for one long line, the
  "one-line CSV" of that comment (170). `SeveralLinesKeepCeiling` is what holds.
- `grep` with a `max` of zero reports one hit (`ops.rs` 299-303).

Roots and surfaces:

- The walk keeps no set of visited directories (`store.rs` 254) and takes the last entry
  first: where a link to an ancestor is listed after the files beside it, the walk goes
  round for ever and queues those files each time, and the file ceiling, which looks at
  what was read, never stops it. "A directory expands to its files, recursively"
  (211-212) has no such case. Over trees without cycles `EveryCallAnswered` has it end.
- What a load cannot read as text is "skipped with a note" (`store.rs` 211-214); an entry
  that a listing fails to give is dropped by `entries.flatten()` (246) and reported nowhere.
  `LoadIsExact` excepts what lies below such an entry.
- "A path the user names explicitly is loaded" (`store.rs` 288-289); `resolve`
  (189-200) refuses one with a hidden component below its root.
- MCP `ask` creates its context before it validates the policy (`mcp.rs` 368, 383-390):
  a refused call leaves it, which `api.rs` 605-608 is careful not to do.
  `RefusedLeavesNothing` excepts this case by name.
- MCP `query` takes a blank or an overlong question (`mcp.rs` 346), which HTTP refuses
  (`api.rs` 475-482).
- The readable roots default "to the process's working directory" (`main.rs` 15-16);
  `from_env` (`store.rs` 152-165) takes the home directory.

Handoff, versions, notes:

- "A crash never leaves a half-written file" (`handoff.rs` 88) is said of the handoff; the
  temporary file beside it, which holds the token too, stays where its removal fails (93,
  97: the result is dropped) or the process dies. `TypeOK` of Loopback has no such file
  beside a run that serves.
- `withdraw` compares and then removes (`handoff.rs` 130-135): a successor that renames
  its file in between loses it, where 130 says "Remove the handoff this process
  published". `LiveStaysPublished` excepts the overlap.
- "With the patch bumped past every published STABLE release at or above it"
  (`next-version.mjs` 195-196); the loop stops at the first free patch, below a later one
  where there is a gap.
- Where listing the releases fails, the base falls back to the in-tree version, below
  what is published. `RollingMovesForward` asks only of builds that could list.
- "Never fails the build" (`rolling-notes.mjs` 21): a tag or a previous release that
  does not resolve exits with 1 (106-113), and a `git log` that fails is not caught (118).

### Fairness

- Store: weak fairness of every `Step(t)`. Threads run; the store blocks only on
  its own locks. The engine is not assumed to return (`QueryEnds` has no fairness),
  nor is a process assumed to start.
- The contexts mutex is not fair, so `EveryCallReturns` promises a return of other
  calls only if purges eventually cease; a purge itself always returns.
- Host: weak fairness of each task's own steps, of the engine's steps and of time
  passing. None for Core: it may never answer and never finish a body.
  `EveryRunEnds` therefore has the premise that no body is awaited for ever;
  `host_body` shows that it is needed.
- Engine: weak fairness of `Run`, that is, completions return, which is what
  `EveryRunEnds` says of Host.
- Surface: weak fairness of each handler, of the serve loop and of the walk. They are
  threads that wait for nothing but the engine, whose return is what `RunEnds` and
  `EveryRunEnds` say. None for clients, nor for the end of a stream.
- Release: weak fairness of the generator alone. Every request of it has a timeout of
  three minutes. No workflow is assumed to run.
- Loopback: none; its properties are safety.

## 11. Proofs

`HostProofs` (assumption: `HostAssumption`, finite tasks, natural budgets, a gate of
at least one permit) proves for any queries, tasks and budgets:

- `Typing`; `CallsAreConserved`; `PermitsAreConserved`; `IssuedAreCounted`; and
  from them `BudgetHolds`, that a query issues no more than `MaxCalls` requests.
- Each is a sum over tasks at places. `CountMoves` says how the number of tasks at a
  set of places changes when one task moves; every action but `Map` and `Join` moves
  one. A map moves many, to a place that charges nothing: `CountMap` and
  `ChargesNothing`.
- `Map` would break the sums if a leaf were already at work when it is spawned
  again. The companion invariant `LeavesJoined` rules that out: leaves of a running
  query are busy only while its planner is in `join`. It is inductive with
  `TypeOK` and the sums are not without it.
- `ImplementsLedger`, the refinement: `Spec => LedgerHolds`. Each action of Host is
  taken to `Buy` (`ReserveCount`), `Send`, `Close` (`Finish`), `Abandon` (`Dropped`) or a
  stutter. That a call may be bought comes from `CallsConserved`, that it may be sent
  from `IssuedIsCounted`, that a finished query does neither from `LeavesJoined`
  (`AtWork`: whoever is at work works for a query that is not done);
  `ChargeIsAPurchase`, `IssueIsASend` and `RunEntries` are these facts, one lemma each.
- `PlannerIsServed`, that is `[]PlannerIsNeverRefused`. `Funded` says that a planner on
  its way through `reserve_call` has a call left to it. A call is drawn at
  `take` alone (`TaskDraws`), and by `LeavesJoined` no leaf of the query is there
  meanwhile.

`StoreProofs` (assumption: `StoreAssumption`) proves for any processes, threads,
records and faults:

- `Durable`, that is `[]AckedIsDurable`, with `Typing`, from the inductive `IInv`.
  Alone, `AckedIsDurable` says nothing of the moment before `Insert`. `Staged` and
  `Renamed` follow a file through write and rename; `Apart` and `Drawn` say that no
  other request writes it; `Unlinking` that a delete unlinks only what it doomed;
  `Covered` that during a purge everything acknowledged or in flight is doomed or
  overlapped, so what the sweep takes is never promised.
- `WritersApart`: no two requests write the same record.
- `Served`, that is `[]AckedIsServed`, for any number of processes. `Reading` says of a
  process that is opening its directory that what it may know is in its map or among
  the entries it has still to read.
- `Gone` and `Mirrors`, that is `[]RemovedIsGone` and `[]MirrorWhenQuiet`, under `Solo`:
  one process owns the directory. Without it both fail, by the second process that goes
  on serving. They hold for any faults: what may be left behind is in `stuck` from the step
  that failed on. `GoneInv` follows a delete (`Leaving`: what it is about to unlink is held
  and written by nobody) and a purge (`Sweeping`: what it promised has left the maps and,
  of the directory it has swept, all but the entries it has still to unlink); `Fresh` and
  `Numbered` keep a new record apart from what was removed. `MirrorInv` adds the two
  directions, `Filed` (what is held is on disk) and `Held` (what is on disk is held,
  about to go, or still to be read), for what was sure to be written and overlapped no
  purge.

- `OnlyStartsRevive`, that is `OnlyAStartRevives`, an action property, from `GoneInv`
  (`StepRevives`): an insert is of a record that no delete or purge can have answered for.

`ChunkProofs` (assumption: `ChunkAssumption`, corpora numbered from their first
line, floor <= re-cut target <= ceiling) proves for any corpora, targets and depth:

- `Typing`, `TrueSpans` and `NeverEmpty`, from one inductive
  invariant. `Gathered` says that `buf` is the stretch of the document before line
  `i` that starts at `bufStart`; without it nothing is known of a chunk when it is
  pushed. `Sound` says that the documents of every recursion are numbered truly,
  which needs that the spans of the chunks they came from are true: the two are
  inductive together only. `TextAhead` follows the text of a recursion from its
  document through `buf` into a chunk.

- `KeepsCeiling` and `KeepsText`, from a second invariant, `Counts`, over states that
  satisfy the first. `Measured` says that `bufChars` is the size of `buf`, which is above
  the ceiling only while it is one line. `Kept` counts, for each line with text, the
  chunks that hold it: as many as the documents behind the splitter have it in, and one
  more once it has left `buf`. A line is in a document once since documents are numbered
  truly (`Sound`), so a push adds to each count one or nothing.
- `GrepTells`, of **Operators** (assumption: `OperatorsAssumption`, natural caps, windows
  and rooms): grep reads finished chunks, so it follows from the invariant and `KeepsText`
  without a step. `RowsAreTrue` is about one window, `HitsFound` about the list of hits,
  `ObservedRows` about the cut.

`EngineProofs` (assumption: `EngineAssumption`, a corpus that is not empty, a re-cut that
stays within its chunk, limits of at least one) proves every invariant of the run for any
corpus, re-cut, depth, budget and policy. None is inductive; one `IInv` strengthens all of
them, and says of each frame, at its depth:

- `Paced`: how its place agrees with its steps and its status. `BudgetIsABound`.
- `Evident`: what counts as observed was read, or looked into by a peek that showed
  nothing, and what is cited was observed.
  `CitationsGrounded`.
- `Earned`: an ok came with an answer that met the policy. `PolicyMet`.
- `Billed`: its own steps account for the calls of every turn but the one it is in. The
  calls of a nested run change the quota under a waiting frame, and leave this true
  (`Waits`). `CallsAccounted`.
- `Nests`: its trace reads as one list. `TracesNest`.

and of the stack `Stacked` (all but the top wait for the one above) and `Counted` (nested
runs that ended ok are shared out among the runs under way; `RecursionsCounted`). The hard
step is `Return`, which merges evidence and splices a trace into another:
`SplicedReads` and `SplicedCosts` show that the result is one list again and adds up.

`SurfaceProofs` (assumptions: `RootsAssumption`, finitely many nodes of which files list
nothing; `ServiceAssumption`, in which None is no call) proves for any requests, frames,
trees and number of calls:

- `RefusalsLeaveNothing`, `AnswersAreFound` and `NothingBeforeTheHandshake`, from an
  `IInv` that says of each call where it can be (`Placed`), what it may have left (`Kept`,
  `Ran`), that what it was told is there or was removed by a call that was answered
  (`Found`), and what came before it (`Negotiated`). A handler changes one call, and what
  the invariant says of the others depends on answered calls alone, which only grow:
  `Effect` says what a step of a handler may do, `EffectKeeps` that it keeps the
  invariant, and each handler is shown to have such an effect.
- `LoadsAreExact`, from `WalkInv`. What can be reached, and what can be reached through
  entries that were listed, is a closure, and the walk is
  compared with it through the set E of the directories it has expanded: unless it was
  cut short, everything named and everything listed below E is in E, queued, read or skipped
  (`Expanded`). Once the queue is empty that set is closed, so it holds all that can be
  reached. Nothing is said of termination: with cycles the walk need not end.

`ReleaseProofs` (assumptions: `NotesAssumption`, `ReleaseAssumption`: in-tree versions are
stable, batches and groups hold at least one) proves for any history of the mirror and any
number of runs:

- `ChangesOnce`, that is `[]EveryChangeOnce`, from `NotesInv`: reviewed and waiting
  together have as many entries as there are descriptions and name all of them (`Whole`),
  so none is there twice. `BatchesHold` says it of `Batches`, by induction over the
  items, and `SplitKeeps` of a batch that is halved.
- `BuildsMoveForward`, that is `RollingMovesForward`, an action property, from `WorldInv`.
  `Made` says of every build there ever was what its run can have called it: a base at or
  past the tree of its commit with no stable release missing before it (`Taken`). Stable
  releases are never pruned, and a tree is never before an earlier one, so the base a
  later run finds free is no lower; on the same base date and run number decide.
  `Follows` says that a stable release is behind the head or has no gap before it, so the
  free base of a build of the head is past it.

`Induction` holds what these need of sequences and recursion. `SetInduction` is induction
over the naturals for a set in place of a predicate, proved from the well-foundedness of
inclusion among finite sets; from it come the totals, `Flattened`, `FlattenLast` and
`FlattenFirst` (what a flattened sequence holds, and how it grows at either end) and
`Ordered` (an order of a finite set runs through all of it).

`LoopbackProofs` (assumptions: `HandoffAssumption`, `PeerAssumption`,
`LoopbackAssumption`) proves for any runs, clients, callers, keys and times:

- `Proved`, that is `SentWasProved` of PeerProof alone, in any world, from the
  inductive `PeerInv`. `SentWasProved` says nothing of a proof on its way: `ProofsAge`
  follows it from probe to answer to cache and bounds its age at each.
- `LoopbackIsAWorld`, the refinement `Spec => PeerSpec`: what the runs do is a change of
  the world. With it `SentIsProved` is `Proved` of the composition.
- `StaysPublished`, from `HandoffInv`. `Overlap` says who can be between comparison and
  removal while another run is published, and that a run which listens is the only one.
- `Typing`, in which a run that serves has left no temporary file of its handoff behind.

Model-checked only: liveness (`EveryCallReturns`, `GateWaitEnds`, `EveryRunEnds`,
`RunEnds`, `EveryCallAnswered`, `NotesEnd`), which needs fairness and ENABLED, which the
prover does not handle. Every invariant of a passing run, the refinement `LedgerHolds` and
the action properties `RollingMovesForward` and `OnlyAStartRevives` are proved. The six
disagreements of section 10 that have a run are counterexamples of TLC.

## 12. Not modelled

- Start-up, environment and profile resolution, the directories and the listener
  (`main.rs`, `lib.rs`, `paths.rs`, the runtime's `lib.rs`, `layout.rs`, `branding.rs`)
  are straight-line configuration. `dll_search` is calls to the Windows loader.
- The manifest, the workflows `ci` and `star-chart`, the builds of the binaries and
  `opencode-session.mjs` keep no state.
- Engine and operators: prompts, notes and recent observations, since a model that may
  reply anything needs none; the outline and which part of a chunk a peek shows, which are
  reads of text; `prompt_chars` is counted in prompts.
- Roots and surfaces: the text of a file and its truncation at `MAX_FILE_CHARS`, JSON
  text and its limits of size, wording of errors. Cyclic trees (section 10). `get_outline`,
  `post_peek` and `post_grep` are lookups like the read of a context.
- Handoff and proof: the bytes of a response (`parse_response`, chunked bodies): an
  answer is read or it is not; `pin_localhost`; the strength of the hash.
- Release: the ordinal of a beta, which no workflow here asks for; the parser of
  versions and the command lines; `fragmentPairs`, which nothing here calls; how long a
  retry waits.
