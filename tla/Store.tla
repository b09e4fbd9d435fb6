-------------------------------- MODULE Store --------------------------------
(***************************************************************************)
(* The context store of ryu-rlm (src/backend/src/store.rs): contexts and   *)
(* runs held in the memory of a process and mirrored as one JSON file each *)
(* in a directory.  Several requests run in one process, and the HTTP      *)
(* sidecar and its `ryu-rlm mcp` sibling open the same directory, each     *)
(* with its own maps.  A process may be stopped at any point and started   *)
(* again: an idle sidecar is.                                              *)
(*                                                                         *)
(* A record is known by its id alone.  Every system call and every lock    *)
(* release of a method is a step of its own, so requests interleave where  *)
(* threads of the real program can.                                        *)
(***************************************************************************)
EXTENDS Naturals, FiniteSets

CONSTANTS
    Procs,      \* operating-system processes with the directory open
    Threads,    \* request slots
    Owner,      \* the process each request slot runs in
    Routes,     \* the calls that each process offers
    Contexts,   \* context ids the run may draw
    Runs,       \* run ids the run may draw
    Faults,     \* what may go wrong: a crash, a "write", a "rename", an
                \* "unlink", the "read" of a file, the "list" of a directory
    None        \* no record

Records == Contexts \cup Runs
Calls == {"create", "delete", "purge", "query"}
File == Records \X {"json", "tmp"}

ASSUME StoreAssumption ==
    /\ Owner \in [Threads -> Procs]
    /\ Routes \in [Procs -> SUBSET Calls]
    /\ Contexts \cap Runs = {}
    /\ None \notin Records

VARIABLES
    up,         \* up[p]: how far process p has come in Store::open
    mem,        \* mem[p]: keys of the two maps of process p
    files,      \* directory entries, {id}.json and {id}.json.tmp
    torn,       \* records whose temporary file is not wholly written
    pc,         \* pc[t]: the next step of request t
    rec,        \* rec[t]: the record request t works on
    todo,       \* todo[t]: directory entries that a purge has listed
    unread      \* unread[p]: directory entries that rehydrate has listed

(* What an outside observer has been told, which no code reads.            *)
VARIABLES
    used,       \* ids drawn so far
    acked,      \* records whose create or save_run has returned
    known,      \* known[p]: acked before p opened the store, or by p since
    deleted,    \* contexts whose delete has answered true
    doomed,     \* records that a delete or a purge has set out to remove
    overlapped, \* records being written while some purge was under way
    promised,   \* promised[t]: what was acked when the purge of t began
    purged,     \* promised, by a purge that has returned
    stuck,      \* files that an unlink or a listing that failed left behind
    unseen      \* unseen[p]: records that p failed to list or read as it started

seen == <<used, acked, known, deleted, doomed, overlapped, promised, purged, stuck, unseen>>
disk == <<files, torn>>
vars == <<up, mem, files, torn, pc, rec, todo, unread, seen>>

Writing == {"running", "open", "write", "rename", "insert"}
Purging == {"clearRuns", "listContexts", "unlinkContexts", "listRuns",
            "unlinkRuns"}
Steps == {"idle", "unlink"} \cup Writing \cup Purging

(* What read_to_string and the parser make a record of.                    *)
Readable(f) == f \in files /\ (f[2] = "json" \/ f[1] \notin torn)

(* The entries of a directory, temporary files among them.                 *)
FilesOf(R) == {f \in files : f[1] \in R}

(* Purge keeps the contexts lock of its process from its first step to its *)
(* return; every other user of that lock waits for it.                     *)
ContextsFree(p) == \A t \in Threads : Owner[t] = p => pc[t] \notin Purging

PurgeUnderWay == \E t \in Threads : pc[t] \in Purging
InFlight == {rec[t] : t \in {u \in Threads : pc[u] \in Writing}}

Offered(t, call) ==
    /\ pc[t] = "idle"
    /\ up[Owner[t]] = "up"
    /\ call \in Routes[Owner[t]]

Init ==
    /\ up = [p \in Procs |-> "down"]
    /\ mem = [p \in Procs |-> {}]
    /\ files = {}
    /\ torn = {}
    /\ pc = [t \in Threads |-> "idle"]
    /\ rec = [t \in Threads |-> None]
    /\ todo = [t \in Threads |-> {}]
    /\ unread = [p \in Procs |-> {}]
    /\ used = {}
    /\ acked = {}
    /\ known = [p \in Procs |-> {}]
    /\ deleted = {}
    /\ doomed = {}
    /\ overlapped = {}
    /\ promised = [t \in Threads |-> {}]
    /\ purged = {}
    /\ stuck = {}
    /\ unseen = [p \in Procs |-> {}]

-----------------------------------------------------------------------------
(* write_json and its two callers, create and save_run.                    *)

Return(t) ==
    /\ pc' = [pc EXCEPT ![t] = "idle"]
    /\ rec' = [rec EXCEPT ![t] = None]

Draw(t, r, step) ==
    /\ r \notin used
    /\ used' = used \cup {r}
    /\ rec' = [rec EXCEPT ![t] = r]
    /\ pc' = [pc EXCEPT ![t] = step]
    /\ overlapped' = IF PurgeUnderWay THEN overlapped \cup {r} ELSE overlapped

CreateBegin(t, c) ==
    /\ Offered(t, "create")
    /\ Draw(t, c, "open")
    /\ UNCHANGED <<up, mem, disk, todo, unread, acked, known, deleted,
                   doomed, promised, purged, stuck, unseen>>

(* The handler resolves the context and keeps its Arc for the whole run.   *)
QueryBegin(t, c, r) ==
    /\ Offered(t, "query")
    /\ ContextsFree(Owner[t])
    /\ c \in mem[Owner[t]]
    /\ Draw(t, r, "running")
    /\ UNCHANGED <<up, mem, disk, todo, unread, acked, known, deleted, doomed,
                   promised, purged, stuck, unseen>>

(* The engine returns a record, and save_run starts on it.                 *)
QueryEnds(t) ==
    /\ pc[t] = "running"
    /\ pc' = [pc EXCEPT ![t] = "open"]
    /\ UNCHANGED <<up, mem, disk, rec, todo, unread, seen>>

(* A client that hangs up drops the handler where it awaits the engine.    *)
QueryDropped(t) ==
    /\ pc[t] = "running"
    /\ Return(t)
    /\ UNCHANGED <<up, mem, disk, todo, unread, seen>>

WriteOpen(t) ==
    /\ pc[t] = "open"
    /\ files' = files \cup {<<rec[t], "tmp">>}
    /\ torn' = torn \cup {rec[t]}
    /\ pc' = [pc EXCEPT ![t] = "write"]
    /\ UNCHANGED <<up, mem, rec, todo, unread, seen>>

WriteBody(t) ==
    /\ pc[t] = "write"
    /\ torn' = torn \ {rec[t]}
    /\ pc' = [pc EXCEPT ![t] = "rename"]
    /\ UNCHANGED <<up, mem, files, rec, todo, unread, seen>>

Moved(r) == (files \ {<<r, "tmp">>}) \cup {<<r, "json">>}

Rename(t) ==
    /\ pc[t] = "rename"
    /\ <<rec[t], "tmp">> \in files
    /\ files' = Moved(rec[t])
    /\ pc' = [pc EXCEPT ![t] = "insert"]
    /\ UNCHANGED <<up, mem, torn, rec, todo, unread, seen>>

\* A create that drops the error of write_json as save_run does.
WriteErrorIgnored(t) ==
    /\ pc' = [pc EXCEPT ![t] = "insert"]
    /\ rec' = rec

\* A create that goes on to the insert without the record it failed to write.
WriteErrorDropsRecord(t) ==
    /\ pc' = [pc EXCEPT ![t] = "insert"]
    /\ rec' = [rec EXCEPT ![t] = None]

(* create returns the error of write_json; save_run drops it and goes on   *)
(* to the map.                                                             *)
WriteError(t) ==
    \/ /\ rec[t] \in Contexts
       /\ Return(t)
    \/ /\ rec[t] \in Runs
       /\ pc' = [pc EXCEPT ![t] = "insert"]
       /\ rec' = rec

WriteFails(t) ==
    /\ \/ pc[t] \in {"open", "write"} /\ "write" \in Faults
       \/ pc[t] = "rename" /\ "rename" \in Faults
       \/ pc[t] = "rename" /\ <<rec[t], "tmp">> \notin files
    /\ WriteError(t)
    /\ UNCHANGED <<up, mem, disk, todo, unread, seen>>

(* The insert takes the lock of the map it inserts into, and the call      *)
(* returns.                                                                *)
Insert(t) ==
    LET p == Owner[t]
    IN  /\ pc[t] = "insert"
        /\ rec[t] \in Contexts => ContextsFree(p)
        /\ mem' = [mem EXCEPT ![p] = @ \cup {rec[t]}]
        /\ acked' = acked \cup {rec[t]}
        /\ known' = [known EXCEPT ![p] = @ \cup {rec[t]}]
        /\ Return(t)
        /\ UNCHANGED <<up, disk, todo, unread, used, deleted, doomed,
                       overlapped, promised, purged, stuck, unseen>>

-----------------------------------------------------------------------------
(* remove_file, whose error neither delete nor purge looks at.             *)
RemoveFile(f) ==
    \/ /\ files' = files \ {f}
       /\ stuck' = stuck \ {f}
    \/ /\ "unlink" \in Faults
       /\ f \in files
       /\ stuck' = stuck \cup {f}
       /\ UNCHANGED files

-----------------------------------------------------------------------------
(* delete: out of the map under the lock, and after it the file.           *)

\* A delete that leaves the record in the map until the next start.
DeleteForgetsMap(t, c) ==
    /\ Offered(t, "delete")
    /\ c \in mem[Owner[t]]
    /\ rec' = [rec EXCEPT ![t] = c]
    /\ pc' = [pc EXCEPT ![t] = "unlink"]
    /\ doomed' = doomed \cup {c}
    /\ UNCHANGED <<up, mem, disk, todo, unread, used, acked, known,
                   deleted, overlapped, promised, purged, stuck, unseen>>

DeleteBegin(t, c) ==
    LET p == Owner[t]
    IN  /\ Offered(t, "delete")
        /\ ContextsFree(p)
        /\ c \in mem[p]
        /\ mem' = [mem EXCEPT ![p] = @ \ {c}]
        /\ rec' = [rec EXCEPT ![t] = c]
        /\ pc' = [pc EXCEPT ![t] = "unlink"]
        /\ doomed' = doomed \cup {c}
        /\ UNCHANGED <<up, disk, todo, unread, used, acked, known,
                       deleted, overlapped, promised, purged, stuck, unseen>>

\* A delete that gets the name of the file wrong.
FileOfOther(r) == <<r, "tmp">>

FileOf(r) == <<r, "json">>

(* The answer is true whether the file could be removed or not.            *)
DeleteUnlink(t) ==
    /\ pc[t] = "unlink"
    /\ RemoveFile(FileOf(rec[t]))
    /\ deleted' = deleted \cup {rec[t]}
    /\ Return(t)
    /\ UNCHANGED <<up, mem, torn, todo, unread, used, acked, known,
                   doomed, overlapped, promised, purged, unseen>>

-----------------------------------------------------------------------------
(* purge: both maps, then every entry of the two directories in turn.      *)

PurgeBegin(t) ==
    LET p == Owner[t]
    IN  /\ Offered(t, "purge")
        /\ ContextsFree(p)
        /\ mem' = [mem EXCEPT ![p] = @ \ Contexts]
        /\ pc' = [pc EXCEPT ![t] = "clearRuns"]
        /\ promised' = [promised EXCEPT ![t] = acked]
        /\ doomed' = doomed \cup acked
        /\ overlapped' = overlapped \cup InFlight
        /\ UNCHANGED <<up, disk, rec, todo, unread, used, acked,
                       known, deleted, purged, stuck, unseen>>

\* A purge that leaves the runs map alone.
PurgeForgetsRuns(t) ==
    /\ pc[t] = "clearRuns"
    /\ pc' = [pc EXCEPT ![t] = "listContexts"]
    /\ UNCHANGED <<up, mem, disk, rec, todo, unread, seen>>

PurgeClearRuns(t) ==
    /\ pc[t] = "clearRuns"
    /\ mem' = [mem EXCEPT ![Owner[t]] = @ \ Runs]
    /\ pc' = [pc EXCEPT ![t] = "listContexts"]
    /\ UNCHANGED <<up, disk, rec, todo, unread, seen>>

(* What a listing of a directory may miss.                                 *)
Lapses(R) == {S \in SUBSET FilesOf(R) : S # {} => "list" \in Faults}

(* entries.flatten() passes over an entry that cannot be read.             *)
PurgeList(t) ==
    /\ \/ /\ pc[t] = "listContexts"
          /\ pc' = [pc EXCEPT ![t] = "unlinkContexts"]
          /\ \E lost \in Lapses(Contexts) :
               /\ todo' = [todo EXCEPT ![t] = FilesOf(Contexts) \ lost]
               /\ stuck' = stuck \cup lost
       \/ /\ pc[t] = "listRuns"
          /\ pc' = [pc EXCEPT ![t] = "unlinkRuns"]
          /\ \E lost \in Lapses(Runs) :
               /\ todo' = [todo EXCEPT ![t] = FilesOf(Runs) \ lost]
               /\ stuck' = stuck \cup lost
    /\ UNCHANGED <<up, mem, disk, rec, unread, used, acked, known, deleted,
                   doomed, overlapped, promised, purged, unseen>>

PurgeReturns(t) ==
    /\ pc' = [pc EXCEPT ![t] = "idle"]
    /\ purged' = purged \cup promised[t]
    /\ promised' = [promised EXCEPT ![t] = {}]

(* read_dir fails, and the directory is passed over as a whole.            *)
PurgeListFails(t) ==
    /\ "list" \in Faults
    /\ \/ /\ pc[t] = "listContexts"
          /\ stuck' = stuck \cup FilesOf(Contexts)
          /\ pc' = [pc EXCEPT ![t] = "listRuns"]
          /\ UNCHANGED <<promised, purged>>
       \/ /\ pc[t] = "listRuns"
          /\ stuck' = stuck \cup FilesOf(Runs)
          /\ PurgeReturns(t)
    /\ UNCHANGED <<up, mem, disk, rec, todo, unread, used, acked, known,
                   deleted, doomed, overlapped, unseen>>

Swept(t) == IF pc[t] = "unlinkContexts" THEN Contexts ELSE Runs

(* The entries a sweep may come to: the ones it has listed, and one made   *)
(* after the directory was opened.                                         *)
Sweepable(t) == todo[t] \cup (FilesOf(Swept(t)) \ stuck)

\* A purge that tries an entry again until it is the one to remove it.
PurgeUnlinkRetries(t) ==
    /\ pc[t] \in {"unlinkContexts", "unlinkRuns"}
    /\ \E f \in Sweepable(t) :
         /\ RemoveFile(f)
         /\ todo' = [todo EXCEPT ![t] = IF f \in files THEN @ \ {f} ELSE @]
    /\ UNCHANGED <<up, mem, torn, pc, rec, unread, used, acked, known,
                   deleted, doomed, overlapped, promised, purged, unseen>>

(* An entry that was listed may be gone by now, which remove_file reports  *)
(* and purge ignores like any other error.                                 *)
PurgeUnlink(t) ==
    /\ pc[t] \in {"unlinkContexts", "unlinkRuns"}
    /\ \E f \in Sweepable(t) :
         /\ RemoveFile(f)
         /\ todo' = [todo EXCEPT ![t] = @ \ {f}]
    /\ UNCHANGED <<up, mem, torn, pc, rec, unread, used, acked, known,
                   deleted, doomed, overlapped, promised, purged, unseen>>

PurgeNext(t) ==
    /\ todo[t] = {}
    /\ \/ /\ pc[t] = "unlinkContexts"
          /\ pc' = [pc EXCEPT ![t] = "listRuns"]
          /\ UNCHANGED <<promised, purged>>
       \/ /\ pc[t] = "unlinkRuns"
          /\ PurgeReturns(t)
    /\ UNCHANGED <<up, mem, disk, rec, todo, unread, used, acked,
                   known, deleted, doomed, overlapped, stuck, unseen>>

-----------------------------------------------------------------------------
(* A process ends at any point, and opens the directory again.  rehydrate  *)
(* takes every entry of a directory for a record, whatever its name.       *)

Stop(p) ==
    /\ "crash" \in Faults
    /\ up[p] # "down"
    /\ up' = [up EXCEPT ![p] = "down"]
    /\ mem' = [mem EXCEPT ![p] = {}]
    /\ unread' = [unread EXCEPT ![p] = {}]
    /\ known' = [known EXCEPT ![p] = {}]
    /\ unseen' = [unseen EXCEPT ![p] = {}]
    /\ pc' = [t \in Threads |-> IF Owner[t] = p THEN "idle" ELSE pc[t]]
    /\ rec' = [t \in Threads |-> IF Owner[t] = p THEN None ELSE rec[t]]
    /\ todo' = [t \in Threads |-> IF Owner[t] = p THEN {} ELSE todo[t]]
    /\ promised' = [t \in Threads |->
                      IF Owner[t] = p THEN {} ELSE promised[t]]
    /\ UNCHANGED <<disk, used, acked, deleted, doomed, overlapped,
                   purged, stuck>>

Ids(F) == {f[1] : f \in F}

(* A directory is listed: an entry that cannot be read, or the whole of a  *)
(* directory that cannot, is passed over without a word.                   *)
Lists(p, R) ==
    \E lost \in Lapses(R) :
        /\ unread' = [unread EXCEPT ![p] = FilesOf(R) \ lost]
        /\ unseen' = [unseen EXCEPT ![p] = @ \cup Ids(lost)]

Open(p) ==
    /\ up[p] = "down"
    /\ up' = [up EXCEPT ![p] = "readContexts"]
    /\ Lists(p, Contexts)
    /\ known' = [known EXCEPT ![p] = acked]
    /\ UNCHANGED <<mem, disk, pc, rec, todo, used, acked, deleted,
                   doomed, overlapped, promised, purged, stuck>>

(* An entry that cannot be read back is passed over too.                   *)
Rehydrate(p) ==
    /\ \E f \in unread[p] :
         /\ unread' = [unread EXCEPT ![p] = @ \ {f}]
         /\ \/ /\ mem' = IF Readable(f) THEN [mem EXCEPT ![p] = @ \cup {f[1]}]
                                        ELSE mem
               /\ UNCHANGED unseen
            \/ /\ "read" \in Faults
               /\ unseen' = [unseen EXCEPT ![p] = @ \cup {f[1]}]
               /\ UNCHANGED mem
    /\ UNCHANGED <<up, disk, pc, rec, todo, used, acked, known, deleted,
                   doomed, overlapped, promised, purged, stuck>>

\* A process that serves before it has read what it listed.
OpenNextEarly(p) ==
    /\ \/ up[p] = "readContexts" /\ up' = [up EXCEPT ![p] = "readRuns"]
       \/ up[p] = "readRuns" /\ up' = [up EXCEPT ![p] = "up"]
    /\ unread' = [unread EXCEPT ![p] = FilesOf(Runs)]
    /\ UNCHANGED <<mem, disk, pc, rec, todo, seen>>

OpenNext(p) ==
    /\ unread[p] = {}
    /\ \/ /\ up[p] = "readContexts"
          /\ up' = [up EXCEPT ![p] = "readRuns"]
          /\ Lists(p, Runs)
       \/ /\ up[p] = "readRuns"
          /\ up' = [up EXCEPT ![p] = "up"]
          /\ UNCHANGED <<unread, unseen>>
    /\ UNCHANGED <<mem, disk, pc, rec, todo, used, acked, known, deleted,
                   doomed, overlapped, promised, purged, stuck>>

-----------------------------------------------------------------------------

Begin(t) ==
    \/ \E c \in Contexts : CreateBegin(t, c)
    \/ \E c \in Contexts, r \in Runs : QueryBegin(t, c, r)
    \/ \E c \in Contexts : DeleteBegin(t, c)
    \/ PurgeBegin(t)

(* What a request does of itself once it has begun, the engine apart.      *)
Step(t) ==
    \/ WriteOpen(t) \/ WriteBody(t) \/ Rename(t) \/ WriteFails(t)
    \/ Insert(t)
    \/ DeleteUnlink(t)
    \/ PurgeClearRuns(t) \/ PurgeList(t) \/ PurgeListFails(t)
    \/ PurgeUnlink(t) \/ PurgeNext(t)

Boot(p) == Open(p) \/ Rehydrate(p) \/ OpenNext(p)

Next ==
    \/ \E t \in Threads : Begin(t) \/ Step(t) \/ QueryEnds(t) \/ QueryDropped(t)
    \/ \E p \in Procs : Stop(p) \/ Boot(p)

Spec == Init /\ [][Next]_vars

(* The operating system runs every thread, and the store blocks on nothing *)
(* but its own locks.  Nothing makes the engine return (see Host).         *)
FairSpec ==
    /\ Spec
    /\ \A t \in Threads : WF_vars(Step(t))
-----------------------------------------------------------------------------
(***************************************************************************)
(* Properties.                                                             *)
(***************************************************************************)

TypeOK ==
    /\ up \in [Procs -> {"down", "readContexts", "readRuns", "up"}]
    /\ mem \in [Procs -> SUBSET Records]
    /\ files \subseteq File
    /\ torn \subseteq Records
    /\ pc \in [Threads -> Steps]
    /\ rec \in [Threads -> Records \cup {None}]
    /\ todo \in [Threads -> SUBSET File]
    /\ unread \in [Procs -> SUBSET File]
    /\ used \subseteq Records
    /\ acked \subseteq used
    /\ known \in [Procs -> SUBSET Records]
    /\ deleted \subseteq Contexts
    /\ doomed \subseteq Records
    /\ overlapped \subseteq Records
    /\ promised \in [Threads -> SUBSET Records]
    /\ purged \subseteq Records
    /\ stuck \subseteq File
    /\ unseen \in [Procs -> SUBSET Records]

OnDisk(r) == <<r, "json">> \in files

(* create reports a failed write and save_run does not, so a run is only   *)
(* sure to be on disk where no write fails.                                *)
Kept == IF Faults \cap {"write", "rename"} = {} THEN Records ELSE Contexts

(* A create that returned Ok can be read back by every later process       *)
(* ("contexts must rehydrate"): until a delete or a purge sets out to      *)
(* remove it its file is there, whatever stops in between.  A purge that   *)
(* ran beside the create may have taken the file.                          *)
AckedIsDurable ==
    \A r \in (acked \cap Kept) \ (doomed \cup overlapped) : OnDisk(r)

(* An open process serves every record it returned and every record that   *)
(* was returned before it opened the directory, even when another process  *)
(* creates and deletes while it reads; but for what it could not list or   *)
(* read as it started, which rehydrate passes over.                        *)
AckedIsServed ==
    \A p \in Procs : up[p] = "up" =>
        (known[p] \cap Kept) \ (doomed \cup overlapped \cup unseen[p]) \subseteq mem[p]

(* What is removed is gone, through stops, failed writes and whatever runs *)
(* beside it: a context that create had returned and for which delete has  *)
(* answered true, and any record that had been returned before a purge     *)
(* began that has returned, has no file left, is in no map of a process    *)
(* that owns the directory alone, and no restart brings it back.  Excepted *)
(* is the one file whose own last unlink failed or that the last purge     *)
(* could not list: delete and purge answer as if it had gone.              *)
Removed == (acked \cap deleted) \cup purged
FilesLeft(r) == {f \in files : f[1] = r}
RemovedIsGone ==
    /\ \A r \in Removed : FilesLeft(r) \subseteq stuck
    /\ \A p \in Procs : \A r \in mem[p] \cap Removed : FilesLeft(r) # {}

(* Even what a failed unlink has left behind stays out of an open process: *)
(* only a start brings a removed record back.                              *)
OnlyAStartRevives ==
    [][\A p \in Procs : up[p] = "up" =>
          mem'[p] \cap Removed' \subseteq mem[p] \cap Removed]_vars

(* With no store call under way the maps and the directory hold the same   *)
(* records: what is listed is on disk, and what is on disk is listed, but  *)
(* for what a delete or a purge failed to unlink and what the process      *)
(* failed to read as it started.  A purge beside a create or a save_run is *)
(* excepted (see PurgeLeavesNothing).                                      *)
Quiet == \A t \in Threads : pc[t] \in {"idle", "running"}
MirrorWhenQuiet ==
    \A p \in Procs : Quiet /\ up[p] = "up" =>
        \A r \in (acked \cap Kept) \ overlapped :
            /\ r \in mem[p] => OnDisk(r)
            /\ OnDisk(r) => r \in mem[p] \cup unseen[p] \/ FileOf(r) \in stuck

(* A purge always gives the contexts lock back, through all that other     *)
(* requests write meanwhile, and every call returns unless purges keep     *)
(* coming: the mutex is not fair, so they could starve a waiting insert.   *)
Returns(t, S) == pc[t] \in S ~> pc[t] = "idle"
EveryCallReturns ==
    \A t \in Threads :
        /\ Returns(t, Purging)
        /\ <>[]~PurgeUnderWay => Returns(t, Steps \ {"idle", "running"})

-----------------------------------------------------------------------------
(* What the documents say of the program, and the program does not do.     *)

(* "Drop every context and run" (store.rs), and "the on-disk mirror is     *)
(* gone too" (api_route_tests.rs): with no call under way a context that   *)
(* is listed is one the directory holds.                                   *)
PurgeLeavesNothing ==
    \A p \in Procs : Quiet /\ up[p] = "up" =>
        \A c \in mem[p] \cap Contexts : OnDisk(c)
=============================================================================
