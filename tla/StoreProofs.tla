------------------------------ MODULE StoreProofs ------------------------------
(***************************************************************************)
(* Proofs about Store, for any number of processes, threads and records    *)
(* and any faults.                                                         *)
(*                                                                         *)
(* The inductive invariant says who may touch whose file: a writer owns    *)
(* its id alone, a delete unlinks only what it has doomed, and while a     *)
(* purge is under way everything that is acknowledged or being written is  *)
(* doomed or counted as overlapped.  A file outside Lost is removed by     *)
(* nobody.                                                                 *)
(***************************************************************************)
EXTENDS Store, TLAPS

\* Records whose file a delete or a purge may have taken.
Lost == doomed \cup overlapped

Drawn == \A t \in Threads : pc[t] \in Writing => rec[t] \in used
Apart ==
    \A t, u \in Threads :
        t # u /\ pc[t] \in Writing /\ pc[u] \in Writing => rec[t] # rec[u]
Unlinking ==
    \A t \in Threads : pc[t] = "unlink" => rec[t] \in Contexts /\ rec[t] \in doomed
Covered ==
    \A p \in Threads : pc[p] \in Purging =>
        /\ acked \subseteq Lost
        /\ \A t \in Threads : pc[t] \in Writing => rec[t] \in Lost
Staged ==
    \A t \in Threads : pc[t] \in {"write", "rename"} /\ rec[t] \notin Lost =>
        <<rec[t], "tmp">> \in files
Renamed ==
    \A t \in Threads : pc[t] = "insert" /\ rec[t] \in Kept /\ rec[t] \notin Lost =>
        <<rec[t], "json">> \in files

IInv == TypeOK /\ Drawn /\ Apart /\ Unlinking /\ Covered /\ Staged /\ Renamed
            /\ AckedIsDurable

USE DEF disk, seen

-----------------------------------------------------------------------------
(* The invariant holds of an empty directory.                              *)
LEMMA InitIInv == Init => IInv
  BY StoreAssumption DEF StoreAssumption, Init, IInv, TypeOK, Drawn, Apart, Unlinking,
     Covered, Staged, Renamed, AckedIsDurable, Steps, Writing, Purging, Records

(* Every step of every request and every process keeps it.                 *)
LEMMA StepIInv == IInv /\ [Next]_vars => IInv'
  <1> SUFFICES ASSUME IInv, [Next]_vars
               PROVE  IInv'
    OBVIOUS
  <1> USE StoreAssumption DEF StoreAssumption, IInv, TypeOK, Drawn, Apart, Unlinking,
          Covered, Staged, Renamed, AckedIsDurable, OnDisk, Kept, Lost, Records, File,
          Steps, Writing, Purging
  <1>1. ASSUME NEW t \in Threads, NEW c \in Contexts, CreateBegin(t, c)
        PROVE  IInv'
    <2>1. TypeOK'
      BY <1>1 DEF CreateBegin, Offered, Draw, PurgeUnderWay
    <2>2. (Drawn /\ Apart /\ Unlinking)'
      BY <1>1 DEF CreateBegin, Offered, Draw, PurgeUnderWay
    <2>3. (Covered /\ Staged /\ Renamed /\ AckedIsDurable)'
      BY <1>1 DEF CreateBegin, Offered, Draw, PurgeUnderWay
    <2>4. QED
      BY <2>1, <2>2, <2>3
  <1>2. ASSUME NEW t \in Threads, NEW c \in Contexts, NEW r \in Runs, QueryBegin(t, c, r)
        PROVE  IInv'
    <2>1. TypeOK'
      BY <1>2 DEF QueryBegin, Offered, Draw, PurgeUnderWay
    <2>2. (Drawn /\ Apart /\ Unlinking)'
      BY <1>2 DEF QueryBegin, Offered, Draw, PurgeUnderWay
    <2>3. (Covered /\ Staged /\ Renamed /\ AckedIsDurable)'
      BY <1>2 DEF QueryBegin, Offered, Draw, PurgeUnderWay
    <2>4. QED
      BY <2>1, <2>2, <2>3
  <1>3. ASSUME NEW t \in Threads, NEW c \in Contexts, DeleteBegin(t, c)
        PROVE  IInv'
    BY <1>3 DEF DeleteBegin, Offered
  <1>4. ASSUME NEW t \in Threads, PurgeBegin(t)
        PROVE  IInv'
    BY <1>4 DEF PurgeBegin, Offered, InFlight
  <1>5. ASSUME NEW t \in Threads, WriteOpen(t)
        PROVE  IInv'
    BY <1>5 DEF WriteOpen
  <1>6. ASSUME NEW t \in Threads, WriteBody(t)
        PROVE  IInv'
    BY <1>6 DEF WriteBody
  <1>7. ASSUME NEW t \in Threads, Rename(t)
        PROVE  IInv'
    BY <1>7 DEF Rename, Moved
  <1>8. ASSUME NEW t \in Threads, WriteFails(t)
        PROVE  IInv'
    <2>1. TypeOK'
      BY <1>8 DEF WriteFails, WriteError, Return
    <2>2. (Drawn /\ Apart /\ Unlinking)'
      BY <1>8 DEF WriteFails, WriteError, Return
    <2>3. (Covered /\ Staged /\ Renamed /\ AckedIsDurable)'
      BY <1>8 DEF WriteFails, WriteError, Return
    <2>4. QED
      BY <2>1, <2>2, <2>3
  <1>9. ASSUME NEW t \in Threads, Insert(t)
        PROVE  IInv'
    BY <1>9 DEF Insert, Return
  <1>10. ASSUME NEW t \in Threads, DeleteUnlink(t)
        PROVE  IInv'
    BY <1>10 DEF DeleteUnlink, Return, RemoveFile, FileOf
  <1>11. ASSUME NEW t \in Threads, PurgeClearRuns(t)
        PROVE  IInv'
    BY <1>11 DEF PurgeClearRuns
  <1>12. ASSUME NEW t \in Threads, PurgeList(t)
        PROVE  IInv'
    <2>1. TypeOK'
      BY <1>12 DEF PurgeList, FilesOf, Lapses
    <2>2. (Drawn /\ Apart /\ Unlinking)'
      BY <1>12 DEF PurgeList, FilesOf, Lapses
    <2>3. (Covered /\ Staged /\ Renamed /\ AckedIsDurable)'
      BY <1>12 DEF PurgeList, FilesOf, Lapses
    <2>4. QED
      BY <2>1, <2>2, <2>3
  <1>13. ASSUME NEW t \in Threads, PurgeUnlink(t)
        PROVE  IInv'
    BY <1>13 DEF PurgeUnlink, RemoveFile, Sweepable, FilesOf, Swept
  <1>14. ASSUME NEW t \in Threads, PurgeNext(t)
        PROVE  IInv'
    BY <1>14 DEF PurgeNext, PurgeReturns
  <1>15. ASSUME NEW t \in Threads, QueryEnds(t)
        PROVE  IInv'
    BY <1>15 DEF QueryEnds
  <1>16. ASSUME NEW t \in Threads, QueryDropped(t)
        PROVE  IInv'
    BY <1>16 DEF QueryDropped, Return
  <1>17. ASSUME NEW p \in Procs, Stop(p)
        PROVE  IInv'
    BY <1>17 DEF Stop
  <1>18. ASSUME NEW p \in Procs, Open(p)
        PROVE  IInv'
    BY <1>18 DEF Open, Lists, Lapses, Ids, FilesOf
  <1>19. ASSUME NEW p \in Procs, Rehydrate(p)
        PROVE  IInv'
    BY <1>19 DEF Rehydrate
  <1>20. ASSUME NEW p \in Procs, OpenNext(p)
        PROVE  IInv'
    BY <1>20 DEF OpenNext, Lists, Lapses, Ids, FilesOf
  <1>30. ASSUME NEW t \in Threads, PurgeListFails(t)
        PROVE  IInv'
    <2>1. TypeOK'
      BY <1>30 DEF PurgeListFails, PurgeReturns, FilesOf
    <2>2. (Drawn /\ Apart /\ Unlinking)'
      BY <1>30 DEF PurgeListFails, PurgeReturns, FilesOf
    <2>3. (Covered /\ Staged /\ Renamed /\ AckedIsDurable)'
      BY <1>30 DEF PurgeListFails, PurgeReturns, FilesOf
    <2>4. QED
      BY <2>1, <2>2, <2>3
  <1>21. CASE UNCHANGED vars
    BY <1>21 DEF vars
  <1>22. QED
    BY <1>1, <1>2, <1>3, <1>4, <1>5, <1>6, <1>7, <1>8, <1>9, <1>10, <1>11, <1>12, <1>13, <1>14, <1>15, <1>16, <1>17, <1>18, <1>19, <1>20, <1>30, <1>21 DEF Next, Begin, Step, Boot

-----------------------------------------------------------------------------

(* Every variable of the model keeps its type; a record is acknowledged    *)
(* only under an id that was drawn for it.                                 *)
THEOREM Typing == Spec => []TypeOK
  <1>1. IInv => TypeOK
    BY DEF IInv
  <1>2. QED
    BY <1>1, InitIInv, StepIInv, PTL DEF Spec

(* A create that has returned Ok keeps its file until a delete or a purge  *)
(* sets out to remove the context, or a purge overlapped the create: for   *)
(* any number of processes over the one directory, any number of requests  *)
(* in each, stops at every step and failing writes.  So it does of a run   *)
(* where no write fails.                                                   *)
THEOREM Durable == Spec => []AckedIsDurable
  <1>1. IInv => AckedIsDurable
    BY DEF IInv
  <1>2. QED
    BY <1>1, InitIInv, StepIInv, PTL DEF Spec

(* No two requests ever write the same record, and a delete unlinks only a *)
(* context that it has taken out of the map.                               *)
THEOREM WritersApart == Spec => [](Apart /\ Unlinking)
  <1>1. IInv => Apart /\ Unlinking
    BY DEF IInv
  <1>2. QED
    BY <1>1, InitIInv, StepIInv, PTL DEF Spec
-----------------------------------------------------------------------------
(* What is removed stays away, in a process that owns the directory alone. *)

Solo == \A p, q \in Procs : p = q

(* What is being written is unknown to everybody else, and is not told to  *)
(* have been removed.                                                      *)
Fresh ==
    \A t \in Threads : pc[t] \in Writing =>
        /\ rec[t] \notin acked \cup deleted
        /\ \A p \in Procs : rec[t] \notin mem[p]

(* Nothing is held under an id that was not drawn.                         *)
Numbered ==
    /\ \A f \in files : f[1] \in used
    /\ \A p \in Procs : mem[p] \subseteq used
    /\ deleted \subseteq used

(* Requests are served once the directory is read.                         *)
Serving ==
    /\ \A t \in Threads : up[Owner[t]] # "up" => pc[t] = "idle"
    /\ \A p \in Procs : up[p] = "up" => unread[p] = {}

(* A context leaves no temporary file once it is renamed.                  *)
Settled ==
    /\ \A t \in Threads : pc[t] = "insert" /\ rec[t] \in Contexts => <<rec[t], "tmp">> \notin files
    /\ \A c \in acked \cap Contexts : <<c, "tmp">> \notin files

(* What a delete is about to unlink is held and written by nobody.         *)
Leaving ==
    \A t \in Threads : pc[t] = "unlink" =>
        /\ rec[t] \in used /\ rec[t] \notin mem[Owner[t]]
        /\ \A u \in Threads : pc[u] \in Writing => rec[u] # rec[t]

(* How far a purge has come: what it has promised to remove has left the   *)
(* maps and, of the directory it has swept, all but what it has yet to do   *)
(* and what it failed to remove.  It finds no removed record in the maps.  *)
Sweeping ==
    \A t \in Threads : pc[t] \in Purging =>
        /\ promised[t] \subseteq acked
        /\ mem[Owner[t]] \cap Contexts = {}
        /\ pc[t] # "clearRuns" => (promised[t] \cup Removed) \cap mem[Owner[t]] = {}
        /\ pc[t] = "unlinkContexts" =>
             \A f \in files : f[1] \in promised[t] \cap Contexts => f \in todo[t] \cup stuck
        /\ pc[t] \in {"listRuns", "unlinkRuns"} =>
             \A f \in files : f[1] \in promised[t] \cap Contexts => f \in stuck
        /\ pc[t] = "unlinkRuns" =>
             \A f \in files : f[1] \in promised[t] \cap Runs => f \in todo[t] \cup stuck

GoneInv == Fresh /\ Numbered /\ Serving /\ Settled /\ Leaving /\ Sweeping /\ RemovedIsGone
             /\ purged \subseteq acked

(* The invariant holds of an empty directory.                              *)
LEMMA InitGone == Init => GoneInv
  BY StoreAssumption DEF StoreAssumption, Init, GoneInv, Fresh, Numbered, Serving, Settled, Leaving,
     Sweeping, RemovedIsGone, Removed, FilesLeft, Writing, Purging

(* Every step keeps it, where there is one process.                        *)
LEMMA StepGone == ASSUME Solo PROVE IInv /\ GoneInv /\ [Next]_vars => GoneInv'
  <1> SUFFICES ASSUME IInv, GoneInv, [Next]_vars
               PROVE  GoneInv'
    OBVIOUS
  <1> USE StoreAssumption, Solo DEF StoreAssumption, Solo, IInv, TypeOK, Drawn, Apart, GoneInv, Fresh,
          Numbered, Serving, Settled, Leaving, Sweeping, RemovedIsGone, Removed, FilesLeft, Records,
          File, Writing, Purging, Steps
  <1>1. ASSUME NEW t \in Threads, NEW c \in Contexts, CreateBegin(t, c)
        PROVE  GoneInv'
    <2>1. (Fresh /\ Numbered /\ Serving)'
      BY <1>1 DEF CreateBegin, Offered, Draw
    <2>2. (Settled /\ Leaving)'
      BY <1>1 DEF CreateBegin, Offered, Draw
    <2>3. Sweeping'
      BY <1>1 DEF CreateBegin, Offered, Draw
    <2>4. (RemovedIsGone /\ purged \subseteq acked)'
      BY <1>1 DEF CreateBegin, Offered, Draw
    <2>5. QED
      BY <2>1, <2>2, <2>3, <2>4 DEF GoneInv
  <1>2. ASSUME NEW t \in Threads, NEW c \in Contexts, NEW r \in Runs, QueryBegin(t, c, r)
        PROVE  GoneInv'
    <2>1. (Fresh /\ Numbered /\ Serving)'
      BY <1>2 DEF QueryBegin, Offered, Draw
    <2>2. (Settled /\ Leaving)'
      BY <1>2 DEF QueryBegin, Offered, Draw
    <2>3. Sweeping'
      BY <1>2 DEF QueryBegin, Offered, Draw
    <2>4. (RemovedIsGone /\ purged \subseteq acked)'
      BY <1>2 DEF QueryBegin, Offered, Draw
    <2>5. QED
      BY <2>1, <2>2, <2>3, <2>4 DEF GoneInv
  <1>3. ASSUME NEW t \in Threads, NEW c \in Contexts, DeleteBegin(t, c)
        PROVE  GoneInv'
    <2>1. (Fresh /\ Numbered /\ Serving)'
      BY <1>3 DEF DeleteBegin, Offered
    <2>2. (Settled /\ Leaving)'
      BY <1>3 DEF DeleteBegin, Offered
    <2>3. Sweeping'
      BY <1>3 DEF DeleteBegin, Offered
    <2>4. (RemovedIsGone /\ purged \subseteq acked)'
      BY <1>3 DEF DeleteBegin, Offered
    <2>5. QED
      BY <2>1, <2>2, <2>3, <2>4 DEF GoneInv
  <1>4. ASSUME NEW t \in Threads, QueryEnds(t)
        PROVE  GoneInv'
    <2>1. (Fresh /\ Numbered /\ Serving)'
      BY <1>4 DEF QueryEnds
    <2>2. (Settled /\ Leaving)'
      BY <1>4 DEF QueryEnds
    <2>3. Sweeping'
      BY <1>4 DEF QueryEnds
    <2>4. (RemovedIsGone /\ purged \subseteq acked)'
      BY <1>4 DEF QueryEnds
    <2>5. QED
      BY <2>1, <2>2, <2>3, <2>4 DEF GoneInv
  <1>5. ASSUME NEW t \in Threads, QueryDropped(t)
        PROVE  GoneInv'
    <2>1. (Fresh /\ Numbered /\ Serving)'
      BY <1>5 DEF QueryDropped, Return
    <2>2. (Settled /\ Leaving)'
      BY <1>5 DEF QueryDropped, Return
    <2>3. Sweeping'
      BY <1>5 DEF QueryDropped, Return
    <2>4. (RemovedIsGone /\ purged \subseteq acked)'
      BY <1>5 DEF QueryDropped, Return
    <2>5. QED
      BY <2>1, <2>2, <2>3, <2>4 DEF GoneInv
  <1>6. ASSUME NEW t \in Threads, WriteOpen(t)
        PROVE  GoneInv'
    <2>1. (Fresh /\ Numbered /\ Serving)'
      BY <1>6 DEF WriteOpen
    <2>2. (Settled /\ Leaving)'
      BY <1>6 DEF WriteOpen
    <2>3. Sweeping'
      BY <1>6 DEF WriteOpen
    <2>4. (RemovedIsGone /\ purged \subseteq acked)'
      BY <1>6 DEF WriteOpen
    <2>5. QED
      BY <2>1, <2>2, <2>3, <2>4 DEF GoneInv
  <1>7. ASSUME NEW t \in Threads, WriteBody(t)
        PROVE  GoneInv'
    <2>1. (Fresh /\ Numbered /\ Serving)'
      BY <1>7 DEF WriteBody
    <2>2. (Settled /\ Leaving)'
      BY <1>7 DEF WriteBody
    <2>3. Sweeping'
      BY <1>7 DEF WriteBody
    <2>4. (RemovedIsGone /\ purged \subseteq acked)'
      BY <1>7 DEF WriteBody
    <2>5. QED
      BY <2>1, <2>2, <2>3, <2>4 DEF GoneInv
  <1>8. ASSUME NEW t \in Threads, Rename(t)
        PROVE  GoneInv'
    <2>1. (Fresh /\ Numbered /\ Serving)'
      BY <1>8 DEF Rename, Moved
    <2>2. (Settled /\ Leaving)'
      BY <1>8 DEF Rename, Moved
    <2>3. Sweeping'
      BY <1>8 DEF Rename, Moved
    <2>4. (RemovedIsGone /\ purged \subseteq acked)'
      BY <1>8 DEF Rename, Moved
    <2>5. QED
      BY <2>1, <2>2, <2>3, <2>4 DEF GoneInv
  <1>9. ASSUME NEW t \in Threads, WriteFails(t)
        PROVE  GoneInv'
    <2>1. (Fresh /\ Numbered /\ Serving)'
      BY <1>9 DEF WriteFails, WriteError, Return
    <2>2. (Settled /\ Leaving)'
      BY <1>9 DEF WriteFails, WriteError, Return
    <2>3. Sweeping'
      BY <1>9 DEF WriteFails, WriteError, Return
    <2>4. (RemovedIsGone /\ purged \subseteq acked)'
      BY <1>9 DEF WriteFails, WriteError, Return
    <2>5. QED
      BY <2>1, <2>2, <2>3, <2>4 DEF GoneInv
  <1>10. ASSUME NEW t \in Threads, Insert(t)
        PROVE  GoneInv'
    <2>1. (Fresh /\ Numbered /\ Serving)'
      BY <1>10 DEF Insert, Return
    <2>2. (Settled /\ Leaving)'
      BY <1>10 DEF Insert, Return
    <2>3. Sweeping'
      <3>1. /\ UNCHANGED <<files, todo, stuck, promised, purged, deleted>>
            /\ acked' = acked \cup {rec[t]} /\ rec[t] \notin acked \cup deleted
            /\ mem' = [mem EXCEPT ![Owner[t]] = @ \cup {rec[t]}]
        BY <1>10 DEF Insert
      <3>2. \A u \in Threads : pc'[u] \in Purging => u # t /\ pc'[u] = pc[u]
        BY <1>10 DEF Insert, Return
      <3>3. \A u \in Threads : pc[u] \in Purging => rec[t] \notin Contexts
        BY <1>10 DEF Insert, ContextsFree
      <3>4. Removed' = Removed /\ rec[t] \notin Removed
        BY <3>1
      <3>5. \A u \in Threads : pc[u] \in Purging => rec[t] \notin promised[u]
        BY <3>1
      <3>6. \A u \in Threads : pc'[u] \in Purging =>
              /\ mem'[Owner[u]] \cap Contexts = {}
              /\ pc'[u] # "clearRuns" => (promised'[u] \cup Removed') \cap mem'[Owner[u]] = {}
        BY <3>1, <3>2, <3>3, <3>4, <3>5
      <3>7. QED
        BY <3>1, <3>2, <3>6
    <2>4. (RemovedIsGone /\ purged \subseteq acked)'
      BY <1>10 DEF Insert, Return
    <2>5. QED
      BY <2>1, <2>2, <2>3, <2>4 DEF GoneInv
  <1>11. ASSUME NEW t \in Threads, DeleteUnlink(t)
        PROVE  GoneInv'
    <2>1. (Fresh /\ Numbered /\ Serving)'
      BY <1>11 DEF DeleteUnlink, Return, RemoveFile, FileOf
    <2>2. (Settled /\ Leaving)'
      BY <1>11 DEF DeleteUnlink, Return, RemoveFile, FileOf
    <2>3. Sweeping'
      BY <1>11 DEF DeleteUnlink, Return, RemoveFile, FileOf
    <2>4. (RemovedIsGone /\ purged \subseteq acked)'
      <3>0. /\ deleted' = deleted \cup {rec[t]} /\ UNCHANGED <<mem, acked, purged>>
            /\ RemoveFile(FileOf(rec[t]))
        BY <1>11 DEF DeleteUnlink
      <3>1. /\ files' \subseteq files /\ files \ {FileOf(rec[t])} \subseteq files'
            /\ files' \cap stuck \subseteq stuck'
            /\ FileOf(rec[t]) \in files' => FileOf(rec[t]) \in stuck'
        BY <3>0 DEF RemoveFile
      <3>2. rec[t] \in Contexts /\ \A p \in Procs : rec[t] \notin mem[p]
        BY <1>11 DEF DeleteUnlink, Unlinking
      <3>3. rec[t] \in acked => <<rec[t], "tmp">> \notin files
        BY <3>2
      <3>4. \A r \in Removed' : r \in Removed \/ (r = rec[t] /\ r \in acked)
        BY <3>0
      <3>5. \A r \in Removed' : FilesLeft(r)' \subseteq stuck'
        <4>1. \A f \in files' : f[1] \in Removed => f \in stuck'
          BY <3>1
        <4>2. \A f \in files' : f[1] = rec[t] /\ rec[t] \in acked => f = FileOf(rec[t])
          BY <3>1, <3>3 DEF FileOf
        <4>3. QED
          BY <3>1, <3>4, <4>1, <4>2
      <3>6. \A p \in Procs : \A r \in mem'[p] \cap Removed' : FilesLeft(r)' # {}
        <4>1. \A p \in Procs : \A r \in mem'[p] \cap Removed' :
                 r \in mem[p] \cap Removed /\ r # rec[t]
          BY <3>0, <3>2, <3>4
        <4>2. \A f \in files : f[1] # rec[t] => f \in files'
          BY <3>1 DEF FileOf
        <4>3. QED
          BY <4>1, <4>2
      <3>7. QED
        BY <3>0, <3>5, <3>6
    <2>5. QED
      BY <2>1, <2>2, <2>3, <2>4 DEF GoneInv
  <1>12. ASSUME NEW t \in Threads, PurgeBegin(t)
        PROVE  GoneInv'
    <2>1. (Fresh /\ Numbered /\ Serving)'
      BY <1>12 DEF PurgeBegin, Offered
    <2>2. (Settled /\ Leaving)'
      BY <1>12 DEF PurgeBegin, Offered
    <2>3. Sweeping'
      BY <1>12 DEF PurgeBegin, Offered
    <2>4. (RemovedIsGone /\ purged \subseteq acked)'
      BY <1>12 DEF PurgeBegin, Offered
    <2>5. QED
      BY <2>1, <2>2, <2>3, <2>4 DEF GoneInv
  <1>13. ASSUME NEW t \in Threads, PurgeClearRuns(t)
        PROVE  GoneInv'
    <2>1. (Fresh /\ Numbered /\ Serving)'
      BY <1>13 DEF PurgeClearRuns
    <2>2. (Settled /\ Leaving)'
      BY <1>13 DEF PurgeClearRuns
    <2>3. Sweeping'
      BY <1>13 DEF PurgeClearRuns
    <2>4. (RemovedIsGone /\ purged \subseteq acked)'
      BY <1>13 DEF PurgeClearRuns
    <2>5. QED
      BY <2>1, <2>2, <2>3, <2>4 DEF GoneInv
  <1>14. ASSUME NEW t \in Threads, PurgeList(t)
        PROVE  GoneInv'
    <2>1. (Fresh /\ Numbered /\ Serving)'
      BY <1>14 DEF PurgeList, FilesOf, Lapses
    <2>2. (Settled /\ Leaving)'
      BY <1>14 DEF PurgeList, FilesOf, Lapses
    <2>3. Sweeping'
      BY <1>14 DEF PurgeList, FilesOf, Lapses
    <2>4. (RemovedIsGone /\ purged \subseteq acked)'
      BY <1>14 DEF PurgeList, FilesOf, Lapses
    <2>5. QED
      BY <2>1, <2>2, <2>3, <2>4 DEF GoneInv
  <1>15. ASSUME NEW t \in Threads, PurgeUnlink(t)
        PROVE  GoneInv'
    <2>1. (Fresh /\ Numbered /\ Serving)'
      BY <1>15 DEF PurgeUnlink, RemoveFile, Sweepable, FilesOf, Swept
    <2>2. (Settled /\ Leaving)'
      BY <1>15 DEF PurgeUnlink, RemoveFile, Sweepable, FilesOf, Swept
    <2>3. Sweeping'
      BY <1>15 DEF PurgeUnlink, RemoveFile, Sweepable, FilesOf, Swept
    <2>4. (RemovedIsGone /\ purged \subseteq acked)'
      BY <1>15 DEF PurgeUnlink, RemoveFile, Sweepable, FilesOf, Swept
    <2>5. QED
      BY <2>1, <2>2, <2>3, <2>4 DEF GoneInv
  <1>16. ASSUME NEW t \in Threads, PurgeNext(t)
        PROVE  GoneInv'
    <2>1. (Fresh /\ Numbered /\ Serving)'
      BY <1>16 DEF PurgeNext, PurgeReturns
    <2>2. (Settled /\ Leaving)'
      BY <1>16 DEF PurgeNext, PurgeReturns
    <2>3. Sweeping'
      BY <1>16 DEF PurgeNext, PurgeReturns
    <2>4. (RemovedIsGone /\ purged \subseteq acked)'
      BY <1>16 DEF PurgeNext, PurgeReturns
    <2>5. QED
      BY <2>1, <2>2, <2>3, <2>4 DEF GoneInv
  <1>17. ASSUME NEW p \in Procs, Stop(p)
        PROVE  GoneInv'
    <2>1. (Fresh /\ Numbered /\ Serving)'
      BY <1>17 DEF Stop
    <2>2. (Settled /\ Leaving)'
      BY <1>17 DEF Stop
    <2>3. Sweeping'
      BY <1>17 DEF Stop
    <2>4. (RemovedIsGone /\ purged \subseteq acked)'
      BY <1>17 DEF Stop
    <2>5. QED
      BY <2>1, <2>2, <2>3, <2>4 DEF GoneInv
  <1>18. ASSUME NEW p \in Procs, Open(p)
        PROVE  GoneInv'
    <2>1. (Fresh /\ Numbered /\ Serving)'
      BY <1>18 DEF Open, Lists, Lapses, Ids, FilesOf
    <2>2. (Settled /\ Leaving)'
      BY <1>18 DEF Open, Lists, Lapses, Ids, FilesOf
    <2>3. Sweeping'
      BY <1>18 DEF Open, Lists, Lapses, Ids, FilesOf
    <2>4. (RemovedIsGone /\ purged \subseteq acked)'
      BY <1>18 DEF Open, Lists, Lapses, Ids, FilesOf
    <2>5. QED
      BY <2>1, <2>2, <2>3, <2>4 DEF GoneInv
  <1>19. ASSUME NEW p \in Procs, Rehydrate(p)
        PROVE  GoneInv'
    <2>1. (Fresh /\ Numbered /\ Serving)'
      BY <1>19 DEF Rehydrate, Readable
    <2>2. (Settled /\ Leaving)'
      BY <1>19 DEF Rehydrate, Readable
    <2>3. Sweeping'
      BY <1>19 DEF Rehydrate, Readable
    <2>4. (RemovedIsGone /\ purged \subseteq acked)'
      <3>1. PICK f \in unread[p] :
              mem' = (IF Readable(f) THEN [mem EXCEPT ![p] = @ \cup {f[1]}] ELSE mem) \/ mem' = mem
        BY <1>19 DEF Rehydrate
      <3>2. UNCHANGED <<files, stuck, acked, deleted, purged>>
        BY <1>19 DEF Rehydrate
      <3>3. Readable(f) => FilesLeft(f[1]) # {}
        BY DEF Readable
      <3>4. \A q \in Procs : \A r \in mem'[q] : r \in mem[q] \/ (Readable(f) /\ r = f[1])
        BY <3>1
      <3>5. QED
        BY <3>2, <3>3, <3>4
    <2>5. QED
      BY <2>1, <2>2, <2>3, <2>4 DEF GoneInv
  <1>20. ASSUME NEW p \in Procs, OpenNext(p)
        PROVE  GoneInv'
    <2>1. (Fresh /\ Numbered /\ Serving)'
      BY <1>20 DEF OpenNext, Lists, Lapses, Ids, FilesOf
    <2>2. (Settled /\ Leaving)'
      BY <1>20 DEF OpenNext, Lists, Lapses, Ids, FilesOf
    <2>3. Sweeping'
      BY <1>20 DEF OpenNext, Lists, Lapses, Ids, FilesOf
    <2>4. (RemovedIsGone /\ purged \subseteq acked)'
      BY <1>20 DEF OpenNext, Lists, Lapses, Ids, FilesOf
    <2>5. QED
      BY <2>1, <2>2, <2>3, <2>4 DEF GoneInv
  <1>30. ASSUME NEW t \in Threads, PurgeListFails(t)
        PROVE  GoneInv'
    <2>1. (Fresh /\ Numbered /\ Serving)'
      BY <1>30 DEF PurgeListFails, PurgeReturns, FilesOf
    <2>2. (Settled /\ Leaving)'
      BY <1>30 DEF PurgeListFails, PurgeReturns, FilesOf
    <2>3. Sweeping'
      BY <1>30 DEF PurgeListFails, PurgeReturns, FilesOf
    <2>4. (RemovedIsGone /\ purged \subseteq acked)'
      BY <1>30 DEF PurgeListFails, PurgeReturns, FilesOf
    <2>5. QED
      BY <2>1, <2>2, <2>3, <2>4 DEF GoneInv
  <1>21. CASE UNCHANGED vars
    BY <1>21 DEF vars
  <1>22. QED
    BY <1>1, <1>2, <1>3, <1>4, <1>5, <1>6, <1>7, <1>8, <1>9, <1>10, <1>11, <1>12, <1>13, <1>14, <1>15, <1>16, <1>17, <1>18, <1>19, <1>20, <1>30, <1>21 DEF Next, Begin, Step, Boot

(* A context that create had returned and that a delete says it removed,   *)
(* and whatever had been returned before a purge that has returned, has no *)
(* file left but one that an unlink or a listing failed on, and is in no   *)
(* map without one, through any stops and restarts and any failing calls   *)
(* of any number of requests, in a process that owns its directory.        *)
THEOREM Gone == ASSUME Solo PROVE Spec => []RemovedIsGone
  <1>1. Init => IInv /\ GoneInv
    BY InitIInv, InitGone
  <1>2. (IInv /\ GoneInv) /\ [Next]_vars => (IInv /\ GoneInv)'
    BY StepIInv, StepGone
  <1>3. IInv /\ GoneInv => RemovedIsGone
    BY DEF GoneInv
  <1>4. QED
    BY <1>1, <1>2, <1>3, PTL DEF Spec

(* A removed record whose file was left behind comes back into the map of  *)
(* its process by a start only: what requests insert was never removed,    *)
(* and what becomes removed has left the map.                              *)
LEMMA StepRevives ==
    ASSUME Solo, IInv, GoneInv, [Next]_vars, NEW p \in Procs, up[p] = "up"
    PROVE  mem'[p] \cap Removed' \subseteq mem[p] \cap Removed
  <1> USE StoreAssumption, Solo DEF StoreAssumption, Solo, IInv, TypeOK, GoneInv, Fresh, Serving,
          Leaving, Sweeping, Removed, Records, Writing, Purging, Steps
  <1>1. ASSUME NEW t \in Threads, Begin(t)
        PROVE  mem'[p] \subseteq mem[p] /\ Removed' = Removed
    BY <1>1 DEF Begin, CreateBegin, QueryBegin, DeleteBegin, PurgeBegin, Offered, Draw
  <1>2. ASSUME NEW t \in Threads,
               WriteOpen(t) \/ WriteBody(t) \/ Rename(t) \/ WriteFails(t)
                 \/ PurgeClearRuns(t) \/ PurgeList(t) \/ PurgeUnlink(t)
        PROVE  mem'[p] \subseteq mem[p] /\ Removed' = Removed
    BY <1>2 DEF WriteOpen, WriteBody, Rename, WriteFails, PurgeClearRuns, PurgeList, PurgeUnlink
  <1>3. ASSUME NEW t \in Threads, Insert(t)
        PROVE  mem'[p] \cap Removed' \subseteq mem[p] \cap Removed
    <2>1. rec[t] \notin acked \cup deleted \cup purged
      BY <1>3 DEF Insert
    <2>2. QED
      BY <1>3, <2>1 DEF Insert
  <1>4. ASSUME NEW t \in Threads, DeleteUnlink(t)
        PROVE  mem'[p] \cap Removed' \subseteq mem[p] \cap Removed
    <2>1. rec[t] \notin mem[p]
      BY <1>4 DEF DeleteUnlink
    <2>2. QED
      BY <1>4, <2>1 DEF DeleteUnlink
  <1>5. ASSUME NEW t \in Threads, PurgeNext(t) \/ PurgeListFails(t)
        PROVE  mem'[p] \cap Removed' \subseteq mem[p] \cap Removed
    <2>1. promised[t] \cap mem[p] = {}
      BY <1>5 DEF PurgeNext, PurgeListFails
    <2>2. purged' \subseteq purged \cup promised[t] /\ UNCHANGED <<mem, acked, deleted>>
      BY <1>5 DEF PurgeNext, PurgeListFails, PurgeReturns
    <2>3. QED
      BY <2>1, <2>2
  <1>6. ASSUME NEW t \in Threads, QueryEnds(t) \/ QueryDropped(t)
        PROVE  mem'[p] \subseteq mem[p] /\ Removed' = Removed
    BY <1>6 DEF QueryEnds, QueryDropped
  <1>7. ASSUME NEW q \in Procs, Stop(q) \/ Boot(q)
        PROVE  mem'[p] \subseteq mem[p] /\ Removed' = Removed
    BY <1>7 DEF Stop, Boot, Open, Rehydrate, OpenNext
  <1>8. CASE UNCHANGED vars
    BY <1>8 DEF vars
  <1>9. QED
    BY <1>1, <1>2, <1>3, <1>4, <1>5, <1>6, <1>7, <1>8 DEF Next, Step

(* In a process that owns its directory a removed record is brought back   *)
(* by nothing but a start, whichever removals and listings failed.         *)
THEOREM OnlyStartsRevive == ASSUME Solo PROVE Spec => OnlyAStartRevives
  <1>1. Init => IInv /\ GoneInv
    BY InitIInv, InitGone
  <1>2. (IInv /\ GoneInv) /\ [Next]_vars => (IInv /\ GoneInv)'
    BY StepIInv, StepGone
  <1>3. IInv /\ GoneInv /\ [Next]_vars =>
          [\A p \in Procs : up[p] = "up" => mem'[p] \cap Removed' \subseteq mem[p] \cap Removed]_vars
    BY StepRevives
  <1>4. QED
    BY <1>1, <1>2, <1>3, PTL DEF Spec, OnlyAStartRevives

-----------------------------------------------------------------------------
(* What is served.                                                         *)

(* What process p may know of and did not fail to read, and nobody has set *)
(* out to remove.                                                          *)
Knows(p) == (known[p] \cap Kept) \ (Lost \cup unseen[p])

(* While it reads the directory a process has in its maps, or has listed   *)
(* and not yet read, what it may know of the part it has come to.          *)
Reading ==
    \A p \in Procs :
        /\ known[p] \subseteq acked
        /\ up[p] = "readContexts" =>
             \A c \in Knows(p) \cap Contexts : c \in mem[p] \/ <<c, "json">> \in unread[p]
        /\ up[p] = "readRuns" =>
             /\ Knows(p) \cap Contexts \subseteq mem[p]
             /\ \A r \in Knows(p) \cap Runs : r \in mem[p] \/ <<r, "json">> \in unread[p]

ServedInv == Reading /\ Serving /\ AckedIsServed

(* Every step of every request and every process keeps it.                 *)
LEMMA StepServed == IInv /\ ServedInv /\ [Next]_vars => ServedInv'
  <1> SUFFICES ASSUME IInv, ServedInv, [Next]_vars
               PROVE  ServedInv'
    OBVIOUS
  <1> USE StoreAssumption DEF StoreAssumption, IInv, TypeOK, Covered, AckedIsDurable, OnDisk,
          Kept, Lost, Knows, Reading, Serving, ServedInv, AckedIsServed, Records, File, Writing,
          Purging, Steps
  <1>1. ASSUME NEW t \in Threads, NEW c \in Contexts, CreateBegin(t, c)
        PROVE  ServedInv'
    BY <1>1 DEF CreateBegin, Offered, Draw
  <1>2. ASSUME NEW t \in Threads, NEW c \in Contexts, NEW r \in Runs, QueryBegin(t, c, r)
        PROVE  ServedInv'
    BY <1>2 DEF QueryBegin, Offered, Draw
  <1>3. ASSUME NEW t \in Threads, NEW c \in Contexts, DeleteBegin(t, c)
        PROVE  ServedInv'
    BY <1>3 DEF DeleteBegin, Offered
  <1>4. ASSUME NEW t \in Threads, QueryEnds(t)
        PROVE  ServedInv'
    BY <1>4 DEF QueryEnds
  <1>5. ASSUME NEW t \in Threads, QueryDropped(t)
        PROVE  ServedInv'
    BY <1>5 DEF QueryDropped, Return
  <1>6. ASSUME NEW t \in Threads, WriteOpen(t)
        PROVE  ServedInv'
    BY <1>6 DEF WriteOpen
  <1>7. ASSUME NEW t \in Threads, WriteBody(t)
        PROVE  ServedInv'
    BY <1>7 DEF WriteBody
  <1>8. ASSUME NEW t \in Threads, Rename(t)
        PROVE  ServedInv'
    BY <1>8 DEF Rename, Moved
  <1>9. ASSUME NEW t \in Threads, WriteFails(t)
        PROVE  ServedInv'
    BY <1>9 DEF WriteFails, WriteError, Return
  <1>10. ASSUME NEW t \in Threads, Insert(t)
        PROVE  ServedInv'
    BY <1>10 DEF Insert, Return
  <1>11. ASSUME NEW t \in Threads, DeleteUnlink(t)
        PROVE  ServedInv'
    BY <1>11 DEF DeleteUnlink, Return, RemoveFile, FileOf
  <1>12. ASSUME NEW t \in Threads, PurgeBegin(t)
        PROVE  ServedInv'
    BY <1>12 DEF PurgeBegin, Offered, InFlight
  <1>13. ASSUME NEW t \in Threads, PurgeClearRuns(t)
        PROVE  ServedInv'
    BY <1>13 DEF PurgeClearRuns
  <1>14. ASSUME NEW t \in Threads, PurgeList(t)
        PROVE  ServedInv'
    BY <1>14 DEF PurgeList, FilesOf, Lapses
  <1>15. ASSUME NEW t \in Threads, PurgeUnlink(t)
        PROVE  ServedInv'
    BY <1>15 DEF PurgeUnlink, RemoveFile, Sweepable, FilesOf, Swept
  <1>16. ASSUME NEW t \in Threads, PurgeNext(t)
        PROVE  ServedInv'
    BY <1>16 DEF PurgeNext, PurgeReturns
  <1>17. ASSUME NEW p \in Procs, Stop(p)
        PROVE  ServedInv'
    BY <1>17 DEF Stop
  <1>18. ASSUME NEW p \in Procs, Open(p)
        PROVE  ServedInv'
    BY <1>18 DEF Open, Lists, Lapses, Ids, FilesOf
  <1>19. ASSUME NEW p \in Procs, Rehydrate(p)
        PROVE  ServedInv'
    BY <1>19 DEF Rehydrate, Readable
  <1>20. ASSUME NEW p \in Procs, OpenNext(p)
        PROVE  ServedInv'
    <2>0. UNCHANGED <<mem, files, pc, known, acked, doomed, overlapped>> /\ unread[p] = {}
      BY <1>20 DEF OpenNext
    <2>1. CASE up[p] = "readContexts" /\ up' = [up EXCEPT ![p] = "readRuns"] /\ Lists(p, Runs)
      <3>0. PICK lost \in SUBSET FilesOf(Runs) :
              /\ unread' = [unread EXCEPT ![p] = FilesOf(Runs) \ lost]
              /\ unseen' = [unseen EXCEPT ![p] = @ \cup Ids(lost)]
        BY <2>1 DEF Lists, Lapses
      <3>1. \A r \in Knows(p) \cap Runs : <<r, "json">> \in FilesOf(Runs)
        BY DEF FilesOf
      <3>2. \A q \in Procs : Knows(q)' \subseteq Knows(q) /\ (q # p => Knows(q)' = Knows(q))
        BY <2>0, <3>0
      <3>3. \A r \in Knows(p)' \cap Runs : <<r, "json">> \in unread'[p]
        <4>1. \A r \in Runs : <<r, "json">> \in lost => r \in unseen'[p]
          <5>1. \A r \in Runs : <<r, "json">> \in lost => r \in Ids(lost)
            BY DEF Ids
          <5>2. QED
            BY <3>0, <5>1
        <4>2. \A r \in Knows(p)' : r \notin unseen'[p]
          OBVIOUS
        <4>3. unread'[p] = FilesOf(Runs) \ lost
          BY <3>0
        <4>4. QED
          BY ONLY <3>1, <3>2, <4>1, <4>2, <4>3
      <3>4. Knows(p) \cap Contexts \subseteq mem[p]
        BY <2>0, <2>1
      <3>5. /\ \A q \in Procs : q # p => up'[q] = up[q] /\ unread'[q] = unread[q]
            /\ up'[p] = "readRuns"
        BY <2>1, <3>0
      <3>6. Reading'
        BY ONLY ServedInv, <2>0, <3>2, <3>3, <3>4, <3>5 DEF ServedInv, Reading
      <3>7. AckedIsServed'
        <4>1. \A q \in Procs : up'[q] = "up" => up[q] = "up" /\ unseen'[q] = unseen[q]
          BY <3>0, <3>5
        <4>2. QED
          BY <2>0, <4>1
      <3>8. Serving'
        BY <2>0, <2>1, <3>5
      <3>9. QED
        BY <3>6, <3>7, <3>8
    <2>2. CASE up[p] = "readRuns" /\ up' = [up EXCEPT ![p] = "up"] /\ UNCHANGED <<unread, unseen>>
      <3>1. Knows(p) \subseteq mem[p]
        BY <2>0, <2>2
      <3>2. AckedIsServed'
        BY <2>0, <2>2, <3>1
      <3>3. Reading' /\ Serving'
        BY <2>0, <2>2
      <3>4. QED
        BY <3>2, <3>3
    <2>3. QED
      BY <1>20, <2>1, <2>2 DEF OpenNext
  <1>30. ASSUME NEW t \in Threads, PurgeListFails(t)
        PROVE  ServedInv'
    BY <1>30 DEF PurgeListFails, PurgeReturns, FilesOf
  <1>21. CASE UNCHANGED vars
    BY <1>21 DEF vars
  <1>22. QED
    BY <1>1, <1>2, <1>3, <1>4, <1>5, <1>6, <1>7, <1>8, <1>9, <1>10, <1>11, <1>12, <1>13, <1>14, <1>15, <1>16, <1>17, <1>18, <1>19, <1>20, <1>30, <1>21 DEF Next, Begin, Step, Boot

(* Every process, of any number over one directory, serves what it has     *)
(* returned and what had been returned before it opened the directory.     *)
THEOREM Served == Spec => []AckedIsServed
  <1>1. Init => IInv /\ ServedInv
    BY InitIInv, StoreAssumption DEF StoreAssumption, Init, ServedInv, Reading, Serving,
       AckedIsServed, Knows
  <1>2. (IInv /\ ServedInv) /\ [Next]_vars => (IInv /\ ServedInv)'
    BY StepIInv, StepServed
  <1>3. IInv /\ ServedInv => AckedIsServed
    BY DEF ServedInv
  <1>4. QED
    BY <1>1, <1>2, <1>3, PTL DEF Spec

-----------------------------------------------------------------------------
(* Maps and directory.                                                     *)

(* What was returned, was sure to be written and overlapped no purge.      *)
Sure == (acked \cap Kept) \ overlapped

(* Nobody sets out to remove what is being written.                        *)
Aside ==
    /\ doomed \subseteq used
    /\ \A t \in Threads : pc[t] \in Writing => rec[t] \notin doomed

(* While a purge is under way all that was returned when it began is       *)
(* promised, and all that is written meanwhile overlaps it.                *)
Overlapping ==
    \A t \in Threads : pc[t] \in Purging =>
        /\ acked \subseteq promised[t] \cup overlapped
        /\ \A u \in Threads : pc[u] \in Writing => rec[u] \in overlapped

NoTemp ==
    /\ \A t \in Threads : pc[t] = "insert" /\ rec[t] \in Kept => <<rec[t], "tmp">> \notin files
    /\ \A r \in acked \cap Kept : <<r, "tmp">> \notin files

(* What is held is on disk.                                                *)
Filed == \A p \in Procs : \A r \in Sure : r \in mem[p] => OnDisk(r)

(* What is on disk is held, or about to go, or left behind by a failed     *)
(* removal, or still to be read.                                           *)
Going(r) == PurgeUnderWay \/ \E t \in Threads : pc[t] = "unlink" /\ rec[t] = r
Held ==
    \A p \in Procs : \A r \in Sure \ unseen[p] : OnDisk(r) =>
        /\ up[p] = "up" => r \in mem[p] \/ Going(r) \/ FileOf(r) \in stuck
        /\ up[p] = "readContexts" /\ r \in Contexts => r \in mem[p] \/ FileOf(r) \in unread[p]
        /\ up[p] = "readRuns" =>
             r \in mem[p] \/ (r \in Runs /\ FileOf(r) \in unread[p])

MirrorInv == Aside /\ Overlapping /\ NoTemp /\ Filed /\ Held

(* Every step keeps it, where there is one process.                        *)
LEMMA StepMirror ==
    ASSUME Solo
    PROVE  IInv /\ GoneInv /\ MirrorInv /\ [Next]_vars => MirrorInv'
  <1> SUFFICES ASSUME IInv, GoneInv, MirrorInv, [Next]_vars
               PROVE  MirrorInv'
    OBVIOUS
  <1> USE StoreAssumption, Solo DEF StoreAssumption, Solo, IInv, TypeOK, Drawn, Apart, Renamed,
          GoneInv, Fresh, Numbered, Serving, Leaving, Sweeping, MirrorInv, Aside, Overlapping,
          NoTemp, Filed, Held, Going, Sure, FileOf, PurgeUnderWay, OnDisk, Kept, Lost, Records, File,
          Writing, Purging, Steps
  <1>1. ASSUME NEW t \in Threads, NEW c \in Contexts, CreateBegin(t, c)
        PROVE  MirrorInv'
    <2>1. (Aside /\ Overlapping /\ NoTemp)'
      BY <1>1 DEF CreateBegin, Offered, Draw
    <2>2. Filed'
      BY <1>1 DEF CreateBegin, Offered, Draw
    <2>3. Held'
      BY <1>1 DEF CreateBegin, Offered, Draw
    <2>4. QED
      BY <2>1, <2>2, <2>3 DEF MirrorInv
  <1>2. ASSUME NEW t \in Threads, NEW c \in Contexts, NEW r \in Runs, QueryBegin(t, c, r)
        PROVE  MirrorInv'
    <2>1. (Aside /\ Overlapping /\ NoTemp)'
      BY <1>2 DEF QueryBegin, Offered, Draw
    <2>2. Filed'
      BY <1>2 DEF QueryBegin, Offered, Draw
    <2>3. Held'
      BY <1>2 DEF QueryBegin, Offered, Draw
    <2>4. QED
      BY <2>1, <2>2, <2>3 DEF MirrorInv
  <1>3. ASSUME NEW t \in Threads, NEW c \in Contexts, DeleteBegin(t, c)
        PROVE  MirrorInv'
    <2>1. (Aside /\ Overlapping /\ NoTemp)'
      BY <1>3 DEF DeleteBegin, Offered
    <2>2. Filed'
      BY <1>3 DEF DeleteBegin, Offered
    <2>3. Held'
      BY <1>3 DEF DeleteBegin, Offered
    <2>4. QED
      BY <2>1, <2>2, <2>3 DEF MirrorInv
  <1>4. ASSUME NEW t \in Threads, QueryEnds(t)
        PROVE  MirrorInv'
    <2>1. (Aside /\ Overlapping /\ NoTemp)'
      BY <1>4 DEF QueryEnds
    <2>2. Filed'
      BY <1>4 DEF QueryEnds
    <2>3. Held'
      BY <1>4 DEF QueryEnds
    <2>4. QED
      BY <2>1, <2>2, <2>3 DEF MirrorInv
  <1>5. ASSUME NEW t \in Threads, QueryDropped(t)
        PROVE  MirrorInv'
    <2>1. (Aside /\ Overlapping /\ NoTemp)'
      BY <1>5 DEF QueryDropped, Return
    <2>2. Filed'
      BY <1>5 DEF QueryDropped, Return
    <2>3. Held'
      BY <1>5 DEF QueryDropped, Return
    <2>4. QED
      BY <2>1, <2>2, <2>3 DEF MirrorInv
  <1>6. ASSUME NEW t \in Threads, WriteOpen(t)
        PROVE  MirrorInv'
    <2>1. (Aside /\ Overlapping /\ NoTemp)'
      BY <1>6 DEF WriteOpen
    <2>2. Filed'
      BY <1>6 DEF WriteOpen
    <2>3. Held'
      BY <1>6 DEF WriteOpen
    <2>4. QED
      BY <2>1, <2>2, <2>3 DEF MirrorInv
  <1>7. ASSUME NEW t \in Threads, WriteBody(t)
        PROVE  MirrorInv'
    <2>1. (Aside /\ Overlapping /\ NoTemp)'
      BY <1>7 DEF WriteBody
    <2>2. Filed'
      BY <1>7 DEF WriteBody
    <2>3. Held'
      BY <1>7 DEF WriteBody
    <2>4. QED
      BY <2>1, <2>2, <2>3 DEF MirrorInv
  <1>8. ASSUME NEW t \in Threads, Rename(t)
        PROVE  MirrorInv'
    <2>1. (Aside /\ Overlapping /\ NoTemp)'
      BY <1>8 DEF Rename, Moved
    <2>2. Filed'
      BY <1>8 DEF Rename, Moved
    <2>3. Held'
      BY <1>8 DEF Rename, Moved
    <2>4. QED
      BY <2>1, <2>2, <2>3 DEF MirrorInv
  <1>9. ASSUME NEW t \in Threads, WriteFails(t)
        PROVE  MirrorInv'
    <2>0. (Aside /\ Overlapping /\ NoTemp)'
      <3>0. UNCHANGED <<up, mem, files, used, acked, doomed, overlapped, promised>>
        BY <1>9 DEF WriteFails, disk, seen
      <3>1. CASE Return(t)
        BY <3>0, <3>1 DEF Return
      <3>2. CASE rec[t] \in Runs /\ pc' = [pc EXCEPT ![t] = "insert"] /\ rec' = rec
        <4>0. pc[t] \in {"open", "write", "rename"}
          BY <1>9 DEF WriteFails
        <4>1. rec[t] \in Kept => <<rec[t], "tmp">> \notin files
          BY <1>9, <3>2 DEF WriteFails
        <4>2. (Aside /\ Overlapping)'
          BY <3>0, <3>2, <4>0
        <4>3. NoTemp'
          <5>1. \A u \in Threads : pc'[u] = "insert" /\ rec'[u] \in Kept
                                    => <<rec'[u], "tmp">> \notin files'
            BY <3>0, <3>2, <4>1
          <5>2. \A r \in acked' \cap Kept : <<r, "tmp">> \notin files'
            BY <3>0
          <5>3. QED
            BY <5>1, <5>2, ZenonT(30)
        <4>4. QED
          BY <4>2, <4>3
      <3>3. QED
        BY <1>9, <3>1, <3>2 DEF WriteFails, WriteError
    <2>1. (Aside /\ Overlapping /\ NoTemp)'
      BY <2>0
    <2>2. Filed'
      BY <1>9 DEF WriteFails, WriteError, Return
    <2>3. Held'
      BY <1>9, SMTT(30) DEF WriteFails, WriteError, Return
    <2>4. QED
      BY <2>1, <2>2, <2>3 DEF MirrorInv
  <1>10. ASSUME NEW t \in Threads, Insert(t)
        PROVE  MirrorInv'
    <2>1. (Aside /\ Overlapping /\ NoTemp)'
      BY <1>10 DEF Insert, Return
    <2>2. Filed'
      BY <1>10 DEF Insert, Return
    <2>3. Held'
      BY <1>10 DEF Insert, Return
    <2>4. QED
      BY <2>1, <2>2, <2>3 DEF MirrorInv
  <1>11. ASSUME NEW t \in Threads, DeleteUnlink(t)
        PROVE  MirrorInv'
    <2>1. (Aside /\ Overlapping /\ NoTemp)'
      BY <1>11 DEF DeleteUnlink, Return, RemoveFile, FileOf
    <2>2. Filed'
      BY <1>11 DEF DeleteUnlink, Return, RemoveFile, FileOf
    <2>3. Held'
      BY <1>11 DEF DeleteUnlink, Return, RemoveFile, FileOf
    <2>4. QED
      BY <2>1, <2>2, <2>3 DEF MirrorInv
  <1>12. ASSUME NEW t \in Threads, PurgeBegin(t)
        PROVE  MirrorInv'
    <2>1. (Aside /\ Overlapping /\ NoTemp)'
      BY <1>12 DEF PurgeBegin, Offered, InFlight
    <2>2. Filed'
      BY <1>12 DEF PurgeBegin, Offered, InFlight
    <2>3. Held'
      BY <1>12 DEF PurgeBegin, Offered, InFlight
    <2>4. QED
      BY <2>1, <2>2, <2>3 DEF MirrorInv
  <1>13. ASSUME NEW t \in Threads, PurgeClearRuns(t)
        PROVE  MirrorInv'
    <2>1. (Aside /\ Overlapping /\ NoTemp)'
      BY <1>13 DEF PurgeClearRuns
    <2>2. Filed'
      BY <1>13 DEF PurgeClearRuns
    <2>3. Held'
      BY <1>13 DEF PurgeClearRuns
    <2>4. QED
      BY <2>1, <2>2, <2>3 DEF MirrorInv
  <1>14. ASSUME NEW t \in Threads, PurgeList(t)
        PROVE  MirrorInv'
    <2>1. (Aside /\ Overlapping /\ NoTemp)'
      BY <1>14 DEF PurgeList, FilesOf, Lapses
    <2>2. Filed'
      BY <1>14 DEF PurgeList, FilesOf, Lapses
    <2>3. Held'
      BY <1>14 DEF PurgeList, FilesOf, Lapses
    <2>4. QED
      BY <2>1, <2>2, <2>3 DEF MirrorInv
  <1>15. ASSUME NEW t \in Threads, PurgeUnlink(t)
        PROVE  MirrorInv'
    <2>1. (Aside /\ Overlapping /\ NoTemp)'
      BY <1>15 DEF PurgeUnlink, RemoveFile, Sweepable, FilesOf, Swept
    <2>2. Filed'
      BY <1>15 DEF PurgeUnlink, RemoveFile, Sweepable, FilesOf, Swept
    <2>3. Held'
      BY <1>15 DEF PurgeUnlink, RemoveFile, Sweepable, FilesOf, Swept
    <2>4. QED
      BY <2>1, <2>2, <2>3 DEF MirrorInv
  <1>16. ASSUME NEW t \in Threads, PurgeNext(t)
        PROVE  MirrorInv'
    <2>1. (Aside /\ Overlapping /\ NoTemp)'
      BY <1>16 DEF PurgeNext, PurgeReturns
    <2>2. Filed'
      BY <1>16 DEF PurgeNext, PurgeReturns
    <2>3. Held'
      BY <1>16 DEF PurgeNext, PurgeReturns
    <2>4. QED
      BY <2>1, <2>2, <2>3 DEF MirrorInv
  <1>17. ASSUME NEW p \in Procs, Stop(p)
        PROVE  MirrorInv'
    <2>1. (Aside /\ Overlapping /\ NoTemp)'
      BY <1>17 DEF Stop
    <2>2. Filed'
      BY <1>17 DEF Stop
    <2>3. Held'
      BY <1>17 DEF Stop
    <2>4. QED
      BY <2>1, <2>2, <2>3 DEF MirrorInv
  <1>18. ASSUME NEW p \in Procs, Open(p)
        PROVE  MirrorInv'
    <2>1. (Aside /\ Overlapping /\ NoTemp)'
      BY <1>18 DEF Open, Lists, Lapses, Ids, FilesOf
    <2>2. Filed'
      BY <1>18 DEF Open, Lists, Lapses, Ids, FilesOf
    <2>3. Held'
      BY <1>18 DEF Open, Lists, Lapses, Ids, FilesOf
    <2>4. QED
      BY <2>1, <2>2, <2>3 DEF MirrorInv
  <1>19. ASSUME NEW p \in Procs, Rehydrate(p)
        PROVE  MirrorInv'
    <2>1. (Aside /\ Overlapping /\ NoTemp)'
      BY <1>19 DEF Rehydrate, Readable
    <2>2. Filed'
      BY <1>19 DEF Rehydrate, Readable
    <2>3. Held'
      BY <1>19 DEF Rehydrate, Readable
    <2>4. QED
      BY <2>1, <2>2, <2>3 DEF MirrorInv
  <1>20. ASSUME NEW p \in Procs, OpenNext(p)
        PROVE  MirrorInv'
    <2>1. (Aside /\ Overlapping /\ NoTemp)'
      BY <1>20 DEF OpenNext, Lists, Lapses, Ids, FilesOf
    <2>2. Filed'
      BY <1>20 DEF OpenNext, Lists, Lapses, Ids, FilesOf
    <2>3. Held'
      BY <1>20 DEF OpenNext, Lists, Lapses, Ids, FilesOf
    <2>4. QED
      BY <2>1, <2>2, <2>3 DEF MirrorInv
  <1>30. ASSUME NEW t \in Threads, PurgeListFails(t)
        PROVE  MirrorInv'
    <2>1. (Aside /\ Overlapping /\ NoTemp)'
      BY <1>30 DEF PurgeListFails, PurgeReturns, FilesOf
    <2>2. Filed'
      BY <1>30 DEF PurgeListFails, PurgeReturns, FilesOf
    <2>3. Held'
      BY <1>30 DEF PurgeListFails, PurgeReturns, FilesOf
    <2>4. QED
      BY <2>1, <2>2, <2>3 DEF MirrorInv
  <1>21. CASE UNCHANGED vars
    BY <1>21 DEF vars
  <1>22. ASSUME NEW t \in Threads, Begin(t)
        PROVE  MirrorInv'
    BY ONLY <1>1, <1>2, <1>3, <1>12, <1>22 DEF Begin
  <1>23. ASSUME NEW t \in Threads, Step(t)
        PROVE  MirrorInv'
    BY ONLY <1>6, <1>7, <1>8, <1>9, <1>10, <1>11, <1>13, <1>14, <1>15, <1>16, <1>30, <1>23 DEF Step
  <1>24. ASSUME NEW p \in Procs, Boot(p)
        PROVE  MirrorInv'
    BY ONLY <1>18, <1>19, <1>20, <1>24 DEF Boot
  <1>25. QED
    BY ONLY [Next]_vars, <1>4, <1>5, <1>17, <1>21, <1>22, <1>23, <1>24 DEF Next

(* With no call under way the list shows what the next start would show,   *)
(* but for what a purge overlapped, in a process that owns its directory.  *)
THEOREM Mirrors == ASSUME Solo PROVE Spec => []MirrorWhenQuiet
  <1>1. Init => IInv /\ GoneInv /\ MirrorInv
    BY InitIInv, InitGone, StoreAssumption DEF StoreAssumption, Init, MirrorInv, Aside, Overlapping,
       NoTemp, Filed, Held, Sure, Writing, Purging
  <1>2. (IInv /\ GoneInv /\ MirrorInv) /\ [Next]_vars => (IInv /\ GoneInv /\ MirrorInv)'
    BY StepIInv, StepGone, StepMirror
  <1>3. IInv /\ GoneInv /\ MirrorInv => MirrorWhenQuiet
    BY StoreAssumption DEF StoreAssumption, MirrorInv, Filed, Held, Going, Sure, MirrorWhenQuiet,
       Quiet, PurgeUnderWay, Purging
  <1>4. QED
    BY <1>1, <1>2, <1>3, PTL DEF Spec
=============================================================================
