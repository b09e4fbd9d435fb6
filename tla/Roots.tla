-------------------------------- MODULE Roots --------------------------------
(***************************************************************************)
(* Reading files into a corpus (src/backend/src/store.rs, Roots): a path   *)
(* is admitted where its canonical form lies under a configured root, and  *)
(* a walk with an explicit stack expands directories into their files.     *)
(*                                                                         *)
(* A file or directory is the rank of its canonical path.  A tree says     *)
(* what each is, where it lies as seen from every root, and what a         *)
(* directory lists: an entry is its name and what that name resolves to,   *)
(* for a link the target, for a broken link Missing.                       *)
(***************************************************************************)
EXTENDS Naturals, FiniteSets, Sequences, SequencesExt, FiniteSetsExt

CONSTANTS
    Nodes,      \* files and directories
    Trees,      \* the file systems that are considered
    MaxFiles,   \* MAX_FILES
    Missing     \* what a broken link resolves to

Places == {"outside", "hidden", "inside"}
Names == {"plain", "dotted", "node_modules"}
Entry == [name : Names, to : Nodes \cup {Missing}]
Tree == [kind : [Nodes -> {"file", "dir"}], place : [Nodes -> Seq(Places)],
         lists : [Nodes -> SUBSET Entry]]

ASSUME RootsAssumption ==
    /\ Nodes \subseteq Nat /\ IsFiniteSet(Nodes)
    /\ Trees \subseteq Tree
    /\ \A t \in Trees : \A n \in Nodes : t.kind[n] = "file" => t.lists[n] = {}
    /\ MaxFiles \in Nat \ {0}
    /\ Missing \notin Nodes

VARIABLES
    tree,       \* the file system; it stays as it is during a load
    named,      \* what the caller named
    queue,      \* the stack of the walk, its top last
    docs,       \* the documents read so far
    skipped,    \* what is reported as refused or unreadable
    unlisted,   \* entries that a listing failed to give, which nothing reports
    ceiling,    \* the load stopped at MAX_FILES, and says so
    walk        \* where the load is: idle, walking or done

walkVars == <<named, queue, docs, skipped, unlisted, ceiling, walk>>
rootsVars == <<tree, walkVars>>

RootsInit ==
    /\ tree \in Trees
    /\ named = <<>> /\ queue = <<>> /\ docs = <<>>
    /\ skipped = {} /\ unlisted = {} /\ ceiling = FALSE /\ walk = "idle"

(* The first root that holds the canonical path decides.                   *)
Resolves(n) ==
    /\ n # Missing
    /\ LET holding == {i \in DOMAIN tree.place[n] : tree.place[n][i] # "outside"}
       IN  holding # {} /\ tree.place[n][Min(holding)] = "inside"

SkippedWhenWalking(entry) == entry.name # "plain"

Resolving(paths) ==
    FlattenSeq([i \in DOMAIN paths |-> IF Resolves(paths[i]) THEN <<paths[i]>> ELSE <<>>])

LoadBegin(paths) ==
    /\ walk = "idle"
    /\ named' = paths
    /\ queue' = Resolving(paths)
    /\ skipped' = ToSet(paths) \ ToSet(queue')
    /\ docs' = <<>> /\ unlisted' = {} /\ ceiling' = FALSE
    /\ walk' = "walking"
    /\ UNCHANGED tree

Path == Last(queue)

Popping ==
    /\ walk = "walking"
    /\ queue # <<>>
    /\ Len(docs) < MaxFiles

(* A path that is gone or cannot be read when its turn comes.              *)
Unreadable ==
    /\ Popping
    /\ queue' = Front(queue)
    /\ skipped' = skipped \cup {Path}
    /\ UNCHANGED <<tree, named, docs, unlisted, ceiling, walk>>

\* Descendants are pushed on the strength of their parent.
AdmittedWithParent(entries) == {e \in entries : e.to # Missing}

(* Every descendant is resolved again, whatever its parent.                *)
Admitted(entries) == {e \in entries : Resolves(e.to)}

(* The entries of a directory come in any order, short of those that could *)
(* not be read and that flatten drops; a link and its target may both be   *)
(* among them, and are then both pushed.                                   *)
ExpandDirectory ==
    /\ Popping
    /\ tree.kind[Path] = "dir"
    /\ LET entries == {e \in tree.lists[Path] : ~SkippedWhenWalking(e)}
       IN  \E lost \in SUBSET entries :
             LET admitted == Admitted(entries \ lost)
             IN  /\ \E order \in SetToSeqs(admitted) :
                      queue' = Front(queue) \o [i \in DOMAIN order |-> order[i].to]
                 /\ skipped' = skipped \cup {e.to : e \in (entries \ lost) \ admitted}
                 /\ unlisted' = unlisted \cup {<<Path, e>> : e \in lost}
    /\ UNCHANGED <<tree, named, docs, ceiling, walk>>

ReadFile ==
    /\ Popping
    /\ tree.kind[Path] = "file"
    /\ queue' = Front(queue)
    /\ docs' = Append(docs, Path)
    /\ UNCHANGED <<tree, named, skipped, unlisted, ceiling, walk>>

(* Sorted by source; what was reached twice is there twice.                *)
Ends(stopped) ==
    /\ \E order \in SetToSeqs(DOMAIN docs) :
         /\ docs' = [i \in DOMAIN docs |-> docs[order[i]]]
         /\ \A i, j \in DOMAIN docs : i < j => docs[order[i]] <= docs[order[j]]
    /\ ceiling' = stopped
    /\ walk' = "done"
    /\ UNCHANGED <<tree, named, queue, skipped, unlisted>>

\* At the ceiling the loop goes on without taking from the queue.
LoadEndedByQueue == walk = "walking" /\ queue = <<>> /\ Ends(FALSE)

LoadEnded ==
    /\ walk = "walking"
    /\ \/ queue = <<>> /\ Ends(FALSE)
       \/ queue # <<>> /\ Len(docs) >= MaxFiles /\ Ends(TRUE)

WalkStep == Unreadable \/ ExpandDirectory \/ ReadFile \/ LoadEnded

(* The caller has taken the documents.                                     *)
LoadTaken ==
    /\ walk = "done"
    /\ named' = <<>> /\ queue' = <<>> /\ docs' = <<>>
    /\ skipped' = {} /\ unlisted' = {} /\ ceiling' = FALSE /\ walk' = "idle"
    /\ UNCHANGED tree
-----------------------------------------------------------------------------
(* What a load must return, said without a walk.                           *)
Allowed(n) ==
    \E i \in DOMAIN tree.place[n] :
        /\ tree.place[n][i] = "inside"
        /\ \A j \in 1..(i - 1) : tree.place[n][j] = "outside"

(* What lies directly below d, short of the entries of lost.               *)
Below(d, lost) ==
    {n \in Nodes : /\ Allowed(n)
                   /\ [name |-> "plain", to |-> n] \in tree.lists[d]
                   /\ <<d, [name |-> "plain", to |-> n]>> \notin lost}

(* The nodes reached from what was named through the directories of open.  *)
Reached(open, lost) ==
    LET start == {n \in ToSet(named) : n # Missing /\ Allowed(n)}
        closed == {S \in SUBSET Nodes :
                     start \subseteq S /\ \A d \in S \cap open : Below(d, lost) \subseteq S}
    IN  {n \in Nodes : \A S \in closed : n \in S}

Files == {n \in Nodes : tree.kind[n] = "file"}

(***************************************************************************)
(* Whatever order directories list in and whatever cannot be read, a load  *)
(* that has ended returns files that lie inside a root and were reached,   *)
(* in the order of their sources, and drops none of its own accord: short  *)
(* of the ceiling every file is among the documents or reported that is    *)
(* reached through directories that could be read and entries that their   *)
(* listings gave (load, store.rs 215-278).  An entry that a listing fails  *)
(* to give is lost without a word, and what lies below it (246).           *)
(***************************************************************************)
LoadIsExact ==
    walk = "done" =>
        /\ \A i \in 1..(Len(docs) - 1) : docs[i] <= docs[i + 1]
        /\ Len(docs) <= MaxFiles
        /\ ToSet(docs) \subseteq Reached(Nodes, {}) \cap Files
        /\ ceiling \/ (Reached(Nodes \ skipped, unlisted) \cap Files) \ skipped \subseteq ToSet(docs)
        /\ \A n \in ToSet(named) : (n # Missing /\ Allowed(n)) \/ n \in skipped
=============================================================================
