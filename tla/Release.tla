------------------------------- MODULE Release -------------------------------
(***************************************************************************)
(* How builds of a mirror repository are published: the workflows nightly  *)
(* and release of src/.github/workflows (canary is nightly on a push) and  *)
(* the scripts they call, the version arithmetic (NextVersion) and the     *)
(* release notes (Notes).  The history of a mirror is one commit, replaced *)
(* by each sync; a rolling run checks it out without tags, a stable one    *)
(* with them.  That a schedule skips an unchanged tree only drops runs.    *)
(*                                                                         *)
(* Notes are written from a checkout and touch nothing else, so the rest   *)
(* of the world stands still meanwhile, but for what cancels them.         *)
(***************************************************************************)
EXTENDS NextVersion, Notes

CONSTANTS
    InTree,         \* versions the train may set
    Bodies,         \* what a mirror commit may describe: sequences of sizes
    Retain,         \* rolling builds that are kept
    MaxSyncs, MaxRuns, MaxBuilds, MaxDays, MaxStables   \* bounds on the world

ASSUME ReleaseAssumption ==
    /\ InTree # {} /\ InTree \subseteq [minor : Nat, patch : Nat, prerelease : {<<>>}]
    /\ \A b \in Bodies : b \in Seq(Nat \ {0}) /\ b # <<>>
    /\ {Retain, MaxSyncs, MaxRuns, MaxBuilds, MaxDays, MaxStables} \subseteq Nat

VARIABLES
    commits,    \* the in-tree version of each sync
    pushed,     \* stable tags, with the commit they point at
    published,  \* releases, oldest first
    runs,       \* the commit of each nightly run, by its number
    day,        \* the UTC date
    job         \* the run under way of each workflow

(* Every nightly build that was published, pruned ones too, by the number  *)
(* of its run.  No code reads it.                                          *)
VARIABLE built

world == <<commits, pushed, published, runs, day, job, built>>
vars == <<world, notes>>

Workflows == {"nightly", "stable"}
NoJob == [step |-> "none", run |-> 0, commit |-> 0, listed |-> FALSE,
          version |-> Version(0, 0, <<>>)]

Newest == Len(commits)
PublishedSet == ToSet(published)

Init ==
    /\ \E v \in InTree : commits = <<v>>
    /\ pushed = {}
    /\ published = <<>>
    /\ runs = <<>>
    /\ day = 1
    /\ job = [w \in Workflows |-> NoJob]
    /\ built = {}
    /\ NotesInit

-----------------------------------------------------------------------------
(* What happens outside.                                                   *)

(* A sync of the mirror; the train leaves its version or moves it ahead.   *)
Sync ==
    /\ stage = "idle"
    /\ Len(commits) <= MaxSyncs
    /\ \E v \in InTree :
         /\ v = commits[Newest] \/ Precedes(commits[Newest], v)
         /\ commits' = Append(commits, v)
    /\ UNCHANGED <<pushed, published, runs, day, job, built, notes>>

Tomorrow ==
    /\ stage = "idle"
    /\ day < MaxDays
    /\ day' = day + 1
    /\ UNCHANGED <<commits, pushed, published, runs, job, built, notes>>

(* The release workflow starts for the in-tree version, or for the base    *)
(* that next-version names: a tag is pushed on the head, or somebody types *)
(* the tag in, which the release will then make.                           *)
StartStable ==
    /\ stage = "idle"
    /\ job["stable"] = NoJob
    /\ Cardinality(pushed) < MaxStables
    /\ \E v \in {commits[Newest], ResolveBase(commits[Newest], PublishedSet)},
          push \in BOOLEAN :
         /\ \A p \in pushed : p.version # v
         /\ pushed' = IF push THEN pushed \cup {[version |-> v, commit |-> Newest]}
                              ELSE pushed
         /\ job' = [job EXCEPT !["stable"] = [NoJob EXCEPT
                      !.step = "checkout", !.commit = Newest, !.version = v]]
    /\ UNCHANGED <<commits, published, runs, day, built, notes>>

(* A schedule or a dispatch starts a nightly run on the head, and a re-run *)
(* keeps its number and its commit.  Either cancels the run under way.     *)
StartRun ==
    /\ \/ stage = "idle" /\ UNCHANGED notes
       \/ job["nightly"].step = "writing" /\ NotesStop
    /\ Cardinality(built) < MaxBuilds
    /\ \E n \in 1 .. Len(runs) + 1 :
         /\ n <= MaxRuns
         /\ runs' = IF n > Len(runs) THEN Append(runs, Newest) ELSE runs
         /\ job' = [job EXCEPT !["nightly"] = [NoJob EXCEPT
                      !.step = "checkout", !.run = n, !.commit = runs'[n]]]
    /\ UNCHANGED <<commits, pushed, published, day, built>>

-----------------------------------------------------------------------------
(* The steps of a run.                                                     *)

(* gh and git are asked for the published tags; neither answering is an    *)
(* empty list.                                                             *)
Listing(listed) == IF listed THEN PublishedSet ELSE {}

(* Where the notes of a stable build start: a stable tag at its commit.    *)
(* The workflow names no tag, so that the tag of the build itself is not   *)
(* left out.  A rolling checkout has no tags.                              *)
PickPrev(w) ==
    IF w = "stable" THEN {p \in pushed : p.commit = job[w].commit} ELSE {}

(* What git log finds: nothing, when the range starts at the head itself.  *)
Found(w, body) == IF PickPrev(w) # {} THEN <<>> ELSE body

WriteNotes(w) ==
    /\ job[w].step = "checkout"
    /\ stage = "idle"
    /\ \E body \in Bodies, key \in BOOLEAN :
         NotesStart(Found(w, body), w = "stable", key)
    /\ \/ /\ w = "stable"
          /\ job' = [job EXCEPT ![w].step = "writing"]
       \/ /\ w = "nightly"
          /\ \E listed \in BOOLEAN :
               job' = [job EXCEPT
                         ![w].step = "writing",
                         ![w].listed = listed,
                         ![w].version = VersionFor(w, commits[job[w].commit],
                                          Listing(listed), day, job[w].run)]
    /\ UNCHANGED <<commits, pushed, published, runs, day, built>>

(* All but the newest builds of a channel are deleted; the shape of the    *)
(* tag keeps every other release out of it.                                *)
Pruned(releases, channel) ==
    LET own == {i \in DOMAIN releases :
                  ~IsStable(releases[i]) /\ releases[i].prerelease[1] = Word(channel)}
        Kept(i) == i \notin own \/ Cardinality({k \in own : k > i}) < Retain
    IN  FlattenSeq([i \in DOMAIN releases |-> IF Kept(i) THEN <<releases[i]>> ELSE <<>>])

(* A release that is there already is used again.                          *)
With(v) == IF v \in PublishedSet THEN published ELSE Append(published, v)

Publish(w) ==
    /\ job[w].step = "writing"
    /\ stage \in Over \ {"failed"}
    /\ \/ /\ w = "stable"
          /\ published' = With(job[w].version)
          /\ pushed' = IF \E p \in pushed : p.version = job[w].version THEN pushed
                       ELSE pushed \cup {[version |-> job[w].version,
                                          commit |-> job[w].commit]}
          /\ UNCHANGED built
       \/ /\ w = "nightly"
          /\ UNCHANGED pushed
          /\ published' = Pruned(With(job[w].version), "nightly")
          /\ built' = built \cup {[run |-> job[w].run, version |-> job[w].version]}
    /\ job' = [job EXCEPT ![w] = NoJob]
    /\ NotesStop
    /\ UNCHANGED <<commits, runs, day>>

(* The generator has failed, or gh fails to make the release.              *)
RunFails(w) ==
    /\ job[w].step = "writing"
    /\ stage \in Over
    /\ job' = [job EXCEPT ![w] = NoJob]
    /\ NotesStop
    /\ UNCHANGED <<commits, pushed, published, runs, day, built>>

-----------------------------------------------------------------------------

Outside == Sync \/ Tomorrow \/ StartStable \/ StartRun

Step(w) == WriteNotes(w) \/ Publish(w) \/ RunFails(w)

Generate == NotesStep /\ UNCHANGED world

Next ==
    \/ Outside
    \/ \E w \in Workflows : Step(w)
    \/ Generate

Spec == Init /\ [][Next]_vars

(* The generator is a process that waits for nothing but the model, and    *)
(* every request gives up after three minutes.                             *)
FairSpec == Spec /\ WF_vars(Generate)

-----------------------------------------------------------------------------

(* "A REAL, ORDERED version for every channel" (next-version.mjs): a build *)
(* that could list the releases is newer than every build of its channel   *)
(* that an earlier run made, pruned ones and those of another date         *)
(* included, and one of the newest tree is newer than every stable         *)
(* release, whatever was published, re-run or cancelled meanwhile.         *)
Rises(j) ==
    /\ \A b \in built : b.run < j.run => Precedes(b.version, j.version)
    /\ j.commit = Newest =>
         \A v \in PublishedSet : IsStable(v) => Precedes(v, j.version)
RollingMovesForward ==
    [][LET old == job["nightly"]
           new == job'["nightly"]
       IN  old.step = "checkout" /\ new.step = "writing" /\ new.listed
             => Rises(new)]_vars

(* The generator always ends, whatever the model answers.                  *)
NotesEnd == stage \in Running ~> stage \notin Running

-----------------------------------------------------------------------------
(* What the documents say of the program, and the program does not do.     *)

(* "The material for a rolling changelog is already here" and              *)
(* `--require-ai` "exits non-zero instead of silently shipping fallback    *)
(* notes" (rolling-notes.mjs): a stable build comes out without its        *)
(* changes only when another stable tag is at the very same commit.        *)
StableNotesAreWritten ==
    job["stable"].step = "writing" /\ stage = "none" =>
        \E p \in pushed : /\ p.commit = job["stable"].commit
                          /\ p.version # job["stable"].version
=============================================================================
