----------------------------- MODULE NextVersion -----------------------------
(***************************************************************************)
(* The version a build carries (src/scripts/next-version.mjs).  A version  *)
(* is its minor and patch number, the major number being left out, and its *)
(* prerelease identifiers.  The workflows here make no beta, and its       *)
(* ordinal is left out.                                                    *)
(***************************************************************************)
EXTENDS Integers, Sequences, FiniteSetsExt

\* Alphanumeric identifiers, in ASCII order.
Rank == [beta |-> 1, canary |-> 2, nightly |-> 3]

Word(channel) == [numeric |-> FALSE, value |-> Rank[channel]]
Number(n) == [numeric |-> TRUE, value |-> n]

Version(minor, patch, prerelease) ==
    [minor |-> minor, patch |-> patch, prerelease |-> prerelease]

IsStable(v) == v.prerelease = <<>>
SameBase(v, w) == v.minor = w.minor /\ v.patch = w.patch

(* Numeric identifiers compare as numbers and rank below the others.       *)
IdentifierBefore(x, y) ==
    IF x.numeric = y.numeric THEN x.value < y.value ELSE x.numeric

(* The first identifiers that differ decide; a list that ends first ranks  *)
(* below, except that no list at all is the stable release, above them.    *)
PrereleaseBefore(a, b) ==
    /\ a # <<>>
    /\ \/ b = <<>>
       \/ \E i \in 1 .. Len(b) :
            /\ \A k \in 1 .. i - 1 : k <= Len(a) /\ a[k] = b[k]
            /\ \/ i = Len(a) + 1
               \/ i <= Len(a) /\ IdentifierBefore(a[i], b[i])

Precedes(v, w) ==
    \/ v.minor < w.minor
    \/ v.minor = w.minor /\ v.patch < w.patch
    \/ SameBase(v, w) /\ PrereleaseBefore(v.prerelease, w.prerelease)

\* A base that is bumped once, past the release of the in-tree version.
ResolveBaseOnce(inTree, published) ==
    IF inTree \in published THEN [inTree EXCEPT !.patch = @ + 1] ELSE inTree

(* The in-tree version, its patch bumped while that very version is        *)
(* published.                                                              *)
ResolveBase(inTree, published) ==
    LET taken == {v.patch : v \in {w \in published :
                                     IsStable(w) /\ w.minor = inTree.minor}}
        free == (inTree.patch .. inTree.patch + Cardinality(taken)) \ taken
    IN  Version(inTree.minor, Min(free), <<>>)

VersionFor(channel, inTree, published, date, build) ==
    LET base == ResolveBase(inTree, published)
    IN  IF channel = "stable" THEN base
        ELSE [base EXCEPT !.prerelease =
                <<Word(channel), Number(date), Number(build)>>]
=============================================================================
