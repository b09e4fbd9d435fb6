---------------------------- MODULE ReleaseProofs ----------------------------
(***************************************************************************)
(* Proofs about the release train (module Release): through any batching,  *)
(* retry and split each description of a change is in one place, and a     *)
(* rolling build is ahead of what was built and published before it, for   *)
(* every history of the mirror and any number of runs.                     *)
(***************************************************************************)
EXTENDS Release, Induction

-----------------------------------------------------------------------------
(* The release notes.                                                      *)

First(n) == [i \in 1 .. n |-> i]

LEMMA FirstGrows ==
    ASSUME NEW n \in Nat
    PROVE  First(n) \in Seq(Nat) /\ First(n) \o <<n + 1>> = First(n + 1)
  <1>1. First(n) \in Seq(Nat) /\ Len(First(n)) = n /\ \A i \in 1 .. n : First(n)[i] = i
    BY DEF First
  <1>2. <<n + 1>> \in Seq(Nat) /\ Len(<<n + 1>>) = 1
    OBVIOUS
  <1>3. First(n + 1) \in Seq(Nat) /\ Len(First(n + 1)) = n + 1 /\ \A i \in 1 .. n + 1 : First(n + 1)[i] = i
    BY DEF First
  <1>4. /\ First(n) \o <<n + 1>> \in Seq(Nat) /\ Len(First(n) \o <<n + 1>>) = n + 1
        /\ \A i \in 1 .. n + 1 : (First(n) \o <<n + 1>>)[i] = i
    BY <1>1, <1>2
  <1>5. QED
    BY <1>1, <1>3, <1>4, SeqEqual

(* What has been put into batches so far, in order.                        *)
Batched(acc, n) ==
    /\ acc.full \in Seq(Seq(Nat)) /\ acc.batch \in Seq(Nat)
    /\ FlattenSeq(acc.full) \o acc.batch = First(n)

LEMMA PutKeeps ==
    ASSUME NEW n \in Nat, NEW acc, Batched(acc, n), NEW size,
           acc = [full |-> acc.full, batch |-> acc.batch, bytes |-> acc.bytes]
    PROVE  /\ Batched(Put(acc, n + 1, size), n + 1)
           /\ Put(acc, n + 1, size) = [full |-> Put(acc, n + 1, size).full,
                                       batch |-> Put(acc, n + 1, size).batch,
                                       bytes |-> Put(acc, n + 1, size).bytes]
  <1> DEFINE full == acc.full
             batch == acc.batch
             next == Put(acc, n + 1, size)
  <1>1. full \in Seq(Seq(Nat)) /\ batch \in Seq(Nat) /\ FlattenSeq(full) \o batch = First(n)
    BY DEF Batched
  <1>2. FlattenSeq(full) \in Seq(Nat) /\ <<n + 1>> \in Seq(Nat)
    BY <1>1, Flattened
  <1>3. First(n) \o <<n + 1>> = First(n + 1)
    BY FirstGrows
  <1>4. \/ next.full = Append(full, batch) /\ next.batch = <<n + 1>>
        \/ next.full = full /\ next.batch = Append(batch, n + 1)
    BY DEF Put
  <1>5. next = [full |-> next.full, batch |-> next.batch, bytes |-> next.bytes]
    BY DEF Put
  <1> HIDE DEF full, batch, next
  <1>6. CASE next.full = Append(full, batch) /\ next.batch = <<n + 1>>
    <2>1. next.full \in Seq(Seq(Nat)) /\ FlattenSeq(next.full) = First(n)
      BY <1>1, <1>6, FlattenAppend
    <2>2. QED
      BY <1>2, <1>3, <1>5, <1>6, <2>1 DEF Batched, next
  <1>7. CASE next.full = full /\ next.batch = Append(batch, n + 1)
    <2>1. next.batch \in Seq(Nat) /\ next.batch = batch \o <<n + 1>>
      <3>1. PICK i \in Nat : i = n + 1
        OBVIOUS
      <3>2. Append(batch, i) \in Seq(Nat) /\ Append(batch, i) = batch \o <<i>>
        BY <1>1, AppendIsConcat
      <3>3. QED
        BY <1>7, <3>1, <3>2
    <2>2. FlattenSeq(full) \o (batch \o <<n + 1>>) = (FlattenSeq(full) \o batch) \o <<n + 1>>
      <3>1. PICK T : T = Nat
        OBVIOUS
      <3>2. PICK a \in Seq(T), b \in Seq(T), c \in Seq(T) :
              a = FlattenSeq(full) /\ b = batch /\ c = <<n + 1>>
        BY <1>1, <1>2, <3>1
      <3>3. (a \o b) \o c = a \o (b \o c)
        BY ConcatAssociative
      <3>4. QED
        BY <3>2, <3>3
    <2>3. FlattenSeq(next.full) \o next.batch = First(n + 1)
      BY <1>1, <1>3, <1>7, <2>1, <2>2
    <2>4. QED
      BY <1>1, <1>5, <1>7, <2>1, <2>3 DEF Batched, next
  <1>8. QED
    BY <1>4, <1>6, <1>7

(* Every item is in one batch, in the order in which they came.            *)
LEMMA BatchesHold ==
    ASSUME NEW size \in Seq(Nat), NEW items, items = First(Len(size))
    PROVE  /\ Batches(items, size) \in Seq(Seq(Nat))
           /\ FlattenSeq(Batches(items, size)) = items
  <1>1. PICK m \in Nat : m = Len(size) /\ Len(items) = m /\ \A i \in 1 .. m : items[i] = i
    BY DEF First
  <1> DEFINE empty == [full |-> <<>>, batch |-> <<>>, bytes |-> 0]
             Solves(g, n) ==
               g = [k \in 0 .. n |-> IF k = 0 THEN empty ELSE Put(g[k - 1], items[k], size)]
             S == {n \in Nat : \E g : Solves(g, n)}
  <1>2. 0 \in S
    <2>1. Solves([k \in 0 .. 0 |-> empty], 0)
      OBVIOUS
    <2>2. QED
      BY <2>1
  <1>3. ASSUME NEW n \in Nat, n \in S
        PROVE  n + 1 \in S
    <2>1. PICK g : Solves(g, n)
      BY <1>3
    <2>2. Solves([k \in 0 .. n + 1 |-> IF k <= n THEN g[k] ELSE Put(g[n], items[n + 1], size)], n + 1)
      <3> HIDE DEF empty
      <3> QED
        BY <2>1
    <2> HIDE DEF Solves
    <2>3. QED
      BY <2>2
  <1>4. \A n \in Nat : n \in S
    <2> HIDE DEF S
    <2> QED
      BY <1>2, <1>3, SetInduction
  <1> DEFINE after == CHOOSE g : Solves(g, Len(items))
  <1>5. Solves(after, Len(items))
    <2>1. \E g : Solves(g, Len(items))
      BY <1>1, <1>4
    <2>2. QED
      BY <2>1
  <1>6. Batches(items, size) =
          LET all == after[Len(items)]
          IN  IF all.batch = <<>> THEN all.full ELSE Append(all.full, all.batch)
    BY DEF Batches
  <1>7. after[0] = empty /\ \A k \in 1 .. m : after[k] = Put(after[k - 1], items[k], size)
    <2> HIDE DEF after, empty
    <2> QED
      BY <1>1, <1>5, SMTT(30)
  <1> HIDE DEF after, Solves, S
  <1> DEFINE Shaped(acc) == acc = [full |-> acc.full, batch |-> acc.batch, bytes |-> acc.bytes]
             Holds(k) == Batched(after[k], k) /\ Shaped(after[k])
             R == {k \in Nat : k <= m => Holds(k)}
  <1>8. 0 \in R
    <2>1. <<>> \in Seq(Seq(Nat)) /\ <<>> \in Seq(Nat) /\ FlattenSeq(<<>>) = <<>> /\ First(0) = <<>>
      <3>1. PICK none \in Seq(Seq(Nat)) : none = <<>> /\ Len(none) = 0
        BY EmptySeq
      <3>2. FlattenSeq(none) = <<>>
        BY <3>1, FlattenNone
      <3>3. First(0) = <<>>
        BY DEF First
      <3>4. QED
        BY <3>1, <3>2, <3>3
    <2>2. Holds(0)
      BY <1>7, <2>1 DEF Batched
    <2> HIDE DEF Holds
    <2>3. QED
      BY <2>2
  <1>9. ASSUME NEW k \in Nat, k \in R
        PROVE  k + 1 \in R
    <2>1. PICK j \in Nat : j = k + 1
      OBVIOUS
    <2> SUFFICES ASSUME j <= m
                 PROVE  Holds(j)
      <3> HIDE DEF Holds
      <3> QED
        BY <2>1
    <2>2. Batched(after[k], k) /\ Shaped(after[k])
      BY <1>9, <2>1
    <2>3. j \in 1 .. m /\ j - 1 = k
      BY <2>1
    <2>4. after[j] = Put(after[k], k + 1, size)
      BY <1>1, <1>7, <2>1, <2>3
    <2>5. QED
      BY <2>1, <2>2, <2>4, PutKeeps
  <1>10. \A k \in Nat : k \in R
    <2> HIDE DEF R
    <2> QED
      BY <1>8, <1>9, SetInduction
  <1>11. Batched(after[m], m)
    <2>1. m <= m
      OBVIOUS
    <2>2. QED
      BY <1>10, <2>1
  <1> DEFINE all == after[m]
  <1>12. /\ all.full \in Seq(Seq(Nat)) /\ all.batch \in Seq(Nat)
         /\ FlattenSeq(all.full) \o all.batch = items /\ FlattenSeq(all.full) \in Seq(Nat)
    BY <1>1, <1>11, Flattened DEF Batched
  <1>13. Batches(items, size) = IF all.batch = <<>> THEN all.full ELSE Append(all.full, all.batch)
    BY <1>1, <1>6
  <1> HIDE DEF all
  <1>14. CASE all.batch = <<>>
    BY <1>12, <1>13, <1>14
  <1>15. CASE all.batch # <<>>
    BY <1>12, <1>13, <1>15, FlattenAppend
  <1>16. QED
    BY <1>14, <1>15

(* What is rewritten and what waits make up the whole.                     *)
Whole ==
    LET waiting == FlattenSeq(work)
    IN  /\ Len(changes) + Len(waiting) = Len(sizes)
        /\ ToSet(changes) \cup ToSet(waiting) = 1 .. Len(sizes)

NotesInv ==
    /\ sizes \in Seq(Nat) /\ changes \in Seq(Nat) /\ work \in Seq(Seq(Nat))
    /\ stage \in Running \cup {"written"} => Whole

LEMMA NotesStay ==
    ASSUME NotesInv, sizes' = sizes, changes' = changes, work' = work,
           stage' \in Running \cup {"written"} => stage \in Running
    PROVE  NotesInv'
  BY DEF NotesInv, Whole

LEMMA StopKeeps == ASSUME NotesStop PROVE NotesInv'
  BY DEF NotesStop, NotesInv, Running

LEMMA StartKeeps ==
    ASSUME NEW found \in Seq(Nat), NEW requireAi, NEW hasKey, NotesStart(found, requireAi, hasKey)
    PROVE  NotesInv'
  <1> DEFINE items == [i \in 1 .. Len(found) |-> i]
             whole == Batches(items, found)
             tooLong == \E i \in 1 .. Len(found) : found[i] > BatchBytes
  <1>1. /\ sizes' = found /\ changes' = <<>>
        /\ work' = IF tooLong THEN <<>> ELSE whole
        /\ stage' = CASE found = <<>> -> "none"
                      [] found # <<>> /\ hasKey /\ ~tooLong -> "review"
                      [] OTHER -> IF requireAi THEN "failed" ELSE "plain"
    BY DEF NotesStart
  <1>2. stage' \in Running \cup {"written"} => ~tooLong
    BY <1>1 DEF Running
  <1>3. items = First(Len(found)) /\ Len(found) \in Nat
    BY DEF First
  <1>4. whole \in Seq(Seq(Nat)) /\ FlattenSeq(whole) = First(Len(found))
    <2> HIDE DEF items
    <2> QED
      BY <1>3, BatchesHold
  <1>5. /\ Len(First(Len(found))) = Len(found) /\ ToSet(First(Len(found))) = 1 .. Len(found)
        /\ <<>> \in Seq(Nat) /\ Len(<<>>) = 0 /\ ToSet(<<>>) = {} /\ <<>> \in Seq(Seq(Nat))
    BY <1>3 DEF First, ToSet
  <1> HIDE DEF whole, items, tooLong
  <1>6. sizes' \in Seq(Nat) /\ changes' \in Seq(Nat) /\ work' \in Seq(Seq(Nat))
    BY <1>1, <1>4, <1>5
  <1>7. ~tooLong => Whole'
    BY <1>1, <1>3, <1>4, <1>5 DEF Whole
  <1>8. QED
    BY <1>2, <1>6, <1>7 DEF NotesInv

LEMMA ReviewedKeeps == ASSUME NotesInv, Reviewed PROVE NotesInv'
  <1>1. PICK entries \in SeqOf(ToSet(Ids), Len(Head(work)) + 1) :
          Covers(entries, Head(work)) /\ changes' = changes \o entries
    BY DEF Reviewed
  <1>2. /\ stage = "review" /\ work # <<>> /\ work' = Tail(work)
        /\ stage' = stage /\ sizes' = sizes
    BY DEF Reviewed
  <1>3. sizes \in Seq(Nat) /\ changes \in Seq(Nat) /\ work \in Seq(Seq(Nat)) /\ Whole
    BY <1>2 DEF NotesInv, Running
  <1>4. ToSet(Ids) \subseteq Nat
    BY <1>3 DEF ToSet, Ids
  <1>5. entries \in Seq(Nat)
    <2>1. PICK m \in 0 .. Len(Head(work)) + 1 : entries \in [1 .. m -> ToSet(Ids)]
      BY <1>1 DEF SeqOf
    <2>2. Head(work) \in Seq(Nat)
      BY <1>2, <1>3
    <2>3. m \in Nat
      BY <2>2
    <2>4. QED
      BY <1>4, <2>1, <2>3
  <1>6. /\ Head(work) \in Seq(Nat) /\ Tail(work) \in Seq(Seq(Nat))
        /\ FlattenSeq(work) = Head(work) \o FlattenSeq(Tail(work))
    BY <1>2, <1>3, FlattenTail
  <1>7. FlattenSeq(Tail(work)) \in Seq(Nat)
    BY <1>6, Flattened
  <1>8. /\ Len(FlattenSeq(work)) = Len(Head(work)) + Len(FlattenSeq(Tail(work)))
        /\ ToSet(FlattenSeq(work)) = ToSet(Head(work)) \cup ToSet(FlattenSeq(Tail(work)))
    BY <1>6, <1>7, JoinedSet
  <1>9. /\ changes' \in Seq(Nat) /\ Len(changes') = Len(changes) + Len(entries)
        /\ ToSet(changes') = ToSet(changes) \cup ToSet(entries)
    BY <1>1, <1>3, <1>5, JoinedSet
  <1>10. Len(entries) = Len(Head(work)) /\ ToSet(entries) = ToSet(Head(work))
    BY <1>1 DEF Covers
  <1>11. Whole'
    <2>1. /\ Len(changes) \in Nat /\ Len(entries) \in Nat /\ Len(FlattenSeq(Tail(work))) \in Nat
      BY <1>3, <1>5, <1>7
    <2>2. Len(changes') + Len(FlattenSeq(work')) = Len(sizes')
      BY <1>2, <1>3, <1>8, <1>9, <1>10, <2>1 DEF Whole
    <2>3. ToSet(changes') \cup ToSet(FlattenSeq(work')) = 1 .. Len(sizes')
      BY <1>2, <1>3, <1>8, <1>9, <1>10 DEF Whole
    <2>4. QED
      BY <2>2, <2>3 DEF Whole
  <1>12. QED
    BY <1>2, <1>3, <1>6, <1>9, <1>11 DEF NotesInv

(* The two halves of a batch are the batch.                                *)
LEMMA HalvesHold ==
    ASSUME NEW batch \in Seq(Nat), Len(batch) >= 2
    PROVE  \E a, b \in Seq(Nat) :
             Halves(batch) = <<a, b>> /\ Len(a) + Len(b) = Len(batch)
             /\ ToSet(a) \cup ToSet(b) = ToSet(batch)
  <1>1. PICK n \in Nat : Len(batch) = n /\ n >= 2
    OBVIOUS
  <1>2. PICK middle \in Nat : middle = (n + 1) \div 2 /\ 1 <= middle /\ middle <= n
    <2>1. (n + 1) \div 2 \in Nat /\ 1 <= (n + 1) \div 2 /\ (n + 1) \div 2 <= n
      BY <1>1
    <2>2. QED
      BY <2>1
  <1> DEFINE a == SubSeq(batch, 1, middle)
             b == SubSeq(batch, middle + 1, n)
  <1>3. Halves(batch) = <<a, b>>
    BY <1>1, <1>2 DEF Halves
  <1>4. /\ a \in Seq(Nat) /\ Len(a) = middle /\ b \in Seq(Nat) /\ Len(b) = n - middle
        /\ \A i \in 1 .. middle : a[i] = batch[i]
        /\ \A i \in 1 .. n - middle : b[i] = batch[middle + i]
    BY <1>1, <1>2
  <1> HIDE DEF a, b
  <1>5. ToSet(a) \cup ToSet(b) = ToSet(batch)
    <2>1. DOMAIN a = 1 .. middle /\ DOMAIN b = 1 .. n - middle /\ DOMAIN batch = 1 .. n
      BY <1>1, <1>4
    <2>2. ASSUME NEW i \in 1 .. n
          PROVE  i \in 1 .. middle \/ \E j \in 1 .. n - middle : i = middle + j
      <3>1. i \in 1 .. middle \/ (i - middle \in 1 .. n - middle /\ i = middle + (i - middle))
        BY <1>2
      <3>2. QED
        BY <3>1
    <2>3. \A i \in 1 .. n - middle : middle + i \in 1 .. n
      BY <1>2
    <2>4. \A i \in 1 .. middle : i \in 1 .. n
      BY <1>2
    <2>5. ASSUME NEW x \in ToSet(batch)
          PROVE  x \in ToSet(a) \cup ToSet(b)
      <3>1. PICK i \in 1 .. n : x = batch[i]
        BY <2>1 DEF ToSet
      <3>2. CASE i \in 1 .. middle
        BY <1>4, <2>1, <3>1, <3>2 DEF ToSet
      <3>3. CASE \E j \in 1 .. n - middle : i = middle + j
        BY <1>4, <2>1, <3>1, <3>3 DEF ToSet
      <3>4. QED
        BY <2>2, <3>2, <3>3
    <2>6. \A x \in ToSet(a) : x \in ToSet(batch)
      BY <1>4, <2>1, <2>4 DEF ToSet
    <2>7. \A x \in ToSet(b) : x \in ToSet(batch)
      BY <1>4, <2>1, <2>3 DEF ToSet
    <2>8. QED
      BY <2>5, <2>6, <2>7
  <1>6. Len(a) + Len(b) = Len(batch)
    BY <1>1, <1>2, <1>4
  <1>7. QED
    BY <1>3, <1>4, <1>5, <1>6

LEMMA SplitKeeps ==
    ASSUME NotesInv, work # <<>>, Len(Head(work)) >= 2, work' = Halves(Head(work)) \o Tail(work),
           stage' = stage, sizes' = sizes, changes' = changes, stage \in Running
    PROVE  NotesInv'
  <1>1. sizes \in Seq(Nat) /\ changes \in Seq(Nat) /\ work \in Seq(Seq(Nat)) /\ Whole
    BY DEF NotesInv
  <1> DEFINE head == Head(work)
             tail == Tail(work)
  <1>2. head \in Seq(Nat) /\ tail \in Seq(Seq(Nat)) /\ FlattenSeq(work) = head \o FlattenSeq(tail)
    BY <1>1, FlattenTail
  <1>3. PICK a, b \in Seq(Nat) : /\ Halves(head) = <<a, b>> /\ Len(a) + Len(b) = Len(head)
                                 /\ ToSet(a) \cup ToSet(b) = ToSet(head)
    BY <1>2, HalvesHold
  <1>4. FlattenSeq(tail) \in Seq(Nat)
    BY <1>2, Flattened
  <1>5. PICK one \in Seq(Seq(Nat)) : one = <<b>> \o tail /\ FlattenSeq(one) = b \o FlattenSeq(tail)
    <2> DEFINE one == <<b>> \o tail
    <2> HIDE DEF head, tail
    <2>1. /\ one \in Seq(Seq(Nat)) /\ Len(one) = Len(tail) + 1 /\ one[1] = b
          /\ \A k \in 1 .. Len(tail) : one[k + 1] = tail[k]
      BY <1>2
    <2> HIDE DEF one
    <2>2. FlattenSeq(one) = one[1] \o FlattenSeq(tail)
      BY <1>2, <2>1, FlattenFirst
    <2>3. QED
      BY <2>1, <2>2 DEF one
  <1>6. work' \in Seq(Seq(Nat)) /\ FlattenSeq(work') = a \o FlattenSeq(one)
    <2> DEFINE both == <<a, b>> \o tail
    <2> HIDE DEF head, tail
    <2>1. /\ both \in Seq(Seq(Nat)) /\ Len(both) = Len(one) + 1 /\ both[1] = a
          /\ \A k \in 1 .. Len(one) : both[k + 1] = one[k]
      BY <1>2, <1>5
    <2> HIDE DEF both
    <2>2. FlattenSeq(both) = both[1] \o FlattenSeq(one)
      BY <1>5, <2>1, FlattenFirst
    <2>3. work' = both
      BY <1>3 DEF both, head, tail
    <2>4. QED
      BY <2>1, <2>2, <2>3
  <1> HIDE DEF head, tail
  <1>7. /\ Len(FlattenSeq(work')) = Len(a) + Len(b) + Len(FlattenSeq(tail))
        /\ ToSet(FlattenSeq(work')) = ToSet(a) \cup ToSet(b) \cup ToSet(FlattenSeq(tail))
    <2>1. /\ b \o FlattenSeq(tail) \in Seq(Nat)
          /\ Len(b \o FlattenSeq(tail)) = Len(b) + Len(FlattenSeq(tail))
          /\ ToSet(b \o FlattenSeq(tail)) = ToSet(b) \cup ToSet(FlattenSeq(tail))
      BY <1>4, JoinedSet
    <2>2. PICK rest \in Seq(Nat) : rest = FlattenSeq(one)
      BY <1>5, <2>1
    <2>3. /\ Len(a \o rest) = Len(a) + Len(rest)
          /\ ToSet(a \o rest) = ToSet(a) \cup ToSet(rest)
      BY JoinedSet
    <2>4. Len(a) \in Nat /\ Len(b) \in Nat /\ Len(FlattenSeq(tail)) \in Nat
      BY <1>3, <1>4
    <2>5. /\ Len(rest) = Len(b) + Len(FlattenSeq(tail))
          /\ ToSet(rest) = ToSet(b) \cup ToSet(FlattenSeq(tail))
      BY <1>5, <2>1, <2>2
    <2>6. FlattenSeq(work') = a \o rest
      BY <1>6, <2>2
    <2>7. Len(FlattenSeq(work')) = Len(a) + Len(b) + Len(FlattenSeq(tail))
      BY <2>3, <2>4, <2>5, <2>6
    <2>8. QED
      BY <2>3, <2>5, <2>6, <2>7
  <1>8. /\ Len(FlattenSeq(work)) = Len(a) + Len(b) + Len(FlattenSeq(tail))
        /\ ToSet(FlattenSeq(work)) = ToSet(a) \cup ToSet(b) \cup ToSet(FlattenSeq(tail))
    BY <1>2, <1>3, <1>4, JoinedSet
  <1>9. Whole'
    BY <1>1, <1>7, <1>8 DEF Whole
  <1>10. QED
    BY <1>1, <1>6, <1>9 DEF NotesInv

LEMMA FallbackKeeps == ASSUME NotesInv, Fallback PROVE NotesInv'
  BY NotesStay DEF Fallback, Running

LEMMA NotesStepKeeps == ASSUME NotesInv, NotesStep PROVE NotesInv'
  <1>1. CASE Reviewed
    BY <1>1, ReviewedKeeps
  <1>2. CASE RetryReview
    BY <1>2, NotesStay DEF RetryReview, Running
  <1>3. CASE ReviewFails
    <2>1. CASE Fallback
      BY <2>1, FallbackKeeps
    <2>2. CASE ~Fallback
      BY <1>3, <2>2, SplitKeeps DEF ReviewFails, Recoverable, Running
    <2>3. QED
      BY <2>1, <2>2
  <1>4. CASE ReviewEnds
    BY <1>4, NotesStay DEF ReviewEnds, Running
  <1>5. CASE Merge
    BY <1>5, NotesStay DEF Merge, GroupDone, Running
  <1>6. CASE MergeInvalid
    BY <1>6, NotesStay, FallbackKeeps DEF MergeInvalid, Running
  <1>7. CASE MergeFails
    BY <1>7, NotesStay, FallbackKeeps DEF MergeFails, Running
  <1>8. CASE RoundEnds
    BY <1>8, NotesStay, FallbackKeeps DEF RoundEnds, Running
  <1>9. CASE Written
    BY <1>9, NotesStay, FallbackKeeps DEF Written, Running
  <1>10. QED
    BY <1>1, <1>2, <1>3, <1>4, <1>5, <1>6, <1>7, <1>8, <1>9 DEF NotesStep

(* What a step of the world does to the notes.                             *)
LEMMA WriteNotesKeeps == ASSUME NotesInv, NEW w, WriteNotes(w) PROVE NotesInv'
  <1>1. PICK body \in Bodies, key \in BOOLEAN : NotesStart(Found(w, body), w = "stable", key)
    BY DEF WriteNotes
  <1>2. body \in Seq(Nat)
    BY ReleaseAssumption DEF ReleaseAssumption
  <1>3. Found(w, body) \in Seq(Nat)
    BY <1>2 DEF Found
  <1>4. QED
    BY <1>1, <1>3, StartKeeps

LEMMA NotesKeep == ASSUME NotesInv, [Next]_vars PROVE NotesInv'
  <1>1. CASE UNCHANGED notes
    BY <1>1, NotesStay DEF notes, NotesInv, Whole
  <1>2. CASE NotesStop
    BY <1>2, StopKeeps
  <1>3. CASE Generate
    BY <1>3, NotesStepKeeps DEF Generate
  <1>4. CASE Outside
    BY <1>1, <1>2, <1>4 DEF Outside, Sync, Tomorrow, StartStable, StartRun
  <1>5. ASSUME NEW w \in Workflows, Step(w)
        PROVE  NotesInv'
    BY <1>2, <1>5, WriteNotesKeeps DEF Step, Publish, RunFails
  <1>6. QED
    BY <1>1, <1>3, <1>4, <1>5 DEF Next, vars

(* However the descriptions are batched, retried and split, each is        *)
(* rewritten or waits, in one place.                                       *)
THEOREM ChangesOnce == Spec => []EveryChangeOnce
  <1>1. Init => NotesInv
    BY DEF Init, NotesInit, NotesInv, Running
  <1>2. NotesInv /\ [Next]_vars => NotesInv'
    BY NotesKeep
  <1>3. NotesInv => EveryChangeOnce
    <2> SUFFICES ASSUME NotesInv, stage \in Running \cup {"written"}
                 PROVE  /\ Len(changes \o FlattenSeq(work)) = Len(sizes)
                        /\ ToSet(changes \o FlattenSeq(work)) = ToSet(Ids)
      BY DEF EveryChangeOnce
    <2>1. sizes \in Seq(Nat) /\ changes \in Seq(Nat) /\ work \in Seq(Seq(Nat)) /\ Whole
      BY DEF NotesInv
    <2>2. FlattenSeq(work) \in Seq(Nat)
      BY <2>1, Flattened
    <2>3. /\ Len(changes \o FlattenSeq(work)) = Len(changes) + Len(FlattenSeq(work))
          /\ ToSet(changes \o FlattenSeq(work)) = ToSet(changes) \cup ToSet(FlattenSeq(work))
      BY <2>1, <2>2, JoinedSet
    <2>4. ToSet(Ids) = 1 .. Len(sizes)
      BY <2>1 DEF Ids, ToSet
    <2>5. QED
      BY <2>1, <2>3, <2>4 DEF Whole
  <1>4. QED
    BY <1>1, <1>2, <1>3, PTL DEF Spec

-----------------------------------------------------------------------------
(* The world of the releases.                                              *)

AnyVersion == [minor : Nat, patch : Nat, prerelease : Seq([numeric : BOOLEAN, value : Nat])]
Stable == [minor : Nat, patch : Nat, prerelease : {<<>>}]
Job == [step : {"none", "checkout", "writing"}, run : Nat, commit : Nat, listed : BOOLEAN,
        version : AnyVersion]

AtMost(v, w) == v.minor < w.minor \/ (v.minor = w.minor /\ v.patch <= w.patch)

(* The stable releases from the base of v up to the patch n are out.       *)
Taken(v, n) == \A p \in v.patch .. n : Version(v.minor, p, <<>>) \in PublishedSet

(* A stable version is behind the head, or between it and the head there   *)
(* is no gap for another.                                                  *)
Follows(v, n) ==
    LET head == commits[Newest]
    IN  \/ v.minor < head.minor
        \/ v.minor = head.minor /\ (v.patch < head.patch \/ Taken(head, n))

(* What a run may have called its build, ever since.                       *)
Made(v, run) ==
    LET tree == commits[runs[run]]
    IN  \E date \in 0 .. day, patch \in Nat :
          /\ v = Version(tree.minor, patch, <<Word("nightly"), Number(date), Number(run)>>)
          /\ tree.patch <= patch
          /\ Taken(tree, patch - 1)

Typed ==
    /\ commits \in Seq(Stable) /\ commits # <<>>
    /\ runs \in Seq(DOMAIN commits)
    /\ day \in Nat
    /\ published \in Seq(AnyVersion)
    /\ job \in [Workflows -> Job]

(* The jobs j under way, and the builds there have been.                   *)
StableOk(j) == j.step # "none" => IsStable(j.version) /\ Follows(j.version, j.version.patch - 1)
NightlyOk(j) ==
    /\ j.step # "none" => j.run \in DOMAIN runs /\ j.commit = runs[j.run]
    /\ j.step = "writing" => Made(j.version, j.run)
BuildOk(b) == b.run \in DOMAIN runs /\ Made(b.version, b.run)

WorldInv ==
    /\ Typed
    /\ \A i, j \in DOMAIN commits : i <= j => AtMost(commits[i], commits[j])
    /\ \A i, j \in DOMAIN runs : i <= j => runs[i] <= runs[j]
    /\ \A v \in PublishedSet : IsStable(v) => Follows(v, v.patch)
    /\ StableOk(job["stable"]) /\ NightlyOk(job["nightly"])
    /\ \A b \in built : BuildOk(b)

LEMMA StableFacts ==
    ASSUME NEW v \in Stable
    PROVE  /\ v \in AnyVersion /\ IsStable(v) /\ v.minor \in Nat /\ v.patch \in Nat
           /\ v = Version(v.minor, v.patch, <<>>)
  <1>1. <<>> \in Seq([numeric : BOOLEAN, value : Nat])
    BY EmptySeq
  <1>2. QED
    BY <1>1 DEF Stable, AnyVersion, IsStable, Version

LEMMA StableIs ==
    ASSUME NEW v \in AnyVersion, IsStable(v)
    PROVE  v \in Stable
  BY DEF Stable, AnyVersion, IsStable

LEMMA HeadIs ==
    ASSUME Typed
    PROVE  /\ Newest \in Nat /\ Newest >= 1 /\ Newest \in DOMAIN commits /\ DOMAIN commits = 1 .. Newest
           /\ commits[Newest] \in Stable /\ \A i \in DOMAIN commits : commits[i] \in Stable
  BY DEF Typed, Newest

LEMMA PublishedAre ==
    ASSUME Typed
    PROVE  PublishedSet \subseteq AnyVersion /\ IsFiniteSet(PublishedSet)
  <1>1. published \in Seq(AnyVersion) /\ Len(published) \in Nat /\ DOMAIN published = 1 .. Len(published)
    BY DEF Typed
  <1>2. PublishedSet \subseteq AnyVersion
    BY <1>1 DEF PublishedSet, ToSet
  <1>3. published \in Surjection(1 .. Len(published), PublishedSet)
    BY <1>1 DEF Surjection, PublishedSet, ToSet
  <1>4. IsFiniteSet(1 .. Len(published))
    BY <1>1, FS_Interval
  <1>5. QED
    BY <1>2, <1>3, <1>4, FS_Surjection

(* The base is the first patch that is not out.                            *)
LEMMA BaseIsFree ==
    ASSUME NEW tree \in Stable, NEW out \in SUBSET AnyVersion, IsFiniteSet(out)
    PROVE  \E patch \in Nat :
             /\ ResolveBase(tree, out) = Version(tree.minor, patch, <<>>)
             /\ tree.patch <= patch
             /\ Version(tree.minor, patch, <<>>) \notin out
             /\ \A p \in tree.patch .. patch - 1 : Version(tree.minor, p, <<>>) \in out
  <1> DEFINE here == {w \in out : IsStable(w) /\ w.minor = tree.minor}
             taken == {v.patch : v \in here}
             c == Cardinality(taken)
             free == (tree.patch .. tree.patch + c) \ taken
  <1>1. tree.patch \in Nat /\ tree.minor \in Nat
    BY StableFacts
  <1>2. IsFiniteSet(here)
    BY FS_Subset
  <1>3. taken \subseteq Nat
    BY DEF AnyVersion
  <1>4. IsFiniteSet(taken)
    <2> DEFINE f == [v \in here |-> v.patch]
    <2>1. f \in Surjection(here, taken)
      BY DEF Surjection
    <2> HIDE DEF f, here, taken
    <2>2. QED
      BY <1>2, <2>1, FS_Surjection
  <1>5. c \in Nat
    <2> HIDE DEF taken
    <2> QED
      BY <1>4, FS_CardinalityType
  <1>6. ASSUME NEW p \in Nat
        PROVE  p \in taken <=> Version(tree.minor, p, <<>>) \in out
    <2>1. ASSUME p \in taken
          PROVE  Version(tree.minor, p, <<>>) \in out
      <3>1. PICK v \in out : IsStable(v) /\ v.minor = tree.minor /\ v.patch = p
        BY <2>1
      <3>2. v \in Stable
        BY <3>1, StableIs
      <3>3. QED
        BY <3>1, <3>2, StableFacts
    <2>2. ASSUME Version(tree.minor, p, <<>>) \in out
          PROVE  p \in taken
      <3>1. Version(tree.minor, p, <<>>) \in here /\ Version(tree.minor, p, <<>>).patch = p
        BY <2>2 DEF Version, IsStable
      <3>2. QED
        BY <3>1
    <2>3. QED
      BY <2>1, <2>2
  <1> HIDE DEF taken, here
  <1>7. free # {}
    <2> DEFINE range == tree.patch .. tree.patch + c
    <2> SUFFICES ASSUME free = {}
                 PROVE  FALSE
      OBVIOUS
    <2>1. range \subseteq taken
      OBVIOUS
    <2>2. PICK a \in Nat, b \in Nat : a = tree.patch /\ b = tree.patch + c /\ a <= b /\ b - a + 1 = c + 1
      BY <1>1, <1>5
    <2>3. range = a .. b
      BY <2>2
    <2>4. Cardinality(a .. b) = b - a + 1
      <3>1. a \in Int /\ b \in Int
        BY <2>2
      <3>2. Cardinality(a .. b) = IF a > b THEN 0 ELSE b - a + 1
        BY <3>1, FS_Interval
      <3>3. QED
        BY <2>2, <3>2
    <2> HIDE DEF range
    <2>5. Cardinality(range) <= Cardinality(taken)
      BY <1>4, <2>1, FS_Subset
    <2>6. QED
      BY <1>5, <2>2, <2>3, <2>4, <2>5
  <1>8. free \subseteq Nat
    BY <1>1, <1>5
  <1>9. PICK patch \in free : \A q \in free : patch <= q
    <2> HIDE DEF free
    <2> QED
      BY <1>7, <1>8, Least
  <1>10. Min(free) = patch
    <2> DEFINE m == Min(free)
    <2>1. m \in free /\ \A q \in free : m <= q
      <3> HIDE DEF free
      <3> QED
        BY <1>9 DEF Min
    <2>2. m <= patch /\ patch <= m /\ m \in Nat /\ patch \in Nat
      BY <1>8, <1>9, <2>1
    <2> HIDE DEF m
    <2>3. m = patch
      BY <2>2
    <2>4. QED
      BY <2>3 DEF m
  <1>11. ResolveBase(tree, out) = Version(tree.minor, patch, <<>>)
    BY <1>10 DEF ResolveBase, taken, here
  <1>12. patch \in Nat /\ tree.patch <= patch /\ patch <= tree.patch + c /\ patch \notin taken
    BY <1>1, <1>5, <1>9
  <1>13. ASSUME NEW p \in tree.patch .. patch - 1
         PROVE  Version(tree.minor, p, <<>>) \in out
    <2>1. p \in Nat /\ p < patch /\ p \in tree.patch .. tree.patch + c
      BY <1>1, <1>5, <1>12
    <2>2. p \in taken
      BY <1>8, <1>9, <2>1
    <2>3. QED
      BY <1>6, <2>1, <2>2
  <1>14. QED
    BY <1>6, <1>11, <1>12, <1>13

(* Nothing that a step does takes from what has been made.                 *)
Grows ==
    /\ \A i \in DOMAIN commits : i \in DOMAIN commits' /\ commits'[i] = commits[i]
    /\ \A n \in DOMAIN runs : n \in DOMAIN runs' /\ runs'[n] = runs[n]
    /\ day' \in Nat /\ day <= day'
    /\ \A v \in PublishedSet : IsStable(v) => v \in PublishedSet'

LEMMA TakenStays ==
    ASSUME \A v \in PublishedSet : IsStable(v) => v \in PublishedSet', NEW v, NEW n, Taken(v, n)
    PROVE  \A p \in v.patch .. n : Version(v.minor, p, <<>>) \in PublishedSet'
  BY DEF Taken, Version, IsStable

LEMMA MadeStays ==
    ASSUME Typed, Grows, NEW run \in DOMAIN runs, NEW v, Made(v, run)
    PROVE  run \in DOMAIN runs' /\ Made(v, run)'
  <1>1. PICK tree : tree = commits[runs[run]]
    OBVIOUS
  <1>2. runs[run] \in DOMAIN commits /\ run \in DOMAIN runs' /\ commits'[runs'[run]] = tree
    BY <1>1 DEF Typed, Grows
  <1>3. PICK date \in 0 .. day, patch \in Nat :
          /\ v = Version(tree.minor, patch, <<Word("nightly"), Number(date), Number(run)>>)
          /\ tree.patch <= patch
          /\ Taken(tree, patch - 1)
    BY <1>1 DEF Made
  <1>4. date \in 0 .. day'
    BY DEF Typed, Grows
  <1>5. \A p \in tree.patch .. patch - 1 : Version(tree.minor, p, <<>>) \in PublishedSet'
    BY <1>3, TakenStays DEF Grows
  <1>6. QED
    BY <1>2, <1>3, <1>4, <1>5 DEF Made, Taken

LEMMA FollowsStays ==
    ASSUME Grows, commits' = commits, NEW v, NEW n, Follows(v, n)
    PROVE  Follows(v, n)'
  <1>1. PICK head : head = commits[Newest] /\ head = commits'[Newest']
    BY DEF Newest
  <1>2. Taken(head, n) => \A p \in head.patch .. n : Version(head.minor, p, <<>>) \in PublishedSet'
    BY TakenStays DEF Grows
  <1>3. QED
    BY <1>1, <1>2 DEF Follows, Taken

LEMMA JobsStay ==
    ASSUME Typed, Grows, commits' = commits, NEW j
    PROVE  /\ StableOk(j) => StableOk(j)'
           /\ NightlyOk(j) => NightlyOk(j)'
           /\ BuildOk(j) => BuildOk(j)'
  <1>1. StableOk(j) => StableOk(j)'
    BY FollowsStays DEF StableOk
  <1>2. NightlyOk(j) => NightlyOk(j)'
    BY MadeStays DEF NightlyOk, Grows
  <1>3. BuildOk(j) => BuildOk(j)'
    BY MadeStays DEF BuildOk
  <1>4. QED
    BY <1>1, <1>2, <1>3

(* A step that leaves the commits as they are.                             *)
LEMMA WorldKeeps ==
    ASSUME WorldInv, Grows, commits' = commits, Typed',
           \A i, j \in DOMAIN runs' : i <= j => runs'[i] <= runs'[j],
           \A v \in PublishedSet' \ PublishedSet : IsStable(v) => Follows(v, v.patch)',
           job'["stable"] = job["stable"] \/ StableOk(job["stable"])',
           job'["nightly"] = job["nightly"] \/ NightlyOk(job["nightly"])',
           \A b \in built' \ built : BuildOk(b)'
    PROVE  WorldInv'
  <1>1. Typed
    BY DEF WorldInv
  <1>2. \A i, j \in DOMAIN commits' : i <= j => AtMost(commits'[i], commits'[j])
    BY DEF WorldInv
  <1>3. ASSUME NEW v \in PublishedSet', IsStable(v)
        PROVE  Follows(v, v.patch)'
    <2>1. CASE v \in PublishedSet
      <3>1. Follows(v, v.patch)
        BY <1>3, <2>1 DEF WorldInv
      <3>2. QED
        BY <3>1, FollowsStays
    <2>2. QED
      BY <1>3, <2>1
  <1>4. StableOk(job["stable"])'
    <2>1. PICK j : j = job["stable"]
      OBVIOUS
    <2>2. StableOk(j)'
      BY <1>1, <2>1, JobsStay DEF WorldInv
    <2>3. CASE job'["stable"] = job["stable"]
      BY <2>1, <2>2, <2>3 DEF StableOk
    <2>4. QED
      BY <2>3
  <1>5. NightlyOk(job["nightly"])'
    <2>1. PICK j : j = job["nightly"]
      OBVIOUS
    <2>2. NightlyOk(j)'
      BY <1>1, <2>1, JobsStay DEF WorldInv
    <2>3. CASE job'["nightly"] = job["nightly"]
      BY <2>1, <2>2, <2>3 DEF NightlyOk
    <2>4. QED
      BY <2>3
  <1>6. ASSUME NEW b \in built'
        PROVE  BuildOk(b)'
    BY <1>1, JobsStay DEF WorldInv
  <1>7. QED
    BY <1>2, <1>3, <1>4, <1>5, <1>6 DEF WorldInv

(* A commit more: the head moves ahead, and what followed the old one      *)
(* follows the new one.                                                    *)
LEMMA SyncKeeps == ASSUME WorldInv, Sync PROVE WorldInv'
  <1>1. PICK v \in InTree :
          /\ v = commits[Newest] \/ Precedes(commits[Newest], v)
          /\ commits' = Append(commits, v)
    BY DEF Sync
  <1>2. /\ runs' = runs /\ day' = day /\ published' = published /\ job' = job /\ built' = built
        /\ PublishedSet' = PublishedSet
    BY DEF Sync, PublishedSet
  <1>3. Typed
    BY DEF WorldInv
  <1>4. v \in Stable
    BY ReleaseAssumption DEF ReleaseAssumption, Stable
  <1>5. PICK n \in Nat : /\ n = Newest /\ n >= 1 /\ DOMAIN commits = 1 .. n
                         /\ \A i \in 1 .. n : commits[i] \in Stable
    BY <1>3, HeadIs
  <1>6. /\ commits' \in Seq(Stable) /\ Newest' = n + 1 /\ DOMAIN commits' = 1 .. n + 1
        /\ commits'[n + 1] = v /\ \A i \in 1 .. n : commits'[i] = commits[i]
    BY <1>1, <1>3, <1>4, <1>5 DEF Typed, Newest
  <1>7. AtMost(commits[n], v)
    <2>1. commits[n] \in Stable /\ n = Newest
      BY <1>5
    <2>2. ASSUME NEW a \in Stable, Precedes(a, v)
          PROVE  AtMost(a, v)
      <3>1. a.minor \in Nat /\ a.patch \in Nat /\ a.prerelease = <<>> /\ v.prerelease = <<>>
        BY <1>4 DEF Stable
      <3>2. ~PrereleaseBefore(a.prerelease, v.prerelease)
        BY <3>1 DEF PrereleaseBefore
      <3>3. v.minor \in Nat /\ v.patch \in Nat
        BY <1>4, StableFacts
      <3>4. QED
        BY <2>2, <3>1, <3>2, <3>3 DEF Precedes, AtMost
    <2>3. QED
      <3>1. CASE v = commits[Newest]
        BY <1>4, <2>1, <3>1, StableFacts DEF AtMost
      <3>2. CASE Precedes(commits[Newest], v)
        BY <2>1, <2>2, <3>2
      <3>3. QED
        BY <1>1, <3>1, <3>2
  <1>8. Typed'
    <2>1. runs \in Seq(1 .. n + 1)
      <3>1. runs \in Seq(1 .. n) /\ 1 .. n \subseteq 1 .. n + 1
        BY <1>3, <1>5 DEF Typed
      <3>2. QED
        BY <3>1
    <2>2. commits' # <<>>
      BY <1>6
    <2>3. QED
      BY <1>2, <1>3, <1>6, <2>1, <2>2 DEF Typed
  <1>9. Grows
    <2>1. \A i \in 1 .. n : i \in 1 .. n + 1
      BY <1>5
    <2>2. QED
      BY <1>2, <1>3, <1>5, <1>6, <2>1 DEF Grows, Typed
  <1>10. ASSUME NEW i \in DOMAIN commits', NEW j \in DOMAIN commits', i <= j
         PROVE  AtMost(commits'[i], commits'[j])
    <2>1. CASE j \in 1 .. n
      <3>1. i \in 1 .. n
        BY <1>6, <1>10, <2>1
      <3>2. QED
        BY <1>5, <1>6, <1>10, <2>1, <3>1 DEF WorldInv
    <2>2. CASE i \in 1 .. n /\ j = n + 1
      <3>1. AtMost(commits[i], commits[n])
        <4>1. i <= n /\ n \in 1 .. n
          BY <1>5, <2>2
        <4>2. QED
          BY <1>5, <2>2, <4>1 DEF WorldInv
      <3>2. /\ commits[i] \in Stable /\ commits[n] \in Stable
            /\ commits'[i] = commits[i] /\ commits'[j] = v
        BY <1>5, <1>6, <2>2
      <3>3. AtMost(commits[i], v)
        BY <1>4, <1>7, <3>1, <3>2, StableFacts DEF AtMost
      <3>4. QED
        BY <3>2, <3>3
    <2>3. CASE i = n + 1 /\ j = n + 1
      BY <1>4, <1>6, <2>3, StableFacts DEF AtMost
    <2>4. QED
      BY <1>5, <1>6, <1>10, <2>1, <2>2, <2>3
  <1>11. ASSUME NEW u, NEW k \in Int, u.minor \in Nat, u.patch \in Nat, Follows(u, k)
         PROVE  Follows(u, k)'
    <2>1. PICK head \in Stable : head = commits[Newest] /\ AtMost(head, v)
      BY <1>5, <1>7
    <2>2. /\ head.minor \in Nat /\ head.patch \in Nat /\ v.minor \in Nat /\ v.patch \in Nat
      BY <1>4, <2>1, StableFacts
    <2>3. commits'[Newest'] = v
      BY <1>6
    <2>4. CASE u.minor < head.minor \/ v.minor > head.minor
      <3>1. u.minor < v.minor
        BY <1>11, <2>1, <2>2, <2>4 DEF Follows, AtMost
      <3>2. QED
        BY <2>3, <3>1 DEF Follows
    <2>5. CASE u.minor = head.minor /\ v.minor = head.minor /\ head.patch <= v.patch
      <3>1. CASE u.patch < head.patch
        <4>1. u.patch < v.patch
          BY <1>11, <2>2, <2>5, <3>1
        <4>2. QED
          BY <2>3, <2>5, <4>1 DEF Follows
      <3>2. CASE Taken(head, k)
        <4>1. \A p \in v.patch .. k : p \in head.patch .. k
          BY <2>2, <2>5
        <4>2. Taken(v, k)
          BY <2>5, <3>2, <4>1 DEF Taken
        <4>3. Taken(v, k)'
          BY <1>2, <4>2 DEF Taken
        <4>4. QED
          BY <2>3, <2>5, <4>3 DEF Follows
      <3>3. QED
        BY <1>11, <2>1, <2>2, <2>5, <3>1, <3>2 DEF Follows
    <2>6. QED
      BY <1>11, <2>1, <2>2, <2>4, <2>5 DEF Follows, AtMost
  <1>12. ASSUME NEW u \in PublishedSet', IsStable(u)
         PROVE  Follows(u, u.patch)'
    <2>1. u \in AnyVersion /\ Follows(u, u.patch)
      BY <1>2, <1>3, <1>12, PublishedAre DEF WorldInv
    <2>2. u.minor \in Nat /\ u.patch \in Nat /\ u.patch \in Int
      BY <2>1 DEF AnyVersion
    <2>3. QED
      BY <1>11, <2>1, <2>2
  <1>13. StableOk(job["stable"])'
    <2>1. PICK u \in AnyVersion : u = job["stable"].version
      BY <1>3 DEF Typed, Workflows, Job
    <2>2. u.minor \in Nat /\ u.patch \in Nat /\ u.patch - 1 \in Int
      BY <2>1 DEF AnyVersion
    <2>3. job["stable"].step # "none" => IsStable(u) /\ Follows(u, u.patch - 1)
      BY <2>1 DEF WorldInv, StableOk
    <2>4. Follows(u, u.patch - 1) => Follows(u, u.patch - 1)'
      BY <1>11, <2>2
    <2>5. QED
      BY <1>2, <2>1, <2>3, <2>4 DEF StableOk
  <1>14. NightlyOk(job["nightly"])'
    <2>1. PICK j : j = job["nightly"] /\ j = job'["nightly"]
      BY <1>2
    <2>2. NightlyOk(j)
      BY <2>1 DEF WorldInv
    <2>3. NightlyOk(j)'
      BY <1>3, <1>9, <2>2, MadeStays DEF NightlyOk, Grows
    <2>4. QED
      BY <2>1, <2>3 DEF NightlyOk
  <1>15. ASSUME NEW b \in built'
         PROVE  BuildOk(b)'
    BY <1>2, <1>3, <1>9, MadeStays DEF WorldInv, BuildOk
  <1>16. \A i, j \in DOMAIN runs' : i <= j => runs'[i] <= runs'[j]
    BY <1>2 DEF WorldInv
  <1>17. QED
    BY <1>8, <1>10, <1>12, <1>13, <1>14, <1>15, <1>16 DEF WorldInv

(* A step that leaves everything but the jobs and what they build.         *)
LEMMA JobFacts ==
    ASSUME Typed
    PROVE  /\ Workflows = {"nightly", "stable"} /\ NoJob \in Job /\ NoJob.step = "none"
           /\ \A w \in Workflows : job[w] \in Job
           /\ \A w \in Workflows : \A new \in Job : [job EXCEPT ![w] = new] \in [Workflows -> Job]
           /\ \A new : [job EXCEPT !["stable"] = new]["nightly"] = job["nightly"]
                       /\ [job EXCEPT !["stable"] = new]["stable"] = new
           /\ \A new : [job EXCEPT !["nightly"] = new]["stable"] = job["stable"]
                       /\ [job EXCEPT !["nightly"] = new]["nightly"] = new
  <1>1. <<>> \in Seq([numeric : BOOLEAN, value : Nat])
    BY EmptySeq
  <1>2. NoJob \in Job /\ NoJob.step = "none"
    BY <1>1 DEF NoJob, Job, AnyVersion, Version
  <1>3. job \in [Workflows -> Job] /\ Workflows = {"nightly", "stable"}
    BY DEF Typed, Workflows
  <1>4. QED
    BY <1>2, <1>3

LEMMA TomorrowKeeps == ASSUME WorldInv, Tomorrow PROVE WorldInv'
  <1>1. /\ commits' = commits /\ runs' = runs /\ day' = day + 1 /\ published' = published
        /\ job' = job /\ built' = built /\ PublishedSet' = PublishedSet
    BY DEF Tomorrow, PublishedSet
  <1>2. Typed /\ Typed' /\ Grows
    BY <1>1 DEF WorldInv, Typed, Grows
  <1>3. QED
    BY <1>1, <1>2, WorldKeeps DEF WorldInv

(* A step that changes jobs alone.                                         *)
LEMMA JobsOnly ==
    ASSUME WorldInv, UNCHANGED <<commits, published, runs, day, built>>,
           job' \in [Workflows -> Job],
           job'["stable"] = job["stable"] \/ StableOk(job["stable"])',
           job'["nightly"] = job["nightly"] \/ NightlyOk(job["nightly"])'
    PROVE  WorldInv'
  <1>1. /\ commits' = commits /\ runs' = runs /\ day' = day /\ published' = published
        /\ built' = built /\ PublishedSet' = PublishedSet
    BY DEF PublishedSet
  <1>2. Typed /\ Typed' /\ Grows
    BY <1>1 DEF WorldInv, Typed, Grows
  <1>3. QED
    BY <1>1, <1>2, WorldKeeps DEF WorldInv

LEMMA StartStableKeeps == ASSUME WorldInv, StartStable PROVE WorldInv'
  <1>1. PICK v \in {commits[Newest], ResolveBase(commits[Newest], PublishedSet)} :
          job' = [job EXCEPT !["stable"] = [NoJob EXCEPT
                    !.step = "checkout", !.commit = Newest, !.version = v]]
    BY DEF StartStable
  <1>2. UNCHANGED <<commits, published, runs, day, built>> /\ PublishedSet' = PublishedSet
    BY DEF StartStable, PublishedSet
  <1>3. Typed
    BY DEF WorldInv
  <1>4. PICK head \in Stable : head = commits[Newest]
    BY <1>3, HeadIs
  <1>5. PICK patch \in Nat : /\ v = Version(head.minor, patch, <<>>)
                             /\ \A p \in head.patch .. patch - 1 : Version(head.minor, p, <<>>) \in PublishedSet
    <2>1. CASE v = head
      <3>1. head.patch \in Nat /\ head = Version(head.minor, head.patch, <<>>)
        BY StableFacts
      <3>2. \A p \in head.patch .. head.patch - 1 : FALSE
        BY <3>1
      <3>3. QED
        BY <2>1, <3>1, <3>2
    <2>2. CASE v = ResolveBase(head, PublishedSet)
      BY <1>3, <2>2, BaseIsFree, PublishedAre
    <2>3. QED
      BY <1>1, <1>4, <2>1, <2>2
  <1>6. v \in AnyVersion /\ IsStable(v) /\ v.patch = patch /\ v.minor = head.minor
    <2>1. <<>> \in Seq([numeric : BOOLEAN, value : Nat]) /\ head.minor \in Nat
      BY EmptySeq, StableFacts
    <2>2. QED
      BY <1>5, <2>1 DEF Version, AnyVersion, IsStable
  <1> DEFINE new == [NoJob EXCEPT !.step = "checkout", !.commit = Newest, !.version = v]
  <1>7. new \in Job /\ new.version = v
    <2>1. Newest \in Nat
      BY <1>3, HeadIs
    <2>2. QED
      BY <1>3, <1>6, <2>1, JobFacts DEF Job
  <1> HIDE DEF new
  <1>8. job' = [job EXCEPT !["stable"] = new]
    BY <1>1 DEF new
  <1>9. job'["nightly"] = job["nightly"] /\ job'["stable"] = new /\ job' \in [Workflows -> Job]
    BY <1>3, <1>7, <1>8, JobFacts
  <1>10. Follows(v, v.patch - 1)'
    BY <1>2, <1>4, <1>5, <1>6 DEF Follows, Taken, Newest
  <1>11. StableOk(job["stable"])'
    BY <1>6, <1>7, <1>9, <1>10 DEF StableOk
  <1>12. QED
    BY <1>2, <1>9, <1>11, JobsOnly

LEMMA StartRunKeeps == ASSUME WorldInv, StartRun PROVE WorldInv'
  <1>1. PICK n \in 1 .. Len(runs) + 1 :
          /\ runs' = IF n > Len(runs) THEN Append(runs, Newest) ELSE runs
          /\ job' = [job EXCEPT !["nightly"] = [NoJob EXCEPT
                       !.step = "checkout", !.run = n, !.commit = runs'[n]]]
    BY DEF StartRun
  <1>2. /\ commits' = commits /\ published' = published /\ day' = day /\ built' = built
        /\ PublishedSet' = PublishedSet
    BY DEF StartRun, PublishedSet
  <1>3. Typed
    BY DEF WorldInv
  <1>4. PICK top \in Nat : top = Newest /\ DOMAIN commits = 1 .. top /\ top >= 1
    BY <1>3, HeadIs
  <1>5. PICK k \in Nat : k = Len(runs) /\ runs \in Seq(1 .. top) /\ DOMAIN runs = 1 .. k
    BY <1>3, <1>4 DEF Typed
  <1>6. \A i \in 1 .. k : runs[i] \in 1 .. top
    BY <1>5
  <1>7. \A i, j \in 1 .. k : i <= j => runs[i] <= runs[j]
    BY <1>5 DEF WorldInv
  <1>8. /\ runs' \in Seq(1 .. top)
        /\ \A i \in 1 .. k : i \in DOMAIN runs' /\ runs'[i] = runs[i]
        /\ \A i, j \in DOMAIN runs' : i <= j => runs'[i] <= runs'[j]
        /\ n \in DOMAIN runs' /\ runs'[n] \in 1 .. top
    <2>1. CASE n > k
      <3>1. runs' = Append(runs, top) /\ top \in 1 .. top /\ n = k + 1
        BY <1>1, <1>4, <1>5, <2>1
      <3>2. /\ runs' \in Seq(1 .. top) /\ DOMAIN runs' = 1 .. k + 1
            /\ \A i \in 1 .. k : runs'[i] = runs[i]
            /\ runs'[k + 1] = top
        BY <1>5, <3>1
      <3>3. ASSUME NEW i \in 1 .. k + 1, NEW j \in 1 .. k + 1, i <= j
            PROVE  runs'[i] <= runs'[j]
        <4>1. CASE j \in 1 .. k
          <5>1. i \in 1 .. k
            BY <3>3, <4>1
          <5>2. QED
            BY <1>7, <3>2, <3>3, <4>1, <5>1
        <4>2. CASE j = k + 1 /\ i \in 1 .. k
          BY <1>6, <3>2, <4>2
        <4>3. CASE j = k + 1 /\ i = k + 1
          BY <3>2, <4>3
        <4>4. QED
          BY <3>3, <4>1, <4>2, <4>3
      <3>4. \A i \in 1 .. k : i \in 1 .. k + 1
        OBVIOUS
      <3>5. QED
        BY <3>1, <3>2, <3>3, <3>4
    <2>2. CASE n <= k
      <3>1. runs' = runs /\ n \in 1 .. k
        BY <1>1, <1>5, <2>2
      <3>2. QED
        BY <1>5, <1>6, <1>7, <3>1
    <2>3. QED
      BY <1>1, <1>5, <2>1, <2>2
  <1> DEFINE new == [NoJob EXCEPT !.step = "checkout", !.run = n, !.commit = runs'[n]]
  <1>9. new \in Job /\ new.step = "checkout" /\ new.run = n /\ new.commit = runs'[n]
    <2>1. n \in Nat /\ runs'[n] \in Nat
      BY <1>5, <1>8
    <2>2. QED
      BY <1>3, <2>1, JobFacts DEF Job, NoJob
  <1> HIDE DEF new
  <1>10. job' = [job EXCEPT !["nightly"] = new]
    BY <1>1 DEF new
  <1>11. job'["stable"] = job["stable"] /\ job'["nightly"] = new /\ job' \in [Workflows -> Job]
    BY <1>3, <1>9, <1>10, JobFacts
  <1>12. Typed'
    BY <1>2, <1>3, <1>4, <1>8, <1>11 DEF Typed
  <1>13. Grows
    BY <1>2, <1>3, <1>5, <1>8 DEF Grows, Typed
  <1>14. NightlyOk(job["nightly"])'
    BY <1>8, <1>9, <1>11 DEF NightlyOk
  <1>15. QED
    BY <1>2, <1>8, <1>11, <1>12, <1>13, <1>14, WorldKeeps

(* What a nightly run calls its build.                                     *)
LEMMA VersionIsMade ==
    ASSUME WorldInv, NEW j \in Job, j = job["nightly"], j.step = "checkout", NEW listed \in BOOLEAN,
           NEW v, v = VersionFor("nightly", commits[j.commit], Listing(listed), day, j.run)
    PROVE  /\ v \in AnyVersion /\ j.run \in DOMAIN runs /\ j.commit = runs[j.run] /\ Made(v, j.run)
           /\ \E patch \in Nat, tree \in Stable :
                /\ tree = commits[j.commit] /\ tree.patch <= patch
                /\ v = Version(tree.minor, patch, <<Word("nightly"), Number(day), Number(j.run)>>)
                /\ v.minor = tree.minor /\ v.patch = patch
                /\ Version(tree.minor, patch, <<>>) \notin Listing(listed)
  <1>1. Typed /\ j.run \in DOMAIN runs /\ j.commit = runs[j.run] /\ day \in Nat
    BY DEF WorldInv, NightlyOk, Typed
  <1>2. runs[j.run] \in DOMAIN commits
    BY <1>1 DEF Typed
  <1>3. PICK tree \in Stable : tree = commits[j.commit]
    BY <1>1, <1>2, HeadIs
  <1>4. Listing(listed) \subseteq PublishedSet /\ Listing(listed) \in SUBSET AnyVersion
    BY <1>1, PublishedAre DEF Listing
  <1>5. IsFiniteSet(Listing(listed))
    BY <1>1, <1>4, PublishedAre, FS_Subset
  <1>6. PICK patch \in Nat :
          /\ ResolveBase(tree, Listing(listed)) = Version(tree.minor, patch, <<>>)
          /\ tree.patch <= patch
          /\ Version(tree.minor, patch, <<>>) \notin Listing(listed)
          /\ \A p \in tree.patch .. patch - 1 : Version(tree.minor, p, <<>>) \in Listing(listed)
    BY <1>4, <1>5, BaseIsFree
  <1>7. v = Version(tree.minor, patch, <<Word("nightly"), Number(day), Number(j.run)>>)
    BY <1>3, <1>6 DEF VersionFor, Version
  <1>8. v \in AnyVersion /\ v.minor = tree.minor /\ v.patch = patch
    <2>1. Word("nightly") \in [numeric : BOOLEAN, value : Nat]
      BY DEF Word, Rank
    <2>2. j.run \in Nat
      BY DEF Job
    <2>3. /\ Number(day) \in [numeric : BOOLEAN, value : Nat]
          /\ Number(j.run) \in [numeric : BOOLEAN, value : Nat]
      BY <1>1, <2>2 DEF Number
    <2>4. PICK pre \in Seq([numeric : BOOLEAN, value : Nat]) :
            pre = <<Word("nightly"), Number(day), Number(j.run)>>
      <3>1. ASSUME NEW S, NEW a \in S, NEW b \in S, NEW c \in S
            PROVE  <<a, b, c>> \in Seq(S)
        OBVIOUS
      <3>2. QED
        BY <2>1, <2>3, <3>1
    <2>5. tree.minor \in Nat
      BY StableFacts
    <2>6. v = [minor |-> tree.minor, patch |-> patch, prerelease |-> pre]
      BY <1>7, <2>4 DEF Version
    <2>7. v \in AnyVersion
      BY <2>5, <2>6 DEF AnyVersion
    <2>8. v.minor = tree.minor /\ v.patch = patch
      BY <2>6
    <2>9. QED
      BY <2>7, <2>8
  <1>9. Made(v, j.run)
    <2>1. day \in 0 .. day
      BY <1>1
    <2>2. Taken(tree, patch - 1)
      BY <1>4, <1>6 DEF Taken
    <2>3. QED
      BY <1>1, <1>3, <1>6, <1>7, <2>1, <2>2 DEF Made
  <1>10. QED
    BY <1>1, <1>3, <1>6, <1>7, <1>8, <1>9

LEMMA WriteNotesKeepsWorld == ASSUME WorldInv, NEW w \in Workflows, WriteNotes(w) PROVE WorldInv'
  <1>1. Typed /\ UNCHANGED <<commits, published, runs, day, built>> /\ PublishedSet' = PublishedSet
    BY DEF WorldInv, WriteNotes, PublishedSet
  <1>2. CASE w = "stable"
    <2>1. job' = [job EXCEPT !["stable"].step = "writing"] /\ job["stable"].step = "checkout"
      BY <1>2 DEF WriteNotes
    <2> DEFINE new == [job["stable"] EXCEPT !.step = "writing"]
    <2>2. new \in Job /\ new.step = "writing" /\ new.version = job["stable"].version
      <3>1. job["stable"] \in Job
        BY <1>1, JobFacts
      <3>2. QED
        BY <3>1 DEF Job
    <2>3. job' = [job EXCEPT !["stable"] = new]
      BY <2>1
    <2> HIDE DEF new
    <2>4. job'["nightly"] = job["nightly"] /\ job'["stable"] = new /\ job' \in [Workflows -> Job]
      BY <1>1, <2>2, <2>3, JobFacts
    <2>5. PICK v : v = job["stable"].version
      OBVIOUS
    <2>6. Follows(v, v.patch - 1) /\ IsStable(v)
      BY <2>1, <2>5 DEF WorldInv, StableOk
    <2>7. Follows(v, v.patch - 1)'
      BY <1>1, <2>6 DEF Follows, Taken, Newest
    <2>8. StableOk(job["stable"])'
      BY <2>2, <2>4, <2>5, <2>6, <2>7 DEF StableOk
    <2>9. QED
      BY <1>1, <2>4, <2>8, JobsOnly
  <1>3. CASE w = "nightly"
    <2>1. PICK j \in Job : j = job["nightly"] /\ j.step = "checkout"
      BY <1>1, <1>3, JobFacts DEF WriteNotes
    <2>2. PICK listed \in BOOLEAN :
            job' = [job EXCEPT !["nightly"].step = "writing", !["nightly"].listed = listed,
                      !["nightly"].version = VersionFor("nightly", commits[job["nightly"].commit],
                                               Listing(listed), day, job["nightly"].run)]
      BY <1>3 DEF WriteNotes
    <2>3. PICK v : v = VersionFor("nightly", commits[j.commit], Listing(listed), day, j.run)
      OBVIOUS
    <2>4. v \in AnyVersion /\ j.run \in DOMAIN runs /\ j.commit = runs[j.run] /\ Made(v, j.run)
      BY <2>1, <2>3, VersionIsMade
    <2> DEFINE new == [j EXCEPT !.step = "writing", !.listed = listed, !.version = v]
    <2>5. new \in Job /\ new.version = v /\ new.run = j.run /\ new.commit = j.commit
      BY <2>4 DEF Job
    <2>6. job' = [job EXCEPT !["nightly"] = new]
      BY <1>1, <2>1, <2>2, <2>3 DEF Typed
    <2> HIDE DEF new
    <2>7. job'["stable"] = job["stable"] /\ job'["nightly"] = new /\ job' \in [Workflows -> Job]
      BY <1>1, <2>5, <2>6, JobFacts
    <2>8. Made(v, j.run)'
      <3>1. Grows
        BY <1>1 DEF Typed, Grows
      <3>2. QED
        BY <1>1, <2>4, <3>1, MadeStays
    <2>9. NightlyOk(job["nightly"])'
      BY <1>1, <2>4, <2>5, <2>7, <2>8 DEF NightlyOk
    <2>10. QED
      BY <1>1, <2>7, <2>9, JobsOnly
  <1>4. QED
    BY <1>2, <1>3 DEF Workflows

(* A stable release is never pruned.                                       *)
LEMMA PrunedKeeps ==
    ASSUME NEW releases \in Seq(AnyVersion), NEW channel
    PROVE  /\ Pruned(releases, channel) \in Seq(AnyVersion)
           /\ ToSet(Pruned(releases, channel)) \subseteq ToSet(releases)
           /\ \A v \in ToSet(releases) : IsStable(v) => v \in ToSet(Pruned(releases, channel))
  <1> DEFINE own == {i \in DOMAIN releases :
                       ~IsStable(releases[i]) /\ releases[i].prerelease[1] = Word(channel)}
             Kept(i) == i \notin own \/ Cardinality({k \in own : k > i}) < Retain
             one(i) == IF Kept(i) THEN <<releases[i]>> ELSE <<>>
             ones == [i \in DOMAIN releases |-> one(i)]
  <1>1. Pruned(releases, channel) = FlattenSeq(ones)
    BY DEF Pruned
  <1>2. ASSUME NEW i \in DOMAIN releases, IsStable(releases[i])
        PROVE  Kept(i)
    BY <1>2
  <1> HIDE DEF Kept
  <1>3. /\ DOMAIN releases = 1 .. Len(releases) /\ Len(releases) \in Nat
        /\ \A i \in DOMAIN releases : releases[i] \in AnyVersion
        /\ ToSet(releases) = {releases[i] : i \in 1 .. Len(releases)}
    BY DEF ToSet
  <1>4. ASSUME NEW i \in DOMAIN releases
        PROVE  /\ one(i) \in Seq(AnyVersion)
               /\ ToSet(one(i)) = IF Kept(i) THEN {releases[i]} ELSE {}
    <2>1. CASE Kept(i)
      <3>1. one(i) = <<releases[i]>> /\ releases[i] \in AnyVersion
        BY <1>3, <2>1
      <3> HIDE DEF one
      <3>2. QED
        BY <2>1, <3>1 DEF ToSet
    <2>2. CASE ~Kept(i)
      <3>1. one(i) = <<>>
        BY <2>2
      <3> HIDE DEF one
      <3>2. QED
        BY <2>2, <3>1 DEF ToSet
    <2>3. QED
      BY <2>1, <2>2
  <1> HIDE DEF one
  <1>5. ones \in Seq(Seq(AnyVersion)) /\ Len(ones) = Len(releases) /\ \A i \in 1 .. Len(releases) : ones[i] = one(i)
    <2>1. ones \in [1 .. Len(releases) -> Seq(AnyVersion)] /\ \A i \in 1 .. Len(releases) : ones[i] = one(i)
      BY <1>3, <1>4
    <2> HIDE DEF ones
    <2>2. QED
      BY <1>3, <2>1
  <1> HIDE DEF ones
  <1>6. /\ FlattenSeq(ones) \in Seq(AnyVersion)
        /\ ToSet(FlattenSeq(ones)) = UNION {ToSet(ones[i]) : i \in 1 .. Len(ones)}
    BY <1>5, Flattened
  <1>7. ASSUME NEW v \in UNION {ToSet(ones[i]) : i \in 1 .. Len(ones)}
        PROVE  v \in ToSet(releases)
    BY <1>3, <1>4, <1>5, <1>7, ZenonT(60)
  <1>8. ASSUME NEW v \in ToSet(releases), IsStable(v)
        PROVE  v \in UNION {ToSet(ones[i]) : i \in 1 .. Len(ones)}
    <2>1. PICK i \in 1 .. Len(releases) : v = releases[i]
      BY <1>3
    <2>2. Kept(i) /\ v \in ToSet(one(i))
      BY <1>2, <1>3, <1>4, <1>8, <2>1
    <2>3. QED
      BY <1>5, <2>1, <2>2
  <1>9. QED
    BY <1>1, <1>6, <1>7, <1>8

(* A release more, if it is not there yet.                                 *)
LEMMA WithAdds ==
    ASSUME Typed, NEW v \in AnyVersion
    PROVE  With(v) \in Seq(AnyVersion) /\ ToSet(With(v)) = PublishedSet \cup {v}
  <1>1. CASE v \in PublishedSet
    BY <1>1 DEF With, Typed, PublishedSet
  <1>2. CASE v \notin PublishedSet
    <2>1. PICK s \in Seq(AnyVersion) : s = published
      BY DEF Typed
    <2>2. /\ Append(s, v) \in Seq(AnyVersion) /\ Len(Append(s, v)) = Len(s) + 1 /\ Len(s) \in Nat
          /\ Append(s, v)[Len(s) + 1] = v /\ \A i \in 1 .. Len(s) : Append(s, v)[i] = s[i]
          /\ DOMAIN Append(s, v) = 1 .. Len(s) + 1 /\ DOMAIN s = 1 .. Len(s)
      OBVIOUS
    <2>3. ASSUME NEW x
          PROVE  x \in ToSet(Append(s, v)) <=> x \in ToSet(s) \/ x = v
      <3>1. x \in ToSet(Append(s, v)) <=> \E i \in 1 .. Len(s) + 1 : x = Append(s, v)[i]
        BY <2>2 DEF ToSet
      <3>2. x \in ToSet(s) <=> \E i \in 1 .. Len(s) : x = s[i]
        BY <2>2 DEF ToSet
      <3>3. /\ \A i \in 1 .. Len(s) : i \in 1 .. Len(s) + 1
            /\ \A i \in 1 .. Len(s) + 1 : i \in 1 .. Len(s) \/ i = Len(s) + 1
            /\ Len(s) + 1 \in 1 .. Len(s) + 1
        BY <2>2
      <3>4. QED
        BY <2>2, <3>1, <3>2, <3>3
    <2>4. With(v) = Append(s, v) /\ PublishedSet = ToSet(s)
      BY <1>2, <2>1 DEF With, PublishedSet
    <2>5. QED
      BY <2>2, <2>3, <2>4
  <1>3. QED
    BY <1>1, <1>2

(* A run that ends leaves its workflow free.                               *)
LEMMA JobEnds ==
    ASSUME Typed, NEW w \in Workflows, job' = [job EXCEPT ![w] = NoJob]
    PROVE  /\ job' \in [Workflows -> Job]
           /\ \A u \in Workflows : job'[u] = job[u] \/ job'[u] = NoJob
           /\ job'["stable"] = job["stable"] \/ StableOk(job["stable"])'
           /\ job'["nightly"] = job["nightly"] \/ NightlyOk(job["nightly"])'
  <1>1. /\ job' \in [Workflows -> Job]
        /\ \A u \in Workflows : job'[u] = job[u] \/ job'[u] = NoJob
    BY JobFacts
  <1>2. NoJob.step = "none"
    BY DEF NoJob
  <1>3. job'["stable"] = job["stable"] \/ StableOk(job["stable"])'
    BY <1>1, <1>2 DEF StableOk, Workflows
  <1>4. job'["nightly"] = job["nightly"] \/ NightlyOk(job["nightly"])'
    BY <1>1, <1>2 DEF NightlyOk, Workflows
  <1>5. QED
    BY <1>1, <1>3, <1>4

LEMMA RunFailsKeeps == ASSUME WorldInv, NEW w \in Workflows, RunFails(w) PROVE WorldInv'
  <1>1. Typed /\ job' = [job EXCEPT ![w] = NoJob] /\ UNCHANGED <<commits, published, runs, day, built>>
    BY DEF WorldInv, RunFails
  <1>2. QED
    BY <1>1, JobEnds, JobsOnly

LEMMA PublishKeeps == ASSUME WorldInv, NEW w \in Workflows, Publish(w) PROVE WorldInv'
  <1>1. /\ Typed /\ job' = [job EXCEPT ![w] = NoJob] /\ job[w].step = "writing"
        /\ commits' = commits /\ runs' = runs
        /\ PublishedSet' = ToSet(published')
    BY DEF WorldInv, Publish, PublishedSet
  <1>2. /\ job' \in [Workflows -> Job]
        /\ job'["stable"] = job["stable"] \/ StableOk(job["stable"])'
        /\ job'["nightly"] = job["nightly"] \/ NightlyOk(job["nightly"])'
    BY <1>1, JobEnds
  <1>3. day' = day
    BY DEF Publish
  <1>4. PICK j \in Job : j = job[w]
    BY <1>1, JobFacts
  <1>5. PICK v \in AnyVersion : v = j.version
    BY DEF Job
  <1>6. PICK list \in Seq(AnyVersion) : list = With(v) /\ ToSet(list) = PublishedSet \cup {v}
    BY <1>1, WithAdds
  <1>7. CASE w = "stable"
    <2>1. published' = list /\ built' = built
      BY <1>4, <1>5, <1>6, <1>7 DEF Publish
    <2>2. PublishedSet' = PublishedSet \cup {v}
      BY <1>1, <1>6, <2>1
    <2>3. Typed' /\ Grows
      BY <1>1, <1>2, <1>3, <2>1, <2>2 DEF Typed, Grows
    <2>4. IsStable(v) /\ Follows(v, v.patch - 1)
      BY <1>1, <1>4, <1>5, <1>7 DEF WorldInv, StableOk
    <2>5. Follows(v, v.patch)'
      <3>1. Follows(v, v.patch - 1)'
        BY <1>1, <2>3, <2>4, FollowsStays
      <3>2. PICK head \in Stable : head = commits[Newest] /\ head = commits'[Newest']
        BY <1>1, HeadIs DEF Newest
      <3>3. ASSUME v.minor = head.minor, \A p \in head.patch .. v.patch - 1 : Version(head.minor, p, <<>>) \in PublishedSet'
            PROVE  \A p \in head.patch .. v.patch : Version(head.minor, p, <<>>) \in PublishedSet'
        <4>1. v \in Stable
          BY <2>4, StableIs
        <4>2. head.patch \in Nat /\ v.patch \in Nat /\ v = Version(head.minor, v.patch, <<>>)
          BY <3>3, <4>1, StableFacts
        <4>3. \A p \in head.patch .. v.patch : p = v.patch \/ p \in head.patch .. v.patch - 1
          BY <4>2
        <4>4. QED
          BY <2>2, <3>3, <4>2, <4>3
      <3>4. QED
        BY <3>1, <3>2, <3>3 DEF Follows, Taken
    <2>6. QED
      BY <1>1, <1>2, <2>1, <2>2, <2>3, <2>5, WorldKeeps DEF WorldInv
  <1>8. CASE w = "nightly"
    <2>1. published' = Pruned(list, "nightly") /\ built' = built \cup {[run |-> j.run, version |-> v]}
      BY <1>4, <1>5, <1>6, <1>8 DEF Publish
    <2>2. /\ published' \in Seq(AnyVersion) /\ PublishedSet' \subseteq PublishedSet \cup {v}
          /\ \A x \in PublishedSet : IsStable(x) => x \in PublishedSet'
      BY <1>1, <1>6, <2>1, PrunedKeeps
    <2>3. Typed' /\ Grows
      BY <1>1, <1>2, <1>3, <2>2 DEF Typed, Grows
    <2>4. j.run \in DOMAIN runs /\ Made(v, j.run)
      BY <1>1, <1>4, <1>5, <1>8 DEF WorldInv, NightlyOk
    <2>5. ~IsStable(v)
      BY <2>4 DEF Made, Version, IsStable
    <2>6. j.run \in DOMAIN runs' /\ Made(v, j.run)'
      BY <1>1, <2>3, <2>4, MadeStays
    <2>7. PICK b : b = [run |-> j.run, version |-> v]
      OBVIOUS
    <2>8. BuildOk(b)'
      BY <2>6, <2>7 DEF BuildOk
    <2>9. QED
      BY <1>1, <1>2, <2>1, <2>2, <2>3, <2>5, <2>7, <2>8, WorldKeeps DEF WorldInv
  <1>9. QED
    BY <1>7, <1>8 DEF Workflows

LEMMA WorldStarts == ASSUME Init PROVE WorldInv
  <1>1. PICK v \in InTree : commits = <<v>>
    BY DEF Init
  <1>2. v \in Stable
    BY ReleaseAssumption DEF ReleaseAssumption, Stable
  <1>3. /\ published = <<>> /\ runs = <<>> /\ day = 1 /\ built = {} /\ PublishedSet = {}
        /\ job = [w \in Workflows |-> NoJob]
    BY DEF Init, PublishedSet, ToSet
  <1>4. <<>> \in Seq([numeric : BOOLEAN, value : Nat])
    BY EmptySeq
  <1>5. NoJob \in Job /\ NoJob.step = "none"
    BY <1>4 DEF NoJob, Job, AnyVersion, Version
  <1>6. commits \in Seq(Stable) /\ commits # <<>> /\ DOMAIN commits = {1} /\ commits[1] = v
    BY <1>1, <1>2
  <1>7. Typed
    <2>1. <<>> \in Seq(DOMAIN commits) /\ <<>> \in Seq(AnyVersion)
      BY EmptySeq
    <2>2. QED
      BY <1>3, <1>5, <1>6, <2>1 DEF Typed
  <1>8. AtMost(v, v)
    BY <1>2, StableFacts DEF AtMost
  <1>9. job["stable"] = NoJob /\ job["nightly"] = NoJob
    BY <1>3 DEF Workflows
  <1>10. \A i, j \in DOMAIN commits : i <= j => AtMost(commits[i], commits[j])
    BY <1>6, <1>8
  <1>11. DOMAIN runs = {}
    BY <1>3
  <1>12. StableOk(job["stable"]) /\ NightlyOk(job["nightly"])
    BY <1>5, <1>9 DEF StableOk, NightlyOk
  <1>13. QED
    BY <1>3, <1>7, <1>10, <1>11, <1>12 DEF WorldInv

LEMMA WorldInvariance == ASSUME WorldInv, [Next]_vars PROVE WorldInv'
  <1>1. CASE UNCHANGED world
    <2>1. /\ UNCHANGED <<commits, published, runs, day, built>> /\ job' = job
      BY <1>1 DEF world
    <2>2. job' \in [Workflows -> Job]
      BY <2>1 DEF WorldInv, Typed
    <2>3. QED
      BY <2>1, <2>2, JobsOnly
  <1>2. CASE Outside
    BY <1>2, SyncKeeps, TomorrowKeeps, StartStableKeeps, StartRunKeeps DEF Outside
  <1>3. ASSUME NEW w \in Workflows, Step(w)
        PROVE  WorldInv'
    BY <1>3, WriteNotesKeepsWorld, PublishKeeps, RunFailsKeeps DEF Step
  <1>4. QED
    BY <1>1, <1>2, <1>3 DEF Next, Generate, vars

(* Of two builds with the same base, the one of the later run is newer.    *)
LEMMA LaterRunIsNewer ==
    ASSUME NEW minor \in Nat, NEW patch \in Nat, NEW date \in Nat, NEW run \in Nat,
           NEW today \in Nat, NEW later \in Nat, date <= today, run < later
    PROVE  Precedes(Version(minor, patch, <<Word("nightly"), Number(date), Number(run)>>),
                    Version(minor, patch, <<Word("nightly"), Number(today), Number(later)>>))
  <1> DEFINE a == <<Word("nightly"), Number(date), Number(run)>>
             b == <<Word("nightly"), Number(today), Number(later)>>
  <1>1. /\ a # <<>> /\ Len(a) = 3 /\ Len(b) = 3
        /\ a[1] = b[1] /\ a[2] = Number(date) /\ a[3] = Number(run)
        /\ b[2] = Number(today) /\ b[3] = Number(later)
    OBVIOUS
  <1> HIDE DEF a, b
  <1>2. PrereleaseBefore(a, b)
    <2>1. CASE date < today
      <3>1. IdentifierBefore(a[2], b[2])
        BY <1>1, <2>1 DEF IdentifierBefore, Number
      <3>2. \A k \in 1 .. 2 - 1 : k <= Len(a) /\ a[k] = b[k]
        BY <1>1
      <3>3. 2 \in 1 .. Len(b) /\ 2 <= Len(a)
        BY <1>1
      <3>4. QED
        BY <1>1, <3>1, <3>2, <3>3 DEF PrereleaseBefore
    <2>2. CASE date = today
      <3>1. IdentifierBefore(a[3], b[3])
        BY <1>1 DEF IdentifierBefore, Number
      <3>2. \A k \in 1 .. 3 - 1 : k <= Len(a) /\ a[k] = b[k]
        <4>1. 1 .. 3 - 1 = {1, 2}
          OBVIOUS
        <4>2. QED
          BY <1>1, <2>2, <4>1
      <3>3. 3 \in 1 .. Len(b) /\ 3 <= Len(a)
        BY <1>1
      <3>4. QED
        BY <1>1, <3>1, <3>2, <3>3 DEF PrereleaseBefore
    <2>3. QED
      BY <2>1, <2>2
  <1>3. QED
    BY <1>2 DEF Precedes, SameBase, Version, a, b

(* A build that could list the releases, above what came before.           *)
LEMMA BuildRises ==
    ASSUME WorldInv, NEW j \in Job, j.run \in DOMAIN runs, j.commit = runs[j.run],
           NEW patch \in Nat, NEW tree \in Stable, tree = commits[j.commit], tree.patch <= patch,
           Version(tree.minor, patch, <<>>) \notin PublishedSet,
           NEW v, v.minor = tree.minor, v.patch = patch,
           v = Version(tree.minor, patch, <<Word("nightly"), Number(day), Number(j.run)>>)
    PROVE  /\ \A b \in built : b.run < j.run => Precedes(b.version, v)
           /\ j.commit = Newest =>
                \A s \in PublishedSet : IsStable(s) => Precedes(s, v)
  <1>1. Typed /\ day \in Nat /\ j.run \in Nat
    BY DEF WorldInv, Typed, Job
  <1>2. tree.minor \in Nat /\ tree.patch \in Nat
    BY StableFacts
  <1>3. DOMAIN runs \subseteq Nat /\ \A n \in DOMAIN runs : runs[n] \in DOMAIN commits /\ runs[n] \in Nat
    BY <1>1, HeadIs, SMTT(30) DEF Typed
  <1>4. ASSUME NEW b \in built, b.run < j.run
        PROVE  Precedes(b.version, v)
    <2>1. b.run \in DOMAIN runs /\ b.run \in Nat /\ Made(b.version, b.run)
      BY <1>3 DEF WorldInv, BuildOk
    <2>2. PICK first \in Stable : first = commits[runs[b.run]]
      BY <1>1, <1>3, <2>1, HeadIs
    <2>3. PICK date \in 0 .. day, n \in Nat :
            /\ b.version = Version(first.minor, n, <<Word("nightly"), Number(date), Number(b.run)>>)
            /\ first.patch <= n
            /\ Taken(first, n - 1)
      BY <2>1, <2>2 DEF Made
    <2>4. AtMost(first, tree)
      <3>1. runs[b.run] <= runs[j.run]
        BY <1>1, <1>4, <2>1 DEF WorldInv
      <3>2. QED
        BY <1>3, <2>1, <2>2, <3>1 DEF WorldInv
    <2>5. b.version.minor = first.minor /\ b.version.patch = n /\ first.minor \in Nat /\ first.patch \in Nat
      BY <2>3, StableFacts DEF Version
    <2>6. CASE first.minor < tree.minor
      BY <1>2, <2>5, <2>6 DEF Precedes
    <2>7. CASE first.minor = tree.minor
      <3>1. n <= patch
        <4>1. first.patch <= patch
          BY <1>2, <2>4, <2>5, <2>7 DEF AtMost
        <4>2. patch \notin first.patch .. n - 1
          BY <1>1, <2>3, <2>7 DEF Taken
        <4>3. QED
          BY <2>5, <4>1, <4>2
      <3>2. CASE n < patch
        BY <1>2, <2>5, <2>7, <3>2 DEF Precedes
      <3>3. CASE n = patch
        <4>1. date \in Nat /\ date <= day
          BY <1>1
        <4>2. Precedes(Version(tree.minor, patch, <<Word("nightly"), Number(date), Number(b.run)>>),
                       Version(tree.minor, patch, <<Word("nightly"), Number(day), Number(j.run)>>))
          BY <1>1, <1>2, <1>4, <2>1, <4>1, LaterRunIsNewer
        <4>3. QED
          BY <2>3, <2>7, <3>3, <4>2
      <3>4. n < patch \/ n = patch
        BY <3>1
      <3>5. QED
        BY <3>2, <3>3, <3>4
    <2>8. QED
      BY <1>2, <2>4, <2>5, <2>6, <2>7 DEF AtMost
  <1>5. ASSUME j.commit = Newest, NEW s \in PublishedSet, IsStable(s)
        PROVE  Precedes(s, v)
    <2>1. Follows(s, s.patch)
      BY <1>5 DEF WorldInv
    <2>2. s \in Stable
      BY <1>1, <1>5, PublishedAre, StableIs
    <2>3. s.minor \in Nat /\ s.patch \in Nat
      BY <2>2, StableFacts
    <2>4. \/ s.minor < tree.minor
          \/ s.minor = tree.minor /\ (s.patch < tree.patch \/ Taken(tree, s.patch))
      BY <1>5, <2>1 DEF Follows
    <2>5. CASE s.minor < tree.minor
      BY <1>2, <2>5 DEF Precedes
    <2>6. CASE s.minor = tree.minor /\ s.patch < tree.patch
      <3>1. s.patch < patch
        BY <1>2, <2>3, <2>6
      <3>2. QED
        BY <1>2, <2>6, <3>1 DEF Precedes
    <2>7. CASE s.minor = tree.minor /\ Taken(tree, s.patch)
      <3>1. patch \notin tree.patch .. s.patch
        BY <1>1, <2>7 DEF Taken
      <3>2. s.patch < patch
        BY <1>2, <2>3, <3>1
      <3>3. QED
        BY <1>2, <2>7, <3>2 DEF Precedes
    <2>8. QED
      BY <2>4, <2>5, <2>6, <2>7
  <1>6. QED
    BY <1>4, <1>5

(* The only step that names a nightly build is the one that writes its     *)
(* notes.                                                                  *)
LEMMA OnlyWriteNotes ==
    ASSUME WorldInv, [Next]_vars,
           job["nightly"].step = "checkout", job'["nightly"].step = "writing"
    PROVE  WriteNotes("nightly")
  <1>1. Typed /\ job["nightly"].step # "writing" /\ job'["nightly"] # job["nightly"] /\ NoJob.step = "none"
    BY DEF WorldInv, NoJob
  <1>2. CASE UNCHANGED job
    BY <1>1, <1>2
  <1>3. CASE StartStable
    <2>1. PICK new : job' = [job EXCEPT !["stable"] = new]
      BY <1>3 DEF StartStable
    <2>2. QED
      BY <1>1, <2>1, JobFacts
  <1>4. CASE StartRun
    <2>1. PICK new : job' = [job EXCEPT !["nightly"] = new] /\ new.step = "checkout"
      BY <1>4 DEF StartRun, NoJob
    <2>2. QED
      BY <1>1, <2>1, JobFacts
  <1>5. ASSUME NEW w \in Workflows, Publish(w) \/ RunFails(w)
        PROVE  FALSE
    <2>1. job' = [job EXCEPT ![w] = NoJob]
      BY <1>5 DEF Publish, RunFails
    <2>2. QED
      BY <1>1, <2>1, JobEnds DEF Workflows
  <1>6. CASE WriteNotes("stable")
    <2>1. PICK new : job' = [job EXCEPT !["stable"] = new]
      BY <1>6 DEF WriteNotes
    <2>2. QED
      BY <1>1, <2>1, JobFacts
  <1>7. CASE Outside
    BY <1>2, <1>3, <1>4, <1>7 DEF Outside, Sync, Tomorrow
  <1>8. ASSUME NEW w \in Workflows, Step(w)
        PROVE  WriteNotes("nightly")
    BY <1>5, <1>6, <1>8 DEF Step, Workflows
  <1>9. QED
    BY <1>2, <1>7, <1>8 DEF Next, Generate, vars, world

(* Whatever is synced, tagged, published, pruned, re-run or cancelled      *)
(* meanwhile, a nightly build that could list the releases is newer than   *)
(* those of the runs before it, and one of the head than every stable      *)
(* release.                                                                *)
THEOREM BuildsMoveForward == Spec => RollingMovesForward
  <1>1. Init => WorldInv
    BY WorldStarts
  <1>2. WorldInv /\ [Next]_vars => WorldInv'
    BY WorldInvariance
  <1>3. WorldInv /\ [Next]_vars =>
          [LET old == job["nightly"]
               new == job'["nightly"]
           IN  old.step = "checkout" /\ new.step = "writing" /\ new.listed
                 => Rises(new)]_vars
    <2> SUFFICES ASSUME WorldInv, [Next]_vars,
                        job["nightly"].step = "checkout", job'["nightly"].step = "writing",
                        job'["nightly"].listed
                 PROVE  Rises(job'["nightly"])
      OBVIOUS
    <2>1. WriteNotes("nightly") /\ Typed
      BY OnlyWriteNotes DEF WorldInv
    <2>2. PICK j \in Job : j = job["nightly"] /\ j.step = "checkout"
      BY <2>1, JobFacts
    <2>3. PICK listed \in BOOLEAN :
            job' = [job EXCEPT !["nightly"].step = "writing", !["nightly"].listed = listed,
                      !["nightly"].version = VersionFor("nightly", commits[job["nightly"].commit],
                                               Listing(listed), day, job["nightly"].run)]
      BY <2>1 DEF WriteNotes
    <2>4. PICK v : v = VersionFor("nightly", commits[j.commit], Listing(listed), day, j.run)
      OBVIOUS
    <2> DEFINE new == [j EXCEPT !.step = "writing", !.listed = listed, !.version = v]
    <2>5. new.listed = listed /\ new.version = v /\ new.run = j.run /\ new.commit = j.commit
      BY DEF Job
    <2>6. job' = [job EXCEPT !["nightly"] = new]
      BY <2>1, <2>2, <2>3, <2>4 DEF Typed
    <2> HIDE DEF new
    <2>7. job'["nightly"] = new /\ listed
      BY <2>1, <2>5, <2>6, JobFacts
    <2>8. PICK patch \in Nat, tree \in Stable :
            /\ tree = commits[j.commit] /\ tree.patch <= patch
            /\ v = Version(tree.minor, patch, <<Word("nightly"), Number(day), Number(j.run)>>)
            /\ v.minor = tree.minor /\ v.patch = patch
            /\ Version(tree.minor, patch, <<>>) \notin Listing(listed)
      BY <2>2, <2>4, VersionIsMade
    <2>9. j.run \in DOMAIN runs /\ j.commit = runs[j.run]
      BY <2>2 DEF WorldInv, NightlyOk
    <2>10. Listing(listed) = PublishedSet
      BY <2>7 DEF Listing
    <2>11. /\ \A b \in built : b.run < j.run => Precedes(b.version, v)
           /\ j.commit = Newest =>
                \A s \in PublishedSet : IsStable(s) => Precedes(s, v)
      BY <2>8, <2>9, <2>10, BuildRises
    <2>12. \A b \in built : b.run < new.run => Precedes(b.version, new.version)
      BY <2>5, <2>11
    <2>13. new.commit = Newest => \A s \in PublishedSet : IsStable(s) => Precedes(s, new.version)
      BY <2>5, <2>11
    <2>14. Rises(new)
      BY <2>12, <2>13 DEF Rises
    <2>15. QED
      BY <2>7, <2>14
  <1>4. QED
    BY <1>1, <1>2, <1>3, PTL DEF Spec, RollingMovesForward
=============================================================================
