---------------------------- MODULE LoopbackProofs ----------------------------
(***************************************************************************)
(* Proofs about Loopback, for any number of runs, clients, callers and     *)
(* keys, and any clock: PeerProof within a world that does what it likes,  *)
(* Handoff, and the two together.                                          *)
(***************************************************************************)
EXTENDS Loopback, TLAPS

-----------------------------------------------------------------------------
(* The proof of a peer.                                                    *)

UnderWay(a) == caller[a].at \in {"probing", "answered"}

(* How old a proof may be at each place it passes: a probe is no older     *)
(* than its timeout, an answer no older than its probe, a cached proof was *)
(* made at most one probe before it was stamped.                           *)
ProofsAge ==
    /\ \A k \in Keys : proved[k] <= now
    /\ cache.key # NoKey =>
         /\ proved[cache.key] >= 0
         /\ cache.at <= now
         /\ cache.at - proved[cache.key] <= ProbeTime
    /\ \A a \in Callers :
         /\ caller[a].at # "idle" => caller[a].key \in Keys
         /\ UnderWay(a) => caller[a].since <= now /\ now - caller[a].since <= ProbeTime
         /\ caller[a].at = "answered" /\ caller[a].verdict = "Proven" =>
              proved[caller[a].key] >= caller[a].since

PeerInv == PeerTypeOK /\ ProofsAge /\ SentWasProved

(* The first state has no proof and nobody to send.                        *)
LEMMA PeerStarts == PeerInit => PeerInv
  BY PeerAssumption
     DEF PeerAssumption, PeerInit, PeerInv, PeerTypeOK, ProofsAge, SentWasProved, UnderWay,
         Empty, Idle, Places, Verdicts

(* A step of one caller keeps the ages of all proofs.                      *)
LEMMA CallerKeeps ==
    ASSUME PeerInv, NEW a \in Callers, CallerStep(a)
    PROVE  PeerInv'
  <1> USE PeerAssumption DEF PeerAssumption, PeerInv, PeerTypeOK, Empty, Idle, Places, Verdicts
  <1>1. ASSUME NEW key \in Keys, Asks(a, key)
        PROVE  PeerInv'
    <2>1. /\ PeerTypeOK'
          /\ caller' = [caller EXCEPT ![a] = caller'[a]]
          /\ UNCHANGED <<now, cache, proved>>
          /\ caller'[a].since = now /\ caller'[a].key = key
          /\ caller'[a].at = IF IsFresh(key) THEN "sending" ELSE "probing"
      BY <1>1 DEF Asks, Goes
    <2>2. ProofsAge'
      BY <2>1 DEF ProofsAge, UnderWay
    <2>3. IsFresh(key) => now - proved[key] <= TTL + ProbeTime /\ proved[key] >= 0
      BY DEF IsFresh, ProofsAge
    <2>4. SentWasProved'
      BY <2>1, <2>3 DEF SentWasProved
    <2>5. QED
      BY <2>1, <2>2, <2>4
  <1>2. ASSUME NEW verdict \in Verdicts, PeerAnswers(a, verdict)
        PROVE  PeerInv'
    <2>0. /\ caller[a].at = "probing" /\ UNCHANGED <<holders, now, cache>>
          /\ caller' = [caller EXCEPT ![a].at = "answered", ![a].verdict = verdict]
      BY <1>2 DEF PeerAnswers
    <2>a. /\ caller[a].key \in Keys
          /\ caller[a] \in [at : Places, key : Keys \cup {NoKey}, since : Nat, verdict : Verdicts]
      BY <2>0 DEF ProofsAge
    <2>b. /\ caller' = [caller EXCEPT ![a] = caller'[a]]
          /\ caller'[a].since = caller[a].since /\ caller'[a].key = caller[a].key
          /\ caller'[a].at = "answered" /\ caller'[a].verdict = verdict
      BY <2>0, <2>a
    <2>c. proved' \in [Keys -> Int]
      BY <1>2, <2>a DEF PeerAnswers
    <2>d. caller' \in [Callers -> [at : Places, key : Keys \cup {NoKey}, since : Nat,
                                    verdict : Verdicts]]
      BY <2>0, <2>a
    <2>1. /\ PeerTypeOK'
          /\ caller[a].at = "probing" /\ UNCHANGED <<now, cache>>
          /\ caller' = [caller EXCEPT ![a] = caller'[a]]
          /\ caller'[a].since = caller[a].since /\ caller'[a].key = caller[a].key
          /\ caller'[a].at = "answered" /\ caller'[a].verdict = verdict
          /\ caller[a].key \in Keys
      BY <2>0, <2>a, <2>b, <2>c, <2>d
    <2>2. /\ \A k \in Keys : proved'[k] \in {proved[k], now}
          /\ verdict = "Proven" => proved'[caller[a].key] = now
      BY <1>2, <2>1 DEF PeerAnswers
    <2>3. \A k \in Keys : proved[k] <= proved'[k] /\ proved'[k] <= now
      BY <2>2 DEF ProofsAge
    <2>4. ProofsAge'
      <3>1. \A k \in Keys : proved'[k] <= now'
        BY <2>1, <2>3
      <3>2. cache'.key # NoKey =>
              /\ proved'[cache'.key] >= 0
              /\ cache'.at <= now'
              /\ cache'.at - proved'[cache'.key] <= ProbeTime
        BY <2>1, <2>3 DEF ProofsAge
      <3>3. ASSUME NEW b \in Callers
            PROVE  /\ caller'[b].at # "idle" => caller'[b].key \in Keys
                   /\ UnderWay(b)' => caller'[b].since <= now' /\ now' - caller'[b].since <= ProbeTime
        BY <2>1 DEF ProofsAge, UnderWay
      <3>4. ASSUME NEW b \in Callers, caller'[b].at = "answered", caller'[b].verdict = "Proven"
            PROVE  proved'[caller'[b].key] >= caller'[b].since
        <4>1. CASE b = a
          BY <2>1, <2>2, <3>4, <4>1 DEF ProofsAge, UnderWay
        <4>2. CASE b # a
          BY <2>1, <2>3, <3>4, <4>2 DEF ProofsAge
        <4>3. QED
          BY <4>1, <4>2
      <3>5. QED
        BY <3>1, <3>2, <3>3, <3>4 DEF ProofsAge
    <2>5. SentWasProved'
      BY <2>1, <2>3 DEF SentWasProved, ProofsAge
    <2>6. QED
      BY <2>1, <2>4, <2>5
  <1>3. CASE ProbeTimesOut(a)
    <2>1. /\ PeerTypeOK'
          /\ cache' = Empty /\ UNCHANGED <<now, proved>>
          /\ caller' = [caller EXCEPT ![a] = Idle]
      BY <1>3 DEF ProbeTimesOut
    <2>2. QED
      BY <2>1 DEF ProofsAge, UnderWay, SentWasProved
  <1>4. CASE Concludes(a)
    <2>0. caller[a].at = "answered" /\ UNCHANGED <<now, proved>>
          /\ caller[a].key \in Keys
      BY <1>4 DEF Concludes, ProofsAge
    <2>1. CASE caller[a].verdict = "Proven"
      <3>1. /\ PeerTypeOK'
            /\ cache' = [key |-> caller[a].key, at |-> now]
            /\ caller' = [caller EXCEPT ![a] = caller'[a]]
            /\ caller'[a].since = now /\ caller'[a].key = caller[a].key
            /\ caller'[a].at = "sending"
        BY <1>4, <2>0, <2>1 DEF Concludes, Goes
      <3>2. proved[caller[a].key] >= 0 /\ now - proved[caller[a].key] <= ProbeTime
        BY <2>0, <2>1 DEF ProofsAge, UnderWay
      <3>3. ProofsAge'
        BY <2>0, <3>1, <3>2 DEF ProofsAge, UnderWay
      <3>4. SentWasProved'
        BY <2>0, <3>1, <3>2 DEF SentWasProved
      <3>5. QED
        BY <3>1, <3>3, <3>4
    <2>2. CASE caller[a].verdict # "Proven"
      <3>1. /\ PeerTypeOK'
            /\ cache' = Empty
            /\ caller' = [caller EXCEPT ![a] = Idle]
        BY <1>4, <2>0, <2>2 DEF Concludes
      <3>2. QED
        BY <2>0, <3>1 DEF ProofsAge, UnderWay, SentWasProved
    <2>3. QED
      BY <2>1, <2>2
  <1>5. CASE Sends(a)
    <2>1. /\ PeerTypeOK'
          /\ caller' = [caller EXCEPT ![a] = Idle] /\ UNCHANGED <<now, cache, proved>>
      BY <1>5 DEF Sends
    <2>2. QED
      BY <2>1 DEF ProofsAge, UnderWay, SentWasProved
  <1>6. QED
    BY <1>1, <1>2, <1>3, <1>4, <1>5 DEF CallerStep

(* Time and the world keep them too: the clock waits for probes to end.    *)
LEMMA WorldKeeps ==
    ASSUME PeerInv, Ticks \/ WorldChanges \/ UNCHANGED pvars
    PROVE  PeerInv'
  <1> USE PeerAssumption DEF PeerAssumption, PeerInv, PeerTypeOK
  <1>1. CASE Ticks
    <2>1. /\ PeerTypeOK' /\ now' = now + 1 /\ UNCHANGED <<cache, caller, proved>>
          /\ \A a \in Callers : UnderWay(a) => now - caller[a].since < ProbeTime
      BY <1>1 DEF Ticks, UnderWay
    <2>2. ProofsAge'
      BY <2>1 DEF ProofsAge, UnderWay
    <2>3. SentWasProved'
      BY <2>1 DEF SentWasProved
    <2>4. QED
      BY <2>1, <2>2, <2>3
  <1>2. CASE WorldChanges \/ UNCHANGED pvars
    BY <1>2 DEF WorldChanges, pvars, peerVars, ProofsAge, UnderWay, SentWasProved
  <1>3. QED
    BY <1>1, <1>2

(* A bearer goes out only under a proof no older than the TTL and one      *)
(* probe, whatever the listeners at the origins do and however many        *)
(* requests share the cache (peer_holds_token).                            *)
THEOREM Proved == PeerSpec => []SentWasProved
  <1>1. PeerInit => PeerInv
    BY PeerStarts
  <1>2. PeerInv /\ [PeerNext]_pvars => PeerInv'
    BY CallerKeeps, WorldKeeps DEF PeerNext
  <1>3. PeerInv => SentWasProved
    BY DEF PeerInv
  <1>4. QED
    BY <1>1, <1>2, <1>3, PTL DEF PeerSpec

-----------------------------------------------------------------------------
(* The handoff.                                                            *)

Listening == {"bound", "written", "serving", "unpublished"}

(* A run that has bound the port and not stopped is its listener, and one  *)
(* that removes a file is another's loss only where that one raced it.     *)
Overlap ==
    /\ \A g \in RunIds : run[g] \in Listening => listener = g
    /\ \A p, g \in RunIds : run[p] = "removing" /\ run[g] = "serving" => g \in raced

HandoffTypeOK ==
    /\ run \in [RunIds -> RunStates]
    /\ listener \in RunIds \cup {None, Other} /\ handoff \in RunIds \cup {None}
    /\ temps \subseteq {g \in RunIds : run[g] \notin {"off", "bound", "serving"}} /\ raced \subseteq RunIds
    /\ client \in [Clients -> [at : ClientStates, token : RunIds \cup {None}, by : RunIds \cup {None}]]

HandoffInv == HandoffTypeOK /\ Overlap /\ LiveStaysPublished

(* Nobody has started.                                                     *)
LEMMA HandoffStarts == HandoffInit => HandoffInv
  BY HandoffAssumption
     DEF HandoffAssumption, HandoffInit, HandoffInv, HandoffTypeOK, Overlap, LiveStaysPublished,
         Listening, RunStates, ClientStates

(* What a run does, to its end, keeps the handoff of every other run.      *)
LEMMA RunKeeps ==
    ASSUME HandoffInv, NEW g \in RunIds, RunStep(g)
    PROVE  HandoffInv'
  <1> USE HandoffAssumption
      DEF HandoffAssumption, HandoffInv, HandoffTypeOK, RunStates, Listening, Becomes
  <1>1. CASE Starts(g)
    BY <1>1 DEF Starts, Overlap, LiveStaysPublished
  <1>2. CASE WritesTemp(g)
    BY <1>2 DEF WritesTemp, Overlap, LiveStaysPublished
  <1>3. CASE Renames(g)
    <2>1. HandoffTypeOK'
      BY <1>3 DEF Renames
    <2>2. \A p \in RunIds : p # g => run[p] \notin Listening
      BY <1>3 DEF Renames, Overlap
    <2>3. Overlap' /\ LiveStaysPublished'
      BY <1>3, <2>2 DEF Renames, Overlap, LiveStaysPublished
    <2>4. QED
      BY <2>1, <2>3
  <1>4. CASE Stops(g)
    <2>1. \A p \in RunIds : p # g => run[p] \notin Listening
      BY <1>4 DEF Stops, Overlap
    <2>2. QED
      BY <1>4, <2>1 DEF Stops, Overlap, LiveStaysPublished
  <1>5. CASE Withdraws(g)
    BY <1>5 DEF Withdraws, Overlap, LiveStaysPublished
  <1>6. CASE Removes(g)
    BY <1>6 DEF Removes, Overlap, LiveStaysPublished
  <1>7. CASE Dies(g)
    BY <1>7 DEF Dies, Overlap, LiveStaysPublished
  <1>8. QED
    BY <1>1, <1>2, <1>3, <1>4, <1>5, <1>6, <1>7 DEF RunStep

(* Clients and strangers at the port touch neither runs nor handoff.       *)
LEMMA OthersKeep ==
    ASSUME HandoffInv,
           \/ PortTaken \/ PortFreed \/ UNCHANGED handoffVars
           \/ \E k \in Clients : ClientStep(k) \/ ClientAgain(k)
    PROVE  HandoffInv'
  <1> USE HandoffAssumption
      DEF HandoffAssumption, HandoffInv, HandoffTypeOK, RunStates, Listening
  <1>1. CASE PortTaken \/ PortFreed
    BY <1>1 DEF PortTaken, PortFreed, Overlap, LiveStaysPublished
  <1>2. CASE UNCHANGED handoffVars
    BY <1>2 DEF handoffVars, Overlap, LiveStaysPublished
  <1>3. ASSUME NEW k \in Clients, ClientStep(k) \/ ClientAgain(k)
        PROVE  HandoffInv'
    <2>1. /\ UNCHANGED <<run, listener, handoff, temps, raced>>
          /\ \E at \in ClientStates, token, by \in RunIds \cup {None} :
               /\ client' = [client EXCEPT ![k] = [at |-> at, token |-> token, by |-> by]]
               /\ at = "served" => by = token
      BY <1>3 DEF ClientStep, ClientAgain, Loads, Probes, ProbeGivesUp, Requests,
                  RequestGivesUp, FallsBack, Turns, Authorizes, ClientStates
    <2>2. HandoffTypeOK'
      BY <2>1
    <2>3. \A c \in Clients : client'[c].at = "served" => client'[c].by = client'[c].token
      BY <2>1 DEF LiveStaysPublished
    <2>4. QED
      BY <2>1, <2>2, <2>3 DEF Overlap, LiveStaysPublished
  <1>4. QED
    BY <1>1, <1>2, <1>3

-----------------------------------------------------------------------------
(* The two together.                                                       *)

(* Loopback is one of the worlds that PeerProof allows for: its callers    *)
(* and its clock are the same, and a sidecar that comes or goes changes    *)
(* who holds what and nothing else.                                        *)
THEOREM LoopbackIsAWorld == Spec => PeerSpec
  <1>1. Init => PeerInit
    BY DEF Init
  <1>2. [Next]_vars => [PeerNext]_pvars
    <2> SUFFICES ASSUME [Next]_vars
                 PROVE  PeerNext \/ UNCHANGED pvars
      OBVIOUS
    <2>1. \A who : Held(who) \subseteq Keys
      BY LoopbackAssumption DEF LoopbackAssumption, Held
    <2>2. CASE HandoffNext /\ holders' = Held(listener') /\ UNCHANGED <<now, peerVars>>
      BY <2>1, <2>2 DEF PeerNext, WorldChanges, peerVars
    <2>3. CASE (\E a \in Callers : CallerStep(a)) \/ Ticks
      BY <2>3 DEF PeerNext
    <2>4. CASE UNCHANGED vars
      BY <2>4 DEF vars, pvars
    <2>5. QED
      BY <2>2, <2>3, <2>4 DEF Next
  <1>3. QED
    BY <1>1, <1>2, PTL DEF Spec, PeerSpec

(* A bearer goes out under a young proof while runs come and go.           *)
THEOREM SentIsProved == Spec => []SentWasProved
  BY LoopbackIsAWorld, Proved, PTL

(* The invariant of the handoff in the composed system.                    *)
LEMMA HandoffHolds == Spec => []HandoffInv
  <1>1. Init => HandoffInv
    BY HandoffStarts DEF Init
  <1>2. HandoffInv /\ [Next]_vars => HandoffInv'
    <2> SUFFICES ASSUME HandoffInv, [Next]_vars
                 PROVE  HandoffInv'
      OBVIOUS
    <2>1. CASE HandoffNext
      BY <2>1, RunKeeps, OthersKeep DEF HandoffNext
    <2>2. CASE UNCHANGED handoffVars
      BY <2>2, OthersKeep
    <2>3. QED
      BY <2>1, <2>2 DEF Next, vars
  <1>3. QED
    BY <1>1, <1>2, PTL DEF Spec

(* However many runs overlap, withdrawing costs no younger run its         *)
(* handoff but in the race named, and a client is served by the run it     *)
(* looked for (withdraw, authorize).                                       *)
THEOREM StaysPublished == Spec => []LiveStaysPublished
  <1>1. HandoffInv => LiveStaysPublished
    BY DEF HandoffInv
  <1>2. QED
    BY <1>1, HandoffHolds, PTL

(* The types of both parts, no temporary file left by a run that serves,   *)
(* and the listener's secret the one of its run.                           *)
THEOREM Typing == Spec => []TypeOK
  <1>1. PeerInit => PeerInv
    BY PeerStarts
  <1>2. PeerInv /\ [PeerNext]_pvars => PeerInv'
    BY CallerKeeps, WorldKeeps DEF PeerNext
  <1>3. Init => holders = Held(listener)
    BY HandoffAssumption DEF Init, HandoffInit, HandoffAssumption, Held
  <1>4. holders = Held(listener) /\ [Next]_vars => (holders = Held(listener))'
    BY DEF Next, vars, pvars, handoffVars, CallerStep, Asks, PeerAnswers, ProbeTimesOut,
           Concludes, Sends, Ticks, Held
  <1>5. PeerInv /\ HandoffInv /\ holders = Held(listener) => TypeOK
    BY DEF PeerInv, HandoffInv, HandoffTypeOK, TypeOK
  <1>6. QED
    BY <1>1, <1>2, <1>3, <1>4, <1>5, HandoffHolds, LoopbackIsAWorld, PTL
       DEF Spec, PeerSpec
=============================================================================
