------------------------ MODULE ClientExecutor_proofs ------------------------
(***************************************************************************)
(* Proofs about ClientExecutor, for any number of executions, any reuse of *)
(* ids, all limits and all combinations of faults.                         *)
(***************************************************************************)
EXTENDS ClientExecutor, FiniteSetTheorems, TLAPS

(***************************************************************************)
(* The inductive invariant.  An operation of the executor is a chain of    *)
(* transitions of its state, any of which may be the last, so the          *)
(* invariant is a predicate Good of one such state that every link keeps.  *)
(* Its core is the life of an id: the request that the peer last received  *)
(* with the id of a pending or abandoned execution is that execution, and  *)
(* whatever ended is buried for as long as an answer to it may come.       *)
(***************************************************************************)
ExFields == {"pending", "idle", "absolute", "stream", "tombs", "retained", "deferred",
             "notes", "stray", "ingress", "error", "shutdown",
             "ended", "outcome", "from", "latest", "told"}

Env == IdOf \in [Execs -> Ids] /\ now \in Nat

Typed(s) ==
  /\ DOMAIN s = ExFields
  /\ s.pending \subseteq Execs /\ DOMAIN s.retained \subseteq Execs
  /\ DOMAIN s.tombs \subseteq Ids /\ \A i \in DOMAIN s.tombs : s.tombs[i].expires \in Nat
  /\ s.outcome \in [Execs -> Outcomes] /\ s.from \in [Execs -> Execs \cup {None}]
  /\ s.idle \in [Execs -> Nat] /\ s.absolute \in [Execs -> Nat]
  /\ s.stream \in [Execs -> 0..MaxActivity] /\ s.told \in [Execs -> Nat]
  /\ s.ended \in [Execs -> 0..now]
  /\ DOMAIN s.latest = Ids /\ s.deferred \in Seq(Execs)
  /\ s.notes \in 0..MaxActivity /\ s.stray \in 0..MaxActivity
  /\ s.ingress \in {"unclaimed", "self", "external"}
  /\ s.error \in BOOLEAN /\ s.shutdown \in BOOLEAN

\* pending and tombstones share one namespace.
OneNamespace(s) ==
  /\ \A e, f \in s.pending : IdOf[e] = IdOf[f] => e = f
  /\ \A e \in s.pending : IdOf[e] \notin DOMAIN s.tombs

Counted(s) ==
  /\ IsFiniteSet(DOMAIN s.tombs)
  /\ Cardinality(s.pending) + Cardinality(DOMAIN s.tombs) <= MaxCorrelations
  /\ Cardinality(s.pending) <= MaxInFlight

\* A pending execution has nothing behind it, and the peer knows its id as its.
PendingIsFresh(s) ==
  \A e \in s.pending : /\ s.outcome[e] = "none" /\ s.told[e] = 0
                       /\ s.latest[IdOf[e]] = e /\ s.idle[e] <= s.absolute[e]

\* The cancellation that a dropped handle left behind still names its request.
DeferredIsDropped(s) ==
  \A j \in DOMAIN s.deferred :
    LET e == s.deferred[j] IN
    s.outcome[e] = "dropped" /\ s.told[e] = 0 /\ s.latest[IdOf[e]] = e

\* The id of an execution that ended is kept away for the whole retention.
EndedIsBuried(s) ==
  ~s.error => \A e \in Execs :
    s.outcome[e] # "none" /\ now < s.ended[e] + Retention
      => /\ IdOf[e] \in DOMAIN s.tombs
         /\ s.ended[e] + Retention <= s.tombs[IdOf[e]].expires

GivenUp == {"caller", "dropped", "idle", "absolute", "shutdown"}

\* CancelReachesItsRequest, of one state.
ToldOnce(s) ==
  \A e \in Execs : s.told[e] > 0 => s.told[e] = 1 /\ s.outcome[e] \in GivenUp

RetainedHasEnded(s) == \A e \in DOMAIN s.retained : s.outcome[e] # "none"

FailedIsEmpty(s) == s.error => s.pending = {} /\ s.deferred = <<>>

\* AnswersMatch, of one state: it depends on the patience of the peer.
Matched(s) ==
  Patience < Retention =>
    \A e \in Execs : s.outcome[e] \in {"response", "badResult"} => s.from[e] = e

Sound(s) == /\ Typed(s)
            /\ OneNamespace(s)
            /\ Counted(s)
            /\ PendingIsFresh(s)
            /\ EndedIsBuried(s)
            /\ ToldOnce(s)
            /\ RetainedHasEnded(s)
            /\ FailedIsEmpty(s)
            /\ Matched(s)

Good(s) == Sound(s) /\ DeferredIsDropped(s)

\* Where the owners are, in the state s of the executor.
Owned(s) ==
  \A e \in Execs :
    /\ pc[e] = "new" => e \notin s.pending /\ s.outcome[e] = "none"
    /\ pc[e] # "new" => e \in s.pending \/ s.outcome[e] # "none"
    /\ pc[e] = "done" => s.outcome[e] # "none" /\ e \notin DOMAIN s.retained

IInv == /\ scenario \in Scenarios /\ now \in 0..MaxTime
        /\ pc \in [Execs -> {"new", "live", "waiting", "checked", "reading", "done", "gone"}]
        /\ dropped \subseteq Execs /\ lock \in Execs \cup {None}
        /\ lock # None => ex.ingress = "self" /\ pc[lock] = "reading"
        /\ Good(ex)
        /\ Owned(ex)


-----------------------------------------------------------------------------
(* How an operation may change the state of the executor. *)

\* u is s but for the fields in F.
Same(s, u, F) == DOMAIN u = ExFields /\ \A f \in ExFields \ F : u[f] = s[f]

\* Executions leave pending with an outcome and in no other way change theirs;
\* nothing is admitted, and no absolute deadline moves.
Evolves(s, u) ==
  /\ u.pending \subseteq s.pending /\ u.ingress = s.ingress
  /\ DOMAIN u.retained \subseteq DOMAIN s.retained \cup s.pending
  /\ \A e \in Execs :
       /\ e \notin s.pending => /\ u.outcome[e] = s.outcome[e] /\ u.from[e] = s.from[e]
                                /\ u.ended[e] = s.ended[e]
       /\ e \in u.pending => u.absolute[e] = s.absolute[e]
       /\ e \in s.pending \ u.pending => u.outcome[e] # "none" /\ u.ended[e] = now

\* Besides, no response is given and no idle deadline moves.
Quiet(s, u) ==
  /\ Evolves(s, u)
  /\ \A e \in Execs : /\ e \in u.pending => u.idle[e] = s.idle[e]
                      /\ u.outcome[e] = "response" => s.outcome[e] = "response"

\* Both relations compose.
LEMMA EvolvesComposes ==
  ASSUME NEW s, NEW u, NEW w, Evolves(s, u), Evolves(u, w) PROVE Evolves(s, w)
BY DEF Evolves

LEMMA QuietComposes ==
  ASSUME NEW s, NEW u, NEW w, Quiet(s, u), Quiet(u, w) PROVE Quiet(s, w)
BY EvolvesComposes DEF Quiet, Evolves

-----------------------------------------------------------------------------
(* The fields that the transitions of the executor change. *)

LEMMA PruneTombstonesFields ==
  ASSUME NEW s, DOMAIN s = ExFields, NEW u, u = PruneTombstones(s)
  PROVE  /\ Same(s, u, {"tombs"})
         /\ DOMAIN u.tombs = {i \in DOMAIN s.tombs : s.tombs[i].expires > now}
         /\ \A i \in DOMAIN u.tombs : u.tombs[i] = s.tombs[i]
BY DEF PruneTombstones, Same, ExFields, Restrict

LEMMA PruneRetainedFields ==
  ASSUME NEW s, DOMAIN s = ExFields, s.stream \in [Execs -> 0..MaxActivity],
         NEW u, u = PruneRetained(s)
  PROVE  /\ Same(s, u, {"retained", "stream"})
         /\ DOMAIN u.retained \subseteq DOMAIN s.retained
         /\ u.stream \in [Execs -> 0..MaxActivity]
<1>. DEFINE old == {e \in DOMAIN s.retained : s.retained[e] <= now}
<1>1. /\ Same(s, u, {"retained", "stream"}) /\ DOMAIN u.retained = DOMAIN s.retained \ old
      /\ u.stream = [e \in Execs |-> IF e \in old THEN 0 ELSE s.stream[e]]
  BY DEF PruneRetained, Same, ExFields, Restrict
<1>. HIDE DEF old
<1>. QED BY <1>1, NumberAssumption

LEMMA ReleaseFields ==
  ASSUME NEW s, DOMAIN s = ExFields, NEW S, NEW u, u = Release(s, S)
  PROVE  Same(s, u, {"retained"}) /\ DOMAIN u.retained = DOMAIN s.retained \ S
BY DEF Release, Same, ExFields, Restrict

LEMMA HushFields ==
  ASSUME NEW s, DOMAIN s = ExFields, s.stream \in [Execs -> 0..MaxActivity],
         NEW S, NEW u, u = Hush(s, S)
  PROVE  Same(s, u, {"stream"}) /\ u.stream \in [Execs -> 0..MaxActivity]
BY NumberAssumption DEF Hush, Same, ExFields

-----------------------------------------------------------------------------
(* Every transition keeps a good state good. *)

\* Tables that are not read by the invariant may change freely.
LEMMA StreamsAreFree ==
  ASSUME Env, NEW s, Good(s), NEW u, Same(s, u, {"retained", "stream"}),
         DOMAIN u.retained \subseteq DOMAIN s.retained, u.stream \in [Execs -> 0..MaxActivity]
  PROVE  Good(u) /\ Quiet(s, u)
<1>1. /\ u.pending = s.pending /\ u.idle = s.idle /\ u.absolute = s.absolute
      /\ u.tombs = s.tombs /\ u.deferred = s.deferred /\ u.notes = s.notes
      /\ u.stray = s.stray /\ u.ingress = s.ingress /\ u.error = s.error
      /\ u.shutdown = s.shutdown /\ u.ended = s.ended /\ u.outcome = s.outcome
      /\ u.from = s.from /\ u.latest = s.latest /\ u.told = s.told /\ DOMAIN u = ExFields
  BY DEF Same, ExFields
<1>2. Typed(u)
  BY <1>1 DEF Good, Sound, Typed
<1>3. OneNamespace(u) /\ Counted(u) /\ PendingIsFresh(u) /\ DeferredIsDropped(u)
  BY <1>1 DEF Good, Sound, OneNamespace, Counted, PendingIsFresh, DeferredIsDropped
<1>4. EndedIsBuried(u) /\ ToldOnce(u) /\ RetainedHasEnded(u) /\ FailedIsEmpty(u) /\ Matched(u)
  BY <1>1 DEF Good, Sound, EndedIsBuried, ToldOnce, RetainedHasEnded, FailedIsEmpty, Matched
<1>5. Quiet(s, u)
  BY <1>1 DEF Quiet, Evolves
<1>. QED BY <1>2, <1>3, <1>4, <1>5 DEF Good, Sound


\* Pruned terminals and consumed streams.
LEMMA PruneRetainedKeeps ==
  ASSUME Env, NEW s, Good(s) PROVE Good(PruneRetained(s)) /\ Quiet(s, PruneRetained(s))
<1>. DEFINE u == PruneRetained(s)
<1>1. DOMAIN s = ExFields /\ s.stream \in [Execs -> 0..MaxActivity]
  BY DEF Good, Sound, Typed
<1>2. /\ Same(s, u, {"retained", "stream"}) /\ DOMAIN u.retained \subseteq DOMAIN s.retained
      /\ u.stream \in [Execs -> 0..MaxActivity]
  BY <1>1, PruneRetainedFields
<1>. HIDE DEF u
<1>3. Good(u) /\ Quiet(s, u)
  BY <1>2, StreamsAreFree
<1>. QED BY <1>3 DEF u

LEMMA HushKeeps ==
  ASSUME Env, NEW s, Good(s), NEW S PROVE Good(Hush(s, S)) /\ Quiet(s, Hush(s, S))
<1>. DEFINE u == Hush(s, S)
<1>1. DOMAIN s = ExFields /\ s.stream \in [Execs -> 0..MaxActivity]
  BY DEF Good, Sound, Typed
<1>2. Same(s, u, {"stream"}) /\ u.stream \in [Execs -> 0..MaxActivity]
  BY <1>1, HushFields
<1>. HIDE DEF u
<1>3. Same(s, u, {"retained", "stream"}) /\ u.retained = s.retained
  BY <1>2 DEF Same, ExFields
<1>4. Good(u) /\ Quiet(s, u)
  BY <1>2, <1>3, StreamsAreFree
<1>. QED BY <1>4 DEF u

LEMMA ReleaseKeeps ==
  ASSUME Env, NEW s, Good(s), NEW S PROVE Good(Release(s, S)) /\ Quiet(s, Release(s, S))
<1>. DEFINE u == Release(s, S)
<1>1. DOMAIN s = ExFields /\ s.stream \in [Execs -> 0..MaxActivity]
  BY DEF Good, Sound, Typed
<1>2. Same(s, u, {"retained"}) /\ DOMAIN u.retained \subseteq DOMAIN s.retained
  BY <1>1, ReleaseFields
<1>. HIDE DEF u
<1>3. Same(s, u, {"retained", "stream"}) /\ u.stream = s.stream
  BY <1>2 DEF Same, ExFields
<1>4. Good(u) /\ Quiet(s, u)
  BY <1>1, <1>2, <1>3, StreamsAreFree
<1>. QED BY <1>4 DEF u

\* A tombstone is pruned only when its retention is over.
LEMMA PruneTombstonesKeeps ==
  ASSUME Env, NEW s, Good(s) PROVE Good(PruneTombstones(s)) /\ Quiet(s, PruneTombstones(s))
<1>. DEFINE u == PruneTombstones(s)
<1>1. /\ Same(s, u, {"tombs"})
      /\ DOMAIN u.tombs = {i \in DOMAIN s.tombs : s.tombs[i].expires > now}
      /\ \A i \in DOMAIN u.tombs : u.tombs[i] = s.tombs[i]
  BY PruneTombstonesFields DEF Good, Sound, Typed
<1>. HIDE DEF u
<1>2. /\ u.pending = s.pending /\ u.idle = s.idle /\ u.absolute = s.absolute
      /\ u.stream = s.stream /\ u.retained = s.retained /\ u.deferred = s.deferred
      /\ u.notes = s.notes /\ u.stray = s.stray /\ u.ingress = s.ingress /\ u.error = s.error
      /\ u.shutdown = s.shutdown /\ u.ended = s.ended /\ u.outcome = s.outcome
      /\ u.from = s.from /\ u.latest = s.latest /\ u.told = s.told /\ DOMAIN u = ExFields
  BY <1>1 DEF Same, ExFields
<1>3. Typed(u) /\ OneNamespace(u)
  BY <1>1, <1>2 DEF Good, Sound, Typed, OneNamespace
<1>4. Counted(u)
  <2>1. DOMAIN u.tombs \subseteq DOMAIN s.tombs
    BY <1>1
  <2>2. /\ IsFiniteSet(DOMAIN u.tombs) /\ Cardinality(DOMAIN u.tombs) \in Nat
        /\ Cardinality(DOMAIN s.tombs) \in Nat
        /\ Cardinality(DOMAIN u.tombs) <= Cardinality(DOMAIN s.tombs)
    BY <2>1, FS_Subset, FS_CardinalityType DEF Good, Sound, Counted
  <2>3. Cardinality(s.pending) \in Nat
    BY FS_Subset, FS_CardinalityType, ExecutionAssumption DEF Good, Sound, Typed
  <2>. QED BY <1>2, <2>2, <2>3, NumberAssumption DEF Good, Sound, Counted
<1>5. PendingIsFresh(u) /\ DeferredIsDropped(u) /\ ToldOnce(u) /\ RetainedHasEnded(u)
      /\ FailedIsEmpty(u) /\ Matched(u)
  BY <1>2 DEF Good, Sound, PendingIsFresh, DeferredIsDropped, ToldOnce, RetainedHasEnded,
     FailedIsEmpty, Matched
<1>6. EndedIsBuried(u)
  <2>. SUFFICES ASSUME ~s.error, NEW e \in Execs, s.outcome[e] # "none",
                       now < s.ended[e] + Retention
                PROVE  /\ IdOf[e] \in DOMAIN u.tombs
                       /\ s.ended[e] + Retention <= u.tombs[IdOf[e]].expires
    BY <1>2 DEF EndedIsBuried
  <2>1. /\ IdOf[e] \in DOMAIN s.tombs
        /\ s.ended[e] + Retention <= s.tombs[IdOf[e]].expires
    BY DEF Good, Sound, EndedIsBuried
  <2>2. s.tombs[IdOf[e]].expires \in Nat /\ s.ended[e] \in Nat
    BY <2>1 DEF Good, Sound, Typed
  <2>. QED BY <1>1, <2>1, <2>2, NumberAssumption DEF Env
<1>7. Quiet(s, u)
  BY <1>2 DEF Quiet, Evolves
<1>8. Good(u) /\ Quiet(s, u)
  BY <1>3, <1>4, <1>5, <1>6, <1>7 DEF Good, Sound
<1>. QED BY <1>8 DEF u


\* The executions S end in the step from s to u, with the outcomes why, and the
\* ids of S are buried.
EndsAs(s, u, S, why) ==
  /\ Same(s, u, {"pending", "retained", "outcome", "ended", "idle", "absolute", "tombs", "from",
                 "stream"})
  /\ u.pending = s.pending \ S /\ DOMAIN u.retained \subseteq DOMAIN s.retained \cup S
  /\ u.outcome = [e \in Execs |-> IF e \in S THEN why[e] ELSE s.outcome[e]]
  /\ u.ended = [e \in Execs |-> IF e \in S THEN now ELSE s.ended[e]]
  /\ u.idle = [e \in Execs |-> IF e \in S THEN 0 ELSE s.idle[e]]
  /\ u.absolute = [e \in Execs |-> IF e \in S THEN 0 ELSE s.absolute[e]]
  /\ DOMAIN u.tombs = DOMAIN s.tombs \cup {IdOf[e] : e \in S}
  /\ \A i \in DOMAIN u.tombs :
       u.tombs[i].expires = IF i \in {IdOf[e] : e \in S} THEN now + Retention
                            ELSE s.tombs[i].expires

\* What moves from pending to the tombstones needs no more room there.
LEMMA BuryingCounts ==
  ASSUME Env, NEW s, Good(s), NEW S \in SUBSET s.pending, NEW u, NEW why, EndsAs(s, u, S, why)
  PROVE  Counted(u)
<1>. DEFINE T == {IdOf[e] : e \in S}
            f == [e \in S |-> IdOf[e]]
<1>1. /\ IsFiniteSet(s.pending) /\ IsFiniteSet(S) /\ IsFiniteSet(u.pending)
      /\ u.pending = s.pending \ S
  BY ExecutionAssumption, FS_Subset DEF Good, Sound, Typed, EndsAs
<1>2. f \in Surjection(S, T)
  BY DEF Surjection
<1>3. IsFiniteSet(T) /\ Cardinality(T) <= Cardinality(S)
  BY <1>1, <1>2, FS_Surjection
<1>4. IsFiniteSet(DOMAIN s.tombs) /\ DOMAIN u.tombs = DOMAIN s.tombs \cup T
  BY DEF Good, Sound, Counted, EndsAs
<1>. HIDE DEF T, f
<1>5. /\ IsFiniteSet(DOMAIN u.tombs) /\ IsFiniteSet(DOMAIN s.tombs \cap T)
      /\ Cardinality(DOMAIN u.tombs)
           = Cardinality(DOMAIN s.tombs) + Cardinality(T) - Cardinality(DOMAIN s.tombs \cap T)
  BY <1>3, <1>4, FS_Union, FS_Intersection
<1>6. Cardinality(u.pending) = Cardinality(s.pending) - Cardinality(S)
  <2>1. s.pending \cap S = S
    OBVIOUS
  <2>. QED BY <1>1, <2>1, FS_Difference
<1>7. /\ Cardinality(s.pending) \in Nat /\ Cardinality(S) \in Nat /\ Cardinality(T) \in Nat
      /\ Cardinality(DOMAIN s.tombs) \in Nat /\ Cardinality(DOMAIN s.tombs \cap T) \in Nat
  BY <1>1, <1>3, <1>4, <1>5, FS_CardinalityType
<1>. QED BY <1>3, <1>5, <1>6, <1>7, NumberAssumption DEF Good, Sound, Counted

\* One terminal transition, for pending executions only: a response if it comes
\* from the execution it is given to, or anything else.
LEMMA EndingKeeps ==
  ASSUME Env, NEW s, Good(s), NEW S \in SUBSET s.pending, NEW u, NEW why, EndsAs(s, u, S, why),
         \A e \in S : why[e] \in Outcomes \ {"none"},
         u.stream \in [Execs -> 0..MaxActivity],
         u.from \in [Execs -> Execs \cup {None}],
         \A e \in Execs \ S : u.from[e] = s.from[e],
         Patience < Retention =>
           \A e \in S : why[e] \in {"response", "badResult"} => u.from[e] = e
  PROVE  Good(u) /\ Evolves(s, u)
<1>1. /\ u.deferred = s.deferred /\ u.notes = s.notes /\ u.stray = s.stray
      /\ u.ingress = s.ingress /\ u.error = s.error /\ u.shutdown = s.shutdown
      /\ u.latest = s.latest /\ u.told = s.told /\ DOMAIN u = ExFields
  BY DEF EndsAs, Same, ExFields
<1>2. Typed(s) /\ S \subseteq Execs
  BY DEF Good, Sound, Typed
<1>3. Typed(u)
  <2>1. u.outcome \in [Execs -> Outcomes] /\ u.ended \in [Execs -> 0..now]
    BY <1>2 DEF EndsAs, Typed, Env
  <2>2. u.idle \in [Execs -> Nat] /\ u.absolute \in [Execs -> Nat]
    BY <1>2 DEF EndsAs, Typed
  <2>3. ASSUME NEW i \in DOMAIN u.tombs PROVE u.tombs[i].expires \in Nat
    <3>1. CASE i \in {IdOf[e] : e \in S}
      BY <3>1, NumberAssumption DEF EndsAs, Env
    <3>2. CASE i \notin {IdOf[e] : e \in S}
      BY <1>2, <3>2 DEF EndsAs, Typed
    <3>. QED BY <3>1, <3>2
  <2>4. DOMAIN u.tombs \subseteq Ids
    BY <1>2 DEF EndsAs, Typed, Env
  <2>. QED BY <1>1, <1>2, <2>1, <2>2, <2>3, <2>4 DEF EndsAs, Typed
<1>4. OneNamespace(u)
  BY DEF Good, Sound, OneNamespace, EndsAs
<1>5. Counted(u)
  BY BuryingCounts
<1>6. PendingIsFresh(u)
  <2>1. \A e \in u.pending :
          /\ e \in s.pending /\ u.outcome[e] = s.outcome[e]
          /\ u.idle[e] = s.idle[e] /\ u.absolute[e] = s.absolute[e]
    BY <1>2 DEF Typed, EndsAs
  <2>. QED BY <1>1, <2>1 DEF Good, Sound, PendingIsFresh
<1>7. \A e \in S : s.outcome[e] = "none" /\ s.told[e] = 0
  BY DEF Good, Sound, PendingIsFresh
<1>8. DeferredIsDropped(u)
  <2>. SUFFICES ASSUME NEW j \in DOMAIN s.deferred PROVE DeferredIsDropped(u)!(j)
    BY <1>1 DEF DeferredIsDropped
  <2>1. s.deferred[j] \in Execs /\ DeferredIsDropped(s)!(j)
    BY <1>2 DEF Good, Sound, Typed, DeferredIsDropped
  <2>. QED BY <1>1, <1>7, <2>1 DEF EndsAs
<1>9. EndedIsBuried(u)
  <2>. SUFFICES ASSUME ~s.error, NEW e \in Execs, u.outcome[e] # "none",
                       now < u.ended[e] + Retention
                PROVE  /\ IdOf[e] \in DOMAIN u.tombs
                       /\ u.ended[e] + Retention <= u.tombs[IdOf[e]].expires
    BY <1>1 DEF EndedIsBuried
  <2>1. u.ended[e] \in 0..now
    BY <1>3 DEF Typed
  <2>2. CASE IdOf[e] \in {IdOf[d] : d \in S}
    BY <2>1, <2>2, NumberAssumption DEF EndsAs, Env
  <2>3. CASE IdOf[e] \notin {IdOf[d] : d \in S}
    <3>1. e \notin S /\ u.outcome[e] = s.outcome[e] /\ u.ended[e] = s.ended[e]
      BY <2>3 DEF EndsAs
    <3>2. IdOf[e] \in DOMAIN s.tombs /\ s.ended[e] + Retention <= s.tombs[IdOf[e]].expires
      BY <3>1 DEF Good, Sound, EndedIsBuried
    <3>. QED BY <2>3, <3>1, <3>2 DEF EndsAs
  <2>. QED BY <2>2, <2>3
<1>10. ToldOnce(u) /\ RetainedHasEnded(u) /\ FailedIsEmpty(u)
  BY <1>1, <1>2, <1>7 DEF Good, Sound, Typed, ToldOnce, RetainedHasEnded, FailedIsEmpty, EndsAs
<1>11. Matched(u)
  BY <1>2 DEF Good, Sound, Matched, EndsAs
<1>12. Evolves(s, u)
  BY <1>1, <1>2 DEF Evolves, EndsAs
<1>. QED BY <1>3, <1>4, <1>5, <1>6, <1>8, <1>9, <1>10, <1>11, <1>12 DEF Good, Sound


Given == Outcomes \ {"none", "response", "badResult"}

\* Nothing but S is ended, unless with the connection.
Spares(s, u, S) == \A e \in Execs \ S : u.outcome[e] \in {s.outcome[e], "lost"}

\* The executions S leave pending, with outcomes that no peer gave.
Cancels(s, u, S, why) ==
  /\ Good(u) /\ Quiet(s, u)
  /\ u.pending = s.pending \ S /\ u.deferred = s.deferred
  /\ \A e \in S : u.outcome[e] = why[e] /\ u.told[e] = 0 /\ u.latest[IdOf[e]] = e
  /\ Spares(s, u, S)

\* Cancelled, before anything is sent.
LEMMA CancelledKeeps ==
  ASSUME Env, NEW s, Good(s), NEW S \in SUBSET s.pending, NEW why, \A e \in S : why[e] \in Given
  PROVE  Cancels(s, Cancelled(s, S, why), S, why)
<1>. DEFINE s1 == Retain(s, S, why)
            s2 == Bury(s1, S, FALSE)
            u == Cancelled(s, S, why)
<1>1. Typed(s) /\ S \subseteq Execs
  BY DEF Good, Sound, Typed
<1>2. /\ Same(s, s1, {"pending", "retained", "outcome", "ended", "idle", "absolute"})
      /\ s1.pending = s.pending \ S /\ DOMAIN s1.retained = DOMAIN s.retained \cup S
      /\ s1.outcome = [e \in Execs |-> IF e \in S THEN why[e] ELSE s.outcome[e]]
      /\ s1.ended = [e \in Execs |-> IF e \in S THEN now ELSE s.ended[e]]
      /\ s1.idle = [e \in Execs |-> IF e \in S THEN 0 ELSE s.idle[e]]
      /\ s1.absolute = [e \in Execs |-> IF e \in S THEN 0 ELSE s.absolute[e]]
  BY <1>1 DEF Typed, Retain, Same, ExFields, Put
<1>. HIDE DEF s1
<1>3. /\ Same(s1, s2, {"tombs"})
      /\ DOMAIN s2.tombs = DOMAIN s1.tombs \cup {IdOf[e] : e \in S}
      /\ \A i \in DOMAIN s2.tombs :
           s2.tombs[i].expires = IF i \in {IdOf[e] : e \in S} THEN now + Retention
                                 ELSE s1.tombs[i].expires
  BY <1>2 DEF Bury, Same, ExFields, Put
<1>4. u = Hush(s2, S)
  BY DEF Cancelled, s1
<1>. HIDE DEF s2, u
<1>5. Same(s2, u, {"stream"}) /\ u.stream \in [Execs -> 0..MaxActivity]
  <2>1. DOMAIN s2 = ExFields /\ s2.stream \in [Execs -> 0..MaxActivity]
    BY <1>1, <1>2, <1>3 DEF Same, ExFields, Typed
  <2>. QED BY <2>1, <1>4, HushFields
<1>6. EndsAs(s, u, S, why) /\ u.from = s.from
  BY <1>2, <1>3, <1>5 DEF EndsAs, Same, ExFields
<1>7. Good(u) /\ Evolves(s, u)
  BY <1>1, <1>5, <1>6, EndingKeeps DEF Given, Typed
<1>8. Quiet(s, u)
  BY <1>1, <1>6, <1>7 DEF Quiet, EndsAs, Given, Typed
<1>9. /\ u.pending = s.pending \ S /\ u.deferred = s.deferred
      /\ \A e \in S : u.outcome[e] = why[e] /\ u.told[e] = 0 /\ u.latest[IdOf[e]] = e
  <2>1. u.latest = s.latest /\ u.told = s.told /\ u.deferred = s.deferred
    BY <1>6 DEF EndsAs, Same, ExFields
  <2>. QED BY <1>1, <1>6, <2>1 DEF Good, Sound, PendingIsFresh, EndsAs
<1>10. Spares(s, u, S)
  BY <1>6 DEF EndsAs, Spares
<1>. QED BY <1>7, <1>8, <1>9, <1>10 DEF Cancels, u

\* A notification that names executions that were given up, and that the peer
\* has not been told of, reaches these.
LEMMA TellKeeps ==
  ASSUME Env, NEW s, Good(s), NEW S \in SUBSET Execs,
         \A e \in S : s.outcome[e] \in GivenUp /\ s.told[e] = 0 /\ s.latest[IdOf[e]] = e
  PROVE  LET u == Tell(s, S) IN
         /\ Quiet(s, u) /\ Same(s, u, {"told"})
         /\ Sound(u)
         /\ (\A j \in DOMAIN s.deferred : s.deferred[j] \notin S) => Good(u)
<1>. DEFINE u == Tell(s, S)
<1>1. /\ Same(s, u, {"told"})
      /\ u.told = [e \in Execs |-> IF e \in {s.latest[IdOf[f]] : f \in S \ Initialize}
                                   THEN s.told[e] + 1 ELSE s.told[e]]
  BY DEF Good, Sound, Typed, Tell, Same, ExFields
<1>. HIDE DEF u
<1>3. /\ u.pending = s.pending /\ u.idle = s.idle /\ u.absolute = s.absolute
      /\ u.stream = s.stream /\ u.tombs = s.tombs /\ u.retained = s.retained
      /\ u.deferred = s.deferred
      /\ u.notes = s.notes /\ u.stray = s.stray /\ u.ingress = s.ingress /\ u.error = s.error
      /\ u.shutdown = s.shutdown /\ u.ended = s.ended /\ u.outcome = s.outcome
      /\ u.from = s.from /\ u.latest = s.latest /\ DOMAIN u = ExFields
  BY <1>1 DEF Same, ExFields
<1>4. \A e \in Execs : u.told[e] = IF e \in S \ Initialize THEN 1 ELSE s.told[e]
  <2>1. {s.latest[IdOf[f]] : f \in S \ Initialize} = S \ Initialize
    OBVIOUS
  <2>. QED BY <1>1, <2>1
<1>5. Typed(u) /\ u.told \in [Execs -> Nat]
  <2>1. u.told \in [Execs -> Nat]
    BY <1>1, <1>4 DEF Good, Sound, Typed
  <2>. QED BY <1>3, <2>1 DEF Good, Sound, Typed
<1>6. OneNamespace(u) /\ Counted(u)
  BY <1>3 DEF Good, Sound, OneNamespace, Counted
<1>7. PendingIsFresh(u)
  <2>1. s.pending \subseteq Execs /\ s.pending \cap S = {}
    BY DEF Good, Sound, Typed, PendingIsFresh, GivenUp
  <2>. QED BY <1>3, <1>4, <2>1 DEF Good, Sound, PendingIsFresh
<1>8. EndedIsBuried(u) /\ RetainedHasEnded(u) /\ FailedIsEmpty(u) /\ Matched(u)
  BY <1>3 DEF Good, Sound, EndedIsBuried, RetainedHasEnded, FailedIsEmpty, Matched
<1>9. ToldOnce(u)
  BY <1>3, <1>4 DEF Good, Sound, Typed, ToldOnce
<1>10. Quiet(s, u)
  BY <1>3 DEF Quiet, Evolves
<1>11. ASSUME \A j \in DOMAIN s.deferred : s.deferred[j] \notin S PROVE Good(u)
  <2>1. DeferredIsDropped(u)
    <3>. SUFFICES ASSUME NEW j \in DOMAIN s.deferred PROVE DeferredIsDropped(u)!(j)
      BY <1>3 DEF DeferredIsDropped
    <3>1. s.deferred[j] \in Execs /\ DeferredIsDropped(s)!(j)
      BY DEF Good, Sound, Typed, DeferredIsDropped
    <3>. QED BY <1>3, <1>4, <1>11, <3>1
  <2>. QED BY <2>1, <1>5, <1>6, <1>7, <1>8, <1>9 DEF Good, Sound
<1>12. Sound(u)
  BY <1>5, <1>6, <1>7, <1>8, <1>9 DEF Sound
<1>. QED BY <1>1, <1>10, <1>11, <1>12 DEF u


\* With nothing left to send, a sound state is a good one.
LEMMA ClearKeeps ==
  ASSUME Env, NEW s, Sound(s)
  PROVE  LET w == [s EXCEPT !.deferred = <<>>] IN
         Good(w) /\ Quiet(s, w) /\ Same(s, w, {"deferred"}) /\ w.deferred = <<>>
<1>. DEFINE w == [s EXCEPT !.deferred = <<>>]
<1>1. Same(s, w, {"deferred"}) /\ w.deferred = <<>>
  BY DEF Sound, Typed, Same, ExFields
<1>. HIDE DEF w
<1>2. /\ w.pending = s.pending /\ w.idle = s.idle /\ w.absolute = s.absolute
      /\ w.stream = s.stream /\ w.tombs = s.tombs /\ w.retained = s.retained
      /\ w.notes = s.notes /\ w.stray = s.stray /\ w.ingress = s.ingress /\ w.error = s.error
      /\ w.shutdown = s.shutdown /\ w.ended = s.ended /\ w.outcome = s.outcome
      /\ w.from = s.from /\ w.latest = s.latest /\ w.told = s.told /\ DOMAIN w = ExFields
  BY <1>1 DEF Same, ExFields
<1>3. Typed(w)
  BY <1>1, <1>2 DEF Sound, Typed
<1>4. OneNamespace(w) /\ Counted(w) /\ PendingIsFresh(w) /\ ToldOnce(w)
  BY <1>2 DEF Sound, OneNamespace, Counted, PendingIsFresh, ToldOnce
<1>5. EndedIsBuried(w) /\ RetainedHasEnded(w) /\ FailedIsEmpty(w) /\ Matched(w)
  BY <1>1, <1>2 DEF Sound, EndedIsBuried, RetainedHasEnded, FailedIsEmpty, Matched
<1>6. DeferredIsDropped(w)
  BY <1>1 DEF DeferredIsDropped
<1>7. Quiet(s, w)
  BY <1>2 DEF Quiet, Evolves
<1>. QED BY <1>1, <1>3, <1>4, <1>5, <1>6, <1>7 DEF Good, Sound, w

\* fail_all: every owner gets the loss of the connection, and nothing is left to
\* be sent or to be kept away.
LEMMA FailAllKeeps ==
  ASSUME Env, NEW s, Sound(s)
  PROVE  LET u == FailAll(s) IN
         Good(u) /\ Quiet(s, u) /\ u.error /\ u.pending = {} /\ Spares(s, u, {})
<1>. DEFINE u == FailAll(s)
<1>1. CASE s.error
  <2>1. u = s /\ s.pending = {} /\ s.deferred = <<>>
    BY <1>1 DEF FailAll, Sound, FailedIsEmpty
  <2>2. DeferredIsDropped(s) /\ Quiet(s, s) /\ Spares(s, s, {})
    BY <2>1 DEF DeferredIsDropped, Quiet, Evolves, Spares
  <2>. QED BY <1>1, <2>1, <2>2 DEF Good
<1>2. CASE ~s.error
  <2>. DEFINE s1 == Retain(s, s.pending, [e \in Execs |-> "lost"])
              s2 == Hush(s1, s.pending)
  <2>1. Typed(s)
    BY DEF Sound
  <2>2. /\ Same(s, s1, {"pending", "retained", "outcome", "ended", "idle", "absolute"})
        /\ s1.pending = {} /\ DOMAIN s1.retained = DOMAIN s.retained \cup s.pending
        /\ s1.outcome = [e \in Execs |-> IF e \in s.pending THEN "lost" ELSE s.outcome[e]]
        /\ s1.ended = [e \in Execs |-> IF e \in s.pending THEN now ELSE s.ended[e]]
        /\ s1.idle = [e \in Execs |-> IF e \in s.pending THEN 0 ELSE s.idle[e]]
        /\ s1.absolute = [e \in Execs |-> IF e \in s.pending THEN 0 ELSE s.absolute[e]]
    BY <2>1 DEF Typed, Retain, Same, ExFields, Put
  <2>. HIDE DEF s1
  <2>3. Same(s1, s2, {"stream"}) /\ s2.stream \in [Execs -> 0..MaxActivity]
    <3>1. DOMAIN s1 = ExFields /\ s1.stream \in [Execs -> 0..MaxActivity]
      BY <2>1, <2>2 DEF Same, ExFields, Typed
    <3>. QED BY <3>1, HushFields
  <2>. HIDE DEF s2
  <2>4. /\ Same(s2, u, {"error", "tombs", "deferred"})
        /\ u.error /\ u.error = TRUE /\ DOMAIN u.tombs = {} /\ u.deferred = <<>>
    <3>1. u = [s2 EXCEPT !.error = TRUE, !.tombs = Empty, !.deferred = <<>>]
      BY <1>2 DEF FailAll, s2, s1
    <3>. QED BY <2>3, <3>1 DEF Same, ExFields, Empty
  <2>. HIDE DEF u
  <2>5. /\ u.pending = {} /\ DOMAIN u.retained = DOMAIN s.retained \cup s.pending
        /\ u.outcome = [e \in Execs |-> IF e \in s.pending THEN "lost" ELSE s.outcome[e]]
        /\ u.ended = [e \in Execs |-> IF e \in s.pending THEN now ELSE s.ended[e]]
        /\ u.idle = [e \in Execs |-> IF e \in s.pending THEN 0 ELSE s.idle[e]]
        /\ u.absolute = [e \in Execs |-> IF e \in s.pending THEN 0 ELSE s.absolute[e]]
        /\ u.stream = s2.stream /\ u.notes = s.notes /\ u.stray = s.stray
        /\ u.ingress = s.ingress /\ u.shutdown = s.shutdown /\ u.from = s.from
        /\ u.latest = s.latest /\ u.told = s.told /\ DOMAIN u = ExFields
    BY <2>2, <2>3, <2>4 DEF Same, ExFields
  <2>6. Typed(u)
    <3>1. u.outcome \in [Execs -> Outcomes] /\ u.ended \in [Execs -> 0..now]
      BY <2>1, <2>5 DEF Typed, Env, Outcomes
    <3>2. u.idle \in [Execs -> Nat] /\ u.absolute \in [Execs -> Nat]
      BY <2>1, <2>5 DEF Typed
    <3>3. u.error \in BOOLEAN /\ u.deferred \in Seq(Execs)
      BY <2>4
    <3>4. DOMAIN u.tombs \subseteq Ids /\ \A i \in DOMAIN u.tombs : u.tombs[i].expires \in Nat
      BY <2>4
    <3>. QED BY <2>1, <2>3, <2>5, <3>1, <3>2, <3>3, <3>4 DEF Typed
  <2>7. OneNamespace(u) /\ PendingIsFresh(u) /\ DeferredIsDropped(u) /\ EndedIsBuried(u)
        /\ FailedIsEmpty(u)
    BY <2>4, <2>5 DEF OneNamespace, PendingIsFresh, DeferredIsDropped, EndedIsBuried,
       FailedIsEmpty
  <2>8. Counted(u)
    BY <2>4, <2>5, FS_EmptySet, NumberAssumption DEF Counted
  <2>9. ToldOnce(u) /\ RetainedHasEnded(u) /\ Matched(u)
    <3>1. \A e \in s.pending : s.told[e] = 0
      BY DEF Sound, PendingIsFresh
    <3>. QED BY <2>1, <2>5, <3>1 DEF Sound, Typed, ToldOnce, RetainedHasEnded, Matched
  <2>10. Quiet(s, u)
    BY <2>1, <2>5 DEF Quiet, Evolves, Typed
  <2>11. Spares(s, u, {})
    BY <2>5 DEF Spares
  <2>. QED BY <2>4, <2>5, <2>6, <2>7, <2>8, <2>9, <2>10, <2>11 DEF Good, Sound, u
<1>. QED BY <1>1, <1>2


\* cancel_pending_locked, for any set of pending executions and however far it
\* comes.
LEMMA CancelPendingKeeps ==
  ASSUME Env, NEW s, Good(s), NEW S \in SUBSET s.pending, NEW why,
         \A e \in S : why[e] \in GivenUp, NEW r \in CancelPending(s, S, why)
  PROVE  /\ Good(r.s) /\ Quiet(s, r.s)
         /\ r.ok \/ r.s.error
         /\ r.ok \/ r.s.pending = {}
         /\ r.ok => r.s.pending = s.pending \ S /\ r.s.deferred = s.deferred
         /\ Spares(s, r.s, S)
<1>1. S \subseteq Execs /\ \A e \in S : why[e] \in Given
  BY DEF Good, Sound, Typed, GivenUp, Given, Outcomes
<1>2. ASSUME NEW j \in DOMAIN s.deferred PROVE s.deferred[j] \notin S
  BY DEF Good, Sound, DeferredIsDropped, PendingIsFresh
<1>3. CASE r = Ok(Tell(Cancelled(s, S, why), S))
  <2>. DEFINE c == Cancelled(s, S, why)
              u == Tell(c, S)
  <2>1. Cancels(s, c, S, why)
    BY <1>1, CancelledKeeps, Zenon
  <2>. HIDE DEF c
  <2>2. Quiet(c, u) /\ Same(c, u, {"told"}) /\ Good(u)
    BY <1>1, <1>2, <2>1, TellKeeps DEF Cancels
  <2>. HIDE DEF u
  <2>3. u.pending = s.pending \ S /\ u.deferred = s.deferred
    BY <2>1, <2>2 DEF Cancels, Same, ExFields
  <2>4. Quiet(s, u)
    BY <2>1, <2>2, QuietComposes DEF Cancels
  <2>5. Spares(s, u, S)
    BY <2>1, <2>2 DEF Cancels, Spares, Same, ExFields
  <2>6. r.s = u /\ r.ok
    BY <1>3 DEF Ok, u, c
  <2>. QED BY <2>2, <2>3, <2>4, <2>5, <2>6
<1>4. ASSUME NEW e \in S, NEW P \in SUBSET S,
             r = Err(FailAll(Tell(Cancelled(s, P \cup {e}, why), P)))
      PROVE  Good(r.s) /\ Quiet(s, r.s) /\ ~r.ok /\ r.s.error /\ r.s.pending = {}
             /\ Spares(s, r.s, S)
  <2>. DEFINE c == Cancelled(s, P \cup {e}, why)
              t == Tell(c, P)
              u == FailAll(t)
  <2>1. Cancels(s, c, P \cup {e}, why)
    <3>1. P \cup {e} \in SUBSET s.pending /\ \A d \in P \cup {e} : why[d] \in Given
      BY <1>1
    <3>. QED BY <3>1, CancelledKeeps, Zenon
  <2>. HIDE DEF c
  <2>2. Quiet(c, t) /\ Sound(t) /\ Same(c, t, {"told"})
    BY <1>1, <2>1, TellKeeps DEF Cancels
  <2>. HIDE DEF t
  <2>3. Good(u) /\ Quiet(t, u) /\ u.error /\ u.pending = {} /\ Spares(t, u, {})
    BY <2>2, FailAllKeeps
  <2>. HIDE DEF u
  <2>4. Quiet(s, u)
    BY <2>1, <2>2, <2>3, QuietComposes DEF Cancels
  <2>5. Spares(s, u, S)
    <3>1. t.outcome = c.outcome
      BY <2>2 DEF Same, ExFields
    <3>. QED BY <2>1, <2>3, <3>1 DEF Cancels, Spares
  <2>6. r.s = u /\ ~r.ok
    BY <1>4 DEF Err, u, t, c
  <2>. QED BY <2>3, <2>4, <2>5, <2>6
<1>5. CASE \E e \in S, P \in SUBSET S :
             r = Err(FailAll(Tell(Cancelled(s, P \cup {e}, why), P)))
  BY <1>4, <1>5
<1>6. \/ r = Ok(Tell(Cancelled(s, S, why), S))
      \/ \E e \in S, P \in SUBSET S : r = Err(FailAll(Tell(Cancelled(s, P \cup {e}, why), P)))
  <2>. DEFINE A == Ok(Tell(Cancelled(s, S, why), S))
              B(e, P) == Err(FailAll(Tell(Cancelled(s, P \cup {e}, why), P)))
              D == {f \in S \ Initialize : "lost" \in Faults}
  <2>1. r \in {A} \cup {B(e, P) : e \in D, P \in SUBSET S}
    BY DEF CancelPending
  <2>2. D \subseteq S
    OBVIOUS
  <2>. HIDE DEF A, B, D
  <2>3. r = A \/ \E e \in S, P \in SUBSET S : r = B(e, P)
    BY <2>1, <2>2
  <2>. QED BY <2>3 DEF A, B
<1>. QED BY <1>3, <1>5, <1>6

\* flush_deferred_drop_cancellations_locked.
LEMMA FlushDeferredKeeps ==
  ASSUME Env, NEW s, Good(s), NEW r \in FlushDeferred(s)
  PROVE  /\ Good(r.s) /\ Quiet(s, r.s)
         /\ r.s.deferred = <<>>
         /\ r.ok \/ r.s.error
         /\ r.ok \/ r.s.pending = {}
<1>1. s.deferred \in Seq(Execs)
  BY DEF Good, Sound, Typed
<1>2. ASSUME NEW n \in 0..Len(s.deferred)
      PROVE  /\ {s.deferred[j] : j \in 1..n} \subseteq Execs
             /\ \A e \in {s.deferred[j] : j \in 1..n} :
                  s.outcome[e] \in GivenUp /\ s.told[e] = 0 /\ s.latest[IdOf[e]] = e
  <2>1. \A j \in 1..n : j \in DOMAIN s.deferred /\ s.deferred[j] \in Execs
    BY <1>1
  <2>. QED BY <2>1 DEF Good, DeferredIsDropped, GivenUp
<1>3. ASSUME NEW n \in 0..Len(s.deferred)
      PROVE  Quiet(s, Tell(s, {s.deferred[j] : j \in 1..n}))
             /\ Sound(Tell(s, {s.deferred[j] : j \in 1..n}))
  <2>. DEFINE S == {s.deferred[j] : j \in 1..n}
  <2>1. S \in SUBSET Execs /\ \A e \in S : s.outcome[e] \in GivenUp /\ s.told[e] = 0
                                            /\ s.latest[IdOf[e]] = e
    BY <1>2
  <2>. HIDE DEF S
  <2>2. Quiet(s, Tell(s, S)) /\ Sound(Tell(s, S))
    BY <2>1, TellKeeps
  <2>. QED BY <2>2 DEF S
<1>4. CASE r = Ok([Tell(s, {s.deferred[j] : j \in 1..Len(s.deferred)}) EXCEPT !.deferred = <<>>])
  <2>. DEFINE t == Tell(s, {s.deferred[j] : j \in 1..Len(s.deferred)})
              u == [t EXCEPT !.deferred = <<>>]
  <2>1. Len(s.deferred) \in 0..Len(s.deferred)
    BY <1>1
  <2>2. Quiet(s, t) /\ Sound(t)
    BY <1>3, <2>1
  <2>. HIDE DEF t
  <2>3. Good(u) /\ Quiet(t, u) /\ u.deferred = <<>>
    BY <2>2, ClearKeeps
  <2>. HIDE DEF u
  <2>4. r.s = u /\ r.ok
    BY <1>4 DEF Ok, u, t
  <2>. QED BY <2>2, <2>3, <2>4, QuietComposes
<1>5. ASSUME NEW n \in DOMAIN s.deferred,
             r = Err(FailAll(Tell(s, {s.deferred[j] : j \in 1..(n - 1)})))
      PROVE  Good(r.s) /\ Quiet(s, r.s) /\ r.s.deferred = <<>> /\ r.s.error /\ r.s.pending = {}
  <2>. DEFINE t == Tell(s, {s.deferred[j] : j \in 1..(n - 1)})
              u == FailAll(t)
  <2>1. n - 1 \in 0..Len(s.deferred)
    BY <1>1
  <2>2. Quiet(s, t) /\ Sound(t)
    BY <1>3, <2>1
  <2>. HIDE DEF t
  <2>3. Good(u) /\ Quiet(t, u) /\ u.error /\ u.pending = {}
    BY <2>2, FailAllKeeps
  <2>. HIDE DEF u
  <2>4. u.deferred = <<>>
    BY <2>3 DEF Good, Sound, FailedIsEmpty
  <2>5. r.s = u
    BY <1>5 DEF Err, u, t
  <2>. QED BY <2>2, <2>3, <2>4, <2>5, QuietComposes
<1>. QED BY <1>4, <1>5 DEF FlushDeferred

-----------------------------------------------------------------------------
(* The operations that send cancellations before they go on. *)

\* What an operation leaves that sends cancellations and routes nothing.
Settled(s, r) == Good(r.s) /\ Quiet(s, r.s) /\ (r.ok \/ (r.s.error /\ r.s.pending = {}))

LEMMA CancelPendingSettles ==
  ASSUME Env, NEW s, Good(s), NEW S \in SUBSET s.pending, NEW why,
         \A e \in S : why[e] \in GivenUp
  PROVE  \A r \in CancelPending(s, S, why) :
           /\ Settled(s, r) /\ (r.ok => r.s.pending = s.pending \ S /\ r.s.deferred = s.deferred)
           /\ Spares(s, r.s, S)
BY CancelPendingKeeps DEF Settled

\* A result is a record of a state and of whether the operation may go on.
LEMMA CancelPendingShape ==
  ASSUME NEW s, NEW S, NEW why, NEW r \in CancelPending(s, S, why)
  PROVE  DOMAIN r = {"s", "ok"}
<1>. DEFINE A == Tell(Cancelled(s, S, why), S)
            B(e, P) == FailAll(Tell(Cancelled(s, P \cup {e}, why), P))
            D == {f \in S \ Initialize : "lost" \in Faults}
<1>1. r \in {Ok(A)} \cup {Err(B(e, P)) : e \in D, P \in SUBSET S}
  BY DEF CancelPending
<1>. HIDE DEF A, B, D
<1>2. (\E u : r = Ok(u)) \/ (\E u : r = Err(u))
  BY <1>1
<1>. QED BY <1>2 DEF Ok, Err

\* drain_abandoned_locked leaves no cancellation unsent, or no connection.
LEMMA DrainAbandonedKeeps ==
  ASSUME Env, NEW s, Good(s), NEW r \in DrainAbandoned(s)
  PROVE  Settled(s, r) /\ r.s.deferred = <<>>
<1>. DEFINE s1 == PruneTombstones(s)
            s2 == PruneRetained(s1)
            S(u) == u.pending \cap dropped
            F(u) == {[q EXCEPT !.s = Release(@, {e \in dropped : @.outcome[e] = "dropped"})] :
                       q \in CancelPending(u, S(u), All("dropped"))}
<1>1. Good(s2) /\ Quiet(s, s2)
  <2>1. Good(s1) /\ Quiet(s, s1)
    BY PruneTombstonesKeeps
  <2>. HIDE DEF s1
  <2>2. Good(s2) /\ Quiet(s1, s2)
    BY <2>1, PruneRetainedKeeps
  <2>. QED BY <2>1, <2>2, QuietComposes
<1>2. \E p \in FlushDeferred(s2) : (p.ok /\ r \in F(p.s)) \/ (~p.ok /\ r = p)
  BY DEF DrainAbandoned, Then
<1>. HIDE DEF s2
<1>3. PICK p \in FlushDeferred(s2) : (p.ok /\ r \in F(p.s)) \/ (~p.ok /\ r = p)
  BY <1>2
<1>4. /\ Good(p.s) /\ Quiet(s2, p.s) /\ p.s.deferred = <<>>
      /\ p.ok \/ p.s.error
      /\ p.ok \/ p.s.pending = {}
  BY <1>1, FlushDeferredKeeps
<1>5. Quiet(s, p.s)
  BY <1>1, <1>4, QuietComposes
<1>6. CASE ~p.ok
  BY <1>3, <1>4, <1>5, <1>6 DEF Settled
<1>7. CASE p.ok
  <2>. DEFINE u == p.s
  <2>1. PICK q \in CancelPending(u, S(u), All("dropped")) :
          r = [q EXCEPT !.s = Release(@, {e \in dropped : @.outcome[e] = "dropped"})]
    BY <1>3, <1>7
  <2>2. S(u) \in SUBSET u.pending /\ \A e \in S(u) : All("dropped")[e] \in GivenUp
    <3>1. u.pending \subseteq Execs
      BY <1>4 DEF Good, Sound, Typed
    <3>. QED BY <3>1 DEF All, GivenUp
  <2>3. Settled(u, q) /\ (q.ok => q.s.deferred = u.deferred) /\ DOMAIN q = {"s", "ok"}
    BY <1>4, <2>2, CancelPendingSettles, CancelPendingShape
  <2>4. q.s.deferred = <<>>
    BY <1>4, <2>3 DEF Settled, Good, Sound, FailedIsEmpty
  <2>. DEFINE D == {e \in dropped : q.s.outcome[e] = "dropped"}
  <2>5. r.s = Release(q.s, D) /\ r.ok = q.ok
    BY <2>1, <2>3
  <2>. HIDE DEF u, D
  <2>6. Good(r.s) /\ Quiet(q.s, r.s)
    BY <2>3, <2>5, ReleaseKeeps DEF Settled
  <2>7. Same(q.s, r.s, {"retained"})
    BY <2>3, <2>5, ReleaseFields DEF Settled, Good, Sound, Typed
  <2>8. r.s.deferred = <<>> /\ r.s.pending = q.s.pending /\ r.s.error = q.s.error
    BY <2>4, <2>7 DEF Same, ExFields
  <2>9. Quiet(s, r.s)
    BY <1>5, <2>3, <2>6, QuietComposes DEF Settled, u
  <2>. QED BY <2>3, <2>5, <2>6, <2>8, <2>9 DEF Settled
<1>. QED BY <1>6, <1>7

\* No deadline of a pending execution has passed.
NotDue(s) == \A e \in s.pending : now < s.absolute[e] /\ now < s.idle[e]

LEMMA ExpireTimeoutsKeeps ==
  ASSUME Env, NEW s, Good(s), NEW r \in ExpireTimeouts(s)
  PROVE  Settled(s, r) /\ NotDue(r.s) /\ (r.ok => r.s.deferred = s.deferred)
<1>. DEFINE S == {e \in s.pending : now >= s.absolute[e] \/ now >= s.idle[e]}
            why == [e \in Execs |-> IF now >= s.absolute[e] THEN "absolute" ELSE "idle"]
<1>1. S \in SUBSET s.pending /\ \A e \in S : why[e] \in GivenUp
  <2>1. s.pending \subseteq Execs
    BY DEF Good, Sound, Typed
  <2>. QED BY <2>1 DEF GivenUp
<1>2. r \in CancelPending(s, S, why)
  BY DEF ExpireTimeouts
<1>3. \A e \in s.pending \ S : now < s.absolute[e] /\ now < s.idle[e]
  BY DEF Good, Sound, Typed, Env
<1>. HIDE DEF S, why
<1>4. Settled(s, r) /\ (r.ok => r.s.pending = s.pending \ S /\ r.s.deferred = s.deferred)
  BY <1>1, <1>2, CancelPendingSettles
<1>5. NotDue(r.s)
  <2>1. r.s.pending \subseteq s.pending \ S /\ s.pending \subseteq Execs
    BY <1>4 DEF Settled, Good, Sound, Typed
  <2>. QED BY <1>3, <1>4, <2>1 DEF NotDue, Settled, Quiet, Evolves
<1>. QED BY <1>4, <1>5

\* poll_timeouts
LEMMA PollKeeps ==
  ASSUME Env, NEW s, Good(s), NEW r \in Then(DrainAbandoned(s), ExpireTimeouts)
  PROVE  Settled(s, r) /\ NotDue(r.s) /\ r.s.deferred = <<>>
<1>1. PICK p \in DrainAbandoned(s) : (p.ok /\ r \in ExpireTimeouts(p.s)) \/ (~p.ok /\ r = p)
  BY DEF Then
<1>2. Settled(s, p) /\ p.s.deferred = <<>>
  BY DrainAbandonedKeeps
<1>3. CASE ~p.ok
  BY <1>1, <1>2, <1>3 DEF Settled, NotDue
<1>4. CASE p.ok
  <2>1. Good(p.s) /\ r \in ExpireTimeouts(p.s)
    BY <1>1, <1>2, <1>4 DEF Settled
  <2>2. Settled(p.s, r) /\ NotDue(r.s) /\ (r.ok => r.s.deferred = p.s.deferred)
    BY <2>1, ExpireTimeoutsKeeps
  <2>3. r.s.deferred = <<>>
    BY <1>2, <2>2 DEF Settled, Good, Sound, FailedIsEmpty
  <2>4. Quiet(s, r.s)
    BY <1>2, <2>2, QuietComposes DEF Settled
  <2>. QED BY <2>2, <2>3, <2>4 DEF Settled
<1>. QED BY <1>3, <1>4

\* prepare_drive
LEMMA PrepareDriveKeeps ==
  ASSUME Env, NEW s, Good(s), NEW r \in PrepareDrive(s)
  PROVE  Good(r.s) /\ Quiet(s, r.s) /\ NotDue(r.s)
<1>1. \E p \in Then(DrainAbandoned(s), ExpireTimeouts) : r.s = p.s
  <2>1. \E p \in Then(DrainAbandoned(s), ExpireTimeouts) :
          r \in (IF p.ok THEN {IF p.s.error THEN Err(p.s) ELSE Ok(p.s)} ELSE {p})
    <3>. DEFINE R == Then(DrainAbandoned(s), ExpireTimeouts)
    <3>1. r \in Then(R, LAMBDA u : {IF u.error THEN Err(u) ELSE Ok(u)})
      BY DEF PrepareDrive
    <3>. HIDE DEF R
    <3>2. \E p \in R : r \in (IF p.ok THEN {IF p.s.error THEN Err(p.s) ELSE Ok(p.s)} ELSE {p})
      BY <3>1 DEF Then
    <3>. QED BY <3>2 DEF R
  <2>. QED BY <2>1 DEF Ok, Err
<1>2. PICK p \in Then(DrainAbandoned(s), ExpireTimeouts) : r.s = p.s
  BY <1>1
<1>. QED BY <1>2, PollKeeps DEF Settled

-----------------------------------------------------------------------------
(* Inbound frames. *)

\* Counters and flags that the invariant does not read may change freely.
LEMMA CountersAreFree ==
  ASSUME Env, NEW s, Good(s), NEW u, Same(s, u, {"notes", "stray", "ingress", "shutdown"}),
         u.notes \in 0..MaxActivity, u.stray \in 0..MaxActivity,
         u.ingress \in {"unclaimed", "self", "external"}, u.shutdown \in BOOLEAN
  PROVE  Good(u) /\ (u.ingress = s.ingress => Quiet(s, u))
<1>1. /\ u.pending = s.pending /\ u.idle = s.idle /\ u.absolute = s.absolute
      /\ u.stream = s.stream /\ u.tombs = s.tombs /\ u.retained = s.retained
      /\ u.deferred = s.deferred /\ u.error = s.error
      /\ u.ended = s.ended /\ u.outcome = s.outcome
      /\ u.from = s.from /\ u.latest = s.latest /\ u.told = s.told /\ DOMAIN u = ExFields
  BY DEF Same, ExFields
<1>2. Typed(u)
  BY <1>1 DEF Good, Sound, Typed
<1>3. OneNamespace(u) /\ Counted(u) /\ PendingIsFresh(u) /\ DeferredIsDropped(u)
  BY <1>1 DEF Good, Sound, OneNamespace, Counted, PendingIsFresh, DeferredIsDropped
<1>4. EndedIsBuried(u) /\ ToldOnce(u) /\ RetainedHasEnded(u) /\ FailedIsEmpty(u) /\ Matched(u)
  BY <1>1 DEF Good, Sound, EndedIsBuried, ToldOnce, RetainedHasEnded, FailedIsEmpty, Matched
<1>5. u.ingress = s.ingress => Quiet(s, u)
  BY <1>1 DEF Quiet, Evolves
<1>. QED BY <1>2, <1>3, <1>4, <1>5 DEF Good, Sound

\* What a frame may do to the executor.
Routed(s, u) == Good(u) /\ Evolves(s, u)

LEMMA UncorrelatedKeeps ==
  ASSUME Env, NEW s, Good(s) PROVE Routed(s, Uncorrelated(s))
<1>1. CASE s.stray < MaxActivity
  <2>. DEFINE u == [s EXCEPT !.stray = @ + 1]
  <2>1. Typed(s)
    BY DEF Good, Sound
  <2>2. Same(s, u, {"notes", "stray", "ingress", "shutdown"}) /\ u.stray = s.stray + 1
        /\ u.notes = s.notes /\ u.ingress = s.ingress /\ u.shutdown = s.shutdown
    BY <2>1 DEF Typed, Same, ExFields
  <2>. HIDE DEF u
  <2>3. u.stray \in 0..MaxActivity
    BY <1>1, <2>1, <2>2, NumberAssumption DEF Typed
  <2>4. Good(u) /\ Quiet(s, u)
    BY <2>1, <2>2, <2>3, CountersAreFree DEF Typed
  <2>. QED BY <1>1, <2>4 DEF Uncorrelated, Routed, Quiet, u
<1>2. CASE ~(s.stray < MaxActivity)
  BY <1>2, FailAllKeeps DEF Uncorrelated, Routed, Quiet, Good
<1>. QED BY <1>1, <1>2

LEMMA NoteKeeps ==
  ASSUME Env, NEW s, Good(s) PROVE Routed(s, Note(s).s)
<1>1. CASE s.notes < MaxActivity
  <2>. DEFINE u == [s EXCEPT !.notes = @ + 1]
  <2>1. Typed(s)
    BY DEF Good, Sound
  <2>2. Same(s, u, {"notes", "stray", "ingress", "shutdown"}) /\ u.notes = s.notes + 1
        /\ u.stray = s.stray /\ u.ingress = s.ingress /\ u.shutdown = s.shutdown
    BY <2>1 DEF Typed, Same, ExFields
  <2>. HIDE DEF u
  <2>3. u.notes \in 0..MaxActivity
    BY <1>1, <2>1, <2>2, NumberAssumption DEF Typed
  <2>4. Good(u) /\ Quiet(s, u)
    BY <2>1, <2>2, <2>3, CountersAreFree DEF Typed
  <2>5. Note(s).s = u
    BY <1>1 DEF Note, Ok, u
  <2>. QED BY <2>4, <2>5 DEF Routed, Quiet
<1>2. CASE ~(s.notes < MaxActivity)
  <2>1. Note(s).s = FailAll(s)
    BY <1>2 DEF Note, Err
  <2>. QED BY <2>1, FailAllKeeps DEF Routed, Quiet, Good
<1>. QED BY <1>1, <1>2

\* Progress moves the idle deadline of one execution, up to its absolute one.
LEMMA ProgressKeeps ==
  ASSUME Env, NEW s, Good(s), NEW e \in Execs PROVE Routed(s, Progress(s, e).s)
<1>1. CASE e \notin s.pending
  <2>1. Progress(s, e) = Note(s)
    BY <1>1 DEF Progress
  <2>. QED BY <2>1, NoteKeeps
<1>2. CASE e \in s.pending
  <2>. DEFINE next == IF now + Idle < s.absolute[e] THEN now + Idle ELSE s.absolute[e]
              s1 == [s EXCEPT !.idle[e] = next]
              s2 == [s1 EXCEPT !.stream[e] = @ + 1]
              u == Progress(s, e).s
  <2>1. Typed(s)
    BY DEF Good, Sound
  <2>2. next \in Nat /\ next <= s.absolute[e]
    BY <2>1, NumberAssumption DEF Typed, Env
  <2>. HIDE DEF next
  <2>3. Same(s, s1, {"idle"}) /\ s1.idle = [s.idle EXCEPT ![e] = next]
    BY <2>1 DEF Typed, Same, ExFields
  <2>4. s1.stream = s.stream /\ DOMAIN s1 = ExFields
    BY <2>3 DEF Same, ExFields
  <2>5. u = IF s.stream[e] >= MaxActivity THEN s1 ELSE s2
    BY <1>2 DEF Progress, Ok, Err, next
  <2>. HIDE DEF s1
  <2>6. Same(s1, s2, {"stream"}) /\ s2.stream = [s.stream EXCEPT ![e] = @ + 1]
    BY <2>4 DEF Same, ExFields
  <2>. HIDE DEF s2, u
  <2>7. /\ Same(s, u, {"idle", "stream"}) /\ u.idle = [s.idle EXCEPT ![e] = next]
        /\ u.stream \in [Execs -> 0..MaxActivity]
    <3>1. CASE s.stream[e] >= MaxActivity
      BY <2>1, <2>3, <2>4, <2>5, <3>1 DEF Same, ExFields, Typed
    <3>2. CASE ~(s.stream[e] >= MaxActivity)
      <4>1. u = s2 /\ s.stream[e] + 1 \in 0..MaxActivity
        BY <2>1, <2>5, <3>2, NumberAssumption DEF Typed
      <4>2. s2.stream \in [Execs -> 0..MaxActivity]
        BY <2>1, <2>6, <4>1 DEF Typed
      <4>. QED BY <2>3, <2>6, <4>1, <4>2 DEF Same, ExFields
    <3>. QED BY <3>1, <3>2
  <2>8. /\ u.pending = s.pending /\ u.absolute = s.absolute /\ u.tombs = s.tombs
        /\ u.retained = s.retained /\ u.deferred = s.deferred /\ u.notes = s.notes
        /\ u.stray = s.stray /\ u.ingress = s.ingress /\ u.error = s.error
        /\ u.shutdown = s.shutdown /\ u.ended = s.ended /\ u.outcome = s.outcome
        /\ u.from = s.from /\ u.latest = s.latest /\ u.told = s.told /\ DOMAIN u = ExFields
    BY <2>7 DEF Same, ExFields
  <2>9. Typed(u)
    <3>1. u.idle \in [Execs -> Nat]
      BY <2>1, <2>2, <2>7 DEF Typed
    <3>. QED BY <2>1, <2>7, <2>8, <3>1 DEF Typed
  <2>10. PendingIsFresh(u)
    <3>1. s.pending \subseteq Execs /\ s.idle \in [Execs -> Nat]
      BY <2>1 DEF Typed
    <3>. QED BY <2>2, <2>7, <2>8, <3>1 DEF Good, Sound, PendingIsFresh
  <2>11. OneNamespace(u) /\ Counted(u) /\ DeferredIsDropped(u) /\ EndedIsBuried(u)
    BY <2>8 DEF Good, Sound, OneNamespace, Counted, DeferredIsDropped, EndedIsBuried
  <2>12. ToldOnce(u) /\ RetainedHasEnded(u) /\ FailedIsEmpty(u) /\ Matched(u)
    BY <2>8 DEF Good, Sound, ToldOnce, RetainedHasEnded, FailedIsEmpty, Matched
  <2>13. Evolves(s, u)
    BY <2>8 DEF Evolves
  <2>14. Routed(s, u)
    BY <2>9, <2>10, <2>11, <2>12, <2>13 DEF Routed, Good, Sound
  <2>. QED BY <2>14 DEF u
<1>. QED BY <1>1, <1>2

\* A peer answers e, which is pending or did not end longer ago than its patience.
Addressed(s, e) ==
  e \in s.pending \/ (s.outcome[e] # "none" /\ now <= s.ended[e] + Patience)

LEMMA AddressedStays ==
  ASSUME Env, NEW s, NEW u, Evolves(s, u), NEW e \in Execs, Addressed(s, e)
  PROVE  Addressed(u, e)
<1>1. CASE e \in u.pending
  BY <1>1 DEF Addressed
<1>2. CASE e \in s.pending \ u.pending
  BY <1>2, NumberAssumption DEF Addressed, Evolves, Env
<1>3. CASE e \notin s.pending
  BY <1>3 DEF Addressed, Evolves
<1>. QED BY <1>1, <1>2, <1>3

\* The response to e is given to e: every other owner of the id has been
\* buried with it, or the connection has failed.
LEMMA OnlyItsOwner ==
  ASSUME Env, NEW s, Good(s), NEW e \in Execs, Addressed(s, e), Patience < Retention,
         IdOf[e] \notin DOMAIN s.tombs, NEW p \in OfId(s, IdOf[e])
  PROVE  e = p
<1>1. p \in s.pending /\ IdOf[p] = IdOf[e]
  BY DEF OfId
<1>2. CASE e \in s.pending
  BY <1>1, <1>2 DEF Good, Sound, OneNamespace
<1>3. CASE e \notin s.pending
  <2>1. s.outcome[e] # "none" /\ now <= s.ended[e] + Patience
    BY <1>3 DEF Addressed
  <2>2. now < s.ended[e] + Retention
    <3>1. s.ended[e] \in Nat
      BY DEF Good, Sound, Typed
    <3>. QED BY <2>1, <3>1, NumberAssumption DEF Env
  <2>3. ~s.error
    BY <1>1 DEF Good, Sound, FailedIsEmpty
  <2>. QED BY <2>1, <2>2, <2>3 DEF Good, Sound, EndedIsBuried
<1>. QED BY <1>2, <1>3

\* route_response_with_raw_result_locked
LEMMA RouteResponseKeeps ==
  ASSUME Env, NEW s, Good(s), NEW e \in Execs, Addressed(s, e), NEW good \in BOOLEAN
  PROVE  Routed(s, RouteResponse(s, IdOf[e], e, good))
<1>. DEFINE id == IdOf[e]
            P == OfId(s, id)
            why == All(IF good THEN "response" ELSE "badResult")
            H == IF good THEN {} ELSE P
            s1 == Retain(s, P, why)
            s2 == Bury(s1, P, TRUE)
            s3 == [s2 EXCEPT !.from = [p \in Execs |-> IF p \in P THEN e ELSE @[p]]]
            s4 == Hush(s3, H)
            u == RouteResponse(s, id, e, good)
<1>1. Typed(s) /\ P \in SUBSET s.pending /\ P \subseteq Execs
  BY DEF Good, Sound, Typed, OfId
<1>2. CASE id \in DOMAIN s.tombs /\ s.tombs[id].loud
  <2>1. u = Uncorrelated(s)
    BY <1>2 DEF RouteResponse
  <2>. QED BY <2>1, UncorrelatedKeeps
<1>3. CASE id \in DOMAIN s.tombs /\ ~s.tombs[id].loud
  <2>1. u = s
    BY <1>3 DEF RouteResponse
  <2>. QED BY <2>1 DEF Routed, Evolves
<1>4. CASE id \notin DOMAIN s.tombs /\ P = {}
  <2>1. u = Uncorrelated(s)
    BY <1>4 DEF RouteResponse
  <2>. QED BY <2>1, UncorrelatedKeeps
<1>5. CASE id \notin DOMAIN s.tombs /\ P # {}
  <2>1. u = s4
    BY <1>5 DEF RouteResponse
  <2>2. Patience < Retention => \A p \in P : p = e
    BY <1>5, OnlyItsOwner
  <2>3. \A p \in P : why[p] \in Outcomes \ {"none"}
    BY <1>1 DEF All, Outcomes
  <2>. HIDE DEF P, why, H, u
  <2>4. /\ Same(s, s1, {"pending", "retained", "outcome", "ended", "idle", "absolute"})
        /\ s1.pending = s.pending \ P /\ DOMAIN s1.retained = DOMAIN s.retained \cup P
        /\ s1.outcome = [d \in Execs |-> IF d \in P THEN why[d] ELSE s.outcome[d]]
        /\ s1.ended = [d \in Execs |-> IF d \in P THEN now ELSE s.ended[d]]
        /\ s1.idle = [d \in Execs |-> IF d \in P THEN 0 ELSE s.idle[d]]
        /\ s1.absolute = [d \in Execs |-> IF d \in P THEN 0 ELSE s.absolute[d]]
    BY <1>1 DEF Typed, Retain, Same, ExFields, Put
  <2>. HIDE DEF s1
  <2>5. /\ Same(s1, s2, {"tombs"})
        /\ DOMAIN s2.tombs = DOMAIN s1.tombs \cup {IdOf[d] : d \in P}
        /\ \A i \in DOMAIN s2.tombs :
             s2.tombs[i].expires = IF i \in {IdOf[d] : d \in P} THEN now + Retention
                                   ELSE s1.tombs[i].expires
    BY <2>4 DEF Bury, Same, ExFields, Put
  <2>. HIDE DEF s2
  <2>6. Same(s2, s3, {"from"}) /\ s3.from = [p \in Execs |-> IF p \in P THEN e ELSE s2.from[p]]
    BY <2>5 DEF Same, ExFields
  <2>. HIDE DEF s3
  <2>7. Same(s3, s4, {"stream"}) /\ s4.stream \in [Execs -> 0..MaxActivity]
    <3>1. DOMAIN s3 = ExFields /\ s3.stream \in [Execs -> 0..MaxActivity]
      BY <1>1, <2>4, <2>5, <2>6 DEF Same, ExFields, Typed
    <3>. QED BY <3>1, HushFields
  <2>. HIDE DEF s4
  <2>8. EndsAs(s, s4, P, why)
    BY <2>4, <2>5, <2>6, <2>7 DEF EndsAs, Same, ExFields
  <2>9. s4.from = [p \in Execs |-> IF p \in P THEN e ELSE s.from[p]]
    BY <2>4, <2>5, <2>6, <2>7 DEF Same, ExFields
  <2>10. /\ s4.from \in [Execs -> Execs \cup {None}]
         /\ \A p \in Execs \ P : s4.from[p] = s.from[p]
         /\ \A p \in P : s4.from[p] = e
    BY <1>1, <2>9 DEF Typed
  <2>11. Patience < Retention => \A p \in P : why[p] \in {"response", "badResult"} => s4.from[p] = p
    BY <2>2, <2>10
  <2>12. Good(s4) /\ Evolves(s, s4)
    BY <1>1, <2>3, <2>7, <2>8, <2>10, <2>11, EndingKeeps
  <2>13. Routed(s, u)
    BY <2>1, <2>12 DEF Routed
  <2>. QED BY <2>13 DEF u
<1>. QED BY <1>2, <1>3, <1>4, <1>5

\* A frame that the peer may send in the state s.
Expected(s, f) ==
  /\ f.kind \in {"response", "progress", "teardown"} => f.of \in Execs
  /\ f.kind = "response" => Addressed(s, f.of) /\ f.good \in BOOLEAN

LEMMA RouteKeeps ==
  ASSUME Env, NEW s, Good(s), NEW f, Expected(s, f), NEW r \in Route(s, f)
  PROVE  Routed(s, r.s)
<1>1. CASE f.kind = "response"
  <2>1. r.s = RouteResponse(s, IdOf[f.of], f.of, f.good)
    BY <1>1 DEF Route, Ok
  <2>. QED BY <1>1, <2>1, RouteResponseKeeps DEF Expected
<1>2. CASE f.kind = "unknown"
  <2>1. r.s = Uncorrelated(s)
    BY <1>2 DEF Route, Ok
  <2>. QED BY <2>1, UncorrelatedKeeps
<1>3. CASE f.kind = "note"
  <2>1. r = Note(s)
    BY <1>3 DEF Route
  <2>. QED BY <2>1, NoteKeeps
<1>4. CASE f.kind = "progress"
  <2>1. r = Progress(s, f.of)
    BY <1>4 DEF Route
  <2>. QED BY <1>4, <2>1, ProgressKeeps DEF Expected
<1>5. CASE f.kind = "teardown"
  <2>. DEFINE S == OfId(s, IdOf[f.of]) \cap Listens
  <2>1. r.s = Cancelled(s, S, All("teardown"))
    BY <1>5 DEF Route, Ok
  <2>2. S \in SUBSET s.pending /\ \A e \in S : All("teardown")[e] \in Given
    BY DEF Good, Sound, Typed, OfId, All, Given, Outcomes
  <2>. HIDE DEF S
  <2>3. Cancels(s, r.s, S, All("teardown"))
    BY <2>1, <2>2, CancelledKeeps, Zenon
  <2>. QED BY <2>3 DEF Cancels, Routed, Quiet
<1>6. CASE f.kind \notin {"response", "unknown", "note", "progress", "teardown"}
  <2>1. r.s = FailAll(s)
    BY <1>6 DEF Route, Err
  <2>. QED BY <2>1, FailAllKeeps DEF Routed, Quiet, Good
<1>. QED BY <1>1, <1>2, <1>3, <1>4, <1>5, <1>6

LEMMA FramesAreExpected ==
  ASSUME ex.pending \subseteq Execs, NEW f \in Frames PROVE Expected(ex, f)
<1>. DEFINE sent == {e \in Execs : ex.outcome[e] # "none"} \cup ex.pending
<1>1. \/ \E e \in {g \in sent : g \in ex.pending \/ now <= ex.ended[g] + Patience},
            g \in BOOLEAN : f = Frame("response", e, g)
      \/ \E e \in sent : f = Frame("progress", e, TRUE)
      \/ \E e \in sent \cap Listens : f = Frame("teardown", e, TRUE)
      \/ \E k \in {"note", "unknown", "read", "malformed"} : f = Frame(k, None, TRUE)
  <2>. DEFINE A == {g \in sent : g \in ex.pending \/ now <= ex.ended[g] + Patience}
              N == {g \in {"note", "unknown"} : "flood" \in Faults}
              B == {"read", "malformed"} \cap Faults
              T == sent \cap Listens
              F1 == {Frame("response", e, g) : e \in A, g \in BOOLEAN}
              F2 == {Frame("progress", e, TRUE) : e \in sent}
              F3 == {Frame("teardown", e, TRUE) : e \in T}
              F4 == {Frame(k, None, TRUE) : k \in N}
              F5 == {Frame(k, None, TRUE) : k \in B}
  <2>1. Frames = F1 \cup F2 \cup F3 \cup F4 \cup F5
    BY DEF Frames
  <2>2. N \cup B \subseteq {"note", "unknown", "read", "malformed"}
    OBVIOUS
  <2>. HIDE DEF sent, A, N, B, T
  <2>4. f \in F1 => \E e \in A, g \in BOOLEAN : f = Frame("response", e, g)
    OBVIOUS
  <2>5. f \in F2 => \E e \in sent : f = Frame("progress", e, TRUE)
    OBVIOUS
  <2>6. f \in F3 => \E e \in T : f = Frame("teardown", e, TRUE)
    OBVIOUS
  <2>7. f \in F4 \cup F5 => \E k \in N \cup B : f = Frame(k, None, TRUE)
    OBVIOUS
  <2>. HIDE DEF F1, F2, F3, F4, F5
  <2>3. \/ \E e \in A, g \in BOOLEAN : f = Frame("response", e, g)
        \/ \E e \in sent : f = Frame("progress", e, TRUE)
        \/ \E e \in T : f = Frame("teardown", e, TRUE)
        \/ \E k \in N \cup B : f = Frame(k, None, TRUE)
    BY <2>1, <2>4, <2>5, <2>6, <2>7
  <2>. QED BY <2>2, <2>3 DEF A, T
<1>2. CASE \E e \in {g \in sent : g \in ex.pending \/ now <= ex.ended[g] + Patience},
             g \in BOOLEAN : f = Frame("response", e, g)
  BY <1>2 DEF Expected, Addressed, Frame
<1>3. CASE \E e \in sent : f = Frame("progress", e, TRUE)
  BY <1>3 DEF Expected, Frame
<1>4. CASE \E e \in sent \cap Listens : f = Frame("teardown", e, TRUE)
  BY <1>4 DEF Expected, Frame
<1>5. CASE \E k \in {"note", "unknown", "read", "malformed"} : f = Frame(k, None, TRUE)
  BY <1>5 DEF Expected, Frame
<1>. QED BY <1>1, <1>2, <1>3, <1>4, <1>5

-----------------------------------------------------------------------------
(* Starting, taking and dropping. *)

\* A request is sent with an id that is neither pending nor buried.
LEMMA AdmitKeeps ==
  ASSUME Env, NEW s, Good(s), NEW e \in Execs, s.deferred = <<>>, ~Refused(s, e),
         e \notin s.pending, s.outcome[e] = "none"
  PROVE  /\ Good(Admit(s, e)) /\ Same(s, Admit(s, e), {"pending", "latest", "idle", "absolute"})
         /\ Admit(s, e).pending = s.pending \cup {e}
         /\ \A d \in Execs \ {e} : Admit(s, e).absolute[d] = s.absolute[d]
<1>. DEFINE u == Admit(s, e)
<1>1. Typed(s) /\ IdOf[e] \in Ids
  BY DEF Good, Sound, Env
<1>2. /\ Same(s, u, {"pending", "latest", "idle", "absolute"})
      /\ u.pending = s.pending \cup {e} /\ u.latest = [s.latest EXCEPT ![IdOf[e]] = e]
      /\ u.idle = [s.idle EXCEPT ![e] = now + Idle]
      /\ u.absolute = [s.absolute EXCEPT ![e] = now + Absolute]
  BY <1>1 DEF Admit, Typed, Same, ExFields
<1>. HIDE DEF u
<1>3. /\ u.stream = s.stream /\ u.tombs = s.tombs /\ u.retained = s.retained
      /\ u.deferred = <<>> /\ u.notes = s.notes /\ u.stray = s.stray /\ u.ingress = s.ingress
      /\ u.error = s.error /\ u.shutdown = s.shutdown /\ u.ended = s.ended
      /\ u.outcome = s.outcome /\ u.from = s.from /\ u.told = s.told /\ DOMAIN u = ExFields
  BY <1>2 DEF Same, ExFields
<1>4. ~s.error /\ OfId(s, IdOf[e]) = {} /\ IdOf[e] \notin DOMAIN s.tombs /\ ~Full(s)
  BY DEF Refused
<1>5. Typed(u)
  <2>1. u.idle \in [Execs -> Nat] /\ u.absolute \in [Execs -> Nat] /\ DOMAIN u.latest = Ids
    BY <1>1, <1>2, NumberAssumption DEF Typed, Env
  <2>. QED BY <1>1, <1>2, <1>3, <2>1 DEF Typed
<1>6. \A d \in s.pending : IdOf[d] # IdOf[e] /\ d # e /\ d \in Execs
  BY <1>1, <1>4 DEF OfId, Typed
<1>7. OneNamespace(u)
  BY <1>2, <1>3, <1>4, <1>6 DEF Good, Sound, OneNamespace
<1>8. Counted(u)
  <2>1. IsFiniteSet(s.pending) /\ IsFiniteSet(DOMAIN s.retained)
    BY <1>1, ExecutionAssumption, FS_Subset DEF Typed
  <2>2. IsFiniteSet(DOMAIN s.tombs)
    BY DEF Good, Sound, Counted
  <2>3. Cardinality(u.pending) = Cardinality(s.pending) + 1
    BY <1>2, <2>1, FS_AddElement
  <2>4. /\ Cardinality(s.pending) \in Nat /\ Cardinality(DOMAIN s.tombs) \in Nat
        /\ Cardinality(DOMAIN s.retained) \in Nat
    BY <2>1, <2>2, FS_CardinalityType
  <2>. QED BY <1>3, <1>4, <2>2, <2>3, <2>4, NumberAssumption DEF Full, Counted
<1>9. PendingIsFresh(u)
  <2>1. s.told[e] = 0
    <3>1. s.told[e] \in Nat /\ (s.told[e] > 0 => s.outcome[e] \in GivenUp)
      BY <1>1 DEF Good, Sound, Typed, ToldOnce
    <3>. QED BY <3>1 DEF GivenUp
  <2>2. ASSUME NEW d \in s.pending PROVE PendingIsFresh(u)!(d)
    <3>1. PendingIsFresh(s)!(d)
      BY DEF Good, Sound, PendingIsFresh
    <3>2. u.latest[IdOf[d]] = s.latest[IdOf[d]] /\ u.idle[d] = s.idle[d]
          /\ u.absolute[d] = s.absolute[d]
      BY <1>1, <1>2, <1>6 DEF Typed, Env
    <3>. QED BY <1>3, <3>1, <3>2
  <2>3. PendingIsFresh(u)!(e)
    <3>1. u.latest[IdOf[e]] = e
      BY <1>1, <1>2 DEF Typed
    <3>2. u.idle[e] <= u.absolute[e]
      BY <1>1, <1>2, NumberAssumption DEF Typed, Env
    <3>. QED BY <1>3, <2>1, <3>1, <3>2
  <2>. QED BY <1>2, <2>2, <2>3 DEF PendingIsFresh
<1>10. DeferredIsDropped(u) /\ EndedIsBuried(u) /\ ToldOnce(u)
  BY <1>3 DEF Good, Sound, DeferredIsDropped, EndedIsBuried, ToldOnce
<1>11. RetainedHasEnded(u) /\ FailedIsEmpty(u) /\ Matched(u)
  BY <1>3, <1>4 DEF Good, Sound, RetainedHasEnded, FailedIsEmpty, Matched
<1>12. \A d \in Execs \ {e} : u.absolute[d] = s.absolute[d]
  BY <1>1, <1>2 DEF Typed
<1>13. Good(u)
  BY <1>5, <1>7, <1>8, <1>9, <1>10, <1>11 DEF Good, Sound
<1>. QED BY <1>2, <1>12, <1>13 DEF u

\* The handle of a pending execution is dropped.
LEMMA AbandonKeeps ==
  ASSUME Env, NEW s, Good(s), NEW e \in s.pending
  PROVE  LET w == [Abandon(s, e) EXCEPT !.deferred = IF e \in Initialize THEN @ ELSE Append(@, e)]
         IN  Good(w) /\ Quiet(s, w)
<1>. DEFINE S == {e}
            why == All("dropped")
            s1 == Retain(s, S, why)
            s2 == Release(s1, S)
            s3 == Bury(s2, S, FALSE)
            u == Abandon(s, e)
            w == [u EXCEPT !.deferred = IF e \in Initialize THEN @ ELSE Append(@, e)]
<1>1. Typed(s) /\ S \subseteq Execs /\ S \in SUBSET s.pending /\ e \in Execs
  BY DEF Good, Sound, Typed
<1>2. u = Hush(s3, S) /\ e \in S
  BY DEF Abandon
<1>3. why[e] = "dropped" /\ S = {e}
  BY <1>1 DEF All
<1>. HIDE DEF S, why
<1>4. /\ Same(s, s1, {"pending", "retained", "outcome", "ended", "idle", "absolute"})
      /\ s1.pending = s.pending \ S /\ DOMAIN s1.retained = DOMAIN s.retained \cup S
      /\ s1.outcome = [d \in Execs |-> IF d \in S THEN why[d] ELSE s.outcome[d]]
      /\ s1.ended = [d \in Execs |-> IF d \in S THEN now ELSE s.ended[d]]
      /\ s1.idle = [d \in Execs |-> IF d \in S THEN 0 ELSE s.idle[d]]
      /\ s1.absolute = [d \in Execs |-> IF d \in S THEN 0 ELSE s.absolute[d]]
  BY <1>1 DEF Typed, Retain, Same, ExFields, Put
<1>. HIDE DEF s1
<1>5. Same(s1, s2, {"retained"}) /\ DOMAIN s2.retained = DOMAIN s1.retained \ S
  BY <1>4, ReleaseFields DEF Same
<1>. HIDE DEF s2
<1>6. /\ Same(s2, s3, {"tombs"})
      /\ DOMAIN s3.tombs = DOMAIN s2.tombs \cup {IdOf[d] : d \in S}
      /\ \A i \in DOMAIN s3.tombs :
           s3.tombs[i].expires = IF i \in {IdOf[d] : d \in S} THEN now + Retention
                                 ELSE s2.tombs[i].expires
  BY <1>5 DEF Bury, Same, ExFields, Put
<1>. HIDE DEF s3, u
<1>7. Same(s3, u, {"stream"}) /\ u.stream \in [Execs -> 0..MaxActivity]
  <2>1. DOMAIN s3 = ExFields /\ s3.stream \in [Execs -> 0..MaxActivity]
    BY <1>1, <1>4, <1>5, <1>6 DEF Same, ExFields, Typed
  <2>. QED BY <2>1, <1>2, HushFields
<1>8. EndsAs(s, u, S, why) /\ u.from = s.from
  BY <1>4, <1>5, <1>6, <1>7 DEF EndsAs, Same, ExFields
<1>9. Good(u) /\ Evolves(s, u)
  <2>1. \A d \in S : why[d] \in Outcomes \ {"none"} /\ why[d] \notin {"response", "badResult"}
    BY <1>3 DEF Outcomes
  <2>. QED BY <1>1, <1>7, <1>8, <2>1, EndingKeeps DEF Typed
<1>10. u.outcome[e] = "dropped" /\ u.told[e] = 0 /\ u.latest[IdOf[e]] = e /\ ~u.error
  <2>1. u.told = s.told /\ u.latest = s.latest /\ u.error = s.error
    BY <1>8 DEF EndsAs, Same, ExFields
  <2>2. u.outcome[e] = "dropped"
    BY <1>1, <1>3, <1>8 DEF EndsAs
  <2>. QED BY <2>1, <2>2 DEF Good, Sound, PendingIsFresh, FailedIsEmpty
<1>11. /\ Same(u, w, {"deferred"})
       /\ w.deferred = IF e \in Initialize THEN u.deferred ELSE Append(u.deferred, e)
  BY <1>9 DEF Good, Sound, Typed, Same, ExFields
<1>. HIDE DEF w
<1>12. /\ w.pending = u.pending /\ w.idle = u.idle /\ w.absolute = u.absolute
       /\ w.stream = u.stream /\ w.tombs = u.tombs /\ w.retained = u.retained
       /\ w.notes = u.notes /\ w.stray = u.stray /\ w.ingress = u.ingress /\ w.error = u.error
       /\ w.shutdown = u.shutdown /\ w.ended = u.ended /\ w.outcome = u.outcome
       /\ w.from = u.from /\ w.latest = u.latest /\ w.told = u.told /\ DOMAIN w = ExFields
  BY <1>11 DEF Same, ExFields
<1>13. Typed(w)
  <2>1. w.deferred \in Seq(Execs)
    BY <1>1, <1>9, <1>11 DEF Good, Sound, Typed
  <2>. QED BY <1>9, <1>12, <2>1 DEF Good, Sound, Typed
<1>14. OneNamespace(w) /\ Counted(w) /\ PendingIsFresh(w) /\ ToldOnce(w)
  BY <1>9, <1>12 DEF Good, Sound, OneNamespace, Counted, PendingIsFresh, ToldOnce
<1>15. EndedIsBuried(w) /\ RetainedHasEnded(w) /\ FailedIsEmpty(w) /\ Matched(w)
  BY <1>9, <1>10, <1>12 DEF Good, Sound, EndedIsBuried, RetainedHasEnded, FailedIsEmpty, Matched
<1>16. DeferredIsDropped(w)
  <2>. SUFFICES ASSUME NEW j \in DOMAIN w.deferred PROVE DeferredIsDropped(w)!(j)
    BY DEF DeferredIsDropped
  <2>1. (j \in DOMAIN u.deferred /\ w.deferred[j] = u.deferred[j]) \/ w.deferred[j] = e
    BY <1>9, <1>11 DEF Good, Sound, Typed
  <2>2. CASE w.deferred[j] = e
    BY <1>10, <1>12, <2>2
  <2>3. CASE j \in DOMAIN u.deferred /\ w.deferred[j] = u.deferred[j]
    BY <1>9, <1>12, <2>3 DEF Good, DeferredIsDropped
  <2>. QED BY <2>1, <2>2, <2>3
<1>17. Quiet(s, w)
  <2>1. Evolves(s, w)
    BY <1>9, <1>12 DEF Evolves
  <2>. QED BY <1>1, <1>3, <1>8, <1>12, <2>1 DEF Quiet, EndsAs, Typed
<1>18. Good(w) /\ Quiet(s, w)
  BY <1>13, <1>14, <1>15, <1>16, <1>17 DEF Good, Sound
<1>. QED BY <1>18 DEF w, u

-----------------------------------------------------------------------------
(* From the state of the executor to the specification. *)

\* A good state stays good when the executor takes it over, and while time passes.
LEMMA GoodTransfers ==
  ASSUME Good(ex'), scenario' = scenario, now' = now
  PROVE  Good(ex)'
<1>1. Typed(ex)' /\ OneNamespace(ex)' /\ Counted(ex)'
  BY DEF Good, Sound, Typed, OneNamespace, Counted, IdOf
<1>2. PendingIsFresh(ex)' /\ DeferredIsDropped(ex)' /\ EndedIsBuried(ex)'
  BY DEF Good, Sound, PendingIsFresh, DeferredIsDropped, EndedIsBuried, IdOf
<1>3. ToldOnce(ex)' /\ RetainedHasEnded(ex)' /\ FailedIsEmpty(ex)' /\ Matched(ex)'
  BY DEF Good, Sound, ToldOnce, RetainedHasEnded, FailedIsEmpty, Matched
<1>. QED BY <1>1, <1>2, <1>3 DEF Good, Sound

LEMMA GoodEndures ==
  ASSUME Env, Good(ex), ex' = ex, scenario' = scenario, now' = now + 1
  PROVE  Good(ex)'
<1>1. Typed(ex)'
  BY DEF Good, Sound, Typed, Env
<1>2. OneNamespace(ex)' /\ Counted(ex)'
  BY DEF Good, Sound, OneNamespace, Counted, IdOf
<1>3. PendingIsFresh(ex)' /\ DeferredIsDropped(ex)'
  BY DEF Good, Sound, PendingIsFresh, DeferredIsDropped, IdOf
<1>4. EndedIsBuried(ex)'
  <2>. SUFFICES ASSUME ~ex.error, NEW e \in Execs, ex.outcome[e] # "none",
                       now + 1 < ex.ended[e] + Retention
                PROVE  /\ IdOf[e] \in DOMAIN ex.tombs
                       /\ ex.ended[e] + Retention <= ex.tombs[IdOf[e]].expires
    BY DEF EndedIsBuried, IdOf
  <2>1. ex.ended[e] \in Nat
    BY DEF Good, Sound, Typed
  <2>2. now < ex.ended[e] + Retention
    BY <2>1, NumberAssumption DEF Env
  <2>. QED BY <2>2 DEF Good, Sound, EndedIsBuried
<1>5. ToldOnce(ex)' /\ RetainedHasEnded(ex)' /\ FailedIsEmpty(ex)' /\ Matched(ex)'
  BY DEF Good, Sound, ToldOnce, RetainedHasEnded, FailedIsEmpty, Matched
<1>. QED BY <1>1, <1>2, <1>3, <1>4, <1>5 DEF Good, Sound

LEMMA EnvHolds == ASSUME IInv PROVE Env
<1>1. scenario.ids \in [Execs -> Ids] /\ MaxTime \in Nat
  BY ExecutionAssumption DEF IInv, MaxTime
<1>. QED BY <1>1 DEF IInv, Env, IdOf

Positions == {"new", "live", "waiting", "checked", "reading", "done", "gone"}

\* Owners that have sent stay so, and one that is done took its outcome.
OwnersMove ==
  /\ pc' \in [Execs -> Positions]
  /\ \A e \in Execs :
       /\ pc'[e] = "new" <=> pc[e] = "new"
       /\ pc'[e] = "done" => \/ pc[e] = "done"
                             \/ ex'.outcome[e] # "none" /\ e \notin DOMAIN ex'.retained

\* One terminal transition, from pending and at its time, and absolute deadlines
\* that do not move.
Lasting(s, u) ==
  /\ \A e \in Execs : s.outcome[e] # "none" =>
       /\ u.outcome[e] = s.outcome[e] /\ u.from[e] = s.from[e] /\ e \notin u.pending
       /\ u.ended[e] = s.ended[e]
  /\ \A e \in Execs : s.outcome[e] = "none" /\ u.outcome[e] # "none"
       => e \in s.pending /\ u.ended[e] = now
  /\ \A e \in s.pending \cap u.pending : u.absolute[e] = s.absolute[e]

\* What every step of the specification does.
Steps ==
  /\ IInv' /\ scenario' = scenario /\ Lasting(ex, ex')
  /\ \A e \in Execs : pc[e] = "done" => e \notin DOMAIN ex'.retained

\* s is the state of the executor, but for who reads.
Alike(s) == Same(ex, s, {"ingress"})

LEMMA StepKeeps ==
  ASSUME IInv, NEW s, Alike(s), Evolves(s, ex'), Good(ex'),
         scenario' = scenario, now' = now, OwnersMove,
         dropped' \subseteq Execs, lock' \in Execs \cup {None},
         lock' # None => ex'.ingress = "self" /\ pc'[lock'] = "reading"
  PROVE  Steps
<1>1. /\ s.pending = ex.pending /\ s.outcome = ex.outcome /\ s.from = ex.from
      /\ s.retained = ex.retained /\ s.absolute = ex.absolute /\ s.ended = ex.ended
  BY DEF Alike, Same, ExFields
<1>2. \A e \in ex.pending : e \in Execs /\ ex.outcome[e] = "none"
  BY DEF IInv, Good, Sound, Typed, PendingIsFresh
<1>3. Good(ex)'
  BY GoodTransfers
<1>4. Owned(ex)'
  <2>. SUFFICES ASSUME NEW e \in Execs PROVE (Owned(ex)!(e))'
    BY DEF Owned
  <2>1. Owned(ex)!(e)
    BY DEF IInv, Owned
  <2>2. CASE e \in ex.pending
    BY <1>1, <1>2, <2>1, <2>2 DEF Evolves, OwnersMove
  <2>3. CASE e \notin ex.pending
    BY <1>1, <2>1, <2>3 DEF Evolves, OwnersMove
  <2>. QED BY <2>2, <2>3
<1>5. (scenario \in Scenarios /\ now \in 0..MaxTime)'
  BY DEF IInv, MaxTime
<1>6. IInv'
  BY <1>3, <1>4, <1>5 DEF IInv, OwnersMove, Positions
<1>7. Lasting(ex, ex')
  <2>1. \A e \in ex'.pending : ex'.outcome[e] = "none"
    BY DEF Good, Sound, PendingIsFresh
  <2>. QED BY <1>1, <1>2, <2>1 DEF Lasting, Evolves
<1>8. ASSUME NEW e \in Execs, pc[e] = "done" PROVE e \notin DOMAIN ex'.retained
  <2>1. ex.outcome[e] # "none" /\ e \notin DOMAIN ex.retained
    BY <1>8 DEF IInv, Owned
  <2>. QED BY <1>1, <1>2, <2>1 DEF Evolves
<1>. QED BY <1>6, <1>7, <1>8 DEF Steps

\* The same, for a step that leaves the owners, the lock and who reads alone.
LEMMA QuietStepKeeps ==
  ASSUME IInv, Evolves(ex, ex'), Good(ex'), UNCHANGED <<scenario, pc, dropped, lock, now>>
  PROVE  Steps
<1>1. Alike(ex)
  BY DEF IInv, Good, Sound, Typed, Alike, Same
<1>2. OwnersMove
  BY DEF IInv, OwnersMove, Positions
<1>3. lock' # None => ex'.ingress = "self" /\ pc'[lock'] = "reading"
  BY DEF IInv, Evolves
<1>4. dropped' \subseteq Execs /\ lock' \in Execs \cup {None}
  BY DEF IInv
<1>. QED BY <1>1, <1>2, <1>3, <1>4, StepKeeps

\* take_terminal_outcome, by an owner that has sent.
LEMMA TakeKeeps ==
  ASSUME IInv, NEW s, Good(s), Quiet(ex, s), NEW e \in Execs, pc[e] \notin {"new", "done"},
         NEW next \in Positions \ {"new", "done"}, Take(s, e, next),
         UNCHANGED <<scenario, dropped, lock, now>>, lock = None
  PROVE  Steps /\ Quiet(ex, ex')
<1>. DEFINE u == PruneRetained(s)
            v == Release(u, {e})
            w == Hush(v, {e})
<1>0. Env
  BY EnvHolds
<1>1. Good(u) /\ Quiet(s, u)
  BY <1>0, PruneRetainedKeeps
<1>2. CASE e \in DOMAIN u.retained
  <2>1. ex' = w /\ pc' = [pc EXCEPT ![e] = "done"]
    BY <1>2 DEF Take
  <2>2. Good(v) /\ Quiet(u, v) /\ Same(u, v, {"retained"}) /\ e \notin DOMAIN v.retained
    <3>. HIDE DEF u
    <3>1. DOMAIN u = ExFields
      BY <1>1 DEF Good, Sound, Typed
    <3>. QED BY <1>0, <1>1, <3>1, ReleaseKeeps, ReleaseFields
  <2>3. u.outcome[e] # "none"
    BY <1>1, <1>2 DEF Good, Sound, RetainedHasEnded
  <2>. HIDE DEF u, v
  <2>4. Good(w) /\ Quiet(v, w) /\ Same(v, w, {"stream"})
    <3>1. DOMAIN v = ExFields /\ v.stream \in [Execs -> 0..MaxActivity]
      BY <2>2 DEF Good, Sound, Typed
    <3>. QED BY <1>0, <2>2, <3>1, HushKeeps, HushFields
  <2>. HIDE DEF w
  <2>5. w.outcome[e] # "none" /\ e \notin DOMAIN w.retained
    BY <2>2, <2>3, <2>4 DEF Same, ExFields
  <2>6. Quiet(ex, w)
    BY <1>1, <2>2, <2>4, QuietComposes
  <2>7. OwnersMove
    BY <2>1, <2>5 DEF IInv, OwnersMove, Positions
  <2>8. Alike(ex)
    BY DEF IInv, Good, Sound, Typed, Alike, Same
  <2>9. dropped' \subseteq Execs /\ lock' \in Execs \cup {None}
    BY DEF IInv
  <2>10. lock' = None
    OBVIOUS
  <2>. QED BY <2>1, <2>4, <2>6, <2>7, <2>8, <2>9, <2>10, StepKeeps DEF Quiet
<1>3. CASE e \notin DOMAIN u.retained
  <2>1. ex' = u /\ pc' = [pc EXCEPT ![e] = IF e \in u.pending THEN next ELSE "live"]
    BY <1>3 DEF Take
  <2>. HIDE DEF u
  <2>6. Quiet(ex, u)
    BY <1>1, QuietComposes
  <2>7. OwnersMove
    BY <2>1 DEF IInv, OwnersMove, Positions
  <2>8. Alike(ex)
    BY DEF IInv, Good, Sound, Typed, Alike, Same
  <2>9. dropped' \subseteq Execs /\ lock' \in Execs \cup {None}
    BY DEF IInv
  <2>10. lock' = None
    OBVIOUS
  <2>. QED BY <1>1, <2>1, <2>6, <2>7, <2>8, <2>9, <2>10, StepKeeps DEF Quiet
<1>. QED BY <1>2, <1>3

\* It gives no outcome.
LEMMA TakeEndsNothing ==
  ASSUME NEW s, Good(s), NEW e, NEW next, Take(s, e, next) PROVE ex'.outcome = s.outcome
<1>. DEFINE u == PruneRetained(s)
            v == Release(u, {e})
            w == Hush(v, {e})
<1>1. DOMAIN s = ExFields /\ s.stream \in [Execs -> 0..MaxActivity]
  BY DEF Good, Sound, Typed
<1>2. Same(s, u, {"retained", "stream"}) /\ u.stream \in [Execs -> 0..MaxActivity]
  BY <1>1, PruneRetainedFields
<1>3. ex' = u \/ ex' = w
  BY DEF Take
<1>. HIDE DEF u
<1>4. Same(u, v, {"retained"})
  BY <1>2, ReleaseFields DEF Same
<1>. HIDE DEF v
<1>5. Same(v, w, {"stream"})
  <2>1. DOMAIN v = ExFields /\ v.stream = u.stream
    BY <1>4 DEF Same, ExFields
  <2>. QED BY <1>2, <2>1, HushFields
<1>. HIDE DEF w
<1>. QED BY <1>2, <1>3, <1>4, <1>5 DEF Same, ExFields

-----------------------------------------------------------------------------
(* One lemma for each action. *)

\* A driver of the connection accepts no answer after a deadline.
Answered(s, u) ==
  \A e \in Execs :
    u.ingress = "external" /\ s.outcome[e] = "none" /\ u.outcome[e] = "response"
      => now < s.idle[e] /\ s.idle[e] <= s.absolute[e]

LEMMA QuietAnswersNothing ==
  ASSUME NEW s, NEW u, Quiet(s, u) PROVE Answered(s, u)
BY DEF Quiet, Answered

LEMMA Execution ==
  ASSUME IInv, NEW e \in Execs, Execute(e) PROVE Steps /\ Answered(ex, ex')
<1>0. Env /\ Good(ex)
  BY EnvHolds DEF IInv
<1>1. PICK r \in DrainAbandoned(ex) :
        \/ ex' = r.s /\ UNCHANGED pc
        \/ /\ r.ok /\ ~Refused(r.s, e)
           /\ \/ ex' = Admit(r.s, e) /\ pc' = [pc EXCEPT ![e] = "live"]
              \/ ex' = FailAll(r.s) /\ UNCHANGED pc
  BY DEF Execute, Settle
<1>2. UNCHANGED <<scenario, dropped, lock, now>> /\ pc[e] = "new" /\ lock = None
  BY DEF Execute
<1>3. Good(r.s) /\ Quiet(ex, r.s) /\ r.s.deferred = <<>>
  BY <1>0, DrainAbandonedKeeps DEF Settled
<1>4. CASE ex' = r.s /\ UNCHANGED pc
  BY <1>2, <1>3, <1>4, QuietStepKeeps, QuietAnswersNothing DEF Quiet
<1>5. CASE ex' = FailAll(r.s) /\ UNCHANGED pc
  <2>1. Good(ex') /\ Quiet(r.s, ex')
    BY <1>0, <1>3, <1>5, FailAllKeeps DEF Good
  <2>2. Quiet(ex, ex')
    BY <1>3, <2>1, QuietComposes
  <2>. QED BY <1>2, <1>5, <2>1, <2>2, QuietStepKeeps, QuietAnswersNothing DEF Quiet
<1>6. CASE ~Refused(r.s, e) /\ ex' = Admit(r.s, e) /\ pc' = [pc EXCEPT ![e] = "live"]
  <2>. DEFINE s == r.s
  <2>1. e \notin ex.pending /\ ex.outcome[e] = "none"
    BY <1>2 DEF IInv, Owned
  <2>2. e \notin s.pending /\ s.outcome[e] = "none"
    BY <1>3, <2>1 DEF Quiet, Evolves
  <2>3. /\ Good(ex') /\ Same(s, ex', {"pending", "latest", "idle", "absolute"})
        /\ ex'.pending = s.pending \cup {e}
        /\ \A d \in Execs \ {e} : ex'.absolute[d] = s.absolute[d]
    BY <1>0, <1>3, <1>6, <2>2, AdmitKeeps
  <2>. HIDE DEF s
  <2>4. /\ ex'.outcome = s.outcome /\ ex'.from = s.from /\ ex'.retained = s.retained
        /\ ex'.ingress = s.ingress /\ ex'.ended = s.ended
    BY <2>3 DEF Same, ExFields
  <2>5. Evolves(ex, s) /\ Quiet(ex, s)
    BY <1>3 DEF Quiet, s
  <2>6. \A d \in ex.pending : d \in Execs /\ ex.outcome[d] = "none"
    BY DEF IInv, Good, Sound, Typed, PendingIsFresh
  <2>7. Good(ex)'
    BY <1>2, <2>3, GoodTransfers
  <2>8. Owned(ex)'
    <3>. SUFFICES ASSUME NEW d \in Execs PROVE (Owned(ex)!(d))'
      BY DEF Owned
    <3>1. Owned(ex)!(d)
      BY DEF IInv, Owned
    <3>2. CASE d = e
      <4>1. pc'[d] = "live" /\ d \in ex'.pending
        BY <1>6, <2>3, <3>2 DEF IInv
      <4>. QED BY <4>1
    <3>3. CASE d # e
      <4>1. pc'[d] = pc[d] /\ (d \in ex'.pending <=> d \in s.pending)
        BY <1>6, <2>3, <3>3 DEF IInv
      <4>2. CASE d \in ex.pending
        BY <2>4, <2>5, <2>6, <3>1, <4>1, <4>2 DEF Evolves
      <4>3. CASE d \notin ex.pending
        BY <2>4, <2>5, <3>1, <4>1, <4>3 DEF Evolves
      <4>. QED BY <4>2, <4>3
    <3>. QED BY <3>2, <3>3
  <2>9. /\ scenario' \in Scenarios /\ now' \in 0..MaxTime'
        /\ pc' \in [Execs -> Positions] /\ dropped' \subseteq Execs /\ lock' \in Execs \cup {None}
    BY <1>2, <1>6 DEF IInv, MaxTime, Positions
  <2>11. IInv'
    BY <1>2, <2>7, <2>8, <2>9 DEF IInv, Positions
  <2>12. Lasting(ex, ex')
    <3>1. \A d \in ex'.pending : ex'.outcome[d] = "none"
      BY <2>3 DEF Good, Sound, PendingIsFresh
    <3>. QED BY <2>1, <2>3, <2>4, <2>5, <2>6, <3>1 DEF Lasting, Evolves
  <2>13. ASSUME NEW d \in Execs, pc[d] = "done" PROVE d \notin DOMAIN ex'.retained
    <3>1. ex.outcome[d] # "none" /\ d \notin DOMAIN ex.retained
      BY <2>13 DEF IInv, Owned
    <3>. QED BY <2>4, <2>5, <2>6, <3>1 DEF Evolves
  <2>14. Answered(ex, ex')
    BY <2>4, <2>5 DEF Answered, Quiet
  <2>. QED BY <1>2, <2>11, <2>12, <2>13, <2>14 DEF Steps
<1>. QED BY <1>1, <1>4, <1>5, <1>6

LEMMA Polling ==
  ASSUME IInv, NEW e \in Execs, Poll(e) \/ Wait(e) PROVE Steps /\ Answered(ex, ex')
<1>1. Good(ex) /\ Quiet(ex, ex)
  BY DEF IInv, Quiet, Evolves
<1>2. /\ pc[e] \notin {"new", "done"} /\ UNCHANGED <<scenario, dropped, lock, now>> /\ lock = None
      /\ Take(ex, e, "live") \/ Take(ex, e, "checked")
  BY DEF Poll, Wait
<1>3. "live" \in Positions \ {"new", "done"} /\ "checked" \in Positions \ {"new", "done"}
  BY DEF Positions
<1>4. Steps /\ Quiet(ex, ex')
  BY <1>1, <1>2, <1>3, TakeKeeps
<1>. QED BY <1>4, QuietAnswersNothing

\* Taking over the transport changes nothing else.
LEMMA ClaimKeeps ==
  ASSUME IInv, NEW who \in {"self", "external"}
  PROVE  LET s == [ex EXCEPT !.ingress = who] IN
         Good(s) /\ Alike(s) /\ s.ingress = who
<1>. DEFINE s == [ex EXCEPT !.ingress = who]
<1>0. Env /\ Good(ex) /\ Typed(ex)
  BY EnvHolds DEF IInv, Good, Sound
<1>1. Same(ex, s, {"ingress"}) /\ s.ingress = who
  BY <1>0 DEF Typed, Same, ExFields
<1>. HIDE DEF s
<1>2. Same(ex, s, {"notes", "stray", "ingress", "shutdown"}) /\ s.notes = ex.notes
      /\ s.stray = ex.stray /\ s.shutdown = ex.shutdown
  BY <1>1 DEF Same, ExFields
<1>3. Good(s)
  BY <1>0, <1>1, <1>2, CountersAreFree DEF Typed
<1>. QED BY <1>1, <1>3 DEF Alike, s

LEMMA Entering ==
  ASSUME IInv, NEW e \in Execs, Enter(e) PROVE Steps /\ Answered(ex, ex')
<1>0. Env /\ pc[e] = "checked" /\ lock = None /\ UNCHANGED <<scenario, dropped, now>>
  BY EnvHolds DEF Enter
<1>1. CASE pc' = [pc EXCEPT ![e] = "live"] /\ UNCHANGED <<ex, lock>>
  <2>1. Evolves(ex, ex') /\ Quiet(ex, ex') /\ Good(ex') /\ Alike(ex)
    BY <1>1 DEF IInv, Quiet, Evolves, Alike, Same, Good, Sound, Typed
  <2>2. OwnersMove
    BY <1>0, <1>1 DEF IInv, OwnersMove, Positions
  <2>3. dropped' \subseteq Execs /\ lock' \in Execs \cup {None} /\ lock' = None
    BY <1>0, <1>1 DEF IInv
  <2>. QED BY <1>0, <2>1, <2>2, <2>3, StepKeeps, QuietAnswersNothing
<1>2. ASSUME NEW r \in PrepareDrive([ex EXCEPT !.ingress = "self"]), ex' = r.s,
             pc' = [pc EXCEPT ![e] = IF r.ok THEN "reading" ELSE "live"],
             lock' = IF r.ok THEN e ELSE None
      PROVE  Steps /\ Answered(ex, ex')
  <2>. DEFINE s == [ex EXCEPT !.ingress = "self"]
  <2>1. Good(s) /\ Alike(s) /\ s.ingress = "self"
    BY ClaimKeeps
  <2>. HIDE DEF s
  <2>2. Good(ex') /\ Quiet(s, ex')
    BY <1>0, <1>2, <2>1, PrepareDriveKeeps DEF s
  <2>3. OwnersMove
    BY <1>0, <1>2 DEF IInv, OwnersMove, Positions
  <2>4. ex'.ingress = "self" /\ Evolves(s, ex')
    BY <2>1, <2>2 DEF Quiet, Evolves
  <2>5. /\ dropped' \subseteq Execs /\ lock' \in Execs \cup {None}
        /\ lock' # None => pc'[lock'] = "reading"
    BY <1>0, <1>2 DEF IInv
  <2>6. Steps
    BY <1>0, <2>1, <2>2, <2>3, <2>4, <2>5, StepKeeps
  <2>. QED BY <2>4, <2>6 DEF Answered
<1>. QED BY <1>1, <1>2 DEF Enter

LEMMA Receiving ==
  ASSUME IInv, NEW e \in Execs, Receive(e) PROVE Steps /\ Answered(ex, ex')
<1>0. Env /\ Good(ex) /\ ex.pending \subseteq Execs
  BY EnvHolds DEF IInv, Good, Sound, Typed
<1>1. lock = e /\ lock' = None /\ UNCHANGED <<scenario, dropped, now>>
  BY DEF Receive
<1>2. PICK f \in Frames : \E r \in Route(ex, f) :
        ex' = r.s /\ pc' = [pc EXCEPT ![e] = IF r.ok THEN "waiting" ELSE "live"]
  BY DEF Receive
<1>3. PICK r \in Route(ex, f) :
        ex' = r.s /\ pc' = [pc EXCEPT ![e] = IF r.ok THEN "waiting" ELSE "live"]
  BY <1>2
<1>4. Good(ex') /\ Evolves(ex, ex')
  BY <1>0, <1>3, FramesAreExpected, RouteKeeps DEF Routed
<1>5. ex'.ingress = "self" /\ pc[e] = "reading"
  BY <1>1, <1>4, ExecutionAssumption DEF IInv, Evolves
<1>6. OwnersMove
  BY <1>3, <1>5 DEF IInv, OwnersMove, Positions
<1>7. Alike(ex) /\ dropped' \subseteq Execs /\ lock' \in Execs \cup {None}
  BY <1>1 DEF IInv, Good, Sound, Typed, Alike, Same
<1>8. Steps
  BY <1>1, <1>4, <1>6, <1>7, StepKeeps
<1>. QED BY <1>5, <1>8 DEF Answered

LEMMA Driving ==
  ASSUME IInv, DriveFrame PROVE Steps /\ Answered(ex, ex')
<1>0. Env /\ UNCHANGED <<scenario, pc, dropped, lock, now>> /\ lock = None
  BY EnvHolds DEF DriveFrame
<1>. DEFINE s == [ex EXCEPT !.ingress = "external"]
<1>1. PICK r \in PrepareDrive(s) :
        \/ ex' = r.s
        \/ \E f \in Frames : \E q \in Route(r.s, f) : ex' = q.s
  BY DEF DriveFrame
<1>2. Good(s) /\ Alike(s) /\ s.ingress = "external"
  BY ClaimKeeps
<1>. HIDE DEF s
<1>3. Good(r.s) /\ Quiet(s, r.s) /\ NotDue(r.s)
  BY <1>0, <1>2, PrepareDriveKeeps
<1>4. /\ s.pending = ex.pending /\ s.outcome = ex.outcome /\ s.ended = ex.ended
      /\ s.idle = ex.idle /\ s.absolute = ex.absolute
  BY <1>2 DEF Alike, Same, ExFields
<1>5. Good(ex') /\ Evolves(r.s, ex')
  <2>1. CASE ex' = r.s
    BY <1>3, <2>1 DEF Evolves
  <2>2. ASSUME NEW f \in Frames, NEW q \in Route(r.s, f), ex' = q.s
        PROVE  Good(ex') /\ Evolves(r.s, ex')
    <3>1. Expected(ex, f)
      BY FramesAreExpected DEF IInv, Good, Sound, Typed
    <3>2. Expected(r.s, f)
      <4>1. f.kind = "response" => Addressed(s, f.of)
        BY <1>4, <3>1 DEF Expected, Addressed
      <4>. QED BY <1>0, <1>3, <3>1, <4>1, AddressedStays DEF Expected, Quiet
    <3>. QED BY <1>0, <1>3, <2>2, <3>2, RouteKeeps DEF Routed
  <2>. QED BY <1>1, <2>1, <2>2
<1>6. Evolves(s, ex')
  BY <1>3, <1>5, EvolvesComposes DEF Quiet
<1>7. OwnersMove /\ dropped' \subseteq Execs /\ lock' \in Execs \cup {None}
  BY <1>0 DEF IInv, OwnersMove, Positions
<1>8. Steps
  BY <1>0, <1>2, <1>5, <1>6, <1>7, StepKeeps
<1>9. ASSUME NEW e \in Execs, ex.outcome[e] = "none", ex'.outcome[e] = "response"
      PROVE  now < ex.idle[e] /\ ex.idle[e] <= ex.absolute[e]
  <2>1. r.s.outcome[e] # "response"
    BY <1>3, <1>4, <1>9 DEF Quiet
  <2>2. e \in r.s.pending
    BY <1>5, <1>9, <2>1 DEF Evolves
  <2>3. e \in ex.pending /\ r.s.idle[e] = ex.idle[e]
    BY <1>3, <1>4, <2>2 DEF Quiet, Evolves
  <2>. QED BY <1>3, <2>2, <2>3 DEF NotDue, IInv, Good, Sound, PendingIsFresh
<1>. QED BY <1>8, <1>9 DEF Answered

\* Every execution of an id is one that its owner or the peer may give up.
LEMMA GivingUpByCaller ==
  ASSUME IInv, NEW e \in Execs
  PROVE  /\ OfId(ex, IdOf[e]) \in SUBSET ex.pending
         /\ \A d \in OfId(ex, IdOf[e]) : All("caller")[d] \in GivenUp
         /\ \A d \in OfId(ex, IdOf[e]) \cap Listens : All("teardown")[d] \in Given
BY DEF IInv, Good, Sound, Typed, OfId, All, GivenUp, Given, Outcomes

\* What the handle of e ends has its id.
Hits(e) ==
  \A x \in Execs : ex.outcome[x] = "none" /\ ex'.outcome[x] \in {"caller", "teardown"}
    => IdOf[x] = IdOf[e]

LEMMA SparingHits ==
  ASSUME NEW e \in Execs, NEW S \in SUBSET OfId(ex, IdOf[e]), Spares(ex, ex', S) PROVE Hits(e)
BY DEF Spares, Hits, OfId

LEMMA Cancelling ==
  ASSUME IInv, NEW e \in Execs, Cancel(e) PROVE Steps /\ Answered(ex, ex') /\ Hits(e)
<1>0. Env /\ Good(ex) /\ UNCHANGED <<scenario, pc, dropped, lock, now>>
  BY EnvHolds DEF IInv, Cancel
<1>. DEFINE S == OfId(ex, IdOf[e])
<1>1. S \in SUBSET ex.pending /\ \A d \in S : All("caller")[d] \in GivenUp
  BY GivingUpByCaller
<1>2. PICK r \in CancelPending(ex, S, All("caller")) : ex' = r.s
  BY DEF Cancel
<1>. HIDE DEF S
<1>3. Good(ex') /\ Quiet(ex, ex') /\ Spares(ex, ex', S)
  BY <1>0, <1>1, <1>2, CancelPendingSettles DEF Settled
<1>4. Hits(e)
  BY <1>3, SparingHits DEF S
<1>. QED BY <1>0, <1>3, <1>4, QuietStepKeeps, QuietAnswersNothing DEF Quiet

LEMMA GivingUpWaiting ==
  ASSUME IInv, NEW e \in Execs, WaitCancelled(e) PROVE Steps /\ Answered(ex, ex') /\ Hits(e)
<1>0. /\ Env /\ Good(ex) /\ UNCHANGED <<scenario, dropped, lock, now>>
      /\ pc[e] = "checked" /\ lock = None
  BY EnvHolds DEF IInv, WaitCancelled
<1>. DEFINE S == OfId(ex, IdOf[e])
<1>1. S \in SUBSET ex.pending /\ \A d \in S : All("caller")[d] \in GivenUp
  BY GivingUpByCaller
<1>2. PICK r \in CancelPending(ex, S, All("caller")) :
        IF r.ok THEN Take(r.s, e, "live") ELSE ex' = r.s /\ pc' = [pc EXCEPT ![e] = "live"]
  BY DEF WaitCancelled
<1>. HIDE DEF S
<1>3. Good(r.s) /\ Quiet(ex, r.s) /\ Spares(ex, r.s, S)
  BY <1>0, <1>1, <1>2, CancelPendingSettles DEF Settled
<1>4. CASE r.ok
  <2>1. Take(r.s, e, "live") /\ "live" \in Positions \ {"new", "done"}
    BY <1>2, <1>4 DEF Positions
  <2>2. Steps /\ Quiet(ex, ex')
    BY <1>0, <1>3, <2>1, TakeKeeps
  <2>3. Spares(ex, ex', S)
    BY <1>3, <2>1, TakeEndsNothing DEF Spares
  <2>. QED BY <2>2, <2>3, SparingHits, QuietAnswersNothing DEF S
<1>5. CASE ~r.ok
  <2>1. ex' = r.s /\ pc' = [pc EXCEPT ![e] = "live"]
    BY <1>2, <1>5
  <2>2. OwnersMove
    BY <1>0, <2>1 DEF IInv, OwnersMove, Positions
  <2>3. Alike(ex) /\ dropped' \subseteq Execs /\ lock' \in Execs \cup {None}
    BY <1>0 DEF IInv, Good, Sound, Typed, Alike, Same
  <2>4. Steps
    BY <1>0, <1>3, <2>1, <2>2, <2>3, StepKeeps DEF Quiet
  <2>. QED BY <1>3, <2>1, <2>4, SparingHits, QuietAnswersNothing DEF S
<1>. QED BY <1>4, <1>5

LEMMA TearingDown ==
  ASSUME IInv, NEW e \in Execs, AcceptTeardown(e) PROVE Steps /\ Answered(ex, ex') /\ Hits(e)
<1>0. Env /\ Good(ex) /\ UNCHANGED <<scenario, pc, dropped, lock, now>>
  BY EnvHolds DEF IInv, AcceptTeardown
<1>. DEFINE S == OfId(ex, IdOf[e]) \cap Listens
<1>1. S \in SUBSET ex.pending /\ \A d \in S : All("teardown")[d] \in Given
  BY GivingUpByCaller
<1>2. ex' = Cancelled(ex, S, All("teardown"))
  BY DEF AcceptTeardown
<1>. HIDE DEF S
<1>3. Cancels(ex, Cancelled(ex, S, All("teardown")), S, All("teardown"))
  BY <1>0, <1>1, CancelledKeeps, Zenon
<1>4. Good(ex') /\ Quiet(ex, ex') /\ Spares(ex, ex', S)
  BY <1>2, <1>3 DEF Cancels
<1>5. Hits(e)
  BY <1>4, SparingHits DEF S
<1>. QED BY <1>0, <1>4, <1>5, QuietStepKeeps, QuietAnswersNothing DEF Quiet

LEMMA Dropping ==
  ASSUME IInv, NEW e \in Execs, Drop(e) PROVE Steps /\ Answered(ex, ex')
<1>0. /\ Env /\ Good(ex) /\ UNCHANGED <<scenario, lock, now>> /\ pc[e] = "live"
      /\ pc' = [pc EXCEPT ![e] = "gone"] /\ dropped' = dropped \cup {e}
  BY EnvHolds DEF IInv, Drop
<1>1. Good(ex') /\ Quiet(ex, ex')
  <2>1. CASE UNCHANGED ex
    BY <1>0, <2>1 DEF Quiet, Evolves
  <2>2. CASE ex' = Hush(Release(ex, {e}), {e})
    <3>. DEFINE u == Release(ex, {e})
    <3>1. Good(u) /\ Quiet(ex, u)
      BY <1>0, ReleaseKeeps
    <3>. HIDE DEF u
    <3>2. Good(Hush(u, {e})) /\ Quiet(u, Hush(u, {e}))
      BY <1>0, <3>1, HushKeeps
    <3>. QED BY <2>2, <3>1, <3>2, QuietComposes DEF u
  <2>3. CASE e \in ex.pending /\ ex' = [Abandon(ex, e) EXCEPT
                                  !.deferred = IF e \in Initialize THEN @ ELSE Append(@, e)]
    BY <1>0, <2>3, AbandonKeeps
  <2>. QED BY <2>1, <2>2, <2>3 DEF Drop
<1>2. OwnersMove
  BY <1>0 DEF IInv, OwnersMove, Positions
<1>3. Alike(ex) /\ dropped' \subseteq Execs /\ lock' \in Execs \cup {None}
  BY <1>0 DEF IInv, Good, Sound, Typed, Alike, Same
<1>4. lock' # None => ex'.ingress = "self" /\ pc'[lock'] = "reading"
  BY <1>0, <1>1 DEF IInv, Quiet, Evolves
<1>5. Steps
  BY <1>0, <1>1, <1>2, <1>3, <1>4, StepKeeps DEF Quiet
<1>. QED BY <1>1, <1>5, QuietAnswersNothing

\* A stream, the diagnostics and the retained terminals are handed to the
\* application.
LEMMA Reading ==
  ASSUME IInv,
         \/ TakeNotifications \/ TakeUncorrelated \/ TerminalRecords
         \/ \E e \in Execs : TakeStream(e)
  PROVE  Steps /\ Answered(ex, ex')
<1>0. Env /\ Good(ex) /\ Typed(ex) /\ UNCHANGED <<scenario, pc, dropped, lock, now>>
  BY EnvHolds
     DEF IInv, Good, Sound, TakeNotifications, TakeUncorrelated, TerminalRecords, TakeStream
<1>1. CASE TakeNotifications \/ TakeUncorrelated
  <2>1. /\ Same(ex, ex', {"notes", "stray", "ingress", "shutdown"})
        /\ ex'.ingress = ex.ingress /\ ex'.shutdown = ex.shutdown
        /\ ex'.notes \in {0, ex.notes} /\ ex'.stray \in {0, ex.stray}
    BY <1>0, <1>1 DEF TakeNotifications, TakeUncorrelated, Typed, Same, ExFields
  <2>2. Good(ex') /\ Quiet(ex, ex')
    BY <1>0, <2>1, CountersAreFree, NumberAssumption DEF Typed
  <2>. QED BY <1>0, <2>2, QuietStepKeeps, QuietAnswersNothing DEF Quiet
<1>2. CASE TerminalRecords
  <2>1. Good(ex') /\ Quiet(ex, ex')
    BY <1>0, <1>2, PruneRetainedKeeps DEF TerminalRecords
  <2>. QED BY <1>0, <2>1, QuietStepKeeps, QuietAnswersNothing DEF Quiet
<1>3. CASE \E e \in Execs : TakeStream(e)
  <2>1. Good(ex') /\ Quiet(ex, ex')
    BY <1>0, <1>3, HushKeeps DEF TakeStream
  <2>. QED BY <1>0, <2>1, QuietStepKeeps, QuietAnswersNothing DEF Quiet
<1>. QED BY <1>1, <1>2, <1>3

LEMMA PollingTimeouts ==
  ASSUME IInv, PollTimeouts PROVE Steps /\ Answered(ex, ex') /\ NotDue(ex')
<1>0. Env /\ Good(ex) /\ UNCHANGED <<scenario, pc, dropped, lock, now>>
  BY EnvHolds DEF IInv, PollTimeouts
<1>1. PICK r \in Then(DrainAbandoned(ex), ExpireTimeouts) : ex' = r.s
  BY DEF PollTimeouts
<1>2. Good(ex') /\ Quiet(ex, ex') /\ NotDue(ex')
  BY <1>0, <1>1, PollKeeps DEF Settled
<1>. QED BY <1>0, <1>2, QuietStepKeeps, QuietAnswersNothing DEF Quiet

LEMMA Failing ==
  ASSUME IInv, FailConnection PROVE Steps /\ Answered(ex, ex')
<1>0. Env /\ Good(ex) /\ UNCHANGED <<scenario, pc, dropped, lock, now>> /\ ex' = FailAll(ex)
  BY EnvHolds DEF IInv, FailConnection
<1>1. Good(ex') /\ Quiet(ex, ex')
  BY <1>0, FailAllKeeps DEF Good
<1>. QED BY <1>0, <1>1, QuietStepKeeps, QuietAnswersNothing DEF Quiet

\* An executor with nothing pending and nothing to send may be closed.
LEMMA ClosingKeeps ==
  ASSUME Env, NEW s, Good(s), s.pending = {}, s.deferred = <<>>
  PROVE  LET u == [s EXCEPT !.error = TRUE] IN Good(u) /\ Quiet(s, u)
<1>. DEFINE u == [s EXCEPT !.error = TRUE]
<1>1. Same(s, u, {"error"}) /\ u.error = TRUE
  BY DEF Good, Sound, Typed, Same, ExFields
<1>. HIDE DEF u
<1>2. /\ u.pending = s.pending /\ u.idle = s.idle /\ u.absolute = s.absolute
      /\ u.stream = s.stream /\ u.tombs = s.tombs /\ u.retained = s.retained
      /\ u.deferred = s.deferred /\ u.notes = s.notes /\ u.stray = s.stray
      /\ u.ingress = s.ingress /\ u.shutdown = s.shutdown
      /\ u.ended = s.ended /\ u.outcome = s.outcome
      /\ u.from = s.from /\ u.latest = s.latest /\ u.told = s.told /\ DOMAIN u = ExFields
  BY <1>1 DEF Same, ExFields
<1>3. Typed(u)
  <2>1. u.error \in BOOLEAN
    BY <1>1
  <2>. QED BY <1>2, <2>1 DEF Good, Sound, Typed
<1>4. OneNamespace(u) /\ Counted(u) /\ PendingIsFresh(u) /\ DeferredIsDropped(u) /\ ToldOnce(u)
  BY <1>2 DEF Good, Sound, OneNamespace, Counted, PendingIsFresh, DeferredIsDropped, ToldOnce
<1>5. EndedIsBuried(u) /\ RetainedHasEnded(u) /\ FailedIsEmpty(u) /\ Matched(u)
  BY <1>1, <1>2 DEF Good, Sound, EndedIsBuried, RetainedHasEnded, FailedIsEmpty, Matched
<1>6. Quiet(s, u)
  BY <1>2 DEF Quiet, Evolves
<1>7. Good(u) /\ Quiet(s, u)
  BY <1>3, <1>4, <1>5, <1>6 DEF Good, Sound
<1>. QED BY <1>7 DEF u

LEMMA ShuttingDown ==
  ASSUME IInv, Shutdown PROVE Steps /\ Answered(ex, ex')
<1>0. Env /\ Good(ex) /\ UNCHANGED <<scenario, pc, dropped, lock, now>>
  BY EnvHolds DEF IInv, Shutdown
<1>1. PICK r \in FlushDeferred(ex) :
        \E q \in CancelPending([r.s EXCEPT !.shutdown = TRUE], r.s.pending, All("shutdown")) :
          ex' = [q.s EXCEPT !.error = TRUE] \/ ex' = FailAll(q.s)
  BY DEF Shutdown
<1>2. Good(r.s) /\ Quiet(ex, r.s) /\ r.s.deferred = <<>>
  BY <1>0, FlushDeferredKeeps
<1>. DEFINE s == [r.s EXCEPT !.shutdown = TRUE]
            S == r.s.pending
<1>3. PICK q \in CancelPending(s, S, All("shutdown")) :
        ex' = [q.s EXCEPT !.error = TRUE] \/ ex' = FailAll(q.s)
  BY <1>1
<1>4. Same(r.s, s, {"shutdown"}) /\ s.shutdown = TRUE
  BY <1>2 DEF Good, Sound, Typed, Same, ExFields
<1>. HIDE DEF s
<1>5. /\ Same(r.s, s, {"notes", "stray", "ingress", "shutdown"}) /\ s.shutdown \in BOOLEAN
      /\ s.notes = r.s.notes /\ s.stray = r.s.stray /\ s.ingress = r.s.ingress
      /\ s.pending = S /\ s.deferred = r.s.deferred
  BY <1>4 DEF Same, ExFields
<1>6. Good(s) /\ Quiet(r.s, s)
  <2>1. Typed(r.s)
    BY <1>2 DEF Good, Sound
  <2>. QED BY <1>0, <1>2, <1>5, <2>1, CountersAreFree DEF Typed
<1>7. S \in SUBSET s.pending /\ \A e \in S : All("shutdown")[e] \in GivenUp
  BY <1>2, <1>5 DEF Good, Sound, Typed, All, GivenUp
<1>. HIDE DEF S
<1>8. Settled(s, q) /\ (q.ok => q.s.pending = s.pending \ S /\ q.s.deferred = s.deferred)
  BY <1>0, <1>6, <1>7, CancelPendingSettles
<1>9. Good(q.s) /\ q.s.pending = {} /\ q.s.deferred = <<>> /\ Quiet(s, q.s)
  BY <1>2, <1>5, <1>8 DEF Settled, Good, Sound, FailedIsEmpty
<1>10. Good(ex') /\ Quiet(q.s, ex')
  <2>1. CASE ex' = [q.s EXCEPT !.error = TRUE]
    BY <1>0, <1>9, <2>1, ClosingKeeps
  <2>2. CASE ex' = FailAll(q.s)
    BY <1>0, <1>9, <2>2, FailAllKeeps DEF Good
  <2>. QED BY <1>3, <2>1, <2>2
<1>11. Quiet(ex, ex')
  BY <1>2, <1>6, <1>9, <1>10, QuietComposes
<1>. QED BY <1>0, <1>10, <1>11, QuietStepKeeps, QuietAnswersNothing DEF Quiet

LEMMA Ticking ==
  ASSUME IInv, Tick PROVE Steps /\ Answered(ex, ex')
<1>0. Env /\ Good(ex) /\ now < MaxTime /\ now' = now + 1
      /\ UNCHANGED <<scenario, ex, pc, dropped, lock>>
  BY EnvHolds DEF IInv, Tick
<1>1. Good(ex)'
  BY <1>0, GoodEndures
<1>2. Owned(ex)'
  BY <1>0 DEF IInv, Owned
<1>3. (now \in 0..MaxTime)'
  <2>1. MaxTime \in Nat
    BY ExecutionAssumption DEF IInv, MaxTime
  <2>. QED BY <1>0, <2>1 DEF Env, MaxTime
<1>4. IInv'
  BY <1>0, <1>1, <1>2, <1>3 DEF IInv
<1>5. Lasting(ex, ex') /\ Answered(ex, ex')
  BY <1>0 DEF Lasting, Answered, IInv, Good, Sound, Typed, PendingIsFresh
<1>6. \A e \in Execs : pc[e] = "done" => e \notin DOMAIN ex'.retained
  BY <1>0 DEF IInv, Owned
<1>. QED BY <1>0, <1>4, <1>5, <1>6 DEF Steps

-----------------------------------------------------------------------------
(* The theorems. *)

LEMMA Initially == Init => IInv
<1>. SUFFICES ASSUME Init PROVE IInv
  OBVIOUS
<1>1. ex = Fresh /\ now = 0 /\ scenario \in Scenarios /\ MaxTime \in Nat
  BY ExecutionAssumption DEF Init, MaxTime
<1>2. /\ DOMAIN ex = ExFields /\ ex.pending = {} /\ ex.idle = Zero /\ ex.absolute = Zero
      /\ ex.stream = Zero /\ DOMAIN ex.tombs = {} /\ DOMAIN ex.retained = {}
      /\ ex.deferred = <<>> /\ ex.notes = 0 /\ ex.stray = 0 /\ ex.ingress = "unclaimed"
      /\ ex.error = FALSE /\ ex.shutdown = FALSE /\ ex.ended = Zero
      /\ ex.outcome = [e \in Execs |-> "none"] /\ ex.from = [e \in Execs |-> None]
      /\ DOMAIN ex.latest = Ids /\ ex.told = Zero
  BY <1>1 DEF Fresh, ExFields, Empty
<1>3. Typed(ex)
  <2>1. /\ Zero \in [Execs -> Nat] /\ Zero \in [Execs -> 0..now]
        /\ Zero \in [Execs -> 0..MaxActivity]
    BY <1>1, NumberAssumption DEF Zero
  <2>2. ex.outcome \in [Execs -> Outcomes] /\ ex.from \in [Execs -> Execs \cup {None}]
    BY <1>2 DEF Outcomes
  <2>3. ex.error \in BOOLEAN /\ ex.shutdown \in BOOLEAN
    BY <1>2
  <2>4. ex.notes \in 0..MaxActivity /\ ex.stray \in 0..MaxActivity /\ ex.deferred \in Seq(Execs)
    BY <1>2, NumberAssumption
  <2>. QED BY <1>2, <2>1, <2>2, <2>3, <2>4 DEF Typed
<1>4. OneNamespace(ex) /\ PendingIsFresh(ex) /\ DeferredIsDropped(ex)
      /\ RetainedHasEnded(ex) /\ FailedIsEmpty(ex)
  BY <1>2 DEF OneNamespace, PendingIsFresh, DeferredIsDropped, RetainedHasEnded, FailedIsEmpty
<1>5. Counted(ex)
  BY <1>2, FS_EmptySet, NumberAssumption DEF Counted
<1>6. EndedIsBuried(ex) /\ ToldOnce(ex) /\ Matched(ex)
  BY <1>2 DEF EndedIsBuried, ToldOnce, Matched, Zero
<1>7. Good(ex)
  BY <1>3, <1>4, <1>5, <1>6 DEF Good, Sound
<1>8. Owned(ex)
  BY <1>2 DEF Init, Owned
<1>. QED BY <1>1, <1>7, <1>8 DEF Init, IInv

LEMMA EveryStep ==
  ASSUME IInv, Next PROVE Steps /\ Answered(ex, ex')
<1>1. ASSUME NEW e \in Execs,
             \/ Execute(e) \/ Poll(e) \/ Wait(e) \/ Enter(e) \/ Receive(e)
             \/ Cancel(e) \/ WaitCancelled(e) \/ AcceptTeardown(e) \/ Drop(e) \/ TakeStream(e)
      PROVE  Steps /\ Answered(ex, ex')
  BY <1>1, Execution, Polling, Entering, Receiving, Cancelling, GivingUpWaiting, TearingDown,
     Dropping, Reading, Zenon
<1>2. CASE \/ DriveFrame \/ PollTimeouts \/ FailConnection \/ Shutdown
           \/ TakeNotifications \/ TakeUncorrelated \/ TerminalRecords \/ Tick
  BY <1>2, Driving, PollingTimeouts, Failing, ShuttingDown, Reading, Ticking, Zenon
<1>. QED BY <1>1, <1>2, Zenon DEF Next

\* A step that changes nothing.
LEMMA Stuttering == ASSUME IInv, UNCHANGED vars PROVE IInv'
<1>1. Good(ex)'
  BY GoodTransfers DEF IInv, vars
<1>. QED BY <1>1 DEF IInv, vars, Owned, MaxTime

\* The invariant is inductive.
THEOREM Inductive == Spec => []IInv
<1>1. IInv /\ [Next]_vars => IInv'
  BY EveryStep, Stuttering DEF Steps
<1>. QED BY Initially, <1>1, PTL DEF Spec

\* The second layer, about the history of who cancelled whom: whatever a handle
\* ended has ended, and is its own execution or used its id after the retention.
BlameInv ==
  /\ canceller \in [Execs -> Execs \cup {None}]
  /\ \A e \in Execs : canceller[e] # None => ex.outcome[e] # "none"
  /\ CancelNamesItsOwner

\* Steps that ask for nothing leave it alone, because what has ended stays so.
LEMMA BlameLasts ==
  ASSUME IInv, BlameInv, Steps, UNCHANGED canceller PROVE BlameInv'
<1>1. scenario' = scenario /\ Lasting(ex, ex')
  BY DEF Steps
<1>2. IdOf' = IdOf
  BY <1>1 DEF IdOf
<1>3. (canceller \in [Execs -> Execs \cup {None}])'
  BY DEF BlameInv
<1>4. \A e \in Execs : canceller'[e] # None => ex'.outcome[e] # "none"
  BY <1>1 DEF BlameInv, Lasting
<1>5. ASSUME NEW e \in Execs, canceller[e] \notin {None, e}
      PROVE  /\ IdOf[canceller[e]] = IdOf[e] /\ ex'.outcome[canceller[e]] # "none"
             /\ ex'.ended[canceller[e]] + Retention <= ex'.ended[e]
  <2>1. canceller[e] \in Execs /\ ex.outcome[e] # "none"
    BY <1>5 DEF BlameInv
  <2>2. /\ IdOf[canceller[e]] = IdOf[e] /\ ex.outcome[canceller[e]] # "none"
        /\ ex.ended[canceller[e]] + Retention <= ex.ended[e]
    BY <1>5 DEF BlameInv, CancelNamesItsOwner
  <2>. QED BY <1>1, <2>1, <2>2 DEF Lasting
<1>6. CancelNamesItsOwner'
  BY <1>2, <1>5 DEF CancelNamesItsOwner
<1>. QED BY <1>3, <1>4, <1>6 DEF BlameInv

\* An execution that another one's handle ends has its id to itself: that other
\* one is over, and so is the time for which it keeps the id.
LEMMA OnlyLateSuccessors ==
  ASSUME IInv, NEW c \in Execs, pc[c] # "new", NEW e \in Execs, e # c,
         e \in ex.pending, IdOf[e] = IdOf[c]
  PROVE  ex.outcome[c] # "none" /\ ex.ended[c] + Retention <= now
<1>1. ex.outcome[c] # "none"
  BY DEF IInv, Owned, Good, Sound, OneNamespace
<1>2. ~ex.error /\ IdOf[c] \notin DOMAIN ex.tombs
  BY DEF IInv, Good, Sound, OneNamespace, FailedIsEmpty
<1>3. ~(now < ex.ended[c] + Retention)
  BY <1>1, <1>2 DEF IInv, Good, Sound, EndedIsBuried
<1>4. ex.ended[c] \in Nat /\ now \in Nat
  BY EnvHolds DEF IInv, Good, Sound, Typed, Env
<1>. QED BY <1>1, <1>3, <1>4, NumberAssumption

LEMMA BlameIsRight ==
  ASSUME IInv, BlameInv, NEW c \in Execs, pc[c] # "new", Steps, Hits(c), AskedBy(c)
  PROVE  BlameInv'
<1>1. scenario' = scenario /\ Lasting(ex, ex')
  BY DEF Steps
<1>2. IdOf' = IdOf
  BY <1>1 DEF IdOf
<1>3. (canceller \in [Execs -> Execs \cup {None}])'
  BY DEF BlameInv, AskedBy
<1>4. ASSUME NEW e \in Execs
      PROVE  IF ex.outcome[e] = "none" /\ ex'.outcome[e] \in {"caller", "teardown"}
             THEN canceller'[e] = c ELSE canceller'[e] = canceller[e]
  BY DEF AskedBy
<1>5. \A e \in Execs : canceller'[e] # None => ex'.outcome[e] # "none"
  BY <1>1, <1>4 DEF BlameInv, Lasting
<1>6. ASSUME NEW e \in Execs, NEW d, d = canceller'[e], d \notin {None, e}
      PROVE  /\ IdOf[d] = IdOf[e] /\ ex'.outcome[d] # "none"
             /\ ex'.ended[d] + Retention <= ex'.ended[e]
  <2>1. CASE ex.outcome[e] = "none" /\ ex'.outcome[e] \in {"caller", "teardown"}
    <3>1. d = c /\ IdOf[e] = IdOf[c] /\ e \in ex.pending /\ ex'.ended[e] = now
      BY <1>1, <1>4, <1>6, <2>1 DEF Lasting, Hits
    <3>2. ex.outcome[c] # "none" /\ ex.ended[c] + Retention <= now
      BY <1>6, <3>1, OnlyLateSuccessors
    <3>3. ex'.outcome[c] # "none" /\ ex'.ended[c] = ex.ended[c]
      BY <1>1, <3>2 DEF Lasting
    <3>. QED BY <3>1, <3>2, <3>3
  <2>2. CASE ~(ex.outcome[e] = "none" /\ ex'.outcome[e] \in {"caller", "teardown"})
    <3>1. d = canceller[e]
      BY <1>4, <1>6, <2>2
    <3>2. d \in Execs /\ ex.outcome[e] # "none"
      BY <1>6, <3>1 DEF BlameInv
    <3>3. /\ IdOf[d] = IdOf[e] /\ ex.outcome[d] # "none"
          /\ ex.ended[d] + Retention <= ex.ended[e]
      BY <1>6, <3>1 DEF BlameInv, CancelNamesItsOwner
    <3>. QED BY <1>1, <3>2, <3>3 DEF Lasting
  <2>. QED BY <2>1, <2>2
<1>7. CancelNamesItsOwner'
  BY <1>2, <1>6 DEF CancelNamesItsOwner
<1>. QED BY <1>3, <1>5, <1>7 DEF BlameInv

\* Both layers are inductive together.
THEOREM BlameHolds == Spec => []BlameInv
<1>1. Init => BlameInv
  BY DEF Init, BlameInv, CancelNamesItsOwner
<1>2. ASSUME IInv, BlameInv, Next PROVE BlameInv'
  <2>1. CASE UNCHANGED canceller
    BY <1>2, <2>1, EveryStep, BlameLasts
  <2>2. ASSUME NEW c \in Execs, Cancel(c) \/ WaitCancelled(c) \/ AcceptTeardown(c), AskedBy(c)
        PROVE  BlameInv'
    <3>1. pc[c] # "new"
      BY <2>2 DEF Cancel, WaitCancelled, AcceptTeardown
    <3>2. Steps /\ Hits(c)
      BY <1>2, <2>2, Cancelling, GivingUpWaiting, TearingDown
    <3>. QED BY <1>2, <2>2, <3>1, <3>2, BlameIsRight
  <2>. QED BY <1>2, <2>1, <2>2, Zenon DEF Next
<1>3. ASSUME BlameInv, UNCHANGED vars PROVE BlameInv'
  BY <1>3 DEF BlameInv, CancelNamesItsOwner, vars, IdOf
<1>4. IInv /\ BlameInv /\ [Next]_vars => BlameInv'
  BY <1>2, <1>3
<1>. QED BY Inductive, <1>1, <1>4, PTL DEF Spec

\* An id means one request at a time, whatever is cancelled, dropped, timed out
\* or answered late, if peers answer before the tombstone of a request expires
\* (execution.rs: pending, tombstones, retire).  A handle whose execution is
\* over may end a later one of its id, and none before the retention has passed.
THEOREM IdsHold ==
  ASSUME Patience < Retention
  PROVE  Spec => []IdsAreNeverConfused
<1>1. IInv /\ BlameInv => IdsAreNeverConfused
  <2>. SUFFICES ASSUME IInv, BlameInv PROVE IdsAreNeverConfused
    OBVIOUS
  <2>1. Typed(ex)
    BY DEF IInv, Good, Sound
  <2>2. \A j \in DOMAIN ex.deferred : ex.deferred[j] \in Execs
    BY <2>1 DEF Typed
  <2>3. TypeOK
    BY <2>1, <2>2 DEF IInv, BlameInv, TypeOK, Typed
  <2>4. IdsAreExclusive
    BY DEF IInv, Good, Sound, OneNamespace, Counted, IdsAreExclusive
  <2>5. AnswersMatch /\ CancelReachesItsRequest
    BY DEF IInv, Good, Sound, Matched, ToldOnce, GivenUp, AnswersMatch, CancelReachesItsRequest
  <2>. QED BY <2>3, <2>4, <2>5 DEF BlameInv, IdsAreNeverConfused
<1>. QED BY Inductive, BlameHolds, <1>1, PTL

\* Whatever interleaves, each request that was sent is pending or has its
\* outcome, and a connection that failed or shut down keeps nobody waiting.
THEOREM OwnersAreServed == Spec => []NoOwnerIsStranded
<1>1. IInv => NoOwnerIsStranded
  BY DEF IInv, Owned, Good, Sound, FailedIsEmpty, NoOwnerIsStranded
<1>. QED BY Inductive, <1>1, PTL

\* An execution has one terminal transition, and its owner takes it once.
THEOREM OutcomesAreFinal == Spec => OutcomeIsFinal
<1>. DEFINE A == \A e \in Execs :
                   /\ ex.outcome[e] # "none" =>
                        /\ ex'.outcome[e] = ex.outcome[e] /\ ex'.from[e] = ex.from[e]
                        /\ e \notin ex'.pending
                   /\ pc[e] = "done" => e \notin DOMAIN ex'.retained
<1>1. IInv /\ [Next]_vars => [A]_vars
  BY EveryStep DEF Steps, Lasting
<1>. QED BY Inductive, <1>1, PTL DEF Spec, OutcomeIsFinal

\* Deadlines bind the peer: no progress moves an absolute deadline, a poll
\* leaves nothing overdue, and the driver accepts nothing late.
THEOREM DeadlinesHold == Spec => DeadlinesBind
<1>. DEFINE A == /\ \A e \in ex.pending \cap ex'.pending :
                      /\ ex'.absolute[e] = ex.absolute[e]
                      /\ PollTimeouts => now < ex'.absolute[e] /\ now < ex'.idle[e]
                 /\ \A e \in Execs :
                      ex'.ingress = "external" /\ ex.outcome[e] = "none"
                        /\ ex'.outcome[e] = "response"
                        => now < ex.idle[e] /\ ex.idle[e] <= ex.absolute[e]
<1>1. ASSUME IInv, Next PROVE A
  <2>1. Steps /\ Answered(ex, ex')
    BY <1>1, EveryStep
  <2>2. PollTimeouts => NotDue(ex')
    BY <1>1, PollingTimeouts
  <2>. QED BY <2>1, <2>2 DEF Steps, Lasting, Answered, NotDue
<1>2. IInv /\ [Next]_vars => [A]_vars
  BY <1>1
<1>. QED BY Inductive, <1>2, PTL DEF Spec, DeadlinesBind

=============================================================================
