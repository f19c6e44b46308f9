------------------------- MODULE ConnectionPump_proofs -------------------------
(***************************************************************************)
(* Proofs about ConnectionPump: custody of ids, slots and bytes, an honest *)
(* shutdown, cancellations that reach whom they are meant for and are      *)
(* final, and one answer to every request served, for every set of         *)
(* distinct request frames and ids, any limits, both eras and every        *)
(* combination of faults.                                                  *)
(***************************************************************************)
EXTENDS ConnectionPump, FiniteSetTheorems, SequenceTheorems, WellFoundedInduction, TLAPS

(***************************************************************************)
(* The inductive invariant.  It says where a request may be at each stage  *)
(* of the pump, of its child and of the worker, and what that place owns.  *)
(***************************************************************************)
\* The pump has a request in hand that nobody else knows of.
Hands == {"check", "admit", "slot", "bytes", "register", "spawn", "enqueue"}
\* The pump still has to do something for its request.
Attending == Hands \cup {"refused", "bind", "reply"}
Busy == {"taken", "waiting", "begin", "check", "handle", "running", "respond", "replying",
         "unguard", "discard"}
\* Where an entry of the active map is kept.
Guarding == {"guarded", "start_cancelled", "duplicate", "running", "progress", "respond",
             "replying", "unguard"}
WorkerGuarding == {"running", "respond", "replying", "unguard"}
\* Where an id, a slot and the bytes of a frame are kept.
ChildIds == {"waiting", "begun", "guarded", "start_cancelled", "running", "progress",
             "respond", "replying", "duplicate", "unguard", "settle", "fail", "stop", "discard"}
ChildBytes == ChildIds \cup {"unregister", "bytes"}
ChildSlots == ChildBytes \cup {"slot"}
PumpBytes == {"register", "spawn", "enqueue"}
PumpIds == PumpBytes \cup {"slot", "bytes"}
PumpSlots == {"bytes", "register", "spawn"}

HoldsId(r) ==
  \/ child[r] \in ChildIds \/ r \in Queued
  \/ worker.pc \in Busy /\ Job = r
  \/ pump.pc \in PumpIds /\ pump.req = r
HoldsSlot(r) ==
  \/ child[r] \in ChildSlots
  \/ Modern /\ pump.pc \in PumpSlots /\ pump.req = r
HoldsBytes(r) ==
  \/ child[r] \in ChildBytes \/ r \in Queued
  \/ worker.pc = "taken" /\ Job = r
  \/ pump.pc \in PumpBytes /\ pump.req = r

Taken == {Frames[n] : n \in 1..(next - 1)}

\* What each stage knows of its request.
Stages ==
  /\ pump.pc \in Attending => pump.req \in Reqs /\ pump.req \in Taken
  /\ pump.pc \in {"check", "admit"} => Correlated(pump.req)
  /\ pump.pc = "lookup" => pump.target \in Ids
  /\ worker.pc \in Busy => Job \in Reqs /\ Job \in Taken /\ Job \notin Queued

\* A modern connection has no use for the worker, an exact-2024 one for children.
Eras ==
  /\ Modern => /\ mailbox = <<>> /\ pump.pc # "enqueue"
               /\ worker.pc \in {"idle", "end", "gone"} /\ (worker.pc = "end" => worker.clean)
  /\ ~Modern => /\ \A r \in Reqs : child[r] = "idle"
                /\ pump.pc \notin {"slot", "register", "spawn", "refused"}

\* Each request is at most once in the channel, and came from the peer.
Mail ==
  /\ \A m, n \in DOMAIN mailbox : mailbox[m] = mailbox[n] => m = n \/ mailbox[m] = Response
  /\ Queued \subseteq Taken

\* A frame yet to be received has left no trace, and nobody but the pump knows
\* the one in its hand.
Fresh ==
  /\ \A r \in Reqs : r \notin Taken => child[r] = "idle"
  /\ pump.pc \in Hands => /\ child[pump.req] = "idle" /\ pump.req \notin Queued
                          /\ ~(worker.pc \in Busy /\ Job = pump.req)

\* Ids: who holds one owns it, and an active entry is kept by a guard.
Owned ==
  /\ \A r \in Reqs : HoldsId(r) /\ Correlated(r) => q.owner[IdOf[r]] = r
  /\ \A i \in Ids : \A r \in Reqs : q.owner[i] = r => HoldsId(r) /\ IdOf[r] = i
Guarded ==
  \A i \in Ids : active[i] # NoReq =>
    /\ active[i] = q.owner[i]
    /\ child[active[i]] \in Guarding \/ (worker.pc \in WorkerGuarding /\ Job = active[i])

\* Slots and bytes.
Slots == {r \in Reqs : HoldsSlot(r)}
Bytes == {r \in Reqs : HoldsBytes(r)}
Weight(z, S) == MapThenSumSet(LAMBDA r : z[r], S)
SlotsAreCounted == q.inFlight = Cardinality(Slots) /\ q.inFlight <= Depth
BytesAreCounted == q.bytes = Weight(Size, Bytes) /\ q.bytes <= MaxBytes

Custody == /\ Stages /\ Eras /\ Mail /\ Fresh
           /\ Owned /\ Guarded /\ SlotsAreCounted /\ BytesAreCounted

\* A child about to report has a report left.
Reporting == \A r \in Reqs : child[r] = "progress" => progress[r] < MaxProgress

IInv == TypeOK /\ Reporting /\ Custody

-----------------------------------------------------------------------------
(* Sums over sets of requests. *)

\* The least-number principle, for sets.
LEMMA LeastNumber ==
  ASSUME NEW S \in SUBSET Nat, S # {}
  PROVE  \E m \in S : \A k \in S : m <= k
<1>. DEFINE R == OpToRel(<, Nat)
<1>1. IsWellFoundedOn(R, Nat)
  BY NatLessThanWellFounded
<1>2. \A i, j \in Nat : <<i, j>> \in R <=> i < j
  BY DEF OpToRel
<1>. HIDE DEF R
<1>3. PICK x \in S : \A y \in S : ~(<<y, x>> \in R)
  BY <1>1, WFMin
<1>4. \A y \in S : y \in Nat /\ x \in Nat /\ ~(y < x)
  BY <1>2, <1>3
<1>5. \A y \in S : x <= y
  BY <1>4
<1>. QED BY <1>5

Pick(s) == CHOOSE x \in s : TRUE

\* f adds up z over the subsets of S, taking one element after the other.
Sums(f, z, D) ==
  f = [s \in D |-> IF s = {} THEN 0 ELSE z[Pick(s)] + f[s \ {Pick(s)}]]

LEMMA WeightIsASum ==
  ASSUME NEW z, NEW S
  PROVE  Weight(z, S) = (CHOOSE f : Sums(f, z, SUBSET S))[S]
BY DEF Weight, MapThenSumSet, MapThenFoldSet, Sums, Pick

\* The subsets of S with at most n elements.
Layer(S, n) == {s \in SUBSET S : Cardinality(s) <= n}

LEMMA Picked ==
  ASSUME NEW S, IsFiniteSet(S), NEW s \in SUBSET S, s # {}
  PROVE  /\ Pick(s) \in s /\ s \ {Pick(s)} \in SUBSET S
         /\ IsFiniteSet(s) /\ Cardinality(s) \in Nat /\ Cardinality(s) > 0
         /\ Cardinality(s \ {Pick(s)}) = Cardinality(s) - 1
<1>1. Pick(s) \in s
  BY DEF Pick
<1>2. IsFiniteSet(s)
  BY FS_Subset
<1>. QED BY <1>1, <1>2, FS_RemoveElement, FS_CardinalityType, FS_EmptySet

LEMMA LayersHaveSums ==
  ASSUME NEW S, IsFiniteSet(S), NEW z \in [S -> Nat], NEW n \in Nat
  PROVE  \E f \in [Layer(S, n) -> Nat] : Sums(f, z, Layer(S, n))
<1>. DEFINE Has(k) == \E f \in [Layer(S, k) -> Nat] : Sums(f, z, Layer(S, k))
            Bad == {k \in Nat : ~Has(k)}
<1>1. Has(0)
  <2>. DEFINE g == [s \in Layer(S, 0) |-> 0]
  <2>1. ASSUME NEW s \in Layer(S, 0), s # {} PROVE FALSE
    <3>1. s \in SUBSET S /\ Cardinality(s) <= 0
      BY DEF Layer
    <3>2. Cardinality(s) \in Nat /\ Cardinality(s) > 0
      BY <3>1, <2>1, Picked
    <3>. QED BY <3>1, <3>2
  <2>2. g \in [Layer(S, 0) -> Nat] /\ Sums(g, z, Layer(S, 0))
    BY <2>1 DEF Sums
  <2>. QED BY <2>2
<1>2. ASSUME NEW k \in Nat, Has(k) PROVE Has(k + 1)
  <2>1. PICK f \in [Layer(S, k) -> Nat] : Sums(f, z, Layer(S, k))
    BY <1>2
  <2>. DEFINE g == [s \in Layer(S, k + 1) |->
                      IF s = {} THEN 0 ELSE z[Pick(s)] + f[s \ {Pick(s)}]]
  <2>2. ASSUME NEW s \in Layer(S, k + 1), s # {}
        PROVE  s \ {Pick(s)} \in Layer(S, k) /\ Pick(s) \in S
    BY <2>2, Picked DEF Layer
  <2>3. g \in [Layer(S, k + 1) -> Nat]
    BY <2>2
  <2>4. Layer(S, k) \subseteq Layer(S, k + 1)
    <3>1. ASSUME NEW s \in Layer(S, k) PROVE Cardinality(s) <= k + 1
      <4>1. Cardinality(s) \in Nat
        BY FS_Subset, FS_CardinalityType DEF Layer
      <4>. QED BY <4>1 DEF Layer
    <3>. QED BY <3>1 DEF Layer
  <2>5. \A s \in Layer(S, k) : g[s] = f[s]
    <3>1. ASSUME NEW s \in Layer(S, k) PROVE g[s] = f[s]
      <4>1. f[s] = IF s = {} THEN 0 ELSE z[Pick(s)] + f[s \ {Pick(s)}]
        BY <2>1 DEF Sums
      <4>. QED BY <4>1, <2>4
    <3>. QED BY <3>1
  <2>. HIDE DEF g
  <2>6. \A s \in Layer(S, k + 1) : s # {} => g[s \ {Pick(s)}] = f[s \ {Pick(s)}]
    BY <2>2, <2>5
  <2>7. g = [s \in Layer(S, k + 1) |-> IF s = {} THEN 0 ELSE z[Pick(s)] + g[s \ {Pick(s)}]]
    <3>1. g = [s \in Layer(S, k + 1) |->
                 IF s = {} THEN 0 ELSE z[Pick(s)] + f[s \ {Pick(s)}]]
      BY DEF g
    <3>2. \A s \in Layer(S, k + 1) :
            (IF s = {} THEN 0 ELSE z[Pick(s)] + f[s \ {Pick(s)}])
            = (IF s = {} THEN 0 ELSE z[Pick(s)] + g[s \ {Pick(s)}])
      BY <2>6
    <3>. QED BY <3>1, <3>2
  <2>8. Sums(g, z, Layer(S, k + 1))
    BY <2>7 DEF Sums
  <2>. QED BY <2>3, <2>8
<1>3. Bad = {}
  <2>. SUFFICES ASSUME Bad # {} PROVE FALSE
    OBVIOUS
  <2>1. PICK m \in Bad : \A k \in Bad : m <= k
    <3>. HIDE DEF Has
    <3>. QED BY LeastNumber
  <2>2. m \in Nat /\ ~Has(m)
    BY <2>1
  <2>3. m # 0
    BY <1>1, <2>2
  <2>4. m - 1 \in Nat /\ (m - 1) + 1 = m
    BY <2>2, <2>3
  <2>5. Has(m - 1)
    <3>1. m - 1 \notin Bad
      <4>. HIDE DEF Bad
      <4>. QED BY <2>1, <2>2, <2>4
    <3>. HIDE DEF Has
    <3>. QED BY <3>1, <2>4
  <2>6. Has((m - 1) + 1)
    <3>. HIDE DEF Has
    <3>. QED BY <1>2, <2>4, <2>5
  <2>. QED BY <2>2, <2>4, <2>6
<1>. QED BY <1>3

LEMMA SumExists ==
  ASSUME NEW S, IsFiniteSet(S), NEW z \in [S -> Nat]
  PROVE  \E f \in [SUBSET S -> Nat] : Sums(f, z, SUBSET S)
<1>1. Cardinality(S) \in Nat
  BY FS_CardinalityType
<1>2. \A s \in SUBSET S : Cardinality(s) <= Cardinality(S)
  BY FS_Subset
<1>3. Layer(S, Cardinality(S)) = SUBSET S
  BY <1>2 DEF Layer
<1>4. PICK f \in [Layer(S, Cardinality(S)) -> Nat] : Sums(f, z, Layer(S, Cardinality(S)))
  BY <1>1, LayersHaveSums
<1>. QED BY <1>3, <1>4

\* The sum of a set is the value of any function that adds up subsets around it.
LEMMA SumsAgree ==
  ASSUME NEW S, IsFiniteSet(S), NEW z \in [S -> Nat],
         NEW f, Sums(f, z, SUBSET S), NEW T \in SUBSET S
  PROVE  Weight(z, T) = f[T]
<1>1. IsFiniteSet(T)
  BY FS_Subset
<1>. DEFINE y == [t \in T |-> z[t]]
<1>2. PICK h \in [SUBSET T -> Nat] : Sums(h, y, SUBSET T)
  BY <1>1, SumExists
<1>3. Sums(h, z, SUBSET T)
  <2>1. \A s \in SUBSET T : s # {} => Pick(s) \in T
    BY <1>1, Picked
  <2>2. \A s \in SUBSET T : (IF s = {} THEN 0 ELSE y[Pick(s)] + h[s \ {Pick(s)}])
                            = (IF s = {} THEN 0 ELSE z[Pick(s)] + h[s \ {Pick(s)}])
    BY <2>1
  <2>. HIDE DEF y
  <2>3. h = [s \in SUBSET T |-> IF s = {} THEN 0 ELSE y[Pick(s)] + h[s \ {Pick(s)}]]
    BY <1>2 DEF Sums
  <2>4. h = [s \in SUBSET T |-> IF s = {} THEN 0 ELSE z[Pick(s)] + h[s \ {Pick(s)}]]
    BY <2>2, <2>3
  <2>. QED BY <2>4 DEF Sums
<1>4. PICK g : Sums(g, z, SUBSET T) /\ Weight(z, T) = g[T]
  BY <1>3, WeightIsASum
<1>5. T \subseteq S /\ T \in SUBSET T
  OBVIOUS
<1>6. \A s \in SUBSET T : g[s] = f[s]
  <2>. DEFINE Bad == {Cardinality(s) : s \in {t \in SUBSET T : g[t] # f[t]}}
  <2>1. \A s \in SUBSET T : Cardinality(s) \in Nat
    BY FS_Subset, FS_CardinalityType
  <2>2. Bad \in SUBSET Nat
    BY <2>1
  <2>. SUFFICES ASSUME Bad # {} PROVE FALSE
    OBVIOUS
  <2>3. PICK m \in Bad : \A k \in Bad : m <= k
    <3>. HIDE DEF Bad
    <3>. QED BY <2>2, LeastNumber
  <2>4. PICK s \in SUBSET T : g[s] # f[s] /\ m = Cardinality(s)
    BY <2>3
  <2>5. f[s] = IF s = {} THEN 0 ELSE z[Pick(s)] + f[s \ {Pick(s)}]
    BY DEF Sums
  <2>6. g[s] = IF s = {} THEN 0 ELSE z[Pick(s)] + g[s \ {Pick(s)}]
    BY <1>4 DEF Sums
  <2>7. s # {} /\ g[s \ {Pick(s)}] # f[s \ {Pick(s)}]
    BY <2>4, <2>5, <2>6
  <2>8. Cardinality(s \ {Pick(s)}) < m
    BY <2>1, <2>4, <2>7, Picked
  <2>9. Cardinality(s \ {Pick(s)}) \in Bad
    BY <2>7
  <2>. HIDE DEF Bad
  <2>10. Cardinality(s \ {Pick(s)}) \in Nat /\ m \in Nat /\ m <= Cardinality(s \ {Pick(s)})
    BY <2>2, <2>3, <2>9
  <2>. QED BY <2>8, <2>10
<1>. QED BY <1>4, <1>5, <1>6

\* Adding up in another order gives the same.
LEMMA SumTakesOut ==
  ASSUME NEW S, IsFiniteSet(S), NEW z \in [S -> Nat],
         NEW f \in [SUBSET S -> Nat], Sums(f, z, SUBSET S), NEW T \in SUBSET S, NEW x \in T
  PROVE  f[T] = z[x] + f[T \ {x}]
<1>. DEFINE Holds(t) == \A y \in t : f[t] = z[y] + f[t \ {y}]
            Bad == {Cardinality(s) : s \in {t \in SUBSET S : ~Holds(t)}}
<1>1. \A s \in SUBSET S : Cardinality(s) \in Nat
  BY FS_Subset, FS_CardinalityType
<1>2. Bad \in SUBSET Nat
  <2>. HIDE DEF Holds
  <2>. QED BY <1>1
<1>3. Bad = {}
  <2>. SUFFICES ASSUME Bad # {} PROVE FALSE
    OBVIOUS
  <2>1. PICK m \in Bad : \A k \in Bad : m <= k
    <3>. HIDE DEF Bad
    <3>. QED BY <1>2, LeastNumber
  <2>2. PICK s \in SUBSET S : ~Holds(s) /\ m = Cardinality(s)
    <3>. HIDE DEF Holds
    <3>. QED BY <2>1
  <2>3. PICK y \in s : f[s] # z[y] + f[s \ {y}]
    BY <2>2
  <2>. DEFINE c == Pick(s)
  <2>4. c \in s /\ s # {} /\ IsFiniteSet(s)
    BY <2>3, Picked
  <2>5. f[s] = z[c] + f[s \ {c}]
    BY <2>4 DEF Sums
  <2>6. c # y
    BY <2>3, <2>5
  <2>7. ASSUME NEW w \in s PROVE Holds(s \ {w})
    <3>1. Cardinality(s \ {w}) \in Nat /\ Cardinality(s \ {w}) = m - 1 /\ m \in Nat
      BY <1>1, <2>2, <2>4, FS_RemoveElement
    <3>2. Cardinality(s \ {w}) \notin Bad
      <4>. HIDE DEF Bad
      <4>. QED BY <2>1, <3>1
    <3>. HIDE DEF Holds
    <3>. QED BY <3>2
  <2>8. f[s \ {c}] = z[y] + f[(s \ {c}) \ {y}]
    BY <2>4, <2>6, <2>7
  <2>9. f[s \ {y}] = z[c] + f[(s \ {y}) \ {c}]
    BY <2>4, <2>6, <2>7
  <2>10. (s \ {c}) \ {y} = (s \ {y}) \ {c}
    OBVIOUS
  <2>11. z[c] \in Nat /\ z[y] \in Nat /\ f[(s \ {y}) \ {c}] \in Nat
    BY <2>4
  <2>12. f[s \ {c}] = z[y] + f[(s \ {y}) \ {c}]
    BY <2>8, <2>10
  <2>13. f[s] = z[y] + f[s \ {y}]
    <3>. HIDE DEF c
    <3>. QED BY <2>5, <2>9, <2>11, <2>12
  <2>. QED BY <2>3, <2>13
<1>4. Holds(T)
  <2>. HIDE DEF Holds
  <2>. QED BY <1>3
<1>. QED BY <1>4

\* What a request adds to the charge, and what its release takes off it.
LEMMA WeightFacts ==
  ASSUME IsFiniteSet(Reqs), NEW z \in [Reqs -> Nat], NEW S \in SUBSET Reqs
  PROVE  /\ Weight(z, S) \in Nat
         /\ S = {} => Weight(z, S) = 0
         /\ \A r \in Reqs \ S : Weight(z, S \cup {r}) = Weight(z, S) + z[r]
         /\ \A r \in S : Weight(z, S \ {r}) = Weight(z, S) - z[r] /\ z[r] <= Weight(z, S)
<1>1. PICK f \in [SUBSET Reqs -> Nat] : Sums(f, z, SUBSET Reqs)
  BY SumExists
<1>2. \A T \in SUBSET Reqs : Weight(z, T) = f[T]
  BY <1>1, SumsAgree
<1>3. \A T \in SUBSET Reqs : \A x \in T : f[T] = z[x] + f[T \ {x}]
  <2>1. ASSUME NEW T \in SUBSET Reqs, NEW x \in T PROVE f[T] = z[x] + f[T \ {x}]
    BY <1>1, SumTakesOut
  <2>. QED BY <2>1
<1>4. f[{}] = 0
  BY <1>1 DEF Sums
<1>5. ASSUME NEW r \in Reqs \ S PROVE f[S \cup {r}] = f[S] + z[r]
  <2>1. S \cup {r} \in SUBSET Reqs /\ r \in S \cup {r} /\ (S \cup {r}) \ {r} = S
    OBVIOUS
  <2>2. f[S \cup {r}] = z[r] + f[S]
    BY <1>3, <2>1
  <2>. QED BY <2>2
<1>6. ASSUME NEW r \in S PROVE f[S \ {r}] = f[S] - z[r] /\ z[r] <= f[S]
  <2>1. f[S] = z[r] + f[S \ {r}] /\ f[S \ {r}] \in Nat /\ z[r] \in Nat /\ f[S] \in Nat
    BY <1>3
  <2>. QED BY <2>1
<1>7. S \in SUBSET Reqs /\ f[S] \in Nat
  OBVIOUS
<1>8. \A r \in Reqs \ S : S \cup {r} \in SUBSET Reqs
  OBVIOUS
<1>9. \A r \in S : S \ {r} \in SUBSET Reqs
  OBVIOUS
<1>. QED BY <1>2, <1>4, <1>5, <1>6, <1>7, <1>8, <1>9

-----------------------------------------------------------------------------
(* The connection, and its sets of requests. *)

\* What the scenario fixes.
Setting ==
  /\ IdOf \in [Reqs -> Ids \cup {NoId}] /\ Size \in [Reqs -> Nat]
  /\ Depth \in Nat \ {0} /\ MaxBytes \in Nat
  /\ Modern \in BOOLEAN /\ Detach \in BOOLEAN /\ Untracked \subseteq Reqs
  /\ Frames \in Seq(Reqs) /\ \A m, n \in DOMAIN Frames : Frames[m] = Frames[n] => m = n
  /\ SendOutcomes \subseteq {"ok", "cancelled", "failed"}
  /\ MaxCancels \in Nat /\ MaxProgress \in Nat
Still ==
  /\ scenario' = scenario
  /\ IdOf' = IdOf /\ Size' = Size /\ Protected' = Protected /\ Depth' = Depth
  /\ MaxBytes' = MaxBytes /\ Modern' = Modern /\ Detach' = Detach /\ Untracked' = Untracked
  /\ Frames' = Frames /\ MaxCancels' = MaxCancels /\ MaxProgress' = MaxProgress

LEMMA SettingHolds == ASSUME TypeOK PROVE Setting
BY RequestAssumption, ConnectionAssumption
   DEF TypeOK, Setting, IdOf, Size, Depth, MaxBytes, Modern, Detach, Untracked, Frames,
       SendOutcomes, MaxCancels, MaxProgress

LEMMA SettingStays == ASSUME scenario' = scenario PROVE Still
BY DEF Still, IdOf, Size, Protected, Depth, MaxBytes, Modern, Detach, Untracked, Frames,
       MaxCancels, MaxProgress

LEMMA Sentinels ==
  /\ IsFiniteSet(Reqs) /\ NoReq \notin Reqs /\ NoId \notin Ids
  /\ Pump \notin Reqs /\ Worker \notin Reqs /\ Free \notin Reqs /\ Response \notin Reqs
  /\ Free # Pump /\ Free # Worker /\ Pump # Worker
BY RequestAssumption, ConnectionAssumption

PumpType ==
  [pc: PumpPcs, req: Reqs \cup {NoReq}, reply: Kinds, exit: {0, 1}, eof: BOOLEAN,
   childrenQuiesced: BOOLEAN, hook: BOOLEAN, target: Ids \cup {NoId}]
WorkerType ==
  [pc: WorkerPcs, job: Reqs \cup {NoReq}, dropped: BOOLEAN, kind: Kinds, clean: BOOLEAN,
   sent: {"ok", "cancelled", "failed"}]

\* The names of the stages, one by one.
LEMMA Names ==
  /\ "recv" \in PumpPcs /\ "check" \in PumpPcs /\ "admit" \in PumpPcs /\ "slot" \in PumpPcs
  /\ "bytes" \in PumpPcs /\ "register" \in PumpPcs /\ "spawn" \in PumpPcs
  /\ "refused" \in PumpPcs /\ "enqueue" \in PumpPcs /\ "bind" \in PumpPcs
  /\ "reply" \in PumpPcs /\ "lookup" \in PumpPcs /\ "leave" \in PumpPcs
  /\ "drain" \in PumpPcs /\ "stop" \in PumpPcs /\ "active" \in PumpPcs
  /\ "children" \in PumpPcs /\ "children_late" \in PumpPcs /\ "worker" \in PumpPcs
  /\ "worker_late" \in PumpPcs /\ "finish" \in PumpPcs /\ "done" \in PumpPcs
  /\ "idle" \in ChildPcs /\ "waiting" \in ChildPcs /\ "begun" \in ChildPcs
  /\ "guarded" \in ChildPcs /\ "start_cancelled" \in ChildPcs /\ "running" \in ChildPcs
  /\ "progress" \in ChildPcs /\ "respond" \in ChildPcs /\ "replying" \in ChildPcs
  /\ "duplicate" \in ChildPcs /\ "unguard" \in ChildPcs /\ "settle" \in ChildPcs
  /\ "fail" \in ChildPcs /\ "stop" \in ChildPcs /\ "discard" \in ChildPcs
  /\ "unregister" \in ChildPcs /\ "bytes" \in ChildPcs /\ "slot" \in ChildPcs
  /\ "gone" \in ChildPcs
  /\ "idle" \in WorkerPcs /\ "taken" \in WorkerPcs /\ "waiting" \in WorkerPcs
  /\ "begin" \in WorkerPcs /\ "check" \in WorkerPcs /\ "handle" \in WorkerPcs
  /\ "running" \in WorkerPcs /\ "respond" \in WorkerPcs /\ "replying" \in WorkerPcs
  /\ "unguard" \in WorkerPcs /\ "discard" \in WorkerPcs /\ "end" \in WorkerPcs
  /\ "fail" \in WorkerPcs /\ "stop" \in WorkerPcs /\ "stopped" \in WorkerPcs
  /\ "gone" \in WorkerPcs
  /\ "ok" \in Kinds /\ "cancelled" \in Kinds /\ "duplicate" \in Kinds
  /\ "overloaded" \in Kinds /\ "rejected" \in Kinds /\ "unavailable" \in Kinds
  /\ "none" \in Kinds
BY DEF PumpPcs, ChildPcs, WorkerPcs, Kinds

LEMMA Types ==
  ASSUME TypeOK
  PROVE  /\ q \in QueueStates /\ word \in [Reqs -> Words] /\ active \in [Ids -> Reqs \cup {NoReq}]
         /\ mailbox \in Seq(Reqs \cup {Response}) /\ Len(mailbox) <= Depth
         /\ writer \in Actors \cup {Free} /\ failed \in BOOLEAN
         /\ pump \in PumpType /\ worker \in WorkerType /\ child \in [Reqs -> ChildPcs]
         /\ outcome \in [Reqs -> {"none", "ok", "cancelled", "failed"}]
         /\ admission \in [Reqs -> {"pending", "admitted", "rejected"}]
         /\ toCancel \in [Actors -> SUBSET Reqs]
         /\ next \in 1..(Len(Frames) + 1) /\ cancels \in 0..MaxCancels
         /\ replies \in [Reqs -> Seq(Kinds)] /\ progress \in [Reqs -> 0..MaxProgress]
         /\ accepted \subseteq Reqs /\ lost \subseteq Reqs
BY DEF TypeOK, PumpType, WorkerType

-----------------------------------------------------------------------------
(* The operations of the queue. *)

\* d is p without what it keeps under the id of r.
Releases(p, d, r) ==
  /\ Correlated(r) => /\ d.owner[IdOf[r]] = NoReq
                      /\ IdOf[r] \notin d.cancelled /\ IdOf[r] \notin d.dispatching
  /\ \A i \in Ids : i # IdOf[r] => /\ d.owner[i] = p.owner[i]
                                   /\ i \in d.cancelled <=> i \in p.cancelled
                                   /\ i \in d.dispatching <=> i \in p.dispatching
  /\ d.registered = p.registered /\ d.stopping = p.stopping

LEMMA DiscardReleases ==
  ASSUME Setting, NEW p \in QueueStates, NEW r \in Reqs
  PROVE  /\ Discard(p, r) \in QueueStates /\ Releases(p, Discard(p, r), r)
         /\ Discard(p, r).inFlight = p.inFlight /\ Discard(p, r).bytes = p.bytes
<1>1. IdOf[r] \in Ids \/ IdOf[r] \notin Ids
  OBVIOUS
<1>2. Discard(p, r) \in QueueStates
  BY DEF Discard, QueueStates, Correlated
<1>3. /\ Correlated(r) => /\ Discard(p, r).owner[IdOf[r]] = NoReq
                          /\ IdOf[r] \notin Discard(p, r).cancelled
                          /\ IdOf[r] \notin Discard(p, r).dispatching
      /\ Discard(p, r).registered = p.registered /\ Discard(p, r).stopping = p.stopping
      /\ Discard(p, r).inFlight = p.inFlight /\ Discard(p, r).bytes = p.bytes
  BY DEF Discard, QueueStates, Correlated
<1>4. \A i \in Ids : i # IdOf[r] =>
           /\ Discard(p, r).owner[i] = p.owner[i]
           /\ i \in Discard(p, r).cancelled <=> i \in p.cancelled
           /\ i \in Discard(p, r).dispatching <=> i \in p.dispatching
  BY DEF Discard, QueueStates, Correlated
<1>. QED BY <1>2, <1>3, <1>4 DEF Releases

\* d differs from p in its counters only, or in its marks only.
SameMarks(p, d) ==
  /\ d.owner = p.owner /\ d.dispatching = p.dispatching /\ d.cancelled = p.cancelled
  /\ d.registered = p.registered /\ d.stopping = p.stopping
SameCounters(p, d) == d.inFlight = p.inFlight /\ d.bytes = p.bytes

LEMMA AdmitOwns ==
  ASSUME NEW p \in QueueStates, NEW r \in Reqs, IdOf[r] \in Ids
  PROVE  LET d == Admit(p, r) IN
         /\ d \in QueueStates /\ SameCounters(p, d)
         /\ d.owner[IdOf[r]] = r /\ \A i \in Ids : i # IdOf[r] => d.owner[i] = p.owner[i]
         /\ d.dispatching = p.dispatching /\ d.cancelled = p.cancelled
         /\ d.registered = p.registered /\ d.stopping = p.stopping
<1>. DEFINE o == [p.owner EXCEPT ![IdOf[r]] = r]
            t == IF r \in Protected THEN p.protected \cup {IdOf[r]} ELSE p.protected
<1>1. Admit(p, r) = [p EXCEPT !.owner = o, !.protected = t]
  BY DEF Admit
<1>2. t \in SUBSET Ids
  BY DEF QueueStates
<1>3. /\ o \in [Ids -> Reqs \cup {NoReq}] /\ o[IdOf[r]] = r
      /\ \A i \in Ids : i # IdOf[r] => o[i] = p.owner[i]
  BY DEF QueueStates
<1>. HIDE DEF o, t
<1>4. Admit(p, r) \in QueueStates
  BY <1>1, <1>2, <1>3 DEF QueueStates
<1>5. /\ Admit(p, r).owner = o /\ SameCounters(p, Admit(p, r))
      /\ Admit(p, r).dispatching = p.dispatching /\ Admit(p, r).cancelled = p.cancelled
      /\ Admit(p, r).registered = p.registered /\ Admit(p, r).stopping = p.stopping
  BY <1>1 DEF QueueStates, SameCounters
<1>. QED BY <1>3, <1>4, <1>5

LEMMA SlotsMove ==
  ASSUME NEW p \in QueueStates
  PROVE  /\ ReserveSlot(p) \in QueueStates /\ SameMarks(p, ReserveSlot(p))
         /\ ReserveSlot(p).inFlight = p.inFlight + 1 /\ ReserveSlot(p).bytes = p.bytes
         /\ ReleaseSlot(p) \in QueueStates /\ SameMarks(p, ReleaseSlot(p))
         /\ ReleaseSlot(p).inFlight = (IF p.inFlight > 0 THEN p.inFlight - 1 ELSE 0)
         /\ ReleaseSlot(p).bytes = p.bytes
<1>1. /\ ReserveSlot(p) \in QueueStates /\ SameMarks(p, ReserveSlot(p))
      /\ ReserveSlot(p).inFlight = p.inFlight + 1 /\ ReserveSlot(p).bytes = p.bytes
  BY DEF ReserveSlot, QueueStates, SameMarks
<1>2. (IF p.inFlight > 0 THEN p.inFlight - 1 ELSE 0) \in Nat
  BY DEF QueueStates
<1>3. /\ ReleaseSlot(p) \in QueueStates /\ SameMarks(p, ReleaseSlot(p))
      /\ ReleaseSlot(p).inFlight = (IF p.inFlight > 0 THEN p.inFlight - 1 ELSE 0)
      /\ ReleaseSlot(p).bytes = p.bytes
  BY <1>2 DEF ReleaseSlot, QueueStates, SameMarks
<1>. QED BY <1>1, <1>3

LEMMA BytesMove ==
  ASSUME Setting, NEW p \in QueueStates, NEW r \in Reqs
  PROVE  /\ ReserveBytes(p, r) \in QueueStates /\ SameMarks(p, ReserveBytes(p, r))
         /\ ReserveBytes(p, r).bytes = p.bytes + Size[r]
         /\ ReserveBytes(p, r).inFlight = p.inFlight
         /\ ReleaseBytes(p, r) \in QueueStates /\ SameMarks(p, ReleaseBytes(p, r))
         /\ ReleaseBytes(p, r).bytes = (IF p.bytes >= Size[r] THEN p.bytes - Size[r] ELSE 0)
         /\ ReleaseBytes(p, r).inFlight = p.inFlight
<1>1. p.bytes + Size[r] \in Nat /\ (IF p.bytes >= Size[r] THEN p.bytes - Size[r] ELSE 0) \in Nat
  BY DEF QueueStates, Setting
<1>2. /\ ReserveBytes(p, r) \in QueueStates /\ SameMarks(p, ReserveBytes(p, r))
      /\ ReserveBytes(p, r).bytes = p.bytes + Size[r]
      /\ ReserveBytes(p, r).inFlight = p.inFlight
  BY <1>1 DEF ReserveBytes, QueueStates, SameMarks
<1>3. /\ ReleaseBytes(p, r) \in QueueStates /\ SameMarks(p, ReleaseBytes(p, r))
      /\ ReleaseBytes(p, r).bytes = (IF p.bytes >= Size[r] THEN p.bytes - Size[r] ELSE 0)
      /\ ReleaseBytes(p, r).inFlight = p.inFlight
  BY <1>1 DEF ReleaseBytes, QueueStates, SameMarks
<1>. QED BY <1>2, <1>3

LEMMA RegistryMoves ==
  ASSUME NEW p \in QueueStates, NEW r \in Reqs
  PROVE  /\ Register(p, r) \in QueueStates /\ SameCounters(p, Register(p, r))
         /\ Register(p, r).owner = p.owner /\ Register(p, r).dispatching = p.dispatching
         /\ Register(p, r).cancelled = p.cancelled /\ Register(p, r).stopping = p.stopping
         /\ Register(p, r).registered = (IF p.stopping THEN p.registered ELSE p.registered \cup {r})
         /\ Unregister(p, r) \in QueueStates /\ SameCounters(p, Unregister(p, r))
         /\ Unregister(p, r).owner = p.owner /\ Unregister(p, r).dispatching = p.dispatching
         /\ Unregister(p, r).cancelled = p.cancelled /\ Unregister(p, r).stopping = p.stopping
         /\ Unregister(p, r).registered = p.registered \ {r}
BY DEF Register, Unregister, QueueStates, SameCounters

LEMMA DispatchMarks ==
  ASSUME NEW p \in QueueStates, NEW r \in Reqs
  PROVE  LET d == BeginDispatch(p, r) IN
         /\ d \in QueueStates /\ SameCounters(p, d) /\ d.owner = p.owner
         /\ d.registered = p.registered /\ d.stopping = p.stopping
         /\ Correlated(r) => IdOf[r] \in d.dispatching
         /\ p.dispatching \subseteq d.dispatching /\ d.cancelled \subseteq p.cancelled
BY DEF BeginDispatch, QueueStates, SameCounters, Correlated

LEMMA StopMarks ==
  ASSUME NEW p \in QueueStates
  PROVE  /\ Stop(p) \in QueueStates /\ SameCounters(p, Stop(p)) /\ Stop(p).owner = p.owner
         /\ Stop(p).registered = p.registered /\ Stop(p).stopping = TRUE
         /\ Stop(p).dispatching = p.dispatching
         /\ \A i \in Stop(p).cancelled : i \in p.cancelled \/ p.owner[i] # NoReq
BY DEF Stop, QueueStates, SameCounters, Reserved

LEMMA CancelMarks ==
  ASSUME NEW p \in QueueStates, NEW i \in Ids
  PROVE  LET d == CancelReserved(p, i) IN
         /\ d \in QueueStates /\ SameCounters(p, d) /\ d.owner = p.owner
         /\ d.registered = p.registered /\ d.stopping = p.stopping
         /\ d.dispatching = p.dispatching
         /\ \A j \in d.cancelled : j \in p.cancelled
              \/ (j = i /\ p.owner[i] # NoReq /\ i \notin p.protected /\ i \notin p.dispatching)
BY DEF CancelReserved, QueueStates, SameCounters, Reserved

-----------------------------------------------------------------------------
(* The moves of the pump, a child and the worker. *)

KeepsEnd ==
  /\ pump'.exit = pump.exit /\ pump'.eof = pump.eof
  /\ pump'.childrenQuiesced = pump.childrenQuiesced /\ pump'.hook = pump.hook
PumpGoes(pc) ==
  /\ pump'.pc = pc /\ pump'.req = pump.req /\ pump'.reply = pump.reply
  /\ pump'.target = pump.target /\ KeepsEnd
PumpAnswers(kind) ==
  /\ pump'.pc = "reply" /\ pump'.reply = kind /\ pump'.req = pump.req
  /\ pump'.target = pump.target /\ KeepsEnd
\* The pump leaves its loop with a failure.
PumpGivesUp ==
  /\ pump'.pc = "leave" /\ pump'.exit = 1 /\ pump'.req = pump.req /\ pump'.eof = pump.eof
  /\ pump'.childrenQuiesced = pump.childrenQuiesced /\ pump'.hook = pump.hook
ChildMoves(r, pc) == child'[r] = pc /\ \A s \in Reqs : s # r => child'[s] = child[s]
WorkerMoves(pc) ==
  /\ worker'.pc = pc /\ worker'.job = worker.job /\ worker'.dropped = worker.dropped
  /\ worker'.kind = worker.kind /\ worker'.clean = worker.clean /\ worker'.sent = worker.sent
WorkerEnds(clean) ==
  worker'.pc = "end" /\ worker'.clean = clean /\ worker'.job = worker.job

LEMMA PumpMoves ==
  ASSUME pump \in PumpType
  PROVE  /\ \A pc \in PumpPcs : GoTo(pc) => pump' \in PumpType /\ PumpGoes(pc)
         /\ \A k \in Kinds : Answer(k) => pump' \in PumpType /\ PumpAnswers(k)
<1>1. ASSUME NEW pc \in PumpPcs, GoTo(pc) PROVE pump' \in PumpType /\ PumpGoes(pc)
  BY <1>1 DEF GoTo, PumpType, PumpGoes, KeepsEnd
<1>2. ASSUME NEW k \in Kinds, Answer(k) PROVE pump' \in PumpType /\ PumpAnswers(k)
  BY <1>2, Names DEF Answer, PumpType, PumpAnswers, KeepsEnd
<1>. QED BY <1>1, <1>2

LEMMA PumpQuits ==
  ASSUME pump \in PumpType, pump' = [pump EXCEPT !.pc = "leave", !.exit = 1]
  PROVE  pump' \in PumpType /\ PumpGivesUp
BY Names DEF PumpType, PumpGivesUp

LEMMA ChildMovesOn ==
  ASSUME child \in [Reqs -> ChildPcs], NEW r \in Reqs, NEW pc \in ChildPcs, ChildGoes(r, pc)
  PROVE  child' \in [Reqs -> ChildPcs] /\ ChildMoves(r, pc)
BY DEF ChildGoes, ChildMoves

LEMMA WorkerMovesOn ==
  ASSUME worker \in WorkerType
  PROVE  /\ \A pc \in WorkerPcs : WorkerGoes(pc) => worker' \in WorkerType /\ WorkerMoves(pc)
         /\ \A c \in BOOLEAN : Leave(c) => worker' \in WorkerType /\ WorkerEnds(c)
<1>1. ASSUME NEW pc \in WorkerPcs, WorkerGoes(pc) PROVE worker' \in WorkerType /\ WorkerMoves(pc)
  BY <1>1 DEF WorkerGoes, WorkerType, WorkerMoves
<1>2. ASSUME NEW c \in BOOLEAN, Leave(c) PROVE worker' \in WorkerType /\ WorkerEnds(c)
  BY <1>2, Names DEF Leave, WorkerType, WorkerEnds
<1>. QED BY <1>1, <1>2

LEMMA WordsMove ==
  ASSUME word \in [Reqs -> Words]
  PROVE  /\ \A S : /\ Cancel(word, S) \in [Reqs -> Words]
                   /\ \A r \in Reqs : Cancel(word, S)[r] =
                        IF r \in S /\ word[r] = "active" THEN "cancelled" ELSE word[r]
         /\ \A r \in Reqs : /\ BeginFinalization(word, r) \in [Reqs -> Words]
                            /\ \A s \in Reqs : BeginFinalization(word, r)[s] =
                                 IF s = r /\ word[s] = "active" THEN "finalizing" ELSE word[s]
BY DEF Cancel, BeginFinalization, Words

-----------------------------------------------------------------------------
(* What a step does to custody, given who holds what before and after it. *)

LEMMA OwnersStay ==
  ASSUME Owned, Still, q \in QueueStates, q'.owner = q.owner,
         \A s \in Reqs : HoldsId(s)' <=> HoldsId(s)
  PROVE  Owned'
BY Sentinels DEF Owned, Still, QueueStates, Correlated

LEMMA OwnerLeaves ==
  ASSUME Owned, Setting, Still, q \in QueueStates, NEW r \in Reqs, Releases(q, q', r),
         HoldsId(r), \A s \in Reqs : HoldsId(s)' <=> HoldsId(s) /\ s # r
  PROVE  Owned'
<1>1. \A s \in Reqs : HoldsId(s)' /\ Correlated(s) => q'.owner[IdOf[s]] = s
  BY DEF Owned, Releases, Correlated, Setting
<1>2. \A i \in Ids : \A s \in Reqs : q'.owner[i] = s => HoldsId(s)' /\ IdOf[s] = i
  <2>. SUFFICES ASSUME NEW i \in Ids, NEW s \in Reqs, q'.owner[i] = s
                PROVE  HoldsId(s)' /\ IdOf[s] = i
    OBVIOUS
  <2>1. i # IdOf[r] /\ q.owner[i] = s
    BY Sentinels DEF Releases, Correlated
  <2>. QED BY <2>1 DEF Owned
<1>. QED BY <1>1, <1>2 DEF Owned, Still, Correlated

LEMMA OwnerEnters ==
  ASSUME Owned, Setting, Still, q \in QueueStates, NEW r \in Reqs,
         \A s \in Reqs : HoldsId(s)' <=> HoldsId(s) \/ s = r,
         Correlated(r) => q.owner[IdOf[r]] = NoReq /\ q'.owner[IdOf[r]] = r,
         \A i \in Ids : i # IdOf[r] => q'.owner[i] = q.owner[i]
  PROVE  Owned'
<1>1. \A s \in Reqs : HoldsId(s)' /\ Correlated(s) => q'.owner[IdOf[s]] = s
  <2>. SUFFICES ASSUME NEW s \in Reqs, HoldsId(s)', Correlated(s) PROVE q'.owner[IdOf[s]] = s
    OBVIOUS
  <2>1. CASE s = r
    BY <2>1
  <2>2. CASE s # r
    <3>1. q.owner[IdOf[s]] = s /\ IdOf[s] \in Ids
      BY <2>2 DEF Owned, Correlated
    <3>2. IdOf[s] # IdOf[r]
      BY <3>1, Sentinels DEF Correlated
    <3>. QED BY <3>1, <3>2
  <2>. QED BY <2>1, <2>2
<1>2. \A i \in Ids : \A s \in Reqs : q'.owner[i] = s => HoldsId(s)' /\ IdOf[s] = i
  <2>. SUFFICES ASSUME NEW i \in Ids, NEW s \in Reqs, q'.owner[i] = s
                PROVE  HoldsId(s)' /\ IdOf[s] = i
    OBVIOUS
  <2>1. CASE i = IdOf[r]
    BY <2>1 DEF Correlated
  <2>2. CASE i # IdOf[r]
    <3>1. q.owner[i] = s
      BY <2>2
    <3>. QED BY <3>1 DEF Owned
  <2>. QED BY <2>1, <2>2
<1>. QED BY <1>1, <1>2 DEF Owned, Still, Correlated

LEMMA SlotsStay ==
  ASSUME SlotsAreCounted, Still, q'.inFlight = q.inFlight,
         \A s \in Reqs : HoldsSlot(s)' <=> HoldsSlot(s)
  PROVE  SlotsAreCounted'
<1>1. Slots' = Slots
  BY DEF Slots
<1>. QED BY <1>1 DEF SlotsAreCounted, Still

LEMMA SlotTaken ==
  ASSUME SlotsAreCounted, Setting, Still, q \in QueueStates, NEW r \in Reqs, ~HoldsSlot(r),
         q.inFlight < Depth, q'.inFlight = q.inFlight + 1,
         \A s \in Reqs : HoldsSlot(s)' <=> HoldsSlot(s) \/ s = r
  PROVE  SlotsAreCounted'
<1>1. Slots' = Slots \cup {r} /\ r \notin Slots
  BY DEF Slots
<1>2. IsFiniteSet(Slots)
  BY Sentinels, FS_Subset DEF Slots
<1>3. Cardinality(Slots') = Cardinality(Slots) + 1
  BY <1>1, <1>2, FS_AddElement
<1>. QED BY <1>3 DEF SlotsAreCounted, Still, Setting, QueueStates

LEMMA SlotReleased ==
  ASSUME SlotsAreCounted, Setting, Still, q \in QueueStates, NEW r \in Reqs, HoldsSlot(r),
         q'.inFlight = (IF q.inFlight > 0 THEN q.inFlight - 1 ELSE 0),
         \A s \in Reqs : HoldsSlot(s)' <=> HoldsSlot(s) /\ s # r
  PROVE  SlotsAreCounted'
<1>1. Slots' = Slots \ {r} /\ r \in Slots
  BY DEF Slots
<1>2. IsFiniteSet(Slots)
  BY Sentinels, FS_Subset DEF Slots
<1>3. Cardinality(Slots') = Cardinality(Slots) - 1 /\ Cardinality(Slots) > 0
      /\ Cardinality(Slots) \in Nat
  BY <1>1, <1>2, FS_RemoveElement, FS_EmptySet, FS_CardinalityType
<1>. QED BY <1>3 DEF SlotsAreCounted, Still, Setting, QueueStates

LEMMA BytesStay ==
  ASSUME BytesAreCounted, Still, q'.bytes = q.bytes,
         \A s \in Reqs : HoldsBytes(s)' <=> HoldsBytes(s)
  PROVE  BytesAreCounted'
<1>1. Bytes' = Bytes
  BY DEF Bytes
<1>2. Weight(Size, Bytes)' = Weight(Size, Bytes)
  BY <1>1 DEF Still
<1>. QED BY <1>2 DEF BytesAreCounted, Still

LEMMA BytesTaken ==
  ASSUME BytesAreCounted, Setting, Still, q \in QueueStates, NEW r \in Reqs, ~HoldsBytes(r),
         q.bytes + Size[r] <= MaxBytes, q'.bytes = q.bytes + Size[r],
         \A s \in Reqs : HoldsBytes(s)' <=> HoldsBytes(s) \/ s = r
  PROVE  BytesAreCounted'
<1>1. Bytes' = Bytes \cup {r} /\ r \notin Bytes /\ Bytes \in SUBSET Reqs
  BY DEF Bytes
<1>2. Weight(Size, Bytes \cup {r}) = Weight(Size, Bytes) + Size[r]
  BY <1>1, WeightFacts, Sentinels DEF Setting
<1>3. Weight(Size, Bytes)' = Weight(Size, Bytes \cup {r})
  BY <1>1 DEF Still
<1>. QED BY <1>2, <1>3 DEF BytesAreCounted, Still

LEMMA BytesReleased ==
  ASSUME BytesAreCounted, Setting, Still, q \in QueueStates, NEW r \in Reqs, HoldsBytes(r),
         q'.bytes = (IF q.bytes >= Size[r] THEN q.bytes - Size[r] ELSE 0),
         \A s \in Reqs : HoldsBytes(s)' <=> HoldsBytes(s) /\ s # r
  PROVE  BytesAreCounted'
<1>1. Bytes' = Bytes \ {r} /\ r \in Bytes /\ Bytes \in SUBSET Reqs
  BY DEF Bytes
<1>2. /\ Weight(Size, Bytes \ {r}) = Weight(Size, Bytes) - Size[r]
      /\ Size[r] <= Weight(Size, Bytes) /\ Weight(Size, Bytes) \in Nat /\ Size[r] \in Nat
  BY <1>1, WeightFacts, Sentinels DEF Setting
<1>3. Weight(Size, Bytes)' = Weight(Size, Bytes \ {r})
  BY <1>1 DEF Still
<1>. QED BY <1>2, <1>3 DEF BytesAreCounted, Still, Setting

-----------------------------------------------------------------------------
(* The moves of one actor, as far as custody can tell them apart. *)

\* The queue keeps its owners and its counters.
QueueStays == q'.owner = q.owner /\ SameCounters(q, q')

\* Nobody moves.
LEMMA NobodyMoves ==
  ASSUME IInv, Setting, Still, QueueStays, UNCHANGED <<active, mailbox, pump, child, worker, next>>
  PROVE  Custody'
<1>1. q \in QueueStates /\ Queued' = Queued /\ Taken' = Taken /\ Job' = Job
  BY Types DEF IInv, Queued, Taken, Still, Job
<1>2. Stages' /\ Mail' /\ Fresh' /\ Eras'
  BY <1>1 DEF IInv, Custody, Stages, Mail, Fresh, Eras, Still, Correlated
<1>3. Owned'
  <2>1. \A s \in Reqs : HoldsId(s)' <=> HoldsId(s)
    BY <1>1 DEF HoldsId
  <2>. QED BY <2>1, <1>1, OwnersStay DEF IInv, Custody, QueueStays
<1>4. SlotsAreCounted'
  <2>1. \A s \in Reqs : HoldsSlot(s)' <=> HoldsSlot(s)
    BY DEF HoldsSlot, Still
  <2>. QED BY <2>1, SlotsStay DEF IInv, Custody, QueueStays, SameCounters
<1>5. BytesAreCounted'
  <2>1. \A s \in Reqs : HoldsBytes(s)' <=> HoldsBytes(s)
    BY <1>1 DEF HoldsBytes
  <2>. QED BY <2>1, BytesStay DEF IInv, Custody, QueueStays, SameCounters
<1>6. Guarded'
  BY <1>1 DEF IInv, Custody, Guarded, QueueStays
<1>. QED BY <1>2, <1>3, <1>4, <1>5, <1>6 DEF Custody

\* A child goes on without letting go of anything.
LEMMA ChildStays ==
  ASSUME IInv, Setting, Still, NEW r \in Reqs, NEW pc, pc \in ChildIds, child[r] \in ChildIds,
         ChildMoves(r, pc), QueueStays, UNCHANGED <<mailbox, pump, worker, next>>,
         Guarded' \/ (active' = active /\ (child[r] \in Guarding => pc \in Guarding))
  PROVE  Custody'
<1>1. q \in QueueStates /\ Queued' = Queued /\ Taken' = Taken /\ Job' = Job
  BY Types DEF IInv, Queued, Taken, Still, Job
<1>2. Modern /\ r \in Taken /\ ~(pump.pc \in Hands /\ pump.req = r)
  BY DEF IInv, Custody, Eras, Fresh, ChildIds
<1>3. Stages' /\ Mail'
  BY <1>1 DEF IInv, Custody, Stages, Mail, Still, Correlated
<1>4. Eras'
  BY <1>2 DEF IInv, Custody, Eras, Still
<1>5. Fresh'
  BY <1>1, <1>2 DEF IInv, Custody, Fresh, Stages, Attending, ChildMoves
<1>6. \A s \in Reqs : /\ child'[s] \in ChildIds <=> child[s] \in ChildIds
                      /\ child'[s] \in ChildBytes <=> child[s] \in ChildBytes
                      /\ child'[s] \in ChildSlots <=> child[s] \in ChildSlots
  BY DEF ChildMoves, ChildBytes, ChildSlots
<1>7. Owned'
  <2>1. \A s \in Reqs : HoldsId(s)' <=> HoldsId(s)
    BY <1>1, <1>6 DEF HoldsId
  <2>. QED BY <2>1, <1>1, OwnersStay DEF IInv, Custody, QueueStays
<1>8. SlotsAreCounted'
  <2>1. \A s \in Reqs : HoldsSlot(s)' <=> HoldsSlot(s)
    BY <1>6 DEF HoldsSlot, Still
  <2>. QED BY <2>1, SlotsStay DEF IInv, Custody, QueueStays, SameCounters
<1>9. BytesAreCounted'
  <2>1. \A s \in Reqs : HoldsBytes(s)' <=> HoldsBytes(s)
    BY <1>1, <1>6 DEF HoldsBytes
  <2>. QED BY <2>1, BytesStay DEF IInv, Custody, QueueStays, SameCounters
<1>10. Guarded'
  <2>1. CASE Guarded'
    BY <2>1
  <2>2. CASE active' = active /\ (child[r] \in Guarding => pc \in Guarding)
    <3>1. active \in [Ids -> Reqs \cup {NoReq}]
      BY Types DEF IInv
    <3>. QED BY <2>2, <3>1, <1>1 DEF IInv, Custody, Guarded, ChildMoves, QueueStays
  <2>. QED BY <2>1, <2>2
<1>. QED BY <1>3, <1>4, <1>5, <1>7, <1>8, <1>9, <1>10 DEF Custody

\* The worker goes on with its request.
LEMMA WorkerStays ==
  ASSUME IInv, Setting, Still, worker.pc \in Busy \ {"taken"}, worker'.pc \in Busy \ {"taken"},
         worker'.job = worker.job, QueueStays, UNCHANGED <<mailbox, pump, child, next>>,
         Guarded' \/ (active' = active /\ (worker.pc \in WorkerGuarding =>
                                             worker'.pc \in WorkerGuarding))
  PROVE  Custody'
<1>1. q \in QueueStates /\ Queued' = Queued /\ Taken' = Taken /\ Job' = Job
  BY Types DEF IInv, Queued, Taken, Still, Job
<1>2. ~Modern
  BY DEF IInv, Custody, Eras, Busy
<1>3. Stages' /\ Mail' /\ Fresh'
  BY <1>1 DEF IInv, Custody, Stages, Mail, Fresh, Still, Correlated
<1>4. Eras'
  BY <1>2 DEF IInv, Custody, Eras, Still
<1>5. Owned'
  <2>1. \A s \in Reqs : HoldsId(s)' <=> HoldsId(s)
    BY <1>1 DEF HoldsId
  <2>. QED BY <2>1, <1>1, OwnersStay DEF IInv, Custody, QueueStays
<1>6. SlotsAreCounted'
  <2>1. \A s \in Reqs : HoldsSlot(s)' <=> HoldsSlot(s)
    BY DEF HoldsSlot, Still
  <2>. QED BY <2>1, SlotsStay DEF IInv, Custody, QueueStays, SameCounters
<1>7. BytesAreCounted'
  <2>1. \A s \in Reqs : HoldsBytes(s)' <=> HoldsBytes(s)
    BY <1>1 DEF HoldsBytes
  <2>. QED BY <2>1, BytesStay DEF IInv, Custody, QueueStays, SameCounters
<1>8. Guarded'
  BY <1>1 DEF IInv, Custody, Guarded, QueueStays
<1>. QED BY <1>3, <1>4, <1>5, <1>6, <1>7, <1>8 DEF Custody

\* The worker lets go of its request.
LEMMA WorkerLetsGo ==
  ASSUME IInv, Setting, Still, worker.pc \in Busy \ {"taken"}, worker.pc \notin WorkerGuarding,
         worker'.pc \notin Busy, Releases(q, q', Job), SameCounters(q, q'),
         UNCHANGED <<active, mailbox, pump, child, next>>
  PROVE  Custody'
<1>1. q \in QueueStates /\ Queued' = Queued /\ Taken' = Taken
  BY Types DEF IInv, Queued, Taken, Still
<1>2. ~Modern /\ Job \in Reqs /\ Job \notin Queued /\ child[Job] = "idle"
      /\ ~(pump.pc \in Hands /\ pump.req = Job)
  BY DEF IInv, Custody, Eras, Stages, Fresh, Busy
<1>3. Stages' /\ Mail' /\ Fresh'
  BY <1>1 DEF IInv, Custody, Stages, Mail, Fresh, Still, Correlated
<1>4. Eras'
  BY <1>2 DEF IInv, Custody, Eras, Still
<1>5. HoldsId(Job) /\ \A s \in Reqs : HoldsId(s)' <=> HoldsId(s) /\ s # Job
  BY <1>1, <1>2 DEF HoldsId, ChildIds, PumpIds, PumpBytes, Hands
<1>6. Owned'
  BY <1>1, <1>2, <1>5, OwnerLeaves DEF IInv, Custody
<1>7. SlotsAreCounted'
  <2>1. \A s \in Reqs : HoldsSlot(s)' <=> HoldsSlot(s)
    BY DEF HoldsSlot, Still
  <2>. QED BY <2>1, SlotsStay DEF IInv, Custody, SameCounters
<1>8. BytesAreCounted'
  <2>1. \A s \in Reqs : HoldsBytes(s)' <=> HoldsBytes(s)
    BY <1>1 DEF HoldsBytes, Busy
  <2>. QED BY <2>1, BytesStay DEF IInv, Custody, SameCounters
<1>9. Guarded'
  <2>1. \A i \in Ids : active[i] = NoReq
    <3>. SUFFICES ASSUME NEW i \in Ids, active[i] # NoReq PROVE FALSE
      OBVIOUS
    <3>1. active[i] \in Reqs
      BY Types DEF IInv
    <3>. QED BY <3>1, <1>2 DEF IInv, Custody, Guarded, Eras, Guarding
  <2>. QED BY <2>1 DEF Guarded
<1>. QED BY <1>3, <1>4, <1>6, <1>7, <1>8, <1>9 DEF Custody

\* The worker moves without a request.
LEMMA WorkerRests ==
  ASSUME IInv, Setting, Still, worker.pc \notin Busy, worker'.pc \notin Busy,
         Modern => worker'.pc \in {"end", "gone"} /\ (worker'.pc = "end" => worker'.clean),
         QueueStays, UNCHANGED <<active, mailbox, pump, child, next>>
  PROVE  Custody'
<1>1. q \in QueueStates /\ Queued' = Queued /\ Taken' = Taken
  BY Types DEF IInv, Queued, Taken, Still
<1>2. Stages' /\ Mail' /\ Fresh'
  BY <1>1 DEF IInv, Custody, Stages, Mail, Fresh, Still, Correlated
<1>3. Eras'
  BY DEF IInv, Custody, Eras, Still
<1>4. Owned'
  <2>1. \A s \in Reqs : HoldsId(s)' <=> HoldsId(s)
    BY <1>1 DEF HoldsId
  <2>. QED BY <2>1, <1>1, OwnersStay DEF IInv, Custody, QueueStays
<1>5. SlotsAreCounted'
  <2>1. \A s \in Reqs : HoldsSlot(s)' <=> HoldsSlot(s)
    BY DEF HoldsSlot, Still
  <2>. QED BY <2>1, SlotsStay DEF IInv, Custody, QueueStays, SameCounters
<1>6. BytesAreCounted'
  <2>1. \A s \in Reqs : HoldsBytes(s)' <=> HoldsBytes(s)
    BY <1>1 DEF HoldsBytes, Busy
  <2>. QED BY <2>1, BytesStay DEF IInv, Custody, QueueStays, SameCounters
<1>7. Guarded'
  BY DEF IInv, Custody, Guarded, QueueStays, WorkerGuarding, Busy
<1>. QED BY <1>2, <1>3, <1>4, <1>5, <1>6, <1>7 DEF Custody

\* The pump moves with nothing in hand.
LEMMA PumpRests ==
  ASSUME IInv, Setting, Still, pump.pc \notin Hands, pump'.pc \notin Hands,
         pump'.pc \in Attending => pump.pc \in Attending /\ pump'.req = pump.req,
         pump'.pc = "lookup" => pump'.target \in Ids, pump'.pc # "refused",
         QueueStays, UNCHANGED <<active, mailbox, child, worker, next>>
  PROVE  Custody'
<1>1. q \in QueueStates /\ Queued' = Queued /\ Taken' = Taken /\ Job' = Job
  BY Types DEF IInv, Queued, Taken, Still, Job
<1>2. Stages' /\ Mail' /\ Fresh'
  BY <1>1 DEF IInv, Custody, Stages, Mail, Fresh, Still, Correlated, Hands
<1>3. Eras'
  BY DEF IInv, Custody, Eras, Still, Hands
<1>4. Owned'
  <2>1. \A s \in Reqs : HoldsId(s)' <=> HoldsId(s)
    BY <1>1 DEF HoldsId, PumpIds, PumpBytes, Hands
  <2>. QED BY <2>1, <1>1, OwnersStay DEF IInv, Custody, QueueStays
<1>5. SlotsAreCounted'
  <2>1. \A s \in Reqs : HoldsSlot(s)' <=> HoldsSlot(s)
    BY DEF HoldsSlot, Still, PumpSlots, Hands
  <2>. QED BY <2>1, SlotsStay DEF IInv, Custody, QueueStays, SameCounters
<1>6. BytesAreCounted'
  <2>1. \A s \in Reqs : HoldsBytes(s)' <=> HoldsBytes(s)
    BY <1>1 DEF HoldsBytes, PumpBytes, Hands
  <2>. QED BY <2>1, BytesStay DEF IInv, Custody, QueueStays, SameCounters
<1>7. Guarded'
  BY <1>1 DEF IInv, Custody, Guarded, QueueStays
<1>. QED BY <1>2, <1>3, <1>4, <1>5, <1>6, <1>7 DEF Custody

\* The pump gives its request up before anybody else learnt of it.
LEMMA PumpLetsGo ==
  ASSUME IInv, Setting, Still, pump.pc \in PumpIds, pump'.pc \in {"reply", "recv", "leave"},
         pump'.req = pump.req, Releases(q, q', pump.req), SlotsAreCounted', BytesAreCounted',
         UNCHANGED <<active, mailbox, child, worker, next>>
  PROVE  Custody'
<1>1. q \in QueueStates /\ Queued' = Queued /\ Taken' = Taken /\ Job' = Job
  BY Types DEF IInv, Queued, Taken, Still, Job
<1>2. /\ pump.req \in Reqs /\ pump.req \in Taken /\ pump.req \notin Queued
      /\ child[pump.req] = "idle" /\ ~(worker.pc \in Busy /\ Job = pump.req)
  BY DEF IInv, Custody, Stages, Fresh, Attending, Hands, PumpIds, PumpBytes
<1>3. Stages' /\ Mail' /\ Fresh'
  BY <1>1, <1>2 DEF IInv, Custody, Stages, Mail, Fresh, Still, Correlated, Hands
<1>4. Eras'
  BY DEF IInv, Custody, Eras, Still
<1>5. HoldsId(pump.req) /\ \A s \in Reqs : HoldsId(s)' <=> HoldsId(s) /\ s # pump.req
  BY <1>1, <1>2 DEF HoldsId, ChildIds, PumpIds, PumpBytes
<1>6. Owned'
  BY <1>1, <1>2, <1>5, OwnerLeaves DEF IInv, Custody
<1>7. Guarded'
  <2>. SUFFICES ASSUME NEW i \in Ids, active[i] # NoReq
                PROVE  /\ active[i] = q'.owner[i]
                       /\ child[active[i]] \in Guarding
                          \/ (worker.pc \in WorkerGuarding /\ Job = active[i])
    BY <1>1 DEF Guarded
  <2>1. active[i] \in Reqs /\ active[i] # pump.req /\ active[i] = q.owner[i]
    BY <1>2, Types DEF IInv, Custody, Guarded, Guarding, WorkerGuarding, Busy
  <2>2. i # IdOf[pump.req]
    BY <2>1, <1>2, <1>5 DEF IInv, Custody, Owned, Correlated
  <2>. QED BY <2>1, <2>2 DEF Releases, IInv, Custody, Guarded
<1>. QED BY <1>3, <1>4, <1>6, <1>7 DEF Custody

LEMMA SnapshotIsTyped == ASSUME NEW p \in QueueStates PROVE StopSnapshot(p) \in SUBSET Reqs
BY Sentinels DEF StopSnapshot, QueueStates, Reserved

-----------------------------------------------------------------------------
(* The steps of a child. *)

LEMMA ChildAdmittedKeeps == ASSUME IInv, NEW r \in Reqs, ChildAdmitted(r) PROVE IInv'
<1>1. Setting /\ Still
  BY SettingHolds, SettingStays DEF IInv, peer, ChildAdmitted
<1>2. UNCHANGED <<q, word, active, mailbox, writer, failed, pump, outcome, worker, admission,
                  toCancel, next, cancels, replies, progress, accepted, lost>>
  BY DEF ChildAdmitted, requests, channels, children, wire, peer
<1>3. child \in [Reqs -> ChildPcs]
  BY Types DEF IInv
<1>4. /\ child' \in [Reqs -> ChildPcs]
      /\ child[r] = "waiting"
      /\ \E pc \in {"begun", "discard", "fail"} : ChildMoves(r, pc)
  BY <1>1, <1>3, Names, ChildMovesOn DEF ChildAdmitted, ChildAt
<1>5. TypeOK' /\ Reporting'
  BY <1>1, <1>2, <1>4 DEF IInv, TypeOK, Reporting, Still, ChildMoves
<1>6. Custody'
  BY <1>1, <1>2, <1>4, ChildStays DEF QueueStays, SameCounters, ChildIds, Guarding
<1>. QED BY <1>5, <1>6 DEF IInv

LEMMA ChildUnpolledKeeps == ASSUME IInv, NEW r \in Reqs, ChildUnpolled(r) PROVE IInv'
<1>1. Setting /\ Still
  BY SettingHolds, SettingStays DEF IInv, peer, ChildUnpolled
<1>2. UNCHANGED <<q, word, active, mailbox, writer, failed, pump, outcome, worker, admission,
                  toCancel, next, cancels, replies, progress, accepted>>
  BY DEF ChildUnpolled, requests, channels, children, wire, peer
<1>3. child \in [Reqs -> ChildPcs] /\ lost \subseteq Reqs
  BY Types DEF IInv
<1>4. /\ child' \in [Reqs -> ChildPcs] /\ lost' \subseteq Reqs
      /\ child[r] = "waiting"
      /\ ChildMoves(r, "discard")
  BY <1>1, <1>3, Names, ChildMovesOn DEF ChildUnpolled, ChildAt
<1>5. TypeOK' /\ Reporting'
  BY <1>1, <1>2, <1>4 DEF IInv, TypeOK, Reporting, Still, ChildMoves
<1>6. Custody'
  BY <1>1, <1>2, <1>4, ChildStays DEF QueueStays, SameCounters, ChildIds, Guarding
<1>. QED BY <1>5, <1>6 DEF IInv

LEMMA ChildGuardKeeps == ASSUME IInv, NEW r \in Reqs, ChildGuard(r) PROVE IInv'
<1>1. Setting /\ Still
  BY SettingHolds, SettingStays DEF IInv, peer, ChildGuard
<1>2. UNCHANGED <<q, word, mailbox, writer, failed, pump, outcome, worker, admission, toCancel,
                  next, cancels, replies, progress, accepted, lost>>
  BY DEF ChildGuard, requests, channels, children, wire, peer
<1>3. active \in [Ids -> Reqs \cup {NoReq}] /\ child \in [Reqs -> ChildPcs]
  BY Types DEF IInv
<1>4. /\ active' \in [Ids -> Reqs \cup {NoReq}] /\ child' \in [Reqs -> ChildPcs]
      /\ child[r] = "begun" /\ \E pc \in {"guarded", "duplicate"} : ChildMoves(r, pc)
      /\ (Correlated(r) /\ active'[IdOf[r]] = r) \/ active' = active
      /\ \A i \in Ids : i # IdOf[r] => active'[i] = active[i]
  BY <1>1, <1>3, Names, ChildMovesOn DEF ChildGuard, ChildAt, Correlated
<1>5. TypeOK' /\ Reporting'
  BY <1>1, <1>2, <1>4 DEF IInv, TypeOK, Reporting, Still, ChildMoves
<1>6. Custody'
  <2>1. Correlated(r) => q.owner[IdOf[r]] = r
    BY <1>4 DEF IInv, Custody, Owned, HoldsId, ChildIds
  <2>2. Job' = Job /\ \A s \in Reqs : child[s] \in Guarding => child'[s] \in Guarding
    BY <1>2, <1>4 DEF Job, ChildMoves, Guarding
  <2>3. child'[r] \in Guarding
    BY <1>4 DEF ChildMoves, Guarding
  <2>4. Guarded'
    <3>. SUFFICES ASSUME NEW i \in Ids, active'[i] # NoReq
                  PROVE  /\ active'[i] = q.owner[i]
                         /\ child'[active'[i]] \in Guarding
                            \/ (worker.pc \in WorkerGuarding /\ Job = active'[i])
      BY <1>2, <2>2 DEF Guarded
    <3>1. CASE active'[i] = active[i]
      BY <1>3, <2>2, <3>1 DEF IInv, Custody, Guarded
    <3>2. CASE i = IdOf[r] /\ active'[i] = r
      BY <2>1, <2>3, <3>2 DEF Correlated
    <3>. QED BY <1>4, <3>1, <3>2
  <2>. QED BY <1>1, <1>2, <1>4, <2>4, ChildStays DEF QueueStays, SameCounters, ChildIds
<1>. QED BY <1>5, <1>6 DEF IInv

LEMMA ChildStartKeeps == ASSUME IInv, NEW r \in Reqs, ChildStart(r) PROVE IInv'
<1>1. Setting /\ Still
  BY SettingHolds, SettingStays DEF IInv, peer, ChildStart
<1>2. UNCHANGED <<word, active, mailbox, writer, failed, pump, worker, admission, toCancel,
                  next, cancels, replies, progress, accepted, lost>>
  BY DEF ChildStart, requests, channels, children, wire, peer
<1>3. q \in QueueStates /\ child \in [Reqs -> ChildPcs]
      /\ outcome \in [Reqs -> {"none", "ok", "cancelled", "failed"}]
  BY Types DEF IInv
<1>4. /\ q' \in QueueStates /\ child' \in [Reqs -> ChildPcs]
      /\ outcome' \in [Reqs -> {"none", "ok", "cancelled", "failed"}]
      /\ child[r] = "guarded" /\ QueueStays
      /\ \E pc \in {"unguard", "start_cancelled", "running"} : ChildMoves(r, pc)
  <2>1. child[r] = "guarded" /\ q' = (IF q.stopping THEN q ELSE BeginDispatch(q, r))
    BY DEF ChildStart, ChildAt, BeginModernDispatch
  <2>2. q' \in QueueStates /\ QueueStays
    BY <1>3, <2>1, DispatchMarks DEF QueueStays, SameCounters
  <2>3. ModernStart(q, r) \in {"stopping", "cancelled", "ready"}
    BY DEF ModernStart
  <2>4. /\ outcome' \in [Reqs -> {"none", "ok", "cancelled", "failed"}]
        /\ \E pc \in {"unguard", "start_cancelled", "running"} : ChildGoes(r, pc)
    BY <1>3, <2>3 DEF ChildStart
  <2>. QED BY <1>3, <2>1, <2>2, <2>4, Names, ChildMovesOn
<1>5. TypeOK' /\ Reporting'
  BY <1>1, <1>2, <1>4 DEF IInv, TypeOK, Reporting, Still, ChildMoves
<1>6. Custody'
  BY <1>1, <1>2, <1>4, ChildStays DEF QueueStays, SameCounters, ChildIds, Guarding
<1>. QED BY <1>5, <1>6 DEF IInv

LEMMA ChildPlainReplyKeeps == ASSUME IInv, NEW r \in Reqs, ChildPlainReply(r) PROVE IInv'
<1>1. Setting /\ Still
  BY SettingHolds, SettingStays DEF IInv, peer, ChildPlainReply
<1>2. UNCHANGED <<q, word, active, mailbox, writer, failed, pump, worker, admission, toCancel,
                  next, cancels, progress, accepted, lost>>
  BY DEF ChildPlainReply, requests, channels, children, wire, peer
<1>3. child \in [Reqs -> ChildPcs]
      /\ outcome \in [Reqs -> {"none", "ok", "cancelled", "failed"}]
      /\ replies \in [Reqs -> Seq(Kinds)]
  BY Types DEF IInv
<1>4. /\ child' \in [Reqs -> ChildPcs]
      /\ outcome' \in [Reqs -> {"none", "ok", "cancelled", "failed"}]
      /\ replies' \in [Reqs -> Seq(Kinds)]
      /\ child[r] \in {"duplicate", "start_cancelled"}
      /\ ChildMoves(r, "unguard")
  BY <1>1, <1>3, Names, ChildMovesOn DEF ChildPlainReply, ChildAt, Setting
<1>5. TypeOK' /\ Reporting'
  BY <1>1, <1>2, <1>4 DEF IInv, TypeOK, Reporting, Still, ChildMoves
<1>6. Custody'
  BY <1>1, <1>2, <1>4, ChildStays DEF QueueStays, SameCounters, ChildIds, Guarding
<1>. QED BY <1>5, <1>6 DEF IInv

LEMMA ChildProgressKeeps == ASSUME IInv, NEW r \in Reqs, ChildProgress(r) PROVE IInv'
<1>1. Setting /\ Still
  BY SettingHolds, SettingStays DEF IInv, peer, ChildProgress
<1>2. UNCHANGED <<q, word, active, mailbox, failed, pump, outcome, worker, admission, toCancel,
                  next, cancels, replies, progress, accepted, lost>>
  BY DEF ChildProgress, requests, channels, children, wire, peer
<1>3. writer \in Actors \cup {Free} /\ child \in [Reqs -> ChildPcs]
  BY Types DEF IInv
<1>4. /\ writer' \in Actors \cup {Free} /\ child' \in [Reqs -> ChildPcs]
      /\ child[r] = "running"
      /\ progress[r] < MaxProgress
      /\ ChildMoves(r, "progress")
  BY <1>1, <1>3, Names, ChildMovesOn DEF ChildProgress, ChildAt, Actors
<1>5. TypeOK' /\ Reporting'
  BY <1>1, <1>2, <1>4 DEF IInv, TypeOK, Reporting, Still, ChildMoves
<1>6. Custody'
  BY <1>1, <1>2, <1>4, ChildStays DEF QueueStays, SameCounters, ChildIds, Guarding
<1>. QED BY <1>5, <1>6 DEF IInv

LEMMA ChildSendProgressKeeps == ASSUME IInv, NEW r \in Reqs, ChildSendProgress(r) PROVE IInv'
<1>1. Setting /\ Still
  BY SettingHolds, SettingStays DEF IInv, peer, ChildSendProgress
<1>2. UNCHANGED <<q, active, mailbox, pump, outcome, worker, admission, toCancel, next, cancels,
                  replies, accepted, lost>>
  BY DEF ChildSendProgress, requests, channels, children, wire, peer
<1>3. word \in [Reqs -> Words] /\ writer \in Actors \cup {Free} /\ failed \in BOOLEAN
      /\ child \in [Reqs -> ChildPcs] /\ progress \in [Reqs -> 0..MaxProgress]
  BY Types DEF IInv
<1>4. /\ word' \in [Reqs -> Words] /\ writer' \in Actors \cup {Free} /\ failed' \in BOOLEAN
      /\ child' \in [Reqs -> ChildPcs] /\ progress' \in [Reqs -> 0..MaxProgress]
      /\ child[r] = "progress" /\ ChildMoves(r, "running")
      /\ \A s \in Reqs : s # r => progress'[s] = progress[s]
  <2>1. child[r] = "progress" /\ progress[r] + 1 \in 0..MaxProgress
    BY <1>1, <1>3 DEF ChildSendProgress, ChildAt, IInv, Reporting, Setting
  <2>2. progress' \in [Reqs -> 0..MaxProgress] /\ \A s \in Reqs : s # r => progress'[s] = progress[s]
    BY <1>3, <2>1 DEF ChildSendProgress
  <2>3. /\ word' \in [Reqs -> Words] /\ writer' \in Actors \cup {Free} /\ failed' \in BOOLEAN
    <3>1. /\ writer' = Free
          /\ (failed' = failed /\ word' = word) \/ (failed' = TRUE /\ word' = Cancel(word, {r}))
      BY DEF ChildSendProgress
    <3>2. Cancel(word, {r}) \in [Reqs -> Words]
      BY <1>3, WordsMove
    <3>. QED BY <1>3, <3>1, <3>2
  <2>. QED BY <1>3, <2>1, <2>2, <2>3, Names, ChildMovesOn DEF ChildSendProgress
<1>5. TypeOK' /\ Reporting'
  <2>1. TypeOK'
    <3>1. /\ word' \in [Reqs -> Words] /\ writer' \in Actors \cup {Free} /\ failed' \in BOOLEAN
          /\ child' \in [Reqs -> ChildPcs] /\ progress' \in [Reqs -> 0..MaxProgress]
      BY <1>4
    <3>2. TypeOK
      BY DEF IInv
    <3>3. /\ q' \in QueueStates /\ active' \in [Ids -> Reqs \cup {NoReq}]
          /\ mailbox' \in Seq(Reqs \cup {Response}) /\ Len(mailbox') <= Depth
          /\ toCancel' \in [Actors -> SUBSET Reqs] /\ cancels' \in 0..MaxCancels
      BY <1>1, <1>2, <3>2, Types DEF Still
    <3>4. /\ scenario' \in Scenarios /\ next' \in 1..(Len(Frames') + 1)
          /\ pump' \in PumpType /\ worker' \in WorkerType
          /\ outcome' \in [Reqs -> {"none", "ok", "cancelled", "failed"}]
          /\ admission' \in [Reqs -> {"pending", "admitted", "rejected"}]
          /\ replies' \in [Reqs -> Seq(Kinds)] /\ accepted' \subseteq Reqs /\ lost' \subseteq Reqs
      BY <1>1, <1>2, <3>2, Types DEF Still, TypeOK
    <3>5. Depth' = Depth /\ MaxCancels' = MaxCancels /\ MaxProgress' = MaxProgress
      BY <1>1 DEF Still
    <3>. QED BY <3>1, <3>3, <3>4, <3>5 DEF TypeOK, PumpType, WorkerType
  <2>2. Reporting'
    BY <1>1, <1>2, <1>4 DEF IInv, Reporting, Still, ChildMoves
  <2>. QED BY <2>1, <2>2
<1>6. Custody'
  BY <1>1, <1>2, <1>4, ChildStays DEF QueueStays, SameCounters, ChildIds, Guarding
<1>. QED BY <1>5, <1>6 DEF IInv

LEMMA ChildReturnKeeps == ASSUME IInv, NEW r \in Reqs, ChildReturn(r) PROVE IInv'
<1>1. Setting /\ Still
  BY SettingHolds, SettingStays DEF IInv, peer, ChildReturn
<1>2. UNCHANGED <<q, word, active, mailbox, writer, failed, pump, worker, admission, toCancel,
                  next, cancels, replies, progress, accepted, lost>>
  BY DEF ChildReturn, requests, channels, children, wire, peer
<1>3. child \in [Reqs -> ChildPcs]
      /\ outcome \in [Reqs -> {"none", "ok", "cancelled", "failed"}]
  BY Types DEF IInv
<1>4. /\ child' \in [Reqs -> ChildPcs]
      /\ outcome' \in [Reqs -> {"none", "ok", "cancelled", "failed"}]
      /\ child[r] = "running"
      /\ \E pc \in {"respond", "unguard"} : ChildMoves(r, pc)
  BY <1>1, <1>3, Names, ChildMovesOn DEF ChildReturn, ChildAt
<1>5. TypeOK' /\ Reporting'
  BY <1>1, <1>2, <1>4 DEF IInv, TypeOK, Reporting, Still, ChildMoves
<1>6. Custody'
  BY <1>1, <1>2, <1>4, ChildStays DEF QueueStays, SameCounters, ChildIds, Guarding
<1>. QED BY <1>5, <1>6 DEF IInv

LEMMA ChildPanicKeeps == ASSUME IInv, NEW r \in Reqs, ChildPanic(r) PROVE IInv'
<1>1. Setting /\ Still
  BY SettingHolds, SettingStays DEF IInv, peer, ChildPanic
<1>2. UNCHANGED <<q, word, active, mailbox, writer, failed, pump, worker, admission, toCancel,
                  next, cancels, replies, progress, accepted, lost>>
  BY DEF ChildPanic, requests, channels, children, wire, peer
<1>3. child \in [Reqs -> ChildPcs]
      /\ outcome \in [Reqs -> {"none", "ok", "cancelled", "failed"}]
  BY Types DEF IInv
<1>4. /\ child' \in [Reqs -> ChildPcs]
      /\ outcome' \in [Reqs -> {"none", "ok", "cancelled", "failed"}]
      /\ child[r] = "running"
      /\ ChildMoves(r, "unguard")
  BY <1>1, <1>3, Names, ChildMovesOn DEF ChildPanic, ChildAt
<1>5. TypeOK' /\ Reporting'
  BY <1>1, <1>2, <1>4 DEF IInv, TypeOK, Reporting, Still, ChildMoves
<1>6. Custody'
  BY <1>1, <1>2, <1>4, ChildStays DEF QueueStays, SameCounters, ChildIds, Guarding
<1>. QED BY <1>5, <1>6 DEF IInv

LEMMA ChildFinalizeKeeps == ASSUME IInv, NEW r \in Reqs, ChildFinalize(r) PROVE IInv'
<1>1. Setting /\ Still
  BY SettingHolds, SettingStays DEF IInv, peer, ChildFinalize
<1>2. UNCHANGED <<q, active, mailbox, failed, pump, outcome, worker, admission, toCancel, next,
                  cancels, replies, progress, accepted, lost>>
  BY DEF ChildFinalize, requests, channels, children, wire, peer
<1>3. word \in [Reqs -> Words] /\ writer \in Actors \cup {Free}
      /\ child \in [Reqs -> ChildPcs]
  BY Types DEF IInv
<1>4. /\ word' \in [Reqs -> Words] /\ writer' \in Actors \cup {Free}
      /\ child' \in [Reqs -> ChildPcs]
      /\ child[r] = "respond"
      /\ ChildMoves(r, "replying")
  BY <1>1, <1>3, Names, ChildMovesOn, WordsMove DEF ChildFinalize, ChildAt, Actors
<1>5. TypeOK' /\ Reporting'
  BY <1>1, <1>2, <1>4 DEF IInv, TypeOK, Reporting, Still, ChildMoves
<1>6. Custody'
  BY <1>1, <1>2, <1>4, ChildStays DEF QueueStays, SameCounters, ChildIds, Guarding
<1>. QED BY <1>5, <1>6 DEF IInv

LEMMA ChildReplyKeeps == ASSUME IInv, NEW r \in Reqs, ChildReply(r) PROVE IInv'
<1>1. Setting /\ Still
  BY SettingHolds, SettingStays DEF IInv, peer, ChildReply
<1>2. UNCHANGED <<q, word, active, mailbox, failed, pump, worker, admission, toCancel, next,
                  cancels, progress, accepted, lost>>
  BY DEF ChildReply, requests, channels, children, wire, peer
<1>3. writer \in Actors \cup {Free} /\ child \in [Reqs -> ChildPcs]
      /\ outcome \in [Reqs -> {"none", "ok", "cancelled", "failed"}]
      /\ replies \in [Reqs -> Seq(Kinds)]
  BY Types DEF IInv
<1>4. /\ writer' \in Actors \cup {Free} /\ child' \in [Reqs -> ChildPcs]
      /\ outcome' \in [Reqs -> {"none", "ok", "cancelled", "failed"}]
      /\ replies' \in [Reqs -> Seq(Kinds)]
      /\ child[r] = "replying"
      /\ ChildMoves(r, "unguard")
  BY <1>1, <1>3, Names, ChildMovesOn DEF ChildReply, ChildAt, Actors, Setting
<1>5. TypeOK' /\ Reporting'
  BY <1>1, <1>2, <1>4 DEF IInv, TypeOK, Reporting, Still, ChildMoves
<1>6. Custody'
  BY <1>1, <1>2, <1>4, ChildStays DEF QueueStays, SameCounters, ChildIds, Guarding
<1>. QED BY <1>5, <1>6 DEF IInv

LEMMA ChildUnguardKeeps == ASSUME IInv, NEW r \in Reqs, ChildUnguard(r) PROVE IInv'
<1>1. Setting /\ Still
  BY SettingHolds, SettingStays DEF IInv, peer, ChildUnguard
<1>2. UNCHANGED <<q, word, mailbox, writer, failed, pump, outcome, worker, admission, toCancel,
                  next, cancels, replies, progress, accepted, lost>>
  BY DEF ChildUnguard, requests, channels, children, wire, peer
<1>3. active \in [Ids -> Reqs \cup {NoReq}] /\ child \in [Reqs -> ChildPcs]
  BY Types DEF IInv
<1>4. /\ active' \in [Ids -> Reqs \cup {NoReq}] /\ child' \in [Reqs -> ChildPcs]
      /\ child[r] = "unguard" /\ ChildMoves(r, "settle")
      /\ \A i \in Ids : active'[i] = (IF i = IdOf[r] /\ active[i] = r THEN NoReq ELSE active[i])
  BY <1>1, <1>3, Names, ChildMovesOn DEF ChildUnguard, ChildAt, RemoveOwn, Correlated
<1>5. TypeOK' /\ Reporting'
  BY <1>1, <1>2, <1>4 DEF IInv, TypeOK, Reporting, Still, ChildMoves
<1>6. Custody'
  <2>1. Guarded'
    <3>. SUFFICES ASSUME NEW i \in Ids, active'[i] # NoReq
                  PROVE  /\ active'[i] = q.owner[i]
                         /\ child'[active'[i]] \in Guarding
                            \/ (worker.pc \in WorkerGuarding /\ Job = active'[i])
      BY <1>2 DEF Guarded, Job
    <3>1. active'[i] = active[i] /\ active[i] \in Reqs /\ active[i] = q.owner[i]
      BY <1>3, <1>4 DEF IInv, Custody, Guarded
    <3>2. active[i] # r
      BY <1>3, <1>4, <3>1, Sentinels DEF IInv, Custody, Owned
    <3>. QED BY <1>4, <3>1, <3>2 DEF IInv, Custody, Guarded, ChildMoves
  <2>. QED BY <1>1, <1>2, <1>4, <2>1, ChildStays DEF QueueStays, SameCounters, ChildIds
<1>. QED BY <1>5, <1>6 DEF IInv

LEMMA ChildSettleKeeps == ASSUME IInv, NEW r \in Reqs, ChildSettle(r) PROVE IInv'
<1>1. Setting /\ Still
  BY SettingHolds, SettingStays DEF IInv, peer, ChildSettle
<1>2. UNCHANGED <<q, word, active, mailbox, writer, failed, pump, outcome, worker, admission,
                  toCancel, next, cancels, replies, progress, accepted, lost>>
  BY DEF ChildSettle, requests, channels, children, wire, peer
<1>3. child \in [Reqs -> ChildPcs]
  BY Types DEF IInv
<1>4. /\ child' \in [Reqs -> ChildPcs]
      /\ child[r] = "settle"
      /\ \E pc \in {"discard", "fail"} : ChildMoves(r, pc)
  BY <1>1, <1>3, Names, ChildMovesOn DEF ChildSettle, ChildAt
<1>5. TypeOK' /\ Reporting'
  BY <1>1, <1>2, <1>4 DEF IInv, TypeOK, Reporting, Still, ChildMoves
<1>6. Custody'
  BY <1>1, <1>2, <1>4, ChildStays DEF QueueStays, SameCounters, ChildIds, Guarding
<1>. QED BY <1>5, <1>6 DEF IInv

LEMMA ChildFailKeeps == ASSUME IInv, NEW r \in Reqs, ChildFail(r) PROVE IInv'
<1>1. Setting /\ Still
  BY SettingHolds, SettingStays DEF IInv, peer, ChildFail
<1>2. UNCHANGED <<q, word, active, mailbox, writer, pump, outcome, worker, admission, toCancel,
                  next, cancels, replies, progress, accepted, lost>>
  BY DEF ChildFail, requests, channels, children, wire, peer
<1>3. failed \in BOOLEAN /\ child \in [Reqs -> ChildPcs]
  BY Types DEF IInv
<1>4. /\ failed' \in BOOLEAN /\ child' \in [Reqs -> ChildPcs]
      /\ child[r] = "fail"
      /\ ChildMoves(r, "stop")
  BY <1>1, <1>3, Names, ChildMovesOn DEF ChildFail, ChildAt
<1>5. TypeOK' /\ Reporting'
  BY <1>1, <1>2, <1>4 DEF IInv, TypeOK, Reporting, Still, ChildMoves
<1>6. Custody'
  BY <1>1, <1>2, <1>4, ChildStays DEF QueueStays, SameCounters, ChildIds, Guarding
<1>. QED BY <1>5, <1>6 DEF IInv

LEMMA ChildStopKeeps == ASSUME IInv, NEW r \in Reqs, ChildStop(r) PROVE IInv'
<1>1. Setting /\ Still
  BY SettingHolds, SettingStays DEF IInv, peer, ChildStop
<1>2. UNCHANGED <<word, active, mailbox, writer, failed, pump, outcome, worker, admission, next,
                  cancels, replies, progress, accepted, lost>>
  BY DEF ChildStop, requests, channels, children, wire, peer
<1>3. q \in QueueStates /\ child \in [Reqs -> ChildPcs]
      /\ toCancel \in [Actors -> SUBSET Reqs]
  BY Types DEF IInv
<1>4. /\ q' \in QueueStates /\ child' \in [Reqs -> ChildPcs]
      /\ toCancel' \in [Actors -> SUBSET Reqs]
      /\ child[r] = "stop"
      /\ QueueStays
      /\ ChildMoves(r, "discard")
  BY <1>1, <1>3, Names, ChildMovesOn, StopMarks, SnapshotIsTyped DEF ChildStop, ChildAt, StopBy,
         QueueStays, Actors
<1>5. TypeOK' /\ Reporting'
  BY <1>1, <1>2, <1>4 DEF IInv, TypeOK, Reporting, Still, ChildMoves
<1>6. Custody'
  BY <1>1, <1>2, <1>4, ChildStays DEF QueueStays, SameCounters, ChildIds, Guarding
<1>. QED BY <1>5, <1>6 DEF IInv

\* The reservation is dropped one critical section after the other: the id, the
\* registration, the bytes, the slot.
LEMMA ReleaseReservationKeeps == ASSUME IInv, NEW r \in Reqs, ReleaseReservation(r) PROVE IInv'
<1>1. Setting /\ Still
  BY SettingHolds, SettingStays DEF IInv, peer, ReleaseReservation
<1>2. UNCHANGED <<word, active, mailbox, writer, failed, pump, outcome, worker, admission,
                  toCancel, next, cancels, replies, progress, accepted, lost>>
  BY DEF ReleaseReservation, requests, channels, children, wire, peer
<1>3. q \in QueueStates /\ child \in [Reqs -> ChildPcs] /\ active \in [Ids -> Reqs \cup {NoReq}]
  BY Types DEF IInv
<1>4. /\ q' \in QueueStates /\ child' \in [Reqs -> ChildPcs]
      /\ \/ /\ child[r] = "discard" /\ ChildMoves(r, "unregister")
            /\ Releases(q, q', r) /\ SameCounters(q, q')
         \/ child[r] = "unregister" /\ ChildMoves(r, "bytes") /\ QueueStays
         \/ /\ child[r] = "bytes" /\ ChildMoves(r, "slot")
            /\ q'.owner = q.owner /\ q'.inFlight = q.inFlight
            /\ q'.bytes = (IF q.bytes >= Size[r] THEN q.bytes - Size[r] ELSE 0)
         \/ /\ child[r] = "slot" /\ ChildMoves(r, "gone")
            /\ q'.owner = q.owner /\ q'.bytes = q.bytes
            /\ q'.inFlight = (IF q.inFlight > 0 THEN q.inFlight - 1 ELSE 0)
  <2>1. CASE ChildAt(r, "discard") /\ q' = Discard(q, r) /\ ChildGoes(r, "unregister")
    BY <1>1, <1>3, <2>1, Names, ChildMovesOn, DiscardReleases DEF ChildAt, SameCounters
  <2>2. CASE ChildAt(r, "unregister") /\ q' = Unregister(q, r) /\ ChildGoes(r, "bytes")
    BY <1>1, <1>3, <2>2, Names, ChildMovesOn, RegistryMoves DEF ChildAt, QueueStays
  <2>3. CASE ChildAt(r, "bytes") /\ q' = ReleaseBytes(q, r) /\ ChildGoes(r, "slot")
    BY <1>1, <1>3, <2>3, Names, ChildMovesOn, BytesMove DEF ChildAt, SameMarks
  <2>4. CASE ChildAt(r, "slot") /\ q' = ReleaseSlot(q) /\ ChildGoes(r, "gone")
    BY <1>1, <1>3, <2>4, Names, ChildMovesOn, SlotsMove DEF ChildAt, SameMarks
  <2>. QED BY <2>1, <2>2, <2>3, <2>4 DEF ReleaseReservation
<1>5. TypeOK' /\ Reporting'
  BY <1>1, <1>2, <1>4 DEF IInv, TypeOK, Reporting, Still, ChildMoves
<1>6. Custody'
  <2>1. Queued' = Queued /\ Taken' = Taken /\ Job' = Job /\ Modern /\ r \in Taken
    BY <1>1, <1>2, <1>4 DEF IInv, Custody, Eras, Fresh, Queued, Taken, Still, Job
  <2>2. ~(pump.pc \in Hands /\ pump.req = r) /\ r \notin Queued /\ worker.pc \notin Busy
    BY <1>4, <2>1 DEF IInv, Custody, Eras, Fresh, Queued, Busy
  <2>3. ~(pump.pc \in PumpIds /\ pump.req = r)
    BY <2>2 DEF PumpIds, PumpBytes, Hands
  <2>4. Stages' /\ Mail' /\ Eras'
    BY <1>1, <1>2, <2>1 DEF IInv, Custody, Stages, Mail, Eras, Still, Correlated
  <2>5. Fresh'
    BY <1>2, <1>4, <2>1, <2>2 DEF IInv, Custody, Fresh, Stages, Attending, ChildMoves
  <2>6. CASE child[r] = "discard" /\ ChildMoves(r, "unregister") /\ Releases(q, q', r)
             /\ SameCounters(q, q')
    <3>1. HoldsId(r) /\ \A s \in Reqs : HoldsId(s)' <=> HoldsId(s) /\ s # r
      BY <1>2, <2>1, <2>2, <2>3, <2>6 DEF HoldsId, ChildMoves, ChildIds
    <3>2. Owned'
      BY <1>1, <1>3, <2>6, <3>1, OwnerLeaves DEF IInv, Custody
    <3>3. SlotsAreCounted'
      <4>1. \A s \in Reqs : HoldsSlot(s)' <=> HoldsSlot(s)
        BY <1>1, <1>2, <2>6 DEF HoldsSlot, Still, ChildMoves, ChildSlots, ChildBytes, ChildIds
      <4>. QED BY <1>1, <2>6, <4>1, SlotsStay DEF IInv, Custody, SameCounters
    <3>4. BytesAreCounted'
      <4>1. \A s \in Reqs : HoldsBytes(s)' <=> HoldsBytes(s)
        BY <1>2, <2>1, <2>6 DEF HoldsBytes, ChildMoves, ChildBytes, ChildIds
      <4>. QED BY <1>1, <2>6, <4>1, BytesStay DEF IInv, Custody, SameCounters
    <3>5. Guarded'
      <4>. SUFFICES ASSUME NEW i \in Ids, active[i] # NoReq
                    PROVE  active[i] = q'.owner[i] /\ child'[active[i]] \in Guarding
        BY <1>2 DEF Guarded
      <4>1. active[i] \in Reqs /\ active[i] = q.owner[i] /\ child[active[i]] \in Guarding
        BY <1>3, <2>2 DEF IInv, Custody, Guarded, WorkerGuarding, Busy
      <4>2. active[i] # r /\ i # IdOf[r]
        BY <2>6, <4>1, <3>1 DEF Guarding, IInv, Custody, Owned, Correlated
      <4>. QED BY <2>6, <4>1, <4>2 DEF Releases, ChildMoves
    <3>. QED BY <2>4, <2>5, <3>2, <3>3, <3>4, <3>5 DEF Custody
  <2>7. CASE ~(child[r] = "discard")
    <3>1. q'.owner = q.owner /\ child[r] \in {"unregister", "bytes", "slot"}
          /\ child'[r] \in {"bytes", "slot", "gone"}
          /\ \A s \in Reqs : s # r => child'[s] = child[s]
      BY <1>4, <2>7 DEF ChildMoves, QueueStays
    <3>2. Owned'
      <4>1. \A s \in Reqs : HoldsId(s)' <=> HoldsId(s)
        BY <1>2, <2>1, <3>1 DEF HoldsId, ChildIds
      <4>. QED BY <1>1, <1>3, <3>1, <4>1, OwnersStay DEF IInv, Custody
    <3>3. Guarded'
      BY <1>2, <1>3, <2>1, <3>1 DEF IInv, Custody, Guarded, Guarding
    <3>4. SlotsAreCounted'
      <4>1. CASE child[r] = "slot"
        <5>1. HoldsSlot(r) /\ \A s \in Reqs : HoldsSlot(s)' <=> HoldsSlot(s) /\ s # r
          BY <1>1, <1>2, <1>4, <2>3, <4>1
             DEF HoldsSlot, Still, ChildMoves, ChildSlots, ChildBytes, ChildIds, PumpSlots,
                 PumpIds, PumpBytes
        <5>. QED BY <1>1, <1>3, <1>4, <4>1, <5>1, SlotReleased DEF IInv, Custody
      <4>2. CASE child[r] # "slot"
        <5>1. \A s \in Reqs : HoldsSlot(s)' <=> HoldsSlot(s)
          BY <1>1, <1>2, <1>4, <2>7, <4>2
             DEF HoldsSlot, Still, ChildMoves, ChildSlots, ChildBytes, ChildIds
        <5>. QED BY <1>1, <1>4, <2>7, <4>2, <5>1, SlotsStay
                 DEF IInv, Custody, QueueStays, SameCounters
      <4>. QED BY <4>1, <4>2
    <3>5. BytesAreCounted'
      <4>1. CASE child[r] = "bytes"
        <5>1. HoldsBytes(r) /\ \A s \in Reqs : HoldsBytes(s)' <=> HoldsBytes(s) /\ s # r
          BY <1>2, <1>4, <2>1, <2>2, <2>3, <4>1
             DEF HoldsBytes, ChildMoves, ChildBytes, ChildIds, PumpIds, Busy
        <5>. QED BY <1>1, <1>3, <1>4, <4>1, <5>1, BytesReleased DEF IInv, Custody
      <4>2. CASE child[r] # "bytes"
        <5>1. \A s \in Reqs : HoldsBytes(s)' <=> HoldsBytes(s)
          BY <1>2, <1>4, <2>1, <2>7, <4>2 DEF HoldsBytes, ChildMoves, ChildBytes, ChildIds
        <5>. QED BY <1>1, <1>4, <2>7, <4>2, <5>1, BytesStay
                 DEF IInv, Custody, QueueStays, SameCounters
      <4>. QED BY <4>1, <4>2
    <3>. QED BY <2>4, <2>5, <3>2, <3>3, <3>4, <3>5 DEF Custody
  <2>. QED BY <1>4, <2>6, <2>7
<1>. QED BY <1>5, <1>6 DEF IInv

\* Cancelling a copied word moves nobody.
LEMMA CancelCopiedKeeps == ASSUME IInv, NEW a \in Actors, CancelCopied(a) PROVE IInv'
<1>1. Setting /\ Still
  BY SettingHolds, SettingStays DEF IInv, peer, CancelCopied
<1>2. UNCHANGED <<q, active, mailbox, writer, failed, pump, child, outcome, worker, admission,
                  next, cancels, replies, progress, accepted, lost>>
  BY DEF CancelCopied, requests, channels, children, wire, peer
<1>3. word \in [Reqs -> Words] /\ toCancel \in [Actors -> SUBSET Reqs]
  BY Types DEF IInv
<1>4. /\ word' \in [Reqs -> Words] /\ toCancel' \in [Actors -> SUBSET Reqs]
  BY <1>1, <1>3, WordsMove DEF CancelCopied
<1>5. TypeOK' /\ Reporting'
  BY <1>1, <1>2, <1>4 DEF IInv, TypeOK, Reporting, Still
<1>6. Custody'
  BY <1>1, <1>2, NobodyMoves DEF QueueStays, SameCounters, IInv
<1>. QED BY <1>5, <1>6 DEF IInv

-----------------------------------------------------------------------------
(* The steps of the worker. *)

LEMMA WorkerLeavesKeeps == ASSUME IInv, WorkerLeaves PROVE IInv'
<1>1. Setting /\ Still
  BY SettingHolds, SettingStays DEF IInv, peer, WorkerLeaves
<1>2. UNCHANGED <<q, word, active, mailbox, writer, failed, pump, child, outcome, admission,
                  toCancel, next, cancels, replies, progress, accepted, lost>>
  BY DEF WorkerLeaves, requests, channels, children, wire, peer
<1>3. worker \in WorkerType
  BY Types DEF IInv
<1>4. /\ worker' \in WorkerType
      /\ worker.pc = "idle" /\ worker'.pc = "end" /\ worker'.clean
  BY <1>1, <1>3, WorkerMovesOn DEF WorkerLeaves, WorkerAt, WorkerEnds
<1>5. TypeOK' /\ Reporting'
  BY <1>1, <1>2, <1>4 DEF IInv, TypeOK, Reporting, Still, WorkerType
<1>6. Custody'
  BY <1>1, <1>2, <1>4, WorkerRests DEF QueueStays, SameCounters, Busy
<1>. QED BY <1>5, <1>6 DEF IInv

LEMMA WorkerReleaseBytesKeeps == ASSUME IInv, WorkerReleaseBytes PROVE IInv'
<1>1. Setting /\ Still
  BY SettingHolds, SettingStays DEF IInv, peer, WorkerReleaseBytes
<1>2. UNCHANGED <<word, active, mailbox, writer, failed, pump, child, outcome, admission,
                  toCancel, next, cancels, replies, progress, accepted, lost>>
  BY DEF WorkerReleaseBytes, requests, channels, children, wire, peer
<1>3. q \in QueueStates /\ worker \in WorkerType
  BY Types DEF IInv
<1>4. /\ q' \in QueueStates /\ worker' \in WorkerType
      /\ worker.pc = "taken" /\ worker'.pc = "waiting" /\ worker'.job = worker.job /\ Job \in Reqs
      /\ q'.owner = q.owner /\ q'.inFlight = q.inFlight
      /\ q'.bytes = (IF q.bytes >= Size[Job] THEN q.bytes - Size[Job] ELSE 0)
  <2>1. worker.pc = "taken" /\ Job \in Reqs
    BY DEF WorkerReleaseBytes, WorkerAt, IInv, Custody, Stages, Busy
  <2>. QED BY <1>1, <1>3, <2>1, Names, WorkerMovesOn, BytesMove
           DEF WorkerReleaseBytes, WorkerMoves, SameMarks
<1>5. TypeOK' /\ Reporting'
  BY <1>1, <1>2, <1>4 DEF IInv, TypeOK, Reporting, Still, WorkerType
<1>6. Custody'
  <2>1. Queued' = Queued /\ Taken' = Taken /\ Job' = Job /\ ~Modern
    BY <1>1, <1>2, <1>4 DEF IInv, Custody, Eras, Queued, Taken, Still, Job
  <2>2. /\ child[Job] = "idle" /\ Job \notin Queued
        /\ ~(pump.pc \in PumpBytes /\ pump.req = Job)
    BY <1>4, <2>1 DEF IInv, Custody, Eras, Stages, Fresh, Busy, PumpBytes, Hands
  <2>3. Stages' /\ Mail' /\ Fresh' /\ Eras'
    BY <1>1, <1>2, <1>4, <2>1 DEF IInv, Custody, Stages, Mail, Fresh, Eras, Still, Correlated, Busy
  <2>4. Owned'
    <3>1. \A s \in Reqs : HoldsId(s)' <=> HoldsId(s)
      BY <1>2, <1>4, <2>1 DEF HoldsId, Busy
    <3>. QED BY <1>1, <1>3, <1>4, <3>1, OwnersStay DEF IInv, Custody
  <2>5. SlotsAreCounted'
    <3>1. \A s \in Reqs : HoldsSlot(s)' <=> HoldsSlot(s)
      BY <1>1, <1>2 DEF HoldsSlot, Still
    <3>. QED BY <1>1, <1>4, <3>1, SlotsStay DEF IInv, Custody
  <2>6. BytesAreCounted'
    <3>1. HoldsBytes(Job) /\ \A s \in Reqs : HoldsBytes(s)' <=> HoldsBytes(s) /\ s # Job
      BY <1>2, <1>4, <2>1, <2>2 DEF HoldsBytes, ChildBytes, ChildIds
    <3>. QED BY <1>1, <1>3, <1>4, <3>1, BytesReleased DEF IInv, Custody
  <2>7. Guarded'
    BY <1>2, <1>4, <2>1 DEF IInv, Custody, Guarded, WorkerGuarding
  <2>. QED BY <2>3, <2>4, <2>5, <2>6, <2>7 DEF Custody
<1>. QED BY <1>5, <1>6 DEF IInv

LEMMA WorkerAdmittedKeeps == ASSUME IInv, WorkerAdmitted PROVE IInv'
<1>1. Setting /\ Still
  BY SettingHolds, SettingStays DEF IInv, peer, WorkerAdmitted
<1>2. UNCHANGED <<word, active, mailbox, writer, failed, pump, child, outcome, admission,
                  toCancel, next, cancels, replies, progress, accepted, lost>>
  BY DEF WorkerAdmitted, requests, channels, children, wire, peer
<1>3. q \in QueueStates /\ worker \in WorkerType
  BY Types DEF IInv
<1>4. /\ q' \in QueueStates /\ worker' \in WorkerType /\ SameCounters(q, q')
      /\ worker.pc = "waiting" /\ worker'.job = worker.job
      /\ \/ worker'.pc = "begin" /\ QueueStays
         \/ worker'.pc \in {"idle", "end"} /\ Releases(q, q', Job)
  <2>1. worker.pc = "waiting" /\ Job \in Reqs
    BY DEF WorkerAdmitted, WorkerAt, IInv, Custody, Stages, Busy
  <2>2. CASE WorkerGoes("begin") /\ UNCHANGED q
    BY <1>3, <2>1, <2>2, Names, WorkerMovesOn DEF SameCounters, QueueStays, WorkerMoves
  <2>3. CASE WorkerGoes("idle") /\ q' = Discard(q, Job)
    BY <1>1, <1>3, <2>1, <2>3, Names, WorkerMovesOn, DiscardReleases DEF SameCounters, WorkerMoves
  <2>4. CASE Leave(FALSE) /\ q' = Discard(q, Job)
    BY <1>1, <1>3, <2>1, <2>4, WorkerMovesOn, DiscardReleases DEF SameCounters, WorkerEnds
  <2>. QED BY <2>2, <2>3, <2>4 DEF WorkerAdmitted
<1>5. TypeOK' /\ Reporting'
  BY <1>1, <1>2, <1>4 DEF IInv, TypeOK, Reporting, Still, WorkerType
<1>6. Custody'
  <2>1. CASE worker'.pc \in Busy
    BY <1>1, <1>2, <1>4, <2>1, WorkerStays DEF QueueStays, SameCounters, Busy, WorkerGuarding
  <2>2. CASE worker'.pc \notin Busy
    BY <1>1, <1>2, <1>4, <2>2, WorkerLetsGo DEF QueueStays, SameCounters, Busy, WorkerGuarding
  <2>. QED BY <2>1, <2>2
<1>. QED BY <1>5, <1>6 DEF IInv

LEMMA WorkerBeginKeeps == ASSUME IInv, WorkerBegin PROVE IInv'
<1>1. Setting /\ Still
  BY SettingHolds, SettingStays DEF IInv, peer, WorkerBegin
<1>2. UNCHANGED <<word, active, mailbox, writer, failed, pump, child, outcome, admission,
                  toCancel, next, cancels, replies, progress, accepted, lost>>
  BY DEF WorkerBegin, requests, channels, children, wire, peer
<1>3. q \in QueueStates /\ worker \in WorkerType
  BY Types DEF IInv
<1>4. /\ q' \in QueueStates /\ worker' \in WorkerType /\ QueueStays
      /\ worker.pc = "begin" /\ worker'.pc = "check" /\ worker'.job = worker.job
  <2>1. worker.pc = "begin" /\ Job \in Reqs /\ CancelledBeforeDispatch(q, Job) \in BOOLEAN
    BY DEF WorkerBegin, WorkerAt, IInv, Custody, Stages, Busy, CancelledBeforeDispatch
  <2>2. q' \in QueueStates /\ QueueStays
    BY <1>3, <2>1, DispatchMarks DEF WorkerBegin, QueueStays
  <2>3. worker' \in WorkerType /\ worker'.pc = "check" /\ worker'.job = worker.job
    BY <1>3, <2>1, Names DEF WorkerBegin, WorkerType
  <2>. QED BY <2>1, <2>2, <2>3
<1>5. TypeOK' /\ Reporting'
  BY <1>1, <1>2, <1>4 DEF IInv, TypeOK, Reporting, Still, WorkerType
<1>6. Custody'
  BY <1>1, <1>2, <1>4, WorkerStays DEF QueueStays, SameCounters, Busy, WorkerGuarding
<1>. QED BY <1>5, <1>6 DEF IInv

LEMMA WorkerCheckKeeps == ASSUME IInv, WorkerCheck PROVE IInv'
<1>1. Setting /\ Still
  BY SettingHolds, SettingStays DEF IInv, peer, WorkerCheck
<1>2. UNCHANGED <<word, active, mailbox, writer, failed, pump, child, outcome, admission,
                  toCancel, next, cancels, replies, progress, accepted, lost>>
  BY DEF WorkerCheck, requests, channels, children, wire, peer
<1>3. q \in QueueStates /\ worker \in WorkerType
  BY Types DEF IInv
<1>4. /\ q' \in QueueStates /\ worker' \in WorkerType /\ SameCounters(q, q')
      /\ worker.pc = "check" /\ worker'.job = worker.job
      /\ \/ worker'.pc = "handle" /\ QueueStays
         \/ worker'.pc \in {"idle", "end"} /\ Releases(q, q', Job)
  <2>1. worker.pc = "check" /\ Job \in Reqs
    BY DEF WorkerCheck, WorkerAt, IInv, Custody, Stages, Busy
  <2>2. CASE WorkerGoes("handle") /\ UNCHANGED q
    BY <1>3, <2>1, <2>2, Names, WorkerMovesOn DEF SameCounters, QueueStays, WorkerMoves
  <2>3. CASE WorkerGoes("idle") /\ q' = Discard(q, Job)
    BY <1>1, <1>3, <2>1, <2>3, Names, WorkerMovesOn, DiscardReleases DEF SameCounters, WorkerMoves
  <2>4. CASE Leave(TRUE) /\ q' = Discard(q, Job)
    BY <1>1, <1>3, <2>1, <2>4, WorkerMovesOn, DiscardReleases DEF SameCounters, WorkerEnds
  <2>. QED BY <2>2, <2>3, <2>4 DEF WorkerCheck
<1>5. TypeOK' /\ Reporting'
  BY <1>1, <1>2, <1>4 DEF IInv, TypeOK, Reporting, Still, WorkerType
<1>6. Custody'
  <2>1. CASE worker'.pc \in Busy
    BY <1>1, <1>2, <1>4, <2>1, WorkerStays DEF QueueStays, SameCounters, Busy, WorkerGuarding
  <2>2. CASE worker'.pc \notin Busy
    BY <1>1, <1>2, <1>4, <2>2, WorkerLetsGo DEF QueueStays, SameCounters, Busy, WorkerGuarding
  <2>. QED BY <2>1, <2>2
<1>. QED BY <1>5, <1>6 DEF IInv

LEMMA WorkerHandleKeeps == ASSUME IInv, WorkerHandle PROVE IInv'
<1>1. Setting /\ Still
  BY SettingHolds, SettingStays DEF IInv, peer, WorkerHandle
<1>2. UNCHANGED <<word, mailbox, writer, failed, pump, child, outcome, admission, toCancel,
                  next, cancels, replies, progress, accepted, lost>>
  BY DEF WorkerHandle, requests, channels, children, wire, peer
<1>3. q \in QueueStates /\ active \in [Ids -> Reqs \cup {NoReq}] /\ worker \in WorkerType
  BY Types DEF IInv
<1>4. /\ q' \in QueueStates /\ active' \in [Ids -> Reqs \cup {NoReq}] /\ worker' \in WorkerType
      /\ SameCounters(q, q') /\ worker.pc = "handle" /\ worker'.job = worker.job
      /\ \/ worker'.pc = "respond" /\ QueueStays /\ active' = active
         \/ /\ worker'.pc = "running" /\ QueueStays /\ Correlated(Job)
            /\ active' = [active EXCEPT ![IdOf[Job]] = Job]
         \/ worker'.pc \in {"idle", "end"} /\ Releases(q, q', Job) /\ active' = active
  <2>1. worker.pc = "handle" /\ Job \in Reqs
    BY DEF WorkerHandle, WorkerAt, IInv, Custody, Stages, Busy
  <2>2. CASE ~Correlated(Job) /\ WorkerGoes("idle") /\ UNCHANGED <<q, active>>
    BY <1>3, <2>1, <2>2, Names, WorkerMovesOn DEF SameCounters, Releases, WorkerMoves
  <2>3. CASE /\ worker' = [worker EXCEPT !.pc = "respond", !.kind =
                             IF Job \in Untracked THEN "ok" ELSE "duplicate"]
             /\ UNCHANGED <<q, active>>
    <3>1. worker' \in WorkerType /\ worker'.pc = "respond" /\ worker'.job = worker.job
      BY <1>3, <2>3, Names DEF WorkerType
    <3>. QED BY <1>3, <2>1, <2>3, <3>1 DEF SameCounters, QueueStays
  <2>4. CASE /\ Correlated(Job) /\ active' = [active EXCEPT ![IdOf[Job]] = Job]
             /\ WorkerGoes("running") /\ UNCHANGED q
    BY <1>3, <2>1, <2>4, Names, WorkerMovesOn DEF SameCounters, QueueStays, WorkerMoves
  <2>5. CASE q' = Discard(q, Job) /\ Leave(FALSE) /\ UNCHANGED active
    BY <1>1, <1>3, <2>1, <2>5, WorkerMovesOn, DiscardReleases DEF SameCounters, WorkerEnds
  <2>. QED BY <2>2, <2>3, <2>4, <2>5 DEF WorkerHandle
<1>5. TypeOK' /\ Reporting'
  BY <1>1, <1>2, <1>4 DEF IInv, TypeOK, Reporting, Still, WorkerType
<1>6. Custody'
  <2>1. CASE worker'.pc = "respond"
    BY <1>1, <1>2, <1>4, <2>1, WorkerStays DEF Busy, WorkerGuarding
  <2>2. CASE worker'.pc = "running"
    <3>1. Job \in Reqs /\ Correlated(Job) /\ q.owner[IdOf[Job]] = Job /\ Job' = Job
      BY <1>4, <2>2 DEF IInv, Custody, Stages, Busy, Owned, HoldsId, Job
    <3>2. Guarded'
      <4>. SUFFICES ASSUME NEW i \in Ids, active'[i] # NoReq
                    PROVE  /\ active'[i] = q'.owner[i]
                           /\ child'[active'[i]] \in Guarding \/ active'[i] = Job
        BY <2>2, <3>1 DEF Guarded, WorkerGuarding
      <4>1. CASE i = IdOf[Job]
        BY <1>3, <1>4, <2>2, <3>1, <4>1 DEF QueueStays
      <4>2. CASE i # IdOf[Job]
        BY <1>2, <1>3, <1>4, <2>2, <4>2 DEF QueueStays, IInv, Custody, Guarded
      <4>. QED BY <4>1, <4>2
    <3>. QED BY <1>1, <1>2, <1>4, <2>2, <3>2, WorkerStays DEF Busy
  <2>3. CASE worker'.pc \in {"idle", "end"}
    BY <1>1, <1>2, <1>4, <2>3, WorkerLetsGo DEF Busy, WorkerGuarding
  <2>. QED BY <1>4, <2>1, <2>2, <2>3
<1>. QED BY <1>5, <1>6 DEF IInv

LEMMA WorkerReturnKeeps == ASSUME IInv, WorkerReturn PROVE IInv'
<1>1. Setting /\ Still
  BY SettingHolds, SettingStays DEF IInv, peer, WorkerReturn
<1>2. UNCHANGED <<q, word, active, mailbox, writer, failed, pump, child, outcome, admission,
                  toCancel, next, cancels, replies, progress, accepted, lost>>
  BY DEF WorkerReturn, requests, channels, children, wire, peer
<1>3. worker \in WorkerType
  BY Types DEF IInv
<1>4. /\ worker' \in WorkerType
      /\ worker.pc = "running" /\ worker'.pc = "respond" /\ worker'.job = worker.job
  BY <1>1, <1>3, Names DEF WorkerReturn, WorkerAt, WorkerMoves, WorkerType
<1>5. TypeOK' /\ Reporting'
  BY <1>1, <1>2, <1>4 DEF IInv, TypeOK, Reporting, Still, WorkerType
<1>6. Custody'
  BY <1>1, <1>2, <1>4, WorkerStays DEF QueueStays, SameCounters, Busy, WorkerGuarding
<1>. QED BY <1>5, <1>6 DEF IInv

LEMMA WorkerResolveKeeps == ASSUME IInv, WorkerResolve PROVE IInv'
<1>1. Setting /\ Still
  BY SettingHolds, SettingStays DEF IInv, peer, WorkerResolve
<1>2. UNCHANGED <<q, active, mailbox, failed, pump, child, outcome, admission, toCancel, next,
                  cancels, replies, progress, accepted, lost>>
  BY DEF WorkerResolve, requests, channels, children, wire, peer
<1>3. word \in [Reqs -> Words] /\ writer \in Actors \cup {Free} /\ worker \in WorkerType
  BY Types DEF IInv
<1>4. /\ word' \in [Reqs -> Words] /\ writer' \in Actors \cup {Free} /\ worker' \in WorkerType
      /\ worker.pc = "respond" /\ worker'.pc \in {"unguard", "replying"} /\ worker'.job = worker.job
  <2>1. worker.pc = "respond" /\ Job \in Reqs
    BY DEF WorkerResolve, WorkerAt, IInv, Custody, Stages, Busy
  <2>2. word' \in [Reqs -> Words] /\ writer' \in Actors \cup {Free}
    BY <1>3, <2>1, WordsMove DEF WorkerResolve, Actors
  <2>3. worker' \in WorkerType /\ worker'.pc \in {"unguard", "replying"} /\ worker'.job = worker.job
    <3>1. CASE worker' = [worker EXCEPT !.pc = "unguard", !.sent = "ok"]
      BY <1>3, <3>1, Names DEF WorkerType
    <3>2. CASE WorkerGoes("replying")
      BY <1>3, <3>2, WorkerMovesOn, Names DEF WorkerMoves
    <3>. QED BY <3>1, <3>2 DEF WorkerResolve
  <2>. QED BY <2>1, <2>2, <2>3
<1>5. TypeOK' /\ Reporting'
  BY <1>1, <1>2, <1>4 DEF IInv, TypeOK, Reporting, Still, WorkerType
<1>6. Custody'
  BY <1>1, <1>2, <1>4, WorkerStays DEF QueueStays, SameCounters, Busy, WorkerGuarding
<1>. QED BY <1>5, <1>6 DEF IInv

LEMMA WorkerReplyKeeps == ASSUME IInv, WorkerReply PROVE IInv'
<1>1. Setting /\ Still
  BY SettingHolds, SettingStays DEF IInv, peer, WorkerReply
<1>2. UNCHANGED <<q, word, active, mailbox, failed, pump, child, outcome, admission, toCancel,
                  next, cancels, progress, accepted>>
  BY DEF WorkerReply, requests, channels, children, wire, peer
<1>3. writer \in Actors \cup {Free} /\ worker \in WorkerType
      /\ replies \in [Reqs -> Seq(Kinds)] /\ lost \subseteq Reqs
  BY Types DEF IInv
<1>4. /\ writer' \in Actors \cup {Free} /\ worker' \in WorkerType
      /\ replies' \in [Reqs -> Seq(Kinds)] /\ lost' \subseteq Reqs
      /\ worker.pc = "replying" /\ worker'.pc = "unguard" /\ worker'.job = worker.job
  <2>1. worker.pc = "replying" /\ Job \in Reqs /\ worker.kind \in Kinds
    BY <1>3 DEF WorkerReply, WorkerAt, IInv, Custody, Stages, Busy, WorkerType
  <2>2. PICK o \in SendOutcomes :
          /\ worker' = [worker EXCEPT !.pc = "unguard", !.sent = o]
          /\ replies' = IF o # "ok" THEN replies
                        ELSE [replies EXCEPT ![Job] = Append(@, worker.kind)]
          /\ lost' = IF o = "cancelled" THEN lost \cup {Job} ELSE lost
    BY DEF WorkerReply
  <2>3. replies' \in [Reqs -> Seq(Kinds)] /\ lost' \subseteq Reqs
    BY <1>3, <2>1, <2>2
  <2>4. worker' \in WorkerType /\ worker'.pc = "unguard" /\ worker'.job = worker.job
    BY <1>1, <1>3, <2>2, Names DEF WorkerType, Setting
  <2>. QED BY <2>1, <2>3, <2>4 DEF WorkerReply
<1>5. TypeOK' /\ Reporting'
  BY <1>1, <1>2, <1>4 DEF IInv, TypeOK, Reporting, Still, WorkerType
<1>6. Custody'
  BY <1>1, <1>2, <1>4, WorkerStays DEF QueueStays, SameCounters, Busy, WorkerGuarding
<1>. QED BY <1>5, <1>6 DEF IInv

LEMMA WorkerUnguardKeeps == ASSUME IInv, WorkerUnguard PROVE IInv'
<1>1. Setting /\ Still
  BY SettingHolds, SettingStays DEF IInv, peer, WorkerUnguard
<1>2. UNCHANGED <<q, word, mailbox, writer, failed, pump, child, outcome, admission, toCancel,
                  next, cancels, replies, progress, accepted, lost>>
  BY DEF WorkerUnguard, requests, channels, children, wire, peer
<1>3. active \in [Ids -> Reqs \cup {NoReq}] /\ worker \in WorkerType
  BY Types DEF IInv
<1>4. /\ active' \in [Ids -> Reqs \cup {NoReq}] /\ worker' \in WorkerType
      /\ worker.pc = "unguard" /\ worker'.pc = "discard" /\ worker'.job = worker.job
      /\ \A i \in Ids : active'[i] = (IF i = IdOf[Job] /\ active[i] = Job THEN NoReq ELSE active[i])
  BY <1>1, <1>3, Names, WorkerMovesOn DEF WorkerUnguard, WorkerAt, WorkerMoves, RemoveOwn, Correlated
<1>5. TypeOK' /\ Reporting'
  BY <1>1, <1>2, <1>4 DEF IInv, TypeOK, Reporting, Still, WorkerType
<1>6. Custody'
  <2>1. ~Modern /\ Job \in Reqs
    BY <1>4 DEF IInv, Custody, Eras, Stages, Busy
  <2>2. \A i \in Ids : active'[i] = NoReq
    <3>. SUFFICES ASSUME NEW i \in Ids, active[i] # NoReq PROVE i = IdOf[Job] /\ active[i] = Job
      BY <1>4
    <3>1. active[i] \in Reqs /\ active[i] = q.owner[i] /\ child[active[i]] = "idle"
      BY <1>3, <2>1 DEF IInv, Custody, Guarded, Eras
    <3>2. active[i] = Job
      BY <3>1 DEF IInv, Custody, Guarded, Guarding
    <3>. QED BY <2>1, <3>1, <3>2 DEF IInv, Custody, Owned
  <2>3. Guarded'
    BY <2>2 DEF Guarded
  <2>. QED BY <1>1, <1>2, <1>4, <2>3, WorkerStays DEF QueueStays, SameCounters, Busy
<1>. QED BY <1>5, <1>6 DEF IInv

LEMMA WorkerDiscardKeeps == ASSUME IInv, WorkerDiscard PROVE IInv'
<1>1. Setting /\ Still
  BY SettingHolds, SettingStays DEF IInv, peer, WorkerDiscard
<1>2. UNCHANGED <<word, active, mailbox, writer, failed, pump, child, outcome, admission,
                  toCancel, next, cancels, replies, progress, accepted, lost>>
  BY DEF WorkerDiscard, requests, channels, children, wire, peer
<1>3. q \in QueueStates /\ worker \in WorkerType
  BY Types DEF IInv
<1>4. /\ q' \in QueueStates /\ worker' \in WorkerType /\ SameCounters(q, q')
      /\ worker.pc = "discard" /\ worker'.job = worker.job
      /\ worker'.pc \in {"idle", "end", "stop"} /\ Releases(q, q', Job)
  <2>1. worker.pc = "discard" /\ Job \in Reqs
    BY DEF WorkerDiscard, WorkerAt, IInv, Custody, Stages, Busy
  <2>2. q' \in QueueStates /\ SameCounters(q, q') /\ Releases(q, q', Job)
    BY <1>1, <1>3, <2>1, DiscardReleases DEF WorkerDiscard, SameCounters
  <2>3. worker.sent \in {"ok", "cancelled", "failed"}
    BY <1>3 DEF WorkerType
  <2>4. \/ WorkerGoes("idle") \/ Leave(FALSE)
        \/ worker' = [worker EXCEPT !.pc = "stop", !.clean = TRUE]
    BY <2>3 DEF WorkerDiscard
  <2>5. worker' \in WorkerType /\ worker'.pc \in {"idle", "end", "stop"} /\ worker'.job = worker.job
    BY <1>3, <2>4, Names DEF WorkerGoes, Leave, WorkerType
  <2>. QED BY <2>1, <2>2, <2>5
<1>5. TypeOK' /\ Reporting'
  BY <1>1, <1>2, <1>4 DEF IInv, TypeOK, Reporting, Still, WorkerType
<1>6. Custody'
  BY <1>1, <1>2, <1>4, WorkerLetsGo DEF Busy, WorkerGuarding
<1>. QED BY <1>5, <1>6 DEF IInv

LEMMA WorkerEndKeeps == ASSUME IInv, WorkerEnd PROVE IInv'
<1>1. Setting /\ Still
  BY SettingHolds, SettingStays DEF IInv, peer, WorkerEnd
<1>2. UNCHANGED <<q, word, active, mailbox, writer, failed, pump, child, outcome, admission,
                  toCancel, next, cancels, replies, progress, accepted, lost>>
  BY DEF WorkerEnd, requests, channels, children, wire, peer
<1>3. worker \in WorkerType
  BY Types DEF IInv
<1>4. /\ worker' \in WorkerType
      /\ worker.pc = "end" /\ worker'.pc = (IF worker.clean THEN "gone" ELSE "fail")
  BY <1>1, <1>3, Names, WorkerMovesOn DEF WorkerEnd, WorkerAt, WorkerMoves
<1>5. TypeOK' /\ Reporting'
  BY <1>1, <1>2, <1>4 DEF IInv, TypeOK, Reporting, Still, WorkerType
<1>6. Custody'
  <2>1. Modern => worker.clean
    BY <1>4 DEF IInv, Custody, Eras
  <2>. QED BY <1>1, <1>2, <1>4, <2>1, WorkerRests DEF QueueStays, SameCounters, Busy
<1>. QED BY <1>5, <1>6 DEF IInv

LEMMA WorkerFailKeeps == ASSUME IInv, WorkerFail PROVE IInv'
<1>1. Setting /\ Still
  BY SettingHolds, SettingStays DEF IInv, peer, WorkerFail
<1>2. UNCHANGED <<q, word, active, mailbox, writer, pump, child, outcome, admission, toCancel,
                  next, cancels, replies, progress, accepted, lost>>
  BY DEF WorkerFail, requests, channels, children, wire, peer
<1>3. failed \in BOOLEAN /\ worker \in WorkerType
  BY Types DEF IInv
<1>4. /\ failed' \in BOOLEAN /\ worker' \in WorkerType
      /\ worker.pc = "fail" /\ worker'.pc = "stop"
  BY <1>1, <1>3, Names, WorkerMovesOn DEF WorkerFail, WorkerAt, WorkerMoves
<1>5. TypeOK' /\ Reporting'
  BY <1>1, <1>2, <1>4 DEF IInv, TypeOK, Reporting, Still, WorkerType
<1>6. Custody'
  <2>1. ~Modern
    BY <1>4 DEF IInv, Custody, Eras
  <2>. QED BY <1>1, <1>2, <1>4, <2>1, WorkerRests DEF QueueStays, SameCounters, Busy
<1>. QED BY <1>5, <1>6 DEF IInv

LEMMA WorkerStopKeeps == ASSUME IInv, WorkerStop PROVE IInv'
<1>1. Setting /\ Still
  BY SettingHolds, SettingStays DEF IInv, peer, WorkerStop
<1>2. UNCHANGED <<word, active, mailbox, writer, failed, pump, child, outcome, admission, next,
                  cancels, replies, progress, accepted, lost>>
  BY DEF WorkerStop, requests, channels, children, wire, peer
<1>3. q \in QueueStates /\ worker \in WorkerType /\ toCancel \in [Actors -> SUBSET Reqs]
  BY Types DEF IInv
<1>4. /\ q' \in QueueStates /\ worker' \in WorkerType /\ toCancel' \in [Actors -> SUBSET Reqs]
      /\ worker.pc = "stop" /\ worker'.pc = "stopped" /\ QueueStays
  BY <1>1, <1>3, Names, WorkerMovesOn, StopMarks, SnapshotIsTyped DEF WorkerStop, WorkerAt,
         WorkerMoves, StopBy, QueueStays, Actors
<1>5. TypeOK' /\ Reporting'
  BY <1>1, <1>2, <1>4 DEF IInv, TypeOK, Reporting, Still, WorkerType
<1>6. Custody'
  <2>1. ~Modern
    BY <1>4 DEF IInv, Custody, Eras
  <2>. QED BY <1>1, <1>2, <1>4, <2>1, WorkerRests DEF QueueStays, SameCounters, Busy
<1>. QED BY <1>5, <1>6 DEF IInv

LEMMA WorkerStoppedKeeps == ASSUME IInv, WorkerStopped PROVE IInv'
<1>1. Setting /\ Still
  BY SettingHolds, SettingStays DEF IInv, peer, WorkerStopped
<1>2. UNCHANGED <<q, word, active, mailbox, writer, failed, pump, child, outcome, admission,
                  toCancel, next, cancels, replies, progress, accepted, lost>>
  BY DEF WorkerStopped, requests, channels, children, wire, peer
<1>3. worker \in WorkerType
  BY Types DEF IInv
<1>4. /\ worker' \in WorkerType
      /\ worker.pc = "stopped" /\ worker'.pc = "gone"
  BY <1>1, <1>3, Names, WorkerMovesOn DEF WorkerStopped, WorkerAt, WorkerMoves
<1>5. TypeOK' /\ Reporting'
  BY <1>1, <1>2, <1>4 DEF IInv, TypeOK, Reporting, Still, WorkerType
<1>6. Custody'
  <2>1. ~Modern
    BY <1>4 DEF IInv, Custody, Eras
  <2>. QED BY <1>1, <1>2, <1>4, <2>1, WorkerRests DEF QueueStays, SameCounters, Busy
<1>. QED BY <1>5, <1>6 DEF IInv

-----------------------------------------------------------------------------
(* The channel. *)

Letters == Reqs \cup {Response}
Distinct == \A m, n \in DOMAIN mailbox : mailbox[m] = mailbox[n] => m = n \/ mailbox[m] = Response

LEMMA Posted ==
  ASSUME mailbox \in Seq(Letters), NEW x \in Letters, mailbox' = Append(mailbox, x),
         Distinct, x \notin Queued
  PROVE  /\ mailbox' \in Seq(Letters) /\ Len(mailbox') = Len(mailbox) + 1 /\ Distinct'
         /\ \A s \in Reqs : s \in Queued' <=> s \in Queued \/ s = x
         /\ Queued' \subseteq Queued \cup ({x} \ {Response})
<1>1. /\ mailbox' \in Seq(Letters) /\ Len(mailbox') = Len(mailbox) + 1
      /\ Len(mailbox) \in Nat /\ DOMAIN mailbox = 1..Len(mailbox)
      /\ DOMAIN mailbox' = 1..(Len(mailbox) + 1)
      /\ \A n \in 1..Len(mailbox) : mailbox'[n] = mailbox[n]
      /\ mailbox'[Len(mailbox) + 1] = x
  OBVIOUS
<1>2. \A n \in 1..(Len(mailbox) + 1) : n \in 1..Len(mailbox) \/ n = Len(mailbox) + 1
  BY <1>1
<1>3. \A n \in 1..Len(mailbox) : n \in 1..(Len(mailbox) + 1) /\ n # Len(mailbox) + 1
  BY <1>1
<1>4. Distinct'
  <2>. SUFFICES ASSUME NEW m \in DOMAIN mailbox', NEW n \in DOMAIN mailbox',
                       mailbox'[m] = mailbox'[n], mailbox'[m] # Response
                PROVE  m = n
    BY DEF Distinct
  <2>1. \A k \in 1..Len(mailbox) : mailbox[k] = x => x = Response
    BY <1>1 DEF Queued
  <2>. QED BY <1>1, <1>2, <2>1 DEF Distinct
<1>5. Len(mailbox) + 1 \in DOMAIN mailbox'
  BY <1>1
<1>6. \A s \in Reqs : s \in Queued' <=> s \in Queued \/ s = x
  BY <1>1, <1>2, <1>3, <1>5, Sentinels DEF Queued
<1>7. Queued' \subseteq Queued \cup ({x} \ {Response})
  BY <1>1, <1>2 DEF Queued
<1>. QED BY <1>1, <1>4, <1>6, <1>7

LEMMA Fetched ==
  ASSUME mailbox \in Seq(Letters), mailbox # <<>>, mailbox' = Tail(mailbox), Distinct
  PROVE  /\ mailbox' \in Seq(Letters) /\ Len(mailbox') = Len(mailbox) - 1
         /\ Head(mailbox) \in Letters /\ Distinct'
         /\ Head(mailbox) # Response => Head(mailbox) \in Queued
         /\ \A s \in Reqs : s \in Queued' <=> s \in Queued /\ s # Head(mailbox)
         /\ Queued' \subseteq Queued
<1>1. /\ mailbox' \in Seq(Letters) /\ Len(mailbox') = Len(mailbox) - 1
      /\ Len(mailbox) \in Nat \ {0} /\ DOMAIN mailbox = 1..Len(mailbox)
      /\ DOMAIN mailbox' = 1..(Len(mailbox) - 1)
      /\ \A n \in 1..(Len(mailbox) - 1) : mailbox'[n] = mailbox[n + 1]
      /\ Head(mailbox) = mailbox[1] /\ Head(mailbox) \in Letters
  OBVIOUS
<1>2. \A n \in 1..(Len(mailbox) - 1) : n + 1 \in 1..Len(mailbox) /\ n + 1 # 1
  BY <1>1
<1>3. \A n \in 1..Len(mailbox) : n # 1 => n - 1 \in 1..(Len(mailbox) - 1) /\ (n - 1) + 1 = n
  BY <1>1
<1>4. 1 \in DOMAIN mailbox
  BY <1>1
<1>5. Distinct'
  <2>. SUFFICES ASSUME NEW m \in 1..(Len(mailbox) - 1), NEW n \in 1..(Len(mailbox) - 1),
                       mailbox[m + 1] = mailbox[n + 1], mailbox[m + 1] # Response
                PROVE  m = n
    BY <1>1 DEF Distinct
  <2>1. m + 1 = n + 1
    BY <1>1, <1>2 DEF Distinct
  <2>. QED BY <2>1
<1>6. Head(mailbox) # Response => Head(mailbox) \in Queued
  BY <1>1, <1>4 DEF Queued
<1>7. ASSUME NEW s \in Reqs, s \in Queued' PROVE s \in Queued /\ s # Head(mailbox)
  <2>1. PICK n \in 1..(Len(mailbox) - 1) : s = mailbox[n + 1] /\ s # Response
    BY <1>1, <1>7 DEF Queued
  <2>2. n + 1 \in DOMAIN mailbox /\ n + 1 # 1
    BY <1>1, <1>2
  <2>. QED BY <1>1, <1>4, <2>1, <2>2 DEF Queued, Distinct
<1>8. ASSUME NEW s \in Reqs, s \in Queued, s # Head(mailbox) PROVE s \in Queued'
  <2>1. PICK n \in 1..Len(mailbox) : s = mailbox[n] /\ s # Response
    BY <1>1, <1>8 DEF Queued
  <2>2. n - 1 \in DOMAIN mailbox' /\ mailbox'[n - 1] = mailbox[n]
    BY <1>1, <1>3, <1>8, <2>1
  <2>. QED BY <2>1, <2>2 DEF Queued
<1>9. Queued' \subseteq Reqs
  BY <1>1 DEF Queued, Letters
<1>. QED BY <1>1, <1>5, <1>6, <1>7, <1>8, <1>9

LEMMA WorkerTakeEffect ==
  ASSUME IInv, WorkerTake
  PROVE  /\ mailbox' \in Seq(Letters) /\ Len(mailbox') <= Depth /\ worker' \in WorkerType
         /\ ~Modern /\ worker.pc = "idle" /\ Distinct' /\ Queued' \subseteq Queued
         /\ \/ /\ \A s \in Reqs : s \in Queued' <=> s \in Queued
               /\ worker'.pc \in {"idle", "end"}
            \/ /\ worker'.pc = "taken" /\ worker'.job \in Reqs /\ worker'.job \in Queued
               /\ \A s \in Reqs : s \in Queued' <=> s \in Queued /\ s # worker'.job
         /\ UNCHANGED <<q, word, active, writer, failed, pump, child, outcome, admission, toCancel,
                        next, replies, progress, accepted, lost>>
<1>1. Setting
  BY SettingHolds DEF IInv
<1>2. UNCHANGED <<q, word, active, writer, failed, pump, child, outcome, admission, toCancel,
                  next, replies, progress, accepted, lost>>
  BY DEF WorkerTake, requests, channels, children, wire, peer
<1>3. mailbox \in Seq(Reqs \cup {Response}) /\ Len(mailbox) <= Depth /\ worker \in WorkerType
  BY Types DEF IInv
<1>4. mailbox \in Seq(Letters) /\ mailbox # <<>> /\ mailbox' = Tail(mailbox) /\ Distinct
      /\ worker.pc = "idle"
  BY <1>3 DEF WorkerTake, WorkerAt, IInv, Custody, Mail, Distinct, Letters
<1>5. /\ mailbox' \in Seq(Letters) /\ Len(mailbox') = Len(mailbox) - 1
      /\ Head(mailbox) \in Letters /\ Distinct' /\ Queued' \subseteq Queued
      /\ Head(mailbox) # Response => Head(mailbox) \in Queued
      /\ \A s \in Reqs : s \in Queued' <=> s \in Queued /\ s # Head(mailbox)
  BY <1>4, Fetched
<1>6. ~Modern /\ Len(mailbox') <= Depth
  BY <1>1, <1>3, <1>4, <1>5 DEF IInv, Custody, Eras, Setting
<1>7. CASE Head(mailbox) = Response
  <2>1. worker' \in WorkerType /\ worker'.pc \in {"idle", "end"}
    BY <1>3, <1>4, <1>7, WorkerMovesOn DEF WorkerTake, WorkerEnds
  <2>2. \A s \in Reqs : s \in Queued' <=> s \in Queued
    BY <1>5, <1>7, Sentinels
  <2>. QED BY <1>4, <1>5, <1>6, <2>1, <2>2, <1>2
<1>8. CASE Head(mailbox) # Response
  <2>1. Head(mailbox) \in Reqs
    BY <1>5, <1>8 DEF Letters
  <2>2. worker' \in WorkerType /\ worker'.pc = "taken" /\ worker'.job = Head(mailbox)
    <3>1. worker' = [worker EXCEPT !.pc = "taken", !.job = Head(mailbox)]
      BY <1>8 DEF WorkerTake
    <3>. QED BY <1>3, <2>1, <3>1, Names DEF WorkerType
  <2>3. /\ worker'.job \in Reqs /\ worker'.job \in Queued
        /\ \A s \in Reqs : s \in Queued' <=> s \in Queued /\ s # worker'.job
    BY <1>5, <1>8, <2>1, <2>2
  <2>. QED BY <1>4, <1>5, <1>6, <2>2, <2>3, <1>2
<1>. QED BY <1>2, <1>7, <1>8

LEMMA WorkerTakeKeeps == ASSUME IInv, WorkerTake PROVE IInv'
<1>1. Setting /\ Still
  BY SettingHolds, SettingStays DEF IInv, peer, WorkerTake
<1>2. UNCHANGED <<q, word, active, writer, failed, pump, child, outcome, admission, toCancel,
                  next, cancels, replies, progress, accepted, lost>>
  BY DEF WorkerTake, requests, channels, children, wire, peer
<1>3. mailbox \in Seq(Reqs \cup {Response}) /\ Len(mailbox) <= Depth /\ worker \in WorkerType
  BY Types DEF IInv
<1>4. /\ mailbox' \in Seq(Letters) /\ Len(mailbox') <= Depth /\ worker' \in WorkerType
      /\ ~Modern /\ worker.pc = "idle" /\ Distinct' /\ Queued' \subseteq Queued
      /\ \/ /\ \A s \in Reqs : s \in Queued' <=> s \in Queued
            /\ worker'.pc \in {"idle", "end"}
         \/ /\ worker'.pc = "taken" /\ worker'.job \in Reqs /\ worker'.job \in Queued
            /\ \A s \in Reqs : s \in Queued' <=> s \in Queued /\ s # worker'.job
  BY WorkerTakeEffect
<1>5. TypeOK' /\ Reporting'
  BY <1>1, <1>2, <1>4 DEF IInv, TypeOK, Reporting, Still, WorkerType, Letters
<1>6. Custody'
  <2>1. Taken' = Taken /\ Job' = worker'.job
    BY <1>1, <1>2 DEF Taken, Still, Job
  <2>2. Stages'
    BY <1>1, <1>2, <1>4, <2>1 DEF IInv, Custody, Stages, Mail, Still, Correlated, Busy
  <2>3. Mail'
    BY <1>4, <2>1 DEF IInv, Custody, Mail, Distinct
  <2>4. Eras'
    BY <1>1, <1>2, <1>4 DEF IInv, Custody, Eras, Still
  <2>5. Fresh'
    BY <1>2, <1>4, <2>1 DEF IInv, Custody, Fresh, Stages, Attending, Busy
  <2>6. Owned'
    <3>1. \A s \in Reqs : HoldsId(s)' <=> HoldsId(s)
      BY <1>2, <1>4, <2>1 DEF HoldsId, Busy
    <3>. QED BY <1>1, <1>2, <3>1, OwnersStay, Types DEF IInv, Custody
  <2>7. SlotsAreCounted'
    <3>1. \A s \in Reqs : HoldsSlot(s)' <=> HoldsSlot(s)
      BY <1>1, <1>2 DEF HoldsSlot, Still
    <3>. QED BY <1>1, <1>2, <3>1, SlotsStay DEF IInv, Custody
  <2>8. BytesAreCounted'
    <3>1. \A s \in Reqs : HoldsBytes(s)' <=> HoldsBytes(s)
      BY <1>2, <1>4, <2>1 DEF HoldsBytes
    <3>. QED BY <1>1, <1>2, <3>1, BytesStay DEF IInv, Custody
  <2>9. Guarded'
    BY <1>2, <1>4 DEF IInv, Custody, Guarded, WorkerGuarding
  <2>. QED BY <2>2, <2>3, <2>4, <2>5, <2>6, <2>7, <2>8, <2>9 DEF Custody
<1>. QED BY <1>5, <1>6 DEF IInv

-----------------------------------------------------------------------------
(* The steps of the pump with nothing in hand. *)

LEMMA RefusedDroppedKeeps == ASSUME IInv, RefusedDropped PROVE IInv'
<1>1. Setting /\ Still
  BY SettingHolds, SettingStays DEF IInv, peer, RefusedDropped
<1>2. UNCHANGED <<q, word, active, mailbox, writer, failed, child, outcome, worker, admission,
                  toCancel, next, cancels, replies, progress, accepted, lost>>
  BY DEF RefusedDropped, requests, channels, children, wire, peer
<1>3. pump \in PumpType
  BY Types DEF IInv
<1>4. /\ pump' \in PumpType
      /\ pump.pc = "refused" /\ pump'.pc \in {"reply", "recv"} /\ pump'.req = pump.req
  BY <1>1, <1>3, Names, PumpMoves DEF RefusedDropped, PumpAt, PumpGoes, PumpAnswers, Refuse
<1>5. TypeOK' /\ Reporting'
  BY <1>1, <1>2, <1>4 DEF IInv, TypeOK, Reporting, Still, PumpType
<1>6. Custody'
  BY <1>1, <1>2, <1>4, PumpRests DEF QueueStays, SameCounters, Hands, Attending
<1>. QED BY <1>5, <1>6 DEF IInv

LEMMA BindPrincipalKeeps == ASSUME IInv, BindPrincipal PROVE IInv'
<1>1. Setting /\ Still
  BY SettingHolds, SettingStays DEF IInv, peer, BindPrincipal
<1>2. UNCHANGED <<q, word, active, mailbox, writer, failed, child, outcome, worker, toCancel,
                  next, cancels, replies, progress, accepted, lost>>
  BY DEF BindPrincipal, requests, channels, children, wire, peer
<1>3. pump \in PumpType /\ admission \in [Reqs -> {"pending", "admitted", "rejected"}]
  BY Types DEF IInv
<1>4. /\ pump' \in PumpType /\ admission' \in [Reqs -> {"pending", "admitted", "rejected"}]
      /\ pump.pc = "bind" /\ pump'.pc \in {"reply", "recv"} /\ pump'.req = pump.req
  <2>1. /\ pump.pc = "bind" /\ admission' \in [Reqs -> {"pending", "admitted", "rejected"}]
    BY <1>3 DEF BindPrincipal, PumpAt
  <2>2. GoTo("recv") \/ Answer("rejected")
    BY DEF BindPrincipal
  <2>. QED BY <1>3, <2>1, <2>2, Names, PumpMoves DEF PumpGoes, PumpAnswers
<1>5. TypeOK' /\ Reporting'
  BY <1>1, <1>2, <1>4 DEF IInv, TypeOK, Reporting, Still, PumpType
<1>6. Custody'
  BY <1>1, <1>2, <1>4, PumpRests DEF QueueStays, SameCounters, Hands, Attending
<1>. QED BY <1>5, <1>6 DEF IInv

LEMMA PumpReplyKeeps == ASSUME IInv, PumpReply PROVE IInv'
<1>1. Setting /\ Still
  BY SettingHolds, SettingStays DEF IInv, peer, PumpReply
<1>2. UNCHANGED <<q, word, active, mailbox, writer, failed, child, outcome, worker, admission,
                  toCancel, next, cancels, progress, accepted, lost>>
  BY DEF PumpReply, requests, channels, children, wire, peer
<1>3. pump \in PumpType /\ replies \in [Reqs -> Seq(Kinds)]
  BY Types DEF IInv
<1>4. /\ pump' \in PumpType /\ replies' \in [Reqs -> Seq(Kinds)]
      /\ pump.pc = "reply" /\ pump'.pc \in {"recv", "leave"}
  <2>1. pump.pc = "reply" /\ pump.reply \in Kinds /\ pump.req \in Reqs
    BY <1>3 DEF PumpReply, PumpAt, PumpType, IInv, Custody, Stages, Attending
  <2>2. replies' \in [Reqs -> Seq(Kinds)]
    <3>1. Append(replies[pump.req], pump.reply) \in Seq(Kinds)
      BY <1>3, <2>1
    <3>. QED BY <1>3, <3>1 DEF PumpReply
  <2>3. GoTo("recv") \/ pump' = [pump EXCEPT !.pc = "leave", !.exit = 1]
    BY DEF PumpReply
  <2>. QED BY <1>3, <2>1, <2>2, <2>3, Names, PumpMoves, PumpQuits DEF PumpGoes, PumpGivesUp
<1>5. TypeOK' /\ Reporting'
  BY <1>1, <1>2, <1>4 DEF IInv, TypeOK, Reporting, Still, PumpType
<1>6. Custody'
  BY <1>1, <1>2, <1>4, PumpRests DEF QueueStays, SameCounters, Hands, Attending
<1>. QED BY <1>5, <1>6 DEF IInv

LEMMA ReceiveCancellationKeeps == ASSUME IInv, NEW i \in Ids, ReceiveCancellation(i) PROVE IInv'
<1>1. Setting /\ Still
  BY SettingHolds, SettingStays DEF IInv, peer, ReceiveCancellation
<1>2. UNCHANGED <<active, mailbox, failed, child, outcome, worker, admission, toCancel, next,
                  replies, progress, lost>>
  BY DEF ReceiveCancellation, requests, channels, children, wire, peer
<1>3. q \in QueueStates /\ word \in [Reqs -> Words] /\ writer \in Actors \cup {Free}
      /\ pump \in PumpType /\ cancels \in 0..MaxCancels /\ accepted \subseteq Reqs
  BY Types DEF IInv
<1>4. /\ q' \in QueueStates /\ word' \in [Reqs -> Words] /\ accepted' \subseteq Reqs
      /\ writer' \in Actors \cup {Free} /\ cancels' \in 0..MaxCancels /\ pump' \in PumpType
      /\ pump.pc = "recv" /\ QueueStays
      /\ \/ pump' = pump
         \/ pump'.pc = "lookup" /\ pump'.target = i
  <2>1. pump.pc = "recv" /\ cancels' \in 0..MaxCancels
    BY <1>1, <1>3 DEF ReceiveCancellation, PumpAt, Setting
  <2>2. q' \in QueueStates /\ QueueStays
    BY <1>3, CancelMarks DEF ReceiveCancellation, QueueStays
  <2>3. Disposition(q, word, i) = "accepted" => q.owner[i] \in Reqs
    BY <1>3 DEF Disposition, Reserved, QueueStates
  <2>4. word' \in [Reqs -> Words] /\ accepted' \subseteq Reqs
    BY <1>3, <2>3, WordsMove DEF ReceiveCancellation, CancelReservedWords
  <2>5. /\ writer' \in Actors \cup {Free} /\ pump' \in PumpType
        /\ \/ pump' = pump
           \/ pump'.pc = "lookup" /\ pump'.target = i
    BY <1>3, Names DEF ReceiveCancellation, PumpType, Actors
  <2>. QED BY <2>1, <2>2, <2>4, <2>5
<1>5. TypeOK' /\ Reporting'
  BY <1>1, <1>2, <1>4 DEF IInv, TypeOK, Reporting, Still, PumpType
<1>6. Custody'
  <2>1. CASE pump' = pump
    BY <1>1, <1>2, <1>4, <2>1, NobodyMoves
  <2>2. CASE pump'.pc = "lookup" /\ pump'.target = i
    BY <1>1, <1>2, <1>4, <2>2, PumpRests DEF Hands, Attending
  <2>. QED BY <1>4, <2>1, <2>2
<1>. QED BY <1>5, <1>6 DEF IInv

LEMMA CancelActiveRequestKeeps == ASSUME IInv, CancelActiveRequest PROVE IInv'
<1>1. Setting /\ Still
  BY SettingHolds, SettingStays DEF IInv, peer, CancelActiveRequest
<1>2. UNCHANGED <<q, active, mailbox, failed, child, outcome, worker, admission, toCancel, next,
                  cancels, replies, progress, lost>>
  BY DEF CancelActiveRequest, requests, channels, children, wire, peer
<1>3. word \in [Reqs -> Words] /\ active \in [Ids -> Reqs \cup {NoReq}]
      /\ writer \in Actors \cup {Free} /\ pump \in PumpType /\ accepted \subseteq Reqs
  BY Types DEF IInv
<1>4. /\ word' \in [Reqs -> Words] /\ accepted' \subseteq Reqs /\ writer' \in Actors \cup {Free}
      /\ pump' \in PumpType /\ pump.pc = "lookup" /\ pump'.pc = "recv"
  <2>1. pump.pc = "lookup" /\ active[pump.target] \in Reqs \cup {NoReq}
    BY <1>3 DEF CancelActiveRequest, PumpAt, IInv, Custody, Stages
  <2>2. word' \in [Reqs -> Words] /\ accepted' \subseteq Reqs
    BY <1>3, <2>1, WordsMove DEF CancelActiveRequest
  <2>3. pump' \in PumpType /\ pump'.pc = "recv"
    BY <1>3, Names DEF CancelActiveRequest, PumpType
  <2>. QED BY <1>3, <2>1, <2>2, <2>3 DEF CancelActiveRequest
<1>5. TypeOK' /\ Reporting'
  BY <1>1, <1>2, <1>4 DEF IInv, TypeOK, Reporting, Still, PumpType
<1>6. Custody'
  BY <1>1, <1>2, <1>4, PumpRests DEF QueueStays, SameCounters, Hands, Attending
<1>. QED BY <1>5, <1>6 DEF IInv

LEMMA WorkerFailureSeenKeeps == ASSUME IInv, WorkerFailureSeen PROVE IInv'
<1>1. Setting /\ Still
  BY SettingHolds, SettingStays DEF IInv, peer, WorkerFailureSeen
<1>2. UNCHANGED <<q, word, active, mailbox, writer, failed, child, outcome, worker, admission,
                  toCancel, next, cancels, replies, progress, accepted, lost>>
  BY DEF WorkerFailureSeen, requests, channels, children, wire, peer
<1>3. pump \in PumpType
  BY Types DEF IInv
<1>4. /\ pump' \in PumpType
      /\ pump.pc = "recv" /\ pump'.pc = "leave"
  BY <1>1, <1>3, Names, PumpQuits DEF WorkerFailureSeen, PumpAt, PumpGivesUp
<1>5. TypeOK' /\ Reporting'
  BY <1>1, <1>2, <1>4 DEF IInv, TypeOK, Reporting, Still, PumpType
<1>6. Custody'
  BY <1>1, <1>2, <1>4, PumpRests DEF QueueStays, SameCounters, Hands, Attending
<1>. QED BY <1>5, <1>6 DEF IInv

LEMMA EndOfInputKeeps == ASSUME IInv, EndOfInput PROVE IInv'
<1>1. Setting /\ Still
  BY SettingHolds, SettingStays DEF IInv, peer, EndOfInput
<1>2. UNCHANGED <<q, word, active, mailbox, writer, failed, child, outcome, worker, admission,
                  toCancel, next, cancels, replies, progress, accepted, lost>>
  BY DEF EndOfInput, requests, channels, children, wire, peer
<1>3. pump \in PumpType
  BY Types DEF IInv
<1>4. /\ pump' \in PumpType
      /\ pump.pc = "recv" /\ pump'.pc = "leave"
  BY <1>1, <1>3, Names DEF EndOfInput, PumpAt, PumpType
<1>5. TypeOK' /\ Reporting'
  BY <1>1, <1>2, <1>4 DEF IInv, TypeOK, Reporting, Still, PumpType
<1>6. Custody'
  BY <1>1, <1>2, <1>4, PumpRests DEF QueueStays, SameCounters, Hands, Attending
<1>. QED BY <1>5, <1>6 DEF IInv

LEMMA ReceiveStopsKeeps == ASSUME IInv, ReceiveStops PROVE IInv'
<1>1. Setting /\ Still
  BY SettingHolds, SettingStays DEF IInv, peer, ReceiveStops
<1>2. UNCHANGED <<q, word, active, mailbox, writer, failed, child, outcome, worker, admission,
                  toCancel, next, cancels, replies, progress, accepted, lost>>
  BY DEF ReceiveStops, requests, channels, children, wire, peer
<1>3. pump \in PumpType
  BY Types DEF IInv
<1>4. /\ pump' \in PumpType
      /\ pump.pc = "recv" /\ pump'.pc = "leave"
  BY <1>1, <1>3, Names DEF ReceiveStops, PumpAt, PumpType
<1>5. TypeOK' /\ Reporting'
  BY <1>1, <1>2, <1>4 DEF IInv, TypeOK, Reporting, Still, PumpType
<1>6. Custody'
  BY <1>1, <1>2, <1>4, PumpRests DEF QueueStays, SameCounters, Hands, Attending
<1>. QED BY <1>5, <1>6 DEF IInv

LEMMA CancelNotificationsKeeps == ASSUME IInv, CancelNotifications PROVE IInv'
<1>1. Setting /\ Still
  BY SettingHolds, SettingStays DEF IInv, peer, CancelNotifications
<1>2. UNCHANGED <<q, word, active, mailbox, writer, failed, child, outcome, worker, admission,
                  next, cancels, replies, progress, accepted, lost>>
  BY DEF CancelNotifications, requests, channels, children, wire, peer
<1>3. q \in QueueStates /\ pump \in PumpType /\ toCancel \in [Actors -> SUBSET Reqs]
  BY Types DEF IInv
<1>4. /\ pump' \in PumpType /\ toCancel' \in [Actors -> SUBSET Reqs]
      /\ pump.pc = "leave" /\ pump'.pc = "drain"
  BY <1>1, <1>3, Names, PumpMoves DEF CancelNotifications, PumpAt, PumpGoes, Actors,
         Uncorrelated, QueueStates
<1>5. TypeOK' /\ Reporting'
  BY <1>1, <1>2, <1>4 DEF IInv, TypeOK, Reporting, Still, PumpType
<1>6. Custody'
  BY <1>1, <1>2, <1>4, PumpRests DEF QueueStays, SameCounters, Hands, Attending
<1>. QED BY <1>5, <1>6 DEF IInv

LEMMA DrainResponsesKeeps == ASSUME IInv, DrainResponses PROVE IInv'
<1>1. Setting /\ Still
  BY SettingHolds, SettingStays DEF IInv, peer, DrainResponses
<1>2. UNCHANGED <<q, word, active, mailbox, writer, failed, child, outcome, worker, admission,
                  toCancel, next, cancels, replies, progress, accepted, lost>>
  BY DEF DrainResponses, requests, channels, children, wire, peer
<1>3. pump \in PumpType
  BY Types DEF IInv
<1>4. pump' \in PumpType /\ pump.pc = "drain" /\ pump'.pc = "stop"
  <2>1. pump.pc = "drain" /\ (GoTo("stop") \/ pump' = [pump EXCEPT !.pc = "stop", !.exit = 1])
    BY DEF DrainResponses, PumpAt
  <2>. QED BY <1>3, <2>1, Names DEF GoTo, PumpType
<1>5. TypeOK' /\ Reporting'
  BY <1>1, <1>2, <1>4 DEF IInv, TypeOK, Reporting, Still, PumpType
<1>6. Custody'
  BY <1>1, <1>2, <1>4, PumpRests DEF QueueStays, SameCounters, Hands, Attending
<1>. QED BY <1>5, <1>6 DEF IInv

LEMMA PumpStopKeeps == ASSUME IInv, PumpStop PROVE IInv'
<1>1. Setting /\ Still
  BY SettingHolds, SettingStays DEF IInv, peer, PumpStop
<1>2. UNCHANGED <<word, active, mailbox, writer, failed, child, outcome, worker, admission,
                  next, cancels, replies, progress, accepted, lost>>
  BY DEF PumpStop, requests, channels, children, wire, peer
<1>3. q \in QueueStates /\ pump \in PumpType /\ toCancel \in [Actors -> SUBSET Reqs]
  BY Types DEF IInv
<1>4. /\ q' \in QueueStates /\ pump' \in PumpType /\ toCancel' \in [Actors -> SUBSET Reqs]
      /\ pump.pc = "stop" /\ pump'.pc = "active" /\ QueueStays
  BY <1>1, <1>3, Names, PumpMoves, StopMarks, SnapshotIsTyped DEF PumpStop, PumpAt, PumpGoes,
         StopBy, QueueStays, Actors
<1>5. TypeOK' /\ Reporting'
  BY <1>1, <1>2, <1>4 DEF IInv, TypeOK, Reporting, Still, PumpType
<1>6. Custody'
  BY <1>1, <1>2, <1>4, PumpRests DEF QueueStays, SameCounters, Hands, Attending
<1>. QED BY <1>5, <1>6 DEF IInv

LEMMA CancelActiveKeeps == ASSUME IInv, CancelActive PROVE IInv'
<1>1. Setting /\ Still
  BY SettingHolds, SettingStays DEF IInv, peer, CancelActive
<1>2. UNCHANGED <<q, word, active, mailbox, writer, failed, child, outcome, worker, admission,
                  next, cancels, replies, progress, accepted, lost>>
  BY DEF CancelActive, requests, channels, children, wire, peer
<1>3. active \in [Ids -> Reqs \cup {NoReq}] /\ pump \in PumpType
      /\ toCancel \in [Actors -> SUBSET Reqs]
  BY Types DEF IInv
<1>4. /\ pump' \in PumpType /\ toCancel' \in [Actors -> SUBSET Reqs]
      /\ pump.pc = "active" /\ pump'.pc = "children"
  BY <1>1, <1>3, Names, PumpMoves DEF CancelActive, PumpAt, PumpGoes, Actors
<1>5. TypeOK' /\ Reporting'
  BY <1>1, <1>2, <1>4 DEF IInv, TypeOK, Reporting, Still, PumpType
<1>6. Custody'
  BY <1>1, <1>2, <1>4, PumpRests DEF QueueStays, SameCounters, Hands, Attending
<1>. QED BY <1>5, <1>6 DEF IInv

LEMMA AwaitChildrenKeeps == ASSUME IInv, AwaitChildren PROVE IInv'
<1>1. Setting /\ Still
  BY SettingHolds, SettingStays DEF IInv, peer, AwaitChildren
<1>2. UNCHANGED <<q, word, active, mailbox, writer, failed, child, outcome, worker, admission,
                  toCancel, next, cancels, replies, progress, accepted, lost>>
  BY DEF AwaitChildren, requests, channels, children, wire, peer
<1>3. pump \in PumpType
  BY Types DEF IInv
<1>4. /\ pump' \in PumpType
      /\ pump.pc \in {"children", "children_late"} /\ pump'.pc \in {"worker", "children_late"}
  BY <1>1, <1>3, Names DEF AwaitChildren, PumpAt, PumpType
<1>5. TypeOK' /\ Reporting'
  BY <1>1, <1>2, <1>4 DEF IInv, TypeOK, Reporting, Still, PumpType
<1>6. Custody'
  BY <1>1, <1>2, <1>4, PumpRests DEF QueueStays, SameCounters, Hands, Attending
<1>. QED BY <1>5, <1>6 DEF IInv

LEMMA AwaitWorkerKeeps == ASSUME IInv, AwaitWorker PROVE IInv'
<1>1. Setting /\ Still
  BY SettingHolds, SettingStays DEF IInv, peer, AwaitWorker
<1>2. UNCHANGED <<q, word, active, mailbox, writer, failed, child, outcome, worker, admission,
                  toCancel, next, cancels, replies, progress, accepted, lost>>
  BY DEF AwaitWorker, requests, channels, children, wire, peer
<1>3. pump \in PumpType
  BY Types DEF IInv
<1>4. pump' \in PumpType /\ pump.pc \in {"worker", "worker_late"}
      /\ pump'.pc \in {"finish", "worker_late"}
  <2>1. pump.childrenQuiesced \in BOOLEAN
    BY <1>3 DEF PumpType
  <2>2. CASE pump' = [pump EXCEPT !.pc = "finish", !.hook = pump.childrenQuiesced]
    BY <1>3, <2>1, <2>2, Names DEF AwaitWorker, PumpAt, PumpType
  <2>3. CASE pump' = [pump EXCEPT !.pc = IF Detach THEN "finish" ELSE "worker_late", !.exit = 1]
    BY <1>3, <2>3, Names DEF AwaitWorker, PumpAt, PumpType
  <2>. QED BY <2>2, <2>3 DEF AwaitWorker
<1>5. TypeOK' /\ Reporting'
  BY <1>1, <1>2, <1>4 DEF IInv, TypeOK, Reporting, Still, PumpType
<1>6. Custody'
  BY <1>1, <1>2, <1>4, PumpRests DEF QueueStays, SameCounters, Hands, Attending
<1>. QED BY <1>5, <1>6 DEF IInv

LEMMA FinishKeeps == ASSUME IInv, Finish PROVE IInv'
<1>1. Setting /\ Still
  BY SettingHolds, SettingStays DEF IInv, peer, Finish
<1>2. UNCHANGED <<q, word, active, mailbox, writer, failed, child, outcome, worker, admission,
                  toCancel, next, cancels, replies, progress, accepted, lost>>
  BY DEF Finish, requests, channels, children, wire, peer
<1>3. pump \in PumpType
  BY Types DEF IInv
<1>4. pump' \in PumpType /\ pump.pc = "finish" /\ pump'.pc = "done"
  <2>1. (IF failed THEN 1 ELSE pump.exit) \in {0, 1}
    BY <1>3 DEF PumpType
  <2>2. pump.pc = "finish"
        /\ pump' = [pump EXCEPT !.pc = "done", !.exit = IF failed THEN 1 ELSE pump.exit]
    BY DEF Finish, PumpAt
  <2>. QED BY <1>3, <2>1, <2>2, Names DEF PumpType
<1>5. TypeOK' /\ Reporting'
  BY <1>1, <1>2, <1>4 DEF IInv, TypeOK, Reporting, Still, PumpType
<1>6. Custody'
  BY <1>1, <1>2, <1>4, PumpRests DEF QueueStays, SameCounters, Hands, Attending
<1>. QED BY <1>5, <1>6 DEF IInv

-----------------------------------------------------------------------------
(* The steps of the pump with a request in hand. *)

LEMMA HandGoesOn ==
  ASSUME IInv, Setting, Still, pump.pc \in Hands, pump'.pc \in Attending, pump'.req = pump.req,
         pump'.pc \in {"check", "admit"} => Correlated(pump.req),
         Modern => pump'.pc # "enqueue",
         ~Modern => pump'.pc \notin {"slot", "register", "spawn", "refused"},
         UNCHANGED <<mailbox, child, worker, next>>
  PROVE  Stages' /\ Eras' /\ Mail' /\ Fresh'
<1>1. Queued' = Queued /\ Taken' = Taken /\ Job' = Job
  BY DEF Queued, Taken, Still, Job
<1>2. pump.req \in Reqs /\ pump.req \in Taken
  BY DEF IInv, Custody, Stages, Attending
<1>3. Stages' /\ Mail'
  BY <1>1, <1>2 DEF IInv, Custody, Stages, Mail, Still, Correlated, Attending, Hands
<1>4. Eras'
  BY DEF IInv, Custody, Eras, Still
<1>5. Fresh'
  BY <1>1, <1>2 DEF IInv, Custody, Fresh
<1>. QED BY <1>3, <1>4, <1>5

\* What the pump has in hand nobody else holds.
LEMMA HandIsFree ==
  ASSUME IInv, pump.pc \in Hands
  PROVE  /\ pump.req \in Reqs /\ pump.req \in Taken /\ pump.req \notin Queued
         /\ child[pump.req] = "idle" /\ ~(worker.pc \in Busy /\ Job = pump.req)
BY DEF IInv, Custody, Stages, Fresh, Attending

LEMMA HandWaits ==
  ASSUME IInv, Setting, Still, pump.pc \in {"check", "admit"}, pump'.pc \in {"admit", "reply"},
         pump'.req = pump.req, QueueStays, UNCHANGED <<active, mailbox, child, worker, next>>
  PROVE  Custody'
<1>1. q \in QueueStates /\ Queued' = Queued /\ Job' = Job
  BY Types DEF IInv, Queued, Job
<1>2. Correlated(pump.req)
  BY DEF IInv, Custody, Stages
<1>3. Stages' /\ Eras' /\ Mail' /\ Fresh'
  BY <1>2, HandGoesOn DEF Hands, Attending
<1>4. Owned'
  <2>1. \A s \in Reqs : HoldsId(s)' <=> HoldsId(s)
    BY <1>1 DEF HoldsId, PumpIds, PumpBytes
  <2>. QED BY <2>1, <1>1, OwnersStay DEF IInv, Custody, QueueStays
<1>5. SlotsAreCounted'
  <2>1. \A s \in Reqs : HoldsSlot(s)' <=> HoldsSlot(s)
    BY DEF HoldsSlot, Still, PumpSlots
  <2>. QED BY <2>1, SlotsStay DEF IInv, Custody, QueueStays, SameCounters
<1>6. BytesAreCounted'
  <2>1. \A s \in Reqs : HoldsBytes(s)' <=> HoldsBytes(s)
    BY <1>1 DEF HoldsBytes, PumpBytes
  <2>. QED BY <2>1, BytesStay DEF IInv, Custody, QueueStays, SameCounters
<1>7. Guarded'
  BY <1>1 DEF IInv, Custody, Guarded, QueueStays
<1>. QED BY <1>3, <1>4, <1>5, <1>6, <1>7 DEF Custody

\* The pump hands its request to a child.
LEMMA HandPasses ==
  ASSUME IInv, Setting, Still, pump.pc = "spawn", pump'.pc \in {"bind", "recv", "refused"},
         pump'.req = pump.req, NEW pc, pc \in {"waiting", "discard"}, ChildMoves(pump.req, pc),
         QueueStays, UNCHANGED <<active, mailbox, worker, next>>
  PROVE  Custody'
<1>1. q \in QueueStates /\ Queued' = Queued /\ Taken' = Taken /\ Job' = Job
  BY Types DEF IInv, Queued, Taken, Still, Job
<1>2. Modern /\ pump.req \in Reqs /\ pump.req \in Taken /\ child[pump.req] = "idle"
  BY HandIsFree DEF IInv, Custody, Eras, Hands
<1>3. Stages' /\ Mail'
  BY <1>1, <1>2 DEF IInv, Custody, Stages, Mail, Still, Correlated, Attending, Hands
<1>4. Eras'
  BY <1>2 DEF IInv, Custody, Eras, Still
<1>5. Fresh'
  BY <1>1, <1>2 DEF IInv, Custody, Fresh, ChildMoves, Hands
<1>6. Owned'
  <2>1. \A s \in Reqs : HoldsId(s)' <=> HoldsId(s)
    BY <1>1, <1>2 DEF HoldsId, PumpIds, PumpBytes, ChildMoves, ChildIds
  <2>. QED BY <2>1, <1>1, OwnersStay DEF IInv, Custody, QueueStays
<1>7. SlotsAreCounted'
  <2>1. \A s \in Reqs : HoldsSlot(s)' <=> HoldsSlot(s)
    BY <1>2 DEF HoldsSlot, Still, PumpSlots, ChildMoves, ChildSlots, ChildBytes, ChildIds
  <2>. QED BY <2>1, SlotsStay DEF IInv, Custody, QueueStays, SameCounters
<1>8. BytesAreCounted'
  <2>1. \A s \in Reqs : HoldsBytes(s)' <=> HoldsBytes(s)
    BY <1>1, <1>2 DEF HoldsBytes, PumpBytes, ChildMoves, ChildBytes, ChildIds
  <2>. QED BY <2>1, BytesStay DEF IInv, Custody, QueueStays, SameCounters
<1>9. Guarded'
  <2>1. active \in [Ids -> Reqs \cup {NoReq}]
    BY Types DEF IInv
  <2>. QED BY <2>1, <1>1, <1>2 DEF IInv, Custody, Guarded, ChildMoves, Guarding, QueueStays
<1>. QED BY <1>3, <1>4, <1>5, <1>6, <1>7, <1>8, <1>9 DEF Custody

LEMMA ReceiveRequestKeeps == ASSUME IInv, ReceiveRequest PROVE IInv'
<1>1. Setting /\ Still
  BY SettingHolds, SettingStays DEF IInv, peer, ReceiveRequest
<1>2. UNCHANGED <<q, word, active, mailbox, writer, failed, child, outcome, worker, admission,
                  toCancel, cancels, replies, progress, accepted, lost>>
  BY DEF ReceiveRequest, requests, channels, children, wire, peer
<1>3. pump \in PumpType /\ next \in 1..(Len(Frames) + 1)
  BY Types DEF IInv
<1>4. /\ pump' \in PumpType /\ next' \in 1..(Len(Frames) + 1)
      /\ pump.pc = "recv" /\ pump'.req \in Reqs /\ pump'.req \notin Taken
      /\ \A s : s \in Taken' <=> s \in Taken \/ s = pump'.req
      /\ pump'.pc = (IF Correlated(pump'.req) THEN "check" ELSE IF Modern THEN "slot" ELSE "bytes")
  <2>1. /\ pump.pc = "recv" /\ next \in 1..Len(Frames) /\ next' = next + 1
        /\ Len(Frames) \in Nat /\ DOMAIN Frames = 1..Len(Frames) /\ Frames[next] \in Reqs
    BY <1>1, <1>3 DEF ReceiveRequest, PumpAt, Setting
  <2>2. /\ pump' \in PumpType /\ pump'.req = Frames[next]
        /\ pump'.pc = (IF Correlated(Frames[next]) THEN "check"
                       ELSE IF Modern THEN "slot" ELSE "bytes")
    <3>. DEFINE p == IF Correlated(Frames[next]) THEN "check"
                     ELSE IF Modern THEN "slot" ELSE "bytes"
    <3>1. pump' = [pump EXCEPT !.req = Frames[next], !.pc = p] /\ p \in PumpPcs
      BY Names DEF ReceiveRequest
    <3>. HIDE DEF p
    <3>2. pump' \in PumpType /\ pump'.req = Frames[next] /\ pump'.pc = p
      BY <1>3, <2>1, <3>1 DEF PumpType
    <3>. QED BY <3>2 DEF p
  <2>3. Frames[next] \notin Taken
    <3>. SUFFICES ASSUME NEW n \in 1..(next - 1), Frames[n] = Frames[next] PROVE FALSE
      BY DEF Taken
    <3>1. n \in DOMAIN Frames /\ next \in DOMAIN Frames /\ n # next
      BY <2>1
    <3>. QED BY <1>1, <3>1 DEF Setting
  <2>4. \A n : n \in 1..(next' - 1) <=> n \in 1..(next - 1) \/ n = next
    BY <2>1
  <2>5. Taken' = {Frames[n] : n \in 1..(next' - 1)}
    BY <1>1 DEF Taken, Still
  <2>6. \A s : s \in Taken' <=> s \in Taken \/ s = Frames[next]
    BY <2>4, <2>5 DEF Taken
  <2>. QED BY <2>1, <2>2, <2>3, <2>6
<1>5. TypeOK' /\ Reporting'
  BY <1>1, <1>2, <1>4 DEF IInv, TypeOK, Reporting, Still, PumpType
<1>6. Custody'
  <2>1. /\ Queued' = Queued /\ Job' = Job /\ pump'.req \notin Queued /\ child[pump'.req] = "idle"
        /\ ~(worker.pc \in Busy /\ Job = pump'.req)
    BY <1>2, <1>4 DEF IInv, Custody, Stages, Mail, Fresh, Queued, Job
  <2>2. Stages' /\ Mail'
    BY <1>1, <1>2, <1>4, <2>1 DEF IInv, Custody, Stages, Mail, Still, Correlated
  <2>3. Eras'
    BY <1>1, <1>2, <1>4 DEF IInv, Custody, Eras, Still
  <2>4. Fresh'
    BY <1>2, <1>4, <2>1 DEF IInv, Custody, Fresh
  <2>5. Owned'
    <3>1. CASE Correlated(pump'.req)
      <4>1. \A s \in Reqs : HoldsId(s)' <=> HoldsId(s)
        BY <1>2, <1>4, <2>1, <3>1 DEF HoldsId, PumpIds, PumpBytes
      <4>. QED BY <1>1, <1>2, <4>1, OwnersStay, Types DEF IInv, Custody
    <3>2. CASE ~Correlated(pump'.req)
      <4>1. PICK r \in Reqs : r = pump'.req
        BY <1>4
      <4>2. \A s \in Reqs : HoldsId(s)' <=> HoldsId(s) \/ s = r
        BY <1>2, <1>4, <2>1, <3>2, <4>1 DEF HoldsId, PumpIds, PumpBytes
      <4>. QED BY <1>1, <1>2, <3>2, <4>1, <4>2, OwnerEnters, Types DEF IInv, Custody
    <3>. QED BY <3>1, <3>2
  <2>6. SlotsAreCounted'
    <3>1. \A s \in Reqs : HoldsSlot(s)' <=> HoldsSlot(s)
      BY <1>1, <1>2, <1>4 DEF HoldsSlot, Still, PumpSlots
    <3>. QED BY <1>1, <1>2, <3>1, SlotsStay DEF IInv, Custody
  <2>7. BytesAreCounted'
    <3>1. \A s \in Reqs : HoldsBytes(s)' <=> HoldsBytes(s)
      BY <1>2, <1>4, <2>1 DEF HoldsBytes, PumpBytes
    <3>. QED BY <1>1, <1>2, <3>1, BytesStay DEF IInv, Custody
  <2>8. Guarded'
    BY <1>2, <2>1 DEF IInv, Custody, Guarded
  <2>. QED BY <2>2, <2>3, <2>4, <2>5, <2>6, <2>7, <2>8 DEF Custody
<1>. QED BY <1>5, <1>6 DEF IInv

LEMMA CheckActiveKeeps == ASSUME IInv, CheckActive PROVE IInv'
<1>1. Setting /\ Still
  BY SettingHolds, SettingStays DEF IInv, peer, CheckActive
<1>2. UNCHANGED <<q, word, active, mailbox, writer, failed, child, outcome, worker, admission,
                  toCancel, next, cancels, replies, progress, accepted, lost>>
  BY DEF CheckActive, requests, channels, children, wire, peer
<1>3. pump \in PumpType
  BY Types DEF IInv
<1>4. /\ pump' \in PumpType
      /\ pump.pc = "check" /\ pump'.pc \in {"admit", "reply"} /\ pump'.req = pump.req
  BY <1>1, <1>3, Names, PumpMoves DEF CheckActive, PumpAt, PumpGoes, PumpAnswers
<1>5. TypeOK' /\ Reporting'
  BY <1>1, <1>2, <1>4 DEF IInv, TypeOK, Reporting, Still, PumpType
<1>6. Custody'
  BY <1>1, <1>2, <1>4, HandWaits DEF QueueStays, SameCounters
<1>. QED BY <1>5, <1>6 DEF IInv

LEMMA AdmitRequestKeeps == ASSUME IInv, AdmitRequest PROVE IInv'
<1>1. Setting /\ Still
  BY SettingHolds, SettingStays DEF IInv, peer, AdmitRequest
<1>2. UNCHANGED <<word, active, mailbox, writer, failed, child, outcome, worker, admission,
                  toCancel, next, cancels, replies, progress, accepted, lost>>
  BY DEF AdmitRequest, requests, channels, children, wire, peer
<1>3. q \in QueueStates /\ pump \in PumpType
  BY Types DEF IInv
<1>4. /\ q' \in QueueStates /\ pump' \in PumpType /\ pump.pc = "admit" /\ pump'.req = pump.req
      /\ \/ /\ pump'.pc = (IF Modern THEN "slot" ELSE "bytes") /\ SameCounters(q, q')
            /\ q.owner[IdOf[pump.req]] = NoReq /\ q'.owner[IdOf[pump.req]] = pump.req
            /\ \A i \in Ids : i # IdOf[pump.req] => q'.owner[i] = q.owner[i]
         \/ pump'.pc = "reply" /\ QueueStays
  <2>1. pump.pc = "admit" /\ pump.req \in Reqs /\ IdOf[pump.req] \in Ids
    BY DEF AdmitRequest, PumpAt, IInv, Custody, Stages, Attending, Hands, Correlated
  <2>2. CASE /\ CanAdmit(q, pump.req) /\ q' = Admit(q, pump.req)
             /\ GoTo(IF Modern THEN "slot" ELSE "bytes")
    <3>1. q' \in QueueStates /\ SameCounters(q, q') /\ q'.owner[IdOf[pump.req]] = pump.req
          /\ \A i \in Ids : i # IdOf[pump.req] => q'.owner[i] = q.owner[i]
      BY <1>3, <2>1, <2>2, AdmitOwns
    <3>2. pump' \in PumpType /\ PumpGoes(IF Modern THEN "slot" ELSE "bytes")
      BY <1>3, <2>2, Names, PumpMoves
    <3>. QED BY <2>1, <2>2, <3>1, <3>2 DEF CanAdmit, PumpGoes
  <2>3. CASE Answer("duplicate") /\ UNCHANGED q
    BY <1>3, <2>1, <2>3, Names, PumpMoves DEF PumpAnswers, QueueStays, SameCounters
  <2>. QED BY <2>2, <2>3 DEF AdmitRequest
<1>5. TypeOK' /\ Reporting'
  BY <1>1, <1>2, <1>4 DEF IInv, TypeOK, Reporting, Still, PumpType
<1>6. Custody'
  <2>1. CASE pump'.pc = "reply"
    BY <1>1, <1>2, <1>4, <2>1, HandWaits
  <2>2. CASE pump'.pc # "reply"
    <3>1. Queued' = Queued /\ Job' = Job /\ pump.req \in Reqs
      BY <1>2, <1>4, HandIsFree DEF Queued, Job, Hands
    <3>2. Stages' /\ Eras' /\ Mail' /\ Fresh'
      BY <1>1, <1>2, <1>4, <2>2, HandGoesOn DEF Hands, Attending
    <3>3. Owned'
      <4>1. \A s \in Reqs : HoldsId(s)' <=> HoldsId(s) \/ s = pump.req
        BY <1>2, <1>4, <2>2, <3>1 DEF HoldsId, PumpIds, PumpBytes
      <4>. QED BY <1>1, <1>3, <1>4, <2>2, <3>1, <4>1, OwnerEnters DEF IInv, Custody
    <3>4. SlotsAreCounted'
      <4>1. \A s \in Reqs : HoldsSlot(s)' <=> HoldsSlot(s)
        BY <1>1, <1>2, <1>4, <2>2 DEF HoldsSlot, Still, PumpSlots
      <4>. QED BY <1>1, <1>4, <2>2, <4>1, SlotsStay DEF IInv, Custody, SameCounters
    <3>5. BytesAreCounted'
      <4>1. \A s \in Reqs : HoldsBytes(s)' <=> HoldsBytes(s)
        BY <1>2, <1>4, <2>2, <3>1 DEF HoldsBytes, PumpBytes
      <4>. QED BY <1>1, <1>4, <2>2, <4>1, BytesStay DEF IInv, Custody, SameCounters
    <3>6. Guarded'
      BY <1>2, <1>4, <2>2, <3>1 DEF IInv, Custody, Guarded
    <3>. QED BY <3>2, <3>3, <3>4, <3>5, <3>6 DEF Custody
  <2>. QED BY <2>1, <2>2
<1>. QED BY <1>5, <1>6 DEF IInv

LEMMA ReserveModernSlotKeeps == ASSUME IInv, ReserveModernSlot PROVE IInv'
<1>1. Setting /\ Still
  BY SettingHolds, SettingStays DEF IInv, peer, ReserveModernSlot
<1>2. UNCHANGED <<word, active, mailbox, writer, failed, child, outcome, worker, admission,
                  toCancel, next, cancels, replies, progress, accepted, lost>>
  BY DEF ReserveModernSlot, requests, channels, children, wire, peer
<1>3. q \in QueueStates /\ pump \in PumpType
  BY Types DEF IInv
<1>4. /\ q' \in QueueStates /\ pump' \in PumpType /\ pump.pc = "slot" /\ pump'.req = pump.req
      /\ \/ /\ pump'.pc = "bytes" /\ q'.owner = q.owner /\ q'.bytes = q.bytes
            /\ q.inFlight < Depth /\ q'.inFlight = q.inFlight + 1
         \/ /\ pump'.pc \in {"reply", "recv"} /\ SameCounters(q, q') /\ Releases(q, q', pump.req)
  <2>1. pump.pc = "slot" /\ pump.req \in Reqs
    BY HandIsFree DEF ReserveModernSlot, PumpAt, Hands
  <2>2. CASE CanReserveSlot(q) /\ q' = ReserveSlot(q) /\ GoTo("bytes")
    BY <1>3, <2>1, <2>2, Names, PumpMoves, SlotsMove DEF CanReserveSlot, PumpGoes, SameMarks
  <2>3. CASE q' = Discard(q, pump.req) /\ Refuse(pump.req, "overloaded")
    <3>1. pump' \in PumpType /\ pump'.pc \in {"reply", "recv"} /\ pump'.req = pump.req
      BY <1>3, <2>3, Names, PumpMoves DEF Refuse, PumpGoes, PumpAnswers
    <3>. QED BY <1>1, <1>3, <2>1, <2>3, <3>1, DiscardReleases DEF SameCounters
  <2>. QED BY <2>2, <2>3 DEF ReserveModernSlot
<1>5. TypeOK' /\ Reporting'
  BY <1>1, <1>2, <1>4 DEF IInv, TypeOK, Reporting, Still, PumpType
<1>6. Custody'
  <2>1. /\ pump.req \in Reqs /\ child[pump.req] = "idle" /\ pump.req \notin Queued /\ Modern
        /\ Queued' = Queued /\ Job' = Job
    BY <1>2, <1>4, HandIsFree DEF Hands, IInv, Custody, Eras, Queued, Job
  <2>2. CASE pump'.pc = "bytes"
    <3>1. Stages' /\ Eras' /\ Mail' /\ Fresh'
      BY <1>1, <1>2, <1>4, <2>1, <2>2, HandGoesOn DEF Hands, Attending
    <3>2. Owned'
      <4>1. \A s \in Reqs : HoldsId(s)' <=> HoldsId(s)
        BY <1>2, <1>4, <2>1, <2>2 DEF HoldsId, PumpIds
      <4>. QED BY <1>1, <1>3, <1>4, <2>2, <4>1, OwnersStay DEF IInv, Custody
    <3>3. SlotsAreCounted'
      <4>1. ~HoldsSlot(pump.req) /\ \A s \in Reqs : HoldsSlot(s)' <=> HoldsSlot(s) \/ s = pump.req
        BY <1>1, <1>2, <1>4, <2>1, <2>2
           DEF HoldsSlot, Still, PumpSlots, ChildSlots, ChildBytes, ChildIds
      <4>. QED BY <1>1, <1>3, <1>4, <2>1, <2>2, <4>1, SlotTaken DEF IInv, Custody
    <3>4. BytesAreCounted'
      <4>1. \A s \in Reqs : HoldsBytes(s)' <=> HoldsBytes(s)
        BY <1>2, <1>4, <2>1, <2>2 DEF HoldsBytes, PumpBytes
      <4>. QED BY <1>1, <1>4, <2>2, <4>1, BytesStay DEF IInv, Custody
    <3>5. Guarded'
      BY <1>2, <1>4, <2>1, <2>2 DEF IInv, Custody, Guarded
    <3>. QED BY <3>1, <3>2, <3>3, <3>4, <3>5 DEF Custody
  <2>3. CASE pump'.pc \in {"reply", "recv"}
    <3>1. SlotsAreCounted'
      <4>1. \A s \in Reqs : HoldsSlot(s)' <=> HoldsSlot(s)
        BY <1>1, <1>2, <1>4, <2>3 DEF HoldsSlot, Still, PumpSlots
      <4>. QED BY <1>1, <1>4, <2>3, <4>1, SlotsStay DEF IInv, Custody, SameCounters
    <3>2. BytesAreCounted'
      <4>1. \A s \in Reqs : HoldsBytes(s)' <=> HoldsBytes(s)
        BY <1>2, <1>4, <2>1, <2>3 DEF HoldsBytes, PumpBytes
      <4>. QED BY <1>1, <1>4, <2>3, <4>1, BytesStay DEF IInv, Custody, SameCounters
    <3>. QED BY <1>1, <1>2, <1>4, <2>3, <3>1, <3>2, PumpLetsGo DEF PumpIds
  <2>. QED BY <1>4, <2>2, <2>3
<1>. QED BY <1>5, <1>6 DEF IInv

LEMMA ReserveQueuedBytesKeeps == ASSUME IInv, ReserveQueuedBytes PROVE IInv'
<1>1. Setting /\ Still
  BY SettingHolds, SettingStays DEF IInv, peer, ReserveQueuedBytes
<1>2. UNCHANGED <<word, active, mailbox, writer, failed, child, outcome, worker, admission,
                  toCancel, next, cancels, replies, progress, accepted, lost>>
  BY DEF ReserveQueuedBytes, requests, channels, children, wire, peer
<1>3. q \in QueueStates /\ pump \in PumpType
  BY Types DEF IInv
<1>4. /\ q' \in QueueStates /\ pump' \in PumpType /\ pump.pc = "bytes" /\ pump'.req = pump.req
      /\ \/ /\ pump'.pc = (IF Modern THEN "register" ELSE "enqueue") /\ q'.owner = q.owner
            /\ q'.inFlight = q.inFlight /\ q.bytes + Size[pump.req] <= MaxBytes
            /\ q'.bytes = q.bytes + Size[pump.req]
         \/ /\ pump'.pc \in {"reply", "recv"} /\ Releases(q, q', pump.req) /\ q'.bytes = q.bytes
            /\ q'.inFlight = (IF ~Modern THEN q.inFlight
                              ELSE IF q.inFlight > 0 THEN q.inFlight - 1 ELSE 0)
  <2>1. pump.pc = "bytes" /\ pump.req \in Reqs
    BY HandIsFree DEF ReserveQueuedBytes, PumpAt, Hands
  <2>2. CASE /\ CanReserveBytes(q, pump.req) /\ q' = ReserveBytes(q, pump.req)
             /\ GoTo(IF Modern THEN "register" ELSE "enqueue")
    <3>1. pump' \in PumpType /\ PumpGoes(IF Modern THEN "register" ELSE "enqueue")
      BY <1>3, <2>2, Names, PumpMoves
    <3>. QED BY <1>1, <1>3, <2>1, <2>2, <3>1, BytesMove DEF CanReserveBytes, PumpGoes, SameMarks
  <2>3. CASE /\ q' = Discard(IF Modern THEN ReleaseSlot(q) ELSE q, pump.req)
             /\ Refuse(pump.req, "overloaded")
    <3>1. pump' \in PumpType /\ pump'.pc \in {"reply", "recv"} /\ pump'.req = pump.req
      BY <1>3, <2>3, Names, PumpMoves DEF Refuse, PumpGoes, PumpAnswers
    <3>2. PICK p \in QueueStates : /\ q' = Discard(p, pump.req) /\ SameMarks(q, p) /\ p.bytes = q.bytes
                                   /\ p.inFlight = (IF ~Modern THEN q.inFlight
                                                    ELSE IF q.inFlight > 0 THEN q.inFlight - 1 ELSE 0)
      BY <1>3, <2>3, SlotsMove DEF SameMarks
    <3>3. q' \in QueueStates /\ Releases(p, q', pump.req) /\ q'.inFlight = p.inFlight
          /\ q'.bytes = p.bytes
      BY <1>1, <2>1, <3>2, DiscardReleases
    <3>4. Releases(q, q', pump.req)
      BY <3>2, <3>3 DEF Releases, SameMarks
    <3>. QED BY <2>1, <3>1, <3>2, <3>3, <3>4
  <2>. QED BY <2>2, <2>3 DEF ReserveQueuedBytes
<1>5. TypeOK' /\ Reporting'
  BY <1>1, <1>2, <1>4 DEF IInv, TypeOK, Reporting, Still, PumpType
<1>6. Custody'
  <2>1. /\ pump.req \in Reqs /\ child[pump.req] = "idle" /\ pump.req \notin Queued
        /\ ~(worker.pc \in Busy /\ Job = pump.req) /\ Queued' = Queued /\ Job' = Job
    BY <1>2, <1>4, HandIsFree DEF Hands, Queued, Job
  <2>2. CASE pump'.pc = (IF Modern THEN "register" ELSE "enqueue")
    <3>1. Stages' /\ Eras' /\ Mail' /\ Fresh'
      BY <1>1, <1>2, <1>4, <2>2, HandGoesOn DEF Hands, Attending
    <3>2. Owned'
      <4>1. \A s \in Reqs : HoldsId(s)' <=> HoldsId(s)
        BY <1>2, <1>4, <2>1, <2>2 DEF HoldsId, PumpIds, PumpBytes
      <4>. QED BY <1>1, <1>3, <1>4, <2>2, <4>1, OwnersStay DEF IInv, Custody
    <3>3. SlotsAreCounted'
      <4>1. \A s \in Reqs : HoldsSlot(s)' <=> HoldsSlot(s)
        BY <1>1, <1>2, <1>4, <2>2 DEF HoldsSlot, Still, PumpSlots
      <4>. QED BY <1>1, <1>4, <2>2, <4>1, SlotsStay DEF IInv, Custody
    <3>4. BytesAreCounted'
      <4>1. ~HoldsBytes(pump.req)
            /\ \A s \in Reqs : HoldsBytes(s)' <=> HoldsBytes(s) \/ s = pump.req
        BY <1>2, <1>4, <2>1, <2>2 DEF HoldsBytes, PumpBytes, ChildBytes, ChildIds, Busy
      <4>. QED BY <1>1, <1>3, <1>4, <2>1, <2>2, <4>1, BytesTaken DEF IInv, Custody
    <3>5. Guarded'
      BY <1>2, <1>4, <2>1, <2>2 DEF IInv, Custody, Guarded
    <3>. QED BY <3>1, <3>2, <3>3, <3>4, <3>5 DEF Custody
  <2>3. CASE pump'.pc \in {"reply", "recv"}
    <3>1. SlotsAreCounted'
      <4>1. CASE Modern
        <5>1. HoldsSlot(pump.req)
              /\ \A s \in Reqs : HoldsSlot(s)' <=> HoldsSlot(s) /\ s # pump.req
          BY <1>1, <1>2, <1>4, <2>1, <2>3, <4>1
             DEF HoldsSlot, Still, PumpSlots, ChildSlots, ChildBytes, ChildIds
        <5>. QED BY <1>1, <1>3, <1>4, <2>1, <2>3, <4>1, <5>1, SlotReleased DEF IInv, Custody
      <4>2. CASE ~Modern
        <5>1. \A s \in Reqs : HoldsSlot(s)' <=> HoldsSlot(s)
          BY <1>1, <1>2, <4>2 DEF HoldsSlot, Still
        <5>. QED BY <1>1, <1>4, <2>3, <4>2, <5>1, SlotsStay DEF IInv, Custody
      <4>. QED BY <4>1, <4>2
    <3>2. BytesAreCounted'
      <4>1. \A s \in Reqs : HoldsBytes(s)' <=> HoldsBytes(s)
        BY <1>2, <1>4, <2>1, <2>3 DEF HoldsBytes, PumpBytes
      <4>. QED BY <1>1, <1>4, <2>3, <4>1, BytesStay DEF IInv, Custody
    <3>. QED BY <1>1, <1>2, <1>4, <2>3, <3>1, <3>2, PumpLetsGo DEF PumpIds
  <2>. QED BY <1>4, <2>2, <2>3
<1>. QED BY <1>5, <1>6 DEF IInv

LEMMA RegisterChildKeeps == ASSUME IInv, RegisterChild PROVE IInv'
<1>1. Setting /\ Still
  BY SettingHolds, SettingStays DEF IInv, peer, RegisterChild
<1>2. UNCHANGED <<active, mailbox, writer, failed, child, outcome, worker, admission, toCancel,
                  next, cancels, replies, progress, accepted, lost>>
  BY DEF RegisterChild, requests, channels, children, wire, peer
<1>3. q \in QueueStates /\ word \in [Reqs -> Words] /\ pump \in PumpType
  BY Types DEF IInv
<1>4. /\ q' \in QueueStates /\ word' \in [Reqs -> Words] /\ pump' \in PumpType
      /\ pump.pc = "register" /\ pump'.pc = "spawn" /\ pump'.req = pump.req /\ QueueStays
  <2>1. pump.pc = "register" /\ pump.req \in Reqs
    BY HandIsFree DEF RegisterChild, PumpAt, Hands
  <2>. QED BY <1>3, <2>1, Names, PumpMoves, RegistryMoves, WordsMove
           DEF RegisterChild, PumpGoes, QueueStays
<1>5. TypeOK' /\ Reporting'
  BY <1>1, <1>2, <1>4 DEF IInv, TypeOK, Reporting, Still, PumpType
<1>6. Custody'
  <2>1. Queued' = Queued /\ Job' = Job /\ Modern
    BY <1>2, <1>4 DEF IInv, Custody, Eras, Queued, Job
  <2>2. Stages' /\ Eras' /\ Mail' /\ Fresh'
    BY <1>1, <1>2, <1>4, <2>1, HandGoesOn DEF Hands, Attending
  <2>3. Owned'
    <3>1. \A s \in Reqs : HoldsId(s)' <=> HoldsId(s)
      BY <1>2, <1>4, <2>1 DEF HoldsId, PumpIds, PumpBytes
    <3>. QED BY <1>1, <1>3, <1>4, <3>1, OwnersStay DEF IInv, Custody, QueueStays
  <2>4. SlotsAreCounted'
    <3>1. \A s \in Reqs : HoldsSlot(s)' <=> HoldsSlot(s)
      BY <1>1, <1>2, <1>4 DEF HoldsSlot, Still, PumpSlots
    <3>. QED BY <1>1, <1>4, <3>1, SlotsStay DEF IInv, Custody, QueueStays, SameCounters
  <2>5. BytesAreCounted'
    <3>1. \A s \in Reqs : HoldsBytes(s)' <=> HoldsBytes(s)
      BY <1>2, <1>4, <2>1 DEF HoldsBytes, PumpBytes
    <3>. QED BY <1>1, <1>4, <3>1, BytesStay DEF IInv, Custody, QueueStays, SameCounters
  <2>6. Guarded'
    BY <1>2, <1>4, <2>1 DEF IInv, Custody, Guarded, QueueStays
  <2>. QED BY <2>2, <2>3, <2>4, <2>5, <2>6 DEF Custody
<1>. QED BY <1>5, <1>6 DEF IInv

LEMMA SpawnKeeps == ASSUME IInv, Spawn PROVE IInv'
<1>1. Setting /\ Still
  BY SettingHolds, SettingStays DEF IInv, peer, Spawn
<1>2. UNCHANGED <<q, word, active, mailbox, writer, failed, outcome, worker, toCancel, next,
                  cancels, replies, progress, accepted, lost>>
  BY DEF Spawn, requests, channels, children, wire, peer
<1>3. pump \in PumpType /\ child \in [Reqs -> ChildPcs]
      /\ admission \in [Reqs -> {"pending", "admitted", "rejected"}]
  BY Types DEF IInv
<1>4. /\ pump' \in PumpType /\ child' \in [Reqs -> ChildPcs]
      /\ admission' \in [Reqs -> {"pending", "admitted", "rejected"}]
      /\ pump.pc = "spawn" /\ pump'.pc \in {"bind", "recv"} /\ pump'.req = pump.req
      /\ pump.req \in Reqs /\ ChildMoves(pump.req, "waiting")
  <2>1. pump.pc = "spawn" /\ pump.req \in Reqs /\ ChildGoes(pump.req, "waiting")
    BY HandIsFree DEF Spawn, PumpAt, Hands, ChildGoes
  <2>2. child' \in [Reqs -> ChildPcs] /\ ChildMoves(pump.req, "waiting")
    BY <1>3, <2>1, Names, ChildMovesOn
  <2>. QED BY <1>3, <2>1, <2>2, Names, PumpMoves DEF Spawn, PumpGoes
<1>5. TypeOK' /\ Reporting'
  BY <1>1, <1>2, <1>4 DEF IInv, TypeOK, Reporting, Still, ChildMoves, PumpType
<1>6. Custody'
  BY <1>1, <1>2, <1>4, HandPasses DEF QueueStays, SameCounters
<1>. QED BY <1>5, <1>6 DEF IInv

LEMMA SpawnRefusedKeeps == ASSUME IInv, SpawnRefused PROVE IInv'
<1>1. Setting /\ Still
  BY SettingHolds, SettingStays DEF IInv, peer, SpawnRefused
<1>2. UNCHANGED <<q, word, active, mailbox, writer, failed, outcome, worker, admission,
                  toCancel, next, cancels, replies, progress, accepted, lost>>
  BY DEF SpawnRefused, requests, channels, children, wire, peer
<1>3. pump \in PumpType /\ child \in [Reqs -> ChildPcs]
  BY Types DEF IInv
<1>4. /\ pump' \in PumpType /\ child' \in [Reqs -> ChildPcs]
      /\ pump.pc = "spawn" /\ pump'.pc = "refused" /\ pump'.req = pump.req
      /\ pump.req \in Reqs /\ ChildMoves(pump.req, "discard")
  <2>1. pump.pc = "spawn" /\ pump.req \in Reqs /\ ChildGoes(pump.req, "discard")
    BY HandIsFree DEF SpawnRefused, PumpAt, Hands, ChildGoes
  <2>2. child' \in [Reqs -> ChildPcs] /\ ChildMoves(pump.req, "discard")
    BY <1>3, <2>1, Names, ChildMovesOn
  <2>. QED BY <1>3, <2>1, <2>2, Names, PumpMoves DEF SpawnRefused, PumpGoes
<1>5. TypeOK' /\ Reporting'
  BY <1>1, <1>2, <1>4 DEF IInv, TypeOK, Reporting, Still, ChildMoves, PumpType
<1>6. Custody'
  BY <1>1, <1>2, <1>4, HandPasses DEF QueueStays, SameCounters
<1>. QED BY <1>5, <1>6 DEF IInv

LEMMA EnqueueKeeps == ASSUME IInv, Enqueue PROVE IInv'
<1>1. Setting /\ Still
  BY SettingHolds, SettingStays DEF IInv, peer, Enqueue
<1>2. UNCHANGED <<word, active, writer, failed, child, outcome, worker, toCancel, next, cancels,
                  replies, progress, accepted, lost>>
  BY DEF Enqueue, requests, channels, children, wire, peer
<1>3. q \in QueueStates /\ mailbox \in Seq(Reqs \cup {Response}) /\ Len(mailbox) <= Depth
      /\ pump \in PumpType /\ admission \in [Reqs -> {"pending", "admitted", "rejected"}]
  BY Types DEF IInv
<1>4. /\ q' \in QueueStates /\ mailbox' \in Seq(Letters) /\ Len(mailbox') <= Depth
      /\ pump' \in PumpType /\ admission' \in [Reqs -> {"pending", "admitted", "rejected"}]
      /\ pump.pc = "enqueue" /\ pump'.req = pump.req
      /\ \/ /\ pump'.pc \in {"bind", "recv"} /\ q' = q /\ Distinct'
            /\ \A s \in Reqs : s \in Queued' <=> s \in Queued \/ s = pump.req
            /\ Queued' \subseteq Queued \cup {pump.req}
         \/ /\ pump'.pc \in {"reply", "recv", "leave"} /\ Releases(q, q', pump.req)
            /\ mailbox' = mailbox /\ q'.inFlight = q.inFlight
            /\ q'.bytes = (IF q.bytes >= Size[pump.req] THEN q.bytes - Size[pump.req] ELSE 0)
  <2>1. /\ pump.pc = "enqueue" /\ pump.req \in Reqs /\ pump.req \notin Queued
        /\ mailbox \in Seq(Letters) /\ Len(mailbox) \in Nat /\ Distinct
    BY <1>3, HandIsFree DEF Enqueue, PumpAt, Hands, Letters, IInv, Custody, Mail, Distinct
  <2>2. CASE /\ Len(mailbox) < Depth /\ mailbox' = Append(mailbox, pump.req) /\ UNCHANGED q
             /\ IF Correlated(pump.req)
                THEN UNCHANGED admission /\ GoTo("bind")
                ELSE admission' = [admission EXCEPT ![pump.req] = "admitted"] /\ GoTo("recv")
    <3>1. /\ mailbox' \in Seq(Letters) /\ Len(mailbox') = Len(mailbox) + 1 /\ Distinct'
          /\ \A s \in Reqs : s \in Queued' <=> s \in Queued \/ s = pump.req
          /\ Queued' \subseteq Queued \cup {pump.req}
      BY <2>1, <2>2, Posted DEF Letters
    <3>2. Len(mailbox') <= Depth
      BY <1>1, <2>1, <2>2, <3>1 DEF Setting
    <3>3. /\ pump' \in PumpType /\ pump'.pc \in {"bind", "recv"} /\ pump'.req = pump.req
          /\ admission' \in [Reqs -> {"pending", "admitted", "rejected"}]
      BY <1>3, <2>2, Names, PumpMoves DEF PumpGoes
    <3>. QED BY <1>3, <2>1, <2>2, <3>1, <3>2, <3>3
  <2>3. CASE /\ q' = Discard(ReleaseBytes(q, pump.req), pump.req) /\ UNCHANGED <<mailbox, admission>>
             /\ \/ Refuse(pump.req, "overloaded")
                \/ pump' = [pump EXCEPT !.pc = "leave", !.exit = 1]
    <3>1. pump' \in PumpType /\ pump'.pc \in {"reply", "recv", "leave"} /\ pump'.req = pump.req
      BY <1>3, <2>3, Names, PumpMoves, PumpQuits DEF Refuse, PumpGoes, PumpAnswers, PumpGivesUp
    <3>2. PICK p \in QueueStates :
            /\ q' = Discard(p, pump.req) /\ SameMarks(q, p) /\ p.inFlight = q.inFlight
            /\ p.bytes = (IF q.bytes >= Size[pump.req] THEN q.bytes - Size[pump.req] ELSE 0)
      BY <1>1, <1>3, <2>1, <2>3, BytesMove
    <3>3. q' \in QueueStates /\ Releases(p, q', pump.req) /\ q'.inFlight = p.inFlight
          /\ q'.bytes = p.bytes
      BY <1>1, <2>1, <3>2, DiscardReleases
    <3>4. Releases(q, q', pump.req)
      BY <3>2, <3>3 DEF Releases, SameMarks
    <3>. QED BY <1>3, <2>1, <2>3, <3>1, <3>2, <3>3, <3>4
  <2>. QED BY <2>2, <2>3 DEF Enqueue
<1>5. TypeOK' /\ Reporting'
  BY <1>1, <1>2, <1>4 DEF IInv, TypeOK, Reporting, Still, PumpType, Letters
<1>6. Custody'
  <2>1. /\ pump.req \in Reqs /\ pump.req \in Taken /\ child[pump.req] = "idle"
        /\ pump.req \notin Queued /\ ~(worker.pc \in Busy /\ Job = pump.req)
        /\ Taken' = Taken /\ Job' = Job /\ ~Modern
    BY <1>1, <1>2, <1>4, HandIsFree DEF Hands, Taken, Still, Job, IInv, Custody, Eras
  <2>2. CASE /\ pump'.pc \in {"bind", "recv"} /\ q' = q /\ Distinct'
             /\ \A s \in Reqs : s \in Queued' <=> s \in Queued \/ s = pump.req
             /\ Queued' \subseteq Queued \cup {pump.req}
    <3>1. Stages'
      BY <1>1, <1>2, <1>4, <2>1, <2>2
         DEF IInv, Custody, Stages, Still, Correlated, Attending, Hands
    <3>2. Mail'
      BY <2>1, <2>2 DEF IInv, Custody, Mail, Distinct
    <3>3. Eras'
      BY <1>1, <1>2, <2>1, <2>2 DEF IInv, Custody, Eras, Still
    <3>4. Fresh'
      BY <1>2, <2>1, <2>2 DEF IInv, Custody, Fresh, Hands
    <3>5. Owned'
      <4>1. \A s \in Reqs : HoldsId(s)' <=> HoldsId(s)
        BY <1>2, <1>4, <2>1, <2>2 DEF HoldsId, PumpIds, PumpBytes
      <4>. QED BY <1>1, <1>3, <2>2, <4>1, OwnersStay DEF IInv, Custody
    <3>6. SlotsAreCounted'
      <4>1. \A s \in Reqs : HoldsSlot(s)' <=> HoldsSlot(s)
        BY <1>1, <1>2, <2>1 DEF HoldsSlot, Still
      <4>. QED BY <1>1, <2>2, <4>1, SlotsStay DEF IInv, Custody
    <3>7. BytesAreCounted'
      <4>1. \A s \in Reqs : HoldsBytes(s)' <=> HoldsBytes(s)
        BY <1>2, <1>4, <2>1, <2>2 DEF HoldsBytes, PumpBytes
      <4>. QED BY <1>1, <2>2, <4>1, BytesStay DEF IInv, Custody
    <3>8. Guarded'
      BY <1>2, <2>1, <2>2 DEF IInv, Custody, Guarded
    <3>. QED BY <3>1, <3>2, <3>3, <3>4, <3>5, <3>6, <3>7, <3>8 DEF Custody
  <2>3. CASE /\ pump'.pc \in {"reply", "recv", "leave"} /\ Releases(q, q', pump.req)
             /\ mailbox' = mailbox /\ q'.inFlight = q.inFlight
             /\ q'.bytes = (IF q.bytes >= Size[pump.req] THEN q.bytes - Size[pump.req] ELSE 0)
    <3>1. SlotsAreCounted'
      <4>1. \A s \in Reqs : HoldsSlot(s)' <=> HoldsSlot(s)
        BY <1>1, <1>2, <2>1 DEF HoldsSlot, Still
      <4>. QED BY <1>1, <2>3, <4>1, SlotsStay DEF IInv, Custody
    <3>2. BytesAreCounted'
      <4>1. Queued' = Queued
        BY <2>3 DEF Queued
      <4>2. HoldsBytes(pump.req)
            /\ \A s \in Reqs : HoldsBytes(s)' <=> HoldsBytes(s) /\ s # pump.req
        BY <1>2, <1>4, <2>1, <2>3, <4>1 DEF HoldsBytes, PumpBytes, ChildBytes, ChildIds, Busy
      <4>. QED BY <1>1, <1>3, <2>1, <2>3, <4>2, BytesReleased DEF IInv, Custody
    <3>. QED BY <1>1, <1>2, <1>4, <2>3, <3>1, <3>2, PumpLetsGo DEF PumpIds, PumpBytes
  <2>. QED BY <1>4, <2>2, <2>3
<1>. QED BY <1>5, <1>6 DEF IInv

LEMMA ReceiveLegacyResponseKeeps == ASSUME IInv, ReceiveLegacyResponse PROVE IInv'
<1>1. Setting /\ Still
  BY SettingHolds, SettingStays DEF IInv, peer, ReceiveLegacyResponse
<1>2. UNCHANGED <<q, word, active, writer, failed, child, outcome, worker, admission, toCancel,
                  next, cancels, replies, progress, accepted, lost>>
  BY DEF ReceiveLegacyResponse, requests, channels, children, wire, peer
<1>3. mailbox \in Seq(Reqs \cup {Response}) /\ Len(mailbox) <= Depth /\ pump \in PumpType
  BY Types DEF IInv
<1>4. /\ mailbox' \in Seq(Letters) /\ Len(mailbox') <= Depth /\ pump' \in PumpType
      /\ pump.pc = "recv" /\ ~Modern
      /\ \/ pump' = pump /\ Distinct' /\ Queued' = Queued
         \/ pump'.pc = "leave" /\ mailbox' = mailbox
  <2>1. /\ mailbox \in Seq(Letters) /\ Len(mailbox) \in Nat /\ Distinct /\ Response \in Letters
        /\ pump.pc = "recv" /\ ~Modern /\ Response \notin Queued
    BY <1>3 DEF ReceiveLegacyResponse, PumpAt, IInv, Custody, Mail, Distinct, Letters, Queued
  <2>2. CASE Len(mailbox) < Depth /\ mailbox' = Append(mailbox, Response) /\ UNCHANGED pump
    <3>1. /\ mailbox' \in Seq(Letters) /\ Len(mailbox') = Len(mailbox) + 1 /\ Distinct'
          /\ \A s \in Reqs : s \in Queued' <=> s \in Queued \/ s = Response
          /\ Queued' \subseteq Queued \cup ({Response} \ {Response})
      BY <2>1, <2>2, Posted
    <3>2. Queued \subseteq Reqs
      BY <2>1 DEF Queued, Letters
    <3>3. Queued' = Queued
      BY <3>1, <3>2
    <3>4. Len(mailbox') <= Depth
      BY <1>1, <2>1, <2>2, <3>1 DEF Setting
    <3>. QED BY <1>3, <2>1, <2>2, <3>1, <3>3, <3>4
  <2>3. CASE pump' = [pump EXCEPT !.pc = "leave", !.exit = 1] /\ UNCHANGED mailbox
    BY <1>3, <2>1, <2>3, PumpQuits DEF PumpGivesUp
  <2>. QED BY <2>2, <2>3 DEF ReceiveLegacyResponse
<1>5. TypeOK' /\ Reporting'
  BY <1>1, <1>2, <1>4 DEF IInv, TypeOK, Reporting, Still, PumpType, Letters
<1>6. Custody'
  <2>1. CASE pump' = pump /\ Distinct' /\ Queued' = Queued
    <3>1. Taken' = Taken /\ Job' = Job
      BY <1>1, <1>2 DEF Taken, Still, Job
    <3>2. Stages' /\ Mail' /\ Fresh'
      BY <1>1, <1>2, <2>1, <3>1 DEF IInv, Custody, Stages, Mail, Fresh, Still, Correlated, Distinct
    <3>3. Eras'
      BY <1>1, <1>2, <1>4, <2>1 DEF IInv, Custody, Eras, Still
    <3>4. Owned'
      <4>1. \A s \in Reqs : HoldsId(s)' <=> HoldsId(s)
        BY <1>2, <2>1, <3>1 DEF HoldsId
      <4>. QED BY <1>1, <1>2, <4>1, OwnersStay, Types DEF IInv, Custody
    <3>5. SlotsAreCounted'
      <4>1. \A s \in Reqs : HoldsSlot(s)' <=> HoldsSlot(s)
        BY <1>1, <1>2, <2>1 DEF HoldsSlot, Still
      <4>. QED BY <1>1, <1>2, <4>1, SlotsStay DEF IInv, Custody
    <3>6. BytesAreCounted'
      <4>1. \A s \in Reqs : HoldsBytes(s)' <=> HoldsBytes(s)
        BY <1>2, <2>1, <3>1 DEF HoldsBytes
      <4>. QED BY <1>1, <1>2, <4>1, BytesStay DEF IInv, Custody
    <3>7. Guarded'
      BY <1>2, <3>1 DEF IInv, Custody, Guarded
    <3>. QED BY <3>2, <3>3, <3>4, <3>5, <3>6, <3>7 DEF Custody
  <2>2. CASE pump'.pc = "leave" /\ mailbox' = mailbox
    BY <1>1, <1>2, <1>4, <2>2, PumpRests DEF QueueStays, SameCounters, Hands, Attending
  <2>. QED BY <1>4, <2>1, <2>2
<1>. QED BY <1>5, <1>6 DEF IInv

-----------------------------------------------------------------------------
(* The theorem. *)

LEMMA InitHolds == Init => IInv
<1>. SUFFICES ASSUME Init PROVE IInv
  OBVIOUS
<1>1. scenario \in Scenarios
  BY DEF Init
<1>2. Frames \in Seq(Reqs) /\ Depth \in Nat \ {0} /\ MaxBytes \in Nat /\ MaxCancels \in Nat
      /\ MaxProgress \in Nat /\ Size \in [Reqs -> Nat]
  BY <1>1, RequestAssumption, ConnectionAssumption
     DEF Frames, Depth, MaxBytes, MaxCancels, MaxProgress, Size
<1>3. EmptyQueue \in QueueStates
  BY DEF EmptyQueue, QueueStates
<1>4. TypeOK
  <2>1. pump \in PumpType
    BY Names DEF Init, PumpType
  <2>2. worker \in WorkerType
    BY Names DEF Init, WorkerType
  <2>3. mailbox \in Seq(Reqs \cup {Response}) /\ Len(mailbox) <= Depth
        /\ next \in 1..(Len(Frames) + 1) /\ cancels \in 0..MaxCancels
    BY <1>2 DEF Init
  <2>4. /\ replies \in [Reqs -> Seq(Kinds)] /\ progress \in [Reqs -> 0..MaxProgress]
        /\ child \in [Reqs -> ChildPcs] /\ word \in [Reqs -> Words]
    BY <1>2, Names DEF Init, Words
  <2>. QED BY <1>1, <1>3, <2>1, <2>2, <2>3, <2>4 DEF Init, TypeOK, PumpType, WorkerType
<1>5. Queued = {} /\ Taken = {}
  BY DEF Init, Queued, Taken
<1>6. Reporting /\ Stages /\ Eras /\ Mail /\ Fresh
  BY <1>5 DEF Init, Reporting, Stages, Eras, Mail, Fresh, Attending, Hands, Busy
<1>7. \A r \in Reqs : ~HoldsId(r) /\ ~HoldsSlot(r) /\ ~HoldsBytes(r)
  BY <1>5 DEF Init, HoldsId, HoldsSlot, HoldsBytes, ChildIds, ChildSlots, ChildBytes, Busy,
              PumpIds, PumpSlots, PumpBytes
<1>8. Owned /\ Guarded
  BY <1>7, Sentinels DEF Init, Owned, Guarded, EmptyQueue
<1>9. SlotsAreCounted
  <2>1. Slots = {}
    BY <1>7 DEF Slots
  <2>. QED BY <1>2, <2>1, FS_EmptySet DEF Init, SlotsAreCounted, EmptyQueue
<1>10. BytesAreCounted
  <2>1. Bytes = {} /\ Bytes \in SUBSET Reqs
    BY <1>7 DEF Bytes
  <2>2. Weight(Size, Bytes) = 0
    BY <1>2, <2>1, WeightFacts, Sentinels
  <2>. QED BY <1>2, <2>2 DEF Init, BytesAreCounted, EmptyQueue
<1>. QED BY <1>4, <1>6, <1>8, <1>9, <1>10 DEF IInv, Custody

LEMMA StutterKeeps == ASSUME IInv, UNCHANGED vars PROVE IInv'
<1>1. /\ UNCHANGED <<q, word, active, mailbox, writer, failed, pump, child, outcome, worker>>
      /\ UNCHANGED <<admission, toCancel, next, cancels, replies, progress, accepted, lost>>
      /\ scenario' = scenario
  BY DEF vars, requests, channels, children, wire, peer
<1>2. Setting /\ Still
  BY <1>1, SettingHolds, SettingStays DEF IInv
<1>3. TypeOK' /\ Reporting'
  BY <1>1, <1>2 DEF IInv, TypeOK, Reporting, Still
<1>4. Custody'
  BY <1>1, <1>2, NobodyMoves DEF QueueStays, SameCounters
<1>. QED BY <1>3, <1>4 DEF IInv

LEMMA NextKeeps == ASSUME IInv, [Next]_vars PROVE IInv'
<1>1. CASE PumpStep
  BY <1>1, ReceiveRequestKeeps, CheckActiveKeeps, AdmitRequestKeeps, ReserveModernSlotKeeps,
     ReserveQueuedBytesKeeps, RegisterChildKeeps, SpawnKeeps, SpawnRefusedKeeps,
     RefusedDroppedKeeps, EnqueueKeeps, BindPrincipalKeeps, PumpReplyKeeps,
     ReceiveCancellationKeeps, CancelActiveRequestKeeps, ReceiveLegacyResponseKeeps,
     WorkerFailureSeenKeeps, EndOfInputKeeps, ReceiveStopsKeeps, CancelNotificationsKeeps,
     DrainResponsesKeeps, PumpStopKeeps, CancelActiveKeeps, AwaitChildrenKeeps,
     AwaitWorkerKeeps, FinishKeeps
     DEF PumpStep
<1>2. ASSUME NEW r \in Reqs, ChildStep(r) PROVE IInv'
  BY <1>2, ChildAdmittedKeeps, ChildUnpolledKeeps, ChildGuardKeeps, ChildStartKeeps,
     ChildPlainReplyKeeps, ChildProgressKeeps, ChildSendProgressKeeps, ChildReturnKeeps,
     ChildPanicKeeps, ChildFinalizeKeeps, ChildReplyKeeps, ChildUnguardKeeps,
     ChildSettleKeeps, ChildFailKeeps, ChildStopKeeps, ReleaseReservationKeeps
     DEF ChildStep
<1>3. CASE WorkerStep
  BY <1>3, WorkerLeavesKeeps, WorkerTakeKeeps, WorkerReleaseBytesKeeps, WorkerAdmittedKeeps,
     WorkerBeginKeeps, WorkerCheckKeeps, WorkerHandleKeeps, WorkerReturnKeeps,
     WorkerResolveKeeps, WorkerReplyKeeps, WorkerUnguardKeeps, WorkerDiscardKeeps,
     WorkerEndKeeps, WorkerFailKeeps, WorkerStopKeeps, WorkerStoppedKeeps
     DEF WorkerStep
<1>. QED BY <1>1, <1>2, <1>3, CancelCopiedKeeps, StutterKeeps DEF Next

\* The custody of each place, read as the sets the property speaks of.
LEMMA CustodyIsExact == ASSUME IInv PROVE OwnershipIsExact
<1>1. Setting /\ TypeOK /\ Owned /\ Guarded
  BY SettingHolds DEF IInv, Custody
<1>2. \A r \in Reqs : child[r] \in ChildPcs
  BY Types DEF IInv
<1>3. \A r \in Reqs : /\ Live(r) <=> child[r] \in ChildSlots
                      /\ Live(r) /\ child[r] # "slot" <=> child[r] \in ChildBytes
                      /\ Live(r) /\ child[r] \notin {"unregister", "bytes", "slot"}
                           <=> child[r] \in ChildIds
  BY <1>2 DEF ChildPcs, Live, ChildSlots, ChildBytes, ChildIds
<1>4. /\ Queued \subseteq Reqs
      /\ worker.pc \in Busy => Job \in Reqs
      /\ pump.pc \in PumpIds => pump.req \in Reqs
      /\ pump.pc \in PumpSlots => pump.req \in Reqs
      /\ pump.pc \in PumpBytes => pump.req \in Reqs
  <2>1. Queued \subseteq Reqs
    BY Types DEF IInv, Queued
  <2>. QED BY <2>1 DEF IInv, Custody, Stages, Attending, Hands, PumpIds, PumpSlots, PumpBytes
<1>5. Working = IF worker.pc \in Busy THEN {Job} ELSE {}
  BY DEF Working, Busy
<1>6. Holders = {r \in Reqs : HoldsId(r)}
  BY <1>3, <1>4, <1>5 DEF Holders, HoldsId, PumpIds, PumpBytes
<1>7. SlotHolders = Slots
  BY <1>3, <1>4 DEF SlotHolders, Slots, HoldsSlot, PumpSlots
<1>8. ByteHolders = Bytes
  BY <1>3, <1>4 DEF ByteHolders, Bytes, HoldsBytes, PumpBytes, WorkerAt, Busy
<1>9. OwnershipIsExclusive
  <2>1. \A i \in Ids : q.owner[i] # NoReq => q.owner[i] \in Reqs
    BY Types DEF IInv, QueueStates
  <2>. QED BY <1>1, <1>6, <2>1 DEF OwnershipIsExclusive, Owned, Guarded, Reserved
<1>10. CapacityIsAccounted
  BY <1>7, <1>8 DEF CapacityIsAccounted, IInv, Custody, SlotsAreCounted, BytesAreCounted, Weight
<1>. QED BY <1>1, <1>9, <1>10 DEF OwnershipIsExact

\* Custody is inductive: every step of the pump, of a child and of the worker
\* keeps it.
THEOREM CustodyHolds == Spec => []IInv
<1>1. IInv /\ [Next]_vars => IInv'
  BY NextKeeps
<1>. QED BY InitHolds, <1>1, PTL DEF Spec

\* Ids, slots and bytes belong to the requests that hold them and to nobody
\* else, whatever the frames, the limits and the faults (DispatchQueueState,
\* ActiveRequestGuard, ModernDispatchReservation::drop).
THEOREM OwnershipHolds == Spec => []OwnershipIsExact
BY CustodyHolds, CustodyIsExact, PTL

-----------------------------------------------------------------------------
(* The end of the connection.  Who writes holds the writer, only the actors   *)
(* of a stop still have copies to cancel, a child stays registered until it   *)
(* has left, and the pump knows what it has waited for.                      *)

WriterIsHeld ==
  /\ \A r \in Reqs : child[r] \in {"progress", "replying"} <=> writer = r
  /\ worker.pc = "replying" <=> writer = Worker
  /\ pump.pc = "lookup" /\ Modern <=> writer = Pump
Copies ==
  /\ \A r \in Reqs : child[r] # "discard" => toCancel[r] = {}
  /\ worker.pc # "stopped" => toCancel[Worker] = {}
  /\ pump.pc \notin {"drain", "active", "children"} => toCancel[Pump] = {}
Enrolled ==
  \A r \in Reqs : r \in q.registered =>
    \/ pump.pc = "spawn" /\ r = pump.req
    \/ child[r] \notin {"idle", "bytes", "slot", "gone"}
Ending ==
  /\ pump.childrenQuiesced =>
       pump.pc \in {"worker", "worker_late", "finish", "done"} /\ q.inFlight = 0
  /\ pump.hook => pump.childrenQuiesced /\ pump.pc \in {"finish", "done"} /\ worker.pc = "gone"
  /\ pump.pc = "done" /\ pump.hook /\ failed => pump.exit = 1

\* Whom the pump, its children and the worker have at hand.
LEMMA AtHand ==
  ASSUME IInv
  PROVE  /\ pump.pc \in Attending => pump.req \in Reqs
         /\ pump.pc \in Hands => child[pump.req] = "idle"
         /\ worker.pc \in Busy => worker.job \in Reqs
BY DEF IInv, Custody, Stages, Fresh, Job

\* Once no slot is taken no child is left.
LEMMA NobodyIsLeft ==
  ASSUME IInv, q.inFlight = 0
  PROVE  \A r \in Reqs : child[r] \in {"idle", "gone"}
<1>1. Cardinality(Slots) = 0 /\ IsFiniteSet(Slots)
  BY Sentinels, FS_Subset DEF IInv, Custody, SlotsAreCounted, Slots
<1>2. Slots = {}
  BY <1>1, FS_EmptySet
<1>3. child \in [Reqs -> ChildPcs]
  BY Types DEF IInv
<1>. QED BY <1>2, <1>3 DEF Slots, HoldsSlot, ChildSlots, ChildBytes, ChildIds, ChildPcs

-----------------------------------------------------------------------------
(* What the steps that work on the queue do, field by field. *)

PumpRefuses(kind) == IF Correlated(pump.req) THEN PumpAnswers(kind) ELSE PumpGoes("recv")
\* A queue that only changes its marks of cancellation and dispatch.
SameOwners ==
  /\ q'.owner = q.owner /\ q'.registered = q.registered /\ q'.inFlight = q.inFlight
\* Everything stop copied, and nothing else.
Snapshot(a) ==
  /\ SameOwners /\ q'.stopping /\ q'.dispatching = q.dispatching
  /\ \A i \in Ids : i \in q'.cancelled => i \in q.cancelled \/ q.owner[i] # NoReq
  /\ \A s \in Reqs : s \in toCancel'[a] <=> s \in q.registered \/ \E i \in Ids : q.owner[i] = s
  /\ \A b \in Actors : b # a => toCancel'[b] = toCancel[b]

LEMMA RefusalMoves ==
  ASSUME pump \in PumpType, NEW k \in Kinds, Refuse(pump.req, k) PROVE PumpRefuses(k)
BY PumpMoves, Names DEF Refuse, PumpRefuses

LEMMA SnapshotTaken ==
  ASSUME q \in QueueStates, toCancel \in [Actors -> SUBSET Reqs], NEW a \in Actors, StopBy(a)
  PROVE  Snapshot(a)
<1>1. q' = Stop(q) /\ toCancel' = [toCancel EXCEPT ![a] = StopSnapshot(q)]
  BY DEF StopBy
<1>2. /\ SameOwners /\ q'.stopping /\ q'.dispatching = q.dispatching
      /\ \A i \in Ids : i \in q'.cancelled => i \in q.cancelled \/ q.owner[i] # NoReq
  BY <1>1, StopMarks DEF SameOwners, SameCounters
<1>3. \A s \in Reqs : s \in StopSnapshot(q) <=> s \in q.registered \/ \E i \in Ids : q.owner[i] = s
  BY Sentinels DEF StopSnapshot, Reserved
<1>. QED BY <1>1, <1>2, <1>3 DEF Snapshot

LEMMA AdmitRequestEffect ==
  ASSUME IInv, AdmitRequest
  PROVE  /\ pump.pc = "admit" /\ pump.req \in Reqs /\ child[pump.req] = "idle"
         /\ Correlated(pump.req)
         /\ \/ /\ ~q.stopping /\ q.owner[IdOf[pump.req]] = NoReq
               /\ \E pc \in {"slot", "bytes"} : PumpGoes(pc)
               /\ q'.owner[IdOf[pump.req]] = pump.req
               /\ \A i \in Ids : i # IdOf[pump.req] => q'.owner[i] = q.owner[i]
               /\ q'.dispatching = q.dispatching /\ q'.cancelled = q.cancelled
               /\ q'.registered = q.registered /\ q'.stopping = q.stopping
               /\ q'.inFlight = q.inFlight
            \/ PumpAnswers("duplicate") /\ q' = q
         /\ UNCHANGED <<word, active, mailbox, writer, failed, child, outcome, worker, admission,
                        toCancel, next, replies, progress, accepted, lost>>
<1>1. q \in QueueStates /\ pump \in PumpType
  BY Types DEF IInv
<1>2. /\ pump.pc = "admit" /\ pump.req \in Reqs /\ child[pump.req] = "idle"
      /\ Correlated(pump.req) /\ IdOf[pump.req] \in Ids
  BY AtHand, SettingHolds
     DEF AdmitRequest, PumpAt, Hands, Attending, IInv, Custody, Stages, Correlated, Setting
<1>3. UNCHANGED <<word, active, mailbox, writer, failed, child, outcome, worker, admission,
                  toCancel, next, replies, progress, accepted, lost>>
  BY DEF AdmitRequest, channels, children, peer, wire
<1>4. CASE CanAdmit(q, pump.req) /\ q' = Admit(q, pump.req) /\ GoTo(IF Modern THEN "slot" ELSE "bytes")
  <2>1. \E pc \in {"slot", "bytes"} : PumpGoes(pc)
    BY <1>1, <1>4, PumpMoves, Names
  <2>. QED BY <1>1, <1>2, <1>3, <1>4, <2>1, AdmitOwns DEF CanAdmit, SameCounters
<1>5. CASE Answer("duplicate") /\ q' = q
  BY <1>1, <1>2, <1>3, <1>5, PumpMoves, Names
<1>. QED BY <1>4, <1>5 DEF AdmitRequest

LEMMA ReserveModernSlotEffect ==
  ASSUME IInv, ReserveModernSlot
  PROVE  /\ pump.pc = "slot" /\ pump.req \in Reqs /\ child[pump.req] = "idle"
         /\ \/ ~q.stopping /\ PumpGoes("bytes") /\ SameMarks(q, q')
            \/ PumpRefuses("overloaded") /\ Releases(q, q', pump.req)
         /\ UNCHANGED <<word, active, mailbox, writer, failed, child, outcome, worker, admission,
                        toCancel, next, replies, progress, accepted, lost>>
<1>1. q \in QueueStates /\ pump \in PumpType /\ Setting
  BY Types, SettingHolds DEF IInv
<1>2. pump.pc = "slot" /\ pump.req \in Reqs /\ child[pump.req] = "idle"
  BY AtHand DEF ReserveModernSlot, PumpAt, Hands, Attending
<1>3. UNCHANGED <<word, active, mailbox, writer, failed, child, outcome, worker, admission,
                  toCancel, next, replies, progress, accepted, lost>>
  BY DEF ReserveModernSlot, channels, children, peer, wire
<1>4. CASE CanReserveSlot(q) /\ q' = ReserveSlot(q) /\ GoTo("bytes")
  BY <1>1, <1>2, <1>3, <1>4, PumpMoves, SlotsMove, Names DEF CanReserveSlot
<1>5. CASE q' = Discard(q, pump.req) /\ Refuse(pump.req, "overloaded")
  BY <1>1, <1>2, <1>3, <1>5, RefusalMoves, DiscardReleases, Names
<1>. QED BY <1>4, <1>5 DEF ReserveModernSlot

LEMMA ReserveQueuedBytesEffect ==
  ASSUME IInv, ReserveQueuedBytes
  PROVE  /\ pump.pc = "bytes" /\ pump.req \in Reqs /\ child[pump.req] = "idle"
         /\ \/ /\ ~q.stopping /\ SameMarks(q, q')
               /\ \E pc \in {"register", "enqueue"} : PumpGoes(pc)
            \/ PumpRefuses("overloaded") /\ Releases(q, q', pump.req)
         /\ UNCHANGED <<word, active, mailbox, writer, failed, child, outcome, worker, admission,
                        toCancel, next, replies, progress, accepted, lost>>
<1>1. q \in QueueStates /\ pump \in PumpType /\ Setting
  BY Types, SettingHolds DEF IInv
<1>2. pump.pc = "bytes" /\ pump.req \in Reqs /\ child[pump.req] = "idle"
  BY AtHand DEF ReserveQueuedBytes, PumpAt, Hands, Attending
<1>3. UNCHANGED <<word, active, mailbox, writer, failed, child, outcome, worker, admission,
                  toCancel, next, replies, progress, accepted, lost>>
  BY DEF ReserveQueuedBytes, channels, children, peer, wire
<1>4. CASE /\ CanReserveBytes(q, pump.req) /\ q' = ReserveBytes(q, pump.req)
           /\ GoTo(IF Modern THEN "register" ELSE "enqueue")
  <2>1. \E pc \in {"register", "enqueue"} : PumpGoes(pc)
    BY <1>1, <1>4, PumpMoves, Names
  <2>. QED BY <1>1, <1>2, <1>3, <1>4, <2>1, BytesMove DEF CanReserveBytes
<1>5. CASE /\ q' = Discard(IF Modern THEN ReleaseSlot(q) ELSE q, pump.req)
           /\ Refuse(pump.req, "overloaded")
  <2>1. PICK p \in QueueStates : q' = Discard(p, pump.req) /\ SameMarks(q, p)
    BY <1>1, <1>5, SlotsMove DEF SameMarks
  <2>2. Releases(p, q', pump.req)
    BY <1>1, <1>2, <2>1, DiscardReleases
  <2>3. Releases(q, q', pump.req)
    BY <2>1, <2>2 DEF Releases, SameMarks
  <2>. QED BY <1>1, <1>2, <1>3, <1>5, <2>3, RefusalMoves, Names
<1>. QED BY <1>4, <1>5 DEF ReserveQueuedBytes

LEMMA RegisterChildEffect ==
  ASSUME IInv, RegisterChild
  PROVE  /\ pump.pc = "register" /\ pump.req \in Reqs /\ child[pump.req] = "idle"
         /\ PumpGoes("spawn")
         /\ q'.owner = q.owner /\ q'.dispatching = q.dispatching /\ q'.cancelled = q.cancelled
         /\ q'.stopping = q.stopping /\ q'.inFlight = q.inFlight
         /\ q'.registered = (IF q.stopping THEN q.registered ELSE q.registered \cup {pump.req})
         /\ word' \in [Reqs -> Words]
         /\ \A s \in Reqs : word'[s] = IF s = pump.req /\ q.stopping /\ word[s] = "active"
                                       THEN "cancelled" ELSE word[s]
         /\ UNCHANGED <<active, mailbox, writer, failed, child, outcome, worker, admission,
                        toCancel, next, replies, progress, accepted, lost>>
<1>1. q \in QueueStates /\ pump \in PumpType /\ word \in [Reqs -> Words]
  BY Types DEF IInv
<1>2. pump.pc = "register" /\ pump.req \in Reqs /\ child[pump.req] = "idle"
  BY AtHand DEF RegisterChild, PumpAt, Hands, Attending
<1>3. UNCHANGED <<active, mailbox, writer, failed, child, outcome, worker, admission,
                  toCancel, next, replies, progress, accepted, lost>>
  BY DEF RegisterChild, channels, children, peer, wire
<1>4. /\ q' = Register(q, pump.req) /\ GoTo("spawn")
      /\ word' = Cancel(word, RegisterCancels(q, pump.req))
  BY DEF RegisterChild
<1>5. PumpGoes("spawn")
  BY <1>1, <1>4, PumpMoves, Names
<1>6. /\ word' \in [Reqs -> Words]
      /\ \A s \in Reqs : word'[s] = IF s = pump.req /\ q.stopping /\ word[s] = "active"
                                    THEN "cancelled" ELSE word[s]
  BY <1>1, <1>4, WordsMove DEF RegisterCancels
<1>. QED BY <1>1, <1>2, <1>3, <1>4, <1>5, <1>6, RegistryMoves DEF SameCounters

LEMMA EnqueueEffect ==
  ASSUME IInv, Enqueue
  PROVE  /\ pump.pc = "enqueue" /\ pump.req \in Reqs /\ child[pump.req] = "idle"
         /\ \/ /\ q' = q /\ mailbox' = Append(mailbox, pump.req) /\ worker.pc # "gone"
               /\ IF Correlated(pump.req)
                  THEN admission' = admission /\ PumpGoes("bind")
                  ELSE /\ admission' = [admission EXCEPT ![pump.req] = "admitted"]
                       /\ PumpGoes("recv")
            \/ /\ Releases(q, q', pump.req) /\ q'.inFlight = q.inFlight
               /\ PumpRefuses("overloaded") \/ (worker.pc = "gone" /\ PumpGivesUp)
               /\ UNCHANGED <<mailbox, admission>>
         /\ UNCHANGED <<word, active, writer, failed, child, outcome, worker,
                        toCancel, next, replies, progress, accepted, lost>>
<1>1. q \in QueueStates /\ pump \in PumpType /\ Setting
  BY Types, SettingHolds DEF IInv
<1>2. pump.pc = "enqueue" /\ pump.req \in Reqs /\ child[pump.req] = "idle"
  BY AtHand DEF Enqueue, PumpAt, Hands, Attending
<1>3. UNCHANGED <<word, active, writer, failed, child, outcome, worker,
                  toCancel, next, replies, progress, accepted, lost>>
  BY DEF Enqueue, children, peer, wire
<1>4. CASE /\ mailbox' = Append(mailbox, pump.req) /\ q' = q /\ worker.pc # "gone"
           /\ IF Correlated(pump.req)
              THEN UNCHANGED admission /\ GoTo("bind")
              ELSE admission' = [admission EXCEPT ![pump.req] = "admitted"] /\ GoTo("recv")
  BY <1>1, <1>2, <1>3, <1>4, PumpMoves, Names
<1>5. CASE /\ q' = Discard(ReleaseBytes(q, pump.req), pump.req)
           /\ \/ Refuse(pump.req, "overloaded")
              \/ worker.pc = "gone" /\ pump' = [pump EXCEPT !.pc = "leave", !.exit = 1]
           /\ UNCHANGED <<mailbox, admission>>
  <2>1. PICK p \in QueueStates : /\ q' = Discard(p, pump.req) /\ SameMarks(q, p)
                                 /\ p.inFlight = q.inFlight
    BY <1>1, <1>2, <1>5, BytesMove
  <2>2. Releases(p, q', pump.req) /\ q'.inFlight = q.inFlight
    BY <1>1, <1>2, <2>1, DiscardReleases
  <2>3. Releases(q, q', pump.req)
    BY <2>1, <2>2 DEF Releases, SameMarks
  <2>4. PumpRefuses("overloaded") \/ (worker.pc = "gone" /\ PumpGivesUp)
    BY <1>1, <1>5, RefusalMoves, PumpQuits, Names
  <2>. QED BY <1>2, <1>3, <1>5, <2>2, <2>3, <2>4
<1>. QED BY <1>4, <1>5 DEF Enqueue

\* A cancellation of an id nobody owns is looked up; any other leaves the pump
\* in its loop, and reaches the owner of the id or nobody.
LEMMA ReceiveCancellationEffect ==
  ASSUME IInv, NEW i \in Ids, ReceiveCancellation(i)
  PROVE  /\ pump.pc = "recv" /\ (Modern => writer = Free)
         /\ SameOwners /\ q'.dispatching = q.dispatching /\ q'.stopping = q.stopping
         /\ \A j \in Ids : j \in q'.cancelled =>
              j \in q.cancelled \/ (j = i /\ q.owner[i] # NoReq /\ i \notin q.dispatching)
         /\ \/ /\ q.owner[i] = NoReq /\ UNCHANGED <<word, accepted>>
               /\ pump'.pc = "lookup" /\ pump'.target = i /\ pump'.req = pump.req
               /\ pump'.reply = pump.reply /\ KeepsEnd
               /\ writer' = IF Modern THEN Pump ELSE writer
            \/ /\ q.owner[i] \in Reqs /\ word[q.owner[i]] = "active"
               /\ accepted' = accepted \cup {q.owner[i]} /\ word' \in [Reqs -> Words]
               /\ \A s \in Reqs : word'[s] = IF s = q.owner[i] THEN "cancelled" ELSE word[s]
               /\ UNCHANGED <<pump, writer>>
            \/ /\ q.owner[i] \in Reqs /\ (word[q.owner[i]] # "active" \/ q'.cancelled = q.cancelled)
               /\ UNCHANGED <<word, accepted, pump, writer>>
         /\ UNCHANGED <<active, mailbox, failed, child, outcome, worker, admission,
                        toCancel, next, replies, progress, lost>>
<1>1. q \in QueueStates /\ pump \in PumpType /\ word \in [Reqs -> Words] /\ accepted \subseteq Reqs
  BY Types DEF IInv
<1>2. /\ pump.pc = "recv" /\ (Modern => writer = Free)
      /\ q' = CancelReserved(q, i) /\ word' = CancelReservedWords(q, word, i)
      /\ accepted' = IF Disposition(q, word, i) = "accepted"
                     THEN accepted \cup {q.owner[i]} ELSE accepted
      /\ IF Disposition(q, word, i) = "not_owned"
         THEN /\ writer' = IF Modern THEN Pump ELSE writer
              /\ pump' = [pump EXCEPT !.pc = "lookup", !.target = i]
         ELSE UNCHANGED <<writer, pump>>
      /\ UNCHANGED <<active, mailbox, failed, child, outcome, worker, admission,
                     toCancel, next, replies, progress, lost>>
  BY DEF ReceiveCancellation, PumpAt, children, wire
<1>3. /\ SameOwners /\ q'.dispatching = q.dispatching /\ q'.stopping = q.stopping
      /\ \A j \in Ids : j \in q'.cancelled =>
           j \in q.cancelled \/ (j = i /\ q.owner[i] # NoReq /\ i \notin q.dispatching)
  BY <1>1, <1>2, CancelMarks DEF SameOwners, SameCounters
<1>4. CASE q.owner[i] = NoReq
  <2>1. Disposition(q, word, i) = "not_owned"
    BY <1>4 DEF Disposition, Reserved
  <2>2. /\ pump'.pc = "lookup" /\ pump'.target = i /\ pump'.req = pump.req
        /\ pump'.reply = pump.reply /\ KeepsEnd
    BY <1>1, <1>2, <2>1 DEF PumpType, KeepsEnd
  <2>. QED BY <1>2, <1>3, <1>4, <2>1, <2>2 DEF CancelReservedWords
<1>5. CASE q.owner[i] # NoReq /\ i \notin q.protected /\ word[q.owner[i]] = "active"
  <2>1. Disposition(q, word, i) = "accepted" /\ q.owner[i] \in Reqs
    BY <1>1, <1>5 DEF Disposition, Reserved, QueueStates
  <2>2. /\ word' \in [Reqs -> Words]
        /\ \A s \in Reqs : word'[s] = IF s = q.owner[i] THEN "cancelled" ELSE word[s]
    BY <1>1, <1>2, <1>5, <2>1, WordsMove DEF CancelReservedWords
  <2>. QED BY <1>2, <1>3, <1>5, <2>1, <2>2
<1>6. CASE q.owner[i] # NoReq /\ (i \in q.protected \/ word[q.owner[i]] # "active")
  <2>1. Disposition(q, word, i) \in {"protected", "already_settled"} /\ q.owner[i] \in Reqs
    BY <1>1, <1>6 DEF Disposition, Reserved, QueueStates
  <2>2. word[q.owner[i]] # "active" \/ q'.cancelled = q.cancelled
    BY <1>2, <1>6 DEF CancelReserved
  <2>. QED BY <1>2, <1>3, <2>1, <2>2 DEF CancelReservedWords
<1>. QED BY <1>4, <1>5, <1>6

LEMMA PumpStopEffect ==
  ASSUME IInv, PumpStop
  PROVE  /\ pump.pc = "stop" /\ PumpGoes("active") /\ Snapshot(Pump)
         /\ UNCHANGED <<word, active, mailbox, writer, failed, child, outcome, worker, admission,
                        next, replies, progress, accepted, lost>>
<1>1. q \in QueueStates /\ pump \in PumpType /\ toCancel \in [Actors -> SUBSET Reqs]
  BY Types DEF IInv
<1>2. PumpGoes("active")
  BY <1>1, PumpMoves, Names DEF PumpStop
<1>3. Snapshot(Pump)
  BY <1>1, SnapshotTaken DEF PumpStop, Actors
<1>. QED BY <1>2, <1>3 DEF PumpStop, PumpAt, channels, children, peer, wire

LEMMA ChildStopEffect ==
  ASSUME IInv, NEW r \in Reqs, ChildStop(r)
  PROVE  /\ child[r] = "stop" /\ ChildMoves(r, "discard") /\ Snapshot(r)
         /\ UNCHANGED <<word, active, mailbox, writer, failed, pump, outcome, worker, admission,
                        next, replies, progress, accepted, lost>>
<1>1. /\ q \in QueueStates /\ child \in [Reqs -> ChildPcs]
      /\ toCancel \in [Actors -> SUBSET Reqs]
  BY Types DEF IInv
<1>2. ChildMoves(r, "discard")
  BY <1>1, ChildMovesOn, Names DEF ChildStop
<1>3. Snapshot(r)
  BY <1>1, SnapshotTaken DEF ChildStop, Actors
<1>. QED BY <1>2, <1>3 DEF ChildStop, ChildAt, channels, peer, wire

LEMMA WorkerStopEffect ==
  ASSUME IInv, WorkerStop
  PROVE  /\ worker.pc = "stop" /\ WorkerMoves("stopped") /\ Snapshot(Worker)
         /\ UNCHANGED <<word, active, mailbox, writer, failed, pump, child, outcome, admission,
                        next, replies, progress, accepted, lost>>
<1>1. q \in QueueStates /\ worker \in WorkerType /\ toCancel \in [Actors -> SUBSET Reqs]
  BY Types DEF IInv
<1>2. WorkerMoves("stopped")
  BY <1>1, WorkerMovesOn, Names DEF WorkerStop
<1>3. Snapshot(Worker)
  BY <1>1, SnapshotTaken DEF WorkerStop, Actors
<1>. QED BY <1>2, <1>3 DEF WorkerStop, WorkerAt, channels, children, peer, wire

LEMMA ChildStartEffect ==
  ASSUME IInv, NEW r \in Reqs, ChildStart(r)
  PROVE  /\ child[r] = "guarded" /\ SameOwners /\ q'.stopping = q.stopping
         /\ \/ /\ q' = q /\ q.stopping /\ ChildMoves(r, "unguard")
               /\ outcome' = [outcome EXCEPT ![r] = "ok"]
            \/ /\ ~q.stopping /\ outcome' = outcome
               /\ Correlated(r) => IdOf[r] \in q'.dispatching
               /\ q.dispatching \subseteq q'.dispatching /\ q'.cancelled \subseteq q.cancelled
               /\ \/ Correlated(r) /\ IdOf[r] \in q.cancelled /\ ChildMoves(r, "start_cancelled")
                  \/ ~(Correlated(r) /\ IdOf[r] \in q.cancelled) /\ ChildMoves(r, "running")
         /\ UNCHANGED <<word, active, mailbox, writer, failed, pump, worker, admission,
                        toCancel, next, replies, progress, accepted, lost>>
<1>1. q \in QueueStates /\ child \in [Reqs -> ChildPcs]
  BY Types DEF IInv
<1>2. /\ child[r] = "guarded"
      /\ UNCHANGED <<word, active, mailbox, writer, failed, pump, worker, admission,
                     toCancel, next, replies, progress, accepted, lost>>
  BY DEF ChildStart, ChildAt, channels, peer, wire
<1>3. CASE q.stopping
  <2>1. q' = q /\ ChildGoes(r, "unguard") /\ outcome' = [outcome EXCEPT ![r] = "ok"]
    BY <1>3 DEF ChildStart, BeginModernDispatch, ModernStart
  <2>. QED BY <1>1, <1>2, <1>3, <2>1, ChildMovesOn, Names DEF SameOwners
<1>4. CASE ~q.stopping
  <2>1. /\ q' = BeginDispatch(q, r) /\ outcome' = outcome
        /\ \/ Correlated(r) /\ IdOf[r] \in q.cancelled /\ ChildGoes(r, "start_cancelled")
           \/ ~(Correlated(r) /\ IdOf[r] \in q.cancelled) /\ ChildGoes(r, "running")
    BY <1>4 DEF ChildStart, BeginModernDispatch, ModernStart
  <2>2. /\ SameOwners /\ q'.stopping = q.stopping
        /\ Correlated(r) => IdOf[r] \in q'.dispatching
        /\ q.dispatching \subseteq q'.dispatching /\ q'.cancelled \subseteq q.cancelled
    BY <1>1, <2>1, DispatchMarks DEF SameOwners, SameCounters
  <2>3. \/ Correlated(r) /\ IdOf[r] \in q.cancelled /\ ChildMoves(r, "start_cancelled")
        \/ ~(Correlated(r) /\ IdOf[r] \in q.cancelled) /\ ChildMoves(r, "running")
    BY <1>1, <2>1, ChildMovesOn, Names
  <2>. QED BY <1>2, <1>4, <2>1, <2>2, <2>3
<1>. QED BY <1>3, <1>4

LEMMA ReleaseReservationEffect ==
  ASSUME IInv, NEW r \in Reqs, ReleaseReservation(r)
  PROVE  /\ toCancel[r] = {}
         /\ \/ /\ child[r] = "discard" /\ ChildMoves(r, "unregister")
               /\ Releases(q, q', r) /\ q'.inFlight = q.inFlight
            \/ /\ child[r] = "unregister" /\ ChildMoves(r, "bytes")
               /\ q'.owner = q.owner /\ q'.dispatching = q.dispatching
               /\ q'.cancelled = q.cancelled /\ q'.stopping = q.stopping
               /\ q'.registered = q.registered \ {r} /\ q'.inFlight = q.inFlight
            \/ /\ child[r] = "bytes" /\ ChildMoves(r, "slot")
               /\ SameMarks(q, q') /\ q'.inFlight = q.inFlight
            \/ child[r] = "slot" /\ ChildMoves(r, "gone") /\ SameMarks(q, q')
         /\ UNCHANGED <<word, active, mailbox, writer, failed, pump, outcome, worker, admission,
                        toCancel, next, replies, progress, accepted, lost>>
<1>1. q \in QueueStates /\ child \in [Reqs -> ChildPcs] /\ Setting
  BY Types, SettingHolds DEF IInv
<1>2. /\ toCancel[r] = {}
      /\ UNCHANGED <<word, active, mailbox, writer, failed, pump, outcome, worker, admission,
                     toCancel, next, replies, progress, accepted, lost>>
  BY DEF ReleaseReservation, channels, peer, wire
<1>3. CASE child[r] = "discard" /\ q' = Discard(q, r) /\ ChildGoes(r, "unregister")
  BY <1>1, <1>2, <1>3, DiscardReleases, ChildMovesOn, Names
<1>4. CASE child[r] = "unregister" /\ q' = Unregister(q, r) /\ ChildGoes(r, "bytes")
  BY <1>1, <1>2, <1>4, RegistryMoves, ChildMovesOn, Names DEF SameCounters
<1>5. CASE child[r] = "bytes" /\ q' = ReleaseBytes(q, r) /\ ChildGoes(r, "slot")
  BY <1>1, <1>2, <1>5, BytesMove, ChildMovesOn, Names
<1>6. CASE child[r] = "slot" /\ q' = ReleaseSlot(q) /\ ChildGoes(r, "gone")
  BY <1>1, <1>2, <1>6, SlotsMove, ChildMovesOn, Names
<1>. QED BY <1>3, <1>4, <1>5, <1>6 DEF ReleaseReservation, ChildAt

LEMMA WorkerReleaseBytesEffect ==
  ASSUME IInv, WorkerReleaseBytes
  PROVE  /\ worker.pc = "taken" /\ worker.job \in Reqs /\ WorkerMoves("waiting")
         /\ SameMarks(q, q') /\ q'.inFlight = q.inFlight
         /\ UNCHANGED <<word, active, mailbox, writer, failed, pump, child, outcome, admission,
                        toCancel, next, replies, progress, accepted, lost>>
<1>1. q \in QueueStates /\ worker \in WorkerType /\ Setting
  BY Types, SettingHolds DEF IInv
<1>2. worker.pc = "taken" /\ worker.job \in Reqs
  BY AtHand DEF WorkerReleaseBytes, WorkerAt, Busy
<1>3. WorkerMoves("waiting")
  BY <1>1, WorkerMovesOn, Names DEF WorkerReleaseBytes
<1>4. SameMarks(q, q') /\ q'.inFlight = q.inFlight
  BY <1>1, <1>2, BytesMove DEF WorkerReleaseBytes, Job
<1>. QED BY <1>2, <1>3, <1>4 DEF WorkerReleaseBytes, channels, children, peer, wire

LEMMA WorkerAdmittedEffect ==
  ASSUME IInv, WorkerAdmitted
  PROVE  /\ worker.pc = "waiting" /\ worker.job \in Reqs
         /\ \/ admission[worker.job] = "admitted" /\ WorkerMoves("begin") /\ q' = q
            \/ /\ Releases(q, q', worker.job) /\ q'.inFlight = q.inFlight
               /\ \/ admission[worker.job] = "rejected" /\ WorkerMoves("idle")
                  \/ admission[worker.job] = "pending" /\ WorkerEnds(FALSE)
         /\ UNCHANGED <<word, active, mailbox, writer, failed, pump, child, outcome, admission,
                        toCancel, next, replies, progress, accepted, lost>>
<1>1. q \in QueueStates /\ worker \in WorkerType /\ Setting
  BY Types, SettingHolds DEF IInv
<1>2. worker.pc = "waiting" /\ worker.job \in Reqs
  BY AtHand DEF WorkerAdmitted, WorkerAt, Busy
<1>3. UNCHANGED <<word, active, mailbox, writer, failed, pump, child, outcome, admission,
                  toCancel, next, replies, progress, accepted, lost>>
  BY DEF WorkerAdmitted, channels, children, peer, wire
<1>4. CASE admission[worker.job] = "admitted" /\ WorkerGoes("begin") /\ q' = q
  BY <1>1, <1>2, <1>3, <1>4, WorkerMovesOn, Names
<1>5. CASE /\ q' = Discard(q, worker.job)
           /\ \/ admission[worker.job] = "rejected" /\ WorkerGoes("idle")
              \/ admission[worker.job] = "pending" /\ Leave(FALSE)
  <2>1. Releases(q, q', worker.job) /\ q'.inFlight = q.inFlight
    BY <1>1, <1>2, <1>5, DiscardReleases
  <2>2. \/ admission[worker.job] = "rejected" /\ WorkerMoves("idle")
        \/ admission[worker.job] = "pending" /\ WorkerEnds(FALSE)
    BY <1>1, <1>5, WorkerMovesOn, Names
  <2>. QED BY <1>2, <1>3, <2>1, <2>2
<1>. QED BY <1>4, <1>5 DEF WorkerAdmitted, Job

LEMMA WorkerBeginEffect ==
  ASSUME IInv, WorkerBegin
  PROVE  /\ worker.pc = "begin" /\ worker.job \in Reqs
         /\ worker'.pc = "check" /\ worker'.job = worker.job
         /\ worker'.dropped = (Correlated(worker.job) /\ (IdOf[worker.job] \in q.cancelled \/ q.stopping))
         /\ SameOwners /\ q'.stopping = q.stopping
         /\ Correlated(worker.job) => IdOf[worker.job] \in q'.dispatching
         /\ q.dispatching \subseteq q'.dispatching /\ q'.cancelled \subseteq q.cancelled
         /\ UNCHANGED <<word, active, mailbox, writer, failed, pump, child, outcome, admission,
                        toCancel, next, replies, progress, accepted, lost>>
<1>1. q \in QueueStates /\ worker \in WorkerType
  BY Types DEF IInv
<1>2. worker.pc = "begin" /\ worker.job \in Reqs
  BY AtHand DEF WorkerBegin, WorkerAt, Busy
<1>3. /\ worker'.pc = "check" /\ worker'.job = worker.job
      /\ worker'.dropped = (Correlated(worker.job) /\ (IdOf[worker.job] \in q.cancelled \/ q.stopping))
  BY <1>1 DEF WorkerBegin, WorkerType, CancelledBeforeDispatch, Job
<1>4. q' = BeginDispatch(q, worker.job)
  BY DEF WorkerBegin, Job
<1>5. /\ SameOwners /\ q'.stopping = q.stopping
      /\ Correlated(worker.job) => IdOf[worker.job] \in q'.dispatching
      /\ q.dispatching \subseteq q'.dispatching /\ q'.cancelled \subseteq q.cancelled
  BY <1>1, <1>2, <1>4, DispatchMarks DEF SameOwners, SameCounters
<1>. QED BY <1>2, <1>3, <1>5 DEF WorkerBegin, channels, children, peer, wire

LEMMA WorkerCheckEffect ==
  ASSUME IInv, WorkerCheck
  PROVE  /\ worker.pc = "check" /\ worker.job \in Reqs
         /\ \/ /\ Releases(q, q', worker.job) /\ q'.inFlight = q.inFlight
               /\ \/ q.stopping /\ WorkerEnds(TRUE)
                  \/ ~q.stopping /\ worker.dropped /\ WorkerMoves("idle")
            \/ ~q.stopping /\ ~worker.dropped /\ WorkerMoves("handle") /\ q' = q
         /\ UNCHANGED <<word, active, mailbox, writer, failed, pump, child, outcome, admission,
                        toCancel, next, replies, progress, accepted, lost>>
<1>1. q \in QueueStates /\ worker \in WorkerType /\ Setting
  BY Types, SettingHolds DEF IInv
<1>2. worker.pc = "check" /\ worker.job \in Reqs
  BY AtHand DEF WorkerCheck, WorkerAt, Busy
<1>3. UNCHANGED <<word, active, mailbox, writer, failed, pump, child, outcome, admission,
                  toCancel, next, replies, progress, accepted, lost>>
  BY DEF WorkerCheck, channels, children, peer, wire
<1>4. CASE /\ q' = Discard(q, worker.job)
           /\ \/ q.stopping /\ Leave(TRUE)
              \/ ~q.stopping /\ worker.dropped /\ WorkerGoes("idle")
  <2>1. Releases(q, q', worker.job) /\ q'.inFlight = q.inFlight
    BY <1>1, <1>2, <1>4, DiscardReleases
  <2>2. \/ q.stopping /\ WorkerEnds(TRUE)
        \/ ~q.stopping /\ worker.dropped /\ WorkerMoves("idle")
    BY <1>1, <1>4, WorkerMovesOn, Names
  <2>. QED BY <1>2, <1>3, <2>1, <2>2
<1>5. CASE ~q.stopping /\ ~worker.dropped /\ WorkerGoes("handle") /\ q' = q
  BY <1>1, <1>2, <1>3, <1>5, WorkerMovesOn, Names
<1>. QED BY <1>4, <1>5 DEF WorkerCheck, Job

LEMMA WorkerHandleEffect ==
  ASSUME IInv, WorkerHandle
  PROVE  /\ worker.pc = "handle" /\ worker.job \in Reqs
         /\ \/ ~Correlated(worker.job) /\ WorkerMoves("idle") /\ UNCHANGED <<q, active>>
            \/ /\ Correlated(worker.job) /\ UNCHANGED <<q, active>>
               /\ worker.job \in Untracked \/ active[IdOf[worker.job]] # NoReq
               /\ worker'.pc = "respond" /\ worker'.job = worker.job
               /\ worker'.kind = IF worker.job \in Untracked THEN "ok" ELSE "duplicate"
            \/ /\ Correlated(worker.job) /\ worker.job \notin Untracked /\ q' = q
               /\ active[IdOf[worker.job]] = NoReq
               /\ active' = [active EXCEPT ![IdOf[worker.job]] = worker.job]
               /\ WorkerMoves("running")
            \/ /\ Releases(q, q', worker.job) /\ q'.inFlight = q.inFlight
               /\ WorkerEnds(FALSE) /\ UNCHANGED active
         /\ UNCHANGED <<word, mailbox, writer, failed, pump, child, outcome, admission,
                        toCancel, next, replies, progress, accepted, lost>>
<1>1. q \in QueueStates /\ worker \in WorkerType /\ Setting
  BY Types, SettingHolds DEF IInv
<1>2. worker.pc = "handle" /\ worker.job \in Reqs
  BY AtHand DEF WorkerHandle, WorkerAt, Busy
<1>3. UNCHANGED <<word, mailbox, writer, failed, pump, child, outcome, admission,
                  toCancel, next, replies, progress, accepted, lost>>
  BY DEF WorkerHandle, channels, children, peer, wire
<1>4. CASE ~Correlated(worker.job) /\ WorkerGoes("idle") /\ UNCHANGED <<q, active>>
  BY <1>1, <1>2, <1>3, <1>4, WorkerMovesOn, Names
<1>5. CASE /\ Correlated(worker.job) /\ UNCHANGED <<q, active>>
           /\ worker.job \in Untracked \/ active[IdOf[worker.job]] # NoReq
           /\ worker' = [worker EXCEPT !.pc = "respond", !.kind =
                           IF worker.job \in Untracked THEN "ok" ELSE "duplicate"]
  <2>1. /\ worker'.pc = "respond" /\ worker'.job = worker.job
        /\ worker'.kind = IF worker.job \in Untracked THEN "ok" ELSE "duplicate"
    BY <1>1, <1>5 DEF WorkerType
  <2>. QED BY <1>2, <1>3, <1>5, <2>1
<1>6. CASE /\ Correlated(worker.job) /\ worker.job \notin Untracked /\ active[IdOf[worker.job]] = NoReq
           /\ active' = [active EXCEPT ![IdOf[worker.job]] = worker.job]
           /\ WorkerGoes("running") /\ q' = q
  BY <1>1, <1>2, <1>3, <1>6, WorkerMovesOn, Names
<1>7. CASE q' = Discard(q, worker.job) /\ Leave(FALSE) /\ UNCHANGED active
  BY <1>1, <1>2, <1>3, <1>7, WorkerMovesOn, DiscardReleases, Names
<1>. QED BY <1>4, <1>5, <1>6, <1>7 DEF WorkerHandle, Job

LEMMA WorkerDiscardEffect ==
  ASSUME IInv, WorkerDiscard
  PROVE  /\ worker.pc = "discard" /\ worker.job \in Reqs
         /\ Releases(q, q', worker.job) /\ q'.inFlight = q.inFlight
         /\ \/ worker.sent = "ok" /\ WorkerMoves("idle")
            \/ /\ worker.sent = "cancelled" /\ worker'.pc = "stop" /\ worker'.clean
               /\ worker'.job = worker.job
            \/ worker.sent = "failed" /\ WorkerEnds(FALSE)
         /\ UNCHANGED <<word, active, mailbox, writer, failed, pump, child, outcome, admission,
                        toCancel, next, replies, progress, accepted, lost>>
<1>1. q \in QueueStates /\ worker \in WorkerType /\ Setting
  BY Types, SettingHolds DEF IInv
<1>2. worker.pc = "discard" /\ worker.job \in Reqs
  BY AtHand DEF WorkerDiscard, WorkerAt, Busy
<1>3. UNCHANGED <<word, active, mailbox, writer, failed, pump, child, outcome, admission,
                  toCancel, next, replies, progress, accepted, lost>>
  BY DEF WorkerDiscard, channels, children, peer, wire
<1>4. Releases(q, q', worker.job) /\ q'.inFlight = q.inFlight
  BY <1>1, <1>2, DiscardReleases DEF WorkerDiscard, Job
<1>5. CASE worker.sent = "ok"
  BY <1>1, <1>2, <1>3, <1>4, <1>5, WorkerMovesOn, Names DEF WorkerDiscard
<1>6. CASE worker.sent = "cancelled"
  <2>1. worker' = [worker EXCEPT !.pc = "stop", !.clean = TRUE]
    BY <1>6 DEF WorkerDiscard
  <2>. QED BY <1>1, <1>2, <1>3, <1>4, <1>6, <2>1 DEF WorkerType
<1>7. CASE worker.sent = "failed"
  <2>1. Leave(FALSE)
    BY <1>7 DEF WorkerDiscard
  <2>. QED BY <1>1, <1>2, <1>3, <1>4, <1>7, <2>1, WorkerMovesOn, Names
<1>. QED BY <1>1, <1>5, <1>6, <1>7 DEF WorkerType

-----------------------------------------------------------------------------
(* What the other steps of the pump do, and the steps that write an answer. *)

\* One more answer of r, and of nobody else.
Answers(r) ==
  /\ Len(replies'[r]) = Len(replies[r]) + 1
  /\ \A s \in Reqs : s # r => replies'[s] = replies[s]

LEMMA AnswerIsOneMore ==
  ASSUME replies \in [Reqs -> Seq(Kinds)], NEW r \in Reqs, NEW k \in Kinds,
         replies' = [replies EXCEPT ![r] = Append(@, k)]
  PROVE  Answers(r)
<1>1. replies[r] \in Seq(Kinds) /\ replies'[r] = Append(replies[r], k)
  OBVIOUS
<1>2. Len(replies'[r]) = Len(replies[r]) + 1
  BY <1>1
<1>. QED BY <1>2 DEF Answers

LEMMA CheckActiveEffect ==
  ASSUME IInv, CheckActive
  PROVE  /\ pump.pc = "check" /\ pump.req \in Reqs
         /\ PumpAnswers("duplicate") \/ PumpGoes("admit")
         /\ UNCHANGED <<q, word, active, mailbox, writer, failed, child, outcome, worker,
                        admission, toCancel, next, replies, progress, accepted, lost>>
<1>1. pump \in PumpType /\ pump.pc = "check" /\ pump.req \in Reqs
  BY Types, AtHand DEF IInv, CheckActive, PumpAt, Hands, Attending
<1>2. Answer("duplicate") \/ GoTo("admit")
  BY DEF CheckActive
<1>3. UNCHANGED <<q, word, active, mailbox, writer, failed, child, outcome, worker,
                  admission, toCancel, next, replies, progress, accepted, lost>>
  BY DEF CheckActive, requests, channels, children, peer, wire
<1>. QED BY <1>1, <1>2, <1>3, PumpMoves, Names

LEMMA SpawnEffect ==
  ASSUME IInv, Spawn
  PROVE  /\ pump.pc = "spawn" /\ pump.req \in Reqs /\ child[pump.req] = "idle"
         /\ ChildMoves(pump.req, "waiting")
         /\ IF Correlated(pump.req)
            THEN admission' = admission /\ PumpGoes("bind")
            ELSE /\ admission' = [admission EXCEPT ![pump.req] = "admitted"]
                 /\ PumpGoes("recv")
         /\ UNCHANGED <<q, word, active, mailbox, writer, failed, outcome, worker,
                        toCancel, next, replies, progress, accepted, lost>>
<1>1. /\ pump \in PumpType /\ child \in [Reqs -> ChildPcs]
      /\ pump.pc = "spawn" /\ pump.req \in Reqs /\ child[pump.req] = "idle"
  BY Types, AtHand DEF IInv, Spawn, PumpAt, Hands, Attending
<1>2. ChildMoves(pump.req, "waiting")
  BY <1>1, ChildMovesOn, Names DEF Spawn, ChildGoes
<1>3. IF Correlated(pump.req)
      THEN admission' = admission /\ PumpGoes("bind")
      ELSE admission' = [admission EXCEPT ![pump.req] = "admitted"] /\ PumpGoes("recv")
  BY <1>1, PumpMoves, Names DEF Spawn
<1>4. UNCHANGED <<q, word, active, mailbox, writer, failed, outcome, worker,
                  toCancel, next, replies, progress, accepted, lost>>
  BY DEF Spawn, requests, channels, peer, wire
<1>. QED BY <1>1, <1>2, <1>3, <1>4

LEMMA SpawnRefusedEffect ==
  ASSUME IInv, SpawnRefused
  PROVE  /\ pump.pc = "spawn" /\ pump.req \in Reqs /\ child[pump.req] = "idle"
         /\ ChildMoves(pump.req, "discard") /\ PumpGoes("refused")
         /\ UNCHANGED <<q, word, active, mailbox, writer, failed, outcome, worker, admission,
                        toCancel, next, replies, progress, accepted, lost>>
<1>1. /\ pump \in PumpType /\ child \in [Reqs -> ChildPcs]
      /\ pump.pc = "spawn" /\ pump.req \in Reqs /\ child[pump.req] = "idle"
  BY Types, AtHand DEF IInv, SpawnRefused, PumpAt, Hands, Attending
<1>2. ChildMoves(pump.req, "discard") /\ PumpGoes("refused")
  BY <1>1, ChildMovesOn, PumpMoves, Names DEF SpawnRefused, ChildGoes
<1>3. UNCHANGED <<q, word, active, mailbox, writer, failed, outcome, worker, admission,
                  toCancel, next, replies, progress, accepted, lost>>
  BY DEF SpawnRefused, requests, channels, peer, wire
<1>. QED BY <1>1, <1>2, <1>3

LEMMA RefusedDroppedEffect ==
  ASSUME IInv, RefusedDropped
  PROVE  /\ pump.pc = "refused" /\ pump.req \in Reqs /\ child[pump.req] = "gone"
         /\ PumpRefuses("unavailable")
         /\ UNCHANGED <<q, word, active, mailbox, writer, failed, child, outcome, worker,
                        admission, toCancel, next, replies, progress, accepted, lost>>
<1>1. pump \in PumpType /\ pump.pc = "refused" /\ pump.req \in Reqs
  BY Types, AtHand DEF IInv, RefusedDropped, PumpAt, Attending
<1>2. child[pump.req] = "gone" /\ PumpRefuses("unavailable")
  BY <1>1, RefusalMoves, Names DEF RefusedDropped
<1>3. UNCHANGED <<q, word, active, mailbox, writer, failed, child, outcome, worker,
                  admission, toCancel, next, replies, progress, accepted, lost>>
  BY DEF RefusedDropped, requests, channels, children, peer, wire
<1>. QED BY <1>1, <1>2, <1>3

LEMMA BindPrincipalEffect ==
  ASSUME IInv, BindPrincipal
  PROVE  /\ pump.pc = "bind" /\ pump.req \in Reqs
         /\ \/ admission' = [admission EXCEPT ![pump.req] = "admitted"] /\ PumpGoes("recv")
            \/ /\ admission' = [admission EXCEPT ![pump.req] = "rejected"]
               /\ PumpAnswers("rejected")
         /\ UNCHANGED <<q, word, active, mailbox, writer, failed, child, outcome, worker,
                        toCancel, next, replies, progress, accepted, lost>>
<1>1. pump \in PumpType /\ pump.pc = "bind" /\ pump.req \in Reqs
  BY Types, AtHand DEF IInv, BindPrincipal, PumpAt, Attending
<1>2. \/ admission' = [admission EXCEPT ![pump.req] = "admitted"] /\ GoTo("recv")
      \/ admission' = [admission EXCEPT ![pump.req] = "rejected"] /\ Answer("rejected")
  BY DEF BindPrincipal
<1>3. UNCHANGED <<q, word, active, mailbox, writer, failed, child, outcome, worker,
                  toCancel, next, replies, progress, accepted, lost>>
  BY DEF BindPrincipal, requests, channels, children, peer, wire
<1>. QED BY <1>1, <1>2, <1>3, PumpMoves, Names

LEMMA PumpReplyEffect ==
  ASSUME IInv, PumpReply
  PROVE  /\ pump.pc = "reply" /\ pump.req \in Reqs /\ writer = Free
         /\ \/ Answers(pump.req) /\ PumpGoes("recv")
            \/ replies' = replies /\ PumpGivesUp
         /\ UNCHANGED <<q, word, active, mailbox, writer, failed, child, outcome, worker,
                        admission, toCancel, next, progress, accepted, lost>>
<1>1. /\ pump \in PumpType /\ pump.pc = "reply" /\ pump.req \in Reqs /\ writer = Free
      /\ replies \in [Reqs -> Seq(Kinds)] /\ pump.reply \in Kinds
  BY Types, AtHand DEF IInv, PumpReply, PumpAt, Attending, PumpType
<1>2. UNCHANGED <<q, word, active, mailbox, writer, failed, child, outcome, worker,
                  admission, toCancel, next, progress, accepted, lost>>
  BY DEF PumpReply, requests, channels, children
<1>3. CASE replies' = [replies EXCEPT ![pump.req] = Append(@, pump.reply)] /\ GoTo("recv")
  BY <1>1, <1>2, <1>3, AnswerIsOneMore, PumpMoves, Names
<1>4. CASE pump' = [pump EXCEPT !.pc = "leave", !.exit = 1] /\ replies' = replies
  BY <1>1, <1>2, <1>4, PumpQuits
<1>. QED BY <1>3, <1>4 DEF PumpReply

LEMMA ReceiveLegacyResponseEffect ==
  ASSUME IInv, ReceiveLegacyResponse
  PROVE  /\ pump.pc = "recv" /\ ~Modern
         /\ \/ pump' = pump /\ \A s \in Reqs : s \in Queued' <=> s \in Queued
            \/ PumpGivesUp /\ mailbox' = mailbox
         /\ UNCHANGED <<q, word, active, writer, failed, child, outcome, worker, admission,
                        toCancel, next, replies, progress, accepted, lost>>
<1>1. /\ pump \in PumpType /\ mailbox \in Seq(Letters) /\ Distinct
      /\ pump.pc = "recv" /\ ~Modern
  BY Types DEF IInv, ReceiveLegacyResponse, PumpAt, Letters, Distinct, Custody, Mail
<1>2. UNCHANGED <<q, word, active, writer, failed, child, outcome, worker, admission,
                  toCancel, next, replies, progress, accepted, lost>>
  BY DEF ReceiveLegacyResponse, requests, children, peer, wire
<1>3. CASE mailbox' = Append(mailbox, Response) /\ pump' = pump
  <2>1. Response \in Letters /\ Response \notin Queued /\ \A s \in Reqs : s # Response
    BY Sentinels DEF Letters, Queued
  <2>2. \A s \in Reqs : s \in Queued' <=> s \in Queued \/ s = Response
    BY <1>1, <1>3, <2>1, Posted
  <2>. QED BY <1>1, <1>2, <1>3, <2>1, <2>2
<1>4. CASE pump' = [pump EXCEPT !.pc = "leave", !.exit = 1] /\ mailbox' = mailbox
  BY <1>1, <1>2, <1>4, PumpQuits
<1>. QED BY <1>3, <1>4 DEF ReceiveLegacyResponse

\* The steps of the shutdown, which leave everybody else alone.
PumpSteps(pc, then) == pump.pc \in pc /\ pump'.pc \in then /\ pump'.req = pump.req
OnlyThePump ==
  UNCHANGED <<q, word, active, mailbox, writer, failed, child, outcome, worker, admission,
              toCancel, next, replies, progress, accepted, lost>>

LEMMA WorkerFailureSeenEffect ==
  ASSUME IInv, WorkerFailureSeen PROVE pump.pc = "recv" /\ failed /\ PumpGivesUp /\ OnlyThePump
<1>1. pump \in PumpType
  BY Types DEF IInv
<1>2. pump.pc = "recv" /\ failed /\ PumpGivesUp
  BY <1>1, PumpQuits DEF WorkerFailureSeen, PumpAt
<1>3. OnlyThePump
  BY DEF WorkerFailureSeen, OnlyThePump, requests, channels, children, peer, wire
<1>. QED BY <1>2, <1>3

LEMMA EndOfInputEffect ==
  ASSUME IInv, EndOfInput
  PROVE  /\ PumpSteps({"recv"}, {"leave"}) /\ OnlyThePump /\ pump'.eof
         /\ pump'.exit = pump.exit /\ pump'.hook = pump.hook
         /\ pump'.childrenQuiesced = pump.childrenQuiesced
<1>1. pump \in PumpType
  BY Types DEF IInv
<1>2. OnlyThePump
  BY DEF EndOfInput, OnlyThePump, requests, channels, children, peer, wire
<1>. QED BY <1>1, <1>2 DEF EndOfInput, PumpAt, PumpSteps, PumpType

LEMMA ReceiveStopsEffect ==
  ASSUME IInv, ReceiveStops
  PROVE  /\ PumpSteps({"recv"}, {"leave"}) /\ OnlyThePump /\ pump'.exit \in {0, 1}
         /\ pump'.eof = pump.eof /\ pump'.hook = pump.hook
         /\ pump'.childrenQuiesced = pump.childrenQuiesced
<1>1. pump \in PumpType
  BY Types DEF IInv
<1>2. OnlyThePump
  BY DEF ReceiveStops, OnlyThePump, requests, channels, children, peer, wire
<1>. QED BY <1>1, <1>2 DEF ReceiveStops, PumpAt, PumpSteps, PumpType

LEMMA DrainResponsesEffect ==
  ASSUME IInv, DrainResponses
  PROVE  /\ PumpSteps({"drain"}, {"stop"}) /\ OnlyThePump /\ toCancel[Pump] = {}
         /\ pump'.eof = pump.eof /\ pump'.hook = pump.hook
         /\ pump'.childrenQuiesced = pump.childrenQuiesced
         /\ \/ pump'.exit = pump.exit /\ (pump.eof => \A i \in Ids : q.owner[i] = NoReq)
            \/ pump'.exit = 1
<1>1. pump \in PumpType
  BY Types DEF IInv
<1>2. OnlyThePump /\ toCancel[Pump] = {}
  BY DEF DrainResponses, OnlyThePump, requests, channels, children, peer, wire
<1>3. Reserved(q) = {} => \A i \in Ids : q.owner[i] = NoReq
  BY DEF Reserved
<1>4. CASE (~pump.eof \/ Reserved(q) = {}) /\ GoTo("stop")
  <2>1. PumpGoes("stop")
    BY <1>1, <1>4, PumpMoves, Names
  <2>. QED BY <1>2, <1>3, <1>4, <2>1 DEF PumpGoes, KeepsEnd, PumpSteps, DrainResponses, PumpAt
<1>5. CASE pump' = [pump EXCEPT !.pc = "stop", !.exit = 1]
  BY <1>1, <1>2, <1>5 DEF PumpType, PumpSteps, DrainResponses, PumpAt
<1>. QED BY <1>4, <1>5 DEF DrainResponses

LEMMA AwaitChildrenEffect ==
  ASSUME IInv, AwaitChildren
  PROVE  /\ OnlyThePump /\ toCancel[Pump] = {}
         /\ pump'.eof = pump.eof /\ pump'.hook = pump.hook
         /\ \/ /\ PumpSteps({"children", "children_late"}, {"worker"}) /\ q.inFlight = 0
               /\ pump'.childrenQuiesced /\ pump'.exit = pump.exit
            \/ /\ PumpSteps({"children"}, {"worker", "children_late"}) /\ pump'.exit = 1
               /\ pump'.childrenQuiesced = pump.childrenQuiesced
<1>1. pump \in PumpType
  BY Types DEF IInv
<1>2. OnlyThePump /\ toCancel[Pump] = {}
  BY DEF AwaitChildren, OnlyThePump, requests, channels, children, peer, wire
<1>3. CASE /\ pump.pc \in {"children", "children_late"} /\ q.inFlight = 0
           /\ pump' = [pump EXCEPT !.pc = "worker", !.childrenQuiesced = TRUE]
  BY <1>1, <1>2, <1>3 DEF PumpType, PumpSteps
<1>4. CASE /\ pump.pc = "children"
           /\ pump' = [pump EXCEPT !.pc = IF Detach THEN "worker" ELSE "children_late", !.exit = 1]
  BY <1>1, <1>2, <1>4 DEF PumpType, PumpSteps
<1>. QED BY <1>3, <1>4 DEF AwaitChildren, PumpAt

LEMMA AwaitWorkerEffect ==
  ASSUME IInv, AwaitWorker
  PROVE  /\ OnlyThePump /\ pump'.eof = pump.eof
         /\ pump'.childrenQuiesced = pump.childrenQuiesced
         /\ \/ /\ PumpSteps({"worker", "worker_late"}, {"finish"}) /\ worker.pc = "gone"
               /\ pump'.hook = pump.childrenQuiesced /\ pump'.exit = pump.exit
            \/ /\ PumpSteps({"worker"}, {"finish", "worker_late"}) /\ pump'.exit = 1
               /\ pump'.hook = pump.hook
<1>1. pump \in PumpType
  BY Types DEF IInv
<1>2. OnlyThePump
  BY DEF AwaitWorker, OnlyThePump, requests, channels, children, peer, wire
<1>3. CASE /\ pump.pc \in {"worker", "worker_late"} /\ worker.pc = "gone"
           /\ pump' = [pump EXCEPT !.pc = "finish", !.hook = pump.childrenQuiesced]
  BY <1>1, <1>2, <1>3 DEF PumpType, PumpSteps
<1>4. CASE /\ pump.pc = "worker"
           /\ pump' = [pump EXCEPT !.pc = IF Detach THEN "finish" ELSE "worker_late", !.exit = 1]
  BY <1>1, <1>2, <1>4 DEF PumpType, PumpSteps
<1>. QED BY <1>3, <1>4 DEF AwaitWorker, PumpAt, WorkerAt

LEMMA FinishEffect ==
  ASSUME IInv, Finish
  PROVE  /\ PumpSteps({"finish"}, {"done"}) /\ OnlyThePump
         /\ pump'.eof = pump.eof /\ pump'.hook = pump.hook
         /\ pump'.childrenQuiesced = pump.childrenQuiesced
         /\ pump'.exit = IF failed THEN 1 ELSE pump.exit
<1>1. pump \in PumpType
  BY Types DEF IInv
<1>2. OnlyThePump
  BY DEF Finish, OnlyThePump, requests, channels, children, peer, wire
<1>. QED BY <1>1, <1>2 DEF Finish, PumpAt, PumpType, PumpSteps

\* What became of an answer.
LEMMA ChildPlainReplyEffect ==
  ASSUME IInv, NEW r \in Reqs, ChildPlainReply(r)
  PROVE  /\ child[r] \in {"duplicate", "start_cancelled"} /\ writer = Free
         /\ ChildMoves(r, "unguard")
         /\ \A s \in Reqs : s # r => outcome'[s] = outcome[s]
         /\ \/ outcome'[r] = "ok" /\ Answers(r)
            \/ outcome'[r] # "ok" /\ replies' = replies
         /\ UNCHANGED <<q, word, active, mailbox, writer, failed, pump, worker, admission,
                        toCancel, next, progress, accepted, lost>>
<1>1. /\ child \in [Reqs -> ChildPcs] /\ replies \in [Reqs -> Seq(Kinds)]
      /\ outcome \in [Reqs -> {"none", "ok", "cancelled", "failed"}]
  BY Types DEF IInv
<1>2. ChildMoves(r, "unguard")
  BY <1>1, ChildMovesOn, Names DEF ChildPlainReply
<1>3. /\ child[r] \in {"duplicate", "start_cancelled"} /\ writer = Free
      /\ UNCHANGED <<q, word, active, mailbox, writer, failed, pump, worker, admission,
                     toCancel, next, progress, accepted, lost>>
  BY DEF ChildPlainReply, requests, channels
<1>4. PICK o \in SendOutcomes :
        /\ outcome' = [outcome EXCEPT ![r] = o]
        /\ replies' = IF o # "ok" THEN replies
                      ELSE [replies EXCEPT ![r] = Append(@, IF ChildAt(r, "duplicate")
                                                            THEN "duplicate" ELSE "cancelled")]
  BY DEF ChildPlainReply
<1>5. CASE o = "ok"
  <2>1. \E k \in Kinds : replies' = [replies EXCEPT ![r] = Append(@, k)]
    BY <1>4, <1>5, Names
  <2>2. Answers(r)
    BY <1>1, <2>1, AnswerIsOneMore
  <2>. QED BY <1>1, <1>2, <1>3, <1>4, <1>5, <2>2
<1>6. CASE o # "ok"
  BY <1>1, <1>2, <1>3, <1>4, <1>6
<1>. QED BY <1>5, <1>6

LEMMA ChildReplyEffect ==
  ASSUME IInv, NEW r \in Reqs, ChildReply(r)
  PROVE  /\ child[r] = "replying" /\ ChildMoves(r, "unguard") /\ writer' = Free
         /\ \A s \in Reqs : s # r => outcome'[s] = outcome[s]
         /\ \/ outcome'[r] = "ok" /\ Answers(r)
            \/ outcome'[r] # "ok" /\ replies' = replies
         /\ UNCHANGED <<q, word, active, mailbox, failed, pump, worker, admission,
                        toCancel, next, progress, accepted, lost>>
<1>1. /\ child \in [Reqs -> ChildPcs] /\ replies \in [Reqs -> Seq(Kinds)]
      /\ outcome \in [Reqs -> {"none", "ok", "cancelled", "failed"}]
  BY Types DEF IInv
<1>2. ChildMoves(r, "unguard")
  BY <1>1, ChildMovesOn, Names DEF ChildReply
<1>3. /\ child[r] = "replying" /\ writer' = Free
      /\ UNCHANGED <<q, word, active, mailbox, failed, pump, worker, admission,
                     toCancel, next, progress, accepted, lost>>
  BY DEF ChildReply, ChildAt, requests
<1>4. PICK o \in SendOutcomes :
        /\ outcome' = [outcome EXCEPT ![r] = o]
        /\ replies' = IF o # "ok" THEN replies
                      ELSE [replies EXCEPT ![r] = Append(@, IF word[r] = "finalizing"
                                                            THEN "ok" ELSE "cancelled")]
  BY DEF ChildReply
<1>5. CASE o = "ok"
  <2>1. \E k \in Kinds : replies' = [replies EXCEPT ![r] = Append(@, k)]
    BY <1>4, <1>5, Names
  <2>2. Answers(r)
    BY <1>1, <2>1, AnswerIsOneMore
  <2>. QED BY <1>1, <1>2, <1>3, <1>4, <1>5, <2>2
<1>6. CASE o # "ok"
  BY <1>1, <1>2, <1>3, <1>4, <1>6
<1>. QED BY <1>5, <1>6

LEMMA WorkerReplyEffect ==
  ASSUME IInv, WorkerReply
  PROVE  /\ worker.pc = "replying" /\ worker.job \in Reqs /\ writer' = Free
         /\ worker'.pc = "unguard" /\ worker'.job = worker.job
         /\ \/ worker'.sent = "ok" /\ Answers(worker.job) /\ lost' = lost
            \/ /\ worker'.sent = "cancelled" /\ replies' = replies
               /\ lost' = lost \cup {worker.job}
            \/ worker'.sent = "failed" /\ UNCHANGED <<replies, lost>>
         /\ UNCHANGED <<q, word, active, mailbox, failed, pump, child, outcome, admission,
                        toCancel, next, progress, accepted>>
<1>1. /\ worker \in WorkerType /\ replies \in [Reqs -> Seq(Kinds)] /\ worker.kind \in Kinds
      /\ worker.pc = "replying" /\ worker.job \in Reqs
      /\ SendOutcomes \subseteq {"ok", "cancelled", "failed"}
  BY Types, AtHand, SettingHolds DEF IInv, WorkerReply, WorkerAt, Busy, WorkerType, Setting
<1>2. /\ writer' = Free
      /\ UNCHANGED <<q, word, active, mailbox, failed, pump, child, outcome, admission,
                     toCancel, next, progress, accepted>>
  BY DEF WorkerReply, requests, children
<1>3. PICK o \in SendOutcomes :
        /\ worker' = [worker EXCEPT !.pc = "unguard", !.sent = o]
        /\ replies' = IF o # "ok" THEN replies
                      ELSE [replies EXCEPT ![worker.job] = Append(@, worker.kind)]
        /\ lost' = IF o = "cancelled" THEN lost \cup {worker.job} ELSE lost
  BY DEF WorkerReply, Job
<1>4. worker'.pc = "unguard" /\ worker'.job = worker.job /\ worker'.sent = o
  BY <1>1, <1>3 DEF WorkerType
<1>5. CASE o = "ok"
  BY <1>1, <1>2, <1>3, <1>4, <1>5, AnswerIsOneMore
<1>6. CASE o # "ok"
  BY <1>1, <1>2, <1>3, <1>4, <1>6
<1>. QED BY <1>5, <1>6

LEMMA CancelActiveRequestEffect ==
  ASSUME IInv, CancelActiveRequest
  PROVE  /\ pump.pc = "lookup" /\ pump.target \in Ids
         /\ \/ /\ active[pump.target] \in Reqs /\ word[active[pump.target]] = "active"
               /\ accepted' = accepted \cup {active[pump.target]} /\ word' \in [Reqs -> Words]
               /\ \A s \in Reqs : word'[s] = IF s = active[pump.target] THEN "cancelled" ELSE word[s]
            \/ UNCHANGED <<word, accepted>>
         /\ writer' = IF Modern THEN Free ELSE writer
         /\ pump'.pc = "recv" /\ pump'.req = pump.req /\ pump'.reply = pump.reply /\ KeepsEnd
         /\ UNCHANGED <<q, active, mailbox, failed, child, outcome, worker, admission,
                        toCancel, next, replies, progress, lost>>
<1>1. /\ pump \in PumpType /\ word \in [Reqs -> Words] /\ accepted \subseteq Reqs
      /\ active \in [Ids -> Reqs \cup {NoReq}]
  BY Types DEF IInv
<1>2. pump.pc = "lookup" /\ pump.target \in Ids
  BY DEF CancelActiveRequest, PumpAt, IInv, Custody, Stages
<1>3. /\ writer' = IF Modern THEN Free ELSE writer
      /\ UNCHANGED <<q, active, mailbox, failed, child, outcome, worker, admission,
                     toCancel, next, replies, progress, lost>>
  BY DEF CancelActiveRequest, children, wire
<1>4. pump'.pc = "recv" /\ pump'.req = pump.req /\ pump'.reply = pump.reply /\ KeepsEnd
  BY <1>1 DEF CancelActiveRequest, PumpType, KeepsEnd
<1>5. CASE active[pump.target] # NoReq /\ word[active[pump.target]] = "active"
  <2>1. /\ active[pump.target] \in Reqs /\ accepted' = accepted \cup {active[pump.target]}
        /\ word' = Cancel(word, {active[pump.target]})
    BY <1>1, <1>2, <1>5 DEF CancelActiveRequest
  <2>2. /\ word' \in [Reqs -> Words]
        /\ \A s \in Reqs : word'[s] = IF s = active[pump.target] THEN "cancelled" ELSE word[s]
    BY <1>1, <1>5, <2>1, WordsMove
  <2>. QED BY <1>2, <1>3, <1>4, <1>5, <2>1, <2>2
<1>6. CASE ~(active[pump.target] # NoReq /\ word[active[pump.target]] = "active")
  BY <1>2, <1>3, <1>4, <1>6 DEF CancelActiveRequest
<1>. QED BY <1>5, <1>6

LEMMA ChildSendProgressEffect ==
  ASSUME IInv, NEW r \in Reqs, ChildSendProgress(r)
  PROVE  /\ child[r] = "progress" /\ ChildMoves(r, "running") /\ writer' = Free
         /\ \/ progress' = [progress EXCEPT ![r] = @ + 1] /\ UNCHANGED <<failed, word>>
            \/ /\ progress' = progress /\ failed' /\ word' \in [Reqs -> Words]
               /\ \A s \in Reqs : word'[s] = IF s = r /\ word[s] = "active" THEN "cancelled"
                                             ELSE word[s]
         /\ UNCHANGED <<q, active, mailbox, pump, outcome, worker, admission, toCancel,
                        next, replies, accepted, lost>>
<1>1. word \in [Reqs -> Words] /\ child \in [Reqs -> ChildPcs]
  BY Types DEF IInv
<1>2. ChildMoves(r, "running")
  BY <1>1, ChildMovesOn, Names DEF ChildSendProgress
<1>3. /\ child[r] = "progress" /\ writer' = Free
      /\ UNCHANGED <<q, active, mailbox, pump, outcome, worker, admission, toCancel,
                     next, replies, accepted, lost>>
  BY DEF ChildSendProgress, ChildAt
<1>4. CASE progress' = [progress EXCEPT ![r] = @ + 1] /\ UNCHANGED <<failed, word>>
  BY <1>2, <1>3, <1>4
<1>5. CASE progress' = progress /\ failed' = TRUE /\ word' = Cancel(word, {r})
  <2>1. /\ word' \in [Reqs -> Words]
        /\ \A s \in Reqs : word'[s] = IF s = r /\ word[s] = "active" THEN "cancelled" ELSE word[s]
    BY <1>1, <1>5, WordsMove
  <2>. QED BY <1>2, <1>3, <1>5, <2>1
<1>. QED BY <1>4, <1>5 DEF ChildSendProgress

LEMMA ChildFinalizeEffect ==
  ASSUME IInv, NEW r \in Reqs, ChildFinalize(r)
  PROVE  /\ child[r] = "respond" /\ ChildMoves(r, "replying") /\ writer = Free /\ writer' = r
         /\ word' \in [Reqs -> Words]
         /\ \A s \in Reqs : word'[s] = IF s = r /\ word[s] = "active" THEN "finalizing" ELSE word[s]
         /\ UNCHANGED <<q, active, mailbox, failed, pump, outcome, worker, admission, toCancel,
                        next, replies, progress, accepted, lost>>
<1>1. word \in [Reqs -> Words] /\ child \in [Reqs -> ChildPcs]
  BY Types DEF IInv
<1>2. ChildMoves(r, "replying")
  BY <1>1, ChildMovesOn, Names DEF ChildFinalize
<1>3. /\ word' \in [Reqs -> Words]
      /\ \A s \in Reqs : word'[s] = IF s = r /\ word[s] = "active" THEN "finalizing" ELSE word[s]
  BY <1>1, WordsMove DEF ChildFinalize
<1>. QED BY <1>2, <1>3 DEF ChildFinalize, ChildAt, peer, wire

LEMMA WorkerResolveEffect ==
  ASSUME IInv, WorkerResolve
  PROVE  /\ worker.pc = "respond" /\ worker.job \in Reqs /\ writer = Free
         /\ \/ /\ Tracked /\ word[worker.job] = "cancelled" /\ UNCHANGED <<writer, word>>
               /\ worker'.pc = "unguard" /\ worker'.job = worker.job /\ worker'.sent = "ok"
            \/ /\ ~(Tracked /\ word[worker.job] = "cancelled")
               /\ writer' = Worker /\ WorkerMoves("replying") /\ word' \in [Reqs -> Words]
               /\ \A s \in Reqs : word'[s] = IF Tracked /\ s = worker.job /\ word[s] = "active"
                                             THEN "finalizing" ELSE word[s]
         /\ UNCHANGED <<q, active, mailbox, failed, pump, child, outcome, admission, toCancel,
                        next, replies, progress, accepted, lost>>
<1>1. word \in [Reqs -> Words] /\ worker \in WorkerType
  BY Types DEF IInv
<1>2. /\ worker.pc = "respond" /\ worker.job \in Reqs /\ writer = Free
  BY AtHand DEF WorkerResolve, WorkerAt, Busy
<1>3. UNCHANGED <<q, active, mailbox, failed, pump, child, outcome, admission, toCancel,
                  next, replies, progress, accepted, lost>>
  BY DEF WorkerResolve, children, peer, wire
<1>4. CASE Tracked /\ word[worker.job] = "cancelled"
  <2>1. worker' = [worker EXCEPT !.pc = "unguard", !.sent = "ok"] /\ UNCHANGED <<writer, word>>
    BY <1>4 DEF WorkerResolve, Job
  <2>2. worker'.pc = "unguard" /\ worker'.job = worker.job /\ worker'.sent = "ok"
    BY <1>1, <2>1 DEF WorkerType
  <2>. QED BY <1>2, <1>3, <1>4, <2>1, <2>2
<1>5. CASE ~(Tracked /\ word[worker.job] = "cancelled")
  <2>1. /\ writer' = Worker /\ WorkerGoes("replying")
        /\ word' = IF Tracked THEN BeginFinalization(word, worker.job) ELSE word
    BY <1>5 DEF WorkerResolve, Job
  <2>2. WorkerMoves("replying")
    BY <1>1, <2>1, WorkerMovesOn, Names
  <2>3. /\ word' \in [Reqs -> Words]
        /\ \A s \in Reqs : word'[s] = IF Tracked /\ s = worker.job /\ word[s] = "active"
                                      THEN "finalizing" ELSE word[s]
    BY <1>1, <1>2, <2>1, WordsMove
  <2>. QED BY <1>2, <1>3, <1>5, <2>1, <2>2, <2>3
<1>. QED BY <1>4, <1>5

LEMMA CancelCopiedEffect ==
  ASSUME IInv, NEW a \in Actors, CancelCopied(a)
  PROVE  /\ \E r \in Reqs :
              /\ r \in toCancel[a] /\ toCancel' = [toCancel EXCEPT ![a] = @ \ {r}]
              /\ word' \in [Reqs -> Words]
              /\ \A s \in Reqs : word'[s] = IF s = r /\ word[s] = "active" THEN "cancelled" ELSE word[s]
         /\ UNCHANGED <<q, active, mailbox, writer, failed, pump, child, outcome, worker, admission,
                        next, replies, progress, accepted, lost>>
<1>1. word \in [Reqs -> Words] /\ toCancel \in [Actors -> SUBSET Reqs]
  BY Types DEF IInv
<1>2. PICK r \in toCancel[a] : /\ word' = Cancel(word, {r})
                               /\ toCancel' = [toCancel EXCEPT ![a] = @ \ {r}]
                               /\ UNCHANGED <<q, active, channels, failed, pump, children, worker,
                                              admission, peer>>
  BY DEF CancelCopied
<1>3. /\ r \in Reqs /\ word' \in [Reqs -> Words]
      /\ \A s \in Reqs : word'[s] = IF s = r /\ word[s] = "active" THEN "cancelled" ELSE word[s]
  BY <1>1, <1>2, WordsMove
<1>. QED BY <1>2, <1>3 DEF channels, children, peer, wire

\* Who writes what: a variable of the connection moves only by the steps that name it.
LEMMA Writers ==
  ASSUME [Next]_vars
  PROVE  /\ scenario' = scenario
         /\ pump' = pump \/ PumpStep
         /\ worker' = worker \/ WorkerStep
         /\ child' = child \/ Spawn \/ SpawnRefused \/ \E r \in Reqs : ChildStep(r)
         /\ next' = next \/ ReceiveRequest
         /\ mailbox' = mailbox \/ Enqueue \/ ReceiveLegacyResponse \/ WorkerTake
         /\ admission' = admission \/ Spawn \/ Enqueue \/ BindPrincipal
         /\ UNCHANGED <<cancels, accepted>> \/ CancelActiveRequest
            \/ \E i \in Ids : ReceiveCancellation(i)
         /\ UNCHANGED lost \/ WorkerReply \/ \E r \in Reqs : ChildUnpolled(r)
         /\ UNCHANGED progress \/ \E r \in Reqs : ChildSendProgress(r)
         /\ failed' = failed \/ WorkerFail \/ \E r \in Reqs : ChildSendProgress(r) \/ ChildFail(r)
         /\ \/ UNCHANGED replies \/ PumpReply \/ WorkerReply
            \/ \E r \in Reqs : ChildPlainReply(r) \/ ChildReply(r)
         /\ \/ UNCHANGED active \/ WorkerHandle \/ WorkerUnguard
            \/ \E r \in Reqs : ChildGuard(r) \/ ChildUnguard(r)
         /\ \/ UNCHANGED outcome
            \/ \E r \in Reqs : ChildStart(r) \/ ChildPlainReply(r) \/ ChildReturn(r)
                               \/ ChildPanic(r) \/ ChildReply(r)
         /\ \/ UNCHANGED word \/ RegisterChild \/ CancelActiveRequest \/ WorkerResolve
            \/ \E i \in Ids : ReceiveCancellation(i)
            \/ \E r \in Reqs : ChildSendProgress(r) \/ ChildFinalize(r)
            \/ \E a \in Actors : CancelCopied(a)
         /\ \/ UNCHANGED writer \/ CancelActiveRequest \/ WorkerResolve \/ WorkerReply
            \/ \E i \in Ids : ReceiveCancellation(i)
            \/ \E r \in Reqs : ChildProgress(r) \/ ChildSendProgress(r) \/ ChildFinalize(r)
                               \/ ChildReply(r)
         /\ \/ UNCHANGED toCancel \/ CancelNotifications \/ PumpStop \/ CancelActive \/ WorkerStop
            \/ \E r \in Reqs : ChildStop(r)
            \/ \E a \in Actors : CancelCopied(a)
         /\ \/ UNCHANGED q \/ AdmitRequest \/ ReserveModernSlot \/ ReserveQueuedBytes
            \/ RegisterChild \/ Enqueue \/ PumpStop \/ WorkerReleaseBytes \/ WorkerAdmitted
            \/ WorkerBegin \/ WorkerCheck \/ WorkerHandle \/ WorkerDiscard \/ WorkerStop
            \/ \E i \in Ids : ReceiveCancellation(i)
            \/ \E r \in Reqs : ChildStart(r) \/ ChildStop(r) \/ ReleaseReservation(r)
<1>. USE DEF requests, channels, children, wire, peer, PumpStep, ChildStep, WorkerStep
<1>1. CASE ReceiveRequest \/ CheckActive \/ AdmitRequest \/ ReserveModernSlot
  BY <1>1 DEF ReceiveRequest, CheckActive, AdmitRequest, ReserveModernSlot
<1>2. CASE ReserveQueuedBytes \/ RegisterChild \/ Spawn \/ SpawnRefused
  BY <1>2 DEF ReserveQueuedBytes, RegisterChild, Spawn, SpawnRefused
<1>3. CASE RefusedDropped \/ Enqueue \/ BindPrincipal \/ PumpReply
  BY <1>3 DEF RefusedDropped, Enqueue, BindPrincipal, PumpReply
<1>4. CASE (\E i \in Ids : ReceiveCancellation(i)) \/ CancelActiveRequest
      \/ ReceiveLegacyResponse \/ WorkerFailureSeen
  BY <1>4 DEF ReceiveCancellation, CancelActiveRequest, ReceiveLegacyResponse, WorkerFailureSeen
<1>5. CASE EndOfInput \/ ReceiveStops \/ CancelNotifications \/ DrainResponses
  BY <1>5 DEF EndOfInput, ReceiveStops, CancelNotifications, DrainResponses, StopBy,
         StopSnapshot, Reserved
<1>6. CASE PumpStop \/ CancelActive \/ AwaitChildren \/ AwaitWorker
  BY <1>6 DEF PumpStop, CancelActive, AwaitChildren, AwaitWorker, StopBy, StopSnapshot, Reserved
<1>7. CASE Finish
  BY <1>7 DEF Finish
<1>8. CASE \E r \in Reqs : ChildAdmitted(r) \/ ChildUnpolled(r) \/ ChildGuard(r)
  BY <1>8 DEF ChildAdmitted, ChildUnpolled, ChildGuard
<1>9. CASE \E r \in Reqs : ChildStart(r) \/ ChildPlainReply(r) \/ ChildProgress(r)
  BY <1>9 DEF ChildStart, ChildPlainReply, ChildProgress
<1>10. CASE \E r \in Reqs : ChildSendProgress(r) \/ ChildReturn(r) \/ ChildPanic(r)
  BY <1>10 DEF ChildSendProgress, ChildReturn, ChildPanic
<1>11. CASE \E r \in Reqs : ChildFinalize(r) \/ ChildReply(r) \/ ChildUnguard(r)
  BY <1>11 DEF ChildFinalize, ChildReply, ChildUnguard
<1>12. CASE \E r \in Reqs : ChildSettle(r) \/ ChildFail(r) \/ ChildStop(r)
  BY <1>12 DEF ChildSettle, ChildFail, ChildStop, StopBy, StopSnapshot, Reserved
<1>13. CASE \E r \in Reqs : ReleaseReservation(r)
  BY <1>13 DEF ReleaseReservation
<1>14. CASE WorkerLeaves \/ WorkerTake \/ WorkerReleaseBytes \/ WorkerAdmitted
  BY <1>14 DEF WorkerLeaves, WorkerTake, WorkerReleaseBytes, WorkerAdmitted
<1>15. CASE WorkerBegin \/ WorkerCheck \/ WorkerHandle \/ WorkerReturn
  BY <1>15 DEF WorkerBegin, WorkerCheck, WorkerHandle, WorkerReturn
<1>16. CASE WorkerResolve \/ WorkerReply \/ WorkerUnguard \/ WorkerDiscard
  BY <1>16 DEF WorkerResolve, WorkerReply, WorkerUnguard, WorkerDiscard
<1>17. CASE WorkerEnd \/ WorkerFail \/ WorkerStop \/ WorkerStopped
  BY <1>17 DEF WorkerEnd, WorkerFail, WorkerStop, WorkerStopped, StopBy, StopSnapshot, Reserved
<1>18. CASE \E a \in Actors : CancelCopied(a)
  BY <1>18 DEF CancelCopied
<1>19. CASE UNCHANGED vars
  BY <1>19 DEF vars
<1>. QED BY <1>1, <1>2, <1>3, <1>4, <1>5, <1>6, <1>7, <1>8, <1>9, <1>10, <1>11, <1>12, <1>13,
         <1>14, <1>15, <1>16, <1>17, <1>18, <1>19 DEF Next

LEMMA StillAlways == ASSUME [Next]_vars PROVE Still
BY Writers, SettingStays

LEMMA WriterStays == ASSUME IInv, WriterIsHeld, [Next]_vars PROVE WriterIsHeld'
<1>1. /\ Setting /\ Still
      /\ writer \in Actors \cup {Free}
      /\ pump \in PumpType
      /\ child \in [Reqs -> ChildPcs]
      /\ worker \in WorkerType
  BY SettingHolds, StillAlways, Types DEF IInv
<1>2. /\ pump.pc \in {"register", "spawn", "enqueue"} => pump.req \in Reqs /\ child[pump.req] = "idle"
      /\ worker.pc \in Busy => worker.job \in Reqs
  BY AtHand DEF Hands, Attending
<1>3. ASSUME UNCHANGED <<writer, pump, child, worker>> PROVE WriterIsHeld'
  BY <1>1, <1>3 DEF WriterIsHeld, Still
<1>4. ASSUME NEW i \in Ids, ReceiveCancellation(i) PROVE WriterIsHeld'
  <2>1. \/ writer = Free /\ writer' = Pump /\ Modern /\ pump'.pc = "lookup"
        \/ writer' = writer /\ ~Modern /\ pump'.pc = "lookup"
        \/ UNCHANGED <<writer, pump>>
    BY <1>1, <1>4 DEF ReceiveCancellation, PumpType
  <2>. QED BY <1>1, <1>4, <2>1, Sentinels
           DEF WriterIsHeld, ReceiveCancellation, PumpAt, children, Still
<1>5. CASE WorkerCheck
  <2>1. worker'.pc \in {"end", "idle", "handle"} /\ UNCHANGED <<child, writer, pump>>
    BY <1>1, <1>5 DEF WorkerCheck, Leave, WorkerGoes, WorkerType, channels, children
  <2>. QED BY <1>1, <1>5, <2>1 DEF WriterIsHeld, WorkerCheck, WorkerAt, Still
<1>. USE <1>1, <1>2, Sentinels DEF WriterIsHeld, PumpAt, Correlated, requests, channels,
       children, wire, Still, peer, PumpGoes, PumpAnswers, KeepsEnd, PumpRefuses, SameMarks,
       Releases, ChildMoves, PumpGivesUp, Answers, OnlyThePump, PumpSteps, Snapshot, SameOwners,
       ChildAt, ChildGoes, WorkerAt, WorkerMoves, WorkerEnds, WorkerGoes
<1>6. CASE ReceiveRequest
  BY <1>6 DEF ReceiveRequest, PumpType
<1>7. CASE CheckActive
  BY <1>7, CheckActiveEffect
<1>8. CASE AdmitRequest
  BY <1>8, AdmitRequestEffect
<1>9. CASE ReserveModernSlot
  BY <1>9, ReserveModernSlotEffect
<1>10. CASE ReserveQueuedBytes
  BY <1>10, ReserveQueuedBytesEffect
<1>11. CASE RegisterChild
  BY <1>11, RegisterChildEffect
<1>12. CASE Spawn
  BY <1>12, SpawnEffect
<1>13. CASE SpawnRefused
  BY <1>13, SpawnRefusedEffect
<1>14. CASE RefusedDropped
  BY <1>14, RefusedDroppedEffect
<1>15. CASE Enqueue
  BY <1>15, EnqueueEffect
<1>16. CASE BindPrincipal
  BY <1>16, BindPrincipalEffect
<1>17. CASE PumpReply
  BY <1>17, PumpReplyEffect
<1>18. CASE CancelActiveRequest
  BY <1>18, CancelActiveRequestEffect
<1>19. CASE ReceiveLegacyResponse
  BY <1>19, ReceiveLegacyResponseEffect
<1>20. CASE WorkerFailureSeen
  BY <1>20, WorkerFailureSeenEffect
<1>21. CASE EndOfInput
  BY <1>21, EndOfInputEffect
<1>22. CASE ReceiveStops
  BY <1>22, ReceiveStopsEffect
<1>23. CASE CancelNotifications
  BY <1>23 DEF CancelNotifications, Uncorrelated, GoTo, PumpType
<1>24. CASE DrainResponses
  BY <1>24, DrainResponsesEffect
<1>25. CASE PumpStop
  BY <1>25, PumpStopEffect
<1>26. CASE CancelActive
  BY <1>26 DEF CancelActive, GoTo, PumpType
<1>27. CASE AwaitChildren
  BY <1>27, AwaitChildrenEffect
<1>28. CASE AwaitWorker
  BY <1>28, AwaitWorkerEffect
<1>29. CASE Finish
  BY <1>29, FinishEffect
<1>30. ASSUME NEW r \in Reqs, ChildAdmitted(r) PROVE WriterIsHeld'
  BY <1>30 DEF ChildAdmitted
<1>31. ASSUME NEW r \in Reqs, ChildUnpolled(r) PROVE WriterIsHeld'
  BY <1>31 DEF ChildUnpolled
<1>32. ASSUME NEW r \in Reqs, ChildGuard(r) PROVE WriterIsHeld'
  BY <1>32 DEF ChildGuard
<1>33. ASSUME NEW r \in Reqs, ChildStart(r) PROVE WriterIsHeld'
  BY <1>33, ChildStartEffect
<1>34. ASSUME NEW r \in Reqs, ChildPlainReply(r) PROVE WriterIsHeld'
  BY <1>34, ChildPlainReplyEffect
<1>35. ASSUME NEW r \in Reqs, ChildProgress(r) PROVE WriterIsHeld'
  BY <1>35 DEF ChildProgress, Actors
<1>36. ASSUME NEW r \in Reqs, ChildSendProgress(r) PROVE WriterIsHeld'
  BY <1>36, ChildSendProgressEffect
<1>37. ASSUME NEW r \in Reqs, ChildReturn(r) PROVE WriterIsHeld'
  BY <1>37 DEF ChildReturn
<1>38. ASSUME NEW r \in Reqs, ChildPanic(r) PROVE WriterIsHeld'
  BY <1>38 DEF ChildPanic
<1>39. ASSUME NEW r \in Reqs, ChildFinalize(r) PROVE WriterIsHeld'
  BY <1>39, ChildFinalizeEffect
<1>40. ASSUME NEW r \in Reqs, ChildReply(r) PROVE WriterIsHeld'
  BY <1>40, ChildReplyEffect
<1>41. ASSUME NEW r \in Reqs, ChildUnguard(r) PROVE WriterIsHeld'
  BY <1>41 DEF ChildUnguard, RemoveOwn
<1>42. ASSUME NEW r \in Reqs, ChildSettle(r) PROVE WriterIsHeld'
  BY <1>42 DEF ChildSettle
<1>43. ASSUME NEW r \in Reqs, ChildFail(r) PROVE WriterIsHeld'
  BY <1>43 DEF ChildFail
<1>44. ASSUME NEW r \in Reqs, ChildStop(r) PROVE WriterIsHeld'
  BY <1>44, ChildStopEffect
<1>45. ASSUME NEW r \in Reqs, ReleaseReservation(r) PROVE WriterIsHeld'
  BY <1>45, ReleaseReservationEffect
<1>46. CASE WorkerLeaves
  BY <1>46 DEF WorkerLeaves, Leave, WorkerType
<1>47. CASE WorkerTake
  BY <1>47, WorkerTakeEffect
<1>48. CASE WorkerReleaseBytes
  BY <1>48, WorkerReleaseBytesEffect
<1>49. CASE WorkerAdmitted
  BY <1>49, WorkerAdmittedEffect
<1>50. CASE WorkerBegin
  BY <1>50, WorkerBeginEffect
<1>51. CASE WorkerHandle
  BY <1>51, WorkerHandleEffect
<1>52. CASE WorkerReturn
  BY <1>52 DEF WorkerReturn, WorkerType
<1>53. CASE WorkerResolve
  BY <1>53, WorkerResolveEffect
<1>54. CASE WorkerReply
  BY <1>54, WorkerReplyEffect
<1>55. CASE WorkerUnguard
  BY <1>55 DEF WorkerUnguard, RemoveOwn, Job, WorkerType
<1>56. CASE WorkerDiscard
  BY <1>56, WorkerDiscardEffect
<1>57. CASE WorkerEnd
  BY <1>57 DEF WorkerEnd, WorkerType
<1>58. CASE WorkerFail
  BY <1>58 DEF WorkerFail, WorkerType
<1>59. CASE WorkerStop
  BY <1>59, WorkerStopEffect
<1>60. CASE WorkerStopped
  BY <1>60 DEF WorkerStopped, WorkerType
<1>. QED BY <1>3, <1>4, <1>5, <1>6, <1>7, <1>8, <1>9, <1>10, <1>11, <1>12, <1>13, <1>14, <1>15,
         <1>16, <1>17, <1>18, <1>19, <1>20, <1>21, <1>22, <1>23, <1>24, <1>25, <1>26, <1>27,
         <1>28, <1>29, <1>30, <1>31, <1>32, <1>33, <1>34, <1>35, <1>36, <1>37, <1>38, <1>39,
         <1>40, <1>41, <1>42, <1>43, <1>44, <1>45, <1>46, <1>47, <1>48, <1>49, <1>50, <1>51,
         <1>52, <1>53, <1>54, <1>55, <1>56, <1>57, <1>58, <1>59, <1>60, Writers
         DEF PumpStep, ChildStep, WorkerStep

LEMMA CopiesStay == ASSUME IInv, Copies, [Next]_vars PROVE Copies'
<1>1. /\ Setting /\ Still
      /\ pump \in PumpType
      /\ child \in [Reqs -> ChildPcs]
      /\ worker \in WorkerType
      /\ toCancel \in [Actors -> SUBSET Reqs]
  BY SettingHolds, StillAlways, Types DEF IInv
<1>2. /\ pump.pc \in {"register", "spawn", "enqueue"} => pump.req \in Reqs /\ child[pump.req] = "idle"
      /\ worker.pc \in Busy => worker.job \in Reqs
  BY AtHand DEF Hands, Attending
<1>3. ASSUME UNCHANGED <<pump, child, worker, toCancel>> PROVE Copies'
  BY <1>1, <1>3 DEF Copies, Still
<1>4. CASE Spawn
  <2>1. pump'.pc \in {"bind", "recv"} /\ UNCHANGED <<worker, toCancel>>
    BY <1>1, <1>4 DEF Spawn, GoTo, PumpType
  <2>. QED BY <1>1, <1>2, <1>4, <2>1, Sentinels DEF Copies, Spawn, PumpAt, Still
<1>5. ASSUME NEW a \in Actors, CancelCopied(a) PROVE Copies'
  <2>1. PICK r \in Reqs : toCancel' = [toCancel EXCEPT ![a] = @ \ {r}]
    BY <1>5, CancelCopiedEffect
  <2>2. \A b \in Actors : toCancel'[b] \subseteq toCancel[b]
    BY <1>1, <2>1
  <2>3. UNCHANGED <<pump, child, worker>>
    BY <1>5, CancelCopiedEffect
  <2>. QED BY <2>2, <2>3 DEF Copies, Actors
<1>. USE <1>1, <1>2, Sentinels DEF Copies, PumpAt, Correlated, requests, channels, children,
       wire, Still, peer, PumpGoes, PumpAnswers, KeepsEnd, PumpRefuses, SameMarks, Releases,
       ChildMoves, PumpGivesUp, Answers, SameOwners, OnlyThePump, PumpSteps, Snapshot, ChildAt,
       ChildGoes, WorkerAt, WorkerMoves, WorkerEnds, WorkerGoes
<1>6. CASE ReceiveRequest
  BY <1>6 DEF ReceiveRequest, PumpType
<1>7. CASE CheckActive
  BY <1>7, CheckActiveEffect
<1>8. CASE AdmitRequest
  BY <1>8, AdmitRequestEffect
<1>9. CASE ReserveModernSlot
  BY <1>9, ReserveModernSlotEffect
<1>10. CASE ReserveQueuedBytes
  BY <1>10, ReserveQueuedBytesEffect
<1>11. CASE RegisterChild
  BY <1>11, RegisterChildEffect
<1>12. CASE SpawnRefused
  BY <1>12, SpawnRefusedEffect
<1>13. CASE RefusedDropped
  BY <1>13, RefusedDroppedEffect
<1>14. CASE Enqueue
  BY <1>14, EnqueueEffect
<1>15. CASE BindPrincipal
  BY <1>15, BindPrincipalEffect
<1>16. CASE PumpReply
  BY <1>16, PumpReplyEffect
<1>17. ASSUME NEW i \in Ids, ReceiveCancellation(i) PROVE Copies'
  BY <1>17, ReceiveCancellationEffect
<1>18. CASE CancelActiveRequest
  BY <1>18, CancelActiveRequestEffect
<1>19. CASE ReceiveLegacyResponse
  BY <1>19, ReceiveLegacyResponseEffect
<1>20. CASE WorkerFailureSeen
  BY <1>20, WorkerFailureSeenEffect
<1>21. CASE EndOfInput
  BY <1>21, EndOfInputEffect
<1>22. CASE ReceiveStops
  BY <1>22, ReceiveStopsEffect
<1>23. CASE CancelNotifications
  BY <1>23 DEF CancelNotifications, Uncorrelated, GoTo, PumpType, Actors
<1>24. CASE DrainResponses
  BY <1>24, DrainResponsesEffect
<1>25. CASE PumpStop
  BY <1>25, PumpStopEffect DEF Actors
<1>26. CASE CancelActive
  BY <1>26 DEF CancelActive, GoTo, PumpType, Actors
<1>27. CASE AwaitChildren
  BY <1>27, AwaitChildrenEffect
<1>28. CASE AwaitWorker
  BY <1>28, AwaitWorkerEffect
<1>29. CASE Finish
  BY <1>29, FinishEffect
<1>30. ASSUME NEW r \in Reqs, ChildAdmitted(r) PROVE Copies'
  BY <1>30 DEF ChildAdmitted
<1>31. ASSUME NEW r \in Reqs, ChildUnpolled(r) PROVE Copies'
  BY <1>31 DEF ChildUnpolled
<1>32. ASSUME NEW r \in Reqs, ChildGuard(r) PROVE Copies'
  BY <1>32 DEF ChildGuard
<1>33. ASSUME NEW r \in Reqs, ChildStart(r) PROVE Copies'
  BY <1>33, ChildStartEffect
<1>34. ASSUME NEW r \in Reqs, ChildPlainReply(r) PROVE Copies'
  BY <1>34, ChildPlainReplyEffect
<1>35. ASSUME NEW r \in Reqs, ChildProgress(r) PROVE Copies'
  BY <1>35 DEF ChildProgress
<1>36. ASSUME NEW r \in Reqs, ChildSendProgress(r) PROVE Copies'
  BY <1>36, ChildSendProgressEffect
<1>37. ASSUME NEW r \in Reqs, ChildReturn(r) PROVE Copies'
  BY <1>37 DEF ChildReturn
<1>38. ASSUME NEW r \in Reqs, ChildPanic(r) PROVE Copies'
  BY <1>38 DEF ChildPanic
<1>39. ASSUME NEW r \in Reqs, ChildFinalize(r) PROVE Copies'
  BY <1>39, ChildFinalizeEffect
<1>40. ASSUME NEW r \in Reqs, ChildReply(r) PROVE Copies'
  BY <1>40, ChildReplyEffect
<1>41. ASSUME NEW r \in Reqs, ChildUnguard(r) PROVE Copies'
  BY <1>41 DEF ChildUnguard, RemoveOwn
<1>42. ASSUME NEW r \in Reqs, ChildSettle(r) PROVE Copies'
  BY <1>42 DEF ChildSettle
<1>43. ASSUME NEW r \in Reqs, ChildFail(r) PROVE Copies'
  BY <1>43 DEF ChildFail
<1>44. ASSUME NEW r \in Reqs, ChildStop(r) PROVE Copies'
  BY <1>44, ChildStopEffect DEF Actors
<1>45. ASSUME NEW r \in Reqs, ReleaseReservation(r) PROVE Copies'
  BY <1>45, ReleaseReservationEffect
<1>46. CASE WorkerLeaves
  BY <1>46 DEF WorkerLeaves, Leave, WorkerType
<1>47. CASE WorkerTake
  BY <1>47, WorkerTakeEffect
<1>48. CASE WorkerReleaseBytes
  BY <1>48, WorkerReleaseBytesEffect
<1>49. CASE WorkerAdmitted
  BY <1>49, WorkerAdmittedEffect
<1>50. CASE WorkerBegin
  BY <1>50, WorkerBeginEffect
<1>51. CASE WorkerCheck
  BY <1>51, WorkerCheckEffect
<1>52. CASE WorkerHandle
  BY <1>52, WorkerHandleEffect
<1>53. CASE WorkerReturn
  BY <1>53 DEF WorkerReturn, WorkerType
<1>54. CASE WorkerResolve
  BY <1>54, WorkerResolveEffect
<1>55. CASE WorkerReply
  BY <1>55, WorkerReplyEffect
<1>56. CASE WorkerUnguard
  BY <1>56 DEF WorkerUnguard, RemoveOwn, Job, WorkerType
<1>57. CASE WorkerDiscard
  BY <1>57, WorkerDiscardEffect
<1>58. CASE WorkerEnd
  BY <1>58 DEF WorkerEnd, WorkerType
<1>59. CASE WorkerFail
  BY <1>59 DEF WorkerFail, WorkerType
<1>60. CASE WorkerStop
  BY <1>60, WorkerStopEffect DEF Actors
<1>61. CASE WorkerStopped
  BY <1>61 DEF WorkerStopped, WorkerType
<1>. QED BY <1>3, <1>4, <1>5, <1>6, <1>7, <1>8, <1>9, <1>10, <1>11, <1>12, <1>13, <1>14, <1>15,
         <1>16, <1>17, <1>18, <1>19, <1>20, <1>21, <1>22, <1>23, <1>24, <1>25, <1>26, <1>27,
         <1>28, <1>29, <1>30, <1>31, <1>32, <1>33, <1>34, <1>35, <1>36, <1>37, <1>38, <1>39,
         <1>40, <1>41, <1>42, <1>43, <1>44, <1>45, <1>46, <1>47, <1>48, <1>49, <1>50, <1>51,
         <1>52, <1>53, <1>54, <1>55, <1>56, <1>57, <1>58, <1>59, <1>60, <1>61, Writers
         DEF PumpStep, ChildStep, WorkerStep

LEMMA EnrolledStays == ASSUME IInv, Enrolled, [Next]_vars PROVE Enrolled'
<1>1. /\ Setting /\ Still
      /\ q \in QueueStates
      /\ pump \in PumpType
      /\ child \in [Reqs -> ChildPcs]
  BY SettingHolds, StillAlways, Types DEF IInv
<1>2. /\ pump.pc \in {"register", "spawn", "enqueue"} => pump.req \in Reqs /\ child[pump.req] = "idle"
      /\ worker.pc \in Busy => worker.job \in Reqs
  BY AtHand DEF Hands, Attending
<1>3. ASSUME UNCHANGED <<q, pump, child>> PROVE Enrolled'
  BY <1>1, <1>3 DEF Enrolled, Still
<1>. USE <1>1, <1>2, Sentinels DEF Enrolled, PumpAt, Correlated, requests, channels, children,
       wire, Still, peer, PumpGoes, PumpAnswers, KeepsEnd, PumpRefuses, SameMarks, Releases,
       ChildMoves, PumpGivesUp, Answers, SameOwners, OnlyThePump, PumpSteps, Snapshot, ChildAt,
       ChildGoes, WorkerMoves, WorkerEnds
<1>4. CASE ReceiveRequest
  BY <1>4 DEF ReceiveRequest, PumpType
<1>5. CASE CheckActive
  BY <1>5, CheckActiveEffect DEF QueueStates
<1>6. CASE AdmitRequest
  BY <1>6, AdmitRequestEffect DEF QueueStates
<1>7. CASE ReserveModernSlot
  BY <1>7, ReserveModernSlotEffect DEF QueueStates
<1>8. CASE ReserveQueuedBytes
  BY <1>8, ReserveQueuedBytesEffect DEF QueueStates
<1>9. CASE RegisterChild
  BY <1>9, RegisterChildEffect DEF QueueStates
<1>10. CASE Spawn
  BY <1>10, SpawnEffect DEF QueueStates
<1>11. CASE SpawnRefused
  BY <1>11, SpawnRefusedEffect DEF QueueStates
<1>12. CASE RefusedDropped
  BY <1>12, RefusedDroppedEffect DEF QueueStates
<1>13. CASE Enqueue
  BY <1>13, EnqueueEffect DEF QueueStates
<1>14. CASE BindPrincipal
  BY <1>14, BindPrincipalEffect DEF QueueStates
<1>15. CASE PumpReply
  BY <1>15, PumpReplyEffect DEF QueueStates
<1>16. ASSUME NEW i \in Ids, ReceiveCancellation(i) PROVE Enrolled'
  BY <1>16, ReceiveCancellationEffect DEF QueueStates
<1>17. CASE CancelActiveRequest
  BY <1>17, CancelActiveRequestEffect DEF QueueStates
<1>18. CASE ReceiveLegacyResponse
  BY <1>18, ReceiveLegacyResponseEffect DEF QueueStates
<1>19. CASE WorkerFailureSeen
  BY <1>19, WorkerFailureSeenEffect DEF QueueStates
<1>20. CASE EndOfInput
  BY <1>20, EndOfInputEffect DEF QueueStates
<1>21. CASE ReceiveStops
  BY <1>21, ReceiveStopsEffect DEF QueueStates
<1>22. CASE CancelNotifications
  BY <1>22 DEF CancelNotifications, Uncorrelated, GoTo, PumpType
<1>23. CASE DrainResponses
  BY <1>23, DrainResponsesEffect DEF QueueStates
<1>24. CASE PumpStop
  BY <1>24, PumpStopEffect DEF QueueStates
<1>25. CASE CancelActive
  BY <1>25 DEF CancelActive, GoTo, PumpType
<1>26. CASE AwaitChildren
  BY <1>26, AwaitChildrenEffect DEF QueueStates
<1>27. CASE AwaitWorker
  BY <1>27, AwaitWorkerEffect DEF QueueStates
<1>28. CASE Finish
  BY <1>28, FinishEffect DEF QueueStates
<1>29. ASSUME NEW r \in Reqs, ChildAdmitted(r) PROVE Enrolled'
  BY <1>29 DEF ChildAdmitted
<1>30. ASSUME NEW r \in Reqs, ChildUnpolled(r) PROVE Enrolled'
  BY <1>30 DEF ChildUnpolled
<1>31. ASSUME NEW r \in Reqs, ChildGuard(r) PROVE Enrolled'
  BY <1>31 DEF ChildGuard
<1>32. ASSUME NEW r \in Reqs, ChildStart(r) PROVE Enrolled'
  BY <1>32, ChildStartEffect DEF QueueStates
<1>33. ASSUME NEW r \in Reqs, ChildPlainReply(r) PROVE Enrolled'
  BY <1>33, ChildPlainReplyEffect DEF QueueStates
<1>34. ASSUME NEW r \in Reqs, ChildProgress(r) PROVE Enrolled'
  BY <1>34 DEF ChildProgress
<1>35. ASSUME NEW r \in Reqs, ChildSendProgress(r) PROVE Enrolled'
  BY <1>35, ChildSendProgressEffect DEF QueueStates
<1>36. ASSUME NEW r \in Reqs, ChildReturn(r) PROVE Enrolled'
  BY <1>36 DEF ChildReturn
<1>37. ASSUME NEW r \in Reqs, ChildPanic(r) PROVE Enrolled'
  BY <1>37 DEF ChildPanic
<1>38. ASSUME NEW r \in Reqs, ChildFinalize(r) PROVE Enrolled'
  BY <1>38, ChildFinalizeEffect DEF QueueStates
<1>39. ASSUME NEW r \in Reqs, ChildReply(r) PROVE Enrolled'
  BY <1>39, ChildReplyEffect DEF QueueStates
<1>40. ASSUME NEW r \in Reqs, ChildUnguard(r) PROVE Enrolled'
  BY <1>40 DEF ChildUnguard, RemoveOwn
<1>41. ASSUME NEW r \in Reqs, ChildSettle(r) PROVE Enrolled'
  BY <1>41 DEF ChildSettle
<1>42. ASSUME NEW r \in Reqs, ChildFail(r) PROVE Enrolled'
  BY <1>42 DEF ChildFail
<1>43. ASSUME NEW r \in Reqs, ChildStop(r) PROVE Enrolled'
  BY <1>43, ChildStopEffect DEF QueueStates
<1>44. ASSUME NEW r \in Reqs, ReleaseReservation(r) PROVE Enrolled'
  BY <1>44, ReleaseReservationEffect DEF QueueStates
<1>45. CASE WorkerReleaseBytes
  BY <1>45, WorkerReleaseBytesEffect DEF QueueStates
<1>46. CASE WorkerAdmitted
  BY <1>46, WorkerAdmittedEffect DEF QueueStates
<1>47. CASE WorkerBegin
  BY <1>47, WorkerBeginEffect DEF QueueStates
<1>48. CASE WorkerCheck
  BY <1>48, WorkerCheckEffect DEF QueueStates
<1>49. CASE WorkerHandle
  BY <1>49, WorkerHandleEffect DEF QueueStates
<1>50. CASE WorkerDiscard
  BY <1>50, WorkerDiscardEffect DEF QueueStates
<1>51. CASE WorkerStop
  BY <1>51, WorkerStopEffect DEF QueueStates
<1>. QED BY <1>3, <1>4, <1>5, <1>6, <1>7, <1>8, <1>9, <1>10, <1>11, <1>12, <1>13, <1>14, <1>15,
         <1>16, <1>17, <1>18, <1>19, <1>20, <1>21, <1>22, <1>23, <1>24, <1>25, <1>26, <1>27,
         <1>28, <1>29, <1>30, <1>31, <1>32, <1>33, <1>34, <1>35, <1>36, <1>37, <1>38, <1>39,
         <1>40, <1>41, <1>42, <1>43, <1>44, <1>45, <1>46, <1>47, <1>48, <1>49, <1>50, <1>51,
         Writers
         DEF PumpStep, ChildStep

LEMMA EndingStays == ASSUME IInv, Ending, [Next]_vars PROVE Ending'
<1>1. /\ Setting /\ Still
      /\ q \in QueueStates
      /\ failed \in BOOLEAN
      /\ pump \in PumpType
      /\ worker \in WorkerType
  BY SettingHolds, StillAlways, Types DEF IInv
<1>2. q.inFlight = 0 => \A r \in Reqs : child[r] \in {"idle", "gone"}
  BY NobodyIsLeft
<1>3. ASSUME UNCHANGED <<q, failed, pump, worker>> PROVE Ending'
  BY <1>1, <1>3 DEF Ending, Still
<1>4. CASE WorkerAdmitted
  <2>1. q'.inFlight = q.inFlight /\ worker.pc # "gone" /\ UNCHANGED <<pump, failed>>
    BY <1>4, WorkerAdmittedEffect
  <2>. QED BY <2>1 DEF Ending
<1>. USE <1>1, <1>2, Sentinels DEF Ending, PumpAt, Correlated, requests, channels, children,
       wire, Still, peer, PumpGoes, PumpAnswers, KeepsEnd, PumpRefuses, SameMarks, Releases,
       ChildMoves, PumpGivesUp, SameOwners, OnlyThePump, PumpSteps, Snapshot, WorkerAt,
       WorkerMoves, WorkerEnds, WorkerGoes
<1>5. CASE ReceiveRequest
  BY <1>5 DEF ReceiveRequest, PumpType
<1>6. CASE CheckActive
  BY <1>6, CheckActiveEffect DEF QueueStates
<1>7. CASE AdmitRequest
  BY <1>7, AdmitRequestEffect DEF QueueStates
<1>8. CASE ReserveModernSlot
  BY <1>8, ReserveModernSlotEffect DEF QueueStates
<1>9. CASE ReserveQueuedBytes
  BY <1>9, ReserveQueuedBytesEffect DEF QueueStates
<1>10. CASE RegisterChild
  BY <1>10, RegisterChildEffect DEF QueueStates
<1>11. CASE Spawn
  BY <1>11, SpawnEffect DEF QueueStates
<1>12. CASE SpawnRefused
  BY <1>12, SpawnRefusedEffect DEF QueueStates
<1>13. CASE RefusedDropped
  BY <1>13, RefusedDroppedEffect DEF QueueStates
<1>14. CASE Enqueue
  BY <1>14, EnqueueEffect DEF QueueStates
<1>15. CASE BindPrincipal
  BY <1>15, BindPrincipalEffect DEF QueueStates
<1>16. CASE PumpReply
  BY <1>16, PumpReplyEffect DEF Answers, QueueStates
<1>17. ASSUME NEW i \in Ids, ReceiveCancellation(i) PROVE Ending'
  BY <1>17, ReceiveCancellationEffect DEF QueueStates
<1>18. CASE CancelActiveRequest
  BY <1>18, CancelActiveRequestEffect DEF QueueStates
<1>19. CASE ReceiveLegacyResponse
  BY <1>19, ReceiveLegacyResponseEffect DEF QueueStates
<1>20. CASE WorkerFailureSeen
  BY <1>20, WorkerFailureSeenEffect DEF QueueStates
<1>21. CASE EndOfInput
  BY <1>21, EndOfInputEffect DEF QueueStates
<1>22. CASE ReceiveStops
  BY <1>22, ReceiveStopsEffect DEF QueueStates
<1>23. CASE CancelNotifications
  BY <1>23 DEF CancelNotifications, Uncorrelated, GoTo, PumpType
<1>24. CASE DrainResponses
  BY <1>24, DrainResponsesEffect DEF QueueStates
<1>25. CASE PumpStop
  BY <1>25, PumpStopEffect DEF QueueStates
<1>26. CASE CancelActive
  BY <1>26 DEF CancelActive, GoTo, PumpType
<1>27. CASE AwaitChildren
  BY <1>27, AwaitChildrenEffect DEF QueueStates
<1>28. CASE AwaitWorker
  BY <1>28, AwaitWorkerEffect DEF QueueStates
<1>29. CASE Finish
  BY <1>29, FinishEffect DEF QueueStates
<1>30. ASSUME NEW r \in Reqs, ChildStart(r) PROVE Ending'
  BY <1>30, ChildStartEffect DEF QueueStates
<1>31. ASSUME NEW r \in Reqs, ChildSendProgress(r) PROVE Ending'
  BY <1>31, ChildSendProgressEffect DEF QueueStates
<1>32. ASSUME NEW r \in Reqs, ChildFail(r) PROVE Ending'
  BY <1>32 DEF ChildFail, ChildAt, ChildGoes
<1>33. ASSUME NEW r \in Reqs, ChildStop(r) PROVE Ending'
  BY <1>33, ChildStopEffect DEF QueueStates
<1>34. ASSUME NEW r \in Reqs, ReleaseReservation(r) PROVE Ending'
  BY <1>34, ReleaseReservationEffect DEF QueueStates
<1>35. CASE WorkerLeaves
  BY <1>35 DEF WorkerLeaves, Leave, WorkerType
<1>36. CASE WorkerTake
  BY <1>36, WorkerTakeEffect DEF QueueStates
<1>37. CASE WorkerReleaseBytes
  BY <1>37, WorkerReleaseBytesEffect DEF QueueStates
<1>38. CASE WorkerBegin
  BY <1>38, WorkerBeginEffect DEF QueueStates
<1>39. CASE WorkerCheck
  BY <1>39, WorkerCheckEffect DEF QueueStates
<1>40. CASE WorkerHandle
  BY <1>40, WorkerHandleEffect DEF QueueStates
<1>41. CASE WorkerReturn
  BY <1>41 DEF WorkerReturn, WorkerType
<1>42. CASE WorkerResolve
  BY <1>42, WorkerResolveEffect DEF QueueStates
<1>43. CASE WorkerReply
  BY <1>43, WorkerReplyEffect DEF Answers, QueueStates
<1>44. CASE WorkerUnguard
  BY <1>44 DEF WorkerUnguard, RemoveOwn, Job, WorkerType
<1>45. CASE WorkerDiscard
  BY <1>45, WorkerDiscardEffect DEF QueueStates
<1>46. CASE WorkerEnd
  BY <1>46 DEF WorkerEnd, WorkerType
<1>47. CASE WorkerFail
  BY <1>47 DEF WorkerFail, WorkerType
<1>48. CASE WorkerStop
  BY <1>48, WorkerStopEffect DEF QueueStates
<1>49. CASE WorkerStopped
  BY <1>49 DEF WorkerStopped, WorkerType
<1>. QED BY <1>3, <1>4, <1>5, <1>6, <1>7, <1>8, <1>9, <1>10, <1>11, <1>12, <1>13, <1>14, <1>15,
         <1>16, <1>17, <1>18, <1>19, <1>20, <1>21, <1>22, <1>23, <1>24, <1>25, <1>26, <1>27,
         <1>28, <1>29, <1>30, <1>31, <1>32, <1>33, <1>34, <1>35, <1>36, <1>37, <1>38, <1>39,
         <1>40, <1>41, <1>42, <1>43, <1>44, <1>45, <1>46, <1>47, <1>48, <1>49, Writers
         DEF PumpStep, WorkerStep

-----------------------------------------------------------------------------
(* The shutdown tells the truth. *)

Shutdown == WriterIsHeld /\ Copies /\ Enrolled /\ Ending

LEMMA ShutdownIsEntered == ASSUME Init PROVE Shutdown
BY Sentinels DEF Init, EmptyQueue, Shutdown, WriterIsHeld, Copies, Enrolled, Ending, Actors

LEMMA ShutdownStays == ASSUME IInv, Shutdown, [Next]_vars PROVE Shutdown'
BY WriterStays, CopiesStay, EnrolledStays, EndingStays DEF Shutdown

\* What the end of a quiesced connection leaves behind.
LEMMA ShutdownLeavesNothing ==
  ASSUME IInv, Shutdown PROVE ShutdownIsHonest
<1>1. /\ Setting /\ q \in QueueStates /\ writer \in Actors \cup {Free}
      /\ active \in [Ids -> Reqs \cup {NoReq}] /\ toCancel \in [Actors -> SUBSET Reqs]
  BY SettingHolds, Types DEF IInv
<1>2. FailureIsReported
  BY DEF Shutdown, Ending, FailureIsReported, PumpAt
<1>3. SUFFICES ASSUME pump.hook
               PROVE  /\ \A r \in Reqs : ~Live(r)
                      /\ WorkerAt("gone") /\ writer = Free
                      /\ \A a \in Actors : toCancel[a] = {}
                      /\ \A i \in Ids : active[i] = NoReq
                      /\ q.registered = {} /\ q.inFlight = 0
                      /\ Modern => Reserved(q) = {} /\ q.bytes = 0
  BY <1>2 DEF ShutdownIsHonest, HookIsLast
<1>4. pump.pc \in {"finish", "done"} /\ worker.pc = "gone" /\ q.inFlight = 0
  BY <1>3 DEF Shutdown, Ending
<1>5. \A r \in Reqs : child[r] \in {"idle", "gone"}
  BY <1>4, NobodyIsLeft
<1>6. writer = Free
  BY <1>1, <1>4, <1>5 DEF Shutdown, WriterIsHeld, Actors
<1>7. \A a \in Actors : toCancel[a] = {}
  BY <1>4, <1>5 DEF Shutdown, Copies, Actors
<1>8. \A i \in Ids : active[i] = NoReq
  <2>1. SUFFICES ASSUME NEW i \in Ids, active[i] # NoReq PROVE FALSE
    OBVIOUS
  <2>2. active[i] \in Reqs
    BY <1>1, <2>1
  <2>. QED BY <1>4, <1>5, <2>1, <2>2 DEF IInv, Custody, Guarded, Guarding, WorkerGuarding
<1>9. q.registered = {}
  BY <1>1, <1>4, <1>5 DEF Shutdown, Enrolled, QueueStates
<1>10. ASSUME Modern PROVE Reserved(q) = {} /\ q.bytes = 0
  <2>1. Queued = {}
    BY <1>10 DEF IInv, Custody, Eras, Queued
  <2>2. \A r \in Reqs : ~HoldsId(r) /\ ~HoldsBytes(r)
    BY <1>4, <1>5, <2>1 DEF HoldsId, HoldsBytes, ChildIds, ChildBytes, Busy, PumpIds, PumpBytes
  <2>3. Reserved(q) = {}
    BY <1>1, <2>2 DEF IInv, Custody, Owned, Reserved, QueueStates
  <2>4. Bytes = {}
    BY <2>2 DEF Bytes
  <2>5. q.bytes = 0
    BY <1>1, <2>4, WeightFacts, Sentinels DEF IInv, Custody, BytesAreCounted, Setting
  <2>. QED BY <2>3, <2>5
<1>. QED BY <1>3, <1>4, <1>5, <1>6, <1>7, <1>8, <1>9, <1>10 DEF Live, WorkerAt

\* For every set of frames, ids, limits and faults, the shutdown hook
\* runs only when no child, worker, writer, copy, active entry or registration
\* is left, and a quiesced connection's exit code names every latched failure
\* (run_loop_pump_with_policy, wait_for_modern_drain).
THEOREM ShutdownHolds == Spec => []ShutdownIsHonest
<1>1. Init => Shutdown
  BY ShutdownIsEntered
<1>2. IInv /\ Shutdown /\ [Next]_vars => Shutdown'
  BY ShutdownStays
<1>3. IInv /\ Shutdown => ShutdownIsHonest
  BY ShutdownLeavesNothing
<1>. QED BY <1>1, <1>2, <1>3, CustodyHolds, PTL DEF Spec

-----------------------------------------------------------------------------
(* Cancellation.  Only a request past its dispatch finalizes, every trace of  *)
(* a cancellation has a cause, and what a stop did not copy is cancelled when *)
(* it registers.                                                             *)

\* Who may still run with its word.
Serving == {"waiting", "begun", "guarded", "start_cancelled", "running", "progress", "respond",
            "replying"}
PastStop == {"active", "children", "children_late", "worker", "worker_late", "finish", "done"}

Asked(r) == r \in accepted \/ q.stopping \/ failed

\* A frame that was not handed over yet has not closed its race.
Open ==
  /\ \A r \in Reqs : r \notin Taken => word[r] # "finalizing"
  /\ pump.pc \in Hands => word[pump.req] # "finalizing"
\* Who answers, and with what.
Replying ==
  /\ \A r \in Reqs : child[r] \in {"respond", "replying"} => Correlated(r)
  /\ \A r \in Reqs : child[r] = "replying" => word[r] # "active"
  /\ pump.pc = "reply" => pump.reply # "cancelled"
  /\ worker.pc \in {"running", "respond", "replying"} => Correlated(worker.job)
  /\ worker.pc \in {"respond", "replying"} => worker.kind # "cancelled"
\* A request past its dispatch is marked, and only such a one finalizes.
Dispatched ==
  /\ \A r \in Reqs : child[r] \in {"running", "progress", "respond", "replying"}
                    /\ Correlated(r) => IdOf[r] \in q.dispatching
  /\ worker.pc \in {"check", "handle", "running", "respond", "replying"}
       /\ Correlated(worker.job) => IdOf[worker.job] \in q.dispatching
  /\ \A i \in Ids : \A r \in Reqs :
       q.owner[i] = r /\ word[r] = "finalizing" => i \in q.dispatching
\* Every trace of a cancellation has a cause: a cancelled word, a start that
\* was cancelled, a mark under an id, and a copy a stop took.
WordsAreAsked == \A r \in Reqs : word[r] = "cancelled" /\ Correlated(r) => Asked(r)
StartsAreAsked == \A r \in Reqs : child[r] = "start_cancelled" => Asked(r)
MarksAreAsked == \A i \in Ids : i \in q.cancelled => \E r \in Reqs : q.owner[i] = r /\ Asked(r)
CopiesAreAsked ==
  /\ \A a \in Actors : \A r \in Reqs : r \in toCancel[a] /\ Correlated(r) => q.stopping
  /\ pump.pc \in PastStop => q.stopping
Told(r) == "cancelled" \in {replies[r][n] : n \in DOMAIN replies[r]}
TellsWhy == \A r \in Reqs : Told(r) => Asked(r)
\* A child is registered, or was cancelled when a stop kept it from it.
Enlisted ==
  /\ \A r \in Reqs : child[r] \in Serving => r \in q.registered \/ word[r] # "active"
  /\ pump.pc = "spawn" => pump.req \in q.registered \/ word[pump.req] # "active"
\* What a stop copied is cancelled or still to be cancelled.
Reached(r) == word[r] # "active" \/ \E a \in Actors : r \in toCancel[a]
Stopped ==
  q.stopping =>
    /\ \A r \in Reqs : r \in q.registered => Reached(r)
    /\ \A i \in Ids : \A r \in Reqs : q.owner[i] = r => Reached(r)

\* Whom a holder owns its id with.
LEMMA Owners ==
  ASSUME IInv
  PROVE  /\ \A s \in Reqs : child[s] \in ChildIds /\ Correlated(s) =>
              IdOf[s] \in Ids /\ q.owner[IdOf[s]] = s
         /\ worker.pc \in Busy /\ Correlated(worker.job) =>
              IdOf[worker.job] \in Ids /\ q.owner[IdOf[worker.job]] = worker.job
         /\ pump.pc \in PumpIds /\ Correlated(pump.req) =>
              IdOf[pump.req] \in Ids /\ q.owner[IdOf[pump.req]] = pump.req
         /\ \A i \in Ids : \A r \in Reqs : q.owner[i] = r => IdOf[r] = i /\ Correlated(r)
<1>1. /\ \A r \in Reqs : HoldsId(r) /\ Correlated(r) => IdOf[r] \in Ids /\ q.owner[IdOf[r]] = r
      /\ \A i \in Ids : \A r \in Reqs : q.owner[i] = r => IdOf[r] = i
  BY SettingHolds DEF IInv, Custody, Owned, Correlated, Setting
<1>2. \A i \in Ids : \A r \in Reqs : q.owner[i] = r => Correlated(r)
  BY <1>1, Sentinels DEF Correlated
<1>3. \A s \in Reqs : child[s] \in ChildIds => HoldsId(s)
  BY DEF HoldsId
<1>4. worker.pc \in Busy => worker.job \in Reqs /\ HoldsId(worker.job)
  BY AtHand DEF HoldsId, Job
<1>5. pump.pc \in PumpIds => pump.req \in Reqs /\ HoldsId(pump.req)
  BY AtHand DEF HoldsId, PumpIds, PumpBytes, Hands, Attending
<1>. QED BY <1>1, <1>2, <1>3, <1>4, <1>5

\* The worker and the children never work side by side, nor on what the pump
\* has in hand; who holds an id was taken from the peer.
LEMMA Apart ==
  ASSUME IInv
  PROVE  /\ worker.pc \in Busy => ~Modern /\ \A s \in Reqs : child[s] = "idle"
         /\ \A s \in Reqs : child[s] # "idle" => Modern
         /\ pump.pc \in Hands => /\ child[pump.req] = "idle" /\ pump.req \notin Queued
                                 /\ worker.pc \in Busy => worker.job # pump.req
         /\ pump.pc = "recv" /\ next <= Len(Frames) => Frames[next] \in Reqs /\ Frames[next] \notin Taken
         /\ \A s \in Reqs : s \notin Taken => child[s] = "idle" /\ s \notin Queued
         /\ worker.pc \in Busy => worker.job \in Taken /\ worker.job \notin Queued
         /\ pump.pc \in Attending => pump.req \in Taken
         /\ \A i \in Ids : \A r \in Reqs : q.owner[i] = r => r \in Taken
<1>1. /\ Stages /\ Eras /\ Mail /\ Fresh /\ Owned /\ Setting
  BY SettingHolds DEF IInv, Custody
<1>2. worker.pc \in Busy => ~Modern /\ \A s \in Reqs : child[s] = "idle"
  BY <1>1 DEF Eras, Busy
<1>3. \A s \in Reqs : child[s] # "idle" => Modern
  BY <1>1 DEF Eras
<1>4. next <= Len(Frames) => Frames[next] \in Reqs /\ Frames[next] \notin Taken
  <2>1. next \in 1..(Len(Frames) + 1) /\ Frames \in Seq(Reqs)
    BY <1>1, Types DEF IInv, Setting
  <2>2. SUFFICES ASSUME next <= Len(Frames) PROVE Frames[next] \in Reqs /\ Frames[next] \notin Taken
    OBVIOUS
  <2>3. next \in DOMAIN Frames /\ \A n \in 1..(next - 1) : n \in DOMAIN Frames /\ n # next
    BY <2>1, <2>2
  <2>. QED BY <1>1, <2>1, <2>3 DEF Taken, Setting
<1>5. /\ \A s \in Reqs : s \notin Taken => child[s] = "idle" /\ s \notin Queued
      /\ worker.pc \in Busy => worker.job \in Taken /\ worker.job \notin Queued
      /\ pump.pc \in Attending => pump.req \in Taken
  BY <1>1 DEF Fresh, Mail, Stages, Job
<1>6. \A i \in Ids : \A r \in Reqs : q.owner[i] = r => r \in Taken
  <2>1. \A r \in Reqs : HoldsId(r) => r \in Taken
    BY <1>5 DEF HoldsId, Job, ChildIds, PumpIds, PumpBytes, Attending, Hands
  <2>. QED BY <1>1, <2>1 DEF Owned
<1>. QED BY <1>1, <1>2, <1>3, <1>4, <1>5, <1>6 DEF Fresh, Job

\* Whoever gives up its id leaves the others theirs.
LEMMA OwnersLeft ==
  ASSUME Setting, NEW r \in Reqs, Releases(q, q', r)
  PROVE  /\ \A i \in Ids : \A s \in Reqs : q'.owner[i] = s <=> q.owner[i] = s /\ i # IdOf[r]
         /\ \A i \in Ids : i # IdOf[r] => /\ i \in q'.cancelled <=> i \in q.cancelled
                                          /\ i \in q'.dispatching <=> i \in q.dispatching
         /\ IdOf[r] \in Ids => IdOf[r] \notin q'.cancelled
         /\ q'.registered = q.registered /\ q'.stopping = q.stopping
BY Sentinels DEF Releases, Correlated, Setting

LEMMA DispatchedKept ==
  ASSUME IInv, Dispatched, Still, NEW r \in Reqs, HoldsId(r), Releases(q, q', r), word' = word,
         \A s \in Reqs : child'[s] \in {"running", "progress", "respond", "replying"} =>
           child[s] = child'[s] /\ s # r,
         worker'.pc \in {"check", "handle", "running", "respond", "replying"} =>
           worker'.pc = worker.pc /\ worker'.job = worker.job /\ worker.job # r
  PROVE  Dispatched'
<1>1. Setting
  BY SettingHolds DEF IInv
<1>2. \A s \in Reqs : HoldsId(s) /\ Correlated(s) /\ s # r
                     /\ IdOf[s] \in q.dispatching => IdOf[s] \in q'.dispatching
  <2>1. SUFFICES ASSUME NEW s \in Reqs, HoldsId(s), Correlated(s), s # r
                 PROVE  IdOf[s] \in q.dispatching => IdOf[s] \in q'.dispatching
    OBVIOUS
  <2>2. IdOf[s] \in Ids /\ q.owner[IdOf[s]] = s
    BY <1>1, <2>1 DEF IInv, Custody, Owned, Correlated, Setting
  <2>3. IdOf[s] # IdOf[r]
    BY <2>1, <2>2 DEF IInv, Custody, Owned, Correlated
  <2>. QED BY <1>1, <2>2, <2>3, OwnersLeft
<1>3. \A s \in Reqs : child'[s] \in {"running", "progress", "respond", "replying"} /\ Correlated(s)
           => IdOf[s] \in q'.dispatching
  BY <1>2 DEF Dispatched, HoldsId, ChildIds
<1>4. worker'.pc \in {"check", "handle", "running", "respond", "replying"} /\ Correlated(worker'.job)
           => IdOf[worker'.job] \in q'.dispatching
  <2>1. worker.pc \in {"check", "handle", "running", "respond", "replying"} =>
             worker.job \in Reqs /\ HoldsId(worker.job)
    BY AtHand DEF Busy, HoldsId, Job
  <2>. QED BY <1>2, <2>1 DEF Dispatched
<1>5. \A i \in Ids : \A s \in Reqs : q'.owner[i] = s /\ word'[s] = "finalizing" => i \in q'.dispatching
  BY <1>1, OwnersLeft DEF Dispatched
<1>. QED BY <1>3, <1>4, <1>5 DEF Dispatched, Still, Correlated

\* A request is told of a cancellation by the frame that says so.
LEMMA ToldByFrame ==
  ASSUME replies \in [Reqs -> Seq(Kinds)], NEW r \in Reqs, NEW k \in Kinds,
         replies' = [replies EXCEPT ![r] = Append(@, k)]
  PROVE  \A s \in Reqs : Told(s)' => Told(s) \/ (s = r /\ k = "cancelled")
<1>1. SUFFICES ASSUME NEW s \in Reqs, Told(s)' PROVE Told(s) \/ (s = r /\ k = "cancelled")
  OBVIOUS
<1>2. CASE s # r
  BY <1>1, <1>2 DEF Told
<1>3. CASE s = r
  <2>1. replies[r] \in Seq(Kinds) /\ replies'[r] = Append(replies[r], k)
    OBVIOUS
  <2>2. PICK n \in DOMAIN Append(replies[r], k) : Append(replies[r], k)[n] = "cancelled"
    BY <1>1, <1>3, <2>1 DEF Told
  <2>3. (n \in DOMAIN replies[r] /\ replies[r][n] = "cancelled") \/ k = "cancelled"
    BY <2>1, <2>2
  <2>. QED BY <1>3, <2>3 DEF Told
<1>. QED BY <1>2, <1>3

LEMMA OpenStays == ASSUME IInv, Open, [Next]_vars PROVE Open'
<1>1. /\ Setting /\ Still
      /\ word \in [Reqs -> Words]
      /\ pump \in PumpType
  BY SettingHolds, StillAlways, Types DEF IInv
<1>2. next' = next => Taken' = Taken
  BY <1>1 DEF Still, Taken
<1>3. /\ pump.pc \in Hands => /\ pump.req \in Reqs /\ child[pump.req] = "idle"
                              /\ worker.pc \in Busy => worker.job # pump.req
      /\ worker.pc \in Busy => worker.job \in Taken
      /\ \A s \in Reqs : s \notin Taken => child[s] = "idle"
  BY Apart, AtHand DEF Attending
<1>4. ASSUME UNCHANGED <<word, pump, next>> PROVE Open'
  BY <1>1, <1>4 DEF Open, Hands, Still, Taken
<1>5. CASE ReceiveRequest
  <2>1. /\ Frames[next] \in Reqs /\ Frames[next] \notin Taken /\ pump'.req = Frames[next]
        /\ next' = next + 1 /\ word' = word
    BY <1>1, <1>5, Apart DEF ReceiveRequest, PumpAt, PumpType, requests
  <2>2. next \in Nat /\ Taken \subseteq Taken'
    BY <1>1, <2>1, Types DEF Taken, Still, IInv
  <2>. QED BY <1>1, <2>1, <2>2 DEF Open, Still
<1>6. CASE DrainResponses
  <2>1. pump'.pc = "stop" /\ next' = next /\ word' = word
    BY <1>1, <1>6 DEF DrainResponses, GoTo, PumpType, requests, peer
  <2>. QED BY <1>1, <1>2, <2>1 DEF Open, Hands
<1>. USE <1>1, <1>2, <1>3, Sentinels DEF Open, Hands, Still, PumpGoes, PumpAnswers, KeepsEnd,
       PumpRefuses, Releases, ChildMoves, PumpGivesUp, OnlyThePump, PumpSteps
<1>7. CASE CheckActive
  BY <1>7, CheckActiveEffect
<1>8. CASE AdmitRequest
  BY <1>8, AdmitRequestEffect
<1>9. CASE ReserveModernSlot
  BY <1>9, ReserveModernSlotEffect DEF SameMarks
<1>10. CASE ReserveQueuedBytes
  BY <1>10, ReserveQueuedBytesEffect DEF SameMarks
<1>11. CASE RegisterChild
  BY <1>11, RegisterChildEffect
<1>12. CASE Spawn
  BY <1>12, SpawnEffect
<1>13. CASE SpawnRefused
  BY <1>13, SpawnRefusedEffect
<1>14. CASE RefusedDropped
  BY <1>14, RefusedDroppedEffect
<1>15. CASE Enqueue
  BY <1>15, EnqueueEffect
<1>16. CASE BindPrincipal
  BY <1>16, BindPrincipalEffect
<1>17. CASE PumpReply
  BY <1>17, PumpReplyEffect DEF Answers
<1>18. ASSUME NEW i \in Ids, ReceiveCancellation(i) PROVE Open'
  BY <1>18, ReceiveCancellationEffect DEF SameOwners
<1>19. CASE CancelActiveRequest
  BY <1>19, CancelActiveRequestEffect
<1>20. CASE ReceiveLegacyResponse
  BY <1>20, ReceiveLegacyResponseEffect
<1>21. CASE WorkerFailureSeen
  BY <1>21, WorkerFailureSeenEffect
<1>22. CASE EndOfInput
  BY <1>22, EndOfInputEffect
<1>23. CASE ReceiveStops
  BY <1>23, ReceiveStopsEffect
<1>24. CASE CancelNotifications
  BY <1>24 DEF CancelNotifications, PumpAt, Uncorrelated, GoTo, requests, channels, children, peer,
         Correlated, wire, PumpType
<1>25. CASE PumpStop
  BY <1>25, PumpStopEffect DEF Snapshot, SameOwners
<1>26. CASE CancelActive
  BY <1>26 DEF CancelActive, PumpAt, GoTo, requests, channels, children, peer, wire, PumpType
<1>27. CASE AwaitChildren
  BY <1>27, AwaitChildrenEffect
<1>28. CASE AwaitWorker
  BY <1>28, AwaitWorkerEffect
<1>29. CASE Finish
  BY <1>29, FinishEffect
<1>30. ASSUME NEW r \in Reqs, ChildSendProgress(r) PROVE Open'
  BY <1>30, ChildSendProgressEffect
<1>31. ASSUME NEW r \in Reqs, ChildFinalize(r) PROVE Open'
  BY <1>31, ChildFinalizeEffect
<1>32. CASE WorkerResolve
  BY <1>32, WorkerResolveEffect DEF WorkerMoves, Busy
<1>33. ASSUME NEW a \in Actors, CancelCopied(a) PROVE Open'
  BY <1>33, CancelCopiedEffect
<1>. QED BY <1>4, <1>5, <1>6, <1>7, <1>8, <1>9, <1>10, <1>11, <1>12, <1>13, <1>14, <1>15, <1>16,
         <1>17, <1>18, <1>19, <1>20, <1>21, <1>22, <1>23, <1>24, <1>25, <1>26, <1>27, <1>28,
         <1>29, <1>30, <1>31, <1>32, <1>33, Writers
         DEF PumpStep

LEMMA ReplyingStays == ASSUME IInv, Replying, [Next]_vars PROVE Replying'
<1>1. /\ Setting /\ Still
      /\ word \in [Reqs -> Words]
      /\ pump \in PumpType
      /\ child \in [Reqs -> ChildPcs]
      /\ worker \in WorkerType
  BY SettingHolds, StillAlways, Types DEF IInv
<1>2. /\ pump.pc \in {"register", "spawn", "enqueue"} => pump.req \in Reqs /\ child[pump.req] = "idle"
      /\ worker.pc \in Busy => worker.job \in Reqs
  BY AtHand DEF Hands, Attending
<1>3. ASSUME UNCHANGED <<word, pump, child, worker>> PROVE Replying'
  BY <1>1, <1>3 DEF Replying, Correlated, Still
<1>. USE <1>1, <1>2, Sentinels DEF Replying, Correlated, PumpAt, requests, channels, children,
       wire, Still, peer, PumpGoes, PumpAnswers, KeepsEnd, PumpRefuses, SameMarks, Releases,
       ChildMoves, PumpGivesUp, Answers, SameOwners, OnlyThePump, PumpSteps, Snapshot, ChildAt,
       ChildGoes, WorkerAt, WorkerMoves, WorkerEnds, WorkerGoes
<1>4. CASE ReceiveRequest
  BY <1>4 DEF ReceiveRequest, PumpType
<1>5. CASE CheckActive
  BY <1>5, CheckActiveEffect
<1>6. CASE AdmitRequest
  BY <1>6, AdmitRequestEffect
<1>7. CASE ReserveModernSlot
  BY <1>7, ReserveModernSlotEffect
<1>8. CASE ReserveQueuedBytes
  BY <1>8, ReserveQueuedBytesEffect
<1>9. CASE RegisterChild
  BY <1>9, RegisterChildEffect
<1>10. CASE Spawn
  BY <1>10, SpawnEffect
<1>11. CASE SpawnRefused
  BY <1>11, SpawnRefusedEffect
<1>12. CASE RefusedDropped
  BY <1>12, RefusedDroppedEffect
<1>13. CASE Enqueue
  BY <1>13, EnqueueEffect
<1>14. CASE BindPrincipal
  BY <1>14, BindPrincipalEffect
<1>15. CASE PumpReply
  BY <1>15, PumpReplyEffect
<1>16. ASSUME NEW i \in Ids, ReceiveCancellation(i) PROVE Replying'
  BY <1>16, ReceiveCancellationEffect
<1>17. CASE CancelActiveRequest
  BY <1>17, CancelActiveRequestEffect
<1>18. CASE ReceiveLegacyResponse
  BY <1>18, ReceiveLegacyResponseEffect
<1>19. CASE WorkerFailureSeen
  BY <1>19, WorkerFailureSeenEffect
<1>20. CASE EndOfInput
  BY <1>20, EndOfInputEffect
<1>21. CASE ReceiveStops
  BY <1>21, ReceiveStopsEffect
<1>22. CASE CancelNotifications
  BY <1>22 DEF CancelNotifications, Uncorrelated, GoTo, PumpType
<1>23. CASE DrainResponses
  BY <1>23, DrainResponsesEffect
<1>24. CASE PumpStop
  BY <1>24, PumpStopEffect
<1>25. CASE CancelActive
  BY <1>25 DEF CancelActive, GoTo, PumpType
<1>26. CASE AwaitChildren
  BY <1>26, AwaitChildrenEffect
<1>27. CASE AwaitWorker
  BY <1>27, AwaitWorkerEffect
<1>28. CASE Finish
  BY <1>28, FinishEffect
<1>29. ASSUME NEW r \in Reqs, ChildAdmitted(r) PROVE Replying'
  BY <1>29 DEF ChildAdmitted
<1>30. ASSUME NEW r \in Reqs, ChildUnpolled(r) PROVE Replying'
  BY <1>30 DEF ChildUnpolled
<1>31. ASSUME NEW r \in Reqs, ChildGuard(r) PROVE Replying'
  BY <1>31 DEF ChildGuard
<1>32. ASSUME NEW r \in Reqs, ChildStart(r) PROVE Replying'
  BY <1>32, ChildStartEffect
<1>33. ASSUME NEW r \in Reqs, ChildPlainReply(r) PROVE Replying'
  BY <1>33, ChildPlainReplyEffect
<1>34. ASSUME NEW r \in Reqs, ChildProgress(r) PROVE Replying'
  BY <1>34 DEF ChildProgress
<1>35. ASSUME NEW r \in Reqs, ChildSendProgress(r) PROVE Replying'
  BY <1>35, ChildSendProgressEffect
<1>36. ASSUME NEW r \in Reqs, ChildReturn(r) PROVE Replying'
  BY <1>36 DEF ChildReturn
<1>37. ASSUME NEW r \in Reqs, ChildPanic(r) PROVE Replying'
  BY <1>37 DEF ChildPanic
<1>38. ASSUME NEW r \in Reqs, ChildFinalize(r) PROVE Replying'
  BY <1>38, ChildFinalizeEffect
<1>39. ASSUME NEW r \in Reqs, ChildReply(r) PROVE Replying'
  BY <1>39, ChildReplyEffect
<1>40. ASSUME NEW r \in Reqs, ChildUnguard(r) PROVE Replying'
  BY <1>40 DEF ChildUnguard, RemoveOwn
<1>41. ASSUME NEW r \in Reqs, ChildSettle(r) PROVE Replying'
  BY <1>41 DEF ChildSettle
<1>42. ASSUME NEW r \in Reqs, ChildFail(r) PROVE Replying'
  BY <1>42 DEF ChildFail
<1>43. ASSUME NEW r \in Reqs, ChildStop(r) PROVE Replying'
  BY <1>43, ChildStopEffect
<1>44. ASSUME NEW r \in Reqs, ReleaseReservation(r) PROVE Replying'
  BY <1>44, ReleaseReservationEffect
<1>45. CASE WorkerLeaves
  BY <1>45 DEF WorkerLeaves, Leave, WorkerType
<1>46. CASE WorkerTake
  BY <1>46, WorkerTakeEffect
<1>47. CASE WorkerReleaseBytes
  BY <1>47, WorkerReleaseBytesEffect
<1>48. CASE WorkerAdmitted
  BY <1>48, WorkerAdmittedEffect
<1>49. CASE WorkerBegin
  BY <1>49, WorkerBeginEffect
<1>50. CASE WorkerCheck
  BY <1>50, WorkerCheckEffect
<1>51. CASE WorkerHandle
  BY <1>51, WorkerHandleEffect
<1>52. CASE WorkerReturn
  BY <1>52 DEF WorkerReturn, WorkerType
<1>53. CASE WorkerResolve
  BY <1>53, WorkerResolveEffect
<1>54. CASE WorkerReply
  BY <1>54, WorkerReplyEffect
<1>55. CASE WorkerUnguard
  BY <1>55 DEF WorkerUnguard, RemoveOwn, Job, WorkerType
<1>56. CASE WorkerDiscard
  BY <1>56, WorkerDiscardEffect
<1>57. CASE WorkerEnd
  BY <1>57 DEF WorkerEnd, WorkerType
<1>58. CASE WorkerFail
  BY <1>58 DEF WorkerFail, WorkerType
<1>59. CASE WorkerStop
  BY <1>59, WorkerStopEffect
<1>60. CASE WorkerStopped
  BY <1>60 DEF WorkerStopped, WorkerType
<1>61. ASSUME NEW a \in Actors, CancelCopied(a) PROVE Replying'
  BY <1>61, CancelCopiedEffect
<1>. QED BY <1>3, <1>4, <1>5, <1>6, <1>7, <1>8, <1>9, <1>10, <1>11, <1>12, <1>13, <1>14, <1>15,
         <1>16, <1>17, <1>18, <1>19, <1>20, <1>21, <1>22, <1>23, <1>24, <1>25, <1>26, <1>27,
         <1>28, <1>29, <1>30, <1>31, <1>32, <1>33, <1>34, <1>35, <1>36, <1>37, <1>38, <1>39,
         <1>40, <1>41, <1>42, <1>43, <1>44, <1>45, <1>46, <1>47, <1>48, <1>49, <1>50, <1>51,
         <1>52, <1>53, <1>54, <1>55, <1>56, <1>57, <1>58, <1>59, <1>60, <1>61, Writers
         DEF PumpStep, ChildStep, WorkerStep

LEMMA EnlistedStays == ASSUME IInv, Enlisted, [Next]_vars PROVE Enlisted'
<1>1. /\ Setting /\ Still
      /\ q \in QueueStates
      /\ word \in [Reqs -> Words]
      /\ pump \in PumpType
      /\ child \in [Reqs -> ChildPcs]
  BY SettingHolds, StillAlways, Types DEF IInv
<1>2. /\ pump.pc \in {"register", "spawn", "enqueue"} => pump.req \in Reqs /\ child[pump.req] = "idle"
      /\ worker.pc \in Busy => worker.job \in Reqs
  BY AtHand DEF Hands, Attending
<1>3. ASSUME UNCHANGED <<q, word, pump, child>> PROVE Enlisted'
  BY <1>1, <1>3 DEF Enlisted, Serving, Still
<1>. USE <1>1, <1>2, Sentinels DEF Enlisted, Serving, PumpAt, Correlated, requests, channels,
       children, wire, Still, peer, PumpGoes, PumpAnswers, KeepsEnd, PumpRefuses, SameMarks,
       Releases, ChildMoves, PumpGivesUp, Answers, SameOwners, OnlyThePump, PumpSteps, Snapshot,
       ChildAt, ChildGoes, WorkerMoves, WorkerEnds
<1>4. CASE ReceiveRequest
  BY <1>4 DEF ReceiveRequest, PumpType
<1>5. CASE CheckActive
  BY <1>5, CheckActiveEffect DEF QueueStates
<1>6. CASE AdmitRequest
  BY <1>6, AdmitRequestEffect DEF QueueStates
<1>7. CASE ReserveModernSlot
  BY <1>7, ReserveModernSlotEffect DEF QueueStates
<1>8. CASE ReserveQueuedBytes
  BY <1>8, ReserveQueuedBytesEffect DEF QueueStates
<1>9. CASE RegisterChild
  BY <1>9, RegisterChildEffect DEF QueueStates
<1>10. CASE Spawn
  BY <1>10, SpawnEffect DEF QueueStates
<1>11. CASE SpawnRefused
  BY <1>11, SpawnRefusedEffect DEF QueueStates
<1>12. CASE RefusedDropped
  BY <1>12, RefusedDroppedEffect DEF QueueStates
<1>13. CASE Enqueue
  BY <1>13, EnqueueEffect DEF QueueStates
<1>14. CASE BindPrincipal
  BY <1>14, BindPrincipalEffect DEF QueueStates
<1>15. CASE PumpReply
  BY <1>15, PumpReplyEffect DEF QueueStates
<1>16. ASSUME NEW i \in Ids, ReceiveCancellation(i) PROVE Enlisted'
  BY <1>16, ReceiveCancellationEffect DEF QueueStates
<1>17. CASE CancelActiveRequest
  BY <1>17, CancelActiveRequestEffect DEF QueueStates
<1>18. CASE ReceiveLegacyResponse
  BY <1>18, ReceiveLegacyResponseEffect DEF QueueStates
<1>19. CASE WorkerFailureSeen
  BY <1>19, WorkerFailureSeenEffect DEF QueueStates
<1>20. CASE EndOfInput
  BY <1>20, EndOfInputEffect DEF QueueStates
<1>21. CASE ReceiveStops
  BY <1>21, ReceiveStopsEffect DEF QueueStates
<1>22. CASE CancelNotifications
  BY <1>22 DEF CancelNotifications, Uncorrelated, GoTo, PumpType
<1>23. CASE DrainResponses
  BY <1>23, DrainResponsesEffect DEF QueueStates
<1>24. CASE PumpStop
  BY <1>24, PumpStopEffect DEF QueueStates
<1>25. CASE CancelActive
  BY <1>25 DEF CancelActive, GoTo, PumpType
<1>26. CASE AwaitChildren
  BY <1>26, AwaitChildrenEffect DEF QueueStates
<1>27. CASE AwaitWorker
  BY <1>27, AwaitWorkerEffect DEF QueueStates
<1>28. CASE Finish
  BY <1>28, FinishEffect DEF QueueStates
<1>29. ASSUME NEW r \in Reqs, ChildAdmitted(r) PROVE Enlisted'
  BY <1>29 DEF ChildAdmitted
<1>30. ASSUME NEW r \in Reqs, ChildUnpolled(r) PROVE Enlisted'
  BY <1>30 DEF ChildUnpolled
<1>31. ASSUME NEW r \in Reqs, ChildGuard(r) PROVE Enlisted'
  BY <1>31 DEF ChildGuard
<1>32. ASSUME NEW r \in Reqs, ChildStart(r) PROVE Enlisted'
  BY <1>32, ChildStartEffect DEF QueueStates
<1>33. ASSUME NEW r \in Reqs, ChildPlainReply(r) PROVE Enlisted'
  BY <1>33, ChildPlainReplyEffect DEF QueueStates
<1>34. ASSUME NEW r \in Reqs, ChildProgress(r) PROVE Enlisted'
  BY <1>34 DEF ChildProgress
<1>35. ASSUME NEW r \in Reqs, ChildSendProgress(r) PROVE Enlisted'
  BY <1>35, ChildSendProgressEffect DEF QueueStates
<1>36. ASSUME NEW r \in Reqs, ChildReturn(r) PROVE Enlisted'
  BY <1>36 DEF ChildReturn
<1>37. ASSUME NEW r \in Reqs, ChildPanic(r) PROVE Enlisted'
  BY <1>37 DEF ChildPanic
<1>38. ASSUME NEW r \in Reqs, ChildFinalize(r) PROVE Enlisted'
  BY <1>38, ChildFinalizeEffect DEF QueueStates
<1>39. ASSUME NEW r \in Reqs, ChildReply(r) PROVE Enlisted'
  BY <1>39, ChildReplyEffect DEF QueueStates
<1>40. ASSUME NEW r \in Reqs, ChildUnguard(r) PROVE Enlisted'
  BY <1>40 DEF ChildUnguard, RemoveOwn
<1>41. ASSUME NEW r \in Reqs, ChildSettle(r) PROVE Enlisted'
  BY <1>41 DEF ChildSettle
<1>42. ASSUME NEW r \in Reqs, ChildFail(r) PROVE Enlisted'
  BY <1>42 DEF ChildFail
<1>43. ASSUME NEW r \in Reqs, ChildStop(r) PROVE Enlisted'
  BY <1>43, ChildStopEffect DEF QueueStates
<1>44. ASSUME NEW r \in Reqs, ReleaseReservation(r) PROVE Enlisted'
  BY <1>44, ReleaseReservationEffect DEF QueueStates
<1>45. CASE WorkerReleaseBytes
  BY <1>45, WorkerReleaseBytesEffect DEF QueueStates
<1>46. CASE WorkerAdmitted
  BY <1>46, WorkerAdmittedEffect DEF QueueStates
<1>47. CASE WorkerBegin
  BY <1>47, WorkerBeginEffect DEF QueueStates
<1>48. CASE WorkerCheck
  BY <1>48, WorkerCheckEffect DEF QueueStates
<1>49. CASE WorkerHandle
  BY <1>49, WorkerHandleEffect DEF QueueStates
<1>50. CASE WorkerResolve
  BY <1>50, WorkerResolveEffect DEF QueueStates
<1>51. CASE WorkerDiscard
  BY <1>51, WorkerDiscardEffect DEF QueueStates
<1>52. CASE WorkerStop
  BY <1>52, WorkerStopEffect DEF QueueStates
<1>53. ASSUME NEW a \in Actors, CancelCopied(a) PROVE Enlisted'
  BY <1>53, CancelCopiedEffect DEF QueueStates
<1>. QED BY <1>3, <1>4, <1>5, <1>6, <1>7, <1>8, <1>9, <1>10, <1>11, <1>12, <1>13, <1>14, <1>15,
         <1>16, <1>17, <1>18, <1>19, <1>20, <1>21, <1>22, <1>23, <1>24, <1>25, <1>26, <1>27,
         <1>28, <1>29, <1>30, <1>31, <1>32, <1>33, <1>34, <1>35, <1>36, <1>37, <1>38, <1>39,
         <1>40, <1>41, <1>42, <1>43, <1>44, <1>45, <1>46, <1>47, <1>48, <1>49, <1>50, <1>51,
         <1>52, <1>53, Writers
         DEF PumpStep, ChildStep

LEMMA ReachedStays == ASSUME IInv, Copies, NEW s \in Reqs, Reached(s), [Next]_vars PROVE Reached(s)'
<1>1. /\ Setting /\ Still
      /\ word \in [Reqs -> Words]
      /\ toCancel \in [Actors -> SUBSET Reqs]
  BY SettingHolds, StillAlways, Types DEF IInv
<1>2. ASSUME UNCHANGED <<word, toCancel>> PROVE Reached(s)'
  BY <1>1, <1>2 DEF Reached, Actors, Still
<1>. USE <1>1, Sentinels DEF Reached, Copies, Actors, Still, KeepsEnd, SameOwners, Snapshot,
       ChildMoves
<1>3. CASE RegisterChild
  BY <1>3, RegisterChildEffect DEF PumpGoes
<1>4. ASSUME NEW i \in Ids, ReceiveCancellation(i) PROVE Reached(s)'
  BY <1>4, ReceiveCancellationEffect
<1>5. CASE CancelActiveRequest
  BY <1>5, CancelActiveRequestEffect
<1>6. CASE CancelNotifications
  BY <1>6 DEF CancelNotifications, PumpAt, Uncorrelated, GoTo, requests, channels, children, peer,
         Correlated, wire
<1>7. CASE PumpStop
  BY <1>7, PumpStopEffect DEF PumpGoes
<1>8. CASE CancelActive
  BY <1>8 DEF CancelActive, PumpAt, GoTo, requests, channels, children, peer, wire
<1>9. ASSUME NEW r \in Reqs, ChildSendProgress(r) PROVE Reached(s)'
  BY <1>9, ChildSendProgressEffect
<1>10. ASSUME NEW r \in Reqs, ChildFinalize(r) PROVE Reached(s)'
  BY <1>10, ChildFinalizeEffect
<1>11. ASSUME NEW r \in Reqs, ChildStop(r) PROVE Reached(s)'
  BY <1>11, ChildStopEffect
<1>12. CASE WorkerResolve
  BY <1>12, WorkerResolveEffect DEF WorkerMoves
<1>13. CASE WorkerStop
  BY <1>13, WorkerStopEffect DEF WorkerMoves
<1>14. ASSUME NEW a \in Actors, CancelCopied(a) PROVE Reached(s)'
  BY <1>14, CancelCopiedEffect
<1>. QED BY <1>2, <1>3, <1>4, <1>5, <1>6, <1>7, <1>8, <1>9, <1>10, <1>11, <1>12, <1>13, <1>14,
         Writers

LEMMA StoppedStays == ASSUME IInv, Copies, Stopped, [Next]_vars PROVE Stopped'
<1>1. /\ Setting /\ Still
      /\ q \in QueueStates
  BY SettingHolds, StillAlways, Types DEF IInv
<1>2. \A s \in Reqs : Reached(s) => Reached(s)'
  BY ReachedStays
<1>3. ASSUME UNCHANGED <<q>> PROVE Stopped'
  BY <1>2, <1>3 DEF Stopped
<1>4. CASE AdmitRequest
  <2>1. /\ q'.stopping => q.stopping /\ q'.registered \subseteq q.registered
        /\ q'.stopping => \A j \in Ids : \A s \in Reqs : q'.owner[j] = s => q.owner[j] = s
    BY <1>1, <1>4, AdmitRequestEffect, Sentinels
  <2>. QED BY <1>2, <2>1 DEF Stopped
<1>5. CASE ReserveModernSlot
  <2>1. /\ q'.stopping => q.stopping /\ q'.registered \subseteq q.registered
        /\ q'.stopping => \A j \in Ids : \A s \in Reqs : q'.owner[j] = s => q.owner[j] = s
    BY <1>1, <1>5, ReserveModernSlotEffect, Sentinels, OwnersLeft DEF SameMarks
  <2>. QED BY <1>2, <2>1 DEF Stopped
<1>6. CASE ReserveQueuedBytes
  <2>1. /\ q'.stopping => q.stopping /\ q'.registered \subseteq q.registered
        /\ q'.stopping => \A j \in Ids : \A s \in Reqs : q'.owner[j] = s => q.owner[j] = s
    BY <1>1, <1>6, ReserveQueuedBytesEffect, Sentinels, OwnersLeft DEF SameMarks
  <2>. QED BY <1>2, <2>1 DEF Stopped
<1>7. CASE RegisterChild
  <2>1. /\ q'.stopping => q.stopping /\ q'.registered \subseteq q.registered
        /\ q'.stopping => \A j \in Ids : \A s \in Reqs : q'.owner[j] = s => q.owner[j] = s
    BY <1>1, <1>7, RegisterChildEffect, Sentinels
  <2>. QED BY <1>2, <2>1 DEF Stopped
<1>8. CASE Enqueue
  <2>1. /\ q'.stopping => q.stopping /\ q'.registered \subseteq q.registered
        /\ q'.stopping => \A j \in Ids : \A s \in Reqs : q'.owner[j] = s => q.owner[j] = s
    BY <1>1, <1>8, EnqueueEffect, Sentinels, OwnersLeft
  <2>. QED BY <1>2, <2>1 DEF Stopped
<1>9. ASSUME NEW i \in Ids, ReceiveCancellation(i) PROVE Stopped'
  <2>1. /\ q'.stopping => q.stopping /\ q'.registered \subseteq q.registered
        /\ q'.stopping => \A j \in Ids : \A s \in Reqs : q'.owner[j] = s => q.owner[j] = s
    BY <1>1, <1>9, ReceiveCancellationEffect, Sentinels DEF SameOwners
  <2>. QED BY <1>2, <2>1 DEF Stopped
<1>10. CASE PumpStop
  <2>1. \A s \in Reqs : s \in q.registered \/ (\E i \in Ids : q.owner[i] = s) => Reached(s)'
    BY <1>10, PumpStopEffect DEF Reached, Snapshot, Actors
  <2>. QED BY <1>1, <1>10, <2>1, PumpStopEffect DEF Stopped, Snapshot, SameOwners
<1>11. ASSUME NEW r \in Reqs, ChildStart(r) PROVE Stopped'
  <2>1. /\ q'.stopping => q.stopping /\ q'.registered \subseteq q.registered
        /\ q'.stopping => \A j \in Ids : \A s \in Reqs : q'.owner[j] = s => q.owner[j] = s
    BY <1>1, <1>11, ChildStartEffect, Sentinels DEF SameOwners
  <2>. QED BY <1>2, <2>1 DEF Stopped
<1>12. ASSUME NEW r \in Reqs, ChildStop(r) PROVE Stopped'
  <2>1. \A s \in Reqs : s \in q.registered \/ (\E i \in Ids : q.owner[i] = s) => Reached(s)'
    BY <1>12, ChildStopEffect DEF Reached, Snapshot, Actors
  <2>. QED BY <1>1, <1>12, <2>1, ChildStopEffect DEF Stopped, Snapshot, SameOwners
<1>13. ASSUME NEW r \in Reqs, ReleaseReservation(r) PROVE Stopped'
  <2>1. /\ q'.stopping => q.stopping /\ q'.registered \subseteq q.registered
        /\ q'.stopping => \A j \in Ids : \A s \in Reqs : q'.owner[j] = s => q.owner[j] = s
    BY <1>1, <1>13, ReleaseReservationEffect, Sentinels, OwnersLeft DEF SameMarks
  <2>. QED BY <1>2, <2>1 DEF Stopped
<1>14. CASE WorkerReleaseBytes
  <2>1. /\ q'.stopping => q.stopping /\ q'.registered \subseteq q.registered
        /\ q'.stopping => \A j \in Ids : \A s \in Reqs : q'.owner[j] = s => q.owner[j] = s
    BY <1>1, <1>14, WorkerReleaseBytesEffect, Sentinels DEF SameMarks
  <2>. QED BY <1>2, <2>1 DEF Stopped
<1>15. CASE WorkerAdmitted
  <2>1. worker.job \in Reqs /\ (q' = q \/ Releases(q, q', worker.job))
    BY <1>15, WorkerAdmittedEffect
  <2>2. /\ q'.stopping => q.stopping /\ q'.registered \subseteq q.registered
        /\ q'.stopping => \A j \in Ids : \A s \in Reqs : q'.owner[j] = s => q.owner[j] = s
    BY <1>1, <2>1, OwnersLeft
  <2>. QED BY <1>2, <2>2 DEF Stopped
<1>16. CASE WorkerBegin
  <2>1. /\ q'.stopping => q.stopping /\ q'.registered \subseteq q.registered
        /\ q'.stopping => \A j \in Ids : \A s \in Reqs : q'.owner[j] = s => q.owner[j] = s
    BY <1>1, <1>16, WorkerBeginEffect, Sentinels DEF SameOwners
  <2>. QED BY <1>2, <2>1 DEF Stopped
<1>17. CASE WorkerCheck
  <2>1. worker.job \in Reqs /\ (q' = q \/ Releases(q, q', worker.job))
    BY <1>17, WorkerCheckEffect
  <2>2. /\ q'.stopping => q.stopping /\ q'.registered \subseteq q.registered
        /\ q'.stopping => \A j \in Ids : \A s \in Reqs : q'.owner[j] = s => q.owner[j] = s
    BY <1>1, <2>1, OwnersLeft
  <2>. QED BY <1>2, <2>2 DEF Stopped
<1>18. CASE WorkerHandle
  <2>1. worker.job \in Reqs /\ (q' = q \/ Releases(q, q', worker.job))
    BY <1>18, WorkerHandleEffect
  <2>2. /\ q'.stopping => q.stopping /\ q'.registered \subseteq q.registered
        /\ q'.stopping => \A j \in Ids : \A s \in Reqs : q'.owner[j] = s => q.owner[j] = s
    BY <1>1, <2>1, OwnersLeft
  <2>. QED BY <1>2, <2>2 DEF Stopped
<1>19. CASE WorkerDiscard
  <2>1. /\ q'.stopping => q.stopping /\ q'.registered \subseteq q.registered
        /\ q'.stopping => \A j \in Ids : \A s \in Reqs : q'.owner[j] = s => q.owner[j] = s
    BY <1>1, <1>19, WorkerDiscardEffect, Sentinels, OwnersLeft
  <2>. QED BY <1>2, <2>1 DEF Stopped
<1>20. CASE WorkerStop
  <2>1. \A s \in Reqs : s \in q.registered \/ (\E i \in Ids : q.owner[i] = s) => Reached(s)'
    BY <1>20, WorkerStopEffect DEF Reached, Snapshot, Actors
  <2>. QED BY <1>1, <1>20, <2>1, WorkerStopEffect DEF Stopped, Snapshot, SameOwners
<1>. QED BY <1>3, <1>4, <1>5, <1>6, <1>7, <1>8, <1>9, <1>10, <1>11, <1>12, <1>13, <1>14, <1>15,
         <1>16, <1>17, <1>18, <1>19, <1>20, Writers

LEMMA DispatchedStays == ASSUME IInv, Open, Dispatched, [Next]_vars PROVE Dispatched'
<1>1. /\ Setting /\ Still
      /\ q \in QueueStates
      /\ word \in [Reqs -> Words]
      /\ child \in [Reqs -> ChildPcs]
      /\ worker \in WorkerType
  BY SettingHolds, StillAlways, Types DEF IInv
<1>2. /\ \A s \in Reqs : child[s] \in ChildIds /\ Correlated(s) =>
           IdOf[s] \in Ids /\ q.owner[IdOf[s]] = s
      /\ \A i \in Ids : \A s \in Reqs : q.owner[i] = s => IdOf[s] = i /\ Correlated(s)
  BY Owners
<1>3. ASSUME UNCHANGED <<q, word, child, worker>> PROVE Dispatched'
  BY <1>1, <1>3 DEF Dispatched, Correlated, Still
<1>4. CASE AdmitRequest
  <2>1. pump.req \in Reqs /\ word[pump.req] # "finalizing" /\ UNCHANGED <<child, worker, word>>
        /\ q'.dispatching = q.dispatching
    BY <1>4, AdmitRequestEffect DEF Open, Hands
  <2>2. \A i \in Ids : \A s \in Reqs : q'.owner[i] = s => q.owner[i] = s \/ s = pump.req
    BY <1>1, <1>4, AdmitRequestEffect DEF Setting, Correlated
  <2>. QED BY <1>1, <2>1, <2>2 DEF Dispatched, Still, Correlated
<1>5. CASE ReserveModernSlot
  <2>1. pump.req \in Reqs /\ HoldsId(pump.req) /\ UNCHANGED <<child, worker, word>>
    BY <1>5, ReserveModernSlotEffect DEF HoldsId, PumpIds, PumpBytes
  <2>2. CASE Releases(q, q', pump.req)
    <3>2. /\ \A s \in Reqs : child'[s] \in {"running", "progress", "respond", "replying"} =>
               child[s] = child'[s] /\ s # pump.req
          /\ worker'.pc \in {"check", "handle", "running", "respond", "replying"} =>
               worker'.pc = worker.pc /\ worker'.job = worker.job /\ worker.job # pump.req
      BY <1>5, <2>1, <2>2, ReserveModernSlotEffect, Apart DEF Hands, Busy
    <3>. QED BY <1>1, <2>1, <2>2, <3>2, DispatchedKept
  <2>3. CASE q'.owner = q.owner /\ q'.dispatching = q.dispatching
    BY <1>1, <1>5, <2>1, <2>3, ReserveModernSlotEffect DEF Dispatched, Still, Correlated
  <2>. QED BY <1>5, <2>2, <2>3, ReserveModernSlotEffect DEF SameMarks
<1>6. CASE ReserveQueuedBytes
  <2>1. pump.req \in Reqs /\ HoldsId(pump.req) /\ UNCHANGED <<child, worker, word>>
    BY <1>6, ReserveQueuedBytesEffect DEF HoldsId, PumpIds, PumpBytes
  <2>2. CASE Releases(q, q', pump.req)
    <3>2. /\ \A s \in Reqs : child'[s] \in {"running", "progress", "respond", "replying"} =>
               child[s] = child'[s] /\ s # pump.req
          /\ worker'.pc \in {"check", "handle", "running", "respond", "replying"} =>
               worker'.pc = worker.pc /\ worker'.job = worker.job /\ worker.job # pump.req
      BY <1>6, <2>1, <2>2, ReserveQueuedBytesEffect, Apart DEF Hands, Busy
    <3>. QED BY <1>1, <2>1, <2>2, <3>2, DispatchedKept
  <2>3. CASE q'.owner = q.owner /\ q'.dispatching = q.dispatching
    BY <1>1, <1>6, <2>1, <2>3, ReserveQueuedBytesEffect DEF Dispatched, Still, Correlated
  <2>. QED BY <1>6, <2>2, <2>3, ReserveQueuedBytesEffect DEF SameMarks
<1>7. CASE Enqueue
  <2>1. pump.req \in Reqs /\ HoldsId(pump.req) /\ UNCHANGED <<child, worker, word>>
    BY <1>7, EnqueueEffect DEF HoldsId, PumpIds, PumpBytes
  <2>2. CASE Releases(q, q', pump.req)
    <3>2. /\ \A s \in Reqs : child'[s] \in {"running", "progress", "respond", "replying"} =>
               child[s] = child'[s] /\ s # pump.req
          /\ worker'.pc \in {"check", "handle", "running", "respond", "replying"} =>
               worker'.pc = worker.pc /\ worker'.job = worker.job /\ worker.job # pump.req
      BY <1>7, <2>1, <2>2, EnqueueEffect, Apart DEF Hands, Busy
    <3>. QED BY <1>1, <2>1, <2>2, <3>2, DispatchedKept
  <2>3. CASE q'.owner = q.owner /\ q'.dispatching = q.dispatching
    BY <1>1, <1>7, <2>1, <2>3, EnqueueEffect DEF Dispatched, Still, Correlated
  <2>. QED BY <1>7, <2>2, <2>3, EnqueueEffect
<1>8. ASSUME NEW r \in Reqs, ReleaseReservation(r) PROVE Dispatched'
  <2>1. UNCHANGED <<worker, word>>
    BY <1>8, ReleaseReservationEffect
  <2>2. CASE Releases(q, q', r) /\ child[r] = "discard" /\ ChildMoves(r, "unregister")
    <3>1. HoldsId(r)
      BY <2>2 DEF HoldsId, ChildIds
    <3>2. /\ \A s \in Reqs : child'[s] \in {"running", "progress", "respond", "replying"} =>
               child[s] = child'[s] /\ s # r
          /\ worker'.pc \in {"check", "handle", "running", "respond", "replying"} =>
               worker'.pc = worker.pc /\ worker'.job = worker.job /\ worker.job # r
      BY <1>8, <2>1, <2>2, ReleaseReservationEffect, Apart DEF Busy, ChildMoves
    <3>. QED BY <1>1, <2>1, <2>2, <3>1, <3>2, DispatchedKept
  <2>3. CASE q'.owner = q.owner /\ q'.dispatching = q.dispatching
             /\ child'[r] \in {"bytes", "slot", "gone"} /\ \A s \in Reqs : s # r => child'[s] = child[s]
    BY <1>1, <1>8, <2>1, <2>3, ReleaseReservationEffect DEF Dispatched, Still, Correlated
  <2>. QED BY <1>8, <2>2, <2>3, ReleaseReservationEffect DEF ChildMoves, SameMarks
<1>9. CASE WorkerTake
  <2>1. /\ worker'.pc \in {"idle", "end", "taken"} /\ UNCHANGED <<q, child, word>>
    BY <1>1, <1>9 DEF WorkerTake, WorkerAt, Leave, WorkerType, requests, children
  <2>. QED BY <1>1, <2>1 DEF Dispatched, Still, Correlated
<1>10. CASE WorkerAdmitted
  <2>1. worker.job \in Reqs /\ HoldsId(worker.job) /\ UNCHANGED <<child, word>>
    BY <1>10, WorkerAdmittedEffect DEF HoldsId, Job, Busy
  <2>2. CASE Releases(q, q', worker.job) /\ worker'.pc \in {"idle", "end"}
    <3>2. /\ \A s \in Reqs : child'[s] \in {"running", "progress", "respond", "replying"} =>
               child[s] = child'[s] /\ s # worker.job
          /\ worker'.pc \in {"check", "handle", "running", "respond", "replying"} =>
               worker'.pc = worker.pc /\ worker'.job = worker.job /\ worker.job # worker.job
      BY <1>10, <2>1, <2>2, WorkerAdmittedEffect, Apart DEF Busy
    <3>. QED BY <1>1, <2>1, <2>2, <3>2, DispatchedKept
  <2>3. CASE q'.owner = q.owner /\ q'.dispatching = q.dispatching
             /\ WorkerMoves("begin")
    BY <1>1, <1>10, <2>1, <2>3, WorkerAdmittedEffect DEF Dispatched, Still, Correlated, WorkerMoves
  <2>. QED BY <1>10, <2>2, <2>3, WorkerAdmittedEffect DEF WorkerMoves, WorkerEnds
<1>11. CASE WorkerCheck
  <2>1. worker.job \in Reqs /\ HoldsId(worker.job) /\ UNCHANGED <<child, word>>
    BY <1>11, WorkerCheckEffect DEF HoldsId, Job, Busy
  <2>2. CASE Releases(q, q', worker.job) /\ worker'.pc \in {"idle", "end"}
    <3>2. /\ \A s \in Reqs : child'[s] \in {"running", "progress", "respond", "replying"} =>
               child[s] = child'[s] /\ s # worker.job
          /\ worker'.pc \in {"check", "handle", "running", "respond", "replying"} =>
               worker'.pc = worker.pc /\ worker'.job = worker.job /\ worker.job # worker.job
      BY <1>11, <2>1, <2>2, WorkerCheckEffect, Apart DEF Busy
    <3>. QED BY <1>1, <2>1, <2>2, <3>2, DispatchedKept
  <2>3. CASE q'.owner = q.owner /\ q'.dispatching = q.dispatching
             /\ WorkerMoves("handle")
    BY <1>1, <1>11, <2>1, <2>3, WorkerCheckEffect DEF Dispatched, Still, Correlated, WorkerMoves
  <2>. QED BY <1>11, <2>2, <2>3, WorkerCheckEffect DEF WorkerMoves, WorkerEnds
<1>12. CASE WorkerHandle
  <2>1. worker.job \in Reqs /\ HoldsId(worker.job) /\ UNCHANGED <<child, word>>
    BY <1>12, WorkerHandleEffect DEF HoldsId, Job, Busy
  <2>2. CASE Releases(q, q', worker.job) /\ worker'.pc = "end"
    <3>2. /\ \A s \in Reqs : child'[s] \in {"running", "progress", "respond", "replying"} =>
               child[s] = child'[s] /\ s # worker.job
          /\ worker'.pc \in {"check", "handle", "running", "respond", "replying"} =>
               worker'.pc = worker.pc /\ worker'.job = worker.job /\ worker.job # worker.job
      BY <1>12, <2>1, <2>2, WorkerHandleEffect, Apart DEF Busy
    <3>. QED BY <1>1, <2>1, <2>2, <3>2, DispatchedKept
  <2>3. CASE q'.owner = q.owner /\ q'.dispatching = q.dispatching
             /\ worker'.pc \in {"idle", "respond", "running"} /\ worker'.job = worker.job
    BY <1>1, <1>12, <2>1, <2>3, WorkerHandleEffect DEF Dispatched, Still, Correlated
  <2>. QED BY <1>12, <2>2, <2>3, WorkerHandleEffect DEF WorkerMoves, WorkerEnds
<1>13. CASE WorkerDiscard
  <2>1. worker.job \in Reqs /\ HoldsId(worker.job) /\ UNCHANGED <<child, word>>
    BY <1>13, WorkerDiscardEffect DEF HoldsId, Job, Busy
  <2>2. CASE Releases(q, q', worker.job) /\ worker'.pc \in {"idle", "stop", "end"}
    <3>2. /\ \A s \in Reqs : child'[s] \in {"running", "progress", "respond", "replying"} =>
               child[s] = child'[s] /\ s # worker.job
          /\ worker'.pc \in {"check", "handle", "running", "respond", "replying"} =>
               worker'.pc = worker.pc /\ worker'.job = worker.job /\ worker.job # worker.job
      BY <1>13, <2>1, <2>2, WorkerDiscardEffect, Apart DEF Busy
    <3>. QED BY <1>1, <2>1, <2>2, <3>2, DispatchedKept
  <2>. QED BY <1>13, <2>2, WorkerDiscardEffect DEF WorkerMoves, WorkerEnds
<1>. USE <1>1, <1>2, Sentinels DEF Dispatched, Correlated, Still, PumpGoes, KeepsEnd,
       ChildMoves, SameOwners, Snapshot, ChildAt, ChildGoes, requests, channels, peer, wire,
       children, Answers, WorkerAt, WorkerMoves, WorkerGoes
<1>14. CASE RegisterChild
  BY <1>14, RegisterChildEffect DEF QueueStates
<1>15. CASE Spawn
  BY <1>15, SpawnEffect DEF QueueStates
<1>16. CASE SpawnRefused
  BY <1>16, SpawnRefusedEffect DEF QueueStates
<1>17. ASSUME NEW i \in Ids, ReceiveCancellation(i) PROVE Dispatched'
  BY <1>17, ReceiveCancellationEffect DEF QueueStates
<1>18. CASE CancelActiveRequest
  BY <1>18, CancelActiveRequestEffect DEF QueueStates
<1>19. CASE PumpStop
  BY <1>19, PumpStopEffect DEF QueueStates
<1>20. ASSUME NEW r \in Reqs, ChildAdmitted(r) PROVE Dispatched'
  BY <1>20 DEF ChildAdmitted
<1>21. ASSUME NEW r \in Reqs, ChildUnpolled(r) PROVE Dispatched'
  BY <1>21 DEF ChildUnpolled
<1>22. ASSUME NEW r \in Reqs, ChildGuard(r) PROVE Dispatched'
  BY <1>22 DEF ChildGuard
<1>23. ASSUME NEW r \in Reqs, ChildStart(r) PROVE Dispatched'
  BY <1>23, ChildStartEffect DEF QueueStates, ChildIds
<1>24. ASSUME NEW r \in Reqs, ChildPlainReply(r) PROVE Dispatched'
  BY <1>24, ChildPlainReplyEffect DEF QueueStates
<1>25. ASSUME NEW r \in Reqs, ChildProgress(r) PROVE Dispatched'
  BY <1>25 DEF ChildProgress
<1>26. ASSUME NEW r \in Reqs, ChildSendProgress(r) PROVE Dispatched'
  BY <1>26, ChildSendProgressEffect DEF QueueStates
<1>27. ASSUME NEW r \in Reqs, ChildReturn(r) PROVE Dispatched'
  BY <1>27 DEF ChildReturn
<1>28. ASSUME NEW r \in Reqs, ChildPanic(r) PROVE Dispatched'
  BY <1>28 DEF ChildPanic
<1>29. ASSUME NEW r \in Reqs, ChildFinalize(r) PROVE Dispatched'
  BY <1>29, ChildFinalizeEffect DEF QueueStates
<1>30. ASSUME NEW r \in Reqs, ChildReply(r) PROVE Dispatched'
  BY <1>30, ChildReplyEffect DEF QueueStates
<1>31. ASSUME NEW r \in Reqs, ChildUnguard(r) PROVE Dispatched'
  BY <1>31 DEF ChildUnguard, RemoveOwn
<1>32. ASSUME NEW r \in Reqs, ChildSettle(r) PROVE Dispatched'
  BY <1>32 DEF ChildSettle
<1>33. ASSUME NEW r \in Reqs, ChildFail(r) PROVE Dispatched'
  BY <1>33 DEF ChildFail
<1>34. ASSUME NEW r \in Reqs, ChildStop(r) PROVE Dispatched'
  BY <1>34, ChildStopEffect DEF QueueStates
<1>35. CASE WorkerLeaves
  BY <1>35 DEF WorkerLeaves, Leave, WorkerType
<1>36. CASE WorkerReleaseBytes
  BY <1>36, WorkerReleaseBytesEffect DEF SameMarks, QueueStates
<1>37. CASE WorkerBegin
  BY <1>37, WorkerBeginEffect DEF QueueStates
<1>38. CASE WorkerReturn
  BY <1>38 DEF WorkerReturn, WorkerType
<1>39. CASE WorkerResolve
  BY <1>39, WorkerResolveEffect DEF QueueStates
<1>40. CASE WorkerReply
  BY <1>40, WorkerReplyEffect DEF QueueStates
<1>41. CASE WorkerUnguard
  BY <1>41 DEF WorkerUnguard, RemoveOwn, Job, WorkerType
<1>42. CASE WorkerEnd
  BY <1>42 DEF WorkerEnd, WorkerType
<1>43. CASE WorkerFail
  BY <1>43 DEF WorkerFail, WorkerType
<1>44. CASE WorkerStop
  BY <1>44, WorkerStopEffect DEF QueueStates
<1>45. CASE WorkerStopped
  BY <1>45 DEF WorkerStopped, WorkerType
<1>46. ASSUME NEW a \in Actors, CancelCopied(a) PROVE Dispatched'
  BY <1>46, CancelCopiedEffect DEF QueueStates
<1>. QED BY <1>3, <1>4, <1>5, <1>6, <1>7, <1>8, <1>9, <1>10, <1>11, <1>12, <1>13, <1>14, <1>15,
         <1>16, <1>17, <1>18, <1>19, <1>20, <1>21, <1>22, <1>23, <1>24, <1>25, <1>26, <1>27,
         <1>28, <1>29, <1>30, <1>31, <1>32, <1>33, <1>34, <1>35, <1>36, <1>37, <1>38, <1>39,
         <1>40, <1>41, <1>42, <1>43, <1>44, <1>45, <1>46, Writers
         DEF ChildStep, WorkerStep

LEMMA StoppingStays == ASSUME IInv, q.stopping, [Next]_vars PROVE q.stopping'
<1>1. /\ Setting /\ Still
      /\ q \in QueueStates
  BY SettingHolds, StillAlways, Types DEF IInv
<1>2. ASSUME UNCHANGED <<q>> PROVE q.stopping'
  BY <1>2
<1>3. CASE AdmitRequest
  BY <1>3, AdmitRequestEffect
<1>4. CASE ReserveModernSlot
  BY <1>4, ReserveModernSlotEffect DEF SameMarks, Releases
<1>5. CASE ReserveQueuedBytes
  BY <1>5, ReserveQueuedBytesEffect DEF SameMarks, Releases
<1>6. CASE RegisterChild
  BY <1>6, RegisterChildEffect
<1>7. CASE Enqueue
  BY <1>7, EnqueueEffect DEF Releases
<1>8. ASSUME NEW i \in Ids, ReceiveCancellation(i) PROVE q.stopping'
  BY <1>8, ReceiveCancellationEffect DEF SameOwners
<1>9. CASE PumpStop
  BY <1>9, PumpStopEffect DEF Snapshot, SameOwners
<1>10. ASSUME NEW r \in Reqs, ChildStart(r) PROVE q.stopping'
  BY <1>10, ChildStartEffect DEF SameOwners
<1>11. ASSUME NEW r \in Reqs, ChildStop(r) PROVE q.stopping'
  BY <1>11, ChildStopEffect DEF Snapshot, SameOwners
<1>12. ASSUME NEW r \in Reqs, ReleaseReservation(r) PROVE q.stopping'
  BY <1>12, ReleaseReservationEffect DEF SameMarks, Releases
<1>13. CASE WorkerReleaseBytes
  BY <1>13, WorkerReleaseBytesEffect DEF SameMarks
<1>14. CASE WorkerAdmitted
  BY <1>14, WorkerAdmittedEffect DEF Releases
<1>15. CASE WorkerBegin
  BY <1>15, WorkerBeginEffect DEF SameOwners
<1>16. CASE WorkerCheck
  BY <1>16, WorkerCheckEffect DEF Releases
<1>17. CASE WorkerHandle
  BY <1>17, WorkerHandleEffect DEF Releases
<1>18. CASE WorkerDiscard
  BY <1>18, WorkerDiscardEffect DEF Releases
<1>19. CASE WorkerStop
  BY <1>19, WorkerStopEffect DEF Snapshot, SameOwners
<1>. QED BY <1>2, <1>3, <1>4, <1>5, <1>6, <1>7, <1>8, <1>9, <1>10, <1>11, <1>12, <1>13, <1>14,
         <1>15, <1>16, <1>17, <1>18, <1>19, Writers

LEMMA AskedStays == ASSUME IInv, NEW s \in Reqs, Asked(s), [Next]_vars PROVE Asked(s)'
<1>1. /\ Setting /\ Still
      /\ failed \in BOOLEAN
      /\ accepted \subseteq Reqs
  BY SettingHolds, StillAlways, Types DEF IInv
<1>2. q.stopping => q'.stopping
  BY StoppingStays
<1>3. ASSUME UNCHANGED <<failed, accepted>> PROVE Asked(s)'
  BY <1>2, <1>3 DEF Asked
<1>. USE <1>1, <1>2, Sentinels DEF Asked, Still
<1>4. ASSUME NEW i \in Ids, ReceiveCancellation(i) PROVE Asked(s)'
  BY <1>4, ReceiveCancellationEffect DEF KeepsEnd, SameOwners
<1>5. CASE CancelActiveRequest
  BY <1>5, CancelActiveRequestEffect DEF KeepsEnd
<1>6. ASSUME NEW r \in Reqs, ChildSendProgress(r) PROVE Asked(s)'
  BY <1>6, ChildSendProgressEffect DEF ChildMoves
<1>7. ASSUME NEW r \in Reqs, ChildFail(r) PROVE Asked(s)'
  BY <1>7 DEF ChildFail, ChildAt, ChildGoes, requests, channels, peer, wire, children
<1>8. CASE WorkerFail
  BY <1>8 DEF WorkerFail, WorkerAt, WorkerGoes, requests, channels, children, peer, wire
<1>. QED BY <1>3, <1>4, <1>5, <1>6, <1>7, <1>8, Writers

LEMMA WordsAreAskedStays == ASSUME IInv, CopiesAreAsked, WordsAreAsked, [Next]_vars PROVE WordsAreAsked'
<1>1. /\ Setting /\ Still
      /\ word \in [Reqs -> Words]
  BY SettingHolds, StillAlways, Types DEF IInv
<1>2. \A s \in Reqs : Asked(s) => Asked(s)'
  BY AskedStays
<1>3. ASSUME UNCHANGED <<word>> PROVE WordsAreAsked'
  BY <1>1, <1>2, <1>3 DEF WordsAreAsked, Still, Correlated
<1>4. CASE RegisterChild
  <2>1. \A s \in Reqs : word'[s] = "cancelled" => word[s] = "cancelled" \/ Asked(s)
    BY <1>1, <1>4, RegisterChildEffect DEF Asked
  <2>. QED BY <1>1, <1>2, <2>1 DEF WordsAreAsked, Still, Correlated
<1>5. ASSUME NEW i \in Ids, ReceiveCancellation(i) PROVE WordsAreAsked'
  <2>1. \A s \in Reqs : word'[s] = "cancelled" => word[s] = "cancelled" \/ Asked(s)'
    BY <1>1, <1>5, ReceiveCancellationEffect DEF Asked
  <2>. QED BY <1>1, <1>2, <2>1 DEF WordsAreAsked, Still, Correlated
<1>6. CASE CancelActiveRequest
  <2>1. \A s \in Reqs : word'[s] = "cancelled" => word[s] = "cancelled" \/ Asked(s)'
    BY <1>1, <1>6, CancelActiveRequestEffect DEF Asked
  <2>. QED BY <1>1, <1>2, <2>1 DEF WordsAreAsked, Still, Correlated
<1>7. ASSUME NEW r \in Reqs, ChildSendProgress(r) PROVE WordsAreAsked'
  <2>1. \A s \in Reqs : word'[s] = "cancelled" => word[s] = "cancelled" \/ Asked(s)'
    BY <1>1, <1>7, ChildSendProgressEffect DEF Asked
  <2>. QED BY <1>1, <1>2, <2>1 DEF WordsAreAsked, Still, Correlated
<1>8. ASSUME NEW a \in Actors, CancelCopied(a) PROVE WordsAreAsked'
  <2>1. \A s \in Reqs : word'[s] = "cancelled" /\ Correlated(s) => word[s] = "cancelled" \/ Asked(s)
    BY <1>1, <1>8, CancelCopiedEffect DEF Asked, CopiesAreAsked
  <2>. QED BY <1>1, <1>2, <2>1 DEF WordsAreAsked, Still, Correlated
<1>9. ASSUME NEW r \in Reqs, ChildFinalize(r) PROVE WordsAreAsked'
  BY <1>1, <1>2, Sentinels, <1>9, ChildFinalizeEffect DEF WordsAreAsked, CopiesAreAsked, Correlated, Actors, PastStop, Still, ChildMoves
<1>10. CASE WorkerResolve
  BY <1>1, <1>2, Sentinels, <1>10, WorkerResolveEffect DEF WordsAreAsked, CopiesAreAsked, Correlated, Actors, PastStop, Still, WorkerMoves
<1>. QED BY <1>3, <1>4, <1>5, <1>6, <1>7, <1>8, <1>9, <1>10, Writers

LEMMA StartsAreAskedStay == ASSUME IInv, MarksAreAsked, StartsAreAsked, [Next]_vars PROVE StartsAreAsked'
<1>1. /\ Setting /\ Still
      /\ child \in [Reqs -> ChildPcs]
  BY SettingHolds, StillAlways, Types DEF IInv
<1>2. \A s \in Reqs : Asked(s) => Asked(s)'
  BY AskedStays
<1>3. ASSUME UNCHANGED <<child>> PROVE StartsAreAsked'
  BY <1>2, <1>3 DEF StartsAreAsked
<1>4. ASSUME NEW r \in Reqs, ChildStart(r) PROVE StartsAreAsked'
  <2>1. child'[r] = "start_cancelled" => Asked(r)
    <3>1. SUFFICES ASSUME Correlated(r), IdOf[r] \in q.cancelled PROVE Asked(r)
      BY <1>4, ChildStartEffect DEF ChildMoves
    <3>2. IdOf[r] \in Ids /\ q.owner[IdOf[r]] = r
      BY <1>4, <3>1, Owners, ChildStartEffect DEF ChildIds
    <3>. QED BY <3>1, <3>2 DEF MarksAreAsked
  <2>. QED BY <1>2, <1>4, <2>1, ChildStartEffect DEF StartsAreAsked, ChildMoves
<1>. USE <1>1, <1>2, Sentinels DEF StartsAreAsked, Still, ChildMoves, ChildAt, ChildGoes,
       requests, channels, peer, wire, children, Correlated
<1>5. CASE Spawn
  BY <1>5, SpawnEffect DEF PumpGoes, KeepsEnd
<1>6. CASE SpawnRefused
  BY <1>6, SpawnRefusedEffect DEF PumpGoes, KeepsEnd
<1>7. ASSUME NEW r \in Reqs, ChildAdmitted(r) PROVE StartsAreAsked'
  BY <1>7 DEF ChildAdmitted
<1>8. ASSUME NEW r \in Reqs, ChildUnpolled(r) PROVE StartsAreAsked'
  BY <1>8 DEF ChildUnpolled
<1>9. ASSUME NEW r \in Reqs, ChildGuard(r) PROVE StartsAreAsked'
  BY <1>9 DEF ChildGuard
<1>10. ASSUME NEW r \in Reqs, ChildPlainReply(r) PROVE StartsAreAsked'
  BY <1>10, ChildPlainReplyEffect DEF Answers
<1>11. ASSUME NEW r \in Reqs, ChildProgress(r) PROVE StartsAreAsked'
  BY <1>11 DEF ChildProgress
<1>12. ASSUME NEW r \in Reqs, ChildSendProgress(r) PROVE StartsAreAsked'
  BY <1>12, ChildSendProgressEffect
<1>13. ASSUME NEW r \in Reqs, ChildReturn(r) PROVE StartsAreAsked'
  BY <1>13 DEF ChildReturn
<1>14. ASSUME NEW r \in Reqs, ChildPanic(r) PROVE StartsAreAsked'
  BY <1>14 DEF ChildPanic
<1>15. ASSUME NEW r \in Reqs, ChildFinalize(r) PROVE StartsAreAsked'
  BY <1>15, ChildFinalizeEffect
<1>16. ASSUME NEW r \in Reqs, ChildReply(r) PROVE StartsAreAsked'
  BY <1>16, ChildReplyEffect DEF Answers
<1>17. ASSUME NEW r \in Reqs, ChildUnguard(r) PROVE StartsAreAsked'
  BY <1>17 DEF ChildUnguard, RemoveOwn
<1>18. ASSUME NEW r \in Reqs, ChildSettle(r) PROVE StartsAreAsked'
  BY <1>18 DEF ChildSettle
<1>19. ASSUME NEW r \in Reqs, ChildFail(r) PROVE StartsAreAsked'
  BY <1>19 DEF ChildFail
<1>20. ASSUME NEW r \in Reqs, ChildStop(r) PROVE StartsAreAsked'
  BY <1>20, ChildStopEffect DEF Snapshot, SameOwners
<1>21. ASSUME NEW r \in Reqs, ReleaseReservation(r) PROVE StartsAreAsked'
  BY <1>21, ReleaseReservationEffect DEF SameMarks, Releases
<1>. QED BY <1>3, <1>4, <1>5, <1>6, <1>7, <1>8, <1>9, <1>10, <1>11, <1>12, <1>13, <1>14, <1>15,
         <1>16, <1>17, <1>18, <1>19, <1>20, <1>21, Writers
         DEF ChildStep

LEMMA MarksAreAskedStay == ASSUME IInv, Dispatched, WordsAreAsked, MarksAreAsked, [Next]_vars PROVE MarksAreAsked'
<1>1. /\ Setting /\ Still
      /\ q \in QueueStates
  BY SettingHolds, StillAlways, Types DEF IInv
<1>2. \A s \in Reqs : Asked(s) => Asked(s)'
  BY AskedStays
<1>3. ASSUME UNCHANGED <<q>> PROVE MarksAreAsked'
  BY <1>2, <1>3 DEF MarksAreAsked
<1>4. CASE AdmitRequest
  <2>1. pump.req \in Reqs /\ q'.cancelled = q.cancelled
        /\ \A j \in Ids : q'.owner[j] = q.owner[j] \/ q.owner[j] = NoReq
    BY <1>4, AdmitRequestEffect DEF Correlated
  <2>2. \A j \in Ids : j \in q'.cancelled =>
             j \in q.cancelled /\ \A s \in Reqs : q.owner[j] = s => q'.owner[j] = s
    BY <2>1, Sentinels
  <2>. QED BY <1>2, <2>2 DEF MarksAreAsked
<1>5. CASE ReserveModernSlot
  <2>1. \A j \in Ids : j \in q'.cancelled =>
             j \in q.cancelled /\ \A s \in Reqs : q.owner[j] = s => q'.owner[j] = s
    BY <1>1, <1>5, ReserveModernSlotEffect, Sentinels, OwnersLeft DEF SameMarks
  <2>. QED BY <1>2, <2>1 DEF MarksAreAsked
<1>6. CASE ReserveQueuedBytes
  <2>1. \A j \in Ids : j \in q'.cancelled =>
             j \in q.cancelled /\ \A s \in Reqs : q.owner[j] = s => q'.owner[j] = s
    BY <1>1, <1>6, ReserveQueuedBytesEffect, Sentinels, OwnersLeft DEF SameMarks
  <2>. QED BY <1>2, <2>1 DEF MarksAreAsked
<1>7. CASE RegisterChild
  <2>1. \A j \in Ids : j \in q'.cancelled =>
             j \in q.cancelled /\ \A s \in Reqs : q.owner[j] = s => q'.owner[j] = s
    BY <1>1, <1>7, RegisterChildEffect, Sentinels
  <2>. QED BY <1>2, <2>1 DEF MarksAreAsked
<1>8. CASE Enqueue
  <2>1. \A j \in Ids : j \in q'.cancelled =>
             j \in q.cancelled /\ \A s \in Reqs : q.owner[j] = s => q'.owner[j] = s
    BY <1>1, <1>8, EnqueueEffect, Sentinels, OwnersLeft
  <2>. QED BY <1>2, <2>1 DEF MarksAreAsked
<1>9. ASSUME NEW i \in Ids, ReceiveCancellation(i) PROVE MarksAreAsked'
  <2>1. SUFFICES ASSUME NEW j \in Ids, j \in q'.cancelled, j \notin q.cancelled
                 PROVE  \E s \in Reqs : q'.owner[j] = s /\ Asked(s)'
    BY <1>2, <1>9, ReceiveCancellationEffect DEF MarksAreAsked, SameOwners
  <2>2. j = i /\ q.owner[i] \in Reqs /\ q'.owner = q.owner /\ i \notin q.dispatching
    BY <1>1, <1>9, <2>1, ReceiveCancellationEffect DEF SameOwners, QueueStates
  <2>3. CASE q.owner[i] \in accepted'
    BY <2>2, <2>3 DEF Asked
  <2>4. CASE q.owner[i] \notin accepted'
    <3>1. word[q.owner[i]] # "active"
      BY <1>9, <2>1, <2>2, <2>4, Sentinels, ReceiveCancellationEffect
    <3>2. word[q.owner[i]] = "cancelled"
      BY <2>2, <3>1, Types DEF IInv, Words, Dispatched
    <3>3. Asked(q.owner[i])
      BY <2>2, <3>2, Owners DEF WordsAreAsked
    <3>. QED BY <1>2, <2>2, <3>3
  <2>. QED BY <2>3, <2>4
<1>10. CASE PumpStop
  <2>1. \A j \in Ids : j \in q'.cancelled => \E s \in Reqs : q'.owner[j] = s
    BY <1>1, <1>10, PumpStopEffect DEF Snapshot, SameOwners, QueueStates, MarksAreAsked
  <2>2. \A s \in Reqs : Asked(s)'
    BY <1>10, PumpStopEffect DEF Asked, Snapshot
  <2>. QED BY <2>1, <2>2 DEF MarksAreAsked
<1>11. ASSUME NEW r \in Reqs, ChildStart(r) PROVE MarksAreAsked'
  <2>1. \A j \in Ids : j \in q'.cancelled =>
             j \in q.cancelled /\ \A s \in Reqs : q.owner[j] = s => q'.owner[j] = s
    BY <1>1, <1>11, ChildStartEffect, Sentinels DEF SameOwners
  <2>. QED BY <1>2, <2>1 DEF MarksAreAsked
<1>12. ASSUME NEW r \in Reqs, ChildStop(r) PROVE MarksAreAsked'
  <2>1. \A j \in Ids : j \in q'.cancelled => \E s \in Reqs : q'.owner[j] = s
    BY <1>1, <1>12, ChildStopEffect DEF Snapshot, SameOwners, QueueStates, MarksAreAsked
  <2>2. \A s \in Reqs : Asked(s)'
    BY <1>12, ChildStopEffect DEF Asked, Snapshot
  <2>. QED BY <2>1, <2>2 DEF MarksAreAsked
<1>13. ASSUME NEW r \in Reqs, ReleaseReservation(r) PROVE MarksAreAsked'
  <2>1. \A j \in Ids : j \in q'.cancelled =>
             j \in q.cancelled /\ \A s \in Reqs : q.owner[j] = s => q'.owner[j] = s
    BY <1>1, <1>13, ReleaseReservationEffect, Sentinels, OwnersLeft DEF SameMarks
  <2>. QED BY <1>2, <2>1 DEF MarksAreAsked
<1>14. CASE WorkerReleaseBytes
  <2>1. \A j \in Ids : j \in q'.cancelled =>
             j \in q.cancelled /\ \A s \in Reqs : q.owner[j] = s => q'.owner[j] = s
    BY <1>1, <1>14, WorkerReleaseBytesEffect, Sentinels DEF SameMarks
  <2>. QED BY <1>2, <2>1 DEF MarksAreAsked
<1>15. CASE WorkerAdmitted
  <2>1. worker.job \in Reqs /\ (q' = q \/ Releases(q, q', worker.job))
    BY <1>15, WorkerAdmittedEffect
  <2>2. \A j \in Ids : j \in q'.cancelled =>
             j \in q.cancelled /\ \A s \in Reqs : q.owner[j] = s => q'.owner[j] = s
    BY <1>1, <2>1, OwnersLeft
  <2>. QED BY <1>2, <2>2 DEF MarksAreAsked
<1>16. CASE WorkerBegin
  <2>1. \A j \in Ids : j \in q'.cancelled =>
             j \in q.cancelled /\ \A s \in Reqs : q.owner[j] = s => q'.owner[j] = s
    BY <1>1, <1>16, WorkerBeginEffect, Sentinels DEF SameOwners
  <2>. QED BY <1>2, <2>1 DEF MarksAreAsked
<1>17. CASE WorkerCheck
  <2>1. worker.job \in Reqs /\ (q' = q \/ Releases(q, q', worker.job))
    BY <1>17, WorkerCheckEffect
  <2>2. \A j \in Ids : j \in q'.cancelled =>
             j \in q.cancelled /\ \A s \in Reqs : q.owner[j] = s => q'.owner[j] = s
    BY <1>1, <2>1, OwnersLeft
  <2>. QED BY <1>2, <2>2 DEF MarksAreAsked
<1>18. CASE WorkerHandle
  <2>1. worker.job \in Reqs /\ (q' = q \/ Releases(q, q', worker.job))
    BY <1>18, WorkerHandleEffect
  <2>2. \A j \in Ids : j \in q'.cancelled =>
             j \in q.cancelled /\ \A s \in Reqs : q.owner[j] = s => q'.owner[j] = s
    BY <1>1, <2>1, OwnersLeft
  <2>. QED BY <1>2, <2>2 DEF MarksAreAsked
<1>19. CASE WorkerDiscard
  <2>1. \A j \in Ids : j \in q'.cancelled =>
             j \in q.cancelled /\ \A s \in Reqs : q.owner[j] = s => q'.owner[j] = s
    BY <1>1, <1>19, WorkerDiscardEffect, Sentinels, OwnersLeft
  <2>. QED BY <1>2, <2>1 DEF MarksAreAsked
<1>20. CASE WorkerStop
  <2>1. \A j \in Ids : j \in q'.cancelled => \E s \in Reqs : q'.owner[j] = s
    BY <1>1, <1>20, WorkerStopEffect DEF Snapshot, SameOwners, QueueStates, MarksAreAsked
  <2>2. \A s \in Reqs : Asked(s)'
    BY <1>20, WorkerStopEffect DEF Asked, Snapshot
  <2>. QED BY <2>1, <2>2 DEF MarksAreAsked
<1>. QED BY <1>3, <1>4, <1>5, <1>6, <1>7, <1>8, <1>9, <1>10, <1>11, <1>12, <1>13, <1>14, <1>15,
         <1>16, <1>17, <1>18, <1>19, <1>20, Writers

LEMMA CopiesAreAskedStay == ASSUME IInv, Copies, CopiesAreAsked, [Next]_vars PROVE CopiesAreAsked'
<1>1. /\ Setting /\ Still
      /\ pump \in PumpType
      /\ toCancel \in [Actors -> SUBSET Reqs]
  BY SettingHolds, StillAlways, Types DEF IInv
<1>2. q.stopping => q'.stopping
  BY StoppingStays
<1>3. ASSUME UNCHANGED <<pump, toCancel>> PROVE CopiesAreAsked'
  BY <1>1, <1>2, <1>3 DEF CopiesAreAsked, Still, Correlated
<1>. USE <1>1, <1>2, Sentinels DEF CopiesAreAsked, Actors, Correlated, PastStop, PumpAt,
       requests, channels, children, wire, Still, peer, PumpGoes, PumpAnswers, KeepsEnd,
       PumpRefuses, Releases, ChildMoves, PumpGivesUp, SameOwners, OnlyThePump, PumpSteps,
       Snapshot
<1>4. CASE ReceiveRequest
  BY <1>4 DEF ReceiveRequest, PumpType
<1>5. CASE CheckActive
  BY <1>5, CheckActiveEffect
<1>6. CASE AdmitRequest
  BY <1>6, AdmitRequestEffect
<1>7. CASE ReserveModernSlot
  BY <1>7, ReserveModernSlotEffect DEF SameMarks
<1>8. CASE ReserveQueuedBytes
  BY <1>8, ReserveQueuedBytesEffect DEF SameMarks
<1>9. CASE RegisterChild
  BY <1>9, RegisterChildEffect
<1>10. CASE Spawn
  BY <1>10, SpawnEffect
<1>11. CASE SpawnRefused
  BY <1>11, SpawnRefusedEffect
<1>12. CASE RefusedDropped
  BY <1>12, RefusedDroppedEffect
<1>13. CASE Enqueue
  BY <1>13, EnqueueEffect
<1>14. CASE BindPrincipal
  BY <1>14, BindPrincipalEffect
<1>15. CASE PumpReply
  BY <1>15, PumpReplyEffect DEF Answers
<1>16. ASSUME NEW i \in Ids, ReceiveCancellation(i) PROVE CopiesAreAsked'
  BY <1>16, ReceiveCancellationEffect
<1>17. CASE CancelActiveRequest
  BY <1>17, CancelActiveRequestEffect
<1>18. CASE ReceiveLegacyResponse
  BY <1>18, ReceiveLegacyResponseEffect
<1>19. CASE WorkerFailureSeen
  BY <1>19, WorkerFailureSeenEffect
<1>20. CASE EndOfInput
  BY <1>20, EndOfInputEffect
<1>21. CASE ReceiveStops
  BY <1>21, ReceiveStopsEffect
<1>22. CASE CancelNotifications
  BY <1>22 DEF CancelNotifications, Uncorrelated, GoTo, PumpType
<1>23. CASE DrainResponses
  BY <1>23, DrainResponsesEffect
<1>24. CASE PumpStop
  BY <1>24, PumpStopEffect
<1>25. CASE CancelActive
  BY <1>25 DEF CancelActive, GoTo, PumpType
<1>26. CASE AwaitChildren
  BY <1>26, AwaitChildrenEffect
<1>27. CASE AwaitWorker
  BY <1>27, AwaitWorkerEffect
<1>28. CASE Finish
  BY <1>28, FinishEffect
<1>29. ASSUME NEW r \in Reqs, ChildStop(r) PROVE CopiesAreAsked'
  BY <1>29, ChildStopEffect
<1>30. CASE WorkerStop
  BY <1>30, WorkerStopEffect DEF WorkerMoves
<1>31. ASSUME NEW a \in Actors, CancelCopied(a) PROVE CopiesAreAsked'
  BY <1>31, CancelCopiedEffect
<1>. QED BY <1>3, <1>4, <1>5, <1>6, <1>7, <1>8, <1>9, <1>10, <1>11, <1>12, <1>13, <1>14, <1>15,
         <1>16, <1>17, <1>18, <1>19, <1>20, <1>21, <1>22, <1>23, <1>24, <1>25, <1>26, <1>27,
         <1>28, <1>29, <1>30, <1>31, Writers
         DEF PumpStep

LEMMA TellsWhyStays == ASSUME IInv, Replying, WordsAreAsked, StartsAreAsked, TellsWhy, [Next]_vars PROVE TellsWhy'
<1>1. /\ Setting /\ Still
      /\ replies \in [Reqs -> Seq(Kinds)]
  BY SettingHolds, StillAlways, Types DEF IInv
<1>2. \A s \in Reqs : Asked(s) => Asked(s)'
  BY AskedStays
<1>3. ASSUME UNCHANGED <<replies>> PROVE TellsWhy'
  BY <1>2, <1>3 DEF TellsWhy, Told
<1>4. CASE PumpReply
  <2>1. \A s \in Reqs : Told(s)' => Told(s) \/ Asked(s)
    <3>1. CASE replies' = replies
      BY <3>1 DEF Told
    <3>2. CASE replies' = [replies EXCEPT ![pump.req] = Append(@, pump.reply)]
      <4>1. pump.req \in Reqs /\ pump.reply \in Kinds /\ pump.reply # "cancelled"
        BY <1>4, AtHand, Types DEF PumpReply, PumpAt, Attending, Replying, IInv, PumpType
      <4>. QED BY <1>1, <3>2, <4>1, ToldByFrame
    <3>. QED BY <1>4, <3>1, <3>2 DEF PumpReply
  <2>. QED BY <1>2, <2>1 DEF TellsWhy
<1>5. ASSUME NEW r \in Reqs, ChildPlainReply(r) PROVE TellsWhy'
  <2>1. \A s \in Reqs : Told(s)' => Told(s) \/ Asked(s)
    <3>1. CASE replies' = replies
      BY <3>1 DEF Told
    <3>2. CASE /\ replies' = [replies EXCEPT ![r] = Append(@, "cancelled")]
               /\ child[r] = "start_cancelled"
      BY <1>1, <3>2, Names, ToldByFrame DEF StartsAreAsked
    <3>3. CASE replies' = [replies EXCEPT ![r] = Append(@, "duplicate")]
      BY <1>1, <3>3, Names, ToldByFrame
    <3>. QED BY <1>5, <3>1, <3>2, <3>3 DEF ChildPlainReply, ChildAt
  <2>. QED BY <1>2, <2>1 DEF TellsWhy
<1>6. ASSUME NEW r \in Reqs, ChildReply(r) PROVE TellsWhy'
  <2>1. \A s \in Reqs : Told(s)' => Told(s) \/ Asked(s)
    <3>1. CASE replies' = replies
      BY <3>1 DEF Told
    <3>2. CASE replies' = [replies EXCEPT ![r] = Append(@, "cancelled")] /\ word[r] # "finalizing"
      <4>1. word[r] = "cancelled" /\ Correlated(r)
        BY <1>6, <3>2, Types DEF ChildReply, ChildAt, Replying, IInv, Words
      <4>. QED BY <1>1, <3>2, <4>1, Names, ToldByFrame DEF WordsAreAsked
    <3>3. CASE replies' = [replies EXCEPT ![r] = Append(@, "ok")]
      BY <1>1, <3>3, Names, ToldByFrame
    <3>. QED BY <1>6, <3>1, <3>2, <3>3 DEF ChildReply
  <2>. QED BY <1>2, <2>1 DEF TellsWhy
<1>7. CASE WorkerReply
  <2>1. \A s \in Reqs : Told(s)' => Told(s) \/ Asked(s)
    <3>1. CASE replies' = replies
      BY <3>1 DEF Told
    <3>2. CASE replies' = [replies EXCEPT ![worker.job] = Append(@, worker.kind)]
      <4>1. worker.job \in Reqs /\ worker.kind \in Kinds /\ worker.kind # "cancelled"
        BY <1>7, AtHand, Types DEF WorkerReply, WorkerAt, Busy, Replying, IInv, WorkerType
      <4>. QED BY <1>1, <3>2, <4>1, ToldByFrame
    <3>. QED BY <1>7, <3>1, <3>2 DEF WorkerReply, Job
  <2>. QED BY <1>2, <2>1 DEF TellsWhy
<1>. QED BY <1>3, <1>4, <1>5, <1>6, <1>7, Writers

-----------------------------------------------------------------------------
(* Cancellation reaches whom it is meant for. *)

Cancelling ==
  /\ Open /\ Replying /\ Dispatched
  /\ WordsAreAsked /\ StartsAreAsked /\ MarksAreAsked /\ CopiesAreAsked /\ TellsWhy
  /\ Enlisted /\ Stopped

LEMMA CancellingIsEntered == ASSUME Init PROVE Cancelling
<1>1. /\ \A r \in Reqs : word[r] = "active" /\ child[r] = "idle" /\ replies[r] = <<>>
      /\ pump.pc = "recv" /\ worker.pc = "idle" /\ ~q.stopping /\ q.cancelled = {}
      /\ q.dispatching = {} /\ \A a \in Actors : toCancel[a] = {}
  BY DEF Init, EmptyQueue
<1>2. Open /\ Replying /\ Dispatched /\ Enlisted /\ Stopped
  BY <1>1 DEF Open, Hands, Replying, Dispatched, Enlisted, Stopped, Serving
<1>3. WordsAreAsked /\ StartsAreAsked /\ MarksAreAsked /\ CopiesAreAsked
  BY <1>1 DEF WordsAreAsked, StartsAreAsked, MarksAreAsked, CopiesAreAsked, PastStop
<1>4. TellsWhy
  BY <1>1 DEF TellsWhy, Told
<1>. QED BY <1>2, <1>3, <1>4 DEF Cancelling

LEMMA CancellingStays == ASSUME IInv, Shutdown, Cancelling, [Next]_vars PROVE Cancelling'
BY OpenStays, ReplyingStays, DispatchedStays, WordsAreAskedStays, StartsAreAskedStay,
   MarksAreAskedStay, CopiesAreAskedStay, TellsWhyStays, EnlistedStays, StoppedStays
   DEF Shutdown, Cancelling

\* Who holds an id when the copies are gone was reached, and so was every child
\* that is registered.
LEMMA CancellingReaches == ASSUME IInv, Cancelling PROVE CancellationIsExact
<1>1. CancelledOnlyIfAsked
  BY DEF Cancelling, TellsWhy, Told, Asked, CancelledOnlyIfAsked
<1>2. SUFFICES ASSUME q.stopping, \A a \in Actors : toCancel[a] = {}
               PROVE  /\ \A r \in Reqs : child[r] \in {"waiting", "begun", "guarded", "running",
                                                       "progress", "respond"} => word[r] # "active"
                      /\ \A r \in Working : Correlated(r) => word[r] # "active"
  BY <1>1 DEF CancellationIsExact, StopReachesEveryone
<1>3. \A r \in Reqs : Reached(r) => word[r] # "active"
  BY <1>2 DEF Reached
<1>4. \A r \in Reqs : child[r] \in {"waiting", "begun", "guarded", "running", "progress", "respond"}
           => word[r] # "active"
  BY <1>2, <1>3 DEF Cancelling, Enlisted, Stopped, Serving
<1>5. ASSUME NEW r \in Working, Correlated(r) PROVE word[r] # "active"
  <2>1. worker.pc \in Busy /\ r = worker.job /\ r \in Reqs
    BY <1>5, AtHand DEF Working, Busy, Job
  <2>2. IdOf[r] \in Ids /\ q.owner[IdOf[r]] = r
    BY <1>5, <2>1, Owners
  <2>. QED BY <1>2, <1>3, <2>1, <2>2 DEF Cancelling, Stopped
<1>. QED BY <1>4, <1>5

\* A request is told that it was cancelled only if the peer asked for
\* it or the connection goes down, and once every snapshot of a stop is worked
\* through no request still runs with an active word, however the stop, the
\* admission and the registration interleaved (DispatchQueueState::stop,
\* register_modern_cancellation, begin_modern_dispatch, discard).
THEOREM CancellationHolds == Spec => []CancellationIsExact
<1>1. Init => Shutdown /\ Cancelling
  BY ShutdownIsEntered, CancellingIsEntered
<1>2. IInv /\ Shutdown /\ [Next]_vars => Shutdown'
  BY ShutdownStays
<1>3. IInv /\ Shutdown /\ Cancelling /\ [Next]_vars => Cancelling'
  BY CancellingStays
<1>4. IInv /\ Cancelling => CancellationIsExact
  BY CancellingReaches
<1>. QED BY <1>1, <1>2, <1>3, <1>4, CustodyHolds, PTL DEF Spec

-----------------------------------------------------------------------------
(* A cancellation the peer was told of is final.  The word of an accepted     *)
(* request is cancelled for good, no frame of it is being written, nobody     *)
(* else guards its id, and a response of the worker carries its own word.     *)

AcceptedIsCancelled == \A r \in Reqs : r \in accepted => word[r] = "cancelled"
AcceptedIsTaken ==
  /\ \A r \in Reqs : r \in accepted => r \in Taken
  /\ pump.pc \in Attending => pump.req \notin accepted
Fenced == \A r \in Reqs : child[r] = "progress" => r \notin accepted
Unrivalled == \A r \in Reqs : child[r] # "duplicate"
WorkerTracked ==
  worker.pc \in {"running", "respond", "replying"} /\ worker.job \notin Untracked =>
    /\ active[IdOf[worker.job]] = worker.job
    /\ worker.pc = "replying" => word[worker.job] = "finalizing"

\* A guard whose entry is there already is its own.
LEMMA NobodyElseGuards ==
  ASSUME IInv, NEW r \in Reqs, Correlated(r),
         child[r] = "begun" \/ (worker.pc = "handle" /\ worker.job = r)
  PROVE  active[IdOf[r]] = NoReq
<1>1. IdOf[r] \in Ids /\ q.owner[IdOf[r]] = r
  BY Owners DEF ChildIds, Busy
<1>2. SUFFICES ASSUME active[IdOf[r]] # NoReq PROVE FALSE
  OBVIOUS
<1>3. child[r] \in Guarding \/ worker.pc \in WorkerGuarding
  BY <1>1, <1>2 DEF IInv, Custody, Guarded
<1>. QED BY <1>3, Apart DEF Guarding, WorkerGuarding, Busy

LEMMA AcceptedStaysCancelled == ASSUME IInv, AcceptedIsCancelled, [Next]_vars PROVE AcceptedIsCancelled'
<1>1. /\ Setting /\ Still
      /\ word \in [Reqs -> Words]
      /\ accepted \subseteq Reqs
  BY SettingHolds, StillAlways, Types DEF IInv
<1>2. ASSUME UNCHANGED <<word, accepted>> PROVE AcceptedIsCancelled'
  BY <1>1, <1>2 DEF AcceptedIsCancelled, Still
<1>. USE <1>1, Sentinels DEF AcceptedIsCancelled, Still, KeepsEnd
<1>3. CASE RegisterChild
  BY <1>3, RegisterChildEffect DEF PumpGoes
<1>4. ASSUME NEW i \in Ids, ReceiveCancellation(i) PROVE AcceptedIsCancelled'
  BY <1>4, ReceiveCancellationEffect DEF SameOwners
<1>5. CASE CancelActiveRequest
  BY <1>5, CancelActiveRequestEffect
<1>6. ASSUME NEW r \in Reqs, ChildSendProgress(r) PROVE AcceptedIsCancelled'
  BY <1>6, ChildSendProgressEffect DEF ChildMoves
<1>7. ASSUME NEW r \in Reqs, ChildFinalize(r) PROVE AcceptedIsCancelled'
  BY <1>7, ChildFinalizeEffect DEF ChildMoves
<1>8. CASE WorkerResolve
  BY <1>8, WorkerResolveEffect DEF WorkerMoves
<1>9. ASSUME NEW a \in Actors, CancelCopied(a) PROVE AcceptedIsCancelled'
  BY <1>9, CancelCopiedEffect
<1>. QED BY <1>2, <1>3, <1>4, <1>5, <1>6, <1>7, <1>8, <1>9, Writers

LEMMA AcceptedStaysTaken == ASSUME IInv, AcceptedIsTaken, [Next]_vars PROVE AcceptedIsTaken'
<1>1. /\ Setting /\ Still
      /\ pump \in PumpType
      /\ accepted \subseteq Reqs
  BY SettingHolds, StillAlways, Types DEF IInv
<1>2. next' = next => Taken' = Taken
  BY <1>1 DEF Still, Taken
<1>3. /\ \A i \in Ids : \A r \in Reqs : q.owner[i] = r => r \in Taken
      /\ \A i \in Ids : active[i] # NoReq => q.owner[i] = active[i]
  BY Apart DEF IInv, Custody, Guarded
<1>4. ASSUME UNCHANGED <<pump, next, accepted>> PROVE AcceptedIsTaken'
  BY <1>1, <1>4 DEF AcceptedIsTaken, Attending, Hands, Still, Taken
<1>5. CASE ReceiveRequest
  <2>1. /\ Frames[next] \in Reqs /\ Frames[next] \notin Taken /\ pump'.req = Frames[next]
        /\ next' = next + 1 /\ accepted' = accepted
    BY <1>1, <1>5, Apart DEF ReceiveRequest, PumpAt, PumpType
  <2>2. next \in Nat /\ Taken \subseteq Taken'
    BY <1>1, <2>1, Types DEF Taken, Still, IInv
  <2>. QED BY <1>1, <2>1, <2>2 DEF AcceptedIsTaken, Still
<1>6. CASE DrainResponses
  <2>1. pump'.pc = "stop" /\ next' = next /\ accepted' = accepted
    BY <1>1, <1>6 DEF DrainResponses, GoTo, PumpType, peer
  <2>. QED BY <1>1, <1>2, <2>1 DEF AcceptedIsTaken, Attending, Hands
<1>7. CASE AwaitChildren
  <2>1. pump'.pc \in {"worker", "children_late"} /\ next' = next /\ accepted' = accepted
    BY <1>1, <1>7 DEF AwaitChildren, PumpType, peer
  <2>. QED BY <1>1, <1>2, <2>1 DEF AcceptedIsTaken, Attending, Hands
<1>8. CASE AwaitWorker
  <2>1. pump'.pc \in {"finish", "worker_late"} /\ next' = next /\ accepted' = accepted
    BY <1>1, <1>8 DEF AwaitWorker, PumpType, peer
  <2>. QED BY <1>1, <1>2, <2>1 DEF AcceptedIsTaken, Attending, Hands
<1>. USE <1>1, <1>2, <1>3, Sentinels DEF AcceptedIsTaken, Attending, Hands, Still, PumpGoes,
       PumpAnswers, KeepsEnd, PumpRefuses, Releases, PumpGivesUp, OnlyThePump, PumpSteps
<1>9. CASE CheckActive
  BY <1>9, CheckActiveEffect
<1>10. CASE AdmitRequest
  BY <1>10, AdmitRequestEffect
<1>11. CASE ReserveModernSlot
  BY <1>11, ReserveModernSlotEffect DEF SameMarks
<1>12. CASE ReserveQueuedBytes
  BY <1>12, ReserveQueuedBytesEffect DEF SameMarks
<1>13. CASE RegisterChild
  BY <1>13, RegisterChildEffect
<1>14. CASE Spawn
  BY <1>14, SpawnEffect DEF ChildMoves
<1>15. CASE SpawnRefused
  BY <1>15, SpawnRefusedEffect DEF ChildMoves
<1>16. CASE RefusedDropped
  BY <1>16, RefusedDroppedEffect
<1>17. CASE Enqueue
  BY <1>17, EnqueueEffect
<1>18. CASE BindPrincipal
  BY <1>18, BindPrincipalEffect
<1>19. CASE PumpReply
  BY <1>19, PumpReplyEffect DEF Answers
<1>20. ASSUME NEW i \in Ids, ReceiveCancellation(i) PROVE AcceptedIsTaken'
  BY <1>20, ReceiveCancellationEffect DEF SameOwners
<1>21. CASE CancelActiveRequest
  BY <1>21, CancelActiveRequestEffect
<1>22. CASE ReceiveLegacyResponse
  BY <1>22, ReceiveLegacyResponseEffect
<1>23. CASE WorkerFailureSeen
  BY <1>23, WorkerFailureSeenEffect
<1>24. CASE EndOfInput
  BY <1>24, EndOfInputEffect
<1>25. CASE ReceiveStops
  BY <1>25, ReceiveStopsEffect
<1>26. CASE CancelNotifications
  BY <1>26 DEF CancelNotifications, PumpAt, Uncorrelated, GoTo, requests, channels, children, peer,
         Correlated, wire, PumpType
<1>27. CASE PumpStop
  BY <1>27, PumpStopEffect DEF Snapshot, SameOwners
<1>28. CASE CancelActive
  BY <1>28 DEF CancelActive, PumpAt, GoTo, requests, channels, children, peer, wire, PumpType
<1>29. CASE Finish
  BY <1>29, FinishEffect
<1>. QED BY <1>4, <1>5, <1>6, <1>7, <1>8, <1>9, <1>10, <1>11, <1>12, <1>13, <1>14, <1>15, <1>16,
         <1>17, <1>18, <1>19, <1>20, <1>21, <1>22, <1>23, <1>24, <1>25, <1>26, <1>27, <1>28,
         <1>29, Writers
         DEF PumpStep

LEMMA FenceStays == ASSUME IInv, WriterIsHeld, AcceptedIsCancelled, Fenced, [Next]_vars PROVE Fenced'
<1>1. /\ Setting /\ Still
      /\ child \in [Reqs -> ChildPcs]
      /\ accepted \subseteq Reqs
  BY SettingHolds, StillAlways, Types DEF IInv
<1>2. \A s \in Reqs : child[s] # "idle" => Modern
  BY Apart
<1>3. /\ pump.pc \in {"register", "spawn", "enqueue"} => pump.req \in Reqs /\ child[pump.req] = "idle"
      /\ worker.pc \in Busy => worker.job \in Reqs
  BY AtHand DEF Hands, Attending
<1>4. ASSUME UNCHANGED <<child, accepted>> PROVE Fenced'
  BY <1>1, <1>4 DEF Fenced, Still
<1>. USE <1>1, <1>2, <1>3, Sentinels DEF Fenced, WriterIsHeld, AcceptedIsCancelled, Still,
       ChildMoves, KeepsEnd, SameOwners, ChildAt, ChildGoes, requests, channels, peer, wire,
       children, Correlated
<1>5. CASE Spawn
  BY <1>5, SpawnEffect DEF PumpGoes
<1>6. CASE SpawnRefused
  BY <1>6, SpawnRefusedEffect DEF PumpGoes
<1>7. ASSUME NEW i \in Ids, ReceiveCancellation(i) PROVE Fenced'
  BY <1>7, ReceiveCancellationEffect
<1>8. CASE CancelActiveRequest
  BY <1>8, CancelActiveRequestEffect
<1>9. ASSUME NEW r \in Reqs, ChildAdmitted(r) PROVE Fenced'
  BY <1>9 DEF ChildAdmitted
<1>10. ASSUME NEW r \in Reqs, ChildUnpolled(r) PROVE Fenced'
  BY <1>10 DEF ChildUnpolled
<1>11. ASSUME NEW r \in Reqs, ChildGuard(r) PROVE Fenced'
  BY <1>11 DEF ChildGuard
<1>12. ASSUME NEW r \in Reqs, ChildStart(r) PROVE Fenced'
  BY <1>12, ChildStartEffect
<1>13. ASSUME NEW r \in Reqs, ChildPlainReply(r) PROVE Fenced'
  BY <1>13, ChildPlainReplyEffect DEF Answers
<1>14. ASSUME NEW r \in Reqs, ChildProgress(r) PROVE Fenced'
  BY <1>14 DEF ChildProgress
<1>15. ASSUME NEW r \in Reqs, ChildSendProgress(r) PROVE Fenced'
  BY <1>15, ChildSendProgressEffect
<1>16. ASSUME NEW r \in Reqs, ChildReturn(r) PROVE Fenced'
  BY <1>16 DEF ChildReturn
<1>17. ASSUME NEW r \in Reqs, ChildPanic(r) PROVE Fenced'
  BY <1>17 DEF ChildPanic
<1>18. ASSUME NEW r \in Reqs, ChildFinalize(r) PROVE Fenced'
  BY <1>18, ChildFinalizeEffect
<1>19. ASSUME NEW r \in Reqs, ChildReply(r) PROVE Fenced'
  BY <1>19, ChildReplyEffect DEF Answers
<1>20. ASSUME NEW r \in Reqs, ChildUnguard(r) PROVE Fenced'
  BY <1>20 DEF ChildUnguard, RemoveOwn
<1>21. ASSUME NEW r \in Reqs, ChildSettle(r) PROVE Fenced'
  BY <1>21 DEF ChildSettle
<1>22. ASSUME NEW r \in Reqs, ChildFail(r) PROVE Fenced'
  BY <1>22 DEF ChildFail
<1>23. ASSUME NEW r \in Reqs, ChildStop(r) PROVE Fenced'
  BY <1>23, ChildStopEffect DEF Snapshot
<1>24. ASSUME NEW r \in Reqs, ReleaseReservation(r) PROVE Fenced'
  BY <1>24, ReleaseReservationEffect DEF SameMarks, Releases
<1>. QED BY <1>4, <1>5, <1>6, <1>7, <1>8, <1>9, <1>10, <1>11, <1>12, <1>13, <1>14, <1>15, <1>16,
         <1>17, <1>18, <1>19, <1>20, <1>21, <1>22, <1>23, <1>24, Writers
         DEF ChildStep

LEMMA UnrivalledStays == ASSUME IInv, Unrivalled, [Next]_vars PROVE Unrivalled'
<1>1. /\ Setting /\ Still
      /\ child \in [Reqs -> ChildPcs]
  BY SettingHolds, StillAlways, Types DEF IInv
<1>2. /\ pump.pc \in {"register", "spawn", "enqueue"} => pump.req \in Reqs /\ child[pump.req] = "idle"
      /\ worker.pc \in Busy => worker.job \in Reqs
  BY AtHand DEF Hands, Attending
<1>3. ASSUME UNCHANGED <<child>> PROVE Unrivalled'
  BY <1>1, <1>3 DEF Unrivalled, Still
<1>. USE <1>1, <1>2, Sentinels DEF Unrivalled, Still, ChildMoves, ChildAt, ChildGoes, requests,
       channels, peer, wire, children, Correlated
<1>4. CASE Spawn
  BY <1>4, SpawnEffect DEF PumpGoes, KeepsEnd
<1>5. CASE SpawnRefused
  BY <1>5, SpawnRefusedEffect DEF PumpGoes, KeepsEnd
<1>6. ASSUME NEW r \in Reqs, ChildAdmitted(r) PROVE Unrivalled'
  BY <1>6 DEF ChildAdmitted
<1>7. ASSUME NEW r \in Reqs, ChildUnpolled(r) PROVE Unrivalled'
  BY <1>7 DEF ChildUnpolled
<1>8. ASSUME NEW r \in Reqs, ChildGuard(r) PROVE Unrivalled'
  BY <1>8, NobodyElseGuards DEF ChildGuard
<1>9. ASSUME NEW r \in Reqs, ChildStart(r) PROVE Unrivalled'
  BY <1>9, ChildStartEffect DEF SameOwners
<1>10. ASSUME NEW r \in Reqs, ChildPlainReply(r) PROVE Unrivalled'
  BY <1>10, ChildPlainReplyEffect DEF Answers
<1>11. ASSUME NEW r \in Reqs, ChildProgress(r) PROVE Unrivalled'
  BY <1>11 DEF ChildProgress
<1>12. ASSUME NEW r \in Reqs, ChildSendProgress(r) PROVE Unrivalled'
  BY <1>12, ChildSendProgressEffect
<1>13. ASSUME NEW r \in Reqs, ChildReturn(r) PROVE Unrivalled'
  BY <1>13 DEF ChildReturn
<1>14. ASSUME NEW r \in Reqs, ChildPanic(r) PROVE Unrivalled'
  BY <1>14 DEF ChildPanic
<1>15. ASSUME NEW r \in Reqs, ChildFinalize(r) PROVE Unrivalled'
  BY <1>15, ChildFinalizeEffect
<1>16. ASSUME NEW r \in Reqs, ChildReply(r) PROVE Unrivalled'
  BY <1>16, ChildReplyEffect DEF Answers
<1>17. ASSUME NEW r \in Reqs, ChildUnguard(r) PROVE Unrivalled'
  BY <1>17 DEF ChildUnguard, RemoveOwn
<1>18. ASSUME NEW r \in Reqs, ChildSettle(r) PROVE Unrivalled'
  BY <1>18 DEF ChildSettle
<1>19. ASSUME NEW r \in Reqs, ChildFail(r) PROVE Unrivalled'
  BY <1>19 DEF ChildFail
<1>20. ASSUME NEW r \in Reqs, ChildStop(r) PROVE Unrivalled'
  BY <1>20, ChildStopEffect DEF Snapshot, SameOwners
<1>21. ASSUME NEW r \in Reqs, ReleaseReservation(r) PROVE Unrivalled'
  BY <1>21, ReleaseReservationEffect DEF SameMarks, Releases
<1>. QED BY <1>3, <1>4, <1>5, <1>6, <1>7, <1>8, <1>9, <1>10, <1>11, <1>12, <1>13, <1>14, <1>15,
         <1>16, <1>17, <1>18, <1>19, <1>20, <1>21, Writers
         DEF ChildStep

LEMMA WorkerTrackedStays == ASSUME IInv, WorkerTracked, [Next]_vars PROVE WorkerTracked'
<1>1. /\ Setting /\ Still
      /\ word \in [Reqs -> Words]
      /\ active \in [Ids -> Reqs \cup {NoReq}]
      /\ worker \in WorkerType
  BY SettingHolds, StillAlways, Types DEF IInv
<1>2. worker.pc \in {"handle", "running", "respond", "replying", "unguard"} =>
        worker.job \in Reqs /\ \A s \in Reqs : child[s] = "idle"
  BY Apart, AtHand DEF Busy
<1>3. ASSUME UNCHANGED <<word, active, worker>> PROVE WorkerTracked'
  BY <1>1, <1>3 DEF WorkerTracked, Still
<1>4. CASE WorkerTake
  <2>1. worker'.pc \in {"idle", "end", "taken"}
    BY <1>1, <1>4 DEF WorkerTake, WorkerAt, Leave, WorkerType
  <2>. QED BY <2>1 DEF WorkerTracked
<1>5. CASE WorkerHandle
  <2>1. worker'.pc = "replying" => FALSE
    BY <1>5, WorkerHandleEffect DEF WorkerMoves, WorkerEnds
  <2>2. ASSUME worker'.pc \in {"running", "respond"}, worker'.job \notin Untracked'
        PROVE  active'[IdOf'[worker'.job]] = worker'.job
    <3>1. /\ Correlated(worker.job) /\ worker.job \notin Untracked /\ worker'.job = worker.job
          /\ worker.pc = "handle" /\ worker.job \in Reqs
      BY <1>1, <1>5, <2>2, WorkerHandleEffect DEF WorkerMoves, WorkerEnds, Still
    <3>2. active[IdOf[worker.job]] = NoReq /\ IdOf[worker.job] \in Ids
      BY <3>1, NobodyElseGuards, Owners DEF Busy
    <3>3. active' = [active EXCEPT ![IdOf[worker.job]] = worker.job]
      BY <1>5, <2>2, <3>1, <3>2, WorkerHandleEffect DEF WorkerMoves, WorkerEnds
    <3>. QED BY <1>1, <3>1, <3>2, <3>3 DEF Still
  <2>. QED BY <2>1, <2>2 DEF WorkerTracked
<1>. USE <1>1, <1>2, Sentinels DEF WorkerTracked, Still, KeepsEnd, SameOwners, Correlated,
       channels, peer, wire, requests, children, WorkerAt, WorkerMoves, WorkerEnds, Releases,
       WorkerGoes
<1>6. CASE RegisterChild
  BY <1>6, RegisterChildEffect DEF PumpGoes
<1>7. ASSUME NEW i \in Ids, ReceiveCancellation(i) PROVE WorkerTracked'
  BY <1>7, ReceiveCancellationEffect
<1>8. CASE CancelActiveRequest
  BY <1>8, CancelActiveRequestEffect
<1>9. ASSUME NEW r \in Reqs, ChildGuard(r) PROVE WorkerTracked'
  BY <1>9 DEF ChildGuard, ChildAt, ChildGoes
<1>10. ASSUME NEW r \in Reqs, ChildSendProgress(r) PROVE WorkerTracked'
  BY <1>10, ChildSendProgressEffect DEF ChildMoves
<1>11. ASSUME NEW r \in Reqs, ChildFinalize(r) PROVE WorkerTracked'
  BY <1>11, ChildFinalizeEffect DEF ChildMoves
<1>12. ASSUME NEW r \in Reqs, ChildUnguard(r) PROVE WorkerTracked'
  BY <1>12 DEF ChildUnguard, ChildAt, RemoveOwn, ChildGoes
<1>13. CASE WorkerLeaves
  BY <1>13 DEF WorkerLeaves, Leave, WorkerType
<1>14. CASE WorkerReleaseBytes
  BY <1>14, WorkerReleaseBytesEffect DEF SameMarks
<1>15. CASE WorkerAdmitted
  BY <1>15, WorkerAdmittedEffect
<1>16. CASE WorkerBegin
  BY <1>16, WorkerBeginEffect
<1>17. CASE WorkerCheck
  BY <1>17, WorkerCheckEffect
<1>18. CASE WorkerReturn
  BY <1>18 DEF WorkerReturn, WorkerType
<1>19. CASE WorkerResolve
  BY <1>19, WorkerResolveEffect DEF Tracked, Job, Words
<1>20. CASE WorkerReply
  BY <1>20, WorkerReplyEffect DEF Answers
<1>21. CASE WorkerUnguard
  BY <1>21 DEF WorkerUnguard, RemoveOwn, Job, WorkerType
<1>22. CASE WorkerDiscard
  BY <1>22, WorkerDiscardEffect
<1>23. CASE WorkerEnd
  BY <1>23 DEF WorkerEnd, WorkerType
<1>24. CASE WorkerFail
  BY <1>24 DEF WorkerFail, WorkerType
<1>25. CASE WorkerStop
  BY <1>25, WorkerStopEffect DEF Snapshot
<1>26. CASE WorkerStopped
  BY <1>26 DEF WorkerStopped, WorkerType
<1>27. ASSUME NEW a \in Actors, CancelCopied(a) PROVE WorkerTracked'
  BY <1>27, CancelCopiedEffect
<1>. QED BY <1>3, <1>4, <1>5, <1>6, <1>7, <1>8, <1>9, <1>10, <1>11, <1>12, <1>13, <1>14, <1>15,
         <1>16, <1>17, <1>18, <1>19, <1>20, <1>21, <1>22, <1>23, <1>24, <1>25, <1>26, <1>27,
         Writers
         DEF WorkerStep

Settled == AcceptedIsCancelled /\ AcceptedIsTaken /\ Fenced /\ Unrivalled /\ WorkerTracked

LEMMA SettledIsEntered == ASSUME Init PROVE Settled
<1>1. /\ accepted = {} /\ \A r \in Reqs : child[r] = "idle"
      /\ worker.pc = "idle"
  BY DEF Init
<1>. QED BY <1>1
         DEF Settled, AcceptedIsCancelled, AcceptedIsTaken, Fenced, Unrivalled, WorkerTracked

LEMMA SettledStays == ASSUME IInv, Shutdown, Settled, [Next]_vars PROVE Settled'
BY AcceptedStaysCancelled, AcceptedStaysTaken, FenceStays, UnrivalledStays, WorkerTrackedStays
   DEF Shutdown, Settled

\* What a step may write of a request whose cancellation was accepted.
LEMMA AcceptedIsSilent ==
  ASSUME IInv, Settled, [Next]_vars, NEW r \in accepted \ Untracked
  PROVE  /\ progress'[r] = progress[r]
         /\ replies'[r] # replies[r] => Modern /\ replies'[r] = Append(replies[r], "cancelled")
<1>1. /\ r \in Reqs /\ word[r] = "cancelled" /\ child[r] # "progress"
      /\ pump.pc \in Attending => pump.req # r
      /\ replies \in [Reqs -> Seq(Kinds)] /\ progress \in [Reqs -> 0..MaxProgress]
  BY Types DEF IInv, Settled, AcceptedIsCancelled, AcceptedIsTaken, Fenced
<1>2. CASE UNCHANGED <<replies, progress>>
  BY <1>2
<1>3. CASE PumpReply
  BY <1>1, <1>3 DEF PumpReply, PumpAt, Attending
<1>4. ASSUME NEW s \in Reqs, ChildPlainReply(s)
      PROVE  /\ progress'[r] = progress[r]
             /\ replies'[r] # replies[r] => Modern /\ replies'[r] = Append(replies[r], "cancelled")
  <2>1. child[s] = "start_cancelled" /\ Modern /\ progress' = progress
    BY <1>4, Apart DEF ChildPlainReply, Settled, Unrivalled
  <2>2. replies' = replies \/ replies' = [replies EXCEPT ![s] = Append(@, "cancelled")]
    BY <1>4, <2>1 DEF ChildPlainReply, ChildAt
  <2>. QED BY <1>1, <2>1, <2>2
<1>5. ASSUME NEW s \in Reqs, ChildReply(s)
      PROVE  /\ progress'[r] = progress[r]
             /\ replies'[r] # replies[r] => Modern /\ replies'[r] = Append(replies[r], "cancelled")
  <2>1. Modern /\ progress' = progress
    BY <1>5, Apart DEF ChildReply, ChildAt
  <2>2. CASE replies' = replies \/ s # r
    BY <1>1, <1>5, <2>1, <2>2 DEF ChildReply
  <2>3. CASE s = r
    BY <1>1, <1>5, <2>1, <2>3 DEF ChildReply
  <2>. QED BY <2>2, <2>3
<1>6. ASSUME NEW s \in Reqs, ChildSendProgress(s)
      PROVE  progress'[r] = progress[r] /\ replies'[r] = replies[r]
  BY <1>1, <1>6 DEF ChildSendProgress, ChildAt
<1>7. CASE WorkerReply
  <2>1. worker.pc = "replying" /\ progress' = progress
    BY <1>7 DEF WorkerReply, WorkerAt
  <2>2. worker.job # r
    BY <1>1, <2>1 DEF Settled, WorkerTracked
  <2>. QED BY <1>1, <1>7, <2>1, <2>2 DEF WorkerReply, Job
<1>. QED BY <1>2, <1>3, <1>4, <1>5, <1>6, <1>7, Writers

\* Once the peer's cancellation of a request is accepted, no step
\* writes a progress frame or a result of it; the most it is told is that it
\* was cancelled (the writer fence of the receive pump, begin_finalization,
\* resolve_commit_race).
THEOREM CancellationStaysFinal == Spec => CancellationIsFinal
<1>1. Init => Shutdown /\ Settled
  BY ShutdownIsEntered, SettledIsEntered
<1>2. IInv /\ Shutdown /\ [Next]_vars => Shutdown'
  BY ShutdownStays
<1>3. IInv /\ Shutdown /\ Settled /\ [Next]_vars => Settled'
  BY SettledStays
<1>4. IInv /\ Settled /\ [Next]_vars =>
        [\A r \in accepted \ Untracked :
           /\ progress'[r] = progress[r]
           /\ replies'[r] # replies[r] =>
                Modern /\ replies'[r] = Append(replies[r], "cancelled")]_vars
  BY AcceptedIsSilent
<1>. QED BY <1>1, <1>2, <1>3, <1>4, CustodyHolds, PTL DEF Spec, CancellationIsFinal

-----------------------------------------------------------------------------
(* Answers.  Who serves was admitted, who may still answer has not, and every *)
(* request the pump took is answered, given up, or still somebody's.         *)

\* The pump may still take frames.
Loop == Attending \cup {"recv", "lookup"}

\* Answered, given up by the peer or the runtime, about to be answered by the
\* pump, or left to a connection that fails.
Served(r) ==
  \/ Len(replies[r]) = 1 \/ r \in lost \/ (~Modern /\ r \in accepted)
  \/ pump.pc \in {"refused", "reply"} /\ pump.req = r
  \/ failed \/ pump.exit = 1 \/ (worker.pc \in {"end", "fail"} /\ ~worker.clean)

Admitted ==
  /\ \A r \in Reqs : child[r] \in Serving \ {"waiting"} => admission[r] = "admitted"
  /\ worker.pc \in {"begin", "check", "handle", "running", "respond", "replying"} =>
       admission[worker.job] = "admitted"
\* The frame in hand is not answered, and nobody was let in to answer it.
InHand ==
  /\ \A r \in Reqs : r \notin Taken => admission[r] = "pending" /\ Len(replies[r]) = 0
  /\ pump.pc \in Attending \ {"reply"} => admission[pump.req] = "pending"
  /\ pump.pc = "reply" => admission[pump.req] # "admitted"
  /\ pump.pc \in Attending => Len(replies[pump.req]) = 0
MayAnswer(r) ==
  \/ child[r] \in Serving \/ r \in Queued
  \/ worker.pc \in {"taken", "waiting", "begin", "check", "handle", "running", "respond", "replying"}
     /\ worker.job = r
Once ==
  \A r \in Reqs : /\ Len(replies[r]) <= 1
                  /\ admission[r] = "admitted" /\ MayAnswer(r) => Len(replies[r]) = 0
\* Only a failure or the pump stops the queue, or the worker after its last
\* request.
StopHasACause ==
  /\ q.stopping => \/ pump.pc \in PastStop \/ failed
                   \/ ~Modern /\ worker.pc \in {"stopped", "gone"}
  /\ \A r \in Reqs : child[r] = "stop" => failed
\* A pump that drained leaves nobody reserved.
Drained ==
  /\ pump.pc \in Loop => pump.exit = 0
  /\ pump.eof /\ pump.exit = 0 /\ pump.pc \in PastStop \cup {"stop"} =>
       \A i \in Ids : q.owner[i] = NoReq
DroppedIsAsked == worker.pc = "check" /\ worker.dropped /\ Correlated(worker.job) => Asked(worker.job)
\* Who lets go of a request knows that it is served.
Rejected == \A r \in Reqs : admission[r] = "rejected" /\ Correlated(r) => Served(r)
Done(r) == Served(r) \/ q.stopping
Settling ==
  \A r \in Reqs : Correlated(r) =>
    /\ child[r] \in {"unguard", "settle"} /\ outcome[r] = "ok" => Done(r)
    /\ child[r] = "discard" => Done(r)
WorkerSettling ==
  worker.pc \in {"unguard", "discard"} =>
    Correlated(worker.job) /\ (Done(worker.job) \/ worker.sent = "failed")
Outstanding ==
  pump.pc \in Loop \/ pump.eof =>
    \A r \in Reqs : r \in Taken /\ Correlated(r) =>
      \/ Served(r) \/ q.owner[IdOf[r]] = r
      \/ pump.pc \in {"check", "admit"} /\ pump.req = r

LEMMA ReceiveRequestEffect ==
  ASSUME IInv, ReceiveRequest
  PROVE  /\ pump.pc = "recv" /\ ~failed /\ pump'.req \in Reqs /\ pump'.req \notin Taken
         /\ pump'.pc \in {"check", "slot", "bytes"} /\ (Correlated(pump'.req) => pump'.pc = "check")
         /\ KeepsEnd
         /\ \A s \in Reqs : s \in Taken' <=> s \in Taken \/ s = pump'.req
         /\ UNCHANGED <<q, word, active, mailbox, writer, failed, child, outcome, worker, admission,
                        toCancel, replies, progress, accepted, lost>>
<1>1. /\ Still /\ pump \in PumpType /\ next \in Nat /\ pump.pc = "recv" /\ next <= Len(Frames)
      /\ next' = next + 1
  BY Types, SettingStays DEF IInv, ReceiveRequest, PumpAt
<1>2. Frames[next] \in Reqs /\ Frames[next] \notin Taken
  BY <1>1, Apart
<1>3. /\ pump'.req = Frames[next] /\ pump'.pc \in {"check", "slot", "bytes"} /\ KeepsEnd
      /\ Correlated(Frames[next]) => pump'.pc = "check"
  BY <1>1 DEF ReceiveRequest, PumpType, KeepsEnd
<1>4. \A s \in Reqs : s \in Taken' <=> s \in Taken \/ s = Frames[next]
  <2>1. Taken' = {Frames[n] : n \in 1..next}
    BY <1>1 DEF Taken, Still
  <2>2. \A n \in 1..next : n \in 1..(next - 1) \/ n = next
    BY <1>1
  <2>3. next \in 1..next /\ \A n \in 1..(next - 1) : n \in 1..next
    <3>1. next # 0
      BY Types DEF IInv
    <3>. QED BY <1>1, <3>1
  <2>. QED BY <2>1, <2>2, <2>3 DEF Taken
<1>5. UNCHANGED <<q, word, active, mailbox, writer, failed, child, outcome, worker, admission,
                  toCancel, replies, progress, accepted, lost>>
  BY DEF ReceiveRequest, requests, channels, children, wire
<1>. QED BY <1>1, <1>2, <1>3, <1>4, <1>5 DEF ReceiveRequest

\* Who is in the mailbox after the pump posted the request in hand.
LEMMA EnqueuePosts ==
  ASSUME IInv, Enqueue
  PROVE  \A s \in Reqs : s \in Queued' <=> s \in Queued \/ (s = pump.req /\ mailbox' # mailbox)
<1>1. mailbox \in Seq(Letters) /\ Distinct /\ pump.req \in Reqs /\ pump.req \notin Queued
  BY EnqueueEffect, Apart, Types DEF IInv, Custody, Mail, Distinct, Letters, Hands
<1>2. CASE mailbox' = mailbox
  BY <1>2 DEF Queued
<1>3. CASE mailbox' = Append(mailbox, pump.req)
  <2>1. Len(mailbox') = Len(mailbox) + 1 /\ \A s \in Reqs : s \in Queued' <=> s \in Queued \/ s = pump.req
    BY <1>1, <1>3, Posted DEF Letters
  <2>2. Len(mailbox) \in Nat
    BY <1>1
  <2>3. mailbox' # mailbox
    BY <2>1, <2>2
  <2>. QED BY <2>1, <2>3
<1>. QED BY <1>2, <1>3, EnqueueEffect

\* Letting go of an id takes it from nobody else.
LEMMA FreeStaysFree ==
  ASSUME Setting, NEW r \in Reqs, Releases(q, q', r)
  PROVE  \A i \in Ids : q.owner[i] = NoReq => q'.owner[i] = NoReq
BY Sentinels DEF Releases, Correlated, Setting

LEMMA AdmittedStays == ASSUME IInv, InHand, Admitted, [Next]_vars PROVE Admitted'
<1>1. /\ Setting /\ Still
      /\ child \in [Reqs -> ChildPcs]
      /\ worker \in WorkerType
      /\ admission \in [Reqs -> {"pending", "admitted", "rejected"}]
  BY SettingHolds, StillAlways, Types DEF IInv
<1>2. /\ pump.pc \in Attending => pump.req \in Reqs
      /\ worker.pc \in Busy => worker.job \in Reqs
  BY AtHand
<1>3. ASSUME UNCHANGED <<child, worker, admission>> PROVE Admitted'
  BY <1>1, <1>3 DEF Admitted, Serving, Still
<1>4. CASE Spawn
  <2>1. pump.req \in Reqs /\ \A s \in Reqs : admission'[s] \in {admission[s], "admitted"}
    BY <1>1, <1>4, SpawnEffect
  <2>2. UNCHANGED worker /\ child'[pump.req] = "waiting"
        /\ \A s \in Reqs : s # pump.req => child'[s] = child[s]
    BY <1>4, SpawnEffect DEF ChildMoves
  <2>. QED BY <1>1, <1>2, <2>1, <2>2 DEF Admitted, Serving, Busy
<1>5. CASE Enqueue
  <2>1. pump.req \in Reqs /\ \A s \in Reqs : admission'[s] \in {admission[s], "admitted"}
    BY <1>1, <1>5, EnqueueEffect
  <2>2. UNCHANGED <<child, worker>>
    BY <1>5, EnqueueEffect DEF PumpGoes
  <2>. QED BY <1>1, <1>2, <2>1, <2>2 DEF Admitted, Serving, Busy
<1>6. CASE BindPrincipal
  <2>1. pump.req \in Reqs /\ UNCHANGED <<child, worker>>
        /\ admission[pump.req] = "pending" /\ \A s \in Reqs : s # pump.req => admission'[s] = admission[s]
    BY <1>1, <1>6, BindPrincipalEffect DEF InHand, Attending
  <2>. QED BY <1>1, <1>2, <2>1 DEF Admitted, Busy
<1>. USE <1>1, <1>2, Sentinels DEF Admitted, Serving, Still, ChildMoves, ChildAt, ChildGoes,
       requests, channels, peer, wire, children, Correlated, SameOwners, Answers, Releases,
       WorkerAt, WorkerMoves, WorkerEnds, WorkerGoes
<1>7. CASE SpawnRefused
  BY <1>7, SpawnRefusedEffect DEF PumpGoes, KeepsEnd
<1>8. ASSUME NEW r \in Reqs, ChildAdmitted(r) PROVE Admitted'
  BY <1>8 DEF ChildAdmitted
<1>9. ASSUME NEW r \in Reqs, ChildUnpolled(r) PROVE Admitted'
  BY <1>9 DEF ChildUnpolled
<1>10. ASSUME NEW r \in Reqs, ChildGuard(r) PROVE Admitted'
  BY <1>10 DEF ChildGuard
<1>11. ASSUME NEW r \in Reqs, ChildStart(r) PROVE Admitted'
  BY <1>11, ChildStartEffect
<1>12. ASSUME NEW r \in Reqs, ChildPlainReply(r) PROVE Admitted'
  BY <1>12, ChildPlainReplyEffect
<1>13. ASSUME NEW r \in Reqs, ChildProgress(r) PROVE Admitted'
  BY <1>13 DEF ChildProgress
<1>14. ASSUME NEW r \in Reqs, ChildSendProgress(r) PROVE Admitted'
  BY <1>14, ChildSendProgressEffect
<1>15. ASSUME NEW r \in Reqs, ChildReturn(r) PROVE Admitted'
  BY <1>15 DEF ChildReturn
<1>16. ASSUME NEW r \in Reqs, ChildPanic(r) PROVE Admitted'
  BY <1>16 DEF ChildPanic
<1>17. ASSUME NEW r \in Reqs, ChildFinalize(r) PROVE Admitted'
  BY <1>17, ChildFinalizeEffect
<1>18. ASSUME NEW r \in Reqs, ChildReply(r) PROVE Admitted'
  BY <1>18, ChildReplyEffect
<1>19. ASSUME NEW r \in Reqs, ChildUnguard(r) PROVE Admitted'
  BY <1>19 DEF ChildUnguard, RemoveOwn
<1>20. ASSUME NEW r \in Reqs, ChildSettle(r) PROVE Admitted'
  BY <1>20 DEF ChildSettle
<1>21. ASSUME NEW r \in Reqs, ChildFail(r) PROVE Admitted'
  BY <1>21 DEF ChildFail
<1>22. ASSUME NEW r \in Reqs, ChildStop(r) PROVE Admitted'
  BY <1>22, ChildStopEffect DEF Snapshot
<1>23. ASSUME NEW r \in Reqs, ReleaseReservation(r) PROVE Admitted'
  BY <1>23, ReleaseReservationEffect DEF SameMarks
<1>24. CASE WorkerLeaves
  BY <1>24 DEF WorkerLeaves, Leave, WorkerType
<1>25. CASE WorkerTake
  BY <1>25, WorkerTakeEffect
<1>26. CASE WorkerReleaseBytes
  BY <1>26, WorkerReleaseBytesEffect DEF SameMarks
<1>27. CASE WorkerAdmitted
  BY <1>27, WorkerAdmittedEffect
<1>28. CASE WorkerBegin
  BY <1>28, WorkerBeginEffect
<1>29. CASE WorkerCheck
  BY <1>29, WorkerCheckEffect
<1>30. CASE WorkerHandle
  BY <1>30, WorkerHandleEffect
<1>31. CASE WorkerReturn
  BY <1>31 DEF WorkerReturn, WorkerType
<1>32. CASE WorkerResolve
  BY <1>32, WorkerResolveEffect
<1>33. CASE WorkerReply
  BY <1>33, WorkerReplyEffect
<1>34. CASE WorkerUnguard
  BY <1>34 DEF WorkerUnguard, RemoveOwn, Job, WorkerType
<1>35. CASE WorkerDiscard
  BY <1>35, WorkerDiscardEffect
<1>36. CASE WorkerEnd
  BY <1>36 DEF WorkerEnd, WorkerType
<1>37. CASE WorkerFail
  BY <1>37 DEF WorkerFail, WorkerType
<1>38. CASE WorkerStop
  BY <1>38, WorkerStopEffect DEF Snapshot
<1>39. CASE WorkerStopped
  BY <1>39 DEF WorkerStopped, WorkerType
<1>. QED BY <1>3, <1>4, <1>5, <1>6, <1>7, <1>8, <1>9, <1>10, <1>11, <1>12, <1>13, <1>14, <1>15,
         <1>16, <1>17, <1>18, <1>19, <1>20, <1>21, <1>22, <1>23, <1>24, <1>25, <1>26, <1>27,
         <1>28, <1>29, <1>30, <1>31, <1>32, <1>33, <1>34, <1>35, <1>36, <1>37, <1>38, <1>39,
         Writers
         DEF ChildStep, WorkerStep

LEMMA InHandStays == ASSUME IInv, Unrivalled, Admitted, InHand, [Next]_vars PROVE InHand'
<1>1. /\ Setting /\ Still
      /\ pump \in PumpType
      /\ admission \in [Reqs -> {"pending", "admitted", "rejected"}]
      /\ replies \in [Reqs -> Seq(Kinds)]
  BY SettingHolds, StillAlways, Types DEF IInv
<1>2. next' = next => Taken' = Taken
  BY <1>1 DEF Still, Taken
<1>3. /\ pump.pc \in Attending => pump.req \in Reqs /\ pump.req \in Taken
      /\ worker.pc \in Busy => worker.job \in Reqs /\ worker.job \in Taken
      /\ \A s \in Reqs : s \notin Taken => child[s] = "idle"
  BY AtHand, Apart
<1>4. \A s \in Reqs : Len(replies[s]) \in Nat
  BY <1>1
<1>5. ASSUME UNCHANGED <<pump, admission, next, replies>> PROVE InHand'
  BY <1>1, <1>5 DEF InHand, Attending, Hands, Still, Taken
<1>. USE <1>1, <1>2, <1>3, <1>4, Sentinels DEF InHand, Unrivalled, Admitted, Attending, Serving,
       Hands, Still, KeepsEnd, PumpGoes, PumpAnswers, PumpRefuses, Releases, ChildMoves,
       PumpGivesUp, Answers, OnlyThePump, PumpSteps
<1>6. CASE ReceiveRequest
  BY <1>6, ReceiveRequestEffect
<1>7. CASE CheckActive
  BY <1>7, CheckActiveEffect
<1>8. CASE AdmitRequest
  BY <1>8, AdmitRequestEffect
<1>9. CASE ReserveModernSlot
  BY <1>9, ReserveModernSlotEffect DEF SameMarks
<1>10. CASE ReserveQueuedBytes
  BY <1>10, ReserveQueuedBytesEffect DEF SameMarks
<1>11. CASE RegisterChild
  BY <1>11, RegisterChildEffect
<1>12. CASE Spawn
  BY <1>12, SpawnEffect
<1>13. CASE SpawnRefused
  BY <1>13, SpawnRefusedEffect
<1>14. CASE RefusedDropped
  BY <1>14, RefusedDroppedEffect
<1>15. CASE Enqueue
  BY <1>15, EnqueueEffect
<1>16. CASE BindPrincipal
  BY <1>16, BindPrincipalEffect
<1>17. CASE PumpReply
  BY <1>17, PumpReplyEffect
<1>18. ASSUME NEW i \in Ids, ReceiveCancellation(i) PROVE InHand'
  BY <1>18, ReceiveCancellationEffect DEF SameOwners
<1>19. CASE CancelActiveRequest
  BY <1>19, CancelActiveRequestEffect
<1>20. CASE ReceiveLegacyResponse
  BY <1>20, ReceiveLegacyResponseEffect
<1>21. CASE WorkerFailureSeen
  BY <1>21, WorkerFailureSeenEffect
<1>22. CASE EndOfInput
  BY <1>22, EndOfInputEffect
<1>23. CASE ReceiveStops
  BY <1>23, ReceiveStopsEffect
<1>24. CASE CancelNotifications
  BY <1>24 DEF CancelNotifications, PumpAt, Uncorrelated, GoTo, requests, channels, children, peer,
         Correlated, wire, PumpType
<1>25. CASE DrainResponses
  BY <1>25, DrainResponsesEffect
<1>26. CASE PumpStop
  BY <1>26, PumpStopEffect DEF Snapshot, SameOwners
<1>27. CASE CancelActive
  BY <1>27 DEF CancelActive, PumpAt, GoTo, requests, channels, children, peer, wire, PumpType
<1>28. CASE AwaitChildren
  BY <1>28, AwaitChildrenEffect
<1>29. CASE AwaitWorker
  BY <1>29, AwaitWorkerEffect
<1>30. CASE Finish
  BY <1>30, FinishEffect
<1>31. ASSUME NEW r \in Reqs, ChildPlainReply(r) PROVE InHand'
  BY <1>31, ChildPlainReplyEffect
<1>32. ASSUME NEW r \in Reqs, ChildReply(r) PROVE InHand'
  BY <1>32, ChildReplyEffect
<1>33. CASE WorkerReply
  BY <1>33, WorkerReplyEffect
<1>. QED BY <1>5, <1>6, <1>7, <1>8, <1>9, <1>10, <1>11, <1>12, <1>13, <1>14, <1>15, <1>16,
         <1>17, <1>18, <1>19, <1>20, <1>21, <1>22, <1>23, <1>24, <1>25, <1>26, <1>27, <1>28,
         <1>29, <1>30, <1>31, <1>32, <1>33, Writers
         DEF PumpStep

LEMMA OnceStays == ASSUME IInv, Unrivalled, Admitted, InHand, Once, [Next]_vars PROVE Once'
<1>1. /\ Setting /\ Still
      /\ mailbox \in Seq(Reqs \cup {Response})
      /\ child \in [Reqs -> ChildPcs]
      /\ worker \in WorkerType
      /\ admission \in [Reqs -> {"pending", "admitted", "rejected"}]
      /\ replies \in [Reqs -> Seq(Kinds)]
  BY SettingHolds, StillAlways, Types DEF IInv
<1>2. mailbox' = mailbox => Queued' = Queued
  BY DEF Queued
<1>3. /\ pump.pc \in Attending => pump.req \in Reqs /\ pump.req \in Taken
      /\ worker.pc \in Busy => worker.job \in Reqs /\ worker.job \in Taken
      /\ \A s \in Reqs : s \notin Taken => child[s] = "idle"
  BY AtHand, Apart
<1>4. /\ \A s \in Reqs : child[s] # "idle" => s \notin Queued /\ worker.pc \notin Busy
      /\ worker.pc \in Busy => worker.job \notin Queued /\ \A s \in Reqs : child[s] = "idle"
  BY Apart DEF IInv, Custody, Eras, Queued, Busy
<1>5. \A s \in Reqs : Len(replies[s]) \in Nat
  BY <1>1
<1>6. ASSUME UNCHANGED <<mailbox, child, worker, admission, replies>> PROVE Once'
  BY <1>1, <1>6 DEF Once, MayAnswer, Serving, Still, Queued
<1>7. ASSUME NEW r \in Reqs, ChildPlainReply(r) PROVE Once'
  <2>1. Len(replies[r]) = 0
    <3>1. child[r] \in {"start_cancelled", "replying"}
      BY <1>7, ChildPlainReplyEffect DEF Unrivalled
    <3>. QED BY <3>1 DEF Once, MayAnswer, Admitted, Serving
  <2>2. Len(replies'[r]) <= 1
    <3>1. replies' = replies \/ Answers(r)
      BY <1>7, <2>1, ChildPlainReplyEffect
    <3>2. CASE replies' = replies
      BY <2>1, <3>2
    <3>3. CASE Answers(r)
      <4>1. Len(replies'[r]) = 0 + 1
        BY <2>1, <3>3 DEF Answers
      <4>. QED BY <4>1
    <3>. QED BY <3>1, <3>2, <3>3
  <2>3. ~MayAnswer(r)'
    BY <1>2, <1>4, <1>7, <2>1, ChildPlainReplyEffect DEF MayAnswer, Serving, Busy, ChildMoves
  <2>4. \A s \in Reqs : s # r => replies'[s] = replies[s] /\ (MayAnswer(s)' => MayAnswer(s))
    BY <1>2, <1>7, <2>1, ChildPlainReplyEffect DEF MayAnswer, Answers, ChildMoves
  <2>5. admission' = admission
    BY <1>7, ChildPlainReplyEffect
  <2>. QED BY <2>2, <2>3, <2>4, <2>5 DEF Once
<1>8. ASSUME NEW r \in Reqs, ChildReply(r) PROVE Once'
  <2>1. Len(replies[r]) = 0
    <3>1. child[r] \in {"start_cancelled", "replying"}
      BY <1>8, ChildReplyEffect DEF Unrivalled
    <3>. QED BY <3>1 DEF Once, MayAnswer, Admitted, Serving
  <2>2. Len(replies'[r]) <= 1
    <3>1. replies' = replies \/ Answers(r)
      BY <1>8, <2>1, ChildReplyEffect
    <3>2. CASE replies' = replies
      BY <2>1, <3>2
    <3>3. CASE Answers(r)
      <4>1. Len(replies'[r]) = 0 + 1
        BY <2>1, <3>3 DEF Answers
      <4>. QED BY <4>1
    <3>. QED BY <3>1, <3>2, <3>3
  <2>3. ~MayAnswer(r)'
    BY <1>2, <1>4, <1>8, <2>1, ChildReplyEffect DEF MayAnswer, Serving, Busy, ChildMoves
  <2>4. \A s \in Reqs : s # r => replies'[s] = replies[s] /\ (MayAnswer(s)' => MayAnswer(s))
    BY <1>2, <1>8, <2>1, ChildReplyEffect DEF MayAnswer, Answers, ChildMoves
  <2>5. admission' = admission
    BY <1>8, ChildReplyEffect
  <2>. QED BY <2>2, <2>3, <2>4, <2>5 DEF Once
<1>9. CASE WorkerAdmitted
  <2>1. UNCHANGED <<admission, replies, mailbox>> /\ \A s \in Reqs : MayAnswer(s)' => MayAnswer(s)
    BY <1>2, <1>9, WorkerAdmittedEffect DEF MayAnswer, WorkerMoves, WorkerEnds
  <2>. QED BY <2>1 DEF Once
<1>10. CASE WorkerCheck
  <2>1. UNCHANGED <<admission, replies, mailbox>> /\ \A s \in Reqs : MayAnswer(s)' => MayAnswer(s)
    BY <1>2, <1>10, WorkerCheckEffect DEF MayAnswer, WorkerMoves, WorkerEnds
  <2>. QED BY <2>1 DEF Once
<1>11. CASE WorkerHandle
  <2>1. UNCHANGED <<admission, replies, mailbox>> /\ \A s \in Reqs : MayAnswer(s)' => MayAnswer(s)
    BY <1>2, <1>11, WorkerHandleEffect DEF MayAnswer, WorkerMoves, WorkerEnds
  <2>. QED BY <2>1 DEF Once
<1>12. CASE WorkerReply
  <2>1. PICK x \in Reqs : x = worker.job /\ worker.pc = "replying" /\ Len(replies[x]) = 0
    <3>1. worker.pc = "replying" /\ worker.job \in Reqs
      BY <1>12, WorkerReplyEffect
    <3>. QED BY <3>1 DEF Once, MayAnswer, Admitted
  <2>2. Len(replies'[x]) <= 1
    <3>1. replies' = replies \/ Answers(x)
      BY <1>12, <2>1, WorkerReplyEffect
    <3>2. CASE replies' = replies
      BY <2>1, <3>2
    <3>3. CASE Answers(x)
      <4>1. Len(replies'[x]) = 0 + 1
        BY <2>1, <3>3 DEF Answers
      <4>. QED BY <4>1
    <3>. QED BY <3>1, <3>2, <3>3
  <2>3. ~MayAnswer(x)'
    BY <1>2, <1>4, <1>12, <2>1, WorkerReplyEffect DEF MayAnswer, Serving, Busy
  <2>4. \A s \in Reqs : s # x => replies'[s] = replies[s] /\ (MayAnswer(s)' => MayAnswer(s))
    BY <1>2, <1>12, <2>1, WorkerReplyEffect DEF MayAnswer, Answers
  <2>5. admission' = admission
    BY <1>12, WorkerReplyEffect
  <2>. QED BY <2>2, <2>3, <2>4, <2>5 DEF Once
<1>13. CASE WorkerDiscard
  <2>1. UNCHANGED <<admission, replies, mailbox>> /\ \A s \in Reqs : MayAnswer(s)' => MayAnswer(s)
    BY <1>2, <1>13, WorkerDiscardEffect DEF MayAnswer, WorkerMoves, WorkerEnds
  <2>. QED BY <2>1 DEF Once
<1>18. CASE PumpReply
  <2>1. \A s \in Reqs : MayAnswer(s)' <=> MayAnswer(s)
    BY <1>2, <1>18, PumpReplyEffect DEF MayAnswer
  <2>2. admission' = admission /\ pump.req \in Reqs /\ Len(replies[pump.req]) = 0
        /\ admission[pump.req] # "admitted"
    BY <1>18, PumpReplyEffect DEF InHand, Attending
  <2>3. /\ replies' = replies \/ Len(replies'[pump.req]) = 0 + 1
        /\ \A s \in Reqs : s # pump.req => replies'[s] = replies[s]
    BY <1>18, <2>2, PumpReplyEffect DEF Answers
  <2>4. Len(replies'[pump.req]) <= 1
    <3>1. CASE replies' = replies
      BY <2>2, <3>1
    <3>2. CASE Len(replies'[pump.req]) = 0 + 1
      BY <3>2
    <3>. QED BY <2>3, <3>1, <3>2
  <2>. QED BY <2>1, <2>2, <2>3, <2>4 DEF Once
<1>. USE <1>1, <1>2, <1>3, <1>4, <1>5, Sentinels DEF Once, Unrivalled, Admitted, InHand,
       MayAnswer, Serving, Attending, Hands, Still, PumpGoes, ChildMoves, KeepsEnd, PumpGivesUp,
       ChildAt, ChildGoes, requests, channels, peer, wire, children, Correlated, SameOwners,
       WorkerAt, WorkerMoves, WorkerGoes
<1>14. CASE Spawn
  BY <1>14, SpawnEffect
<1>15. CASE SpawnRefused
  BY <1>15, SpawnRefusedEffect
<1>16. CASE Enqueue
  BY <1>16, EnqueueEffect, EnqueuePosts DEF PumpRefuses, Releases, PumpAnswers
<1>17. CASE BindPrincipal
  BY <1>17, BindPrincipalEffect DEF PumpAnswers
<1>19. CASE ReceiveLegacyResponse
  BY <1>19, ReceiveLegacyResponseEffect
<1>20. ASSUME NEW r \in Reqs, ChildAdmitted(r) PROVE Once'
  BY <1>20 DEF ChildAdmitted
<1>21. ASSUME NEW r \in Reqs, ChildUnpolled(r) PROVE Once'
  BY <1>21 DEF ChildUnpolled
<1>22. ASSUME NEW r \in Reqs, ChildGuard(r) PROVE Once'
  BY <1>22 DEF ChildGuard
<1>23. ASSUME NEW r \in Reqs, ChildStart(r) PROVE Once'
  BY <1>23, ChildStartEffect
<1>24. ASSUME NEW r \in Reqs, ChildProgress(r) PROVE Once'
  BY <1>24 DEF ChildProgress
<1>25. ASSUME NEW r \in Reqs, ChildSendProgress(r) PROVE Once'
  BY <1>25, ChildSendProgressEffect
<1>26. ASSUME NEW r \in Reqs, ChildReturn(r) PROVE Once'
  BY <1>26 DEF ChildReturn
<1>27. ASSUME NEW r \in Reqs, ChildPanic(r) PROVE Once'
  BY <1>27 DEF ChildPanic
<1>28. ASSUME NEW r \in Reqs, ChildFinalize(r) PROVE Once'
  BY <1>28, ChildFinalizeEffect
<1>29. ASSUME NEW r \in Reqs, ChildUnguard(r) PROVE Once'
  BY <1>29 DEF ChildUnguard, RemoveOwn
<1>30. ASSUME NEW r \in Reqs, ChildSettle(r) PROVE Once'
  BY <1>30 DEF ChildSettle
<1>31. ASSUME NEW r \in Reqs, ChildFail(r) PROVE Once'
  BY <1>31 DEF ChildFail
<1>32. ASSUME NEW r \in Reqs, ChildStop(r) PROVE Once'
  BY <1>32, ChildStopEffect DEF Snapshot
<1>33. ASSUME NEW r \in Reqs, ReleaseReservation(r) PROVE Once'
  BY <1>33, ReleaseReservationEffect DEF SameMarks, Releases
<1>34. CASE WorkerLeaves
  BY <1>34 DEF WorkerLeaves, Leave, WorkerType
<1>35. CASE WorkerTake
  BY <1>35, WorkerTakeEffect
<1>36. CASE WorkerReleaseBytes
  BY <1>36, WorkerReleaseBytesEffect DEF SameMarks
<1>37. CASE WorkerBegin
  BY <1>37, WorkerBeginEffect
<1>38. CASE WorkerReturn
  BY <1>38 DEF WorkerReturn, WorkerType
<1>39. CASE WorkerResolve
  BY <1>39, WorkerResolveEffect
<1>40. CASE WorkerUnguard
  BY <1>40 DEF WorkerUnguard, RemoveOwn, Job, WorkerType
<1>41. CASE WorkerEnd
  BY <1>41 DEF WorkerEnd, WorkerType
<1>42. CASE WorkerFail
  BY <1>42 DEF WorkerFail, WorkerType
<1>43. CASE WorkerStop
  BY <1>43, WorkerStopEffect DEF Snapshot
<1>44. CASE WorkerStopped
  BY <1>44 DEF WorkerStopped, WorkerType
<1>. QED BY <1>6, <1>7, <1>8, <1>9, <1>10, <1>11, <1>12, <1>13, <1>14, <1>15, <1>16, <1>17,
         <1>18, <1>19, <1>20, <1>21, <1>22, <1>23, <1>24, <1>25, <1>26, <1>27, <1>28, <1>29,
         <1>30, <1>31, <1>32, <1>33, <1>34, <1>35, <1>36, <1>37, <1>38, <1>39, <1>40, <1>41,
         <1>42, <1>43, <1>44, Writers
         DEF ChildStep, WorkerStep

LEMMA StopKeepsItsCause == ASSUME IInv, StopHasACause, [Next]_vars PROVE StopHasACause'
<1>1. /\ Setting /\ Still
      /\ q \in QueueStates
      /\ failed \in BOOLEAN
      /\ pump \in PumpType
      /\ child \in [Reqs -> ChildPcs]
      /\ worker \in WorkerType
  BY SettingHolds, StillAlways, Types DEF IInv
<1>2. worker.pc = "stop" => ~Modern
  BY DEF IInv, Custody, Eras
<1>3. ASSUME UNCHANGED <<q, failed, pump, child, worker>> PROVE StopHasACause'
  BY <1>1, <1>3 DEF StopHasACause, PastStop, Still
<1>. USE <1>1, <1>2, Sentinels DEF StopHasACause, PastStop, Still, KeepsEnd, PumpGoes,
       PumpAnswers, PumpRefuses, SameMarks, Releases, ChildMoves, PumpGivesUp, Answers,
       SameOwners, OnlyThePump, PumpSteps, requests, channels, children, peer, Correlated, wire,
       Snapshot, ChildAt, ChildGoes, WorkerAt, WorkerMoves, WorkerEnds, WorkerGoes
<1>4. CASE ReceiveRequest
  BY <1>4, ReceiveRequestEffect DEF QueueStates
<1>5. CASE CheckActive
  BY <1>5, CheckActiveEffect DEF QueueStates
<1>6. CASE AdmitRequest
  BY <1>6, AdmitRequestEffect DEF QueueStates
<1>7. CASE ReserveModernSlot
  BY <1>7, ReserveModernSlotEffect DEF QueueStates
<1>8. CASE ReserveQueuedBytes
  BY <1>8, ReserveQueuedBytesEffect DEF QueueStates
<1>9. CASE RegisterChild
  BY <1>9, RegisterChildEffect DEF QueueStates
<1>10. CASE Spawn
  BY <1>10, SpawnEffect DEF QueueStates
<1>11. CASE SpawnRefused
  BY <1>11, SpawnRefusedEffect DEF QueueStates
<1>12. CASE RefusedDropped
  BY <1>12, RefusedDroppedEffect DEF QueueStates
<1>13. CASE Enqueue
  BY <1>13, EnqueueEffect DEF QueueStates
<1>14. CASE BindPrincipal
  BY <1>14, BindPrincipalEffect DEF QueueStates
<1>15. CASE PumpReply
  BY <1>15, PumpReplyEffect DEF QueueStates
<1>16. ASSUME NEW i \in Ids, ReceiveCancellation(i) PROVE StopHasACause'
  BY <1>16, ReceiveCancellationEffect DEF QueueStates
<1>17. CASE CancelActiveRequest
  BY <1>17, CancelActiveRequestEffect DEF QueueStates
<1>18. CASE ReceiveLegacyResponse
  BY <1>18, ReceiveLegacyResponseEffect DEF QueueStates
<1>19. CASE WorkerFailureSeen
  BY <1>19, WorkerFailureSeenEffect DEF QueueStates
<1>20. CASE EndOfInput
  BY <1>20, EndOfInputEffect DEF QueueStates
<1>21. CASE ReceiveStops
  BY <1>21, ReceiveStopsEffect DEF QueueStates
<1>22. CASE CancelNotifications
  BY <1>22 DEF CancelNotifications, PumpAt, Uncorrelated, GoTo, PumpType
<1>23. CASE DrainResponses
  BY <1>23, DrainResponsesEffect DEF QueueStates
<1>24. CASE PumpStop
  BY <1>24, PumpStopEffect DEF QueueStates
<1>25. CASE CancelActive
  BY <1>25 DEF CancelActive, PumpAt, GoTo, PumpType
<1>26. CASE AwaitChildren
  BY <1>26, AwaitChildrenEffect DEF QueueStates
<1>27. CASE AwaitWorker
  BY <1>27, AwaitWorkerEffect DEF QueueStates
<1>28. CASE Finish
  BY <1>28, FinishEffect DEF QueueStates
<1>29. ASSUME NEW r \in Reqs, ChildAdmitted(r) PROVE StopHasACause'
  BY <1>29 DEF ChildAdmitted
<1>30. ASSUME NEW r \in Reqs, ChildUnpolled(r) PROVE StopHasACause'
  BY <1>30 DEF ChildUnpolled
<1>31. ASSUME NEW r \in Reqs, ChildGuard(r) PROVE StopHasACause'
  BY <1>31 DEF ChildGuard
<1>32. ASSUME NEW r \in Reqs, ChildStart(r) PROVE StopHasACause'
  BY <1>32, ChildStartEffect DEF QueueStates
<1>33. ASSUME NEW r \in Reqs, ChildPlainReply(r) PROVE StopHasACause'
  BY <1>33, ChildPlainReplyEffect DEF QueueStates
<1>34. ASSUME NEW r \in Reqs, ChildProgress(r) PROVE StopHasACause'
  BY <1>34 DEF ChildProgress
<1>35. ASSUME NEW r \in Reqs, ChildSendProgress(r) PROVE StopHasACause'
  BY <1>35, ChildSendProgressEffect DEF QueueStates
<1>36. ASSUME NEW r \in Reqs, ChildReturn(r) PROVE StopHasACause'
  BY <1>36 DEF ChildReturn
<1>37. ASSUME NEW r \in Reqs, ChildPanic(r) PROVE StopHasACause'
  BY <1>37 DEF ChildPanic
<1>38. ASSUME NEW r \in Reqs, ChildFinalize(r) PROVE StopHasACause'
  BY <1>38, ChildFinalizeEffect DEF QueueStates
<1>39. ASSUME NEW r \in Reqs, ChildReply(r) PROVE StopHasACause'
  BY <1>39, ChildReplyEffect DEF QueueStates
<1>40. ASSUME NEW r \in Reqs, ChildUnguard(r) PROVE StopHasACause'
  BY <1>40 DEF ChildUnguard, RemoveOwn
<1>41. ASSUME NEW r \in Reqs, ChildSettle(r) PROVE StopHasACause'
  BY <1>41 DEF ChildSettle
<1>42. ASSUME NEW r \in Reqs, ChildFail(r) PROVE StopHasACause'
  BY <1>42 DEF ChildFail
<1>43. ASSUME NEW r \in Reqs, ChildStop(r) PROVE StopHasACause'
  BY <1>43, ChildStopEffect DEF QueueStates
<1>44. ASSUME NEW r \in Reqs, ReleaseReservation(r) PROVE StopHasACause'
  BY <1>44, ReleaseReservationEffect DEF QueueStates
<1>45. CASE WorkerLeaves
  BY <1>45 DEF WorkerLeaves, Leave, WorkerType
<1>46. CASE WorkerTake
  BY <1>46, WorkerTakeEffect DEF QueueStates
<1>47. CASE WorkerReleaseBytes
  BY <1>47, WorkerReleaseBytesEffect DEF QueueStates
<1>48. CASE WorkerAdmitted
  BY <1>48, WorkerAdmittedEffect DEF QueueStates
<1>49. CASE WorkerBegin
  BY <1>49, WorkerBeginEffect DEF QueueStates
<1>50. CASE WorkerCheck
  BY <1>50, WorkerCheckEffect DEF QueueStates
<1>51. CASE WorkerHandle
  BY <1>51, WorkerHandleEffect DEF QueueStates
<1>52. CASE WorkerReturn
  BY <1>52 DEF WorkerReturn, WorkerType
<1>53. CASE WorkerResolve
  BY <1>53, WorkerResolveEffect DEF QueueStates
<1>54. CASE WorkerReply
  BY <1>54, WorkerReplyEffect DEF QueueStates
<1>55. CASE WorkerUnguard
  BY <1>55 DEF WorkerUnguard, RemoveOwn, Job, WorkerType
<1>56. CASE WorkerDiscard
  BY <1>56, WorkerDiscardEffect DEF QueueStates
<1>57. CASE WorkerEnd
  BY <1>57 DEF WorkerEnd, WorkerType
<1>58. CASE WorkerFail
  BY <1>58 DEF WorkerFail, WorkerType
<1>59. CASE WorkerStop
  BY <1>59, WorkerStopEffect DEF QueueStates
<1>60. CASE WorkerStopped
  BY <1>60 DEF WorkerStopped, WorkerType
<1>. QED BY <1>3, <1>4, <1>5, <1>6, <1>7, <1>8, <1>9, <1>10, <1>11, <1>12, <1>13, <1>14, <1>15,
         <1>16, <1>17, <1>18, <1>19, <1>20, <1>21, <1>22, <1>23, <1>24, <1>25, <1>26, <1>27,
         <1>28, <1>29, <1>30, <1>31, <1>32, <1>33, <1>34, <1>35, <1>36, <1>37, <1>38, <1>39,
         <1>40, <1>41, <1>42, <1>43, <1>44, <1>45, <1>46, <1>47, <1>48, <1>49, <1>50, <1>51,
         <1>52, <1>53, <1>54, <1>55, <1>56, <1>57, <1>58, <1>59, <1>60, Writers
         DEF PumpStep, ChildStep, WorkerStep

LEMMA DrainedStays == ASSUME IInv, Drained, [Next]_vars PROVE Drained'
<1>1. /\ Setting /\ Still
      /\ q \in QueueStates
      /\ pump \in PumpType
  BY SettingHolds, StillAlways, Types DEF IInv
<1>2. ASSUME UNCHANGED <<q, pump>> PROVE Drained'
  BY <1>1, <1>2 DEF Drained, Loop, PastStop, Attending, Hands, Still
<1>3. ASSUME NEW r \in Reqs, ReleaseReservation(r) PROVE Drained'
  <2>1. pump' = pump /\ (q'.owner = q.owner \/ Releases(q, q', r))
    BY <1>3, ReleaseReservationEffect DEF SameMarks
  <2>2. \A i \in Ids : q.owner[i] = NoReq => q'.owner[i] = NoReq
    BY <1>1, <2>1, FreeStaysFree
  <2>. QED BY <2>1, <2>2 DEF Drained
<1>4. CASE WorkerAdmitted
  <2>1. pump' = pump /\ worker.job \in Reqs /\ (q' = q \/ Releases(q, q', worker.job))
    BY <1>4, WorkerAdmittedEffect
  <2>2. \A i \in Ids : q.owner[i] = NoReq => q'.owner[i] = NoReq
    BY <1>1, <2>1, FreeStaysFree
  <2>. QED BY <2>1, <2>2 DEF Drained
<1>5. CASE WorkerCheck
  <2>1. pump' = pump /\ worker.job \in Reqs /\ (q' = q \/ Releases(q, q', worker.job))
    BY <1>5, WorkerCheckEffect
  <2>2. \A i \in Ids : q.owner[i] = NoReq => q'.owner[i] = NoReq
    BY <1>1, <2>1, FreeStaysFree
  <2>. QED BY <2>1, <2>2 DEF Drained
<1>6. CASE WorkerHandle
  <2>1. pump' = pump /\ worker.job \in Reqs /\ (q' = q \/ Releases(q, q', worker.job))
    BY <1>6, WorkerHandleEffect
  <2>2. \A i \in Ids : q.owner[i] = NoReq => q'.owner[i] = NoReq
    BY <1>1, <2>1, FreeStaysFree
  <2>. QED BY <2>1, <2>2 DEF Drained
<1>7. CASE WorkerDiscard
  <2>1. pump' = pump /\ worker.job \in Reqs /\ (q' = q \/ Releases(q, q', worker.job))
    BY <1>7, WorkerDiscardEffect
  <2>2. \A i \in Ids : q.owner[i] = NoReq => q'.owner[i] = NoReq
    BY <1>1, <2>1, FreeStaysFree
  <2>. QED BY <2>1, <2>2 DEF Drained
<1>. USE <1>1, Sentinels DEF Drained, Loop, PastStop, Attending, Hands, Still, KeepsEnd,
       PumpGoes, PumpAnswers, PumpRefuses, SameMarks, Releases, ChildMoves, PumpGivesUp,
       SameOwners, OnlyThePump, PumpSteps, Snapshot
<1>8. CASE ReceiveRequest
  BY <1>8, ReceiveRequestEffect DEF QueueStates
<1>9. CASE CheckActive
  BY <1>9, CheckActiveEffect DEF QueueStates
<1>10. CASE AdmitRequest
  BY <1>10, AdmitRequestEffect DEF QueueStates
<1>11. CASE ReserveModernSlot
  BY <1>11, ReserveModernSlotEffect DEF QueueStates
<1>12. CASE ReserveQueuedBytes
  BY <1>12, ReserveQueuedBytesEffect DEF QueueStates
<1>13. CASE RegisterChild
  BY <1>13, RegisterChildEffect DEF QueueStates
<1>14. CASE Spawn
  BY <1>14, SpawnEffect DEF QueueStates
<1>15. CASE SpawnRefused
  BY <1>15, SpawnRefusedEffect DEF QueueStates
<1>16. CASE RefusedDropped
  BY <1>16, RefusedDroppedEffect DEF QueueStates
<1>17. CASE Enqueue
  BY <1>17, EnqueueEffect DEF QueueStates
<1>18. CASE BindPrincipal
  BY <1>18, BindPrincipalEffect DEF QueueStates
<1>19. CASE PumpReply
  BY <1>19, PumpReplyEffect DEF Answers, QueueStates
<1>20. ASSUME NEW i \in Ids, ReceiveCancellation(i) PROVE Drained'
  BY <1>20, ReceiveCancellationEffect DEF QueueStates
<1>21. CASE CancelActiveRequest
  BY <1>21, CancelActiveRequestEffect DEF QueueStates
<1>22. CASE ReceiveLegacyResponse
  BY <1>22, ReceiveLegacyResponseEffect DEF QueueStates
<1>23. CASE WorkerFailureSeen
  BY <1>23, WorkerFailureSeenEffect DEF QueueStates
<1>24. CASE EndOfInput
  BY <1>24, EndOfInputEffect DEF QueueStates
<1>25. CASE ReceiveStops
  BY <1>25, ReceiveStopsEffect DEF QueueStates
<1>26. CASE CancelNotifications
  BY <1>26 DEF CancelNotifications, PumpAt, Uncorrelated, GoTo, requests, channels, children, peer,
         Correlated, wire, PumpType
<1>27. CASE DrainResponses
  BY <1>27, DrainResponsesEffect DEF QueueStates
<1>28. CASE PumpStop
  BY <1>28, PumpStopEffect DEF QueueStates
<1>29. CASE CancelActive
  BY <1>29 DEF CancelActive, PumpAt, GoTo, requests, channels, children, peer, wire, PumpType
<1>30. CASE AwaitChildren
  BY <1>30, AwaitChildrenEffect DEF QueueStates
<1>31. CASE AwaitWorker
  BY <1>31, AwaitWorkerEffect DEF QueueStates
<1>32. CASE Finish
  BY <1>32, FinishEffect DEF QueueStates
<1>33. ASSUME NEW r \in Reqs, ChildStart(r) PROVE Drained'
  BY <1>33, ChildStartEffect DEF QueueStates
<1>34. ASSUME NEW r \in Reqs, ChildStop(r) PROVE Drained'
  BY <1>34, ChildStopEffect DEF QueueStates
<1>35. CASE WorkerReleaseBytes
  BY <1>35, WorkerReleaseBytesEffect DEF WorkerMoves, QueueStates
<1>36. CASE WorkerBegin
  BY <1>36, WorkerBeginEffect DEF QueueStates
<1>37. CASE WorkerStop
  BY <1>37, WorkerStopEffect DEF WorkerMoves, QueueStates
<1>. QED BY <1>2, <1>3, <1>4, <1>5, <1>6, <1>7, <1>8, <1>9, <1>10, <1>11, <1>12, <1>13, <1>14,
         <1>15, <1>16, <1>17, <1>18, <1>19, <1>20, <1>21, <1>22, <1>23, <1>24, <1>25, <1>26,
         <1>27, <1>28, <1>29, <1>30, <1>31, <1>32, <1>33, <1>34, <1>35, <1>36, <1>37, Writers
         DEF PumpStep

LEMMA DropsStayAsked == ASSUME IInv, MarksAreAsked, DroppedIsAsked, [Next]_vars PROVE DroppedIsAsked'
<1>1. /\ Setting /\ Still
      /\ worker \in WorkerType
  BY SettingHolds, StillAlways, Types DEF IInv
<1>2. \A s \in Reqs : Asked(s) => Asked(s)'
  BY AskedStays
<1>3. /\ pump.pc \in Attending => pump.req \in Reqs
      /\ worker.pc \in Busy => worker.job \in Reqs
  BY AtHand
<1>4. ASSUME UNCHANGED <<worker>> PROVE DroppedIsAsked'
  BY <1>1, <1>2, <1>3, <1>4 DEF DroppedIsAsked, Correlated, Still, Busy
<1>5. CASE WorkerBegin
  <2>1. SUFFICES ASSUME Correlated(worker.job), IdOf[worker.job] \in q.cancelled \/ q.stopping
                 PROVE  Asked(worker.job)'
    BY <1>1, <1>5, WorkerBeginEffect DEF DroppedIsAsked, Correlated, Still
  <2>2. worker.job \in Reqs /\ IdOf[worker.job] \in Ids /\ q.owner[IdOf[worker.job]] = worker.job
    BY <1>5, <2>1, Owners, WorkerBeginEffect DEF Busy
  <2>3. Asked(worker.job)
    BY <2>1, <2>2 DEF MarksAreAsked, Asked
  <2>4. worker'.job = worker.job
    BY <1>5, WorkerBeginEffect
  <2>. QED BY <1>2, <2>2, <2>3, <2>4
<1>. USE <1>1, <1>2, <1>3, Sentinels DEF DroppedIsAsked, Correlated, WorkerAt, requests,
       channels, children, peer, wire, Still, WorkerMoves, WorkerEnds, Releases, WorkerGoes
<1>6. CASE WorkerLeaves
  BY <1>6 DEF WorkerLeaves, Leave, WorkerType
<1>7. CASE WorkerTake
  BY <1>7, WorkerTakeEffect
<1>8. CASE WorkerReleaseBytes
  BY <1>8, WorkerReleaseBytesEffect DEF SameMarks
<1>9. CASE WorkerAdmitted
  BY <1>9, WorkerAdmittedEffect
<1>10. CASE WorkerCheck
  BY <1>10, WorkerCheckEffect
<1>11. CASE WorkerHandle
  BY <1>11, WorkerHandleEffect
<1>12. CASE WorkerReturn
  BY <1>12 DEF WorkerReturn, WorkerType
<1>13. CASE WorkerResolve
  BY <1>13, WorkerResolveEffect
<1>14. CASE WorkerReply
  BY <1>14, WorkerReplyEffect DEF Answers
<1>15. CASE WorkerUnguard
  BY <1>15 DEF WorkerUnguard, RemoveOwn, Job, WorkerType
<1>16. CASE WorkerDiscard
  BY <1>16, WorkerDiscardEffect
<1>17. CASE WorkerEnd
  BY <1>17 DEF WorkerEnd, WorkerType
<1>18. CASE WorkerFail
  BY <1>18 DEF WorkerFail, WorkerType
<1>19. CASE WorkerStop
  BY <1>19, WorkerStopEffect DEF Snapshot, SameOwners
<1>20. CASE WorkerStopped
  BY <1>20 DEF WorkerStopped, WorkerType
<1>. QED BY <1>4, <1>5, <1>6, <1>7, <1>8, <1>9, <1>10, <1>11, <1>12, <1>13, <1>14, <1>15, <1>16,
         <1>17, <1>18, <1>19, <1>20, Writers
         DEF WorkerStep

LEMMA ServedStays ==
  ASSUME IInv, InHand, Drained, Once, Once', NEW t \in Reqs, Correlated(t), Served(t), [Next]_vars
  PROVE  Served(t)'
<1>1. /\ Setting /\ Still
      /\ failed \in BOOLEAN
      /\ pump \in PumpType
      /\ worker \in WorkerType
      /\ replies \in [Reqs -> Seq(Kinds)]
      /\ accepted \subseteq Reqs
      /\ lost \subseteq Reqs
  BY SettingHolds, StillAlways, Types DEF IInv
<1>2. \A s \in Reqs : Len(replies[s]) \in Nat
  BY <1>1
<1>3. ASSUME UNCHANGED <<failed, pump, worker, replies, accepted, lost>> PROVE Served(t)'
  BY <1>1, <1>3 DEF Served, Still
<1>4. CASE PumpReply
  <2>1. pump.pc = "reply" /\ pump.req \in Reqs /\ Len(replies[pump.req]) = 0
    BY <1>4, PumpReplyEffect DEF InHand, Attending
  <2>2. CASE pump'.exit = 1
    BY <2>2 DEF Served
  <2>3. CASE Answers(pump.req) /\ PumpGoes("recv")
    <3>1. CASE t = pump.req
      BY <2>1, <2>3, <3>1 DEF Served, Answers
    <3>2. CASE t # pump.req
      BY <1>1, <1>4, <2>3, <3>2, PumpReplyEffect DEF Served, Answers, Still, PumpGoes, KeepsEnd
    <3>. QED BY <3>1, <3>2
  <2>. QED BY <1>4, <2>2, <2>3, PumpReplyEffect DEF PumpGivesUp
<1>. USE <1>1, <1>2, Sentinels DEF Served, Once, InHand, Drained, MayAnswer, Attending, Loop,
       PastStop, Serving, Hands, Still, KeepsEnd, PumpGoes, PumpAnswers, PumpRefuses, SameMarks,
       Releases, ChildMoves, PumpGivesUp, SameOwners, OnlyThePump, PumpSteps, requests,
       channels, children, peer, wire, Answers, WorkerAt, WorkerMoves, WorkerEnds, WorkerGoes
<1>5. CASE ReceiveRequest
  BY <1>5, ReceiveRequestEffect
<1>6. CASE CheckActive
  BY <1>6, CheckActiveEffect
<1>7. CASE AdmitRequest
  BY <1>7, AdmitRequestEffect
<1>8. CASE ReserveModernSlot
  BY <1>8, ReserveModernSlotEffect
<1>9. CASE ReserveQueuedBytes
  BY <1>9, ReserveQueuedBytesEffect
<1>10. CASE RegisterChild
  BY <1>10, RegisterChildEffect
<1>11. CASE Spawn
  BY <1>11, SpawnEffect
<1>12. CASE SpawnRefused
  BY <1>12, SpawnRefusedEffect
<1>13. CASE RefusedDropped
  BY <1>13, RefusedDroppedEffect
<1>14. CASE Enqueue
  BY <1>14, EnqueueEffect
<1>15. CASE BindPrincipal
  BY <1>15, BindPrincipalEffect
<1>16. ASSUME NEW i \in Ids, ReceiveCancellation(i) PROVE Served(t)'
  BY <1>16, ReceiveCancellationEffect
<1>17. CASE CancelActiveRequest
  BY <1>17, CancelActiveRequestEffect
<1>18. CASE ReceiveLegacyResponse
  BY <1>18, ReceiveLegacyResponseEffect
<1>19. CASE WorkerFailureSeen
  BY <1>19, WorkerFailureSeenEffect
<1>20. CASE EndOfInput
  BY <1>20, EndOfInputEffect
<1>21. CASE ReceiveStops
  BY <1>21, ReceiveStopsEffect
<1>22. CASE CancelNotifications
  BY <1>22 DEF CancelNotifications, PumpAt, Uncorrelated, GoTo, Correlated, PumpType
<1>23. CASE DrainResponses
  BY <1>23, DrainResponsesEffect
<1>24. CASE PumpStop
  BY <1>24, PumpStopEffect DEF Snapshot
<1>25. CASE CancelActive
  BY <1>25 DEF CancelActive, PumpAt, GoTo, PumpType
<1>26. CASE AwaitChildren
  BY <1>26, AwaitChildrenEffect
<1>27. CASE AwaitWorker
  BY <1>27, AwaitWorkerEffect
<1>28. CASE Finish
  BY <1>28, FinishEffect
<1>29. ASSUME NEW r \in Reqs, ChildUnpolled(r) PROVE Served(t)'
  BY <1>29 DEF ChildUnpolled, ChildAt, ChildGoes
<1>30. ASSUME NEW r \in Reqs, ChildPlainReply(r) PROVE Served(t)'
  BY <1>30, ChildPlainReplyEffect
<1>31. ASSUME NEW r \in Reqs, ChildSendProgress(r) PROVE Served(t)'
  BY <1>31, ChildSendProgressEffect
<1>32. ASSUME NEW r \in Reqs, ChildReply(r) PROVE Served(t)'
  BY <1>32, ChildReplyEffect
<1>33. ASSUME NEW r \in Reqs, ChildFail(r) PROVE Served(t)'
  BY <1>33 DEF ChildFail, ChildAt, ChildGoes
<1>34. CASE WorkerLeaves
  BY <1>34 DEF WorkerLeaves, Leave, WorkerType
<1>35. CASE WorkerTake
  BY <1>35, WorkerTakeEffect
<1>36. CASE WorkerReleaseBytes
  BY <1>36, WorkerReleaseBytesEffect
<1>37. CASE WorkerAdmitted
  BY <1>37, WorkerAdmittedEffect
<1>38. CASE WorkerBegin
  BY <1>38, WorkerBeginEffect
<1>39. CASE WorkerCheck
  BY <1>39, WorkerCheckEffect
<1>40. CASE WorkerHandle
  BY <1>40, WorkerHandleEffect
<1>41. CASE WorkerReturn
  BY <1>41 DEF WorkerReturn, WorkerType
<1>42. CASE WorkerResolve
  BY <1>42, WorkerResolveEffect
<1>43. CASE WorkerReply
  <2>1. Len(replies'[t]) <= 1 /\ Len(replies[t]) \in Nat
    OBVIOUS
  <2>2. worker.job \in Reqs /\ (replies' = replies \/ Answers(worker.job))
    BY <1>43, WorkerReplyEffect
  <2>3. Len(replies[t]) = 1 => Len(replies'[t]) = 1
    BY ONLY t \in Reqs, <2>1, <2>2 DEF Answers
  <2>. QED BY <1>43, <2>3, WorkerReplyEffect
<1>44. CASE WorkerUnguard
  BY <1>44 DEF WorkerUnguard, RemoveOwn, Job, Correlated, WorkerType
<1>45. CASE WorkerDiscard
  BY <1>45, WorkerDiscardEffect
<1>46. CASE WorkerEnd
  BY <1>46 DEF WorkerEnd, WorkerType
<1>47. CASE WorkerFail
  BY <1>47 DEF WorkerFail, WorkerType
<1>48. CASE WorkerStop
  BY <1>48, WorkerStopEffect DEF Snapshot
<1>49. CASE WorkerStopped
  BY <1>49 DEF WorkerStopped, WorkerType
<1>. QED BY <1>3, <1>4, <1>5, <1>6, <1>7, <1>8, <1>9, <1>10, <1>11, <1>12, <1>13, <1>14, <1>15,
         <1>16, <1>17, <1>18, <1>19, <1>20, <1>21, <1>22, <1>23, <1>24, <1>25, <1>26, <1>27,
         <1>28, <1>29, <1>30, <1>31, <1>32, <1>33, <1>34, <1>35, <1>36, <1>37, <1>38, <1>39,
         <1>40, <1>41, <1>42, <1>43, <1>44, <1>45, <1>46, <1>47, <1>48, <1>49, Writers
         DEF PumpStep, WorkerStep

LEMMA RejectedStays == ASSUME IInv, InHand, Drained, Once, Once', Rejected, [Next]_vars PROVE Rejected'
<1>1. /\ Setting /\ Still
      /\ admission \in [Reqs -> {"pending", "admitted", "rejected"}]
  BY SettingHolds, StillAlways, Types DEF IInv
<1>2. \A s \in Reqs : Correlated(s) /\ Served(s) => Served(s)'
  BY ServedStays
<1>3. ASSUME UNCHANGED <<admission>> PROVE Rejected'
  BY <1>1, <1>2, <1>3 DEF Rejected, Correlated, Still
<1>4. CASE BindPrincipal
  <2>1. PICK x \in Reqs : x = pump.req /\ \A s \in Reqs : s # x => admission'[s] = admission[s]
    BY <1>1, <1>4, BindPrincipalEffect
  <2>2. admission'[x] = "rejected" => Served(x)'
    BY <1>1, <1>4, <2>1, BindPrincipalEffect DEF Served, PumpAnswers
  <2>. QED BY <1>1, <1>2, <2>1, <2>2 DEF Rejected, Correlated, Still
<1>5. CASE Spawn
  BY <1>1, <1>2, Sentinels, <1>5, SpawnEffect DEF Rejected, Correlated, Still, PumpGoes, ChildMoves, KeepsEnd
<1>6. CASE Enqueue
  BY <1>1, <1>2, Sentinels, <1>6, EnqueueEffect DEF Rejected, Correlated, Still, PumpRefuses, PumpGoes, PumpGivesUp, Releases, KeepsEnd,
         PumpAnswers
<1>. QED BY <1>3, <1>4, <1>5, <1>6, Writers

LEMMA SettlingStays ==
  ASSUME IInv, Unrivalled, Replying, WordsAreAsked, Admitted, InHand, Drained, Once, Once', Rejected,
         Settling, [Next]_vars
  PROVE  Settling'
<1>1. /\ Setting /\ Still
      /\ child \in [Reqs -> ChildPcs]
      /\ outcome \in [Reqs -> {"none", "ok", "cancelled", "failed"}]
  BY SettingHolds, StillAlways, Types DEF IInv
<1>2. \A s \in Reqs : Correlated(s) /\ Done(s) => Done(s)'
  BY ServedStays, StoppingStays DEF Done
<1>3. ASSUME UNCHANGED <<child, outcome>> PROVE Settling'
  BY <1>1, <1>2, <1>3 DEF Settling, Correlated, Still
<1>4. CASE SpawnRefused
  <2>1. PICK x \in Reqs : /\ x = pump.req /\ ChildMoves(x, "discard") /\ outcome' = outcome
                       /\ pump'.pc = "refused" /\ pump'.req = x
    BY <1>4, SpawnRefusedEffect DEF PumpGoes
  <2>2. Done(x)'
    BY <2>1 DEF Done, Served
  <2>. QED BY <1>1, <1>2, <2>1, <2>2 DEF Settling, ChildMoves, Still, Correlated
<1>5. ASSUME NEW r \in Reqs, ChildAdmitted(r) PROVE Settling'
  <2>1. Correlated(r) /\ child'[r] = "discard" => Done(r)
    BY <1>1, <1>5 DEF ChildAdmitted, ChildGoes, Rejected, Done
  <2>. QED BY <1>1, <1>2, <1>5, <2>1 DEF Settling, Still, Correlated, ChildAdmitted, ChildGoes, children
<1>6. ASSUME NEW r \in Reqs, ChildUnpolled(r) PROVE Settling'
  <2>1. Done(r)'
    BY <1>6 DEF ChildUnpolled, Done, Served
  <2>. QED BY <1>1, <1>2, <1>6, <2>1 DEF Settling, Still, Correlated, ChildUnpolled, ChildGoes, children
<1>7. ASSUME NEW r \in Reqs, ChildStart(r) PROVE Settling'
  <2>1. child'[r] = "unguard" => Done(r)'
    BY <1>7, ChildStartEffect DEF ChildMoves, Done
  <2>. QED BY <1>1, <1>2, <1>7, <2>1, ChildStartEffect DEF Settling, Still, Correlated, ChildMoves
<1>8. ASSUME NEW r \in Reqs, ChildPlainReply(r) PROVE Settling'
  <2>1. Len(replies[r]) = 0
    <3>1. child[r] \in {"start_cancelled", "replying"}
      BY <1>8, ChildPlainReplyEffect DEF Unrivalled
    <3>. QED BY <3>1 DEF Once, MayAnswer, Admitted, Serving
  <2>2. outcome'[r] = "ok" => Done(r)'
    <3>1. Answers(r) => Len(replies'[r]) = 0 + 1
      BY <2>1 DEF Answers
    <3>. QED BY <1>8, <3>1, ChildPlainReplyEffect DEF Done, Served
  <2>3. ChildMoves(r, "unguard") /\ \A s \in Reqs : s # r => outcome'[s] = outcome[s]
    BY <1>8, ChildPlainReplyEffect
  <2>. QED BY <1>1, <1>2, <2>2, <2>3 DEF Settling, ChildMoves, Still, Correlated
<1>9. ASSUME NEW r \in Reqs, ChildReply(r) PROVE Settling'
  <2>1. Len(replies[r]) = 0
    <3>1. child[r] \in {"start_cancelled", "replying"}
      BY <1>9, ChildReplyEffect DEF Unrivalled
    <3>. QED BY <3>1 DEF Once, MayAnswer, Admitted, Serving
  <2>2. outcome'[r] = "ok" => Done(r)'
    <3>1. Answers(r) => Len(replies'[r]) = 0 + 1
      BY <2>1 DEF Answers
    <3>. QED BY <1>9, <3>1, ChildReplyEffect DEF Done, Served
  <2>3. ChildMoves(r, "unguard") /\ \A s \in Reqs : s # r => outcome'[s] = outcome[s]
    BY <1>9, ChildReplyEffect
  <2>. QED BY <1>1, <1>2, <2>2, <2>3 DEF Settling, ChildMoves, Still, Correlated
<1>10. ASSUME NEW r \in Reqs, ChildSettle(r) PROVE Settling'
  <2>1. Correlated(r) /\ child'[r] = "discard" => Done(r)
    BY <1>1, <1>10 DEF ChildSettle, ChildAt, ChildGoes, Settling, Done
  <2>. QED BY <1>1, <1>2, <1>10, <2>1 DEF Settling, Still, Correlated, ChildSettle, ChildAt, ChildGoes, children
<1>11. ASSUME NEW r \in Reqs, ChildStop(r) PROVE Settling'
  <2>1. Done(r)'
    BY <1>11, ChildStopEffect DEF Snapshot, Done
  <2>. QED BY <1>1, <1>2, <1>11, <2>1, ChildStopEffect DEF Settling, Still, Correlated, ChildMoves
<1>. USE <1>1, <1>2, Sentinels DEF Settling, Correlated, Still, ChildMoves, ChildAt, ChildGoes,
       channels, peer, wire, requests, children
<1>12. CASE Spawn
  BY <1>12, SpawnEffect DEF PumpGoes, KeepsEnd
<1>13. ASSUME NEW r \in Reqs, ChildGuard(r) PROVE Settling'
  BY <1>13 DEF ChildGuard
<1>14. ASSUME NEW r \in Reqs, ChildProgress(r) PROVE Settling'
  BY <1>14 DEF ChildProgress
<1>15. ASSUME NEW r \in Reqs, ChildSendProgress(r) PROVE Settling'
  BY <1>15, ChildSendProgressEffect
<1>16. ASSUME NEW r \in Reqs, ChildReturn(r) PROVE Settling'
  BY <1>16 DEF ChildReturn
<1>17. ASSUME NEW r \in Reqs, ChildPanic(r) PROVE Settling'
  BY <1>17 DEF ChildPanic
<1>18. ASSUME NEW r \in Reqs, ChildFinalize(r) PROVE Settling'
  BY <1>18, ChildFinalizeEffect
<1>19. ASSUME NEW r \in Reqs, ChildUnguard(r) PROVE Settling'
  BY <1>19 DEF ChildUnguard, RemoveOwn
<1>20. ASSUME NEW r \in Reqs, ChildFail(r) PROVE Settling'
  BY <1>20 DEF ChildFail
<1>21. ASSUME NEW r \in Reqs, ReleaseReservation(r) PROVE Settling'
  BY <1>21, ReleaseReservationEffect DEF SameMarks, Releases
<1>. QED BY <1>3, <1>4, <1>5, <1>6, <1>7, <1>8, <1>9, <1>10, <1>11, <1>12, <1>13, <1>14, <1>15,
         <1>16, <1>17, <1>18, <1>19, <1>20, <1>21, Writers
         DEF ChildStep

LEMMA WorkerSettlingStays ==
  ASSUME IInv, Unrivalled, Replying, WordsAreAsked, Admitted, InHand, Drained, Once, Once', Rejected,
         WorkerSettling, [Next]_vars
  PROVE  WorkerSettling'
<1>1. /\ Setting /\ Still
      /\ worker \in WorkerType
  BY SettingHolds, StillAlways, Types DEF IInv
<1>2. \A s \in Reqs : Correlated(s) /\ Done(s) => Done(s)'
  BY ServedStays, StoppingStays DEF Done
<1>3. /\ pump.pc \in Attending => pump.req \in Reqs
      /\ worker.pc \in Busy => worker.job \in Reqs
  BY AtHand
<1>4. ASSUME UNCHANGED <<worker>> PROVE WorkerSettling'
  BY <1>1, <1>2, <1>3, <1>4 DEF WorkerSettling, Correlated, Still, Busy
<1>5. CASE WorkerResolve
  <2>1. PICK x \in Reqs : x = worker.job /\ worker'.job = x /\ worker.pc = "respond"
    BY <1>5, WorkerResolveEffect DEF WorkerMoves
  <2>2. Correlated(x)
    BY <2>1 DEF Replying
  <2>3. worker'.pc = "unguard" => Done(x)
    <3>1. worker'.pc = "unguard" => Asked(x)
      BY <1>5, <2>1, <2>2, WorkerResolveEffect DEF WorkerMoves, WordsAreAsked
    <3>. QED BY <2>1, <3>1, Apart DEF Asked, Done, Served, Busy
  <2>. QED BY <1>1, <1>2, <1>5, <2>1, <2>2, <2>3, WorkerResolveEffect DEF WorkerSettling, WorkerMoves, Still, Correlated
<1>6. CASE WorkerReply
  <2>1. PICK x \in Reqs : x = worker.job /\ worker'.job = x /\ worker.pc = "replying"
    BY <1>6, WorkerReplyEffect
  <2>2. Correlated(x) /\ Len(replies[x]) = 0
    BY <2>1 DEF Replying, Once, MayAnswer, Admitted
  <2>3. Done(x)' \/ worker'.sent = "failed"
    <3>1. Answers(x) => Len(replies'[x]) = 0 + 1
      BY <2>2 DEF Answers
    <3>. QED BY <1>6, <2>1, <3>1, WorkerReplyEffect DEF Done, Served
  <2>. QED BY <1>1, <2>1, <2>2, <2>3 DEF WorkerSettling, Still, Correlated
<1>7. CASE WorkerUnguard
  <2>1. worker.pc = "unguard" /\ worker'.pc = "discard" /\ UNCHANGED <<worker.job, worker.sent>>
    BY <1>1, <1>7 DEF WorkerUnguard, WorkerAt, WorkerGoes, WorkerType
  <2>. QED BY <1>1, <1>2, <1>3, <2>1 DEF WorkerSettling, Busy, Still, Correlated
<1>. USE <1>1, <1>2, <1>3, Sentinels DEF WorkerSettling, Correlated, WorkerAt, requests,
       channels, children, peer, wire, Still, WorkerMoves, WorkerEnds, Releases, WorkerGoes
<1>8. CASE WorkerLeaves
  BY <1>8 DEF WorkerLeaves, Leave, WorkerType
<1>9. CASE WorkerTake
  BY <1>9, WorkerTakeEffect
<1>10. CASE WorkerReleaseBytes
  BY <1>10, WorkerReleaseBytesEffect DEF SameMarks
<1>11. CASE WorkerAdmitted
  BY <1>11, WorkerAdmittedEffect
<1>12. CASE WorkerBegin
  BY <1>12, WorkerBeginEffect DEF SameOwners
<1>13. CASE WorkerCheck
  BY <1>13, WorkerCheckEffect
<1>14. CASE WorkerHandle
  BY <1>14, WorkerHandleEffect
<1>15. CASE WorkerReturn
  BY <1>15 DEF WorkerReturn, WorkerType
<1>16. CASE WorkerDiscard
  BY <1>16, WorkerDiscardEffect
<1>17. CASE WorkerEnd
  BY <1>17 DEF WorkerEnd, WorkerType
<1>18. CASE WorkerFail
  BY <1>18 DEF WorkerFail, WorkerType
<1>19. CASE WorkerStop
  BY <1>19, WorkerStopEffect DEF Snapshot, SameOwners
<1>20. CASE WorkerStopped
  BY <1>20 DEF WorkerStopped, WorkerType
<1>. QED BY <1>4, <1>5, <1>6, <1>7, <1>8, <1>9, <1>10, <1>11, <1>12, <1>13, <1>14, <1>15, <1>16,
         <1>17, <1>18, <1>19, <1>20, Writers
         DEF WorkerStep

\* Who lets go of its request because the queue stopped lets go of one that is
\* served: a pump that stopped the queue after a clean drain found nobody.
LEMMA StoppedIsServed ==
  ASSUME IInv, StopHasACause, Drained, q.stopping, pump.pc \in Loop \/ pump.eof,
         NEW r \in Reqs, Correlated(r),
         child[r] \in ChildIds \/ (worker.pc \in Busy /\ worker.job = r)
  PROVE  Served(r)
<1>1. IdOf[r] \in Ids /\ q.owner[IdOf[r]] = r /\ r # NoReq
  BY Owners, Sentinels
<1>2. pump.exit \in {0, 1}
  BY Types DEF IInv, PumpType
<1>3. CASE pump.pc \in PastStop
  <2>1. pump.eof
    BY <1>3 DEF PastStop, Loop, Attending, Hands
  <2>. QED BY <1>1, <1>2, <1>3, <2>1 DEF Drained, Served
<1>4. CASE failed
  BY <1>4 DEF Served
<1>5. ~(~Modern /\ worker.pc \in {"stopped", "gone"})
  BY Apart DEF ChildIds, Busy
<1>. QED BY <1>3, <1>4, <1>5 DEF StopHasACause

\* A step that takes an id from nobody, or from somebody who is served.
LEMMA NobodyLetsGo ==
  ASSUME Still, Outstanding, \A s \in Reqs : Correlated(s) /\ Served(s) => Served(s)',
         q'.owner = q.owner, next' = next,
         pump'.pc \in Loop \/ pump'.eof => pump.pc \in Loop \/ pump.eof,
         pump.pc \in {"check", "admit"} => pump'.pc = pump.pc /\ pump'.req = pump.req
  PROVE  Outstanding'
<1>1. Taken' = Taken
  BY DEF Taken, Still
<1>. QED BY <1>1 DEF Outstanding, Still, Correlated

LEMMA OneLetsGo ==
  ASSUME IInv, Still, Outstanding, \A s \in Reqs : Correlated(s) /\ Served(s) => Served(s)',
         NEW r \in Reqs, HoldsId(r), Releases(q, q', r), next' = next,
         Correlated(r) /\ (pump.pc \in Loop \/ pump.eof) => Served(r)',
         pump'.pc \in Loop \/ pump'.eof => pump.pc \in Loop \/ pump.eof,
         pump.pc \in {"check", "admit"} => pump'.pc = pump.pc /\ pump'.req = pump.req
  PROVE  Outstanding'
<1>1. Taken' = Taken /\ Setting
  BY SettingHolds DEF Taken, Still, IInv
<1>2. SUFFICES ASSUME pump.pc \in Loop \/ pump.eof, NEW s \in Reqs, s \in Taken, Correlated(s)
               PROVE  \/ Served(s)' \/ q'.owner[IdOf[s]] = s
                      \/ pump'.pc \in {"check", "admit"} /\ pump'.req = s
  BY <1>1 DEF Outstanding, Still, Correlated
<1>3. CASE q.owner[IdOf[s]] = s /\ s # r
  <2>1. IdOf[s] \in Ids
    BY <1>1, <1>2 DEF Setting, Correlated
  <2>2. IdOf[s] # IdOf[r]
    BY <1>2, <1>3 DEF IInv, Custody, Owned, Correlated
  <2>. QED BY <1>1, <1>3, <2>1, <2>2, OwnersLeft
<1>. QED BY <1>2, <1>3 DEF Outstanding

LEMMA OutstandingStays ==
  ASSUME IInv, StopHasACause, Drained, DroppedIsAsked, InHand, Once, Once', Rejected, Settling,
         WorkerSettling, Outstanding, [Next]_vars
  PROVE  Outstanding'
<1>1. /\ Setting /\ Still
      /\ q \in QueueStates
      /\ pump \in PumpType
  BY SettingHolds, StillAlways, Types DEF IInv
<1>2. \A s \in Reqs : Correlated(s) /\ Served(s) => Served(s)'
  BY ServedStays
<1>3. next' = next => Taken' = Taken
  BY <1>1 DEF Still, Taken
<1>4. ASSUME UNCHANGED <<q, pump, next>> PROVE Outstanding'
  BY <1>1, <1>2, <1>4, NobodyLetsGo
<1>5. CASE ReceiveRequest
  <2>1. /\ pump.pc = "recv" /\ \A s \in Reqs : s \in Taken' <=> s \in Taken \/ s = pump'.req
        /\ UNCHANGED q /\ pump'.req \in Reqs /\ (Correlated(pump'.req) => pump'.pc = "check")
    BY <1>5, ReceiveRequestEffect
  <2>. QED BY <1>1, <1>2, <2>1 DEF Outstanding, Loop, Still, Correlated
<1>6. CASE CheckActive
  <2>1. PICK x \in Reqs : /\ x = pump.req /\ pump'.req = x /\ pump.pc = "check"
                       /\ pump'.pc \in {"admit", "reply"} /\ UNCHANGED <<q, next>>
    BY <1>6, CheckActiveEffect DEF PumpGoes, PumpAnswers
  <2>2. pump'.pc = "reply" => Served(x)'
    BY <2>1 DEF Served
  <2>. QED BY <1>1, <1>2, <1>3, <2>1, <2>2 DEF Outstanding, Loop, Attending, Hands, Still, Correlated
<1>7. CASE AdmitRequest
  <2>1. PICK x \in Reqs : /\ x = pump.req /\ pump'.req = x /\ pump.pc = "admit" /\ next' = next
    BY <1>7, AdmitRequestEffect DEF PumpGoes, PumpAnswers
  <2>2. CASE pump'.pc = "reply" /\ q' = q
    <3>1. Served(x)'
      BY <2>1, <2>2 DEF Served
    <3>. QED BY <1>1, <1>2, <1>3, <2>1, <2>2, <3>1
             DEF Outstanding, Loop, Attending, Hands, Still, Correlated
  <2>3. CASE /\ q.owner[IdOf[x]] = NoReq /\ q'.owner[IdOf[x]] = x
             /\ \A i \in Ids : i # IdOf[x] => q'.owner[i] = q.owner[i]
    <3>1. \A s \in Reqs : Correlated(s) /\ q.owner[IdOf[s]] = s => q'.owner[IdOf[s]] = s
      BY <1>1, <2>3, Sentinels DEF Setting, Correlated
    <3>. QED BY <1>1, <1>2, <1>3, <2>1, <2>3, <3>1
             DEF Outstanding, Loop, Attending, Hands, Still, Correlated
  <2>. QED BY <1>7, <2>1, <2>2, <2>3, AdmitRequestEffect DEF PumpAnswers
<1>8. CASE ReserveModernSlot
  <2>1. PICK x \in Reqs : x = pump.req /\ pump'.req = x /\ pump.pc = "slot" /\ next' = next
    BY <1>8, ReserveModernSlotEffect DEF PumpGoes, PumpAnswers, PumpRefuses, PumpGivesUp, SameMarks
  <2>2. CASE q'.owner = q.owner
    BY <1>1, <1>2, <2>1, <2>2, NobodyLetsGo DEF Loop, Attending, Hands
  <2>3. CASE Releases(q, q', x) /\ (Correlated(x) => pump'.pc = "reply" \/ pump'.exit = 1)
    <3>1. HoldsId(x) /\ (Correlated(x) => Served(x)')
      BY <2>1, <2>3 DEF HoldsId, PumpIds, PumpBytes, Served
    <3>. QED BY <1>1, <1>2, <2>1, <2>3, <3>1, OneLetsGo DEF Loop, Attending, Hands
  <2>. QED BY <1>8, <2>1, <2>2, <2>3, ReserveModernSlotEffect
           DEF PumpRefuses, PumpAnswers, SameMarks, PumpGivesUp
<1>9. CASE ReserveQueuedBytes
  <2>1. PICK x \in Reqs : x = pump.req /\ pump'.req = x /\ pump.pc = "bytes" /\ next' = next
    BY <1>9, ReserveQueuedBytesEffect DEF PumpGoes, PumpAnswers, PumpRefuses, PumpGivesUp, SameMarks
  <2>2. CASE q'.owner = q.owner
    BY <1>1, <1>2, <2>1, <2>2, NobodyLetsGo DEF Loop, Attending, Hands
  <2>3. CASE Releases(q, q', x) /\ (Correlated(x) => pump'.pc = "reply" \/ pump'.exit = 1)
    <3>1. HoldsId(x) /\ (Correlated(x) => Served(x)')
      BY <2>1, <2>3 DEF HoldsId, PumpIds, PumpBytes, Served
    <3>. QED BY <1>1, <1>2, <2>1, <2>3, <3>1, OneLetsGo DEF Loop, Attending, Hands
  <2>. QED BY <1>9, <2>1, <2>2, <2>3, ReserveQueuedBytesEffect
           DEF PumpRefuses, PumpAnswers, SameMarks, PumpGivesUp
<1>10. CASE Enqueue
  <2>1. PICK x \in Reqs : x = pump.req /\ pump'.req = x /\ pump.pc = "enqueue" /\ next' = next
    BY <1>10, EnqueueEffect DEF PumpGoes, PumpAnswers, PumpRefuses, PumpGivesUp, SameMarks
  <2>2. CASE q'.owner = q.owner
    BY <1>1, <1>2, <2>1, <2>2, NobodyLetsGo DEF Loop, Attending, Hands
  <2>3. CASE Releases(q, q', x) /\ (Correlated(x) => pump'.pc = "reply" \/ pump'.exit = 1)
    <3>1. HoldsId(x) /\ (Correlated(x) => Served(x)')
      BY <2>1, <2>3 DEF HoldsId, PumpIds, PumpBytes, Served
    <3>. QED BY <1>1, <1>2, <2>1, <2>3, <3>1, OneLetsGo DEF Loop, Attending, Hands
  <2>. QED BY <1>10, <2>1, <2>2, <2>3, EnqueueEffect
           DEF PumpRefuses, PumpAnswers, SameMarks, PumpGivesUp
<1>11. ASSUME NEW r \in Reqs, ReleaseReservation(r) PROVE Outstanding'
  <2>1. UNCHANGED <<pump, next>>
    BY <1>11, ReleaseReservationEffect
  <2>2. CASE q'.owner = q.owner
    BY <1>1, <1>2, <2>1, <2>2, NobodyLetsGo
  <2>3. CASE child[r] = "discard" /\ Releases(q, q', r)
    <3>1. HoldsId(r) /\ child[r] \in ChildIds
      BY <2>3 DEF HoldsId, ChildIds
    <3>2. Correlated(r) /\ (pump.pc \in Loop \/ pump.eof) => Served(r)
      BY <2>3, <3>1, StoppedIsServed DEF Settling, Done
    <3>. QED BY <1>1, <1>2, <2>1, <2>3, <3>1, <3>2, OneLetsGo
  <2>. QED BY <1>11, <2>2, <2>3, ReleaseReservationEffect DEF SameMarks
<1>12. CASE WorkerAdmitted
  <2>1. PICK x \in Reqs : /\ x = worker.job /\ worker.pc = "waiting" /\ HoldsId(x)
                       /\ UNCHANGED <<pump, next, accepted, failed, lost, replies>>
    BY <1>12, WorkerAdmittedEffect DEF HoldsId, Busy, Job
  <2>2. CASE q' = q
    BY <1>1, <1>2, <2>1, <2>2, NobodyLetsGo
  <2>3. CASE Releases(q, q', x) /\ (admission[x] = "rejected" \/ (worker'.pc = "end" /\ ~worker'.clean))
    <3>1. Correlated(x) /\ (pump.pc \in Loop \/ pump.eof) => Served(x)'
      <4>1. CASE admission[x] = "rejected"
        BY <1>2, <4>1 DEF Rejected
      <4>2. CASE worker'.pc = "end" /\ ~worker'.clean
        BY <4>2 DEF Served
      <4>. QED BY <2>3, <4>1, <4>2
    <3>. QED BY <1>1, <1>2, <2>1, <2>3, <3>1, OneLetsGo
  <2>. QED BY <1>12, <2>1, <2>2, <2>3, WorkerAdmittedEffect DEF WorkerEnds
<1>13. CASE WorkerCheck
  <2>1. PICK x \in Reqs : /\ x = worker.job /\ worker.pc = "check" /\ HoldsId(x)
                       /\ UNCHANGED <<pump, next, accepted, failed, lost, replies>>
    BY <1>13, WorkerCheckEffect DEF HoldsId, Busy, Job
  <2>2. CASE q' = q
    BY <1>1, <1>2, <2>1, <2>2, NobodyLetsGo
  <2>3. CASE Releases(q, q', x) /\ (q.stopping \/ (~q.stopping /\ worker.dropped))
    <3>1. Correlated(x) /\ (pump.pc \in Loop \/ pump.eof) => Served(x)'
      <4>1. CASE q.stopping
        BY <1>2, <2>1, <4>1, StoppedIsServed DEF Busy
      <4>2. CASE ~q.stopping /\ worker.dropped
        BY <1>2, <2>1, <4>2, Apart DEF DroppedIsAsked, Asked, Served, Busy
      <4>. QED BY <2>3, <4>1, <4>2
    <3>. QED BY <1>1, <1>2, <2>1, <2>3, <3>1, OneLetsGo
  <2>. QED BY <1>13, <2>1, <2>2, <2>3, WorkerCheckEffect
<1>14. CASE WorkerHandle
  <2>1. PICK x \in Reqs : /\ x = worker.job /\ worker.pc = "handle" /\ HoldsId(x)
                       /\ UNCHANGED <<pump, next, accepted, failed, lost, replies>>
    BY <1>14, WorkerHandleEffect DEF HoldsId, Busy, Job
  <2>2. CASE q' = q
    BY <1>1, <1>2, <2>1, <2>2, NobodyLetsGo
  <2>3. CASE Releases(q, q', x) /\ (worker'.pc = "end" /\ ~worker'.clean)
    <3>1. Correlated(x) /\ (pump.pc \in Loop \/ pump.eof) => Served(x)'
      <4>1. CASE worker'.pc = "end" /\ ~worker'.clean
        BY <4>1 DEF Served
      <4>. QED BY <2>3, <4>1
    <3>. QED BY <1>1, <1>2, <2>1, <2>3, <3>1, OneLetsGo
  <2>. QED BY <1>14, <2>1, <2>2, <2>3, WorkerHandleEffect DEF WorkerEnds
<1>15. CASE WorkerDiscard
  <2>1. PICK x \in Reqs : /\ x = worker.job /\ worker.pc = "discard" /\ HoldsId(x)
                       /\ UNCHANGED <<pump, next, accepted, failed, lost, replies>>
    BY <1>15, WorkerDiscardEffect DEF HoldsId, Busy, Job
  <2>3. CASE Releases(q, q', x)
    <3>1. Correlated(x) /\ (pump.pc \in Loop \/ pump.eof) => Served(x)'
      <4>1. CASE Done(x)
        BY <1>2, <2>1, <4>1, StoppedIsServed DEF Done, Busy
      <4>2. CASE worker.sent = "failed"
        BY <1>15, <4>2, WorkerDiscardEffect DEF WorkerEnds, Served
      <4>. QED BY <2>1, <4>1, <4>2 DEF WorkerSettling
    <3>. QED BY <1>1, <1>2, <2>1, <2>3, <3>1, OneLetsGo
  <2>. QED BY <1>15, <2>1, <2>3, WorkerDiscardEffect
<1>. USE <1>1, <1>2, <1>3, Sentinels DEF Outstanding, Loop, Correlated, Attending, Hands, Still,
       PumpGoes, KeepsEnd, ChildMoves, PumpGivesUp, SameOwners, OnlyThePump, PumpSteps, Snapshot
<1>16. CASE RegisterChild
  BY <1>16, RegisterChildEffect DEF QueueStates
<1>17. CASE Spawn
  BY <1>17, SpawnEffect DEF QueueStates
<1>18. CASE SpawnRefused
  BY <1>18, SpawnRefusedEffect DEF QueueStates
<1>19. CASE RefusedDropped
  BY <1>19, RefusedDroppedEffect DEF PumpRefuses, PumpAnswers, QueueStates
<1>20. CASE BindPrincipal
  BY <1>20, BindPrincipalEffect DEF PumpAnswers, QueueStates
<1>21. CASE PumpReply
  BY <1>21, PumpReplyEffect DEF Answers, QueueStates
<1>22. ASSUME NEW i \in Ids, ReceiveCancellation(i) PROVE Outstanding'
  BY <1>22, ReceiveCancellationEffect DEF QueueStates
<1>23. CASE CancelActiveRequest
  BY <1>23, CancelActiveRequestEffect DEF QueueStates
<1>24. CASE ReceiveLegacyResponse
  BY <1>24, ReceiveLegacyResponseEffect DEF QueueStates
<1>25. CASE WorkerFailureSeen
  BY <1>25, WorkerFailureSeenEffect DEF QueueStates
<1>26. CASE EndOfInput
  BY <1>26, EndOfInputEffect DEF QueueStates
<1>27. CASE ReceiveStops
  BY <1>27, ReceiveStopsEffect DEF QueueStates
<1>28. CASE CancelNotifications
  BY <1>28 DEF CancelNotifications, PumpAt, Uncorrelated, GoTo, requests, channels, children, peer, wire,
         PumpType
<1>29. CASE DrainResponses
  BY <1>29, DrainResponsesEffect DEF QueueStates
<1>30. CASE PumpStop
  BY <1>30, PumpStopEffect DEF QueueStates
<1>31. CASE CancelActive
  BY <1>31 DEF CancelActive, PumpAt, GoTo, requests, channels, children, peer, wire, PumpType
<1>32. CASE AwaitChildren
  BY <1>32, AwaitChildrenEffect DEF QueueStates
<1>33. CASE AwaitWorker
  BY <1>33, AwaitWorkerEffect DEF QueueStates
<1>34. CASE Finish
  BY <1>34, FinishEffect DEF QueueStates
<1>35. ASSUME NEW r \in Reqs, ChildStart(r) PROVE Outstanding'
  BY <1>35, ChildStartEffect DEF QueueStates
<1>36. ASSUME NEW r \in Reqs, ChildStop(r) PROVE Outstanding'
  BY <1>36, ChildStopEffect DEF QueueStates
<1>37. CASE WorkerReleaseBytes
  BY <1>37, WorkerReleaseBytesEffect DEF WorkerMoves, SameMarks, QueueStates
<1>38. CASE WorkerBegin
  BY <1>38, WorkerBeginEffect DEF QueueStates
<1>39. CASE WorkerStop
  BY <1>39, WorkerStopEffect DEF WorkerMoves, QueueStates
<1>. QED BY <1>4, <1>5, <1>6, <1>7, <1>8, <1>9, <1>10, <1>11, <1>12, <1>13, <1>14, <1>15, <1>16,
         <1>17, <1>18, <1>19, <1>20, <1>21, <1>22, <1>23, <1>24, <1>25, <1>26, <1>27, <1>28,
         <1>29, <1>30, <1>31, <1>32, <1>33, <1>34, <1>35, <1>36, <1>37, <1>38, <1>39, Writers
         DEF PumpStep

Answering ==
  /\ Admitted /\ InHand /\ Once /\ StopHasACause /\ Drained /\ DroppedIsAsked
  /\ Rejected /\ Settling /\ WorkerSettling /\ Outstanding

LEMMA AnsweringIsEntered == ASSUME Init PROVE Answering
<1>1. /\ \A r \in Reqs : /\ child[r] = "idle" /\ admission[r] = "pending" /\ outcome[r] = "none"
                         /\ replies[r] = <<>>
      /\ pump.pc = "recv" /\ pump.exit = 0 /\ ~pump.eof /\ worker.pc = "idle" /\ ~q.stopping
      /\ next = 1
  BY DEF Init, EmptyQueue
<1>2. Taken = {}
  BY <1>1 DEF Taken
<1>3. \A r \in Reqs : Len(replies[r]) = 0
  BY <1>1
<1>4. Admitted /\ InHand /\ Once
  BY <1>1, <1>3 DEF Admitted, InHand, Once, Attending, Hands, Serving
<1>5. StopHasACause /\ Drained /\ DroppedIsAsked /\ Rejected /\ Settling /\ WorkerSettling
  BY <1>1 DEF StopHasACause, Drained, DroppedIsAsked, Rejected, Settling, WorkerSettling, PastStop
<1>6. Outstanding
  BY <1>2 DEF Outstanding
<1>. QED BY <1>4, <1>5, <1>6 DEF Answering

LEMMA AnsweringStays ==
  ASSUME IInv, Cancelling, Settled, Answering, [Next]_vars PROVE Answering'
<1>1. /\ Unrivalled /\ Replying /\ WordsAreAsked /\ MarksAreAsked
      /\ Admitted /\ InHand /\ Once /\ StopHasACause /\ Drained /\ DroppedIsAsked
      /\ Rejected /\ Settling /\ WorkerSettling /\ Outstanding
  BY DEF Cancelling, Settled, Answering
<1>2. Admitted' /\ InHand' /\ Once'
  BY <1>1, AdmittedStays, InHandStays, OnceStays
<1>3. StopHasACause' /\ Drained' /\ DroppedIsAsked'
  BY <1>1, StopKeepsItsCause, DrainedStays, DropsStayAsked
<1>4. Rejected' /\ Settling' /\ WorkerSettling' /\ Outstanding'
  BY <1>1, <1>2, RejectedStays, SettlingStays, WorkerSettlingStays, OutstandingStays
<1>. QED BY <1>2, <1>3, <1>4 DEF Answering

\* What a connection that ended well owes to nobody.
LEMMA EverybodyIsAnswered ==
  ASSUME IInv, Shutdown, Answering PROVE AnswersAreExact
<1>1. AnsweredOnce
  BY DEF Answering, Once, AnsweredOnce
<1>2. SUFFICES ASSUME pump.pc = "done", pump.hook, pump.eof, pump.exit = 0,
                      NEW n \in 1..(next - 1), Correlated(Frames[n])
               PROVE  \/ Len(replies[Frames[n]]) = 1 \/ Frames[n] \in lost
                      \/ ~Modern /\ Frames[n] \in accepted
  BY <1>1 DEF AnswersAreExact, CleanExitAnswersAll, PumpAt
<1>3. Frames[n] \in Reqs /\ Frames[n] \in Taken
  <2>1. Frames \in Seq(Reqs) /\ next \in 1..(Len(Frames) + 1)
    BY SettingHolds, Types DEF IInv, Setting
  <2>2. n \in 1..Len(Frames)
    BY <2>1
  <2>. QED BY <2>1, <2>2 DEF Taken
<1>4. IdOf[Frames[n]] \in Ids /\ Frames[n] # NoReq
  BY <1>2, <1>3, SettingHolds, Sentinels DEF IInv, Setting, Correlated
<1>5. q.owner[IdOf[Frames[n]]] # Frames[n]
  BY <1>2, <1>4 DEF Answering, Drained, PastStop
<1>6. Served(Frames[n])
  BY <1>2, <1>3, <1>5 DEF Answering, Outstanding
<1>7. ~failed /\ worker.pc = "gone"
  BY <1>2 DEF Shutdown, Ending
<1>. QED BY <1>2, <1>6, <1>7 DEF Served

\* No request is answered twice, and after a clean end of input the pump
\* leaves with exit code 0 and its hook run only if it has answered every
\* correlated request it took, but for those the peer gave up and those whose
\* send or child the runtime dropped (wait_for_correlated_response_drain, the
\* final reading of worker_failed).
THEOREM AnswersHold == Spec => []AnswersAreExact
<1>1. Init => Shutdown /\ Cancelling /\ Settled /\ Answering
  BY ShutdownIsEntered, CancellingIsEntered, SettledIsEntered, AnsweringIsEntered
<1>2. IInv /\ Shutdown /\ [Next]_vars => Shutdown'
  BY WriterStays, CopiesStay, EnrolledStays, EndingStays DEF Shutdown
<1>3. IInv /\ Shutdown /\ Cancelling /\ [Next]_vars => Cancelling'
  BY CancellingStays
<1>4. IInv /\ Shutdown /\ Settled /\ [Next]_vars => Settled'
  BY SettledStays
<1>5. IInv /\ Cancelling /\ Settled /\ Answering /\ [Next]_vars => Answering'
  BY AnsweringStays
<1>6. IInv /\ Shutdown /\ Answering => AnswersAreExact
  BY EverybodyIsAnswered
<1>. QED BY <1>1, <1>2, <1>3, <1>4, <1>5, <1>6, CustodyHolds, PTL DEF Spec

=============================================================================
