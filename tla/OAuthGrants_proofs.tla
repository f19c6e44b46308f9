-------------------------- MODULE OAuthGrants_proofs --------------------------
(***************************************************************************)
(* Proofs about OAuthGrants, for any clients, scopes and authorization     *)
(* flows, any limits and lifetimes and families of any length.             *)
(***************************************************************************)
EXTENDS OAuthGrants, FiniteSetTheorems, SequenceTheorems, WellFoundedInduction, TLAPS

(***************************************************************************)
(* The inductive invariant.  A grant lives once, as a code, then as one    *)
(* refresh token, then as markers; all that is retained of it names one    *)
(* client, its access tokens are numbered up to its refresh token, and     *)
(* every number below that has a replay guard.                             *)
(***************************************************************************)
CodeType == [grant : Nat, nr : Nat, client : Clients, epoch : Nat \ {0},
             scopes : SUBSET Scopes, expires : Nat]
TokenType == [grant : Nat, nr : Nat, client : Clients, epoch : Nat \ {0},
              scopes : SUBSET Scopes, expires : Nat, family : Nat]
TombType == [kind : {"access", "refresh"}, grant : Nat, nr : Nat, client : Clients,
             guard : BOOLEAN, expires : Nat]

Tables == {"clients", "codes", "access", "refresh", "tombs"}

Typed(s) ==
  /\ DOMAIN s = Tables /\ s.clients \in [Clients -> Nat]
  /\ s.codes \subseteq CodeType /\ IsFiniteSet(s.codes)
  /\ s.access \subseteq TokenType /\ IsFiniteSet(s.access)
  /\ s.refresh \subseteq TokenType /\ IsFiniteSet(s.refresh)
  /\ s.tombs \subseteq TombType /\ IsFiniteSet(s.tombs)

Retained(s) == s.codes \cup s.access \cup s.refresh \cup s.tombs

\* What is retained of a grant names one client, and the grant is one of the
\* first `top` that were issued.
OneOwner(s, top) ==
  /\ \A x \in Retained(s) : x.grant <= top
  /\ \A x, y \in Retained(s) : x.grant = y.grant => x.client = y.client

\* A grant whose code is still there has nothing else yet; `over` are the
\* grants that ended, `gone` the access tokens revoked on their own.
CodeComesFirst(s, over, gone) ==
  /\ \A k \in s.codes : \A x \in s.access \cup s.refresh \cup s.tombs : x.grant # k.grant
  /\ \A k \in s.codes : k.grant \notin over /\ \A p \in gone : p[1] # k.grant
  /\ \A k, j \in s.codes : k.grant = j.grant => k = j

\* One refresh token for each grant, numbered past its access tokens.
Numbered(s, gone) ==
  /\ \A r, q \in s.refresh : r.grant = q.grant => r = q
  /\ \A a \in s.access, r \in s.refresh : a.grant = r.grant => a.nr <= r.nr
  /\ \A a, b \in s.access : a.grant = b.grant /\ a.nr = b.nr => a = b
  /\ \A p \in gone, r \in s.refresh : p[1] = r.grant => p[2] <= r.nr

\* No token outlives its family.
Timed(s) ==
  /\ \A r \in s.refresh : r.expires = r.family
  /\ \A a \in s.access : a.expires <= a.family

\* BoundToRegistration and EndedStaysEnded, of one state.
Bound(s) ==
  /\ \A x \in s.codes \cup s.access \cup s.refresh : x.epoch = s.clients[x.client]
  /\ \A x \in s.tombs : s.clients[x.client] # 0
Over(s, over, gone) ==
  /\ \A x \in s.access \cup s.refresh : x.grant \notin over
  /\ \A x \in s.access : <<x.grant, x.nr>> \notin gone

Lineage(s, top, over, gone) ==
  /\ Typed(s) /\ OneOwner(s, top) /\ CodeComesFirst(s, over, gone) /\ Numbered(s, gone)
  /\ Timed(s) /\ Bound(s) /\ Over(s, over, gone)

\* RotatedIsGuarded, of one state.
Guards(s, r, n) ==
  {x \in s.tombs : /\ x.grant = r.grant /\ x.nr = n /\ x.kind = "refresh" /\ x.guard
                   /\ x.client = r.client /\ x.expires >= r.expires}
Guarded(s) == \A r \in s.refresh : \A n \in 0..(r.nr - 1) : Guards(s, r, n) # {}

\* The limits, of one state.
Clientele(s) == {c \in Clients : s.clients[c] # 0}
Limited(s) ==
  /\ IsFiniteSet(Clientele(s)) /\ Cardinality(Clientele(s)) <= MaxClients
  /\ Within(s.codes, CodeLimit) /\ Within(s.access, AccessLimit)
  /\ Within(s.refresh, RefreshLimit) /\ Within(s.tombs, TombLimit)

Good(s, top, over, gone) == Lineage(s, top, over, gone) /\ Guarded(s) /\ Limited(s)

\* The history speaks of grants that were issued.
History(top, over, gone) ==
  /\ \A g \in over : g \in Nat /\ g <= top
  /\ \A p \in gone : p \in Nat \X Nat /\ p[1] <= top

\* An authorization in progress names a registration that was once current.
Asked(d) == d = NoFlow \/ d \in [client : Clients, epoch : Nat \ {0}, scopes : SUBSET Scopes]

IInv ==
  /\ now \in 0..MaxTime /\ grants \in 0..MaxGrants /\ epochs \in 0..MaxEpoch
  /\ \A c \in Clients : st.clients[c] <= epochs
  /\ DOMAIN flow = Flows /\ \A f \in Flows : Asked(flow[f])
  /\ History(grants, ended, revoked)
  /\ Good(st, grants, ended, revoked)

-----------------------------------------------------------------------------
(* Numbers and sizes. *)

\* The least-number principle, for sets.
LEMMA LeastNumber ==
  ASSUME NEW S \in SUBSET Nat, S # {}
  PROVE  \E m \in S : \A k \in S : m <= k
<1>. DEFINE R == OpToRel(<, Nat)
<1>1. IsWellFoundedOn(R, Nat)
  BY NatLessThanWellFounded
<1>2. \A i, j \in Nat : <<i, j>> \in R <=> i < j
  BY DEF OpToRel
<1>. HIDE DEF R
<1>3. PICK x \in S : \A y \in S : ~(<<y, x>> \in R)
  BY <1>1, WFMin
<1>4. \A y \in S : y \in Nat /\ x \in Nat /\ ~(y < x)
  BY <1>2, <1>3
<1>5. \A y \in S : x <= y
  BY <1>4
<1>. QED BY <1>5

LEMMA LimitsAreNumbers ==
  ASSUME NEW l \in {CodeLimit, AccessLimit, RefreshLimit, TombLimit}
  PROVE  l.all \in Nat /\ l.each \in Nat
BY LimitAssumption DEF Limits

\* A table and its clients' parts of it.
LEMMA OwnedSizes ==
  ASSUME NEW S, IsFiniteSet(S), NEW c
  PROVE  /\ IsFiniteSet(Owned(S, c)) /\ Owned(S, c) \subseteq S
         /\ Cardinality(S) \in Nat /\ Cardinality(Owned(S, c)) \in Nat
<1>1. Owned(S, c) \subseteq S
  BY DEF Owned
<1>. QED BY <1>1, FS_Subset, FS_CardinalityType

\* What is removed makes room.
LEMMA FewerFit ==
  ASSUME NEW T, IsFiniteSet(T), NEW S \in SUBSET T, NEW l, l.all \in Nat, l.each \in Nat, Within(T, l)
  PROVE  IsFiniteSet(S) /\ Within(S, l)
<1>1. IsFiniteSet(S) /\ Cardinality(S) <= Cardinality(T)
  BY FS_Subset
<1>2. ASSUME NEW c \in Clients PROVE Cardinality(Owned(S, c)) <= l.each
  <2>1. Owned(S, c) \subseteq Owned(T, c)
    BY DEF Owned
  <2>2. IsFiniteSet(Owned(T, c)) /\ Cardinality(Owned(T, c)) \in Nat /\ Cardinality(Owned(S, c)) \in Nat
    BY <1>1, OwnedSizes
  <2>3. Cardinality(Owned(S, c)) <= Cardinality(Owned(T, c))
    BY <2>1, <2>2, FS_Subset
  <2>. QED BY <2>2, <2>3 DEF Within
<1>3. Cardinality(S) \in Nat /\ Cardinality(T) \in Nat
  BY <1>1, FS_CardinalityType
<1>. QED BY <1>1, <1>2, <1>3 DEF Within

\* What has room may be added.
LEMMA OneMoreFits ==
  ASSUME NEW S, IsFiniteSet(S), NEW x, NEW l, l.all \in Nat, l.each \in Nat, Within(S, l),
         HasRoom(S, x.client, l)
  PROVE  IsFiniteSet(S \cup {x}) /\ Within(S \cup {x}, l)
<1>1. /\ IsFiniteSet(S \cup {x}) /\ Cardinality(S) \in Nat
      /\ Cardinality(S \cup {x}) \in {Cardinality(S), Cardinality(S) + 1}
  BY FS_AddElement, FS_CardinalityType
<1>2. Cardinality(S \cup {x}) <= l.all
  BY <1>1 DEF HasRoom, Within
<1>3. ASSUME NEW c \in Clients PROVE Cardinality(Owned(S \cup {x}, c)) <= l.each
  <2>1. CASE x.client = c
    <3>1. Owned(S \cup {x}, c) = Owned(S, c) \cup {x}
      BY <2>1 DEF Owned
    <3>2. IsFiniteSet(Owned(S, c)) /\ Cardinality(Owned(S, c)) \in Nat
      BY OwnedSizes
    <3>3. Cardinality(Owned(S, c) \cup {x}) \in {Cardinality(Owned(S, c)), Cardinality(Owned(S, c)) + 1}
      BY <3>2, FS_AddElement
    <3>4. Cardinality(Owned(S, c)) < l.each
      BY <2>1 DEF HasRoom
    <3>5. Cardinality(Owned(S, c) \cup {x}) <= l.each
      BY <3>2, <3>3, <3>4
    <3>. QED BY <3>1, <3>5
  <2>2. CASE x.client # c
    <3>1. Owned(S \cup {x}, c) = Owned(S, c)
      BY <2>2 DEF Owned
    <3>. QED BY <3>1 DEF Within
  <2>. QED BY <2>1, <2>2
<1>. QED BY <1>1, <1>2, <1>3 DEF Within

\* What is replaced for the same client needs no more room.
LEMMA SwapFits ==
  ASSUME NEW S, IsFiniteSet(S), NEW r \in S, NEW x, x.client = r.client,
         NEW l, l.all \in Nat, l.each \in Nat, Within(S, l), r.client \in Clients
  PROVE  IsFiniteSet((S \ {r}) \cup {x}) /\ Within((S \ {r}) \cup {x}, l)
<1>. DEFINE T == S \ {r}
<1>1. IsFiniteSet(T) /\ Cardinality(T) = Cardinality(S) - 1 /\ Cardinality(S) \in Nat
  BY FS_RemoveElement, FS_CardinalityType
<1>2. Within(T, l)
  BY FewerFit
<1>3. Cardinality(T) < l.all
  BY <1>1 DEF Within
<1>4. Cardinality(Owned(T, x.client)) < l.each
  <2>1. Owned(T, x.client) = Owned(S, r.client) \ {r} /\ r \in Owned(S, r.client)
    BY DEF Owned
  <2>2. IsFiniteSet(Owned(S, r.client)) /\ Cardinality(Owned(S, r.client)) \in Nat
    BY OwnedSizes
  <2>3. Cardinality(Owned(T, x.client)) = Cardinality(Owned(S, r.client)) - 1
    BY <2>1, <2>2, FS_RemoveElement
  <2>. QED BY <2>2, <2>3 DEF Within
<1>. HIDE DEF T
<1>5. HasRoom(T, x.client, l)
  BY <1>3, <1>4 DEF HasRoom
<1>6. IsFiniteSet(T \cup {x}) /\ Within(T \cup {x}, l)
  BY <1>1, <1>2, <1>5, OneMoreFits
<1>. QED BY <1>6 DEF T

-----------------------------------------------------------------------------
(* Markers. *)

\* A result U of inserting the markers M into T.
Marking(T, U, M) ==
  /\ U \subseteq T \cup M /\ \A x \in T : x.guard => x \in U
  /\ IsFiniteSet(U) /\ Within(U, TombLimit)

\* A table of markers.
MarkTable(T) == T \subseteq TombType /\ IsFiniteSet(T) /\ Within(T, TombLimit)

\* Only a marker that is no replay guard is evicted, and one is if there is any.
LEMMA EvictTakesOne ==
  ASSUME NEW T, NEW S \in SUBSET T, NEW U \in Evict(T, S)
  PROVE  \E x \in S : ~x.guard /\ U = T \ {x}
BY DEF Evict

LEMMA EvictFinds ==
  ASSUME NEW T, MarkTable(T), NEW S \in SUBSET T, NEW x \in S, ~x.guard
  PROVE  Evict(T, S) # {}
<1>. DEFINE plain == {y \in S : ~y.guard}
            times == {y.expires : y \in plain}
<1>1. times \in SUBSET Nat /\ times # {}
  BY DEF MarkTable, TombType
<1>2. PICK m \in times : \A k \in times : m <= k
  BY <1>1, LeastNumber
<1>3. PICK y \in plain : y.expires = m
  BY <1>2
<1>4. \A z \in plain : y.expires <= z.expires
  BY <1>2, <1>3
<1>5. T \ {y} \in Evict(T, S)
  BY <1>3, <1>4 DEF Evict
<1>. QED BY <1>5

\* A table with one element less.
LEMMA OneLessFits ==
  ASSUME NEW T, MarkTable(T), NEW x \in T
  PROVE  /\ MarkTable(T \ {x}) /\ Cardinality(T \ {x}) < TombLimit.all
         /\ Cardinality(Owned(T \ {x}, x.client)) < TombLimit.each
<1>0. TombLimit.all \in Nat /\ TombLimit.each \in Nat
  BY LimitsAreNumbers
<1>1. x.client \in Clients
  BY DEF MarkTable, TombType
<1>2. MarkTable(T \ {x})
  BY <1>0, FewerFit DEF MarkTable
<1>3. Cardinality(T \ {x}) = Cardinality(T) - 1 /\ Cardinality(T) \in Nat
  BY FS_RemoveElement, FS_CardinalityType DEF MarkTable
<1>4. Cardinality(T \ {x}) < TombLimit.all
  BY <1>0, <1>3 DEF MarkTable, Within
<1>5. Owned(T \ {x}, x.client) = Owned(T, x.client) \ {x} /\ x \in Owned(T, x.client)
  BY DEF Owned
<1>6. IsFiniteSet(Owned(T, x.client)) /\ Cardinality(Owned(T, x.client)) \in Nat
  BY OwnedSizes DEF MarkTable
<1>7. Cardinality(Owned(T \ {x}, x.client)) = Cardinality(Owned(T, x.client)) - 1
  BY <1>5, <1>6, FS_RemoveElement
<1>8. Cardinality(Owned(T, x.client)) <= TombLimit.each
  BY <1>1 DEF MarkTable, Within
<1>. QED BY <1>0, <1>2, <1>4, <1>6, <1>7, <1>8

LEMMA AddFits ==
  ASSUME NEW T, MarkTable(T), NEW t \in TombType, Cardinality(T) < TombLimit.all,
         Cardinality(Owned(T, t.client)) < TombLimit.each
  PROVE  MarkTable(T \cup {t})
<1>0. TombLimit.all \in Nat /\ TombLimit.each \in Nat
  BY LimitsAreNumbers
<1>1. HasRoom(T, t.client, TombLimit)
  BY DEF HasRoom
<1>2. IsFiniteSet(T \cup {t}) /\ Within(T \cup {t}, TombLimit)
  BY <1>0, <1>1, OneMoreFits DEF MarkTable
<1>. QED BY <1>2 DEF MarkTable

LEMMA PlaceKeeps ==
  ASSUME NEW T, MarkTable(T), NEW t \in TombType,
         Cardinality(Owned(T, t.client)) < TombLimit.each, NEW U \in Place(T, t)
  PROVE  /\ MarkTable(U) /\ Marking(T, U, {t})
         /\ t \in U \/ (Cardinality(T) >= TombLimit.all /\ \A x \in T : x.guard)
<1>0. TombLimit.all \in Nat /\ Cardinality(T) \in Nat /\ TombLimit.each \in Nat
  BY LimitsAreNumbers, FS_CardinalityType DEF MarkTable
<1>1. CASE Cardinality(T) < TombLimit.all
  <2>1. U = T \cup {t}
    BY <1>1 DEF Place
  <2>2. MarkTable(U)
    BY <1>1, <2>1, AddFits
  <2>. QED BY <2>1, <2>2 DEF Marking, MarkTable
<1>2. CASE ~(Cardinality(T) < TombLimit.all) /\ Evict(T, T) = {}
  <2>1. U = T
    BY <1>2 DEF Place
  <2>2. \A x \in T : x.guard
    BY <1>2, EvictFinds
  <2>. QED BY <1>0, <1>2, <2>1, <2>2 DEF Marking, MarkTable
<1>3. CASE ~(Cardinality(T) < TombLimit.all) /\ Evict(T, T) # {}
  <2>1. PICK V \in Evict(T, T) : U = V \cup {t}
    BY <1>3 DEF Place
  <2>2. PICK x \in T : ~x.guard /\ V = T \ {x}
    BY EvictTakesOne
  <2>3. MarkTable(V) /\ Cardinality(V) < TombLimit.all
    BY <2>2, OneLessFits
  <2>4. Cardinality(Owned(V, t.client)) < TombLimit.each
    <3>1. Owned(V, t.client) \subseteq Owned(T, t.client)
      BY <2>2 DEF Owned
    <3>2. IsFiniteSet(Owned(T, t.client)) /\ Cardinality(Owned(T, t.client)) \in Nat
          /\ Cardinality(Owned(V, t.client)) \in Nat
      BY <2>3, OwnedSizes DEF MarkTable
    <3>3. Cardinality(Owned(V, t.client)) <= Cardinality(Owned(T, t.client))
      BY <3>1, <3>2, FS_Subset
    <3>. QED BY <1>0, <3>2, <3>3
  <2>5. MarkTable(U)
    BY <2>1, <2>3, <2>4, AddFits
  <2>. QED BY <2>1, <2>2, <2>5 DEF Marking, MarkTable
<1>. QED BY <1>1, <1>2, <1>3

\* insert_tombstone_bounded keeps the limits and every replay guard.
LEMMA InsertKeeps ==
  ASSUME NEW T, MarkTable(T), NEW t \in TombType, NEW U \in Insert(T, t)
  PROVE  /\ MarkTable(U) /\ Marking(T, U, {t})
         /\ t.expires > now /\ GuardRoom(T, t.client) /\ now \in Nat => t \in U
<1>. DEFINE own == Owned(T, t.client)
<1>0. TombLimit.each \in Nat /\ TombLimit.all \in Nat /\ Cardinality(own) \in Nat /\ own \subseteq T
      /\ Cardinality(T) \in Nat
  BY LimitsAreNumbers, OwnedSizes DEF MarkTable
<1>1. CASE t.expires <= now
  <2>1. U = T
    BY <1>1 DEF Insert
  <2>2. t.expires \in Nat
    BY DEF TombType
  <2>. QED BY <1>1, <2>1, <2>2 DEF Marking, MarkTable
<1>2. CASE ~(t.expires <= now) /\ Cardinality(own) < TombLimit.each
  <2>1. U \in Place(T, t)
    BY <1>2 DEF Insert
  <2>2. /\ MarkTable(U) /\ Marking(T, U, {t})
        /\ t \in U \/ (Cardinality(T) >= TombLimit.all /\ \A x \in T : x.guard)
    BY <1>2, <2>1, PlaceKeeps
  <2>. QED BY <2>2 DEF GuardRoom
<1>3. CASE ~(t.expires <= now) /\ ~(Cardinality(own) < TombLimit.each) /\ Evict(T, own) = {}
  <2>1. U = T
    BY <1>3 DEF Insert
  <2>2. \A x \in own : x.guard
    BY <1>0, <1>3, EvictFinds
  <2>3. ~GuardRoom(T, t.client)
    BY <1>0, <1>3, <2>2 DEF GuardRoom
  <2>. QED BY <2>1, <2>3 DEF Marking, MarkTable
<1>4. CASE ~(t.expires <= now) /\ ~(Cardinality(own) < TombLimit.each) /\ Evict(T, own) # {}
  <2>1. PICK V \in Evict(T, own) : U \in Place(V, t)
    BY <1>4 DEF Insert
  <2>. HIDE DEF own
  <2>2. PICK x \in own : ~x.guard /\ V = T \ {x}
    BY <1>0, EvictTakesOne
  <2>3. x \in T /\ x.client = t.client
    BY <2>2 DEF own, Owned
  <2>4. /\ MarkTable(V) /\ Cardinality(V) < TombLimit.all
        /\ Cardinality(Owned(V, t.client)) < TombLimit.each
    BY <2>2, <2>3, OneLessFits
  <2>5. /\ MarkTable(U) /\ Marking(V, U, {t})
        /\ t \in U \/ Cardinality(V) >= TombLimit.all
    BY <2>1, <2>4, PlaceKeeps
  <2>6. Cardinality(V) \in Nat
    BY <2>4, FS_CardinalityType DEF MarkTable
  <2>7. t \in U
    BY <1>0, <2>4, <2>5, <2>6
  <2>8. Marking(T, U, {t})
    BY <2>2, <2>5 DEF Marking
  <2>. QED BY <2>5, <2>7, <2>8
<1>. QED BY <1>1, <1>2, <1>3, <1>4

\* The recursion of InsertAll, and that it is well founded.
Then(marks, i, R) == UNION {Insert(U, marks[i]) : U \in R}
Unfolds(T, marks, n, f) == f = [i \in 0..n |-> IF i = 0 THEN {T} ELSE Then(marks, i, f[i - 1])]

LEMMA AfterExists ==
  ASSUME NEW T, NEW marks, NEW n \in Nat
  PROVE  \E f : Unfolds(T, marks, n, f)
<1>. DEFINE S == {m \in Nat : ~\E f : Unfolds(T, marks, m, f)}
<1>. SUFFICES ASSUME S # {} PROVE FALSE
  OBVIOUS
<1>1. PICK m \in S : \A k \in S : m <= k
  BY LeastNumber
<1>2. m # 0
  <2>. DEFINE z == [i \in 0..0 |-> {T}]
  <2>1. Unfolds(T, marks, 0, z)
    BY DEF Unfolds
  <2>. HIDE DEF z
  <2>2. 0 \notin S
    BY <2>1
  <2>. QED BY <1>1, <2>2
<1>3. m \in Nat /\ ~\E f : Unfolds(T, marks, m, f)
  BY <1>1
<1>4. m - 1 \in Nat /\ ~(m <= m - 1)
  BY <1>2, <1>3
<1>5. m - 1 \notin S
  BY <1>1, <1>4
<1>6. PICK f : Unfolds(T, marks, m - 1, f)
  BY <1>4, <1>5
<1>. DEFINE h == [i \in 0..m |-> IF i = 0 THEN {T} ELSE Then(marks, i, f[i - 1])]
<1>. HIDE DEF S
<1>7. \A i \in 0..(m - 1) : i \in 0..m
  BY <1>3
<1>8. \A i \in 0..(m - 1) : h[i] = f[i]
  BY <1>6, <1>7 DEF Unfolds
<1>9. \A i \in 0..m : i # 0 => i - 1 \in 0..(m - 1)
  BY <1>3
<1>10. Unfolds(T, marks, m, h)
  BY <1>8, <1>9 DEF Unfolds
<1>. HIDE DEF h
<1>. QED BY <1>3, <1>10

LEMMA MarkingComposes ==
  ASSUME NEW T, NEW U, NEW V, NEW M, NEW N, Marking(T, U, M), Marking(U, V, N)
  PROVE  Marking(T, V, M \cup N)
BY DEF Marking

\* Any number of markers: none of the insertions evicts a replay guard.
LEMMA InsertAllKeeps ==
  ASSUME NEW T, MarkTable(T), NEW marks \in Seq(TombType), NEW U \in InsertAll(T, marks)
  PROVE  MarkTable(U) /\ Marking(T, U, {marks[i] : i \in 1..Len(marks)})
<1>. DEFINE n == Len(marks)
            after == CHOOSE f : Unfolds(T, marks, n, f)
            M(i) == {marks[j] : j \in 1..i}
            P(i) == \A V \in after[i] : MarkTable(V) /\ Marking(T, V, M(i))
            S == {i \in 0..n : ~P(i)}
<1>1. n \in Nat /\ \A i \in 1..n : marks[i] \in TombType
  OBVIOUS
<1>2. U \in after[n]
  BY DEF InsertAll, Unfolds, Then
<1>. HIDE DEF n
<1>3. Unfolds(T, marks, n, after)
  <2>1. \E f : Unfolds(T, marks, n, f)
    BY <1>1, AfterExists
  <2>. QED BY <2>1
<1>. HIDE DEF after
<1>4. after[0] = {T}
  BY <1>1, <1>3 DEF Unfolds
<1>5. ASSUME NEW i \in 1..n PROVE after[i] = Then(marks, i, after[i - 1])
  <2>1. i \in 0..n /\ i # 0
    BY <1>1
  <2>. QED BY <1>3, <2>1 DEF Unfolds
<1>6. P(0)
  BY <1>4 DEF Marking, MarkTable
<1>7. ASSUME NEW m \in 1..n, P(m - 1) PROVE P(m)
  <2>1. SUFFICES ASSUME NEW V \in after[m] PROVE MarkTable(V) /\ Marking(T, V, M(m))
    OBVIOUS
  <2>2. PICK W \in after[m - 1] : V \in Insert(W, marks[m])
    BY <1>5 DEF Then
  <2>3. MarkTable(W) /\ Marking(T, W, M(m - 1)) /\ marks[m] \in TombType
    BY <1>1, <1>7, <2>2
  <2>4. MarkTable(V) /\ Marking(W, V, {marks[m]})
    BY <2>2, <2>3, InsertKeeps
  <2>5. M(m) = M(m - 1) \cup {marks[m]}
    <3>1. \A j : j \in 1..m <=> (j \in 1..(m - 1) \/ j = m)
      BY <1>1
    <3>. QED BY <3>1
  <2>. HIDE DEF M
  <2>6. Marking(T, V, M(m - 1) \cup {marks[m]})
    BY <2>3, <2>4, MarkingComposes
  <2>. QED BY <2>4, <2>5, <2>6
<1>. HIDE DEF P
<1>8. S = {}
  <2>. SUFFICES ASSUME S # {} PROVE FALSE
    OBVIOUS
  <2>1. S \in SUBSET Nat
    BY <1>1
  <2>2. PICK m \in S : \A k \in S : m <= k
    BY <2>1, LeastNumber
  <2>3. m \in 0..n /\ ~P(m) /\ m # 0
    BY <1>6, <2>2
  <2>4. m \in 1..n /\ m - 1 \in 0..n /\ ~(m <= m - 1)
    BY <1>1, <2>3
  <2>5. m - 1 \notin S
    BY <2>2, <2>4
  <2>6. P(m - 1)
    BY <2>4, <2>5
  <2>. QED BY <1>7, <2>3, <2>4, <2>6
<1>9. n \in 0..n /\ n \notin S
  BY <1>1, <1>8
<1>10. P(n)
  BY <1>9
<1>11. MarkTable(U) /\ Marking(T, U, M(n))
  BY <1>2, <1>10 DEF P
<1>. QED BY <1>11 DEF n

-----------------------------------------------------------------------------
(* Steps that only take credentials away. *)

\* What u keeps of s: nothing new but markers of credentials that s had, and
\* the registrations of the clients that still own something.
Follows(s, u) ==
  /\ DOMAIN u = Tables /\ u.clients \in [Clients -> Nat]
  /\ u.codes \subseteq s.codes /\ u.access \subseteq s.access /\ u.refresh \subseteq s.refresh
  /\ u.tombs \subseteq TombType /\ IsFiniteSet(u.tombs)
  /\ \A x \in u.tombs : \E y \in s.access \cup s.refresh \cup s.tombs :
                          y.grant = x.grant /\ y.client = x.client
  /\ \A x \in Retained(u) : u.clients[x.client] = s.clients[x.client]

LEMMA FollowsKeeps ==
  ASSUME NEW s, NEW top, NEW over, NEW gone, Lineage(s, top, over, gone), NEW u, Follows(s, u)
  PROVE  Lineage(u, top, over, gone)
<1>1. Typed(u)
  <2>1. IsFiniteSet(u.codes) /\ IsFiniteSet(u.access) /\ IsFiniteSet(u.refresh)
    BY FS_Subset DEF Lineage, Typed, Follows
  <2>. QED BY <2>1 DEF Lineage, Typed, Follows
<1>2. \A x \in Retained(u) : \E y \in Retained(s) : y.grant = x.grant /\ y.client = x.client
  BY DEF Follows, Retained
<1>3. OneOwner(u, top)
  <2>1. \A x \in Retained(u) : x.grant <= top
    BY <1>2 DEF Lineage, OneOwner
  <2>2. ASSUME NEW x \in Retained(u), NEW y \in Retained(u), x.grant = y.grant
        PROVE  x.client = y.client
    <3>1. PICK v \in Retained(s) : v.grant = x.grant /\ v.client = x.client
      BY <1>2
    <3>2. PICK w \in Retained(s) : w.grant = y.grant /\ w.client = y.client
      BY <1>2
    <3>. QED BY <2>2, <3>1, <3>2 DEF Lineage, OneOwner
  <2>. QED BY <2>1, <2>2 DEF OneOwner
<1>4. CodeComesFirst(u, over, gone)
  <2>1. \A x \in u.access \cup u.refresh \cup u.tombs : \E y \in s.access \cup s.refresh \cup s.tombs :
          y.grant = x.grant
    BY DEF Follows
  <2>2. u.codes \subseteq s.codes
    BY DEF Follows
  <2>3. \A k \in u.codes : \A x \in u.access \cup u.refresh \cup u.tombs : x.grant # k.grant
    BY <2>1, <2>2 DEF Lineage, CodeComesFirst
  <2>. QED BY <2>2, <2>3 DEF Lineage, CodeComesFirst
<1>5. Numbered(u, gone) /\ Timed(u) /\ Over(u, over, gone)
  BY DEF Lineage, Numbered, Timed, Over, Follows
<1>6. Bound(u)
  <2>1. ASSUME NEW x \in u.codes \cup u.access \cup u.refresh PROVE x.epoch = u.clients[x.client]
    <3>1. x.epoch = s.clients[x.client]
      BY DEF Follows, Lineage, Bound
    <3>. QED BY <3>1 DEF Follows, Retained
  <2>2. ASSUME NEW x \in u.tombs PROVE u.clients[x.client] # 0
    <3>1. PICK y \in s.access \cup s.refresh \cup s.tombs : y.client = x.client
      BY DEF Follows
    <3>2. s.clients[y.client] # 0
      BY DEF Lineage, Typed, Bound, TokenType
    <3>. QED BY <3>1, <3>2 DEF Follows, Retained
  <2>. QED BY <2>1, <2>2 DEF Bound
<1>. QED BY <1>1, <1>3, <1>4, <1>5, <1>6 DEF Lineage

\* Smaller tables of credentials stay within the limits.
LEMMA FollowsFits ==
  ASSUME NEW s, Typed(s), Limited(s), NEW u, Follows(s, u), Within(u.tombs, TombLimit),
         Clientele(u) \subseteq Clientele(s)
  PROVE  Limited(u)
<1>1. /\ CodeLimit.all \in Nat /\ CodeLimit.each \in Nat
      /\ AccessLimit.all \in Nat /\ AccessLimit.each \in Nat
      /\ RefreshLimit.all \in Nat /\ RefreshLimit.each \in Nat
  BY LimitsAreNumbers
<1>2. Within(u.codes, CodeLimit) 
  BY <1>1, FewerFit DEF Limited, Typed, Follows
<1>3. Within(u.access, AccessLimit)
  BY <1>1, FewerFit DEF Limited, Typed, Follows
<1>4. Within(u.refresh, RefreshLimit)
  BY <1>1, FewerFit DEF Limited, Typed, Follows
<1>5. /\ IsFiniteSet(Clientele(u)) /\ Cardinality(Clientele(u)) <= Cardinality(Clientele(s))
      /\ Cardinality(Clientele(u)) \in Nat /\ Cardinality(Clientele(s)) \in Nat
  BY FS_Subset, FS_CardinalityType DEF Limited
<1>6. Cardinality(Clientele(u)) <= MaxClients
  BY <1>5, LifeAssumption DEF Limited
<1>. QED BY <1>2, <1>3, <1>4, <1>5, <1>6 DEF Limited

\* cleanup_expired_at.
LEMMA CleanFields ==
  ASSUME NEW s, DOMAIN s = Tables
  PROVE  /\ DOMAIN Clean(s) = Tables /\ Clean(s).clients = s.clients
         /\ Clean(s).codes = {x \in s.codes : x.expires > now}
         /\ Clean(s).access = {x \in s.access : x.expires > now}
         /\ Clean(s).refresh = {x \in s.refresh : x.expires > now}
         /\ Clean(s).tombs = {x \in s.tombs : x.expires > now}
BY DEF Clean, Tables

\* A guard expires no earlier than the token it guards.
LEMMA CleanKeeps ==
  ASSUME NEW s, NEW top, NEW over, NEW gone, Good(s, top, over, gone), now \in Nat
  PROVE  Good(Clean(s), top, over, gone)
<1>. DEFINE u == Clean(s)
<1>1. /\ DOMAIN u = Tables /\ u.clients = s.clients
      /\ u.codes = {x \in s.codes : x.expires > now}
      /\ u.access = {x \in s.access : x.expires > now}
      /\ u.refresh = {x \in s.refresh : x.expires > now}
      /\ u.tombs = {x \in s.tombs : x.expires > now}
  BY CleanFields DEF Good, Lineage, Typed
<1>. HIDE DEF u
<1>2. IsFiniteSet(u.tombs) /\ Within(u.tombs, TombLimit)
  BY <1>1, LimitsAreNumbers, FewerFit DEF Good, Lineage, Typed, Limited
<1>3. Follows(s, u)
  BY <1>1, <1>2 DEF Follows, Good, Lineage, Typed
<1>4. Lineage(u, top, over, gone)
  BY <1>3, FollowsKeeps DEF Good
<1>5. Limited(u)
  <2>1. Clientele(u) = Clientele(s)
    BY <1>1 DEF Clientele
  <2>. QED BY <1>2, <1>3, <2>1, FollowsFits DEF Good, Lineage
<1>6. ASSUME NEW r \in u.refresh, NEW n \in 0..(r.nr - 1) PROVE Guards(u, r, n) # {}
  <2>1. r \in s.refresh /\ r.expires > now /\ r.expires \in Nat
    BY <1>1 DEF Good, Lineage, Typed, TokenType
  <2>2. PICK x \in Guards(s, r, n) : TRUE
    BY <2>1 DEF Good, Guarded
  <2>3. x \in s.tombs /\ x.expires \in Nat /\ x.expires >= r.expires
    BY <2>2 DEF Guards, Good, Lineage, Typed, TombType
  <2>4. x \in u.tombs
    BY <1>1, <2>1, <2>3
  <2>5. x \in Guards(u, r, n)
    BY <2>2, <2>4 DEF Guards
  <2>. QED BY <2>5
<1>7. Guarded(u)
  BY <1>6 DEF Guarded
<1>8. Good(u, top, over, gone)
  BY <1>4, <1>5, <1>7 DEF Good
<1>. QED BY <1>8 DEF u

-----------------------------------------------------------------------------
(* Revocation. *)

\* What a revocation leaves: all but the family (g, c), the guards of the
\* other families, and perhaps markers of the family's tokens.
Revoked(s, u, g, c) ==
  /\ DOMAIN u = Tables /\ u.clients = s.clients /\ u.codes = s.codes
  /\ u.access = s.access \ Family(s.access, g, c)
  /\ u.refresh = s.refresh \ Family(s.refresh, g, c)
  /\ MarkTable(u.tombs)
  /\ \A x \in u.tombs : \E y \in s.access \cup s.refresh \cup s.tombs :
                          y.grant = x.grant /\ y.client = x.client
  /\ \A x \in s.tombs : x.guard /\ ~(x.grant = g /\ x.client = c) => x \in u.tombs

LEMMA TombTyped ==
  ASSUME NEW x \in TokenType, NEW kind \in {"access", "refresh"}, NEW guard \in BOOLEAN,
         NEW expires \in Nat
  PROVE  /\ Tomb(kind, x, guard, expires) \in TombType
         /\ Tomb(kind, x, guard, expires).grant = x.grant
         /\ Tomb(kind, x, guard, expires).client = x.client
BY DEF Tomb, TombType, TokenType

\* The markers of a set of tokens, in any order.
LEMMA MarksAreTombs ==
  ASSUME NEW S \in SUBSET TokenType, IsFiniteSet(S), NEW kind \in {"access", "refresh"},
         NEW m \in SetToSeqs({Tomb(kind, x, FALSE, x.expires) : x \in S})
  PROVE  /\ m \in Seq(TombType)
         /\ \A i \in 1..Len(m) : \E x \in S : m[i].grant = x.grant /\ m[i].client = x.client
<1>. DEFINE M == {Tomb(kind, x, FALSE, x.expires) : x \in S}
<1>1. IsFiniteSet(M)
  <2>. DEFINE F == [x \in S |-> Tomb(kind, x, FALSE, x.expires)]
  <2>1. F \in Surjection(S, M)
    BY DEF Surjection
  <2>. HIDE DEF F, M
  <2>. QED BY <2>1, FS_Surjection
<1>2. \A t \in M : t \in TombType /\ \E x \in S : t.grant = x.grant /\ t.client = x.client
  <2>1. ASSUME NEW x \in S
        PROVE  LET t == Tomb(kind, x, FALSE, x.expires)
               IN t \in TombType /\ t.grant = x.grant /\ t.client = x.client
    <3>1. x \in TokenType /\ x.expires \in Nat
      BY DEF TokenType
    <3>. QED BY <3>1, TombTyped
  <2>. QED BY <2>1
<1>3. Cardinality(M) \in Nat
  BY <1>1, FS_CardinalityType
<1>. HIDE DEF M
<1>4. m \in [1..Cardinality(M) -> M]
  BY DEF M, SetToSeqs
<1>5. m \in Seq(M) /\ Len(m) = Cardinality(M)
  BY <1>3, <1>4
<1>. QED BY <1>2, <1>4, <1>5

LEMMA RevokeFamilyRevokes ==
  ASSUME NEW s, Typed(s), Within(s.tombs, TombLimit), NEW g, NEW c, NEW u \in RevokeFamily(s, g, c)
  PROVE  Revoked(s, u, g, c)
<1>. DEFINE access == Family(s.access, g, c)
            refresh == Family(s.refresh, g, c)
            kept == {x \in s.tombs : ~(x.guard /\ x.grant = g /\ x.client = c)}
            Marks(kind, S) == SetToSeqs({Tomb(kind, x, FALSE, x.expires) : x \in S})
            All == {InsertAll(kept, m[1] \o m[2]) :
                      m \in Marks("access", access) \X Marks("refresh", refresh)}
<1>1. u \in {[s EXCEPT !.access = @ \ access, !.refresh = @ \ refresh, !.tombs = T] : T \in UNION All}
  BY DEF RevokeFamily
<1>. HIDE DEF All
<1>2. PICK T \in UNION All :
        u = [s EXCEPT !.access = @ \ access, !.refresh = @ \ refresh, !.tombs = T]
  BY <1>1
<1>21. PICK a \in Marks("access", access), r \in Marks("refresh", refresh) : T \in InsertAll(kept, a \o r)
  <2>. HIDE DEF Marks, kept
  <2>. QED BY <1>2 DEF All
<1>3. /\ access \subseteq s.access /\ access \subseteq TokenType /\ IsFiniteSet(access)
      /\ refresh \subseteq s.refresh /\ refresh \subseteq TokenType /\ IsFiniteSet(refresh)
      /\ kept \subseteq s.tombs
  BY FS_Subset DEF Family, Typed
<1>4. MarkTable(kept)
  <2>. HIDE DEF kept
  <2>. QED BY <1>3, LimitsAreNumbers, FewerFit DEF MarkTable, Typed
<1>. HIDE DEF access, refresh
<1>5. a \in Seq(TombType) /\ \A i \in 1..Len(a) : \E x \in access : a[i].grant = x.grant /\ a[i].client = x.client
  BY <1>3, MarksAreTombs
<1>6. r \in Seq(TombType) /\ \A i \in 1..Len(r) : \E x \in refresh : r[i].grant = x.grant /\ r[i].client = x.client
  BY <1>3, MarksAreTombs
<1>. HIDE DEF Marks, kept
<1>. DEFINE m == a \o r
<1>7. m \in Seq(TombType)
  BY <1>5, <1>6
<1>8. ASSUME NEW i \in 1..Len(m)
      PROVE  \E y \in s.access \cup s.refresh : y.grant = m[i].grant /\ y.client = m[i].client
  <2>1. Len(a) \in Nat /\ Len(r) \in Nat /\ Len(m) = Len(a) + Len(r)
    BY <1>5, <1>6
  <2>2. CASE i <= Len(a)
    <3>1. i \in 1..Len(a) /\ m[i] = a[i]
      BY <1>5, <1>6, <2>1, <2>2
    <3>. QED BY <1>3, <1>5, <3>1
  <2>3. CASE i > Len(a)
    <3>1. i - Len(a) \in 1..Len(r) /\ m[i] = r[i - Len(a)]
      BY <1>5, <1>6, <2>1, <2>3
    <3>. QED BY <1>3, <1>6, <3>1
  <2>. QED BY <2>1, <2>2, <2>3
<1>. HIDE DEF m
<1>9. MarkTable(T) /\ Marking(kept, T, {m[i] : i \in 1..Len(m)})
  <2>1. T \in InsertAll(kept, m)
    BY <1>21 DEF m
  <2>. QED BY <1>4, <1>7, <2>1, InsertAllKeeps
<1>10. ASSUME NEW x \in T
       PROVE  \E y \in s.access \cup s.refresh \cup s.tombs : y.grant = x.grant /\ y.client = x.client
  <2>1. x \in kept \/ \E i \in 1..Len(m) : x = m[i]
    BY <1>9 DEF Marking
  <2>. QED BY <1>3, <1>8, <2>1
<1>11. \A x \in s.tombs : x.guard /\ ~(x.grant = g /\ x.client = c) => x \in T
  BY <1>9 DEF Marking, kept
<1>12. /\ DOMAIN u = Tables /\ u.clients = s.clients /\ u.codes = s.codes
       /\ u.access = s.access \ access /\ u.refresh = s.refresh \ refresh /\ u.tombs = T
  BY <1>2 DEF Typed, Tables
<1>. QED BY <1>9, <1>10, <1>11, <1>12 DEF Revoked, access, refresh

\* A family is revoked by the client that owns something of it, and then it is over.
LEMMA RevokedIsOver ==
  ASSUME NEW s, NEW top \in Nat, NEW over, NEW gone, Good(s, top, over, gone), NEW g, NEW c,
         NEW u, Revoked(s, u, g, c),
         NEW w \in s.access \cup s.refresh \cup s.tombs, w.grant = g, w.client = c
  PROVE  Good(u, top, over \cup {g}, gone)
<1>0. Typed(s) /\ Lineage(s, top, over, gone) /\ Limited(s) /\ Guarded(s)
  BY DEF Good, Lineage
<1>1. Follows(s, u)
  BY <1>0 DEF Revoked, Follows, MarkTable, Typed
<1>2. Lineage(u, top, over, gone)
  BY <1>0, <1>1, FollowsKeeps
<1>3. \A x \in s.access \cup s.refresh : x.grant = g => x.client = c
  BY <1>0 DEF Lineage, OneOwner, Retained
<1>4. \A x \in u.access \cup u.refresh : x.grant # g
  BY <1>3 DEF Revoked, Family
<1>5. \A k \in u.codes : k.grant # g
  BY <1>0 DEF Revoked, Lineage, CodeComesFirst
<1>6. Lineage(u, top, over \cup {g}, gone)
  <2>1. Over(u, over \cup {g}, gone)
    BY <1>2, <1>4 DEF Lineage, Over
  <2>2. CodeComesFirst(u, over \cup {g}, gone)
    BY <1>2, <1>5 DEF Lineage, CodeComesFirst
  <2>. QED BY <1>2, <2>1, <2>2 DEF Lineage
<1>7. Limited(u)
  <2>1. Within(u.tombs, TombLimit) /\ Clientele(u) = Clientele(s)
    BY DEF Revoked, MarkTable, Clientele
  <2>. QED BY <1>0, <1>1, <2>1, FollowsFits
<1>8. ASSUME NEW r \in u.refresh, NEW n \in 0..(r.nr - 1) PROVE Guards(u, r, n) # {}
  <2>1. r \in s.refresh /\ r.grant # g
    BY <1>4 DEF Revoked
  <2>2. PICK x \in Guards(s, r, n) : TRUE
    BY <1>0, <2>1 DEF Guarded
  <2>3. x \in u.tombs
    BY <2>1, <2>2 DEF Guards, Revoked
  <2>4. x \in Guards(u, r, n)
    BY <2>2, <2>3 DEF Guards
  <2>. QED BY <2>4
<1>9. Guarded(u)
  BY <1>8 DEF Guarded
<1>. QED BY <1>6, <1>7, <1>9 DEF Good

-----------------------------------------------------------------------------
(* The actions. *)

\* What FamilyNeverGrows says of a step from s to u.
Inherited(s, u) ==
  \A r \in s.refresh, q \in u.refresh :
    r.grant = q.grant => q.expires = r.expires /\ q.scopes \subseteq r.scopes

Steps == IInv' /\ Inherited(st, st')

\* Every mutation starts from the state without what expired.
LEMMA Cleaned ==
  ASSUME IInv
  PROVE  /\ Good(Clean(st), grants, ended, revoked) /\ now \in Nat /\ grants \in Nat
         /\ epochs \in Nat /\ Clean(st).clients = st.clients
         /\ Clean(st).codes \subseteq st.codes /\ Clean(st).refresh \subseteq st.refresh
         /\ MaxTime \in Nat /\ MaxGrants \in Nat /\ MaxEpoch \in Nat
<1>1. now \in Nat /\ grants \in Nat /\ epochs \in Nat /\ MaxTime \in Nat /\ MaxGrants \in Nat
      /\ MaxEpoch \in Nat
  BY LifeAssumption DEF IInv
<1>2. Good(Clean(st), grants, ended, revoked)
  BY <1>1, CleanKeeps DEF IInv
<1>3. /\ Clean(st).clients = st.clients
      /\ Clean(st).codes \subseteq st.codes /\ Clean(st).refresh \subseteq st.refresh
  BY CleanFields DEF IInv, Good, Lineage, Typed
<1>. QED BY <1>1, <1>2, <1>3

\* Without a new refresh token, nothing is prolonged or widened.
LEMMA NoNewRefresh ==
  ASSUME NEW s, NEW top, NEW over, NEW gone, Lineage(s, top, over, gone), NEW u,
         u.refresh \subseteq s.refresh
  PROVE  Inherited(s, u)
BY DEF Inherited, Lineage, Numbered

\* A step that keeps the requests before the approval backend.
LEMMA Settle ==
  ASSUME IInv, Good(st', grants', ended', revoked'), History(grants', ended', revoked'),
         now' \in 0..MaxTime, grants' \in 0..MaxGrants, epochs' \in 0..MaxEpoch,
         \A c \in Clients : st'.clients[c] <= epochs', flow' = flow, Inherited(st, st')
  PROVE  Steps
<1>1. Good(st, grants, ended, revoked)' /\ History(grants, ended, revoked)'
  BY DEF Good, Lineage, Typed, OneOwner, CodeComesFirst, Numbered, Timed, Bound, Over,
         Guarded, Limited, History, Guards, Clientele, Retained, Within, Owned
<1>2. \A c \in Clients : st'.clients[c] <= epochs'
  OBVIOUS
<1>. QED BY <1>1, <1>2 DEF Steps, IInv

\* A client that registers owns nothing yet.
LEMMA Registering == ASSUME IInv, NEW c \in Clients, Register(c) PROVE Steps
<1>. DEFINE s == Clean(st)
            free == ~Registered(s, c) /\ Cardinality({d \in Clients : Registered(s, d)}) < MaxClients
<1>1. /\ Good(s, grants, ended, revoked) /\ now \in Nat /\ epochs \in Nat /\ s.clients = st.clients
      /\ s.refresh \subseteq st.refresh /\ MaxEpoch \in Nat
  BY Cleaned
<1>2. /\ epochs < MaxEpoch /\ st' = IF free THEN [s EXCEPT !.clients[c] = epochs + 1] ELSE s
      /\ epochs' = IF free THEN epochs + 1 ELSE epochs
      /\ flow' = flow /\ now' = now /\ grants' = grants /\ ended' = ended /\ revoked' = revoked
  BY DEF Register
<1>. HIDE DEF s
<1>3. CASE ~free
  <2>0. st' = s /\ epochs' = epochs
    BY <1>2, <1>3
  <2>1. Inherited(st, st')
    BY <1>1, <2>0, NoNewRefresh DEF IInv, Good
  <2>. QED BY <1>1, <1>2, <2>0, <2>1, Settle DEF IInv
<1>4. CASE free
  <2>0. s.clients[c] = 0 /\ Cardinality(Clientele(s)) < MaxClients
    BY <1>4 DEF Registered, Clientele
  <2>1. /\ DOMAIN st' = Tables /\ st'.clients = [s.clients EXCEPT ![c] = epochs + 1]
        /\ st'.codes = s.codes /\ st'.access = s.access /\ st'.refresh = s.refresh
        /\ st'.tombs = s.tombs
    BY <1>1, <1>2, <1>4 DEF Good, Lineage, Typed, Tables
  <2>2. epochs' = epochs + 1 /\ epochs' \in 0..MaxEpoch
    BY <1>1, <1>2, <1>4
  <2>. HIDE DEF free
  <2>3. \A x \in Retained(s) : x.client \in Clients /\ x.client # c
    <3>1. \A x \in s.codes \cup s.access \cup s.refresh : x.client \in Clients /\ x.epoch # 0
      BY <1>1 DEF Good, Lineage, Typed, CodeType, TokenType
    <3>2. \A x \in s.tombs : x.client \in Clients
      BY <1>1 DEF Good, Lineage, Typed, TombType
    <3>. QED BY <1>1, <2>0, <3>1, <3>2 DEF Good, Lineage, Bound, Retained
  <2>4. st'.clients \in [Clients -> Nat]
    BY <1>1, <2>1 DEF Good, Lineage, Typed
  <2>5. Retained(st') = Retained(s)
    BY <2>1 DEF Retained
  <2>6. Follows(s, st')
    <3>1. \A x \in Retained(st') : st'.clients[x.client] = s.clients[x.client]
      BY <1>1, <2>1, <2>3, <2>5 DEF Good, Lineage, Typed
    <3>. QED BY <1>1, <2>1, <2>4, <3>1 DEF Follows, Good, Lineage, Typed
  <2>7. Lineage(st', grants, ended, revoked)
    BY <1>1, <2>6, FollowsKeeps DEF Good
  <2>8. Guarded(st')
    BY <1>1, <2>1 DEF Good, Guarded, Guards
  <2>9. Limited(st')
    <3>1. Clientele(st') = Clientele(s) \cup {c}
      BY <1>1, <2>1 DEF Clientele, Good, Lineage, Typed
    <3>2. IsFiniteSet(Clientele(s)) /\ Cardinality(Clientele(s)) \in Nat
      BY <1>1, FS_CardinalityType DEF Good, Limited
    <3>3. /\ IsFiniteSet(Clientele(st'))
          /\ Cardinality(Clientele(st')) \in {Cardinality(Clientele(s)), Cardinality(Clientele(s)) + 1}
      BY <3>1, <3>2, FS_AddElement
    <3>4. Cardinality(Clientele(st')) <= MaxClients
      BY <2>0, <3>2, <3>3, LifeAssumption
    <3>. QED BY <1>1, <2>1, <3>3, <3>4 DEF Good, Limited
  <2>10. Good(st', grants, ended, revoked)
    BY <2>7, <2>8, <2>9 DEF Good
  <2>11. \A d \in Clients : st'.clients[d] <= epochs'
    <3>1. \A d \in Clients : s.clients[d] \in Nat /\ s.clients[d] <= epochs
      BY <1>1 DEF IInv, Good, Lineage, Typed
    <3>2. \A d \in Clients : st'.clients[d] = IF d = c THEN epochs + 1 ELSE s.clients[d]
      BY <1>1, <2>1 DEF Good, Lineage, Typed
    <3>. QED BY <1>1, <2>2, <3>1, <3>2
  <2>12. Inherited(st, st')
    <3>1. st'.refresh \subseteq st.refresh
      BY <1>1, <2>1
    <3>. QED BY <3>1, NoNewRefresh DEF IInv, Good
  <2>. QED BY <1>2, <2>2, <2>10, <2>11, <2>12, Settle DEF IInv
<1>. QED BY <1>3, <1>4

\* A client that leaves takes all it owned with it.
LEMMA Unregistering == ASSUME IInv, NEW c \in Clients, Unregister(c) PROVE Steps
<1>. DEFINE s == Clean(st)
            Others(S) == {x \in S : x.client # c}
<1>1. /\ Good(s, grants, ended, revoked) /\ now \in Nat /\ epochs \in Nat /\ s.clients = st.clients
      /\ s.refresh \subseteq st.refresh /\ MaxEpoch \in Nat
  BY Cleaned
<1>2. /\ st' = IF Registered(s, c)
              THEN [clients |-> [s.clients EXCEPT ![c] = 0], codes |-> Others(s.codes),
                    access |-> Others(s.access), refresh |-> Others(s.refresh),
                    tombs |-> Others(s.tombs)]
              ELSE s
      /\ flow' = flow /\ now' = now /\ grants' = grants /\ epochs' = epochs
      /\ ended' = ended /\ revoked' = revoked
  BY DEF Unregister
<1>. HIDE DEF s
<1>3. CASE ~Registered(s, c)
  <2>0. st' = s
    BY <1>2, <1>3
  <2>1. Inherited(st, st')
    BY <1>1, <2>0, NoNewRefresh DEF IInv, Good
  <2>. QED BY <1>1, <1>2, <2>0, <2>1, Settle DEF IInv
<1>4. CASE Registered(s, c)
  <2>1. /\ DOMAIN st' = Tables /\ st'.clients = [s.clients EXCEPT ![c] = 0]
        /\ st'.codes = Others(s.codes) /\ st'.access = Others(s.access)
        /\ st'.refresh = Others(s.refresh) /\ st'.tombs = Others(s.tombs)
    BY <1>2, <1>4 DEF Tables
  <2>2. st'.clients \in [Clients -> Nat]
        /\ \A d \in Clients : st'.clients[d] = IF d = c THEN 0 ELSE s.clients[d]
    BY <1>1, <2>1 DEF Good, Lineage, Typed
  <2>3. \A x \in Retained(st') : x.client \in Clients /\ x.client # c
    BY <1>1, <2>1 DEF Good, Lineage, Typed, Retained, CodeType, TokenType, TombType
  <2>4. IsFiniteSet(st'.tombs) /\ Within(st'.tombs, TombLimit)
    BY <1>1, <2>1, LimitsAreNumbers, FewerFit DEF Good, Lineage, Typed, Limited
  <2>5. Follows(s, st')
    <3>1. \A x \in Retained(st') : st'.clients[x.client] = s.clients[x.client]
      BY <2>2, <2>3
    <3>. QED BY <1>1, <2>1, <2>2, <2>4, <3>1 DEF Follows, Good, Lineage, Typed
  <2>6. Lineage(st', grants, ended, revoked)
    BY <1>1, <2>5, FollowsKeeps DEF Good
  <2>7. Limited(st')
    <3>1. Clientele(st') \subseteq Clientele(s)
      BY <2>2 DEF Clientele
    <3>. QED BY <1>1, <2>4, <2>5, <3>1, FollowsFits DEF Good, Lineage
  <2>8. ASSUME NEW r \in st'.refresh, NEW n \in 0..(r.nr - 1) PROVE Guards(st', r, n) # {}
    <3>1. r \in s.refresh /\ r.client # c
      BY <2>1
    <3>2. PICK x \in Guards(s, r, n) : TRUE
      BY <1>1, <3>1 DEF Good, Guarded
    <3>3. x \in Guards(st', r, n)
      BY <2>1, <3>1, <3>2 DEF Guards
    <3>. QED BY <3>3
  <2>9. Good(st', grants, ended, revoked)
    BY <2>6, <2>7, <2>8 DEF Good, Guarded
  <2>10. \A d \in Clients : st'.clients[d] <= epochs
    BY <1>1, <2>2 DEF IInv
  <2>11. Inherited(st, st')
    <3>1. st'.refresh \subseteq st.refresh
      BY <1>1, <2>1
    <3>. QED BY <3>1, NoNewRefresh DEF IInv, Good
  <2>. QED BY <1>2, <2>9, <2>10, <2>11, Settle DEF IInv
<1>. QED BY <1>3, <1>4

LEMMA Refusing == ASSUME IInv, NEW c \in Clients, RefusedRequest(c) PROVE Steps
<1>1. /\ Good(Clean(st), grants, ended, revoked) /\ Clean(st).clients = st.clients
      /\ Clean(st).refresh \subseteq st.refresh
  BY Cleaned
<1>2. Inherited(st, Clean(st))
  BY <1>1, NoNewRefresh DEF IInv, Good
<1>. QED BY <1>1, <1>2, Settle DEF RefusedRequest, IInv

LEMMA Ticking == ASSUME IInv, Tick PROVE Steps
<1>1. Inherited(st, st)
  BY NoNewRefresh DEF IInv, Good
<1>2. now' \in 0..MaxTime
  BY LifeAssumption DEF Tick, IInv
<1>. QED BY <1>1, <1>2, Settle DEF Tick, IInv

\* The same when only the requests before the approval backend change.
LEMMA Approving ==
  ASSUME IInv, NEW f \in Flows, NEW d, Asked(d), flow' = [flow EXCEPT ![f] = d],
         UNCHANGED <<st, now, grants, epochs, ended, revoked>>
  PROVE  Steps
<1>1. Inherited(st, st)
  BY NoNewRefresh DEF IInv, Good
<1>2. Good(st, grants, ended, revoked)' /\ History(grants, ended, revoked)'
  BY DEF IInv, Good, Lineage, Typed, OneOwner, CodeComesFirst, Numbered, Timed, Bound, Over,
         Guarded, Limited, History, Guards, Clientele, Retained, Within, Owned
<1>3. DOMAIN flow' = Flows /\ \A e \in Flows : Asked(flow'[e])
  BY DEF IInv
<1>. QED BY <1>1, <1>2, <1>3 DEF Steps, IInv

LEMMA Asking ==
  ASSUME IInv, NEW f \in Flows, NEW c \in Clients, NEW scopes \in SUBSET Scopes,
         AskApproval(f, c, scopes)
  PROVE  Steps
<1>1. Asked([client |-> c, epoch |-> st.clients[c], scopes |-> scopes])
  BY DEF Asked, AskApproval, Registered, IInv, Good, Lineage, Typed
<1>. QED BY <1>1, Approving DEF AskApproval

LEMMA Declining == ASSUME IInv, NEW f \in Flows, Decline(f) PROVE Steps
<1>1. Asked(NoFlow)
  BY DEF Asked
<1>. QED BY <1>1, Approving DEF Decline

\* An access token is numbered, so its revocation is of no other token.
LEMMA RevokingAccess ==
  ASSUME IInv, NEW c \in Clients, NEW g \in Nat, NEW n \in Nat, RevokeAccess(c, g, n)
  PROVE  Steps
<1>. DEFINE s == Clean(st)
            G(u, gone) == Good(u, grants, ended, gone)
<1>1. /\ G(s, revoked) /\ now \in Nat /\ s.clients = st.clients
      /\ s.refresh \subseteq st.refresh
  BY Cleaned
<1>2. PICK a \in Named(Owned(s.access, c), g, n) :
        \E T \in Insert(s.tombs, Tomb("access", a, FALSE, a.expires)) :
          st' = [s EXCEPT !.access = @ \ {a}, !.tombs = T]
  BY DEF RevokeAccess
<1>3. PICK T \in Insert(s.tombs, Tomb("access", a, FALSE, a.expires)) :
          st' = [s EXCEPT !.access = @ \ {a}, !.tombs = T]
  BY <1>2
<1>4. /\ flow' = flow /\ now' = now /\ grants' = grants /\ epochs' = epochs /\ ended' = ended
      /\ revoked' = revoked \cup {<<g, n>>}
  BY DEF RevokeAccess
<1>. HIDE DEF s
<1>5. a \in s.access /\ a.grant = g /\ a.nr = n /\ a.client = c
  BY <1>2 DEF Named, Owned
<1>6. a \in TokenType /\ a.expires \in Nat
  BY <1>1, <1>5 DEF Good, Lineage, Typed, TokenType
<1>. DEFINE t == Tomb("access", a, FALSE, a.expires)
<1>7. t \in TombType /\ t.grant = g /\ t.client = c
  BY <1>5, <1>6, TombTyped
<1>. HIDE DEF t
<1>8. MarkTable(s.tombs)
  BY <1>1 DEF MarkTable, Good, Lineage, Typed, Limited
<1>9. MarkTable(T) /\ Marking(s.tombs, T, {t})
  BY <1>3, <1>7, <1>8, InsertKeeps DEF t
<1>10. /\ DOMAIN st' = Tables /\ st'.clients = s.clients /\ st'.codes = s.codes
       /\ st'.access = s.access \ {a} /\ st'.refresh = s.refresh /\ st'.tombs = T
  BY <1>1, <1>3 DEF Good, Lineage, Typed, Tables
<1>11. Follows(s, st')
  <2>1. \A x \in T : \E y \in s.access \cup s.refresh \cup s.tombs :
                       y.grant = x.grant /\ y.client = x.client
    BY <1>5, <1>7, <1>9 DEF Marking
  <2>. QED BY <1>1, <1>9, <1>10, <2>1 DEF Follows, MarkTable, Good, Lineage, Typed
<1>12. Lineage(st', grants, ended, revoked)
  BY <1>1, <1>11, FollowsKeeps DEF Good
<1>13. Lineage(st', grants, ended, revoked')
  <2>1. \A k \in s.codes : k.grant # g
    BY <1>1, <1>5 DEF Good, Lineage, CodeComesFirst
  <2>2. CodeComesFirst(st', ended, revoked')
    BY <1>4, <1>10, <1>12, <2>1 DEF Lineage, CodeComesFirst
  <2>3. \A r \in s.refresh : r.grant = g => n <= r.nr
    BY <1>1, <1>5 DEF Good, Lineage, Numbered
  <2>4. Numbered(st', revoked')
    BY <1>4, <1>10, <1>12, <2>3 DEF Lineage, Numbered
  <2>5. \A b \in s.access : b.grant = g /\ b.nr = n => b = a
    BY <1>1, <1>5 DEF Good, Lineage, Numbered
  <2>6. \A b \in st'.access : <<b.grant, b.nr>> # <<g, n>>
    BY <1>10, <2>5
  <2>7. Over(st', ended, revoked')
    BY <1>4, <1>12, <2>6 DEF Lineage, Over
  <2>. QED BY <1>12, <2>2, <2>4, <2>7 DEF Lineage
<1>14. Limited(st')
  <2>1. Within(st'.tombs, TombLimit) /\ Clientele(st') = Clientele(s)
    BY <1>9, <1>10 DEF MarkTable, Clientele
  <2>. QED BY <1>1, <1>11, <2>1, FollowsFits DEF Good, Lineage
<1>15. ASSUME NEW r \in st'.refresh, NEW i \in 0..(r.nr - 1) PROVE Guards(st', r, i) # {}
  <2>1. PICK x \in Guards(s, r, i) : TRUE
    BY <1>1, <1>10 DEF Good, Guarded
  <2>2. x \in T
    BY <1>9, <2>1 DEF Marking, Guards
  <2>3. x \in Guards(st', r, i)
    BY <1>10, <2>1, <2>2 DEF Guards
  <2>. QED BY <2>3
<1>16. Good(st', grants, ended, revoked')
  BY <1>13, <1>14, <1>15 DEF Good, Guarded
<1>17. History(grants, ended, revoked')
  <2>1. g <= grants
    BY <1>1, <1>5 DEF Good, Lineage, OneOwner, Retained
  <2>2. <<g, n>> \in Nat \X Nat /\ <<g, n>>[1] = g
    OBVIOUS
  <2>. QED BY <1>4, <2>1, <2>2 DEF IInv, History
<1>18. Inherited(st, st')
  <2>1. st'.refresh \subseteq st.refresh
    BY <1>1, <1>10
  <2>. QED BY <2>1, NoNewRefresh DEF IInv, Good
<1>. QED BY <1>1, <1>4, <1>10, <1>16, <1>17, <1>18, Settle DEF IInv

\* A family is revoked by its client.
LEMMA Revoking ==
  ASSUME IInv, NEW c \in Clients, NEW g \in Nat, st' \in RevokeFamily(Clean(st), g, c),
         ended' = ended \cup {g}, UNCHANGED <<flow, now, grants, epochs, revoked>>,
         NEW w \in Clean(st).access \cup Clean(st).refresh \cup Clean(st).tombs,
         w.grant = g, w.client = c
  PROVE  Steps
<1>. DEFINE s == Clean(st)
<1>1. /\ Good(s, grants, ended, revoked) /\ grants \in Nat /\ s.clients = st.clients
      /\ s.refresh \subseteq st.refresh
  BY Cleaned
<1>2. st' \in RevokeFamily(s, g, c) /\ w \in s.access \cup s.refresh \cup s.tombs
  OBVIOUS
<1>. HIDE DEF s
<1>3. Revoked(s, st', g, c)
  BY <1>1, <1>2, RevokeFamilyRevokes DEF Good, Lineage, Limited
<1>4. Good(st', grants, ended \cup {g}, revoked)
  BY <1>1, <1>2, <1>3, RevokedIsOver
<1>5. g <= grants
  BY <1>1, <1>2 DEF Good, Lineage, OneOwner, Retained
<1>6. History(grants, ended \cup {g}, revoked)
  BY <1>5 DEF IInv, History
<1>7. st'.refresh \subseteq st.refresh /\ st'.clients = st.clients
  BY <1>1, <1>3 DEF Revoked
<1>8. Inherited(st, st')
  BY <1>7, NoNewRefresh DEF IInv, Good
<1>. QED BY <1>4, <1>6, <1>7, <1>8, Settle DEF IInv

LEMMA RevokingRefresh ==
  ASSUME IInv, NEW c \in Clients, NEW g \in Nat, NEW n, RevokeRefresh(c, g, n)
  PROVE  Steps
<1>1. PICK w \in Clean(st).refresh \cup Clean(st).tombs : w.grant = g /\ w.client = c
  BY DEF RevokeRefresh, Named, Owned, Marked
<1>. QED BY <1>1, Revoking DEF RevokeRefresh

\* A spent token has its guard, so presenting it again ends the family.
LEMMA Replaying ==
  ASSUME IInv, NEW c \in Clients, NEW g \in Nat, NEW n \in Nat, Replay(c, g, n)
  PROVE  Steps
<1>1. Marked(Clean(st), c, g, n)
  <2>. DEFINE s == Clean(st)
  <2>0. Guarded(s) /\ Typed(s)
    BY Cleaned DEF Good, Lineage
  <2>. HIDE DEF s
  <2>1. CASE Spent(s, c, g, n)
    <3>1. PICK r \in s.refresh : r.grant = g /\ r.client = c /\ r.nr > n
      BY <2>1 DEF Spent, Family
    <3>2. r.nr \in Nat /\ n \in 0..(r.nr - 1)
      BY <2>0, <3>1 DEF Typed, TokenType
    <3>3. PICK x \in Guards(s, r, n) : TRUE
      BY <2>0, <3>1, <3>2 DEF Guarded
    <3>4. x \in s.tombs /\ x.grant = g /\ x.nr = n /\ x.client = c /\ x.kind = "refresh"
      BY <3>1, <3>3 DEF Guards
    <3>5. Marked(s, c, g, n)
      BY <3>4 DEF Marked, Named, Owned
    <3>. QED BY <3>5 DEF s
  <2>. QED BY <2>1 DEF Replay, s
<1>2. PICK w \in Clean(st).tombs : w.grant = g /\ w.client = c
  BY <1>1 DEF Marked, Named, Owned
<1>3. st' \in RevokeFamily(Clean(st), g, c)
  BY <1>1 DEF Replay
<1>. QED BY <1>2, <1>3, Revoking DEF Replay

\* A code names a grant that nothing else names.
LEMMA Issuing == ASSUME IInv, NEW f \in Flows, IssueCode(f) PROVE Steps
<1>. DEFINE s == Clean(st)
            d == flow[f]
            free == s.clients[d.client] = d.epoch /\ HasRoom(s.codes, d.client, CodeLimit)
            k == NewCode(d)
<1>1. /\ Good(s, grants, ended, revoked) /\ now \in Nat /\ grants \in Nat /\ MaxGrants \in Nat
      /\ s.clients = st.clients /\ s.refresh \subseteq st.refresh
  BY Cleaned
<1>2. /\ d # NoFlow /\ grants < MaxGrants
      /\ st' = IF free THEN [s EXCEPT !.codes = @ \cup {k}] ELSE s
      /\ grants' = IF free THEN grants + 1 ELSE grants
      /\ flow' = [flow EXCEPT ![f] = NoFlow]
      /\ now' = now /\ epochs' = epochs /\ ended' = ended /\ revoked' = revoked
  BY DEF IssueCode
<1>. HIDE DEF s
<1>3. d \in [client : Clients, epoch : Nat \ {0}, scopes : SUBSET Scopes]
  BY <1>2 DEF IInv, Asked
<1>. HIDE DEF d
<1>4. DOMAIN flow' = Flows /\ \A e \in Flows : Asked(flow'[e])
  BY <1>2 DEF IInv, Asked
<1>5. Good(st', grants', ended, revoked) /\ History(grants', ended, revoked)
      /\ st'.clients = st.clients /\ st'.refresh \subseteq st.refresh /\ grants' \in 0..MaxGrants
  <2>1. CASE ~free
    <3>1. st' = s /\ grants' = grants
      BY <1>2, <2>1
    <3>. QED BY <1>1, <3>1 DEF IInv
  <2>2. CASE free
    <3>1. /\ DOMAIN st' = Tables /\ st'.clients = s.clients /\ st'.codes = s.codes \cup {k}
          /\ st'.access = s.access /\ st'.refresh = s.refresh /\ st'.tombs = s.tombs
          /\ grants' = grants + 1
      BY <1>1, <1>2, <2>2 DEF Good, Lineage, Typed, Tables
    <3>2. HasRoom(s.codes, d.client, CodeLimit) /\ s.clients[d.client] = d.epoch
      BY <2>2
    <3>. HIDE DEF free
    <3>3. k \in CodeType /\ k.grant = grants + 1 /\ k.client = d.client /\ k.epoch = d.epoch
      BY <1>1, <1>3, LifeAssumption DEF NewCode, CodeType
    <3>. HIDE DEF k
    <3>4. IsFiniteSet(st'.codes) /\ Within(st'.codes, CodeLimit)
      <4>1. HasRoom(s.codes, k.client, CodeLimit)
        BY <3>2, <3>3
      <4>2. CodeLimit.all \in Nat /\ CodeLimit.each \in Nat
        BY LimitsAreNumbers
      <4>3. IsFiniteSet(s.codes) /\ Within(s.codes, CodeLimit)
        BY <1>1 DEF Good, Lineage, Typed, Limited
      <4>. QED BY <3>1, <4>1, <4>2, <4>3, OneMoreFits
    <3>5. \A x \in Retained(s) : x.grant \in Nat /\ x.grant <= grants
      BY <1>1 DEF Good, Lineage, Typed, OneOwner, Retained, CodeType, TokenType, TombType
    <3>6. \A x \in Retained(s) : x.grant # k.grant /\ x.grant <= grants + 1
      BY <1>1, <3>3, <3>5
    <3>7. Typed(st')
      BY <1>1, <3>1, <3>3, <3>4 DEF Good, Lineage, Typed
    <3>8. OneOwner(st', grants')
      <4>1. Retained(st') = Retained(s) \cup {k}
        BY <3>1 DEF Retained
      <4>. QED BY <1>1, <3>1, <3>3, <3>6, <4>1 DEF Good, Lineage, OneOwner
    <3>9. CodeComesFirst(st', ended, revoked)
      <4>1. \A x \in s.codes \cup s.access \cup s.refresh \cup s.tombs : x.grant # k.grant
        BY <3>6 DEF Retained
      <4>2. k.grant \notin ended /\ \A p \in revoked : p[1] # k.grant
        BY <1>1, <3>3 DEF IInv, History
      <4>. QED BY <1>1, <3>1, <4>1, <4>2 DEF Good, Lineage, CodeComesFirst
    <3>10. Numbered(st', revoked) /\ Timed(st') /\ Over(st', ended, revoked)
      BY <1>1, <3>1 DEF Good, Lineage, Numbered, Timed, Over
    <3>11. Bound(st')
      BY <1>1, <3>1, <3>2, <3>3 DEF Good, Lineage, Bound
    <3>12. Guarded(st') /\ Limited(st')
      BY <1>1, <3>1, <3>4 DEF Good, Guarded, Guards, Limited, Clientele
    <3>13. Good(st', grants', ended, revoked)
      BY <3>7, <3>8, <3>9, <3>10, <3>11, <3>12 DEF Good, Lineage
    <3>14. History(grants', ended, revoked)
      BY <1>1, <3>1 DEF IInv, History
    <3>15. grants' \in 0..MaxGrants
      BY <1>1, <1>2, <3>1
    <3>. QED BY <1>1, <3>1, <3>13, <3>14, <3>15
  <2>. QED BY <2>1, <2>2
<1>6. Good(st, grants, ended, revoked)' /\ History(grants, ended, revoked)'
  BY <1>2, <1>5
     DEF Good, Lineage, Typed, OneOwner, CodeComesFirst, Numbered, Timed, Bound, Over,
         Guarded, Limited, History, Guards, Clientele, Retained, Within, Owned
<1>7. Inherited(st, st')
  BY <1>5, NoNewRefresh DEF IInv, Good
<1>. QED BY <1>2, <1>4, <1>5, <1>6, <1>7 DEF Steps, IInv

\* The fields of a pair numbered n.
IsRefresh(q, x, n, scopes, family) ==
  /\ q \in TokenType /\ q.grant = x.grant /\ q.nr = n /\ q.client = x.client /\ q.epoch = x.epoch
  /\ q.expires = family /\ q.family = family /\ q.scopes = scopes
IsAccess(a, x, n, family) ==
  /\ a \in TokenType /\ a.grant = x.grant /\ a.nr = n /\ a.client = x.client /\ a.epoch = x.epoch
  /\ a.family = family /\ a.expires <= family

LEMMA PairFields ==
  ASSUME NEW x, x \in CodeType \/ x \in TokenType, NEW n \in Nat, NEW scopes \in SUBSET Scopes,
         NEW issued \in Nat, NEW family \in Nat
  PROVE  /\ IsRefresh(RefreshToken(x, n, scopes, family), x, n, scopes, family)
         /\ IsAccess(AccessToken(x, n, scopes, issued, family), x, n, family)
<1>1. ASSUME NEW e \in Nat
      PROVE  /\ IsRefresh(Token(x, n, scopes, family, family), x, n, scopes, family)
             /\ e <= family => IsAccess(Token(x, n, scopes, e, family), x, n, family)
  BY DEF Token, TokenType, CodeType, IsRefresh, IsAccess
<1>. DEFINE e == IF issued + AccessLife < family THEN issued + AccessLife ELSE family
<1>2. e \in Nat /\ e <= family
  BY LifeAssumption
<1>. HIDE DEF e
<1>3. AccessToken(x, n, scopes, issued, family) = Token(x, n, scopes, e, family)
  BY DEF AccessToken, e
<1>. QED BY <1>1, <1>2, <1>3 DEF RefreshToken

\* token_authorization_code: the code becomes the first pair of its family.
LEMMA Redeeming ==
  ASSUME IInv, NEW c \in Clients, NEW g \in Nat, Redeem(c, g) PROVE Steps
<1>. DEFINE s == Clean(st)
<1>1. /\ Good(s, grants, ended, revoked) /\ now \in Nat /\ grants \in Nat /\ MaxTime \in Nat
      /\ s.clients = st.clients /\ s.refresh \subseteq st.refresh /\ s.codes \subseteq st.codes
  BY Cleaned
<1>2. PICK k \in Family(s.codes, g, c), issued \in IssueTimes :
        /\ k.epoch = s.clients[c] /\ k.expires > issued
        /\ HasRoom(s.access, c, AccessLimit) /\ HasRoom(s.refresh, c, RefreshLimit)
        /\ st' = [s EXCEPT
             !.codes = @ \ {k},
             !.access = @ \cup {AccessToken(k, 0, k.scopes, issued, issued + RefreshLife)},
             !.refresh = @ \cup {RefreshToken(k, 0, k.scopes, issued + RefreshLife)}]
        /\ now' = issued
  BY DEF Redeem
<1>3. flow' = flow /\ grants' = grants /\ epochs' = epochs /\ ended' = ended /\ revoked' = revoked
  BY DEF Redeem
<1>. HIDE DEF s
<1>. DEFINE a == AccessToken(k, 0, k.scopes, issued, issued + RefreshLife)
            q == RefreshToken(k, 0, k.scopes, issued + RefreshLife)
<1>4. k \in s.codes /\ k.grant = g /\ k.client = c /\ k \in CodeType /\ k.scopes \in SUBSET Scopes
  BY <1>1, <1>2 DEF Family, Good, Lineage, Typed, CodeType
<1>5. issued \in Nat /\ issued <= MaxTime /\ issued + RefreshLife \in Nat
  BY <1>1, LifeAssumption DEF IssueTimes
<1>6. /\ a \in TokenType /\ a.grant = g /\ a.nr = 0 /\ a.client = c /\ a.epoch = k.epoch
      /\ a.expires <= a.family
      /\ q \in TokenType /\ q.grant = g /\ q.nr = 0 /\ q.client = c /\ q.epoch = k.epoch
      /\ q.expires = q.family
  <2>1. IsRefresh(q, k, 0, k.scopes, issued + RefreshLife) /\ IsAccess(a, k, 0, issued + RefreshLife)
    BY <1>4, <1>5, PairFields
  <2>. HIDE DEF a, q
  <2>. QED BY <1>4, <2>1 DEF IsRefresh, IsAccess
<1>7. /\ DOMAIN st' = Tables /\ st'.clients = s.clients /\ st'.codes = s.codes \ {k}
      /\ st'.access = s.access \cup {a} /\ st'.refresh = s.refresh \cup {q}
      /\ st'.tombs = s.tombs
  BY <1>1, <1>2 DEF Good, Lineage, Typed, Tables
<1>. HIDE DEF a, q
<1>8. /\ \A x \in s.access \cup s.refresh \cup s.tombs : x.grant # g
      /\ g \notin ended /\ \A p \in revoked : p[1] # g
      /\ \A j \in s.codes \ {k} : j.grant # g
  BY <1>1, <1>4 DEF Good, Lineage, CodeComesFirst
<1>9. IsFiniteSet(st'.access) /\ Within(st'.access, AccessLimit)
  <2>1. HasRoom(s.access, a.client, AccessLimit)
    BY <1>2, <1>6
  <2>2. AccessLimit.all \in Nat /\ AccessLimit.each \in Nat
    BY LimitsAreNumbers
  <2>3. IsFiniteSet(s.access) /\ Within(s.access, AccessLimit)
    BY <1>1 DEF Good, Lineage, Typed, Limited
  <2>4. IsFiniteSet(s.access \cup {a}) /\ Within(s.access \cup {a}, AccessLimit)
    BY <2>1, <2>2, <2>3, OneMoreFits
  <2>. QED BY <1>7, <2>4
<1>10. IsFiniteSet(st'.refresh) /\ Within(st'.refresh, RefreshLimit)
  <2>1. HasRoom(s.refresh, q.client, RefreshLimit)
    BY <1>2, <1>6
  <2>2. RefreshLimit.all \in Nat /\ RefreshLimit.each \in Nat
    BY LimitsAreNumbers
  <2>3. IsFiniteSet(s.refresh) /\ Within(s.refresh, RefreshLimit)
    BY <1>1 DEF Good, Lineage, Typed, Limited
  <2>4. IsFiniteSet(s.refresh \cup {q}) /\ Within(s.refresh \cup {q}, RefreshLimit)
    BY <2>1, <2>2, <2>3, OneMoreFits
  <2>. QED BY <1>7, <2>4
<1>11. IsFiniteSet(st'.codes) /\ Within(st'.codes, CodeLimit)
  BY <1>1, <1>7, FewerFit, LimitsAreNumbers DEF Good, Lineage, Typed, Limited
<1>12. Typed(st')
  BY <1>1, <1>6, <1>7, <1>9, <1>10, <1>11 DEF Good, Lineage, Typed
<1>13. OneOwner(st', grants)
  <2>1. \A x \in Retained(st') : x \in Retained(s) \/ x = a \/ x = q
    BY <1>7 DEF Retained
  <2>2. k \in Retained(s)
    BY <1>4 DEF Retained
  <2>3. a.grant = k.grant /\ a.client = k.client /\ q.grant = k.grant /\ q.client = k.client
    BY <1>4, <1>6
  <2>. QED BY <1>1, <2>1, <2>2, <2>3 DEF Good, Lineage, OneOwner
<1>14. CodeComesFirst(st', ended, revoked)
  BY <1>1, <1>6, <1>7, <1>8 DEF Good, Lineage, CodeComesFirst
<1>15. Numbered(st', revoked)
  BY <1>1, <1>6, <1>7, <1>8 DEF Good, Lineage, Numbered
<1>16. Timed(st') /\ Bound(st')
  BY <1>1, <1>2, <1>6, <1>7 DEF Good, Lineage, Timed, Bound
<1>17. Over(st', ended, revoked)
  <2>1. \A p \in revoked : p # <<a.grant, a.nr>>
    BY <1>6, <1>8
  <2>. QED BY <1>1, <1>6, <1>7, <1>8, <2>1 DEF Good, Lineage, Over
<1>18. Guarded(st')
  <2>1. ASSUME NEW r \in st'.refresh, NEW i \in 0..(r.nr - 1) PROVE Guards(st', r, i) # {}
    <3>1. r # q
      BY <1>6
    <3>. QED BY <1>1, <1>7, <3>1 DEF Good, Guarded, Guards
  <2>. QED BY <2>1 DEF Guarded
<1>19. Limited(st')
  BY <1>1, <1>7, <1>9, <1>10, <1>11 DEF Good, Limited, Clientele
<1>20. Good(st', grants, ended, revoked)
  BY <1>12, <1>13, <1>14, <1>15, <1>16, <1>17, <1>18, <1>19 DEF Good, Lineage
<1>21. Inherited(st, st')
  <2>1. \A x \in st.refresh : x.grant # g
    BY <1>1, <1>4 DEF IInv, Good, Lineage, CodeComesFirst
  <2>2. \A r, x \in st.refresh : r.grant = x.grant => r = x
    BY DEF IInv, Good, Lineage, Numbered
  <2>. QED BY <1>1, <1>6, <1>7, <2>1, <2>2 DEF Inherited
<1>22. now' \in 0..MaxTime
  BY <1>1, <1>2, <1>5
<1>. QED BY <1>1, <1>3, <1>7, <1>20, <1>21, <1>22, Settle DEF IInv

-----------------------------------------------------------------------------
(* Rotation. *)

\* align_replay_guards_with_family_deadline: the guards of the family (g, c) last until d.
Align(x, g, c, d) ==
  IF x.guard /\ x.grant = g /\ x.client = c THEN [x EXCEPT !.expires = d] ELSE x
Aligned(T, g, c, d) == {Align(x, g, c, d) : x \in T}

LEMMA AlignFields ==
  ASSUME NEW x \in TombType, NEW g, NEW c, NEW d \in Nat
  PROVE  LET y == Align(x, g, c, d)
         IN /\ y \in TombType /\ y.grant = x.grant /\ y.client = x.client /\ y.nr = x.nr
            /\ y.kind = x.kind /\ y.guard = x.guard
            /\ (~x.guard \/ x.grant # g \/ x.client # c) => y = x
            /\ (x.guard /\ x.grant = g /\ x.client = c) => y.expires = d
<1>1. CASE x.guard /\ x.grant = g /\ x.client = c
  <2>1. Align(x, g, c, d) = [x EXCEPT !.expires = d]
    BY <1>1 DEF Align
  <2>. QED BY <1>1, <2>1 DEF TombType
<1>2. CASE ~(x.guard /\ x.grant = g /\ x.client = c)
  <2>1. Align(x, g, c, d) = x
    BY <1>2 DEF Align
  <2>. QED BY <1>2, <2>1
<1>. QED BY <1>1, <1>2

\* The aligned image of a finite table is no larger.
LEMMA AlignedSize ==
  ASSUME NEW T, IsFiniteSet(T), NEW g, NEW c, NEW d
  PROVE  /\ IsFiniteSet(Aligned(T, g, c, d)) /\ Cardinality(T) \in Nat
         /\ Cardinality(Aligned(T, g, c, d)) \in Nat
         /\ Cardinality(Aligned(T, g, c, d)) <= Cardinality(T)
<1>. DEFINE A == Aligned(T, g, c, d)
            F == [x \in T |-> Align(x, g, c, d)]
<1>1. F \in Surjection(T, A)
  BY DEF Surjection, Aligned
<1>. HIDE DEF F, A
<1>2. IsFiniteSet(A) /\ Cardinality(A) <= Cardinality(T)
  BY <1>1, FS_Surjection
<1>3. Cardinality(A) \in Nat /\ Cardinality(T) \in Nat
  BY <1>2, FS_CardinalityType
<1>. QED BY <1>2, <1>3 DEF A

LEMMA AlignedOwned ==
  ASSUME NEW T \in SUBSET TombType, NEW g, NEW c, NEW d \in Nat, NEW e
  PROVE  Owned(Aligned(T, g, c, d), e) = Aligned(Owned(T, e), g, c, d)
<1>1. \A x \in T : Align(x, g, c, d).client = x.client
  BY AlignFields
<1>. QED BY <1>1 DEF Owned, Aligned

\* Aligning the guards needs no room and leaves the room there is.
LEMMA AlignedKeeps ==
  ASSUME NEW T, MarkTable(T), NEW g, NEW c, NEW d \in Nat
  PROVE  MarkTable(Aligned(T, g, c, d)) /\ \A e : GuardRoom(T, e) => GuardRoom(Aligned(T, g, c, d), e)
<1>. DEFINE A == Aligned(T, g, c, d)
<1>0. TombLimit.all \in Nat /\ TombLimit.each \in Nat /\ T \subseteq TombType /\ IsFiniteSet(T)
  BY LimitsAreNumbers DEF MarkTable
<1>1. /\ IsFiniteSet(A) /\ Cardinality(A) \in Nat /\ Cardinality(T) \in Nat
      /\ Cardinality(A) <= Cardinality(T)
  BY <1>0, AlignedSize
<1>2. ASSUME NEW e
      PROVE  /\ Cardinality(Owned(A, e)) \in Nat /\ Cardinality(Owned(T, e)) \in Nat
             /\ Cardinality(Owned(A, e)) <= Cardinality(Owned(T, e))
  <2>1. Owned(A, e) = Aligned(Owned(T, e), g, c, d)
    BY <1>0, AlignedOwned
  <2>2. IsFiniteSet(Owned(T, e))
    BY <1>0, OwnedSizes
  <2>. QED BY <2>1, <2>2, AlignedSize
<1>3. A \subseteq TombType
  BY <1>0, AlignFields DEF Aligned
<1>4. \A x \in T : ~x.guard => x \in A
  <2>1. \A x \in T : ~x.guard => Align(x, g, c, d) = x
    BY DEF Align
  <2>. QED BY <2>1 DEF Aligned
<1>. HIDE DEF A
<1>5. Within(A, TombLimit)
  <2>1. Cardinality(A) <= TombLimit.all
    BY <1>0, <1>1 DEF MarkTable, Within
  <2>2. ASSUME NEW e \in Clients PROVE Cardinality(Owned(A, e)) <= TombLimit.each
    BY <1>0, <1>2 DEF MarkTable, Within
  <2>. QED BY <2>1, <2>2 DEF Within
<1>6. ASSUME NEW e, GuardRoom(T, e) PROVE GuardRoom(A, e)
  <2>1. ASSUME Cardinality(Owned(A, e)) >= TombLimit.each PROVE \E x \in Owned(A, e) : ~x.guard
    <3>1. Cardinality(Owned(T, e)) >= TombLimit.each
      BY <1>0, <1>2, <2>1
    <3>2. PICK x \in Owned(T, e) : ~x.guard
      BY <1>6, <3>1 DEF GuardRoom
    <3>. QED BY <1>4, <3>2 DEF Owned
  <2>2. ASSUME Cardinality(A) >= TombLimit.all PROVE \E x \in A : ~x.guard
    <3>1. Cardinality(T) >= TombLimit.all
      BY <1>0, <1>1, <2>2
    <3>2. PICK x \in T : ~x.guard
      BY <1>6, <3>1 DEF GuardRoom
    <3>. QED BY <1>4, <3>2
  <2>. QED BY <2>1, <2>2 DEF GuardRoom
<1>7. MarkTable(A) /\ \A e : GuardRoom(T, e) => GuardRoom(A, e)
  BY <1>1, <1>3, <1>5, <1>6 DEF MarkTable
<1>. QED BY <1>7 DEF A

\* token_refresh_token: the token that is consumed gets a guard, the guards of
\* the family last as long as the replacement, and no guard is evicted.
LEMMA Rotating ==
  ASSUME IInv, NEW c \in Clients, NEW g \in Nat, NEW n \in Nat, NEW scopes \in SUBSET Scopes,
         Rotate(c, g, n, scopes)
  PROVE  Steps
<1>. DEFINE s == Clean(st)
<1>1. /\ Good(s, grants, ended, revoked) /\ now \in Nat /\ grants \in Nat /\ MaxTime \in Nat
      /\ s.clients = st.clients /\ s.refresh \subseteq st.refresh
  BY Cleaned
<1>2. PICK r \in Named(s.refresh, g, n), issued \in IssueTimes :
        /\ r.client = c /\ r.epoch = s.clients[c] /\ scopes \subseteq r.scopes
        /\ HasRoom(s.access, c, AccessLimit) /\ GuardRoom(s.tombs, c)
        /\ r.family > issued
        /\ \E T \in Insert({IF x.guard /\ x.grant = g /\ x.client = c
                            THEN [x EXCEPT !.expires = r.family] ELSE x : x \in s.tombs},
                           Tomb("refresh", r, TRUE, r.family)) :
             st' = [s EXCEPT
               !.tombs = T,
               !.access = @ \cup {AccessToken(r, n + 1, scopes, issued, r.family)},
               !.refresh = (@ \ {r}) \cup {RefreshToken(r, n + 1, scopes, r.family)}]
        /\ now' = issued
  BY DEF Rotate, FamilyDeadline
<1>3. flow' = flow /\ grants' = grants /\ epochs' = epochs /\ ended' = ended /\ revoked' = revoked
  BY DEF Rotate
<1>. HIDE DEF s
<1>. DEFINE d == r.family
            A == Aligned(s.tombs, g, c, d)
            t == Tomb("refresh", r, TRUE, d)
            a == AccessToken(r, n + 1, scopes, issued, d)
            q == RefreshToken(r, n + 1, scopes, d)
<1>4. PICK T \in Insert(A, t) :
        st' = [s EXCEPT !.tombs = T, !.access = @ \cup {a}, !.refresh = (@ \ {r}) \cup {q}]
  BY <1>2 DEF Aligned, Align
<1>5. /\ r \in s.refresh /\ r.grant = g /\ r.nr = n /\ r.client = c /\ r \in TokenType
      /\ d \in Nat /\ r.expires = d /\ r.nr \in Nat
  BY <1>1, <1>2 DEF Named, Good, Lineage, Typed, Timed, TokenType
<1>6. issued \in Nat /\ issued <= MaxTime /\ now <= issued /\ n + 1 \in Nat
  BY <1>1 DEF IssueTimes
<1>7. IsRefresh(q, r, n + 1, scopes, d) /\ IsAccess(a, r, n + 1, d)
  BY <1>5, <1>6, PairFields
<1>8. /\ t \in TombType /\ t.grant = g /\ t.nr = n /\ t.client = c /\ t.kind = "refresh" /\ t.guard
      /\ t.expires = d
  BY <1>5 DEF Tomb, TombType
<1>9. /\ DOMAIN st' = Tables /\ st'.clients = s.clients /\ st'.codes = s.codes
      /\ st'.access = s.access \cup {a} /\ st'.refresh = (s.refresh \ {r}) \cup {q}
      /\ st'.tombs = T
  BY <1>1, <1>4 DEF Good, Lineage, Typed, Tables
<1>. HIDE DEF a, q, t
<1>10. /\ a \in TokenType /\ a.grant = g /\ a.nr = n + 1 /\ a.client = c /\ a.epoch = r.epoch
       /\ a.expires <= a.family
       /\ q \in TokenType /\ q.grant = g /\ q.nr = n + 1 /\ q.client = c /\ q.epoch = r.epoch
       /\ q.expires = d /\ q.family = d /\ q.scopes = scopes
  BY <1>5, <1>7 DEF IsRefresh, IsAccess
<1>11. MarkTable(s.tombs) /\ s.tombs \subseteq TombType
  BY <1>1 DEF MarkTable, Good, Lineage, Typed, Limited
<1>12. MarkTable(A) /\ GuardRoom(A, t.client)
  BY <1>2, <1>5, <1>8, <1>11, AlignedKeeps
<1>13. MarkTable(T) /\ Marking(A, T, {t}) /\ t \in T
  <2>1. t.expires > now
    BY <1>1, <1>2, <1>5, <1>6, <1>8
  <2>2. T \in Insert(A, t)
    BY <1>4
  <2>. HIDE DEF A
  <2>. QED BY <1>1, <1>8, <1>12, <2>1, <2>2, InsertKeeps
<1>14. ASSUME NEW x \in A
       PROVE  \E y \in s.tombs : y.grant = x.grant /\ y.client = x.client
  <2>1. PICK y \in s.tombs : x = Align(y, g, c, d)
    BY DEF Aligned
  <2>. QED BY <1>5, <1>11, <2>1, AlignFields
<1>15. \A x \in s.tombs : Align(x, g, c, d) \in A
  BY DEF Aligned
<1>. HIDE DEF A, d
\* What is retained descends from what was.
<1>16. \A x \in T : \E y \in s.refresh \cup s.tombs : y.grant = x.grant /\ y.client = x.client
  BY <1>5, <1>8, <1>13, <1>14 DEF Marking
<1>17. \A x \in st'.access \cup st'.refresh \cup st'.tombs :
         \E y \in s.access \cup s.refresh \cup s.tombs : y.grant = x.grant /\ y.client = x.client
  <2>1. r \in s.access \cup s.refresh \cup s.tombs /\ r.grant = a.grant /\ r.client = a.client
        /\ r.grant = q.grant /\ r.client = q.client
    BY <1>5, <1>10
  <2>2. ASSUME NEW x \in st'.access \cup st'.refresh \cup st'.tombs
        PROVE  \/ x = a \/ x = q
               \/ \E y \in s.access \cup s.refresh \cup s.tombs : y.grant = x.grant /\ y.client = x.client
    <3>1. CASE x \in s.access \cup s.refresh
      BY <3>1
    <3>2. CASE x \in T
      BY <1>16, <3>2
    <3>. QED BY <1>9, <3>1, <3>2
  <2>. QED BY <2>1, <2>2
<1>18. IsFiniteSet(st'.access) /\ Within(st'.access, AccessLimit)
  <2>1. HasRoom(s.access, a.client, AccessLimit)
    BY <1>2, <1>10
  <2>2. AccessLimit.all \in Nat /\ AccessLimit.each \in Nat
    BY LimitsAreNumbers
  <2>3. IsFiniteSet(s.access) /\ Within(s.access, AccessLimit)
    BY <1>1 DEF Good, Lineage, Typed, Limited
  <2>4. IsFiniteSet(s.access \cup {a}) /\ Within(s.access \cup {a}, AccessLimit)
    BY <2>1, <2>2, <2>3, OneMoreFits
  <2>. QED BY <1>9, <2>4
<1>19. IsFiniteSet(st'.refresh) /\ Within(st'.refresh, RefreshLimit)
  <2>1. q.client = r.client /\ r.client \in Clients
    BY <1>5, <1>10
  <2>2. RefreshLimit.all \in Nat /\ RefreshLimit.each \in Nat
    BY LimitsAreNumbers
  <2>3. IsFiniteSet(s.refresh) /\ Within(s.refresh, RefreshLimit)
    BY <1>1 DEF Good, Lineage, Typed, Limited
  <2>4. IsFiniteSet((s.refresh \ {r}) \cup {q}) /\ Within((s.refresh \ {r}) \cup {q}, RefreshLimit)
    BY <1>5, <2>1, <2>2, <2>3, SwapFits
  <2>. QED BY <1>9, <2>4
<1>20. Typed(st')
  BY <1>1, <1>9, <1>10, <1>13, <1>18, <1>19 DEF Good, Lineage, Typed, MarkTable
<1>21. OneOwner(st', grants)
  <2>1. \A x \in Retained(st') : \E y \in Retained(s) : y.grant = x.grant /\ y.client = x.client
    BY <1>9, <1>17 DEF Retained
  <2>2. \A x \in Retained(st') : x.grant <= grants
    BY <1>1, <2>1 DEF Good, Lineage, OneOwner
  <2>3. ASSUME NEW x \in Retained(st'), NEW y \in Retained(st'), x.grant = y.grant
        PROVE  x.client = y.client
    <3>1. PICK v \in Retained(s) : v.grant = x.grant /\ v.client = x.client
      BY <2>1
    <3>2. PICK w \in Retained(s) : w.grant = y.grant /\ w.client = y.client
      BY <2>1
    <3>. QED BY <1>1, <2>3, <3>1, <3>2 DEF Good, Lineage, OneOwner
  <2>. QED BY <2>2, <2>3 DEF OneOwner
<1>22. CodeComesFirst(st', ended, revoked)
  <2>1. \A k \in st'.codes : \A x \in st'.access \cup st'.refresh \cup st'.tombs : x.grant # k.grant
    BY <1>1, <1>9, <1>17 DEF Good, Lineage, CodeComesFirst
  <2>. QED BY <1>1, <1>9, <2>1 DEF Good, Lineage, CodeComesFirst
<1>23. /\ \A x \in s.refresh \ {r} : x.grant # g
       /\ \A x \in s.access : x.grant = g => x.nr \in Nat /\ x.nr <= n
       /\ \A p \in revoked : p[1] = g => p[2] \in Nat /\ p[2] <= n
  <2>1. \A x \in s.access : x.nr \in Nat
    BY <1>1 DEF Good, Lineage, Typed, TokenType
  <2>2. \A p \in revoked : p[2] \in Nat
    BY DEF IInv, History
  <2>. QED BY <1>1, <1>5, <2>1, <2>2 DEF Good, Lineage, Numbered
<1>24. Numbered(st', revoked)
  <2>1. \A x, y \in st'.refresh : x.grant = y.grant => x = y
    BY <1>1, <1>9, <1>10, <1>23 DEF Good, Lineage, Numbered
  <2>2. \A x \in st'.access, y \in st'.refresh : x.grant = y.grant => x.nr <= y.nr
    <3>1. \A x \in s.access : x.grant = g => x.nr <= n + 1
      BY <1>23
    <3>. QED BY <1>1, <1>9, <1>10, <1>23, <3>1 DEF Good, Lineage, Numbered
  <2>3. \A x, y \in st'.access : x.grant = y.grant /\ x.nr = y.nr => x = y
    <3>1. \A x \in s.access : x.grant = g => x.nr # n + 1
      BY <1>23
    <3>. QED BY <1>1, <1>9, <1>10, <3>1 DEF Good, Lineage, Numbered
  <2>4. \A p \in revoked, y \in st'.refresh : p[1] = y.grant => p[2] <= y.nr
    <3>1. \A p \in revoked : p[1] = g => p[2] <= n + 1
      BY <1>23
    <3>. QED BY <1>1, <1>9, <1>10, <3>1 DEF Good, Lineage, Numbered
  <2>. QED BY <2>1, <2>2, <2>3, <2>4 DEF Numbered
<1>25. Timed(st')
  BY <1>1, <1>9, <1>10 DEF Good, Lineage, Timed
<1>26. Bound(st')
  <2>1. \A x \in st'.codes \cup st'.access \cup st'.refresh : x.epoch = st'.clients[x.client]
    BY <1>1, <1>2, <1>9, <1>10 DEF Good, Lineage, Bound
  <2>2. ASSUME NEW x \in T PROVE s.clients[x.client] # 0
    <3>1. PICK y \in s.refresh \cup s.tombs : y.client = x.client
      BY <1>16
    <3>2. s.clients[y.client] # 0
      BY <1>1 DEF Good, Lineage, Typed, Bound, TokenType
    <3>. QED BY <3>1, <3>2
  <2>. QED BY <1>9, <2>1, <2>2 DEF Bound
<1>27. Over(st', ended, revoked)
  <2>1. g \notin ended
    BY <1>1, <1>5 DEF Good, Lineage, Over
  <2>2. \A p \in revoked : p # <<g, n + 1>>
    BY <1>23
  <2>. QED BY <1>1, <1>9, <1>10, <2>1, <2>2 DEF Good, Lineage, Over
<1>28. ASSUME NEW x \in st'.refresh, NEW i \in 0..(x.nr - 1) PROVE Guards(st', x, i) # {}
  <2>1. CASE x = q /\ i = n
    <3>1. t \in Guards(st', q, n)
      BY <1>5, <1>8, <1>9, <1>10, <1>13 DEF Guards
    <3>. QED BY <2>1, <3>1
  <2>2. CASE x = q /\ i # n
    <3>1. i \in 0..(r.nr - 1)
      BY <1>5, <1>10, <2>2
    <3>2. PICK y \in Guards(s, r, i) : TRUE
      BY <1>1, <1>5, <3>1 DEF Good, Guarded
    <3>3. /\ y \in s.tombs /\ y.guard /\ y.grant = g /\ y.client = c /\ y.nr = i /\ y.kind = "refresh"
          /\ y \in TombType
      BY <1>5, <1>11, <3>2 DEF Guards
    <3>. DEFINE z == Align(y, g, c, d)
    <3>4. /\ z.grant = g /\ z.client = c /\ z.nr = i /\ z.kind = "refresh" /\ z.guard
          /\ z.expires = d
      BY <1>5, <3>3, AlignFields
    <3>5. z \in T
      <4>1. z \in A
        BY <1>15, <3>3
      <4>. HIDE DEF z
      <4>. QED BY <1>13, <3>4, <4>1 DEF Marking
    <3>. HIDE DEF z
    <3>6. z \in Guards(st', q, i)
      BY <1>5, <1>9, <1>10, <3>4, <3>5 DEF Guards
    <3>. QED BY <2>2, <3>6
  <2>3. CASE x # q
    <3>1. x \in s.refresh /\ x.grant # g
      BY <1>9, <1>23, <2>3
    <3>2. PICK y \in Guards(s, x, i) : TRUE
      BY <1>1, <3>1 DEF Good, Guarded
    <3>3. y \in s.tombs /\ y.guard /\ y.grant # g
      BY <3>1, <3>2 DEF Guards
    <3>4. Align(y, g, c, d) = y
      BY <3>3 DEF Align
    <3>5. y \in T
      BY <1>13, <1>15, <3>3, <3>4 DEF Marking
    <3>6. y \in Guards(st', x, i)
      BY <1>9, <3>2, <3>5 DEF Guards
    <3>. QED BY <3>6
  <2>. QED BY <2>1, <2>2, <2>3
<1>29. Guarded(st')
  BY <1>28 DEF Guarded
<1>30. Limited(st')
  BY <1>1, <1>9, <1>13, <1>18, <1>19 DEF Good, Limited, Clientele, MarkTable
<1>31. Good(st', grants, ended, revoked)
  BY <1>20, <1>21, <1>22, <1>24, <1>25, <1>26, <1>27, <1>29, <1>30 DEF Good, Lineage
<1>32. Inherited(st, st')
  <2>1. \A x, y \in st.refresh : x.grant = y.grant => x = y
    BY DEF IInv, Good, Lineage, Numbered
  <2>2. r \in st.refresh /\ q.expires = r.expires /\ q.scopes \subseteq r.scopes /\ q.grant = r.grant
    BY <1>1, <1>2, <1>5, <1>10
  <2>. QED BY <1>1, <1>9, <2>1, <2>2 DEF Inherited
<1>33. now' \in 0..MaxTime
  BY <1>1, <1>2, <1>6
<1>. QED BY <1>1, <1>3, <1>9, <1>31, <1>32, <1>33, Settle DEF IInv

-----------------------------------------------------------------------------
(* The theorems. *)

LEMMA Initially == Init => IInv
<1>. SUFFICES ASSUME Init PROVE IInv
  OBVIOUS
<1>1. /\ DOMAIN st = Tables /\ st.clients = [c \in Clients |-> 0] /\ st.codes = {}
      /\ st.access = {} /\ st.refresh = {} /\ st.tombs = {}
      /\ flow = [f \in Flows |-> NoFlow] /\ now = 0 /\ grants = 0 /\ epochs = 0
      /\ ended = {} /\ revoked = {}
  BY DEF Init, Tables
<1>2. Lineage(st, grants, ended, revoked) /\ Guarded(st)
  BY <1>1, FS_EmptySet
     DEF Lineage, Typed, OneOwner, CodeComesFirst, Numbered, Timed, Bound, Over, Retained, Guarded
<1>3. \A l \in {CodeLimit, AccessLimit, RefreshLimit, TombLimit} : Within({}, l)
  <2>1. \A c \in Clients : Owned({}, c) = {}
    BY DEF Owned
  <2>2. ASSUME NEW l \in {CodeLimit, AccessLimit, RefreshLimit, TombLimit} PROVE Within({}, l)
    <3>1. l.all \in Nat /\ l.each \in Nat
      BY LimitsAreNumbers
    <3>. QED BY <2>1, <3>1, FS_EmptySet DEF Within
  <2>. QED BY <2>2
<1>4. Clientele(st) = {}
  BY <1>1 DEF Clientele
<1>5. Limited(st)
  BY <1>1, <1>3, <1>4, FS_EmptySet, LifeAssumption DEF Limited
<1>6. MaxTime \in Nat /\ MaxGrants \in Nat /\ MaxEpoch \in Nat
  BY LifeAssumption
<1>7. \A f \in Flows : Asked(flow[f])
  BY <1>1 DEF Asked
<1>8. History(grants, ended, revoked)
  BY <1>1 DEF History
<1>. QED BY <1>1, <1>2, <1>5, <1>6, <1>7, <1>8 DEF IInv, Good

LEMMA EveryStep == ASSUME IInv, Next PROVE Steps
<1>1. MaxGrants \in Nat /\ MaxRotations \in Nat
  BY LifeAssumption
<1>2. ASSUME NEW c \in Clients, Register(c) \/ Unregister(c) \/ RefusedRequest(c) PROVE Steps
  BY <1>2, Registering, Unregistering, Refusing, Zenon
<1>3. ASSUME NEW c \in Clients, NEW f \in Flows, NEW scopes \in SUBSET Scopes,
             AskApproval(f, c, scopes)
      PROVE  Steps
  BY <1>3, Asking, Zenon
<1>4. ASSUME NEW c \in Clients, NEW g \in 1..MaxGrants, Redeem(c, g) PROVE Steps
  <2>1. g \in Nat
    BY <1>1
  <2>. QED BY <1>4, <2>1, Redeeming, Zenon
<1>5. ASSUME NEW c \in Clients, NEW g \in 1..MaxGrants, NEW n \in 0..MaxRotations,
             Replay(c, g, n) \/ RevokeAccess(c, g, n) \/ RevokeRefresh(c, g, n)
      PROVE  Steps
  <2>1. g \in Nat /\ n \in Nat
    BY <1>1
  <2>. QED BY <1>5, <2>1, Replaying, RevokingAccess, RevokingRefresh, Zenon
<1>6. ASSUME NEW c \in Clients, NEW g \in 1..MaxGrants, NEW n \in 0..MaxRotations,
             NEW scopes \in SUBSET Scopes, Rotate(c, g, n, scopes)
      PROVE  Steps
  <2>1. g \in Nat /\ n \in Nat
    BY <1>1
  <2>. QED BY <1>6, <2>1, Rotating, Zenon
<1>7. ASSUME NEW f \in Flows, Decline(f) \/ IssueCode(f) PROVE Steps
  BY <1>7, Declining, Issuing, Zenon
<1>. QED BY <1>2, <1>3, <1>4, <1>5, <1>6, <1>7, Ticking, Zenon DEF Next

LEMMA Stuttering == ASSUME IInv, UNCHANGED vars PROVE IInv'
<1>1. Inherited(st, st)
  BY NoNewRefresh DEF IInv, Good
<1>. QED BY <1>1, Settle DEF IInv, vars, Steps

\* The invariant is inductive.
THEOREM Inductive == Spec => []IInv
<1>1. IInv /\ [Next]_vars => IInv'
  BY EveryStep, Stuttering DEF Steps
<1>. QED BY Initially, <1>1, PTL DEF Spec

\* No table outgrows its limits, in total or for one client, and nothing that
\* is retained belongs to a registration that is gone (ensure_capacity,
\* insert_tombstone_bounded, unregister_client, the second check of authorize).
THEOREM RetentionHolds == Spec => []RetainedIsBound
<1>1. IInv => RetainedIsBound
  <2>. SUFFICES ASSUME IInv PROVE RetainedIsBound
    OBVIOUS
  <2>1. Lineage(st, grants, ended, revoked) /\ Limited(st)
    BY DEF IInv, Good
  <2>2. st.clients \in [Clients -> 0..MaxEpoch]
    <3>1. \A c \in Clients : st.clients[c] \in Nat /\ st.clients[c] <= epochs
      BY <2>1 DEF IInv, Lineage, Typed
    <3>2. MaxEpoch \in Nat /\ epochs \in 0..MaxEpoch
      BY LifeAssumption DEF IInv
    <3>3. \A c \in Clients : st.clients[c] \in 0..MaxEpoch
      BY <3>1, <3>2
    <3>. QED BY <2>1, <3>3 DEF Lineage, Typed
  <2>3. Cardinality({c \in Clients : Registered(st, c)}) <= MaxClients
    BY <2>1 DEF Limited, Clientele, Registered
  <2>4. TypeOK
    BY <2>1, <2>2, <2>3 DEF IInv, Limited, TypeOK
  <2>5. BoundToRegistration
    BY <2>1 DEF Lineage, Bound, BoundToRegistration, Registered
  <2>. QED BY <2>4, <2>5 DEF RetainedIsBound
<1>. QED BY Inductive, <1>1, PTL

\* A grant is never forked, and each of its rotated tokens has a replay guard
\* that lasts as long as the family, whatever was evicted or has expired
\* (ensure_replay_guard_capacity, align_replay_guards_with_family_deadline).
THEOREM RotationHolds == Spec => []RotationIsExact
<1>1. IInv => RotationIsExact
  <2>. SUFFICES ASSUME IInv PROVE RotationIsExact
    OBVIOUS
  <2>1. Lineage(st, grants, ended, revoked) /\ Guarded(st)
    BY DEF IInv, Good
  <2>2. OneRefreshPerGrant
    BY <2>1 DEF Lineage, CodeComesFirst, Numbered, OneRefreshPerGrant
  <2>3. RotatedIsGuarded
    <3>1. ASSUME NEW r \in st.refresh, NEW n \in 0..(r.nr - 1)
          PROVE  \E x \in Named(st.tombs, r.grant, n) :
                   x.kind = "refresh" /\ x.guard /\ x.client = r.client /\ x.expires >= r.expires
      <4>1. PICK x \in Guards(st, r, n) : TRUE
        BY <2>1 DEF Guarded
      <4>. QED BY <4>1 DEF Guards, Named
    <3>. QED BY <3>1 DEF RotatedIsGuarded
  <2>. QED BY <2>2, <2>3 DEF RotationIsExact
<1>. QED BY Inductive, <1>1, PTL

\* A grant that was revoked, or one of whose spent tokens was presented again,
\* has no token left and gets none (revoke_grant_family, revoke).
THEOREM RevocationHolds == Spec => []EndedStaysEnded
<1>1. IInv => EndedStaysEnded
  BY DEF IInv, Good, Lineage, Over, EndedStaysEnded
<1>. QED BY Inductive, <1>1, PTL

\* Rotation neither prolongs a family nor widens its scopes.
THEOREM FamiliesKeepTheirDeadline == Spec => FamilyNeverGrows
<1>. DEFINE A == /\ \A r \in st.refresh, q \in st'.refresh :
                      r.grant = q.grant => q.expires = r.expires /\ q.scopes \subseteq r.scopes
                 /\ \A a \in st'.access : a.expires <= a.family
<1>1. ASSUME IInv, Next PROVE A
  <2>1. Inherited(st, st') /\ IInv'
    BY <1>1, EveryStep DEF Steps
  <2>2. \A a \in st'.access : a.expires <= a.family
    BY <2>1 DEF IInv, Good, Lineage, Timed
  <2>. QED BY <2>1, <2>2 DEF Inherited
<1>2. IInv /\ [Next]_vars => [A]_vars
  BY <1>1
<1>. HIDE DEF A
<1>3. Spec => [][A]_vars
  BY Inductive, <1>2, PTL DEF Spec
<1>. QED BY <1>3 DEF FamilyNeverGrows, A

=============================================================================
