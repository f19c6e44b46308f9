----------------------------- MODULE OAuthGrants -----------------------------
(***************************************************************************)
(* The grants of the OAuth 2.1 authorization server                        *)
(* (OAuthServer and OAuthServerState, fastmcp-server/src/oauth.rs).        *)
(*                                                                         *)
(* An authorization code becomes a grant: a family of access tokens and    *)
(* one refresh token that is rotated on every use.  A rotated token leaves *)
(* a replay guard behind; presenting it again must end the whole family.   *)
(* All state is behind one lock, except that an authorization leaves it    *)
(* while the approval backend decides, and that token lifetimes start      *)
(* after the random draws, which may take time.                            *)
(*                                                                         *)
(* A credential is named by its grant and a number instead of its digest,  *)
(* so drawn values never collide.  Requests refused before the lock, or    *)
(* under it before the client is authenticated, change nothing and are     *)
(* not modelled.                                                           *)
(***************************************************************************)
EXTENDS Integers, FiniteSets, Sequences, SequencesExt

CONSTANTS
  Clients, Scopes,
  Flows,                     \* authorization requests that may be in progress at once
  MaxClients,                \* max_clients
  CodeLimit, AccessLimit,    \* limits of retained credentials,
  RefreshLimit, TombLimit,   \* [all, each]: in total and for each client
  CodeLife, AccessLife, RefreshLife,
  Delay,                     \* how long the random draws of a pair may take
  MaxTime, MaxGrants, MaxEpoch, MaxRotations  \* bounds of the exploration

Limits == [all : Nat \ {0}, each : Nat \ {0}]
ASSUME LimitAssumption ==
  \A l \in {CodeLimit, AccessLimit, RefreshLimit, TombLimit} : l \in Limits /\ l.each <= l.all
ASSUME LifeAssumption ==
  /\ {CodeLife, AccessLife, RefreshLife} \subseteq Nat \ {0} /\ AccessLife <= RefreshLife
  /\ {Delay, MaxTime} \subseteq Nat
  /\ {MaxClients, MaxGrants, MaxEpoch, MaxRotations} \subseteq Nat \ {0}

VARIABLES
  st,       \* OAuthServerState: clients, codes, access, refresh, tombs
  flow,     \* the request each authorization put before the approval backend
  now,      \* Instant::now()
  grants,   \* codes issued so far
  epochs,   \* registration epochs used so far
  ended,    \* history: grants revoked or given away by a replayed token
  revoked   \* history: access tokens revoked on their own

vars == <<st, flow, now, grants, epochs, ended, revoked>>

NoFlow == [client |-> "none", epoch |-> 0, scopes |-> {}]

Init ==
  /\ st = [clients |-> [c \in Clients |-> 0],  \* registration epoch, 0 if not registered
           codes |-> {}, access |-> {}, refresh |-> {}, tombs |-> {}]
  /\ flow = [f \in Flows |-> NoFlow]
  /\ now = 0 /\ grants = 0 /\ epochs = 0
  /\ ended = {} /\ revoked = {}

Registered(s, c) == s.clients[c] # 0
Owned(S, c) == {x \in S : x.client = c}
Family(S, g, c) == {x \in S : x.grant = g /\ x.client = c}
Named(S, g, n) == {x \in S : x.grant = g /\ x.nr = n}

\* cleanup_expired_at, run at the start of every mutation.
Clean(s) ==
  [s EXCEPT !.codes = {x \in @ : x.expires > now}, !.access = {x \in @ : x.expires > now},
            !.refresh = {x \in @ : x.expires > now}, !.tombs = {x \in @ : x.expires > now}]

\* Faulty variant: one credential too many.
HasRoomUpTo(S, c, limit) ==
  Cardinality(S) <= limit.all /\ Cardinality(Owned(S, c)) <= limit.each

HasRoom(S, c, limit) ==
  Cardinality(S) < limit.all /\ Cardinality(Owned(S, c)) < limit.each

-----------------------------------------------------------------------------
(* Tombstones.  Which of several equally old markers is evicted depends on *)
(* the hash map: an operation has a set of results.                        *)

Tomb(kind, x, guard, expires) ==
  [kind |-> kind, grant |-> x.grant, nr |-> x.nr, client |-> x.client,
   guard |-> guard, expires |-> expires]

\* Faulty variant: replay guards are evicted like other markers.
EvictAny(T, S) == {T \ {x} : x \in {y \in S : \A z \in S : y.expires <= z.expires}}

\* Without the oldest marker among S that is no replay guard; no result if there is none.
Evict(T, S) ==
  LET plain == {x \in S : ~x.guard}
  IN {T \ {x} : x \in {y \in plain : \A z \in plain : y.expires <= z.expires}}

Place(T, t) ==
  IF Cardinality(T) < TombLimit.all THEN {T \cup {t}}
  ELSE IF Evict(T, T) = {} THEN {T} ELSE {U \cup {t} : U \in Evict(T, T)}

\* insert_tombstone_bounded.  A credential is removed once, so it never has a
\* marker yet when one is inserted for it.
Insert(T, t) ==
  LET own == Owned(T, t.client)
  IN IF t.expires <= now THEN {T}
     ELSE IF Cardinality(own) < TombLimit.each THEN Place(T, t)
     ELSE IF Evict(T, own) = {} THEN {T}
     ELSE UNION {Place(U, t) : U \in Evict(T, own)}

\* One marker after the other.
InsertAll(T, marks) ==
  LET after[i \in 0..Len(marks)] ==
        IF i = 0 THEN {T} ELSE UNION {Insert(U, marks[i]) : U \in after[i - 1]}
  IN after[Len(marks)]

GuardRoom(T, c) ==
  /\ Cardinality(Owned(T, c)) >= TombLimit.each => \E x \in Owned(T, c) : ~x.guard
  /\ Cardinality(T) >= TombLimit.all => \E x \in T : ~x.guard

\* Faulty variant: the access tokens of the family survive.
RevokeRefreshOnly(s, g, c) ==
  {[s EXCEPT !.refresh = @ \ Family(@, g, c)]}

\* revoke_grant_family: the family's guards make room for its own markers.
RevokeFamily(s, g, c) ==
  LET access == Family(s.access, g, c)
      refresh == Family(s.refresh, g, c)
      kept == {x \in s.tombs : ~(x.guard /\ x.grant = g /\ x.client = c)}
      Marks(kind, S) == SetToSeqs({Tomb(kind, x, FALSE, x.expires) : x \in S})
  IN {[s EXCEPT !.access = @ \ access, !.refresh = @ \ refresh, !.tombs = T] :
        T \in UNION {InsertAll(kept, m[1] \o m[2]) :
                       m \in Marks("access", access) \X Marks("refresh", refresh)}}

-----------------------------------------------------------------------------
(* Registration *)

Register(c) ==
  /\ epochs < MaxEpoch
  /\ LET s == Clean(st)
         free == ~Registered(s, c) /\ Cardinality({d \in Clients : Registered(s, d)}) < MaxClients
     IN /\ st' = IF free THEN [s EXCEPT !.clients[c] = epochs + 1] ELSE s
        /\ epochs' = IF free THEN epochs + 1 ELSE epochs
  /\ UNCHANGED <<flow, now, grants, ended, revoked>>

Unregister(c) ==
  /\ LET s == Clean(st)
         Others(S) == {x \in S : x.client # c}
     IN st' = IF Registered(s, c)
              THEN [clients |-> [s.clients EXCEPT ![c] = 0], codes |-> Others(s.codes),
                    access |-> Others(s.access), refresh |-> Others(s.refresh),
                    tombs |-> Others(s.tombs)]
              ELSE s
  /\ UNCHANGED <<flow, now, grants, epochs, ended, revoked>>

-----------------------------------------------------------------------------
(* authorize: a snapshot of the registration, the decision of the approval *)
(* backend, and the code, with the registration checked again.             *)

AskApproval(f, c, scopes) ==
  /\ flow[f] = NoFlow /\ Registered(st, c)
  /\ flow' = [flow EXCEPT ![f] = [client |-> c, epoch |-> st.clients[c], scopes |-> scopes]]
  /\ UNCHANGED <<st, now, grants, epochs, ended, revoked>>

\* Denied, cancelled, failed or not bound to the request.
Decline(f) ==
  /\ flow[f] # NoFlow
  /\ flow' = [flow EXCEPT ![f] = NoFlow]
  /\ UNCHANGED <<st, now, grants, epochs, ended, revoked>>

NewCode(d) ==
  [grant |-> grants + 1, nr |-> 0, client |-> d.client, epoch |-> d.epoch,
   scopes |-> d.scopes, expires |-> now + CodeLife]

\* Faulty variant: any registration of the client id will do.
IssueCodeToSuccessor(f) ==
  /\ flow[f] # NoFlow /\ grants < MaxGrants
  /\ LET s == Clean(st)
         d == flow[f]
         free == Registered(s, d.client) /\ HasRoom(s.codes, d.client, CodeLimit)
     IN /\ st' = IF free THEN [s EXCEPT !.codes = @ \cup {NewCode(d)}] ELSE s
        /\ grants' = IF free THEN grants + 1 ELSE grants
  /\ flow' = [flow EXCEPT ![f] = NoFlow]
  /\ UNCHANGED <<now, epochs, ended, revoked>>

IssueCode(f) ==
  /\ flow[f] # NoFlow /\ grants < MaxGrants
  /\ LET s == Clean(st)
         d == flow[f]
         free == s.clients[d.client] = d.epoch /\ HasRoom(s.codes, d.client, CodeLimit)
     IN /\ st' = IF free THEN [s EXCEPT !.codes = @ \cup {NewCode(d)}] ELSE s
        /\ grants' = IF free THEN grants + 1 ELSE grants
  /\ flow' = [flow EXCEPT ![f] = NoFlow]
  /\ UNCHANGED <<now, epochs, ended, revoked>>

-----------------------------------------------------------------------------
(* The token endpoint *)

\* An authenticated request that is refused after the expiry cleanup: a wrong
\* verifier or redirect, an unknown credential, a limit, a failed draw.
RefusedRequest(c) ==
  /\ Registered(st, c)
  /\ st' = Clean(st)
  /\ UNCHANGED <<flow, now, grants, epochs, ended, revoked>>

\* prepare_token_pair: the pair numbered n of a grant, issued at a given time.
Token(x, n, scopes, expires, family) ==
  [grant |-> x.grant, nr |-> n, client |-> x.client, epoch |-> x.epoch,
   scopes |-> scopes, expires |-> expires, family |-> family]
AccessToken(x, n, scopes, issued, family) ==
  Token(x, n, scopes, IF issued + AccessLife < family THEN issued + AccessLife ELSE family, family)
RefreshToken(x, n, scopes, family) == Token(x, n, scopes, family, family)

\* When both draws are done.
IssueTimes == {t \in now..(now + Delay) : t <= MaxTime}

\* Faulty variant: the code can be exchanged again.
RedeemKeepingCode(c, g) ==
  LET s == Clean(st)
  IN /\ Registered(st, c)
     /\ \E k \in Family(s.codes, g, c), issued \in IssueTimes :
          /\ k.epoch = s.clients[c]
          /\ st' = [s EXCEPT
               !.access = @ \cup {AccessToken(k, 0, k.scopes, issued, issued + RefreshLife)},
               !.refresh = @ \cup {RefreshToken(k, 0, k.scopes, issued + RefreshLife)}]
          /\ now' = issued
     /\ UNCHANGED <<flow, grants, epochs, ended, revoked>>

\* token_authorization_code
Redeem(c, g) ==
  LET s == Clean(st)
  IN /\ Registered(st, c)
     /\ \E k \in Family(s.codes, g, c), issued \in IssueTimes :
          /\ k.epoch = s.clients[c] /\ k.expires > issued
          /\ HasRoom(s.access, c, AccessLimit) /\ HasRoom(s.refresh, c, RefreshLimit)
          /\ st' = [s EXCEPT
               !.codes = @ \ {k},
               !.access = @ \cup {AccessToken(k, 0, k.scopes, issued, issued + RefreshLife)},
               !.refresh = @ \cup {RefreshToken(k, 0, k.scopes, issued + RefreshLife)}]
          /\ now' = issued
     /\ UNCHANGED <<flow, grants, epochs, ended, revoked>>

\* Faulty variant: every rotation starts a new lifetime.
FamilyDeadlineSliding(r, issued) == issued + RefreshLife

\* The fixed deadline of the family, inherited from the consumed token.
FamilyDeadline(r, issued) == r.family

\* token_refresh_token, the token is live: it is consumed, and every guard of
\* the family lasts as long as the replacement.
Rotate(c, g, n, scopes) ==
  LET s == Clean(st)
  IN /\ Registered(st, c)
     /\ Named(s.tombs, g, n) \cap {x \in s.tombs : x.kind = "refresh"} = {}
     /\ n < MaxRotations
     /\ \E r \in Named(s.refresh, g, n), issued \in IssueTimes :
          LET deadline == FamilyDeadline(r, issued)
              aligned == {IF x.guard /\ x.grant = g /\ x.client = c
                          THEN [x EXCEPT !.expires = deadline] ELSE x : x \in s.tombs}
          IN /\ r.client = c /\ r.epoch = s.clients[c] /\ scopes \subseteq r.scopes
             /\ HasRoom(s.access, c, AccessLimit) /\ GuardRoom(s.tombs, c)
             /\ deadline > issued
             /\ \E T \in Insert(aligned, Tomb("refresh", r, TRUE, deadline)) :
                  st' = [s EXCEPT
                    !.tombs = T,
                    !.access = @ \cup {AccessToken(r, n + 1, scopes, issued, deadline)},
                    !.refresh = (@ \ {r}) \cup {RefreshToken(r, n + 1, scopes, deadline)}]
             /\ now' = issued
     /\ UNCHANGED <<flow, grants, epochs, ended, revoked>>

\* A rotated or revoked token is presented once more by its client.
Spent(s, c, g, n) == \E r \in Family(s.refresh, g, c) : r.nr > n
Marked(s, c, g, n) == \E x \in Named(Owned(s.tombs, c), g, n) : x.kind = "refresh"

Replay(c, g, n) ==
  LET s == Clean(st)
  IN /\ Registered(st, c)
     /\ Spent(s, c, g, n) \/ Marked(s, c, g, n)
     /\ st' \in IF Marked(s, c, g, n) THEN RevokeFamily(s, g, c) ELSE {s}
     /\ ended' = ended \cup {g}
     /\ UNCHANGED <<flow, now, grants, epochs, revoked>>

-----------------------------------------------------------------------------
(* The revocation endpoint; a token of another client is left alone. *)

RevokeAccess(c, g, n) ==
  LET s == Clean(st)
  IN /\ Registered(st, c)
     /\ \E a \in Named(Owned(s.access, c), g, n) :
          \E T \in Insert(s.tombs, Tomb("access", a, FALSE, a.expires)) :
            st' = [s EXCEPT !.access = @ \ {a}, !.tombs = T]
     /\ revoked' = revoked \cup {<<g, n>>}
     /\ UNCHANGED <<flow, now, grants, epochs, ended>>

RevokeRefresh(c, g, n) ==
  LET s == Clean(st)
  IN /\ Registered(st, c)
     /\ Named(Owned(s.refresh, c), g, n) # {} \/ Marked(s, c, g, n)
     /\ st' \in RevokeFamily(s, g, c)
     /\ ended' = ended \cup {g}
     /\ UNCHANGED <<flow, now, grants, epochs, revoked>>

Tick == now < MaxTime /\ now' = now + 1 /\ UNCHANGED <<st, flow, grants, epochs, ended, revoked>>

Next ==
  \/ \E c \in Clients :
       \/ Register(c) \/ Unregister(c) \/ RefusedRequest(c)
       \/ \E f \in Flows, scopes \in SUBSET Scopes : AskApproval(f, c, scopes)
       \/ \E g \in 1..MaxGrants :
            \/ Redeem(c, g)
            \/ \E n \in 0..MaxRotations :
                 \/ Replay(c, g, n) \/ RevokeAccess(c, g, n) \/ RevokeRefresh(c, g, n)
                 \/ \E scopes \in SUBSET Scopes : Rotate(c, g, n, scopes)
  \/ \E f \in Flows : Decline(f) \/ IssueCode(f)
  \/ Tick

Spec == Init /\ [][Next]_vars

-----------------------------------------------------------------------------
(* Properties *)

Within(S, limit) ==
  Cardinality(S) <= limit.all /\ \A c \in Clients : Cardinality(Owned(S, c)) <= limit.each

\* Types, and every table of retained credentials within its limits, in total
\* and for each client (ensure_capacity, insert_tombstone_bounded).
TypeOK ==
  /\ st.clients \in [Clients -> 0..MaxEpoch]
  /\ now \in 0..MaxTime /\ grants \in 0..MaxGrants /\ epochs \in 0..MaxEpoch
  /\ Cardinality({c \in Clients : Registered(st, c)}) <= MaxClients
  /\ Within(st.codes, CodeLimit) /\ Within(st.access, AccessLimit)
  /\ Within(st.refresh, RefreshLimit) /\ Within(st.tombs, TombLimit)

\* While a family can still be refreshed, each of its rotated tokens has a
\* replay guard that lasts as long: neither eviction under a full table nor
\* the expiry of an earlier guard lets a replay go unnoticed
\* (ensure_replay_guard_capacity, align_replay_guards_with_family_deadline).
RotatedIsGuarded ==
  \A r \in st.refresh : \A n \in 0..(r.nr - 1) :
    \E x \in Named(st.tombs, r.grant, n) :
      x.kind = "refresh" /\ x.guard /\ x.client = r.client /\ x.expires >= r.expires

\* A grant that was revoked, or one of whose rotated tokens was presented
\* again, has no token left and never gets another one; an access token
\* revoked on its own stays revoked (revoke_grant_family, revoke).
EndedStaysEnded ==
  /\ \A x \in st.access \cup st.refresh : x.grant \notin ended
  /\ \A x \in st.access : <<x.grant, x.nr>> \notin revoked

\* A code buys one family and a family has one refresh token: no sequence of
\* exchanges, retries and refreshes forks a grant.
OneRefreshPerGrant ==
  \A x, y \in st.codes \cup st.refresh : x.grant = y.grant => x = y

\* Every retained credential belongs to the current registration of its
\* client, although an approval may have been asked of an earlier one
\* (the second epoch check of authorize, the purge of unregister_client).
BoundToRegistration ==
  /\ \A x \in st.codes \cup st.access \cup st.refresh : x.epoch = st.clients[x.client]
  /\ \A x \in st.tombs : Registered(st, x.client)

\* Rotation neither prolongs a family nor widens its scopes, and no access
\* token outlives its family, however late the draws return.
FamilyNeverGrows ==
  [][/\ \A r \in st.refresh, q \in st'.refresh :
          r.grant = q.grant => q.expires = r.expires /\ q.scopes \subseteq r.scopes
     /\ \A a \in st'.access : a.expires <= a.family]_vars

\* Rotation never forks a family and never leaves a rotated token unguarded.
RotationIsExact == OneRefreshPerGrant /\ RotatedIsGuarded

\* What is retained is bounded, and bound to a registration that is current.
RetainedIsBound == TypeOK /\ BoundToRegistration
=============================================================================
