------------------------------- MODULE Access -------------------------------
(***************************************************************************)
(* Identity and credentials: users upserted from the session tokens of the *)
(* identity provider, their organization claims mirrored into rows that    *)
(* personal access tokens act under, the tokens themselves with their      *)
(* repository whitelist, and the deletion events of the provider.          *)
(*                                                                         *)
(* Time is relative: an age counts ticks and saturates one past TTL.       *)
(* The request cache and the mirror's throttle live in the process and are *)
(* lost with it.                                                           *)
(***************************************************************************)
EXTENDS Naturals, FiniteSets

CONSTANTS
  User, Org, Repo, Token,
  Whitelist,     \* sets of repositories tokens are created for
  Session,       \* session tokens
  SessionUser,   \* Session -> User
  Handler,       \* mirrorings under way at once
  TTL,           \* MEMBERSHIP_TTL_MS, in ticks
  MaxChanges,    \* bound on what happens at the identity provider
  MaxFaults      \* bound on restarts and events delivered again

ASSUME AccessParameters == /\ User # {}
                           /\ SessionUser \in [Session -> User]
                           /\ Whitelist \subseteq SUBSET Repo
                           /\ TTL \in Nat \ {0}

VARIABLES
  member,      \* memberships at the identity provider
  left,        \* users and organizations deleted there
  fetched,     \* session tokens whose claims the process holds
  claims,      \* Session -> the organizations claimed
  user,        \* users with a row
  generation,  \* User -> how often the row was created
  known,       \* organizations with a row
  softDeleted, \* those of them with deletedAt set
  mirror,      \* organization_member: <<user, organization>> -> age of syncedAt
  lastSync,    \* User -> age of the throttle's entry, 1 for one tick and more
  handler,
  live,        \* repositories with a row
  token,       \* Token -> the personal access token
  acked,       \* deletions the webhook answered 200
  lastClaim,   \* observation: <<user, organization>> -> age of the last session with the claim
  changes, faults

vars == <<member, left, fetched, claims, user, generation, known, softDeleted, mirror,
          lastSync, handler, live, token, acked, lastClaim, changes, faults>>
upstream == <<member, left, changes>>
cache == <<fetched, claims>>
rows == <<user, generation, known, softDeleted>>

Stale == TTL + 1   \* also the age of what never was
Pair == User \X Org
Never == 2
Older(age) == IF age < Stale THEN age + 1 ELSE age

Idle == [pc |-> "idle"]
NoToken == [state |-> "none", user |-> CHOOSE u \in User : TRUE, generation |-> 0,
            requested |-> {}, repositories |-> {}]
GoneToken == [NoToken EXCEPT !.state = "gone"]

Mirroring == [pc : {"write"}, user : User, generation : Nat, todo : SUBSET Org, age : 0..Stale]
Credential == [state : {"none", "inserted", "unreturned", "held", "gone"}, user : User,
               generation : Nat, requested : SUBSET Repo, repositories : SUBSET Repo]

TypeOK ==
  /\ fetched \subseteq Session /\ claims \in [Session -> SUBSET Org]
  /\ user \subseteq User /\ generation \in [User -> Nat]
  /\ known \subseteq Org
  /\ mirror \in [Pair -> 0..Stale] /\ lastClaim \in [Pair -> 0..Stale]
  /\ lastSync \in [User -> 0..Never]
  /\ handler \in [Handler -> {Idle} \cup Mirroring]
  /\ live \subseteq Repo
  /\ token \in [Token -> Credential]

Init ==
  /\ member \in SUBSET Pair /\ left = {}
  /\ fetched = {} /\ claims = [s \in Session |-> {}]
  /\ user = {} /\ generation = [u \in User |-> 0]
  /\ known = {} /\ softDeleted = {}
  /\ mirror = [p \in Pair |-> Stale]
  /\ lastSync = [u \in User |-> Never]
  /\ handler = [h \in Handler |-> Idle]
  /\ live = Repo
  /\ token = [t \in Token |-> NoToken]
  /\ acked = {}
  /\ lastClaim = [p \in Pair |-> Stale]
  /\ changes = 0 /\ faults = 0

Become(h, record) == handler' = [handler EXCEPT ![h] = record]

-----------------------------------------------------------------------------
\* The identity provider and time (external)

ChangeMembership(p) ==
  /\ changes < MaxChanges /\ p[1] \notin left /\ p[2] \notin left
  /\ member' = IF p \in member THEN member \ {p} ELSE member \cup {p}
  /\ changes' = changes + 1
  /\ UNCHANGED <<left, cache, rows, mirror, lastSync, handler, live, token, acked, lastClaim, faults>>

DeleteUpstream(x) ==
  /\ changes < MaxChanges /\ x \notin left
  /\ left' = left \cup {x}
  /\ member' = {p \in member : p[1] # x /\ p[2] # x}
  /\ changes' = changes + 1
  /\ UNCHANGED <<cache, rows, mirror, lastSync, handler, live, token, acked, lastClaim, faults>>

Tick ==
  /\ mirror' = [p \in Pair |-> Older(mirror[p])]
  /\ lastClaim' = [p \in Pair |-> Older(lastClaim[p])]
  /\ lastSync' = [u \in User |-> IF lastSync[u] = 0 THEN 1 ELSE lastSync[u]]
  /\ handler' = [h \in Handler |-> IF handler[h].pc = "idle" THEN Idle
                                   ELSE [handler[h] EXCEPT !.age = Older(@)]]
  /\ UNCHANGED <<upstream, cache, rows, live, token, acked, faults>>

-----------------------------------------------------------------------------
\* Session tokens

\* Asked of the provider once for each token and kept for as long as the process lives.
fetchUserInfoClaims(s) ==
  /\ s \notin fetched /\ SessionUser[s] \notin left
  /\ fetched' = fetched \cup {s}
  /\ claims' = [claims EXCEPT ![s] = {o \in Org : <<SessionUser[s], o>> \in member}]
  /\ UNCHANGED <<upstream, rows, mirror, lastSync, handler, live, token, acked, lastClaim, faults>>

\* Mutant: a user is mirrored once in the life of the process
syncOnce(u) == lastSync[u] = Never

\* The five minutes of the throttle are one tick.
shouldSync(u) == lastSync[u] # 0

upsertUser(u) ==
  /\ user' = user \cup {u}
  /\ generation' = [generation EXCEPT ![u] = IF u \in user THEN @ ELSE @ + 1]
  /\ UNCHANGED <<known, softDeleted>>

\* The user is upserted from the claims, and the mirroring started without waiting for it:
\* the throttle is stamped before anything is read or written.  The organizations with a
\* row are read here: one created until the mirroring reads might as well be there before.
resolveUserFromToken(h, s) ==
  LET u == SessionUser[s]
  IN  /\ s \in fetched /\ handler[h].pc = "idle"
      /\ upsertUser(u)
      /\ lastClaim' = [p \in Pair |-> IF p[1] = u /\ p[2] \in claims[s] THEN 0 ELSE lastClaim[p]]
      /\ IF shouldSync(u)
           THEN /\ lastSync' = [lastSync EXCEPT ![u] = 0]
                /\ LET mirrored == claims[s] \cap known
                  IN  Become(h, IF mirrored = {} THEN Idle
                                ELSE [pc |-> "write", user |-> u, generation |-> generation'[u],
                                      todo |-> mirrored, age |-> 0])
           ELSE UNCHANGED <<lastSync, handler>>
      /\ UNCHANGED <<upstream, cache, mirror, live, token, acked, faults>>

\* Mutant: the row is stamped with the time of the write, by the column's default
WriteMemberNow(h, o) ==
  LET p == <<handler[h].user, o>>
      rest == handler[h].todo \ {o}
  IN  /\ handler[h].pc = "write" /\ o \in handler[h].todo
      /\ p[1] \in user /\ handler[h].generation = generation[p[1]]
      /\ mirror' = [mirror EXCEPT ![p] = 0]
      /\ Become(h, IF rest = {} THEN Idle ELSE [handler[h] EXCEPT !.todo = rest])
      /\ UNCHANGED <<upstream, cache, rows, lastSync, live, token, acked, lastClaim, faults>>

\* The row is stamped with the time the session was resolved. A user deleted meanwhile
\* fails the foreign key.
WriteMember(h, o) ==
  LET p == <<handler[h].user, o>>
      rest == handler[h].todo \ {o}
  IN  /\ handler[h].pc = "write" /\ o \in handler[h].todo
      /\ p[1] \in user /\ handler[h].generation = generation[p[1]]
      /\ mirror' = [mirror EXCEPT ![p] = handler[h].age]
      /\ Become(h, IF rest = {} THEN Idle ELSE [handler[h] EXCEPT !.todo = rest])
      /\ UNCHANGED <<upstream, cache, rows, lastSync, live, token, acked, lastClaim, faults>>

\* Any failure is swallowed, with the throttle stamped and some rows perhaps written.
SyncFails(h) ==
  /\ handler[h].pc # "idle"
  /\ Become(h, Idle)
  /\ UNCHANGED <<upstream, cache, rows, mirror, lastSync, live, token, acked, lastClaim, faults>>

\* An organization gets its row with its first repository.
createOrganization(o) ==
  /\ o \notin known
  /\ known' = known \cup {o}
  /\ UNCHANGED <<upstream, cache, user, generation, softDeleted, mirror, lastSync, handler, live,
                 token, acked, lastClaim, faults>>

-----------------------------------------------------------------------------
\* Personal access tokens

SetToken(t, record) == token' = [token EXCEPT ![t] = record]

\* The first insert of createPersonalAccessTokenRecord, for a user a session resolved to.
InsertToken(t, u, requested) ==
  /\ token[t].state = "none" /\ u \in user
  /\ SetToken(t, [state |-> "inserted", user |-> u, generation |-> generation[u],
                 requested |-> requested, repositories |-> {}])
  /\ UNCHANGED <<upstream, cache, rows, mirror, lastSync, handler, live, acked, lastClaim, faults>>

\* Mutant: a whitelist that cannot be written is logged and the token returned
InsertWhatScopeThereIs(t) ==
  /\ token[t].state = "inserted"
  /\ \E written \in {{}, token[t].requested \cap live} :
       SetToken(t, [token[t] EXCEPT !.state = "held", !.repositories = written])
  /\ UNCHANGED <<upstream, cache, rows, mirror, lastSync, handler, live, acked, lastClaim, faults>>

\* The second insert writes the whole whitelist or fails, when a repository is gone or the
\* database is; only then is the plaintext returned.
InsertScope(t) ==
  /\ token[t].state = "inserted"
  /\ \/ /\ token[t].requested \subseteq live
        /\ SetToken(t, [token[t] EXCEPT !.state = "held", !.repositories = token[t].requested])
     \/ /\ token[t].requested # {}
        /\ SetToken(t, [token[t] EXCEPT !.state = "unreturned", !.requested = {}])
  /\ UNCHANGED <<upstream, cache, rows, mirror, lastSync, handler, live, acked, lastClaim, faults>>

\* By its owner, or by its expiry.
deletePersonalAccessToken(t) ==
  /\ token[t].state \in {"held", "unreturned"}
  /\ SetToken(t, GoneToken)
  /\ UNCHANGED <<upstream, cache, rows, mirror, lastSync, handler, live, acked, lastClaim, faults>>

\* The whitelist rows of a repository go with it.
deleteRepository(r) ==
  /\ r \in live
  /\ live' = live \ {r}
  /\ token' = [t \in Token |-> [token[t] EXCEPT !.repositories = @ \ {r}]]
  /\ UNCHANGED <<upstream, cache, rows, mirror, lastSync, handler, acked, lastClaim, faults>>

Honoured(t) == token[t].state = "held"

\* {} is null, "not confined".
resolveTokenScope(t) == token[t].repositories

isMembershipFresh(p) == mirror[p] <= TTL

\* The organizations a token of the user acts in; deletedAt is not read.
readOrganizationClaims(u) == {o \in known : isMembershipFresh(<<u, o>>)}

-----------------------------------------------------------------------------
\* The provider's webhook, delivered until it is answered 200 and now and then again

Redelivered(x) ==
  IF x \in acked THEN faults < MaxFaults /\ faults' = faults + 1 ELSE UNCHANGED faults

\* Memberships and tokens go with the user's row.
deleteUser(u) ==
  /\ user' = user \ {u}
  /\ token' = [t \in Token |->
       IF token[t].state # "none" /\ token[t].user = u
         THEN GoneToken ELSE token[t]]
  /\ mirror' = [p \in Pair |-> IF p[1] = u THEN Stale ELSE mirror[p]]
  /\ UNCHANGED <<generation, known, softDeleted>>

\* Mutant: a deletion that failed is answered 200 like one that found nothing to delete
handleUserDeletedQuietly(u) ==
  /\ u \in left \cap User /\ Redelivered(u)
  /\ deleteUser(u) \/ UNCHANGED <<rows, token, mirror>>
  /\ acked' = acked \cup {u}
  /\ UNCHANGED <<upstream, cache, lastSync, handler, live, lastClaim>>

handleUserDeleted(u) ==
  /\ u \in left \cap User /\ Redelivered(u)
  /\ deleteUser(u)
  /\ acked' = acked \cup {u}
  /\ UNCHANGED <<upstream, cache, lastSync, handler, live, lastClaim>>

handleOrganizationDeleted(o) ==
  /\ o \in left \cap Org /\ Redelivered(o)
  /\ softDeleted' = softDeleted \cup ({o} \cap known)
  /\ acked' = acked \cup {o}
  /\ UNCHANGED <<upstream, cache, user, generation, known, mirror, lastSync, handler, live, token, lastClaim>>

\* The process restarts: claims, throttle and mirrorings under way are lost, and a token
\* being created stays as it is, its plaintext never returned.
Restart ==
  /\ faults < MaxFaults /\ faults' = faults + 1
  /\ fetched' = {} /\ claims' = [s \in Session |-> {}]
  /\ lastSync' = [u \in User |-> Never]
  /\ handler' = [h \in Handler |-> Idle]
  /\ token' = [t \in Token |-> IF token[t].state = "inserted"
                               THEN [token[t] EXCEPT !.state = "unreturned", !.requested = {}] ELSE token[t]]
  /\ UNCHANGED <<upstream, rows, mirror, live, acked, lastClaim>>

Next ==
  \/ \E p \in Pair : ChangeMembership(p)
  \/ \E x \in User \cup Org : DeleteUpstream(x)
  \/ Tick
  \/ \E s \in Session : fetchUserInfoClaims(s) \/ \E h \in Handler : resolveUserFromToken(h, s)
  \/ \E h \in Handler : SyncFails(h) \/ \E o \in Org : WriteMember(h, o)
  \/ \E o \in Org : createOrganization(o) \/ handleOrganizationDeleted(o)
  \/ \E t \in Token :
       \/ \E u \in User, requested \in Whitelist : InsertToken(t, u, requested)
       \/ InsertScope(t) \/ deletePersonalAccessToken(t)
  \/ \E r \in Repo : deleteRepository(r)
  \/ \E u \in User : handleUserDeleted(u)
  \/ Restart

\* Time passes and mirrorings end; the provider delivers until answered; a session in use
\* is now and then the one the throttle lets through; neither the database nor the clock
\* is against every mirroring.
Fairness ==
  /\ WF_vars(Tick)
  /\ WF_vars(\E h \in Handler : SyncFails(h) \/ \E o \in Org : WriteMember(h, o))
  /\ \A u \in User : WF_vars(u \notin acked /\ handleUserDeleted(u))
  /\ \A p \in Pair :
       /\ SF_vars(\E h \in Handler, s \in Session :
                    /\ SessionUser[s] = p[1] /\ p[2] \in claims[s] \cap known
                    /\ shouldSync(p[1])
                    /\ resolveUserFromToken(h, s))
       /\ SF_vars(\E h \in Handler : /\ handler[h].pc = "write" /\ handler[h].user = p[1]
                                      /\ handler[h].age <= TTL
                                      /\ WriteMember(h, p[2]))

Spec == Init /\ [][Next]_vars
FairSpec == Spec /\ Fairness

-----------------------------------------------------------------------------
\* Properties

\* "a user removed from an organization upstream keeps cached access only until the entry
\* goes stale" (auth/organizationMembership.ts), as far as the code bears it out: what a
\* personal access token may do in an organization rests on a session that claimed the
\* membership within the TTL, however late the mirroring was written and whatever
\* mirrorings, deletions and restarts overlapped it.
HonouredMembershipWasClaimed ==
  \A u \in User, o \in Org : o \in readOrganizationClaims(u) => lastClaim[<<u, o>>] <= TTL

\* A token created for some repositories never acts unconfined while one of them exists,
\* and never in another: not when its creation failed half way, not when the repositories
\* go one by one (auth/personalAccessToken.ts, createPersonalAccessTokenRecord and
\* resolveTokenScope).
HeldTokensStayConfined ==
  \A t \in Token :
    Honoured(t) /\ token[t].requested \cap live # {}
      => /\ resolveTokenScope(t) # {}
         /\ resolveTokenScope(t) \subseteq token[t].requested

\* A token of a user the provider deleted stops working, whatever fails or is delivered
\* twice, although the deleted user's cached session may create the row anew
\* (idp/webhooks.ts, handleUserDeleted).
DeletedUsersTokensGo ==
  \A t \in Token :
    (Honoured(t) /\ token[t].user \in left \ acked) ~> ~Honoured(t)

\* A membership that a session in use claims reaches the mirror, failures of earlier
\* mirrorings notwithstanding (auth/organizationMembership.ts, syncOrganizationMemberships).
Claimed(s, o) == s \in fetched /\ o \in claims[s] /\ o \in known

MembersGetMirrored ==
  \A s \in Session, o \in Org :
    Claimed(s, o) ~> (~Claimed(s, o) \/ isMembershipFresh(<<SessionUser[s], o>>))
=============================================================================
