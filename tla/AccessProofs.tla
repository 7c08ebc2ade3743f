---------------------------- MODULE AccessProofs ----------------------------
(***************************************************************************)
(* Theorems about Access, for every set of users, organizations, sessions  *)
(* and tokens, and any number of changes, restarts and redeliveries.       *)
(***************************************************************************)
EXTENDS Access, TLAPS

-----------------------------------------------------------------------------
(***************************************************************************)
(* Type correctness.                                                       *)
(***************************************************************************)

LEMMA Ages ==
  /\ TTL \in Nat /\ Stale \in Nat /\ 0 \in 0..Stale
  /\ \A a \in 0..Stale : Older(a) \in 0..Stale
  /\ \A a, b \in 0..Stale : a <= b => Older(a) <= Older(b)
BY AccessParameters DEF Stale, Older

LEMMA NoTokenType == NoToken \in Credential /\ GoneToken \in Credential
<1>1. (CHOOSE u \in User : TRUE) \in User
  BY AccessParameters
<1> QED
  BY <1>1 DEF NoToken, GoneToken, Credential

LEMMA TypeInit == Init => TypeOK
BY Ages, NoTokenType DEF Init, TypeOK, Stale, Never, Pair

\* Rows, process memory and tokens are written by different actions.
MirrorType == /\ fetched \subseteq Session /\ claims \in [Session -> SUBSET Org]
              /\ user \subseteq User /\ generation \in [User -> Nat] /\ known \subseteq Org
              /\ mirror \in [Pair -> 0..Stale] /\ lastClaim \in [Pair -> 0..Stale]
              /\ lastSync \in [User -> 0..Never]
              /\ handler \in [Handler -> {Idle} \cup Mirroring]

TokenType == live \subseteq Repo /\ token \in [Token -> Credential]

LEMMA TypeParts == TypeOK <=> MirrorType /\ TokenType
BY DEF TypeOK, MirrorType, TokenType

LEMMA TokenStep == TokenType /\ user \subseteq User /\ generation \in [User -> Nat] /\ [Next]_vars
                     => TokenType'
<1> SUFFICES ASSUME TokenType, user \subseteq User, generation \in [User -> Nat], [Next]_vars
             PROVE  TokenType'
    OBVIOUS
<1>1. CASE UNCHANGED <<live, token>>
  BY <1>1 DEF TokenType
<1>2. ASSUME NEW t \in Token, NEW r \in Credential, SetToken(t, r), UNCHANGED live
      PROVE  TokenType'
  BY <1>2 DEF TokenType, SetToken
<1>3. ASSUME NEW t \in Token, NEW u \in User, NEW requested \in Whitelist,
             InsertToken(t, u, requested)
      PROVE  TokenType'
  <2>1. [state |-> "inserted", user |-> u, generation |-> generation[u],
         requested |-> requested, repositories |-> {}] \in Credential
    BY AccessParameters DEF Credential
  <2> QED
    BY <1>2, <1>3, <2>1 DEF InsertToken
<1>4. ASSUME NEW t \in Token, InsertScope(t)
      PROVE  TokenType'
  <2>1. token[t] \in Credential
    BY DEF TokenType
  <2>2. /\ [token[t] EXCEPT !.state = "held", !.repositories = token[t].requested] \in Credential
        /\ [token[t] EXCEPT !.state = "unreturned", !.requested = {}] \in Credential
    BY <2>1 DEF Credential
  <2> QED
    BY <1>2, <1>4, <2>2 DEF InsertScope
<1>5. ASSUME NEW t \in Token, deletePersonalAccessToken(t)
      PROVE  TokenType'
  BY <1>2, <1>5, NoTokenType DEF deletePersonalAccessToken
<1>6. ASSUME NEW r \in Repo, deleteRepository(r)
      PROVE  TokenType'
  <2>1. \A t \in Token : [token[t] EXCEPT !.repositories = @ \ {r}] \in Credential
    BY DEF TokenType, Credential
  <2> QED
    BY <1>6, <2>1 DEF deleteRepository, TokenType
<1>7. ASSUME NEW u \in User, handleUserDeleted(u)
      PROVE  TokenType'
  BY <1>7, NoTokenType DEF handleUserDeleted, deleteUser, TokenType
<1>8. CASE Restart
  <2>1. \A t \in Token : [token[t] EXCEPT !.state = "unreturned", !.requested = {}] \in Credential
    BY DEF TokenType, Credential
  <2> QED
    BY <1>8, <2>1 DEF Restart, TokenType
<1> QED
  BY <1>1, <1>3, <1>4, <1>5, <1>6, <1>7, <1>8
     DEF Next, vars, ChangeMembership, DeleteUpstream, Tick, fetchUserInfoClaims,
         resolveUserFromToken, SyncFails, WriteMember, createOrganization, handleOrganizationDeleted

LEMMA MirrorStep == MirrorType /\ [Next]_vars => MirrorType'
<1> SUFFICES ASSUME MirrorType, [Next]_vars PROVE MirrorType'
    OBVIOUS
<1>1. CASE UNCHANGED <<cache, user, generation, known, mirror, lastSync, handler, lastClaim>>
  BY <1>1 DEF MirrorType, cache
<1>2. CASE Tick
  <2>1. ASSUME NEW h \in Handler, handler[h].pc # "idle"
        PROVE  [handler[h] EXCEPT !.age = Older(@)] \in Mirroring
    <3>1. handler[h] \in Mirroring
      BY <2>1 DEF MirrorType, Idle
    <3>2. Older(handler[h].age) \in 0..Stale
      BY <3>1, Ages DEF Mirroring
    <3> QED
      BY <3>1, <3>2 DEF Mirroring
  <2>2. handler' \in [Handler -> {Idle} \cup Mirroring]
    BY <1>2, <2>1 DEF Tick, MirrorType
  <2>3. /\ mirror' \in [Pair -> 0..Stale] /\ lastClaim' \in [Pair -> 0..Stale]
        /\ lastSync' \in [User -> 0..Never]
    BY <1>2, Ages DEF Tick, MirrorType, Never
  <2> QED
    BY <1>2, <2>2, <2>3 DEF Tick, MirrorType, cache, rows
<1>3. ASSUME NEW s \in Session, fetchUserInfoClaims(s)
      PROVE  MirrorType'
  BY <1>3 DEF fetchUserInfoClaims, MirrorType, rows
<1>4. ASSUME NEW h \in Handler, NEW s \in Session, resolveUserFromToken(h, s)
      PROVE  MirrorType'
  <2> DEFINE u == SessionUser[s]
  <2>1. u \in User
    BY AccessParameters
  <2>2. user' \subseteq User /\ generation' \in [User -> Nat] /\ known' = known
    BY <1>4, <2>1 DEF resolveUserFromToken, upsertUser, MirrorType
  <2>3. lastClaim' \in [Pair -> 0..Stale]
    BY <1>4, Ages DEF resolveUserFromToken, MirrorType
  <2>4. [pc |-> "write", user |-> u, generation |-> generation'[u],
         todo |-> claims[s] \cap known, age |-> 0] \in Mirroring
    BY <2>1, <2>2, Ages DEF Mirroring, MirrorType
  <2>5. lastSync' \in [User -> 0..Never]
    BY <1>4, <2>1 DEF resolveUserFromToken, MirrorType, Never
  <2>6. \/ UNCHANGED handler
        \/ \E r \in {Idle} \cup Mirroring : Become(h, r)
    BY <1>4, <2>4 DEF resolveUserFromToken
  <2>7. handler' \in [Handler -> {Idle} \cup Mirroring]
    BY <2>6 DEF Become, MirrorType
  <2> QED
    BY <1>4, <2>2, <2>3, <2>5, <2>7 DEF resolveUserFromToken, MirrorType, cache
<1>5. ASSUME NEW h \in Handler, NEW o \in Org, WriteMember(h, o)
      PROVE  MirrorType'
  <2>1. handler[h] \in Mirroring
    BY <1>5 DEF WriteMember, MirrorType, Idle
  <2>2. /\ [handler[h] EXCEPT !.todo = handler[h].todo \ {o}] \in Mirroring
        /\ handler[h].age \in 0..Stale
    BY <2>1 DEF Mirroring
  <2>3. handler' \in [Handler -> {Idle} \cup Mirroring]
    BY <1>5, <2>2 DEF WriteMember, Become, MirrorType
  <2>4. mirror' \in [Pair -> 0..Stale]
    BY <1>5, <2>2 DEF WriteMember, MirrorType
  <2> QED
    BY <1>5, <2>3, <2>4 DEF WriteMember, MirrorType, cache, rows
<1>6. ASSUME NEW h \in Handler, SyncFails(h)
      PROVE  MirrorType'
  BY <1>6 DEF SyncFails, Become, MirrorType, cache, rows
<1>7. ASSUME NEW o \in Org, createOrganization(o)
      PROVE  MirrorType'
  BY <1>7 DEF createOrganization, MirrorType, cache
<1>8. ASSUME NEW u \in User, handleUserDeleted(u)
      PROVE  MirrorType'
  BY <1>8, Ages DEF handleUserDeleted, deleteUser, MirrorType, cache
<1>9. CASE Restart
  <2>1. /\ fetched' = {} /\ claims' = [s \in Session |-> {}]
        /\ lastSync' = [u \in User |-> Never] /\ handler' = [h \in Handler |-> Idle]
        /\ UNCHANGED <<rows, mirror, lastClaim>>
    BY <1>9 DEF Restart
  <2> QED
    BY <2>1 DEF MirrorType, rows, Never
<1>10. ASSUME \/ \E p \in Pair : ChangeMembership(p)
              \/ \E x \in User \cup Org : DeleteUpstream(x)
              \/ \E o \in Org : handleOrganizationDeleted(o)
       PROVE  MirrorType'
  BY <1>1, <1>10 DEF ChangeMembership, DeleteUpstream, handleOrganizationDeleted, cache, rows
<1>11. ASSUME NEW t \in Token,
              \/ \E u \in User, requested \in Whitelist : InsertToken(t, u, requested)
              \/ InsertScope(t) \/ deletePersonalAccessToken(t)
       PROVE  MirrorType'
  BY <1>1, <1>11 DEF InsertToken, InsertScope, deletePersonalAccessToken, cache, rows
<1>12. ASSUME NEW r \in Repo, deleteRepository(r)
       PROVE  MirrorType'
  BY <1>1, <1>12 DEF deleteRepository, cache, rows
<1>13. CASE UNCHANGED vars
  BY <1>1, <1>13 DEF vars, cache
<1> QED
  BY <1>2, <1>3, <1>4, <1>5, <1>6, <1>7, <1>8, <1>9, <1>10, <1>11, <1>12, <1>13 DEF Next

\* Every variable keeps its type, for any users, organizations and tokens.
THEOREM TypeCorrect == Spec => []TypeOK
<1>1. TypeOK /\ [Next]_vars => TypeOK'
  <2> SUFFICES ASSUME TypeOK, [Next]_vars PROVE TypeOK'
      OBVIOUS
  <2>1. MirrorType' /\ TokenType'
    BY TypeParts, MirrorStep, TokenStep DEF MirrorType
  <2> QED
    BY <2>1 DEF TypeOK, MirrorType, TokenType
<1> QED
  BY <1>1, TypeInit, PTL DEF Spec

-----------------------------------------------------------------------------
(***************************************************************************)
(* Confinement.  A token that is held lists what it was created for, as    *)
(* far as it is left.                                                      *)
(***************************************************************************)

HeldListsWhatIsLeft ==
  \A t \in Token :
    token[t].state = "held" => token[t].repositories = token[t].requested \cap live

LEMMA HeldStep == TypeOK /\ HeldListsWhatIsLeft /\ [Next]_vars => HeldListsWhatIsLeft'
<1> SUFFICES ASSUME TypeOK, HeldListsWhatIsLeft, [Next]_vars PROVE HeldListsWhatIsLeft'
    OBVIOUS
<1>1. CASE UNCHANGED <<live, token>>
  BY <1>1 DEF HeldListsWhatIsLeft
<1>2. ASSUME NEW t \in Token, NEW r, SetToken(t, r), UNCHANGED live,
             r.state = "held" => r.repositories = r.requested \cap live
      PROVE  HeldListsWhatIsLeft'
  BY <1>2 DEF HeldListsWhatIsLeft, SetToken, TypeOK
<1>3. ASSUME NEW t \in Token, NEW u \in User, NEW requested \in Whitelist,
             InsertToken(t, u, requested)
      PROVE  HeldListsWhatIsLeft'
  BY <1>2, <1>3 DEF InsertToken
<1>4. ASSUME NEW t \in Token, InsertScope(t)
      PROVE  HeldListsWhatIsLeft'
  <2>1. token[t] \in Credential
    BY DEF TypeOK
  <2> DEFINE whole  == [token[t] EXCEPT !.state = "held", !.repositories = token[t].requested]
             failed == [token[t] EXCEPT !.state = "unreturned", !.requested = {}]
  <2>2. /\ whole.requested = token[t].requested /\ whole.repositories = token[t].requested
        /\ failed.state = "unreturned"
    BY <2>1 DEF Credential
  <2>3. CASE token[t].requested \subseteq live /\ SetToken(t, whole)
    <3> HIDE DEF whole
    <3> QED
      BY <1>2, <1>4, <2>2, <2>3 DEF InsertScope
  <2>4. CASE SetToken(t, failed)
    <3> HIDE DEF failed
    <3> QED
      BY <1>2, <1>4, <2>2, <2>4 DEF InsertScope
  <2> QED
    BY <1>4, <2>3, <2>4 DEF InsertScope
<1>5. ASSUME NEW t \in Token, deletePersonalAccessToken(t)
      PROVE  HeldListsWhatIsLeft'
  <2>1. GoneToken.state = "gone"
    BY DEF GoneToken, NoToken
  <2> QED
    BY <1>2, <1>5, <2>1 DEF deletePersonalAccessToken
<1>6. ASSUME NEW r \in Repo, deleteRepository(r)
      PROVE  HeldListsWhatIsLeft'
  <2>1. \A t \in Token : /\ token'[t].state = token[t].state
                         /\ token'[t].requested = token[t].requested
                         /\ token'[t].repositories = token[t].repositories \ {r}
    BY <1>6 DEF deleteRepository, TypeOK, Credential
  <2>2. live' = live \ {r}
    BY <1>6 DEF deleteRepository
  <2> QED
    BY <2>1, <2>2 DEF HeldListsWhatIsLeft
<1>7. ASSUME NEW u \in User, handleUserDeleted(u)
      PROVE  HeldListsWhatIsLeft'
  <2>1. GoneToken.state = "gone"
    BY DEF GoneToken, NoToken
  <2>2. \A t \in Token : token'[t] \in {token[t], GoneToken}
    BY <1>7 DEF handleUserDeleted, deleteUser
  <2>3. live' = live
    BY <1>7 DEF handleUserDeleted
  <2> QED
    BY <2>1, <2>2, <2>3 DEF HeldListsWhatIsLeft
<1>8. CASE Restart
  <2>1. \A t \in Token : token'[t] = token[t] \/ token'[t].state = "unreturned"
    BY <1>8 DEF Restart, TypeOK, Credential
  <2>2. live' = live
    BY <1>8 DEF Restart
  <2> QED
    BY <2>1, <2>2 DEF HeldListsWhatIsLeft
<1> QED
  BY <1>1, <1>3, <1>4, <1>5, <1>6, <1>7, <1>8
     DEF Next, vars, ChangeMembership, DeleteUpstream, Tick, fetchUserInfoClaims,
         resolveUserFromToken, SyncFails, WriteMember, createOrganization, handleOrganizationDeleted

\* A token created for some repositories is never honoured unconfined, nor for another
\* repository, while one of them is left (auth/personalAccessToken.ts).
THEOREM ConfinedTokensStayConfined == Spec => []HeldTokensStayConfined
<1>1. Init => HeldListsWhatIsLeft
  BY DEF Init, HeldListsWhatIsLeft, NoToken
<1>2. HeldListsWhatIsLeft => HeldTokensStayConfined
  BY DEF HeldListsWhatIsLeft, HeldTokensStayConfined, Honoured, resolveTokenScope
<1> QED
  BY <1>1, <1>2, TypeCorrect, HeldStep, PTL DEF Spec

-----------------------------------------------------------------------------
(***************************************************************************)
(* The mirror.  A row is never younger than the last session that claimed  *)
(* the membership, nor will be when a mirroring under way writes it: the   *)
(* age of the claim travels with the mirroring.                            *)
(***************************************************************************)

NoRowIsYoungerThanItsClaim ==
  /\ \A p \in Pair : lastClaim[p] <= mirror[p]
  /\ \A h \in Handler : handler[h].pc = "write" =>
       \A o \in handler[h].todo : lastClaim[<<handler[h].user, o>>] <= handler[h].age

LEMMA MirrorIsClaimedStep ==
  TypeOK /\ NoRowIsYoungerThanItsClaim /\ [Next]_vars => NoRowIsYoungerThanItsClaim'
<1> SUFFICES ASSUME TypeOK, NoRowIsYoungerThanItsClaim, [Next]_vars
             PROVE  NoRowIsYoungerThanItsClaim'
    OBVIOUS
<1>1. CASE UNCHANGED <<mirror, lastClaim, handler>>
  BY <1>1 DEF NoRowIsYoungerThanItsClaim
<1>a. \A h \in Handler : handler[h].pc = "write" => handler[h] \in Mirroring
  BY DEF TypeOK, Idle
<1>2. CASE Tick
  <2>1. \A p \in Pair : lastClaim'[p] <= mirror'[p]
    BY <1>2, Ages DEF Tick, TypeOK, NoRowIsYoungerThanItsClaim
  <2>2. ASSUME NEW h \in Handler, handler'[h].pc = "write", NEW o \in handler'[h].todo
        PROVE  lastClaim'[<<handler'[h].user, o>>] <= handler'[h].age
    <3>1. handler[h] \in Mirroring
      BY <1>2, <2>2 DEF Tick, TypeOK, Idle
    <3>2. /\ handler'[h].user = handler[h].user /\ handler'[h].todo = handler[h].todo
          /\ handler'[h].age = Older(handler[h].age)
      BY <1>2, <3>1 DEF Tick, TypeOK, Mirroring
    <3>3. /\ <<handler[h].user, o>> \in Pair /\ handler[h].age \in 0..Stale
          /\ lastClaim[<<handler[h].user, o>>] <= handler[h].age
      BY <2>2, <3>1, <3>2 DEF Mirroring, Pair, NoRowIsYoungerThanItsClaim
    <3>4. lastClaim'[<<handler[h].user, o>>] = Older(lastClaim[<<handler[h].user, o>>])
      BY <1>2, <3>3 DEF Tick
    <3> QED
      BY <3>2, <3>3, <3>4, Ages DEF TypeOK
  <2> QED
    BY <2>1, <2>2 DEF NoRowIsYoungerThanItsClaim
<1>3. ASSUME NEW h \in Handler, NEW s \in Session, resolveUserFromToken(h, s)
      PROVE  NoRowIsYoungerThanItsClaim'
  <2> DEFINE u == SessionUser[s]
             r == [pc |-> "write", user |-> u, generation |-> generation'[u],
                   todo |-> claims[s] \cap known, age |-> 0]
  <2>1. /\ mirror' = mirror
        /\ \A p \in Pair : lastClaim'[p] <= lastClaim[p] /\ lastClaim'[p] \in 0..Stale
        /\ \A o \in claims[s] : lastClaim'[<<u, o>>] = 0
    BY <1>3, Ages, AccessParameters DEF resolveUserFromToken, TypeOK, Pair
  <2>2. UNCHANGED handler \/ Become(h, Idle) \/ Become(h, r)
    BY <1>3 DEF resolveUserFromToken
  <2>3. \A p \in Pair : lastClaim'[p] <= mirror'[p]
    BY <2>1, Ages DEF NoRowIsYoungerThanItsClaim, TypeOK
  <2>4. ASSUME NEW g \in Handler, handler'[g].pc = "write", NEW o \in handler'[g].todo
        PROVE  lastClaim'[<<handler'[g].user, o>>] <= handler'[g].age
    <3>1. CASE handler'[g] = r
      BY <2>1, <2>4, <3>1
    <3>2. CASE handler'[g] = handler[g]
      <4>1. /\ handler[g] \in Mirroring
            /\ lastClaim[<<handler[g].user, o>>] <= handler[g].age
        BY <1>a, <2>4, <3>2 DEF NoRowIsYoungerThanItsClaim
      <4>2. <<handler[g].user, o>> \in Pair /\ handler[g].age \in 0..Stale
        BY <2>4, <3>2, <4>1 DEF Mirroring, Pair
      <4>3. /\ lastClaim'[<<handler[g].user, o>>] <= lastClaim[<<handler[g].user, o>>]
            /\ lastClaim'[<<handler[g].user, o>>] \in 0..Stale
            /\ lastClaim[<<handler[g].user, o>>] \in 0..Stale
        BY <2>1, <4>2 DEF TypeOK
      <4> QED
        BY <3>2, <4>1, <4>2, <4>3, Ages
    <3>3. CASE handler'[g] = Idle
      BY <2>4, <3>3 DEF Idle
    <3> QED
      BY <2>2, <3>1, <3>2, <3>3 DEF Become, TypeOK
  <2> QED
    BY <2>3, <2>4 DEF NoRowIsYoungerThanItsClaim
<1>4. ASSUME NEW h \in Handler, NEW o \in Org, WriteMember(h, o)
      PROVE  NoRowIsYoungerThanItsClaim'
  <2>1. handler[h] \in Mirroring /\ o \in handler[h].todo
    BY <1>4, <1>a DEF WriteMember
  <2>2. /\ lastClaim' = lastClaim
        /\ mirror' = [mirror EXCEPT ![<<handler[h].user, o>>] = handler[h].age]
    BY <1>4 DEF WriteMember
  <2>3. \A p \in Pair : lastClaim'[p] <= mirror'[p]
    BY <1>4, <2>1, <2>2 DEF WriteMember, NoRowIsYoungerThanItsClaim, TypeOK
  <2> DEFINE r == [handler[h] EXCEPT !.todo = handler[h].todo \ {o}]
  <2>4. /\ r.user = handler[h].user /\ r.age = handler[h].age
        /\ r.todo \subseteq handler[h].todo
    BY <2>1 DEF Mirroring
  <2>5. Become(h, Idle) \/ Become(h, r)
    BY <1>4 DEF WriteMember
  <2> HIDE DEF r
  <2>6. ASSUME NEW g \in Handler, handler'[g].pc = "write", NEW q \in handler'[g].todo
        PROVE  lastClaim[<<handler'[g].user, q>>] <= handler'[g].age
    <3>1. \/ handler'[g] = handler[g]
          \/ handler'[g] = Idle
          \/ g = h /\ handler'[g] = r
      BY <2>5 DEF Become, TypeOK
    <3> QED
      BY <1>4, <2>4, <2>6, <3>1 DEF NoRowIsYoungerThanItsClaim, Idle, WriteMember
  <2> QED
    BY <2>2, <2>3, <2>6 DEF NoRowIsYoungerThanItsClaim
<1>5. ASSUME NEW h \in Handler, SyncFails(h)
      PROVE  NoRowIsYoungerThanItsClaim'
  BY <1>5 DEF SyncFails, Become, NoRowIsYoungerThanItsClaim, TypeOK, Idle
<1>6. ASSUME NEW u \in User, handleUserDeleted(u)
      PROVE  NoRowIsYoungerThanItsClaim'
  <2>1. \A p \in Pair : mirror'[p] \in {mirror[p], Stale}
    BY <1>6 DEF handleUserDeleted, deleteUser
  <2>2. UNCHANGED <<handler, lastClaim>>
    BY <1>6 DEF handleUserDeleted
  <2>3. \A p \in Pair : lastClaim[p] <= Stale
    BY Ages DEF TypeOK
  <2> QED
    BY <2>1, <2>2, <2>3 DEF NoRowIsYoungerThanItsClaim
<1>7. CASE Restart
  BY <1>7 DEF Restart, NoRowIsYoungerThanItsClaim, Idle
<1>8. ASSUME \/ \E p \in Pair : ChangeMembership(p)
             \/ \E x \in User \cup Org : DeleteUpstream(x)
             \/ \E o \in Org : createOrganization(o) \/ handleOrganizationDeleted(o)
             \/ \E s \in Session : fetchUserInfoClaims(s)
      PROVE  NoRowIsYoungerThanItsClaim'
  BY <1>1, <1>8 DEF ChangeMembership, DeleteUpstream, createOrganization,
                    handleOrganizationDeleted, fetchUserInfoClaims
<1>9. ASSUME \/ \E t \in Token : \/ \E u \in User, requested \in Whitelist :
                                     InsertToken(t, u, requested)
                                \/ InsertScope(t) \/ deletePersonalAccessToken(t)
             \/ \E r \in Repo : deleteRepository(r)
      PROVE  NoRowIsYoungerThanItsClaim'
  BY <1>1, <1>9 DEF InsertToken, InsertScope, deletePersonalAccessToken, deleteRepository
<1>10. CASE UNCHANGED vars
  BY <1>1, <1>10 DEF vars
<1> QED
  BY <1>2, <1>3, <1>4, <1>5, <1>6, <1>7, <1>8, <1>9, <1>10 DEF Next

\* An organization a personal access token may act in was claimed by a session within
\* the TTL, however late and in whatever order the mirrorings wrote
\* (auth/organizationMembership.ts).
THEOREM HonouredMeansClaimed == Spec => []HonouredMembershipWasClaimed
<1>1. Init => NoRowIsYoungerThanItsClaim
  BY Ages DEF Init, NoRowIsYoungerThanItsClaim, Idle
<1>2. TypeOK /\ NoRowIsYoungerThanItsClaim => HonouredMembershipWasClaimed
  <2> SUFFICES ASSUME TypeOK, NoRowIsYoungerThanItsClaim,
                      NEW u \in User, NEW o \in readOrganizationClaims(u)
               PROVE  lastClaim[<<u, o>>] <= TTL
      BY DEF HonouredMembershipWasClaimed
  <2>1. <<u, o>> \in Pair /\ mirror[<<u, o>>] <= TTL
    BY DEF readOrganizationClaims, isMembershipFresh, TypeOK, Pair
  <2>2. /\ lastClaim[<<u, o>>] \in 0..Stale /\ mirror[<<u, o>>] \in 0..Stale
        /\ lastClaim[<<u, o>>] <= mirror[<<u, o>>]
    BY <2>1 DEF TypeOK, NoRowIsYoungerThanItsClaim
  <2> QED
    BY <2>1, <2>2, Ages
<1> QED
  BY <1>1, <1>2, TypeCorrect, MirrorIsClaimedStep, PTL DEF Spec
=============================================================================
