----------------------------- MODULE Visibility -----------------------------
(***************************************************************************)
(* What GraphQL lets a caller read: the wrappers of                        *)
(* authorization/RepositoryRead.plugin.ts, the row-level policies of       *)
(* db/schema/rowLevelSecurity.ts, and the paid tiers of the graph views    *)
(* (entitlements/index.ts).                                                *)
(*                                                                         *)
(* Reads go by the mirror of the memberships: db.organizationMembers is a  *)
(* set of [organizationId, userId].  The other tables of db are sets of    *)
(* rows; a user id is NULL for an anonymous caller, and NULL matches no    *)
(* column, as in SQL.                                                      *)
(***************************************************************************)
EXTENDS Authority, FiniteSetsExt

Ids(rows) == {row.id : row \in rows}

Matches(column, userId) == userId # NULL /\ column = userId

observerOrganizationIds(db, userId) ==
  {m.organizationId : m \in {n \in db.organizationMembers : Matches(n.userId, userId)}}

\* Mutant: a collaborator reads only what he may write
visibleToWriters(db, userId) ==
  {r \in db.repositories :
     \/ r.visibility = "public"
     \/ Matches(r.ownerId, userId)
     \/ userId \in DOMAIN r.collaborators /\ r.collaborators[userId] # "read"
     \/ r.organizationId \in observerOrganizationIds(db, userId)}

scopeToVisible(db, userId) ==
  {r \in db.repositories :
     \/ r.visibility = "public"
     \/ Matches(r.ownerId, userId)
     \/ userId \in DOMAIN r.collaborators
     \/ r.organizationId \in observerOrganizationIds(db, userId)}

visibleRepositoryIds(db, userId) == Ids(scopeToVisible(db, userId))

scopeByRepository(rows, column, ids) == {row \in rows : row[column] \in ids}

\* The column that refers to the parent whose rows are visible
direct          == "repositoryId"
viaPullRequest  == "pullRequestId"
viaChange       == "changeId"
viaRelationship == "relationshipId"
viaToken        == "personalAccessTokenId"
viaOrganization == "organizationId"
own             == "id"

visiblePullRequestIds(db, userId) ==
  Ids(scopeByRepository(db.pullRequests, direct, visibleRepositoryIds(db, userId)))

visibleChangeIds(db, userId) ==
  Ids(scopeByRepository(db.changes, direct, visibleRepositoryIds(db, userId)))

\* Owned, or of an organization of the caller: agents, projects and topics
OwnedOrShared(db, rows, userId) ==
  {row \in rows : \/ Matches(row.ownerId, userId)
                  \/ row.organizationId \in observerOrganizationIds(db, userId)}

visibleProjectIds(db, userId) == Ids(OwnedOrShared(db, db.projects, userId))

visibleTopicIds(db, userId) == Ids(OwnedOrShared(db, db.topics, userId))

visibleRelationshipIds(db, userId) ==
  LET ids == visibleRepositoryIds(db, userId)
  IN  Ids({r \in db.relationships : r.source \in ids /\ r.target \in ids})

visibleMembershipIds(db, userId) ==
  Ids({m \in db.projectRepositories :
         /\ m.projectId \in visibleProjectIds(db, userId)
         /\ m.repositoryId \in visibleRepositoryIds(db, userId)})

visibleTopicMembershipIds(db, userId) ==
  Ids({m \in db.topicPullRequests :
         /\ m.topicId \in visibleTopicIds(db, userId)
         /\ m.pullRequestId \in visiblePullRequestIds(db, userId)})

visibleTokenIds(db, userId) == Ids({t \in db.tokens : Matches(t.userId, userId)})

scopeAgentsToCaller(db, userId) == OwnedOrShared(db, db.agents, userId)

scopeRelationshipTypesToCaller(db, userId) ==
  {t \in db.relationshipTypes :
     t.organizationId = NULL \/ t.organizationId \in observerOrganizationIds(db, userId)}

scopeOrganizationsToCaller(db, userId) ==
  {o \in db.organizations : o.id \in observerOrganizationIds(db, userId)}

\* One connection of the schema per field, with the wrapper put around it
RepositoryReadPlugin(db, userId) ==
  LET repositories == visibleRepositoryIds(db, userId)
      edges        == visibleRelationshipIds(db, userId)
  IN [repositories        |-> scopeToVisible(db, userId),
      pullRequests        |-> scopeByRepository(db.pullRequests, direct, repositories),
      stacks              |-> scopeByRepository(db.stacks, direct, repositories),
      changes             |-> scopeByRepository(db.changes, direct, repositories),
      pullRequestComments |-> scopeByRepository(db.pullRequestComments, viaPullRequest,
                                                visiblePullRequestIds(db, userId)),
      pullRequestReviews  |-> scopeByRepository(db.pullRequestReviews, viaPullRequest,
                                                visiblePullRequestIds(db, userId)),
      verificationChecks  |-> scopeByRepository(db.verificationChecks, viaChange,
                                                visibleChangeIds(db, userId)),
      externalDependencies |-> scopeByRepository(db.externalDependencies, direct, repositories),
      mergeBatches        |-> scopeByRepository(db.mergeBatches, direct, repositories),
      mergeQueueEntries   |-> scopeByRepository(db.mergeQueueEntries, direct, repositories),
      repositoryCollaborators |-> scopeByRepository(db.repositoryCollaborators, direct,
                                                    repositories),
      projects            |-> scopeByRepository(db.projects, own,
                                                visibleProjectIds(db, userId)),
      projectRepositories |-> scopeByRepository(db.projectRepositories, own,
                                                visibleMembershipIds(db, userId)),
      topics              |-> scopeByRepository(db.topics, own, visibleTopicIds(db, userId)),
      topicPullRequests   |-> scopeByRepository(db.topicPullRequests, own,
                                                visibleTopicMembershipIds(db, userId)),
      relationships       |-> scopeByRepository(db.relationships, own, edges),
      relationshipMetadata |-> scopeByRepository(db.relationshipMetadata,
                                                 viaRelationship, edges),
      relationshipTypes   |-> scopeRelationshipTypesToCaller(db, userId),
      tokenRepositories   |-> scopeByRepository(db.tokenRepositories, viaToken,
                                                visibleTokenIds(db, userId)),
      agents              |-> scopeAgentsToCaller(db, userId),
      organizations       |-> scopeOrganizationsToCaller(db, userId),
      organizationMembers |-> scopeByRepository(db.organizationMembers, viaOrganization,
                                                observerOrganizationIds(db, userId))]

-----------------------------------------------------------------------------
(* The same rows under the policies of PostgreSQL.  A derived table asks   *)
(* for its parent, which the parent's own policy filters in turn.          *)

repositoryVisible(db, observerId) ==
  {r \in db.repositories :
     \/ r.visibility = "public"
     \/ Matches(r.ownerId, observerId)
     \/ observerId \in DOMAIN r.collaborators
     \/ \E m \in db.organizationMembers :
          m.organizationId = r.organizationId /\ Matches(m.userId, observerId)}

derivedFrom(rows, column, parents) == {row \in rows : row[column] \in Ids(parents)}

agentVisible(db, observerId) ==
  {a \in db.agents :
     \/ Matches(a.ownerId, observerId)
     \/ \E m \in db.organizationMembers :
          m.organizationId = a.organizationId /\ Matches(m.userId, observerId)}

organizationVisible(db, observerId) ==
  {o \in db.organizations :
     \E m \in db.organizationMembers :
       m.organizationId = o.id /\ Matches(m.userId, observerId)}

readPolicies(db, observerId) ==
  LET repositories == repositoryVisible(db, observerId)
      pullRequests == derivedFrom(db.pullRequests, direct, repositories)
      changes      == derivedFrom(db.changes, direct, repositories)
  IN [repositories        |-> repositories,
      pullRequests        |-> pullRequests,
      pullRequestComments |-> derivedFrom(db.pullRequestComments, viaPullRequest, pullRequests),
      pullRequestReviews  |-> derivedFrom(db.pullRequestReviews, viaPullRequest, pullRequests),
      stacks              |-> derivedFrom(db.stacks, direct, repositories),
      changes             |-> changes,
      verificationChecks  |-> derivedFrom(db.verificationChecks, viaChange, changes),
      agents              |-> agentVisible(db, observerId),
      organizations       |-> organizationVisible(db, observerId)]

-----------------------------------------------------------------------------
(* Paid graph views.  plans maps an organization to [bypass, explicit,     *)
(* tier]: its exemption, the level its entitlements name (NULL for none)   *)
(* and its tier.                                                           *)

GRAPH_LEVEL == [BASIC |-> 0, ORG |-> 1, BLAST_RADIUS |-> 2]

\* The tiers of the table of default limits: enterprise is not one of them
DEFAULT_LIMITS == [free |-> 0, pro |-> 1, team |-> 2]

tierFromEntitlements(plan) == IF plan.tier = NULL THEN "free" ELSE plan.tier

getOrganizationGraphLevel(plans, organization) ==
  LET plan == plans[organization]
      tier == tierFromEntitlements(plan)
  IN  IF plan.bypass THEN DEFAULT_LIMITS.team
      ELSE IF plan.explicit # NULL THEN plan.explicit
      ELSE IF tier \in DOMAIN DEFAULT_LIMITS THEN DEFAULT_LIMITS[tier]
      ELSE 0

requireGraphLevel(plans, organization, level) ==
  level <= IF organization = NULL THEN GRAPH_LEVEL.BASIC
           ELSE getOrganizationGraphLevel(plans, organization)

getUserMaxGraphLevel(db, plans, userId) ==
  Max({GRAPH_LEVEL.BASIC} \cup {getOrganizationGraphLevel(plans, o) :
                                  o \in observerOrganizationIds(db, userId)})

requireUserGraphLevel(db, plans, userId, level) ==
  level <= getUserMaxGraphLevel(db, plans, userId)

\* Query.polyrepoGraphAccess asks for the viewer's own plan
polyrepoGraphAccess(db, plans, userId) ==
  userId # NULL /\ requireUserGraphLevel(db, plans, userId, GRAPH_LEVEL.ORG)

\* Query.repositoryBlastRadius asks for the plan of the repository's side
BlastRadiusIsPaid(db, plans, row) ==
  IF row.organizationId # NULL
    THEN requireGraphLevel(plans, row.organizationId, GRAPH_LEVEL.BLAST_RADIUS)
    ELSE requireUserGraphLevel(db, plans, row.ownerId, GRAPH_LEVEL.BLAST_RADIUS)
=============================================================================
