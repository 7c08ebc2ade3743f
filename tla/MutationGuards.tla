--------------------------- MODULE MutationGuards ---------------------------
(***************************************************************************)
(* The checks the plugins of graphql/plugins/authorization wrap around the *)
(* generated mutations.  The guards are written plugin by plugin, each     *)
(* with its own reading of the same rows; an operator here is TRUE when    *)
(* the wrapper lets the mutation through.  A row that does not exist is    *)
(* NULL.  c is the observer with the organizations of his claims, NULL     *)
(* for an anonymous caller.                                                *)
(***************************************************************************)
EXTENDS Visibility

ById(rows, id) ==
  IF \E row \in rows : row.id = id THEN CHOOSE row \in rows : row.id = id ELSE NULL

\* RepositoryRelationship, PullRequest, Project and Topic each have this one
hasWriteAccess(db, repositoryId, userId) ==
  LET row == ById(db.repositories, repositoryId)
  IN  /\ row # NULL
      /\ \/ row.ownerId = userId
         \/ findCollaborator(row, userId) \in {"write", "admin"}

\* BranchProtectionRule and RepositoryCollaborator
hasAdminAccess(db, repositoryId, userId) ==
  LET row == ById(db.repositories, repositoryId)
  IN  /\ row # NULL
      /\ row.ownerId = userId \/ findCollaborator(row, userId) = "admin"

\* Mutant: somebody else's private repository is open to any signed-in user
hasAnyReadAccess(db, repositoryId, userId) == ById(db.repositories, repositoryId) # NULL

\* PullRequestComment and PullRequestReview
hasReadAccess(db, repositoryId, userId) ==
  LET row == ById(db.repositories, repositoryId)
  IN  /\ row # NULL
      /\ \/ row.visibility = "public"
         \/ row.ownerId = userId
         \/ userId \in DOMAIN row.collaborators

hasOrgAdminRole(organizations, organization) ==
  /\ organization \in DOMAIN organizations
  /\ organizations[organization] \cap {"admin", "owner"} # {}

-----------------------------------------------------------------------------
(* Pull requests, reviews and comments *)

createPullRequest(db, c, repositoryId) ==
  c # NULL /\ hasWriteAccess(db, repositoryId, c.user)

updatePullRequest(db, c, id) ==
  LET pull == ById(db.pullRequests, id)
  IN  /\ c # NULL /\ pull # NULL
      /\ pull.authorId = c.user \/ hasAdminAccess(db, pull.repositoryId, c.user)

deletePullRequest(db, c, id) ==
  LET pull == ById(db.pullRequests, id)
  IN  /\ c # NULL /\ pull # NULL
      /\ \/ pull.authorId = c.user
         \/ ById(db.repositories, pull.repositoryId).ownerId = c.user

\* A client names the reviewer, or the author, and may only name himself
createPullRequestReview(db, c, pullRequestId, reviewerId) ==
  LET pull == ById(db.pullRequests, pullRequestId)
  IN  /\ c # NULL /\ reviewerId = c.user /\ pull # NULL
      /\ hasReadAccess(db, pull.repositoryId, c.user)

modifyPullRequestReview(c, review) ==
  c # NULL /\ review # NULL /\ review.reviewerId = c.user

createPullRequestComment(db, c, pullRequestId, authorId) ==
  LET pull == ById(db.pullRequests, pullRequestId)
  IN  /\ c # NULL /\ authorId = c.user /\ pull # NULL
      /\ hasReadAccess(db, pull.repositoryId, c.user)

modifyPullRequestComment(c, comment) ==
  c # NULL /\ comment # NULL /\ comment.authorId = c.user

-----------------------------------------------------------------------------
(* Repositories, collaborators and branch protection *)

\* underLimit is the answer of the entitlements, asked for organizations only
createRepository(c, organizationId, visibility, underLimit) ==
  /\ c # NULL
  /\ organizationId # NULL => /\ organizationId \in DOMAIN c.organizations
                              /\ visibility = "private" => underLimit

\* The guard of renameRepository too
updateRepository(db, c, id) == c # NULL /\ hasAdminAccess(db, id, c.user)

deleteRepository(db, c, id) ==
  LET row == ById(db.repositories, id)
  IN  c # NULL /\ row # NULL /\ row.ownerId = c.user

createRepositoryCollaborator(db, c, repositoryId, underLimit) ==
  /\ c # NULL
  /\ hasAdminAccess(db, repositoryId, c.user)
  /\ ById(db.repositories, repositoryId).organizationId # NULL => underLimit

\* The owner's implicit permission is neither changed nor removed.  The update
\* asks of the repository and the user its patch names, not of the row's own
\* (RepositoryCollaborator.plugin.ts:161); the delete asks of the row itself, which
\* the two name.
updateRepositoryCollaborator(db, c, repositoryId, userId) ==
  /\ c # NULL
  /\ hasAdminAccess(db, repositoryId, c.user)
  /\ userId # ById(db.repositories, repositoryId).ownerId

deleteRepositoryCollaborator(db, c, repositoryId, userId) ==
  /\ c # NULL
  /\ hasAdminAccess(db, repositoryId, c.user)
  /\ userId # ById(db.repositories, repositoryId).ownerId

createBranchProtectionRule(db, c, repositoryId) ==
  c # NULL /\ hasAdminAccess(db, repositoryId, c.user)

modifyBranchProtectionRule(db, c, rule) ==
  c # NULL /\ rule # NULL /\ hasAdminAccess(db, rule.repositoryId, c.user)

-----------------------------------------------------------------------------
(* The dependency graph: an edge belongs to its source *)

createRepositoryRelationship(db, c, sourceRepositoryId) ==
  c # NULL /\ hasWriteAccess(db, sourceRepositoryId, c.user)

modifyRepositoryRelationship(db, c, id) ==
  LET edge == ById(db.relationships, id)
  IN  c # NULL /\ edge # NULL /\ hasWriteAccess(db, edge.source, c.user)

createRelationshipMetadatum(db, c, relationshipId) ==
  modifyRepositoryRelationship(db, c, relationshipId)

modifyRelationshipMetadatum(db, c, id) ==
  LET metadatum == ById(db.relationshipMetadata, id)
  IN  metadatum # NULL /\ modifyRepositoryRelationship(db, c, metadatum.relationshipId)

\* A type without an organization is the system's, which nobody may touch
createRelationshipType(c, organizationId) ==
  c # NULL /\ organizationId # NULL /\ hasOrgAdminRole(c.organizations, organizationId)

modifyRelationshipType(db, c, id) ==
  LET type == ById(db.relationshipTypes, id)
  IN  type # NULL /\ createRelationshipType(c, type.organizationId)

createExternalDependency(db, c, repositoryId) ==
  c # NULL /\ hasWriteAccess(db, repositoryId, c.user)

-----------------------------------------------------------------------------
(* Projects and topics *)

canCreateProject(record, c) ==
  /\ record.ownerId = c.user
  /\ record.organizationId = NULL \/ hasOrgAdminRole(c.organizations, record.organizationId)

canAdministerProject(record, c) ==
  \/ record.ownerId = c.user
  \/ record.organizationId # NULL /\ hasOrgAdminRole(c.organizations, record.organizationId)

createProject(c, ownerId, organizationId) ==
  c # NULL /\ canCreateProject([ownerId |-> ownerId, organizationId |-> organizationId], c)

administerProject(db, c, id) ==
  LET project == ById(db.projects, id)
  IN  c # NULL /\ project # NULL /\ canAdministerProject(project, c)

createProjectRepository(db, c, projectId, repositoryId) ==
  administerProject(db, c, projectId) /\ hasWriteAccess(db, repositoryId, c.user)

modifyProjectRepository(db, c, id) ==
  LET member == ById(db.projectRepositories, id)
  IN  member # NULL /\ administerProject(db, c, member.projectId)

createTopic(c, ownerId, organizationId) ==
  c # NULL /\ canCreateProject([ownerId |-> ownerId, organizationId |-> organizationId], c)

administerTopic(db, c, id) ==
  LET topic == ById(db.topics, id)
  IN  c # NULL /\ topic # NULL /\ canAdministerProject(topic, c)

createTopicPullRequest(db, c, topicId, pullRequestId) ==
  LET pull == ById(db.pullRequests, pullRequestId)
  IN  /\ administerTopic(db, c, topicId)
      /\ pull # NULL
      /\ hasWriteAccess(db, pull.repositoryId, c.user)

modifyTopicPullRequest(db, c, id) ==
  LET member == ById(db.topicPullRequests, id)
  IN  member # NULL /\ administerTopic(db, c, member.topicId)

-----------------------------------------------------------------------------
(* Users and organizations.  The policy decision point answers for the     *)
(* organization's roles: "held" is the highest role it knows of.           *)

createUser(c) == FALSE

modifyUser(c, id) == c # NULL /\ id = c.user

\* exists: what the identity provider says of the organization named
createOrganization(c, named, exists) ==
  c # NULL /\ (named # NULL \/ DOMAIN c.organizations # {}) /\ exists

updateOrganization(c, held) == c # NULL /\ held \in {"admin", "owner"}

deleteOrganization(c, held) == c # NULL /\ held = "owner"
=============================================================================
