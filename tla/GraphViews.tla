------------------------------ MODULE GraphViews ------------------------------
(***************************************************************************)
(* The answers computed from the graph of repositories for one caller: the *)
(* blast radius of a change, the version drift of a project and the        *)
(* readiness of a topic.  Each service reads the repositories the caller   *)
(* may see by its own query, and computes on those alone.                  *)
(*                                                                         *)
(* An edge is [id, source, target]: the source depends on the target.  A   *)
(* dependency is [repositoryId, package, versionConstraint].               *)
(***************************************************************************)
EXTENDS Visibility, TLC

memberOrgIds(db, userId) ==
  {m.organizationId : m \in {n \in db.organizationMembers : n.userId = userId}}

-----------------------------------------------------------------------------
(* Blast radius *)

dependents(edges, nodes) == {e.source : e \in {f \in edges : f.target \in nodes}}

\* Mutant: a repository met again gets the depth of the last meeting
deepestBlastRadius(edges, root) ==
  LET round[k \in 0 .. Cardinality(edges)] ==
        IF k = 0 THEN [frontier |-> {root}, affected |-> <<>>]
        ELSE LET last == round[k - 1]
                 next == dependents(edges, last.frontier) \ {root}
             IN  [frontier |-> next, affected |-> [n \in next |-> k] @@ last.affected]
  IN  round[Cardinality(edges)].affected

\* A function from the affected repositories to their depths.  No more rounds
\* than edges add anything: a round that adds nothing ends the walk.
computeBlastRadius(edges, root) ==
  LET round[k \in 0 .. Cardinality(edges)] ==
        IF k = 0 THEN [frontier |-> {root}, affected |-> <<>>]
        ELSE LET last    == round[k - 1]
                 visited == {root} \cup DOMAIN last.affected
                 next    == dependents(edges, last.frontier) \ visited
             IN  [frontier |-> next,
                  affected |-> [n \in next \cup DOMAIN last.affected |->
                                  IF n \in next THEN k ELSE last.affected[n]]]
  IN  round[Cardinality(edges)].affected

blastRadiusRepositories(db, userId) ==
  {r \in db.repositories :
     \/ r.visibility = "public"
     \/ userId # NULL /\ \/ r.ownerId = userId
                         \/ r.organizationId \in memberOrgIds(db, userId)
                         \/ userId \in DOMAIN r.collaborators}

\* Both ends of an edge must be visible; so must the root
repositoryBlastRadius(db, userId, id) ==
  LET byId == Ids(blastRadiusRepositories(db, userId))
  IN  IF id \notin byId THEN <<>>
      ELSE computeBlastRadius({e \in db.relationships : {e.source, e.target} \subseteq byId}, id)

-----------------------------------------------------------------------------
(* Version drift: the versions of a package are its constraints, and no    *)
(* constraint, NULL, is one of them.                                       *)

computeVersionDrift(rows) ==
  {row \in rows :
     Cardinality({r.versionConstraint : r \in {s \in rows : s.package = row.package}}) >= 2}

visibleMembers(db, userId, repositoryIds) ==
  Ids({r \in db.repositories :
         /\ r.id \in repositoryIds
         /\ \/ r.visibility = "public"
            \/ r.ownerId = userId
            \/ r.organizationId # NULL /\ r.organizationId \in memberOrgIds(db, userId)
            \/ userId \in DOMAIN r.collaborators})

Reaches(db, userId, row) ==
  \/ row.ownerId = userId
  \/ row.organizationId # NULL /\ row.organizationId \in memberOrgIds(db, userId)

\* project is its row, NULL when there is none
projectVersionDrift(db, userId, project) ==
  IF userId = NULL \/ project = NULL THEN {}
  ELSE IF ~Reaches(db, userId, project) THEN {}
  ELSE LET members == {m \in db.projectRepositories : m.projectId = project.id}
           seen    == visibleMembers(db, userId, {m.repositoryId : m \in members})
       IN  computeVersionDrift({d \in db.externalDependencies : d.repositoryId \in seen})

-----------------------------------------------------------------------------
(* Topic readiness.  A member is [pullRequestId, state, mergeable]. *)

memberSatisfied(member) == member.state = "merged" \/ (member.state = "open" /\ member.mergeable)

evaluateTopicReadiness(members) ==
  LET blocking == {m.pullRequestId : m \in {n \in members : ~memberSatisfied(n)}}
  IN  [ready |-> members # {} /\ blocking = {}, blocking |-> blocking]

\* An open pull request is mergeable: there are no checks on pull requests
topicReadiness(db, userId, topic) ==
  IF userId = NULL \/ topic = NULL THEN [ready |-> FALSE, blocking |-> {}]
  ELSE IF ~Reaches(db, userId, topic) THEN [ready |-> FALSE, blocking |-> {}]
  ELSE LET ids   == {m.pullRequestId : m \in {n \in db.topicPullRequests : n.topicId = topic.id}}
           pulls == {p \in db.pullRequests :
                       p.id \in ids /\ visibleMembers(db, userId, {p.repositoryId}) # {}}
       IN  evaluateTopicReadiness({[pullRequestId |-> p.id, state |-> p.state,
                                    mergeable |-> p.state = "open"] : p \in pulls})
=============================================================================
