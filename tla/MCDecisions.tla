----------------------------- MODULE MCDecisions -----------------------------
(***************************************************************************)
(* Enumerates the inputs of the decisions the code takes from rows it has  *)
(* read: the landing gates, one row write per step (MCQueueGate), and      *)
(* access, paid plans, pushes, the graph and git histories, each a request *)
(* asked of the program in a state of its database.                        *)
(***************************************************************************)
EXTENDS MCQueueGate, AgentTools, GraphViews, Sequences

Git == INSTANCE GitViews

VARIABLE input

NoInput == [family |-> "none"]

Bounds == [refPatterns : {NULL, {}, {{"main"}}}, pathPatterns : {NULL, {}, {{"src"}}}]

Scope ==
  [permission : {"read", "write"},
   repositories : {NULL, <<>>, [id \in {"elsewhere"} |-> CHOOSE b \in Bounds : TRUE]}
                  \cup [{"here"} -> Bounds]]

-----------------------------------------------------------------------------
(* Access: "u" asks for the repository "here", which is his or the user    *)
(* "v"'s; "elsewhere" is a public repository of "v".                       *)

Caller ==
  [user : {"u"}, scope : Scope, approved : BOOLEAN,
   organizations : {<<>>} \cup [{"g"} -> {{"member"}, {"admin"}}]]

Request ==
  [scheme : {"bearer", "basic"}, caller : Caller] \cup {[scheme |-> "none", caller |-> NULL]}

Here ==
  [id : {"here"}, visibility : {"public", "private"}, ownerId : {"u", "v"},
   organizationId : {NULL, "g"},
   collaborators : {<<>>} \cup [{"u"} -> {"read", "write", "admin"}]]

Elsewhere ==
  [id |-> "elsewhere", visibility |-> "public", ownerId |-> "v",
   organizationId |-> NULL, collaborators |-> <<>>]

\* A project or topic of "v", shared with an organization
Owned(id) == [id |-> id, ownerId |-> "v", organizationId |-> "g"]

\* NULL is none of the values a row or a token holds, nor a number asked for.
ASSUME NullAssumption ==
  /\ NULL \notin Bounds \cup Here \cup {Elsewhere, Owned("p"), Owned("t")}
                \cup {"u", "v", "g", "h", "read", "write", "admin", "1", "2", "bin", "tree"}
  /\ NULL \notin 0 .. 9

AccessInput ==
  {i \in [family : {"access"}, request : Request, row : Here, gate : BOOLEAN,
          mirrored : BOOLEAN] :
     i.gate \/ i.request.caller = NULL \/ i.request.caller.approved}

\* One row of every table on each of the two repositories
dbOf(row, mirrored) ==
  LET Of(prefix) == {[id |-> <<prefix, r>>, repositoryId |-> r] : r \in {"here", "elsewhere"}}
      Shared == {[id |-> "shared", ownerId |-> row.ownerId,
                  organizationId |-> row.organizationId],
                 [id |-> "mine", ownerId |-> "u", organizationId |-> NULL]}
  IN [repositories        |-> {row, Elsewhere},
      organizationMembers |-> IF mirrored THEN {[organizationId |-> "g", userId |-> "u"]} ELSE {},
      pullRequests        |-> {[id |-> <<"pull", r.id>>, repositoryId |-> r.id,
                                authorId |-> r.ownerId, number |-> 1, state |-> "open"] :
                                 r \in {row, Elsewhere}},
      stacks              |-> {[id |-> <<"stack", r>>, repositoryId |-> r, baseBranch |-> "main"] :
                                 r \in {"here", "elsewhere"}},
      changes             |-> {[id |-> <<"change", r>>, repositoryId |-> r,
                                stackId |-> <<"stack", r>>] : r \in {"here", "elsewhere"}},
      pullRequestComments |-> {[id |-> r, pullRequestId |-> <<"pull", r>>] :
                                 r \in {"here", "elsewhere"}},
      pullRequestReviews  |-> {[id |-> r, pullRequestId |-> <<"pull", r>>] :
                                 r \in {"here", "elsewhere"}},
      verificationChecks  |-> {[id |-> r, changeId |-> <<"change", r>>] :
                                 r \in {"here", "elsewhere"}},
      projects            |-> Shared,
      topics              |-> Shared,
      agents              |-> Shared,
      projectRepositories |-> {[id |-> <<p, r>>, projectId |-> p, repositoryId |-> r] :
                                 p \in {"shared", "mine"}, r \in {"here", "elsewhere"}},
      topicPullRequests   |-> {[id |-> <<p, r>>, topicId |-> p, pullRequestId |-> <<"pull", r>>] :
                                 p \in {"shared", "mine"}, r \in {"here", "elsewhere"}},
      relationships       |-> {[id |-> "up", source |-> "here", target |-> "elsewhere",
                                relationshipTypeId |-> "own"],
                               [id |-> "down", source |-> "elsewhere", target |-> "here",
                                relationshipTypeId |-> "system"]},
      relationshipMetadata |-> {[id |-> "note", relationshipId |-> "up"]},
      relationshipTypes   |-> {[id |-> "system", organizationId |-> NULL],
                               [id |-> "own", organizationId |-> "g"]},
      rules               |-> Of("rule"),
      tokens              |-> {[id |-> "token", userId |-> "u"]},
      tokenRepositories   |-> {[id |-> r, personalAccessTokenId |-> "token", repositoryId |-> r] :
                                 r \in {"here", "elsewhere"}},
      externalDependencies |-> Of("package"),
      mergeBatches        |-> Of("batch"),
      mergeQueueEntries   |-> Of("entry"),
      repositoryCollaborators |-> Of("collaborator"),
      organizations       |-> {[id |-> "g"]}]

-----------------------------------------------------------------------------
(* Plans of two organizations; the rules of a push; graphs of four         *)
(* repositories, owned by "v" and seen by "u" where public.                *)

Plan == [bypass : BOOLEAN, explicit : {NULL, 0, 1, 2},
         tier : {NULL, "free", "pro", "team", "enterprise"}]

PlanInput == [family : {"plans"}, plans : [{"g", "h"} -> Plan]]

Update ==
  {[ref |-> ref, create |-> kind = "create", delete |-> kind = "delete",
    force |-> kind = "force", paths |-> paths] :
     ref \in {"main", "dev"}, kind \in {"create", "delete", "force", "forward"},
     paths \in SUBSET {"src", "doc"}}

PushInput ==
  {i \in [family : {"push"}, updates : {{u, w} : u \in Update, w \in Update},
          protected : {{}, {{"main"}}}, scope : {s \in Scope : s.permission = "write"}] :
     \A u, w \in i.updates : u.ref = w.ref => u = w}

Node == {"root", "a", "b", "c"}

Edge == {e \in [source : Node, target : Node] : e.source # e.target}

GraphInput ==
  [family : {"graph"}, edges : SUBSET Edge,
   seen : {Node \ {"root"}} \cup {s \cup {"root"} : s \in SUBSET (Node \ {"root"})}]

graphOf(seen) ==
  {[id |-> n, visibility |-> IF n \in seen THEN "public" ELSE "private", ownerId |-> "v",
    organizationId |-> NULL, collaborators |-> <<>>] : n \in Node}

\* What members of a project depend on, and the states of a topic's members
ProjectInput ==
  [family : {"project"}, constraint : [Node \ {"root"} -> {"none", NULL, "1", "2"}],
   state : [Node \ {"root"} -> {"none", "open", "merged", "closed"}],
   seen : SUBSET (Node \ {"root"})]

projectOf(i) ==
  [repositories         |-> graphOf(i.seen),
   organizationMembers  |-> {[organizationId |-> "g", userId |-> "u"]},
   projectRepositories  |-> {[projectId |-> "p", repositoryId |-> n] : n \in DOMAIN i.state},
   externalDependencies |-> {[repositoryId |-> n, package |-> "lib",
                              versionConstraint |-> i.constraint[n]] :
                               n \in {m \in DOMAIN i.constraint : i.constraint[m] # "none"}},
   topicPullRequests    |-> {[topicId |-> "t", pullRequestId |-> n] :
                               n \in {m \in DOMAIN i.state : i.state[m] # "none"}},
   pullRequests         |-> {[id |-> n, repositoryId |-> n, state |-> i.state[n]] :
                               n \in {m \in DOMAIN i.state : i.state[m] # "none"}}]

-----------------------------------------------------------------------------
(* Histories of three commits, a chain or a fork, and the clean merge of a *)
(* fork: of the feature into main, or of main into the feature to update   *)
(* it.  No name is a file in one commit and a directory in another.        *)

CONSTANTS c1, c2, c3, c4

\* Commits differ; none is a reference or NULL, and NULL is no difference of files.
ASSUME CommitAssumption ==
  /\ c1 \notin {c2, c3, c4} /\ c2 \notin {c3, c4} /\ c3 # c4
  /\ {c1, c2, c3, c4} \cap {NULL, <<"refs/heads/", "main">>, <<"refs/heads/", "feature">>} = {}
  /\ NULL \notin [status : {"ADDED", "DELETED", "MODIFIED"}, isBinary : BOOLEAN,
                  oldText : {NULL, "1", "2", "bin"}, newText : {NULL, "1", "2", "bin"}]

File(oids, modes) == {[oid |-> oid, mode |-> mode] : oid \in oids, mode \in modes}

\* Trees over a file and a directory of two files; blob "bin" has a NUL byte
Paths == {<<"f">>, <<"d", "a">>, <<"d", "b">>}

Content(path) ==
  CASE path = <<"f">>      -> File({"1", "2"}, {"644"}) \cup File({"bin"}, {"755"})
    [] path = <<"d", "a">> -> File({"1", "2"}, {"644"})
    [] path = <<"d", "b">> -> File({"1"}, {"644"})

Trees ==
  UNION {{tree \in [paths -> UNION {Content(p) : p \in paths}] :
            \A p \in paths : tree[p] \in Content(p)} : paths \in SUBSET Paths}

Changes(base, tree) ==
  {p \in DOMAIN base \cup DOMAIN tree :
     p \notin DOMAIN base \cap DOMAIN tree \/ base[p] # tree[p]}

\* No path was changed on both sides of the fork
MergeTree(base, ours, theirs) ==
  [p \in (DOMAIN ours \ (Changes(base, theirs) \ DOMAIN theirs))
         \cup (DOMAIN theirs \cap Changes(base, theirs)) |->
     IF p \in Changes(base, theirs) THEN theirs[p] ELSE ours[p]]

GitInput ==
  {i \in [family : {"git"}, shape : {"chain", "fork", "merge", "update"},
          x : Trees, y : Trees, z : Trees] :
     i.shape \in {"merge", "update"} => Changes(i.x, i.y) \cap Changes(i.x, i.z) = {}}

storeOf(i) ==
  LET update  == i.shape = "update"
      commits == {c1, c2, c3} \cup IF i.shape \in {"merge", "update"} THEN {c4} ELSE {}
  IN [tree    |-> [k \in commits |-> CASE k = c1 -> i.x
                                       [] k = c2 -> i.y
                                       [] k = c3 -> i.z
                                       [] k = c4 -> IF update THEN MergeTree(i.x, i.z, i.y)
                                                    ELSE MergeTree(i.x, i.y, i.z)],
      parents |-> [k \in commits |-> CASE k = c1 -> <<>>
                                       [] k = c2 -> <<c1>>
                                       [] k = c3 -> IF i.shape = "chain" THEN <<c2>> ELSE <<c1>>
                                       [] k = c4 -> IF update THEN <<c3, c2>> ELSE <<c2, c3>>],
      time    |-> [k \in commits |-> CASE k = c1 -> 1 [] k = c2 -> 2 [] k = c3 -> 3 [] k = c4 -> 4],
      heads   |-> [b \in {"main", "feature"} |->
                     IF b = "feature" THEN IF update THEN c4 ELSE c3
                     ELSE IF i.shape = "merge" THEN c4 ELSE c2],
      tags    |-> [t \in {"v1"} |-> c1],
      current |-> "main",
      binary  |-> {"bin"}]

-----------------------------------------------------------------------------

Ask(inputs) == /\ Init /\ input = NoInput
               /\ \E i \in inputs : input' = i
               /\ UNCHANGED vars

Forget == input # NoInput /\ input' = NoInput /\ UNCHANGED vars

DecisionsInit == Init /\ input = NoInput

DecisionsNext ==
  \/ input = NoInput /\ Next /\ UNCHANGED input
  \/ Ask(AccessInput)
  \/ Ask(PlanInput)
  \/ Ask(PushInput)
  \/ Ask(GraphInput)
  \/ Ask(ProjectInput)
  \/ Ask(GitInput)
  \/ Forget

DecisionsSpec == DecisionsInit /\ [][DecisionsNext]_<<vars, input>>
-----------------------------------------------------------------------------
(* What the decisions promise.  c is the caller, NULL for nobody. *)

c == input.request.caller

User == IF c = NULL THEN NULL ELSE c.user

db == dbOf(input.row, input.mirrored)

\* Reads are decided four times over, from claims by the git routes and from the
\* mirror by GraphQL, by the row-level policies and by the graph services.  They
\* agree on who sees a repository, for a credential that is not confined, a
\* caller the beta gate lets through and a mirror that says what the claims say;
\* the two beta gates agree on who that is, and GraphQL and the policies agree on
\* every table both filter (gitAccess.ts, RepositoryRead.plugin.ts,
\* rowLevelSecurity.ts, repositoryBlastRadius.service.ts, betaGate.plugin.ts).
ReadersAgree ==
  input.family = "access" =>
    LET policies == readPolicies(db, User)
        wrapped  == RepositoryReadPlugin(db, User)
        query    == [kind |-> "query", fields |-> {"repositories"}]
    IN /\ \A table \in DOMAIN policies : wrapped[table] = policies[table]
       /\ blastRadiusRepositories(db, User) = wrapped.repositories
       /\ c # NULL => visibleMembers(db, User, {"here", "elsewhere"}) = Ids(wrapped.repositories)
       /\ input.request.scheme # "basic" =>
            (Executes(input.request, input.gate, query)
               <=> ~isGitCallerBetaBlocked(input.gate, c))
       /\ /\ ~isGitCallerBetaBlocked(input.gate, c)
          /\ c # NULL => /\ ~Confined(c.scope)
                         /\ input.mirrored <=> "g" \in DOMAIN c.organizations
          => (gateRead(input.request, input.row, input.gate, TRUE) = 200
                <=> input.row \in wrapped.repositories)

\* GraphQL shows no row without the row it is read by: what belongs to a
\* repository, a pull request, a change, an edge or an organization, and both ends
\* of an edge or of a membership (RepositoryRead.plugin.ts).  Other references may
\* lead to a row withheld from the connections: the organization of a public
\* repository, which lines 319-324 there say is meant, that of a project, topic or
\* agent of the caller's own, the type of an edge, the repository a token is
\* confined to, the stack of a change.
ParentsAreShown ==
  input.family = "access" =>
    LET shown == RepositoryReadPlugin(db, User)
        Stands(table, column, parent) ==
          \A row \in shown[table] : row[column] \in Ids(shown[parent])
    IN /\ \A table \in {"pullRequests", "stacks", "changes", "projectRepositories",
                        "externalDependencies", "mergeBatches", "mergeQueueEntries",
                        "repositoryCollaborators"} :
            Stands(table, direct, "repositories")
       /\ Stands("pullRequestComments", viaPullRequest, "pullRequests")
       /\ Stands("pullRequestReviews", viaPullRequest, "pullRequests")
       /\ Stands("organizationMembers", viaOrganization, "organizations")
       /\ Stands("topicPullRequests", viaPullRequest, "pullRequests")
       /\ Stands("topicPullRequests", "topicId", "topics")
       /\ Stands("projectRepositories", "projectId", "projects")
       /\ Stands("verificationChecks", viaChange, "changes")
       /\ Stands("relationships", "source", "repositories")
       /\ Stands("relationships", "target", "repositories")
       /\ Stands("relationshipMetadata", viaRelationship, "relationships")

\* list_repositories selects its candidates with one condition and filters them
\* with another: it leaves out no repository get_repository would return
\* (mcp/server.ts).
ListingIsComplete ==
  input.family = "access" /\ c # NULL =>
    list_repositories(db, c).seen = UNION {get_repository(c, r).seen : r \in db.repositories}

\* "A confined token reaches nothing outside its list": whichever tool an agent
\* calls, with a token confined to some repositories and refs, it sees rows of
\* those repositories and changes nothing else, lands on no other ref, and
\* changes nothing at all with a token for reading (mcp/gates.ts).  The blast
\* radius is left out: it goes by the user.
ToolsStayInScope ==
  input.family = "access" /\ c # NULL =>
    LET rows    == db.repositories
        InScope(id) == \A r \in {id} : scopeAllowsRepository(c.scope, r)
        readers == {list_repositories(db, c), search_repositories(c, rows)}
                   \cup UNION {{get_repository(c, r), list_branches(c, r), list_tree(c, r),
                                read_file(c, r, "text", "text"), get_agent_instructions(c, r),
                                list_dependent_repositories(db, c, r)} : r \in rows}
        pullers == UNION {{list_pull_requests(db, c, r, NULL), get_pull_request(db, c, r, 1)} :
                            r \in rows}
        writers == {create_change(db, c, s.id, NULL) : s \in db.stacks}
                   \cup {report_verification_check(db, c, k.id) : k \in db.changes}
                   \cup UNION {{discover_dependencies(c, r), reconcile_project_membership(c, r),
                                create_pull_request(c, r, {"dev", "main"}, "dev", "main"),
                                comment_on_pull_request(db, c, r, 1), create_stack(c, r)} :
                                 r \in rows}
        landings == UNION {merge_change(db, c, k.id).written : k \in db.changes}
    IN /\ \A r \in UNION {a.seen : a \in readers} : InScope(r.id)
       /\ \A p \in UNION {a.seen : a \in pullers} : InScope(p.repositoryId)
       /\ \A w \in landings \cup UNION {a.written : a \in writers} :
            InScope(w[2]) /\ scopeAllowsWrite(c.scope)
       /\ \A w \in landings : scopeAllowsRef(c.scope, w[2], "main")
       /\ create_repository(c, NULL) # Refused => c.scope = UNRESTRICTED_SCOPE

\* The guards of the generated mutations each read access their own way.  They
\* are ordered: administering implies writing, writing implies what the git
\* routes ask of a writer, that implies reading; whoever may add to a repository
\* may read it; and whoever may create a project may go on to administer it
\* (graphql/plugins/authorization, projectAuthorization.ts).
AuthorityIsNested ==
  input.family = "access" /\ c # NULL =>
    LET row == input.row
        made == [ownerId |-> c.user, organizationId |-> row.organizationId]
    IN /\ updateRepository(db, c, row.id) => hasWriteAccess(db, row.id, c.user)
       /\ deleteRepository(db, c, row.id) => updateRepository(db, c, row.id)
       /\ createPullRequest(db, c, row.id) => canWriteRepository(c, row)
       /\ canWriteRepository(c, row) => canReadRepository(c, row)
       /\ \/ createPullRequestComment(db, c, <<"pull", "here">>, c.user)
          \/ createPullRequestReview(db, c, <<"pull", "here">>, c.user)
          \/ createRepositoryRelationship(db, c, row.id)
          \/ createTopicPullRequest(db, c, "mine", <<"pull", "here">>)
          \/ createProjectRepository(db, c, "mine", row.id)
          => canReadRepository(c, row)
       /\ createProject(c, made.ownerId, made.organizationId) => canAdministerProject(made, c)

\* The git routes and the agents' tools are gated by two sets of functions: a
\* caller the beta gate lets through gets the same repositories to read, and the
\* same to write, from both; and what the generated mutations let him write, and
\* the organizations they let him create repositories in, the tools do as well
\* when his token is not confined (git.routes.ts, mcp/gates.ts, authorization/).
RoutesAndToolsAgree ==
  input.family = "access" /\ c # NULL =>
    LET row == input.row
        blocked == isGitCallerBetaBlocked(input.gate, c)
    IN /\ gateRead(input.request, row, input.gate, TRUE) = 200
            <=> ~blocked /\ get_repository(c, row) # Refused
       /\ gateWrite(input.request, row, input.gate) = 200
            <=> ~blocked /\ discover_dependencies(c, row) # Refused
       /\ c.scope = UNRESTRICTED_SCOPE =>
            /\ createPullRequest(db, c, row.id) =>
                 create_pull_request(c, row, {"dev", "main"}, "dev", "main") # Refused
            /\ \A o \in {NULL, "g"} :
                 createRepository(c, o, "private", TRUE) <=> create_repository(c, o) # Refused

\* What a caller may administer he is shown, when the mirror says what his claims
\* say: a mutation the guards let through by ownership or role, on a repository or
\* the rules of one, somebody else's pull request, a project, topic or type, finds
\* that row among those GraphQL shows him.  The guard of a membership asks for its
\* project or topic alone (Project.plugin.ts, Topic.plugin.ts), so a caller may
\* change some he is not shown: exactly those whose repository or pull request he
\* is not shown either (graphql/plugins/authorization against
\* RepositoryRead.plugin.ts).
AdministeredIsShown ==
  input.family = "access" /\ c # NULL =>
    LET shown == RepositoryReadPlugin(db, User)
    IN input.mirrored <=> "g" \in DOMAIN c.organizations =>
       /\ \A r \in db.repositories :
            \/ updateRepository(db, c, r.id)
            \/ createRepositoryCollaborator(db, c, r.id, TRUE)
            \/ \E rule \in db.rules : rule.repositoryId = r.id
                                       /\ modifyBranchProtectionRule(db, c, rule)
            => r \in shown.repositories
       /\ \A p \in db.pullRequests :
            p.authorId # c.user /\ updatePullRequest(db, c, p.id) => p \in shown.pullRequests
       /\ \A p \in db.projects : administerProject(db, c, p.id) => p \in shown.projects
       /\ \A t \in db.topics : administerTopic(db, c, t.id) => t \in shown.topics
       /\ \A t \in db.relationshipTypes :
            modifyRelationshipType(db, c, t.id) => t \in shown.relationshipTypes
       /\ \A m \in db.projectRepositories : modifyProjectRepository(db, c, m.id) =>
            (m \in shown.projectRepositories <=> m.repositoryId \in Ids(shown.repositories))
       /\ \A m \in db.topicPullRequests : modifyTopicPullRequest(db, c, m.id) =>
            (m \in shown.topicPullRequests <=> m.pullRequestId \in Ids(shown.pullRequests))

\* Joining an organization never takes a paid view away, whatever the plans are:
\* the viewer's level is the highest of his organizations' (entitlements/index.ts,
\* PolyrepoGraphAccess.plugin.ts), and so is the owner's for the blast radius of
\* his personal repositories (RepositoryBlastRadius.plugin.ts).
PlansOnlyAdd ==
  input.family = "plans" =>
    LET In(os) == [organizationMembers |-> {[organizationId |-> o, userId |-> "u"] : o \in os}]
        personal == [ownerId |-> "u", organizationId |-> NULL]
    IN \A few \in SUBSET {"g", "h"} : \A many \in SUBSET {"g", "h"} : few \subseteq many =>
         /\ polyrepoGraphAccess(In(few), input.plans, "u")
              => polyrepoGraphAccess(In(many), input.plans, "u")
         /\ BlastRadiusIsPaid(In(few), input.plans, personal)
              => BlastRadiusIsPaid(In(many), input.plans, personal)

\* The limits of a token reach the pre-receive hook as two lists in the
\* environment.  A push the hook accepts moves no ref and changes no path the
\* scope forbids, and neither rewrites nor deletes a protected branch
\* (receivePackGuard.ts, preReceiveHook.ts, smart-http.service.ts).
PushStaysInScope ==
  input.family = "push" =>
    LET bounds == scopeBoundsForRepository(input.scope, "here")
    IN scopeAllowsRepository(input.scope, "here") /\ preReceive(bounds, input.protected, input.updates)
       => \A u \in input.updates :
            /\ scopeAllowsRef(input.scope, "here", u.ref)
            /\ ~u.delete => \A p \in u.paths : scopeAllowsPath(input.scope, "here", p)
            /\ (\E glob \in input.protected : u.ref \in glob) => ~u.delete /\ ~u.force

-----------------------------------------------------------------------------

Graph == [repositories |-> graphOf(input.seen), organizationMembers |-> {},
          relationships |-> input.edges]

\* The blast radius holds the repositories that depend on the root through
\* repositories the caller may see, and no other, each at the length of a
\* shortest chain: something one step nearer leads to it, and whatever depends on
\* a member is a member at most one step farther (blastRadius.ts,
\* repositoryBlastRadius.service.ts).
BlastRadiusIsShortest ==
  input.family = "graph" =>
    LET radius  == repositoryBlastRadius(Graph, "u", "root")
        reached == DOMAIN radius \cup ({"root"} \cap input.seen)
        Depth(n) == IF n = "root" THEN 0 ELSE radius[n]
        edges   == {e \in input.edges : {e.source, e.target} \subseteq input.seen}
    IN /\ DOMAIN radius \subseteq input.seen \ {"root"}
       /\ \A n \in DOMAIN radius :
            \E e \in edges : e.source = n /\ e.target \in reached /\ Depth(n) = Depth(e.target) + 1
       /\ \A e \in edges : e.target \in reached =>
            e.source \in reached /\ Depth(e.source) <= Depth(e.target) + 1

\* A caller who sees less is told less, and nothing else: what a viewer of some
\* repositories is told is part of what their owner is told, at no smaller depth.
\* So a package without drift for the owner drifts for nobody, and a pull request
\* that blocks a topic for a viewer blocks it for the owner
\* (repositoryBlastRadius.service.ts, projectVersionDrift.service.ts,
\* topicReadiness.service.ts).
SeeingMoreOnlyAdds ==
  /\ input.family = "graph" =>
       LET less == repositoryBlastRadius(Graph, "u", "root")
           more == repositoryBlastRadius(Graph, "v", "root")
       IN \A n \in DOMAIN less : n \in DOMAIN more /\ more[n] <= less[n]
  /\ input.family = "project" =>
       LET project == projectOf(input)
       IN /\ projectVersionDrift(project, "u", Owned("p"))
               \subseteq projectVersionDrift(project, "v", Owned("p"))
          /\ topicReadiness(project, "u", Owned("t")).blocking
               \subseteq topicReadiness(project, "v", Owned("t")).blocking

-----------------------------------------------------------------------------

store == storeOf(input)

main == <<"refs/heads/", "main">>

\* The file browser names, for every entry of a directory, a commit that changed
\* it and in which it was what it is now; entries whose content came through a
\* clean merge included (git.service.ts, getTreeLastCommits).
EntriesShowTheirLastCommit ==
  input.family = "git" =>
    LET tip == Git!resolveRef(store, main)
        At(commit, path) == Git!Under(Git!treeOf(store, commit), path)
    IN \A directory \in {<<>>, <<"d">>} : \A entry \in Git!getTree(store, main, directory) :
         \E last \in Git!getTreeLastCommits(store, main, directory) :
           LET path == Append(directory, entry.path)
           IN /\ last.path = entry.path
              /\ At(last.commitOid, path) = At(tip, path)
              /\ At(last.commitOid, path) # At(Git!FirstParent(store, last.commitOid), path)

\* The list of changed files is the whole difference: applied to the base it
\* gives the files of the head, and the content of each file's difference, read
\* separately, agrees with it on what was added, deleted and binary
\* (git.service.ts, getChangedFiles and getFileDiffContent).
ChangedFilesRebuildHead ==
  input.family = "git" => \A commit \in DOMAIN store.tree :
    LET base    == Git!FirstParent(store, commit)
        files   == Git!commitChangedFiles(store, commit)
        listed  == {f.path : f \in files}
        Blobs(ref) == {<<p, Git!treeOf(store, ref)[p].oid>> : p \in DOMAIN Git!treeOf(store, ref)}
    IN /\ Blobs(commit) = {b \in Blobs(base) : b[1] \notin listed}
                          \cup {<<f.path, f.newOid>> : f \in {g \in files : g.newOid # NULL}}
       /\ \A f \in files :
            LET diff == Git!commitFileDiff(store, commit, f.path)
            IN /\ diff # NULL
               /\ diff.isBinary = f.isBinary
               /\ {diff.status, f.status} \cap {"ADDED", "DELETED"} # {} => diff.status = f.status

\* A pull request shows the work of its source alone: every file it lists was
\* changed by a commit the source has and the target has not, whatever landed on
\* the target meanwhile (GitDiff.plugin.ts, resolvePrRefs).
PullRequestShowsItsOwnWork ==
  input.family = "git" =>
    LET pull == [sourceBranch |-> "feature", targetBranch |-> "main"]
        work == Git!History(store, store.heads["feature"])
                  \ Git!History(store, store.heads["main"])
    IN \A f \in Git!pullRequestChangedFiles(store, pull) :
         \E commit \in work : f.path \in {g.path : g \in Git!commitChangedFiles(store, commit)}

\* Paging a history loses and repeats nothing: the pages of one size, put end to
\* end, are the log, and the default page is its beginning (git.service.ts getLog,
\* Commit.history in GitTypes.plugin.ts).
PagesMakeTheHistory ==
  input.family = "git" =>
    LET tip == Git!resolveRef(store, main)
        log == Git!NewestFirst(store, tip)
        Page(size, k) == Git!commitHistory(store, tip, size, size * k)
    IN /\ \A size \in 1 .. 3 :
            log = Page(size, 0) \o Page(size, 1) \o Page(size, 2) \o Page(size, 3)
       /\ log = Git!commitHistory(store, tip, NULL, NULL)

-----------------------------------------------------------------------------
(* The promises above by what they are about, as the run checks them. *)

\* Who sees what: every place that decides who may read agrees with the others, and
\* no row is shown without the row it is read by (git/gitAccess.ts,
\* RepositoryRead.plugin.ts, db/schema/rowLevelSecurity.ts).
ReadersSeeAlike == ReadersAgree /\ ParentsAreShown

\* What an agent may do: no tool answers for more than its token's scope, tools and
\* git routes let the same callers through, and the listing shows all that may be
\* opened (mcp/server.ts, mcp/gates.ts).
ToolsKeepTheirScope == ToolsStayInScope /\ RoutesAndToolsAgree /\ ListingIsComplete

\* Who may change what: the guards are ordered by authority, and what a caller may
\* administer he is shown, but for memberships of what he is not shown
\* (graphql/plugins/authorization).
AuthorityHoldsTogether == AuthorityIsNested /\ AdministeredIsShown

\* The dependency graph: depths are shortest, and neither a wider view, nor a further
\* membership, takes anything away (dependencies/, topic/, entitlements/index.ts).
GraphViewsHold == BlastRadiusIsShortest /\ SeeingMoreOnlyAdds /\ PlansOnlyAdd

\* The file browser: pages make up the log, and every entry is shown with a commit
\* that made it what it is (git.service.ts, getLog and getTreeLastCommits).
HistoryViewsHold == PagesMakeTheHistory /\ EntriesShowTheirLastCommit

\* Differences: they add up to the head, and a pull request shows its own work alone
\* (git.service.ts, GitDiff.plugin.ts).
DifferencesHold == ChangedFilesRebuildHead /\ PullRequestShowsItsOwnWork
=============================================================================
