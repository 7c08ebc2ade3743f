----------------------------- MODULE AgentTools -----------------------------
(***************************************************************************)
(* The tools the MCP server (mcp/server.ts) gives to agents, behind the    *)
(* gates of mcp/gates.ts.  The caller c is never NULL: handleMcpRequest    *)
(* refuses a request without one.                                          *)
(*                                                                         *)
(* A tool returns what the agent gets to see and what is changed:          *)
(*   [seen, written], sets of rows and of <<change, repository id>>.       *)
(* A repository named by owner and slug is its row, or NULL.  The limits   *)
(* on the length of a listing are left out.                                *)
(***************************************************************************)
EXTENDS MutationGuards

Refused == [seen |-> {}, written |-> {}]

Found(rows) == [seen |-> rows, written |-> {}]

Wrote(change, id) == [seen |-> {}, written |-> {<<change, id>>}]

-----------------------------------------------------------------------------
(* Gates *)

\* The agent is attribution: it is looked up for bearer tokens alone
resolveMcpCaller(request) == authenticateGitRequest(request)

\* Mutant: listings go by the user alone
userMayRead(c, row) == canReadRepository(c, row)

callerMayRead(c, row) == scopeAllowsRepository(c.scope, row.id) /\ canReadRepository(c, row)

ToolRead(c, row) == row # NULL /\ callerMayRead(c, row)

ToolWrite(c, row) ==
  /\ row # NULL
  /\ scopeAllowsWrite(c.scope)
  /\ scopeAllowsRepository(c.scope, row.id)
  /\ canWriteRepository(c, row)

gateWriteByRepositoryId(db, c, id) == ToolWrite(c, ById(db.repositories, id))

gateRefWrite(db, c, id, ref) ==
  gateWriteByRepositoryId(db, c, id) /\ scopeAllowsRef(c.scope, id, ref)

gateCreate(c) == scopeAllowsWrite(c.scope) /\ ~Confined(c.scope)

-----------------------------------------------------------------------------
(* Reading *)

list_repositories(db, c) ==
  Found({r \in db.repositories :
           /\ \/ r.visibility = "public" \/ r.ownerId = c.user
              \/ r.organizationId # NULL \/ c.user \in DOMAIN r.collaborators
           /\ callerMayRead(c, r)})

get_repository(c, row) == IF ToolRead(c, row) THEN Found({row}) ELSE Refused

\* matching is what the search term selects
search_repositories(c, matching) == Found({r \in matching : callerMayRead(c, r)})

\* Git data is seen through its repository: the row stands for it
list_branches(c, row) == IF ToolRead(c, row) THEN Found({row}) ELSE Refused

list_tree(c, row) == IF ToolRead(c, row) THEN Found({row}) ELSE Refused

\* content is NULL for a binary file, raw for a missing one
read_file(c, row, content, raw) ==
  IF ToolRead(c, row) /\ (content # NULL \/ raw # NULL) THEN Found({row}) ELSE Refused

get_agent_instructions(c, row) == IF ToolRead(c, row) THEN Found({row}) ELSE Refused

list_pull_requests(db, c, row, state) ==
  IF ToolRead(c, row)
    THEN Found({p \in db.pullRequests :
                  p.repositoryId = row.id /\ state \in {NULL, p.state}})
    ELSE Refused

get_pull_request(db, c, row, number) ==
  IF ToolRead(c, row)
    THEN Found({p \in db.pullRequests : p.repositoryId = row.id /\ p.number = number})
    ELSE Refused

list_dependent_repositories(db, c, row) ==
  IF ToolRead(c, row)
    THEN LET sources == {e.source : e \in {f \in db.relationships : f.target = row.id}}
         IN  Found({r \in db.repositories : r.id \in sources /\ callerMayRead(c, r)})
    ELSE Refused

\* affected is what repositoryBlastRadius answers for the user
repository_blast_radius(c, row, affected) ==
  IF ToolRead(c, row) THEN Found(affected) ELSE Refused

-----------------------------------------------------------------------------
(* Writing *)

\* The services decide the rest: a repository is made for the caller, or in an
\* organization of his (repository/createRepository.ts)
create_repository(c, organizationId) ==
  IF gateCreate(c) /\ (organizationId # NULL => organizationId \in DOMAIN c.organizations)
    THEN Wrote("repository", NULL)
    ELSE Refused

discover_dependencies(c, row) ==
  IF ToolWrite(c, row) THEN Wrote("dependencies", row.id) ELSE Refused

reconcile_project_membership(c, row) ==
  IF ToolWrite(c, row) THEN Wrote("membership", row.id) ELSE Refused

create_pull_request(c, row, branches, source, target) ==
  IF ToolWrite(c, row) /\ source # target /\ {source, target} \subseteq branches
    THEN Wrote("pull request", row.id)
    ELSE Refused

comment_on_pull_request(db, c, row, number) ==
  IF /\ ToolWrite(c, row)
     /\ \E p \in db.pullRequests : p.repositoryId = row.id /\ p.number = number
    THEN Wrote("comment", row.id)
    ELSE Refused

create_stack(c, row) ==
  IF ToolWrite(c, row) THEN Wrote("stack", row.id) ELSE Refused

\* A parent must be a change of the same stack
create_change(db, c, stackId, parentId) ==
  LET stack  == ById(db.stacks, stackId)
      parent == ById(db.changes, parentId)
  IN  IF /\ stack # NULL
         /\ gateWriteByRepositoryId(db, c, stack.repositoryId)
         /\ parentId # NULL => parent # NULL /\ parent.stackId = stackId
        THEN Wrote("change", stack.repositoryId)
        ELSE Refused

\* Landing itself is the module StackLanding
merge_change(db, c, changeId) ==
  LET change == ById(db.changes, changeId)
      stack  == IF change = NULL THEN NULL ELSE ById(db.stacks, change.stackId)
  IN  IF /\ stack # NULL
         /\ gateRefWrite(db, c, change.repositoryId, stack.baseBranch)
        THEN Wrote("landing", change.repositoryId)
        ELSE Refused

report_verification_check(db, c, changeId) ==
  LET change == ById(db.changes, changeId)
  IN  IF change # NULL /\ gateWriteByRepositoryId(db, c, change.repositoryId)
        THEN Wrote("check", change.repositoryId)
        ELSE Refused
=============================================================================
