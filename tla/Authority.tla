----------------------------- MODULE Authority -----------------------------
(***************************************************************************)
(* Who may reach a repository over git: the limits of a credential         *)
(* (auth/tokenScope.ts, auth/refPathMatch.ts), access by ownership,        *)
(* collaboration and claims (git/gitAccess.ts), the gates of the git       *)
(* routes (routes/git.routes.ts), the pre-receive hook, and the filters    *)
(* GraphQL puts before an operation.                                       *)
(*                                                                         *)
(* A glob is the set of refs or paths it matches.  Records:                *)
(*   scope    [permission, repositories]: NULL, or a function from         *)
(*            repository ids to bounds [refPatterns, pathPatterns], each   *)
(*            NULL or a set of globs                                       *)
(*   caller   [user, scope, organizations, approved]: organizations is a   *)
(*            function from the organizations claimed to sets of roles,    *)
(*            approved what beta/resolveBetaAllowed.ts answers             *)
(*   request  [scheme, caller]: what the token resolves to, NULL if to     *)
(*            nobody                                                       *)
(*   row      [id, visibility, ownerId, organizationId, collaborators]: a  *)
(*            function from collaborators to permissions                   *)
(***************************************************************************)
EXTENDS Naturals, FiniteSets

CONSTANT NULL

matchesAnyGlob(patterns, value) == \E glob \in patterns : value \in glob

\* NULL patterns leave the dimension unconfined, no patterns allow nothing
Within(patterns, value) == patterns = NULL \/ matchesAnyGlob(patterns, value)

-----------------------------------------------------------------------------
(* Scopes *)

UNRESTRICTED_SCOPE == [permission |-> "write", repositories |-> NULL]

scopeAllowsWrite(scope) == scope.permission = "write"

Confined(scope) == scope.repositories # NULL

scopeAllowsRepository(scope, id) ==
  Confined(scope) => id \in DOMAIN scope.repositories

scopeBoundsForRepository(scope, id) ==
  IF ~Confined(scope) THEN NULL
  ELSE IF id \notin DOMAIN scope.repositories THEN NULL
  ELSE IF scope.repositories[id] = [refPatterns |-> NULL, pathPatterns |-> NULL]
  THEN NULL ELSE scope.repositories[id]

scopeAllowsRef(scope, id, ref) ==
  Confined(scope) => /\ id \in DOMAIN scope.repositories
                     /\ Within(scope.repositories[id].refPatterns, ref)

scopeAllowsPath(scope, id, path) ==
  Confined(scope) => /\ id \in DOMAIN scope.repositories
                     /\ Within(scope.repositories[id].pathPatterns, path)

-----------------------------------------------------------------------------
(* Callers and repositories *)

\* A token arrives as a bearer token or as the password of basic credentials
extractToken(request) == request.scheme \in {"bearer", "basic"}

authenticateGitRequest(request) ==
  IF extractToken(request) THEN request.caller ELSE NULL

isGitCallerBetaBlocked(gate, caller) ==
  gate /\ (caller = NULL \/ ~caller.approved)

findCollaborator(row, user) ==
  IF user \in DOMAIN row.collaborators THEN row.collaborators[user] ELSE NULL

isOrganizationMember(row, organizations) ==
  row.organizationId \in DOMAIN organizations

hasOrganizationWriteRole(row, organizations) ==
  /\ isOrganizationMember(row, organizations)
  /\ organizations[row.organizationId] \cap {"admin", "owner"} # {}

canReadRepository(caller, row) ==
  \/ row.visibility = "public"
  \/ /\ caller # NULL
     /\ \/ row.ownerId = caller.user
        \/ findCollaborator(row, caller.user) # NULL
        \/ isOrganizationMember(row, caller.organizations)

canWriteRepository(caller, row) ==
  /\ caller # NULL
  /\ \/ row.ownerId = caller.user
     \/ findCollaborator(row, caller.user) \in {"write", "admin"}
     \/ hasOrganizationWriteRole(row, caller.organizations)

-----------------------------------------------------------------------------
(* The gates of the git routes answer with an HTTP status.  "challenge" is *)
(* set by the transport endpoints, not by the browser's.                   *)

AnswersAnonymous(row, gate) ==
  ~isGitCallerBetaBlocked(gate, NULL) /\ canReadRepository(NULL, row)

gateRead(request, row, gate, challenge) ==
  LET caller == authenticateGitRequest(request)
  IN  IF row = NULL THEN 404
      ELSE IF caller = NULL /\ ~AnswersAnonymous(row, gate)
             THEN (IF challenge THEN 401 ELSE 404)
      ELSE IF \/ isGitCallerBetaBlocked(gate, caller)
              \/ caller # NULL /\ ~scopeAllowsRepository(caller.scope, row.id)
              \/ ~canReadRepository(caller, row)
             THEN 404
      ELSE 200

gateWrite(request, row, gate) ==
  LET caller == authenticateGitRequest(request)
  IN  IF row = NULL THEN 404
      ELSE IF caller = NULL THEN 401
      ELSE IF isGitCallerBetaBlocked(gate, caller) THEN 404
      ELSE IF \/ ~scopeAllowsWrite(caller.scope)
              \/ ~scopeAllowsRepository(caller.scope, row.id)
              \/ ~canWriteRepository(caller, row)
             THEN 403
      ELSE 200

-----------------------------------------------------------------------------
(* The pre-receive hook.  An update is [ref, create, delete, force, paths]:*)
(* force says that the old tip is not an ancestor of the new one, paths is *)
(* what the pushed commits change.  A protected branch is a glob of refs.  *)

\* The hook reads an absent variable as "every ref" or "every path"
buildReceivePackHookEnv(bounds) ==
  IF bounds = NULL THEN [refPatterns |-> NULL, pathPatterns |-> NULL] ELSE bounds

isProtectedBranch(protected, update) == matchesAnyGlob(protected, update.ref)

Rewrites(update) == update.delete \/ (~update.create /\ update.force)

changedPathsFor(bounds, update) ==
  IF bounds.pathPatterns = NULL \/ update.delete THEN {} ELSE update.paths

\* Mutant: one path in bounds lets the update through
someForbiddenPath(bounds, paths) ==
  paths # {} /\ \A path \in paths : ~Within(bounds.pathPatterns, path)

firstForbiddenPath(bounds, paths) ==
  \E path \in paths : ~Within(bounds.pathPatterns, path)

evaluateReceivePack(bounds, updates) ==
  {u \in updates : \/ ~Within(bounds.refPatterns, u.ref)
                   \/ firstForbiddenPath(bounds, changedPathsFor(bounds, u))}

\* The hook rejects a push as a whole
preReceive(bounds, protected, updates) ==
  LET env == buildReceivePackHookEnv(bounds)
  IN  /\ \A u \in updates : isProtectedBranch(protected, u) => ~Rewrites(u)
      /\ evaluateReceivePack(env, updates) = {}

-----------------------------------------------------------------------------
(* What GraphQL asks before it executes an operation [kind, fields], the   *)
(* root fields it selects.                                                 *)

\* GraphQL takes bearer tokens only
resolveUser(request) ==
  IF request.scheme = "bearer" THEN request.caller ELSE NULL

operationExceedsScope(caller, operation) ==
  caller # NULL /\ ~scopeAllowsWrite(caller.scope) /\ operation.kind = "mutation"

BETA_CARVE_OUT_FIELDS ==
  {"observer", "submitTesterApplication", "myTesterApplication"}

selectionIsBetaSafe(operation) ==
  operation.fields # {} /\ operation.fields \subseteq BETA_CARVE_OUT_FIELDS

betaGate(gate, caller, operation) ==
  \/ ~gate
  \/ operation.kind # "subscription" /\ selectionIsBetaSafe(operation)
  \/ caller # NULL /\ caller.approved

Executes(request, gate, operation) ==
  LET caller == resolveUser(request)
  IN  betaGate(gate, caller, operation) /\ ~operationExceedsScope(caller, operation)
=============================================================================
