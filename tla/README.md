# Verification of arbor-api

TLA+ models of arbor-api, the API behind Arbor (git hosting with stacked changes and a
merge queue): TLC configurations that check them on small instances, and theorems TLAPS
checks for every value of the constants. Paths below are relative to `src/src/lib/` unless
they start with `src/`; `PROJECT.json` maps every definition to the lines it models.

The server is one TypeScript program on an event loop. Handlers interleave at every
`await`; several instances may run against one PostgreSQL database and one git storage,
so nothing in memory serialises them. Few handlers open a transaction and fewer take a
lock, and most state changes span two stores (a row and a ref, a row and a directory, a
row and a cache). Half of what is hard in this program is what happens between two awaits;
the models of *operations* keep that, one action per awaited operation that the properties
can tell apart, for any number of handlers. The other half is that the same decision is
taken in several places in different words (four front ends, two gates, twenty tools); the
models of *decisions* are operators, compared with one another over small databases.

## Inventory

| Component | State | Operations | Interacts with | What makes it correct |
|---|---|---|---|---|
| Landing gates (`mergeQueue/queueGate.ts`, `branchProtection/`) | none | `computeMergeability`, `classifyRequiredChecks`, `evaluateBranchProtection` | landing, queue | the two gates agree; the strictest rule wins |
| Stack landing (`stack/stack.service.ts`, `git/git.service.ts`) | `stack`, `change`, `verification_check`, reviews, base branch | `mergeChange`, `mergeChangeIntoBranch` | gates, git backend, queue | dependency order; what is recorded landed is on the branch and stays; nothing passes a gate it should not |
| Merge queue (`mergeQueue/mergeQueue.service.ts`) | `merge_queue_entry` | `enqueueStack`, `processQueue` | landing, gates | one active entry per stack; an entry leaves only for cause, for good, and eventually |
| Pull requests (`GitMutations.plugin.ts`, `pullRequest/`) | `pull_request`, refs | open, close, reopen, merge, `createRef`, `deleteRef` | git | merged is terminal and on the target; open requests land |
| Repository lifecycle (`repository/`, Rename and Delete plugins) | `repository`, storage | create, initialize, rename, delete, default branch | storage, backend, limits | row and storage never part; pushed work survives; limits hold |
| Beta applications (`beta/`) | `tester_application` | submit, enroll staff, decide | reviewers' events, e-mail, gate | access is earned; no decision is lost; few e-mails |
| Membership mirror and tokens (`auth/`, `idp/`) | users, organizations, memberships, tokens and their scopes, caches | resolve, mirror, webhooks, create and revoke tokens | identity provider, every reader | a membership honoured was claimed recently; a confined token stays confined |
| Push pipeline (`routes/git.routes.ts`, `git/`) | refs, storage size and its cache | receive-pack, pre-receive hook | credentials, rules, discovery | protected history stays; storage stays near its limit |
| Dependency discovery (`dependencies/`) | edges, memberships | scan, reconcile | push | rows made by hand stay; a scan repairs what older ones left |
| Readers and guards (`git/gitAccess.ts`, `mcp/`, `graphql/plugins/authorization/`, row policies) | none | may this caller see or change this row | every front end | the readers agree, the guards are nested by authority |
| Graph views (`dependencies/blastRadius.ts`, `versionDrift.ts`, `topic/`) | none | blast radius, drift, readiness | GraphQL, agents | equal to their definitions; seeing more only adds |
| Git views (`git/git.service.ts`, `GitTypes`, `GitDiff`) | none | refs, log, trees, last commits, differences | git storage | pages make the log; differences rebuild the head |
| Permission checks, rate limiting, entitlement cache, search, subscriptions, payments, server | caches, counters | — | external services | not modelled, see below |

Hard behaviours, with their lines and the properties about them, are the `hazards` of
`PROJECT.json`: reads that are old when they are used, two stores written one after the
other, a backend that acted although its answer was lost, passes, scans and deliveries that
overlap or repeat, deaths between two writes, and decisions written twice.

## Modules

| Module | Models | Kind |
|---|---|---|
| `QueueGate` | the landing gates | operators |
| `StackLanding` | `mergeChange` with the git landing behind it | operations, extends `QueueGate` |
| `LandingContract` | what a landing promises, with no calls, gates or git | abstract specification |
| `MergeQueue` | `enqueueStack` and `processQueue` on top of landings | composition, extends `StackLanding` |
| `PullRequest` | pull requests, their branches and merges | operations |
| `PullRequestContract` | the life of a request into the default branch | abstract specification |
| `Repository` | rows and storage of one user's repositories | operations |
| `RepositoryContract` | what an owner of repositories is promised | abstract specification |
| `Beta` | applications, decisions, e-mails | operations |
| `Access` | users, mirrored memberships, tokens, webhooks, caches, time | operations |
| `Push` | a push from the storage check to the scans it starts | operations |
| `Authority` | token scopes, git access, route gates, hook, GraphQL filters | operators |
| `Visibility` | GraphQL wrappers, row policies, paid tiers | operators |
| `MutationGuards` | the guard of every wrapped mutation | operators |
| `AgentTools` | the gate and the answer of every tool for agents | operators |
| `GraphViews` | blast radius, version drift, topic readiness | operators |
| `GitViews` | refs, history, trees, last commits, differences | operators |
| `MC...` | the instances of the runs; `MCQueueGate` steps through every set of check rows and rules, `MCDecisions` asks the decisions of every small database, credential, graph and history | instances |
| `StackLandingProofs`, `MergeQueueProofs`, `PullRequestProofs`, `RepositoryProofs`, `BetaProofs`, `AccessProofs`, `PushProofs` | theorems about the modules of operations | proofs |
| `DecisionProofs` | theorems about the decisions: lemmas on the operators for all arguments, then the invariants of `MCDecisions` | proofs |

In a module of operations a *caller*, *handler* or *scanner* is a request under way; a
record `call[p]`, `handler[h]` or `scan[d]` holds `pc`, the awaited operation it performs
next, and what it has read so far. A handler that fails or dies at `pc` leaves what it has
written. Reads that nothing can tell apart are one action.

### StackLanding and MergeQueue

`call[p]` is a `mergeChange`: `change` and `oid` are what it read of the row at the start,
`tip` the ref it resolved, `open` the answer of its last query.

| Action | Code (`stack/stack.service.ts` unless said) |
|---|---|
| `StartMergeChange` | reads the change row, answers not-found or not-open |
| `GateOnChecks`, `GateOnProtection`, `GateOnParent` | the three gates, in order |
| `ResolveBase` | null commit, owner, storage and base ref |
| `LandInBackend` | `mergeChangeViaBackend` (`git/grpcClient.ts`); the reply may be lost after the ref moved |
| `ResolveTip`, `WriteRef` | the in-process landing (`git/git.service.ts`): resolve and compare, then a forced write |
| `MarkMerged`, `ReadRemaining`, `UpdateStack` | the three statements that record the landing |
| `Reply`, `Crash` | the mutation's answer; the process dies, or a query rejects |

The rest are the environment: authors create, drop and amend changes, CI reports checks,
reviewers approve, others push. A branch is the set of commits reachable from its tip, so
"only moves forward" is set inclusion. A merge commit is the record of the commit it joins.
The git backend is outside the repository and modelled from how `grpcClient.ts` uses it: one
call that reads and moves the ref. In process, isomorphic-git's `isDescendent` is false of a
commit and itself, so landing a commit that is the tip makes a merge commit of it; `Joined`
keeps that.

`queue` is the table in order of insertion (this code never deletes a row), `job[p]` the
enqueue or pass of a caller, with the entries and changes it read. A pass performs its
landings with the actions of `StackLanding` on the same caller; `TakeOutcome` takes the
result where a GraphQL mutation would `Reply`. A pass evicts only after reading the blocking
change's checks a second time. `EvictEntry` and `RetireEntry` update by id without a
condition, as the code does.

### PullRequest

`pr` is the table, `ref` the branches (a tip and the commits reachable from it).

| Action | Code |
|---|---|
| `StartOpen`, `ReadMaxNumber`, `InsertRequest` | `createPullRequest`: max + 1, retried on a unique violation |
| `closePullRequest`, `reopenPullRequest` | `setPullRequestState`, one conditional UPDATE |
| `StartMerge` | the mutation reads the row and refuses what is not open |
| `ResolveBranches`, `WriteTarget` | `gitService.merge`: resolve both tips, then write the joined tip with force |
| `MarkMerged` | the unconditional UPDATE with the sha git answered |
| `createRef`, `deleteRef`, `Push` | branches come, move and go |
| `GeneratedCreate`, `GeneratedUpdate`, `GeneratedDelete` | the generated mutations on rows |

### Repository

`row` is the table, `store` the bare repositories by path. An owner is addressed by
username; `getOwnerSlug` prefers an organization's slug, which `Mirrored` switches on.

| Action | Code |
|---|---|
| `StartCreate`, `InsertRow`, `InitStorage`, `UndoCreate` | `repository/createRepository.ts`: limit, insert, storage, delete the row if that failed |
| `StartInitialize`, `Initialize` | `initializeRepository` |
| `StartRename`, `UpdateRow`, `MoveStorage`, `UndoRename` | the wrapper of `renameRepository`: row, directory, row back |
| `StartDelete`, `deleteRepositoryStorageById`, `DeleteRow` | the wrapper of `deleteRepository` |
| `PatchPlace` | the generated update of visibility and organization, which asks for no limit |
| `UpdateDefaultBranch`, `ReadRow`, `syncDefaultBranch` | the generated update of the default branch and the HEAD written after it |
| `Push`, `Crash` | a client pushes a branch; the handler dies |

`FailAt`, `LostAt` and `CrashAt` say where storage fails, a backend acts without its answer
arriving, and a process dies; `Created` and `Patched`, where clients create repositories and
where updates put them.

### Beta

`app` is the table with one row per user, `sent` and `acked` the decisions sent and
answered. `ReadForSubmit`/`submitTesterApplication` and
`ReadForEnrollment`/`ensureStaffEnrollment` are reads and writes of one request with an await
between; `Deliver`, `Apply`, `SendEmail` a delivery through the webhook. Deliveries repeat and come in any
order. `approvals` counts how often a row became approved; it is there for the property.

### Access

`member` and `left` are the truth at the identity provider; `claims`, `fetched` and the
throttle are memory of the process; `user`, `known`, the membership rows with their ages and
`token` are the database. `resolveUserFromToken` upserts the user and starts a mirroring that
`WriteMember` performs row by row; `InsertToken` and `InsertScope` are the two inserts of a
token; the `handle...Deleted` actions are deliveries of the provider's events. Ages count
ticks and saturate one past `TTL`; the expiry of a token stands with its revocation. The
throttle of five minutes is one tick.

### Push

The repositories of one organization share its storage limit, and each has a size in the cache.
One of them, `Here`, is followed to its rows; of the others only the size is. `StartPush`,
`getOrganizationStorageBytes`, one `getRepositorySize` or `WalkFails` for each repository not in the
cache, `isWithinLimit`, `ReadRules`, `receivePack` and `AfterPush` are one request, to one
repository. A walk sees what was there when it began and any of what came since; a failed one
counts the repository as empty. `blind` records what was pushed on such an answer. `StartScan`, `ReadFile`,
`EndReading`, `DeleteRows` and `InsertRows` one scan, of the manifests or of the project
descriptor. A transaction deletes what was committed when its delete began. `alone` and
`exact` record which scans ran undisturbed; they change nothing and serve `QuietScanRepairs`.

### Decisions

A database is a record of sets of rows; a glob is the set of refs or paths it matches; a
commit graph is a record of functions. `MCDecisions` asks one kind of question per step
(gates, access, plans, push, graph, project, git) and its invariants compare the answers.
Several properties are conjunctions of named parts, all in `MCDecisions`; each part carries
the code it is about.

## Runs

All bounds are in the `.cfg` files.

| Run | Question | Result |
|---|---|---|
| `Decisions` | do the decisions the program takes in several places agree, on every small database, credential, graph and history? | yes, under the conditions below |
| `Landing_backend` | two overlapping landings in the backend under a two-approval rule, with a late change, a dropped parent, amendments, checks that turn red and green, a dismissed approval, a push, lost replies, crashes | order, durability, the gates and the contract hold |
| `Landing_lost_update` | do two in-process landings on one branch keep each other's commits? | no, the second drops the first's |
| `Queue_overlapping` | two overlapping passes and a direct landing, all in process, and an enqueuer, with an approval that may be dismissed, drops and crashes | entries are retired and evicted only for cause, one active entry, no stack is closed over an open change |
| `Queue_live` | are entries final, are landed stacks closed, does every job end and every entry leave, when one caller sends jobs and another lands directly? | yes, under the fairness below |
| `Queue_duplicate` | is `enqueueStack` idempotent when two overlap? | no, two active entries |
| `PullRequest_races` | opening, closing, reopening, merging, deleting and dying over two requests from one branch that is amended | merged is on the target for good, the contract holds, open requests land |
| `Repository_faults` | three repositories over three slugs, two handlers, failing storage, lost replies, a death; a plan for one private repository, and updates of visibility and organization | nothing is left behind, nothing pushed is lost, what creations make private passes the plan by one |
| `Beta_decisions` | an applicant and a member of staff, two decisions delivered repeatedly and out of order to two handlers, one fault | access is earned, e-mails are bounded, every decision is answered |
| `Access_credentials` | two sessions, two handlers, a confined token, membership changes, deletions, a restart or redelivery, time | what the mirror honours was claimed within the TTL, confined stays confined, members get mirrored |
| `Push_overlapping` | two pushes and two scans on one branch, a rule that appears, a deletion; two pushes to two repositories of one organization, sizes that expire, walks that see a push half done or fail | protected history and rows by hand stay, a quiet scan repairs, each repository passes the limit as far as `StorageOvershoot` says |
| `Push_edges` | does an edge made by hand keep the detected one for the same pair away? | no, both are there |

### Why the bounds are enough

Two callers are the least that interleave, and no step of the code looks at more than one
other call's effect.

- Landing: `c1 <- c2` is a stack, `c3` a stack of its own on the same branch; two changes
  give a parent and a child, two stacks give two landings on one branch; an amended parent
  gives a child built on a commit that did not land; one foreign commit makes branches
  diverge; one check passes, fails and reruns; two reviewers reach or miss two approvals.
- Queue: a pull request entry and two of a stack give a skipped entry, one in front and one
  behind. `MaxEntries` stops further enqueues. Initial tables are ones the models themselves
  (or, for a pull request entry, a generated mutation) can make.
- Pull requests: two of them share a source that is amended once, so a merge meets a tip
  that moved and a source that is already in the target. `Attempts` is 2 where the code has
  5: the property compares it with the number of openings.
- Repositories: three slugs and three rows let a name be freed, taken again and renamed to.
- Access: one tick of TTL separates fresh from stale; one change and one fault suffice for
  each order of claim, write, removal and restart. `DeletedUsersTokensGo` and
  `MembersGetMirrored` are about one user.
- Push: `MaxBusy` = 2 requests and scans at once. The overshoot of n requests is n(n+1)/2 − 1
  pushes, since a size walked before a push and cached after its invalidation lets every
  request under way pass again; the bound is reached with two and with three requests. Two
  repositories give a cached size of one that is old while the other is pushed to.
- Decisions: rows with every combination of visibility, owner, organization and collaborator,
  credentials with and without scope; graphs of four repositories, cycles included; histories of
  three commits, a chain or a fork, and of a fourth that merges a fork, the feature into main or main
  into the feature.

Three runs restrict the steps of their module, in its MC module. In `Repository_faults` and
`Push_overlapping` a behaviour looks at one of two questions from its first state on (`focus`), so
that what neither needs of the other is not multiplied: faults, or updates and the limit; scans,
or sizes. What a focus leaves out is never a step that fairness asks for. In `Landing_backend`
(`Steady`) checks and approvals are taken back only from changes no call is landing and that have
not landed; `Queue_overlapping` has no such restriction.

Symmetry is used in `Landing_backend` (the callers) and `Push_overlapping` (the handlers, who may
all write there, and the scanners); no liveness is checked there. A push whose author may not
scan is one whose scan fails at once.
Deadlock is checked in every run but `Beta_decisions`, `Access_credentials` and those of `Push`,
where the bounds on decisions, on what happens at the provider, and on pushes let a
behaviour end.

### Conditions some properties carry, and why

- `LandedStackIsClosed`: without crashes, so in `Queue_live`. A death between marking the last change and updating
  the stack leaves the stack open, and no later call closes it.
- `MergedPassedTheGates`, `EvictedHasAFailure` (part of `EntriesLeaveForCause`): states are
  compared with what a gate saw, so they are checked where that is not taken back: not after a call
  for the change began (first), or not at all, for CI reports once (second).
- `ClosedStackIsSettled`, `MergedEntryIsSettled`: about changes that existed from the start;
  one added during a landing or a pass may stay open.
- `AtMostOneActiveEntry` with one enqueuer; `TerminalStatesAreFinal` with one caller that sends
  passes, since a pass that read an entry before another evicted it retires it by id.
- `QueuedEntriesLeave`: no process dies and only the top of the stack may be dropped. The
  child of a dropped parent is refused as parent-unmerged on every pass.
- `Queue_overlapping` is the run of the in-process landing: entries and closing do not depend on
  how a commit lands. That two of them lose commits is `Landing_lost_update`.
- `PullRequest`: one client at a time merges (merges run in process and race as landings do),
  requests go into the default branch, which nobody pushes to, `createRef` and `deleteRef` are
  given branches, and the generated update is not sent for a merged request. `PullRequestProofs!Serial`
  states this. `OpenRequestsLand` counts a request as landed when its commits are in the target:
  after a death between the merge and the row every retry is refused as already merged.
- `Repository`: clients keep operations on the same names apart (`Serial`), organizations have
  no mirrored slug, a removal of storage does not fail, replies are lost only while
  initializing and writing HEAD, a process dies only before storage is made, and no slug or owner goes
  through the generated update (authorization/Repository.plugin.ts lets both through). Each of these,
  taken away, parts a row from its storage.
- `LimitOvershoot`: of repositories no update touched. The generated update makes a repository private,
  or moves a private one into an organization, without asking for the limit, so private repositories
  altogether pass it by any number.
- `StorageOvershoot`: for each repository, and on top of what was pushed after failed walks, which
  nothing bounds. The sum over an organization is not bounded by the number of requests alone: an old
  size of one repository makes room in all the others.
- `HeldTokensStayConfined`: while one of its repositories exists.
- `HonouredMembershipWasClaimed`: a claim counts from when the program last took it from a
  session, whose cached claims are never fetched again.
- `ManualRowsStay`: until what a row names is deleted. `QuietScanRepairs`: for scans with
  nothing of theirs overlapping, and of detected rows only; among the edges one may stand beside a row made by
  hand (`Push_edges`). `ProtectedHistoryStays`: for pushes that began under the rule.
- `ReadersSeeAlike`: for a caller whose mirror equals his claims, who passed the beta gate, with
  a credential without scope; otherwise GraphQL reads by the mirror and git and the tools by
  claims. Its part `ParentsAreShown` is about the row by which a wrapper filters. Other references may
  lead to a row the connections withhold: a public repository's organization (meant,
  authorization/RepositoryRead.plugin.ts:319), the organization of a project, topic or agent of the caller's own,
  the type of an edge, the repository a token is confined to, the stack of a change.
  `ToolsKeepTheirScope` leaves out `repository_blast_radius`, which looks at the user only.
  `AuthorityHoldsTogether` leaves out what the author of a pull request may do to it, and says of
  memberships that a caller is shown those he may change just when he is shown their repository or
  pull request: the guard asks for the project or topic alone
  (authorization/Project.plugin.ts:233-270), the wrapper for both ends
  (authorization/RepositoryRead.plugin.ts:222-225).
- `HistoryViewsHold`, `DifferencesHold`: no path is changed on both sides of a merge, no file
  becomes a directory, and the backend answers as the local store.

### Where documentation and code part

Three violation runs show it: `Landing_lost_update` ("Both only move the branch forward",
`git/git.service.ts:1152`), `Queue_duplicate` ("that existing entry is returned instead of inserting
a duplicate", `mergeQueue/mergeQueue.service.ts:96`) and `Push_edges` ("a manually created edge for the
same pair wins; skip rather than dupe", `dependencies/discoverDependencies.service.ts:224`; the unique
index it relies on contains the branch, null in both rows). Reading for the models showed more:

- `mergeChange` advances the base branch itself (`stack/stack.service.ts:288`) while its doc
  says the advance "is DEFERRED and never performed here" (line 166), and the field `deferred` is documented "Always
  true" though it is always false.
- `mergeQueue/queueGate.ts:18` calls a pending verdict "still running", but an errored or
  skipped required check is pending too (line 28), so its entry never leaves.
- `db/schema/stack.table.ts:85` says "amending an ancestor restacks its descendants"; nothing does.
- `mergePullRequest` and the generated update can overwrite a request closed or merged meanwhile;
  a number is used again after its request was deleted; `createRef` of a
  name under `refs/tags/` makes a branch, and `deleteRef` of one passes the guard of the default
  branch and deletes a branch.
- Renames that overlap, die or lose a reply leave the row and the directory under different
  slugs, contrary to "the database row and storage never diverge"
  (`graphql/plugins/git/RepositoryRename.plugin.ts:85`); initialization is idempotent,
  so a directory left behind is adopted by the next repository of that name.
- A beta application submitted again overwrites a decision that came between read and write,
  overlapping deliveries may each send the acceptance, and a lost submission event leaves an
  application pending.
- Claims are cached for the life of the process; the throttle is stamped before the rows are
  written; deleting an organization upstream only marks its row; a whitelist emptied by deletions
  reads as unconfined; nothing calls `invalidatePermission`.
- The same index admits duplicates from two transactions that scan; a repository without manifests keeps its old edges; organization admins
  may push but start no scan; a failed scan is not retried until the next push.
- Rate limiting is documented as a sliding window and is a fixed one.
- A change of a file's mode alone, and a file replaced by a directory, appear in no list of
  changed files; a topic's readiness ignores members the viewer may not see.

## Fairness

Weak fairness of each handler's next step says that the event loop resumes it after an await
and that a query answers, well or badly. Everything else is an assumption about the outside
and stated as such.

| Run | Further assumptions |
|---|---|
| `Queue_live` | some client keeps sending `processMergeQueue` (the code schedules no pass), CI reports every check, every open change gets a commit, storage and backend do not fail each time (`ClientsKeepAsking`, `CIReports`, `AuthorsCommit`, `BackendRecovers`); `JobsEnd` needs none of them |
| `PullRequest_races` | clients ask again for the merge of an open request; git and the database do not fail each time |
| `Repository_faults` | clients initialize again what cannot be cloned; storage does not fail each time |
| `Beta_decisions` | the webhook delivers until answered 200 (an event it fails to apply is answered 500); the database does not fail each time |
| `Access_credentials` | time passes; the provider delivers until answered; a session in use is now and then the one the throttle lets through, and neither database nor clock is against every write |

Deaths and faults are bounded by constants, so liveness is claimed for behaviours with
finitely many of them.

## Theorems

Seven modules prove theorems about the operations, for any callers, rows, commits, rules and
names. None of the safety properties is inductive by itself: rows are written several awaits
after a condition was read, so each invariant says what a call that has passed a step still has
the right to rely on. An eighth module is about the decisions.

| Theorem | Statement | Assumes | Inductive invariant |
|---|---|---|---|
| `StackLandingProofs` | | `LandingAssumption` | |
| `TypeCorrect` | `Spec => []TypeOK` | — | itself |
| `LandsInOrder` | `Spec => []LandedInOrder` | — | `OrderInv`: a call past the parent gate has a landed parent, which never stops being landed |
| `LandedStaysLanded` | `Spec => []MergedIsOnBranch /\ BranchOnlyGrows` | `AtomicLanding` | `BranchInv`: a call about to record has its commit on the branch, and its commit is one of the change's own |
| `LandingImplementsContract` | `Spec => ImplementsContract` | `AtomicLanding` | both of the above |
| `NothingLandsUngated` | `Spec => []MergedPassedTheGates` | `NothingTakenBack` | `GateInv`: a call past a gate still satisfies it, since checks and approvals only improve |
| `StacksCloseSettled` | `Spec => []ClosedStackIsSettled` | — | `ClosingInv`: a call about to close its stack looked one step earlier, and what it saw lasts |
| `LandedStacksClose` | `Spec => []LandedStackIsClosed` | `~Crashes` | `LandedInv`: while a landed stack is open, some call is on its way to close it |
| `MergeQueueProofs` | | `QueueAssumption`, `InitialQueueAssumption`, `LandingAssumption` | |
| `QueueTypeCorrect` | `QueueSpec => []QueueTypeOK` | — | `QueueTypeInv`: entries and inserts under way fit the table; a pass holds entries there are |
| `QueueRunsLandings` | `QueueSpec => Spec` (of `StackLanding`) | — | none: each step of the queue is one of landing, or a stutter |
| `QueueLandsInOrder` | `QueueSpec => [](LandedInOrder /\ ClosedStackIsSettled)` | — | through `QueueRunsLandings` |
| `EntriesLeaveOnlyForCause` | `QueueSpec => []EntriesLeaveForCause` | `FailuresStand` | `CauseInv`: what a pass concluded of a change still holds when it writes the entry |
| `NoDuplicateEntries` | `QueueSpec => []AtMostOneActiveEntry` | `OneEnqueuer` | `OneEntryInv`: a stack about to be inserted has no active entry |
| `TerminalEntriesStay` | `QueueSpec => TerminalStatesAreFinal` | `OnePasser` | `PassInv`: what a pass has yet to process is still queued |
| `PullRequestProofs` | | `PullRequestParameters` | |
| `TypeCorrect` | `Spec => []TypeOK` | — | itself; a source branch holds only commits of its authors |
| `MergedStaysOnTarget` | `Spec => []MergedIsOnTarget` | `Serial` | `MergeInv`: the target holds what its tip reaches; a call about to write holds a tip that contains the target; a call about to mark holds one the target already has |
| `PullRequestsImplementContract` | `Spec => ImplementsContract` | `Serial` | `MergeInv`; each row change and each target change is a contract step |
| `OpensGetTheirNumber` | `Spec => []GivesUpOnlyWhenCrowded` | — | `CrowdInv`: a number read is above all there are, so each attempt that failed is paid for by a row added since |
| `RepositoryProofs` | | `RepositoryAssumption` | |
| `TypeCorrect` | `Spec => []TypeOK` | — | `TypeInv` |
| `LimitIsNearlyKept` | `Spec => []LimitOvershoot` | — | `LimitInv`: private rows no update touched and requests past the check, together, keep the bound |
| `NothingIsOrphaned` | `Spec => []NoOrphans` | `KeptApart` | `NamesInv`: the repository and the slugs a handler works on are its own, and what it saw of them when it started holds |
| `RepositoriesImplementContract` | `Spec => ImplementsContract` | `KeptApart` | `NamesInv`; each step adds, extends or removes one repository, or none |
| `BetaProofs` | | `BetaParameters` | |
| `TypeCorrect` | `Spec => []TypeOK` | — | itself; the decisions sent are finitely many |
| `EarnedAccess` | `Spec => []AccessIsEarned` | — | `ApprovalsAreEarned`: whoever is approved, or about to be by a request under way, is staff or has an approval among the decisions sent |
| `EmailsAnswerApprovals` | `Spec => []EmailsFollowApprovals` | — | `EmailsAreAllowed`: e-mails sent and handlers about to send one, together, are at most one per handler and approval |
| `AccessProofs` | | `AccessParameters` | |
| `TypeCorrect` | `Spec => []TypeOK` | — | itself |
| `ConfinedTokensStayConfined` | `Spec => []HeldTokensStayConfined` | — | `HeldListsWhatIsLeft`: a token in a client's hands lists exactly what is left of what was asked for |
| `HonouredMeansClaimed` | `Spec => []HonouredMembershipWasClaimed` | — | `NoRowIsYoungerThanItsClaim`: no row, and no write under way, is younger than the claim it rests on |
| `PushProofs` | | `PushParameters` | |
| `TypeCorrect` | `Spec => []TypeOK` | — | itself; every internal edge and membership names something that exists |
| `ProtectedHistory` | `Spec => ProtectedHistoryStays` | — | `RulesAreRead`: a request that began under a rule has read it by the time its pack arrives |
| `ManualRows` | `Spec => ManualRowsStay` | — | `OldRowsWereDetected`: what a scan is about to replace was detected by a scan |
| `OvershootIsBounded` | `Spec => []StorageOvershoot` | — | `OvershootInv`: what was pushed beyond the limit, and may be before another walk ends, is at most what the walks that ended made possible; it sums over the requests, hence n(n+1)/2, for one repository at a time |
| `QuietScansRepair` | `Spec => []QuietScanRepairs` | — | `RowsInv`, `AloneInv`: rows are finitely many, and a scan nothing has disturbed holds what the tip asks for |
| `DecisionProofs` | | `NullAssumption`, `CommitAssumption` | |
| `GatesAlwaysAgree` | `DecisionsSpec => []GatesAgree` | — | none: for any checks |
| `TheStrictestApplies` | `DecisionsSpec => []StrictestRuleApplies` | — | the rules are finitely many |
| `PushesStayInScope` | `DecisionsSpec => []PushStaysInScope` | — | `AcceptedPush`, for any scope, globs and updates |
| `AgentsKeepTheirScope` | `DecisionsSpec => []ToolsKeepTheirScope` | — | by lemmas on any database and caller |
| `AuthorityIsOrdered` | `DecisionsSpec => []AuthorityHoldsTogether` | — | by lemmas on any database; what is shown, for callers whose memberships are mirrored |
| `ReadersAllSeeAlike` | `DecisionsSpec => []ReadersSeeAlike` | — | `WrappersArePolicies` and `ParentsOfTheShown`, for any database |
| `GraphViewsAlwaysHold` | `DecisionsSpec => []GraphViewsHold` | — | `RoundInv`: after k rounds of the walk, depths are at most k, the frontier is what is at k, and what depends on anything nearer has been met |
| `LogIsTheHistory` | the log of a commit is its history, once, newest first | — | for any finite history at times of their own: as many are newer as stand before it |
| `PagesAddUp` | a page put after what comes before it is the beginning of the log | — | for any log, size and offset |
| `DifferenceIsWhole` | the listed files put into the base make the head | — | for any two trees without a file that is a directory of the other |
| `EntriesAreShownAsTheyCame` | every entry of a directory has a last commit, which changed it and left it as at the tip | `Grown`, `FiledAt`, `MergesAreClean` | for any history and trees: a counterexample nearest to the root (`NewestChangeIsAtTheTip`) |
| `PullRequestsShowTheirWork` | a file listed was changed by a commit the source has and the target has not | `Grown`, `FiledAt`, the base on the source's `Line` | for any histories: the oldest commit of the line that has the file as the head has it |
| `UpdatedPullRequestsShowTheirWork` | the same of a pull request whose source merged its target in | `Grown`, `FiledAt`, `MergesAreClean`, all that both have in the base's history | for any histories: base and head have the same changes, hence the same newest one (`SameUnlessAltered`) |
| `HistoryViewsAlwaysHold` | `DecisionsSpec => []HistoryViewsHold` | — | none: the stores of the run satisfy the conditions above |
| `DifferencesAlwaysHold` | `DecisionsSpec => []DifferencesHold` | — | likewise |

The conditions in the third column are hypotheses of the theorems that need them, not of the
models, and a run satisfies each of them:

- `AtomicLanding`: the git backend reads and moves the ref in one call. `LandedStaysLanded` is
  refuted without it by `Landing_lost_update`.
- `NothingTakenBack`, `FailuresStand`: CI takes no pass, or no failure, back, and for the first
  no approval is dismissed.
- `OneEnqueuer`: enqueues do not overlap; `Queue_duplicate` refutes `NoDuplicateEntries` without
  it. `OnePasser`: passes do not overlap.
- `Serial` (pull requests): one client at a time merges, under the conditions listed above.
- `KeptApart` (repositories): `Serial`, no mirrored slug, storage that refuses no deletion, no
  creation or move that succeeds and answers no, no death between a row and the storage it announced.
- The parameters of `Push` and `PullRequest` are finite sets (handlers, scanners, names; request
  rows) because their properties count them. `NullAssumption` says that NULL is none of the values
  the rows hold and none of the numbers asked for, `CommitAssumption` that commits differ from each
  other, from NULL and from references, and that NULL is no difference of files.
- `Grown`: parents are commits and older than their child. `FiledAt`: no file of a commit is a
  directory of another commit. `MergesAreClean`: where a merge has on a path what its first parent has,
  another parent has the same, or none of the commits it brings in changed that path. A three-way merge is
  clean on every path that was not changed on both sides (`MergesBringChanges`), and so is the merge of the
  code itself, which takes the tree of its second parent as it is (git.service.ts:1074). Without this the
  file browser may name a commit whose change a merge dropped, and a pull request list a file no commit
  of its own changed. The base is on the source's
  `Line` when the source never merged its target in: first parents lead from its tip to the base. When
  it did, the base has all that both have in its history, as long as neither was merged into the other twice
  crosswise, which leaves several newest common commits.

How the longer arguments go:

- The queue is built from landings, so its proofs start from `QueueRunsLandings`: whatever is
  proved of `StackLanding` holds of it. `CauseInv` then adds what a pass knows of the change it is
  at, which lasts because merged changes stay merged and failures stand.
- `KeptApart` makes two handlers on one name impossible. What a handler saw at its start (the slug
  is free, the storage absent or at its home) can then only be undone by itself, and a path never becomes
  another repository's. The contract follows path by path.
- The blast radius is a recursive function. That its rounds can be taken is shown by a least
  round that could not; that each satisfies `RoundInv`, by a least one that does not. As many rounds as
  edges are enough: a walk still going after them would have met more sources than there are
  edges. `MoreEdgesOnlyAdd` compares two walks at the nearest repository on which they would differ.
- For the decisions the enumerated inputs serve only to instantiate the lemmas: `AcceptedPush`,
  `ReadersShowTheirScope`, `RadiusIsShortest`, `MoreEdgesOnlyAdd`, `MoreRowsDrift`, `OwnerIsToldMore`
  and the others hold for all scopes, databases and graphs.
- A history is the least set that has a commit and is closed under parents, so what is shown of it is
  proved without induction over its length: of the commits that would be counterexamples, the oldest is
  taken, and its first parent would be an older one. Trees are compared path by path:
  `UnderDiffers` says that a directory differs just where a path below it is changed. Nothing is lost
  on the way through a clean merge, so the newest change of a path is what is at the tip
  (`NewestChangeIsAtTheTip`), and two commits with the same changes of it in their histories have the
  same there (`SameUnlessAltered`). The four shapes of the run, `StoresGrow` and
  `StoresMergeCleanly`, are then instances.

The proofs of landing share the lemmas `CallMoves`, `StatusMoves` and `StackMoves`; those of the
queue `QueueMoves` and `SomeoneActs`; those of pull requests `RowsMove`, `TargetMoves` and
`NumbersMove`.

Only model-checked:

- Liveness (`JobsEnd`, `QueuedEntriesLeave`, `OpenRequestsLand`, `BecomesCloneable`,
  `DecisionsAreAnswered`, `DeletedUsersTokensGo`, `MembersGetMirrored`): the prover does neither
  fairness nor ENABLED.
- What the runs that expect a violation refute.

## Not modelled

Components:

- Permission checks (`authz/`): one caller, a breaker and a cache in one process's memory whose
  transitions are single assignments.
- Rate limiting: a counter per key and fixed window, changed in one synchronous step.
- The entitlement cache and the webhook that empties it; its limits appear in `Repository` and
  `Visibility`.
- Search indexing and subscriptions publish without waiting and decide nothing here.
- Server, configuration, payments webhook, generated schema, migrations and scripts.

Within the modelled parts:

- Landing: tree contents (a merge commit takes the change's tree wholesale, so an amended
  ancestor can be undone), the commit a check was reported for, rules edited during a landing, an
  abandoned stack, deleted rows. Others push to the base branch fast-forward only (`PushToBase`), and of
  the generated `updateChange`, which may set any status or parent, only the dropping of a change is there.
- Pull requests: of the generated update the state column only. Guards of collaborators: the update reads
  repository and user of its patch (authorization/RepositoryCollaborator.plugin.ts:161), taken to be the row's.
- Queue: rows written through generated mutations, `merge_batch` (only generated mutations
  write it), `recordMergeIntent` (nothing calls it).
- Push: other branches than the default one, repositories outside an organization (they have no limit),
  a scan under an owner's name that is not where the repository is stored
  (dependencies/discoverDependencies.service.ts:125), the wire protocol, the parsers of manifests
  (absent, malformed, or a set of names).
- Git views: submodules, patches' wording, issue references.
- Everywhere: wording of errors, events that nothing here reads, limits on the length of
  listings, and, in the models of operations, who may send which mutation; that is the models of decisions.

## Plan

Done: landing and its contract, queue, pull requests, repositories, beta, identity and
tokens, push and discovery, and the decisions; theorems for every safety property and action
property the passing runs check.

Next: histories with several newest common commits, of which the git library reports one, and files
that become directories (`FiledAt` leaves them out; the code lists their files one by one).
