---------------------------- MODULE StackLanding ----------------------------
(***************************************************************************)
(* Landing stacked changes: stackService.mergeChange and the git landing   *)
(* it calls, gitService.mergeChangeIntoBranch.                             *)
(*                                                                         *)
(* A call runs on behalf of a caller (one request handler).  The code      *)
(* takes no lock and opens no transaction, so every awaited query or git   *)
(* operation is an action of its own and calls interleave between them.    *)
(* A call's pc names the operation it will perform next.  Everything else  *)
(* that writes the rows or the branch (the authors' tools, CI, reviewers,  *)
(* pushes) is the environment.                                             *)
(*                                                                         *)
(* One repository, one base branch.  A branch is the set of commits        *)
(* reachable from its tip.                                                 *)
(***************************************************************************)
EXTENDS QueueGate, FiniteSets

CONSTANTS
  Caller,          \* request handlers that may run a landing
  Change, Stack,   \* row ids
  StackOf,         \* Change -> Stack
  ParentOf,        \* Change -> Change, or NoParent for the bottom of a stack
  NoParent,
  Late,            \* changes not yet created at the start
  Droppable,       \* changes an author may drop
  Commit,          \* commits the authors made
  NoCommit,        \* commitSha is null
  CommitsOf,       \* Change -> commits the change may carry
  Reach,           \* Commit -> commits reachable from it
  Base,            \* commits on the base branch at the start
  Push,            \* commits others push on top of the base branch
  CheckName,       \* required verification checks of every change
  CheckFlow,       \* <<old, new>> status reports CI may make
  Reviewer, Dismissals, \* reviewers; whether an approval may be withdrawn
  Rules,           \* branch protection rules of the repository
  BaseBranch,      \* name of the base branch
  AtomicLanding,   \* the git backend lands in one step; else in process
  Crashes          \* whether a request handler may die

ASSUME LandingAssumption ==
  /\ StackOf \in [Change -> Stack]
  /\ ParentOf \in [Change -> Change \cup {NoParent}]
  /\ NoParent \notin Change
  /\ Late \subseteq Change /\ Droppable \subseteq Change
  /\ CommitsOf \in [Change -> SUBSET Commit]
  /\ NoCommit \notin Commit
  /\ Reach \in [Commit -> SUBSET Commit]
  /\ \A o \in Commit : o \in Reach[o]
  /\ Base \subseteq Commit /\ Push \subseteq Commit
  /\ AtomicLanding \in BOOLEAN /\ Crashes \in BOOLEAN /\ Dismissals \in BOOLEAN

VARIABLES
  status,       \* change.status, "absent" before the row exists
  commit,       \* change.commitSha
  checks,       \* verification_check rows of each change
  approvals,    \* reviewers whose review of the change's pull request approves
  stackStatus,  \* stack.status
  branch,       \* commits reachable from refs/heads/<base>
  call          \* one mergeChange call per caller

rowVars == <<status, commit, checks, approvals, stackStatus>>
vars == <<rowVars, branch, call>>

ChangeStatus == {"absent", "open", "merged", "abandoned"}

Reason == {"not-found", "not-open", "not-mergeable", "branch-protected",
           "parent-unmerged", "repository-unavailable", "git-error"}

\* The merge commit that joins the base tip with commit o
MergeCommit(o) == [mergeOf |-> o]
MergeCommits == {MergeCommit(o) : o \in Commit}

Idle == [pc |-> "idle"]

\* Before and after the call has a commit to land
GatePC == {"checks", "rules", "parent", "base"}
LandPC == {"land", "write", "mark", "remaining", "stack"}

Running(pcs, oids) ==
  [pc : pcs, change : Change, oid : oids, tip : SUBSET (Commit \cup MergeCommits),
   open : BOOLEAN]

Call == {Idle}
        \cup Running(GatePC, Commit \cup {NoCommit})
        \cup Running(LandPC, Commit)
        \cup [pc : {"done"}, change : Change, outcome : Reason \cup {"ok"}]

TypeOK ==
  /\ status \in [Change -> ChangeStatus]
  /\ commit \in [Change -> Commit \cup {NoCommit}]
  /\ checks \in [Change -> [CheckName -> Check]]
  /\ approvals \in [Change -> SUBSET Reviewer]
  /\ stackStatus \in [Stack -> {"open", "merged"}]
  /\ branch \in SUBSET (Commit \cup MergeCommits)
  /\ call \in [Caller -> Call]

Init ==
  /\ status = [c \in Change |-> IF c \in Late THEN "absent" ELSE "open"]
  /\ commit \in {f \in [Change -> Commit \cup {NoCommit}] :
                   \A c \in Change : f[c] \in CommitsOf[c] \cup {NoCommit}}
  /\ checks = [c \in Change |->
                 [n \in CheckName |-> [status |-> "pending", required |-> TRUE]]]
  /\ approvals = [c \in Change |-> {}]
  /\ stackStatus = [s \in Stack |-> "open"]
  /\ branch = Base
  /\ call = [p \in Caller |-> Idle]

-----------------------------------------------------------------------------
\* stackService.mergeChange, one action per awaited operation

Goto(p, pc) == call' = [call EXCEPT ![p].pc = pc]

Return(p, c, outcome) ==
  call' = [call EXCEPT ![p] = [pc |-> "done", change |-> c, outcome |-> outcome]]

\* The row is read once, with its commit; later steps use what was read.
StartMergeChange(p, c) ==
  /\ call[p].pc = "idle"
  /\ \/ status[c] = "absent" /\ Return(p, c, "not-found")
     \/ status[c] \in {"merged", "abandoned"} /\ Return(p, c, "not-open")
     \/ /\ status[c] = "open"
        /\ call' = [call EXCEPT ![p] =
             [pc |-> "checks", change |-> c, oid |-> commit[c], tip |-> {}, open |-> FALSE]]
  /\ UNCHANGED <<rowVars, branch>>

\* Mutant: only a failed check holds a change back
GateOnFailedChecks(p) ==
  /\ call[p].pc = "checks"
  /\ IF classifyRequiredChecks(checks[call[p].change]) # "failed"
       THEN Goto(p, "rules")
       ELSE Return(p, call[p].change, "not-mergeable")
  /\ UNCHANGED <<rowVars, branch>>

GateOnChecks(p) ==
  /\ call[p].pc = "checks"
  /\ IF computeMergeability(checks[call[p].change]).mergeable
       THEN Goto(p, "rules")
       ELSE Return(p, call[p].change, "not-mergeable")
  /\ UNCHANGED <<rowVars, branch>>

countApprovals(c) == Cardinality(approvals[c])

\* The verdict on the checks is not read again: reaching here is "passed".
GateOnProtection(p) ==
  LET c == call[p].change
  IN  /\ call[p].pc = "rules"
      /\ IF evaluateBranchProtection(Rules, BaseBranch,
              [approvals |-> countApprovals(c), checkVerdict |-> "passed"]).allowed
           THEN Goto(p, "parent")
           ELSE Return(p, c, "branch-protected")
      /\ UNCHANGED <<rowVars, branch>>

\* Mutant: a parent that was dropped no longer holds its child back
GateOnOpenParent(p) ==
  LET c == call[p].change
  IN  /\ call[p].pc = "parent"
      /\ IF ParentOf[c] = NoParent \/ status[ParentOf[c]] # "open"
           THEN Goto(p, "base")
           ELSE Return(p, c, "parent-unmerged")
      /\ UNCHANGED <<rowVars, branch>>

GateOnParent(p) ==
  LET c == call[p].change
  IN  /\ call[p].pc = "parent"
      /\ IF ParentOf[c] = NoParent \/ status[ParentOf[c]] = "merged"
           THEN Goto(p, "base")
           ELSE Return(p, c, "parent-unmerged")
      /\ UNCHANGED <<rowVars, branch>>

\* Mutant: a change without a commit is not turned away
ResolveBaseOnly(p) ==
  /\ call[p].pc = "base"
  /\ \/ Return(p, call[p].change, "repository-unavailable")
     \/ Goto(p, "land")
  /\ UNCHANGED <<rowVars, branch>>

\* A null commit, the owner directory, the repository on disk and the base ref:
\* any of them may be missing.
ResolveBase(p) ==
  LET c == call[p].change
  IN  /\ call[p].pc = "base"
      /\ \/ call[p].oid = NoCommit /\ Return(p, c, "git-error")
         \/ call[p].oid # NoCommit /\ Return(p, c, "repository-unavailable")
         \/ call[p].oid # NoCommit /\ Goto(p, "land")
      /\ UNCHANGED <<rowVars, branch>>

-----------------------------------------------------------------------------
\* gitService.mergeChangeIntoBranch

\* Mutant: the merge commit does not have the tip as a parent
JoinedWithoutTip(tip, o) ==
  IF tip \subseteq Reach[o] /\ tip # Reach[o]
    THEN Reach[o]
    ELSE Reach[o] \cup {MergeCommit(o)}

\* What moving a tip to commit o makes of the branch: o itself when o is a strict
\* descendant of the tip, else a merge commit of the two.
Joined(tip, o) ==
  IF tip \subseteq Reach[o] /\ tip # Reach[o]
    THEN Reach[o]
    ELSE tip \cup Reach[o] \cup {MergeCommit(o)}

\* Nothing changes when o is there already
Landed(tip, o) == IF o \in tip THEN tip ELSE Joined(tip, o)

\* Mutant: a landing that failed is taken for one that was not needed
LandOnAnyReply(p) ==
  /\ AtomicLanding
  /\ call[p].pc = "land"
  /\ branch' \in {branch, Landed(branch, call[p].oid)}
  /\ Goto(p, "mark")
  /\ UNCHANGED rowVars

\* The arbor-git backend reads and moves the ref in one call; its reply may be
\* lost after it did.
LandInBackend(p) ==
  /\ AtomicLanding
  /\ call[p].pc = "land"
  /\ \/ branch' = Landed(branch, call[p].oid)
     \/ branch' = branch
  /\ \/ call[p].oid \in branch' /\ Goto(p, "mark")
     \/ Return(p, call[p].change, "git-error")
  /\ UNCHANGED rowVars

\* In process: the tip is resolved first.  isDescendent is false of a commit and
\* itself, so a commit that is the tip is not "already contained" ...
ResolveTip(p) ==
  /\ ~AtomicLanding
  /\ call[p].pc = "land"
  /\ \/ /\ call[p].oid \in branch /\ branch # Reach[call[p].oid]
        /\ Goto(p, "mark")
     \/ /\ call[p].oid \notin branch \/ branch = Reach[call[p].oid]
        /\ call' = [call EXCEPT ![p].pc = "write", ![p].tip = branch]
     \/ Return(p, call[p].change, "git-error")
  /\ UNCHANGED <<rowVars, branch>>

\* ... and the ref is written with force: true, whatever it points at by then.
WriteRef(p) ==
  /\ call[p].pc = "write"
  /\ \/ /\ branch' = Joined(call[p].tip, call[p].oid)
        /\ Goto(p, "mark")
     \/ /\ Return(p, call[p].change, "git-error")
        /\ UNCHANGED branch
  /\ UNCHANGED rowVars

-----------------------------------------------------------------------------
\* Recording the landing

\* UPDATE change ... WHERE id = changeId, whatever its status is by now
MarkMerged(p) ==
  /\ call[p].pc = "mark"
  /\ status' = [status EXCEPT ![call[p].change] = "merged"]
  /\ Goto(p, "remaining")
  /\ UNCHANGED <<commit, checks, approvals, stackStatus, branch>>

\* Mutant: a change that landed still counts as one to wait for
ReadUndropped(p) ==
  /\ call[p].pc = "remaining"
  /\ call' = [call EXCEPT ![p].pc = "stack",
                ![p].open = \E d \in Change : /\ StackOf[d] = StackOf[call[p].change]
                                              /\ status[d] \in {"open", "merged"}]
  /\ UNCHANGED <<rowVars, branch>>

ReadRemaining(p) ==
  /\ call[p].pc = "remaining"
  /\ call' = [call EXCEPT ![p].pc = "stack",
                ![p].open = \E d \in Change : /\ StackOf[d] = StackOf[call[p].change]
                                              /\ status[d] = "open"]
  /\ UNCHANGED <<rowVars, branch>>

\* Mutant: the stack is closed without looking at what was read
CloseStack(p) ==
  /\ call[p].pc = "stack"
  /\ stackStatus' = [stackStatus EXCEPT ![StackOf[call[p].change]] = "merged"]
  /\ Return(p, call[p].change, "ok")
  /\ UNCHANGED <<status, commit, checks, approvals, branch>>

UpdateStack(p) ==
  LET s == StackOf[call[p].change]
  IN  /\ call[p].pc = "stack"
      /\ stackStatus' = IF call[p].open THEN stackStatus
                                        ELSE [stackStatus EXCEPT ![s] = "merged"]
      /\ Return(p, call[p].change, "ok")
      /\ UNCHANGED <<status, commit, checks, approvals, branch>>

\* The mutation answers its client
Reply(p) == /\ call[p].pc = "done"
            /\ call' = [call EXCEPT ![p] = Idle]
            /\ UNCHANGED <<rowVars, branch>>

\* The handler dies between two steps; what it wrote stays.
Crash(p) == /\ Crashes
            /\ call[p].pc # "idle"
            /\ call' = [call EXCEPT ![p] = Idle]
            /\ UNCHANGED <<rowVars, branch>>

CallStep(p) ==
  \/ GateOnChecks(p) \/ GateOnProtection(p) \/ GateOnParent(p) \/ ResolveBase(p)
  \/ LandInBackend(p) \/ ResolveTip(p) \/ WriteRef(p)
  \/ MarkMerged(p) \/ ReadRemaining(p) \/ UpdateStack(p)

-----------------------------------------------------------------------------
\* The environment: generated CRUD, CI, reviewers and pushes

\* An author adds a change to a stack, or drops or amends one that is open
CreateChange(c) ==
  /\ status[c] = "absent"
  /\ status' = [status EXCEPT ![c] = "open"]
  /\ UNCHANGED <<commit, checks, approvals, stackStatus, branch, call>>

AbandonChange(c) ==
  /\ c \in Droppable /\ status[c] = "open"
  /\ status' = [status EXCEPT ![c] = "abandoned"]
  /\ UNCHANGED <<commit, checks, approvals, stackStatus, branch, call>>

AmendChange(c, o) ==
  /\ status[c] = "open" /\ o # commit[c]
  /\ commit' = [commit EXCEPT ![c] = o]
  /\ UNCHANGED <<status, checks, approvals, stackStatus, branch, call>>

ReportCheck(c, n, s) ==
  /\ status[c] # "absent" /\ <<checks[c][n].status, s>> \in CheckFlow
  /\ checks' = [checks EXCEPT ![c][n].status = s]
  /\ UNCHANGED <<status, commit, approvals, stackStatus, branch, call>>

Approve(c, r) ==
  /\ status[c] # "absent" /\ r \notin approvals[c]
  /\ approvals' = [approvals EXCEPT ![c] = @ \cup {r}]
  /\ UNCHANGED <<status, commit, checks, stackStatus, branch, call>>

DismissApproval(c, r) ==
  /\ Dismissals /\ r \in approvals[c]
  /\ approvals' = [approvals EXCEPT ![c] = @ \ {r}]
  /\ UNCHANGED <<status, commit, checks, stackStatus, branch, call>>

\* git receive-pack of a commit on top of the tip; git itself compares and swaps
PushToBase(o) ==
  /\ o \notin branch
  /\ branch' = branch \cup {o}
  /\ UNCHANGED <<rowVars, call>>

Environment ==
  \/ \E c \in Change : \/ CreateChange(c)
                       \/ AbandonChange(c)
                       \/ \E o \in CommitsOf[c] : AmendChange(c, o)
                       \/ \E n \in CheckName, s \in CheckStatus : ReportCheck(c, n, s)
                       \/ \E r \in Reviewer : Approve(c, r) \/ DismissApproval(c, r)
  \/ \E o \in Push : PushToBase(o)

Next ==
  \/ \E p \in Caller : \/ \E c \in Change : StartMergeChange(p, c)
                       \/ CallStep(p)
                       \/ Reply(p)
                       \/ Crash(p)
  \/ Environment

Spec == Init /\ [][Next]_vars

-----------------------------------------------------------------------------
\* Properties

\* The stack lands in dependency order: a change is recorded merged only above
\* a parent that is recorded merged, whatever calls, drops and amendments
\* overlap (stack.service.ts, the parent gate of mergeChange).
LandedInOrder ==
  \A c \in Change :
    status[c] = "merged" => ParentOf[c] = NoParent \/ status[ParentOf[c]] = "merged"

\* A change recorded merged has a commit of its own on the base branch: the row
\* is written after the ref (stack.service.ts, mergeChange), and no later
\* landing or push takes the commit off again.
MergedIsOnBranch ==
  \A c \in Change : status[c] = "merged" => CommitsOf[c] \cap branch # {}

\* "Both only move the branch forward, so no history is rewritten and no commits
\* are lost" (git.service.ts, mergeChangeIntoBranch).
BranchOnlyGrows == [][branch \subseteq branch']_vars

\* Nobody is in the middle of a landing
Quiet == \A p \in Caller : call[p].pc = "idle"

\* When every change of a stack has landed and no call is under way, the stack is
\* closed: of several calls that finish together, one sees that none is left
\* (stack.service.ts, the remainingOpen read of mergeChange).
LandedStackIsClosed ==
  \A s \in Stack :
    Quiet /\ (\E c \in Change : StackOf[c] = s)
          /\ (\A c \in Change : StackOf[c] = s => status[c] = "merged")
      => stackStatus[s] = "merged"

\* The reverse: a closed stack has no open change but one added since
ClosedStackIsSettled ==
  \A c \in Change \ Late : stackStatus[StackOf[c]] = "merged" => status[c] # "open"

\* While nothing a gate saw is taken back behind it, nothing lands red: a merged
\* change has every required check passed and the approvals the base branch asks
\* for (stack.service.ts, the two gates of mergeChange).
MergedPassedTheGates ==
  \A c \in Change : status[c] = "merged" =>
    /\ classifyRequiredChecks(checks[c]) = "passed"
    /\ evaluateBranchProtection(Rules, BaseBranch,
         [approvals |-> countApprovals(c), checkVerdict |-> "passed"]).allowed

-----------------------------------------------------------------------------
\* The abstract specification this module implements when landing is atomic

Contract == INSTANCE LandingContract WITH
  Change    <- Change,
  ParentOf  <- ParentOf,
  NoParent  <- NoParent,
  CommitsOf <- CommitsOf,
  Base      <- Base,
  status    <- status,
  branch    <- branch

\* Every behaviour of calls and crashes is one of the contract's: a ref that only
\* grows and rows written after it, in dependency order.
ImplementsContract == Contract!Spec
=============================================================================
