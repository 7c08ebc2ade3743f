---------------------------- MODULE PullRequest ----------------------------
(***************************************************************************)
(* Pull requests of one repository: openPullRequest (pullRequestService.   *)
(* createPullRequest), close and reopen (setPullRequestState), the         *)
(* mergePullRequest mutation with gitService.merge, createRef, deleteRef,  *)
(* and the generated create, update and delete mutations on the rows.      *)
(*                                                                         *)
(* No lock and no transaction: every awaited query or git operation that   *)
(* another call can come between is an action.  A branch is its tip and    *)
(* the commits reachable from it.  Merges always run in process.           *)
(***************************************************************************)
EXTENDS Naturals, FiniteSets, FiniteSetsExt

CONSTANTS
  Caller,         \* request handlers
  Merger,         \* those that may run mergePullRequest
  Request,        \* pull request row ids, never reused
  Branch, DefaultBranch,
  Source, Target, \* branches clients open requests from and into
  Commit, NoCommit,
  Reach,          \* Commit -> commits reachable from it
  StartTip,       \* tips at the start of the branches that exist
  PushTo,         \* Branch -> commits a push may point it at
  Attempts,       \* inserts tried before an open gives up (5 in the code)
  RefKind,        \* kinds of ref names clients pass: "heads", "tags"
  PatchesMerged,  \* whether clients write the state of a merged request
  MaxNumber,      \* bound on numbers clients supply themselves
  MaxCrashes      \* bound on handlers that die

ASSUME PullRequestParameters ==
  /\ Merger \subseteq Caller
  /\ DefaultBranch \in Branch /\ Source \subseteq Branch /\ Target \subseteq Branch
  /\ Source \cap Target = {}
  /\ \A b \in DOMAIN StartTip : StartTip[b] \in Commit
  /\ PushTo \in [Branch -> SUBSET Commit]
  /\ IsFiniteSet(Request) /\ Attempts \in Nat /\ MaxNumber \in Nat
  /\ NoCommit \notin Commit
  /\ \A p \in Caller, c \in Commit : [by |-> p, of |-> c] \notin Commit \cup {NoCommit}
  /\ Reach \in [Commit -> SUBSET Commit]
  /\ \A c \in Commit : c \in Reach[c] /\ \A d \in Reach[c] : Reach[d] \subseteq Reach[c]

VARIABLES pr,     \* pull_request rows
          ref,    \* refs/heads/<branch>
          call,   \* one mutation per caller
          crashes

vars == <<pr, ref, call, crashes>>

State == {"open", "draft", "closed", "merged"}

\* The merge commit a caller makes of a source tip
MergeCommit(p, s) == [by |-> p, of |-> s]
MergeCommits == [by : Caller, of : Commit]

NoRef == [tip |-> NoCommit, hist |-> {}]
TipAt(c) == [tip |-> c, hist |-> Reach[c]]

NoRow == [state |-> "absent"]
Deleted == [state |-> "deleted"]
Row(n, s, t, st) ==
  [number |-> n, state |-> st, src |-> s, tgt |-> t, sha |-> NoCommit]

\* The id the database gives the next row
NewId == CHOOSE r \in Request : pr[r] = NoRow
HasRoom == \E r \in Request : pr[r] = NoRow

listBranches == {b \in Branch : ref[b] # NoRef}

Rows == {r \in Request : pr[r].state \in State}
Numbers == {pr[r].number : r \in Rows}

Idle == [pc |-> "idle"]

AnyCommit == Commit \cup MergeCommits
Tip == {NoRef} \cup [tip : AnyCommit, hist : SUBSET AnyCommit]

\* The columns of a row, and the arguments of an open
IsRow(x) ==
  /\ x = [number |-> x.number, state |-> x.state, src |-> x.src, tgt |-> x.tgt, sha |-> x.sha]
  /\ x.state \in State /\ x.src \in Source /\ x.tgt \in Target /\ x.sha \in AnyCommit \cup {NoCommit}

IsOpening(x) ==
  /\ x = [pc |-> x.pc, src |-> x.src, tgt |-> x.tgt, number |-> x.number, attempt |-> x.attempt]
  /\ x.pc \in {"number", "insert"} /\ x.src \in Source /\ x.tgt \in Target

Merging == [pc : {"resolve", "write", "mark"}, id : Request, src : Source, tgt : Target, new : Tip]

TypeOK ==
  /\ DOMAIN pr = Request /\ DOMAIN call = Caller
  /\ \A r \in Request : pr[r] \in {NoRow, Deleted} \/ IsRow(pr[r])
  /\ ref \in [Branch -> Tip]
  /\ \A b \in Source : ref[b] \in {NoRef} \cup {TipAt(c) : c \in Commit}
  /\ \A p \in Caller : \/ call[p] \in {Idle, [pc |-> "gave-up"]}
                       \/ p \in Merger /\ call[p] \in Merging
                       \/ IsOpening(call[p])

Init ==
  /\ pr = [r \in Request |-> NoRow]
  /\ ref = [b \in Branch |-> IF b \in DOMAIN StartTip THEN TipAt(StartTip[b]) ELSE NoRef]
  /\ call = [p \in Caller |-> Idle]
  /\ crashes = 0

Update(r, row) == pr' = [pr EXCEPT ![r] = row]

Become(p, c) == call' = [call EXCEPT ![p] = c]

\* The mutation answers, with success or an error
Return(p) == Become(p, Idle)

\* openPullRequest answers that it could not claim a number
GiveUp(p) == Become(p, [pc |-> "gave-up"])

-----------------------------------------------------------------------------
\* openPullRequest

\* Both branches are looked up once; a branch deleted later is not noticed.
StartOpen(p, s, t) ==
  /\ call[p].pc = "idle" /\ s # t
  /\ IF ~({s, t} \subseteq listBranches)
       THEN Return(p)
       ELSE Become(p, [pc |-> "number", src |-> s, tgt |-> t, number |-> 0, attempt |-> 1])
  /\ UNCHANGED <<pr, ref, crashes>>

\* coalesce(max(number), 0) + 1 over the rows there are
ReadMaxNumber(p) ==
  /\ call[p].pc = "number"
  /\ Become(p, [call[p] EXCEPT !.pc = "insert", !.number = Max({0} \cup Numbers) + 1])
  /\ UNCHANGED <<pr, ref, crashes>>

\* Mutant: a taken number is not computed again
InsertOnce(p) ==
  LET c == call[p]
  IN  /\ c.pc = "insert"
      /\ \/ /\ c.number \notin Numbers
            /\ HasRoom
            /\ Update(NewId, Row(c.number, c.src, c.tgt, "open"))
            /\ Return(p)
         \/ /\ c.number \in Numbers
            /\ GiveUp(p)
            /\ UNCHANGED pr
         \/ Return(p) /\ UNCHANGED pr
      /\ UNCHANGED <<ref, crashes>>

\* The unique index on (repository, number) refuses a number taken meanwhile: it is
\* computed again, Attempts times in all.  Any other rejection is thrown.
InsertRequest(p) ==
  LET c == call[p]
  IN  /\ c.pc = "insert"
      /\ \/ /\ c.number \notin Numbers
            /\ HasRoom
            /\ Update(NewId, Row(c.number, c.src, c.tgt, "open"))
            /\ Return(p)
         \/ /\ c.number \in Numbers
            /\ IF c.attempt < Attempts
                 THEN Become(p, [c EXCEPT !.pc = "number", !.attempt = @ + 1])
                 ELSE GiveUp(p)
            /\ UNCHANGED pr
         \/ Return(p) /\ UNCHANGED pr
      /\ UNCHANGED <<ref, crashes>>

-----------------------------------------------------------------------------
\* closePullRequest and reopenPullRequest

\* Mutant: any request that is not closed may be closed
closeAnything(action) ==
  IF action = "close" THEN [to |-> "closed", from |-> {"open", "draft", "merged"}]
                      ELSE [to |-> "open", from |-> {"closed"}]

pullRequestStateChange(action) ==
  IF action = "close" THEN [to |-> "closed", from |-> {"open", "draft"}]
                      ELSE [to |-> "open", from |-> {"closed"}]

\* UPDATE ... WHERE id AND state IN from: read and write in one statement
setPullRequestState(r, action) ==
  LET change == pullRequestStateChange(action)
  IN  pr[r].state \in change.from /\ Update(r, [pr[r] EXCEPT !.state = change.to])

closePullRequest(r) == setPullRequestState(r, "close") /\ UNCHANGED <<ref, call, crashes>>

reopenPullRequest(r) == setPullRequestState(r, "reopen") /\ UNCHANGED <<ref, call, crashes>>

-----------------------------------------------------------------------------
\* mergePullRequest and gitService.merge

StartMerge(p, r) ==
  /\ p \in Merger /\ call[p].pc = "idle"
  /\ IF pr[r].state # "open"
       THEN Return(p)
       ELSE Become(p, [pc |-> "resolve", id |-> r, src |-> pr[r].src, tgt |-> pr[r].tgt,
                       new |-> NoRef])
  /\ UNCHANGED <<pr, ref, crashes>>

\* isomorphic-git's isDescendent: false of a commit and itself
isDescendent(b, ancestor) == ancestor.tip \in b.hist /\ ancestor.tip # b.tip

Joined(p, t, s) ==
  LET m == MergeCommit(p, s.tip)
  IN  [tip |-> m, hist |-> t.hist \cup s.hist \cup {m}]

\* Mutant: the two ancestry questions are swapped
ResolveSwapped(p) ==
  LET s == ref[call[p].src]
      t == ref[call[p].tgt]
      Write(new) == Become(p, [call[p] EXCEPT !.pc = "write", !.new = new])
  IN  /\ call[p].pc = "resolve"
      /\ \/ Return(p)
         \/ /\ {call[p].src, call[p].tgt} \subseteq listBranches
            /\ CASE isDescendent(t, s) -> Write(s)
                 [] isDescendent(s, t) -> Return(p)
                 [] OTHER              -> Write(Joined(p, t, s))
      /\ UNCHANGED <<pr, ref, crashes>>

\* Both tips are resolved, and the commit to move the target to is made.
ResolveBranches(p) ==
  LET s == ref[call[p].src]
      t == ref[call[p].tgt]
      Write(new) == Become(p, [call[p] EXCEPT !.pc = "write", !.new = new])
  IN  /\ call[p].pc = "resolve"
      /\ \/ Return(p)
         \/ /\ {call[p].src, call[p].tgt} \subseteq listBranches
            /\ CASE isDescendent(s, t)        -> Write(s)
                 [] isDescendent(t, s)        -> Return(p)
                 [] s.hist \cap t.hist = {}   -> Return(p)
                 [] OTHER                     -> Write(Joined(p, t, s))
      /\ UNCHANGED <<pr, ref, crashes>>

\* Mutant: the row is updated although the ref was not moved
WriteIgnoringErrors(p) ==
  /\ call[p].pc = "write"
  /\ ref' \in {ref, [ref EXCEPT ![call[p].tgt] = call[p].new]}
  /\ Become(p, [call[p] EXCEPT !.pc = "mark"])
  /\ UNCHANGED <<pr, crashes>>

\* writeRef with force: true, whatever the branch points at by now
WriteTarget(p) ==
  /\ call[p].pc = "write"
  /\ \/ /\ ref' = [ref EXCEPT ![call[p].tgt] = call[p].new]
        /\ Become(p, [call[p] EXCEPT !.pc = "mark"])
     \/ /\ Return(p)
        /\ UNCHANGED ref
  /\ UNCHANGED <<pr, crashes>>

\* UPDATE ... WHERE id = pullRequestId: whatever the state is by now, and a success
\* when the row is gone.
MarkMerged(p) ==
  LET c == call[p]
  IN  /\ c.pc = "mark"
      /\ \/ /\ IF c.id \in Rows
                 THEN Update(c.id, [pr[c.id] EXCEPT !.state = "merged", !.sha = c.new.tip])
                 ELSE UNCHANGED pr
            /\ Return(p)
         \/ Return(p) /\ UNCHANGED pr
      /\ UNCHANGED <<ref, crashes>>

Reply(p) == /\ call[p].pc = "gave-up"
            /\ Return(p)
            /\ UNCHANGED <<pr, ref, crashes>>

Crash(p) == /\ crashes < MaxCrashes /\ call[p].pc \notin {"idle", "gave-up"}
            /\ crashes' = crashes + 1
            /\ Return(p)
            /\ UNCHANGED <<pr, ref>>

-----------------------------------------------------------------------------
\* createRef and deleteRef: a name is a kind and a short name, and only the short
\* name reaches git, as a branch.

createBranch(b, c) == ref[b] = NoRef /\ ref' = [ref EXCEPT ![b] = TipAt(c)]

deleteBranch(b) == ref[b] # NoRef /\ ref' = [ref EXCEPT ![b] = NoRef]

createRef(kind, b, c) == createBranch(b, c) /\ UNCHANGED <<pr, call, crashes>>

deleteRef(kind, b) ==
  /\ ~(kind = "heads" /\ b = DefaultBranch)
  /\ deleteBranch(b)
  /\ UNCHANGED <<pr, call, crashes>>

\* The generated mutations: the client supplies number, state and branches itself
GeneratedCreate(n, s, t, st) ==
  /\ HasRoom /\ n \notin Numbers
  /\ Update(NewId, Row(n, s, t, st))
  /\ UNCHANGED <<ref, call, crashes>>

GeneratedUpdate(r, st) ==
  /\ r \in Rows /\ st # pr[r].state
  /\ PatchesMerged \/ (pr[r].state # "merged" /\ st # "merged")
  /\ Update(r, [pr[r] EXCEPT !.state = st])
  /\ UNCHANGED <<ref, call, crashes>>

GeneratedDelete(r) ==
  /\ r \in Rows
  /\ Update(r, Deleted)
  /\ UNCHANGED <<ref, call, crashes>>

\* A push, forced or not, points a branch at a commit its author has
Push(b, c) ==
  /\ ref[b] # NoRef /\ ref[b].tip # c
  /\ ref' = [ref EXCEPT ![b] = TipAt(c)]
  /\ UNCHANGED <<pr, call, crashes>>

CallStep(p) == ReadMaxNumber(p) \/ InsertRequest(p) \/ ResolveBranches(p)
               \/ WriteTarget(p) \/ MarkMerged(p) \/ Reply(p)

Next ==
  \/ \E p \in Caller : \/ \E s \in Source, t \in Target : StartOpen(p, s, t)
                       \/ \E r \in Request : StartMerge(p, r)
                       \/ CallStep(p)
                       \/ Crash(p)
  \/ \E r \in Request :
       \/ closePullRequest(r)
       \/ reopenPullRequest(r)
       \/ \E st \in State : GeneratedUpdate(r, st)
       \/ GeneratedDelete(r)
  \/ \E n \in 1..MaxNumber, s \in Source, t \in Target, st \in {"open", "draft"} :
       GeneratedCreate(n, s, t, st)
  \/ \E b \in Branch : \/ \E k \in RefKind : \/ deleteRef(k, b)
                                            \/ \E c \in PushTo[b] : createRef(k, b, c)
                       \/ \E c \in PushTo[b] : Push(b, c)

\* The event loop resumes a handler after every await; clients keep asking for the
\* merge of an open request; git and the database do not fail every time.
Fairness ==
  /\ \A p \in Caller : WF_vars(CallStep(p))
  /\ \A p \in Merger :
       /\ \A r \in Request : SF_vars(pr[r].state = "open" /\ StartMerge(p, r))
       /\ SF_vars(ResolveBranches(p) /\ call'[p].pc = "write")
       /\ SF_vars(WriteTarget(p) /\ call'[p].pc = "mark")
       /\ SF_vars(MarkMerged(p) /\ pr' # pr)

Spec == Init /\ [][Next]_vars
FairSpec == Spec /\ Fairness

-----------------------------------------------------------------------------
\* Properties

\* A merged request names a commit of its target branch, and keeps naming one:
\* pushes to source branches, deletions, drafts, failed writes and deaths between
\* the git write and the row write included (GitMutations.plugin.ts,
\* mergePullRequest writes the row only with the sha git answered).
MergedIsOnTarget ==
  \A r \in Rows : pr[r].state = "merged" => pr[r].sha \in ref[pr[r].tgt].hist

\* An open gives up only after as many other requests were opened as it has attempts:
\* no number is lost, and fewer overlapping opens than attempts never fail
\* (pullRequest.service.ts, createPullRequest).
GivesUpOnlyWhenCrowded ==
  (\E p \in Caller : call[p].pc = "gave-up")
    => Cardinality({r \in Request : pr[r] # NoRow}) >= Attempts

\* With clients that keep asking and finitely many deaths, an open request is merged,
\* or its commits reach the target even if the row never says so: a death between the
\* two writes does not lose the work (git.service.ts, merge).
OpenRequestsLand ==
  \A r \in Request :
    pr[r].state = "open"
      ~> \/ pr[r].state # "open"
         \/ ref[pr[r].src] = NoRef
         \/ ref[pr[r].src].tip \in ref[pr[r].tgt].hist

-----------------------------------------------------------------------------
\* The life of a request into the default branch: merged is terminal,
\* "a merged pull request is never affected and a concurrent merge cannot be
\* clobbered" (pullRequest.service.ts, setPullRequestState), the recorded commit is on
\* the target, and the target only grows.
Contract == INSTANCE PullRequestContract WITH
  Request  <- Request,
  NoCommit <- NoCommit,
  state    <- [r \in Request |-> pr[r].state],
  sha      <- [r \in Request |-> IF r \in Rows THEN pr[r].sha ELSE NoCommit],
  target   <- ref[DefaultBranch].hist

ImplementsContract == Contract!Spec
=============================================================================
