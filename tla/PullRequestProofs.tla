------------------------- MODULE PullRequestProofs -------------------------
(***************************************************************************)
(* Theorems about PullRequest, for every set of callers, requests,         *)
(* branches and commits, and any number of crashes.                        *)
(***************************************************************************)
EXTENDS PullRequest, FiniteSetTheorems, WellFoundedInduction, TLAPS

-----------------------------------------------------------------------------
(***************************************************************************)
(* Type correctness.                                                       *)
(***************************************************************************)

CallType(p, x) == \/ x \in {Idle, [pc |-> "gave-up"]}
                  \/ p \in Merger /\ x \in Merging
                  \/ IsOpening(x)

RowType(x) == x \in {NoRow, Deleted} \/ IsRow(x)

LEMMA Tips == NoRef \in Tip /\ \A c \in Commit : TipAt(c) \in Tip
BY PullRequestParameters DEF Tip, NoRef, TipAt, AnyCommit

LEMMA TypeInit == Init => TypeOK
BY Tips, PullRequestParameters DEF Init, TypeOK

LEMMA NewIdIsFree == HasRoom => NewId \in Request /\ pr[NewId] = NoRow
BY DEF HasRoom, NewId

\* What is written into one row, one branch or one call
LEMMA OneRow ==
  ASSUME TypeOK, NEW r \in Request, NEW x, RowType(x), pr' = [pr EXCEPT ![r] = x]
  PROVE  DOMAIN pr' = Request /\ \A q \in Request : RowType(pr'[q])
BY DEF TypeOK, RowType

LEMMA OneCall ==
  ASSUME TypeOK, NEW p \in Caller, NEW x, CallType(p, x), call' = [call EXCEPT ![p] = x]
  PROVE  DOMAIN call' = Caller /\ \A q \in Caller : CallType(q, call'[q])
BY DEF TypeOK, CallType

\* A row, as a member of a set of records: its number is whatever it is.
RowOf(n) == [number : {n}, state : State, src : Source, tgt : Target, sha : AnyCommit \cup {NoCommit}]

LEMMA RowsAreRecords == \A x : IsRow(x) <=> x \in RowOf(x.number)
BY DEF IsRow, RowOf

LEMMA NewState ==
  ASSUME NEW x, IsRow(x), NEW st \in State
  PROVE  /\ IsRow([x EXCEPT !.state = st])
         /\ [x EXCEPT !.state = st].state = st /\ [x EXCEPT !.state = st].tgt = x.tgt
         /\ [x EXCEPT !.state = st].sha = x.sha
         /\ [x EXCEPT !.state = st].number = x.number
<1> DEFINE y == [x EXCEPT !.state = st]
<1>1. x \in RowOf(x.number)
  BY RowsAreRecords
<1>2. y \in RowOf(x.number) /\ y.state = st /\ y.tgt = x.tgt /\ y.sha = x.sha
      /\ y.number = x.number
  BY <1>1 DEF RowOf
<1> HIDE DEF y
<1>3. IsRow(y)
  BY <1>2 DEF RowOf, IsRow
<1> QED
  BY <1>2, <1>3 DEF y

LEMMA Landed ==
  ASSUME NEW x, IsRow(x), NEW c \in AnyCommit \cup {NoCommit}
  PROVE  /\ IsRow([x EXCEPT !.state = "merged", !.sha = c])
         /\ [x EXCEPT !.state = "merged", !.sha = c].state = "merged"
         /\ [x EXCEPT !.state = "merged", !.sha = c].tgt = x.tgt
         /\ [x EXCEPT !.state = "merged", !.sha = c].sha = c
         /\ [x EXCEPT !.state = "merged", !.sha = c].number = x.number
<1> DEFINE y == [x EXCEPT !.state = "merged", !.sha = c]
<1>1. x \in RowOf(x.number)
  BY RowsAreRecords
<1>2. y \in RowOf(x.number) /\ y.state = "merged" /\ y.tgt = x.tgt /\ y.sha = c
      /\ y.number = x.number
  BY <1>1 DEF RowOf, State
<1> HIDE DEF y
<1>3. IsRow(y)
  BY <1>2 DEF RowOf, IsRow
<1> QED
  BY <1>2, <1>3 DEF y

\* A call that opens, and one that merges, moving on
OpeningOf(n, a) == [pc : {"number", "insert"}, src : Source, tgt : Target, number : {n}, attempt : {a}]

LEMMA NextOpening ==
  ASSUME NEW x, IsOpening(x), NEW n, NEW a
  PROVE  /\ IsOpening([x EXCEPT !.pc = "insert", !.number = n])
         /\ IsOpening([x EXCEPT !.pc = "number", !.attempt = a])
<1>1. x \in OpeningOf(x.number, x.attempt)
  BY DEF IsOpening, OpeningOf
<1> DEFINE y == [x EXCEPT !.pc = "insert", !.number = n]
           z == [x EXCEPT !.pc = "number", !.attempt = a]
<1>2. y \in OpeningOf(n, x.attempt) /\ z \in OpeningOf(x.number, a)
  BY <1>1 DEF OpeningOf
<1> HIDE DEF y, z
<1>3. IsOpening(y) /\ IsOpening(z)
  BY <1>2 DEF OpeningOf, IsOpening
<1> QED
  BY <1>3 DEF y, z

LEMMA NextMerging ==
  ASSUME NEW x \in Merging, NEW t \in Tip
  PROVE  /\ [x EXCEPT !.pc = "write", !.new = t] \in Merging
         /\ [x EXCEPT !.pc = "write", !.new = t].pc = "write"
         /\ [x EXCEPT !.pc = "write", !.new = t].new = t
         /\ [x EXCEPT !.pc = "mark"] \in Merging
         /\ [x EXCEPT !.pc = "mark"].pc = "mark" /\ [x EXCEPT !.pc = "mark"].new = x.new
BY DEF Merging

\* What a call is, by its step
LEMMA CallKinds ==
  ASSUME TypeOK, NEW p \in Caller
  PROVE  /\ call[p].pc \in {"number", "insert"} => IsOpening(call[p])
         /\ call[p].pc \in {"resolve", "write", "mark"} => p \in Merger /\ call[p] \in Merging
BY DEF TypeOK, Idle, Merging, IsOpening

LEMMA RowKinds ==
  ASSUME TypeOK, NEW r \in Request
  PROVE  /\ r \in Rows <=> IsRow(pr[r])
         /\ r \notin Rows => pr[r] \in {NoRow, Deleted}
BY DEF TypeOK, Rows, IsRow, NoRow, Deleted, State

LEMMA JoinedTip ==
  ASSUME NEW p \in Caller, NEW t \in Tip, NEW s \in Tip, s.tip \in Commit
  PROVE  Joined(p, t, s) \in Tip
<1>1. MergeCommit(p, s.tip) \in AnyCommit
  BY DEF MergeCommit, AnyCommit, MergeCommits
<1>2. t.hist \subseteq AnyCommit /\ s.hist \subseteq AnyCommit
  BY DEF Tip, NoRef
<1> QED
  BY <1>1, <1>2 DEF Joined, Tip

\* Pushes and ref mutations, and writes to a target
LEMMA OneRef ==
  ASSUME TypeOK, NEW b \in Branch, NEW t \in Tip, ref' = [ref EXCEPT ![b] = t],
         b \in Source => t \in {NoRef} \cup {TipAt(c) : c \in Commit}
  PROVE  /\ ref' \in [Branch -> Tip]
         /\ \A a \in Source : ref'[a] \in {NoRef} \cup {TipAt(c) : c \in Commit}
BY PullRequestParameters DEF TypeOK

LEMMA TypeFromParts ==
  ASSUME TypeOK,
         UNCHANGED pr \/ (DOMAIN pr' = Request /\ \A q \in Request : RowType(pr'[q])),
         UNCHANGED call \/ (DOMAIN call' = Caller /\ \A q \in Caller : CallType(q, call'[q])),
         UNCHANGED ref \/ /\ ref' \in [Branch -> Tip]
                          /\ \A a \in Source : ref'[a] \in {NoRef} \cup {TipAt(c) : c \in Commit}
  PROVE  TypeOK'
BY DEF TypeOK, RowType, CallType

LEMMA Answers ==
  ASSUME TypeOK, NEW p \in Caller, Return(p) \/ GiveUp(p)
  PROVE  DOMAIN call' = Caller /\ \A q \in Caller : CallType(q, call'[q])
BY OneCall DEF Return, GiveUp, Become, CallType

\* A new row
LEMMA Inserts ==
  ASSUME TypeOK, HasRoom, NEW n, NEW s \in Source, NEW t \in Target, NEW st \in State,
         Update(NewId, Row(n, s, t, st))
  PROVE  /\ DOMAIN pr' = Request /\ \A q \in Request : RowType(pr'[q])
         /\ \A q \in Request \ {NewId} : pr'[q] = pr[q]
         /\ NewId \in Request /\ pr[NewId] = NoRow /\ pr'[NewId] = Row(n, s, t, st)
         /\ IsRow(Row(n, s, t, st))
<1>1. IsRow(Row(n, s, t, st))
  BY DEF Row, IsRow
<1>2. NewId \in Request /\ pr[NewId] = NoRow
  BY NewIdIsFree
<1> QED
  BY <1>1, <1>2, OneRow DEF Update, RowType, TypeOK

LEMMA TypeStep == TypeOK /\ [Next]_vars => TypeOK'
<1> SUFFICES ASSUME TypeOK, [Next]_vars PROVE TypeOK'
    OBVIOUS
<1>1. ASSUME NEW p \in Caller, NEW s \in Source, NEW t \in Target, StartOpen(p, s, t) PROVE TypeOK'
  <2>1. IsOpening([pc |-> "number", src |-> s, tgt |-> t, number |-> 0, attempt |-> 1])
    BY DEF IsOpening
  <2>2. DOMAIN call' = Caller /\ \A q \in Caller : CallType(q, call'[q])
    BY <1>1, <2>1, Answers, OneCall DEF StartOpen, Become, CallType
  <2> QED
    BY <1>1, <2>2, TypeFromParts DEF StartOpen
<1>2. ASSUME NEW p \in Caller, ReadMaxNumber(p) PROVE TypeOK'
  <2>1. IsOpening([call[p] EXCEPT !.pc = "insert", !.number = Max({0} \cup Numbers) + 1])
    BY <1>2, CallKinds, NextOpening DEF ReadMaxNumber
  <2>2. DOMAIN call' = Caller /\ \A q \in Caller : CallType(q, call'[q])
    BY <1>2, <2>1, OneCall DEF ReadMaxNumber, Become, CallType
  <2> QED
    BY <1>2, <2>2, TypeFromParts DEF ReadMaxNumber
<1>3. ASSUME NEW p \in Caller, InsertRequest(p) PROVE TypeOK'
  <2>1. IsOpening(call[p])
    BY <1>3, CallKinds DEF InsertRequest
  <2>2. IsOpening([call[p] EXCEPT !.pc = "number", !.attempt = call[p].attempt + 1])
    BY <2>1, NextOpening
  <2>3. DOMAIN call' = Caller /\ \A q \in Caller : CallType(q, call'[q])
    BY <1>3, <2>2, Answers, OneCall DEF InsertRequest, Become, CallType
  <2>4. UNCHANGED pr \/ (DOMAIN pr' = Request /\ \A q \in Request : RowType(pr'[q]))
    BY <1>3, <2>1, Inserts DEF InsertRequest, IsOpening, State
  <2> QED
    BY <1>3, <2>3, <2>4, TypeFromParts DEF InsertRequest
<1>4. ASSUME NEW p \in Caller, NEW r \in Request, StartMerge(p, r) PROVE TypeOK'
  <2>1. ASSUME pr[r].state = "open"
        PROVE  [pc |-> "resolve", id |-> r, src |-> pr[r].src, tgt |-> pr[r].tgt, new |-> NoRef]
                 \in Merging
    BY <2>1, Tips DEF TypeOK, NoRow, Deleted, IsRow, Merging
  <2>2. DOMAIN call' = Caller /\ \A q \in Caller : CallType(q, call'[q])
    BY <1>4, <2>1, Answers, OneCall DEF StartMerge, Become, CallType
  <2> QED
    BY <1>4, <2>2, TypeFromParts DEF StartMerge
<1>5. ASSUME NEW p \in Caller, ResolveBranches(p) PROVE TypeOK'
  <2>1. p \in Merger /\ call[p] \in Merging
    BY <1>5, CallKinds DEF ResolveBranches
  <2>2. call[p].src \in Source /\ call[p].src \in Branch /\ call[p].tgt \in Branch
    BY <2>1, PullRequestParameters DEF Merging
  <2> DEFINE s == ref[call[p].src]
             t == ref[call[p].tgt]
  <2>3. s \in Tip /\ t \in Tip
    BY <2>2 DEF TypeOK
  <2>4. ASSUME call[p].src \in listBranches PROVE Joined(p, t, s) \in Tip
    <3>1. s.tip \in Commit
      BY <2>2, <2>4 DEF TypeOK, listBranches, TipAt
    <3> QED
      BY <2>3, <3>1, JoinedTip
  <2>5. \A x \in Tip : CallType(p, [call[p] EXCEPT !.pc = "write", !.new = x])
    BY <2>1, NextMerging DEF CallType
  <2>6. \/ Return(p)
        \/ Become(p, [call[p] EXCEPT !.pc = "write", !.new = s])
        \/ call[p].src \in listBranches
           /\ Become(p, [call[p] EXCEPT !.pc = "write", !.new = Joined(p, t, s)])
    BY <1>5 DEF ResolveBranches
  <2>7. DOMAIN call' = Caller /\ \A q \in Caller : CallType(q, call'[q])
    BY <2>3, <2>4, <2>5, <2>6, Answers, OneCall DEF Become
  <2> QED
    BY <1>5, <2>7, TypeFromParts DEF ResolveBranches
<1>6. ASSUME NEW p \in Caller, WriteTarget(p) PROVE TypeOK'
  <2>1. p \in Merger /\ call[p] \in Merging
    BY <1>6, CallKinds DEF WriteTarget
  <2>2. /\ call[p].tgt \in Branch /\ call[p].tgt \notin Source /\ call[p].new \in Tip
        /\ CallType(p, [call[p] EXCEPT !.pc = "mark"])
    BY <2>1, NextMerging, PullRequestParameters DEF Merging, CallType
  <2>3. DOMAIN call' = Caller /\ \A q \in Caller : CallType(q, call'[q])
    BY <1>6, <2>2, Answers, OneCall DEF WriteTarget, Become
  <2>4. UNCHANGED ref \/ /\ ref' \in [Branch -> Tip]
                         /\ \A a \in Source : ref'[a] \in {NoRef} \cup {TipAt(c) : c \in Commit}
    BY <1>6, <2>2, OneRef DEF WriteTarget
  <2> QED
    BY <1>6, <2>3, <2>4, TypeFromParts DEF WriteTarget
<1>7. ASSUME NEW p \in Caller, MarkMerged(p) PROVE TypeOK'
  <2>1. DOMAIN call' = Caller /\ \A q \in Caller : CallType(q, call'[q])
    BY <1>7, Answers DEF MarkMerged
  <2>2. CASE UNCHANGED pr
    BY <1>7, <2>1, <2>2, TypeFromParts DEF MarkMerged
  <2>3. CASE pr' # pr
    <3>1. call[p].id \in Request /\ IsRow(pr[call[p].id])
      BY <1>7, <2>3, RowKinds DEF MarkMerged, Rows
    <3>2. call[p] \in Merging
      BY <1>7, CallKinds DEF MarkMerged
    <3>3. RowType([pr[call[p].id] EXCEPT !.state = "merged", !.sha = call[p].new.tip])
      <4>1. call[p].new.tip \in AnyCommit \cup {NoCommit}
        BY <3>2 DEF Merging, Tip, NoRef
      <4> QED
        BY <3>1, <4>1, Landed DEF RowType
    <3>4. DOMAIN pr' = Request /\ \A q \in Request : RowType(pr'[q])
      BY <1>7, <2>3, <3>1, <3>3, OneRow DEF MarkMerged, Update
    <3> QED
      BY <1>7, <2>1, <3>4, TypeFromParts DEF MarkMerged
  <2> QED
    BY <2>2, <2>3
<1>8. ASSUME NEW p \in Caller, Reply(p) \/ Crash(p) PROVE TypeOK'
  BY <1>8, Answers, TypeFromParts DEF Reply, Crash
<1>9. ASSUME NEW r \in Request, closePullRequest(r) \/ reopenPullRequest(r) PROVE TypeOK'
  <2>1. PICK st \in State : pr[r].state \in State /\ Update(r, [pr[r] EXCEPT !.state = st])
    BY <1>9 DEF closePullRequest, reopenPullRequest, setPullRequestState, pullRequestStateChange, State
  <2>2. RowType([pr[r] EXCEPT !.state = st])
    BY <2>1, RowKinds, NewState DEF Rows, RowType
  <2>3. DOMAIN pr' = Request /\ \A q \in Request : RowType(pr'[q])
    BY <2>1, <2>2, OneRow DEF Update
  <2> QED
    BY <1>9, <2>3, TypeFromParts DEF closePullRequest, reopenPullRequest
<1>10. ASSUME NEW r \in Request, NEW st \in State, GeneratedUpdate(r, st) PROVE TypeOK'
  <2>1. RowType([pr[r] EXCEPT !.state = st])
    BY <1>10, RowKinds, NewState DEF GeneratedUpdate, RowType
  <2>2. DOMAIN pr' = Request /\ \A q \in Request : RowType(pr'[q])
    BY <1>10, <2>1, OneRow DEF GeneratedUpdate, Update
  <2> QED
    BY <1>10, <2>2, TypeFromParts DEF GeneratedUpdate
<1>11. ASSUME NEW r \in Request, GeneratedDelete(r) PROVE TypeOK'
  <2>1. DOMAIN pr' = Request /\ \A q \in Request : RowType(pr'[q])
    BY <1>11, OneRow DEF GeneratedDelete, Update, RowType
  <2> QED
    BY <1>11, <2>1, TypeFromParts DEF GeneratedDelete
<1>12. ASSUME NEW n, NEW s \in Source, NEW t \in Target, NEW st \in {"open", "draft"},
              GeneratedCreate(n, s, t, st)
       PROVE  TypeOK'
  BY <1>12, Inserts, TypeFromParts DEF GeneratedCreate, State
<1>13. ASSUME NEW b \in Branch, NEW k,
              \/ deleteRef(k, b) \/ \E c \in PushTo[b] : createRef(k, b, c) \/ Push(b, c)
       PROVE  TypeOK'
  <2>1. PushTo[b] \subseteq Commit
    BY PullRequestParameters
  <2>2. /\ ref' \in [Branch -> Tip]
        /\ \A a \in Source : ref'[a] \in {NoRef} \cup {TipAt(c) : c \in Commit}
    BY <1>13, <2>1, Tips, OneRef DEF deleteRef, deleteBranch, createRef, createBranch, Push
  <2> QED
    BY <1>13, <2>2, TypeFromParts DEF deleteRef, createRef, Push
<1>14. CASE UNCHANGED vars
  BY <1>14, TypeFromParts DEF vars
<1> QED
  BY <1>1, <1>2, <1>3, <1>4, <1>5, <1>6, <1>7, <1>8, <1>9, <1>10, <1>11, <1>12, <1>13, <1>14
     DEF Next, CallStep

\* Rows, branches and calls keep their types, and branches requests come from hold
\* nothing but commits of their authors.
THEOREM TypeCorrect == Spec => []TypeOK
BY TypeInit, TypeStep, PTL DEF Spec

-----------------------------------------------------------------------------
(***************************************************************************)
(* Merges into the default branch.  Nothing keeps two merges apart, so     *)
(* both theorems need one client at a time that merges, and clients that   *)
(* leave the target and merged rows alone.                                 *)
(***************************************************************************)

Serial ==
  /\ \A p, q \in Merger : p = q
  /\ Target = {DefaultBranch} /\ PushTo[DefaultBranch] = {}
  /\ RefKind = {"heads"} /\ ~PatchesMerged

target == ref[DefaultBranch]

\* A tip made by an author reaches what that commit reaches.
Reaches(t) == t.tip \in t.hist /\ (t.tip \in Commit => t.hist = Reach[t.tip])

MergeInv ==
  /\ target # NoRef => Reaches(target)
  /\ \A r \in Rows : pr[r].state = "merged" => pr[r].sha \in target.hist
  /\ \A p \in Caller :
       /\ call[p].pc = "write" => Reaches(call[p].new) /\ target.hist \subseteq call[p].new.hist
       /\ call[p].pc = "mark" => call[p].new.tip \in target.hist

LEMMA MergeInit == Serial /\ Init => MergeInv
BY PullRequestParameters DEF Serial, Init, MergeInv, target, Reaches, TipAt, NoRef, Rows, NoRow, State, Idle

\* The commit a merge moves the target to has the target in its history.
LEMMA MergesExtendTheTarget ==
  ASSUME Serial, TypeOK, MergeInv, NEW p \in Caller, ResolveBranches(p), call'[p].pc = "write"
  PROVE  /\ Reaches(call'[p].new) /\ target.hist \subseteq call'[p].new.hist
<1> DEFINE s == ref[call[p].src]
           t == ref[call[p].tgt]
<1>1. p \in Merger /\ call[p] \in Merging
  BY CallKinds DEF ResolveBranches
<1>2. call[p].src \in Source /\ call[p].tgt = DefaultBranch
  BY <1>1 DEF Merging, Serial
<1>3. /\ {call[p].src, call[p].tgt} \subseteq listBranches
      /\ \/ isDescendent(s, t) /\ Become(p, [call[p] EXCEPT !.pc = "write", !.new = s])
         \/ Become(p, [call[p] EXCEPT !.pc = "write", !.new = Joined(p, t, s)])
  BY DEF ResolveBranches, Return, Become, TypeOK, Idle
<1>4. PICK c \in Commit : s = TipAt(c)
  BY <1>2, <1>3 DEF TypeOK, listBranches
<1>5. t = target /\ Reaches(t) /\ s \in Tip /\ t \in Tip
  BY <1>2, <1>3, PullRequestParameters DEF target, MergeInv, listBranches, TypeOK
<1>6. s.tip = c /\ s.hist = Reach[c] /\ Reach[c] \subseteq Commit /\ Reaches(s)
  BY <1>4, PullRequestParameters DEF TipAt, Reaches
<1>7. CASE isDescendent(s, t) /\ Become(p, [call[p] EXCEPT !.pc = "write", !.new = s])
  <2>1. t.hist \subseteq s.hist
    BY <1>5, <1>6, <1>7, PullRequestParameters DEF isDescendent, Reaches
  <2>2. call'[p] = [call[p] EXCEPT !.pc = "write", !.new = s]
    BY <1>7 DEF Become, TypeOK
  <2> HIDE DEF s, t
  <2>3. call'[p].new = s
    BY <1>1, <2>2 DEF Merging
  <2> QED
    BY <1>5, <1>6, <2>1, <2>3
<1>8. CASE Become(p, [call[p] EXCEPT !.pc = "write", !.new = Joined(p, t, s)])
  <2>1. Joined(p, t, s) \in Tip
    BY <1>5, <1>6, JoinedTip
  <2> DEFINE joined == Joined(p, t, s)
  <2>2. call'[p] = [call[p] EXCEPT !.pc = "write", !.new = joined]
    BY <1>8 DEF Become, TypeOK
  <2> HIDE DEF joined, s, t
  <2>3. call'[p].new = joined
    BY <1>1, <2>2 DEF Merging
  <2>4. MergeCommit(p, s.tip) \notin Commit
    BY <1>6, PullRequestParameters DEF MergeCommit
  <2> QED
    BY <1>5, <2>3, <2>4 DEF Joined, Reaches, joined
<1> QED
  BY <1>3, <1>7, <1>8

\* The target moves only by a merge that is written, to what that merge resolved.
LEMMA TargetMoves ==
  ASSUME Serial, TypeOK, MergeInv, [Next]_vars
  PROVE  /\ target.hist \subseteq target'.hist
         /\ \/ UNCHANGED target
            \/ \E p \in Merger : /\ call[p] \in Merging /\ WriteTarget(p) /\ target' = call[p].new
                                 /\ Become(p, [call[p] EXCEPT !.pc = "mark"])
<1>1. ASSUME NEW p \in Caller, WriteTarget(p), target' # target
      PROVE  /\ call[p] \in Merging /\ target' = call[p].new /\ p \in Merger
             /\ target.hist \subseteq target'.hist
             /\ Become(p, [call[p] EXCEPT !.pc = "mark"])
  <2>1. call[p] \in Merging /\ p \in Merger /\ call[p].pc = "write"
    BY <1>1, CallKinds DEF WriteTarget
  <2>2. call[p].tgt = DefaultBranch
    BY <2>1 DEF Merging, Serial
  <2>3. target' = call[p].new /\ Become(p, [call[p] EXCEPT !.pc = "mark"])
    BY <1>1, <2>2, PullRequestParameters DEF WriteTarget, target, TypeOK
  <2> QED
    BY <2>1, <2>3 DEF MergeInv
<1>2. ASSUME NEW b \in Branch, NEW k \in RefKind,
             deleteRef(k, b) \/ (\E c \in PushTo[b] : createRef(k, b, c)) 
      PROVE  target' = target
  BY <1>2, PullRequestParameters
     DEF Serial, deleteRef, deleteBranch, createRef, createBranch, target, TypeOK
<1>3. ASSUME NEW b \in Branch, NEW c \in PushTo[b], Push(b, c)
      PROVE  target' = target
  BY <1>3, PullRequestParameters DEF Serial, Push, target, TypeOK
<1>4. \/ UNCHANGED ref \/ \E p \in Caller : WriteTarget(p)
      \/ \E b \in Branch, k \in RefKind : deleteRef(k, b) \/ \E c \in PushTo[b] : createRef(k, b, c)
      \/ \E b \in Branch : \E c \in PushTo[b] : Push(b, c)
  BY DEF Next, CallStep, StartOpen, ReadMaxNumber, InsertRequest, StartMerge, ResolveBranches,
         MarkMerged, Reply, Crash, closePullRequest, reopenPullRequest, GeneratedCreate,
         GeneratedUpdate, GeneratedDelete, vars
<1> QED
  BY <1>1, <1>2, <1>3, <1>4 DEF target

\* What a step makes of one call: only the merger's reach "write" and "mark".
LEMMA CallsMove ==
  ASSUME TypeOK, [Next]_vars, NEW p \in Caller, call'[p].pc \in {"write", "mark"}
  PROVE  \/ call'[p] = call[p]
         \/ ResolveBranches(p) /\ call'[p].pc = "write"
         \/ WriteTarget(p) /\ call'[p].pc = "mark"
<1>1. ASSUME NEW q \in Caller,
             \/ \E s \in Source, t \in Target : StartOpen(q, s, t)
             \/ ReadMaxNumber(q) \/ InsertRequest(q)
             \/ \E r \in Request : StartMerge(q, r)
             \/ MarkMerged(q) \/ Reply(q) \/ Crash(q)
      PROVE  call'[p] = call[p]
  <2>1. ASSUME NEW x, x.pc \notin {"write", "mark"}, Become(q, x)
        PROVE  call'[p] = call[p]
    BY <2>1 DEF Become, TypeOK
  <2>2. CASE Return(q) \/ GiveUp(q)
    BY <2>1, <2>2 DEF Return, GiveUp, Idle
  <2>3. ASSUME NEW s, NEW t, StartOpen(q, s, t) PROVE call'[p] = call[p]
    BY <2>1, <2>2, <2>3 DEF StartOpen
  <2>4. ASSUME NEW r, StartMerge(q, r) PROVE call'[p] = call[p]
    BY <2>1, <2>2, <2>4 DEF StartMerge
  <2>5. ASSUME IsOpening(call[q]), NEW n, NEW a
        PROVE  /\ [call[q] EXCEPT !.pc = "insert", !.number = n].pc \notin {"write", "mark"}
               /\ [call[q] EXCEPT !.pc = "number", !.attempt = a].pc \notin {"write", "mark"}
    BY <2>5, NextOpening DEF IsOpening
  <2>6. CASE ReadMaxNumber(q)
    <3>1. IsOpening(call[q])
      BY <2>6, CallKinds DEF ReadMaxNumber
    <3> QED
      BY <2>1, <2>5, <2>6, <3>1 DEF ReadMaxNumber
  <2>7. CASE InsertRequest(q)
    <3>1. IsOpening(call[q])
      BY <2>7, CallKinds DEF InsertRequest
    <3>2. \/ Return(q) \/ GiveUp(q)
          \/ Become(q, [call[q] EXCEPT !.pc = "number", !.attempt = call[q].attempt + 1])
      BY <2>7 DEF InsertRequest
    <3> QED
      BY <2>1, <2>2, <2>5, <3>1, <3>2
  <2>8. CASE MarkMerged(q) \/ Reply(q) \/ Crash(q)
    BY <2>2, <2>8 DEF MarkMerged, Reply, Crash
  <2> QED
    BY <1>1, <2>3, <2>4, <2>6, <2>7, <2>8
<1>2. ASSUME NEW q \in Caller, q # p, ResolveBranches(q) \/ WriteTarget(q)
      PROVE  call'[p] = call[p]
  BY <1>2 DEF ResolveBranches, WriteTarget, Return, Become, TypeOK
<1>3. ASSUME ResolveBranches(p) PROVE call'[p].pc = "write"
  <2>1. p \in Merger /\ call[p] \in Merging
    BY <1>3, CallKinds DEF ResolveBranches
  <2>2. ~Return(p)
    BY DEF Return, Become, TypeOK, Idle
  <2>3. PICK x : call'[p] = [call[p] EXCEPT !.pc = "write", !.new = x]
    BY <1>3, <2>2 DEF ResolveBranches, Become, TypeOK
  <2>4. [call[p] EXCEPT !.pc = "write", !.new = x].pc = "write"
    BY <2>1 DEF Merging
  <2> QED
    BY <2>3, <2>4
<1>4. ASSUME WriteTarget(p) PROVE call'[p].pc = "mark"
  <2>1. p \in Merger /\ call[p] \in Merging
    BY <1>4, CallKinds DEF WriteTarget
  <2>2. ~Return(p)
    BY DEF Return, Become, TypeOK, Idle
  <2>3. call'[p] = [call[p] EXCEPT !.pc = "mark"]
    BY <1>4, <2>2 DEF WriteTarget, Become, TypeOK
  <2>4. [call[p] EXCEPT !.pc = "mark"].pc = "mark"
    BY <2>1 DEF Merging
  <2> QED
    BY <2>3, <2>4
<1>5. CASE UNCHANGED call
  BY <1>5
<1> QED
  BY <1>1, <1>2, <1>3, <1>4, <1>5
     DEF Next, CallStep, vars, closePullRequest, reopenPullRequest, GeneratedUpdate, GeneratedDelete,
         GeneratedCreate, createRef, deleteRef, Push

LEMMA MergeCalls ==
  ASSUME Serial, TypeOK, MergeInv, [Next]_vars, NEW p \in Caller
  PROVE  /\ call'[p].pc = "write" => Reaches(call'[p].new) /\ target'.hist \subseteq call'[p].new.hist
         /\ call'[p].pc = "mark" => call'[p].new.tip \in target'.hist
<1>1. CASE WriteTarget(p) /\ call'[p].pc = "mark"
  <2>1. p \in Merger /\ call[p] \in Merging /\ call[p].pc = "write"
    BY <1>1, CallKinds DEF WriteTarget
  <2>2. call[p].tgt = DefaultBranch /\ call[p].new.tip \in call[p].new.hist
    BY <2>1 DEF Merging, Serial, MergeInv, Reaches
  <2>3. /\ ref' = [ref EXCEPT ![call[p].tgt] = call[p].new]
        /\ call'[p] = [call[p] EXCEPT !.pc = "mark"]
    BY <1>1 DEF WriteTarget, Return, Become, TypeOK, Idle
  <2>4. target' = call[p].new
    BY <2>2, <2>3, PullRequestParameters DEF target, TypeOK
  <2>5. [call[p] EXCEPT !.pc = "mark"].new = call[p].new
    BY <2>1 DEF Merging
  <2> QED
    BY <1>1, <2>2, <2>3, <2>4, <2>5
<1>2. CASE ResolveBranches(p) /\ call'[p].pc = "write"
  <2>1. target' = target
    BY <1>2 DEF ResolveBranches, target
  <2> QED
    BY <1>2, <2>1, MergesExtendTheTarget
<1>3. CASE call'[p] = call[p]
  <2>1. CASE UNCHANGED target
    BY <1>3, <2>1 DEF MergeInv
  <2>2. ASSUME NEW q \in Merger, call[q] \in Merging, WriteTarget(q),
               Become(q, [call[q] EXCEPT !.pc = "mark"]), call[p].pc \in {"write", "mark"}
        PROVE  FALSE
    <3>1. p \in Merger
      BY <2>2, CallKinds
    <3>2. p = q
      BY <3>1 DEF Serial
    <3>3. call[p].pc = "write" /\ call'[p] = [call[p] EXCEPT !.pc = "mark"]
      BY <2>2, <3>2 DEF WriteTarget, Become, TypeOK
    <3>4. [call[p] EXCEPT !.pc = "mark"].pc = "mark"
      BY <2>2, <3>2 DEF Merging
    <3> QED
      BY <1>3, <3>3, <3>4
  <2> QED
    BY <1>3, <2>1, <2>2, TargetMoves
<1> QED
  BY <1>1, <1>2, <1>3, CallsMove

Unmerged == {"open", "draft", "closed"}

\* What a step makes of row r: the row is made, moved between the unmerged states,
\* recorded merged at the end of a merge, or removed.
RowMove(r, x) ==
  \/ pr[r] = NoRow /\ IsRow(x) /\ x.state \in Unmerged /\ x.sha = NoCommit
  \/ IsRow(pr[r]) /\ x = Deleted
  \/ IsRow(pr[r]) /\ IsRow(x) /\ {pr[r].state, x.state} \subseteq Unmerged /\ x.sha = pr[r].sha
  \/ /\ IsRow(pr[r]) /\ IsRow(x) /\ x.state = "merged"
     /\ \E p \in Caller : call[p].pc = "mark" /\ x.sha = call[p].new.tip

LEMMA RowsMove ==
  ASSUME Serial, TypeOK, [Next]_vars
  PROVE  \/ UNCHANGED pr
         \/ UNCHANGED ref /\ \E r \in Request : \E x : pr' = [pr EXCEPT ![r] = x] /\ RowMove(r, x)
<1> DEFINE Moved == UNCHANGED ref /\ \E r \in Request : \E x : pr' = [pr EXCEPT ![r] = x] /\ RowMove(r, x)
<1>1. ASSUME NEW r \in Request, NEW x, Update(r, x), RowMove(r, x), UNCHANGED ref PROVE Moved
  BY <1>1 DEF Update
<1>2. ASSUME HasRoom, NEW n, NEW s \in Source, NEW t \in Target, NEW st \in {"open", "draft"},
             Update(NewId, Row(n, s, t, st)), UNCHANGED ref
      PROVE  Moved
  <2>1. /\ NewId \in Request /\ pr[NewId] = NoRow /\ IsRow(Row(n, s, t, st))
    BY <1>2, NewIdIsFree DEF Row, IsRow, State
  <2>2. RowMove(NewId, Row(n, s, t, st))
    BY <2>1 DEF RowMove, Row, Unmerged
  <2> QED
    BY <1>1, <1>2, <2>1, <2>2
<1>3. ASSUME NEW r \in Request, NEW st \in Unmerged, pr[r].state \in Unmerged,
             Update(r, [pr[r] EXCEPT !.state = st]), UNCHANGED ref
      PROVE  Moved
  <2>1. IsRow(pr[r])
    BY <1>3, RowKinds DEF Rows, Unmerged, State
  <2> DEFINE x == [pr[r] EXCEPT !.state = st]
  <2>2. st \in State
    BY DEF Unmerged, State
  <2>3. IsRow(x) /\ x.state = st /\ x.sha = pr[r].sha
    BY <2>1, <2>2, NewState
  <2> HIDE DEF x
  <2>4. RowMove(r, x)
    BY <1>3, <2>1, <2>3 DEF RowMove
  <2> QED
    BY <1>1, <1>3, <2>4 DEF x
<1>4. ASSUME NEW p \in Caller, InsertRequest(p), pr' # pr PROVE Moved
  <2>1. IsOpening(call[p])
    BY <1>4, CallKinds DEF InsertRequest
  <2> QED
    BY <1>2, <1>4, <2>1 DEF InsertRequest, IsOpening
<1>5. ASSUME NEW p \in Caller, MarkMerged(p), pr' # pr PROVE Moved
  <2> DEFINE r == call[p].id
             x == [pr[r] EXCEPT !.state = "merged", !.sha = call[p].new.tip]
  <2>1. r \in Request /\ IsRow(pr[r]) /\ Update(r, x) /\ call[p].pc = "mark" /\ UNCHANGED ref
    BY <1>5, RowKinds DEF MarkMerged, Rows
  <2>2. call[p].new.tip \in AnyCommit \cup {NoCommit}
    BY <2>1, CallKinds DEF Merging, Tip, NoRef
  <2>3. IsRow(x) /\ x.state = "merged" /\ x.sha = call[p].new.tip
    BY <2>1, <2>2, Landed
  <2> HIDE DEF r, x
  <2>4. RowMove(r, x)
    BY <2>1, <2>3 DEF RowMove
  <2> QED
    BY <1>1, <2>1, <2>4
<1>6. ASSUME NEW r \in Request, closePullRequest(r) \/ reopenPullRequest(r) PROVE Moved
  BY <1>3, <1>6 DEF closePullRequest, reopenPullRequest, setPullRequestState, pullRequestStateChange,
                    Unmerged
<1>7. ASSUME NEW r \in Request, NEW st \in State, GeneratedUpdate(r, st) PROVE Moved
  <2>1. pr[r].state \in Unmerged /\ st \in Unmerged
    BY <1>7 DEF GeneratedUpdate, Serial, Rows, State, Unmerged
  <2> QED
    BY <1>3, <1>7, <2>1 DEF GeneratedUpdate
<1>8. ASSUME NEW r \in Request, GeneratedDelete(r) PROVE Moved
  <2>1. RowMove(r, Deleted)
    BY <1>8, RowKinds DEF GeneratedDelete, RowMove
  <2> QED
    BY <1>1, <1>8, <2>1 DEF GeneratedDelete
<1>9. ASSUME NEW n, NEW s \in Source, NEW t \in Target, NEW st \in {"open", "draft"},
             GeneratedCreate(n, s, t, st)
      PROVE  Moved
  BY <1>2, <1>9 DEF GeneratedCreate
<1> HIDE DEF Moved
<1>10. \/ UNCHANGED pr
       \/ \E p \in Caller : InsertRequest(p) \/ MarkMerged(p)
       \/ \E r \in Request : \/ closePullRequest(r) \/ reopenPullRequest(r) \/ GeneratedDelete(r)
                             \/ \E st \in State : GeneratedUpdate(r, st)
       \/ \E n \in 1..MaxNumber, s \in Source, t \in Target, st \in {"open", "draft"} :
            GeneratedCreate(n, s, t, st)
  BY DEF Next, CallStep, StartOpen, ReadMaxNumber, StartMerge, ResolveBranches, WriteTarget, Reply,
         Crash, createRef, deleteRef, Push, vars
<1> QED
  BY <1>4, <1>5, <1>6, <1>7, <1>8, <1>9, <1>10 DEF Moved

LEMMA MergeStep == Serial /\ TypeOK /\ MergeInv /\ [Next]_vars => MergeInv'
<1> SUFFICES ASSUME Serial, TypeOK, MergeInv, [Next]_vars PROVE MergeInv'
    OBVIOUS
<1>1. target' # NoRef => Reaches(target')
  <2>1. CASE UNCHANGED target
    BY <2>1 DEF MergeInv
  <2>2. ASSUME NEW p \in Merger, WriteTarget(p), target' = call[p].new PROVE Reaches(target')
    BY <2>2, PullRequestParameters DEF WriteTarget, MergeInv
  <2> QED
    BY <2>1, <2>2, TargetMoves
<1>2. ASSUME NEW q \in Rows', pr'[q].state = "merged" PROVE pr'[q].sha \in target'.hist
  <2>0. TypeOK' /\ q \in Request
    BY TypeStep DEF Rows
  <2>1. CASE pr'[q] = pr[q]
    BY <1>2, <2>0, <2>1, TargetMoves DEF MergeInv, Rows
  <2>2. ASSUME NEW x, pr' = [pr EXCEPT ![q] = x], RowMove(q, x)
        PROVE  pr'[q].sha \in target'.hist
    <3>1. pr'[q] = x
      BY <2>0, <2>2 DEF TypeOK
    <3>2. PICK p \in Caller : call[p].pc = "mark" /\ x.sha = call[p].new.tip
      BY <1>2, <2>2, <3>1 DEF RowMove, Unmerged, Deleted
    <3> QED
      BY <3>1, <3>2, TargetMoves DEF MergeInv
  <2>3. \/ pr'[q] = pr[q]
        \/ \E x : pr' = [pr EXCEPT ![q] = x] /\ RowMove(q, x)
    BY <2>0, RowsMove DEF TypeOK
  <2> QED
    BY <2>1, <2>2, <2>3
<1> QED
  BY <1>1, <1>2, MergeCalls DEF MergeInv

\* A merged request names a commit of its target branch, and keeps naming one
\* (PullRequest!MergedIsOnTarget), while one client at a time merges.
THEOREM MergedStaysOnTarget ==
  ASSUME Serial
  PROVE  Spec => []MergedIsOnTarget
<1>1. Init => MergeInv
  BY MergeInit
<1>2. TypeOK /\ MergeInv /\ [Next]_vars => MergeInv'
  BY MergeStep
<1>3. TypeOK /\ MergeInv => MergedIsOnTarget
  BY RowKinds DEF MergeInv, MergedIsOnTarget, IsRow, Serial, target, Rows
<1> QED
  BY <1>1, <1>2, <1>3, TypeCorrect, PTL DEF Spec

LEMMA ContractStep ==
  ASSUME Serial, TypeOK, MergeInv, [Next]_vars
  PROVE  [Contract!Next]_Contract!vars
<1> DEFINE state == [r \in Request |-> pr[r].state]
           sha   == [r \in Request |-> IF r \in Rows THEN pr[r].sha ELSE NoCommit]
<1>1. CASE UNCHANGED pr
  <2>1. UNCHANGED <<state, sha>>
    BY <1>1 DEF Rows
  <2> QED
    BY <2>1, TargetMoves DEF Contract!Next, Contract!Advance, target
<1>2. ASSUME UNCHANGED ref, NEW r \in Request, NEW x, pr' = [pr EXCEPT ![r] = x], RowMove(r, x)
      PROVE  Contract!Next
  <2>1. /\ DOMAIN pr = Request /\ pr'[r] = x
        /\ \A q \in Request \ {r} : pr'[q] = pr[q]
    BY <1>2 DEF TypeOK
  <2>2. state' = [state EXCEPT ![r] = x.state]
    BY <2>1
  <2>3. ASSUME NEW c, c = IF x.state \in State THEN x.sha ELSE NoCommit
        PROVE  sha' = [sha EXCEPT ![r] = c]
    BY <2>1, <2>3 DEF Rows
  <2>4. ref'[DefaultBranch] = ref[DefaultBranch]
    BY <1>2
  <2>5. CASE pr[r] = NoRow /\ IsRow(x) /\ x.state \in Unmerged /\ x.sha = NoCommit
    <3>1. sha' = sha
      <4>1. sha[r] = NoCommit
        BY <2>5 DEF Rows, NoRow, State
      <4>2. sha' = [sha EXCEPT ![r] = sha[r]]
        BY <2>3, <2>5, <4>1
      <4> QED
        BY <4>2
    <3>2. state[r] = "absent"
      BY <2>5 DEF NoRow
    <3>3. Contract!Open(r)
      BY <2>2, <2>4, <2>5, <3>1, <3>2 DEF Contract!Open, Contract!Unmerged, Unmerged
    <3> QED
      BY <3>3 DEF Contract!Next
  <2>6. CASE IsRow(pr[r]) /\ x = Deleted
    <3>1. sha' = [sha EXCEPT ![r] = NoCommit] /\ x.state = "deleted"
      BY <2>3, <2>6 DEF Deleted, State
    <3>2. state[r] \in Unmerged \cup {"merged"}
      BY <2>6 DEF IsRow, State, Unmerged
    <3>3. Contract!Remove(r)
      BY <2>2, <2>4, <3>1, <3>2 DEF Contract!Remove, Contract!Unmerged, Unmerged
    <3> QED
      BY <3>3 DEF Contract!Next
  <2>7. CASE IsRow(pr[r]) /\ IsRow(x) /\ {pr[r].state, x.state} \subseteq Unmerged /\ x.sha = pr[r].sha
    <3>1. sha' = sha
      <4>1. sha[r] = pr[r].sha /\ x.state \in State
        BY <2>7, RowKinds DEF IsRow
      <4>2. sha' = [sha EXCEPT ![r] = sha[r]]
        BY <2>3, <2>7, <4>1
      <4> QED
        BY <4>2
    <3>2. Contract!Move(r)
      BY <2>2, <2>4, <2>7, <3>1 DEF Contract!Move, Contract!Unmerged, Unmerged
    <3> QED
      BY <3>2 DEF Contract!Next
  <2>8. ASSUME IsRow(pr[r]), IsRow(x), x.state = "merged",
               NEW p \in Caller, call[p].pc = "mark", x.sha = call[p].new.tip
        PROVE  Contract!Next
    <3>1. sha' = [sha EXCEPT ![r] = x.sha]
      BY <2>3, <2>8 DEF IsRow
    <3>2. state[r] \in Unmerged \cup {"merged"}
      BY <2>8 DEF IsRow, State, Unmerged
    <3>3. x.sha \in ref[DefaultBranch].hist
      BY <2>8 DEF MergeInv, target
    <3>4. Contract!Merge(r)
      BY <2>2, <2>4, <2>8, <3>1, <3>2, <3>3 DEF Contract!Merge, Contract!Unmerged, Unmerged
    <3> QED
      BY <3>4 DEF Contract!Next
  <2> QED
    BY <1>2, <2>5, <2>6, <2>7, <2>8 DEF RowMove
<1> QED
  BY <1>1, <1>2, RowsMove

\* Pull requests into the default branch implement their contract
\* (PullRequest!ImplementsContract): merged is terminal, names a commit of the target,
\* and the target only grows, whatever opens, closes, deaths and deletions overlap.
THEOREM PullRequestsImplementContract ==
  ASSUME Serial
  PROVE  Spec => ImplementsContract
<1>1. Init => Contract!Init
  BY DEF Init, Contract!Init, Contract!Unmerged, Rows, NoRow, State
<1>2. Init => MergeInv
  BY MergeInit
<1>3. TypeOK /\ MergeInv /\ [Next]_vars => MergeInv'
  BY MergeStep
<1>4. TypeOK /\ MergeInv /\ [Next]_vars => [Contract!Next]_Contract!vars
  BY ContractStep
<1> QED
  BY <1>1, <1>2, <1>3, <1>4, TypeCorrect, PTL DEF Spec, ImplementsContract, Contract!Spec

-----------------------------------------------------------------------------
(***************************************************************************)
(* Opens that give up.  A number read is above every number there is, so   *)
(* it is taken at the insert only if a row was added since: every attempt  *)
(* that fails is paid for by a row, and rows are never forgotten.          *)
(***************************************************************************)

Added == {r \in Request : pr[r] # NoRow}

LEMMA LeastNumber ==
  ASSUME NEW S \in SUBSET Nat, S # {}
  PROVE  \E m \in S : \A n \in S : m <= n
<1>1. IsWellFoundedOn({p \in Nat \X Nat : p[1] < p[2]}, Nat)
  BY NatLessThanWellFounded DEF OpToRel
<1>2. PICK m \in S : \A n \in S : ~(<<n, m>> \in {p \in Nat \X Nat : p[1] < p[2]})
  BY <1>1, WFMin
<1>3. ASSUME NEW n \in S PROVE m <= n
  <2>1. n \in Nat /\ m \in Nat OBVIOUS
  <2>2. ~(n < m) BY <1>2, <2>1
  <2> QED BY <2>1, <2>2
<1> QED BY <1>3

\* A set of numbers with a bound has a largest: its least bound
LEMMA MaxOfBounded ==
  ASSUME NEW S \in SUBSET Nat, 0 \in S, NEW b \in Nat, \A n \in S : n <= b
  PROVE  Max(S) \in Nat /\ \A n \in S : n <= Max(S)
<1> DEFINE bounds == {m \in Nat : \A n \in S : n <= m}
<1>1. PICK m \in bounds : \A k \in bounds : m <= k
  BY LeastNumber
<1>2. m \in S
  <2> SUFFICES ASSUME m \notin S PROVE FALSE OBVIOUS
  <2>1. m \in Nat /\ \A n \in S : n \in Nat /\ n <= m /\ n # m BY <1>1
  <2>2. m - 1 \in Nat /\ \A n \in S : n <= m - 1 BY <2>1
  <2> QED BY <1>1, <2>1, <2>2
<1>3. \A n \in S : m >= n BY <1>1
<1>4. Max(S) \in S /\ \A n \in S : Max(S) >= n BY <1>2, <1>3 DEF Max
<1> QED BY <1>4

\* What a call that opens has paid for, with the numbers taken and the rows added
PaidFor(x, numbers, n) ==
  /\ x.pc = "gave-up" => n >= Attempts
  /\ x.pc \in {"number", "insert"} => x.attempt \in Nat /\ n + 1 >= x.attempt
  /\ x.pc = "insert" => x.number \in Nat /\ (x.number \in numbers => n >= x.attempt)

CrowdInv ==
  /\ \A r \in Rows : pr[r].number \in Nat
  /\ \E b \in Nat : \A n \in Numbers : n <= b
  /\ \A p \in Caller : PaidFor(call[p], Numbers, Cardinality(Added))

\* What a step does to the rows
NumbersMove ==
  /\ Added \subseteq Added'
  /\ \A r \in Rows' : pr'[r].number \in Nat
  /\ \/ Numbers' \subseteq Numbers
     \/ \E n \in Nat : Numbers' \subseteq Numbers \cup {n} /\ Added' # Added

\* A row that keeps its number, or that goes away
LEMMA RowKeepsNumber ==
  ASSUME TypeOK, CrowdInv, NEW r \in Request, NEW x, pr' = [pr EXCEPT ![r] = x], pr[r] # NoRow,
         x # NoRow, x.state \in State => r \in Rows /\ x.number = pr[r].number
  PROVE  NumbersMove
<1>1. \A q \in Request : pr'[q] = IF q = r THEN x ELSE pr[q] BY DEF TypeOK
<1>2. Added \subseteq Added' BY <1>1 DEF Added
<1>3. \A q \in Rows' : q \in Rows /\ pr'[q].number = pr[q].number BY <1>1 DEF Rows
<1>4. Numbers' \subseteq Numbers BY <1>3 DEF Numbers
<1> QED BY <1>2, <1>3, <1>4 DEF NumbersMove, CrowdInv

LEMMA RowAdds ==
  ASSUME TypeOK, CrowdInv, HasRoom, NEW n \in Nat, NEW s \in Source, NEW t \in Target,
         NEW st \in State, Update(NewId, Row(n, s, t, st))
  PROVE  NumbersMove
<1> DEFINE x == Row(n, s, t, st)
<1>1. NewId \in Request /\ pr[NewId] = NoRow BY NewIdIsFree
<1>2. \A q \in Request : pr'[q] = IF q = NewId THEN x ELSE pr[q] BY <1>1 DEF Update, TypeOK
<1>3. x.number = n /\ x # NoRow BY DEF Row, NoRow
<1> HIDE DEF x
<1>4. Added \subseteq Added' /\ NewId \in Added' /\ NewId \notin Added
  BY <1>1, <1>2, <1>3 DEF Added
<1>5. \A q \in Rows' : IF q = NewId THEN pr'[q].number = n
                                    ELSE q \in Rows /\ pr'[q].number = pr[q].number
  BY <1>2, <1>3 DEF Rows
<1>6. Numbers' \subseteq Numbers \cup {n} BY <1>5 DEF Numbers
<1> QED BY <1>4, <1>5, <1>6 DEF NumbersMove, CrowdInv

LEMMA RowsStay == ASSUME CrowdInv, UNCHANGED pr PROVE NumbersMove
BY DEF NumbersMove, CrowdInv, Added, Rows, Numbers

\* Rows there are, as NumbersMove says
LEMMA AddedOnlyGrow ==
  ASSUME NumbersMove
  PROVE  /\ Cardinality(Added) \in Nat /\ Cardinality(Added') \in Nat
         /\ Cardinality(Added) <= Cardinality(Added')
         /\ Added' # Added => Cardinality(Added) < Cardinality(Added')
<1>1. IsFiniteSet(Added) /\ IsFiniteSet(Added')
  <2>1. Added \subseteq Request /\ Added' \subseteq Request BY DEF Added
  <2> QED BY <2>1, FS_Subset, PullRequestParameters
<1>2. Added \subseteq Added' BY DEF NumbersMove
<1> HIDE DEF NumbersMove
<1> QED BY <1>1, <1>2, FS_Subset, FS_CardinalityType

\* What was paid for stays paid for, whoever writes rows
LEMMA PaidStaysPaid ==
  ASSUME NumbersMove, NEW x, PaidFor(x, Numbers, Cardinality(Added))
  PROVE  PaidFor(x, Numbers', Cardinality(Added'))
<1> DEFINE n == Cardinality(Added)
           m == Cardinality(Added')
<1>1. n \in Nat /\ m \in Nat /\ n <= m /\ (Added' # Added => n < m) BY AddedOnlyGrow
<1>2. Numbers' \subseteq Numbers \/ Added' # Added BY DEF NumbersMove
<1>3. PaidFor(x, Numbers, n) OBVIOUS
<1> HIDE DEF n, m
<1>4. PaidFor(x, Numbers', m)
  BY <1>1, <1>2, <1>3, PullRequestParameters DEF PaidFor
<1> QED BY <1>4 DEF m

\* A step that writes rows as NumbersMove says, and one call
LEMMA CrowdFromParts ==
  ASSUME CrowdInv, NumbersMove,
         \A p \in Caller : call'[p] = call[p] \/ PaidFor(call'[p], Numbers', Cardinality(Added'))
  PROVE  CrowdInv'
<1>1. \A p \in Caller : PaidFor(call'[p], Numbers', Cardinality(Added'))
  BY PaidStaysPaid DEF CrowdInv
<1>2. \E b \in Nat : \A n \in Numbers' : n <= b
  <2>1. PICK b \in Nat : \A n \in Numbers : n <= b BY DEF CrowdInv
  <2>2. Numbers \subseteq Nat BY DEF CrowdInv, Numbers
  <2>3. CASE Numbers' \subseteq Numbers BY <2>1, <2>3
  <2>4. ASSUME NEW n \in Nat, Numbers' \subseteq Numbers \cup {n}
        PROVE  \E c \in Nat : \A k \in Numbers' : k <= c
    <3>1. b + n \in Nat /\ \A k \in Numbers' : k <= b + n BY <2>1, <2>2, <2>4
    <3> QED BY <3>1
  <2> QED BY <2>3, <2>4 DEF NumbersMove
<1> QED BY <1>1, <1>2 DEF CrowdInv, NumbersMove

\* A call that leaves the opening behind
LEMMA OneCallPays ==
  ASSUME TypeOK, CrowdInv, NumbersMove, NEW p \in Caller, NEW x, Become(p, x),
         PaidFor(x, Numbers', Cardinality(Added'))
  PROVE  CrowdInv'
<1>1. \A q \in Caller : call'[q] = call[q] \/ PaidFor(call'[q], Numbers', Cardinality(Added'))
  BY DEF Become, TypeOK
<1> QED BY <1>1, CrowdFromParts

LEMMA OthersPayNothing ==
  ASSUME NEW x, x.pc \notin {"gave-up", "number", "insert"}, NEW S, NEW n
  PROVE  PaidFor(x, S, n)
BY DEF PaidFor

LEMMA CrowdInit == Init => CrowdInv
<1> SUFFICES ASSUME Init PROVE CrowdInv OBVIOUS
<1>1. Rows = {} BY DEF Init, Rows, NoRow, State
<1>2. Numbers = {} BY <1>1 DEF Numbers
<1>3. \A p \in Caller : call[p].pc = "idle" BY DEF Init, Idle
<1> QED BY <1>1, <1>2, <1>3 DEF CrowdInv, PaidFor


\* A count that is not enough to give up on, once an insert has found the number taken
LEMMA OpeningPays ==
  ASSUME NEW x, IsOpening(x), NEW S, NEW n \in Nat, PaidFor(x, S, n)
  PROVE  /\ \A k \in Nat \ S : PaidFor([x EXCEPT !.pc = "insert", !.number = k], S, n)
         /\ x.pc = "insert" /\ x.number \in S =>
              /\ PaidFor([x EXCEPT !.pc = "number", !.attempt = x.attempt + 1], S, n)
              /\ x.attempt \in Nat /\ n >= x.attempt
<1>1. x.attempt \in Nat /\ n + 1 >= x.attempt /\ x.pc \in {"number", "insert"}
  BY DEF PaidFor, IsOpening
<1>2. x \in OpeningOf(x.number, x.attempt) BY DEF IsOpening, OpeningOf
<1>3. ASSUME NEW k \in Nat \ S PROVE PaidFor([x EXCEPT !.pc = "insert", !.number = k], S, n)
  <2> DEFINE y == [x EXCEPT !.pc = "insert", !.number = k]
  <2>1. y.pc = "insert" /\ y.number = k /\ y.attempt = x.attempt BY <1>2 DEF OpeningOf
  <2> HIDE DEF y
  <2>2. PaidFor(y, S, n) BY <1>1, <2>1 DEF PaidFor
  <2> QED BY <2>2 DEF y
<1>4. ASSUME x.pc = "insert", x.number \in S
      PROVE  /\ PaidFor([x EXCEPT !.pc = "number", !.attempt = x.attempt + 1], S, n)
             /\ x.attempt \in Nat /\ n >= x.attempt
  <2> DEFINE y == [x EXCEPT !.pc = "number", !.attempt = x.attempt + 1]
  <2>1. y.pc = "number" /\ y.attempt = x.attempt + 1 BY <1>2 DEF OpeningOf
  <2>2. n >= x.attempt BY <1>4 DEF PaidFor
  <2> HIDE DEF y
  <2>3. PaidFor(y, S, n) BY <1>1, <2>1, <2>2 DEF PaidFor
  <2> QED BY <1>1, <2>2, <2>3 DEF y
<1> QED BY <1>3, <1>4

LEMMA CrowdStep == TypeOK /\ CrowdInv /\ [Next]_vars => CrowdInv'
<1> SUFFICES ASSUME TypeOK, CrowdInv, [Next]_vars PROVE CrowdInv'
    OBVIOUS
<1>1. ASSUME NEW p \in Caller, NEW s \in Source, NEW t \in Target, StartOpen(p, s, t)
      PROVE  CrowdInv'
  <2>1. NumbersMove BY <1>1, RowsStay DEF StartOpen
  <2> DEFINE x == [pc |-> "number", src |-> s, tgt |-> t, number |-> 0, attempt |-> 1]
             n == Cardinality(Added')
  <2>2. n \in Nat BY <2>1, AddedOnlyGrow
  <2>3. x.pc = "number" /\ x.attempt = 1 OBVIOUS
  <2>4. Become(p, x) \/ Return(p) BY <1>1 DEF StartOpen
  <2> HIDE DEF x
  <2>5. PaidFor(x, Numbers', n) BY <2>2, <2>3 DEF PaidFor
  <2>6. PaidFor(Idle, Numbers', n) BY DEF PaidFor, Idle
  <2> QED BY <2>1, <2>4, <2>5, <2>6, OneCallPays DEF Return
<1>2. ASSUME NEW p \in Caller, ReadMaxNumber(p) PROVE CrowdInv'
  <2>1. NumbersMove /\ Numbers' = Numbers
    BY <1>2, RowsStay DEF ReadMaxNumber, Numbers, Rows
  <2> DEFINE k == Max({0} \cup Numbers) + 1
             n == Cardinality(Added')
  <2>2. k \in Nat /\ k \notin Numbers
    <3> DEFINE S == {0} \cup Numbers
    <3>1. S \in SUBSET Nat /\ 0 \in S BY DEF CrowdInv, Numbers
    <3>2. PICK b \in Nat : \A i \in Numbers : i <= b BY DEF CrowdInv
    <3>3. \A i \in S : i <= b BY <3>2
    <3> HIDE DEF S
    <3>4. Max(S) \in Nat /\ \A i \in S : i <= Max(S) BY <3>1, <3>2, <3>3, MaxOfBounded
    <3>5. Max(S) + 1 \in Nat /\ Max(S) + 1 \notin S BY <3>1, <3>4
    <3> QED BY <3>5 DEF S
  <2>3. IsOpening(call[p]) BY <1>2, CallKinds DEF ReadMaxNumber
  <2>4. n \in Nat /\ PaidFor(call[p], Numbers', n)
    BY <2>1, AddedOnlyGrow, PaidStaysPaid DEF CrowdInv
  <2>5. Become(p, [call[p] EXCEPT !.pc = "insert", !.number = k]) BY <1>2 DEF ReadMaxNumber
  <2> HIDE DEF k
  <2>6. PaidFor([call[p] EXCEPT !.pc = "insert", !.number = k], Numbers', n)
    BY <2>1, <2>2, <2>3, <2>4, OpeningPays
  <2> QED BY <2>1, <2>5, <2>6, OneCallPays
<1>3. ASSUME NEW p \in Caller, InsertRequest(p) PROVE CrowdInv'
  <2> DEFINE n == Cardinality(Added')
             c == call[p]
  <2>1. IsOpening(c) /\ c.pc = "insert" BY <1>3, CallKinds DEF InsertRequest
  <2>2. PaidFor(c, Numbers, Cardinality(Added)) BY DEF CrowdInv
  <2>3. NumbersMove
    <3>1. CASE UNCHANGED pr BY <3>1, RowsStay
    <3>2. CASE HasRoom /\ Update(NewId, Row(c.number, c.src, c.tgt, "open"))
      <4>1. c.number \in Nat /\ c.src \in Source /\ c.tgt \in Target
        BY <2>1, <2>2 DEF PaidFor, IsOpening
      <4> QED BY <3>2, <4>1, RowAdds DEF State
    <3> QED BY <1>3, <3>1, <3>2 DEF InsertRequest
  <2>4. CASE Return(p)
    <3>1. PaidFor(Idle, Numbers', n) BY DEF PaidFor, Idle
    <3> QED BY <2>3, <2>4, <3>1, OneCallPays DEF Return
  <2>5. CASE UNCHANGED pr /\ c.number \in Numbers /\ c.attempt < Attempts
             /\ Become(p, [c EXCEPT !.pc = "number", !.attempt = c.attempt + 1])
    <3>1. Numbers' = Numbers BY <2>5 DEF Numbers, Rows
    <3>2. n \in Nat /\ PaidFor(c, Numbers', n) BY <2>2, <2>3, AddedOnlyGrow, PaidStaysPaid
    <3>3. PaidFor([c EXCEPT !.pc = "number", !.attempt = c.attempt + 1], Numbers', n)
      BY <2>1, <2>5, <3>1, <3>2, OpeningPays
    <3> QED BY <2>3, <2>5, <3>3, OneCallPays
  <2>6. CASE UNCHANGED pr /\ c.number \in Numbers /\ ~(c.attempt < Attempts) /\ GiveUp(p)
    <3>1. Numbers' = Numbers BY <2>6 DEF Numbers, Rows
    <3>2. n \in Nat /\ PaidFor(c, Numbers', n) BY <2>2, <2>3, AddedOnlyGrow, PaidStaysPaid
    <3>3. c.attempt \in Nat /\ n >= c.attempt BY <2>1, <2>6, <3>1, <3>2, OpeningPays
    <3> DEFINE x == [pc |-> "gave-up"]
    <3>4. x.pc = "gave-up" /\ Become(p, x) BY <2>6 DEF GiveUp
    <3>5. n >= Attempts BY <2>6, <3>2, <3>3, PullRequestParameters
    <3> HIDE DEF x
    <3>6. PaidFor(x, Numbers', n) BY <3>4, <3>5 DEF PaidFor
    <3> QED BY <2>3, <3>4, <3>6, OneCallPays
  <2> QED BY <1>3, <2>4, <2>5, <2>6 DEF InsertRequest
<1>4. ASSUME NEW p \in Caller,
             \/ \E r \in Request : StartMerge(p, r)
             \/ ResolveBranches(p) \/ WriteTarget(p) \/ Reply(p) \/ Crash(p)
      PROVE  CrowdInv'
  <2>1. NumbersMove
    BY <1>4, RowsStay DEF StartMerge, ResolveBranches, WriteTarget, Reply, Crash
  <2>2. PICK x : Become(p, x) /\ x.pc \in {"idle", "resolve", "write", "mark"}
    <3>1. CASE \E r \in Request : StartMerge(p, r)
      BY <3>1 DEF StartMerge, Return, Idle
    <3>2. CASE ResolveBranches(p) \/ WriteTarget(p)
      <4>1. call[p] \in Merging BY <3>2, CallKinds DEF ResolveBranches, WriteTarget
      <4>2. /\ \A new : [call[p] EXCEPT !.pc = "write", !.new = new].pc = "write"
            /\ [call[p] EXCEPT !.pc = "mark"].pc = "mark"
        BY <4>1 DEF Merging
      <4>3. \/ Return(p)
            \/ \E new : Become(p, [call[p] EXCEPT !.pc = "write", !.new = new])
            \/ Become(p, [call[p] EXCEPT !.pc = "mark"])
        BY <3>2 DEF ResolveBranches, WriteTarget
      <4>4. Idle.pc = "idle" BY DEF Idle
      <4> QED BY <4>2, <4>3, <4>4 DEF Return
    <3>3. CASE Reply(p) \/ Crash(p) BY <3>3 DEF Reply, Crash, Return, Idle
    <3> QED BY <1>4, <3>1, <3>2, <3>3
  <2>3. PaidFor(x, Numbers', Cardinality(Added')) BY <2>2 DEF PaidFor
  <2> QED BY <2>1, <2>2, <2>3, OneCallPays
<1>5. ASSUME NEW p \in Caller, MarkMerged(p) PROVE CrowdInv'
  <2>1. PaidFor(Idle, Numbers', Cardinality(Added')) BY DEF PaidFor, Idle
  <2>2. Become(p, Idle) BY <1>5 DEF MarkMerged, Return
  <2>3. NumbersMove
    <3>1. CASE UNCHANGED pr BY <3>1, RowsStay
    <3>2. CASE ~UNCHANGED pr
      <4> DEFINE r == call[p].id
                 c == call[p].new.tip
      <4>1. r \in Rows /\ pr' = [pr EXCEPT ![r] = [pr[r] EXCEPT !.state = "merged", !.sha = c]]
        BY <1>5, <3>2 DEF MarkMerged, Update
      <4>2. r \in Request /\ IsRow(pr[r]) BY <4>1, RowKinds DEF Rows
      <4>3. c \in AnyCommit \cup {NoCommit}
        <5>1. call[p] \in Merging BY <1>5, CallKinds DEF MarkMerged
        <5> QED BY <5>1 DEF Merging, Tip, NoRef
      <4>4. LET x == [pr[r] EXCEPT !.state = "merged", !.sha = c]
            IN  IsRow(x) /\ x.number = pr[r].number
        BY <4>2, <4>3, Landed
      <4>5. pr[r] # NoRow BY <4>1 DEF Rows, NoRow, State
      <4> HIDE DEF r, c
      <4>6. [pr[r] EXCEPT !.state = "merged", !.sha = c] # NoRow
        BY <4>4 DEF IsRow, NoRow, State
      <4> QED BY <4>1, <4>2, <4>4, <4>5, <4>6, RowKeepsNumber
    <3> QED BY <3>1, <3>2
  <2> QED BY <2>1, <2>2, <2>3, OneCallPays
<1>6. ASSUME NEW r \in Request, r \in Rows,
             UNCHANGED call,
             \/ \E st \in State : Update(r, [pr[r] EXCEPT !.state = st])
             \/ Update(r, Deleted)
      PROVE  CrowdInv'
  <2>1. IsRow(pr[r]) /\ pr[r] # NoRow BY <1>6, RowKinds DEF Rows, NoRow, State
  <2>2. CASE Update(r, Deleted)
    <3>1. Deleted # NoRow /\ Deleted.state \notin State BY DEF Deleted, NoRow, State
    <3>2. NumbersMove BY <2>1, <2>2, <3>1, RowKeepsNumber DEF Update
    <3> QED BY <1>6, <3>2, CrowdFromParts
  <2>3. ASSUME NEW st \in State, Update(r, [pr[r] EXCEPT !.state = st]) PROVE CrowdInv'
    <3> DEFINE x == [pr[r] EXCEPT !.state = st]
    <3>1. IsRow(x) /\ x.number = pr[r].number BY <2>1, NewState
    <3>2. pr' = [pr EXCEPT ![r] = x] BY <2>3 DEF Update
    <3> HIDE DEF x
    <3>3. x # NoRow BY <3>1 DEF IsRow, NoRow, State
    <3>4. NumbersMove BY <1>6, <2>1, <3>1, <3>2, <3>3, RowKeepsNumber
    <3> QED BY <1>6, <3>4, CrowdFromParts
  <2> QED BY <1>6, <2>2, <2>3
<1>7. ASSUME NEW r \in Request,
             \/ closePullRequest(r) \/ reopenPullRequest(r) \/ GeneratedDelete(r)
             \/ \E st \in State : GeneratedUpdate(r, st)
      PROVE  CrowdInv'
  <2>1. UNCHANGED call /\ r \in Rows
    BY <1>7 DEF closePullRequest, reopenPullRequest, setPullRequestState, pullRequestStateChange,
                GeneratedDelete, GeneratedUpdate, Rows, State
  <2>2. \/ \E st \in State : Update(r, [pr[r] EXCEPT !.state = st])
        \/ Update(r, Deleted)
    BY <1>7 DEF closePullRequest, reopenPullRequest, setPullRequestState, pullRequestStateChange,
                GeneratedDelete, GeneratedUpdate, State
  <2> QED BY <1>6, <2>1, <2>2
<1>8. ASSUME NEW n \in 1..MaxNumber, NEW s \in Source, NEW t \in Target,
             NEW st \in {"open", "draft"}, GeneratedCreate(n, s, t, st)
      PROVE  CrowdInv'
  <2>1. n \in Nat BY PullRequestParameters
  <2>2. NumbersMove BY <1>8, <2>1, RowAdds DEF GeneratedCreate, State
  <2> QED BY <1>8, <2>2, CrowdFromParts DEF GeneratedCreate
<1>9. ASSUME UNCHANGED <<pr, call>> PROVE CrowdInv'
  BY <1>9, RowsStay, CrowdFromParts
<1>10. ASSUME NEW b \in Branch,
              \/ \E k \in RefKind : \/ deleteRef(k, b)
                                    \/ \E c \in PushTo[b] : createRef(k, b, c)
              \/ \E c \in PushTo[b] : Push(b, c)
       PROVE  CrowdInv'
  BY <1>9, <1>10 DEF deleteRef, createRef, Push
<1>11. CASE UNCHANGED vars BY <1>9, <1>11 DEF vars
<1> QED
  BY <1>1, <1>2, <1>3, <1>4, <1>5, <1>7, <1>8, <1>10, <1>11 DEF Next, CallStep

\* An open gives up only when as many requests were added as it may try numbers
\* (PullRequest!GivesUpOnlyWhenCrowded), deletions, client-supplied numbers and
\* deaths of other opens included: with fewer, every open gets its number.
THEOREM OpensGetTheirNumber == Spec => []GivesUpOnlyWhenCrowded
<1>1. TypeOK /\ CrowdInv => GivesUpOnlyWhenCrowded
  BY DEF CrowdInv, PaidFor, GivesUpOnlyWhenCrowded, Added
<1> QED BY <1>1, TypeCorrect, CrowdInit, CrowdStep, PTL DEF Spec

=============================================================================
