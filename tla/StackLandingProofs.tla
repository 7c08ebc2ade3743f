------------------------- MODULE StackLandingProofs -------------------------
(***************************************************************************)
(* Theorems about StackLanding, for every set of changes, callers, checks  *)
(* and rules.                                                              *)
(***************************************************************************)
EXTENDS StackLanding, FiniteSetTheorems, TLAPS

\* A call whose pc is one of a landing's carries a landing's fields.
LEMMA GateShape ==
  ASSUME NEW x \in Call, x.pc \in GatePC
  PROVE  x \in Running(GatePC, Commit \cup {NoCommit})
BY DEF Call, GatePC, LandPC, Running, Idle

LEMMA LandShape ==
  ASSUME NEW x \in Call, x.pc \in LandPC
  PROVE  x \in Running(LandPC, Commit)
BY DEF Call, GatePC, LandPC, Running, Idle

LEMMA StackShape ==
  ASSUME NEW x \in Running(LandPC, Commit), NEW b \in BOOLEAN
  PROVE  [x EXCEPT !.pc = "stack", !.open = b] \in Running(LandPC, Commit)
BY DEF Running, LandPC

LEMMA WriteShape ==
  ASSUME NEW x \in Running(LandPC, Commit), NEW t \in SUBSET (Commit \cup MergeCommits)
  PROVE  [x EXCEPT !.pc = "write", !.tip = t] \in Running(LandPC, Commit)
BY DEF Running, LandPC

LEMMA ReturnShape ==
  ASSUME NEW c \in Change, NEW r \in Reason \cup {"ok"}
  PROVE  [pc |-> "done", change |-> c, outcome |-> r] \in Call
BY DEF Call

LEMMA ReportedShape ==
  ASSUME NEW k \in Check, NEW s \in CheckStatus
  PROVE  [k EXCEPT !.status = s] \in Check
BY DEF Check

\* A landing keeps the tip it was computed from and adds the commit.
LEMMA LandedGrows ==
  ASSUME NEW o \in Commit, NEW tip
  PROVE  /\ tip \subseteq Landed(tip, o) /\ o \in Landed(tip, o)
         /\ tip \subseteq Joined(tip, o) /\ o \in Joined(tip, o)
BY LandingAssumption DEF Landed, Joined

LEMMA LandedType ==
  ASSUME NEW o \in Commit, NEW tip \in SUBSET (Commit \cup MergeCommits)
  PROVE  /\ Landed(tip, o) \in SUBSET (Commit \cup MergeCommits)
         /\ Joined(tip, o) \in SUBSET (Commit \cup MergeCommits)
BY LandingAssumption DEF Landed, Joined, MergeCommits

-----------------------------------------------------------------------------
(***************************************************************************)
(* Type correctness.                                                       *)
(***************************************************************************)

LEMMA TypeInit == Init => TypeOK
BY LandingAssumption
   DEF Init, TypeOK, ChangeStatus, Check, CheckStatus, Call, Idle

\* A step that touches nothing but the calls
LEMMA CallOnlyType ==
  ASSUME TypeOK, UNCHANGED <<rowVars, branch>>, call' \in [Caller -> Call]
  PROVE  TypeOK'
BY DEF TypeOK, rowVars

\* Going on, within the gates, within the landing, and from one to the other
LEMMA GotoType ==
  ASSUME TypeOK, NEW p \in Caller, NEW pc, Goto(p, pc),
         \/ call[p].pc \in GatePC /\ pc \in GatePC
         \/ call[p].pc \in LandPC /\ pc \in LandPC
         \/ call[p].pc \in GatePC /\ call[p].oid # NoCommit /\ pc \in LandPC
  PROVE  call' \in [Caller -> Call]
<1> DEFINE moved == [call[p] EXCEPT !.pc = pc]
<1>1. call[p] \in Call BY DEF TypeOK
<1>2. moved \in Call
  <2>1. CASE call[p].pc \in GatePC /\ pc \in GatePC
    BY <1>1, <2>1, GateShape DEF Running, Call
  <2>2. CASE call[p].pc \in LandPC /\ pc \in LandPC
    BY <1>1, <2>2, LandShape DEF Running, Call
  <2>3. CASE call[p].pc \in GatePC /\ call[p].oid # NoCommit /\ pc \in LandPC
    BY <1>1, <2>3, GateShape DEF Running, Call
  <2> QED BY <2>1, <2>2, <2>3
<1> QED BY <1>2 DEF Goto, TypeOK

LEMMA ReturnType ==
  ASSUME TypeOK, NEW p \in Caller, NEW c \in Change, NEW r \in Reason \cup {"ok"},
         Return(p, c, r)
  PROVE  call' \in [Caller -> Call]
BY ReturnShape DEF Return, TypeOK

LEMMA GateCall ==
  ASSUME TypeOK, NEW p \in Caller, call[p].pc \in GatePC
  PROVE  call[p].change \in Change /\ call[p].oid \in Commit \cup {NoCommit}
BY GateShape DEF Running, TypeOK

LEMMA LandCall ==
  ASSUME TypeOK, NEW p \in Caller, call[p].pc \in LandPC
  PROVE  /\ call[p].change \in Change
         /\ call[p].oid \in Commit
         /\ call[p].tip \in SUBSET (Commit \cup MergeCommits)
BY LandShape DEF Running, TypeOK

LEMMA IdleType ==
  ASSUME TypeOK, NEW p \in Caller, call' = [call EXCEPT ![p] = Idle]
  PROVE  call' \in [Caller -> Call]
BY DEF TypeOK, Call

LEMMA TypeStep == TypeOK /\ [Next]_vars => TypeOK'
<1> SUFFICES ASSUME TypeOK, [Next]_vars PROVE TypeOK'
  OBVIOUS
<1>1. ASSUME NEW p \in Caller, NEW c \in Change, StartMergeChange(p, c)
      PROVE  TypeOK'
  <2> DEFINE first == [pc |-> "checks", change |-> c, oid |-> commit[c],
                       tip |-> {}, open |-> FALSE]
  <2>1. first \in Call BY DEF Call, Running, GatePC, TypeOK
  <2>2. \/ Return(p, c, "not-found")
        \/ Return(p, c, "not-open")
        \/ call' = [call EXCEPT ![p] = first]
    BY <1>1 DEF StartMergeChange
  <2>3. call' \in [Caller -> Call]
    BY <2>1, <2>2, ReturnType DEF Reason, TypeOK
  <2>4. UNCHANGED <<rowVars, branch>> BY <1>1 DEF StartMergeChange
  <2> QED BY <2>3, <2>4, CallOnlyType
<1>2. ASSUME NEW p \in Caller, GateOnChecks(p) PROVE TypeOK'
  <2>1. call[p].pc \in GatePC BY <1>2 DEF GateOnChecks, GatePC
  <2>2. Goto(p, "rules") \/ Return(p, call[p].change, "not-mergeable")
    BY <1>2 DEF GateOnChecks
  <2>3. call' \in [Caller -> Call]
    BY <2>1, <2>2, GateCall, GotoType, ReturnType DEF GatePC, Reason
  <2>4. UNCHANGED <<rowVars, branch>> BY <1>2 DEF GateOnChecks
  <2> QED BY <2>3, <2>4, CallOnlyType
<1>3. ASSUME NEW p \in Caller, GateOnProtection(p) PROVE TypeOK'
  <2>1. call[p].pc \in GatePC BY <1>3 DEF GateOnProtection, GatePC
  <2>2. Goto(p, "parent") \/ Return(p, call[p].change, "branch-protected")
    BY <1>3 DEF GateOnProtection
  <2>3. call' \in [Caller -> Call]
    BY <2>1, <2>2, GateCall, GotoType, ReturnType DEF GatePC, Reason
  <2>4. UNCHANGED <<rowVars, branch>> BY <1>3 DEF GateOnProtection
  <2> QED BY <2>3, <2>4, CallOnlyType
<1>4. ASSUME NEW p \in Caller, GateOnParent(p) PROVE TypeOK'
  <2>1. call[p].pc \in GatePC BY <1>4 DEF GateOnParent, GatePC
  <2>2. Goto(p, "base") \/ Return(p, call[p].change, "parent-unmerged")
    BY <1>4 DEF GateOnParent
  <2>3. call' \in [Caller -> Call]
    BY <2>1, <2>2, GateCall, GotoType, ReturnType DEF GatePC, Reason
  <2>4. UNCHANGED <<rowVars, branch>> BY <1>4 DEF GateOnParent
  <2> QED BY <2>3, <2>4, CallOnlyType
<1>5. ASSUME NEW p \in Caller, ResolveBase(p) PROVE TypeOK'
  <2>1. call[p].pc \in GatePC BY <1>5 DEF ResolveBase, GatePC
  <2>2. \/ Return(p, call[p].change, "git-error")
        \/ Return(p, call[p].change, "repository-unavailable")
        \/ Goto(p, "land") /\ call[p].oid # NoCommit
    BY <1>5 DEF ResolveBase
  <2>3. call' \in [Caller -> Call]
    <3>1. CASE Goto(p, "land") /\ call[p].oid # NoCommit
      BY <2>1, <3>1, GotoType DEF LandPC
    <3> QED BY <2>1, <2>2, <3>1, GateCall, ReturnType DEF Reason
  <2>4. UNCHANGED <<rowVars, branch>> BY <1>5 DEF ResolveBase
  <2> QED BY <2>3, <2>4, CallOnlyType
<1>6. ASSUME NEW p \in Caller, LandInBackend(p) PROVE TypeOK'
  <2>1. call[p].pc \in LandPC BY <1>6 DEF LandInBackend, LandPC
  <2>2. Goto(p, "mark") \/ Return(p, call[p].change, "git-error")
    BY <1>6 DEF LandInBackend
  <2>3. call' \in [Caller -> Call]
    BY <2>1, <2>2, LandCall, GotoType, ReturnType DEF LandPC, Reason
  <2>4. branch' \in SUBSET (Commit \cup MergeCommits)
    <3>1. branch \in SUBSET (Commit \cup MergeCommits) BY DEF TypeOK
    <3>2. branch' = Landed(branch, call[p].oid) \/ branch' = branch
      BY <1>6 DEF LandInBackend
    <3>3. call[p].oid \in Commit BY <2>1, LandCall
    <3> QED BY <3>1, <3>2, <3>3, LandedType
  <2>5. UNCHANGED rowVars BY <1>6 DEF LandInBackend
  <2> QED BY <2>3, <2>4, <2>5 DEF TypeOK, rowVars
<1>7. ASSUME NEW p \in Caller, ResolveTip(p) PROVE TypeOK'
  <2> DEFINE looked == [call[p] EXCEPT !.pc = "write", !.tip = branch]
  <2>1. call[p].pc \in LandPC BY <1>7 DEF ResolveTip, LandPC
  <2>2. looked \in Call
    <3>1. call[p] \in Running(LandPC, Commit) BY <2>1, LandShape DEF TypeOK
    <3>2. looked \in Running(LandPC, Commit) BY <3>1, WriteShape DEF TypeOK
    <3> QED BY <3>2 DEF Call
  <2>3. \/ Goto(p, "mark")
        \/ Return(p, call[p].change, "git-error")
        \/ call' = [call EXCEPT ![p] = looked]
    BY <1>7 DEF ResolveTip
  <2>4. call' \in [Caller -> Call]
    <3>1. CASE call' = [call EXCEPT ![p] = looked] BY <2>2, <3>1 DEF TypeOK
    <3> QED BY <2>1, <2>3, <3>1, LandCall, GotoType, ReturnType DEF LandPC, Reason
  <2>5. UNCHANGED <<rowVars, branch>> BY <1>7 DEF ResolveTip
  <2> QED BY <2>4, <2>5, CallOnlyType
<1>8. ASSUME NEW p \in Caller, WriteRef(p) PROVE TypeOK'
  <2>1. call[p].pc \in LandPC BY <1>8 DEF WriteRef, LandPC
  <2>2. Goto(p, "mark") \/ Return(p, call[p].change, "git-error")
    BY <1>8 DEF WriteRef
  <2>3. call' \in [Caller -> Call]
    BY <2>1, <2>2, LandCall, GotoType, ReturnType DEF LandPC, Reason
  <2>4. branch' \in SUBSET (Commit \cup MergeCommits)
    <3>1. branch \in SUBSET (Commit \cup MergeCommits) BY DEF TypeOK
    <3>2. branch' = Joined(call[p].tip, call[p].oid) \/ branch' = branch
      BY <1>8 DEF WriteRef
    <3>3. call[p].oid \in Commit /\ call[p].tip \in SUBSET (Commit \cup MergeCommits)
      BY <2>1, LandCall
    <3> QED BY <3>1, <3>2, <3>3, LandedType
  <2>5. UNCHANGED rowVars BY <1>8 DEF WriteRef
  <2> QED BY <2>3, <2>4, <2>5 DEF TypeOK, rowVars
<1>9. ASSUME NEW p \in Caller, MarkMerged(p) PROVE TypeOK'
  <2>1. call[p].pc \in LandPC BY <1>9 DEF MarkMerged, LandPC
  <2>2. call' \in [Caller -> Call]
    BY <1>9, <2>1, GotoType DEF MarkMerged, LandPC
  <2>3. status' \in [Change -> ChangeStatus]
    BY <1>9, <2>1, LandCall DEF MarkMerged, TypeOK, ChangeStatus
  <2> QED BY <1>9, <2>2, <2>3 DEF MarkMerged, TypeOK
<1>10. ASSUME NEW p \in Caller, ReadRemaining(p) PROVE TypeOK'
  <2> DEFINE left == \E d \in Change : StackOf[d] = StackOf[call[p].change] /\ status[d] = "open"
             saw  == [call[p] EXCEPT !.pc = "stack", !.open = left]
  <2>1. call[p].pc \in LandPC BY <1>10 DEF ReadRemaining, LandPC
  <2>2. left \in BOOLEAN OBVIOUS
  <2> HIDE DEF left
  <2>3. saw \in Call
    <3>1. call[p] \in Running(LandPC, Commit) BY <2>1, LandShape DEF TypeOK
    <3>2. saw \in Running(LandPC, Commit) BY <2>2, <3>1, StackShape
    <3> QED BY <3>2 DEF Call
  <2>4. call' = [call EXCEPT ![p] = saw] BY <1>10 DEF ReadRemaining, left
  <2>5. call' \in [Caller -> Call] BY <2>3, <2>4 DEF TypeOK
  <2>6. UNCHANGED <<rowVars, branch>> BY <1>10 DEF ReadRemaining
  <2> QED BY <2>5, <2>6, CallOnlyType
<1>11. ASSUME NEW p \in Caller, UpdateStack(p) PROVE TypeOK'
  <2>1. call[p].pc \in LandPC BY <1>11 DEF UpdateStack, LandPC
  <2>2. call' \in [Caller -> Call]
    BY <1>11, <2>1, LandCall, ReturnType DEF UpdateStack
  <2>3. stackStatus' \in [Stack -> {"open", "merged"}]
    BY <1>11 DEF UpdateStack, TypeOK
  <2> QED BY <1>11, <2>2, <2>3 DEF UpdateStack, TypeOK
<1>12. ASSUME NEW p \in Caller, Reply(p) \/ Crash(p) PROVE TypeOK'
  <2>1. call' = [call EXCEPT ![p] = Idle] /\ UNCHANGED <<rowVars, branch>>
    BY <1>12 DEF Reply, Crash
  <2> QED BY <2>1, IdleType, CallOnlyType
<1>13. ASSUME Environment PROVE TypeOK'
  <2> USE DEF TypeOK
  <2>1. ASSUME NEW c \in Change, CreateChange(c) \/ AbandonChange(c) PROVE TypeOK'
    BY <2>1 DEF CreateChange, AbandonChange, ChangeStatus
  <2>2. ASSUME NEW c \in Change, NEW o \in CommitsOf[c], AmendChange(c, o) PROVE TypeOK'
    BY <2>2, LandingAssumption DEF AmendChange
  <2>3. ASSUME NEW c \in Change, NEW n \in CheckName, NEW s \in CheckStatus,
               ReportCheck(c, n, s)
        PROVE  TypeOK'
    <3>1. checks' \in [Change -> [CheckName -> Check]]
      <4>1. [checks[c][n] EXCEPT !.status = s] \in Check BY ReportedShape
      <4>2. [checks[c] EXCEPT ![n].status = s] \in [CheckName -> Check] BY <4>1
      <4> QED BY <2>3, <4>2 DEF ReportCheck
    <3> QED BY <2>3, <3>1 DEF ReportCheck
  <2>4. ASSUME NEW c \in Change, NEW r \in Reviewer, Approve(c, r) \/ DismissApproval(c, r)
        PROVE  TypeOK'
    BY <2>4 DEF Approve, DismissApproval
  <2>5. ASSUME NEW o \in Push, PushToBase(o) PROVE TypeOK'
    BY <2>5, LandingAssumption DEF PushToBase, rowVars
  <2> QED BY <1>13, <2>1, <2>2, <2>3, <2>4, <2>5 DEF Environment
<1>14. CASE UNCHANGED vars
  BY <1>14 DEF vars, rowVars, TypeOK
<1> QED BY <1>1, <1>2, <1>3, <1>4, <1>5, <1>6, <1>7, <1>8, <1>9, <1>10, <1>11, <1>12,
           <1>13, <1>14 DEF Next, CallStep

\* Every row, ref and call keeps its type (StackLanding!TypeOK), whatever calls,
\* crashes and writes of others overlap; a call that reaches git has a commit.
THEOREM TypeCorrect == Spec => []TypeOK
<1>1. Init => TypeOK BY TypeInit
<1>2. TypeOK /\ [Next]_vars => TypeOK' BY TypeStep
<1> QED BY <1>1, <1>2, PTL DEF Spec

-----------------------------------------------------------------------------
(***************************************************************************)
(* What a step may do: to a call, to a status, to the branch.              *)
(***************************************************************************)

ParentLanded(c) == ParentOf[c] = NoParent \/ status[ParentOf[c]] = "merged"

Mergeable(c) == computeMergeability(checks[c]).mergeable

Permitted(c) ==
  evaluateBranchProtection(Rules, BaseBranch,
    [approvals |-> countApprovals(c), checkVerdict |-> "passed"]).allowed

StackOpen(s) == \E d \in Change : StackOf[d] = s /\ status[d] = "open"

\* The edges of a call, with what the step that takes one has just seen
Edge(p) ==
  \/ call[p].pc = "checks"    /\ call'[p].pc = "rules"  /\ Mergeable(call[p].change)
  \/ call[p].pc = "rules"     /\ call'[p].pc = "parent" /\ Permitted(call[p].change)
  \/ call[p].pc = "parent"    /\ call'[p].pc = "base"   /\ ParentLanded(call[p].change)
  \/ call[p].pc = "base"      /\ call'[p].pc = "land"
  \/ call[p].pc = "land"      /\ call'[p].pc = "write"  /\ ~AtomicLanding
  \/ call[p].pc \in {"land", "write"} /\ call'[p].pc = "mark"
                              /\ call[p].oid \in branch'
  \/ call[p].pc = "mark"      /\ call'[p].pc = "remaining"
  \/ call[p].pc = "remaining" /\ call'[p].pc = "stack"
                              /\ call'[p].open = StackOpen(StackOf[call[p].change])
                              /\ status' = status

Moves(p) ==
  \/ call'[p] = call[p]
  \/ call'[p].pc \in {"idle", "done"}
  \/ /\ call'[p].pc = "checks"
     /\ \E c \in Change : /\ call'[p].change = c /\ call'[p].oid = commit[c]
                        /\ status[c] = "open"
  \/ /\ call'[p].change = call[p].change
     /\ call'[p].oid = call[p].oid
     /\ Edge(p)

LEMMA GotoMoves ==
  ASSUME TypeOK, NEW p \in Caller, NEW pc, call[p].pc \in GatePC \cup LandPC,
         Goto(p, pc)
  PROVE  /\ call'[p].pc = pc
         /\ call'[p].change = call[p].change
         /\ call'[p].oid = call[p].oid
         /\ \A q \in Caller \ {p} : call'[q] = call[q]
<1>1. CASE call[p].pc \in GatePC
  BY <1>1, GateShape DEF Goto, TypeOK, Running
<1>2. CASE call[p].pc \in LandPC
  BY <1>2, LandShape DEF Goto, TypeOK, Running
<1> QED BY <1>1, <1>2

LEMMA ReturnMoves ==
  ASSUME TypeOK, NEW p \in Caller, NEW c, NEW r, Return(p, c, r)
  PROVE  \A q \in Caller : Moves(q)
BY DEF Return, TypeOK, Moves

LEMMA CallMoves ==
  ASSUME TypeOK, [Next]_vars
  PROVE  \A q \in Caller : Moves(q)
<1>1. ASSUME NEW p \in Caller, NEW c \in Change, StartMergeChange(p, c)
      PROVE  \A q \in Caller : Moves(q)
  <2> DEFINE first == [pc |-> "checks", change |-> c, oid |-> commit[c],
                       tip |-> {}, open |-> FALSE]
  <2>1. \/ Return(p, c, "not-found")
        \/ Return(p, c, "not-open")
        \/ status[c] = "open" /\ call' = [call EXCEPT ![p] = first]
    BY <1>1 DEF StartMergeChange
  <2>2. CASE status[c] = "open" /\ call' = [call EXCEPT ![p] = first]
    BY <2>2 DEF TypeOK, Moves
  <2> QED BY <2>1, <2>2, ReturnMoves
<1>2. ASSUME NEW p \in Caller, GateOnChecks(p) PROVE \A q \in Caller : Moves(q)
  <2>1. CASE Mergeable(call[p].change) /\ Goto(p, "rules")
    BY <1>2, <2>1, GotoMoves DEF GateOnChecks, GatePC, Moves, Edge
  <2>2. CASE Return(p, call[p].change, "not-mergeable") BY <2>2, ReturnMoves
  <2> QED BY <1>2, <2>1, <2>2 DEF GateOnChecks, Mergeable
<1>3. ASSUME NEW p \in Caller, GateOnProtection(p) PROVE \A q \in Caller : Moves(q)
  <2>1. CASE Permitted(call[p].change) /\ Goto(p, "parent")
    BY <1>3, <2>1, GotoMoves DEF GateOnProtection, GatePC, Moves, Edge
  <2>2. CASE Return(p, call[p].change, "branch-protected") BY <2>2, ReturnMoves
  <2> QED BY <1>3, <2>1, <2>2 DEF GateOnProtection, Permitted
<1>4. ASSUME NEW p \in Caller, GateOnParent(p) PROVE \A q \in Caller : Moves(q)
  <2>1. CASE ParentLanded(call[p].change) /\ Goto(p, "base")
    BY <1>4, <2>1, GotoMoves DEF GateOnParent, GatePC, Moves, Edge
  <2>2. CASE Return(p, call[p].change, "parent-unmerged") BY <2>2, ReturnMoves
  <2> QED BY <1>4, <2>1, <2>2 DEF GateOnParent, ParentLanded
<1>5. ASSUME NEW p \in Caller, ResolveBase(p) PROVE \A q \in Caller : Moves(q)
  <2>1. CASE Goto(p, "land")
    BY <1>5, <2>1, GotoMoves DEF ResolveBase, GatePC, Moves, Edge
  <2> QED BY <1>5, <2>1, ReturnMoves DEF ResolveBase
<1>6. ASSUME NEW p \in Caller, LandInBackend(p) PROVE \A q \in Caller : Moves(q)
  <2>1. CASE call[p].oid \in branch' /\ Goto(p, "mark")
    BY <1>6, <2>1, GotoMoves DEF LandInBackend, LandPC, Moves, Edge
  <2> QED BY <1>6, <2>1, ReturnMoves DEF LandInBackend
<1>7. ASSUME NEW p \in Caller, ResolveTip(p) PROVE \A q \in Caller : Moves(q)
  <2>1. CASE call[p].oid \in branch /\ Goto(p, "mark")
    BY <1>7, <2>1, GotoMoves DEF ResolveTip, LandPC, Moves, Edge
  <2>2. CASE call' = [call EXCEPT ![p].pc = "write", ![p].tip = branch]
    BY <1>7, <2>2, LandShape DEF ResolveTip, LandPC, Running, TypeOK, Moves, Edge
  <2> QED BY <1>7, <2>1, <2>2, ReturnMoves DEF ResolveTip
<1>8. ASSUME NEW p \in Caller, WriteRef(p) PROVE \A q \in Caller : Moves(q)
  <2>1. CASE branch' = Joined(call[p].tip, call[p].oid) /\ Goto(p, "mark")
    <3>1. call[p].oid \in branch'
      BY <1>8, <2>1, LandCall, LandedGrows DEF WriteRef, LandPC
    <3> QED BY <1>8, <2>1, <3>1, GotoMoves DEF WriteRef, LandPC, Moves, Edge
  <2> QED BY <1>8, <2>1, ReturnMoves DEF WriteRef
<1>9. ASSUME NEW p \in Caller, MarkMerged(p) PROVE \A q \in Caller : Moves(q)
  BY <1>9, GotoMoves DEF MarkMerged, LandPC, Moves, Edge
<1>10. ASSUME NEW p \in Caller, ReadRemaining(p) PROVE \A q \in Caller : Moves(q)
  <2>1. call[p] \in Running(LandPC, Commit)
    BY <1>10, LandShape DEF ReadRemaining, LandPC, TypeOK
  <2>2. call' = [call EXCEPT ![p] = [call[p] EXCEPT
                   !.pc = "stack", !.open = StackOpen(StackOf[call[p].change])]]
    BY <1>10 DEF ReadRemaining, StackOpen
  <2>3. status' = status BY <1>10 DEF ReadRemaining, rowVars
  <2>4. call[p].pc = "remaining" BY <1>10 DEF ReadRemaining
  <2>5. \A q \in Caller \ {p} : call'[q] = call[q] BY <2>2 DEF TypeOK
  <2>6. /\ call'[p].pc = "stack"
        /\ call'[p].open = StackOpen(StackOf[call[p].change])
        /\ call'[p].change = call[p].change
        /\ call'[p].oid = call[p].oid
    BY <2>1, <2>2 DEF Running, TypeOK
  <2> QED BY <2>3, <2>4, <2>5, <2>6 DEF Moves, Edge
<1>11. ASSUME NEW p \in Caller, UpdateStack(p) PROVE \A q \in Caller : Moves(q)
  BY <1>11, ReturnMoves DEF UpdateStack
<1>12. ASSUME NEW p \in Caller, Reply(p) \/ Crash(p) PROVE \A q \in Caller : Moves(q)
  BY <1>12 DEF Reply, Crash, Idle, TypeOK, Moves
<1>13. CASE UNCHANGED call
  BY <1>13 DEF Moves
<1>14. Environment \/ UNCHANGED vars => UNCHANGED call
  BY DEF Environment, CreateChange, AbandonChange, AmendChange, ReportCheck, Approve,
         DismissApproval, PushToBase, vars
<1> QED BY <1>1, <1>2, <1>3, <1>4, <1>5, <1>6, <1>7, <1>8, <1>9, <1>10, <1>11, <1>12,
           <1>13, <1>14 DEF Next, CallStep

\* Who writes a status
LEMMA StatusWriters ==
  ASSUME [Next]_vars
  PROVE  \/ \E p \in Caller : MarkMerged(p)
         \/ \E d \in Change : CreateChange(d) \/ AbandonChange(d)
         \/ UNCHANGED status
BY DEF Next, CallStep, Environment, vars, rowVars, StartMergeChange, GateOnChecks,
         GateOnProtection, GateOnParent, ResolveBase, LandInBackend, ResolveTip, WriteRef,
         ReadRemaining, UpdateStack, Reply, Crash, AmendChange, ReportCheck, Approve,
         DismissApproval, PushToBase

\* A status changes when the change is created, dropped or recorded merged.
LEMMA StatusMoves ==
  ASSUME TypeOK, [Next]_vars, NEW c \in Change
  PROVE  \/ status'[c] = status[c]
         \/ status[c] = "absent" /\ status'[c] = "open"
         \/ status[c] = "open" /\ status'[c] = "abandoned"
         \/ /\ status'[c] = "merged"
            /\ \E p \in Caller : call[p].pc = "mark" /\ call[p].change = c
<1>1. ASSUME NEW p \in Caller, MarkMerged(p)
      PROVE  \/ status'[c] = status[c]
             \/ status'[c] = "merged" /\ call[p].pc = "mark" /\ call[p].change = c
  BY <1>1 DEF MarkMerged, TypeOK
<1>2. ASSUME NEW d \in Change, CreateChange(d) \/ AbandonChange(d)
      PROVE  \/ status'[c] = status[c]
             \/ status[c] = "absent" /\ status'[c] = "open"
             \/ status[c] = "open" /\ status'[c] = "abandoned"
  BY <1>2 DEF CreateChange, AbandonChange, TypeOK
<1>3. \/ \E p \in Caller : MarkMerged(p)
      \/ \E d \in Change : CreateChange(d) \/ AbandonChange(d)
      \/ UNCHANGED status
  BY StatusWriters
<1> QED BY <1>1, <1>2, <1>3

\* With a backend that lands in one step no write is ever pending.
NoStaleWrite == \A p \in Caller : call[p].pc # "write"

LEMMA BranchMoves ==
  ASSUME TypeOK, NoStaleWrite, AtomicLanding, [Next]_vars
  PROVE  branch \subseteq branch'
<1>1. ASSUME NEW p \in Caller, LandInBackend(p) PROVE branch \subseteq branch'
  BY <1>1, LandCall, LandedGrows DEF LandInBackend, LandPC
<1>2. ASSUME NEW o \in Push, PushToBase(o) PROVE branch \subseteq branch'
  BY <1>2 DEF PushToBase
<1>3. \/ \E p \in Caller : LandInBackend(p)
      \/ \E o \in Push : PushToBase(o)
      \/ branch' = branch
  BY DEF Next, CallStep, Environment, vars, rowVars, StartMergeChange, GateOnChecks,
         GateOnProtection, GateOnParent, ResolveBase, ResolveTip, WriteRef, MarkMerged,
         ReadRemaining, UpdateStack, Reply, Crash, CreateChange, AbandonChange,
         AmendChange, ReportCheck, Approve, DismissApproval, NoStaleWrite
<1> QED BY <1>1, <1>2, <1>3

-----------------------------------------------------------------------------
(***************************************************************************)
(* Landing order.  LandedInOrder alone is not inductive: the call that     *)
(* records a change must have found its parent merged, and merged is final.*)
(***************************************************************************)

OrderInv ==
  /\ LandedInOrder
  /\ \A p \in Caller : call[p].pc \in {"base"} \cup LandPC => ParentLanded(call[p].change)

\* Nothing takes a merged change back.
LEMMA MergedIsFinal ==
  ASSUME TypeOK, [Next]_vars, NEW c \in Change, status[c] = "merged"
  PROVE  status'[c] = "merged"
BY StatusMoves

LEMMA ParentStaysLanded ==
  ASSUME TypeOK, [Next]_vars, NEW c \in Change, ParentLanded(c)
  PROVE  ParentLanded(c)'
BY MergedIsFinal, LandingAssumption DEF ParentLanded

LEMMA OrderStep ==
  ASSUME TypeOK, OrderInv, [Next]_vars
  PROVE  OrderInv'
<1>1. ASSUME NEW c \in Change, status'[c] = "merged" PROVE ParentLanded(c)'
  <2>1. CASE status[c] = "merged"
    BY <2>1, ParentStaysLanded DEF OrderInv, LandedInOrder, ParentLanded
  <2>2. CASE \E p \in Caller : call[p].pc = "mark" /\ call[p].change = c
    BY <2>2, ParentStaysLanded DEF OrderInv, LandPC
  <2> QED BY <1>1, <2>1, <2>2, StatusMoves
<1>2. ASSUME NEW p \in Caller, call'[p].pc \in {"base"} \cup LandPC
      PROVE  ParentLanded(call[p].change)' /\ call'[p].change = call[p].change
  <2>1. call[p].pc \in {"parent", "base"} \cup LandPC /\ call'[p].change = call[p].change
    BY <1>2, CallMoves DEF Moves, Edge, LandPC
  <2>2. call[p].change \in Change
    BY <2>1, GateCall, LandCall DEF GatePC
  <2>3. ParentLanded(call[p].change)
    BY <1>2, CallMoves DEF Moves, Edge, LandPC, OrderInv
  <2> QED BY <2>1, <2>2, <2>3, ParentStaysLanded
<1> QED BY <1>1, <1>2 DEF OrderInv, LandedInOrder, ParentLanded

\* A stack lands in dependency order (StackLanding!LandedInOrder), for any number
\* of overlapping calls, with either git backend, across drops, amendments and
\* crashes.
THEOREM LandsInOrder == Spec => []LandedInOrder
<1>1. Init => OrderInv
  BY DEF Init, OrderInv, LandedInOrder, Idle, LandPC
<1>2. TypeOK /\ OrderInv /\ [Next]_vars => OrderInv'
  BY OrderStep
<1>3. OrderInv => LandedInOrder
  BY DEF OrderInv
<1> QED BY <1>1, <1>2, <1>3, TypeCorrect, PTL DEF Spec

-----------------------------------------------------------------------------
(***************************************************************************)
(* A backend that lands in one step.  A call about to record its change    *)
(* has put a commit of that change on the branch, and the branch keeps it. *)
(***************************************************************************)

OwnCommit(c, o) == o \in CommitsOf[c] \cup {NoCommit}

BranchInv ==
  /\ NoStaleWrite
  /\ MergedIsOnBranch
  /\ \A c \in Change : OwnCommit(c, commit[c])
  /\ \A p \in Caller : call[p].pc \in GatePC \cup LandPC =>
       /\ OwnCommit(call[p].change, call[p].oid)
       /\ status[call[p].change] # "absent"
  /\ \A p \in Caller : call[p].pc = "mark" => call[p].oid \in branch

LEMMA CommitMoves ==
  ASSUME TypeOK, [Next]_vars, NEW c \in Change, OwnCommit(c, commit[c])
  PROVE  OwnCommit(c, commit'[c])
<1>1. ASSUME NEW d \in Change, NEW o \in CommitsOf[d], AmendChange(d, o)
      PROVE  OwnCommit(c, commit'[c])
  BY <1>1 DEF AmendChange, TypeOK, OwnCommit
<1>2. \/ \E d \in Change : \E o \in CommitsOf[d] : AmendChange(d, o)
      \/ commit' = commit
  BY DEF Next, CallStep, Environment, vars, rowVars, StartMergeChange, GateOnChecks,
         GateOnProtection, GateOnParent, ResolveBase, LandInBackend, ResolveTip, WriteRef,
         MarkMerged, ReadRemaining, UpdateStack, Reply, Crash, CreateChange,
         AbandonChange, ReportCheck, Approve, DismissApproval, PushToBase
<1> QED BY <1>1, <1>2

LEMMA BranchStep ==
  ASSUME TypeOK, BranchInv, AtomicLanding, [Next]_vars
  PROVE  BranchInv'
<1>1. branch \subseteq branch'
  BY BranchMoves DEF BranchInv
<1>2. NoStaleWrite'
  BY CallMoves DEF BranchInv, NoStaleWrite, Moves, Edge
<1>3. \A c \in Change : OwnCommit(c, commit'[c])
  BY CommitMoves DEF BranchInv
<1>4. ASSUME NEW p \in Caller, call'[p].pc \in GatePC \cup LandPC
      PROVE  OwnCommit(call'[p].change, call'[p].oid) /\ status'[call'[p].change] # "absent"
  <2>1. CASE call[p].pc \in GatePC \cup LandPC
    <3>1. \/ call'[p].change = call[p].change /\ call'[p].oid = call[p].oid
          \/ \E c \in Change : /\ call'[p].change = c /\ call'[p].oid = commit[c]
                              /\ status[c] # "absent"
      BY <1>4, CallMoves DEF Moves, GatePC, LandPC
    <3> QED BY <2>1, <3>1, GateCall, LandCall, StatusMoves DEF BranchInv
  <2>2. CASE call[p].pc \notin GatePC \cup LandPC
    BY <1>4, <2>2, CallMoves, StatusMoves DEF BranchInv, Moves, Edge, GatePC, LandPC
  <2> QED BY <2>1, <2>2
<1>5. ASSUME NEW p \in Caller, call'[p].pc = "mark" PROVE call'[p].oid \in branch'
  BY <1>1, <1>5, CallMoves DEF BranchInv, Moves, Edge
<1>6. MergedIsOnBranch'
  <2> SUFFICES ASSUME NEW c \in Change, status'[c] = "merged"
               PROVE  CommitsOf[c] \cap branch' # {}
    BY DEF MergedIsOnBranch
  <2>1. CASE status[c] = "merged"
    BY <1>1, <2>1 DEF BranchInv, MergedIsOnBranch
  <2>2. CASE \E p \in Caller : call[p].pc = "mark" /\ call[p].change = c
    <3>1. PICK p \in Caller : call[p].pc = "mark" /\ call[p].change = c BY <2>2
    <3>2. call[p].oid \in CommitsOf[c]
      BY <3>1, LandCall, LandingAssumption DEF BranchInv, OwnCommit, LandPC
    <3> QED BY <1>1, <3>1, <3>2 DEF BranchInv
  <2> QED BY <2>1, <2>2, StatusMoves
<1> QED BY <1>2, <1>3, <1>4, <1>5, <1>6 DEF BranchInv, OwnCommit

LEMMA BranchInit == Init => BranchInv
BY DEF Init, BranchInv, NoStaleWrite, MergedIsOnBranch, OwnCommit, Idle, GatePC, LandPC

LEMMA BranchInvariant ==
  ASSUME AtomicLanding
  PROVE  Spec => [](TypeOK /\ BranchInv)
<1>1. Init => TypeOK /\ BranchInv BY TypeInit, BranchInit
<1>2. TypeOK /\ BranchInv /\ [Next]_vars => (TypeOK /\ BranchInv)'
  BY TypeStep, BranchStep
<1> QED BY <1>1, <1>2, PTL DEF Spec

\* With such a backend a merged change stays on its base branch
\* (StackLanding!MergedIsOnBranch), and neither landings nor pushes ever take a
\* commit off it (StackLanding!BranchOnlyGrows).
THEOREM LandedStaysLanded ==
  ASSUME AtomicLanding
  PROVE  Spec => []MergedIsOnBranch /\ BranchOnlyGrows
<1>1. TypeOK /\ BranchInv /\ [Next]_vars => [branch \subseteq branch']_vars
  BY BranchMoves DEF BranchInv
<1>2. BranchInv => MergedIsOnBranch
  BY DEF BranchInv
<1> QED BY <1>1, <1>2, BranchInvariant, PTL DEF Spec, BranchOnlyGrows

LEMMA ContractStep ==
  ASSUME TypeOK, BranchInv, OrderInv, AtomicLanding, [Next]_vars
  PROVE  [Contract!Next]_<<status, branch>>
<1>1. ASSUME NEW p \in Caller, MarkMerged(p) PROVE Contract!Next
  <2> DEFINE c == call[p].change
  <2>1. call[p].pc = "mark" BY <1>1 DEF MarkMerged
  <2>2. c \in Change /\ call[p].oid \in Commit
    BY <2>1, LandCall DEF LandPC
  <2>3. CommitsOf[c] \cap branch # {}
    BY <2>1, <2>2, LandingAssumption DEF BranchInv, OwnCommit, LandPC
  <2>4. ParentOf[c] = NoParent \/ status[ParentOf[c]] = "merged"
    BY <2>1 DEF OrderInv, ParentLanded, LandPC
  <2>5. status[c] \in {"open", "merged", "abandoned"}
    BY <2>1, <2>2 DEF BranchInv, LandPC, TypeOK, ChangeStatus
  <2>6. Contract!Record(c)
    BY <1>1, <2>3, <2>4, <2>5 DEF MarkMerged, Contract!Record
  <2> QED BY <2>2, <2>6 DEF Contract!Next
<1>2. ASSUME NEW c \in Change, CreateChange(c) \/ AbandonChange(c)
      PROVE  Contract!Next
  BY <1>2 DEF CreateChange, AbandonChange, Contract!Next, Contract!Create, Contract!Abandon
<1>3. CASE UNCHANGED status
  BY <1>3, BranchMoves DEF BranchInv, Contract!Next, Contract!Advance
<1>4. \/ \E p \in Caller : MarkMerged(p)
      \/ \E c \in Change : CreateChange(c) \/ AbandonChange(c)
      \/ UNCHANGED status
  BY StatusWriters
<1> QED BY <1>1, <1>2, <1>3, <1>4

\* The landing of stacked changes implements its contract
\* (StackLanding!ImplementsContract): seen without calls, gates and crashes, the
\* branch only grows and a change is recorded once it is there, after its parent.
THEOREM LandingImplementsContract ==
  ASSUME AtomicLanding
  PROVE  Spec => ImplementsContract
<1>1. Init => Contract!Init
  BY LandingAssumption DEF Init, Contract!Init
<1>2. Init => OrderInv
  BY DEF Init, OrderInv, LandedInOrder, Idle, LandPC
<1>3. TypeOK /\ OrderInv /\ [Next]_vars => OrderInv'
  BY OrderStep
<1>4. TypeOK /\ BranchInv /\ OrderInv /\ [Next]_vars => [Contract!Next]_Contract!vars
  BY ContractStep DEF Contract!vars
<1> QED BY <1>1, <1>2, <1>3, <1>4, BranchInvariant, PTL DEF Spec, ImplementsContract, Contract!Spec

-----------------------------------------------------------------------------
(***************************************************************************)
(* The gates.  They are read long before the landing is recorded, so what  *)
(* they saw must be stable: CI takes no pass back, approvals stay.         *)
(***************************************************************************)

NothingTakenBack ==
  /\ \A f \in CheckFlow : f[1] # "passed"
  /\ ~Dismissals
  /\ IsFiniteSet(Reviewer)
  /\ \A r \in Rules : r.requiredApprovals \in Nat

\* The two readings of a change's checks agree, on any rows: the one that lets a
\* change land and the one that tells the queue whether to evict.
LEMMA GatesAgreeOnAnyRows ==
  ASSUME NEW rows
  PROVE  computeMergeability(rows).mergeable <=> classifyRequiredChecks(rows) = "passed"
BY DEF computeMergeability, classifyRequiredChecks, blockingChecks, RequiredChecks

\* A change is permitted when no rule of its branch is short of approvals
LEMMA AllowedMeansEnough ==
  ASSUME NEW n
  PROVE  evaluateBranchProtection(Rules, BaseBranch,
           [approvals |-> n, checkVerdict |-> "passed"]).allowed
         <=> \A r \in rulesForBranch(Rules, BaseBranch) : ~(n < r.requiredApprovals)
BY DEF evaluateBranchProtection

\* More approvals never make a permitted change forbidden.
LEMMA ApprovalsOnlyHelp ==
  ASSUME NEW m \in Nat, NEW n \in Nat, m <= n,
         \A r \in Rules : r.requiredApprovals \in Nat,
         evaluateBranchProtection(Rules, BaseBranch,
           [approvals |-> m, checkVerdict |-> "passed"]).allowed
  PROVE  evaluateBranchProtection(Rules, BaseBranch,
           [approvals |-> n, checkVerdict |-> "passed"]).allowed
<1>1. ASSUME NEW r \in rulesForBranch(Rules, BaseBranch)
      PROVE  ~(n < r.requiredApprovals)
  <2>1. ~(m < r.requiredApprovals) BY AllowedMeansEnough
  <2>2. r.requiredApprovals \in Nat BY DEF rulesForBranch
  <2> QED BY <2>1, <2>2
<1> QED BY <1>1, AllowedMeansEnough

LEMMA ChecksMove ==
  ASSUME TypeOK, NothingTakenBack, [Next]_vars, NEW c \in Change, Mergeable(c)
  PROVE  Mergeable(c)'
<1>1. ASSUME NEW d \in Change, NEW n \in CheckName, NEW s \in CheckStatus,
             ReportCheck(d, n, s)
      PROVE  Mergeable(c)'
  <2>1. checks[d][n].status # "passed"
    BY <1>1 DEF ReportCheck, NothingTakenBack
  <2>2. \A m \in CheckName : checks[c][m].required => checks[c][m].status = "passed"
    BY DEF Mergeable, computeMergeability, blockingChecks, RequiredChecks, TypeOK
  <2>3. \A m \in CheckName : checks'[c][m].required => checks'[c][m].status = "passed"
    <3> SUFFICES ASSUME NEW m \in CheckName, checks'[c][m].required
                 PROVE  checks'[c][m].status = "passed"
      OBVIOUS
    <3>1. CASE c = d /\ m = n
      BY <1>1, <2>1, <2>2, <3>1 DEF ReportCheck, TypeOK, Check
    <3>2. CASE ~(c = d /\ m = n)
      BY <1>1, <2>2, <3>2 DEF ReportCheck, TypeOK
    <3> QED BY <3>1, <3>2
  <2>4. DOMAIN checks'[c] = CheckName
    BY <1>1, TypeStep DEF TypeOK
  <2> QED BY <2>3, <2>4 DEF Mergeable, computeMergeability, blockingChecks, RequiredChecks
<1>2. \/ \E d \in Change, n \in CheckName, s \in CheckStatus : ReportCheck(d, n, s)
      \/ UNCHANGED checks
  BY DEF Next, CallStep, Environment, vars, rowVars, StartMergeChange, GateOnChecks,
         GateOnProtection, GateOnParent, ResolveBase, LandInBackend, ResolveTip, WriteRef,
         MarkMerged, ReadRemaining, UpdateStack, Reply, Crash, CreateChange,
         AbandonChange, AmendChange, Approve, DismissApproval, PushToBase
<1> QED BY <1>1, <1>2 DEF Mergeable

LEMMA ApprovalsMove ==
  ASSUME TypeOK, NothingTakenBack, [Next]_vars, NEW c \in Change, Permitted(c)
  PROVE  Permitted(c)'
<1>1. \/ \E d \in Change, r \in Reviewer : Approve(d, r)
      \/ UNCHANGED approvals
  BY DEF Next, CallStep, Environment, vars, rowVars, StartMergeChange, GateOnChecks,
         GateOnProtection, GateOnParent, ResolveBase, LandInBackend, ResolveTip, WriteRef,
         MarkMerged, ReadRemaining, UpdateStack, Reply, Crash, CreateChange,
         AbandonChange, AmendChange, ReportCheck, DismissApproval, PushToBase,
         NothingTakenBack
<1>2. approvals[c] \subseteq approvals'[c] /\ approvals'[c] \subseteq Reviewer
  BY <1>1 DEF Approve, TypeOK
<1>3. /\ countApprovals(c) \in Nat /\ countApprovals(c)' \in Nat
      /\ countApprovals(c) <= countApprovals(c)'
  BY <1>2, FS_Subset, FS_CardinalityType DEF countApprovals, NothingTakenBack
<1> QED BY <1>3, ApprovalsOnlyHelp DEF Permitted, NothingTakenBack

GateInv ==
  /\ \A p \in Caller : call[p].pc \in {"rules", "parent", "base"} \cup LandPC =>
       Mergeable(call[p].change)
  /\ \A p \in Caller : call[p].pc \in {"parent", "base"} \cup LandPC =>
       Permitted(call[p].change)
  /\ \A c \in Change : status[c] = "merged" => Mergeable(c) /\ Permitted(c)

LEMMA GateStep ==
  ASSUME TypeOK, NothingTakenBack, GateInv, [Next]_vars
  PROVE  GateInv'
<1>1. ASSUME NEW p \in Caller, call'[p].pc \in {"rules", "parent", "base"} \cup LandPC
      PROVE  Mergeable(call[p].change)' /\ call'[p].change = call[p].change
  <2>1. call[p].pc \in GatePC \cup LandPC /\ call'[p].change = call[p].change
    BY <1>1, CallMoves DEF Moves, Edge, GatePC, LandPC
  <2>2. Mergeable(call[p].change)
    BY <1>1, CallMoves DEF Moves, Edge, LandPC, GateInv
  <2> QED BY <2>1, <2>2, GateCall, LandCall, ChecksMove
<1>2. ASSUME NEW p \in Caller, call'[p].pc \in {"parent", "base"} \cup LandPC
      PROVE  Permitted(call[p].change)' /\ call'[p].change = call[p].change
  <2>1. call[p].pc \in GatePC \cup LandPC /\ call'[p].change = call[p].change
    BY <1>2, CallMoves DEF Moves, Edge, GatePC, LandPC
  <2>2. Permitted(call[p].change)
    BY <1>2, CallMoves DEF Moves, Edge, LandPC, GateInv
  <2> QED BY <2>1, <2>2, GateCall, LandCall, ApprovalsMove
<1>3. ASSUME NEW c \in Change, status'[c] = "merged"
      PROVE  Mergeable(c)' /\ Permitted(c)'
  <2>1. Mergeable(c) /\ Permitted(c)
    BY <1>3, StatusMoves DEF GateInv, LandPC
  <2> QED BY <2>1, ChecksMove, ApprovalsMove
<1> QED BY <1>1, <1>2, <1>3 DEF GateInv, Mergeable, Permitted, countApprovals

\* Nothing lands past a red or missing check or short of its approvals
\* (StackLanding!MergedPassedTheGates), as long as neither is ever taken back.
THEOREM NothingLandsUngated ==
  ASSUME NothingTakenBack
  PROVE  Spec => []MergedPassedTheGates
<1>1. Init => GateInv
  BY DEF Init, GateInv, Idle, LandPC
<1>2. TypeOK /\ GateInv /\ [Next]_vars => GateInv'
  BY GateStep
<1>3. GateInv => MergedPassedTheGates
  BY GatesAgreeOnAnyRows DEF GateInv, MergedPassedTheGates, Mergeable, Permitted
<1> QED BY <1>1, <1>2, <1>3, TypeCorrect, PTL DEF Spec
-----------------------------------------------------------------------------
(***************************************************************************)
(* Closing a stack.  The call that closes it looked a step earlier; what it *)
(* saw lasts, since no change that was there at the start becomes open.     *)
(***************************************************************************)

Settled(s) == \A c \in Change \ Late : StackOf[c] = s => status[c] # "open"

ClosingInv ==
  /\ \A c \in Change \ Late : status[c] # "absent"
  /\ \A s \in Stack : stackStatus[s] = "merged" => Settled(s)
  /\ \A p \in Caller :
       call[p].pc = "stack" /\ ~call[p].open => Settled(StackOf[call[p].change])

LEMMA SettledStays ==
  ASSUME TypeOK, ClosingInv, [Next]_vars, NEW s, Settled(s)
  PROVE  Settled(s)'
BY StatusMoves DEF Settled, ClosingInv

\* Who writes a stack's status
LEMMA StackMoves ==
  ASSUME TypeOK, [Next]_vars, NEW s \in Stack, stackStatus'[s] # stackStatus[s]
  PROVE  /\ stackStatus'[s] = "merged"
         /\ \E p \in Caller : /\ call[p].pc = "stack" /\ ~call[p].open
                              /\ StackOf[call[p].change] = s
<1>1. \/ \E p \in Caller : UpdateStack(p)
      \/ UNCHANGED stackStatus
  BY DEF Next, CallStep, Environment, vars, rowVars, StartMergeChange, GateOnChecks,
         GateOnProtection, GateOnParent, ResolveBase, LandInBackend, ResolveTip, WriteRef,
         MarkMerged, ReadRemaining, Reply, Crash, CreateChange, AbandonChange,
         AmendChange, ReportCheck, Approve, DismissApproval, PushToBase
<1> QED BY <1>1 DEF UpdateStack, TypeOK

LEMMA ClosingStep ==
  ASSUME TypeOK, ClosingInv, [Next]_vars
  PROVE  ClosingInv'
<1>1. ASSUME NEW c \in Change \ Late PROVE status'[c] # "absent"
  BY StatusMoves DEF ClosingInv
<1>2. ASSUME NEW s \in Stack, stackStatus'[s] = "merged" PROVE Settled(s)'
  <2>1. Settled(s)
    BY <1>2, StackMoves DEF ClosingInv
  <2> QED BY <2>1, SettledStays
<1>3. ASSUME NEW p \in Caller, call'[p].pc = "stack", ~call'[p].open,
             NEW s \in Stack, s = StackOf[call'[p].change]
      PROVE  Settled(s)'
  <2>1. CASE call'[p] = call[p]
    <3>1. Settled(s) BY <1>3, <2>1 DEF ClosingInv
    <3> QED BY <3>1, SettledStays
  <2>2. CASE ~StackOpen(s) /\ status' = status
    BY <2>2 DEF Settled, StackOpen
  <2> QED BY <1>3, <2>1, <2>2, CallMoves DEF Moves, Edge
<1>4. ASSUME NEW p \in Caller, call'[p].pc = "stack", ~call'[p].open
      PROVE  \A c \in Change \ Late :
               StackOf[c] = StackOf[call'[p].change] => status'[c] # "open"
  <2>1. call'[p].change \in Change
    BY <1>4, TypeStep, LandShape DEF TypeOK, LandPC, Running
  <2>2. StackOf[call'[p].change] \in Stack BY <2>1, LandingAssumption
  <2> QED BY <1>3, <1>4, <2>2 DEF Settled
<1> QED BY <1>1, <1>2, <1>4 DEF ClosingInv, Settled

\* No stack is closed over a change that is still open
\* (StackLanding!ClosedStackIsSettled), however many calls finish together and
\* wherever one of them dies.
THEOREM StacksCloseSettled == Spec => []ClosedStackIsSettled
<1>1. Init => ClosingInv
  BY DEF Init, ClosingInv, Settled, Idle
<1>2. TypeOK /\ ClosingInv /\ [Next]_vars => ClosingInv'
  BY ClosingStep
<1>3. ClosingInv => ClosedStackIsSettled
  BY LandingAssumption DEF ClosingInv, Settled, ClosedStackIsSettled
<1> QED BY <1>1, <1>2, <1>3, TypeCorrect, PTL DEF Spec
-----------------------------------------------------------------------------
(***************************************************************************)
(* A stack that has landed is closed.  From the moment its last change is  *)
(* recorded some call is on its way to close it: the call that recorded    *)
(* the change, or one that read later than that.                           *)
(***************************************************************************)

HasLanded(s) == /\ \E c \in Change : StackOf[c] = s
                /\ \A c \in Change : StackOf[c] = s => status[c] = "merged"

WillClose(p, s) ==
  /\ call[p].pc = "remaining" \/ (call[p].pc = "stack" /\ ~call[p].open)
  /\ StackOf[call[p].change] = s

LandedInv ==
  \A s \in Stack : HasLanded(s) /\ stackStatus[s] # "merged" =>
    \E p \in Caller : WillClose(p, s)

\* A step of one call leaves the others where they are.
LEMMA OthersStay ==
  ASSUME TypeOK, NEW q \in Caller, NEW p \in Caller, p # q,
         \/ \E c \in Change : StartMergeChange(q, c)
         \/ CallStep(q) \/ Reply(q) \/ Crash(q)
  PROVE  call'[p] = call[p]
<1>1. ASSUME NEW pc, Goto(q, pc) PROVE call'[p] = call[p]
  BY <1>1 DEF Goto, TypeOK
<1>2. ASSUME NEW c, NEW r, Return(q, c, r) PROVE call'[p] = call[p]
  BY <1>2 DEF Return, TypeOK
<1>3. CASE \E c \in Change : StartMergeChange(q, c)
  <2>1. PICK c \in Change : StartMergeChange(q, c) BY <1>3
  <2>2. \/ Return(q, c, "not-found")
        \/ Return(q, c, "not-open")
        \/ \E first : call' = [call EXCEPT ![q] = first]
    BY <2>1 DEF StartMergeChange
  <2> QED BY <1>2, <2>2 DEF TypeOK
<1>4. CASE \/ GateOnChecks(q) \/ GateOnProtection(q) \/ GateOnParent(q)
           \/ ResolveBase(q) \/ LandInBackend(q) \/ WriteRef(q) \/ MarkMerged(q)
  <2>1. (\E pc : Goto(q, pc)) \/ (\E c, r : Return(q, c, r))
    BY <1>4 DEF GateOnChecks, GateOnProtection, GateOnParent, ResolveBase,
                LandInBackend, WriteRef, MarkMerged
  <2> QED BY <1>1, <1>2, <2>1
<1>5. CASE ResolveTip(q)
  <2>1. \/ Goto(q, "mark")
        \/ call' = [call EXCEPT ![q].pc = "write", ![q].tip = branch]
        \/ Return(q, call[q].change, "git-error")
    BY <1>5 DEF ResolveTip
  <2> QED BY <1>1, <1>2, <2>1 DEF TypeOK
<1>6. CASE ReadRemaining(q) \/ Reply(q) \/ Crash(q)
  BY <1>6 DEF ReadRemaining, Reply, Crash, TypeOK
<1>7. CASE UpdateStack(q)
  BY <1>2, <1>7 DEF UpdateStack
<1> QED BY <1>3, <1>4, <1>5, <1>6, <1>7 DEF CallStep

\* A call on its way to close its stack goes on or closes it.
LEMMA ClosingMoves ==
  ASSUME TypeOK, ~Crashes, [Next]_vars, NEW p \in Caller, NEW s \in Stack,
         HasLanded(s), WillClose(p, s)
  PROVE  WillClose(p, s)' \/ stackStatus'[s] = "merged"
<1>1. CASE call'[p] = call[p]
  BY <1>1 DEF WillClose
<1>2. CASE ReadRemaining(p)
  <2>1. call[p] \in Running(LandPC, Commit)
    BY <1>2, LandShape DEF ReadRemaining, LandPC, TypeOK
  <2>2. ~StackOpen(s) BY DEF HasLanded, StackOpen
  <2>3. StackOf[call[p].change] = s BY DEF WillClose
  <2>4. call' = [call EXCEPT ![p] = [call[p] EXCEPT
                   !.pc = "stack", !.open = StackOpen(s)]]
    BY <1>2, <2>3 DEF ReadRemaining, StackOpen
  <2>5. /\ call'[p].pc = "stack" /\ call'[p].open = StackOpen(s)
        /\ call'[p].change = call[p].change
    BY <2>1, <2>4 DEF Running, TypeOK
  <2> QED BY <2>2, <2>3, <2>5 DEF WillClose
<1>3. CASE UpdateStack(p)
  BY <1>3 DEF UpdateStack, WillClose, TypeOK
<1>4. CASE /\ call'[p] # call[p]
           /\ ~ReadRemaining(p) /\ ~UpdateStack(p)
  <2>1. \/ \E q \in Caller : \/ \E c \in Change : StartMergeChange(q, c)
                             \/ CallStep(q) \/ Reply(q) \/ Crash(q)
        \/ UNCHANGED call
    BY DEF Next, Environment, CreateChange, AbandonChange, AmendChange, ReportCheck,
           Approve, DismissApproval, PushToBase, vars
  <2>2. PICK q \in Caller : \/ \E c \in Change : StartMergeChange(q, c)
                            \/ CallStep(q) \/ Reply(q) \/ Crash(q)
    BY <1>4, <2>1
  <2>3. q = p BY <1>4, <2>2, OthersStay
  <2>4. call[p].pc \in {"remaining", "stack"} BY DEF WillClose
  <2> QED BY <1>4, <2>2, <2>3, <2>4
        DEF CallStep, StartMergeChange, GateOnChecks, GateOnProtection, GateOnParent,
            ResolveBase, LandInBackend, ResolveTip, WriteRef, MarkMerged, Reply, Crash
<1> QED BY <1>1, <1>2, <1>3, <1>4

LEMMA LandedStep ==
  ASSUME TypeOK, ~Crashes, LandedInv, [Next]_vars
  PROVE  LandedInv'
<1> SUFFICES ASSUME NEW s \in Stack, HasLanded(s)', stackStatus'[s] # "merged"
             PROVE  \E p \in Caller : WillClose(p, s)'
  BY DEF LandedInv
<1>1. CASE HasLanded(s)
  <2>1. stackStatus[s] # "merged"
    BY StackMoves
  <2>2. PICK p \in Caller : WillClose(p, s) BY <1>1, <2>1 DEF LandedInv
  <2> QED BY <1>1, <2>2, ClosingMoves
<1>2. CASE ~HasLanded(s)
  <2>1. PICK c \in Change : StackOf[c] = s /\ status[c] # "merged"
    BY <1>2 DEF HasLanded
  <2>2. status'[c] = "merged" BY <2>1 DEF HasLanded
  <2>3. PICK p \in Caller : MarkMerged(p) /\ call[p].change = c
    <3>1. PICK p \in Caller : MarkMerged(p)
      BY <2>1, <2>2, StatusWriters DEF CreateChange, AbandonChange, TypeOK
    <3>2. call[p].change = c BY <2>1, <2>2, <3>1 DEF MarkMerged, TypeOK
    <3> QED BY <3>1, <3>2
  <2>4. call'[p].pc = "remaining" /\ call'[p].change = c
    BY <2>3, GotoMoves DEF MarkMerged, LandPC
  <2> QED BY <2>1, <2>4 DEF WillClose
<1> QED BY <1>1, <1>2

\* When every change of a stack has landed and nobody is landing, the stack is
\* closed (StackLanding!LandedStackIsClosed), however many calls raced for the
\* last change, as long as none of them died.
THEOREM LandedStacksClose ==
  ASSUME ~Crashes
  PROVE  Spec => []LandedStackIsClosed
<1>1. Init => LandedInv
  BY LandingAssumption DEF Init, LandedInv, HasLanded
<1>2. TypeOK /\ LandedInv /\ [Next]_vars => LandedInv'
  BY LandedStep
<1>3. LandedInv => LandedStackIsClosed
  BY DEF LandedInv, LandedStackIsClosed, HasLanded, WillClose, Quiet
<1> QED BY <1>1, <1>2, <1>3, TypeCorrect, PTL DEF Spec
=============================================================================
