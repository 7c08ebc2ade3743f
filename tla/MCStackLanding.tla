--------------------------- MODULE MCStackLanding ---------------------------
(***************************************************************************)
(* Instances of StackLanding.  Stack s1 is c1 <- c2; c3 shares the base    *)
(* branch from stack s2.  c2's commit was made on top of c1's first one;   *)
(* c1 may be amended to o1b.                                               *)
(***************************************************************************)
EXTENDS StackLanding, TLC

CONSTANTS c1, c2, c3, s1, s2, b0, o1, o1b, o2, o3, x1, r1, r2, none, main

OneStack == {c1, c2}
TwoStacks == {c1, c3}
AllStacks == {s1, s2}
AllStackOf == (c1 :> s1) @@ (c2 :> s1) @@ (c3 :> s2)
AllParentOf == (c1 :> none) @@ (c2 :> c1) @@ (c3 :> none)
AllCommits == {b0, o1, o1b, o2, o3, x1}
AllCommitsOf == (c1 :> {o1, o1b}) @@ (c2 :> {o2}) @@ (c3 :> {o3})
AllReach == (b0 :> {b0}) @@ (o1 :> {b0, o1}) @@ (o1b :> {b0, o1b})
            @@ (o2 :> {b0, o1, o2}) @@ (o3 :> {b0, o3}) @@ (x1 :> {b0, x1})

\* The constants of an instance that has some of the changes
OneStackOf == [c \in OneStack |-> AllStackOf[c]]
OneParentOf == [c \in OneStack |-> AllParentOf[c]]
OneCommitsOf == [c \in OneStack |-> AllCommitsOf[c]]
FixedCommitsOf == (c1 :> {o1}) @@ (c2 :> {o2})
TwoStackOf == [c \in TwoStacks |-> AllStackOf[c]]
TwoParentOf == [c \in TwoStacks |-> AllParentOf[c]]
TwoCommitsOf == (c1 :> {o1}) @@ (c3 :> {o3})

\* CI reruns, and may take back what it reported
RerunFlow == {<<"pending", "passed">>, <<"pending", "failed">>, <<"failed", "passed">>,
              <<"passed", "failed">>}
\* CI reports once
FinalFlow == {<<"pending", "passed">>, <<"pending", "failed">>}
GreenFlow == {<<"pending", "passed">>}

\* The base branch asks for two approvals, release branches for one
TwoApprovals == {[refPattern |-> {main}, requiredApprovals |-> 2, requirePassingChecks |-> TRUE],
                 [refPattern |-> {"release"}, requiredApprovals |-> 1, requirePassingChecks |-> FALSE]}
OneApproval == {[refPattern |-> {main}, requiredApprovals |-> 1, requirePassingChecks |-> TRUE]}

Callers == Permutations(Caller)

\* What let a change through is not withdrawn once a call for it is under way: CI and
\* reviewers turn to changes nobody is landing and that have not landed.
Steady ==
  \A c \in Change :
    status[c] = "merged" \/ (\E p \in Caller : call[p].pc # "idle" /\ call[p].change = c)
      => /\ approvals[c] \subseteq approvals'[c]
         /\ \A n \in CheckName :
              checks[c][n].status = "passed" => checks'[c][n].status = "passed"

NextSteady == Next /\ Steady
SteadySpec == Init /\ [][NextSteady]_vars
=============================================================================
