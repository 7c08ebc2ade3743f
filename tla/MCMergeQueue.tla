---------------------------- MODULE MCMergeQueue ----------------------------
(***************************************************************************)
(* Instances of MergeQueue, over the stacks of MCStackLanding.             *)
(***************************************************************************)
EXTENDS MergeQueue, MCStackLanding

AllPosition == [c \in Change |-> IF c = c2 THEN 1 ELSE 0]

EmptyQueue == <<>>
OneEntry == <<[stack |-> s1, state |-> "queued", position |-> 0]>>
WithPullRequest == <<[stack |-> NoStack, state |-> "queued", position |-> 0],
                     [stack |-> s1, state |-> "queued", position |-> 1]>>
=============================================================================
