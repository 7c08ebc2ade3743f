---------------------------- MODULE MCPullRequest ----------------------------
(***************************************************************************)
(* Instances of PullRequest.  topic is amended from t1 to t2, both made on *)
(* main's root: whichever merges first, the other needs a merge commit.    *)
(***************************************************************************)
EXTENDS PullRequest, TLC

CONSTANTS b0, t1, t2, main, topic

AllCommits == {b0, t1, t2}
AllReach == (b0 :> {b0}) @@ (t1 :> {b0, t1}) @@ (t2 :> {b0, t2})
Tips == (main :> b0) @@ (topic :> t1)
SourcePushes == (main :> {}) @@ (topic :> {t2})
=============================================================================
