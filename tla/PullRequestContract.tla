------------------------ MODULE PullRequestContract ------------------------
(***************************************************************************)
(* What pull requests promise, without calls or git: a merged request is   *)
(* terminal and names a commit of the target branch, which only grows.     *)
(*                                                                         *)
(* PullRequest implements this while one client at a time merges: see      *)
(* PullRequest!Contract.                                                   *)
(***************************************************************************)
CONSTANTS Request, NoCommit

VARIABLES state,   \* pull_request.state, "absent" or "deleted" without a row
          sha,     \* pull_request.mergeCommitSha
          target   \* commits reachable from the target branch

vars == <<state, sha, target>>

Unmerged == {"open", "draft", "closed"}

Init == /\ state \in [Request -> {"absent"} \cup Unmerged]
        /\ sha = [r \in Request |-> NoCommit]

Open(r) == /\ state[r] = "absent"
           /\ \E s \in Unmerged : state' = [state EXCEPT ![r] = s]
           /\ UNCHANGED <<sha, target>>

\* Close, reopen, draft and undraft
Move(r) == /\ state[r] \in Unmerged
           /\ \E s \in Unmerged : state' = [state EXCEPT ![r] = s]
           /\ UNCHANGED <<sha, target>>

Remove(r) == /\ state[r] \in Unmerged \cup {"merged"}
             /\ state' = [state EXCEPT ![r] = "deleted"]
             /\ sha' = [sha EXCEPT ![r] = NoCommit]
             /\ UNCHANGED target

Merge(r) == /\ state[r] \in Unmerged \cup {"merged"}
            /\ \E c \in target : sha' = [sha EXCEPT ![r] = c]
            /\ state' = [state EXCEPT ![r] = "merged"]
            /\ UNCHANGED target

Advance == /\ target \subseteq target'
           /\ UNCHANGED <<state, sha>>

Next == \/ \E r \in Request : Open(r) \/ Move(r) \/ Remove(r) \/ Merge(r)
        \/ Advance

Spec == Init /\ [][Next]_vars
=============================================================================
