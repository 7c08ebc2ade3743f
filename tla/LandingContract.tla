--------------------------- MODULE LandingContract ---------------------------
(***************************************************************************)
(* What landing stacked changes promises, without calls, gates or git: the *)
(* base branch only grows, and a change is recorded merged only once the   *)
(* branch holds a commit of it and its parent is recorded merged.          *)
(*                                                                         *)
(* StackLanding implements this when the backend lands atomically: see     *)
(* StackLanding!Contract.                                                  *)
(***************************************************************************)
CONSTANTS Change, ParentOf, NoParent, CommitsOf, Base

VARIABLES status,  \* change.status
          branch   \* commits reachable from the base branch

vars == <<status, branch>>

Init == /\ status \in [Change -> {"absent", "open"}]
        /\ branch = Base

Create(c) == /\ status[c] = "absent"
             /\ status' = [status EXCEPT ![c] = "open"]
             /\ UNCHANGED branch

Abandon(c) == /\ status[c] = "open"
              /\ status' = [status EXCEPT ![c] = "abandoned"]
              /\ UNCHANGED branch

\* Commits arrive: a landing or a push
Advance == /\ branch \subseteq branch'
           /\ UNCHANGED status

\* The landing of c is recorded.  A change dropped while it was landing is
\* recorded merged too: its commit is on the branch.
Record(c) == /\ status[c] \in {"open", "merged", "abandoned"}
             /\ CommitsOf[c] \cap branch # {}
             /\ ParentOf[c] = NoParent \/ status[ParentOf[c]] = "merged"
             /\ status' = [status EXCEPT ![c] = "merged"]
             /\ UNCHANGED branch

Next == \/ \E c \in Change : Create(c) \/ Abandon(c) \/ Record(c)
        \/ Advance

Spec == Init /\ [][Next]_vars
=============================================================================
