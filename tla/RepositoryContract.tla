------------------------ MODULE RepositoryContract ------------------------
(***************************************************************************)
(* What the owner of repositories is promised: a repository starts empty,  *)
(* gains a branch by each push, keeps every one of them under whatever     *)
(* name, and loses them only by being deleted.                             *)
(***************************************************************************)
CONSTANTS Repo, Branch

VARIABLES life,  \* Repo -> "absent", "live", "deleted"
          work   \* Repo -> branches pushed to it

ContractInit == /\ life = [r \in Repo |-> "absent"]
                /\ work = [r \in Repo |-> {}]

Appear(r) == /\ life[r] = "absent"
             /\ life' = [life EXCEPT ![r] = "live"]
             /\ UNCHANGED work

Gain(r, b) == /\ life[r] = "live"
              /\ work' = [work EXCEPT ![r] = @ \cup {b}]
              /\ UNCHANGED life

Remove(r) == /\ life[r] = "live"
             /\ life' = [life EXCEPT ![r] = "deleted"]
             /\ work' = [work EXCEPT ![r] = {}]

ContractNext ==
  \E r \in Repo : \/ Appear(r)
                  \/ \E b \in Branch : Gain(r, b)
                  \/ Remove(r)

ContractSpec == ContractInit /\ [][ContractNext]_<<life, work>>
=============================================================================
