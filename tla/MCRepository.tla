---------------------------- MODULE MCRepository ----------------------------
(***************************************************************************)
(* Instances of Repository.                                                *)
(***************************************************************************)
EXTENDS Repository

CONSTANTS main, dev

PrivateInOrg == {[org |-> TRUE, private |-> TRUE]}
AnyInOrg == PrivateInOrg \cup {[org |-> TRUE, private |-> FALSE]}

\* A behaviour looks at the faults, or at the updates and the limit
VARIABLE focus

FaultsOnly == \A r \in Repo : r \in Live' => ~row'[r].patched

LimitOnly == /\ UNCHANGED crashes
             /\ \A p \in Caller : call'[p].pc \notin {"initialize", "updateRow", "readRow"}
             /\ \A x \in Path : store'[x].branches = {}

NextFocus == /\ Next /\ UNCHANGED focus
             /\ focus = "faults" => FaultsOnly
             /\ focus = "limit" => LimitOnly

InitFocus == Init /\ focus \in {"faults", "limit"}

SpecFocus == InitFocus /\ [][NextFocus]_<<vars, focus>> /\ Fairness
=============================================================================
