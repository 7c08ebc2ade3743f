---------------------------- MODULE MCQueueGate ----------------------------
(***************************************************************************)
(* Enumerates the inputs of the gate decisions.  Every reachable state is  *)
(* a set of check rows, protection rules and an approval count that the    *)
(* generated CRUD mutations can produce, one row write per step.           *)
(***************************************************************************)
EXTENDS QueueGate, FiniteSets, FiniteSetsExt, Naturals

CONSTANTS CheckName,     \* names of verification checks
          Branch,        \* branch names
          Target,        \* the branch a change lands on
          MaxApprovals   \* bound on approvals, and on what a rule may ask

ASSUME GateBounds == Target \in Branch /\ MaxApprovals \in Nat

Rule == [refPattern : SUBSET Branch, requiredApprovals : 0..MaxApprovals,
         requirePassingChecks : BOOLEAN]

VARIABLES checks, rules, approvals

vars == <<checks, rules, approvals>>

Init == /\ checks = [n \in {} |-> {}]
        /\ rules = {}
        /\ approvals = 0

WriteCheck(n, row) ==
  /\ checks' = [m \in DOMAIN checks \cup {n} |-> IF m = n THEN row ELSE checks[m]]
  /\ UNCHANGED <<rules, approvals>>

\* At most two rules: two that overlap are what "the strictest applies" is about
CreateRule(r) == /\ Cardinality(rules) < 2
                 /\ rules' = rules \cup {r}
                 /\ UNCHANGED <<checks, approvals>>

CountApprovals(k) == approvals' = k /\ UNCHANGED <<checks, rules>>

Next == \/ \E n \in CheckName, row \in Check : WriteCheck(n, row)
        \/ \E r \in Rule : CreateRule(r)
        \/ \E k \in 0..MaxApprovals : CountApprovals(k)

Spec == Init /\ [][Next]_vars

verdict == classifyRequiredChecks(checks)

decision == evaluateBranchProtection(rules, Target,
              [approvals |-> approvals, checkVerdict |-> verdict])

-----------------------------------------------------------------------------

\* The queue decides between eviction and retry with one function and between
\* landing and blocking with another, written separately: a change is mergeable
\* (stack.service.ts, computeMergeability) exactly when the queue would call its
\* gate passed (queueGate.ts, classifyRequiredChecks).
GatesAgree == computeMergeability(checks).mergeable <=> verdict = "passed"

\* "The strictest applies": when the target is protected, the decision is that
\* of one rule asking for the most approvals any matching rule asks for, and for
\* green checks when any matching rule does (branchProtection.ts,
\* evaluateBranchProtection).
StrictestRuleApplies ==
  LET matching == {r \in rules : Target \in r.refPattern}
      most     == IF matching = {} THEN 0
                  ELSE Max({r.requiredApprovals : r \in matching})
      green    == \E r \in matching : r.requirePassingChecks
  IN  decision.allowed <=> approvals >= most /\ (green => verdict = "passed")

=============================================================================
