----------------------------- MODULE MergeQueue -----------------------------
(***************************************************************************)
(* The merge queue of a repository (mergeQueueService): enqueueStack and   *)
(* processQueue, on top of the landings of StackLanding.                   *)
(*                                                                         *)
(* Nothing schedules passes and nothing keeps two from overlapping: each   *)
(* is a GraphQL mutation a client sends.  A caller runs one job at a time: *)
(* an enqueue, a pass, or a mergeChange mutation of its own.               *)
(***************************************************************************)
EXTENDS StackLanding, Sequences

CONSTANTS
  Enqueuer, Passer, Lander,  \* callers that send each of the three mutations
  Position,                  \* Change -> Nat, bottom-up order within a stack
  NoStack,                   \* stackId of a pull request entry
  InitialQueue,              \* rows other clients left in the table
  MaxEntries                 \* bound on the rows of the table

ASSUME QueueAssumption ==
  /\ IsFiniteSet(Caller)
  /\ Enqueuer \subseteq Caller /\ Passer \subseteq Caller /\ Lander \subseteq Caller
  /\ Position \in [Change -> Nat]
  /\ NoStack \notin Stack
  /\ MaxEntries \in Nat

VARIABLES
  queue,   \* merge_queue_entry rows, in order of insertion
  job      \* the enqueue or the pass each caller is running

queueVars == <<queue, job>>
mqVars == <<vars, queueVars>>

EntryState == {"queued", "testing", "optimistic", "merged", "evicted"}
ACTIVE_ENTRY_STATES == {"queued", "testing", "optimistic"}

Entry == [stack : Stack \cup {NoStack}, state : EntryState, position : Nat]

\* Whatever is in the table at the start is still to be processed.
ASSUME InitialQueueAssumption ==
  /\ InitialQueue \in Seq(Entry) /\ Len(InitialQueue) <= MaxEntries
  /\ \A e \in DOMAIN InitialQueue : InitialQueue[e].state \in ACTIVE_ENTRY_STATES

NoJob == [pc |-> "none"]

Job == {NoJob}
       \cup [pc : {"max"}, stack : Stack]
       \cup [pc : {"insert"}, stack : Stack, position : Nat]
       \cup [pc : {"entries"}, entries : SUBSET (1..MaxEntries)]
       \cup [pc : {"changes", "classify", "evict"}, entries : SUBSET (1..MaxEntries),
             entry : 1..MaxEntries, changes : SUBSET Change]

QueueTypeOK ==
  /\ TypeOK
  /\ queue \in Seq(Entry) /\ Len(queue) <= MaxEntries
  /\ job \in [Caller -> Job]

QueueInit == /\ Init
             /\ queue = InitialQueue
             /\ job = [p \in Caller |-> NoJob]

SetJob(p, j) == job' = [job EXCEPT ![p] = j]

Rows == DOMAIN queue

-----------------------------------------------------------------------------
\* mergeQueueService.enqueueStack: look for an active entry, read the last
\* position, insert

\* Mutant: a queued entry is not looked for
StartedEntry(s) ==
  \E e \in Rows : queue[e].stack = s /\ queue[e].state \in {"testing", "optimistic"}

ActiveEntry(s) ==
  \E e \in Rows : queue[e].stack = s /\ queue[e].state \in ACTIVE_ENTRY_STATES

\* With an active entry the call answers with it and changes nothing.
StartEnqueue(p, s) ==
  /\ job[p].pc = "none" /\ call[p].pc = "idle"
  /\ Len(queue) + Cardinality({q \in Caller : job[q].pc \in {"max", "insert"}}) < MaxEntries
  /\ ~ActiveEntry(s)
  /\ SetJob(p, [pc |-> "max", stack |-> s])
  /\ UNCHANGED <<vars, queue>>

NextPosition ==
  IF Rows = {} THEN 0
  ELSE 1 + (CHOOSE m \in {queue[e].position : e \in Rows} :
              \A e \in Rows : queue[e].position <= m)

ReadMaxPosition(p) ==
  /\ job[p].pc = "max"
  /\ SetJob(p, [pc |-> "insert", stack |-> job[p].stack, position |-> NextPosition])
  /\ UNCHANGED <<vars, queue>>

InsertEntry(p) ==
  /\ job[p].pc = "insert"
  /\ queue' = Append(queue, [stack |-> job[p].stack, state |-> "queued",
                             position |-> job[p].position])
  /\ SetJob(p, NoJob)
  /\ UNCHANGED vars

-----------------------------------------------------------------------------
\* mergeQueueService.processQueue

Lowest(set, rank(_)) == {x \in set : \A y \in set : rank(x) <= rank(y)}

\* Mutant: evicted entries are read too
StartPassOverAll(p) ==
  /\ job[p].pc = "none" /\ call[p].pc = "idle"
  /\ SetJob(p, [pc |-> "entries",
                entries |-> {e \in Rows : queue[e].state # "merged"}])
  /\ UNCHANGED <<vars, queue>>

\* The queued entries are read once, ordered by position.
StartPass(p) ==
  /\ job[p].pc = "none" /\ call[p].pc = "idle"
  /\ SetJob(p, [pc |-> "entries",
                entries |-> {e \in Rows : queue[e].state = "queued"}])
  /\ UNCHANGED <<vars, queue>>

\* Mutant: the loop does not move past a pull request entry
StayAtEntry(p) ==
  /\ job[p].pc = "entries"
  /\ \E e \in Lowest(job[p].entries, LAMBDA x : queue[x].position) :
       queue[e].stack = NoStack
  /\ UNCHANGED mqVars

\* A pull request entry is skipped.
SkipEntry(p) ==
  /\ job[p].pc = "entries"
  /\ \E e \in Lowest(job[p].entries, LAMBDA x : queue[x].position) :
       /\ queue[e].stack = NoStack
       /\ SetJob(p, [job[p] EXCEPT !.entries = @ \ {e}])
  /\ UNCHANGED <<vars, queue>>

\* The stack's changes are read once per entry; those already landed or dropped
\* are passed over.
TakeEntry(p) ==
  /\ job[p].pc = "entries"
  /\ \E e \in Lowest(job[p].entries, LAMBDA x : queue[x].position) :
       /\ queue[e].stack # NoStack
       /\ SetJob(p, [pc |-> "changes", entries |-> job[p].entries \ {e}, entry |-> e,
                     changes |-> {c \in Change : /\ StackOf[c] = queue[e].stack
                                                 /\ status[c] = "open"}])
  /\ UNCHANGED <<vars, queue>>

EndPass(p) ==
  /\ job[p].pc = "entries" /\ job[p].entries = {}
  /\ SetJob(p, NoJob)
  /\ UNCHANGED <<vars, queue>>

\* Bottom-up, one mergeChange at a time
LandNext(p) ==
  /\ job[p].pc = "changes" /\ call[p].pc = "idle"
  /\ \E c \in Lowest(job[p].changes, LAMBDA x : Position[x]) : StartMergeChange(p, c)
  /\ UNCHANGED queueVars

LeaveEntry(p) == SetJob(p, [pc |-> "entries", entries |-> job[p].entries])

\* Mutant: a change that is refused is passed over
PassOverRefused(p) ==
  /\ job[p].pc = "changes" /\ call[p].pc = "done"
  /\ SetJob(p, [job[p] EXCEPT !.changes = @ \ {call[p].change}])
  /\ call' = [call EXCEPT ![p] = Idle]
  /\ UNCHANGED <<rowVars, branch, queue>>

\* An ok outcome moves to the next change.  Any other stops the entry; only
\* not-mergeable can lead to an eviction.
TakeOutcome(p) ==
  LET c == call[p].change
  IN  /\ job[p].pc = "changes" /\ call[p].pc = "done"
      /\ CASE call[p].outcome = "ok" ->
                SetJob(p, [job[p] EXCEPT !.changes = @ \ {c}])
           [] call[p].outcome = "not-mergeable" ->
                SetJob(p, [job[p] EXCEPT !.pc = "classify", !.changes = {c}])
           [] OTHER -> LeaveEntry(p)
      /\ call' = [call EXCEPT ![p] = Idle]
      /\ UNCHANGED <<rowVars, branch, queue>>

\* Mutant: no gate block evicts
NeverEvict(p) == /\ job[p].pc = "classify"
                 /\ LeaveEntry(p)
                 /\ UNCHANGED <<vars, queue>>

\* The checks of the blocking change are read again.
classifyBlockingChangeGate(p) ==
  /\ job[p].pc = "classify"
  /\ IF \E c \in job[p].changes : classifyRequiredChecks(checks[c]) = "failed"
       THEN SetJob(p, [job[p] EXCEPT !.pc = "evict"])
       ELSE LeaveEntry(p)
  /\ UNCHANGED <<vars, queue>>

\* Entries are updated by id, whatever their state is by now.
EvictEntry(p) ==
  /\ job[p].pc = "evict"
  /\ queue' = [queue EXCEPT ![job[p].entry].state = "evicted"]
  /\ LeaveEntry(p)
  /\ UNCHANGED vars

RetireEntry(p) ==
  /\ job[p].pc = "changes" /\ call[p].pc = "idle" /\ job[p].changes = {}
  /\ queue' = [queue EXCEPT ![job[p].entry].state = "merged"]
  /\ LeaveEntry(p)
  /\ UNCHANGED vars

PassStep(p) ==
  \/ SkipEntry(p) \/ TakeEntry(p) \/ EndPass(p)
  \/ LandNext(p) \/ TakeOutcome(p)
  \/ classifyBlockingChangeGate(p) \/ EvictEntry(p) \/ RetireEntry(p)

-----------------------------------------------------------------------------

QueueCrash(p) == /\ Crashes
                 /\ job[p].pc # "none" \/ call[p].pc # "idle"
                 /\ job' = [job EXCEPT ![p] = NoJob]
                 /\ call' = [call EXCEPT ![p] = Idle]
                 /\ UNCHANGED <<rowVars, branch, queue>>

JobStep(p) == \/ ReadMaxPosition(p) \/ InsertEntry(p)
              \/ PassStep(p)
              \/ CallStep(p) /\ UNCHANGED queueVars

\* A mergeChange mutation sent directly, outside any pass
DirectLanding(p) ==
  /\ job[p].pc = "none"
  /\ (\E c \in Change : StartMergeChange(p, c)) \/ Reply(p)
  /\ UNCHANGED queueVars

QueueNext ==
  \/ \E p \in Caller : JobStep(p) \/ QueueCrash(p)
  \/ \E p \in Enqueuer, s \in Stack : StartEnqueue(p, s)
  \/ \E p \in Passer : StartPass(p)
  \/ \E p \in Lander : DirectLanding(p)
  \/ Environment /\ UNCHANGED queueVars

QueueSpec == QueueInit /\ [][QueueNext]_mqVars

\* A started job goes on: the event loop resumes it after every await.
JobsProgress == \A p \in Caller : WF_mqVars(JobStep(p))

\* Some client keeps sending the mutations; the code itself never does.
ClientsKeepAsking == \A p \in Passer : WF_mqVars(StartPass(p))

CIReports == \A c \in Change, n \in CheckName :
  WF_mqVars((\E s \in CheckStatus : ReportCheck(c, n, s)) /\ UNCHANGED queueVars)

\* Every change gets a commit, and the repository and the git backend do not
\* fail every time they are asked.
AuthorsCommit == \A c \in Change :
  WF_mqVars(/\ commit[c] = NoCommit
            /\ \E o \in CommitsOf[c] : AmendChange(c, o)
            /\ UNCHANGED queueVars)

BackendRecovers == \A p \in Caller :
  /\ SF_mqVars(ResolveBase(p) /\ call'[p].pc = "land" /\ UNCHANGED queueVars)
  /\ SF_mqVars(LandInBackend(p) /\ call'[p].pc = "mark" /\ UNCHANGED queueVars)

FairJobs == QueueSpec /\ JobsProgress

LiveSpec == /\ FairJobs
            /\ ClientsKeepAsking /\ CIReports /\ AuthorsCommit /\ BackendRecovers

-----------------------------------------------------------------------------
\* Properties

\* "That existing entry is returned instead of inserting a duplicate"
\* (mergeQueue.service.ts, enqueueStack): a stack has at most one active entry.
\* Holds while enqueues do not overlap.
AtMostOneActiveEntry ==
  \A d, e \in Rows : /\ queue[d].stack = queue[e].stack /\ queue[d].stack # NoStack
                     /\ {queue[d].state, queue[e].state} \subseteq ACTIVE_ENTRY_STATES
                     => d = e

\* An entry is only merged when no change of its stack that was there when the
\* pass looked is open: every one landed or was dropped, in this pass or in
\* another that overlapped (mergeQueue.service.ts, processQueue).
MergedEntryIsSettled ==
  \A e \in Rows : queue[e].state = "merged" =>
    \A c \in Change \ Late : StackOf[c] = queue[e].stack => status[c] # "open"

\* While CI takes no failure back, an evicted entry has a change with a failed
\* required check: neither a pending check nor a transient reason evicts
\* (mergeQueue.service.ts, "never evicted").
EvictedHasAFailure ==
  \A e \in Rows : queue[e].state = "evicted" =>
    \E c \in Change : /\ StackOf[c] = queue[e].stack
                      /\ classifyRequiredChecks(checks[c]) = "failed"

\* No entry leaves the queue for the wrong reason, whatever passes, landings, drops
\* and crashes overlap: merged only over a settled stack, evicted only for a failed
\* check (mergeQueue.service.ts, processQueue).
EntriesLeaveForCause == MergedEntryIsSettled /\ EvictedHasAFailure

\* An entry that was merged or evicted keeps its state: only queued entries are
\* taken up (mergeQueue.service.ts, processQueue).  Holds while passes do not
\* overlap.
TerminalStatesAreFinal ==
  [][ \A e \in Rows : queue[e].state \in {"merged", "evicted"} =>
        queue'[e].state = queue[e].state ]_mqVars

\* Every enqueue and every pass comes to its end, whatever it meets.
JobsEnd == \A p \in Caller : (job[p].pc # "none") ~> (job[p].pc = "none")

\* A queued entry leaves the queue, landed or evicted, when nothing but its
\* checks stands in its way and clients keep sending passes.
QueuedEntriesLeave ==
  \A e \in 1..MaxEntries :
    (e \in Rows /\ queue[e].state = "queued" /\ queue[e].stack # NoStack)
      ~> (e \in Rows /\ queue[e].state # "queued")
=============================================================================
