-------------------------- MODULE MergeQueueProofs --------------------------
(***************************************************************************)
(* Theorems about MergeQueue, for every queue and every set of callers.    *)
(***************************************************************************)
EXTENDS MergeQueue, StackLandingProofs, SequenceTheorems, WellFoundedInduction

\* A finite set of numbers that is not empty has a largest one: of the subsets
\* that have none, a smallest one would still have one after an element is removed.
LEMMA LargestExists ==
  ASSUME NEW S \in SUBSET Nat, IsFiniteSet(S), S # {}
  PROVE  \E m \in S : \A x \in S : x <= m
<1> DEFINE HasLargest(U) == \E m \in U : \A x \in U : x <= m
           Without == {U \in FiniteSubsetsOf(S) : U # {} /\ ~HasLargest(U)}
<1> SUFFICES ASSUME ~HasLargest(S) PROVE FALSE
  OBVIOUS
<1>1. S \in Without BY DEF FiniteSubsetsOf
<1>2. PICK U \in Without :
        \A V \in Without : <<V, U>> \notin StrictSubsetOrdering(S)
  <2>1. Without \subseteq FiniteSubsetsOf(S) OBVIOUS
  <2> HIDE DEF Without
  <2> QED BY <1>1, <2>1, FS_StrictSubsetOrderingWellFounded, WFMin
<1>3. PICK x \in U : TRUE OBVIOUS
<1>4. /\ U \in SUBSET S /\ IsFiniteSet(U) BY DEF FiniteSubsetsOf
<1>5. U \ {x} \in FiniteSubsetsOf(S) BY <1>4, FS_RemoveElement DEF FiniteSubsetsOf
<1>6. <<U \ {x}, U>> \in StrictSubsetOrdering(S)
  BY <1>3, <1>4 DEF StrictSubsetOrdering
<1>7. U \ {x} = {} \/ HasLargest(U \ {x})
  BY <1>2, <1>5, <1>6
<1>8. CASE U \ {x} = {}
  BY <1>3, <1>4, <1>8
<1>9. CASE HasLargest(U \ {x})
  <2>1. PICK m \in U \ {x} : \A y \in U \ {x} : y <= m BY <1>9
  <2>2. m \in Nat /\ x \in Nat BY <1>3, <1>4
  <2>3. CASE x <= m BY <2>1, <2>3
  <2>4. CASE m <= x
    <3>1. \A y \in U : y \in Nat BY <1>4
    <3>2. \A y \in U : y <= x BY <2>1, <2>2, <2>4, <3>1
    <3> QED BY <1>3, <3>2
  <2> QED BY <2>2, <2>3, <2>4
<1> QED BY <1>7, <1>8, <1>9

-----------------------------------------------------------------------------
(***************************************************************************)
(* Type correctness.  The entries a job works on are rows of the table: a  *)
(* row is never deleted, and never changes its stack.                      *)
(***************************************************************************)

Pending == {q \in Caller : job[q].pc \in {"max", "insert"}}

EntryPC == {"changes", "classify", "evict"}

QueueTypeInv ==
  /\ QueueTypeOK
  /\ Len(queue) + Cardinality(Pending) <= MaxEntries
  /\ \A p \in Caller :
       /\ job[p].pc \in {"entries"} \cup EntryPC => job[p].entries \subseteq Rows
       /\ job[p].pc \in EntryPC =>
            /\ job[p].entry \in Rows
            /\ queue[job[p].entry].stack # NoStack

LEMMA JobShape ==
  ASSUME NEW x \in Job
  PROVE  /\ x.pc \in {"none", "max", "insert", "entries"} \cup EntryPC
         /\ x.pc = "none" => x = NoJob
         /\ x.pc = "max" => x \in [pc : {"max"}, stack : Stack]
         /\ x.pc = "insert" => x \in [pc : {"insert"}, stack : Stack, position : Nat]
         /\ x.pc = "entries" => x \in [pc : {"entries"}, entries : SUBSET (1..MaxEntries)]
         /\ x.pc \in EntryPC =>
              x \in [pc : EntryPC, entries : SUBSET (1..MaxEntries),
                     entry : 1..MaxEntries, changes : SUBSET Change]
BY DEF Job, NoJob, EntryPC

LEMMA RowsAre ==
  ASSUME QueueTypeInv
  PROVE  /\ Rows = 1..Len(queue) /\ Len(queue) \in Nat /\ Rows \subseteq 1..MaxEntries
         /\ \A e \in Rows : queue[e] \in Entry
<1>1. queue \in Seq(Entry) /\ Len(queue) <= MaxEntries
  BY DEF QueueTypeInv, QueueTypeOK
<1>2. Rows = 1..Len(queue) /\ Len(queue) \in Nat
  BY <1>1, LenProperties DEF Rows
<1> QED BY <1>1, <1>2, ElementOfSeq, QueueAssumption

\* Writing the state of a row leaves the other rows and its other columns alone.
LEMMA StateWritten ==
  ASSUME QueueTypeInv, NEW e \in Rows, NEW s \in EntryState,
         queue' = [queue EXCEPT ![e].state = s]
  PROVE  /\ queue' \in Seq(Entry) /\ Len(queue') = Len(queue)
         /\ Rows' = Rows
         /\ queue'[e] = [queue[e] EXCEPT !.state = s]
         /\ queue'[e].state = s
         /\ \A d \in Rows : /\ queue'[d].stack = queue[d].stack
                            /\ queue'[d].position = queue[d].position
                            /\ d # e => queue'[d] = queue[d]
<1> DEFINE row == [queue[e] EXCEPT !.state = s]
<1>1. queue \in Seq(Entry) BY DEF QueueTypeInv, QueueTypeOK
<1>2. e \in 1..Len(queue) /\ queue[e] \in Entry BY RowsAre
<1>3. row \in Entry /\ row.stack = queue[e].stack /\ row.position = queue[e].position
      /\ row.state = s
  BY <1>2 DEF Entry
<1>4. queue' = [queue EXCEPT ![e] = row] OBVIOUS
<1> HIDE DEF row
<1>5. /\ queue' \in Seq(Entry) /\ Len(queue') = Len(queue)
      /\ \A d \in 1..Len(queue) : queue'[d] = IF d = e THEN row ELSE queue[d]
  BY <1>1, <1>2, <1>3, <1>4, ExceptSeq
<1>6. Rows' = Rows
  BY <1>1, <1>5, LenProperties DEF Rows
<1> QED BY <1>2, <1>3, <1>5, <1>6, RowsAre DEF row

LEMMA NextPositionType == QueueTypeInv => NextPosition \in Nat
<1> SUFFICES ASSUME QueueTypeInv, Rows # {} PROVE NextPosition \in Nat
  BY DEF NextPosition
<1> DEFINE Ranks == {queue[e].position : e \in Rows}
<1>1. Ranks \in SUBSET Nat BY RowsAre DEF Entry
<1>2. IsFiniteSet(Ranks)
  <2>1. IsFiniteSet(Rows) BY RowsAre, FS_Interval
  <2>2. DEFINE f == [e \in Rows |-> queue[e].position]
  <2>3. f \in Surjection(Rows, Ranks) BY DEF Surjection
  <2> QED BY <2>1, <2>3, FS_Surjection
<1>3. \E m \in Ranks : \A x \in Ranks : x <= m
  <2>1. Ranks # {} OBVIOUS
  <2> HIDE DEF Ranks
  <2> QED BY <1>1, <1>2, <2>1, LargestExists
<1>4. \E m \in Ranks : \A e \in Rows : queue[e].position <= m
  BY <1>3
<1> DEFINE last == CHOOSE m \in Ranks : \A e \in Rows : queue[e].position <= m
<1>5. NextPosition = 1 + last BY DEF NextPosition
<1>6. last \in Ranks BY <1>4
<1> HIDE DEF last, Ranks
<1>7. last \in Nat BY <1>1, <1>6
<1> QED BY <1>5, <1>7

\* A step that leaves the table alone, where one job at most goes on
LEMMA JobOnlyType ==
  ASSUME QueueTypeInv, TypeOK', UNCHANGED queue, NEW p \in Caller, NEW j \in Job,
         job' = [job EXCEPT ![p] = j],
         j.pc \in {"entries"} \cup EntryPC => j.entries \subseteq Rows,
         j.pc \in EntryPC =>
            /\ j.entry \in Rows
            /\ queue[j.entry].stack # NoStack,
         j.pc \in {"max", "insert"} => p \in Pending
  PROVE  QueueTypeInv'
<1>1. job' \in [Caller -> Job] BY DEF QueueTypeInv, QueueTypeOK
<1>2. QueueTypeOK' BY <1>1 DEF QueueTypeOK, QueueTypeInv
<1>3. \A q \in Caller : job'[q] = IF q = p THEN j ELSE job[q]
  BY DEF QueueTypeInv, QueueTypeOK
<1>4. Len(queue') + Cardinality(Pending') <= MaxEntries
  <2>1. Pending' \in SUBSET Pending BY <1>3 DEF Pending
  <2>2. IsFiniteSet(Pending)
    BY QueueAssumption, FS_Subset DEF Pending
  <2>3. /\ Cardinality(Pending) \in Nat /\ Cardinality(Pending') \in Nat
        /\ Cardinality(Pending') <= Cardinality(Pending)
    BY <2>1, <2>2, FS_Subset, FS_CardinalityType
  <2> QED BY <2>3, RowsAre, QueueAssumption DEF QueueTypeInv
<1> QED BY <1>2, <1>3, <1>4 DEF QueueTypeInv, Rows

LEMMA QueueUnchangedType ==
  ASSUME QueueTypeInv, TypeOK', UNCHANGED queueVars
  PROVE  QueueTypeInv'
BY DEF QueueTypeInv, QueueTypeOK, queueVars, Pending, Rows

LEMMA QueueStepsAreLandings ==
  ASSUME QueueTypeInv, [QueueNext]_mqVars
  PROVE  [Next]_vars
<1>1. TypeOK BY DEF QueueTypeInv, QueueTypeOK
<1>2. ASSUME NEW p \in Caller, LandNext(p) PROVE Next
  <2>1. PICK c \in Lowest(job[p].changes, LAMBDA x : Position[x]) : StartMergeChange(p, c)
    BY <1>2 DEF LandNext
  <2>2. c \in job[p].changes BY DEF Lowest
  <2>3. job[p].changes \subseteq Change
    BY <1>2, JobShape DEF LandNext, QueueTypeInv, QueueTypeOK, EntryPC
  <2> QED BY <2>1, <2>2, <2>3 DEF Next
<1>3. ASSUME NEW p \in Caller, TakeOutcome(p) PROVE Next
  <2>1. Reply(p) BY <1>3 DEF TakeOutcome, Reply
  <2> QED BY <2>1 DEF Next
<1>4. ASSUME NEW p \in Caller, QueueCrash(p) PROVE [Next]_vars
  <2>1. CASE call[p].pc = "idle"
    <3>1. call[p] = Idle BY <1>1, <2>1 DEF TypeOK, Call, Running, GatePC, LandPC
    <3>2. call' = call BY <1>1, <1>4, <3>1 DEF QueueCrash, TypeOK
    <3> QED BY <1>4, <3>2 DEF QueueCrash, vars
  <2>2. CASE call[p].pc # "idle"
    <3>1. Crash(p) BY <1>4, <2>2 DEF QueueCrash, Crash
    <3> QED BY <3>1 DEF Next
  <2> QED BY <2>1, <2>2
<1>5. ASSUME NEW p \in Caller, DirectLanding(p) PROVE Next
  BY <1>5 DEF DirectLanding, Next
<1>6. ASSUME NEW p \in Caller, CallStep(p) PROVE Next
  BY <1>6 DEF Next
<1>7. ASSUME NEW p \in Caller, JobStep(p), ~LandNext(p), ~TakeOutcome(p), ~CallStep(p)
      PROVE  UNCHANGED vars
  BY <1>7 DEF JobStep, PassStep, ReadMaxPosition, InsertEntry, SkipEntry, TakeEntry, EndPass,
              classifyBlockingChangeGate, EvictEntry, RetireEntry
<1>8. ASSUME NEW p \in Caller, StartPass(p) \/ \E s \in Stack : StartEnqueue(p, s)
      PROVE  UNCHANGED vars
  BY <1>8 DEF StartPass, StartEnqueue
<1>9. Environment => Next BY DEF Next
<1>10. UNCHANGED mqVars => UNCHANGED vars BY DEF mqVars
<1> QED BY <1>2, <1>3, <1>4, <1>5, <1>6, <1>7, <1>8, <1>9, <1>10, QueueAssumption
        DEF QueueNext

LEMMA LeaveEntryType ==
  ASSUME QueueTypeInv, NEW p \in Caller, job[p].pc \in EntryPC
  PROVE  /\ [pc |-> "entries", entries |-> job[p].entries] \in Job
         /\ job[p].entries \subseteq Rows
<1>1. job[p] \in [pc : EntryPC, entries : SUBSET (1..MaxEntries),
                  entry : 1..MaxEntries, changes : SUBSET Change]
  BY JobShape DEF QueueTypeInv, QueueTypeOK
<1> QED BY <1>1 DEF Job, QueueTypeInv

\* A step that writes the state of the row it is about
LEMMA EntryWrittenType ==
  ASSUME QueueTypeInv, TypeOK', NEW p \in Caller, NEW s \in EntryState,
         job[p].pc \in EntryPC, LeaveEntry(p),
         queue' = [queue EXCEPT ![job[p].entry].state = s]
  PROVE  QueueTypeInv'
<1> DEFINE j == [pc |-> "entries", entries |-> job[p].entries]
<1>1. job[p].entry \in Rows BY DEF QueueTypeInv
<1>2. /\ queue' \in Seq(Entry) /\ Len(queue') = Len(queue) /\ Rows' = Rows
      /\ \A d \in Rows : queue'[d].stack = queue[d].stack
  BY <1>1, StateWritten
<1>3. job' = [job EXCEPT ![p] = j] BY DEF LeaveEntry, SetJob
<1>4. j \in Job /\ j.entries \subseteq Rows BY LeaveEntryType
<1>5. job' \in [Caller -> Job] BY <1>3, <1>4 DEF QueueTypeInv, QueueTypeOK
<1>6. \A q \in Caller : job'[q] = IF q = p THEN j ELSE job[q]
  BY <1>3 DEF QueueTypeInv, QueueTypeOK
<1>7. Pending' = Pending BY <1>6 DEF Pending, EntryPC
<1>8. QueueTypeOK' BY <1>2, <1>5 DEF QueueTypeOK, QueueTypeInv
<1>9. \A q \in Caller :
        /\ job'[q].pc \in {"entries"} \cup EntryPC => job'[q].entries \subseteq Rows
        /\ job'[q].pc \in EntryPC =>
            /\ job'[q].entry \in Rows
            /\ queue[job'[q].entry].stack # NoStack
  BY <1>4, <1>6 DEF QueueTypeInv, EntryPC
<1> QED BY <1>2, <1>7, <1>8, <1>9 DEF QueueTypeInv

LEMMA QueueTypeStep == QueueTypeInv /\ [QueueNext]_mqVars => QueueTypeInv'
<1> SUFFICES ASSUME QueueTypeInv, [QueueNext]_mqVars PROVE QueueTypeInv'
  OBVIOUS
<1>1. TypeOK'
  BY QueueStepsAreLandings, TypeStep DEF QueueTypeInv, QueueTypeOK
<1>2. /\ queue \in Seq(Entry) /\ job \in [Caller -> Job]
  BY DEF QueueTypeInv, QueueTypeOK
<1>3. ASSUME NEW p \in Caller, ReadMaxPosition(p) PROVE QueueTypeInv'
  <2> DEFINE j == [pc |-> "insert", stack |-> job[p].stack, position |-> NextPosition]
  <2>1. job[p] \in [pc : {"max"}, stack : Stack]
    BY <1>2, <1>3, JobShape DEF ReadMaxPosition
  <2>2. j \in Job BY <2>1, NextPositionType DEF Job
  <2>3. p \in Pending BY <1>3 DEF ReadMaxPosition, Pending
  <2>4. job' = [job EXCEPT ![p] = j] /\ UNCHANGED queue
    BY <1>3 DEF ReadMaxPosition, SetJob
  <2> QED BY <1>1, <2>2, <2>3, <2>4, JobOnlyType DEF EntryPC
<1>4. ASSUME NEW p \in Caller, InsertEntry(p) PROVE QueueTypeInv'
  <2> DEFINE row == [stack |-> job[p].stack, state |-> "queued",
                     position |-> job[p].position]
  <2>1. job[p] \in [pc : {"insert"}, stack : Stack, position : Nat]
    BY <1>2, <1>4, JobShape DEF InsertEntry
  <2>2. row \in Entry BY <2>1 DEF Entry, EntryState
  <2>3. queue' = Append(queue, row) BY <1>4 DEF InsertEntry
  <2> HIDE DEF row
  <2>4. /\ queue' \in Seq(Entry) /\ Len(queue') = Len(queue) + 1
        /\ \A d \in 1..Len(queue) : queue'[d] = queue[d]
    BY <1>2, <2>2, <2>3, AppendProperties
  <2>5. Rows \subseteq Rows'
    BY <1>2, <2>4, RowsAre, LenProperties DEF Rows
  <2>6. job' \in [Caller -> Job] /\ \A q \in Caller : job'[q] = IF q = p THEN NoJob ELSE job[q]
    BY <1>2, <1>4 DEF InsertEntry, SetJob, Job
  <2>7. Pending' = Pending \ {p} /\ p \in Pending
    BY <1>4, <2>6 DEF Pending, NoJob, InsertEntry
  <2>8. Cardinality(Pending') = Cardinality(Pending) - 1 /\ Cardinality(Pending) \in Nat
    <3>1. IsFiniteSet(Pending) BY QueueAssumption, FS_Subset DEF Pending
    <3> QED BY <2>7, <3>1, FS_RemoveElement, FS_CardinalityType
  <2>9. /\ Len(queue') + Cardinality(Pending') <= MaxEntries
        /\ Len(queue') <= MaxEntries
    <3>1. Len(queue) \in Nat BY RowsAre
    <3>2. Cardinality(Pending') \in Nat
      <4>1. IsFiniteSet(Pending') BY QueueAssumption, FS_Subset DEF Pending
      <4> QED BY <4>1, FS_CardinalityType
    <3> QED BY <2>4, <2>8, <3>1, <3>2, QueueAssumption DEF QueueTypeInv
  <2>10. QueueTypeOK' BY <1>1, <2>4, <2>6, <2>9 DEF QueueTypeOK
  <2>11. \A q \in Caller :
          /\ job'[q].pc \in {"entries"} \cup EntryPC => job'[q].entries \subseteq Rows
          /\ job'[q].pc \in EntryPC =>
              /\ job'[q].entry \in Rows
              /\ queue[job'[q].entry].stack # NoStack
    BY <2>6 DEF QueueTypeInv, NoJob, EntryPC
  <2> QED BY <2>4, <2>5, <2>9, <2>10, <2>11, RowsAre DEF QueueTypeInv
<1>5. ASSUME NEW p \in Caller, SkipEntry(p) PROVE QueueTypeInv'
  <2>1. job[p] \in [pc : {"entries"}, entries : SUBSET (1..MaxEntries)]
    BY <1>2, <1>5, JobShape DEF SkipEntry
  <2>2. PICK e : /\ job' = [job EXCEPT ![p] = [job[p] EXCEPT !.entries = @ \ {e}]]
                 /\ UNCHANGED queue
    BY <1>5 DEF SkipEntry, SetJob
  <2> DEFINE j == [job[p] EXCEPT !.entries = @ \ {e}]
  <2>3. j.pc = "entries" /\ j.entries \subseteq job[p].entries
        /\ j \in [pc : {"entries"}, entries : SUBSET (1..MaxEntries)]
    BY <2>1
  <2>4. j \in Job BY <2>3 DEF Job
  <2>5. j.entries \subseteq Rows BY <2>1, <2>3 DEF QueueTypeInv
  <2> HIDE DEF j
  <2>6. job' = [job EXCEPT ![p] = j] BY <2>2 DEF j
  <2> QED BY <1>1, <2>2, <2>3, <2>4, <2>5, <2>6, JobOnlyType DEF EntryPC
<1>6. ASSUME NEW p \in Caller, TakeEntry(p) PROVE QueueTypeInv'
  <2>1. job[p] \in [pc : {"entries"}, entries : SUBSET (1..MaxEntries)]
        /\ job[p].entries \subseteq Rows
    BY <1>2, <1>6, JobShape DEF TakeEntry, QueueTypeInv
  <2>2. PICK e \in Lowest(job[p].entries, LAMBDA x : queue[x].position) :
          /\ queue[e].stack # NoStack
          /\ SetJob(p, [pc |-> "changes", entries |-> job[p].entries \ {e}, entry |-> e,
                     changes |-> {c \in Change : /\ StackOf[c] = queue[e].stack
                                                 /\ status[c] = "open"}])
    BY <1>6 DEF TakeEntry
  <2>3. e \in job[p].entries BY <2>2 DEF Lowest
  <2> DEFINE left == {c \in Change : StackOf[c] = queue[e].stack /\ status[c] = "open"}
             j == [pc |-> "changes", entries |-> job[p].entries \ {e}, entry |-> e,
                   changes |-> left]
  <2>4. j \in Job BY <2>1, <2>3, RowsAre DEF Job
  <2>5. job' = [job EXCEPT ![p] = j] /\ UNCHANGED queue
    BY <1>6, <2>2 DEF SetJob, TakeEntry
  <2> QED BY <1>1, <2>1, <2>2, <2>3, <2>4, <2>5, JobOnlyType
<1>7. ASSUME NEW p \in Caller, EndPass(p) PROVE QueueTypeInv'
  BY <1>1, <1>7, JobOnlyType DEF EndPass, SetJob, NoJob, Job, EntryPC
<1>8. ASSUME NEW p \in Caller, LandNext(p) PROVE QueueTypeInv'
  BY <1>1, <1>8, QueueUnchangedType DEF LandNext
<1>9. ASSUME NEW p \in Caller, TakeOutcome(p) PROVE QueueTypeInv'
  <2> DEFINE c == call[p].change
  <2>1. job[p] \in [pc : EntryPC, entries : SUBSET (1..MaxEntries),
                    entry : 1..MaxEntries, changes : SUBSET Change]
    BY <1>2, <1>9, JobShape DEF TakeOutcome, EntryPC
  <2>2. UNCHANGED queue BY <1>9 DEF TakeOutcome
  <2>3. CASE SetJob(p, [job[p] EXCEPT !.changes = @ \ {c}])
    <3> DEFINE j == [job[p] EXCEPT !.changes = @ \ {c}]
    <3>1. /\ j.pc = "changes" /\ j.entries = job[p].entries /\ j.entry = job[p].entry
          /\ j.changes \subseteq job[p].changes
          /\ j \in [pc : {"changes"}, entries : SUBSET (1..MaxEntries),
                    entry : 1..MaxEntries, changes : SUBSET Change]
      BY <1>9, <2>1 DEF TakeOutcome
    <3>2. j \in Job BY <3>1 DEF Job
    <3>3. job' = [job EXCEPT ![p] = j] BY <2>3 DEF SetJob
    <3>4. job[p].pc \in EntryPC BY <1>9 DEF TakeOutcome, EntryPC
    <3> HIDE DEF j
    <3> QED BY <1>1, <2>2, <3>1, <3>2, <3>3, <3>4, JobOnlyType DEF QueueTypeInv
  <2>4. CASE LeaveEntry(p)
    <3> DEFINE j == [pc |-> "entries", entries |-> job[p].entries]
    <3>1. j \in Job /\ j.entries \subseteq Rows
      BY <1>9, LeaveEntryType DEF TakeOutcome, EntryPC
    <3>2. job' = [job EXCEPT ![p] = j] BY <2>4 DEF LeaveEntry, SetJob
    <3> QED BY <1>1, <2>2, <3>1, <3>2, JobOnlyType DEF EntryPC
  <2>5. CASE /\ call[p].outcome = "not-mergeable"
             /\ SetJob(p, [job[p] EXCEPT !.pc = "classify", !.changes = {c}])
    <3> DEFINE j == [job[p] EXCEPT !.pc = "classify", !.changes = {c}]
    <3>1. c \in Change
      BY <1>9 DEF TakeOutcome, QueueTypeInv, QueueTypeOK, TypeOK, Call, Idle, Running,
                  GatePC, LandPC
    <3>2. /\ j.pc = "classify" /\ j.entries = job[p].entries /\ j.entry = job[p].entry
          /\ j \in [pc : {"classify"}, entries : SUBSET (1..MaxEntries),
                    entry : 1..MaxEntries, changes : SUBSET Change]
      BY <2>1, <3>1
    <3>3. j \in Job BY <3>2 DEF Job
    <3>4. job' = [job EXCEPT ![p] = j] BY <2>5 DEF SetJob
    <3>5. job[p].pc \in EntryPC BY <1>9 DEF TakeOutcome, EntryPC
    <3> HIDE DEF j
    <3> QED BY <1>1, <2>2, <3>2, <3>3, <3>4, <3>5, JobOnlyType DEF QueueTypeInv
  <2> QED BY <1>9, <2>3, <2>4, <2>5 DEF TakeOutcome
<1>10. ASSUME NEW p \in Caller, classifyBlockingChangeGate(p) PROVE QueueTypeInv'
  <2>1. job[p] \in [pc : EntryPC, entries : SUBSET (1..MaxEntries),
                    entry : 1..MaxEntries, changes : SUBSET Change]
        /\ job[p].pc \in EntryPC
    BY <1>2, <1>10, JobShape DEF classifyBlockingChangeGate, EntryPC
  <2>2. UNCHANGED queue BY <1>10 DEF classifyBlockingChangeGate
  <2>3. CASE SetJob(p, [job[p] EXCEPT !.pc = "evict"])
    <3> DEFINE j == [job[p] EXCEPT !.pc = "evict"]
    <3>1. /\ j.pc = "evict" /\ j.entries = job[p].entries /\ j.entry = job[p].entry
          /\ j \in [pc : {"evict"}, entries : SUBSET (1..MaxEntries),
                    entry : 1..MaxEntries, changes : SUBSET Change]
      BY <2>1
    <3>2. j \in Job BY <3>1 DEF Job
    <3>3. job' = [job EXCEPT ![p] = j] BY <2>3 DEF SetJob
    <3> HIDE DEF j
    <3> QED BY <1>1, <2>1, <2>2, <3>1, <3>2, <3>3, JobOnlyType DEF QueueTypeInv
  <2>4. CASE LeaveEntry(p)
    <3> DEFINE j == [pc |-> "entries", entries |-> job[p].entries]
    <3>1. j \in Job /\ j.entries \subseteq Rows
      BY <2>1, LeaveEntryType
    <3>2. job' = [job EXCEPT ![p] = j] BY <2>4 DEF LeaveEntry, SetJob
    <3> QED BY <1>1, <2>2, <3>1, <3>2, JobOnlyType DEF EntryPC
  <2> QED BY <1>10, <2>3, <2>4 DEF classifyBlockingChangeGate
<1>11. ASSUME NEW p \in Caller, EvictEntry(p) \/ RetireEntry(p) PROVE QueueTypeInv'
  BY <1>1, <1>11, EntryWrittenType DEF EvictEntry, RetireEntry, EntryPC, EntryState
<1>12. ASSUME NEW p \in Caller, QueueCrash(p) PROVE QueueTypeInv'
  BY <1>1, <1>12, JobOnlyType DEF QueueCrash, NoJob, Job, EntryPC
<1>13. ASSUME NEW p \in Caller, NEW s \in Stack, StartEnqueue(p, s) PROVE QueueTypeInv'
  <2> DEFINE j == [pc |-> "max", stack |-> s]
  <2>1. job' \in [Caller -> Job] /\ \A q \in Caller : job'[q] = IF q = p THEN j ELSE job[q]
    BY <1>2, <1>13 DEF StartEnqueue, SetJob, Job
  <2>2. UNCHANGED queue BY <1>13 DEF StartEnqueue
  <2>3. Pending' = Pending \cup {p} /\ p \notin Pending
    BY <1>13, <2>1 DEF Pending, StartEnqueue
  <2>4. Len(queue) + Cardinality(Pending) < MaxEntries
    BY <1>13 DEF StartEnqueue, Pending
  <2>5. Cardinality(Pending') = Cardinality(Pending) + 1 /\ Cardinality(Pending) \in Nat
    <3>1. IsFiniteSet(Pending) BY QueueAssumption, FS_Subset DEF Pending
    <3> QED BY <2>3, <3>1, FS_AddElement, FS_CardinalityType
  <2>6. Len(queue') + Cardinality(Pending') <= MaxEntries
    <3> HIDE DEF Pending
    <3> QED BY <2>2, <2>4, <2>5, RowsAre, QueueAssumption
  <2>7. QueueTypeOK' BY <1>1, <2>1, <2>2 DEF QueueTypeOK, QueueTypeInv
  <2> QED BY <2>1, <2>2, <2>6, <2>7 DEF QueueTypeInv, EntryPC, Rows
<1>14. ASSUME NEW p \in Caller, StartPass(p) PROVE QueueTypeInv'
  <2> DEFINE j == [pc |-> "entries", entries |-> {e \in Rows : queue[e].state = "queued"}]
  <2>1. j \in Job /\ j.entries \subseteq Rows BY RowsAre DEF Job
  <2>2. job' = [job EXCEPT ![p] = j] /\ UNCHANGED queue BY <1>14 DEF StartPass, SetJob
  <2> QED BY <1>1, <2>1, <2>2, JobOnlyType DEF EntryPC
<1>15. CASE UNCHANGED queueVars BY <1>1, <1>15, QueueUnchangedType
<1> QED BY <1>3, <1>4, <1>5, <1>6, <1>7, <1>8, <1>9, <1>10, <1>11, <1>12, <1>13, <1>14,
           <1>15, QueueAssumption
        DEF QueueNext, JobStep, PassStep, DirectLanding, mqVars

LEMMA QueueTypeInit == QueueInit => QueueTypeInv
<1> SUFFICES ASSUME QueueInit PROVE QueueTypeInv
  OBVIOUS
<1>1. TypeOK BY TypeInit DEF QueueInit
<1>2. job \in [Caller -> Job] /\ \A p \in Caller : job[p].pc = "none"
  BY DEF QueueInit, Job, NoJob
<1>3. Pending = {} BY <1>2 DEF Pending
<1>4. Len(queue) + Cardinality(Pending) <= MaxEntries
  <2>1. Len(queue) \in Nat
    BY InitialQueueAssumption, LenProperties DEF QueueInit
  <2> QED BY <1>3, <2>1, FS_EmptySet, InitialQueueAssumption, QueueAssumption DEF QueueInit
<1> QED BY <1>1, <1>2, <1>4, InitialQueueAssumption
        DEF QueueTypeInv, QueueTypeOK, EntryPC, QueueInit

LEMMA QueueTypeInvariant == QueueSpec => []QueueTypeInv
<1>1. QueueInit => QueueTypeInv BY QueueTypeInit
<1>2. QueueTypeInv /\ [QueueNext]_mqVars => QueueTypeInv' BY QueueTypeStep
<1> QED BY <1>1, <1>2, PTL DEF QueueSpec

\* Every row and every job keeps its type (MergeQueue!QueueTypeOK) and the table
\* its bound, however enqueues, passes and crashes overlap: an entry a pass works
\* on is always a row that is there.
THEOREM QueueTypeCorrect == QueueSpec => []QueueTypeOK
<1>1. QueueTypeInv => QueueTypeOK BY DEF QueueTypeInv
<1> QED BY <1>1, QueueTypeInvariant, PTL

\* Everything the queue does to changes, stacks and the branch is what landings
\* of its callers may do: a pass, its crashes and overlapping passes are calls
\* like any others (mergeQueue.service.ts, processQueue).
THEOREM QueueRunsLandings == QueueSpec => Spec
<1>1. QueueInit => Init BY DEF QueueInit
<1>2. QueueTypeInv /\ [QueueNext]_mqVars => [Next]_vars BY QueueStepsAreLandings
<1> QED BY <1>1, <1>2, QueueTypeInvariant, PTL DEF QueueSpec, Spec


\* So all that is proved of landings holds of the queue: a pass lands a stack in
\* dependency order (StackLanding!LandedInOrder) and closes none over an open
\* change (StackLanding!ClosedStackIsSettled).
THEOREM QueueLandsInOrder == QueueSpec => [](LandedInOrder /\ ClosedStackIsSettled)
BY QueueRunsLandings, LandsInOrder, StacksCloseSettled, PTL

-----------------------------------------------------------------------------
(***************************************************************************)
(* What a step may do to the table, and to the callers who do not take it. *)
(***************************************************************************)

LEMMA QueueMoves ==
  ASSUME QueueTypeInv, [QueueNext]_mqVars
  PROVE  /\ \A e \in Rows :
              /\ e \in Rows' /\ queue'[e].stack = queue[e].stack
              /\ \/ queue'[e].state = queue[e].state
                 \/ \E p \in Caller : /\ job[p].entry = e
                                      /\ \/ EvictEntry(p) /\ queue'[e].state = "evicted"
                                         \/ RetireEntry(p) /\ queue'[e].state = "merged"
         /\ \A e \in Rows' \ Rows :
              /\ queue'[e].state = "queued"
              /\ \E p \in Caller : InsertEntry(p) /\ queue'[e].stack = job[p].stack
<1>1. queue \in Seq(Entry) BY DEF QueueTypeInv, QueueTypeOK
<1>2. ASSUME NEW p \in Caller, InsertEntry(p)
      PROVE  /\ \A e \in Rows : e \in Rows' /\ queue'[e] = queue[e]
             /\ \A e \in Rows' \ Rows :
                  queue'[e].state = "queued" /\ queue'[e].stack = job[p].stack
  <2> DEFINE row == [stack |-> job[p].stack, state |-> "queued",
                     position |-> job[p].position]
  <2>1. job[p] \in [pc : {"insert"}, stack : Stack, position : Nat]
    BY <1>2, JobShape DEF InsertEntry, QueueTypeInv, QueueTypeOK
  <2>2. row \in Entry /\ row.state = "queued" /\ row.stack = job[p].stack
    BY <2>1 DEF Entry, EntryState
  <2>3. queue' = Append(queue, row) BY <1>2 DEF InsertEntry
  <2> HIDE DEF row
  <2>4. /\ queue' \in Seq(Entry) /\ Len(queue') = Len(queue) + 1
        /\ \A d \in 1..Len(queue) : queue'[d] = queue[d]
        /\ queue'[Len(queue) + 1] = row
    BY <1>1, <2>2, <2>3, AppendProperties
  <2>5. Rows' = 1..(Len(queue) + 1) /\ Rows = 1..Len(queue) /\ Len(queue) \in Nat
    BY <1>1, <2>4, RowsAre, LenProperties DEF Rows
  <2> QED BY <2>2, <2>4, <2>5
<1>3. ASSUME NEW p \in Caller, EvictEntry(p) \/ RetireEntry(p), NEW e \in Rows
      PROVE  /\ Rows' = Rows
             /\ queue'[e].stack = queue[e].stack
             /\ \/ queue'[e].state = queue[e].state
                \/ /\ job[p].entry = e
                   /\ \/ EvictEntry(p) /\ queue'[e].state = "evicted"
                      \/ RetireEntry(p) /\ queue'[e].state = "merged"
  <2>1. job[p].entry \in Rows
    BY <1>3 DEF EvictEntry, RetireEntry, QueueTypeInv, EntryPC
  <2>2. ASSUME NEW s \in EntryState, queue' = [queue EXCEPT ![job[p].entry].state = s]
        PROVE  /\ Rows' = Rows /\ queue'[e].stack = queue[e].stack
               /\ queue'[e].state = queue[e].state \/ (job[p].entry = e /\ queue'[e].state = s)
    BY <2>1, <2>2, StateWritten
  <2>3. CASE EvictEntry(p) BY <2>2, <2>3 DEF EvictEntry, EntryState
  <2>4. CASE RetireEntry(p) BY <2>2, <2>4 DEF RetireEntry, EntryState
  <2> QED BY <1>3, <2>3, <2>4
<1>4. ASSUME NEW p \in Caller, EvictEntry(p) \/ RetireEntry(p) PROVE Rows' = Rows
  <2>1. job[p].entry \in Rows
    BY <1>4 DEF EvictEntry, RetireEntry, QueueTypeInv, EntryPC
  <2> QED BY <1>4, <2>1, StateWritten DEF EvictEntry, RetireEntry, EntryState
<1>5. \/ \E p \in Caller : InsertEntry(p) \/ EvictEntry(p) \/ RetireEntry(p)
      \/ UNCHANGED queue
  BY DEF QueueNext, JobStep, PassStep, ReadMaxPosition, SkipEntry, TakeEntry, EndPass,
         LandNext, TakeOutcome, classifyBlockingChangeGate, QueueCrash, StartEnqueue,
         StartPass, DirectLanding, queueVars, mqVars
<1>6. CASE UNCHANGED queue BY <1>6 DEF Rows
<1>7. CASE \E p \in Caller : InsertEntry(p) BY <1>2, <1>7
<1>8. CASE \E p \in Caller : EvictEntry(p) \/ RetireEntry(p) BY <1>3, <1>4, <1>8
<1> QED BY <1>5, <1>6, <1>7, <1>8

\* A step of one caller leaves the jobs and the calls of the others alone.
Acts(q) ==
  \/ JobStep(q) \/ QueueCrash(q) \/ StartPass(q) \/ DirectLanding(q)
  \/ \E s \in Stack : StartEnqueue(q, s)

LEMMA OthersWait ==
  ASSUME QueueTypeInv, NEW q \in Caller, NEW p \in Caller, p # q, Acts(q)
  PROVE  job'[p] = job[p] /\ call'[p] = call[p]
<1>1. TypeOK /\ job \in [Caller -> Job] BY DEF QueueTypeInv, QueueTypeOK
<1>2. call \in [Caller -> Call] BY <1>1 DEF TypeOK
<1>3. CASE CallStep(q) /\ UNCHANGED queueVars
  BY <1>1, <1>3, OthersStay DEF queueVars
<1>4. CASE LandNext(q)
  <2>1. PICK c \in Lowest(job[q].changes, LAMBDA x : Position[x]) : StartMergeChange(q, c)
    BY <1>4 DEF LandNext
  <2>2. job[q].changes \subseteq Change
    BY <1>1, <1>4, JobShape DEF LandNext, EntryPC
  <2>3. c \in Change BY <2>1, <2>2 DEF Lowest
  <2> QED BY <1>1, <1>4, <2>1, <2>3, OthersStay DEF LandNext, queueVars
<1>5. CASE DirectLanding(q)
  BY <1>1, <1>5, OthersStay DEF DirectLanding, queueVars
<1>6. CASE TakeOutcome(q) \/ QueueCrash(q)
  <2>1. call'[p] = call[p] BY <1>2, <1>6 DEF TakeOutcome, QueueCrash
  <2>2. job'[p] = job[p] BY <1>1, <1>6 DEF TakeOutcome, QueueCrash, SetJob, LeaveEntry
  <2> QED BY <2>1, <2>2
<1>7. CASE \/ ReadMaxPosition(q) \/ InsertEntry(q) \/ SkipEntry(q) \/ TakeEntry(q)
           \/ EndPass(q) \/ classifyBlockingChangeGate(q) \/ EvictEntry(q)
           \/ RetireEntry(q) \/ StartPass(q) \/ \E s \in Stack : StartEnqueue(q, s)
  <2>1. UNCHANGED vars
    BY <1>7 DEF ReadMaxPosition, InsertEntry, SkipEntry, TakeEntry, EndPass,
                classifyBlockingChangeGate, EvictEntry, RetireEntry, StartPass, StartEnqueue
  <2>2. \E j : SetJob(q, j)
    BY <1>7 DEF ReadMaxPosition, InsertEntry, SkipEntry, TakeEntry, EndPass, LeaveEntry,
                classifyBlockingChangeGate, EvictEntry, RetireEntry, StartPass, StartEnqueue
  <2> QED BY <1>1, <2>1, <2>2 DEF SetJob, vars
<1> QED BY <1>3, <1>4, <1>5, <1>6, <1>7 DEF Acts, JobStep, PassStep

LEMMA SomeoneActs ==
  ASSUME [QueueNext]_mqVars
  PROVE  \/ \E q \in Caller : Acts(q)
         \/ UNCHANGED <<call, job>>
BY QueueAssumption
   DEF QueueNext, Acts, Environment, CreateChange, AbandonChange, AmendChange, ReportCheck,
       Approve, DismissApproval, PushToBase, queueVars, mqVars, vars

-----------------------------------------------------------------------------
(***************************************************************************)
(* Entries leave the queue for cause.  What a pass concluded about a       *)
(* change, one step or many ago, must still hold when it writes the entry. *)
(***************************************************************************)

\* CI never takes a failure back.
FailuresStand == \A f \in CheckFlow : f[1] = "failed" => f[2] = "failed"

Failed(c) == classifyRequiredChecks(checks[c]) = "failed"

\* A call that has recorded its change, up to its ok answer
Recorded(p) == \/ call[p].pc \in {"remaining", "stack"}
               \/ call[p].pc = "done" /\ call[p].outcome = "ok"

\* What a pass in the middle of entry e knows of the entry's stack
JobKnows(p) ==
  LET s == queue[job[p].entry].stack
  IN  /\ job[p].pc \in EntryPC => \A c \in job[p].changes : StackOf[c] = s
      /\ job[p].pc = "changes" =>
           /\ call[p].pc # "idle" => call[p].change \in job[p].changes
           /\ \A c \in Change \ Late :
                StackOf[c] = s => c \in job[p].changes \/ status[c] # "open"
      /\ job[p].pc \notin {"none", "changes"} => call[p].pc = "idle"
      /\ job[p].pc = "evict" => \E c \in Change : StackOf[c] = s /\ Failed(c)

RecordedIsMerged ==
  \A p \in Caller : Recorded(p) => status[call[p].change] = "merged"

CauseInv ==
  /\ ClosingInv
  /\ RecordedIsMerged
  /\ \A p \in Caller : JobKnows(p)
  /\ EntriesLeaveForCause

LEMMA FailedStays ==
  ASSUME TypeOK, FailuresStand, [Next]_vars, NEW c \in Change, Failed(c)
  PROVE  Failed(c)'
<1>1. PICK n \in CheckName : checks[c][n].required /\ checks[c][n].status = "failed"
  BY DEF Failed, classifyRequiredChecks, RequiredChecks, TypeOK
<1>2. \/ \E d \in Change, m \in CheckName, s \in CheckStatus : ReportCheck(d, m, s)
      \/ UNCHANGED checks
  BY DEF Next, CallStep, Environment, vars, rowVars, StartMergeChange, GateOnChecks,
         GateOnProtection, GateOnParent, ResolveBase, LandInBackend, ResolveTip, WriteRef,
         MarkMerged, ReadRemaining, UpdateStack, Reply, Crash, CreateChange,
         AbandonChange, AmendChange, Approve, DismissApproval, PushToBase
<1>3. checks'[c][n].required /\ checks'[c][n].status = "failed" /\ DOMAIN checks'[c] = CheckName
  <2>1. ASSUME NEW d \in Change, NEW m \in CheckName, NEW s \in CheckStatus,
               ReportCheck(d, m, s)
        PROVE  checks'[c][n].required /\ checks'[c][n].status = "failed"
    <3>1. CASE c = d /\ n = m
      BY <1>1, <2>1, <3>1 DEF ReportCheck, TypeOK, Check, FailuresStand
    <3>2. CASE ~(c = d /\ n = m)
      BY <1>1, <2>1, <3>2 DEF ReportCheck, TypeOK
    <3> QED BY <3>1, <3>2
  <2>2. DOMAIN checks'[c] = CheckName BY TypeStep DEF TypeOK
  <2> QED BY <1>1, <1>2, <2>1, <2>2
<1> QED BY <1>3 DEF Failed, classifyRequiredChecks, RequiredChecks

\* A change that was there and is not open stays so.
LEMMA SettledChange ==
  ASSUME TypeOK, ClosingInv, [Next]_vars, NEW c \in Change \ Late, status[c] # "open"
  PROVE  status'[c] # "open"
BY StatusMoves DEF ClosingInv

LEMMA RecordedStep ==
  ASSUME TypeOK, RecordedIsMerged, [Next]_vars
  PROVE  RecordedIsMerged'
<1> SUFFICES ASSUME NEW p \in Caller, Recorded(p)'
             PROVE  status'[call'[p].change] = "merged"
  BY DEF RecordedIsMerged
<1>1. call \in [Caller -> Call] BY DEF TypeOK
<1>2. CASE call'[p] = call[p]
  <2>1. call[p].change \in Change
    BY <1>2, <1>1 DEF Recorded, Call, Idle, Running, GatePC, LandPC
  <2>2. status[call[p].change] = "merged"
    BY <1>2 DEF Recorded, RecordedIsMerged
  <2> QED BY <1>2, <2>1, <2>2, MergedIsFinal
<1>3. CASE call'[p] # call[p]
  <2>1. \/ \E q \in Caller : \/ \E c \in Change : StartMergeChange(q, c)
                             \/ CallStep(q) \/ Reply(q) \/ Crash(q)
        \/ UNCHANGED call
    BY DEF Next, Environment, CreateChange, AbandonChange, AmendChange, ReportCheck,
           Approve, DismissApproval, PushToBase, vars
  <2>2. \/ \E c \in Change : StartMergeChange(p, c)
        \/ CallStep(p) \/ Reply(p) \/ Crash(p)
    BY <1>3, <2>1, OthersStay
  <2>3. ASSUME NEW c, NEW r \in Reason, Return(p, c, r) PROVE FALSE
    BY <1>1, <2>3 DEF Return, Recorded, Reason
  <2>4. ASSUME NEW c \in Change, StartMergeChange(p, c) PROVE FALSE
    <3>1. call' # [call EXCEPT ![p] = [pc |-> "checks", change |-> c, oid |-> commit[c],
                                       tip |-> {}, open |-> FALSE]]
      BY <1>1 DEF Recorded
    <3> QED BY <2>3, <2>4, <3>1 DEF StartMergeChange, Reason
  <2>5. ASSUME NEW pc \in {"rules", "parent", "base", "land", "mark"},
               call[p].pc \in GatePC \cup LandPC, Goto(p, pc)
        PROVE  FALSE
    BY <2>5, GotoMoves DEF Recorded
  <2>6. CASE \/ GateOnChecks(p) \/ GateOnProtection(p) \/ GateOnParent(p)
             \/ ResolveBase(p) \/ LandInBackend(p) \/ WriteRef(p)
    BY <2>3, <2>5, <2>6 DEF GateOnChecks, GateOnProtection, GateOnParent, ResolveBase,
                LandInBackend, WriteRef, GatePC, LandPC, Reason
  <2>7. CASE ResolveTip(p)
    <3>1. call[p] \in Running(LandPC, Commit)
      BY <2>7, <1>1, LandShape DEF ResolveTip, LandPC
    <3>2. call' # [call EXCEPT ![p].pc = "write", ![p].tip = branch]
      BY <1>1, <3>1 DEF Recorded, Running
    <3> QED BY <2>3, <2>5, <2>7, <3>2 DEF ResolveTip, GatePC, LandPC, Reason
  <2>8. CASE MarkMerged(p)
    <3>1. call'[p].change = call[p].change /\ call[p].change \in Change
      BY <2>8, GotoMoves, LandCall DEF MarkMerged, LandPC
    <3> QED BY <2>8, <3>1 DEF MarkMerged, TypeOK
  <2>9. CASE ReadRemaining(p)
    <3>1. call[p] \in Running(LandPC, Commit)
      BY <2>9, <1>1, LandShape DEF ReadRemaining, LandPC
    <3>2. call'[p].change = call[p].change
      BY <2>9, <1>1, <3>1 DEF ReadRemaining, Running
    <3>3. status' = status BY <2>9 DEF ReadRemaining, rowVars
    <3>4. status[call[p].change] = "merged"
      BY <2>9 DEF ReadRemaining, RecordedIsMerged, Recorded
    <3> QED BY <3>2, <3>3, <3>4
  <2>10. CASE UpdateStack(p)
    <3>1. call'[p].change = call[p].change
      BY <2>10, <1>1 DEF UpdateStack, Return
    <3>2. status' = status BY <2>10 DEF UpdateStack
    <3>3. status[call[p].change] = "merged"
      BY <2>10 DEF UpdateStack, RecordedIsMerged, Recorded
    <3> QED BY <3>1, <3>2, <3>3
  <2>11. CASE Reply(p) \/ Crash(p)
    BY <2>11, <1>1 DEF Reply, Crash, Idle, Recorded
  <2> QED BY <2>2, <2>4, <2>6, <2>7, <2>8, <2>9, <2>10, <2>11 DEF CallStep
<1> QED BY <1>2, <1>3

\* A call goes on about the change it was asked for.
LEMMA CallKeepsChange ==
  ASSUME TypeOK, NEW p \in Caller, CallStep(p)
  PROVE  call[p].pc # "idle" /\ call'[p].change = call[p].change
<1>1. call \in [Caller -> Call] BY DEF TypeOK
<1>2. call[p].pc \in GatePC \cup LandPC
  BY DEF CallStep, GateOnChecks, GateOnProtection, GateOnParent, ResolveBase, LandInBackend,
         ResolveTip, WriteRef, MarkMerged, ReadRemaining, UpdateStack, GatePC, LandPC
<1>3. ASSUME NEW pc, Goto(p, pc) PROVE call'[p].change = call[p].change
  BY <1>2, <1>3, GotoMoves
<1>4. ASSUME NEW r, Return(p, call[p].change, r) PROVE call'[p].change = call[p].change
  BY <1>1, <1>4 DEF Return
<1>5. CASE ResolveTip(p) \/ ReadRemaining(p)
  <2>1. call[p] \in Running(LandPC, Commit)
    BY <1>1, <1>5, LandShape DEF ResolveTip, ReadRemaining, LandPC
  <2> QED BY <1>1, <1>3, <1>4, <1>5, <2>1 DEF ResolveTip, ReadRemaining, Running
<1>6. CASE \/ GateOnChecks(p) \/ GateOnProtection(p) \/ GateOnParent(p) \/ ResolveBase(p)
           \/ LandInBackend(p) \/ WriteRef(p) \/ MarkMerged(p) \/ UpdateStack(p)
  BY <1>3, <1>4, <1>6
     DEF GateOnChecks, GateOnProtection, GateOnParent, ResolveBase, LandInBackend,
         WriteRef, MarkMerged, UpdateStack
<1> QED BY <1>2, <1>5, <1>6 DEF CallStep, GatePC, LandPC

\* What a job knows outlives the steps of others.
LEMMA KnowledgeStays ==
  ASSUME QueueTypeInv, CauseInv, FailuresStand, [QueueNext]_mqVars, NEW p \in Caller,
         job'[p] = job[p], call'[p] = call[p]
  PROVE  JobKnows(p)'
<1>1. TypeOK /\ [Next]_vars
  BY QueueStepsAreLandings DEF QueueTypeInv, QueueTypeOK
<1>2. JobKnows(p) /\ ClosingInv BY DEF CauseInv
<1>3. CASE job[p].pc \in EntryPC
  <2> DEFINE s == queue[job[p].entry].stack
  <2>1. queue'[job[p].entry].stack = s
    BY <1>3, QueueMoves DEF QueueTypeInv
  <2>2. ASSUME job[p].pc = "changes", NEW c \in Change \ Late, StackOf[c] = s,
               c \notin job[p].changes
        PROVE  status'[c] # "open"
    BY <1>1, <1>2, <2>2, SettledChange DEF JobKnows
  <2>3. ASSUME job[p].pc = "evict"
        PROVE  \E c \in Change : StackOf[c] = s /\ Failed(c)'
    BY <1>1, <1>2, <2>3, FailedStays DEF JobKnows
  <2> QED BY <1>2, <2>1, <2>2, <2>3 DEF JobKnows
<1>4. CASE job[p].pc \notin EntryPC
  BY <1>2, <1>4 DEF JobKnows, EntryPC
<1> QED BY <1>3, <1>4

\* A job that is in the middle of no entry knows only that it calls nobody.
LEMMA NothingToKnow ==
  ASSUME NEW p \in Caller, job'[p].pc \notin EntryPC,
         job'[p].pc = "none" \/ call'[p].pc = "idle"
  PROVE  JobKnows(p)'
BY DEF JobKnows, EntryPC

LEMMA KnowledgeStep ==
  ASSUME QueueTypeInv, CauseInv, FailuresStand, [QueueNext]_mqVars, NEW p \in Caller,
         Acts(p)
  PROVE  JobKnows(p)'
<1>1. TypeOK /\ [Next]_vars
  BY QueueStepsAreLandings DEF QueueTypeInv, QueueTypeOK
<1>2. JobKnows(p) /\ ClosingInv BY DEF CauseInv
<1>3. job \in [Caller -> Job] /\ call \in [Caller -> Call]
  BY DEF QueueTypeInv, QueueTypeOK, TypeOK
<1> DEFINE e == job[p].entry
           s == queue[e].stack
<1>4. CASE CallStep(p) /\ UNCHANGED queueVars
  <2>1. call[p].pc # "idle" /\ call'[p].change = call[p].change
    BY <1>1, <1>4, CallKeepsChange
  <2>2. job'[p] = job[p] /\ queue' = queue BY <1>4 DEF queueVars
  <2>3. job[p].pc \in {"none", "changes"} BY <1>2, <2>1 DEF JobKnows
  <2>4. ASSUME job[p].pc = "changes", NEW c \in Change \ Late, StackOf[c] = s,
               c \notin job[p].changes
        PROVE  status'[c] # "open"
    BY <1>1, <1>2, <2>4, SettledChange DEF JobKnows
  <2> QED BY <1>2, <2>1, <2>2, <2>3, <2>4 DEF JobKnows, EntryPC
<1>5. CASE LandNext(p)
  <2>1. PICK c \in Lowest(job[p].changes, LAMBDA x : Position[x]) : StartMergeChange(p, c)
    BY <1>5 DEF LandNext
  <2>2. c \in job[p].changes BY <2>1 DEF Lowest
  <2>3. job'[p] = job[p] /\ queue' = queue /\ status' = status
    BY <1>5, <2>1 DEF LandNext, queueVars, StartMergeChange, rowVars
  <2>4. call'[p].change = c
    BY <1>3, <2>1 DEF StartMergeChange, Return
  <2>5. job[p].pc = "changes" BY <1>5 DEF LandNext
  <2> QED BY <1>2, <2>2, <2>3, <2>4, <2>5 DEF JobKnows, EntryPC
<1>6. CASE TakeOutcome(p)
  <2> DEFINE c == call[p].change
  <2>1. call'[p].pc = "idle" /\ queue' = queue /\ status' = status
    BY <1>3, <1>6 DEF TakeOutcome, Idle, rowVars
  <2>2. c \in job[p].changes /\ job[p].pc = "changes"
    BY <1>2, <1>6 DEF TakeOutcome, JobKnows
  <2>3. job[p] \in [pc : EntryPC, entries : SUBSET (1..MaxEntries),
                    entry : 1..MaxEntries, changes : SUBSET Change]
    BY <1>3, <2>2, JobShape DEF EntryPC
  <2>4. CASE call[p].outcome = "ok"
    <3>1. /\ job'[p].pc = "changes" /\ job'[p].entry = e
          /\ job'[p].changes = job[p].changes \ {c}
      BY <1>3, <1>6, <2>2, <2>3, <2>4 DEF TakeOutcome, SetJob
    <3>2. status[c] = "merged"
      BY <1>6, <2>4 DEF TakeOutcome, CauseInv, RecordedIsMerged, Recorded
    <3> QED BY <1>2, <2>1, <2>2, <3>1, <3>2 DEF JobKnows, EntryPC
  <2>5. CASE call[p].outcome = "not-mergeable"
    <3>1. job'[p].pc = "classify" /\ job'[p].entry = e /\ job'[p].changes = {c}
      BY <1>3, <1>6, <2>3, <2>5 DEF TakeOutcome, SetJob
    <3> QED BY <1>2, <2>1, <2>2, <3>1 DEF JobKnows, EntryPC
  <2>6. CASE call[p].outcome \notin {"ok", "not-mergeable"}
    <3>1. job'[p].pc = "entries"
      BY <1>3, <1>6, <2>6 DEF TakeOutcome, SetJob, LeaveEntry
    <3> QED BY <2>1, <3>1, NothingToKnow DEF EntryPC
  <2> QED BY <2>4, <2>5, <2>6
<1>7. CASE TakeEntry(p)
  <2>1. PICK d : SetJob(p, [pc |-> "changes", entries |-> job[p].entries \ {d}, entry |-> d,
                     changes |-> {c \in Change : /\ StackOf[c] = queue[d].stack
                                                 /\ status[c] = "open"}])
    BY <1>7 DEF TakeEntry
  <2>2. /\ job'[p].pc = "changes" /\ job'[p].entry = d
        /\ job'[p].changes = {c \in Change : StackOf[c] = queue[d].stack /\ status[c] = "open"}
    BY <1>3, <2>1 DEF SetJob
  <2>3. call'[p].pc = "idle" /\ queue' = queue /\ status' = status
    BY <1>2, <1>7 DEF TakeEntry, JobKnows, vars, rowVars
  <2> QED BY <2>2, <2>3 DEF JobKnows, EntryPC
<1>8. CASE classifyBlockingChangeGate(p)
  <2>1. call'[p].pc = "idle" /\ queue' = queue /\ checks' = checks
    BY <1>2, <1>8 DEF classifyBlockingChangeGate, JobKnows, vars, rowVars
  <2>2. job[p] \in [pc : EntryPC, entries : SUBSET (1..MaxEntries),
                    entry : 1..MaxEntries, changes : SUBSET Change]
    BY <1>3, <1>8, JobShape DEF EntryPC, classifyBlockingChangeGate
  <2>3. CASE \E c \in job[p].changes : Failed(c)
    <3>1. job' = [job EXCEPT ![p] = [job[p] EXCEPT !.pc = "evict"]]
      BY <1>8, <2>3 DEF classifyBlockingChangeGate, SetJob, Failed
    <3>2. job'[p].pc = "evict" /\ job'[p].entry = e /\ job'[p].changes = job[p].changes
      BY <1>3, <2>2, <3>1
    <3>3. \A c \in job[p].changes : c \in Change /\ StackOf[c] = s
      BY <1>2, <1>8, <2>2 DEF classifyBlockingChangeGate, JobKnows, EntryPC
    <3>4. \A c : Failed(c)' <=> Failed(c) BY <2>1 DEF Failed
    <3> QED BY <2>1, <2>3, <3>2, <3>3, <3>4 DEF JobKnows
  <2>4. CASE ~\E c \in job[p].changes : Failed(c)
    <3>1. job'[p].pc = "entries"
      BY <1>3, <1>8, <2>4 DEF classifyBlockingChangeGate, SetJob, Failed, LeaveEntry
    <3> QED BY <2>1, <3>1, NothingToKnow DEF EntryPC
  <2> QED BY <2>3, <2>4
<1>9. CASE \/ EvictEntry(p) \/ RetireEntry(p) \/ EndPass(p) \/ InsertEntry(p)
           \/ StartPass(p) \/ ReadMaxPosition(p) \/ \E t \in Stack : StartEnqueue(p, t)
  <2>1. job'[p].pc \in {"none", "max", "insert", "entries"}
    <3>1. ASSUME NEW j, SetJob(p, j), j.pc \in {"none", "max", "insert", "entries"}
          PROVE  job'[p].pc \in {"none", "max", "insert", "entries"}
      BY <1>3, <3>1 DEF SetJob
    <3>2. \E j : SetJob(p, j) /\ j.pc \in {"none", "max", "insert", "entries"}
      <4>1. CASE EvictEntry(p) \/ RetireEntry(p)
        BY <4>1 DEF EvictEntry, RetireEntry, LeaveEntry
      <4>2. CASE EndPass(p) \/ InsertEntry(p)
        BY <4>2 DEF EndPass, InsertEntry, NoJob
      <4>3. CASE StartPass(p)
        BY <4>3 DEF StartPass
      <4>4. CASE ReadMaxPosition(p)
        BY <4>4 DEF ReadMaxPosition
      <4>5. CASE \E t \in Stack : StartEnqueue(p, t)
        BY <4>5 DEF StartEnqueue
      <4> QED BY <1>9, <4>1, <4>2, <4>3, <4>4, <4>5
    <3> QED BY <3>1, <3>2
  <2>2. call'[p].pc = "idle"
    BY <1>2, <1>9 DEF EvictEntry, RetireEntry, EndPass, InsertEntry, StartPass, ReadMaxPosition,
                StartEnqueue, JobKnows, vars
  <2> QED BY <2>1, <2>2, NothingToKnow DEF EntryPC
<1>10. CASE SkipEntry(p)
  <2>1. PICK d : job' = [job EXCEPT ![p] = [job[p] EXCEPT !.entries = @ \ {d}]]
    BY <1>10 DEF SkipEntry, SetJob
  <2>2. job'[p].pc = "entries" BY <1>3, <1>10, <2>1, JobShape DEF SkipEntry
  <2>3. call'[p].pc = "idle" BY <1>2, <1>10 DEF SkipEntry, JobKnows, vars
  <2> QED BY <2>2, <2>3, NothingToKnow DEF EntryPC
<1>11. CASE QueueCrash(p)
  <2>1. job'[p].pc = "none" BY <1>3, <1>11 DEF QueueCrash, NoJob
  <2> QED BY <2>1, NothingToKnow DEF EntryPC
<1>12. CASE DirectLanding(p)
  <2>1. job'[p].pc = "none" BY <1>12 DEF DirectLanding, queueVars
  <2> QED BY <2>1, NothingToKnow DEF EntryPC
<1> QED BY <1>4, <1>5, <1>6, <1>7, <1>8, <1>9, <1>10, <1>11, <1>12
        DEF Acts, JobStep, PassStep

LEMMA CauseStep ==
  ASSUME QueueTypeInv, CauseInv, FailuresStand, [QueueNext]_mqVars
  PROVE  CauseInv'
<1>1. TypeOK /\ [Next]_vars
  BY QueueStepsAreLandings DEF QueueTypeInv, QueueTypeOK
<1>2. ClosingInv' BY <1>1, ClosingStep DEF CauseInv
<1>3. RecordedIsMerged' BY <1>1, RecordedStep DEF CauseInv
<1>4. ASSUME NEW p \in Caller PROVE JobKnows(p)'
  <2>1. CASE Acts(p) BY <2>1, KnowledgeStep
  <2>2. CASE ~Acts(p)
    <3>1. job'[p] = job[p] /\ call'[p] = call[p]
      BY <2>2, SomeoneActs, OthersWait
    <3> QED BY <3>1, KnowledgeStays
  <2> QED BY <2>1, <2>2
<1>5. MergedEntryIsSettled'
  <2> SUFFICES ASSUME NEW e \in Rows', queue'[e].state = "merged",
                      NEW c \in Change \ Late, StackOf[c] = queue'[e].stack
               PROVE  status'[c] # "open"
    BY DEF MergedEntryIsSettled
  <2>1. e \in Rows /\ queue'[e].stack = queue[e].stack
    BY QueueMoves
  <2>2. CASE queue[e].state = "merged"
    <3>1. status[c] # "open"
      BY <2>1, <2>2 DEF CauseInv, EntriesLeaveForCause, MergedEntryIsSettled
    <3> QED BY <1>1, <3>1, SettledChange DEF CauseInv
  <2>3. CASE \E p \in Caller : job[p].entry = e /\ RetireEntry(p)
    <3>1. PICK p \in Caller : job[p].entry = e /\ RetireEntry(p) BY <2>3
    <3>2. status[c] # "open" BY <2>1, <3>1 DEF RetireEntry, CauseInv, JobKnows
    <3> QED BY <1>1, <3>2, SettledChange DEF CauseInv
  <2> QED BY <2>1, <2>2, <2>3, QueueMoves
<1>6. EvictedHasAFailure'
  <2> SUFFICES ASSUME NEW e \in Rows', queue'[e].state = "evicted"
               PROVE  \E c \in Change : StackOf[c] = queue'[e].stack /\ Failed(c)'
    BY DEF EvictedHasAFailure, Failed
  <2>1. e \in Rows /\ queue'[e].stack = queue[e].stack
    BY QueueMoves
  <2>2. \E c \in Change : StackOf[c] = queue[e].stack /\ Failed(c)
    <3>1. CASE queue[e].state = "evicted"
      BY <2>1, <3>1 DEF CauseInv, EntriesLeaveForCause, EvictedHasAFailure, Failed
    <3>2. CASE \E p \in Caller : job[p].entry = e /\ EvictEntry(p)
      BY <2>1, <3>2 DEF EvictEntry, CauseInv, JobKnows
    <3> QED BY <2>1, <3>1, <3>2, QueueMoves
  <2> QED BY <1>1, <2>1, <2>2, FailedStays
<1> QED BY <1>2, <1>3, <1>4, <1>5, <1>6 DEF CauseInv, EntriesLeaveForCause

LEMMA CauseInit == QueueInit => CauseInv
<1> SUFFICES ASSUME QueueInit PROVE CauseInv
  OBVIOUS
<1>1. ClosingInv BY DEF QueueInit, Init, ClosingInv, Settled, Idle
<1>2. RecordedIsMerged BY DEF QueueInit, Init, RecordedIsMerged, Recorded, Idle
<1>3. \A p \in Caller : JobKnows(p)
  BY DEF QueueInit, Init, JobKnows, NoJob, EntryPC
<1>4. EntriesLeaveForCause
  BY InitialQueueAssumption
     DEF QueueInit, EntriesLeaveForCause, MergedEntryIsSettled, EvictedHasAFailure, Rows,
         ACTIVE_ENTRY_STATES
<1> QED BY <1>1, <1>2, <1>3, <1>4 DEF CauseInv

\* No entry leaves the queue for the wrong reason (MergeQueue!EntriesLeaveForCause),
\* for any number of passes, landings, drops and crashes that overlap, as long as
\* CI takes no failure back: an entry retires over a settled stack, and only a
\* failed check evicts.
THEOREM EntriesLeaveOnlyForCause ==
  ASSUME FailuresStand
  PROVE  QueueSpec => []EntriesLeaveForCause
<1>1. QueueInit => CauseInv BY CauseInit
<1>2. QueueTypeInv /\ CauseInv /\ [QueueNext]_mqVars => CauseInv' BY CauseStep
<1>3. CauseInv => EntriesLeaveForCause BY DEF CauseInv
<1> QED BY <1>1, <1>2, <1>3, QueueTypeInvariant, PTL DEF QueueSpec

-----------------------------------------------------------------------------
(***************************************************************************)
(* One active entry per stack.  The look for one and the insert are three  *)
(* steps apart; in between nobody else may insert.                         *)
(***************************************************************************)

\* Enqueues do not overlap.
OneEnqueuer == \A p, q \in Enqueuer : p = q

OneEntryInv ==
  /\ AtMostOneActiveEntry
  /\ \A p \in Pending : p \in Enqueuer /\ ~ActiveEntry(job[p].stack)

\* Only an insert makes a stack active.
LEMMA ActivationMoves ==
  ASSUME QueueTypeInv, [QueueNext]_mqVars
  PROVE  /\ \A e \in Rows : /\ e \in Rows' /\ queue'[e].stack = queue[e].stack
                            /\ queue'[e].state \in ACTIVE_ENTRY_STATES =>
                                 queue[e].state \in ACTIVE_ENTRY_STATES
         /\ \A e \in Rows' \ Rows :
              \E p \in Caller : InsertEntry(p) /\ queue'[e].stack = job[p].stack
BY QueueMoves DEF ACTIVE_ENTRY_STATES

\* Who is about to insert
LEMMA PendingMoves ==
  ASSUME QueueTypeInv, [QueueNext]_mqVars, NEW p \in Caller, p \in Pending'
  PROVE  \/ p \in Pending /\ job'[p].stack = job[p].stack /\ ~InsertEntry(p)
         \/ /\ p \in Enqueuer /\ UNCHANGED queue
            /\ \E s \in Stack : job'[p].stack = s /\ ~ActiveEntry(s)
<1>1. job \in [Caller -> Job] BY DEF QueueTypeInv, QueueTypeOK
<1>2. ASSUME NEW j, SetJob(p, j), j.pc \notin {"max", "insert"} PROVE FALSE
  BY <1>1, <1>2 DEF SetJob, Pending
<1>3. CASE ReadMaxPosition(p)
  <2>1. job'[p] = [pc |-> "insert", stack |-> job[p].stack, position |-> NextPosition]
    BY <1>1, <1>3 DEF ReadMaxPosition, SetJob
  <2> QED BY <1>3, <2>1 DEF ReadMaxPosition, InsertEntry, Pending
<1>4. CASE \/ InsertEntry(p) \/ EndPass(p) \/ StartPass(p) \/ EvictEntry(p)
           \/ RetireEntry(p) \/ QueueCrash(p)
  BY <1>2, <1>4 DEF InsertEntry, EndPass, StartPass, EvictEntry, RetireEntry, LeaveEntry,
                    QueueCrash, SetJob, NoJob
<1>5. CASE SkipEntry(p) \/ TakeEntry(p) \/ TakeOutcome(p) \/ classifyBlockingChangeGate(p)
  <2>1. job[p].pc \in {"entries"} \cup EntryPC
    BY <1>5 DEF SkipEntry, TakeEntry, TakeOutcome, classifyBlockingChangeGate, EntryPC
  <2>2. job[p].pc = "entries" =>
          job[p] \in [pc : {"entries"}, entries : SUBSET (1..MaxEntries)]
    BY <1>1, JobShape
  <2>3. job[p].pc \in EntryPC =>
          job[p] \in [pc : EntryPC, entries : SUBSET (1..MaxEntries),
                      entry : 1..MaxEntries, changes : SUBSET Change]
    BY <1>1, JobShape
  <2>4. CASE SkipEntry(p)
    <3>1. PICK d : SetJob(p, [job[p] EXCEPT !.entries = @ \ {d}]) BY <2>4 DEF SkipEntry
    <3>2. [job[p] EXCEPT !.entries = @ \ {d}].pc = "entries"
      BY <2>2, <2>4 DEF SkipEntry
    <3> QED BY <1>2, <3>1, <3>2
  <2>5. CASE TakeEntry(p)
    <3>1. \E j : SetJob(p, j) /\ j.pc = "changes" BY <2>5 DEF TakeEntry
    <3> QED BY <1>2, <3>1
  <2>6. CASE TakeOutcome(p)
    <3>1. \E j : SetJob(p, j) /\ j.pc \in {"entries"} \cup EntryPC
      <4>1. CASE SetJob(p, [job[p] EXCEPT !.changes = @ \ {call[p].change}])
        BY <2>3, <2>6, <4>1 DEF TakeOutcome, EntryPC
      <4>2. CASE SetJob(p, [job[p] EXCEPT !.pc = "classify", !.changes = {call[p].change}])
        <5>1. [job[p] EXCEPT !.pc = "classify", !.changes = {call[p].change}].pc = "classify"
          BY <2>3, <2>6 DEF TakeOutcome, EntryPC
        <5> QED BY <4>2, <5>1 DEF EntryPC
      <4>3. CASE LeaveEntry(p)
        BY <4>3 DEF LeaveEntry
      <4> QED BY <2>6, <4>1, <4>2, <4>3 DEF TakeOutcome
    <3> QED BY <1>2, <3>1 DEF EntryPC
  <2>7. CASE classifyBlockingChangeGate(p)
    <3>1. \E j : SetJob(p, j) /\ j.pc \in {"entries"} \cup EntryPC
      <4>1. CASE SetJob(p, [job[p] EXCEPT !.pc = "evict"])
        BY <2>3, <2>7, <4>1 DEF classifyBlockingChangeGate, EntryPC
      <4>2. CASE LeaveEntry(p)
        BY <4>2 DEF LeaveEntry
      <4> QED BY <2>7, <4>1, <4>2 DEF classifyBlockingChangeGate
    <3> QED BY <1>2, <3>1 DEF EntryPC
  <2> QED BY <1>5, <2>4, <2>5, <2>6, <2>7
<1>6. ASSUME NEW s \in Stack, StartEnqueue(p, s), p \in Enqueuer
      PROVE  UNCHANGED queue /\ job'[p].stack = s /\ ~ActiveEntry(s)
  BY <1>1, <1>6 DEF StartEnqueue, SetJob
<1>7. CASE job'[p] = job[p]
  <2>1. p \in Pending /\ ~InsertEntry(p)
    BY <1>1, <1>7 DEF Pending, InsertEntry, SetJob, NoJob
  <2> QED BY <1>7, <2>1
<1>8. ASSUME NEW q \in Caller, q # p, Acts(q) PROVE job'[p] = job[p]
  BY <1>8, OthersWait
<1> QED BY <1>3, <1>4, <1>5, <1>6, <1>7, <1>8, QueueAssumption
        DEF QueueNext, Acts, JobStep, PassStep, LandNext, DirectLanding, queueVars, mqVars

LEMMA OneEntryStep ==
  ASSUME OneEnqueuer, QueueTypeInv, OneEntryInv, [QueueNext]_mqVars
  PROVE  OneEntryInv'
<1>1. ASSUME NEW p \in Caller, InsertEntry(p), NEW e \in Rows,
             queue'[e].stack = job[p].stack
      PROVE  queue'[e].state \notin ACTIVE_ENTRY_STATES
  <2>1. p \in Pending BY <1>1 DEF InsertEntry, Pending
  <2>2. ~ActiveEntry(job[p].stack) BY <2>1 DEF OneEntryInv
  <2> QED BY <1>1, <2>2, ActivationMoves DEF ActiveEntry
<1>2. ASSUME NEW p \in Caller, InsertEntry(p), NEW d \in Rows', NEW e \in Rows',
             d \notin Rows, e \notin Rows
      PROVE  d = e
  <2>1. queue \in Seq(Entry) /\ Rows = 1..Len(queue) /\ Len(queue) \in Nat
    BY RowsAre DEF QueueTypeInv, QueueTypeOK
  <2>2. job[p] \in [pc : {"insert"}, stack : Stack, position : Nat]
    BY <1>2, JobShape DEF InsertEntry, QueueTypeInv, QueueTypeOK
  <2>3. \E row \in Entry : queue' = Append(queue, row)
    BY <1>2, <2>2 DEF InsertEntry, Entry, EntryState
  <2>4. Rows' = 1..(Len(queue) + 1)
    BY <2>1, <2>3, AppendProperties, LenProperties DEF Rows
  <2> QED BY <1>2, <2>1, <2>4
<1>3. AtMostOneActiveEntry'
  <2> SUFFICES ASSUME NEW d \in Rows', NEW e \in Rows',
                      queue'[d].stack = queue'[e].stack, queue'[d].stack # NoStack,
                      queue'[d].state \in ACTIVE_ENTRY_STATES,
                      queue'[e].state \in ACTIVE_ENTRY_STATES
               PROVE  d = e
    BY DEF AtMostOneActiveEntry
  <2>1. CASE d \in Rows /\ e \in Rows
    BY <2>1, ActivationMoves DEF OneEntryInv, AtMostOneActiveEntry
  <2>2. CASE d \notin Rows /\ e \notin Rows
    BY <1>2, <2>2, ActivationMoves
  <2>3. CASE d \notin Rows /\ e \in Rows
    BY <1>1, <2>3, ActivationMoves
  <2>4. CASE d \in Rows /\ e \notin Rows
    BY <1>1, <2>4, ActivationMoves
  <2> QED BY <2>1, <2>2, <2>3, <2>4
<1>4. ASSUME NEW p \in Pending', NEW s, s = job'[p].stack
      PROVE  p \in Enqueuer /\ ~ActiveEntry(s)'
  <2>1. p \in Caller BY DEF Pending
  <2>2. CASE p \in Pending /\ job'[p].stack = job[p].stack /\ ~InsertEntry(p)
    <3>1. p \in Enqueuer /\ ~ActiveEntry(job[p].stack) BY <2>2 DEF OneEntryInv
    <3>2. \A q \in Caller : ~InsertEntry(q)
      <4> SUFFICES ASSUME NEW q \in Caller, InsertEntry(q) PROVE FALSE
        OBVIOUS
      <4>1. q \in Pending BY DEF InsertEntry, Pending
      <4>2. q \in Enqueuer BY <4>1 DEF OneEntryInv
      <4> QED BY <2>2, <3>1, <4>2 DEF OneEnqueuer
    <3>3. Rows' = Rows BY <3>2, ActivationMoves
    <3> QED BY <1>4, <2>2, <3>1, <3>3, ActivationMoves DEF ActiveEntry
  <2>3. CASE /\ p \in Enqueuer /\ UNCHANGED queue
             /\ \E t \in Stack : job'[p].stack = t /\ ~ActiveEntry(t)
    BY <1>4, <2>3 DEF ActiveEntry, Rows
  <2> QED BY <2>1, <2>2, <2>3, PendingMoves
<1> QED BY <1>3, <1>4 DEF OneEntryInv, ActiveEntry

\* A stack has at most one active entry (MergeQueue!AtMostOneActiveEntry) as long
\* as enqueues do not overlap and the table held no duplicate before, whatever
\* passes, landings and crashes overlap with the enqueues.
THEOREM NoDuplicateEntries ==
  ASSUME OneEnqueuer
  PROVE  AtMostOneActiveEntry /\ QueueSpec => []AtMostOneActiveEntry
<1>1. AtMostOneActiveEntry /\ QueueInit => OneEntryInv
  BY DEF QueueInit, OneEntryInv, Pending, NoJob
<1>2. QueueTypeInv /\ OneEntryInv /\ [QueueNext]_mqVars => OneEntryInv'
  BY OneEntryStep
<1>3. OneEntryInv => AtMostOneActiveEntry BY DEF OneEntryInv
<1> QED BY <1>1, <1>2, <1>3, QueueTypeInvariant, PTL DEF QueueSpec

-----------------------------------------------------------------------------
(***************************************************************************)
(* Terminal states.  A pass writes an entry by id, long after it read it   *)
(* queued: alone, it is the only one who could have written it since.      *)
(***************************************************************************)

\* Passes do not overlap.
OnePasser == \A p, q \in Passer : p = q

\* The entries a pass still has to process, the one it is at included
Remaining(p) ==
  job[p].entries \cup (IF job[p].pc \in EntryPC THEN {job[p].entry} ELSE {})

Passing(p) == job[p].pc \in {"entries"} \cup EntryPC

PassInv ==
  \A p \in Caller : Passing(p) =>
    /\ p \in Passer
    /\ \A e \in Remaining(p) : queue[e].state = "queued"
    /\ job[p].pc \in EntryPC => job[p].entry \notin job[p].entries

\* A pass goes on with what it read, less what it is done with.
LEMMA PassMoves ==
  ASSUME QueueTypeInv, [QueueNext]_mqVars, NEW p \in Caller, Passing(p)',
         Passing(p) => (job[p].pc \in EntryPC => job[p].entry \notin job[p].entries)
  PROVE  /\ job'[p].pc \in EntryPC => job'[p].entry \notin job'[p].entries
         /\ \/ /\ p \in Passer /\ UNCHANGED queue
               /\ \A e \in Remaining(p)' : e \in Rows /\ queue[e].state = "queued"
            \/ /\ Passing(p) /\ Remaining(p)' \subseteq Remaining(p)
               /\ EvictEntry(p) \/ RetireEntry(p) => job[p].entry \notin Remaining(p)'
<1>1. job \in [Caller -> Job] BY DEF QueueTypeInv, QueueTypeOK
<1>2. ASSUME job'[p].pc \notin {"entries"} \cup EntryPC PROVE FALSE
  BY <1>2 DEF Passing
<1> DEFINE Goes == /\ job'[p].pc \in EntryPC => job'[p].entry \notin job'[p].entries
                   /\ Passing(p) /\ Remaining(p)' \subseteq Remaining(p)
                   /\ EvictEntry(p) \/ RetireEntry(p) => job[p].entry \notin Remaining(p)'
           Rec == [pc : EntryPC, entries : SUBSET (1..MaxEntries),
                   entry : 1..MaxEntries, changes : SUBSET Change]
<1>3. job[p].pc \in EntryPC => job[p] \in Rec BY <1>1, JobShape
<1>4. CASE StartPass(p) /\ p \in Passer
  <2>1. job'[p] = [pc |-> "entries", entries |-> {e \in Rows : queue[e].state = "queued"}]
    BY <1>1, <1>4 DEF StartPass, SetJob
  <2> QED BY <1>4, <2>1 DEF StartPass, Remaining, EntryPC
<1>5. CASE SkipEntry(p)
  <2>1. job[p] \in [pc : {"entries"}, entries : SUBSET (1..MaxEntries)]
    BY <1>1, <1>5, JobShape DEF SkipEntry
  <2>2. PICK d : SetJob(p, [job[p] EXCEPT !.entries = @ \ {d}]) BY <1>5 DEF SkipEntry
  <2>3. job'[p].pc = "entries" /\ job'[p].entries \subseteq job[p].entries
        /\ job[p].pc = "entries"
    BY <1>1, <2>1, <2>2 DEF SetJob
  <2> QED BY <1>5, <2>3 DEF SkipEntry, EvictEntry, RetireEntry, Remaining, Passing, EntryPC
<1>6. CASE TakeEntry(p)
  <2>1. PICK d \in job[p].entries :
          SetJob(p, [pc |-> "changes", entries |-> job[p].entries \ {d}, entry |-> d,
                     changes |-> {c \in Change : /\ StackOf[c] = queue[d].stack
                                                 /\ status[c] = "open"}])
    BY <1>6 DEF TakeEntry, Lowest
  <2>2. /\ job'[p].pc = "changes" /\ job'[p].entries = job[p].entries \ {d}
        /\ job'[p].entry = d /\ job[p].pc = "entries"
    BY <1>1, <1>6, <2>1 DEF SetJob, TakeEntry
  <2> QED BY <1>6, <2>2 DEF EvictEntry, RetireEntry, Remaining, Passing, EntryPC
<1>7. ASSUME job[p].pc \in EntryPC, LeaveEntry(p), Passing(p) PROVE Goes
  <2>1. job'[p] = [pc |-> "entries", entries |-> job[p].entries]
    BY <1>1, <1>7 DEF LeaveEntry, SetJob
  <2> QED BY <1>7, <2>1 DEF Remaining, EntryPC
<1>8. ASSUME job[p].pc \in EntryPC, Passing(p), ~EvictEntry(p), ~RetireEntry(p),
             NEW j \in Rec, SetJob(p, j), j.pc \in EntryPC,
             j.entries = job[p].entries, j.entry = job[p].entry
      PROVE  Goes
  <2>1. job'[p] = j BY <1>1, <1>8 DEF SetJob
  <2> QED BY <1>8, <2>1 DEF Remaining, Passing
<1>9. CASE TakeOutcome(p)
  <2>1. job[p].pc \in EntryPC /\ Passing(p) /\ ~EvictEntry(p) /\ ~RetireEntry(p)
        /\ call[p].change \in Change
    BY <1>9 DEF TakeOutcome, EntryPC, Passing, EvictEntry, RetireEntry, QueueTypeInv,
                QueueTypeOK, TypeOK, Call, Idle, Running, GatePC, LandPC
  <2>2. CASE SetJob(p, [job[p] EXCEPT !.changes = @ \ {call[p].change}])
    <3> DEFINE j == [job[p] EXCEPT !.changes = @ \ {call[p].change}]
    <3>1. j \in Rec /\ j.pc \in EntryPC /\ j.entries = job[p].entries /\ j.entry = job[p].entry
      BY <1>3, <2>1
    <3> HIDE DEF j, Goes, Rec
    <3>2. SetJob(p, j) BY <2>2 DEF j
    <3>3. Goes BY <1>8, <2>1, <3>1, <3>2
    <3> QED BY <3>3 DEF Goes
  <2>3. CASE SetJob(p, [job[p] EXCEPT !.pc = "classify", !.changes = {call[p].change}])
    <3> DEFINE j == [job[p] EXCEPT !.pc = "classify", !.changes = {call[p].change}]
    <3>1. j \in Rec /\ j.pc \in EntryPC /\ j.entries = job[p].entries /\ j.entry = job[p].entry
      BY <1>3, <2>1 DEF EntryPC
    <3> HIDE DEF j, Goes, Rec
    <3>2. SetJob(p, j) BY <2>3 DEF j
    <3>3. Goes BY <1>8, <2>1, <3>1, <3>2
    <3> QED BY <3>3 DEF Goes
  <2>4. CASE LeaveEntry(p)
    BY <1>7, <2>1, <2>4
  <2> QED BY <1>9, <2>2, <2>3, <2>4 DEF TakeOutcome
<1>10. CASE classifyBlockingChangeGate(p)
  <2>1. job[p].pc \in EntryPC /\ Passing(p) /\ ~EvictEntry(p) /\ ~RetireEntry(p)
    BY <1>10 DEF classifyBlockingChangeGate, EntryPC, Passing, EvictEntry, RetireEntry
  <2>2. CASE SetJob(p, [job[p] EXCEPT !.pc = "evict"])
    <3> DEFINE j == [job[p] EXCEPT !.pc = "evict"]
    <3>1. j \in Rec /\ j.pc \in EntryPC /\ j.entries = job[p].entries /\ j.entry = job[p].entry
      BY <1>3, <2>1 DEF EntryPC
    <3> HIDE DEF j, Goes, Rec
    <3>2. SetJob(p, j) BY <2>2 DEF j
    <3>3. Goes BY <1>8, <2>1, <3>1, <3>2
    <3> QED BY <3>3 DEF Goes
  <2>3. CASE LeaveEntry(p) BY <1>7, <2>1, <2>3
  <2> QED BY <1>10, <2>2, <2>3 DEF classifyBlockingChangeGate
<1>11. CASE EvictEntry(p) \/ RetireEntry(p)
  <2>1. job[p].pc \in EntryPC /\ Passing(p) /\ LeaveEntry(p)
    BY <1>11 DEF EvictEntry, RetireEntry, EntryPC, Passing
  <2> QED BY <1>7, <2>1
<1>12. CASE \/ InsertEntry(p) \/ EndPass(p) \/ QueueCrash(p)
            \/ ReadMaxPosition(p) \/ \E s \in Stack : StartEnqueue(p, s)
  <2>1. ASSUME NEW j, job' = [job EXCEPT ![p] = j], j.pc \in {"none", "max", "insert"}
        PROVE  FALSE
    BY <1>1, <1>2, <2>1 DEF EntryPC
  <2>2. CASE InsertEntry(p) \/ EndPass(p) \/ QueueCrash(p)
    BY <2>1, <2>2 DEF InsertEntry, EndPass, QueueCrash, SetJob, NoJob
  <2>3. CASE ReadMaxPosition(p) BY <2>1, <2>3 DEF ReadMaxPosition, SetJob
  <2>4. CASE \E s \in Stack : StartEnqueue(p, s) BY <2>1, <2>4 DEF StartEnqueue, SetJob
  <2> QED BY <1>12, <2>2, <2>3, <2>4
<1>13. CASE job'[p] = job[p] /\ ~EvictEntry(p) /\ ~RetireEntry(p)
  BY <1>13 DEF Passing, Remaining
<1>14. ASSUME NEW q \in Caller, q # p, Acts(q) PROVE job'[p] = job[p]
  BY <1>14, OthersWait
<1>15. CASE JobStep(p) \/ QueueCrash(p) \/ DirectLanding(p) \/ \E s \in Stack : StartEnqueue(p, s)
  BY <1>5, <1>6, <1>9, <1>10, <1>11, <1>12, <1>13, <1>15
     DEF JobStep, PassStep, LandNext, DirectLanding, queueVars
<1>16. CASE job'[p] = job[p] BY <1>11, <1>13, <1>16
<1>17. \/ \E q \in Caller : \/ JobStep(q) \/ QueueCrash(q) \/ DirectLanding(q)
                            \/ \E s \in Stack : StartEnqueue(q, s)
       \/ \E q \in Passer : StartPass(q)
       \/ UNCHANGED job
  BY QueueAssumption DEF QueueNext, queueVars, mqVars
<1> QED BY <1>4, <1>14, <1>15, <1>16, <1>17, QueueAssumption DEF Acts

LEMMA PassStepInv ==
  ASSUME OnePasser, QueueTypeInv, PassInv, [QueueNext]_mqVars
  PROVE  PassInv'
<1> SUFFICES ASSUME NEW p \in Caller, Passing(p)'
             PROVE  /\ p \in Passer
                    /\ \A e \in Remaining(p)' : queue'[e].state = "queued"
                    /\ job'[p].pc \in EntryPC => job'[p].entry \notin job'[p].entries
  BY DEF PassInv
<1>1. Passing(p) => (job[p].pc \in EntryPC => job[p].entry \notin job[p].entries)
  BY DEF PassInv
<1>2. job'[p].pc \in EntryPC => job'[p].entry \notin job'[p].entries
  BY <1>1, PassMoves
<1>3. CASE /\ p \in Passer /\ UNCHANGED queue
           /\ \A e \in Remaining(p)' : e \in Rows /\ queue[e].state = "queued"
  BY <1>2, <1>3
<1>4. CASE /\ Passing(p) /\ Remaining(p)' \subseteq Remaining(p)
           /\ EvictEntry(p) \/ RetireEntry(p) => job[p].entry \notin Remaining(p)'
  <2>1. p \in Passer /\ \A e \in Remaining(p) : queue[e].state = "queued"
    BY <1>4 DEF PassInv
  <2>2. ASSUME NEW e \in Remaining(p)' PROVE queue'[e].state = "queued"
    <3>1. e \in Remaining(p) BY <1>4
    <3>2. e \in Rows BY <1>4, <3>1 DEF Remaining, QueueTypeInv, Passing
    <3>3. ASSUME NEW q \in Caller, job[q].entry = e, EvictEntry(q) \/ RetireEntry(q)
          PROVE  FALSE
      <4>1. Passing(q) BY <3>3 DEF EvictEntry, RetireEntry, Passing, EntryPC
      <4>2. q = p BY <2>1, <4>1 DEF PassInv, OnePasser
      <4> QED BY <1>4, <2>2, <3>3, <4>2
    <3> QED BY <2>1, <3>1, <3>2, <3>3, QueueMoves
  <2> QED BY <1>2, <2>1, <2>2
<1> QED BY <1>1, <1>3, <1>4, PassMoves

\* An entry that was merged or evicted keeps its state
\* (MergeQueue!TerminalStatesAreFinal) as long as passes do not overlap: drops,
\* direct landings, enqueues and crashes may.
THEOREM TerminalEntriesStay ==
  ASSUME OnePasser
  PROVE  QueueSpec => TerminalStatesAreFinal
<1>1. QueueInit => PassInv
  BY DEF QueueInit, PassInv, Passing, NoJob, EntryPC
<1>2. QueueTypeInv /\ PassInv /\ [QueueNext]_mqVars => PassInv'
  BY PassStepInv
<1>3. QueueTypeInv /\ PassInv /\ [QueueNext]_mqVars =>
        [ \A e \in Rows : queue[e].state \in {"merged", "evicted"} =>
            queue'[e].state = queue[e].state ]_mqVars
  <2> SUFFICES ASSUME QueueTypeInv, PassInv, [QueueNext]_mqVars, NEW e \in Rows,
                      queue[e].state \in {"merged", "evicted"}
               PROVE  queue'[e].state = queue[e].state
    OBVIOUS
  <2>1. ASSUME NEW p \in Caller, job[p].entry = e, EvictEntry(p) \/ RetireEntry(p)
        PROVE  FALSE
    BY <2>1 DEF EvictEntry, RetireEntry, PassInv, Passing, Remaining, EntryPC
  <2> QED BY <2>1, QueueMoves
<1> QED BY <1>1, <1>2, <1>3, QueueTypeInvariant, PTL DEF QueueSpec, TerminalStatesAreFinal

=============================================================================
