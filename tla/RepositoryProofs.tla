-------------------------- MODULE RepositoryProofs --------------------------
(***************************************************************************)
(* Theorems about Repository, for every set of handlers, rows and names.   *)
(***************************************************************************)
EXTENDS Repository, FiniteSetTheorems, TLAPS

-----------------------------------------------------------------------------
(***************************************************************************)
(* Type correctness, with what a handler carries at each of its steps.     *)
(***************************************************************************)

LiveRow == [slug : Slug, place : Place, patched : BOOLEAN]
Row == {NoRepo, Deleted} \cup LiveRow

One == {{r} : r \in Repo}

Creation(pcs, ids) ==
  [pc : pcs, id : ids, slugs : SUBSET Slug, slug : Slug, place : Place]
AtPath == [pc : {"initialize", "unlink", "deleteRow"}, id : One, slugs : SUBSET Slug,
           path : Path]
Renaming == [pc : {"updateRow", "move", "undoRename"}, id : One, slugs : SUBSET Slug,
             dir : Dir, old : Slug, new : Slug]
ReadsRow == [pc : {"readRow"}, id : One, slugs : SUBSET Slug, head : Branch]
Syncs == [pc : {"sync"}, id : One, slugs : SUBSET Slug, path : Path, head : Branch]

Call == {Idle} \cup Creation({"insert"}, {{}}) \cup Creation({"init", "undoCreate"}, One)
        \cup AtPath \cup Renaming \cup ReadsRow \cup Syncs

Bare == [on : BOOLEAN, branches : SUBSET Branch, head : Branch]

TypeInv ==
  /\ row \in [Repo -> Row]
  /\ store \in [Path -> Bare]
  /\ call \in [Caller -> Call]
  /\ crashes \in 0..MaxCrashes

LEMMA CallShape ==
  ASSUME NEW x \in Call
  PROVE  /\ x.pc = "idle" => x = Idle
         /\ x.pc = "insert" => x \in Creation({"insert"}, {{}})
         /\ x.pc \in {"init", "undoCreate"} => x \in Creation({"init", "undoCreate"}, One)
         /\ x.pc \in {"initialize", "unlink", "deleteRow"} => x \in AtPath
         /\ x.pc \in {"updateRow", "move", "undoRename"} => x \in Renaming
         /\ x.pc = "readRow" => x \in ReadsRow
         /\ x.pc = "sync" => x \in Syncs
         /\ x.pc \in {"idle", "insert"} => x.id = {}
         /\ x.pc \notin {"idle", "insert"} => x.id \in One
         /\ x.slugs \subseteq Slug
BY DEF Call, Idle, Creation, AtPath, Renaming, ReadsRow, Syncs

LEMMA AnswerType ==
  ASSUME TypeInv, NEW p \in Caller, Answer(p)
  PROVE  call' \in [Caller -> Call]
BY DEF TypeInv, Answer, Call

\* Going on to the next step of the same operation
LEMMA GotoType ==
  ASSUME TypeInv, NEW p \in Caller, NEW pc, Goto(p, pc),
         \/ call[p].pc \in {"init", "undoCreate"} /\ pc \in {"init", "undoCreate"}
         \/ /\ call[p].pc \in {"updateRow", "move", "undoRename"}
            /\ pc \in {"updateRow", "move", "undoRename"}
         \/ call[p].pc = "unlink" /\ pc = "deleteRow"
  PROVE  call' \in [Caller -> Call]
<1> DEFINE went == [call[p] EXCEPT !.pc = pc]
<1>1. call[p] \in Call BY DEF TypeInv
<1>2. went \in Call
  <2>1. CASE call[p].pc \in {"init", "undoCreate"} /\ pc \in {"init", "undoCreate"}
    BY <1>1, <2>1, CallShape DEF Creation, Call
  <2>2. CASE /\ call[p].pc \in {"updateRow", "move", "undoRename"}
             /\ pc \in {"updateRow", "move", "undoRename"}
    BY <1>1, <2>2, CallShape DEF Renaming, Call
  <2>3. CASE call[p].pc = "unlink" /\ pc = "deleteRow"
    BY <1>1, <2>3, CallShape DEF AtPath, Call
  <2> QED BY <2>1, <2>2, <2>3
<1> QED BY <1>2 DEF Goto, TypeInv

LEMMA LiveRows ==
  ASSUME TypeInv, NEW r \in Live
  PROVE  r \in Repo /\ row[r] \in LiveRow /\ Home(r) \in Path
         /\ <<getOwnerSlug(r), row[r].slug>> \in Path
BY RepositoryAssumption
   DEF Live, TypeInv, Row, NoRepo, Deleted, LiveRow, Home, Path, Dir, getOwnerSlug

\* A patch of the place writes one row, and nothing of its name.
LEMMA PatchedRows ==
  ASSUME TypeInv, NEW r \in Repo, NEW place \in Patched, PatchPlace(r, place)
  PROVE  /\ row'[r] \in LiveRow /\ row'[r].slug = row[r].slug /\ row'[r].patched
         /\ \A i \in Repo \ {r} : row'[i] = row[i]
         /\ DOMAIN row' = Repo /\ row' = [i \in Repo |-> row'[i]]
         /\ Live' = Live /\ r \in Live
<1>1. r \in Live /\ row[r] \in LiveRow BY LiveRows DEF PatchPlace
<1>2. place \in Place BY RepositoryAssumption DEF Place
<1>3. row' = [row EXCEPT ![r] = [slug |-> row[r].slug, place |-> place, patched |-> TRUE]]
  BY DEF PatchPlace
<1>4. row \in [Repo -> Row] BY DEF TypeInv
<1>5. /\ row'[r] = [slug |-> row[r].slug, place |-> place, patched |-> TRUE]
      /\ \A i \in Repo \ {r} : row'[i] = row[i]
      /\ DOMAIN row' = Repo /\ row' = [i \in Repo |-> row'[i]]
  BY <1>3, <1>4
<1>6. row'[r] \in LiveRow /\ row'[r].slug = row[r].slug /\ row'[r].patched
  BY <1>1, <1>2, <1>5 DEF LiveRow
<1>7. Live' = Live BY <1>1, <1>5, <1>6 DEF Live
<1> QED BY <1>1, <1>5, <1>6, <1>7

LEMMA InitType ==
  ASSUME TypeInv, NEW x \in Path
  PROVE  init(x) \in [Path -> Bare] /\ delete(x) \in [Path -> Bare]
BY RepositoryAssumption DEF TypeInv, init, delete, NoStore, Bare

LEMMA RenameType ==
  ASSUME TypeInv, NEW x \in Path, NEW y \in Path
  PROVE  rename(x, y) \in [Path -> Bare]
BY RepositoryAssumption DEF TypeInv, rename, NoStore, Bare

LEMMA HeadType ==
  ASSUME TypeInv, NEW x \in Path, NEW b \in Branch
  PROVE  setDefaultBranch(x, b) \in [Path -> Bare]
<1>1. store \in [Path -> Bare] BY DEF TypeInv
<1>2. [store[x] EXCEPT !.head = b] \in Bare BY <1>1 DEF Bare
<1> QED BY <1>1, <1>2 DEF setDefaultBranch

\* A storage operation did what it does, or nothing.
LEMMA OutcomeStore ==
  ASSUME NEW pc, NEW did, NEW o \in Outcomes(pc, did)
  PROVE  /\ o.store = did \/ (o.store = store /\ ~o.ok /\ pc \in FailAt)
         /\ o.ok => o.store = did
         /\ ~o.ok /\ pc \notin LostAt => o.store = store
BY DEF Outcomes

LEMMA SetSlugType ==
  ASSUME TypeInv, NEW p \in Caller, NEW s \in Slug, SetSlug(p, s)
  PROVE  row' \in [Repo -> Row]
<1>1. ASSUME NEW r \in Live PROVE [row[r] EXCEPT !.slug = s] \in LiveRow
  BY <1>1, LiveRows DEF LiveRow
<1> QED BY <1>1 DEF SetSlug, TypeInv, Row

LEMMA RemoveType ==
  ASSUME TypeInv, NEW p \in Caller,
         row' = [r \in Repo |-> IF r \in call[p].id THEN Deleted ELSE row[r]]
  PROVE  row' \in [Repo -> Row]
BY DEF TypeInv, Row

LEMMA StartType ==
  ASSUME TypeInv, NEW p \in Caller, NEW x \in Call, call' = [call EXCEPT ![p] = x]
  PROVE  call' \in [Caller -> Call]
BY DEF TypeInv

\* The insert, with the row id it takes
Inserts(p, r) ==
  /\ row[r] = NoRepo /\ ~Taken(call[p].slug)
  /\ row' = [row EXCEPT ![r] = [slug |-> call[p].slug, place |-> call[p].place,
                                patched |-> FALSE]]
  /\ call' = [call EXCEPT ![p] = [call[p] EXCEPT !.pc = "init", !.id = {r}]]

LEMMA InsertMoves ==
  ASSUME NEW p, InsertRow(p)
  PROVE  (Answer(p) /\ UNCHANGED row) \/ \E r \in Repo : Inserts(p, r)
<1> DEFINE r == CHOOSE i \in Repo : row[i] = NoRepo
<1>1. CASE Taken(call[p].slug) \/ ~\E i \in Repo : row[i] = NoRepo
  BY <1>1 DEF InsertRow
<1>2. CASE ~Taken(call[p].slug) /\ \E i \in Repo : row[i] = NoRepo
  <2>1. r \in Repo /\ row[r] = NoRepo BY <1>2
  <2>2. row' = [row EXCEPT ![r] = [slug |-> call[p].slug, place |-> call[p].place,
                                patched |-> FALSE]]
    BY <1>2 DEF InsertRow
  <2>3. call' = [call EXCEPT ![p].pc = "init", ![p].id = {r}]
    BY <1>2 DEF InsertRow
  <2> HIDE DEF r
  <2>4. Inserts(p, r) BY <1>2, <2>1, <2>2, <2>3 DEF Inserts
  <2> QED BY <2>1, <2>4
<1> QED BY <1>1, <1>2

LEMMA TypeStep == TypeInv /\ [Next]_vars => TypeInv'
<1> SUFFICES ASSUME TypeInv, [Next]_vars PROVE TypeInv'
  OBVIOUS
<1>0. call \in [Caller -> Call] BY DEF TypeInv
<1>1. ASSUME NEW p \in Caller, NEW s \in Slug, NEW place \in Created, StartCreate(p, s, place)
      PROVE  TypeInv'
  <2>0. place \in Place BY RepositoryAssumption DEF Place
  <2>1. [pc |-> "insert", id |-> {}, slugs |-> {s}, slug |-> s, place |-> place] \in Call
    BY <2>0 DEF Call, Creation
  <2> QED BY <1>1, <2>1, AnswerType, StartType DEF StartCreate, TypeInv
<1>2. ASSUME NEW p \in Caller, NEW r \in Repo, StartInitialize(p, r) PROVE TypeInv'
  <2>1. [pc |-> "initialize", id |-> {r}, slugs |-> {row[r].slug},
         path |-> <<getOwnerSlug(r), row[r].slug>>] \in Call
    BY <1>2, LiveRows DEF StartInitialize, Call, AtPath, One, LiveRow
  <2> QED BY <1>2, <2>1, StartType DEF StartInitialize, TypeInv
<1>3. ASSUME NEW p \in Caller, NEW r \in Repo, NEW s \in Slug, StartRename(p, r, s)
      PROVE  TypeInv'
  <2>1. [pc |-> "updateRow", id |-> {r}, slugs |-> {s, row[r].slug},
         dir |-> getOwnerSlug(r), old |-> row[r].slug, new |-> s] \in Call
    BY <1>3, LiveRows DEF StartRename, Call, Renaming, One, LiveRow, getOwnerSlug, Dir
  <2> QED BY <1>3, <2>1, StartType, AnswerType DEF StartRename, TypeInv
<1>4. ASSUME NEW p \in Caller, NEW r \in Repo, StartDelete(p, r) PROVE TypeInv'
  <2>1. [pc |-> "unlink", id |-> {r}, slugs |-> {row[r].slug}, path |-> Home(r)] \in Call
    BY <1>4, LiveRows DEF StartDelete, Call, AtPath, One, LiveRow
  <2> QED BY <1>4, <2>1, StartType DEF StartDelete, TypeInv
<1>5. ASSUME NEW p \in Caller, NEW r \in Repo, NEW b \in Branch, UpdateDefaultBranch(p, r, b)
      PROVE  TypeInv'
  <2>1. [pc |-> "readRow", id |-> {r}, slugs |-> {row[r].slug}, head |-> b] \in Call
    BY <1>5, LiveRows DEF UpdateDefaultBranch, Call, ReadsRow, One, LiveRow
  <2> QED BY <1>5, <2>1, StartType DEF UpdateDefaultBranch, TypeInv
<1>6. ASSUME NEW p \in Caller, InsertRow(p) PROVE TypeInv'
  <2>1. call[p] \in Creation({"insert"}, {{}}) BY <1>0, <1>6, CallShape DEF InsertRow
  <2>2. CASE Answer(p) /\ UNCHANGED row
    BY <1>6, <2>2, AnswerType DEF InsertRow, TypeInv
  <2>3. ASSUME NEW r \in Repo, Inserts(p, r) PROVE TypeInv'
    <3>1. [call[p] EXCEPT !.pc = "init", !.id = {r}] \in Creation({"init", "undoCreate"}, One)
      BY <2>1 DEF Creation, One
    <3>2. [call[p] EXCEPT !.pc = "init", !.id = {r}] \in Call BY <3>1 DEF Call
    <3>3. call' \in [Caller -> Call] BY <2>3, <3>2, StartType DEF Inserts
    <3>4. row' \in [Repo -> Row] BY <2>1, <2>3 DEF TypeInv, Row, LiveRow, Creation, Inserts
    <3> QED BY <1>6, <3>3, <3>4 DEF InsertRow, TypeInv
  <2> QED BY <1>6, <2>2, <2>3, InsertMoves
<1>7. ASSUME NEW p \in Caller, InitStorage(p) PROVE TypeInv'
  <2>1. <<"user", call[p].slug>> \in Path
    BY <1>0, <1>7, CallShape DEF InitStorage, Creation, Path, Dir
  <2>2. store' \in [Path -> Bare]
    BY <1>7, <2>1, InitType, OutcomeStore DEF InitStorage, TypeInv
  <2>3. call' \in [Caller -> Call]
    BY <1>7, AnswerType, GotoType DEF InitStorage
  <2> QED BY <1>7, <2>2, <2>3 DEF InitStorage, TypeInv
<1>8. ASSUME NEW p \in Caller, UndoCreate(p) PROVE TypeInv'
  BY <1>8, AnswerType, RemoveType DEF UndoCreate, TypeInv
<1>9. ASSUME NEW p \in Caller, Initialize(p) PROVE TypeInv'
  <2>1. call[p].path \in Path BY <1>0, <1>9, CallShape DEF Initialize, AtPath
  <2>2. store' \in [Path -> Bare]
    BY <1>9, <2>1, InitType, OutcomeStore DEF Initialize, TypeInv
  <2> QED BY <1>9, <2>2, AnswerType DEF Initialize, TypeInv
<1>10. ASSUME NEW p \in Caller, UpdateRow(p) PROVE TypeInv'
  <2>1. call[p].new \in Slug BY <1>0, <1>10, CallShape DEF UpdateRow, Renaming
  <2>2. row' \in [Repo -> Row] BY <1>10, <2>1, SetSlugType DEF UpdateRow, TypeInv
  <2>3. call' \in [Caller -> Call] BY <1>10, AnswerType, GotoType DEF UpdateRow
  <2> QED BY <1>10, <2>2, <2>3 DEF UpdateRow, TypeInv
<1>11. ASSUME NEW p \in Caller, MoveStorage(p) PROVE TypeInv'
  <2> DEFINE moved == rename(<<call[p].dir, call[p].old>>, <<call[p].dir, call[p].new>>)
  <2>1. moved \in [Path -> Bare]
    BY <1>0, <1>11, CallShape, RenameType DEF MoveStorage, Renaming, Path
  <2> HIDE DEF moved
  <2>2. PICK o \in Outcomes("move", moved) : store' = o.store
    BY <1>11 DEF MoveStorage, moved
  <2>3. store' \in [Path -> Bare] BY <2>1, <2>2, OutcomeStore DEF TypeInv
  <2>4. call' \in [Caller -> Call] BY <1>11, AnswerType, GotoType DEF MoveStorage
  <2> QED BY <1>11, <2>3, <2>4 DEF MoveStorage, TypeInv
<1>12. ASSUME NEW p \in Caller, UndoRename(p) PROVE TypeInv'
  <2>1. call[p].old \in Slug BY <1>0, <1>12, CallShape DEF UndoRename, Renaming
  <2>2. row' \in [Repo -> Row] BY <1>12, <2>1, SetSlugType DEF UndoRename, TypeInv
  <2> QED BY <1>12, <2>2, AnswerType DEF UndoRename, TypeInv
<1>13. ASSUME NEW p \in Caller, deleteRepositoryStorageById(p) PROVE TypeInv'
  <2>1. call[p].path \in Path
    BY <1>0, <1>13, CallShape DEF deleteRepositoryStorageById, AtPath
  <2>2. store' \in [Path -> Bare]
    BY <1>13, <2>1, InitType, OutcomeStore DEF deleteRepositoryStorageById, TypeInv
  <2>3. call' \in [Caller -> Call] BY <1>13, GotoType DEF deleteRepositoryStorageById
  <2> QED BY <1>13, <2>2, <2>3 DEF deleteRepositoryStorageById, TypeInv
<1>14. ASSUME NEW p \in Caller, DeleteRow(p) PROVE TypeInv'
  BY <1>14, AnswerType, RemoveType DEF DeleteRow, TypeInv
<1>15. ASSUME NEW p \in Caller, ReadRow(p) PROVE TypeInv'
  <2>1. CASE call[p].id \cap Live = {}
    BY <1>15, <2>1, AnswerType DEF ReadRow, TypeInv
  <2>2. CASE call[p].id \cap Live # {}
    <3>1. call[p] \in ReadsRow BY <1>0, <1>15, CallShape DEF ReadRow
    <3>2. PICK r \in Live : call[p].id = {r} BY <2>2, <3>1 DEF ReadsRow, One
    <3>3. (CHOOSE i \in call[p].id : TRUE) = r BY <3>2
    <3> DEFINE next == [pc |-> "sync", id |-> {r}, slugs |-> call[p].slugs,
                        path |-> <<getOwnerSlug(r), row[r].slug>>, head |-> call[p].head]
    <3>4. next \in Call
      <4>1. r \in Repo /\ <<getOwnerSlug(r), row[r].slug>> \in Path BY LiveRows
      <4>2. next \in Syncs BY <3>1, <4>1 DEF ReadsRow, Syncs, One
      <4> QED BY <4>2 DEF Call
    <3>5. call' = [call EXCEPT ![p] = next] BY <1>15, <2>2, <3>3 DEF ReadRow
    <3> QED BY <1>15, <3>4, <3>5, StartType DEF ReadRow, TypeInv
  <2> QED BY <2>1, <2>2
<1>16. ASSUME NEW p \in Caller, syncDefaultBranch(p) PROVE TypeInv'
  <2>1. call[p].path \in Path /\ call[p].head \in Branch
    BY <1>0, <1>16, CallShape DEF syncDefaultBranch, Syncs
  <2>2. store' \in [Path -> Bare]
    BY <1>16, <2>1, HeadType, OutcomeStore DEF syncDefaultBranch, TypeInv
  <2> QED BY <1>16, <2>2, AnswerType DEF syncDefaultBranch, TypeInv
<1>17. ASSUME NEW r \in Repo, NEW b \in Pushed, Push(r, b) PROVE TypeInv'
  <2>1. Home(r) \in Path BY <1>17, LiveRows DEF Push
  <2>2. [store[Home(r)] EXCEPT !.branches = @ \cup {b}] \in Bare
    BY <2>1, RepositoryAssumption DEF TypeInv, Bare
  <2>3. store' \in [Path -> Bare] BY <1>17, <2>1, <2>2 DEF Push, TypeInv
  <2> QED BY <1>17, <2>3 DEF Push, TypeInv
<1>18. ASSUME NEW p \in Caller, Crash(p) PROVE TypeInv'
  <2>1. crashes' \in 0..MaxCrashes BY <1>18, RepositoryAssumption DEF Crash, TypeInv
  <2> QED BY <1>18, <2>1, AnswerType DEF Crash, TypeInv
<1>19. CASE UNCHANGED vars BY <1>19 DEF vars, TypeInv
<1>20. ASSUME NEW r \in Repo, NEW place \in Patched, PatchPlace(r, place) PROVE TypeInv'
  <2>1. row' \in [Repo -> Row] BY <1>20, PatchedRows DEF TypeInv, Row
  <2> QED BY <1>20, <2>1 DEF PatchPlace, TypeInv
<1> QED BY <1>1, <1>2, <1>3, <1>4, <1>5, <1>6, <1>7, <1>8, <1>9, <1>10, <1>11, <1>12,
           <1>13, <1>14, <1>15, <1>16, <1>17, <1>18, <1>19, <1>20 DEF Next, CallStep

LEMMA TypeInit == Init => TypeInv
BY RepositoryAssumption DEF Init, TypeInv, Row, NoStore, Bare, Call

LEMMA TypeInvariant == Spec => []TypeInv
<1>1. Init => TypeInv BY TypeInit
<1>2. TypeInv /\ [Next]_vars => TypeInv' BY TypeStep
<1> QED BY <1>1, <1>2, PTL DEF Spec

\* Every row, repository on disk and handler keeps its type (Repository!TypeOK),
\* whatever fails, dies or overlaps; a handler works on one repository at most.
THEOREM TypeCorrect == Spec => []TypeOK
<1>1. TypeInv => TypeOK
  <2> SUFFICES ASSUME TypeInv PROVE TypeOK
    OBVIOUS
  <2>1. ASSUME NEW p \in Caller
        PROVE  /\ call[p].id \subseteq Repo /\ Cardinality(call[p].id) <= 1
               /\ call[p].slugs \subseteq Slug
    <3>1. call[p] \in Call BY DEF TypeInv
    <3>2. call[p].id = {} \/ call[p].id \in One BY <3>1, CallShape
    <3>3. CASE call[p].id = {} BY <3>1, <3>3, FS_EmptySet, CallShape
    <3>4. ASSUME NEW r \in Repo, call[p].id = {r}
          PROVE  call[p].id \subseteq Repo /\ Cardinality(call[p].id) <= 1
      <4>1. Cardinality({r}) = 1 BY FS_Singleton
      <4> QED BY <3>4, <4>1
    <3> QED BY <3>1, <3>2, <3>3, <3>4, CallShape DEF One
  <2> QED BY <2>1 DEF TypeInv, TypeOK, Row, LiveRow, Bare
<1> QED BY <1>1, TypeInvariant, PTL

-----------------------------------------------------------------------------
(***************************************************************************)
(* The plan's limit.  A creation that passed the check counts against it   *)
(* before its row is there.                                                *)
(***************************************************************************)

Private == {r \in Live : Counted(row[r].place)}
Fresh == {r \in Private : ~row[r].patched}
Passed == {p \in Caller : call[p].pc = "insert" /\ Counted(call[p].place)}

LimitInv == Cardinality(Fresh) + Cardinality(Passed) <= Limit + Cardinality(Caller) - 1

LEMMA Counts ==
  /\ PrivateCount \in Nat
  /\ IsFiniteSet(Fresh) /\ Cardinality(Fresh) \in Nat /\ Cardinality(Fresh) <= PrivateCount
  /\ IsFiniteSet(Passed) /\ Cardinality(Passed) \in Nat
  /\ Cardinality(Passed) <= Cardinality(Caller)
  /\ Cardinality(Caller) \in Nat /\ Cardinality(Caller) >= 1
<1>1. IsFiniteSet(Private) /\ PrivateCount = Cardinality(Private)
  BY RepositoryAssumption, FS_Subset DEF Private, PrivateCount, Live
<1>2. IsFiniteSet(Passed) /\ Cardinality(Passed) <= Cardinality(Caller)
  BY RepositoryAssumption, FS_Subset DEF Passed
<1>3. Cardinality(Caller) \in Nat /\ Cardinality(Caller) # 0
  BY RepositoryAssumption, FS_EmptySet, FS_CardinalityType
<1>4. IsFiniteSet(Fresh) /\ Cardinality(Fresh) <= Cardinality(Private)
  BY <1>1, FS_Subset DEF Fresh
<1> QED BY <1>1, <1>2, <1>3, <1>4, FS_CardinalityType

\* A step that makes neither a private row nor a creation that passed
LEMMA NoMorePrivate ==
  ASSUME LimitInv, Fresh' \subseteq Fresh, Passed' \subseteq Passed
  PROVE  LimitInv'
<1>2. Cardinality(Fresh') <= Cardinality(Fresh) /\ Cardinality(Fresh') \in Nat
  BY Counts, FS_Subset, FS_CardinalityType
<1>3. Cardinality(Passed') <= Cardinality(Passed) /\ Cardinality(Passed') \in Nat
  BY Counts, FS_Subset, FS_CardinalityType
<1> QED BY <1>2, <1>3, Counts, RepositoryAssumption DEF LimitInv

LEMMA NotPassed ==
  ASSUME TypeInv, NEW p \in Caller, NEW x, call' = [call EXCEPT ![p] = x], x.pc # "insert"
  PROVE  Passed' = Passed \ {p}
BY DEF TypeInv, Passed

LEMMA AnswerPasses ==
  ASSUME TypeInv, NEW p \in Caller, Answer(p)
  PROVE  Passed' \subseteq Passed
<1>1. Idle.pc # "insert" BY DEF Idle
<1>2. call' = [call EXCEPT ![p] = Idle] BY DEF Answer
<1> HIDE DEF Idle
<1> QED BY <1>1, <1>2, NotPassed

LEMMA LimitStep == TypeInv /\ LimitInv /\ [Next]_vars => LimitInv'
<1> SUFFICES ASSUME TypeInv, LimitInv, [Next]_vars PROVE LimitInv'
  OBVIOUS
<1>1. row \in [Repo -> Row] /\ call \in [Caller -> Call] BY DEF TypeInv
<1>2. ASSUME NEW p \in Caller, NEW s \in Slug, NEW place \in Created, StartCreate(p, s, place)
      PROVE  LimitInv'
  <2> DEFINE x == [pc |-> "insert", id |-> {}, slugs |-> {s}, slug |-> s, place |-> place]
  <2>1. Fresh' = Fresh BY <1>2 DEF StartCreate, Fresh, Private, Live
  <2>2. CASE Counted(place) /\ ~isWithinLimit(PrivateCount)
    BY <1>2, <2>1, <2>2, AnswerPasses, NoMorePrivate DEF StartCreate
  <2>3. CASE Counted(place) /\ isWithinLimit(PrivateCount)
    <3>1. PrivateCount < Limit BY <2>3 DEF isWithinLimit
    <3>2. Cardinality(Passed') <= Cardinality(Caller) /\ Cardinality(Passed') \in Nat
      BY RepositoryAssumption, FS_Subset, FS_CardinalityType DEF Passed
    <3> QED BY <2>1, <3>1, <3>2, Counts, RepositoryAssumption DEF LimitInv
  <2>4. CASE ~Counted(place)
    <3>1. call' = [call EXCEPT ![p] = x] BY <1>2, <2>4 DEF StartCreate
    <3>2. Passed' \subseteq Passed BY <1>1, <2>4, <3>1 DEF Passed
    <3> QED BY <2>1, <3>2, NoMorePrivate
  <2> QED BY <2>2, <2>3, <2>4
<1>3. ASSUME NEW p \in Caller, NEW r \in Repo, Inserts(p, r), call[p].pc = "insert"
      PROVE  LimitInv'
  <2>1. call[p] \in Creation({"insert"}, {{}}) BY <1>1, <1>3, CallShape
  <2>2. row[r] = NoRepo /\ r \notin Live
    BY <1>3, RepositoryAssumption DEF Inserts, Live, NoRepo
  <2>3. Fresh' = IF Counted(call[p].place) THEN Fresh \cup {r} ELSE Fresh
    <3>1. row'[r] = [slug |-> call[p].slug, place |-> call[p].place, patched |-> FALSE]
      BY <1>1, <1>3 DEF Inserts
    <3>2. \A i \in Repo \ {r} : row'[i] = row[i] BY <1>1, <1>3 DEF Inserts
    <3>3. Live' = Live \cup {r} BY <2>1, <3>1, <3>2 DEF Live, Creation
    <3>4. r \in Fresh' <=> Counted(call[p].place)
      BY <3>1, <3>3 DEF Fresh, Private, Counted
    <3>5. \A i \in Repo \ {r} : i \in Fresh' <=> i \in Fresh
      BY <3>2, <3>3 DEF Fresh, Private, Counted
    <3>6. Fresh \subseteq Repo /\ Fresh' \subseteq Repo /\ r \notin Fresh
      BY <2>2 DEF Fresh, Private, Live
    <3> QED BY <3>4, <3>5, <3>6
  <2>4. Passed' = Passed \ {p}
    <3> DEFINE x == [call[p] EXCEPT !.pc = "init", !.id = {r}]
    <3>1. x.pc = "init" BY <2>1 DEF Creation
    <3> HIDE DEF x
    <3>2. call' = [call EXCEPT ![p] = x] BY <1>3 DEF Inserts, x
    <3> QED BY <3>1, <3>2, NotPassed
  <2>5. CASE ~Counted(call[p].place) BY <2>3, <2>4, <2>5, NoMorePrivate
  <2>6. CASE Counted(call[p].place)
    <3>1. p \in Passed /\ r \notin Fresh BY <1>3, <2>2, <2>6 DEF Passed, Fresh, Private
    <3>2. Cardinality(Passed') = Cardinality(Passed) - 1
      BY <2>4, <3>1, Counts, FS_RemoveElement
    <3>3. Cardinality(Fresh') = Cardinality(Fresh) + 1
      BY <2>3, <2>6, <3>1, Counts, FS_AddElement
    <3> QED BY <3>2, <3>3, Counts, RepositoryAssumption DEF LimitInv
  <2> QED BY <2>5, <2>6
<1>4. ASSUME NEW p \in Caller, Answer(p), UNCHANGED row PROVE LimitInv'
  BY <1>4, AnswerPasses, NoMorePrivate DEF Fresh, Private, Live
<1>5. ASSUME NEW p \in Caller, NEW pc, Goto(p, pc), pc # "insert", call[p].pc # "idle"
      PROVE  Passed' \subseteq Passed
  <2> DEFINE x == [call[p] EXCEPT !.pc = pc]
  <2>1. call[p] \in Call BY <1>1
  <2>2. x.pc = pc BY <2>1 DEF Call, Idle, Creation, AtPath, Renaming, ReadsRow, Syncs
  <2> HIDE DEF x
  <2>3. call' = [call EXCEPT ![p] = x] BY <1>5 DEF Goto, x
  <2> QED BY <1>5, <2>2, <2>3, NotPassed
<1>6. UNCHANGED row => Fresh' = Fresh BY DEF Fresh, Private, Live
<1>7. ASSUME NEW p \in Caller, \/ \E r \in Repo : StartInitialize(p, r)
                               \/ \E r \in Repo : StartDelete(p, r)
                               \/ \E r \in Repo, s \in Slug : StartRename(p, r, s)
                               \/ \E r \in Repo, b \in Branch : UpdateDefaultBranch(p, r, b)
      PROVE  LimitInv'
  <2>1. Passed' \subseteq Passed
    <3>1. CASE \E r \in Repo : StartInitialize(p, r) BY <1>1, <3>1 DEF StartInitialize, Passed
    <3>2. CASE \E r \in Repo : StartDelete(p, r) BY <1>1, <3>2 DEF StartDelete, Passed
    <3>3. CASE \E r \in Repo, s \in Slug : StartRename(p, r, s)
      <4>1. PICK r \in Repo, s \in Slug : StartRename(p, r, s) BY <3>3
      <4>2. CASE Taken(s) BY <4>1, <4>2, AnswerPasses DEF StartRename
      <4>3. CASE ~Taken(s) BY <1>1, <4>1, <4>3 DEF StartRename, Passed
      <4> QED BY <4>2, <4>3
    <3>4. CASE \E r \in Repo, b \in Branch : UpdateDefaultBranch(p, r, b)
      BY <1>1, <3>4 DEF UpdateDefaultBranch, Passed
    <3> QED BY <1>7, <3>1, <3>2, <3>3, <3>4
  <2>2. UNCHANGED row
    BY <1>7 DEF StartInitialize, StartDelete, StartRename, UpdateDefaultBranch
  <2> QED BY <1>6, <2>1, <2>2, NoMorePrivate
<1>8. ASSUME NEW p \in Caller, InitStorage(p) \/ MoveStorage(p) \/ deleteRepositoryStorageById(p)
      PROVE  LimitInv'
  <2>1. UNCHANGED row /\ (Answer(p) \/ \E pc : Goto(p, pc) /\ pc # "insert")
    BY <1>8 DEF InitStorage, MoveStorage, deleteRepositoryStorageById
  <2>2. call[p].pc # "idle"
    BY <1>8 DEF InitStorage, MoveStorage, deleteRepositoryStorageById
  <2> QED BY <1>4, <1>5, <1>6, <2>1, <2>2, NoMorePrivate
<1>9. ASSUME NEW p \in Caller, UndoCreate(p) \/ DeleteRow(p) PROVE LimitInv'
  <2>1. row' = [r \in Repo |-> IF r \in call[p].id THEN Deleted ELSE row[r]] /\ Answer(p)
    BY <1>9 DEF UndoCreate, DeleteRow
  <2>2. Fresh' \subseteq Fresh
    BY <1>1, <2>1, RepositoryAssumption DEF Fresh, Private, Live, Deleted
  <2> QED BY <2>1, <2>2, AnswerPasses, NoMorePrivate
<1>10. ASSUME NEW p \in Caller, UpdateRow(p) \/ UndoRename(p) PROVE LimitInv'
  <2>1. UNCHANGED row \/ \E s \in Slug : SetSlug(p, s)
    BY <1>1, <1>10, CallShape DEF UpdateRow, UndoRename, Renaming
  <2>2. ASSUME NEW s \in Slug, SetSlug(p, s) PROVE Fresh' \subseteq Fresh
    <3>1. \A r \in Live : /\ [row[r] EXCEPT !.slug = s].place = row[r].place
                          /\ [row[r] EXCEPT !.slug = s].patched = row[r].patched
      BY LiveRows DEF LiveRow
    <3>2. \A r \in Repo : row'[r] = IF r \in call[p].id \cap Live
                                      THEN [row[r] EXCEPT !.slug = s] ELSE row[r]
      BY <2>2 DEF SetSlug
    <3> QED BY <3>1, <3>2 DEF Fresh, Private, Live
  <2>3. Fresh' \subseteq Fresh BY <1>6, <2>1, <2>2
  <2>4. Passed' \subseteq Passed
    <3>1. Answer(p) \/ Goto(p, "move") BY <1>10 DEF UpdateRow, UndoRename
    <3>2. call[p].pc # "idle" BY <1>10 DEF UpdateRow, UndoRename
    <3> QED BY <1>5, <3>1, <3>2, AnswerPasses
  <2> QED BY <2>3, <2>4, NoMorePrivate
<1>11. ASSUME NEW p \in Caller, ReadRow(p) PROVE LimitInv'
  <2>1. UNCHANGED row /\ (Answer(p) \/ \E x : call' = [call EXCEPT ![p] = x] /\ x.pc # "insert")
    BY <1>11 DEF ReadRow
  <2> QED BY <1>4, <1>6, <2>1, NotPassed, NoMorePrivate
<1>12. ASSUME NEW p \in Caller, Initialize(p) \/ syncDefaultBranch(p) \/ Crash(p) PROVE LimitInv'
  BY <1>4, <1>12 DEF Initialize, syncDefaultBranch, Crash
<1>13. ASSUME UNCHANGED <<row, call>> PROVE LimitInv'
  <2>1. Passed' = Passed BY <1>13 DEF Passed
  <2> QED BY <1>6, <1>13, <2>1, NoMorePrivate
<1>14. ASSUME NEW r \in Repo, NEW b \in Pushed, Push(r, b) PROVE LimitInv'
  BY <1>13, <1>14 DEF Push
<1>15. ASSUME NEW p \in Caller, InsertRow(p) PROVE LimitInv'
  BY <1>3, <1>4, <1>15, InsertMoves DEF InsertRow
<1>16. ASSUME NEW r \in Repo, NEW place \in Patched, PatchPlace(r, place) PROVE LimitInv'
  <2>1. Fresh' \subseteq Fresh
    <3>1. /\ Live' = Live /\ row'[r].patched
          /\ \A i \in Repo \ {r} : row'[i] = row[i]
      BY <1>16, PatchedRows
    <3> QED BY <3>1 DEF Fresh, Private, Live
  <2>2. Passed' = Passed BY <1>16 DEF PatchPlace, Passed
  <2> QED BY <2>1, <2>2, NoMorePrivate
<1> QED BY <1>2, <1>7, <1>8, <1>9, <1>10, <1>11, <1>12, <1>13, <1>14, <1>15, <1>16
        DEF Next, CallStep, vars

\* The private repositories created in the organization, and not patched since, pass
\* its plan's limit by less than there are handlers (Repository!LimitOvershoot), however
\* creations, deletions, patches and failures overlap: the limit is read before the
\* insert and never held.  What the generated update makes private is not limited.
THEOREM LimitIsNearlyKept == Spec => []LimitOvershoot
<1>1. Init => LimitInv
  <2> SUFFICES ASSUME Init PROVE LimitInv
    OBVIOUS
  <2>1. Fresh = {} BY RepositoryAssumption DEF Init, Fresh, Private, Live, NoRepo
  <2>2. Passed = {} BY DEF Init, Passed, Idle
  <2> QED BY <2>1, <2>2, Counts, FS_EmptySet, RepositoryAssumption DEF LimitInv
<1>2. TypeInv /\ LimitInv /\ [Next]_vars => LimitInv' BY LimitStep
<1>3. LimitInv => LimitOvershoot
  <2>1. Fresh = {r \in Live : Counted(row[r].place) /\ ~row[r].patched}
    BY DEF Fresh, Private
  <2> QED BY <2>1, Counts, RepositoryAssumption DEF LimitInv, LimitOvershoot
<1> QED BY <1>1, <1>2, <1>3, TypeInvariant, PTL DEF Spec

-----------------------------------------------------------------------------
(***************************************************************************)
(* Rows and storage.  While clients keep operations on the same names      *)
(* apart, the repositories and the slugs a handler works on are its own:   *)
(* what it saw when it started still holds at its last step.               *)
(***************************************************************************)

\* The storage of organization repositories is addressed as that of users, a deletion
\* of storage does not fail, a creation or a move does not answer false after it
\* succeeded, and no process dies between a row and the storage it announced.
KeptApart ==
  /\ Serial /\ ~Mirrored
  /\ "unlink" \notin FailAt
  /\ "init" \notin LostAt /\ "move" \notin LostAt
  /\ CrashAt \cap {"move", "undoRename", "deleteRow"} = {}

Moved == {"move", "undoRename"}

Apart ==
  \A p, q \in Caller : p # q => /\ call[p].id \cap call[q].id = {}
                                /\ call[p].slugs \cap call[q].slugs = {}

OneHome == \A r, s \in Live : row[r].slug = row[s].slug => r = s

\* What a handler knows of the repository r it works on
Holds(p, r) ==
  LET c == call[p]
  IN  /\ r \in Live /\ row[r].slug \in c.slugs
      /\ c.pc \in {"init", "undoCreate"} => row[r].slug = c.slug
      /\ c.pc \in {"initialize", "unlink", "deleteRow", "sync"} => c.path = Home(r)
      /\ c.pc \in {"init", "undoCreate", "deleteRow"} => ~store[Home(r)].on
      /\ c.pc \in {"updateRow"} \cup Moved =>
           c.dir = "user" /\ c.old # c.new /\ {c.old, c.new} \subseteq c.slugs
      /\ c.pc = "updateRow" => row[r].slug = c.old /\ ~Taken(c.new)
      /\ c.pc \in Moved => row[r].slug = c.new /\ ~Taken(c.old)

NamesInv ==
  /\ Apart /\ OneHome
  /\ \A p \in Caller : /\ \A r \in call[p].id : Holds(p, r)
                       /\ call[p].pc = "insert" => call[p].slug \in call[p].slugs
  /\ \A x \in Path : ~store[x].on => store[x] = NoStore
  /\ NoOrphans


LEMMA WhereMoved ==
  ASSUME Apart, NEW p \in Caller, NEW r \in call[p].id, call[p].pc \in Moved
  PROVE  Location(r) = <<"user", call[p].old>>
<1>1. (CHOOSE q \in Caller : r \in call[q].id) = p BY DEF Apart
<1> QED BY <1>1 DEF Location, Moved

LEMMA WhereHome ==
  ASSUME NEW r, \A q \in Caller : r \in call[q].id => call[q].pc \notin Moved
  PROVE  Location(r) = Home(r)
BY DEF Location, Moved

LEMMA WhereMovedNext ==
  ASSUME Apart', NEW p \in Caller, NEW r \in call'[p].id, call'[p].pc \in Moved
  PROVE  Location(r)' = <<"user", call'[p].old>>
<1>1. (CHOOSE q \in Caller : r \in call'[q].id) = p BY DEF Apart
<1> QED BY <1>1 DEF Location, Moved

LEMMA WhereHomeNext ==
  ASSUME NEW r, \A q \in Caller : r \in call'[q].id => call'[q].pc \notin Moved
  PROVE  Location(r)' = Home(r)'
BY DEF Location, Moved

\* What a step of p leaves alone: the other handlers, the rows p does not work on, and
\* the storage under other names.
Frame(p) ==
  /\ \A q \in Caller \ {p} : call'[q] = call[q]
  /\ \A r \in Repo : row'[r] = row[r] \/ /\ r \in call[p].id \/ r \notin Live
                                         /\ row'[r].slug \in Slug => row'[r].slug \in call[p].slugs
  /\ \A s \in Slug : s \notin call[p].slugs => store'[<<"user", s>>] = store[<<"user", s>>]

LEMMA OthersHold ==
  ASSUME TypeInv, NamesInv, NEW p \in Caller, Frame(p), NEW q \in Caller, q # p,
         NEW r \in call[q].id
  PROVE  Holds(q, r)'
<1>1. Holds(q, r) /\ call'[q] = call[q] BY DEF NamesInv, Frame
<1>2. r \in Live /\ r \in Repo /\ r \notin call[p].id BY <1>1 DEF Holds, NamesInv, Apart, Live
<1>3. row'[r] = row[r] /\ r \in Live' /\ Home(r)' = Home(r) BY <1>2 DEF Frame, Live, Home
<1>4. \A s \in call[q].slugs : s \in Slug /\ s \notin call[p].slugs
  <2>1. call[q].slugs \subseteq Slug BY CallShape DEF TypeInv
  <2> QED BY <2>1 DEF NamesInv, Apart
<1>5. store'[Home(r)] = store[Home(r)] BY <1>1, <1>4 DEF Holds, Home, Frame
<1>6. \A s \in call[q].slugs : ~Taken(s) => ~Taken(s)' BY <1>4 DEF Frame, Taken, Live
<1> QED BY <1>1, <1>3, <1>5, <1>6 DEF Holds

LEMMA Assembled ==
  ASSUME TypeInv, NamesInv, NEW p \in Caller, Frame(p),
         \A q \in Caller \ {p} : /\ call'[p].id \cap call[q].id = {}
                                 /\ call'[p].slugs \cap call[q].slugs = {},
         OneHome',
         \A r \in call'[p].id : Holds(p, r)',
         call'[p].pc = "insert" => call'[p].slug \in call'[p].slugs,
         \A x \in Path : ~store'[x].on => store'[x] = NoStore,
         \A r \in Live : \/ r \in Live' /\ Location(r)' = Location(r)
                         \/ ~store'[Location(r)].on,
         \A x \in Path : store'[x].on => store[x].on \/ \E r \in Live' : Location(r)' = x
  PROVE  NamesInv'
<1>1. Apart' BY DEF NamesInv, Apart, Frame
<1>2. ASSUME NEW q \in Caller
      PROVE  /\ \A r \in call'[q].id : Holds(q, r)'
             /\ call'[q].pc = "insert" => call'[q].slug \in call'[q].slugs
  <2>1. CASE q = p BY <2>1
  <2>2. CASE q # p
    <3>1. call'[q] = call[q] BY <2>2 DEF Frame
    <3> QED BY <2>2, <3>1, OthersHold DEF NamesInv
  <2> QED BY <2>1, <2>2
<1>3. NoOrphans'
  <2> SUFFICES ASSUME NEW x \in Path, store'[x].on PROVE \E r \in Live' : Location(r)' = x
    BY DEF NoOrphans
  <2>1. CASE store[x].on
    <3>1. PICK r \in Live : Location(r) = x BY <2>1 DEF NamesInv, NoOrphans
    <3> QED BY <3>1
  <2> QED BY <2>1
<1> QED BY <1>1, <1>2, <1>3 DEF NamesInv

\* A repository a step of p neither renames nor removes stays where it is.
LEMMA StaysThere ==
  ASSUME NamesInv, NEW p \in Caller, Apart', \A q \in Caller \ {p} : call'[q] = call[q],
         NEW r \in Live, row'[r] = row[r],
         r \in call[p].id => call[p].pc \notin Moved,
         r \in call'[p].id => call'[p].pc \notin Moved
  PROVE  r \in Live' /\ Location(r)' = Location(r)
<1>1. r \in Live' /\ Home(r)' = Home(r) BY DEF Live, Home
<1>2. CASE \E q \in Caller : r \in call[q].id /\ call[q].pc \in Moved
  <2>1. PICK q \in Caller : r \in call[q].id /\ call[q].pc \in Moved BY <1>2
  <2>2. q # p /\ call'[q] = call[q] BY <2>1
  <2> QED BY <1>1, <2>1, <2>2, WhereMoved, WhereMovedNext DEF NamesInv
<1>3. CASE \A q \in Caller : r \in call[q].id => call[q].pc \notin Moved
  <2>1. \A q \in Caller : r \in call'[q].id => call'[q].pc \notin Moved BY <1>3
  <2> QED BY <1>1, <1>3, <2>1, WhereHome, WhereHomeNext
<1> QED BY <1>2, <1>3

\* A step that changes neither rows nor storage
LEMMA OnlyTheCall ==
  ASSUME TypeInv, NamesInv, NEW p \in Caller, UNCHANGED <<row, store>>,
         NEW x, call' = [call EXCEPT ![p] = x],
         call[p].pc \notin Moved, x.pc \notin Moved,
         \A q \in Caller \ {p} : x.id \cap call[q].id = {} /\ x.slugs \cap call[q].slugs = {},
         \A r \in x.id : Holds(p, r)',
         x.pc = "insert" => x.slug \in x.slugs
  PROVE  NamesInv'
<1>1. call'[p] = x /\ \A q \in Caller \ {p} : call'[q] = call[q] BY DEF TypeInv
<1>2. Frame(p) BY <1>1 DEF Frame
<1>3. Apart' BY <1>1 DEF NamesInv, Apart
<1>4. OneHome' BY DEF NamesInv, OneHome, Live
<1>5. \A r \in Live : r \in Live' /\ Location(r)' = Location(r)
  BY <1>1, <1>3, StaysThere
<1> QED BY <1>1, <1>2, <1>4, <1>5, Assembled DEF NamesInv

LEMMA AnswerNames ==
  ASSUME TypeInv, NamesInv, NEW p \in Caller, UNCHANGED <<row, store>>, Answer(p),
         call[p].pc \notin Moved
  PROVE  NamesInv'
<1>1. Idle.id = {} /\ Idle.slugs = {} /\ Idle.pc = "idle" BY DEF Idle
<1>2. call' = [call EXCEPT ![p] = Idle] BY DEF Answer
<1> HIDE DEF Idle
<1> QED BY <1>1, <1>2, OnlyTheCall DEF Moved

\* What a client that starts an operation on r brings about
LEMMA StartNames ==
  ASSUME TypeInv, NamesInv, KeptApart, NEW p \in Caller, UNCHANGED <<row, store>>,
         NEW r \in Live, NEW slugs, MayStart(p, {r}, slugs),
         NEW x, call' = [call EXCEPT ![p] = x], x.id = {r}, x.slugs = slugs,
         x.pc \notin Moved, x.pc # "insert", Holds(p, r)'
  PROVE  NamesInv'
<1>1. call[p].pc \notin Moved BY DEF MayStart, Moved
<1>2. \A q \in Caller \ {p} : x.id \cap call[q].id = {} /\ x.slugs \cap call[q].slugs = {}
  BY DEF MayStart, KeptApart
<1>3. \A i \in x.id : Holds(p, i)' OBVIOUS
<1>4. x.pc = "insert" => x.slug \in x.slugs OBVIOUS
<1> HIDE DEF Moved
<1> QED BY <1>1, <1>2, <1>3, <1>4, OnlyTheCall

LEMMA StartNamesHold ==
  ASSUME TypeInv, NamesInv, KeptApart, NEW p \in Caller, NEW r \in Repo,
         \/ StartInitialize(p, r)
         \/ StartDelete(p, r)
         \/ \E s \in Slug : StartRename(p, r, s)
         \/ \E b \in Branch : UpdateDefaultBranch(p, r, b)
  PROVE  NamesInv'
<1>1. call \in [Caller -> Call] BY DEF TypeInv
<1>2. CASE StartInitialize(p, r)
  <2> DEFINE x == [pc |-> "initialize", id |-> {r}, slugs |-> {row[r].slug},
                   path |-> <<getOwnerSlug(r), row[r].slug>>]
  <2>1. r \in Live /\ MayStart(p, x.id, x.slugs) /\ UNCHANGED <<row, store>>
        /\ call' = [call EXCEPT ![p] = x]
    BY <1>2 DEF StartInitialize
  <2>2. x.path = Home(r) BY DEF getOwnerSlug, Home, KeptApart
  <2>3. Holds(p, r)' BY <1>1, <2>1, <2>2 DEF Holds, Moved, Live, Home
  <2>4. x.id = {r} /\ x.pc \notin Moved /\ x.pc # "insert" BY DEF Moved
<2> HIDE DEF x
<2> QED BY <2>1, <2>3, <2>4, StartNames
<1>3. CASE StartDelete(p, r)
  <2> DEFINE x == [pc |-> "unlink", id |-> {r}, slugs |-> {row[r].slug}, path |-> Home(r)]
  <2>1. r \in Live /\ MayStart(p, x.id, x.slugs) /\ UNCHANGED <<row, store>>
        /\ call' = [call EXCEPT ![p] = x]
    BY <1>3 DEF StartDelete
  <2>2. Holds(p, r)' BY <1>1, <2>1 DEF Holds, Moved, Live, Home
  <2>4. x.id = {r} /\ x.pc \notin Moved /\ x.pc # "insert" BY DEF Moved
<2> HIDE DEF x
<2> QED BY <2>1, <2>2, <2>4, StartNames
<1>4. CASE \E b \in Branch : UpdateDefaultBranch(p, r, b)
  <2>1. PICK b \in Branch : UpdateDefaultBranch(p, r, b) BY <1>4
  <2> DEFINE x == [pc |-> "readRow", id |-> {r}, slugs |-> {row[r].slug}, head |-> b]
  <2>2. r \in Live /\ MayStart(p, x.id, x.slugs) /\ UNCHANGED <<row, store>>
        /\ call' = [call EXCEPT ![p] = x]
    BY <2>1 DEF UpdateDefaultBranch
  <2>3. Holds(p, r)' BY <1>1, <2>2 DEF Holds, Moved, Live, Home
  <2>4. x.id = {r} /\ x.pc \notin Moved /\ x.pc # "insert" BY DEF Moved
<2> HIDE DEF x
<2> QED BY <2>2, <2>3, <2>4, StartNames
<1>5. CASE \E s \in Slug : StartRename(p, r, s)
  <2>1. PICK s \in Slug : StartRename(p, r, s) BY <1>5
  <2>2. CASE Taken(s)
    BY <2>1, <2>2, AnswerNames DEF StartRename, MayStart, Moved
  <2>3. CASE ~Taken(s)
    <3> DEFINE x == [pc |-> "updateRow", id |-> {r}, slugs |-> {s, row[r].slug},
                     dir |-> getOwnerSlug(r), old |-> row[r].slug, new |-> s]
    <3>1. r \in Live /\ MayStart(p, x.id, x.slugs) /\ UNCHANGED <<row, store>>
          /\ call' = [call EXCEPT ![p] = x] /\ s # row[r].slug
      BY <2>1, <2>3 DEF StartRename
    <3>2. x.dir = "user" BY DEF getOwnerSlug, KeptApart
    <3>3. Holds(p, r)' BY <1>1, <2>3, <3>1, <3>2 DEF Holds, Moved, Live, Taken
    <3>4. x.id = {r} /\ x.pc \notin Moved /\ x.pc # "insert" BY DEF Moved
<3> HIDE DEF x
<3> QED BY <3>1, <3>3, <3>4, StartNames
  <2> QED BY <2>2, <2>3
<1> QED BY <1>2, <1>3, <1>4, <1>5

LEMMA StartCreateNames ==
  ASSUME TypeInv, NamesInv, KeptApart, NEW p \in Caller, NEW s \in Slug, NEW place,
         StartCreate(p, s, place)
  PROVE  NamesInv'
<1>1. call[p].pc \notin Moved /\ UNCHANGED <<row, store>> BY DEF StartCreate, MayStart, Moved
<1>2. CASE Answer(p) BY <1>1, <1>2, AnswerNames
<1>3. CASE ~Answer(p)
  <2> DEFINE x == [pc |-> "insert", id |-> {}, slugs |-> {s}, slug |-> s, place |-> place]
  <2>1. call' = [call EXCEPT ![p] = x] BY <1>3 DEF StartCreate
  <2>2. \A q \in Caller \ {p} : x.id \cap call[q].id = {} /\ x.slugs \cap call[q].slugs = {}
    BY DEF StartCreate, MayStart, KeptApart
  <2>3. x.id = {} /\ x.slug \in x.slugs /\ x.pc \notin Moved BY DEF Moved
  <2> HIDE DEF x
  <2> QED BY <1>1, <2>1, <2>2, <2>3, OnlyTheCall
<1> QED BY <1>2, <1>3

\* A step that changes the storage of the repository r it works on
LEMMA StorageNames ==
  ASSUME TypeInv, NamesInv, NEW p \in Caller, UNCHANGED row,
         NEW r \in call[p].id, call[p].pc \notin Moved,
         \A y \in Path : y # Home(r) => store'[y] = store[y],
         ~store'[Home(r)].on => store'[Home(r)] = NoStore,
         NEW x, call' = [call EXCEPT ![p] = x], x.pc \notin Moved, x.pc # "insert",
         x.id \subseteq call[p].id, x.slugs \subseteq call[p].slugs,
         \A i \in x.id : Holds(p, i)'
  PROVE  NamesInv'
<1>1. call'[p] = x /\ \A q \in Caller \ {p} : call'[q] = call[q] BY DEF TypeInv
<1>2. r \in Live /\ row[r].slug \in call[p].slugs BY DEF NamesInv, Holds
<1>3. Home(r) \in Path /\ Home(r) = <<"user", row[r].slug>> BY <1>2, LiveRows DEF Home
<1>4. Frame(p)
  <2>1. \A s \in Slug : s \notin call[p].slugs => /\ <<"user", s>> \in Path
                                                 /\ <<"user", s>> # Home(r)
    BY <1>2, <1>3 DEF Path, Dir
  <2> QED BY <1>1, <2>1 DEF Frame
<1>5. \A q \in Caller \ {p} : x.id \cap call[q].id = {} /\ x.slugs \cap call[q].slugs = {}
  BY DEF NamesInv, Apart
<1>6. Apart' BY <1>1, <1>5 DEF NamesInv, Apart
<1>7. OneHome' BY DEF NamesInv, OneHome, Live
<1>8. \A i \in Live : i \in Live' /\ Location(i)' = Location(i)
  BY <1>1, <1>6, StaysThere
<1>9. Location(r) = Home(r)
  <2>1. \A q \in Caller : r \in call[q].id => call[q].pc \notin Moved
    BY DEF NamesInv, Apart
  <2> QED BY <2>1, WhereHome
<1>10. \A y \in Path : store'[y].on => store[y].on \/ \E i \in Live' : Location(i)' = y
  BY <1>2, <1>8, <1>9
<1>11. \A y \in Path : ~store'[y].on => store'[y] = NoStore BY DEF NamesInv
<1> HIDE DEF Moved
<1> QED BY <1>1, <1>4, <1>5, <1>7, <1>8, <1>10, <1>11, Assembled

LEMMA StorageAnswers ==
  ASSUME TypeInv, NamesInv, NEW p \in Caller, UNCHANGED row,
         NEW r \in call[p].id, call[p].pc \notin Moved,
         \A y \in Path : y # Home(r) => store'[y] = store[y],
         ~store'[Home(r)].on => store'[Home(r)] = NoStore,
         Answer(p)
  PROVE  NamesInv'
<1>1. Idle.id = {} /\ Idle.slugs = {} /\ Idle.pc \notin Moved /\ Idle.pc # "insert"
  BY DEF Idle, Moved
<1>2. call' = [call EXCEPT ![p] = Idle] BY DEF Answer
<1> HIDE DEF Idle, Moved
<1> QED BY <1>1, <1>2, StorageNames

LEMMA StorageOperations ==
  ASSUME TypeInv, NamesInv, NEW x \in Path
  PROVE  /\ \A y \in Path : y # x => /\ init(x)[y] = store[y]
                                     /\ delete(x)[y] = store[y]
                                     /\ \A b \in Branch : setDefaultBranch(x, b)[y] = store[y]
         /\ init(x)[x].on
         /\ delete(x)[x] = NoStore
         /\ \A b \in Branch : /\ setDefaultBranch(x, b)[x].on = store[x].on
                              /\ ~store[x].on => setDefaultBranch(x, b)[x] = NoStore
<1>1. store \in [Path -> Bare] BY DEF TypeInv
<1>2. ~store[x].on => store[x] = NoStore /\ store[x].branches = {}
  <2>1. ~store[x].on => store[x] = NoStore BY DEF NamesInv
  <2> QED BY <2>1 DEF NoStore
<1>3. \A b \in Branch : [store[x] EXCEPT !.head = b].on = store[x].on BY <1>1 DEF Bare
<1>4. \A y \in Path : y # x => /\ init(x)[y] = store[y]
                               /\ delete(x)[y] = store[y]
  BY <1>1 DEF init, delete
<1>5. \A y \in Path, b \in Branch : y # x => setDefaultBranch(x, b)[y] = store[y]
  BY <1>1 DEF setDefaultBranch
<1>6. init(x)[x].on BY <1>1 DEF init
<1>7. delete(x)[x] = NoStore BY <1>1 DEF delete
<1>8. \A b \in Branch : setDefaultBranch(x, b)[x].on = store[x].on
  BY <1>1, <1>3 DEF setDefaultBranch
<1>9. \A b \in Branch : ~store[x].on => setDefaultBranch(x, b)[x] = NoStore
  BY <1>1, <1>2 DEF setDefaultBranch
<1> QED BY <1>4, <1>5, <1>6, <1>7, <1>8, <1>9

LEMMA InitStorageNames ==
  ASSUME TypeInv, NamesInv, KeptApart, NEW p \in Caller, InitStorage(p)
  PROVE  NamesInv'
<1> DEFINE x == <<"user", call[p].slug>>
<1>1. call \in [Caller -> Call] /\ call[p].pc = "init" /\ UNCHANGED row
  BY DEF TypeInv, InitStorage
<1>2. call[p] \in Creation({"init", "undoCreate"}, One) BY <1>1, CallShape
<1>3. PICK r \in Repo : call[p].id = {r} BY <1>2 DEF Creation, One
<1>4. Holds(p, r) BY <1>3 DEF NamesInv
<1>5. r \in Live /\ x = Home(r) /\ x \in Path /\ ~store[x].on
  BY <1>1, <1>4, LiveRows DEF Holds, Home
<1>6. PICK o \in Outcomes("init", init(x)) :
        store' = o.store /\ IF o.ok THEN Answer(p) ELSE Goto(p, "undoCreate")
  BY DEF InitStorage
<1>7. \A y \in Path : y # Home(r) => store'[y] = store[y]
  BY <1>5, <1>6, OutcomeStore, StorageOperations
<1>8. ~store'[Home(r)].on => store'[Home(r)] = NoStore
  BY <1>5, <1>6, OutcomeStore, StorageOperations DEF NamesInv
<1>9. r \in call[p].id /\ call[p].pc \notin Moved BY <1>1, <1>3 DEF Moved
<1>10. CASE o.ok BY <1>1, <1>6, <1>7, <1>8, <1>9, <1>10, StorageAnswers
<1>11. CASE ~o.ok
  <2> DEFINE c == [call[p] EXCEPT !.pc = "undoCreate"]
  <2>1. c.pc = "undoCreate" /\ c.id = {r} /\ c.slugs = call[p].slugs /\ c.slug = call[p].slug
    BY <1>2, <1>3 DEF Creation
  <2>2. call' = [call EXCEPT ![p] = c] /\ call'[p] = c BY <1>1, <1>6, <1>11 DEF Goto
  <2>3. c.pc \notin Moved /\ c.pc # "insert" BY <2>1 DEF Moved
  <2> HIDE DEF c, x
  <2>4. store' = store BY <1>6, <1>11, OutcomeStore DEF KeptApart
  <2>5. Holds(p, r)'
    <3>1. r \in Live' /\ row'[r].slug \in c.slugs /\ row'[r].slug = c.slug
          /\ ~store'[Home(r)'].on
      BY <1>1, <1>4, <1>5, <2>1, <2>4 DEF Holds, Live, Home
    <3> QED BY <2>1, <2>2, <3>1 DEF Holds, Moved
  <2>6. \A i \in c.id : Holds(p, i)' BY <2>1, <2>5
  <2> QED BY <1>1, <1>3, <1>7, <1>8, <1>9, <2>1, <2>2, <2>3, <2>6, StorageNames
<1> QED BY <1>10, <1>11

\* The path an operation on r keeps is where the storage of r is.
LEMMA KeptPath ==
  ASSUME TypeInv, NamesInv, NEW p \in Caller,
         call[p].pc \in {"initialize", "unlink", "deleteRow", "sync"}
  PROVE  \E r \in call[p].id : /\ call[p].id = {r} /\ r \in Live /\ Holds(p, r)
                               /\ call[p].path = Home(r) /\ Home(r) \in Path
<1>1. call[p] \in Call BY DEF TypeInv
<1>2. PICK r \in Repo : call[p].id = {r} BY <1>1, CallShape DEF One
<1>3. Holds(p, r) BY <1>2 DEF NamesInv
<1> QED BY <1>2, <1>3, LiveRows DEF Holds

LEMMA InitializeNames ==
  ASSUME TypeInv, NamesInv, NEW p \in Caller, Initialize(p) \/ syncDefaultBranch(p)
  PROVE  NamesInv'
<1>1. call[p].pc \in {"initialize", "sync"} /\ Answer(p) /\ UNCHANGED row
  BY DEF Initialize, syncDefaultBranch
<1>2. PICK r \in call[p].id : call[p].path = Home(r) /\ Home(r) \in Path
  BY <1>1, KeptPath
<1>3. store' \in {store, init(Home(r))} \cup {setDefaultBranch(Home(r), b) : b \in Branch}
  <2>1. CASE Initialize(p) BY <1>2, <2>1, OutcomeStore DEF Initialize
  <2>2. CASE syncDefaultBranch(p)
    <3>1. call[p].head \in Branch
      BY <2>2, CallShape DEF syncDefaultBranch, TypeInv, Syncs
    <3> QED BY <1>2, <2>2, <3>1, OutcomeStore DEF syncDefaultBranch
  <2> QED BY <2>1, <2>2
<1>4. \A y \in Path : y # Home(r) => store'[y] = store[y]
  BY <1>2, <1>3, StorageOperations
<1>5. ~store'[Home(r)].on => store'[Home(r)] = NoStore
  BY <1>2, <1>3, StorageOperations DEF NamesInv
<1>6. call[p].pc \notin Moved BY <1>1 DEF Moved
<1> QED BY <1>1, <1>4, <1>5, <1>6, StorageAnswers

LEMMA UnlinkNames ==
  ASSUME TypeInv, NamesInv, KeptApart, NEW p \in Caller, deleteRepositoryStorageById(p)
  PROVE  NamesInv'
<1> DEFINE c == [call[p] EXCEPT !.pc = "deleteRow"]
<1>1. call[p].pc = "unlink" /\ call' = [call EXCEPT ![p] = c] /\ UNCHANGED row
  BY DEF deleteRepositoryStorageById, Goto
<1>2. PICK r \in call[p].id : /\ call[p].id = {r} /\ r \in Live /\ Holds(p, r)
                              /\ call[p].path = Home(r) /\ Home(r) \in Path
  BY <1>1, KeptPath
<1>3. store' = delete(Home(r))
  BY <1>2, OutcomeStore DEF deleteRepositoryStorageById, KeptApart
<1>4. /\ \A y \in Path : y # Home(r) => store'[y] = store[y]
      /\ store'[Home(r)] = NoStore
  BY <1>2, <1>3, StorageOperations
<1>5. call[p] \in AtPath BY <1>1, CallShape DEF TypeInv
<1>6. c.pc = "deleteRow" /\ c.id = {r} /\ c.slugs = call[p].slugs /\ c.path = Home(r)
  BY <1>2, <1>5 DEF AtPath
<1>7. c.pc \notin Moved /\ c.pc # "insert" /\ call[p].pc \notin Moved BY <1>1, <1>6 DEF Moved
<1>8. call'[p] = c BY <1>1 DEF TypeInv
<1> HIDE DEF c
<1>9. Holds(p, r)'
  <2>1. r \in Live' /\ row'[r].slug \in c.slugs /\ Home(r)' = Home(r) /\ ~store'[Home(r)].on
    BY <1>1, <1>2, <1>4, <1>6 DEF Holds, Live, Home, NoStore
  <2> QED BY <1>6, <1>8, <2>1 DEF Holds, Moved
<1>10. \A i \in c.id : Holds(p, i)' BY <1>6, <1>9
<1> QED BY <1>1, <1>2, <1>4, <1>6, <1>7, <1>10, StorageNames

LEMMA ReadRowNames ==
  ASSUME TypeInv, NamesInv, KeptApart, NEW p \in Caller, ReadRow(p)
  PROVE  NamesInv'
<1>1. call[p].pc = "readRow" /\ UNCHANGED <<row, store>> BY DEF ReadRow
<1>2. call[p] \in ReadsRow BY <1>1, CallShape DEF TypeInv
<1>3. PICK r \in Repo : call[p].id = {r} BY <1>2 DEF ReadsRow, One
<1>4. Holds(p, r) /\ r \in Live BY <1>3 DEF NamesInv, Holds
<1> DEFINE x == [pc |-> "sync", id |-> {r}, slugs |-> call[p].slugs,
                 path |-> <<getOwnerSlug(r), row[r].slug>>, head |-> call[p].head]
<1>5. (CHOOSE i \in call[p].id : TRUE) = r BY <1>3
<1>6. call' = [call EXCEPT ![p] = x] BY <1>3, <1>4, <1>5 DEF ReadRow
<1>7. x.path = Home(r) BY DEF getOwnerSlug, Home, KeptApart
<1>8. x.pc = "sync" /\ x.id = {r} /\ x.slugs = call[p].slugs OBVIOUS
<1> HIDE DEF x
<1>9. call'[p] = x BY <1>6 DEF TypeInv
<1>10. Holds(p, r)'
  <2>1. r \in Live' /\ row'[r].slug \in x.slugs /\ Home(r)' = Home(r)
    BY <1>1, <1>4, <1>8 DEF Holds, Live, Home
  <2> QED BY <1>7, <1>8, <1>9, <2>1 DEF Holds, Moved
<1>11. \A q \in Caller \ {p} : x.id \cap call[q].id = {} /\ x.slugs \cap call[q].slugs = {}
  BY <1>3, <1>8 DEF NamesInv, Apart
<1>12. call[p].pc \notin Moved /\ x.pc \notin Moved /\ x.pc # "insert"
  BY <1>1, <1>8 DEF Moved
<1>13. \A i \in x.id : Holds(p, i)' BY <1>8, <1>10
<1> QED BY <1>1, <1>6, <1>11, <1>12, <1>13, OnlyTheCall

LEMMA RemoveNames ==
  ASSUME TypeInv, NamesInv, NEW p \in Caller, UndoCreate(p) \/ DeleteRow(p)
  PROVE  NamesInv'
<1>1. /\ call[p].pc \in {"undoCreate", "deleteRow"} /\ Answer(p) /\ UNCHANGED store
      /\ row' = [r \in Repo |-> IF r \in call[p].id THEN Deleted ELSE row[r]]
  BY DEF UndoCreate, DeleteRow
<1>2. /\ call'[p].id = {} /\ call'[p].slugs = {} /\ call'[p].pc = "idle"
      /\ \A q \in Caller \ {p} : call'[q] = call[q]
  BY <1>1 DEF Answer, Idle, TypeInv
<1>3. \A r \in Repo : IF r \in call[p].id THEN row'[r].slug \notin Slug ELSE row'[r] = row[r]
  BY <1>1, RepositoryAssumption DEF Deleted
<1>4. Frame(p) BY <1>1, <1>2, <1>3 DEF Frame
<1>5. Apart' BY <1>2 DEF NamesInv, Apart
<1>6. OneHome' BY <1>3 DEF NamesInv, OneHome, Live
<1>7. call[p].pc \notin Moved BY <1>1 DEF Moved
<1>8. ASSUME NEW r \in Live
      PROVE  (r \in Live' /\ Location(r)' = Location(r)) \/ ~store'[Location(r)].on
  <2>1. CASE r \in call[p].id
    <3>1. \A q \in Caller : r \in call[q].id => call[q].pc \notin Moved
      BY <1>7, <2>1 DEF NamesInv, Apart
    <3>2. Location(r) = Home(r) BY <3>1, WhereHome
    <3>3. ~store[Home(r)].on BY <1>1, <2>1 DEF NamesInv, Holds
    <3> QED BY <1>1, <3>2, <3>3
  <2>2. CASE r \notin call[p].id
    <3>1. row'[r] = row[r] BY <1>3, <2>2 DEF Live
    <3> QED BY <1>2, <1>5, <2>2, <3>1, StaysThere
  <2> QED BY <2>1, <2>2
<1>9. \A x \in Path : ~store'[x].on => store'[x] = NoStore BY <1>1 DEF NamesInv
<1> QED BY <1>1, <1>2, <1>4, <1>6, <1>8, <1>9, Assembled

\* A rename of the repository r by p
LEMMA RenameHolds ==
  ASSUME TypeInv, NamesInv, NEW p \in Caller, call[p].pc \in {"updateRow"} \cup Moved
  PROVE  \E r \in call[p].id : /\ call[p].id = {r} /\ r \in Live /\ Holds(p, r)
                               /\ call[p] \in Renaming /\ call[p].dir = "user"
                               /\ {call[p].old, call[p].new} \subseteq call[p].slugs \cap Slug
                               /\ call[p].old # call[p].new
<1>1. call[p] \in Renaming BY CallShape DEF TypeInv, Moved
<1>2. PICK r \in Repo : call[p].id = {r} BY <1>1 DEF Renaming, One
<1>3. Holds(p, r) BY <1>2 DEF NamesInv
<1> QED BY <1>1, <1>2, <1>3 DEF Holds, Renaming

\* The row of r takes a slug no row has.
LEMMA SetSlugMoves ==
  ASSUME TypeInv, NamesInv, NEW p \in Caller, NEW r \in Live, call[p].id = {r},
         NEW s \in Slug, s \in call[p].slugs, ~Taken(s), SetSlug(p, s),
         NEW old, old = row[r].slug
  PROVE  /\ \A i \in Repo \ {r} : row'[i] = row[i]
         /\ row'[r].slug = s /\ Live' = Live
         /\ OneHome' /\ ~Taken(old)'
         /\ Home(r)' = <<"user", s>>
<1>1. [row[r] EXCEPT !.slug = s].slug = s BY LiveRows DEF LiveRow
<1>2. \A i \in Repo : row'[i] = IF i = r THEN [row[r] EXCEPT !.slug = s] ELSE row[i]
  BY DEF SetSlug
<1>3. r \in Repo BY DEF Live
<1>4. row'[r].slug = s /\ \A i \in Repo \ {r} : row'[i] = row[i] BY <1>1, <1>2, <1>3
<1>5. Live' = Live BY <1>4 DEF Live
<1>6. OneHome' BY <1>4, <1>5 DEF NamesInv, OneHome, Taken, Live
<1>7. s # old BY DEF Taken
<1>8. ~Taken(old)'
  <2>1. \A i \in Live : row'[i].slug # old
    BY <1>4, <1>7 DEF NamesInv, OneHome, Live
  <2> QED BY <1>5, <2>1 DEF Taken
<1> QED BY <1>4, <1>5, <1>6, <1>8 DEF Home

LEMMA UpdateRowNames ==
  ASSUME TypeInv, NamesInv, NEW p \in Caller, UpdateRow(p)
  PROVE  NamesInv' /\ \A i \in Live : i \in Live' /\ Location(i)' = Location(i)
<1>1. call[p].pc = "updateRow" /\ UNCHANGED store BY DEF UpdateRow
<1>2. PICK r \in call[p].id : /\ call[p].id = {r} /\ r \in Live /\ Holds(p, r)
                              /\ call[p] \in Renaming /\ call[p].dir = "user"
                              /\ {call[p].old, call[p].new} \subseteq call[p].slugs \cap Slug
                              /\ call[p].old # call[p].new
  BY <1>1, RenameHolds
<1> DEFINE s == call[p].new
           c == [call[p] EXCEPT !.pc = "move"]
<1>0. PICK old \in Slug : old = call[p].old BY <1>2
<1>3. row[r].slug = old /\ ~Taken(s) BY <1>0, <1>1, <1>2 DEF Holds
<1>4. ~Refused(p, s) BY <1>3 DEF Refused, Taken
<1>5. SetSlug(p, s) /\ call' = [call EXCEPT ![p] = c] BY <1>4 DEF UpdateRow, Goto
<1>6. s \in Slug /\ s \in call[p].slugs BY <1>2
<1>7. /\ \A i \in Repo \ {r} : row'[i] = row[i]
      /\ row'[r].slug = s /\ Live' = Live
      /\ OneHome' /\ ~Taken(old)'
      /\ Home(r)' = <<"user", s>>
  BY <1>2, <1>3, <1>5, <1>6, SetSlugMoves
<1>8. /\ c.pc = "move" /\ c.id = {r} /\ c.slugs = call[p].slugs
      /\ c.dir = call[p].dir /\ c.old = old /\ c.new = s
  BY <1>0, <1>2 DEF Renaming
<1> HIDE DEF c
<1>9. call'[p] = c /\ \A q \in Caller \ {p} : call'[q] = call[q] BY <1>5 DEF TypeInv
<1>10. Frame(p) BY <1>1, <1>2, <1>6, <1>7, <1>9 DEF Frame
<1>11. \A q \in Caller \ {p} : /\ call'[p].id \cap call[q].id = {}
                               /\ call'[p].slugs \cap call[q].slugs = {}
  BY <1>2, <1>8, <1>9 DEF NamesInv, Apart
<1>12. Apart' BY <1>9, <1>11 DEF NamesInv, Apart
<1>13. Holds(p, r)'
  <2>1. r \in Live' /\ row'[r].slug \in c.slugs /\ row'[r].slug = c.new /\ ~Taken(old)'
    BY <1>0, <1>2, <1>3, <1>6, <1>7, <1>8
  <2>2. \A i \in Live' : row'[i].slug # old BY <2>1 DEF Taken
  <2>3. /\ call'[p].pc = "move" /\ call'[p].slugs = c.slugs /\ call'[p].dir = "user"
        /\ call'[p].old = old /\ call'[p].new = s /\ c.new = s /\ old # s
        /\ {old, s} \subseteq c.slugs
    BY <1>0, <1>2, <1>8, <1>9
  <2>4. ~Taken(call[p].old)' BY <2>2, <2>3 DEF Taken
  <2> HIDE DEF s
  <2> QED BY <2>1, <2>3, <2>4 DEF Holds, Moved
<1>14. Location(r)' = Location(r)
  <2>1. Location(r)' = <<"user", c.old>>
    BY <1>8, <1>9, <1>12, WhereMovedNext DEF Moved
  <2>2. \A q \in Caller : r \in call[q].id => call[q].pc \notin Moved
    BY <1>1, <1>2 DEF NamesInv, Apart, Moved
  <2>3. Location(r) = Home(r) BY <2>2, WhereHome
  <2> QED BY <1>3, <1>8, <2>1, <2>3 DEF Home
<1>15. ASSUME NEW i \in Live PROVE i \in Live' /\ Location(i)' = Location(i)
  <2>1. CASE i = r BY <1>7, <1>14, <2>1
  <2>2. CASE i # r
    <3>1. row'[i] = row[i] /\ i \notin call[p].id /\ i \notin call'[p].id
      BY <1>2, <1>7, <1>8, <1>9, <2>2 DEF Live
    <3> QED BY <1>9, <1>12, <3>1, StaysThere
  <2> QED BY <2>1, <2>2
<1>16. \A i \in call'[p].id : Holds(p, i)' BY <1>8, <1>9, <1>13
<1>17. \A x \in Path : ~store'[x].on => store'[x] = NoStore BY <1>1 DEF NamesInv
<1>18. call'[p].pc # "insert" BY <1>8, <1>9
<1> QED BY <1>1, <1>7, <1>10, <1>11, <1>15, <1>16, <1>17, <1>18, Assembled

LEMMA UndoRenameNames ==
  ASSUME TypeInv, NamesInv, NEW p \in Caller, UndoRename(p)
  PROVE  NamesInv' /\ \A i \in Live : i \in Live' /\ Location(i)' = Location(i)
<1>1. call[p].pc = "undoRename" /\ UNCHANGED store /\ Answer(p) BY DEF UndoRename
<1>2. PICK r \in call[p].id : /\ call[p].id = {r} /\ r \in Live /\ Holds(p, r)
                              /\ call[p] \in Renaming /\ call[p].dir = "user"
                              /\ {call[p].old, call[p].new} \subseteq call[p].slugs \cap Slug
                              /\ call[p].old # call[p].new
  BY <1>1, RenameHolds DEF Moved
<1> DEFINE s == call[p].old
<1>3. ~Taken(s) BY <1>1, <1>2 DEF Holds, Moved
<1>4. ~Refused(p, s) BY <1>3 DEF Refused, Taken
<1>5. SetSlug(p, s) BY <1>4 DEF UndoRename
<1>6. s \in Slug /\ s \in call[p].slugs BY <1>2
<1>7. /\ \A i \in Repo \ {r} : row'[i] = row[i]
      /\ row'[r].slug = s /\ Live' = Live
      /\ OneHome'
      /\ Home(r)' = <<"user", s>>
  BY <1>2, <1>3, <1>5, <1>6, SetSlugMoves
<1>8. /\ call'[p].id = {} /\ call'[p].slugs = {} /\ call'[p].pc = "idle"
      /\ \A q \in Caller \ {p} : call'[q] = call[q]
  BY <1>1 DEF Answer, Idle, TypeInv
<1>9. Frame(p) BY <1>1, <1>2, <1>6, <1>7, <1>8 DEF Frame
<1>10. Apart' BY <1>8 DEF NamesInv, Apart
<1>11. Location(r)' = Location(r)
  <2>1. Location(r) = <<"user", s>> BY <1>1, <1>2, WhereMoved DEF NamesInv, Moved
  <2>2. \A q \in Caller : r \in call'[q].id => call'[q].pc \notin Moved
    BY <1>2, <1>8 DEF NamesInv, Apart, Moved
  <2>3. Location(r)' = Home(r)' BY <2>2, WhereHomeNext
  <2> QED BY <1>7, <2>1, <2>3
<1>12. ASSUME NEW i \in Live PROVE i \in Live' /\ Location(i)' = Location(i)
  <2>1. CASE i = r BY <1>7, <1>11, <2>1
  <2>2. CASE i # r
    <3>1. row'[i] = row[i] /\ i \notin call[p].id /\ i \notin call'[p].id
      BY <1>2, <1>7, <1>8, <2>2 DEF Live
    <3> QED BY <1>8, <1>10, <3>1, StaysThere
  <2> QED BY <2>1, <2>2
<1>13. \A x \in Path : ~store'[x].on => store'[x] = NoStore BY <1>1 DEF NamesInv
<1> QED BY <1>1, <1>7, <1>8, <1>9, <1>12, <1>13, Assembled


LEMMA RenameOperation ==
  ASSUME TypeInv, NEW x \in Path, NEW y \in Path, x # y
  PROVE  LET moved == rename(x, y)
         IN  IF store[x].on /\ ~store[y].on
               THEN /\ moved[x] = NoStore /\ moved[y] = store[x] /\ moved # store
                    /\ \A z \in Path \ {x, y} : moved[z] = store[z]
               ELSE moved = store
<1>1. store \in [Path -> Bare] BY DEF TypeInv
<1>2. ~NoStore.on BY DEF NoStore
<1> HIDE DEF NoStore
<1> QED BY <1>1, <1>2 DEF rename

LEMMA MoveStorageNames ==
  ASSUME TypeInv, NamesInv, KeptApart, NEW p \in Caller, MoveStorage(p)
  PROVE  NamesInv'
<1>1. call[p].pc = "move" /\ UNCHANGED row BY DEF MoveStorage
<1>2. PICK r \in call[p].id : /\ call[p].id = {r} /\ r \in Live /\ Holds(p, r)
                              /\ call[p] \in Renaming /\ call[p].dir = "user"
                              /\ {call[p].old, call[p].new} \subseteq call[p].slugs \cap Slug
                              /\ call[p].old # call[p].new
  BY <1>1, RenameHolds DEF Moved
<1> DEFINE x == <<"user", call[p].old>>
           y == <<"user", call[p].new>>
           moved == rename(x, y)
<1>3. x \in Path /\ y \in Path /\ x # y BY <1>2 DEF Path, Dir
<1>4. Location(r) = x /\ Home(r) = y /\ row[r].slug = call[p].new /\ ~Taken(call[p].old)
  BY <1>1, <1>2, WhereMoved DEF NamesInv, Moved, Holds, Home
<1>5. PICK o \in Outcomes("move", moved) :
        store' = o.store /\ IF o.ok /\ moved # store THEN Answer(p) ELSE Goto(p, "undoRename")
  BY <1>2 DEF MoveStorage
<1>6. CASE o.ok /\ moved # store
  <2>1. store' = moved BY <1>5, <1>6, OutcomeStore
  <2>2. /\ store[x].on /\ store'[x] = NoStore /\ store'[y] = store[x]
        /\ \A z \in Path \ {x, y} : store'[z] = store[z]
    BY <1>3, <1>6, <2>1, RenameOperation
  <2>3. /\ call'[p].id = {} /\ call'[p].slugs = {} /\ call'[p].pc = "idle"
        /\ \A q \in Caller \ {p} : call'[q] = call[q]
    BY <1>5, <1>6 DEF Answer, Idle, TypeInv
  <2>4. Frame(p)
    <3>1. ASSUME NEW s \in Slug, s \notin call[p].slugs
          PROVE  store'[<<"user", s>>] = store[<<"user", s>>]
      <4>1. <<"user", s>> \in Path \ {x, y} BY <1>2, <3>1 DEF Path, Dir
      <4> QED BY <2>2, <4>1
    <3> QED BY <1>1, <2>3, <3>1 DEF Frame
  <2>5. Apart' BY <2>3 DEF NamesInv, Apart
  <2>6. OneHome' BY <1>1 DEF NamesInv, OneHome, Live
  <2>7. ~store'[x].on BY <2>2 DEF NoStore
  <2>8. ASSUME NEW i \in Live
        PROVE  (i \in Live' /\ Location(i)' = Location(i)) \/ ~store'[Location(i)].on
    <3>1. CASE i = r BY <1>4, <2>7, <3>1
    <3>2. CASE i # r
      <4>1. row'[i] = row[i] /\ i \notin call[p].id /\ i \notin call'[p].id
        BY <1>1, <1>2, <2>3, <3>2
      <4> QED BY <2>3, <2>5, <4>1, StaysThere
    <3> QED BY <3>1, <3>2
  <2>9. r \in Live' /\ Location(r)' = y
    <3>1. \A q \in Caller : r \in call'[q].id => call'[q].pc \notin Moved
      BY <1>2, <2>3 DEF NamesInv, Apart, Moved
    <3>2. Location(r)' = Home(r)' BY <3>1, WhereHomeNext
    <3> QED BY <1>1, <1>2, <1>4, <3>2 DEF Home, Live
  <2> HIDE DEF x, y
  <2>10. \A z \in Path : store'[z].on => store[z].on \/ \E i \in Live' : Location(i)' = z
    BY <2>2, <2>7, <2>9
  <2>11. ASSUME NEW z \in Path, ~store'[z].on PROVE store'[z] = NoStore
    BY <2>2, <2>11 DEF NamesInv
  <2> QED BY <2>3, <2>4, <2>6, <2>8, <2>10, <2>11, Assembled
<1>7. CASE ~(o.ok /\ moved # store)
  <2> DEFINE c == [call[p] EXCEPT !.pc = "undoRename"]
  <2>1. store' = store BY <1>5, <1>7, OutcomeStore DEF KeptApart
  <2>2. /\ c.pc = "undoRename" /\ c.id = {r} /\ c.slugs = call[p].slugs
        /\ c.dir = call[p].dir /\ c.old = call[p].old /\ c.new = call[p].new
    BY <1>2 DEF Renaming
  <2>3. call' = [call EXCEPT ![p] = c] BY <1>5, <1>7 DEF Goto
  <2> HIDE DEF c, x, y, moved
  <2>4. call'[p] = c /\ \A q \in Caller \ {p} : call'[q] = call[q] BY <2>3 DEF TypeInv
  <2>5. Frame(p) BY <1>1, <2>1, <2>4 DEF Frame
  <2>6. \A q \in Caller \ {p} : /\ call'[p].id \cap call[q].id = {}
                                /\ call'[p].slugs \cap call[q].slugs = {}
    BY <1>2, <2>2, <2>4 DEF NamesInv, Apart
  <2>7. Apart' BY <2>4, <2>6 DEF NamesInv, Apart
  <2>8. OneHome' BY <1>1 DEF NamesInv, OneHome, Live
  <2>9. Holds(p, r)'
    <3>1. r \in Live' /\ row'[r] = row[r] BY <1>1, <1>2 DEF Live
    <3>2. /\ call'[p].pc = "undoRename" /\ call'[p].slugs = call[p].slugs
          /\ call'[p].dir = "user" /\ call'[p].old = call[p].old /\ call'[p].new = call[p].new
      BY <1>2, <2>2, <2>4
    <3>3. Live' = Live /\ row' = row BY <1>1 DEF Live
    <3>4. ~Taken(call[p].old)' BY <1>4, <3>2, <3>3 DEF Taken
    <3> QED BY <1>2, <1>4, <3>1, <3>2, <3>4 DEF Holds, Moved
  <2>10. \A i \in call'[p].id : Holds(p, i)' BY <2>2, <2>4, <2>9
  <2>11. ASSUME NEW i \in Live PROVE i \in Live' /\ Location(i)' = Location(i)
    <3>1. CASE i = r
      <4>1. Location(r)' = <<"user", call'[p].old>>
        BY <2>2, <2>4, <2>7, WhereMovedNext DEF Moved
      <4>2. Location(r)' = Location(r) BY <1>4, <2>2, <2>4, <4>1 DEF x
      <4> QED BY <1>1, <3>1, <4>2 DEF Live
    <3>2. CASE i # r
      <4>1. row'[i] = row[i] /\ i \notin call[p].id /\ i \notin call'[p].id
        BY <1>1, <1>2, <2>2, <2>4, <3>2
      <4> QED BY <2>4, <2>7, <4>1, StaysThere
    <3> QED BY <3>1, <3>2
  <2>12. \A z \in Path : ~store'[z].on => store'[z] = NoStore BY <2>1 DEF NamesInv
  <2>13. call'[p].pc # "insert" BY <2>2, <2>4
  <2> QED BY <2>1, <2>5, <2>6, <2>8, <2>10, <2>11, <2>12, <2>13, Assembled
<1> QED BY <1>6, <1>7


LEMMA InsertRowNames ==
  ASSUME TypeInv, NamesInv, NEW p \in Caller, InsertRow(p)
  PROVE  NamesInv'
<1>1. call[p].pc = "insert" /\ UNCHANGED store /\ call[p].slug \in call[p].slugs
  BY DEF InsertRow, NamesInv
<1>2. call[p] \in Creation({"insert"}, {{}}) BY <1>1, CallShape DEF TypeInv
<1>3. CASE Answer(p) /\ UNCHANGED row
  BY <1>1, <1>3, AnswerNames DEF Moved
<1>4. ASSUME NEW r \in Repo, Inserts(p, r) PROVE NamesInv'
  <2> DEFINE c == [call[p] EXCEPT !.pc = "init", !.id = {r}]
  <2>1. PICK s \in Slug : s = call[p].slug BY <1>2 DEF Creation
  <2>2. /\ c.pc = "init" /\ c.id = {r} /\ c.slugs = call[p].slugs /\ c.slug = s
    BY <1>2, <2>1 DEF Creation
  <2>3. call' = [call EXCEPT ![p] = c] BY <1>4 DEF Inserts
  <2> HIDE DEF c
  <2>4. call'[p] = c /\ \A q \in Caller \ {p} : call'[q] = call[q] BY <2>3 DEF TypeInv
  <2>5. r \notin Live BY <1>4, RepositoryAssumption DEF Inserts, Live, NoRepo
  <2>6. /\ row'[r].slug = s /\ \A i \in Repo \ {r} : row'[i] = row[i]
    BY <1>4, <2>1 DEF Inserts, TypeInv
  <2>7. Live' = Live \cup {r} BY <2>6 DEF Live
  <2>8. \A i \in Live : row[i].slug # s BY <1>4, <2>1 DEF Inserts, Taken
  <2>9. \A q \in Caller : r \notin call[q].id BY <2>5 DEF NamesInv, Holds
  <2>10. Frame(p) BY <1>1, <2>1, <2>4, <2>5, <2>6 DEF Frame
  <2>11. \A q \in Caller \ {p} : /\ call'[p].id \cap call[q].id = {}
                                 /\ call'[p].slugs \cap call[q].slugs = {}
    BY <2>2, <2>4, <2>9 DEF NamesInv, Apart
  <2>12. Apart' BY <2>4, <2>11 DEF NamesInv, Apart
  <2>13. OneHome'
    <3>1. \A i \in Live : row'[i] = row[i] /\ row'[i].slug # row'[r].slug
      BY <2>5, <2>6, <2>8 DEF Live
    <3> QED BY <2>7, <3>1 DEF NamesInv, OneHome
  <2>14. ~store[<<"user", s>>].on
    <3> SUFFICES ASSUME store[<<"user", s>>].on PROVE FALSE
      OBVIOUS
    <3>1. <<"user", s>> \in Path BY DEF Path, Dir
    <3>2. PICK i \in Live : Location(i) = <<"user", s>> BY <3>1 DEF NamesInv, NoOrphans
    <3>3. CASE \E q \in Caller : i \in call[q].id /\ call[q].pc \in Moved
      <4>1. PICK q \in Caller : i \in call[q].id /\ call[q].pc \in Moved BY <3>3
      <4>2. call[q].old = s BY <3>2, <4>1, WhereMoved DEF NamesInv
      <4>3. call[q].old \in call[q].slugs BY <4>1, RenameHolds
      <4>4. q # p BY <1>1, <4>1 DEF Moved
      <4> QED BY <1>1, <2>1, <4>2, <4>3, <4>4 DEF NamesInv, Apart
    <3>4. CASE \A q \in Caller : i \in call[q].id => call[q].pc \notin Moved
      <4>1. Location(i) = Home(i) BY <3>4, WhereHome
      <4> QED BY <2>8, <3>2, <4>1 DEF Home
    <3> QED BY <3>3, <3>4
  <2>15. Holds(p, r)'
    <3>1. Home(r)' = <<"user", s>> BY <2>6 DEF Home
    <3>2. r \in Live' /\ ~store'[Home(r)'].on BY <1>1, <2>7, <2>14, <3>1
    <3> QED BY <1>1, <2>1, <2>2, <2>4, <2>6, <3>2 DEF Holds, Moved
  <2>16. \A i \in call'[p].id : Holds(p, i)' BY <2>2, <2>4, <2>15
  <2>17. ASSUME NEW i \in Live PROVE i \in Live' /\ Location(i)' = Location(i)
    <3>1. row'[i] = row[i] /\ i \notin call[p].id /\ i \notin call'[p].id
      BY <1>2, <2>2, <2>4, <2>5, <2>6 DEF Creation, Live
    <3> QED BY <2>4, <2>12, <3>1, StaysThere
  <2>18. \A z \in Path : ~store'[z].on => store'[z] = NoStore BY <1>1 DEF NamesInv
  <2>19. call'[p].pc # "insert" BY <2>2, <2>4
  <2> QED BY <1>1, <2>10, <2>11, <2>13, <2>16, <2>17, <2>18, <2>19, Assembled
<1> QED BY <1>3, <1>4, InsertMoves

\* A step after which the same paths have storage
LEMMA SameStorage ==
  ASSUME NamesInv, UNCHANGED <<row, call>>,
         \A x \in Path : store'[x].on = store[x].on /\ (~store'[x].on => store'[x] = NoStore)
  PROVE  NamesInv'
<1>1. \A r \in Repo : Location(r)' = Location(r) BY DEF Location, Home
<1>2. Live' = Live BY DEF Live
<1>3. NoOrphans' BY <1>1, <1>2 DEF NamesInv, NoOrphans, Live
<1>4. Apart' /\ OneHome' BY <1>2 DEF NamesInv, Apart, OneHome
<1>5. ASSUME NEW p \in Caller, NEW r \in call[p].id PROVE Holds(p, r)'
  <2>1. Holds(p, r) BY DEF NamesInv
  <2>2. r \in Live /\ row[r].slug \in Slug BY <2>1 DEF Holds, Live
  <2>3. Home(r) \in Path /\ Home(r)' = Home(r) BY <2>2 DEF Home, Path, Dir
  <2>4. store'[Home(r)].on = store[Home(r)].on BY <2>3
  <2>5. Taken(call[p].old)' = Taken(call[p].old) /\ Taken(call[p].new)' = Taken(call[p].new)
    BY <1>2 DEF Taken
  <2> QED BY <1>2, <2>1, <2>3, <2>4, <2>5 DEF Holds
<1> QED BY <1>3, <1>4, <1>5 DEF NamesInv

LEMMA PushNames ==
  ASSUME TypeInv, NamesInv, NEW r \in Repo, NEW b \in Pushed, Push(r, b)
  PROVE  NamesInv'
<1>1. store \in [Path -> Bare] BY DEF TypeInv
<1>2. Home(r) \in Path /\ store[Home(r)].on /\ UNCHANGED <<row, call>> BY LiveRows DEF Push
<1>3. [store[Home(r)] EXCEPT !.branches = @ \cup {b}].on = store[Home(r)].on
  BY <1>1, <1>2 DEF Bare
<1>4. store' = [store EXCEPT ![Home(r)] = [store[Home(r)] EXCEPT !.branches = @ \cup {b}]]
  BY DEF Push
<1>5. \A x \in Path : store'[x].on = store[x].on /\ (~store'[x].on => store'[x] = NoStore)
  <2>1. \A x \in Path : IF x = Home(r) THEN store'[x].on = store[x].on
                                       ELSE store'[x] = store[x]
    BY <1>1, <1>2, <1>3, <1>4
  <2>2. \A x \in Path : ~store[x].on => store[x] = NoStore BY DEF NamesInv
  <2> HIDE DEF NoStore
  <2> QED BY <1>2, <2>1, <2>2
<1> QED BY <1>2, <1>5, SameStorage

\* A patch of the place moves nothing: names and storage are what they were.
LEMMA PatchMoves ==
  ASSUME TypeInv, NEW r \in Repo, NEW place \in Patched, PatchPlace(r, place)
  PROVE  /\ UNCHANGED <<store, call>> /\ Live' = Live
         /\ \A i \in Repo : row'[i].slug = row[i].slug
         /\ \A i \in Repo : row'[i] = row[i] \/ i \in Live
         /\ \A i \in Repo : Home(i)' = Home(i) /\ Location(i)' = Location(i)
<1>1. UNCHANGED <<store, call>> BY DEF PatchPlace
<1>2. Live' = Live /\ r \in Live BY PatchedRows
<1>3. row'[r].slug = row[r].slug /\ \A i \in Repo \ {r} : row'[i] = row[i] BY PatchedRows
<1>4. \A i \in Repo : row'[i].slug = row[i].slug BY <1>3
<1>5. \A i \in Repo : Home(i)' = Home(i) BY <1>4 DEF Home
<1>6. \A i \in Repo : Location(i)' = Location(i) BY <1>1, <1>5 DEF Location
<1> QED BY <1>1, <1>2, <1>3, <1>4, <1>5, <1>6

LEMMA PatchNames ==
  ASSUME TypeInv, NamesInv, NEW r \in Repo, NEW place \in Patched, PatchPlace(r, place)
  PROVE  NamesInv'
<1>1. /\ UNCHANGED <<store, call>> /\ Live' = Live
      /\ \A i \in Repo : row'[i].slug = row[i].slug
      /\ \A i \in Repo : Home(i)' = Home(i) /\ Location(i)' = Location(i)
  BY PatchMoves
<1>2. Live \subseteq Repo BY DEF Live
<1>3. \A s : Taken(s)' = Taken(s) BY <1>1, <1>2 DEF Taken
<1>4. NoOrphans' BY <1>1, <1>2 DEF NamesInv, NoOrphans
<1>5. Apart' /\ OneHome' BY <1>1, <1>2 DEF NamesInv, Apart, OneHome
<1>6. ASSUME NEW p \in Caller, NEW i \in call[p].id PROVE Holds(p, i)'
  <2>1. Holds(p, i) /\ i \in Live BY DEF NamesInv, Holds
  <2>2. i \in Repo BY <2>1, <1>2
  <2> QED BY <1>1, <1>3, <2>1, <2>2 DEF Holds
<1> QED BY <1>1, <1>4, <1>5, <1>6 DEF NamesInv

LEMMA NamesStep == TypeInv /\ NamesInv /\ KeptApart /\ [Next]_vars => NamesInv'
<1> SUFFICES ASSUME TypeInv, NamesInv, KeptApart, [Next]_vars PROVE NamesInv'
  OBVIOUS
<1>1. ASSUME NEW p \in Caller, \E s \in Slug, place \in Created : StartCreate(p, s, place)
      PROVE  NamesInv'
  BY <1>1, StartCreateNames
<1>2. ASSUME NEW p \in Caller, NEW r \in Repo,
             \/ StartInitialize(p, r)
             \/ StartDelete(p, r)
             \/ \E s \in Slug : StartRename(p, r, s)
             \/ \E b \in Branch : UpdateDefaultBranch(p, r, b)
      PROVE  NamesInv'
  BY <1>2, StartNamesHold
<1>3. ASSUME NEW p \in Caller, CallStep(p) PROVE NamesInv'
  BY <1>3, InsertRowNames, InitStorageNames, RemoveNames, InitializeNames, UpdateRowNames,
     MoveStorageNames, UndoRenameNames, UnlinkNames, ReadRowNames DEF CallStep
<1>4. ASSUME NEW p \in Caller, Crash(p) PROVE NamesInv'
  <2>1. call[p].pc \notin Moved /\ Answer(p) /\ UNCHANGED <<row, store>>
    BY <1>4 DEF Crash, KeptApart, Moved
  <2> QED BY <2>1, AnswerNames
<1>5. ASSUME NEW r \in Repo, NEW b \in Pushed, Push(r, b) PROVE NamesInv'
  BY <1>5, PushNames
<1>6. CASE UNCHANGED vars
  <2>1. UNCHANGED <<row, store, call>> BY <1>6 DEF vars
  <2>2. \A x \in Path : store'[x].on = store[x].on /\ (~store'[x].on => store'[x] = NoStore)
    BY <2>1 DEF NamesInv
  <2> QED BY <2>1, <2>2, SameStorage
<1>7. ASSUME NEW r \in Repo, NEW place \in Patched, PatchPlace(r, place) PROVE NamesInv'
  BY <1>7, PatchNames
<1> QED BY <1>1, <1>2, <1>3, <1>4, <1>5, <1>6, <1>7 DEF Next

LEMMA NamesInit == Init => NamesInv
<1> SUFFICES ASSUME Init PROVE NamesInv
  OBVIOUS
<1>1. Live = {} BY RepositoryAssumption DEF Init, Live, NoRepo
<1>2. \A x \in Path : store[x] = NoStore BY DEF Init
<1>3. \A p \in Caller : call[p].id = {} /\ call[p].slugs = {} /\ call[p].pc = "idle"
  BY DEF Init, Idle
<1>4. \A x \in Path : ~store[x].on BY <1>2 DEF NoStore
<1> QED BY <1>1, <1>2, <1>3, <1>4 DEF NamesInv, Apart, OneHome, NoOrphans

LEMMA NamesInvariant == ASSUME KeptApart PROVE Spec => []NamesInv
<1>1. Init => NamesInv BY NamesInit
<1>2. TypeInv /\ NamesInv /\ [Next]_vars => NamesInv' BY NamesStep
<1> QED BY <1>1, <1>2, TypeInvariant, PTL DEF Spec

\* Storage on disk belongs to a repository there is or is being created
\* (Repository!NoOrphans): failed creations and failed renames leave nothing behind,
\* while clients keep apart the operations on a name and the failures are those whose
\* answer is true.
THEOREM NothingIsOrphaned == ASSUME KeptApart PROVE Spec => []NoOrphans
<1>1. NamesInv => NoOrphans BY DEF NamesInv
<1> QED BY <1>1, NamesInvariant, PTL

-----------------------------------------------------------------------------
(***************************************************************************)
(* The operations implement RepositoryContract: which repository a path    *)
(* belongs to never becomes another's, so each step adds, extends or       *)
(* removes one repository of the contract, or none.                        *)
(***************************************************************************)

Life(r) == IF Removed(r) THEN "deleted" ELSE IF r \in Live THEN "live" ELSE "absent"
Work(r) == IF r \notin Live \/ Removed(r) THEN {} ELSE store[Location(r)].branches

Lives == [r \in Repo |-> IF Removed(r) THEN "deleted"
                         ELSE IF r \in Live THEN "live" ELSE "absent"]
Works == [r \in Repo |-> IF r \notin Live \/ Removed(r) THEN {}
                         ELSE store[Location(r)].branches]

Same(r) == Life(r)' = Life(r) /\ Work(r)' = Work(r)

Step == Contract!ContractNext \/ (Lives' = Lives /\ Works' = Works)

LEMMA AllSame == ASSUME \A r \in Repo : Same(r) PROVE Step
<1>1. \A r \in Repo : Life(r)' = Life(r) BY DEF Same
<1>2. \A r \in Repo : Work(r)' = Work(r) BY DEF Same
<1>3. Lives' = Lives BY <1>1 DEF Lives, Life
<1>4. Works' = Works BY <1>2 DEF Works, Work
<1> QED BY <1>3, <1>4 DEF Step

LEMMA OneAppears ==
  ASSUME NEW r \in Repo, \A i \in Repo \ {r} : Same(i),
         Life(r) = "absent", Life(r)' = "live", Work(r)' = Work(r)
  PROVE  Step
<1>1. \A i \in Repo : Work(i)' = Work(i) BY DEF Same
<1>2. Works' = Works BY <1>1 DEF Works, Work
<1>3. \A i \in Repo : Life(i)' = IF i = r THEN "live" ELSE Life(i) BY DEF Same
<1>4. Lives' = [Lives EXCEPT ![r] = "live"] BY <1>3 DEF Lives, Life
<1>5. Lives[r] = "absent" BY DEF Lives, Life
<1>6. Contract!Appear(r) BY <1>2, <1>4, <1>5 DEF Contract!Appear, Lives, Works
<1> QED BY <1>6 DEF Step, Contract!ContractNext

LEMMA OneGains ==
  ASSUME NEW r \in Repo, NEW b \in Branch, \A i \in Repo \ {r} : Same(i),
         Life(r) = "live", Life(r)' = Life(r), Work(r)' = Work(r) \cup {b}
  PROVE  Step
<1>1. \A i \in Repo : Life(i)' = Life(i) BY DEF Same
<1>2. Lives' = Lives BY <1>1 DEF Lives, Life
<1>3. \A i \in Repo : Work(i)' = IF i = r THEN Work(r) \cup {b} ELSE Work(i) BY DEF Same
<1>4. Works' = [Works EXCEPT ![r] = @ \cup {b}] BY <1>3 DEF Works, Work
<1>5. Lives[r] = "live" BY DEF Lives, Life
<1>6. Contract!Gain(r, b) BY <1>2, <1>4, <1>5 DEF Contract!Gain, Lives, Works
<1> QED BY <1>6 DEF Step, Contract!ContractNext

LEMMA OneGoes ==
  ASSUME NEW r \in Repo, \A i \in Repo \ {r} : Same(i),
         Life(r) = "live", Life(r)' = "deleted", Work(r)' = {}
  PROVE  Step
<1>1. \A i \in Repo : Life(i)' = IF i = r THEN "deleted" ELSE Life(i) BY DEF Same
<1>2. Lives' = [Lives EXCEPT ![r] = "deleted"] BY <1>1 DEF Lives, Life
<1>3. \A i \in Repo : Work(i)' = IF i = r THEN {} ELSE Work(i) BY DEF Same
<1>4. Works' = [Works EXCEPT ![r] = {}] BY <1>3 DEF Works, Work
<1>5. Lives[r] = "live" BY DEF Lives, Life
<1>6. Contract!Remove(r) BY <1>2, <1>4, <1>5 DEF Contract!Remove, Lives, Works
<1> QED BY <1>6 DEF Step, Contract!ContractNext

\* No two repositories are at one place, nor under the name another's row has.
LEMMA NotTheHome ==
  ASSUME NamesInv, NEW r \in Live, NEW i \in Live, i # r
  PROVE  Location(i) # Home(r)
<1>1. CASE \E q \in Caller : i \in call[q].id /\ call[q].pc \in Moved
  <2>1. PICK q \in Caller : i \in call[q].id /\ call[q].pc \in Moved BY <1>1
  <2>2. Location(i) = <<"user", call[q].old>> BY <2>1, WhereMoved DEF NamesInv
  <2>3. Holds(q, i) BY <2>1 DEF NamesInv
  <2>4. ~Taken(call[q].old) BY <2>1, <2>3 DEF Holds, Moved
  <2> QED BY <2>2, <2>4 DEF Taken, Home
<1>2. CASE \A q \in Caller : i \in call[q].id => call[q].pc \notin Moved
  <2>1. Location(i) = Home(i) BY <1>2, WhereHome
  <2> QED BY <2>1 DEF Home, NamesInv, OneHome
<1> QED BY <1>1, <1>2

LEMMA NotTheOldHome ==
  ASSUME TypeInv, NamesInv, NEW p \in Caller, call[p].pc \in Moved,
         NEW i \in Live, i \notin call[p].id
  PROVE  Location(i) # <<"user", call[p].old>>
<1>1. PICK r \in call[p].id : Holds(p, r) /\ call[p].old \in call[p].slugs
  BY RenameHolds
<1>2. ~Taken(call[p].old) BY <1>1 DEF Holds, Moved
<1>3. CASE \E q \in Caller : i \in call[q].id /\ call[q].pc \in Moved
  <2>1. PICK q \in Caller : i \in call[q].id /\ call[q].pc \in Moved BY <1>3
  <2>2. Location(i) = <<"user", call[q].old>> BY <2>1, WhereMoved DEF NamesInv
  <2>3. call[q].old \in call[q].slugs BY <2>1, RenameHolds
  <2> QED BY <1>1, <2>1, <2>2, <2>3 DEF NamesInv, Apart
<1>4. CASE \A q \in Caller : i \in call[q].id => call[q].pc \notin Moved
  <2>1. Location(i) = Home(i) BY <1>4, WhereHome
  <2> QED BY <1>2, <2>1 DEF Home, Taken
<1> QED BY <1>3, <1>4

LEMMA InPlace ==
  ASSUME TypeInv, NamesInv, NEW i \in Live
  PROVE  Location(i) \in Path
<1>1. CASE \E q \in Caller : i \in call[q].id /\ call[q].pc \in Moved
  <2>1. PICK q \in Caller : i \in call[q].id /\ call[q].pc \in Moved BY <1>1
  <2>2. Location(i) = <<"user", call[q].old>> BY <2>1, WhereMoved DEF NamesInv
  <2>3. call[q].old \in Slug BY <2>1, RenameHolds
  <2> QED BY <2>2, <2>3 DEF Path, Dir
<1>2. CASE \A q \in Caller : i \in call[q].id => call[q].pc \notin Moved
  BY <1>2, WhereHome, LiveRows
<1> QED BY <1>1, <1>2

\* A repository that keeps its row, its place and its branches, and that no step
\* begins or ends to remove
LEMMA KeptAsItIs ==
  ASSUME NEW p \in Caller, \A q \in Caller \ {p} : call'[q] = call[q],
         NEW i \in Live, i \in Live', Location(i)' = Location(i),
         store'[Location(i)].branches = store[Location(i)].branches,
         i \in call[p].id => call[p].pc # "deleteRow",
         i \in call'[p].id => call'[p].pc # "deleteRow"
  PROVE  Same(i)
<1>1. Removed(i)' <=> Removed(i)
  <2>1. (\E q \in Caller : i \in call'[q].id /\ call'[q].pc = "deleteRow")
         <=> \E q \in Caller : i \in call[q].id /\ call[q].pc = "deleteRow"
    OBVIOUS
  <2>2. row[i] # Deleted /\ row'[i] # Deleted
    BY RepositoryAssumption DEF Live, Deleted
  <2> QED BY <2>1, <2>2 DEF Removed
<1>2. Work(i)' = Work(i) BY <1>1 DEF Work
<1>3. Life(i)' = Life(i) BY <1>1 DEF Life
<1> QED BY <1>2, <1>3 DEF Same

\* A row no step touches: never used, or removed for good
LEMMA KeptOutside ==
  ASSUME NEW p \in Caller, \A q \in Caller \ {p} : call'[q] = call[q],
         NEW i \in Repo \ Live, row'[i] = row[i], i \notin call[p].id, i \notin call'[p].id
  PROVE  Same(i)
<1>1. Removed(i)' <=> Removed(i)
  <2>1. (\E q \in Caller : i \in call'[q].id /\ call'[q].pc = "deleteRow")
         <=> \E q \in Caller : i \in call[q].id /\ call[q].pc = "deleteRow"
    OBVIOUS
  <2> QED BY <2>1 DEF Removed
<1>2. i \notin Live' BY DEF Live
<1> QED BY <1>1, <1>2 DEF Same, Work, Life


\* A step that moves no branch and removes nothing
LEMMA Quiet ==
  ASSUME TypeInv, NamesInv, NamesInv', NEW p \in Caller,
         \A q \in Caller \ {p} : call'[q] = call[q],
         call[p].pc # "deleteRow", call'[p].pc # "deleteRow",
         \A i \in Repo \ Live : row'[i] = row[i],
         \A i \in Live : i \in Live' /\ Location(i)' = Location(i),
         \A y \in Path : store'[y].branches = store[y].branches
  PROVE  Step
<1>1. ASSUME NEW i \in Live PROVE Same(i) BY InPlace, KeptAsItIs
<1>2. ASSUME NEW i \in Repo \ Live PROVE Same(i)
  <2>1. i \notin Live' BY DEF Live
  <2>2. i \notin call[p].id /\ i \notin call'[p].id
    BY <2>1 DEF NamesInv, Holds
  <2> QED BY <2>2, KeptOutside
<1>3. \A i \in Repo : Same(i) BY <1>1, <1>2
<1> QED BY <1>3, AllSame

LEMMA QuietCall ==
  ASSUME TypeInv, NamesInv, NamesInv', NEW p \in Caller, UNCHANGED row,
         \A q \in Caller \ {p} : call'[q] = call[q],
         call[p].pc \notin Moved \cup {"deleteRow"},
         call'[p].pc \notin Moved \cup {"deleteRow"},
         \A y \in Path : store'[y].branches = store[y].branches
  PROVE  Step
<1>1. Apart' BY DEF NamesInv
<1>2. \A i \in Live : i \in Live' /\ Location(i)' = Location(i) BY <1>1, StaysThere
<1> QED BY <1>2, Quiet

LEMMA StartStep ==
  ASSUME TypeInv, TypeInv', NamesInv, NamesInv', NEW p \in Caller,
         \/ \E s \in Slug, place \in Created : StartCreate(p, s, place)
         \/ \E r \in Repo : \/ StartInitialize(p, r)
                            \/ \E s \in Slug : StartRename(p, r, s)
                            \/ StartDelete(p, r)
                            \/ \E b \in Branch : UpdateDefaultBranch(p, r, b)
  PROVE  Step
<1>1. call[p].pc = "idle" /\ UNCHANGED <<row, store>>
  BY DEF StartCreate, StartInitialize, StartRename, StartDelete, UpdateDefaultBranch, MayStart
<1>2. /\ \A q \in Caller \ {p} : call'[q] = call[q]
      /\ call'[p].pc \in {"idle", "insert", "initialize", "updateRow", "unlink", "readRow"}
  <2>1. call \in [Caller -> Call] BY DEF TypeInv
  <2>2. CASE \E s \in Slug, place \in Created : StartCreate(p, s, place)
    BY <2>1, <2>2 DEF StartCreate, Answer, Idle
  <2>3. CASE \E r \in Repo : StartInitialize(p, r) BY <2>1, <2>3 DEF StartInitialize
  <2>4. CASE \E r \in Repo : \E s \in Slug : StartRename(p, r, s)
    BY <2>1, <2>4 DEF StartRename, Answer, Idle
  <2>5. CASE \E r \in Repo : StartDelete(p, r) BY <2>1, <2>5 DEF StartDelete
  <2>6. CASE \E r \in Repo : \E b \in Branch : UpdateDefaultBranch(p, r, b)
    BY <2>1, <2>6 DEF UpdateDefaultBranch
  <2> QED BY <2>2, <2>3, <2>4, <2>5, <2>6
<1> QED BY <1>1, <1>2, QuietCall DEF Moved

LEMMA AnswerStep ==
  ASSUME TypeInv, NamesInv, NamesInv', NEW p \in Caller, Answer(p), UNCHANGED row,
         call[p].pc \notin Moved \cup {"deleteRow"},
         \A y \in Path : store'[y].branches = store[y].branches
  PROVE  Step
<1>1. call'[p].pc = "idle" /\ \A q \in Caller \ {p} : call'[q] = call[q]
  BY DEF TypeInv, Answer, Idle
<1> QED BY <1>1, QuietCall DEF Moved

\* Neither initializing storage nor moving HEAD touches a branch.
LEMMA SameBranches ==
  ASSUME TypeInv, NamesInv, NEW x \in Path
  PROVE  \A y \in Path : /\ init(x)[y].branches = store[y].branches
                         /\ \A b \in Branch :
                              setDefaultBranch(x, b)[y].branches = store[y].branches
<1>1. store \in [Path -> Bare] BY DEF TypeInv
<1>2. NoStore.branches = {} BY DEF NoStore
<1>3. ~store[x].on => store[x].branches = {} BY <1>2 DEF NamesInv
<1>4. \A b \in Branch : [store[x] EXCEPT !.head = b].branches = store[x].branches
  BY <1>1 DEF Bare
<1>5. ASSUME NEW y \in Path PROVE init(x)[y].branches = store[y].branches
  BY <1>1, <1>3 DEF init
<1>6. ASSUME NEW y \in Path, NEW b \in Branch
      PROVE  setDefaultBranch(x, b)[y].branches = store[y].branches
  BY <1>1, <1>4 DEF setDefaultBranch
<1> QED BY <1>5, <1>6

LEMMA InitStorageStep ==
  ASSUME TypeInv, NamesInv, NamesInv', NEW p \in Caller, InitStorage(p)
  PROVE  Step
<1> DEFINE x == <<"user", call[p].slug>>
<1>1. call[p].pc = "init" /\ UNCHANGED row BY DEF InitStorage
<1>2. call[p] \in Creation({"init", "undoCreate"}, One) BY <1>1, CallShape DEF TypeInv
<1>3. x \in Path BY <1>2 DEF Creation, Path, Dir
<1>4. store' \in {store, init(x)} BY OutcomeStore DEF InitStorage
<1>5. \A y \in Path : store'[y].branches = store[y].branches BY <1>3, <1>4, SameBranches
<1>6. /\ \A q \in Caller \ {p} : call'[q] = call[q]
      /\ call'[p].pc \in {"idle", "undoCreate"}
  <2>1. Answer(p) \/ Goto(p, "undoCreate") BY DEF InitStorage
  <2>2. [call[p] EXCEPT !.pc = "undoCreate"].pc = "undoCreate" BY <1>2 DEF Creation
  <2>3. CASE Answer(p) BY <2>3 DEF Answer, Idle, TypeInv
  <2>4. CASE ~Answer(p) BY <2>1, <2>2, <2>4 DEF Goto, TypeInv
  <2> QED BY <2>3, <2>4
<1> QED BY <1>1, <1>5, <1>6, QuietCall DEF Moved

LEMMA InitializeStep ==
  ASSUME TypeInv, NamesInv, NamesInv', NEW p \in Caller, Initialize(p) \/ syncDefaultBranch(p)
  PROVE  Step
<1>1. call[p].pc \in {"initialize", "sync"} /\ Answer(p) /\ UNCHANGED row
  BY DEF Initialize, syncDefaultBranch
<1>2. \A y \in Path : store'[y].branches = store[y].branches
  <2>1. CASE Initialize(p)
    <3>1. call[p].path \in Path BY <2>1, CallShape DEF Initialize, TypeInv, AtPath
    <3> QED BY <2>1, <3>1, OutcomeStore, SameBranches DEF Initialize
  <2>2. CASE syncDefaultBranch(p)
    <3>1. call[p].path \in Path /\ call[p].head \in Branch
      BY <2>2, CallShape DEF syncDefaultBranch, TypeInv, Syncs
    <3> QED BY <2>2, <3>1, OutcomeStore, SameBranches DEF syncDefaultBranch
  <2> QED BY <2>1, <2>2
<1> QED BY <1>1, <1>2, AnswerStep DEF Moved

LEMMA ReadRowStep ==
  ASSUME TypeInv, NamesInv, NamesInv', NEW p \in Caller, ReadRow(p)
  PROVE  Step
<1>1. call[p].pc = "readRow" /\ UNCHANGED <<row, store>> BY DEF ReadRow
<1>2. /\ \A q \in Caller \ {p} : call'[q] = call[q]
      /\ call'[p].pc \in {"idle", "sync"}
  BY DEF ReadRow, Answer, Idle, TypeInv
<1> QED BY <1>1, <1>2, QuietCall DEF Moved

LEMMA RenameRowStep ==
  ASSUME TypeInv, NamesInv, NamesInv', NEW p \in Caller, UpdateRow(p) \/ UndoRename(p)
  PROVE  Step
<1>1. call[p].pc \in {"updateRow", "undoRename"} /\ UNCHANGED store
  BY DEF UpdateRow, UndoRename
<1>2. call[p] \in Renaming BY <1>1, CallShape DEF TypeInv
<1>3. /\ \A q \in Caller \ {p} : call'[q] = call[q]
      /\ call'[p].pc # "deleteRow"
  <2>1. Answer(p) \/ Goto(p, "move") BY DEF UpdateRow, UndoRename
  <2>2. [call[p] EXCEPT !.pc = "move"].pc = "move" BY <1>2 DEF Renaming
  <2>3. CASE Answer(p) BY <2>3 DEF Answer, Idle, TypeInv
  <2>4. CASE ~Answer(p) BY <2>1, <2>2, <2>4 DEF Goto, TypeInv
  <2> QED BY <2>3, <2>4
<1>4. \A i \in Repo \ Live : row'[i] = row[i]
  BY DEF UpdateRow, UndoRename, SetSlug
<1>5. \A i \in Live : i \in Live' /\ Location(i)' = Location(i)
  BY UpdateRowNames, UndoRenameNames
<1>6. call[p].pc # "deleteRow" BY <1>1
<1>7. \A y \in Path : store'[y].branches = store[y].branches BY <1>1
<1> QED BY <1>3, <1>4, <1>5, <1>6, <1>7, Quiet


\* The repositories a step of p is not about, when it changes storage only where the
\* repository it is about has its row, or had it
LEMMA OthersSame ==
  ASSUME TypeInv, NamesInv, NamesInv', NEW p \in Caller,
         \A q \in Caller \ {p} : call'[q] = call[q],
         \A y \in Path : \/ store'[y].branches = store[y].branches
                         \/ \E r \in call[p].id : y = Home(r)
                         \/ call[p].pc \in Moved /\ y = <<"user", call[p].old>>,
         NEW i \in Repo, row'[i] = row[i], i \notin call[p].id, i \notin call'[p].id
  PROVE  Same(i)
<1>1. CASE i \notin Live BY <1>1, KeptOutside
<1>2. CASE i \in Live
  <2>1. i \in Live' /\ Location(i)' = Location(i) BY <1>2, StaysThere DEF NamesInv
  <2>2. Location(i) \in Path BY <1>2, InPlace
  <2>3. \A r \in call[p].id : Location(i) # Home(r)
    BY <1>2, NotTheHome DEF NamesInv, Holds
  <2>4. call[p].pc \in Moved => Location(i) # <<"user", call[p].old>>
    BY <1>2, NotTheOldHome
  <2>5. store'[Location(i)].branches = store[Location(i)].branches BY <2>2, <2>3, <2>4
  <2> QED BY <1>2, <2>1, <2>5, KeptAsItIs
<1> QED BY <1>1, <1>2

\* A repository in use, at the name of its row
LEMMA InUse ==
  ASSUME NamesInv, NEW p \in Caller, NEW r \in call[p].id,
         call[p].pc \notin Moved \cup {"deleteRow"}
  PROVE  /\ r \in Live /\ Location(r) = Home(r)
         /\ Life(r) = "live" /\ Work(r) = store[Home(r)].branches
<1>1. r \in Live BY DEF NamesInv, Holds
<1>2. \A q \in Caller : r \in call[q].id => q = p BY DEF NamesInv, Apart
<1>3. Location(r) = Home(r) BY <1>2, WhereHome
<1>4. ~Removed(r) BY <1>1, <1>2, RepositoryAssumption DEF Removed, Live, Deleted
<1> QED BY <1>1, <1>3, <1>4 DEF Life, Work

LEMMA InsertRowStep ==
  ASSUME TypeInv, NamesInv, NamesInv', NEW p \in Caller, InsertRow(p)
  PROVE  Step
<1>1. call[p].pc = "insert" /\ UNCHANGED store BY DEF InsertRow
<1>2. call[p] \in Creation({"insert"}, {{}}) BY <1>1, CallShape DEF TypeInv
<1>3. CASE Answer(p) /\ UNCHANGED row BY <1>1, <1>3, AnswerStep DEF Moved
<1>4. ASSUME NEW r \in Repo, Inserts(p, r) PROVE Step
  <2> DEFINE c == [call[p] EXCEPT !.pc = "init", !.id = {r}]
  <2>1. c.pc = "init" /\ c.id = {r} BY <1>2 DEF Creation
  <2>2. call' = [call EXCEPT ![p] = c] BY <1>4 DEF Inserts
  <2> HIDE DEF c
  <2>3. call'[p] = c /\ \A q \in Caller \ {p} : call'[q] = call[q] BY <2>2 DEF TypeInv
  <2>4. row[r] = NoRepo /\ \A i \in Repo \ {r} : row'[i] = row[i]
    BY <1>4 DEF Inserts, TypeInv
  <2>5. \A i \in Repo \ {r} : Same(i)
    BY <1>1, <1>2, <2>1, <2>3, <2>4, OthersSame DEF Creation
  <2>6. r \notin Live /\ row[r] # Deleted
    BY <2>4, RepositoryAssumption DEF Live, NoRepo, Deleted
  <2>7. \A q \in Caller : r \notin call[q].id BY <2>6 DEF NamesInv, Holds
  <2>8. Life(r) = "absent" /\ Work(r) = {} BY <2>6, <2>7 DEF Life, Work, Removed
  <2>9. Holds(p, r)' BY <2>1, <2>3 DEF NamesInv
  <2>10. r \in Live' /\ ~store'[Home(r)'].on BY <2>1, <2>3, <2>9 DEF Holds
  <2>11. \A q \in Caller : r \in call'[q].id => q = p BY <2>3, <2>7
  <2>12. Location(r)' = Home(r)'
    BY <2>1, <2>3, <2>11, WhereHomeNext DEF Moved
  <2>13. ~Removed(r)'
    BY <2>1, <2>3, <2>10, <2>11, RepositoryAssumption DEF Removed, Live, Deleted
  <2>14. Life(r)' = "live" BY <2>10, <2>13 DEF Life
  <2>15. Home(r)' \in Path BY <2>10 DEF Home, Path, Dir, Live
  <2>16. store'[Home(r)'].branches = {}
    <3>1. \A y \in Path : ~store'[y].on => store'[y] = NoStore BY DEF NamesInv
    <3>2. store'[Home(r)'] = NoStore BY <2>10, <2>15, <3>1
    <3> QED BY <3>2 DEF NoStore
  <2>17. Work(r)' = {} BY <2>10, <2>12, <2>13, <2>16 DEF Work
  <2> QED BY <2>5, <2>8, <2>14, <2>17, OneAppears
<1> QED BY <1>3, <1>4, InsertMoves

LEMMA MoveStorageStep ==
  ASSUME TypeInv, NamesInv, NamesInv', KeptApart, NEW p \in Caller, MoveStorage(p)
  PROVE  Step
<1>1. call[p].pc = "move" /\ UNCHANGED row BY DEF MoveStorage
<1>2. PICK r \in call[p].id : /\ call[p].id = {r} /\ r \in Live /\ Holds(p, r)
                              /\ call[p] \in Renaming /\ call[p].dir = "user"
                              /\ {call[p].old, call[p].new} \subseteq call[p].slugs \cap Slug
                              /\ call[p].old # call[p].new
  BY <1>1, RenameHolds DEF Moved
<1> DEFINE x == <<"user", call[p].old>>
           y == <<"user", call[p].new>>
           moved == rename(x, y)
<1>3. x \in Path /\ y \in Path /\ x # y BY <1>2 DEF Path, Dir
<1>4. Location(r) = x /\ Home(r) = y
  BY <1>1, <1>2, WhereMoved DEF NamesInv, Moved, Holds, Home
<1>5. PICK o \in Outcomes("move", moved) :
        store' = o.store /\ IF o.ok /\ moved # store THEN Answer(p) ELSE Goto(p, "undoRename")
  BY <1>2 DEF MoveStorage
<1>6. [call[p] EXCEPT !.pc = "undoRename"].pc = "undoRename"
      /\ [call[p] EXCEPT !.pc = "undoRename"].id = {r}
      /\ [call[p] EXCEPT !.pc = "undoRename"].old = call[p].old
  BY <1>2 DEF Renaming
<1>7. CASE o.ok /\ moved # store
  <2>1. store' = moved BY <1>5, <1>7, OutcomeStore
  <2>2. store'[y] = store[x] /\ \A z \in Path \ {x, y} : store'[z] = store[z]
    BY <1>3, <1>7, <2>1, RenameOperation
  <2>3. /\ call'[p].id = {} /\ call'[p].pc = "idle"
        /\ \A q \in Caller \ {p} : call'[q] = call[q]
    BY <1>5, <1>7 DEF Answer, Idle, TypeInv
  <2>4. Location(r)' = y
    <3>1. \A q \in Caller : r \in call'[q].id => call'[q].pc \notin Moved
      BY <1>2, <2>3 DEF NamesInv, Apart, Moved
    <3>2. Location(r)' = Home(r)' BY <3>1, WhereHomeNext
    <3> QED BY <1>1, <1>4, <3>2 DEF Home
  <2> HIDE DEF x, y
  <2>5. \A i \in Repo \ {r} : Same(i)
    <3>1. \A z \in Path : \/ store'[z].branches = store[z].branches
                          \/ \E s \in call[p].id : z = Home(s)
                          \/ call[p].pc \in Moved /\ z = <<"user", call[p].old>>
      BY <1>1, <1>2, <1>4, <2>2 DEF Moved, x
    <3> QED BY <1>1, <1>2, <2>3, <3>1, OthersSame
  <2>6. Same(r)
    <3>1. \A q \in Caller : r \in call[q].id => q = p BY DEF NamesInv, Apart
    <3>2. ~Removed(r) /\ ~Removed(r)'
      BY <1>1, <1>2, <2>3, <3>1, RepositoryAssumption DEF Removed, Live, Deleted
    <3>3. r \in Live' BY <1>1, <1>2 DEF Live
    <3>4. Work(r) = store[x].branches BY <1>2, <1>4, <3>2 DEF Work
    <3>5. Work(r)' = store'[y].branches BY <2>4, <3>2, <3>3 DEF Work
    <3>6. Life(r)' = Life(r) BY <1>2, <3>2, <3>3 DEF Life
    <3> QED BY <2>2, <3>4, <3>5, <3>6 DEF Same
  <2> QED BY <2>5, <2>6, AllSame
<1>8. CASE ~(o.ok /\ moved # store)
  <2>1. store' = store BY <1>5, <1>8, OutcomeStore DEF KeptApart
  <2>2. /\ call'[p].pc = "undoRename" /\ call'[p].id = {r} /\ call'[p].old = call[p].old
        /\ \A q \in Caller \ {p} : call'[q] = call[q]
    BY <1>5, <1>6, <1>8 DEF Goto, TypeInv
  <2>3. Location(r)' = Location(r)
    BY <1>1, <1>4, <2>2, WhereMovedNext DEF Moved, NamesInv
  <2>4. ASSUME NEW i \in Live PROVE i \in Live' /\ Location(i)' = Location(i)
    <3>1. CASE i = r BY <1>1, <2>3, <3>1 DEF Live
    <3>2. CASE i # r BY <1>1, <1>2, <2>2, <3>2, StaysThere DEF NamesInv
    <3> QED BY <3>1, <3>2
  <2> HIDE DEF x, y, moved
  <2>5. \A z \in Path : store'[z].branches = store[z].branches BY <2>1
  <2> QED BY <1>1, <2>2, <2>4, <2>5, Quiet
<1> QED BY <1>7, <1>8

LEMMA RemoveStep ==
  ASSUME TypeInv, NamesInv, NamesInv', NEW p \in Caller, UndoCreate(p) \/ DeleteRow(p)
  PROVE  Step
<1>1. /\ call[p].pc \in {"undoCreate", "deleteRow"} /\ Answer(p) /\ UNCHANGED store
      /\ row' = [r \in Repo |-> IF r \in call[p].id THEN Deleted ELSE row[r]]
  BY DEF UndoCreate, DeleteRow
<1>2. PICK r \in Repo : call[p].id = {r}
  <2>1. call[p].id \in One BY <1>1, CallShape DEF TypeInv
  <2> QED BY <2>1 DEF One
<1>3. /\ call'[p].id = {} /\ call'[p].pc = "idle"
      /\ \A q \in Caller \ {p} : call'[q] = call[q]
  BY <1>1 DEF Answer, Idle, TypeInv
<1>4. \A i \in Repo \ {r} : Same(i) BY <1>1, <1>2, <1>3, OthersSame
<1>5. row'[r] = Deleted /\ r \notin Live'
  BY <1>1, <1>2, RepositoryAssumption DEF Live, Deleted
<1>6. Life(r)' = "deleted" /\ Work(r)' = {} BY <1>5 DEF Life, Work, Removed
<1>7. CASE call[p].pc = "undoCreate"
  <2>1. Life(r) = "live" BY <1>2, <1>7, InUse DEF Moved
  <2> QED BY <1>4, <1>6, <2>1, OneGoes
<1>8. CASE call[p].pc = "deleteRow"
  <2>1. Removed(r) BY <1>2, <1>8 DEF Removed
  <2>2. Life(r) = "deleted" /\ Work(r) = {} BY <2>1 DEF Life, Work
  <2>3. Same(r) BY <1>6, <2>2 DEF Same
  <2> QED BY <1>4, <2>3, AllSame
<1> QED BY <1>1, <1>7, <1>8

LEMMA UnlinkStep ==
  ASSUME TypeInv, NamesInv, NamesInv', KeptApart, NEW p \in Caller,
         deleteRepositoryStorageById(p)
  PROVE  Step
<1>1. call[p].pc = "unlink" /\ UNCHANGED row /\ Goto(p, "deleteRow")
  BY DEF deleteRepositoryStorageById
<1>2. PICK r \in call[p].id : /\ call[p].id = {r} /\ r \in Live /\ Holds(p, r)
                              /\ call[p].path = Home(r) /\ Home(r) \in Path
  BY <1>1, KeptPath
<1>3. store' = delete(Home(r))
  BY <1>2, OutcomeStore DEF deleteRepositoryStorageById, KeptApart
<1>4. \A y \in Path : y # Home(r) => store'[y] = store[y]
  BY <1>2, <1>3, StorageOperations
<1>5. call[p] \in AtPath BY <1>1, CallShape DEF TypeInv
<1>6. [call[p] EXCEPT !.pc = "deleteRow"].pc = "deleteRow"
      /\ [call[p] EXCEPT !.pc = "deleteRow"].id = {r}
  BY <1>2, <1>5 DEF AtPath
<1>7. /\ call'[p].pc = "deleteRow" /\ call'[p].id = {r}
      /\ \A q \in Caller \ {p} : call'[q] = call[q]
  BY <1>1, <1>6 DEF Goto, TypeInv
<1>8. \A i \in Repo \ {r} : Same(i) BY <1>1, <1>2, <1>4, <1>7, OthersSame
<1>9. Life(r) = "live" BY <1>1, InUse DEF Moved
<1>10. Removed(r)' BY <1>7 DEF Removed
<1>11. Life(r)' = "deleted" /\ Work(r)' = {} BY <1>10 DEF Life, Work
<1>12. r \in Repo BY <1>2 DEF Live
<1> QED BY <1>8, <1>9, <1>11, <1>12, OneGoes


LEMMA SameRows ==
  ASSUME UNCHANGED <<row, call>>, NEW i \in Repo,
         i \in Live => store'[Location(i)].branches = store[Location(i)].branches
  PROVE  Same(i)
<1>1. (i \in Live' <=> i \in Live) /\ Location(i)' = Location(i)
  BY DEF Live, Location, Home
<1>2. Removed(i)' <=> Removed(i) BY DEF Removed
<1> QED BY <1>1, <1>2 DEF Same, Life, Work

LEMMA PatchStep ==
  ASSUME TypeInv, NEW r \in Repo, NEW place \in Patched, PatchPlace(r, place)
  PROVE  Step
<1>1. /\ UNCHANGED <<store, call>> /\ Live' = Live
      /\ \A i \in Repo : row'[i] = row[i] \/ i \in Live
      /\ \A i \in Repo : Location(i)' = Location(i)
  BY PatchMoves
<1>2. ASSUME NEW i \in Repo PROVE Same(i)
  <2>1. Removed(i)' <=> Removed(i)
    <3>1. \A j \in Live : row[j] # Deleted BY RepositoryAssumption DEF Live, Deleted
    <3>2. \A j \in Live' : row'[j] # Deleted BY RepositoryAssumption DEF Live, Deleted
    <3>3. row'[i] = Deleted <=> row[i] = Deleted BY <1>1, <3>1, <3>2
    <3> QED BY <1>1, <3>3 DEF Removed
  <2> QED BY <1>1, <2>1 DEF Same, Life, Work
<1> QED BY <1>2, AllSame

LEMMA PushStep ==
  ASSUME TypeInv, NamesInv, NEW r \in Repo, NEW b \in Pushed, Push(r, b)
  PROVE  Step
<1>1. r \in Live /\ store[Home(r)].on /\ UNCHANGED <<row, call>> BY DEF Push
<1>2. store \in [Path -> Bare] /\ Home(r) \in Path BY <1>1, LiveRows DEF TypeInv
<1>3. [store[Home(r)] EXCEPT !.branches = @ \cup {b}].branches = store[Home(r)].branches \cup {b}
  BY <1>2 DEF Bare
<1>4. store' = [store EXCEPT ![Home(r)] = [store[Home(r)] EXCEPT !.branches = @ \cup {b}]]
  BY DEF Push
<1>5. /\ store'[Home(r)].branches = store[Home(r)].branches \cup {b}
      /\ \A y \in Path : y # Home(r) => store'[y] = store[y]
  BY <1>2, <1>3, <1>4
<1>6. Location(r) = Home(r)
  <2> SUFFICES ASSUME NEW p \in Caller, r \in call[p].id, call[p].pc \in Moved PROVE FALSE
    BY WhereHome
  <2>1. PICK i \in Live : Location(i) = Home(r) BY <1>1, <1>2 DEF NamesInv, NoOrphans
  <2>2. i = r BY <1>1, <2>1, NotTheHome
  <2>3. Location(r) = <<"user", call[p].old>> BY WhereMoved DEF NamesInv
  <2>4. Holds(p, r) BY DEF NamesInv
  <2>5. row[r].slug # call[p].old BY <2>4 DEF Holds, Moved
  <2> QED BY <2>1, <2>2, <2>3, <2>5 DEF Home
<1>7. ~Removed(r)
  <2>1. \A p \in Caller : r \in call[p].id => call[p].pc # "deleteRow"
    BY <1>1 DEF NamesInv, Holds
  <2> QED BY <1>1, <2>1, RepositoryAssumption DEF Removed, Live, Deleted
<1>8. ~Removed(r)' /\ r \in Live' /\ Location(r)' = Home(r)
  BY <1>1, <1>6, <1>7 DEF Removed, Live, Location, Home
<1>9. Life(r) = "live" /\ Life(r)' = Life(r) BY <1>1, <1>7, <1>8 DEF Life
<1>10. Work(r) = store[Home(r)].branches BY <1>1, <1>6, <1>7 DEF Work
<1>11. Work(r)' = store'[Home(r)].branches BY <1>8 DEF Work
<1>12. \A i \in Repo \ {r} : Same(i)
  <2> SUFFICES ASSUME NEW i \in Repo \ {r} PROVE Same(i)
    OBVIOUS
  <2>1. i \in Live => store'[Location(i)] = store[Location(i)]
    BY <1>1, <1>5, NotTheHome, InPlace
  <2> QED BY <1>1, <2>1, SameRows
<1>13. b \in Branch BY RepositoryAssumption
<1> QED BY <1>5, <1>9, <1>10, <1>11, <1>12, <1>13, OneGains

LEMMA ContractStep ==
  ASSUME TypeInv, TypeInv', NamesInv, NamesInv', KeptApart, [Next]_vars
  PROVE  Step
<1>1. ASSUME NEW p \in Caller,
             \/ \E s \in Slug, place \in Created : StartCreate(p, s, place)
             \/ \E r \in Repo : \/ StartInitialize(p, r)
                                \/ \E s \in Slug : StartRename(p, r, s)
                                \/ StartDelete(p, r)
                                \/ \E b \in Branch : UpdateDefaultBranch(p, r, b)
      PROVE  Step
  BY <1>1, StartStep
<1>2. ASSUME NEW p \in Caller, CallStep(p) PROVE Step
  BY <1>2, InsertRowStep, InitStorageStep, InitializeStep, RenameRowStep, MoveStorageStep,
     RemoveStep, UnlinkStep, ReadRowStep DEF CallStep
<1>3. ASSUME NEW p \in Caller, Crash(p) PROVE Step
  <2>1. call[p].pc \notin Moved \cup {"deleteRow"} /\ Answer(p) /\ UNCHANGED <<row, store>>
    BY <1>3 DEF Crash, KeptApart, Moved
  <2> QED BY <2>1, AnswerStep
<1>4. ASSUME NEW r \in Repo, NEW b \in Pushed, Push(r, b) PROVE Step
  BY <1>4, PushStep
<1>5. CASE UNCHANGED vars
  <2>1. UNCHANGED <<row, store, call>> BY <1>5 DEF vars
  <2>2. \A i \in Repo : Same(i) BY <2>1, SameRows
  <2> QED BY <2>2, AllSame
<1>6. ASSUME NEW r \in Repo, NEW place \in Patched, PatchPlace(r, place) PROVE Step
  BY <1>6, PatchStep
<1> QED BY <1>1, <1>2, <1>3, <1>4, <1>5, <1>6 DEF Next

\* The detailed operations implement RepositoryContract
\* (Repository!ImplementsContract): no branch pushed is lost by renaming, failing to
\* rename, re-initializing or changing the default branch, and no repository shows
\* another's, a deleted one's included, however the operations KeptApart leaves to
\* overlap, fail or die do so.
THEOREM RepositoriesImplementContract ==
  ASSUME KeptApart
  PROVE  Spec => ImplementsContract
<1>1. Init => Contract!ContractInit
  <2> SUFFICES ASSUME Init PROVE Contract!ContractInit
    OBVIOUS
  <2>1. Live = {} /\ \A r \in Repo : row[r] # Deleted
    BY RepositoryAssumption DEF Init, Live, NoRepo, Deleted
  <2>2. \A p \in Caller : call[p].id = {} BY DEF Init, Idle
  <2>3. \A r \in Repo : ~Removed(r) BY <2>1, <2>2 DEF Removed
  <2> QED BY <2>1, <2>3 DEF Contract!ContractInit
<1>2. TypeInv /\ TypeInv' /\ NamesInv /\ NamesInv' /\ [Next]_vars
        => [Contract!ContractNext]_<<Lives, Works>>
  BY ContractStep DEF Step
<1> QED BY <1>1, <1>2, TypeInvariant, NamesInvariant, PTL
        DEF Spec, ImplementsContract, Contract!ContractSpec, Lives, Works

=============================================================================
