--------------------------- MODULE LibraryProofs ---------------------------
(* Theorems about Library, for every set of matches, demos and threads.    *)
EXTENDS Library, FiniteSetTheorems, TLAPS

\* A thread that is about to store has read a demo.
StoreHasDemo == \A t \in Threads : proc[t].pc = "store" => proc[t].demo \in Demos

-----------------------------------------------------------------------------
(* Types.                                                                  *)

\* A thread's record stays a record, wherever it is in its work.
LEMMA IdleTyped == Idle \in Procs
BY DEF Idle, Procs, Contents, IngestActions

LEMMA IngestTyped ==
    ASSUME NEW ids \in SUBSET Ids, NEW restore \in BOOLEAN
    PROVE  Ingest(ids, restore) \in Procs
BY IdleTyped DEF Ingest, Idle, Procs, Contents, IngestActions

\* The three changes of table matches yield a table again.
LEMMA PutRowTyped ==
    ASSUME TypeOK, NEW i \in Ids, NEW r \in Rows
    PROVE  /\ DOMAIN PutRow(i, r) = DOMAIN rows \union {i}
           /\ PutRow(i, r) \in [DOMAIN rows \union {i} -> Rows]
BY DEF TypeOK, PutRow

LEMMA DropRowTyped ==
    ASSUME TypeOK, NEW i \in Ids
    PROVE  /\ DOMAIN DropRow(i) = DOMAIN rows \ {i}
           /\ DropRow(i) \in [DOMAIN rows \ {i} -> Rows]
BY DEF TypeOK, DropRow

LEMMA MovedRowTyped ==
    ASSUME TypeOK, NEW old \in Ids, NEW new \in Ids, CanRename(old, new)
    PROVE  /\ DOMAIN MovedRow(old, new) = (DOMAIN rows \ {old}) \union {new}
           /\ MovedRow(old, new) \in [(DOMAIN rows \ {old}) \union {new} -> Rows]
BY DEF TypeOK, MovedRow, CanRename

LEMMA NewRowsTyped ==
    /\ DeletedRow \in Rows
    /\ \A demo \in Demos : ParsedRow(demo) \in Rows
BY VersionAssumption DEF DeletedRow, ParsedRow, Rows, Contents

\* What the tables and the threads may become in one step.
LEMMA DoneTyped ==
    ASSUME TypeOK, NEW t \in Threads, NEW i \in Ids, Done(t, i)
    PROVE  proc' \in [Threads -> Procs]
<1>1. /\ proc[t].todo \ {i} \in SUBSET Ids
      /\ proc[t].restore \in BOOLEAN
  BY DEF TypeOK, Procs
<1>2. Ingest(proc[t].todo \ {i}, proc[t].restore) \in Procs
  BY <1>1, IngestTyped
<1> QED
  BY <1>2 DEF Done, TypeOK

LEMMA FailTyped ==
    ASSUME TypeOK, NEW t \in Threads, Fail(t)
    PROVE  proc' \in [Threads -> Procs]
BY IdleTyped DEF Fail, TypeOK

LEMMA LogTyped ==
    ASSUME TypeOK, NEW action, NEW ids, <<action, ids>> \in AuditEntries, Log(action, ids)
    PROVE  audit' \in AuditEntries
BY DEF Log, AuditEntries

LEMMA LogNothingTyped == LogNothing => audit' \in AuditEntries
BY DEF LogNothing, AuditEntries

LEMMA IngestActionTyped == \A i \in Ids : IngestAction(i) \in IngestActions
BY DEF IngestAction, IngestActions

THEOREM TypeInit == Init => TypeOK
<1> SUFFICES ASSUME Init PROVE TypeOK
  OBVIOUS
<1>1. DOMAIN rows \subseteq Ids /\ rows \in [DOMAIN rows -> Rows]
  BY MigratedAssumption DEF Init
<1>2. proc \in [Threads -> Procs]
  BY IdleTyped DEF Init
<1>3. audit \in AuditEntries
  BY DEF Init, AuditEntries
<1> QED
  BY <1>1, <1>2, <1>3, FaultsAssumption DEF Init, TypeOK

\* Each step of a thread on its demo keeps the types.
LEMMA WorkTyped ==
    ASSUME TypeOK, StoreHasDemo, NEW t \in Threads, Work(t)
    PROVE  TypeOK'
<1>1. CASE CheckMatch(t)
  <2>1. PICK i \in Ids : CheckMatch(t)!(i)
    BY <1>1 DEF CheckMatch
  <2>2. proc' \in [Threads -> Procs]
    <3>1. CASE Skips(i, proc[t].restore)
      BY <2>1, <3>1, DoneTyped
    <3>2. CASE ~Skips(i, proc[t].restore)
      BY <2>1, <3>2, IngestActionTyped DEF TypeOK, Procs
    <3> QED
      BY <3>1, <3>2
  <2> QED
    BY <2>1, <2>2, LogNothingTyped DEF TypeOK
<1>2. CASE ParseDemo(t)
  <2>1. PICK i \in Ids : ParseDemo(t)!(i)
    BY <1>2 DEF ParseDemo
  <2>2. proc' \in [Threads -> Procs]
    BY <2>1 DEF TypeOK, Procs, Contents
  <2> QED
    BY <2>1, <2>2, LogNothingTyped DEF TypeOK
<1>3. CASE ParseFails(t)
  <2>1. PICK i \in Ids : ParseFails(t)!(i)
    BY <1>3 DEF ParseFails
  <2> QED
    BY <2>1, FailTyped, LogNothingTyped DEF TypeOK
<1>4. CASE ParsePanics(t)
  <2>1. PICK i \in Ids : ParsePanics(t)!(i)
    BY <1>4 DEF ParsePanics
  <2>2. proc' \in [Threads -> Procs]
    BY <2>1, FailTyped, IdleTyped
  <2> QED
    BY <2>1, <2>2, LogNothingTyped DEF TypeOK
<1>5. CASE UpsertMatch(t)
  <2>1. PICK i \in Ids : UpsertMatch(t)!(i)
    BY <1>5 DEF UpsertMatch
  <2>2. ParsedRow(proc[t].demo) \in Rows
    BY <2>1, NewRowsTyped DEF At, StoreHasDemo
  <2>3. DOMAIN rows' \subseteq Ids /\ rows' \in [DOMAIN rows' -> Rows]
    <3>1. /\ rows' \in [DOMAIN rows \union {i} -> Rows]
          /\ DOMAIN rows' = DOMAIN rows \union {i}
      BY <2>1, <2>2, PutRowTyped
    <3> QED
      BY <3>1 DEF TypeOK
  <2>4. <<proc[t].action, {i}>> \in AuditEntries
    BY DEF TypeOK, Procs, AuditEntries
  <2>5. audit' \in AuditEntries
    BY <2>1, <2>4, LogTyped
  <2>6. proc' \in [Threads -> Procs]
    BY <2>1, DoneTyped
  <2> QED
    BY <2>1, <2>3, <2>5, <2>6 DEF TypeOK
<1>6. CASE UpsertFails(t)
  BY <1>6, FailTyped, LogNothingTyped DEF UpsertFails, TypeOK
<1>7. CASE RemoveFile(t)
  <2>1. PICK i \in Ids : RemoveFile(t)!(i)
    BY <1>7 DEF RemoveFile
  <2>2. disk' \in [Ids -> Contents]
    BY <2>1 DEF TypeOK, Contents
  <2>3. audit' \in AuditEntries
    BY <2>1, LogTyped DEF AuditEntries
  <2> QED
    BY <2>1, <2>2, <2>3, FailTyped DEF TypeOK
<1>8. CASE RemoveFileFails(t)
  BY <1>8, FailTyped, LogNothingTyped DEF RemoveFileFails, TypeOK
<1> QED
  BY <1>1, <1>2, <1>3, <1>4, <1>5, <1>6, <1>7, <1>8 DEF Work

\* Starting work keeps the types.
LEMMA StartTyped ==
    ASSUME TypeOK, NEW t \in Threads, NEW ids \in SUBSET Ids, NEW restore \in BOOLEAN,
           proc' = [proc EXCEPT ![t] = Ingest(ids, restore)]
    PROVE  proc' \in [Threads -> Procs]
BY IngestTyped DEF TypeOK

\* A new rescan, a message, a request or a storage fault keeps the types.
LEMMA ThreadTyped ==
    ASSUME TypeOK, NEW t \in Threads,
           StartRescan(t) \/ StorageFails(t) \/ Notice(t) \/ Serve(t)
    PROVE  TypeOK'
<1>1. CASE StartRescan(t)
  <2>1. {k \in Ids : disk[k] # NoDemo} \in SUBSET Ids
    OBVIOUS
  <2>2. proc' \in [Threads -> Procs]
    BY <1>1, <2>1, StartTyped DEF StartRescan
  <2> QED
    BY <1>1, <2>2, LogTyped DEF StartRescan, TypeOK, AuditEntries
<1>2. CASE StorageFails(t)
  <2>1. proc' \in [Threads -> Procs]
    BY <1>2, FailTyped DEF StorageFails
  <2>2. faults' \in 0..MaxFaults
    BY <1>2, FaultsAssumption DEF StorageFails, TypeOK
  <2> QED
    BY <1>2, <2>1, <2>2, LogNothingTyped DEF StorageFails, TypeOK
<1>3. ASSUME NEW i \in Ids, FileCreated(t, i) PROVE TypeOK'
  BY <1>3, StartTyped, LogNothingTyped DEF FileCreated, TypeOK
<1>4. ASSUME NEW i \in Ids, NEW j \in Ids, FileRenamed(t, i, j) PROVE TypeOK'
  <2>1. DOMAIN rows' \subseteq Ids /\ rows' \in [DOMAIN rows' -> Rows]
    <3>1. CASE CanRename(i, j)
      <4>1. /\ rows' \in [(DOMAIN rows \ {i}) \union {j} -> Rows]
            /\ DOMAIN rows' = (DOMAIN rows \ {i}) \union {j}
        BY <1>4, <3>1, MovedRowTyped DEF FileRenamed
      <4> QED
        BY <4>1 DEF TypeOK
    <3>2. CASE ~CanRename(i, j)
      BY <1>4, <3>2 DEF FileRenamed, TypeOK
    <3> QED
      BY <3>1, <3>2
  <2>2. audit' \in AuditEntries
    BY <1>4, LogTyped DEF FileRenamed, AuditEntries
  <2> QED
    BY <1>4, <2>1, <2>2 DEF FileRenamed, TypeOK
<1>5. ASSUME NEW i \in Ids, Restore(t, i) PROVE TypeOK'
  BY <1>5, StartTyped, LogNothingTyped DEF Restore, TypeOK
<1>6. ASSUME NEW i \in Ids, DeleteMatch(t, i) PROVE TypeOK'
  <2>1. DOMAIN rows' \subseteq Ids /\ rows' \in [DOMAIN rows' -> Rows]
    <3>1. CASE i \in DOMAIN rows
      <4>1. /\ rows' \in [DOMAIN rows \union {i} -> Rows]
            /\ DOMAIN rows' = DOMAIN rows \union {i}
        BY <1>6, <3>1, PutRowTyped, NewRowsTyped DEF DeleteMatch
      <4> QED
        BY <4>1 DEF TypeOK
    <3>2. CASE i \notin DOMAIN rows
      BY <1>6, <3>2 DEF DeleteMatch, TypeOK
    <3> QED
      BY <3>1, <3>2
  <2>2. audit' \in AuditEntries
    BY <1>6, LogTyped DEF DeleteMatch, AuditEntries
  <2> QED
    BY <1>6, <2>1, <2>2 DEF DeleteMatch, TypeOK
<1>7. ASSUME NEW i \in Ids, FullDeleteMatch(t, i) PROVE TypeOK'
  <2>1. DOMAIN rows' \subseteq Ids /\ rows' \in [DOMAIN rows' -> Rows]
    <3>1. /\ rows' \in [DOMAIN rows \ {i} -> Rows]
          /\ DOMAIN rows' = DOMAIN rows \ {i}
      BY <1>7, DropRowTyped DEF FullDeleteMatch
    <3> QED
      BY <3>1 DEF TypeOK
  <2>2. proc' \in [Threads -> Procs]
    BY <1>7 DEF FullDeleteMatch, TypeOK, Idle, Procs, Contents, IngestActions
  <2> QED
    BY <1>7, <2>1, <2>2, LogNothingTyped DEF FullDeleteMatch, TypeOK
<1>8. ASSUME NEW i \in Ids, EditUserMeta(t, i) PROVE TypeOK'
  <2>1. audit' \in AuditEntries
    BY <1>8, LogTyped DEF EditUserMeta, AuditEntries
  <2> QED
    BY <1>8, <2>1 DEF EditUserMeta, TypeOK
<1> QED
  BY <1>1, <1>2, <1>3, <1>4, <1>5, <1>6, <1>7, <1>8 DEF Notice, Serve

\* The owner of the folder and a crash keep the types.
LEMMA OutsideTyped ==
    ASSUME TypeOK, ChangeFolder \/ Crash
    PROVE  TypeOK'
<1>1. ASSUME NEW i \in Ids, NEW d \in Contents, PutDemo(i, d) PROVE TypeOK'
  BY <1>1, LogNothingTyped DEF PutDemo, TypeOK
<1>2. ASSUME NEW i \in Ids, NEW j \in Ids, MoveDemo(i, j) PROVE TypeOK'
  <2>1. disk[i] \in Contents /\ NoDemo \in Contents
    BY DEF TypeOK, Contents
  <2>2. disk' \in [Ids -> Contents]
    BY <1>2, <2>1 DEF MoveDemo, TypeOK
  <2>3. UNCHANGED <<rows, meta, proc, faults>> /\ LogNothing
    BY <1>2 DEF MoveDemo
  <2> QED
    BY <2>2, <2>3, LogNothingTyped DEF TypeOK
<1>3. CASE Crash
  <2>1. proc' \in [Threads -> Procs]
    BY <1>3, IdleTyped DEF Crash
  <2>2. faults' \in 0..MaxFaults
    BY <1>3, FaultsAssumption DEF Crash, TypeOK
  <2>3. UNCHANGED <<disk, rows, meta>> /\ LogNothing
    BY <1>3 DEF Crash
  <2> QED
    BY <2>1, <2>2, <2>3, LogNothingTyped DEF TypeOK
<1> QED
  BY <1>1, <1>2, <1>3 DEF ChangeFolder

-----------------------------------------------------------------------------
(* The inductive invariant.                                                *)

IInv == TypeOK /\ StoreHasDemo /\ RowsCoherent /\ MetaHasRow /\ OnlyRestoresRestore

\* Work starts with the check, if there is any.
LEMMA IngestPc == \A ids, restore : Ingest(ids, restore).pc \in {"idle", "check"}
BY DEF Ingest, Idle

\* The pc of every thread after a step that moves one of them or resets them all.
LEMMA PcAfter ==
    ASSUME TypeOK, NEW t \in Threads
    PROVE  /\ Fail(t) => proc'[t].pc = "idle"
           /\ \A i : Done(t, i) => proc'[t].pc \in {"idle", "check"}
           /\ (Fail(t) \/ \E i : Done(t, i))
                => \A u \in Threads \ {t} : proc'[u] = proc[u]
<1>1. Fail(t) => proc'[t].pc = "idle" /\ \A u \in Threads \ {t} : proc'[u] = proc[u]
  BY DEF TypeOK, Fail, Idle
<1>2. ASSUME NEW i, Done(t, i)
      PROVE  /\ proc'[t].pc \in {"idle", "check"}
             /\ \A u \in Threads \ {t} : proc'[u] = proc[u]
  BY <1>2, IngestPc DEF TypeOK, Done
<1> QED
  BY <1>1, <1>2

\* The thread passes the check of match i, or reads its demo.
BeginsParse(t, i) ==
    /\ At(t, "check", i)
    /\ ~Skips(i, proc[t].restore)
    /\ proc'[t] = [proc[t] EXCEPT !.pc = "parse", !.action = IngestAction(i)]

BeginsStore(t, i) ==
    /\ At(t, "parse", i)
    /\ disk[i] \in Demos
    /\ proc'[t] = [proc[t] EXCEPT !.pc = "store", !.demo = disk[i]]

\* The step leaves the thread where it was or nowhere near a write.
Harmless(u) ==
    proc'[u] = proc[u] \/ proc'[u].pc \in {"idle", "check", "remove"}

\* No other thread is moved towards a write, and its own only one step at a time.
LEMMA WorkProc ==
    ASSUME TypeOK, NEW t \in Threads, Work(t), NEW u \in Threads
    PROVE  \/ Harmless(u)
           \/ u = t /\ \E i \in Ids : BeginsParse(t, i) \/ BeginsStore(t, i)
<1>1. CASE CheckMatch(t)
  <2>1. PICK i \in Ids : CheckMatch(t)!(i)
    BY <1>1 DEF CheckMatch
  <2>2. CASE Skips(i, proc[t].restore)
    BY <2>1, <2>2, PcAfter DEF Harmless
  <2>3. CASE ~Skips(i, proc[t].restore)
    <3>1. /\ proc'[t] = [proc[t] EXCEPT !.pc = "parse", !.action = IngestAction(i)]
          /\ u # t => proc'[u] = proc[u]
      BY <2>1, <2>3 DEF TypeOK
    <3> QED
      BY <2>1, <2>3, <3>1 DEF BeginsParse, Harmless
  <2> QED
    BY <2>2, <2>3
<1>2. CASE ParseDemo(t)
  <2>1. PICK i \in Ids : ParseDemo(t)!(i)
    BY <1>2 DEF ParseDemo
  <2>2. /\ proc'[t] = [proc[t] EXCEPT !.pc = "store", !.demo = disk[i]]
        /\ u # t => proc'[u] = proc[u]
    BY <2>1 DEF TypeOK
  <2> QED
    BY <2>1, <2>2 DEF BeginsStore, Harmless
<1>3. CASE ParsePanics(t)
  BY <1>3, PcAfter DEF ParsePanics, Harmless, Idle
<1>4. CASE UpsertMatch(t)
  BY <1>4, PcAfter DEF UpsertMatch, Harmless
<1>5. CASE ParseFails(t) \/ UpsertFails(t) \/ RemoveFile(t) \/ RemoveFileFails(t)
  <2>1. Fail(t)
    BY <1>5 DEF ParseFails, UpsertFails, RemoveFile, RemoveFileFails
  <2> QED
    BY <2>1, PcAfter DEF Harmless
<1> QED
  BY <1>1, <1>2, <1>3, <1>4, <1>5 DEF Work

\* Nothing but Work moves a thread towards a write.
LEMMA OthersProc ==
    ASSUME TypeOK, [Next]_vars, \A t \in Threads : ~Work(t), NEW u \in Threads
    PROVE  Harmless(u)
<1>1. ASSUME NEW t \in Threads, StartRescan(t) \/ StorageFails(t) \/ Notice(t) \/ Serve(t)
      PROVE  Harmless(u)
  <2>1. CASE StorageFails(t)
    BY <2>1, PcAfter DEF StorageFails, Harmless
  <2>2. CASE \E ids, restore : proc' = [proc EXCEPT ![t] = Ingest(ids, restore)]
    BY <2>2, IngestPc DEF TypeOK, Harmless
  <2>3. CASE UNCHANGED proc
    BY <2>3 DEF Harmless
  <2>4. CASE \E i \in Ids : FullDeleteMatch(t, i)
    BY <2>4 DEF FullDeleteMatch, TypeOK, Idle, Harmless
  <2>5. StartRescan(t) => \E ids, restore : proc' = [proc EXCEPT ![t] = Ingest(ids, restore)]
    BY Zenon DEF StartRescan
  <2>6. Notice(t) => UNCHANGED proc
                     \/ \E ids, restore : proc' = [proc EXCEPT ![t] = Ingest(ids, restore)]
    BY Zenon DEF Notice, FileCreated, FileRenamed
  <2>7. Serve(t) => \/ UNCHANGED proc
                    \/ \E ids, restore : proc' = [proc EXCEPT ![t] = Ingest(ids, restore)]
                    \/ \E i \in Ids : FullDeleteMatch(t, i)
    BY Zenon DEF Serve, Restore, DeleteMatch, EditUserMeta
  <2> QED
    BY <1>1, <2>1, <2>2, <2>3, <2>4, <2>5, <2>6, <2>7
<1>2. CASE Crash
  BY <1>2 DEF Crash, Idle, Harmless
<1>3. CASE ChangeFolder
  BY <1>3 DEF ChangeFolder, PutDemo, MoveDemo, Harmless
<1>4. CASE UNCHANGED vars
  BY <1>4 DEF vars, Harmless
<1> QED
  BY <1>1, <1>2, <1>3, <1>4 DEF Next

\* Storing needs a demo, and only a restore announces one.
LEMMA ThreadsStep ==
    ASSUME TypeOK, StoreHasDemo, OnlyRestoresRestore, [Next]_vars
    PROVE  StoreHasDemo' /\ OnlyRestoresRestore'
<1> DEFINE Fine(u) == /\ proc'[u].pc = "store" => proc'[u].demo \in Demos
                      /\ proc'[u].pc \in {"parse", "store"}
                            /\ proc'[u].action = "MATCH_RESTORED" => proc'[u].restore
<1>1. ASSUME NEW u \in Threads, Harmless(u) PROVE Fine(u)
  BY <1>1 DEF Harmless, StoreHasDemo, OnlyRestoresRestore
<1>2. ASSUME NEW u \in Threads, NEW i \in Ids, BeginsParse(u, i) PROVE Fine(u)
  <2>1. /\ proc'[u].pc = "parse"
        /\ proc'[u].action = IngestAction(i)
        /\ proc'[u].restore = proc[u].restore
    BY <1>2 DEF BeginsParse, TypeOK, Procs
  <2>2. IngestAction(i) = "MATCH_RESTORED" => Deleted(i)
    BY DEF IngestAction
  <2> QED
    BY <1>2, <2>1, <2>2 DEF BeginsParse, Skips
<1>3. ASSUME NEW u \in Threads, NEW i \in Ids, BeginsStore(u, i) PROVE Fine(u)
  <2>1. /\ proc'[u].demo = disk[i]
        /\ proc'[u].action = proc[u].action
        /\ proc'[u].restore = proc[u].restore
    BY <1>3 DEF BeginsStore, TypeOK, Procs
  <2> QED
    BY <1>3, <2>1 DEF BeginsStore, At, OnlyRestoresRestore
<1>4. ASSUME NEW u \in Threads PROVE Fine(u)
  <2>1. CASE \E t \in Threads : Work(t)
    BY <2>1, <1>1, <1>2, <1>3, WorkProc
  <2>2. CASE \A t \in Threads : ~Work(t)
    BY <2>2, <1>1, OthersProc
  <2> QED
    BY <2>1, <2>2
<1> QED
  BY <1>4 DEF StoreHasDemo, OnlyRestoresRestore

\* The ways a step changes the tables.
Publishes(t, i) ==
    /\ At(t, "store", i)
    /\ Kind[proc[t].demo] = "good"
    /\ rows' = PutRow(i, ParsedRow(proc[t].demo))
    /\ meta' = meta

Marks(i) == i \in DOMAIN rows /\ rows' = PutRow(i, DeletedRow) /\ meta' = meta

Drops(t, i) ==
    /\ t \in Handlers
    /\ proc' = [proc EXCEPT ![t] = [Idle EXCEPT !.pc = "remove", !.todo = {i}]]
    /\ rows' = DropRow(i)
    /\ meta' = meta \ {i}

Moves(old, new) == CanRename(old, new) /\ rows' = MovedRow(old, new) /\ meta' = meta

KeepsRows == rows' = rows /\ meta' \subseteq meta \union DOMAIN rows

LEMMA RowsStep ==
    ASSUME [Next]_vars
    PROVE  \/ KeepsRows
           \/ \E t \in Threads, i \in Ids : Publishes(t, i) \/ Drops(t, i)
           \/ \E i \in Ids : Marks(i)
           \/ \E old, new \in Ids : Moves(old, new)
<1>1. ASSUME NEW t \in Threads, Work(t)
      PROVE  KeepsRows \/ \E i \in Ids : Publishes(t, i)
  <2>1. CASE UpsertMatch(t)
    BY <2>1 DEF UpsertMatch, Publishes
  <2>2. CASE ~UpsertMatch(t)
    <3>1. UNCHANGED <<rows, meta>>
      BY <1>1, <2>2 DEF Work, CheckMatch, ParseDemo, ParseFails, ParsePanics, UpsertFails,
                        RemoveFile, RemoveFileFails
    <3> QED
      BY <3>1 DEF KeepsRows
  <2> QED
    BY <2>1, <2>2
<1>2. ASSUME NEW t \in Threads, StartRescan(t) \/ StorageFails(t) PROVE KeepsRows
  BY <1>2 DEF StartRescan, StorageFails, KeepsRows
<1>3. ASSUME NEW t \in Threads, Notice(t)
      PROVE  KeepsRows \/ \E old, new \in Ids : Moves(old, new)
  BY <1>3 DEF Notice, FileCreated, FileRenamed, KeepsRows, Moves
<1>4. ASSUME NEW t \in Threads, NEW i \in Ids,
             Restore(t, i) \/ DeleteMatch(t, i) \/ FullDeleteMatch(t, i) \/ EditUserMeta(t, i)
      PROVE  KeepsRows \/ Marks(i) \/ Drops(t, i)
  <2>1. CASE Restore(t, i)
    BY <2>1 DEF Restore, KeepsRows
  <2>2. CASE DeleteMatch(t, i)
    BY <2>2 DEF DeleteMatch, KeepsRows, Marks
  <2>3. CASE FullDeleteMatch(t, i)
    BY <2>3 DEF FullDeleteMatch, Drops
  <2>4. CASE EditUserMeta(t, i)
    BY <2>4 DEF EditUserMeta, KeepsRows
  <2> QED
    BY <1>4, <2>1, <2>2, <2>3, <2>4
<1>5. ChangeFolder \/ Crash \/ UNCHANGED vars => KeepsRows
  BY DEF ChangeFolder, PutDemo, MoveDemo, Crash, vars, KeepsRows
<1> QED
  BY <1>1, <1>2, <1>3, <1>4, <1>5 DEF Next, Serve

\* Tables stay coherent and metadata keeps its match, whichever way they change.
LEMMA TablesStep ==
    ASSUME TypeOK, StoreHasDemo, RowsCoherent, MetaHasRow, [Next]_vars
    PROVE  RowsCoherent' /\ MetaHasRow'
<1>1. Coherent(DeletedRow)
  BY DEF Coherent, DeletedRow
<1>2. \A d \in Demos : Kind[d] = "good" => Coherent(ParsedRow(d))
  BY DemosAssumption, VersionAssumption DEF Coherent, ParsedRow
<1>3. CASE KeepsRows
  BY <1>3 DEF KeepsRows, RowsCoherent, MetaHasRow
<1>4. ASSUME NEW t \in Threads, NEW i \in Ids, Publishes(t, i)
      PROVE  RowsCoherent' /\ MetaHasRow'
  <2>1. Coherent(ParsedRow(proc[t].demo))
    BY <1>2, <1>4 DEF Publishes, At, StoreHasDemo
  <2> QED
    BY <1>4, <2>1 DEF Publishes, PutRow, RowsCoherent, MetaHasRow
<1>5. ASSUME NEW i \in Ids, Marks(i) PROVE RowsCoherent' /\ MetaHasRow'
  BY <1>1, <1>5 DEF Marks, PutRow, RowsCoherent, MetaHasRow
<1>6. ASSUME NEW t \in Threads, NEW i \in Ids, Drops(t, i) PROVE RowsCoherent' /\ MetaHasRow'
  BY <1>6 DEF Drops, DropRow, RowsCoherent, MetaHasRow
<1>7. ASSUME NEW old \in Ids, NEW new \in Ids, Moves(old, new)
      PROVE  RowsCoherent' /\ MetaHasRow'
  BY <1>7 DEF Moves, CanRename, MovedRow, RowsCoherent, MetaHasRow
<1> QED
  BY <1>3, <1>4, <1>5, <1>6, <1>7, RowsStep

LEMMA IInvInit == Init => IInv
<1> SUFFICES ASSUME Init PROVE IInv
  OBVIOUS
<1>1. StoreHasDemo /\ OnlyRestoresRestore
  BY DEF Init, StoreHasDemo, OnlyRestoresRestore, Idle
<1>2. RowsCoherent
  BY MigratedAssumption DEF Init, RowsCoherent
<1>3. MetaHasRow
  BY DEF Init, MetaHasRow
<1> QED
  BY <1>1, <1>2, <1>3, TypeInit DEF IInv

LEMMA IInvStep == IInv /\ [Next]_vars => IInv'
<1> SUFFICES ASSUME IInv, [Next]_vars PROVE IInv'
  OBVIOUS
<1>1. TypeOK'
  <2>1. CASE UNCHANGED vars
    BY <2>1 DEF vars, IInv, TypeOK
  <2> QED
    BY <2>1, WorkTyped, ThreadTyped, OutsideTyped DEF IInv, Next
<1> QED
  BY <1>1, ThreadsStep, TablesStep DEF IInv

LEMMA Invariance == Spec => []IInv
BY IInvInit, IInvStep, PTL DEF Spec

-----------------------------------------------------------------------------
(* The theorems.                                                           *)

\* Every variable keeps its type in every behaviour of the server.
THEOREM TypeCorrect == Spec => []TypeOK
<1>1. IInv => TypeOK
  BY DEF IInv
<1> QED
  BY <1>1, Invariance, PTL

\* No race, crash or failing statement leaves a row half deleted: the two marks
\* of a deleted match (SoftDeleteMatch) always agree.
THEOREM RowsStayCoherent == Spec => []RowsCoherent
<1>1. IInv => RowsCoherent
  BY DEF IInv
<1> QED
  BY <1>1, Invariance, PTL

\* Metadata never outlives the row of its match, renames included.
THEOREM MetaKeepsRow == Spec => []MetaHasRow
<1>1. IInv => MetaHasRow
  BY DEF IInv
<1> QED
  BY <1>1, Invariance, PTL

\* An ingest that is to be logged as MATCH_RESTORED was asked for as a restore.
THEOREM RestoresAreAskedFor == Spec => []OnlyRestoresRestore
<1>1. IInv => OnlyRestoresRestore
  BY DEF IInv
<1> QED
  BY <1>1, Invariance, PTL

-----------------------------------------------------------------------------
(* Action properties.                                                      *)

\* A thread works on the smallest id of its list, so on one match at a time.
LEMMA OneAtATime ==
    ASSUME NEW t \in Threads, NEW i \in Ids, NEW k \in Ids,
           i \in First(proc[t].todo), k \in First(proc[t].todo)
    PROVE  i = k
BY IdsAssumption DEF First

\* Where a thread may come from that is at or past the check after a step.
LEMMA AfterStep ==
    ASSUME TypeOK, [Next]_vars, NEW u \in Threads
    PROVE  Harmless(u) \/ \E i \in Ids : BeginsParse(u, i) \/ BeginsStore(u, i)
<1>1. CASE \E t \in Threads : Work(t)
  BY <1>1, WorkProc
<1>2. CASE \A t \in Threads : ~Work(t)
  BY <1>2, OthersProc
<1> QED
  BY <1>1, <1>2

LEMMA BeginsParseMeans ==
    ASSUME TypeOK, NEW u \in Threads, NEW k \in Ids, NEW i \in Ids, BeginsParse(u, k)
    PROVE  /\ ~At(u, "store", i)'
           /\ InFlight(u, i)' => i = k /\ proc'[u].restore = proc[u].restore
<1>1. /\ proc'[u].pc = "parse"
      /\ proc'[u].todo = proc[u].todo
      /\ proc'[u].restore = proc[u].restore
  BY DEF BeginsParse, TypeOK, Procs
<1> QED
  BY <1>1, OneAtATime DEF BeginsParse, At, InFlight

LEMMA BeginsStoreMeans ==
    ASSUME TypeOK, NEW u \in Threads, NEW k \in Ids, NEW i \in Ids, BeginsStore(u, k)
    PROVE  InFlight(u, i)' =>
              i = k /\ proc'[u].restore = proc[u].restore /\ InFlight(u, i)
<1>1. /\ proc'[u].pc = "store"
      /\ proc'[u].todo = proc[u].todo
      /\ proc'[u].restore = proc[u].restore
  BY DEF BeginsStore, TypeOK, Procs
<1> QED
  BY <1>1, OneAtATime DEF BeginsStore, At, InFlight

LEMMA SettledStep ==
    ASSUME IInv, [Next]_vars, NEW i \in Ids, Settled(i), i \in DOMAIN rows'
    PROVE  Settled(i)' \/ \E t \in Threads : Restoring(t, i)
<1> USE DEF IInv
<1>1. rows'[i].deleted \/ \E t \in Threads : Restoring(t, i)
  <2>1. CASE KeepsRows
    BY <2>1 DEF KeepsRows, Settled
  <2>2. ASSUME NEW t \in Threads, NEW k \in Ids, Publishes(t, k)
        PROVE  rows'[i].deleted \/ Restoring(t, i)
    <3>1. CASE k = i
      BY <2>2, <3>1 DEF Publishes, Restoring, Settled, InFlight
    <3>2. CASE k # i
      BY <2>2, <3>2 DEF Publishes, PutRow, Settled
    <3> QED
      BY <3>1, <3>2
  <2>3. ASSUME NEW t \in Threads, NEW k \in Ids, Drops(t, k) PROVE rows'[i].deleted
    BY <2>3 DEF Drops, DropRow, Settled
  <2>4. ASSUME NEW k \in Ids, Marks(k) PROVE rows'[i].deleted
    BY <2>4 DEF Marks, PutRow, DeletedRow, Settled
  <2>5. ASSUME NEW old \in Ids, NEW new \in Ids, Moves(old, new) PROVE rows'[i].deleted
    BY <2>5 DEF Moves, MovedRow, CanRename, Settled
  <2> QED
    BY <2>1, <2>2, <2>3, <2>4, <2>5, RowsStep
<1>2. ASSUME NEW u \in Threads, InFlight(u, i)' PROVE proc'[u].restore
  <2>1. CASE Harmless(u)
    BY <1>2, <2>1 DEF Harmless, InFlight, At, Settled
  <2>2. ASSUME NEW k \in Ids, BeginsParse(u, k) PROVE proc'[u].restore
    <3>1. i = k /\ proc'[u].restore = proc[u].restore
      BY <1>2, <2>2, BeginsParseMeans
    <3>2. Deleted(i)
      BY DEF Settled, RowsCoherent, Coherent, Deleted, AlreadyParsed
    <3> QED
      BY <2>2, <3>1, <3>2 DEF BeginsParse, Skips
  <2>3. ASSUME NEW k \in Ids, BeginsStore(u, k) PROVE proc'[u].restore
    BY <1>2, <2>3, BeginsStoreMeans DEF Settled
  <2> QED
    BY <2>1, <2>2, <2>3, AfterStep
<1> QED
  BY <1>1, <1>2 DEF Settled

\* However rescans, file events, handlers and crashes interleave: once the ingests
\* that were under way are over, a deleted match stays deleted until somebody
\* restores it (parse_all.go:42).
THEOREM DeletionLasts == Spec => DeletedStaysDeleted
<1>1. IInv /\ [Next]_vars =>
        [\A i \in Ids : Settled(i) /\ i \in DOMAIN rows'
             => Settled(i)' \/ \E t \in Threads : Restoring(t, i)]_vars
  BY SettledStep
<1> QED
  BY <1>1, Invariance, PTL DEF Spec, DeletedStaysDeleted

LEMMA GoneStep ==
    ASSUME IInv, [Next]_vars, NEW i \in Ids, Gone(i), disk'[i] = NoDemo
    PROVE  Gone(i)' \/ \E j \in DOMAIN rows \ DOMAIN rows' : rows' = MovedRow(j, i)
<1> USE DEF IInv
<1>1. i \notin DOMAIN rows' \/ \E j \in DOMAIN rows \ DOMAIN rows' : rows' = MovedRow(j, i)
  <2>1. CASE KeepsRows
    BY <2>1 DEF KeepsRows, Gone
  <2>2. ASSUME NEW t \in Threads, NEW k \in Ids, Publishes(t, k) PROVE i \notin DOMAIN rows'
    BY <2>2 DEF Publishes, PutRow, Gone
  <2>3. ASSUME NEW t \in Threads, NEW k \in Ids, Drops(t, k) PROVE i \notin DOMAIN rows'
    BY <2>3 DEF Drops, DropRow, Gone
  <2>4. ASSUME NEW k \in Ids, Marks(k) PROVE i \notin DOMAIN rows'
    BY <2>4 DEF Marks, PutRow, Gone
  <2>5. ASSUME NEW old \in Ids, NEW new \in Ids, Moves(old, new)
        PROVE  \/ i \notin DOMAIN rows'
               \/ \E j \in DOMAIN rows \ DOMAIN rows' : rows' = MovedRow(j, i)
    BY <2>5 DEF Moves, MovedRow, CanRename, Gone
  <2> QED
    BY <2>1, <2>2, <2>3, <2>4, <2>5, RowsStep
<1>2. ASSUME NEW u \in Threads PROVE ~At(u, "store", i)'
  <2>1. CASE Harmless(u)
    BY <2>1 DEF Harmless, At, Gone
  <2>2. ASSUME NEW k \in Ids, BeginsParse(u, k) PROVE ~At(u, "store", i)'
    BY <2>2, BeginsParseMeans
  <2>3. ASSUME NEW k \in Ids, BeginsStore(u, k), At(u, "store", i)' PROVE FALSE
    <3>1. i = k
      BY <2>3, BeginsStoreMeans DEF InFlight
    <3> QED
      BY <2>3, <3>1, DemosAssumption DEF BeginsStore, Gone
  <2> QED
    BY <2>1, <2>2, <2>3, AfterStep
<1> QED
  BY <1>1, <1>2 DEF Gone

\* What a full delete took away comes back only with a new file or by the
\* renaming of another match (route_fullDeleteMatch, parseIdempotent).
THEOREM FullDeletionLasts == Spec => GoneStaysGone
<1>1. IInv /\ [Next]_vars =>
        [\A i \in Ids : Gone(i) =>
             \/ Gone(i)'
             \/ disk'[i] # NoDemo
             \/ \E j \in DOMAIN rows \ DOMAIN rows' : rows' = MovedRow(j, i)]_vars
  BY GoneStep
<1> QED
  BY <1>1, Invariance, PTL DEF Spec, GoneStaysGone

\* No row leaves the table but by its own full delete or whole, to a new id.
THEOREM NoMatchLost == Spec => NothingLost
<1>1. ASSUME IInv, [Next]_vars, NEW i \in DOMAIN rows \ DOMAIN rows'
      PROVE  \/ \E t \in Handlers : proc'[t].pc = "remove" /\ proc'[t].todo = {i}
             \/ i \notin meta /\ \E j \in DOMAIN rows' \ DOMAIN rows : rows'[j] = rows[i]
  <2>1. ASSUME NEW t \in Threads, NEW k \in Ids, Drops(t, k)
        PROVE  \E h \in Handlers : proc'[h].pc = "remove" /\ proc'[h].todo = {i}
    <3>1. i = k
      BY <2>1 DEF Drops, DropRow
    <3>2. t \in Handlers /\ proc'[t] = [Idle EXCEPT !.pc = "remove", !.todo = {i}]
      BY <1>1, <2>1, <3>1 DEF Drops, IInv, TypeOK
    <3> QED
      BY <3>2 DEF Idle
  <2>2. ASSUME NEW old \in Ids, NEW new \in Ids, Moves(old, new)
        PROVE  i \notin meta /\ \E j \in DOMAIN rows' \ DOMAIN rows : rows'[j] = rows[i]
    BY <2>2 DEF Moves, MovedRow, CanRename
  <2>3. ASSUME NEW t \in Threads, NEW k \in Ids, Publishes(t, k) PROVE FALSE
    BY <2>3 DEF Publishes, PutRow
  <2>4. ASSUME NEW k \in Ids, Marks(k) PROVE FALSE
    BY <2>4 DEF Marks, PutRow
  <2> QED
    BY <1>1, <2>1, <2>2, <2>3, <2>4, RowsStep DEF KeepsRows
<1>2. IInv /\ [Next]_vars =>
        [\A i \in DOMAIN rows \ DOMAIN rows' :
             \/ \E t \in Handlers : proc'[t].pc = "remove" /\ proc'[t].todo = {i}
             \/ i \notin meta /\ \E j \in DOMAIN rows' \ DOMAIN rows : rows'[j] = rows[i]]_vars
  BY <1>1
<1> QED
  BY <1>2, Invariance, PTL DEF Spec, NothingLost

-----------------------------------------------------------------------------
(* The library implements the catalogue.                                   *)

\* What the mapping makes of the tables and of the threads.
Match == [i \in Ids |-> MatchState(i)]

Pending == [i \in Ids |-> {WorkMode(t) : t \in {u \in Threads : InFlight(u, i)}}]

\* Work ends in the step, or goes on; none is begun.
NoneBegun ==
    \A u \in Threads, i \in Ids :
        InFlight(u, i)' => InFlight(u, i) /\ proc'[u].restore = proc[u].restore

\* None ends either.
NoneEnds == \A u \in Threads, i \in Ids : InFlight(u, i) => InFlight(u, i)'

LEMMA PendingEnds ==
    ASSUME NoneBegun
    PROVE  Pending' \in [Ids -> SUBSET C!Modes] /\ \A i \in Ids : Pending'[i] \subseteq Pending[i]
<1>1. ASSUME NEW i \in Ids, NEW u \in Threads, InFlight(u, i)'
      PROVE  InFlight(u, i) /\ WorkMode(u)' = WorkMode(u)
  BY <1>1 DEF NoneBegun, WorkMode
<1>2. ASSUME NEW i \in Ids PROVE Pending'[i] \subseteq Pending[i]
  BY <1>1, <1>2 DEF Pending
<1>3. ASSUME NEW i \in Ids PROVE Pending'[i] \subseteq C!Modes
  BY <1>3 DEF Pending, WorkMode, C!Modes
<1> QED
  BY <1>2, <1>3 DEF Pending

LEMMA PendingStays ==
    ASSUME NoneBegun, NoneEnds
    PROVE  Pending' = Pending
<1>1. ASSUME NEW i \in Ids, NEW u \in Threads
      PROVE  InFlight(u, i)' <=> InFlight(u, i)
  BY <1>1 DEF NoneBegun, NoneEnds
<1>2. ASSUME NEW i \in Ids, NEW u \in Threads, InFlight(u, i)
      PROVE  WorkMode(u)' = WorkMode(u)
  BY <1>1, <1>2 DEF NoneBegun, WorkMode
<1>3. ASSUME NEW i \in Ids PROVE Pending'[i] = Pending[i]
  BY <1>1, <1>2, <1>3 DEF Pending
<1> QED
  BY <1>3 DEF Pending

\* A step that lets no thread past its check begins nothing.
LEMMA HarmlessBegins ==
    ASSUME TypeOK, \A u \in Threads : Harmless(u) \/ \E i \in Ids : BeginsStore(u, i)
    PROVE  NoneBegun
<1> SUFFICES ASSUME NEW u \in Threads, NEW i \in Ids, InFlight(u, i)'
             PROVE  InFlight(u, i) /\ proc'[u].restore = proc[u].restore
  BY DEF NoneBegun
<1>1. CASE Harmless(u)
  BY <1>1 DEF Harmless, InFlight, At
<1>2. ASSUME NEW k \in Ids, BeginsStore(u, k)
      PROVE  InFlight(u, i) /\ proc'[u].restore = proc[u].restore
  BY <1>2, BeginsStoreMeans
<1> QED
  BY <1>1, <1>2

LEMMA IdleEndsNothing ==
    ASSUME NEW t \in Threads, \A u \in Threads \ {t} : proc'[u] = proc[u],
           proc[t].pc \notin {"parse", "store"}
    PROVE  NoneEnds
BY DEF NoneEnds, InFlight, At

LEMMA SameProc ==
    ASSUME UNCHANGED proc
    PROVE  NoneBegun /\ NoneEnds
BY DEF NoneBegun, NoneEnds, InFlight, At

LEMMA MatchKept == UNCHANGED rows => Match' = Match
BY DEF Match, MatchState

\* What happens to the matches a step of the tables is about.
LEMMA MatchPut ==
    ASSUME NEW i \in Ids, NEW r, rows' = PutRow(i, r)
    PROVE  Match' = [Match EXCEPT ![i] = IF r.deleted THEN "deleted" ELSE "listed"]
BY DEF Match, MatchState, PutRow

LEMMA MatchDropped ==
    ASSUME NEW i \in Ids, rows' = DropRow(i)
    PROVE  Match' = [Match EXCEPT ![i] = "absent"]
BY DEF Match, MatchState, DropRow

LEMMA MatchMoved ==
    ASSUME NEW i \in Ids, NEW j \in Ids, CanRename(i, j), rows' = MovedRow(i, j)
    PROVE  Match' = [Match EXCEPT ![i] = "absent", ![j] = Match[i]]
BY DEF Match, MatchState, MovedRow, CanRename

\* A thread that passes its check begins the work the catalogue knows of: an ingest
\* only of a match that is not deleted.
LEMMA CheckBegins ==
    ASSUME IInv, NEW t \in Threads, NEW i \in Ids, BeginsParse(t, i),
           \A u \in Threads \ {t} : proc'[u] = proc[u]
    PROVE  /\ Pending' = [Pending EXCEPT ![i] = @ \union {WorkMode(t)}]
           /\ WorkMode(t) \in C!Modes
           /\ WorkMode(t) = "ingest" => Match[i] # "deleted"
<1> USE DEF IInv
<1>1. /\ proc[t].pc = "check" /\ i \in First(proc[t].todo)
      /\ proc'[t].pc = "parse" /\ proc'[t].todo = proc[t].todo
      /\ proc'[t].restore = proc[t].restore
  BY DEF BeginsParse, At, TypeOK, Procs
<1>2. WorkMode(t)' = WorkMode(t)
  BY <1>1 DEF WorkMode
<1>3. ASSUME NEW j \in Ids PROVE ~InFlight(t, j) /\ (InFlight(t, j)' <=> j = i)
  BY <1>1, <1>3, OneAtATime DEF InFlight, At
<1>4. ASSUME NEW j \in Ids, NEW u \in Threads \ {t}
      PROVE  (InFlight(u, j)' <=> InFlight(u, j)) /\ WorkMode(u)' = WorkMode(u)
  BY <1>4 DEF InFlight, At, WorkMode
<1>5. ASSUME NEW j \in Ids, j # i PROVE Pending'[j] = Pending[j]
  BY <1>3, <1>4, <1>5 DEF Pending
<1>6. Pending'[i] = Pending[i] \union {WorkMode(t)}
  BY <1>2, <1>3, <1>4 DEF Pending
<1>7. WorkMode(t) = "ingest" => Match[i] # "deleted"
  BY DEF WorkMode, BeginsParse, Skips, Deleted, AlreadyParsed, Match, MatchState, RowsCoherent,
         Coherent
<1> QED
  BY <1>5, <1>6, <1>7 DEF Pending, WorkMode, C!Modes

LEMMA Abandons ==
    ASSUME NoneBegun, UNCHANGED rows
    PROVE  C!CatalogNext
<1>1. Pending' \in [Ids -> SUBSET C!Modes] /\ \A i \in Ids : Pending'[i] \subseteq Pending[i]
  BY PendingEnds
<1>2. Match' = Match
  BY MatchKept
<1>3. C!Abandon
  BY <1>1, <1>2 DEF C!Abandon, C!SomeWorkEnds, Match, Pending
<1> QED
  BY <1>3 DEF C!CatalogNext

\* The steps of a thread at work.
LEMMA WorkImplements ==
    ASSUME IInv, NEW t \in Threads, Work(t)
    PROVE  C!CatalogNext
<1> USE DEF IInv
<1>1. CASE \E i \in Ids : BeginsParse(t, i)
  <2>1. PICK i \in Ids : BeginsParse(t, i)
    BY <1>1
  <2>2. /\ \A u \in Threads \ {t} : proc'[u] = proc[u]
        /\ UNCHANGED rows
    <3>1. proc[t].pc = "check" /\ proc'[t].pc = "parse"
      BY <2>1 DEF BeginsParse, At, TypeOK, Procs
    <3>2. CheckMatch(t)
      BY <3>1 DEF Work, ParseDemo, ParseFails, ParsePanics, UpsertMatch, UpsertFails, RemoveFile,
                  RemoveFileFails, At
    <3> QED
      BY <3>2 DEF CheckMatch, Done, TypeOK
  <2>3. Match' = Match
    BY <2>2, MatchKept
  <2>4. C!Begin(i, WorkMode(t))
    BY <2>1, <2>2, <2>3, CheckBegins DEF C!Begin, Match, Pending
  <2> QED
    BY <2>1, <2>2, <2>4, CheckBegins DEF C!CatalogNext
<1>2. CASE \A i \in Ids : ~BeginsParse(t, i)
  <2>1. NoneBegun
    BY <1>2, WorkProc, HarmlessBegins
  <2>2. CASE UpsertMatch(t)
    <3>1. PICK i \in Ids : UpsertMatch(t)!(i)
      BY <2>2 DEF UpsertMatch
    <3>2. Match' = [Match EXCEPT ![i] = "listed"]
      BY <3>1, MatchPut DEF ParsedRow
    <3>3. Pending[i] # {}
      BY <3>1 DEF Pending, InFlight
    <3>4. C!Publish(i)
      BY <2>1, <3>2, <3>3, PendingEnds DEF C!Publish, C!SomeWorkEnds, Match, Pending
    <3> QED
      BY <3>4 DEF C!CatalogNext
  <2>3. CASE ~UpsertMatch(t)
    <3>1. UNCHANGED rows
      BY <2>3 DEF Work, CheckMatch, ParseDemo, ParseFails, ParsePanics, UpsertFails, RemoveFile,
                  RemoveFileFails
    <3> QED
      BY <2>1, <3>1, Abandons
  <2> QED
    BY <2>2, <2>3
<1> QED
  BY <1>1, <1>2

\* Steps that leave the tables alone and let no thread past its check.
LEMMA OtherImplements ==
    ASSUME IInv, [Next]_vars, \A t \in Threads : ~Work(t), UNCHANGED rows
    PROVE  C!CatalogNext
<1>1. NoneBegun
  BY OthersProc, HarmlessBegins DEF IInv
<1> QED
  BY <1>1, Abandons

LEMMA RenameImplements ==
    ASSUME IInv, NEW t \in Threads, NEW i \in Ids, NEW j \in Ids, FileRenamed(t, i, j),
           CanRename(i, j)
    PROVE  C!CatalogNext
<1>1. Pending' = Pending
  BY SameProc, PendingStays DEF FileRenamed
<1>2. Match' = [Match EXCEPT ![i] = "absent", ![j] = Match[i]]
  BY MatchMoved DEF FileRenamed
<1>3. Match[i] # "absent" /\ Match[j] = "absent"
  BY DEF Match, MatchState, CanRename
<1>4. C!Move(i, j)
  BY <1>1, <1>2, <1>3 DEF C!Move, Match, Pending
<1> QED
  BY <1>4 DEF C!CatalogNext

LEMMA DeleteImplements ==
    ASSUME IInv, NEW t \in Threads, NEW i \in Ids, DeleteMatch(t, i), i \in DOMAIN rows
    PROVE  C!CatalogNext
<1>1. Pending' = Pending
  BY SameProc, PendingStays DEF DeleteMatch
<1>2. Match' = [Match EXCEPT ![i] = "deleted"]
  BY MatchPut DEF DeleteMatch, DeletedRow
<1>3. Match[i] # "absent"
  BY DEF Match, MatchState
<1>4. C!Delete(i)
  BY <1>1, <1>2, <1>3 DEF C!Delete, Match, Pending
<1> QED
  BY <1>4 DEF C!CatalogNext

LEMMA FullDeleteImplements ==
    ASSUME IInv, NEW t \in Threads, NEW i \in Ids, FullDeleteMatch(t, i)
    PROVE  C!CatalogNext
<1>1. /\ \A u \in Threads \ {t} : proc'[u] = proc[u]
      /\ proc[t].pc = "idle" /\ proc'[t].pc = "remove"
  BY DEF FullDeleteMatch, IsIdle, Idle, IInv, TypeOK
<1>2. \A u \in Threads : Harmless(u)
  BY <1>1 DEF Harmless
<1>3. NoneBegun /\ NoneEnds
  BY <1>1, <1>2, HarmlessBegins, IdleEndsNothing DEF IInv
<1>4. Pending' = Pending
  BY <1>3, PendingStays
<1>5. Match' = [Match EXCEPT ![i] = "absent"]
  BY MatchDropped DEF FullDeleteMatch
<1>6. C!Drop(i)
  BY <1>4, <1>5 DEF C!Drop, Match, Pending
<1> QED
  BY <1>6 DEF C!CatalogNext

LEMMA StepImplements ==
    ASSUME IInv, [Next]_vars
    PROVE  C!CatalogNext
<1>1. CASE \E t \in Threads : Work(t)
  BY <1>1, WorkImplements
<1>2. CASE \A t \in Threads : ~Work(t)
  <2>1. CASE UNCHANGED rows
    BY <1>2, <2>1, OtherImplements
  <2>2. CASE rows' # rows
    <3>1. PICK t \in Threads : Notice(t) \/ Serve(t)
      BY <1>2, <2>2 DEF Next, StartRescan, StorageFails, ChangeFolder, PutDemo, MoveDemo, Crash, vars
    <3>2. CASE Notice(t)
      <4>1. PICK i \in Ids, j \in Ids : FileRenamed(t, i, j) /\ CanRename(i, j)
        BY <2>2, <3>2 DEF Notice, FileCreated, FileRenamed
      <4> QED
        BY <4>1, RenameImplements
    <3>3. CASE Serve(t)
      <4>1. PICK i \in Ids : FullDeleteMatch(t, i) \/ (DeleteMatch(t, i) /\ i \in DOMAIN rows)
        BY <2>2, <3>3 DEF Serve, Restore, DeleteMatch, EditUserMeta
      <4> QED
        BY <4>1, DeleteImplements, FullDeleteImplements
    <3> QED
      BY <3>1, <3>2, <3>3
  <2> QED
    BY <2>1, <2>2
<1> QED
  BY <1>1, <1>2

\* Tables, threads, races, faults and restarts implement the catalogue, which knows of
\* none of them (Catalog.tla): a match is published only by work that was begun when it was
\* not deleted, or by a restore.
THEOREM LibraryImplementsCatalog == Spec => ImplementsCatalog
<1>1. Init => C!CatalogInit
  <2> SUFFICES ASSUME Init PROVE C!CatalogInit
    OBVIOUS
  <2>1. \A i \in Ids : Match[i] \in C!States
    BY DEF Match, MatchState, C!States
  <2>2. \A i \in Ids, u \in Threads : ~InFlight(u, i)
    BY DEF Init, InFlight, At, Idle
  <2>3. Pending = [i \in Ids |-> {}]
    BY <2>2 DEF Pending
  <2> QED
    BY <2>1, <2>3 DEF C!CatalogInit, Match, Pending
<1>2. IInv /\ [Next]_vars => [C!CatalogNext]_(C!cvars)
  BY StepImplements
<1> QED
  BY <1>1, <1>2, Invariance, PTL DEF Spec, ImplementsCatalog, C!CatalogSpec

-----------------------------------------------------------------------------
(* Jobs: how far they get, and that they come to an end.                   *)

LEMMA FirstExists ==
    ASSUME NEW T, T \subseteq Ids, T # {}
    PROVE  \E i \in Ids : i \in First(T)
<1>1. PICK t \in T : TRUE
  OBVIOUS
<1> DEFINE S == 1..t
           Below == {s \in SUBSET S : \E k \in T : s = 1..k}
<1>2. t \in Nat /\ T \subseteq Nat
  BY IdsAssumption
<1>3. S \in Below
  BY <1>1
<1>4. IsWellFoundedOn(StrictSubsetOrdering(S), SUBSET S)
  <2>1. IsFiniteSet(S)
    BY <1>2, FS_Interval
  <2> HIDE DEF S
  <2>2. FiniteSubsetsOf(S) = SUBSET S
    BY <2>1, FS_FiniteSubsetsOfFinite
  <2> QED
    BY <2>2, FS_StrictSubsetOrderingWellFounded
<1>5. Below \subseteq SUBSET S /\ Below # {}
  BY <1>3
<1>6. PICK s \in Below : \A r \in Below : ~(<<r, s>> \in StrictSubsetOrdering(S))
  <2> HIDE DEF Below, S
  <2> QED
    BY <1>4, <1>5, WFMin
<1>7. PICK m \in T : s = 1..m
  OBVIOUS
<1>8. m \in Nat /\ (m = 0 \/ m \in s)
  BY <1>2, <1>7
<1>9. m <= t
  BY <1>2, <1>7, <1>8
<1>10. ASSUME NEW k \in T, k < m PROVE FALSE
  <2>1. 1..k \in SUBSET S
    BY <1>2, <1>8, <1>9, <1>10
  <2>2. 1..k \in Below
    BY <2>1
  <2>3. 1..k \subseteq s /\ 1..k # s
    BY <1>2, <1>7, <1>8, <1>10
  <2> QED
    BY <1>6, <2>1, <2>2, <2>3 DEF StrictSubsetOrdering
<1>11. m \in First(T)
  BY <1>2, <1>8, <1>10 DEF First
<1> QED
  BY <1>11

\* A thread has something to ingest just while it is busy, and stores only what can be
\* stored or refused.
Formed(p) ==
    /\ p.pc = "idle" <=> p.todo = {}
    /\ p.pc = "store" => Kind[p.demo] \in {"good", "unstorable"}

JobsFormed == \A t \in Threads : Formed(proc[t])

\* What a step may be to a thread: it is given a job, it is done with a demo, it stops.
Takes(t) == IsIdle(t) /\ proc'[t].pc # "parse" /\ Formed(proc'[t])

CrossesOff(t, i) ==
    /\ ~IsIdle(t) /\ i \in First(proc[t].todo)
    /\ proc'[t] = Ingest(proc[t].todo \ {i}, proc[t].restore)
    /\ Recorded(i)'

Reads(t, i) == BeginsStore(t, i) /\ Kind[disk[i]] \in {"good", "unstorable"}

Proceeds(t) == \E i \in Ids : BeginsParse(t, i) \/ Reads(t, i) \/ CrossesOff(t, i)

Stops(t) == proc'[t] = Idle

LEMMA IngestIs ==
    ASSUME NEW ids, NEW restore
    PROVE  /\ Ingest(ids, restore).todo = ids
           /\ Ingest(ids, restore).pc = IF ids = {} THEN "idle" ELSE "check"
           /\ Formed(Ingest(ids, restore))
BY DEF Ingest, Idle, Formed

\* What the demo the thread is at comes to when its row is checked, or is put.
LEMMA CheckMoves ==
    ASSUME TypeOK, NEW t \in Threads, CheckMatch(t)
    PROVE  \E i \in Ids : BeginsParse(t, i) \/ CrossesOff(t, i)
<1>1. PICK i \in Ids : CheckMatch(t)!(i)
  BY DEF CheckMatch
<1>2. CASE Skips(i, proc[t].restore)
  <2>1. Recorded(i)'
    BY <1>1, <1>2 DEF Skips, Recorded, UpToDate, Deleted, AlreadyParsed
  <2>2. proc'[t] = Ingest(proc[t].todo \ {i}, proc[t].restore)
    BY <1>1, <1>2 DEF Done, TypeOK
  <2> QED
    BY <1>1, <2>1, <2>2 DEF CrossesOff, At, IsIdle
<1>3. CASE ~Skips(i, proc[t].restore)
  <2>1. proc'[t] = [proc[t] EXCEPT !.pc = "parse", !.action = IngestAction(i)]
    BY <1>1, <1>3 DEF TypeOK
  <2> QED
    BY <1>1, <1>3, <2>1 DEF BeginsParse
<1> QED
  BY <1>2, <1>3

LEMMA UpsertMoves ==
    ASSUME TypeOK, NEW t \in Threads, UpsertMatch(t)
    PROVE  \E i \in Ids : CrossesOff(t, i)
<1>1. PICK i \in Ids : UpsertMatch(t)!(i)
  BY DEF UpsertMatch
<1>2. Recorded(i)'
  BY <1>1 DEF PutRow, ParsedRow, Recorded, UpToDate, AlreadyParsed
<1>3. proc'[t] = Ingest(proc[t].todo \ {i}, proc[t].restore)
  BY <1>1 DEF Done, TypeOK
<1> QED
  BY <1>1, <1>2, <1>3 DEF CrossesOff, At, IsIdle

\* A thread that works gets on or stops, and stops no other but by a panic.
LEMMA WorkMoves ==
    ASSUME TypeOK, NEW t \in Threads, Work(t)
    PROVE  /\ ~IsIdle(t)
           /\ Proceeds(t) \/ Stops(t)
           /\ \A u \in Threads \ {t} : proc'[u] = proc[u] \/ Stops(u)
<1>1. CASE CheckMatch(t)
  BY <1>1, CheckMoves DEF CheckMatch, Proceeds, At, IsIdle, Done, TypeOK
<1>2. CASE ParseDemo(t)
  <2>1. PICK i \in Ids : ParseDemo(t)!(i)
    BY <1>2 DEF ParseDemo
  <2>2. /\ proc'[t] = [proc[t] EXCEPT !.pc = "store", !.demo = disk[i]]
        /\ \A u \in Threads \ {t} : proc'[u] = proc[u]
    BY <2>1 DEF TypeOK
  <2> QED
    BY <2>1, <2>2 DEF BeginsStore, Reads, Proceeds, At, IsIdle
<1>3. CASE ParsePanics(t)
  BY <1>3 DEF ParsePanics, Fail, Stops, At, IsIdle, TypeOK
<1>4. CASE UpsertMatch(t)
  BY <1>4, UpsertMoves DEF UpsertMatch, Proceeds, At, IsIdle, Done, TypeOK
<1>5. CASE ParseFails(t) \/ UpsertFails(t) \/ RemoveFile(t) \/ RemoveFileFails(t)
  <2>1. Fail(t) /\ ~IsIdle(t)
    BY <1>5 DEF ParseFails, UpsertFails, RemoveFile, RemoveFileFails, At, IsIdle
  <2> QED
    BY <2>1 DEF Fail, Stops, TypeOK
<1> QED
  BY <1>1, <1>2, <1>3, <1>4, <1>5 DEF Work

LEMMA GivenJob ==
    ASSUME TypeOK, NEW t \in Threads, IsIdle(t), NEW ids, NEW restore,
           proc' = [proc EXCEPT ![t] = Ingest(ids, restore)]
    PROVE  Takes(t) /\ \A u \in Threads \ {t} : proc'[u] = proc[u]
BY IngestIs DEF Takes, TypeOK

\* Nothing else moves a thread that is busy, but to stop it.
LEMMA OthersMove ==
    ASSUME TypeOK, [Next]_vars, \A t \in Threads : ~Work(t), NEW u \in Threads
    PROVE  proc'[u] = proc[u] \/ Takes(u) \/ Stops(u)
<1>1. ASSUME NEW t \in Threads, StartRescan(t) \/ Notice(t) \/ Serve(t) \/ StorageFails(t)
      PROVE  proc'[u] = proc[u] \/ Takes(u) \/ Stops(u)
  <2>1. CASE StorageFails(t)
    BY <2>1 DEF StorageFails, Fail, Stops, TypeOK
  <2>2. CASE IsIdle(t) /\ \E ids, restore : proc' = [proc EXCEPT ![t] = Ingest(ids, restore)]
    BY <2>2, GivenJob
  <2>3. CASE UNCHANGED proc
    BY <2>3
  <2>4. ASSUME NEW i \in Ids, FullDeleteMatch(t, i) PROVE proc'[u] = proc[u] \/ Takes(u)
    <3>1. /\ proc'[t] = [Idle EXCEPT !.pc = "remove", !.todo = {i}]
          /\ u # t => proc'[u] = proc[u]
      BY <2>4 DEF FullDeleteMatch, TypeOK
    <3>2. Formed(proc'[t]) /\ proc'[t].pc = "remove"
      BY <3>1 DEF Idle, Formed
    <3> QED
      BY <2>4, <3>1, <3>2 DEF FullDeleteMatch, Takes
  <2>5. StartRescan(t) =>
            IsIdle(t) /\ \E ids, restore : proc' = [proc EXCEPT ![t] = Ingest(ids, restore)]
    BY Zenon DEF StartRescan
  <2>6. Notice(t) => \/ UNCHANGED proc
                     \/ IsIdle(t) /\ \E ids, restore : proc' = [proc EXCEPT ![t] = Ingest(ids, restore)]
    BY Zenon DEF Notice, FileCreated, FileRenamed
  <2>7. Serve(t) => \/ UNCHANGED proc
                    \/ IsIdle(t) /\ \E ids, restore : proc' = [proc EXCEPT ![t] = Ingest(ids, restore)]
                    \/ \E i \in Ids : FullDeleteMatch(t, i)
    BY Zenon DEF Serve, Restore, DeleteMatch, EditUserMeta
  <2> QED
    BY <1>1, <2>1, <2>2, <2>3, <2>4, <2>5, <2>6, <2>7
<1>2. CASE Crash
  BY <1>2 DEF Crash, Stops
<1>3. CASE ChangeFolder
  BY <1>3 DEF ChangeFolder, PutDemo, MoveDemo
<1>4. CASE UNCHANGED vars
  BY <1>4 DEF vars
<1> QED
  BY <1>1, <1>2, <1>3, <1>4 DEF Next

LEMMA ThreadMoves ==
    ASSUME TypeOK, [Next]_vars, NEW u \in Threads
    PROVE  proc'[u] = proc[u] \/ Takes(u) \/ Proceeds(u) \/ Stops(u)
<1>1. CASE \E t \in Threads : Work(t)
  BY <1>1, WorkMoves
<1>2. CASE \A t \in Threads : ~Work(t)
  BY <1>2, OthersMove
<1> QED
  BY <1>1, <1>2

\* Reading and parsing keep the list.
LEMMA KeepsList ==
    ASSUME TypeOK, NEW u \in Threads, NEW i \in Ids
    PROVE  /\ BeginsParse(u, i) => /\ proc[u].pc = "check" /\ proc'[u].pc = "parse"
                                   /\ proc'[u].todo = proc[u].todo /\ i \in proc[u].todo
           /\ BeginsStore(u, i) => /\ proc[u].pc = "parse" /\ proc'[u].pc = "store"
                                   /\ proc'[u].todo = proc[u].todo /\ i \in proc[u].todo
                                   /\ proc'[u].demo = disk[i]
BY DEF BeginsParse, BeginsStore, At, First, TypeOK, Procs

LEMMA FormedStep ==
    ASSUME TypeOK, JobsFormed, [Next]_vars
    PROVE  JobsFormed'
<1> SUFFICES ASSUME NEW u \in Threads PROVE Formed(proc'[u])
  BY DEF JobsFormed
<1>1. Formed(proc[u])
  BY DEF JobsFormed
<1>2. CASE Stops(u)
  BY <1>2 DEF Stops, Idle, Formed
<1>3. ASSUME NEW i \in Ids, BeginsParse(u, i) \/ Reads(u, i) \/ CrossesOff(u, i)
      PROVE  Formed(proc'[u])
  <2>1. CASE BeginsParse(u, i)
    BY <2>1, KeepsList DEF Formed
  <2>2. CASE Reads(u, i)
    BY <2>2, KeepsList DEF Reads, Formed
  <2>3. CASE CrossesOff(u, i)
    BY <2>3, IngestIs DEF CrossesOff
  <2> QED
    BY <1>3, <2>1, <2>2, <2>3
<1> QED
  BY <1>1, <1>2, <1>3, ThreadMoves DEF Takes, Proceeds

LEMMA JobsInvariance == Spec => [](IInv /\ JobsFormed)
<1>1. Init => JobsFormed
  BY DEF Init, JobsFormed, Formed, Idle
<1>2. IInv /\ JobsFormed /\ [Next]_vars => JobsFormed'
  BY FormedStep DEF IInv
<1> QED
  BY <1>1, <1>2, Invariance, PTL DEF Spec

\* What is left to do gets less: fewer demos, or the same and fewer steps for the first.
StepsLeft(pc) == CASE pc = "check" -> 2 [] pc = "parse" -> 1 [] OTHER -> 0

Advances(t) ==
    /\ proc'[t].todo \subseteq proc[t].todo
    /\ proc'[t].todo = proc[t].todo => StepsLeft(proc'[t].pc) < StepsLeft(proc[t].pc)

\* Whatever happens, a job that is under way changes only by coming nearer to its end, and
\* does so with every step of its own: no event, race or fault puts demos on the list of a
\* rescan or sends it back to one (the loop of parseAllIdempotent).
JobsAdvance ==
    [][\A t \in Threads : ~IsIdle(t) =>
          /\ proc'[t] = proc[t] \/ Advances(t)
          /\ Work(t) => Advances(t)]_vars

\* A job that is under way has a next step, whatever became of the row and the file it was
\* about: the demo to be checked, parsed or removed, or one to be stored that the database
\* takes or refuses. With JobsAdvance it is why EveryJobEnds needs no more than that
\* threads go on: every step of a thread is one of a finite number.
CanGoOn(t) ==
    \E i \in Ids :
        \/ At(t, "check", i) \/ At(t, "parse", i) \/ At(t, "remove", i)
        \/ At(t, "store", i) /\ Kind[proc[t].demo] \in {"good", "unstorable"}

NeverStuck == \A t \in Threads : IsIdle(t) \/ CanGoOn(t)

\* A rescan passes on from a demo only when the match has a current row or is marked as
\* deleted, and ends its list only so unless it fails: what it leaves behind in the midst
\* of deletions, renames and other ingests it has recorded (parse_all.go:71).
CrossedOffIsRecorded ==
    [][\A t \in Threads : \A i \in proc[t].todo \ proc'[t].todo :
          ~IsIdle(t)' \/ CheckMatch(t) \/ UpsertMatch(t) => Recorded(i)']_vars

LEMMA ProceedingAdvances ==
    ASSUME TypeOK, JobsFormed, NEW t \in Threads, ~IsIdle(t), Proceeds(t) \/ Stops(t)
    PROVE  Advances(t)
<1>1. proc[t].todo # {}
  BY DEF JobsFormed, Formed, IsIdle
<1>2. CASE Stops(t)
  BY <1>1, <1>2 DEF Stops, Idle, Advances
<1>3. ASSUME NEW i \in Ids, BeginsParse(t, i) \/ BeginsStore(t, i) PROVE Advances(t)
  BY <1>3, KeepsList DEF Advances, StepsLeft
<1>4. ASSUME NEW i \in Ids, CrossesOff(t, i) PROVE Advances(t)
  <2>1. proc'[t].todo = proc[t].todo \ {i} /\ i \in proc[t].todo
    BY <1>4, IngestIs DEF CrossesOff, First
  <2> QED
    BY <2>1 DEF Advances
<1> QED
  BY <1>2, <1>3, <1>4 DEF Proceeds, Reads

\* Every step of a job brings it nearer to its end, and no step of another sends it back.
THEOREM JobsComeNearer == Spec => JobsAdvance
<1>1. ASSUME IInv, JobsFormed, [Next]_vars, NEW t \in Threads, ~IsIdle(t)
      PROVE  /\ proc'[t] = proc[t] \/ Advances(t)
             /\ Work(t) => Advances(t)
  <2>1. TypeOK
    BY <1>1 DEF IInv
  <2>2. ~Takes(t)
    BY <1>1 DEF Takes
  <2> QED
    BY <1>1, <2>1, <2>2, ThreadMoves, WorkMoves, ProceedingAdvances
<1>2. IInv /\ JobsFormed /\ [Next]_vars =>
        [\A t \in Threads : ~IsIdle(t) =>
            /\ proc'[t] = proc[t] \/ Advances(t)
            /\ Work(t) => Advances(t)]_vars
  BY <1>1
<1> QED
  BY <1>2, JobsInvariance, PTL DEF Spec, JobsAdvance

\* No thread is left in the middle of a job with nothing it could do next.
THEOREM JobsAreNeverStuck == Spec => []NeverStuck
<1>1. ASSUME IInv, JobsFormed, NEW t \in Threads, ~IsIdle(t) PROVE CanGoOn(t)
  <2>1. proc[t].todo \subseteq Ids /\ proc[t].todo # {}
        /\ proc[t].pc \in {"check", "parse", "store", "remove"}
    BY <1>1 DEF IInv, TypeOK, Procs, JobsFormed, Formed, IsIdle
  <2>2. PICK i \in Ids : i \in First(proc[t].todo)
    BY <2>1, FirstExists
  <2>3. proc[t].pc = "store" => Kind[proc[t].demo] \in {"good", "unstorable"}
    BY <1>1 DEF JobsFormed, Formed
  <2> QED
    BY <2>1, <2>2, <2>3 DEF CanGoOn, At
<1>2. IInv /\ JobsFormed => NeverStuck
  BY <1>1 DEF NeverStuck
<1> QED
  BY <1>2, JobsInvariance, PTL

\* What a rescan has passed it has found or made current, or found deleted.
THEOREM RescansLeaveNothing == Spec => CrossedOffIsRecorded
<1>1. ASSUME IInv, JobsFormed, [Next]_vars, NEW t \in Threads, NEW i \in proc[t].todo \ proc'[t].todo,
             ~IsIdle(t)' \/ CheckMatch(t) \/ UpsertMatch(t)
      PROVE  Recorded(i)'
  <2>1. TypeOK /\ ~IsIdle(t)
    BY <1>1 DEF IInv, JobsFormed, Formed, IsIdle
  <2>2. \E k \in Ids : BeginsParse(t, k) \/ BeginsStore(t, k) \/ CrossesOff(t, k)
    <3>1. CASE CheckMatch(t) \/ UpsertMatch(t)
      BY <2>1, <3>1, CheckMoves, UpsertMoves
    <3>2. CASE ~IsIdle(t)'
      <4>1. ~Takes(t) /\ ~Stops(t) /\ proc'[t] # proc[t]
        BY <1>1, <2>1, <3>2 DEF Takes, Stops, IsIdle, Idle
      <4> QED
        BY <1>1, <2>1, <4>1, ThreadMoves DEF Proceeds, Reads
    <3> QED
      BY <1>1, <3>1, <3>2
  <2>3. PICK k \in Ids : CrossesOff(t, k)
    BY <1>1, <2>1, <2>2, KeepsList
  <2>4. proc'[t].todo = proc[t].todo \ {k}
    BY <2>3, IngestIs DEF CrossesOff
  <2> QED
    BY <1>1, <2>3, <2>4 DEF CrossesOff
<1>2. IInv /\ JobsFormed /\ [Next]_vars =>
        [\A t \in Threads : \A i \in proc[t].todo \ proc'[t].todo :
            ~IsIdle(t)' \/ CheckMatch(t) \/ UpsertMatch(t) => Recorded(i)']_vars
  BY <1>1
<1> QED
  BY <1>2, JobsInvariance, PTL DEF Spec, CrossedOffIsRecorded
=============================================================================
