------------------------------ MODULE Library ------------------------------
(***************************************************************************)
(* The match library of the Puggies server: the demo folder, the tables    *)
(* matches and usermeta, the audit log, and the threads that work on them. *)
(*                                                                         *)
(*   - rescans (doRescan): one goroutine per run of the cron job or of     *)
(*     POST /rescan; runs may overlap;                                     *)
(*   - the consumer of the folder watcher's channels (watchFileChanges);   *)
(*   - the HTTP handlers of one match: restore, delete, full delete and    *)
(*     the edit of the user metadata.                                      *)
(*                                                                         *)
(* A thread that ingests a demo (parseIdempotent) reads the match's row,   *)
(* parses the file and writes the row in three separate steps, with no     *)
(* lock and no transaction around them.  Each SQL statement is one step.   *)
(* Nothing acts on the audit log, so only the newest entry is kept, for as *)
(* long as the step that inserts it.  The entry a handler inserts last is  *)
(* part of the step before it, and may be missing: the error of            *)
(* InsertAuditEntry is ignored, and a crash may come first.                *)
(***************************************************************************)
EXTENDS Naturals, FiniteSets, Functions

CONSTANTS
    Ids,            \* match ids (demo file names), numbered in the order Glob sorts them
    Demos,          \* contents a demo file may have
    Kind,           \* what ingesting each content comes to
    NoDemo,         \* no such file; also the match data of a deleted match
    ParserVersion,  \* version of this build's parser
    MigratedRows,   \* rows an older build may have left in the database
    Rescanners,     \* rescans that may be under way at once
    Watchers,       \* the watcher's consumer (at most one) 
    Handlers,       \* HTTP requests that may be under way at once
    MaxFaults       \* bound: storage faults and crashes

Kinds == {"good", "unparsable", "unstorable", "fatal"}

Contents == Demos \union {NoDemo}

Rows == [version: Nat, deleted: BOOLEAN, data: Contents]

\* The two marks of a deleted match agree, and its data is gone; a listed match
\* carries the statistics of a demo that could be stored.
Coherent(r) ==
    /\ r.deleted <=> r.version = 0
    /\ r.deleted <=> r.data = NoDemo
    /\ ~r.deleted => Kind[r.data] = "good"

ASSUME IdsAssumption == Ids \subseteq Nat
ASSUME DemosAssumption == NoDemo \notin Demos /\ Kind \in [Demos -> Kinds]
ASSUME VersionAssumption == ParserVersion \in Nat \ {0}
ASSUME MigratedAssumption == MigratedRows \subseteq {r \in Rows : Coherent(r)}
ASSUME ThreadsAssumption ==
    /\ Rescanners \intersect (Watchers \union Handlers) = {}
    /\ Watchers \intersect Handlers = {}
ASSUME FaultsAssumption == MaxFaults \in Nat

Threads == Rescanners \union Watchers \union Handlers

VARIABLES
    disk,    \* the demos folder: content of each id's file
    rows,    \* table matches, by primary key
    meta,    \* ids that have a row in table usermeta
    audit,   \* the entry the last step inserted in the audit log: action and ids
    proc,    \* what each thread is doing
    faults   \* faults that may still happen

vars == <<disk, rows, meta, audit, proc, faults>>

IngestActions == {"MATCH_ADDED", "MATCH_UPDATED", "MATCH_RESTORED"}

NoEntry == <<"NONE", {}>>

AuditEntries ==
    {NoEntry, <<"RESCAN_TRIGGERED", {}>>}
      \union ({"MATCH_RENAMED"} \X SUBSET Ids)
      \union ((IngestActions \union {"MATCH_DELETED", "MATCH_PERMANENTLY_DELETED",
                                     "USERMETA_UPDATED"}) \X {{i} : i \in Ids})

Procs == [pc: {"idle", "check", "parse", "store", "remove"},
          todo: SUBSET Ids,        \* demos still to ingest, the current one included
          restore: BOOLEAN,        \* the shouldRestore argument
          action: IngestActions,   \* decided from the row that was read
          demo: Contents]          \* what was read from the file

Idle == [pc |-> "idle", todo |-> {}, restore |-> FALSE,
         action |-> "MATCH_ADDED", demo |-> NoDemo]

TypeOK ==
    /\ disk \in [Ids -> Contents]
    /\ DOMAIN rows \subseteq Ids
    /\ rows \in [DOMAIN rows -> Rows]
    /\ meta \subseteq Ids
    /\ audit \in AuditEntries
    /\ proc \in [Threads -> Procs]
    /\ faults \in 0..MaxFaults

-----------------------------------------------------------------------------
(* The database.                                                           *)

PutRow(i, r) == [j \in DOMAIN rows \union {i} |-> IF j = i THEN r ELSE rows[j]]

DropRow(i) == [j \in DOMAIN rows \ {i} |-> rows[j]]

MovedRow(old, new) ==
    [j \in (DOMAIN rows \ {old}) \union {new} |-> IF j = new THEN rows[old] ELSE rows[j]]

\* Deviation: the version is not reset.
DeletedRowOfVersion == [version |-> ParserVersion, deleted |-> TRUE, data |-> NoDemo]

\* SoftDeleteMatch sets every column the model keeps.
DeletedRow == [version |-> 0, deleted |-> TRUE, data |-> NoDemo]

ParsedRow(demo) == [version |-> ParserVersion, deleted |-> FALSE, data |-> demo]

\* Deviation: the row under the new id is overwritten.
CanRenameOver(old, new) == old \in DOMAIN rows /\ old # new /\ old \notin meta

\* The key update of RenameMatch violates the primary key when the new id is
\* taken and the foreign key of usermeta when the match has metadata.
CanRename(old, new) ==
    old \in DOMAIN rows /\ new \notin DOMAIN rows /\ old \notin meta

\* What HasMatch tells parseIdempotent about the row.
AlreadyParsed(i) == i \in DOMAIN rows

\* Deviation: off by one in the version that marks a deleted match.
DeletedAtOne(i) == AlreadyParsed(i) /\ rows[i].version = 1

Deleted(i) == AlreadyParsed(i) /\ rows[i].version = 0
UpToDate(i) == AlreadyParsed(i) /\ rows[i].version = ParserVersion

\* Deviation: shouldRestore the wrong way round.
SkipsRestores(i, restore) == UpToDate(i) \/ (Deleted(i) /\ restore)

Skips(i, restore) == UpToDate(i) \/ (Deleted(i) /\ ~restore)

\* Deviation: a new match is announced as a rename.
IngestActionRenamed(i) == IF AlreadyParsed(i) THEN "MATCH_UPDATED" ELSE "MATCH_RENAMED"

IngestAction(i) ==
    CASE ~AlreadyParsed(i) -> "MATCH_ADDED"
      [] Deleted(i)        -> "MATCH_RESTORED"
      [] OTHER             -> "MATCH_UPDATED"

\* InsertAuditEntry as its callers use it: its failure goes unnoticed.
Log(action, ids) == audit' \in {NoEntry, <<action, ids>>}

LogNothing == audit' = NoEntry

-----------------------------------------------------------------------------
(* Threads.                                                                *)

IsIdle(t) == proc[t].pc = "idle"

First(S) == {i \in S : \A j \in S : i <= j}

At(t, pc, i) == proc[t].pc = pc /\ i \in First(proc[t].todo)

\* parseIdempotent is past its check of the row and will publish what it parses.
InFlight(t, i) == At(t, "parse", i) \/ At(t, "store", i)

Ingest(ids, restore) ==
    IF ids = {} THEN Idle ELSE [Idle EXCEPT !.pc = "check", !.todo = ids, !.restore = restore]

\* Deviation: the loop ends after the first demo.
DoneReturns(t, i) == proc' = [proc EXCEPT ![t] = Idle]

\* Deviation: the loop stays at the same demo.
DoneRepeats(t, i) == proc' = [proc EXCEPT ![t] = Ingest(@.todo, @.restore)]

\* parseIdempotent returns nil: on to the next demo of the loop, if any.
Done(t, i) == proc' = [proc EXCEPT ![t] = Ingest(@.todo \ {i}, @.restore)]

\* parseIdempotent returns an error: the loop of parseAllIdempotent ends with it.
Fail(t) == proc' = [proc EXCEPT ![t] = Idle]

StartRescan(t) ==
    /\ t \in Rescanners
    /\ IsIdle(t)
    /\ proc' = [proc EXCEPT ![t] = Ingest({i \in Ids : disk[i] # NoDemo}, FALSE)]
    /\ Log("RESCAN_TRIGGERED", {})
    /\ UNCHANGED <<disk, rows, meta, faults>>

\* The watcher reports a file.  By the time the message is taken from the
\* channel the folder may have changed, so any id may be named.
FileCreated(t, i) ==
    /\ t \in Watchers
    /\ IsIdle(t)
    /\ proc' = [proc EXCEPT ![t] = Ingest({i}, FALSE)]
    /\ LogNothing
    /\ UNCHANGED <<disk, rows, meta, faults>>

\* The watcher reports a rename.  It pairs a rename event with whatever is
\* created or written next, so any two ids may be named.
FileRenamed(t, old, new) ==
    /\ t \in Watchers
    /\ IsIdle(t)
    /\ Log("MATCH_RENAMED", {old, new})
    /\ rows' = IF CanRename(old, new) THEN MovedRow(old, new) ELSE rows
    /\ UNCHANGED <<disk, meta, proc, faults>>

CheckMatch(t) ==
    \E i \in Ids :
        /\ At(t, "check", i)
        /\ IF Skips(i, proc[t].restore)
             THEN Done(t, i)
             ELSE proc' = [proc EXCEPT ![t].pc = "parse", ![t].action = IngestAction(i)]
        /\ LogNothing
        /\ UNCHANGED <<disk, rows, meta, faults>>

ParseDemo(t) ==
    \E i \in Ids :
        /\ At(t, "parse", i)
        /\ disk[i] \in Demos
        /\ Kind[disk[i]] \in {"good", "unstorable"}
        /\ proc' = [proc EXCEPT ![t].pc = "store", ![t].demo = disk[i]]
        /\ LogNothing
        /\ UNCHANGED <<disk, rows, meta, faults>>

\* The file is gone, or the parser gives up on it.
ParseFails(t) ==
    \E i \in Ids :
        /\ At(t, "parse", i)
        /\ disk[i] \in Demos => Kind[disk[i]] = "unparsable"
        /\ Fail(t)
        /\ LogNothing
        /\ UNCHANGED <<disk, rows, meta, faults>>

\* The parser panics.  gin recovers a handler's panic; any other goroutine
\* takes the process, and with it every thread, down.
ParsePanics(t) ==
    \E i \in Ids :
        /\ At(t, "parse", i)
        /\ disk[i] \in Demos
        /\ Kind[disk[i]] = "fatal"
        /\ IF t \in Handlers THEN Fail(t) ELSE proc' = [u \in Threads |-> Idle]
        /\ LogNothing
        /\ UNCHANGED <<disk, rows, meta, faults>>

UpsertMatch(t) ==
    \E i \in Ids :
        /\ At(t, "store", i)
        /\ Kind[proc[t].demo] = "good"
        /\ rows' = PutRow(i, ParsedRow(proc[t].demo))
        /\ Log(proc[t].action, {i})
        /\ Done(t, i)
        /\ UNCHANGED <<disk, meta, faults>>

\* The statistics do not marshal (an infinite or undefined ratio) or break a
\* constraint of the table.
UpsertFails(t) ==
    /\ proc[t].pc = "store"
    /\ Kind[proc[t].demo] = "unstorable"
    /\ Fail(t)
    /\ LogNothing
    /\ UNCHANGED <<disk, rows, meta, faults>>

-----------------------------------------------------------------------------
(* Handlers of one match.                                                  *)

Restore(t, i) ==
    /\ t \in Handlers
    /\ IsIdle(t)
    /\ proc' = [proc EXCEPT ![t] = Ingest({i}, TRUE)]
    /\ LogNothing
    /\ UNCHANGED <<disk, rows, meta, faults>>

\* Deviation: the deletion mark is upserted.
DeleteMatchUpserts(t, i) ==
    /\ t \in Handlers
    /\ IsIdle(t)
    /\ rows' = PutRow(i, DeletedRow)
    /\ Log("MATCH_DELETED", {i})
    /\ UNCHANGED <<disk, meta, proc, faults>>

DeleteMatch(t, i) ==
    /\ t \in Handlers
    /\ IsIdle(t)
    /\ rows' = IF i \in DOMAIN rows THEN PutRow(i, DeletedRow) ELSE rows
    /\ Log("MATCH_DELETED", {i})
    /\ UNCHANGED <<disk, meta, proc, faults>>

\* The row goes first, its metadata by ON DELETE CASCADE ...
FullDeleteMatch(t, i) ==
    /\ t \in Handlers
    /\ IsIdle(t)
    /\ rows' = DropRow(i)
    /\ meta' = meta \ {i}
    /\ proc' = [proc EXCEPT ![t] = [Idle EXCEPT !.pc = "remove", !.todo = {i}]]
    /\ LogNothing
    /\ UNCHANGED <<disk, faults>>

\* ... then the file, and the audit entry only if that worked.
RemoveFile(t) ==
    \E i \in Ids :
        /\ At(t, "remove", i)
        /\ disk[i] # NoDemo
        /\ disk' = [disk EXCEPT ![i] = NoDemo]
        /\ Log("MATCH_PERMANENTLY_DELETED", {i})
        /\ Fail(t)
        /\ UNCHANGED <<rows, meta, faults>>

RemoveFileFails(t) ==
    /\ proc[t].pc = "remove"
    /\ Fail(t)
    /\ LogNothing
    /\ UNCHANGED <<disk, rows, meta, faults>>

\* Both fields empty delete the metadata; anything else needs the match's row.
EditUserMeta(t, i) ==
    /\ t \in Handlers
    /\ IsIdle(t)
    /\ \/ meta' = meta \ {i}
       \/ i \in DOMAIN rows /\ meta' = meta \union {i}
    /\ Log("USERMETA_UPDATED", {i})
    /\ UNCHANGED <<disk, rows, proc, faults>>

-----------------------------------------------------------------------------
(* The environment: whoever keeps demos in the folder, and faults.         *)

PutDemo(i, d) ==
    /\ disk[i] # d
    /\ disk' = [disk EXCEPT ![i] = d]
    /\ LogNothing
    /\ UNCHANGED <<rows, meta, proc, faults>>

MoveDemo(i, j) ==
    /\ i # j /\ disk[i] # NoDemo
    /\ disk' = [disk EXCEPT ![i] = NoDemo, ![j] = disk[i]]
    /\ LogNothing
    /\ UNCHANGED <<rows, meta, proc, faults>>

\* HasMatch or UpsertMatches returns an error of the database.
StorageFails(t) ==
    /\ faults > 0
    /\ proc[t].pc \in {"check", "store"}
    /\ Fail(t)
    /\ faults' = faults - 1
    /\ LogNothing
    /\ UNCHANGED <<disk, rows, meta>>

\* The process dies and is started again: tables and folder are what is left.
Crash ==
    /\ faults > 0
    /\ proc' = [u \in Threads |-> Idle]
    /\ faults' = faults - 1
    /\ LogNothing
    /\ UNCHANGED <<disk, rows, meta>>

-----------------------------------------------------------------------------

Init ==
    /\ disk \in [Ids -> Contents]
    /\ \E known \in SUBSET Ids : rows \in [known -> MigratedRows]
    /\ meta = {}
    /\ audit = NoEntry
    /\ proc = [t \in Threads |-> Idle]
    /\ faults = MaxFaults

\* A thread that has work goes on with it.
Work(t) ==
    \/ CheckMatch(t)
    \/ ParseDemo(t)
    \/ ParseFails(t)
    \/ ParsePanics(t)
    \/ UpsertMatch(t)
    \/ UpsertFails(t)
    \/ RemoveFile(t)
    \/ RemoveFileFails(t)

\* The watcher's consumer takes a message.
Notice(t) ==
    \E i \in Ids :
        \/ FileCreated(t, i)
        \/ \E j \in Ids : FileRenamed(t, i, j)

\* A handler takes a request.
Serve(t) ==
    \E i \in Ids :
        \/ Restore(t, i)
        \/ DeleteMatch(t, i)
        \/ FullDeleteMatch(t, i)
        \/ EditUserMeta(t, i)

\* The owner of the folder changes it.
ChangeFolder ==
    \E i \in Ids :
        \/ \E d \in Contents : PutDemo(i, d)
        \/ \E j \in Ids : MoveDemo(i, j)

Next ==
    \/ \E t \in Threads :
          Work(t) \/ StartRescan(t) \/ Notice(t) \/ Serve(t) \/ StorageFails(t)
    \/ ChangeFolder
    \/ Crash

Spec == Init /\ [][Next]_vars

\* The scheduler starts a rescan at start-up and at every interval, and the Go
\* runtime lets every goroutine go on.  Nothing else must ever happen.
Fairness ==
    /\ \A t \in Threads : WF_vars(Work(t))
    /\ \A t \in Rescanners : WF_vars(StartRescan(t))

FairSpec == Spec /\ Fairness

-----------------------------------------------------------------------------
(* Properties.                                                             *)

\* Every row is coherent: parseIdempotent goes by version 0 and every listing by
\* the column deleted (storage_pg.go), so they must never disagree.
RowsCoherent == \A i \in DOMAIN rows : Coherent(rows[i])

\* User metadata always belongs to a match in the table, whatever is deleted or
\* renamed meanwhile (the foreign key of table usermeta).
MetaHasRow == meta \subseteq DOMAIN rows

\* What was read and decided before still holds of every thread that is about to
\* write: only a restore may carry the action MATCH_RESTORED.
OnlyRestoresRestore ==
    \A t \in Threads :
        proc[t].pc \in {"parse", "store"} /\ proc[t].action = "MATCH_RESTORED"
            => proc[t].restore

\* A deleted match on which no ingest but a restore is under way.
Settled(i) ==
    /\ i \in DOMAIN rows
    /\ rows[i].deleted
    /\ \A t \in Threads : InFlight(t, i) => proc[t].restore

\* A restore publishes the match in this step.
Restoring(t, i) ==
    /\ At(t, "store", i)
    /\ proc[t].restore
    /\ rows' = PutRow(i, ParsedRow(proc[t].demo))

\* Once the ingests that were under way when a match was deleted are over, it
\* stays deleted - no rescan and no file event brings it back - until it is
\* restored, or its row is dropped or renamed away (parse_all.go:42).
DeletedStaysDeleted ==
    [][\A i \in Ids :
          Settled(i) /\ i \in DOMAIN rows'
              => Settled(i)' \/ \E t \in Threads : Restoring(t, i)]_vars

\* A match that is out of the table and out of the folder, with nothing about
\* to be stored under its id.
Gone(i) ==
    /\ i \notin DOMAIN rows
    /\ disk[i] = NoDemo
    /\ \A t \in Threads : ~At(t, "store", i)

\* What is gone - a fully deleted match, once no ingest holds its demo - comes
\* back only with a file or by the renaming of another match.
GoneStaysGone ==
    [][\A i \in Ids :
          Gone(i) => \/ Gone(i)'
                     \/ disk'[i] # NoDemo
                     \/ \E j \in DOMAIN rows \ DOMAIN rows' : rows' = MovedRow(j, i)]_vars

\* Every row an action of the server drops from the table, it drops because of
\* a full delete of that match, or moves whole to the new id: a failing rename, a
\* re-parse and a crash lose no match and no metadata.
NothingLost ==
    [][\A i \in DOMAIN rows \ DOMAIN rows' :
          \/ \E t \in Handlers : proc'[t].pc = "remove" /\ proc'[t].todo = {i}
          \/ i \notin meta /\ \E j \in DOMAIN rows' \ DOMAIN rows : rows'[j] = rows[i]]_vars

\* The tables and threads as the catalogue the abstract specification speaks of.
MatchState(i) ==
    IF i \notin DOMAIN rows THEN "absent"
    ELSE IF rows[i].deleted THEN "deleted" ELSE "listed"

WorkMode(t) == IF proc[t].restore THEN "restore" ELSE "ingest"

C == INSTANCE Catalog WITH
        match <- [i \in Ids |-> MatchState(i)],
        pending <- [i \in Ids |-> {WorkMode(t) : t \in {u \in Threads : InFlight(u, i)}}]

\* The threads, tables and races of this module implement the catalogue.
ImplementsCatalog == C!CatalogSpec

\* What a demo in the folder comes to: a current row or a deletion mark.
Recorded(i) == UpToDate(i) \/ Deleted(i)

FolderSettles == <>[][UNCHANGED disk]_disk

OnlyGoodDemos == \A i \in Ids : disk[i] # NoDemo => Kind[disk[i]] = "good"

\* When the folder is left alone and every demo in it can be stored, each of them
\* is recorded, whatever events the watcher missed, however the server crashed
\* and whichever rows an older parser left (doRescan, parseIdempotent).
GoodFolderRecorded ==
    FolderSettles /\ <>[]OnlyGoodDemos
        => \A i \in Ids : <>[](disk[i] # NoDemo) => []<>Recorded(i)

\* Every thread gets done: a rescan comes to the end of the list it made.
EveryJobEnds == \A t \in Threads : ~IsIdle(t) ~> IsIdle(t)

-----------------------------------------------------------------------------
(* What the documents say of the program, and the code does not do.       *)

\* DeleteMatchModal.tsx:63: a deleted match comes back if the administrator
\* chooses to restore it.
OnlyRestoreUndeletes ==
    [][\A i \in DOMAIN rows \intersect DOMAIN rows' :
          rows[i].deleted /\ ~rows'[i].deleted => \E t \in Threads : Restoring(t, i)]_vars

=============================================================================
