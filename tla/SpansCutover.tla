---------------------------- MODULE SpansCutover ----------------------------
(***************************************************************************)
(* How the spans family gets a file of its own: the layout decided at open *)
(* (layout.go), the cut-over of a single-file database (cutover.go) with a *)
(* stop after each of its steps, and the connections of the readers, which *)
(* decide for themselves what to attach (attach.go).                       *)
(*                                                                         *)
(* A row is named by its id.  A file of span tables is the set of its rows *)
(* with its AUTOINCREMENT counter.                                         *)
(***************************************************************************)
EXTENDS Integers, FiniteSets

CONSTANTS
    CoRows0,      \* the rows of the single-file database at first
    CoMaxId,      \* bound on the ids given out
    CopyBatch,    \* cutoverBatchRows
    MaxCoStops,   \* bound on stops and failures
    MaxCoDeletes  \* bound on the rows retention deletes

ASSUME CutoverAssumption ==
    /\ CoMaxId \in Nat /\ CoRows0 \subseteq 1..CoMaxId
    /\ CopyBatch \in Nat \ {0}

VARIABLES
    mainSpans,   \* the span tables in main, or NoTables
    copyFile,    \* the file at cutoverPath, or NoTables
    spansFile,   \* the file at SpansPath, or NoTables
    mainMigrated,
    writer,      \* where the writer's process is
    cliOpen,     \* a CLI command between its look at the copy and its rename
    conn,        \* what a reader's connection has: "main", "spans", a file "unlinked" since, "none"
    newInstall,  \* no database before the first start (never changes)
    coStops, coDeletes,
    liveRows, usedIds  \* history: rows written and not deleted; ids given out

coVars == <<mainSpans, copyFile, spansFile, mainMigrated, writer, cliOpen, conn, newInstall, coStops, coDeletes, liveRows, usedIds>>
coHistory == <<newInstall, coDeletes, liveRows, usedIds>>

NoTables == [rows |-> {}, seq |-> -1, done |-> FALSE]
EmptyTables == [rows |-> {}, seq |-> 0, done |-> FALSE]
Top(S) == CHOOSE n \in {0} \cup S : \A k \in S : k <= n

\* A single-file database, a new install, or a leftover spans file beside a
\* single-file main.
CoInit ==
    /\ newInstall \in BOOLEAN
    /\ mainSpans = IF newInstall THEN NoTables ELSE [rows |-> CoRows0, seq |-> Top(CoRows0), done |-> FALSE]
    /\ mainMigrated = ~newInstall
    /\ spansFile \in (IF newInstall THEN {NoTables} ELSE {NoTables, EmptyTables})
    /\ liveRows = mainSpans.rows /\ usedIds = liveRows
    /\ copyFile = NoTables /\ writer = "down" /\ cliOpen = FALSE /\ conn = "none"
    /\ coStops = 0 /\ coDeletes = 0

\* A connection that attached the spans file keeps the file it opened.
Unlinked == IF conn = "spans" THEN "unlinked" ELSE conn

\* splitLayoutRW: decided by main alone.
SplitLayout == mainSpans = NoTables

-----------------------------------------------------------------------------
(* The writer's start. *)

\* openLayout of a single-file main; cutOver starts by removing what an
\* earlier try left.
StartSingle(cutOver) ==
    /\ writer = "down" /\ ~SplitLayout
    /\ IF cutOver THEN /\ copyFile' = NoTables /\ spansFile' = NoTables /\ writer' = "room" /\ conn' = Unlinked
                  ELSE /\ writer' = "single" /\ UNCHANGED <<copyFile, spansFile, conn>>
    /\ UNCHANGED <<mainSpans, mainMigrated, cliOpen, coStops, coHistory>>

\* cutoverHasRoom, then createSpansFile.
HasRoom(room) ==
    /\ writer = "room"
    /\ copyFile' = IF room THEN EmptyTables ELSE NoTables
    /\ writer' = IF room THEN "copying" ELSE "single"
    /\ UNCHANGED <<mainSpans, spansFile, mainMigrated, cliOpen, conn, coStops, coHistory>>

\* copyRowidBatches: the next CopyBatch rows after the last one copied.
CopyRows ==
    /\ writer = "copying"
    /\ LET rest == {i \in mainSpans.rows : i > Top(copyFile.rows)}
           next == {i \in rest : Cardinality({k \in rest : k <= i}) <= CopyBatch}
       IN /\ rest # {}
          /\ copyFile' = [copyFile EXCEPT !.rows = @ \cup next, !.seq = Top(next)]
    /\ UNCHANGED <<mainSpans, spansFile, mainMigrated, writer, cliOpen, conn, coStops, coHistory>>

\* Mutant: the counter is left at the last id copied.
CopySequences_None == copyFile.seq

\* copySequences.
CopySequences == mainSpans.seq

\* copyTable has compared the counts; the counters and then the marker follow.
MarkCopy ==
    /\ writer = "copying" /\ copyFile.rows = mainSpans.rows
    /\ copyFile' = [copyFile EXCEPT !.seq = CopySequences, !.done = TRUE]
    /\ writer' = "copied"
    /\ UNCHANGED <<mainSpans, spansFile, mainMigrated, cliOpen, conn, coStops, coHistory>>

\* Mutant: the tables go while the copy is still made.
DropMovedTables_Early ==
    /\ writer \in {"copying", "copied"}
    /\ mainSpans' = NoTables /\ writer' = "dropped"
    /\ UNCHANGED <<copyFile, spansFile, mainMigrated, cliOpen, conn, coStops, coHistory>>

\* dropMovedTables: the commit point.
DropMovedTables ==
    /\ writer = "copied"
    /\ mainSpans' = NoTables /\ writer' = "dropped"
    /\ UNCHANGED <<copyFile, spansFile, mainMigrated, cliOpen, conn, coStops, coHistory>>

\* A failure before the drop leaves the single-file layout.
CutoverFails ==
    /\ writer \in {"copying", "copied"} /\ coStops < MaxCoStops
    /\ coStops' = coStops + 1
    /\ copyFile' = NoTables /\ writer' = "single"
    /\ UNCHANGED <<mainSpans, spansFile, mainMigrated, cliOpen, conn, coHistory>>

\* commitCutover: the rename fails if a CLI command has done it.
CommitCutover ==
    /\ writer = "dropped"
    /\ IF copyFile = NoTables THEN writer' = "down" /\ UNCHANGED <<spansFile, copyFile>>
       ELSE spansFile' = copyFile /\ copyFile' = NoTables /\ writer' = "split"
    /\ UNCHANGED <<mainSpans, mainMigrated, cliOpen, conn, coStops, coHistory>>

\* Mutant: a copy is thrown away as a leftover.
FinishCutover_Removes == spansFile' = (IF spansFile = NoTables THEN EmptyTables ELSE spansFile) /\ copyFile' = NoTables

\* finishCutover and the first part of prepareSplit: a finished copy becomes
\* the spans file, another one goes, and a missing file is created.
FinishCutover ==
    /\ spansFile' = IF copyFile.done THEN copyFile ELSE IF spansFile = NoTables THEN EmptyTables ELSE spansFile
    /\ copyFile' = NoTables

\* openLayout of a main without span tables: finishCutover, and the spans file
\* is opened and migrated.
StartSplit ==
    /\ writer = "down" /\ SplitLayout
    /\ FinishCutover
    /\ writer' = "starting"
    /\ UNCHANGED <<mainSpans, mainMigrated, cliOpen, conn, coStops, coHistory>>

\* Migrate, which creates the span tables, empty, in a new main.
MigrateMain ==
    /\ writer = "starting"
    /\ mainSpans' = IF mainMigrated THEN NoTables ELSE EmptyTables
    /\ mainMigrated' = TRUE
    /\ writer' = "preparing"
    /\ UNCHANGED <<copyFile, spansFile, cliOpen, conn, coStops, coHistory>>

\* prepareSplit drops empty tables only.
DropEmptyTables ==
    /\ writer = "preparing" /\ mainSpans.rows = {}
    /\ mainSpans' = NoTables /\ writer' = "split"
    /\ UNCHANGED <<copyFile, spansFile, mainMigrated, cliOpen, conn, coStops, coHistory>>

\* The process stops, at any point.
CoStop ==
    /\ writer # "down" /\ coStops < MaxCoStops
    /\ coStops' = coStops + 1 /\ writer' = "down"
    /\ UNCHANGED <<mainSpans, copyFile, spansFile, mainMigrated, cliOpen, conn, coHistory>>

-----------------------------------------------------------------------------
(* Writes, a CLI command next to the writer, and readers. *)

AddRow(tables) == [tables EXCEPT !.rows = @ \cup {tables.seq + 1}, !.seq = @ + 1]

\* A span is written to the handle of the family.
CoWrite ==
    /\ LET to == IF writer = "split" THEN spansFile ELSE mainSpans
           id == to.seq + 1
       IN /\ writer \in {"single", "split"} /\ id <= CoMaxId
          /\ IF writer = "split" THEN spansFile' = AddRow(spansFile) /\ UNCHANGED mainSpans
                                 ELSE mainSpans' = AddRow(mainSpans) /\ UNCHANGED spansFile
          /\ liveRows' = liveRows \cup {id}
          /\ usedIds' = IF id \in usedIds THEN usedIds \cup {0} ELSE usedIds \cup {id}
    /\ UNCHANGED <<copyFile, mainMigrated, writer, cliOpen, conn, newInstall, coStops, coDeletes>>

\* Retention deletes a row.
CoDelete(i) ==
    /\ writer \in {"single", "split"} /\ i \in liveRows /\ coDeletes < MaxCoDeletes
    /\ coDeletes' = coDeletes + 1 /\ liveRows' = liveRows \ {i}
    /\ IF writer = "split" THEN spansFile' = [spansFile EXCEPT !.rows = @ \ {i}] /\ UNCHANGED mainSpans
                           ELSE mainSpans' = [mainSpans EXCEPT !.rows = @ \ {i}] /\ UNCHANGED spansFile
    /\ UNCHANGED <<copyFile, mainMigrated, writer, cliOpen, conn, newInstall, coStops, usedIds>>

\* A command opens the storage, without CutOver, next to a live writer; it has
\* found main without span tables and a finished copy.
CliFinds ==
    /\ ~cliOpen /\ writer = "dropped" /\ copyFile.done
    /\ cliOpen' = TRUE
    /\ UNCHANGED <<mainSpans, copyFile, spansFile, mainMigrated, writer, conn, coStops, coHistory>>

\* Its rename fails when the writer was first.
CliRenames ==
    /\ cliOpen /\ cliOpen' = FALSE
    /\ IF copyFile = NoTables THEN UNCHANGED <<spansFile, copyFile>>
       ELSE spansFile' = copyFile /\ copyFile' = NoTables
    /\ UNCHANGED <<mainSpans, mainMigrated, writer, conn, coStops, coHistory>>

\* Mutant: the spans file is attached whenever it is there.
SkipAttachment_IfMissing == spansFile = NoTables

\* skipAttachment: the single-file layout, decided per connection.
SkipAttachment == ~SplitLayout

\* OpenReadDB: a connection is opened or recycled; the attach of a missing
\* file fails.
ReaderConnects ==
    /\ conn' = IF SkipAttachment THEN "main" ELSE IF spansFile # NoTables THEN "spans" ELSE "none"
    /\ UNCHANGED <<mainSpans, copyFile, spansFile, mainMigrated, writer, cliOpen, coStops, coHistory>>

CoNext ==
    \/ \E b \in BOOLEAN : StartSingle(b) \/ HasRoom(b)
    \/ CopyRows \/ MarkCopy \/ DropMovedTables \/ CutoverFails \/ CommitCutover
    \/ StartSplit \/ MigrateMain \/ DropEmptyTables \/ CoStop
    \/ CoWrite \/ (\E i \in liveRows : CoDelete(i))
    \/ CliFinds \/ CliRenames \/ ReaderConnects

CoSpec == CoInit /\ [][CoNext]_coVars

-----------------------------------------------------------------------------
(* Properties. *)

Tables(t) ==
    /\ t = [rows |-> t.rows, seq |-> t.seq, done |-> t.done]
    /\ t.rows \subseteq 1..CoMaxId /\ t.seq \in -1..CoMaxId
    /\ t # NoTables => t.seq >= 0

\* The state is well formed.
CoTypeOK ==
    /\ Tables(mainSpans) /\ Tables(copyFile) /\ Tables(spansFile)
    /\ writer \in {"down", "single", "room", "copying", "copied", "dropped", "starting", "preparing", "split"}
    /\ conn \in {"main", "spans", "unlinked", "none"}
    /\ liveRows \subseteq 1..CoMaxId /\ usedIds \subseteq 0..CoMaxId

\* The copy of the rows that the next start goes by.
Authority == IF ~SplitLayout THEN mainSpans.rows
             ELSE IF copyFile.done THEN copyFile.rows ELSE spansFile.rows

\* Whatever step a cut-over stops at, whoever finishes it, and whatever was
\* written between two tries: the copy the next start takes holds exactly the
\* rows that were written and not deleted.
NothingLostInCutover == Authority = liveRows

\* Ids grow across the cut-over, also when main's newest rows were deleted:
\* an id is given out once (code that walks span ids with a watermark).
IdsGivenOnce == 0 \notin usedIds

\* A connection never serves a copy that is not (or not yet) the database: the
\* rows it resolves, in main first and then in the file it attached, are the
\* rows that count.  Only a connection made during a new install's first start
\* can still hold a file that the next start replaced.
ReaderReadsAuthority ==
    CASE conn = "spans" -> (IF SplitLayout THEN spansFile.rows ELSE mainSpans.rows) = liveRows
      [] conn = "main" -> SplitLayout \/ mainSpans.rows = liveRows
      [] conn = "unlinked" -> newInstall
      [] OTHER -> TRUE

\* What each stage of the writer's process knows of the three files.
StageInv ==
    /\ writer \in {"single", "room", "copying", "copied"} => ~SplitLayout
    /\ writer \in {"dropped", "starting", "split"} => SplitLayout
    /\ writer \in {"room", "copying", "copied"} => spansFile = NoTables
    /\ writer = "copying" => copyFile # NoTables /\ ~copyFile.done
    /\ writer = "copied" => copyFile.done /\ copyFile.rows = mainSpans.rows /\ copyFile.seq = mainSpans.seq
    /\ writer \in {"starting", "preparing", "split"} => copyFile = NoTables /\ spansFile # NoTables

\* Once main has been migrated and has no span tables, a copy is a finished one
\* and the spans file is not there yet.  Before, there is nothing at all.
LayoutInv ==
    /\ SplitLayout /\ copyFile # NoTables => copyFile.done /\ spansFile = NoTables
    /\ ~mainMigrated =>
         /\ newInstall /\ SplitLayout /\ copyFile = NoTables /\ spansFile.rows = {}
         /\ writer \in {"down", "starting"} /\ liveRows = {} /\ usedIds = {}
    /\ writer = "preparing" => mainSpans.rows = {} /\ spansFile.rows = liveRows
    /\ cliOpen => SplitLayout /\ mainMigrated

\* The counter of the copy that the next start goes by.
AuthoritySeq == IF ~SplitLayout THEN mainSpans.seq
                ELSE IF copyFile.done THEN copyFile.seq ELSE spansFile.seq

\* No id was given out twice, and the counter is past them all.
IdsInv ==
    /\ IdsGivenOnce
    /\ \A i \in usedIds : i <= AuthoritySeq
    /\ writer = "preparing" => \A i \in usedIds : i <= spansFile.seq

\* A connection that attached the spans file has one, and outlives the layout
\* it saw on a new install only.
ReadersInv ==
    /\ conn = "spans" => spansFile # NoTables /\ (newInstall \/ (SplitLayout /\ mainMigrated))
    /\ conn = "unlinked" => newInstall

\* The cut-over to a spans file of its own is safe at every step it can stop
\* at (cutover.go, layout.go): no row is lost, no id given twice, no reader
\* serves the wrong copy.  The rest is what makes this inductive.
CutoverSound ==
    /\ CoTypeOK
    /\ StageInv
    /\ LayoutInv
    /\ NothingLostInCutover
    /\ IdsInv
    /\ ReadersInv
    /\ ReaderReadsAuthority
=============================================================================
