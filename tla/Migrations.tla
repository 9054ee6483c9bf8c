------------------------------ MODULE Migrations ------------------------------
(***************************************************************************)
(* The migration runner of packages/db/src/migrate.ts. Every file of the     *)
(* repository holds its own BEGIN and COMMIT, so its objects and its row of  *)
(* _migrations are two commits, with a crash or another runner in between.  *)
(* migrateDown takes one step, its default; a run of several is several      *)
(* runs. migrateReset, which drops a test database, is left out.            *)
(***************************************************************************)
EXTENDS Integers

CONSTANTS
  Runners,      \* processes that run migrateUp or migrateDown, again and again
  N,            \* files, in the order of their names
  Wrapped,      \* files without BEGIN: the runner wraps them
  Repeatable,   \* files that may run twice: 0017 looks for its role first
  Reversible    \* files with a .down.sql

Files == 1 .. N

ASSUME FilesAssumption ==
  /\ N \in Nat
  /\ Wrapped \subseteq Files /\ Repeatable \subseteq Files /\ Reversible \subseteq Files

\* The repository's only .down.sql is that of its last file, 0017.
ASSUME ReversibleAssumption == Reversible \subseteq {N}

VARIABLES
  file,      \* the contents of each file, as its checksum tells them apart
  applied,   \* files whose objects are in the database
  recorded,  \* the checksums of the table _migrations, 0: no row
  runner     \* the runners

migrationVars == <<file, applied, recorded, runner>>

-----------------------------------------------------------------------------
Content == {1, 2}
Checksums == [Files -> Content \cup {0}]

\* known, files: what the runner read when it began.
Runner == [at : {"idle", "up", "record", "down", "unrecord"},
           known : Checksums, files : Checksums, next : 1 .. (N + 1)]
IdleRunner == [at |-> "idle", known |-> [f \in Files |-> 0], files |-> [f \in Files |-> 0],
               next |-> 1]

RunnerBecomes(r, rec) == runner' = [runner EXCEPT ![r] = rec]
RunEnds(r) == RunnerBecomes(r, IdleRunner)
GoesOn(r) == RunnerBecomes(r, [runner[r] EXCEPT !.at = "up", !.next = @ + 1])

\* appliedMigrations and readMigrations.
StartUp(r) ==
  /\ runner[r].at = "idle"
  /\ RunnerBecomes(r, [at |-> "up", known |-> recorded, files |-> file, next |-> 1])
  /\ UNCHANGED <<file, applied, recorded>>

Top(sums) == CHOOSE f \in Files : sums[f] # 0 /\ \A g \in Files : g > f => sums[g] = 0

StartDown(r) ==
  /\ runner[r].at = "idle" /\ \E f \in Files : recorded[f] # 0
  /\ RunnerBecomes(r, [at |-> "down", known |-> recorded, files |-> file, next |-> Top(recorded)])
  /\ UNCHANGED <<file, applied, recorded>>

-----------------------------------------------------------------------------
\* The file of the runner, while there is one.
At(r, f) == runner[r].at = "up" /\ runner[r].next = f /\ f \in Files

\* A known file is passed over; one that has changed since ends the run.
PassKnown(r, f) ==
  /\ At(r, f) /\ runner[r].known[f] # 0
  /\ IF runner[r].known[f] = runner[r].files[f] THEN GoesOn(r) ELSE RunEnds(r)
  /\ UNCHANGED <<file, applied, recorded>>

Exists(f) == f \in applied /\ f \notin Repeatable

\* The file creates its objects and commits; the wrapped one has its row in the
\* same transaction.
ApplyFile(r, f) ==
  /\ At(r, f) /\ runner[r].known[f] = 0 /\ ~Exists(f)
  /\ IF f \in Wrapped
     THEN /\ recorded[f] = 0
          /\ recorded' = [recorded EXCEPT ![f] = runner[r].files[f]]
          /\ GoesOn(r)
     ELSE /\ RunnerBecomes(r, [runner[r] EXCEPT !.at = "record"])
          /\ UNCHANGED recorded
  /\ applied' = applied \cup {f}
  /\ UNCHANGED file

\* Mutant: the error is logged and the next file is tried.
FileFailsAlone(r, f) ==
  /\ At(r, f) /\ runner[r].known[f] = 0
  /\ GoesOn(r)
  /\ UNCHANGED <<file, applied, recorded>>

\* An object exists already, or any other error: nothing of the file stays, and
\* the error ends the run.
FileFails(r, f) ==
  /\ At(r, f) /\ runner[r].known[f] = 0
  /\ RunEnds(r)
  /\ UNCHANGED <<file, applied, recorded>>

\* The row of a file that has committed; its key may be there already.
RecordFile(r) ==
  /\ runner[r].at = "record"
  /\ LET f == runner[r].next
     IN  IF recorded[f] # 0 THEN RunEnds(r) /\ UNCHANGED recorded
         ELSE recorded' = [recorded EXCEPT ![f] = runner[r].files[f]] /\ GoesOn(r)
  /\ UNCHANGED <<file, applied>>

FinishUp(r) ==
  /\ runner[r].at = "up" /\ runner[r].next = N + 1
  /\ RunEnds(r)
  /\ UNCHANGED <<file, applied, recorded>>

\* The .down.sql commits by itself too. Without one, or without the objects it
\* drops, the run ends.
RevertFile(r) ==
  /\ runner[r].at = "down"
  /\ LET f == runner[r].next
     IN  IF f \in Reversible /\ f \in applied
         THEN applied' = applied \ {f} /\ RunnerBecomes(r, [runner[r] EXCEPT !.at = "unrecord"])
         ELSE RunEnds(r) /\ UNCHANGED applied
  /\ UNCHANGED <<file, recorded>>

UnrecordFile(r) ==
  /\ runner[r].at = "unrecord"
  /\ recorded' = [recorded EXCEPT ![runner[r].next] = 0]
  /\ RunEnds(r)
  /\ UNCHANGED <<file, applied>>

\* The process dies, or its connection.
RunnerCrashes(r) ==
  /\ runner[r].at # "idle"
  /\ RunEnds(r)
  /\ UNCHANGED <<file, applied, recorded>>

\* Somebody edits a file.
EditFile(f) ==
  /\ file[f] = 1
  /\ file' = [file EXCEPT ![f] = 2]
  /\ UNCHANGED <<applied, recorded, runner>>

MigrationsInit ==
  /\ file = [f \in Files |-> 1]
  /\ applied = {} /\ recorded = [f \in Files |-> 0]
  /\ runner = [r \in Runners |-> IdleRunner]

Migrate(r) ==
  \/ StartUp(r) \/ StartDown(r)
  \/ \E f \in Files : PassKnown(r, f) \/ ApplyFile(r, f) \/ FileFails(r, f)
  \/ RecordFile(r) \/ FinishUp(r) \/ RevertFile(r) \/ UnrecordFile(r)
  \/ RunnerCrashes(r)

MigrationsNext == (\E r \in Runners : Migrate(r)) \/ (\E f \in Files : EditFile(f))

MigrationsSpec == MigrationsInit /\ [][MigrationsNext]_migrationVars

-----------------------------------------------------------------------------
MigrationsTypeOK ==
  /\ file \in [Files -> Content] /\ applied \subseteq Files
  /\ recorded \in Checksums /\ runner \in [Runners -> Runner]

Recorded == {f \in Files : recorded[f] # 0}
IsPrefix(set) == \A f \in set : 1 .. f \subseteq set

\* Whatever crashes and however many runners there are, the database holds the
\* objects of the first files, the table the rows of the first files, and they
\* differ by the last of them at most: a file is never applied over a hole
\* (migrate.ts:101).
MigrationsOrderly ==
  /\ IsPrefix(applied) /\ IsPrefix(Recorded)
  /\ \E k \in Files \cup {0} : {applied, Recorded} \subseteq {1 .. k, 1 .. (k + 1)}
=============================================================================
