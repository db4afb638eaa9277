------------------------------ MODULE Migrations ------------------------------
(***************************************************************************)
(* How a process brings the database up to date before it uses it:         *)
(* migrate() of db/migrate.ts.  The server runs it when it boots, and so   *)
(* does every command of admin/ and of the seed and backfill, perhaps at   *)
(* the same moment: nothing locks, and the body of a file and the row that *)
(* records it are two statements.  The module has the statements that      *)
(* matter to anybody else; Accounts has the last ones, which plant the     *)
(* first members, and the processes that run them.                         *)
(***************************************************************************)
EXTENDS Naturals, FiniteSets, FiniteSetsExt

CONSTANTS
    Processes,    \* the server, and a command that an operator runs
    Versions,     \* the .sql files that are recorded, in the order of their names
    Rekeys,       \* those of them that fail when they are run again: 005_organizations.sql
    Old,          \* what an older release had applied and recorded
    attempts      \* of each process, at migrate()
ASSUME MigrationAssumption ==
    /\ Versions \subseteq Nat /\ IsFiniteSet(Versions)
    /\ Rekeys \subseteq Versions /\ Old \subseteq Versions
    /\ attempts \in Nat \ {0}

VARIABLES
    schema,               \* the versions whose bodies have been applied
    schema_migrations,    \* the versions that are recorded
    views,                \* the versions that were there when the views were last made
    parked,               \* rows wait in the __unclaimed__ namespace
    organization,         \* the configured organization has its row
    proc                  \* where each process is, at which attempt, and the files it has left

Before == [pc |-> "down", attempt |-> 0, left |-> {}]
databaseVars == <<schema, schema_migrations, views, parked, organization>>

Init ==
    /\ schema = Old /\ schema_migrations = Old
    /\ views = Old
    /\ parked = FALSE
    /\ organization = FALSE
    /\ proc = [p \in Processes |-> Before]

At(p, pc) == proc[p].pc = pc
Goes(p, pc) == proc' = [proc EXCEPT ![p].pc = pc]
Rests(p, pc) == proc' = [proc EXCEPT ![p] = [Before EXCEPT !.pc = pc]]   \* it has no attempts to count

\* The versions of org_id: the rows that were there before it are parked by it.
Parks == Rekeys

\* A process starts: nothing of an earlier one is in memory.
Start(p) ==
    /\ At(p, "down")
    /\ proc' = [proc EXCEPT ![p] = [pc |-> "read", attempt |-> 1, left |-> {}]]
    /\ UNCHANGED databaseVars

\* Makes the ledger, if there is none, and reads it.
ReadLedger(p) ==
    /\ At(p, "read")
    /\ LET left == Versions \ schema_migrations
       IN proc' = [proc EXCEPT ![p].left = left, ![p].pc = IF left = {} THEN "views" ELSE "apply"]
    /\ UNCHANGED databaseVars

SkipsWhatFailed(p) ==   \* seeded bug: the next attempt goes on after the file that failed
    LET left == proc[p].left \ {v \in proc[p].left : At(p, "apply") /\ v = Min(proc[p].left)}
    IN IF proc[p].attempt = attempts THEN Goes(p, "failed")
       ELSE proc' = [proc EXCEPT ![p] = [pc |-> IF left = {} THEN "views" ELSE "apply",
                                         attempt |-> @.attempt + 1, left |-> left]]

\* The attempt of p has failed: the next one starts over, if there is one.
Retry(p) ==
    IF proc[p].attempt = attempts THEN Goes(p, "failed")
    ELSE proc' = [proc EXCEPT ![p] = [pc |-> "read", attempt |-> @.attempt + 1, left |-> {}]]

\* A file is one implicit transaction: it is applied whole, or it fails and nothing of it stays.
ApplyBody(p) ==
    /\ At(p, "apply")
    /\ LET v == Min(proc[p].left)
       IN IF v \in Rekeys \cap schema
          THEN /\ Retry(p)
               /\ UNCHANGED databaseVars
          ELSE /\ schema' = schema \cup {v}
               /\ parked' = (parked \/ (v \in Parks /\ Old # {}))
               /\ Goes(p, "record")
               /\ UNCHANGED <<schema_migrations, views, organization>>

Record(p) ==
    /\ At(p, "record")
    /\ LET v == Min(proc[p].left)
           left == proc[p].left \ {v}
       IN /\ schema_migrations' = schema_migrations \cup {v}
          /\ proc' = [proc EXCEPT ![p].left = left, ![p].pc = IF left = {} THEN "views" ELSE "apply"]
    /\ UNCHANGED <<schema, views, parked, organization>>

\* A repeatable file: last, on every boot, and not recorded.
MakeViews(p) ==
    /\ At(p, "views")
    /\ views' = schema
    /\ Goes(p, "adopt")
    /\ UNCHANGED <<schema, schema_migrations, parked, organization>>

\* Moves what is parked into the configured organization.
AdoptOrg(p) ==
    /\ At(p, "adopt")
    /\ parked' = FALSE
    /\ Goes(p, "seed")
    /\ UNCHANGED <<schema, schema_migrations, views, organization>>

\* Plants the row of the organization, which is never changed after; p goes on to what follows.
SeedOrganization(p, then) ==
    /\ At(p, "seed")
    /\ organization' = TRUE
    /\ IF then = "ready" THEN Rests(p, then) ELSE Goes(p, then)
    /\ UNCHANGED <<schema, schema_migrations, views, parked>>

\* A statement of p fails: the database is away.
Fault(p) ==
    /\ proc[p].pc \notin {"down", "ready", "failed", "ending"}
    /\ Retry(p)
    /\ UNCHANGED databaseVars

\* p runs what migrate() does to the schema.
Migrate(p, then) ==
    \/ ReadLedger(p)
    \/ ApplyBody(p)
    \/ Record(p)
    \/ MakeViews(p)
    \/ AdoptOrg(p)
    \/ SeedOrganization(p, then)

-----------------------------------------------------------------------------
\* Whatever is migrated, a process that has gone through it finds every file applied and recorded,
\* the views made over all of them, and nothing parked: migrate.ts:252-284, whoever else ran it, or
\* died in it, before or at the same time.
Migrated ==
    /\ schema = Versions /\ schema_migrations = Versions
    /\ views = Versions
    /\ ~parked /\ organization
ReadyMeansMigrated == \A p \in Processes : At(p, "ready") => Migrated
=============================================================================
