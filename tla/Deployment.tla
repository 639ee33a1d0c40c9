----------------------------- MODULE Deployment -----------------------------
(***************************************************************************)
(* What happens to the database and the image directory around the         *)
(* program: migrations (alembic/env.py over the revisions of Migrations),  *)
(* the start of a server (app/services/bootstrap_service.py),              *)
(* scripts/backup.py and scripts/restore.py.                               *)
(*                                                                         *)
(* A migration dies, a backup dies or a file of it is spoiled, a restore   *)
(* dies, the host is lost; backups are taken while servers write.  The     *)
(* operator stops the servers for a migration and for a restore.           *)
(***************************************************************************)
EXTENDS Migrations, FiniteSets

CONSTANTS
    Servers,     \* processes of the server that may start together
    Pictures,    \* generated images
    Targets,     \* bound: revisions that a database is taken back to
    MaxCommands, \* bound: upgrades, downgrades, backups and restores
    MaxFaults    \* bound: deaths, spoiled files, lost hosts

ASSUME DeploymentAssumption ==
    /\ Targets \subseteq 0..HeadRevision
    /\ MaxCommands \in Nat
    /\ MaxFaults \in Nat

VARIABLES
    db,         \* the committed database
    work,       \* the database as the open transaction of a migration sees it
    open,       \* whether there is such a transaction
    migrator,   \* what the alembic process does, or how the last one on this
                \* database ended
    at,         \* the statement it is at
    server,     \* where each server stands
    saved,      \* the files that requests of each have saved, without their row
    files,      \* the image directory
    backup,     \* the backup directory, the copies it has being sequences of one,
                \* and where its process stands
    restore,    \* where the restore stands
    partial,    \* history: the database and the images are not both those of
                \* one backup, as the last restore to change one left them
    target,     \* the revision it is to reach
    torn,       \* history: a downgrade ended before its last statement
    commands, faults

migrating == <<work, open, migrator, at, target, torn>>
serving   == <<server, saved>>
copying   == <<backup, restore, partial>>
vars == <<db, migrating, serving, files, copying, commands, faults>>

-----------------------------------------------------------------------------
NoDatabase ==
    [schema |-> {}, revision |-> 0, products |-> {},
     versions |-> [p \in OldProducts |-> 0], admins |-> 0, images |-> {}]

(* What upgrade r leaves of what it makes, and whether it takes o away. *)
Leaves(r) ==
    {Upgrades[r][k].on : k \in {j \in DOMAIN Upgrades[r] :
        /\ Makes(Upgrades[r][j])
        /\ \A l \in DOMAIN Upgrades[r] :
              l > j => ~Takes(Upgrades[r][l], Upgrades[r][j].on)}}
Loses(r, o) == \E k \in DOMAIN Upgrades[r] : Takes(Upgrades[r][k], o)

(* The database that r upgrades make, without any rows. *)
After == [r \in 0..HeadRevision |->
    [NoDatabase EXCEPT
        !.schema = UNION {{o \in Leaves(i) : \A j \in i + 1..r : ~Loses(j, o)} :
                            i \in 1..r},
        !.revision = r]]

(* Either nothing is deployed yet, or the release before migration 0010,   *)
(* with a user and products.                                               *)
Init ==
    /\ db \in {NoDatabase} \cup
              {[After[9] EXCEPT !.products = ps, !.admins = 1] :
                   ps \in SUBSET OldProducts}
    /\ work = NoDatabase /\ open = FALSE
    /\ migrator = "idle" /\ at = 0 /\ target = 0 /\ torn = FALSE
    /\ server = [s \in Servers |-> "down"]
    /\ saved = [s \in Servers |-> {}]
    /\ files = {}
    /\ backup = [pc |-> "none", db |-> <<>>, zip |-> <<>>,
                 manifest |-> FALSE, spoiled |-> FALSE]
    /\ restore = "idle" /\ partial = FALSE
    /\ commands = 0 /\ faults = 0

AllDown == \A s \in Servers : server[s] = "down"
Running == migrator \in {"up", "down"}

-----------------------------------------------------------------------------
(* alembic upgrade head, alembic downgrade <revision> *)

Command == commands < MaxCommands /\ commands' = commands + 1

StartMigrator(way, to) ==
    /\ Command
    /\ ~Running /\ AllDown /\ restore = "idle"
    /\ backup.pc \in {"none", "done"}
    /\ migrator' = way /\ target' = to /\ at' = 1
    /\ UNCHANGED <<db, work, open, torn, serving, files, copying, faults>>

StartUpgrade == db.revision < HeadRevision /\ StartMigrator("up", HeadRevision)

StartDowngrade(r) == r < db.revision /\ StartMigrator("down", r)

Statements ==
    IF migrator = "up" THEN Upgrades[db.revision + 1] ELSE Downgrades[db.revision]

View == IF open THEN work ELSE db

(* A transaction opens before its first row is written and is committed    *)
(* with the number of the revision.                                        *)
Execute ==
    /\ Running /\ at <= Len(Statements)
    /\ LET s == Statements[at] IN
       /\ ~Fails(s, View)
       /\ open' = (open \/ Opens(s))
       /\ IF open' THEN work' = Done(s, View) /\ UNCHANGED db
                   ELSE db' = Done(s, View) /\ UNCHANGED work
    /\ at' = at + 1
    /\ UNCHANGED <<commands, migrator, target, torn, serving, files, copying, faults>>

Ended(how) == migrator' = how /\ at' = 0 /\ open' = FALSE /\ work' = NoDatabase

StatementFails ==
    /\ Running /\ at <= Len(Statements) /\ Fails(Statements[at], View)
    /\ Ended(IF migrator = "up" THEN "up failed" ELSE "down failed")
    /\ torn' = (torn \/ migrator = "down")
    /\ UNCHANGED <<commands, db, target, serving, files, copying, faults>>

Stamp ==
    /\ Running /\ at > Len(Statements)
    /\ LET r == db.revision + (IF migrator = "up" THEN 1 ELSE -1) IN
       /\ db' = [View EXCEPT !.revision = r]
       /\ IF r = target
          THEN Ended("idle")
          ELSE at' = 1 /\ open' = FALSE /\ work' = NoDatabase /\ UNCHANGED migrator
    /\ UNCHANGED <<commands, target, torn, serving, files, copying, faults>>

MigratorDies ==
    /\ Running /\ faults < MaxFaults
    /\ Ended("idle")
    /\ torn' = (torn \/ migrator = "down")
    /\ faults' = faults + 1
    /\ UNCHANGED <<commands, db, target, serving, files, copying>>

-----------------------------------------------------------------------------
(* The start of a server and the images it makes *)

(* Base.metadata: the tables of app/models *)
ModelTables ==
    {<<t>> : t \in
        {"users", "products", "promotional_images", "scheduled_posts",
         "scheduled_post_executions", "scheduled_post_audits",
         "analytics_events", "outbox_events"}
        \cup ToSet(CaptionTables \o ProductTables \o ContentTables
                   \o ContentVersionTables \o ImageTables \o ImageVersionTables
                   \o SocialTables \o JobTables \o HistoryTables
                   \o TenantTables \o BillingTables \o MessageTables
                   \o InsightTables)}

HasSchema_Somewhat(d) == d.schema # {}    \* mutant: any table will do
HasSchema(d) == ModelTables \subseteq d.schema

Move(s, from, to) == server[s] = from /\ server' = [server EXCEPT ![s] = to]

Start(s) ==
    /\ ~Running /\ restore = "idle"
    /\ HasSchema(db)
    /\ Move(s, "down", "count")
    /\ UNCHANGED <<commands, db, migrating, saved, files, copying, faults>>

CountUsers(s) ==
    /\ Move(s, "count", IF db.admins > 0 THEN "up" ELSE "find")
    /\ UNCHANGED <<commands, db, migrating, saved, files, copying, faults>>

(* create_user looks for the address first; what it raises then is not the *)
(* error that run() expects, and the server does not start.                *)
FindAdmin(s) ==
    /\ Move(s, "find", IF db.admins > 0 THEN "down" ELSE "create")
    /\ UNCHANGED <<commands, db, migrating, saved, files, copying, faults>>

CreateAdmin(s) ==
    /\ Move(s, "create", "up")
    /\ db' = [db EXCEPT !.admins = 1]    \* the address is unique
    /\ UNCHANGED <<commands, migrating, saved, files, copying, faults>>

(* An image: its file, and later its row. *)
SaveFile(s, i) ==
    /\ server[s] = "up" /\ i \notin files /\ i \notin db.images
    /\ files' = files \cup {i}
    /\ saved' = [saved EXCEPT ![s] = @ \cup {i}]
    /\ UNCHANGED <<commands, db, migrating, server, copying, faults>>

CommitImage(s, i) ==
    /\ i \in saved[s]
    /\ db' = [db EXCEPT !.images = @ \cup {i}]
    /\ saved' = [saved EXCEPT ![s] = @ \ {i}]
    /\ UNCHANGED <<commands, migrating, server, files, copying, faults>>

Stop(s) ==
    /\ Move(s, "up", "down")
    /\ saved' = [saved EXCEPT ![s] = {}]
    /\ UNCHANGED <<commands, db, migrating, files, copying, faults>>

-----------------------------------------------------------------------------
(* scripts/backup.py *)

BackupOrder_ImagesFirst ==
    <<"images", "database", "manifest", "done">>    \* mutant: swapped order
BackupOrder == <<"database", "images", "manifest", "done">>

Following(pc) == BackupOrder[1 + CHOOSE k \in 1..3 : BackupOrder[k] = pc]

StartBackup ==
    /\ Command
    /\ backup.pc = "none" /\ ~Running
    /\ backup' = [backup EXCEPT !.pc = BackupOrder[1]]
    /\ UNCHANGED <<db, migrating, serving, files, restore, partial, faults>>

(* What does not exist is not copied.  An empty database may have a file,  *)
(* and an empty directory may be there.                                    *)
Copies(x, empty) == {<<x>>} \cup (IF x = empty THEN {<<>>} ELSE {})

BackupDatabase ==
    /\ backup.pc = "database"
    /\ \E c \in Copies(db, NoDatabase) :
          backup' = [backup EXCEPT !.db = c, !.pc = Following(@)]
    /\ UNCHANGED <<commands, db, migrating, serving, files, restore, partial, faults>>

BackupImages ==
    /\ backup.pc = "images"
    /\ \E c \in Copies(files, {}) :
          backup' = [backup EXCEPT !.zip = c, !.pc = Following(@)]
    /\ UNCHANGED <<commands, db, migrating, serving, files, restore, partial, faults>>

WriteManifest ==
    /\ backup.pc = "manifest"
    /\ backup' = [backup EXCEPT !.manifest = TRUE, !.pc = Following(@)]
    /\ UNCHANGED <<commands, db, migrating, serving, files, restore, partial, faults>>

BackupDies ==
    /\ backup.pc \in {"images", "manifest"} /\ faults < MaxFaults
    /\ backup' = [backup EXCEPT !.pc = "done"]
    /\ faults' = faults + 1
    /\ UNCHANGED <<commands, db, migrating, serving, files, restore, partial>>

(* The archive loses what was in it. *)
SpoilArchive ==
    /\ backup.pc = "done" /\ restore = "idle" /\ backup.zip \notin {<<>>, <<{}>>} /\ faults < MaxFaults
    /\ backup' = [backup EXCEPT !.zip = <<{}>>, !.spoiled = TRUE]
    /\ faults' = faults + 1
    /\ UNCHANGED <<commands, db, migrating, serving, files, restore, partial>>

-----------------------------------------------------------------------------
(* scripts/restore.py *)

(* Checksums are only known with the manifest. *)
Verified(b) == b.manifest => ~b.spoiled

RestoreDatabase ==
    /\ Command
    /\ restore = "idle" /\ ~Running /\ AllDown
    /\ backup.pc = "done"
    /\ db' = IF backup.db = <<>> THEN db ELSE backup.db[1]
    /\ restore' = "images" /\ partial' = (partial \/ backup.db # <<>>)
    /\ migrator' = "idle"
    /\ UNCHANGED <<work, open, at, target, torn, serving, files, backup, faults>>

(* Of a finished backup without an archive the database is all there is.   *)
NothingToUnpack ==
    /\ restore = "images" /\ backup.zip = <<>>
    /\ restore' = "idle"
    /\ partial' = (partial /\ ~(backup.manifest /\ backup.db # <<>>))
    /\ UNCHANGED <<commands, db, migrating, serving, files, backup, faults>>

ChecksumDiffers ==
    /\ restore = "images" /\ backup.zip # <<>> /\ ~Verified(backup)
    /\ restore' = "idle"
    /\ UNCHANGED <<commands, db, migrating, serving, files, backup, partial, faults>>

(* The archive is unpacked beside the directory, which is then removed. *)
RemoveImages ==
    /\ restore = "images" /\ backup.zip # <<>> /\ Verified(backup)
    /\ files' = {}
    /\ restore' = "move" /\ partial' = TRUE
    /\ UNCHANGED <<commands, db, migrating, serving, backup, faults>>

MoveImages ==
    /\ restore = "move"
    /\ files' = backup.zip[1]
    /\ restore' = "idle" 
    /\ partial' = (backup.db = <<>> \/ backup.spoiled)
    /\ UNCHANGED <<commands, db, migrating, serving, backup, faults>>

RestoreDies ==
    /\ restore # "idle" /\ faults < MaxFaults
    /\ restore' = "idle"
    /\ faults' = faults + 1
    /\ UNCHANGED <<commands, db, migrating, serving, files, backup, partial>>

HostLost ==
    /\ faults < MaxFaults
    /\ db' = NoDatabase /\ files' = {}
    /\ Ended("idle") /\ torn' = (torn \/ migrator = "down") /\ UNCHANGED target
    /\ server' = [s \in Servers |-> "down"]
    /\ saved' = [s \in Servers |-> {}]
    /\ backup.pc \in {"none", "done"}
    /\ restore' = "idle" /\ partial' = FALSE
    /\ faults' = faults + 1
    /\ UNCHANGED <<commands, backup>>

-----------------------------------------------------------------------------
Next ==
    \/ StartUpgrade \/ (\E r \in Targets : StartDowngrade(r))
    \/ Execute \/ StatementFails \/ Stamp
    \/ MigratorDies
    \/ \E s \in Servers :
          \/ Start(s) \/ CountUsers(s) \/ FindAdmin(s) \/ CreateAdmin(s) \/ Stop(s)
          \/ \E i \in Pictures : SaveFile(s, i) \/ CommitImage(s, i)
    \/ StartBackup \/ BackupDatabase \/ BackupImages \/ WriteManifest
    \/ BackupDies \/ SpoilArchive
    \/ RestoreDatabase \/ NothingToUnpack \/ ChecksumDiffers \/ RemoveImages \/ MoveImages \/ RestoreDies
    \/ HostLost

Spec == Init /\ [][Next]_vars

-----------------------------------------------------------------------------
(* Properties *)

(* A server that runs sees every table and column of its models.  Only     *)
(* the tables are looked for, so this rests on the order of statements and *)
(* migrations: the columns of a table come before later tables and go      *)
(* after them, however far the migrations were undone and interrupted.     *)
Columns ==
    ToSet(Part(Posts, <<"owner_user_id", "state", "version">>)
          \o Part("products", ProductColumns))

ServerSeesSchema ==
    (\E s \in Servers : server[s] = "up") =>
        ModelTables \cup Columns \subseteq db.schema

(* The revision that a database records is never ahead of its schema,      *)
(* whatever interrupts an upgrade, as long as no downgrade was interrupted:  *)
(* but for the index that migration 0008 does not make again.              *)
RevisionHolds ==
    ~torn /\ migrator # "down" =>
        After[db.revision].schema \ db.schema
            \subseteq {<<Posts, "status", "index">>}

(* The migration of the products can be taken up wherever it was           *)
(* interrupted: it only ever fails on products that the unique columns do  *)
(* not allow side by side.                                                 *)
ProductsResume ==
    migrator = "up failed" /\ db.revision = 9 => Clash(db)

(* However often it was tried, undone and tried again, that migration has  *)
(* given every product one first version.                                  *)
OneFirstVersion ==
    db.revision >= 10 => \A p \in db.products : db.versions[p] = 1

(* Every image row has its file, at whatever point of what the servers     *)
(* write the backup was taken, whatever was lost, and whatever the backup  *)
(* or an archive died or was spoiled of.  Not so after a restore that was  *)
(* killed or stopped by a checksum between database and images; nor after  *)
(* one of a backup that holds no database, which replaces the images and   *)
(* keeps the rows, or a spoiled archive without the manifest to tell it by.*)
ImagesHaveFiles == ~partial => db.images \subseteq files

(* An interrupted "alembic upgrade head" can be run again to its end. *)
UpgradeResumes == migrator = "up failed" => Clash(db)
=============================================================================
