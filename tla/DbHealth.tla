------------------------------ MODULE DbHealth ------------------------------
(***************************************************************************)
(* sketchlog-db-check (db_hardening.py): the pool advisory, a ping and the *)
(* schema version, each on a connection of its own, while the database may *)
(* go away and come back and a migration may run.  The database is outside *)
(* the program.                                                            *)
(***************************************************************************)
EXTENDS Integers, Sequences, FiniteSets

CONSTANTS
    DHConf,       \* configurations
    DHVersions,   \* the versions migrations install, a sequence
    DHOutages     \* bound: times the database goes down

VARIABLES
    dhDb,         \* [up, table, rows : Seq(Nat)]
    dhDown,       \* outages so far
    dhConf,
    dhPc,
    dhChecks,     \* the statuses collected
    dhEngines,    \* engines not disposed of
    dhExit,
    dhSaw         \* ghost: what the check met, [ping, versions, failed]
dhVars == <<dhDb, dhDown, dhConf, dhPc, dhChecks, dhEngines, dhExit, dhSaw>>

DHNoExit == 9
DHInit ==
    /\ dhDb = [up |-> TRUE, table |-> FALSE, rows |-> <<>>]
    /\ dhDown = 0 /\ dhConf \in DHConf /\ dhPc = "start" /\ dhChecks = {}
    /\ dhEngines = 0 /\ dhExit = DHNoExit
    /\ dhSaw = [ping |-> FALSE, version |-> 0, failed |-> FALSE]

-----------------------------------------------------------------------------
(* A configuration: the driver, the pool, its times in seconds and the     *)
(* version expected; out of range values are refused.                      *)
ValidConfig(c) ==
    /\ c.driver \in {"sqlite", "postgresql", "mysql"}
    /\ c.pool_size \in 1..100 /\ c.max_overflow \in 0..200
    /\ c.pool_timeout \in 1..300 /\ c.pool_recycle \in 60..86400
    /\ c.expected >= 1 /\ c.connect_timeout \in 1..120
advise_pool_config(c) ==
    \/ c.pool_size < 2
    \/ c.pool_size + c.max_overflow > 50
    \/ c.driver = "mysql" /\ c.pool_recycle > 3600
    \/ c.pool_timeout > 60
    \/ c.driver # "sqlite" /\ c.pool_recycle < 300

-----------------------------------------------------------------------------
(* The database.                                                           *)
GoDown == /\ dhDb.up /\ dhDown < DHOutages /\ dhDown' = dhDown + 1
          /\ dhDb' = [dhDb EXCEPT !.up = FALSE]
          /\ UNCHANGED <<dhConf, dhPc, dhChecks, dhEngines, dhExit, dhSaw>>
ComeBack == /\ ~dhDb.up /\ dhDb' = [dhDb EXCEPT !.up = TRUE]
            /\ UNCHANGED <<dhDown, dhConf, dhPc, dhChecks, dhEngines, dhExit, dhSaw>>
Migrate ==
    /\ dhDb.up /\ Len(dhDb.rows) < Len(DHVersions)
    /\ dhDb' = IF dhDb.table
               THEN [dhDb EXCEPT !.rows = Append(@, DHVersions[Len(@) + 1])]
               ELSE [dhDb EXCEPT !.table = TRUE]
    /\ UNCHANGED <<dhDown, dhConf, dhPc, dhChecks, dhEngines, dhExit, dhSaw>>

-----------------------------------------------------------------------------
(* The overall status is the worst of the checks, the code 0 only for PASS.*)
Overall(checks) == IF "fail" \in checks \/ "warn" \in checks THEN 1 ELSE 0
Done(checks) == dhPc' = "done" /\ dhExit' = Overall(checks)

Start ==
    /\ dhPc = "start"
    /\ IF ~ValidConfig(dhConf)
       THEN dhPc' = "done" /\ dhExit' = 2 /\ UNCHANGED dhChecks
       ELSE /\ dhChecks' = {IF advise_pool_config(dhConf) THEN "warn" ELSE "pass"}
            /\ dhPc' = "ping" /\ UNCHANGED dhExit
    /\ UNCHANGED <<dhDb, dhDown, dhConf, dhEngines, dhSaw>>

(* SELECT 1, slow or not.  The engine is disposed of on every path.        *)
OpenEngine(from, to) ==
    /\ dhPc = from /\ dhEngines' = dhEngines + 1 /\ dhPc' = to
    /\ UNCHANGED <<dhDb, dhDown, dhConf, dhChecks, dhExit, dhSaw>>
Ping ==
    /\ dhPc = "pinging"
    /\ dhEngines' = dhEngines - 1
    /\ IF dhDb.up
       THEN /\ \E slow \in BOOLEAN :
                 dhChecks' = dhChecks \cup {"pass", IF slow THEN "warn" ELSE "pass"}
            /\ dhPc' = "schema" /\ UNCHANGED dhExit
            /\ dhSaw' = [dhSaw EXCEPT !.ping = TRUE]
       ELSE /\ dhChecks' = dhChecks \cup {"fail"}
            /\ Done(dhChecks \cup {"fail"})
            /\ dhSaw' = [dhSaw EXCEPT !.failed = TRUE]
    /\ UNCHANGED <<dhDb, dhDown, dhConf>>

(* The end of check_schema_version: its status joins the checks.           *)
SchemaStatus(status, saw) ==
    /\ dhEngines' = dhEngines - 1
    /\ dhChecks' = dhChecks \cup {status}
    /\ Done(dhChecks \cup {status})
    /\ dhSaw' = saw

HasTableLeaks ==    \* returns without disposing of the engine
    /\ dhPc = "inspect"
    /\ IF dhDb.up /\ dhDb.table
       THEN dhPc' = "select" /\ UNCHANGED <<dhEngines, dhChecks, dhExit, dhSaw>>
       ELSE /\ UNCHANGED dhEngines
            /\ dhChecks' = dhChecks \cup {"warn"} /\ Done(dhChecks \cup {"warn"})
            /\ UNCHANGED dhSaw
    /\ UNCHANGED <<dhDb, dhDown, dhConf>>
HasTable ==
    /\ dhPc = "inspect"
    /\ IF ~dhDb.up THEN SchemaStatus("fail", [dhSaw EXCEPT !.failed = TRUE])
       ELSE IF ~dhDb.table THEN SchemaStatus("warn", dhSaw)
       ELSE dhPc' = "select" /\ UNCHANGED <<dhEngines, dhChecks, dhExit, dhSaw>>
    /\ UNCHANGED <<dhDb, dhDown, dhConf>>
SelectVersion ==
    /\ dhPc = "select"
    /\ LET found == IF dhDb.rows = <<>> THEN 0 ELSE dhDb.rows[Len(dhDb.rows)]
       IN IF ~dhDb.up THEN SchemaStatus("fail", [dhSaw EXCEPT !.failed = TRUE])
          ELSE IF dhDb.rows = <<>> THEN SchemaStatus("warn", dhSaw)
          ELSE SchemaStatus(IF found = dhConf.expected THEN "pass"
                            ELSE IF found < dhConf.expected THEN "fail" ELSE "warn",
                            [dhSaw EXCEPT !.version = found])
    /\ UNCHANGED <<dhDb, dhDown, dhConf>>

DHNext == \/ GoDown \/ ComeBack \/ Migrate
          \/ Start \/ OpenEngine("ping", "pinging") \/ Ping
          \/ OpenEngine("schema", "inspect") \/ HasTable \/ SelectVersion

-----------------------------------------------------------------------------
(* Whatever happened to the database between the steps, the check ends     *)
(* with every engine it opened disposed of.                                *)
DHEnginesDisposed == dhPc \in {"start", "done"} => dhEngines = 0

(* Exit code 0 means that the database answered, that nothing failed and   *)
(* that the newest version row was the expected one when it was read; a    *)
(* schema that is behind never passes, and neither does one in the middle  *)
(* of its first migration.                                                 *)
DHPassMeansReady ==
    dhExit = 0 => /\ ValidConfig(dhConf) /\ ~advise_pool_config(dhConf)
                  /\ dhSaw.ping /\ ~dhSaw.failed /\ dhSaw.version = dhConf.expected

(* What the database check promises: a pass means a reachable database of  *)
(* the expected schema, and no engine is left open.                        *)
DHSafe == DHEnginesDisposed /\ DHPassMeansReady

=============================================================================
