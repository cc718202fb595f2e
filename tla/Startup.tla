------------------------------ MODULE Startup ------------------------------
(***************************************************************************)
(* The start of the program: config.Load (internal/config/config.go), then *)
(* store.Open with its schema and migrations (internal/store/store.go), on *)
(* a database that an older release, or a start that was cut short, left.  *)
(* Every statement commits by itself.  main exits on any error and the     *)
(* container is started again.                                             *)
(***************************************************************************)
EXTENDS Integers, Sequences

VARIABLES
  phase,    \* where main is: down, or about to do this
  tables,   \* tables of the database, and the unique index of emails
  columns,  \* columns of emails that came after its first release
  step      \* the statement to run next

vars == <<phase, tables, columns, step>>

Schema == <<"domains", "api_keys", "emails", "idx_emails_idem", "delivery_attempts",
            "notify_state", "notify_pending_failures">>
Migrations == <<"from_name", "to_name">>
Listed(s) == {s[i] : i \in DOMAIN s}

\* The environment: required strings and optional numbers.
Required == {"HOSTNAME", "ADMIN_PASSWORD", "ADMIN_EMAIL", "SYSTEM_FROM", "EGRESS_IP"}
Numbers == {"SMTP_PORT", "FAILURE_RATE_MIN_VOLUME", "FAILURE_RATE_THRESHOLD"}
Env == [given: SUBSET Required, number: [Numbers -> {"unset", "number", "junk"}]]
Loads(env) == env.given = Required /\ \A n \in Numbers : env.number[n] # "junk"

\* No database yet, or one of any older release.
Init ==
  /\ phase = "down" /\ step = 1
  /\ \/ tables = {} /\ columns = {}
     \/ tables = Listed(Schema) /\ columns \in {{}, Listed(Migrations)}

Goes(to) == phase' = to /\ step' = 1

Start == phase = "down" /\ Goes("config") /\ UNCHANGED <<tables, columns>>

Load ==
  /\ phase = "config"
  /\ \E env \in Env : Goes(IF Loads(env) THEN "schema" ELSE "down")
  /\ UNCHANGED <<tables, columns>>

\* CREATE TABLE IF NOT EXISTS; a new emails table has every column.
Create ==
  /\ phase = "schema"
  /\ tables' = tables \cup {Schema[step]}
  /\ columns' = IF Schema[step] = "emails" /\ "emails" \notin tables
                THEN Listed(Migrations) ELSE columns
  /\ IF step < Len(Schema) THEN step' = step + 1 /\ UNCHANGED phase ELSE Goes("migrate")

\* ALTER TABLE; the error for a column that is there already is ignored.
MigrateUntilDuplicate ==
  /\ phase = "migrate"
  /\ columns' = columns \cup {Migrations[step]}
  /\ IF step < Len(Migrations) /\ Migrations[step] \notin columns
     THEN step' = step + 1 /\ UNCHANGED phase ELSE Goes("serving")
  /\ UNCHANGED tables
Migrate ==
  /\ phase = "migrate"
  /\ columns' = columns \cup {Migrations[step]}
  /\ IF step < Len(Migrations) THEN step' = step + 1 /\ UNCHANGED phase ELSE Goes("serving")
  /\ UNCHANGED tables

\* A statement fails, the program crashes, or it is stopped.
Stop == phase # "down" /\ Goes("down") /\ UNCHANGED <<tables, columns>>

Next == Start \/ Load \/ Create \/ Migrate \/ Stop

Spec == Init /\ [][Next]_vars

-----------------------------------------------------------------------------
\* Wherever earlier starts were cut short, a program that serves has every table
\* and column: the migrations are idempotent and none is passed over.
SchemaComplete ==
  phase = "serving" => tables = Listed(Schema) /\ columns = Listed(Migrations)
=============================================================================
