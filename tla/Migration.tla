------------------------------ MODULE Migration -----------------------------
(***************************************************************************)
(* migrations/versions/0001_initial_schema.py run by migrations/env.py, one *)
(* statement per step and all of them in one transaction, beside the        *)
(* metadata of app/db/models.py.  Of a table it counts what it references   *)
(* and the constraints on it; columns are left out.                         *)
(***************************************************************************)
EXTENDS Naturals, Sequences

CONSTANT MaxMigrations      \* bound of the model: runs of alembic

VARIABLE migration  \* pc, script (what is left to run), to (the version it leads to),
                    \* db (committed) and work (in the transaction), runs, refused

VISIBILITIES_DB == {"public", "internal"}
DOC_TYPES == {"faq", "doc", "internal"}
MODES == {"draft", "auto"}
REQUEST_STATUSES == {"running", "completed", "failed", "cancelled", "handoff"}
VERDICTS == {"accepted", "edited", "rejected", "correct", "wrong", "dangerous"}

Unique(columns) == [kind |-> "unique", columns |-> columns, values |-> {}]
Check(column, values) == [kind |-> "check", columns |-> {column}, values |-> values]
Key(column, table) == [kind |-> "references", columns |-> {column}, values |-> {table}]

Table(name, constraints) == [name |-> name, constraints |-> constraints]
Index(name, table) == [name |-> name, table |-> table]

\* Base.metadata of models.py, from which an autogenerated migration would start.
METADATA ==
    [tables |->
       {Table("kb_documents", {Check("visibility", VISIBILITIES_DB), Check("type", DOC_TYPES)}),
        Table("kb_chunks", {Key("document_id", "kb_documents"), Check("visibility", VISIBILITIES_DB),
                            Unique({"document_id", "position"})}),
        Table("kb_gaps", {Unique({"query_norm"})}),
        Table("ai_requests", {Check("mode", MODES), Check("status", REQUEST_STATUSES)}),
        Table("reply_keys", {Unique({"conversation_id", "trigger_message_id"})}),
        Table("ai_feedback", {Key("request_id", "ai_requests"), Check("verdict", VERDICTS)}),
        Table("settings", {}),
        Table("usage_daily", {Unique({"day", "route", "model"})})},
     indexes |->
       {Index("ix_kb_documents_visibility", "kb_documents"),
        Index("ix_kb_chunks_visibility", "kb_chunks"),
        Index("ix_ai_requests_created_at", "ai_requests"),
        Index("ix_ai_requests_conversation", "ai_requests"),
        Index("ix_ai_requests_shadow_status", "ai_requests"),
        Index("ix_ai_feedback_request", "ai_feedback")}]

-----------------------------------------------------------------------------
(* Statements, and what PostgreSQL does with them *)

Statement(op, what) == [op |-> op, what |-> what]

Create(name, constraints) == Statement("create_table", Table(name, constraints))
CreateIndex(name, table) == Statement("create_index", Index(name, table))
DropIndex(name, table) == Statement("drop_index", Index(name, table))
Drop(name) == Statement("drop_table", name)

Names(db) == {t.name : t \in db.tables}
References(t) == UNION {c.values : c \in {d \in t.constraints : d.kind = "references"}}

Accepted(db, s) ==
    CASE s.op = "create_table" -> /\ s.what.name \notin Names(db)
                                  /\ References(s.what) \subseteq Names(db)
                                  /\ s.what.name = "kb_chunks" => db.extension
      [] s.op = "create_index" -> s.what.table \in Names(db) /\ s.what \notin db.indexes
      [] s.op = "drop_index" -> s.what \in db.indexes
      [] s.op = "drop_table" -> /\ s.what \in Names(db)
                                /\ \A t \in db.tables : s.what \notin References(t)
      [] s.op = "seed" -> "settings" \in Names(db)
      [] OTHER -> TRUE

Executed(db, s) ==
    CASE s.op = "extension" -> [db EXCEPT !.extension = TRUE]
      [] s.op = "create_table" -> [db EXCEPT !.tables = @ \cup {s.what}]
      [] s.op = "create_index" -> [db EXCEPT !.indexes = @ \cup {s.what}]
      [] s.op = "drop_index" -> [db EXCEPT !.indexes = @ \ {s.what}]
      [] s.op = "drop_table" -> [db EXCEPT !.tables = {t \in @ : t.name # s.what},
                                           !.indexes = {i \in @ : i.table # s.what},
                                           !.auto_mode = IF s.what = "settings" THEN "none" ELSE @]
      [] s.op = "seed" -> [db EXCEPT !.auto_mode = s.what]

-----------------------------------------------------------------------------
(* The scripts *)

HNSW == Index("ix_kb_chunks_embedding", "kb_chunks")

UPGRADE == <<
    Statement("extension", "vector"),
    Create("kb_documents", {Check("visibility", {"public", "internal"}),
                            Check("type", {"faq", "doc", "internal"})}),
    CreateIndex("ix_kb_documents_visibility", "kb_documents"),
    Create("kb_chunks", {Key("document_id", "kb_documents"), Unique({"document_id", "position"}),
                         Check("visibility", {"public", "internal"})}),
    CreateIndex("ix_kb_chunks_visibility", "kb_chunks"),
    Statement("create_index", HNSW),
    Create("kb_gaps", {Unique({"query_norm"})}),
    Create("ai_requests", {Check("mode", {"draft", "auto"}),
                           Check("status", {"running", "completed", "failed", "cancelled",
                                            "handoff"})}),
    CreateIndex("ix_ai_requests_created_at", "ai_requests"),
    CreateIndex("ix_ai_requests_conversation", "ai_requests"),
    CreateIndex("ix_ai_requests_shadow_status", "ai_requests"),
    Create("reply_keys", {Unique({"conversation_id", "trigger_message_id"})}),
    Create("ai_feedback", {Key("request_id", "ai_requests"),
                           Check("verdict", {"accepted", "edited", "rejected", "correct",
                                             "wrong", "dangerous"})}),
    CreateIndex("ix_ai_feedback_request", "ai_feedback"),
    Create("settings", {}),
    Statement("seed", "shadow"),
    Create("usage_daily", {Unique({"day", "route", "model"})}) >>

DOWNGRADE_TAIL == <<
    Drop("kb_gaps"), Statement("drop_index", HNSW),
    DropIndex("ix_kb_chunks_visibility", "kb_chunks"), Drop("kb_chunks"),
    DropIndex("ix_kb_documents_visibility", "kb_documents"), Drop("kb_documents") >>

\* A slip: the requests are dropped before the feedback that refers to them.
DOWNGRADE_RequestsFirst == <<Drop("usage_daily"), Drop("settings"), Drop("reply_keys"),
    Drop("ai_requests"), Drop("ai_feedback")>> \o DOWNGRADE_TAIL
DOWNGRADE == <<
    Drop("usage_daily"), Drop("settings"),
    DropIndex("ix_ai_feedback_request", "ai_feedback"), Drop("ai_feedback"), Drop("reply_keys"),
    DropIndex("ix_ai_requests_shadow_status", "ai_requests"),
    DropIndex("ix_ai_requests_conversation", "ai_requests"),
    DropIndex("ix_ai_requests_created_at", "ai_requests"), Drop("ai_requests") >>
    \o DOWNGRADE_TAIL

-----------------------------------------------------------------------------
(* env.py *)

EmptyDb == [extension |-> FALSE, tables |-> {}, indexes |-> {}, auto_mode |-> "none",
            version |-> "none"]

NoMigration == [pc |-> "idle", script |-> << >>, to |-> "none", db |-> EmptyDb, work |-> EmptyDb,
                runs |-> 0, refused |-> FALSE]
MigrationInit == migration = NoMigration
MigrationIdle == migration = NoMigration

Begin(script, from, to) ==
    /\ migration.pc = "idle" /\ migration.runs < MaxMigrations /\ migration.db.version = from
    /\ migration' = [migration EXCEPT !.pc = "running", !.script = script, !.to = to,
                       !.work = migration.db, !.runs = @ + 1]

Upgrade == Begin(UPGRADE, "none", "0001")
Downgrade == Begin(DOWNGRADE, "0001", "none")

Execute ==
    /\ migration.pc = "running" /\ migration.script # << >>
    /\ LET s == Head(migration.script) IN
       migration' = IF Accepted(migration.work, s)
                      THEN [migration EXCEPT !.work = Executed(@, s), !.script = Tail(@)]
                      ELSE [migration EXCEPT !.pc = "idle", !.script = << >>, !.work = EmptyDb,
                                             !.refused = TRUE]

\* The version is written in the same transaction.
Commit ==
    /\ migration.pc = "running" /\ migration.script = << >>
    /\ migration' = [migration EXCEPT !.pc = "idle", !.work = EmptyDb,
                       !.db = [migration.work EXCEPT !.version = migration.to]]

\* The process or the connection is lost: PostgreSQL rolls the statements back.
Lost == /\ migration.pc = "running"
        /\ migration' = [migration EXCEPT !.pc = "idle", !.script = << >>, !.work = EmptyDb]

\* Another database.
Anew == migration.pc = "idle" /\ migration.runs = MaxMigrations /\ migration' = NoMigration

MigrationNext == Upgrade \/ Downgrade \/ Execute \/ Commit \/ Lost \/ Anew

-----------------------------------------------------------------------------
(* Properties *)

\* A database of version 0001 has the tables, constraints and indexes of the models
\* and the vector index (without which search falls back to a sequential scan), and
\* auto_mode is "shadow"; one of no version has none of them; whatever was upgraded,
\* downgraded or broken off before, no statement is refused (tests/test_db.py:57).
SchemaOfVersion ==
    LET db == migration.db IN
    /\ ~migration.refused
    /\ IF db.version = "0001"
         THEN /\ db.extension /\ db.tables = METADATA.tables
              /\ db.indexes = METADATA.indexes \cup {HNSW} /\ db.auto_mode = "shadow"
         ELSE db.tables = {} /\ db.indexes = {} /\ db.auto_mode = "none"
=============================================================================
