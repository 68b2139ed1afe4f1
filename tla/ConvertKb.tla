------------------------------ MODULE ConvertKb -----------------------------
(***************************************************************************)
(* scripts/convert_kb.py: an FAQ dump of the backend becomes the import    *)
(* file of the knowledge base, or the file is checked as it is.  Of a      *)
(* field it counts whether it is there (an empty one is not; it is "none") *)
(* and, for ids, which.                                                    *)
(***************************************************************************)
EXTENDS Naturals, Sequences

CONSTANTS Dumps,        \* sequences of records: item (it has title, body and type),
                        \* raw (its id), type, visibility, and the sets of its fields
          Prefixed      \* raw id -> the id with the prefix "faq_"

REQUIRED == {"id", "type", "visibility", "title", "body", "updated_at"}
TYPES == {"faq", "doc"}
VISIBILITIES == {"public", "internal"}

Records == [item : BOOLEAN, raw : STRING, type : STRING, visibility : STRING,
            has : SUBSET REQUIRED]

ASSUME ConvertAssumption == Dumps \subseteq Seq(Records)

VARIABLE job    \* pc; check (--check); the records; the items; at, the place in hand;
                \* seen and failed (there are errors) of validate; exit, the exit
                \* code; written, the output file if there is one

NoJob == [pc |-> "idle", check |-> FALSE, records |-> << >>, items |-> << >>, at |-> 1,
          seen |-> {}, failed |-> FALSE, exit |-> 0, written |-> {}]
ConvertInit == job = NoJob
ConvertIdle == job.pc = "idle"

\* main: the dump is read, and with --check taken as it is.
ReadDump ==
    /\ job.pc = "idle"
    /\ \E records \in Dumps, check \in BOOLEAN :
          job' = [NoJob EXCEPT !.pc = IF check THEN "validate" ELSE "convert",
                    !.check = check, !.records = records,
                    !.items = IF check THEN records ELSE << >>]

\* convert_record: an import item passes through.  The visibility of a record that
\* names none is "public", and the time is now when it has none; an id that is
\* missing becomes the bare prefix.
Converted(r) ==
    IF r.item THEN r
    ELSE [r EXCEPT !.item = TRUE, !.raw = Prefixed[r.raw], !.type = "faq",
                   !.visibility = IF r.visibility = "none" THEN "public" ELSE r.visibility,
                   !.has = (r.has \cap {"title", "body"})
                             \cup {"id", "type", "visibility", "updated_at"}]

ConvertRecord ==
    /\ job.pc = "convert"
    /\ IF job.at > Len(job.records)
         THEN job' = [job EXCEPT !.pc = "validate", !.at = 1]
         ELSE job' = [job EXCEPT !.items = Append(@, Converted(job.records[job.at])),
                                 !.at = @ + 1]

\* The name of an item in the errors: its id, or its place.
RefOf(item, i) == IF "id" \in item.has THEN <<"id", item.raw>> ELSE <<"place", i>>

Wrong(item) == \/ ~(REQUIRED \subseteq item.has)
               \/ item.type \notin TYPES
               \/ item.visibility \notin VISIBILITIES

\* A slip: an id is compared with that of the item before it.
Seen_Last(item, i) == {RefOf(item, i)}
Seen(item, i) == job.seen \cup {RefOf(item, i)}

\* validate, one item after the other.
ValidateItem ==
    /\ job.pc = "validate"
    /\ IF job.at > Len(job.items) THEN job' = [job EXCEPT !.pc = "report"]
       ELSE LET item == job.items[job.at] IN
            job' = [job EXCEPT !.at = @ + 1, !.seen = Seen(item, job.at),
                               !.failed = @ \/ Wrong(item) \/ RefOf(item, job.at) \in job.seen]

\* The rest of main: with an error nothing is written.
Output == /\ job.pc = "report"
          /\ \E output \in BOOLEAN :
                job' = [job EXCEPT !.pc = "done",
                          !.exit = IF job.failed THEN 1 ELSE 0,
                          !.written = IF output /\ ~job.failed /\ ~job.check THEN {job.items}
                                                                              ELSE {}]

Ends == job.pc = "done" /\ job' = NoJob

ConvertNext == ReadDump \/ ConvertRecord \/ ValidateItem \/ Output \/ Ends

-----------------------------------------------------------------------------
(* Properties *)

\* What is written is one importable item for each record, in their order, no two
\* of them under one id: nothing is overwritten when it is imported.  A file that
\* passes --check is such a file, and --check writes nothing (convert_kb.py:56).
WrittenIsImportable ==
    LET Importable(items) ==
            /\ \A i \in DOMAIN items : ~Wrong(items[i])
            /\ \A i, j \in DOMAIN items : items[i].raw = items[j].raw => i = j
    IN  job.pc = "done" =>
          /\ \A items \in job.written :
                /\ Importable(items) /\ ~job.check
                /\ Len(items) = Len(job.records)
                /\ \A i \in DOMAIN items : items[i].raw \in {job.records[i].raw,
                                                             Prefixed[job.records[i].raw]}
          /\ job.check => (job.exit = 0 <=> Importable(job.records))
=============================================================================
