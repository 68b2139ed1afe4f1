---------------------------- MODULE OfflineProofs ----------------------------
(***************************************************************************)
(* Proofs about the scripts, the allow-list of hosts, normalize.py and the *)
(* migration: for every dump, every provider, every list of hosts, every   *)
(* text and any number of migrations.                                      *)
(***************************************************************************)
EXTENDS HtmlProofs

-----------------------------------------------------------------------------
(* convert_kb.py: the inductive invariant                                  *)

Items == Records \cup {Converted(r) : r \in Records}
Refs == {RefOf(item, i) : item \in Items, i \in Nat}

\* The types of main's variables.
Jobs == [pc : {"idle", "convert", "validate", "report", "done"}, check : BOOLEAN,
         records : Seq(Records), items : Seq(Items), at : Nat, seen : SUBSET Refs,
         failed : BOOLEAN, exit : {0, 1}, written : SUBSET Seq(Items)]

\* What validate finds with the item at place i: it is wrong, or named before.
Bad(items, i) ==
    \/ Wrong(items[i])
    \/ \E k \in 1..(i - 1) : RefOf(items[k], k) = RefOf(items[i], i)

\* The items are made of the records, one by one and in their order.
MadeOf(j) ==
    /\ Len(j.items) <= Len(j.records)
    /\ j.pc \in {"validate", "report", "done"} => Len(j.items) = Len(j.records)
    /\ \A i \in DOMAIN j.items :
          j.items[i] = IF j.check THEN j.records[i] ELSE Converted(j.records[i])

Converting(j) ==
    j.pc = "convert" => /\ j.check = FALSE /\ j.at = Len(j.items) + 1
                        /\ j.seen = {} /\ j.failed = FALSE

\* Up to the place in hand, what validate has seen and found.
Validating(j) ==
    j.pc = "validate" =>
        /\ j.at \in 1..(Len(j.items) + 1)
        /\ j.seen = {RefOf(j.items[k], k) : k \in 1..(j.at - 1)}
        /\ j.failed = TRUE <=> \E i \in 1..(j.at - 1) : Bad(j.items, i)

\* What it has found in all of them decides the exit code and the file.
Judged(j) ==
    /\ j.pc \in {"report", "done"} =>
          (j.failed = TRUE <=> \E i \in DOMAIN j.items : Bad(j.items, i))
    /\ j.pc = "done" =>
          /\ j.exit = IF j.failed = TRUE THEN 1 ELSE 0
          /\ \A items \in j.written : items = j.items /\ j.failed = FALSE /\ j.check = FALSE

JobOK(j) == j \in Jobs /\ MadeOf(j) /\ Converting(j) /\ Validating(j) /\ Judged(j)
ConvertInv == JobOK(job)

-----------------------------------------------------------------------------
(* convert_kb.py: the steps                                                *)

LEMMA NoJobOK == JobOK(NoJob)
<1>1. NoJob \in Jobs
  BY DEF NoJob, Jobs
<1>2. NoJob.pc = "idle" /\ NoJob.items = << >> /\ NoJob.records = << >>
  BY DEF NoJob
<1> QED
  BY <1>1, <1>2 DEF JobOK, MadeOf, Converting, Validating, Judged

LEMMA ReadDumpOK ==
    ASSUME JobOK(job), ReadDump
    PROVE  JobOK(job')
<1>1. PICK records \in Dumps, check \in BOOLEAN :
          job' = [NoJob EXCEPT !.pc = IF check THEN "validate" ELSE "convert",
                    !.check = check, !.records = records,
                    !.items = IF check THEN records ELSE << >>]
  BY DEF ReadDump
<1>2. records \in Seq(Records) /\ records \in Seq(Items) /\ << >> \in Seq(Items)
  <2>1. records \in Seq(Records)
    BY ConvertAssumption
  <2>2. Records \subseteq Items
    BY DEF Items
  <2> QED
    BY <2>1, <2>2
<1>3. CASE check
  <2>1. job' = [NoJob EXCEPT !.pc = "validate", !.check = TRUE, !.records = records,
                             !.items = records]
    BY <1>1, <1>3
  <2>2. /\ job'.pc = "validate" /\ job'.check = TRUE /\ job'.records = records
        /\ job'.items = records /\ job'.at = 1 /\ job'.seen = {} /\ job'.failed = FALSE
    BY <2>1 DEF NoJob
  <2>3. job' \in Jobs
    BY <1>2, <2>1 DEF NoJob, Jobs
  <2>4. MadeOf(job')
    BY <1>2, <2>2 DEF MadeOf
  <2>5. Validating(job')
    <3>1. 1 \in 1..(Len(records) + 1) /\ 1..(1 - 1) = {}
      BY <1>2
    <3> QED
      BY <2>2, <3>1 DEF Validating
  <2> QED
    BY <2>2, <2>3, <2>4, <2>5 DEF JobOK, Converting, Judged
<1>4. CASE ~check
  <2>1. job' = [NoJob EXCEPT !.pc = "convert", !.check = FALSE, !.records = records,
                             !.items = << >>]
    BY <1>1, <1>4
  <2>2. /\ job'.pc = "convert" /\ job'.check = FALSE /\ job'.records = records
        /\ job'.items = << >> /\ job'.at = 1 /\ job'.seen = {} /\ job'.failed = FALSE
    BY <2>1 DEF NoJob
  <2>3. job' \in Jobs
    BY <1>2, <2>1 DEF NoJob, Jobs
  <2>4. MadeOf(job')
    BY <1>2, <2>2 DEF MadeOf
  <2> QED
    BY <2>2, <2>3, <2>4 DEF JobOK, Converting, Validating, Judged
<1> QED
  BY <1>3, <1>4

LEMMA ConvertRecordOK ==
    ASSUME JobOK(job), ConvertRecord
    PROVE  JobOK(job')
<1>1. /\ job \in Jobs /\ job.pc = "convert" /\ job.check = FALSE /\ job.at = Len(job.items) + 1
      /\ job.seen = {} /\ job.failed = FALSE
      /\ job.records \in Seq(Records) /\ job.items \in Seq(Items)
  BY DEF JobOK, Converting, ConvertRecord, Jobs
<1>2. /\ Len(job.items) <= Len(job.records)
      /\ \A i \in DOMAIN job.items : job.items[i] = Converted(job.records[i])
  BY <1>1 DEF JobOK, MadeOf
<1>3. CASE job.at > Len(job.records)
  <2>1. job' = [job EXCEPT !.pc = "validate", !.at = 1]
    BY <1>3 DEF ConvertRecord
  <2>2. /\ job'.pc = "validate" /\ job'.check = FALSE /\ job'.records = job.records
        /\ job'.items = job.items /\ job'.at = 1 /\ job'.seen = {} /\ job'.failed = FALSE
    BY <1>1, <2>1 DEF Jobs
  <2>3. job' \in Jobs
    BY <1>1, <2>1 DEF Jobs
  <2>4. Len(job.items) = Len(job.records)
    BY <1>1, <1>2, <1>3
  <2>5. MadeOf(job')
    BY <1>1, <1>2, <2>2, <2>4 DEF MadeOf
  <2>6. Validating(job')
    <3>1. 1 \in 1..(Len(job.items) + 1) /\ 1..(1 - 1) = {}
      BY <1>1
    <3> QED
      BY <2>2, <3>1 DEF Validating
  <2> QED
    BY <2>2, <2>3, <2>5, <2>6 DEF JobOK, Converting, Judged
<1>4. CASE ~(job.at > Len(job.records))
  <2> DEFINE item == Converted(job.records[job.at])
  <2>1. job' = [job EXCEPT !.items = Append(@, item), !.at = @ + 1]
    BY <1>4 DEF ConvertRecord
  <2>2. item \in Items /\ job.at \in Nat
    <3>1. job.records[job.at] \in Records /\ job.at \in Nat
      BY <1>1, <1>4
    <3> QED
      BY <3>1 DEF Items
  <2> HIDE DEF item
  <2>3. /\ job'.pc = "convert" /\ job'.check = FALSE /\ job'.records = job.records
        /\ job'.items = Append(job.items, item) /\ job'.at = job.at + 1
        /\ job'.seen = {} /\ job'.failed = FALSE
    BY <1>1, <2>1 DEF Jobs
  <2>4. job' \in Jobs
    <3>1. Append(job.items, item) \in Seq(Items) /\ job.at + 1 \in Nat
      BY <1>1, <2>2
    <3> QED
      BY <1>1, <2>1, <3>1 DEF Jobs
  <2>5. Len(job'.items) = Len(job.items) + 1 /\ Len(job'.items) <= Len(job'.records)
    BY <1>1, <1>4, <2>2, <2>3
  <2>6. ASSUME NEW i \in DOMAIN job'.items
        PROVE  job'.items[i] = Converted(job'.records[i])
    <3>1. CASE i = Len(job.items) + 1
      <4>1. job'.items[i] = item
        BY <1>1, <2>3, <3>1
      <4> QED
        BY <1>1, <2>3, <3>1, <4>1 DEF item
    <3>2. CASE i # Len(job.items) + 1
      <4>1. i \in DOMAIN job.items /\ job'.items[i] = job.items[i]
        BY <1>1, <2>2, <2>3, <3>2
      <4> QED
        BY <1>2, <2>3, <4>1
    <3> QED
      BY <3>1, <3>2
  <2>7. MadeOf(job')
    BY <2>3, <2>5, <2>6 DEF MadeOf
  <2>8. Converting(job')
    BY <1>1, <2>3, <2>5 DEF Converting
  <2> QED
    BY <2>3, <2>4, <2>7, <2>8 DEF JobOK, Validating, Judged
<1> QED
  BY <1>3, <1>4

LEMMA ValidateItemOK ==
    ASSUME JobOK(job), ValidateItem
    PROVE  JobOK(job')
<1>1. /\ job \in Jobs /\ job.pc = "validate" /\ job.at \in 1..(Len(job.items) + 1)
      /\ job.items \in Seq(Items) /\ job.records \in Seq(Records) /\ job.at \in Nat
      /\ job.seen = {RefOf(job.items[k], k) : k \in 1..(job.at - 1)}
      /\ job.failed = TRUE <=> \E i \in 1..(job.at - 1) : Bad(job.items, i)
  BY DEF JobOK, Validating, ValidateItem, Jobs
<1>2. CASE job.at > Len(job.items)
  <2>1. job' = [job EXCEPT !.pc = "report"]
    BY <1>2 DEF ValidateItem
  <2>2. /\ job'.pc = "report" /\ job'.check = job.check /\ job'.records = job.records
        /\ job'.items = job.items /\ job'.failed = job.failed
    BY <1>1, <2>1 DEF Jobs
  <2>3. job' \in Jobs
    BY <1>1, <2>1 DEF Jobs
  <2>4. 1..(job.at - 1) = DOMAIN job.items
    BY <1>1, <1>2
  <2>5. MadeOf(job')
    BY <1>1, <2>2 DEF JobOK, MadeOf
  <2>6. Judged(job')
    BY <1>1, <2>2, <2>4 DEF Judged
  <2> QED
    BY <2>2, <2>3, <2>5, <2>6 DEF JobOK, Converting, Validating
<1>3. CASE ~(job.at > Len(job.items))
  <2> DEFINE at == job.at
             item == job.items[at]
             ref == RefOf(item, at)
             failed == (job.failed \/ Wrong(item) \/ ref \in job.seen)
  <2>1. job' = [job EXCEPT !.at = at + 1, !.seen = job.seen \cup {ref}, !.failed = failed]
    BY <1>3 DEF ValidateItem, Seen
  <2>2. item \in Items /\ at \in 1..Len(job.items) /\ ref \in Refs
    <3>1. at \in 1..Len(job.items) /\ at \in Nat
      BY <1>1, <1>3
    <3>2. item \in Items
      BY <1>1, <3>1
    <3> QED
      BY <3>1, <3>2 DEF Refs
  <2>3. failed \in BOOLEAN
    BY <1>1 DEF Jobs
  <2>4. failed = TRUE <=> job.failed = TRUE \/ Bad(job.items, at)
    <3>1. ref \in job.seen <=> \E k \in 1..(at - 1) : RefOf(job.items[k], k) = ref
      BY <1>1
    <3>2. job.failed \in BOOLEAN
      BY <1>1 DEF Jobs
    <3> QED
      BY <3>1, <3>2 DEF Bad
  <2>5. job.seen \cup {ref} = {RefOf(job.items[k], k) : k \in 1..at}
    <3>1. 1..at = 1..(at - 1) \cup {at}
      BY <2>2
    <3> QED
      BY <1>1, <3>1
  <2> HIDE DEF failed, ref, item
  <2>6. /\ job'.pc = "validate" /\ job'.check = job.check /\ job'.records = job.records
        /\ job'.items = job.items /\ job'.at = at + 1 /\ job'.failed = failed
        /\ job'.seen = job.seen \cup {ref}
    BY <1>1, <2>1 DEF Jobs
  <2>7. job' \in Jobs
    <3>1. job.seen \cup {ref} \in SUBSET Refs /\ at + 1 \in Nat
      BY <1>1, <2>2 DEF Jobs
    <3> QED
      BY <1>1, <2>1, <2>3, <3>1 DEF Jobs
  <2>8. MadeOf(job')
    BY <1>1, <2>6 DEF JobOK, MadeOf
  <2>9. Validating(job')
    <3>1. at + 1 \in 1..(Len(job.items) + 1) /\ (at + 1) - 1 = at
      BY <2>2
    <3>2. 1..at = 1..(at - 1) \cup {at}
      BY <2>2
    <3>3. failed = TRUE <=> \E i \in 1..at : Bad(job.items, i)
      BY <1>1, <2>4, <3>2
    <3> HIDE DEF at
    <3> QED
      BY <2>5, <2>6, <3>1, <3>3 DEF Validating
  <2> QED
    BY <2>6, <2>7, <2>8, <2>9 DEF JobOK, Converting, Judged
<1> QED
  BY <1>2, <1>3

LEMMA OutputOK ==
    ASSUME JobOK(job), Output
    PROVE  JobOK(job')
<1>1. PICK output \in BOOLEAN :
          job' = [job EXCEPT !.pc = "done",
                    !.exit = IF job.failed THEN 1 ELSE 0,
                    !.written = IF output /\ ~job.failed /\ ~job.check THEN {job.items} ELSE {}]
  BY DEF Output
<1> DEFINE exit == IF job.failed THEN 1 ELSE 0
           written == IF output /\ ~job.failed /\ ~job.check THEN {job.items} ELSE {}
<1>2. /\ job \in Jobs /\ job.pc = "report" /\ job.items \in Seq(Items)
      /\ job.failed \in BOOLEAN /\ job.check \in BOOLEAN
  BY DEF JobOK, Jobs, Output
<1>3. exit = (IF job.failed = TRUE THEN 1 ELSE 0) /\ exit \in {0, 1}
  BY <1>2
<1>4. \A items \in written : items = job.items /\ job.failed = FALSE /\ job.check = FALSE
  BY <1>2
<1>5. written \in SUBSET Seq(Items)
  BY <1>2
<1>6. job' = [job EXCEPT !.pc = "done", !.exit = exit, !.written = written]
  BY <1>1
<1> HIDE DEF exit, written
<1>7. /\ job'.pc = "done" /\ job'.check = job.check /\ job'.records = job.records
      /\ job'.items = job.items /\ job'.failed = job.failed /\ job'.exit = exit
      /\ job'.written = written
  BY <1>2, <1>6 DEF Jobs
<1>8. job' \in Jobs
  BY <1>2, <1>3, <1>5, <1>6 DEF Jobs
<1>9. MadeOf(job')
  BY <1>2, <1>7 DEF JobOK, MadeOf
<1>10. Judged(job')
  BY <1>2, <1>3, <1>4, <1>7 DEF JobOK, Judged
<1> QED
  BY <1>7, <1>8, <1>9, <1>10 DEF JobOK, Converting, Validating

LEMMA ConvertKeeps == ConvertInv /\ [Next]_offlineVars => ConvertInv'
<1> SUFFICES ASSUME JobOK(job), [Next]_offlineVars PROVE JobOK(job')
  BY DEF ConvertInv
<1>1. ConvertNext \/ UNCHANGED job
  BY DEF Next, ConvertRests, offlineVars
<1>2. Ends => JobOK(job')
  BY NoJobOK DEF Ends
<1> QED
  BY <1>1, <1>2, ReadDumpOK, ConvertRecordOK, ValidateItemOK, OutputOK DEF ConvertNext

-----------------------------------------------------------------------------
(* convert_kb.py: the property                                             *)

\* Items of which validate finds none bad can be imported, and no others.
LEMMA GoodIsImportable ==
    ASSUME NEW items \in Seq(Items)
    PROVE  (\E i \in DOMAIN items : Bad(items, i))
             <=> ~(/\ \A i \in DOMAIN items : ~Wrong(items[i])
                   /\ \A i, j \in DOMAIN items : items[i].raw = items[j].raw => i = j)
<1>1. ASSUME NEW i, ~Wrong(items[i])
      PROVE  RefOf(items[i], i) = <<"id", items[i].raw>>
  BY <1>1 DEF Wrong, RefOf, REQUIRED
<1>2. ASSUME \A i \in DOMAIN items : ~Wrong(items[i]),
             \A i, j \in DOMAIN items : items[i].raw = items[j].raw => i = j,
             NEW i \in DOMAIN items, Bad(items, i)
      PROVE  FALSE
  <2>1. PICK k \in 1..(i - 1) : RefOf(items[k], k) = RefOf(items[i], i)
    BY <1>2 DEF Bad
  <2>2. k \in DOMAIN items /\ k # i
    OBVIOUS
  <2>3. <<"id", items[k].raw>> = <<"id", items[i].raw>>
    BY <1>1, <1>2, <2>1, <2>2
  <2>4. items[k].raw = items[i].raw
    BY <2>3
  <2> QED
    BY <1>2, <2>2, <2>4
<1>3. ASSUME \A i \in DOMAIN items : ~Bad(items, i)
      PROVE  /\ \A i \in DOMAIN items : ~Wrong(items[i])
             /\ \A i, j \in DOMAIN items : items[i].raw = items[j].raw => i = j
  <2>1. \A i \in DOMAIN items : ~Wrong(items[i])
    BY <1>3 DEF Bad
  <2>2. ASSUME NEW i \in DOMAIN items, NEW j \in DOMAIN items, items[i].raw = items[j].raw,
               i < j
        PROVE  FALSE
    <3>1. RefOf(items[i], i) = RefOf(items[j], j)
      BY <1>1, <2>1, <2>2
    <3>2. i \in 1..(j - 1)
      BY <2>2
    <3> QED
      BY <1>3, <3>1, <3>2 DEF Bad
  <2>3. ASSUME NEW i \in DOMAIN items, NEW j \in DOMAIN items, items[i].raw = items[j].raw
        PROVE  i = j
    <3>1. ~(i < j) /\ ~(j < i)
      BY <2>2, <2>3
    <3>2. i \in Nat /\ j \in Nat
      OBVIOUS
    <3> QED
      BY <3>1, <3>2
  <2> QED
    BY <2>1, <2>3
<1> QED
  BY <1>2, <1>3

\* The id of an item is the record's own or the one made of it.
LEMMA ConvertedRaw ==
    ASSUME NEW r \in Records
    PROVE  Converted(r).raw \in {r.raw, Prefixed[r.raw]}
BY DEF Converted, Records

LEMMA JobIsImportable == ConvertInv => WrittenIsImportable
<1> DEFINE Importable(items) ==
               /\ \A i \in DOMAIN items : ~Wrong(items[i])
               /\ \A i, j \in DOMAIN items : items[i].raw = items[j].raw => i = j
<1> SUFFICES ASSUME JobOK(job), job.pc = "done"
             PROVE  /\ \A items \in job.written :
                          /\ Importable(items) /\ ~job.check
                          /\ Len(items) = Len(job.records)
                          /\ \A i \in DOMAIN items : items[i].raw \in {job.records[i].raw,
                                                             Prefixed[job.records[i].raw]}
                    /\ job.check => (job.exit = 0 <=> Importable(job.records))
  BY DEF WrittenIsImportable, ConvertInv
<1>1. /\ job.items \in Seq(Items) /\ job.records \in Seq(Records)
      /\ job.failed \in BOOLEAN /\ job.check \in BOOLEAN
  BY DEF JobOK, Jobs
<1>2. /\ job.failed = TRUE <=> \E i \in DOMAIN job.items : Bad(job.items, i)
      /\ job.exit = IF job.failed = TRUE THEN 1 ELSE 0
      /\ \A items \in job.written : items = job.items /\ job.failed = FALSE /\ job.check = FALSE
  BY DEF JobOK, Judged
<1>3. /\ Len(job.items) = Len(job.records)
      /\ \A i \in DOMAIN job.items :
            job.items[i] = IF job.check THEN job.records[i] ELSE Converted(job.records[i])
  BY DEF JobOK, MadeOf
<1>4. job.failed = TRUE <=> ~Importable(job.items)
  BY <1>1, <1>2, GoodIsImportable
<1>5. ASSUME job.check = FALSE, NEW i \in DOMAIN job.items
      PROVE  job.items[i].raw \in {job.records[i].raw, Prefixed[job.records[i].raw]}
  <2>1. job.records[i] \in Records
    BY <1>1, <1>3
  <2>2. job.items[i] = Converted(job.records[i])
    BY <1>3, <1>5
  <2> QED
    BY <2>1, <2>2, ConvertedRaw
<1>6. job.check = TRUE => job.items = job.records
  BY <1>1, <1>3, SeqEqual
<1> HIDE DEF Importable
<1>7. ASSUME NEW items \in job.written
      PROVE  /\ Importable(items) /\ ~job.check /\ Len(items) = Len(job.records)
             /\ \A i \in DOMAIN items : items[i].raw \in {job.records[i].raw,
                                                    Prefixed[job.records[i].raw]}
  <2>1. items = job.items /\ job.failed = FALSE /\ job.check = FALSE
    BY <1>2
  <2> QED
    BY <1>3, <1>4, <1>5, <2>1
<1>8. job.check => (job.exit = 0 <=> Importable(job.records))
  BY <1>1, <1>2, <1>4, <1>6
<1> QED
  BY <1>7, <1>8

\* What convert_kb writes is one importable item for each record, under ids of their
\* own, and --check passes importable files and no others, whatever the dump holds.
THEOREM WrittenImportable == Spec => []WrittenIsImportable
<1>1. Init => ConvertInv
  BY NoJobOK DEF Init, ConvertInit, ConvertInv
<1> QED
  BY <1>1, ConvertKeeps, JobIsImportable, PTL DEF Spec
-----------------------------------------------------------------------------
(* check_provider.py: the inductive invariant                              *)

Outcomes == {"text", "silent", "failed"}
JsonModes == {"untested", "native", "fallback", "failed"}

Reports == [model : STRING \cup {"none"}, stream_ok : BOOLEAN, usage : BOOLEAN,
            json_mode : JsonModes, errors : Nat, streams : Seq(Outcomes)]

Probes == [pc : {"idle", "model", "stream", "json", "end", "done"}, models : Seq(STRING),
           runs : Nat, run : Nat, report : Reports, text : BOOLEAN, rejected : BOOLEAN,
           reports : Seq(Reports), exit : {0, 1, 2}]

\* The last of the streams that did not break off had text.
LastHadText(streams) ==
    \E n \in DOMAIN streams : /\ streams[n] = "text"
                              /\ \A m \in DOMAIN streams : m > n => streams[m] = "failed"

\* stream_ok stands for that, and a fallback for an error that made it necessary.
Told(r) == /\ r.stream_ok = TRUE => LastHadText(r.streams)
           /\ r.json_mode = "fallback" => r.errors > 0

\* Of the model in hand: its JSON is not tested yet, and a rejection is on record.
InProgress(p) ==
    /\ p.pc \in {"stream", "json"} => p.report.json_mode = "untested"
    /\ p.pc # "json" => p.rejected = FALSE
    /\ p.rejected = TRUE => p.report.errors > 0

\* No model is left out, and there is one at least.
AllAsked(p) ==
    /\ p.pc = "model" => p.models # << >> \/ p.reports # << >>
    /\ p.pc = "end" => p.models = << >> /\ p.reports # << >>
    /\ p.pc = "done" /\ p.exit = 0 =>
          /\ p.models = << >> /\ p.reports # << >>
          /\ \A i \in DOMAIN p.reports : Passes(p.reports[i])

AllTold(p) == Told(p.report) /\ \A i \in DOMAIN p.reports : Told(p.reports[i])

ProbeOK(p) == p \in Probes /\ InProgress(p) /\ AllAsked(p) /\ AllTold(p)
ProbeInv == ProbeOK(probe)

-----------------------------------------------------------------------------
(* check_provider.py: the steps                                            *)

LEMMA ReportTyped ==
    ASSUME NEW model \in STRING \cup {"none"}
    PROVE  LET r == [Report EXCEPT !.model = model]
           IN  /\ r \in Reports /\ Told(r) /\ r.json_mode = "untested"
               /\ r.stream_ok = FALSE /\ r.streams = << >> /\ r.errors = 0
<1> DEFINE r == [Report EXCEPT !.model = model]
<1>1. /\ r.json_mode = "untested" /\ r.stream_ok = FALSE /\ r.streams = << >>
      /\ r.errors = 0
  BY DEF Report
<1>2. r \in Reports
  <2>1. << >> \in Seq(Outcomes) /\ "untested" \in JsonModes
    BY DEF JsonModes
  <2> QED
    BY <2>1 DEF Report, Reports
<1>3. Told(r)
  <2> HIDE DEF r
  <2> QED
    BY <1>1 DEF Told
<1> QED
  BY <1>1, <1>2, <1>3

LEMMA NoProbeOK == ProbeOK(NoProbe)
<1>1. /\ NoProbe.pc = "idle" /\ NoProbe.rejected = FALSE /\ NoProbe.reports = << >>
      /\ NoProbe.report = Report
  BY DEF NoProbe
<1>2. Report \in Reports /\ Told(Report) /\ Report.errors = 0
  <2>1. [Report EXCEPT !.model = "none"] = Report
    BY DEF Report
  <2> QED
    BY <2>1, ReportTyped
<1>3. NoProbe \in Probes
  BY <1>2 DEF NoProbe, Probes
<1>4. DOMAIN NoProbe.reports = {}
  BY <1>1
<1> QED
  BY <1>1, <1>2, <1>3, <1>4 DEF ProbeOK, InProgress, AllAsked, AllTold

LEMMA LaunchOK ==
    ASSUME ProbeOK(probe), Launch
    PROVE  ProbeOK(probe')
<1>1. PICK configured \in BOOLEAN, runs \in 0..MaxRuns, models \in Models :
          probe' = IF ~configured \/ models = << >>
                     THEN [NoProbe EXCEPT !.pc = "done", !.exit = 2]
                     ELSE [NoProbe EXCEPT !.pc = "model", !.models = models, !.runs = runs]
  BY DEF Launch
<1>2. /\ NoProbe \in Probes /\ NoProbe.rejected = FALSE /\ NoProbe.reports = << >>
      /\ AllTold(NoProbe)
  BY NoProbeOK DEF ProbeOK, NoProbe
<1>3. models \in Seq(STRING) /\ runs \in Nat
  BY ProbeAssumption
<1>4. CASE ~configured \/ models = << >>
  <2>1. probe' = [NoProbe EXCEPT !.pc = "done", !.exit = 2]
    BY <1>1, <1>4
  <2>2. /\ probe' \in Probes /\ probe'.pc = "done" /\ probe'.exit = 2
        /\ probe'.rejected = FALSE /\ probe'.reports = NoProbe.reports
        /\ probe'.report = NoProbe.report
    BY <1>2, <2>1 DEF Probes
  <2> QED
    BY <1>2, <2>2 DEF ProbeOK, InProgress, AllAsked, AllTold
<1>5. CASE ~(~configured \/ models = << >>)
  <2>1. probe' = [NoProbe EXCEPT !.pc = "model", !.models = models, !.runs = runs]
    BY <1>1, <1>5
  <2>2. /\ probe' \in Probes /\ probe'.pc = "model" /\ probe'.models = models
        /\ probe'.rejected = FALSE /\ probe'.reports = NoProbe.reports
        /\ probe'.report = NoProbe.report
    BY <1>2, <1>3, <2>1 DEF Probes
  <2> QED
    BY <1>2, <1>5, <2>2 DEF ProbeOK, InProgress, AllAsked, AllTold
<1> QED
  BY <1>4, <1>5

LEMMA NextModelOK ==
    ASSUME ProbeOK(probe), NextModel
    PROVE  ProbeOK(probe')
<1>1. /\ probe \in Probes /\ probe.pc = "model" /\ probe.rejected = FALSE
      /\ probe.models \in Seq(STRING) /\ AllTold(probe)
      /\ probe.models # << >> \/ probe.reports # << >>
  BY DEF ProbeOK, InProgress, AllAsked, NextModel, Probes
<1>2. CASE probe.models = << >>
  <2>1. probe' = [probe EXCEPT !.pc = "end"]
    BY <1>2 DEF NextModel
  <2>2. /\ probe' \in Probes /\ probe'.pc = "end" /\ probe'.models = probe.models
        /\ probe'.rejected = FALSE /\ probe'.reports = probe.reports
        /\ probe'.report = probe.report
    BY <1>1, <2>1 DEF Probes
  <2> QED
    BY <1>1, <1>2, <2>2 DEF ProbeOK, InProgress, AllAsked, AllTold
<1>3. CASE probe.models # << >>
  <2> DEFINE pc == IF probe.runs = 0 THEN "json" ELSE "stream"
             report == [Report EXCEPT !.model = Head(probe.models)]
  <2>1. probe' = [probe EXCEPT !.pc = pc, !.report = report, !.models = Tail(@), !.run = 1,
                               !.text = FALSE]
    BY <1>3 DEF NextModel
  <2>2. Head(probe.models) \in STRING /\ Tail(probe.models) \in Seq(STRING)
    BY <1>1, <1>3, HeadTailProperties
  <2>3. report \in Reports /\ Told(report) /\ report.json_mode = "untested"
    BY <2>2, ReportTyped
  <2>4. pc \in {"json", "stream"}
    OBVIOUS
  <2> HIDE DEF pc, report
  <2>5. /\ probe'.pc = pc /\ probe'.rejected = FALSE /\ probe'.reports = probe.reports
        /\ probe'.report = report
    BY <1>1, <2>1 DEF Probes
  <2>6. probe' \in Probes
    BY <1>1, <2>1, <2>2, <2>3, <2>4 DEF Probes
  <2> QED
    BY <1>1, <2>3, <2>4, <2>5, <2>6 DEF ProbeOK, InProgress, AllAsked, AllTold
<1> QED
  BY <1>2, <1>3

LEMMA ChunkOK ==
    ASSUME ProbeOK(probe), ChunkText \/ ChunkUsage
    PROVE  ProbeOK(probe')
<1>1. /\ probe \in Probes /\ probe.pc = "stream" /\ probe.rejected = FALSE
      /\ probe.report \in Reports /\ probe.report.json_mode = "untested" /\ AllTold(probe)
  BY DEF ProbeOK, InProgress, ChunkText, ChunkUsage, Probes
<1>2. CASE ChunkText
  <2>1. probe' = [probe EXCEPT !.text = TRUE]
    BY <1>2 DEF ChunkText
  <2>2. /\ probe' \in Probes /\ probe'.pc = "stream" /\ probe'.rejected = FALSE
        /\ probe'.reports = probe.reports /\ probe'.report = probe.report
    BY <1>1, <2>1 DEF Probes
  <2> QED
    BY <1>1, <2>2 DEF ProbeOK, InProgress, AllAsked, AllTold
<1>3. CASE ChunkUsage
  <2> DEFINE report == [probe.report EXCEPT !.usage = TRUE]
  <2>1. probe' = [probe EXCEPT !.report = report]
    BY <1>3 DEF ChunkUsage
  <2>2. /\ report \in Reports /\ report.json_mode = probe.report.json_mode
        /\ report.stream_ok = probe.report.stream_ok
        /\ report.streams = probe.report.streams /\ report.errors = probe.report.errors
    BY <1>1 DEF Reports
  <2> HIDE DEF report
  <2>3. /\ probe' \in Probes /\ probe'.pc = "stream" /\ probe'.rejected = FALSE
        /\ probe'.reports = probe.reports /\ probe'.report = report
    BY <1>1, <2>1, <2>2 DEF Probes
  <2>4. Told(report)
    BY <1>1, <2>2 DEF AllTold, Told
  <2> QED
    BY <1>1, <2>2, <2>3, <2>4 DEF ProbeOK, InProgress, AllAsked, AllTold
<1> QED
  BY <1>2, <1>3

\* A stream more: with text it is the last that ended, and broken off it changes nothing.
LEMMA LastStream ==
    ASSUME NEW streams \in Seq(Outcomes), NEW s \in Outcomes,
           s = "text" \/ (s = "failed" /\ LastHadText(streams))
    PROVE  LastHadText(Append(streams, s))
<1> DEFINE wide == Append(streams, s)
<1>1. /\ DOMAIN wide = 1..(Len(streams) + 1) /\ wide[Len(streams) + 1] = s
      /\ Len(streams) \in Nat /\ DOMAIN streams = 1..Len(streams)
      /\ \A i \in DOMAIN streams : wide[i] = streams[i]
  OBVIOUS
<1> HIDE DEF wide
<1>2. CASE s = "text"
  <2>1. Len(streams) + 1 \in DOMAIN wide /\ wide[Len(streams) + 1] = "text"
    BY <1>1, <1>2
  <2>2. \A m \in DOMAIN wide : ~(m > Len(streams) + 1)
    BY <1>1
  <2> QED
    BY <2>1, <2>2 DEF LastHadText, wide
<1>3. CASE s = "failed" /\ LastHadText(streams)
  <2>1. PICK n \in DOMAIN streams :
          streams[n] = "text" /\ \A m \in DOMAIN streams : m > n => streams[m] = "failed"
    BY <1>3 DEF LastHadText
  <2>2. n \in DOMAIN wide /\ wide[n] = "text"
    BY <1>1, <2>1
  <2>3. ASSUME NEW m \in DOMAIN wide, m > n
        PROVE  wide[m] = "failed"
    <3>1. CASE m \in DOMAIN streams
      BY <1>1, <2>1, <2>3, <3>1
    <3>2. CASE m \notin DOMAIN streams
      <4>1. m = Len(streams) + 1
        BY <1>1, <3>2
      <4> QED
        BY <1>1, <1>3, <4>1
    <3> QED
      BY <3>1, <3>2
  <2> QED
    BY <2>2, <2>3 DEF LastHadText, wide
<1> QED
  BY <1>2, <1>3

LEMMA StreamEndsOK ==
    ASSUME ProbeOK(probe), StreamEnds
    PROVE  ProbeOK(probe')
<1> DEFINE s == IF probe.text THEN "text" ELSE "silent"
           streams == Append(probe.report.streams, s)
           report == [probe.report EXCEPT !.stream_ok = probe.text, !.streams = streams]
           pc == IF probe.run = probe.runs THEN "json" ELSE "stream"
<1>1. /\ probe \in Probes /\ probe.pc = "stream" /\ probe.rejected = FALSE
      /\ probe.report \in Reports /\ probe.report.json_mode = "untested" /\ AllTold(probe)
      /\ probe.text \in BOOLEAN /\ probe.run \in Nat
  BY DEF ProbeOK, InProgress, StreamEnds, Probes
<1>2. probe' = [probe EXCEPT !.report = report, !.pc = pc, !.run = @ + 1, !.text = FALSE]
  BY <1>1 DEF StreamEnds, StreamOk, Probes, Reports
<1>3. s \in Outcomes /\ (probe.text = TRUE => s = "text")
  BY DEF Outcomes
<1> HIDE DEF s
<1>4. /\ streams \in Seq(Outcomes)
      /\ probe.text = TRUE => LastHadText(streams)
  <2>1. probe.report.streams \in Seq(Outcomes)
    BY <1>1 DEF Reports
  <2> QED
    BY <1>3, <2>1, LastStream
<1> HIDE DEF streams
<1>5. /\ report \in Reports /\ report.json_mode = "untested" /\ report.stream_ok = probe.text
      /\ report.streams = streams /\ report.errors = probe.report.errors
  BY <1>1, <1>4 DEF Reports
<1>6. pc \in {"json", "stream"} /\ probe.run + 1 \in Nat
  BY <1>1
<1> HIDE DEF report, pc
<1>7. /\ probe'.pc = pc /\ probe'.rejected = FALSE /\ probe'.reports = probe.reports
      /\ probe'.report = report
  BY <1>1, <1>2 DEF Probes
<1>8. probe' \in Probes
  BY <1>1, <1>2, <1>5, <1>6 DEF Probes
<1>9. Told(report)
  BY <1>4, <1>5 DEF Told
<1> QED
  BY <1>1, <1>5, <1>6, <1>7, <1>8, <1>9 DEF ProbeOK, InProgress, AllAsked, AllTold

LEMMA StreamFailsOK ==
    ASSUME ProbeOK(probe), StreamFails
    PROVE  ProbeOK(probe')
<1> DEFINE streams == Append(probe.report.streams, "failed")
           report == [probe.report EXCEPT !.errors = @ + 1, !.streams = streams]
<1>1. /\ probe \in Probes /\ probe.pc = "stream" /\ probe.rejected = FALSE
      /\ probe.report \in Reports /\ probe.report.json_mode = "untested" /\ AllTold(probe)
  BY DEF ProbeOK, InProgress, StreamFails, Probes
<1>2. probe' = [probe EXCEPT !.pc = "json", !.report = report, !.text = FALSE]
  BY <1>1 DEF StreamFails, Probes, Reports
<1>3. /\ streams \in Seq(Outcomes)
      /\ probe.report.stream_ok = TRUE => LastHadText(streams)
  <2>1. probe.report.streams \in Seq(Outcomes) /\ "failed" \in Outcomes
    BY <1>1 DEF Reports, Outcomes
  <2>2. probe.report.stream_ok = TRUE => LastHadText(probe.report.streams)
    BY <1>1 DEF AllTold, Told
  <2> QED
    BY <2>1, <2>2, LastStream
<1> HIDE DEF streams
<1>4. /\ report \in Reports /\ report.json_mode = "untested"
      /\ report.stream_ok = probe.report.stream_ok
      /\ report.streams = streams /\ report.errors = probe.report.errors + 1
  <2>1. probe.report.errors + 1 \in Nat
    BY <1>1 DEF Reports
  <2> QED
    BY <1>1, <1>3, <2>1 DEF Reports
<1> HIDE DEF report
<1>5. /\ probe'.pc = "json" /\ probe'.rejected = FALSE /\ probe'.reports = probe.reports
      /\ probe'.report = report
  BY <1>1, <1>2 DEF Probes
<1>6. probe' \in Probes
  BY <1>1, <1>2, <1>4 DEF Probes
<1>7. Told(report)
  BY <1>3, <1>4 DEF Told
<1> QED
  BY <1>1, <1>4, <1>5, <1>6, <1>7 DEF ProbeOK, InProgress, AllAsked, AllTold

LEMMA JsonRejectedOK ==
    ASSUME ProbeOK(probe), JsonRejected
    PROVE  ProbeOK(probe')
<1> DEFINE report == [probe.report EXCEPT !.errors = @ + 1]
<1>1. /\ probe \in Probes /\ probe.pc = "json"
      /\ probe.report \in Reports /\ probe.report.json_mode = "untested" /\ AllTold(probe)
  BY DEF ProbeOK, InProgress, JsonRejected, Probes
<1>2. probe' = [probe EXCEPT !.rejected = TRUE, !.report = report]
  BY <1>1 DEF JsonRejected, Probes, Reports
<1>3. /\ report \in Reports /\ report.json_mode = "untested"
      /\ report.stream_ok = probe.report.stream_ok
      /\ report.streams = probe.report.streams
      /\ report.errors = probe.report.errors + 1 /\ report.errors > 0
  BY <1>1 DEF Reports
<1> HIDE DEF report
<1>4. /\ probe'.pc = "json" /\ probe'.reports = probe.reports /\ probe'.report = report
  BY <1>1, <1>2 DEF Probes
<1>5. probe' \in Probes
  BY <1>1, <1>2, <1>3 DEF Probes
<1>6. Told(report)
  BY <1>1, <1>3 DEF AllTold, Told
<1> QED
  BY <1>1, <1>3, <1>4, <1>5, <1>6 DEF ProbeOK, InProgress, AllAsked, AllTold

\* The report of the model in hand is complete; a fallback follows a rejection.
LEMMA ReportedOK ==
    ASSUME ProbeOK(probe), probe.pc = "json", NEW mode \in JsonModes, NEW n \in {0, 1},
           mode = "fallback" => probe.rejected = TRUE,
           probe' = Reported(probe, mode, n)
    PROVE  ProbeOK(probe')
<1> DEFINE report == [probe.report EXCEPT !.json_mode = mode, !.errors = @ + n]
           reports == Append(probe.reports, report)
<1>1. /\ probe \in Probes /\ probe.report \in Reports /\ AllTold(probe)
      /\ probe.reports \in Seq(Reports)
      /\ mode = "fallback" => probe.report.errors > 0
  BY DEF ProbeOK, InProgress, Probes
<1>2. probe' = [probe EXCEPT !.pc = "model", !.rejected = FALSE, !.reports = reports]
  BY DEF Reported
<1>3. /\ report \in Reports /\ report.json_mode = mode
      /\ report.stream_ok = probe.report.stream_ok
      /\ report.streams = probe.report.streams
      /\ probe.report.errors > 0 => report.errors > 0
  <2> DEFINE errors == probe.report.errors + n
  <2>1. errors \in Nat /\ (probe.report.errors > 0 => errors > 0)
    BY <1>1 DEF Reports
  <2>2. report = [probe.report EXCEPT !.json_mode = mode, !.errors = errors]
    BY <1>1 DEF Reports
  <2> HIDE DEF errors, report
  <2> QED
    BY <1>1, <2>1, <2>2 DEF Reports
<1> HIDE DEF report
<1>4. Told(report)
  BY <1>1, <1>3 DEF AllTold, Told
<1>5. /\ reports \in Seq(Reports) /\ reports # << >>
      /\ \A i \in DOMAIN reports : reports[i] = report \/ (i \in DOMAIN probe.reports
                                                       /\ reports[i] = probe.reports[i])
  BY <1>1, <1>3
<1> HIDE DEF reports
<1>6. \A i \in DOMAIN reports : Told(reports[i])
  BY <1>1, <1>4, <1>5 DEF AllTold
<1>7. /\ probe'.pc = "model" /\ probe'.rejected = FALSE /\ probe'.reports = reports
      /\ probe'.report = probe.report
  BY <1>1, <1>2 DEF Probes
<1>8. probe' \in Probes
  BY <1>1, <1>2, <1>5 DEF Probes
<1> QED
  BY <1>1, <1>5, <1>6, <1>7, <1>8 DEF ProbeOK, InProgress, AllAsked, AllTold

LEMMA JsonAnswersOK ==
    ASSUME ProbeOK(probe), JsonAnswers
    PROVE  ProbeOK(probe')
<1>1. /\ probe.pc = "json" /\ probe.report.json_mode = "untested"
      /\ probe.rejected \in BOOLEAN
  BY DEF JsonAnswers, ProbeOK, InProgress, Probes
<1>2. \/ probe' = Reported(probe, IF probe.rejected THEN "fallback" ELSE "native", 0)
      \/ probe' = Reported(probe, "failed", 0)
      \/ probe' = Reported(probe, "failed", 1)
      \/ probe' = Reported(probe, "untested", 1)
  BY <1>1 DEF JsonAnswers
<1>3. \E mode \in JsonModes, n \in {0, 1} :
          /\ mode = "fallback" => probe.rejected = TRUE
          /\ probe' = Reported(probe, mode, n)
  <2> DEFINE got == IF probe.rejected THEN "fallback" ELSE "native"
  <2>1. got \in JsonModes /\ (got = "fallback" => probe.rejected = TRUE)
    BY <1>1 DEF JsonModes
  <2>2. "failed" \in JsonModes /\ "untested" \in JsonModes
    BY DEF JsonModes
  <2> HIDE DEF got
  <2>3. CASE probe' = Reported(probe, got, 0)
    BY <2>1, <2>3
  <2>4. CASE \/ probe' = Reported(probe, "failed", 0) \/ probe' = Reported(probe, "failed", 1)
             \/ probe' = Reported(probe, "untested", 1)
    BY <2>2, <2>4
  <2> QED
    BY <1>2, <2>3, <2>4 DEF got
<1> QED
  BY <1>1, <1>3, ReportedOK

LEMMA ExitOK ==
    ASSUME ProbeOK(probe), Exit
    PROVE  ProbeOK(probe')
<1> DEFINE all == \A i \in DOMAIN probe.reports : Passes(probe.reports[i])
           exit == IF all THEN 0 ELSE 1
<1>1. /\ probe \in Probes /\ probe.pc = "end" /\ probe.rejected = FALSE /\ AllTold(probe)
      /\ probe.models = << >> /\ probe.reports # << >>
  BY DEF ProbeOK, InProgress, AllAsked, Exit
<1>2. probe' = [probe EXCEPT !.pc = "done", !.exit = exit]
  BY DEF Exit
<1>3. exit \in {0, 1, 2} /\ (exit = 0 => all)
  OBVIOUS
<1> HIDE DEF exit
<1>4. /\ probe' \in Probes /\ probe'.pc = "done" /\ probe'.exit = exit
      /\ probe'.rejected = FALSE /\ probe'.models = probe.models
      /\ probe'.reports = probe.reports /\ probe'.report = probe.report
  BY <1>1, <1>2, <1>3 DEF Probes
<1> QED
  BY <1>1, <1>3, <1>4 DEF ProbeOK, InProgress, AllAsked, AllTold

LEMMA ProbeKeeps == ProbeInv /\ [Next]_offlineVars => ProbeInv'
<1> SUFFICES ASSUME ProbeOK(probe), [Next]_offlineVars PROVE ProbeOK(probe')
  BY DEF ProbeInv
<1>1. ProbeNext \/ UNCHANGED probe
  BY DEF Next, ProbeRests, offlineVars
<1>2. ProbeReturns => ProbeOK(probe')
  BY NoProbeOK DEF ProbeReturns
<1> QED
  BY <1>1, <1>2, LaunchOK, NextModelOK, ChunkOK, StreamEndsOK, StreamFailsOK, JsonRejectedOK,
     JsonAnswersOK, ExitOK DEF ProbeNext

LEMMA ZeroIsEarned == ProbeInv => ExitZeroIsEarned
<1> SUFFICES ASSUME ProbeOK(probe), probe.pc = "done", probe.exit = 0
             PROVE  ExitZeroIsEarned
  BY DEF ProbeInv, ExitZeroIsEarned
<1>1. /\ probe.models = << >> /\ probe.reports # << >>
      /\ \A i \in DOMAIN probe.reports : Passes(probe.reports[i])
  BY DEF ProbeOK, AllAsked
<1>2. ASSUME NEW i \in DOMAIN probe.reports
      PROVE  LET r == probe.reports[i]
             IN  /\ LastHadText(r.streams)
                 /\ r.json_mode \in {"native", "fallback"}
                 /\ r.json_mode = "fallback" => r.errors > 0
  BY <1>1 DEF ProbeOK, AllTold, Told, Passes
<1> QED
  BY <1>1, <1>2 DEF ExitZeroIsEarned, LastHadText

\* An exit code of 0 is a word for each model: it streamed text to the end and gave
\* JSON, whatever the provider does, for any models and any number of runs
\* (check_provider.py).
THEOREM ZeroEarned == Spec => []ExitZeroIsEarned
<1>1. Init => ProbeInv
  BY NoProbeOK DEF Init, ProbeInit, ProbeInv
<1> QED
  BY <1>1, ProbeKeeps, ZeroIsEarned, PTL DEF Spec
-----------------------------------------------------------------------------
(* Policy.allows_host                                                      *)

Chars == STRING \cup {"."} \cup {LOWER[x] : x \in DOMAIN LOWER}

LEMMA LowerTyped ==
    ASSUME NEW host \in Seq(STRING)
    PROVE  Lower(host) \in Seq(Chars)
<1>1. DOMAIN host = 1..Len(host) /\ Len(host) \in Nat /\ \A i \in DOMAIN host : host[i] \in STRING
  OBVIOUS
<1>2. \A i \in 1..Len(host) :
         (IF host[i] \in DOMAIN LOWER THEN LOWER[host[i]] ELSE host[i]) \in Chars
  BY <1>1 DEF Chars
<1>3. Lower(host) = [i \in 1..Len(host) |-> IF host[i] \in DOMAIN LOWER THEN LOWER[host[i]]
                                                                        ELSE host[i]]
  BY <1>1 DEF Lower
<1>4. Lower(host) \in [1..Len(host) -> Chars]
  BY <1>2, <1>3
<1> QED
  BY <1>1, <1>4

\* Some places in a sequence have a last one.
LEMMA MaxOfSome ==
    ASSUME NEW n \in Nat, NEW I \in SUBSET (1..n), I # {}
    PROVE  Max(I) \in I
<1> DEFINE T == {n - i : i \in I}
<1>1. T \subseteq Nat /\ T # {}
  OBVIOUS
<1>2. PICK x \in T : \A y \in T : ~(<<y, x>> \in OpToRel(<, Nat))
  BY <1>1, NatLessThanWellFounded, WFMin
<1>3. \A y \in T : ~(y < x)
  BY <1>1, <1>2 DEF OpToRel
<1>4. PICK i \in I : x = n - i
  OBVIOUS
<1>5. \A j \in I : i >= j
  <2>1. ASSUME NEW j \in I PROVE i >= j
    <3>1. n - j \in T /\ ~(n - j < n - i)
      BY <1>3, <1>4
    <3>2. i \in Nat /\ j \in Nat
      OBVIOUS
    <3> QED
      BY <3>1, <3>2
  <2> QED
    BY <2>1
<1> QED
  BY <1>5, Zenon DEF Max

LEMMA StripDotsTyped ==
    ASSUME NEW host \in Seq(Chars)
    PROVE  StripDots(host) \in Seq(Chars)
<1> DEFINE n == Len(host)
           I == {i \in 1..n : host[i] # "."}
           k == IF I # {} THEN Max(I) ELSE 0
<1>1. StripDots(host) = SubSeq(host, 1, k)
  BY DEF StripDots, SelectLastInSeq
<1>2. k \in 0..n
  <2>1. I \in SUBSET (1..n) /\ n \in Nat
    OBVIOUS
  <2> HIDE DEF n, I
  <2>2. ASSUME I # {} PROVE Max(I) \in I
    BY <2>1, <2>2, MaxOfSome
  <2>3. I # {} => Max(I) \in 0..n
    <3> DEFINE x == Max(I)
    <3>1. I # {} => x \in I
      BY <2>2
    <3> HIDE DEF x
    <3>3. I # {} => x \in 1..n
      BY <2>1, <3>1, Zenon
    <3>2. I # {} => x \in 0..n
      BY <2>1, <3>3
    <3> QED
      BY <3>2 DEF x
  <2> QED
    BY <2>1, <2>3
<1> HIDE DEF k
<1> QED
  BY <1>1, <1>2

\* A sequence that ends in a dot and another one has the other one after one of its dots.
LEMMA EndsInDomain ==
    ASSUME NEW a \in Seq(Chars), NEW b \in Seq(Chars)
    PROVE  IsSuffix(<<".">> \o a, b)
             <=> \E i \in DOMAIN b : b[i] = "." /\ SubSeq(b, i + 1, Len(b)) = a
<1> DEFINE s == <<".">> \o a
           n == Len(s)
           m == Len(b)
<1>1. /\ s \in Seq(Chars) /\ n = Len(a) + 1 /\ s[1] = "."
      /\ \A k \in 1..Len(a) : s[k + 1] = a[k]
  <2>1. <<".">> \in Seq(Chars)
    BY DEF Chars
  <2> QED
    BY <2>1
<1>2. n \in Nat /\ m \in Nat /\ Len(a) \in Nat /\ DOMAIN b = 1..m
  BY <1>1
<1> HIDE DEF s, n, m
<1>3. IsSuffix(s, b) <=> n <= m /\ \A j \in 1..n : s[(n - j) + 1] = b[(m - j) + 1]
  <2> DEFINE rs == Reverse(s)
             rb == Reverse(b)
  <2>1. /\ rs = [i \in 1..n |-> s[(n - i) + 1]] /\ rb = [i \in 1..m |-> b[(m - i) + 1]]
    BY DEF Reverse, n, m
  <2>2. /\ rs \in Seq(Chars) /\ Len(rs) = n /\ rb \in Seq(Chars) /\ Len(rb) = m
    <3>1. \A i \in 1..n : (n - i) + 1 \in 1..n /\ s[(n - i) + 1] \in Chars
      BY <1>1, <1>2 DEF n
    <3>2. \A i \in 1..m : (m - i) + 1 \in 1..m /\ b[(m - i) + 1] \in Chars
      BY <1>2 DEF m
    <3>3. rs \in [1..n -> Chars] /\ rb \in [1..m -> Chars]
      BY <2>1, <3>1, <3>2
    <3> HIDE DEF rs, rb
    <3> QED
      BY <1>2, <3>3
  <2>3. IsSuffix(s, b) <=> n <= m /\ SubSeq(rs, 1, n) = SubSeq(rb, 1, n)
    <3>1. IsSuffix(s, b) <=> Len(rs) <= Len(rb) /\ SubSeq(rs, 1, Len(rs)) = SubSeq(rb, 1, Len(rs))
      BY DEF IsSuffix, IsPrefix
    <3> HIDE DEF rs, rb
    <3> QED
      BY <2>2, <3>1
  <2>4. ASSUME n <= m
        PROVE  SubSeq(rs, 1, n) = SubSeq(rb, 1, n) <=> \A j \in 1..n : rs[j] = rb[j]
    <3> HIDE DEF rs, rb
    <3>1. /\ SubSeq(rs, 1, n) \in Seq(Chars) /\ Len(SubSeq(rs, 1, n)) = n
          /\ SubSeq(rb, 1, n) \in Seq(Chars) /\ Len(SubSeq(rb, 1, n)) = n
          /\ \A j \in 1..n : SubSeq(rs, 1, n)[j] = rs[j] /\ SubSeq(rb, 1, n)[j] = rb[j]
      BY <1>2, <2>2, <2>4
    <3>2. (\A j \in 1..n : SubSeq(rs, 1, n)[j] = SubSeq(rb, 1, n)[j])
             => SubSeq(rs, 1, n) = SubSeq(rb, 1, n)
      BY <3>1, SeqEqual
    <3> QED
      BY <3>1, <3>2
  <2>5. n <= m => \A j \in 1..n : rs[j] = s[(n - j) + 1] /\ rb[j] = b[(m - j) + 1]
    BY <1>2, <2>1
  <2> HIDE DEF rs, rb
  <2>6. ASSUME n <= m
        PROVE  (\A j \in 1..n : rs[j] = rb[j])
                 <=> \A j \in 1..n : s[(n - j) + 1] = b[(m - j) + 1]
    <3>1. \A j \in 1..n : rs[j] = rb[j] <=> s[(n - j) + 1] = b[(m - j) + 1]
      <4>1. ASSUME NEW j \in 1..n
            PROVE  rs[j] = rb[j] <=> s[(n - j) + 1] = b[(m - j) + 1]
        <5>1. rs[j] = s[(n - j) + 1] /\ rb[j] = b[(m - j) + 1]
          BY <2>5, <2>6
        <5> QED
          BY <5>1, Zenon
      <4> QED
        BY <4>1
    <3> QED
      BY <3>1, Zenon
  <2> QED
    BY <2>3, <2>4, <2>6
<1>4. ASSUME n <= m, \A j \in 1..n : s[(n - j) + 1] = b[(m - j) + 1]
      PROVE  \E i \in DOMAIN b : b[i] = "." /\ SubSeq(b, i + 1, m) = a
  <2> DEFINE i == (m - n) + 1
  <2>1. i \in DOMAIN b /\ i \in 1..m /\ m - i = Len(a)
    BY <1>1, <1>2, <1>4
  <2>2. b[i] = "."
    <3>1. n \in 1..n /\ (n - n) + 1 = 1
      BY <1>1, <1>2
    <3> QED
      BY <1>1, <1>4, <3>1
  <2>3. \A k \in 1..Len(a) : b[i + k] = a[k]
    <3>1. ASSUME NEW k \in 1..Len(a) PROVE b[i + k] = a[k]
      <4>1. n - k \in 1..n /\ (n - (n - k)) + 1 = k + 1 /\ (m - (n - k)) + 1 = i + k
        BY <1>1, <1>2
      <4> QED
        BY <1>1, <1>4, <4>1
    <3> QED
      BY <3>1
  <2> HIDE DEF i
  <2>4. /\ SubSeq(b, i + 1, m) \in Seq(Chars) /\ Len(SubSeq(b, i + 1, m)) = Len(a)
        /\ \A k \in 1..Len(a) : SubSeq(b, i + 1, m)[k] = b[i + k]
    <3> DEFINE lo == i + 1
    <3>1. lo \in 1..(m + 1) /\ m - lo + 1 = Len(a) /\ \A k \in Nat : (lo + k) - 1 = i + k
      BY <1>2, <2>1
    <3> HIDE DEF lo
    <3>2. lo \in Nat /\ 1 <= lo /\ lo <= m + 1
      BY <1>2, <3>1
    <3>3. SubSeq(b, lo, m) = [k \in 1..((m - lo) + 1) |-> b[(lo + k) - 1]]
      BY <1>2, <3>2 DEF m
    <3>4. SubSeq(b, lo, m) \in Seq(Chars)
      BY <1>2, <3>2 DEF m
    <3>5. SubSeq(b, lo, m) = [k \in 1..Len(a) |-> b[(lo + k) - 1]]
      BY <3>1, <3>3
    <3>6. Len(SubSeq(b, lo, m)) = Len(a)
      BY <1>2, <3>4, <3>5
    <3>7. ASSUME NEW k \in 1..Len(a) PROVE SubSeq(b, lo, m)[k] = b[i + k]
      <4>1. SubSeq(b, lo, m)[k] = b[(lo + k) - 1]
        BY <3>5
      <4>2. (lo + k) - 1 = i + k
        BY <1>2, <3>1
      <4> QED
        BY <4>1, <4>2
    <3> QED
      BY <3>4, <3>6, <3>7 DEF lo
  <2>5. SubSeq(b, i + 1, m) = a
    BY <2>3, <2>4, SeqEqual
  <2> QED
    BY <2>1, <2>2, <2>5
<1>5. ASSUME NEW i \in DOMAIN b, b[i] = ".", SubSeq(b, i + 1, m) = a
      PROVE  n <= m /\ \A j \in 1..n : s[(n - j) + 1] = b[(m - j) + 1]
  <2>1. /\ i \in 1..m /\ Len(SubSeq(b, i + 1, m)) = m - i
        /\ \A k \in 1..(m - i) : SubSeq(b, i + 1, m)[k] = b[i + k]
    BY <1>2 DEF m
  <2>2. Len(a) = m - i /\ \A k \in 1..Len(a) : a[k] = b[i + k]
    BY <1>5, <2>1
  <2>3. n = (m - i) + 1 /\ n <= m
    BY <1>1, <1>2, <2>1, <2>2
  <2>4. ASSUME NEW j \in 1..n PROVE s[(n - j) + 1] = b[(m - j) + 1]
    <3>1. CASE j = n
      <4>1. (n - j) + 1 = 1 /\ (m - j) + 1 = i
        BY <1>2, <2>1, <2>3, <3>1
      <4> QED
        BY <1>1, <1>5, <4>1
    <3>2. CASE j # n
      <4>1. n - j \in 1..Len(a) /\ (m - j) + 1 = i + (n - j)
        <5> DEFINE l == Len(a)
        <5>1. l \in Nat /\ m \in Nat /\ i \in 1..m /\ l = m - i /\ n = l + 1
          BY <1>1, <1>2, <2>1, <2>2
        <5> HIDE DEF l
        <5>2. j \in Nat /\ 1 <= j /\ j <= n /\ j # n
          BY <3>2, <5>1
        <5>3. n - j \in 1..l
          BY <5>1, <5>2
        <5>4. (m - j) + 1 = i + (n - j)
          <6>1. i \in Nat /\ m \in Nat /\ j \in Nat /\ n = (m - i) + 1
            BY <5>1, <5>2
          <6> QED
            BY <6>1
        <5> QED
          BY <5>3, <5>4 DEF l
      <4> DEFINE k == n - j
      <4>2. k \in 1..Len(a) /\ s[k + 1] = a[k] /\ a[k] = b[i + k]
        BY <1>1, <2>2, <4>1
      <4> QED
        BY <4>1, <4>2
    <3> QED
      BY <3>1, <3>2
  <2> QED
    BY <2>3, <2>4
<1> QED
  BY <1>3, <1>4, <1>5 DEF s, m

\* The allow-list lets through its own hosts and what is below them.
LEMMA AllowsDomains ==
    ASSUME NEW name \in Seq(STRING)
    PROVE  LET bare == StripDots(Lower(name))
               domains == {SubSeq(bare, i + 1, Len(bare)) : i \in LabelEnds(bare)}
           IN  AllowsHost(name, Allowlist) <=> \E h \in Allowlist : Lower(h) \in domains
<1> DEFINE bare == StripDots(Lower(name))
           domains == {SubSeq(bare, i + 1, Len(bare)) : i \in LabelEnds(bare)}
<1>1. bare \in Seq(Chars)
  BY LowerTyped, StripDotsTyped
<1>2. AllowsHost(name, Allowlist) <=>
        \E h \in Allowlist : bare = Lower(h) \/ IsSuffix(<<".">> \o Lower(h), bare)
  BY DEF AllowsHost
<1> HIDE DEF bare
<1>3. SubSeq(bare, 0 + 1, Len(bare)) = bare
  <2>1. /\ SubSeq(bare, 0 + 1, Len(bare)) \in Seq(Chars)
        /\ Len(SubSeq(bare, 0 + 1, Len(bare))) = Len(bare)
        /\ \A k \in 1..Len(bare) : SubSeq(bare, 0 + 1, Len(bare))[k] = bare[k]
    BY <1>1
  <2> QED
    BY <1>1, <2>1, SeqEqual
<1>4. ASSUME NEW h \in Allowlist
      PROVE  Lower(h) \in domains <=> bare = Lower(h) \/ IsSuffix(<<".">> \o Lower(h), bare)
  <2>1. Lower(h) \in Seq(Chars)
    BY HostsAssumption, LowerTyped
  <2>2. Lower(h) \in domains <=>
          \/ SubSeq(bare, 0 + 1, Len(bare)) = Lower(h)
          \/ \E i \in DOMAIN bare : bare[i] = "." /\ SubSeq(bare, i + 1, Len(bare)) = Lower(h)
    BY DEF LabelEnds
  <2> QED
    BY <1>1, <1>3, <2>1, <2>2, EndsInDomain
<1> QED
  BY <1>2, <1>4 DEF bare

HostInv == asked = NoHost \/ \E name \in Seq(STRING) :
                                asked = [name |-> name, allowed |-> AllowsHost(name, Allowlist)]

\* A host is let through if it is on the allow-list or below one that is, and no other
\* is, for every list and every host (policy.py).
THEOREM OwnDomainsAllowed == Spec => []AllowsOwnDomains
<1>1. Init => HostInv
  BY DEF Init, HostsInit, HostInv
<1>2. HostInv /\ [Next]_offlineVars => HostInv'
  <2> SUFFICES ASSUME HostInv, [Next]_offlineVars PROVE HostInv'
    OBVIOUS
  <2>1. HostsNext \/ UNCHANGED asked
    BY DEF Next, HostsRest, offlineVars
  <2>2. AskHost => HostInv'
    BY HostsAssumption DEF AskHost, HostInv
  <2>3. HostReturns \/ UNCHANGED asked => HostInv'
    BY DEF HostReturns, HostInv
  <2> QED
    BY <2>1, <2>2, <2>3 DEF HostsNext
<1>3. HostInv => AllowsOwnDomains
  <2> SUFFICES ASSUME HostInv, asked # NoHost PROVE AllowsOwnDomains
    BY DEF AllowsOwnDomains
  <2>1. PICK name \in Seq(STRING) :
          asked = [name |-> name, allowed |-> AllowsHost(name, Allowlist)]
    BY DEF HostInv
  <2>2. asked.name = name /\ (asked.allowed <=> AllowsHost(name, Allowlist))
    BY <2>1
  <2> QED
    BY <2>2, AllowsDomains DEF AllowsOwnDomains
<1> QED
  BY <1>1, <1>2, <1>3, PTL DEF Spec

-----------------------------------------------------------------------------
(* normalize.py.  A pass gives a text of the kin of the one before: the    *)
(* words correspond, in their order, and lines end between the same words. *)

LEMMA RankOrder ==
    ASSUME NEW P \in SUBSET Nat, IsFiniteSet(P), NEW i \in P, NEW k \in P
    PROVE  i <= k <=> Rank(P, i) <= Rank(P, k)
<1>1. i \in Nat /\ k \in Nat
  OBVIOUS
<1>2. Rank(P, i) \in Nat /\ Rank(P, k) \in Nat
  BY RankInside
<1>3. (i < k => Rank(P, i) < Rank(P, k)) /\ (k < i => Rank(P, k) < Rank(P, i))
  BY RankGrows
<1> QED
  BY <1>1, <1>2, <1>3

\* A rank between two others is that of a place between them.
LEMMA RankBetween ==
    ASSUME NEW P \in SUBSET Nat, IsFiniteSet(P), NEW i \in P, NEW k \in P,
           NEW n \in Nat, Rank(P, i) < n, n < Rank(P, k)
    PROVE  Nth(P, n) \in P /\ i < Nth(P, n) /\ Nth(P, n) < k
<1>1. Rank(P, i) \in 1..Cardinality(P) /\ Rank(P, k) \in 1..Cardinality(P)
      /\ Cardinality(P) \in Nat
  BY RankInside
<1>2. n \in 1..Cardinality(P)
  BY <1>1
<1>3. \A a, b \in 1..Cardinality(P) : a < b => Nth(P, a) < Nth(P, b)
  BY NthIs
<1>4. Nth(P, Rank(P, i)) = i /\ Nth(P, Rank(P, k)) = k /\ Nth(P, n) \in P
  BY <1>2, NthIs
<1> QED
  BY <1>1, <1>2, <1>3, <1>4

\* Neighbours have neighbouring ranks.
LEMMA RankNext ==
    ASSUME NEW P \in SUBSET Nat, IsFiniteSet(P), NEW i \in P, NEW k \in P, i < k,
           \A l \in P : ~(i < l /\ l < k)
    PROVE  Rank(P, k) = Rank(P, i) + 1
<1>1. Rank(P, i) \in Nat /\ Rank(P, k) \in Nat /\ Rank(P, i) < Rank(P, k)
  BY RankInside, RankGrows
<1>2. ~(Rank(P, i) + 1 < Rank(P, k))
  <2>1. SUFFICES ASSUME Rank(P, i) + 1 < Rank(P, k) PROVE FALSE
    OBVIOUS
  <2> DEFINE n == Rank(P, i) + 1
  <2>2. n \in Nat /\ Rank(P, i) < n /\ n < Rank(P, k)
    BY <1>1, <2>1
  <2> HIDE DEF n
  <2>3. Nth(P, n) \in P /\ i < Nth(P, n) /\ Nth(P, n) < k
    BY <2>2, RankBetween
  <2> QED
    BY <2>3
<1> QED
  BY <1>1, <1>2

-----------------------------------------------------------------------------
(* Texts that hold the same words                                          *)

\* Words with nothing between them, but for the half-space of a verb.
Touching(text, i, k) ==
    \/ k = i + 1
    \/ k = i + 2 /\ text[i] \in PREFIXES /\ text[i + 1] = "zwnj" /\ text[k] = "stem"

Leads(a, b, g) ==
    /\ \A j \in WordsAt(b) : \E i \in WordsAt(a) : g[i] = j
    /\ \A i \in WordsAt(a) : b[g[i]] = a[i]
    /\ \A i, k \in WordsAt(a) :
          i < k => /\ g[i] < g[k]
                   /\ Touching(a, i, k) => Touching(b, g[i], g[k])
                   /\ LineEnds(a, i, k) <=> LineEnds(b, g[i], g[k])

Kin(a, b) == \E g \in [WordsAt(a) -> WordsAt(b)] : Leads(a, b, g)

LEMMA KinOfKin ==
    ASSUME NEW a, NEW b, NEW c, Kin(a, b), Kin(b, c)
    PROVE  Kin(a, c)
<1>1. PICK g \in [WordsAt(a) -> WordsAt(b)] : Leads(a, b, g)
  BY DEF Kin
<1>2. PICK h \in [WordsAt(b) -> WordsAt(c)] : Leads(b, c, h)
  BY DEF Kin
<1> DEFINE f == [i \in WordsAt(a) |-> h[g[i]]]
<1>3. f \in [WordsAt(a) -> WordsAt(c)] /\ \A i \in WordsAt(a) : g[i] \in WordsAt(b) /\ f[i] = h[g[i]]
  OBVIOUS
<1> HIDE DEF f
<1>4. \A j \in WordsAt(c) : \E i \in WordsAt(a) : f[i] = j
  BY <1>1, <1>2, <1>3 DEF Leads
<1>5. \A i \in WordsAt(a) : c[f[i]] = a[i]
  BY <1>1, <1>2, <1>3 DEF Leads
<1>6. ASSUME NEW i \in WordsAt(a), NEW k \in WordsAt(a), i < k
      PROVE  /\ f[i] < f[k]
             /\ Touching(a, i, k) => Touching(c, f[i], f[k])
             /\ LineEnds(a, i, k) <=> LineEnds(c, f[i], f[k])
  <2>1. /\ g[i] < g[k]
        /\ Touching(a, i, k) => Touching(b, g[i], g[k])
        /\ LineEnds(a, i, k) <=> LineEnds(b, g[i], g[k])
    BY <1>1, <1>6 DEF Leads
  <2>2. /\ h[g[i]] < h[g[k]]
        /\ Touching(b, g[i], g[k]) => Touching(c, h[g[i]], h[g[k]])
        /\ LineEnds(b, g[i], g[k]) <=> LineEnds(c, h[g[i]], h[g[k]])
    BY <1>2, <1>3, <2>1 DEF Leads
  <2> QED
    BY <1>3, <2>1, <2>2
<1>7. Leads(a, c, f)
  BY <1>4, <1>5, <1>6 DEF Leads
<1> QED
  BY <1>3, <1>7 DEF Kin

\* Places of those that stay with nothing between them, but for the half-space of a verb.
Beside(text, stay, i, k) ==
    \/ \A l \in stay : ~(i < l /\ l < k)
    \/ /\ text[i] \in PREFIXES /\ text[k] = "stem"
       /\ \E m \in stay : /\ i < m /\ m < k /\ text[m] = "zwnj"
                          /\ \A l \in stay : i < l /\ l < k => l = m

LineStays(text, stay, i, k) == \E l \in stay : i <= l /\ l <= k /\ text[l] = "nl"

\* What a place of those that stay becomes.
LEMMA SubAt ==
    ASSUME NEW S, NEW b \in Seq(S), NEW stay \in SUBSET DOMAIN b
    PROVE  /\ stay \in SUBSET Nat /\ IsFiniteSet(stay) /\ Cardinality(stay) \in Nat
           /\ \A l \in stay : /\ Rank(stay, l) \in 1..Cardinality(stay) /\ Rank(stay, l) \in Nat
                              /\ Sub(b, stay)[Rank(stay, l)] = b[l]
           /\ \A n \in 1..Cardinality(stay) : Nth(stay, n) \in stay /\ Rank(stay, Nth(stay, n)) = n
<1>1. /\ stay \in SUBSET Nat /\ IsFiniteSet(stay) /\ Cardinality(stay) \in Nat
      /\ \A n \in 1..Cardinality(stay) : Sub(b, stay)[n] = b[Nth(stay, n)]
  BY SubIs
<1>2. \A n \in 1..Cardinality(stay) : Nth(stay, n) \in stay /\ Rank(stay, Nth(stay, n)) = n
  BY <1>1, NthIs
<1>3. ASSUME NEW l \in stay
      PROVE  /\ Rank(stay, l) \in 1..Cardinality(stay) /\ Rank(stay, l) \in Nat
             /\ Sub(b, stay)[Rank(stay, l)] = b[l]
  <2>1. Rank(stay, l) \in 1..Cardinality(stay)
    BY <1>1, RankInside
  <2>2. Nth(stay, Rank(stay, l)) = l
    BY <1>1, NthIs
  <2>3. Rank(stay, l) \in Nat
    BY <2>1
  <2> QED
    BY <1>1, <2>1, <2>2, <2>3
<1> QED
  BY <1>1, <1>2, <1>3

LEMMA TouchingStays ==
    ASSUME NEW S, NEW b \in Seq(S), NEW stay \in SUBSET DOMAIN b,
           NEW i \in stay, NEW k \in stay, i < k, Beside(b, stay, i, k)
    PROVE  Touching(Sub(b, stay), Rank(stay, i), Rank(stay, k))
<1> DEFINE c == Sub(b, stay)
<1>1. /\ stay \in SUBSET Nat /\ IsFiniteSet(stay)
      /\ \A l \in stay : c[Rank(stay, l)] = b[l] /\ Rank(stay, l) \in Nat
  BY SubAt
<1> HIDE DEF c
<1>2. CASE \A l \in stay : ~(i < l /\ l < k)
  <2>1. Rank(stay, k) = Rank(stay, i) + 1
    BY <1>1, <1>2, RankNext
  <2> QED
    BY <2>1 DEF Touching
<1>3. CASE ~(\A l \in stay : ~(i < l /\ l < k))
  <2>1. /\ b[i] \in PREFIXES /\ b[k] = "stem"
        /\ \E m \in stay : /\ i < m /\ m < k /\ b[m] = "zwnj"
                           /\ \A l \in stay : i < l /\ l < k => l = m
    BY <1>3 DEF Beside
  <2>2. PICK m \in stay : /\ i < m /\ m < k /\ b[m] = "zwnj"
                          /\ \A l \in stay : i < l /\ l < k => l = m
    BY <2>1
  <2>3. i \in Nat /\ k \in Nat /\ m \in Nat /\ \A l \in stay : l \in Nat
    BY <1>1
  <2>4. (\A l \in stay : ~(i < l /\ l < m)) /\ (\A l \in stay : ~(m < l /\ l < k))
    BY <2>2, <2>3
  <2>5. Rank(stay, m) = Rank(stay, i) + 1
    BY <1>1, <2>2, <2>4, RankNext
  <2>6. Rank(stay, k) = Rank(stay, m) + 1
    BY <1>1, <2>2, <2>4, RankNext
  <2>7. c[Rank(stay, i) + 1] = "zwnj" /\ c[Rank(stay, i)] = b[i] /\ c[Rank(stay, k)] = b[k]
    BY <1>1, <2>2, <2>5
  <2>8. Rank(stay, k) = Rank(stay, i) + 2
    <3>1. Rank(stay, i) \in Nat
      BY <1>1
    <3> QED
      BY <2>5, <2>6, <3>1
  <2> QED
    BY <2>1, <2>7, <2>8 DEF Touching, c
<1> QED
  BY <1>2, <1>3 DEF c

LEMMA LineEndStays ==
    ASSUME NEW S, NEW b \in Seq(S), NEW stay \in SUBSET DOMAIN b,
           NEW i \in stay, NEW k \in stay
    PROVE  LineStays(b, stay, i, k) <=> LineEnds(Sub(b, stay), Rank(stay, i), Rank(stay, k))
<1> DEFINE c == Sub(b, stay)
           p == Rank(stay, i)
           q == Rank(stay, k)
<1>1. /\ stay \in SUBSET Nat /\ IsFiniteSet(stay) /\ Cardinality(stay) \in Nat
      /\ \A l \in stay : c[Rank(stay, l)] = b[l] /\ Rank(stay, l) \in 1..Cardinality(stay)
      /\ \A n \in 1..Cardinality(stay) : Nth(stay, n) \in stay /\ Rank(stay, Nth(stay, n)) = n
  BY SubAt
<1>2. p \in 1..Cardinality(stay) /\ q \in 1..Cardinality(stay)
  BY <1>1
<1>3. \A l, m \in stay : l <= m <=> Rank(stay, l) <= Rank(stay, m)
  BY <1>1, RankOrder
<1> HIDE DEF c
<1>4. ASSUME NEW l \in stay, i <= l, l <= k, b[l] = "nl"
      PROVE  LineEnds(c, p, q)
  <2>1. p <= Rank(stay, l) /\ Rank(stay, l) <= q
    BY <1>3, <1>4
  <2> DEFINE n == Rank(stay, l)
  <2>2. n \in 1..Cardinality(stay) /\ c[n] = "nl" /\ p <= n /\ n <= q
    BY <1>1, <1>4, <2>1
  <2> HIDE DEF n, p, q
  <2>3. n \in p..q
    BY <1>1, <1>2, <2>2
  <2> QED
    BY <2>2, <2>3 DEF LineEnds
<1>5. ASSUME NEW n \in p..q, c[n] = "nl"
      PROVE  LineStays(b, stay, i, k)
  <2> DEFINE l == Nth(stay, n)
  <2>1. n \in 1..Cardinality(stay) /\ p <= n /\ n <= q
    <3> HIDE DEF p, q
    <3> QED
      BY <1>1, <1>2, SMTT(40)
  <2>2. l \in stay /\ Rank(stay, l) = n
    BY <1>1, <2>1
  <2>3. b[l] = "nl"
    BY <1>1, <1>5, <2>2
  <2> HIDE DEF l
  <2>4. i <= l /\ l <= k
    BY <1>3, <2>1, <2>2
  <2> QED
    BY <2>2, <2>3, <2>4 DEF LineStays
<1> HIDE DEF p, q
<1>6. LineStays(b, stay, i, k) <=> LineEnds(c, p, q)
  BY <1>4, <1>5 DEF LineEnds, LineStays
<1> QED
  BY <1>6 DEF c, p, q

\* What a substitution must not do: the words of a lead to places of b that stay.
LEMMA SubIsKin ==
    ASSUME NEW S, NEW a \in Seq(S), NEW b \in Seq(S), NEW stay \in SUBSET DOMAIN b,
           NEW h \in [WordsAt(a) -> stay],
           \A k \in stay : b[k] \in Words => \E i \in WordsAt(a) : h[i] = k,
           \A i \in WordsAt(a) : b[h[i]] = a[i],
           \A i, k \in WordsAt(a) :
              i < k => /\ h[i] < h[k]
                       /\ Touching(a, i, k) => Beside(b, stay, h[i], h[k])
                       /\ LineEnds(a, i, k) <=> LineStays(b, stay, h[i], h[k])
    PROVE  Kin(a, Sub(b, stay))
<1> DEFINE c == Sub(b, stay)
           words == WordsAt(a)
           g == [i \in words |-> Rank(stay, h[i])]
<1>1. /\ stay \in SUBSET Nat /\ IsFiniteSet(stay) /\ Cardinality(stay) \in Nat
      /\ c \in Seq(S) /\ Len(c) = Cardinality(stay)
      /\ \A n \in 1..Cardinality(stay) : c[n] = b[Nth(stay, n)]
  BY SubIs
<1> HIDE DEF c, words
<1>2. DOMAIN c = 1..Cardinality(stay) /\ \A i \in words : h[i] \in stay
  BY <1>1 DEF words
<1>3. ASSUME NEW l \in stay
      PROVE  Rank(stay, l) \in 1..Cardinality(stay) /\ c[Rank(stay, l)] = b[l]
             /\ Rank(stay, l) \in Nat
  <2>1. Rank(stay, l) \in 1..Cardinality(stay) /\ Nth(stay, Rank(stay, l)) = l
    BY <1>1, RankInside, NthIs
  <2> QED
    BY <1>1, <2>1
<1>4. \A i \in words : g[i] = Rank(stay, h[i]) /\ g[i] \in 1..Cardinality(stay) /\ c[g[i]] = a[i]
                       /\ g[i] \in Nat
  BY <1>2, <1>3 DEF words
<1>5. g \in [words -> WordsAt(c)]
  <2>1. \A i \in words : a[i] \in Words
    BY DEF words, WordsAt
  <2>2. \A i \in words : g[i] \in WordsAt(c)
    BY <1>2, <1>4, <2>1 DEF WordsAt
  <2> QED
    BY <2>2
<1> HIDE DEF g
<1>6. ASSUME NEW j \in WordsAt(c)
      PROVE  \E i \in words : g[i] = j
  <2>1. j \in 1..Cardinality(stay) /\ c[j] \in Words
    BY <1>2 DEF WordsAt
  <2>2. Nth(stay, j) \in stay /\ Rank(stay, Nth(stay, j)) = j /\ b[Nth(stay, j)] \in Words
    BY <1>1, <2>1, NthIs
  <2>3. PICK i \in words : h[i] = Nth(stay, j)
    BY <2>2 DEF words
  <2> QED
    BY <1>4, <2>2, <2>3
<1>7. ASSUME NEW i \in words, NEW k \in words, i < k
      PROVE  /\ g[i] < g[k]
             /\ Touching(a, i, k) => Touching(c, g[i], g[k])
             /\ LineEnds(a, i, k) <=> LineEnds(c, g[i], g[k])
  <2>1. /\ h[i] \in stay /\ h[k] \in stay /\ h[i] < h[k] /\ h[i] \in Nat /\ h[k] \in Nat
        /\ Touching(a, i, k) => Beside(b, stay, h[i], h[k])
        /\ LineEnds(a, i, k) <=> LineStays(b, stay, h[i], h[k])
    BY <1>1, <1>2, <1>7 DEF words
  <2>2. /\ g[i] = Rank(stay, h[i]) /\ g[k] = Rank(stay, h[k])
        /\ c[g[i]] = b[h[i]] /\ c[g[k]] = b[h[k]] /\ g[i] \in Nat /\ g[k] \in Nat
    BY <1>3, <1>4, <2>1
  <2>3. g[i] < g[k]
    BY <1>1, <2>1, <2>2, RankGrows
  <2>4. Beside(b, stay, h[i], h[k]) => Touching(c, g[i], g[k])
    BY <2>1, <2>2, TouchingStays DEF c
  <2>5. LineStays(b, stay, h[i], h[k]) <=> LineEnds(c, g[i], g[k])
    BY <2>1, <2>2, LineEndStays DEF c
  <2> QED
    BY <2>1, <2>3, <2>4, <2>5
<1>8. Leads(a, c, g)
  BY <1>4, <1>6, <1>7 DEF Leads, words
<1> QED
  BY <1>5, <1>8 DEF Kin, c, words

\* A pass that changes no word and drops none, and of the ends of a line only those
\* that follow another one or stand where there is no word before or after them.
LEMMA PassIsKin ==
    ASSUME NEW S, NEW a \in Seq(S), NEW b \in Seq(S), Len(b) = Len(a),
           NEW stay \in SUBSET (1..Len(a)),
           \A i \in 1..Len(a) : /\ a[i] \in Words => i \in stay /\ b[i] = a[i]
                                /\ b[i] \in Words => a[i] \in Words
                                /\ b[i] = "nl" <=> a[i] = "nl",
           \A i \in (1..Len(a)) \ stay :
              a[i] = "nl" => \/ i > 1 /\ a[i - 1] = "nl"
                             \/ \A k \in WordsAt(a) : i < k
                             \/ \A k \in WordsAt(a) : k < i,
           \A i \in WordsAt(a) : /\ i + 2 <= Len(a) /\ a[i] \in PREFIXES
                                 /\ a[i + 1] = "zwnj" /\ a[i + 2] = "stem"
                                 => b[i + 1] = "zwnj" /\ i + 1 \in stay
    PROVE  Kin(a, Sub(b, stay))
<1> DEFINE words == WordsAt(a)
           h == [i \in words |-> i]
<1>1. /\ DOMAIN a = 1..Len(a) /\ DOMAIN b = 1..Len(a) /\ Len(a) \in Nat
      /\ words = {i \in 1..Len(a) : a[i] \in Words} /\ words \in SUBSET Nat
  BY DEF WordsAt
<1>2. \A i \in words : i \in stay /\ b[i] = a[i] /\ i \in Nat /\ i \in 1..Len(a) /\ h[i] = i
  BY <1>1
<1>3. h \in [words -> stay]
  BY <1>2
<1> HIDE DEF words, h
<1>4. \A k \in stay : b[k] \in Words => \E i \in words : h[i] = k
  BY <1>1, <1>2
<1>5. ASSUME NEW i \in words, NEW k \in words, i < k
      PROVE  /\ Touching(a, i, k) => Beside(b, stay, i, k)
             /\ LineEnds(a, i, k) <=> LineStays(b, stay, i, k)
  <2>1. /\ i \in 1..Len(a) /\ k \in 1..Len(a) /\ i \in stay /\ k \in stay /\ i \in Nat /\ k \in Nat
        /\ b[i] = a[i] /\ b[k] = a[k] /\ a[i] \in Words /\ a[k] \in Words
    BY <1>1, <1>2
  <2>2. \A l \in stay : l \in Nat /\ l \in 1..Len(a)
    OBVIOUS
  <2>3. ASSUME Touching(a, i, k)
        PROVE  Beside(b, stay, i, k)
    <3>1. CASE k = i + 1
      <4>1. \A l \in stay : ~(i < l /\ l < k)
        BY <2>1, <2>2, <3>1
      <4> QED
        BY <4>1 DEF Beside
    <3>2. CASE k = i + 2 /\ a[i] \in PREFIXES /\ a[i + 1] = "zwnj" /\ a[k] = "stem"
      <4>1. i + 2 <= Len(a) /\ a[i + 2] = "stem"
        BY <2>1, <3>2
      <4>2. b[i + 1] = "zwnj" /\ i + 1 \in stay
        BY <3>2, <4>1 DEF words
      <4>3. i < i + 1 /\ i + 1 < k /\ \A l \in stay : i < l /\ l < k => l = i + 1
        BY <2>1, <2>2, <3>2
      <4> QED
        BY <2>1, <3>2, <4>2, <4>3 DEF Beside
    <3> QED
      BY <2>3, <3>1, <3>2 DEF Touching
  <2>4. ASSUME LineStays(b, stay, i, k)
        PROVE  LineEnds(a, i, k)
    <3>1. PICK l \in stay : i <= l /\ l <= k /\ b[l] = "nl"
      BY <2>4 DEF LineStays
    <3>2. l \in i..k /\ a[l] = "nl"
      BY <2>1, <2>2, <3>1
    <3> QED
      BY <3>2 DEF LineEnds
  <2>5. ASSUME LineEnds(a, i, k)
        PROVE  LineStays(b, stay, i, k)
    <3> DEFINE ends == {l \in i..k : a[l] = "nl"}
               first == Min(ends)
    <3>0. \A l \in i..k : l \in 1..Len(a)
      BY <1>1, <2>1
    <3>1. ends # {} /\ ends \in SUBSET (1..Len(a))
      BY <2>5, <3>0 DEF LineEnds
    <3>2. first \in ends /\ \A l \in ends : first <= l
      BY <1>1, <3>1, EndsOfSome
    <3> HIDE DEF first
    <3>3. first \in i..k /\ a[first] = "nl" /\ first \in 1..Len(a) /\ first \in Nat
      BY <2>1, <3>1, <3>2
    <3>4. "nl" \notin Words
      BY DEF Words, PERSIAN, PREFIXES
    <3>5. i < first /\ first < k
      BY <2>1, <3>3, <3>4
    <3>6. ~(first > 1 /\ a[first - 1] = "nl")
      <4>1. SUFFICES ASSUME a[first - 1] = "nl" PROVE FALSE
        OBVIOUS
      <4>2. first - 1 \in i..k /\ ~(first <= first - 1)
        BY <2>1, <3>3, <3>5
      <4> QED
        BY <3>2, <4>1, <4>2
    <3>7. ~(\A l \in words : first < l) /\ ~(\A l \in words : l < first)
      BY <2>1, <3>3, <3>5
    <3>8. first \in stay
      BY <3>3, <3>6, <3>7 DEF words
    <3>9. b[first] = "nl" /\ i <= first /\ first <= k
      BY <2>1, <3>3, <3>5
    <3> QED
      BY <3>8, <3>9 DEF LineStays
  <2> QED
    BY <2>3, <2>4, <2>5
<1>6. \A i, k \in words :
         i < k => /\ h[i] < h[k]
                  /\ Touching(a, i, k) => Beside(b, stay, h[i], h[k])
                  /\ LineEnds(a, i, k) <=> LineStays(b, stay, h[i], h[k])
  BY <1>2, <1>5
<1>7. \A i \in words : b[h[i]] = a[i]
  BY <1>2
<1>8. stay \in SUBSET DOMAIN b
  BY <1>1
<1> QED
  BY <1>3, <1>4, <1>6, <1>7, <1>8, SubIsKin DEF words

\* A pass that only drops.
LEMMA DropIsKin ==
    ASSUME NEW S, NEW a \in Seq(S), NEW stay \in SUBSET (1..Len(a)),
           \A i \in (1..Len(a)) \ stay :
              /\ a[i] \notin Words
              /\ a[i] = "nl" => \/ i > 1 /\ a[i - 1] = "nl"
                                \/ \A k \in WordsAt(a) : i < k
                                \/ \A k \in WordsAt(a) : k < i
              /\ ~(/\ i - 1 \in 1..Len(a) /\ i + 1 \in 1..Len(a) /\ a[i - 1] \in PREFIXES
                   /\ a[i] = "zwnj" /\ a[i + 1] = "stem")
    PROVE  Kin(a, Sub(a, stay)) /\ Sub(a, stay) \in Seq(S)
<1>1. \A i \in 1..Len(a) : a[i] \in Words => i \in stay
  OBVIOUS
<1>2. ASSUME NEW i \in WordsAt(a), i + 2 <= Len(a), a[i] \in PREFIXES, a[i + 1] = "zwnj",
             a[i + 2] = "stem"
      PROVE  i + 1 \in stay
  <2> DEFINE m == i + 1
  <2>1. i \in 1..Len(a) /\ Len(a) \in Nat
    BY DEF WordsAt
  <2>2. m \in 1..Len(a) /\ m - 1 = i /\ m + 1 = i + 2 /\ m + 1 \in 1..Len(a)
    BY <1>2, <2>1
  <2> HIDE DEF m
  <2>3. /\ m - 1 \in 1..Len(a) /\ a[m - 1] \in PREFIXES
        /\ a[m] = "zwnj" /\ a[m + 1] = "stem"
    BY <1>2, <2>1, <2>2 DEF m
  <2>4. m \in stay
    BY <2>2, <2>3
  <2> QED
    BY <2>4 DEF m
<1>3. Kin(a, Sub(a, stay))
  BY <1>1, <1>2, PassIsKin
<1>4. stay \in SUBSET DOMAIN a
  OBVIOUS
<1> QED
  BY <1>3, <1>4, SubIs

-----------------------------------------------------------------------------
(* The passes                                                              *)

LEMMA LettersDiffer ==
    /\ "sp" \notin Words /\ "zwnj" \notin Words /\ "nl" \notin Words /\ "edge" \notin Words
    /\ "tab" \notin Words /\ "nbsp" \notin Words
    /\ PERSIAN \subseteq Words /\ PREFIXES \subseteq PERSIAN /\ "stem" \in PERSIAN
    /\ \A x \in GAP : x \notin Words /\ x # "nl"
    /\ "zwnj" \in Atoms /\ "sp" \in Atoms
  BY DEF Words, PERSIAN, PREFIXES, GAP, Atoms

LEMMA HalfSpacedIsKin ==
    ASSUME NEW a \in Seq(Atoms), NEW gaps, \A i \in gaps : i \in 1..Len(a) /\ a[i] \in GAP
    PROVE  Kin(a, HalfSpaced(a, gaps)) /\ HalfSpaced(a, gaps) \in Seq(Atoms)
<1> DEFINE b == [i \in DOMAIN a |-> IF i \in gaps THEN "zwnj" ELSE a[i]]
           stay == {i \in DOMAIN a : i \in gaps => i = RunStart(a, i, GAP)}
<1>1. HalfSpaced(a, gaps) = Sub(b, stay)
  BY DEF HalfSpaced
<1>2. /\ DOMAIN a = 1..Len(a) /\ Len(a) \in Nat /\ \A i \in 1..Len(a) : a[i] \in Atoms
  OBVIOUS
<1>3. b \in Seq(Atoms) /\ Len(b) = Len(a)
  <2>1. \A i \in 1..Len(a) : (IF i \in gaps THEN "zwnj" ELSE a[i]) \in Atoms
    BY <1>2, LettersDiffer
  <2>2. b = [i \in 1..Len(a) |-> IF i \in gaps THEN "zwnj" ELSE a[i]]
    BY <1>2
  <2> QED
    BY <1>2, <2>1, <2>2
<1>4. \A i \in 1..Len(a) : b[i] = IF i \in gaps THEN "zwnj" ELSE a[i]
  BY <1>2
<1>5. stay \in SUBSET (1..Len(a)) /\ stay \in SUBSET DOMAIN b
      /\ \A i \in 1..Len(a) : i \notin gaps => i \in stay
  BY <1>2, <1>3
<1>6. ASSUME NEW i \in WordsAt(a), i + 2 <= Len(a), a[i] \in PREFIXES, a[i + 1] = "zwnj"
      PROVE  i + 1 \in stay /\ b[i + 1] = "zwnj"
  <2> DEFINE m == i + 1
             run == {j \in 1..m : \A k \in j..m : a[k] \in GAP}
  <2>1. i \in 1..Len(a) /\ i \in Nat /\ a[i] \notin GAP
    <3>1. i \in 1..Len(a) /\ a[i] \in Words
      BY <1>2 DEF WordsAt
    <3> QED
      BY <3>1, LettersDiffer
  <2>2. m \in 1..Len(a) /\ m \in 1..m /\ i \in 1..m
    BY <1>2, <1>6, <2>1
  <2>3. run = {m}
    <3>1. \A j \in 1..m : j # m => i \in j..m
      BY <2>1
    <3>2. \A k \in m..m : k = m
      BY <2>1
    <3>3. a[m] \in GAP
      BY <1>6 DEF GAP
    <3> HIDE DEF m
    <3> QED
      BY <2>1, <2>2, <3>1, <3>2, <3>3
  <2>4. RunStart(a, m, GAP) = m
    <3>1. RunStart(a, m, GAP) = Min(run)
      BY DEF RunStart
    <3>2. {m} \in SUBSET (1..Len(a)) /\ {m} # {}
      BY <2>2
    <3> HIDE DEF m, run
    <3>3. Min({m}) \in {m}
      BY <1>2, <3>2, EndsOfSome
    <3> QED
      BY <2>3, <3>1, <3>3
  <2>5. b[m] = "zwnj"
    BY <1>4, <1>6, <2>2
  <2>6. m \in stay
    BY <1>2, <2>2, <2>4
  <2> QED
    BY <2>5, <2>6
<1> HIDE DEF b, stay
<1>7. \A i \in 1..Len(a) : /\ a[i] \in Words => i \in stay /\ b[i] = a[i]
                           /\ b[i] \in Words => a[i] \in Words
                           /\ b[i] = "nl" <=> a[i] = "nl"
  BY <1>4, <1>5, LettersDiffer
<1>8. \A i \in (1..Len(a)) \ stay : a[i] # "nl"
  BY <1>5, LettersDiffer
<1>9. Kin(a, Sub(b, stay))
  BY <1>3, <1>5, <1>6, <1>7, <1>8, PassIsKin
<1> QED
  BY <1>1, <1>3, <1>5, <1>9, SubIs

LEMMA SpacedIsKin ==
    ASSUME NEW a \in Seq(Atoms)
    PROVE  /\ Kin(a, PrefixSpaced(a)) /\ PrefixSpaced(a) \in Seq(Atoms)
           /\ Kin(a, SuffixSpaced(a)) /\ SuffixSpaced(a) \in Seq(Atoms)
<1> DEFINE before == {i \in DOMAIN a :
                        /\ a[i] \in GAP
                        /\ At(a, RunStart(a, i, GAP) - 1) \in PREFIXES
                        /\ StartsWord(a, RunStart(a, i, GAP) - 1)
                        /\ At(a, RunEnd(a, i, GAP) + 1) \in PERSIAN}
           after == {i \in DOMAIN a :
                       /\ a[i] \in GAP
                       /\ At(a, RunStart(a, i, GAP) - 1) \in PERSIAN
                       /\ \/ At(a, RunStart(a, i, GAP) - 1) \notin {"o", "mark"}
                          \/ At(a, RunStart(a, i, GAP) - 2) \in PERSIAN
                       /\ At(a, RunEnd(a, i, GAP) + 1) = "ha"
                       /\ EndsWord(a, RunEnd(a, i, GAP) + 1)}
<1>1. DOMAIN a = 1..Len(a)
  OBVIOUS
<1>2. /\ \A i \in before : i \in 1..Len(a) /\ a[i] \in GAP
      /\ \A i \in after : i \in 1..Len(a) /\ a[i] \in GAP
  BY <1>1
<1>3. PrefixSpaced(a) = HalfSpaced(a, before)
  BY DEF PrefixSpaced
<1>4. SuffixSpaced(a) = HalfSpaced(a, after)
  BY DEF SuffixSpaced
<1> HIDE DEF before, after
<1> QED
  BY <1>2, <1>3, <1>4, HalfSpacedIsKin

LEMMA Doubled ==
    /\ \A i \in Nat : (2 * i - 1) % 2 = 1 /\ ((2 * i - 1) + 1) \div 2 = i
    /\ \A i \in Nat : (2 * i) % 2 = 0
    /\ \A i, k \in Nat : 2 * i - 1 < 2 * k => i < k \/ i = k
  OBVIOUS

LEMMA AttachedIsKin ==
    ASSUME NEW a \in Seq(Atoms)
    PROVE  Kin(a, PrefixAttached(a)) /\ PrefixAttached(a) \in Seq(Atoms)
<1> DEFINE n == Len(a)
           verbs == {i \in DOMAIN a : /\ a[i] \in PREFIXES /\ StartsWord(a, i)
                                      /\ At(a, i + 1) = "stem" /\ EndsWord(a, i + 1)}
           b == [m \in 1..(2 * n) |-> IF m % 2 = 1 THEN a[(m + 1) \div 2] ELSE "zwnj"]
           stay == {2 * i - 1 : i \in DOMAIN a} \cup {2 * i : i \in verbs}
           words == WordsAt(a)
           h == [i \in words |-> 2 * i - 1]
<1>1. PrefixAttached(a) = Sub(b, stay)
  BY DEF PrefixAttached, Attached
<1>2. /\ n \in Nat /\ DOMAIN a = 1..n /\ \A i \in 1..n : i \in Nat /\ i >= 1 /\ a[i] \in Atoms
      /\ verbs \in SUBSET (1..n)
  OBVIOUS
<1>3. \A i \in verbs : a[i] \in PREFIXES /\ i + 1 \in 1..n /\ a[i + 1] = "stem"
  BY <1>2 DEF At
<1>4. \A i \in words : i \in 1..n /\ a[i] \in Words
  BY <1>2 DEF WordsAt
<1>5. \A i \in 1..n : a[i] \in Words => i \in words
  BY <1>2 DEF WordsAt
<1> HIDE DEF n, verbs, words
<1>6. \A i \in 1..n : /\ 2 * i - 1 \in 1..(2 * n) /\ b[2 * i - 1] = a[i]
                      /\ 2 * i \in 1..(2 * n) /\ b[2 * i] = "zwnj"
  <2>1. SUFFICES ASSUME NEW i \in 1..n
                 PROVE  /\ 2 * i - 1 \in 1..(2 * n) /\ b[2 * i - 1] = a[i]
                        /\ 2 * i \in 1..(2 * n) /\ b[2 * i] = "zwnj"
    OBVIOUS
  <2>2. /\ 2 * i - 1 \in 1..(2 * n) /\ 2 * i \in 1..(2 * n) /\ i \in Nat
    BY <1>2
  <2>3. (2 * i - 1) % 2 = 1 /\ ((2 * i - 1) + 1) \div 2 = i /\ (2 * i) % 2 = 0
    BY <2>2, Doubled
  <2> QED
    BY <2>2, <2>3
<1>7. b \in Seq(Atoms) /\ DOMAIN b = 1..(2 * n)
  <2>1. \A m \in 1..(2 * n) : (IF m % 2 = 1 THEN a[(m + 1) \div 2] ELSE "zwnj") \in Atoms
    <3> SUFFICES ASSUME NEW m \in 1..(2 * n), m % 2 = 1
                 PROVE  a[(m + 1) \div 2] \in Atoms
      BY LettersDiffer
    <3>1. (m + 1) \div 2 \in 1..n
      BY <1>2
    <3> QED
      BY <1>2, <3>1
  <2>2. 2 * n \in Nat
    BY <1>2
  <2> QED
    BY <2>1, <2>2
\* Where what stays comes from: an atom, or the half-space after a verb's prefix.
<1>8. \A l \in stay : \/ \E i \in 1..n : l = 2 * i - 1
                      \/ \E i \in verbs : l = 2 * i
  BY <1>2
<1>9. stay \in SUBSET (1..(2 * n)) /\ (\A i \in 1..n : 2 * i - 1 \in stay)
      /\ (\A i \in verbs : 2 * i \in stay)
  BY <1>2, <1>6, <1>8
<1> HIDE DEF b, stay
<1>10. h \in [words -> stay] /\ \A i \in words : h[i] = 2 * i - 1
  BY <1>4, <1>9
<1>11. \A k \in stay : b[k] \in Words => \E i \in words : h[i] = k
  <2> SUFFICES ASSUME NEW k \in stay, b[k] \in Words
               PROVE  \E i \in words : h[i] = k
    OBVIOUS
  <2>1. PICK i \in 1..n : k = 2 * i - 1
    BY <1>2, <1>6, <1>8, LettersDiffer
  <2>2. i \in words
    BY <1>5, <1>6, <2>1
  <2> QED
    BY <1>10, <2>1, <2>2
<1>12. \A i \in words : b[h[i]] = a[i]
  BY <1>4, <1>6, <1>10
<1>13. ASSUME NEW i \in words, NEW k \in words, i < k
       PROVE  /\ h[i] < h[k]
              /\ Touching(a, i, k) => Beside(b, stay, h[i], h[k])
              /\ LineEnds(a, i, k) <=> LineStays(b, stay, h[i], h[k])
  <2> DEFINE p == 2 * i - 1
             q == 2 * k - 1
  <2>1. /\ i \in 1..n /\ k \in 1..n /\ i \in Nat /\ k \in Nat /\ h[i] = p /\ h[k] = q /\ p < q
        /\ b[p] = a[i] /\ b[q] = a[k]
    BY <1>2, <1>4, <1>6, <1>10, <1>13
  <2>2. ASSUME k = i + 1
        PROVE  Beside(b, stay, p, q)
    <3>1. ASSUME NEW l \in stay, p < l, l < q
          PROVE  l = 2 * i /\ i \in verbs
      <4>1. ASSUME NEW j \in 1..n, l = 2 * j - 1
            PROVE  FALSE
        BY <1>2, <2>1, <2>2, <3>1, <4>1
      <4>2. ASSUME NEW j \in verbs, l = 2 * j
            PROVE  j = i
        <5>1. j \in Nat
          BY <1>2
        <5> QED
          BY <2>1, <2>2, <3>1, <4>2, <5>1
      <4> QED
        BY <1>8, <4>1, <4>2
    <3>2. CASE i \notin verbs
      BY <3>1, <3>2 DEF Beside
    <3>3. CASE i \in verbs
      <4>1. a[i] \in PREFIXES /\ a[k] = "stem"
        BY <1>3, <2>2, <3>3
      <4>2. 2 * i \in stay /\ b[2 * i] = "zwnj" /\ p < 2 * i /\ 2 * i < q
        BY <1>6, <1>9, <2>1, <2>2, <3>3
      <4> QED
        BY <2>1, <3>1, <4>1, <4>2 DEF Beside
    <3> QED
      BY <3>2, <3>3
  <2>3. ASSUME k = i + 2, a[i] \in PREFIXES, a[i + 1] = "zwnj", a[k] = "stem"
        PROVE  Beside(b, stay, p, q)
    <3>1. i + 1 \in 1..n
      BY <1>2, <2>1, <2>3
    <3>2. i \notin verbs /\ i + 1 \notin verbs
      <4>1. "zwnj" # "stem" /\ "zwnj" \notin PREFIXES
        BY DEF PREFIXES
      <4> QED
        BY <1>3, <2>3, <4>1
    <3>3. ASSUME NEW l \in stay, p < l, l < q
          PROVE  l = 2 * i + 1
      <4>1. ASSUME NEW j \in 1..n, l = 2 * j - 1
            PROVE  l = 2 * i + 1
        <5>1. j \in Nat
          BY <1>2
        <5> QED
          BY <2>1, <2>3, <3>3, <4>1, <5>1
      <4>2. ASSUME NEW j \in verbs, l = 2 * j
            PROVE  FALSE
        <5>1. j \in Nat
          BY <1>2
        <5>2. j = i \/ j = i + 1
          BY <2>1, <2>3, <3>3, <4>2, <5>1
        <5> QED
          BY <3>2, <5>2
      <4> QED
        BY <1>8, <2>1, <4>1, <4>2
    <3>4. 2 * (i + 1) - 1 \in stay /\ b[2 * (i + 1) - 1] = "zwnj" /\ 2 * (i + 1) - 1 = 2 * i + 1
      BY <1>6, <1>9, <2>1, <2>3, <3>1, SMTT(40)
    <3>5. 2 * i + 1 \in stay /\ b[2 * i + 1] = "zwnj" /\ p < 2 * i + 1 /\ 2 * i + 1 < q
      BY <2>1, <2>3, <3>4
    <3> HIDE DEF p, q
    <3> QED
      BY <2>1, <2>3, <3>3, <3>5 DEF Beside
  <2>4. ASSUME LineEnds(a, i, k)
        PROVE  LineStays(b, stay, p, q)
    <3>1. PICK l \in i..k : a[l] = "nl"
      BY <2>4 DEF LineEnds
    <3>2. l \in 1..n /\ l \in Nat /\ i <= l /\ l <= k
      BY <1>2, <2>1
    <3>3. 2 * l - 1 \in stay /\ b[2 * l - 1] = "nl" /\ p <= 2 * l - 1 /\ 2 * l - 1 <= q
      BY <1>6, <1>9, <2>1, <3>1, <3>2, SMTT(40)
    <3> QED
      BY <3>3 DEF LineStays
  <2>5. ASSUME LineStays(b, stay, p, q)
        PROVE  LineEnds(a, i, k)
    <3>1. PICK l \in stay : p <= l /\ l <= q /\ b[l] = "nl"
      BY <2>5 DEF LineStays
    <3>2. PICK j \in 1..n : l = 2 * j - 1
      BY <1>2, <1>6, <1>8, <3>1
    <3>3. j \in i..k /\ a[j] = "nl"
      BY <1>2, <1>6, <2>1, <3>1, <3>2
    <3> QED
      BY <3>3 DEF LineEnds
  <2> HIDE DEF p, q
  <2> QED
    BY <2>1, <2>2, <2>3, <2>4, <2>5 DEF Touching
<1>14. stay \in SUBSET DOMAIN b
  BY <1>7, <1>9
<1>15. Kin(a, Sub(b, stay))
  BY <1>7, <1>10, <1>11, <1>12, <1>13, <1>14, SubIsKin DEF words
<1> QED
  BY <1>1, <1>7, <1>14, <1>15, SubIs

LEMMA AtIs ==
    ASSUME NEW S, NEW a \in Seq(S), NEW i \in Int
    PROVE  /\ i \in 1..Len(a) => At(a, i) = a[i]
           /\ At(a, i) # "edge" => i \in 1..Len(a)
  BY DEF At

LEMMA ZwnjIsKin ==
    ASSUME NEW a \in Seq(Atoms)
    PROVE  /\ Kin(a, ZwnjRun(a)) /\ ZwnjRun(a) \in Seq(Atoms)
           /\ Kin(a, ZwnjAtEdge(a)) /\ ZwnjAtEdge(a) \in Seq(Atoms)
<1> DEFINE once == {i \in DOMAIN a : a[i] = "zwnj" => At(a, i - 1) # "zwnj"}
           inner == {i \in DOMAIN a : a[i] = "zwnj" => ~StartsWord(a, i) /\ ~EndsWord(a, i)}
<1>1. ZwnjRun(a) = Sub(a, once) /\ ZwnjAtEdge(a) = Sub(a, inner)
  BY DEF ZwnjRun, ZwnjAtEdge
<1>2. once \in SUBSET (1..Len(a)) /\ inner \in SUBSET (1..Len(a))
  OBVIOUS
<1>3. "zwnj" \notin PREFIXES /\ "zwnj" # "nl" /\ "zwnj" \notin Words
      /\ PREFIXES \subseteq PERSIAN /\ "stem" \in PERSIAN
  BY LettersDiffer DEF PREFIXES
<1>4. ASSUME NEW i \in (1..Len(a)) \ once
      PROVE  /\ a[i] \notin Words /\ a[i] # "nl"
             /\ ~(i - 1 \in 1..Len(a) /\ a[i - 1] \in PREFIXES)
  <2>1. a[i] = "zwnj" /\ At(a, i - 1) = "zwnj"
    OBVIOUS
  <2> QED
    BY <1>3, <2>1, AtIs
<1>5. ASSUME NEW i \in (1..Len(a)) \ inner
      PROVE  /\ a[i] \notin Words /\ a[i] # "nl"
             /\ ~(/\ i - 1 \in 1..Len(a) /\ i + 1 \in 1..Len(a) /\ a[i - 1] \in PREFIXES
                  /\ a[i + 1] = "stem")
  <2>1. a[i] = "zwnj" /\ (At(a, i - 1) \notin PERSIAN \/ At(a, i + 1) \notin PERSIAN)
    BY DEF StartsWord, EndsWord
  <2>2. (i - 1 \in 1..Len(a) => At(a, i - 1) = a[i - 1])
        /\ (i + 1 \in 1..Len(a) => At(a, i + 1) = a[i + 1])
    BY AtIs
  <2> QED
    BY <1>3, <2>1, <2>2
<1> HIDE DEF once, inner
<1>6. Kin(a, Sub(a, once)) /\ Sub(a, once) \in Seq(Atoms)
  BY <1>2, <1>4, DropIsKin
<1>7. Kin(a, Sub(a, inner)) /\ Sub(a, inner) \in Seq(Atoms)
  BY <1>2, <1>5, DropIsKin
<1> QED
  BY <1>1, <1>6, <1>7

LEMMA SpacesIsKin ==
    ASSUME NEW a \in Seq(Atoms)
    PROVE  Kin(a, Spaces(a)) /\ Spaces(a) \in Seq(Atoms)
<1> DEFINE blank == {"sp", "tab", "nbsp"}
           b == [i \in DOMAIN a |-> IF a[i] \in blank THEN "sp" ELSE a[i]]
           stay == {i \in DOMAIN a : a[i] \in blank => At(a, i - 1) \notin blank}
<1>1. Spaces(a) = Sub(b, stay)
  BY DEF Spaces
<1>2. /\ DOMAIN a = 1..Len(a) /\ Len(a) \in Nat /\ \A i \in 1..Len(a) : a[i] \in Atoms
  OBVIOUS
<1>3. b \in Seq(Atoms) /\ Len(b) = Len(a)
  <2>1. \A i \in 1..Len(a) : (IF a[i] \in blank THEN "sp" ELSE a[i]) \in Atoms
    BY <1>2, LettersDiffer
  <2>2. b = [i \in 1..Len(a) |-> IF a[i] \in blank THEN "sp" ELSE a[i]]
    BY <1>2
  <2> QED
    BY <1>2, <2>1, <2>2
<1>4. "sp" \notin Words /\ "nl" \notin blank /\ "zwnj" \notin blank /\ "sp" # "nl"
      /\ \A x \in blank : x \notin Words
  BY LettersDiffer
<1>5. \A i \in 1..Len(a) : /\ b[i] = IF a[i] \in blank THEN "sp" ELSE a[i]
                           /\ a[i] \notin blank => i \in stay
  BY <1>2
<1>6. stay \in SUBSET (1..Len(a)) /\ stay \in SUBSET DOMAIN b
  BY <1>2, <1>3
<1> HIDE DEF blank, b, stay
<1>7. \A i \in 1..Len(a) : /\ a[i] \in Words => i \in stay /\ b[i] = a[i]
                           /\ b[i] \in Words => a[i] \in Words
                           /\ b[i] = "nl" <=> a[i] = "nl"
  BY <1>4, <1>5
<1>8. \A i \in (1..Len(a)) \ stay : a[i] # "nl"
  BY <1>4, <1>5
<1>9. ASSUME NEW i \in WordsAt(a), i + 2 <= Len(a), a[i + 1] = "zwnj"
      PROVE  b[i + 1] = "zwnj" /\ i + 1 \in stay
  <2>1. i + 1 \in 1..Len(a)
    BY <1>2, <1>9 DEF WordsAt
  <2> QED
    BY <1>4, <1>5, <1>9, <2>1
<1>10. Kin(a, Sub(b, stay))
  BY <1>3, <1>6, <1>7, <1>8, <1>9, PassIsKin
<1> QED
  BY <1>1, <1>3, <1>6, <1>10, SubIs

LEMMA LinesAreKin ==
    ASSUME NEW a \in Seq(Atoms)
    PROVE  /\ Kin(a, BlankLines(a)) /\ BlankLines(a) \in Seq(Atoms)
           /\ Kin(a, StripLines(a)) /\ StripLines(a) \in Seq(Atoms)
           /\ Kin(a, StripText(a)) /\ StripText(a) \in Seq(Atoms)
<1> DEFINE two == {i \in DOMAIN a :
                      a[i] = "nl" => At(a, i - 1) # "nl" \/ At(a, i - 2) # "nl"}
           inner == {i \in DOMAIN a : ~AtEdge(a, i)}
           full == {i \in DOMAIN a : a[i] \notin {"sp", "nl"}}
           mid == {i \in DOMAIN a : \E j, k \in full : j <= i /\ i <= k}
<1>1. BlankLines(a) = Sub(a, two) /\ StripLines(a) = Sub(a, inner) /\ StripText(a) = Sub(a, mid)
  BY DEF BlankLines, StripLines, StripText
<1>2. /\ two \in SUBSET (1..Len(a)) /\ inner \in SUBSET (1..Len(a)) /\ mid \in SUBSET (1..Len(a))
      /\ DOMAIN a = 1..Len(a)
  OBVIOUS
<1>3. "sp" \notin Words /\ "nl" \notin Words /\ "sp" # "nl" /\ "sp" # "zwnj" /\ "nl" # "zwnj"
      /\ "nl" # "edge"
  BY LettersDiffer
<1>4. ASSUME NEW i \in (1..Len(a)) \ two
      PROVE  /\ a[i] \notin Words /\ a[i] # "zwnj"
             /\ i > 1 /\ a[i - 1] = "nl"
  <2>1. a[i] = "nl" /\ At(a, i - 1) = "nl"
    BY <1>2
  <2>2. i - 1 \in Int /\ At(a, i - 1) # "edge"
    BY <1>3, <2>1
  <2>3. i - 1 \in 1..Len(a) /\ At(a, i - 1) = a[i - 1]
    BY <2>2, AtIs
  <2> QED
    BY <1>3, <2>1, <2>3
<1>5. ASSUME NEW i \in (1..Len(a)) \ inner
      PROVE  a[i] \notin Words /\ a[i] # "nl" /\ a[i] # "zwnj"
  BY <1>2, <1>3 DEF AtEdge
<1>6. ASSUME NEW i \in (1..Len(a)) \ mid
      PROVE  /\ a[i] \notin Words /\ a[i] # "zwnj"
             /\ (\A k \in WordsAt(a) : i < k) \/ (\A k \in WordsAt(a) : k < i)
  <2>1. i \in 1..Len(a) /\ i <= i /\ ~\E j, k \in full : j <= i /\ i <= k
    BY <1>2
  <2>2. i \notin full
    BY <2>1
  <2>3. a[i] \in {"sp", "nl"}
    BY <1>2, <2>1, <2>2
  <2>4. \A k \in WordsAt(a) : k \in full /\ k \in Nat
    BY <1>2, <1>3 DEF WordsAt
  <2>5. (\A j \in full : ~(j <= i)) \/ (\A k \in full : ~(i <= k))
    BY <2>1
  <2>6. i \in Nat
    BY <2>1
  <2> HIDE DEF full
  <2>7. (\A k \in WordsAt(a) : i < k) \/ (\A k \in WordsAt(a) : k < i)
    BY <2>4, <2>5, <2>6
  <2> QED
    BY <1>3, <2>3, <2>7
<1> HIDE DEF two, inner, mid
<1>7. Kin(a, Sub(a, two)) /\ Sub(a, two) \in Seq(Atoms)
  BY <1>2, <1>4, DropIsKin
<1>8. Kin(a, Sub(a, inner)) /\ Sub(a, inner) \in Seq(Atoms)
  BY <1>2, <1>5, DropIsKin
<1>9. Kin(a, Sub(a, mid)) /\ Sub(a, mid) \in Seq(Atoms)
  BY <1>2, <1>6, DropIsKin
<1> QED
  BY <1>1, <1>7, <1>8, <1>9

LEMMA FoldTyped ==
    ASSUME NEW text \in Seq(Atoms)
    PROVE  Fold(Compose(text)) \in Seq(Atoms)
<1> DEFINE a == Compose(text)
           places == {i \in DOMAIN a : a[i] \notin INVISIBLE \cup DIACRITICS}
           visible == Sub(a, places)
<1>1. a \in Seq(Atoms)
  <2>1. a = [i \in 1..Len(text) |-> IF text[i] = "nbsp" THEN "sp" ELSE text[i]]
    BY DEF Compose
  <2>2. \A i \in 1..Len(text) : (IF text[i] = "nbsp" THEN "sp" ELSE text[i]) \in Atoms
    BY LettersDiffer
  <2> HIDE DEF a
  <2> QED
    BY <2>1, <2>2
<1>2. Fold(a) = [i \in DOMAIN visible |-> IF visible[i] \in DOMAIN LETTERS THEN LETTERS[visible[i]]
                                                                     ELSE visible[i]]
  BY DEF Fold
<1> HIDE DEF a
<1>3. places \in SUBSET DOMAIN a
  OBVIOUS
<1> HIDE DEF places
<1>4. visible \in Seq(Atoms)
  BY <1>1, <1>3, SubIs
<1> HIDE DEF visible
<1>5. \A x \in DOMAIN LETTERS : LETTERS[x] \in Atoms
  BY DEF LETTERS, Atoms, PERSIAN
<1>6. \A i \in 1..Len(visible) :
         (IF visible[i] \in DOMAIN LETTERS THEN LETTERS[visible[i]] ELSE visible[i]) \in Atoms
  BY <1>4, <1>5
<1>7. Fold(a) \in Seq(Atoms)
  BY <1>2, <1>4, <1>6
<1> QED
  BY <1>7 DEF a

LEMMA NormalIsKin ==
    ASSUME NEW text \in Seq(Atoms)
    PROVE  Kin(Fold(Compose(text)), Normal(text)) /\ Normal(text) \in Seq(Atoms)
<1> DEFINE a == Fold(Compose(text))
           b == PrefixSpaced(a)
           c == PrefixAttached(b)
           d == SuffixSpaced(c)
           e == ZwnjRun(d)
           f == ZwnjAtEdge(e)
           g == Spaces(f)
           h == BlankLines(g)
           i == StripLines(h)
           j == StripText(i)
<1>1. Normal(text) = j
  BY DEF Normal
<1>2. a \in Seq(Atoms)
  BY FoldTyped
<1> HIDE DEF a
<1>3. b \in Seq(Atoms) /\ Kin(a, b)
  BY <1>2, SpacedIsKin
<1> HIDE DEF b
<1>4. c \in Seq(Atoms) /\ Kin(b, c)
  BY <1>3, AttachedIsKin
<1> HIDE DEF c
<1>5. d \in Seq(Atoms) /\ Kin(c, d)
  BY <1>4, SpacedIsKin
<1> HIDE DEF d
<1>6. e \in Seq(Atoms) /\ Kin(d, e)
  BY <1>5, ZwnjIsKin
<1> HIDE DEF e
<1>7. f \in Seq(Atoms) /\ Kin(e, f)
  BY <1>6, ZwnjIsKin
<1> HIDE DEF f
<1>8. g \in Seq(Atoms) /\ Kin(f, g)
  BY <1>7, SpacesIsKin
<1> HIDE DEF g
<1>9. h \in Seq(Atoms) /\ Kin(g, h)
  BY <1>8, LinesAreKin
<1> HIDE DEF h
<1>10. i \in Seq(Atoms) /\ Kin(h, i)
  BY <1>9, LinesAreKin
<1> HIDE DEF i
<1>11. j \in Seq(Atoms) /\ Kin(i, j)
  BY <1>10, LinesAreKin
<1> HIDE DEF j
<1>12. Kin(a, d)
  BY <1>3, <1>4, <1>5, KinOfKin
<1>13. Kin(a, g)
  BY <1>6, <1>7, <1>8, <1>12, KinOfKin
<1>14. Kin(a, j)
  BY <1>9, <1>10, <1>11, <1>13, KinOfKin
<1> QED
  BY <1>1, <1>11, <1>14 DEF a

-----------------------------------------------------------------------------
(* What follows for a text that has been normalised                        *)

\* All that is known of the text in hand: what it was, and what normalize made of it.
NormalizeInv ==
    \/ normalized = NoWriting
    \/ normalized.from \in Seq(Atoms) /\ normalized.to = Normal(normalized.from)

LEMMA NormalizeNextOK == NormalizeInv /\ [Next]_offlineVars => NormalizeInv'
<1> SUFFICES ASSUME NormalizeInv, [Next]_offlineVars
             PROVE  NormalizeInv'
  OBVIOUS
<1>1. CASE Normalizes
  <2>1. PICK text \in Writings : normalized' = [from |-> text, to |-> Normal(text)]
    BY <1>1 DEF Normalizes
  <2>2. normalized'.from = text /\ normalized'.to = Normal(text) /\ text \in Seq(Atoms)
    BY <2>1, WritingsAssumption
  <2> QED
    BY <2>2 DEF NormalizeInv
<1>2. CASE NormalizeReturns
  BY <1>2 DEF NormalizeReturns, NormalizeInv
<1>3. CASE UNCHANGED normalized
  BY <1>3 DEF NormalizeInv
<1>4. Normalizes \/ NormalizeReturns \/ UNCHANGED normalized
  BY DEF Next, NormalizeNext, NormalizeRests, offlineVars
<1> QED
  BY <1>1, <1>2, <1>3, <1>4

LEMMA NormalizeInvariance == Spec => []NormalizeInv
<1>1. Init => NormalizeInv
  BY DEF Init, NormalizeInit, NormalizeInv
<1> QED
  BY <1>1, NormalizeNextOK, PTL DEF Spec

\* The words of two texts of a kin correspond by their ranks.
LEMMA KinByRank ==
    ASSUME NEW S, NEW a \in Seq(S), NEW T, NEW b \in Seq(T), Kin(a, b)
    PROVE  \E g \in [WordsAt(a) -> WordsAt(b)] :
              /\ Leads(a, b, g)
              /\ Cardinality(WordsAt(a)) = Cardinality(WordsAt(b))
              /\ \A i \in WordsAt(a), j \in WordsAt(b) :
                    Rank(WordsAt(a), i) = Rank(WordsAt(b), j) => j = g[i]
<1> DEFINE Q == WordsAt(a)
           R == WordsAt(b)
<1>1. PICK g \in [Q -> R] : Leads(a, b, g)
  BY DEF Kin
<1>2. Q \in SUBSET Nat /\ IsFiniteSet(Q) /\ R \in SUBSET Nat /\ IsFiniteSet(R)
  <2>1. Q \in SUBSET DOMAIN a /\ R \in SUBSET DOMAIN b /\ DOMAIN a = 1..Len(a) /\ DOMAIN b = 1..Len(b)
    BY DEF WordsAt
  <2> HIDE DEF Q, R
  <2> QED
    BY <2>1, PlacesFinite
<1>3. (\A i, k \in Q : i < k => g[i] < g[k]) /\ \A j \in R : \E i \in Q : g[i] = j
  BY <1>1 DEF Leads
<1> HIDE DEF Q, R
<1>4. /\ Cardinality(R) = Cardinality(Q)
      /\ \A i \in Q : Rank(R, g[i]) = Rank(Q, i)
  BY <1>2, <1>3, RankOfImage
<1>5. \A j, l \in R : Rank(R, j) = Rank(R, l) => j = l
  BY <1>2, RankReached
<1>6. \A i \in Q, j \in R : Rank(Q, i) = Rank(R, j) => j = g[i]
  BY <1>4, <1>5
<1> QED
  BY <1>1, <1>4, <1>6 DEF Q, R

\* The words of a text of the kin, and where its lines end, are those of the text.
LEMMA KinWords ==
    ASSUME NEW a \in Seq(Atoms), NEW b \in Seq(Atoms), Kin(a, b)
    PROVE  /\ Cardinality(WordsAt(a)) = Cardinality(WordsAt(b))
           /\ \A i \in WordsAt(a), j \in WordsAt(b) :
                 Rank(WordsAt(a), i) = Rank(WordsAt(b), j) => b[j] = a[i]
           /\ \A i, k \in WordsAt(a), j, l \in WordsAt(b) :
                 i < k /\ Rank(WordsAt(a), i) = Rank(WordsAt(b), j)
                 /\ Rank(WordsAt(a), k) = Rank(WordsAt(b), l)
                 => /\ b[j] = a[i] /\ b[l] = a[k]
                    /\ Touching(a, i, k) => Touching(b, j, l)
                    /\ LineEnds(a, i, k) <=> LineEnds(b, j, l)
<1>1. PICK g \in [WordsAt(a) -> WordsAt(b)] :
              /\ Leads(a, b, g)
              /\ Cardinality(WordsAt(a)) = Cardinality(WordsAt(b))
              /\ \A i \in WordsAt(a), j \in WordsAt(b) :
                    Rank(WordsAt(a), i) = Rank(WordsAt(b), j) => j = g[i]
  BY KinByRank
<1>2. \A i \in WordsAt(a), j \in WordsAt(b) :
         Rank(WordsAt(a), i) = Rank(WordsAt(b), j) => j = g[i] /\ b[j] = a[i]
  BY <1>1 DEF Leads
<1>3. ASSUME NEW i \in WordsAt(a), NEW k \in WordsAt(a), NEW j \in WordsAt(b),
             NEW l \in WordsAt(b), i < k, Rank(WordsAt(a), i) = Rank(WordsAt(b), j),
             Rank(WordsAt(a), k) = Rank(WordsAt(b), l)
      PROVE  /\ Touching(a, i, k) => Touching(b, j, l)
             /\ LineEnds(a, i, k) <=> LineEnds(b, j, l)
  <2>1. j = g[i] /\ l = g[k]
    BY <1>2, <1>3
  <2>2. /\ Touching(a, i, k) => Touching(b, g[i], g[k])
        /\ LineEnds(a, i, k) <=> LineEnds(b, g[i], g[k])
    BY <1>1, <1>3 DEF Leads
  <2> QED
    BY <2>1, <2>2
<1> QED
  BY <1>1, <1>2, <1>3

\* What WordsKept and LinesKept say of a text and another one.
KeepsWords(a, b) ==
    LET f == WordsAt(a)
        t == WordsAt(b)
    IN  /\ Cardinality(f) = Cardinality(t)
        /\ \A i \in f, j \in t : Rank(f, i) = Rank(t, j) => b[j] = a[i]
        /\ \A i \in f, j, k \in t :
              /\ i + 1 \in f /\ Rank(f, i) = Rank(t, j) /\ Rank(f, i + 1) = Rank(t, k)
              => \/ k = j + 1
                 \/ /\ a[i] \in PREFIXES /\ a[i + 1] = "stem"
                    /\ k = j + 2 /\ b[j + 1] = "zwnj"
KeepsLines(a, b) ==
    LET f == WordsAt(a)
        t == WordsAt(b)
    IN  \A i, k \in f, j, l \in t :
           i < k /\ Rank(f, i) = Rank(t, j) /\ Rank(f, k) = Rank(t, l)
           => (LineEnds(a, i, k) <=> LineEnds(b, j, l))

LEMMA KinIsSame ==
    ASSUME NEW a \in Seq(Atoms), NEW b \in Seq(Atoms), Kin(a, b)
    PROVE  KeepsWords(a, b) /\ KeepsLines(a, b)
<1>1. KeepsLines(a, b)
  BY KinWords DEF KeepsLines
<1>2. ASSUME NEW i \in WordsAt(a), NEW j \in WordsAt(b), NEW k \in WordsAt(b),
             i + 1 \in WordsAt(a), Rank(WordsAt(a), i) = Rank(WordsAt(b), j),
             Rank(WordsAt(a), i + 1) = Rank(WordsAt(b), k)
      PROVE  \/ k = j + 1
             \/ /\ a[i] \in PREFIXES /\ a[i + 1] = "stem"
                /\ k = j + 2 /\ b[j + 1] = "zwnj"
  <2>1. i \in Nat
    BY DEF WordsAt
  <2>2. i < i + 1 /\ Touching(a, i, i + 1)
    BY <2>1 DEF Touching
  <2>3. b[j] = a[i] /\ b[k] = a[i + 1] /\ Touching(b, j, k)
    BY <1>2, <2>2, KinWords
  <2> QED
    BY <2>3 DEF Touching
<1>3. KeepsWords(a, b)
  BY <1>2, KinWords DEF KeepsWords
<1> QED
  BY <1>1, <1>3

LEMMA NormalizeHolds == NormalizeInv => WordsKept /\ LinesKept
<1> SUFFICES ASSUME NormalizeInv
             PROVE  WordsKept /\ LinesKept
  OBVIOUS
<1> DEFINE from == Fold(Compose(normalized.from))
           to == normalized.to
<1>1. CASE normalized = NoWriting
  <2>1. normalized.from = << >> /\ normalized.to = << >>
    BY <1>1 DEF NoWriting
  <2>2. to \in Seq(Atoms) /\ WordsAt(to) = {}
    BY <2>1 DEF WordsAt
  <2>3. from \in Seq(Atoms) /\ DOMAIN from = {}
    <3> DEFINE text == normalized.from
               a == Compose(text)
               visible == Sub(a, {i \in DOMAIN a : a[i] \notin INVISIBLE \cup DIACRITICS})
    <3>1. a = << >>
      BY <2>1 DEF Compose
    <3>2. {i \in DOMAIN a : a[i] \notin INVISIBLE \cup DIACRITICS} = {}
      BY <3>1
    <3>3. Cardinality({}) = 0
      BY FS_EmptySet
    <3>4. DOMAIN visible = {}
      BY <3>2, <3>3 DEF Sub
    <3>5. Fold(a) = [i \in DOMAIN visible |-> IF visible[i] \in DOMAIN LETTERS
                                             THEN LETTERS[visible[i]] ELSE visible[i]]
      BY DEF Fold
    <3>6. << >> \in Seq(Atoms)
      OBVIOUS
    <3>7. from \in Seq(Atoms)
      BY <2>1, <3>6, FoldTyped
    <3> HIDE DEF visible
    <3>8. DOMAIN Fold(a) = {}
      BY <3>4, <3>5
    <3> QED
      BY <3>7, <3>8 DEF a
  <2>4. WordsAt(from) = {}
    BY <2>3 DEF WordsAt
  <2> QED
    BY <2>2, <2>4 DEF WordsKept, LinesKept
<1>2. CASE normalized.from \in Seq(Atoms) /\ normalized.to = Normal(normalized.from)
  <2>1. from \in Seq(Atoms) /\ to \in Seq(Atoms) /\ Kin(from, to)
    BY <1>2, FoldTyped, NormalIsKin
  <2> HIDE DEF from, to
  <2>2. KeepsWords(from, to) /\ KeepsLines(from, to)
    BY <2>1, KinIsSame
  <2> QED
    BY <2>2 DEF KeepsWords, KeepsLines, WordsKept, LinesKept, from, to
<1> QED
  BY <1>1, <1>2 DEF NormalizeInv

\* Whatever text is normalised, its words are all there in their order, and none
\* is split but a known verb after its prefix (WordsKept of NormalizeProps).
THEOREM WordsStay == Spec => []WordsKept
  BY NormalizeHolds, NormalizeInvariance, PTL

\* Whatever text is normalised, two of its words are on one line exactly when they
\* were before (LinesKept of NormalizeProps).
THEOREM LinesStay == Spec => []LinesKept
  BY NormalizeHolds, NormalizeInvariance, PTL

-----------------------------------------------------------------------------
(* The migration: what the statements of a script have made so far         *)

\* What the first statements of the upgrade have made of a kind.
MadeBy(n, op) == {UPGRADE[i].what : i \in {k \in 1..n : UPGRADE[k].op = op}}

Built(n, extension, auto_mode, version) ==
    [extension |-> extension, tables |-> MadeBy(n, "create_table"),
     indexes |-> MadeBy(n, "create_index"), auto_mode |-> auto_mode, version |-> version]

\* A database before the upgrade, within it, after it and within the downgrade, which
\* takes back what the upgrade made, the last first.
NoSchema(extension) == Built(0, extension, "none", "none")
Upgraded(n, extension) ==
    Built(n, n >= 1 \/ extension, IF n >= 16 THEN "shadow" ELSE "none", "none")
Complete == Built(17, TRUE, "shadow", "0001")
Left(n) == IF n = 0 THEN 17 ELSE 16 - n
Downgraded(n) == Built(Left(n), TRUE, IF n < 2 THEN "shadow" ELSE "none", "0001")

Scripts == {SubSeq(UPGRADE, n + 1, 17) : n \in 0..17}
           \cup {SubSeq(DOWNGRADE, n + 1, 15) : n \in 0..15} \cup {<< >>}
Databases == {NoSchema(extension) : extension \in BOOLEAN} \cup {Complete}
             \cup {Upgraded(n, extension) : n \in 0..17, extension \in BOOLEAN}
             \cup {Downgraded(n) : n \in 0..15}

Migrations == [pc : {"idle", "running"}, script : Scripts, to : {"none", "0001"},
               db : Databases, work : Databases, runs : Nat, refused : BOOLEAN]

\* How far a run is, and what is known of the database that is left if it is lost.
Upgrading(n, extension) ==
    /\ migration.to = "0001" /\ migration.db = NoSchema(extension)
    /\ migration.script = SubSeq(UPGRADE, n + 1, 17) /\ migration.work = Upgraded(n, extension)
Downgrading(n) ==
    /\ migration.to = "none" /\ migration.db = Complete
    /\ migration.script = SubSeq(DOWNGRADE, n + 1, 15) /\ migration.work = Downgraded(n)

MigrationInv ==
    /\ migration \in Migrations /\ migration.refused = FALSE
    /\ migration.db = Complete \/ \E extension \in BOOLEAN : migration.db = NoSchema(extension)
    /\ migration.pc = "running" =>
          \/ \E n \in 0..17, extension \in BOOLEAN : Upgrading(n, extension)
          \/ \E n \in 0..15 : Downgrading(n)

-----------------------------------------------------------------------------
(* The scripts                                                             *)

\* Where the upgrade makes a table or an index of a name.
Place == [kb_documents |-> 2, ix_kb_documents_visibility |-> 3, kb_chunks |-> 4,
          ix_kb_chunks_visibility |-> 5, ix_kb_chunks_embedding |-> 6, kb_gaps |-> 7,
          ai_requests |-> 8, ix_ai_requests_created_at |-> 9, ix_ai_requests_conversation |-> 10,
          ix_ai_requests_shadow_status |-> 11, reply_keys |-> 12, ai_feedback |-> 13,
          ix_ai_feedback_request |-> 14, settings |-> 15, usage_daily |-> 17]

LEMMA UpgradeIs ==
    /\ UPGRADE \in Seq({UPGRADE[i] : i \in 1..17}) /\ Len(UPGRADE) = 17
    /\ UPGRADE[1] = Statement("extension", "vector")
    /\ UPGRADE[2] = Create("kb_documents", {Check("visibility", {"public", "internal"}),
                                            Check("type", {"faq", "doc", "internal"})})
    /\ UPGRADE[3] = CreateIndex("ix_kb_documents_visibility", "kb_documents")
    /\ UPGRADE[4] = Create("kb_chunks", {Key("document_id", "kb_documents"),
                                         Unique({"document_id", "position"}),
                                         Check("visibility", {"public", "internal"})})
    /\ UPGRADE[5] = CreateIndex("ix_kb_chunks_visibility", "kb_chunks")
    /\ UPGRADE[6] = Statement("create_index", HNSW)
    /\ UPGRADE[7] = Create("kb_gaps", {Unique({"query_norm"})})
    /\ UPGRADE[8] = Create("ai_requests",
                           {Check("mode", {"draft", "auto"}),
                            Check("status", {"running", "completed", "failed", "cancelled",
                                             "handoff"})})
    /\ UPGRADE[9] = CreateIndex("ix_ai_requests_created_at", "ai_requests")
    /\ UPGRADE[10] = CreateIndex("ix_ai_requests_conversation", "ai_requests")
    /\ UPGRADE[11] = CreateIndex("ix_ai_requests_shadow_status", "ai_requests")
    /\ UPGRADE[12] = Create("reply_keys", {Unique({"conversation_id", "trigger_message_id"})})
    /\ UPGRADE[13] = Create("ai_feedback",
                            {Key("request_id", "ai_requests"),
                             Check("verdict", {"accepted", "edited", "rejected", "correct",
                                               "wrong", "dangerous"})})
    /\ UPGRADE[14] = CreateIndex("ix_ai_feedback_request", "ai_feedback")
    /\ UPGRADE[15] = Create("settings", {})
    /\ UPGRADE[16] = Statement("seed", "shadow")
    /\ UPGRADE[17] = Create("usage_daily", {Unique({"day", "route", "model"})})
  BY SMTT(40) DEF UPGRADE

LEMMA DowngradeIs ==
    /\ DOWNGRADE \in Seq({DOWNGRADE[i] : i \in 1..15}) /\ Len(DOWNGRADE) = 15
    /\ DOWNGRADE[1] = Drop("usage_daily")
    /\ DOWNGRADE[2] = Drop("settings")
    /\ DOWNGRADE[3] = DropIndex("ix_ai_feedback_request", "ai_feedback")
    /\ DOWNGRADE[4] = Drop("ai_feedback")
    /\ DOWNGRADE[5] = Drop("reply_keys")
    /\ DOWNGRADE[6] = DropIndex("ix_ai_requests_shadow_status", "ai_requests")
    /\ DOWNGRADE[7] = DropIndex("ix_ai_requests_conversation", "ai_requests")
    /\ DOWNGRADE[8] = DropIndex("ix_ai_requests_created_at", "ai_requests")
    /\ DOWNGRADE[9] = Drop("ai_requests")
    /\ DOWNGRADE[10] = Drop("kb_gaps")
    /\ DOWNGRADE[11] = Statement("drop_index", HNSW)
    /\ DOWNGRADE[12] = DropIndex("ix_kb_chunks_visibility", "kb_chunks")
    /\ DOWNGRADE[13] = Drop("kb_chunks")
    /\ DOWNGRADE[14] = DropIndex("ix_kb_documents_visibility", "kb_documents")
    /\ DOWNGRADE[15] = Drop("kb_documents")
<1> DEFINE head == << Drop("usage_daily"), Drop("settings"),
    DropIndex("ix_ai_feedback_request", "ai_feedback"), Drop("ai_feedback"), Drop("reply_keys"),
    DropIndex("ix_ai_requests_shadow_status", "ai_requests"),
    DropIndex("ix_ai_requests_conversation", "ai_requests"),
    DropIndex("ix_ai_requests_created_at", "ai_requests"), Drop("ai_requests") >>
           S == {head[i] : i \in 1..9} \cup {DOWNGRADE_TAIL[i] : i \in 1..6}
<1>1. DOWNGRADE = head \o DOWNGRADE_TAIL
  BY DEF DOWNGRADE
<1>2. head \in Seq(S) /\ Len(head) = 9
  OBVIOUS
<1>3. DOWNGRADE_TAIL \in Seq(S) /\ Len(DOWNGRADE_TAIL) = 6
  BY DEF DOWNGRADE_TAIL
<1>4. /\ head[1] = Drop("usage_daily") /\ head[2] = Drop("settings")
      /\ head[3] = DropIndex("ix_ai_feedback_request", "ai_feedback")
      /\ head[4] = Drop("ai_feedback") /\ head[5] = Drop("reply_keys")
      /\ head[6] = DropIndex("ix_ai_requests_shadow_status", "ai_requests")
      /\ head[7] = DropIndex("ix_ai_requests_conversation", "ai_requests")
      /\ head[8] = DropIndex("ix_ai_requests_created_at", "ai_requests")
      /\ head[9] = Drop("ai_requests")
  OBVIOUS
<1>5. /\ DOWNGRADE_TAIL[1] = Drop("kb_gaps") /\ DOWNGRADE_TAIL[2] = Statement("drop_index", HNSW)
      /\ DOWNGRADE_TAIL[3] = DropIndex("ix_kb_chunks_visibility", "kb_chunks")
      /\ DOWNGRADE_TAIL[4] = Drop("kb_chunks")
      /\ DOWNGRADE_TAIL[5] = DropIndex("ix_kb_documents_visibility", "kb_documents")
      /\ DOWNGRADE_TAIL[6] = Drop("kb_documents")
  BY DEF DOWNGRADE_TAIL
<1> HIDE DEF head, S
<1>6. DOWNGRADE \in Seq(S) /\ Len(DOWNGRADE) = 15
      /\ \A i \in 1..15 : DOWNGRADE[i] = IF i <= 9 THEN head[i] ELSE DOWNGRADE_TAIL[i - 9]
  <2> DEFINE tail == DOWNGRADE_TAIL
             whole == head \o tail
  <2>1. tail \in Seq(S) /\ Len(tail) = 6
    BY <1>3
  <2> HIDE DEF tail
  <2>2. /\ whole \in Seq(S) /\ Len(whole) = Len(head) + Len(tail)
        /\ \A i \in 1 .. Len(head) + Len(tail) :
              whole[i] = IF i <= Len(head) THEN head[i] ELSE tail[i - Len(head)]
    BY <1>2, <2>1, ConcatProperties
  <2> HIDE DEF whole
  <2>3. Len(whole) = 15 /\ \A i \in 1..15 : whole[i] = IF i <= 9 THEN head[i] ELSE tail[i - 9]
    BY <1>2, <2>1, <2>2
  <2> QED
    BY <1>1, <2>2, <2>3 DEF whole, tail
<1>7. DOWNGRADE \in Seq({DOWNGRADE[i] : i \in 1..15})
  <2>1. DOWNGRADE = [i \in 1..15 |-> DOWNGRADE[i]]
    BY <1>6
  <2> QED
    BY <2>1
<1>8. /\ \A i \in 1..9 : DOWNGRADE[i] = head[i]
      /\ DOWNGRADE[10] = DOWNGRADE_TAIL[1] /\ DOWNGRADE[11] = DOWNGRADE_TAIL[2]
      /\ DOWNGRADE[12] = DOWNGRADE_TAIL[3] /\ DOWNGRADE[13] = DOWNGRADE_TAIL[4]
      /\ DOWNGRADE[14] = DOWNGRADE_TAIL[5] /\ DOWNGRADE[15] = DOWNGRADE_TAIL[6]
  BY <1>6
<1>9. /\ DOWNGRADE[1] = head[1] /\ DOWNGRADE[2] = head[2] /\ DOWNGRADE[3] = head[3]
      /\ DOWNGRADE[4] = head[4] /\ DOWNGRADE[5] = head[5] /\ DOWNGRADE[6] = head[6]
      /\ DOWNGRADE[7] = head[7] /\ DOWNGRADE[8] = head[8] /\ DOWNGRADE[9] = head[9]
  BY <1>8
<1> QED
  BY <1>4, <1>5, <1>6, <1>7, <1>8, <1>9, Zenon

\* The statements that make a table or an index, by the place where they stand.
TableAt == {2, 4, 7, 8, 12, 13, 15, 17}
IndexAt == {3, 5, 6, 9, 10, 11, 14}

LEMMA Shapes ==
    /\ \A name, constraints :
          /\ Create(name, constraints).op = "create_table"
          /\ Create(name, constraints).what = Table(name, constraints)
          /\ Table(name, constraints).name = name
          /\ Table(name, constraints).constraints = constraints
    /\ \A name, table : /\ CreateIndex(name, table).op = "create_index"
                        /\ CreateIndex(name, table).what = Index(name, table)
                        /\ DropIndex(name, table).op = "drop_index"
                        /\ DropIndex(name, table).what = Index(name, table)
                        /\ Index(name, table).name = name
                        /\ Index(name, table).table = table
    /\ \A name : Drop(name).op = "drop_table" /\ Drop(name).what = name
    /\ \A op, what : Statement(op, what).op = op /\ Statement(op, what).what = what
  BY DEF Create, CreateIndex, DropIndex, Drop, Statement, Table, Index

LEMMA Constraints ==
    /\ \A columns : Unique(columns).kind = "unique"
    /\ \A column, values : Check(column, values).kind = "check"
    /\ \A column, table : Key(column, table).kind = "references"
                          /\ Key(column, table).values = {table}
  BY DEF Unique, Check, Key

LEMMA Ops ==
    /\ \A i \in TableAt : UPGRADE[i].op = "create_table"
    /\ \A i \in IndexAt : UPGRADE[i].op = "create_index"
    /\ UPGRADE[1].op = "extension" /\ UPGRADE[16].op = "seed" /\ UPGRADE[16].what = "shadow"
    /\ 1..17 = TableAt \cup IndexAt \cup {1, 16}
<1>1. \A i \in TableAt : UPGRADE[i].op = "create_table"
  BY UpgradeIs, Shapes DEF TableAt
<1>2. \A i \in IndexAt : UPGRADE[i].op = "create_index"
  BY UpgradeIs, Shapes DEF IndexAt
<1>3. UPGRADE[1].op = "extension" /\ UPGRADE[16].op = "seed" /\ UPGRADE[16].what = "shadow"
  BY UpgradeIs, Shapes
<1>4. 1..17 = TableAt \cup IndexAt \cup {1, 16}
  BY DEF TableAt, IndexAt
<1> QED
  BY <1>1, <1>2, <1>3, <1>4

LEMMA NamesAt ==
    /\ UPGRADE[2].what.name = "kb_documents" /\ UPGRADE[4].what.name = "kb_chunks"
    /\ UPGRADE[7].what.name = "kb_gaps" /\ UPGRADE[8].what.name = "ai_requests"
    /\ UPGRADE[12].what.name = "reply_keys" /\ UPGRADE[13].what.name = "ai_feedback"
    /\ UPGRADE[15].what.name = "settings" /\ UPGRADE[17].what.name = "usage_daily"
  BY UpgradeIs, Shapes

LEMMA IndexesAt ==
    /\ UPGRADE[3].what = Index("ix_kb_documents_visibility", "kb_documents")
    /\ UPGRADE[5].what = Index("ix_kb_chunks_visibility", "kb_chunks")
    /\ UPGRADE[6].what = Index("ix_kb_chunks_embedding", "kb_chunks")
    /\ UPGRADE[9].what = Index("ix_ai_requests_created_at", "ai_requests")
    /\ UPGRADE[10].what = Index("ix_ai_requests_conversation", "ai_requests")
    /\ UPGRADE[11].what = Index("ix_ai_requests_shadow_status", "ai_requests")
    /\ UPGRADE[14].what = Index("ix_ai_feedback_request", "ai_feedback")
  BY UpgradeIs, Shapes DEF HNSW

\* What the upgrade makes has a name of its own.
LEMMA OneOfAName ==
    /\ \A i \in TableAt : Place[UPGRADE[i].what.name] = i
    /\ \A i \in IndexAt : Place[UPGRADE[i].what.name] = i
<1>1. \A i \in TableAt : Place[UPGRADE[i].what.name] = i
  BY NamesAt DEF TableAt, Place
<1>2. \A i \in IndexAt : Place[UPGRADE[i].what.name] = i
  BY IndexesAt, Shapes DEF IndexAt, Place
<1> QED
  BY <1>1, <1>2

\* A table refers to one that is made before it,
LEMMA ReferencesEarlier ==
    \A i \in TableAt : \A name \in References(UPGRADE[i].what) :
       \E j \in TableAt : j < i /\ UPGRADE[j].what.name = name
<1>1. \A name \in References(UPGRADE[2].what) : FALSE
  <2>1. UPGRADE[2].what.constraints = {Check("visibility", {"public", "internal"}),
                                       Check("type", {"faq", "doc", "internal"})}
    BY UpgradeIs, Shapes
  <2> QED
    BY <2>1, Constraints DEF References
<1>2. \A name \in References(UPGRADE[7].what) : FALSE
  <2>1. UPGRADE[7].what.constraints = {Unique({"query_norm"})}
    BY UpgradeIs, Shapes
  <2> QED
    BY <2>1, Constraints DEF References
<1>3. \A name \in References(UPGRADE[8].what) : FALSE
  <2>1. UPGRADE[8].what.constraints = {Check("mode", {"draft", "auto"}),
                                       Check("status", {"running", "completed", "failed",
                                                        "cancelled", "handoff"})}
    BY UpgradeIs, Shapes
  <2> QED
    BY <2>1, Constraints DEF References
<1>4. \A name \in References(UPGRADE[12].what) : FALSE
  <2>1. UPGRADE[12].what.constraints =
           {Unique({"conversation_id", "trigger_message_id"})}
    BY UpgradeIs, Shapes
  <2> QED
    BY <2>1, Constraints DEF References
<1>5. \A name \in References(UPGRADE[15].what) : FALSE
  <2>1. UPGRADE[15].what.constraints = {}
    BY UpgradeIs, Shapes
  <2> QED
    BY <2>1, Constraints DEF References
<1>6. \A name \in References(UPGRADE[17].what) : FALSE
  <2>1. UPGRADE[17].what.constraints = {Unique({"day", "route", "model"})}
    BY UpgradeIs, Shapes
  <2> QED
    BY <2>1, Constraints DEF References
<1>7. \A name \in References(UPGRADE[4].what) : name = "kb_documents"
  <2>1. UPGRADE[4].what.constraints = {Key("document_id", "kb_documents"),
                                       Unique({"document_id", "position"}),
                                       Check("visibility", {"public", "internal"})}
    BY UpgradeIs, Shapes
  <2> QED
    BY <2>1, Constraints DEF References
<1>8. \A name \in References(UPGRADE[13].what) : name = "ai_requests"
  <2>1. UPGRADE[13].what.constraints =
           {Key("request_id", "ai_requests"),
            Check("verdict", {"accepted", "edited", "rejected", "correct", "wrong", "dangerous"})}
    BY UpgradeIs, Shapes
  <2> QED
    BY <2>1, Constraints DEF References
<1> QED
  BY <1>1, <1>2, <1>3, <1>4, <1>5, <1>6, <1>7, <1>8, NamesAt DEF TableAt

\* and an index is on one.
LEMMA IndexLater ==
    \A i \in IndexAt : \E j \in TableAt : j < i /\ UPGRADE[j].what.name = UPGRADE[i].what.table
  BY IndexesAt, NamesAt, Shapes DEF IndexAt, TableAt

\* The downgrade takes back what the upgrade made, the last first.
LEMMA TakenBack ==
    \A n \in 0..14 :
       \/ Left(n) \in TableAt /\ DOWNGRADE[n + 1] = Drop(UPGRADE[Left(n)].what.name)
       \/ Left(n) \in IndexAt
          /\ DOWNGRADE[n + 1] = Statement("drop_index", UPGRADE[Left(n)].what)
<1> DEFINE OK(n, d, i) ==
       \/ i \in TableAt /\ d = Drop(UPGRADE[i].what.name)
       \/ i \in IndexAt /\ d = Statement("drop_index", UPGRADE[i].what)
<1>1. /\ OK(0, DOWNGRADE[1], 17) /\ OK(1, DOWNGRADE[2], 15) /\ OK(3, DOWNGRADE[4], 13)
      /\ OK(4, DOWNGRADE[5], 12) /\ OK(8, DOWNGRADE[9], 8) /\ OK(9, DOWNGRADE[10], 7)
      /\ OK(12, DOWNGRADE[13], 4) /\ OK(14, DOWNGRADE[15], 2)
  BY DowngradeIs, NamesAt DEF TableAt
<1>2. /\ OK(2, DOWNGRADE[3], 14) /\ OK(5, DOWNGRADE[6], 11) /\ OK(6, DOWNGRADE[7], 10)
      /\ OK(7, DOWNGRADE[8], 9) /\ OK(10, DOWNGRADE[11], 6) /\ OK(11, DOWNGRADE[12], 5)
      /\ OK(13, DOWNGRADE[14], 3)
  BY DowngradeIs, IndexesAt DEF IndexAt, DropIndex, HNSW
<1> HIDE DEF OK
<1>3. \A n \in 0..14 : OK(n, DOWNGRADE[n + 1], IF n = 0 THEN 17 ELSE 16 - n)
  BY <1>1, <1>2
<1> QED
  BY <1>3 DEF OK, Left

LEMMA MadeIs ==
    ASSUME NEW n \in 0..17
    PROVE  /\ MadeBy(n, "create_table") = {UPGRADE[i].what : i \in {k \in TableAt : k <= n}}
           /\ MadeBy(n, "create_index") = {UPGRADE[i].what : i \in {k \in IndexAt : k <= n}}
<1>1. {k \in 1..n : UPGRADE[k].op = "create_table"} = {k \in TableAt : k <= n}
  <2>1. \A k \in 1..17 : UPGRADE[k].op = "create_table" <=> k \in TableAt
    BY Ops DEF TableAt, IndexAt
  <2>2. \A k : k \in 1..n <=> k \in 1..17 /\ k <= n
    OBVIOUS
  <2>3. TableAt \subseteq 1..17
    BY Ops
  <2> QED
    BY <2>1, <2>2, <2>3
<1>2. {k \in 1..n : UPGRADE[k].op = "create_index"} = {k \in IndexAt : k <= n}
  <2>1. \A k \in 1..17 : UPGRADE[k].op = "create_index" <=> k \in IndexAt
    BY Ops DEF TableAt, IndexAt
  <2>2. \A k : k \in 1..n <=> k \in 1..17 /\ k <= n
    OBVIOUS
  <2>3. IndexAt \subseteq 1..17
    BY Ops
  <2> QED
    BY <2>1, <2>2, <2>3
<1> QED
  BY <1>1, <1>2 DEF MadeBy

\* The upgrade makes what the models describe, and the index of the vectors.
LEMMA MadeAll ==
    /\ MadeBy(17, "create_table") = METADATA.tables
    /\ MadeBy(17, "create_index") = METADATA.indexes \cup {HNSW}
<1>1. MadeBy(17, "create_table") = {UPGRADE[2].what, UPGRADE[4].what, UPGRADE[7].what,
         UPGRADE[8].what, UPGRADE[12].what, UPGRADE[13].what, UPGRADE[15].what, UPGRADE[17].what}
  <2>1. {k \in TableAt : k <= 17} = {2, 4, 7, 8, 12, 13, 15, 17}
    BY DEF TableAt
  <2>2. MadeBy(17, "create_table") = {UPGRADE[i].what : i \in {k \in TableAt : k <= 17}}
    BY MadeIs
  <2> QED
    BY <2>1, <2>2
<1>2. MadeBy(17, "create_index") = {UPGRADE[3].what, UPGRADE[5].what, UPGRADE[6].what,
         UPGRADE[9].what, UPGRADE[10].what, UPGRADE[11].what, UPGRADE[14].what}
  <2>1. {k \in IndexAt : k <= 17} = {3, 5, 6, 9, 10, 11, 14}
    BY DEF IndexAt
  <2>2. MadeBy(17, "create_index") = {UPGRADE[i].what : i \in {k \in IndexAt : k <= 17}}
    BY MadeIs
  <2> QED
    BY <2>1, <2>2
<1>3. METADATA.tables =
         {Table("kb_documents", {Check("visibility", VISIBILITIES_DB), Check("type", DOC_TYPES)}),
          Table("kb_chunks", {Key("document_id", "kb_documents"),
                              Check("visibility", VISIBILITIES_DB),
                              Unique({"document_id", "position"})}),
          Table("kb_gaps", {Unique({"query_norm"})}),
          Table("ai_requests", {Check("mode", MODES), Check("status", REQUEST_STATUSES)}),
          Table("reply_keys", {Unique({"conversation_id", "trigger_message_id"})}),
          Table("ai_feedback", {Key("request_id", "ai_requests"), Check("verdict", VERDICTS)}),
          Table("settings", {}),
          Table("usage_daily", {Unique({"day", "route", "model"})})}
  BY DEF METADATA
<1>4. METADATA.indexes =
         {Index("ix_kb_documents_visibility", "kb_documents"),
          Index("ix_kb_chunks_visibility", "kb_chunks"),
          Index("ix_ai_requests_created_at", "ai_requests"),
          Index("ix_ai_requests_conversation", "ai_requests"),
          Index("ix_ai_requests_shadow_status", "ai_requests"),
          Index("ix_ai_feedback_request", "ai_feedback")}
  BY DEF METADATA
<1>5. /\ UPGRADE[2].what = Table("kb_documents", {Check("visibility", VISIBILITIES_DB),
                                                  Check("type", DOC_TYPES)})
      /\ UPGRADE[7].what = Table("kb_gaps", {Unique({"query_norm"})})
      /\ UPGRADE[8].what = Table("ai_requests", {Check("mode", MODES),
                                                 Check("status", REQUEST_STATUSES)})
      /\ UPGRADE[12].what =
            Table("reply_keys", {Unique({"conversation_id", "trigger_message_id"})})
      /\ UPGRADE[13].what = Table("ai_feedback", {Key("request_id", "ai_requests"),
                                                  Check("verdict", VERDICTS)})
      /\ UPGRADE[15].what = Table("settings", {})
      /\ UPGRADE[17].what = Table("usage_daily", {Unique({"day", "route", "model"})})
  BY UpgradeIs, Shapes DEF VISIBILITIES_DB, DOC_TYPES, MODES, REQUEST_STATUSES, VERDICTS
<1>6. UPGRADE[4].what = Table("kb_chunks", {Key("document_id", "kb_documents"),
                                            Check("visibility", VISIBILITIES_DB),
                                            Unique({"document_id", "position"})})
  <2>1. \A x, y, z : {x, y, z} = {x, z, y}
    OBVIOUS
  <2>2. UPGRADE[4].what = Table("kb_chunks", {Key("document_id", "kb_documents"),
                                              Unique({"document_id", "position"}),
                                              Check("visibility", VISIBILITIES_DB)})
    BY UpgradeIs, Shapes DEF VISIBILITIES_DB
  <2> QED
    BY <2>1, <2>2
<1>7. HNSW = Index("ix_kb_chunks_embedding", "kb_chunks")
  BY DEF HNSW
<1>8. MadeBy(17, "create_table") = METADATA.tables
  BY <1>1, <1>3, <1>5, <1>6
<1>9. MadeBy(17, "create_index") = METADATA.indexes \cup {HNSW}
  BY <1>2, <1>4, <1>7, IndexesAt
<1> QED
  BY <1>8, <1>9

\* What is made of a kind grows by what a statement of this kind makes.
LEMMA MadeNext ==
    ASSUME NEW n \in 0..16
    PROVE  /\ MadeBy(n + 1, "create_table") =
                 MadeBy(n, "create_table")
                 \cup (IF n + 1 \in TableAt THEN {UPGRADE[n + 1].what} ELSE {})
           /\ MadeBy(n + 1, "create_index") =
                 MadeBy(n, "create_index")
                 \cup (IF n + 1 \in IndexAt THEN {UPGRADE[n + 1].what} ELSE {})
<1>1. n \in 0..17 /\ n + 1 \in 0..17
  OBVIOUS
<1>2. TableAt \subseteq 1..17 /\ IndexAt \subseteq 1..17
  BY Ops
<1>3. \A k \in 1..17 : k <= n + 1 <=> k <= n \/ k = n + 1
  OBVIOUS
<1>4. /\ MadeBy(n, "create_table") = {UPGRADE[i].what : i \in {k \in TableAt : k <= n}}
      /\ MadeBy(n, "create_index") = {UPGRADE[i].what : i \in {k \in IndexAt : k <= n}}
      /\ MadeBy(n + 1, "create_table") = {UPGRADE[i].what : i \in {k \in TableAt : k <= n + 1}}
      /\ MadeBy(n + 1, "create_index") = {UPGRADE[i].what : i \in {k \in IndexAt : k <= n + 1}}
  BY <1>1, MadeIs
<1>5. /\ {k \in TableAt : k <= n + 1} =
            {k \in TableAt : k <= n} \cup (IF n + 1 \in TableAt THEN {n + 1} ELSE {})
      /\ {k \in IndexAt : k <= n + 1} =
            {k \in IndexAt : k <= n} \cup (IF n + 1 \in IndexAt THEN {n + 1} ELSE {})
  BY <1>2, <1>3
<1>6. MadeBy(n + 1, "create_table") =
         MadeBy(n, "create_table") \cup (IF n + 1 \in TableAt THEN {UPGRADE[n + 1].what} ELSE {})
  BY <1>4, <1>5
<1>7. MadeBy(n + 1, "create_index") =
         MadeBy(n, "create_index") \cup (IF n + 1 \in IndexAt THEN {UPGRADE[n + 1].what} ELSE {})
  BY <1>4, <1>5
<1> QED
  BY <1>6, <1>7

LEMMA BuiltIs ==
    \A n, extension, auto_mode, version :
       /\ Built(n, extension, auto_mode, version).extension = extension
       /\ Built(n, extension, auto_mode, version).tables = MadeBy(n, "create_table")
       /\ Built(n, extension, auto_mode, version).indexes = MadeBy(n, "create_index")
       /\ Built(n, extension, auto_mode, version).auto_mode = auto_mode
  BY DEF Built

\* Every statement of the upgrade is accepted, whether or not the database has the
\* extension of an earlier upgrade.
LEMMA UpgradeStep ==
    ASSUME NEW n \in 0..16, NEW extension \in BOOLEAN
    PROVE  /\ Accepted(Upgraded(n, extension), UPGRADE[n + 1])
           /\ Executed(Upgraded(n, extension), UPGRADE[n + 1]) = Upgraded(n + 1, extension)
<1> DEFINE db == Upgraded(n, extension)
           s == UPGRADE[n + 1]
           T == MadeBy(n, "create_table")
           X == MadeBy(n, "create_index")
           ext == n >= 1 \/ extension
           auto == IF n >= 16 THEN "shadow" ELSE "none"
<1>1. db = [extension |-> ext, tables |-> T, indexes |-> X, auto_mode |-> auto,
            version |-> "none"]
  BY DEF Upgraded, Built
<1>2. Upgraded(n + 1, extension) =
         [extension |-> n + 1 >= 1 \/ extension, tables |-> MadeBy(n + 1, "create_table"),
          indexes |-> MadeBy(n + 1, "create_index"),
          auto_mode |-> IF n + 1 >= 16 THEN "shadow" ELSE "none", version |-> "none"]
  BY DEF Upgraded, Built
<1>3. /\ T = {UPGRADE[i].what : i \in {k \in TableAt : k <= n}}
      /\ X = {UPGRADE[i].what : i \in {k \in IndexAt : k <= n}}
  <2>1. n \in 0..17
    OBVIOUS
  <2> QED
    BY <2>1, MadeIs
<1>4. n + 1 \in TableAt \cup IndexAt \cup {1, 16} /\ n + 1 \in 1..17
  <2>1. n + 1 \in 1..17
    OBVIOUS
  <2> QED
    BY <2>1, Ops
<1>5. \A i \in {k \in TableAt : k <= n} : UPGRADE[i].what.name \in Names(db)
  BY <1>1, <1>3 DEF Names
<1>6. /\ MadeBy(n + 1, "create_table") =
            T \cup (IF n + 1 \in TableAt THEN {s.what} ELSE {})
      /\ MadeBy(n + 1, "create_index") =
            X \cup (IF n + 1 \in IndexAt THEN {s.what} ELSE {})
  BY MadeNext
<1>7. (n >= 1 => ext = TRUE) /\ (n < 16 => auto = "none") /\ (n = 16 => auto = "shadow")
  OBVIOUS
<1> HIDE DEF db, s, T, X, ext, auto
<1>8. CASE n + 1 = 1
  <2>1. s.op = "extension" /\ n = 0 /\ n + 1 \notin TableAt /\ n + 1 \notin IndexAt
    BY <1>8, Ops DEF s, TableAt, IndexAt
  <2>2. Executed(db, s) = [db EXCEPT !.extension = TRUE] /\ Accepted(db, s)
    BY <2>1 DEF Executed, Accepted
  <2>3. Executed(db, s) = [extension |-> TRUE, tables |-> T, indexes |-> X, auto_mode |-> auto,
                           version |-> "none"]
    BY <1>1, <2>2
  <2>4. auto = "none"
    BY <1>7, <2>1
  <2>5. Upgraded(n + 1, extension) =
           [extension |-> TRUE, tables |-> T, indexes |-> X, auto_mode |-> "none",
            version |-> "none"]
    <3>1. MadeBy(n + 1, "create_table") = T /\ MadeBy(n + 1, "create_index") = X
      BY <1>6, <2>1
    <3>2. (n + 1 >= 1 \/ extension) = TRUE /\ (n + 1 >= 16 <=> FALSE)
      BY <2>1
    <3> QED
      BY <1>2, <2>1, <3>1, <3>2
  <2> QED
    BY <2>2, <2>3, <2>4, <2>5 DEF db, s
<1>9. CASE n + 1 = 16
  <2>1. s.op = "seed" /\ s.what = "shadow" /\ n = 15 /\ n + 1 \notin TableAt
        /\ n + 1 \notin IndexAt
    BY <1>9, Ops DEF s, TableAt, IndexAt
  <2>2. Executed(db, s) = [db EXCEPT !.auto_mode = "shadow"]
    BY <2>1 DEF Executed
  <2>3. "settings" \in Names(db)
    BY <1>5, <2>1, NamesAt DEF TableAt
  <2>4. Accepted(db, s)
    BY <2>1, <2>3 DEF Accepted
  <2>5. Executed(db, s) = [extension |-> ext, tables |-> T, indexes |-> X, auto_mode |-> "shadow",
                           version |-> "none"]
    BY <1>1, <2>2
  <2>6. ext = TRUE
    BY <1>7, <2>1
  <2>7. Upgraded(n + 1, extension) =
           [extension |-> TRUE, tables |-> T, indexes |-> X, auto_mode |-> "shadow",
            version |-> "none"]
    <3>1. MadeBy(n + 1, "create_table") = T /\ MadeBy(n + 1, "create_index") = X
      BY <1>6, <2>1
    <3>2. (n + 1 >= 1 \/ extension) = TRUE /\ (n + 1 >= 16 <=> n = 15)
      BY <2>1
    <3> QED
      BY <1>2, <2>1, <3>1, <3>2
  <2> QED
    BY <2>4, <2>5, <2>6, <2>7 DEF db, s
<1>10. CASE n + 1 \in TableAt
  <2>1. s.op = "create_table" /\ n + 1 \notin IndexAt /\ n >= 1 /\ n # 15
    BY <1>10, Ops DEF s, TableAt, IndexAt
  <2>2. Executed(db, s) = [db EXCEPT !.tables = @ \cup {s.what}]
    BY <2>1 DEF Executed
  <2>3. s.what.name \notin Names(db)
    <3>1. SUFFICES ASSUME s.what.name \in Names(db) PROVE FALSE
      OBVIOUS
    <3>2. PICK i \in TableAt : i <= n /\ UPGRADE[i].what.name = s.what.name
      BY <1>1, <1>3, <3>1 DEF Names
    <3>3. Place[UPGRADE[i].what.name] = i /\ Place[s.what.name] = n + 1
      BY <1>10, OneOfAName DEF s
    <3>4. i = n + 1
      BY <3>2, <3>3
    <3> QED
      BY <3>2, <3>4
  <2>4. References(s.what) \subseteq Names(db)
    <3>1. ASSUME NEW name \in References(s.what)
          PROVE  name \in Names(db)
      <4>1. PICK j \in TableAt : j < n + 1 /\ UPGRADE[j].what.name = name
        BY <1>10, ReferencesEarlier DEF s
      <4>2. j <= n
        BY <4>1, Ops
      <4> QED
        BY <1>5, <4>1, <4>2
    <3> QED
      BY <3>1
  <2>5. db.extension
    BY <1>1, <1>7, <2>1
  <2>6. Accepted(db, s)
    BY <2>1, <2>3, <2>4, <2>5 DEF Accepted
  <2>7. Executed(db, s) = [extension |-> TRUE, tables |-> T \cup {s.what}, indexes |-> X,
                           auto_mode |-> auto, version |-> "none"]
    BY <1>1, <1>7, <2>1, <2>2
  <2>8. n + 1 >= 16 <=> n >= 16
    BY <2>1
  <2>9. Upgraded(n + 1, extension) =
           [extension |-> TRUE, tables |-> T \cup {s.what}, indexes |-> X,
            auto_mode |-> auto, version |-> "none"]
    BY <1>2, <1>6, <1>10, <2>1, <2>8 DEF auto
  <2> QED
    BY <2>6, <2>7, <2>9 DEF db, s
<1>11. CASE n + 1 \in IndexAt
  <2>1. s.op = "create_index" /\ n + 1 \notin TableAt /\ n >= 1 /\ n # 15
    BY <1>11, Ops DEF s, TableAt, IndexAt
  <2>2. Executed(db, s) = [db EXCEPT !.indexes = @ \cup {s.what}]
    BY <2>1 DEF Executed
  <2>3. s.what \notin db.indexes
    <3>1. SUFFICES ASSUME s.what \in db.indexes PROVE FALSE
      OBVIOUS
    <3>2. PICK i \in IndexAt : i <= n /\ UPGRADE[i].what = s.what
      BY <1>1, <1>3, <3>1
    <3>3. Place[UPGRADE[i].what.name] = i /\ Place[s.what.name] = n + 1
      BY <1>11, OneOfAName DEF s
    <3>4. i = n + 1
      BY <3>2, <3>3
    <3> QED
      BY <3>2, <3>4
  <2>4. s.what.table \in Names(db)
    <3>1. PICK j \in TableAt : j < n + 1 /\ UPGRADE[j].what.name = s.what.table
      BY <1>11, IndexLater DEF s
    <3>2. j <= n
      BY <3>1, Ops
    <3> QED
      BY <1>5, <3>1, <3>2
  <2>5. Accepted(db, s)
    BY <2>1, <2>3, <2>4 DEF Accepted
  <2>6. Executed(db, s) = [extension |-> TRUE, tables |-> T, indexes |-> X \cup {s.what},
                           auto_mode |-> auto, version |-> "none"]
    BY <1>1, <1>7, <2>1, <2>2
  <2>7. n + 1 >= 16 <=> n >= 16
    BY <2>1
  <2>8. Upgraded(n + 1, extension) =
           [extension |-> TRUE, tables |-> T, indexes |-> X \cup {s.what},
            auto_mode |-> auto, version |-> "none"]
    BY <1>2, <1>6, <1>11, <2>1, <2>7 DEF auto
  <2> QED
    BY <2>5, <2>6, <2>8 DEF db, s
<1> QED
  BY <1>4, <1>8, <1>9, <1>10, <1>11

LEMMA LeftIs ==
    ASSUME NEW n \in 0..14
    PROVE  /\ Left(n) \in 1..17 /\ Left(n) - 1 \in 0..16 /\ Left(n + 1) \in 0..17
           /\ MadeBy(Left(n + 1), "create_table") = MadeBy(Left(n) - 1, "create_table")
           /\ MadeBy(Left(n + 1), "create_index") = MadeBy(Left(n) - 1, "create_index")
           /\ Left(n) = 15 <=> n = 1
           /\ n = 0 => Left(n) = 17
<1>1. CASE n = 0
  <2>1. Left(n) = 17 /\ Left(n + 1) = 15
    BY <1>1 DEF Left
  <2>2. 15 + 1 = 16 /\ 16 \notin TableAt /\ 16 \notin IndexAt
    BY DEF TableAt, IndexAt
  <2>3. /\ MadeBy(16, "create_table") = MadeBy(15, "create_table")
        /\ MadeBy(16, "create_index") = MadeBy(15, "create_index")
    <3>1. 15 \in 0..16
      OBVIOUS
    <3> DEFINE k == 15
    <3>2. /\ MadeBy(k + 1, "create_table") = MadeBy(k, "create_table")
          /\ MadeBy(k + 1, "create_index") = MadeBy(k, "create_index")
      <4> HIDE DEF k
      <4>1. k \in 0..16 /\ k + 1 \notin TableAt /\ k + 1 \notin IndexAt
        BY <2>2, <3>1 DEF k
      <4> QED
        BY <4>1, MadeNext
    <3> QED
      BY <2>2, <3>2
  <2>4. 17 - 1 = 16
    OBVIOUS
  <2> QED
    BY <1>1, <2>1, <2>3, <2>4
<1>2. CASE n # 0
  <2>1. Left(n) = 16 - n /\ Left(n + 1) = 16 - (n + 1) /\ Left(n + 1) = Left(n) - 1
    BY <1>2 DEF Left
  <2> QED
    BY <1>2, <2>1
<1> QED
  BY <1>1, <1>2

\* Every statement of the downgrade is accepted.
LEMMA DowngradeStep ==
    ASSUME NEW n \in 0..14
    PROVE  /\ Accepted(Downgraded(n), DOWNGRADE[n + 1])
           /\ Executed(Downgraded(n), DOWNGRADE[n + 1]) = Downgraded(n + 1)
<1> DEFINE db == Downgraded(n)
           s == DOWNGRADE[n + 1]
           i == Left(n)
           what == UPGRADE[i].what
           T == MadeBy(i - 1, "create_table")
           X == MadeBy(i - 1, "create_index")
           auto == IF n < 2 THEN "shadow" ELSE "none"
           then == IF n + 1 < 2 THEN "shadow" ELSE "none"
<1>1. i \in 1..17 /\ i - 1 \in 0..16 /\ (i = 15 <=> n = 1)
  BY LeftIs
<1>2. db = [extension |-> TRUE,
            tables |-> T \cup (IF i \in TableAt THEN {what} ELSE {}),
            indexes |-> X \cup (IF i \in IndexAt THEN {what} ELSE {}),
            auto_mode |-> auto, version |-> "0001"]
  <2> DEFINE m == i - 1
  <2>1. m \in 0..16 /\ m + 1 = i
    BY <1>1
  <2>2. db = [extension |-> TRUE, tables |-> MadeBy(i, "create_table"),
              indexes |-> MadeBy(i, "create_index"), auto_mode |-> auto, version |-> "0001"]
    BY DEF Downgraded, Built
  <2> HIDE DEF m, i
  <2>3. /\ MadeBy(m + 1, "create_table") =
              MadeBy(m, "create_table") \cup (IF m + 1 \in TableAt THEN {UPGRADE[m + 1].what} ELSE {})
        /\ MadeBy(m + 1, "create_index") =
              MadeBy(m, "create_index") \cup (IF m + 1 \in IndexAt THEN {UPGRADE[m + 1].what} ELSE {})
    BY <2>1, MadeNext
  <2>4. /\ MadeBy(i, "create_table") = T \cup (IF i \in TableAt THEN {what} ELSE {})
        /\ MadeBy(i, "create_index") = X \cup (IF i \in IndexAt THEN {what} ELSE {})
    BY <2>1, <2>3 DEF m
  <2> QED
    BY <2>2, <2>4
<1>3. Downgraded(n + 1) = [extension |-> TRUE, tables |-> T, indexes |-> X, auto_mode |-> then,
                           version |-> "0001"]
  BY LeftIs DEF Downgraded, Built
<1>4. /\ T = {UPGRADE[k].what : k \in {k \in TableAt : k <= i - 1}}
      /\ X = {UPGRADE[k].what : k \in {k \in IndexAt : k <= i - 1}}
  <2>1. i - 1 \in 0..17
    BY <1>1
  <2> QED
    BY <2>1, MadeIs
<1>5. TableAt \subseteq 1..17 /\ IndexAt \subseteq 1..17 /\ TableAt \cap IndexAt = {}
  BY Ops DEF TableAt, IndexAt
<1>6. \/ i \in TableAt /\ s = Drop(what.name)
      \/ i \in IndexAt /\ s = Statement("drop_index", what)
  BY TakenBack
<1>7. /\ n + 1 < 2 <=> n = 0
      /\ n = 1 => then = "none"
      /\ n # 1 => then = auto
      /\ n # 0 /\ n # 1 => auto = "none"
  OBVIOUS
<1> HIDE DEF db, s, i, T, X, auto, then
<1>8. CASE i \in TableAt /\ s = Drop(what.name)
  <2> DEFINE name == what.name
  <2>1. s.op = "drop_table" /\ s.what = name /\ i \notin IndexAt
    BY <1>5, <1>8, Shapes
  <2>2. db = [extension |-> TRUE, tables |-> T \cup {what}, indexes |-> X, auto_mode |-> auto,
              version |-> "0001"]
    BY <1>2, <1>8, <2>1
  <2>3. \A k \in TableAt : UPGRADE[k].what.name = name => k = i
    BY <1>8, OneOfAName
  <2>4. name = "settings" <=> i = 15
    BY <1>8, <2>3, NamesAt DEF TableAt
  <2> HIDE DEF name
  <2>5. Executed(db, s) = [db EXCEPT !.tables = {t \in @ : t.name # name},
                                     !.indexes = {x \in @ : x.table # name},
                                     !.auto_mode = IF name = "settings" THEN "none" ELSE @]
    BY <2>1 DEF Executed
  <2>6. {t \in T \cup {what} : t.name # name} = T
    <3>1. ASSUME NEW t \in T PROVE t.name # name
      BY <1>1, <1>4, <1>5, <2>3
    <3> QED
      BY <3>1 DEF name
  <2>7. {x \in X : x.table # name} = X
    <3>1. ASSUME NEW x \in X PROVE x.table # name
      <4>1. PICK k \in IndexAt : k <= i - 1 /\ x = UPGRADE[k].what
        BY <1>4
      <4>2. PICK j \in TableAt : j < k /\ UPGRADE[j].what.name = x.table
        BY <4>1, IndexLater
      <4> QED
        BY <1>1, <1>5, <2>3, <4>1, <4>2
    <3> QED
      BY <3>1
  <2>8. (IF name = "settings" THEN "none" ELSE auto) = then
    BY <1>1, <1>7, <2>4
  <2>9. Executed(db, s) = [extension |-> TRUE, tables |-> T, indexes |-> X,
                           auto_mode |-> IF name = "settings" THEN "none" ELSE auto,
                           version |-> "0001"]
    BY <2>2, <2>5, <2>6, <2>7
  <2>10. name \in Names(db)
    BY <2>2 DEF Names, name
  <2>11. ASSUME NEW t \in db.tables PROVE name \notin References(t)
    <3>1. PICK k \in TableAt : k <= i /\ t = UPGRADE[k].what
      <4>1. t \in T \/ t = what
        BY <2>2
      <4>2. CASE t \in T
        BY <1>1, <1>4, <1>5, <4>2
      <4>3. CASE t = what
        BY <1>1, <1>8, <4>3
      <4> QED
        BY <4>1, <4>2, <4>3
    <3>2. SUFFICES ASSUME name \in References(t) PROVE FALSE
      OBVIOUS
    <3>3. PICK j \in TableAt : j < k /\ UPGRADE[j].what.name = name
      BY <3>1, <3>2, ReferencesEarlier
    <3> QED
      BY <1>1, <1>5, <2>3, <3>1, <3>3
  <2>12. Accepted(db, s)
    BY <2>1, <2>10, <2>11 DEF Accepted
  <2> QED
    BY <1>3, <2>8, <2>9, <2>12 DEF db, s
<1>9. CASE i \in IndexAt /\ s = Statement("drop_index", what)
  <2>1. s.op = "drop_index" /\ s.what = what /\ i \notin TableAt
    BY <1>5, <1>9, Shapes
  <2>2. db = [extension |-> TRUE, tables |-> T, indexes |-> X \cup {what}, auto_mode |-> auto,
              version |-> "0001"]
    BY <1>2, <1>9, <2>1
  <2>3. Executed(db, s) = [db EXCEPT !.indexes = @ \ {what}]
    BY <2>1 DEF Executed
  <2>4. (X \cup {what}) \ {what} = X
    <3>1. what \notin X
      BY <1>1, <1>4, <1>5, <1>9, OneOfAName
    <3> QED
      BY <3>1
  <2>5. auto = then
    <3>1. n # 1
      BY <1>1, <1>9 DEF IndexAt
    <3> QED
      BY <1>7, <3>1
  <2>6. Executed(db, s) = [extension |-> TRUE, tables |-> T, indexes |-> X, auto_mode |-> auto,
                           version |-> "0001"]
    BY <2>2, <2>3, <2>4
  <2>7. Accepted(db, s)
    BY <2>1, <2>2 DEF Accepted
  <2> QED
    BY <1>3, <2>5, <2>6, <2>7 DEF db, s
<1> QED
  BY <1>6, <1>8, <1>9

\* What is left of a script once its next statement has been executed.
LEMMA ScriptGoesOn ==
    /\ \A n \in 0..16 : /\ SubSeq(UPGRADE, n + 1, 17) # << >>
                        /\ Head(SubSeq(UPGRADE, n + 1, 17)) = UPGRADE[n + 1]
                        /\ Tail(SubSeq(UPGRADE, n + 1, 17)) = SubSeq(UPGRADE, (n + 1) + 1, 17)
    /\ \A n \in 0..14 : /\ SubSeq(DOWNGRADE, n + 1, 15) # << >>
                        /\ Head(SubSeq(DOWNGRADE, n + 1, 15)) = DOWNGRADE[n + 1]
                        /\ Tail(SubSeq(DOWNGRADE, n + 1, 15)) = SubSeq(DOWNGRADE, (n + 1) + 1, 15)
<1>1. ASSUME NEW S, NEW q \in Seq(S), NEW n \in 0..(Len(q) - 1)
      PROVE  /\ SubSeq(q, n + 1, Len(q)) # << >>
             /\ Head(SubSeq(q, n + 1, Len(q))) = q[n + 1]
             /\ Tail(SubSeq(q, n + 1, Len(q))) = SubSeq(q, (n + 1) + 1, Len(q))
  <2> DEFINE rest == SubSeq(q, n + 1, Len(q))
             next == SubSeq(q, (n + 1) + 1, Len(q))
  <2>1. /\ rest \in Seq(S) /\ Len(rest) = Len(q) - n
        /\ \A k \in 1..Len(rest) : rest[k] = q[n + k]
    OBVIOUS
  <2>2. /\ next \in Seq(S) /\ Len(next) = Len(q) - (n + 1)
        /\ \A k \in 1..Len(next) : next[k] = q[(n + 1) + k]
    OBVIOUS
  <2> HIDE DEF rest, next
  <2>3. rest # << >> /\ Head(rest) = q[n + 1]
    BY <2>1
  <2>4. Tail(rest) \in Seq(S) /\ Len(Tail(rest)) = Len(next)
        /\ \A k \in 1..Len(next) : Tail(rest)[k] = next[k]
    BY <2>1, <2>2, <2>3
  <2>5. Tail(rest) = next
    BY <2>2, <2>4, SMTT(40)
  <2> QED
    BY <2>3, <2>5 DEF rest, next
<1>2. \A n \in 0..(Len(UPGRADE) - 1) :
         /\ SubSeq(UPGRADE, n + 1, Len(UPGRADE)) # << >>
         /\ Head(SubSeq(UPGRADE, n + 1, Len(UPGRADE))) = UPGRADE[n + 1]
         /\ Tail(SubSeq(UPGRADE, n + 1, Len(UPGRADE))) =
               SubSeq(UPGRADE, (n + 1) + 1, Len(UPGRADE))
  <2>1. UPGRADE \in Seq({UPGRADE[i] : i \in 1..17})
    BY UpgradeIs
  <2> QED
    BY <1>1, <2>1
<1>3. \A n \in 0..(Len(DOWNGRADE) - 1) :
         /\ SubSeq(DOWNGRADE, n + 1, Len(DOWNGRADE)) # << >>
         /\ Head(SubSeq(DOWNGRADE, n + 1, Len(DOWNGRADE))) = DOWNGRADE[n + 1]
         /\ Tail(SubSeq(DOWNGRADE, n + 1, Len(DOWNGRADE))) =
               SubSeq(DOWNGRADE, (n + 1) + 1, Len(DOWNGRADE))
  <2>1. DOWNGRADE \in Seq({DOWNGRADE[i] : i \in 1..15})
    BY DowngradeIs
  <2> QED
    BY <1>1, <2>1
<1>4. /\ Len(UPGRADE) = 17 /\ Len(DOWNGRADE) = 15
      /\ 0..(Len(UPGRADE) - 1) = 0..16 /\ 0..(Len(DOWNGRADE) - 1) = 0..14
  <2>1. Len(UPGRADE) = 17 /\ Len(DOWNGRADE) = 15
    BY UpgradeIs, DowngradeIs
  <2> QED
    BY <2>1
<1> QED
  BY <1>2, <1>3, <1>4

Versioned(db, version) == [db EXCEPT !.version = version]

LEMMA NewVersion ==
    ASSUME NEW n, NEW extension, NEW auto_mode, NEW version, NEW to, NEW db,
           db = Built(n, extension, auto_mode, version)
    PROVE  Versioned(db, to) = Built(n, extension, auto_mode, to)
  BY DEF Built, Versioned

\* The databases between runs, and what a run ends with.
LEMMA RunsBegin ==
    /\ EmptyDb = NoSchema(FALSE)
    /\ \A extension : NoSchema(extension).version = "none" /\ Complete.version = "0001"
    /\ \A extension \in BOOLEAN : Upgraded(0, extension) = NoSchema(extension)
    /\ \A extension \in BOOLEAN : \A db :
          db = Upgraded(17, extension) => Versioned(db, "0001") = Complete
    /\ Downgraded(0) = Complete
    /\ \A db : db = Downgraded(15) => Versioned(db, "none") = NoSchema(TRUE)
<1>1. MadeBy(0, "create_table") = {} /\ MadeBy(0, "create_index") = {}
  BY DEF MadeBy
<1>2. MadeBy(1, "create_table") = {} /\ MadeBy(1, "create_index") = {}
  <2>1. 0 \in 0..16 /\ 0 + 1 = 1 /\ 1 \notin TableAt /\ 1 \notin IndexAt
    BY DEF TableAt, IndexAt
  <2> DEFINE k == 0
  <2> HIDE DEF k
  <2>2. k \in 0..16 /\ k + 1 \notin TableAt /\ k + 1 \notin IndexAt
    BY <2>1 DEF k
  <2>3. /\ MadeBy(k + 1, "create_table") = MadeBy(k, "create_table")
        /\ MadeBy(k + 1, "create_index") = MadeBy(k, "create_index")
    BY <2>2, MadeNext
  <2> QED
    BY <1>1, <2>1, <2>3 DEF k
<1>3. EmptyDb = NoSchema(FALSE)
  BY <1>1 DEF EmptyDb, NoSchema, Built
<1>4. \A extension : NoSchema(extension).version = "none" /\ Complete.version = "0001"
  BY DEF NoSchema, Complete, Built
<1>5. ASSUME NEW extension \in BOOLEAN
      PROVE  Upgraded(0, extension) = NoSchema(extension)
  <2>1. (0 >= 1 \/ extension) = extension /\ ~(0 >= 16)
    OBVIOUS
  <2> QED
    BY <2>1 DEF Upgraded, NoSchema
<1>6. ASSUME NEW extension \in BOOLEAN, NEW db, db = Upgraded(17, extension)
      PROVE  Versioned(db, "0001") = Complete
  <2>1. (17 >= 1 \/ extension) = TRUE /\ 17 >= 16
    OBVIOUS
  <2>2. Upgraded(17, extension) = Built(17, TRUE, "shadow", "none")
    BY <2>1 DEF Upgraded
  <2>3. Versioned(db, "0001") = Built(17, TRUE, "shadow", "0001")
    <3> DEFINE n == 17
               e == TRUE
               auto == "shadow"
               v == "none"
               to == "0001"
    <3>1. db = Built(n, e, auto, v)
      BY <1>6, <2>2
    <3> HIDE DEF n, e, auto, v, to
    <3>2. Versioned(db, to) = Built(n, e, auto, to)
      BY <3>1, NewVersion
    <3> QED
      BY <3>2 DEF n, e, auto, to
  <2> QED
    BY <2>3 DEF Complete
<1>7. Downgraded(0) = Complete
  BY DEF Downgraded, Left, Complete
<1>8. ASSUME NEW db, db = Downgraded(15)
      PROVE  Versioned(db, "none") = NoSchema(TRUE)
  <2>1. Left(15) = 1
    BY DEF Left
  <2>2. ~(15 < 2)
    OBVIOUS
  <2>3. Downgraded(15) = Built(1, TRUE, "none", "0001")
    BY <2>1, <2>2, Zenon DEF Downgraded
  <2>4. Versioned(db, "none") = Built(1, TRUE, "none", "none")
    <3> DEFINE n == 1
               e == TRUE
               v == "0001"
               to == "none"
    <3>1. db = Built(n, e, to, v)
      BY <1>8, <2>3
    <3> HIDE DEF n, e, v, to
    <3>2. Versioned(db, to) = Built(n, e, to, to)
      BY <3>1, NewVersion
    <3> QED
      BY <3>2 DEF n, e, to
  <2> QED
    BY <1>1, <1>2, <2>4 DEF NoSchema, Built
<1> QED
  BY <1>3, <1>4, <1>5, <1>6, <1>7, <1>8

LEMMA EndOfScript ==
    /\ \A n \in 0..17 : SubSeq(UPGRADE, n + 1, 17) = << >> => n = 17
    /\ \A n \in 0..15 : SubSeq(DOWNGRADE, n + 1, 15) = << >> => n = 15
<1>1. \A n \in 0..17 : n \in 0..16 \/ n = 17
  OBVIOUS
<1>2. \A n \in 0..15 : n \in 0..14 \/ n = 15
  OBVIOUS
<1> QED
  BY <1>1, <1>2, ScriptGoesOn

LEMMA WholeScripts ==
    /\ UPGRADE = SubSeq(UPGRADE, 0 + 1, 17) /\ UPGRADE \in Scripts
    /\ DOWNGRADE = SubSeq(DOWNGRADE, 0 + 1, 15) /\ DOWNGRADE \in Scripts
    /\ SubSeq(UPGRADE, 17 + 1, 17) = << >> /\ SubSeq(DOWNGRADE, 15 + 1, 15) = << >>
<1>1. ASSUME NEW S, NEW q \in Seq(S)
      PROVE  q = SubSeq(q, 1, Len(q)) /\ SubSeq(q, Len(q) + 1, Len(q)) = << >>
  OBVIOUS
<1>2. UPGRADE = SubSeq(UPGRADE, 1, Len(UPGRADE))
      /\ SubSeq(UPGRADE, Len(UPGRADE) + 1, Len(UPGRADE)) = << >>
  BY <1>1, UpgradeIs
<1>3. DOWNGRADE = SubSeq(DOWNGRADE, 1, Len(DOWNGRADE))
      /\ SubSeq(DOWNGRADE, Len(DOWNGRADE) + 1, Len(DOWNGRADE)) = << >>
  BY <1>1, DowngradeIs
<1>4. Len(UPGRADE) = 17 /\ Len(DOWNGRADE) = 15 /\ 0 + 1 = 1
  BY UpgradeIs, DowngradeIs
<1>5. /\ UPGRADE = SubSeq(UPGRADE, 0 + 1, 17) /\ DOWNGRADE = SubSeq(DOWNGRADE, 0 + 1, 15)
      /\ SubSeq(UPGRADE, 17 + 1, 17) = << >> /\ SubSeq(DOWNGRADE, 15 + 1, 15) = << >>
  BY <1>2, <1>3, <1>4
<1>6. 0 \in 0..17 /\ 0 \in 0..15
  OBVIOUS
<1> QED
  BY <1>5, <1>6 DEF Scripts

LEMMA OnTheWay ==
    /\ \A n \in 0..17, extension \in BOOLEAN :
          SubSeq(UPGRADE, n + 1, 17) \in Scripts /\ Upgraded(n, extension) \in Databases
    /\ \A n \in 0..15 : SubSeq(DOWNGRADE, n + 1, 15) \in Scripts /\ Downgraded(n) \in Databases
  BY DEF Scripts, Databases

LEMMA BeginIs ==
    ASSUME migration \in Migrations, migration.refused = FALSE,
           NEW script \in Scripts, NEW to \in {"none", "0001"},
           migration' = [migration EXCEPT !.pc = "running", !.script = script, !.to = to,
                           !.work = migration.db, !.runs = @ + 1]
    PROVE  /\ migration' \in Migrations /\ migration'.refused = FALSE /\ migration'.to = to
           /\ migration'.db = migration.db /\ migration'.work = migration.db
           /\ migration'.script = script
<1>1. migration.runs \in Nat /\ migration.runs + 1 \in Nat /\ migration.db \in Databases
  BY DEF Migrations
<1> QED
  BY <1>1 DEF Migrations

LEMMA BeginOK ==
    ASSUME MigrationInv, Upgrade \/ Downgrade
    PROVE  MigrationInv'
<1>1. migration \in Migrations /\ migration.refused = FALSE /\ migration.db \in Databases
  BY DEF MigrationInv, Migrations
<1>2. CASE Upgrade
  <2>1. migration.db.version = "none"
        /\ migration' = [migration EXCEPT !.pc = "running", !.script = UPGRADE, !.to = "0001",
                           !.work = migration.db, !.runs = @ + 1]
    BY <1>2 DEF Upgrade, Begin
  <2>2. PICK extension \in BOOLEAN : migration.db = NoSchema(extension)
    BY <2>1, RunsBegin DEF MigrationInv
  <2>3. UPGRADE = SubSeq(UPGRADE, 0 + 1, 17) /\ UPGRADE \in Scripts
    BY WholeScripts
  <2>4. /\ migration' \in Migrations /\ migration'.refused = FALSE /\ migration'.to = "0001"
        /\ migration'.db = migration.db /\ migration'.work = migration.db
        /\ migration'.script = UPGRADE
    BY <1>1, <2>1, <2>3, BeginIs
  <2>5. Upgraded(0, extension) = NoSchema(extension)
    BY RunsBegin
  <2>6. Upgrading(0, extension)'
    BY <2>2, <2>3, <2>4, <2>5 DEF Upgrading
  <2> QED
    BY <2>2, <2>4, <2>6 DEF MigrationInv
<1>3. CASE Downgrade
  <2>1. migration.db.version = "0001"
        /\ migration' = [migration EXCEPT !.pc = "running", !.script = DOWNGRADE, !.to = "none",
                           !.work = migration.db, !.runs = @ + 1]
    BY <1>3 DEF Downgrade, Begin
  <2>2. migration.db = Complete
    BY <2>1, RunsBegin DEF MigrationInv
  <2>3. DOWNGRADE = SubSeq(DOWNGRADE, 0 + 1, 15) /\ DOWNGRADE \in Scripts
    BY WholeScripts
  <2>4. /\ migration' \in Migrations /\ migration'.refused = FALSE /\ migration'.to = "none"
        /\ migration'.db = migration.db /\ migration'.work = migration.db
        /\ migration'.script = DOWNGRADE
    BY <1>1, <2>1, <2>3, BeginIs
  <2>5. Downgraded(0) = Complete
    BY RunsBegin
  <2>6. Downgrading(0)'
    BY <2>2, <2>3, <2>4, <2>5 DEF Downgrading
  <2> QED
    BY <2>2, <2>4, <2>6 DEF MigrationInv
<1> QED
  BY <1>2, <1>3

LEMMA ExecuteOK ==
    ASSUME MigrationInv, Execute
    PROVE  MigrationInv'
<1>1. /\ migration \in Migrations /\ migration.refused = FALSE
      /\ migration.pc = "running" /\ migration.script # << >>
  BY DEF MigrationInv, Execute
<1>2. ASSUME NEW s, NEW work \in Databases, NEW script \in Scripts,
             s = Head(migration.script), Accepted(migration.work, s),
             work = Executed(migration.work, s), script = Tail(migration.script)
      PROVE  /\ migration' \in Migrations /\ migration'.refused = FALSE
             /\ migration'.to = migration.to /\ migration'.db = migration.db
             /\ migration'.work = work /\ migration'.script = script
  <2>1. migration' = [migration EXCEPT !.work = Executed(@, s), !.script = Tail(@)]
    BY <1>2 DEF Execute
  <2>2. migration' = [migration EXCEPT !.work = work, !.script = script]
    BY <1>1, <1>2, <2>1 DEF Migrations
  <2> QED
    BY <1>1, <2>2 DEF Migrations
<1>3. CASE \E n \in 0..17, extension \in BOOLEAN : Upgrading(n, extension)
  <2>1. PICK n \in 0..17, extension \in BOOLEAN : Upgrading(n, extension)
    BY <1>3
  <2>2. n \in 0..16 /\ n + 1 \in 0..17
    <3>1. n \in 0..16 \/ n = 17
      OBVIOUS
    <3>2. n # 17
      BY <1>1, <2>1, WholeScripts DEF Upgrading
    <3> QED
      BY <3>1, <3>2
  <2> DEFINE s == UPGRADE[n + 1]
             work == Upgraded(n + 1, extension)
             script == SubSeq(UPGRADE, (n + 1) + 1, 17)
  <2>3. work \in Databases /\ script \in Scripts
    <3> DEFINE m == n + 1
    <3>1. m \in 0..17
      BY <2>2
    <3> HIDE DEF m
    <3>2. SubSeq(UPGRADE, m + 1, 17) \in Scripts /\ Upgraded(m, extension) \in Databases
      BY <3>1, OnTheWay
    <3> QED
      BY <3>2 DEF m
  <2>4. s = Head(migration.script) /\ script = Tail(migration.script)
    BY <2>1, <2>2, ScriptGoesOn DEF Upgrading
  <2>5. Accepted(migration.work, s) /\ work = Executed(migration.work, s)
    BY <2>1, <2>2, UpgradeStep DEF Upgrading
  <2> HIDE DEF s, work, script
  <2>6. /\ migration' \in Migrations /\ migration'.refused = FALSE
        /\ migration'.to = migration.to /\ migration'.db = migration.db
        /\ migration'.work = work /\ migration'.script = script
    BY <1>2, <2>3, <2>4, <2>5
  <2>7. Upgrading(n + 1, extension)'
    BY <2>1, <2>6 DEF Upgrading, work, script
  <2> QED
    BY <2>1, <2>2, <2>6, <2>7 DEF MigrationInv, Upgrading
<1>4. CASE \E n \in 0..15 : Downgrading(n)
  <2>1. PICK n \in 0..15 : Downgrading(n)
    BY <1>4
  <2>2. n \in 0..14 /\ n + 1 \in 0..15
    <3>1. n \in 0..14 \/ n = 15
      OBVIOUS
    <3>2. n # 15
      BY <1>1, <2>1, WholeScripts DEF Downgrading
    <3> QED
      BY <3>1, <3>2
  <2> DEFINE s == DOWNGRADE[n + 1]
             work == Downgraded(n + 1)
             script == SubSeq(DOWNGRADE, (n + 1) + 1, 15)
  <2>3. work \in Databases /\ script \in Scripts
    <3> DEFINE m == n + 1
    <3>1. m \in 0..15
      BY <2>2
    <3> HIDE DEF m
    <3>2. SubSeq(DOWNGRADE, m + 1, 15) \in Scripts /\ Downgraded(m) \in Databases
      BY <3>1, OnTheWay
    <3> QED
      BY <3>2 DEF m
  <2>4. s = Head(migration.script) /\ script = Tail(migration.script)
    BY <2>1, <2>2, ScriptGoesOn DEF Downgrading
  <2>5. Accepted(migration.work, s) /\ work = Executed(migration.work, s)
    BY <2>1, <2>2, DowngradeStep DEF Downgrading
  <2> HIDE DEF s, work, script
  <2>6. /\ migration' \in Migrations /\ migration'.refused = FALSE
        /\ migration'.to = migration.to /\ migration'.db = migration.db
        /\ migration'.work = work /\ migration'.script = script
    BY <1>2, <2>3, <2>4, <2>5
  <2>7. Downgrading(n + 1)'
    BY <2>1, <2>6 DEF Downgrading, work, script
  <2> QED
    BY <2>1, <2>2, <2>6, <2>7 DEF MigrationInv, Downgrading
<1> QED
  BY <1>1, <1>3, <1>4 DEF MigrationInv

LEMMA EndIs ==
    ASSUME migration \in Migrations, migration.refused = FALSE,
           NEW db \in Databases, NEW work \in Databases, NEW script \in Scripts,
           \/ migration' = [migration EXCEPT !.pc = "idle", !.work = work, !.db = db]
           \/ migration' = [migration EXCEPT !.pc = "idle", !.script = script, !.work = work]
              /\ db = migration.db
    PROVE  /\ migration' \in Migrations /\ migration'.refused = FALSE
           /\ migration'.db = db /\ migration'.pc = "idle"
<1>1. CASE migration' = [migration EXCEPT !.pc = "idle", !.work = work, !.db = db]
  BY <1>1 DEF Migrations
<1>2. CASE migration' = [migration EXCEPT !.pc = "idle", !.script = script, !.work = work]
           /\ db = migration.db
  BY <1>2 DEF Migrations
<1> QED
  BY <1>1, <1>2

LEMMA NothingYet == EmptyDb \in Databases /\ << >> \in Scripts /\ EmptyDb = NoSchema(FALSE)
<1>1. EmptyDb = NoSchema(FALSE)
  BY RunsBegin
<1>2. << >> \in Scripts
  BY DEF Scripts
<1>3. \A extension \in BOOLEAN : NoSchema(extension) \in Databases
  BY DEF Databases
<1> QED
  BY <1>1, <1>2, <1>3

LEMMA CommitOK ==
    ASSUME MigrationInv, Commit
    PROVE  MigrationInv'
<1>1. /\ migration \in Migrations /\ migration.refused = FALSE
      /\ migration.pc = "running" /\ migration.script = << >>
  BY DEF MigrationInv, Commit
<1>2. ASSUME NEW db \in Databases, db = Versioned(migration.work, migration.to),
             db = Complete \/ \E extension \in BOOLEAN : db = NoSchema(extension)
      PROVE  MigrationInv'
  <2>1. migration' = [migration EXCEPT !.pc = "idle", !.work = EmptyDb,
                        !.db = [migration.work EXCEPT !.version = migration.to]]
    BY DEF Commit
  <2>2. [migration.work EXCEPT !.version = migration.to] = db
    BY <1>2 DEF Versioned
  <2>3. migration' = [migration EXCEPT !.pc = "idle", !.work = EmptyDb, !.db = db]
    BY <2>1, <2>2
  <2>4. /\ migration' \in Migrations /\ migration'.refused = FALSE
        /\ migration'.db = db /\ migration'.pc = "idle"
    BY <1>1, <1>2, <2>3, NothingYet, EndIs
  <2> QED
    BY <1>2, <2>4 DEF MigrationInv
<1>3. CASE \E n \in 0..17, extension \in BOOLEAN : Upgrading(n, extension)
  <2>1. PICK n \in 0..17, extension \in BOOLEAN : Upgrading(n, extension)
    BY <1>3
  <2>2. n = 17
    BY <1>1, <2>1, EndOfScript DEF Upgrading
  <2>3. migration.work = Upgraded(17, extension) /\ migration.to = "0001"
    BY <2>1, <2>2 DEF Upgrading
  <2>4. Versioned(migration.work, migration.to) = Complete
    BY <2>3, RunsBegin
  <2> QED
    BY <1>2, <2>4 DEF Databases
<1>4. CASE \E n \in 0..15 : Downgrading(n)
  <2>1. PICK n \in 0..15 : Downgrading(n)
    BY <1>4
  <2>2. n = 15
    BY <1>1, <2>1, EndOfScript DEF Downgrading
  <2>3. migration.work = Downgraded(15) /\ migration.to = "none"
    BY <2>1, <2>2 DEF Downgrading
  <2> DEFINE extension == TRUE
             db == Versioned(migration.work, migration.to)
  <2>4. extension \in BOOLEAN /\ db = NoSchema(extension)
    BY <2>3, RunsBegin
  <2> HIDE DEF extension, db
  <2>5. db \in Databases
    BY <2>4 DEF Databases
  <2> QED
    BY <1>2, <2>4, <2>5 DEF db
<1> QED
  BY <1>1, <1>3, <1>4 DEF MigrationInv

LEMMA LostOK ==
    ASSUME MigrationInv, Lost
    PROVE  MigrationInv'
<1>1. migration \in Migrations /\ migration.refused = FALSE /\ migration.db \in Databases
  BY DEF MigrationInv, Migrations
<1>2. migration' = [migration EXCEPT !.pc = "idle", !.script = << >>, !.work = EmptyDb]
  BY DEF Lost
<1>3. /\ migration' \in Migrations /\ migration'.refused = FALSE
      /\ migration'.db = migration.db /\ migration'.pc = "idle"
  BY <1>1, <1>2, NothingYet, EndIs
<1> QED
  BY <1>3 DEF MigrationInv

LEMMA NoMigrationOK == migration = NoMigration => MigrationInv
<1> SUFFICES ASSUME migration = NoMigration
             PROVE  MigrationInv
  OBVIOUS
<1> DEFINE db == EmptyDb
           script == << >>
           no == FALSE
<1>1. migration = [pc |-> "idle", script |-> script, to |-> "none", db |-> db, work |-> db,
                   runs |-> 0, refused |-> no]
  BY DEF NoMigration
<1>2. db \in Databases /\ script \in Scripts /\ db = NoSchema(no)
      /\ no \in BOOLEAN
  BY NothingYet
<1> HIDE DEF db, script, no
<1>3. migration \in Migrations
  BY <1>1, <1>2 DEF Migrations
<1>4. migration.refused = FALSE /\ migration.db = db /\ migration.pc = "idle"
  BY <1>1 DEF no
<1> QED
  BY <1>2, <1>3, <1>4 DEF MigrationInv

LEMMA MigrationNextOK == MigrationInv /\ [Next]_offlineVars => MigrationInv'
<1> SUFFICES ASSUME MigrationInv, [Next]_offlineVars
             PROVE  MigrationInv'
  OBVIOUS
<1>1. CASE UNCHANGED migration
  BY <1>1 DEF MigrationInv, Upgrading, Downgrading
<1>2. CASE Upgrade \/ Downgrade
  BY <1>2, BeginOK
<1>3. CASE Execute
  BY <1>3, ExecuteOK
<1>4. CASE Commit
  BY <1>4, CommitOK
<1>5. CASE Lost
  BY <1>5, LostOK
<1>6. CASE Anew
  <2>1. migration' = NoMigration
    BY <1>6 DEF Anew
  <2>2. (migration = NoMigration => MigrationInv)'
    BY NoMigrationOK, PTL
  <2> QED
    BY <2>1, <2>2
<1>7. MigrationNext \/ UNCHANGED migration
  BY DEF Next, MigrationRests, offlineVars
<1> QED
  BY <1>1, <1>2, <1>3, <1>4, <1>5, <1>6, <1>7 DEF MigrationNext

LEMMA MigrationInvariance == Spec => []MigrationInv
<1>1. Init => MigrationInv
  BY NoMigrationOK DEF Init, MigrationInit
<1> QED
  BY <1>1, MigrationNextOK, PTL DEF Spec

LEMMA MigrationHolds == MigrationInv => SchemaOfVersion
<1> SUFFICES ASSUME MigrationInv
             PROVE  SchemaOfVersion
  OBVIOUS
<1>1. migration.refused = FALSE
  BY DEF MigrationInv
<1>2. CASE migration.db = Complete
  <2>1. /\ migration.db.version = "0001" /\ migration.db.extension = TRUE
        /\ migration.db.tables = MadeBy(17, "create_table")
        /\ migration.db.indexes = MadeBy(17, "create_index")
        /\ migration.db.auto_mode = "shadow"
    BY <1>2 DEF Complete, Built
  <2> QED
    BY <1>1, <2>1, MadeAll DEF SchemaOfVersion
<1>3. ASSUME NEW extension \in BOOLEAN, migration.db = NoSchema(extension)
      PROVE  SchemaOfVersion
  <2>1. /\ migration.db.version = "none" /\ migration.db.auto_mode = "none"
        /\ migration.db.tables = MadeBy(0, "create_table")
        /\ migration.db.indexes = MadeBy(0, "create_index")
    BY <1>3 DEF NoSchema, Built
  <2>2. MadeBy(0, "create_table") = {} /\ MadeBy(0, "create_index") = {}
    BY DEF MadeBy
  <2> QED
    BY <1>1, <2>1, <2>2 DEF SchemaOfVersion
<1> QED
  BY <1>2, <1>3 DEF MigrationInv

\* However often the schema was upgraded, downgraded or left halfway, no statement
\* is refused, a database of version 0001 has what models.py describes and the index
\* of the vectors, and one of no version has none of it (SchemaOfVersion of
\* Migration).
THEOREM SchemaHolds == Spec => []SchemaOfVersion
  BY MigrationHolds, MigrationInvariance, PTL
=============================================================================
