---------------------------- MODULE CheckProvider ---------------------------
(***************************************************************************)
(* scripts/check_provider.py: each model is streamed from a few times and  *)
(* asked for JSON once, and the exit code says whether all of them did.    *)
(* The provider may answer, refuse, fall silent or break off at any point. *)
(***************************************************************************)
EXTENDS Naturals, Sequences

CONSTANTS Models,       \* models of the environment and the command line
          MaxRuns       \* bound of the model: --runs

ASSUME ProbeAssumption == Models \subseteq Seq(STRING) /\ MaxRuns \in Nat

VARIABLE probe  \* pc; models, those still to be asked; runs, and run, the one in
                \* hand; report, of the model in hand; text (some was streamed);
                \* rejected (json_object was); reports; exit; and, for the properties,
                \* streams, the outcomes of the streams of the model in hand

Report == [model |-> "none", stream_ok |-> FALSE, usage |-> FALSE, json_mode |-> "untested",
           errors |-> 0, streams |-> << >>]
NoProbe == [pc |-> "idle", models |-> << >>, runs |-> 0, run |-> 0, report |-> Report,
            text |-> FALSE, rejected |-> FALSE, reports |-> << >>, exit |-> 0]
ProbeInit == probe = NoProbe
ProbeIdle == probe.pc = "idle"

\* main, up to the run: models are asked for once each; none, or no URL or key, is 2.
Launch ==
    /\ ProbeIdle
    /\ \E configured \in BOOLEAN, runs \in 0..MaxRuns, models \in Models :
          probe' = IF ~configured \/ models = << >>
                     THEN [NoProbe EXCEPT !.pc = "done", !.exit = 2]
                     ELSE [NoProbe EXCEPT !.pc = "model", !.models = models, !.runs = runs]

NextModel ==
    /\ probe.pc = "model"
    /\ IF probe.models = << >> THEN probe' = [probe EXCEPT !.pc = "end"]
       ELSE probe' = [probe EXCEPT !.pc = IF probe.runs = 0 THEN "json" ELSE "stream",
                        !.report = [Report EXCEPT !.model = Head(probe.models)],
                        !.models = Tail(@), !.run = 1, !.text = FALSE]

\* A chunk with text, and the one with the usage.
ChunkText == /\ probe.pc = "stream" /\ ~probe.text
             /\ probe' = [probe EXCEPT !.text = TRUE]
ChunkUsage == /\ probe.pc = "stream" /\ ~probe.report.usage
              /\ probe' = [probe EXCEPT !.report.usage = TRUE]

\* A slip: one stream with text is enough.
StreamOk_Ever(p) == p.report.stream_ok \/ p.text
StreamOk(p) == p.text

\* The stream ends: another run, or the question for JSON.
StreamEnds ==
    /\ probe.pc = "stream"
    /\ probe' = [probe EXCEPT !.report.stream_ok = StreamOk(probe),
                   !.report.streams = Append(@, IF probe.text THEN "text" ELSE "silent"),
                   !.pc = IF probe.run = probe.runs THEN "json" ELSE "stream",
                   !.run = @ + 1, !.text = FALSE]

\* A stream that fails is the last one, and leaves stream_ok as it was.
StreamFails ==
    /\ probe.pc = "stream"
    /\ probe' = [probe EXCEPT !.pc = "json", !.report.errors = @ + 1,
                   !.report.streams = Append(@, "failed"), !.text = FALSE]

\* check_json: a request that is refused is tried again without response_format.
JsonRejected ==
    /\ probe.pc = "json" /\ ~probe.rejected
    /\ probe' = [probe EXCEPT !.rejected = TRUE, !.report.errors = @ + 1]

Reported(p, mode, errors) ==
    [p EXCEPT !.pc = "model", !.rejected = FALSE,
       !.reports = Append(@, [p.report EXCEPT !.json_mode = mode, !.errors = @ + errors])]

\* The answer holds an object with an intent, one without, no JSON, or JSON that is
\* no object: its `get` raises, which run() reports, as it does any other failure.
JsonAnswers ==
    /\ probe.pc = "json"
    /\ \E answer \in {"intent", "no_intent", "garbled", "raises"} :
          probe' = CASE answer = "intent" ->
                          Reported(probe, IF probe.rejected THEN "fallback" ELSE "native", 0)
                     [] answer = "no_intent" -> Reported(probe, "failed", 0)
                     [] answer = "garbled" -> Reported(probe, "failed", 1)
                     [] answer = "raises" -> Reported(probe, probe.report.json_mode, 1)

Passes(r) == r.stream_ok /\ r.json_mode \in {"native", "fallback"}

Exit == /\ probe.pc = "end"
        /\ probe' = [probe EXCEPT !.pc = "done",
              !.exit = IF \A i \in DOMAIN probe.reports : Passes(probe.reports[i]) THEN 0 ELSE 1]

ProbeReturns == probe.pc = "done" /\ probe' = NoProbe

ProbeNext == \/ Launch \/ NextModel \/ ChunkText \/ ChunkUsage \/ StreamEnds \/ StreamFails
             \/ JsonRejected \/ JsonAnswers \/ Exit \/ ProbeReturns

-----------------------------------------------------------------------------
(* Properties *)

\* An exit code of 0 means that every model named was asked and that each streamed
\* text in the last of its runs that came to an end, and gave JSON with an intent.
\* A run that broke off after one that ended well does not count against it.
ExitZeroIsEarned ==
    probe.pc = "done" /\ probe.exit = 0 =>
        /\ probe.models = << >> /\ probe.reports # << >>
        /\ \A i \in DOMAIN probe.reports :
              LET r == probe.reports[i]
              IN  /\ \E n \in DOMAIN r.streams :
                        /\ r.streams[n] = "text"
                        /\ \A m \in DOMAIN r.streams : m > n => r.streams[m] = "failed"
                  /\ r.json_mode \in {"native", "fallback"}
                  /\ r.json_mode = "fallback" => r.errors > 0
=============================================================================
