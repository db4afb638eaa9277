------------------------------- MODULE Telemetry -------------------------------
(***************************************************************************)
(* How the work of agent sessions becomes numbers.  An agent works on the  *)
(* branch it has checked out and writes a transcript; its exporter sends   *)
(* what it measured to the ingest routes (otlp.ts, ingest.ts), at least    *)
(* once; a hook samples which branch it is on (session-telemetry.mjs), at  *)
(* most once; and a backfill reads the transcripts of the disk             *)
(* (transcripts.ts), as often as somebody runs it.  The views of           *)
(* 002_views.repeatable.sql make one total of the two sources and divide   *)
(* it among the branches of the session; postgres-client.ts reads them.    *)
(*                                                                         *)
(* One unit of work at most is done per tick of the clock, of one field    *)
(* (input tokens), and every unit counts 1.                                *)
(***************************************************************************)
EXTENDS Naturals, FiniteSets, FiniteSetsExt

CONSTANTS
    None,
    Sessions,
    Places,       \* pairs of a repository and a branch, or of one and None: a detached HEAD
    Models,       \* the attribute that tells the series of one metric apart
    OpensAt,      \* the ticks at which an agent also opens a pull request
    AsksAt,       \* the ticks at which one may also do no work
    CHUNK,        \* units of work the backfill writes at a time
    MaxTime,
    MaxHooks,     \* reports of the hook under way at a time
    MaxFaults     \* failures of the database and answers lost
ASSUME TelemetryAssumption ==
    /\ {MaxTime, MaxHooks, MaxFaults} \subseteq Nat
    /\ OpensAt \cup AsksAt \subseteq 1..MaxTime
    /\ IsFiniteSet(Models) /\ CHUNK \in Nat \ {0}
    /\ None # "tokens_input"

VARIABLES
    now,
    place,           \* where each session works, None before it starts
    transcript,      \* the records of the transcripts on disk
    exporter,        \* each session's: what it reports, since when, what it has not sent, and the running totals
    outbox,          \* the exports that have not been acknowledged
    hooks,           \* the reports of the hook under way
    metric_point,    \* the three tables
    session_branch,
    session_pr,
    import,          \* the backfill: the work, spans and links it has read and has still to write
    faults

agentVars == <<now, place, transcript, exporter>>
tableVars == <<metric_point, session_branch, session_pr>>
vars == <<agentVars, outbox, hooks, tableVars, import, faults>>

Repo(p) == p[1]
Branch(p) == p[2]
Times == 0..MaxTime
Zero == [m \in Models |-> 0]
Idle == [on |-> FALSE, todo |-> {}, left |-> {}, links |-> {}]

Init ==
    /\ now = 0
    /\ place = [s \in Sessions |-> None]
    /\ transcript = {}
    /\ exporter \in [Sessions -> [kind : {"off", "delta", "cumulative"}, start : {0},
                              unsent : {Zero}, running : {Zero}]]
    /\ outbox = {} /\ hooks = {}
    /\ metric_point = {} /\ session_branch = {} /\ session_pr = {}
    /\ import = Idle
    /\ faults = 0

-----------------------------------------------------------------------------
(* The agent                                                               *)

Increments(s) == exporter[s].kind = "delta"
Exports(s) == exporter[s].kind # "off"

\* A tick of session s at place p: a record of the transcript, and one more if it opens a pull
\* request from there; and a measurement, if it exports.
Work(s, p, m) ==
    /\ now < MaxTime
    /\ now' = now + 1
    /\ place' = [place EXCEPT ![s] = p]
    /\ LET types == {"assistant"} \cup IF now' \in OpensAt THEN {"pr-link"} ELSE {}
       IN transcript' = transcript \cup
              {[session |-> s, type |-> type, at |-> now', place |-> p] : type \in types}
    /\ exporter' = [exporter EXCEPT
           ![s].unsent[m] = IF Exports(s) THEN @ + 1 ELSE @,
           ![s].running[m] = IF Exports(s) /\ ~Increments(s) THEN @ + 1 ELSE @]
    /\ UNCHANGED <<outbox, hooks, tableVars, import, faults>>

\* A tick without work: a record of the transcript that reports no usage, such as a prompt.
Ask(s, p) ==
    /\ now + 1 \in AsksAt
    /\ now' = now + 1
    /\ place' = [place EXCEPT ![s] = p]
    /\ transcript' = transcript \cup {[session |-> s, type |-> "user", at |-> now', place |-> p]}
    /\ UNCHANGED <<exporter, outbox, hooks, tableVars, import, faults>>

\* A restart of its process, after what it measured was collected: a new start_time.
Restart(s) ==
    /\ exporter[s].unsent = Zero /\ exporter[s].running # Zero
    /\ exporter' = [exporter EXCEPT ![s].start = now, ![s].running = Zero]
    /\ UNCHANGED <<now, place, transcript, outbox, hooks, tableVars, import, faults>>

Point(s, metric, m, n) ==
    [metric |-> metric, session |-> s, attrs |-> m, value |-> n, kind |-> "sum",
     temporality |-> exporter[s].kind, start |-> exporter[s].start, time |-> now]

\* One export: the increments since the last, or the running totals, and with them a metric that
\* has no field, one that is refused and one of a shape that cannot be read.
Collect(s) ==
    /\ exporter[s].unsent # Zero
    /\ LET counts == IF Increments(s) THEN exporter[s].unsent ELSE exporter[s].running
           any == CHOOSE m \in Models : TRUE
           odd == {Point(s, "claude_code.unheard_of", any, 1), Point(s, "claude_code.cost.usage", any, 1),
                   [Point(s, "claude_code.latency", any, 1) EXCEPT !.kind = "histogram"]}
       IN outbox' = outbox \cup
              {odd \cup {Point(s, "claude_code.token.usage", m, counts[m]) :
                             m \in {x \in Models : counts[x] > 0}}}
    /\ exporter' = [exporter EXCEPT ![s].unsent = Zero]
    /\ UNCHANGED <<now, place, transcript, hooks, tableVars, import, faults>>

-----------------------------------------------------------------------------
(* POST /api/otlp/v1/metrics                                               *)

METRIC_DENYLIST == {"claude_code.cost.usage"}

canonicalField(metric) ==
    IF metric = "claude_code.token.usage" THEN "tokens_input" ELSE None

flattenMetrics(body) ==
    {[metric |-> p.metric, field |-> canonicalField(p.metric), session |-> p.session, value |-> p.value,
      temporality |-> p.temporality, start |-> p.start, time |-> p.time, attrs |-> p.attrs,
      source |-> "otel"] :
         p \in {x \in body : x.metric \notin METRIC_DENYLIST /\ x.kind = "sum"}}

\* metric_point_dedup.
DedupKey(r) == <<r.metric, r.session, r.time, r.source, r.attrs>>

\* insert ... on conflict do nothing: what is there stays as it is.
insertMetrics(rows) ==
    metric_point' = metric_point \cup
        {r \in rows : ~\E old \in metric_point : DedupKey(old) = DedupKey(r)}

\* The rows are in and the exporter is told so, unless the answer is lost.
Ingest(body) ==
    /\ insertMetrics(flattenMetrics(body))
    /\ \/ outbox' = outbox \ {body} /\ UNCHANGED faults
       \/ faults < MaxFaults /\ faults' = faults + 1 /\ UNCHANGED outbox
    /\ UNCHANGED <<agentVars, hooks, session_branch, session_pr, import>>

\* The write fails: 503, and the exporter will send the same again.
IngestFails(body) ==
    /\ faults < MaxFaults
    /\ faults' = faults + 1
    /\ body \in outbox
    /\ outbox' = outbox
    /\ UNCHANGED <<agentVars, hooks, tableVars, import>>

-----------------------------------------------------------------------------
(* The hook, and POST /api/sessions/branch                                 *)

\* One request, never repeated.
Sample(s) ==
    /\ place[s] # None
    /\ Cardinality(hooks) < MaxHooks
    /\ hooks' = hooks \cup {[session |-> s, place |-> place[s], at |-> now]}
    /\ UNCHANGED <<agentVars, outbox, tableVars, import, faults>>

\* The row of the table, widened to hold the span.
Upsert(span) ==
    LET same(r) == r.session = span.session /\ r.place = span.place
        old == {r \in session_branch : same(r)}
        all == old \cup {span}
    IN session_branch' = (session_branch \ old) \cup
           {[session |-> span.session, place |-> span.place,
             first |-> Min({r.first : r \in all}), last |-> Max({r.last : r \in all})]}

\* The primary key takes no null branch.
Storable(p) == Branch(p) # None

recordBranch(report) ==
    /\ hooks' = hooks \ {report}
    /\ IF Storable(report.place)
       THEN Upsert([session |-> report.session, place |-> report.place,
                    first |-> report.at, last |-> report.at])
       ELSE UNCHANGED session_branch
    /\ UNCHANGED <<agentVars, outbox, metric_point, session_pr, import, faults>>

\* Too late (REQUEST_TIMEOUT_MS), refused or failed: nobody tries again.
ReportIsLost(report) ==
    /\ hooks' = hooks \ {report}
    /\ UNCHANGED <<agentVars, outbox, tableVars, import, faults>>

-----------------------------------------------------------------------------
(* npm run backfill                                                        *)

Worked(rs) == {r \in rs : r.type = "assistant"}

\* Every record but that of a link says where the session was.
Located(rs) == {r \in rs : r.type # "pr-link"}

\* The spans of such records: one per session, repository and branch.
Spans(rs) ==
    {[session |-> r.session, place |-> r.place,
      first |-> Min({x.at : x \in {y \in rs : y.session = r.session /\ y.place = r.place}}),
      last |-> Max({x.at : x \in {y \in rs : y.session = r.session /\ y.place = r.place}})] :
         r \in rs}

\* A unit of work as the backfill writes it.
Imported(r) ==
    [metric |-> "claude_code.token.usage", field |-> "tokens_input", session |-> r.session,
     value |-> 1, temporality |-> "delta", start |-> None, time |-> r.at, attrs |-> None,
     source |-> "transcript"]

\* The transcripts are read, all of them before anything is written.
backfillTranscripts ==
    /\ import = Idle
    /\ transcript # {}
    /\ import' = [on |-> TRUE, todo |-> Worked(transcript), left |-> Spans(Located(transcript)),
                  links |-> {[session |-> r.session, repo |-> Repo(r.place)] :
                                 r \in transcript \ Located(transcript)}]
    /\ UNCHANGED <<agentVars, outbox, hooks, tableVars, faults>>

\* A chunk of the work, in the order of the transcripts: each is the file of one session.
ImportChunk ==
    /\ import.todo # {}
    /\ \E chunk \in SUBSET import.todo :
           /\ Cardinality(chunk) = Min({CHUNK, Cardinality(import.todo)})
           /\ \A r \in chunk, x \in import.todo \ chunk : r.session = x.session => r.at < x.at
           /\ insertMetrics({Imported(r) : r \in chunk})
           /\ import' = [import EXCEPT !.todo = @ \ chunk]
    /\ UNCHANGED <<agentVars, outbox, hooks, session_branch, session_pr, faults>>

\* Once all of it is in, one statement per span, in the order the sessions first held them.
ImportSpan ==
    /\ import.todo = {}
    /\ \E span \in import.left :
           /\ \A other \in import.left : span.first <= other.first
           /\ IF Storable(span.place)
              THEN Upsert(span) /\ import' = [import EXCEPT !.left = @ \ {span}]
              ELSE import' = Idle /\ UNCHANGED session_branch
    /\ UNCHANGED <<agentVars, outbox, hooks, metric_point, session_pr, faults>>

ImportLinks ==
    /\ import.on /\ import.todo = {} /\ import.left = {}
    /\ session_pr' = session_pr \cup import.links
    /\ import' = Idle
    /\ UNCHANGED <<agentVars, outbox, hooks, metric_point, session_branch, faults>>

ImportDies ==
    /\ import.on
    /\ import' = Idle
    /\ UNCHANGED <<agentVars, outbox, hooks, tableVars, faults>>

Next ==
    \/ \E s \in Sessions, p \in Places, m \in Models : Work(s, p, m)
    \/ \E s \in Sessions, p \in Places : Ask(s, p)
    \/ \E s \in Sessions : Restart(s) \/ Collect(s) \/ Sample(s)
    \/ \E body \in outbox : Ingest(body) \/ IngestFails(body)
    \/ \E report \in hooks : recordBranch(report) \/ ReportIsLost(report)
    \/ backfillTranscripts \/ ImportChunk \/ ImportSpan \/ ImportLinks \/ ImportDies

Spec == Init /\ [][Next]_vars

-----------------------------------------------------------------------------
(* The views                                                               *)

Value(rs) == MapThenSumSet(LAMBDA r : r.value, rs)

session_source(s) ==
    IF \E r \in metric_point : r.session = s /\ r.source = "otel" THEN "otel" ELSE "transcript"

EveryPoint == metric_point   \* seeded bug: both sources of a session are read

metric_point_used == {r \in metric_point : r.source = session_source(r.session)}

Unclamped == session_branch   \* seeded bug: the spans as they were reported

\* No two slices of a session overlap: each ends before the next begins.
session_branch_slice ==
    {[r EXCEPT !.last =
          LET later == {x.first : x \in {y \in session_branch : y.session = r.session /\ y.first > r.first}}
          IN IF later = {} THEN @ ELSE Min({@, Min(later) - 1})] : r \in session_branch}

Points(s) == {r \in metric_point_used : r.session = s /\ r.field = "tokens_input"}

\* Increments are summed; of the running totals of one start_time the last is taken.
session_field_total(s) ==
    LET deltas == {r \in Points(s) : r.temporality # "cumulative"}
        totals == Points(s) \ deltas
    IN Value(deltas)
       + MapThenSumSet(LAMBDA t : Max({r.value : r \in {x \in totals : x.start = t}}),
                       {r.start : r \in totals})

\* By branch, whatever its repository.
branch_field_total(s, branch) ==
    MapThenSumSet(LAMBDA slice : Value({r \in Points(s) : /\ r.temporality # "cumulative"
                                                          /\ r.time \in slice.first..slice.last}),
                  {x \in session_branch_slice : x.session = s /\ Branch(x.place) = branch})

branch_count(s) == Cardinality({r \in session_branch : r.session = s})

\* An end-of-session total is all there is of the session.
AllCumulative(s) ==
    \A r \in metric_point_used : r.session = s => r.temporality = "cumulative"

\* fetchRollups: what each slice of the session is credited with, None when it cannot be divided.
Split(slice) ==
    LET s == slice.session IN
    CASE AllCumulative(s) /\ branch_count(s) > 1 -> None
      [] branch_count(s) = 1 -> session_field_total(s)
      [] OTHER -> branch_field_total(s, Branch(slice.place))

Splits(s) == {slice \in session_branch_slice : slice.session = s}

-----------------------------------------------------------------------------
(* Properties                                                              *)

Done(s) == {r \in Worked(transcript) : r.session = s}
Undelivered(s) == {r \in UNION {flattenMetrics(body) : body \in outbox} :
                       r.session = s /\ r.field # None /\ r \notin metric_point}
Held(s) == MapThenSumSet(LAMBDA m : exporter[s].unsent[m], Models)

\* However often an export is sent again and the transcripts are read again, every unit of work is
\* counted once: of a session that exports increments, what has arrived, what is on its way and what
\* is yet to be collected make up its work exactly; of a session known from its transcript alone, the
\* total is the work up to some moment; and no total ever exceeds the work.
\* (Idempotent delivery, store.ts and 003_backfill.sql; a session both sources cover, 002's views.)
WorkCountsOnce ==
    \A s \in Sessions :
        LET otel == session_source(s) = "otel" IN
        /\ session_field_total(s) <= Cardinality(Done(s))
        /\ otel /\ Increments(s) =>
               session_field_total(s) + Value(Undelivered(s)) + Held(s) = Cardinality(Done(s))
        /\ ~otel => \E t \in Times :
               session_field_total(s) = Cardinality({r \in Done(s) : r.at <= t})

\* The same branch name in two repositories of one session.
NamesAreDistinct(s) ==
    \A x, y \in Splits(s) : Branch(x.place) = Branch(y.place) => x = y

\* What the branches of a session are credited with never adds up to more than the session did, in
\* whatever order reports and imports arrived and however often the session came back to a branch:
\* the slices of 002's session_branch_slice do not overlap.  A session that held branches of one name
\* in two repositories is left out: see SplitsAddUp.
CreditedOnce ==
    \A s \in Sessions : NamesAreDistinct(s) =>
        LET divided == {x \in Splits(s) : Split(x) # None}
        IN MapThenSumSet(Split, divided) <= session_field_total(s)

\* The same of every session, as 002_views.repeatable.sql:53 has it ("a genuine partition").
SplitsAddUp ==
    \A s \in Sessions :
        LET divided == {x \in Splits(s) : Split(x) # None}
        IN MapThenSumSet(Split, divided) <= session_field_total(s)

=============================================================================
