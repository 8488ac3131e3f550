-------------------------------- MODULE Join --------------------------------
(***************************************************************************)
(* The join command (join.py, join_catalog.py): the selected reports are   *)
(* loaded in the order of their names with the reference first, each of    *)
(* the others is compared with the reference, and its results are added to *)
(* a copy of it.                                                           *)
(*                                                                         *)
(* A report is reduced to what the join distinguishes: its label, schema   *)
(* and values at dotted paths, the number of its chart series, and whether *)
(* it has the chart of an optional metric, a log archive, a group of       *)
(* operating system charts (with that many blocks) and storage snapshots.  *)
(***************************************************************************)
EXTENDS Naturals, Sequences, Functions, FiniteSets

CONSTANTS
    Reports,     \* the files there may be; label 0: no JSON object
    Count,       \* how many are selected, named 1 .. Count
    Commands,    \* the paths of items with a command: the steps of a report
    Required     \* the paths of the join task

VARIABLES
    stage,       \* "load", "check", "merge", "joined" or "refused"
    files,       \* the selected files in the order of their names
    reference,   \* the name of the reference, 0 if none is given
    sources,     \* the reports that were loaded; the first is the baseline
    position,    \* the next file to load, then the next source to merge
    joined       \* the copy of the baseline that becomes the joined report

joinVars == <<stage, files, reference, sources, position, joined>>

Blank == [tps |-> <<>>, metric |-> <<>>, outputs |-> <<>>, logs |-> <<>>,
          rows |-> <<>>, blocks |-> <<>>, snapshots |-> <<>>]

IsReport(f) == f.label # 0

\* A report has a chart series; how many, and what else it has, is free.
ASSUME JoinAssumption ==
    /\ Count \in Nat
    /\ \A f \in Reports : IsReport(f) =>
           f.series \in Nat \ {0} /\ f.blocks \in Nat /\ f.metric \in BOOLEAN

Selected == files \in [1 .. Count -> Reports] /\ reference \in 0 .. Count
JoinInit == stage = "load" /\ sources = <<>> /\ position = 1 /\ joined = Blank

-----------------------------------------------------------------------------
\* The i-th to load: the reference, then the others in the order of their names.
Order(i) ==
    IF reference = 0 \/ i > reference THEN i ELSE IF i = 1 THEN reference ELSE i - 1

\* A file that cannot be read is skipped, unless it is the reference.
Load ==
    /\ stage = "load" /\ position <= Count /\ position' = position + 1
    /\ LET file == files[Order(position)]
       IN  IF IsReport(file) THEN sources' = Append(sources, file) /\ UNCHANGED stage
           ELSE /\ stage' = IF Order(position) = reference THEN "refused" ELSE stage
                /\ UNCHANGED sources
    /\ UNCHANGED <<files, reference, joined>>
Loaded ==
    /\ stage = "load" /\ position > Count
    /\ stage' = IF Len(sources) < 2 THEN "refused" ELSE "check"
    /\ UNCHANGED <<files, reference, sources, position, joined>>

Labels == [i \in DOMAIN sources |-> sources[i].label]
Baseline == sources[1]
Incoming == sources[position]
Times(n, x) == [i \in 1 .. n |-> x]

\* A chart series: whose it is, and whether its points have values.
Series(r, filled) == Times(r.series, [of |-> r.label, filled |-> filled])

(* The labels are unique, the schemas equal; the copy of the baseline gets *)
(* its label on every series, table, archive and block.                    *)
Check ==
    /\ stage = "check"
    /\ IF IsInjective(Labels) /\ \A i \in DOMAIN sources : sources[i].schema = Baseline.schema
          THEN /\ stage' = "merge" /\ position' = 2
               /\ joined' = [joined EXCEPT
                    !.tps = Series(Baseline, TRUE),
                    !.metric = IF Baseline.metric THEN Series(Baseline, TRUE) ELSE <<>>,
                    !.outputs = <<Baseline.label>>,
                    !.logs = IF Baseline.logs THEN <<Baseline.label>> ELSE <<>>,
                    !.rows = [c \in DOMAIN Baseline.values \cap Commands |-> <<>>],
                    !.blocks = Times(Baseline.blocks, Baseline.label)]
          ELSE stage' = "refused" /\ UNCHANGED <<position, joined>>
    /\ UNCHANGED <<files, reference, sources>>

Steps(r) == DOMAIN r.values \cap Commands
Agree(r, s, path) == {path} \subseteq DOMAIN r.values \cap DOMAIN s.values
                     /\ r.values[path] = s.values[path]

\* compare_reports raises nothing, and the same chart groups are in both.
Comparable(r, s) ==
    /\ Steps(r) = Steps(s)
    /\ \A path \in Required : Agree(r, s, path)
    /\ r.charts = s.charts

\* The table of an item that is not required and differs from the baseline.
Rows(step) ==
    LET begun == IF joined.rows[step] = <<>> THEN <<Baseline.label>> ELSE joined.rows[step]
    IN  IF Agree(Baseline, Incoming, step) THEN joined.rows[step]
        ELSE Append(begun, Incoming.label)

\* Mutant: a source without the metric adds nothing to its chart.
MetricAsFound ==
    joined.metric \o (IF Incoming.metric THEN Series(Incoming, TRUE) ELSE <<>>)
(* The chart of an optional metric: a source without it, also one merged   *)
(* before the chart appeared, has series without values.                   *)
Metric ==
    LET known == IF joined.metric # <<>> THEN joined.metric
                 ELSE [i \in DOMAIN joined.tps |-> [joined.tps[i] EXCEPT !.filled = FALSE]]
    IN  IF joined.metric = <<>> /\ ~Incoming.metric THEN <<>>
        ELSE known \o Series(Incoming, Incoming.metric)

Merge ==
    /\ stage = "merge" /\ position \in DOMAIN sources
    /\ IF Comparable(Baseline, Incoming)
          THEN /\ position' = position + 1 /\ UNCHANGED stage
               /\ joined' = [joined EXCEPT
                    !.tps = @ \o Series(Incoming, TRUE),
                    !.metric = Metric,
                    !.outputs = Append(@, Incoming.label),
                    !.logs = IF Incoming.logs THEN Append(@, Incoming.label) ELSE @,
                    !.rows = [step \in DOMAIN @ |-> Rows(step)],
                    !.blocks = @ \o Times(Incoming.blocks, Incoming.label)]
          ELSE stage' = "refused" /\ UNCHANGED <<position, joined>>
    /\ UNCHANGED <<files, reference, sources>>

\* Every source, with its snapshots or a note that it has none, if any has.
Snapshots ==
    IF \E i \in DOMAIN sources : sources[i].storage
       THEN [i \in DOMAIN sources |-> <<sources[i].label, sources[i].storage>>]
       ELSE <<>>

Sections ==
    /\ stage = "merge" /\ position \notin DOMAIN sources
    /\ stage' = "joined" /\ joined' = [joined EXCEPT !.snapshots = Snapshots]
    /\ UNCHANGED <<files, reference, sources, position>>

JoinStep == Load \/ Loaded \/ Check \/ Merge \/ Sections
JoinEnded == stage \in {"joined", "refused"}
-----------------------------------------------------------------------------
(* In a joined report the chart of an optional metric has the series of    *)
(* the TPS chart, one by one, and values exactly where its source has them *)
(* (add_result).                                                           *)
SeriesAligned ==
    stage = "joined" /\ joined.metric # <<>> =>
        /\ Len(joined.metric) = Len(joined.tps)
        /\ \A i \in DOMAIN joined.tps :
              /\ joined.metric[i].of = joined.tps[i].of
              /\ \A j \in DOMAIN sources : sources[j].label = joined.metric[i].of
                     => joined.metric[i].filled = sources[j].metric

\* The entries are the labels of these sources, each once, in their order.
Lists(entries, chosen) ==
    /\ {entries[i] : i \in DOMAIN entries} = {sources[j].label : j \in chosen}
    /\ \A i, k \in DOMAIN entries, a, b \in chosen :
          i < k /\ entries[i] = sources[a].label /\ entries[k] = sources[b].label => a < b

(* The table of an item shows the reference and the sources that differ    *)
(* from it, in their order, whatever the other sources say; an item        *)
(* without a table is equal in all of them (compare_reports).              *)
DifferencesShown ==
    stage = "joined" => \A step \in DOMAIN joined.rows :
        LET differing == {j \in DOMAIN sources : ~Agree(Baseline, sources[j], step)}
        IN  Lists(joined.rows[step], IF differing = {} THEN {} ELSE {1} \cup differing)

(* Any two sources of a joined report agree on every path of the join task *)
(* and have the same steps, although each is compared with one only.       *)
SourcesComparable ==
    stage = "joined" => \A i, j \in DOMAIN sources :
        /\ sources[i].schema = sources[j].schema
        /\ Steps(sources[i]) = Steps(sources[j])
        /\ \A path \in Required : Agree(sources[i], sources[j], path)

(* Every selected file that can be read is a source, the reference is the  *)
(* first, and every source of a joined report contributes its series,      *)
(* results, archive, chart blocks and snapshots (or the note that it has   *)
(* none) under its own label.                                              *)
SourcesKept ==
    stage = "joined" =>
        /\ {sources[j] : j \in DOMAIN sources} = {f \in Range(files) : IsReport(f)}
        /\ reference # 0 => Baseline = files[reference]
        /\ Lists(joined.outputs, DOMAIN sources)
        /\ Lists(joined.logs, {j \in DOMAIN sources : sources[j].logs})
        /\ joined.snapshots = <<>> \/ Len(joined.snapshots) = Len(sources)
        /\ \A j \in DOMAIN sources :
              /\ Cardinality({i \in DOMAIN joined.tps : joined.tps[i].of = sources[j].label}) = sources[j].series
              /\ Cardinality({i \in DOMAIN joined.blocks : joined.blocks[i] = sources[j].label}) = sources[j].blocks

(* A joined report shows what its sources say, of reports that can be      *)
(* compared, and of all of them.                                           *)
JoinFaithful == SeriesAligned /\ DifferencesShown /\ SourcesComparable /\ SourcesKept
=============================================================================
