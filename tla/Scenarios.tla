----------------------------- MODULE Scenarios -----------------------------
(***************************************************************************)
(* The source emulator's algorithms (scenarios/): a scenario document is   *)
(* validated (parser.py), and turned into landing files, each with its     *)
(* path and its rows (generator.py, writer.py).                            *)
(*                                                                         *)
(* A row is the clock of its scenario, its number in the batch, the faults *)
(* injected into it, and whether its price has been converted for the      *)
(* south emitter; what else it holds follows from these.  Its              *)
(* _ingestion_order is its place in the file.                              *)
(***************************************************************************)
EXTENDS Ordering, SequencesExt

CONSTANTS
    Documents,     \* scenario name -> its document, a function from field names
    Clocks,        \* the logical clocks that are ISO-8601 and have a time zone
    SourceOrder,   \* the declared sources, in the order of the documents
    Emitters       \* source -> its declared emitters in order, <<>> if it has none

Names == DOMAIN Documents
DeclaredSources == Range(SourceOrder)

\* s is a list.
IsList(s) == s \in Seq(Range(s))

ASSUME ScenariosAssumption ==
    /\ DeclaredSources \subseteq DOMAIN Emitters
    /\ IsList(SourceOrder) /\ \A s \in DeclaredSources : IsList(Emitters[s])
    /\ \A d \in Names : "logical_clock" \notin DOMAIN Documents[d]
                            \/ Documents[d].logical_clock \in Clocks \cup {Null}

\* The parser does not check this, a test does (tests/unit/test_generator.py:36).
ASSUME OwnClocks ==
    \A d, e \in Names :
        /\ d # e
        /\ {"logical_clock", "batches"} \subseteq DOMAIN Documents[d] \cap DOMAIN Documents[e]
        => Documents[d].logical_clock # Documents[e].logical_clock

Optional(record, field, default) ==
    IF field \in DOMAIN record THEN record[field] ELSE default

ASSUME ListsAssumption ==
    \A d \in Names : "batches" \in DOMAIN Documents[d] =>
        \A source \in DOMAIN Documents[d].batches :
            LET spec == Documents[d].batches[source]
            IN  IsList(Optional(spec, "faults", <<>>)) /\ IsList(Optional(spec, "emitters", <<>>))

\* Those of the elements of s that are in some set, in their order.
Selected(s, wanted) ==
    FoldLeft(LAMBDA kept, e : IF e \in wanted THEN Append(kept, e) ELSE kept, <<>>, s)

-----------------------------------------------------------------------------
(* Faults.  Rows are counted from 1 here and from 0 in the code.           *)

\* The faults that change one row in place: which.
ChangedRow ==
    [null_key |-> 1, null_change_ts |-> 1, stale_redelivery |-> 1, delete_events |-> 1,
     negative_quantity |-> 2, invalid_op |-> 2, equal_sequence_tiebreak |-> 2,
     future_event_ts |-> 3, orphan_update |-> 3,
     invalid_birth_date |-> 4, null_customer_id |-> 4,
     invalid_loyalty_tier |-> 5, broken_store_ref |-> 6]

\* The faults that change the first rows: how many at most.
ChangedRows ==
    [late_arriving_events |-> 3, epoch_millis_timestamps |-> 3, extra_column_south |-> 2]

\* The faults that append a copy of a row, as it is or (key_duplicate) altered.
CopiedRow == [row_duplicate |-> 2, key_duplicate |-> 3, duplicate_event_id |-> 1]

KnownFaults ==
    DOMAIN ChangedRow \cup DOMAIN ChangedRows \cup DOMAIN CopiedRow
      \cup {"extra_column_south_all_rows", "orphan_delete", "cancelled_before_placed",
            "out_of_order_within_batch"}

Row == [clock : Clocks, number : Nat, faults : SUBSET KnownFaults, converted : BOOLEAN]

\* A handler fails on a batch without the row or the column that it reads.
Handles(fault, source, rows) ==
    /\ fault \in DOMAIN ChangedRow => ChangedRow[fault] <= Len(rows)
    /\ fault \in DOMAIN CopiedRow => CopiedRow[fault] <= Len(rows)
    /\ fault \in {"equal_sequence_tiebreak", "delete_events"} => source = "customer_updates"
    /\ fault = "cancelled_before_placed" => source = "order_events"
    /\ fault \in {"future_event_ts", "late_arriving_events", "epoch_millis_timestamps"}
           => source # "products"

Marked(row, fault) == [row EXCEPT !.faults = @ \cup {fault}]

\* A copy is marked to tell it from its original, which the copy in the file does not.
Handler(fault, rows) ==
    CASE fault \in DOMAIN ChangedRow -> [rows EXCEPT ![ChangedRow[fault]] = Marked(@, fault)]
      [] fault \in DOMAIN ChangedRows ->
           [i \in DOMAIN rows |->
               IF i <= ChangedRows[fault] THEN Marked(rows[i], fault) ELSE rows[i]]
      [] fault \in DOMAIN CopiedRow -> Append(rows, Marked(rows[CopiedRow[fault]], fault))
      [] fault = "extra_column_south_all_rows" ->
           [i \in DOMAIN rows |-> Marked(rows[i], fault)]
      [] fault = "orphan_delete" -> Append(rows, Marked(Last(rows), fault))
      [] fault = "cancelled_before_placed" -> <<Marked(rows[1], fault)>> \o rows
      [] fault = "out_of_order_within_batch" -> Reverse(rows)

BaseRows(clock, n) ==
    [i \in 1..n |-> [clock |-> clock, number |-> i, faults |-> {}, converted |-> FALSE]]

\* The faults, one after the other; Null if a handler fails.
ApplyFaults(records, faults, source) ==
    FoldLeft(LAMBDA rows, fault : IF rows = Null \/ ~Handles(fault, source, rows)
                                  THEN Null ELSE Handler(fault, rows),
             records, faults)

\* The batch of a scenario with its faults, or Null.
FaultedRows(name, source) ==
    LET spec == Documents[name].batches[source]
    IN  ApplyFaults(BaseRows(Documents[name].logical_clock, spec.rows),
                    Optional(spec, "faults", <<>>), source)

-----------------------------------------------------------------------------
(* parser.py: what is accepted.                                            *)

ScenarioFields ==
    {"scenario", "logical_clock", "description", "proves", "batches", "replay_of",
     "variants", "expected_absent"}

ValidBatches(batches) ==
    /\ DOMAIN batches # {}
    /\ \A source \in DOMAIN batches :
           LET spec == batches[source]
           IN  /\ source \in DeclaredSources
               /\ DOMAIN spec \subseteq {"rows", "faults", "emitters"}
               /\ Optional(spec, "rows", 0) \in Nat \ {0}
               /\ Range(Optional(spec, "faults", <<>>)) \subseteq KnownFaults
               /\ "emitters" \in DOMAIN spec =>
                      /\ Emitters[source] # <<>>
                      /\ Range(spec.emitters) \subseteq Range(Emitters[source])

\* An absence is a pair of a source and an emitter.
ValidAbsence(entry) ==
    entry[1] \in DeclaredSources /\ entry[2] \in Range(Emitters[entry[1]])

IsReplay(name) == "replay_of" \in DOMAIN Documents[name]

\* load_scenario and parse_scenario, under the name of the file.
Parses(name) ==
    LET raw == Documents[name]
    IN  /\ name \in Names
        /\ DOMAIN raw \subseteq ScenarioFields
        /\ {"scenario", "logical_clock", "description", "proves"} \subseteq DOMAIN raw
        /\ raw.scenario = name
        /\ raw.proves # <<>>
        /\ raw.logical_clock \in Clocks
        /\ IsReplay(name) # ("batches" \in DOMAIN raw)
        /\ IF IsReplay(name)
           THEN /\ raw.replay_of \in Names \ {name}
                /\ {"variants", "expected_absent"} \cap DOMAIN raw = {}
           ELSE /\ ValidBatches(raw.batches)
                /\ LET variants == Optional(raw, "variants", <<>>)
                   IN  \A v \in DOMAIN variants : ValidBatches(variants[v])
                /\ \A entry \in Optional(raw, "expected_absent", {}) : ValidAbsence(entry)

-----------------------------------------------------------------------------
(* generator.py: the files of an accepted document.                        *)

\* Fault: the last emitter gets a chunk like the others.
Part_NoRest(rows, i, n) ==
    LET chunk == Max({1, Len(rows) \div n})
    IN  SubSeq(rows, (i - 1) * chunk + 1, Min({i * chunk, Len(rows)}))

\* Emitter i of n gets a chunk of the batch; the last one gets the rest.
Part(rows, i, n) ==
    LET chunk == Max({1, Len(rows) \div n})
        last  == IF i = n THEN Len(rows) ELSE Min({i * chunk, Len(rows)})
    IN  SubSeq(rows, (i - 1) * chunk + 1, last)

\* Fault: the name is made from the date alone, as if a day had one scenario.
FileName_SeqOnly(source, clock, seq) ==
    [source |-> source, clock |-> Null, seq |-> seq]

\* _file_name: date and time of the logical clock, and the place of the emitter.
FileName(source, clock, seq) == [source |-> source, clock |-> clock, seq |-> seq]

\* The emitters a batch goes to, Null standing for a source without emitters.
BatchEmitters(source, spec, absent) ==
    LET asked    == Optional(spec, "emitters", <<>>)
        declared == IF Emitters[source] = <<>> THEN <<Null>> ELSE Emitters[source]
        emitters == IF asked # <<>> THEN asked ELSE declared
    IN  Selected(emitters, {e \in Range(emitters) : <<source, e>> \notin absent})

\* The south emitter quotes in THB.
Converted(rows) == [i \in DOMAIN rows |-> [rows[i] EXCEPT !.converted = TRUE]]

\* The files of one batch.  The writer puts each into the directory of its emitter.
BatchFiles(name, source) ==
    LET raw      == Documents[name]
        spec     == raw.batches[source]
        rows     == FaultedRows(name, source)
        emitters == BatchEmitters(source, spec, Optional(raw, "expected_absent", {}))
    IN  [i \in DOMAIN emitters |->
            LET part == Part(rows, i, Len(emitters))
            IN  [path |-> [emitter |-> emitters[i],
                           file |-> FileName(source, raw.logical_clock, i)],
                 records |-> IF emitters[i] = "south" THEN Converted(part) ELSE part]]

BatchSources(name) == Selected(SourceOrder, DOMAIN Documents[name].batches)

\* load_scenario of a name, a step along replay_of.
Follow(name) == IF IsReplay(name) /\ Parses(name) THEN Documents[name].replay_of ELSE name

\* What a replay stands for, after as many steps as there are documents.
ReplayTarget ==
    LET after[n \in 0..Cardinality(Names)] ==
            IF n = 0 THEN [name \in Names |-> name]
            ELSE [name \in Names |-> Follow(after[n - 1][name])]
    IN  after[Cardinality(Names)]

\* load_scenario and generate_batches come to an end with files: every document on the
\* way parses, the replays do not run in a circle, and no handler fails.
Generates(name) ==
    LET t == ReplayTarget[name]
    IN  /\ Parses(t)
        /\ ~IsReplay(t)
        /\ \A s \in DOMAIN Documents[t].batches : FaultedRows(t, s) # Null

Generating == {name \in Names : Generates(name)}

\* Fault: a replay is written under its own clock.
GenerateBatches_OwnClock(name) ==
    LET t == ReplayTarget[name]
        redated(file) == [file EXCEPT !.path.file.clock = Documents[name].logical_clock]
        files(s) == [i \in DOMAIN BatchFiles(t, s) |-> redated(BatchFiles(t, s)[i])]
    IN  FlattenSeq([i \in DOMAIN BatchSources(t) |-> files(BatchSources(t)[i])])

\* generate_batches, of a scenario that generates.
GenerateBatches(name) ==
    LET t == ReplayTarget[name]
    IN  FlattenSeq([i \in DOMAIN BatchSources(t) |-> BatchFiles(t, BatchSources(t)[i])])

Generated == [name \in Generating |-> GenerateBatches(name)]
=============================================================================
