---------------------------- MODULE VerdictProofs ---------------------------
(***************************************************************************)
(* The verdict against the handshakes behind it, for every directory.      *)
(***************************************************************************)
EXTENDS Verdict, FiniteSetTheorems, TLAPS

\* Every record in the directory is of a handshake, and its evaluation unless
\* the campaign died over it.
Evaluated ==
    /\ IsFiniteSet(files)
    /\ \A r \in files : /\ r.truth \in Observations
                        /\ r.state \in {"evaluated", "raw", "torn"}
                        /\ r.state = "evaluated" => r.metrics = EvaluateV12(r.truth)

\* What is not evaluated is what the dead campaign left of its last run.
LastOf(r, state) == r.state = state /\ r.fault = Slots[at].fault
Remains ==
    /\ \A r \in files : r.state # "evaluated" => died \in {"raw", "torn"} /\ LastOf(r, died)
    /\ died \in {"raw", "torn"} => \E r \in files : LastOf(r, died)

-----------------------------------------------------------------------------

\* A count that equals the number of records holds of every record.
LEMMA CountIsAll ==
    ASSUME NEW S, IsFiniteSet(S), NEW T \in SUBSET S, Cardinality(T) = Cardinality(S)
    PROVE  T = S
  BY FS_Subset

\* A count of zero holds of none.
LEMMA CountIsNone ==
    ASSUME NEW S, IsFiniteSet(S), NEW T \in SUBSET S, Cardinality(T) = 0
    PROVE  T = {}
  BY FS_Subset, FS_EmptySet

\* In one connection a ServerHello that is no retry is the last Hello.
LEMMA ServerHelloLast ==
    ASSUME NEW o, Observation(o), NEW i \in ServerHellos(o)
    PROVE  /\ Len(o.hellos) \in Nat /\ i = Len(o.hellos)
           /\ i \in {2, 4} /\ i \in DOMAIN o.hellos
<1>1. /\ o.hellos \in Seq(Hello) /\ Len(o.hellos) \in 0 .. 4
      /\ \A j \in DOMAIN o.hellos :
            o.hellos[j].from = IF j \in {1, 3} THEN "client" ELSE "server"
      /\ Len(o.hellos) > 2 => o.hellos[2].hrr
  BY DEF Observation, Flight
<1>2. /\ i \in DOMAIN o.hellos /\ o.hellos[i].from = "server" /\ ~o.hellos[i].hrr
  BY DEF ServerHellos, Observation
<1>3. i \notin {1, 3}
  BY <1>1, <1>2
<1>4. i \in 1 .. Len(o.hellos)
  BY <1>1, <1>2
<1>5. i = 2 => Len(o.hellos) <= 2
  BY <1>1, <1>2, <1>4
<1> QED
  BY <1>1, <1>2, <1>3, <1>4, <1>5

\* final_group is the group of the last Hello.
LEMMA FinalGroupIsLast ==
    ASSUME NEW o, Observation(o), NEW i \in ServerHellos(o)
    PROVE  FinalGroup(o) = o.hellos[Len(o.hellos)].group
<1> DEFINE c == CHOOSE n \in ServerHellos(o) : \A j \in ServerHellos(o) : j <= n
<1>1. i = Len(o.hellos) /\ i \in {2, 4} /\ \A j \in ServerHellos(o) : j = i
  BY ServerHelloLast
<1>2. i <= i
  BY <1>1
<1>3. \A j \in ServerHellos(o) : j <= i
  BY <1>1, <1>2
<1>4. c \in ServerHellos(o)
  BY <1>3
<1>5. c = i
  BY <1>1, <1>4
<1>6. FinalGroup(o) = o.hellos[c].group
  BY DEF FinalGroup
<1> HIDE DEF c
<1> QED
  BY <1>1, <1>5, <1>6

\* What the metrics of one run prove about its handshake.
LEMMA RunSound ==
    ASSUME NEW o, Observation(o), NEW e,
           e \in {[hrr |-> TRUE, final |-> Hybrid], [hrr |-> FALSE, final |-> Classical]},
           Labelled(EvaluateV12(o)),
           e.hrr <=> EvaluateV12(o).hrr_pcap = "yes",
           EvaluateV12(o).final = e.final
    PROVE  Precondition(o.hellos[1]) /\ TrueOutcome(o) = e
<1>1. /\ o.pcap /\ o.log /\ ClientPrecondition(o)
      /\ Cardinality(ServerHellos(o)) = 1
      /\ FinalGroup(o) = e.final
      /\ e.hrr <=> Retries(o) # {}
      /\ DetectHrr(o) <=> Retries(o) # {}
  <2>1. o.pcap /\ o.log /\ ClientPrecondition(o)
    BY DEF Labelled, EvaluateV12
  <2> QED
    BY <2>1 DEF Labelled, EvaluateV12, Tri
<1>2. PICK i \in ServerHellos(o) : TRUE
  BY <1>1, FS_EmptySet
<1>3. /\ i = Len(o.hellos) /\ i \in {2, 4}
      /\ \A j \in ServerHellos(o) : j = i
  BY ServerHelloLast
<1>4. e.final = o.hellos[Len(o.hellos)].group
  BY <1>1, FinalGroupIsLast
<1>5. TrueOutcome(o) = e
  <2>1. DetectHrr(o) \in BOOLEAN
    BY DEF DetectHrr
  <2>2. e = [hrr |-> DetectHrr(o), final |-> o.hellos[Len(o.hellos)].group]
    <3>1. CASE e = [hrr |-> TRUE, final |-> Hybrid]
      <4>1. e.hrr /\ e.final = Hybrid
        BY <3>1
      <4>2. DetectHrr(o) = TRUE
        BY <1>1, <2>1, <4>1
      <4> QED
        BY <1>4, <3>1, <4>1, <4>2
    <3>2. CASE e = [hrr |-> FALSE, final |-> Classical]
      <4>1. ~e.hrr /\ e.final = Classical
        BY <3>2
      <4>2. DetectHrr(o) = FALSE
        BY <1>1, <2>1, <4>1
      <4> QED
        BY <1>4, <3>2, <4>1, <4>2
    <3> QED
      BY <3>1, <3>2
  <2> QED
    BY <2>2 DEF TrueOutcome, DetectHrr
<1>6. Precondition(o.hellos[1])
  <2>1. PICK k \in ClientHellos(o) : Precondition(o.hellos[k])
    BY <1>1 DEF ClientPrecondition
  <2>2. /\ o.hellos \in Seq(Hello) /\ k \in DOMAIN o.hellos /\ o.hellos[k].from = "client"
        /\ \A j \in DOMAIN o.hellos :
              o.hellos[j].from = IF j \in {1, 3} THEN "client" ELSE "server"
    BY DEF ClientHellos, Observation, Flight
  <2>3. k \in {1, 3} /\ k \in 1 .. Len(o.hellos)
    BY <2>2
  <2>4. CASE k = 3
    <3>1. Len(o.hellos) = 4
      <4>1. 3 \in 1 .. Len(o.hellos) /\ Len(o.hellos) \in {2, 4}
        BY <1>3, <2>3, <2>4
      <4>2. \A n \in {2, 4} : 3 \in 1 .. n => n = 4
        OBVIOUS
      <4> QED
        BY <4>1, <4>2
    <3>2. /\ o.hellos[2].hrr /\ o.hellos[3].shares = <<o.hellos[2].group>>
          /\ o.hellos[4].group = o.hellos[2].group
      BY <3>1 DEF Observation, Flight
    <3>3. <<o.hellos[2].group>> = <<Classical>>
      BY <2>1, <2>4, <3>2 DEF Precondition
    <3>4. e.final = Classical
      BY <1>4, <3>1, <3>2, <3>3
    <3>5. DetectHrr(o)
      <4>1. 2 \in DOMAIN o.hellos /\ o.hellos[2].from = "server"
        BY <2>2, <3>1
      <4> QED
        BY <3>2, <4>1 DEF DetectHrr
    <3>6. e.hrr
      BY <1>1, <3>5
    <3> QED
      BY <3>4, <3>6 DEF Classical, Hybrid
  <2> QED
    BY <2>1, <2>3, <2>4
<1> QED
  BY <1>5, <1>6

-----------------------------------------------------------------------------

\* The records of a key.
LEMMA ComparisonFinite ==
    ASSUME Evaluated, NEW key
    PROVE  /\ Comparison(files, key) \subseteq files
           /\ IsFiniteSet(Comparison(files, key))
<1>1. Comparison(files, key) \subseteq files
  BY DEF Comparison
<1> QED
  BY <1>1, FS_Subset DEF Evaluated

\* The fields of a record.
LEMMA RecordFields ==
    ASSUME NEW slot, NEW o \in Observations, NEW state \in {"evaluated", "raw", "torn"}
    PROVE  LET r == RecordOf(slot, o, state)
           IN  /\ r.truth = o /\ r.state = state /\ r.fault = slot.fault
               /\ state = "evaluated" => r.metrics = EvaluateV12(o)
  BY DEF RecordOf

LEMMA EvaluatedInit == Init => Evaluated /\ Remains
  BY FS_EmptySet DEF Init, Evaluated, Remains

LEMMA EvaluatedStep == Evaluated /\ Remains /\ [Next]_vars => Evaluated' /\ Remains'
<1> SUFFICES ASSUME Evaluated, Remains, [Next]_vars PROVE Evaluated' /\ Remains'
  OBVIOUS
<1>1. ASSUME NEW o \in Observations, NEW state \in {"evaluated", "raw", "torn"},
             files' = files \cup {RecordOf(Slots[at], o, state)}
      PROVE  Evaluated'
  <2>1. IsFiniteSet(files')
    BY <1>1, FS_AddElement DEF Evaluated
  <2>2. ASSUME NEW r \in files'
        PROVE  /\ r.truth \in Observations
               /\ r.state \in {"evaluated", "raw", "torn"}
               /\ r.state = "evaluated" => r.metrics = EvaluateV12(r.truth)
    BY <1>1, <2>2, RecordFields DEF Evaluated
  <2> QED
    BY <2>1, <2>2 DEF Evaluated
<1>2. CASE Measure
  <2>1. PICK o \in Observations : files' = files \cup {RecordOf(Slots[at], o, "evaluated")}
    BY <1>2 DEF Measure
  <2>2. died = "no" /\ died' = "no"
    BY <1>2 DEF Measure
  <2>3. \A r \in files : r.state = "evaluated"
    BY <2>2 DEF Remains
  <2>4. RecordOf(Slots[at], o, "evaluated").state = "evaluated"
    BY RecordFields
  <2>5. \A r \in files' : r.state = "evaluated"
    BY <2>1, <2>3, <2>4
  <2> QED
    BY <1>1, <2>1, <2>2, <2>5 DEF Remains
<1>3. CASE Skip
  <2>1. died = "no" /\ died' = "no" /\ files' = files
    BY <1>3 DEF Skip
  <2> QED
    BY <2>1 DEF Evaluated, Remains
<1>4. CASE Die
  <2>1. died = "no" /\ at' = at /\ died' \in {"nothing", "raw", "torn"}
    BY <1>4 DEF Die
  <2>2. \A r \in files : r.state = "evaluated"
    BY <2>1 DEF Remains
  <2>3. CASE died' = "nothing"
    <3>1. files' = files
      BY <1>4, <2>3 DEF Die
    <3> QED
      BY <2>2, <2>3, <3>1 DEF Evaluated, Remains
  <2>4. CASE died' # "nothing"
    <3>1. PICK o \in Observations : files' = files \cup {RecordOf(Slots[at], o, died')}
      BY <1>4, <2>4 DEF Die
    <3>2. died' \in {"raw", "torn"}
      BY <2>1, <2>4
    <3>3. /\ RecordOf(Slots[at], o, died').state = died'
          /\ RecordOf(Slots[at], o, died').fault = Slots[at].fault
      BY <3>2, RecordFields
    <3>4. Evaluated'
      BY <1>1, <3>1, <3>2
    <3>5. \A r \in files' : r.state = "evaluated" \/ (r.state = died' /\ r.fault = Slots[at'].fault)
      BY <2>1, <2>2, <3>1, <3>3
    <3>6. \E r \in files' : r.state = died' /\ r.fault = Slots[at'].fault
      BY <2>1, <3>1, <3>3
    <3> QED
      BY <3>2, <3>4, <3>5, <3>6 DEF Remains, LastOf
  <2> QED
    BY <2>3, <2>4
<1>5. CASE UNCHANGED vars
  BY <1>5 DEF vars, Evaluated, Remains, LastOf
<1> QED
  BY <1>2, <1>3, <1>4, <1>5 DEF Next

\* Every record is of a handshake, and only the last run may lack its
\* evaluation.
LEMMA EvaluatedAlways == Spec => [](Evaluated /\ Remains)
  BY EvaluatedInit, EvaluatedStep, PTL DEF Spec

\* A verdict on evaluated records is sound.
LEMMA EvaluatedSound == Evaluated => VerdictSound
<1> SUFFICES ASSUME Evaluated, CveVerdict(files), ~Raises(files), NEW key \in DOMAIN Expected
             PROVE  LET records == Comparison(files, key)
                    IN  /\ Cardinality(records) = Repetitions
                        /\ {r.rep : r \in records} = 1 .. Repetitions
                        /\ \A r \in records : /\ Precondition(r.truth.hellos[1])
                                              /\ TrueOutcome(r.truth) = Expected[key]
  BY DEF VerdictSound, Rendered
<1> DEFINE records == Comparison(files, key)
           good == {r \in records : Labelled(r.metrics)}
           retried == {r \in records : r.metrics.hrr_pcap = "yes"}
           ended == {r \in records : r.metrics.final = Expected[key].final}
<1>1. /\ Cardinality(records) = Repetitions
      /\ {r.rep : r \in records} = 1 .. Repetitions
      /\ Cardinality(good) = Cardinality(records)
      /\ Cardinality(retried) = IF Expected[key].hrr THEN Cardinality(records) ELSE 0
      /\ Cardinality(ended) = Cardinality(records)
  BY DEF CveVerdict, KeyReproduced
<1>2. IsFiniteSet(records) /\ records \subseteq files
  BY ComparisonFinite
<1>3. good = records /\ ended = records
  <2>1. good \in SUBSET records /\ ended \in SUBSET records
    OBVIOUS
  <2> HIDE DEF records, good, ended
  <2> QED
    BY <1>1, <1>2, <2>1, CountIsAll
<1>4. Expected[key].hrr => retried = records
  <2>1. retried \in SUBSET records
    OBVIOUS
  <2> HIDE DEF records, retried
  <2> QED
    BY <1>1, <1>2, <2>1, CountIsAll
<1>5. ~Expected[key].hrr => retried = {}
  <2>1. retried \in SUBSET records
    OBVIOUS
  <2> HIDE DEF records, retried
  <2> QED
    BY <1>1, <1>2, <2>1, CountIsNone
<1>6. ASSUME NEW r \in records
      PROVE  Precondition(r.truth.hellos[1]) /\ TrueOutcome(r.truth) = Expected[key]
  <2>1. /\ r.truth \in Observations /\ r.metrics = EvaluateV12(r.truth)
    BY <1>2 DEF Evaluated, Raises, Comparison
  <2>2. Observation(r.truth)
    BY <2>1, ObservationsAssumption
  <2>3. Labelled(EvaluateV12(r.truth)) /\ EvaluateV12(r.truth).final = Expected[key].final
    BY <1>3, <2>1
  <2>4. Expected[key].hrr <=> EvaluateV12(r.truth).hrr_pcap = "yes"
    BY <1>4, <1>5, <2>1
  <2>5. Expected[key] \in {[hrr |-> TRUE, final |-> Hybrid],
                          [hrr |-> FALSE, final |-> Classical]}
    BY ExpectedAssumption
  <2> HIDE DEF records
  <2> QED
    BY <2>2, <2>3, <2>4, <2>5, RunSound
<1> QED
  BY <1>1, <1>6

\* The verdict "reproduced" is never an artefact: for every expected matrix,
\* every number of repetitions and every capture, a verdict means that each
\* counted run really had the required offer and the expected outcome.
THEOREM VerdictIsSound == Spec => []VerdictSound
  BY EvaluatedAlways, EvaluatedSound, PTL

\* The metrics of a run that went as expected and was recorded in full.
LEMMA IdealMetrics ==
    ASSUME NEW o, Observation(o), NEW key \in DOMAIN Expected, Ideal(o, key)
    PROVE  /\ Labelled(EvaluateV12(o))
           /\ Expected[key].hrr <=> EvaluateV12(o).hrr_pcap = "yes"
           /\ EvaluateV12(o).final = Expected[key].final
<1> DEFINE n == Len(o.hellos)
<1>1. /\ o.pcap /\ o.log /\ o.success /\ o.others /\ o.hashed
      /\ o.captured = DOMAIN o.hellos
      /\ o.hellos # <<>> /\ o.hellos[n].from = "server" /\ ~o.hellos[n].hrr
      /\ Precondition(o.hellos[1]) /\ TrueOutcome(o) = Expected[key]
  BY DEF Ideal
<1>2. /\ o.hellos \in Seq(Hello) /\ n \in 0 .. 4
      /\ \A i \in DOMAIN o.hellos :
            o.hellos[i].from = IF i \in {1, 3} THEN "client" ELSE "server"
  BY DEF Observation, Flight
<1>3. n \in 1 .. 4 /\ DOMAIN o.hellos = 1 .. n /\ 1 \in DOMAIN o.hellos /\ n \in DOMAIN o.hellos
  BY <1>1, <1>2
<1>4. n \in ServerHellos(o)
  BY <1>1, <1>3 DEF ServerHellos
<1>5. Cardinality(ServerHellos(o)) = 1
  <2>1. \A i \in ServerHellos(o) : i = n
    BY ServerHelloLast
  <2>2. ServerHellos(o) = {n}
    BY <1>4, <2>1
  <2> QED
    BY <2>2, FS_Singleton
<1>6. DetectHrr(o) <=> Retries(o) # {}
  BY <1>1 DEF DetectHrr, Retries
<1>7. FinalGroup(o) = o.hellos[n].group
  BY <1>4, FinalGroupIsLast
<1>8. ClientPrecondition(o)
  <2>1. 1 \in ClientHellos(o)
    BY <1>1, <1>2, <1>3 DEF ClientHellos
  <2>2. \A j \in ClientHellos(o) : 1 <= j
    BY <1>1, <1>3 DEF ClientHellos
  <2> QED
    BY <1>1, <2>1, <2>2 DEF ClientPrecondition
<1>9. /\ Expected[key].hrr <=> DetectHrr(o)
      /\ Expected[key].final = o.hellos[n].group
  <2>1. TrueOutcome(o).hrr <=> DetectHrr(o)
    BY DEF TrueOutcome, DetectHrr
  <2>2. TrueOutcome(o).final = o.hellos[n].group
    BY DEF TrueOutcome
  <2> QED
    BY <1>1, <2>1, <2>2
<1> HIDE DEF n
<1>10. EvaluateV12(o).hrr_pcap = Tri(DetectHrr(o)) /\ EvaluateV12(o).hrr_log = Tri(DetectHrr(o))
  BY <1>1, <1>6 DEF EvaluateV12, Tri
<1>11. EvaluateV12(o).hellos = 1 /\ EvaluateV12(o).final = o.hellos[n].group
  BY <1>1, <1>5, <1>7 DEF EvaluateV12
<1>12. /\ EvaluateV12(o).precondition /\ EvaluateV12(o).success
       /\ EvaluateV12(o).artifacts /\ EvaluateV12(o).provenance
  BY <1>1, <1>8 DEF EvaluateV12
<1>13. Labelled(EvaluateV12(o))
  BY <1>10, <1>11, <1>12 DEF Labelled
<1> QED
  BY <1>9, <1>10, <1>11, <1>13 DEF Tri

\* A full set of ideal runs of one combination is counted as reproduced.
LEMMA IdealReproduced ==
    ASSUME Evaluated, NEW key \in DOMAIN Expected, Repetitions > 0,
           Cardinality(Comparison(files, key)) = Repetitions,
           {r.rep : r \in Comparison(files, key)} = 1 .. Repetitions,
           \A r \in Comparison(files, key) : r.state = "evaluated" /\ Ideal(r.truth, key)
    PROVE  Comparison(files, key) # {} /\ KeyReproduced(files, key)
<1> DEFINE records == Comparison(files, key)
           good == {r \in records : Labelled(r.metrics)}
           retried == {r \in records : r.metrics.hrr_pcap = "yes"}
           ended == {r \in records : r.metrics.final = Expected[key].final}
<1>1. ASSUME NEW r \in records
      PROVE  /\ Labelled(r.metrics)
             /\ Expected[key].hrr <=> r.metrics.hrr_pcap = "yes"
             /\ r.metrics.final = Expected[key].final
  <2>1. r.truth \in Observations /\ r.metrics = EvaluateV12(r.truth)
    BY ComparisonFinite DEF Evaluated
  <2>2. Observation(r.truth) /\ Ideal(r.truth, key)
    BY <2>1, ObservationsAssumption
  <2> HIDE DEF records
  <2> QED
    BY <2>1, <2>2, IdealMetrics
<1>2. good = records /\ ended = records
  BY <1>1
<1>3. Expected[key].hrr => retried = records
  BY <1>1
<1>4. ~Expected[key].hrr => retried = {}
  BY <1>1
<1>5. Cardinality(retried) = IF Expected[key].hrr THEN Cardinality(records) ELSE 0
  <2> HIDE DEF records, retried
  <2> QED
    BY <1>3, <1>4, FS_EmptySet
<1>6. records # {}
  BY FS_EmptySet
<1> QED
  BY <1>2, <1>5, <1>6 DEF KeyReproduced

\* The table rejects no good campaign: a full set of runs that went as expected
\* and were recorded in full is never called "not reproduced".
THEOREM VerdictIsComplete == Spec => []VerdictComplete
<1>1. Evaluated => VerdictComplete
  BY IdealReproduced DEF VerdictComplete, CveVerdict, Rendered
<1> QED
  BY <1>1, EvaluatedAlways, PTL

\* A verdict is given unless the campaign died over a run of the matrix or left
\* a half-written file, and then none is.
THEOREM VerdictIsGiven == Spec => []VerdictGiven
<1>1. Evaluated /\ Remains => VerdictGiven
  <2> SUFFICES ASSUME Evaluated, Remains
               PROVE  Raises(files) <=>
                         died = "torn" \/ (died = "raw" /\ Slots[at].fault = "server-setting")
    BY DEF VerdictGiven, Rendered
  <2>1. Raises(files) => died = "torn" \/ (died = "raw" /\ Slots[at].fault = "server-setting")
    BY DEF Raises, Remains, LastOf
  <2>2. died = "torn" => Raises(files)
    BY DEF Raises, Remains, LastOf
  <2>3. died = "raw" /\ Slots[at].fault = "server-setting" => Raises(files)
    BY DEF Raises, Remains, LastOf
  <2> QED
    BY <2>1, <2>2, <2>3
<1> QED
  BY <1>1, EvaluatedAlways, PTL

-----------------------------------------------------------------------------

\* Both groups stand in one output.
Both(found) == {"advertised", "negotiated"} \subseteq found

\* What audit_record says, read off the outputs that are there.
LEMMA AuditReads ==
    ASSUME NEW there \in SUBSET Outputs, NEW marks \in [Outputs -> SUBSET Marks]
    PROVE  /\ audit_record(there, marks).mismatch = "yes" <=> {p \in there : Both(marks[p])} # {}
           /\ audit_record(there, marks).warning = "yes" <=>
                 {p \in there : "warning" \in marks[p]} # {}
           /\ audit_record(there, marks).warning = "no" <=>
                 there # {} /\ \A p \in there : "warning" \notin marks[p]
           /\ audit_record(there, marks).warning = Unknown <=> there = {}
           /\ audit_record(there, marks).basis =
                 {p \in there : "warning" \in marks[p] \/ Both(marks[p])}
<1> DEFINE both(p) == Both(marks[p])
           All == Outputs \cup NOT_COLLECTED
           paths == [p \in All |->
                        IF p \in Outputs THEN audit_text(p \in there, marks[p])
                        ELSE [warning |-> Unknown, mismatch |-> "not_collected"]]
           warnings == {paths[p].warning : p \in DOMAIN paths}
           mismatches == {paths[p].mismatch : p \in DOMAIN paths}
<1>1. \A p \in All : p \in there =>
         /\ paths[p].warning = (IF "warning" \in marks[p] THEN "yes" ELSE "no")
         /\ paths[p].mismatch = (IF both(p) THEN "yes" ELSE "unsupported")
  BY DEF audit_text, Both
<1>2. \A p \in All : p \notin there =>
         paths[p].warning = Unknown /\ paths[p].mismatch \in {Unknown, "not_collected"}
  BY DEF audit_text
<1>3. DOMAIN paths = All /\ there \subseteq All
  OBVIOUS
<1>4. audit_record(there, marks) = summarize_paths(paths)
  BY DEF audit_record
<1> HIDE DEF paths, All, both
<1>5. "yes" \in mismatches <=> \E p \in there : both(p)
  BY <1>1, <1>2, <1>3 DEF Unknown
<1>6. /\ "yes" \in warnings <=> \E p \in there : "warning" \in marks[p]
      /\ "no" \in warnings <=> \E p \in there : "warning" \notin marks[p]
  BY <1>1, <1>2, <1>3 DEF Unknown
<1>7. \A p \in All : "yes" \in {paths[p].warning, paths[p].mismatch} <=>
         p \in there /\ ("warning" \in marks[p] \/ both(p))
  BY <1>1, <1>2 DEF Unknown
<1>8. summarize_paths(paths).mismatch = "yes" <=> "yes" \in mismatches
  BY DEF summarize_paths, Unknown
<1>9. /\ summarize_paths(paths).warning = "yes" <=> "yes" \in warnings
      /\ summarize_paths(paths).warning = "no" <=> "yes" \notin warnings /\ "no" \in warnings
      /\ summarize_paths(paths).warning = Unknown <=> "yes" \notin warnings /\ "no" \notin warnings
  BY DEF summarize_paths, Unknown
<1>10. summarize_paths(paths).basis = {p \in All : "yes" \in {paths[p].warning, paths[p].mismatch}}
  BY <1>3 DEF summarize_paths
<1>11. summarize_paths(paths).basis = {p \in there : "warning" \in marks[p] \/ both(p)}
  BY <1>3, <1>7, <1>10
<1> HIDE DEF mismatches, warnings
<1>12. /\ audit_record(there, marks).mismatch = "yes" <=> \E p \in there : both(p)
       /\ audit_record(there, marks).warning = "yes" <=> \E p \in there : "warning" \in marks[p]
       /\ audit_record(there, marks).warning = "no" <=>
             there # {} /\ \A p \in there : "warning" \notin marks[p]
       /\ audit_record(there, marks).warning = Unknown <=> there = {}
       /\ audit_record(there, marks).basis = {p \in there : "warning" \in marks[p] \/ both(p)}
  BY <1>4, <1>5, <1>6, <1>8, <1>9, <1>11
<1> QED
  BY <1>12 DEF both

\* The audit of every evaluated record of every directory says what the outputs
\* that are left show (audit_record, called by evaluate_v12).
THEOREM VerdictAuditSound == Spec => []AuditSound
<1>1. ASSUME Evaluated PROVE AuditSound
  <2> SUFFICES ASSUME NEW r \in files, r.state = "evaluated"
               PROVE  LET audit == r.metrics.audit
                          left == {p \in Outputs : p \in Kept(r.truth)}
                          full == audit_record(Outputs, r.truth.marks)
                          warned == {p \in left : "warning" \in r.truth.marks[p]}
                      IN  /\ audit.mismatch = "yes" <=>
                                \E p \in left : {"advertised", "negotiated"} \subseteq r.truth.marks[p]
                          /\ audit.warning = "yes" <=> warned # {}
                          /\ audit.warning = "no" <=> left # {} /\ warned = {}
                          /\ audit.warning = Unknown <=> left = {}
                          /\ audit.basis \subseteq full.basis
                          /\ full.basis \ audit.basis \subseteq Outputs \ left
    BY DEF AuditSound
  <2> DEFINE left == {p \in Outputs : p \in Kept(r.truth)}
             marks == r.truth.marks
             audit == audit_record(left, marks)
             warned == {p \in left : "warning" \in marks[p]}
  <2>1. r.truth \in Observations /\ r.metrics = EvaluateV12(r.truth)
    BY <1>1 DEF Evaluated
  <2>2. marks \in [Outputs -> SUBSET Marks]
    BY <2>1, ObservationsAssumption DEF Observation
  <2>3. Kept(r.truth) \subseteq Outputs
    BY DEF Kept, Outputs
  <2>4. left = Kept(r.truth)
    BY <2>3
  <2>5. r.metrics.audit = audit
    BY <2>1, <2>4 DEF EvaluateV12
  <2>6. left \in SUBSET Outputs
    BY <2>3, <2>4
  <2> HIDE DEF left, marks
  <2>7. /\ audit.mismatch = "yes" <=> \E p \in left : Both(marks[p])
        /\ audit.warning = "yes" <=> warned # {}
        /\ audit.warning = "no" <=> left # {} /\ \A p \in left : "warning" \notin marks[p]
        /\ audit.warning = Unknown <=> left = {}
        /\ audit.basis = {p \in left : "warning" \in marks[p] \/ Both(marks[p])}
    <3>1. audit.mismatch = "yes" <=> {p \in left : Both(marks[p])} # {}
      BY <2>2, <2>6, AuditReads
    <3>2. audit.warning = "yes" <=> warned # {}
      BY <2>2, <2>6, AuditReads
    <3>3. audit.warning = "no" <=> left # {} /\ \A p \in left : "warning" \notin marks[p]
      BY <2>2, <2>6, AuditReads
    <3>4. audit.warning = Unknown <=> left = {}
      BY <2>2, <2>6, AuditReads
    <3>5. audit.basis = {p \in left : "warning" \in marks[p] \/ Both(marks[p])}
      BY <2>2, <2>6, AuditReads
    <3> QED
      BY <3>1, <3>2, <3>3, <3>4, <3>5
  <2>8. audit_record(Outputs, marks).basis = {p \in Outputs : "warning" \in marks[p] \/ Both(marks[p])}
    BY <2>2, AuditReads
  <2> HIDE DEF audit
  <2>9. /\ audit.basis \subseteq audit_record(Outputs, marks).basis
        /\ audit_record(Outputs, marks).basis \ audit.basis \subseteq Outputs \ left
    BY <2>6, <2>7, <2>8
  <2>10. /\ audit.warning = "yes" <=> warned # {}
         /\ audit.warning = "no" <=> left # {} /\ warned = {}
    BY <2>7
  <2> QED
    BY <2>5, <2>7, <2>9, <2>10 DEF left, marks, Both
<1> QED
  BY <1>1, EvaluatedAlways, PTL
=============================================================================
