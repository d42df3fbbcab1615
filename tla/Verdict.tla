------------------------------- MODULE Verdict ------------------------------
(***************************************************************************)
(* From a handshake to the verdict of the v1.2, v1.3 and v1.7 matrices.    *)
(*                                                                         *)
(* A handshake leaves a capture and a client log; evaluate_v12 turns them  *)
(* into metrics, comparison_v12 counts the metrics of the records in a     *)
(* directory and cve_verdict compares the counts with the expected matrix. *)
(* The verdict sees nothing but counts of parsed evidence.  Any frame may  *)
(* be missing from the capture: tshark drops it or stops early, or         *)
(* summarize_hellos misses a Hello that is split across segments.  Each    *)
(* record keeps the handshake behind it as a history field, so that the    *)
(* properties can compare the verdict with what really happened.           *)
(***************************************************************************)
EXTENDS Integers, Sequences, FiniteSets, Audit

CONSTANTS Expected,      \* the expected matrix: see ExpectedMatrix
          Repetitions,   \* the repetitions the verdict asks for
          Slots,         \* the runs that may be in the directory, in order
          Observations   \* the handshakes and what is left of them

\* The value None of the metrics.
None == "none"
Classical == "X25519"
Hybrid == "X25519MLKEM768"

\* A Hello on the wire: the groups and key shares of a ClientHello, or whether
\* a ServerHello is a HelloRetryRequest and its group.
Hello == [from : {"client"}, groups : SUBSET STRING, shares : Seq(STRING)]
           \cup [from : {"server"}, hrr : BOOLEAN, group : STRING]

\* The Hellos of one TLS 1.3 connection as far as it got.
Flight(h) ==
    /\ h \in Seq(Hello) /\ Len(h) \in 0 .. 4
    /\ \A i \in DOMAIN h : h[i].from = IF i \in {1, 3} THEN "client" ELSE "server"
    /\ Len(h) > 2 => h[2].hrr /\ h[3].shares = <<h[2].group>>
    /\ Len(h) > 3 => ~h[4].hrr /\ h[4].group = h[2].group

\* hellos: the Hellos exchanged.  captured: those the capture shows.  pcap,
\* log: there is a capture, a client log.  success: the client exited with 0
\* and printed a finished handshake.  others, hashed: the other artifacts and
\* the hashes of both binaries are there.  marks: what stands in each output.
Observation(o) ==
    /\ Flight(o.hellos)
    /\ o.captured \subseteq DOMAIN o.hellos
    /\ {o.pcap, o.log, o.success, o.others, o.hashed} \subseteq BOOLEAN
    /\ o.marks \in [Outputs -> SUBSET Marks]

ASSUME ObservationsAssumption == \A o \in Observations : Observation(o)
ASSUME SlotsAssumption ==
    /\ Repetitions \in Nat
    /\ \A i \in DOMAIN Slots : Slots[i].rep \in Nat
    /\ \A i, j \in DOMAIN Slots : Slots[i] = Slots[j] => i = j

-----------------------------------------------------------------------------
(***************************************************************************)
(* pcap_hello.py and evaluate_v12.                                         *)
(***************************************************************************)

\* The places of the captured Hellos of each sort.
ClientHellos(o) == {i \in o.captured : o.hellos[i].from = "client"}
Retries(o) == {i \in o.captured : o.hellos[i].from = "server" /\ o.hellos[i].hrr}
ServerHellos(o) == {i \in o.captured : o.hellos[i].from = "server" /\ ~o.hellos[i].hrr}

\* HelloSummary.final_group: of the last ServerHello that is no retry.
FinalGroup(o) ==
    IF ServerHellos(o) = {} THEN None
    ELSE o.hellos[CHOOSE i \in ServerHellos(o) :
                     \A j \in ServerHellos(o) : j <= i].group

\* client_precondition: the first ClientHello offers both groups and has the
\* classical key share only.
Precondition(h) == {Classical, Hybrid} \subseteq h.groups /\ h.shares = <<Classical>>
ClientPrecondition(o) ==
    \E i \in ClientHellos(o) :
       (\A j \in ClientHellos(o) : i <= j) /\ Precondition(o.hellos[i])

\* detect_hrr: the client log shows every message of the connection.
DetectHrr(o) == \E i \in DOMAIN o.hellos : o.hellos[i].from = "server" /\ o.hellos[i].hrr

Tri(b) == IF b THEN "yes" ELSE "no"

\* The outputs an audit finds; tshark summarises the capture.
Kept(o) ==
    (IF o.log THEN {"client_log"} ELSE {}) \cup (IF o.others THEN {"server_log"} ELSE {})
      \cup (IF o.pcap THEN {"tshark_summary"} ELSE {})

\* The record run_scenario wrote, before its evaluation: the metrics of v1.2
\* have their defaults, provenance and audit are empty.
RawMetrics(o) ==
    [hrr_pcap |-> None, hrr_log |-> None, hellos |-> 0, final |-> None,
     precondition |-> FALSE, success |-> o.success,
     artifacts |-> o.pcap /\ o.log /\ o.others, provenance |-> FALSE,
     audit |-> [warning |-> Unknown, mismatch |-> Unknown, basis |-> {}]]

\* With no capture there are no counts: 0 stands for server_hello_count None.
EvaluateV12(o) ==
    [hrr_pcap |-> IF o.pcap THEN Tri(Retries(o) # {}) ELSE None,
     hrr_log |-> IF o.log THEN Tri(DetectHrr(o)) ELSE None,
     hellos |-> IF o.pcap THEN Cardinality(ServerHellos(o)) ELSE 0,
     final |-> IF o.pcap THEN FinalGroup(o) ELSE None,
     precondition |-> o.pcap /\ ClientPrecondition(o),
     success |-> o.success,
     artifacts |-> o.pcap /\ o.log /\ o.others,
     provenance |-> o.hashed,
     audit |-> audit_record(Kept(o), o.marks)]

-----------------------------------------------------------------------------
(***************************************************************************)
(* analyze.py.                                                             *)
(***************************************************************************)

\* expected_matrix: only S3 tells the vulnerable servers from the fixed ones.
ExpectedMatrix(vulnerable, fixed) ==
    [key \in (vulnerable \cup fixed) \X {"S1", "S2", "S3"} |->
        IF key[2] = "S2" \/ (key[2] = "S3" /\ key[1] \notin vulnerable)
        THEN [hrr |-> TRUE, final |-> Hybrid]
        ELSE [hrr |-> FALSE, final |-> Classical]]

ASSUME ExpectedAssumption ==
    \A key \in DOMAIN Expected :
       Expected[key] \in {[hrr |-> TRUE, final |-> Hybrid],
                          [hrr |-> FALSE, final |-> Classical]}

\* Mutant: the key is read before the fault type is looked at.
RaisesOnAnyRaw(files) == \E r \in files : r.state \in {"raw", "torn"}

\* comparison_v12 raises: from_json on a file that is half written, whatever
\* run it is of, or provenance["server_version"] of a record that belongs to
\* the matrix and was never evaluated.
Raises(files) ==
    \E r \in files : \/ r.state = "torn"
                     \/ r.state = "raw" /\ r.fault = "server-setting"

\* comparison_v12: the records counted under a key.
Comparison(files, key) == {r \in files : r.fault = "server-setting" /\ r.key = key}

\* Mutant: the capture and the log need not agree about a retry.
LabelledDisagreeing(m) ==
    m.precondition /\ m.artifacts /\ m.provenance /\ m.success /\ m.hellos = 1

\* The fields of FIELD_LABELS: each must hold of every record.
Labelled(m) ==
    m.precondition /\ m.artifacts /\ m.provenance /\ m.success
      /\ m.hrr_log = m.hrr_pcap /\ m.hellos = 1

\* Mutant: the retries are compared with the wrong side of the table.
KeyReproducedInverted(files, key) ==
    LET records == Comparison(files, key)
        n == Cardinality(records)
        count(S) == Cardinality(S)
    IN  /\ n = Repetitions /\ {r.rep : r \in records} = 1 .. Repetitions
        /\ count({r \in records : Labelled(r.metrics)}) = n
        /\ count({r \in records : r.metrics.hrr_pcap = "no"}) =
              IF Expected[key].hrr THEN n ELSE 0
        /\ count({r \in records : r.metrics.final = Expected[key].final}) = n

\* cve_verdict for one combination: nothing is appended to failures.
KeyReproduced(files, key) ==
    LET records == Comparison(files, key)
        n == Cardinality(records)
        count(S) == Cardinality(S)
    IN  /\ n = Repetitions /\ {r.rep : r \in records} = 1 .. Repetitions
        /\ count({r \in records : Labelled(r.metrics)}) = n
        /\ count({r \in records : r.metrics.hrr_pcap = "yes"}) =
              IF Expected[key].hrr THEN n ELSE 0
        /\ count({r \in records : r.metrics.final = Expected[key].final}) = n

\* count is None: a combination without records fails.
CveVerdict(files) ==
    \A key \in DOMAIN Expected : Comparison(files, key) # {} /\ KeyReproduced(files, key)

\* render_v12_markdown: no verdict at all, or one of its two words.
Rendered(files) ==
    IF Raises(files) THEN "raised"
    ELSE IF CveVerdict(files) THEN "reproduced" ELSE "not reproduced"

-----------------------------------------------------------------------------
(***************************************************************************)
(* A directory is filled run by run; runs may be left out, and the         *)
(* campaign may die.                                                       *)
(***************************************************************************)

VARIABLES at,     \* the next slot
          files,  \* the records in the directory
          died    \* "no", or what the dead campaign left of the run at "at":
                  \* "nothing", a "raw" record or a "torn" one

vars == <<at, files, died>>

Init == at = 1 /\ files = {} /\ died = "no"

RecordOf(slot, o, state) ==
    [fault |-> slot.fault, key |-> slot.key, rep |-> slot.rep, state |-> state, truth |-> o,
     metrics |-> IF state = "evaluated" THEN EvaluateV12(o) ELSE RawMetrics(o)]

\* run_v12's loop: run_scenario, then evaluate_v12 rewrites the record.
Measure ==
    /\ at <= Len(Slots) /\ died = "no"
    /\ \E o \in Observations : files' = files \cup {RecordOf(Slots[at], o, "evaluated")}
    /\ at' = at + 1
    /\ UNCHANGED died

\* The campaign was told to leave this run out.
Skip ==
    /\ at <= Len(Slots) /\ died = "no"
    /\ at' = at + 1
    /\ UNCHANGED <<files, died>>

\* The campaign dies: before this run has a record, between run_scenario and
\* the evaluation, or while one of the two writes the file.  No later campaign
\* goes on in the directory, since run_v12 refuses it.
Die ==
    /\ at <= Len(Slots) /\ died = "no"
    /\ died' \in {"nothing", "raw", "torn"}
    /\ IF died' = "nothing" THEN UNCHANGED files
       ELSE \E o \in Observations : files' = files \cup {RecordOf(Slots[at], o, died')}
    /\ UNCHANGED at

Next == Measure \/ Skip \/ Die

Spec == Init /\ [][Next]_vars

-----------------------------------------------------------------------------
(***************************************************************************)
(* Properties.                                                             *)
(***************************************************************************)

\* What really happened in a handshake that finished.
TrueOutcome(o) ==
    [hrr |-> \E i \in DOMAIN o.hellos : o.hellos[i].from = "server" /\ o.hellos[i].hrr,
     final |-> o.hellos[Len(o.hellos)].group]

\* The verdict "reproduced" is never an artefact of lost frames, missing files
\* or records that do not belong to it or were not finished: each combination
\* has exactly the runs 1 to n, and in each run the client really made the
\* required offer, a retry really did or did not happen as expected, and the
\* connection really ended with the expected group.
VerdictSound ==
    Rendered(files) = "reproduced" =>
       \A key \in DOMAIN Expected :
          LET records == Comparison(files, key)
          IN  /\ Cardinality(records) = Repetitions
              /\ {r.rep : r \in records} = 1 .. Repetitions
              /\ \A r \in records : /\ Precondition(r.truth.hellos[1])
                                    /\ TrueOutcome(r.truth) = Expected[key]

\* An observation from which nothing is missing.
Ideal(o, key) ==
    /\ o.pcap /\ o.log /\ o.success /\ o.others /\ o.hashed
    /\ o.captured = DOMAIN o.hellos
    /\ o.hellos # <<>> /\ o.hellos[Len(o.hellos)].from = "server"
    /\ ~o.hellos[Len(o.hellos)].hrr
    /\ Precondition(o.hellos[1])
    /\ TrueOutcome(o) = Expected[key]

\* Conversely, a full set of runs that went as expected and were recorded in
\* full is never called "not reproduced": no field of the table rejects a good
\* campaign, whatever else is in its directory.
VerdictComplete ==
    (\A key \in DOMAIN Expected :
        LET records == Comparison(files, key)
        IN  /\ Cardinality(records) = Repetitions /\ Repetitions > 0
            /\ {r.rep : r \in records} = 1 .. Repetitions
            /\ \A r \in records : r.state = "evaluated" /\ Ideal(r.truth, key))
    => Rendered(files) # "not reproduced"

\* An audit claims no more and no less than the outputs that are left show: a
\* mismatch needs both groups in one output, never one in the log and one in
\* the capture; a warning in one output outweighs the others that have none;
\* "no warning" needs an output that was read and none that has one; and what
\* is missing can hide a warning or a mismatch but not make one.
AuditSound ==
    \A r \in {f \in files : f.state = "evaluated"} :
       LET audit == r.metrics.audit
           left == {p \in Outputs : p \in Kept(r.truth)}
           full == audit_record(Outputs, r.truth.marks)
           warned == {p \in left : "warning" \in r.truth.marks[p]}
       IN  /\ audit.mismatch = "yes" <=>
                 \E p \in left : {"advertised", "negotiated"} \subseteq r.truth.marks[p]
           /\ audit.warning = "yes" <=> warned # {}
           /\ audit.warning = "no" <=> left # {} /\ warned = {}
           /\ audit.warning = Unknown <=> left = {}
           /\ audit.basis \subseteq full.basis /\ full.basis \ audit.basis \subseteq Outputs \ left

\* Whatever a finished run lost (frames, files, hashes) and whatever runs were
\* left out, comparison_v12 gets through the directory and a verdict is given.
\* It raises exactly after a campaign that died over a run of the matrix and
\* left its record unevaluated, or left any file half written: such a run is
\* never counted, neither for nor against.  A raw record of another
\* experiment, the -trace reruns of v17, does not stop it.
VerdictGiven ==
    Rendered(files) = "raised" <=>
       died = "torn" \/ (died = "raw" /\ Slots[at].fault = "server-setting")
=============================================================================
