------------------------------ MODULE Campaign ------------------------------
(***************************************************************************)
(* The batch runners over one output directory: run_smoke, run_batch and   *)
(* run_v11 (tools/faultinject/run.py), run_v12, run_v15, run_v16,          *)
(* run_v16_direct, the v17 runs and run_v18/run_e8.                        *)
(*                                                                         *)
(* A campaign walks a plan of scenarios; for each it calls run_scenario,   *)
(* which leaves artifacts and a raw JSON record, and then verify_record or *)
(* an evaluate_v1x, which reads the artifacts back and rewrites the record *)
(* with manipulation_verified decided.  A campaign can die anywhere, and   *)
(* another one can be started on the same directory: what is left in the   *)
(* directory is all that connects them.                                    *)
(***************************************************************************)
EXTENDS Integers, Sequences

CONSTANTS
    Targets,       \* what the runs of a plan are repeated for
    Plan,          \* the scenarios in the order the runner builds them
    RunnerGuards,  \* the runners, by their check of the directory, see Guards
    Evidences,     \* runner -> what the verification of each target may read
    Selections,    \* the sets of targets a campaign may be asked for
    MaxTurns,      \* bound: campaigns started on the directory
    MaxUnchecked   \* bound: those of a runner that checks nothing

\* "log": the proxy log of verify_binding and of onpath-strip, opened with
\* "a".  "pcap": the capture.  "output": the client's log, rewritten by every
\* run.  "none": verify_condition's base and ssh-order, always True.
EvidenceKinds == {"log", "pcap", "output", "none"}

\* "nothing": run.py checks nothing.  "json": v12 - v17 refuse a directory
\* with any *.json.  "v18": so does v18, but with --clients only when a named
\* client has a record.  "e8": run_e8, always the latter.
Guards == {"nothing", "json", "v18", "e8"}

ASSUME PlanAssumption ==
    /\ RunnerGuards \subseteq Guards
    /\ \A g \in RunnerGuards : Evidences[g] \subseteq [Targets -> EvidenceKinds]
    /\ Plan \in Seq([target : Targets, rep : Nat])
    /\ Selections \subseteq SUBSET Targets
    /\ MaxTurns \in Nat /\ MaxUnchecked \in Nat

VARIABLES
    guard,      \* the runner that owns the directory
    evidence,   \* target -> what its verification reads back
    phase,      \* "idle", "run" (in run_scenario), "verify" (after it returned)
    turn,       \* number of the latest campaign
    named,      \* its targets were named on the command line
    chosen,     \* the targets it was asked for
    pos,        \* the position in Plan it is at
    inventory,  \* v1.8-candidate-inventory.json is there, another *.json
    json,       \* the record file of each position
    lines,      \* the campaigns that appended to a position's proxy log
    pcap,       \* the campaign whose capture a position's pcap file holds
    output,     \* the campaign whose client log a position's file holds
    applied     \* history: the campaigns in which the manipulation took place
                \* and, where a capture is the evidence, was captured

runner == <<guard, evidence>>
vars == <<guard, evidence, phase, turn, named, chosen, pos, inventory, json, lines, pcap,
          output, applied>>

Runs == 1 .. Len(Plan)
Turns == 1 .. MaxTurns

\* A record file: the campaign that wrote it, how far it is, and its flag.
\* "raw" is run_scenario's, "evaluated" the verified one, "torn" a file whose
\* write was cut short (write_text is not atomic).
NoRecord == [turn |-> 0, state |-> "none", verified |-> FALSE]
RecordFile(state, verified) == [turn |-> turn, state |-> state, verified |-> verified]

Init ==
    /\ guard \in RunnerGuards
    /\ evidence \in Evidences[guard]
    /\ phase = "idle"
    /\ turn = 0
    /\ named = FALSE
    /\ chosen = {}
    /\ pos = 0
    /\ inventory = FALSE
    /\ json = [i \in Runs |-> NoRecord]
    /\ lines = [i \in Runs |-> {}]
    /\ pcap = [i \in Runs |-> 0]
    /\ output = [i \in Runs |-> 0]
    /\ applied = [i \in Runs |-> {}]

-----------------------------------------------------------------------------

HasRecord(i) == json[i].state # "none"
InPlan(i, sel) == Plan[i].target \in sel

NoJson == ~inventory /\ \A i \in Runs : ~HasRecord(i)
NoneOf(sel) == \A i \in Runs : InPlan(i, sel) => ~HasRecord(i)

\* Mutants: no check; "any" in place of "all".
AdmitsAnything(sel, byName) == TRUE
AdmitsIfAnyMissing(sel, byName) == \E i \in Runs : InPlan(i, sel) /\ ~HasRecord(i)

\* The check before the first scenario: nothing, glob("*.json"), or a glob
\* for the records of each selected target.
Admits(sel, byName) ==
    CASE guard = "nothing" -> TRUE
      [] guard = "json"    -> NoJson
      [] guard = "v18"     -> (byName \/ NoJson) /\ NoneOf(sel)
      [] guard = "e8"      -> NoneOf(sel)

\* i is the first position after k that the campaign runs.
FirstAfter(i, k, sel) ==
    /\ i > k /\ InPlan(i, sel)
    /\ \A j \in Runs : j > k /\ InPlan(j, sel) => i <= j

\* The runner goes on to the next scenario, or returns its records.
Advance ==
    \/ \E i \in Runs : /\ FirstAfter(i, pos, chosen)
                       /\ pos' = i
                       /\ phase' = "run"
    \/ /\ \A i \in Runs : i > pos => ~InPlan(i, chosen)
       /\ pos' = 0
       /\ phase' = "idle"

Stop == phase' = "idle" /\ pos' = 0

\* Mutant: the inventory is written when the campaign is over.
StartLateInventory ==
    /\ phase = "idle"
    /\ turn < MaxTurns
    /\ guard = "nothing" => turn < MaxUnchecked
    /\ \E byName \in BOOLEAN, sel \in Selections \cup {Targets}, i \in Runs :
          /\ ~byName => sel = Targets
          /\ guard = "nothing" => ~byName
          /\ Admits(sel, byName)
          /\ FirstAfter(i, 0, sel)
          /\ named' = byName
          /\ chosen' = sel
          /\ pos' = i
    /\ phase' = "run"
    /\ turn' = turn + 1
    /\ UNCHANGED <<runner, inventory, json, lines, pcap, output, applied>>

\* A campaign is started, for all targets or for named ones, and its check
\* does not refuse the directory.  v18 and e8 write the inventory before the
\* first scenario.
Start ==
    /\ phase = "idle"
    /\ turn < MaxTurns
    /\ guard = "nothing" => turn < MaxUnchecked
    /\ \E byName \in BOOLEAN, sel \in Selections \cup {Targets}, i \in Runs :
          /\ ~byName => sel = Targets
          /\ guard = "nothing" => ~byName
          /\ Admits(sel, byName)
          /\ FirstAfter(i, 0, sel)
          /\ named' = byName
          /\ chosen' = sel
          /\ pos' = i
    /\ phase' = "run"
    /\ turn' = turn + 1
    /\ inventory' = (inventory \/ guard \in {"v18", "e8"})
    /\ UNCHANGED <<runner, json, lines, pcap, output, applied>>

\* v18.py --inventory DIR.
WriteInventory ==
    /\ phase = "idle"
    /\ guard \in {"v18", "e8"}
    /\ ~inventory
    /\ inventory' = TRUE
    /\ UNCHANGED <<runner, phase, turn, named, chosen, pos, json, lines, pcap, output, applied>>

\* The artifacts of a scenario in which the manipulation took place or not.
\* A proxy log gets a line exactly when it did (module Proxy).  tshark
\* overwrites the pcap; when it dies before that, the file of an earlier
\* campaign satisfies pcap_path.exists() and stays (module Scenario).
Artifacts(i, effect) ==
    /\ applied' = [applied EXCEPT ![i] = IF effect THEN @ \cup {turn} ELSE @]
    /\ lines' = [lines EXCEPT ![i] =
          IF effect /\ evidence[Plan[i].target] = "log" THEN @ \cup {turn} ELSE @]
    /\ \E p \in {turn} \cup {pcap[i]} : p # 0 /\ pcap' = [pcap EXCEPT ![i] = p]

\* run_scenario returns: the record is on disk, manipulation_verified FALSE.
RunReturns ==
    /\ phase = "run"
    /\ \E effect \in BOOLEAN : Artifacts(pos, effect)
    /\ output' = [output EXCEPT ![pos] = turn]
    /\ json' = [json EXCEPT ![pos] = RecordFile("raw", FALSE)]
    /\ phase' = "verify"
    /\ UNCHANGED <<runner, turn, named, chosen, inventory, pos>>

\* run_scenario raises, or the process is killed inside it, with the
\* artifacts in any state; the exception ends the campaign.  A proxy that
\* raised in sendall has written its log line for nothing (module Proxy).
RunRaises ==
    /\ phase = "run"
    /\ \/ \E effect \in BOOLEAN : Artifacts(pos, effect)
       \/ UNCHANGED <<applied, lines, pcap>>
       \/ /\ evidence[Plan[pos].target] = "log"
          /\ lines' = [lines EXCEPT ![pos] = @ \cup {turn}]
          /\ UNCHANGED <<applied, pcap>>
    /\ output' \in {output, [output EXCEPT ![pos] = turn]}
    /\ json' \in {json, [json EXCEPT ![pos] = RecordFile("torn", FALSE)]}
    /\ json' # json => output'[pos] = turn
    /\ Stop
    /\ UNCHANGED <<runner, turn, named, chosen, inventory>>

\* Mutant: the artifact's presence is taken for evidence.
ConcludesFromPresence(i) == pcap[i] # 0

\* What the verification concludes from the artifacts it finds: ANY line of
\* the proxy log, the pcap or the client's log as they are now.
Concludes(i) ==
    CASE evidence[Plan[i].target] = "log"    -> lines[i] # {}
      [] evidence[Plan[i].target] = "pcap"   -> pcap[i] \in applied[i]
      [] evidence[Plan[i].target] = "output" -> output[i] \in applied[i]
      [] evidence[Plan[i].target] = "none"   -> TRUE

\* verify_record / evaluate_v1x: the record is rewritten and the next
\* scenario begins.  A proxy log that was never created makes read_text
\* raise, so an unapplied manipulation without any line ends in VerifyRaises.
Verify ==
    /\ phase = "verify"
    /\ evidence[Plan[pos].target] = "log" => lines[pos] # {}
    /\ json' = [json EXCEPT ![pos] = RecordFile("evaluated", Concludes(pos))]
    /\ Advance
    /\ UNCHANGED <<runner, turn, named, chosen, inventory, lines, pcap, output, applied>>

\* Mutant: the error is swallowed and the next scenario runs.
VerifyRaisesOn ==
    /\ phase = "verify"
    /\ json' \in {json, [json EXCEPT ![pos] = RecordFile("torn", FALSE)]}
    /\ Advance
    /\ UNCHANGED <<runner, turn, named, chosen, inventory, lines, pcap, output, applied>>

\* The verification raises (no proxy log, an unreadable pcap) or the process
\* is killed in it: the raw record stays, or its rewrite is torn.
VerifyRaises ==
    /\ phase = "verify"
    /\ json' \in {json, [json EXCEPT ![pos] = RecordFile("torn", FALSE)]}
    /\ Stop
    /\ UNCHANGED <<runner, turn, named, chosen, inventory, lines, pcap, output, applied>>

Next == Start \/ WriteInventory \/ RunReturns \/ RunRaises \/ Verify \/ VerifyRaises

Spec == Init /\ [][Next]_vars

-----------------------------------------------------------------------------

RecordFiles == [turn : 0 .. MaxTurns, verified : BOOLEAN,
                state : {"none", "raw", "evaluated", "torn"}]

\* The runner's position and the files of the directory have the expected
\* shape.
TypeOK ==
    /\ guard \in Guards
    /\ phase \in {"idle", "run", "verify"}
    /\ turn \in 0 .. MaxTurns
    /\ evidence \in [Targets -> EvidenceKinds]
    /\ named \in BOOLEAN
    /\ inventory \in BOOLEAN
    /\ chosen \in SUBSET Targets
    /\ pos \in Runs \cup {0}
    /\ phase # "idle" => pos \in Runs /\ turn > 0
    /\ json \in [Runs -> RecordFiles]
    /\ lines \in [Runs -> SUBSET Turns]
    /\ pcap \in [Runs -> 0 .. MaxTurns]
    /\ output \in [Runs -> 0 .. MaxTurns]
    /\ applied \in [Runs -> SUBSET Turns]

\* The runners' checks do what they are for: records of two campaigns never
\* sit in one directory (v12 - v17), or never for one target (v18, e8), so
\* that an analysis never counts repetitions of different campaigns together.
NoMixing ==
    \A i, j \in Runs :
        /\ HasRecord(i) /\ HasRecord(j)
        /\ \/ guard = "json"
           \/ guard \in {"v18", "e8"} /\ Plan[i].target = Plan[j].target
        => json[i].turn = json[j].turn

\* A campaign that dies leaves a prefix of its plan: every record before its
\* latest one is evaluated, so at most one of its records is raw or torn.
PlanPrefix ==
    \A i, j \in Runs :
        /\ j < i /\ InPlan(j, chosen)
        /\ HasRecord(i) /\ json[i].turn = turn
        => json[j].turn = turn /\ json[j].state = "evaluated"

\* A checking runner never replaces the record of an earlier campaign.
KeepsRecords ==
    \A i \in Runs : HasRecord(i) => json'[i].turn = json[i].turn
NeverOverwritten == [][guard # "nothing" => KeepsRecords]_vars

\* The campaigns whose files a verification of position i reads.
Sources(i) == CASE evidence[Plan[i].target] = "log"              -> lines[i]
                [] evidence[Plan[i].target] = "pcap"             -> {pcap[i]}
                [] evidence[Plan[i].target] \in {"output", "none"} -> {}

\* Campaign t is over and has left no record the runner's check would find.
LeftNoRecord(t, i) ==
    /\ t \in 1 .. turn - 1
    /\ \A j \in Runs :
          \/ guard = "json"
          \/ guard \in {"v18", "e8"} /\ Plan[j].target = Plan[i].target
          => json[j].turn # t

\* A run in which nothing was applied is marked verified only on the strength
\* of a file an earlier campaign left for it, a proxy log line or a capture
\* that was not replaced; and where the runner checks its directory, only of
\* a campaign that died before it wrote a record there.
StaleEvidence ==
    \A i \in Runs :
        /\ json'[i] # json[i] /\ json'[i].verified /\ turn \notin applied[i]
        /\ evidence[Plan[i].target] # "none"
        => \E t \in Sources(i) : LeftNoRecord(t, i)
FalseOnlyFromStale == [][StaleEvidence]_vars

\* docs/PAPER.en.md: "the proxy log and capture confirmed that the
\* manipulation was actually applied": a verified record of a manipulation
\* experiment is one in whose own run the manipulation took place.
VerifiedIsApplied ==
    \A i \in Runs :
        json[i].verified /\ evidence[Plan[i].target] = "log"
        => json[i].turn \in applied[i]

\* Unlike the runners before it, a full v18 campaign never starts over files
\* another one left, even one that died before its first record: the inventory,
\* itself a *.json, is on disk before the first artifact.
Fresh == \A i \in Runs : pcap[i] = 0 /\ output[i] = 0 /\ lines[i] = {}
FullStartIsFresh == turn' # turn /\ guard = "v18" /\ ~named' => Fresh
SurveyStartsFresh == [][FullStartIsFresh]_vars
=============================================================================
