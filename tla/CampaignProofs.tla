--------------------------- MODULE CampaignProofs ---------------------------
(***************************************************************************)
(* What a directory can hold after any number of campaigns, for every plan *)
(* and every selection of targets.                                         *)
(***************************************************************************)
EXTENDS Campaign, TLAPS

\* A record file that exists names the campaign that wrote it.
Dated ==
    \A i \in Runs : /\ json[i].turn <= turn
                    /\ HasRecord(i) <=> json[i].turn > 0

\* Position k of a running campaign: everything it chose before k is evaluated
\* and nothing of it is on disk from position m on.
Progress(k, m) ==
    /\ InPlan(pos, chosen)
    /\ \A j \in Runs : j < k /\ InPlan(j, chosen) =>
          json[j].turn = turn /\ json[j].state = "evaluated"
    /\ \A i \in Runs : i >= m => json[i].turn # turn

\* Where the running campaign is, read off the directory.
Underway ==
    /\ phase = "run" => Progress(pos, pos)
    /\ phase = "verify" => Progress(pos, pos + 1) /\ json[pos].turn = turn

\* While a checking runner is under way, the records it must not mix with are
\* its own.
Alone ==
    phase # "idle" =>
    \A i \in Runs :
        /\ HasRecord(i)
        /\ guard = "json" \/ (guard \in {"v18", "e8"} /\ InPlan(i, chosen))
        => json[i].turn = turn

\* The inventory of a survey is on disk before anything else, and while a
\* survey is under way.
InventoryFirst ==
    guard = "v18" /\ ~inventory => Fresh /\ phase = "idle"

\* Safety in the form that every step preserves.
IndInv ==
    /\ TypeOK /\ Dated /\ Underway /\ Alone /\ NoMixing /\ PlanPrefix
    /\ InventoryFirst

-----------------------------------------------------------------------------

\* The invariant holds of an empty directory.
LEMMA InitIndInv == Init => IndInv
<1> SUFFICES ASSUME Init PROVE IndInv
  OBVIOUS
<1>1. TypeOK
  <2>1. guard \in Guards /\ evidence \in [Targets -> EvidenceKinds]
    BY PlanAssumption DEF Init
  <2>2. named \in BOOLEAN /\ inventory \in BOOLEAN
    BY DEF Init
  <2>3. 0 \in 0 .. MaxTurns
    BY PlanAssumption
  <2>4. /\ json \in [Runs -> RecordFiles]
        /\ lines \in [Runs -> SUBSET Turns] /\ applied \in [Runs -> SUBSET Turns]
        /\ pcap \in [Runs -> 0 .. MaxTurns] /\ output \in [Runs -> 0 .. MaxTurns]
    BY <2>3 DEF Init, RecordFiles, NoRecord
  <2>5. /\ phase = "idle" /\ turn \in 0 .. MaxTurns /\ chosen \in SUBSET Targets
        /\ pos \in Runs \cup {0}
    BY <2>3 DEF Init
  <2> QED
    BY <2>1, <2>2, <2>4, <2>5 DEF TypeOK
<1>2. Dated /\ Underway /\ Alone /\ NoMixing /\ PlanPrefix /\ InventoryFirst
  BY DEF Init, Dated, Underway, Alone, NoMixing, PlanPrefix, NoRecord, HasRecord,
         InventoryFirst, Fresh
<1> QED
  BY <1>1, <1>2 DEF IndInv

\* A step that writes one record file of the running campaign.
LEMMA WriteKeeps ==
    ASSUME IndInv, phase \in {"run", "verify"}, NEW r, r.turn = turn,
           r \in RecordFiles, r.state # "none",
           json' = [json EXCEPT ![pos] = r],
           UNCHANGED <<guard, evidence, turn, named, chosen, inventory>>
    PROVE  Dated' /\ NoMixing' /\ PlanPrefix'
<1> USE DEF IndInv
<1>1. pos \in Runs /\ turn \in Nat /\ turn > 0 /\ json \in [Runs -> RecordFiles]
  BY PlanAssumption DEF TypeOK
<1>2. /\ json'[pos] = r
      /\ \A i \in Runs : i # pos => json'[i] = json[i]
  BY <1>1
<1>3. Dated'
  BY <1>1, <1>2 DEF Dated, HasRecord
<1>4. /\ InPlan(pos, chosen)
      /\ \A j \in Runs : j < pos /\ InPlan(j, chosen) =>
            json[j].turn = turn /\ json[j].state = "evaluated"
      /\ \A i \in Runs : i > pos => json[i].turn # turn
  <2>1. Runs \subseteq Int
    BY DEF Runs
  <2> QED
    BY <1>1, <2>1 DEF Underway, Progress
<1>5. NoMixing'
  <2> SUFFICES ASSUME NEW i \in Runs, NEW j \in Runs, HasRecord(i)', HasRecord(j)',
                      \/ guard = "json"
                      \/ guard \in {"v18", "e8"} /\ Plan[i].target = Plan[j].target
               PROVE  json'[i].turn = json'[j].turn
    BY DEF NoMixing
  <2>1. \A k \in Runs : k # pos /\ HasRecord(k)' => HasRecord(k)
    BY <1>2 DEF HasRecord
  <2>2. \A k \in Runs : Plan[k].target = Plan[pos].target => InPlan(k, chosen)
    BY <1>4 DEF InPlan
  <2>3. CASE i = pos /\ j = pos
    BY <2>3
  <2>4. CASE i # pos /\ j # pos
    BY <1>2, <2>1, <2>4 DEF NoMixing
  <2>5. CASE i = pos /\ j # pos
    BY <1>2, <2>1, <2>2, <2>5 DEF Alone
  <2>6. CASE i # pos /\ j = pos
    BY <1>2, <2>1, <2>2, <2>6 DEF Alone
  <2> QED
    BY <2>3, <2>4, <2>5, <2>6
<1>6. PlanPrefix'
  <2> SUFFICES ASSUME NEW i \in Runs, NEW j \in Runs, j < i, InPlan(j, chosen),
                      HasRecord(i)', json'[i].turn = turn
               PROVE  json'[j].turn = turn /\ json'[j].state = "evaluated"
    BY DEF PlanPrefix, InPlan
  <2>1. i \in Int /\ j \in Int /\ pos \in Int
    BY <1>1 DEF Runs
  <2>2. CASE i = pos
    BY <1>2, <1>4, <2>1, <2>2
  <2>3. CASE i # pos
    <3>1. json[i].turn = turn /\ HasRecord(i)
      BY <1>2, <2>3 DEF HasRecord
    <3>2. i < pos
      BY <1>1, <1>4, <2>1, <2>3, <3>1
    <3>3. j # pos
      BY <2>1, <3>2
    <3> QED
      BY <1>2, <3>1, <3>3 DEF PlanPrefix
  <2> QED
    BY <2>2, <2>3
<1> QED
  BY <1>3, <1>5, <1>6

\* A record of the running campaign keeps the directory to itself.
LEMMA WriteAlone ==
    ASSUME IndInv, phase \in {"run", "verify"}, NEW r, r.turn = turn,
           json' = [json EXCEPT ![pos] = r],
           UNCHANGED <<guard, evidence, turn, named, chosen, inventory>>
    PROVE  Alone'
<1>1. pos \in Runs /\ json \in [Runs -> RecordFiles]
  BY DEF IndInv, TypeOK
<1>2. /\ json'[pos] = r
      /\ \A i \in Runs : i # pos => json'[i] = json[i]
  BY <1>1
<1> QED
  BY <1>2 DEF IndInv, Alone, HasRecord, InPlan

\* A campaign under way has its inventory, so its steps disturb nothing.
LEMMA InventoryStays ==
    ASSUME IndInv, phase \in {"run", "verify"}, UNCHANGED <<guard, inventory>>
    PROVE  InventoryFirst'
BY DEF IndInv, InventoryFirst

\* Start: the check has refused every directory it should, and no file
\* carries the number of the new campaign yet.
LEMMA StartIndInv == IndInv /\ Start => IndInv'
<1> SUFFICES ASSUME IndInv, Start PROVE IndInv'
  OBVIOUS
<1>1. PICK byName \in BOOLEAN, sel \in Selections \cup {Targets}, i \in Runs :
          /\ Admits(sel, byName) /\ FirstAfter(i, 0, sel)
          /\ chosen' = sel /\ pos' = i /\ named' = byName
  BY DEF Start
<1>2. /\ TypeOK /\ Dated /\ NoMixing
      /\ turn \in Nat /\ turn' = turn + 1 /\ turn < MaxTurns /\ MaxTurns \in Nat
      /\ phase' = "run"
      /\ UNCHANGED <<guard, evidence, json, lines, pcap, output, applied>>
      /\ json \in [Runs -> RecordFiles]
      /\ inventory' = (inventory \/ guard \in {"v18", "e8"})
  BY PlanAssumption DEF IndInv, TypeOK, Start, runner
<1>3. \A k \in Runs : json[k].turn \in Nat /\ json[k].turn <= turn
  BY <1>2, PlanAssumption DEF Dated, RecordFiles
<1>4. TypeOK'
  <2>1. sel \in SUBSET Targets
    BY PlanAssumption
  <2>2. turn' \in 0 .. MaxTurns /\ turn' > 0
    BY <1>2
  <2> QED
    BY <1>1, <1>2, <2>1, <2>2 DEF TypeOK
<1>5. Dated'
  BY <1>2, <1>3 DEF Dated, HasRecord
<1>10. InventoryFirst'
  BY <1>2 DEF InventoryFirst
<1>6. NoMixing'
  BY <1>2 DEF NoMixing, HasRecord
<1>7. PlanPrefix'
  BY <1>2, <1>3 DEF PlanPrefix
<1>8. Underway'
  <2>1. \A k \in Runs : json'[k].turn # turn'
    BY <1>2, <1>3
  <2>2. \A j \in Runs : ~(j < i /\ InPlan(j, sel))
    <3> SUFFICES ASSUME NEW j \in Runs, j < i, InPlan(j, sel) PROVE FALSE
      OBVIOUS
    <3>1. j > 0 /\ i \in Int /\ j \in Int
      BY DEF Runs
    <3> QED
      BY <1>1, <3>1 DEF FirstAfter
  <2>3. InPlan(i, sel)
    BY <1>1 DEF FirstAfter
  <2> QED
    BY <1>1, <1>2, <2>1, <2>2, <2>3 DEF Underway, Progress, InPlan
<1>9. Alone'
  BY <1>1, <1>2 DEF Alone, Admits, NoJson, NoneOf, HasRecord, InPlan
<1> QED
  BY <1>4, <1>5, <1>6, <1>7, <1>8, <1>9, <1>10 DEF IndInv

\* v18.py --inventory: only the inventory appears.
LEMMA WriteInventoryIndInv == IndInv /\ WriteInventory => IndInv'
<1> SUFFICES ASSUME IndInv, WriteInventory PROVE IndInv'
  OBVIOUS
<1>1. /\ UNCHANGED <<guard, evidence, phase, turn, named, chosen, pos, json, lines, pcap, output, applied>>
      /\ inventory' = TRUE
  BY DEF WriteInventory, runner
<1> QED
  BY <1>1 DEF IndInv, TypeOK, Dated, Underway, Progress, Alone, NoMixing, PlanPrefix, HasRecord,
              InPlan, InventoryFirst

\* What a scenario leaves in the directory has the type it should have.
LEMMA ArtifactsType ==
    ASSUME TypeOK, phase # "idle", NEW effect \in BOOLEAN, Artifacts(pos, effect)
    PROVE  /\ lines' \in [Runs -> SUBSET Turns]
           /\ applied' \in [Runs -> SUBSET Turns]
           /\ pcap' \in [Runs -> 0 .. MaxTurns]
<1>1. /\ pos \in Runs /\ turn \in Turns /\ turn \in 0 .. MaxTurns
      /\ lines \in [Runs -> SUBSET Turns]
      /\ applied \in [Runs -> SUBSET Turns]
      /\ pcap \in [Runs -> 0 .. MaxTurns]
  BY PlanAssumption DEF TypeOK, Turns
<1> QED
  BY <1>1 DEF Artifacts

\* RunReturns: the raw record is the first of the campaign at its position.
LEMMA RunReturnsIndInv == IndInv /\ RunReturns => IndInv'
<1> SUFFICES ASSUME IndInv, RunReturns PROVE IndInv'
  OBVIOUS
<1> DEFINE r == [turn |-> turn, state |-> "raw", verified |-> FALSE]
<1>1. /\ TypeOK /\ Underway /\ phase = "run" /\ phase' = "verify"
      /\ UNCHANGED <<guard, evidence, turn, named, chosen, inventory, pos>>
      /\ json' = [json EXCEPT ![pos] = r]
      /\ output' = [output EXCEPT ![pos] = turn]
  BY DEF IndInv, RunReturns, RecordFile, runner
<1>2. /\ pos \in Runs /\ turn \in 0 .. MaxTurns /\ turn > 0
      /\ json \in [Runs -> RecordFiles]
      /\ output \in [Runs -> 0 .. MaxTurns]
  BY <1>1 DEF TypeOK
<1>3. r \in RecordFiles /\ r.turn = turn /\ r.state # "none"
  BY <1>2 DEF RecordFiles
<1>4. Dated' /\ NoMixing' /\ PlanPrefix'
  BY <1>1, <1>3, WriteKeeps
<1>5. Alone'
  BY <1>1, <1>3, WriteAlone
<1>6. TypeOK'
  <2>1. /\ lines' \in [Runs -> SUBSET Turns]
        /\ applied' \in [Runs -> SUBSET Turns]
        /\ pcap' \in [Runs -> 0 .. MaxTurns]
    BY <1>1, ArtifactsType DEF RunReturns
  <2> QED
    BY <1>1, <1>2, <1>3, <2>1 DEF TypeOK
<1>7. Underway'
  <2>1. /\ json'[pos] = r
        /\ \A i \in Runs : i # pos => json'[i] = json[i]
    BY <1>1, <1>2
  <2>2. Runs \subseteq Int
    BY DEF Runs
  <2>3. Progress(pos, pos)
    BY <1>1 DEF Underway
  <2>4. Progress(pos, pos + 1)'
    BY <1>1, <1>2, <2>1, <2>2, <2>3 DEF Progress, InPlan
  <2> QED
    BY <1>1, <2>1, <2>4 DEF Underway
<1>8. InventoryFirst'
  BY <1>1, InventoryStays
<1> QED
  BY <1>4, <1>5, <1>6, <1>7, <1>8 DEF IndInv

\* A campaign that dies: its last write was complete, torn or never begun.
LEMMA StopIndInv ==
    ASSUME IndInv, phase \in {"run", "verify"}, Stop, UNCHANGED <<guard, evidence, turn, named, chosen, inventory>>,
           json' \in {json, [json EXCEPT ![pos] = RecordFile("torn", FALSE)]},
           lines' \in [Runs -> SUBSET Turns], applied' \in [Runs -> SUBSET Turns],
           pcap' \in [Runs -> 0 .. MaxTurns], output' \in [Runs -> 0 .. MaxTurns]
    PROVE  IndInv'
<1> DEFINE r == [turn |-> turn, state |-> "torn", verified |-> FALSE]
<1>1. /\ pos \in Runs /\ turn \in 0 .. MaxTurns /\ turn > 0
      /\ json \in [Runs -> RecordFiles] /\ chosen \in SUBSET Targets
      /\ guard \in Guards /\ evidence \in [Targets -> EvidenceKinds]
      /\ named \in BOOLEAN /\ inventory \in BOOLEAN
  BY DEF IndInv, TypeOK
<1>2. r \in RecordFiles /\ r.turn = turn /\ r.state # "none"
  BY <1>1 DEF RecordFiles
<1>3. json' = json \/ json' = [json EXCEPT ![pos] = r]
  BY DEF RecordFile
<1>4. TypeOK'
  <2>1. json' \in [Runs -> RecordFiles]
    BY <1>1, <1>2, <1>3
  <2> QED
    BY <1>1, <2>1 DEF TypeOK, Stop
<1>5. Underway' /\ Alone'
  BY DEF Stop, Underway, Alone
<1>6. Dated' /\ NoMixing' /\ PlanPrefix'
  <2>1. CASE json' = json
    BY <2>1 DEF IndInv, Dated, NoMixing, PlanPrefix, HasRecord, InPlan
  <2>2. CASE json' = [json EXCEPT ![pos] = r]
    BY <1>2, <2>2, WriteKeeps
  <2> QED
    BY <1>3, <2>1, <2>2
<1>7. InventoryFirst'
  BY InventoryStays
<1> QED
  BY <1>4, <1>5, <1>6, <1>7 DEF IndInv

LEMMA RunRaisesIndInv == IndInv /\ RunRaises => IndInv'
<1> SUFFICES ASSUME IndInv, RunRaises PROVE IndInv'
  OBVIOUS
<1>1. /\ TypeOK /\ phase = "run" /\ Stop /\ UNCHANGED <<guard, evidence, turn, named, chosen, inventory>>
      /\ json' \in {json, [json EXCEPT ![pos] = RecordFile("torn", FALSE)]}
  BY DEF IndInv, RunRaises, runner
<1>2. /\ pos \in Runs /\ turn \in Turns /\ turn \in 0 .. MaxTurns
      /\ lines \in [Runs -> SUBSET Turns] /\ applied \in [Runs -> SUBSET Turns]
      /\ pcap \in [Runs -> 0 .. MaxTurns] /\ output \in [Runs -> 0 .. MaxTurns]
  BY <1>1, PlanAssumption DEF TypeOK, Turns
<1>3. /\ lines' \in [Runs -> SUBSET Turns]
      /\ applied' \in [Runs -> SUBSET Turns]
      /\ pcap' \in [Runs -> 0 .. MaxTurns]
  <2>1. CASE \E effect \in BOOLEAN : Artifacts(pos, effect)
    BY <1>1, <2>1, ArtifactsType
  <2>2. CASE UNCHANGED <<applied, lines, pcap>>
    BY <1>2, <2>2
  <2>3. CASE /\ lines' = [lines EXCEPT ![pos] = @ \cup {turn}]
             /\ UNCHANGED <<applied, pcap>>
    BY <1>2, <2>3
  <2> QED
    BY <2>1, <2>2, <2>3 DEF RunRaises
<1>4. output' \in [Runs -> 0 .. MaxTurns]
  BY <1>2 DEF RunRaises
<1> QED
  BY <1>1, <1>3, <1>4, StopIndInv

\* A position of a sequence over S holds a member of S.
LEMMA EntryType ==
    ASSUME NEW S, NEW q \in Seq(S), NEW i \in 1 .. Len(q)
    PROVE  q[i] \in S
OBVIOUS

\* Verify: the position is evaluated, and the next one is the first chosen
\* position behind it, so no chosen position is passed over.
LEMMA VerifyIndInv == IndInv /\ Verify => IndInv'
<1> SUFFICES ASSUME IndInv, Verify PROVE IndInv'
  OBVIOUS
<1>1. PICK v : v = Concludes(pos)
  OBVIOUS
<1> DEFINE r == [turn |-> turn, state |-> "evaluated", verified |-> v]
<1>2. /\ TypeOK /\ Underway /\ phase = "verify" /\ Advance
      /\ UNCHANGED <<guard, evidence, turn, named, chosen, inventory, lines, pcap, output, applied>>
      /\ json' = [json EXCEPT ![pos] = r]
  BY <1>1 DEF IndInv, Verify, RecordFile, runner
<1>3. /\ pos \in Runs /\ turn \in 0 .. MaxTurns /\ turn > 0
      /\ json \in [Runs -> RecordFiles]
  BY <1>2 DEF TypeOK
<1>4. r \in RecordFiles /\ r.turn = turn /\ r.state # "none"
  <2>1. v \in BOOLEAN
    <3>1. PICK kind : kind = evidence[Plan[pos].target]
      OBVIOUS
    <3>2. Plan[pos] \in [target : Targets, rep : Nat]
      BY <1>3, PlanAssumption, EntryType DEF Runs
    <3>3. kind \in EvidenceKinds
      BY <1>2, <3>1, <3>2 DEF TypeOK
    <3>4. CASE kind = "log"
      BY <1>1, <3>1, <3>4 DEF Concludes
    <3>5. CASE kind = "pcap"
      BY <1>1, <3>1, <3>5 DEF Concludes
    <3>6. CASE kind = "output"
      BY <1>1, <3>1, <3>6 DEF Concludes
    <3>7. CASE kind = "none"
      BY <1>1, <3>1, <3>7 DEF Concludes
    <3> QED
      BY <3>3, <3>4, <3>5, <3>6, <3>7 DEF EvidenceKinds
  <2> QED
    BY <1>3, <2>1 DEF RecordFiles
<1>5. Dated' /\ NoMixing' /\ PlanPrefix'
  BY <1>2, <1>4, WriteKeeps
<1>6. Alone'
  BY <1>2, <1>4, WriteAlone
<1>7. TypeOK'
  <2>1. json' \in [Runs -> RecordFiles]
    BY <1>2, <1>3, <1>4
  <2>2. /\ phase' \in {"idle", "run", "verify"}
        /\ pos' \in Runs \cup {0}
        /\ phase' # "idle" => pos' \in Runs
    BY <1>2 DEF Advance
  <2> QED
    BY <1>2, <1>3, <2>1, <2>2 DEF TypeOK
<1>8. Underway'
  <2>1. /\ json'[pos] = r
        /\ \A i \in Runs : i # pos => json'[i] = json[i]
    BY <1>2, <1>3
  <2>2. Runs \subseteq Int
    BY DEF Runs
  <2>3. Progress(pos, pos + 1)
    BY <1>2 DEF Underway
  <2>4. CASE phase' = "idle"
    BY <2>4 DEF Underway
  <2>5. CASE phase' # "idle"
    <3>1. PICK n \in Runs : FirstAfter(n, pos, chosen) /\ pos' = n /\ phase' = "run"
      BY <1>2, <2>5 DEF Advance
    <3>2. n \in Int /\ pos \in Int /\ n > pos
      BY <1>3, <2>2, <3>1 DEF FirstAfter
    <3>3. InPlan(n, chosen)
      BY <3>1 DEF FirstAfter
    <3>4. \A j \in Runs : j < n /\ InPlan(j, chosen) =>
             json'[j].turn = turn /\ json'[j].state = "evaluated"
      <4> SUFFICES ASSUME NEW j \in Runs, j < n, InPlan(j, chosen)
                   PROVE  json'[j].turn = turn /\ json'[j].state = "evaluated"
        OBVIOUS
      <4>1. j \in Int /\ ~(j > pos)
        BY <2>2, <3>1, <3>2 DEF FirstAfter
      <4>2. CASE j = pos
        BY <2>1, <4>2
      <4>3. CASE j # pos
        BY <2>1, <2>3, <3>2, <4>1, <4>3 DEF Progress
      <4> QED
        BY <4>2, <4>3
    <3>5. \A i \in Runs : i >= n => json'[i].turn # turn
      BY <2>1, <2>2, <2>3, <3>2 DEF Progress
    <3> QED
      BY <1>2, <3>1, <3>3, <3>4, <3>5 DEF Underway, Progress, InPlan
  <2> QED
    BY <2>4, <2>5
<1>9. InventoryFirst'
  BY <1>2, InventoryStays
<1> QED
  BY <1>5, <1>6, <1>7, <1>8, <1>9 DEF IndInv

LEMMA VerifyRaisesIndInv == IndInv /\ VerifyRaises => IndInv'
<1> SUFFICES ASSUME IndInv, VerifyRaises PROVE IndInv'
  OBVIOUS
<1>1. /\ TypeOK /\ phase = "verify" /\ Stop /\ UNCHANGED <<guard, evidence, turn, named, chosen, inventory>>
      /\ json' \in {json, [json EXCEPT ![pos] = RecordFile("torn", FALSE)]}
      /\ UNCHANGED <<lines, pcap, output, applied>>
  BY DEF IndInv, VerifyRaises, runner
<1>2. /\ lines' \in [Runs -> SUBSET Turns] /\ applied' \in [Runs -> SUBSET Turns]
      /\ pcap' \in [Runs -> 0 .. MaxTurns] /\ output' \in [Runs -> 0 .. MaxTurns]
  BY <1>1 DEF TypeOK
<1> QED
  BY <1>1, <1>2, StopIndInv

\* No step of any runner leaves the invariant.
LEMMA NextIndInv == IndInv /\ [Next]_vars => IndInv'
<1> SUFFICES ASSUME IndInv, [Next]_vars PROVE IndInv'
  OBVIOUS
<1>1. CASE UNCHANGED vars
  BY <1>1 DEF vars, IndInv, TypeOK, Dated, Underway, Progress, Alone, NoMixing,
              PlanPrefix, HasRecord, InPlan, InventoryFirst, Fresh
<1> QED
  BY <1>1, StartIndInv, WriteInventoryIndInv, RunReturnsIndInv, RunRaisesIndInv, VerifyIndInv,
     VerifyRaisesIndInv DEF Next

-----------------------------------------------------------------------------

\* The inductive invariant of the directory, for every plan, every selection
\* and any number of campaigns that end or die.
THEOREM CampaignIndInv == Spec => []IndInv
BY InitIndInv, NextIndInv, PTL DEF Spec

\* The runner's position and the files it leaves keep their types.
THEOREM CampaignTypeOK == Spec => []TypeOK
<1>1. IndInv => TypeOK
  BY DEF IndInv
<1> QED
  BY <1>1, CampaignIndInv, PTL

\* Records of two campaigns never sit side by side where a runner's check
\* (glob("*.json"), or the glob per selected target) is meant to prevent it.
THEOREM CampaignNoMixing == Spec => []NoMixing
<1>1. IndInv => NoMixing
  BY DEF IndInv
<1> QED
  BY <1>1, CampaignIndInv, PTL

\* Whenever a campaign dies, what it leaves is an evaluated prefix of its plan
\* and at most one record that is not.
THEOREM CampaignPlanPrefix == Spec => []PlanPrefix
<1>1. IndInv => PlanPrefix
  BY DEF IndInv
<1> QED
  BY <1>1, CampaignIndInv, PTL

\* The action of NeverOverwritten.
Keeps == guard # "nothing" => KeepsRecords

\* A runner that checks its directory replaces no record of an earlier
\* campaign, at any step.
THEOREM CampaignNeverOverwritten == Spec => NeverOverwritten
<1>1. IndInv /\ [Next]_vars => [Keeps]_vars
  <2> SUFFICES ASSUME IndInv, Next, guard # "nothing", NEW i \in Runs, HasRecord(i)
               PROVE  json'[i].turn = json[i].turn
    BY DEF Keeps, KeepsRecords
  <2>1. CASE json' = json
    BY <2>1
  <2>2. CASE json' # json
    <3>1. /\ phase \in {"run", "verify"}
          /\ \E s, v : json' = [json EXCEPT ![pos] = RecordFile(s, v)]
      BY <2>2 DEF Next, Start, WriteInventory, RunReturns, RunRaises, Verify, VerifyRaises
    <3>2. PICK s, v : json' = [json EXCEPT ![pos] =
                                 [turn |-> turn, state |-> s, verified |-> v]]
      BY <3>1 DEF RecordFile
    <3>3. /\ InPlan(pos, chosen) /\ pos \in Runs
          /\ json \in [Runs -> RecordFiles]
          /\ guard \in {"json", "v18", "e8"}
      BY <3>1, PlanAssumption DEF IndInv, Underway, Progress, TypeOK, Guards
    <3>4. CASE i = pos
      <4>1. json[pos].turn = turn
        BY <3>1, <3>3, <3>4 DEF IndInv, Alone
      <4> QED
        BY <3>2, <3>3, <3>4, <4>1
    <3>5. CASE i # pos
      BY <3>2, <3>3, <3>5
    <3> QED
      BY <3>4, <3>5
  <2> QED
    BY <2>1, <2>2
<1> QED
  BY <1>1, CampaignIndInv, PTL DEF Spec, NeverOverwritten, Keeps

\* A full survey (run_v18 without --clients) starts over no file of another
\* campaign, whatever campaigns ran or died in the directory before.
THEOREM CampaignSurveyStartsFresh == Spec => SurveyStartsFresh
<1>1. IndInv /\ [Next]_vars => [FullStartIsFresh]_vars
  <2> SUFFICES ASSUME IndInv, Next, turn' # turn, guard = "v18", ~named' PROVE Fresh
    BY DEF FullStartIsFresh
  <2>1. Start
    BY DEF Next, WriteInventory, RunReturns, RunRaises, Verify, VerifyRaises
  <2>2. PICK sel, byName : Admits(sel, byName) /\ named' = byName
    BY <2>1 DEF Start
  <2>3. ~inventory
    BY <2>2 DEF Admits, NoJson
  <2> QED
    BY <2>3 DEF IndInv, InventoryFirst
<1> QED
  BY <1>1, CampaignIndInv, PTL DEF Spec, SurveyStartsFresh

-----------------------------------------------------------------------------

\* Nothing in the directory is younger than the latest campaign, and the
\* running one has touched the proxy logs only up to its position; where it
\* is about to verify, its line in the proxy log means it was applied.
Traces ==
    /\ \A i \in Runs : lines[i] \subseteq 1 .. turn /\ pcap[i] <= turn
    /\ phase = "run" => \A i \in Runs : i >= pos => turn \notin lines[i]
    /\ phase = "verify" =>
          /\ output[pos] = turn
          /\ turn \in lines[pos] => turn \in applied[pos]
          /\ \A i \in Runs : i > pos => turn \notin lines[i]

\* What run_scenario does to the proxy logs and captures at its position.
LEMMA ArtifactsTraces ==
    ASSUME TypeOK, Traces, phase = "run", NEW effect \in BOOLEAN, Artifacts(pos, effect)
    PROVE  /\ \A i \in Runs : lines'[i] \subseteq 1 .. turn /\ pcap'[i] <= turn
           /\ turn \in lines'[pos] => turn \in applied'[pos]
           /\ \A i \in Runs : i > pos => turn \notin lines'[i]
<1>1. /\ pos \in Runs /\ turn \in Nat /\ turn > 0 /\ Runs \subseteq Int
      /\ lines \in [Runs -> SUBSET Turns] /\ applied \in [Runs -> SUBSET Turns]
      /\ pcap \in [Runs -> 0 .. MaxTurns]
  BY PlanAssumption DEF TypeOK, Runs
<1>2. PICK L : L = IF effect /\ evidence[Plan[pos].target] = "log" THEN {turn} ELSE {}
  OBVIOUS
<1>3. /\ lines'[pos] = lines[pos] \cup L
      /\ \A i \in Runs : i # pos => lines'[i] = lines[i]
  BY <1>1, <1>2 DEF Artifacts
<1>4. L # {} => turn \in applied'[pos]
  BY <1>1, <1>2 DEF Artifacts
<1>5. \A i \in Runs : pcap'[i] <= turn
  BY <1>1 DEF Artifacts, Traces
<1>6. \A i \in Runs : lines'[i] \subseteq 1 .. turn
  <2>1. L \subseteq 1 .. turn
    BY <1>1, <1>2
  <2> QED
    BY <1>3, <2>1 DEF Traces
<1>7. turn \notin lines[pos]
  BY <1>1 DEF Traces
<1> QED
  BY <1>1, <1>3, <1>4, <1>5, <1>6, <1>7 DEF Traces

LEMMA TracesInit == Init => Traces
<1>1. Init => /\ phase = "idle" /\ turn = 0
              /\ \A i \in Runs : lines[i] = {} /\ pcap[i] = 0
  BY DEF Init
<1> QED
  BY <1>1 DEF Traces

LEMMA TracesNext == IndInv /\ Traces /\ [Next]_vars => Traces'
<1> SUFFICES ASSUME IndInv, Traces, [Next]_vars PROVE Traces'
  OBVIOUS
<1>1. /\ TypeOK /\ turn \in Nat /\ Runs \subseteq Int /\ Runs' = Runs
      /\ pcap \in [Runs -> 0 .. MaxTurns] /\ output \in [Runs -> 0 .. MaxTurns]
      /\ lines \in [Runs -> SUBSET Turns]
      /\ phase # "idle" => pos \in Runs /\ turn > 0
  BY PlanAssumption DEF IndInv, TypeOK, Runs
<1>2. CASE UNCHANGED vars
  BY <1>2 DEF vars, Traces
<1>3. CASE Start
  <2>1. /\ phase' = "run" /\ turn' = turn + 1 /\ UNCHANGED <<lines, pcap>>
    BY <1>3 DEF Start
  <2>2. \A i \in Runs : lines[i] \subseteq 1 .. turn /\ pcap[i] \in Int /\ pcap[i] <= turn
    BY <1>1 DEF Traces
  <2>3. \A i \in Runs : lines'[i] \subseteq 1 .. turn' /\ pcap'[i] <= turn'
    BY <1>1, <2>1, <2>2
  <2>4. \A i \in Runs : turn' \notin lines'[i]
    BY <1>1, <2>1, <2>2
  <2> QED
    BY <2>1, <2>3, <2>4 DEF Traces
<1>4. CASE WriteInventory
  BY <1>4 DEF WriteInventory, Traces
<1>5. CASE RunReturns
  <2>1. /\ phase = "run" /\ phase' = "verify" /\ UNCHANGED <<turn, pos>>
        /\ output' = [output EXCEPT ![pos] = turn]
    BY <1>5 DEF RunReturns
  <2>2. PICK effect \in BOOLEAN : Artifacts(pos, effect)
    BY <1>5 DEF RunReturns
  <2>3. /\ \A i \in Runs : lines'[i] \subseteq 1 .. turn /\ pcap'[i] <= turn
        /\ turn \in lines'[pos] => turn \in applied'[pos]
        /\ \A i \in Runs : i > pos => turn \notin lines'[i]
    BY <1>1, <2>1, <2>2, ArtifactsTraces
  <2> QED
    BY <1>1, <2>1, <2>3 DEF Traces
<1>6. CASE RunRaises
  <2>1. phase = "run" /\ phase' = "idle" /\ UNCHANGED turn
    BY <1>6 DEF RunRaises, Stop
  <2>2. CASE \E effect \in BOOLEAN : Artifacts(pos, effect)
    <3>1. \A i \in Runs : lines'[i] \subseteq 1 .. turn /\ pcap'[i] <= turn
      BY <1>1, <2>1, <2>2, ArtifactsTraces
    <3> QED
      BY <2>1, <3>1 DEF Traces
  <2>3. CASE UNCHANGED <<applied, lines, pcap>>
    BY <2>1, <2>3 DEF Traces
  <2>4. CASE lines' = [lines EXCEPT ![pos] = @ \cup {turn}] /\ UNCHANGED <<applied, pcap>>
    <3>1. turn \in 1 .. turn /\ pos \in Runs
      BY <1>1, <2>1
    <3>2. \A i \in Runs : lines'[i] \subseteq lines[i] \cup {turn}
      BY <1>1, <2>4, <3>1
    <3> QED
      BY <2>1, <2>4, <3>1, <3>2 DEF Traces
  <2> QED
    BY <1>6, <2>2, <2>3, <2>4 DEF RunRaises
<1>7. CASE Verify
  <2>1. phase = "verify" /\ Advance /\ UNCHANGED <<turn, chosen, lines, pcap, output, applied>>
    BY <1>7 DEF Verify
  <2>2. CASE phase' = "idle"
    BY <2>1, <2>2 DEF Traces
  <2>3. CASE phase' # "idle"
    <3>1. PICK n \in Runs : FirstAfter(n, pos, chosen) /\ pos' = n /\ phase' = "run"
      BY <2>1, <2>3 DEF Advance
    <3>2. n > pos /\ n \in Int /\ pos \in Int
      BY <1>1, <2>1, <3>1 DEF FirstAfter
    <3>3. \A i \in Runs : i >= n => turn \notin lines[i]
      BY <1>1, <2>1, <3>2 DEF Traces
    <3> QED
      BY <2>1, <3>1, <3>3 DEF Traces
  <2> QED
    BY <2>2, <2>3
<1>8. CASE VerifyRaises
  <2>1. phase' = "idle" /\ UNCHANGED <<turn, lines, pcap>>
    BY <1>8 DEF VerifyRaises, Stop
  <2> QED
    BY <2>1 DEF Traces
<1> QED
  BY <1>2, <1>3, <1>4, <1>5, <1>6, <1>7, <1>8 DEF Next

\* A campaign before the running one has left no record where its check looked.
LEMMA EarlierLeftNothing ==
    ASSUME IndInv, phase = "verify", NEW t \in 1 .. turn - 1
    PROVE  LeftNoRecord(t, pos)
<1>1. /\ turn \in Nat /\ json \in [Runs -> RecordFiles] /\ InPlan(pos, chosen)
  BY PlanAssumption DEF IndInv, TypeOK, Underway, Progress
<1>2. \A j \in Runs : ~HasRecord(j) => json[j].turn # t
  <2>1. \A j \in Runs : json[j].turn \in Nat
    BY <1>1, PlanAssumption DEF RecordFiles
  <2> QED
    BY <2>1 DEF IndInv, Dated
<1>3. \A j \in Runs :
         HasRecord(j) /\ (guard = "json" \/ (guard \in {"v18", "e8"} /\ Plan[j].target = Plan[pos].target))
         => json[j].turn = turn
  BY <1>1 DEF IndInv, Alone, InPlan
<1>4. t # turn
  BY <1>1
<1> QED
  BY <1>2, <1>3, <1>4 DEF LeftNoRecord

\* A run is marked verified without having been manipulated only on the
\* strength of a file of an earlier campaign, and in a directory that is
\* checked only of one that died before its first record (for that target).
THEOREM CampaignFalseOnlyFromStale == Spec => FalseOnlyFromStale
<1>1. IndInv /\ Traces /\ [Next]_vars => [StaleEvidence]_vars
  <2> SUFFICES ASSUME IndInv, Traces, Next, NEW i \in Runs, json'[i] # json[i], json'[i].verified,
                      turn \notin applied[i], evidence[Plan[i].target] # "none"
               PROVE  \E t \in Sources(i) : LeftNoRecord(t, i)
    BY DEF StaleEvidence
  <2>2. Verify /\ i = pos
    <3>1. CASE json' = json
      BY <3>1
    <3>2. CASE RunReturns \/ RunRaises \/ VerifyRaises
      <4>1. phase # "idle" /\ json \in [Runs -> RecordFiles] /\ pos \in Runs
        BY <3>2 DEF IndInv, TypeOK, RunReturns, RunRaises, VerifyRaises
      <4>2. \E s : json' \in {json, [json EXCEPT ![pos] =
                                 [turn |-> turn, state |-> s, verified |-> FALSE]]}
        BY <3>2 DEF RunReturns, RunRaises, VerifyRaises, RecordFile
      <4> QED
        BY <4>1, <4>2
    <3>3. CASE Verify
      <4>1. json \in [Runs -> RecordFiles] /\ pos \in Runs
        BY <3>3 DEF IndInv, TypeOK, Verify
      <4> QED
        BY <3>3, <4>1 DEF Verify
    <3> QED
      BY <3>1, <3>2, <3>3 DEF Next, Start, WriteInventory
  <2>3. /\ phase = "verify" /\ pos \in Runs /\ turn \in Nat /\ turn > 0
        /\ json'[pos].verified = Concludes(pos)
    BY <2>2, PlanAssumption DEF Verify, IndInv, TypeOK, RecordFile
  <2>4. Concludes(pos)
    BY <2>2, <2>3
  <2>5. \A t \in 1 .. turn - 1 : LeftNoRecord(t, pos)
    BY <2>3, EarlierLeftNothing
  <2>6. PICK kind : kind = evidence[Plan[pos].target]
    OBVIOUS
  <2>7. kind \in {"log", "pcap", "output"}
    <3>1. Plan[pos] \in [target : Targets, rep : Nat]
      BY <2>3, PlanAssumption, EntryType DEF Runs
    <3> QED
      BY <2>2, <2>6, <3>1 DEF IndInv, TypeOK, EvidenceKinds
  <2>8. CASE kind = "log"
    <3>1. PICK t : t \in lines[pos]
      BY <2>4, <2>6, <2>8 DEF Concludes
    <3>2. t \in 1 .. turn /\ t # turn
      BY <2>2, <2>3, <3>1 DEF Traces
    <3>3. t \in 1 .. turn - 1
      BY <2>3, <3>2
    <3>4. t \in Sources(pos)
      BY <2>6, <2>8, <3>1 DEF Sources
    <3> QED
      BY <2>2, <2>5, <3>3, <3>4
  <2>9. CASE kind = "pcap"
    <3>1. pcap[pos] \in applied[pos]
      BY <2>4, <2>6, <2>9 DEF Concludes
    <3>2. pcap[pos] \in Turns /\ pcap[pos] <= turn /\ pcap[pos] # turn
      BY <2>2, <2>3, <3>1 DEF Traces, IndInv, TypeOK
    <3>3. pcap[pos] \in 1 .. turn - 1
      BY <2>3, <3>2, PlanAssumption DEF Turns
    <3>4. pcap[pos] \in Sources(pos)
      BY <2>6, <2>9 DEF Sources
    <3> QED
      BY <2>2, <2>5, <3>3, <3>4
  <2>10. CASE kind = "output"
    <3>1. output[pos] \in applied[pos]
      BY <2>4, <2>6, <2>10 DEF Concludes
    <3> QED
      BY <2>2, <2>3, <3>1 DEF Traces
  <2> QED
    BY <2>7, <2>8, <2>9, <2>10
<1>2. Spec => []Traces
  <2>1. Init => Traces
    BY TracesInit
  <2> QED
    BY <2>1, TracesNext, CampaignIndInv, PTL DEF Spec
<1> QED
  BY <1>1, <1>2, CampaignIndInv, PTL DEF Spec, FalseOnlyFromStale
=============================================================================
