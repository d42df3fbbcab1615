# TLA+ verification of the hybrid-downgrade fault-injection tools

The repository measures what happens to a post-quantum hybrid key exchange when
a client's offer, a server's policy or an on-path party interferes with it. Its
own core is the Python package `tools/faultinject`: it runs hundreds of loopback
handshakes between third-party TLS and SSH programs, captures and sometimes
rewrites them, and turns the artifacts into JSON records, tables and verdicts.
The research claims rest on these tools doing what they say, and most ways they
could fail (a capture that had already stopped, a log line of last week's run, a
server of a campaign that was killed) leave no trace in a unit test. This
directory holds the specifications of that machinery, the TLC models that check
them and the TLAPS proofs about them.

The rest of the repository is recorded data (`docs/research/baselines/raw`),
reports, packages (`dist`) and build scripts; it is described here only where it
says what the tools should do.

## 1. Inventory

| Part | Source (`src/tools/`) | State it keeps | Operations |
|---|---|---|---|
| on-path proxy | `faultinject/mitm_proxy.py` | open sockets, the list the last select returned, the flag `mutated`, two byte counters | bind, accept, connect, the first recv, select, relay, pass on EOF, idle timeout |
| message mutators | `tls_clienthello.py`, `ssh_kexinit.py`, the closure in `fault_binding.py` | a proxy log, appended to | forge or strip the hybrid in a ClientHello / KEXINIT; log when something changed |
| scenario harness | `harness.py`, `record.py` | a server process, a tshark process, a proxy thread and its error list, a client; artifacts and one JSON file | `run_scenario`: start, wait for the capture file, for the listener, one second, for the proxy; run the client; the `finally` block; write the record |
| batch runners | `run.py`, `v12.py`, `v15.py` - `v18.py` | an output directory; a place in a plan | check the directory and the ports, loop over the scenarios, evaluate each record; v18: write the inventory, reclassify |
| scenario builders | `conditions.py`, `fault_group_list.py`, `fault_binding.py`, `*_specs` | none | the sequence of ScenarioSpecs |
| verification | `verify_applied.py`, `run.verify_record` | none | decide `manipulation_verified` from a log, a capture or the client's output |
| capture parser | `pcap_hello.py` | none | find the Hellos in a pcapng |
| verdicts | `analyze.py`, `aggregate.py` | none | count records, compare with the expected matrix |
| audit | `audit.py` | none | what each output of a run shows; a summary over the outputs |
| packaging | `make_repro_package.py` | a ZIP per milestone | collect raw directories, code and documents; verify by names and counts |
| set-up | `*.sh`, `v15/`, `v18/` | files | build scripts, minimal clients and servers |

How they interact. A runner calls `run_scenario` for each element of its plan.
`run_scenario` runs the proxy in a thread of the same process and everything
else in child processes; they share sockets on fixed loopback ports, files named
after the run id, one `Event` (`proxy_ready`) and one list (`proxy_errors`). The
runner then reads the artifacts back and rewrites the record with the evaluated
fields. The analysis reads nothing but the directory. Runs of one campaign, and
campaigns on one host, are connected by what they leave behind: files, processes
and ports.

What is hard. The proxy reacts to whatever TCP segmentation and the death of its
peers present to it. The harness waits seven times, with seven limits, for
processes that may hang, and an exception may leave it from each of them.
Campaigns of hours die and are restarted over what they left. Evidence is looked
up by name and port, so evidence of something else can be taken for it. And the
verdict counts parsed evidence of which pieces may be missing. `PROJECT.json`
lists these hazards line by line, each with the properties that cover it.

What correctness means, part by part:

- proxy: a faithful relay that rewrites exactly the first client chunk its
  mutator accepts, and whose log says so; it ends;
- harness: it ends, it leaves nothing running, and a record means a complete run;
- runners: records of different campaigns are not mixed or replaced, a dead
  campaign leaves a prefix, `verified` comes from the run's own evidence;
- ports: the client whose result is recorded was talking to its own server,
  through its own proxy;
- builders: no two runs share artifacts, and every combination gets all its
  repetitions;
- verdict: given exactly when the handshakes behind the records went as expected;
- mutators and capture parser: a stripped message is one the client could have
  sent, a forged one differs in the post-quantum key alone, and the parser reads
  what was sent;
- survey: a record claims nothing the connection did not do, however much of the
  capture is missing; the label of a client is that of its first ClientHello; a
  table counts each run once;
- package: accepted exactly when it holds every run and every required file.

## 2. Modules

| Module | Models | Used by |
|---|---|---|
| `Mutators` | the four mutators, on buffers of message halves | `Proxy` |
| `Splice` | the abstract two-stream relay that `run_proxy` promises | `Proxy` (refinement) |
| `Proxy` | `run_proxy` with its two peers | `MCProxy`, `ProxyProofs` |
| `Scenario` | `run_scenario` with its processes and time limits | `MCScenario`, `ScenarioProofs` |
| `Campaign` | campaigns of a runner over one output directory | `MCCampaign`, `CampaignProofs` |
| `Plans` | the plans of all runners | `Package`, `MCCampaign`, `MCPorts`, `PackageProofs` |
| `Package` | the plans walked into their raw directories, and the packages made of them | `MCPackage`, `PackageProofs` |
| `Ports` | campaigns of several runners on one host | `MCPorts`, `PortsProofs` |
| `Verdict` | from a handshake to the verdict of the v1.2, v1.3 and v1.7 matrices | `MCVerdict`, `VerdictProofs` |
| `Audit` | `audit_record` | `Verdict` |
| `Bytes` | byte strings as sequences of fields, addressed by offset | `ClientHello` |
| `ClientHello` | `tls_clienthello.py` and the Hello parsers of `pcap_hello.py` | `KexInit` |
| `KexInit` | `ssh_kexinit.py` | `Rewrite` |
| `Rewrite` | one message through recv, mutator and capture parser | `MCRewrite`, `RewriteProofs` |
| `Survey` | v15, v16 and v18: evaluation, labels, tables, `reclassify` | `MCSurvey`, `SurveyProofs` |

Definitions keep the names of the code where TLA+ allows it; `PROJECT.json`
"map" gives the lines of each. Operators marked "Mutant" are plausible bugs of
the definition that follows them: every property checked by a passing run is
violated when one of them takes the place of the definition.

### Proxy, Mutators, Splice

A direction of the connection is a script of units; a message the mutator is
looking for is two units, `head` and `tail`, so that one `recv` may deliver half
of it, all of it, or more. `pc` is the place in `run_proxy`: `bind`, `accept`,
`connect`, `first` (the receive before the loop, which has its own copy of the
relay code), `select` and `serve` (one step per entry of the readable list, since
the peers act between them), `done`, `failed`. The peers write, half-close, close
and die at any moment. `Relay` is the whole body of one iteration: the mutator,
its log line, `sendall`, the counter. `RelayRaises` is the same with `sendall`
raising after the log line was written. `chunks` is a history of what was
received and what was sent for it.

`Splice` says the same without sockets: two streams, one position each, at most
one rewritten chunk, an end per direction. `ImplementsSplice` is the refinement.

### Scenario

Time is counted in seconds. `Tick` is possible only where the code really waits
and below the limit of that wait; the limits are constants, set to the values of
the code. The server, tshark, the client and the proxy thread take their steps at
any time, or never. The `finally` block is one action per statement that can
wait or raise (`TerminateServer`, `ServerReaped`, `CaptureReaped`,
`InterruptCapture`, `JoinProxy`, `FinallyExpired`), and `cut` keeps the place where
the block was left early, if it was. Ctrl-C is the user's step (`UserStep`): inside the
`try` it leads to `finally` (`Interrupted`), inside `finally` it leaves the block at
once (`FinallyInterrupted`), behind it the record is not written
(`RecordInterrupted`). The proxy is seen from outside: `binding`, `listening`, `spliced`,
`ended`; `Proxy` has its inside, and `LoopEnds` there is what justifies
`ProxyReturns` being fair here.

### Campaign

One output directory, and per planned run: its JSON file (absent, raw, evaluated,
torn), the campaigns whose lines are in its proxy log, the campaigns its capture
and its client output are of. `guard` is the runner's check: `nothing` (`run.py`),
`json` (v12 to v17: refuse a directory with any `*.json`), `v18` (the same for a
full campaign; with `--clients`, refuse if a named client has a record) and `e8`
(always the latter). v18 and E8 write `v1.8-candidate-inventory.json` before their
first scenario, a `*.json` like the others (`WriteInventory`). `applied` is the
history the properties compare with: in which campaigns the manipulation really
took place.

### Plans

Every `*_specs` function as a sequence, with exactly the ports, proxy ports, fault
types and conditions of the code. `RunId` is `record.run_id`; `EvidenceOf` is the
dispatch of `verify_record`. The nested comprehensions of the code are `ForEach` and
`Repeat`, which compute the element at a position by division with remainder.
`MCCampaign`, `MCPorts` and `Package` take their plans from here.

### Package

One package is prepared: one of its raw directories is being filled, file by file
in the order `run_scenario` creates them, its others are complete. At any moment
the package may be built, or the process may die over it; one document may be
absent from the checkout. `Needs`, `RequiredFiles`, `Documents` and `Excluded` are
the table `PACKAGES`, `Verifies` is `verify_zip`. The proxy log of a run is opened by
the mutator, and only for data it changed: a proxied run may come to its record without
one (`unlogged`). The verification of such a run raises `FileNotFoundError` and ends
`run.py`, so its campaign does not get past it. The counts in that table and the
plans of seven runners are written down in different files; the two directions
`VerifiedIsComplete` and `CompleteIsVerified` say that they agree.

A campaign is a runner with the repetitions and name lists it is given, and
`BuiltPlan` the plan its builder makes of them. `CampaignsAssumption` asks that a
list holds no name twice; the command line does not refuse `--versions 3.5.5,3.5.5`,
and such a campaign would write over its own artifacts. `PackageAssumption` is what
the minimum counts have to do with the plans (`Yield`: how many names of a suffix a
finished campaign leaves); TLC evaluates both on the published campaigns.

### Ports

A scenario reduced to what happens on its ports. `orphans` are servers that
outlived their harness (`TimeoutExpired` in the `finally` block, SIGKILL),
possibly without having bound their port yet; `lingering` are proxy threads left
in `accept`. Runners are a constant: a plan, the ports the preflight binds, the
programs it greps for. `record` remembers who the client of the last record was
really connected to.

### Verdict

A run is a sequence of Hellos of one TLS 1.3 connection together with what is
left of it: the subset of Hellos the capture shows, whether the files exist,
whether the client succeeded. `EvaluateV12` sees only what is left; `Comparison`,
`Labelled`, `KeyReproduced` and `CveVerdict` are `comparison_v12` and
`cve_verdict`, `Rendered` what the report says, if it says anything: `comparison_v12`
raises over a torn file and over a record of the matrix that was never evaluated
(`Raises`). Such files are what a campaign that died (`Die`) leaves; runs it was told to
leave out (`Skip`) leave gaps. The properties compare the verdict with the handshakes. Each
output that is left also carries the marks `audit.py` searches for, and the
record its audit.

### Bytes, ClientHello, KexInit, Rewrite

The bytes of a message are a sequence of fields with a size; a parser addresses
them by the offset it has computed, as the code does, and a cursor that does not
land on a field is an error of the run. So each of the nested lengths (record, handshake,
extensions, vector, entry; packet, padding, name-list) matters with its real value,
while random bytes and key material stay opaque. Encoders for what the clients and
servers send are external; the mutators and the two parsers are translated branch
by branch, a `ValueError` being the value `Raised`. `Rewrite` sends one message,
whole, cut, or with a neighbour in the same buffer, through `Mutate` and then
through the capture parser. It is the ground under `Mutators`, which takes for
granted that a chunk without the whole message is left alone. Loops of the code are
recursive functions over field or entry positions (`Starts`, `Triples`, `Positions`);
`Kept` is a list comprehension with a filter (`KeptIsFilter`, evaluated by TLC).

`Hellos` is what the theorems are about: any lists of groups and key shares, any order
of the extensions, any session id, no extension twice and no two key shares of one
group, which RFC 8446 forbids (sections 4.2 and 4.2.8). A ServerHello, a name-list and
the size of a public value are as general.

### Survey

A directory of a capture-based campaign. A slot is a run: its connection (offer,
retry, final group, end), the frames of it the capture kept, and its record. The
three evaluators, `classify`, the tallies and the survey rows are the code's. The
Hellos of a summary are a set of frame numbers, of which the code's first and last are
the least and the greatest; a name of a group is the name table's, or the hexadecimal
digits of a code that is not in it, and `Matches` tests those digits as the expression
of `_grease` does. The
directory may begin with records labelled before `classify` looked at the order.
`reclassify` takes its files once and walks them in their order, one per step
(`At` is the next one, `Advance` goes behind it), while the
campaign goes on; it dies of raw and torn records, or by itself, possibly in the
middle of a write.

## 3. Runs

| Run | Instance | States | Shows |
|---|---|---:|---|
| `proxy` | five sessions, `RecvMax` 3 | 47 311 | relay, rewriting, log, EOF, refinement; the loop ends and relays what is queued |
| `scenario` | all kinds, the limits of the code | 40 587 | clean-up on every way out, sound records, capture first; `run_scenario` ends |
| `scenario_capture` | captured, no proxy | - | violation: the capture can be over before the client starts |
| `campaign` | 2 targets x 2 repetitions, any selection, all four checks, up to 3 campaigns | 1 608 479 | no mixing, no overwriting, prefix, where stale evidence comes from, fresh surveys |
| `campaign_rerun` | `run.py`, 2 campaigns | - | violation: verified on an old log line |
| `package` | every plan with its published repetitions, all eight packages | 13 190 | complete grid without shared artifacts; `verify_zip` accepts the complete packages and no others |
| `ports` | v11, v12 and E8 runners, 3 campaigns | 185 137 | own server, own proxy, leaks |
| `verdict` | 2 combinations, 6 slots, 8 observations | 1 727 181 | verdict sound, complete, given unless a record is unfinished; audit exact |
| `rewrite` | orders of up to 3 groups (2 hybrids), up to 2 shares, 4 extension orders; name-lists of up to 4 | 25 428 | stripping is re-encoding, forging inverts the PQ key only, log line iff applicable, parser reads the wire |
| `survey` | 2 slots, 5 fault types, `MaxLost` 1, `MaxDeaths` 1 | 494 638 | sound records, labels and tables; `reclassify` ends and repairs |
| `survey_unnamed` | as `survey`, v18 | - | violation: a client that shares an unnamed hybrid is labelled C3 |

Why the bounds are enough to be interesting.

- Proxy scripts contain a match in the first chunk, a match behind a banner, a
  second match after the first (HelloRetryRequest) and a match in the wrong
  direction; `RecvMax` 3 lets a receive split a message, contain it exactly, or
  contain it with a neighbour. All statements but liveness are proved without the
  bounds.
- Scenario has no bound besides the code's own limits.
- Campaign: `MaxUnchecked` is the bound for `run.py`, whose directories grow with
  every campaign; two show everything a runner without memory can do. For the
  others a third campaign is needed for one that starts over the remains of one
  that itself started over remains. Two targets and two repetitions separate
  "same target" from "same repetition".
- Ports: three campaigns for an orphan of the first to meet a campaign that checks
  and one that does not; the v11 plan has two proxied scenarios on one port.
- Verdict: two repetitions asked for, up to three present; the observations
  contain each way of losing evidence that could tilt the verdict, e.g. a
  retried handshake whose retry is not in the capture, and a retry from hybrid to
  classical whose first two Hellos are missing. The campaign may die once, over any
  run: the runner refuses a directory with records, so there is no second time. The ports, verdict, campaign and
  scenario properties marked in section 5 are proved for all instances.
- Package has no bound: plans and counts are the real ones. Its three properties are
  proved for every campaign, given the counts.
- Rewrite: every position of the hybrid among its neighbours, both hybrids (the PQ
  part in front and behind), shares too short to hold one, extensions missing, in
  either order and with others between them; `Behind` is the size of a neighbour.
  Its properties are proved without the bounds.
- Survey: two slots are the least for two rows to be joined or split and for
  `reclassify` to be overtaken by the campaign; one lost frame is enough for each
  way of losing a ClientHello, a retry or a ServerHello, and a capture without any
  frame is there besides; the offers have GREASE values of a decimal and of another digit,
  and one in front of a hybrid; after one death the walk can be repeated to its end. The
  invariants are proved without the bounds.

Deadlock is not checked: each model ends (`run_proxy` returns, the plan is
walked, the message is captured, the bound on campaigns is reached).

## 4. Fairness

- `proxy`: weak fairness of the proxy thread's own steps. The peers owe
  nothing: they may stop writing for ever (the select timeout is a step of the
  proxy) or die. The operating system schedules a runnable thread, and `select`
  returns when a socket is readable or five seconds have passed.
- `scenario`: weak fairness of the harness thread, of time, and of the proxy
  thread's `accept` and return; the latter is `LoopEnds`. Server, tshark and
  client owe nothing, and neither does the user: Ctrl-C is no fair step, so every wait
  must end by its own limit, those of the `try` block too.
- `survey`: weak fairness of the steps of `reclassify`, a loop over a list that waits
  for nothing. Its death is not a fair step, and the campaign beside it owes nothing.

`LoopEnds` starts at the loop: `accept` and the receive before the loop have no
timeout, and a client that never connects, or connects and says nothing while it
stays open, holds the thread there. `OnlyUndialledProxyOutlives` and
`ScenarioEnds` say what this means for the harness.

## 5. Proofs

Eight modules of proofs, all checked by TLAPS down to the last leaf. The
assumptions are the named ASSUMEs of the modules, which TLC evaluates on every run.
The type invariants of these modules and `SilentAfterShut` are proved and therefore
not in a run; every other property they prove is also checked by TLC, and broken
there by its mutant.

- `ProxyProofs`: for every set of sessions and every `RecvMax`. `IndInv` is
  `TypeOK`, `InOrder`, `FirstMatchOnly`, `LogIsEvidence`, `EofLast` and
  `LoopShape`. `EofLast` is not inductive by itself: a shutdown must stay behind
  all data, so the source must have left `open_sockets`, which is `LoopShape`.
  `CleanEndDelivers`, `SilentAfterShut` and `ImplementsSplice` follow; the
  refinement maps each relayed chunk to a `Pass`, each EOF to a `Close` and the
  end to a `Stop`, everything else to a stutter.
- `ScenarioProofs`: for all kinds and all positive limits. `NotYet`, `Reaped`,
  `ProxyKnown` and `PcapKnown` say, for each place of `run_scenario`, which
  processes can exist there, and for a `finally` block that was left early, where;
  the properties of the way out are read off at the last place.
- `CampaignProofs`: for every plan, selection, guard and number of campaigns.
  `Dated` ties each record to its campaign; `Underway` reads the position of the
  running campaign off the directory; `Alone` says that what a checking runner
  must not mix with is its own. `Alone` holds at the start because of the check
  and later because only the runner writes. `SurveyStartsFresh` needs that the
  inventory is on disk whenever a v18 campaign has left any artifact;
  `FalseOnlyFromStale` that every line and capture is of the present or of an
  earlier campaign, and that a check would have seen the records of the latter.
- `PortsProofs`: for every set of runners with any plans whose proxy ports are no
  server ports (`PortsAssumption`, true of `Plans`). `Elders` (while a campaign
  runs, every orphan is older: the `finally` block reaps or ends the campaign)
  gives `OwnOrEarlierCampaign`; `Looked` carries the one look of the preflight
  through the campaign; `Leaked` does the same for a leaked proxy's port.
- `VerdictProofs`: for every expected matrix, number of repetitions and set of
  observations. The invariant is that each record is the evaluation of some
  handshake, or one unfinished record that a dead campaign left at its place
  (`Remains`, which gives `VerdictGiven`); the work is in `RunSound` (what the metrics of one run prove about
  its handshake: the single ServerHello is the last Hello; agreement of log and
  capture excludes a lost retry; a missing first ClientHello would need a retry to
  classical, which no expected outcome has) and `IdealMetrics` (the converse), and
  in the cardinality argument from counts to "every record". `AuditSound` rests
  on `AuditReads`, what the summary of any set of outputs says.

- `SurveyProofs`: for every set of slots, offers, lost frames and deaths. `IndInv`
  says of each slot that its capture holds frames of its connection (`Captured`) and
  that its record is raw and untouched, or evaluated and `Faithful` to that connection;
  and of the directory that a stale label is one `reclassify` has yet to reach
  (`Walk`). `LabelsRepaired` is not inductive by itself: while the walk goes on, the
  campaign evaluates records it has passed or never listed, and those must come out
  with the present rule's label. `WireFacts` and the lemmas after it say which Hello
  the first frame that is left can be; `WrongClassOnlyBy` and `NothingInvented` are
  read off from there. `CountsSound` is a comparison of cardinalities, and
  `OneRowPerOffer` rests on GREASE values having no name: replacing them commutes
  with naming. `GreaseDigits` is the arithmetic of the expression in `_grease`: it matches
  the sixteen values and no other number of four digits. For the table of v18 the row is
  that of the offer because no label is stale behind the walk. From `SurveyAssumption`: offers are lists of group numbers, and the
  older clients shared at least one key.

  Those properties bound what a record may say; `SurveyWholeTruth` is the other half.
  When a capture lost no frame, the record is exact: retry, final group, lists,
  precondition, success and class. `TellInv` adds to `IndInv` what the evaluator told
  of a whole capture (`Told`), which `reclassify` must not touch; the class follows
  from `ClassifyIsTrue`. It is a theorem and not a property of
  a run; TLC agrees with it on the instance of `survey`.
- `PackageProofs`: first the plans, for every number of repetitions and all lists
  without a repeated name. `DivMod`, `Coordinates` and `Position` are the arithmetic of
  nested loops: a position is one row and one column, and every row and column is one
  position. `GridEachOnce` turns it into `EachOnce` (every repetition of every
  combination, exactly once), `LoopsOnce` puts two experiments behind each other, and
  one lemma for each of the ten builders follows. `NamesOnce`: no two runs of a plan
  share a name. Then the packages, for every set of packages and campaigns that meet
  the two assumptions. `IndInv` is the runner's place in its plan, and that the package
  file's verdict is the one `verify_zip` would give now. `GridComplete` comes from the
  lemmas on the builders; `VerifiedIsComplete` from `TooFew`: a record that is missing
  cannot be made up for, because every run has at most one name of a suffix;
  `CompleteIsVerified` from `FullCount`, which needs that no two names coincide
  (`NamesOnce`), that no run is called "inventory", and that a campaign did not get past a
  run without its proxy log.
- `RewriteProofs`: for every message the four assumptions of `Rewrite` admit. The
  invariant `RewriteInv` only restates the two assignments of the model, so that the
  theorems can speak of one message; it is a lemma and claims nothing by itself. The work is in what the transforms and
  parsers compute. `Has(w, off, s)`: the fields s stand in the buffer w at offset off.
  What stands somewhere is read there (`ReadOfPart`) and cut out there (`SliceOfPart`);
  `FlatHoldsParts` places the parts of a concatenation; `TriplesOfTyped` shows that a
  cursor that moves by the lengths it reads finds every extension or entry and stops
  behind the last. With them `HelloBounds` and `HelloExtensions` follow the cursor of
  `_client_hello_extensions` through a hello, `StripHybridResult` puts the stripped
  record together, `ReadClientHelloResult` and `ReadServerHelloResult` read a record
  back, `StripKexinitResult` does the same for SSH. `Framed(w, v, off, a, b)`: two
  buffers differ in one part, at off. Each encoder carries it outwards (`FramedTyped`,
  `FramedVector`, `FramedFlat`, `FramedRecord`, `FramedPacket`), so that a forged key
  share changes the record just where `forge_pq_component` inverts it
  (`ForgedHello`, `InvertedOf`). `CutRecord` and `CutPacket` show that a message of
  which a part is missing is refused by every transform. That a strip is a change when
  the hybrid is offered (`StripChanges`) needs no comparison of bytes: the parser reads
  two different offers from the two records.

  Recursive functions are reasoned about with `NatSetInduction`, induction over the
  *set* of numbers that have the property, which follows from the well-foundedness of
  `<` and needs no operator parameter; `WalkExists`, `FlatUpToExists` and their like say
  that the recursion defines a function at all.

Only model-checked: liveness (`LoopEnds`, `QueuedIsRelayed`, `ScenarioEnds`,
`WalkEnds`), which is outside the prover's reach with its fairness; and that the
published counts and plans meet `PackageAssumption`, which is a computation. Every
other property of a passing run is a theorem.

## 6. Where the code and its descriptions differ

Three runs end in a violation, each of a sentence in the repository:

1. `scenario_capture`. `harness.py:199` polls tshark before the settling second; a
   capture that ends in that second goes unnoticed although the message there
   speaks of the capture having stabilized. The record is then evaluated without
   the handshake.
2. `campaign_rerun`. `docs/PAPER.en.md:89` says log and capture confirmed the
   manipulation. The log is appended to and `run.py` checks nothing, so after a
   rerun into the same directory an old line verifies a new run.
   `FalseOnlyFromStale` shows that a fresh directory excludes it.
3. `survey_unnamed`. `v18.py:4` and `docs/PAPER.en.md:83` say that C2 and C3 clients
   send no hybrid share. The labels come from printed names, and only two hybrid
   codes have one. A client sharing another (0x11eb) first would be labelled C3.
   Recorded clients advertise such codes, but none of them shares one, so the
   published labels stand; `WrongClassOnlyBy` says that this, a lost first ClientHello
   and a GREASE value in front are the only ways to a wrong label.

Two observations the documents make themselves or do not contradict. A stripped KEXINIT
keeps the padding of the longer packet and is in general not aligned to the block size
(RFC 4253, section 6); `docs/PAPER.en.md:214` and `docs/EVIDENCE.md:235` report the error
it ends in, and `KexListShortened` shows that nothing else in the packet is wrong. And
`classify` takes the first printed group for the client's first choice: a client that
puts GREASE there and shares its hybrid, as the browser of `docs/PAPER.en.md:133` does,
would be labelled noncanonical by v18, where the paper, which measured browsers with v17,
calls it C1. None of the v18 candidates sends GREASE.

Two more sentences are looser than the code and have no run of their own.
`mitm_proxy.py:23` says the first client payload only is transformed, where the
first *matching* payload is (`FirstMatchOnly`; the tests agree with the code).
`docs/research/REPRODUCTION.md:48` says a runner refuses a directory that is not
empty, where it refuses one with a `*.json`: captures and logs of a campaign that
died before its first record stay in place, and `FalseOnlyFromStale` says how far
that can reach. For a full v18 survey alone the sentence is true in effect
(`SurveyStartsFresh`).

## 7. Abstractions

- A `sendall` that raises delivers nothing; a `sendall` that blocks for ever on a
  peer that does not read is not modelled (handshake messages fit the buffers).
- A missing proxy log makes the verification raise, as reading it does.
- Ctrl-C in `run_scenario` is modelled inside the `try`, inside the `finally` block and
  behind it, but not between the two `Popen` calls and the assignment of their results:
  there a process could be started and not known. v17's third write of a record is part of
  `Verify`.
- "Applied" in Campaign means that the manipulation took place and, for captures,
  that its traffic was captured.
- Ports: one campaign at a time, no alien program on the ports, no TIME_WAIT. The
  preflight's grep is for server programs; a client or tshark left over only makes
  a real preflight stricter.
- Verdict: one connection per client; any subset of its Hellos may be missing from
  the capture, but a client log that exists is complete. The key of an evaluated record
  is taken from its provenance, which it has. Each of the counted fields is
  kept; the counts that are only printed (unknown) are not.
- Audit: a regular expression is a mark that is found in an output or not.
- Rewrite: random values, cipher suites and key material are opaque fields; a
  padding is the least that aligns the packet, at least four bytes, as OpenSSH
  sends it. A record holds one handshake message (`strip_hybrid` would drop a
  second one in the same record), which is what clients send. A length is a number
  without a width: the transforms keep lengths or shorten them, so a length that fitted
  its field still does. A post-quantum key is a number that is not 0, and inverting its
  bytes is negation; all that counts is that it changes and that nothing else does.
- Package: the papers are one document, and so are the files of one helper program;
  names are triples of directory, run and suffix. Diagnostic directories
  (`v1.1-diagnose` and the like), which the marks in `excluded` also name, are never
  among the members.
- Survey: the HelloRetryRequest asks for an advertised group that was not shared, and
  the second ClientHello shares just that one. Provenance is reduced to the two
  lists, the label and whether the selection type is there. Two things classify
  depends on in the code, the name and its spelling, are one here.

Not modelled, and why:

- the regular expressions of `audit.py`, `v17.trace_audit` and `v17.verbose_audit`,
  and the metric parsers of `harness.py` other than `detect_hrr`: functions of a text
  without state or order, which unit tests reach well;
- the plain counters (`comparison`, `comparison_v11`, `aggregate`, `meets_minimum`),
  rendering and CSV output: one pass over finished records;
- hashing and provenance beyond the fields something is decided by;
- the comparison of group lists in `verify_applied.py`, which is abstracted to whether
  the manipulation took place;
- the build scripts and the helper clients and servers: external programs to the
  harness, whose possible behaviours the models already include.

## 8. Plan

Done: Proxy with Splice, Scenario, Campaign, Plans, Ports, Verdict and their proofs,
the core first; then the bytes (ClientHello, KexInit, Rewrite), Package, Survey, Audit
and the remaining proofs of Campaign; then the proofs of Survey, Plans and Package;
then the proofs of Rewrite, and of what a survey record of a complete capture says.

Next, in order of importance:

1. A composition of `Scenario` and `Proxy` in which the proxy's inside replaces the
   outside view, as a refinement.
2. The field `hrr_present` of v1.1, which comes from the client log alone
   (`docs/EVIDENCE.md:254` reports runs whose capture shows a retry that the field
   does not).
