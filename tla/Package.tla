------------------------------- MODULE Package ------------------------------
(***************************************************************************)
(* The campaigns that fill the raw directories and the reproduction        *)
(* package made of them (tools/make_repro_package.py).                     *)
(*                                                                         *)
(* A runner walks its plan and leaves, run by run, the files run_scenario  *)
(* opens, the record last; it may stop anywhere.  build_zip collects what  *)
(* it finds, and verify_zip decides from names and minimum counts whether  *)
(* the package is the complete evidence of a milestone.  The counts are    *)
(* written down in one file, the plans in seven others.                    *)
(***************************************************************************)
EXTENDS Plans, FiniteSets, SequencesExt

CONSTANTS
    Campaigns,  \* directory -> [runner, reps, rows, columns, offer, inventory]:
                \* what is run into it, with the servers or versions (rows) and
                \* the clients or settings (columns) the runner is given
    Packages,   \* the packages that are built
    Unpackaged  \* directories no package is made of

VARIABLES
    package,   \* the package being prepared, or "none"
    filling,   \* the directory that is being filled; the package's others
               \* are complete
    walked,    \* runs whose record is evaluated
    files,     \* how many of its files the run under way has come past
    unlogged,  \* the mutator of the run under way changed nothing, so it has
               \* no proxy log
    missing,   \* documents that are absent from the checkout
    zip        \* the package file, as of the latest change: "none", "torn",
               \* "refused" or "verified"

vars == <<package, filling, walked, files, unlogged, missing, zip>>

\* The scenarios of a campaign, by the builder its runner calls.
BuiltPlan(c) ==
    CASE c.runner = "smoke"  -> SmokeSpecs
      [] c.runner = "batch"  -> BatchSpecs(c.reps)
      [] c.runner = "v11"    -> V11Specs(c.reps)
      [] c.runner = "v12"    -> V12Specs(c.reps, c.columns, c.rows, c.offer)
      [] c.runner = "v15"    -> V15Specs(c.reps, c.rows)
      [] c.runner = "v16"    -> V16Specs(c.reps, c.columns, c.rows)
      [] c.runner = "direct" -> V16DirectSpecs(c.reps, c.columns, c.rows)
      [] c.runner = "v17"    -> V17Specs(c.reps)
      [] c.runner = "v18"    -> V18Specs(c.reps, c.columns)
      [] c.runner = "e8"     -> E8Specs(c.reps, c.rows)

AllPlans == [dir \in DOMAIN Campaigns |-> BuiltPlan(Campaigns[dir])]
PlanOf(dir) == AllPlans[dir]

\* The lists are the keys of dictionaries or given on the command line, each
\* name once; the smoke test is one repetition.
Once(names) ==
    /\ names \in Seq(STRING)
    /\ \A i, j \in 1 .. Len(names) : names[i] = names[j] => i = j

ASSUME CampaignsAssumption ==
    \A dir \in DOMAIN Campaigns :
       /\ Campaigns[dir].runner \in
             {"smoke", "batch", "v11", "v12", "v15", "v16", "direct", "v17", "v18", "e8"}
       /\ Campaigns[dir].reps \in Nat
       /\ Campaigns[dir].runner = "smoke" => Campaigns[dir].reps = 1
       /\ Once(Campaigns[dir].rows) /\ Once(Campaigns[dir].columns)

-----------------------------------------------------------------------------
\* PACKAGES.  The scripts under tools/ and the logs beside the raw directories
\* go by their file names, the modules of tools/faultinject by theirs; the
\* three papers every package has are "docs".

Raw == [v11 |-> "v1.1", v12 |-> "v1.2", v13 |-> "v1.3", v14 |-> "v1.4",
        v15 |-> "v1.5", v16 |-> "v1.6", v17 |-> "v1.7", v18 |-> "v1.8"]

ExtraRaw(p) ==
    CASE p = "v16" -> {"v1.5-boringssl-latest", "v1.6-direct", "v1.6-caddy-2.11.4"}
      [] p = "v17" -> {"v1.7-openssl36"}
      [] p = "v18" -> {"v1.8-e8"}
      [] OTHER     -> {}

DirsOf(p) == {Raw[p]} \cup ExtraRaw(p)

Documents(p) == {"docs"} \cup
    CASE p = "v12" -> {"v12_a0_smoke.sh", "v12_build_openssl_356.sh", "v12_boringssl_survey.sh"}
      [] p = "v13" -> {"v12_build_openssl_356.sh", "v13_build_variants.sh", "v1.3-build.log"}
      [] p = "v15" -> {"v15_setup.sh", "goserver", "rustserver", "v1.5-setup.log"}
      [] p = "v16" -> {"v16_setup.sh", "goclient", "rustserver", "v1.6-setup.log", "nss-ubuntu-patches",
                       "v15_build_boringssl_latest.sh", "v15_run_boringssl_latest.sh",
                       "v16_run_direct_defaults.sh", "v16_run_caddy_2114.sh"}
      [] p = "v17" -> {"v17_setup.sh", "v13_build_variants.sh", "v1.7-setup.log", "v1.7-build36.log",
                       "v1.7-ldd36.log", "v1.7-tshark-version.log", "v1.7-tshark-verbose-audit.json"}
      [] p = "v18" -> {"v18_setup.sh", "v18_build_s2n.sh", "v18_build_s2n_awslc_recovery.sh",
                       "v18_run.sh", "v18_run_mbedtls.sh", "v18_run_s2n.sh", "v18_run_e8.sh",
                       "v18_run_e8_order.sh", "v18 clients"}
      [] OTHER     -> {}

Modules == {"run.py", "aggregate.py", "analyze.py", "audit.py", "pcap_hello.py",
            "v12.py", "v15.py", "v16.py", "v17.py", "v18.py"}

RequiredFiles(p) == {"docs"} \cup
    CASE p = "v11" -> {"run.py", "aggregate.py", "analyze.py"}
      [] p = "v12" -> {"v12.py", "pcap_hello.py", "audit.py", "analyze.py"}
      [] p = "v13" -> {"v12.py", "pcap_hello.py", "analyze.py", "v13_build_variants.sh"}
      [] p = "v14" -> {"v12.py", "pcap_hello.py", "analyze.py"}
      [] p = "v15" -> {"v15.py", "pcap_hello.py", "v15_setup.sh"}
      [] p = "v16" -> {"v16.py", "v15.py", "pcap_hello.py", "v16_setup.sh",
                       "v15_build_boringssl_latest.sh", "v15_run_boringssl_latest.sh",
                       "v16_run_direct_defaults.sh", "v16_run_caddy_2114.sh", "nss-ubuntu-patches"}
      [] p = "v17" -> {"v17.py", "v16.py", "v12.py", "analyze.py", "v17_setup.sh",
                       "v13_build_variants.sh", "v1.7-tshark-verbose-audit.json"}
      [] p = "v18" -> {"v18.py", "v16.py", "v15.py", "pcap_hello.py", "v18_setup.sh",
                       "v18_build_s2n.sh", "v18_run_e8_order.sh"}

\* The required artifacts: at least .minimum names that end in .suffix in .dir.
Need(dir, suffixes, minimum) == [dir : {dir}, suffix : suffixes, minimum : {minimum}]
Logs == {"client log", "server log", "capture log"}

Needs(p) ==
    CASE p = "v11" -> Need("v1.1", {"json", "pcap", "client log", "capture log"}, 90)
                      \cup Need("v1.1", {"proxy log"}, 30)
      [] p = "v12" -> Need("v1.2", {"json", "pcap"} \cup Logs, 60)
      [] p = "v13" -> Need("v1.3", {"json", "pcap"} \cup Logs, 120)
      [] p = "v14" -> Need("v1.4", {"json", "pcap"} \cup Logs, 60)
      [] p = "v15" -> Need("v1.5", {"json", "pcap"} \cup Logs, 105)
      [] p = "v16" -> Need("v1.6", {"json", "pcap"} \cup Logs, 36)
                      \cup Need("v1.5-boringssl-latest", {"json"}, 9)
                      \cup Need("v1.6-direct", {"json"}, 36)
                      \cup Need("v1.6-caddy-2.11.4", {"json"}, 36)
      [] p = "v17" -> Need("v1.7", {"json", "pcap"} \cup Logs, 15)
                      \cup Need("v1.7-openssl36", {"json", "pcap"}, 60)
      [] p = "v18" -> Need("v1.8", {"json"}, 25) \cup Need("v1.8", {"pcap"} \cup Logs, 24)
                      \cup Need("v1.8-e8", {"json"}, 16) \cup Need("v1.8-e8", {"pcap"}, 15)

\* The directories whose data a package must not contain, its diagnostics
\* aside: those of the milestones before it.
Excluded(p) ==
    LET before == [v11 |-> 0, v12 |-> 1, v13 |-> 2, v14 |-> 3, v15 |-> 4, v16 |-> 5, v17 |-> 6, v18 |-> 7]
        order  == <<"v1.1", "v1.2", "v1.3", "v1.4", "v1.5", "v1.6", "v1.7", "v1.8">>
    IN  {order[k] : k \in 1 .. before[p]}

-----------------------------------------------------------------------------
\* The raw directories.

\* The files of an evaluated run in the order run_scenario creates them; the
\* proxy's log comes from the mutate closure.
FilesOf(spec) ==
    IF spec.proxied
    THEN <<"server log", "capture log", "pcap", "proxy log", "client log", "json">>
    ELSE <<"server log", "capture log", "pcap", "client log", "json">>
Created(spec, m) == {FilesOf(spec)[i] : i \in 1 .. m}
AllFiles(spec) == Created(spec, Len(FilesOf(spec)))

\* What the run under way really has of its first m files: the closure opens
\* the log only for data it changed.
Present(spec, m) == Created(spec, m) \ (IF unlogged THEN {"proxy log"} ELSE {})

\* The names in a directory in which the first n runs are complete and the
\* next one has come past its first m files.
Artifacts(dir, k, suffixes) ==
    {[dir |-> dir, run |-> RunId(PlanOf(dir)[k]), suffix |-> x] : x \in suffixes}
Inventory(dir) == [dir |-> dir, run |-> <<"inventory">>, suffix |-> "json"]

Names(dir, n, m) ==
    (UNION {Artifacts(dir, k, AllFiles(PlanOf(dir)[k])) : k \in 1 .. n})
    \cup (IF m = 0 THEN {} ELSE Artifacts(dir, n + 1, Present(PlanOf(dir)[n + 1], m)))
    \cup (IF Campaigns[dir].inventory THEN {Inventory(dir)} ELSE {})

\* How many names with a suffix the finished campaign of a directory leaves.
Yield(dir, suffix) ==
    Cardinality({k \in 1 .. Len(PlanOf(dir)) : suffix \in AllFiles(PlanOf(dir)[k])})
    + (IF Campaigns[dir].inventory /\ suffix = "json" THEN 1 ELSE 0)

\* The minimum counts were written down for these plans: those of the records
\* are met by complete campaigns only, and complete campaigns meet all of them.
ASSUME PackageAssumption ==
    /\ Packages \subseteq DOMAIN Raw
    /\ Unpackaged \cup UNION {DirsOf(p) : p \in Packages} \subseteq DOMAIN Campaigns
    /\ \A p \in Packages :
          /\ \A need \in Needs(p) :
                need.dir \in DirsOf(p) /\ need.minimum \in 0 .. Yield(need.dir, need.suffix)
          /\ \A dir \in DirsOf(p) :
                \E need \in Needs(p) :
                   need.dir = dir /\ need.suffix = "json" /\ need.minimum >= Yield(dir, "json")

Init ==
    /\ \/ package \in Packages /\ filling \in DirsOf(package)
       \/ package = "none" /\ filling \in Unpackaged
    /\ walked = 0
    /\ files = 0
    /\ unlogged = FALSE
    /\ missing = {}
    /\ zip = "none"

\* run_scenario creates the next file of the run under way, or the mutator
\* has let every chunk pass unchanged and the proxy log does not come to be.
CreateFile ==
    /\ walked < Len(PlanOf(filling))
    /\ files < Len(FilesOf(PlanOf(filling)[walked + 1]))
    /\ files' = files + 1
    /\ \/ UNCHANGED unlogged
       \/ FilesOf(PlanOf(filling)[walked + 1])[files'] = "proxy log" /\ unlogged' = TRUE
    /\ zip' = "none"
    /\ UNCHANGED <<package, filling, walked, missing>>

\* The record is evaluated and rewritten; the runner goes on.  Without its
\* proxy log it is not: verify_condition and verify_binding read the file, the
\* FileNotFoundError ends run.py, and the campaign stays unfinished there.
Evaluate ==
    /\ walked < Len(PlanOf(filling))
    /\ files = Len(FilesOf(PlanOf(filling)[walked + 1]))
    /\ ~unlogged
    /\ walked' = walked + 1
    /\ files' = 0
    /\ zip' = "none"
    /\ UNCHANGED <<package, filling, unlogged, missing>>

\* A document is not in the checkout the package is built from.
LoseDocument ==
    /\ package # "none"
    /\ walked = Len(PlanOf(filling))
    /\ missing = {}
    /\ \E d \in Documents(package) : missing' = {d}
    /\ zip' = "none"
    /\ UNCHANGED <<package, filling, walked, files, unlogged>>

-----------------------------------------------------------------------------
\* build_zip and verify_zip.

\* What is collected: the raw directories, the modules, and the documents
\* that are there (member.is_file()).
RawNames ==
    UNION {IF dir = filling THEN Names(dir, walked, files)
           ELSE Names(dir, Len(PlanOf(dir)), 0) : dir \in DirsOf(package)}
OtherNames == Modules \cup (Documents(package) \ missing)

\* Mutant: the suffix is counted in the whole package.
CountEverywhere(need) == Cardinality({n \in RawNames : n.suffix = need.suffix})

Count(need) == Cardinality({n \in RawNames : n.dir = need.dir /\ n.suffix = need.suffix})

\* Mutant: more than the minimum.
VerifiesMore ==
    /\ RequiredFiles(package) \subseteq OtherNames
    /\ \A need \in Needs(package) : Count(need) > need.minimum
    /\ \A n \in RawNames : n.dir \notin Excluded(package)

Verifies ==
    /\ RequiredFiles(package) \subseteq OtherNames
    /\ \A need \in Needs(package) : Count(need) >= need.minimum
    /\ \A n \in RawNames : n.dir \notin Excluded(package)

Build ==
    /\ package # "none"
    /\ zip # "verified" /\ zip # "refused"
    /\ zip' = IF Verifies THEN "verified" ELSE "refused"
    /\ UNCHANGED <<package, filling, walked, files, unlogged, missing>>

\* The process dies while it writes the ZIP, in place of the earlier one.
BuildDies ==
    /\ package # "none"
    /\ zip # "torn"
    /\ zip' = "torn"
    /\ UNCHANGED <<package, filling, walked, files, unlogged, missing>>

Next == CreateFile \/ Evaluate \/ LoseDocument \/ Build \/ BuildDies

Spec == Init /\ [][Next]_vars

-----------------------------------------------------------------------------

Walked(k) == PlanOf(filling)[k]
HasJson(k) == k <= walked \/ (k = walked + 1 /\ files = Len(FilesOf(Walked(k))))

\* A campaign that walks to the end has run repetitions 1 to n, each once, of
\* every combination it has run at all: what the verdicts of analyze.py ask for,
\* and why no run writes over the artifacts of another, which run_scenario
\* names by this combination and repetition.
GridComplete ==
    walked = Len(PlanOf(filling)) =>
       \A i \in 1 .. walked : \A rep \in 1 .. Campaigns[filling].reps :
          Cardinality({j \in 1 .. walked :
             /\ Walked(j).rep = rep
             /\ \A f \in {"impl", "fault", "cond"} : Walked(j)[f] = Walked(i)[f]}) = 1

\* verify_zip looks at names and counts only; still, a package it accepts has
\* the record of every run of every plan and all required files, and all
\* records but perhaps the last one are evaluated.
VerifiedIsComplete ==
    zip = "verified" =>
       /\ \A k \in 1 .. Len(PlanOf(filling)) : HasJson(k)
       /\ missing \cap RequiredFiles(package) = {}

\* verify_zip's minimum counts, exclusions and required files ask for nothing
\* the runners and the documents' list do not provide: the package of finished
\* campaigns is accepted.  For v11 this rests on run.py not getting past a
\* proxied run that left no proxy log: verify_zip asks for a log of each, and
\* a campaign stopped there is refused although it has all its records.
CompleteIsVerified ==
    walked = Len(PlanOf(filling)) /\ missing = {} => zip # "refused"
=============================================================================
