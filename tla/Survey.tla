------------------------------- MODULE Survey -------------------------------
(***************************************************************************)
(* The capture-based campaigns: what evaluate_v15, evaluate_v16 and        *)
(* evaluate_v18 (tools/faultinject/v15.py, v16.py, v18.py) record of a TLS *)
(* connection, read back from a capture that may have lost frames, how     *)
(* v18 labels a client, what the reports count, and the reclassify tool    *)
(* that repairs the labels of earlier records.                             *)
(*                                                                         *)
(* Records lie in one directory, in the order glob sorts them.  A slot is  *)
(* one run: the campaign leaves a raw record, then the evaluated one.      *)
(***************************************************************************)
EXTENDS Integers, Sequences, FiniteSets, FiniteSetsExt, Functions

CONSTANTS
    Slots,       \* the runs of the directory, 1 .. n in sorted order
    FaultTypes,  \* the kinds of campaign considered
    Offers,      \* the ClientHellos met by each kind: [groups, shares] of codes
    Configs,     \* the labels of configured clients, of CLIENTS
    Older,       \* offers of records evaluated before classify knew the order
    MaxLost,     \* bound: frames lost by a capture that has some
    MaxDeaths    \* bound: reclassify runs that die of themselves

ASSUME SurveyAssumption ==
    /\ IsFiniteSet(Slots) /\ Slots = 1 .. Cardinality(Slots)
    /\ FaultTypes \subseteq {"negotiation-function", "client-default", "default-direct",
                             "server-software", "client-default-v18"}
    /\ \A offers \in {Offers[f] : f \in FaultTypes} \cup {Older} :
          offers \subseteq [groups : Seq(Nat), shares : Seq(Nat)]
    /\ \A offer \in Older : offer.shares # <<>>
    /\ MaxLost \in Nat /\ MaxDeaths \in Nat

VARIABLES
    fault,   \* the fault_type of the directory's records
    under,   \* the client label of every slot
    conn,    \* the connection each slot made
    pcap,    \* its capture: the file and the frames of the connection in it
    rec,     \* its record file
    todo,    \* the files reclassify has still to visit, the least one first
    repair,  \* "idle", "walking", "done" or "died"
    deaths   \* how often reclassify died of itself

vars == <<fault, under, conn, pcap, rec, todo, repair, deaths>>
campaign == <<under, conn, pcap>>

-----------------------------------------------------------------------------
(* The connection and its capture.                                         *)

None == -1
X25519 == 29
X25519MLKEM768 == 4588
Kyber == 25497

\* The groups the code names; every other code is printed in hexadecimal.
GROUP_NAMES ==
    [code \in {X25519, X25519MLKEM768, Kyber} |->
        CASE code = X25519 -> "X25519"
          [] code = X25519MLKEM768 -> "X25519MLKEM768"
          [] code = Kyber -> "X25519Kyber768Draft00"]

\* A printed group: a text, and the digits when it is hexadecimal.
NameOf(text) == [text |-> text, digits |-> 0]
NoName == NameOf("none")

group_name(code) ==
    IF code = None THEN NoName
    ELSE IF code \in DOMAIN GROUP_NAMES THEN NameOf(GROUP_NAMES[code])
    ELSE [text |-> "0x", digits |-> code]

Named(codes) == [i \in DOMAIN codes |-> group_name(codes[i])]

\* The values RFC 8701 reserves: two equal bytes ?a.
GREASE == {16 * x + 10 + 256 * (16 * x + 10) : x \in 0 .. 15}

\* A connection: the client's offer, the group of a HelloRetryRequest, the
\* group of the ServerHello, and how the client ended.  A server retries with
\* an advertised group that was not shared and answers with a shared one.
NoConnection == [groups |-> <<>>, shares |-> <<>>, retry |-> None, final |-> None, end |-> "failed"]

Connections(offer) ==
    {c \in [groups : {offer.groups}, shares : {offer.shares},
            retry : {None} \cup Range(offer.groups), final : {None} \cup Range(offer.groups),
            end : {"failed", "completed", "clean"}] :
        /\ {c.retry, c.final} \cap GREASE = {}
        /\ c.retry \notin Range(c.shares)
        /\ c.final # None => c.final \in IF c.retry # None THEN {c.retry} ELSE Range(c.shares)
        /\ c.final = None => c.end = "failed"
        /\ fault # "negotiation-function" => c.end # "completed"}

Client(groups, shares) == [by |-> "client", groups |-> groups, shares |-> shares]
RetryRequest(group) == [by |-> "server", hrr |-> TRUE, group |-> group]
ServerHello(group) == [by |-> "server", hrr |-> FALSE, group |-> group]

\* The Hellos of a connection, in order.
Wire(c) ==
    LET first  == Client(c.groups, c.shares)
        retry  == RetryRequest(c.retry)
        second == Client(c.groups, <<c.retry>>)
        answer == ServerHello(c.final)
    IN  CASE c.retry = None /\ c.final = None -> <<first>>
          [] c.retry = None /\ c.final # None -> <<first, answer>>
          [] c.retry # None /\ c.final = None -> <<first, retry, second>>
          [] c.retry # None /\ c.final # None -> <<first, retry, second, answer>>

\* A capture: no file, an empty file, a file without the connection, or one
\* with all but a few of its frames.
Captures(c) ==
    LET all == DOMAIN Wire(c)
    IN  [file : {"absent", "empty", "pcapng"}, frames : {{}}]
        \cup [file : {"pcapng"}, frames : {f \in SUBSET all : Cardinality(all \ f) <= MaxLost}]

\* summarize_hellos: the frames of the capture that hold a Hello of a side.
Hellos(s, by) == {k \in pcap[s].frames : Wire(conn[s])[k].by = by}
client_hellos(s) == Hellos(s, "client")
server_hellos(s) == Hellos(s, "server")

Retries(s) == {k \in server_hellos(s) : Wire(conn[s])[k].hrr}
RealHellos(s) == server_hellos(s) \ Retries(s)
hrr_count(s) == Cardinality(Retries(s))
server_hello_count(s) == Cardinality(RealHellos(s))

\* Mutant: the group of the last ServerHello or HelloRetryRequest.
FinalGroupOfAny(s) ==
    IF server_hellos(s) = {} THEN None ELSE Wire(conn[s])[Max(server_hellos(s))].group

\* The group of the last ServerHello.
final_group(s) ==
    IF RealHellos(s) = {} THEN None ELSE Wire(conn[s])[Max(RealHellos(s))].group

IsFile(s) == pcap[s].file # "absent"

-----------------------------------------------------------------------------
(* Evaluation.                                                             *)

\* The offers CLIENTS configures, by client label.
CLIENTS ==
    [C1 |-> [groups |-> <<X25519MLKEM768, X25519>>, shares |-> <<X25519MLKEM768>>],
     C2 |-> [groups |-> <<X25519MLKEM768, X25519>>, shares |-> <<X25519>>],
     C3 |-> [groups |-> <<X25519, X25519MLKEM768>>, shares |-> <<X25519>>]]

Configured == fault \in {"negotiation-function", "server-software"}
Labels == IF Configured THEN Configs ELSE {"default"}

NoOffer == [groups |-> <<>>, shares |-> <<>>]
OfferAt(s, k) == [groups |-> Wire(conn[s])[k].groups, shares |-> Wire(conn[s])[k].shares]

\* Mutant: the ClientHello the handshake ended with.
LastHello(s) ==
    IF client_hellos(s) = {} THEN NoOffer ELSE OfferAt(s, Max(client_hellos(s)))

\* The lists of the first ClientHello in the capture.
FirstHello(s) ==
    IF client_hellos(s) = {} THEN NoOffer ELSE OfferAt(s, Min(client_hellos(s)))

client_precondition_v15(s) == client_hellos(s) # {} /\ FirstHello(s) = CLIENTS[under[s]]

\* A marker, MLKEM or KYBER, in the name.
IsHybrid(name) == name.text \in {"X25519MLKEM768", "X25519Kyber768Draft00"}

classify(groups, shares) ==
    LET hybridFirst == groups # <<>> /\ IsHybrid(Head(groups))
        advertised == \E g \in Range(groups) : IsHybrid(g)
        sent == \E g \in Range(shares) : IsHybrid(g)
    IN  CASE groups = <<>> -> "unparsed"
          [] groups # <<>> /\ ~advertised -> "no-hybrid-advertisement"
          [] advertised /\ sent /\ hybridFirst -> "C1"
          [] advertised /\ sent /\ ~hybridFirst -> "noncanonical"
          [] advertised /\ ~sent /\ hybridFirst -> "C2"
          [] advertised /\ ~sent /\ ~hybridFirst -> "C3"

\* The label before the order was looked at.
ClassifyOlder(groups, shares) ==
    CASE classify(groups, shares) = "C3" -> "C2"
      [] classify(groups, shares) = "noncanonical" -> "C1"
      [] OTHER -> classify(groups, shares)

\* A record file.  Metrics not read from a capture keep what run_scenario left.
NoRecord ==
    [state |-> "none", pre |-> FALSE, hrr |-> "unknown", final |-> NoName, groups |-> <<>>,
     shares |-> <<>>, label |-> "none", typed |-> FALSE, result |-> "failure", detail |-> ""]
RawRecord(s) ==
    [NoRecord EXCEPT !.state = "raw", !.result = IF conn[s].end = "clean" THEN "success" ELSE "failure"]

\* The metrics all three evaluators take from a capture they read.
FromCapture(s) ==
    [rec[s] EXCEPT !.state = "evaluated",
                   !.hrr = IF hrr_count(s) > 0 THEN "yes" ELSE "no",
                   !.final = group_name(final_group(s))]
Lists(s, r) ==
    [r EXCEPT !.groups = Named(FirstHello(s).groups), !.shares = Named(FirstHello(s).shares)]

\* evaluate_v15 wants a capture with at least a byte in it.
evaluate_v15(s) ==
    LET read == IsFile(s) /\ pcap[s].file # "empty"
        r == IF read THEN FromCapture(s) ELSE [rec[s] EXCEPT !.state = "evaluated"]
    IN  [r EXCEPT !.pre = read /\ client_precondition_v15(s),
                  !.detail = IF conn[s].end = "failed" THEN "handshake-incomplete"
                             ELSE "handshake-completed"]

\* evaluate_v16 and evaluate_v18 want a file.
Read(s) == Lists(s, IF IsFile(s) THEN FromCapture(s) ELSE [rec[s] EXCEPT !.state = "evaluated"])

evaluate_v16(s) ==
    [Read(s) EXCEPT !.pre = IF fault = "server-software" THEN IsFile(s) /\ client_precondition_v15(s)
                            ELSE FirstHello(s).groups # <<>>]

evaluate_v18(s) ==
    LET r == Read(s)
    IN  [r EXCEPT !.pre = r.groups # <<>>,
                  !.result = IF IsFile(s) /\ server_hello_count(s) > 0 THEN "success" ELSE "failure",
                  !.label = classify(r.groups, r.shares),
                  !.typed = TRUE]

Evaluated(s) ==
    CASE fault = "negotiation-function" -> evaluate_v15(s)
      [] fault \in {"client-default", "default-direct", "server-software"} -> evaluate_v16(s)
      [] fault = "client-default-v18" -> evaluate_v18(s)

-----------------------------------------------------------------------------
(* The reports.  Each reads every record file; none of them survives a     *)
(* torn one.                                                               *)

WithState(state) == {s \in Slots : rec[s].state = state}

\* A printed code has four hexadecimal digits; this is the one of weight n.
Digit(name, n) == (name.digits \div n) % 16

\* Mutant: a class of decimal digits.
MatchesDecimal(name) ==
    /\ name.text = "0x" /\ name.digits < 65536
    /\ Digit(name, 4096) = Digit(name, 16) /\ Digit(name, 16) < 10
    /\ Digit(name, 256) = 10 /\ Digit(name, 1) = 10

\* re.fullmatch(r"0x([0-9a-f])a\1a", g)
Matches(name) ==
    /\ name.text = "0x" /\ name.digits < 65536
    /\ Digit(name, 4096) = Digit(name, 16)
    /\ Digit(name, 256) = 10 /\ Digit(name, 1) = 10

\* _grease: one label for the values a client draws at random.
Grease(names) == [i \in DOMAIN names |-> IF Matches(names[i]) THEN NameOf("GREASE") ELSE names[i]]

\* Mutant: what is not hybrid is classical.
BucketOrClassical(final) == IF final.text = "X25519MLKEM768" THEN "hybrid" ELSE "classical"

Bucket(final) ==
    CASE final.text = "X25519MLKEM768" -> "hybrid"
      [] final.text = "X25519" -> "classical"
      [] OTHER -> "other"

\* comparison_v15, and the server tables of render_v16: a row for each client.
RunsOf(client) == {s \in WithState("evaluated") : under[s] = client}
InBucket(client, bucket) == Cardinality({s \in RunsOf(client) : Bucket(rec[s].final) = bucket})

Tally(client) ==
    [n |-> Cardinality(RunsOf(client)),
     precondition |-> Cardinality({s \in RunsOf(client) : rec[s].pre}),
     completed |-> Cardinality({s \in RunsOf(client) : rec[s].detail = "handshake-completed"}),
     success |-> Cardinality({s \in RunsOf(client) : rec[s].result = "success"}),
     hrr |-> Cardinality({s \in RunsOf(client) : rec[s].hrr = "yes"}),
     hybrid |-> InBucket(client, "hybrid"),
     classical |-> InBucket(client, "classical"),
     other |-> InBucket(client, "other")]

\* The row that counts a run in the client survey of render_v16, and in the
\* table of render_v18.
RowV16(s) == <<under[s], Grease(rec[s].groups), Grease(rec[s].shares)>>
RowV18(s) == <<under[s], rec[s].label, rec[s].groups, rec[s].shares>>

\* A report appears: no file is torn, and no record without provenance is
\* met.  render_v16 passes over those.
Renders ==
    /\ WithState("torn") = {}
    /\ fault \in {"negotiation-function", "client-default-v18"} => WithState("raw") = {}

-----------------------------------------------------------------------------
(* The campaign.                                                           *)

\* A directory of v18 may hold records from before classify knew the order.
OlderRecord(offer) ==
    [NoRecord EXCEPT !.state = "evaluated", !.pre = TRUE, !.hrr = "no", !.result = "success",
                     !.final = group_name(Head(offer.shares)),
                     !.groups = Named(offer.groups), !.shares = Named(offer.shares),
                     !.label = ClassifyOlder(Named(offer.groups), Named(offer.shares))]
OlderConnection(offer) ==
    [groups |-> offer.groups, shares |-> offer.shares, retry |-> None,
     final |-> Head(offer.shares), end |-> "clean"]

Init ==
    /\ fault \in FaultTypes
    /\ under \in [Slots -> Labels]
    /\ \E old \in SUBSET Slots, offer \in [Slots -> Older] :
          /\ fault # "client-default-v18" => old = {}
          /\ conn = [s \in Slots |-> IF s \in old THEN OlderConnection(offer[s]) ELSE NoConnection]
          /\ pcap = [s \in Slots |-> IF s \in old THEN [file |-> "pcapng", frames |-> {1, 2}]
                                     ELSE [file |-> "absent", frames |-> {}]]
          /\ rec = [s \in Slots |-> IF s \in old THEN OlderRecord(offer[s]) ELSE NoRecord]
    /\ todo = {}
    /\ repair = "idle"
    /\ deaths = 0

\* run_scenario: one connection, captured in part, and its raw record.
Run(s) ==
    /\ rec[s].state = "none"
    /\ \A t \in Slots : t < s => rec[t].state \notin {"none", "raw"}
    /\ \E c \in UNION {Connections(offer) : offer \in Offers[fault]} :
          /\ conn' = [conn EXCEPT ![s] = c]
          /\ \E p \in Captures(c) : pcap' = [pcap EXCEPT ![s] = p]
    /\ rec' = [rec EXCEPT ![s] = RawRecord(s)']
    /\ UNCHANGED <<fault, under, todo, repair, deaths>>

Evaluate(s) ==
    /\ rec[s].state = "raw"
    /\ rec' = [rec EXCEPT ![s] = Evaluated(s)]
    /\ UNCHANGED <<fault, campaign, todo, repair, deaths>>

-----------------------------------------------------------------------------
(* reclassify.                                                             *)

\* glob("*.json") but for the inventory.
Files == {s \in Slots : rec[s].state # "none"}

\* The tool is for the directories of v18.  sorted(glob) is taken once, when
\* the walk starts.
Reclassify ==
    /\ repair # "walking"
    /\ fault = "client-default-v18"
    /\ repair' = "walking"
    /\ todo' = Files
    /\ UNCHANGED <<fault, campaign, rec, deaths>>

current(s) == classify(rec[s].groups, rec[s].shares)

\* Mutant: only a record without a label is repaired.
StaleWithoutLabel(s) == rec[s].label = "none"

Stale(s) == rec[s].label # current(s) \/ ~rec[s].typed

\* The records reclassify writes again.
Rewrites(s) == rec[s].state = "evaluated" /\ Stale(s)

\* The file at hand, and the end of the loop body for it.
At == Min(todo)
Advance ==
    /\ todo' = todo \ {At}
    /\ repair' = IF todo = {At} THEN "done" ELSE "walking"

\* Mutant: the walk waits at a record that needs no repair.
PassNothing ==
    /\ repair = "walking" /\ todo # {}
    /\ ~Stale(At)
    /\ UNCHANGED vars

\* A record that is right is passed.
Pass ==
    /\ repair = "walking" /\ todo # {}
    /\ rec[At].state = "evaluated" /\ ~Stale(At)
    /\ Advance
    /\ UNCHANGED <<fault, campaign, rec, deaths>>

Repair ==
    /\ repair = "walking" /\ todo # {}
    /\ Rewrites(At)
    /\ rec' = [rec EXCEPT ![At].label = current(At), ![At].typed = TRUE]
    /\ Advance
    /\ UNCHANGED <<fault, campaign, deaths>>

\* glob found nothing.
NothingToDo ==
    /\ repair = "walking" /\ todo = {}
    /\ repair' = "done"
    /\ UNCHANGED <<fault, campaign, rec, todo, deaths>>

\* from_json raises on a torn file, and the lists of a raw record are not there.
Raises ==
    /\ repair = "walking" /\ todo # {}
    /\ rec[At].state \in {"torn", "raw"}
    /\ repair' = "died"
    /\ todo' = {}
    /\ UNCHANGED <<fault, campaign, rec, deaths>>

\* The process dies; the file it was rewriting may be torn.
Die ==
    /\ repair = "walking"
    /\ deaths < MaxDeaths
    /\ deaths' = deaths + 1
    /\ repair' = "died"
    /\ todo' = {}
    /\ \/ UNCHANGED rec
       \/ /\ todo # {} /\ Rewrites(At)
          /\ rec' = [rec EXCEPT ![At].state = "torn"]
    /\ UNCHANGED <<fault, campaign>>

Step == Pass \/ Repair \/ NothingToDo \/ Raises
Next == (\E s \in Slots : Run(s) \/ Evaluate(s)) \/ Reclassify \/ Step \/ Die

\* reclassify is a loop without waiting; the campaign may stop at any time.
Spec == Init /\ [][Next]_vars /\ WF_vars(Step)

-----------------------------------------------------------------------------
(* Properties.                                                             *)

\* The groups with a post-quantum part, named by the code or not.
HybridCodes == {4587, X25519MLKEM768, 4589, Kyber}
HybridIn(codes) == Range(codes) \cap HybridCodes # {}

\* The first group is a hybrid; a server passes over GREASE values.
HybridFirst(codes) ==
    \E i \in DOMAIN codes : /\ codes[i] \in HybridCodes
                            /\ \A j \in DOMAIN codes : j < i => codes[j] \in GREASE

\* A client's class, from the connection itself.
TrueClass(c) ==
    CASE ~HybridIn(c.groups) -> "no-hybrid-advertisement"
      [] HybridIn(c.groups) /\ HybridIn(c.shares) ->
            IF HybridFirst(c.groups) THEN "C1" ELSE "noncanonical"
      [] HybridIn(c.groups) /\ ~HybridIn(c.shares) ->
            IF HybridFirst(c.groups) THEN "C2" ELSE "C3"

FirstCaptured(s) == 1 \in pcap[s].frames
Retried(s) == conn[s].retry # None
SentConfigured(s) ==
    \E h \in Range(Wire(conn[s])) : h = Client(CLIENTS[under[s]].groups, CLIENTS[under[s]].shares)

Unnamed(c) ==
    \E g \in Range(c.groups) \cup Range(c.shares) : g \in HybridCodes \ DOMAIN GROUP_NAMES
GreaseFirst(c) == c.groups # <<>> /\ Head(c.groups) \in GREASE

\* Whatever frames the capture lost, a record claims nothing that did not
\* happen: a final group is the one the server answered with, not the one it
\* asked to retry with; a retry it saw took place; a success of v18 had a
\* ServerHello; and a precondition that verified is the offer of a
\* ClientHello the client sent.  (evaluate_v15, _v16, _v18, summarize_hellos)
NothingInvented ==
    \A s \in WithState("evaluated") :
        /\ rec[s].final # NoName => rec[s].final = group_name(conn[s].final)
        /\ rec[s].hrr = "yes" => Retried(s)
        /\ rec[s].result = "success" => conn[s].final # None
        /\ Configured /\ rec[s].pre => SentConfigured(s)

\* Three ways to a wrong class, and no other: the first ClientHello of a
\* retried connection is not in the capture, so that the second one is read
\* in its place; the offer holds a hybrid the code has no name for; or a
\* GREASE value stands before the groups, which classify, unlike the tables
\* of v16, takes for the client's first choice.  Nothing captured is
\* "unparsed", never a class.  (evaluate_v18, classify)
WrongClassOnlyBy ==
    \A s \in WithState("evaluated") :
        /\ fault = "client-default-v18" /\ rec[s].typed
        /\ rec[s].label \notin {"unparsed", TrueClass(conn[s])}
        => \/ Retried(s) /\ ~FirstCaptured(s)
           \/ Unnamed(conn[s])
           \/ GreaseFirst(conn[s])

\* When reclassify has ended by itself, every record in the directory carries
\* the class its ClientHello gives under the present rule, records written
\* before it and those evaluated during the walk alike, whatever earlier
\* walks died.  (reclassify, v18.py)
LabelsRepaired ==
    repair = "done" =>
        \A s \in WithState("evaluated") :
            rec[s].label = classify(Named(FirstHello(s).groups), Named(FirstHello(s).shares))

\* A table row accounts for each run once, and no column exceeds what the
\* connections did: the group each server answered with, the retries, the
\* handshakes that came to an end, the answers, and for a configured client
\* the configured ClientHellos that were sent.  (comparison_v15, render_v16)
CountsSound ==
    Renders => \A client \in Labels :
        LET row == Tally(client)
            mine == {s \in Slots : under[s] = client}
        IN  /\ row.hybrid + row.classical + row.other = row.n
            /\ row.hybrid <= Cardinality({s \in mine : conn[s].final = X25519MLKEM768})
            /\ row.classical <= Cardinality({s \in mine : conn[s].final = X25519})
            /\ row.hrr <= Cardinality({s \in mine : Retried(s)})
            /\ row.completed <= Cardinality({s \in mine : conn[s].end # "failed"})
            /\ row.success <= Cardinality({s \in mine : conn[s].final # None})
            /\ row.precondition <= Cardinality({s \in mine : Configured => SentConfigured(s)})

Ungreased(codes) == [i \in DOMAIN codes |-> IF codes[i] \in GREASE THEN None ELSE codes[i]]

\* One row for one offer, among the runs whose first ClientHello was
\* captured: two of them share a row of the v16 survey exactly when they are
\* of one client and their first ClientHellos differ at most in the GREASE
\* values; and a row of v18, once reclassify is through, exactly when they are
\* of one client and the offers are equal, so that no row is split by a label
\* of the earlier rule.  (_grease, render_v16, render_v18, reclassify)
OneRowPerOffer ==
    Renders => \A s, t \in {u \in WithState("evaluated") : FirstCaptured(u)} :
        /\ fault = "client-default" =>
              (RowV16(s) = RowV16(t) <=> /\ under[s] = under[t]
                                         /\ Ungreased(conn[s].groups) = Ungreased(conn[t].groups)
                                         /\ Ungreased(conn[s].shares) = Ungreased(conn[t].shares))
        /\ fault = "client-default-v18" /\ repair = "done" =>
              (RowV18(s) = RowV18(t) <=> /\ under[s] = under[t]
                                         /\ conn[s].groups = conn[t].groups
                                         /\ conn[s].shares = conn[t].shares)

\* Every walk of reclassify ends, by itself or with an exception, whatever it
\* meets in the directory: raw and torn records, records that are right,
\* records the campaign adds beside it.  (reclassify, v18.py)
WalkEnds == (repair = "walking") ~> (repair # "walking")

\* The head of v18.py: "A client is C2 only when it advertises a hybrid group
\* but its first ClientHello has no hybrid key share."  Table 1 of
\* docs/PAPER.en.md says the same of C3: "Classical only".  So a client that
\* v18 puts in either class sent no hybrid key share.
OmitsHybridShare ==
    \A s \in WithState("evaluated") :
        /\ fault = "client-default-v18" /\ FirstCaptured(s)
        /\ rec[s].label \in {"C2", "C3"}
        => ~HybridIn(conn[s].shares)

=============================================================================
