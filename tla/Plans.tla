-------------------------------- MODULE Plans -------------------------------
(***************************************************************************)
(* The scenario builders: which ScenarioSpecs each runner walks through,   *)
(* in which order, on which ports and with which client offer.             *)
(*                                                                         *)
(* Of a ScenarioSpec is kept what the run identifier is made of, the port  *)
(* the server is started on (serve), the port the client is pointed at     *)
(* (dial), whether a proxy sits between them, the server program, and what *)
(* the client's -groups/-curves/KexAlgorithms argument makes it offer.     *)
(***************************************************************************)
EXTENDS Integers, Sequences

\* A client offers the hybrid before or after the classical group, or first
\* but without a key share for it ("*X25519"), or only one of them, or what
\* its library does by default.
Offers == {"hybrid-first", "classical-first", "hybrid-unshared",
           "classical-only", "hybrid-only", "default"}

Direct(impl, fault, cond, rep, port, server, offer) ==
    [impl |-> impl, fault |-> fault, cond |-> cond, rep |-> rep,
     dial |-> port, serve |-> port, proxied |-> FALSE,
     server |-> server, offer |-> offer]

\* The nested loops of the builders: m specs for each element of s, or for
\* each of n repetitions, in one sequence.
ForEach(s, m, Specs(_)) ==
    [k \in 1 .. Len(s) * m |-> Specs(s[((k - 1) \div m) + 1])[((k - 1) % m) + 1]]
Repeat(n, m, Specs(_)) ==
    [k \in 1 .. n * m |-> Specs(((k - 1) \div m) + 1)[((k - 1) % m) + 1]]

-----------------------------------------------------------------------------
(***************************************************************************)
(* run.py: the smoke test, the batch of phase 4 and the v1.1 conditions.   *)
(***************************************************************************)

Implementations == <<"openssl", "boringssl", "openssh">>

GroupListSpec(impl, rep) ==
    LET port == [openssl |-> 8443, boringssl |-> 8444, openssh |-> 2223]
    IN  Direct(impl, "group-list", "default", rep, port[impl], impl, "classical-only")

BindingSpec(impl, rep) ==
    LET serve == [openssl |-> 8445, boringssl |-> 8446, openssh |-> 2224]
        dial  == [openssl |-> 9443, boringssl |-> 9444, openssh |-> 2225]
    IN  [Direct(impl, "binding", "default", rep, serve[impl], impl, "hybrid-only")
            EXCEPT !.dial = dial[impl], !.proxied = TRUE]

ConditionSpec(impl, cond, rep) ==
    LET port == [openssl |-> 8543, boringssl |-> 8544, openssh |-> 2323]
    IN  Direct(impl, "condition", cond, rep, port[impl], impl,
               IF cond = "silent-downgrade" THEN "classical-first" ELSE "hybrid-first")

\* _strip_spec: the base condition with a proxy in front of its server and the
\* client's port argument replaced.
StripSpec(impl, rep) ==
    LET dial == [openssl |-> 9543, boringssl |-> 9544, openssh |-> 9555]
    IN  [ConditionSpec(impl, "base", rep)
            EXCEPT !.cond = "onpath-strip", !.dial = dial[impl], !.proxied = TRUE]

SmokeSpecs == [k \in 1 .. 3 |-> GroupListSpec(Implementations[k], 1)]
           \o [k \in 1 .. 3 |-> BindingSpec(Implementations[k], 1)]

BatchSpecs(n) ==
    LET One(rep) ==
          LET Both(impl) == <<GroupListSpec(impl, rep), BindingSpec(impl, rep)>>
          IN  ForEach(Implementations, 2, Both)
    IN  Repeat(n, 6, One)

\* The three runs of an implementation in one repetition; ssh-order is run
\* with the commands of base.
V11Row(impl, rep) ==
    << ConditionSpec(impl, "base", rep),
       ConditionSpec(impl, IF impl = "openssh" THEN "ssh-order" ELSE "silent-downgrade", rep),
       StripSpec(impl, rep) >>

V11Specs(n) ==
    LET One(rep) ==
          LET Row(impl) == V11Row(impl, rep)
          IN  ForEach(Implementations, 3, Row)
    IN  Repeat(n, 9, One)

-----------------------------------------------------------------------------
(***************************************************************************)
(* v12 to v18: one server port, no proxy.                                  *)
(***************************************************************************)

V12Port == 8545

V12Spec(version, setting, rep, offer) ==
    Direct("openssl", "server-setting", <<version, setting>>, rep, V12Port, "openssl", offer)

V12Specs(n, settings, versions, offer) ==
    LET One(rep) ==
          LET Version(v) == [k \in DOMAIN settings |-> V12Spec(v, settings[k], rep, offer)]
          IN  ForEach(versions, Len(settings), Version)
    IN  Repeat(n, Len(versions) * Len(settings), One)

\* C1, C2 and C3 of v15.CLIENTS.
Clients == <<"hybrid-first", "hybrid-unshared", "classical-first">>

\* The program behind each label of v15.SERVERS.
Program(server) ==
    IF server \in {"openssl-S1", "openssl-S2", "openssl-S1-serverpref"}
    THEN "openssl" ELSE server

V15Spec(server, client, rep) ==
    Direct("openssl", "negotiation-function", <<server, client>>, rep, V12Port,
           Program(server), client)

V15Specs(n, servers) ==
    LET One(rep) ==
          LET Server(s) == [k \in DOMAIN Clients |-> V15Spec(s, Clients[k], rep)]
          IN  ForEach(servers, 3, Server)
    IN  Repeat(n, 3 * Len(servers), One)

SurveySpec(client, rep) ==
    Direct("openssl", "client-default", client, rep, V12Port, "openssl", "default")

ServerSpec(server, client, rep) ==
    Direct("openssl", "server-software", <<server, client>>, rep, V12Port, server, client)

DirectSpec(server, client, rep) ==
    Direct("openssl", "default-direct", <<server, client>>, rep, V12Port, server, "default")

V16Specs(n, clients, servers) ==
    LET Survey(rep) == [k \in DOMAIN clients |-> SurveySpec(clients[k], rep)]
        Software(rep) ==
          LET Server(s) == [k \in DOMAIN Clients |-> ServerSpec(s, Clients[k], rep)]
          IN  ForEach(servers, 3, Server)
    IN  Repeat(n, Len(clients), Survey) \o Repeat(n, 3 * Len(servers), Software)

V16DirectSpecs(n, clients, servers) ==
    LET One(rep) ==
          LET Server(s) == [k \in DOMAIN clients |-> DirectSpec(s, clients[k], rep)]
          IN  ForEach(servers, Len(clients), Server)
    IN  Repeat(n, Len(clients) * Len(servers), One)

BrowserSpec(browser, rep) == SurveySpec(browser, rep)

TraceSpec(version, setting, rep) ==
    [V12Spec(version, setting, rep, "classical-first") EXCEPT !.fault = "server-setting-trace"]

\* run_browsers, then run_trace, into one directory.
V17Specs(n) ==
    LET Browsers(rep) == <<BrowserSpec("chrome", rep), BrowserSpec("firefox", rep)>>
        Trace(rep) == << TraceSpec("3.5.5", "S1", rep), TraceSpec("3.5.5", "S3", rep),
                         TraceSpec("3.5.6", "S3", rep) >>
    IN  Repeat(n, 2, Browsers) \o Repeat(n, 3, Trace)

CandidateSpec(client, rep) ==
    Direct("openssl", "client-default-v18", client, rep, V12Port, "openssl", "default")

\* Mutant: range(repetitions) counts from zero.
V18SpecsFromZero(n, clients) ==
    LET One(rep) == [k \in DOMAIN clients |-> CandidateSpec(clients[k], rep - 1)]
    IN  Repeat(n, Len(clients), One)

V18Specs(n, clients) ==
    LET One(rep) == [k \in DOMAIN clients |-> CandidateSpec(clients[k], rep)]
    IN  Repeat(n, Len(clients), One)

E8Spec(server, rep) ==
    Direct("openssl", "actual-client-e8", <<server, "botan">>, rep, V12Port,
           Program(server), "default")

E8Specs(n, servers) ==
    LET One(rep) == [k \in DOMAIN servers |-> E8Spec(servers[k], rep)]
    IN  Repeat(n, Len(servers), One)

-----------------------------------------------------------------------------

\* run_id: the name of every artifact of a run.  Its parts are joined with
\* underscores, which no part contains; the zero-padded r01 keeps numbers apart.
RunId(s) == <<s.impl, s.fault, s.rep, s.cond>>

\* What decides manipulation_verified: verify_record's dispatch, and the
\* capture for everything the evaluate functions look at.
EvidenceOf(s) ==
    CASE s.fault = "condition" /\ s.cond = "silent-downgrade" -> "pcap"
      [] s.fault = "condition" /\ s.cond = "onpath-strip"     -> "log"
      [] s.fault = "condition"
            /\ s.cond \notin {"silent-downgrade", "onpath-strip"} -> "none"
      [] s.fault = "binding"                                  -> "log"
      [] s.fault = "group-list" /\ s.impl = "openssh"         -> "output"
      [] OTHER                                                -> "pcap"
=============================================================================
