------------------------------ MODULE MCVerdict -----------------------------
(***************************************************************************)
(* The combination that tells the servers apart, on one server of each     *)
(* kind, with two repetitions asked for and up to three in the directory.  *)
(***************************************************************************)
EXTENDS Verdict

Matrix == ExpectedMatrix({"3.5.5"}, {"3.5.6"})
Keys == {<<"3.5.5", "S3">>, <<"3.5.6", "S3">>}
S3Only == [key \in Keys |-> Matrix[key]]
MCExpected == S3Only

Run(key, rep) == [fault |-> "server-setting", key |-> key, rep |-> rep]
Trace(key, rep) == [fault |-> "server-setting-trace", key |-> key, rep |-> rep]
Directory == << Run(<<"3.5.5", "S3">>, 1), Run(<<"3.5.6", "S3">>, 1),
                Run(<<"3.5.5", "S3">>, 2), Run(<<"3.5.6", "S3">>, 2),
                Run(<<"3.5.5", "S3">>, 3), Trace(<<"3.5.5", "S3">>, 1) >>
MCSlots == Directory

Both == {Classical, Hybrid}
ClientHello(share) == [from |-> "client", groups |-> Both, shares |-> <<share>>]
ServerHello(group) == [from |-> "server", hrr |-> FALSE, group |-> group]
Retry(group) == [from |-> "server", hrr |-> TRUE, group |-> group]

Straight == <<ClientHello(Classical), ServerHello(Classical)>>
Retried == <<ClientHello(Classical), Retry(Hybrid), ClientHello(Hybrid), ServerHello(Hybrid)>>
HybridFirst == <<ClientHello(Hybrid), ServerHello(Hybrid)>>
RetriedDown == <<ClientHello(Hybrid), Retry(Classical), ClientHello(Classical),
                 ServerHello(Classical)>>

\* The marks of the -msg runs: the client log names the group negotiated,
\* the server log the groups offered.
SplitMarks == [client_log |-> {"negotiated"}, server_log |-> {"advertised"},
               tshark_summary |-> {}]
BothInCapture == [client_log |-> {"negotiated"}, server_log |-> {},
                  tshark_summary |-> {"advertised", "negotiated", "warning"}]

Seen(hellos, captured) ==
    [hellos |-> hellos, captured |-> captured, pcap |-> TRUE, log |-> TRUE,
     success |-> TRUE, others |-> TRUE, hashed |-> TRUE, marks |-> SplitMarks]

Sightings ==
    { Seen(Straight, {1, 2}), [Seen(Retried, {1, 2, 3, 4}) EXCEPT !.marks = BothInCapture],
      Seen(Straight, {1}), Seen(Retried, {1, 4}), Seen(Retried, {1, 2, 3}),
      Seen(RetriedDown, {3, 4}),
      [Seen(Straight, {1, 2}) EXCEPT !.pcap = FALSE, !.marks = BothInCapture],
      [Seen(HybridFirst, {1, 2}) EXCEPT !.success = FALSE, !.pcap = FALSE, !.log = FALSE,
                                        !.others = FALSE] }
MCObservations == Sightings
=============================================================================
