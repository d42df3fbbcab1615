------------------------------- MODULE MCPorts ------------------------------
(***************************************************************************)
(* Runners without and with a check of their ports, on shared ports.       *)
(***************************************************************************)
EXTENDS Ports

\* HYGIENE_PORTS and the servers of _RESIDUAL_PATTERN of v12.
HygienePorts == {8543, 8544, 2323, 9543, 9544, 9555, V12Port}
ResidualServers == {"openssl", "boringssl", "openssh"}

Unchecked(plan) == [plan |-> plan, checked |-> {}, sought |-> {}]
OnePort(plan) == [plan |-> plan, checked |-> {V12Port}, sought |-> {}]
Hygienic(plan) == [plan |-> plan, checked |-> HygienePorts, sought |-> ResidualServers]

\* OpenSSL runs of run.py --v11, whose preflight looks at no port; a small v12;
\* and the E8 runs of v18, which like v15 to v17 looks at its one port.
Rivals ==
    [v11 |-> Unchecked(<<ConditionSpec("openssl", "base", 1),
                         StripSpec("openssl", 1), StripSpec("openssl", 2)>>),
     v12 |-> Hygienic(V12Specs(1, <<"S1", "S3">>, <<"3.5.5">>, "classical-first")),
     e8  |-> OnePort(E8Specs(1, <<"openssl-S1", "nss">>))]
MCRivals == Rivals
=============================================================================
