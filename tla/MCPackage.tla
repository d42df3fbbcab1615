------------------------------ MODULE MCPackage -----------------------------
(***************************************************************************)
(* The campaigns of docs/research/REPRODUCTION.md with their real numbers  *)
(* of repetitions.                                                         *)
(***************************************************************************)
EXTENDS Package

Settings == <<"S1", "S2", "S3">>
Servers15 == <<"openssl-S1", "openssl-S2", "openssl-S1-serverpref", "boringssl",
               "go", "nss", "rustls">>
DefaultClients == <<"openssl-3.5.5", "curl-system-openssl", "boringssl", "go", "nss", "rustls">>
RealServers == <<"nginx", "caddy">>
Candidates == <<"gnutls", "botan", "wolfssl", "mbedtls", "s2n-tls", "java", "node-openssl",
                "python-openssl">>
E8Servers == <<"openssl-S1", "openssl-S1-serverpref", "nss", "boringssl", "go">>

Campaign(runner, reps, rows, columns) ==
    [runner |-> runner, reps |-> reps, rows |-> rows, columns |-> columns,
     offer |-> "classical-first", inventory |-> FALSE]
V12Campaign(versions) == Campaign("v12", 10, versions, Settings)

Catalogue ==
    [d \in (UNION {DirsOf(p) : p \in DOMAIN Raw}) \cup {"smoke", "batch"} |->
     CASE d = "smoke" -> Campaign("smoke", 1, <<>>, <<>>)
       [] d = "batch" -> Campaign("batch", 10, <<>>, <<>>)
       [] d = "v1.1" -> Campaign("v11", 10, <<>>, <<>>)
       [] d = "v1.2" -> V12Campaign(<<"3.5.5", "3.5.6">>)
       [] d = "v1.3" -> V12Campaign(<<"3.5.5-cherrypick", "3.5.6-revert", "3.6.1", "3.6.2">>)
       [] d = "v1.4" -> [V12Campaign(<<"3.5.5", "3.5.6">>) EXCEPT !.offer = "hybrid-unshared"]
       [] d = "v1.5" -> Campaign("v15", 5, Servers15, <<>>)
       [] d = "v1.5-boringssl-latest" -> Campaign("v15", 3, <<"boringssl">>, <<>>)
       [] d \in {"v1.6", "v1.6-caddy-2.11.4"} -> Campaign("v16", 3, RealServers, DefaultClients)
       [] d = "v1.6-direct" -> Campaign("direct", 3, RealServers, DefaultClients)
       [] d = "v1.7" -> Campaign("v17", 3, <<>>, <<>>)
       [] d = "v1.7-openssl36" -> V12Campaign(<<"3.6.1-cherrypick", "3.6.2-revert">>)
       [] d = "v1.8" -> [Campaign("v18", 3, <<>>, Candidates) EXCEPT !.inventory = TRUE]
       [] d = "v1.8-e8" -> [Campaign("e8", 3, E8Servers, <<>>) EXCEPT !.inventory = TRUE]]

MCCampaigns == Catalogue
MCPackages == DOMAIN Raw
=============================================================================
