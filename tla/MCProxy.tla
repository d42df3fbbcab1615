------------------------------- MODULE MCProxy ------------------------------
(***************************************************************************)
(* Sessions small enough to explore and rich enough to matter: a TLS       *)
(* handshake, a TLS handshake with a second ClientHello, an SSH handshake  *)
(* whose banner precedes KEXINIT and whose server sends a KEXINIT as well, *)
(* and a client that sends nothing.                                        *)
(***************************************************************************)
EXTENDS Proxy

Tls == [mutator |-> "forge_pq_component",
        client |-> <<"head", "tail", "other">>, server |-> <<"other">>]
TlsRetry == [mutator |-> "strip_hybrid",
             client |-> <<"head", "tail", "head", "tail">>,
             server |-> <<"other">>]
SshKexinit == [mutator |-> "strip_kexinit_algorithm",
               client |-> <<"other", "head", "tail", "other">>,
               server |-> <<"head", "tail">>]
SshInit == [mutator |-> "forge_ssh_pq_component",
            client |-> <<"other", "head", "tail">>, server |-> <<"other">>]
Mute == [mutator |-> "strip_hybrid", client |-> <<>>, server |-> <<"other">>]

MCSessions == {Tls, TlsRetry, SshKexinit, SshInit, Mute}
=============================================================================
