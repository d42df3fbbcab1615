------------------------------- MODULE Rewrite ------------------------------
(***************************************************************************)
(* One message of a handshake on its way through the tools: it is read     *)
(* from a socket, whole or in part and with more bytes behind it, the      *)
(* on-path proxy's mutate closure rewrites it, and the capture parser      *)
(* reads what went on.  Modules Mutators and Verdict take for granted what *)
(* is checked here about single bytes and lengths.                         *)
(***************************************************************************)
EXTENDS KexInit

CONSTANTS
    ClientHellos,  \* [groups, shares, order, sid], a share [group, size, key]
    ServerHellos,  \* [hrr, group, order, sid]
    KexLists,      \* key exchange name-lists of a KEXINIT
    Blobs,         \* sizes of the public value of a KEX_ECDH_INIT
    Behind         \* bytes that follow the message in the same recv

\* What a client sends: no extension twice, no two key shares of one group
\* (RFC 8446, sections 4.2 and 4.2.8).  A key is a number that inverting its
\* bytes changes.
KeyShares == [group : Nat, size : Nat, key : Int \ {0}]
Hellos == {hello \in [groups : Seq(Nat), shares : Seq(KeyShares),
                      order : Seq({0, TLS_SUPPORTED_GROUPS, TLS_KEY_SHARE}), sid : Nat] :
             /\ \A j, k \in DOMAIN hello.order :
                   hello.order[j] = hello.order[k] /\ hello.order[j] # 0 => j = k
             /\ \A j, k \in DOMAIN hello.shares :
                   hello.shares[j].group = hello.shares[k].group => j = k}
ASSUME ClientHellosAreHellos == ClientHellos \subseteq Hellos
ASSUME ServerHellosAreHellos ==
    ServerHellos \subseteq [hrr : BOOLEAN, group : Nat, order : Seq({0, TLS_KEY_SHARE}), sid : Nat]
ASSUME KexListsAreNames == KexLists \subseteq Seq(DOMAIN NameBytes)
ASSUME SizesAreNumbers == Blobs \subseteq Nat /\ Behind \subseteq Nat

VARIABLES
    op,       \* the transform the proxy was given, "none" for the server's bytes
    hybrid,   \* the group or algorithm it is for
    msg,      \* the message the peer sent
    cut,      \* how much of it this recv returned: all, all but the last
              \* field, or only its first fields
    behind,   \* bytes behind it in the same buffer
    stage,    \* "sent", "relayed", "captured"
    relayed,  \* what the proxy sends on
    seen      \* what the parser reads back

vars == <<op, hybrid, msg, cut, behind, stage, relayed, seen>>

Message == CASE op \in {"strip_hybrid", "forge_pq_component"} -> EncodeClientHello(msg)
             [] op = "none"                    -> EncodeServerHello(msg)
             [] op = "strip_kexinit_algorithm" -> EncodeKexInit(msg)
             [] op = "forge_ssh_pq_component"  -> EncodeEcdhInit(msg, hybrid)

\* The buffer a recv returns around w.
Around(w) == CASE cut = "whole"  -> w \o Opaque("behind", behind)
               [] cut = "last"   -> SubSeq(w, 1, Len(w) - 1)
               [] cut = "header" -> SubSeq(w, 1, 3)

Init ==
    /\ \/ /\ op \in {"strip_hybrid", "forge_pq_component"}
          /\ hybrid \in DOMAIN PQ_COMPONENTS
          /\ msg \in ClientHellos
       \/ op = "none" /\ hybrid = 0 /\ msg \in ServerHellos
       \/ op = "strip_kexinit_algorithm" /\ hybrid = HybridKex /\ msg \in KexLists
       \/ op = "forge_ssh_pq_component" /\ hybrid = HybridKex /\ msg \in Blobs
    /\ cut \in {"whole", "last", "header"}
    /\ behind \in Behind
    /\ cut # "whole" => behind = 0
    /\ stage = "sent"
    /\ relayed = <<>>
    /\ seen = Raised

\* The transform of the scenario: mutate of _strip_spec strips, the one
\* binding_spec gives to _logged_mutator forges.
Transform(data) ==
    CASE op = "strip_hybrid"            -> StripHybrid(data, hybrid)
      [] op = "forge_pq_component"      -> ForgePqComponent(data, hybrid)
      [] op = "strip_kexinit_algorithm" -> StripKexinitAlgorithm(data, hybrid)
      [] op = "forge_ssh_pq_component"  -> ForgeSshPqComponent(data)
      [] op = "none"                    -> Returned(data)

\* mutate(data): a ValueError of the transform returns data.
Mutate(data) == IF Transform(data).ok THEN Transform(data).value ELSE data

Relay ==
    /\ stage = "sent"
    /\ relayed' = Mutate(Around(Message))
    /\ stage' = "relayed"
    /\ UNCHANGED <<op, hybrid, msg, cut, behind, seen>>

\* summarize_hellos on the record, or kexinit_algorithms on the packet.
Parsed(data) ==
    IF Size(data) < 6 THEN Raised
    ELSE CASE op \in {"strip_hybrid", "forge_pq_component"} -> ReadClientHello(data)
           [] op = "none"                    -> ReadServerHello(data)
           [] op = "strip_kexinit_algorithm" -> KexinitAlgorithms(data)
           [] op = "forge_ssh_pq_component"  -> Raised

Capture ==
    /\ stage = "relayed"
    /\ seen' = Parsed(relayed)
    /\ stage' = "captured"
    /\ UNCHANGED <<op, hybrid, msg, cut, behind, relayed>>

Next == Relay \/ Capture

Spec == Init /\ [][Next]_vars

-----------------------------------------------------------------------------

\* The message of a client that does not know the group, and that of one whose
\* key share for it has an inverted post-quantum key.
WithoutGroup(hello, group) ==
    [hello EXCEPT
        !.groups = Kept(hello.groups, {k \in DOMAIN hello.groups : hello.groups[k] # group}),
        !.shares = Kept(hello.shares, {k \in DOMAIN hello.shares : hello.shares[k].group # group})]
WithForged(hello, group) ==
    [hello EXCEPT
        !.shares = [k \in DOMAIN hello.shares |->
                      [hello.shares[k] EXCEPT !.key = IF hello.shares[k].group = group THEN 0 - @ ELSE @]]]
WithoutName(names, name) == Kept(names, {k \in DOMAIN names : names[k] # name})

\* strip_hybrid, with its five nested lengths: the record sent on is byte for
\* byte the one a client sends that never knew the hybrid, and what followed
\* it in the buffer follows it still.
StripIsReencoding ==
    stage # "sent" /\ op = "strip_hybrid" /\ cut = "whole"
    => relayed = Around(EncodeClientHello(WithoutGroup(msg, hybrid)))

\* strip_kexinit_algorithm: list and packet length cover the shortened list,
\* and every other byte of the packet is the client's; unlike strip_hybrid it
\* loses what followed the packet in the buffer.
KexListShortened ==
    stage # "sent" /\ op = "strip_kexinit_algorithm" /\ cut = "whole" /\ WithoutName(msg, hybrid) # msg
    => relayed = Packet(KexInitPayload(WithoutName(msg, hybrid)),
                        Opaque("padding", Padding(KexInitPayload(msg))))

\* The forgers invert the post-quantum public key of the hybrid and not one
\* byte of the classical key beside it, of another share or of a length.
ForgeInvertsOnlyPq ==
    stage # "sent" /\ relayed # Around(Message) =>
      /\ op = "forge_pq_component" => relayed = Around(EncodeClientHello(WithForged(msg, hybrid)))
      /\ op = "forge_ssh_pq_component" => relayed = Around(EncodeEcdhInit(msg, 0 - hybrid))

\* The groups and key shares a hello carries.
Listed(hello) == IF TLS_SUPPORTED_GROUPS \in ToSet(hello.order) THEN hello.groups ELSE <<>>
Shared(hello) == IF TLS_KEY_SHARE \in ToSet(hello.order) THEN hello.shares ELSE <<>>

\* The manipulation the message allows: it is complete, and offers the hybrid.
Applicable ==
    /\ cut = "whole"
    /\ \/ op = "strip_hybrid" /\ hybrid \in ToSet(Listed(msg))
       \/ op = "strip_hybrid" /\ \E s \in ToSet(Shared(msg)) : s.group = hybrid
       \/ op = "forge_pq_component" /\ \E s \in ToSet(Shared(msg)) : s.group = hybrid /\ Hybrid(s)
       \/ op = "strip_kexinit_algorithm" /\ hybrid \in ToSet(msg)
       \/ op = "forge_ssh_pq_component" /\ msg >= SNTRUP761_PUBLICKEY_BYTES + X25519_BYTES

\* The proxy logs a manipulation when transformed # data, and that line is the
\* evidence of the record: it appears exactly when the hybrid was there to be
\* manipulated, never for a message that arrived in part.
ChangedIffApplicable ==
    stage # "sent" => (relayed # Around(Message) <=> Applicable)

\* The capture parser, walking the same bytes on its own, reads back what the
\* peers put on the wire: the offer left after the proxy, the server's choice.
CaptureReadsWire ==
    stage = "captured" /\ cut = "whole" =>
      CASE op \in {"strip_hybrid", "forge_pq_component"} ->
              LET left == IF op = "strip_hybrid" THEN WithoutGroup(msg, hybrid) ELSE msg
              IN  seen = Returned([groups |-> Listed(left),
                                   shares |-> [k \in DOMAIN Shared(left) |-> Shared(left)[k].group]])
        [] op = "none" ->
              seen = Returned([hrr |-> msg.hrr,
                               group |-> IF TLS_KEY_SHARE \in ToSet(msg.order) THEN msg.group ELSE 0])
        [] op = "strip_kexinit_algorithm" -> seen = Returned(WithoutName(msg, hybrid))
        [] op = "forge_ssh_pq_component"  -> TRUE
=============================================================================
