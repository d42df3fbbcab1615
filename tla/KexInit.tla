------------------------------- MODULE KexInit ------------------------------
(***************************************************************************)
(* The SSH packets the on-path proxy rewrites: tools/faultinject/          *)
(* ssh_kexinit.py.  A packet (RFC 4253, section 6) is its length, the      *)
(* length of its padding, the payload and the padding; length field,       *)
(* padding length, payload and padding together fill blocks of 8 bytes.    *)
(***************************************************************************)
EXTENDS ClientHello

SSH_MSG_KEXINIT == 20
SSH_MSG_KEX_ECDH_INIT == 30
SNTRUP761_PUBLICKEY_BYTES == 1158
X25519_BYTES == 32

\* Key exchange names are numbers; what counts is how long they are.
\* 1: sntrup761x25519-sha512@openssh.com   2: curve25519-sha256
\* 3: ecdh-sha2-nistp256                   4: kex-strict-c-v00@openssh.com
HybridKex == 1
NameBytes == <<34, 17, 18, 28>>

\* ",".join(names).encode("ascii")
Joined(names) ==
    IF names = <<>> THEN 0
    ELSE Size([k \in DOMAIN names |-> [size |-> NameBytes[names[k]]]]) + Len(names) - 1
NameList(names) == IF names = <<>> THEN <<>>
                   ELSE <<[name |-> "algorithms", size |-> Joined(names), value |-> names]>>

\* A packet of the client: at least 4 bytes of padding, up to a full block.
Padding(payload) == LET short == (5 + Size(payload)) % 8
                    IN  IF short > 4 THEN 16 - short ELSE 8 - short
Packet(payload, padding) ==
    Num("packet length", 4, 1 + Size(payload) + Size(padding))
    \o Num("padding length", 1, Size(padding)) \o payload \o padding
Padded(payload) == Packet(payload, Opaque("padding", Padding(payload)))

\* The payload of a KEXINIT: type and cookie, the key exchange names, and the
\* other name-lists, flags and reserved bytes.
OtherListBytes == 300
KexInitPayload(names) ==
    Num("message", 1, SSH_MSG_KEXINIT) \o Opaque("cookie", 16)
    \o Num("algorithms length", 4, Joined(names)) \o NameList(names) \o Opaque("other lists", OtherListBytes)
EncodeKexInit(names) == Padded(KexInitPayload(names))

\* KEX_ECDH_INIT: one blob of the given size, the two public keys
\* concatenated; key stands for the bytes of the post-quantum one.
EcdhInitPayload(blob, key) ==
    Num("message", 1, SSH_MSG_KEX_ECDH_INIT) \o Num("blob length", 4, blob)
    \o IF blob < SNTRUP761_PUBLICKEY_BYTES THEN Opaque("ecdh", blob)
       ELSE Num("pq", SNTRUP761_PUBLICKEY_BYTES, key)
            \o Opaque("ecdh", blob - SNTRUP761_PUBLICKEY_BYTES)
EncodeEcdhInit(blob, key) == Padded(EcdhInitPayload(blob, key))

-----------------------------------------------------------------------------

PacketEnd(w) == 4 + Read(w, 0, 4)
PayloadEnd(w) == PacketEnd(w) - Read(w, 4, 1)

\* find_kex_ecdh_init: where the blob starts and how long it is.
FindKexEcdhInit(w) ==
    IF /\ Size(w) >= 10
       /\ PacketEnd(w) <= Size(w) /\ PayloadEnd(w) >= 10
       /\ Read(w, 5, 1) = SSH_MSG_KEX_ECDH_INIT
       /\ 10 + Read(w, 6, 4) <= PayloadEnd(w)
    THEN Returned(<<10, Read(w, 6, 4)>>)
    ELSE Raised

\* Mutant: any blob is taken for the hybrid's.
ForgeAnyBlob(w) ==
    IF ~FindKexEcdhInit(w).ok THEN Raised
    ELSE Returned(Inverted(w, 10, SNTRUP761_PUBLICKEY_BYTES))

ForgeSshPqComponent(w) ==
    Then(FindKexEcdhInit(w), LAMBDA blob :
        IF blob[2] < SNTRUP761_PUBLICKEY_BYTES + X25519_BYTES THEN Raised
        ELSE Returned(Inverted(w, blob[1], SNTRUP761_PUBLICKEY_BYTES)))

\* _kexinit_algorithm_bounds: start and end of the names.
KexinitAlgorithmBounds(w) ==
    IF /\ Size(w) >= 26
       /\ PacketEnd(w) <= Size(w) /\ PayloadEnd(w) >= 26
       /\ Read(w, 5, 1) = SSH_MSG_KEXINIT
       /\ 26 + Read(w, 22, 4) <= PayloadEnd(w)
    THEN Returned(<<26, 26 + Read(w, 22, 4)>>)
    ELSE Raised

KexinitAlgorithms(w) ==
    Then(KexinitAlgorithmBounds(w), LAMBDA bounds :
        LET names == Slice(w, bounds[1], bounds[2])
        IN  Returned(IF names = <<>> THEN <<>> ELSE names[1].value))

\* Mutant: the length field of the list stays.
StripKeepsListLength(w, algorithm) ==
    Then(KexinitAlgorithms(w), LAMBDA names :
        LET retained == Kept(names, {k \in DOMAIN names : names[k] # algorithm})
        IN  IF retained = names THEN Returned(w)
            ELSE Returned(Packet(
                   Slice(w, 5, 26) \o NameList(retained) \o Slice(w, EndOf(w, 22, 4), PayloadEnd(w)),
                   Slice(w, PayloadEnd(w), PacketEnd(w)))))

\* The packet without the algorithm: the lengths of the list and of the
\* packet are recomputed, the padding is the original one, and what follows
\* the packet in the buffer is not appended.
StripKexinitAlgorithm(w, algorithm) ==
    Then(KexinitAlgorithms(w), LAMBDA names :
        LET retained == Kept(names, {k \in DOMAIN names : names[k] # algorithm})
        IN  IF retained = names THEN Returned(w)
            ELSE Returned(Packet(
                   Slice(w, 5, 22) \o Num("algorithms length", 4, Joined(retained))
                   \o NameList(retained) \o Slice(w, EndOf(w, 22, 4), PayloadEnd(w)),
                   Slice(w, PayloadEnd(w), PacketEnd(w)))))
=============================================================================
